----------------------------- MODULE ProjectStore -----------------------------
(***************************************************************************)
(* The project records of the daemon (library_store.py), file by file.      *)
(*                                                                         *)
(* A project is a folder <storage_root>/projects/<name>/ with a pointer     *)
(* file project.json.  The pointer of an unlinked project is its whole      *)
(* record; that of a linked one only names a folder of the user, and the    *)
(* record is the manifest in that folder.  Nothing locks these files: the   *)
(* routes run one after another on the daemon's main thread, but a          *)
(* chat.review job stores its findings from a thread of its own, between    *)
(* any two of their reads and writes, and the webview saves whole records   *)
(* it loaded some time ago.                                                 *)
(*                                                                         *)
(* Each read, truncation and write of a file is a step.  A record is        *)
(* abstracted to the edits it carries: each call that changes a record      *)
(* changes a field nobody else changes, so an edit is never overwritten on  *)
(* purpose.                                                                 *)
(***************************************************************************)
EXTENDS Naturals, FiniteSets

CONSTANTS
    Names,      \* the names of projects
    Dirs,       \* the folders of the user that a project is linked to
    NoDir,      \* no folder
    NoProject,  \* no name
    Layout,     \* Layout[n]: at the start, the folder of n, NoDir, or NoProject
    Handed,     \* Handed[d]: the name in the manifest in d, or NoProject
    Edits,      \* the changes the user and the reviews make, one per call
    Reviews,    \* the chat.review jobs
    Routes,     \* the routes the webview calls
    MayBeKilled \* whether the daemon may be killed, once, and started again

Workers == {"main"} \cup Reviews
AllRoutes == {"load", "set", "save", "create", "hide", "restore", "rename",
              "open"}
Folders == Dirs \cup {NoDir}
Files == Names \cup Dirs

ASSUME ProjectStoreAssumption ==
    /\ Names \cap Dirs = {}
    /\ NoDir \notin Dirs
    /\ NoProject \notin Folders \cup Names
    /\ Layout \in [Names -> Folders \cup {NoProject}]
    /\ Handed \in [Dirs -> Names \cup {NoProject}]
    /\ \A n \in Names: Layout[n] \in Dirs => Handed[Layout[n]] = n
    /\ "main" \notin Reviews
    /\ Routes \subseteq AllRoutes
    /\ MayBeKilled \in BOOLEAN

VARIABLES
    disk,       \* what is at project.json of a name, or in a folder of the user
    pc,         \* pc[w]: the next step of worker w
    call,       \* call[w]: what w was called for
    hand,       \* hand[w]: the record w holds
    handle,     \* handle[w]: the file w has open for writing
    current,    \* the webview's currentProject
    projects,   \* the names in the webview's list
    known,      \* the names a panel, or a call under way, may still hold
    edit,       \* edit[e]: unmade, made, acknowledged, refused, or cut by a kill
    hidden,     \* the removed projects: acknowledged, not undone since
    killed      \* whether the daemon was killed

workerVars == <<pc, call, hand, handle>>
uiVars == <<current, projects, known, edit, hidden>>
vars == <<disk, workerVars, uiVars, killed>>

-------------------------------------------------------------------------------
(* Files. *)

Record == [is: {"record"}, name: Names, dir: Folders, removed: BOOLEAN,
           edits: SUBSET Edits]

\* No folder; a folder without the file; a file that was truncated; one that
\* two writers have mixed up.
Absent == [is |-> "absent"]
Bare == [is |-> "bare"]
Empty == [is |-> "empty"]
Garbage == [is |-> "garbage"]

IsFile(c) == c \notin {Absent, Bare}
Readable(c) == c.is = "record"

\* save_project's pointer of a linked project; mutant: it keeps the record.
PointerFull(r) == r
Pointer(r) == [r EXCEPT !.removed = FALSE, !.edits = {}]

\* _project_dir makes the folder of a name, whoever asks.
Touch(n) == IF disk[n] = Absent THEN Bare ELSE disk[n]

\* No file is open; no call is under way.
Closed == "closed"
NoCall == [route |-> "none"]

NewRecord(n, d) ==
    [is |-> "record", name |-> n, dir |-> d, removed |-> FALSE, edits |-> {}]

Init ==
    /\ disk = [f \in Files |->
                 IF f \in Dirs
                   THEN IF Handed[f] = NoProject THEN Bare
                          ELSE NewRecord(Handed[f], f)
                   ELSE IF Layout[f] = NoProject THEN Absent
                          ELSE NewRecord(f, Layout[f])]
    /\ pc = [w \in Workers |-> "idle"]
    /\ call = [w \in Workers |-> NoCall]
    /\ hand = [w \in Workers |-> Absent]
    /\ handle = [w \in Workers |-> Closed]
    /\ current = Absent
    /\ projects = {n \in Names: Layout[n] # NoProject}
    /\ known = projects
    /\ edit = [e \in Edits |-> "unmade"]
    /\ hidden = {}
    /\ killed = FALSE

\* Worker w goes on at pc to; it holds r.
Go(w, to) == pc' = [pc EXCEPT ![w] = to]
Hold(w, r) == hand' = [hand EXCEPT ![w] = r]

\* _projects_at lists n: an unreadable pointer is listed, a removed one is not.
Listed(n) == IsFile(disk[n]) /\ ~(Readable(disk[n]) /\ disk[n].removed)

\* Puts c at f; a folder is made where there was none.
Put(f, c) == disk' = [disk EXCEPT ![f] = c]

-------------------------------------------------------------------------------
(* What the webview asks for. *)

\* The daemon's main thread takes up a call: at pc, with the record r in hand.
Call(c, at, r) ==
    /\ c.route \in Routes
    /\ pc["main"] = "idle"
    /\ call' = [call EXCEPT !["main"] = c]
    /\ Go("main", at)
    /\ Hold("main", r)
    /\ UNCHANGED <<disk, handle, projects, known, hidden, killed>>

\* A change that nobody has made yet.
Make(e) == edit[e] = "unmade" /\ edit' = [edit EXCEPT ![e] = "made"]

\* project.load: another project is selected, and until its record is there
\* there is none.
CallLoad(n) ==
    /\ Call([route |-> "load", name |-> n], "read", Absent)
    /\ current' = Absent
    /\ UNCHANGED edit

\* A route that sets one field: project.set_intent, set_intent_fields,
\* set_guided_path, set_check_result, set_check_display, set_fabrication_profile,
\* set_footprint_override, add_part_reference, chat.promote_turn.
CallSet(n, e) ==
    /\ Make(e)
    /\ Call([route |-> "set", name |-> n, edit |-> e], "read", Absent)
    /\ UNCHANGED current

\* project.save of {...currentProject, change}: handleSetProjectFolder, or one
\* of the handlers that keep the folder.
CallSave(e, d) ==
    /\ current # Absent
    /\ d \in Dirs \cup {current.dir}
    /\ Make(e)
    /\ Call([route |-> "save", name |-> current.name, edit |-> e], "savePointer",
            [current EXCEPT !.dir = d, !.edits = @ \cup {e}])
    /\ UNCHANGED current

\* project.save of a new project, as handleCreateProject makes it; nameProblem
\* refuses a name in the list.
CallCreate(n, e) ==
    /\ n \notin projects
    /\ Make(e)
    /\ Call([route |-> "create", name |-> n, edit |-> e], "savePointer",
            [NewRecord(n, NoDir) EXCEPT !.edits = {e}])
    /\ UNCHANGED current

\* project.set_removed: TRUE for the open project, FALSE from the list of
\* removed ones.
CallHide ==
    /\ current # Absent
    /\ Call([route |-> "hide", name |-> current.name], "readFlag", Absent)
    /\ UNCHANGED <<current, edit>>
CallRestore(n) ==
    /\ Call([route |-> "restore", name |-> n], "readFlag", Absent)
    /\ UNCHANGED <<current, edit>>

\* project.rename of the open project.
CallRename(n) ==
    /\ current # Absent /\ n # current.name
    /\ Call([route |-> "rename", name |-> current.name, other |-> n], "move", Absent)
    /\ UNCHANGED <<current, edit>>

\* project.open_from_directory.
CallOpen(d) ==
    /\ Call([route |-> "open", dir |-> d], "readFolder", Absent)
    /\ UNCHANGED <<current, edit>>

\* chat.review: its findings are there, and _remember_review stores them.  The
\* load of _remember_review itself is left out: it does no more than the load
\* of set_project_review_result that follows it.
Review(j, n, e) ==
    /\ pc[j] = "idle"
    /\ Make(e)
    /\ call' = [call EXCEPT ![j] = [route |-> "review", name |-> n, edit |-> e]]
    /\ Go(j, "read")
    /\ UNCHANGED <<disk, hand, handle, current, projects, known, hidden, killed>>

-------------------------------------------------------------------------------
(* How a call ends. *)

End(w) ==
    /\ Go(w, IF w = "main" THEN "idle" ELSE "done")
    /\ call' = [call EXCEPT ![w] = NoCall]
    /\ Hold(w, Absent)
    /\ handle' = [handle EXCEPT ![w] = Closed]

\* The edit of the call, if it makes one, becomes s.
EditBecomes(w, s) ==
    edit' = [e \in Edits |-> IF "edit" \in DOMAIN call[w] /\ e = call[w].edit
                               THEN s ELSE edit[e]]

\* An exception: the caller is told; what was written stays.
Raise(w) ==
    /\ End(w)
    /\ EditBecomes(w, "refused")
    /\ UNCHANGED <<current, projects, known, hidden, killed>>

\* What currentProject may be after an answer r.  A load or a save puts the
\* record there; only some callers of a set route do.  A removal closes the
\* project, and so do a rename, a creation and an opening, which select another
\* name: its load follows.  Opening the folder of the open project changes no
\* name, and loads nothing.
Adopted(route, r) ==
    LET same == current # Absent /\ current.name = r.name
    IN CASE route \in {"load", "save"} -> {r}
         [] route = "set" /\ same -> {r, current}
         [] route = "open" /\ same -> {current}
         [] route \in {"hide", "rename", "create", "open"} -> {Absent}
         [] OTHER -> {current}

\* The project a call is about.
Target(w) == call[w].name

\* What the handlers make of the list; a rename that is over has swapped the
\* two names of its call.
ListAfter(c) ==
    CASE c.route = "hide" -> projects \ {c.name}
      [] c.route \in {"restore", "create", "open"} -> projects \cup {c.name}
      [] c.route = "rename" -> (projects \ {c.other}) \cup {c.name}
      [] OTHER -> projects

\* The route returns r.
Return(w, r) ==
    /\ End(w)
    /\ EditBecomes(w, "acknowledged")
    /\ current' \in Adopted(call[w].route, r)
    /\ projects' = ListAfter(call[w])
    /\ known' = known \cup {Target(w)}
    /\ hidden' = CASE call[w].route = "hide" -> hidden \cup {Target(w)}
                   [] call[w].route \in {"restore", "open", "create"} ->
                        hidden \ {Target(w)}
                   [] call[w].route = "rename" ->
                        hidden \ {Target(w), call[w].other}
                   [] OTHER -> hidden
    /\ UNCHANGED killed

\* The step goes on to another one.
Then(w, to, r) ==
    /\ Go(w, to)
    /\ Hold(w, r)
    /\ UNCHANGED <<call, handle, uiVars, killed>>

-------------------------------------------------------------------------------
(* The steps of library_store: load_project, save_project, and the rest. *)

At(w, s) == pc[w] = s

\* load_project has the record r: a load is over, a set route changes it.
\* Mutant: the route starts from an empty record.
LoadedBlank(w, r) ==
    IF call[w].route \in {"load", "open"} THEN Return(w, r)
    ELSE Then(w, "savePointer", [r EXCEPT !.edits = {call[w].edit}])
\* Mutant: load_project drops the flag, as save_project's pointer does.
LoadedUnflagged(w, r) ==
    IF call[w].route \in {"load", "open"} THEN Return(w, r)
    ELSE Then(w, "savePointer",
              [r EXCEPT !.edits = @ \cup {call[w].edit}, !.removed = FALSE])
Loaded(w, r) ==
    IF call[w].route \in {"load", "open"} THEN Return(w, r)
    ELSE Then(w, "savePointer", [r EXCEPT !.edits = @ \cup {call[w].edit}])

\* load_project reads the pointer; computing its path makes the folder.
Read(w) ==
    /\ At(w, "read")
    /\ LET n == Target(w)
           c == disk[n]
       IN /\ Put(n, Touch(n))
          /\ IF ~Readable(c) THEN Raise(w)
             ELSE IF c.dir = NoDir THEN Loaded(w, [c EXCEPT !.name = n])
             ELSE Then(w, "readManifest", c)

\* A linked project: the manifest, under the name and the folder of the pointer.
ReadManifest(w) ==
    /\ At(w, "readManifest")
    /\ LET c == disk[hand[w].dir]
       IN IF ~Readable(c) THEN Raise(w)
          ELSE Loaded(w, [c EXCEPT !.name = Target(w), !.dir = hand[w].dir])
    /\ UNCHANGED disk

\* _write_json opens the file: it is empty until the record is written.
Truncate(w, f, to) ==
    /\ Put(f, Empty)
    /\ handle' = [handle EXCEPT ![w] = f]
    /\ Go(w, to)
    /\ UNCHANGED <<call, hand, uiVars, killed>>

\* It writes the record at the start of the file.  If another writer has put its
\* own there since, the longer of the two may stick out.
Written(f, r) == IF disk[f] = Empty THEN {r} ELSE {r, Garbage}

SavePointer(w) == At(w, "savePointer") /\ Truncate(w, Target(w), "writePointer")

Saves(w) == call[w].route \in {"set", "save", "create", "review"}

\* save_project's pointer of a linked project; any other pointer is as in hand.
\* Mutant: the pointer of a linked project is not flushed before the manifest
\* is opened.
WritePointerLater(w) ==
    /\ At(w, "writePointer")
    /\ LET r == hand[w]
       IN IF Saves(w) /\ r.dir # NoDir
            THEN Then(w, "saveManifest", r) /\ UNCHANGED disk
            ELSE /\ \E c \in Written(handle[w], r): Put(handle[w], c)
                 /\ CASE call[w].route = "rename" /\ r.dir # NoDir ->
                           Then(w, "renameManifest", r)
                      [] call[w].route = "open" -> Then(w, "read", r)
                      [] OTHER -> Return(w, r)
WritePointer(w) ==
    /\ At(w, "writePointer")
    /\ LET r == hand[w]
           linked == r.dir # NoDir
           f == handle[w]
       IN /\ \E c \in Written(f, IF Saves(w) /\ linked THEN Pointer(r) ELSE r):
                Put(f, c)
          /\ CASE Saves(w) /\ linked -> Then(w, "saveManifest", r)
               [] call[w].route = "rename" /\ linked -> Then(w, "renameManifest", r)
               [] call[w].route = "open" -> Then(w, "read", r)
               [] OTHER -> Return(w, r)

SaveManifest(w) ==
    At(w, "saveManifest") /\ Truncate(w, hand[w].dir, "writeManifest")

WriteManifest(w) ==
    /\ At(w, "writeManifest")
    /\ \E c \in Written(handle[w], hand[w]): Put(handle[w], c)
    /\ Return(w, hand[w])

\* set_project_removed reads the pointer to change the flag on it.
ReadFlag(w) ==
    /\ At(w, "readFlag")
    /\ LET n == Target(w)
           c == disk[n]
       IN /\ Put(n, Touch(n))
          /\ IF ~Readable(c) THEN Raise(w)
             ELSE Then(w, "savePointer",
                       [c EXCEPT !.removed = call[w].route = "hide"])

\* Mutant of Moved: the old folder stays.
Copied(n, m) == [disk EXCEPT ![m] = disk[n]]
Moved(n, m) == [disk EXCEPT ![m] = disk[n], ![n] = Absent]

\* rename_project moves the folder; a file that is open moves with it.  What
\* others do between its two checks and os.rename they could as well do before
\* or after all three.
Move(w) ==
    /\ At(w, "move")
    /\ LET n == call[w].name
           m == call[w].other
       IN IF IsFile(disk[n]) /\ disk[m] = Absent
            THEN /\ disk' = Moved(n, m)
                 /\ handle' = [v \in Workers |->
                                 IF handle[v] = n THEN m ELSE handle[v]]
                 /\ call' = [call EXCEPT ![w].name = m, ![w].other = n]
                 /\ Go(w, "renameRead")
                 /\ UNCHANGED <<hand, uiVars, killed>>
            ELSE Raise(w) /\ UNCHANGED disk

\* It then puts the new name into the pointer,
RenameRead(w) ==
    /\ At(w, "renameRead")
    /\ LET c == disk[Target(w)]
       IN IF ~Readable(c) THEN Raise(w)
          ELSE Then(w, "savePointer", [c EXCEPT !.name = Target(w)])
    /\ UNCHANGED disk

\* and into the manifest, if there is one.
RenameManifest(w) ==
    /\ At(w, "renameManifest")
    /\ LET c == disk[hand[w].dir]
       IN CASE Readable(c) ->
                 Then(w, "saveManifest", [c EXCEPT !.name = Target(w)])
            [] IsFile(c) /\ ~Readable(c) -> Raise(w)
            [] OTHER -> Return(w, hand[w])
    /\ UNCHANGED disk

\* open_project_from_directory takes the name from the manifest and writes the
\* pointer of that name, whatever is there.
ReadFolder(w) ==
    /\ At(w, "readFolder")
    /\ LET d == call[w].dir
           c == disk[d]
       IN IF ~Readable(c) THEN Raise(w)
          ELSE /\ call' = [call EXCEPT ![w] = [route |-> "open", name |-> c.name]]
               /\ Go(w, "savePointer")
               /\ Hold(w, NewRecord(c.name, d))
               /\ UNCHANGED <<handle, uiVars, killed>>
    /\ UNCHANGED disk

Step(w) ==
    \/ Read(w)
    \/ ReadManifest(w)
    \/ SavePointer(w)
    \/ WritePointer(w)
    \/ SaveManifest(w)
    \/ WriteManifest(w)
    \/ ReadFlag(w)
    \/ Move(w)
    \/ RenameRead(w)
    \/ RenameManifest(w)
    \/ ReadFolder(w)

\* The edits on disk, and those that a worker has taken off the disk and is about
\* to put back.
Stored == UNION {disk[f].edits : f \in {g \in Files: Readable(disk[g])}}
InHand ==
    UNION {hand[w].edits : w \in {v \in Workers:
              pc[v] \in {"writePointer", "saveManifest", "writeManifest"}}}

\* The daemon is killed and started again, once: a file that was being written
\* stays empty, and what only it held is cut.
Kill ==
    /\ MayBeKilled
    /\ ~killed
    /\ killed' = TRUE
    /\ pc' = [w \in Workers |-> IF w = "main" THEN "idle" ELSE "done"]
    /\ call' = [w \in Workers |-> NoCall]
    /\ hand' = [w \in Workers |-> Absent]
    /\ handle' = [w \in Workers |-> Closed]
    /\ edit' = [e \in Edits |->
                  IF edit[e] = "made" \/ e \in InHand \ Stored THEN "cut"
                                                               ELSE edit[e]]
    /\ current' = Absent
    /\ projects' = {n \in Names: Listed(n)}
    /\ known' = {n \in Names: IsFile(disk[n])}
    /\ UNCHANGED <<disk, hidden>>

Next ==
    \/ \E n \in projects: CallLoad(n)
    \/ \E n \in hidden: CallRestore(n)
    \/ \E n \in known, e \in Edits: CallSet(n, e)
    \/ \E e \in Edits, d \in Folders: CallSave(e, d)
    \/ \E n \in Names, e \in Edits: CallCreate(n, e)
    \/ CallHide
    \/ \E n \in Names: CallRename(n)
    \/ \E d \in Dirs: CallOpen(d)
    \/ \E j \in Reviews, n \in known, e \in Edits: Review(j, n, e)
    \/ \E w \in Workers: Step(w)
    \/ Kill

Spec == Init /\ [][Next]_vars

-------------------------------------------------------------------------------
(* What is checked. *)

PCs == {"idle", "done", "read", "readManifest", "savePointer", "writePointer",
        "saveManifest", "writeManifest", "readFlag", "move", "renameRead",
        "renameManifest", "readFolder"}

\* The type of every variable, with the routing of save_project in it: the
\* pointer of a linked project carries no part of the record.
TypeOK ==
    /\ disk \in [Files -> Record \cup {Absent, Bare, Empty, Garbage}]
    /\ \A n \in Names: Readable(disk[n]) /\ disk[n].dir # NoDir =>
          disk[n].edits = {}
    /\ pc \in [Workers -> PCs]
    /\ DOMAIN call = Workers
    /\ hand \in [Workers -> Record \cup {Absent}]
    /\ handle \in [Workers -> Files \cup {Closed}]
    /\ current \in Record \cup {Absent}
    /\ projects \subseteq known /\ known \subseteq Names /\ hidden \subseteq Names
    /\ edit \in [Edits -> {"unmade", "made", "acknowledged", "refused", "cut"}]
    /\ killed \in BOOLEAN

\* An edit that was acknowledged stays in some record (every set_* route loads
\* the project fresh and saves it whole; projects.ts:197-201 and
\* SPEC-333 give that as the reason for having them).
AcknowledgedEditsKept ==
    \A e \in Edits: edit[e] = "acknowledged" => e \in Stored \cup InHand

\* No two projects share a folder of the user (rename_project, which is there
\* because a second pointer made "one folder, two projects").
OneFolderOneProject ==
    \A n, m \in Names:
        /\ Readable(disk[n]) /\ Readable(disk[m])
        /\ disk[n].dir # NoDir /\ disk[n].dir = disk[m].dir
        => n = m

\* Nobody is in the middle of a call.
Quiet == \A w \in Workers: pc[w] \in {"idle", "done"}

\* A removed project that is not linked stays out of the list until it is put
\* back or opened: load_project reads its flag and save_project writes it back
\* with the record (set_project_removed).
UnlinkedRemovalSticks ==
    Quiet =>
        \A n \in hidden: Readable(disk[n]) /\ disk[n].dir = NoDir => ~Listed(n)

\* A kill damages at most the one file that was being written (_write_json).
KillDamagesOneFile ==
    Cardinality({f \in Files: disk[f] \in {Empty, Garbage}
                              /\ \A w \in Workers: handle[w] # f}) <= 1
===============================================================================
