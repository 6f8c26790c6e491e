-------------------------- MODULE ProjectStore_proofs --------------------------
(***************************************************************************)
(* Proofs about ProjectStore, for any names, folders, edits and reviews.    *)
(***************************************************************************)
EXTENDS ProjectStore, FiniteSetTheorems, TLAPS

-------------------------------------------------------------------------------
(* The type of the variables, and what each step of a worker relies on. *)

Contents == Record \cup {Absent, Bare, Empty, Garbage}

\* What is in the files: a pointer of a linked project carries no part of the
\* record, and a manifest names its own folder.
DiskTyped ==
    /\ disk \in [Files -> Contents]
    /\ \A n \in Names: Readable(disk[n]) /\ disk[n].dir # NoDir => disk[n].edits = {}
    /\ \A d \in Dirs: Readable(disk[d]) => disk[d].dir = d

\* What the webview holds.
UiTyped ==
    /\ current \in Record \cup {Absent}
    /\ projects \subseteq known /\ known \subseteq Names /\ hidden \subseteq Names
    /\ edit \in [Edits -> {"unmade", "made", "acknowledged", "refused", "cut"}]

\* The calls of each route.
Loading == [route: {"load"}, name: Names]
Saving == [route: {"set", "save", "create", "review"}, name: Names, edit: Edits]
Flagging == [route: {"hide", "restore"}, name: Names]
Renaming == [route: {"rename"}, name: Names, other: Names]
Opening == [route: {"open"}, dir: Dirs]
Opened == [route: {"open"}, name: Names]
NamedCall == Loading \cup Saving \cup Flagging \cup Renaming \cup Opened

\* The call that a step at s is part of.
CallAt(s) ==
    CASE s \in {"idle", "done"} -> {NoCall}
      [] s \in {"read", "readManifest"} -> Loading \cup Saving \cup Opened
      [] s \in {"savePointer", "writePointer"} -> Saving \cup Flagging \cup Renaming \cup Opened
      [] s \in {"saveManifest", "writeManifest"} -> Saving \cup Renaming
      [] s = "readFlag" -> Flagging
      [] s = "readFolder" -> Opening
      [] OTHER -> Renaming

\* What worker w holds: a record before it writes one, of a linked project
\* before it reads or writes a manifest; and the file it has open.
Placed(w) ==
    /\ pc[w] \in PCs /\ call[w] \in CallAt(pc[w])
    /\ hand[w] \in Record \cup {Absent} /\ handle[w] \in Files \cup {Closed}
    /\ pc[w] \in {"readManifest", "savePointer", "writePointer", "saveManifest",
                  "writeManifest", "renameManifest"} => hand[w] \in Record
    /\ pc[w] \in {"readManifest", "saveManifest", "writeManifest", "renameManifest"}
          => hand[w].dir \in Dirs
    /\ pc[w] \in {"savePointer", "writePointer"} /\ ~Saves(w) /\ hand[w].dir # NoDir
          => hand[w].edits = {}
    /\ pc[w] = "writePointer" => handle[w] \in Names
    /\ pc[w] = "writeManifest" => handle[w] = hand[w].dir

WorkersPlaced ==
    /\ DOMAIN pc = Workers /\ pc = [w \in Workers |-> pc[w]]
    /\ DOMAIN call = Workers /\ call = [w \in Workers |-> call[w]]
    /\ DOMAIN hand = Workers /\ hand = [w \in Workers |-> hand[w]]
    /\ DOMAIN handle = Workers /\ handle = [w \in Workers |-> handle[w]]
    /\ \A w \in Workers: Placed(w)

Typed == DiskTyped /\ UiTyped /\ WorkersPlaced /\ killed \in BOOLEAN

LEMMA TypedImplies == Typed => TypeOK
  BY DEF Typed, TypeOK, DiskTyped, UiTyped, WorkersPlaced, Placed, Contents

\* The kinds of contents are told apart.
LEMMA Kinds ==
  /\ ~Readable(Absent) /\ ~Readable(Bare) /\ ~Readable(Empty) /\ ~Readable(Garbage)
  /\ \A r \in Record: Readable(r) /\ IsFile(r)
  /\ \A c \in Contents: Readable(c) => c \in Record
  /\ IsFile(Empty) /\ IsFile(Garbage)
  /\ Absent # Bare /\ Empty # Garbage
  BY DEF Readable, IsFile, Absent, Bare, Empty, Garbage, Record, Contents

\* Initially all of it holds.
LEMMA InitTyped == Init => Typed
<1> SUFFICES ASSUME Init PROVE Typed
  OBVIOUS
<1> USE ProjectStoreAssumption
<1>1. \A n \in Names, d \in Folders: NewRecord(n, d) \in Record
  BY DEF NewRecord, Record
<1>2. ASSUME NEW f \in Files
      PROVE  /\ disk[f] \in Contents
             /\ f \in Names /\ Readable(disk[f]) => disk[f].edits = {}
             /\ f \in Dirs /\ Readable(disk[f]) => disk[f].dir = f
  <2>1. CASE f \in Dirs
    <3>1. disk[f] = IF Handed[f] = NoProject THEN Bare ELSE NewRecord(Handed[f], f)
      BY <2>1 DEF Init
    <3>2. QED
      BY <1>1, <2>1, <3>1, Kinds DEF Contents, Folders, NewRecord
  <2>2. CASE f \in Names
    <3>1. disk[f] = IF Layout[f] = NoProject THEN Absent ELSE NewRecord(f, Layout[f])
      BY <2>2 DEF Init
    <3>2. QED
      BY <1>1, <2>2, <3>1, Kinds DEF Contents, NewRecord
  <2>3. QED
    BY <2>1, <2>2 DEF Files
<1>3. DiskTyped
  BY <1>2 DEF DiskTyped, Init, Files
<1>4. UiTyped
  BY DEF UiTyped, Init
<1>5. WorkersPlaced
  BY DEF WorkersPlaced, Placed, Init, PCs, CallAt, NoCall
<1>6. QED
  BY <1>3, <1>4, <1>5 DEF Typed, Init

-------------------------------------------------------------------------------
(* What one worker does leaves the others where they are. *)

SameWorker(v) ==
    pc'[v] = pc[v] /\ call'[v] = call[v] /\ hand'[v] = hand[v] /\ handle'[v] = handle[v]

WorkShape ==
    /\ DOMAIN pc = Workers /\ pc = [w \in Workers |-> pc[w]]
    /\ DOMAIN call = Workers /\ call = [w \in Workers |-> call[w]]
    /\ DOMAIN hand = Workers /\ hand = [w \in Workers |-> hand[w]]
    /\ DOMAIN handle = Workers /\ handle = [w \in Workers |-> handle[w]]

LEMMA OthersPlaced ==
  ASSUME WorkersPlaced, NEW w \in Workers, Placed(w)', WorkShape',
         \A v \in Workers \ {w}: SameWorker(v)
  PROVE  WorkersPlaced'
  BY DEF WorkersPlaced, WorkShape, SameWorker, Placed, Saves

\* A file gets contents that fit it.
LEMMA PutTyped ==
  ASSUME DiskTyped, NEW f \in Files, NEW c \in Contents, Put(f, c),
         f \in Names /\ Readable(c) /\ c.dir # NoDir => c.edits = {},
         f \in Dirs /\ Readable(c) => c.dir = f
  PROVE  DiskTyped'
  BY DEF DiskTyped, Put, Files
-------------------------------------------------------------------------------
(* How a step ends: with an answer, an exception, or another step. *)

LEMMA EndPlaced ==
  ASSUME Typed, NEW w \in Workers, End(w)
  PROVE  WorkersPlaced'
<1>1. WorkShape' /\ \A v \in Workers \ {w}: SameWorker(v)
  BY DEF Typed, WorkersPlaced, WorkShape, SameWorker, End, Go, Hold
<1>2. Placed(w)'
  BY DEF Typed, WorkersPlaced, Placed, End, Go, Hold, CallAt, PCs
<1>3. QED
  BY <1>1, <1>2, OthersPlaced DEF Typed

LEMMA RaiseTyped ==
  ASSUME Typed, NEW w \in Workers, DiskTyped', Raise(w)
  PROVE  Typed'
<1>1. WorkersPlaced'
  BY EndPlaced DEF Raise
<1>2. UiTyped'
  BY DEF Typed, UiTyped, Raise, EditBecomes
<1>3. QED
  BY <1>1, <1>2 DEF Typed, Raise

LEMMA ReturnTyped ==
  ASSUME Typed, NEW w \in Workers, NEW r \in Record, call[w] \in NamedCall,
         DiskTyped', Return(w, r)
  PROVE  Typed'
<1>1. WorkersPlaced'
  BY EndPlaced DEF Return
<1>2. Target(w) \in Names /\ (call[w].route = "rename" => call[w].other \in Names)
  BY DEF Target, NamedCall, Loading, Saving, Flagging, Renaming, Opened
<1>3. current' \in Record \cup {Absent}
  <2>1. Adopted(call[w].route, r) \subseteq Record \cup {Absent}
    BY DEF Typed, UiTyped, Adopted
  <2>2. QED
    BY <2>1 DEF Return
<1>4. projects' \subseteq known' /\ known' \subseteq Names
  BY <1>2 DEF Typed, UiTyped, Return, ListAfter, Target
<1>5. hidden' \subseteq Names
  BY <1>2 DEF Typed, UiTyped, Return
<1>6. edit' \in [Edits -> {"unmade", "made", "acknowledged", "refused", "cut"}]
  BY DEF Typed, UiTyped, Return, EditBecomes
<1>7. QED
  BY <1>1, <1>3, <1>4, <1>5, <1>6 DEF Typed, UiTyped, Return

LEMMA ThenTyped ==
  ASSUME Typed, NEW w \in Workers, NEW r \in Record,
         NEW to \in PCs \ {"writePointer", "writeManifest"},
         call[w] \in CallAt(to), DiskTyped', Then(w, to, r),
         to \in {"readManifest", "saveManifest", "renameManifest"} => r.dir \in Dirs,
         to = "savePointer" /\ ~Saves(w) /\ r.dir # NoDir => r.edits = {}
  PROVE  Typed'
<1>1. WorkShape' /\ \A v \in Workers \ {w}: SameWorker(v)
  BY DEF Typed, WorkersPlaced, WorkShape, SameWorker, Then, Go, Hold
<1>2. Placed(w)'
  <2>1. pc'[w] = to /\ hand'[w] = r /\ call' = call /\ handle' = handle
    BY DEF Typed, WorkersPlaced, Then, Go, Hold
  <2>2. QED
    BY <2>1 DEF Typed, WorkersPlaced, Placed, Saves
<1>3. QED
  BY <1>1, <1>2, OthersPlaced DEF Typed, UiTyped, Then, uiVars

\* A file that is opened is empty; the worker has it open, and writes next.
LEMMA TruncateTyped ==
  ASSUME Typed, NEW w \in Workers, NEW f \in Files, NEW to, Truncate(w, f, to),
         hand[w] \in Record,
         \/ to = "writePointer" /\ pc[w] = "savePointer" /\ f \in Names
         \/ to = "writeManifest" /\ pc[w] = "saveManifest" /\ f = hand[w].dir
  PROVE  Typed'
<1>1. DiskTyped'
  BY PutTyped, Kinds DEF Typed, Truncate, Contents
<1>2. WorkShape' /\ \A v \in Workers \ {w}: SameWorker(v)
  BY DEF Typed, WorkersPlaced, WorkShape, SameWorker, Truncate, Go
<1>3. Placed(w)'
  <2>1. pc'[w] = to /\ hand' = hand /\ call' = call /\ handle'[w] = f
    BY DEF Typed, WorkersPlaced, Truncate, Go
  <2>2. QED
    BY <2>1 DEF Typed, WorkersPlaced, Placed, Saves, CallAt, PCs
<1>4. QED
  BY <1>1, <1>2, <1>3, OthersPlaced DEF Typed, UiTyped, Truncate, uiVars
-------------------------------------------------------------------------------
(* The steps of a worker. *)

\* A changed field of a record leaves a record.
LEMMA RecordChanges ==
  ASSUME NEW r \in Record
  PROVE  /\ r.name \in Names /\ r.dir \in Folders /\ r.edits \in SUBSET Edits
         /\ \A n \in Names: [r EXCEPT !.name = n] \in Record
         /\ \A d \in Folders: [r EXCEPT !.dir = d] \in Record
         /\ \A b \in BOOLEAN: [r EXCEPT !.removed = b] \in Record
         /\ \A E \in SUBSET Edits: [r EXCEPT !.edits = E] \in Record
         /\ Pointer(r) \in Record /\ Pointer(r).edits = {} /\ Pointer(r).dir = r.dir
         /\ Pointer(r).name = r.name
  BY DEF Record, Pointer

\* Reading a file of a folder that is not there makes the folder.
LEMMA TouchTyped ==
  ASSUME Typed, NEW n \in Names, Put(n, Touch(n))
  PROVE  DiskTyped'
<1>1. n \in Files /\ n \notin Dirs
  BY ProjectStoreAssumption DEF Files
<1>2. Touch(n) \in Contents
  BY <1>1 DEF Touch, Contents, Typed, DiskTyped
<1>3. Readable(Touch(n)) => Touch(n) = disk[n]
  BY Kinds DEF Touch
<1>4. QED
  BY <1>1, <1>2, <1>3, PutTyped DEF Typed, DiskTyped

LEMMA LoadedTyped ==
  ASSUME Typed, NEW w \in Workers, NEW r \in Record, call[w] \in CallAt("read"),
         DiskTyped', Loaded(w, r)
  PROVE  Typed'
<1>1. CASE call[w].route \in {"load", "open"}
  BY <1>1, ReturnTyped DEF Loaded, CallAt, NamedCall
<1>2. CASE call[w].route \notin {"load", "open"}
  <2>1. call[w] \in Saving
    BY <1>2 DEF CallAt, Loading, Opened
  <2> DEFINE q == [r EXCEPT !.edits = @ \cup {call[w].edit}]
  <2>2. q \in Record /\ Then(w, "savePointer", q)
    BY <1>2, <2>1, RecordChanges DEF Loaded, Saving
  <2>3. Saves(w) /\ call[w] \in CallAt("savePointer") /\ "savePointer" \in PCs
    BY <2>1 DEF Saves, Saving, CallAt, PCs
  <2>4. QED
    BY <2>2, <2>3, ThenTyped
<1>3. QED
  BY <1>1, <1>2

LEMMA ReadTyped ==
  ASSUME Typed, NEW w \in Workers, Read(w)
  PROVE  Typed'
<1> DEFINE n == Target(w)
           c == disk[n]
<1>1. call[w] \in CallAt("read") /\ n \in Names
  BY DEF Read, At, Typed, WorkersPlaced, Placed, CallAt, Loading, Saving, Opened, Target
<1>2. DiskTyped'
  BY <1>1, TouchTyped DEF Read
<1>3. CASE ~Readable(c)
  BY <1>2, <1>3, RaiseTyped DEF Read
<1>4. Readable(c) => c \in Record
  BY <1>1, Kinds DEF Typed, DiskTyped, Files
<1>5. CASE Readable(c) /\ c.dir = NoDir
  BY <1>1, <1>2, <1>4, <1>5, LoadedTyped, RecordChanges DEF Read
<1>6. CASE Readable(c) /\ c.dir # NoDir
  <2>1. c \in Record /\ c.dir \in Dirs
    BY <1>4, <1>6, RecordChanges DEF Folders
  <2>2. Then(w, "readManifest", c)
    BY <1>6 DEF Read
  <2>3. call[w] \in CallAt("readManifest")
    BY <1>1 DEF CallAt
  <2>4. QED
    BY <1>2, <2>1, <2>2, <2>3, ThenTyped DEF PCs
<1>7. QED
  BY <1>3, <1>5, <1>6

LEMMA ReadManifestTyped ==
  ASSUME Typed, NEW w \in Workers, ReadManifest(w)
  PROVE  Typed'
<1> DEFINE c == disk[hand[w].dir]
<1>1. /\ call[w] \in CallAt("read") /\ Target(w) \in Names
      /\ hand[w] \in Record /\ hand[w].dir \in Dirs
  BY DEF ReadManifest, At, Typed, WorkersPlaced, Placed, CallAt, Loading, Saving,
         Opened, Target
<1>2. DiskTyped'
  BY DEF ReadManifest, Typed, DiskTyped
<1>3. CASE ~Readable(c)
  BY <1>2, <1>3, RaiseTyped DEF ReadManifest
<1>4. CASE Readable(c)
  <2>1. c \in Record
    BY <1>1, <1>4, Kinds DEF Typed, DiskTyped, Files
  <2> DEFINE r == [c EXCEPT !.name = Target(w), !.dir = hand[w].dir]
  <2>2. r \in Record
    BY <1>1, <2>1 DEF Record, Folders
  <2>3. Loaded(w, r)
    BY <1>4 DEF ReadManifest
  <2>4. QED
    BY <1>1, <1>2, <2>2, <2>3, LoadedTyped
<1>5. QED
  BY <1>3, <1>4

LEMMA SavePointerTyped ==
  ASSUME Typed, NEW w \in Workers, SavePointer(w)
  PROVE  Typed'
<1>1. Target(w) \in Names /\ hand[w] \in Record /\ pc[w] = "savePointer"
  BY DEF SavePointer, At, Typed, WorkersPlaced, Placed, CallAt, Saving, Flagging,
         Renaming, Opened, Target
<1>2. QED
  BY <1>1, TruncateTyped DEF SavePointer, Files

LEMMA SaveManifestTyped ==
  ASSUME Typed, NEW w \in Workers, SaveManifest(w)
  PROVE  Typed'
<1>1. hand[w] \in Record /\ hand[w].dir \in Dirs /\ pc[w] = "saveManifest"
  BY DEF SaveManifest, At, Typed, WorkersPlaced, Placed
<1>2. QED
  BY <1>1, TruncateTyped DEF SaveManifest, Files

\* What is written is the record, or a mix of two.
LEMMA WrittenContents ==
  ASSUME NEW f, NEW r \in Record, NEW c \in Written(f, r)
  PROVE  c \in Contents /\ (Readable(c) => c = r)
  BY Kinds DEF Written, Contents

LEMMA WritePointerTyped ==
  ASSUME Typed, NEW w \in Workers, WritePointer(w)
  PROVE  Typed'
<1> DEFINE r == hand[w]
           linked == r.dir # NoDir
           f == handle[w]
           p == IF Saves(w) /\ linked THEN Pointer(r) ELSE r
<1>1. /\ pc[w] = "writePointer" /\ call[w] \in CallAt("writePointer")
      /\ r \in Record /\ f \in Names /\ (linked => r.dir \in Dirs)
      /\ linked /\ ~Saves(w) => r.edits = {}
  BY RecordChanges DEF WritePointer, At, Typed, WorkersPlaced, Placed, Folders
<1>2. p \in Record /\ (p.dir # NoDir => p.edits = {})
  BY <1>1, RecordChanges
<1>3. DiskTyped'
  <2>1. PICK c \in Written(f, p): Put(f, c)
    BY DEF WritePointer
  <2>2. c \in Contents /\ (Readable(c) => c = p)
    BY <1>2, <2>1, WrittenContents
  <2>3. f \in Files /\ f \notin Dirs
    BY <1>1, ProjectStoreAssumption DEF Files
  <2>4. QED
    BY <1>2, <2>1, <2>2, <2>3, PutTyped DEF Typed
<1>4. CASE Saves(w) /\ linked
  <2>1. Then(w, "saveManifest", r)
    BY <1>4 DEF WritePointer, Saves
  <2>2. call[w] \in CallAt("saveManifest")
    BY <1>1, <1>4 DEF CallAt, Saves, Flagging, Opened
  <2>3. QED
    BY <1>1, <1>3, <1>4, <2>1, <2>2, ThenTyped DEF PCs
<1>5. CASE ~(Saves(w) /\ linked) /\ call[w].route = "rename" /\ linked
  <2>1. Then(w, "renameManifest", r)
    BY <1>5 DEF WritePointer
  <2>2. call[w] \in CallAt("renameManifest")
    BY <1>1, <1>5 DEF CallAt, Saving, Flagging, Opened
  <2>3. QED
    BY <1>1, <1>3, <1>5, <2>1, <2>2, ThenTyped DEF PCs
<1>6. CASE call[w].route = "open"
  <2>1. Then(w, "read", r)
    BY <1>6 DEF WritePointer, Saves
  <2>2. call[w] \in CallAt("read")
    BY <1>1, <1>6 DEF CallAt, Saving, Flagging, Renaming
  <2>3. QED
    BY <1>1, <1>3, <2>1, <2>2, ThenTyped DEF PCs
<1>7. CASE /\ ~(Saves(w) /\ linked) /\ ~(call[w].route = "rename" /\ linked)
           /\ call[w].route # "open"
  <2>1. Return(w, r)
    BY <1>7 DEF WritePointer
  <2>2. call[w] \in NamedCall
    BY <1>1 DEF CallAt, NamedCall
  <2>3. QED
    BY <1>1, <1>3, <2>1, <2>2, ReturnTyped
<1>8. QED
  BY <1>4, <1>5, <1>6, <1>7

LEMMA WriteManifestTyped ==
  ASSUME Typed, NEW w \in Workers, WriteManifest(w)
  PROVE  Typed'
<1>1. /\ call[w] \in CallAt("writeManifest") /\ hand[w] \in Record
      /\ hand[w].dir \in Dirs /\ handle[w] = hand[w].dir
  BY DEF WriteManifest, At, Typed, WorkersPlaced, Placed
<1>2. DiskTyped'
  <2>1. PICK c \in Written(handle[w], hand[w]): Put(handle[w], c)
    BY DEF WriteManifest
  <2>2. c \in Contents /\ (Readable(c) => c = hand[w])
    BY <1>1, <2>1, WrittenContents
  <2>3. handle[w] \in Files /\ handle[w] \notin Names
    BY <1>1, ProjectStoreAssumption DEF Files
  <2>4. QED
    BY <1>1, <2>1, <2>2, <2>3, PutTyped DEF Typed
<1>3. call[w] \in NamedCall
  BY <1>1 DEF CallAt, NamedCall
<1>4. QED
  BY <1>1, <1>2, <1>3, ReturnTyped DEF WriteManifest

LEMMA ReadFlagTyped ==
  ASSUME Typed, NEW w \in Workers, ReadFlag(w)
  PROVE  Typed'
<1> DEFINE n == Target(w)
           c == disk[n]
<1>1. call[w] \in Flagging /\ n \in Names
  BY DEF ReadFlag, At, Typed, WorkersPlaced, Placed, CallAt, Flagging, Target
<1>2. DiskTyped'
  BY <1>1, TouchTyped DEF ReadFlag
<1>3. CASE ~Readable(c)
  BY <1>2, <1>3, RaiseTyped DEF ReadFlag
<1>4. CASE Readable(c)
  <2> DEFINE q == [c EXCEPT !.removed = call[w].route = "hide"]
  <2>1. c \in Record /\ (c.dir # NoDir => c.edits = {})
    BY <1>1, <1>4, Kinds DEF Typed, DiskTyped, Files
  <2>2. q \in Record /\ q.dir = c.dir /\ q.edits = c.edits
    BY <2>1 DEF Record
  <2>3. Then(w, "savePointer", q)
    BY <1>4 DEF ReadFlag
  <2>4. call[w] \in CallAt("savePointer")
    BY <1>1 DEF CallAt
  <2>5. QED
    BY <1>2, <2>1, <2>2, <2>3, <2>4, ThenTyped DEF PCs
<1>5. QED
  BY <1>3, <1>4
\* A rename moves the folder, and with it the file that another may have open.
LEMMA MoveTyped ==
  ASSUME Typed, NEW w \in Workers, Move(w)
  PROVE  Typed'
<1> DEFINE n == call[w].name
           m == call[w].other
<1>1. call[w] \in Renaming /\ n \in Names /\ m \in Names /\ pc[w] = "move"
  BY DEF Move, At, Typed, WorkersPlaced, Placed, CallAt, Renaming
<1>2. CASE ~(IsFile(disk[n]) /\ disk[m] = Absent)
  <2>1. Raise(w) /\ DiskTyped'
    BY <1>2 DEF Move, Typed, DiskTyped
  <2>2. QED
    BY <2>1, RaiseTyped
<1>3. CASE IsFile(disk[n]) /\ disk[m] = Absent
  <2>1. /\ disk' = Moved(n, m)
        /\ handle' = [v \in Workers |-> IF handle[v] = n THEN m ELSE handle[v]]
        /\ call' = [call EXCEPT ![w].name = m, ![w].other = n]
        /\ Go(w, "renameRead")
        /\ UNCHANGED <<hand, uiVars, killed>>
    BY <1>3 DEF Move
  <2>2. DiskTyped'
    <3>1. \A f \in Files: disk'[f] = IF f = n THEN Absent ELSE IF f = m THEN disk[n] ELSE disk[f]
      BY <1>1, <1>3, <2>1 DEF Moved, Typed, DiskTyped, Files, IsFile
    <3>2. n \in Files /\ m \in Files /\ n \notin Dirs /\ m \notin Dirs
      BY <1>1, ProjectStoreAssumption DEF Files
    <3>3. disk' \in [Files -> Contents]
      BY <1>1, <2>1, <3>2 DEF Moved, Typed, DiskTyped, Contents
    <3>4. QED
      BY <1>1, <3>1, <3>2, <3>3, Kinds DEF Typed, DiskTyped, Files
  <2>3. WorkersPlaced'
    <3>1. WorkShape'
      BY <2>1 DEF WorkShape, Typed, WorkersPlaced, Go
    <3>2. call'[w] = [call[w] EXCEPT !.name = m, !.other = n] /\ pc'[w] = "renameRead"
      BY <2>1 DEF Typed, WorkersPlaced, Go
    <3>3. call'[w] \in Renaming
      BY <1>1, <3>2 DEF Renaming
    <3>4. ASSUME NEW v \in Workers
          PROVE  handle'[v] = IF handle[v] = n THEN m ELSE handle[v]
      BY <2>1
    <3>5. m \in Files /\ n \notin Dirs
      BY <1>1, ProjectStoreAssumption DEF Files
    <3>6. Placed(w)'
      BY <1>1, <2>1, <3>2, <3>3, <3>4, <3>5
      DEF Typed, WorkersPlaced, Placed, CallAt, PCs
    <3>7. ASSUME NEW v \in Workers \ {w} PROVE Placed(v)'
      <4>1. pc'[v] = pc[v] /\ call'[v] = call[v] /\ hand'[v] = hand[v]
        BY <2>1 DEF Typed, WorkersPlaced, Go
      <4>2. QED
        BY <1>1, <3>4, <3>5, <4>1 DEF Typed, WorkersPlaced, Placed, Saves
    <3>8. QED
      BY <3>1, <3>6, <3>7 DEF WorkersPlaced, WorkShape
  <2>4. QED
    BY <2>1, <2>2, <2>3 DEF Typed, UiTyped, uiVars
<1>4. QED
  BY <1>2, <1>3

LEMMA RenameReadTyped ==
  ASSUME Typed, NEW w \in Workers, RenameRead(w)
  PROVE  Typed'
<1> DEFINE c == disk[Target(w)]
<1>1. call[w] \in Renaming /\ Target(w) \in Names
  BY DEF RenameRead, At, Typed, WorkersPlaced, Placed, CallAt, Renaming, Target
<1>2. DiskTyped'
  BY DEF RenameRead, Typed, DiskTyped
<1>3. CASE ~Readable(c)
  BY <1>2, <1>3, RaiseTyped DEF RenameRead
<1>4. CASE Readable(c)
  <2> DEFINE q == [c EXCEPT !.name = Target(w)]
  <2>1. c \in Record /\ (c.dir # NoDir => c.edits = {})
    BY <1>1, <1>4, Kinds DEF Typed, DiskTyped, Files
  <2>2. q \in Record /\ q.dir = c.dir /\ q.edits = c.edits
    BY <1>1, <2>1 DEF Record
  <2>3. Then(w, "savePointer", q) /\ call[w] \in CallAt("savePointer")
    BY <1>1, <1>4 DEF RenameRead, CallAt
  <2>4. QED
    BY <1>2, <2>1, <2>2, <2>3, ThenTyped DEF PCs
<1>5. QED
  BY <1>3, <1>4

LEMMA RenameManifestTyped ==
  ASSUME Typed, NEW w \in Workers, RenameManifest(w)
  PROVE  Typed'
<1> DEFINE c == disk[hand[w].dir]
<1>1. /\ call[w] \in Renaming /\ Target(w) \in Names
      /\ hand[w] \in Record /\ hand[w].dir \in Dirs
  BY DEF RenameManifest, At, Typed, WorkersPlaced, Placed, CallAt, Renaming, Target
<1>2. DiskTyped'
  BY DEF RenameManifest, Typed, DiskTyped
<1>3. CASE Readable(c)
  <2> DEFINE q == [c EXCEPT !.name = Target(w)]
  <2>1. c \in Record /\ c.dir \in Dirs
    BY <1>1, <1>3, Kinds DEF Typed, DiskTyped, Files
  <2>2. q \in Record /\ q.dir = c.dir
    BY <1>1, <2>1 DEF Record
  <2>3. Then(w, "saveManifest", q) /\ call[w] \in CallAt("saveManifest")
    BY <1>1, <1>3 DEF RenameManifest, CallAt
  <2>4. QED
    BY <1>2, <2>1, <2>2, <2>3, ThenTyped DEF PCs
<1>4. CASE IsFile(c) /\ ~Readable(c)
  BY <1>2, <1>4, RaiseTyped DEF RenameManifest
<1>5. CASE ~IsFile(c) /\ ~Readable(c)
  <2>1. Return(w, hand[w]) /\ call[w] \in NamedCall
    BY <1>1, <1>5 DEF RenameManifest, NamedCall
  <2>2. QED
    BY <1>1, <1>2, <2>1, ReturnTyped
<1>6. QED
  BY <1>3, <1>4, <1>5

LEMMA ReadFolderTyped ==
  ASSUME Typed, NEW w \in Workers, ReadFolder(w)
  PROVE  Typed'
<1> DEFINE d == call[w].dir
           c == disk[d]
<1>1. d \in Dirs
  BY DEF ReadFolder, At, Typed, WorkersPlaced, Placed, CallAt, Opening
<1>2. DiskTyped'
  BY DEF ReadFolder, Typed, DiskTyped
<1>3. CASE ~Readable(c)
  BY <1>2, <1>3, RaiseTyped DEF ReadFolder
<1>4. CASE Readable(c)
  <2>1. /\ call' = [call EXCEPT ![w] = [route |-> "open", name |-> c.name]]
        /\ Go(w, "savePointer") /\ Hold(w, NewRecord(c.name, d))
        /\ UNCHANGED <<handle, uiVars, killed>>
    BY <1>4 DEF ReadFolder
  <2>2. c.name \in Names
    BY <1>1, <1>4, Kinds, RecordChanges DEF Typed, DiskTyped, Files
  <2>3. NewRecord(c.name, d) \in Record /\ NewRecord(c.name, d).edits = {}
    BY <1>1, <2>2 DEF NewRecord, Record, Folders
  <2>4. WorkShape' /\ \A v \in Workers \ {w}: SameWorker(v)
    BY <2>1 DEF Typed, WorkersPlaced, WorkShape, SameWorker, Go, Hold
  <2>5. /\ call'[w] = [route |-> "open", name |-> c.name] /\ pc'[w] = "savePointer"
        /\ hand'[w] = NewRecord(c.name, d) /\ handle'[w] = handle[w]
    BY <2>1 DEF Typed, WorkersPlaced, Go, Hold
  <2>6. Placed(w)'
    BY <2>2, <2>3, <2>5 DEF Typed, WorkersPlaced, Placed, PCs, CallAt, Opened
  <2>7. QED
    BY <1>2, <2>1, <2>4, <2>6, OthersPlaced DEF Typed, UiTyped, uiVars
<1>5. QED
  BY <1>3, <1>4

-------------------------------------------------------------------------------
(* Calls, and a kill. *)

\* A call comes to a worker that is idle.
LEMMA StartPlaced ==
  ASSUME Typed, NEW w \in Workers, NEW c, NEW at, NEW r,
         pc[w] = "idle",
         call' = [call EXCEPT ![w] = c], Go(w, at), Hold(w, r), UNCHANGED handle,
         c \in CallAt(at), at \in {"read", "savePointer", "readFlag", "move", "readFolder"},
         r \in Record \cup {Absent},
         at = "savePointer" => r \in Record /\ c.route \in {"save", "create"}
  PROVE  WorkersPlaced'
<1>1. WorkShape' /\ \A v \in Workers \ {w}: SameWorker(v)
  BY DEF Typed, WorkersPlaced, WorkShape, SameWorker, Go, Hold
<1>2. call'[w] = c /\ pc'[w] = at /\ hand'[w] = r /\ handle'[w] = handle[w]
  BY DEF Typed, WorkersPlaced, Go, Hold
<1>3. Placed(w)'
  BY <1>2 DEF Typed, WorkersPlaced, Placed, PCs, Saves
<1>4. QED
  BY <1>1, <1>3, OthersPlaced DEF Typed
LEMMA CallsTyped ==
  ASSUME Typed,
         \/ \E n \in projects: CallLoad(n)
         \/ \E n \in hidden: CallRestore(n)
         \/ \E n \in known, e \in Edits: CallSet(n, e)
         \/ \E e \in Edits, d \in Folders: CallSave(e, d)
         \/ \E n \in Names, e \in Edits: CallCreate(n, e)
         \/ CallHide
         \/ \E n \in Names: CallRename(n)
         \/ \E d \in Dirs: CallOpen(d)
         \/ \E j \in Reviews, n \in known, e \in Edits: Review(j, n, e)
  PROVE  Typed'
<1>1. ASSUME NEW c, NEW at, NEW r, Call(c, at, r), c \in CallAt(at),
             at \in {"read", "savePointer", "readFlag", "move", "readFolder"},
             r \in Record \cup {Absent}, UNCHANGED <<current, edit>>
                \/ (current' \in Record \cup {Absent}
                    /\ edit' \in [Edits -> {"unmade", "made", "acknowledged", "refused", "cut"}]),
             at = "savePointer" => r \in Record /\ c.route \in {"save", "create"}
      PROVE  Typed'
  <2>1. "main" \in Workers
    BY DEF Workers
  <2>2. WorkersPlaced'
    BY <1>1, <2>1, StartPlaced DEF Call
  <2>3. QED
    BY <1>1, <2>2 DEF Typed, DiskTyped, UiTyped, Call
<1>2. ASSUME NEW e \in Edits, Make(e)
      PROVE  edit' \in [Edits -> {"unmade", "made", "acknowledged", "refused", "cut"}]
  BY <1>2 DEF Make, Typed, UiTyped
<1>3. ASSUME NEW n \in projects, CallLoad(n) PROVE Typed'
  <2>1. [route |-> "load", name |-> n] \in CallAt("read")
    BY DEF CallAt, Loading, Typed, UiTyped
  <2>2. QED
    BY <1>1, <1>3, <2>1 DEF CallLoad, Typed, UiTyped
<1>4. ASSUME NEW n \in hidden, CallRestore(n) PROVE Typed'
  <2>1. [route |-> "restore", name |-> n] \in CallAt("readFlag")
    BY DEF CallAt, Flagging, Typed, UiTyped
  <2>2. QED
    BY <1>1, <1>4, <2>1 DEF CallRestore
<1>5. ASSUME NEW n \in known, NEW e \in Edits, CallSet(n, e) PROVE Typed'
  <2>1. [route |-> "set", name |-> n, edit |-> e] \in CallAt("read")
    BY DEF CallAt, Saving, Typed, UiTyped
  <2>2. QED
    BY <1>1, <1>2, <1>5, <2>1 DEF CallSet, Typed, UiTyped
<1>6. ASSUME NEW e \in Edits, NEW d \in Folders, CallSave(e, d) PROVE Typed'
  <2> DEFINE r == [current EXCEPT !.dir = d, !.edits = @ \cup {e}]
  <2>1. current \in Record
    BY <1>6 DEF CallSave, Typed, UiTyped
  <2>2. r \in Record /\ current.name \in Names
    BY <2>1 DEF Record
  <2>3. [route |-> "save", name |-> current.name, edit |-> e] \in CallAt("savePointer")
    BY <2>2 DEF CallAt, Saving
  <2>4. QED
    BY <1>1, <1>2, <1>6, <2>2, <2>3 DEF CallSave, Typed, UiTyped
<1>7. ASSUME NEW n \in Names, NEW e \in Edits, CallCreate(n, e) PROVE Typed'
  <2> DEFINE r == [NewRecord(n, NoDir) EXCEPT !.edits = {e}]
  <2>1. r \in Record
    BY DEF Record, NewRecord, Folders
  <2>2. [route |-> "create", name |-> n, edit |-> e] \in CallAt("savePointer")
    BY DEF CallAt, Saving
  <2>3. QED
    BY <1>1, <1>2, <1>7, <2>1, <2>2 DEF CallCreate, Typed, UiTyped
<1>8. ASSUME CallHide PROVE Typed'
  <2>1. [route |-> "hide", name |-> current.name] \in CallAt("readFlag")
    BY <1>8, RecordChanges DEF CallHide, CallAt, Flagging, Typed, UiTyped
  <2>2. QED
    BY <1>1, <1>8, <2>1 DEF CallHide
<1>9. ASSUME NEW n \in Names, CallRename(n) PROVE Typed'
  <2>1. [route |-> "rename", name |-> current.name, other |-> n] \in CallAt("move")
    BY <1>9, RecordChanges DEF CallRename, CallAt, Renaming, Typed, UiTyped
  <2>2. QED
    BY <1>1, <1>9, <2>1 DEF CallRename
<1>10. ASSUME NEW d \in Dirs, CallOpen(d) PROVE Typed'
  <2>1. [route |-> "open", dir |-> d] \in CallAt("readFolder")
    BY DEF CallAt, Opening
  <2>2. QED
    BY <1>1, <1>10, <2>1 DEF CallOpen
<1>11. ASSUME NEW j \in Reviews, NEW n \in known, NEW e \in Edits, Review(j, n, e)
       PROVE  Typed'
  <2>1. [route |-> "review", name |-> n, edit |-> e] \in CallAt("read")
    BY DEF CallAt, Saving, Typed, UiTyped
  <2>2. j \in Workers /\ Hold(j, hand[j])
    BY <1>11 DEF Workers, Review, Hold, Typed, WorkersPlaced
  <2>3. hand[j] \in Record \cup {Absent}
    BY <2>2 DEF Typed, WorkersPlaced, Placed
  <2>4. WorkersPlaced'
    BY <1>11, <2>1, <2>2, <2>3, StartPlaced DEF Review
  <2>5. QED
    BY <1>2, <1>11, <2>4 DEF Review, Typed, DiskTyped, UiTyped
<1>12. QED
  BY <1>3, <1>4, <1>5, <1>6, <1>7, <1>8, <1>9, <1>10, <1>11

LEMMA KillTyped ==
  ASSUME Typed, Kill
  PROVE  Typed'
<1>1. DiskTyped'
  BY DEF Kill, Typed, DiskTyped
<1>2. WorkersPlaced'
  BY DEF Kill, WorkersPlaced, Placed, CallAt, PCs
<1>3. \A n \in Names: Listed(n) => IsFile(disk[n])
  BY DEF Listed
<1>4. UiTyped'
  BY <1>3 DEF Kill, Typed, UiTyped
<1>5. QED
  BY <1>1, <1>2, <1>4 DEF Typed, Kill

LEMMA StepTyped ==
  ASSUME Typed, NEW w \in Workers, Step(w)
  PROVE  Typed'
  BY ReadTyped, ReadManifestTyped, SavePointerTyped, WritePointerTyped,
     SaveManifestTyped, WriteManifestTyped, ReadFlagTyped, MoveTyped,
     RenameReadTyped, RenameManifestTyped, ReadFolderTyped DEF Step

LEMMA NextTyped ==
  ASSUME Typed, [Next]_vars
  PROVE  Typed'
<1>1. CASE UNCHANGED vars
  BY <1>1 DEF vars, workerVars, uiVars, Typed, DiskTyped, UiTyped, WorkersPlaced,
     Placed, Saves
<1>2. CASE Next
  BY <1>2, CallsTyped, StepTyped, KillTyped DEF Next
<1>3. QED
  BY <1>1, <1>2

\* Every variable keeps its type, whatever the workers do between each other's
\* steps, and a pointer of a linked project carries no part of its record
\* (save_project, library_store.py).
THEOREM Types == Spec => []TypeOK
<1>1. Typed /\ [Next]_vars => Typed'
  BY NextTyped
<1>2. QED
  BY <1>1, InitTyped, TypedImplies, PTL DEF Spec

-------------------------------------------------------------------------------
(* Without a review under way the daemon's main thread is the only one that   *)
(* touches the files.  A file is then empty only while that thread writes it,  *)
(* or because the one kill came in between.                                    *)

Main == "main"
Writing == pc[Main] \in {"writePointer", "writeManifest"}
OpenFiles == IF Writing THEN {handle[Main]} ELSE {}

DamageInv ==
    /\ \A f \in Files: disk[f] # Garbage
    /\ pc[Main] = "writePointer" => handle[Main] = Target(Main)
    /\ Writing => disk[handle[Main]] = Empty
    /\ ~killed => \A f \in Files: disk[f] = Empty => f \in OpenFiles
    /\ killed => \E b \in Files \cup {Closed}:
          \A f \in Files: disk[f] = Empty => f \in OpenFiles \cup {b}

\* The routes that read a record before they change it, and change no folder.
FreshRoutes == {"load", "set", "hide", "restore", "rename"}

\* The pointer that a call reads names the folder of the record it then holds,
\* and no other pointer names it.
FolderInv ==
    /\ call[Main].route \in FreshRoutes \cup {"none"}
    /\ OneFolderOneProject
    /\ pc[Main] \in {"readManifest", "savePointer"} =>
          Readable(disk[Target(Main)]) /\ disk[Target(Main)].dir = hand[Main].dir
    /\ pc[Main] = "writePointer" /\ hand[Main].dir # NoDir =>
          \A n \in Names \ {Target(Main)}:
              Readable(disk[n]) => disk[n].dir # hand[Main].dir

\* The record in hand has every edit of the file it is about to replace, and
\* that of its call.
Carried(f) == Readable(disk[f]) => disk[f].edits \subseteq hand[Main].edits
EditsInv ==
    /\ AcknowledgedEditsKept
    /\ pc[Main] = "savePointer" => Carried(Target(Main))
    /\ pc[Main] \in {"savePointer", "writePointer"} /\ Saves(Main)
       /\ hand[Main].dir # NoDir
          => Carried(hand[Main].dir)
    /\ pc[Main] = "saveManifest" => Carried(hand[Main].dir)
    /\ pc[Main] \in {"savePointer", "writePointer", "saveManifest", "writeManifest"}
       /\ Saves(Main)
          => call[Main].edit \in hand[Main].edits

\* The rename under way has moved the folder.
Renamed == call[Main].route = "rename"
           /\ pc[Main] \in {"renameRead", "savePointer", "writePointer",
                            "renameManifest", "saveManifest", "writeManifest"}

\* A removed project that is not linked has its flag, on disk or in hand; the
\* only other project at its name is one that a rename is moving there, which
\* takes a kill before it.
RemovalInv ==
    /\ \A n \in hidden: disk[n] = Absent => killed \/ (Renamed /\ call[Main].other = n)
    /\ \A n \in hidden: Readable(disk[n]) /\ disk[n].dir = NoDir =>
          disk[n].removed \/ (Renamed /\ Target(Main) = n /\ killed)
    /\ /\ pc[Main] \in {"savePointer", "writePointer"}
       /\ hand[Main].dir = NoDir /\ Target(Main) \in hidden
       => \/ hand[Main].removed
          \/ call[Main].route = "restore"
          \/ call[Main].route = "rename" /\ killed
    /\ call[Main].route = "hide" /\ pc[Main] \in {"savePointer", "writePointer"} =>
          hand[Main].removed
    /\ pc[Main] = "renameRead" /\ ~killed => Readable(disk[Target(Main)])
    /\ pc[Main] = "renameManifest" /\ Readable(disk[Target(Main)]) =>
          disk[Target(Main)].dir # NoDir
-------------------------------------------------------------------------------
(* A kill damages one file. *)

\* How each ending leaves the worker.
LEMMA Endings ==
  ASSUME Typed, NEW w \in Workers
  PROVE  /\ End(w) => pc'[w] \in {"idle", "done"} /\ call'[w] = NoCall /\ hand'[w] = Absent
         /\ Raise(w) => End(w) /\ killed' = killed /\ hidden' = hidden
         /\ \A r: Return(w, r) => End(w) /\ killed' = killed
         /\ \A to, r: Then(w, to, r) =>
               /\ pc'[w] = to /\ hand'[w] = r /\ call' = call /\ handle' = handle
               /\ killed' = killed /\ hidden' = hidden /\ edit' = edit
  BY DEF Typed, WorkersPlaced, End, Raise, Return, Then, Go, Hold, uiVars

\* Six of the steps write nothing.
Reading(w) ==
    \/ Read(w) \/ ReadManifest(w) \/ ReadFlag(w)
    \/ RenameRead(w) \/ RenameManifest(w) \/ ReadFolder(w)

LEMMA ReadingWritesNothing ==
  ASSUME Typed, NEW w \in Workers, Reading(w)
  PROVE  /\ pc[w] \notin {"writePointer", "writeManifest"}
         /\ pc'[w] \notin {"writePointer", "writeManifest"}
         /\ killed' = killed
         /\ disk' = disk \/ \E n \in Names: Put(n, Touch(n))
<1>1. CASE Read(w) \/ ReadFlag(w)
  <2>1. Target(w) \in Names
    BY <1>1 DEF Read, ReadFlag, At, Typed, WorkersPlaced, Placed, CallAt, Loading,
       Saving, Opened, Flagging, Target
  <2>2. QED
    BY <1>1, <2>1, Endings DEF Read, ReadFlag, At, Loaded
<1>2. CASE ReadManifest(w) \/ RenameRead(w) \/ RenameManifest(w)
  BY <1>2, Endings DEF ReadManifest, RenameRead, RenameManifest, At, Loaded
<1>3. CASE ReadFolder(w)
  <2>1. CASE Raise(w)
    BY <1>3, <2>1, Endings DEF ReadFolder, At
  <2>2. CASE Go(w, "savePointer") /\ UNCHANGED killed
    BY <1>3, <2>2 DEF ReadFolder, At, Go, Typed, WorkersPlaced
  <2>3. QED
    BY <1>3, <2>1, <2>2 DEF ReadFolder
<1>4. QED
  BY <1>1, <1>2, <1>3 DEF Reading

LEMMA InitDamage == Init => DamageInv
<1> SUFFICES ASSUME Init PROVE DamageInv
  OBVIOUS
<1>1. \A f \in Files: disk[f] \notin {Empty, Garbage}
  BY DEF Init, NewRecord, Absent, Bare, Empty, Garbage
<1>2. QED
  BY <1>1 DEF Init, DamageInv, Writing, Workers, Main

LEMMA ReadingDamage ==
  ASSUME Typed, DamageInv, Main \in Workers, Reading(Main)
  PROVE  DamageInv'
<1>1. /\ ~Writing /\ ~Writing' /\ killed' = killed
      /\ pc'[Main] # "writePointer"
      /\ disk' = disk \/ \E n \in Names: Put(n, Touch(n))
  BY ReadingWritesNothing DEF Writing
<1>2. \A f \in Files: disk'[f] \in {Empty, Garbage} => disk'[f] = disk[f]
  BY <1>1 DEF Put, Touch, Absent, Bare, Empty, Garbage, Typed, DiskTyped
<1>3. QED
  BY <1>1, <1>2 DEF DamageInv, OpenFiles

LEMMA TruncateDamage ==
  ASSUME Typed, DamageInv, Main \in Workers, SavePointer(Main) \/ SaveManifest(Main)
  PROVE  DamageInv'
<1> DEFINE f == IF SavePointer(Main) THEN Target(Main) ELSE hand[Main].dir
<1>1. f \in Files /\ ~Writing
  BY DEF SavePointer, SaveManifest, At, Writing, Typed, WorkersPlaced, Placed, CallAt,
     Saving, Flagging, Renaming, Opened, Target, Files
<1>2. /\ Put(f, Empty) /\ handle'[Main] = f /\ killed' = killed /\ Writing'
      /\ pc'[Main] = "writePointer" => f = Target(Main)'
  BY DEF SavePointer, SaveManifest, At, Truncate, Go, Writing, Typed, WorkersPlaced,
     Target
<1>3. \A g \in Files: disk'[g] = IF g = f THEN Empty ELSE disk[g]
  BY <1>1, <1>2 DEF Put, Typed, DiskTyped
<1>4. QED
  BY <1>1, <1>2, <1>3 DEF DamageInv, OpenFiles, Empty, Garbage

LEMMA WriteDamage ==
  ASSUME Typed, DamageInv, Main \in Workers, WritePointer(Main) \/ WriteManifest(Main)
  PROVE  DamageInv'
<1> DEFINE f == handle[Main]
<1>1. f \in Files /\ Writing /\ hand[Main] \in Record
  BY DEF WritePointer, WriteManifest, At, Writing, Typed, WorkersPlaced, Placed, Files
<1>2. PICK c \in Record: Put(f, c)
  BY <1>1, RecordChanges DEF WritePointer, WriteManifest, Written, DamageInv
<1>3. ~Writing' /\ killed' = killed /\ pc'[Main] # "writePointer"
  BY Endings DEF WritePointer, WriteManifest, Writing
<1>4. \A g \in Files: disk'[g] = IF g = f THEN c ELSE disk[g]
  BY <1>1, <1>2 DEF Put, Typed, DiskTyped
<1>5. c \notin {Empty, Garbage}
  BY <1>2, Kinds
<1>6. QED
  BY <1>1, <1>3, <1>4, <1>5 DEF DamageInv, OpenFiles

LEMMA MoveDamage ==
  ASSUME Typed, DamageInv, Main \in Workers, Move(Main)
  PROVE  DamageInv'
<1> DEFINE n == call[Main].name
           m == call[Main].other
<1>1. n \in Names /\ m \in Names /\ n \in Files /\ m \in Files /\ ~Writing
  BY DEF Move, At, Writing, Typed, WorkersPlaced, Placed, CallAt, Renaming, Files
<1>2. CASE Raise(Main) /\ UNCHANGED disk
  BY <1>1, <1>2, Endings DEF DamageInv, OpenFiles, Writing
<1>3. CASE IsFile(disk[n]) /\ disk[m] = Absent
  <2>1. /\ disk' = Moved(n, m) /\ killed' = killed /\ pc'[Main] = "renameRead"
    BY <1>3 DEF Move, Go, Typed, WorkersPlaced
  <2>2. \A f \in Files: disk'[f] = IF f = n THEN Absent ELSE IF f = m THEN disk[n] ELSE disk[f]
    BY <1>1, <1>3, <2>1 DEF Moved, Typed, DiskTyped, IsFile
  <2>3. ~killed => \A f \in Files: disk'[f] # Empty
    BY <1>1, <2>2 DEF DamageInv, OpenFiles, Absent, Empty
  <2>4. ASSUME killed
        PROVE  \E b \in Files \cup {Closed}: \A f \in Files: disk'[f] = Empty => f = b
    <3>1. PICK b \in Files \cup {Closed}: \A f \in Files: disk[f] = Empty => f = b
      BY <1>1, <2>4 DEF DamageInv, OpenFiles
    <3>2. \A f \in Files: disk'[f] = Empty => f = IF b = n THEN m ELSE b
      BY <1>1, <1>3, <2>2, <3>1 DEF Absent, Empty
    <3>3. QED
      BY <1>1, <3>2
  <2>5. QED
    BY <1>1, <2>1, <2>2, <2>3, <2>4 DEF DamageInv, OpenFiles, Writing, Absent, Garbage
<1>4. QED
  BY <1>2, <1>3 DEF Move

\* What the main thread may be called for, and where each call begins.
Calling ==
    \/ \E n \in projects: CallLoad(n)
    \/ \E n \in hidden: CallRestore(n)
    \/ \E n \in known, e \in Edits: CallSet(n, e)
    \/ \E e \in Edits, d \in Folders: CallSave(e, d)
    \/ \E n \in Names, e \in Edits: CallCreate(n, e)
    \/ CallHide
    \/ \E n \in Names: CallRename(n)
    \/ \E d \in Dirs: CallOpen(d)

LEMMA CallingCalls ==
  ASSUME Calling
  PROVE  \E c, at, r:
            /\ Call(c, at, r)
            /\ at \in IF c.route \in FreshRoutes THEN {"read", "readFlag", "move"}
                                                 ELSE {"savePointer", "readFolder"}
            /\ edit' = edit \/ \E e \in Edits: Make(e)
<1>1. CASE \E n \in projects: CallLoad(n)
  <2>1. PICK n \in projects: CallLoad(n)
    BY <1>1
  <2> DEFINE c == [route |-> "load", name |-> n]
  <2>2. Call(c, "read", Absent) /\ edit' = edit /\ c.route \in FreshRoutes
    BY <2>1 DEF CallLoad, FreshRoutes
  <2>3. QED
    BY <2>2
<1>2. CASE \E n \in hidden: CallRestore(n)
  <2>1. PICK n \in hidden: CallRestore(n)
    BY <1>2
  <2> DEFINE c == [route |-> "restore", name |-> n]
  <2>2. Call(c, "readFlag", Absent) /\ edit' = edit /\ c.route \in FreshRoutes
    BY <2>1 DEF CallRestore, FreshRoutes
  <2>3. QED
    BY <2>2
<1>3. CASE \E n \in known, e \in Edits: CallSet(n, e)
  <2>1. PICK n \in known, e \in Edits: CallSet(n, e)
    BY <1>3
  <2> DEFINE c == [route |-> "set", name |-> n, edit |-> e]
  <2>2. Call(c, "read", Absent) /\ Make(e) /\ c.route \in FreshRoutes
    BY <2>1 DEF CallSet, FreshRoutes
  <2>3. QED
    BY <2>2
<1>4. CASE \E e \in Edits, d \in Folders: CallSave(e, d)
  <2>1. PICK e \in Edits, d \in Folders: CallSave(e, d)
    BY <1>4
  <2> DEFINE c == [route |-> "save", name |-> current.name, edit |-> e]
             r == [current EXCEPT !.dir = d, !.edits = @ \cup {e}]
  <2>2. Call(c, "savePointer", r) /\ Make(e) /\ c.route \notin FreshRoutes
    BY <2>1 DEF CallSave, FreshRoutes
  <2>3. QED
    BY <2>2
<1>5. CASE \E n \in Names, e \in Edits: CallCreate(n, e)
  <2>1. PICK n \in Names, e \in Edits: CallCreate(n, e)
    BY <1>5
  <2> DEFINE c == [route |-> "create", name |-> n, edit |-> e]
             r == [NewRecord(n, NoDir) EXCEPT !.edits = {e}]
  <2>2. Call(c, "savePointer", r) /\ Make(e) /\ c.route \notin FreshRoutes
    BY <2>1 DEF CallCreate, FreshRoutes
  <2>3. QED
    BY <2>2
<1>6. CASE CallHide
  <2> DEFINE c == [route |-> "hide", name |-> current.name]
  <2>1. Call(c, "readFlag", Absent) /\ edit' = edit /\ c.route \in FreshRoutes
    BY <1>6 DEF CallHide, FreshRoutes
  <2>2. QED
    BY <2>1
<1>7. CASE \E n \in Names: CallRename(n)
  <2>1. PICK n \in Names: CallRename(n)
    BY <1>7
  <2> DEFINE c == [route |-> "rename", name |-> current.name, other |-> n]
  <2>2. Call(c, "move", Absent) /\ edit' = edit /\ c.route \in FreshRoutes
    BY <2>1 DEF CallRename, FreshRoutes
  <2>3. QED
    BY <2>2
<1>8. CASE \E d \in Dirs: CallOpen(d)
  <2>1. PICK d \in Dirs: CallOpen(d)
    BY <1>8
  <2> DEFINE c == [route |-> "open", dir |-> d]
  <2>2. Call(c, "readFolder", Absent) /\ edit' = edit /\ c.route \notin FreshRoutes
    BY <2>1 DEF CallOpen, FreshRoutes
  <2>3. QED
    BY <2>2
<1>9. QED
  BY <1>1, <1>2, <1>3, <1>4, <1>5, <1>6, <1>7, <1>8 DEF Calling

LEMMA DamageStep ==
  ASSUME Reviews = {}, Typed, DamageInv, [Next]_vars
  PROVE  DamageInv'
<1>1. Workers = {Main}
  BY DEF Workers, Main
<1>2. CASE UNCHANGED vars
  BY <1>2 DEF vars, workerVars, DamageInv, Writing, OpenFiles, Target
<1>3. ASSUME NEW c, NEW at, NEW r, Call(c, at, r),
             at \notin {"writePointer", "writeManifest"}
      PROVE  DamageInv'
  BY <1>1, <1>3 DEF Call, Go, DamageInv, Writing, OpenFiles, Typed, WorkersPlaced, Main
<1>4. CASE Calling
  BY <1>3, <1>4, CallingCalls
<1>5. ASSUME Step(Main) PROVE DamageInv'
  BY <1>1, <1>5, ReadingDamage, TruncateDamage, WriteDamage, MoveDamage DEF Step, Reading
<1>6. CASE Kill
  <2>1. ~Writing' /\ disk' = disk /\ ~killed /\ killed' = TRUE
    BY <1>1, <1>6 DEF Kill, Writing, Main
  <2>2. \A f \in Files: disk[f] = Empty => f = handle[Main]
    BY <2>1 DEF DamageInv, OpenFiles
  <2>3. handle[Main] \in Files \cup {Closed}
    BY <1>1 DEF Typed, WorkersPlaced, Placed
  <2>4. QED
    BY <2>1, <2>2, <2>3 DEF DamageInv, OpenFiles, Writing
<1>7. QED
  BY <1>1, <1>2, <1>4, <1>5, <1>6 DEF Next, Calling

LEMMA DamageImplies ==
  ASSUME Reviews = {}, Typed, DamageInv
  PROVE  KillDamagesOneFile
<1> DEFINE D == {f \in Files: disk[f] \in {Empty, Garbage}
                              /\ \A w \in Workers: handle[w] # f}
<1>1. Workers = {Main}
  BY DEF Workers, Main
<1>2. PICK b: D \subseteq {b}
  BY <1>1 DEF DamageInv, OpenFiles
<1>3. IsFiniteSet({b}) /\ Cardinality({b}) = 1
  BY FS_Singleton
<1>4. IsFiniteSet(D) /\ Cardinality(D) <= Cardinality({b})
  BY <1>2, <1>3, FS_Subset
<1>5. QED
  BY <1>3, <1>4 DEF KillDamagesOneFile

\* While no review runs, a kill leaves at most one damaged file behind, the one
\* that was being written, whatever the routes were doing (_write_json).
THEOREM KillDamages == ASSUME Reviews = {} PROVE Spec => []KillDamagesOneFile
<1>1. Init => Typed /\ DamageInv
  BY InitTyped, InitDamage
<1>2. Typed /\ DamageInv /\ [Next]_vars => (Typed /\ DamageInv)'
  BY DamageStep, NextTyped
<1>3. Typed /\ DamageInv => KillDamagesOneFile
  BY DamageImplies
<1>4. QED
  BY <1>1, <1>2, <1>3, PTL DEF Spec
-------------------------------------------------------------------------------
(* One folder, one project. *)

\* A step that writes nothing leaves every readable file as it is.
LEMMA ReadingKeeps ==
  ASSUME Typed, NEW w \in Workers, Reading(w)
  PROVE  \A f \in Files:
            /\ Readable(disk'[f]) <=> Readable(disk[f])
            /\ Readable(disk[f]) => disk'[f] = disk[f]
            /\ disk'[f] = Absent => disk[f] = Absent
<1>1. CASE disk' = disk
  BY <1>1
<1>2. CASE \E n \in Names: Put(n, Touch(n))
  BY <1>2, Kinds DEF Put, Touch, Typed, DiskTyped
<1>3. QED
  BY <1>1, <1>2, ReadingWritesNothing

\* So the pointers name the folders they named.
LEMMA SameFolders ==
  ASSUME OneFolderOneProject,
         \A n \in Names: Readable(disk'[n]) =>
            Readable(disk[n]) /\ disk'[n].dir = disk[n].dir
  PROVE  OneFolderOneProject'
  BY DEF OneFolderOneProject

LEMMA InitFolder == ASSUME Init PROVE FolderInv
<1> USE ProjectStoreAssumption
<1>1. ASSUME NEW n \in Names, Readable(disk[n]), disk[n].dir # NoDir
      PROVE  Handed[disk[n].dir] = n
  <2>1. disk[n] = IF Layout[n] = NoProject THEN Absent ELSE NewRecord(n, Layout[n])
    BY DEF Init, Files
  <2>2. disk[n].dir = Layout[n] /\ Layout[n] \in Dirs
    BY <1>1, <2>1, Kinds DEF NewRecord, Folders
  <2>3. QED
    BY <2>2
<1>2. OneFolderOneProject
  BY <1>1 DEF OneFolderOneProject
<1>3. call[Main] = NoCall /\ pc[Main] = "idle"
  BY DEF Init, Workers, Main
<1>4. QED
  BY <1>2, <1>3 DEF FolderInv, NoCall

LEMMA ReadingFolder ==
  ASSUME Typed, FolderInv, Main \in Workers, Reading(Main)
  PROVE  FolderInv'
<1> DEFINE n == Target(Main)
<1>1. \A f \in Files: /\ Readable(disk'[f]) <=> Readable(disk[f])
                      /\ Readable(disk[f]) => disk'[f] = disk[f]
  BY ReadingKeeps
<1>2. OneFolderOneProject'
  BY <1>1, SameFolders DEF FolderInv, Files
<1>3. ~ReadFolder(Main)
  BY DEF ReadFolder, At, Typed, WorkersPlaced, Placed, CallAt, Opening, FolderInv,
     FreshRoutes
<1>4. n \in Names /\ n \in Files
  BY <1>3 DEF Reading, Read, ReadManifest, ReadFlag, RenameRead, RenameManifest, At,
     Typed, WorkersPlaced, Placed, CallAt, Loading, Saving, Opened, Flagging, Renaming,
     Target, Files
<1>5. CASE Raise(Main) \/ \E r: Return(Main, r)
  BY <1>2, <1>5, Endings DEF FolderInv, NoCall
<1>6. ASSUME NEW to, NEW r, Then(Main, to, r),
             to \in {"readManifest", "savePointer", "saveManifest"},
             to # "saveManifest" => Readable(disk[n]) /\ r.dir = disk[n].dir
      PROVE  FolderInv'
  <2>1. pc'[Main] = to /\ hand'[Main] = r /\ call' = call
    BY <1>6, Endings
  <2>2. Target(Main)' = n
    BY <2>1 DEF Target
  <2>3. QED
    BY <1>1, <1>2, <1>4, <1>6, <2>1, <2>2 DEF FolderInv
<1>7. ASSUME NEW r \in Record, Loaded(Main, r), Readable(disk[n]), r.dir = disk[n].dir
      PROVE  FolderInv'
  <2>1. CASE Return(Main, r)
    BY <1>5, <2>1
  <2>2. CASE Then(Main, "savePointer", [r EXCEPT !.edits = @ \cup {call[Main].edit}])
    <3>1. [r EXCEPT !.edits = @ \cup {call[Main].edit}].dir = r.dir
      BY DEF Record
    <3>2. QED
      BY <1>6, <1>7, <2>2, <3>1
  <2>3. QED
    BY <1>7, <2>1, <2>2 DEF Loaded
<1>8. \A f \in Files: Readable(disk[f]) => disk[f] \in Record
  BY Kinds DEF Typed, DiskTyped
<1>9. CASE Read(Main)
  <2>1. CASE ~Readable(disk[n])
    BY <1>5, <1>9, <2>1 DEF Read
  <2>2. CASE Readable(disk[n]) /\ disk[n].dir = NoDir
    <3>1. [disk[n] EXCEPT !.name = n] \in Record /\ [disk[n] EXCEPT !.name = n].dir = disk[n].dir
      BY <1>4, <1>8, <2>2 DEF Record
    <3>2. QED
      BY <1>7, <1>9, <2>2, <3>1 DEF Read
  <2>3. CASE Readable(disk[n]) /\ disk[n].dir # NoDir
    <3>1. Then(Main, "readManifest", disk[n])
      BY <1>9, <2>3 DEF Read
    <3>2. QED
      BY <1>6, <2>3, <3>1
  <2>4. QED
    BY <2>1, <2>2, <2>3
<1>10. CASE ReadManifest(Main)
  <2> DEFINE d == hand[Main].dir
             r == [disk[d] EXCEPT !.name = n, !.dir = d]
  <2>1. Readable(disk[n]) /\ d = disk[n].dir /\ d \in Dirs /\ d \in Files
    BY <1>10 DEF ReadManifest, At, FolderInv, Typed, WorkersPlaced, Placed, Files
  <2>2. CASE ~Readable(disk[d])
    BY <1>5, <1>10, <2>2 DEF ReadManifest
  <2>3. CASE Readable(disk[d])
    <3>1. disk[d] \in Record
      BY <1>8, <2>1, <2>3
    <3>2. r \in Record /\ r.dir = d
      BY <1>4, <2>1, <3>1 DEF Record, Folders
    <3>3. Loaded(Main, r)
      BY <1>10, <2>3 DEF ReadManifest
    <3>4. QED
      BY <1>7, <2>1, <3>2, <3>3
  <2>4. QED
    BY <2>2, <2>3
<1>11. CASE ReadFlag(Main) \/ RenameRead(Main)
  <2> DEFINE r == IF ReadFlag(Main)
                    THEN [disk[n] EXCEPT !.removed = call[Main].route = "hide"]
                    ELSE [disk[n] EXCEPT !.name = n]
  <2>1. CASE ~Readable(disk[n])
    BY <1>5, <1>11, <2>1 DEF ReadFlag, RenameRead
  <2>2. CASE Readable(disk[n])
    <3>1. r.dir = disk[n].dir
      BY <1>4, <1>8, <2>2 DEF Record
    <3>2. Then(Main, "savePointer", r)
      BY <1>11, <2>2 DEF ReadFlag, RenameRead
    <3>3. QED
      BY <1>6, <2>2, <3>1, <3>2
  <2>3. QED
    BY <2>1, <2>2
<1>12. CASE RenameManifest(Main)
  BY <1>5, <1>6, <1>12 DEF RenameManifest
<1>13. QED
  BY <1>3, <1>9, <1>10, <1>11, <1>12 DEF Reading
LEMMA SavePointerFolder ==
  ASSUME Typed, FolderInv, Main \in Workers, SavePointer(Main)
  PROVE  FolderInv'
<1> DEFINE n == Target(Main)
<1>1. /\ n \in Names /\ n \in Files
      /\ Readable(disk[n]) /\ disk[n].dir = hand[Main].dir
  BY DEF SavePointer, At, FolderInv, Typed, WorkersPlaced, Placed, CallAt, Saving,
     Flagging, Renaming, Opened, Target, Files
<1>2. /\ Put(n, Empty) /\ pc'[Main] = "writePointer" /\ call' = call /\ hand' = hand
  BY DEF SavePointer, Truncate, Go, Typed, WorkersPlaced
<1>3. \A f \in Files: disk'[f] = IF f = n THEN Empty ELSE disk[f]
  BY <1>1, <1>2 DEF Put, Typed, DiskTyped
<1>4. OneFolderOneProject'
  BY <1>3, SameFolders, Kinds DEF FolderInv, Files
<1>5. ASSUME hand[Main].dir # NoDir, NEW x \in Names \ {n}, Readable(disk[x])
      PROVE  disk[x].dir # hand[Main].dir
  BY <1>1, <1>5 DEF FolderInv, OneFolderOneProject
<1>6. Target(Main)' = n
  BY <1>2 DEF Target
<1>7. QED
  BY <1>2, <1>3, <1>4, <1>5, <1>6 DEF FolderInv, Files

LEMMA WritePointerFolder ==
  ASSUME Typed, DamageInv, FolderInv, Main \in Workers, WritePointer(Main)
  PROVE  FolderInv'
<1> DEFINE n == Target(Main)
           r == hand[Main]
<1>1. n \in Files /\ n \in Names /\ handle[Main] = n /\ r \in Record
      /\ pc[Main] = "writePointer" /\ disk[n] = Empty
  BY DEF WritePointer, At, DamageInv, Writing, Typed, WorkersPlaced, Placed, Files
<1>2. PICK c \in Record: Put(n, c) /\ c.dir = r.dir
  BY <1>1, RecordChanges DEF WritePointer, Written
<1>3. \A f \in Files: disk'[f] = IF f = n THEN c ELSE disk[f]
  BY <1>1, <1>2 DEF Put, Typed, DiskTyped
<1>4. OneFolderOneProject'
  BY <1>1, <1>2, <1>3 DEF FolderInv, OneFolderOneProject, Files
<1>5. CASE Return(Main, r)
  BY <1>4, <1>5, Endings DEF FolderInv, NoCall
<1>6. ASSUME NEW to \in {"saveManifest", "renameManifest", "read"}, Then(Main, to, r)
      PROVE  FolderInv'
  BY <1>4, <1>6, Endings DEF FolderInv
<1>7. QED
  BY <1>5, <1>6 DEF WritePointer

\* The manifest names no folder to any project.
LEMMA ManifestFolder ==
  ASSUME Typed, FolderInv, Main \in Workers, SaveManifest(Main) \/ WriteManifest(Main)
  PROVE  FolderInv'
<1> DEFINE d == hand[Main].dir
<1>1. d \in Files /\ d \notin Names
  BY ProjectStoreAssumption DEF SaveManifest, WriteManifest, At, Typed, WorkersPlaced,
     Placed, Files
<1>2. \E c: Put(d, c)
  BY DEF SaveManifest, WriteManifest, At, Truncate, Typed, WorkersPlaced, Placed
<1>3. \A n \in Names: disk'[n] = disk[n]
  BY <1>1, <1>2 DEF Put, Typed, DiskTyped, Files
<1>4. OneFolderOneProject'
  BY <1>3, SameFolders DEF FolderInv
<1>5. CASE SaveManifest(Main)
  <2>1. pc'[Main] = "writeManifest" /\ call' = call
    BY <1>5 DEF SaveManifest, Truncate, Go, Typed, WorkersPlaced
  <2>2. QED
    BY <1>4, <2>1 DEF FolderInv
<1>6. CASE WriteManifest(Main)
  BY <1>4, <1>6, Endings DEF FolderInv, WriteManifest, NoCall
<1>7. QED
  BY <1>5, <1>6

\* What a rename that finds its folder and a free name does.
LEMMA Moves ==
  ASSUME Typed, NEW w \in Workers, Move(w)
  PROVE  LET n == call[w].name
             m == call[w].other
         IN /\ n \in Names /\ m \in Names /\ call[w].route = "rename" /\ pc[w] = "move"
            /\ \/ Raise(w) /\ disk' = disk
               \/ /\ IsFile(disk[n]) /\ disk[m] = Absent
                  /\ \A f \in Files: disk'[f] = IF f = n THEN Absent
                                                ELSE IF f = m THEN disk[n] ELSE disk[f]
                  /\ pc'[w] = "renameRead" /\ hand' = hand
                  /\ call'[w].route = "rename" /\ call'[w].name = m /\ call'[w].other = n
                  /\ UNCHANGED <<uiVars, killed>>
<1> DEFINE n == call[w].name
           m == call[w].other
<1>1. /\ call[w] \in Renaming /\ pc[w] = "move"
      /\ n \in Names /\ m \in Names /\ n \in Files /\ m \in Files /\ call[w].route = "rename"
  BY DEF Move, At, Typed, WorkersPlaced, Placed, CallAt, Renaming, Files
<1>2. CASE Raise(w) /\ UNCHANGED disk
  BY <1>1, <1>2
<1>3. CASE IsFile(disk[n]) /\ disk[m] = Absent
  <2>1. /\ disk' = Moved(n, m) /\ pc'[w] = "renameRead"
        /\ UNCHANGED <<hand, uiVars, killed>>
        /\ call'[w] = [call[w] EXCEPT !.name = m, !.other = n]
    BY <1>3 DEF Move, Go, Typed, WorkersPlaced
  <2>2. \A f \in Files: disk'[f] = IF f = n THEN Absent ELSE IF f = m THEN disk[n] ELSE disk[f]
    BY <1>1, <1>3, <2>1 DEF Moved, Typed, DiskTyped, IsFile
  <2>3. call'[w].route = "rename" /\ call'[w].name = m /\ call'[w].other = n
    BY <1>1, <2>1 DEF Renaming
  <2>4. QED
    BY <1>1, <1>3, <2>1, <2>2, <2>3
<1>4. QED
  BY <1>2, <1>3 DEF Move

LEMMA MoveFolder ==
  ASSUME Typed, FolderInv, Main \in Workers, Move(Main)
  PROVE  FolderInv'
<1> DEFINE n == call[Main].name
           m == call[Main].other
<1>1. CASE Raise(Main) /\ disk' = disk
  <2>1. OneFolderOneProject'
    BY <1>1, SameFolders DEF FolderInv
  <2>2. QED
    BY <1>1, <2>1, Endings DEF FolderInv, NoCall
<1>2. CASE /\ n \in Names /\ m \in Names
           /\ \A f \in Files: disk'[f] = IF f = n THEN Absent
                                         ELSE IF f = m THEN disk[n] ELSE disk[f]
           /\ pc'[Main] = "renameRead" /\ call'[Main].route = "rename"
  <2>1. OneFolderOneProject'
    BY <1>2, Kinds DEF FolderInv, OneFolderOneProject, Files
  <2>2. QED
    BY <1>2, <2>1 DEF FolderInv, FreshRoutes
<1>3. QED
  BY <1>1, <1>2, Moves

LEMMA FolderStep ==
  ASSUME Reviews = {}, Routes \subseteq FreshRoutes, Typed, DamageInv, FolderInv,
         [Next]_vars
  PROVE  FolderInv'
<1>1. Workers = {Main}
  BY DEF Workers, Main
<1>2. CASE UNCHANGED vars
  BY <1>2 DEF vars, workerVars, FolderInv, OneFolderOneProject, Target
<1>3. CASE Calling
  <2>1. PICK c, at, r: /\ Call(c, at, r)
                       /\ c.route \in FreshRoutes => at \in {"read", "readFlag", "move"}
    BY <1>3, CallingCalls
  <2>2. c.route \in FreshRoutes /\ pc'[Main] = at /\ call'[Main] = c /\ disk' = disk
    BY <1>1, <2>1 DEF Call, Go, Typed, WorkersPlaced, Main
  <2>3. OneFolderOneProject'
    BY <2>2, SameFolders DEF FolderInv
  <2>4. QED
    BY <2>1, <2>2, <2>3 DEF FolderInv
<1>4. CASE Step(Main)
  BY <1>1, <1>4, ReadingFolder, SavePointerFolder, WritePointerFolder, ManifestFolder,
     MoveFolder DEF Step, Reading
<1>5. CASE Kill
  <2>1. disk' = disk /\ pc'[Main] = "idle" /\ call'[Main] = NoCall
    BY <1>1, <1>5 DEF Kill, Main
  <2>2. OneFolderOneProject'
    BY <2>1, SameFolders DEF FolderInv
  <2>3. QED
    BY <2>1, <2>2 DEF FolderInv, NoCall
<1>6. QED
  BY <1>1, <1>2, <1>3, <1>4, <1>5 DEF Next, Calling

\* The routes that read a record before they change it never make a second
\* pointer to a folder, whatever a kill leaves of a rename (rename_project,
\* library_store.py).
THEOREM OneFolder ==
  ASSUME Reviews = {}, Routes \subseteq FreshRoutes
  PROVE  Spec => []OneFolderOneProject
<1>1. Init => Typed /\ DamageInv /\ FolderInv
  BY InitTyped, InitDamage, InitFolder
<1>2. Typed /\ DamageInv /\ FolderInv /\ [Next]_vars => (Typed /\ DamageInv /\ FolderInv)'
  BY NextTyped, DamageStep, FolderStep
<1>3. FolderInv => OneFolderOneProject
  BY DEF FolderInv
<1>4. QED
  BY <1>1, <1>2, <1>3, PTL DEF Spec
-------------------------------------------------------------------------------
(* An acknowledged edit is kept. *)

Held == pc[Main] \in {"writePointer", "saveManifest", "writeManifest"}
InFiles(e) == \E f \in Files: Readable(disk[f]) /\ e \in disk[f].edits
Acked(e) == edit[e] = "acknowledged"

\* With one worker, an edit is in a file or in its hand.
LEMMA KeptMeans ==
  ASSUME Workers = {Main}
  PROVE  AcknowledgedEditsKept <=>
            \A e \in Edits: Acked(e) => InFiles(e) \/ (Held /\ e \in hand[Main].edits)
<1>1. \A e: e \in Stored <=> InFiles(e)
  BY DEF Stored, InFiles
<1>2. \A e: e \in InHand <=> Held /\ e \in hand[Main].edits
  BY DEF InHand, Held
<1>3. QED
  BY <1>1, <1>2 DEF AcknowledgedEditsKept, Acked

\* Only the end of a call that saves acknowledges an edit, its own.
LEMMA WhoAcknowledges ==
  ASSUME Typed, NEW w \in Workers, NEW e \in Edits
  PROVE  /\ Raise(w) /\ Acked(e)' => Acked(e)
         /\ \A r: Return(w, r) /\ Acked(e)' => Acked(e) \/ ("edit" \in DOMAIN call[w]
                                                           /\ e = call[w].edit)
         /\ \A to, r: Then(w, to, r) => Acked(e)' = Acked(e)
         /\ call[w] \in Loading \cup Flagging \cup Renaming \cup Opened =>
               "edit" \notin DOMAIN call[w]
         /\ call[w] \in Saving <=> ("edit" \in DOMAIN call[w])
<1>1. /\ call[w] \in Loading \cup Flagging \cup Renaming \cup Opened =>
            "edit" \notin DOMAIN call[w]
      /\ call[w] \in Saving => "edit" \in DOMAIN call[w]
  BY DEF Loading, Flagging, Renaming, Opened, Saving
<1>2. "edit" \in DOMAIN call[w] => call[w] \in Saving
  <2>1. "edit" \notin DOMAIN NoCall /\ \A c \in Opening: "edit" \notin DOMAIN c
    BY DEF NoCall, Opening
  <2>2. call[w] \in {NoCall} \cup NamedCall \cup Opening
    BY DEF Typed, WorkersPlaced, Placed, CallAt, NamedCall
  <2>3. QED
    BY <1>1, <2>1, <2>2 DEF NamedCall
<1>3. Raise(w) /\ Acked(e)' => Acked(e)
  BY DEF Raise, EditBecomes, Acked
<1>4. \A r: Return(w, r) /\ Acked(e)' => Acked(e) \/ ("edit" \in DOMAIN call[w]
                                                      /\ e = call[w].edit)
  BY DEF Return, EditBecomes, Acked
<1>5. \A to, r: Then(w, to, r) => Acked(e)' = Acked(e)
  BY DEF Then, uiVars, Acked
<1>6. QED
  BY <1>1, <1>2, <1>3, <1>4, <1>5

LEMMA InitEdits == ASSUME Init PROVE EditsInv
<1>1. pc[Main] = "idle"
  BY DEF Init, Workers, Main
<1>2. QED
  BY <1>1 DEF EditsInv, AcknowledgedEditsKept, Init

LEMMA ReadingEdits ==
  ASSUME Workers = {Main}, Typed, FolderInv, EditsInv, Reading(Main)
  PROVE  EditsInv'
<1> DEFINE n == Target(Main)
<1>1. \A f \in Files: /\ Readable(disk'[f]) <=> Readable(disk[f])
                      /\ Readable(disk[f]) => disk'[f] = disk[f]
  BY ReadingKeeps
<1>2. ~ReadFolder(Main) /\ ~Held
  BY DEF Reading, Read, ReadManifest, ReadFlag, RenameRead, RenameManifest, ReadFolder,
     At, Typed, WorkersPlaced, Placed, CallAt, Opening, FolderInv, FreshRoutes, Held
<1>3. \A e: InFiles(e)' <=> InFiles(e)
  BY <1>1 DEF InFiles
<1>4. n \in Names /\ n \in Files
  BY <1>2 DEF Reading, Read, ReadManifest, ReadFlag, RenameRead, RenameManifest, At,
     Typed, WorkersPlaced, Placed, CallAt, Loading, Saving, Opened, Flagging, Renaming,
     Target, Files
<1>5. ASSUME \A e \in Edits: Acked(e)' => Acked(e)
      PROVE  AcknowledgedEditsKept'
  BY <1>2, <1>3, <1>5, KeptMeans DEF EditsInv, AcknowledgedEditsKept, Acked, Stored, InFiles
<1>6. CASE Raise(Main) \/ (call[Main] \notin Saving /\ \E r: Return(Main, r))
  <2>1. AcknowledgedEditsKept'
    BY <1>5, <1>6, WhoAcknowledges
  <2>2. QED
    BY <1>6, <2>1, Endings DEF EditsInv
<1>7. ASSUME NEW r \in Record, Then(Main, "savePointer", r),
             Readable(disk[n]) => disk[n].edits \subseteq r.edits,
             Saves(Main) => call[Main].edit \in r.edits
                            /\ (r.dir # NoDir => (Readable(disk[r.dir]) =>
                                                    disk[r.dir].edits \subseteq r.edits))
      PROVE  EditsInv'
  <2>1. /\ pc'[Main] = "savePointer" /\ hand'[Main] = r /\ call' = call
        /\ Target(Main)' = n /\ Saves(Main)' = Saves(Main)
    BY <1>7, Endings DEF Target, Saves
  <2>2. AcknowledgedEditsKept'
    BY <1>5, <1>7, WhoAcknowledges
  <2>3. r.dir # NoDir => r.dir \in Files
    BY RecordChanges DEF Folders, Files
  <2>4. QED
    BY <1>1, <1>4, <1>7, <2>1, <2>2, <2>3 DEF EditsInv, Carried
<1>8. \A f \in Files: Readable(disk[f]) => disk[f] \in Record
  BY Kinds DEF Typed, DiskTyped
<1>9. CASE Read(Main)
  <2>1. CASE ~Readable(disk[n])
    BY <1>6, <1>9, <2>1 DEF Read
  <2>2. CASE Readable(disk[n]) /\ disk[n].dir = NoDir
    <3> DEFINE q == [disk[n] EXCEPT !.name = n]
               r == [q EXCEPT !.edits = @ \cup {call[Main].edit}]
    <3>1. disk[n] \in Record
      BY <1>4, <1>8, <2>2
    <3>2. q \in Record /\ q.edits = disk[n].edits /\ q.dir = NoDir
      BY <1>4, <2>2, <3>1 DEF Record
    <3>3. Loaded(Main, q)
      BY <1>9, <2>2 DEF Read
    <3>4. CASE call[Main].route \in {"load", "open"}
      <4>1. call[Main] \notin Saving
        BY <3>4 DEF Saving
      <4>2. QED
        BY <1>6, <3>3, <3>4, <4>1 DEF Loaded
    <3>5. CASE call[Main].route \notin {"load", "open"}
      <4>1. call[Main].edit \in Edits
        BY <1>9, <3>5 DEF Read, At, Typed, WorkersPlaced, Placed, CallAt, Loading, Saving,
           Opened
      <4>2. /\ r \in Record /\ r.edits = disk[n].edits \cup {call[Main].edit}
            /\ r.dir = NoDir
        BY <3>2, <4>1 DEF Record
      <4>3. Then(Main, "savePointer", r)
        BY <3>3, <3>5 DEF Loaded
      <4>4. QED
        BY <1>7, <4>2, <4>3
    <3>6. QED
      BY <3>4, <3>5
  <2>3. CASE Readable(disk[n]) /\ disk[n].dir # NoDir
    <3>1. Then(Main, "readManifest", disk[n])
      BY <1>9, <2>3 DEF Read
    <3>2. AcknowledgedEditsKept'
      BY <1>5, <3>1, WhoAcknowledges
    <3>3. QED
      BY <3>1, <3>2, Endings DEF EditsInv
  <2>4. QED
    BY <2>1, <2>2, <2>3
<1>10. CASE ReadManifest(Main)
  <2> DEFINE d == hand[Main].dir
             q == [disk[d] EXCEPT !.name = n, !.dir = d]
             r == [q EXCEPT !.edits = @ \cup {call[Main].edit}]
  <2>1. /\ Readable(disk[n]) /\ disk[n].dir = d /\ d \in Dirs /\ d \in Files
        /\ d # NoDir
    BY <1>10, ProjectStoreAssumption DEF ReadManifest, At, FolderInv, Typed, WorkersPlaced,
       Placed, Files
  <2>2. disk[n].edits = {}
    BY <1>4, <2>1 DEF Typed, DiskTyped
  <2>3. CASE ~Readable(disk[d])
    BY <1>6, <1>10, <2>3 DEF ReadManifest
  <2>4. CASE Readable(disk[d])
    <3>1. disk[d] \in Record
      BY <1>8, <2>1, <2>4
    <3>2. q \in Record /\ q.edits = disk[d].edits /\ q.dir = d
      BY <1>4, <2>1, <3>1 DEF Record, Folders
    <3>3. Loaded(Main, q)
      BY <1>10, <2>4 DEF ReadManifest
    <3>4. CASE call[Main].route \in {"load", "open"}
      <4>1. call[Main] \notin Saving
        BY <3>4 DEF Saving
      <4>2. QED
        BY <1>6, <3>3, <3>4, <4>1 DEF Loaded
    <3>5. CASE call[Main].route \notin {"load", "open"}
      <4>1. call[Main].edit \in Edits
        BY <1>10, <3>5 DEF ReadManifest, At, Typed, WorkersPlaced, Placed, CallAt, Loading,
           Saving, Opened
      <4>2. /\ r \in Record /\ r.edits = disk[d].edits \cup {call[Main].edit}
            /\ r.dir = d
        BY <3>2, <4>1 DEF Record
      <4>3. Then(Main, "savePointer", r)
        BY <3>3, <3>5 DEF Loaded
      <4>4. QED
        BY <1>7, <2>2, <4>2, <4>3
    <3>6. QED
      BY <3>4, <3>5
  <2>5. QED
    BY <2>3, <2>4
<1>11. CASE ReadFlag(Main) \/ RenameRead(Main)
  <2> DEFINE r == IF ReadFlag(Main)
                    THEN [disk[n] EXCEPT !.removed = call[Main].route = "hide"]
                    ELSE [disk[n] EXCEPT !.name = n]
  <2>1. CASE ~Readable(disk[n])
    BY <1>6, <1>11, <2>1 DEF ReadFlag, RenameRead
  <2>2. CASE Readable(disk[n])
    <3>1. disk[n] \in Record
      BY <1>4, <1>8, <2>2
    <3>2. r \in Record /\ r.edits = disk[n].edits
      BY <1>4, <3>1 DEF Record
    <3>3. Then(Main, "savePointer", r)
      BY <1>11, <2>2 DEF ReadFlag, RenameRead
    <3>4. ~Saves(Main)
      BY <1>11 DEF ReadFlag, RenameRead, At, Typed, WorkersPlaced, Placed, CallAt, Flagging,
         Renaming, Saves
    <3>5. QED
      BY <1>7, <3>2, <3>3, <3>4
  <2>3. QED
    BY <2>1, <2>2
<1>12. CASE RenameManifest(Main)
  <2> DEFINE d == hand[Main].dir
             r == [disk[d] EXCEPT !.name = n]
  <2>1. call[Main] \in Renaming /\ d \in Dirs /\ d \in Files
    BY <1>12 DEF RenameManifest, At, Typed, WorkersPlaced, Placed, CallAt, Files
  <2>2. call[Main] \notin Saving /\ ~Saves(Main)
    BY <2>1 DEF Renaming, Saving, Saves
  <2>3. CASE Readable(disk[d])
    <3>1. disk[d] \in Record /\ disk[d].dir = d
      BY <1>8, <2>1, <2>3 DEF Typed, DiskTyped
    <3>2. r.edits = disk[d].edits /\ r.dir = d
      BY <3>1 DEF Record
    <3>3. Then(Main, "saveManifest", r)
      BY <1>12, <2>3 DEF RenameManifest
    <3>4. /\ pc'[Main] = "saveManifest" /\ hand'[Main] = r /\ ~Saves(Main)'
      BY <2>2, <3>3, Endings DEF Saves
    <3>5. AcknowledgedEditsKept'
      BY <1>5, <3>3, WhoAcknowledges
    <3>6. QED
      BY <1>1, <2>1, <3>2, <3>4, <3>5 DEF EditsInv, Carried
  <2>4. CASE ~Readable(disk[d])
    BY <1>6, <1>12, <2>2, <2>4 DEF RenameManifest
  <2>5. QED
    BY <2>3, <2>4
<1>13. QED
  BY <1>2, <1>9, <1>10, <1>11, <1>12 DEF Reading
\* A file that is opened loses only edits that are in hand.
LEMMA TruncateEdits ==
  ASSUME Workers = {Main}, Typed, EditsInv, SavePointer(Main) \/ SaveManifest(Main)
  PROVE  EditsInv'
<1> DEFINE n == Target(Main)
           f == IF SavePointer(Main) THEN n ELSE hand[Main].dir
<1>1. /\ f \in Files /\ hand[Main] \in Record /\ pc[Main] \in {"savePointer", "saveManifest"}
      /\ SavePointer(Main) => n \in Names /\ pc[Main] = "savePointer"
      /\ ~SavePointer(Main) => pc[Main] = "saveManifest"
  BY DEF SavePointer, SaveManifest, At, Typed, WorkersPlaced, Placed, CallAt,
     Saving, Flagging, Renaming, Opened, Target, Files
<1>2. /\ Put(f, Empty) /\ hand' = hand /\ call' = call /\ edit' = edit
      /\ pc'[Main] = IF SavePointer(Main) THEN "writePointer" ELSE "writeManifest"
  BY <1>1 DEF SavePointer, SaveManifest, At, Truncate, Go, Typed, WorkersPlaced, uiVars
<1>3. \A g \in Files: disk'[g] = IF g = f THEN Empty ELSE disk[g]
  BY <1>1, <1>2 DEF Put, Typed, DiskTyped
<1>4. Carried(f)
  BY <1>1 DEF EditsInv
<1>5. \A e: InFiles(e) => InFiles(e)' \/ e \in hand[Main].edits
  BY <1>3, <1>4 DEF InFiles, Carried
<1>6. AcknowledgedEditsKept'
  <2>1. Workers' = Workers
    BY DEF Workers
  <2>2. Held' /\ hand' = hand /\ \A e \in Edits: Acked(e)' = Acked(e)
    BY <1>2 DEF Held, Acked
  <2>3. \A e \in Edits: Acked(e) => InFiles(e) \/ (Held /\ e \in hand[Main].edits)
    BY KeptMeans DEF EditsInv
  <2>4. AcknowledgedEditsKept' <=>
            \A e \in Edits: Acked(e)' => InFiles(e)' \/ (Held' /\ e \in hand'[Main].edits)
    BY <1>2 DEF AcknowledgedEditsKept, Acked, InFiles, Held, Stored, InHand
  <2>5. QED
    BY <1>5, <2>2, <2>3, <2>4
<1>7. SavePointer(Main) /\ hand[Main].dir # NoDir /\ Saves(Main) => Carried(hand[Main].dir)'
  <2> SUFFICES ASSUME SavePointer(Main), hand[Main].dir # NoDir, Saves(Main)
               PROVE  Carried(hand[Main].dir)'
    OBVIOUS
  <2>1. hand[Main].dir \in Files /\ hand[Main].dir # f
    BY <1>1, RecordChanges, ProjectStoreAssumption DEF Folders, Files
  <2>2. Carried(hand[Main].dir)
    BY <1>1 DEF EditsInv
  <2>3. QED
    BY <1>2, <1>3, <2>1, <2>2 DEF Carried
<1>8. QED
  BY <1>1, <1>2, <1>6, <1>7 DEF EditsInv, Saves

\* What is written has them all.
LEMMA WriteEdits ==
  ASSUME Workers = {Main}, Typed, DamageInv, EditsInv,
         WritePointer(Main) \/ WriteManifest(Main)
  PROVE  EditsInv'
<1> DEFINE f == handle[Main]
           r == hand[Main]
           split == WritePointer(Main) /\ Saves(Main) /\ r.dir # NoDir
<1>1. /\ f \in Files /\ r \in Record /\ Writing /\ disk[f] = Empty
      /\ WritePointer(Main) => pc[Main] = "writePointer" /\ f \in Names
      /\ ~WritePointer(Main) => pc[Main] = "writeManifest"
      /\ call[Main] \in NamedCall
  BY DEF WritePointer, WriteManifest, At, DamageInv, Writing, Typed, WorkersPlaced, Placed,
     CallAt, NamedCall, Files
<1>2. PICK c \in Record: Put(f, c) /\ (~split => c = r)
  BY <1>1, RecordChanges DEF WritePointer, WriteManifest, Written
<1>3. \A g \in Files: disk'[g] = IF g = f THEN c ELSE disk[g]
  BY <1>1, <1>2 DEF Put, Typed, DiskTyped
<1>4. Readable(c) /\ ~Readable(Empty)
  BY <1>2, Kinds
<1>5. \A e: InFiles(e) => InFiles(e)'
  BY <1>1, <1>3, <1>4 DEF InFiles
<1>6. ~split => \A e \in r.edits: InFiles(e)'
  BY <1>1, <1>2, <1>3, <1>4 DEF InFiles
<1>7. \A e \in Edits: Acked(e) => InFiles(e) \/ e \in r.edits
  BY KeptMeans DEF EditsInv
<1>8. AcknowledgedEditsKept' <=>
          \A e \in Edits: Acked(e)' => InFiles(e)' \/ (Held' /\ e \in hand'[Main].edits)
  BY DEF AcknowledgedEditsKept, Acked, InFiles, Held, Stored, InHand
<1>9. CASE split
  <2>1. Then(Main, "saveManifest", r)
    BY <1>9 DEF WritePointer, Saves
  <2>2. /\ pc'[Main] = "saveManifest" /\ hand'[Main] = r /\ call' = call
        /\ Saves(Main)' = Saves(Main)
    BY <2>1, Endings DEF Saves
  <2>3. AcknowledgedEditsKept'
    BY <1>5, <1>7, <1>8, <2>1, <2>2, WhoAcknowledges DEF Held
  <2>4. Carried(r.dir) /\ call[Main].edit \in r.edits
    BY <1>1, <1>9 DEF EditsInv
  <2>5. r.dir \in Files /\ r.dir # f
    BY <1>1, <1>9, RecordChanges, ProjectStoreAssumption DEF Folders, Files
  <2>6. QED
    BY <1>3, <2>2, <2>3, <2>4, <2>5 DEF EditsInv, Carried
<1>10. CASE ~split
  <2>1. \/ Return(Main, r)
        \/ Then(Main, "renameManifest", r)
        \/ Then(Main, "read", r)
    BY <1>10 DEF WritePointer, WriteManifest
  <2>2. /\ pc'[Main] \in {"idle", "done", "renameManifest", "read"}
    BY <2>1, Endings
  <2>3. "edit" \in DOMAIN call[Main] => call[Main].edit \in r.edits
    <3>1. "edit" \in DOMAIN call[Main] => Saves(Main)
      BY <1>1 DEF NamedCall, Loading, Saving, Flagging, Renaming, Opened, Saves
    <3>2. QED
      BY <1>1, <3>1 DEF EditsInv
  <2>4. \A e \in Edits: Acked(e)' => Acked(e) \/ e \in r.edits
    BY <2>1, <2>3, WhoAcknowledges
  <2>5. AcknowledgedEditsKept'
    BY <1>5, <1>6, <1>7, <1>8, <1>10, <2>4
  <2>6. QED
    BY <2>2, <2>5 DEF EditsInv
<1>11. QED
  BY <1>9, <1>10

LEMMA MoveEdits ==
  ASSUME Workers = {Main}, Typed, EditsInv, Move(Main)
  PROVE  EditsInv'
<1> DEFINE n == call[Main].name
           m == call[Main].other
<1>1. AcknowledgedEditsKept' <=>
          \A e \in Edits: Acked(e)' => InFiles(e)' \/ (Held' /\ e \in hand'[Main].edits)
  BY DEF AcknowledgedEditsKept, Acked, InFiles, Held, Stored, InHand
<1>2. \A e \in Edits: Acked(e) => InFiles(e)
  BY KeptMeans, Moves DEF EditsInv, Held
<1>3. CASE Raise(Main) /\ disk' = disk
  <2>1. \A e: InFiles(e)' <=> InFiles(e)
    BY <1>3 DEF InFiles
  <2>2. AcknowledgedEditsKept'
    BY <1>1, <1>2, <1>3, <2>1, WhoAcknowledges
  <2>3. QED
    BY <1>3, <2>2, Endings DEF EditsInv
<1>4. CASE /\ n \in Names /\ m \in Names /\ disk[m] = Absent
           /\ \A f \in Files: disk'[f] = IF f = n THEN Absent
                                         ELSE IF f = m THEN disk[n] ELSE disk[f]
           /\ pc'[Main] = "renameRead" /\ edit' = edit
  <2>1. \A e: InFiles(e) => InFiles(e)'
    <3> SUFFICES ASSUME NEW e, NEW f \in Files, Readable(disk[f]), e \in disk[f].edits
                 PROVE  InFiles(e)'
      BY DEF InFiles
    <3>1. n \in Files /\ m \in Files /\ f # m
      BY <1>4, Kinds DEF Files
    <3>2. disk'[IF f = n THEN m ELSE f] = disk[f]
      BY <1>4, <3>1
    <3>3. QED
      BY <3>1, <3>2 DEF InFiles
  <2>2. AcknowledgedEditsKept'
    BY <1>1, <1>2, <1>4, <2>1 DEF Acked
  <2>3. QED
    BY <1>4, <2>2 DEF EditsInv
<1>5. QED
  BY <1>3, <1>4, Moves DEF uiVars

LEMMA KillEdits ==
  ASSUME Workers = {Main}, Typed, EditsInv, Kill
  PROVE  EditsInv'
<1>1. pc'[Main] = "idle" /\ disk' = disk
  BY DEF Kill, Main
<1>2. Stored' = Stored
  BY <1>1 DEF Stored
<1>3. ASSUME NEW e \in Edits, edit'[e] = "acknowledged" PROVE e \in Stored
  <2>1. edit[e] = "acknowledged" /\ e \notin InHand \ Stored
    BY <1>3 DEF Kill
  <2>2. QED
    BY <2>1 DEF EditsInv, AcknowledgedEditsKept
<1>4. AcknowledgedEditsKept'
  BY <1>2, <1>3 DEF AcknowledgedEditsKept
<1>5. QED
  BY <1>1, <1>4 DEF EditsInv

LEMMA EditsStep ==
  ASSUME Reviews = {}, Routes \subseteq FreshRoutes, Typed, DamageInv, FolderInv,
         EditsInv, [Next]_vars
  PROVE  EditsInv'
<1>1. Workers = {Main}
  BY DEF Workers, Main
<1>2. CASE UNCHANGED vars
  BY <1>2 DEF vars, workerVars, uiVars, EditsInv, AcknowledgedEditsKept, Stored, InHand,
     Carried, Target, Saves
<1>3. CASE Calling
  <2>1. PICK c, at, r: /\ Call(c, at, r)
                       /\ c.route \in FreshRoutes => at \in {"read", "readFlag", "move"}
                       /\ edit' = edit \/ \E e \in Edits: Make(e)
    BY <1>3, CallingCalls
  <2>2. /\ c.route \in FreshRoutes /\ pc'[Main] = at /\ pc[Main] = "idle" /\ disk' = disk
    BY <1>1, <2>1 DEF Call, Go, Typed, WorkersPlaced, Main
  <2>3. Stored' = Stored
    BY <2>2 DEF Stored
  <2>4. \A e \in Edits: edit'[e] = "acknowledged" => edit[e] = "acknowledged"
    BY <2>1 DEF Make, Typed, UiTyped
  <2>5. InHand = {}
    BY <1>1, <2>2 DEF InHand
  <2>6. AcknowledgedEditsKept'
    BY <2>3, <2>4, <2>5 DEF EditsInv, AcknowledgedEditsKept
  <2>7. QED
    BY <2>1, <2>2, <2>6 DEF EditsInv
<1>4. CASE Step(Main)
  BY <1>1, <1>4, ReadingEdits, TruncateEdits, WriteEdits, MoveEdits DEF Step, Reading
<1>5. CASE Kill
  BY <1>1, <1>5, KillEdits
<1>6. QED
  BY <1>1, <1>2, <1>3, <1>4, <1>5 DEF Next, Calling

\* While no review runs and the webview saves no record it loaded earlier, an
\* edit that was acknowledged stays in a file, or is in the hand of the thread
\* that is writing it back (the set_* routes of library_store.py).
THEOREM EditsKept ==
  ASSUME Reviews = {}, Routes \subseteq FreshRoutes
  PROVE  Spec => []AcknowledgedEditsKept
<1> DEFINE I == Typed /\ DamageInv /\ FolderInv /\ EditsInv
<1>1. Init => I
  BY InitTyped, InitDamage, InitFolder, InitEdits
<1>2. I /\ [Next]_vars => I'
  BY NextTyped, DamageStep, FolderStep, EditsStep
<1>3. I => AcknowledgedEditsKept
  BY DEF EditsInv
<1>4. QED
  BY <1>1, <1>2, <1>3, PTL DEF Spec
-------------------------------------------------------------------------------
(* A removed project stays removed. *)

\* What is not there, and what is there without its flag.
Gone(n) == n \in hidden /\ disk[n] = Absent
Bared(n) == /\ n \in hidden /\ Readable(disk[n]) /\ disk[n].dir = NoDir
            /\ ~disk[n].removed

LEMMA InitRemoval == ASSUME Init PROVE RemovalInv
  BY DEF Init, RemovalInv, Workers, Main, NoCall

\* How a call that returns changes the list of removed projects.
LEMMA HiddenAfter ==
  ASSUME Typed, NEW w \in Workers, NEW r, Return(w, r), NEW n \in hidden'
  PROVE  /\ n \in hidden \/ (call[w].route = "hide" /\ n = Target(w))
         /\ call[w].route = "restore" => n # Target(w)
         /\ call[w].route = "rename" => n # Target(w) /\ n # call[w].other
  BY DEF Return

LEMMA ReadingRemoval ==
  ASSUME Workers = {Main}, Typed, DamageInv, FolderInv, RemovalInv, Reading(Main)
  PROVE  RemovalInv'
<1> DEFINE n == Target(Main)
<1>1. \A f \in Files: /\ Readable(disk'[f]) <=> Readable(disk[f])
                      /\ Readable(disk[f]) => disk'[f] = disk[f]
                      /\ disk'[f] = Absent => disk[f] = Absent
  BY ReadingKeeps
<1>2. ~ReadFolder(Main)
  BY DEF ReadFolder, At, Typed, WorkersPlaced, Placed, CallAt, Opening, FolderInv,
     FreshRoutes
<1>3. n \in Names /\ n \in Files /\ \A x \in hidden: x \in Files
  BY <1>2 DEF Reading, Read, ReadManifest, ReadFlag, RenameRead, RenameManifest, At,
     Typed, UiTyped, WorkersPlaced, Placed, CallAt, Loading, Saving, Opened, Flagging,
     Renaming, Target, Files
<1>4. \A f \in Files: Readable(disk[f]) => disk[f] \in Record
  BY Kinds DEF Typed, DiskTyped
<1>5. ASSUME hidden' \subseteq hidden, killed' = killed,
             pc'[Main] \notin {"savePointer", "writePointer", "renameRead", "renameManifest"},
             \A x \in hidden': Gone(x) => killed \/ (Renamed' /\ call'[Main].other = x),
             \A x \in hidden': Bared(x) => (Renamed' /\ Target(Main)' = x /\ killed)
      PROVE  RemovalInv'
  BY <1>1, <1>3, <1>5 DEF RemovalInv, Gone, Bared
<1>6. ASSUME NEW r, Then(Main, "savePointer", r),
             \A x \in hidden: Gone(x) => killed \/ (Renamed' /\ call'[Main].other = x),
             \A x \in hidden: Bared(x) => (Renamed' /\ Target(Main)' = x /\ killed),
             r.dir = NoDir /\ n \in hidden =>
                r.removed \/ call[Main].route = "restore"
                          \/ (call[Main].route = "rename" /\ killed),
             call[Main].route = "hide" => r.removed
      PROVE  RemovalInv'
  <2>1. /\ pc'[Main] = "savePointer" /\ hand'[Main] = r /\ call' = call
        /\ Target(Main)' = n /\ hidden' = hidden /\ killed' = killed
    BY <1>6, Endings DEF Target
  <2>2. QED
    BY <1>1, <1>3, <1>6, <2>1 DEF RemovalInv, Gone, Bared
<1>7. ASSUME ~Renamed, NEW x \in hidden
      PROVE  (Gone(x) => killed) /\ ~Bared(x)
  BY <1>7 DEF RemovalInv, Gone, Bared
<1>8. CASE Read(Main)
  <2>1. ~Renamed /\ call[Main] \in Loading \cup Saving \cup Opened
    BY <1>8 DEF Read, At, Renamed, Typed, WorkersPlaced, Placed, CallAt
  <2>2. /\ call[Main].route # "hide" /\ call[Main].route # "rename"
        /\ call[Main].route # "open" /\ call[Main].route # "restore"
    BY <2>1 DEF FolderInv, FreshRoutes, Loading, Saving, Opened
  <2>3. CASE Raise(Main)
    BY <1>5, <1>7, <2>1, <2>3, Endings
  <2>4. CASE \E r: Return(Main, r)
    BY <1>5, <1>7, <2>1, <2>2, <2>4, Endings, HiddenAfter
  <2>5. CASE Then(Main, "readManifest", disk[n])
    BY <1>5, <1>7, <2>1, <2>5, Endings
  <2> DEFINE q == [disk[n] EXCEPT !.name = n]
             r == [q EXCEPT !.edits = @ \cup {call[Main].edit}]
  <2>6. CASE Readable(disk[n]) /\ disk[n].dir = NoDir /\ Then(Main, "savePointer", r)
    <3>1. r.dir = NoDir /\ r.removed = disk[n].removed
      BY <1>3, <1>4, <2>6 DEF Record
    <3>2. n \in hidden => disk[n].removed
      BY <1>7, <2>1, <2>6 DEF Bared
    <3>3. QED
      BY <1>6, <1>7, <2>1, <2>2, <2>6, <3>1, <3>2
  <2>7. QED
    BY <1>8, <2>3, <2>4, <2>5, <2>6 DEF Read, Loaded
<1>9. CASE ReadManifest(Main)
  <2>1. /\ ~Renamed /\ call[Main] \in Loading \cup Saving \cup Opened
        /\ hand[Main].dir \in Dirs /\ hand[Main].dir \in Files
    BY <1>9 DEF ReadManifest, At, Renamed, Typed, WorkersPlaced, Placed, CallAt, Files
  <2>2. /\ call[Main].route # "hide" /\ call[Main].route # "rename"
        /\ call[Main].route # "open"
    BY <2>1 DEF FolderInv, FreshRoutes, Loading, Saving, Opened
  <2>3. CASE Raise(Main)
    BY <1>5, <1>7, <2>1, <2>3, Endings
  <2>4. CASE \E r: Return(Main, r)
    BY <1>5, <1>7, <2>1, <2>2, <2>4, Endings, HiddenAfter
  <2> DEFINE q == [disk[hand[Main].dir] EXCEPT !.name = n, !.dir = hand[Main].dir]
             r == [q EXCEPT !.edits = @ \cup {call[Main].edit}]
  <2>5. CASE Readable(disk[hand[Main].dir]) /\ Then(Main, "savePointer", r)
    <3>1. disk[hand[Main].dir] \in Record
      BY <1>4, <2>1, <2>5
    <3>2. r.dir = hand[Main].dir /\ r.dir # NoDir
      BY <2>1, <3>1, ProjectStoreAssumption DEF Record
    <3>3. QED
      BY <1>6, <1>7, <2>1, <2>2, <2>5, <3>2
  <2>6. QED
    BY <1>9, <2>3, <2>4, <2>5 DEF ReadManifest, Loaded
<1>10. CASE ReadFlag(Main)
  <2>1. ~Renamed /\ call[Main] \in Flagging
    BY <1>10 DEF ReadFlag, At, Renamed, Typed, WorkersPlaced, Placed, CallAt
  <2>2. CASE Raise(Main)
    BY <1>5, <1>7, <2>1, <2>2, Endings
  <2> DEFINE r == [disk[n] EXCEPT !.removed = call[Main].route = "hide"]
  <2>3. CASE Readable(disk[n]) /\ Then(Main, "savePointer", r)
    <3>1. r.removed = (call[Main].route = "hide")
      BY <1>3, <1>4, <2>3 DEF Record
    <3>2. call[Main].route \in {"hide", "restore"}
      BY <2>1 DEF Flagging
    <3>3. QED
      BY <1>6, <1>7, <2>1, <2>3, <3>1, <3>2
  <2>4. QED
    BY <1>10, <2>2, <2>3 DEF ReadFlag
<1>11. CASE RenameRead(Main)
  <2>1. Renamed /\ call[Main].route = "rename" /\ pc[Main] = "renameRead"
    BY <1>11 DEF RenameRead, At, Renamed, Typed, WorkersPlaced, Placed, CallAt, Renaming
  <2>2. \A x \in hidden: Gone(x) => killed \/ call[Main].other = x
    BY DEF RemovalInv, Gone
  <2>3. \A x \in hidden: Bared(x) => n = x /\ killed
    BY DEF RemovalInv, Bared
  <2>4. CASE ~Readable(disk[n]) /\ Raise(Main)
    <3>1. killed /\ \A x \in hidden: ~Bared(x)
      BY <2>1, <2>3, <2>4 DEF RemovalInv, Bared
    <3>2. QED
      BY <1>5, <2>4, <3>1, Endings
  <2> DEFINE r == [disk[n] EXCEPT !.name = n]
  <2>5. CASE Readable(disk[n]) /\ Then(Main, "savePointer", r)
    <3>1. r.removed = disk[n].removed /\ r.dir = disk[n].dir
      BY <1>3, <1>4, <2>5 DEF Record
    <3>2. Renamed' /\ call' = call /\ Target(Main)' = n
      BY <2>1, <2>5, Endings DEF Renamed, Target
    <3>3. r.dir = NoDir /\ n \in hidden => r.removed \/ killed
      BY <2>3, <2>5, <3>1 DEF Bared
    <3>4. QED
      BY <1>6, <2>1, <2>2, <2>3, <2>5, <3>2, <3>3
  <2>6. QED
    BY <1>11, <2>4, <2>5 DEF RenameRead
<1>12. CASE RenameManifest(Main)
  <2> DEFINE d == hand[Main].dir
  <2>1. /\ Renamed /\ call[Main].route = "rename" /\ pc[Main] = "renameManifest"
        /\ d \in Dirs /\ d \in Files
    BY <1>12 DEF RenameManifest, At, Renamed, Typed, WorkersPlaced, Placed, CallAt, Renaming,
       Files
  <2>2. \A x \in hidden: Gone(x) => killed \/ call[Main].other = x
    BY DEF RemovalInv, Gone
  <2>3. \A x \in hidden: ~Bared(x)
    BY <2>1 DEF RemovalInv, Bared
  <2>4. CASE IsFile(disk[d]) /\ ~Readable(disk[d]) /\ Raise(Main)
    <3>1. disk[d] \in {Empty, Garbage}
      BY <2>1, <2>4, Kinds DEF Typed, DiskTyped, Contents, IsFile
    <3>2. killed
      BY <2>1, <3>1 DEF DamageInv, OpenFiles, Writing
    <3>3. QED
      BY <1>5, <2>3, <2>4, <3>2, Endings
  <2>5. CASE \E r: Then(Main, "saveManifest", r)
    <3>1. Renamed' /\ call' = call /\ pc'[Main] = "saveManifest"
      BY <2>1, <2>5, Endings DEF Renamed
    <3>2. QED
      BY <1>5, <2>2, <2>3, <2>5, <3>1, Endings
  <2>6. CASE Return(Main, hand[Main])
    BY <1>5, <2>1, <2>2, <2>3, <2>6, Endings, HiddenAfter
  <2>7. QED
    BY <1>12, <2>4, <2>5, <2>6 DEF RenameManifest
<1>13. QED
  BY <1>2, <1>8, <1>9, <1>10, <1>11, <1>12 DEF Reading

LEMMA TruncateRemoval ==
  ASSUME Workers = {Main}, Typed, RemovalInv, SavePointer(Main) \/ SaveManifest(Main)
  PROVE  RemovalInv'
<1> DEFINE f == IF SavePointer(Main) THEN Target(Main) ELSE hand[Main].dir
<1>1. /\ f \in Files
      /\ SavePointer(Main) => pc[Main] = "savePointer"
      /\ ~SavePointer(Main) => pc[Main] = "saveManifest"
  BY DEF SavePointer, SaveManifest, At, Typed, WorkersPlaced, Placed, CallAt,
     Saving, Flagging, Renaming, Opened, Target, Files
<1>2. /\ Put(f, Empty) /\ hand' = hand /\ call' = call /\ hidden' = hidden
      /\ killed' = killed
      /\ pc'[Main] = IF SavePointer(Main) THEN "writePointer" ELSE "writeManifest"
  BY DEF SavePointer, SaveManifest, Truncate, Go, Typed, WorkersPlaced, uiVars
<1>3. \A g \in Files: disk'[g] = IF g = f THEN Empty ELSE disk[g]
  BY <1>1, <1>2 DEF Put, Typed, DiskTyped
<1>4. Renamed' = Renamed /\ Target(Main)' = Target(Main)
  BY <1>1, <1>2 DEF Renamed, Target
<1>5. \A n \in hidden: n \in Files
  BY DEF Typed, UiTyped, Files
<1>6. QED
  BY <1>1, <1>2, <1>3, <1>4, <1>5, Kinds DEF RemovalInv, Empty, Absent

LEMMA WriteManifestRemoval ==
  ASSUME Workers = {Main}, Typed, RemovalInv, WriteManifest(Main)
  PROVE  RemovalInv'
<1>1. \A n \in Names: disk'[n] = disk[n]
  <2>1. handle[Main] \in Dirs /\ \E c: Put(handle[Main], c)
    BY DEF WriteManifest, At, Typed, WorkersPlaced, Placed
  <2>2. QED
    BY <2>1, ProjectStoreAssumption DEF Put, Typed, DiskTyped, Files
<1>2. call[Main] \in Saving \cup Renaming
  BY DEF WriteManifest, At, Typed, WorkersPlaced, Placed, CallAt
<1>3. call[Main].route # "hide" /\ (Renamed => call[Main].route = "rename")
  BY <1>2 DEF Saving, Renaming, Renamed
<1>4. Return(Main, hand[Main]) /\ pc'[Main] \in {"idle", "done"} /\ killed' = killed
  BY Endings DEF WriteManifest
<1>5. ASSUME NEW n \in hidden'
      PROVE  /\ n \in hidden /\ n \in Names
             /\ Renamed => n # Target(Main) /\ n # call[Main].other
  BY <1>3, <1>4, <1>5, HiddenAfter DEF Typed, UiTyped
<1>6. call'[Main] = NoCall
  BY <1>4, Endings
<1>7. QED
  BY <1>1, <1>4, <1>5, <1>6 DEF RemovalInv, NoCall

LEMMA WritePointerRemoval ==
  ASSUME Workers = {Main}, Typed, DamageInv, FolderInv, RemovalInv, WritePointer(Main)
  PROVE  RemovalInv'
<1> DEFINE n == Target(Main)
           r == hand[Main]
<1>1. /\ n \in Files /\ n \in Names /\ handle[Main] = n /\ r \in Record
      /\ pc[Main] = "writePointer" /\ disk[n] = Empty
      /\ call[Main] \in Saving \cup Flagging \cup Renaming \cup Opened
  BY DEF WritePointer, At, DamageInv, Writing, Typed, WorkersPlaced, Placed, CallAt, Files
<1>2. PICK c \in Record: Put(n, c) /\ c.dir = r.dir /\ (r.dir = NoDir => c = r)
  BY <1>1, RecordChanges DEF WritePointer, Written
<1>3. \A f \in Files: disk'[f] = IF f = n THEN c ELSE disk[f]
  BY <1>1, <1>2 DEF Put, Typed, DiskTyped
<1>4. c # Absent /\ Readable(c)
  BY <1>2, Kinds
<1>5. call[Main].route # "open" /\ (call[Main].route = "rename" <=> Renamed)
  BY <1>1 DEF FolderInv, FreshRoutes, Renamed
<1>6. CASE Return(Main, r)
  <2>1. /\ pc'[Main] \in {"idle", "done"} /\ killed' = killed /\ call'[Main] = NoCall
    BY <1>6, Endings
  <2>2. ASSUME NEW x \in hidden'
        PROVE  /\ x \in hidden \/ (x = n /\ call[Main].route = "hide")
               /\ x \in Files
               /\ call[Main].route = "restore" => x # n
               /\ Renamed => x # n /\ x # call[Main].other
    BY <1>1, <1>5, <1>6, <2>2, HiddenAfter DEF Typed, UiTyped, Files
  <2>3. ASSUME NEW x \in hidden', disk'[x] = Absent PROVE killed
    BY <1>3, <1>4, <2>2, <2>3 DEF RemovalInv
  <2>4. ASSUME NEW x \in hidden', Readable(disk'[x]), disk'[x].dir = NoDir
        PROVE  disk'[x].removed
    <3>1. CASE x = n
      <4>1. c = r /\ disk'[x] = c /\ r.dir = NoDir
        BY <1>2, <1>3, <2>2, <2>4, <3>1
      <4>2. ~Renamed /\ call[Main].route # "restore"
        BY <2>2, <3>1
      <4>3. r.removed
        BY <1>1, <1>5, <2>2, <3>1, <4>1, <4>2 DEF RemovalInv
      <4>4. QED
        BY <4>1, <4>3
    <3>2. CASE x # n
      BY <1>3, <2>2, <2>4, <3>2 DEF RemovalInv
    <3>3. QED
      BY <3>1, <3>2
  <2>5. QED
    BY <2>1, <2>3, <2>4 DEF RemovalInv, NoCall
<1>7. CASE r.dir # NoDir /\ \E to \in {"saveManifest", "renameManifest"}: Then(Main, to, r)
  <2>1. /\ pc'[Main] \in {"saveManifest", "renameManifest"} /\ killed' = killed
        /\ hidden' = hidden /\ call' = call /\ Target(Main)' = n
    BY <1>7, Endings DEF Target
  <2>2. Renamed' = Renamed
    BY <1>1, <2>1 DEF Renamed
  <2>3. \A x \in hidden: x \in Files
    BY DEF Typed, UiTyped, Files
  <2>4. QED
    BY <1>1, <1>2, <1>3, <1>4, <1>7, <2>1, <2>2, <2>3 DEF RemovalInv
<1>8. QED
  BY <1>5, <1>6, <1>7 DEF WritePointer

LEMMA MoveRemoval ==
  ASSUME Workers = {Main}, Typed, DamageInv, RemovalInv, Move(Main)
  PROVE  RemovalInv'
<1> DEFINE n == call[Main].name
           m == call[Main].other
<1>1. pc[Main] = "move" /\ ~Renamed /\ ~Writing /\ n \in Names /\ m \in Names
  BY Moves DEF Renamed, Writing
<1>2. \A x \in hidden: x \in Files /\ x \in Names
  BY DEF Typed, UiTyped, Files
<1>3. CASE Raise(Main) /\ disk' = disk
  BY <1>1, <1>3, Endings DEF RemovalInv, NoCall
<1>4. CASE /\ IsFile(disk[n]) /\ disk[m] = Absent
           /\ \A f \in Files: disk'[f] = IF f = n THEN Absent
                                         ELSE IF f = m THEN disk[n] ELSE disk[f]
           /\ pc'[Main] = "renameRead"
           /\ call'[Main].route = "rename" /\ call'[Main].name = m
           /\ call'[Main].other = n
           /\ hidden' = hidden /\ killed' = killed
  <2>1. Renamed' /\ Target(Main)' = m /\ n # m /\ n \in Files /\ m \in Files
    BY <1>1, <1>4 DEF Renamed, Target, IsFile, Files
  <2>2. \A x \in hidden: disk'[x] = Absent => killed \/ x = n
    BY <1>1, <1>2, <1>4, <2>1 DEF RemovalInv, IsFile
  <2>3. \A x \in hidden: Readable(disk'[x]) /\ disk'[x].dir = NoDir =>
            disk'[x].removed \/ (x = m /\ killed)
    BY <1>1, <1>2, <1>4, <2>1, Kinds DEF RemovalInv
  <2>4. ~killed => Readable(disk'[m])
    <3>1. disk'[m] = disk[n] /\ disk[n] \in Contents
      BY <1>4, <2>1 DEF Typed, DiskTyped
    <3>2. ~killed => disk[n] \notin {Empty, Garbage}
      BY <1>1, <2>1 DEF DamageInv, OpenFiles
    <3>3. QED
      BY <1>4, <3>1, <3>2, Kinds DEF Contents, IsFile
  <2>5. QED
    BY <1>4, <2>1, <2>2, <2>3, <2>4 DEF RemovalInv
<1>5. QED
  BY <1>3, <1>4, Moves DEF uiVars

LEMMA RemovalStep ==
  ASSUME Reviews = {}, Routes \subseteq FreshRoutes, Typed, DamageInv, FolderInv,
         RemovalInv, [Next]_vars
  PROVE  RemovalInv'
<1>1. Workers = {Main}
  BY DEF Workers, Main
<1>2. CASE UNCHANGED vars
  BY <1>2 DEF vars, workerVars, uiVars, RemovalInv, Renamed, Target
<1>3. CASE Calling
  <2>1. PICK c, at, r: /\ Call(c, at, r)
                       /\ c.route \in FreshRoutes => at \in {"read", "readFlag", "move"}
    BY <1>3, CallingCalls
  <2>2. /\ pc'[Main] \in {"read", "readFlag", "move"} /\ pc[Main] = "idle"
        /\ disk' = disk /\ hidden' = hidden /\ killed' = killed
    BY <1>1, <2>1 DEF Call, Go, Typed, WorkersPlaced, Main
  <2>3. QED
    BY <2>2 DEF RemovalInv, Renamed
<1>4. CASE Step(Main)
  BY <1>1, <1>4, ReadingRemoval, TruncateRemoval, WriteManifestRemoval,
     WritePointerRemoval, MoveRemoval DEF Step, Reading
<1>5. CASE Kill
  <2>1. /\ pc'[Main] = "idle" /\ call'[Main] = NoCall /\ disk' = disk
        /\ hidden' = hidden /\ ~killed /\ killed' = TRUE
    BY <1>1, <1>5 DEF Kill, Main
  <2>2. QED
    BY <2>1 DEF RemovalInv, NoCall
<1>6. QED
  BY <1>1, <1>2, <1>3, <1>4, <1>5 DEF Next, Calling

\* While no review runs, the removal of a project that is not linked holds until
\* it is undone, whatever the other routes and a kill do (set_project_removed,
\* library_store.py).
THEOREM RemovalSticks ==
  ASSUME Reviews = {}, Routes \subseteq FreshRoutes
  PROVE  Spec => []UnlinkedRemovalSticks
<1> DEFINE I == Typed /\ DamageInv /\ FolderInv /\ RemovalInv
<1>1. Init => I
  BY InitTyped, InitDamage, InitFolder, InitRemoval
<1>2. I /\ [Next]_vars => I'
  BY NextTyped, DamageStep, FolderStep, RemovalStep
<1>3. I => UnlinkedRemovalSticks
  <2> SUFFICES ASSUME I, Quiet, NEW n \in hidden, Readable(disk[n]), disk[n].dir = NoDir
               PROVE  ~Listed(n)
    BY DEF UnlinkedRemovalSticks
  <2>1. pc[Main] \in {"idle", "done"}
    BY DEF Quiet, Workers, Main
  <2>2. disk[n].removed
    BY <2>1 DEF RemovalInv, Renamed
  <2>3. QED
    BY <2>2 DEF Listed
<1>4. QED
  BY <1>1, <1>2, <1>3, PTL DEF Spec
===============================================================================
