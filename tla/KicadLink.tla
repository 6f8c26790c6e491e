------------------------------ MODULE KicadLink ------------------------------
(***************************************************************************)
(* The connection to a running KiCad (kicad_bridge.py).  One client is held *)
(* in the module global _client and shared by the threads of the daemon:    *)
(* kicad.list_open_boards runs on its main thread, the board readers and    *)
(* kicad.inject_component on job threads.  KiCad starts and quits, and its  *)
(* PCB editor is opened and closed, whenever the user likes.  configure     *)
(* runs once, when daemon.py is imported, and finds no client to drop.      *)
(*                                                                         *)
(* A client is the number of the KiCad session it connected to: it works    *)
(* while that session runs.  Each read or write of _client is a step.       *)
(***************************************************************************)
EXTENDS Integers, FiniteSets

CONSTANTS
    LinkCalls,  \* the calls, each made at most once
    MaxSessions \* how often KiCad starts (bound)

ASSUME LinkAssumption == MaxSessions \in Nat

NoClient == 0

VARIABLES
    kicad,     \* the session that runs, or NoClient
    sessions,  \* how many have started
    editor,    \* a board is open in the PCB editor
    held,      \* _client
    inBoard,   \* the calls whose footprint the open board has
    onDisk,    \* the calls whose footprint the board's file has
    commits,   \* the calls whose commit is open in KiCad
    link,      \* link[c]: the call's kind, next step, client and result
    discarded, \* the calls about to save when the user closed the board unsaved
    lone       \* the calls beside which no other ran, and during which a board
               \* was open and KiCad kept running

linkVars == <<kicad, sessions, editor, held, inBoard, onDisk, commits, link, discarded, lone>>

LinkInit ==
    /\ kicad = NoClient /\ sessions = 0 /\ editor = FALSE /\ held = NoClient
    /\ inBoard = {} /\ onDisk = {} /\ commits = {}
    /\ link = [c \in LinkCalls |->
                 [kind |-> "list", pc |-> "idle", client |-> NoClient, result |-> "none"]]
    /\ discarded = {} /\ lone = {}

UnderWay == {c \in LinkCalls : link[c].pc \notin {"idle", "done"}}
Works(c) == link[c].client # NoClient /\ link[c].client = kicad

-------------------------------------------------------------------------------
(* KiCad and its user *)

KicadStarts ==
    /\ kicad = NoClient /\ sessions < MaxSessions
    /\ kicad' = sessions + 1 /\ sessions' = sessions + 1
    /\ editor' \in BOOLEAN
    /\ lone' = lone \ UnderWay
    /\ UNCHANGED <<held, inBoard, onDisk, commits, link, discarded>>

\* The open board is read from its file the next time.
KicadQuits ==
    /\ kicad # NoClient
    /\ kicad' = NoClient /\ editor' = FALSE
    /\ inBoard' = onDisk /\ commits' = {}
    /\ lone' = lone \ UnderWay
    /\ UNCHANGED <<sessions, held, onDisk, link, discarded>>

EditorOpens ==
    /\ kicad # NoClient /\ ~editor
    /\ editor' = TRUE
    /\ UNCHANGED <<kicad, sessions, held, inBoard, onDisk, commits, link, discarded, lone>>

\* What was not saved is discarded, and a commit is forgotten.
EditorCloses ==
    /\ editor
    /\ editor' = FALSE /\ inBoard' = onDisk /\ commits' = {}
    /\ lone' = lone \ UnderWay
    /\ discarded' = discarded \cup {c \in LinkCalls : link[c].pc = "save"}
    /\ UNCHANGED <<kicad, sessions, held, onDisk, link>>

-------------------------------------------------------------------------------
(* get_client *)

At(c, pc) == link[c].pc = pc
GoTo(c, pc) == link' = [link EXCEPT ![c].pc = pc]
Ends(c, result) == link' = [link EXCEPT ![c].pc = "done", ![c].result = result]

\* KiCad and the sets of footprints stay as they are in most steps of a call.
BoardSame == UNCHANGED <<kicad, sessions, editor, inBoard, onDisk, commits, discarded>>

Call(c, kind) ==
    /\ At(c, "idle")
    \* the main thread makes one call at a time
    /\ kind = "list" => \A d \in UnderWay : link[d].kind # "list"
    /\ link' = [link EXCEPT ![c].kind = kind, ![c].pc = "check"]
    /\ lone' = IF UnderWay = {} /\ editor THEN lone \cup {c} ELSE lone \ UnderWay
    /\ UNCHANGED held /\ BoardSame

\* Mutant: a held client is used as it is.
CheckTrusting(c) == GoTo(c, IF held # NoClient THEN "return" ELSE "connect") /\ UNCHANGED held

Check(c) == GoTo(c, IF held # NoClient THEN "ping" ELSE "connect") /\ UNCHANGED held

\* _client.ping() reads the global again, and another thread may have reset it.
Ping(c) ==
    /\ UNCHANGED held
    /\ IF held = NoClient THEN Ends(c, "crash")
       ELSE GoTo(c, IF held = kicad THEN "return" ELSE "drop")

DropStale(c) == held' = NoClient /\ GoTo(c, "connect")

Connect(c) ==
    /\ UNCHANGED held
    /\ IF kicad = NoClient THEN Ends(c, "unavailable")
       ELSE link' = [link EXCEPT ![c].client = kicad, ![c].pc = "store"]

StoreClient(c) == held' = link[c].client /\ GoTo(c, "return")

\* `return _client` reads the global once more.
ReturnClient(c) ==
    link' = [link EXCEPT ![c].client = held, ![c].pc = "use"] /\ UNCHANGED held

GetClient(c) ==
    /\ BoardSame /\ UNCHANGED lone
    /\ \/ At(c, "check") /\ Check(c)
       \/ At(c, "ping") /\ Ping(c)
       \/ At(c, "drop") /\ DropStale(c)
       \/ At(c, "connect") /\ Connect(c)
       \/ At(c, "store") /\ StoreClient(c)
       \/ At(c, "return") /\ ReturnClient(c)

-------------------------------------------------------------------------------
(* What the calls do with their client *)

\* reset_connection and KiCadUnavailableError
LoseConnection(c) == held' = NoClient /\ Ends(c, "unavailable")

\* list_open_boards, list_project_schematics: KiCad has no handler while no
\* editor is open, which is an answer of its own.
ListBoards(c) ==
    /\ link[c].kind = "list"
    /\ IF ~Works(c) THEN LoseConnection(c)
       ELSE Ends(c, IF editor THEN "answered" ELSE "nothing") /\ UNCHANGED held

\* get_board_outline, get_mounting_holes, list_footprint_models: get_board and
\* one more call, which answer only while a board is open.
ReadBoard(c) ==
    /\ link[c].kind = "read"
    /\ IF Works(c) /\ editor THEN Ends(c, "answered") /\ UNCHANGED held
       ELSE LoseConnection(c)

\* inject_component up to the footprint it builds: the layout of the package
\* may be refused.
BuildFootprint(c) ==
    /\ link[c].kind = "inject"
    /\ IF Works(c) /\ editor
       THEN /\ GoTo(c, "begin") \/ Ends(c, "unsupported")
            /\ UNCHANGED held
       ELSE LoseConnection(c)

Use(c) ==
    /\ At(c, "use") /\ BoardSame /\ UNCHANGED lone
    /\ IF link[c].client = NoClient THEN Ends(c, "crash") /\ UNCHANGED held
       ELSE ListBoards(c) \/ ReadBoard(c) \/ BuildFootprint(c)

\* The write.  KiCad may refuse any of these calls, and may be gone: only the
\* failures of create_items and of save are caught.
KicadDoes(c) == Works(c) /\ editor

Begin(c) ==
    \/ KicadDoes(c) /\ commits' = commits \cup {c} /\ GoTo(c, "create")
    \/ Ends(c, "raw") /\ UNCHANGED commits

\* Mutant: a failed creation leaves its commit open.
CreateUndropped(c) ==
    \/ KicadDoes(c) /\ inBoard' = inBoard \cup {c} /\ GoTo(c, "push") /\ UNCHANGED commits
    \/ Ends(c, "write_failed") /\ UNCHANGED <<inBoard, commits>>

Create(c) ==
    \/ KicadDoes(c) /\ inBoard' = inBoard \cup {c} /\ GoTo(c, "push") /\ UNCHANGED commits
    \/ /\ commits' = commits \ {c}
       /\ Ends(c, IF KicadDoes(c) THEN "write_failed" ELSE "raw")
       /\ UNCHANGED inBoard

Push(c) ==
    \/ KicadDoes(c) /\ c \in commits /\ commits' = commits \ {c} /\ GoTo(c, "save")
    \/ Ends(c, "raw") /\ UNCHANGED commits

\* Mutant: a board that was not saved is reported as if it had been.
SaveAnyway(c) ==
    \/ KicadDoes(c) /\ onDisk' = inBoard /\ Ends(c, "answered")
    \/ Ends(c, "answered") /\ UNCHANGED onDisk

Save(c) ==
    \/ KicadDoes(c) /\ onDisk' = inBoard /\ Ends(c, "answered")
    \/ Ends(c, "save_failed") /\ UNCHANGED onDisk

WriteBoard(c) ==
    /\ UNCHANGED <<kicad, sessions, editor, held, discarded, lone>>
    /\ \/ At(c, "begin") /\ Begin(c) /\ UNCHANGED <<inBoard, onDisk>>
       \/ At(c, "create") /\ Create(c) /\ UNCHANGED onDisk
       \/ At(c, "push") /\ Push(c) /\ UNCHANGED <<inBoard, onDisk>>
       \/ At(c, "save") /\ Save(c) /\ UNCHANGED <<inBoard, commits>>

LinkKinds == {"list", "read", "inject"}

LinkNext ==
    \/ KicadStarts \/ KicadQuits \/ EditorOpens \/ EditorCloses
    \/ \E c \in LinkCalls : (\E k \in LinkKinds : Call(c, k)) \/ GetClient(c) \/ Use(c) \/ WriteBoard(c)

LinkSpec == LinkInit /\ [][LinkNext]_linkVars

-------------------------------------------------------------------------------

\* The variables keep their types, and a commit is open only for a call that
\* is writing, or whose push KiCad refused.
LinkTypeOK ==
    /\ kicad \in {NoClient, sessions} /\ sessions \in 0..MaxSessions
    /\ held \in 0..sessions /\ editor \in BOOLEAN
    /\ inBoard \subseteq LinkCalls /\ onDisk \subseteq LinkCalls
    /\ \A c \in LinkCalls : link[c].client \in 0..sessions /\ link[c].kind \in LinkKinds
    /\ \A c \in commits : link[c].pc \in {"create", "push"} \/ link[c].result = "raw"

\* However KiCad was closed and opened before, a call that runs alone while a
\* board is and stays open is answered: the client held from an earlier session
\* is found out and replaced.
LoneCallIsAnswered == \A c \in lone : link[c].result \notin {"unavailable", "crash"}

\* Whenever inject_component reported success, the footprint is in the file,
\* unless the user closed the board between the push and the save.
InjectedIsSaved ==
    \A c \in LinkCalls \ discarded :
        link[c].kind = "inject" /\ link[c].result = "answered" => c \in onDisk

\* An injection that failed before its push is nowhere in KiCad.
FailedEarlyLeavesBoard ==
    \A c \in LinkCalls : link[c].result \in {"unsupported", "write_failed"}
        => c \notin inBoard \cup onDisk \cup commits

\* What inject_component says of a footprint is so.
InjectionTruthful == InjectedIsSaved /\ FailedEarlyLeavesBoard

\* kicad_bridge.py:236, of KiCadWriteError: "The board is left unchanged either
\* way: drop_commit runs on any failure before the commit is pushed."
WriteErrorLeavesBoard ==
    \A c \in LinkCalls : link[c].result \in {"unsupported", "write_failed", "save_failed"}
        => c \notin inBoard
===============================================================================
