---------------------------- MODULE KicadLink_proofs ---------------------------
(***************************************************************************)
(* Proofs about KicadLink, for any number of calls, two threads or more,   *)
(* and a KiCad that starts as often as one likes.                          *)
(***************************************************************************)
EXTENDS KicadLink, TLAPS

Steps == {"idle", "check", "ping", "drop", "connect", "store", "return", "use",
          "begin", "create", "push", "save", "done"}
Results == {"none", "crash", "unavailable", "nothing", "answered", "unsupported",
            "raw", "write_failed", "save_failed"}
CallRecord == [kind: LinkKinds, pc: Steps, client: Nat, result: Results]

\* The values of the variables.
LinkTyped ==
    /\ sessions \in 0..MaxSessions /\ kicad \in {NoClient, sessions}
    /\ editor \in BOOLEAN /\ held \in 0..sessions
    /\ link \in [LinkCalls -> CallRecord]
    /\ \A c \in LinkCalls: link[c].client <= sessions
    /\ lone \subseteq LinkCalls /\ inBoard \subseteq LinkCalls
    /\ commits \subseteq LinkCalls /\ discarded \subseteq LinkCalls /\ onDisk \subseteq inBoard
    /\ editor => kicad # NoClient

\* Where a call stands, and what KiCad has of it: the footprint gets into the
\* board with create, out of the commit with push, and to disk with save.
CallPlaced(c) ==
    /\ link[c].pc = "done" <=> link[c].result # "none"
    /\ link[c].pc \in {"begin", "create", "push", "save"} => link[c].kind = "inject"
    /\ c \in inBoard => link[c].pc \in {"push", "save", "done"}
    /\ c \in commits => link[c].pc \in {"create", "push"} \/ link[c].result = "raw"
    /\ link[c].pc = "push" /\ c \in commits => c \in inBoard
    /\ link[c].pc = "save" /\ Works(c) => c \in inBoard \cup discarded
    /\ link[c].result \in {"unsupported", "write_failed"} => c \notin inBoard
    /\ link[c].kind = "inject" /\ link[c].result = "answered" => c \in onDisk \cup discarded

\* A lone call that is under way: the client it is about to use is KiCad's.
LoneOnItsWay(c) ==
    /\ link[c].pc # "idle" /\ link[c].result \notin {"unavailable", "crash"}
    /\ c \in UnderWay =>
          /\ UnderWay = {c} /\ editor
          /\ link[c].pc = "ping" => held # NoClient
          /\ link[c].pc = "return" => held = kicad
          /\ link[c].pc \in {"store", "use", "begin", "create", "push", "save"} =>
                link[c].client = kicad

\* The inductive invariant.
LinkIInv ==
    /\ LinkTyped
    /\ \A c \in LinkCalls: CallPlaced(c)
    /\ \A c \in lone: LoneOnItsWay(c)

\* The initial state.
LEMMA LinkInitial == LinkInit => LinkIInv
<1> SUFFICES ASSUME LinkInit PROVE LinkIInv
  OBVIOUS
<1> USE DEF LinkInit, NoClient
<1>1. LinkTyped
  <2>1. link \in [LinkCalls -> CallRecord]
    BY DEF CallRecord, LinkKinds, Steps, Results
  <2>2. sessions \in 0..MaxSessions /\ held \in 0..sessions
    BY LinkAssumption
  <2>3. \A c \in LinkCalls: link[c].client <= sessions
    OBVIOUS
  <2>4. QED
    BY <2>1, <2>2, <2>3 DEF LinkTyped
<1>2. ASSUME NEW c \in LinkCalls PROVE CallPlaced(c)
  BY DEF CallPlaced
<1>3. QED
  BY <1>1, <1>2 DEF LinkIInv

\* KiCad starts: what calls hold is of an earlier session.
LEMMA StartKept == LinkIInv /\ KicadStarts => LinkIInv'
<1> SUFFICES ASSUME LinkIInv, KicadStarts PROVE LinkIInv'
  OBVIOUS
<1> USE DEF KicadStarts, NoClient
<1>1. LinkTyped'
  BY LinkAssumption DEF LinkIInv, LinkTyped, CallRecord
<1>2. ASSUME NEW c \in LinkCalls PROVE CallPlaced(c)'
  BY LinkAssumption DEF LinkIInv, LinkTyped, CallRecord, CallPlaced, Works
<1>3. ASSUME NEW c \in lone' PROVE LoneOnItsWay(c)'
  BY DEF LinkIInv, LoneOnItsWay, UnderWay
<1>4. QED
  BY <1>1, <1>2, <1>3 DEF LinkIInv

\* KiCad quits: the board is what its file has, and no commit is open.
LEMMA QuitKept == LinkIInv /\ KicadQuits => LinkIInv'
<1> SUFFICES ASSUME LinkIInv, KicadQuits PROVE LinkIInv'
  OBVIOUS
<1> USE DEF KicadQuits, NoClient
<1>1. LinkTyped'
  BY DEF LinkIInv, LinkTyped
<1>2. ASSUME NEW c \in LinkCalls PROVE CallPlaced(c)'
  BY DEF LinkIInv, LinkTyped, CallPlaced, Works
<1>3. ASSUME NEW c \in lone' PROVE LoneOnItsWay(c)'
  BY DEF LinkIInv, LoneOnItsWay, UnderWay
<1>4. QED
  BY <1>1, <1>2, <1>3 DEF LinkIInv

\* The editor is opened: the board is what its file has.
LEMMA OpenKept == LinkIInv /\ EditorOpens => LinkIInv'
<1> SUFFICES ASSUME LinkIInv, EditorOpens PROVE LinkIInv'
  OBVIOUS
<1> USE DEF EditorOpens, NoClient
<1>1. LinkTyped'
  BY DEF LinkIInv, LinkTyped
<1>2. ASSUME NEW c \in LinkCalls PROVE CallPlaced(c)'
  BY DEF LinkIInv, LinkTyped, CallPlaced, Works
<1>3. ASSUME NEW c \in lone' PROVE LoneOnItsWay(c)'
  BY DEF LinkIInv, LoneOnItsWay, UnderWay
<1>4. QED
  BY <1>1, <1>2, <1>3 DEF LinkIInv

\* It is closed: what a call was about to save is discarded, and no commit is
\* open.
LEMMA CloseKept == LinkIInv /\ EditorCloses => LinkIInv'
<1> SUFFICES ASSUME LinkIInv, EditorCloses PROVE LinkIInv'
  OBVIOUS
<1> USE DEF EditorCloses, NoClient
<1>1. LinkTyped'
  BY DEF LinkIInv, LinkTyped
<1>2. ASSUME NEW c \in LinkCalls PROVE CallPlaced(c)'
  BY DEF LinkIInv, LinkTyped, CallPlaced, Works
<1>3. ASSUME NEW c \in lone' PROVE LoneOnItsWay(c)'
  BY DEF LinkIInv, LoneOnItsWay, UnderWay
<1>4. QED
  BY <1>1, <1>2, <1>3 DEF LinkIInv

\* A step of get_client or of a reader: it moves its call, and may change the
\* client that is held, but neither KiCad nor the board.
LEMMA CallStepKept ==
  ASSUME LinkIInv, NEW c \in LinkCalls, BoardSame,
         held' \in 0..sessions, lone' \subseteq LinkCalls,
         link' \in [LinkCalls -> CallRecord],
         \A d \in LinkCalls \ {c}: link'[d] = link[d],
         link'[c].client <= sessions,
         CallPlaced(c)',
         \A d \in lone': LoneOnItsWay(d)'
  PROVE  LinkIInv'
<1>1. LinkTyped'
  BY DEF LinkIInv, LinkTyped, BoardSame
<1>2. ASSUME NEW d \in LinkCalls PROVE CallPlaced(d)'
  <2>1. CASE d = c
    BY <2>1
  <2>2. CASE d # c
    BY <2>2 DEF LinkIInv, CallPlaced, Works, BoardSame
  <2>3. QED
    BY <2>1, <2>2
<1>3. QED
  BY <1>1, <1>2 DEF LinkIInv

\* A call begins: it is alone if no other is under way.
LEMMA CallKept ==
  ASSUME LinkIInv, NEW c \in LinkCalls, NEW k \in LinkKinds, Call(c, k)
  PROVE  LinkIInv'
<1> USE DEF Call, At, NoClient
<1>1. LinkTyped /\ CallPlaced(c) /\ link[c].pc = "idle" /\ BoardSame /\ held' = held
  BY DEF LinkIInv
<1>2. link' \in [LinkCalls -> CallRecord]
  BY <1>1 DEF LinkTyped, CallRecord, Steps
<1>3. /\ \A d \in LinkCalls \ {c}: link'[d] = link[d]
      /\ link'[c].client = link[c].client /\ link'[c].pc = "check"
      /\ link'[c].result = link[c].result
  BY <1>1 DEF LinkTyped, CallRecord
<1>4. CallPlaced(c)'
  BY <1>1, <1>3 DEF CallPlaced, BoardSame, Works
<1>5. ASSUME NEW d \in lone' PROVE LoneOnItsWay(d)'
  <2>1. UnderWay' = UnderWay \cup {c}
    BY <1>1, <1>3 DEF UnderWay
  <2>2. CASE d = c
    <3>1. c \notin lone
      BY <1>1 DEF LinkIInv, LoneOnItsWay
    <3>2. UnderWay = {} /\ editor
      BY <2>2, <3>1
    <3>3. QED
      BY <1>1, <1>3, <2>1, <2>2, <3>2 DEF LoneOnItsWay, CallPlaced, BoardSame
  <2>3. CASE d # c
    <3>1. d \in lone /\ d \notin UnderWay /\ link'[d] = link[d]
      BY <1>1, <1>3, <2>3 DEF LinkTyped
    <3>2. QED
      BY <2>1, <2>3, <3>1 DEF LinkIInv, LoneOnItsWay
  <2>4. QED
    BY <2>2, <2>3
<1>6. held' \in 0..sessions /\ lone' \subseteq LinkCalls /\ link'[c].client <= sessions
  BY <1>1, <1>3 DEF LinkTyped
<1>7. QED
  BY <1>1, <1>2, <1>3, <1>4, <1>5, <1>6, CallStepKept

\* A step of a call that stays under way keeps what holds of the others that
\* are alone, which are done.
LEMMA OthersLone ==
  ASSUME LinkIInv, NEW c \in LinkCalls, c \in UnderWay, lone' = lone,
         link' \in [LinkCalls -> CallRecord],
         \A d \in LinkCalls \ {c}: link'[d] = link[d]
  PROVE  \A d \in lone \ {c}: LoneOnItsWay(d)'
<1> SUFFICES ASSUME NEW d \in lone \ {c} PROVE LoneOnItsWay(d)'
  OBVIOUS
<1>1. d \in LinkCalls /\ LoneOnItsWay(d)
  BY DEF LinkIInv, LinkTyped
<1>2. d \notin UnderWay
  BY <1>1 DEF LoneOnItsWay
<1>3. link'[d] = link[d] /\ d \notin UnderWay'
  BY <1>1, <1>2 DEF UnderWay
<1>4. QED
  BY <1>1, <1>3 DEF LoneOnItsWay

\* The steps of get_client.
LEMMA GetClientKept ==
  ASSUME LinkIInv, NEW c \in LinkCalls, GetClient(c)
  PROVE  LinkIInv'
<1> USE DEF At, GoTo, Ends, NoClient
<1> DEFINE Early == {"check", "ping", "drop", "connect", "store", "return"}
<1>1. LinkTyped /\ CallPlaced(c) /\ BoardSame /\ lone' = lone
  BY DEF LinkIInv, GetClient
<1>2. link[c].pc \in Early /\ link[c].result = "none"
  BY <1>1 DEF GetClient, LinkTyped, CallRecord, CallPlaced
<1>3. \A d \in LinkCalls \ {c}: link'[d] = link[d]
  BY <1>1 DEF GetClient, Check, Ping, DropStale, Connect, StoreClient, ReturnClient, LinkTyped
<1>4. link' \in [LinkCalls -> CallRecord] /\ link'[c].client <= sessions
  BY <1>1 DEF GetClient, Check, Ping, DropStale, Connect, StoreClient, ReturnClient, LinkTyped,
              CallRecord, Steps, Results
<1>5. held' \in 0..sessions
  <2>1. link[c].client \in 0..sessions /\ held \in 0..sessions /\ 0 \in 0..sessions
    BY <1>1, LinkAssumption DEF LinkTyped, CallRecord
  <2>2. held' \in {held, 0, link[c].client}
    BY DEF GetClient, Check, Ping, DropStale, Connect, StoreClient, ReturnClient
  <2>3. QED
    BY <2>1, <2>2
<1>6. /\ link'[c].kind = link[c].kind
      /\ \/ link'[c].pc \in Early \cup {"use"} /\ link'[c].result = "none"
         \/ link'[c].pc = "done" /\ link'[c].result \in {"crash", "unavailable"}
  BY <1>1, <1>2 DEF GetClient, Check, Ping, DropStale, Connect, StoreClient, ReturnClient,
              LinkTyped, CallRecord
<1>7. CallPlaced(c)'
  BY <1>1, <1>2, <1>6 DEF CallPlaced, BoardSame, Works
<1>8. ASSUME c \in lone PROVE LoneOnItsWay(c)'
  <2>1. /\ UnderWay = {c} /\ editor /\ kicad # NoClient
        /\ link[c].pc = "ping" => held # NoClient
        /\ link[c].pc = "return" => held = kicad
        /\ link[c].pc = "store" => link[c].client = kicad
    BY <1>1, <1>2, <1>8 DEF LinkIInv, LoneOnItsWay, UnderWay, LinkTyped
  <2>2. UnderWay' \subseteq {c}
    BY <1>3, <2>1 DEF UnderWay
  <2>3. /\ link'[c].pc \in Early \cup {"use"} /\ link'[c].result = "none"
        /\ link'[c].pc = "ping" => held' # NoClient
        /\ link'[c].pc = "return" => held' = kicad
        /\ link'[c].pc \in {"store", "use"} => link'[c].client = kicad
    BY <1>1, <1>2, <2>1 DEF GetClient, Check, Ping, DropStale, Connect, StoreClient,
              ReturnClient, LinkTyped, CallRecord
  <2>4. QED
    BY <1>1, <2>1, <2>2, <2>3 DEF LoneOnItsWay, BoardSame
<1>9. \A d \in lone': LoneOnItsWay(d)'
  BY <1>1, <1>2, <1>3, <1>4, <1>8, OthersLone DEF UnderWay
<1>10. QED
  BY <1>1, <1>3, <1>4, <1>5, <1>7, <1>9, CallStepKept DEF LinkTyped

\* What the calls do with their client.
LEMMA UseKept ==
  ASSUME LinkIInv, NEW c \in LinkCalls, Use(c)
  PROVE  LinkIInv'
<1> USE DEF At, GoTo, Ends, NoClient
<1>1. /\ LinkTyped /\ CallPlaced(c) /\ BoardSame /\ lone' = lone
      /\ link[c].pc = "use" /\ link[c].result = "none"
  BY DEF LinkIInv, Use, CallPlaced, LinkTyped, CallRecord
<1>2. \A d \in LinkCalls \ {c}: link'[d] = link[d]
  BY <1>1 DEF Use, ListBoards, ReadBoard, BuildFootprint, LoseConnection, LinkTyped
<1>3. link' \in [LinkCalls -> CallRecord] /\ link'[c].client = link[c].client
  BY <1>1 DEF Use, ListBoards, ReadBoard, BuildFootprint, LoseConnection, LinkTyped,
              CallRecord, Steps, Results
<1>4. held' \in {held, 0}
  BY DEF Use, ListBoards, ReadBoard, BuildFootprint, LoseConnection
<1>5. /\ link'[c].kind = link[c].kind
      /\ \/ link'[c].pc = "begin" /\ link'[c].result = "none" /\ link[c].kind = "inject"
         \/ /\ link'[c].pc = "done"
            /\ link'[c].result \in {"crash", "unavailable", "nothing", "answered", "unsupported"}
            /\ link'[c].result = "answered" => link[c].kind # "inject"
            /\ link'[c].result \in {"crash", "unavailable"} => ~(Works(c) /\ editor)
  BY <1>1 DEF Use, ListBoards, ReadBoard, BuildFootprint, LoseConnection, LinkTyped,
              CallRecord, Works
<1>6. CallPlaced(c)'
  BY <1>1, <1>5 DEF CallPlaced, BoardSame
<1>7. ASSUME c \in lone PROVE LoneOnItsWay(c)'
  <2>1. UnderWay = {c} /\ editor /\ kicad # NoClient /\ link[c].client = kicad
    BY <1>1, <1>7 DEF LinkIInv, LoneOnItsWay, UnderWay, LinkTyped
  <2>2. UnderWay' \subseteq {c} /\ link'[c].client = kicad'
    BY <1>1, <1>2, <1>3, <2>1 DEF UnderWay, BoardSame
  <2>3. QED
    BY <1>1, <1>5, <2>1, <2>2 DEF LoneOnItsWay, BoardSame, Works
<1>8. \A d \in lone': LoneOnItsWay(d)'
  BY <1>1, <1>2, <1>3, <1>7, OthersLone DEF UnderWay
<1>9. held' \in 0..sessions /\ link'[c].client <= sessions
  BY <1>1, <1>3, <1>4 DEF LinkTyped
<1>10. QED
  BY <1>1, <1>2, <1>3, <1>6, <1>8, <1>9, CallStepKept DEF LinkTyped

\* The steps of a write.
LEMMA WriteKept ==
  ASSUME LinkIInv, NEW c \in LinkCalls, WriteBoard(c)
  PROVE  LinkIInv'
<1> USE DEF At, GoTo, Ends, NoClient
<1>1. /\ LinkTyped /\ CallPlaced(c)
      /\ UNCHANGED <<kicad, sessions, editor, held, discarded, lone>>
      /\ link[c].pc \in {"begin", "create", "push", "save"} /\ link[c].result = "none"
  BY DEF LinkIInv, WriteBoard, CallPlaced, LinkTyped, CallRecord
<1>2. \A d \in LinkCalls \ {c}: link'[d] = link[d]
  BY <1>1 DEF WriteBoard, Begin, Create, Push, Save, LinkTyped
<1>3. /\ link' \in [LinkCalls -> CallRecord] /\ link'[c].client = link[c].client
      /\ link'[c].kind = link[c].kind
  BY <1>1 DEF WriteBoard, Begin, Create, Push, Save, LinkTyped, CallRecord, Steps, Results
<1>4. /\ inBoard \subseteq inBoard' /\ inBoard' \subseteq inBoard \cup {c}
      /\ commits' \subseteq commits \cup {c}
      /\ onDisk \subseteq onDisk' /\ onDisk' \subseteq inBoard'
  BY <1>1 DEF WriteBoard, Begin, Create, Push, Save, LinkTyped
<1>5. LinkTyped'
  BY <1>1, <1>2, <1>3, <1>4 DEF LinkTyped
<1>6. CallPlaced(c)'
  <2>1. CASE link[c].pc = "begin"
    BY <1>1, <1>3, <2>1 DEF WriteBoard, Begin, CallPlaced, KicadDoes, Works, LinkTyped, CallRecord
  <2>2. CASE link[c].pc = "create"
    BY <1>1, <1>3, <2>2 DEF WriteBoard, Create, CallPlaced, KicadDoes, Works, LinkTyped, CallRecord
  <2>3. CASE link[c].pc = "push"
    BY <1>1, <1>3, <2>3 DEF WriteBoard, Push, CallPlaced, KicadDoes, Works, LinkTyped, CallRecord
  <2>4. CASE link[c].pc = "save"
    BY <1>1, <1>3, <2>4 DEF WriteBoard, Save, CallPlaced, KicadDoes, Works, LinkTyped, CallRecord
  <2>5. QED
    BY <1>1, <2>1, <2>2, <2>3, <2>4
<1>7. ASSUME NEW d \in LinkCalls PROVE CallPlaced(d)'
  <2>1. CASE d # c
    <3>1. CallPlaced(d) /\ link'[d] = link[d]
      BY <1>2, <2>1 DEF LinkIInv
    <3>2. (d \in inBoard' <=> d \in inBoard) /\ (d \in commits' => d \in commits)
      BY <1>4, <2>1
    <3>3. QED
      BY <1>1, <1>4, <3>1, <3>2 DEF CallPlaced, Works
  <2>2. QED
    BY <1>6, <2>1
<1>8. ASSUME c \in lone PROVE LoneOnItsWay(c)'
  <2>1. UnderWay = {c} /\ editor /\ kicad # NoClient /\ link[c].client = kicad
    BY <1>1, <1>8 DEF LinkIInv, LoneOnItsWay, UnderWay, LinkTyped
  <2>2. UnderWay' \subseteq {c} /\ link'[c].client = kicad'
    BY <1>1, <1>2, <1>3, <2>1 DEF UnderWay
  <2>3. /\ link'[c].pc \in {"create", "push", "save", "done"}
        /\ link'[c].result \notin {"unavailable", "crash"}
    BY <1>1 DEF WriteBoard, Begin, Create, Push, Save, LinkTyped, CallRecord
  <2>4. QED
    BY <1>1, <2>1, <2>2, <2>3 DEF LoneOnItsWay
<1>9. \A d \in lone': LoneOnItsWay(d)'
  BY <1>1, <1>2, <1>3, <1>8, OthersLone DEF UnderWay
<1>10. QED
  BY <1>5, <1>7, <1>9 DEF LinkIInv

\* The inductive invariant holds, for any calls and any number of sessions: where
\* each call stands, what KiCad has of it, and which client a lone one uses.
THEOREM LinkInvariant == LinkSpec => []LinkIInv
<1>1. LinkIInv /\ [LinkNext]_linkVars => LinkIInv'
  <2> SUFFICES ASSUME LinkIInv, [LinkNext]_linkVars PROVE LinkIInv'
    OBVIOUS
  <2>1. CASE UNCHANGED linkVars
    BY <2>1 DEF linkVars, LinkIInv, LinkTyped, CallPlaced, LoneOnItsWay, UnderWay, Works
  <2>2. QED
    BY <2>1, StartKept, QuitKept, OpenKept, CloseKept, CallKept, GetClientKept, UseKept, WriteKept DEF LinkNext
<1>2. QED
  BY <1>1, LinkInitial, PTL DEF LinkSpec

\* The types, and no commit stays open but of a call that is writing, or whose
\* push KiCad refused (inject_component's drop_commit).
THEOREM LinkTypeCorrect == LinkSpec => []LinkTypeOK
<1>1. LinkIInv => LinkTypeOK
  BY DEF LinkIInv, LinkTyped, CallPlaced, CallRecord, LinkTypeOK
<1>2. QED
  BY <1>1, LinkInvariant, PTL

\* A call that runs alone, while a board is open, is answered, whatever client
\* the daemon held from sessions before (get_client).
THEOREM LoneCallsAreAnswered == LinkSpec => []LoneCallIsAnswered
<1>1. LinkIInv => LoneCallIsAnswered
  BY DEF LinkIInv, LoneOnItsWay, LoneCallIsAnswered
<1>2. QED
  BY <1>1, LinkInvariant, PTL

\* What inject_component says of its footprint is so, with any number of calls
\* at once, wherever KiCad refuses, quits or is started again.
THEOREM InjectionsAreTruthful == LinkSpec => []InjectionTruthful
<1>1. LinkIInv => InjectionTruthful
  BY DEF LinkIInv, LinkTyped, CallPlaced, CallRecord, InjectionTruthful, InjectedIsSaved,
         FailedEarlyLeavesBoard
<1>2. QED
  BY <1>1, LinkInvariant, PTL
===============================================================================
