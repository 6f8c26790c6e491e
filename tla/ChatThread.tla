------------------------------ MODULE ChatThread ------------------------------
(***************************************************************************)
(* One chat thread (library_store.py, chat_agents.py, AgentChat.tsx): a     *)
(* JSONL file of turns.  chat.send runs on a job thread and appends a       *)
(* question and, when the model has answered, a reply.  The main thread     *)
(* loads the thread for the panel and promotes a reply to a note, which     *)
(* rewrites the file.  The first load of an overview thread copies the      *)
(* conversation that older versions kept.                                   *)
(*                                                                         *)
(* A turn is who wrote it and its role, so a send has at most one of each.  *)
(* A read, an append, a truncation and the write after it are steps.        *)
(***************************************************************************)
EXTENDS Integers, Sequences, SequencesExt

CONSTANTS Sends \* the chat.send calls on this thread, each at most once

Main == "main"
Legacy == "legacy"

ASSUME ChatAssumption == Main \notin Sends /\ Legacy \notin Sends

VARIABLES
    chatFile,  \* the thread's file: absent, its turns, or mixed beyond reading
    chatNotes, \* the turns whose notes are in the project's record
    chatPc,    \* chatPc[t]: the next step of a send, or of the main thread
    chatRead,  \* chatRead[t]: the turns that t has read
    chatSetup, \* legacy: the project has an old conversation; intent: one is set
    promoted   \* the turn that the main thread promotes

chatVars == <<chatFile, chatNotes, chatPc, chatRead, chatSetup, promoted>>

Threads == Sends \cup {Main}

-------------------------------------------------------------------------------
(* Turns and files. *)

\* _make_turn, _upconvert_legacy_turn.
Turn(by, role) == [by |-> by, role |-> role, caveat |-> FALSE, noted |-> FALSE]
LegacyTurns == <<Turn(Legacy, "user")>>

NoThread == [is |-> "absent"]
Lines(turns) == [is |-> "lines", turns |-> turns]
Mixed == [is |-> "mixed"]
TurnsIn(f) == IF f.is = "lines" THEN f.turns ELSE <<>>

\* A line at the end (append_thread_turn).
Appended(f, turn) == IF f = Mixed THEN Mixed ELSE Lines(Append(TurnsIn(f), turn))

\* What a file becomes when a writer that has truncated it writes: others may
\* have appended meanwhile, and the writer's bytes go over theirs.
WrittenOver(f, turns) ==
    IF f = Lines(<<>>) THEN {Lines(turns)} ELSE {Lines(turns), Mixed}

\* Some turn said the caveat, as _intent_caveat_for looks for it.
CaveatSaid(turns) == \E i \in 1..Len(turns): turns[i].caveat

-------------------------------------------------------------------------------

ChatInit ==
    /\ chatFile = NoThread
    /\ chatNotes = {}
    /\ chatPc = [t \in Threads |-> "undrawn"]
    /\ chatRead = [t \in Threads |-> <<>>]
    /\ chatSetup = [legacy |-> FALSE, intent |-> FALSE]
    /\ promoted = Turn(Legacy, "none")

\* The project has an old conversation or none, and an intent or none.
ChatBegin ==
    /\ chatPc[Main] = "undrawn"
    /\ chatSetup' \in [legacy: BOOLEAN, intent: BOOLEAN]
    /\ chatPc' = [t \in Threads |-> IF t = Main THEN "idle" ELSE "load"]
    /\ UNCHANGED <<chatFile, chatNotes, chatRead, promoted>>

Goes(t, from, to) ==
    /\ chatPc[t] = from
    /\ chatPc' = [chatPc EXCEPT ![t] = to]

Quiet == UNCHANGED <<chatSetup, promoted>>

\* The steps of a load that migrates, by where it goes on.
Migrating == [ask |-> "migrate:ask", idle |-> "migrate:idle", note |-> "migrate:note"]
Copying == [ask |-> "copy:ask", idle |-> "copy:idle"]

\* load_thread: read the turns; with no file yet, migrate; raise for a file that
\* cannot be read.  Mutant: it always copies the old conversation.
LoadAlways(t, from, to, onError) ==
    /\ IF chatSetup.legacy
         THEN /\ Goes(t, from, Migrating[to])
              /\ chatRead' = [chatRead EXCEPT ![t] = LegacyTurns \o TurnsIn(chatFile)]
         ELSE /\ Goes(t, from, to)
              /\ chatRead' = [chatRead EXCEPT ![t] = TurnsIn(chatFile)]
    /\ Quiet /\ UNCHANGED <<chatFile, chatNotes>>
Load(t, from, to, onError) ==
    /\ CASE chatFile = NoThread /\ chatSetup.legacy ->
              /\ Goes(t, from, Migrating[to])
              /\ chatRead' = [chatRead EXCEPT ![t] = LegacyTurns]
         [] chatFile = Mixed ->
              Goes(t, from, onError) /\ UNCHANGED chatRead
         [] OTHER ->
              /\ Goes(t, from, to)
              /\ chatRead' = [chatRead EXCEPT ![t] = TurnsIn(chatFile)]
    /\ Quiet /\ UNCHANGED <<chatFile, chatNotes>>

\* _write_thread_turns, of what t has read: the file is truncated, then written.
Truncate(t, from, to) ==
    /\ Goes(t, from, to)
    /\ chatFile' = Lines(<<>>)
    /\ Quiet /\ UNCHANGED <<chatNotes, chatRead>>
RewriteThread(t, from, to) ==
    /\ Goes(t, from, to)
    /\ chatFile' \in WrittenOver(chatFile, chatRead[t])
    /\ Quiet /\ UNCHANGED <<chatNotes, chatRead>>

\* _migrate_legacy_conversation, in a load that goes on at "to".
Migrate(t, to) ==
    \/ Truncate(t, Migrating[to], Copying[to])
    \/ RewriteThread(t, Copying[to], to)

-------------------------------------------------------------------------------
(* send, on a job thread. *)

\* The question, after the history was read.  Mutant: it is part of the history.
AppendQuestionFirst(k) ==
    /\ Goes(k, "ask", "model")
    /\ chatFile' = Appended(chatFile, Turn(k, "user"))
    /\ chatRead' = [chatRead EXCEPT ![k] = TurnsIn(chatFile')]
    /\ Quiet /\ UNCHANGED chatNotes
AppendQuestion(k) ==
    /\ Goes(k, "ask", "model")
    /\ chatFile' = Appended(chatFile, Turn(k, "user"))
    /\ Quiet /\ UNCHANGED <<chatNotes, chatRead>>

\* The model answers, or raises: the question stays alone.
Dispatch(k) ==
    /\ Goes(k, "model", "caveat") \/ Goes(k, "model", "failed")
    /\ Quiet /\ UNCHANGED <<chatFile, chatNotes, chatRead>>

\* _intent_caveat_for: no intent, and nothing in the thread says so yet.  A
\* thread that cannot be read gets none.  Mutant: the thread is not asked.
CaveatEveryTime(k) ==
    /\ Goes(k, "caveat", IF chatSetup.intent THEN "reply" ELSE "replyCaveat")
    /\ Quiet /\ UNCHANGED <<chatFile, chatNotes, chatRead>>
Caveat(k) ==
    /\ Goes(k, "caveat",
            IF chatSetup.intent \/ chatFile = Mixed \/ CaveatSaid(TurnsIn(chatFile))
              THEN "reply" ELSE "replyCaveat")
    /\ Quiet /\ UNCHANGED <<chatFile, chatNotes, chatRead>>

AppendReply(k, from, caveat) ==
    /\ Goes(k, from, "sent")
    /\ chatFile' = Appended(chatFile, [Turn(k, "assistant") EXCEPT !.caveat = caveat])
    /\ Quiet /\ UNCHANGED <<chatNotes, chatRead>>

Send(k) ==
    \/ Load(k, "load", "ask", "failed")
    \/ Migrate(k, "ask")
    \/ AppendQuestion(k)
    \/ Dispatch(k)
    \/ Caveat(k)
    \/ AppendReply(k, "reply", FALSE)
    \/ AppendReply(k, "replyCaveat", TRUE)

-------------------------------------------------------------------------------
(* The main thread: chat.load_thread, chat.promote_turn. *)

OpenPanel == Load(Main, "idle", "idle", "idle")

\* promote_turn of a reply that the panel shows.
Promote(k) ==
    /\ chatPc[k] = "sent"
    /\ Goes(Main, "idle", "find")
    /\ promoted' = Turn(k, "assistant")
    /\ UNCHANGED <<chatFile, chatNotes, chatRead, chatSetup>>

IsPromoted(turn) == turn.by = promoted.by /\ turn.role = promoted.role
ReadPromoted == \E i \in 1..Len(chatRead[Main]): IsPromoted(chatRead[Main][i])

\* The turn is in what was loaded (TurnNotFoundError), and its note is stored.
AddNote ==
    /\ IF ReadPromoted
         THEN Goes(Main, "note", "read") /\ chatNotes' = chatNotes \cup {promoted.by}
         ELSE Goes(Main, "note", "idle") /\ UNCHANGED chatNotes
    /\ Quiet /\ UNCHANGED <<chatFile, chatRead>>

\* update_thread_turn: read again, mark the turn, write everything.  Mutant of
\* promote_turn: the turn is marked before the note is stored.
MarkFirst ==
    /\ Goes(Main, "find", "truncate")
    /\ chatRead' = [chatRead EXCEPT ![Main] =
                      [i \in 1..Len(TurnsIn(chatFile)) |->
                          IF IsPromoted(TurnsIn(chatFile)[i])
                            THEN [TurnsIn(chatFile)[i] EXCEPT !.noted = TRUE]
                            ELSE TurnsIn(chatFile)[i]]]
    /\ Quiet /\ UNCHANGED <<chatFile, chatNotes>>
FindTurn == Load(Main, "find", "note", "idle")

Mark ==
    LET turns == TurnsIn(chatFile)
    IN /\ IF \E i \in 1..Len(turns): IsPromoted(turns[i])
            THEN /\ Goes(Main, "read", "truncate")
                 /\ chatRead' = [chatRead EXCEPT ![Main] =
                       [i \in 1..Len(turns) |->
                           [turns[i] EXCEPT !.noted = @ \/ IsPromoted(turns[i])]]]
            ELSE Goes(Main, "read", "idle") /\ UNCHANGED chatRead
       /\ Quiet /\ UNCHANGED <<chatFile, chatNotes>>

MainStep ==
    \/ OpenPanel
    \/ Migrate(Main, "idle")
    \/ \E k \in Sends: Promote(k)
    \/ FindTurn
    \/ AddNote
    \/ Mark
    \/ Truncate(Main, "truncate", "rewrite")
    \/ RewriteThread(Main, "rewrite", "idle")

\* The daemon is killed and started again; no send is retried.
ChatKill ==
    /\ chatPc[Main] # "undrawn"
    /\ \E t \in Threads: chatPc[t] \notin {"idle", "load", "sent", "failed"}
    /\ chatPc' = [t \in Threads |->
                    IF t = Main THEN "idle"
                    ELSE IF chatPc[t] \in {"load", "sent"} THEN chatPc[t]
                    ELSE "failed"]
    /\ UNCHANGED <<chatFile, chatNotes, chatRead, chatSetup, promoted>>

ChatNext == ChatBegin \/ MainStep \/ (\E k \in Sends: Send(k)) \/ ChatKill

ChatSpec == ChatInit /\ [][ChatNext]_chatVars

-------------------------------------------------------------------------------
(* What is checked. *)

FileTurns == TurnsIn(chatFile)
At(i, by, role) == FileTurns[i].by = by /\ FileTurns[i].role = role

\* The type of every variable; a turn is in the file once.
ChatTypeOK ==
    /\ chatNotes \subseteq Sends
    /\ \A i, j \in 1..Len(FileTurns):
          At(i, FileTurns[j].by, FileTurns[j].role) => i = j

\* A turn that is marked as promoted has its note, whatever was killed between
\* the two (promote_turn stores the note first).
MarkedHasNote ==
    \A i \in 1..Len(FileTurns): FileTurns[i].noted => FileTurns[i].by \in chatNotes

\* "Once per conversation, not once per turn" (_intent_caveat_for): of two
\* replies with the caveat, the later one's question came before the earlier.  A
\* thread that a promotion is rewriting may look empty, so this is said of
\* threads with no promoted turn.
CaveatRepeatedOnlyByOverlap ==
    \A i, j \in 1..Len(FileTurns):
        chatNotes = {} /\ i < j /\ FileTurns[i].caveat /\ FileTurns[j].caveat =>
            ~\E q \in i..j: At(q, FileTurns[j].by, "user")

\* A question is asked on what came before it: the history that goes to the
\* model has no turn of its own (send reads the history before it appends).
HistoryBeforeQuestion ==
    \A k \in Sends: chatPc[k] = "model" =>
        \A i \in 1..Len(chatRead[k]): chatRead[k][i].by # k

\* What older versions kept comes first.
LegacyFirst ==
    \A i \in 1..Len(FileTurns): FileTurns[i].by = Legacy => i = 1

\* A thread keeps its order: what came first is asked on, and comes first.
ThreadInOrder == HistoryBeforeQuestion /\ LegacyFirst

\* The thread is append-only for whoever uses it: a question that was written
\* stays (append_thread_turn).
QuestionsKept ==
    \A k \in Sends: chatPc[k] \in {"caveat", "reply", "replyCaveat", "sent"} =>
        \E i \in 1..Len(FileTurns): At(i, k, "user")
===============================================================================
