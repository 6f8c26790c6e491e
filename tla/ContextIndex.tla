----------------------------- MODULE ContextIndex -----------------------------
(***************************************************************************)
(* The retrieval index (context_index.py): a SQLite file of chunks made     *)
(* from the records of the library and of the projects, with the time of    *)
(* its last rebuild.  A search rebuilds it first when a file is newer.      *)
(*                                                                         *)
(* context.rebuild_index runs on a job thread and context.search on the     *)
(* main thread or in a chat's job, each with a connection of its own; other *)
(* routes write records meanwhile.  A DDL statement commits by itself, the  *)
(* inserts of a rebuild are one transaction.  The time is the number of     *)
(* writes and stamps so far.                                                *)
(***************************************************************************)
EXTENDS Integers, Sequences, SequencesExt

CONSTANTS
    Records,    \* the part and project records
    Indexers,   \* the threads that search or rebuild
    MaxTicks    \* bound: writes and stamps

NoOne == "no thread"

ASSUME IndexAssumption == MaxTicks \in Nat /\ NoOne \notin Indexers

VARIABLES
    written,   \* written[r]: the time record r was written last, its version too
    ticks,     \* the time
    chunks,    \* the tables: NoTables, or the versions that each rebuild inserted
    stamp,     \* meta.last_indexed, or Never
    indexLock, \* the thread with a write transaction, or NoOne
    indexPc,   \* indexPc[t]: the next step of a thread
    batch,     \* batch[t]: the versions t has read and inserted
    spoiled    \* a rebuild was killed, failed, or met a writer or a rebuild

indexVars == <<written, ticks, chunks, stamp, indexLock, indexPc, batch, spoiled>>

NoTables == [is |-> "dropped"]
Tables(batches) == [is |-> "made", rebuilds |-> batches]
Never == -1
NoBatch == <<>> \* of no record

-------------------------------------------------------------------------------

Rebuilding(t) == indexPc[t] \in {"drop", "create", "insert", "stamp"}

Goto(t, from, to) == indexPc[t] = from /\ indexPc' = [indexPc EXCEPT ![t] = to]

\* needs_rebuild: no file, no stamp, or a newer file (_newest_real_mtime).
\* Mutant: only no stamp.
StaleIfNever == stamp = Never
NeedsRebuild == stamp = Never \/ \E r \in Records: written[r] > stamp

IndexInit ==
    /\ written = [r \in Records |-> 0] /\ ticks = 0
    /\ chunks = NoTables /\ stamp = Never /\ indexLock = NoOne
    /\ indexPc = [t \in Indexers |-> "idle"]
    /\ batch = [t \in Indexers |-> NoBatch]
    /\ spoiled = FALSE

\* A route or a job saves a record.
SaveRecord(r) ==
    /\ ticks < MaxTicks
    /\ ticks' = ticks + 1
    /\ written' = [written EXCEPT ![r] = ticks']
    /\ spoiled' = (spoiled \/ \E t \in Indexers: Rebuilding(t))
    /\ UNCHANGED <<chunks, stamp, indexLock, indexPc, batch>>

\* context.rebuild_index, and context.search.
CallRebuild(t) ==
    /\ Goto(t, "idle", "drop")
    /\ spoiled' = (spoiled \/ \E u \in Indexers: Rebuilding(u))
    /\ UNCHANGED <<written, ticks, chunks, stamp, indexLock, batch>>
CallSearch(t) ==
    /\ Goto(t, "idle", IF NeedsRebuild THEN "drop" ELSE "query")
    /\ spoiled' = (spoiled \/ (NeedsRebuild /\ \E u \in Indexers: Rebuilding(u)))
    /\ UNCHANGED <<written, ticks, chunks, stamp, indexLock, batch>>

\* The tables are dropped, and made again; each commits at once.
Drop(t) ==
    /\ indexLock = NoOne
    /\ Goto(t, "drop", "create")
    /\ chunks' = NoTables /\ batch' = [batch EXCEPT ![t] = NoBatch]
    /\ UNCHANGED <<written, ticks, stamp, indexLock, spoiled>>
EnsureSchema(t) ==
    /\ indexLock = NoOne
    /\ Goto(t, "create", "insert")
    /\ chunks' = IF chunks = NoTables THEN Tables(<<>>) ELSE chunks
    /\ UNCHANGED <<written, ticks, stamp, indexLock, batch, spoiled>>

\* A batch with record r, as it is on disk now.
WithRecord(b, r) == [q \in DOMAIN b \cup {r} |-> IF q = r THEN written[r] ELSE b[q]]

\* A record is read, and its chunks inserted; the first one opens the
\* transaction.  Mutant: each insert commits.
InsertAndCommit(t, r) ==
    /\ indexPc[t] = "insert" /\ chunks # NoTables /\ indexLock = NoOne
    /\ r \notin DOMAIN batch[t]
    /\ batch' = [batch EXCEPT ![t] = WithRecord(@, r)]
    /\ chunks' = Tables((IF batch[t] = NoBatch THEN chunks.rebuilds
                                              ELSE Front(chunks.rebuilds)) \o <<batch'[t]>>)
    /\ indexPc' = [indexPc EXCEPT ![t] = IF DOMAIN batch'[t] = Records THEN "stamp"
                                                                       ELSE @]
    /\ UNCHANGED <<written, ticks, stamp, indexLock, spoiled>>
Insert(t, r) ==
    /\ indexPc[t] = "insert" /\ chunks # NoTables /\ indexLock \in {NoOne, t}
    /\ r \notin DOMAIN batch[t]
    /\ indexLock' = t
    /\ batch' = [batch EXCEPT ![t] = WithRecord(@, r)]
    /\ indexPc' = [indexPc EXCEPT ![t] = IF DOMAIN batch'[t] = Records THEN "stamp"
                                                                       ELSE @]
    /\ UNCHANGED <<written, ticks, chunks, stamp, spoiled>>

\* The stamp and the commit; what a search came for follows.
Commit(t) ==
    /\ ticks < MaxTicks /\ indexLock \in {NoOne, t}
    /\ Goto(t, "stamp", "query")
    /\ ticks' = ticks + 1 /\ stamp' = ticks'
    /\ chunks' = IF indexLock = t THEN Tables(Append(chunks.rebuilds, batch[t]))
                                  ELSE chunks
    /\ indexLock' = NoOne
    /\ UNCHANGED <<written, batch, spoiled>>

\* search, of the tables as they are; with none it raises.
Query(t) ==
    /\ Goto(t, "query", "idle")
    /\ UNCHANGED <<written, ticks, chunks, stamp, indexLock, batch, spoiled>>

\* A statement that waits for another's transaction for too long, finds no
\* table, or reads a record that is half written, raises; its transaction is
\* rolled back.  Mutant: its connection stays open.
RaisesOpen(t) ==
    /\ Rebuilding(t)
    /\ indexPc' = [indexPc EXCEPT ![t] = "idle"]
    /\ spoiled' = TRUE
    /\ UNCHANGED <<written, ticks, chunks, stamp, indexLock, batch>>
Raises(t) ==
    /\ Rebuilding(t)
    /\ indexPc' = [indexPc EXCEPT ![t] = "idle"]
    /\ indexLock' = IF indexLock = t THEN NoOne ELSE indexLock
    /\ spoiled' = TRUE
    /\ UNCHANGED <<written, ticks, chunks, stamp, batch>>

\* The daemon is killed and started again.
IndexKill ==
    /\ \E t \in Indexers: indexPc[t] # "idle"
    /\ indexPc' = [t \in Indexers |-> "idle"]
    /\ indexLock' = NoOne
    /\ spoiled' = (spoiled \/ \E t \in Indexers: Rebuilding(t))
    /\ UNCHANGED <<written, ticks, chunks, stamp, batch>>

IndexStep(t) ==
    \/ CallRebuild(t) \/ CallSearch(t)
    \/ Drop(t) \/ EnsureSchema(t) \/ (\E r \in Records: Insert(t, r)) \/ Commit(t)
    \/ Query(t) \/ Raises(t)

IndexNext == (\E r \in Records: SaveRecord(r)) \/ (\E t \in Indexers: IndexStep(t))
             \/ IndexKill

IndexSpec == IndexInit /\ [][IndexNext]_indexVars

-------------------------------------------------------------------------------
(* What is checked. *)

\* The type of the index; at most one thread inserts at a time.
IndexTypeOK ==
    /\ stamp \in -1..MaxTicks /\ \A r \in Records: written[r] <= ticks
    /\ \A t \in Indexers: indexLock = t => indexPc[t] \in {"insert", "stamp"}

\* A search never sees part of a rebuild, whatever is killed or raises: the
\* tables hold what whole rebuilds inserted (rebuild_index commits at its end).
WholeRebuilds ==
    chunks # NoTables =>
        \A i \in 1..Len(chunks.rebuilds): DOMAIN chunks.rebuilds[i] = Records

\* An index that is fresh (needs_rebuild) has the newest version of every
\* record, once, if no rebuild met a kill, an error, a writer or a rebuild.
FreshIsComplete ==
    ~spoiled /\ ~NeedsRebuild /\ (\A t \in Indexers: ~Rebuilding(t))
        => chunks = Tables(<<written>>)

\* ... and whatever a rebuild met: "an interrupted previous rebuild ... Same
\* real recovery path" (needs_rebuild).
RecoversAfterKill ==
    ~NeedsRebuild /\ (\A t \in Indexers: indexPc[t] = "idle") => chunks # NoTables
===============================================================================
