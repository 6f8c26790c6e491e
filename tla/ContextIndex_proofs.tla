-------------------------- MODULE ContextIndex_proofs --------------------------
(***************************************************************************)
(* Proofs about ContextIndex, for any records, any number of threads and   *)
(* any bound on the time.                                                  *)
(***************************************************************************)
EXTENDS ContextIndex, TLAPS

Batches == UNION {[S -> Nat]: S \in SUBSET Records}
Places == {"idle", "drop", "create", "insert", "stamp", "query"}

\* The values of the variables.
IndexTyped ==
    /\ written \in [Records -> Nat] /\ ticks \in 0..MaxTicks
    /\ stamp \in -1..ticks
    /\ \A r \in Records: written[r] <= ticks
    /\ chunks \in {NoTables} \cup [is: {"made"}, rebuilds: Seq([Records -> Nat])]
    /\ indexLock \in Indexers \cup {NoOne}
    /\ indexPc \in [Indexers -> Places]
    /\ batch \in [Indexers -> Batches]
    /\ spoiled \in BOOLEAN

\* A transaction has an owner that inserts, tables to insert into, and, when
\* it is about to be committed, every record in its batch.
TransactionOwned ==
    /\ indexLock # NoOne => chunks # NoTables
    /\ \A t \in Indexers:
          /\ indexLock = t => indexPc[t] \in {"insert", "stamp"}
          /\ indexPc[t] = "stamp" => indexLock = t /\ DOMAIN batch[t] = Records

\* What a rebuild that nothing disturbs has done at each of its steps, and what
\* is there when it is over.
Undisturbed ==
    /\ \A t, u \in Indexers: Rebuilding(t) /\ Rebuilding(u) => t = u
    /\ \A t \in Indexers:
          /\ indexPc[t] = "create" => chunks = NoTables /\ batch[t] = NoBatch
          /\ indexPc[t] \in {"insert", "stamp"} =>
                /\ chunks = Tables(<<>>)
                /\ \A r \in DOMAIN batch[t]: batch[t][r] = written[r]
    /\ ~NeedsRebuild /\ (\A t \in Indexers: ~Rebuilding(t)) => chunks = Tables(<<written>>)

\* The inductive invariant.
IndexIInv == IndexTyped /\ TransactionOwned /\ (~spoiled => Undisturbed)

\* The initial state.
LEMMA IndexInitial == IndexInit => IndexIInv
<1> SUFFICES ASSUME IndexInit PROVE IndexIInv
  OBVIOUS
<1> USE DEF IndexInit, NoTables, Never
<1>1. NoBatch \in Batches
  <2>1. NoBatch \in [{} -> Nat]
    BY DEF NoBatch
  <2>2. QED
    BY <2>1 DEF Batches
<1>2. IndexTyped
  <2>1. stamp \in -1..ticks /\ ticks \in 0..MaxTicks
    BY IndexAssumption
  <2>2. written \in [Records -> Nat] /\ \A r \in Records: written[r] <= ticks
    OBVIOUS
  <2>3. indexPc \in [Indexers -> Places] /\ batch \in [Indexers -> Batches]
    BY <1>1 DEF Places
  <2>4. QED
    BY <2>1, <2>2, <2>3 DEF IndexTyped
<1>3. TransactionOwned
  BY IndexAssumption DEF TransactionOwned
<1>4. Undisturbed
  BY DEF Undisturbed, NeedsRebuild, Rebuilding
<1>5. QED
  BY <1>2, <1>3, <1>4 DEF IndexIInv

\* A batch after one more record.
LEMMA GrownBatch ==
  ASSUME NEW b \in Batches, NEW r \in Records, r \notin DOMAIN b, written[r] \in Nat
  PROVE  /\ WithRecord(b, r) \in Batches
         /\ DOMAIN WithRecord(b, r) = DOMAIN b \cup {r}
         /\ WithRecord(b, r)[r] = written[r]
         /\ \A q \in DOMAIN b: WithRecord(b, r)[q] = b[q]
<1>1. PICK S \in SUBSET Records: b \in [S -> Nat]
  BY DEF Batches
<1>2. WithRecord(b, r) \in [S \cup {r} -> Nat] /\ S \cup {r} \in SUBSET Records
  BY <1>1 DEF WithRecord
<1>3. WithRecord(b, r) \in Batches
  BY <1>2 DEF Batches
<1>4. QED
  BY <1>1, <1>3 DEF WithRecord

\* A batch of every record.
LEMMA WholeBatch ==
  ASSUME NEW b \in Batches, DOMAIN b = Records
  PROVE  b \in [Records -> Nat]
  BY DEF Batches

\* What an insert does to its thread's batch.
LEMMA InsertGrows ==
  ASSUME IndexTyped, NEW t \in Indexers, NEW r \in Records, Insert(t, r)
  PROVE  /\ batch' \in [Indexers -> Batches]
         /\ \A u \in Indexers \ {t}: batch'[u] = batch[u]
         /\ DOMAIN batch'[t] = DOMAIN batch[t] \cup {r}
         /\ batch'[t][r] = written[r]
         /\ \A q \in DOMAIN batch[t]: batch'[t][q] = batch[t][q]
<1> DEFINE g == WithRecord(batch[t], r)
<1>1. batch \in [Indexers -> Batches] /\ written[r] \in Nat
  BY DEF IndexTyped
<1>2. batch' = [batch EXCEPT ![t] = g] /\ r \notin DOMAIN batch[t]
  BY DEF Insert
<1>3. batch[t] \in Batches
  BY <1>1
<1>4. /\ g \in Batches
      /\ DOMAIN g = DOMAIN batch[t] \cup {r}
      /\ g[r] = written[r]
      /\ \A q \in DOMAIN batch[t]: g[q] = batch[t][q]
  BY <1>1, <1>2, <1>3, GrownBatch
<1> HIDE DEF g
<1>5. batch'[t] = g
  BY <1>1, <1>2
<1>6. QED
  BY <1>1, <1>2, <1>4, <1>5

\* The variables keep their types.
LEMMA TypedKept == IndexIInv /\ [IndexNext]_indexVars => IndexTyped'
<1> SUFFICES ASSUME IndexIInv, [IndexNext]_indexVars
             PROVE  IndexTyped'
  OBVIOUS
<1>0. IndexTyped /\ TransactionOwned /\ MaxTicks \in Nat
  BY IndexAssumption DEF IndexIInv
<1> USE DEF Places
<1>1. ASSUME NEW r \in Records, SaveRecord(r)
      PROVE  IndexTyped'
  <2>1. ticks' = ticks + 1 /\ ticks' \in 0..MaxTicks
    BY <1>0, <1>1 DEF SaveRecord, IndexTyped
  <2>2. written' \in [Records -> Nat] /\ \A q \in Records: written'[q] <= ticks'
    BY <1>0, <1>1, <2>1 DEF SaveRecord, IndexTyped
  <2>3. stamp' \in -1..ticks'
    BY <1>0, <1>1, <2>1 DEF SaveRecord, IndexTyped
  <2>4. spoiled' \in BOOLEAN
    BY <1>0, <1>1 DEF SaveRecord, IndexTyped
  <2>5. QED
    BY <1>0, <1>1, <2>1, <2>2, <2>3, <2>4 DEF SaveRecord, IndexTyped
<1>2. ASSUME NEW t \in Indexers, CallRebuild(t) \/ CallSearch(t)
      PROVE  IndexTyped'
  BY <1>0, <1>2 DEF CallRebuild, CallSearch, Goto, IndexTyped
<1>3. ASSUME NEW t \in Indexers, Drop(t)
      PROVE  IndexTyped'
  <2>1. NoBatch \in Batches
    <3>1. NoBatch \in [{} -> Nat]
      BY DEF NoBatch
    <3>2. QED
      BY <3>1 DEF Batches
  <2>2. batch' \in [Indexers -> Batches] /\ indexPc' \in [Indexers -> Places]
    BY <1>0, <1>3, <2>1 DEF Drop, Goto, IndexTyped
  <2>3. QED
    BY <1>0, <1>3, <2>2 DEF Drop, IndexTyped
<1>4. ASSUME NEW t \in Indexers, EnsureSchema(t)
      PROVE  IndexTyped'
  <2>1. chunks' \in {NoTables} \cup [is: {"made"}, rebuilds: Seq([Records -> Nat])]
    BY <1>0, <1>4 DEF EnsureSchema, Tables, IndexTyped
  <2>2. indexPc' \in [Indexers -> Places]
    BY <1>0, <1>4 DEF EnsureSchema, Goto, IndexTyped
  <2>3. QED
    BY <1>0, <1>4, <2>1, <2>2 DEF EnsureSchema, IndexTyped
<1>5. ASSUME NEW t \in Indexers, NEW r \in Records, Insert(t, r)
      PROVE  IndexTyped'
  <2>1. batch' \in [Indexers -> Batches]
    BY <1>0, <1>5, InsertGrows
  <2>2. indexPc' \in [Indexers -> Places] /\ indexLock' \in Indexers \cup {NoOne}
    BY <1>0, <1>5 DEF Insert, IndexTyped
  <2>3. QED
    BY <1>0, <1>5, <2>1, <2>2 DEF Insert, IndexTyped
<1>6. ASSUME NEW t \in Indexers, Commit(t)
      PROVE  IndexTyped'
  <2>1. ticks' = ticks + 1 /\ ticks' \in 0..MaxTicks /\ stamp' \in -1..ticks'
    BY <1>0, <1>6 DEF Commit, IndexTyped
  <2>2. \A r \in Records: written'[r] <= ticks'
    BY <1>0, <1>6, <2>1 DEF Commit, IndexTyped
  <2>3. chunks' \in {NoTables} \cup [is: {"made"}, rebuilds: Seq([Records -> Nat])]
    <3>1. indexLock = t /\ chunks # NoTables /\ DOMAIN batch[t] = Records
      BY <1>0, <1>6, IndexAssumption DEF Commit, Goto, TransactionOwned
    <3>2. batch[t] \in [Records -> Nat]
      BY <1>0, <3>1, WholeBatch DEF IndexTyped
    <3>3. chunks.rebuilds \in Seq([Records -> Nat])
      BY <1>0, <3>1 DEF IndexTyped
    <3>4. Append(chunks.rebuilds, batch[t]) \in Seq([Records -> Nat])
      BY <3>2, <3>3
    <3>5. QED
      BY <1>6, <3>1, <3>4 DEF Commit, Tables
  <2>4. indexPc' \in [Indexers -> Places] /\ indexLock' \in Indexers \cup {NoOne}
    BY <1>0, <1>6 DEF Commit, Goto, IndexTyped
  <2>5. QED
    BY <1>0, <1>6, <2>1, <2>2, <2>3, <2>4 DEF Commit, IndexTyped
<1>7. ASSUME NEW t \in Indexers, Query(t) \/ Raises(t)
      PROVE  IndexTyped'
  BY <1>0, <1>7 DEF Query, Raises, Goto, IndexTyped
<1>8. CASE IndexKill
  BY <1>0, <1>8 DEF IndexKill, IndexTyped
<1>9. CASE UNCHANGED indexVars
  BY <1>0, <1>9 DEF indexVars, IndexTyped
<1>10. QED
  BY <1>1, <1>2, <1>3, <1>4, <1>5, <1>6, <1>7, <1>8, <1>9 DEF IndexNext, IndexStep

\* A transaction keeps its owner.
LEMMA OwnedKept == IndexIInv /\ [IndexNext]_indexVars => TransactionOwned'
<1> SUFFICES ASSUME IndexIInv, [IndexNext]_indexVars
             PROVE  TransactionOwned'
  OBVIOUS
<1>0. IndexTyped /\ TransactionOwned /\ NoOne \notin Indexers
  BY IndexAssumption DEF IndexIInv
<1>1. ASSUME NEW r \in Records, SaveRecord(r)
      PROVE  TransactionOwned'
  BY <1>0, <1>1 DEF SaveRecord, TransactionOwned
<1>2. ASSUME NEW t \in Indexers, CallRebuild(t) \/ CallSearch(t) \/ Query(t)
      PROVE  TransactionOwned'
  BY <1>0, <1>2 DEF CallRebuild, CallSearch, Query, Goto, TransactionOwned, IndexTyped
<1>3. ASSUME NEW t \in Indexers, Drop(t)
      PROVE  TransactionOwned'
  BY <1>0, <1>3 DEF Drop, Goto, TransactionOwned, IndexTyped
<1>4. ASSUME NEW t \in Indexers, EnsureSchema(t)
      PROVE  TransactionOwned'
  BY <1>0, <1>4 DEF EnsureSchema, Goto, TransactionOwned, IndexTyped
<1>5. ASSUME NEW t \in Indexers, NEW r \in Records, Insert(t, r)
      PROVE  TransactionOwned'
  <2>1. \A u \in Indexers \ {t}: batch'[u] = batch[u] /\ indexPc'[u] = indexPc[u]
    BY <1>0, <1>5, InsertGrows DEF Insert, IndexTyped
  <2>2. indexPc'[t] = IF DOMAIN batch'[t] = Records THEN "stamp" ELSE "insert"
    BY <1>0, <1>5 DEF Insert, IndexTyped
  <2>3. indexLock' = t /\ chunks' # NoTables
    BY <1>5 DEF Insert
  <2>4. \A u \in Indexers \ {t}: indexPc[u] # "stamp"
    BY <1>0, <1>5 DEF Insert, TransactionOwned
  <2>5. QED
    BY <2>1, <2>2, <2>3, <2>4 DEF TransactionOwned
<1>6. ASSUME NEW t \in Indexers, Commit(t)
      PROVE  TransactionOwned'
  BY <1>0, <1>6 DEF Commit, Goto, TransactionOwned, IndexTyped
<1>7. ASSUME NEW t \in Indexers, Raises(t)
      PROVE  TransactionOwned'
  BY <1>0, <1>7 DEF Raises, TransactionOwned, IndexTyped
<1>8. CASE IndexKill
  BY <1>0, <1>8 DEF IndexKill, TransactionOwned
<1>9. CASE UNCHANGED indexVars
  BY <1>0, <1>9 DEF indexVars, TransactionOwned
<1>10. QED
  BY <1>1, <1>2, <1>3, <1>4, <1>5, <1>6, <1>7, <1>8, <1>9 DEF IndexNext, IndexStep

\* A rebuild that nothing disturbs goes on undisturbed.
LEMMA UndisturbedKept == IndexIInv /\ [IndexNext]_indexVars => (~spoiled => Undisturbed)'
<1> SUFFICES ASSUME IndexIInv, [IndexNext]_indexVars, ~spoiled'
             PROVE  Undisturbed'
  OBVIOUS
<1>0. IndexTyped /\ TransactionOwned /\ (~spoiled => Undisturbed)
  BY DEF IndexIInv
<1>0a. MaxTicks \in Nat /\ NoOne \notin Indexers
  BY IndexAssumption
<1> USE DEF Undisturbed, Rebuilding
<1>1. ASSUME NEW r \in Records, SaveRecord(r)
      PROVE  Undisturbed'
  <2>1. ~spoiled /\ \A t \in Indexers: ~Rebuilding(t)
    BY <1>0, <1>1 DEF SaveRecord, IndexTyped
  <2>2. NeedsRebuild'
    BY <1>0, <1>1 DEF SaveRecord, IndexTyped, NeedsRebuild
  <2>3. indexPc' = indexPc
    BY <1>1 DEF SaveRecord
  <2>4. QED
    BY <2>1, <2>2, <2>3
<1>2. ASSUME NEW t \in Indexers, CallRebuild(t) \/ CallSearch(t) \/ Query(t)
      PROVE  Undisturbed'
  <2>1. ~spoiled
    BY <1>0, <1>2 DEF CallRebuild, CallSearch, Query, IndexTyped
  <2>2. /\ UNCHANGED <<written, stamp, chunks, batch>>
        /\ \A u \in Indexers \ {t}: indexPc'[u] = indexPc[u]
        /\ indexPc[t] \in {"idle", "query"}
        /\ indexPc'[t] \in {"idle", "query", "drop"}
    BY <1>0, <1>2 DEF CallRebuild, CallSearch, Query, Goto, IndexTyped
  <2>3. indexPc'[t] = "drop" => \A u \in Indexers: ~Rebuilding(u)
    BY <1>0, <1>2 DEF CallRebuild, CallSearch, Query, Goto, IndexTyped
  <2>4. NeedsRebuild' <=> NeedsRebuild
    BY <2>2 DEF NeedsRebuild
  <2>5. QED
    BY <1>0, <2>1, <2>2, <2>3, <2>4
<1>3. ASSUME NEW t \in Indexers, Drop(t)
      PROVE  Undisturbed'
  <2>1. ~spoiled /\ \A u \in Indexers \ {t}: ~Rebuilding(u) /\ indexPc'[u] = indexPc[u]
    BY <1>0, <1>3 DEF Drop, Goto, IndexTyped
  <2>2. indexPc'[t] = "create" /\ chunks' = NoTables /\ batch'[t] = NoBatch
    BY <1>0, <1>3 DEF Drop, Goto, IndexTyped
  <2>3. QED
    BY <2>1, <2>2
<1>4. ASSUME NEW t \in Indexers, EnsureSchema(t)
      PROVE  Undisturbed'
  <2>1. ~spoiled /\ \A u \in Indexers \ {t}: ~Rebuilding(u) /\ indexPc'[u] = indexPc[u]
    BY <1>0, <1>4 DEF EnsureSchema, Goto, IndexTyped
  <2>2. indexPc'[t] = "insert" /\ chunks' = Tables(<<>>) /\ batch'[t] = <<>>
    BY <1>0, <1>4, <2>1 DEF EnsureSchema, Goto, IndexTyped, NoBatch
  <2>3. DOMAIN batch'[t] = {}
    BY <2>2
  <2>4. QED
    BY <2>1, <2>2, <2>3
<1>5. ASSUME NEW t \in Indexers, NEW r \in Records, Insert(t, r)
      PROVE  Undisturbed'
  <2>1. ~spoiled /\ \A u \in Indexers \ {t}: ~Rebuilding(u) /\ indexPc'[u] = indexPc[u]
    BY <1>0, <1>5 DEF Insert, IndexTyped
  <2>2. indexPc'[t] \in {"insert", "stamp"} /\ UNCHANGED <<chunks, written>>
    BY <1>0, <1>5 DEF Insert, IndexTyped
  <2>3. chunks' = Tables(<<>>)
    BY <1>0, <1>5, <2>1, <2>2 DEF Insert
  <2>4. \A q \in DOMAIN batch'[t]: batch'[t][q] = written'[q]
    <3>1. indexPc[t] = "insert" /\ written' = written
      BY <1>5 DEF Insert
    <3>2. /\ DOMAIN batch'[t] = DOMAIN batch[t] \cup {r}
          /\ batch'[t][r] = written[r]
          /\ \A q \in DOMAIN batch[t]: batch'[t][q] = batch[t][q]
      BY <1>0, <1>5, InsertGrows
    <3>3. \A q \in DOMAIN batch[t]: batch[t][q] = written[q]
      BY <1>0, <2>1, <3>1
    <3>4. QED
      BY <3>1, <3>2, <3>3
  <2>5. QED
    BY <2>1, <2>2, <2>3, <2>4
<1>6. ASSUME NEW t \in Indexers, Commit(t)
      PROVE  Undisturbed'
  <2>1. ~spoiled /\ \A u \in Indexers \ {t}: ~Rebuilding(u) /\ indexPc'[u] = indexPc[u]
    BY <1>0, <1>6 DEF Commit, Goto, IndexTyped
  <2>2. indexPc'[t] = "query" /\ written' = written
    BY <1>0, <1>6 DEF Commit, Goto, IndexTyped
  <2>3. chunks = Tables(<<>>) /\ indexLock = t /\ DOMAIN batch[t] = Records
    BY <1>0, <1>6, <2>1 DEF Commit, Goto, TransactionOwned
  <2>4. batch[t] = written
    <3>1. batch[t] \in [Records -> Nat] /\ written \in [Records -> Nat]
      BY <1>0, <2>3, WholeBatch DEF IndexTyped
    <3>2. \A q \in Records: batch[t][q] = written[q]
      BY <1>0, <1>6, <2>1, <2>3 DEF Commit, Goto
    <3>3. QED
      BY <3>1, <3>2
  <2>5. chunks' = Tables(<<written'>>)
    BY <1>6, <2>2, <2>3, <2>4 DEF Commit, Tables
  <2>6. QED
    BY <2>1, <2>2, <2>5
<1>7. ASSUME NEW t \in Indexers, Raises(t)
      PROVE  Undisturbed'
  BY <1>7 DEF Raises
<1>8. CASE IndexKill
  <2>1. ~spoiled /\ \A t \in Indexers: ~Rebuilding(t)
    BY <1>0, <1>8 DEF IndexKill, IndexTyped
  <2>2. UNCHANGED <<written, stamp, chunks>> /\ \A t \in Indexers: indexPc'[t] = "idle"
    BY <1>8 DEF IndexKill
  <2>3. QED
    BY <1>0, <2>1, <2>2 DEF NeedsRebuild
<1>9. CASE UNCHANGED indexVars
  BY <1>0, <1>9 DEF indexVars, NeedsRebuild
<1>10. QED
  BY <1>1, <1>2, <1>3, <1>4, <1>5, <1>6, <1>7, <1>8, <1>9 DEF IndexNext, IndexStep

\* The inductive invariant holds, for any records, threads and bound: a
\* transaction has one owner, and a rebuild that meets nothing is exact.
THEOREM IndexInvariant == IndexSpec => []IndexIInv
<1>1. IndexIInv /\ [IndexNext]_indexVars => IndexIInv'
  BY TypedKept, OwnedKept, UndisturbedKept DEF IndexIInv
<1>2. QED
  BY <1>1, IndexInitial, PTL DEF IndexSpec

\* The tables never hold part of a rebuild, whatever is killed, raises or
\* overlaps (rebuild_index commits once, at its end).
THEOREM RebuildsAreWhole == IndexSpec => []WholeRebuilds
<1>1. IndexIInv => WholeRebuilds
  BY DEF IndexIInv, IndexTyped, WholeRebuilds
<1>2. QED
  BY <1>1, IndexInvariant, PTL

\* An index that needs_rebuild calls fresh has the newest version of every
\* record, once, if no rebuild was killed, failed or met a writer.
THEOREM FreshIndexIsComplete == IndexSpec => []FreshIsComplete
<1>1. IndexIInv => FreshIsComplete
  BY DEF IndexIInv, Undisturbed, FreshIsComplete
<1>2. QED
  BY <1>1, IndexInvariant, PTL
===============================================================================
