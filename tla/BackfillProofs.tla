---------------------------- MODULE BackfillProofs ----------------------------
(***************************************************************************)
(* Sound is an invariant of module Backfill, for any number of runs,       *)
(* retiring transactions, documents and chunks, any batch size and limits. *)
(***************************************************************************)
EXTENDS BackfillInvariant, FiniteSetTheorems, TLAPS

\* Sets of chunks are finite, so they can be counted.
LEMMA ChunksCounted ==
  ASSUME NEW S \in SUBSET Chunk
  PROVE  IsFiniteSet(S) /\ Cardinality(S) \in Nat
  BY ChunksBelong, FS_Subset, FS_CardinalityType

\* Rows that are taken are among those there are, and no more than asked for.
LEMMA TakeBounds ==
  ASSUME NEW n \in Nat, NEW rows \in SUBSET Chunk, NEW some \in Take(n, rows)
  PROVE  /\ some \subseteq rows
         /\ Cardinality(some) \in Nat
         /\ Cardinality(some) <= n
         /\ Cardinality(some) < n => some = rows
  <1>1. some \subseteq rows /\ (Cardinality(some) = n \/ (some = rows /\ Cardinality(some) < n))
    BY DEF Take
  <1>2. Cardinality(some) \in Nat
    BY <1>1, ChunksCounted
  <1> QED
    BY <1>1, <1>2

\* A batch that is not empty asks for at least one row and stays within the limit.
LEMMA BatchLimitBounds ==
  ASSUME NEW r \in Run, request[r] \in Request, count[r] \in Count
  PROVE  /\ count[r].attempted < request[r].limit => BatchLimit(r) \in Nat
         /\ count[r].attempted + BatchLimit(r) <= request[r].limit
  BY SizesPositive DEF BatchLimit, Request, Count

\* What a batch adds to the counters of its run.
LEMMA BatchCounted ==
  ASSUME NEW r \in Run, NEW m \in Nat, NEW n \in Nat, count \in [Run -> Count],
         CountBatch(r, m, n)
  PROVE  /\ count' \in [Run -> Count]
         /\ \A q \in Run \ {r} : count'[q] = count[q]
         /\ count'[r].attempted = count[r].attempted + m + n
         /\ count'[r].succeeded = count[r].succeeded + m
         /\ count'[r].failed = count[r].failed + n
  BY DEF Count, CountBatch

-------------------------------------------------------------------------------
\* Every step keeps the types of the table and of the calls' local state.
LEMMA TypeStep ==
  ASSUME TypeOK, LocksHeld, [Next]_vars
  PROVE  TypeOK'
<1> USE CallsDisjoint, NoneIsNoValue, ChunksBelong
    DEF TypeOK, Call, Goto, table, progress, locks, retirement, history, vars
<1> USE DEF Location, InBatch, Over, Scan, Release
<1>1. ASSUME NEW r \in Run, NEW force \in BOOLEAN, NEW limit \in Limit,
             StartRun(r, force, limit)
      PROVE  TypeOK'
  BY <1>1, SizesPositive DEF StartRun, Request, ActiveChunks
<1>2. ASSUME NEW r \in Run, NEW d \in Document, StartUploadRun(r, d) PROVE TypeOK'
  <2>1. PICK ids \in Take(UploadLimit, ChunksOf(d) \cap ActiveChunks) :
           /\ pc' = [pc EXCEPT ![r] = IF ids = {} THEN "skipped" ELSE "looping"]
           /\ request' = [request EXCEPT ![r] =
                            [ids |-> ids, force |-> FALSE, limit |-> Cardinality(ids)]]
    BY <1>2 DEF StartUploadRun
  <2>2. ids \in SUBSET Chunk /\ Cardinality(ids) \in Nat
    <3>1. UploadLimit \in Nat
      BY SizesPositive
    <3>2. ChunksOf(d) \cap ActiveChunks \in SUBSET Chunk
      BY DEF ChunksOf
    <3> HIDE DEF TypeOK
    <3> QED
      BY <3>1, <3>2, TakeBounds
  <2>3. [ids |-> ids, force |-> FALSE, limit |-> Cardinality(ids)] \in Request
    BY <2>2 DEF Request
  <2> QED
    BY <1>2, <2>1, <2>3 DEF StartUploadRun, ActiveChunks
<1>3. ASSUME NEW r \in Run, ReadBatch(r) PROVE TypeOK'
  <2>1. PICK rows \in Take(BatchLimit(r), Eligible(r)) : batch' = [batch EXCEPT ![r] = rows]
    BY <1>3 DEF ReadBatch
  <2>2. rows \in SUBSET Chunk
    BY DEF Take, Eligible, ActiveChunks
  <2> QED
    BY <1>3, <2>1, <2>2 DEF ReadBatch
<1>4. ASSUME NEW r \in Run, NoMoreBatches(r) PROVE TypeOK'
  BY <1>4 DEF NoMoreBatches
<1>5. ASSUME NEW r \in Run, EmbedReturns(r) PROVE TypeOK'
  BY <1>5 DEF EmbedReturns
<1>6. ASSUME NEW c \in Call, LockRow(c) PROVE TypeOK'
  <2>1. next[c] \in todo[c]
    BY <1>6 DEF LockRow, LocksHeld
  <2> QED
    BY <1>6, <2>1 DEF LockRow
<1>7. ASSUME NEW r \in Run, CheckBatch(r) PROVE TypeOK'
  BY <1>7 DEF CheckBatch
<1>8. ASSUME NEW r \in Run, BatchFails(r) PROVE TypeOK'
  <2>1. Cardinality(batch[r]) \in Nat
    BY ChunksCounted
  <2>2. count' \in [Run -> Count]
    BY <1>8, <2>1, BatchCounted DEF BatchFails
  <2> QED
    BY <1>8, <2>2 DEF BatchFails
<1>9. ASSUME NEW r \in Run, CommitBatch(r) PROVE TypeOK'
  <2>1. Cardinality(batch[r]) \in Nat
    BY ChunksCounted
  <2>2. count' \in [Run -> Count]
    BY <1>9, <2>1, BatchCounted DEF CommitBatch
  <2> QED
    BY <1>9, <2>2 DEF CommitBatch, WriteVectors
<1>10. ASSUME NEW r \in Run, ReadRaises(r) PROVE TypeOK'
  BY <1>10 DEF ReadRaises
<1>17. ASSUME NEW r \in Run, CommitRaises(r) PROVE TypeOK'
  <2>1. /\ embedded' \subseteq Chunk
        /\ wrote' \in [Run -> SUBSET Chunk]
    BY <1>17 DEF CommitRaises, WriteVectors
  <2> QED
    BY <1>17, <2>1 DEF CommitRaises
<1>11. ASSUME NEW d \in Document, Publish(d) PROVE TypeOK'
  BY <1>11 DEF Publish, Status
<1>12. ASSUME NEW x \in Retirer, NEW d \in Document, NEW e \in Document \cup {None},
              RetireBegins(x, d, e)
       PROVE  TypeOK'
  BY <1>12 DEF RetireBegins, ChunksOf
<1>13. ASSUME NEW x \in Retirer, RetireCommits(x) PROVE TypeOK'
  BY <1>13 DEF RetireCommits, Retired, Status
<1>14. ASSUME NEW x \in Retirer, RetireRaises(x) PROVE TypeOK'
  BY <1>14 DEF RetireRaises
<1>15. ASSUME NEW c \in Call, Abandon(c) PROVE TypeOK'
  BY <1>15 DEF Abandon
<1>16. CASE AllOver \/ UNCHANGED vars
  BY <1>16 DEF AllOver
<1> HIDE DEF TypeOK, Call, Goto, table, progress, locks, retirement, history, vars
<1> HIDE DEF Location, InBatch, Over, Scan, Release
<1> QED
  BY <1>1, <1>2, <1>3, <1>4, <1>5, <1>6, <1>7, <1>8, <1>9, <1>10, <1>11, <1>12, <1>13,
     <1>14, <1>15, <1>16, <1>17
  DEF Next, RunStep, RetireStep, Fault, BreakDeadlock, Conflict, BatchRaises, Call
-------------------------------------------------------------------------------
\* A statement that starts has locked nothing yet; locks change hands row by row.
LEMMA LocksStep ==
  ASSUME TypeOK, LocksHeld, [Next]_vars
  PROVE  LocksHeld'
<1> USE CallsDisjoint, NoneIsNoValue
    DEF TypeOK, LocksHeld, Call, Goto, Locking, table, progress, locks, retirement, history, vars
<1> USE DEF Over, InBatch
<1>1. ASSUME NEW r \in Run, NEW force \in BOOLEAN, NEW limit \in Limit,
             StartRun(r, force, limit)
      PROVE  LocksHeld'
  BY <1>1 DEF StartRun
<1>2. ASSUME NEW r \in Run, NEW d \in Document, StartUploadRun(r, d) PROVE LocksHeld'
  BY <1>2 DEF StartUploadRun
<1>3. ASSUME NEW r \in Run, ReadBatch(r) PROVE LocksHeld'
  <2>1. \A q \in Run \ {r} : batch'[q] = batch[q]
    BY <1>3 DEF ReadBatch
  <2> QED
    BY <1>3, <2>1 DEF ReadBatch
<1>4. ASSUME NEW r \in Run, NoMoreBatches(r) \/ ReadRaises(r) PROVE LocksHeld'
  BY <1>4 DEF NoMoreBatches, ReadRaises
<1>16. ASSUME NEW r \in Run, CheckBatch(r) PROVE LocksHeld'
  BY <1>16 DEF CheckBatch
<1>5. ASSUME NEW r \in Run, EmbedReturns(r) PROVE LocksHeld'
  BY <1>5 DEF EmbedReturns, Scan
<1>6. ASSUME NEW c \in Call, LockRow(c) PROVE LocksHeld'
  <2>1. next[c] \in todo[c]
    BY <1>6 DEF LockRow
  <2> QED
    BY <1>6, <2>1 DEF LockRow
<1>7. ASSUME NEW r \in Run, BatchFails(r) PROVE LocksHeld'
  BY <1>7 DEF BatchFails, Release
<1>8. ASSUME NEW r \in Run, CommitBatch(r) PROVE LocksHeld'
  BY <1>8 DEF CommitBatch, Release
<1>9. ASSUME NEW r \in Run, CommitRaises(r) PROVE LocksHeld'
  BY <1>9 DEF CommitRaises, Release
<1>10. ASSUME NEW d \in Document, Publish(d) PROVE LocksHeld'
  BY <1>10 DEF Publish, ChunksOf
<1>11. ASSUME NEW x \in Retirer, NEW d \in Document, NEW e \in Document \cup {None},
              RetireBegins(x, d, e)
       PROVE  LocksHeld'
  BY <1>11 DEF RetireBegins, Scan, ChunksOf
<1>12. ASSUME NEW x \in Retirer, RetireCommits(x) PROVE LocksHeld'
  BY <1>12 DEF RetireCommits, Release, ChunksOf
<1>13. ASSUME NEW x \in Retirer, RetireRaises(x) PROVE LocksHeld'
  BY <1>13 DEF RetireRaises, Release, ChunksOf
<1>14. ASSUME NEW c \in Call, Abandon(c) PROVE LocksHeld'
  BY <1>14 DEF Abandon, Release, ChunksOf
<1>15. CASE AllOver \/ UNCHANGED vars
  BY <1>15 DEF AllOver, ChunksOf
<1> HIDE DEF TypeOK, LocksHeld, Call, Goto, Locking, table, progress, locks, retirement,
   history, vars
<1> HIDE DEF Over, InBatch
<1> QED
  BY <1>1, <1>2, <1>3, <1>4, <1>5, <1>6, <1>7, <1>8, <1>9, <1>10, <1>11, <1>12, <1>13,
     <1>14, <1>15, <1>16
  DEF Next, RunStep, RetireStep, Fault, BreakDeadlock, Conflict, BatchRaises, Call

\* The status of a document changes when it is stored or when a transaction that
\* holds the rows of its chunks retires it.
LEMMA CheckedStep ==
  ASSUME TypeOK, LocksHeld, CheckedIsActive, [Next]_vars
  PROVE  CheckedIsActive'
<1> USE CallsDisjoint
    DEF TypeOK, CheckedIsActive, ActiveChunks, Call, Goto, table, progress, locks,
        retirement, history, vars
<1>1. ASSUME NEW r \in Run, NEW force \in BOOLEAN, NEW limit \in Limit,
             StartRun(r, force, limit)
      PROVE  CheckedIsActive'
  BY <1>1 DEF StartRun
<1>2. ASSUME NEW r \in Run, NEW d \in Document, StartUploadRun(r, d) PROVE CheckedIsActive'
  BY <1>2 DEF StartUploadRun
<1>3. ASSUME NEW r \in Run, ReadBatch(r) PROVE CheckedIsActive'
  <2>1. \A q \in Run \ {r} : batch'[q] = batch[q]
    BY <1>3 DEF ReadBatch
  <2> QED
    BY <1>3, <2>1 DEF ReadBatch
<1>4. ASSUME NEW r \in Run, NoMoreBatches(r) \/ ReadRaises(r) \/ EmbedReturns(r)
      PROVE  CheckedIsActive'
  BY <1>4 DEF NoMoreBatches, ReadRaises, EmbedReturns
<1>5. ASSUME NEW r \in Run, CheckBatch(r) PROVE CheckedIsActive'
  BY <1>5 DEF CheckBatch, Writable
<1>6. ASSUME NEW c \in Call, LockRow(c) PROVE CheckedIsActive'
  BY <1>6 DEF LockRow
<1>7. ASSUME NEW r \in Run, BatchFails(r) PROVE CheckedIsActive'
  BY <1>7 DEF BatchFails
<1>8. ASSUME NEW r \in Run, CommitBatch(r) PROVE CheckedIsActive'
  BY <1>8 DEF CommitBatch
<1>9. ASSUME NEW r \in Run, CommitRaises(r) PROVE CheckedIsActive'
  BY <1>9 DEF CommitRaises
<1>10. ASSUME NEW d \in Document, Publish(d) PROVE CheckedIsActive'
  BY <1>10 DEF Publish
<1>11. ASSUME NEW x \in Retirer, NEW d \in Document, NEW e \in Document \cup {None},
              RetireBegins(x, d, e)
       PROVE  CheckedIsActive'
  BY <1>11 DEF RetireBegins
<1>12. ASSUME NEW x \in Retirer, RetireCommits(x) PROVE CheckedIsActive'
  <2> SUFFICES ASSUME NEW r \in Run, pc'[r] = "checked", NEW c \in batch'[r]
               PROVE  c \in ActiveChunks'
    BY DEF CheckedIsActive
  <2>1. pc[r] = "checked" /\ batch' = batch /\ pc[x] = "locked"
    BY <1>12 DEF RetireCommits
  <2>2. c \in ActiveChunks /\ c \in held[r]
    BY <2>1 DEF LocksHeld, Locking
  <2>3. held[x] = ChunksOf(target[x])
    <3>1. todo[x] = {}
      BY <2>1 DEF LocksHeld
    <3>2. held[x] \cup todo[x] = ChunksOf(target[x])
      BY <2>1 DEF LocksHeld, Locking
    <3> QED
      BY <3>1, <3>2
  <2>5. held[x] \cap held[r] = {}
    BY DEF LocksHeld
  <2>4. DocumentOf[c] # target[x]
    BY <2>2, <2>3, <2>5 DEF ChunksOf
  <2> QED
    BY <1>12, <2>2, <2>4, ChunksBelong DEF RetireCommits
<1>13. ASSUME NEW x \in Retirer, RetireRaises(x) PROVE CheckedIsActive'
  BY <1>13 DEF RetireRaises
<1>14. ASSUME NEW c \in Call, Abandon(c) PROVE CheckedIsActive'
  BY <1>14 DEF Abandon
<1>15. CASE AllOver \/ UNCHANGED vars
  BY <1>15 DEF AllOver
<1> HIDE DEF TypeOK, CheckedIsActive, ActiveChunks, Call, Goto, table, progress, locks,
   retirement, history, vars
<1> QED
  BY <1>1, <1>2, <1>3, <1>4, <1>5, <1>6, <1>7, <1>8, <1>9, <1>10, <1>11, <1>12, <1>13,
     <1>14, <1>15
  DEF Next, RunStep, RetireStep, Fault, BreakDeadlock, Conflict, BatchRaises, Call
-------------------------------------------------------------------------------
\* A document is stored once, and retired documents stay retired.
LEMMA SeenStep ==
  ASSUME TypeOK, SeenIsStored, [Next]_vars
  PROVE  /\ SeenIsStored'
         /\ \A r \in Run : seen[r] \cap ActiveChunks' \subseteq ActiveChunks
<1> USE CallsDisjoint, NoneIsNoValue, ChunksBelong
    DEF TypeOK, Call, Goto, Locking, Over, table, progress, locks, retirement, history, vars
<1> DEFINE Goal == /\ SeenIsStored'
                   /\ \A r \in Run : seen[r] \cap ActiveChunks' \subseteq ActiveChunks
<1>1. ASSUME NEW r \in Run,
             \/ \E force \in BOOLEAN, limit \in Limit : StartRun(r, force, limit)
             \/ \E d \in Document : StartUploadRun(r, d)
      PROVE  Goal
  <2>1. /\ UNCHANGED <<status, retirement>>
        /\ \A x \in Retirer : pc'[x] = pc[x]
        /\ seen' = [seen EXCEPT ![r] = ActiveChunks]
    BY <1>1 DEF StartRun, StartUploadRun
  <2> QED
    BY <2>1 DEF SeenIsStored, ActiveChunks
<1>2. ASSUME NEW r \in Run,
             \/ ReadBatch(r) \/ NoMoreBatches(r) \/ EmbedReturns(r) \/ CheckBatch(r)
             \/ BatchFails(r) \/ CommitBatch(r) \/ ReadRaises(r) \/ CommitRaises(r)
      PROVE  Goal
  <2>1. /\ UNCHANGED <<status, retirement, seen>>
        /\ \A x \in Retirer : pc'[x] = pc[x]
    BY <1>2 DEF ReadBatch, NoMoreBatches, EmbedReturns, CheckBatch, BatchFails, CommitBatch,
       ReadRaises, CommitRaises
  <2> QED
    BY <2>1 DEF SeenIsStored, ActiveChunks
<1>3. ASSUME NEW c \in Call, LockRow(c) \/ Abandon(c) PROVE Goal
  <2>1. /\ UNCHANGED <<status, retirement, seen>>
        /\ \A x \in Retirer : pc'[x] \in Locking => pc[x] \in Locking
    BY <1>3 DEF LockRow, Abandon
  <2> QED
    BY <2>1 DEF SeenIsStored, ActiveChunks
<1>4. ASSUME NEW x \in Retirer, RetireRaises(x) PROVE Goal
  BY <1>4 DEF RetireRaises, SeenIsStored, ActiveChunks
<1>5. ASSUME NEW d \in Document, Publish(d) PROVE Goal
  BY <1>5 DEF Publish, SeenIsStored, ActiveChunks
<1>6. ASSUME NEW x \in Retirer, NEW d \in Document, NEW e \in Document \cup {None},
             RetireBegins(x, d, e)
      PROVE  Goal
  <2>1. /\ UNCHANGED <<status, seen>>
        /\ target' = [target EXCEPT ![x] = d]
        /\ replacement' = [replacement EXCEPT ![x] = e]
        /\ pc' = [pc EXCEPT ![x] = "locking"]
    BY <1>6 DEF RetireBegins
  <2>2. status[d] # "absent" /\ (e # None => status[e] = "absent")
    BY <1>6 DEF RetireBegins
  <2>3. \A y \in Retirer \ {x} : pc[y] \in Locking /\ e # None => replacement[y] # e
    BY <1>6 DEF RetireBegins
  <2>4. \A y \in Retirer : pc'[y] \in Locking =>
           /\ target'[y] # None /\ status'[target'[y]] # "absent"
           /\ replacement'[y] # None => status'[replacement'[y]] = "absent"
    BY <2>1, <2>2 DEF SeenIsStored
  <2>5. \A y, z \in Retirer :
           y # z /\ pc'[y] \in Locking /\ pc'[z] \in Locking /\ replacement'[y] # None
           => replacement'[y] # replacement'[z]
    BY <2>1, <2>3 DEF SeenIsStored
  <2> QED
    BY <2>1, <2>4, <2>5 DEF SeenIsStored, ActiveChunks
<1>7. ASSUME NEW x \in Retirer, RetireCommits(x) PROVE Goal
  <2>1. /\ pc[x] \in Locking /\ pc'[x] \notin Locking
        /\ \A y \in Retirer \ {x} : pc'[y] = pc[y]
        /\ UNCHANGED <<retirement, seen>>
    BY <1>7 DEF RetireCommits
  <2>2. \A d \in Document :
           /\ status[d] # "absent" => status'[d] # "absent"
           /\ d # target[x] /\ d # replacement[x] => status'[d] = status[d]
    BY <1>7 DEF RetireCommits, Retired
  <2>3. \A d \in Document : status[d] # "absent" /\ status'[d] = "active" => status[d] = "active"
    BY <1>7, <2>1 DEF RetireCommits, Retired, SeenIsStored
  <2>4. \A r \in Run : \A c \in seen'[r] : status'[DocumentOf[c]] # "absent"
    BY <2>1, <2>2 DEF SeenIsStored
  <2>5. \A y \in Retirer : pc'[y] \in Locking =>
           /\ target'[y] # None /\ status'[target'[y]] # "absent"
           /\ replacement'[y] # None => status'[replacement'[y]] = "absent"
    <3> SUFFICES ASSUME NEW y \in Retirer \ {x}, pc[y] \in Locking
                 PROVE  /\ target[y] # None /\ status'[target[y]] # "absent"
                        /\ replacement[y] # None => status'[replacement[y]] = "absent"
      BY <2>1
    <3>1. /\ status[target[x]] # "absent"
          /\ target[y] # None /\ status[target[y]] # "absent"
      BY <2>1 DEF SeenIsStored
    <3>2. ASSUME replacement[y] # None
          PROVE  status[replacement[y]] = "absent" /\ replacement[y] # replacement[x]
      BY <2>1, <3>2 DEF SeenIsStored
    <3> QED
      BY <2>2, <3>1, <3>2
  <2>6. \A y, z \in Retirer :
           y # z /\ pc'[y] \in Locking /\ pc'[z] \in Locking /\ replacement'[y] # None
           => replacement'[y] # replacement'[z]
    BY <2>1 DEF SeenIsStored
  <2>7. \A r \in Run : seen[r] \cap ActiveChunks' \subseteq ActiveChunks
    BY <2>3 DEF SeenIsStored, ActiveChunks
  <2> QED
    BY <2>4, <2>5, <2>6, <2>7 DEF SeenIsStored
<1>8. CASE AllOver \/ UNCHANGED vars
  BY <1>8 DEF AllOver, SeenIsStored, ActiveChunks
<1> HIDE DEF TypeOK, Call, Goto, Locking, Over, table, progress, locks, retirement, history,
   vars
<1> QED
  BY <1>1, <1>2, <1>3, <1>4, <1>5, <1>6, <1>7, <1>8
  DEF Next, RunStep, RetireStep, Fault, BreakDeadlock, Conflict, BatchRaises, Call
-------------------------------------------------------------------------------
\* What is known of a run at the same place stays true when others move: vectors
\* are not removed and what it has seen does not become active again.
Same(r) ==
    /\ pc'[r] = pc[r]
    /\ request'[r] = request[r]
    /\ batch'[r] = batch[r]
    /\ count'[r] = count[r]
    /\ wrote'[r] = wrote[r]
    /\ seen'[r] = seen[r]

LEMMA SameStep ==
  ASSUME NEW r \in Run, Accounted(r), NothingMissed(r), Same(r),
         embedded \subseteq embedded',
         seen[r] \cap ActiveChunks' \subseteq ActiveChunks
  PROVE  Accounted(r)' /\ NothingMissed(r)'
<1>1. Accounted(r)'
  BY DEF Same, Accounted, Whole
<1>2. Whole(r)' = Whole(r) /\ BatchLimit(r)' = BatchLimit(r)
  BY DEF Same, Whole, BatchLimit
<1>3. NothingMissed(r)'
  BY <1>2 DEF Same, NothingMissed
<1> QED
  BY <1>1, <1>3

\* A run reads chunks it has not written, and all that are left when it gets
\* fewer than it asks for.
LEMMA ReadStep ==
  ASSUME TypeOK, NEW r \in Run, Accounted(r), ReadBatch(r),
         seen[r] \cap ActiveChunks' \subseteq ActiveChunks
  PROVE  Accounted(r)' /\ NothingMissed(r)'
<1>1. PICK rows \in Take(BatchLimit(r), Eligible(r)) : batch' = [batch EXCEPT ![r] = rows]
  BY DEF ReadBatch
<1>2. /\ pc[r] = "looping" /\ pc'[r] = "embedding"
      /\ count[r].attempted < request[r].limit
      /\ Eligible(r) # {}
      /\ UNCHANGED <<status, embedded, request, count, wrote, seen>>
  BY DEF ReadBatch, Goto, Call, table, history, TypeOK
<1>3. request[r] \in Request /\ count[r] \in Count
  BY DEF TypeOK
<1>4. /\ BatchLimit(r) \in Nat /\ BatchLimit(r) > 0
      /\ count[r].attempted + BatchLimit(r) <= request[r].limit
  BY <1>2, <1>3, SizesPositive DEF BatchLimit, Request, Count
<1>5. Eligible(r) \in SUBSET Chunk
  BY DEF Eligible, ActiveChunks
<1>6. /\ rows \subseteq Eligible(r)
      /\ Cardinality(rows) \in Nat
      /\ Cardinality(rows) <= BatchLimit(r)
      /\ Cardinality(rows) < BatchLimit(r) => rows = Eligible(r)
  BY <1>4, <1>5, TakeBounds
<1>7. batch'[r] = rows
  BY <1>1 DEF TypeOK
<1>8. Cardinality(rows) > 0
  <2>1. CASE rows = Eligible(r)
    <3>1. IsFiniteSet(rows) /\ Cardinality(rows) # 0
      BY <2>1, <1>2, <1>5, ChunksCounted, FS_EmptySet
    <3> QED
      BY <3>1, <1>6
  <2>2. CASE Cardinality(rows) = BatchLimit(r)
    BY <2>2, <1>4
  <2> QED
    BY <2>1, <2>2, <1>6, <1>4
<1>9. rows \cap wrote[r] = {}
  BY <1>2, <1>6 DEF Accounted, Whole, Eligible
<1>10. Accounted(r)'
  BY <1>2, <1>3, <1>4, <1>6, <1>7, <1>8, <1>9 DEF Accounted, Whole, InBatch, Count, Request
<1>11. NothingMissed(r)'
  <2>1. SUFFICES ASSUME Whole(r), Cardinality(rows) < BatchLimit(r)
                 PROVE  seen[r] \cap ActiveChunks' \subseteq embedded \cup rows
    BY <1>2, <1>7 DEF NothingMissed, Whole, BatchLimit, InBatch
  <2>2. ActiveChunks \subseteq embedded \cup Eligible(r)
    BY <2>1 DEF Whole, Eligible
  <2> QED
    BY <2>1, <2>2, <1>6
<1> QED
  BY <1>10, <1>11

\* A batch that fails is counted as failed and leaves nothing behind.
LEMMA FailsStep ==
  ASSUME TypeOK, NEW r \in Run, Accounted(r), pc[r] \in InBatch, BatchFails(r)
  PROVE  Accounted(r)' /\ NothingMissed(r)'
<1> DEFINE n == Cardinality(batch[r])
<1>1. n \in Nat /\ n > 0
  BY ChunksCounted DEF Accounted, TypeOK
<1>2. /\ count'[r].attempted = count[r].attempted + n
      /\ count'[r].succeeded = count[r].succeeded
      /\ count'[r].failed = count[r].failed + n
      /\ count[r] \in Count
  <2> HIDE DEF n
  <2>1. CountBatch(r, 0, n) /\ count \in [Run -> Count]
    BY DEF BatchFails, TypeOK, n
  <2>2. count[r].attempted \in Nat /\ count[r].succeeded \in Nat
    BY <2>1 DEF Count
  <2> QED
    BY <1>1, <2>1, <2>2, BatchCounted
<1>3. /\ pc'[r] = "done"
      /\ UNCHANGED <<embedded, request, wrote>>
  BY DEF BatchFails, table, history, TypeOK, Call
<1> HIDE DEF n
<1>4. count[r].failed = 0 /\ count[r].attempted + n <= request[r].limit
  BY DEF Accounted, n
<1>5. Accounted(r)'
  BY <1>1, <1>2, <1>3, <1>4 DEF Accounted, InBatch, Count
<1>6. NothingMissed(r)'
  BY <1>1, <1>2, <1>3, <1>4 DEF NothingMissed, InBatch
<1> QED
  BY <1>5, <1>6

\* A batch that commits has written chunks the run had not written before.
LEMMA CommitStep ==
  ASSUME TypeOK, NEW r \in Run, Accounted(r), NothingMissed(r), CommitBatch(r),
         seen[r] \cap ActiveChunks' \subseteq ActiveChunks
  PROVE  Accounted(r)' /\ NothingMissed(r)'
<1> DEFINE n == Cardinality(batch[r])
<1>1. n \in Nat /\ n > 0
  BY ChunksCounted DEF Accounted, TypeOK, CommitBatch, InBatch
<1>2. /\ count'[r].attempted = count[r].attempted + n
      /\ count'[r].succeeded = count[r].succeeded + n
      /\ count'[r].failed = count[r].failed
      /\ count[r] \in Count
  <2> HIDE DEF n
  <2>1. CountBatch(r, n, 0) /\ count \in [Run -> Count]
    BY DEF CommitBatch, TypeOK, n
  <2>2. count[r].attempted \in Nat /\ count[r].failed \in Nat
    BY <2>1 DEF Count
  <2> QED
    BY <1>1, <2>1, <2>2, BatchCounted
<1>3. /\ pc[r] = "checked"
      /\ pc'[r] = IF LastBatch(r) THEN "done" ELSE "looping"
      /\ embedded' = embedded \cup batch[r]
      /\ wrote'[r] = wrote[r] \cup batch[r]
      /\ UNCHANGED <<request, seen>>
  BY DEF CommitBatch, WriteVectors, TypeOK, Call
<1>4. Cardinality(wrote'[r]) = Cardinality(wrote[r]) + n
  <2>1. wrote[r] \in SUBSET Chunk /\ batch[r] \in SUBSET Chunk
    BY DEF TypeOK
  <2>2. /\ IsFiniteSet(wrote[r]) /\ IsFiniteSet(batch[r])
        /\ Cardinality(wrote[r]) \in Nat
    BY <2>1, ChunksCounted
  <2>3. wrote[r] \cap batch[r] = {}
    BY <1>3 DEF Accounted, InBatch
  <2>4. Cardinality(wrote[r] \cap batch[r]) = 0
    BY <2>3, FS_EmptySet
  <2> QED
    BY <1>1, <1>3, <2>2, <2>4, FS_Union
<1> HIDE DEF n
<1>5. /\ count[r].failed = 0 /\ count[r].attempted + n <= request[r].limit
      /\ count[r].attempted = count[r].succeeded + count[r].failed
      /\ count[r].succeeded = Cardinality(wrote[r])
  BY <1>3 DEF Accounted, InBatch, n
<1>6. ~LastBatch(r) => Whole(r)
  BY DEF LastBatch, Whole
<1>7. Accounted(r)'
  BY <1>1, <1>2, <1>3, <1>4, <1>5, <1>6 DEF Accounted, InBatch, Count, Whole
<1>8. NothingMissed(r)'
  <2> SUFFICES ASSUME pc'[r] = "done", Whole(r)'
               PROVE  seen[r] \cap ActiveChunks' \subseteq embedded'
    BY <1>3 DEF NothingMissed, InBatch
  <2>1. Whole(r) /\ LastBatch(r)
    BY <1>3 DEF Whole
  <2>2. Cardinality(batch[r]) < BatchLimit(r)
    BY <2>1 DEF LastBatch, Whole
  <2>3. seen[r] \cap ActiveChunks \subseteq embedded \cup batch[r]
    BY <1>3, <2>1, <2>2 DEF NothingMissed, InBatch
  <2> QED
    BY <1>3, <2>3
<1> QED
  BY <1>7, <1>8
\* What a run counts and what it misses, over every step.
LEMMA AccountStep ==
  ASSUME TypeOK, LocksHeld, NEW r \in Run, Accounted(r), NothingMissed(r), [Next]_vars,
         seen[r] \cap ActiveChunks' \subseteq ActiveChunks
  PROVE  Accounted(r)' /\ NothingMissed(r)'
<1> DEFINE Goal == Accounted(r)' /\ NothingMissed(r)'
<1> USE CallsDisjoint DEF Call, Goto, table, progress, history, vars
<1>1. ASSUME NEW q \in Run, NEW force \in BOOLEAN, NEW limit \in Limit,
             StartRun(q, force, limit)
      PROVE  Goal
  <2>1. CASE q = r
    <3>1. /\ pc[r] = "idle" /\ pc'[r] = "looping"
          /\ request'[r].limit = limit /\ limit \in Nat
          /\ UNCHANGED <<embedded, count, wrote>>
      BY <1>1, <2>1, SizesPositive DEF StartRun, TypeOK
    <3>2. /\ wrote'[r] = {} /\ Cardinality(wrote'[r]) = 0
          /\ count'[r] = [attempted |-> 0, succeeded |-> 0, failed |-> 0]
      BY <3>1, FS_EmptySet DEF Accounted
    <3>3. 0 <= request'[r].limit
      BY <3>1
    <3> QED
      BY <3>1, <3>2, <3>3 DEF Accounted, NothingMissed, InBatch
  <2>2. CASE q # r
    <3>1. Same(r) /\ embedded' = embedded
      BY <1>1, <2>2 DEF StartRun, TypeOK, Same
    <3> QED
      BY <3>1, SameStep
  <2> QED
    BY <2>1, <2>2
<1>2. ASSUME NEW q \in Run, NEW d \in Document, StartUploadRun(q, d) PROVE Goal
  <2>1. CASE q = r
    <3>1. /\ pc[r] = "idle" /\ pc'[r] \in {"skipped", "looping"}
          /\ UNCHANGED <<embedded, count, wrote>>
      BY <1>2, <2>1 DEF StartUploadRun, TypeOK
    <3>2. request'[r].limit \in Nat
      BY <1>2, <2>1, TypeStep DEF TypeOK, Request
    <3> QED
      BY <3>1, <3>2, FS_EmptySet DEF Accounted, NothingMissed, InBatch
  <2>2. CASE q # r
    <3>1. Same(r) /\ embedded' = embedded
      BY <1>2, <2>2 DEF StartUploadRun, TypeOK, Same
    <3> QED
      BY <3>1, SameStep
  <2> QED
    BY <2>1, <2>2
<1>3. ASSUME NEW q \in Run, ReadBatch(q) PROVE Goal
  <2>1. CASE q = r
    BY <1>3, <2>1, ReadStep
  <2>2. CASE q # r
    <3>1. Same(r) /\ embedded' = embedded
      BY <1>3, <2>2 DEF ReadBatch, TypeOK, Same
    <3> QED
      BY <3>1, SameStep
  <2> QED
    BY <2>1, <2>2
<1>4. ASSUME NEW q \in Run, NoMoreBatches(q) PROVE Goal
  <2>1. CASE q = r
    <3>1. /\ pc[r] = "looping" /\ pc'[r] = "done"
          /\ count[r].attempted >= request[r].limit \/ Eligible(r) = {}
          /\ UNCHANGED <<embedded, request, count, wrote, seen>>
      BY <1>4, <2>1 DEF NoMoreBatches, TypeOK
    <3>2. count[r].attempted \in Nat /\ request[r].limit \in Nat
      BY DEF TypeOK, Count, Request
    <3>3. Whole(r) /\ Eligible(r) = {} => ActiveChunks \subseteq embedded
      BY DEF Whole, Eligible
    <3>4. Accounted(r)'
      BY <3>1 DEF Accounted, InBatch
    <3>5. NothingMissed(r)'
      BY <3>1, <3>2, <3>3 DEF NothingMissed, InBatch, Whole
    <3> QED
      BY <3>4, <3>5
  <2>2. CASE q # r
    <3>1. Same(r) /\ embedded' = embedded
      BY <1>4, <2>2 DEF NoMoreBatches, TypeOK, Same
    <3> QED
      BY <3>1, SameStep
  <2> QED
    BY <2>1, <2>2
<1>5. ASSUME \/ \E q \in Run : EmbedReturns(q) \/ CheckBatch(q)
             \/ \E c \in Call : LockRow(c)
      PROVE  Goal
  <2>1. /\ pc'[r] = pc[r] \/ {pc[r], pc'[r]} \subseteq InBatch
        /\ UNCHANGED <<embedded, request, batch, count, wrote, seen>>
    BY <1>5 DEF EmbedReturns, CheckBatch, LockRow, TypeOK, InBatch
  <2>2. CASE pc'[r] = pc[r]
    BY <2>1, <2>2, SameStep DEF Same
  <2>3. CASE {pc[r], pc'[r]} \subseteq InBatch
    <3>1. Whole(r)' = Whole(r) /\ BatchLimit(r)' = BatchLimit(r)
      BY <2>1 DEF Whole, BatchLimit
    <3>2. Accounted(r)'
      BY <2>1, <2>3, <3>1 DEF Accounted, InBatch
    <3>3. NothingMissed(r)'
      BY <2>1, <2>3, <3>1 DEF NothingMissed, InBatch
    <3> QED
      BY <3>2, <3>3
  <2> QED
    BY <2>1, <2>2, <2>3
<1>6. ASSUME NEW q \in Run, BatchFails(q), pc[q] \in InBatch PROVE Goal
  <2>1. CASE q = r
    BY <1>6, <2>1, FailsStep
  <2>2. CASE q # r
    <3>1. Same(r) /\ embedded' = embedded
      BY <1>6, <2>2 DEF BatchFails, CountBatch, TypeOK, Same
    <3> QED
      BY <3>1, SameStep
  <2> QED
    BY <2>1, <2>2
<1>7. ASSUME NEW q \in Run, CommitBatch(q) PROVE Goal
  <2>1. CASE q = r
    BY <1>7, <2>1, CommitStep
  <2>2. CASE q # r
    <3>1. Same(r) /\ embedded \subseteq embedded'
      BY <1>7, <2>2 DEF CommitBatch, CountBatch, WriteVectors, TypeOK, Same
    <3> QED
      BY <3>1, SameStep
  <2> QED
    BY <2>1, <2>2
<1>8. ASSUME NEW q \in Run, ReadRaises(q) \/ CommitRaises(q) PROVE Goal
  <2>1. embedded \subseteq embedded'
    BY <1>8 DEF ReadRaises, CommitRaises, WriteVectors
  <2>2. CASE q = r
    <3>1. pc'[r] = "raised"
      BY <1>8, <2>2 DEF ReadRaises, CommitRaises, TypeOK
    <3>2. wrote'[r] \subseteq embedded'
      BY <1>8, <2>2 DEF ReadRaises, CommitRaises, WriteVectors, TypeOK, Accounted
    <3> QED
      BY <3>1, <3>2 DEF Accounted, NothingMissed, InBatch
  <2>3. CASE q # r
    <3>1. Same(r)
      BY <1>8, <2>3 DEF ReadRaises, CommitRaises, WriteVectors, TypeOK, Same
    <3> QED
      BY <2>1, <3>1, SameStep
  <2> QED
    BY <2>2, <2>3
<1>9. ASSUME \/ \E d \in Document : Publish(d)
             \/ \E x \in Retirer, d \in Document, e \in Document \cup {None} : RetireBegins(x, d, e)
             \/ \E x \in Retirer : RetireCommits(x) \/ RetireRaises(x)
             \/ AllOver
             \/ UNCHANGED vars
      PROVE  Goal
  <2>1. Same(r) /\ embedded' = embedded
    BY <1>9 DEF Publish, RetireBegins, RetireCommits, RetireRaises, AllOver, TypeOK, Same
  <2> QED
    BY <2>1, SameStep
<1>10. ASSUME NEW c \in Call, Abandon(c) PROVE Goal
  <2>1. embedded' = embedded /\ wrote' = wrote
    BY <1>10 DEF Abandon
  <2>2. CASE c = r
    <3>1. pc'[r] = "gone"
      BY <1>10, <2>2 DEF Abandon, TypeOK
    <3> QED
      BY <2>1, <3>1 DEF Accounted, NothingMissed, InBatch
  <2>3. CASE c # r
    <3>1. Same(r)
      BY <1>10, <2>3 DEF Abandon, TypeOK, Same
    <3> QED
      BY <2>1, <3>1, SameStep
  <2> QED
    BY <2>2, <2>3
<1>11. ASSUME NEW c \in Call, Deadlocked(c) PROVE pc[c] \in InBatch
  <2>1. PICK x \in Call : next[c] \in held[x]
    BY <1>11 DEF Deadlocked
  <2>2. next[c] # None
    BY <2>1, NoneIsNoValue DEF TypeOK
  <2> QED
    BY <2>2 DEF LocksHeld, InBatch
<1> HIDE DEF Call, Goto, table, progress, history, vars
<1> QED
  BY <1>1, <1>2, <1>3, <1>4, <1>5, <1>6, <1>7, <1>8, <1>9, <1>10, <1>11
  DEF Next, RunStep, RetireStep, Fault, BreakDeadlock, Conflict, BatchRaises, Call, InBatch
-------------------------------------------------------------------------------
\* What a run starts from.
LEMMA InitSound == Init => Sound
<1> SUFFICES ASSUME Init PROVE Sound
  OBVIOUS
<1> USE CallsDisjoint, NoneIsNoValue DEF Init, Call
<1>1. TypeOK
  BY DEF TypeOK, Status, Location, Request, Count
<1>2. LocksHeld
  BY DEF LocksHeld, Locking
<1>3. CheckedIsActive /\ SeenIsStored
  BY DEF CheckedIsActive, SeenIsStored, Locking
<1>4. \A r \in Run : Accounted(r) /\ NothingMissed(r)
  BY DEF Accounted, NothingMissed, InBatch
<1> QED
  BY <1>1, <1>2, <1>3, <1>4 DEF Sound

LEMMA SoundStep == Sound /\ [Next]_vars => Sound'
<1> SUFFICES ASSUME Sound, [Next]_vars PROVE Sound'
  OBVIOUS
<1>1. TypeOK' /\ LocksHeld'
  BY TypeStep, LocksStep DEF Sound
<1>2. CheckedIsActive'
  BY CheckedStep DEF Sound
<1>3. SeenIsStored' /\ \A r \in Run : seen[r] \cap ActiveChunks' \subseteq ActiveChunks
  BY SeenStep DEF Sound
<1>4. \A r \in Run : Accounted(r)' /\ NothingMissed(r)'
  BY <1>3, AccountStep DEF Sound
<1> QED
  BY <1>1, <1>2, <1>3, <1>4 DEF Sound

\* The invariant holds in every reachable state.
THEOREM AlwaysSound == Spec => []Sound
<1> QED
  BY InitSound, SoundStep, PTL DEF Spec

\* Type correctness of the backfill model.
THEOREM TypeCorrect == Spec => []TypeOK
<1>1. Sound => TypeOK
  BY DEF Sound
<1> QED
  BY <1>1, AlwaysSound, PTL

\* The numbers of a run add up, also after a batch that failed.
THEOREM CountsAlwaysHonest == Spec => []CountsAreHonest
<1>1. Sound => CountsAreHonest
  BY DEF Sound, CountsAreHonest, Accounted
<1> QED
  BY <1>1, AlwaysSound, PTL

\* A run over the whole table that ends below its limit without a failure has
\* left no chunk it saw, and which is still active, without a vector.
THEOREM FullRunAlwaysLeavesNothing == Spec => []FullRunLeavesNothing
<1>1. Sound => FullRunLeavesNothing
  BY DEF Sound, FullRunLeavesNothing, NothingMissed, Whole
<1> QED
  BY <1>1, AlwaysSound, PTL

\* Only batches that have found their chunks active commit, and a batch that has
\* found them so still does.
LEMMA WritesStep ==
  ASSUME Sound, [Next]_vars, NEW r \in Run
  PROVE  wrote'[r] \ wrote[r] \subseteq ActiveChunks
<1>1. wrote'[r] \subseteq wrote[r] \cup (IF pc[r] = "checked" THEN batch[r] ELSE {})
  <2> USE DEF Goto, table, progress, history, vars, Sound, TypeOK
  <2>1. CASE \E q \in Run : CommitBatch(q) \/ CommitRaises(q)
    BY <2>1 DEF CommitBatch, CommitRaises, WriteVectors
  <2>2. CASE UNCHANGED wrote
    BY <2>2
  <2>3. CASE \E q \in Run :
                \/ \E force \in BOOLEAN, limit \in Limit : StartRun(q, force, limit)
                \/ \E d \in Document : StartUploadRun(q, d)
    BY <2>3 DEF StartRun, StartUploadRun
  <2>4. CASE \E q \in Run : BatchFails(q) \/ ReadBatch(q) \/ NoMoreBatches(q)
                            \/ EmbedReturns(q) \/ CheckBatch(q) \/ ReadRaises(q)
    BY <2>4 DEF BatchFails, ReadBatch, NoMoreBatches, EmbedReturns, CheckBatch, ReadRaises
  <2>5. CASE \E c \in Call : LockRow(c) \/ Abandon(c)
    BY <2>5 DEF LockRow, Abandon
  <2>6. CASE \/ \E d \in Document : Publish(d)
             \/ \E x \in Retirer, d \in Document, e \in Document \cup {None} :
                   RetireBegins(x, d, e)
             \/ \E x \in Retirer : RetireCommits(x) \/ RetireRaises(x)
             \/ AllOver
    BY <2>6 DEF Publish, RetireBegins, RetireCommits, RetireRaises, AllOver
  <2> HIDE DEF Goto, table, progress, history, Sound, TypeOK
  <2> QED
    BY <2>1, <2>2, <2>3, <2>4, <2>5, <2>6
    DEF Next, RunStep, RetireStep, Fault, BreakDeadlock, Conflict, BatchRaises, Call, vars, history
<1> QED
  BY <1>1 DEF Sound, CheckedIsActive

\* No vector is written to a chunk that is not active at that moment.
THEOREM VectorsAlwaysGoToActiveChunks == Spec => VectorsGoToActiveChunks
<1>1. Sound /\ [Next]_vars =>
        [\A r \in Run : wrote'[r] \ wrote[r] \subseteq ActiveChunks]_vars
  BY WritesStep
<1> QED
  BY <1>1, AlwaysSound, PTL DEF Spec, VectorsGoToActiveChunks
===============================================================================
