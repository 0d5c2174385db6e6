----------------------------- MODULE IngestProofs -----------------------------
(***************************************************************************)
(* Consistent is an invariant of module Ingest, and so are the properties  *)
(* it implies, for any number of calls, sources and contents.              *)
(***************************************************************************)
EXTENDS IngestInvariant, TLAPS

\* Every step keeps the types of the tables and of the calls' local state.
LEMMA TypeStep ==
  ASSUME TypeOK, [Next]_vars
  PROVE  TypeOK'
<1> USE CallsDisjoint, NoneIsNoValue DEF TypeOK, Call, Document, Persisting, Over, Goto,
   row, table, locks, vars, Location, JobStatus, RowStatus, Release, Rollback, Stored,
   Active, SameContent
<1>1. ASSUME NEW j \in Job, NEW s \in Source, CreateJob(j, s) PROVE TypeOK'
  BY <1>1 DEF CreateJob
<1>2. ASSUME NEW j \in Job, MarkRunning(j) PROVE TypeOK'
  BY <1>2 DEF MarkRunning
<1>3. ASSUME NEW j \in Job, NEW h \in Hash, ParseReturns(j, h) PROVE TypeOK'
  BY <1>3 DEF ParseReturns
<1>4. ASSUME NEW j \in Job, ParseRaises(j) PROVE TypeOK'
  BY <1>4 DEF ParseRaises
<1>5. ASSUME NEW j \in Job, AcquireLock(j) PROVE TypeOK'
  BY <1>5 DEF AcquireLock
<1>6. ASSUME NEW j \in Job, FindDuplicate(j) PROVE TypeOK'
  BY <1>6 DEF FindDuplicate
<1>7. ASSUME NEW j \in Job, FindNoDuplicate(j) PROVE TypeOK'
  BY <1>7 DEF FindNoDuplicate
<1>8. ASSUME NEW j \in Job, NEW next \in {"done", "failing"}, CommitSkipped(j, next)
      PROVE TypeOK'
  BY <1>8 DEF CommitSkipped, Release
<1>9. ASSUME NEW j \in Job, NEW next \in {"done", "failing"}, CommitIngest(j, next)
      PROVE TypeOK'
  BY <1>9 DEF CommitIngest, Supersede, Release
<1>10. ASSUME NEW j \in Job, LockScan(j) PROVE TypeOK'
  BY <1>10 DEF LockScan, PickActive
<1>11. ASSUME NEW j \in Job, LockRows(j) PROVE TypeOK'
  BY <1>11 DEF LockRows, LockPicked
<1>12. ASSUME NEW j \in Job, MarkFailed(j) PROVE TypeOK'
  BY <1>12 DEF MarkFailed
<1>13. ASSUME NEW w \in Document, NextVersion(w) PROVE TypeOK'
  BY <1>13 DEF NextVersion
<1>14. ASSUME NEW w \in Document, SupersedeScan(w) PROVE TypeOK'
  BY <1>14 DEF SupersedeScan, PickActive
<1>15. ASSUME NEW w \in Document, SupersedeRows(w) PROVE TypeOK'
  BY <1>15 DEF SupersedeRows, LockPicked
<1>16. ASSUME NEW w \in Document, InsertRow(w) PROVE TypeOK'
  BY <1>16 DEF InsertRow
<1>17. ASSUME NEW w \in Document, InsertViolates(w) PROVE TypeOK'
  BY <1>17 DEF InsertViolates, Rollback, Release
<1>18. ASSUME NEW r \in Restorer, NEW d \in Document, RestoreBegins(r, d) PROVE TypeOK'
  BY <1>18 DEF RestoreBegins
<1>19. ASSUME NEW r \in Restorer, CommitRestore(r) PROVE TypeOK'
  BY <1>19 DEF CommitRestore, Supersede, Release
<1>20. ASSUME NEW x \in Remover, NEW d \in Document, DeleteBegins(x, d) PROVE TypeOK'
  BY <1>20 DEF DeleteBegins
<1>21. ASSUME NEW x \in Remover, DeleteRows(x) PROVE TypeOK'
  BY <1>21 DEF DeleteRows, Unblocked
<1>22. ASSUME NEW x \in Remover, CommitDelete(x) PROVE TypeOK'
  BY <1>22 DEF CommitDelete, Release
<1>23. CASE Fault
  BY <1>23 DEF Fault, MarkRunningRaises, PersistRaises, MarkFailedIsLost, RestoreRaises,
     DeleteRaises, Abandon, Rollback, Release
<1>24. CASE AllOver \/ UNCHANGED vars
  BY <1>24 DEF AllOver
<1> HIDE DEF TypeOK, Call, Document, Persisting, Over, Goto, row, table, locks, vars,
   Location, JobStatus, RowStatus, Release, Rollback, Stored, Active, SameContent
<1>25. QED
  BY <1>1, <1>2, <1>3, <1>4, <1>5, <1>6, <1>7, <1>8, <1>9, <1>10, <1>11, <1>12, <1>13,
     <1>14, <1>15, <1>16, <1>17, <1>18, <1>19, <1>20, <1>21, <1>22, <1>23, <1>24 DEF Next,
     IngestStep, WriteStep, DeleteStep

-------------------------------------------------------------------------------
\* No step removes a stored document or changes its columns.
Kept ==
    \A d \in Document :
        status[d] # "absent" =>
            /\ status'[d] # "absent"
            /\ source'[d] = source[d]
            /\ hash'[d] = hash[d]
            /\ version'[d] = version[d]

\* The transaction that inserted document w commits.
Commits(w) ==
    /\ pc[w] = "inserted"
    /\ Supersede(w)
    /\ UNCHANGED row

\* The tables change only when a publication or a deletion commits.
Tables ==
    \/ UNCHANGED table
    \/ \E w \in Document : Commits(w)
    \/ \E x \in Remover : CommitDelete(x)

\* A fault ends one call: it frees what the call holds and changes no row.
Quits ==
    /\ \A c \in Call :
          \/ pc'[c] = pc[c] /\ held'[c] = held[c] /\ target'[c] = target[c]
          \/ pc[c] # "idle" /\ pc'[c] \in Over \cup {"failing"} /\ held'[c] \subseteq held[c]
    /\ UNCHANGED <<jobDocument, row, table, duplicate, job>>

LEMMA FaultStep ==
  ASSUME TypeOK, Fault
  PROVE  Quits
<1> USE DEF TypeOK, Quits, Rollback, Release, row, table, locks, Goto, Over, Persisting
<1>1. ASSUME NEW j \in Job, MarkRunningRaises(j) \/ MarkFailedIsLost(j) PROVE Quits
  BY <1>1 DEF MarkRunningRaises, MarkFailedIsLost
<1>2. ASSUME NEW j \in Job, PersistRaises(j) PROVE Quits
  BY <1>2 DEF PersistRaises
<1>3. ASSUME NEW r \in Restorer, RestoreRaises(r) PROVE Quits
  BY <1>3 DEF RestoreRaises
<1>4. ASSUME NEW x \in Remover, DeleteRaises(x) PROVE Quits
  BY <1>4 DEF DeleteRaises
<1>5. ASSUME NEW c \in Call, Abandon(c) PROVE Quits
  BY <1>5 DEF Abandon
<1>6. QED
  BY <1>1, <1>2, <1>3, <1>4, <1>5 DEF Fault

\* What a call does that fills columns of its own row, before it is stored.
Fills(w) ==
    /\ status[w] = "absent"
    /\ pc[w] = "idle" \/ source' = source
    /\ pc'[w] \in {"created", "locking", "numbering"}
    /\ pc'[w] = "numbering" => w \in Restorer
    /\ \A c \in Call \ {w} : pc'[c] = pc[c]
    /\ \A d \in Document \ {w} :
          source'[d] = source[d] /\ hash'[d] = hash[d] /\ version'[d] = version[d]
    /\ UNCHANGED <<status, chunks, lockHolder, held, target, duplicate, jobDocument>>

LEMMA FillsStep ==
  ASSUME TypeOK, Begun
  PROVE  /\ \A j \in Job, s \in Source : CreateJob(j, s) => Fills(j)
         /\ \A j \in Job, h \in Hash : ParseReturns(j, h) => Fills(j)
         /\ \A r \in Restorer, d \in Document : RestoreBegins(r, d) => Fills(r)
<1> USE DEF TypeOK, Begun, Fills, Document, Call, Goto, table, locks, row, Over, Persisting
<1>1. ASSUME NEW j \in Job, NEW s \in Source, CreateJob(j, s) PROVE Fills(j)
  BY <1>1 DEF CreateJob
<1>2. ASSUME NEW j \in Job, NEW h \in Hash, ParseReturns(j, h) PROVE Fills(j)
  BY <1>2 DEF ParseReturns
<1>3. ASSUME NEW r \in Restorer, NEW d \in Document, RestoreBegins(r, d) PROVE Fills(r)
  BY <1>3 DEF RestoreBegins
<1>4. QED
  BY <1>1, <1>2, <1>3

\* Filling a row of one's own disturbs nothing that the locks protect.
LEMMA FillsKeeps ==
  ASSUME TypeOK, Begun, NEW w \in Document, Fills(w)
  PROVE  /\ RowsHeld => RowsHeld'
         /\ RowsPicked => RowsPicked'
         /\ InsertedAlone => InsertedAlone'
         /\ NoDuplicateYet => NoDuplicateYet'
         /\ UploadsKnow => UploadsKnow'
<1>1. ASSUME RowsHeld PROVE RowsHeld'
  BY <1>1, CallsDisjoint DEF Fills, RowsHeld, Document, Call, TypeOK
<1>2. /\ \A s \in Source : Stored(s)' = Stored(s)
      /\ \A d \in Document : status[d] # "absent" => source'[d] = source[d] /\ d # w
  BY DEF Fills, Stored
<1>3. \A c \in Document : pc'[c] \notin {"idle", "created", "locking"} =>
          (c = w /\ pc'[c] = "numbering" /\ c \notin Job) \/ c # w
  BY CallsDisjoint DEF Fills, Document
<1>4. \A c \in Document \ {w} :
          /\ pc'[c] = pc[c] /\ source'[c] = source[c]
          /\ pc[c] # "idle" => Stored(source[c])' = Stored(source[c])
  BY <1>2 DEF Fills, Call, Document, Begun, Stored
<1>5. ASSUME RowsPicked PROVE RowsPicked'
  <2>1. ASSUME NEW c \in Document, pc'[c] \in {"lock_rows", "supersede_rows"}
        PROVE  target'[c] \subseteq Stored(source[c])'
    BY <1>4, <1>5, <2>1 DEF Fills, RowsPicked
  <2>2. \A x \in Remover : pc'[x] = pc[x] /\ target'[x] = target[x] /\ held'[x] = held[x]
    BY CallsDisjoint DEF Fills, Call, Document
  <2>3. QED
    BY <1>5, <2>1, <2>2 DEF Fills, RowsPicked
<1>6. ASSUME InsertedAlone PROVE InsertedAlone'
  BY <1>2, <1>4, <1>6 DEF Fills, InsertedAlone, Stored
<1>7. ASSUME NoDuplicateYet PROVE NoDuplicateYet'
  <2> SUFFICES ASSUME NEW j \in Job, pc'[j] \in Persisting \ {"dedupe", "skipping"},
                      NEW d \in Job, (d \in Live(source[j]))'
               PROVE  hash'[d] # hash'[j]
    BY DEF NoDuplicateYet
  <2>1. j # w /\ pc'[j] = pc[j] /\ pc[j] # "idle"
    BY CallsDisjoint DEF Fills, Persisting, Document, Call
  <2>2. d # w /\ d \in Live(source[j])
    BY <1>4, <2>1 DEF Fills, Live, Stored, Document
  <2>3. QED
    BY <1>7, <2>1, <2>2 DEF NoDuplicateYet, Fills, Document
<1>8. ASSUME UploadsKnow PROVE UploadsKnow'
  <2> SUFFICES ASSUME NEW j \in Job, pc'[j] \in {"lock_rows", "supersede_scan",
                      "supersede_rows", "numbering", "inserting"}
               PROVE  /\ pc'[j] = pc[j] /\ source'[j] = source[j] /\ version'[j] = version[j]
                      /\ Stored(source[j])' = Stored(source[j])
    BY <1>2, <1>8 DEF UploadsKnow, Active, Fills, Stored, Document
  <2>1. j # w
    BY CallsDisjoint DEF Fills
  <2>2. QED
    BY <1>4, <2>1 DEF Fills, Document, Call
<1>9. QED
  BY <1>1, <1>5, <1>6, <1>7, <1>8

\* Nor does it disturb the jobs that have found a duplicate or are settled.
LEMMA FillsKeepsDuplicates ==
  ASSUME TypeOK, Begun, JobFollowsCall, NEW w \in Document, Fills(w)
  PROVE  \A j \in Job :
            /\ pc'[j] = "skipping" =>
                  duplicate'[j] \in Stored(source[j])' /\ hash'[duplicate'[j]] = hash'[j]
            /\ j # w => pc'[j] = pc[j]
<1> SUFFICES ASSUME NEW j \in Job, j # w, pc[j] = "skipping"
             PROVE  duplicate'[j] \in Stored(source[j])' /\ hash'[duplicate'[j]] = hash'[j]
  BY DEF Fills, Document, Call
<1>1. /\ duplicate[j] \in Stored(source[j]) /\ hash[duplicate[j]] = hash[j]
      /\ duplicate[j] # w
  BY DEF JobFollowsCall, Fills, Stored
<1>2. QED
  BY <1>1 DEF Fills, Stored, Document

LEMMA FillsKeepsSettled ==
  ASSUME TypeOK, Begun, JobMatchesDocument, NEW w \in Restorer, Fills(w), job' = job
  PROVE  JobMatchesDocument'
<1> SUFFICES ASSUME NEW j \in Job
             PROVE  /\ job[j] = "success" <=> status[j] # "absent"
                    /\ job[j] = "success" => jobDocument[j] = j
                    /\ job[j] = "skipped_duplicate" =>
                          /\ jobDocument[j] \in Stored(source[j])'
                          /\ hash'[jobDocument[j]] = hash'[j]
  BY DEF JobMatchesDocument, Fills
<1>1. j # w
  BY CallsDisjoint
<1>2. job[j] = "skipped_duplicate" =>
         jobDocument[j] \in Stored(source[j]) /\ jobDocument[j] # w
  BY DEF JobMatchesDocument, Stored, Fills
<1>3. QED
  BY <1>1, <1>2 DEF JobMatchesDocument, Stored, Fills, Document

\* Stored documents stay stored, and their columns never change.
LEMMA KeptStep ==
  ASSUME TypeOK, Begun, RowsHeld, [Next]_vars
  PROVE  Kept
<1> USE CallsDisjoint, NoneIsNoValue DEF TypeOK, Call, Document, Persisting, Over, Goto,
   row, table, locks, vars, Begun, RowsHeld, Kept
<1>1. ASSUME NEW j \in Job, NEW s \in Source, CreateJob(j, s) PROVE Kept
  BY <1>1 DEF CreateJob
<1>2. ASSUME NEW j \in Job, MarkRunning(j) PROVE Kept
  BY <1>2 DEF MarkRunning
<1>3. ASSUME NEW j \in Job, NEW h \in Hash, ParseReturns(j, h) PROVE Kept
  BY <1>3 DEF ParseReturns
<1>4. ASSUME NEW j \in Job, ParseRaises(j) PROVE Kept
  BY <1>4 DEF ParseRaises
<1>5. ASSUME NEW j \in Job, AcquireLock(j) PROVE Kept
  BY <1>5 DEF AcquireLock
<1>6. ASSUME NEW j \in Job, FindDuplicate(j) PROVE Kept
  BY <1>6 DEF FindDuplicate
<1>7. ASSUME NEW j \in Job, FindNoDuplicate(j) PROVE Kept
  BY <1>7 DEF FindNoDuplicate
<1>8. ASSUME NEW j \in Job, NEW next \in {"done", "failing"}, CommitSkipped(j, next)
      PROVE Kept
  BY <1>8 DEF CommitSkipped, Release
<1>9. ASSUME NEW j \in Job, NEW next \in {"done", "failing"}, CommitIngest(j, next)
      PROVE Kept
  BY <1>9 DEF CommitIngest, Supersede, Release
<1>10. ASSUME NEW j \in Job, LockScan(j) PROVE Kept
  BY <1>10 DEF LockScan, PickActive
<1>11. ASSUME NEW j \in Job, LockRows(j) PROVE Kept
  BY <1>11 DEF LockRows, LockPicked
<1>12. ASSUME NEW j \in Job, MarkFailed(j) PROVE Kept
  BY <1>12 DEF MarkFailed
<1>13. ASSUME NEW w \in Document, NextVersion(w) PROVE Kept
  BY <1>13 DEF NextVersion
<1>14. ASSUME NEW w \in Document, SupersedeScan(w) PROVE Kept
  BY <1>14 DEF SupersedeScan, PickActive
<1>15. ASSUME NEW w \in Document, SupersedeRows(w) PROVE Kept
  BY <1>15 DEF SupersedeRows, LockPicked
<1>16. ASSUME NEW w \in Document, InsertRow(w) PROVE Kept
  BY <1>16 DEF InsertRow
<1>17. ASSUME NEW w \in Document, InsertViolates(w) PROVE Kept
  BY <1>17 DEF InsertViolates, Rollback, Release
<1>18. ASSUME NEW r \in Restorer, NEW d \in Document, RestoreBegins(r, d) PROVE Kept
  BY <1>18 DEF RestoreBegins
<1>19. ASSUME NEW r \in Restorer, CommitRestore(r) PROVE Kept
  BY <1>19 DEF CommitRestore, Supersede, Release
<1>20. ASSUME NEW x \in Remover, NEW d \in Document, DeleteBegins(x, d) PROVE Kept
  BY <1>20 DEF DeleteBegins
<1>21. ASSUME NEW x \in Remover, DeleteRows(x) PROVE Kept
  BY <1>21 DEF DeleteRows, Unblocked
<1>22. ASSUME NEW x \in Remover, CommitDelete(x) PROVE Kept
  BY <1>22 DEF CommitDelete, Release
<1>23. CASE Fault
  BY <1>23 DEF Fault, MarkRunningRaises, PersistRaises, MarkFailedIsLost, RestoreRaises,
     DeleteRaises, Abandon, Rollback, Release
<1>24. CASE AllOver \/ UNCHANGED vars
  BY <1>24 DEF AllOver
<1>25. QED
  BY <1>1, <1>2, <1>3, <1>4, <1>5, <1>6, <1>7, <1>8, <1>9, <1>10, <1>11, <1>12, <1>13,
     <1>14, <1>15, <1>16, <1>17, <1>18, <1>19, <1>20, <1>21, <1>22, <1>23, <1>24 DEF Next,
     IngestStep, WriteStep, DeleteStep

\* Only commits change the tables.
LEMMA TableStep ==
  ASSUME TypeOK, [Next]_vars
  PROVE  Tables
<1> USE CallsDisjoint, NoneIsNoValue DEF TypeOK, Call, Document, Persisting, Over, Goto,
   row, table, locks, vars, Tables
<1>1. ASSUME NEW j \in Job, NEW s \in Source, CreateJob(j, s) PROVE Tables
  BY <1>1 DEF CreateJob
<1>2. ASSUME NEW j \in Job, MarkRunning(j) PROVE Tables
  BY <1>2 DEF MarkRunning
<1>3. ASSUME NEW j \in Job, NEW h \in Hash, ParseReturns(j, h) PROVE Tables
  BY <1>3 DEF ParseReturns
<1>4. ASSUME NEW j \in Job, ParseRaises(j) PROVE Tables
  BY <1>4 DEF ParseRaises
<1>5. ASSUME NEW j \in Job, AcquireLock(j) PROVE Tables
  BY <1>5 DEF AcquireLock
<1>6. ASSUME NEW j \in Job, FindDuplicate(j) PROVE Tables
  BY <1>6 DEF FindDuplicate
<1>7. ASSUME NEW j \in Job, FindNoDuplicate(j) PROVE Tables
  BY <1>7 DEF FindNoDuplicate
<1>8. ASSUME NEW j \in Job, NEW next \in {"done", "failing"}, CommitSkipped(j, next)
      PROVE Tables
  BY <1>8 DEF CommitSkipped, Release
<1>9. ASSUME NEW j \in Job, NEW next \in {"done", "failing"}, CommitIngest(j, next)
      PROVE Tables
  BY <1>9 DEF CommitIngest, Commits
<1>10. ASSUME NEW j \in Job, LockScan(j) PROVE Tables
  BY <1>10 DEF LockScan, PickActive
<1>11. ASSUME NEW j \in Job, LockRows(j) PROVE Tables
  BY <1>11 DEF LockRows, LockPicked
<1>12. ASSUME NEW j \in Job, MarkFailed(j) PROVE Tables
  BY <1>12 DEF MarkFailed
<1>13. ASSUME NEW w \in Document, NextVersion(w) PROVE Tables
  BY <1>13 DEF NextVersion
<1>14. ASSUME NEW w \in Document, SupersedeScan(w) PROVE Tables
  BY <1>14 DEF SupersedeScan, PickActive
<1>15. ASSUME NEW w \in Document, SupersedeRows(w) PROVE Tables
  BY <1>15 DEF SupersedeRows, LockPicked
<1>16. ASSUME NEW w \in Document, InsertRow(w) PROVE Tables
  BY <1>16 DEF InsertRow
<1>17. ASSUME NEW w \in Document, InsertViolates(w) PROVE Tables
  BY <1>17 DEF InsertViolates, Rollback, Release
<1>18. ASSUME NEW r \in Restorer, NEW d \in Document, RestoreBegins(r, d) PROVE Tables
  BY <1>18 DEF RestoreBegins
<1>19. ASSUME NEW r \in Restorer, CommitRestore(r) PROVE Tables
  BY <1>19 DEF CommitRestore, Commits
<1>20. ASSUME NEW x \in Remover, NEW d \in Document, DeleteBegins(x, d) PROVE Tables
  BY <1>20 DEF DeleteBegins
<1>21. ASSUME NEW x \in Remover, DeleteRows(x) PROVE Tables
  BY <1>21 DEF DeleteRows, Unblocked
<1>22. ASSUME NEW x \in Remover, CommitDelete(x) PROVE Tables
  BY <1>22
<1>23. CASE Fault
  BY <1>23 DEF Fault, MarkRunningRaises, PersistRaises, MarkFailedIsLost, RestoreRaises,
     DeleteRaises, Abandon, Rollback, Release
<1>24. CASE AllOver \/ UNCHANGED vars
  BY <1>24 DEF AllOver
<1>25. QED
  BY <1>1, <1>2, <1>3, <1>4, <1>5, <1>6, <1>7, <1>8, <1>9, <1>10, <1>11, <1>12, <1>13,
     <1>14, <1>15, <1>16, <1>17, <1>18, <1>19, <1>20, <1>21, <1>22, <1>23, <1>24 DEF Next,
     IngestStep, WriteStep, DeleteStep

\* A document is stored by the last step of its call's transaction.
LEMMA BegunStep ==
  ASSUME TypeOK, Begun, RowsHeld, [Next]_vars
  PROVE  Begun'
<1> USE CallsDisjoint, NoneIsNoValue DEF TypeOK, Call, Document, Persisting, Over, Goto,
   row, table, locks, vars, Begun, RowsHeld
<1>1. ASSUME NEW j \in Job, NEW s \in Source, CreateJob(j, s) PROVE Begun'
  BY <1>1 DEF CreateJob
<1>2. ASSUME NEW j \in Job, MarkRunning(j) PROVE Begun'
  BY <1>2 DEF MarkRunning
<1>3. ASSUME NEW j \in Job, NEW h \in Hash, ParseReturns(j, h) PROVE Begun'
  BY <1>3 DEF ParseReturns
<1>4. ASSUME NEW j \in Job, ParseRaises(j) PROVE Begun'
  BY <1>4 DEF ParseRaises
<1>5. ASSUME NEW j \in Job, AcquireLock(j) PROVE Begun'
  BY <1>5 DEF AcquireLock
<1>6. ASSUME NEW j \in Job, FindDuplicate(j) PROVE Begun'
  BY <1>6 DEF FindDuplicate
<1>7. ASSUME NEW j \in Job, FindNoDuplicate(j) PROVE Begun'
  BY <1>7 DEF FindNoDuplicate
<1>8. ASSUME NEW j \in Job, NEW next \in {"done", "failing"}, CommitSkipped(j, next)
      PROVE Begun'
  BY <1>8 DEF CommitSkipped, Release
<1>9. ASSUME NEW j \in Job, NEW next \in {"done", "failing"}, CommitIngest(j, next)
      PROVE Begun'
  BY <1>9 DEF CommitIngest, Supersede, Release
<1>10. ASSUME NEW j \in Job, LockScan(j) PROVE Begun'
  BY <1>10 DEF LockScan, PickActive
<1>11. ASSUME NEW j \in Job, LockRows(j) PROVE Begun'
  BY <1>11 DEF LockRows, LockPicked
<1>12. ASSUME NEW j \in Job, MarkFailed(j) PROVE Begun'
  BY <1>12 DEF MarkFailed
<1>13. ASSUME NEW w \in Document, NextVersion(w) PROVE Begun'
  BY <1>13 DEF NextVersion
<1>14. ASSUME NEW w \in Document, SupersedeScan(w) PROVE Begun'
  BY <1>14 DEF SupersedeScan, PickActive
<1>15. ASSUME NEW w \in Document, SupersedeRows(w) PROVE Begun'
  BY <1>15 DEF SupersedeRows, LockPicked
<1>16. ASSUME NEW w \in Document, InsertRow(w) PROVE Begun'
  BY <1>16 DEF InsertRow
<1>17. ASSUME NEW w \in Document, InsertViolates(w) PROVE Begun'
  BY <1>17 DEF InsertViolates, Rollback, Release
<1>18. ASSUME NEW r \in Restorer, NEW d \in Document, RestoreBegins(r, d) PROVE Begun'
  BY <1>18 DEF RestoreBegins
<1>19. ASSUME NEW r \in Restorer, CommitRestore(r) PROVE Begun'
  BY <1>19 DEF CommitRestore, Supersede, Release
<1>20. ASSUME NEW x \in Remover, NEW d \in Document, DeleteBegins(x, d) PROVE Begun'
  BY <1>20 DEF DeleteBegins
<1>21. ASSUME NEW x \in Remover, DeleteRows(x) PROVE Begun'
  BY <1>21 DEF DeleteRows, Unblocked
<1>22. ASSUME NEW x \in Remover, CommitDelete(x) PROVE Begun'
  BY <1>22 DEF CommitDelete, Release
<1>23. CASE Fault
  BY <1>23 DEF Fault, MarkRunningRaises, PersistRaises, MarkFailedIsLost, RestoreRaises,
     DeleteRaises, Abandon, Rollback, Release
<1>24. CASE AllOver \/ UNCHANGED vars
  BY <1>24 DEF AllOver
<1>25. QED
  BY <1>1, <1>2, <1>3, <1>4, <1>5, <1>6, <1>7, <1>8, <1>9, <1>10, <1>11, <1>12, <1>13,
     <1>14, <1>15, <1>16, <1>17, <1>18, <1>19, <1>20, <1>21, <1>22, <1>23, <1>24 DEF Next,
     IngestStep, WriteStep, DeleteStep

\* The advisory lock is granted when free and given back with the transaction.
LEMMA LockHeldStep ==
  ASSUME TypeOK, Begun, LockHeld, [Next]_vars
  PROVE  LockHeld'
<1> USE CallsDisjoint, NoneIsNoValue DEF TypeOK, Call, Document, Persisting, Over, Goto,
   row, table, locks, vars, Begun, LockHeld
<1>1. ASSUME NEW j \in Job, NEW s \in Source, CreateJob(j, s) PROVE LockHeld'
  BY <1>1 DEF CreateJob
<1>2. ASSUME NEW j \in Job, MarkRunning(j) PROVE LockHeld'
  BY <1>2 DEF MarkRunning
<1>3. ASSUME NEW j \in Job, NEW h \in Hash, ParseReturns(j, h) PROVE LockHeld'
  BY <1>3 DEF ParseReturns
<1>4. ASSUME NEW j \in Job, ParseRaises(j) PROVE LockHeld'
  BY <1>4 DEF ParseRaises
<1>5. ASSUME NEW j \in Job, AcquireLock(j) PROVE LockHeld'
  BY <1>5 DEF AcquireLock
<1>6. ASSUME NEW j \in Job, FindDuplicate(j) PROVE LockHeld'
  BY <1>6 DEF FindDuplicate
<1>7. ASSUME NEW j \in Job, FindNoDuplicate(j) PROVE LockHeld'
  BY <1>7 DEF FindNoDuplicate
<1>8. ASSUME NEW j \in Job, NEW next \in {"done", "failing"}, CommitSkipped(j, next)
      PROVE LockHeld'
  BY <1>8 DEF CommitSkipped, Release
<1>9. ASSUME NEW j \in Job, NEW next \in {"done", "failing"}, CommitIngest(j, next)
      PROVE LockHeld'
  BY <1>9 DEF CommitIngest, Supersede, Release
<1>10. ASSUME NEW j \in Job, LockScan(j) PROVE LockHeld'
  BY <1>10 DEF LockScan, PickActive
<1>11. ASSUME NEW j \in Job, LockRows(j) PROVE LockHeld'
  BY <1>11 DEF LockRows, LockPicked
<1>12. ASSUME NEW j \in Job, MarkFailed(j) PROVE LockHeld'
  BY <1>12 DEF MarkFailed
<1>13. ASSUME NEW w \in Document, NextVersion(w) PROVE LockHeld'
  BY <1>13 DEF NextVersion
<1>14. ASSUME NEW w \in Document, SupersedeScan(w) PROVE LockHeld'
  BY <1>14 DEF SupersedeScan, PickActive
<1>15. ASSUME NEW w \in Document, SupersedeRows(w) PROVE LockHeld'
  BY <1>15 DEF SupersedeRows, LockPicked
<1>16. ASSUME NEW w \in Document, InsertRow(w) PROVE LockHeld'
  BY <1>16 DEF InsertRow
<1>17. ASSUME NEW w \in Document, InsertViolates(w) PROVE LockHeld'
  BY <1>17 DEF InsertViolates, Rollback, Release
<1>18. ASSUME NEW r \in Restorer, NEW d \in Document, RestoreBegins(r, d) PROVE LockHeld'
  BY <1>18 DEF RestoreBegins
<1>19. ASSUME NEW r \in Restorer, CommitRestore(r) PROVE LockHeld'
  BY <1>19 DEF CommitRestore, Supersede, Release
<1>20. ASSUME NEW x \in Remover, NEW d \in Document, DeleteBegins(x, d) PROVE LockHeld'
  BY <1>20 DEF DeleteBegins
<1>21. ASSUME NEW x \in Remover, DeleteRows(x) PROVE LockHeld'
  BY <1>21 DEF DeleteRows, Unblocked
<1>22. ASSUME NEW x \in Remover, CommitDelete(x) PROVE LockHeld'
  BY <1>22 DEF CommitDelete, Release
<1>23. CASE Fault
  BY <1>23 DEF Fault, MarkRunningRaises, PersistRaises, MarkFailedIsLost, RestoreRaises,
     DeleteRaises, Abandon, Rollback, Release
<1>24. CASE AllOver \/ UNCHANGED vars
  BY <1>24 DEF AllOver
<1>25. QED
  BY <1>1, <1>2, <1>3, <1>4, <1>5, <1>6, <1>7, <1>8, <1>9, <1>10, <1>11, <1>12, <1>13,
     <1>14, <1>15, <1>16, <1>17, <1>18, <1>19, <1>20, <1>21, <1>22, <1>23, <1>24 DEF Next,
     IngestStep, WriteStep, DeleteStep

\* A remover locks what no other transaction holds.
LEMMA DeleteRowsHolds ==
  ASSUME TypeOK, RowsHeld, RowsPicked, NEW x \in Remover, DeleteRows(x)
  PROVE  RowsHeld'
<1>1. /\ UNCHANGED <<status, source>>
      /\ \A c \in Call \ {x} : pc'[c] = pc[c] /\ held'[c] = held[c]
      /\ pc'[x] # "idle"
      /\ held'[x] = {d \in target[x] : status[d] # "deleted"}
  BY DEF DeleteRows, TypeOK, row, table, Goto, Call
<1>2. \A c \in Call \ {x} : held[c] \cap held'[x] = {}
  BY <1>1 DEF DeleteRows, Unblocked
<1>3. \A c, e \in Call : c # e => held'[c] \cap held'[e] = {}
  BY <1>1, <1>2 DEF RowsHeld
<1>4. \A d \in held'[x] : status[d] \in {"active", "superseded"}
  BY <1>1 DEF DeleteRows, Goto, RowsPicked, TypeOK, RowStatus
<1>5. \A w \in Document : w \in Call \ {x}
  BY CallsDisjoint DEF Document, Call
<1>6. QED
  BY <1>1, <1>3, <1>4, <1>5 DEF RowsHeld, Call

\* A fault only shrinks what calls hold.
LEMMA QuitsHolds == ASSUME RowsHeld, Quits PROVE RowsHeld'
<1>1. \A c \in Call : held'[c] \subseteq held[c] /\ (pc'[c] = "idle" => pc[c] = "idle")
  BY DEF Quits, Over
<1>2. QED
  BY <1>1 DEF Quits, RowsHeld, row, table, Call, Document

\* Locks are taken only on rows nobody holds, and rows in other hands never change.
LEMMA RowsHeldStep ==
  ASSUME TypeOK, Begun, RowsHeld, RowsPicked, [Next]_vars
  PROVE  RowsHeld'
<1>1. ASSUME NEW j \in Job, NEW s \in Source, CreateJob(j, s) PROVE RowsHeld'
  BY <1>1, FillsStep, FillsKeeps DEF Document
<1>3. ASSUME NEW j \in Job, NEW h \in Hash, ParseReturns(j, h) PROVE RowsHeld'
  BY <1>3, FillsStep, FillsKeeps DEF Document
<1>18. ASSUME NEW r \in Restorer, NEW d \in Document, RestoreBegins(r, d)
       PROVE  RowsHeld'
  BY <1>18, FillsStep, FillsKeeps DEF Document
<1> USE CallsDisjoint, NoneIsNoValue DEF TypeOK, Call, Document, Persisting, Over, Goto,
   row, table, locks, vars, Begun, RowsHeld, RowsPicked, Stored, Active, Unblocked
<1>2. ASSUME NEW j \in Job, MarkRunning(j) PROVE RowsHeld'
  BY <1>2 DEF MarkRunning
<1>4. ASSUME NEW j \in Job, ParseRaises(j) PROVE RowsHeld'
  BY <1>4 DEF ParseRaises
<1>5. ASSUME NEW j \in Job, AcquireLock(j) PROVE RowsHeld'
  BY <1>5 DEF AcquireLock
<1>6. ASSUME NEW j \in Job, FindDuplicate(j) PROVE RowsHeld'
  BY <1>6 DEF FindDuplicate
<1>7. ASSUME NEW j \in Job, FindNoDuplicate(j) PROVE RowsHeld'
  BY <1>7 DEF FindNoDuplicate
<1>8. ASSUME NEW j \in Job, NEW next \in {"done", "failing"}, CommitSkipped(j, next)
      PROVE RowsHeld'
  BY <1>8 DEF CommitSkipped, Release
<1>9. ASSUME NEW j \in Job, NEW next \in {"done", "failing"}, CommitIngest(j, next)
      PROVE RowsHeld'
  BY <1>9 DEF CommitIngest, Supersede, Release
<1>10. ASSUME NEW j \in Job, LockScan(j) PROVE RowsHeld'
  BY <1>10 DEF LockScan, PickActive
<1>11. ASSUME NEW j \in Job, LockRows(j) PROVE RowsHeld'
  BY <1>11 DEF LockRows, LockPicked
<1>12. ASSUME NEW j \in Job, MarkFailed(j) PROVE RowsHeld'
  BY <1>12 DEF MarkFailed
<1>13. ASSUME NEW w \in Document, NextVersion(w) PROVE RowsHeld'
  BY <1>13 DEF NextVersion
<1>14. ASSUME NEW w \in Document, SupersedeScan(w) PROVE RowsHeld'
  BY <1>14 DEF SupersedeScan, PickActive
<1>15. ASSUME NEW w \in Document, SupersedeRows(w) PROVE RowsHeld'
  BY <1>15 DEF SupersedeRows, LockPicked
<1>16. ASSUME NEW w \in Document, InsertRow(w) PROVE RowsHeld'
  BY <1>16 DEF InsertRow
<1>17. ASSUME NEW w \in Document, InsertViolates(w) PROVE RowsHeld'
  BY <1>17 DEF InsertViolates, Rollback, Release
<1>19. ASSUME NEW r \in Restorer, CommitRestore(r) PROVE RowsHeld'
  BY <1>19 DEF CommitRestore, Supersede, Release
<1>20. ASSUME NEW x \in Remover, NEW d \in Document, DeleteBegins(x, d) PROVE RowsHeld'
  BY <1>20 DEF DeleteBegins
<1>21. ASSUME NEW x \in Remover, DeleteRows(x) PROVE RowsHeld'
  BY <1>21, DeleteRowsHolds
<1>22. ASSUME NEW x \in Remover, CommitDelete(x) PROVE RowsHeld'
  BY <1>22 DEF CommitDelete, Release
<1>23. CASE Fault
  BY <1>23, FaultStep, QuitsHolds
<1>24. CASE AllOver \/ UNCHANGED vars
  BY <1>24 DEF AllOver
<1> HIDE DEF TypeOK, Call, Document, Persisting, Over, Goto,
   row, table, locks, vars, Begun, RowsHeld, RowsPicked, Stored, Active, Unblocked
<1>25. QED
  BY <1>1, <1>2, <1>3, <1>4, <1>5, <1>6, <1>7, <1>8, <1>9, <1>10, <1>11, <1>12, <1>13,
     <1>14, <1>15, <1>16, <1>17, <1>18, <1>19, <1>20, <1>21, <1>22, <1>23, <1>24 DEF Next,
     IngestStep, WriteStep, DeleteStep

\* A fault leaves no running statement behind.
LEMMA QuitsPicked == ASSUME RowsPicked, Quits PROVE RowsPicked'
<1>1. \A c \in Call : pc'[c] \in {"lock_rows", "supersede_rows", "delete_rows", "deleting"} =>
                        UNCHANGED <<pc[c], held[c], target[c]>>
  BY DEF Quits, Over
<1>2. UNCHANGED <<status, source>>
  BY DEF Quits, row, table
<1>3. \A s : Stored(s)' = Stored(s)
  BY <1>2 DEF Stored
<1>4. ASSUME NEW w \in Document, pc'[w] \in {"lock_rows", "supersede_rows"}
      PROVE target'[w] \subseteq Stored(source[w])'
  BY <1>1, <1>2, <1>4 DEF RowsPicked, Call, Stored
<1>5. ASSUME NEW x \in Remover
      PROVE  /\ pc'[x] \in {"delete_rows", "deleting"} =>
                    \E d \in Document : target'[x] = {d} /\ status'[d] # "absent"
             /\ pc'[x] = "deleting" =>
                /\ held'[x] \subseteq target'[x]
                /\ \A d \in target'[x] \ held'[x] : status'[d] = "deleted"
  BY <1>1, <1>2 DEF RowsPicked, Call
<1>6. QED
  BY <1>4, <1>5 DEF RowsPicked

\* A commit keeps what other statements have picked.
LEMMA CommitsKeeps ==
  ASSUME TypeOK, Begun, RowsHeld, NEW w \in Document, Commits(w)
  PROVE  \A d \in Document :
            /\ status[d] # "absent" => status'[d] # "absent"
            /\ status[d] = "deleted" => status'[d] = "deleted"
<1>1. status[w] = "absent"
  BY DEF Commits, Begun, Over
<1>2. \A d \in held[w] : status[d] = "active"
  BY DEF RowsHeld
<1>3. QED
  BY <1>1, <1>2 DEF Commits, Supersede, TypeOK

\* Picked rows are stored rows; a remover finds its row locked by itself or deleted.
LEMMA RowsPickedStep ==
  ASSUME TypeOK, Begun, RowsHeld, RowsPicked, [Next]_vars
  PROVE  RowsPicked'
<1>1. ASSUME NEW j \in Job, NEW s \in Source, CreateJob(j, s) PROVE RowsPicked'
  BY <1>1, FillsStep, FillsKeeps DEF Document
<1>3. ASSUME NEW j \in Job, NEW h \in Hash, ParseReturns(j, h) PROVE RowsPicked'
  BY <1>3, FillsStep, FillsKeeps DEF Document
<1>18. ASSUME NEW r \in Restorer, NEW d \in Document, RestoreBegins(r, d)
       PROVE  RowsPicked'
  BY <1>18, FillsStep, FillsKeeps DEF Document
<1> USE CallsDisjoint, NoneIsNoValue DEF TypeOK, Call, Document, Persisting, Over, Goto,
   row, table, locks, vars, Begun, RowsHeld, RowsPicked, Stored, Active, Unblocked
<1>2. ASSUME NEW j \in Job, MarkRunning(j) PROVE RowsPicked'
  BY <1>2 DEF MarkRunning
<1>4. ASSUME NEW j \in Job, ParseRaises(j) PROVE RowsPicked'
  BY <1>4 DEF ParseRaises
<1>5. ASSUME NEW j \in Job, AcquireLock(j) PROVE RowsPicked'
  BY <1>5 DEF AcquireLock
<1>6. ASSUME NEW j \in Job, FindDuplicate(j) PROVE RowsPicked'
  BY <1>6 DEF FindDuplicate
<1>7. ASSUME NEW j \in Job, FindNoDuplicate(j) PROVE RowsPicked'
  BY <1>7 DEF FindNoDuplicate
<1>8. ASSUME NEW j \in Job, NEW next \in {"done", "failing"}, CommitSkipped(j, next)
      PROVE RowsPicked'
  BY <1>8 DEF CommitSkipped, Release
<1>9. ASSUME NEW j \in Job, NEW next \in {"done", "failing"}, CommitIngest(j, next)
      PROVE RowsPicked'
  <2>1. \A d \in Document :
            /\ status[d] # "absent" => status'[d] # "absent"
            /\ status[d] = "deleted" => status'[d] = "deleted"
    BY <1>9, CommitsKeeps DEF CommitIngest, Commits
  <2>2. /\ pc' = [pc EXCEPT ![j] = next] /\ UNCHANGED source
        /\ held' = [held EXCEPT ![j] = {}] /\ target' = [target EXCEPT ![j] = {}]
    BY <1>9 DEF CommitIngest, Release
  <2>3. QED
    BY <2>1, <2>2
<1>10. ASSUME NEW j \in Job, LockScan(j) PROVE RowsPicked'
  BY <1>10 DEF LockScan, PickActive
<1>11. ASSUME NEW j \in Job, LockRows(j) PROVE RowsPicked'
  BY <1>11 DEF LockRows, LockPicked
<1>12. ASSUME NEW j \in Job, MarkFailed(j) PROVE RowsPicked'
  BY <1>12 DEF MarkFailed
<1>13. ASSUME NEW w \in Document, NextVersion(w) PROVE RowsPicked'
  BY <1>13 DEF NextVersion
<1>14. ASSUME NEW w \in Document, SupersedeScan(w) PROVE RowsPicked'
  BY <1>14 DEF SupersedeScan, PickActive
<1>15. ASSUME NEW w \in Document, SupersedeRows(w) PROVE RowsPicked'
  BY <1>15 DEF SupersedeRows, LockPicked
<1>16. ASSUME NEW w \in Document, InsertRow(w) PROVE RowsPicked'
  BY <1>16 DEF InsertRow
<1>17. ASSUME NEW w \in Document, InsertViolates(w) PROVE RowsPicked'
  BY <1>17 DEF InsertViolates, Rollback, Release
<1>19. ASSUME NEW r \in Restorer, CommitRestore(r) PROVE RowsPicked'
  <2>1. \A d \in Document :
            /\ status[d] # "absent" => status'[d] # "absent"
            /\ status[d] = "deleted" => status'[d] = "deleted"
    BY <1>19, CommitsKeeps DEF CommitRestore, Commits
  <2>2. /\ pc' = [pc EXCEPT ![r] = "done"] /\ UNCHANGED source
        /\ held' = [held EXCEPT ![r] = {}] /\ target' = [target EXCEPT ![r] = {}]
    BY <1>19 DEF CommitRestore, Release
  <2>3. QED
    BY <2>1, <2>2
<1>20. ASSUME NEW x \in Remover, NEW d \in Document, DeleteBegins(x, d) PROVE RowsPicked'
  BY <1>20 DEF DeleteBegins
<1>21. ASSUME NEW x \in Remover, DeleteRows(x) PROVE RowsPicked'
  BY <1>21 DEF DeleteRows, Unblocked
<1>22. ASSUME NEW x \in Remover, CommitDelete(x) PROVE RowsPicked'
  BY <1>22 DEF CommitDelete, Release
<1>23. CASE Fault
  BY <1>23, FaultStep, QuitsPicked
<1>24. CASE AllOver \/ UNCHANGED vars
  BY <1>24 DEF AllOver
<1> HIDE DEF TypeOK, Call, Document, Persisting, Over, Goto,
   row, table, locks, vars, Begun, RowsHeld, RowsPicked, Stored, Active, Unblocked
<1>25. QED
  BY <1>1, <1>2, <1>3, <1>4, <1>5, <1>6, <1>7, <1>8, <1>9, <1>10, <1>11, <1>12, <1>13,
     <1>14, <1>15, <1>16, <1>17, <1>18, <1>19, <1>20, <1>21, <1>22, <1>23, <1>24 DEF Next,
     IngestStep, WriteStep, DeleteStep

\* Documents and chunks change together: a row held by a committing transaction
\* is active, its chunks too; a deletion that holds no row finds it deleted.
LEMMA ChunksStep ==
  ASSUME TypeOK, Begun, RowsHeld, RowsPicked, ChunksFollowDocument, Tables
  PROVE  ChunksFollowDocument'
<1> USE DEF ChunksFollowDocument
<1>1. CASE UNCHANGED table
  BY <1>1 DEF table
<1>2. ASSUME NEW w \in Document, Commits(w) PROVE ChunksFollowDocument'
  BY <1>2 DEF Commits, Supersede, RowsHeld
<1>3. ASSUME NEW x \in Remover, CommitDelete(x) PROVE ChunksFollowDocument'
  <2>1. held[x] \subseteq target[x] /\ \A d \in target[x] \ held[x] : status[d] = "deleted"
    BY <1>3 DEF CommitDelete, Goto, RowsPicked
  <2>2. QED
    BY <1>3, <2>1 DEF CommitDelete
<1>4. QED
  BY <1>1, <1>2, <1>3 DEF Tables

\* Whoever has a number has just computed it or had it before.
NumberedBefore(w) == NextVersion(w) \/ (Numbered(w) /\ UNCHANGED <<source[w], version[w]>>)

LEMMA NumberedStep ==
  ASSUME TypeOK, [Next]_vars, NEW w \in Document, Numbered(w)'
  PROVE  NumberedBefore(w)
<1> USE CallsDisjoint DEF NumberedBefore, Numbered, TypeOK, Call, Document, Over, Goto, row,
   table,
            vars
<1>1. ASSUME NEW j \in Job, NEW s \in Source, CreateJob(j, s) PROVE  NumberedBefore(w)
  BY <1>1 DEF CreateJob
<1>2. ASSUME NEW j \in Job, MarkRunning(j) PROVE  NumberedBefore(w)
  BY <1>2 DEF MarkRunning
<1>3. ASSUME NEW j \in Job, NEW h \in Hash, ParseReturns(j, h) PROVE  NumberedBefore(w)
  BY <1>3 DEF ParseReturns
<1>4. ASSUME NEW j \in Job, ParseRaises(j) PROVE  NumberedBefore(w)
  BY <1>4 DEF ParseRaises
<1>5. ASSUME NEW j \in Job, AcquireLock(j) PROVE  NumberedBefore(w)
  BY <1>5 DEF AcquireLock
<1>6. ASSUME NEW j \in Job, FindDuplicate(j) PROVE  NumberedBefore(w)
  BY <1>6 DEF FindDuplicate
<1>7. ASSUME NEW j \in Job, FindNoDuplicate(j) PROVE  NumberedBefore(w)
  BY <1>7 DEF FindNoDuplicate
<1>8. ASSUME NEW j \in Job, NEW next \in {"done", "failing"}, CommitSkipped(j, next)
      PROVE  NumberedBefore(w)
  BY <1>8 DEF CommitSkipped, Release
<1>9. ASSUME NEW j \in Job, NEW next \in {"done", "failing"}, CommitIngest(j, next)
      PROVE  NumberedBefore(w)
  BY <1>9 DEF CommitIngest, Supersede, Release
<1>10. ASSUME NEW j \in Job, LockScan(j) PROVE  NumberedBefore(w)
  BY <1>10 DEF LockScan, PickActive
<1>11. ASSUME NEW j \in Job, LockRows(j) PROVE  NumberedBefore(w)
  BY <1>11 DEF LockRows, LockPicked
<1>12. ASSUME NEW j \in Job, MarkFailed(j) PROVE  NumberedBefore(w)
  BY <1>12 DEF MarkFailed
<1>13. ASSUME NEW v \in Document, NextVersion(v) PROVE  NumberedBefore(w)
  BY <1>13 DEF NextVersion
<1>14. ASSUME NEW v \in Document, SupersedeScan(v) PROVE  NumberedBefore(w)
  BY <1>14 DEF SupersedeScan, PickActive
<1>15. ASSUME NEW v \in Document, SupersedeRows(v) PROVE  NumberedBefore(w)
  BY <1>15 DEF SupersedeRows, LockPicked
<1>16. ASSUME NEW v \in Document, InsertRow(v) PROVE  NumberedBefore(w)
  BY <1>16 DEF InsertRow
<1>17. ASSUME NEW v \in Document, InsertViolates(v) PROVE  NumberedBefore(w)
  BY <1>17 DEF InsertViolates, Rollback, Release
<1>18. ASSUME NEW r \in Restorer, NEW d \in Document, RestoreBegins(r, d)
       PROVE  NumberedBefore(w)
  BY <1>18 DEF RestoreBegins
<1>19. ASSUME NEW r \in Restorer, CommitRestore(r) PROVE  NumberedBefore(w)
  BY <1>19 DEF CommitRestore, Supersede, Release
<1>20. ASSUME NEW x \in Remover, NEW d \in Document, DeleteBegins(x, d)
       PROVE  NumberedBefore(w)
  BY <1>20 DEF DeleteBegins
<1>21. ASSUME NEW x \in Remover, DeleteRows(x) PROVE  NumberedBefore(w)
  BY <1>21 DEF DeleteRows, Unblocked
<1>22. ASSUME NEW x \in Remover, CommitDelete(x) PROVE  NumberedBefore(w)
  BY <1>22 DEF CommitDelete, Release
<1>23. CASE Fault
  BY <1>23 DEF Fault, MarkRunningRaises, PersistRaises, MarkFailedIsLost, RestoreRaises,
     DeleteRaises, Abandon, Rollback, Release
<1>24. CASE AllOver \/ UNCHANGED vars
  BY <1>24 DEF AllOver
<1>25. QED
  BY <1>1, <1>2, <1>3, <1>4, <1>5, <1>6, <1>7, <1>8, <1>9, <1>10, <1>11, <1>12, <1>13,
     <1>14, <1>15, <1>16, <1>17, <1>18, <1>19, <1>20, <1>21, <1>22, <1>23, <1>24 DEF Next,
     IngestStep, WriteStep, DeleteStep

\* Numbers below a computed one stay taken: stored rows stay.
LEMMA NumbersTakenStep ==
  ASSUME TypeOK, Begun, NumbersTaken, VersionsInOrder, Kept, [Next]_vars
  PROVE  NumbersTaken'
<1>1. ASSUME NEW w \in Document, Numbered(w)' PROVE NumberedBefore(w)
  BY <1>1, NumberedStep
<1>2. ASSUME NEW w \in Document, Numbered(w)', Numbered(w), UNCHANGED <<source[w], version[w]>>
      PROVE  /\ version'[w] > 0
             /\ \A n \in 1 .. version'[w] - 1 : \E x \in Stored(source[w])' : version'[x] = n
  BY <1>2 DEF NumbersTaken, Kept, Stored
<1>3. ASSUME NEW w \in Document, Numbered(w)', NextVersion(w)
      PROVE  /\ version'[w] > 0
             /\ \A n \in 1 .. version'[w] - 1 : \E x \in Stored(source[w])' : version'[x] = n
  <2>1. PICK m \in {0} \cup {version[d] : d \in Stored(source[w])} :
               version' = [version EXCEPT ![w] = m + 1]
    BY <1>3 DEF NextVersion
  <2>2. m \in Nat /\ version'[w] = m + 1
    BY <2>1 DEF TypeOK, Stored
  <2>3. ASSUME NEW n \in 1 .. m PROVE \E x \in Stored(source[w])' : version'[x] = n
    <3>1. PICK d \in Stored(source[w]) : version[d] = m
      BY <2>1, <2>2, <2>3
    <3>2. source[w] \in Source
      BY <3>1 DEF Stored, Begun, Over
    <3>3. PICK x \in Stored(source[w]) : version[x] = n
      BY <2>3, <3>1, <3>2 DEF VersionsInOrder
    <3>4. source' = source
      BY <1>3 DEF NextVersion
    <3>5. QED
      BY <3>3, <3>4 DEF Kept, Stored
  <2>4. QED
    BY <2>2, <2>3
<1>4. QED
  BY <1>1, <1>2, <1>3 DEF NumbersTaken, NumberedBefore
\* The unique index on the number and the taken numbers below it leave the inserted
\* row on top; the one on active rows and the row locks leave it the only writer.
LEMMA InsertedAloneStep ==
  ASSUME TypeOK, Begun, RowsHeld, NumbersTaken, VersionsInOrder, InsertedAlone, [Next]_vars
  PROVE  InsertedAlone'
<1>1. ASSUME NEW j \in Job, NEW s \in Source, CreateJob(j, s) PROVE InsertedAlone'
  BY <1>1, FillsStep, FillsKeeps DEF Document
<1>3. ASSUME NEW j \in Job, NEW h \in Hash, ParseReturns(j, h) PROVE InsertedAlone'
  BY <1>3, FillsStep, FillsKeeps DEF Document
<1>18. ASSUME NEW r \in Restorer, NEW d \in Document, RestoreBegins(r, d)
       PROVE  InsertedAlone'
  BY <1>18, FillsStep, FillsKeeps DEF Document
<1> USE CallsDisjoint, NoneIsNoValue DEF TypeOK, Call, Document, Persisting, Over, Goto,
   row, table, locks, vars, InsertedAlone, InsertInFlight, Violates, Begun, RowsHeld, Stored
<1>2. ASSUME NEW j \in Job, MarkRunning(j) PROVE InsertedAlone'
  BY <1>2 DEF MarkRunning
<1>4. ASSUME NEW j \in Job, ParseRaises(j) PROVE InsertedAlone'
  BY <1>4 DEF ParseRaises
<1>5. ASSUME NEW j \in Job, AcquireLock(j) PROVE InsertedAlone'
  BY <1>5 DEF AcquireLock
<1>6. ASSUME NEW j \in Job, FindDuplicate(j) PROVE InsertedAlone'
  BY <1>6 DEF FindDuplicate
<1>7. ASSUME NEW j \in Job, FindNoDuplicate(j) PROVE InsertedAlone'
  BY <1>7 DEF FindNoDuplicate
<1>8. ASSUME NEW j \in Job, NEW next \in {"done", "failing"}, CommitSkipped(j, next)
      PROVE InsertedAlone'
  BY <1>8 DEF CommitSkipped, Release
<1>9. ASSUME NEW j \in Job, NEW next \in {"done", "failing"}, CommitIngest(j, next)
      PROVE InsertedAlone'
  BY <1>9 DEF CommitIngest, Supersede, Release
<1>10. ASSUME NEW j \in Job, LockScan(j) PROVE InsertedAlone'
  BY <1>10 DEF LockScan, PickActive
<1>11. ASSUME NEW j \in Job, LockRows(j) PROVE InsertedAlone'
  BY <1>11 DEF LockRows, LockPicked
<1>12. ASSUME NEW j \in Job, MarkFailed(j) PROVE InsertedAlone'
  BY <1>12 DEF MarkFailed
<1>13. ASSUME NEW w \in Document, NextVersion(w) PROVE InsertedAlone'
  BY <1>13 DEF NextVersion
<1>14. ASSUME NEW w \in Document, SupersedeScan(w) PROVE InsertedAlone'
  BY <1>14 DEF SupersedeScan, PickActive
<1>15. ASSUME NEW w \in Document, SupersedeRows(w) PROVE InsertedAlone'
  BY <1>15 DEF SupersedeRows, LockPicked
<1>16. ASSUME NEW w \in Document, InsertRow(w) PROVE InsertedAlone'
  <2>1. ASSUME NEW d \in Stored(source[w]) PROVE version[d] < version[w]
    <3>1. version[d] # version[w]
      BY <1>16 DEF InsertRow
    <3>2. ~(version[w] < version[d])
      <4> SUFFICES ASSUME version[w] < version[d] PROVE FALSE
        OBVIOUS
      <4>1. version[w] \in 1 .. version[d] /\ source[w] \in Source
        BY <1>16 DEF InsertRow, NumbersTaken, Numbered
      <4>2. PICK x \in Stored(source[w]) : version[x] = version[w]
        BY <4>1 DEF VersionsInOrder
      <4>3. QED
        BY <1>16, <4>2 DEF InsertRow
    <3>3. version[d] \in Nat /\ version[w] \in Nat
      OBVIOUS
    <3>4. \A m, n \in Nat : m # n /\ ~(n < m) => m < n
      OBVIOUS
    <3>5. QED
      BY <3>1, <3>2, <3>3, <3>4, Zenon
  <2>2. QED
    BY <1>16, <2>1 DEF InsertRow
<1>17. ASSUME NEW w \in Document, InsertViolates(w) PROVE InsertedAlone'
  BY <1>17 DEF InsertViolates, Rollback, Release
<1>19. ASSUME NEW r \in Restorer, CommitRestore(r) PROVE InsertedAlone'
  BY <1>19 DEF CommitRestore, Supersede, Release
<1>20. ASSUME NEW x \in Remover, NEW d \in Document, DeleteBegins(x, d) PROVE InsertedAlone'
  BY <1>20 DEF DeleteBegins
<1>21. ASSUME NEW x \in Remover, DeleteRows(x) PROVE InsertedAlone'
  BY <1>21 DEF DeleteRows, Unblocked
<1>22. ASSUME NEW x \in Remover, CommitDelete(x) PROVE InsertedAlone'
  BY <1>22 DEF CommitDelete, Release
<1>23. CASE Fault
  <2>1. Quits
    BY <1>23, FaultStep
  <2>2. \A e \in Document :
          pc'[e] = "inserted" => pc[e] = "inserted" /\ held'[e] = held[e]
    BY <2>1 DEF Quits
  <2>3. UNCHANGED <<status, source, version>>
    BY <2>1 DEF Quits
  <2>4. QED
    BY <2>2, <2>3
<1>24. CASE AllOver \/ UNCHANGED vars
  BY <1>24 DEF AllOver
<1> HIDE DEF TypeOK, Call, Document, Persisting, Over, Goto,
   row, table, locks, vars, InsertedAlone, InsertInFlight, Violates, Begun, RowsHeld, Stored
<1>25. QED
  BY <1>1, <1>2, <1>3, <1>4, <1>5, <1>6, <1>7, <1>8, <1>9, <1>10, <1>11, <1>12, <1>13,
     <1>14, <1>15, <1>16, <1>17, <1>18, <1>19, <1>20, <1>21, <1>22, <1>23, <1>24 DEF Next,
     IngestStep, WriteStep, DeleteStep

\* A publication extends the numbers by one and retires what was active.
LEMMA VersionsStep ==
  ASSUME TypeOK, Begun, RowsHeld, NumbersTaken, InsertedAlone, VersionsInOrder, Kept, Tables
  PROVE  VersionsInOrder'
<1> SUFFICES ASSUME NEW s \in Source, NEW d \in Stored(s)', NEW e \in Stored(s)'
             PROVE  /\ d # e => version'[d] # version'[e]
                    /\ status'[d] = "active" => version'[e] <= version'[d]
                    /\ \A n \in 1 .. version'[d] : \E x \in Stored(s)' : version'[x] = n
  BY DEF VersionsInOrder, Active, Stored
<1> USE DEF Stored
<1>1. ASSUME UNCHANGED status \/ \E x \in Remover : CommitDelete(x)
      PROVE  /\ Stored(s)' = Stored(s)
             /\ \A x \in Document : status'[x] = "active" => status[x] = "active"
  BY <1>1 DEF CommitDelete, Kept, row, RowsHeld, TypeOK, Call
<1>2. CASE UNCHANGED status \/ \E x \in Remover : CommitDelete(x)
  <2>1. d \in Stored(s) /\ e \in Stored(s) /\ \A x \in Stored(s) : version'[x] = version[x]
    BY <1>1, <1>2 DEF Kept
  <2>2. QED
    BY <1>1, <1>2, <2>1 DEF VersionsInOrder, TypeOK
<1>3. ASSUME NEW w \in Document, Commits(w)
      PROVE  /\ d # e => version'[d] # version'[e]
             /\ status'[d] = "active" => version'[e] <= version'[d]
             /\ \A n \in 1 .. version'[d] : \E x \in Stored(s)' : version'[x] = n
  <2>1. /\ version' = version /\ source' = source
        /\ status[w] = "absent" /\ status'[w] = "active"
        /\ source[w] \in Source
        /\ \A x \in Document \ {w} : 
              /\ status[x] = "absent" <=> status'[x] = "absent"
              /\ status'[x] = "active" => status[x] = "active" /\ x \notin held[w]
    BY <1>3 DEF Commits, Supersede, row, Begun, Over, RowsHeld, TypeOK
  <2>2. Stored(s) \subseteq Stored(s)' /\ Stored(s)' \subseteq Stored(s) \cup {w}
    BY <2>1
  <2>3. source[w] = s => \A x \in Stored(s) : version[x] < version[w] /\ status'[x] # "active"
    BY <1>3, <2>1 DEF Commits, InsertedAlone
  <2>4. source[w] = s => \A n \in 1 .. version[w] : \E x \in Stored(s)' : version'[x] = n
    <3> SUFFICES ASSUME source[w] = s, NEW n \in 1 .. version[w]
                 PROVE  \E x \in Stored(s)' : version'[x] = n
      OBVIOUS
    <3>1. CASE n = version[w]
      <4>1. w \in Stored(s)' BY <2>1
      <4>2. QED BY <3>1, <4>1, <2>1
    <3>2. CASE n \in 1 .. version[w] - 1
      <4>1. PICK x \in Stored(s) : version[x] = n
        BY <1>3, <3>2 DEF Commits, NumbersTaken, Numbered
      <4>2. QED BY <2>1, <2>2, <4>1
    <3>3. QED BY <3>1, <3>2 DEF TypeOK
  <2>5. d # e => version'[d] # version'[e]
    BY <2>1, <2>2, <2>3 DEF VersionsInOrder, TypeOK
  <2>6. status'[d] = "active" => version'[e] <= version'[d]
    BY <2>1, <2>2, <2>3 DEF VersionsInOrder, TypeOK
  <2>7. \A n \in 1 .. version'[d] : \E x \in Stored(s)' : version'[x] = n
    <3>1. CASE d = w BY <2>1, <2>4, <3>1
    <3>2. CASE d # w 
      <4>1. d \in Stored(s) BY <2>2, <3>2
      <4>2. QED BY <2>1, <2>2, <4>1 DEF VersionsInOrder
    <3>3. QED BY <3>1, <3>2
  <2>8. QED BY <2>5, <2>6, <2>7
<1>4. QED
  BY <1>2, <1>3 DEF Tables, table

\* Between the duplicate check and the commit the advisory lock keeps uploads out.
LEMMA NoDuplicateStep ==
  ASSUME TypeOK, Begun, RowsHeld, LockHeld, NoDuplicateYet, [Next]_vars
  PROVE  NoDuplicateYet'
<1>1. ASSUME NEW j \in Job, NEW s \in Source, CreateJob(j, s) PROVE NoDuplicateYet'
  BY <1>1, FillsStep, FillsKeeps DEF Document
<1>3. ASSUME NEW j \in Job, NEW h \in Hash, ParseReturns(j, h) PROVE NoDuplicateYet'
  BY <1>3, FillsStep, FillsKeeps DEF Document
<1>18. ASSUME NEW r \in Restorer, NEW d \in Document, RestoreBegins(r, d)
       PROVE  NoDuplicateYet'
  BY <1>18, FillsStep, FillsKeeps DEF Document
<1> USE CallsDisjoint, NoneIsNoValue DEF TypeOK, Call, Document, Persisting, Over, Goto,
   row, table, locks, vars, Begun, RowsHeld, LockHeld, NoDuplicateYet, Live, Stored
<1>2. ASSUME NEW j \in Job, MarkRunning(j) PROVE NoDuplicateYet'
  BY <1>2 DEF MarkRunning
<1>4. ASSUME NEW j \in Job, ParseRaises(j) PROVE NoDuplicateYet'
  BY <1>4 DEF ParseRaises
<1>5. ASSUME NEW j \in Job, AcquireLock(j) PROVE NoDuplicateYet'
  BY <1>5 DEF AcquireLock
<1>6. ASSUME NEW j \in Job, FindDuplicate(j) PROVE NoDuplicateYet'
  BY <1>6 DEF FindDuplicate
<1>7. ASSUME NEW j \in Job, FindNoDuplicate(j) PROVE NoDuplicateYet'
  <2>1. \A d \in Live(source[j]) : hash[d] # hash[j]
    BY <1>7 DEF FindNoDuplicate, SameContent, RowStatus
  <2>2. QED
    BY <1>7, <2>1 DEF FindNoDuplicate
<1>8. ASSUME NEW j \in Job, NEW next \in {"done", "failing"}, CommitSkipped(j, next)
      PROVE NoDuplicateYet'
  BY <1>8 DEF CommitSkipped, Release
<1>9. ASSUME NEW j \in Job, NEW next \in {"done", "failing"}, CommitIngest(j, next)
      PROVE NoDuplicateYet'
  BY <1>9 DEF CommitIngest, Supersede, Release
<1>10. ASSUME NEW j \in Job, LockScan(j) PROVE NoDuplicateYet'
  BY <1>10 DEF LockScan, PickActive
<1>11. ASSUME NEW j \in Job, LockRows(j) PROVE NoDuplicateYet'
  BY <1>11 DEF LockRows, LockPicked
<1>12. ASSUME NEW j \in Job, MarkFailed(j) PROVE NoDuplicateYet'
  BY <1>12 DEF MarkFailed
<1>13. ASSUME NEW w \in Document, NextVersion(w) PROVE NoDuplicateYet'
  BY <1>13 DEF NextVersion
<1>14. ASSUME NEW w \in Document, SupersedeScan(w) PROVE NoDuplicateYet'
  BY <1>14 DEF SupersedeScan, PickActive
<1>15. ASSUME NEW w \in Document, SupersedeRows(w) PROVE NoDuplicateYet'
  BY <1>15 DEF SupersedeRows, LockPicked
<1>16. ASSUME NEW w \in Document, InsertRow(w) PROVE NoDuplicateYet'
  BY <1>16 DEF InsertRow
<1>17. ASSUME NEW w \in Document, InsertViolates(w) PROVE NoDuplicateYet'
  BY <1>17 DEF InsertViolates, Rollback, Release
<1>19. ASSUME NEW r \in Restorer, CommitRestore(r) PROVE NoDuplicateYet'
  BY <1>19 DEF CommitRestore, Supersede, Release
<1>20. ASSUME NEW x \in Remover, NEW d \in Document, DeleteBegins(x, d)
       PROVE NoDuplicateYet'
  BY <1>20 DEF DeleteBegins
<1>21. ASSUME NEW x \in Remover, DeleteRows(x) PROVE NoDuplicateYet'
  BY <1>21 DEF DeleteRows, Unblocked
<1>22. ASSUME NEW x \in Remover, CommitDelete(x) PROVE NoDuplicateYet'
  BY <1>22 DEF CommitDelete, Release
<1>23. CASE Fault
  BY <1>23 DEF Fault, MarkRunningRaises, PersistRaises, MarkFailedIsLost, RestoreRaises,
     DeleteRaises, Abandon, Rollback, Release
<1>24. CASE AllOver \/ UNCHANGED vars
  BY <1>24 DEF AllOver
<1> HIDE DEF TypeOK, Call, Document, Persisting, Over, Goto,
   row, table, locks, vars, Begun, RowsHeld, LockHeld, NoDuplicateYet, Live, Stored
<1>25. QED
  BY <1>1, <1>2, <1>3, <1>4, <1>5, <1>6, <1>7, <1>8, <1>9, <1>10, <1>11, <1>12, <1>13,
     <1>14, <1>15, <1>16, <1>17, <1>18, <1>19, <1>20, <1>21, <1>22, <1>23, <1>24 DEF Next,
     IngestStep, WriteStep, DeleteStep

\* An upload that commits shares its content with no stored upload.
LEMMA ContentStep ==
  ASSUME TypeOK, Begun, RowsHeld, LockHeld, NoDuplicateYet, ContentStoredOnce, Kept, Tables
  PROVE  ContentStoredOnce'
<1> SUFFICES ASSUME NEW s \in Source,
                    NEW d \in (Live(s) \cap Job)', NEW e \in (Live(s) \cap Job)', d # e
             PROVE  hash'[d] # hash'[e]
  BY DEF ContentStoredOnce
<1> USE DEF Stored, Live, Document
<1>1. CASE UNCHANGED status \/ \E x \in Remover : CommitDelete(x)
  <2>1. \A x \in Live(s)' : x \in Live(s) /\ hash'[x] = hash[x]
    BY <1>1 DEF CommitDelete, Kept, row, RowsHeld, TypeOK, Call
  <2>2. QED
    BY <2>1 DEF ContentStoredOnce
<1>2. ASSUME NEW w \in Document, Commits(w)
      PROVE  hash'[d] # hash'[e]
  <2>1. /\ hash' = hash /\ source' = source
        /\ \A x \in Document \ {w} : 
              /\ status[x] \in {"absent", "deleted"} <=> status'[x] \in {"absent", "deleted"}
    BY <1>2 DEF Commits, Supersede, row, Begun, Over, RowsHeld, TypeOK
  <2>2. \A x \in Live(s)' : x # w => x \in Live(s)
    BY <2>1 DEF RowStatus
  <2>3. w \in Job /\ source[w] = s => \A x \in Live(s) \cap Job : hash[x] # hash[w]
    BY <1>2 DEF Commits, NoDuplicateYet, Persisting
  <2>4. QED 
    BY <2>1, <2>2, <2>3 DEF ContentStoredOnce
<1>3. QED
  BY <1>1, <1>2 DEF Tables, table

\* Parsing yields the hash; a restore copies that of a stored document.
LEMMA HashKnownStep ==
  ASSUME TypeOK, Begun, RowsHeld, HashKnown, RestoresStored, [Next]_vars
  PROVE  HashKnown'
<1> USE CallsDisjoint, NoneIsNoValue DEF TypeOK, Call, Document, Persisting, Over, Goto,
   row, table, locks, vars, HashKnown, RowsHeld, Begun, RestoresStored
<1>1. ASSUME NEW j \in Job, NEW s \in Source, CreateJob(j, s) PROVE HashKnown'
  BY <1>1 DEF CreateJob
<1>2. ASSUME NEW j \in Job, MarkRunning(j) PROVE HashKnown'
  BY <1>2 DEF MarkRunning
<1>3. ASSUME NEW j \in Job, NEW h \in Hash, ParseReturns(j, h) PROVE HashKnown'
  BY <1>3 DEF ParseReturns
<1>4. ASSUME NEW j \in Job, ParseRaises(j) PROVE HashKnown'
  BY <1>4 DEF ParseRaises
<1>5. ASSUME NEW j \in Job, AcquireLock(j) PROVE HashKnown'
  BY <1>5 DEF AcquireLock
<1>6. ASSUME NEW j \in Job, FindDuplicate(j) PROVE HashKnown'
  BY <1>6 DEF FindDuplicate
<1>7. ASSUME NEW j \in Job, FindNoDuplicate(j) PROVE HashKnown'
  BY <1>7 DEF FindNoDuplicate
<1>8. ASSUME NEW j \in Job, NEW next \in {"done", "failing"}, CommitSkipped(j, next)
      PROVE HashKnown'
  BY <1>8 DEF CommitSkipped, Release
<1>9. ASSUME NEW j \in Job, NEW next \in {"done", "failing"}, CommitIngest(j, next)
      PROVE HashKnown'
  BY <1>9 DEF CommitIngest, Supersede, Release
<1>10. ASSUME NEW j \in Job, LockScan(j) PROVE HashKnown'
  BY <1>10 DEF LockScan, PickActive
<1>11. ASSUME NEW j \in Job, LockRows(j) PROVE HashKnown'
  BY <1>11 DEF LockRows, LockPicked
<1>12. ASSUME NEW j \in Job, MarkFailed(j) PROVE HashKnown'
  BY <1>12 DEF MarkFailed
<1>13. ASSUME NEW w \in Document, NextVersion(w) PROVE HashKnown'
  BY <1>13 DEF NextVersion
<1>14. ASSUME NEW w \in Document, SupersedeScan(w) PROVE HashKnown'
  BY <1>14 DEF SupersedeScan, PickActive
<1>15. ASSUME NEW w \in Document, SupersedeRows(w) PROVE HashKnown'
  BY <1>15 DEF SupersedeRows, LockPicked
<1>16. ASSUME NEW w \in Document, InsertRow(w) PROVE HashKnown'
  BY <1>16 DEF InsertRow
<1>17. ASSUME NEW w \in Document, InsertViolates(w) PROVE HashKnown'
  BY <1>17 DEF InsertViolates, Rollback, Release
<1>18. ASSUME NEW r \in Restorer, NEW d \in Document, RestoreBegins(r, d) PROVE HashKnown'
  BY <1>18 DEF RestoreBegins
<1>19. ASSUME NEW r \in Restorer, CommitRestore(r) PROVE HashKnown'
  BY <1>19 DEF CommitRestore, Supersede, Release
<1>20. ASSUME NEW x \in Remover, NEW d \in Document, DeleteBegins(x, d) PROVE HashKnown'
  BY <1>20 DEF DeleteBegins
<1>21. ASSUME NEW x \in Remover, DeleteRows(x) PROVE HashKnown'
  BY <1>21 DEF DeleteRows, Unblocked
<1>22. ASSUME NEW x \in Remover, CommitDelete(x) PROVE HashKnown'
  BY <1>22 DEF CommitDelete, Release
<1>23. CASE Fault
  BY <1>23 DEF Fault, MarkRunningRaises, PersistRaises, MarkFailedIsLost, RestoreRaises,
     DeleteRaises, Abandon, Rollback, Release
<1>24. CASE AllOver \/ UNCHANGED vars
  BY <1>24 DEF AllOver
<1>25. QED
  BY <1>1, <1>2, <1>3, <1>4, <1>5, <1>6, <1>7, <1>8, <1>9, <1>10, <1>11, <1>12, <1>13,
     <1>14, <1>15, <1>16, <1>17, <1>18, <1>19, <1>20, <1>21, <1>22, <1>23, <1>24 DEF Next,
     IngestStep, WriteStep, DeleteStep

\* The job row follows the call, and a duplicate stays a stored row.
LEMMA JobFollowsStep ==
  ASSUME TypeOK, Begun, RowsHeld, JobFollowsCall, [Next]_vars
  PROVE  JobFollowsCall'
<1>1. ASSUME NEW j \in Job, NEW s \in Source, CreateJob(j, s) PROVE JobFollowsCall'
  <2>1. Fills(j) /\ pc'[j] = "created" /\ job' = [job EXCEPT ![j] = "pending"]
    BY <1>1, FillsStep DEF CreateJob, Goto, TypeOK, Call, Document
  <2>2. QED
    BY <2>1, FillsKeepsDuplicates DEF JobFollowsCall, TypeOK, Document, Persisting
<1>3. ASSUME NEW j \in Job, NEW h \in Hash, ParseReturns(j, h) PROVE JobFollowsCall'
  <2>1. pc[j] = "parsing" /\ pc'[j] = "locking" /\ job' = job
    BY <1>3 DEF ParseReturns, Goto, TypeOK, Call, Document
  <2>2. Fills(j)
    BY <1>3, FillsStep
  <2>3. QED
    BY <2>1, <2>2, FillsKeepsDuplicates DEF JobFollowsCall, TypeOK, Document, Persisting
<1>18. ASSUME NEW r \in Restorer, NEW d \in Document, RestoreBegins(r, d)
       PROVE  JobFollowsCall'
  <2>1. Fills(r) /\ job' = job /\ r \notin Job
    BY <1>18, FillsStep, CallsDisjoint DEF RestoreBegins
  <2>2. QED
    BY <2>1, FillsKeepsDuplicates DEF JobFollowsCall, Document
<1> USE CallsDisjoint, NoneIsNoValue DEF TypeOK, Call, Document, Persisting, Over, Goto,
   row, table, locks, vars, Begun, RowsHeld, JobFollowsCall, Stored, SameContent
<1>2. ASSUME NEW j \in Job, MarkRunning(j) PROVE JobFollowsCall'
  BY <1>2 DEF MarkRunning
<1>4. ASSUME NEW j \in Job, ParseRaises(j) PROVE JobFollowsCall'
  BY <1>4 DEF ParseRaises
<1>5. ASSUME NEW j \in Job, AcquireLock(j) PROVE JobFollowsCall'
  BY <1>5 DEF AcquireLock
<1>6. ASSUME NEW j \in Job, FindDuplicate(j) PROVE JobFollowsCall'
  BY <1>6 DEF FindDuplicate
<1>7. ASSUME NEW j \in Job, FindNoDuplicate(j) PROVE JobFollowsCall'
  BY <1>7 DEF FindNoDuplicate
<1>8. ASSUME NEW j \in Job, NEW next \in {"done", "failing"}, CommitSkipped(j, next)
      PROVE JobFollowsCall'
  BY <1>8 DEF CommitSkipped, Release
<1>9. ASSUME NEW j \in Job, NEW next \in {"done", "failing"}, CommitIngest(j, next)
      PROVE JobFollowsCall'
  BY <1>9 DEF CommitIngest, Supersede, Release
<1>10. ASSUME NEW j \in Job, LockScan(j) PROVE JobFollowsCall'
  BY <1>10 DEF LockScan, PickActive
<1>11. ASSUME NEW j \in Job, LockRows(j) PROVE JobFollowsCall'
  BY <1>11 DEF LockRows, LockPicked
<1>12. ASSUME NEW j \in Job, MarkFailed(j) PROVE JobFollowsCall'
  BY <1>12 DEF MarkFailed
<1>13. ASSUME NEW w \in Document, NextVersion(w) PROVE JobFollowsCall'
  BY <1>13 DEF NextVersion
<1>14. ASSUME NEW w \in Document, SupersedeScan(w) PROVE JobFollowsCall'
  BY <1>14 DEF SupersedeScan, PickActive
<1>15. ASSUME NEW w \in Document, SupersedeRows(w) PROVE JobFollowsCall'
  BY <1>15 DEF SupersedeRows, LockPicked
<1>16. ASSUME NEW w \in Document, InsertRow(w) PROVE JobFollowsCall'
  BY <1>16 DEF InsertRow
<1>17. ASSUME NEW w \in Document, InsertViolates(w) PROVE JobFollowsCall'
  BY <1>17 DEF InsertViolates, Rollback, Release
<1>19. ASSUME NEW r \in Restorer, CommitRestore(r) PROVE JobFollowsCall'
  BY <1>19 DEF CommitRestore, Supersede, Release
<1>20. ASSUME NEW x \in Remover, NEW d \in Document, DeleteBegins(x, d)
       PROVE JobFollowsCall'
  BY <1>20 DEF DeleteBegins
<1>21. ASSUME NEW x \in Remover, DeleteRows(x) PROVE JobFollowsCall'
  BY <1>21 DEF DeleteRows, Unblocked
<1>22. ASSUME NEW x \in Remover, CommitDelete(x) PROVE JobFollowsCall'
  BY <1>22 DEF CommitDelete, Release
<1>23. CASE Fault
  BY <1>23 DEF Fault, MarkRunningRaises, PersistRaises, MarkFailedIsLost, RestoreRaises,
     DeleteRaises, Abandon, Rollback, Release
<1>24. CASE AllOver \/ UNCHANGED vars
  BY <1>24 DEF AllOver
<1> HIDE DEF TypeOK, Call, Document, Persisting, Over, Goto,
   row, table, locks, vars, Begun, RowsHeld, JobFollowsCall, Stored, SameContent
<1>25. QED
  BY <1>1, <1>2, <1>3, <1>4, <1>5, <1>6, <1>7, <1>8, <1>9, <1>10, <1>11, <1>12, <1>13,
     <1>14, <1>15, <1>16, <1>17, <1>18, <1>19, <1>20, <1>21, <1>22, <1>23, <1>24 DEF Next,
     IngestStep, WriteStep, DeleteStep

\* The document and its job commit together.
LEMMA JobMatchesStep ==
  ASSUME TypeOK, Begun, RowsHeld, JobFollowsCall, JobMatchesDocument, [Next]_vars
  PROVE  JobMatchesDocument'
<1>18. ASSUME NEW r \in Restorer, NEW d \in Document, RestoreBegins(r, d)
       PROVE  JobMatchesDocument'
  <2>1. Fills(r) /\ job' = job
    BY <1>18, FillsStep DEF RestoreBegins
  <2>2. QED
    BY <2>1, FillsKeepsSettled
<1> USE CallsDisjoint, NoneIsNoValue DEF TypeOK, Call, Document, Persisting, Over, Goto,
   row, table, locks, vars, Begun, RowsHeld, JobFollowsCall, JobMatchesDocument, Stored
<1>1. ASSUME NEW j \in Job, NEW s \in Source, CreateJob(j, s) PROVE JobMatchesDocument'
  BY <1>1 DEF CreateJob
<1>2. ASSUME NEW j \in Job, MarkRunning(j) PROVE JobMatchesDocument'
  BY <1>2 DEF MarkRunning
<1>3. ASSUME NEW j \in Job, NEW h \in Hash, ParseReturns(j, h) PROVE JobMatchesDocument'
  BY <1>3 DEF ParseReturns
<1>4. ASSUME NEW j \in Job, ParseRaises(j) PROVE JobMatchesDocument'
  BY <1>4 DEF ParseRaises
<1>5. ASSUME NEW j \in Job, AcquireLock(j) PROVE JobMatchesDocument'
  BY <1>5 DEF AcquireLock
<1>6. ASSUME NEW j \in Job, FindDuplicate(j) PROVE JobMatchesDocument'
  BY <1>6 DEF FindDuplicate
<1>7. ASSUME NEW j \in Job, FindNoDuplicate(j) PROVE JobMatchesDocument'
  BY <1>7 DEF FindNoDuplicate
<1>8. ASSUME NEW j \in Job, NEW next \in {"done", "failing"}, CommitSkipped(j, next)
      PROVE JobMatchesDocument'
  BY <1>8 DEF CommitSkipped, Release
<1>9. ASSUME NEW j \in Job, NEW next \in {"done", "failing"}, CommitIngest(j, next)
      PROVE JobMatchesDocument'
  BY <1>9 DEF CommitIngest, Supersede, Release
<1>10. ASSUME NEW j \in Job, LockScan(j) PROVE JobMatchesDocument'
  BY <1>10 DEF LockScan, PickActive
<1>11. ASSUME NEW j \in Job, LockRows(j) PROVE JobMatchesDocument'
  BY <1>11 DEF LockRows, LockPicked
<1>12. ASSUME NEW j \in Job, MarkFailed(j) PROVE JobMatchesDocument'
  BY <1>12 DEF MarkFailed
<1>13. ASSUME NEW w \in Document, NextVersion(w) PROVE JobMatchesDocument'
  BY <1>13 DEF NextVersion
<1>14. ASSUME NEW w \in Document, SupersedeScan(w) PROVE JobMatchesDocument'
  BY <1>14 DEF SupersedeScan, PickActive
<1>15. ASSUME NEW w \in Document, SupersedeRows(w) PROVE JobMatchesDocument'
  BY <1>15 DEF SupersedeRows, LockPicked
<1>16. ASSUME NEW w \in Document, InsertRow(w) PROVE JobMatchesDocument'
  BY <1>16 DEF InsertRow
<1>17. ASSUME NEW w \in Document, InsertViolates(w) PROVE JobMatchesDocument'
  BY <1>17 DEF InsertViolates, Rollback, Release
<1>19. ASSUME NEW r \in Restorer, CommitRestore(r) PROVE JobMatchesDocument'
  BY <1>19 DEF CommitRestore, Supersede, Release
<1>20. ASSUME NEW x \in Remover, NEW d \in Document, DeleteBegins(x, d)
       PROVE JobMatchesDocument'
  BY <1>20 DEF DeleteBegins
<1>21. ASSUME NEW x \in Remover, DeleteRows(x) PROVE JobMatchesDocument'
  BY <1>21 DEF DeleteRows, Unblocked
<1>22. ASSUME NEW x \in Remover, CommitDelete(x) PROVE JobMatchesDocument'
  BY <1>22 DEF CommitDelete, Release
<1>23. CASE Fault
  BY <1>23 DEF Fault, MarkRunningRaises, PersistRaises, MarkFailedIsLost, RestoreRaises,
     DeleteRaises, Abandon, Rollback, Release
<1>24. CASE AllOver \/ UNCHANGED vars
  BY <1>24 DEF AllOver
<1> HIDE DEF TypeOK, Call, Document, Persisting, Over, Goto,
   row, table, locks, vars, Begun, RowsHeld, JobFollowsCall, JobMatchesDocument, Stored
<1>25. QED
  BY <1>1, <1>2, <1>3, <1>4, <1>5, <1>6, <1>7, <1>8, <1>9, <1>10, <1>11, <1>12, <1>13,
     <1>14, <1>15, <1>16, <1>17, <1>18, <1>19, <1>20, <1>21, <1>22, <1>23, <1>24 DEF Next,
     IngestStep, WriteStep, DeleteStep

\* No other upload commits while this one holds the advisory lock.
LEMMA UploadsKnowStep ==
  ASSUME TypeOK, Begun, RowsHeld, LockHeld, UploadsKnow, [Next]_vars
  PROVE  UploadsKnow'
<1>1. ASSUME NEW j \in Job, NEW s \in Source, CreateJob(j, s) PROVE UploadsKnow'
  BY <1>1, FillsStep, FillsKeeps DEF Document
<1>3. ASSUME NEW j \in Job, NEW h \in Hash, ParseReturns(j, h) PROVE UploadsKnow'
  BY <1>3, FillsStep, FillsKeeps DEF Document
<1>18. ASSUME NEW r \in Restorer, NEW d \in Document, RestoreBegins(r, d)
       PROVE  UploadsKnow'
  BY <1>18, FillsStep, FillsKeeps DEF Document
<1> USE CallsDisjoint, NoneIsNoValue DEF TypeOK, Call, Document, Persisting, Over, Goto,
   row, table, locks, vars, Begun, RowsHeld, LockHeld, UploadsKnow, Stored, Active
<1>2. ASSUME NEW j \in Job, MarkRunning(j) PROVE UploadsKnow'
  BY <1>2 DEF MarkRunning
<1>4. ASSUME NEW j \in Job, ParseRaises(j) PROVE UploadsKnow'
  BY <1>4 DEF ParseRaises
<1>5. ASSUME NEW j \in Job, AcquireLock(j) PROVE UploadsKnow'
  BY <1>5 DEF AcquireLock
<1>6. ASSUME NEW j \in Job, FindDuplicate(j) PROVE UploadsKnow'
  BY <1>6 DEF FindDuplicate
<1>7. ASSUME NEW j \in Job, FindNoDuplicate(j) PROVE UploadsKnow'
  BY <1>7 DEF FindNoDuplicate
<1>8. ASSUME NEW j \in Job, NEW next \in {"done", "failing"}, CommitSkipped(j, next)
      PROVE UploadsKnow'
  BY <1>8 DEF CommitSkipped, Release
<1>9. ASSUME NEW j \in Job, NEW next \in {"done", "failing"}, CommitIngest(j, next)
      PROVE UploadsKnow'
  BY <1>9 DEF CommitIngest, Supersede, Release
<1>10. ASSUME NEW j \in Job, LockScan(j) PROVE UploadsKnow'
  BY <1>10 DEF LockScan, PickActive
<1>11. ASSUME NEW j \in Job, LockRows(j) PROVE UploadsKnow'
  BY <1>11 DEF LockRows, LockPicked
<1>12. ASSUME NEW j \in Job, MarkFailed(j) PROVE UploadsKnow'
  BY <1>12 DEF MarkFailed
<1>13. ASSUME NEW w \in Document, NextVersion(w) PROVE UploadsKnow'
  BY <1>13 DEF NextVersion
<1>14. ASSUME NEW w \in Document, SupersedeScan(w) PROVE UploadsKnow'
  BY <1>14 DEF SupersedeScan, PickActive
<1>15. ASSUME NEW w \in Document, SupersedeRows(w) PROVE UploadsKnow'
  BY <1>15 DEF SupersedeRows, LockPicked
<1>16. ASSUME NEW w \in Document, InsertRow(w) PROVE UploadsKnow'
  BY <1>16 DEF InsertRow
<1>17. ASSUME NEW w \in Document, InsertViolates(w) PROVE UploadsKnow'
  BY <1>17 DEF InsertViolates, Rollback, Release
<1>19. ASSUME NEW r \in Restorer, CommitRestore(r) PROVE UploadsKnow'
  BY <1>19 DEF CommitRestore, Supersede, Release
<1>20. ASSUME NEW x \in Remover, NEW d \in Document, DeleteBegins(x, d) PROVE UploadsKnow'
  BY <1>20 DEF DeleteBegins
<1>21. ASSUME NEW x \in Remover, DeleteRows(x) PROVE UploadsKnow'
  BY <1>21 DEF DeleteRows, Unblocked
<1>22. ASSUME NEW x \in Remover, CommitDelete(x) PROVE UploadsKnow'
  BY <1>22 DEF CommitDelete, Release
<1>23. CASE Fault
  BY <1>23 DEF Fault, MarkRunningRaises, PersistRaises, MarkFailedIsLost, RestoreRaises,
     DeleteRaises, Abandon, Rollback, Release
<1>24. CASE AllOver \/ UNCHANGED vars
  BY <1>24 DEF AllOver
<1> HIDE DEF TypeOK, Call, Document, Persisting, Over, Goto,
   row, table, locks, vars, Begun, RowsHeld, LockHeld, UploadsKnow, Stored, Active
<1>25. QED
  BY <1>1, <1>2, <1>3, <1>4, <1>5, <1>6, <1>7, <1>8, <1>9, <1>10, <1>11, <1>12, <1>13,
     <1>14, <1>15, <1>16, <1>17, <1>18, <1>19, <1>20, <1>21, <1>22, <1>23, <1>24 DEF Next,
     IngestStep, WriteStep, DeleteStep

\* The document a restore copies stays stored.
LEMMA RestoresStep ==
  ASSUME TypeOK, Begun, RowsHeld, Kept, RestoresStored, [Next]_vars
  PROVE  RestoresStored'
<1> USE CallsDisjoint, NoneIsNoValue DEF TypeOK, Call, Document, Persisting, Over, Goto,
   row, table, locks, vars, Kept, Begun, RestoresStored
<1>1. ASSUME NEW j \in Job, NEW s \in Source, CreateJob(j, s) PROVE RestoresStored'
  BY <1>1 DEF CreateJob
<1>2. ASSUME NEW j \in Job, MarkRunning(j) PROVE RestoresStored'
  BY <1>2 DEF MarkRunning
<1>3. ASSUME NEW j \in Job, NEW h \in Hash, ParseReturns(j, h) PROVE RestoresStored'
  BY <1>3 DEF ParseReturns
<1>4. ASSUME NEW j \in Job, ParseRaises(j) PROVE RestoresStored'
  BY <1>4 DEF ParseRaises
<1>5. ASSUME NEW j \in Job, AcquireLock(j) PROVE RestoresStored'
  BY <1>5 DEF AcquireLock
<1>6. ASSUME NEW j \in Job, FindDuplicate(j) PROVE RestoresStored'
  BY <1>6 DEF FindDuplicate
<1>7. ASSUME NEW j \in Job, FindNoDuplicate(j) PROVE RestoresStored'
  BY <1>7 DEF FindNoDuplicate
<1>8. ASSUME NEW j \in Job, NEW next \in {"done", "failing"}, CommitSkipped(j, next)
      PROVE RestoresStored'
  BY <1>8 DEF CommitSkipped, Release
<1>9. ASSUME NEW j \in Job, NEW next \in {"done", "failing"}, CommitIngest(j, next)
      PROVE RestoresStored'
  BY <1>9 DEF CommitIngest, Supersede, Release
<1>10. ASSUME NEW j \in Job, LockScan(j) PROVE RestoresStored'
  BY <1>10 DEF LockScan, PickActive
<1>11. ASSUME NEW j \in Job, LockRows(j) PROVE RestoresStored'
  BY <1>11 DEF LockRows, LockPicked
<1>12. ASSUME NEW j \in Job, MarkFailed(j) PROVE RestoresStored'
  BY <1>12 DEF MarkFailed
<1>13. ASSUME NEW w \in Document, NextVersion(w) PROVE RestoresStored'
  BY <1>13 DEF NextVersion
<1>14. ASSUME NEW w \in Document, SupersedeScan(w) PROVE RestoresStored'
  BY <1>14 DEF SupersedeScan, PickActive
<1>15. ASSUME NEW w \in Document, SupersedeRows(w) PROVE RestoresStored'
  BY <1>15 DEF SupersedeRows, LockPicked
<1>16. ASSUME NEW w \in Document, InsertRow(w) PROVE RestoresStored'
  BY <1>16 DEF InsertRow
<1>17. ASSUME NEW w \in Document, InsertViolates(w) PROVE RestoresStored'
  BY <1>17 DEF InsertViolates, Rollback, Release
<1>18. ASSUME NEW r \in Restorer, NEW d \in Document, RestoreBegins(r, d)
       PROVE RestoresStored'
  BY <1>18 DEF RestoreBegins
<1>19. ASSUME NEW r \in Restorer, CommitRestore(r) PROVE RestoresStored'
  BY <1>19 DEF CommitRestore, Supersede, Release
<1>20. ASSUME NEW x \in Remover, NEW d \in Document, DeleteBegins(x, d)
       PROVE RestoresStored'
  BY <1>20 DEF DeleteBegins
<1>21. ASSUME NEW x \in Remover, DeleteRows(x) PROVE RestoresStored'
  BY <1>21 DEF DeleteRows, Unblocked
<1>22. ASSUME NEW x \in Remover, CommitDelete(x) PROVE RestoresStored'
  BY <1>22 DEF CommitDelete, Release
<1>23. CASE Fault
  BY <1>23 DEF Fault, MarkRunningRaises, PersistRaises, MarkFailedIsLost, RestoreRaises,
     DeleteRaises, Abandon, Rollback, Release
<1>24. CASE AllOver \/ UNCHANGED vars
  BY <1>24 DEF AllOver
<1>25. QED
  BY <1>1, <1>2, <1>3, <1>4, <1>5, <1>6, <1>7, <1>8, <1>9, <1>10, <1>11, <1>12, <1>13,
     <1>14, <1>15, <1>16, <1>17, <1>18, <1>19, <1>20, <1>21, <1>22, <1>23, <1>24 DEF Next,
     IngestStep, WriteStep, DeleteStep

-------------------------------------------------------------------------------
\* The inductive invariant.
THEOREM AlwaysConsistent == Spec => []Consistent
<1>1. Init => Consistent
  <2> SUFFICES ASSUME Init PROVE Consistent
    OBVIOUS
  <2> USE DEF Init, Call, Document, Persisting, Over, Stored, Active
  <2>1. TypeOK
    BY DEF TypeOK, Location, RowStatus, JobStatus
  <2>2. Begun /\ HashKnown /\ LockHeld /\ RowsHeld /\ RowsPicked /\ ChunksFollowDocument
    BY DEF Begun, HashKnown, LockHeld, RowsHeld, RowsPicked, ChunksFollowDocument
  <2>3. NumbersTaken /\ InsertedAlone /\ VersionsInOrder
    BY DEF NumbersTaken, Numbered, InsertedAlone, VersionsInOrder
  <2>4. NoDuplicateYet /\ ContentStoredOnce /\ UploadsKnow /\ RestoresStored
    BY DEF NoDuplicateYet, ContentStoredOnce, Live, UploadsKnow, RestoresStored
  <2>5. JobFollowsCall /\ JobMatchesDocument
    BY DEF JobFollowsCall, JobMatchesDocument
  <2>6. QED
    BY <2>1, <2>2, <2>3, <2>4, <2>5 DEF Consistent
<1>2. Consistent /\ [Next]_vars => Consistent'
  <2> SUFFICES ASSUME Consistent, [Next]_vars PROVE Consistent'
    OBVIOUS
  <2> USE DEF Consistent
  <2>1. Kept /\ Tables
    BY KeptStep, TableStep
  <2>2. TypeOK' /\ Begun' /\ HashKnown' /\ LockHeld' /\ RowsHeld' /\ RowsPicked'
    BY TypeStep, BegunStep, HashKnownStep, LockHeldStep, RowsHeldStep, RowsPickedStep
  <2>3. ChunksFollowDocument' /\ NumbersTaken' /\ InsertedAlone' /\ VersionsInOrder'
    BY <2>1, ChunksStep, NumbersTakenStep, InsertedAloneStep, VersionsStep
  <2>4. NoDuplicateYet' /\ ContentStoredOnce' /\ UploadsKnow' /\ RestoresStored'
    BY <2>1, NoDuplicateStep, ContentStep, UploadsKnowStep, RestoresStep
  <2>5. JobFollowsCall' /\ JobMatchesDocument'
    BY JobFollowsStep, JobMatchesStep
  <2>6. QED
    BY <2>2, <2>3, <2>4, <2>5
<1>3. QED
  BY <1>1, <1>2, PTL DEF Spec

\* Tables and call-local state always have their types.
THEOREM TypeCorrect == Spec => []TypeOK
<1>1. Consistent => TypeOK
  BY DEF Consistent
<1>2. QED
  BY <1>1, AlwaysConsistent, PTL

\* Versions of a source are numbered without gap or clash, the active one is newest.
THEOREM VersionsAlwaysInOrder == Spec => []VersionsInOrder
<1>1. Consistent => VersionsInOrder
  BY DEF Consistent
<1>2. QED
  BY <1>1, AlwaysConsistent, PTL

\* Two active documents of a source would both be its newest version.
THEOREM AlwaysOneActive == Spec => []OneActive
<1>1. Consistent => OneActive
  <2> SUFFICES ASSUME Consistent, NEW s \in Source, NEW d \in Active(s), NEW e \in Active(s)
               PROVE  d = e
    BY DEF OneActive
  <2>1. /\ version[d] <= version[e] /\ version[e] <= version[d]
        /\ version[d] \in Nat /\ version[e] \in Nat
    BY DEF Active, Stored, Consistent, VersionsInOrder, TypeOK
  <2>2. version[d] = version[e]
    BY <2>1
  <2>3. QED
    BY <2>2 DEF Active, Consistent, VersionsInOrder
<1>2. QED
  BY <1>1, AlwaysConsistent, PTL

\* Concurrent uploads of the same content store it once.
THEOREM ContentAlwaysStoredOnce == Spec => []ContentStoredOnce
<1>1. Consistent => ContentStoredOnce
  BY DEF Consistent
<1>2. QED
  BY <1>1, AlwaysConsistent, PTL

\* The chunks of a document always have its status.
THEOREM ChunksAlwaysFollow == Spec => []ChunksFollowDocument
<1>1. Consistent => ChunksFollowDocument
  BY DEF Consistent
<1>2. QED
  BY <1>1, AlwaysConsistent, PTL

\* A job reports success exactly when its document is stored.
THEOREM JobsAlwaysMatch == Spec => []JobMatchesDocument
<1>1. Consistent => JobMatchesDocument
  BY DEF Consistent
<1>2. QED
  BY <1>1, AlwaysConsistent, PTL

\* No upload makes another upload violate a unique index.
THEOREM UploadsNeverCollide == Spec => []UploadsDoNotCollide
<1>1. Consistent => UploadsDoNotCollide
  <2> SUFFICES ASSUME Consistent, NEW j \in Job, pc[j] = "inserting"
               PROVE  /\ \A x \in Job \ {j} : ~(pc[x] = "inserted" /\ source[x] = source[j])
                      /\ \A d \in Stored(source[j]) \cap Job : ~Violates(j, d)
    BY DEF UploadsDoNotCollide
  <2> USE DEF Consistent
  <2>1. \A x \in Job : pc[x] \in Persisting => lockHolder[source[x]] = x
    BY DEF LockHeld
  <2>2. \A d \in Stored(source[j]) \cap Job : version[d] < version[j] /\ version[d] \in Nat
    BY DEF UploadsKnow, TypeOK, Document
  <2>3. \A d \in Stored(source[j]) \cap Job : status[d] = "active" => d \in held[j]
    BY DEF UploadsKnow, Active
  <2>4. version[j] \in Nat
    BY DEF TypeOK, Document
  <2>5. QED
    BY <2>1, <2>2, <2>3, <2>4 DEF Persisting, Violates
<1>2. QED
  BY <1>1, AlwaysConsistent, PTL

--------------------------------------------------------------------------------
(***************************************************************************)
(* The version history: every step keeps DocumentVersions or stutters, and *)
(* nothing is ever brought back, for any number of calls, sources and      *)
(* contents.  Both rest on the invariant proved above.                     *)
(***************************************************************************)

\* Only mark_running, the two commits and mark_failed change a job, never a terminal one.
TerminalKept == \A j \in Job : job[j] \in Terminal => job'[j] = job[j]

LEMMA TerminalStep ==
  ASSUME TypeOK, JobFollowsCall, [Next]_vars
  PROVE  TerminalKept
<1> USE CallsDisjoint, NoneIsNoValue DEF TypeOK, Call, Document, Persisting, Over, Goto,
   row, table, locks, vars, TerminalKept, JobFollowsCall, Terminal
<1>1. ASSUME NEW j \in Job, NEW s \in Source, CreateJob(j, s) PROVE TerminalKept
  BY <1>1 DEF CreateJob
<1>2. ASSUME NEW j \in Job, MarkRunning(j) PROVE TerminalKept
  BY <1>2 DEF MarkRunning
<1>3. ASSUME NEW j \in Job, NEW h \in Hash, ParseReturns(j, h) PROVE TerminalKept
  BY <1>3 DEF ParseReturns
<1>4. ASSUME NEW j \in Job, ParseRaises(j) PROVE TerminalKept
  BY <1>4 DEF ParseRaises
<1>5. ASSUME NEW j \in Job, AcquireLock(j) PROVE TerminalKept
  BY <1>5 DEF AcquireLock
<1>6. ASSUME NEW j \in Job, FindDuplicate(j) PROVE TerminalKept
  BY <1>6 DEF FindDuplicate
<1>7. ASSUME NEW j \in Job, FindNoDuplicate(j) PROVE TerminalKept
  BY <1>7 DEF FindNoDuplicate
<1>8. ASSUME NEW j \in Job, NEW next \in {"done", "failing"}, CommitSkipped(j, next)
      PROVE TerminalKept
  BY <1>8 DEF CommitSkipped, Release
<1>9. ASSUME NEW j \in Job, NEW next \in {"done", "failing"}, CommitIngest(j, next)
      PROVE TerminalKept
  BY <1>9 DEF CommitIngest, Supersede, Release
<1>10. ASSUME NEW j \in Job, LockScan(j) PROVE TerminalKept
  BY <1>10 DEF LockScan, PickActive
<1>11. ASSUME NEW j \in Job, LockRows(j) PROVE TerminalKept
  BY <1>11 DEF LockRows, LockPicked
<1>12. ASSUME NEW j \in Job, MarkFailed(j) PROVE TerminalKept
  BY <1>12 DEF MarkFailed
<1>13. ASSUME NEW w \in Document, NextVersion(w) PROVE TerminalKept
  BY <1>13 DEF NextVersion
<1>14. ASSUME NEW w \in Document, SupersedeScan(w) PROVE TerminalKept
  BY <1>14 DEF SupersedeScan, PickActive
<1>15. ASSUME NEW w \in Document, SupersedeRows(w) PROVE TerminalKept
  BY <1>15 DEF SupersedeRows, LockPicked
<1>16. ASSUME NEW w \in Document, InsertRow(w) PROVE TerminalKept
  BY <1>16 DEF InsertRow
<1>17. ASSUME NEW w \in Document, InsertViolates(w) PROVE TerminalKept
  BY <1>17 DEF InsertViolates, Rollback, Release
<1>18. ASSUME NEW r \in Restorer, NEW d \in Document, RestoreBegins(r, d) PROVE TerminalKept
  BY <1>18 DEF RestoreBegins
<1>19. ASSUME NEW r \in Restorer, CommitRestore(r) PROVE TerminalKept
  BY <1>19 DEF CommitRestore, Supersede, Release
<1>20. ASSUME NEW x \in Remover, NEW d \in Document, DeleteBegins(x, d) PROVE TerminalKept
  BY <1>20 DEF DeleteBegins
<1>21. ASSUME NEW x \in Remover, DeleteRows(x) PROVE TerminalKept
  BY <1>21 DEF DeleteRows, Unblocked
<1>22. ASSUME NEW x \in Remover, CommitDelete(x) PROVE TerminalKept
  BY <1>22 DEF CommitDelete, Release
<1>23. CASE Fault
  BY <1>23 DEF Fault, MarkRunningRaises, PersistRaises, MarkFailedIsLost, RestoreRaises,
     DeleteRaises, Abandon, Rollback, Release
<1>24. CASE AllOver \/ UNCHANGED vars
  BY <1>24 DEF AllOver
<1>25. QED
  BY <1>1, <1>2, <1>3, <1>4, <1>5, <1>6, <1>7, <1>8, <1>9, <1>10, <1>11, <1>12, <1>13,
     <1>14, <1>15, <1>16, <1>17, <1>18, <1>19, <1>20, <1>21, <1>22, <1>23, <1>24 DEF Next,
     IngestStep, WriteStep, DeleteStep

\* Nothing deleted, superseded or terminal comes back: publications change
\* absent and active rows, deletions undeleted ones.
THEOREM NothingEverComesBack == Spec => NothingComesBack
<1>1. Consistent /\ [Next]_vars =>
        \A d \in Document :
            /\ status[d] = "deleted" => status'[d] = "deleted"
            /\ status[d] = "superseded" => status'[d] # "active"
  <2> SUFFICES ASSUME Consistent, [Next]_vars, NEW d \in Document
               PROVE  /\ status[d] = "deleted" => status'[d] = "deleted"
                      /\ status[d] = "superseded" => status'[d] # "active"
    OBVIOUS
  <2> USE DEF Consistent
  <2>1. CASE UNCHANGED table
    BY <2>1 DEF table
  <2>2. ASSUME NEW w \in Document, Commits(w)
        PROVE  /\ status[d] = "deleted" => status'[d] = "deleted"
               /\ status[d] = "superseded" => status'[d] # "active"
    BY <2>2 DEF Commits, Supersede, Begun, Over, RowsHeld
  <2>3. ASSUME NEW x \in Remover, CommitDelete(x)
        PROVE  /\ status[d] = "deleted" => status'[d] = "deleted"
               /\ status[d] = "superseded" => status'[d] # "active"
    BY <2>3 DEF CommitDelete
  <2>4. QED
    BY <2>1, <2>2, <2>3, TableStep DEF Tables
<1>2. Consistent /\ [Next]_vars => \A j \in Job : job[j] \in Terminal => job'[j] = job[j]
  BY TerminalStep DEF Consistent, TerminalKept
<1>3. QED
  BY <1>1, <1>2, AlwaysConsistent, PTL DEF Spec, NothingComesBack

\* A served source stays served until its active document is deleted.
THEOREM AlwaysServedUntilDeleted == Spec => ServedUntilDeleted
<1>1. Consistent /\ [Next]_vars =>
        \A s \in Source :
            Active(s) # {} => Active(s)' # {} \/ \E d \in Active(s) : status'[d] = "deleted"
  <2> SUFFICES ASSUME Consistent, [Next]_vars, NEW s \in Source, NEW d \in Active(s)
               PROVE  Active(s)' # {} \/ status'[d] = "deleted"
    OBVIOUS
  <2> USE DEF Consistent, Active, Stored
  <2>1. source'[d] = source[d]
    BY KeptStep DEF Kept
  <2>2. CASE UNCHANGED table
    BY <2>1, <2>2 DEF table
  <2>3. ASSUME NEW w \in Document, Commits(w) PROVE Active(s)' # {}
    <3>1. CASE d \in held[w]
      <4>1. source'[w] = s /\ status'[w] = "active"
        BY <2>3, <3>1 DEF Commits, Supersede, RowsHeld, row
      <4>2. QED
        BY <4>1
    <3>2. CASE d \notin held[w]
      <4>1. status'[d] = "active"
        BY <2>3, <3>2 DEF Commits, Supersede
      <4>2. QED
        BY <2>1, <4>1
    <3>3. QED
      BY <3>1, <3>2
  <2>4. ASSUME NEW x \in Remover, CommitDelete(x)
        PROVE  Active(s)' # {} \/ status'[d] = "deleted"
    BY <2>1, <2>4 DEF CommitDelete
  <2>5. QED
    BY <2>2, <2>3, <2>4, TableStep DEF Tables
<1>2. QED
  BY <1>1, AlwaysConsistent, PTL DEF Spec, ServedUntilDeleted

-------------------------------------------------------------------------------
\* The columns of the version history: those of the stored documents.
Shown(column, blank) == [d \in Document |-> IF status[d] = "absent" THEN blank ELSE column[d]]

\* A step that keeps the tables is no step of the version history.
LEMMA QuietStep ==
  ASSUME Consistent, Kept, UNCHANGED table
  PROVE  UNCHANGED History!vars
BY DEF History!vars, Kept, table

\* What a commit does to the tables, in the words of the version history.
LEMMA CommitPublishes ==
  ASSUME Consistent, NEW w \in Document, Commits(w)
  PROVE  History!Publish(w, source[w], hash[w])
<1> USE DEF Consistent
<1>1. /\ source' = source /\ hash' = hash /\ version' = version
      /\ status[w] = "absent" /\ status'[w] = "active" /\ chunks'[w] = "active"
      /\ source[w] \in Source
  BY DEF Commits, Supersede, row, Begun, Over, TypeOK
<1>2. \A e \in Document : e \in held[w] <=> status[e] = "active" /\ source[e] = source[w]
  BY DEF Commits, InsertedAlone, RowsHeld, Stored, TypeOK, Call
<1>3. \A e \in Document \ {w} :
        /\ status'[e] = IF source[e] = source[w] /\ status[e] = "active" THEN "superseded"
                        ELSE status[e]
        /\ chunks'[e] = status'[e]
  BY <1>2 DEF Commits, Supersede, ChunksFollowDocument
<1>4. History!Stored(source[w]) = Stored(source[w])
  BY <1>1, NoneIsNoValue DEF History!Stored, History!Document, Stored, Document
<1>5. PICK n \in {0} \cup {version[e] : e \in Stored(source[w])} :
        /\ \A e \in Stored(source[w]) : version[e] <= n
        /\ version[w] = n + 1
  <2> DEFINE m == version[w] - 1
  <2>1. m \in Nat /\ version[w] = m + 1 /\ version[w] > 0
    BY DEF Commits, NumbersTaken, Numbered, TypeOK
  <2>2. \A e \in Stored(source[w]) : version[e] <= m
    <3> SUFFICES ASSUME NEW e \in Stored(source[w]) PROVE version[e] <= m
      OBVIOUS
    <3>1. version[e] < version[w] /\ version[e] \in Nat
      BY DEF Commits, InsertedAlone, Stored, TypeOK
    <3>2. QED
      BY <2>1, <3>1
  <2>3. m = 0 \/ \E x \in Stored(source[w]) : version[x] = m
    BY <2>1 DEF Commits, NumbersTaken, Numbered
  <2>4. QED
    BY <2>1, <2>2, <2>3
<1>6. \A e \in Stored(source[w]) : status[e] # "absent" /\ e # w
  BY <1>1 DEF Stored
<1>7. \A e \in Document : status'[e] = "absent" <=> status[e] = "absent" /\ e # w
  BY <1>1, <1>3
<1>8. QED
  <2> USE DEF History!Publish, History!Document, Document
  <2>1. status' = [e \in Document |->
                    IF e = w THEN "active"
                    ELSE IF (IF status[e] = "absent" THEN None ELSE source[e]) = source[w]
                            /\ status[e] = "active" THEN "superseded"
                    ELSE status[e]]
    BY <1>1, <1>3 DEF Commits, Supersede
  <2>2. /\ Shown(source, None)' = [Shown(source, None) EXCEPT ![w] = source[w]]
        /\ Shown(hash, None)' = [Shown(hash, None) EXCEPT ![w] = hash[w]]
        /\ Shown(version, 0)' = [Shown(version, 0) EXCEPT ![w] = version[w]]
    BY <1>1, <1>7 DEF Shown
  <2>3. \A e \in Stored(source[w]) : Shown(version, 0)[e] = version[e]
    BY DEF Shown, Stored
  <2>4. {d \in Document : chunks[d] = "active"}'
          = ({d \in Document : chunks[d] = "active"} \ Stored(source[w])) \cup {w}
    BY <1>1, <1>3 DEF ChunksFollowDocument, Stored
  <2>5. /\ n \in {0} \cup {Shown(version, 0)[e] : e \in Stored(source[w])}
        /\ \A e \in Stored(source[w]) : Shown(version, 0)[e] <= n
    BY <1>5, <2>3
  <2>6. \E m \in {0} \cup {Shown(version, 0)[e] : e \in Stored(source[w])} :
           /\ \A e \in Stored(source[w]) : Shown(version, 0)[e] <= m
           /\ Shown(version, 0)' = [Shown(version, 0) EXCEPT ![w] = m + 1]
    BY <1>5, <2>2, <2>5
  <2>7. QED
    BY <1>1, <1>4, <2>1, <2>2, <2>4, <2>6, Zenon DEF Shown

\* A deletion that holds its row erases it; one that found it deleted changes nothing.
LEMMA DeletionErases ==
  ASSUME Consistent, NEW x \in Remover, CommitDelete(x)
  PROVE  History!Next \/ UNCHANGED History!vars
<1> USE DEF Consistent
<1>1. PICK d \in Document : target[x] = {d}
  BY DEF CommitDelete, Goto, RowsPicked
<1>2. /\ held[x] \subseteq {d}
      /\ d \in held[x] \/ status[d] = "deleted"
      /\ d \in held[x] => status[d] \in {"active", "superseded"}
  BY <1>1 DEF CommitDelete, Goto, RowsPicked, RowsHeld
<1>3. UNCHANGED <<source, hash, version>>
  BY DEF CommitDelete, row
<1>4. CASE d \in held[x]
  <2>1. /\ status' = [status EXCEPT ![d] = "deleted"]
        /\ chunks' = [chunks EXCEPT ![d] = "deleted"]
    BY <1>1, <1>2, <1>4 DEF CommitDelete, TypeOK
  <2>2. History!Erase(d)
    BY <1>2, <1>3, <1>4, <2>1 DEF History!Erase, TypeOK
  <2>3. QED
    BY <2>2 DEF History!Next, History!Document, Document
<1>5. CASE d \notin held[x]
  <2>1. status' = status /\ chunks' = chunks
    BY <1>1, <1>2, <1>5 DEF CommitDelete, TypeOK, ChunksFollowDocument
  <2>2. QED
    BY <1>3, <2>1 DEF History!vars
<1>6. QED
  BY <1>2, <1>4, <1>5

\* Every step publishes, erases, or does nothing the version history shows.
THEOREM IngestImplementsHistory == Spec => ImplementsHistory
<1>1. Init => History!Init
  BY DEF Init, History!Init, History!Document, Document
<1>2. Consistent /\ [Next]_vars => [History!Next]_(History!vars)
  <2> SUFFICES ASSUME Consistent, [Next]_vars
               PROVE  History!Next \/ UNCHANGED History!vars
    OBVIOUS
  <2>1. Kept /\ Tables
    BY KeptStep, TableStep DEF Consistent
  <2>2. CASE UNCHANGED table
    BY <2>1, <2>2, QuietStep
  <2>3. ASSUME NEW w \in Document, Commits(w) PROVE History!Next
    <3>1. History!Publish(w, source[w], hash[w])
      BY <2>3, CommitPublishes
    <3>2. CASE w \in Job
      <4>1. pc[w] = "inserted" /\ w \in Document
        BY <2>3, <3>2 DEF Commits, Document
      <4>2. source[w] \in Source /\ hash[w] \in Hash
        BY <3>2, <4>1 DEF Consistent, Begun, HashKnown, Persisting
      <4>3. \A d \in Live(source[w]) \cap Job : hash[d] # hash[w]
        BY <3>2, <4>1 DEF Consistent, NoDuplicateYet, Persisting
      <4>4. \A d \in History!Live(source[w]) : d \in Live(source[w]) /\ status[d] # "absent"
        BY <4>2, NoneIsNoValue
           DEF History!Live, History!Stored, History!Document, Live, Stored, Document
      <4>5. \A d \in History!Live(source[w]) \cap Job : Shown(hash, None)[d] # hash[w]
        BY <4>3, <4>4 DEF Shown, Live, Stored
      <4>6. History!PublishUpload(w, source[w], hash[w])
        BY <3>1, <4>5 DEF History!PublishUpload, Shown
      <4>7. QED
        BY <3>2, <4>2, <4>6 DEF History!Next
    <3>3. CASE w \in Restorer
      <4>1. PICK e \in Document :
                   status[e] # "absent" /\ source[e] = source[w] /\ hash[e] = hash[w]
        BY <2>3, <3>3 DEF Commits, Consistent, RestoresStored, Persisting
      <4>2. source[w] \in Source /\ hash[w] \in Hash
        BY <4>1 DEF Consistent, Begun, HashKnown, Over
      <4>3. e \in History!Stored(source[w]) /\ Shown(hash, None)[e] = hash[w]
        BY <4>1 DEF Shown, History!Stored, History!Document, Document
      <4>4. History!PublishRestoration(w, source[w], hash[w])
        BY <3>1, <4>3 DEF History!PublishRestoration, Shown
      <4>5. QED
        BY <3>3, <4>2, <4>4 DEF History!Next
    <3>4. QED
      BY <3>2, <3>3 DEF Document
  <2>4. QED
    BY <2>1, <2>2, <2>3, DeletionErases DEF Tables
<1>3. QED
  BY <1>1, <1>2, AlwaysConsistent, PTL DEF Spec, ImplementsHistory, History!Spec
===============================================================================
