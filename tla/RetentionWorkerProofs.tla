----------------------- MODULE RetentionWorkerProofs -----------------------
(***************************************************************************)
(* The safety properties of RetentionWorker, for any traces, batch size,   *)
(* merge interval, log limit and number of readers.  Each is a consequence *)
(* of one invariant that says, for every step of a purge, what the saved   *)
(* policy is and how often the purge has begun to reclaim.                 *)
(***************************************************************************)
EXTENDS RetentionWorker, TLAPS

\* The fields of the worker and of the import.
FieldsOK ==
    /\ DOMAIN worker = DOMAIN Asleep
    /\ worker.canceled \in BOOLEAN
    /\ worker.broken \in BOOLEAN
    /\ worker.saved \in {"default", "off"}
    /\ DOMAIN importer = DOMAIN NoImport
    /\ importer.at # "running" => importer.stored = {}

\* As long as no restoring pragma has failed: the policy is the default until it
\* is turned off, what was saved is the default, and so is what was restored.
PolicyInv ==
    ~ worker.broken =>
        /\ worker.at \in {"asleep", "policy", "off", "unlock"} => policy = "default"
        /\ worker.at \notin {"asleep", "policy", "unlock"} => worker.saved = "default"

\* A purge has begun to reclaim exactly if it is past its batches.
ReclaimInv ==
    /\ worker.at \in {"policy", "off", "rows", "batch", "merge"} => worker.reclaims = 0
    /\ worker.at = "merge" => worker.resume = "batch"
    /\ worker.at = "reclaim" => worker.reclaims = 1
    /\ worker.at = "checkpoint" =>
          \/ worker.resume = "batch" /\ worker.reclaims = 0
          \/ worker.resume \in {"reclaim", "restore"} /\ worker.reclaims = 1

IInv == TypeOK /\ FieldsOK /\ PolicyInv /\ ReclaimInv /\ ImportedStay

\* A commit keeps the log within its bound.
LEMMA LoggedIsFrames ==
    ASSUME wal \in 0 .. WalLimit
    PROVE  Logged \in 0 .. WalLimit
BY SizesArePositive DEF Logged

\* The invariant holds when the process starts on an empty database.
LEMMA InitEstablishesIInv == Init => IInv
BY SizesArePositive
   DEF Init, IInv, TypeOK, FieldsOK, PolicyInv, ReclaimInv, ImportedStay, Asleep,
       NoImport, Steps

\* Every step of the worker keeps the invariant.
LEMMA WorkerKeepsIInv ==
    ASSUME IInv, Wake \/ Running \/ FailEarly \/ FailPurging \/ Cancel \/ RestoreFails
    PROVE  IInv'
<1>. USE DEF IInv, TypeOK, FieldsOK, PolicyInv, ReclaimInv, ImportedStay, Asleep,
             NoImport, Steps, store, others
<1>0. Logged \in 0 .. WalLimit
  BY LoggedIsFrames
<1>1. CASE Wake
  BY <1>1 DEF Wake
<1>2. CASE ReadPolicy
  BY <1>2 DEF ReadPolicy
<1>3. CASE TurnOff
  BY <1>3 DEF TurnOff
<1>4. CASE PurgeRows
  BY <1>0, <1>4 DEF PurgeRows
<1>5. CASE PurgeBatch
  BY <1>0, <1>5 DEF PurgeBatch
<1>6. CASE PurgeDone
  BY <1>6 DEF PurgeDone
<1>7. CASE Merge
  BY <1>0, <1>7 DEF Merge
<1>8. CASE CheckpointPassive
  BY <1>8 DEF CheckpointPassive
<1>9. CASE CheckpointTruncate
  BY <1>9, SizesArePositive DEF CheckpointTruncate
<1>10. CASE Reclaim
  <2>1. CASE garbage > 0
    <3>1. garbage' \in Nat /\ wal' \in 0 .. WalLimit
      BY <1>0, <1>10, <2>1 DEF Reclaim
    <3>2. worker' = [worker EXCEPT !.at = "checkpoint", !.limit = WalLimit,
                                   !.resume = "reclaim"]
      BY <1>10, <2>1 DEF Reclaim
    <3>. QED
      BY <1>10, <3>1, <3>2 DEF Reclaim
  <2>2. CASE ~ garbage > 0
    <3>1. worker' = [worker EXCEPT !.at = "checkpoint", !.limit = 0,
                                   !.resume = "restore"]
      BY <1>10, <2>2 DEF Reclaim
    <3>2. UNCHANGED <<garbage, wal>>
      BY <1>10, <2>2 DEF Reclaim
    <3>. QED
      BY <1>10, <3>1, <3>2 DEF Reclaim
  <2>. QED
    BY <2>1, <2>2
<1>11. CASE Restore
  BY <1>11 DEF Restore
<1>12. CASE Unlock
  BY <1>12 DEF Unlock
<1>13. CASE FailEarly
  BY <1>13 DEF FailEarly
<1>14. CASE FailPurging
  BY <1>14 DEF FailPurging, Recovers
<1>15. CASE Cancel
  BY <1>15 DEF Cancel
<1>16. CASE RestoreFails
  BY <1>16 DEF RestoreFails
<1>. QED
  BY <1>1, <1>2, <1>3, <1>4, <1>5, <1>6, <1>7, <1>8, <1>9, <1>10, <1>11, <1>12,
     <1>13, <1>14, <1>15, <1>16 DEF Running

\* Ingest, imports, readers and a crash keep the invariant.
LEMMA OthersKeepIInv ==
    ASSUME IInv,
           \/ \E t \in Traces : Ingest(t) \/ ImportBatch(t)
           \/ ImportRequest \/ ImportLock \/ ImportEnd
           \/ OpenReader \/ CloseReader \/ Crash
    PROVE  IInv'
<1>. USE DEF IInv, TypeOK, FieldsOK, PolicyInv, ReclaimInv, ImportedStay, Asleep,
             NoImport, Steps, store, others
<1>0. Logged \in 0 .. WalLimit
  BY LoggedIsFrames
<1>1. ASSUME NEW t \in Traces, Ingest(t) PROVE IInv'
  BY <1>0, <1>1, SizesArePositive DEF Ingest
<1>2. ASSUME NEW t \in Traces, ImportBatch(t) PROVE IInv'
  BY <1>0, <1>2, SizesArePositive DEF ImportBatch
<1>3. CASE ImportRequest
  BY <1>3 DEF ImportRequest
<1>4. CASE ImportLock
  BY <1>4 DEF ImportLock
<1>5. CASE ImportEnd
  BY <1>5 DEF ImportEnd
<1>6. CASE OpenReader \/ CloseReader
  BY <1>6, SizesArePositive DEF OpenReader, CloseReader
<1>7. CASE Crash
  BY <1>7, SizesArePositive DEF Crash
<1>. QED
  BY <1>1, <1>2, <1>3, <1>4, <1>5, <1>6, <1>7

\* The invariant of every reachable state.
THEOREM WorkerInvariant == Spec => []IInv
<1>1. IInv /\ [Next]_vars => IInv'
  <2>. SUFFICES ASSUME IInv, [Next]_vars PROVE IInv'
    OBVIOUS
  <2>1. CASE UNCHANGED vars
    BY <2>1 DEF IInv, TypeOK, FieldsOK, PolicyInv, ReclaimInv, ImportedStay, vars
  <2>. QED
    BY <2>1, WorkerKeepsIInv, OthersKeepIInv DEF Next
<1>. QED
  BY <1>1, InitEstablishesIInv, PTL DEF Spec

\* retentionMu is held by a purge or by an import, never by both, and the state
\* keeps its shape.
THEOREM WorkerTypeCorrect == Spec => []TypeOK
<1>1. IInv => TypeOK
  BY DEF IInv
<1>. QED
  BY <1>1, WorkerInvariant, PTL

\* What an import has committed is there while it goes on.
THEOREM ImportedStayHolds == Spec => []ImportedStay
<1>1. IInv => ImportedStay
  BY DEF IInv
<1>. QED
  BY <1>1, WorkerInvariant, PTL

\* However a purge ends, the automatic checkpoints are on again.
THEOREM PolicyRestoredHolds == Spec => []PolicyRestored
<1>1. IInv => PolicyRestored
  BY DEF IInv, PolicyInv, PolicyRestored
<1>. QED
  BY <1>1, WorkerInvariant, PTL

\* Cancellation skips the cleanup of a purge that is not done.
THEOREM CanceledSkipsCleanupHolds == Spec => CanceledSkipsCleanup
<1>. DEFINE Skips == worker.canceled /\ old # {} => worker'.reclaims <= worker.reclaims
<1>1. IInv /\ [Next]_vars => [Skips]_vars
  <2>. SUFFICES ASSUME IInv, Next PROVE Skips
    OBVIOUS
  <2>. DEFINE Domain == {"at", "saved", "batches", "reclaims", "limit", "resume",
                         "canceled", "broken"}
  <2>0. worker.reclaims \in {0, 1} /\ DOMAIN worker = Domain
    BY DEF IInv, TypeOK, FieldsOK, Asleep
  <2>1. CASE PurgeDone
    BY <2>1 DEF PurgeDone
  <2>2. CASE \/ ReadPolicy \/ TurnOff \/ PurgeRows \/ PurgeBatch \/ Merge
             \/ CheckpointPassive \/ CheckpointTruncate \/ Reclaim \/ Restore
             \/ FailEarly \/ Cancel \/ RestoreFails
    <3>1. worker'.reclaims = worker.reclaims
      <4>1. CASE PurgeBatch \/ Merge \/ CheckpointPassive \/ CheckpointTruncate
        BY <2>0, <4>1 DEF PurgeBatch, Merge, CheckpointPassive, CheckpointTruncate
      <4>2. CASE Reclaim
        BY <2>0, <4>2 DEF Reclaim
      <4>3. CASE ReadPolicy \/ TurnOff \/ PurgeRows \/ Restore
        BY <2>0, <4>3 DEF ReadPolicy, TurnOff, PurgeRows, Restore
      <4>4. CASE FailEarly \/ Cancel \/ RestoreFails
        BY <2>0, <4>4 DEF FailEarly, Cancel, RestoreFails
      <4>. QED
        BY <2>2, <4>1, <4>2, <4>3, <4>4
    <3>. QED
      BY <2>0, <3>1
  <2>3. CASE Wake \/ Unlock \/ Crash
    <3>1. worker'.reclaims = 0
      <4>1. Asleep.reclaims = 0 /\ DOMAIN Asleep = Domain
        BY DEF Asleep
      <4>2. CASE Wake
        BY <4>1, <4>2 DEF Wake
      <4>3. CASE Unlock \/ Crash
        BY <4>1, <4>3 DEF Unlock, Crash
      <4>. QED
        BY <2>3, <4>2, <4>3
    <3>. QED
      BY <2>0, <3>1
  <2>4. CASE FailPurging
    <3>1. worker.canceled => worker'.reclaims = worker.reclaims
      BY <2>0, <2>4 DEF FailPurging, Recovers
    <3>. QED
      BY <2>0, <3>1
  <2>5. CASE UNCHANGED worker
    BY <2>0, <2>5
  <2>. QED
    BY <2>1, <2>2, <2>3, <2>4, <2>5
    DEF Next, Running, Ingest, ImportBatch, ImportRequest, ImportLock, ImportEnd,
        OpenReader, CloseReader
<1>. QED
  BY <1>1, WorkerInvariant, PTL DEF Spec, CanceledSkipsCleanup

==============================================================================
