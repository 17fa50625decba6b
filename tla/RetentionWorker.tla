-------------------------- MODULE RetentionWorker --------------------------
(***************************************************************************)
(* The retention worker of internal/store/retention.go, started by main's  *)
(* runRetention, and what it shares the database with: ingest, readers and *)
(* imports.  retentionMu is held by one purge or by one import.  A purge   *)
(* turns SQLite's automatic checkpoints off, deletes batches of expired    *)
(* traces with a checkpoint after each, reclaims the space and turns the   *)
(* checkpoints on again; an error on the way gets one attempt to reclaim.  *)
(*                                                                         *)
(* What a batch deletes is in SpanStore: here a trace is a name, and `old' *)
(* are the stored traces that have expired.  The write-ahead log and the   *)
(* space to reclaim are counts.                                            *)
(***************************************************************************)
EXTENDS Integers, FiniteSets

CONSTANTS
    Traces,       \* names of old traces that clients send
    BatchSize,    \* PURGE_BATCH_SIZE
    MergeEvery,   \* FTS_MERGE_EVERY
    WalLimit,     \* frames at which a checkpoint insists (8192)
    MaxReaders,   \* open read snapshots
    MaxArrivals   \* bound on the old traces that arrive

ASSUME SizesArePositive ==
    /\ {BatchSize, MergeEvery, WalLimit} \subseteq Nat \ {0}
    /\ {MaxReaders, MaxArrivals} \subseteq Nat

VARIABLES
    mu,        \* who holds retentionMu: nobody, a purge or an import
    worker,    \* the goroutine of runRetention
    policy,    \* PRAGMA wal_autocheckpoint of the writer connection
    importer,  \* the import request: [at, stored]
    old,       \* the expired traces in the database
    wal,       \* frames in the write-ahead log, up to WalLimit
    garbage,   \* delete postings and free pages left to reclaim
    readers,   \* open read snapshots
    arrivals   \* old traces that arrived so far

vars == <<mu, worker, policy, importer, old, wal, garbage, readers, arrivals>>

store == <<policy, old, wal, garbage>>
others == <<importer, readers, arrivals>>

Asleep == [at |-> "asleep", saved |-> "default", batches |-> 0, reclaims |-> 0,
           limit |-> 0, resume |-> "asleep", canceled |-> FALSE, broken |-> FALSE]

NoImport == [at |-> "none", stored |-> {}]

Init ==
    /\ mu = "free"
    /\ worker = Asleep
    /\ policy = "default"
    /\ importer = NoImport
    /\ old = {}
    /\ wal = 0
    /\ garbage = 0
    /\ readers = 0
    /\ arrivals = 0

\* A commit that adds to the log; SQLite resets a full one by itself if it may.
Logged ==
    IF wal < WalLimit THEN wal + 1
    ELSE IF policy = "default" /\ readers = 0 THEN 1 ELSE WalLimit

------------------------------------------------------------------------------
(* Purge *)

\* Mutant of Wake: the purge does not look at retentionMu.
WakeAnyway ==
    /\ worker.at = "asleep"
    /\ mu' = "purge"
    /\ worker' = [Asleep EXCEPT !.at = "policy", !.broken = worker.broken]
    /\ UNCHANGED <<store, others>>

\* TryLock.  While it is taken the sweep is skipped and tried again later.
Wake ==
    /\ worker.at = "asleep"
    /\ mu = "free"
    /\ mu' = "purge"
    /\ worker' = [Asleep EXCEPT !.at = "policy", !.broken = worker.broken]
    /\ UNCHANGED <<store, others>>

ReadPolicy ==
    /\ worker.at = "policy"
    /\ worker' = [worker EXCEPT !.at = "off", !.saved = policy]
    /\ UNCHANGED <<mu, store, others>>

TurnOff ==
    /\ worker.at = "off"
    /\ policy' = "off"
    /\ worker' = [worker EXCEPT !.at = "rows"]
    /\ UNCHANGED <<mu, old, wal, garbage, others>>

\* The deletes of proxy_tool_calls and proxy_turns (see ProxyCapture).
PurgeRows ==
    /\ worker.at = "rows"
    /\ wal' = Logged
    /\ worker' = [worker EXCEPT !.at = "batch"]
    /\ UNCHANGED <<mu, policy, old, garbage, others>>

\* purgeBatch, when it finds something to delete.
PurgeBatch ==
    /\ worker.at = "batch"
    /\ old # {}
    /\ \E gone \in SUBSET old :
          /\ \/ Cardinality(gone) = BatchSize
             \/ gone = old /\ Cardinality(old) < BatchSize
          /\ old' = old \ gone
    /\ wal' = Logged
    /\ garbage' = garbage + 1
    /\ worker' = [worker EXCEPT
                     !.at      = IF (worker.batches + 1) % MergeEvery = 0
                                 THEN "merge" ELSE "checkpoint",
                     !.batches = @ + 1,
                     !.limit   = WalLimit,
                     !.resume  = "batch"]
    /\ UNCHANGED <<mu, policy, others>>

\* purgeBatch finds nothing: the last part of the purge begins.
PurgeDone ==
    /\ worker.at = "batch"
    /\ old = {}
    /\ worker' = [worker EXCEPT !.at = "reclaim", !.reclaims = @ + 1]
    /\ UNCHANGED <<mu, store, others>>

\* mergeFTS after every MergeEvery batches.
Merge ==
    /\ worker.at = "merge"
    /\ wal' = Logged
    /\ worker' = [worker EXCEPT !.at = "checkpoint"]
    /\ UNCHANGED <<mu, policy, old, garbage, others>>

\* checkpointRetention: PASSIVE is enough below the limit.
CheckpointPassive ==
    /\ worker.at = "checkpoint"
    /\ wal < worker.limit
    /\ worker' = [worker EXCEPT !.at = worker.resume]
    /\ UNCHANGED <<mu, store, others>>

\* checkpointRetention: at the limit TRUNCATE is tried until no snapshot keeps
\* the log.
CheckpointTruncate ==
    /\ worker.at = "checkpoint"
    /\ wal >= worker.limit
    /\ readers = 0 \/ wal = 0
    /\ wal' = 0
    /\ worker' = [worker EXCEPT !.at = worker.resume]
    /\ UNCHANGED <<mu, policy, old, garbage, others>>

\* reclaim: one merge or vacuum step with its checkpoint, or the last checkpoint.
Reclaim ==
    /\ worker.at = "reclaim"
    /\ IF garbage > 0
       THEN /\ garbage' = garbage - 1
            /\ wal' = Logged
            /\ worker' = [worker EXCEPT !.at = "checkpoint", !.limit = WalLimit,
                                        !.resume = "reclaim"]
       ELSE /\ worker' = [worker EXCEPT !.at = "checkpoint", !.limit = 0,
                                        !.resume = "restore"]
            /\ UNCHANGED <<garbage, wal>>
    /\ UNCHANGED <<mu, policy, old, others>>

\* Mutant of Recovers: an error while reclaiming starts to reclaim again.
RecoversAlways == ~ worker.canceled

\* The deferred cleanup of purge runs unless the last part had begun or the
\* purge was canceled.
Recovers == worker.reclaims = 0 /\ ~ worker.canceled

\* A statement fails, or its context ends, while traces are being deleted.
FailPurging ==
    /\ worker.at \in {"batch", "merge", "checkpoint", "reclaim"}
    /\ worker' = [worker EXCEPT
                     !.at       = IF Recovers THEN "reclaim" ELSE "restore",
                     !.reclaims = IF Recovers THEN @ + 1 ELSE @]
    /\ UNCHANGED <<mu, store, others>>

\* Mutant of FailEarly: the deferred restore is registered too late.
FailEarlyUnrestored ==
    /\ worker.at \in {"policy", "off", "rows"}
    /\ worker' = [worker EXCEPT !.at = "unlock"]
    /\ UNCHANGED <<mu, store, others>>

\* A statement fails before the first batch; the restore is deferred as soon as
\* the policy has been read.
FailEarly ==
    /\ worker.at \in {"policy", "off", "rows"}
    /\ worker' = [worker EXCEPT !.at = IF @ = "policy" THEN "unlock" ELSE "restore"]
    /\ UNCHANGED <<mu, store, others>>

\* The context of the purge is canceled.
Cancel ==
    /\ worker.at # "asleep"
    /\ ~ worker.canceled
    /\ worker' = [worker EXCEPT !.canceled = TRUE]
    /\ UNCHANGED <<mu, store, others>>

Restore ==
    /\ worker.at = "restore"
    /\ policy' = worker.saved
    /\ worker' = [worker EXCEPT !.at = "unlock"]
    /\ UNCHANGED <<mu, old, wal, garbage, others>>

\* The pragma that restores the policy fails; remembered for PolicyRestored.
RestoreFails ==
    /\ worker.at = "restore"
    /\ worker' = [worker EXCEPT !.at = "unlock", !.broken = TRUE]
    /\ UNCHANGED <<mu, store, others>>

\* Mutant of Unlock: an error that could not be cleaned up keeps the lock.
UnlockUnlessBroken ==
    /\ worker.at = "unlock"
    /\ ~ worker.broken
    /\ mu' = "free"
    /\ worker' = Asleep
    /\ UNCHANGED <<store, others>>

\* The deferred Unlock.
Unlock ==
    /\ worker.at = "unlock"
    /\ mu' = "free"
    /\ worker' = [Asleep EXCEPT !.broken = worker.broken]
    /\ UNCHANGED <<store, others>>

------------------------------------------------------------------------------
(* The others *)

\* Old spans arrive by ingest, in a trace that may be stored already.
Ingest(t) ==
    /\ arrivals < MaxArrivals
    /\ arrivals' = arrivals + 1
    /\ old' = old \cup {t}
    /\ wal' = Logged
    /\ UNCHANGED <<mu, worker, policy, importer, garbage, readers>>

ImportRequest ==
    /\ importer.at = "none"
    /\ importer' = [NoImport EXCEPT !.at = "waiting"]
    /\ UNCHANGED <<mu, worker, store, readers, arrivals>>

\* PauseRetention
ImportLock ==
    /\ importer.at = "waiting"
    /\ mu = "free"
    /\ mu' = "import"
    /\ importer' = [importer EXCEPT !.at = "running"]
    /\ UNCHANGED <<worker, store, readers, arrivals>>

\* flush commits one batch of the file.
ImportBatch(t) ==
    /\ importer.at = "running"
    /\ arrivals < MaxArrivals
    /\ arrivals' = arrivals + 1
    /\ old' = old \cup {t}
    /\ wal' = Logged
    /\ importer' = [importer EXCEPT !.stored = @ \cup {t}]
    /\ UNCHANGED <<mu, worker, policy, garbage, readers>>

\* The file is finished, or a line or a batch fails; earlier batches stay.
ImportEnd ==
    /\ importer.at = "running"
    /\ importer' = NoImport
    /\ mu' = "free"
    /\ UNCHANGED <<worker, store, readers, arrivals>>

OpenReader ==
    /\ readers < MaxReaders
    /\ readers' = readers + 1
    /\ UNCHANGED <<mu, worker, store, importer, arrivals>>

CloseReader ==
    /\ readers > 0
    /\ readers' = readers - 1
    /\ UNCHANGED <<mu, worker, store, importer, arrivals>>

\* The pragma belongs to the connection: a new process has the default again.
Crash ==
    /\ mu' = "free"
    /\ worker' = Asleep
    /\ policy' = "default"
    /\ importer' = NoImport
    /\ readers' = 0
    /\ UNCHANGED <<old, wal, garbage, arrivals>>

Running ==
    \/ ReadPolicy \/ TurnOff \/ PurgeRows
    \/ PurgeBatch \/ PurgeDone \/ Merge
    \/ CheckpointPassive \/ CheckpointTruncate
    \/ Reclaim \/ Restore \/ Unlock

Next ==
    \/ Wake \/ Running
    \/ FailEarly \/ FailPurging \/ Cancel \/ RestoreFails
    \/ \E t \in Traces : Ingest(t) \/ ImportBatch(t)
    \/ ImportRequest \/ ImportLock \/ ImportEnd
    \/ OpenReader \/ CloseReader
    \/ Crash

Spec == Init /\ [][Next]_vars

\* The worker runs on; a reader ends, by the server's write timeout if not
\* before; TRUNCATE, tried again and again, meets a moment without an older
\* snapshot; Go's mutex does not starve the import, whose body ends by the
\* server's read timeout.  Nothing else has to happen.
FairSpec ==
    /\ Spec
    /\ WF_vars(Running)
    /\ WF_vars(CloseReader)
    /\ SF_vars(CheckpointTruncate)
    /\ SF_vars(ImportLock)
    /\ WF_vars(ImportEnd)

------------------------------------------------------------------------------
(* Properties *)

Steps == {"asleep", "policy", "off", "rows", "batch", "merge", "checkpoint",
          "reclaim", "restore", "unlock"}

\* The shape of the state, and who may hold retentionMu; a purge reclaims at most
\* once, as its last part or after an error, not both.
TypeOK ==
    /\ mu = "purge" <=> worker.at # "asleep"
    /\ mu = "import" <=> importer.at = "running"
    /\ worker.at \in Steps
    /\ worker.resume \in Steps
    /\ worker.batches \in Nat
    /\ worker.reclaims \in {0, 1}
    /\ policy \in {"default", "off"}
    /\ importer.at \in {"none", "waiting", "running"}
    /\ importer.stored \subseteq Traces
    /\ old \subseteq Traces
    /\ wal \in 0 .. WalLimit
    /\ garbage \in Nat
    /\ readers \in 0 .. MaxReaders
    /\ arrivals \in 0 .. MaxArrivals

\* Whatever an import has committed is still there while it goes on, however old
\* it is: a purge neither runs during an import nor goes on into one.
ImportedStay == importer.at = "running" => importer.stored \subseteq old

\* Between purges the writer connection checkpoints by itself again, however the
\* purges ended, unless the restoring pragma itself has failed.
PolicyRestored ==
    worker.at = "asleep" /\ ~ worker.broken => policy = "default"

\* A canceled purge that has not deleted everything does not begin to reclaim.
CanceledSkipsCleanup ==
    [][worker.canceled /\ old # {} => worker'.reclaims <= worker.reclaims]_vars

\* Every purge ends, if arrivals do and readers leave the log now and then, and an
\* import that waits for a purge gets its turn, or its process dies.
PurgesAndImportsProceed ==
    /\ worker.at # "asleep" ~> worker.at = "asleep"
    /\ importer.at = "waiting" ~> importer.at # "waiting"

==============================================================================
