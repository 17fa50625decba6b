--------------------------- MODULE RecentArrivals ---------------------------
(***************************************************************************)
(* SpanStore with a clock: retention sweeps delete by the cutoff that      *)
(* retentionSweep computes from it, and each trace has the time its last   *)
(* batch was committed.  OTLP clients and POST /import may send spans that *)
(* ended long ago.                                                         *)
(***************************************************************************)
EXTENDS SpanStore

CONSTANTS
    Retention,  \* RETENTION_DAYS
    LastTick    \* bound on the clock

VARIABLES
    clock,   \* the present
    arrived  \* history: for each trace, when its last batch was committed

allVars == <<db, tx, clock, arrived>>

InitArrivals ==
    /\ Init
    /\ clock = 0
    /\ arrived = [t \in TraceIds |-> 0]

\* A batch of spans that have ended.
Arrive(batch) ==
    /\ \A i \in DOMAIN batch : batch[i].end <= clock
    /\ BeginInsert(batch)

\* Purge with the cutoff of retentionSweep.
Sweep == BeginPurge(clock - Retention)

Store ==
    \/ \E batch \in Batches : Arrive(batch)
    \/ UpsertSpan
    \/ \E t \in tx.touched : RecomputeTrace(t)
    \/ Sweep
    \/ DeleteSpans
    \/ DeleteTraces
    \/ Rollback

NextArrivals ==
    \/ Store /\ UNCHANGED <<clock, arrived>>
    \/ /\ Commit
       /\ arrived' = [t \in TraceIds |-> IF t \in TracesOfBatch(tx.batch) THEN clock
                                         ELSE arrived[t]]
       /\ UNCHANGED clock
    \/ /\ clock < LastTick
       /\ clock' = clock + 1
       /\ UNCHANGED <<db, tx, arrived>>

SpecArrivals == InitArrivals /\ [][NextArrivals]_allVars

\* docs/retention.md: "A trace that still contains unfinished spans or recent
\* arrivals is never deleted."
NeverPurgesRecentArrivals ==
    [][\A t \in TracesOf(db.spans) \ TracesOf(db'.spans) :
          arrived[t] < tx.cutoff]_allVars

==============================================================================
