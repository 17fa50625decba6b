------------------------------ MODULE SpanLedger ------------------------------
(***************************************************************************)
(* What the store promises of its spans, without transactions, summary     *)
(* rows or triggers: a batch is recorded whole or not at all, the latest   *)
(* write of a key wins, no batch is recorded that takes the cost of a      *)
(* trace out of range, and retention removes whole traces, all of whose    *)
(* spans have ended and are old.  SpanStore implements this.               *)
(***************************************************************************)
EXTENDS SpanTable

VARIABLE spans

Init == spans = {}

Record(batch) ==
    /\ SpanCostsInRange(batch)
    /\ spans' = UpsertAll(spans, batch)
    /\ SumsInRange(spans', TracesOfBatch(batch))

Expire(cutoff) ==
    \E gone \in SUBSET {t \in TracesOf(spans) : LongOver(spans, t, cutoff)} :
        spans' = {s \in spans : s.trace \notin gone}

Next ==
    \/ \E batch \in Batches : Record(batch)
    \/ \E cutoff \in Cutoffs : Expire(cutoff)

Spec == Init /\ [][Next]_spans

==============================================================================
