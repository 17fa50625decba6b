--------------------------- MODULE MCIngestEvents ---------------------------
(***************************************************************************)
(* A small instance of IngestEvents: a batch that writes two spans of a    *)
(* trace, one that writes the second again without a cost, and one without *)
(* spans; two slots, queues of one event, and two clients of which one     *)
(* asks for slow spans and the other for costs.                            *)
(***************************************************************************)
EXTENDS IngestEvents

S(trace, id, error, duration, cost) ==
    [trace |-> trace, id |-> id, error |-> error, duration |-> duration, cost |-> cost]

MCSpans ==
    [r1 |-> <<S("t1", 1, FALSE, 2, 1), S("t1", 2, TRUE, 1, 2)>>,
     r2 |-> <<S("t1", 2, FALSE, 2, NULL)>>,
     r3 |-> <<>>]

MCSpan == UNION {ToSet(MCSpans[r]) : r \in DOMAIN MCSpans}

MCMinDuration == [c1 |-> 1, c2 |-> NULL]

MCMinCost == [c1 |-> NULL, c2 |-> 0]

==============================================================================
