-------------------------- MODULE MCRecentArrivals --------------------------
(* One trace, one span that ended at time 2, and sweeps up to time 4. *)
EXTENDS RecentArrivals

MCBatches ==
    { << [trace |-> 1, id |-> 1, parent |-> NULL, name |-> "a", kind |-> "llm",
          start |-> 1, end |-> 2, error |-> FALSE, tokens |-> 1, cost |-> 1,
          session |-> NULL, model |-> "m1"] >> }

==============================================================================
