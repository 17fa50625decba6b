--------------------------- MODULE MCProxyCapture ---------------------------
(***************************************************************************)
(* Small instances of ProxyCapture.  One is about tool calls: two calls,   *)
(* a cache of one, results replayed, a call issued twice.  The second is   *)
(* about turns: exchanges of one prompt that finish in another order than  *)
(* they started, a failure that issues a call, and a continuation without  *)
(* a prompt that carries the result of the call.  The third has a prompt   *)
(* that is repeated when its turn has expired.                             *)
(***************************************************************************)
EXTENDS ProxyCapture

Exchange(id, anchor, calls, results, start, end, failed) ==
    [id |-> id, scope |-> IF anchor = NULL /\ id \in {"e1", "e2", "e3"} THEN NULL ELSE "s",
     anchor |-> anchor, calls |-> calls, results |-> results,
     start |-> start, end |-> end, failed |-> failed]

MCToolExchanges ==
    { Exchange("e1", NULL, {"k1"},       <<>>,           1, 2, FALSE),
      Exchange("e2", NULL, {"k2"},       <<"k1">>,       1, 2, FALSE),
      Exchange("e3", NULL, {"k1"},       <<"k2", "k1">>, 2, 3, FALSE) }

MCTurnExchanges ==
    { Exchange("t1", "p1", {"k1"}, <<>>, 2, 3, TRUE),
      Exchange("t2", "p1", {}, <<>>, 1, 2, FALSE),
      Exchange("t3", NULL, {}, <<"k1">>, 3, 4, FALSE) }

MCRepeatedPrompt ==
    { Exchange("t1", "p1", {}, <<>>, 1, 1, FALSE),
      Exchange("t2", "p1", {}, <<>>, 2, 3, TRUE),
      Exchange("t3", "p1", {}, <<>>, 4, 4, FALSE) }

\* One of the first two stories is played.
Stories == {MCToolExchanges, MCTurnExchanges}

MCExchanges == UNION Stories

StoriesSpec ==
    /\ \E story \in Stories : InitWith(story)
    /\ [][Next]_vars
    /\ Fairness

==============================================================================
