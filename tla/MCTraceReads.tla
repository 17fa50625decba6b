----------------------------- MODULE MCTraceReads -----------------------------
(***************************************************************************)
(* A small instance of TraceReads, and so of SpanStore: two traces of at   *)
(* most two spans, written by batches picked so that the hard cases meet   *)
(* each other: a key written twice in one batch, a batch over two traces,  *)
(* a span rewritten with another text or a later start, a child that       *)
(* starts before its root, a span that ends before it starts, a late span, *)
(* a span that is its own parent, spans without a time, a missing cost and *)
(* a sum over the limit.                                                   *)
(***************************************************************************)
EXTENDS TraceReads

Root(t, name, start, end, cost) ==
    [trace |-> t, id |-> 1, parent |-> NULL, name |-> name, kind |-> "llm",
     start |-> start, end |-> end, error |-> FALSE, tokens |-> 1, cost |-> cost,
     session |-> 1, model |-> "m1"]

Child(t, name, start, end, cost) ==
    [Root(t, name, start, end, cost) EXCEPT !.id = 2, !.parent = 1, !.error = TRUE,
                                            !.session = 2, !.model = "m2"]

Tool(t, start, end) ==
    [Child(t, "a", start, end, NULL) EXCEPT !.kind = "tool", !.tokens = NULL,
                                            !.session = NULL, !.model = NULL]

MCBatches ==
    { <<Root(1, "a", 2, 3, 2)>>,
      <<Root(1, "b", 3, 1, NULL)>>,
      <<Child(1, "a", 1, 2, 1), Child(1, "b", 1, 2, 2)>>,
      <<[Tool(1, 3, 5) EXCEPT !.parent = 2]>>,
      <<Root(2, "a", 0, 0, 3), Root(1, "b", 0, 0, 1)>>,
      <<Tool(2, 4, 2), Root(2, "a", 2, 3, 0)>> }

MCCutoffs == {4}

List(of, from, to, errors) ==
    [of |-> of, from |-> from, to |-> to, errors |-> errors, phrase |-> "a"]

MCLists ==
    {List("traces", 0, 0, FALSE), List("traces", 2, 4, TRUE),
     List("sessions", 0, 0, FALSE), List("search", 0, 0, FALSE)}

MCRanges == {[from |-> 1, to |-> 4]}

==============================================================================
