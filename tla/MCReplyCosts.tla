---------------------------- MODULE MCReplyCosts ----------------------------
(***************************************************************************)
(* Small instances of ReplyCosts and StreamParsing: replies of up to three *)
(* items, with adjacent texts, a text after a thought (shown as one or     *)
(* not) or a call, and two calls; usages with every mix of cached tokens,  *)
(* one too dear and one beyond counting; names that are listed as they     *)
(* are, without a prefix, under an alias of the provider, by the answer    *)
(* only, and not at all.                                                   *)
(***************************************************************************)
EXTENDS ReplyCosts

Text(body)  == [kind |-> "text", call |-> NULL, body |-> body]
Think(body) == [kind |-> "thinking", call |-> NULL, body |-> body]
Thought(body) == [kind |-> "text", call |-> ThoughtMark, body |-> body]
Call(id, tool, body) == [kind |-> "call", call |-> [id |-> id, tool |-> tool], body |-> body]

Hello == Text(<<"a", "b", "c">>)
Short == Text(<<"b">>)
First == Call("c1", "f", <<"{", "x", "}">>)
Other == Call("c2", "f", <<"{", "y", "y", "}">>)
Unnamed == Call(NULL, "f", <<"{", "x", "}">>)

Said == {<<Hello>>, <<Hello, First>>, <<Hello, First, Other>>, <<First, Other>>,
           <<Hello, Short>>, <<Short, First, Hello>>}

\* Chat completions have one text, before the calls.
MCReplies ==
    [anthropic |-> Said \cup {<<Think(<<"t", "t">>), Hello, First>>},
     chat      |-> {<<Hello>>, <<Hello, First>>, <<Hello, First, Other>>, <<First, Other>>},
     responses |-> Said,
     gemini    |-> Said \cup {<<Hello, Unnamed, Unnamed>>,
                             <<Thought(<<"t", "t">>), Hello, First>>}]

Used(fresh, read, created, thought) ==
    [fresh |-> fresh, read |-> read, created |-> created, thought |-> thought]

\* Only one vendor has prices for writing to the cache and reports it.
MCUsages ==
    [anthropic |-> {Used(2, 0, 0, 0), Used(1, 3, 0, 1), Used(1, 0, 4, 0), Used(2, 2, 3, 0)},
     chat      |-> {Used(2, 0, 0, 0), Used(1, 3, 0, 1), Used(40, 0, 0, 0)},
     responses |-> {Used(2, 0, 0, 0), Used(1, 3, 0, 1)},
     gemini    |-> {Used(2, 0, 0, 0), Used(1, 3, 0, 2), Used(10, 8, 0, 0), Used(18, 14, 0, 0)}]

MCMaxTokens == 30
MCMaxCost   == 90

Rate(input, output, read, created) ==
    [input |-> input, output |-> output, read |-> read, created |-> created]

Model(prefix, base) == [prefix |-> prefix, base |-> base]

Listed == Model(NULL, "listed")
Dated  == Model(NULL, "dated")

MCPrices ==
    Listed :> Rate(3, 5, 1, 4)
    @@ Dated :> Rate(2, 6, NULL, NULL)
    @@ Model("gemini", "aliased") :> Rate(4, 7, 2, NULL)
    @@ Model("anthropic", "aliased") :> Rate(4, 7, NULL, 5)
    @@ Model(NULL, "half") :> Rate(3, NULL, 1, 1)

Called(request, response, needs, rate) ==
    [request |-> request, response |-> response, needs |-> needs, rate |-> rate]

ByAnyone ==
    {Called(Listed, NULL, {}, Rate(3, 5, 1, 4)),
     Called(Model("vendor", "listed"), NULL, {}, Rate(3, 5, 1, 4)),
     Called(Listed, Dated, {"response"}, Rate(2, 6, 2, 2)),
     Called(Model(NULL, "latest"), Dated, {"response"}, Rate(2, 6, 2, 2)),
     Called(Model(NULL, "half"), NULL, {}, NULL)}

Aliased(rate) == Called(Model(NULL, "aliased"), NULL, {"provider"}, rate)

MCNames ==
    [anthropic |-> ByAnyone \cup {Aliased(Rate(4, 7, 4, 5))},
     chat      |-> ByAnyone \cup {Aliased(NULL)},
     responses |-> ByAnyone,
     gemini    |-> ByAnyone \cup {Aliased(Rate(4, 7, 2, 4))}]

Stated(details, total, cost, refused) ==
    [details |-> details, total |-> total, cost |-> cost, refused |-> refused]

\* Parts, parts with a total, a total that does not parse, another library's, and
\* amounts out of range, also where their sum is not.
MCStatements ==
    {Stated("input" :> 2 @@ "output" :> 3, NULL, 5, FALSE),
     Stated("input" :> 2 @@ "total" :> 0, 7, 0, FALSE),
     Stated("input" :> 2 @@ "total" :> NULL, 7, 2, FALSE),
     Stated(NULL, 7, 7, FALSE),
     Stated("input" :> -1 @@ "output" :> 3, NULL, 2, TRUE),
     Stated("input" :> 50 @@ "output" :> 50, NULL, 100, TRUE)}

==============================================================================
