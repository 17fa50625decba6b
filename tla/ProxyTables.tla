----------------------------- MODULE ProxyTables -----------------------------
(***************************************************************************)
(* What the proxy writes for one captured exchange, as values: the spans,  *)
(* the rows of proxy_tool_calls and proxy_turns, and the cache of tool     *)
(* calls.  ProxyCapture runs these operators.                              *)
(*                                                                         *)
(* The program derives trace, span and turn identifiers by hashing seeds;  *)
(* a seed here is a tuple, so distinct seeds give distinct identifiers.    *)
(* Names, arguments and message texts are left out, but for the output of  *)
(* a turn's root, which is the span that wrote it last.  The scope of an   *)
(* exchange is its route with its session: NULL when it has no session.    *)
(***************************************************************************)
EXTENDS Integers, Sequences, FiniteSets, SequencesExt

CONSTANTS
    Exchanges,     \* the captured model calls, see IsExchange
    Keys,          \* tool call keys: route, session and call id
    MaxToolCalls,  \* maxToolCalls, the capacity of the cache
    NULL           \* no value

ASSUME CacheHoldsOne == MaxToolCalls \in Nat \ {0}

\* What parseExchange, turnAnchor, toolCalls and toolResults read from an
\* exchange: the calls its response issues and the results its request carries.
IsExchange(e) ==
    /\ DOMAIN e = {"id", "scope", "anchor", "calls", "results", "start", "end", "failed"}
    /\ e.calls \subseteq Keys
    /\ e.results \in Seq(Keys)
    /\ IsInjective(e.results)
    /\ e.start \in Nat /\ e.end \in Nat
    /\ 0 < e.start /\ e.start <= e.end
    /\ e.failed \in BOOLEAN

ASSUME ExchangesAreExchanges ==
    /\ \A e \in Exchanges : IsExchange(e)
    /\ \A e, f \in Exchanges : e.id = f.id => e = f

NoRows == [k \in {} |-> NULL]

\* Rows with one more, or another value of the one they have.
With(rows, k, row) == [j \in DOMAIN rows \cup {k} |-> IF j = k THEN row ELSE rows[j]]

Without(rows, k) == [j \in DOMAIN rows \ {k} |-> rows[j]]

\* The rows of new, and those of old for the other keys.
Overlay(new, old) ==
    [k \in DOMAIN new \cup DOMAIN old |-> IF k \in DOMAIN new THEN new[k] ELSE old[k]]

------------------------------------------------------------------------------
(* Spans *)

SpanOf(trace, id, parent, start, end, error, output) ==
    [trace |-> trace, id |-> id, parent |-> parent, start |-> start, end |-> end,
     error |-> error, output |-> output]

ModelId(e) == <<"model", e.id>>

ToolId(k) == <<"tool", k>>
RootId(turn) == <<"root", turn>>
TurnTrace(turn) == <<"turn", turn>>

\* The trace of a model call: its turn's, or one of its own without a session.
ChatTrace(e, turn) == IF turn = NULL THEN ModelId(e) ELSE TurnTrace(turn)

ChatSpan(e, turn) ==
    SpanOf(ChatTrace(e, turn), ModelId(e), IF turn = NULL THEN NULL ELSE RootId(turn),
           e.start, e.end, e.failed, NULL)

\* A tool result with no known call: alone in a trace of its own.
OrphanSpan(e, k) == SpanOf(ToolId(k), ToolId(k), NULL, e.start, e.start, FALSE, NULL)

\* Mutant of LinkedSpan: the span stays in the trace toolSpan gave it.
UnmovedSpan(k, o) ==
    SpanOf(ToolId(k), ToolId(k), o.span, Min({o.end, o.first}), o.first, FALSE, NULL)

\* A tool result whose call is known: under the model call that issued it, from
\* the end of that call to the first result.
LinkedSpan(k, o) ==
    SpanOf(o.trace, ToolId(k), o.span, Min({o.end, o.first}), o.first, FALSE, NULL)

SameRow(r, s) == r.trace = s.trace /\ r.id = s.id

\* The upsert of a set of spans with distinct keys.
UpsertSpans(S, new) == {r \in S : ~ \E s \in new : SameRow(r, s)} \cup new

------------------------------------------------------------------------------
(* Tool calls *)

\* A toolOrigin that e issued, and its row in proxy_tool_calls.
NewOrigin(e, turn, created) ==
    [trace |-> ChatTrace(e, turn), span |-> ModelId(e), end |-> e.end,
     first |-> 0, hasResult |-> FALSE, created |-> created]

\* Mutant of Observed: each result moves the timestamp.
ObservedLast(o, e) == [o EXCEPT !.first = e.start, !.hasResult = TRUE]

\* The first result is the one that counts.
Observed(o, e) ==
    IF o.hasResult THEN o ELSE [o EXCEPT !.first = e.start, !.hasResult = TRUE]

\* INSERT INTO proxy_tool_calls ... ON CONFLICT(key)
MergeCall(row, o) ==
    [row EXCEPT !.first     = IF row.hasResult THEN row.first ELSE o.first,
                !.hasResult = row.hasResult \/ o.hasResult]

UpsertCalls(calls, origins) ==
    Overlay([k \in DOMAIN origins |->
                IF k \in DOMAIN calls THEN MergeCall(calls[k], origins[k]) ELSE origins[k]],
            calls)

------------------------------------------------------------------------------
(* The cache of tool calls *)

\* toolCalls, toolOrder and nextTool, counted from 1
NoCache == [origin |-> NoRows, order |-> <<>>, next |-> 1]

\* Mutant of CacheOne: the evicted call stays in the map.
CacheWithoutEviction(cache, k, o) ==
    IF k \in DOMAIN cache.origin \/ Len(cache.order) < MaxToolCalls
    THEN [cache EXCEPT !.origin = With(@, k, o),
                       !.order  = IF k \in DOMAIN cache.origin THEN @ ELSE Append(@, k)]
    ELSE [origin |-> With(cache.origin, k, o),
          order  |-> [cache.order EXCEPT ![cache.next] = k],
          next   |-> (cache.next % MaxToolCalls) + 1]

\* cacheToolCalls for one key: a known call is replaced in place, and when the ring
\* is full the oldest one gives way.
CacheOne(cache, k, o) ==
    IF k \in DOMAIN cache.origin
    THEN [cache EXCEPT !.origin = With(@, k, o)]
    ELSE IF Len(cache.order) < MaxToolCalls
    THEN [cache EXCEPT !.origin = With(@, k, o), !.order = Append(@, k)]
    ELSE [origin |-> With(Without(cache.origin, cache.order[cache.next]), k, o),
          order  |-> [cache.order EXCEPT ![cache.next] = k],
          next   |-> (cache.next % MaxToolCalls) + 1]

------------------------------------------------------------------------------
(* Turns *)

\* The anchor stands for the index and the hash of the last user message.
TurnKey(e) == [scope |-> e.scope, anchor |-> e.anchor]

\* The turn of a continuation without an anchor that finds no turn to continue.
OwnTurnKey(e) == [scope |-> e.scope, anchor |-> e.id]

\* The turns that there may be.
Turns == {TurnKey(e) : e \in Exchanges} \cup {OwnTurnKey(e) : e \in Exchanges}

\* No value is no identifier of a span.
ASSUME NullIsNoSpan ==
    /\ \A e \in Exchanges : ModelId(e) # NULL
    /\ \A t \in Turns : RootId(t) # NULL

RootSpan(e, turn) ==
    SpanOf(TurnTrace(turn), RootId(turn), NULL, e.start, e.end, e.failed, ModelId(e))

\* Mutant of MergeRoot: the last capture to commit writes the output.
MergeRootLast(old, new) ==
    [old EXCEPT !.start  = Min({old.start, new.start}),
                !.output = new.output,
                !.end    = Max({old.end, new.end}),
                !.error  = old.error \/ new.error]

\* The root of a turn that one more exchange has joined.
MergeRoot(old, new) ==
    [old EXCEPT !.start  = Min({old.start, new.start}),
                !.output = IF new.end >= old.end THEN new.output ELSE old.output,
                !.end    = Max({old.end, new.end}),
                !.error  = old.error \/ new.error]

\* created_ns is written with the row and not on a conflict.
TurnRow(turns, e, turn, created) ==
    IF turn \in DOMAIN turns
    THEN [root |-> MergeRoot(turns[turn].root, RootSpan(e, turn)), created |-> turns[turn].created]
    ELSE [root |-> RootSpan(e, turn), created |-> created]

\* The turn of a scope that started last, for an exchange without an anchor.
\* Turns that start together are ordered by their keys, which is any order here.
LatestTurns(turns, scope) ==
    LET mine == {t \in DOMAIN turns : t.scope = scope}
    IN  {t \in mine : \A u \in mine : turns[u].root.start <= turns[t].root.start}

\* The turns proxyTurn may choose for e, NULL when e has no session.
TurnsFor(turns, e) ==
    IF e.scope = NULL THEN {NULL}
    ELSE IF e.anchor # NULL THEN {TurnKey(e)}
    ELSE IF LatestTurns(turns, e.scope) # {} THEN LatestTurns(turns, e.scope)
    ELSE {OwnTurnKey(e)}

==============================================================================
