---------------------------- MODULE ProxyCapture ----------------------------
(***************************************************************************)
(* How the proxy stores captured exchanges (internal/proxy/relay.go and    *)
(* turns.go with internal/store/proxy_*.go).  When a response has been     *)
(* relayed, captureAsync hands the exchange to a goroutine if a capture    *)
(* slot is free; otherwise the relaying goroutine records only the calls   *)
(* that the response issued.  Both take toolMu, look up the turn and the   *)
(* tool calls in the cache and the database, commit everything in one      *)
(* transaction and publish the calls in the cache.  Meanwhile the          *)
(* retention sweep deletes old calls, turns and traces, and the process    *)
(* may die and start again.                                                *)
(***************************************************************************)
EXTENDS ProxyTables

CONSTANTS
    Slots,      \* capacity of captureSlots
    Retention,  \* RETENTION_DAYS
    MaxTime     \* bound on the clock

ASSUME SlotsIsPositive == Slots \in Nat \ {0}
ASSUME TimesAreNatural == Retention \in Nat /\ MaxTime \in Nat

VARIABLES
    now,     \* the clock
    stage,   \* where each exchange is
    job,     \* the capture that holds toolMu
    cache,   \* the cache of tool calls, lost in a crash
    db,      \* what is committed: [spans, calls, turns]
    sweep,   \* the retention sweep: [phase, cutoff]
    expired  \* history: the turns whose row a sweep has deleted

vars == <<now, stage, job, cache, db, sweep, expired>>

NoJob == [phase |-> "free", holder |-> NULL, turn |-> NULL, created |-> 0,
          results |-> <<>>, calls |-> {}, origins |-> NoRows, spans |-> {}]

\* The calls whose rows are committed and that the cache has yet to be told.
Publishing == IF job.phase = "cache" THEN job.origins ELSE NoRows

\* The calls that are known: what a lookup finds when toolMu is free.
Known == Overlay(Publishing, Overlay(cache.origin, db.calls))

Register == INSTANCE ToolCallRegister WITH calls <- Known

NoSweep == [phase |-> "idle", cutoff |-> 0]

\* The exchanges that will be captured; the others are over.
InitWith(arriving) ==
    /\ now = 0
    /\ stage = [e \in Exchanges |-> IF e \in arriving THEN "relaying" ELSE "done"]
    /\ job = NoJob
    /\ cache = NoCache
    /\ db = [spans |-> {}, calls |-> NoRows, turns |-> NoRows]
    /\ sweep = NoSweep
    /\ expired = {}

Init == InitWith(Exchanges)

------------------------------------------------------------------------------
(* captureAsync *)

UsedSlots == {e \in Exchanges : stage[e] \in {"queued", "finishing"}}

\* The response has been relayed; the exchange takes a slot or is dropped.
CaptureAsync(e) ==
    /\ stage[e] = "relaying"
    /\ e.end <= now
    /\ stage' = [stage EXCEPT ![e] = IF Cardinality(UsedSlots) < Slots
                                     THEN "queued" ELSE "dropped"]
    /\ UNCHANGED <<now, job, cache, db, sweep, expired>>

\* The goroutine of e still has to give its slot back; a dropped exchange has
\* none.
Leave(e) == IF stage[e] = "queued" THEN "finishing" ELSE "skipped"

\* The exchange does not parse or normalize.
GiveUp(e) ==
    /\ stage[e] \in {"queued", "dropped"}
    /\ job.holder # e
    /\ stage' = [stage EXCEPT ![e] = Leave(e)]
    /\ UNCHANGED <<now, job, cache, db, sweep, expired>>

\* Mutant of Release: the slot of a failed capture is not given back.
ReleaseStored(e) ==
    /\ stage[e] = "finishing"
    /\ \E s \in db.spans : s.id = ModelId(e)
    /\ stage' = [stage EXCEPT ![e] = "done"]
    /\ UNCHANGED <<now, job, cache, db, sweep, expired>>

\* The deferred receive from captureSlots.
Release(e) ==
    /\ stage[e] = "finishing"
    /\ stage' = [stage EXCEPT ![e] = "done"]
    /\ UNCHANGED <<now, job, cache, db, sweep, expired>>

------------------------------------------------------------------------------
(* capture and recordDroppedOrigins, under toolMu *)

Lock(e) ==
    /\ stage[e] \in {"queued", "dropped"}
    /\ job.phase = "free"
    /\ job' = [NoJob EXCEPT !.phase = "turn", !.holder = e]
    /\ UNCHANGED <<now, stage, cache, db, sweep, expired>>

\* proxyTurn.  A dropped exchange has no use for its results.
FindTurn ==
    /\ job.phase = "turn"
    /\ \E turn \in TurnsFor(db.turns, job.holder) :
          job' = [job EXCEPT
                     !.phase   = "tools",
                     !.turn    = turn,
                     !.created = now,
                     !.results = IF stage[job.holder] = "dropped" THEN <<>>
                                 ELSE job.holder.results,
                     !.calls   = job.holder.calls]
    /\ UNCHANGED <<now, stage, cache, db, sweep, expired>>

\* Mutant of Found: no lookup in the database on a cache miss.
FoundInMemory(k) == k \in DOMAIN job.origins \cup DOMAIN cache.origin

\* lookup of toolSpansLocked: this exchange's origins, then the cache, then the
\* database.
Found(k) == k \in DOMAIN job.origins \cup DOMAIN cache.origin \cup DOMAIN db.calls

Lookup(k) ==
    IF k \in DOMAIN job.origins THEN job.origins[k]
    ELSE IF k \in DOMAIN cache.origin THEN cache.origin[k]
    ELSE db.calls[k]

\* A lookup that reaches the database keeps what it read among the origins.
Fetched(k) ==
    IF k \in DOMAIN db.calls /\ k \notin DOMAIN job.origins \cup DOMAIN cache.origin
    THEN With(NoRows, k, db.calls[k])
    ELSE NoRows

\* The next result: a span for it, linked to its call when that is known.
CorrelateResult ==
    /\ job.phase = "tools"
    /\ job.results # <<>>
    /\ LET k == Head(job.results)
           e == job.holder
       IN  job' = [job EXCEPT
                      !.results = Tail(@),
                      !.origins = IF Found(k) /\ ~ Lookup(k).hasResult
                                  THEN With(@, k, Observed(Lookup(k), e))
                                  ELSE Overlay(Fetched(k), @),
                      !.spans   = @ \cup {IF Found(k)
                                          THEN LinkedSpan(k, Observed(Lookup(k), e))
                                          ELSE OrphanSpan(e, k)}]
    /\ UNCHANGED <<now, stage, cache, db, sweep, expired>>

\* A call of the response, in any order: known already, or registered.
IssueCall(k) ==
    /\ job.phase = "tools"
    /\ job.results = <<>>
    /\ k \in job.calls
    /\ job' = [job EXCEPT
                  !.calls   = @ \ {k},
                  !.origins = IF Found(k) THEN Overlay(Fetched(k), @)
                              ELSE With(@, k, NewOrigin(job.holder, job.turn, now))]
    /\ UNCHANGED <<now, stage, cache, db, sweep, expired>>

\* insertProxyBatch in the writer transaction, for an exchange e with its spans.
Stored(e) ==
    LET turns == IF job.turn = NULL THEN db.turns
                 ELSE With(db.turns, job.turn, TurnRow(db.turns, e, job.turn, job.created))
        root  == IF job.turn = NULL THEN {} ELSE {turns[job.turn].root}
    IN  [spans |-> UpsertSpans(db.spans, {ChatSpan(e, job.turn)} \cup job.spans \cup root),
         calls |-> UpsertCalls(db.calls, job.origins),
         turns |-> turns]

\* Of a dropped exchange only the calls are stored.
DroppedStored == [db EXCEPT !.calls = UpsertCalls(@, job.origins)]

\* The transaction commits.
Commit ==
    /\ job.phase = "tools"
    /\ job.results = <<>>
    /\ job.calls = {}
    /\ db' = IF stage[job.holder] = "dropped" THEN DroppedStored ELSE Stored(job.holder)
    /\ job' = [job EXCEPT !.phase = "cache", !.spans = {}]
    /\ UNCHANGED <<now, stage, cache, sweep, expired>>

\* The cache is told the calls that were committed; a Go map yields its keys in any
\* order.
PublishCall(k) ==
    /\ job.phase = "cache"
    /\ k \in DOMAIN job.origins
    /\ cache' = CacheOne(cache, k, job.origins[k])
    /\ job' = [job EXCEPT !.origins = Without(@, k)]
    /\ UNCHANGED <<now, stage, db, sweep, expired>>

\* toolMu is released.
Unlock ==
    /\ job.phase = "cache"
    /\ DOMAIN job.origins = {}
    /\ stage' = [stage EXCEPT ![job.holder] = Leave(job.holder)]
    /\ job' = NoJob
    /\ UNCHANGED <<now, cache, db, sweep, expired>>

\* Mutant of Abandon: the cache is told what the transaction did not commit.
AbandonPublished ==
    /\ job.phase \in {"turn", "tools"}
    /\ job' = [job EXCEPT !.phase = "cache", !.spans = {}]
    /\ UNCHANGED <<now, stage, cache, db, sweep, expired>>

\* A lookup or the transaction fails, or the capture panics.
Abandon ==
    /\ job.phase \in {"turn", "tools"}
    /\ stage' = [stage EXCEPT ![job.holder] = Leave(job.holder)]
    /\ job' = NoJob
    /\ UNCHANGED <<now, cache, db, sweep, expired>>

------------------------------------------------------------------------------
(* The retention sweep, one statement or transaction at a time *)

BeginSweep ==
    /\ sweep.phase = "idle"
    /\ now > Retention
    /\ sweep' = [phase |-> "calls", cutoff |-> now - Retention]
    /\ UNCHANGED <<now, stage, job, cache, db, expired>>

\* The keys of rows created before the cutoff.
Created(rows, cutoff) == {k \in DOMAIN rows : rows[k].created < cutoff}

PurgeCalls ==
    /\ sweep.phase = "calls"
    /\ db' = [db EXCEPT !.calls = Restrict(@, DOMAIN @ \ Created(@, sweep.cutoff))]
    /\ sweep' = [sweep EXCEPT !.phase = "turns"]
    /\ UNCHANGED <<now, stage, job, cache, expired>>

PurgeTurns ==
    /\ sweep.phase = "turns"
    /\ db' = [db EXCEPT !.turns = Restrict(@, DOMAIN @ \ Created(@, sweep.cutoff))]
    /\ expired' = expired \cup Created(db.turns, sweep.cutoff)
    /\ sweep' = [sweep EXCEPT !.phase = "traces"]
    /\ UNCHANGED <<now, stage, job, cache>>

\* A trace whose spans all ended before the cutoff (see SpanStore).
PurgeTrace(t) ==
    /\ sweep.phase = "traces"
    /\ \A s \in db.spans : s.trace = t => s.start < sweep.cutoff /\ s.end < sweep.cutoff
    /\ db' = [db EXCEPT !.spans = {s \in @ : s.trace # t}]
    /\ UNCHANGED <<now, stage, job, cache, sweep, expired>>

\* The sweep is finished, fails or is cancelled.
EndSweep ==
    /\ sweep.phase # "idle"
    /\ sweep' = NoSweep
    /\ UNCHANGED <<now, stage, job, cache, db, expired>>

------------------------------------------------------------------------------

\* The process dies and starts again: what is in memory is lost, and with it
\* the captures that have not committed.
Crash ==
    /\ stage' = [e \in Exchanges |->
                    CASE stage[e] = "relaying"              -> "relaying"
                      [] stage[e] \in {"dropped", "skipped"} -> "skipped"
                      [] OTHER                              -> "done"]
    /\ job' = NoJob
    /\ cache' = NoCache
    /\ sweep' = NoSweep
    /\ UNCHANGED <<now, db, expired>>

Tick ==
    /\ now < MaxTime
    /\ now' = now + 1
    /\ UNCHANGED <<stage, job, cache, db, sweep, expired>>

\* What the goroutine that holds toolMu does next.
JobStep ==
    \/ FindTurn
    \/ CorrelateResult
    \/ \E k \in job.calls : IssueCall(k)
    \/ Commit
    \/ \E k \in DOMAIN job.origins : PublishCall(k)
    \/ Unlock

Next ==
    \/ \E e \in Exchanges : CaptureAsync(e) \/ GiveUp(e) \/ Lock(e) \/ Release(e)
    \/ JobStep
    \/ Abandon
    \/ BeginSweep
    \/ PurgeCalls
    \/ PurgeTurns
    \/ \E t \in {s.trace : s \in db.spans} : PurgeTrace(t)
    \/ EndSweep
    \/ Crash
    \/ Tick

Spec == Init /\ [][Next]_vars

\* The goroutine that holds toolMu runs on, and its statements return; Go's
\* mutex, when it is free again and again, goes to a waiter; a deferred receive
\* is executed.  Nothing makes an exchange arrive, a sweep begin or the clock
\* advance.
Fairness ==
    /\ WF_vars(JobStep)
    /\ SF_vars(\E e \in Exchanges : Lock(e))
    /\ WF_vars(\E e \in Exchanges : Release(e))

------------------------------------------------------------------------------
(* Properties *)

Stages == {"relaying", "queued", "dropped", "finishing", "done", "skipped"}

\* The traces of model calls.
Traces == {ModelId(e) : e \in Exchanges} \cup {TurnTrace(t) : t \in Turns}

Origin == [trace : Traces, span : {ModelId(e) : e \in Exchanges}, end : Nat, first : Nat,
           hasResult : BOOLEAN, created : Nat]

IsOrigins(f) ==
    /\ DOMAIN f \subseteq Keys
    /\ \A k \in DOMAIN f :
          f[k] \in Origin /\ f[k].end \in 1 .. f[k].created /\ f[k].created \in 1 .. now

\* toolCalls, toolOrder and nextTool describe one FIFO ring: the order lists
\* each cached call once, within the capacity, and the next slot to reuse exists.
RingMatchesCache ==
    /\ IsInjective(cache.order)
    /\ ToSet(cache.order) = DOMAIN cache.origin
    /\ Len(cache.order) <= MaxToolCalls
    /\ cache.next \in 1 .. MaxToolCalls
    /\ cache.next > 1 => Len(cache.order) = MaxToolCalls

\* The shape of the state; the cache is a ring, and no two stored spans share a row.
TypeOK ==
    /\ now \in 0 .. MaxTime
    /\ stage \in [Exchanges -> Stages]
    /\ job.phase \in {"free", "turn", "tools", "cache"}
    /\ job.phase = "free" <=> job = NoJob
    /\ job.phase # "free" => stage[job.holder] \in {"queued", "dropped"}
    /\ job.calls \subseteq Keys
    /\ IsOrigins(job.origins)
    /\ IsOrigins(cache.origin) /\ RingMatchesCache
    /\ IsOrigins(db.calls)
    /\ \A r, s \in db.spans : SameRow(r, s) => r = s
    /\ DOMAIN db.turns \subseteq Turns
    /\ \A t \in DOMAIN db.turns : db.turns[t].created \in 1 .. now
    /\ sweep.phase \in {"idle", "calls", "turns", "traces"}
    /\ sweep.cutoff \in 0 .. MaxTime

\* No sweep so far had a cutoff after the end of e.
Retained(e) == now <= e.end + Retention

\* The cache and the database together are a register of tool calls: the issuer
\* of a call and its first result stay what they are while the call is retained,
\* whatever was evicted, purged, abandoned, replayed or lost in a crash.
ImplementsRegister == Register!Spec

\* A stored tool span lasts from the end of its call to the first result that
\* the row of its call records, however many exchanges carried the result again
\* and in whatever order they were captured.
SpansShowFirstResult ==
    \A s \in db.spans, k \in DOMAIN db.calls :
        LET row == db.calls[k]
        IN  s.id = ToolId(k) /\ s.trace = row.trace /\ s.parent = row.span =>
                /\ row.hasResult
                /\ s.end = row.first
                /\ s.start = Min({row.end, row.first})

\* A span under a model call is stored in the trace of that call, with the call:
\* unless the exchange was dropped for want of a slot or is past retention.
LinkedSpansHaveParents ==
    \A e \in Exchanges, s \in db.spans :
        /\ s.parent = ModelId(e)
        /\ Retained(e)
        /\ stage[e] \notin {"dropped", "skipped"}
        => \E p \in db.spans : p.id = s.parent /\ p.trace = s.trace

\* A commit adds no orphan for a call that is still known: neither eviction nor a
\* restart loses a link that is retained.
NoOrphanWhileKnown ==
    [][\A k \in DOMAIN db.calls \cup DOMAIN cache.origin :
          \A s \in db'.spans \ db.spans : s.id = ToolId(k) => s.parent # NULL]_vars

\* The stored root covers the stored model span s: its time, its failure, and no
\* older output than that of s.
Covers(root, s) ==
    /\ root.start <= s.start
    /\ s.end <= root.end
    /\ s.error => root.error
    /\ \A e \in Exchanges : root.output = ModelId(e) => s.end <= e.end

\* The root of a turn covers every model call stored under it, in whatever order
\* they were captured, as long as the turn's row has not been purged.
RootCoversTurn ==
    \A r, s \in db.spans :
        (r.id = s.parent /\ r.trace = s.trace /\ r.output # NULL
                /\ \A turn \in expired : r.id # RootId(turn))
        => Covers(r, s)

\* docs/proxy.md: "The root spans the earliest model start through the latest
\* model end [...] and keeps error status if any model call fails", here only for
\* the model calls that are still within retention.
RootCoversRetained ==
    \A r, s \in db.spans :
        (r.id = s.parent /\ r.trace = s.trace /\ r.output # NULL
                /\ now <= s.end + Retention)
        => Covers(r, s)

\* Every capture that was admitted or dropped comes to its end: again and again
\* nobody waits for toolMu, keeps it, or keeps a slot.  Exchanges are finitely
\* many and each is captured once, so none can be passed over for ever.
EveryCaptureEnds ==
    []<>(\A e \in Exchanges : stage[e] \notin {"queued", "dropped", "finishing"})

==============================================================================
