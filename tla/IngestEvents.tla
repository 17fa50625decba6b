---------------------------- MODULE IngestEvents ----------------------------
(***************************************************************************)
(* POST /v1/traces and /v1/logs meet GET /events (internal/web/ingest.go   *)
(* and events.go, by way of pipeline.Commit).  An ingest request that      *)
(* finds a slot stores its spans in one transaction; then its handler asks *)
(* who is interested and offers an event to each client in turn, one lock  *)
(* of the broadcaster's mutex per event.  Clients come, read from their    *)
(* queues or do not, and go.                                               *)
(*                                                                         *)
(* What a transaction stores is in SpanStore: here it is the costs of the  *)
(* spans, which make the cost of a trace.                                  *)
(***************************************************************************)
EXTENDS Integers, Sequences, FiniteSets, SequencesExt, TLC

CONSTANTS
    Requests,     \* names of ingest requests
    Span,         \* spans, as far as events tell of them
    Spans,        \* for each request its spans
    Clients,      \* names of clients of /events
    MinDuration,  \* their thresholds, NULL when there is none
    MinCost,
    Slots,        \* config.MaxConcurrentIngest
    QueueSize,    \* capacity of a client's queue (32)
    NULL          \* no value

IsSpan(s) ==
    /\ DOMAIN s = {"trace", "id", "error", "duration", "cost"}
    /\ s.error \in BOOLEAN
    /\ s.duration \in Nat
    /\ s.cost \in Nat \cup {NULL}

ASSUME SpansAreSpans == \A s \in Span : IsSpan(s)
ASSUME RequestsHaveSpans == Spans \in [Requests -> Seq(Span)]
ASSUME SizesArePositive == {Slots, QueueSize} \subseteq Nat \ {0}
ASSUME ThresholdsAreNumbers ==
    \A c \in Clients : {MinDuration[c], MinCost[c]} \subseteq Nat \cup {NULL}

VARIABLES
    job,      \* where each request is, and what it has to publish
    stored,   \* the committed spans
    queue,    \* for each subscribed client the events that wait for it
    sent,     \* history: for each subscribed client the events it was sent
    missed,   \* history: the events that found its queue full
    watching  \* history: for each request the clients subscribed since it committed

vars == <<job, stored, queue, sent, missed, watching>>

\* costs is what InsertBatch returned; next and kind are where publishing the
\* spans has come to, left is what to publish after them.
Fresh == [at |-> "new", costs |-> {}, next |-> 1, kind |-> "slow", left |-> {}]

Nobody == [c \in {} |-> <<>>]

Init ==
    /\ job = [r \in Requests |-> Fresh]
    /\ stored = {}
    /\ queue = Nobody
    /\ sent = Nobody
    /\ missed = Nobody
    /\ watching = [r \in Requests |-> {}]

Subscribed == DOMAIN queue

------------------------------------------------------------------------------
(* Events *)

Event(kind, r, trace, span, value) ==
    [kind |-> kind, of |-> r, trace |-> trace, span |-> span, value |-> value]

\* The event of a kind about the i-th span.
SpanEvent(r, i, kind) ==
    LET s == Spans[r][i]
    IN  Event(kind, r, s.trace, s.id, IF kind = "slow" THEN s.duration ELSE 0)

\* An error event for a span that failed, and a slow event for every span: who
\* wants it is decided for each client.
FirstKind(r, i) == IF i <= Len(Spans[r]) /\ Spans[r][i].error THEN "error" ELSE "slow"

SpanEvents(r) ==
    UNION {{SpanEvent(r, i, FirstKind(r, i)), SpanEvent(r, i, "slow")} : i \in DOMAIN Spans[r]}

TraceCost(S, t) ==
    LET costs == {s \in S : s.trace = t}
    IN  IF \E s \in costs : s.cost = NULL THEN NULL
        ELSE MapThenSumSet(LAMBDA s : s.cost, costs)

\* One for each trace whose cost is known, with the last span of the batch in it.
CostEvents(r, S) ==
    LET batch == Spans[r]
        lasts == {i \in DOMAIN batch :
                     \A j \in i + 1 .. Len(batch) : batch[j].trace # batch[i].trace}
    IN  {Event("cost", r, batch[i].trace, batch[i].id, TraceCost(S, batch[i].trace)) :
            i \in {j \in lasts : TraceCost(S, batch[j].trace) # NULL}}

\* What publish skips for a client.
Wants(c, e) ==
    /\ e.kind = "slow" => MinDuration[c] # NULL /\ e.value > MinDuration[c]
    /\ e.kind = "cost" => MinCost[c] # NULL /\ e.value > MinCost[c]

\* Mutant of WantsCost: the answer of the last client looked at.
LastWantsCost == Subscribed # {} /\ MinCost[CHOOSE c \in Subscribed : TRUE] # NULL

\* interest: some client has asked for cost events.
WantsCost == \E c \in Subscribed : MinCost[c] # NULL

\* Mutant of Broadcast: publish waits for room.
BroadcastWaits(e) ==
    /\ \A c \in Subscribed : Wants(c, e) => Len(queue[c]) < QueueSize
    /\ queue' = [c \in Subscribed |-> IF Wants(c, e) THEN Append(queue[c], e) ELSE queue[c]]
    /\ sent' = [c \in Subscribed |-> IF Wants(c, e) THEN sent[c] \cup {e} ELSE sent[c]]
    /\ UNCHANGED missed

\* publish: every client that wants the event gets it if its queue has room.
Broadcast(e) ==
    LET takers == {c \in Subscribed : Wants(c, e)}
        full   == {c \in takers : Len(queue[c]) >= QueueSize}
    IN  /\ queue'  = [c \in Subscribed |-> IF c \in takers \ full
                                           THEN Append(queue[c], e) ELSE queue[c]]
        /\ sent'   = [c \in Subscribed |-> IF c \in takers \ full
                                           THEN sent[c] \cup {e} ELSE sent[c]]
        /\ missed' = [c \in Subscribed |-> IF c \in full
                                           THEN missed[c] \cup {e} ELSE missed[c]]

------------------------------------------------------------------------------
(* Ingest *)

Admitted == {r \in Requests : job[r].at \in {"ingest", "interest", "publish"}}

HasSlot == Cardinality(Admitted) < Slots

\* limitIngest: a slot, or 503 with Retry-After.
Request(r) ==
    /\ job[r].at = "new"
    /\ job' = [job EXCEPT ![r].at = IF HasSlot THEN "ingest" ELSE "refused"]
    /\ UNCHANGED <<stored, queue, sent, missed, watching>>

\* The client tries again.
Retry(r) ==
    /\ job[r].at = "refused"
    /\ job' = [job EXCEPT ![r].at = "new"]
    /\ UNCHANGED <<stored, queue, sent, missed, watching>>

\* The spans of the batch that no later one of it replaces.
Lasts(r) ==
    LET batch == Spans[r]
    IN  {batch[i] : i \in {j \in DOMAIN batch : \A k \in j + 1 .. Len(batch) :
             <<batch[k].trace, batch[k].id>> # <<batch[j].trace, batch[j].id>>}}

\* The spans after the batch.
Inserted(r) ==
    LET lasts == Lasts(r)
    IN  {s \in stored : \A u \in lasts : <<s.trace, s.id>> # <<u.trace, u.id>>} \cup lasts

\* InsertBatch commits and returns the costs of the traces it touched.
Insert(r) ==
    /\ job[r].at = "ingest"
    /\ stored' = Inserted(r)
    /\ job' = [job EXCEPT ![r].at = "interest", ![r].costs = CostEvents(r, Inserted(r))]
    /\ watching' = [watching EXCEPT ![r] = Subscribed]
    /\ UNCHANGED <<queue, sent, missed>>

\* Mutant of Fail: the error is not looked at before publishing.
FailPublishes(r) ==
    /\ job[r].at = "ingest"
    /\ job' = [job EXCEPT ![r].at = "interest"]
    /\ UNCHANGED <<stored, queue, sent, missed, watching>>

\* The body, a span or the transaction is refused, or the client goes away.
Fail(r) ==
    /\ job[r].at = "ingest"
    /\ job' = [job EXCEPT ![r].at = "done"]
    /\ UNCHANGED <<stored, queue, sent, missed, watching>>

\* interest of publishIngestEvents: without subscribers there is nothing to do.
Interest(r) ==
    /\ job[r].at = "interest"
    /\ LET start == IF Subscribed = {} THEN Len(Spans[r]) + 1 ELSE 1
       IN  job' = [job EXCEPT ![r].at   = "publish",
                              ![r].next = start,
                              ![r].kind = FirstKind(r, start),
                              ![r].left = IF WantsCost THEN job[r].costs ELSE {}]
    /\ UNCHANGED <<stored, queue, sent, missed, watching>>

PublishSpan(r) ==
    /\ job[r].at = "publish"
    /\ job[r].next <= Len(Spans[r])
    /\ \E e \in {SpanEvent(r, job[r].next, job[r].kind)} : Broadcast(e)
    /\ IF job[r].kind = "error"
       THEN job' = [job EXCEPT ![r].kind = "slow"]
       ELSE job' = [job EXCEPT ![r].next = job[r].next + 1,
                               ![r].kind = FirstKind(r, job[r].next + 1)]
    /\ UNCHANGED <<stored, watching>>

\* The traces of a Go map come in any order.
PublishCost(r) ==
    /\ job[r].at = "publish"
    /\ job[r].next > Len(Spans[r])
    /\ \E e \in job[r].left :
          /\ Broadcast(e)
          /\ job' = [job EXCEPT ![r].left = @ \ {e}]
    /\ UNCHANGED <<stored, watching>>

\* The response, and the deferred receive from ingestSlots.
Answer(r) ==
    /\ job[r].at = "publish"
    /\ job[r].next > Len(Spans[r])
    /\ job[r].left = {}
    /\ job' = [job EXCEPT ![r].at = "done"]
    /\ UNCHANGED <<stored, queue, sent, missed, watching>>

------------------------------------------------------------------------------
(* Clients of /events *)

Subscribe(c) ==
    /\ c \notin Subscribed
    /\ queue'  = [d \in Subscribed \cup {c} |-> IF d = c THEN <<>> ELSE queue[d]]
    /\ sent'   = [d \in Subscribed \cup {c} |-> IF d = c THEN {} ELSE sent[d]]
    /\ missed' = [d \in Subscribed \cup {c} |-> IF d = c THEN {} ELSE missed[d]]
    /\ UNCHANGED <<job, stored, watching>>

\* The handler of the client writes one frame.
Receive(c) ==
    /\ c \in Subscribed
    /\ queue[c] # <<>>
    /\ queue' = [queue EXCEPT ![c] = Tail(@)]
    /\ UNCHANGED <<job, stored, sent, missed, watching>>

\* A write fails or the request ends; what is queued is lost.
Unsubscribe(c) ==
    /\ c \in Subscribed
    /\ queue'  = Restrict(queue, Subscribed \ {c})
    /\ sent'   = Restrict(sent, Subscribed \ {c})
    /\ missed' = Restrict(missed, Subscribed \ {c})
    /\ watching' = [r \in Requests |-> watching[r] \ {c}]
    /\ UNCHANGED <<job, stored>>

\* The process dies and starts again without clients or requests.
Crash ==
    /\ job' = [r \in Requests |-> IF r \in Admitted THEN [Fresh EXCEPT !.at = "done"]
                                  ELSE job[r]]
    /\ queue' = Nobody
    /\ sent' = Nobody
    /\ missed' = Nobody
    /\ watching' = [r \in Requests |-> {}]
    /\ UNCHANGED stored

Handle(r) ==
    Insert(r) \/ Interest(r) \/ PublishSpan(r) \/ PublishCost(r) \/ Answer(r)

Next ==
    \/ \E r \in Requests : Request(r) \/ Retry(r) \/ Fail(r) \/ Handle(r)
    \/ \E c \in Clients : Subscribe(c) \/ Receive(c) \/ Unsubscribe(c)
    \/ Crash

Spec == Init /\ [][Next]_vars

\* The handler of an admitted request runs on.  No client has to read.
FairSpec == Spec /\ \A r \in Requests : WF_vars(Handle(r))

------------------------------------------------------------------------------
(* Properties *)

\* The shape of the state; ingest never has more requests than slots, and no
\* queue more events than fit.
TypeOK ==
    /\ \A r \in Requests :
          /\ job[r].at \in {"new", "refused", "ingest", "interest", "publish", "done"}
          /\ watching[r] \subseteq Subscribed
    /\ Cardinality(Admitted) <= Slots
    /\ Subscribed \subseteq Clients
    /\ DOMAIN sent = Subscribed
    /\ DOMAIN missed = Subscribed
    /\ \A c \in Subscribed :
          /\ Len(queue[c]) <= QueueSize
          /\ ToSet(queue[c]) \subseteq sent[c]

\* An event tells of a span that is stored: it is published after the commit,
\* never for a batch that failed, and nothing of a failed batch is announced by
\* another one.  docs/events.md: one cost event per affected trace and batch,
\* whatever else was ingested meanwhile.
EventsTellOfCommits ==
    \A c \in Subscribed :
        /\ \A e \in sent[c] : \E s \in stored : s.trace = e.trace /\ s.id = e.span
        /\ \A e, f \in sent[c] \cup missed[c] :
              e.kind = "cost" /\ f.kind = "cost" /\ e.of = f.of /\ e.trace = f.trace => e = f

\* A client that has been subscribed since a batch committed is offered
\* everything it asked for about that batch, whoever else comes and goes while
\* the handler looks for interest and publishes: only a full queue loses an event.
NothingWithheld ==
    \A r \in Requests, c \in Clients :
        job[r].at = "done" /\ c \in watching[r] =>
            \A e \in SpanEvents(r) \cup job[r].costs :
                Wants(c, e) => e \in sent[c] \cup missed[c]

\* An admitted request is answered and gives its slot back, though no client
\* reads its events.
IngestEnds ==
    \A r \in Requests : r \in Admitted ~> r \notin Admitted

==============================================================================
