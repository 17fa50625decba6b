----------------------------- MODULE LogPairing -----------------------------
(***************************************************************************)
(* LogsAdapter of internal/otlp/logs.go.  GenAI log records arrive in      *)
(* batches; a request record waits in a queue of its key until a response  *)
(* record of the same key comes, in this batch or a later one, and the two *)
(* become one span.  The queues hold MaxPending requests together and keep *)
(* each for TTL.  Decode holds the adapter's mutex for a whole batch; the  *)
(* clock goes on between its records.  The spans of a batch are committed  *)
(* together afterwards, when the mutex is free again: batches commit in    *)
(* any order, or not at all, and a client that got no answer sends its     *)
(* batch again.                                                            *)
(*                                                                         *)
(* A record is reduced to its key (resource and model), its time, whether  *)
(* it is a response, and whether its timestamp is out of range.            *)
(***************************************************************************)
EXTENDS Integers, Sequences, FiniteSets, SequencesExt

CONSTANTS
    Keys,           \* pendingLogKey
    Batches,        \* the batches that clients send: sequences of records
    MaxPending,     \* maxPendingLogRequests
    TTL,            \* pendingLogTTL
    Slots,          \* config.MaxConcurrentIngest
    MaxTime,        \* bound on the clock
    MaxDeliveries,  \* bound on the batches delivered, retries included
    NULL            \* no request

ASSUME PendingIsPositive == {MaxPending, Slots} \subseteq Nat \ {0} /\ TTL \in Nat

Record == [key : Keys, time : Nat, response : BOOLEAN, bad : BOOLEAN]

ASSUME BatchesAreRecords == Batches \subseteq Seq(Record) \ {<<>>}

\* pendingLogRecord
Waiting == [time : Nat, at : Nat, order : Nat]

VARIABLES
    pending,     \* for each key the waiting requests, in the order they came
    count,       \* pendingCount
    nextOrder,   \* the number of the last request
    decoder,     \* the Decode that holds the mutex: [batch, next, made]
    writing,     \* for each batch that is decoded and not answered its spans
    rows,        \* the spans that are stored
    now,         \* the clock
    deliveries,  \* batches delivered so far
    spans        \* history: the spans that were made

vars == <<pending, count, nextOrder, decoder, writing, rows, now, deliveries, spans>>

Unlocked == [batch |-> <<>>, next |-> 1, made |-> <<>>]

Init ==
    /\ pending = [k \in Keys |-> <<>>]
    /\ count = 0
    /\ nextOrder = 0
    /\ decoder = Unlocked
    /\ writing = <<>>
    /\ rows = {}
    /\ now = 0
    /\ deliveries = 0
    /\ spans = {}

\* The places in the queues p, and their number.
Places(p) == UNION {{<<k, i>> : i \in DOMAIN p[k]} : k \in Keys}

Total(p) == Cardinality(Places(p))

------------------------------------------------------------------------------

\* expire on one queue: the front of it that is older than TTL.
ExpiredFront(queue) ==
    Max({n \in 0 .. Len(queue) : \A i \in 1 .. n : queue[i].at < now - TTL})

Unexpired == [k \in Keys |-> SubSeq(pending[k], ExpiredFront(pending[k]) + 1, Len(pending[k]))]

\* Mutant of CountUnexpired: expire does not correct the count.
CountKept == count

CountUnexpired == count - (Total(pending) - Total(Unexpired))

\* dropOldest: the first request of the queue whose first came first.
DropOldest(p) ==
    LET Heads    == {j \in Keys : p[j] # <<>>}
        Older(j, k) ==
            \/ p[j][1].at < p[k][1].at
            \/ p[j][1].at = p[k][1].at /\ p[j][1].order < p[k][1].order
        k == CHOOSE j \in Heads : \A i \in Heads \ {j} : Older(j, i)
    IN  [p EXCEPT ![k] = Tail(@)]

\* Mutant of Matches: any request of the key will do.
MatchesAny(queue, r) == DOMAIN queue

\* popPending: the requests of the queue that are not after the response.
Matches(queue, r) == {i \in DOMAIN queue : queue[i].time <= r.time}

Taken(queue, i) == RemoveAt(queue, i)

\* rawLogSpan: a missing time is the other one, and the earlier is the start.  The
\* id is made of what the response has and of the end.
Span(request, r) ==
    LET asked == IF request = NULL \/ request.time = 0 THEN r.time ELSE request.time
        ended == IF r.time = 0 THEN asked ELSE r.time
    IN  [id      |-> <<r.key, Max({asked, ended})>>,
         key     |-> r.key,
         request |-> request,
         start   |-> Min({asked, ended}),
         end     |-> Max({asked, ended}),
         made    |-> now]

------------------------------------------------------------------------------

Deliver(batch) ==
    /\ decoder = Unlocked
    /\ Len(writing) < Slots
    /\ deliveries < MaxDeliveries
    /\ decoder' = [Unlocked EXCEPT !.batch = batch]
    /\ deliveries' = deliveries + 1
    /\ UNCHANGED <<pending, count, nextOrder, writing, rows, now, spans>>

Current == decoder.batch[decoder.next]

\* The rest of Decode, with another span or none.
Proceed(made) ==
    /\ spans' = spans \cup ToSet(made)
    /\ IF decoder.next = Len(decoder.batch)
       THEN /\ decoder' = Unlocked
            /\ writing' = Append(writing, decoder.made \o made)
       ELSE /\ decoder' = [decoder EXCEPT !.next = @ + 1, !.made = @ \o made]
            /\ UNCHANGED writing

\* logTimestamp fails and with it the batch; what was taken from the queues is
\* gone.
BadRecord ==
    /\ decoder # Unlocked
    /\ Current.bad
    /\ decoder' = Unlocked
    /\ UNCHANGED <<pending, count, nextOrder, writing, rows, now, deliveries, spans>>

\* Mutant of IsFull: the limit bites one request too early.
IsFullSoon(n) == n + 1 >= MaxPending

IsFull(n) == n >= MaxPending

\* addPending
Request ==
    /\ decoder # Unlocked
    /\ ~ Current.bad /\ ~ Current.response
    /\ LET full == IsFull(CountUnexpired)
           kept == IF full THEN DropOldest(Unexpired) ELSE Unexpired
       IN  /\ pending' = [kept EXCEPT ![Current.key] =
                             Append(@, [time |-> Current.time, at |-> now,
                                        order |-> nextOrder + 1])]
           /\ count' = IF full THEN CountUnexpired ELSE CountUnexpired + 1
    /\ nextOrder' = nextOrder + 1
    /\ Proceed(<<>>)
    /\ UNCHANGED <<rows, now, deliveries>>

\* popPending and rawLogSpan
Response ==
    /\ decoder # Unlocked
    /\ ~ Current.bad /\ Current.response
    /\ LET queue == Unexpired[Current.key]
           found == Matches(queue, Current)
       IN  IF found = {}
           THEN /\ pending' = Unexpired
                /\ count' = CountUnexpired
                /\ Proceed(<<Span(NULL, Current)>>)
           ELSE /\ pending' = [Unexpired EXCEPT ![Current.key] =
                                  Taken(queue, Min(found))]
                /\ count' = CountUnexpired - 1
                /\ Proceed(<<Span(queue[Min(found)], Current)>>)
    /\ UNCHANGED <<nextOrder, rows, now, deliveries>>

\* insertBatch: of spans with one id the last.
Upserted(made) ==
    {r \in rows : \A i \in DOMAIN made : made[i].id # r.id}
    \cup {made[i] : i \in {j \in DOMAIN made :
                            \A k \in j + 1 .. Len(made) : made[k].id # made[j].id}}

\* Pipeline.Commit stores the spans of a batch; its client is answered, or the
\* answer is lost.
Commit(i) ==
    /\ rows' = Upserted(writing[i])
    /\ writing' = RemoveAt(writing, i)
    /\ UNCHANGED <<pending, count, nextOrder, decoder, now, deliveries, spans>>

\* The commit fails, and the answer is 500.
CommitFails(i) ==
    /\ writing' = RemoveAt(writing, i)
    /\ UNCHANGED <<pending, count, nextOrder, decoder, rows, now, deliveries, spans>>

Tick ==
    /\ now < MaxTime
    /\ now' = now + 1
    /\ UNCHANGED <<pending, count, nextOrder, decoder, writing, rows, deliveries, spans>>

Next ==
    \/ \E batch \in Batches : Deliver(batch)
    \/ BadRecord
    \/ Request
    \/ Response
    \/ \E i \in DOMAIN writing : Commit(i) \/ CommitFails(i)
    \/ Tick

Spec == Init /\ [][Next]_vars

------------------------------------------------------------------------------
(* Properties *)

EntriesOf(p) == UNION {{p[k][i] : i \in DOMAIN p[k]} : k \in Keys}

Entries == EntriesOf(pending)

\* The shape of the state; a request waits in one place, and pendingCount is the
\* number of them: expiry, pairing and eviction never let it drift, or the limit
\* would bite too early or never.
TypeOK ==
    /\ pending \in [Keys -> Seq(Waiting)]
    /\ \A e \in Entries : e.at \in 0 .. now /\ e.order \in 1 .. nextOrder
    /\ Cardinality({e.order : e \in Entries}) = Total(pending)
    /\ count = Total(pending) /\ count <= MaxPending
    /\ decoder.batch \in Batches \cup {<<>>}
    /\ Len(writing) <= Slots
    /\ \A r \in rows : r \in spans /\ \A s \in rows : r.id = s.id => r = s

\* One waiting request becomes part of one span at most, though batches are
\* delivered again, and is not waiting any more.  The span starts when the request
\* did, which waited no longer than TTL: no response is put before its request and
\* turned round.
PairedOnceInOrder ==
    \A s \in spans : s.request # NULL =>
        /\ \A e \in Entries : e.order # s.request.order
        /\ \A u \in spans : u.request # NULL /\ u.request.order = s.request.order => u = s
        /\ s.request.time # 0 => s.start = s.request.time
        /\ s.made <= s.request.at + TTL

\* docs/superpowers/specs/2026-09-15-spanbox-design.md: when a write fails the
\* answer is 500, the client sends again, and UPSERT makes that idempotent.  So a
\* response that was put together with its request, whether or not that span got
\* stored, is not stored without it by a later delivery of its batch.
ResendKeepsPairs ==
    \A s \in spans, r \in rows :
        s.request # NULL /\ r.id = s.id /\ r.made > s.made => r.request # NULL

\* Until it is too old or paired, a request is given up only when the adapter is
\* full of requests that are young enough, only for a newer one, which now waits,
\* and only the oldest of all: the limit bites neither too early nor out of turn,
\* whatever the keys of the requests.
OnlyOldestEvicted ==
    [][\A e \in Entries :
          LET Young == {f \in Entries : f.at >= now - TTL}
          IN  (/\ e \in Young
               /\ e \notin EntriesOf(pending')
               /\ \A s \in spans' : s.request # e)
              => /\ Cardinality(Young) >= MaxPending
                 /\ \E f \in EntriesOf(pending') : f.order > nextOrder
                 /\ \A f \in Young : e.order <= f.order]_vars

==============================================================================
