-------------------------- MODULE IngestEventsProofs --------------------------
(***************************************************************************)
(* For any batches, clients, thresholds, slots and queues: an event tells  *)
(* of what is stored, a trace gets one cost event of a batch, and whoever  *)
(* is there from the commit on is offered everything.  The invariant says  *)
(* what a handler has still to publish at each of its steps, and that the  *)
(* costs it publishes are those of its one commit.                         *)
(***************************************************************************)
EXTENDS IngestEvents, FiniteSetTheorems, SequenceTheorems, WellFoundedInduction, TLAPS

------------------------------------------------------------------------------
(* The invariant *)

CostEventsOfAll ==
    UNION {UNION {CostEvents(r, S) : S \in SUBSET Span} : r \in Requests}

Events == CostEventsOfAll \cup UNION {SpanEvents(r) : r \in Requests}

JobState ==
    [at : {"new", "refused", "ingest", "interest", "publish", "done"},
     costs : SUBSET CostEventsOfAll, next : Nat, kind : {"error", "slow"},
     left : SUBSET CostEventsOfAll]

Shape ==
    /\ job \in [Requests -> JobState]
    /\ stored \in SUBSET Span
    /\ Subscribed \subseteq Clients
    /\ queue \in [Subscribed -> Seq(Events)]
    /\ sent \in [Subscribed -> SUBSET Events]
    /\ missed \in [Subscribed -> SUBSET Events]
    /\ watching \in [Requests -> SUBSET Subscribed]

Slotted == IsFiniteSet(Admitted) /\ Cardinality(Admitted) <= Slots

Queued ==
    \A c \in Subscribed :
        /\ Len(queue[c]) <= QueueSize
        /\ ToSet(queue[c]) \subseteq sent[c]

\* Some version of the span is stored.
IsStored(trace, id) == \E s \in stored : s.trace = trace /\ s.id = id

Offered(c) == sent[c] \cup missed[c]

\* The events about the i-th span.
About(r, i) == {SpanEvent(r, i, FirstKind(r, i)), SpanEvent(r, i, "slow")}

\* What is still to publish about the spans of a batch.
ToCome(r, i, kind) ==
    (IF i \in DOMAIN Spans[r] THEN {SpanEvent(r, i, kind), SpanEvent(r, i, "slow")} ELSE {})
        \cup UNION {About(r, j) : j \in {k \in DOMAIN Spans[r] : k > i}}

\* The batch is in the file, and its costs are those of one commit.
Committed(r) ==
    /\ \A i \in DOMAIN Spans[r] : IsStored(Spans[r][i].trace, Spans[r][i].id)
    /\ \A e \in job[r].costs : e.kind = "cost" /\ e.of = r /\ IsStored(e.trace, e.span)
    /\ \A e, f \in job[r].costs : e.trace = f.trace => e = f

\* What the handler has still to publish.
SpansLeft(r) ==
    IF job[r].at = "publish" THEN ToCome(r, job[r].next, job[r].kind) ELSE {}

CostsLeft(r) == IF job[r].at = "publish" THEN job[r].left ELSE {}

\* A client that has been there since the commit was offered the rest.
Told(r, c) ==
    /\ \A e \in SpanEvents(r) \ SpansLeft(r) : Wants(c, e) => e \in Offered(c)
    /\ \A e \in job[r].costs \ CostsLeft(r) : Wants(c, e) => e \in Offered(c)

JobOK(r) ==
    /\ job[r].at \in {"new", "refused", "ingest"} => job[r].costs = {} /\ watching[r] = {}
    /\ job[r].at \in {"interest", "publish"} \/ job[r].costs # {} => Committed(r)
    /\ job[r].at \in {"publish", "done"} => \A c \in watching[r] : Told(r, c)
    /\ job[r].left \subseteq job[r].costs
    /\ job[r].at = "publish" =>
          job[r].next >= 1 /\ job[r].kind \in {FirstKind(r, job[r].next), "slow"}

JobsOK == \A r \in Requests : JobOK(r)

\* What a client was offered was committed, a cost by the request it names.
Truthful ==
    \A c \in Subscribed : \A e \in Offered(c) :
        /\ IsStored(e.trace, e.span)
        /\ e.kind = "cost" => e \in job[e.of].costs

IInv == Shape /\ Slotted /\ Queued /\ JobsOK /\ Truthful

------------------------------------------------------------------------------
(* Batches *)

\* A non-empty set of numbers up to a bound has a greatest one.
LEMMA GreatestNatural ==
    ASSUME NEW b \in Nat, NEW S \in SUBSET 0 .. b, S # {}
    PROVE  \E m \in S : \A x \in S : x <= m
<1>. DEFINE T == {b - x : x \in S}
<1>1. \A x \in S : b - x \in Nat
  OBVIOUS
<1>2. T \in SUBSET Nat /\ T # {}
  BY <1>1
<1>3. \A m \in S : b - m \in T
  OBVIOUS
<1>4. \A y \in T : \E m \in S : y = b - m
  OBVIOUS
<1>. HIDE DEF T
<1>5. PICK d \in T : \A y \in T : ~ (<<y, d>> \in OpToRel(<, Nat))
  BY <1>2, WFMin, NatLessThanWellFounded
<1>6. \A y \in T : ~ (y < d)
  BY <1>2, <1>5 DEF OpToRel
<1>7. PICK m \in S : d = b - m
  BY <1>4
<1>8. ASSUME NEW x \in S PROVE x <= m
  <2>1. ~ (b - x < d)
    BY <1>3, <1>6
  <2>. QED
    BY <1>7, <2>1
<1>. QED
  BY <1>8

\* A batch is a sequence of spans.
LEMMA BatchFacts ==
    ASSUME NEW r \in Requests
    PROVE  /\ Len(Spans[r]) \in Nat /\ DOMAIN Spans[r] = 1 .. Len(Spans[r])
           /\ \A i \in DOMAIN Spans[r] : Spans[r][i] \in Span
<1>1. Spans[r] \in Seq(Span)
  BY RequestsHaveSpans
<1>. QED
  BY <1>1, LenProperties, ElementOfSeq

\* Of each span of a batch the last version is written.
LEMMA LastsCover ==
    ASSUME NEW r \in Requests
    PROVE  /\ Lasts(r) \subseteq Span
           /\ \A i \in DOMAIN Spans[r] : \E u \in Lasts(r) :
                 u.trace = Spans[r][i].trace /\ u.id = Spans[r][i].id
<1>1. Lasts(r) \subseteq Span
  BY BatchFacts DEF Lasts
<1>2. ASSUME NEW i \in DOMAIN Spans[r]
      PROVE  \E u \in Lasts(r) : u.trace = Spans[r][i].trace /\ u.id = Spans[r][i].id
  <2>. DEFINE same == {k \in DOMAIN Spans[r] :
                         Spans[r][k].trace = Spans[r][i].trace /\ Spans[r][k].id = Spans[r][i].id}
  <2>1. same \in SUBSET (0 .. Len(Spans[r])) /\ i \in same
    BY BatchFacts
  <2>2. PICK m \in same : \A k \in same : k <= m
    <3>1. Len(Spans[r]) \in Nat
      BY BatchFacts
    <3>. HIDE DEF same
    <3>. QED
      BY <2>1, <3>1, GreatestNatural
  <2>3. m \in DOMAIN Spans[r] /\ m \in Nat
    BY BatchFacts
  <2>4. \A k \in m + 1 .. Len(Spans[r]) :
           <<Spans[r][k].trace, Spans[r][k].id>> # <<Spans[r][m].trace, Spans[r][m].id>>
    <3>1. \A k \in m + 1 .. Len(Spans[r]) : k \in DOMAIN Spans[r] /\ ~ (k <= m)
      BY <2>3, BatchFacts
    <3>. QED
      BY <2>2, <3>1
  <2>5. Spans[r][m] \in Lasts(r)
    BY <2>3, <2>4 DEF Lasts
  <2>. QED
    BY <2>5
<1>. QED
  BY <1>1, <1>2

\* Insert replaces spans by others with the same key.
LEMMA InsertedFacts ==
    ASSUME NEW r \in Requests, stored \in SUBSET Span
    PROVE  /\ Inserted(r) \in SUBSET Span
           /\ \A s \in stored : \E x \in Inserted(r) : x.trace = s.trace /\ x.id = s.id
           /\ \A i \in DOMAIN Spans[r] : \E x \in Inserted(r) :
                 x.trace = Spans[r][i].trace /\ x.id = Spans[r][i].id
<1>1. Inserted(r) \in SUBSET Span /\ Lasts(r) \subseteq Inserted(r)
  BY LastsCover DEF Inserted
<1>2. ASSUME NEW s \in stored
      PROVE  \E x \in Inserted(r) : x.trace = s.trace /\ x.id = s.id
  <2>1. CASE \A u \in Lasts(r) : <<s.trace, s.id>> # <<u.trace, u.id>>
    <3>1. s \in Inserted(r)
      BY <2>1 DEF Inserted
    <3>. QED
      BY <3>1
  <2>2. CASE \E u \in Lasts(r) : <<s.trace, s.id>> = <<u.trace, u.id>>
    BY <1>1, <2>2
  <2>. QED
    BY <2>1, <2>2
<1>. QED
  BY <1>1, <1>2, LastsCover

\* A batch has one cost event for a trace, with a span of the batch.
LEMMA CostEventsFacts ==
    ASSUME NEW r \in Requests, NEW S \in SUBSET Span
    PROVE  /\ CostEvents(r, S) \in SUBSET CostEventsOfAll
           /\ \A e \in CostEvents(r, S) :
                 /\ e.kind = "cost" /\ e.of = r
                 /\ \E i \in DOMAIN Spans[r] :
                       e.trace = Spans[r][i].trace /\ e.span = Spans[r][i].id
           /\ \A e, f \in CostEvents(r, S) : e.trace = f.trace => e = f
<1>. DEFINE lasts == {i \in DOMAIN Spans[r] : \A j \in i + 1 .. Len(Spans[r]) :
                                                 Spans[r][j].trace # Spans[r][i].trace}
            cost(i) == Event("cost", r, Spans[r][i].trace, Spans[r][i].id,
                             TraceCost(S, Spans[r][i].trace))
<1>1. \A e \in CostEvents(r, S) : \E i \in lasts : e = cost(i)
  BY DEF CostEvents
<1>2. \A i \in lasts : /\ cost(i).kind = "cost" /\ cost(i).of = r
                       /\ cost(i).trace = Spans[r][i].trace /\ cost(i).span = Spans[r][i].id
  BY DEF Event
<1>3. \A i, j \in lasts : Spans[r][i].trace = Spans[r][j].trace => i = j
  <2>1. ASSUME NEW i \in lasts, NEW j \in lasts, Spans[r][i].trace = Spans[r][j].trace
        PROVE  ~ (i < j)
    <3>1. i \in Nat /\ j \in Nat /\ j <= Len(Spans[r]) /\ Len(Spans[r]) \in Nat
      BY BatchFacts
    <3>2. SUFFICES ASSUME i < j PROVE FALSE
      OBVIOUS
    <3>3. j \in i + 1 .. Len(Spans[r])
      BY <3>1, <3>2
    <3>. QED
      BY <2>1, <3>3
  <2>2. \A i \in lasts : i \in Int
    BY BatchFacts
  <2>. HIDE DEF lasts
  <2>. QED
    BY <2>1, <2>2
<1>4. lasts \subseteq DOMAIN Spans[r]
  OBVIOUS
<1>. HIDE DEF lasts, cost
<1>5. \A e, f \in CostEvents(r, S) : e.trace = f.trace => e = f
  BY <1>1, <1>2, <1>3
<1>6. CostEvents(r, S) \in SUBSET CostEventsOfAll
  BY DEF CostEventsOfAll
<1>7. ASSUME NEW e \in CostEvents(r, S)
      PROVE  /\ e.kind = "cost" /\ e.of = r
             /\ \E i \in DOMAIN Spans[r] :
                   e.trace = Spans[r][i].trace /\ e.span = Spans[r][i].id
  BY <1>1, <1>2, <1>4
<1>. QED
  BY <1>5, <1>6, <1>7

\* The events about spans.
LEMMA SpanEventsFacts ==
    ASSUME NEW r \in Requests
    PROVE  /\ \A i \in DOMAIN Spans[r] : About(r, i) \subseteq SpanEvents(r)
           /\ SpanEvents(r) \subseteq Events
           /\ \A i, kind : /\ SpanEvent(r, i, kind).kind = kind /\ SpanEvent(r, i, kind).of = r
                           /\ SpanEvent(r, i, kind).trace = Spans[r][i].trace
                           /\ SpanEvent(r, i, kind).span = Spans[r][i].id
BY DEF About, SpanEvents, Events, SpanEvent, Event

------------------------------------------------------------------------------
(* What is to come *)

\* After the commit every event of the batch is still to come.
LEMMA AllToCome ==
    ASSUME NEW r \in Requests
    PROVE  SpanEvents(r) \subseteq ToCome(r, 1, FirstKind(r, 1))
<1>1. SUFFICES ASSUME NEW i \in DOMAIN Spans[r], NEW e \in About(r, i)
               PROVE  e \in ToCome(r, 1, FirstKind(r, 1))
  BY DEF SpanEvents, About
<1>2. i = 1 \/ i > 1
  BY BatchFacts
<1>. QED
  BY <1>2 DEF ToCome, About

\* After the last span no event of a span is to come.
LEMMA NoneToCome ==
    ASSUME NEW r \in Requests, NEW i \in Nat, i > Len(Spans[r]), NEW kind
    PROVE  ToCome(r, i, kind) = {}
<1>1. i \notin DOMAIN Spans[r] /\ \A k \in DOMAIN Spans[r] : ~ (k > i)
  BY BatchFacts
<1>. QED
  BY <1>1 DEF ToCome

\* Publishing an event leaves only the ones after it in the loop.
LEMMA OneLessToCome ==
    ASSUME NEW r \in Requests, NEW i \in DOMAIN Spans[r], NEW kind \in {"error", "slow"}
    PROVE  ToCome(r, i, kind) \subseteq
              {SpanEvent(r, i, kind)} \cup
              (IF kind = "error" THEN ToCome(r, i, "slow")
               ELSE ToCome(r, i + 1, FirstKind(r, i + 1)))
<1>1. CASE kind = "error"
  BY <1>1 DEF ToCome
<1>2. CASE kind = "slow"
  <2>1. SUFFICES ASSUME NEW k \in DOMAIN Spans[r], k > i, NEW e \in About(r, k)
                 PROVE  e \in ToCome(r, i + 1, FirstKind(r, i + 1))
    BY <1>2 DEF ToCome
  <2>2. k = i + 1 \/ k > i + 1
    BY <2>1, BatchFacts
  <2>. QED
    BY <2>2 DEF ToCome, About
<1>. QED
  BY <1>1, <1>2

------------------------------------------------------------------------------
(* Steps *)

\* No span leaves the file.
Grows == \A trace, id : IsStored(trace, id) => IsStored(trace, id)'

\* Who is still there was offered no less.
OffersStay == \A c \in Subscribed' \cap Subscribed : Offered(c) \subseteq Offered(c)'

\* A request that others pass by.
LEMMA OthersStay ==
    ASSUME NEW q \in Requests, JobOK(q), job'[q] = job[q], Grows, OffersStay,
           watching'[q] \subseteq watching[q], watching[q] \subseteq Subscribed,
           watching'[q] \subseteq Subscribed'
    PROVE  JobOK(q)'
<1>1. Committed(q) => Committed(q)'
  BY DEF Committed, Grows
<1>2. SpansLeft(q)' = SpansLeft(q) /\ CostsLeft(q)' = CostsLeft(q)
  BY DEF SpansLeft, CostsLeft
<1>3. ASSUME NEW c \in watching'[q], Told(q, c) PROVE Told(q, c)'
  <2>1. Offered(c) \subseteq Offered(c)' /\ \A e : Wants(c, e)' <=> Wants(c, e)
    BY <1>3 DEF OffersStay, Wants
  <2>. QED
    BY <1>2, <1>3, <2>1 DEF Told
<1>. QED
  BY <1>1, <1>3 DEF JobOK

\* One record of a function is replaced.
LEMMA Replaced ==
    ASSUME NEW T, NEW f \in [Requests -> T], NEW r \in Requests, NEW x \in T,
           NEW g, g = [f EXCEPT ![r] = x]
    PROVE  g \in [Requests -> T] /\ g[r] = x /\ \A q \in Requests \ {r} : g[q] = f[q]
OBVIOUS

\* The fields of a handler.
LEMMA JobFacts ==
    ASSUME Shape, NEW r \in Requests
    PROVE  /\ job[r] \in JobState /\ watching[r] \subseteq Subscribed
           /\ job[r].at \in {"new", "refused", "ingest", "interest", "publish", "done"}
           /\ job[r].costs \in SUBSET CostEventsOfAll /\ job[r].left \in SUBSET CostEventsOfAll
           /\ job[r].next \in Nat /\ job[r].kind \in {"error", "slow"}
<1>1. job[r] \in JobState /\ watching[r] \subseteq Subscribed
  BY DEF Shape
<1>. QED
  BY <1>1 DEF JobState

\* Handlers that leave the slots do not take one from another.
LEMMA SlottedStays ==
    ASSUME Slotted, Admitted' \subseteq Admitted
    PROVE  Slotted'
<1>1. IsFiniteSet(Admitted') /\ Cardinality(Admitted') <= Cardinality(Admitted)
  BY FS_Subset DEF Slotted
<1>2. Cardinality(Admitted) \in Nat /\ Cardinality(Admitted') \in Nat /\ Slots \in Nat
  BY <1>1, FS_CardinalityType, SizesArePositive DEF Slotted
<1>. QED
  BY <1>1, <1>2 DEF Slotted

\* A step of one handler that tells nobody anything.
LEMMA OnlyJob ==
    ASSUME Shape, Queued, JobsOK, Truthful, NEW r \in Requests, NEW h \in JobState,
           job' = [job EXCEPT ![r] = h], h.costs = job[r].costs,
           UNCHANGED <<stored, queue, sent, missed, watching>>, JobOK(r)'
    PROVE  Shape' /\ Queued' /\ JobsOK' /\ Truthful'
<1>1. /\ job' \in [Requests -> JobState] /\ job'[r] = h
      /\ \A q \in Requests \ {r} : job'[q] = job[q]
  BY Replaced DEF Shape
<1>2. Subscribed' = Subscribed
  BY DEF Subscribed
<1>3. Shape' /\ Queued'
  BY <1>1, <1>2 DEF Shape, Queued
<1>4. Grows /\ OffersStay
  BY DEF Grows, IsStored, OffersStay, Offered
<1>5. ASSUME NEW q \in Requests \ {r} PROVE JobOK(q)'
  BY <1>1, <1>2, <1>4, OthersStay DEF JobsOK, Shape
<1>6. JobsOK'
  BY <1>5 DEF JobsOK
<1>7. \A q : job'[q].costs = job[q].costs
  <2>1. \A q \in Requests : job'[q].costs = job[q].costs
    BY <1>1
  <2>2. \A q : q \notin Requests => job'[q] = job[q]
    BY DEF Shape
  <2>. QED
    BY <2>1, <2>2
<1>8. Truthful'
  BY <1>2, <1>7 DEF Truthful, IsStored, Offered
<1>. QED
  BY <1>3, <1>6, <1>8

\* A request takes a slot, or is refused; nothing is stored yet.
LEMMA RequestOK ==
    ASSUME IInv, NEW r \in Requests, Request(r)
    PROVE  IInv'
<1>. USE DEF IInv
<1>1. PICK at \in {"ingest", "refused"} : at = IF HasSlot THEN "ingest" ELSE "refused"
  OBVIOUS
<1>2. PICK h : h = [job[r] EXCEPT !.at = at]
  OBVIOUS
<1>3. h \in JobState /\ h.at = at /\ h.costs = job[r].costs /\ h.left = job[r].left
  BY <1>2, JobFacts DEF JobState
<1>4. job' = [job EXCEPT ![r] = h]
  BY <1>1, <1>2 DEF Request
<1>5. /\ job' \in [Requests -> JobState] /\ job'[r] = h
      /\ \A q \in Requests \ {r} : job'[q] = job[q]
  BY <1>3, <1>4, Replaced DEF Shape
<1>6. JobOK(r)'
  BY <1>1, <1>3, <1>5 DEF Request, JobsOK, JobOK
<1>7. Shape' /\ Queued' /\ JobsOK' /\ Truthful'
  BY <1>3, <1>4, <1>6, OnlyJob DEF Request
<1>8. CASE HasSlot
  <2>1. Admitted' \subseteq Admitted \cup {r}
    BY <1>5 DEF Admitted
  <2>2. /\ IsFiniteSet(Admitted) /\ Cardinality(Admitted) \in Nat /\ Slots \in Nat
        /\ Cardinality(Admitted) < Slots
    BY <1>8, FS_CardinalityType, SizesArePositive DEF Slotted, HasSlot
  <2>3. PICK A : A = Admitted \cup {r}
    OBVIOUS
  <2>4. IsFiniteSet(A) /\ Cardinality(A) <= Cardinality(Admitted) + 1
    BY <2>2, <2>3, FS_AddElement
  <2>5. IsFiniteSet(Admitted') /\ Cardinality(Admitted') <= Cardinality(A)
    BY <2>1, <2>3, <2>4, FS_Subset
  <2>6. Cardinality(A) \in Nat /\ Cardinality(Admitted') \in Nat
    BY <2>4, <2>5, FS_CardinalityType
  <2>7. Slotted'
    BY <2>2, <2>4, <2>5, <2>6 DEF Slotted
  <2>. QED
    BY <1>7, <2>7
<1>9. CASE ~ HasSlot
  <2>1. Admitted' \subseteq Admitted
    BY <1>1, <1>3, <1>5, <1>9 DEF Admitted
  <2>. QED
    BY <1>7, <2>1, SlottedStays
<1>. QED
  BY <1>8, <1>9

\* A request that is tried again, or fails, has stored and published nothing.
LEMMA RetryOrFailOK ==
    ASSUME IInv, NEW r \in Requests, Retry(r) \/ Fail(r)
    PROVE  IInv'
<1>. USE DEF IInv
<1>1. PICK at \in {"new", "done"} : job' = [job EXCEPT ![r].at = at]
  BY DEF Retry, Fail
<1>2. PICK h : h = [job[r] EXCEPT !.at = at]
  OBVIOUS
<1>3. h \in JobState /\ h.at = at /\ h.costs = job[r].costs /\ h.left = job[r].left
  BY <1>2, JobFacts DEF JobState
<1>4. job' = [job EXCEPT ![r] = h]
  BY <1>1, <1>2
<1>5. /\ job' \in [Requests -> JobState] /\ job'[r] = h
      /\ \A q \in Requests \ {r} : job'[q] = job[q]
  BY <1>3, <1>4, Replaced DEF Shape
<1>6. JobOK(r)'
  BY <1>1, <1>3, <1>5 DEF Retry, Fail, JobsOK, JobOK
<1>7. Shape' /\ Queued' /\ JobsOK' /\ Truthful'
  BY <1>3, <1>4, <1>6, OnlyJob DEF Retry, Fail
<1>8. Admitted' \subseteq Admitted
  BY <1>3, <1>5 DEF Admitted
<1>. QED
  BY <1>7, <1>8, SlottedStays

\* What a handler has to publish is fixed when it looks for subscribers.
LEMMA InterestOK ==
    ASSUME IInv, NEW r \in Requests, Interest(r)
    PROVE  IInv'
<1>. USE DEF IInv
<1>0. JobOK(r) /\ job[r].at = "interest" /\ Len(Spans[r]) \in Nat /\ watching[r] \subseteq Subscribed
  BY BatchFacts, JobFacts DEF Interest, JobsOK
<1>1. PICK start \in Nat : start = IF Subscribed = {} THEN Len(Spans[r]) + 1 ELSE 1
  BY <1>0
<1>2. PICK left : left = IF WantsCost THEN job[r].costs ELSE {}
  OBVIOUS
<1>3. PICK kind \in {"error", "slow"} : kind = FirstKind(r, start)
  BY DEF FirstKind
<1>4. PICK h : h = [job[r] EXCEPT !.at = "publish", !.next = start, !.kind = kind, !.left = left]
  OBVIOUS
<1>5. /\ h \in JobState /\ h.at = "publish" /\ h.costs = job[r].costs
      /\ h.next = start /\ h.kind = kind /\ h.left = left
  BY <1>2, <1>4, JobFacts DEF JobState
<1>6. job' = [job EXCEPT ![r] = h]
  BY <1>1, <1>2, <1>3, <1>4 DEF Interest
<1>7. /\ job' \in [Requests -> JobState] /\ job'[r] = h
      /\ \A q \in Requests \ {r} : job'[q] = job[q]
  BY <1>5, <1>6, Replaced DEF Shape
<1>8. Committed(r)'
  BY <1>0, <1>5, <1>7 DEF Interest, JobOK, Committed, IsStored
<1>9. ASSUME NEW c \in watching[r] PROVE Told(r, c)'
  <2>1. start = 1 /\ c \in Subscribed
    BY <1>0, <1>1
  <2>2. SpansLeft(r)' = ToCome(r, start, kind) /\ CostsLeft(r)' = left
    BY <1>5, <1>7 DEF SpansLeft, CostsLeft
  <2>3. SpanEvents(r) \ SpansLeft(r)' = {}
    BY <1>3, <2>1, <2>2, AllToCome
  <2>4. ASSUME NEW e \in job[r].costs \ left PROVE ~ Wants(c, e)
    <3>1. ~ WantsCost /\ e.kind = "cost"
      BY <1>0, <1>2, <2>4 DEF JobOK, Committed
    <3>. QED
      BY <2>1, <3>1 DEF Wants, WantsCost
  <2>. QED
    BY <1>5, <1>7, <2>2, <2>3, <2>4 DEF Told, Wants
<1>10. JobOK(r)'
  <2>1. /\ start >= 1 /\ left \subseteq job[r].costs
    BY <1>0, <1>1, <1>2
  <2>. QED
    BY <1>3, <1>5, <1>7, <1>8, <1>9, <2>1 DEF Interest, JobOK
<1>11. Shape' /\ Queued' /\ JobsOK' /\ Truthful'
  BY <1>5, <1>6, <1>10, OnlyJob DEF Interest
<1>12. Admitted' \subseteq Admitted
  BY <1>0, <1>7 DEF Admitted
<1>. QED
  BY <1>11, <1>12, SlottedStays

\* The answer ends a handler that has nothing left to publish.
LEMMA AnswerOK ==
    ASSUME IInv, NEW r \in Requests, Answer(r)
    PROVE  IInv'
<1>. USE DEF IInv
<1>1. /\ JobOK(r) /\ job[r].at = "publish" /\ job[r].left = {}
      /\ SpansLeft(r) = {} /\ CostsLeft(r) = {}
  <2>1. job[r].next \in Nat /\ job[r].next > Len(Spans[r])
    BY JobFacts DEF Answer
  <2>2. ToCome(r, job[r].next, job[r].kind) = {}
    BY <2>1, NoneToCome
  <2>. QED
    BY <2>2 DEF Answer, JobsOK, SpansLeft, CostsLeft
<1>2. PICK h : h = [job[r] EXCEPT !.at = "done"]
  OBVIOUS
<1>3. h \in JobState /\ h.at = "done" /\ h.costs = job[r].costs /\ h.left = job[r].left
  BY <1>2, JobFacts DEF JobState
<1>4. job' = [job EXCEPT ![r] = h]
  BY <1>2 DEF Answer
<1>5. /\ job' \in [Requests -> JobState] /\ job'[r] = h
      /\ \A q \in Requests \ {r} : job'[q] = job[q]
  BY <1>3, <1>4, Replaced DEF Shape
<1>6. Committed(r)'
  BY <1>1, <1>3, <1>5 DEF Answer, JobOK, Committed, IsStored
<1>7. ASSUME NEW c \in watching[r] PROVE Told(r, c)'
  <2>1. Told(r, c) /\ SpansLeft(r)' = {} /\ CostsLeft(r)' = {}
    BY <1>1, <1>3, <1>5 DEF JobOK, SpansLeft, CostsLeft
  <2>. QED
    BY <1>1, <1>3, <1>5, <2>1 DEF Answer, Told, Wants, Offered
<1>8. JobOK(r)'
  BY <1>1, <1>3, <1>5, <1>6, <1>7 DEF Answer, JobOK
<1>9. Shape' /\ Queued' /\ JobsOK' /\ Truthful'
  BY <1>3, <1>4, <1>8, OnlyJob DEF Answer
<1>10. Admitted' \subseteq Admitted
  BY <1>1, <1>5 DEF Admitted
<1>. QED
  BY <1>9, <1>10, SlottedStays

\* The one commit of a handler: what it stores is what all its events tell of.
LEMMA InsertOK ==
    ASSUME IInv, NEW r \in Requests, Insert(r)
    PROVE  IInv'
<1>. USE DEF IInv
<1>1. JobOK(r) /\ job[r].at = "ingest" /\ job[r].costs = {}
  BY DEF Insert, JobsOK, JobOK
<1>2. PICK all \in SUBSET Span :
         /\ stored' = all
         /\ \A s \in stored : \E x \in all : x.trace = s.trace /\ x.id = s.id
         /\ \A i \in DOMAIN Spans[r] : \E x \in all :
               x.trace = Spans[r][i].trace /\ x.id = Spans[r][i].id
         /\ job' = [job EXCEPT ![r].at = "interest", ![r].costs = CostEvents(r, all)]
  BY InsertedFacts, Zenon DEF Insert, Shape
<1>3. PICK costs \in SUBSET CostEventsOfAll :
         /\ costs = CostEvents(r, all)
         /\ \A e \in costs : /\ e.kind = "cost" /\ e.of = r
                             /\ \E i \in DOMAIN Spans[r] :
                                   e.trace = Spans[r][i].trace /\ e.span = Spans[r][i].id
         /\ \A e, f \in costs : e.trace = f.trace => e = f
  BY CostEventsFacts, Zenon
<1>4. PICK h : h = [job[r] EXCEPT !.at = "interest", !.costs = costs]
  OBVIOUS
<1>5. h \in JobState /\ h.at = "interest" /\ h.costs = costs /\ h.left = job[r].left
  BY <1>4, JobFacts DEF JobState
<1>6. job' = [job EXCEPT ![r] = h]
  BY <1>2, <1>3, <1>4
<1>7. /\ job' \in [Requests -> JobState] /\ job'[r] = h
      /\ \A q \in Requests \ {r} : job'[q] = job[q]
  BY <1>5, <1>6, Replaced DEF Shape
<1>8. /\ Subscribed' = Subscribed /\ watching'[r] = Subscribed
      /\ watching' \in [Requests -> SUBSET Subscribed]
      /\ \A q \in Requests \ {r} : watching'[q] = watching[q]
  BY DEF Insert, Shape, Subscribed
<1>9. Shape' /\ Queued'
  BY <1>2, <1>7, <1>8 DEF Insert, Shape, Queued
<1>10. Grows /\ OffersStay
  BY <1>2 DEF Grows, IsStored, Insert, OffersStay, Offered
<1>11. \A q \in Requests \ {r} : JobOK(q)'
  BY <1>7, <1>8, <1>10, OthersStay DEF JobsOK, Shape
<1>12. Committed(r)'
  <2>1. \A i \in DOMAIN Spans[r] : IsStored(Spans[r][i].trace, Spans[r][i].id)'
    BY <1>2 DEF IsStored
  <2>. QED
    BY <1>3, <1>5, <1>7, <2>1 DEF Committed
<1>13. JobOK(r)'
  BY <1>1, <1>5, <1>7, <1>12 DEF JobOK
<1>14. Truthful'
  <2>1. ASSUME NEW c \in Subscribed, NEW e \in Offered(c)
        PROVE  /\ IsStored(e.trace, e.span)'
               /\ e.kind = "cost" => e \in job'[e.of].costs
    <3>1. IsStored(e.trace, e.span) /\ (e.kind = "cost" => e \in job[e.of].costs)
      BY DEF Truthful
    <3>2. IsStored(e.trace, e.span)'
      BY <1>10, <3>1 DEF Grows
    <3>3. CASE e.of = r
      BY <1>1, <3>1, <3>2, <3>3
    <3>4. CASE e.of # r
      <4>1. job'[e.of] = job[e.of]
        BY <1>6, <3>4 DEF Shape
      <4>. QED
        BY <3>1, <3>2, <4>1
    <3>. QED
      BY <3>3, <3>4
  <2>. QED
    BY <1>8, <2>1 DEF Insert, Truthful, Offered
<1>15. Admitted' \subseteq Admitted
  BY <1>1, <1>7 DEF Admitted
<1>. QED
  BY <1>9, <1>11, <1>13, <1>14, <1>15, SlottedStays DEF JobsOK

\* publish offers the event to all who want it, and no one is offered less.
LEMMA BroadcastFacts ==
    ASSUME Shape, Queued, NEW e \in Events, Broadcast(e)
    PROVE  /\ Subscribed' = Subscribed
           /\ queue' \in [Subscribed -> Seq(Events)]
           /\ sent' \in [Subscribed -> SUBSET Events]
           /\ missed' \in [Subscribed -> SUBSET Events]
           /\ Queued' /\ OffersStay
           /\ \A c \in Subscribed : /\ Offered(c)' \subseteq Offered(c) \cup {e}
                                    /\ Wants(c, e) => e \in Offered(c)'
<1>1. PICK takers : takers = {c \in Subscribed : Wants(c, e)}
  OBVIOUS
<1>2. PICK full : full = {c \in takers : Len(queue[c]) >= QueueSize}
  OBVIOUS
<1>3. /\ queue'  = [c \in Subscribed |-> IF c \in takers \ full
                                         THEN Append(queue[c], e) ELSE queue[c]]
      /\ sent'   = [c \in Subscribed |-> IF c \in takers \ full
                                         THEN sent[c] \cup {e} ELSE sent[c]]
      /\ missed' = [c \in Subscribed |-> IF c \in full
                                         THEN missed[c] \cup {e} ELSE missed[c]]
  BY <1>1, <1>2, Zenon DEF Broadcast
<1>4. Subscribed' = Subscribed
  BY <1>3 DEF Subscribed
<1>5. ASSUME NEW c \in Subscribed
      PROVE  /\ Append(queue[c], e) \in Seq(Events)
             /\ Len(Append(queue[c], e)) = Len(queue[c]) + 1 /\ Len(queue[c]) \in Nat
             /\ ToSet(Append(queue[c], e)) \subseteq ToSet(queue[c]) \cup {e}
  <2>1. PICK s \in Seq(Events) : s = queue[c]
    BY DEF Shape
  <2>2. PICK t \in Seq(Events) : t = Append(s, e)
    BY AppendProperties
  <2>3. /\ Len(t) = Len(s) + 1 /\ Len(s) \in Nat
        /\ \A i \in 1 .. Len(s) : t[i] = s[i]
        /\ t[Len(s) + 1] = e
    BY <2>2, AppendProperties, LenProperties
  <2>4. DOMAIN s = 1 .. Len(s) /\ DOMAIN t = 1 .. Len(t)
    BY LenProperties
  <2>5. ToSet(t) \subseteq ToSet(s) \cup {e}
    BY <2>3, <2>4 DEF ToSet
  <2>. QED
    BY <2>1, <2>2, <2>3, <2>5
<1>6. /\ queue' \in [Subscribed -> Seq(Events)]
      /\ sent' \in [Subscribed -> SUBSET Events]
      /\ missed' \in [Subscribed -> SUBSET Events]
  BY <1>3, <1>5 DEF Shape
<1>7. Queued'
  <2>1. ASSUME NEW c \in Subscribed
        PROVE  Len(queue'[c]) <= QueueSize /\ ToSet(queue'[c]) \subseteq sent'[c]
    <3>1. Len(queue[c]) <= QueueSize /\ ToSet(queue[c]) \subseteq sent[c] /\ QueueSize \in Nat
      BY SizesArePositive DEF Queued
    <3>2. CASE c \in takers \ full
      <4>1. queue'[c] = Append(queue[c], e) /\ sent'[c] = sent[c] \cup {e}
        BY <1>3, <3>2
      <4>2. ~ (Len(queue[c]) >= QueueSize)
        BY <1>2, <3>2
      <4>. QED
        BY <1>5, <3>1, <4>1, <4>2
    <3>3. CASE c \notin takers \ full
      BY <1>3, <3>1, <3>3
    <3>. QED
      BY <3>2, <3>3
  <2>. QED
    BY <1>4, <2>1 DEF Queued
<1>8. \A c \in Subscribed : Offered(c) \subseteq Offered(c)'
  BY <1>3 DEF Offered
<1>9. \A c \in Subscribed : /\ Offered(c)' \subseteq Offered(c) \cup {e}
                            /\ Wants(c, e) => e \in Offered(c)'
  BY <1>1, <1>2, <1>3 DEF Offered
<1>. QED
  BY <1>4, <1>6, <1>7, <1>8, <1>9 DEF OffersStay

\* A handler has published one event, and has no less to publish but that one.
LEMMA PublishStep ==
    ASSUME IInv, NEW r \in Requests, job[r].at = "publish", NEW e \in Events, Broadcast(e),
           IsStored(e.trace, e.span), e.kind = "cost" => e \in job[e.of].costs,
           NEW h \in JobState, job' = [job EXCEPT ![r] = h],
           h.at = "publish", h.costs = job[r].costs, h.left \subseteq job[r].left,
           h.next >= 1, h.kind \in {FirstKind(r, h.next), "slow"},
           SpansLeft(r) \subseteq SpansLeft(r)' \cup {e}, job[r].left \subseteq h.left \cup {e},
           UNCHANGED <<stored, watching>>
    PROVE  IInv'
<1>. USE DEF IInv
<1>1. /\ job' \in [Requests -> JobState] /\ job'[r] = h
      /\ \A q \in Requests \ {r} : job'[q] = job[q]
  BY Replaced DEF Shape
<1>2. /\ Subscribed' = Subscribed /\ Queued' /\ OffersStay
      /\ \A c \in Subscribed : /\ Offered(c)' \subseteq Offered(c) \cup {e}
                               /\ Wants(c, e) => e \in Offered(c)'
      /\ queue' \in [Subscribed -> Seq(Events)]
      /\ sent' \in [Subscribed -> SUBSET Events]
      /\ missed' \in [Subscribed -> SUBSET Events]
  BY BroadcastFacts
<1>3. Shape'
  BY <1>1, <1>2 DEF Shape
<1>4. Grows
  BY DEF Grows, IsStored
<1>5. \A q \in Requests \ {r} : JobOK(q)'
  BY <1>1, <1>2, <1>4, OthersStay DEF JobsOK, Shape
<1>6. JobOK(r) /\ watching[r] \subseteq Subscribed
  BY JobFacts DEF JobsOK
<1>7. Committed(r)'
  BY <1>1, <1>6 DEF JobOK, Committed, IsStored
<1>8. ASSUME NEW c \in watching[r] PROVE Told(r, c)'
  <2>1. /\ Told(r, c) /\ c \in Subscribed
        /\ Offered(c) \subseteq Offered(c)' /\ (Wants(c, e) => e \in Offered(c)')
    BY <1>2, <1>6 DEF JobOK, OffersStay
  <2>2. CostsLeft(r) = job[r].left /\ CostsLeft(r)' = h.left
    BY <1>1 DEF CostsLeft
  <2>3. \A x \in SpanEvents(r) \ SpansLeft(r)' : Wants(c, x) => x \in Offered(c)'
    BY <2>1 DEF Told
  <2>4. \A x \in job[r].costs \ CostsLeft(r)' : Wants(c, x) => x \in Offered(c)'
    BY <2>1, <2>2 DEF Told
  <2>. QED
    BY <1>1, <2>3, <2>4 DEF Told, Wants
<1>9. JobOK(r)'
  BY <1>1, <1>6, <1>7, <1>8 DEF JobOK
<1>10. Truthful'
  <2>1. \A q : job'[q].costs = job[q].costs
    <3>1. \A q \in Requests : job'[q].costs = job[q].costs
      BY <1>1
    <3>2. \A q : q \notin Requests => job'[q] = job[q]
      BY DEF Shape
    <3>. QED
      BY <3>1, <3>2
  <2>2. ASSUME NEW c \in Subscribed, NEW x \in Offered(c)'
        PROVE  IsStored(x.trace, x.span) /\ (x.kind = "cost" => x \in job[x.of].costs)
    <3>1. x \in Offered(c) \/ x = e
      BY <1>2
    <3>. QED
      BY <3>1 DEF Truthful
  <2>3. ASSUME NEW c \in Subscribed, NEW x \in Offered(c)'
        PROVE  IsStored(x.trace, x.span)' /\ (x.kind = "cost" => x \in job'[x.of].costs)
    BY <1>4, <2>1, <2>2 DEF Grows
  <2>. QED
    BY <1>2, <2>3 DEF Truthful
<1>11. Admitted' \subseteq Admitted
  BY <1>1 DEF Admitted
<1>. QED
  BY <1>2, <1>3, <1>5, <1>9, <1>10, <1>11, SlottedStays DEF JobsOK

\* An event of a span goes to every queue with room, or is withheld for one
\* that is full.
LEMMA PublishSpanOK ==
    ASSUME IInv, NEW r \in Requests, PublishSpan(r)
    PROVE  IInv'
<1>. USE DEF IInv
<1>1. /\ JobOK(r) /\ job[r].at = "publish"
      /\ job[r] \in JobState /\ job[r].next \in Nat /\ job[r].kind \in {"error", "slow"}
      /\ job[r].next \in DOMAIN Spans[r]
      /\ job[r].kind \in {FirstKind(r, job[r].next), "slow"}
  <2>1. JobOK(r) /\ job[r].at = "publish" /\ job[r].next <= Len(Spans[r])
    BY DEF PublishSpan, JobsOK
  <2>. QED
    BY <2>1, JobFacts, BatchFacts DEF JobOK
<1>2. PICK e : e = SpanEvent(r, job[r].next, job[r].kind)
  OBVIOUS
<1>3. /\ e \in Events /\ Broadcast(e)
      /\ e.kind = job[r].kind /\ IsStored(e.trace, e.span)
  <2>1. e \in About(r, job[r].next)
    BY <1>1, <1>2 DEF About
  <2>2. e \in Events
    BY <1>1, <2>1, SpanEventsFacts
  <2>3. /\ e.kind = job[r].kind /\ e.trace = Spans[r][job[r].next].trace
        /\ e.span = Spans[r][job[r].next].id
    BY <1>2, SpanEventsFacts
  <2>4. IsStored(Spans[r][job[r].next].trace, Spans[r][job[r].next].id)
    BY <1>1 DEF JobOK, Committed
  <2>. QED
    BY <1>2, <2>2, <2>3, <2>4 DEF PublishSpan
<1>4. PICK i \in Nat, k \in {"error", "slow"} :
         /\ i = IF job[r].kind = "error" THEN job[r].next ELSE job[r].next + 1
         /\ k = IF job[r].kind = "error" THEN "slow" ELSE FirstKind(r, job[r].next + 1)
  BY <1>1 DEF FirstKind
<1>5. PICK h : h = [job[r] EXCEPT !.next = i, !.kind = k]
  OBVIOUS
<1>6. /\ h \in JobState /\ h.at = "publish" /\ h.costs = job[r].costs
      /\ h.left = job[r].left /\ h.next = i /\ h.kind = k
  BY <1>1, <1>5 DEF JobState
<1>7. job' = [job EXCEPT ![r] = h]
  <2>1. CASE job[r].kind = "error"
    <3>1. h = [job[r] EXCEPT !.kind = "slow"]
      BY <1>1, <1>4, <1>5, <2>1 DEF JobState
    <3>. QED
      BY <2>1, <3>1 DEF PublishSpan
  <2>2. CASE job[r].kind # "error"
    BY <1>4, <1>5, <2>2 DEF PublishSpan
  <2>. QED
    BY <2>1, <2>2
<1>8. i >= 1 /\ k \in {FirstKind(r, i), "slow"}
  BY <1>1, <1>4, BatchFacts
<1>9. SpansLeft(r) \subseteq SpansLeft(r)' \cup {e}
  <2>1. SpansLeft(r) = ToCome(r, job[r].next, job[r].kind)
    BY <1>1 DEF SpansLeft
  <2>2. SpansLeft(r)' = ToCome(r, i, k)
    <3>1. job'[r] = h
      BY <1>6, <1>7, Replaced DEF Shape
    <3>. QED
      BY <1>6, <3>1 DEF SpansLeft
  <2>3. CASE job[r].kind = "error"
    BY <1>1, <1>2, <1>4, <2>1, <2>2, <2>3, OneLessToCome
  <2>4. CASE job[r].kind = "slow"
    BY <1>1, <1>2, <1>4, <2>1, <2>2, <2>4, OneLessToCome
  <2>. QED
    BY <1>1, <2>3, <2>4
<1>10. UNCHANGED <<stored, watching>>
  BY DEF PublishSpan
<1>. QED
  BY <1>1, <1>3, <1>6, <1>7, <1>8, <1>9, <1>10, PublishStep

\* A cost event is one of those computed in the commit, and is published once.
LEMMA PublishCostOK ==
    ASSUME IInv, NEW r \in Requests, PublishCost(r)
    PROVE  IInv'
<1>. USE DEF IInv
<1>1. /\ JobOK(r) /\ job[r].at = "publish" /\ job[r] \in JobState
      /\ job[r].left \in SUBSET CostEventsOfAll
  BY JobFacts DEF PublishCost, JobsOK
<1>2. PICK e \in job[r].left : Broadcast(e) /\ job' = [job EXCEPT ![r].left = @ \ {e}]
  BY DEF PublishCost
<1>3. /\ e \in Events /\ IsStored(e.trace, e.span) /\ e \in job[e.of].costs
  BY <1>1 DEF JobOK, Committed, Events
<1>4. PICK left \in SUBSET CostEventsOfAll : left = job[r].left \ {e}
  BY <1>1
<1>5. PICK h : h = [job[r] EXCEPT !.left = left]
  OBVIOUS
<1>6. /\ h \in JobState /\ h.at = "publish" /\ h.costs = job[r].costs
      /\ h.left = left /\ h.next = job[r].next /\ h.kind = job[r].kind
  BY <1>1, <1>5 DEF JobState
<1>7. job' = [job EXCEPT ![r] = h]
  BY <1>2, <1>4, <1>5
<1>8. SpansLeft(r)' = SpansLeft(r)
  <2>1. job'[r] = h
    BY <1>6, <1>7, Replaced DEF Shape
  <2>. QED
    BY <1>1, <1>6, <2>1 DEF SpansLeft
<1>9. h.next >= 1 /\ h.kind \in {FirstKind(r, h.next), "slow"}
  BY <1>1, <1>6 DEF JobOK
<1>10. UNCHANGED <<stored, watching>>
  BY DEF PublishCost
<1>. QED
  BY <1>1, <1>2, <1>3, <1>4, <1>6, <1>7, <1>8, <1>9, <1>10, PublishStep

\* Clients that come and go leave the requests alone.
LEMMA ClientStep ==
    ASSUME IInv, UNCHANGED <<job, stored>>,
           OffersStay, Subscribed' \subseteq Clients,
           queue' \in [Subscribed' -> Seq(Events)], sent' \in [Subscribed' -> SUBSET Events],
           missed' \in [Subscribed' -> SUBSET Events], Queued',
           watching' \in [Requests -> SUBSET Subscribed'],
           \A q \in Requests : watching'[q] \subseteq watching[q],
           \A c \in Subscribed' : Offered(c)' \subseteq (IF c \in Subscribed THEN Offered(c) ELSE {})
    PROVE  IInv'
<1>. USE DEF IInv
<1>1. Shape'
  BY DEF Shape
<1>2. Grows
  BY DEF Grows, IsStored
<1>3. JobsOK'
  <2>1. ASSUME NEW q \in Requests PROVE JobOK(q)'
    BY <1>2, OthersStay DEF JobsOK, Shape
  <2>. QED
    BY <2>1 DEF JobsOK
<1>4. Truthful'
  BY DEF Truthful, IsStored
<1>5. Admitted' \subseteq Admitted
  BY DEF Admitted
<1>. QED
  BY <1>1, <1>3, <1>4, <1>5, SlottedStays

\* A client that subscribes joins with an empty queue.
LEMMA SubscribeOK ==
    ASSUME IInv, NEW c \in Clients, Subscribe(c)
    PROVE  IInv'
<1>. USE DEF IInv
<1>1. Subscribed' = Subscribed \cup {c} /\ c \notin Subscribed
  BY DEF Subscribe, Subscribed
<1>2. <<>> \in Seq(Events) /\ Len(<<>>) = 0 /\ ToSet(<<>>) = {} /\ QueueSize \in Nat
  BY SizesArePositive DEF ToSet
<1>3. /\ queue'[c] = <<>> /\ sent'[c] = {} /\ missed'[c] = {}
      /\ \A d \in Subscribed : /\ queue'[d] = queue[d] /\ sent'[d] = sent[d]
                               /\ missed'[d] = missed[d]
      /\ queue' \in [Subscribed' -> Seq(Events)] /\ sent' \in [Subscribed' -> SUBSET Events]
      /\ missed' \in [Subscribed' -> SUBSET Events]
  BY <1>1, <1>2 DEF Subscribe, Shape
<1>4. Queued'
  BY <1>1, <1>2, <1>3 DEF Queued
<1>5. /\ OffersStay
      /\ \A d \in Subscribed' : Offered(d)' \subseteq (IF d \in Subscribed THEN Offered(d) ELSE {})
  BY <1>1, <1>3 DEF OffersStay, Offered
<1>6. /\ UNCHANGED <<job, stored>> /\ Subscribed' \subseteq Clients
      /\ watching' \in [Requests -> SUBSET Subscribed']
      /\ \A q \in Requests : watching'[q] \subseteq watching[q]
  BY <1>1 DEF Subscribe, Shape
<1>. QED
  BY <1>3, <1>4, <1>5, <1>6, ClientStep

\* A client takes what its queue has.
LEMMA ReceiveOK ==
    ASSUME IInv, NEW c \in Clients, Receive(c)
    PROVE  IInv'
<1>. USE DEF IInv
<1>1. PICK s \in Seq(Events) : s = queue[c] /\ s # <<>>
  BY DEF Receive, Shape
<1>2. PICK t \in Seq(Events) : t = Tail(s)
  BY <1>1, HeadTailProperties
<1>3. /\ Len(s) \in Nat /\ Len(t) = Len(s) - 1 /\ \A i \in 1 .. Len(t) : t[i] = s[i + 1]
      /\ DOMAIN s = 1 .. Len(s) /\ DOMAIN t = 1 .. Len(t)
  BY <1>1, <1>2, HeadTailProperties, LenProperties
<1>4. ToSet(t) \subseteq ToSet(s)
  <2>1. \A i \in 1 .. Len(t) : i + 1 \in 1 .. Len(s)
    BY <1>3
  <2>. QED
    BY <1>3, <2>1 DEF ToSet
<1>5. Subscribed' = Subscribed
  BY DEF Receive, Subscribed
<1>6. queue' = [queue EXCEPT ![c] = t]
  BY <1>1, <1>2 DEF Receive
<1>7. /\ queue' \in [Subscribed' -> Seq(Events)] /\ queue'[c] = t
      /\ \A d \in Subscribed \ {c} : queue'[d] = queue[d]
  BY <1>5, <1>6 DEF Receive, Shape
<1>8. Queued'
  <2>1. c \in Subscribed /\ Len(s) <= QueueSize /\ ToSet(s) \subseteq sent[c] /\ QueueSize \in Nat
    BY <1>1, SizesArePositive DEF Receive, Queued
  <2>2. Len(t) <= QueueSize /\ ToSet(t) \subseteq sent[c]
    BY <1>3, <1>4, <2>1
  <2>. QED
    BY <1>5, <1>7, <2>2 DEF Receive, Queued
<1>9. /\ UNCHANGED <<job, stored, sent, missed, watching>>
      /\ sent' \in [Subscribed' -> SUBSET Events] /\ missed' \in [Subscribed' -> SUBSET Events]
      /\ watching' \in [Requests -> SUBSET Subscribed'] /\ Subscribed' \subseteq Clients
      /\ \A q \in Requests : watching'[q] \subseteq watching[q]
  BY <1>5 DEF Receive, Shape
<1>10. /\ OffersStay
       /\ \A d \in Subscribed' : Offered(d)' \subseteq (IF d \in Subscribed THEN Offered(d) ELSE {})
  BY <1>5, <1>9 DEF OffersStay, Offered
<1>. QED
  BY <1>7, <1>8, <1>9, <1>10, ClientStep

\* A client that leaves is owed nothing.
LEMMA UnsubscribeOK ==
    ASSUME IInv, NEW c \in Clients, Unsubscribe(c)
    PROVE  IInv'
<1>. USE DEF IInv
<1>1. Subscribed' = Subscribed \ {c}
  BY DEF Unsubscribe, Subscribed, Restrict
<1>2. /\ \A d \in Subscribed' : /\ queue'[d] = queue[d] /\ sent'[d] = sent[d]
                                /\ missed'[d] = missed[d]
      /\ queue' \in [Subscribed' -> Seq(Events)] /\ sent' \in [Subscribed' -> SUBSET Events]
      /\ missed' \in [Subscribed' -> SUBSET Events]
  BY <1>1 DEF Unsubscribe, Restrict, Shape
<1>3. Queued'
  BY <1>1, <1>2 DEF Queued
<1>4. /\ OffersStay
      /\ \A d \in Subscribed' : Offered(d)' \subseteq (IF d \in Subscribed THEN Offered(d) ELSE {})
  BY <1>1, <1>2 DEF OffersStay, Offered
<1>5. /\ UNCHANGED <<job, stored>> /\ Subscribed' \subseteq Clients
      /\ watching' \in [Requests -> SUBSET Subscribed']
      /\ \A q \in Requests : watching'[q] \subseteq watching[q]
  BY <1>1 DEF Unsubscribe, Shape
<1>. QED
  BY <1>2, <1>3, <1>4, <1>5, ClientStep

\* A crash forgets the handlers and the clients, and keeps what is stored.
LEMMA CrashOK ==
    ASSUME IInv, Crash
    PROVE  IInv'
<1>. USE DEF IInv
<1>1. Subscribed' = {}
  BY DEF Crash, Subscribed, Nobody
<1>2. ASSUME NEW r \in Requests
      PROVE  /\ job'[r] \in JobState
             /\ job'[r].at \notin {"ingest", "interest", "publish"}
             /\ \/ job'[r] = job[r]
                \/ job'[r].at = "done" /\ job'[r].costs = {} /\ job'[r].left = {}
  <2>1. PICK h : h = [Fresh EXCEPT !.at = "done"]
    OBVIOUS
  <2>2. h = [at |-> "done", costs |-> {}, next |-> 1, kind |-> "slow", left |-> {}]
    BY <2>1 DEF Fresh
  <2>3. h \in JobState /\ h.at = "done" /\ h.costs = {} /\ h.left = {}
    BY <2>2 DEF JobState
  <2>4. job'[r] = IF r \in Admitted THEN h ELSE job[r]
    BY <2>1 DEF Crash
  <2>5. r \notin Admitted => job[r].at \notin {"ingest", "interest", "publish"}
    BY DEF Admitted
  <2>. QED
    BY <2>3, <2>4, <2>5, JobFacts
<1>3. Shape'
  <2>1. DOMAIN job' = Requests
    BY DEF Crash
  <2>2. job' \in [Requests -> JobState]
    BY <1>2, <2>1 DEF Crash
  <2>3. watching' \in [Requests -> SUBSET Subscribed']
    BY DEF Crash
  <2>4. /\ queue' \in [Subscribed' -> Seq(Events)] /\ sent' \in [Subscribed' -> SUBSET Events]
        /\ missed' \in [Subscribed' -> SUBSET Events]
    BY <1>1 DEF Crash, Nobody
  <2>. QED
    BY <1>1, <2>2, <2>3, <2>4 DEF Crash, Shape
<1>4. Queued' /\ Truthful'
  BY <1>1 DEF Queued, Truthful
<1>5. JobsOK'
  <2>1. ASSUME NEW r \in Requests PROVE JobOK(r)'
    <3>1. watching'[r] = {} /\ JobOK(r) /\ stored' = stored
      BY DEF Crash, JobsOK
    <3>2. CASE job'[r] = job[r]
      <4>1. Committed(r) => Committed(r)'
        BY <3>1, <3>2 DEF Committed, IsStored
      <4>. QED
        BY <1>2, <3>1, <3>2, <4>1 DEF JobOK
    <3>3. CASE job'[r] # job[r]
      BY <1>2, <3>1, <3>3 DEF JobOK
    <3>. QED
      BY <3>2, <3>3
  <2>. QED
    BY <2>1 DEF JobsOK
<1>6. Admitted' \subseteq Admitted
  BY <1>2 DEF Admitted
<1>. QED
  BY <1>3, <1>4, <1>5, <1>6, SlottedStays

------------------------------------------------------------------------------
(* Theorems *)

\* The invariant holds when nothing has arrived.
LEMMA InitIInv == Init => IInv
<1>. SUFFICES ASSUME Init PROVE IInv
  OBVIOUS
<1>1. Subscribed = {}
  BY DEF Init, Subscribed, Nobody
<1>2. ASSUME NEW r \in Requests
      PROVE  /\ job[r] \in JobState /\ job[r].at = "new"
             /\ job[r].costs = {} /\ job[r].left = {} /\ watching[r] = {}
  BY DEF Init, Fresh, JobState
<1>3. Shape
  <2>1. job \in [Requests -> JobState] /\ watching \in [Requests -> SUBSET Subscribed]
    BY <1>2 DEF Init
  <2>. QED
    BY <1>1, <2>1 DEF Init, Shape, Nobody
<1>4. JobsOK
  BY <1>2 DEF JobsOK, JobOK
<1>5. Slotted
  <2>1. Admitted = {}
    BY <1>2 DEF Admitted
  <2>2. IsFiniteSet(Admitted) /\ Cardinality(Admitted) = 0
    BY <2>1, FS_EmptySet
  <2>. QED
    BY <2>2, SizesArePositive DEF Slotted
<1>. QED
  BY <1>1, <1>3, <1>4, <1>5 DEF IInv, Queued, Truthful

\* Every step keeps the invariant.
LEMMA NextIInv == IInv /\ [Next]_vars => IInv'
<1>. SUFFICES ASSUME IInv, [Next]_vars PROVE IInv'
  OBVIOUS
<1>1. ASSUME NEW r \in Requests, Request(r) \/ Retry(r) \/ Fail(r) \/ Handle(r)
      PROVE  IInv'
  BY <1>1, RequestOK, RetryOrFailOK, InsertOK, InterestOK, PublishSpanOK, PublishCostOK,
     AnswerOK DEF Handle
<1>2. ASSUME NEW c \in Clients, Subscribe(c) \/ Receive(c) \/ Unsubscribe(c)
      PROVE  IInv'
  BY <1>2, SubscribeOK, ReceiveOK, UnsubscribeOK
<1>3. CASE UNCHANGED vars
  <2>1. /\ Subscribed' = Subscribed /\ Admitted' = Admitted /\ Queued'
        /\ OffersStay /\ Shape /\ Queued
    BY <1>3 DEF vars, Subscribed, Admitted, IInv, Queued, OffersStay, Offered
  <2>2. \A c \in Subscribed' : Offered(c)' \subseteq (IF c \in Subscribed THEN Offered(c) ELSE {})
    BY <1>3, <2>1 DEF vars, Offered
  <2>. QED
    BY <1>3, <2>1, <2>2, ClientStep DEF vars, Shape
<1>. QED
  BY <1>1, <1>2, <1>3, CrashOK DEF Next

\* What every state of the handlers, the broker and the store has.
THEOREM AlwaysIInv == Spec => []IInv
BY InitIInv, NextIInv, PTL DEF Spec

\* The shape of the state, the slots and the queues: a request is admitted only to
\* a free slot, and a full queue drops the event.
THEOREM SpecTypeOK == Spec => []TypeOK
<1>1. IInv => TypeOK
  <2>. SUFFICES ASSUME IInv PROVE TypeOK
    OBVIOUS
  <2>1. \A r \in Requests :
           /\ job[r].at \in {"new", "refused", "ingest", "interest", "publish", "done"}
           /\ watching[r] \subseteq Subscribed
    BY JobFacts DEF IInv
  <2>2. Subscribed \subseteq Clients /\ DOMAIN sent = Subscribed /\ DOMAIN missed = Subscribed
    BY DEF IInv, Shape
  <2>. QED
    BY <2>1, <2>2 DEF IInv, Slotted, Queued, TypeOK
<1>. QED
  BY <1>1, AlwaysIInv, PTL

\* Whatever a client was sent is about a span that is stored, and of a batch and a
\* trace there is one cost event: those of the commit.
THEOREM SpecEventsTellOfCommits == Spec => []EventsTellOfCommits
<1>1. IInv => EventsTellOfCommits
  <2>. SUFFICES ASSUME IInv, NEW c \in Subscribed PROVE
           /\ \A e \in sent[c] : \E s \in stored : s.trace = e.trace /\ s.id = e.span
           /\ \A e, f \in sent[c] \cup missed[c] :
                 e.kind = "cost" /\ f.kind = "cost" /\ e.of = f.of /\ e.trace = f.trace => e = f
    BY DEF EventsTellOfCommits
  <2>1. \A e \in sent[c] : \E s \in stored : s.trace = e.trace /\ s.id = e.span
    BY DEF IInv, Truthful, Offered, IsStored
  <2>2. ASSUME NEW e \in Offered(c), NEW f \in Offered(c), e.kind = "cost", f.kind = "cost",
               e.of = f.of, e.trace = f.trace
        PROVE  e = f
    <3>1. e \in job[e.of].costs /\ f \in job[e.of].costs
      BY <2>2 DEF IInv, Truthful
    <3>2. e.of \in Requests
      <4>1. e \in Events
        BY <2>2 DEF IInv, Shape, Offered
      <4>2. CASE e \in CostEventsOfAll
        <5>1. PICK r \in Requests, S \in SUBSET Span : e \in CostEvents(r, S)
          BY <4>2 DEF CostEventsOfAll
        <5>. QED
          BY <5>1, CostEventsFacts
      <4>3. CASE e \notin CostEventsOfAll
        <5>1. PICK r \in Requests : e \in SpanEvents(r)
          BY <4>1, <4>3 DEF Events
        <5>. QED
          BY <5>1, SpanEventsFacts DEF SpanEvents
      <4>. QED
        BY <4>2, <4>3
    <3>3. Committed(e.of)
      BY <3>1, <3>2 DEF IInv, JobsOK, JobOK
    <3>. QED
      BY <2>2, <3>1, <3>3 DEF Committed
  <2>. QED
    BY <2>1, <2>2 DEF Offered
<1>. QED
  BY <1>1, AlwaysIInv, PTL

\* A client that was there when the batch committed, and stays until its handler
\* ends, was offered all that it asked for.
THEOREM SpecNothingWithheld == Spec => []NothingWithheld
<1>1. IInv => NothingWithheld
  <2>. SUFFICES ASSUME IInv, NEW r \in Requests, NEW c \in Clients,
                       job[r].at = "done", c \in watching[r],
                       NEW e \in SpanEvents(r) \cup job[r].costs, Wants(c, e)
                PROVE  e \in sent[c] \cup missed[c]
    BY DEF NothingWithheld
  <2>1. Told(r, c) /\ SpansLeft(r) = {} /\ CostsLeft(r) = {}
    BY DEF IInv, JobsOK, JobOK, SpansLeft, CostsLeft
  <2>. QED
    BY <2>1 DEF Told, Offered
<1>. QED
  BY <1>1, AlwaysIInv, PTL

==============================================================================
