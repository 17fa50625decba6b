-------------------------- MODULE LogPairingProofs --------------------------
(***************************************************************************)
(* For any batches, keys, limit and life time of a request: the count of   *)
(* the waiting requests is right, a request is part of one span at most,   *)
(* and only the oldest is evicted.  The invariant says that the queues are *)
(* ordered: the numbers of the requests are unique over all queues, grow   *)
(* along each, and grow with the time of arrival.                          *)
(***************************************************************************)
EXTENDS LogPairing, FiniteSetTheorems, SequenceTheorems, WellFoundedInduction, TLAPS

------------------------------------------------------------------------------
(* The invariant *)

\* The queues p when n requests have come and the clock is t.
Orderly(p, n, t) ==
    /\ p \in [Keys -> Seq(Waiting)]
    /\ IsFiniteSet(Places(p))
    /\ \A k \in Keys : \A i \in DOMAIN p[k] :
          p[k][i].at <= t /\ p[k][i].order \in 1 .. n
    /\ \A k \in Keys : \A i, j \in DOMAIN p[k] : i < j => p[k][i].order < p[k][j].order
    /\ \A k, l \in Keys : \A i \in DOMAIN p[k], j \in DOMAIN p[l] :
          /\ p[k][i].order = p[l][j].order => k = l /\ i = j
          /\ p[k][i].order < p[l][j].order => p[k][i].at <= p[l][j].at

Queues ==
    /\ now \in Nat /\ nextOrder \in Nat
    /\ Orderly(pending, nextOrder, now)
    /\ count = Total(pending) /\ count <= MaxPending

\* Decode is in the middle of a batch, and has a place to put its spans.
Decoding ==
    /\ decoder.batch \in Batches
    /\ decoder.next \in DOMAIN decoder.batch
    /\ decoder = [batch |-> decoder.batch, next |-> decoder.next, made |-> decoder.made]
    /\ Len(writing) < Slots

Made ==
    /\ decoder = Unlocked \/ Decoding
    /\ decoder.made \in Seq(spans)
    /\ writing \in Seq(Seq(spans)) /\ Len(writing) <= Slots
    /\ rows \subseteq spans
    /\ \A r, s \in rows : r.id = s.id => r = s

\* What is known of a span that has a request.
Paired(s) ==
    /\ s.request \in Waiting
    /\ s.request.order \in 1 .. nextOrder
    /\ s.request.time # 0 => s.start = s.request.time
    /\ s.made <= s.request.at + TTL
    /\ \A e \in Entries : e.order # s.request.order
    /\ \A u \in spans : u.request # NULL /\ u.request.order = s.request.order => u = s

Pairs == \A s \in spans : s.request # NULL => Paired(s)

IInv == Queues /\ Made /\ Pairs

------------------------------------------------------------------------------
(* Numbers and queues *)

\* A non-empty set of natural numbers has a least element.
LEMMA LeastNatural ==
    ASSUME NEW S \in SUBSET Nat, S # {}
    PROVE  /\ \E x \in S : \A y \in S : x <= y
           /\ Min(S) \in S /\ \A y \in S : Min(S) <= y
<1>1. PICK x \in S : \A y \in S : ~ (<<y, x>> \in OpToRel(<, Nat))
  BY WFMin, NatLessThanWellFounded
<1>2. \A y \in S : ~ (y < x)
  BY <1>1 DEF OpToRel
<1>3. \E z \in S : \A y \in S : z <= y
  BY <1>2
<1>. QED
  BY <1>3, Zenon DEF Min

\* A non-empty set of natural numbers under a bound has a greatest element.
LEMMA GreatestNatural ==
    ASSUME NEW b \in Nat, NEW S \in SUBSET 0 .. b, S # {}
    PROVE  Max(S) \in S /\ \A y \in S : Max(S) >= y
<1>. DEFINE T == {b - x : x \in S}
<1>0. \A x \in S : b - x \in Nat
  OBVIOUS
<1>1. T \in SUBSET Nat /\ T # {}
  BY <1>0
<1>2. PICK m \in T : \A y \in T : m <= y
  BY <1>1, LeastNatural, Zenon
<1>3. PICK x \in S : m = b - x
  BY <1>2
<1>4. ASSUME NEW y \in S PROVE x >= y
  <2>1. m <= b - y
    BY <1>2
  <2>. QED
    BY <1>3, <2>1
<1>. QED
  BY <1>4, Zenon DEF Max

\* The entries of a queue.
LEMMA QueueFacts ==
    ASSUME NEW p \in [Keys -> Seq(Waiting)], NEW k \in Keys
    PROVE  /\ p[k] \in Seq(Waiting) /\ Len(p[k]) \in Nat
           /\ DOMAIN p[k] = 1 .. Len(p[k])
           /\ \A i \in DOMAIN p[k] :
                 /\ p[k][i] \in Waiting
                 /\ p[k][i].time \in Nat /\ p[k][i].at \in Nat /\ p[k][i].order \in Nat
<1>1. p[k] \in Seq(Waiting)
  OBVIOUS
<1>2. Len(p[k]) \in Nat /\ DOMAIN p[k] = 1 .. Len(p[k])
  BY <1>1, LenProperties
<1>3. \A i \in DOMAIN p[k] : p[k][i] \in Waiting
  BY <1>1, <1>2, ElementOfSeq
<1>. QED
  BY <1>1, <1>2, <1>3 DEF Waiting

\* The places of the queues depend on their lengths alone.
LEMMA PlacesOfLengths ==
    ASSUME NEW p \in [Keys -> Seq(Waiting)]
    PROVE  \A k, i : <<k, i>> \in Places(p) <=> k \in Keys /\ i \in 1 .. Len(p[k])
BY QueueFacts DEF Places

\* A place is a key and a position in its queue.
LEMMA PlacesArePairs ==
    ASSUME NEW p \in [Keys -> Seq(Waiting)], NEW x \in Places(p)
    PROVE  \E k \in Keys : \E i \in 1 .. Len(p[k]) : x = <<k, i>>
BY QueueFacts DEF Places

\* Shorter queues have no more places.
LEMMA FewerPlaces ==
    ASSUME NEW p \in [Keys -> Seq(Waiting)], NEW q \in [Keys -> Seq(Waiting)],
           IsFiniteSet(Places(p)), \A k \in Keys : Len(q[k]) <= Len(p[k])
    PROVE  /\ IsFiniteSet(Places(q)) /\ Total(q) <= Total(p)
           /\ Total(p) \in Nat /\ Total(q) \in Nat
<1>1. Places(q) \subseteq Places(p)
  <2>1. ASSUME NEW x \in Places(q) PROVE x \in Places(p)
    <3>1. PICK k, i : k \in Keys /\ i \in 1 .. Len(q[k]) /\ x = <<k, i>>
      BY PlacesArePairs
    <3>2. i \in 1 .. Len(p[k])
      BY <3>1, QueueFacts
    <3>. QED
      BY <3>1, <3>2, PlacesOfLengths, Zenon
  <2>. QED
    BY <2>1
<1>. QED
  BY <1>1, FS_Subset, FS_CardinalityType DEF Total

\* A queue that is one longer has one place more.
LEMMA OnePlaceMore ==
    ASSUME NEW p \in [Keys -> Seq(Waiting)], NEW q \in [Keys -> Seq(Waiting)],
           IsFiniteSet(Places(p)) \/ IsFiniteSet(Places(q)),
           NEW k \in Keys, Len(q[k]) = Len(p[k]) + 1,
           \A l \in Keys \ {k} : Len(q[l]) = Len(p[l])
    PROVE  /\ IsFiniteSet(Places(p)) /\ IsFiniteSet(Places(q))
           /\ Total(q) = Total(p) + 1 /\ Total(p) \in Nat /\ Total(q) \in Nat
<1>. DEFINE new == <<k, Len(q[k])>>
<1>1. Places(q) = Places(p) \cup {new} /\ new \notin Places(p)
  <2>1. ASSUME NEW x \in Places(q) PROVE x \in Places(p) \cup {new}
    <3>1. PICK l, i : l \in Keys /\ i \in 1 .. Len(q[l]) /\ x = <<l, i>>
      BY PlacesArePairs
    <3>2. i \in 1 .. Len(p[l]) \/ (l = k /\ i = Len(q[k]))
      BY <3>1, QueueFacts
    <3>. QED
      BY <3>1, <3>2, PlacesOfLengths, Zenon
  <2>2. ASSUME NEW x \in Places(p) PROVE x \in Places(q)
    <3>1. PICK l, i : l \in Keys /\ i \in 1 .. Len(p[l]) /\ x = <<l, i>>
      BY PlacesArePairs
    <3>2. i \in 1 .. Len(q[l])
      BY <3>1, QueueFacts
    <3>. QED
      BY <3>1, <3>2, PlacesOfLengths, Zenon
  <2>3. Len(q[k]) \in 1 .. Len(q[k]) /\ Len(q[k]) \notin 1 .. Len(p[k])
    BY QueueFacts
  <2>4. new \in Places(q) /\ new \notin Places(p)
    BY <2>3, PlacesOfLengths, Zenon
  <2>. QED
    BY <2>1, <2>2, <2>4, Zenon
<1>2. IsFiniteSet(Places(p)) /\ IsFiniteSet(Places(q))
  BY <1>1, FS_Subset, FS_AddElement
<1>3. Cardinality(Places(p)) \in Nat /\ Cardinality(Places(q)) \in Nat
  BY <1>2, FS_CardinalityType
<1>4. PICK S, T, x : S = Places(p) /\ T = Places(q) /\ x = new
  OBVIOUS
<1>5. T = S \cup {x} /\ x \notin S /\ IsFiniteSet(S)
  BY <1>1, <1>2, <1>4, Zenon
<1>6. Cardinality(T) = Cardinality(S) + 1
  <2>1. Cardinality(S \cup {x}) = IF x \in S THEN Cardinality(S) ELSE Cardinality(S) + 1
    BY <1>5, FS_AddElement, Zenon
  <2>. QED
    BY <1>5, <2>1, Zenon
<1>. QED
  BY <1>2, <1>3, <1>4, <1>6, Zenon DEF Total

------------------------------------------------------------------------------
(* The operations on the queues *)

\* Each queue of q is a part of that of p, in the same order: its i-th request is
\* the m[k][i]-th there.
PartOf(q, p, m) ==
    /\ q \in [Keys -> Seq(Waiting)]
    /\ \A k \in Keys :
          /\ Len(q[k]) <= Len(p[k])
          /\ \A i \in DOMAIN q[k] : m[k][i] \in DOMAIN p[k] /\ q[k][i] = p[k][m[k][i]]
          /\ \A i, j \in DOMAIN q[k] : i < j => m[k][i] < m[k][j]

\* Requests may be taken out anywhere: the queues stay ordered.
LEMMA PartIsOrderly ==
    ASSUME NEW p, NEW q, NEW m, NEW n, NEW t, Orderly(p, n, t), PartOf(q, p, m)
    PROVE  Orderly(q, n, t) /\ EntriesOf(q) \subseteq EntriesOf(p)
<1>1. p \in [Keys -> Seq(Waiting)] /\ q \in [Keys -> Seq(Waiting)]
  BY DEF Orderly, PartOf
<1>2. IsFiniteSet(Places(q))
  BY <1>1, FewerPlaces DEF Orderly, PartOf
<1>3. ASSUME NEW k \in Keys, NEW i \in DOMAIN q[k]
      PROVE  q[k][i].at <= t /\ q[k][i].order \in 1 .. n
  <2>1. m[k][i] \in DOMAIN p[k] /\ q[k][i] = p[k][m[k][i]]
    BY DEF PartOf
  <2>. QED
    BY <2>1 DEF Orderly
<1>4. ASSUME NEW k \in Keys, NEW i \in DOMAIN q[k], NEW j \in DOMAIN q[k], i < j
      PROVE  q[k][i].order < q[k][j].order
  <2>1. /\ m[k][i] \in DOMAIN p[k] /\ q[k][i] = p[k][m[k][i]]
        /\ m[k][j] \in DOMAIN p[k] /\ q[k][j] = p[k][m[k][j]]
        /\ m[k][i] < m[k][j]
    BY <1>4 DEF PartOf
  <2>. QED
    BY <2>1 DEF Orderly
<1>5. ASSUME NEW k \in Keys, NEW l \in Keys, NEW i \in DOMAIN q[k], NEW j \in DOMAIN q[l]
      PROVE  /\ q[k][i].order = q[l][j].order => k = l /\ i = j
             /\ q[k][i].order < q[l][j].order => q[k][i].at <= q[l][j].at
  <2>1. /\ m[k][i] \in DOMAIN p[k] /\ q[k][i] = p[k][m[k][i]]
        /\ m[l][j] \in DOMAIN p[l] /\ q[l][j] = p[l][m[l][j]]
    BY DEF PartOf
  <2>2. q[k][i].order = q[l][j].order => k = l /\ m[k][i] = m[l][j]
    BY <2>1 DEF Orderly
  <2>3. ASSUME k = l, m[k][i] = m[l][j] PROVE i = j
    <3>1. i \in Int /\ j \in Int /\ m[k][i] \in Int
      BY <1>1, <2>1, <2>3, QueueFacts
    <3>. QED
      BY <2>3, <3>1 DEF PartOf
  <2>4. q[k][i].order < q[l][j].order => q[k][i].at <= q[l][j].at
    BY <2>1 DEF Orderly
  <2>. QED
    BY <2>2, <2>3, <2>4
<1>6. EntriesOf(q) \subseteq EntriesOf(p)
  BY DEF EntriesOf, PartOf
<1>. QED
  BY <1>1, <1>2, <1>3, <1>4, <1>5, <1>6 DEF Orderly

\* What expire takes from a queue.
LEMMA ExpiredFrontFacts ==
    ASSUME NEW queue \in Seq(Waiting)
    PROVE  /\ ExpiredFront(queue) \in 0 .. Len(queue)
           /\ \A i \in 1 .. ExpiredFront(queue) : queue[i].at < now - TTL
           /\ ExpiredFront(queue) < Len(queue) =>
                 ~ (queue[ExpiredFront(queue) + 1].at < now - TTL)
<1>. DEFINE S == {n \in 0 .. Len(queue) : \A i \in 1 .. n : queue[i].at < now - TTL}
            front == Max(S)
<1>1. Len(queue) \in Nat
  BY LenProperties
<1>2. S \in SUBSET (0 .. Len(queue)) /\ 0 \in S
  BY <1>1
<1>3. front \in S /\ \A n \in S : front >= n
  BY <1>1, <1>2, GreatestNatural, Zenon
<1>4. ASSUME front < Len(queue), queue[front + 1].at < now - TTL PROVE FALSE
  <2>1. front \in 0 .. Len(queue) /\ \A i \in 1 .. front : queue[i].at < now - TTL
    BY <1>3
  <2>2. front + 1 \in 0 .. Len(queue)
    BY <1>1, <1>4, <2>1
  <2>3. \A i \in 1 .. front + 1 : queue[i].at < now - TTL
    <3>1. ASSUME NEW i \in 1 .. front + 1 PROVE i \in 1 .. front \/ i = front + 1
      BY <1>1, <2>1
    <3>. QED
      BY <2>1, <1>4, <3>1, Zenon
  <2>4. front >= front + 1
    BY <1>3, <2>2, <2>3, Zenon
  <2>. QED
    BY <2>1, <2>4, <1>1
<1>5. ExpiredFront(queue) = front
  BY DEF ExpiredFront
<1>. HIDE DEF front
<1>. QED
  BY <1>3, <1>4, <1>5, Zenon

\* After expire the queues are ordered and hold all requests that are not older
\* than TTL, and no others.
LEMMA UnexpiredFacts ==
    ASSUME NEW n, Orderly(pending, n, now), now \in Nat
    PROVE  /\ Orderly(Unexpired, n, now)
           /\ Total(Unexpired) <= Total(pending)
           /\ Total(Unexpired) \in Nat /\ Total(pending) \in Nat
           /\ EntriesOf(Unexpired) \subseteq Entries
           /\ \A e \in EntriesOf(Unexpired) : e.at >= now - TTL
           /\ \A e \in Entries : e.at >= now - TTL => e \in EntriesOf(Unexpired)
<1>. DEFINE front(k) == ExpiredFront(pending[k])
            m == [k \in Keys |-> [i \in Nat |-> i + front(k)]]
<1>0. pending \in [Keys -> Seq(Waiting)] /\ TTL \in Nat
  BY PendingIsPositive DEF Orderly
<1>1. \A k \in Keys :
         /\ front(k) \in 0 .. Len(pending[k])
         /\ \A i \in 1 .. front(k) : pending[k][i].at < now - TTL
         /\ front(k) < Len(pending[k]) => ~ (pending[k][front(k) + 1].at < now - TTL)
  BY <1>0, ExpiredFrontFacts, QueueFacts, Zenon
<1>. HIDE DEF front
<1>2. ASSUME NEW k \in Keys
      PROVE  /\ Unexpired[k] \in Seq(Waiting)
             /\ Len(Unexpired[k]) = Len(pending[k]) - front(k)
             /\ DOMAIN Unexpired[k] = 1 .. Len(pending[k]) - front(k)
             /\ \A i \in DOMAIN Unexpired[k] :
                   i + front(k) \in DOMAIN pending[k]
                   /\ Unexpired[k][i] = pending[k][i + front(k)]
  <2>1. Unexpired[k] = SubSeq(pending[k], front(k) + 1, Len(pending[k]))
    BY DEF Unexpired, front
  <2>2. /\ Len(pending[k]) \in Nat /\ DOMAIN pending[k] = 1 .. Len(pending[k])
        /\ \A i \in DOMAIN pending[k] : pending[k][i] \in Waiting
    BY <1>0, QueueFacts, Zenon
  <2>3. \A i \in front(k) + 1 .. Len(pending[k]) : pending[k][i] \in Waiting
    BY <1>1, <2>2
  <2>. DEFINE a == front(k) + 1
              b == Len(pending[k])
  <2>4. a \in Int /\ b \in Int /\ front(k) \in Int
    BY <1>1, <2>2
  <2>5. /\ Unexpired[k] \in Seq(Waiting)
        /\ Len(Unexpired[k]) = IF a <= b THEN b - a + 1 ELSE 0
        /\ \A i \in 1 .. b - a + 1 : Unexpired[k][i] = pending[k][a + i - 1]
    <3>. HIDE DEF a, b
    <3>1. \A i \in a .. b : pending[k][i] \in Waiting
      BY <2>3 DEF a, b
    <3>2. Unexpired[k] = SubSeq(pending[k], a, b)
      BY <2>1 DEF a, b
    <3>. QED
      BY <2>4, <3>1, <3>2, SubSeqProperties
  <2>6. Len(Unexpired[k]) = b - front(k) /\ b - a + 1 = b - front(k)
    BY <2>4, <2>5, <1>1
  <2>7. DOMAIN Unexpired[k] = 1 .. b - front(k)
    BY <2>5, <2>6, LenProperties, Zenon
  <2>8. ASSUME NEW i \in 1 .. b - front(k)
        PROVE  i + front(k) \in 1 .. b /\ Unexpired[k][i] = pending[k][i + front(k)]
    <3>1. a + i - 1 = i + front(k) /\ i + front(k) \in 1 .. b
      BY <2>4, <1>1
    <3>. QED
      BY <2>5, <2>6, <3>1
  <2>. QED
    BY <2>2, <2>5, <2>6, <2>7, <2>8
<1>3. Unexpired \in [Keys -> Seq(Waiting)]
  BY <1>2 DEF Unexpired
<1>4. PartOf(Unexpired, pending, m)
  <2>1. ASSUME NEW k \in Keys
        PROVE  /\ Len(Unexpired[k]) <= Len(pending[k])
               /\ front(k) \in Nat
               /\ \A i \in DOMAIN Unexpired[k] : i \in Nat /\ m[k][i] = i + front(k)
    <3>1. Len(pending[k]) \in Nat
      BY <1>0, QueueFacts, Zenon
    <3>2. front(k) \in 0 .. Len(pending[k]) /\ Len(Unexpired[k]) = Len(pending[k]) - front(k)
      BY <1>1, <1>2, Zenon
    <3>3. DOMAIN Unexpired[k] = 1 .. Len(pending[k]) - front(k)
      BY <1>2, Zenon
    <3>4. Len(Unexpired[k]) <= Len(pending[k]) /\ front(k) \in Nat
      <4>. HIDE DEF m
      <4>. QED
        BY <3>1, <3>2
    <3>5. ASSUME NEW i \in DOMAIN Unexpired[k]
          PROVE  i \in Nat /\ m[k][i] = i + front(k)
      <4>1. i \in Nat
        <5>. HIDE DEF m
        <5>. QED
          BY <3>1, <3>2, <3>3
      <4>2. m[k][i] = i + front(k)
        BY <4>1, Zenon
      <4>. QED
        BY <4>1, <4>2
    <3>. HIDE DEF m
    <3>. QED
      BY <3>4, <3>5
  <2>. HIDE DEF m
  <2>2. ASSUME NEW k \in Keys
        PROVE  /\ Len(Unexpired[k]) <= Len(pending[k])
               /\ \A i \in DOMAIN Unexpired[k] :
                     m[k][i] \in DOMAIN pending[k] /\ Unexpired[k][i] = pending[k][m[k][i]]
    BY <1>2, <2>1
  <2>3. ASSUME NEW k \in Keys, NEW i \in DOMAIN Unexpired[k], NEW j \in DOMAIN Unexpired[k], i < j
        PROVE  m[k][i] < m[k][j]
    BY <2>1, <2>3
  <2>. QED
    BY <1>3, <2>2, <2>3 DEF PartOf
<1>. HIDE DEF m
<1>5. Orderly(Unexpired, n, now) /\ EntriesOf(Unexpired) \subseteq Entries
  BY <1>4, PartIsOrderly, Zenon DEF Entries
<1>6. Total(Unexpired) <= Total(pending) /\ Total(Unexpired) \in Nat /\ Total(pending) \in Nat
  BY <1>0, <1>3, <1>4, FewerPlaces, Zenon DEF PartOf, Orderly
<1>7. ASSUME NEW e \in EntriesOf(Unexpired) PROVE e.at >= now - TTL
  <2>1. PICK k \in Keys : \E i \in DOMAIN Unexpired[k] : e = Unexpired[k][i]
    BY DEF EntriesOf
  <2>2. PICK i \in DOMAIN Unexpired[k] : e = Unexpired[k][i]
    BY <2>1
  <2>3. /\ Len(pending[k]) \in Nat /\ DOMAIN pending[k] = 1 .. Len(pending[k])
        /\ \A j \in DOMAIN pending[k] : pending[k][j].at \in Nat /\ pending[k][j].order \in Nat
    BY <1>0, QueueFacts, Zenon
  <2>4. /\ i + front(k) \in 1 .. Len(pending[k]) /\ e = pending[k][i + front(k)]
        /\ i \in 1 .. Len(pending[k]) - front(k) /\ front(k) \in 0 .. Len(pending[k])
    BY <1>1, <1>2, <2>2, <2>3
  <2>5. front(k) + 1 \in 1 .. Len(pending[k]) /\ ~ (pending[k][front(k) + 1].at < now - TTL)
    BY <1>1, <2>3, <2>4
  <2>6. pending[k][front(k) + 1].at <= e.at
    <3>1. CASE i = 1
      BY <3>1, <2>3, <2>4
    <3>2. CASE i # 1
      <4>1. front(k) + 1 < i + front(k)
        BY <3>2, <2>4, <2>3
      <4>2. pending[k][front(k) + 1].order < pending[k][i + front(k)].order
        BY <4>1, <2>3, <2>4, <2>5 DEF Orderly
      <4>3. \A a, b \in DOMAIN pending[k] :
               pending[k][a].order < pending[k][b].order => pending[k][a].at <= pending[k][b].at
        BY <2>3 DEF Orderly
      <4>4. front(k) + 1 \in DOMAIN pending[k] /\ i + front(k) \in DOMAIN pending[k]
        BY <2>3, <2>4, <2>5
      <4>5. pending[k][i + front(k)].at = e.at
        BY <2>3, <2>4
      <4>. QED
        BY <4>2, <4>3, <4>4, <4>5, Zenon
    <3>. QED
      BY <3>1, <3>2
  <2>. QED
    BY <2>3, <2>4, <2>5, <2>6, <1>0
<1>8. ASSUME NEW e \in Entries, e.at >= now - TTL PROVE e \in EntriesOf(Unexpired)
  <2>1. PICK k \in Keys : \E i \in DOMAIN pending[k] : e = pending[k][i]
    BY DEF Entries, EntriesOf
  <2>2. PICK i \in DOMAIN pending[k] : e = pending[k][i]
    BY <2>1
  <2>3. /\ Len(pending[k]) \in Nat /\ DOMAIN pending[k] = 1 .. Len(pending[k])
        /\ pending[k][i].at \in Nat
    BY <1>0, <2>2, QueueFacts, Zenon
  <2>4. i \notin 1 .. front(k)
    BY <1>0, <1>1, <1>8, <2>2, <2>3
  <2>5. i - front(k) \in DOMAIN Unexpired[k] /\ (i - front(k)) + front(k) = i
    BY <1>1, <1>2, <2>2, <2>3, <2>4
  <2>6. e = Unexpired[k][i - front(k)]
    BY <1>2, <2>2, <2>5
  <2>. QED
    BY <2>5, <2>6 DEF EntriesOf
<1>. QED
  BY <1>5, <1>6, <1>7, <1>8

\* u is the queue s without its i-th request.
IsRest(u, s, i) ==
    /\ u \in Seq(Waiting)
    /\ Len(u) = Len(s) - 1
    /\ \A j \in 1 .. Len(u) : u[j] = IF j < i THEN s[j] ELSE s[j + 1]

\* The queues q are the queues p without the i-th request of k.
IsWithout(q, p, k, i) ==
    /\ q \in [Keys -> Seq(Waiting)]
    /\ IsRest(q[k], p[k], i)
    /\ \A l \in Keys \ {k} : q[l] = p[l]

\* A request leaves its queue, the i-th of the queue of k.
LEMMA OneLeaves ==
    ASSUME NEW p, NEW n, NEW t, Orderly(p, n, t), NEW k \in Keys, NEW i \in DOMAIN p[k],
           NEW q, IsWithout(q, p, k, i)
    PROVE  /\ Orderly(q, n, t)
           /\ Total(p) = Total(q) + 1 /\ Total(p) \in Nat /\ Total(q) \in Nat
           /\ EntriesOf(q) = EntriesOf(p) \ {p[k][i]}
<1>. DEFINE mk == [j \in Nat |-> IF j < i THEN j ELSE j + 1]
            m == [l \in Keys |-> IF l = k THEN mk ELSE [j \in Nat |-> j]]
<1>. DEFINE s == q[k]
<1>0. /\ s \in Seq(Waiting) /\ Len(s) = Len(p[k]) - 1
      /\ \A j \in 1 .. Len(s) : s[j] = IF j < i THEN p[k][j] ELSE p[k][j + 1]
  BY DEF IsRest, IsWithout
<1>1. p \in [Keys -> Seq(Waiting)] /\ IsFiniteSet(Places(p))
  BY DEF Orderly
<1>2. /\ Len(p[k]) \in Nat /\ DOMAIN p[k] = 1 .. Len(p[k]) /\ i \in 1 .. Len(p[k])
  BY <1>1, QueueFacts, Zenon
<1>3. q \in [Keys -> Seq(Waiting)] /\ q[k] = s /\ \A l \in Keys \ {k} : q[l] = p[l]
  BY DEF IsWithout
<1>. HIDE DEF s
<1>4. DOMAIN s = 1 .. Len(s) /\ Len(s) \in Nat
  BY <1>0, LenProperties, Zenon
<1>5. \A l \in Keys : DOMAIN q[l] = 1 .. Len(q[l]) /\ Len(q[l]) \in Nat
  BY <1>3, QueueFacts, Zenon
<1>6. PartOf(q, p, m)
  <2>1. ASSUME NEW l \in Keys, l # k
        PROVE  /\ Len(q[l]) <= Len(p[l])
               /\ \A j \in DOMAIN q[l] : m[l][j] \in DOMAIN p[l] /\ q[l][j] = p[l][m[l][j]]
               /\ \A j, g \in DOMAIN q[l] : j < g => m[l][j] < m[l][g]
    <3>1. q[l] = p[l] /\ DOMAIN p[l] = 1 .. Len(p[l]) /\ Len(p[l]) \in Nat
      BY <1>3, <1>5, <2>1
    <3>2. \A j \in DOMAIN q[l] : m[l][j] = j
      BY <2>1, <3>1
    <3>. HIDE DEF m
    <3>. QED
      BY <3>1, <3>2
  <2>2. /\ Len(s) <= Len(p[k])
        /\ \A j \in DOMAIN s : mk[j] \in DOMAIN p[k] /\ s[j] = p[k][mk[j]]
        /\ \A j, g \in DOMAIN s : j < g => mk[j] < mk[g]
    <3>1. ASSUME NEW j \in DOMAIN s PROVE mk[j] \in DOMAIN p[k] /\ s[j] = p[k][mk[j]]
      <4>0. j \in Nat /\ j \in 1 .. Len(s)
        BY <1>0, <1>4
      <4>1. mk[j] = (IF j < i THEN j ELSE j + 1) /\ mk[j] \in 1 .. Len(p[k])
        BY <1>0, <1>2, <1>4, <4>0
      <4>2. s[j] = IF j < i THEN p[k][j] ELSE p[k][j + 1]
        BY <1>0, <1>4
      <4>. HIDE DEF mk
      <4>. QED
        BY <1>2, <4>1, <4>2
    <3>2. ASSUME NEW j \in DOMAIN s, NEW g \in DOMAIN s, j < g PROVE mk[j] < mk[g]
      <4>1. j \in Nat /\ g \in Nat /\ i \in Nat
        BY <1>0, <1>2, <1>4
      <4>2. mk[j] = (IF j < i THEN j ELSE j + 1) /\ mk[g] = (IF g < i THEN g ELSE g + 1)
        BY <4>1
      <4>. HIDE DEF mk
      <4>. QED
        BY <3>2, <4>1, <4>2
    <3>3. Len(s) <= Len(p[k])
      BY <1>0, <1>2, <1>4
    <3>. QED
      BY <3>1, <3>2, <3>3
  <2>3. m[k] = mk
    OBVIOUS
  <2>. HIDE DEF m, mk
  <2>. QED
    BY <1>3, <2>1, <2>2, <2>3 DEF PartOf
<1>7. Orderly(q, n, t) /\ EntriesOf(q) \subseteq EntriesOf(p)
  BY <1>6, PartIsOrderly, Zenon
<1>8. Total(p) = Total(q) + 1 /\ Total(p) \in Nat /\ Total(q) \in Nat
  <2>1. Len(p[k]) = Len(q[k]) + 1
    BY <1>0, <1>2, <1>3
  <2>2. \A l \in Keys \ {k} : Len(p[l]) = Len(q[l])
    BY <1>3
  <2>. QED
    BY <1>1, <1>3, <2>1, <2>2, OnePlaceMore, Zenon
<1>9. ASSUME NEW e \in EntriesOf(p), e # p[k][i] PROVE e \in EntriesOf(q)
  <2>1. PICK l, j : l \in Keys /\ j \in DOMAIN p[l] /\ e = p[l][j]
    BY DEF EntriesOf
  <2>2. CASE l # k
    BY <1>3, <2>1, <2>2 DEF EntriesOf
  <2>3. CASE l = k /\ j < i
    <3>1. j \in 1 .. Len(s) /\ s[j] = e
      BY <1>0, <1>2, <1>4, <2>1, <2>3
    <3>2. j \in DOMAIN q[k] /\ q[k][j] = e
      BY <1>3, <1>4, <3>1, Zenon
    <3>. QED
      BY <3>2 DEF EntriesOf
  <2>4. CASE l = k /\ i < j
    <3>1. j - 1 \in 1 .. Len(s) /\ ~ (j - 1 < i) /\ (j - 1) + 1 = j
      BY <1>0, <1>2, <1>4, <2>1, <2>4
    <3>2. s[j - 1] = e
      BY <1>0, <2>1, <2>4, <3>1
    <3>3. j - 1 \in DOMAIN q[k] /\ q[k][j - 1] = e
      BY <1>0, <1>3, <1>4, <3>1, <3>2, Zenon
    <3>. QED
      BY <3>3 DEF EntriesOf
  <2>. QED
    <3>1. j \in Int /\ i \in Int
      BY <1>1, <1>2, <2>1, QueueFacts
    <3>2. l = k => j # i
      BY <1>9, <2>1
    <3>. QED
      BY <2>2, <2>3, <2>4, <3>1, <3>2
<1>10. ASSUME p[k][i] \in EntriesOf(q) PROVE FALSE
  <2>1. PICK l, j : l \in Keys /\ j \in DOMAIN q[l] /\ p[k][i] = q[l][j]
    BY <1>10 DEF EntriesOf
  <2>2. CASE l # k
    <3>1. q[l] = p[l]
      BY <1>3, <2>1, <2>2
    <3>. QED
      BY <2>1, <2>2, <3>1 DEF Orderly
  <2>3. CASE l = k
    <3>1. j \in 1 .. Len(s) /\ p[k][i] = IF j < i THEN p[k][j] ELSE p[k][j + 1]
      BY <1>0, <1>3, <1>4, <2>1, <2>3
    <3>2. CASE j < i
      <4>1. j \in DOMAIN p[k] /\ p[k][i] = p[k][j] /\ j # i
        BY <1>0, <1>2, <1>4, <3>1, <3>2
      <4>. QED
        BY <4>1 DEF Orderly
    <3>3. CASE ~ (j < i)
      <4>1. j + 1 \in DOMAIN p[k] /\ p[k][i] = p[k][j + 1] /\ j + 1 # i
        BY <1>0, <1>2, <1>4, <3>1, <3>3
      <4>. QED
        BY <4>1 DEF Orderly
    <3>. QED
      BY <3>2, <3>3
  <2>. QED
    BY <2>2, <2>3
<1>11. EntriesOf(q) = EntriesOf(p) \ {p[k][i]}
  BY <1>7, <1>9, <1>10
<1>. QED
  BY <1>3, <1>7, <1>8, <1>11

\* popPending takes the i-th request of the queue of k.
LEMMA TakenIsWithout ==
    ASSUME NEW p \in [Keys -> Seq(Waiting)], NEW k \in Keys, NEW i \in DOMAIN p[k],
           NEW q, q = [p EXCEPT ![k] = Taken(p[k], i)]
    PROVE  IsWithout(q, p, k, i)
<1>. DEFINE s == p[k]
            front == SubSeq(s, 1, i - 1)
            back == SubSeq(s, i + 1, Len(s))
<1>2. /\ Len(s) \in Nat /\ i \in 1 .. Len(s)
      /\ \A j \in 1 .. Len(s) : s[j] \in Waiting
  BY QueueFacts, Zenon
<1>. HIDE DEF s
<1>3. /\ front \in Seq(Waiting) /\ Len(front) = i - 1
      /\ \A j \in 1 .. i - 1 : front[j] = s[j]
  <2>1. i - 1 \in Int /\ \A j \in 1 .. i - 1 : s[j] \in Waiting
    BY <1>2
  <2>2. /\ front \in Seq(Waiting) /\ Len(front) = (IF 1 <= i - 1 THEN (i - 1) - 1 + 1 ELSE 0)
        /\ \A j \in 1 .. (i - 1) - 1 + 1 : front[j] = s[1 + j - 1]
    BY <2>1, SubSeqProperties
  <2>. HIDE DEF front
  <2>. QED
    BY <1>2, <2>2
<1>4. /\ back \in Seq(Waiting) /\ Len(back) = Len(s) - i
      /\ \A j \in 1 .. Len(s) - i : back[j] = s[i + j]
  <2>1. i + 1 \in Int /\ Len(s) \in Int /\ \A j \in i + 1 .. Len(s) : s[j] \in Waiting
    BY <1>2
  <2>2. /\ back \in Seq(Waiting)
        /\ Len(back) = (IF i + 1 <= Len(s) THEN Len(s) - (i + 1) + 1 ELSE 0)
        /\ \A j \in 1 .. Len(s) - (i + 1) + 1 : back[j] = s[(i + 1) + j - 1]
    BY <2>1, SubSeqProperties
  <2>. HIDE DEF back
  <2>. QED
    BY <1>2, <2>2
<1>5. Taken(s, i) = front \o back
  BY DEF Taken, RemoveAt
<1>. HIDE DEF front, back
<1>6. /\ Taken(s, i) \in Seq(Waiting) /\ Len(Taken(s, i)) = Len(s) - 1
      /\ \A j \in 1 .. Len(Taken(s, i)) :
            Taken(s, i)[j] = IF j < i THEN s[j] ELSE s[j + 1]
  <2>1. /\ Taken(s, i) \in Seq(Waiting)
        /\ Len(Taken(s, i)) = Len(front) + Len(back)
        /\ \A j \in 1 .. Len(front) + Len(back) :
              Taken(s, i)[j] = IF j <= Len(front) THEN front[j] ELSE back[j - Len(front)]
    <3>1. front \in Seq(Waiting) /\ back \in Seq(Waiting)
      BY <1>3, <1>4, Zenon
    <3>. DEFINE both == front \o back
    <3>2. /\ both \in Seq(Waiting) /\ Len(both) = Len(front) + Len(back)
          /\ \A j \in 1 .. Len(front) + Len(back) :
                both[j] = IF j <= Len(front) THEN front[j] ELSE back[j - Len(front)]
      BY <3>1, ConcatProperties
    <3>. HIDE DEF both
    <3>3. Taken(s, i) = both
      BY <1>5 DEF both
    <3>. QED
      BY <3>2, <3>3
  <2>2. Len(front) + Len(back) = Len(s) - 1
    BY <1>2, <1>3, <1>4
  <2>3. ASSUME NEW j \in 1 .. Len(s) - 1
        PROVE  Taken(s, i)[j] = IF j < i THEN s[j] ELSE s[j + 1]
    <3>1. Taken(s, i)[j] = IF j <= i - 1 THEN front[j] ELSE back[j - (i - 1)]
      BY <1>3, <2>1, <2>2
    <3>2. CASE j < i
      BY <1>2, <1>3, <3>1, <3>2
    <3>3. CASE ~ (j < i)
      <4>1. j - (i - 1) \in 1 .. Len(s) - i /\ i + (j - (i - 1)) = j + 1 /\ ~ (j <= i - 1)
        BY <1>2, <3>3
      <4>2. back[j - (i - 1)] = s[j + 1]
        BY <1>4, <4>1
      <4>. QED
        BY <3>1, <3>3, <4>1, <4>2
    <3>. QED
      BY <3>2, <3>3
  <2>. QED
    BY <2>1, <2>2, <2>3
<1>7. IsRest(Taken(s, i), s, i)
  BY <1>6 DEF IsRest
<1>8. /\ q \in [Keys -> Seq(Waiting)] /\ q[k] = Taken(s, i)
      /\ \A l \in Keys \ {k} : q[l] = p[l]
  BY <1>6 DEF s
<1>. QED
  BY <1>7, <1>8 DEF s, IsWithout

\* Where a request waits, the first of a queue is the oldest: dropOldest takes the
\* oldest of all.
LEMMA DropOldestFacts ==
    ASSUME NEW p, NEW n, NEW t, Orderly(p, n, t), Total(p) # 0, NEW q, q = DropOldest(p)
    PROVE  \E k \in Keys :
              /\ 1 \in DOMAIN p[k] /\ IsWithout(q, p, k, 1)
              /\ \A f \in EntriesOf(p) : p[k][1].order <= f.order
<1>. DEFINE Heads == {j \in Keys : p[j] # <<>>}
            Older(j, k) ==
               \/ p[j][1].at < p[k][1].at
               \/ p[j][1].at = p[k][1].at /\ p[j][1].order < p[k][1].order
            Orders == {p[j][1].order : j \in Heads}
<1>1. p \in [Keys -> Seq(Waiting)]
  BY DEF Orderly
<1>2. \A j \in Keys : p[j] # <<>> <=> 1 \in DOMAIN p[j]
  <2>1. ASSUME NEW j \in Keys PROVE p[j] # <<>> <=> 1 \in DOMAIN p[j]
    <3>1. p[j] \in Seq(Waiting) /\ DOMAIN p[j] = 1 .. Len(p[j]) /\ Len(p[j]) \in Nat
      BY <1>1, QueueFacts, Zenon
    <3>2. p[j] # <<>> => Len(p[j]) # 0
      BY <3>1, EmptySeq
    <3>3. p[j] = <<>> => Len(p[j]) = 0
      BY EmptySeq
    <3>. QED
      BY <3>1, <3>2, <3>3
  <2>. QED
    BY <2>1
<1>3. \A j \in Heads :
         1 \in DOMAIN p[j] /\ p[j][1].at \in Nat /\ p[j][1].order \in Nat
  BY <1>1, <1>2, QueueFacts, Zenon
<1>4. Heads # {}
  <2>1. SUFFICES ASSUME Heads = {} PROVE FALSE
    OBVIOUS
  <2>2. Places(p) = {}
    <3>1. ASSUME NEW x \in Places(p) PROVE FALSE
      <4>1. PICK k, i : k \in Keys /\ i \in 1 .. Len(p[k]) /\ x = <<k, i>>
        BY <1>1, <3>1, PlacesArePairs
      <4>2. p[k] = <<>> /\ Len(p[k]) = 0
        BY <2>1, <4>1, EmptySeq
      <4>. QED
        BY <4>1, <4>2
    <3>. QED
      BY <3>1
  <2>. QED
    BY <2>2, FS_EmptySet DEF Total
<1>5. PICK o \in Heads : \A j \in Heads : p[o][1].order <= p[j][1].order
  <2>1. Orders \in SUBSET Nat /\ Orders # {}
    BY <1>3, <1>4
  <2>2. PICK x \in Orders : \A y \in Orders : x <= y
    BY <2>1, LeastNatural, Zenon
  <2>. QED
    BY <2>2
<1>6. \A j \in Heads \ {o} : Older(o, j)
  <2>1. ASSUME NEW j \in Heads, j # o PROVE Older(o, j)
    <3>1. p[o][1].order # p[j][1].order
      BY <1>3, <2>1 DEF Orderly
    <3>2. p[o][1].order < p[j][1].order
      BY <1>3, <1>5, <3>1
    <3>3. p[o][1].at <= p[j][1].at
      BY <1>3, <3>2 DEF Orderly
    <3>. QED
      BY <1>3, <3>2, <3>3
  <2>. QED
    BY <2>1
<1>. DEFINE k == CHOOSE h \in Heads : \A j \in Heads \ {h} : Older(h, j)
<1>7. k \in Heads /\ \A j \in Heads \ {k} : Older(k, j)
  BY <1>6, Zenon
<1>8. q = [p EXCEPT ![k] = Tail(p[k])]
  BY DEF DropOldest
<1>. HIDE DEF k
<1>9. IsWithout(q, p, k, 1)
  <2>1. k \in Keys /\ p[k] \in Seq(Waiting) /\ p[k] # <<>>
    BY <1>1, <1>7
  <2>2. IsRest(Tail(p[k]), p[k], 1)
    <3>1. /\ Tail(p[k]) \in Seq(Waiting) /\ Len(Tail(p[k])) = Len(p[k]) - 1
          /\ \A j \in 1 .. Len(Tail(p[k])) : Tail(p[k])[j] = p[k][j + 1]
      BY <2>1, HeadTailProperties
    <3>2. \A j \in 1 .. Len(Tail(p[k])) : ~ (j < 1)
      BY <3>1, LenProperties
    <3>. QED
      BY <3>1, <3>2 DEF IsRest
  <2>3. /\ q \in [Keys -> Seq(Waiting)] /\ q[k] = Tail(p[k])
        /\ \A l \in Keys \ {k} : q[l] = p[l]
    <3>1. PICK u : u = Tail(p[k])
      OBVIOUS
    <3>2. u \in Seq(Waiting)
      BY <2>2, <3>1 DEF IsRest
    <3>3. q = [p EXCEPT ![k] = u]
      BY <1>8, <3>1
    <3>4. /\ q \in [Keys -> Seq(Waiting)] /\ q[k] = u
          /\ \A l \in Keys \ {k} : q[l] = p[l]
      BY <1>1, <2>1, <3>2, <3>3
    <3>. QED
      BY <3>1, <3>4, Zenon
  <2>. QED
    BY <2>2, <2>3 DEF IsWithout
<1>10. ASSUME NEW j \in Heads PROVE p[k][1].order <= p[j][1].order
  <2>1. CASE j = k
    BY <1>3, <2>1
  <2>2. CASE j # k
    <3>1. Older(k, j)
      BY <1>7, <2>2
    <3>2. ~ (p[j][1].order < p[k][1].order) \/ p[k][1].order < p[j][1].order
      BY <1>3, <1>7, <3>1 DEF Orderly
    <3>. QED
      BY <1>3, <1>7, <3>2
  <2>. QED
    BY <2>1, <2>2
<1>11. ASSUME NEW f \in EntriesOf(p) PROVE p[k][1].order <= f.order
  <2>1. PICK l, i : l \in Keys /\ i \in DOMAIN p[l] /\ f = p[l][i]
    BY DEF EntriesOf
  <2>2. /\ DOMAIN p[l] = 1 .. Len(p[l]) /\ Len(p[l]) \in Nat
        /\ \A g \in DOMAIN p[l] : p[l][g].order \in Nat
    BY <1>1, <2>1, QueueFacts, Zenon
  <2>3. 1 \in DOMAIN p[l] /\ l \in Heads
    BY <1>2, <2>1, <2>2
  <2>4. p[l][1].order <= f.order
    <3>1. i = 1 \/ 1 < i
      BY <2>1, <2>2
    <3>2. 1 < i => p[l][1].order < p[l][i].order
      BY <2>1, <2>3 DEF Orderly
    <3>3. p[l][1].order \in Nat /\ f.order \in Nat
      BY <2>1, <2>2, <2>3
    <3>. QED
      BY <2>1, <3>1, <3>2, <3>3
  <2>5. p[k][1].order <= p[l][1].order
    BY <1>10, <2>3
  <2>. QED
    BY <1>3, <1>7, <2>1, <2>2, <2>3, <2>4, <2>5
<1>12. k \in Keys /\ 1 \in DOMAIN p[k]
  BY <1>3, <1>7
<1>. QED
  BY <1>9, <1>11, <1>12

\* The queues q are the queues p with e behind the others of k.
IsFollowed(q, p, k, e) == q = [p EXCEPT ![k] = Append(@, e)]

\* The next request is put behind the queue of k.
LEMMA AppendFacts ==
    ASSUME NEW p, NEW n \in Nat, NEW t \in Nat, Orderly(p, n, t), NEW k \in Keys,
           NEW e \in Waiting, e.at = t, e.order = n + 1,
           NEW q, IsFollowed(q, p, k, e)
    PROVE  /\ Orderly(q, n + 1, t)
           /\ Total(q) = Total(p) + 1 /\ Total(p) \in Nat /\ Total(q) \in Nat
           /\ EntriesOf(q) = EntriesOf(p) \cup {e}
<1>1. p \in [Keys -> Seq(Waiting)]
  BY DEF Orderly
<1>2. /\ \A l \in Keys : /\ DOMAIN p[l] = 1 .. Len(p[l]) /\ Len(p[l]) \in Nat
                         /\ \A i \in DOMAIN p[l] : /\ p[l][i].order \in Nat
                                                   /\ p[l][i].at \in Nat
  BY <1>1, QueueFacts, Zenon
<1>3. /\ q \in [Keys -> Seq(Waiting)]
      /\ Len(q[k]) = Len(p[k]) + 1
      /\ DOMAIN q[k] = DOMAIN p[k] \cup {Len(p[k]) + 1}
      /\ \A i \in DOMAIN p[k] : q[k][i] = p[k][i]
      /\ q[k][Len(p[k]) + 1] = e
      /\ \A l \in Keys \ {k} : q[l] = p[l]
  <2>. DEFINE u == Append(p[k], e)
  <2>1. /\ u \in Seq(Waiting) /\ Len(u) = Len(p[k]) + 1
        /\ \A i \in 1 .. Len(p[k]) : u[i] = p[k][i]
        /\ u[Len(p[k]) + 1] = e
    BY <1>1, <1>2
  <2>2. DOMAIN u = 1 .. Len(u)
    BY <2>1, LenProperties, Zenon
  <2>. HIDE DEF u
  <2>3. q = [p EXCEPT ![k] = u]
    BY DEF u, IsFollowed
  <2>4. q \in [Keys -> Seq(Waiting)] /\ q[k] = u /\ \A l \in Keys \ {k} : q[l] = p[l]
    BY <1>1, <2>1, <2>3
  <2>5. DOMAIN u = DOMAIN p[k] \cup {Len(p[k]) + 1}
    BY <1>2, <2>1, <2>2
  <2>. QED
    BY <1>2, <2>1, <2>4, <2>5
<1>4. /\ IsFiniteSet(Places(q))
      /\ Total(q) = Total(p) + 1 /\ Total(p) \in Nat /\ Total(q) \in Nat
  <2>1. \A l \in Keys \ {k} : Len(q[l]) = Len(p[l])
    BY <1>3
  <2>2. IsFiniteSet(Places(p))
    BY DEF Orderly
  <2>. QED
    BY <1>1, <1>3, <2>1, <2>2, OnePlaceMore, ZenonT(30)
<1>. DEFINE Old(l, i) == l \in Keys /\ i \in DOMAIN p[l] /\ q[l][i] = p[l][i]
            New(l, i) == l = k /\ i = Len(p[k]) + 1 /\ q[l][i] = e
<1>5. \A l \in Keys : \A i \in DOMAIN q[l] : Old(l, i) \/ New(l, i)
  <2>1. ASSUME NEW l \in Keys, NEW i \in DOMAIN q[l] PROVE Old(l, i) \/ New(l, i)
    <3>1. CASE l = k
      BY <1>3, <3>1
    <3>2. CASE l # k
      <4>1. q[l] = p[l]
        BY <1>3, <3>2
      <4>. QED
        BY <4>1
    <3>. QED
      BY <3>1, <3>2
  <2>. QED
    BY <2>1
<1>6. \A l, i : Old(l, i) => /\ q[l][i].order \in 1 .. n /\ q[l][i].at <= t
                             /\ q[l][i].order \in Nat /\ q[l][i].at \in Nat /\ i \in Nat
  BY <1>2 DEF Orderly
<1>7. \A l, i : New(l, i) => /\ q[l][i].order = n + 1 /\ q[l][i].at = t
                             /\ l = k /\ i = Len(p[k]) + 1
  OBVIOUS
<1>8. \A l, i, g, j : Old(l, i) /\ Old(g, j) =>
         /\ q[l][i].order = q[g][j].order => l = g /\ i = j
         /\ q[l][i].order < q[g][j].order => q[l][i].at <= q[g][j].at
         /\ l = g /\ i < j => q[l][i].order < q[g][j].order
  BY DEF Orderly
<1>9. EntriesOf(q) = EntriesOf(p) \cup {e}
  <2>1. ASSUME NEW f \in EntriesOf(q) PROVE f \in EntriesOf(p) \cup {e}
    <3>1. PICK l, i : l \in Keys /\ i \in DOMAIN q[l] /\ f = q[l][i]
      BY DEF EntriesOf
    <3>. QED
      BY <1>5, <3>1 DEF EntriesOf
  <2>2. ASSUME NEW f \in EntriesOf(p) PROVE f \in EntriesOf(q)
    <3>1. PICK l, i : l \in Keys /\ i \in DOMAIN p[l] /\ f = p[l][i]
      BY DEF EntriesOf
    <3>2. i \in DOMAIN q[l] /\ q[l][i] = p[l][i]
      BY <1>3, <3>1
    <3>. QED
      BY <3>1, <3>2 DEF EntriesOf
  <2>3. e \in EntriesOf(q)
    <3>1. Len(p[k]) + 1 \in DOMAIN q[k] /\ q[k][Len(p[k]) + 1] = e
      BY <1>3
    <3>. QED
      BY <3>1 DEF EntriesOf
  <2>. QED
    BY <2>1, <2>2, <2>3
<1>. HIDE DEF Old, New
<1>10. ASSUME NEW l \in Keys, NEW i \in DOMAIN q[l]
       PROVE  q[l][i].at <= t /\ q[l][i].order \in 1 .. n + 1
  <2>1. CASE Old(l, i)
    BY <1>6, <2>1
  <2>2. CASE New(l, i)
    BY <1>7, <2>2
  <2>. QED
    BY <1>5, <2>1, <2>2
<1>11. ASSUME NEW l \in Keys, NEW i \in DOMAIN q[l], NEW j \in DOMAIN q[l], i < j
       PROVE  q[l][i].order < q[l][j].order
  <2>1. i # Len(p[k]) + 1 \/ l # k
    BY <1>2, <1>3, <1>11
  <2>2. Old(l, i)
    BY <1>5, <1>7, <2>1
  <2>3. CASE Old(l, j)
    BY <1>8, <1>11, <2>2, <2>3
  <2>4. CASE New(l, j)
    BY <1>6, <1>7, <2>2, <2>4
  <2>. QED
    BY <1>5, <2>3, <2>4
<1>12. ASSUME NEW l \in Keys, NEW g \in Keys, NEW i \in DOMAIN q[l], NEW j \in DOMAIN q[g]
       PROVE  /\ q[l][i].order = q[g][j].order => l = g /\ i = j
              /\ q[l][i].order < q[g][j].order => q[l][i].at <= q[g][j].at
  <2>1. CASE Old(l, i) /\ Old(g, j)
    BY <1>8, <2>1
  <2>2. CASE Old(l, i) /\ New(g, j)
    BY <1>6, <1>7, <2>2
  <2>3. CASE New(l, i) /\ Old(g, j)
    BY <1>6, <1>7, <2>3
  <2>4. CASE New(l, i) /\ New(g, j)
    BY <1>7, <2>4
  <2>. QED
    BY <1>5, <2>1, <2>2, <2>3, <2>4
<1>13. Orderly(q, n + 1, t)
  BY <1>3, <1>4, <1>10, <1>11, <1>12 DEF Orderly
<1>. QED
  BY <1>4, <1>9, <1>13

\* The queues after expire and before what the record itself does: ordered, with
\* the count that is their number.
LEMMA ExpiredQueues ==
    ASSUME Queues
    PROVE  /\ Orderly(Unexpired, nextOrder, now)
           /\ CountUnexpired = Total(Unexpired) /\ CountUnexpired \in Nat
           /\ CountUnexpired <= MaxPending
           /\ EntriesOf(Unexpired) \subseteq Entries
           /\ \A e \in EntriesOf(Unexpired) : e.at >= now - TTL
           /\ \A e \in Entries : e.at >= now - TTL => e \in EntriesOf(Unexpired)
<1>1. /\ Orderly(Unexpired, nextOrder, now)
      /\ Total(Unexpired) <= Total(pending)
      /\ Total(Unexpired) \in Nat /\ Total(pending) \in Nat
      /\ EntriesOf(Unexpired) \subseteq Entries
      /\ \A e \in EntriesOf(Unexpired) : e.at >= now - TTL
      /\ \A e \in Entries : e.at >= now - TTL => e \in EntriesOf(Unexpired)
  BY UnexpiredFacts DEF Queues
<1>2. count = Total(pending) /\ count <= MaxPending /\ MaxPending \in Nat
  BY PendingIsPositive DEF Queues
<1>3. CountUnexpired = Total(Unexpired)
  BY <1>1, <1>2 DEF CountUnexpired
<1>. QED
  BY <1>1, <1>2, <1>3

\* addPending after expire: the request is the newest entry, and what it drops, if
\* the adapter is full, was the oldest.
LEMMA RequestQueues ==
    ASSUME Queues, Decoding, Request, Current \in Record
    PROVE  /\ Queues'
           /\ \E e \in Waiting :
                 /\ e.order = nextOrder + 1 /\ e \in EntriesOf(pending')
                 /\ EntriesOf(pending') \subseteq EntriesOf(Unexpired) \cup {e}
           /\ \A e \in EntriesOf(Unexpired) :
                 \/ e \in EntriesOf(pending')
                 \/ /\ Total(Unexpired) >= MaxPending
                    /\ \A f \in EntriesOf(Unexpired) : e.order <= f.order
<1>. DEFINE full == IsFull(CountUnexpired)
            kept == IF full THEN DropOldest(Unexpired) ELSE Unexpired
            e == [time |-> Current.time, at |-> now, order |-> nextOrder + 1]
<1>1. /\ Orderly(Unexpired, nextOrder, now)
      /\ CountUnexpired = Total(Unexpired) /\ CountUnexpired \in Nat
      /\ CountUnexpired <= MaxPending
  BY ExpiredQueues
<1>2. nextOrder \in Nat /\ now \in Nat /\ MaxPending \in Nat \ {0}
  BY PendingIsPositive DEF Queues
<1>3. /\ Orderly(kept, nextOrder, now)
      /\ EntriesOf(kept) \subseteq EntriesOf(Unexpired)
      /\ Total(kept) + 1 = IF full THEN CountUnexpired ELSE CountUnexpired + 1
      /\ Total(kept) + 1 <= MaxPending /\ Total(kept) \in Nat
      /\ \A f \in EntriesOf(Unexpired) \ EntriesOf(kept) :
            /\ Total(Unexpired) >= MaxPending
            /\ \A g \in EntriesOf(Unexpired) : f.order <= g.order
  <2>1. CASE full
    <3>1. Total(Unexpired) # 0
      BY <1>1, <1>2, <2>1 DEF IsFull
    <3>2. PICK k \in Keys :
             /\ 1 \in DOMAIN Unexpired[k] /\ IsWithout(kept, Unexpired, k, 1)
             /\ \A f \in EntriesOf(Unexpired) : Unexpired[k][1].order <= f.order
      <4>1. kept = DropOldest(Unexpired)
        BY <2>1
      <4>. HIDE DEF kept
      <4>. QED
        BY <1>1, <3>1, <4>1, DropOldestFacts
    <3>. HIDE DEF kept
    <3>3. /\ Orderly(kept, nextOrder, now)
          /\ Total(Unexpired) = Total(kept) + 1 /\ Total(kept) \in Nat
          /\ EntriesOf(kept) = EntriesOf(Unexpired) \ {Unexpired[k][1]}
      BY <1>1, <3>2, OneLeaves
    <3>4. Total(Unexpired) >= MaxPending
      BY <1>1, <2>1 DEF IsFull
    <3>. QED
      BY <1>1, <2>1, <3>2, <3>3, <3>4
  <2>2. CASE ~ full
    <3>1. kept = Unexpired
      BY <2>2
    <3>. HIDE DEF kept
    <3>. QED
      BY <1>1, <1>2, <2>2, <3>1 DEF IsFull
  <2>. QED
    BY <2>1, <2>2
<1>4. /\ e \in Waiting /\ e.at = now /\ e.order = nextOrder + 1
      /\ Current.key \in Keys
  BY <1>2 DEF Waiting, Record
<1>5. /\ pending' = [kept EXCEPT ![Current.key] = Append(@, e)]
      /\ count' = IF full THEN CountUnexpired ELSE CountUnexpired + 1
      /\ nextOrder' = nextOrder + 1 /\ now' = now
  BY DEF Request
<1>. HIDE DEF kept, e, full
<1>6. /\ Orderly(pending', nextOrder + 1, now)
      /\ Total(pending') = Total(kept) + 1
      /\ EntriesOf(pending') = EntriesOf(kept) \cup {e}
  <2>1. IsFollowed(pending', kept, Current.key, e)
    BY <1>5 DEF IsFollowed
  <2>. QED
    BY <1>2, <1>3, <1>4, <2>1, AppendFacts
<1>7. Queues'
  BY <1>2, <1>3, <1>5, <1>6 DEF Queues
<1>. QED
  BY <1>3, <1>4, <1>6, <1>7

\* popPending after expire: what it takes is the first request of the key that is
\* not after the response, and is not waiting any more.
LEMMA ResponseQueues ==
    ASSUME Queues, Decoding, Response, Current \in Record
    PROVE  /\ Queues'
           /\ \/ /\ pending' = Unexpired
                 /\ Proceed(<<Span(NULL, Current)>>)
              \/ \E e \in EntriesOf(Unexpired) :
                    /\ EntriesOf(pending') = EntriesOf(Unexpired) \ {e}
                    /\ e.time <= Current.time
                    /\ Proceed(<<Span(e, Current)>>)
<1>. DEFINE k == Current.key
            queue == Unexpired[k]
            found == Matches(queue, Current)
            i == Min(found)
<1>1. /\ Orderly(Unexpired, nextOrder, now)
      /\ CountUnexpired = Total(Unexpired) /\ CountUnexpired \in Nat
      /\ CountUnexpired <= MaxPending
  BY ExpiredQueues
<1>2. Unexpired \in [Keys -> Seq(Waiting)] /\ k \in Keys
  BY <1>1 DEF Orderly, Record
<1>3. now' = now /\ nextOrder' = nextOrder /\ now \in Nat /\ nextOrder \in Nat
      /\ MaxPending \in Nat
  BY PendingIsPositive DEF Response, Queues
<1>4. CASE found = {}
  <2>1. pending' = Unexpired /\ count' = CountUnexpired /\ Proceed(<<Span(NULL, Current)>>)
    BY <1>4 DEF Response
  <2>2. Queues'
    BY <1>1, <1>3, <2>1 DEF Queues
  <2>. QED
    BY <2>1, <2>2
<1>5. CASE found # {}
  <2>1. /\ pending' = [Unexpired EXCEPT ![k] = Taken(Unexpired[k], i)]
        /\ count' = CountUnexpired - 1
        /\ Proceed(<<Span(Unexpired[k][i], Current)>>)
    BY <1>5 DEF Response
  <2>2. i \in found
    <3>1. found \subseteq DOMAIN queue /\ DOMAIN queue \subseteq Nat
      BY <1>2, QueueFacts DEF Matches
    <3>. HIDE DEF found
    <3>2. found \in SUBSET Nat
      BY <3>1
    <3>. QED
      BY <1>5, <3>2, LeastNatural, Zenon
  <2>3. i \in DOMAIN Unexpired[k] /\ Unexpired[k][i].time <= Current.time
    BY <2>2 DEF Matches
  <2>. HIDE DEF i, found, queue, k
  <2>4. IsWithout(pending', Unexpired, k, i)
    BY <1>2, <2>1, <2>3, TakenIsWithout
  <2>5. /\ Orderly(pending', nextOrder, now)
        /\ Total(Unexpired) = Total(pending') + 1
        /\ Total(Unexpired) \in Nat /\ Total(pending') \in Nat
        /\ EntriesOf(pending') = EntriesOf(Unexpired) \ {Unexpired[k][i]}
    BY <1>1, <1>2, <2>3, <2>4, OneLeaves
  <2>6. Queues'
    BY <1>1, <1>3, <2>1, <2>5 DEF Queues
  <2>7. Unexpired[k][i] \in EntriesOf(Unexpired)
    BY <1>2, <2>3 DEF EntriesOf
  <2>. QED
    BY <2>1, <2>3, <2>5, <2>6, <2>7
<1>. QED
  BY <1>4, <1>5

------------------------------------------------------------------------------
(* The spans *)

\* The entries that wait, and that no two have one order.
LEMMA EntryFacts ==
    ASSUME Queues
    PROVE  /\ \A e \in Entries : /\ e \in Waiting /\ e.time \in Nat
                                 /\ e.at \in 0 .. now /\ e.order \in 1 .. nextOrder
           /\ \A e, f \in Entries : e.order = f.order => e = f
<1>1. pending \in [Keys -> Seq(Waiting)]
  BY DEF Queues, Orderly
<1>2. ASSUME NEW e \in Entries
      PROVE  /\ e \in Waiting /\ e.time \in Nat
             /\ e.at \in 0 .. now /\ e.order \in 1 .. nextOrder
  <2>1. PICK k, i : k \in Keys /\ i \in DOMAIN pending[k] /\ e = pending[k][i]
    BY DEF Entries, EntriesOf
  <2>2. e \in Waiting /\ e.time \in Nat /\ e.at \in Nat
    BY <1>1, <2>1, QueueFacts, Zenon
  <2>3. e.at <= now /\ e.order \in 1 .. nextOrder /\ now \in Nat
    BY <2>1 DEF Queues, Orderly
  <2>. QED
    BY <2>2, <2>3
<1>3. ASSUME NEW e \in Entries, NEW f \in Entries, e.order = f.order PROVE e = f
  <2>1. PICK k, i : k \in Keys /\ i \in DOMAIN pending[k] /\ e = pending[k][i]
    BY DEF Entries, EntriesOf
  <2>2. PICK l, j : l \in Keys /\ j \in DOMAIN pending[l] /\ f = pending[l][j]
    BY DEF Entries, EntriesOf
  <2>3. k = l /\ i = j
    BY <1>3, <2>1, <2>2 DEF Queues, Orderly
  <2>. QED
    BY <2>1, <2>2, <2>3
<1>. QED
  BY <1>2, <1>3

\* The span of a request and a response that is not before it starts with the
\* request.
LEMMA SpanFacts ==
    ASSUME NEW e \in Waiting, NEW r \in Record, e.time <= r.time
    PROVE  /\ Span(e, r).request = e /\ Span(e, r).made = now
           /\ e # NULL /\ e.time # 0 => Span(e, r).start = e.time
<1>1. Span(e, r).request = e /\ Span(e, r).made = now
  BY DEF Span
<1>2. ASSUME e # NULL, e.time # 0 PROVE Span(e, r).start = e.time
  <2>1. e.time \in Nat /\ r.time \in Nat
    BY DEF Waiting, Record
  <2>2. r.time # 0
    BY <1>2, <2>1
  <2>3. Span(e, r).start = Min({e.time, r.time})
    BY <1>2, <2>2 DEF Span
  <2>. DEFINE S == {e.time, r.time}
  <2>4. Min(S) \in S /\ \A y \in S : Min(S) <= y
    <3>1. S \in SUBSET Nat /\ S # {}
      BY <2>1
    <3>. HIDE DEF S
    <3>. QED
      BY <3>1, LeastNatural, Zenon
  <2>5. PICK x : x = Min(S)
    OBVIOUS
  <2>6. x \in S /\ \A y \in S : x <= y
    BY <2>4, <2>5
  <2>7. x = e.time
    BY <2>1, <2>6
  <2>. QED
    BY <2>3, <2>5, <2>7
<1>. QED
  BY <1>1, <1>2

\* One span more, or none: if its request was waiting and is not any more, every
\* request is still in one place.
LEMMA PairsKept ==
    ASSUME Queues, Pairs, nextOrder' \in Nat, nextOrder <= nextOrder',
           \A e \in EntriesOf(pending') : e \in Entries \/ e.order = nextOrder + 1,
           NEW New, spans' = spans \cup New, \A s, u \in New : s = u,
           \A s \in New : s.request # NULL =>
              /\ s.request \in Entries
              /\ s.request.time # 0 => s.start = s.request.time
              /\ s.made <= s.request.at + TTL
              /\ \A e \in EntriesOf(pending') : e.order # s.request.order
    PROVE  Pairs'
<1>. SUFFICES ASSUME NEW s \in spans', s.request # NULL PROVE Paired(s)'
  BY DEF Pairs
<1>0. nextOrder \in Nat
  BY DEF Queues
<1>1. CASE s \in spans
  <2>1. /\ s.request \in Waiting /\ s.request.order \in 1 .. nextOrder
        /\ s.request.time # 0 => s.start = s.request.time
        /\ s.made <= s.request.at + TTL
        /\ \A e \in Entries : e.order # s.request.order
        /\ \A u \in spans : u.request # NULL /\ u.request.order = s.request.order => u = s
    BY <1>1 DEF Pairs, Paired
  <2>2. \A e \in EntriesOf(pending') : e.order # s.request.order
    BY <1>0, <2>1
  <2>3. \A u \in New : ~ (u.request # NULL /\ u.request.order = s.request.order)
    BY <2>1
  <2>4. s.request.order \in 1 .. nextOrder'
    BY <1>0, <2>1
  <2>. QED
    BY <2>1, <2>2, <2>3, <2>4 DEF Paired, Entries, EntriesOf
<1>2. CASE s \in New /\ s \notin spans
  <2>1. /\ s.request \in Entries
        /\ s.request.time # 0 => s.start = s.request.time
        /\ s.made <= s.request.at + TTL
        /\ \A e \in EntriesOf(pending') : e.order # s.request.order
    BY <1>2
  <2>2. s.request \in Waiting /\ s.request.order \in 1 .. nextOrder'
    BY <1>0, <2>1, EntryFacts
  <2>3. ASSUME NEW u \in spans', u.request # NULL, u.request.order = s.request.order
        PROVE  u = s
    <3>1. CASE u \in New
      BY <1>2, <3>1
    <3>2. CASE u \in spans
      BY <2>1, <2>3, <3>2 DEF Pairs, Paired
    <3>. QED
      BY <3>1, <3>2
  <2>. QED
    BY <2>1, <2>2, <2>3 DEF Paired, Entries, EntriesOf
<1>. QED
  BY <1>1, <1>2

\* Decode goes on to the next record, or gives the mutex back and the spans of the
\* batch to the pipeline.
LEMMA ProceedMade ==
    ASSUME Made, Decoding, NEW made, made \in Seq(spans'), Proceed(made), rows' = rows
    PROVE  Made'
<1>1. spans \subseteq spans' /\ <<>> \in Seq(spans')
  BY DEF Proceed
<1>2. /\ decoder.made \in Seq(spans') /\ rows' \subseteq spans'
      /\ writing \in Seq(Seq(spans'))
  <2>1. Seq(spans) \subseteq Seq(spans')
    BY <1>1, SeqMonotonic
  <2>2. writing \in Seq(Seq(spans')) /\ decoder.made \in Seq(spans')
    BY <2>1, SeqMonotonic DEF Made
  <2>. QED
    BY <1>1, <2>2 DEF Made
<1>3. decoder.made \o made \in Seq(spans')
  BY <1>2, ConcatProperties
<1>4. \A r, s \in rows' : r.id = s.id => r = s
  BY DEF Made
<1>5. Slots \in Nat /\ Len(writing) < Slots /\ Len(writing) \in Nat
  BY PendingIsPositive, <1>2, LenProperties DEF Decoding
<1>6. CASE decoder.next = Len(decoder.batch)
  <2>1. decoder' = Unlocked /\ writing' = Append(writing, decoder.made \o made)
    BY <1>6 DEF Proceed
  <2>2. decoder'.made \in Seq(spans')
    BY <1>1, <2>1 DEF Unlocked
  <2>3. writing' \in Seq(Seq(spans')) /\ Len(writing') <= Slots
    <3>1. PICK x \in Seq(spans') : x = decoder.made \o made
      BY <1>3
    <3>2. writing' = Append(writing, x)
      BY <2>1, <3>1
    <3>. QED
      BY <1>2, <1>5, <3>2
  <2>. QED
    BY <1>2, <1>4, <2>1, <2>2, <2>3 DEF Made, Unlocked
<1>7. CASE decoder.next # Len(decoder.batch)
  <2>1. decoder' = [batch |-> decoder.batch, next |-> decoder.next + 1,
                    made |-> decoder.made \o made] /\ writing' = writing
    BY <1>7 DEF Proceed, Decoding
  <2>2. decoder.next + 1 \in DOMAIN decoder.batch
    <3>1. PICK b \in Seq(Record) : b = decoder.batch
      BY BatchesAreRecords DEF Decoding
    <3>2. DOMAIN b = 1 .. Len(b) /\ Len(b) \in Nat
      BY <3>1, LenProperties
    <3>3. decoder.next \in 1 .. Len(b) /\ decoder.next # Len(b)
      BY <1>7, <3>1, <3>2 DEF Decoding
    <3>. QED
      BY <3>1, <3>2, <3>3
  <2>3. /\ decoder'.batch = decoder.batch /\ decoder'.next = decoder.next + 1
        /\ decoder'.made = decoder.made \o made
    BY <2>1
  <2>4. Decoding'
    BY <2>1, <2>2, <2>3 DEF Decoding
  <2>. QED
    BY <1>2, <1>3, <1>4, <1>5, <2>1, <2>3, <2>4 DEF Made
<1>. QED
  BY <1>6, <1>7

------------------------------------------------------------------------------
(* The invariant holds *)

\* A Decode that holds the mutex has a record at hand.
LEMMA CurrentRecord ==
    ASSUME Made, decoder # Unlocked
    PROVE  Decoding /\ Current \in Record
<1>1. Decoding
  BY DEF Made
<1>2. PICK b \in Seq(Record) : b = decoder.batch
  BY <1>1, BatchesAreRecords DEF Decoding
<1>3. decoder.next \in 1 .. Len(b)
  BY <1>1, <1>2, LenProperties DEF Decoding
<1>4. b[decoder.next] \in Record
  BY <1>3, ElementOfSeq
<1>. QED
  BY <1>1, <1>2, <1>4 DEF Current

\* What one pair, or none, adds to a set.
LEMMA OneSpan ==
    ASSUME NEW s
    PROVE  ToSet(<<s>>) = {s} /\ ToSet(<<>>) = {}
BY DEF ToSet

\* The invariant holds when nothing waits.
LEMMA InitIInv == Init => IInv
<1>. SUFFICES ASSUME Init PROVE IInv
  OBVIOUS
<1>1. \A k \in Keys : pending[k] = <<>> /\ DOMAIN pending[k] = {}
  BY DEF Init
<1>2. Places(pending) = {}
  BY <1>1 DEF Places
<1>3. IsFiniteSet(Places(pending)) /\ Total(pending) = 0
  BY <1>2, FS_EmptySet DEF Total
<1>4. pending \in [Keys -> Seq(Waiting)]
  BY DEF Init
<1>5. Queues
  BY <1>1, <1>3, <1>4, PendingIsPositive DEF Queues, Orderly, Init
<1>6. Made
  <2>1. decoder = Unlocked /\ decoder.made = <<>> /\ writing = <<>> /\ rows = {}
    BY DEF Init, Unlocked
  <2>2. writing \in Seq(Seq(spans)) /\ Len(writing) <= Slots /\ decoder.made \in Seq(spans)
    BY <2>1, PendingIsPositive
  <2>. QED
    BY <2>1, <2>2 DEF Made
<1>7. Pairs
  BY DEF Pairs, Init
<1>. QED
  BY <1>5, <1>6, <1>7 DEF IInv

\* Steps that leave the queues and the spans alone.
LEMMA QueuesUntouched ==
    ASSUME Queues, Pairs, now \in Nat, now' \in Nat, now <= now',
           UNCHANGED <<pending, count, nextOrder, spans>>
    PROVE  Queues' /\ Pairs'
<1>1. Orderly(pending, nextOrder, now')
  <2>1. \A k \in Keys : \A i \in DOMAIN pending[k] : pending[k][i].at <= now'
    <3>1. ASSUME NEW k \in Keys, NEW i \in DOMAIN pending[k]
          PROVE  pending[k][i].at <= now'
      <4>1. pending \in [Keys -> Seq(Waiting)] /\ pending[k][i].at <= now
        BY DEF Queues, Orderly
      <4>2. pending[k][i].at \in Nat
        BY <4>1, QueueFacts
      <4>. QED
        BY <4>1, <4>2
    <3>. QED
      BY <3>1
  <2>. QED
    BY <2>1 DEF Queues, Orderly
<1>2. Queues'
  BY <1>1 DEF Queues
<1>3. Pairs'
  BY DEF Pairs, Paired, Entries, EntriesOf
<1>. QED
  BY <1>2, <1>3

\* A request is put last in its queue, the oldest of all making room for it.
LEMMA RequestIInv == ASSUME IInv, Request PROVE IInv'
<1>1. Queues /\ Made /\ Pairs /\ decoder # Unlocked
  BY DEF IInv, Request
<1>2. Decoding /\ Current \in Record
  BY <1>1, CurrentRecord
<1>3. PICK e \in Waiting :
         /\ e.order = nextOrder + 1
         /\ EntriesOf(pending') \subseteq EntriesOf(Unexpired) \cup {e}
  BY <1>1, <1>2, RequestQueues
<1>4. Queues'
  BY <1>1, <1>2, RequestQueues
<1>5. spans' = spans \cup ToSet(<<>>) /\ Proceed(<<>>) /\ rows' = rows
      /\ nextOrder' = nextOrder + 1
  BY DEF Request, Proceed
<1>6. Made'
  BY <1>1, <1>2, <1>5, ProceedMade, EmptySeq
<1>7. Pairs'
  <2>1. \A f \in EntriesOf(pending') : f \in Entries \/ f.order = nextOrder + 1
    BY <1>1, <1>3, ExpiredQueues
  <2>2. nextOrder \in Nat /\ nextOrder' \in Nat /\ nextOrder <= nextOrder'
    BY <1>1, <1>5 DEF Queues
  <2>3. ToSet(<<>>) = {}
    BY OneSpan
  <2>. QED
    BY <1>1, <1>5, <2>1, <2>2, <2>3, PairsKept
<1>. QED
  BY <1>4, <1>6, <1>7 DEF IInv

\* A response takes the first of its queue that is not too old.
LEMMA ResponseIInv == ASSUME IInv, Response PROVE IInv'
<1>1. Queues /\ Made /\ Pairs /\ decoder # Unlocked
  BY DEF IInv, Response
<1>2. Decoding /\ Current \in Record
  BY <1>1, CurrentRecord
<1>3. /\ Queues' /\ rows' = rows /\ nextOrder' = nextOrder
      /\ nextOrder \in Nat
  BY <1>1, <1>2, ResponseQueues DEF Response, Queues
<1>4. CASE pending' = Unexpired /\ Proceed(<<Span(NULL, Current)>>)
  <2>. DEFINE s == Span(NULL, Current)
  <2>1. s.request = NULL
    BY DEF Span
  <2>. HIDE DEF s
  <2>2. Proceed(<<s>>) /\ spans' = spans \cup {s}
    BY <1>4, OneSpan DEF s, Proceed
  <2>3. Made'
    <3>1. <<s>> \in Seq(spans')
      BY <2>2
    <3>. QED
      BY <1>1, <1>2, <1>3, <2>2, <3>1, ProceedMade
  <2>4. Pairs'
    <3>1. \A f \in EntriesOf(pending') : f \in Entries
      BY <1>1, <1>4, ExpiredQueues
    <3>. DEFINE New == {s}
    <3>2. /\ spans' = spans \cup New /\ \A u, v \in New : u = v
          /\ \A u \in New : u.request = NULL
      BY <2>1, <2>2
    <3>. HIDE DEF New
    <3>3. nextOrder' \in Nat /\ nextOrder <= nextOrder'
      BY <1>3
    <3>. QED
      BY <1>1, <3>1, <3>2, <3>3, PairsKept
  <2>. QED
    BY <1>3, <2>3, <2>4 DEF IInv
<1>5. CASE \E e \in EntriesOf(Unexpired) :
              /\ EntriesOf(pending') = EntriesOf(Unexpired) \ {e}
              /\ e.time <= Current.time
              /\ Proceed(<<Span(e, Current)>>)
  <2>1. PICK e \in EntriesOf(Unexpired) :
           /\ EntriesOf(pending') = EntriesOf(Unexpired) \ {e}
           /\ e.time <= Current.time
           /\ Proceed(<<Span(e, Current)>>)
    BY <1>5
  <2>2. /\ e \in Entries /\ e.at >= now - TTL
        /\ EntriesOf(Unexpired) \subseteq Entries
    BY <1>1, ExpiredQueues
  <2>3. e \in Waiting /\ e.at \in 0 .. now /\ now \in Nat
    BY <1>1, <2>2, EntryFacts DEF Queues
  <2>. DEFINE s == Span(e, Current)
  <2>4. s.request = e /\ s.made = now /\ (e # NULL /\ e.time # 0 => s.start = e.time)
    BY <1>2, <2>1, <2>3, SpanFacts
  <2>. HIDE DEF s
  <2>5. Proceed(<<s>>) /\ spans' = spans \cup {s}
    BY <2>1, OneSpan DEF s, Proceed
  <2>6. Made'
    <3>1. <<s>> \in Seq(spans')
      BY <2>5
    <3>. QED
      BY <1>1, <1>2, <1>3, <2>5, <3>1, ProceedMade
  <2>7. Pairs'
    <3>1. \A f \in EntriesOf(pending') : f \in Entries /\ f.order # e.order
      BY <1>1, <2>1, <2>2, EntryFacts
    <3>2. s.made <= e.at + TTL
      BY <2>2, <2>3, <2>4, PendingIsPositive
    <3>. DEFINE New == {s}
    <3>3. /\ spans' = spans \cup New /\ \A u, v \in New : u = v
          /\ \A u \in New : u.request # NULL =>
                /\ u.request \in Entries
                /\ u.request.time # 0 => u.start = u.request.time
                /\ u.made <= u.request.at + TTL
                /\ \A f \in EntriesOf(pending') : f.order # u.request.order
      BY <2>2, <2>4, <2>5, <3>1, <3>2
    <3>. HIDE DEF New
    <3>4. nextOrder' \in Nat /\ nextOrder <= nextOrder'
      BY <1>3
    <3>. QED
      BY <1>1, <3>1, <3>3, <3>4, PairsKept
  <2>. QED
    BY <1>3, <2>6, <2>7 DEF IInv
<1>. QED
  BY <1>1, <1>2, <1>4, <1>5, ResponseQueues

\* A batch leaves the pipeline.
LEMMA AnsweredWriting ==
    ASSUME NEW S, NEW w \in Seq(S), NEW i \in DOMAIN w
    PROVE  RemoveAt(w, i) \in Seq(S) /\ Len(RemoveAt(w, i)) <= Len(w)
<1>1. Len(w) \in Nat /\ i \in 1 .. Len(w) /\ \A j \in 1 .. Len(w) : w[j] \in S
  BY LenProperties, ElementOfSeq
<1>. DEFINE front == SubSeq(w, 1, i - 1)
            back == SubSeq(w, i + 1, Len(w))
<1>2. front \in Seq(S) /\ Len(front) = i - 1
  <2>1. i - 1 \in Int /\ \A j \in 1 .. i - 1 : w[j] \in S
    BY <1>1
  <2>2. front \in Seq(S) /\ Len(front) = (IF 1 <= i - 1 THEN (i - 1) - 1 + 1 ELSE 0)
    BY <2>1, SubSeqProperties
  <2>. HIDE DEF front
  <2>. QED
    BY <1>1, <2>2
<1>3. back \in Seq(S) /\ Len(back) = Len(w) - i
  <2>1. i + 1 \in Int /\ Len(w) \in Int /\ \A j \in i + 1 .. Len(w) : w[j] \in S
    BY <1>1
  <2>2. /\ back \in Seq(S)
        /\ Len(back) = (IF i + 1 <= Len(w) THEN Len(w) - (i + 1) + 1 ELSE 0)
    BY <2>1, SubSeqProperties
  <2>. HIDE DEF back
  <2>. QED
    BY <1>1, <2>2
<1>4. RemoveAt(w, i) = front \o back
  BY DEF RemoveAt
<1>. HIDE DEF front, back
<1>5. front \o back \in Seq(S) /\ Len(front \o back) = Len(front) + Len(back)
  BY <1>2, <1>3, ConcatProperties
<1>. QED
  BY <1>1, <1>2, <1>3, <1>4, <1>5

\* The rows after a batch: those it has no span for, and of its spans with one id
\* the last.
LEMMA UpsertedFacts ==
    ASSUME \A r, s \in rows : r.id = s.id => r = s, NEW made \in Seq(spans)
    PROVE  /\ Upserted(made) \subseteq rows \cup spans
           /\ \A r, s \in Upserted(made) : r.id = s.id => r = s
<1>1. DOMAIN made = 1 .. Len(made) /\ Len(made) \in Nat
      /\ \A i \in DOMAIN made : made[i] \in spans
  BY LenProperties, ElementOfSeq
<1>. DEFINE Lasts == {j \in DOMAIN made : \A k \in j + 1 .. Len(made) : made[k].id # made[j].id}
            Kept == {r \in rows : \A i \in DOMAIN made : made[i].id # r.id}
<1>2. Upserted(made) = Kept \cup {made[i] : i \in Lasts}
  BY DEF Upserted
<1>3. ASSUME NEW i \in Lasts, NEW j \in Lasts, made[i].id = made[j].id PROVE i = j
  <2>1. i \in 1 .. Len(made) /\ j \in 1 .. Len(made)
    BY <1>1
  <2>2. ~ (j \in i + 1 .. Len(made)) /\ ~ (i \in j + 1 .. Len(made))
    BY <1>3
  <2>. QED
    BY <1>1, <2>1, <2>2
<1>. QED
  BY <1>1, <1>2, <1>3

\* A batch that is written, or fails, is written no more.
LEMMA CommitIInv ==
    ASSUME IInv, NEW i \in DOMAIN writing, Commit(i) \/ CommitFails(i)
    PROVE  IInv'
<1>1. Queues /\ Made /\ Pairs
  BY DEF IInv
<1>2. /\ UNCHANGED <<pending, count, nextOrder, decoder, now, spans>>
      /\ writing' = RemoveAt(writing, i)
      /\ rows' = rows \/ rows' = Upserted(writing[i])
  BY DEF Commit, CommitFails
<1>3. Queues' /\ Pairs'
  <2>1. now \in Nat /\ now' \in Nat /\ now <= now'
    BY <1>1, <1>2 DEF Queues
  <2>. QED
    BY <1>1, <1>2, <2>1, QueuesUntouched
<1>4. writing' \in Seq(Seq(spans)) /\ Len(writing') <= Len(writing)
      /\ Len(writing) \in Nat /\ Len(writing') \in Nat
  BY <1>1, <1>2, AnsweredWriting, LenProperties DEF Made
<1>5. writing[i] \in Seq(spans)
  <2>1. writing \in Seq(Seq(spans))
    BY <1>1 DEF Made
  <2>2. DOMAIN writing = 1 .. Len(writing)
    BY <2>1, LenProperties
  <2>. QED
    BY <2>1, <2>2, ElementOfSeq
<1>6. rows' \subseteq spans /\ \A r, s \in rows' : r.id = s.id => r = s
  <2>1. rows \subseteq spans /\ \A r, s \in rows : r.id = s.id => r = s
    BY <1>1 DEF Made
  <2>2. /\ Upserted(writing[i]) \subseteq rows \cup spans
        /\ \A r, s \in Upserted(writing[i]) : r.id = s.id => r = s
    BY <1>5, <2>1, UpsertedFacts
  <2>. QED
    BY <1>2, <2>1, <2>2
<1>7. Made'
  <2>1. Slots \in Nat /\ Len(writing) <= Slots
    BY <1>1, PendingIsPositive DEF Made
  <2>2. decoder' = Unlocked \/ Decoding'
    <3>1. CASE decoder = Unlocked
      BY <1>2, <3>1 DEF Unlocked
    <3>2. CASE Decoding
      BY <1>2, <1>4, <2>1, <3>2 DEF Decoding
    <3>. QED
      BY <1>1, <3>1, <3>2 DEF Made
  <2>. QED
    BY <1>1, <1>2, <1>4, <1>6, <2>1, <2>2 DEF Made, Unlocked
<1>. QED
  BY <1>3, <1>7 DEF IInv

\* The decoder hands over records without touching the queues.
LEMMA DecoderIInv ==
    ASSUME IInv, (\E batch \in Batches : Deliver(batch)) \/ BadRecord
    PROVE  IInv'
<1>1. Queues /\ Made /\ Pairs
  BY DEF IInv
<1>2. UNCHANGED <<pending, count, nextOrder, rows, now, spans, writing>>
  BY DEF Deliver, BadRecord
<1>3. Queues' /\ Pairs'
  <2>1. now \in Nat /\ now' \in Nat /\ now <= now'
    BY <1>1, <1>2 DEF Queues
  <2>. QED
    BY <1>1, <1>2, <2>1, QueuesUntouched
<1>4. decoder'.made \in Seq(spans)
  <2>1. decoder'.made = <<>>
    BY DEF Deliver, BadRecord, Unlocked
  <2>. QED
    BY <2>1, EmptySeq
<1>5. decoder' = Unlocked \/ Decoding'
  <2>1. CASE BadRecord
    BY <2>1 DEF BadRecord
  <2>2. ASSUME NEW batch \in Batches, Deliver(batch) PROVE Decoding'
    <3>1. decoder' = [batch |-> batch, next |-> 1, made |-> <<>>] /\ Len(writing) < Slots
      BY <2>2 DEF Deliver, Unlocked
    <3>2. batch \in Seq(Record) /\ batch # <<>>
      BY BatchesAreRecords
    <3>3. 1 \in DOMAIN batch
      BY <3>2, LenProperties, EmptySeq
    <3>. QED
      BY <1>2, <3>1, <3>3 DEF Decoding
  <2>. QED
    BY <2>1, <2>2
<1>6. Made'
  BY <1>1, <1>2, <1>4, <1>5 DEF Made, Unlocked
<1>. QED
  BY <1>3, <1>6 DEF IInv

\* Every step keeps the invariant.
LEMMA NextIInv == IInv /\ [Next]_vars => IInv'
<1>. SUFFICES ASSUME IInv, [Next]_vars PROVE IInv'
  OBVIOUS
<1>0. Queues /\ Made /\ Pairs /\ now \in Nat
  BY DEF IInv, Queues
<1>1. CASE (\E batch \in Batches : Deliver(batch)) \/ BadRecord
  BY <1>1, DecoderIInv
<1>2. CASE Request
  BY <1>2, RequestIInv
<1>3. CASE Response
  BY <1>3, ResponseIInv
<1>4. CASE \E i \in DOMAIN writing : Commit(i) \/ CommitFails(i)
  BY <1>4, CommitIInv
<1>5. CASE Tick \/ UNCHANGED vars
  <2>1. now' \in Nat /\ now <= now'
        /\ UNCHANGED <<pending, count, nextOrder, decoder, writing, rows, spans>>
    BY <1>0, <1>5 DEF Tick, vars
  <2>2. Queues' /\ Pairs'
    BY <1>0, <2>1, QueuesUntouched
  <2>3. Made'
    BY <1>0, <2>1 DEF Made, Decoding, Unlocked
  <2>. QED
    BY <2>2, <2>3 DEF IInv
<1>. QED
  BY <1>1, <1>2, <1>3, <1>4, <1>5 DEF Next

------------------------------------------------------------------------------
(* The theorems *)

\* What every state of the pairing has.
THEOREM AlwaysIInv == Spec => []IInv
BY InitIInv, NextIInv, PTL DEF Spec

\* Ordered queues hold as many entries as they have places.
LEMMA OneEntryPerPlace ==
    ASSUME NEW p, NEW n, NEW t, Orderly(p, n, t)
    PROVE  Cardinality(EntriesOf(p)) = Total(p)
<1>. DEFINE P == Places(p)
            T == EntriesOf(p)
            f == [x \in P |-> p[x[1]][x[2]]]
<1>1. IsFiniteSet(P)
  BY DEF Orderly
<1>2. ASSUME NEW x \in P
      PROVE  \E k, i : /\ k \in Keys /\ i \in DOMAIN p[k]
                       /\ x = <<k, i>> /\ f[x] = p[k][i]
  BY DEF Places
<1>3. ASSUME NEW x \in P PROVE f[x] \in T
  BY <1>2 DEF EntriesOf
<1>4. ASSUME NEW x \in P, NEW y \in P, f[x] = f[y] PROVE x = y
  <2>1. PICK k, i : /\ k \in Keys /\ i \in DOMAIN p[k]
                    /\ x = <<k, i>> /\ f[x] = p[k][i]
    BY <1>2, Zenon
  <2>2. PICK l, j : /\ l \in Keys /\ j \in DOMAIN p[l]
                    /\ y = <<l, j>> /\ f[y] = p[l][j]
    BY <1>2, Zenon
  <2>3. p[k][i].order = p[l][j].order
    BY <1>4, <2>1, <2>2, Zenon
  <2>4. k = l /\ i = j
    BY <2>1, <2>2, <2>3 DEF Orderly
  <2>. QED
    BY <2>1, <2>2, <2>4
<1>5. ASSUME NEW e \in T PROVE \E x \in P : f[x] = e
  <2>1. PICK k, i : k \in Keys /\ i \in DOMAIN p[k] /\ e = p[k][i]
    BY DEF EntriesOf
  <2>2. <<k, i>> \in P
    BY <2>1 DEF Places
  <2>3. f[<<k, i>>] = e
    BY <2>1, <2>2
  <2>. QED
    BY <2>2, <2>3
<1>6. f \in [P -> T]
  BY <1>3
<1>. HIDE DEF f, P, T
<1>7. f \in Bijection(P, T)
  BY <1>4, <1>5, <1>6 DEF Bijection, Injection, Surjection, IsInjective
<1>8. Cardinality(T) = Cardinality(P)
  BY <1>1, <1>7, FS_Bijection DEF ExistsBijection
<1>. QED
  BY <1>8 DEF Total, P, T

\* The numbers of the waiting requests are as many as their places.
LEMMA OneOrderPerPlace ==
    ASSUME Queues
    PROVE  Cardinality({e.order : e \in Entries}) = Total(pending)
<1>. DEFINE P == Places(pending)
            T == {e.order : e \in Entries}
            f == [x \in P |-> pending[x[1]][x[2]].order]
<1>1. pending \in [Keys -> Seq(Waiting)] /\ IsFiniteSet(P)
  BY DEF Queues, Orderly
<1>2. ASSUME NEW x \in P
      PROVE  \E k, i : /\ k \in Keys /\ i \in DOMAIN pending[k]
                       /\ x = <<k, i>> /\ f[x] = pending[k][i].order
  BY DEF Places
<1>3. ASSUME NEW x \in P PROVE f[x] \in T
  BY <1>2 DEF Entries, EntriesOf
<1>4. ASSUME NEW x \in P, NEW y \in P, f[x] = f[y] PROVE x = y
  <2>1. PICK k, i : /\ k \in Keys /\ i \in DOMAIN pending[k]
                    /\ x = <<k, i>> /\ f[x] = pending[k][i].order
    BY <1>2, Zenon
  <2>2. PICK l, j : /\ l \in Keys /\ j \in DOMAIN pending[l]
                    /\ y = <<l, j>> /\ f[y] = pending[l][j].order
    BY <1>2, Zenon
  <2>3. pending[k][i].order = pending[l][j].order
    BY <1>4, <2>1, <2>2, Zenon
  <2>4. k = l /\ i = j
    BY <2>1, <2>2, <2>3 DEF Queues, Orderly
  <2>. QED
    BY <2>1, <2>2, <2>4
<1>5. ASSUME NEW o \in T PROVE \E x \in P : f[x] = o
  <2>1. PICK e \in Entries : o = e.order
    OBVIOUS
  <2>2. PICK k, i : k \in Keys /\ i \in DOMAIN pending[k] /\ e = pending[k][i]
    BY DEF Entries, EntriesOf
  <2>3. <<k, i>> \in P
    BY <2>2 DEF Places
  <2>4. f[<<k, i>>] = o
    BY <2>1, <2>2, <2>3
  <2>. QED
    BY <2>3, <2>4
<1>6. f \in [P -> T]
  BY <1>3
<1>. HIDE DEF f, P, T
<1>7. f \in Bijection(P, T)
  BY <1>4, <1>5, <1>6 DEF Bijection, Injection, Surjection, IsInjective
<1>8. Cardinality(T) = Cardinality(P)
  BY <1>1, <1>7, FS_Bijection DEF ExistsBijection
<1>. QED
  BY <1>8 DEF Total, P, T

\* The queues, the count and the rows keep their shape, and the count is the
\* number of waiting requests.
THEOREM SpecTypeOK == Spec => []TypeOK
<1>1. IInv => TypeOK
  <2>. SUFFICES ASSUME IInv PROVE TypeOK
    OBVIOUS
  <2>1. Queues /\ Made
    BY DEF IInv
  <2>2. pending \in [Keys -> Seq(Waiting)] /\ count = Total(pending) /\ count <= MaxPending
    BY <2>1 DEF Queues, Orderly
  <2>3. \A e \in Entries : e.at \in 0 .. now /\ e.order \in 1 .. nextOrder
    BY <2>1, EntryFacts
  <2>4. Cardinality({e.order : e \in Entries}) = Total(pending)
    BY <2>1, OneOrderPerPlace
  <2>5. decoder.batch \in Batches \cup {<<>>} /\ Len(writing) <= Slots
    BY <2>1 DEF Made, Decoding, Unlocked
  <2>6. \A r \in rows : r \in spans /\ \A s \in rows : r.id = s.id => r = s
    BY <2>1 DEF Made
  <2>. QED
    BY <2>2, <2>3, <2>4, <2>5, <2>6 DEF TypeOK
<1>. QED
  BY <1>1, AlwaysIInv, PTL

\* However batches fail, are sent again and are committed, a request is part of one
\* span at most, which is in order and in time.
THEOREM SpecPairedOnceInOrder == Spec => []PairedOnceInOrder
<1>1. IInv => PairedOnceInOrder
  BY DEF IInv, Pairs, Paired, PairedOnceInOrder
<1>. QED
  BY <1>1, AlwaysIInv, PTL

\* A request that is young enough and not paired goes only from a full adapter, for
\* a newer request, and is the oldest of all.
THEOREM SpecOnlyOldestEvicted == Spec => OnlyOldestEvicted
<1>. DEFINE Young == {f \in Entries : f.at >= now - TTL}
<1>1. ASSUME IInv, [Next]_vars,
             NEW e \in Young, e \notin EntriesOf(pending'),
             \A s \in spans' : s.request # e
      PROVE  /\ Cardinality(Young) >= MaxPending
             /\ \E f \in EntriesOf(pending') : f.order > nextOrder
             /\ \A f \in Young : e.order <= f.order
  <2>1. Queues /\ Made
    BY <1>1 DEF IInv
  <2>2. Young = EntriesOf(Unexpired) /\ Orderly(Unexpired, nextOrder, now)
    BY <2>1, ExpiredQueues
  <2>3. pending' # pending /\ e \in EntriesOf(Unexpired)
    BY <1>1, <2>2 DEF Entries
  <2>. HIDE DEF Young
  <2>4. Request \/ Response
    BY <1>1, <2>3 DEF Next, vars, Deliver, BadRecord, Commit, CommitFails, Tick
  <2>5. Decoding /\ Current \in Record
    <3>1. decoder # Unlocked
      BY <2>4 DEF Request, Response
    <3>. QED
      BY <2>1, <3>1, CurrentRecord
  <2>6. CASE Request
    <3>1. Total(Unexpired) >= MaxPending /\ \A f \in Young : e.order <= f.order
      BY <1>1, <2>1, <2>2, <2>3, <2>5, <2>6, RequestQueues
    <3>2. \E f \in EntriesOf(pending') : f.order = nextOrder + 1
      BY <2>1, <2>5, <2>6, RequestQueues
    <3>3. \E f \in EntriesOf(pending') : f.order > nextOrder
      BY <2>1, <3>2 DEF Queues
    <3>4. Cardinality(Young) >= MaxPending
      BY <2>2, <3>1, OneEntryPerPlace
    <3>. QED
      BY <3>1, <3>3, <3>4
  <2>7. CASE Response
    <3>1. \E g \in EntriesOf(Unexpired) :
             /\ EntriesOf(pending') = EntriesOf(Unexpired) \ {g}
             /\ Current \in Record /\ Proceed(<<Span(g, Current)>>)
      BY <1>1, <2>1, <2>3, <2>5, <2>7, ResponseQueues
    <3>2. Span(e, Current) \in spans'
      BY <1>1, <2>3, <3>1, OneSpan DEF Proceed
    <3>3. Span(e, Current).request = e
      BY DEF Span
    <3>. QED
      BY <1>1, <3>2, <3>3
  <2>. QED
    BY <2>4, <2>6, <2>7
<1>2. IInv /\ [Next]_vars =>
         [\A e \in Entries :
            (/\ e \in Young
             /\ e \notin EntriesOf(pending')
             /\ \A s \in spans' : s.request # e)
            => /\ Cardinality(Young) >= MaxPending
               /\ \E f \in EntriesOf(pending') : f.order > nextOrder
               /\ \A f \in Young : e.order <= f.order]_vars
  <2>. HIDE DEF Young
  <2>. QED
    BY <1>1
<1>. QED
  BY <1>2, AlwaysIInv, PTL DEF Spec, OnlyOldestEvicted

==============================================================================
