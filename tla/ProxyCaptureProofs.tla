-------------------------- MODULE ProxyCaptureProofs --------------------------
(***************************************************************************)
(* For any exchanges, keys, capacities and retention: what the captures    *)
(* leave in the tables, whatever was evicted, purged, abandoned or lost in *)
(* a crash.  The invariant says how the four copies of a tool call (the    *)
(* row, the cache, the origins of the capture under way, and the span of   *)
(* its result) may differ at every step of a capture.                      *)
(***************************************************************************)
EXTENDS ProxyCapture, TLAPS

------------------------------------------------------------------------------
(* The invariant *)

\* The records have their fields.
Shape ==
    /\ now \in 0 .. MaxTime
    /\ stage \in [Exchanges -> Stages]
    /\ job = [phase |-> job.phase, holder |-> job.holder, turn |-> job.turn,
              created |-> job.created, results |-> job.results, calls |-> job.calls,
              origins |-> job.origins, spans |-> job.spans]
    /\ cache = [origin |-> cache.origin, order |-> cache.order, next |-> cache.next]
    /\ db = [spans |-> db.spans, calls |-> db.calls, turns |-> db.turns]
    /\ sweep = [phase |-> sweep.phase, cutoff |-> sweep.cutoff]

\* The ring of the cache.
Ring == cache.order \in Seq(Keys) /\ RingMatchesCache

\* What the holder of toolMu has still to do.
Job ==
    /\ job.phase \in {"free", "turn", "tools", "cache"}
    /\ job.phase = "free" => job = NoJob
    /\ job.phase # "free" =>
          job.holder \in Exchanges /\ stage[job.holder] \in {"queued", "dropped"}
    /\ job.phase = "turn" => job.origins = NoRows
    /\ job.phase \in {"tools", "cache"} =>
          job.turn \in Turns \cup {NULL} /\ job.created \in 1 .. now
    /\ job.phase = "tools" =>
          /\ ToSet(job.results) \subseteq ToSet(job.holder.results)
          /\ job.calls \subseteq job.holder.calls
    /\ job.phase # "tools" => job.results = <<>> /\ job.calls = {} /\ job.spans = {}
    /\ job.results \in Seq(Keys) /\ IsInjective(job.results)
    /\ \A e \in Exchanges : stage[e] \in {"queued", "dropped"} => e.end <= now

\* Cutoffs were in the past when their sweep began.
Sweeping ==
    /\ sweep.phase \in {"idle", "calls", "turns", "traces"}
    /\ sweep.cutoff \in 0 .. MaxTime
    /\ sweep.phase # "idle" => sweep.cutoff + Retention <= now

\* e may have committed.
Began(e) ==
    \/ stage[e] \in {"finishing", "done", "skipped"}
    \/ job.phase = "cache" /\ job.holder = e

\* What names a model call comes from an exchange that may have committed, and
\* the span of that call is stored unless the exchange was dropped or is old.
Anchored(trace, parent) ==
    \A e \in Exchanges : parent = ModelId(e) =>
        /\ Began(e)
        /\ (Retained(e) /\ stage[e] \notin {"dropped", "skipped"}) =>
              \E p \in db.spans : p.id = parent /\ p.trace = trace /\ p.end = e.end

\* Issuer and result of a call are those of exchanges (as the register has it).
Issued(k, o) ==
    /\ \E e \in Exchanges : k \in e.calls /\ o.span = ModelId(e) /\ o.end = e.end
    /\ o.hasResult => \E e \in Exchanges : k \in ToSet(e.results) /\ o.first = e.start

Settled(f) ==
    /\ IsOrigins(f)
    /\ \A k \in DOMAIN f : Issued(k, f[k]) /\ Anchored(f[k].trace, f[k].span)

\* Rows and cached calls have all been committed.
Calls == Settled(db.calls) /\ Settled(cache.origin)

\* A call that the holder of toolMu has registered and not committed.
Own(k) ==
    /\ job.phase = "tools" /\ job.results = <<>>
    /\ k \notin DOMAIN db.calls \cup DOMAIN cache.origin
    /\ job.origins[k].span = ModelId(job.holder)
    /\ job.origins[k].trace = ChatTrace(job.holder, job.turn)
    /\ ~ job.origins[k].hasResult

\* o, or o with its first result, from the holder of toolMu.
Successor(k, o, p) ==
    \/ p = o
    \/ ~ o.hasResult /\ p = Observed(o, job.holder) /\ k \in ToSet(job.holder.results)

\* The origins of a capture: its own, or the known ones with at most its results.
Origins ==
    /\ IsOrigins(job.origins)
    /\ \A k \in DOMAIN job.origins :
          /\ Issued(k, job.origins[k])
          /\ (Own(k) \/ Anchored(job.origins[k].trace, job.origins[k].span))
          /\ job.phase = "tools" =>
                /\ k \in DOMAIN cache.origin => Successor(k, cache.origin[k], job.origins[k])
                /\ k \in DOMAIN db.calls => Successor(k, db.calls[k], job.origins[k])

\* o is the row of k, or the row has been purged.
SameAsRow(k, o) ==
    IF k \in DOMAIN db.calls THEN o = db.calls[k] ELSE o.created < now - Retention

\* Cache and rows differ only in what is purged or yet to be published.
Agreement ==
    /\ \A k \in DOMAIN cache.origin : k \in DOMAIN Publishing \/ SameAsRow(k, cache.origin[k])
    /\ \A k \in DOMAIN Publishing : SameAsRow(k, job.origins[k])

IsTool(s) ==
    \E k \in Keys : /\ s.id = ToolId(k)
                    /\ (s.parent = NULL \/ \E e \in Exchanges : s.parent = ModelId(e))

IsModel(s) ==
    \E e \in Exchanges : /\ s.id = ModelId(e) /\ s.end = e.end
                         /\ (s.parent = NULL \/ \E t \in Turns : s.parent = RootId(t))

IsRoot(s) == \E t \in Turns : s.id = RootId(t) /\ s.trace = TurnTrace(t) /\ s.parent = NULL

IsSpan(s) == s.start \in Nat /\ s.end \in Nat /\ s.error \in BOOLEAN

\* The spans that are stored, and those that the capture is about to store.
Spans ==
    /\ \A s \in db.spans : /\ IsSpan(s) /\ Anchored(s.trace, s.parent)
                           /\ (IsRoot(s) \/ ((IsTool(s) \/ IsModel(s)) /\ s.output = NULL))
    /\ \A r, s \in db.spans : SameRow(r, s) => r = s
    /\ \A s \in job.spans : /\ IsSpan(s) /\ Anchored(s.trace, s.parent)
                            /\ IsTool(s) /\ s.output = NULL
                            /\ \A k \in ToSet(job.results) : s.id # ToolId(k)
    /\ \A r, s \in job.spans : r.id = s.id => r = s
    /\ \A s \in job.spans, k \in DOMAIN db.calls \cup DOMAIN cache.origin :
          s.id = ToolId(k) => s.parent # NULL

\* If s is the span of the result of k under the issuer that o names, then o has
\* that result.
Shows(s, k, o) ==
    s.id = ToolId(k) /\ s.trace = o.trace /\ s.parent = o.span =>
        /\ o.hasResult
        /\ s.end = o.first
        /\ s.start = Min({o.end, o.first})

\* Spans agree with the rows, the cache, and what a lookup finds.
Results ==
    /\ \A s \in db.spans : \A k \in DOMAIN db.calls : Shows(s, k, db.calls[k])
    /\ \A s \in db.spans : \A k \in DOMAIN cache.origin :
          k \in DOMAIN Publishing \/ Shows(s, k, cache.origin[k])
    /\ \A s \in db.spans \cup job.spans : \A k \in Keys : Found(k) => Shows(s, k, Lookup(k))

\* The root that the row of turn t keeps.
IsRootOf(t, root) ==
    /\ root = SpanOf(TurnTrace(t), RootId(t), NULL, root.start, root.end, root.error, root.output)
    /\ IsSpan(root)
    /\ \E e \in Exchanges : root.output = ModelId(e) /\ root.end = e.end

\* The root of a turn whose row was never purged is the one of the row.
Roots ==
    /\ DOMAIN db.turns \subseteq Turns
    /\ \A t \in DOMAIN db.turns :
          db.turns[t].created \in 1 .. now /\ IsRootOf(t, db.turns[t].root)
    /\ \A t \in Turns \ expired : \A s \in db.spans :
          /\ s.id = RootId(t) => t \in DOMAIN db.turns /\ s = db.turns[t].root
          /\ s.parent = RootId(t) => t \in DOMAIN db.turns /\ Covers(db.turns[t].root, s)

IInv ==
    /\ Shape /\ Ring /\ Job /\ Sweeping
    /\ Calls /\ Origins /\ Agreement
    /\ Spans /\ Results /\ Roots

------------------------------------------------------------------------------
(* Operators *)

\* Identifiers that are computed from different things differ.
LEMMA Identifiers ==
    /\ \A e, f \in Exchanges : ModelId(e) = ModelId(f) => e = f
    /\ \A k, j : ToolId(k) = ToolId(j) => k = j
    /\ \A t, u : RootId(t) = RootId(u) => t = u
    /\ \A e, k : ModelId(e) # ToolId(k)
    /\ \A e, t : ModelId(e) # RootId(t)
    /\ \A k, t : ToolId(k) # RootId(t)
    /\ \A e \in Exchanges : ModelId(e) # NULL
    /\ \A t \in Turns : RootId(t) # NULL
<1>1. \A e, f \in Exchanges : ModelId(e) = ModelId(f) => e = f
  BY ExchangesAreExchanges DEF ModelId
<1>. QED
  BY <1>1, NullIsNoSpan DEF ModelId, ToolId, RootId

\* The fields of an exchange.
LEMMA ExchangeFields ==
    ASSUME NEW e \in Exchanges
    PROVE  /\ e.calls \subseteq Keys
           /\ e.results \in Seq(Keys) /\ IsInjective(e.results)
           /\ e.start \in Nat /\ e.end \in Nat /\ 0 < e.start /\ e.start <= e.end
           /\ e.failed \in BOOLEAN
BY ExchangesAreExchanges DEF IsExchange

\* The smaller and the greater of two numbers.
LEMMA MinMaxOfTwo ==
    ASSUME NEW a \in Int, NEW b \in Int
    PROVE  /\ Min({a, b}) \in {a, b} /\ Min({a, b}) <= a /\ Min({a, b}) <= b
           /\ Max({a, b}) \in {a, b} /\ Max({a, b}) >= a /\ Max({a, b}) >= b
<1>1. \E x \in {a, b} : \A y \in {a, b} : x =< y
  OBVIOUS
<1>2. \E x \in {a, b} : \A y \in {a, b} : x >= y
  OBVIOUS
<1>3. Min({a, b}) \in {a, b} /\ \A y \in {a, b} : Min({a, b}) =< y
  BY <1>1, Zenon DEF Min
<1>4. Max({a, b}) \in {a, b} /\ \A y \in {a, b} : Max({a, b}) >= y
  BY <1>2, Zenon DEF Max
<1>. QED
  BY <1>3, <1>4

\* Results that are taken from the front never come back.
LEMMA TailOfInjective ==
    ASSUME NEW S, NEW s \in Seq(S), s # <<>>, IsInjective(s)
    PROVE  /\ Head(s) \in S /\ Head(s) \in ToSet(s)
           /\ Tail(s) \in Seq(S) /\ IsInjective(Tail(s))
           /\ ToSet(Tail(s)) \subseteq ToSet(s) /\ Head(s) \notin ToSet(Tail(s))
<1>1. /\ Head(s) = s[1] /\ 1 \in DOMAIN s /\ Tail(s) \in Seq(S)
      /\ \A i \in DOMAIN Tail(s) :
            i \in Nat /\ i + 1 \in DOMAIN s /\ i + 1 # 1 /\ Tail(s)[i] = s[i + 1]
  OBVIOUS
<1>2. Head(s) \in S /\ Head(s) \in ToSet(s)
  BY <1>1 DEF ToSet
<1>3. IsInjective(Tail(s))
  <2>. SUFFICES ASSUME NEW i \in DOMAIN Tail(s), NEW j \in DOMAIN Tail(s), Tail(s)[i] = Tail(s)[j]
                PROVE  i = j
    BY DEF IsInjective
  <2>1. i + 1 = j + 1
    BY <1>1 DEF IsInjective
  <2>. QED
    BY <1>1, <2>1
<1>4. ToSet(Tail(s)) \subseteq ToSet(s)
  BY <1>1 DEF ToSet
<1>5. Head(s) \notin ToSet(Tail(s))
  <2>. SUFFICES ASSUME NEW i \in DOMAIN Tail(s), Tail(s)[i] = s[1] PROVE FALSE
    BY <1>1 DEF ToSet
  <2>. QED
    BY <1>1 DEF IsInjective
<1>. QED
  BY <1>1, <1>2, <1>3, <1>4, <1>5

\* A table without rows.
LEMMA NoRowsIsEmpty == DOMAIN NoRows = {}
BY DEF NoRows

\* The first result is recorded once, in an origin that stays what it is otherwise.
LEMMA ObservedOrigin ==
    ASSUME NEW o \in Origin, NEW e \in Exchanges
    PROVE  /\ Observed(o, e) \in Origin /\ Observed(o, e).hasResult
           /\ Observed(o, e).trace = o.trace /\ Observed(o, e).span = o.span
           /\ Observed(o, e).end = o.end /\ Observed(o, e).created = o.created
           /\ o.hasResult => Observed(o, e) = o
           /\ ~ o.hasResult => Observed(o, e).first = e.start
<1>1. e.start \in Nat
  BY ExchangeFields
<1>. QED
  BY <1>1 DEF Observed, Origin

\* The upsert of an origin that continues a row gives the origin.
LEMMA MergeSuccessor ==
    ASSUME NEW k, NEW o \in Origin, NEW p, job.holder \in Exchanges, Successor(k, o, p)
    PROVE  MergeCall(o, p) = p
<1>1. CASE p = o
  BY <1>1 DEF MergeCall, Origin
<1>2. CASE ~ o.hasResult /\ p = Observed(o, job.holder)
  BY <1>2 DEF MergeCall, Observed, Origin
<1>. QED
  BY <1>1, <1>2 DEF Successor

------------------------------------------------------------------------------
(* What steps keep *)

\* The invariant holds when nothing has been captured.
LEMMA InitIInv == ASSUME NEW arriving, InitWith(arriving) PROVE IInv
<1>. USE NoRowsIsEmpty DEF InitWith
<1>1. Shape
  BY TimesAreNatural DEF Shape, Stages, NoJob, NoCache, NoSweep
<1>2. Ring
  BY CacheHoldsOne DEF Ring, RingMatchesCache, NoCache, IsInjective, ToSet
<1>3. Job
  BY DEF Job, NoJob, IsInjective
<1>4. Sweeping
  BY TimesAreNatural DEF Sweeping, NoSweep
<1>5. Calls /\ Origins /\ Agreement
  BY DEF Calls, Settled, IsOrigins, Origins, Agreement, Publishing, NoJob, NoCache
<1>6. Spans /\ Roots
  BY DEF Spans, Roots, NoJob
<1>7. Results
  BY DEF Results, NoJob, NoCache, Found
<1>. QED
  BY <1>1, <1>2, <1>3, <1>4, <1>5, <1>6, <1>7 DEF IInv

\* A step that takes no parent from a call.
KeepsAnchors ==
    /\ now' \in Nat /\ now <= now'
    /\ \A e \in Exchanges : Began(e) => Began(e)'
    /\ \A e \in Exchanges :
          stage'[e] \notin {"dropped", "skipped"} => stage[e] \notin {"dropped", "skipped"}
    /\ \A e \in Exchanges, p \in db.spans :
          p.id = ModelId(e) /\ p.end = e.end /\ Retained(e)' =>
              \E q \in db'.spans : q.id = p.id /\ q.trace = p.trace /\ q.end = p.end

\* A parent that is kept goes on anchoring its children.
LEMMA AnchoredStays ==
    ASSUME Shape, KeepsAnchors, NEW trace, NEW parent, Anchored(trace, parent)
    PROVE  Anchored(trace, parent)'
<1>1. SUFFICES ASSUME NEW e \in Exchanges, parent = ModelId(e)
               PROVE  /\ Began(e)'
                      /\ (Retained(e)' /\ stage'[e] \notin {"dropped", "skipped"}) =>
                            \E q \in db'.spans : q.id = parent /\ q.trace = trace /\ q.end = e.end
  BY DEF Anchored
<1>2. Retained(e)' => Retained(e)
  BY TimesAreNatural, ExchangeFields DEF Retained, KeepsAnchors, Shape
<1>. QED
  BY <1>1, <1>2 DEF Anchored, KeepsAnchors

\* Rows that are left as they are, or go.
LEMMA SettledStays ==
    ASSUME Shape, KeepsAnchors, NEW f, NEW g, Settled(f),
           \A k \in DOMAIN g : k \in DOMAIN f /\ g[k] = f[k]
    PROVE  Settled(g)'
<1>1. ASSUME NEW o, o \in Origin, o.created \in 1 .. now PROVE o.created \in 1 .. now'
  BY <1>1, TimesAreNatural DEF KeepsAnchors, Shape
<1>2. IsOrigins(g)'
  BY <1>1 DEF Settled, IsOrigins
<1>3. ASSUME NEW k \in DOMAIN g PROVE Issued(k, g[k]) /\ Anchored(g[k].trace, g[k].span)'
  <2>1. Issued(k, f[k]) /\ Anchored(f[k].trace, f[k].span) /\ g[k] = f[k]
    BY DEF Settled
  <2>. QED
    BY <2>1, AnchoredStays
<1>. QED
  BY <1>2, <1>3 DEF Settled, Issued

\* Calls that are only dropped, never changed, stay as the invariant has them.
LEMMA CallsStay ==
    ASSUME IInv, KeepsAnchors,
           \A k \in DOMAIN db'.calls : k \in DOMAIN db.calls /\ db'.calls[k] = db.calls[k],
           \A k \in DOMAIN cache'.origin :
               k \in DOMAIN cache.origin /\ cache'.origin[k] = cache.origin[k]
    PROVE  Calls'
<1>1. Shape /\ Settled(db.calls) /\ Settled(cache.origin)
  BY DEF IInv, Calls
<1>2. Settled(db.calls)'
  BY <1>1, SettledStays
<1>3. Settled(cache.origin)'
  BY <1>1, SettledStays
<1>. QED
  BY <1>2, <1>3 DEF Calls

\* Agreement is a matter of age for what has been purged.
LEMMA SameAsRowStays ==
    ASSUME Shape, now' \in Nat, now <= now', NEW k, NEW o \in Origin, SameAsRow(k, o),
           k \in DOMAIN db'.calls => k \in DOMAIN db.calls /\ db'.calls[k] = db.calls[k],
           k \in DOMAIN db.calls /\ k \notin DOMAIN db'.calls =>
               db.calls[k].created < now' - Retention
    PROVE  SameAsRow(k, o)'
BY TimesAreNatural DEF Shape, SameAsRow, Origin

\* The roots are those of the turns still.
LEMMA RootsStay ==
    ASSUME IInv, now' \in Nat, now <= now', db'.spans \subseteq db.spans, db'.turns = db.turns,
           expired' = expired
    PROVE  Roots'
<1>1. \A t \in DOMAIN db.turns : db.turns[t].created \in 1 .. now'
  BY TimesAreNatural DEF IInv, Roots, Shape
<1>. QED
  BY <1>1 DEF IInv, Roots, IsRootOf, IsSpan, Covers

\* Spans that stay, or go, with those that the capture has made.
LEMMA SpansStay ==
    ASSUME IInv, KeepsAnchors, db'.spans \subseteq db.spans, job'.spans \subseteq job.spans,
           job'.spans # {} => job'.results = job.results,
           DOMAIN db'.calls \subseteq DOMAIN db.calls,
           job'.spans # {} => cache' = cache
    PROVE  Spans'
<1>1. \A s \in db.spans \cup job.spans : Anchored(s.trace, s.parent)'
  BY AnchoredStays DEF IInv, Spans
<1>2. \A s \in db'.spans : /\ IsSpan(s) /\ Anchored(s.trace, s.parent)'
                           /\ (IsRoot(s) \/ ((IsTool(s) \/ IsModel(s)) /\ s.output = NULL))
  BY <1>1 DEF IInv, Spans
<1>3. \A r, s \in db'.spans : SameRow(r, s) => r = s
  BY DEF IInv, Spans
<1>4. \A s \in job'.spans : /\ IsSpan(s) /\ Anchored(s.trace, s.parent)'
                            /\ IsTool(s) /\ s.output = NULL
                            /\ \A k \in ToSet(job'.results) : s.id # ToolId(k)
  BY <1>1 DEF IInv, Spans
<1>5. \A r, s \in job'.spans : r.id = s.id => r = s
  BY DEF IInv, Spans
<1>6. \A s \in job'.spans, k \in DOMAIN db'.calls \cup DOMAIN cache'.origin :
          s.id = ToolId(k) => s.parent # NULL
  BY DEF IInv, Spans
<1>. QED
  BY <1>2, <1>3, <1>4, <1>5, <1>6 DEF Spans, IsSpan, IsRoot, IsTool, IsModel, SameRow

\* A job that has read nothing yet, or is over: what is published is what the cache
\* has, and the rest is forgotten with the job.
LEMMA NothingRead ==
    ASSUME IInv, KeepsAnchors, db' = db, expired' = expired,
           job'.origins = NoRows, job'.spans = {},
           \/ cache' = cache /\ DOMAIN Publishing = {}
           \/ cache'.origin = NoRows
    PROVE  Calls' /\ Origins' /\ Agreement' /\ Spans' /\ Results' /\ Roots'
<1>. USE NoRowsIsEmpty
<1>1. Calls'
  BY CallsStay
<1>2. Origins'
  BY DEF Origins, IsOrigins
<1>3. Agreement'
  <2>1. DOMAIN Publishing' = {}
    BY DEF Publishing
  <2>2. ASSUME NEW k \in DOMAIN cache'.origin PROVE SameAsRow(k, cache.origin[k])'
    <3>1. cache' = cache /\ SameAsRow(k, cache.origin[k]) /\ cache.origin[k] \in Origin
      BY DEF IInv, Agreement, Calls, Settled, IsOrigins
    <3>. QED
      BY <3>1, TimesAreNatural DEF SameAsRow, KeepsAnchors, IInv, Shape, Origin
  <2>. QED
    BY <2>1, <2>2 DEF Agreement
<1>4. Spans' /\ Roots'
  BY SpansStay, RootsStay DEF KeepsAnchors
<1>5. Results'
  <2>1. /\ \A s \in db.spans : \A k \in DOMAIN db.calls : Shows(s, k, db.calls[k])
        /\ \A s \in db.spans : \A k \in DOMAIN cache'.origin : Shows(s, k, cache'.origin[k])
    BY DEF IInv, Results
  <2>. QED
    BY <2>1 DEF Results, Shows, Found, Lookup
<1>. QED
  BY <1>1, <1>2, <1>3, <1>4, <1>5

\* The capture and the cache wait, while old rows and spans may go.
LEMMA CaptureWaits ==
    ASSUME IInv, KeepsAnchors, job' = job, cache' = cache, db'.spans \subseteq db.spans,
           \A k \in DOMAIN db'.calls : k \in DOMAIN db.calls /\ db'.calls[k] = db.calls[k],
           \A k \in DOMAIN db.calls \ DOMAIN db'.calls : db.calls[k].created < now' - Retention
    PROVE  Calls' /\ Origins' /\ Agreement' /\ Spans' /\ Results'
<1>0. Shape /\ now' \in Nat /\ now <= now'
  BY DEF IInv, KeepsAnchors
<1>1. Calls'
  BY CallsStay
<1>2. Origins'
  <2>1. IsOrigins(job.origins)'
    BY <1>0, TimesAreNatural DEF IInv, Origins, IsOrigins, Shape
  <2>2. ASSUME NEW k \in DOMAIN job.origins
        PROVE  /\ Issued(k, job.origins[k])
               /\ (Own(k)' \/ Anchored(job.origins[k].trace, job.origins[k].span)')
               /\ job.phase = "tools" =>
                     /\ k \in DOMAIN cache.origin => Successor(k, cache.origin[k], job.origins[k])
                     /\ k \in DOMAIN db'.calls => Successor(k, db'.calls[k], job.origins[k])
    <3>1. Own(k) => Own(k)'
      BY DEF Own
    <3>2. Anchored(job.origins[k].trace, job.origins[k].span)
            => Anchored(job.origins[k].trace, job.origins[k].span)'
      BY <1>0, AnchoredStays
    <3>. QED
      BY <3>1, <3>2 DEF IInv, Origins
  <2>. QED
    BY <2>1, <2>2 DEF Origins, Issued, Successor
<1>3. Agreement'
  <2>1. ASSUME NEW k \in DOMAIN cache.origin, k \notin DOMAIN Publishing
        PROVE  SameAsRow(k, cache.origin[k])'
    <3>1. SameAsRow(k, cache.origin[k]) /\ cache.origin[k] \in Origin
      BY <2>1 DEF IInv, Agreement, Calls, Settled, IsOrigins
    <3>. QED
      BY <1>0, <3>1, SameAsRowStays
  <2>2. ASSUME NEW k \in DOMAIN Publishing
        PROVE  SameAsRow(k, job.origins[k])'
    <3>1. SameAsRow(k, job.origins[k]) /\ job.origins[k] \in Origin
      BY NoRowsIsEmpty DEF IInv, Agreement, Origins, IsOrigins, Publishing
    <3>. QED
      BY <1>0, <3>1, SameAsRowStays
  <2>3. Publishing' = Publishing
    BY DEF Publishing
  <2>. QED
    BY <2>1, <2>2, <2>3 DEF Agreement
<1>4. Spans'
  BY SpansStay
<1>5. Results'
  <2>1. /\ \A s \in db'.spans : \A k \in DOMAIN db'.calls : Shows(s, k, db'.calls[k])
        /\ \A s \in db'.spans : \A k \in DOMAIN cache.origin :
              k \in DOMAIN Publishing' \/ Shows(s, k, cache.origin[k])
    BY DEF IInv, Results, Publishing
  <2>2. \A k : Found(k)' => Found(k) /\ Lookup(k)' = Lookup(k)
    BY DEF Found, Lookup
  <2>3. \A s \in db'.spans \cup job.spans : \A k \in Keys : Found(k)' => Shows(s, k, Lookup(k)')
    BY <2>2 DEF IInv, Results, Shows
  <2>. QED
    BY <2>1, <2>3 DEF Results, Shows
<1>. QED
  BY <1>1, <1>2, <1>3, <1>4, <1>5

------------------------------------------------------------------------------
(* Steps beside the capture *)

\* A step that only moves an exchange, the sweep or the clock.
LEMMA OnlyControl ==
    ASSUME IInv, KeepsAnchors, UNCHANGED <<job, cache, db, expired>>, Shape', Job', Sweeping'
    PROVE  IInv'
<1>1. Ring'
  BY DEF IInv, Ring, RingMatchesCache
<1>2. Calls' /\ Origins' /\ Agreement' /\ Spans' /\ Results'
  BY CaptureWaits
<1>3. Roots'
  BY RootsStay DEF KeepsAnchors
<1>. QED
  BY <1>1, <1>2, <1>3 DEF IInv

\* An exchange that ends is queued for capture, or dropped.
LEMMA CaptureAsyncStep == ASSUME IInv, NEW e \in Exchanges, CaptureAsync(e) PROVE IInv'
<1>. USE DEF CaptureAsync
<1>1. Shape' /\ Sweeping' /\ now \in Nat
  BY TimesAreNatural DEF IInv, Shape, Stages, Sweeping
<1>2. KeepsAnchors
  BY <1>1 DEF IInv, Shape, KeepsAnchors, Began, Retained
<1>3. Job'
  BY DEF IInv, Shape, Job
<1>. QED
  BY <1>1, <1>2, <1>3, OnlyControl

\* An exchange that cannot be parsed is captured no further.
LEMMA GiveUpStep == ASSUME IInv, NEW e \in Exchanges, GiveUp(e) PROVE IInv'
<1>. USE DEF GiveUp, Leave
<1>1. Shape' /\ Sweeping' /\ now \in Nat
  BY TimesAreNatural DEF IInv, Shape, Stages, Sweeping
<1>2. KeepsAnchors
  BY <1>1 DEF IInv, Shape, KeepsAnchors, Began, Retained
<1>3. Job'
  BY DEF IInv, Shape, Job
<1>. QED
  BY <1>1, <1>2, <1>3, OnlyControl

\* A capture that is stored gives its slot back.
LEMMA ReleaseStep == ASSUME IInv, NEW e \in Exchanges, Release(e) PROVE IInv'
<1>. USE DEF Release
<1>1. Shape' /\ Sweeping' /\ now \in Nat
  BY TimesAreNatural DEF IInv, Shape, Stages, Sweeping
<1>2. KeepsAnchors
  BY <1>1 DEF IInv, Shape, KeepsAnchors, Began, Retained
<1>3. Job'
  BY DEF IInv, Shape, Job
<1>. QED
  BY <1>1, <1>2, <1>3, OnlyControl

\* Time passing keeps the invariant.
LEMMA TickStep == ASSUME IInv, Tick PROVE IInv'
<1>. USE TimesAreNatural DEF Tick
<1>1. Shape' /\ Sweeping' /\ now \in Nat
  BY DEF IInv, Shape, Stages, Sweeping
<1>2. KeepsAnchors
  BY <1>1 DEF IInv, Shape, KeepsAnchors, Began, Retained
<1>3. Job'
  <2>1. \A e \in Exchanges : e.end <= now => e.end <= now'
    BY <1>1, ExchangeFields
  <2>. QED
    BY <1>1, <2>1 DEF IInv, Job
<1>. QED
  BY <1>1, <1>2, <1>3, OnlyControl

\* The beginning and the end of a sweep keep the invariant.
LEMMA SweepEdgeStep == ASSUME IInv, BeginSweep \/ EndSweep PROVE IInv'
<1>. USE TimesAreNatural DEF BeginSweep, EndSweep, NoSweep
<1>1. Shape' /\ Sweeping' /\ now \in Nat
  BY DEF IInv, Shape, Stages, Sweeping
<1>2. KeepsAnchors
  BY <1>1 DEF IInv, Shape, KeepsAnchors, Began, Retained
<1>3. Job'
  BY DEF IInv, Shape, Job
<1>. QED
  BY <1>1, <1>2, <1>3, OnlyControl

\* The ring stays with the cache.
LEMMA RingStays == ASSUME IInv, cache' = cache \/ cache' = NoCache PROVE Ring'
<1>1. CASE cache' = cache
  BY <1>1 DEF IInv, Ring, RingMatchesCache
<1>2. CASE cache' = NoCache
  BY <1>2, NoRowsIsEmpty, CacheHoldsOne DEF Ring, RingMatchesCache, NoCache, IsInjective, ToSet
<1>. QED
  BY <1>1, <1>2

\* When no sweep runs nothing is asked of one.
LEMMA NoSweepIsSweeping ==
    ASSUME sweep' = NoSweep
    PROVE  Sweeping' /\ sweep' = [phase |-> sweep'.phase, cutoff |-> sweep'.cutoff]
<1>1. sweep'.phase = "idle" /\ sweep'.cutoff = 0
  BY DEF NoSweep
<1>2. sweep' = [phase |-> sweep'.phase, cutoff |-> sweep'.cutoff]
  BY <1>1, Zenon DEF NoSweep
<1>3. Sweeping'
  BY <1>1, TimesAreNatural DEF Sweeping
<1>. QED
  BY <1>2, <1>3

\* A job that is free, or new, has a shape.
LEMMA NewJobShape ==
    ASSUME IInv, now' = now, stage' \in [Exchanges -> Stages],
           \/ job' = NoJob
           \/ \E e \in Exchanges : job' = [NoJob EXCEPT !.phase = "turn", !.holder = e],
           cache' = cache \/ cache' = NoCache, db' = db, sweep' = sweep \/ sweep' = NoSweep
    PROVE  Shape' /\ Sweeping'
<1>1. now' \in 0 .. MaxTime /\ stage' \in [Exchanges -> Stages]
  BY DEF IInv, Shape
<1>2. job' = [phase |-> job'.phase, holder |-> job'.holder, turn |-> job'.turn,
              created |-> job'.created, results |-> job'.results, calls |-> job'.calls,
              origins |-> job'.origins, spans |-> job'.spans]
  <2>1. CASE job' = NoJob
    BY <2>1 DEF NoJob
  <2>2. ASSUME NEW e \in Exchanges, job' = [NoJob EXCEPT !.phase = "turn", !.holder = e]
        PROVE  <1>2
    BY <2>2 DEF NoJob
  <2>. QED
    BY <2>1, <2>2
<1>3. cache' = [origin |-> cache'.origin, order |-> cache'.order, next |-> cache'.next]
  BY DEF IInv, Shape, NoCache
<1>4. db' = [spans |-> db'.spans, calls |-> db'.calls, turns |-> db'.turns]
  BY DEF IInv, Shape
<1>5. sweep' = [phase |-> sweep'.phase, cutoff |-> sweep'.cutoff] /\ Sweeping'
  <2>1. CASE sweep' = sweep
    BY <2>1 DEF IInv, Shape, Sweeping
  <2>2. CASE sweep' = NoSweep
    BY <2>2, NoSweepIsSweeping
  <2>. QED
    BY <2>1, <2>2
<1>6. Shape'
  BY <1>1, <1>2, <1>3, <1>4, <1>5, Zenon DEF Shape
<1>. QED
  BY <1>5, <1>6

\* When no capture holds the lock nothing is asked of one.
LEMMA NoJobIsJob ==
    ASSUME job' = NoJob, now' = now, IInv,
           \A e \in Exchanges :
               stage'[e] \in {"queued", "dropped"} => stage[e] \in {"queued", "dropped"}
    PROVE  Job'
BY DEF IInv, Job, NoJob, IsInjective

\* Taking the lock begins a job without changes of its own.
LEMMA LockStep == ASSUME IInv, NEW e \in Exchanges, Lock(e) PROVE IInv'
<1>. USE DEF Lock
<1>1. Shape' /\ Sweeping' /\ Ring'
  BY NewJobShape, RingStays DEF IInv, Shape
<1>2. KeepsAnchors
  BY TimesAreNatural DEF IInv, Shape, KeepsAnchors, Began, Retained
<1>3. Job'
  BY DEF IInv, Job, IsInjective, NoJob
<1>4. job'.origins = NoRows /\ job'.spans = {}
  BY DEF NoJob
<1>5. Calls' /\ Origins' /\ Agreement' /\ Spans' /\ Results' /\ Roots'
  BY <1>2, <1>4, NothingRead, NoRowsIsEmpty DEF Publishing
<1>. QED
  BY <1>1, <1>3, <1>5 DEF IInv

\* Giving up the lock after a commit keeps the invariant.
LEMMA UnlockStep == ASSUME IInv, Unlock PROVE IInv'
<1>. USE DEF Unlock, Leave
<1>0. job.holder \in Exchanges /\ stage[job.holder] \in {"queued", "dropped"}
  BY DEF IInv, Job
<1>1. Shape' /\ Sweeping' /\ Ring'
  <2>1. stage' \in [Exchanges -> Stages]
    BY <1>0 DEF IInv, Shape, Stages
  <2>. QED
    BY <2>1, NewJobShape, RingStays
<1>2. KeepsAnchors
  BY <1>0, TimesAreNatural DEF IInv, Shape, KeepsAnchors, Began, Retained, NoJob
<1>3. Job'
  BY <1>0, NoJobIsJob DEF IInv, Shape
<1>4. job'.origins = NoRows /\ job'.spans = {}
  BY DEF NoJob
<1>5. Calls' /\ Origins' /\ Agreement' /\ Spans' /\ Results' /\ Roots'
  BY <1>2, <1>4, NothingRead DEF Publishing
<1>. QED
  BY <1>1, <1>3, <1>5 DEF IInv

\* A capture that fails leaves the tables as they are.
LEMMA AbandonStep == ASSUME IInv, Abandon PROVE IInv'
<1>. USE DEF Abandon, Leave
<1>0. job.holder \in Exchanges /\ stage[job.holder] \in {"queued", "dropped"}
  BY DEF IInv, Job
<1>1. Shape' /\ Sweeping' /\ Ring'
  <2>1. stage' \in [Exchanges -> Stages]
    BY <1>0 DEF IInv, Shape, Stages
  <2>. QED
    BY <2>1, NewJobShape, RingStays
<1>2. KeepsAnchors
  BY <1>0, TimesAreNatural DEF IInv, Shape, KeepsAnchors, Began, Retained, NoJob
<1>3. Job'
  BY <1>0, NoJobIsJob DEF IInv, Shape
<1>4. job'.origins = NoRows /\ job'.spans = {}
  BY DEF NoJob
<1>5. Calls' /\ Origins' /\ Agreement' /\ Spans' /\ Results' /\ Roots'
  BY <1>2, <1>4, NothingRead, NoRowsIsEmpty DEF Publishing
<1>. QED
  BY <1>1, <1>3, <1>5 DEF IInv

\* A crash loses the cache and every job, and keeps what is committed.
LEMMA CrashStep == ASSUME IInv, Crash PROVE IInv'
<1>. USE DEF Crash
<1>0. ASSUME NEW e \in Exchanges
      PROVE  /\ stage'[e] \in {"relaying", "skipped", "done"}
             /\ stage[e] \in {"dropped", "skipped"} => stage'[e] = "skipped"
             /\ stage[e] # "relaying" => stage'[e] \in {"skipped", "done"}
  BY DEF IInv, Shape, Stages
<1>1. Shape' /\ Sweeping' /\ Ring'
  <2>1. stage' \in [Exchanges -> Stages]
    BY <1>0 DEF Stages
  <2>. QED
    BY <2>1, NewJobShape, RingStays
<1>2. KeepsAnchors
  BY <1>0, TimesAreNatural DEF IInv, Job, Shape, KeepsAnchors, Began, Retained, NoJob
<1>3. Job'
  BY <1>0, NoJobIsJob
<1>4. job'.origins = NoRows /\ job'.spans = {} /\ cache'.origin = NoRows
  BY DEF NoJob, NoCache
<1>5. Calls' /\ Origins' /\ Agreement' /\ Spans' /\ Results' /\ Roots'
  BY <1>2, <1>4, NothingRead
<1>. QED
  BY <1>1, <1>3, <1>5 DEF IInv

\* Finding the turn of an exchange keeps the invariant.
LEMMA FindTurnStep == ASSUME IInv, FindTurn PROVE IInv'
<1>0. /\ job.phase = "turn" /\ job.holder \in Exchanges
      /\ stage[job.holder] \in {"queued", "dropped"} /\ job.origins = NoRows /\ job.spans = {}
      /\ UNCHANGED <<now, stage, cache, db, sweep, expired>>
  BY DEF FindTurn, IInv, Job
<1>1. PICK turn \in TurnsFor(db.turns, job.holder) :
          job' = [job EXCEPT !.phase = "tools", !.turn = turn, !.created = now,
                             !.results = IF stage[job.holder] = "dropped" THEN <<>>
                                         ELSE job.holder.results,
                             !.calls = job.holder.calls]
  BY DEF FindTurn
<1>2. /\ job'.phase = "tools" /\ job'.holder = job.holder /\ job'.turn = turn
      /\ job'.created = now /\ job'.calls = job.holder.calls
      /\ job'.origins = NoRows /\ job'.spans = {}
      /\ job'.results = IF stage[job.holder] = "dropped" THEN <<>> ELSE job.holder.results
  BY <1>0, <1>1 DEF IInv, Shape
<1>3. Shape'
  <2>1. job' = [phase |-> job'.phase, holder |-> job'.holder, turn |-> job'.turn,
                created |-> job'.created, results |-> job'.results, calls |-> job'.calls,
                origins |-> job'.origins, spans |-> job'.spans]
    BY <1>1 DEF IInv, Shape
  <2>. QED
    BY <1>0, <2>1, Zenon DEF IInv, Shape
<1>4. Ring' /\ Sweeping'
  BY <1>0, RingStays DEF IInv, Sweeping
<1>5. KeepsAnchors
  BY <1>0, <1>2, TimesAreNatural DEF IInv, Shape, KeepsAnchors, Began, Retained
<1>6. Job'
  <2>1. turn \in Turns \cup {NULL}
    BY <1>0, <1>1 DEF TurnsFor, Turns, LatestTurns, IInv, Roots
  <2>2. now \in Nat /\ job.holder.end <= now
    BY <1>0, TimesAreNatural DEF IInv, Shape, Job
  <2>3. now \in 1 .. now
    BY <1>0, <2>2, ExchangeFields
  <2>4. job'.results \in Seq(Keys) /\ IsInjective(job'.results)
        /\ ToSet(job'.results) \subseteq ToSet(job.holder.results)
    BY <1>0, <1>2, ExchangeFields DEF IsInjective, ToSet
  <2>5. \A e \in Exchanges : stage'[e] \in {"queued", "dropped"} => e.end <= now'
    BY <1>0 DEF IInv, Job
  <2>. QED
    BY <1>0, <1>2, <2>1, <2>3, <2>4, <2>5 DEF Job
<1>7. Calls' /\ Origins' /\ Agreement' /\ Spans' /\ Results' /\ Roots'
  BY <1>0, <1>2, <1>5, NothingRead, NoRowsIsEmpty DEF Publishing
<1>. QED
  BY <1>3, <1>4, <1>6, <1>7 DEF IInv

------------------------------------------------------------------------------
(* Lookups of the capture *)

\* What a lookup finds has been issued, and is the holder's own or anchored.
LEMMA LookupFacts ==
    ASSUME IInv, NEW k, Found(k)
    PROVE  /\ k \in Keys /\ Lookup(k) \in Origin
           /\ Lookup(k).end \in 1 .. Lookup(k).created /\ Lookup(k).created \in 1 .. now
           /\ Issued(k, Lookup(k))
           /\ Own(k) \/ Anchored(Lookup(k).trace, Lookup(k).span)
<1>1. CASE k \in DOMAIN job.origins
  BY <1>1 DEF Lookup, IInv, Origins, IsOrigins
<1>2. CASE k \notin DOMAIN job.origins /\ k \in DOMAIN cache.origin
  BY <1>2 DEF Lookup, IInv, Calls, Settled, IsOrigins
<1>3. CASE k \notin DOMAIN job.origins /\ k \notin DOMAIN cache.origin /\ k \in DOMAIN db.calls
  BY <1>3 DEF Lookup, IInv, Calls, Settled, IsOrigins
<1>. QED
  BY <1>1, <1>2, <1>3 DEF Found

\* A lookup continues what the cache has, and what the row has.
LEMMA LookupSucceeds ==
    ASSUME IInv, job.phase = "tools", NEW k, Found(k)
    PROVE  /\ k \in DOMAIN cache.origin => Successor(k, cache.origin[k], Lookup(k))
           /\ k \in DOMAIN db.calls => Successor(k, db.calls[k], Lookup(k))
<1>1. CASE k \in DOMAIN job.origins
  BY <1>1 DEF Lookup, IInv, Origins
<1>2. CASE k \notin DOMAIN job.origins /\ k \in DOMAIN cache.origin
  <2>1. k \in DOMAIN db.calls => cache.origin[k] = db.calls[k]
    BY <1>2, NoRowsIsEmpty DEF IInv, Agreement, SameAsRow, Publishing
  <2>. QED
    BY <1>2, <2>1 DEF Lookup, Successor
<1>3. CASE k \notin DOMAIN job.origins /\ k \notin DOMAIN cache.origin
  BY <1>3 DEF Lookup, Successor
<1>. QED
  BY <1>1, <1>2, <1>3

\* One more result makes no second successor.
LEMMA SuccessorObserved ==
    ASSUME job.holder \in Exchanges, NEW k \in ToSet(job.holder.results),
           NEW o \in Origin, NEW p \in Origin, Successor(k, o, p)
    PROVE  Successor(k, o, Observed(p, job.holder))
BY ObservedOrigin DEF Successor

\* The capture goes on with what it knows of k; nothing else changes.
LEMMA OriginsGrow ==
    ASSUME IInv, job.phase = "tools", UNCHANGED <<now, stage, cache, db, sweep, expired>>,
           job'.phase = "tools", job'.holder = job.holder, job'.turn = job.turn,
           job.results = <<>> => job'.results = <<>>,
           NEW k \in Keys, NEW p,
           DOMAIN job'.origins \subseteq DOMAIN job.origins \cup {k},
           \A j \in DOMAIN job'.origins : j # k => job'.origins[j] = job.origins[j],
           k \in DOMAIN job'.origins =>
               /\ job'.origins[k] = p /\ p \in Origin
               /\ p.end \in 1 .. p.created /\ p.created \in 1 .. now
               /\ Issued(k, p) /\ (Own(k)' \/ Anchored(p.trace, p.span))
               /\ k \in DOMAIN cache.origin => Successor(k, cache.origin[k], p)
               /\ k \in DOMAIN db.calls => Successor(k, db.calls[k], p)
    PROVE  KeepsAnchors /\ Calls' /\ Origins' /\ Agreement' /\ Roots'
<1>1. KeepsAnchors
  BY TimesAreNatural DEF IInv, Shape, KeepsAnchors, Began, Retained
<1>2. Calls'
  BY <1>1, CallsStay
<1>3. IsOrigins(job.origins)'
  BY DEF IInv, Origins, IsOrigins
<1>4. ASSUME NEW j \in DOMAIN job'.origins
      PROVE  /\ Issued(j, job'.origins[j])
             /\ (Own(j)' \/ Anchored(job.origins[j].trace, job.origins[j].span)')
             /\ j \in DOMAIN cache.origin => Successor(j, cache.origin[j], job'.origins[j])
             /\ j \in DOMAIN db.calls => Successor(j, db.calls[j], job'.origins[j])
  <2>1. CASE j = k
    <3>1. Anchored(p.trace, p.span) => Anchored(p.trace, p.span)'
      BY <1>1, AnchoredStays DEF IInv
    <3>. QED
      BY <2>1, <3>1
  <2>2. CASE j # k
    <3>1. j \in DOMAIN job.origins /\ job'.origins[j] = job.origins[j]
      BY <2>2
    <3>2. Own(j) => Own(j)'
      BY <3>1 DEF Own
    <3>3. Anchored(job.origins[j].trace, job.origins[j].span)
            => Anchored(job.origins[j].trace, job.origins[j].span)'
      BY <1>1, <3>1, AnchoredStays DEF IInv
    <3>. QED
      BY <3>1, <3>2, <3>3 DEF IInv, Origins
  <2>. QED
    BY <2>1, <2>2
<1>5. Origins'
  BY <1>3, <1>4 DEF Origins, Issued, Successor
<1>6. Agreement'
  BY NoRowsIsEmpty DEF IInv, Agreement, Publishing, SameAsRow
<1>7. Roots'
  BY <1>1, RootsStay DEF KeepsAnchors
<1>. QED
  BY <1>1, <1>2, <1>5, <1>6, <1>7

\* What is read from the database is what a lookup finds anyway.
LEMMA FetchKeepsLookups ==
    ASSUME UNCHANGED <<cache, db>>, NEW k, job'.origins = Overlay(Fetched(k), job.origins)
    PROVE  /\ DOMAIN job'.origins \subseteq DOMAIN job.origins \cup {k}
           /\ \A j \in DOMAIN job'.origins : j # k => job'.origins[j] = job.origins[j]
           /\ k \in DOMAIN job'.origins => Found(k) /\ job'.origins[k] = Lookup(k)
           /\ \A j : Found(j)' <=> Found(j)
           /\ \A j : Found(j) => Lookup(j)' = Lookup(j)
<1>1. CASE k \in DOMAIN db.calls /\ k \notin DOMAIN job.origins \cup DOMAIN cache.origin
  <2>1. DOMAIN Fetched(k) = {k} /\ Fetched(k)[k] = db.calls[k]
    BY <1>1, NoRowsIsEmpty DEF Fetched, With
  <2>2. /\ DOMAIN job'.origins = DOMAIN job.origins \cup {k}
        /\ job'.origins[k] = db.calls[k]
        /\ \A j \in DOMAIN job.origins : job'.origins[j] = job.origins[j]
    BY <1>1, <2>1 DEF Overlay
  <2>. QED
    BY <1>1, <2>2 DEF Found, Lookup
<1>2. CASE ~ (k \in DOMAIN db.calls /\ k \notin DOMAIN job.origins \cup DOMAIN cache.origin)
  <2>1. DOMAIN Fetched(k) = {}
    BY <1>2, NoRowsIsEmpty DEF Fetched
  <2>2. /\ DOMAIN job'.origins = DOMAIN job.origins
        /\ \A j \in DOMAIN job.origins : job'.origins[j] = job.origins[j]
    BY <2>1 DEF Overlay
  <2>. QED
    BY <1>2, <2>2 DEF Found, Lookup
<1>. QED
  BY <1>1, <1>2

\* Adding a call changes what is found of that call alone.
LEMMA WithChangesOneLookup ==
    ASSUME UNCHANGED <<cache, db>>, NEW k, NEW p, job'.origins = With(job.origins, k, p)
    PROVE  /\ DOMAIN job'.origins = DOMAIN job.origins \cup {k}
           /\ \A j \in DOMAIN job'.origins : j # k => job'.origins[j] = job.origins[j]
           /\ job'.origins[k] = p
           /\ Found(k)' /\ Lookup(k)' = p
           /\ \A j : j # k => (Found(j)' <=> Found(j))
           /\ \A j : j # k /\ Found(j) => Lookup(j)' = Lookup(j)
<1>1. /\ DOMAIN job'.origins = DOMAIN job.origins \cup {k} /\ job'.origins[k] = p
      /\ \A j \in DOMAIN job'.origins : j # k => job'.origins[j] = job.origins[j]
  BY DEF With
<1>. QED
  BY <1>1 DEF Found, Lookup

\* A result is attached to the call that issued it, the first time only.
LEMMA CorrelateResultStep == ASSUME IInv, CorrelateResult PROVE IInv'
<1>0. /\ job.phase = "tools" /\ job.results # <<>> /\ job.holder \in Exchanges
      /\ job.results \in Seq(Keys) /\ IsInjective(job.results)
      /\ ToSet(job.results) \subseteq ToSet(job.holder.results)
      /\ UNCHANGED <<now, stage, cache, db, sweep, expired>>
  BY DEF CorrelateResult, IInv, Job
<1>k. PICK k : k = Head(job.results)
  OBVIOUS
<1>p. PICK p : p = Observed(Lookup(k), job.holder)
  OBVIOUS
<1>n. PICK new : new = IF Found(k) THEN LinkedSpan(k, p) ELSE OrphanSpan(job.holder, k)
  OBVIOUS
<1>1. /\ job'.phase = "tools" /\ job'.holder = job.holder /\ job'.turn = job.turn
      /\ job'.created = job.created /\ job'.calls = job.calls /\ job'.results = Tail(job.results)
      /\ job'.spans = job.spans \cup {new}
      /\ job'.origins = IF Found(k) /\ ~ Lookup(k).hasResult THEN With(job.origins, k, p)
                        ELSE Overlay(Fetched(k), job.origins)
      /\ job' = [phase |-> job'.phase, holder |-> job'.holder, turn |-> job'.turn,
                 created |-> job'.created, results |-> job'.results, calls |-> job'.calls,
                 origins |-> job'.origins, spans |-> job'.spans]
  BY <1>0, <1>k, <1>p, <1>n DEF CorrelateResult, IInv, Shape
<1>2. /\ k \in Keys /\ k \in ToSet(job.results) /\ k \in ToSet(job.holder.results)
      /\ Tail(job.results) \in Seq(Keys) /\ IsInjective(Tail(job.results))
      /\ ToSet(Tail(job.results)) \subseteq ToSet(job.results)
      /\ k \notin ToSet(Tail(job.results))
  BY <1>0, <1>k, TailOfInjective
<1>3. \A j : ~ Own(j)
  BY <1>0 DEF Own
<1>4. Found(k) => /\ Lookup(k) \in Origin /\ Issued(k, Lookup(k))
                  /\ Lookup(k).end \in 1 .. Lookup(k).created /\ Lookup(k).created \in 1 .. now
                  /\ Anchored(Lookup(k).trace, Lookup(k).span)
                  /\ p \in Origin /\ p.hasResult /\ p.trace = Lookup(k).trace
                  /\ p.span = Lookup(k).span /\ p.end = Lookup(k).end
                  /\ p.created = Lookup(k).created
                  /\ Lookup(k).hasResult => p = Lookup(k)
                  /\ ~ Lookup(k).hasResult => p.first = job.holder.start
  BY <1>0, <1>3, <1>p, LookupFacts, ObservedOrigin
<1>5. Found(k) => Issued(k, p)
  <2>1. CASE Lookup(k).hasResult
    BY <1>4, <2>1
  <2>2. CASE ~ Lookup(k).hasResult
    BY <1>0, <1>2, <1>4, <2>2 DEF Issued
  <2>. QED
    BY <2>1, <2>2
<1>6. Found(k) => /\ k \in DOMAIN cache.origin => Successor(k, cache.origin[k], p)
                  /\ k \in DOMAIN db.calls => Successor(k, db.calls[k], p)
  <2>1. k \in DOMAIN cache.origin => cache.origin[k] \in Origin
    BY DEF IInv, Calls, Settled, IsOrigins
  <2>2. k \in DOMAIN db.calls => db.calls[k] \in Origin
    BY DEF IInv, Calls, Settled, IsOrigins
  <2>. QED
    BY <1>0, <1>2, <1>4, <1>p, <2>1, <2>2, LookupSucceeds, SuccessorObserved
<1>7. /\ DOMAIN job'.origins \subseteq DOMAIN job.origins \cup {k}
      /\ \A j \in DOMAIN job'.origins : j # k => job'.origins[j] = job.origins[j]
      /\ k \in DOMAIN job'.origins => Found(k) /\ job'.origins[k] = p
      /\ \A j : Found(j)' <=> Found(j)
      /\ \A j : j # k /\ Found(j) => Lookup(j)' = Lookup(j)
      /\ Found(k) => Lookup(k)' = p
  <2>1. CASE Found(k) /\ ~ Lookup(k).hasResult
    <3>1. job'.origins = With(job.origins, k, p)
      BY <1>1, <2>1
    <3>2. UNCHANGED <<cache, db>>
      BY <1>0
    <3>3. /\ DOMAIN job'.origins = DOMAIN job.origins \cup {k}
          /\ \A j \in DOMAIN job'.origins : j # k => job'.origins[j] = job.origins[j]
          /\ job'.origins[k] = p /\ Found(k)' /\ Lookup(k)' = p
      BY <3>1, <3>2, WithChangesOneLookup
    <3>4. /\ \A j : j # k => (Found(j)' <=> Found(j))
          /\ \A j : j # k /\ Found(j) => Lookup(j)' = Lookup(j)
      BY <3>1, <3>2, WithChangesOneLookup
    <3>. QED
      BY <2>1, <3>3, <3>4
  <2>2. CASE ~ (Found(k) /\ ~ Lookup(k).hasResult)
    BY <1>0, <1>1, <1>4, <2>2, FetchKeepsLookups
  <2>. QED
    BY <2>1, <2>2
<1>8. KeepsAnchors /\ Calls' /\ Origins' /\ Agreement' /\ Roots'
  BY <1>0, <1>1, <1>2, <1>4, <1>5, <1>6, <1>7, OriginsGrow
<1>9. Shape'
  BY <1>0, <1>1, Zenon DEF IInv, Shape
<1>10. Ring' /\ Sweeping'
  BY <1>0, RingStays DEF IInv, Sweeping
<1>11. Job'
  BY <1>0, <1>1, <1>2 DEF IInv, Job
<1>12. /\ IsSpan(new) /\ new.id = ToolId(k) /\ new.output = NULL
       /\ Found(k) => /\ new.trace = p.trace /\ new.parent = p.span
                      /\ new.end = p.first /\ new.start = Min({p.end, p.first})
       /\ ~ Found(k) => new.parent = NULL
  <2>1. CASE Found(k)
    <3>1. p.end \in Nat /\ p.first \in Nat
      BY <1>4, <2>1 DEF Origin
    <3>2. Min({p.end, p.first}) \in Nat
      <4>1. p.end \in Int /\ p.first \in Int
        BY <3>1
      <4>2. Min({p.end, p.first}) \in {p.end, p.first}
        BY <4>1, MinMaxOfTwo, Zenon
      <4>. QED
        BY <3>1, <4>2
    <3>3. new = [trace |-> p.trace, id |-> ToolId(k), parent |-> p.span,
                 start |-> Min({p.end, p.first}), end |-> p.first, error |-> FALSE,
                 output |-> NULL]
      BY <1>n, <2>1, Zenon DEF LinkedSpan, SpanOf
    <3>. QED
      BY <2>1, <3>1, <3>2, <3>3 DEF IsSpan
  <2>2. CASE ~ Found(k)
    BY <1>0, <1>n, <2>2, ExchangeFields DEF OrphanSpan, SpanOf, IsSpan
  <2>. QED
    BY <2>1, <2>2
<1>13. Spans'
  <2>1. IsTool(new)
    <3>1. Found(k) => \E f \in Exchanges : new.parent = ModelId(f)
      BY <1>4, <1>12 DEF Origin
    <3>. QED
      BY <1>2, <1>12, <3>1 DEF IsTool
  <2>2. Anchored(new.trace, new.parent)'
    <3>1. CASE Found(k)
      BY <1>4, <1>8, <1>12, <3>1, AnchoredStays DEF IInv
    <3>2. CASE ~ Found(k)
      BY <1>12, <3>2, Identifiers DEF Anchored
    <3>. QED
      BY <3>1, <3>2
  <2>3. \A s \in db.spans \cup job.spans : Anchored(s.trace, s.parent)'
    BY <1>8, AnchoredStays DEF IInv, Spans
  <2>4. \A s \in job'.spans : /\ IsSpan(s) /\ Anchored(s.trace, s.parent)' /\ IsTool(s)
                              /\ s.output = NULL
                              /\ \A j \in ToSet(job'.results) : s.id # ToolId(j)
    <3>1. \A s \in job.spans : /\ IsSpan(s) /\ IsTool(s) /\ s.output = NULL
                               /\ \A j \in ToSet(job'.results) : s.id # ToolId(j)
      BY <1>1, <1>2 DEF IInv, Spans
    <3>2. \A j \in ToSet(job'.results) : new.id # ToolId(j)
      BY <1>1, <1>2, <1>12, Identifiers
    <3>. QED
      BY <1>1, <1>12, <2>1, <2>2, <2>3, <3>1, <3>2
  <2>5. \A r, s \in job'.spans : r.id = s.id => r = s
    <3>1. \A s \in job.spans : s.id # new.id
      BY <1>2, <1>12 DEF IInv, Spans
    <3>. QED
      BY <1>1, <3>1 DEF IInv, Spans
  <2>6. \A s \in job'.spans, j \in DOMAIN db.calls \cup DOMAIN cache.origin :
            s.id = ToolId(j) => s.parent # NULL
    <3>1. ASSUME NEW j \in DOMAIN db.calls \cup DOMAIN cache.origin, new.id = ToolId(j)
          PROVE  new.parent # NULL
      <4>1. j = k /\ Found(k)
        BY <1>12, <3>1, Identifiers DEF Found
      <4>. QED
        BY <1>4, <1>12, <4>1, Identifiers DEF Origin
    <3>. QED
      BY <1>1, <3>1 DEF IInv, Spans
  <2>7. \A s \in db.spans : /\ IsSpan(s)
                            /\ (IsRoot(s) \/ ((IsTool(s) \/ IsModel(s)) /\ s.output = NULL))
    BY DEF IInv, Spans
  <2>8. \A r, s \in db.spans : SameRow(r, s) => r = s
    BY DEF IInv, Spans
  <2>. QED
    BY <1>0, <2>3, <2>4, <2>5, <2>6, <2>7, <2>8
       DEF Spans, IsSpan, IsRoot, IsTool, IsModel, SameRow
<1>14. Results'
  <2>1. ASSUME NEW s \in db.spans \cup job.spans \cup {new}, NEW j \in Keys, Found(j)'
        PROVE  Shows(s, j, Lookup(j)')
    <3>1. CASE j # k
      <4>1. CASE s = new
        BY <1>12, <3>1, <4>1, Identifiers DEF Shows
      <4>2. CASE s \in db.spans \cup job.spans
        BY <1>7, <2>1, <3>1, <4>2 DEF IInv, Results
      <4>. QED
        BY <4>1, <4>2
    <3>2. CASE j = k /\ s = new
      BY <1>4, <1>7, <1>12, <2>1, <3>2 DEF Shows
    <3>3. CASE j = k /\ s \in db.spans \cup job.spans
      <4>1. Found(k) /\ Lookup(k)' = p /\ Shows(s, k, Lookup(k))
        BY <1>2, <1>7, <2>1, <3>3 DEF IInv, Results
      <4>. QED
        BY <1>4, <3>3, <4>1 DEF Shows
    <3>. QED
      BY <3>1, <3>2, <3>3
  <2>2. /\ \A s \in db.spans : \A j \in DOMAIN db.calls : Shows(s, j, db.calls[j])
        /\ \A s \in db.spans : \A j \in DOMAIN cache.origin : Shows(s, j, cache.origin[j])
    BY <1>0, NoRowsIsEmpty DEF IInv, Results, Publishing
  <2>. QED
    BY <1>0, <1>1, <2>1, <2>2 DEF Results, Shows
<1>. QED
  BY <1>8, <1>9, <1>10, <1>11, <1>13, <1>14 DEF IInv

\* What is remembered of a call that is issued.
LEMMA NewOriginFacts ==
    ASSUME NEW e \in Exchanges, NEW turn \in Turns \cup {NULL}, NEW t \in Nat, e.end <= t
    PROVE  LET o == NewOrigin(e, turn, t)
           IN  /\ o \in Origin /\ o.end \in 1 .. o.created /\ o.created \in 1 .. t
               /\ o.trace = ChatTrace(e, turn) /\ o.span = ModelId(e) /\ o.end = e.end
               /\ ~ o.hasResult
<1>1. ChatTrace(e, turn) \in Traces
  BY DEF ChatTrace, Traces
<1>2. e.end \in Nat /\ 0 < e.end
  BY ExchangeFields
<1>. QED
  BY <1>1, <1>2 DEF NewOrigin, Origin

\* A call that is issued is remembered in the job.
LEMMA IssueCallStep == ASSUME IInv, NEW k, IssueCall(k) PROVE IInv'
<1>0. /\ job.phase = "tools" /\ job.results = <<>> /\ k \in job.calls
      /\ job.holder \in Exchanges /\ job.calls \subseteq job.holder.calls /\ k \in Keys
      /\ stage[job.holder] \in {"queued", "dropped"} /\ job.holder.end <= now
      /\ job.turn \in Turns \cup {NULL} /\ now \in Nat
      /\ UNCHANGED <<now, stage, cache, db, sweep, expired>>
  BY ExchangeFields, TimesAreNatural DEF IssueCall, IInv, Job, Shape
<1>1. /\ job'.phase = "tools" /\ job'.holder = job.holder /\ job'.turn = job.turn
      /\ job'.created = job.created /\ job'.calls = job.calls \ {k}
      /\ job'.results = job.results /\ job'.spans = job.spans
      /\ job'.origins = IF Found(k) THEN Overlay(Fetched(k), job.origins)
                        ELSE With(job.origins, k, NewOrigin(job.holder, job.turn, now))
      /\ job' = [phase |-> job'.phase, holder |-> job'.holder, turn |-> job'.turn,
                 created |-> job'.created, results |-> job'.results, calls |-> job'.calls,
                 origins |-> job'.origins, spans |-> job'.spans]
  BY <1>0 DEF IssueCall, IInv, Shape
<1>2. Shape'
  BY <1>0, <1>1, Zenon DEF IInv, Shape
<1>3. Ring' /\ Sweeping'
  BY <1>0, RingStays DEF IInv, Sweeping
<1>4. Job'
  BY <1>0, <1>1 DEF IInv, Job
<1>5. /\ \A s \in db.spans : \A j \in DOMAIN db.calls : Shows(s, j, db.calls[j])
      /\ \A s \in db.spans : \A j \in DOMAIN cache.origin : Shows(s, j, cache.origin[j])
  BY <1>0, NoRowsIsEmpty DEF IInv, Results, Publishing
<1>6. UNCHANGED <<cache, db>>
  BY <1>0
<1>7. CASE Found(k)
  <2>1. job'.origins = Overlay(Fetched(k), job.origins)
    BY <1>1, <1>7
  <2>2. /\ DOMAIN job'.origins \subseteq DOMAIN job.origins \cup {k}
        /\ \A j \in DOMAIN job'.origins : j # k => job'.origins[j] = job.origins[j]
        /\ k \in DOMAIN job'.origins => job'.origins[k] = Lookup(k)
    BY <1>6, <2>1, FetchKeepsLookups
  <2>3. /\ \A j : Found(j)' <=> Found(j)
        /\ \A j : Found(j) => Lookup(j)' = Lookup(j)
    BY <1>6, <2>1, FetchKeepsLookups
  <2>4. PICK p : p = Lookup(k)
    OBVIOUS
  <2>5. /\ p \in Origin /\ p.end \in 1 .. p.created /\ p.created \in 1 .. now
        /\ Issued(k, p) /\ (Own(k)' \/ Anchored(p.trace, p.span))
        /\ k \in DOMAIN cache.origin => Successor(k, cache.origin[k], p)
        /\ k \in DOMAIN db.calls => Successor(k, db.calls[k], p)
    <3>1. Own(k) => k \in DOMAIN job.origins
      BY <1>7 DEF Own, Found
    <3>2. k \in DOMAIN job.origins
            => k \in DOMAIN job'.origins /\ job'.origins[k] = job.origins[k]
      BY <2>1, <2>2 DEF Overlay, Lookup
    <3>4. Own(k) => Own(k)'
      BY <1>0, <1>1, <3>1, <3>2 DEF Own
    <3>3. k \notin DOMAIN job.origins => Anchored(p.trace, p.span)
      BY <1>7, <2>4 DEF Found, Lookup, IInv, Calls, Settled
    <3>. QED
      BY <1>0, <1>7, <2>4, <3>3, <3>4, LookupFacts, LookupSucceeds
  <2>6. KeepsAnchors /\ Calls' /\ Origins' /\ Agreement' /\ Roots'
    BY <1>0, <1>1, <2>2, <2>4, <2>5, OriginsGrow
  <2>7. Spans'
    BY <1>0, <1>1, <2>6, SpansStay
  <2>8. \A s \in db.spans \cup job.spans : \A j \in Keys : Found(j)' => Shows(s, j, Lookup(j)')
    BY <2>3 DEF IInv, Results
  <2>9. Results'
    BY <1>0, <1>1, <1>5, <2>8 DEF Results, Shows
  <2>. QED
    BY <1>2, <1>3, <1>4, <2>6, <2>7, <2>9 DEF IInv
<1>8. CASE ~ Found(k)
  <2>1. PICK p : p = NewOrigin(job.holder, job.turn, now)
    OBVIOUS
  <2>2. /\ p \in Origin /\ p.end \in 1 .. p.created /\ p.created \in 1 .. now
        /\ p.trace = ChatTrace(job.holder, job.turn) /\ p.span = ModelId(job.holder)
        /\ p.end = job.holder.end /\ ~ p.hasResult
    BY <1>0, <2>1, NewOriginFacts
  <2>3. job'.origins = With(job.origins, k, p)
    BY <1>1, <1>8, <2>1
  <2>4. /\ DOMAIN job'.origins = DOMAIN job.origins \cup {k}
        /\ \A j \in DOMAIN job'.origins : j # k => job'.origins[j] = job.origins[j]
        /\ job'.origins[k] = p /\ Found(k)' /\ Lookup(k)' = p
    BY <1>6, <2>3, WithChangesOneLookup
  <2>5. /\ \A j : j # k => (Found(j)' <=> Found(j))
        /\ \A j : j # k /\ Found(j) => Lookup(j)' = Lookup(j)
    BY <1>6, <2>3, WithChangesOneLookup
  <2>6. Issued(k, p) /\ Own(k)'
    BY <1>0, <1>1, <1>8, <2>2, <2>4 DEF Issued, Own, Found
  <2>7. k \notin DOMAIN cache.origin /\ k \notin DOMAIN db.calls
    BY <1>8 DEF Found
  <2>8. KeepsAnchors /\ Calls' /\ Origins' /\ Agreement' /\ Roots'
    BY <1>0, <1>1, <2>2, <2>4, <2>6, <2>7, OriginsGrow
  <2>9. Spans'
    BY <1>0, <1>1, <2>8, SpansStay
  <2>10. ASSUME NEW s \in db.spans \cup job.spans PROVE Shows(s, k, p)
    <3>1. Anchored(s.trace, s.parent) /\ ~ Began(job.holder)
      BY <1>0 DEF IInv, Spans, Began
    <3>. QED
      BY <1>0, <2>2, <3>1 DEF Shows, Anchored
  <2>11. \A s \in db.spans \cup job.spans : \A j \in Keys : Found(j)' => Shows(s, j, Lookup(j)')
    BY <2>4, <2>5, <2>10 DEF IInv, Results
  <2>12. Results'
    BY <1>0, <1>1, <1>5, <2>11 DEF Results, Shows
  <2>. QED
    BY <1>2, <1>3, <1>4, <2>8, <2>9, <2>12 DEF IInv
<1>. QED
  BY <1>7, <1>8

------------------------------------------------------------------------------
(* Publishing *)

\* The ring stays a ring; one call is set, and at most one other gives way.
LEMMA CacheOneFacts ==
    ASSUME Ring, cache = [origin |-> cache.origin, order |-> cache.order, next |-> cache.next],
           NEW k \in Keys, NEW o, cache' = CacheOne(cache, k, o)
    PROVE  /\ Ring'
           /\ cache' = [origin |-> cache'.origin, order |-> cache'.order, next |-> cache'.next]
           /\ k \in DOMAIN cache'.origin /\ cache'.origin[k] = o
           /\ \A j \in DOMAIN cache'.origin :
                 j # k => j \in DOMAIN cache.origin /\ cache'.origin[j] = cache.origin[j]
<1>0. /\ cache.order \in Seq(Keys) /\ IsInjective(cache.order)
      /\ ToSet(cache.order) = DOMAIN cache.origin /\ Len(cache.order) <= MaxToolCalls
      /\ cache.next \in 1 .. MaxToolCalls /\ MaxToolCalls \in Nat /\ 0 < MaxToolCalls
      /\ cache.next > 1 => Len(cache.order) = MaxToolCalls
  BY CacheHoldsOne DEF Ring, RingMatchesCache
<1>1. CASE k \in DOMAIN cache.origin
  <2>1. cache' = [origin |-> With(cache.origin, k, o), order |-> cache.order, next |-> cache.next]
    BY <1>1 DEF CacheOne
  <2>2. /\ DOMAIN cache'.origin = DOMAIN cache.origin /\ cache'.origin[k] = o
        /\ \A j \in DOMAIN cache'.origin : j # k => cache'.origin[j] = cache.origin[j]
        /\ cache'.order = cache.order /\ cache'.next = cache.next
    BY <1>1, <2>1 DEF With
  <2>. QED
    BY <1>0, <1>1, <2>1, <2>2 DEF Ring, RingMatchesCache
<1>2. CASE k \notin DOMAIN cache.origin /\ Len(cache.order) < MaxToolCalls
  <2>1. cache' = [origin |-> With(cache.origin, k, o), order |-> Append(cache.order, k),
                  next |-> cache.next]
    BY <1>2 DEF CacheOne
  <2>2. /\ DOMAIN cache'.origin = DOMAIN cache.origin \cup {k} /\ cache'.origin[k] = o
        /\ \A j \in DOMAIN cache'.origin : j # k => cache'.origin[j] = cache.origin[j]
        /\ cache'.order = Append(cache.order, k) /\ cache'.next = cache.next
    BY <2>1 DEF With
  <2>3. /\ cache'.order \in Seq(Keys) /\ Len(cache'.order) = Len(cache.order) + 1
        /\ cache'.order[Len(cache.order) + 1] = k
        /\ \A i \in 1 .. Len(cache.order) : cache'.order[i] = cache.order[i]
        /\ DOMAIN cache'.order = 1 .. Len(cache.order) + 1
        /\ DOMAIN cache.order = 1 .. Len(cache.order) /\ Len(cache.order) \in Nat
    BY <1>0, <2>2
  <2>4. ToSet(cache'.order) = ToSet(cache.order) \cup {k}
    BY <2>3 DEF ToSet
  <2>5. \A i \in 1 .. Len(cache.order) : cache.order[i] # k
    BY <1>0, <1>2, <2>3 DEF ToSet
  <2>6. IsInjective(cache'.order)
    BY <1>0, <2>3, <2>5 DEF IsInjective
  <2>7. Ring'
    BY <1>0, <1>2, <2>2, <2>3, <2>4, <2>6 DEF Ring, RingMatchesCache
  <2>. QED
    BY <2>1, <2>2, <2>7
<1>3. CASE k \notin DOMAIN cache.origin /\ ~ Len(cache.order) < MaxToolCalls
  <2>1. cache' = [origin |-> With(Without(cache.origin, cache.order[cache.next]), k, o),
                  order |-> [cache.order EXCEPT ![cache.next] = k],
                  next |-> (cache.next % MaxToolCalls) + 1]
    BY <1>3 DEF CacheOne
  <2>2. PICK old : old = cache.order[cache.next]
    OBVIOUS
  <2>3. /\ DOMAIN cache'.origin = (DOMAIN cache.origin \ {old}) \cup {k} /\ cache'.origin[k] = o
        /\ \A j \in DOMAIN cache'.origin : j # k => cache'.origin[j] = cache.origin[j]
        /\ cache'.order = [cache.order EXCEPT ![cache.next] = k]
        /\ cache'.next = (cache.next % MaxToolCalls) + 1
    BY <2>1, <2>2 DEF With, Without
  <2>4. /\ Len(cache.order) = MaxToolCalls /\ DOMAIN cache.order = 1 .. MaxToolCalls
        /\ cache'.order \in Seq(Keys) /\ Len(cache'.order) = MaxToolCalls
        /\ DOMAIN cache'.order = 1 .. MaxToolCalls
        /\ cache'.order[cache.next] = k
        /\ \A i \in 1 .. MaxToolCalls : i # cache.next => cache'.order[i] = cache.order[i]
    BY <1>0, <1>3, <2>3
  <2>5. /\ \A i \in 1 .. MaxToolCalls : cache.order[i] # k
        /\ \A i \in 1 .. MaxToolCalls : i # cache.next => cache.order[i] # old
    BY <1>0, <1>3, <2>2, <2>4 DEF ToSet, IsInjective
  <2>6. ToSet(cache'.order) = (ToSet(cache.order) \ {old}) \cup {k}
    BY <1>0, <2>2, <2>4, <2>5 DEF ToSet
  <2>7. IsInjective(cache'.order)
    BY <1>0, <2>4, <2>5 DEF IsInjective
  <2>8. cache'.next \in 1 .. MaxToolCalls
    BY <1>0, <2>3
  <2>. QED
    BY <1>0, <2>1, <2>3, <2>4, <2>6, <2>7, <2>8 DEF Ring, RingMatchesCache
<1>. QED
  BY <1>1, <1>2, <1>3

\* After the commit a call moves to the cache, or is forgotten with it.
LEMMA PublishCallStep == ASSUME IInv, NEW k, PublishCall(k) PROVE IInv'
<1>0. /\ job.phase = "cache" /\ k \in DOMAIN job.origins /\ k \in Keys
      /\ job.spans = {} /\ job.results = <<>> /\ job.calls = {}
      /\ cache' = CacheOne(cache, k, job.origins[k])
      /\ UNCHANGED <<now, stage, db, sweep, expired>>
  BY DEF PublishCall, IInv, Job, Origins, IsOrigins
<1>1. /\ job'.phase = job.phase /\ job'.holder = job.holder /\ job'.turn = job.turn
      /\ job'.created = job.created /\ job'.calls = job.calls
      /\ job'.results = job.results /\ job'.spans = job.spans
      /\ job'.origins = Without(job.origins, k)
      /\ job' = [phase |-> job'.phase, holder |-> job'.holder, turn |-> job'.turn,
                 created |-> job'.created, results |-> job'.results, calls |-> job'.calls,
                 origins |-> job'.origins, spans |-> job'.spans]
  BY DEF PublishCall, IInv, Shape
<1>2. /\ DOMAIN job'.origins = DOMAIN job.origins \ {k}
      /\ \A j \in DOMAIN job'.origins : job'.origins[j] = job.origins[j]
      /\ Publishing = job.origins /\ Publishing' = job'.origins
  BY <1>0, <1>1 DEF Without, Publishing
<1>3. PICK o : o = job.origins[k]
  OBVIOUS
<1>4. /\ Ring'
      /\ cache' = [origin |-> cache'.origin, order |-> cache'.order, next |-> cache'.next]
      /\ k \in DOMAIN cache'.origin /\ cache'.origin[k] = o
      /\ \A j \in DOMAIN cache'.origin :
            j # k => j \in DOMAIN cache.origin /\ cache'.origin[j] = cache.origin[j]
  BY <1>0, <1>3, CacheOneFacts DEF IInv, Shape
<1>5. Shape'
  BY <1>0, <1>1, <1>4, Zenon DEF IInv, Shape
<1>6. Job' /\ Sweeping'
  BY <1>0, <1>1 DEF IInv, Job, Sweeping
<1>7. KeepsAnchors
  BY <1>0, <1>1, TimesAreNatural DEF IInv, Shape, KeepsAnchors, Began, Retained
<1>8. \A j \in DOMAIN job.origins :
          /\ j \in Keys /\ job.origins[j] \in Origin /\ Issued(j, job.origins[j])
          /\ job.origins[j].end \in 1 .. job.origins[j].created
          /\ job.origins[j].created \in 1 .. now
          /\ Anchored(job.origins[j].trace, job.origins[j].span)
          /\ SameAsRow(j, job.origins[j])
  BY <1>0, <1>2 DEF IInv, Origins, IsOrigins, Own, Agreement
<1>9. \A trace, parent : Anchored(trace, parent) => Anchored(trace, parent)'
  BY <1>7, AnchoredStays DEF IInv
<1>10. Calls'
  <2>1. Settled(db.calls)'
    BY <1>0, <1>7, SettledStays DEF IInv, Calls
  <2>2. ASSUME NEW j \in DOMAIN cache'.origin
        PROVE  \E x : /\ x = cache'.origin[j] /\ j \in Keys /\ x \in Origin /\ Issued(j, x)
                       /\ x.end \in 1 .. x.created /\ x.created \in 1 .. now
                       /\ Anchored(x.trace, x.span)
    <3>1. CASE j = k
      BY <1>0, <1>3, <1>4, <1>8, <3>1
    <3>2. CASE j # k
      BY <1>4, <3>2 DEF IInv, Calls, Settled, IsOrigins
    <3>. QED
      BY <3>1, <3>2
  <2>3. ASSUME NEW j \in DOMAIN cache'.origin
        PROVE  Anchored(cache.origin[j].trace, cache.origin[j].span)'
    BY <1>9, <2>2
  <2>4. Settled(cache.origin)'
    BY <1>0, <2>2, <2>3 DEF Settled, IsOrigins, Issued
  <2>. QED
    BY <2>1, <2>4 DEF Calls
<1>11. Origins'
  <2>1. ASSUME NEW j \in DOMAIN job'.origins
        PROVE  Anchored(job.origins[j].trace, job.origins[j].span)'
    <3>1. PICK x : x = job.origins[j]
      OBVIOUS
    <3>2. Anchored(x.trace, x.span)' /\ job'.origins[j] = x
      BY <1>2, <1>8, <1>9, <3>1
    <3>. QED
      BY <3>2
  <2>2. IsOrigins(job.origins)'
    BY <1>0, <1>2, <1>8 DEF IsOrigins
  <2>. QED
    BY <1>0, <1>1, <1>2, <1>8, <2>1, <2>2 DEF Origins, Issued
<1>12. Agreement'
  <2>1. ASSUME NEW j \in DOMAIN cache'.origin, j \notin DOMAIN Publishing'
        PROVE  SameAsRow(j, cache.origin[j])'
    <3>1. PICK x : x = cache'.origin[j]
      OBVIOUS
    <3>2. SameAsRow(j, x)
      <4>1. CASE j = k
        BY <1>0, <1>3, <1>4, <1>8, <3>1, <4>1
      <4>2. CASE j # k
        BY <1>2, <1>4, <2>1, <3>1, <4>2 DEF IInv, Agreement
      <4>. QED
        BY <4>1, <4>2
    <3>. QED
      BY <1>0, <3>1, <3>2 DEF SameAsRow
  <2>2. ASSUME NEW j \in DOMAIN Publishing' PROVE SameAsRow(j, job.origins[j])'
    BY <1>0, <1>2, <1>8, <2>2 DEF SameAsRow
  <2>. QED
    BY <2>1, <2>2 DEF Agreement
<1>13. Spans'
  BY <1>0, <1>1, <1>7, SpansStay
<1>14. Roots'
  BY <1>0, <1>7, RootsStay DEF KeepsAnchors
<1>15. Results'
  <2>1. \A s \in db.spans : \A j \in DOMAIN db.calls : Shows(s, j, db.calls[j])
    BY DEF IInv, Results
  <2>2. ASSUME NEW s \in db.spans, NEW j \in DOMAIN job.origins
        PROVE  Shows(s, j, job.origins[j])
    <3>1. Found(j) /\ Lookup(j) = job.origins[j] /\ j \in Keys
      BY <1>8 DEF Found, Lookup
    <3>. QED
      BY <3>1, Zenon DEF IInv, Results
  <2>3. ASSUME NEW s \in db.spans, NEW j \in DOMAIN cache'.origin, j \notin DOMAIN Publishing'
        PROVE  Shows(s, j, cache'.origin[j])
    <3>1. CASE j = k
      BY <1>0, <1>3, <1>4, <2>2, <3>1
    <3>2. CASE j # k
      BY <1>2, <1>4, <2>3, <3>2 DEF IInv, Results
    <3>. QED
      BY <3>1, <3>2
  <2>4. ASSUME NEW s \in db.spans, NEW j \in Keys, Found(j)'
        PROVE  Shows(s, j, Lookup(j)')
    <3>1. CASE j \in DOMAIN job'.origins
      <4>1. Lookup(j)' = job.origins[j] /\ j \in DOMAIN job.origins
        BY <1>2, <3>1 DEF Lookup
      <4>. QED
        BY <2>2, <4>1
    <3>2. CASE j \notin DOMAIN job'.origins /\ j \in DOMAIN cache'.origin
      <4>1. Lookup(j)' = cache'.origin[j]
        BY <3>2 DEF Lookup
      <4>. QED
        BY <1>2, <2>3, <3>2, <4>1
    <3>3. CASE j \notin DOMAIN job'.origins /\ j \notin DOMAIN cache'.origin
      <4>1. Lookup(j)' = db.calls[j] /\ j \in DOMAIN db.calls
        BY <1>0, <2>4, <3>3 DEF Lookup, Found
      <4>. QED
        BY <2>1, <4>1
    <3>. QED
      BY <3>1, <3>2, <3>3
  <2>. QED
    BY <1>0, <1>1, <2>1, <2>3, <2>4 DEF Results, Shows
<1>. QED
  BY <1>4, <1>5, <1>6, <1>10, <1>11, <1>12, <1>13, <1>14, <1>15 DEF IInv

------------------------------------------------------------------------------
(* The sweep *)

\* The statements of a sweep leave the process alone.
LEMMA SweepKeepsAnchors ==
    ASSUME IInv, UNCHANGED <<now, stage, job, cache>>, db'.spans = db.spans
    PROVE  KeepsAnchors
BY TimesAreNatural DEF IInv, Shape, KeepsAnchors, Began, Retained

\* A sweep drops expired calls.
LEMMA PurgeCallsStep == ASSUME IInv, PurgeCalls PROVE IInv'
<1>0. /\ sweep.phase = "calls" /\ sweep.cutoff \in Nat /\ sweep.cutoff + Retention <= now
      /\ now \in Nat /\ now \in 0 .. MaxTime
      /\ UNCHANGED <<now, stage, job, cache, expired>>
  BY TimesAreNatural DEF PurgeCalls, IInv, Sweeping, Shape
<1>1. /\ db'.spans = db.spans /\ db'.turns = db.turns
      /\ db'.calls = Restrict(db.calls, DOMAIN db.calls \ Created(db.calls, sweep.cutoff))
      /\ db' = [spans |-> db'.spans, calls |-> db'.calls, turns |-> db'.turns]
  BY DEF PurgeCalls, IInv, Shape
<1>2. /\ \A k \in DOMAIN db'.calls : k \in DOMAIN db.calls /\ db'.calls[k] = db.calls[k]
      /\ \A k \in DOMAIN db.calls \ DOMAIN db'.calls : db.calls[k].created < sweep.cutoff
  BY <1>1 DEF Restrict, Created
<1>3. \A k \in DOMAIN db.calls \ DOMAIN db'.calls : db.calls[k].created < now' - Retention
  <2>1. \A k \in DOMAIN db.calls : db.calls[k].created \in Nat
    BY DEF IInv, Calls, Settled, IsOrigins, Origin
  <2>. QED
    BY <1>0, <1>2, <2>1, TimesAreNatural
<1>4. Sweeping' /\ sweep' = [phase |-> sweep'.phase, cutoff |-> sweep'.cutoff]
  BY <1>0 DEF PurgeCalls, IInv, Sweeping, Shape
<1>5. Shape'
  BY <1>0, <1>1, <1>4, Zenon DEF IInv, Shape
<1>6. Ring' /\ Job'
  BY <1>0, RingStays DEF IInv, Job
<1>7. KeepsAnchors
  BY <1>0, <1>1, SweepKeepsAnchors
<1>8. Calls' /\ Origins' /\ Agreement' /\ Spans' /\ Results'
  BY <1>0, <1>1, <1>2, <1>3, <1>7, CaptureWaits
<1>9. Roots'
  BY <1>0, <1>1, <1>7, RootsStay DEF KeepsAnchors
<1>. QED
  BY <1>4, <1>5, <1>6, <1>8, <1>9 DEF IInv

\* A sweep drops expired turns.
LEMMA PurgeTurnsStep == ASSUME IInv, PurgeTurns PROVE IInv'
<1>0. /\ sweep.phase = "turns" /\ UNCHANGED <<now, stage, job, cache>>
      /\ expired' = expired \cup Created(db.turns, sweep.cutoff)
  BY DEF PurgeTurns
<1>1. /\ db'.spans = db.spans /\ db'.calls = db.calls
      /\ db'.turns = Restrict(db.turns, DOMAIN db.turns \ Created(db.turns, sweep.cutoff))
      /\ db' = [spans |-> db'.spans, calls |-> db'.calls, turns |-> db'.turns]
  BY DEF PurgeTurns, IInv, Shape
<1>2. /\ DOMAIN db'.turns \subseteq DOMAIN db.turns
      /\ \A t \in DOMAIN db'.turns : db'.turns[t] = db.turns[t]
      /\ \A t \in DOMAIN db.turns : t \notin expired' => t \in DOMAIN db'.turns
      /\ expired \subseteq expired'
  BY <1>0, <1>1 DEF Restrict, Created
<1>4. Sweeping' /\ sweep' = [phase |-> sweep'.phase, cutoff |-> sweep'.cutoff]
  BY <1>0 DEF PurgeTurns, IInv, Sweeping, Shape
<1>5. Shape'
  BY <1>0, <1>1, <1>4, Zenon DEF IInv, Shape
<1>6. Ring' /\ Job'
  BY <1>0, RingStays DEF IInv, Job
<1>7. KeepsAnchors
  BY <1>0, <1>1, SweepKeepsAnchors
<1>8. Calls' /\ Origins' /\ Agreement' /\ Spans' /\ Results'
  BY <1>0, <1>1, <1>7, CaptureWaits
<1>9. Roots'
  <2>1. /\ DOMAIN db'.turns \subseteq Turns
        /\ \A u \in DOMAIN db'.turns :
              db'.turns[u].created \in 1 .. now /\ IsRootOf(u, db'.turns[u].root)
    BY <1>2 DEF IInv, Roots
  <2>2. ASSUME NEW u \in Turns \ expired', NEW s \in db.spans
        PROVE  /\ s.id = RootId(u) => u \in DOMAIN db'.turns /\ s = db'.turns[u].root
               /\ s.parent = RootId(u) => u \in DOMAIN db'.turns /\ Covers(db'.turns[u].root, s)
    BY <1>2 DEF IInv, Roots
  <2>. QED
    BY <1>0, <1>1, <2>1, <2>2 DEF Roots, IsRootOf, IsSpan, Covers
<1>. QED
  BY <1>4, <1>5, <1>6, <1>8, <1>9 DEF IInv

\* Retention deletes a trace whole.
LEMMA PurgeTraceStep == ASSUME IInv, NEW t, PurgeTrace(t) PROVE IInv'
<1>0. /\ sweep.phase = "traces" /\ UNCHANGED <<now, stage, job, cache, sweep, expired>>
      /\ sweep.cutoff \in Nat /\ sweep.cutoff + Retention <= now /\ now \in Nat
      /\ \A s \in db.spans : s.trace = t => s.end < sweep.cutoff
  BY TimesAreNatural DEF PurgeTrace, IInv, Sweeping, Shape
<1>1. /\ db'.spans = {s \in db.spans : s.trace # t} /\ db'.calls = db.calls
      /\ db'.turns = db.turns
      /\ db' = [spans |-> db'.spans, calls |-> db'.calls, turns |-> db'.turns]
  BY DEF PurgeTrace, IInv, Shape
<1>4. Sweeping'
  BY <1>0 DEF IInv, Sweeping
<1>5. Shape'
  BY <1>0, <1>1, Zenon DEF IInv, Shape
<1>6. Ring' /\ Job'
  BY <1>0, RingStays DEF IInv, Job
<1>7. KeepsAnchors
  <2>1. ASSUME NEW e \in Exchanges, NEW p \in db.spans, p.end = e.end, Retained(e)'
        PROVE  p \in db'.spans
    <3>1. p.end \in Nat /\ now <= p.end + Retention
      BY <1>0, <2>1, ExchangeFields DEF Retained
    <3>. QED
      BY <1>0, <1>1, <3>1, TimesAreNatural
  <2>. QED
    BY <1>0, <2>1 DEF KeepsAnchors, Began
<1>8. Calls' /\ Origins' /\ Agreement' /\ Spans' /\ Results'
  BY <1>0, <1>1, <1>7, CaptureWaits
<1>9. Roots'
  BY <1>0, <1>1, RootsStay
<1>. QED
  BY <1>4, <1>5, <1>6, <1>8, <1>9 DEF IInv

------------------------------------------------------------------------------
(* The commit *)

\* The root of a turn covers what starts after it, ends before it and has not failed
\* without it; its output is of the model call that ended last.
LEMMA RootCovers ==
    ASSUME NEW t, NEW root, IsRootOf(t, root), NEW s, IsSpan(s),
           root.start <= s.start, s.end <= root.end, s.error => root.error
    PROVE  Covers(root, s)
<1>1. PICK e \in Exchanges : root.output = ModelId(e) /\ root.end = e.end
  BY DEF IsRootOf
<1>2. \A f \in Exchanges : root.output = ModelId(f) => f = e
  BY <1>1, Identifiers
<1>. QED
  BY <1>1, <1>2 DEF Covers

\* A new root is the root of its turn and covers its exchange.
LEMMA NewRoot ==
    ASSUME NEW e \in Exchanges, NEW t
    PROVE  /\ IsRootOf(t, RootSpan(e, t))
           /\ RootSpan(e, t).start = e.start /\ RootSpan(e, t).end = e.end
           /\ RootSpan(e, t).error = e.failed /\ RootSpan(e, t).output = ModelId(e)
           /\ RootSpan(e, t).id = RootId(t) /\ RootSpan(e, t).trace = TurnTrace(t)
BY ExchangeFields DEF RootSpan, SpanOf, IsRootOf, IsSpan

\* A merged root covers both, and shows the output of the later.
LEMMA MergedFields ==
    ASSUME NEW trace, NEW id, NEW parent, NEW start, NEW end, NEW error \in BOOLEAN, NEW output,
           NEW new, new.error \in BOOLEAN,
           NEW root, root = MergeRoot(SpanOf(trace, id, parent, start, end, error, output), new)
    PROVE  /\ root.start = Min({start, new.start}) /\ root.end = Max({end, new.end})
           /\ root.error = (error \/ new.error)
           /\ root.output = IF new.end >= end THEN new.output ELSE output
           /\ root = SpanOf(trace, id, parent, root.start, root.end, root.error, root.output)
<1>1. /\ root.start = Min({start, new.start}) /\ root.end = Max({end, new.end})
      /\ root.error = (error \/ new.error)
      /\ root.output = IF new.end >= end THEN new.output ELSE output
  BY DEF MergeRoot, SpanOf
<1>2. PICK a, b, c, d : root = SpanOf(trace, id, parent, a, b, c, d)
  BY DEF MergeRoot, SpanOf
<1>3. root.start = a /\ root.end = b /\ root.error = c /\ root.output = d
  BY <1>2 DEF SpanOf
<1>. QED
  BY <1>1, <1>2, <1>3, Zenon

\* The root that e joins covers what it did, and e.
LEMMA MergedRoot ==
    ASSUME NEW e \in Exchanges, NEW t, NEW old, IsRootOf(t, old)
    PROVE  LET root == MergeRoot(old, RootSpan(e, t))
           IN  /\ IsRootOf(t, root)
               /\ root.start <= old.start /\ root.start <= e.start
               /\ old.end <= root.end /\ e.end <= root.end
               /\ old.error => root.error
               /\ e.failed => root.error
<1>. DEFINE new == RootSpan(e, t)
            root == MergeRoot(old, new)
<1>1. /\ old = SpanOf(TurnTrace(t), RootId(t), NULL, old.start, old.end, old.error, old.output)
      /\ old.start \in Nat /\ old.end \in Nat /\ old.error \in BOOLEAN
  BY DEF IsRootOf, IsSpan
<1>2. PICK f \in Exchanges : old.output = ModelId(f) /\ old.end = f.end
  BY DEF IsRootOf
<1>3. /\ new.start = e.start /\ new.end = e.end /\ new.error = e.failed
      /\ new.output = ModelId(e)
      /\ e.start \in Nat /\ e.end \in Nat /\ e.failed \in BOOLEAN
  BY NewRoot, ExchangeFields
<1>. HIDE DEF new
<1>4. /\ root.start = Min({old.start, new.start}) /\ root.end = Max({old.end, new.end})
      /\ root.error = (old.error \/ new.error)
      /\ root.output = IF new.end >= old.end THEN new.output ELSE old.output
      /\ root = SpanOf(TurnTrace(t), RootId(t), NULL, root.start, root.end, root.error, root.output)
  <2>1. PICK a, b, c, d : old = SpanOf(TurnTrace(t), RootId(t), NULL, a, b, c, d)
    BY <1>1
  <2>2. a = old.start /\ b = old.end /\ c = old.error /\ d = old.output
    BY <2>1 DEF SpanOf
  <2>3. c \in BOOLEAN /\ new.error \in BOOLEAN
    BY <1>1, <1>3, <2>2
  <2>4. PICK r : r = root
    OBVIOUS
  <2>5. r = MergeRoot(SpanOf(TurnTrace(t), RootId(t), NULL, a, b, c, d), new)
    BY <2>1, <2>4, Zenon
  <2>. HIDE DEF root
  <2>6. /\ r.start = Min({a, new.start}) /\ r.end = Max({b, new.end})
        /\ r.error = (c \/ new.error)
        /\ r.output = IF new.end >= b THEN new.output ELSE d
        /\ r = SpanOf(TurnTrace(t), RootId(t), NULL, r.start, r.end, r.error, r.output)
    BY <2>3, <2>5, MergedFields
  <2>. QED
    BY <2>2, <2>4, <2>6, Zenon
<1>. HIDE DEF root
<1>5. /\ Min({old.start, new.start}) \in {old.start, new.start}
      /\ Min({old.start, new.start}) <= old.start /\ Min({old.start, new.start}) <= new.start
  <2>1. old.start \in Int /\ new.start \in Int
    BY <1>1, <1>3
  <2>. QED
    BY <2>1, MinMaxOfTwo, Zenon
<1>6. /\ Max({old.end, new.end}) \in {old.end, new.end}
      /\ Max({old.end, new.end}) >= old.end /\ Max({old.end, new.end}) >= new.end
  <2>1. old.end \in Int /\ new.end \in Int
    BY <1>1, <1>3
  <2>. QED
    BY <2>1, MinMaxOfTwo, Zenon
<1>7. root.start \in Nat /\ root.end \in Nat /\ root.error \in BOOLEAN
  BY <1>1, <1>3, <1>4, <1>5, <1>6
<1>8. \E g \in Exchanges : root.output = ModelId(g) /\ root.end = g.end
  <2>1. CASE new.end >= old.end
    <3>1. root.output = ModelId(e) /\ root.end = e.end
      BY <1>1, <1>3, <1>4, <1>6, <2>1
    <3>. QED
      BY <3>1
  <2>2. CASE ~ (new.end >= old.end)
    <3>1. root.output = ModelId(f) /\ root.end = f.end
      BY <1>1, <1>2, <1>3, <1>4, <1>6, <2>2
    <3>. QED
      BY <3>1
  <2>. QED
    BY <2>1, <2>2
<1>9. IsRootOf(t, root)
  BY <1>4, <1>7, <1>8 DEF IsRootOf, IsSpan
<1>10. (old.error => root.error) /\ (e.failed => root.error)
  BY <1>3, <1>4, Zenon
<1>. QED
  BY <1>1, <1>3, <1>4, <1>5, <1>6, <1>9, <1>10 DEF root, new

\* What the commit writes besides calls.
Written ==
    IF stage[job.holder] = "dropped" THEN {}
    ELSE {ChatSpan(job.holder, job.turn)} \cup job.spans
            \cup IF job.turn = NULL THEN {}
                 ELSE {TurnRow(db.turns, job.holder, job.turn, job.created).root}

\* The row of the turn after the commit.
LEMMA RowFacts ==
    ASSUME IInv, job.phase = "tools", job.turn # NULL,
           NEW row, row = TurnRow(db.turns, job.holder, job.turn, job.created)
    PROVE  /\ job.turn \in Turns /\ job.holder \in Exchanges
           /\ row.created \in 1 .. now /\ IsRootOf(job.turn, row.root)
           /\ row.root.start <= job.holder.start /\ job.holder.end <= row.root.end
           /\ job.holder.failed => row.root.error
           /\ job.turn \in DOMAIN db.turns =>
                 /\ IsRootOf(job.turn, db.turns[job.turn].root)
                 /\ row.root.start <= db.turns[job.turn].root.start
                 /\ db.turns[job.turn].root.end <= row.root.end
                 /\ db.turns[job.turn].root.error => row.root.error
<1>0. job.turn \in Turns /\ job.holder \in Exchanges /\ job.created \in 1 .. now
  BY DEF IInv, Job
<1>1. CASE job.turn \in DOMAIN db.turns
  <2>1. PICK old : old = db.turns[job.turn].root
    OBVIOUS
  <2>2. IsRootOf(job.turn, old) /\ db.turns[job.turn].created \in 1 .. now
    BY <1>1, <2>1 DEF IInv, Roots
  <2>3. PICK e, t : e = job.holder /\ t = job.turn
    OBVIOUS
  <2>4. row.root = MergeRoot(old, RootSpan(e, t)) /\ row.created = db.turns[job.turn].created
    BY <1>1, <2>1, <2>3 DEF TurnRow
  <2>5. /\ IsRootOf(t, row.root)
        /\ row.root.start <= old.start /\ row.root.start <= e.start
        /\ old.end <= row.root.end /\ e.end <= row.root.end
        /\ old.error => row.root.error
        /\ e.failed => row.root.error
    BY <1>0, <2>2, <2>3, <2>4, MergedRoot
  <2>. QED
    BY <1>0, <2>1, <2>2, <2>3, <2>4, <2>5
<1>2. CASE job.turn \notin DOMAIN db.turns
  <2>1. row.root = RootSpan(job.holder, job.turn) /\ row.created = job.created
    BY <1>2 DEF TurnRow
  <2>2. /\ job.holder.start \in Nat /\ job.holder.end \in Nat
    BY <1>0, ExchangeFields
  <2>. QED
    BY <1>0, <1>2, <2>1, <2>2, NewRoot
<1>. QED
  BY <1>1, <1>2

\* What a commit does to the tables and to the capture.
LEMMA CommitFacts ==
    ASSUME IInv, Commit
    PROVE  /\ job.phase = "tools" /\ job.results = <<>> /\ job.holder \in Exchanges
           /\ stage[job.holder] \in {"queued", "dropped"}
           /\ UNCHANGED <<now, stage, cache, sweep, expired>>
           /\ job'.phase = "cache" /\ job'.holder = job.holder /\ job'.turn = job.turn
           /\ job'.created = job.created /\ job'.results = <<>> /\ job'.calls = {}
           /\ job'.origins = job.origins /\ job'.spans = {}
           /\ Shape'
           /\ DOMAIN db'.calls = DOMAIN job.origins \cup DOMAIN db.calls
           /\ \A k \in DOMAIN job.origins : db'.calls[k] = job.origins[k]
           /\ \A k \in DOMAIN db.calls \ DOMAIN job.origins : db'.calls[k] = db.calls[k]
           /\ db'.spans = UpsertSpans(db.spans, Written)
           /\ db'.turns = IF stage[job.holder] = "dropped" \/ job.turn = NULL THEN db.turns
                          ELSE With(db.turns, job.turn,
                                    TurnRow(db.turns, job.holder, job.turn, job.created))
<1>0. /\ job.phase = "tools" /\ job.results = <<>> /\ job.calls = {} /\ job.holder \in Exchanges
      /\ stage[job.holder] \in {"queued", "dropped"}
      /\ UNCHANGED <<now, stage, cache, sweep, expired>>
  BY DEF Commit, IInv, Job
<1>1. /\ job'.phase = "cache" /\ job'.holder = job.holder /\ job'.turn = job.turn
      /\ job'.created = job.created /\ job'.results = <<>> /\ job'.calls = {}
      /\ job'.origins = job.origins /\ job'.spans = {}
      /\ job' = [phase |-> job'.phase, holder |-> job'.holder, turn |-> job'.turn,
                 created |-> job'.created, results |-> job'.results, calls |-> job'.calls,
                 origins |-> job'.origins, spans |-> job'.spans]
  BY <1>0 DEF Commit, IInv, Shape
<1>2. /\ db'.calls = UpsertCalls(db.calls, job.origins)
      /\ db'.spans = UpsertSpans(db.spans, Written)
      /\ db'.turns = IF stage[job.holder] = "dropped" \/ job.turn = NULL THEN db.turns
                     ELSE With(db.turns, job.turn,
                               TurnRow(db.turns, job.holder, job.turn, job.created))
      /\ db' = [spans |-> db'.spans, calls |-> db'.calls, turns |-> db'.turns]
  <2>1. CASE stage[job.holder] = "dropped"
    <3>1. db' = [db EXCEPT !.calls = UpsertCalls(@, job.origins)]
      BY <2>1 DEF Commit, DroppedStored
    <3>2. db.spans = UpsertSpans(db.spans, Written)
      BY <2>1 DEF Written, UpsertSpans
    <3>. QED
      BY <2>1, <3>1, <3>2 DEF IInv, Shape
  <2>2. CASE stage[job.holder] # "dropped"
    <3>1. db' = Stored(job.holder)
      BY <2>2 DEF Commit
    <3>2. db'.calls = UpsertCalls(db.calls, job.origins)
      BY <3>1 DEF Stored
    <3>3. db'.turns = IF job.turn = NULL THEN db.turns
                      ELSE With(db.turns, job.turn,
                                TurnRow(db.turns, job.holder, job.turn, job.created))
      BY <3>1 DEF Stored
    <3>4. db'.spans = UpsertSpans(db.spans,
                          {ChatSpan(job.holder, job.turn)} \cup job.spans
                              \cup IF job.turn = NULL THEN {} ELSE {db'.turns[job.turn].root})
      BY <3>1 DEF Stored
    <3>5. job.turn # NULL =>
             db'.turns[job.turn] = TurnRow(db.turns, job.holder, job.turn, job.created)
      BY <3>3 DEF With
    <3>6. db'.spans = UpsertSpans(db.spans, Written)
      BY <2>2, <3>4, <3>5 DEF Written
    <3>7. db' = [spans |-> db'.spans, calls |-> db'.calls, turns |-> db'.turns]
      BY <3>1 DEF Stored
    <3>. QED
      BY <2>2, <3>2, <3>3, <3>6, <3>7
  <2>. QED
    BY <2>1, <2>2
<1>3. Shape'
  BY <1>0, <1>1, <1>2, Zenon DEF IInv, Shape
<1>4. \A k \in DOMAIN job.origins : k \in DOMAIN db.calls =>
          MergeCall(db.calls[k], job.origins[k]) = job.origins[k]
  BY <1>0, MergeSuccessor DEF IInv, Origins, Calls, Settled, IsOrigins
<1>5. /\ DOMAIN db'.calls = DOMAIN job.origins \cup DOMAIN db.calls
      /\ \A k \in DOMAIN job.origins : db'.calls[k] = job.origins[k]
      /\ \A k \in DOMAIN db.calls \ DOMAIN job.origins : db'.calls[k] = db.calls[k]
  BY <1>2, <1>4 DEF UpsertCalls, Overlay
<1>. QED
  BY <1>0, <1>1, <1>2, <1>3, <1>5

\* A span that the commit writes is the model call, a result, or the root of the turn.
LEMMA WrittenFacts ==
    ASSUME IInv, Commit, NEW s \in Written
    PROVE  /\ stage[job.holder] = "queued" /\ IsSpan(s)
           /\ \/ /\ s.id = ModelId(job.holder) /\ s.end = job.holder.end /\ s.output = NULL
                 /\ s.trace = ChatTrace(job.holder, job.turn)
                 /\ s.start = job.holder.start /\ s.error = job.holder.failed
                 /\ s.parent = IF job.turn = NULL THEN NULL ELSE RootId(job.turn)
              \/ s \in job.spans
              \/ /\ job.turn # NULL /\ job.turn \in Turns /\ IsRootOf(job.turn, s)
                 /\ s = TurnRow(db.turns, job.holder, job.turn, job.created).root
<1>0. /\ job.phase = "tools" /\ job.holder \in Exchanges
      /\ stage[job.holder] \in {"queued", "dropped"}
  BY CommitFacts
<1>1. stage[job.holder] = "queued"
  BY <1>0 DEF Written
<1>2. CASE s = ChatSpan(job.holder, job.turn)
  <2>1. /\ s.id = ModelId(job.holder) /\ s.end = job.holder.end /\ s.output = NULL
        /\ s.trace = ChatTrace(job.holder, job.turn)
        /\ s.start = job.holder.start /\ s.error = job.holder.failed
        /\ s.parent = IF job.turn = NULL THEN NULL ELSE RootId(job.turn)
    BY <1>2 DEF ChatSpan, SpanOf
  <2>. QED
    BY <1>0, <1>1, <2>1, ExchangeFields DEF IsSpan
<1>3. CASE s \in job.spans
  BY <1>1, <1>3 DEF IInv, Spans
<1>4. CASE /\ job.turn # NULL
           /\ s = TurnRow(db.turns, job.holder, job.turn, job.created).root
  <2>1. job.turn \in Turns /\ IsRootOf(job.turn, s)
    BY <1>0, <1>4, RowFacts
  <2>. QED
    BY <1>1, <1>4, <2>1 DEF IsRootOf
<1>. QED
  BY <1>1, <1>2, <1>3, <1>4 DEF Written

\* The fields of a root.
LEMMA RootFields ==
    ASSUME NEW t, NEW root, IsRootOf(t, root)
    PROVE  /\ root.id = RootId(t) /\ root.trace = TurnTrace(t) /\ root.parent = NULL
           /\ IsSpan(root)
BY DEF IsRootOf, SpanOf

\* A commit deletes no span.
LEMMA CommitKeepsAnchors == ASSUME IInv, Commit PROVE KeepsAnchors
<1>0. /\ job.phase = "tools" /\ UNCHANGED <<now, stage>> /\ job.holder \in Exchanges
      /\ db'.spans = UpsertSpans(db.spans, Written)
  BY CommitFacts
<1>1. now' \in Nat /\ now <= now'
  BY <1>0, TimesAreNatural DEF IInv, Shape
<1>2. ASSUME NEW e \in Exchanges, NEW p \in db.spans, p.id = ModelId(e), p.end = e.end
      PROVE  \E q \in db'.spans : q.id = p.id /\ q.trace = p.trace /\ q.end = p.end
  <2>1. CASE p \in db'.spans
    BY <2>1
  <2>2. CASE p \notin db'.spans
    <3>1. PICK q \in Written : SameRow(p, q)
      BY <1>0, <2>2 DEF UpsertSpans
    <3>2. q.id = ModelId(e) /\ q.trace = p.trace /\ q \in db'.spans
      BY <1>0, <1>2, <3>1 DEF SameRow, UpsertSpans
    <3>3. q \notin job.spans
      BY <3>2, Identifiers DEF IInv, Spans, IsTool
    <3>4. q.id = ModelId(job.holder) /\ q.end = job.holder.end
      BY <3>2, <3>3, WrittenFacts, RootFields, Identifiers
    <3>5. e = job.holder
      BY <1>0, <3>2, <3>4, Identifiers
    <3>. QED
      BY <1>2, <3>2, <3>4, <3>5
  <2>. QED
    BY <2>1, <2>2
<1>. QED
  BY <1>0, <1>1, <1>2 DEF KeepsAnchors, Began

\* With the commit, the calls that the holder has issued have a parent.
LEMMA CommitAnchors ==
    ASSUME IInv, Commit, NEW k \in DOMAIN job.origins
    PROVE  Anchored(job.origins[k].trace, job.origins[k].span)'
<1>0. /\ job'.phase = "cache" /\ job'.holder = job.holder /\ job.holder \in Exchanges
      /\ UNCHANGED <<now, stage>> /\ job'.origins = job.origins
      /\ stage[job.holder] \in {"queued", "dropped"}
      /\ db'.spans = UpsertSpans(db.spans, Written)
  BY CommitFacts
<1>1. PICK o : o = job.origins[k]
  OBVIOUS
<1>2. Anchored(o.trace, o.span)'
  <2>1. CASE Own(k)
    <3>1. o.span = ModelId(job.holder) /\ o.trace = ChatTrace(job.holder, job.turn)
      BY <1>1, <2>1 DEF Own
    <3>2. \A e \in Exchanges : o.span = ModelId(e) => e = job.holder
      BY <1>0, <3>1, Identifiers
    <3>3. Began(job.holder)'
      BY <1>0 DEF Began
    <3>4. stage[job.holder] # "dropped" =>
              \E p \in db'.spans : p.id = o.span /\ p.trace = o.trace /\ p.end = job.holder.end
      <4>1. SUFFICES ASSUME stage[job.holder] # "dropped"
                     PROVE  ChatSpan(job.holder, job.turn) \in db'.spans
        BY <3>1 DEF ChatSpan, SpanOf
      <4>. QED
        BY <1>0, <4>1 DEF Written, UpsertSpans
    <3>5. ASSUME NEW e \in Exchanges, o.span = ModelId(e)
          PROVE  /\ Began(e)'
                 /\ stage'[e] \notin {"dropped", "skipped"} =>
                       \E p \in db'.spans : p.id = o.span /\ p.trace = o.trace /\ p.end = e.end
      <4>1. e = job.holder
        BY <3>2, <3>5
      <4>. QED
        BY <1>0, <3>3, <3>4, <4>1
    <3>. QED
      BY <3>5 DEF Anchored
  <2>2. CASE ~ Own(k)
    BY <1>1, <2>2, CommitKeepsAnchors, AnchoredStays DEF IInv, Origins
  <2>. QED
    BY <2>1, <2>2
<1>. QED
  BY <1>0, <1>1, <1>2

\* A commit adds spans whose parents it adds or finds.
LEMMA CommitSpans == ASSUME IInv, Commit PROVE Spans'
<1>0. /\ job'.spans = {} /\ db'.spans = UpsertSpans(db.spans, Written)
      /\ job.holder \in Exchanges
  BY CommitFacts
<1>1. \A trace, parent : Anchored(trace, parent) => Anchored(trace, parent)'
  BY CommitKeepsAnchors, AnchoredStays DEF IInv
<1>2. ASSUME NEW s \in Written
      PROVE  /\ IsSpan(s) /\ Anchored(s.trace, s.parent)'
             /\ (IsRoot(s) \/ ((IsTool(s) \/ IsModel(s)) /\ s.output = NULL))
  <2>1. CASE s \in job.spans
    BY <1>1, <2>1 DEF IInv, Spans
  <2>2. CASE /\ s.id = ModelId(job.holder) /\ s.end = job.holder.end /\ s.output = NULL
             /\ s.parent = IF job.turn = NULL THEN NULL ELSE RootId(job.turn)
    <3>1. \A e \in Exchanges : s.parent # ModelId(e)
      BY <2>2, Identifiers
    <3>2. Anchored(s.trace, s.parent)'
      BY <3>1 DEF Anchored
    <3>3. IsModel(s)
      <4>1. job.turn \in Turns \cup {NULL}
        BY CommitFacts DEF IInv, Job
      <4>. QED
        BY <1>0, <2>2, <4>1 DEF IsModel
    <3>. QED
      BY <2>2, <3>2, <3>3, WrittenFacts
  <2>3. CASE job.turn \in Turns /\ IsRootOf(job.turn, s)
    <3>1. s.id = RootId(job.turn) /\ s.trace = TurnTrace(job.turn) /\ s.parent = NULL
      BY <2>3, RootFields
    <3>2. \A e \in Exchanges : s.parent # ModelId(e)
      BY <3>1, Identifiers
    <3>3. Anchored(s.trace, s.parent)'
      BY <3>2 DEF Anchored
    <3>. QED
      BY <2>3, <3>1, <3>3, WrittenFacts DEF IsRoot
  <2>. QED
    BY <2>1, <2>2, <2>3, WrittenFacts
<1>3. \A s \in db'.spans : s \in db.spans \/ s \in Written
  BY <1>0 DEF UpsertSpans
<1>4. ASSUME NEW s \in db'.spans
      PROVE  /\ IsSpan(s) /\ Anchored(s.trace, s.parent)'
             /\ (IsRoot(s) \/ ((IsTool(s) \/ IsModel(s)) /\ s.output = NULL))
  BY <1>1, <1>2, <1>3 DEF IInv, Spans
<1>5. ASSUME NEW r \in Written, NEW s \in Written, SameRow(r, s) PROVE r = s
  <2>1. r.id = s.id
    BY <1>5 DEF SameRow
  <2>2. CASE r \in job.spans
    <3>1. PICK k \in Keys : r.id = ToolId(k)
      BY <2>2 DEF IInv, Spans, IsTool
    <3>2. s.id # ModelId(job.holder) /\ s.id # RootId(job.turn)
      BY <1>0, <2>1, <3>1, Identifiers
    <3>3. s \in job.spans
      BY <3>2, WrittenFacts, RootFields
    <3>. QED
      BY <2>1, <2>2, <3>3 DEF IInv, Spans
  <2>3. CASE r.id = ModelId(job.holder)
    <3>1. \A q \in Written : q.id = ModelId(job.holder) => q = ChatSpan(job.holder, job.turn)
      <4>. SUFFICES ASSUME NEW q \in Written, q.id = ModelId(job.holder)
                    PROVE  q = ChatSpan(job.holder, job.turn)
        OBVIOUS
      <4>1. q \notin job.spans
        BY <1>0, Identifiers DEF IInv, Spans, IsTool
      <4>2. ~ (job.turn # NULL
                 /\ q = TurnRow(db.turns, job.holder, job.turn, job.created).root)
        BY <1>0, CommitFacts, RowFacts, RootFields, Identifiers
      <4>. QED
        BY <4>1, <4>2 DEF Written
    <3>. QED
      BY <2>1, <2>3, <3>1
  <2>4. CASE r = TurnRow(db.turns, job.holder, job.turn, job.created).root
             /\ IsRootOf(job.turn, r)
    <3>1. r.id = RootId(job.turn)
      BY <2>4, RootFields
    <3>2. s \notin job.spans
      BY <2>1, <3>1, Identifiers DEF IInv, Spans, IsTool
    <3>. QED
      BY <1>0, <2>1, <2>4, <3>1, <3>2, WrittenFacts, Identifiers
  <2>. QED
    BY <2>2, <2>3, <2>4, WrittenFacts
<1>6. ASSUME NEW r \in db'.spans, NEW s \in db'.spans, SameRow(r, s) PROVE r = s
  <2>1. SameRow(s, r)
    BY <1>6 DEF SameRow
  <2>. QED
    BY <1>0, <1>5, <1>6, <2>1 DEF UpsertSpans, IInv, Spans
<1>7. \A s \in db'.spans : /\ IsSpan(s)' /\ Anchored(s.trace, s.parent)'
                           /\ (IsRoot(s) \/ ((IsTool(s) \/ IsModel(s)) /\ s.output = NULL))'
  BY <1>4 DEF IsSpan, IsRoot, IsTool, IsModel
<1>8. \A r, s \in db'.spans : SameRow(r, s) => r = s
  BY <1>6
<1>. QED
  BY <1>0, <1>7, <1>8 DEF Spans, SameRow

\* A commit gives a tool span the first result of its call.
LEMMA CommitResults == ASSUME IInv, Commit PROVE Results'
<1>0. /\ job.phase = "tools" /\ job.holder \in Exchanges
      /\ job'.phase = "cache" /\ job'.spans = {} /\ job'.origins = job.origins /\ cache' = cache
      /\ DOMAIN db'.calls = DOMAIN job.origins \cup DOMAIN db.calls
      /\ \A k \in DOMAIN job.origins : db'.calls[k] = job.origins[k]
      /\ \A k \in DOMAIN db.calls \ DOMAIN job.origins : db'.calls[k] = db.calls[k]
      /\ db'.spans = UpsertSpans(db.spans, Written)
  BY CommitFacts
<1>1. ASSUME NEW k, Found(k)
      PROVE  k \in Keys /\ \A s \in db'.spans : Shows(s, k, Lookup(k))
  <2>1. k \in Keys
    BY <1>1, LookupFacts
  <2>2. \A s \in db.spans \cup job.spans : Shows(s, k, Lookup(k))
    BY <1>1, <2>1 DEF IInv, Results
  <2>3. ASSUME NEW s \in Written, s \notin job.spans PROVE s.id # ToolId(k)
    BY <1>0, <2>3, WrittenFacts, RootFields, Identifiers
  <2>. QED
    BY <1>0, <2>1, <2>2, <2>3 DEF UpsertSpans, Shows
<1>2. ASSUME NEW k \in DOMAIN db'.calls PROVE Found(k) /\ Lookup(k) = db'.calls[k]
  <2>1. k \in DOMAIN cache.origin /\ k \in DOMAIN db.calls => cache.origin[k] = db.calls[k]
    BY <1>0, NoRowsIsEmpty DEF IInv, Agreement, Publishing, SameAsRow
  <2>. QED
    BY <1>0, <2>1 DEF Found, Lookup
<1>3. ASSUME NEW k \in DOMAIN cache.origin, k \notin DOMAIN job.origins
      PROVE  Found(k) /\ Lookup(k) = cache.origin[k]
  BY <1>3 DEF Found, Lookup
<1>4. /\ \A k : Found(k)' <=> Found(k)
      /\ \A k : Found(k) => Lookup(k)' = Lookup(k)
  BY <1>0 DEF Found, Lookup
<1>5. \A s \in db'.spans : \A k \in DOMAIN db'.calls : Shows(s, k, db'.calls[k])
  BY <1>1, <1>2
<1>6. Publishing' = job.origins
  BY <1>0 DEF Publishing
<1>7. \A s \in db'.spans : \A k \in DOMAIN cache.origin :
          k \in DOMAIN Publishing' \/ Shows(s, k, cache.origin[k])
  BY <1>1, <1>3, <1>6
<1>8. \A s \in db'.spans : \A k \in Keys : Found(k)' => Shows(s, k, Lookup(k)')
  BY <1>1, <1>4
<1>. QED
  BY <1>0, <1>5, <1>7, <1>8 DEF Results, Shows

\* A commit stretches the root of the turn over the exchange.
LEMMA CommitRoots == ASSUME IInv, Commit PROVE Roots'
<1>0. /\ job.phase = "tools" /\ UNCHANGED <<now, stage, expired>> /\ job.holder \in Exchanges
      /\ db'.spans = UpsertSpans(db.spans, Written)
      /\ db'.turns = IF stage[job.holder] = "dropped" \/ job.turn = NULL THEN db.turns
                     ELSE With(db.turns, job.turn,
                               TurnRow(db.turns, job.holder, job.turn, job.created))
  BY CommitFacts
<1>1. \A s \in db.spans : IsSpan(s)
  BY DEF IInv, Spans
<1>2. CASE stage[job.holder] = "dropped" \/ job.turn = NULL
  <2>1. db'.turns = db.turns
    BY <1>0, <1>2
  <2>2. ASSUME NEW s \in Written, NEW t \in Turns PROVE s.id # RootId(t) /\ s.parent # RootId(t)
    <3>1. s \in job.spans \/ (s.id = ModelId(job.holder) /\ s.parent = NULL)
      BY <1>2, WrittenFacts
    <3>2. s \in job.spans => \E k \in Keys : s.id = ToolId(k)
      BY DEF IInv, Spans, IsTool
    <3>3. s \in job.spans => s.parent = NULL \/ \E e \in Exchanges : s.parent = ModelId(e)
      BY DEF IInv, Spans, IsTool
    <3>. QED
      BY <1>0, <3>1, <3>2, <3>3, Identifiers
  <2>3. \A s \in db'.spans : s \in db.spans \/ s \in Written
    BY <1>0 DEF UpsertSpans
  <2>4. ASSUME NEW t \in Turns \ expired, NEW s \in db'.spans
        PROVE  /\ s.id = RootId(t) => t \in DOMAIN db.turns /\ s = db.turns[t].root
               /\ s.parent = RootId(t) => t \in DOMAIN db.turns /\ Covers(db.turns[t].root, s)
    BY <2>2, <2>3 DEF IInv, Roots
  <2>5. /\ DOMAIN db.turns \subseteq Turns
        /\ \A t \in DOMAIN db.turns :
              db.turns[t].created \in 1 .. now /\ IsRootOf(t, db.turns[t].root)
    BY DEF IInv, Roots
  <2>. QED
    BY <1>0, <2>1, <2>4, <2>5 DEF Roots, IsRootOf, IsSpan, Covers
<1>3. CASE ~ (stage[job.holder] = "dropped" \/ job.turn = NULL)
  <2>1. PICK row : row = TurnRow(db.turns, job.holder, job.turn, job.created)
    OBVIOUS
  <2>2. PICK turn : turn = job.turn
    OBVIOUS
  <2>3. PICK e : e = job.holder
    OBVIOUS
  <2>4. /\ turn \in Turns /\ e \in Exchanges
        /\ row.created \in 1 .. now /\ IsRootOf(turn, row.root)
        /\ row.root.start <= e.start /\ e.end <= row.root.end
        /\ e.failed => row.root.error
        /\ turn \in DOMAIN db.turns =>
              /\ IsRootOf(turn, db.turns[turn].root)
              /\ row.root.start <= db.turns[turn].root.start
              /\ db.turns[turn].root.end <= row.root.end
              /\ db.turns[turn].root.error => row.root.error
    BY <1>0, <1>3, <2>1, <2>2, <2>3, RowFacts
  <2>5. /\ DOMAIN db'.turns = DOMAIN db.turns \cup {turn} /\ db'.turns[turn] = row
        /\ \A t \in DOMAIN db'.turns : t # turn => db'.turns[t] = db.turns[t]
    BY <1>0, <1>3, <2>1, <2>2 DEF With
  <2>6. row.root \in Written
    BY <1>3, <2>1 DEF Written
  <2>7. ASSUME NEW s \in db.spans, turn \in DOMAIN db.turns, Covers(db.turns[turn].root, s)
        PROVE  Covers(row.root, s)
    <3>1. PICK old : old = db.turns[turn].root
      OBVIOUS
    <3>2. IsSpan(old) /\ IsSpan(row.root) /\ IsSpan(s)
      BY <1>1, <2>4, <2>7, <3>1, RootFields
    <3>3. old.start <= s.start /\ s.end <= old.end /\ (s.error => old.error)
      BY <2>7, <3>1 DEF Covers
    <3>4. /\ row.root.start <= old.start /\ old.end <= row.root.end
          /\ old.error => row.root.error
      BY <2>4, <2>7, <3>1
    <3>5. row.root.start <= s.start /\ s.end <= row.root.end /\ (s.error => row.root.error)
      BY <3>2, <3>3, <3>4 DEF IsSpan
    <3>. QED
      BY <2>4, <3>2, <3>5, RootCovers
  <2>8. ASSUME NEW s \in Written, NEW t \in Turns
        PROVE  /\ s.id = RootId(t) => t = turn /\ s = row.root
               /\ s.parent = RootId(t) => t = turn /\ Covers(row.root, s)
    <3>1. CASE s \in job.spans
      <4>1. IsTool(s)
        BY <3>1 DEF IInv, Spans
      <4>2. (\E k \in Keys : s.id = ToolId(k))
               /\ (s.parent = NULL \/ \E f \in Exchanges : s.parent = ModelId(f))
        BY <4>1 DEF IsTool
      <4>. QED
        BY <4>2, Identifiers
    <3>2. CASE s = row.root
      <4>1. s.id = RootId(turn) /\ s.parent = NULL
        BY <2>4, <3>2, RootFields
      <4>. QED
        BY <3>2, <4>1, Identifiers
    <3>3. CASE /\ s.id = ModelId(e) /\ s.end = e.end
               /\ s.start = e.start /\ s.error = e.failed /\ s.parent = RootId(turn)
      <4>1. IsSpan(s)
        BY WrittenFacts
      <4>2. Covers(row.root, s)
        BY <2>4, <3>3, <4>1, RootCovers
      <4>. QED
        BY <2>4, <3>3, <4>2, Identifiers
    <3>. QED
      BY <1>3, <2>1, <2>2, <2>3, <3>1, <3>2, <3>3, WrittenFacts
  <2>9. ASSUME NEW s \in db'.spans, s \notin Written
        PROVE  /\ s \in db.spans /\ ~ SameRow(s, row.root)
    BY <1>0, <2>6, <2>9 DEF UpsertSpans
  <2>10. ASSUME NEW t \in Turns \ expired, NEW s \in db'.spans
         PROVE  /\ s.id = RootId(t) => t \in DOMAIN db'.turns /\ s = db'.turns[t].root
                /\ s.parent = RootId(t) => t \in DOMAIN db'.turns /\ Covers(db'.turns[t].root, s)
    <3>1. CASE s \in Written
      BY <2>5, <2>8, <3>1
    <3>2. CASE s \notin Written
      <4>1. /\ s \in db.spans /\ ~ SameRow(s, row.root)
            /\ s.id = RootId(t) => t \in DOMAIN db.turns /\ s = db.turns[t].root
            /\ s.parent = RootId(t) => t \in DOMAIN db.turns /\ Covers(db.turns[t].root, s)
        BY <2>9, <3>2 DEF IInv, Roots
      <4>2. CASE t = turn
        <5>1. s.id # RootId(t)
          <6>. SUFFICES ASSUME s.id = RootId(t) PROVE FALSE
            OBVIOUS
          <6>1. s = db.turns[turn].root /\ IsRootOf(turn, db.turns[turn].root)
            BY <2>4, <4>1, <4>2
          <6>. QED
            BY <2>4, <4>1, <6>1, RootFields DEF SameRow
        <5>2. s.parent = RootId(t) => Covers(row.root, s)
          BY <2>7, <4>1, <4>2
        <5>. QED
          BY <2>5, <4>2, <5>1, <5>2
      <4>3. CASE t # turn
        BY <2>5, <4>1, <4>3
      <4>. QED
        BY <4>2, <4>3
    <3>. QED
      BY <3>1, <3>2
  <2>11. DOMAIN db'.turns \subseteq Turns
    BY <2>4, <2>5 DEF IInv, Roots
  <2>12. ASSUME NEW t \in DOMAIN db'.turns
         PROVE  db'.turns[t].created \in 1 .. now /\ IsRootOf(t, db'.turns[t].root)
    <3>1. CASE t = turn
      BY <2>4, <2>5, <3>1
    <3>2. CASE t # turn
      BY <2>5, <3>2 DEF IInv, Roots
    <3>. QED
      BY <3>1, <3>2
  <2>. QED
    BY <1>0, <2>10, <2>11, <2>12 DEF Roots, IsRootOf, IsSpan, Covers
<1>. QED
  BY <1>2, <1>3

\* A commit keeps the invariant.
LEMMA CommitStep == ASSUME IInv, Commit PROVE IInv'
<1>0. /\ job.phase = "tools" /\ job.holder \in Exchanges
      /\ stage[job.holder] \in {"queued", "dropped"}
      /\ UNCHANGED <<now, stage, cache, sweep, expired>>
      /\ job'.phase = "cache" /\ job'.holder = job.holder /\ job'.turn = job.turn
      /\ job'.created = job.created /\ job'.results = <<>> /\ job'.calls = {}
      /\ job'.origins = job.origins /\ job'.spans = {} /\ Shape'
      /\ DOMAIN db'.calls = DOMAIN job.origins \cup DOMAIN db.calls
      /\ \A k \in DOMAIN job.origins : db'.calls[k] = job.origins[k]
      /\ \A k \in DOMAIN db.calls \ DOMAIN job.origins : db'.calls[k] = db.calls[k]
  BY CommitFacts
<1>1. Ring' /\ Sweeping'
  BY <1>0, RingStays DEF IInv, Sweeping
<1>2. Job'
  BY <1>0 DEF IInv, Job, IsInjective
<1>3. \A k \in DOMAIN job.origins :
          /\ k \in Keys /\ job.origins[k] \in Origin /\ Issued(k, job.origins[k])
          /\ job.origins[k].end \in 1 .. job.origins[k].created
          /\ job.origins[k].created \in 1 .. now
  BY DEF IInv, Origins, IsOrigins
<1>4. Calls'
  <2>1. Settled(cache.origin)'
    BY <1>0, CommitKeepsAnchors, SettledStays DEF IInv, Calls
  <2>2. IsOrigins(db.calls)'
    BY <1>0, <1>3 DEF IsOrigins, IInv, Calls, Settled
  <2>3. ASSUME NEW k \in DOMAIN db'.calls
        PROVE  Issued(k, db'.calls[k]) /\ Anchored(db.calls[k].trace, db.calls[k].span)'
    <3>1. CASE k \in DOMAIN job.origins
      <4>1. Anchored(job.origins[k].trace, job.origins[k].span)'
        BY <3>1, CommitAnchors
      <4>. QED
        BY <1>0, <1>3, <3>1, <4>1
    <3>2. CASE k \notin DOMAIN job.origins
      <4>1. PICK o : o = db.calls[k]
        OBVIOUS
      <4>2. Issued(k, o) /\ Anchored(o.trace, o.span) /\ db'.calls[k] = o
        BY <1>0, <3>2, <4>1 DEF IInv, Calls, Settled
      <4>3. Anchored(o.trace, o.span)'
        BY <4>2, CommitKeepsAnchors, AnchoredStays DEF IInv
      <4>. QED
        BY <4>2, <4>3
    <3>. QED
      BY <3>1, <3>2
  <2>. QED
    BY <2>1, <2>2, <2>3 DEF Calls, Settled, Issued
<1>5. Origins'
  <2>1. IsOrigins(job.origins)'
    BY <1>0, <1>3 DEF IsOrigins
  <2>2. \A k \in DOMAIN job'.origins : Issued(k, job.origins[k])'
    BY <1>0, <1>3 DEF Issued
  <2>3. \A k \in DOMAIN job'.origins : Anchored(job.origins[k].trace, job.origins[k].span)'
    BY <1>0, CommitAnchors
  <2>. QED
    BY <1>0, <2>1, <2>2, <2>3 DEF Origins
<1>6. Agreement'
  <2>1. Publishing' = job.origins
    BY <1>0 DEF Publishing
  <2>2. \A k \in DOMAIN cache.origin : SameAsRow(k, cache.origin[k])
    BY <1>0, NoRowsIsEmpty DEF IInv, Agreement, Publishing
  <2>. QED
    BY <1>0, <2>1, <2>2 DEF Agreement, SameAsRow
<1>7. Spans' /\ Results' /\ Roots'
  BY CommitSpans, CommitResults, CommitRoots
<1>. QED
  BY <1>0, <1>1, <1>2, <1>4, <1>5, <1>6, <1>7 DEF IInv

------------------------------------------------------------------------------
(* The theorems *)

\* Every step keeps the invariant.
LEMMA StepIInv == IInv /\ [Next]_vars => IInv'
<1>. SUFFICES ASSUME IInv, [Next]_vars PROVE IInv'
  OBVIOUS
<1>1. CASE UNCHANGED vars
  <2>1. Shape' /\ Job' /\ Sweeping'
    BY <1>1 DEF vars, IInv, Shape, Job, Sweeping
  <2>2. KeepsAnchors
    BY <1>1, TimesAreNatural DEF vars, IInv, Shape, KeepsAnchors, Began, Retained
  <2>. QED
    BY <1>1, <2>1, <2>2, OnlyControl DEF vars
<1>2. ASSUME NEW e \in Exchanges, CaptureAsync(e) \/ GiveUp(e) \/ Lock(e) \/ Release(e)
      PROVE  IInv'
  BY <1>2, CaptureAsyncStep, GiveUpStep, LockStep, ReleaseStep
<1>3. CASE JobStep
  BY <1>3, FindTurnStep, CorrelateResultStep, IssueCallStep, CommitStep, PublishCallStep,
     UnlockStep DEF JobStep
<1>4. CASE Abandon
  BY <1>4, AbandonStep
<1>5. CASE BeginSweep \/ EndSweep
  BY <1>5, SweepEdgeStep
<1>6. CASE PurgeCalls
  BY <1>6, PurgeCallsStep
<1>7. CASE PurgeTurns
  BY <1>7, PurgeTurnsStep
<1>8. ASSUME NEW t, PurgeTrace(t) PROVE IInv'
  BY <1>8, PurgeTraceStep
<1>9. CASE Crash
  BY <1>9, CrashStep
<1>10. CASE Tick
  BY <1>10, TickStep
<1>. QED
  BY <1>1, <1>2, <1>3, <1>4, <1>5, <1>6, <1>7, <1>8, <1>9, <1>10 DEF Next

\* What every state of the proxy's capture has.
THEOREM AlwaysIInv == Spec => []IInv
<1>1. Init => IInv
  BY InitIInv DEF Init
<1>. QED
  BY <1>1, StepIInv, PTL DEF Spec

\* The records of the state keep their shapes, origins come from exchanges, the order
\* of the cache lists each cached call once (relay.go:551-569), and no two stored
\* spans share a row.
THEOREM SpecTypeOK == Spec => []TypeOK
<1>1. ASSUME IInv PROVE TypeOK
  <2>1. /\ now \in 0 .. MaxTime /\ stage \in [Exchanges -> Stages]
        /\ job.phase \in {"free", "turn", "tools", "cache"}
        /\ job.phase # "free" => stage[job.holder] \in {"queued", "dropped"}
        /\ sweep.phase \in {"idle", "calls", "turns", "traces"} /\ sweep.cutoff \in 0 .. MaxTime
    BY <1>1 DEF IInv, Shape, Job, Sweeping
  <2>2. job.phase = "free" <=> job = NoJob
    BY <1>1 DEF IInv, Job, NoJob
  <2>3. job.calls \subseteq Keys
    BY <1>1, ExchangeFields DEF IInv, Job
  <2>4. IsOrigins(job.origins) /\ IsOrigins(cache.origin) /\ IsOrigins(db.calls) /\ RingMatchesCache
    BY <1>1 DEF IInv, Origins, Calls, Settled, Ring
  <2>5. /\ \A r, s \in db.spans : SameRow(r, s) => r = s
        /\ DOMAIN db.turns \subseteq Turns
        /\ \A t \in DOMAIN db.turns : db.turns[t].created \in 1 .. now
    BY <1>1 DEF IInv, Spans, Roots
  <2>. QED
    BY <2>1, <2>2, <2>3, <2>4, <2>5 DEF TypeOK
<1>. QED
  BY <1>1, AlwaysIInv, PTL

\* A stored tool span lasts from its call to the first result that the row of the call
\* records, however often the result was sent again (relay.go:484-549 toolSpansLocked;
\* proxy_tool_calls.go:32-60, whose upsert keeps the first result).
THEOREM SpecSpansShowFirstResult == Spec => []SpansShowFirstResult
<1>1. IInv => SpansShowFirstResult
  BY DEF IInv, Results, Shows, SpansShowFirstResult
<1>. QED
  BY <1>1, AlwaysIInv, PTL

\* A stored span that names a model call as its parent is in the trace of that call,
\* with the call, unless the exchange was dropped or is past retention.
THEOREM SpecLinkedSpansHaveParents == Spec => []LinkedSpansHaveParents
<1>1. IInv => LinkedSpansHaveParents
  BY DEF IInv, Spans, Anchored, LinkedSpansHaveParents
<1>. QED
  BY <1>1, AlwaysIInv, PTL

\* Until the row of a turn is purged, the stored root of the turn covers every model
\* call stored under it, in whatever order the captures committed (proxy_turns.go:41-72).
THEOREM SpecRootCoversTurn == Spec => []RootCoversTurn
<1>1. ASSUME IInv PROVE RootCoversTurn
  <2>. SUFFICES ASSUME NEW r \in db.spans, NEW s \in db.spans,
                       r.id = s.parent, r.output # NULL, \A turn \in expired : r.id # RootId(turn)
                PROVE  Covers(r, s)
    BY DEF RootCoversTurn
  <2>1. IsRoot(r)
    BY <1>1 DEF IInv, Spans
  <2>2. PICK t \in Turns : r.id = RootId(t)
    BY <2>1 DEF IsRoot
  <2>3. t \in Turns \ expired
    BY <2>2
  <2>. QED
    BY <1>1, <2>2, <2>3 DEF IInv, Roots
<1>. QED
  BY <1>1, AlwaysIInv, PTL

\* No commit adds an orphan span for a call that the cache or the table still knows:
\* neither eviction nor a restart loses a link that is retained (relay.go:487-512).
THEOREM SpecNoOrphanWhileKnown == Spec => NoOrphanWhileKnown
<1>. DEFINE Linked == \A k \in DOMAIN db.calls \cup DOMAIN cache.origin :
                         \A s \in db'.spans \ db.spans : s.id = ToolId(k) => s.parent # NULL
<1>1. ASSUME IInv, [Next]_vars PROVE Linked
  <2>1. CASE Commit
    <3>. SUFFICES ASSUME NEW k \in DOMAIN db.calls \cup DOMAIN cache.origin,
                         NEW s \in Written, s.id = ToolId(k)
                  PROVE  s.parent # NULL
      BY <1>1, <2>1, CommitFacts DEF UpsertSpans
    <3>1. job.holder \in Exchanges
      BY <1>1, <2>1, CommitFacts
    <3>2. s \in job.spans
      BY <1>1, <2>1, <3>1, WrittenFacts, RootFields, Identifiers
    <3>. QED
      BY <1>1, <3>2 DEF IInv, Spans
  <2>2. CASE ~ Commit
    <3>1. db'.spans \subseteq db.spans
      BY <1>1, <2>2
         DEF Next, vars, CaptureAsync, GiveUp, Lock, Release, JobStep, FindTurn, CorrelateResult,
             IssueCall, PublishCall, Unlock, Abandon, BeginSweep, PurgeCalls, PurgeTurns,
             PurgeTrace, EndSweep, Crash, Tick, IInv, Shape
    <3>. QED
      BY <3>1
  <2>. QED
    BY <2>1, <2>2
<1>2. IInv /\ [Next]_vars => [Linked]_vars
  BY <1>1
<1>. QED
  BY <1>2, AlwaysIInv, PTL DEF Spec, NoOrphanWhileKnown

------------------------------------------------------------------------------
(* The register *)

\* Origins of captures take precedence over the cache, and the cache over the rows.
KnownIsOverlay ==
    /\ DOMAIN Known = DOMAIN Publishing \cup DOMAIN cache.origin \cup DOMAIN db.calls
    /\ \A k \in DOMAIN Known :
          Known[k] = IF k \in DOMAIN Publishing THEN Publishing[k]
                     ELSE IF k \in DOMAIN cache.origin THEN cache.origin[k]
                     ELSE db.calls[k]

\* What is known of a call: the tables, overlaid by the cache and the job.
LEMMA KnownFacts == KnownIsOverlay /\ KnownIsOverlay'
BY DEF KnownIsOverlay, Known, Overlay

\* What is known is the row, unless the row has been purged.
LEMMA KnownRows ==
    ASSUME IInv, NEW k \in DOMAIN Known
    PROVE  SameAsRow(k, Known[k])
<1>1. CASE k \in DOMAIN Publishing
  <2>1. Publishing[k] = job.origins[k] /\ Known[k] = Publishing[k]
    BY <1>1, KnownFacts, NoRowsIsEmpty DEF KnownIsOverlay, Publishing
  <2>. QED
    BY <1>1, <2>1 DEF IInv, Agreement
<1>2. CASE k \notin DOMAIN Publishing /\ k \in DOMAIN cache.origin
  <2>1. Known[k] = cache.origin[k]
    BY <1>2, KnownFacts DEF KnownIsOverlay
  <2>. QED
    BY <1>2, <2>1 DEF IInv, Agreement
<1>3. CASE k \notin DOMAIN Publishing /\ k \notin DOMAIN cache.origin
  <2>1. Known[k] = db.calls[k] /\ k \in DOMAIN db.calls
    BY <1>3, KnownFacts DEF KnownIsOverlay
  <2>. QED
    BY <2>1 DEF SameAsRow
<1>. QED
  BY <1>1, <1>2, <1>3

\* A step that leaves what is known, but for old calls, is a Forget of the register.
LEMMA Forgets ==
    ASSUME UNCHANGED now,
           \A k \in DOMAIN Known' : k \in DOMAIN Known /\ Known'[k] = Known[k],
           \A k \in DOMAIN Known \ DOMAIN Known' : Known[k].created < now - Retention
    PROVE  Register!Next
<1>1. Known' = [k \in DOMAIN Known' |-> Known'[k]]
  BY DEF Known, Overlay
<1>2. Known' = Register!Restrict(Known, DOMAIN Known')
  BY <1>1 DEF Register!Restrict
<1>. QED
  BY <1>2 DEF Register!Next, Register!Forget, Register!ForgetsOnlyOld

\* Nothing is published, and the tables are as they were.
LEMMA QuietForgets ==
    ASSUME UNCHANGED <<now, cache>>, db'.calls = db.calls, Publishing' = Publishing
    PROVE  Register!Next
<1>1. Known' = Known
  BY DEF Known
<1>. QED
  BY <1>1, Forgets

\* A commit is a step of the register of calls.
LEMMA CommitCaptures == ASSUME IInv, Commit PROVE Register!Next
<1>0. /\ job.phase = "tools" /\ job.holder \in Exchanges /\ UNCHANGED <<now, cache>>
      /\ job'.phase = "cache" /\ job'.origins = job.origins
      /\ DOMAIN db'.calls = DOMAIN job.origins \cup DOMAIN db.calls
      /\ \A k \in DOMAIN job.origins : db'.calls[k] = job.origins[k]
      /\ \A k \in DOMAIN db.calls \ DOMAIN job.origins : db'.calls[k] = db.calls[k]
  BY CommitFacts
<1>1. DOMAIN Publishing = {} /\ Publishing' = job.origins
  BY <1>0, NoRowsIsEmpty DEF Publishing
<1>2. /\ DOMAIN Known = DOMAIN cache.origin \cup DOMAIN db.calls
      /\ \A k \in DOMAIN Known :
            Known[k] = IF k \in DOMAIN cache.origin THEN cache.origin[k] ELSE db.calls[k]
  BY <1>1, KnownFacts DEF KnownIsOverlay
<1>3. /\ DOMAIN Known' = DOMAIN job.origins \cup DOMAIN Known
      /\ \A k \in DOMAIN job.origins : Known'[k] = job.origins[k]
      /\ \A k \in DOMAIN Known \ DOMAIN job.origins : Known'[k] = Known[k]
  BY <1>0, <1>1, <1>2 DEF Known, Overlay
<1>4. ASSUME NEW k \in DOMAIN Known'
      PROVE  IF k \in DOMAIN Known
             THEN \/ Known'[k] = Known[k]
                  \/ /\ ~ Known[k].hasResult
                     /\ k \in ToSet(job.holder.results)
                     /\ Known'[k] = Register!Answered(Known[k], job.holder)
             ELSE Register!IsOriginOf(k, Known'[k])
  <2>1. CASE k \notin DOMAIN job.origins
    BY <1>3, <2>1
  <2>2. CASE k \in DOMAIN job.origins /\ k \in DOMAIN Known
    <3>1. PICK o, p : o = Known[k] /\ p = job.origins[k]
      OBVIOUS
    <3>2. Successor(k, o, p)
      BY <1>0, <1>2, <2>2, <3>1 DEF IInv, Origins
    <3>3. ~ o.hasResult => Observed(o, job.holder) = Register!Answered(o, job.holder)
      BY DEF Observed, Register!Answered
    <3>. QED
      BY <1>3, <2>2, <3>1, <3>2, <3>3 DEF Successor
  <2>3. CASE k \in DOMAIN job.origins /\ k \notin DOMAIN Known
    <3>1. Issued(k, job.origins[k])
      BY <2>3 DEF IInv, Origins
    <3>. QED
      BY <1>3, <2>3, <3>1
         DEF Issued, Register!IsOriginOf, Register!ModelId, ModelId, Register!ToSet, ToSet
  <2>. QED
    BY <2>1, <2>2, <2>3
<1>5. Register!ToSet(job.holder.results) = ToSet(job.holder.results)
  BY DEF Register!ToSet, ToSet
<1>6. Register!ForgetsOnlyOld
  BY <1>3 DEF Register!ForgetsOnlyOld
<1>7. Register!Capture(job.holder)
  BY <1>0, <1>4, <1>5, <1>6 DEF Register!Capture
<1>. QED
  BY <1>0, <1>7 DEF Register!Next

\* Publishing a call changes nothing in the register, or forgets.
LEMMA PublishForgets == ASSUME IInv, NEW k, PublishCall(k) PROVE Register!Next
<1>0. /\ job.phase = "cache" /\ job'.phase = "cache" /\ k \in DOMAIN job.origins /\ k \in Keys
      /\ cache' = CacheOne(cache, k, job.origins[k]) /\ job'.origins = Without(job.origins, k)
      /\ UNCHANGED <<now, db>>
  BY DEF PublishCall, IInv, Shape, Origins, IsOrigins
<1>1. PICK o : o = job.origins[k]
  OBVIOUS
<1>2. /\ k \in DOMAIN cache'.origin /\ cache'.origin[k] = o
      /\ \A j \in DOMAIN cache'.origin :
            j # k => j \in DOMAIN cache.origin /\ cache'.origin[j] = cache.origin[j]
  BY <1>0, <1>1, CacheOneFacts DEF IInv, Shape
<1>3. /\ Publishing = job.origins /\ DOMAIN Publishing' = DOMAIN Publishing \ {k}
      /\ \A j \in DOMAIN Publishing' : Publishing'[j] = Publishing[j]
  BY <1>0 DEF Publishing, Without
<1>4. ASSUME NEW j \in DOMAIN Known' PROVE j \in DOMAIN Known /\ Known'[j] = Known[j]
  <2>1. Known'[j] = IF j \in DOMAIN Publishing' THEN Publishing'[j]
                    ELSE IF j \in DOMAIN cache'.origin THEN cache'.origin[j]
                    ELSE db.calls[j]
    BY <1>0, KnownFacts DEF KnownIsOverlay
  <2>2. j \in DOMAIN Publishing' \cup DOMAIN cache'.origin \cup DOMAIN db.calls
    BY <1>0, KnownFacts DEF KnownIsOverlay
  <2>3. j \in DOMAIN Known
    BY <1>0, <1>2, <1>3, <2>2, KnownFacts DEF KnownIsOverlay
  <2>4. CASE j = k
    BY <1>0, <1>1, <1>2, <1>3, <2>1, <2>3, <2>4, KnownFacts DEF KnownIsOverlay
  <2>5. CASE j # k /\ (j \in DOMAIN Publishing \/ j \in DOMAIN cache'.origin)
    BY <1>2, <1>3, <2>1, <2>3, <2>5, KnownFacts DEF KnownIsOverlay
  <2>6. CASE j # k /\ j \notin DOMAIN Publishing /\ j \notin DOMAIN cache'.origin
    <3>1. Known'[j] = db.calls[j] /\ j \in DOMAIN db.calls
      BY <1>3, <2>1, <2>2, <2>6
    <3>2. Known[j] = db.calls[j]
      BY <2>3, <3>1, KnownRows DEF SameAsRow
    <3>. QED
      BY <2>3, <3>1, <3>2
  <2>. QED
    BY <2>3, <2>4, <2>5, <2>6
<1>5. ASSUME NEW j \in DOMAIN Known \ DOMAIN Known' PROVE Known[j].created < now - Retention
  <2>1. j \notin DOMAIN db.calls
    BY <1>0, KnownFacts DEF KnownIsOverlay
  <2>. QED
    BY <2>1, KnownRows DEF SameAsRow
<1>. QED
  BY <1>0, <1>4, <1>5, Forgets

\* What the process loses, the table has, unless it is old.
LEMMA CrashForgets == ASSUME IInv, Crash PROVE Register!Next
<1>1. /\ UNCHANGED <<now, db>> /\ DOMAIN cache'.origin = {} /\ DOMAIN Publishing' = {}
  BY NoRowsIsEmpty DEF Crash, NoCache, NoJob, Publishing
<1>2. /\ DOMAIN Known' = DOMAIN db.calls /\ \A k \in DOMAIN Known' : Known'[k] = db.calls[k]
  BY <1>1, KnownFacts DEF KnownIsOverlay
<1>3. \A k \in DOMAIN db.calls : k \in DOMAIN Known /\ Known[k] = db.calls[k]
  BY KnownFacts, KnownRows DEF KnownIsOverlay, SameAsRow
<1>4. \A k \in DOMAIN Known \ DOMAIN db.calls : Known[k].created < now - Retention
  BY KnownRows DEF SameAsRow
<1>. QED
  BY <1>1, <1>2, <1>3, <1>4, Forgets

\* The end of a job changes nothing in the register, or forgets.
LEMMA UnlockForgets == ASSUME IInv, Unlock PROVE Register!Next
<1>1. /\ UNCHANGED <<now, cache, db>> /\ DOMAIN Publishing = {} /\ DOMAIN Publishing' = {}
  BY NoRowsIsEmpty DEF Unlock, NoJob, Publishing
<1>2. DOMAIN Known' = DOMAIN Known /\ \A k \in DOMAIN Known' : Known'[k] = Known[k]
  BY <1>1, KnownFacts DEF KnownIsOverlay
<1>. QED
  BY <1>1, <1>2, Forgets

\* A sweep only forgets calls of the register.
LEMMA PurgeForgets == ASSUME IInv, PurgeCalls PROVE Register!Next
<1>0. /\ sweep.cutoff \in Nat /\ sweep.cutoff + Retention <= now /\ now \in Nat
      /\ UNCHANGED <<now, job, cache>>
      /\ db'.calls = Restrict(db.calls, DOMAIN db.calls \ Created(db.calls, sweep.cutoff))
  BY TimesAreNatural DEF PurgeCalls, IInv, Sweeping, Shape
<1>1. /\ \A k \in DOMAIN db'.calls : k \in DOMAIN db.calls /\ db'.calls[k] = db.calls[k]
      /\ \A k \in DOMAIN db.calls \ DOMAIN db'.calls : db.calls[k].created < sweep.cutoff
  BY <1>0 DEF Restrict, Created
<1>2. Publishing' = Publishing
  BY <1>0 DEF Publishing
<1>3. \A k \in DOMAIN Known' : k \in DOMAIN Known /\ Known'[k] = Known[k]
  BY <1>0, <1>1, <1>2, KnownFacts DEF KnownIsOverlay
<1>4. ASSUME NEW k \in DOMAIN Known \ DOMAIN Known' PROVE Known[k].created < now - Retention
  <2>1. k \in DOMAIN db.calls \ DOMAIN db'.calls /\ Known[k] = db.calls[k]
    BY <1>0, <1>2, KnownFacts DEF KnownIsOverlay
  <2>2. db.calls[k].created \in Nat /\ db.calls[k].created < sweep.cutoff
    BY <1>1, <2>1 DEF IInv, Calls, Settled, IsOrigins, Origin
  <2>. QED
    BY <1>0, <2>1, <2>2, TimesAreNatural
<1>. QED
  BY <1>0, <1>3, <1>4, Forgets

\* Every step is one of the register of calls, or changes nothing of it.
LEMMA StepIsRegisterStep ==
    ASSUME IInv, [Next]_vars
    PROVE  [Register!Next]_<<now, Known>>
<1>1. CASE UNCHANGED vars
  BY <1>1 DEF vars, Known, Publishing
<1>2. ASSUME NEW e \in Exchanges, CaptureAsync(e) \/ GiveUp(e) \/ Lock(e) \/ Release(e)
      PROVE  Register!Next
  <2>1. UNCHANGED <<now, cache, db>>
    BY <1>2 DEF CaptureAsync, GiveUp, Lock, Release
  <2>2. Publishing' = Publishing
    BY <1>2 DEF CaptureAsync, GiveUp, Lock, Release, Publishing, NoJob
  <2>. QED
    BY <2>1, <2>2, QuietForgets
<1>3. ASSUME FindTurn \/ CorrelateResult \/ Abandon \/ \E k : IssueCall(k)
      PROVE  Register!Next
  <2>1. UNCHANGED <<now, cache, db>>
    BY <1>3 DEF FindTurn, CorrelateResult, IssueCall, Abandon
  <2>2. job.phase # "cache" /\ job'.phase # "cache"
    <3>1. CASE FindTurn
      BY <3>1 DEF FindTurn, IInv, Shape
    <3>2. CASE CorrelateResult
      BY <3>2 DEF CorrelateResult, IInv, Shape
    <3>3. CASE Abandon
      BY <3>3 DEF Abandon, NoJob
    <3>4. ASSUME NEW k, IssueCall(k) PROVE job.phase # "cache" /\ job'.phase # "cache"
      BY <3>4 DEF IssueCall, IInv, Shape
    <3>. QED
      BY <1>3, <3>1, <3>2, <3>3, <3>4
  <2>. QED
    BY <2>1, <2>2, QuietForgets DEF Publishing
<1>4. CASE BeginSweep \/ EndSweep \/ PurgeTurns \/ \E t : PurgeTrace(t)
  <2>1. UNCHANGED <<now, job, cache>> /\ db'.calls = db.calls
    BY <1>4 DEF BeginSweep, EndSweep, PurgeTurns, PurgeTrace, IInv, Shape
  <2>. QED
    BY <2>1, QuietForgets DEF Publishing
<1>5. CASE Tick
  <2>1. UNCHANGED <<job, cache, db>> /\ now' = now + 1
    BY <1>5 DEF Tick
  <2>. QED
    BY <2>1 DEF Known, Publishing, Register!Next, Register!Tick
<1>. QED
  BY <1>1, <1>2, <1>3, <1>4, <1>5, CommitCaptures, PublishForgets, UnlockForgets, PurgeForgets,
     CrashForgets DEF Next, JobStep

\* Cache and table together are a register of tool calls: the issuer of a call and its
\* first result stay what they are while the call is retained, whatever was evicted,
\* purged, abandoned, replayed or lost in a crash (relay.go:412-569).
THEOREM SpecImplementsRegister == Spec => ImplementsRegister
<1>1. Init => Register!Init
  <2>. SUFFICES ASSUME Init PROVE Known = Register!NoRows
    BY DEF Init, InitWith, Register!Init
  <2>1. Known = [k \in DOMAIN Known |-> Known[k]]
    BY DEF Known, Overlay
  <2>2. DOMAIN Known = {}
    BY KnownFacts, NoRowsIsEmpty DEF KnownIsOverlay, Init, InitWith, NoJob, NoCache, Publishing
  <2>. QED
    BY <2>1, <2>2 DEF Register!NoRows
<1>2. IInv /\ [Next]_vars => [Register!Next]_<<now, Known>>
  BY StepIsRegisterStep
<1>. QED
  BY <1>1, <1>2, AlwaysIInv, PTL DEF Spec, ImplementsRegister, Register!Spec

==============================================================================
