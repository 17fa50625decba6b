--------------------------- MODULE TraceReadsProofs ---------------------------
(***************************************************************************)
(* Proofs about SpanStore and TraceReads for every value of their          *)
(* constants.                                                              *)
(*                                                                         *)
(* The store: the tables agree after every commit, a purge removes only    *)
(* whole traces that are over, and the transactions implement SpanLedger.  *)
(* That the committed tables agree is not inductive by itself: what        *)
(* commits is the private copy of a transaction.  The inductive invariant  *)
(* IInv says, for each phase, what the copy is: during an insert the       *)
(* committed spans with the first upserts of the batch applied, whose      *)
(* summary rows are exact except for the touched traces; during a purge    *)
(* the committed tables with one side or both of the expired traces gone.  *)
(*                                                                         *)
(* The reads, for any batches, lists, ranges and page size: a walk shows   *)
(* each steady row once, the page of a trace has and draws its spans, and  *)
(* the charts of one answer agree, while the writer goes on beside them.   *)
(* ReadIInv adds to IInv what is known of the one read under way.  The     *)
(* properties rest on facts on sums, on the tree of a trace and on finite  *)
(* sets in order; the inductions these need are taken as smallest          *)
(* counterexamples.                                                        *)
(***************************************************************************)
EXTENDS TraceReads, FiniteSetTheorems, WellFoundedInduction, TLAPS

------------------------------------------------------------------------------
(* Facts about the operators: the bounds a summary row gives on the times  *)
(* of its spans, what one upsert does to the key, the index and the summary *)
(* rows, and that a batch written one upsert at a time is the batch         *)
(* written at once.                                                         *)

\* A non-empty set of natural numbers has a least element.
LEMMA LeastNatural ==
    ASSUME NEW S \in SUBSET Nat, S # {}
    PROVE  \E x \in S : \A y \in S : x <= y
<1>1. PICK x \in S : \A y \in S : ~ (<<y, x>> \in OpToRel(<, Nat))
  BY WFMin, NatLessThanWellFounded
<1>2. \A y \in S : ~ (y < x)
  BY <1>1 DEF OpToRel
<1>. QED
  BY <1>2

\* Max is the greatest of a non-empty set of times.
LEMMA MaxOfTimes ==
    ASSUME NEW S \in SUBSET Time, S # {}
    PROVE  Max(S) \in S /\ \A y \in S : y <= Max(S)
<1>. DEFINE T == {MaxTime - x : x \in S}
<1>0. \A x \in S : MaxTime - x \in Nat
  BY TimeIsInterval DEF Time
<1>1. T \in SUBSET Nat /\ T # {}
  BY <1>0
<1>2. PICK m \in T : \A y \in T : m <= y
  BY <1>1, LeastNatural
<1>3. PICK x \in S : m = MaxTime - x
  BY <1>2
<1>4. ASSUME NEW y \in S PROVE x >= y
  <2>1. m <= MaxTime - y
    BY <1>2
  <2>2. x \in Int /\ y \in Int
    BY TimeIsInterval DEF Time
  <2>. QED
    BY <1>3, <2>1, <2>2, TimeIsInterval
<1>5. \E z \in S : \A y \in S : z >= y
  BY <1>4
<1>6. Max(S) \in S /\ \A y \in S : Max(S) >= y
  BY <1>5 DEF Max
<1>. QED
  BY <1>6, TimeIsInterval DEF Time

\* The row of a trace with spans bounds the end of all of them, so judging the
\* trace by its row is judging every span.
LEMMA SummaryBoundsEnds ==
    ASSUME NEW S \in SUBSET Span, NEW t, NEW s \in S
    PROVE  /\ s.end \in Int /\ s.start \in Int /\ Summary(t, S).end \in Int
           /\ s.end <= Summary(t, S).end
<1>. DEFINE ends == {r.end : r \in S}
<1>1. \A r \in S : r.end \in Time /\ r.start \in Time
  BY DEF Span
<1>2. ends \in SUBSET Time /\ s.end \in ends
  BY <1>1
<1>3. Max(ends) \in Time /\ s.end <= Max(ends)
  BY <1>2, MaxOfTimes
<1>4. Summary(t, S).end = Max(ends)
  BY DEF Summary
<1>. QED
  BY <1>1, <1>3, <1>4, TimeIsInterval DEF Time

\* A trace that purgeBatch selects is over: its row is exact, so each of its
\* spans ended before the cutoff, and a span that ended began before.
LEMMA ExpiredIsLongOver ==
    ASSUME NEW S \in SUBSET Span, NEW R, R = Summaries(S),
           NEW cutoff \in Int, NEW t \in Expired(R, S, cutoff)
    PROVE  t \in TracesOf(S) /\ LongOver(S, t, cutoff)
<1>1. PICK row \in R : /\ row.trace = t
                       /\ row.end < cutoff
                       /\ ~ \E s \in OfTrace(S, row.trace) : Unfinished(s)
  BY DEF Expired
<1>2. PICK u \in TracesOf(S) : row = Summary(u, OfTrace(S, u))
  BY <1>1 DEF Summaries
<1>3. row.trace = u
  BY <1>2 DEF Summary
<1>4. ASSUME NEW s \in OfTrace(S, t)
      PROVE  ~ Unfinished(s) /\ s.start < cutoff /\ s.end < cutoff
  <2>1. s.end \in Int /\ s.start \in Int /\ row.end \in Int /\ s.end <= row.end
    BY <1>1, <1>2, <1>3, SummaryBoundsEnds DEF OfTrace
  <2>2. ~ Unfinished(s)
    BY <1>1
  <2>. QED
    BY <1>1, <2>1, <2>2 DEF Unfinished
<1>. QED
  BY <1>1, <1>2, <1>3, <1>4 DEF LongOver

------------------------------------------------------------------------------
(* One upsert *)

\* After an upsert there is one row per key, as the conflict clause promises.
LEMMA UpsertKeepsKey ==
    ASSUME NEW S \in SUBSET Span, OneRowPerKey(S), NEW s \in Span
    PROVE  Upsert(S, s) \in SUBSET Span /\ OneRowPerKey(Upsert(S, s))
BY DEF Upsert, OneRowPerKey

\* The triggers keep the index exact, provided no other row has the key.
LEMMA IndexUpsertIsExact ==
    ASSUME NEW S \in SUBSET Span, NEW s \in Span
    PROVE  IndexUpsert(Entries(S), S, s) = Entries(Upsert(S, s))
<1>1. ASSUME NEW r \in S, NEW q \in S, Key(q) = Key(s), Entry(r) = Entry(q)
      PROVE  Key(r) = Key(s)
  BY <1>1 DEF Entry, Key
<1>. QED
  BY <1>1 DEF IndexUpsert, Entries, Upsert, Entry, Key

\* Trigger spans_ad: deleting rows and their entries keeps the index exact.
LEMMA IndexDeleteIsExact ==
    ASSUME NEW S \in SUBSET Span, NEW ts
    PROVE  LET dead == {s \in S : s.trace \in ts}
           IN  IndexDelete(Entries(S), dead) = Entries(S \ dead)
BY DEF IndexDelete, Entries, Entry

\* An upsert leaves the spans of other traces alone.
LEMMA UpsertIsLocal ==
    ASSUME NEW S \in SUBSET Span, NEW s \in Span, NEW t, t # s.trace
    PROVE  OfTrace(Upsert(S, s), t) = OfTrace(S, t)
BY DEF Upsert, OfTrace, Key

\* An upsert takes no trace away and adds that of its span.
LEMMA UpsertKeepsTraces ==
    ASSUME NEW S, NEW s
    PROVE  TracesOf(S) \cup {s.trace} \subseteq TracesOf(Upsert(S, s))
BY DEF TracesOf, Upsert, Key

\* An upsert keeps every key.
LEMMA UpsertKeepsKeys ==
    ASSUME NEW S, NEW s, NEW r \in S
    PROVE  \E q \in Upsert(S, s) : Key(q) = Key(r)
BY DEF Upsert

------------------------------------------------------------------------------
(* A batch, one upsert at a time *)

\* The first n upserts of a batch.
LastWritesTo(batch, n) ==
    {batch[i] : i \in {j \in 1 .. n :
                          \A k \in j + 1 .. n : Key(batch[k]) # Key(batch[j])}}

UpsertedTo(S, batch, n) ==
    {r \in S : \A i \in 1 .. n : Key(batch[i]) # Key(r)} \cup LastWritesTo(batch, n)

TracesTo(batch, n) == {batch[i].trace : i \in 1 .. n}

\* Before the first span of a batch nothing has been written.
LEMMA UpsertedToStart ==
    ASSUME NEW S, NEW batch
    PROVE  UpsertedTo(S, batch, 0) = S /\ TracesTo(batch, 0) = {}
BY DEF UpsertedTo, LastWritesTo, TracesTo

\* The batch so far and one more upsert are the batch so far plus one.
LEMMA UpsertedToStep ==
    ASSUME NEW S, NEW batch, NEW n \in Nat
    PROVE  /\ UpsertedTo(S, batch, n + 1) = Upsert(UpsertedTo(S, batch, n), batch[n + 1])
           /\ TracesTo(batch, n + 1) = TracesTo(batch, n) \cup {batch[n + 1].trace}
<1>. DEFINE last  == batch[n + 1]
            here  == UpsertedTo(S, batch, n)
            there == UpsertedTo(S, batch, n + 1)
<1>0. /\ \A i \in 1 .. n : i \in 1 .. n + 1 /\ n + 1 \in i + 1 .. n + 1
      /\ \A i \in 1 .. n + 1 : i \in 1 .. n \/ i = n + 1
      /\ n + 1 \in 1 .. n + 1
  OBVIOUS
<1>1. ASSUME NEW r \in there PROVE r \in Upsert(here, last)
  <2>1. CASE r \in S /\ \A i \in 1 .. n + 1 : Key(batch[i]) # Key(r)
    BY <2>1, <1>0 DEF UpsertedTo, Upsert
  <2>2. CASE r \in LastWritesTo(batch, n + 1)
    <3>1. PICK i \in 1 .. n + 1 : /\ r = batch[i]
                                  /\ \A k \in i + 1 .. n + 1 : Key(batch[k]) # Key(batch[i])
      BY <2>2 DEF LastWritesTo
    <3>2. CASE i = n + 1
      BY <3>1, <3>2 DEF Upsert
    <3>3. CASE i \in 1 .. n
      <4>1. Key(r) # Key(last)
        BY <3>1, <3>3, <1>0
      <4>2. \A k \in i + 1 .. n : k \in i + 1 .. n + 1
        BY <3>3
      <4>3. r \in LastWritesTo(batch, n)
        BY <3>1, <3>3, <4>2 DEF LastWritesTo
      <4>. QED
        BY <4>1, <4>3 DEF UpsertedTo, Upsert
    <3>. QED
      BY <3>1, <3>2, <3>3, <1>0
  <2>. QED
    BY <1>1, <2>1, <2>2 DEF UpsertedTo
<1>2. ASSUME NEW r \in Upsert(here, last) PROVE r \in there
  <2>1. CASE r = last
    <3>1. \A k \in n + 1 + 1 .. n + 1 : FALSE
      OBVIOUS
    <3>. QED
      BY <2>1, <3>1, <1>0 DEF UpsertedTo, LastWritesTo
  <2>2. CASE r \in here /\ Key(r) # Key(last)
    <3>1. CASE r \in S /\ \A i \in 1 .. n : Key(batch[i]) # Key(r)
      BY <3>1, <2>2, <1>0 DEF UpsertedTo
    <3>2. CASE r \in LastWritesTo(batch, n)
      <4>1. PICK i \in 1 .. n : /\ r = batch[i]
                                /\ \A k \in i + 1 .. n : Key(batch[k]) # Key(batch[i])
        BY <3>2 DEF LastWritesTo
      <4>2. \A k \in i + 1 .. n + 1 : k \in i + 1 .. n \/ k = n + 1
        OBVIOUS
      <4>3. \A k \in i + 1 .. n + 1 : Key(batch[k]) # Key(batch[i])
        BY <4>1, <4>2, <2>2
      <4>. QED
        BY <4>1, <4>3, <1>0 DEF UpsertedTo, LastWritesTo
    <3>. QED
      BY <2>2, <3>1, <3>2 DEF UpsertedTo
  <2>. QED
    BY <1>2, <2>1, <2>2 DEF Upsert
<1>3. TracesTo(batch, n + 1) = TracesTo(batch, n) \cup {batch[n + 1].trace}
  BY <1>0 DEF TracesTo
<1>. QED
  BY <1>1, <1>2, <1>3

\* All of the upserts are the batch at once.
LEMMA UpsertedToEnd ==
    ASSUME NEW S, NEW batch
    PROVE  /\ UpsertedTo(S, batch, Len(batch)) = UpsertAll(S, batch)
           /\ TracesTo(batch, Len(batch)) = TracesOfBatch(batch)
BY DEF UpsertedTo, LastWritesTo, UpsertAll, LastWrites, TracesTo, TracesOfBatch

------------------------------------------------------------------------------
(* The inductive invariant *)

RowsOf(R, t) == {r \in R : r.trace = t}

\* The summary row that trace t should have among the spans S.
RowDue(S, t) == {Summary(u, OfTrace(S, u)) : u \in {t} \cap TracesOf(S)}

\* The rows R are exact except for the traces ts.
ExactBeyond(R, S, ts) == \A t \in TraceIds \ ts : RowsOf(R, t) = RowDue(S, t)

RowInRange(r) == r.cost # NULL => CostInRange(r.cost)

InsertTx ==
    /\ tx.batch \in Batches
    /\ SpanCostsInRange(tx.batch)
    /\ tx.next \in 1 .. Len(tx.batch) + 1
    /\ tx.work.spans = UpsertedTo(db.spans, tx.batch, tx.next - 1)
    /\ tx.work.index = Entries(tx.work.spans)
    /\ \A s \in db.spans : \E r \in tx.work.spans : Key(r) = Key(s)
    /\ tx.touched \subseteq TracesOf(tx.work.spans)
    /\ ExactBeyond(tx.work.traces, tx.work.spans, tx.touched)
    /\ \A r \in tx.work.traces : r.trace \notin tx.touched => RowInRange(r)
    /\ SumsInRange(tx.work.spans, TracesTo(tx.batch, tx.next - 1) \ tx.touched)

PurgeTx ==
    /\ tx.batch = <<>>
    /\ tx.cutoff \in Cutoffs
    /\ tx.gone \subseteq {t \in TracesOf(db.spans) : LongOver(db.spans, t, tx.cutoff)}

SpansPurged ==
    /\ tx.work.spans = {s \in db.spans : s.trace \notin tx.gone}
    /\ tx.work.index = Entries(tx.work.spans)

UpsertPhase ==
    tx.phase = "upsert" =>
        InsertTx /\ tx.next <= Len(tx.batch) /\ tx.touched = TracesTo(tx.batch, tx.next - 1)

RecomputePhase ==
    tx.phase = "recompute" => InsertTx /\ tx.next = Len(tx.batch) + 1

DeleteSpansPhase ==
    tx.phase = "deleteSpans" =>
        /\ PurgeTx
        /\ tx.work.spans = db.spans /\ tx.work.traces = db.traces /\ tx.work.index = db.index

DeleteTracesPhase ==
    tx.phase = "deleteTraces" => PurgeTx /\ SpansPurged /\ tx.work.traces = db.traces

CommitPhase ==
    tx.phase = "commit" =>
        \/ InsertTx /\ tx.next = Len(tx.batch) + 1 /\ tx.touched = {}
        \/ /\ PurgeTx /\ SpansPurged
           /\ tx.work.traces = {r \in db.traces : r.trace \notin tx.gone}

Committed == TracesSummarizeSpans /\ IndexMatchesSpans /\ TraceCostsInRange

IInv ==
    /\ TypeOK
    /\ Committed
    /\ UpsertPhase
    /\ RecomputePhase
    /\ DeleteSpansPhase
    /\ DeleteTracesPhase
    /\ CommitPhase

------------------------------------------------------------------------------
(* The summary rows *)

\* Rows that are exact for a set of spans are the summaries of its traces.
LEMMA ExactIsSummaries ==
    ASSUME NEW S \in SUBSET Span, NEW R, \A r \in R : r.trace \in TraceIds
    PROVE  R = Summaries(S) <=> ExactBeyond(R, S, {})
<1>1. \A t \in TracesOf(S) : t \in TraceIds
  BY DEF TracesOf, Span
<1>2. \A t : Summary(t, OfTrace(S, t)).trace = t
  BY DEF Summary
<1>3. ASSUME R = Summaries(S) PROVE ExactBeyond(R, S, {})
  BY <1>2, <1>3 DEF ExactBeyond, RowsOf, RowDue, Summaries
<1>4. ASSUME ExactBeyond(R, S, {}) PROVE R = Summaries(S)
  <2>1. \A r \in R : r \in RowDue(S, r.trace)
    BY <1>4 DEF ExactBeyond, RowsOf
  <2>2. \A t \in TracesOf(S) : RowDue(S, t) \subseteq R
    BY <1>1, <1>4 DEF ExactBeyond, RowsOf
  <2>. QED
    BY <2>1, <2>2 DEF RowDue, Summaries
<1>. QED
  BY <1>3, <1>4

\* Upserting a span disturbs the rows of its own trace only.
LEMMA UpsertKeepsOtherRows ==
    ASSUME NEW S \in SUBSET Span, NEW s \in Span, NEW R, NEW ts, ExactBeyond(R, S, ts)
    PROVE  ExactBeyond(R, Upsert(S, s), ts \cup {s.trace})
<1>. SUFFICES ASSUME NEW t \in TraceIds \ (ts \cup {s.trace})
              PROVE  RowsOf(R, t) = RowDue(Upsert(S, s), t)
  BY DEF ExactBeyond
<1>1. OfTrace(Upsert(S, s), t) = OfTrace(S, t)
  BY UpsertIsLocal
<1>2. t \in TracesOf(Upsert(S, s)) <=> t \in TracesOf(S)
  BY <1>1 DEF TracesOf, OfTrace
<1>3. RowDue(Upsert(S, s), t) = RowDue(S, t)
  BY <1>1, <1>2 DEF RowDue
<1>. QED
  BY <1>3 DEF ExactBeyond

\* Recomputing a trace that has spans makes its row exact again.
LEMMA RecomputeRepairsRow ==
    ASSUME NEW S, NEW R, NEW ts, NEW t \in TracesOf(S), ExactBeyond(R, S, ts)
    PROVE  ExactBeyond(Recompute(R, S, t), S, ts \ {t})
<1>. SUFFICES ASSUME NEW u \in TraceIds \ (ts \ {t})
              PROVE  RowsOf(Recompute(R, S, t), u) = RowDue(S, u)
  BY DEF ExactBeyond
<1>1. Summary(t, OfTrace(S, t)).trace = t
  BY DEF Summary
<1>2. CASE u = t
  BY <1>1, <1>2 DEF RowsOf, RowDue, Recompute
<1>3. CASE u # t
  <2>1. RowsOf(Recompute(R, S, t), u) = RowsOf(R, u)
    BY <1>1, <1>3 DEF RowsOf, Recompute
  <2>. QED
    BY <1>3, <2>1 DEF ExactBeyond
<1>. QED
  BY <1>2, <1>3

\* Deleting both sides of a set of traces leaves the other rows exact.
LEMMA PurgeKeepsRows ==
    ASSUME NEW S \in SUBSET Span, NEW gone
    PROVE  {r \in Summaries(S) : r.trace \notin gone}
               = Summaries({s \in S : s.trace \notin gone})
<1>. DEFINE rest == {s \in S : s.trace \notin gone}
<1>1. \A t : Summary(t, OfTrace(S, t)).trace = t
  BY DEF Summary
<1>2. \A t : t \notin gone => OfTrace(rest, t) = OfTrace(S, t)
  BY DEF OfTrace
<1>3. TracesOf(rest) = TracesOf(S) \ gone
  BY DEF TracesOf
<1>4. \A t \in TracesOf(rest) : Summary(t, OfTrace(rest, t)) = Summary(t, OfTrace(S, t))
  BY <1>2, <1>3
<1>5. Summaries(rest) = {Summary(t, OfTrace(S, t)) : t \in TracesOf(rest)}
  BY <1>4 DEF Summaries
<1>. QED
  BY <1>1, <1>3, <1>5, ZenonT(60) DEF Summaries

------------------------------------------------------------------------------
(* What each action does to the fields of the transaction *)

\* A new database is well formed.
LEMMA EmptyIsDatabase == IsDatabase(Empty)
BY DEF IsDatabase, Empty, OneRowPerKey

\* The fields of the writer connection without a transaction.
LEMMA IdleIsTyped ==
    ASSUME IsDatabase(db'), tx' = Idle
    PROVE  TypeOK'
<1>1. /\ Idle.phase = "idle" /\ Idle.work = Empty /\ Idle.batch = <<>> /\ Idle.next = 1
      /\ Idle.touched = {} /\ Idle.cutoff = MinTime /\ Idle.gone = {}
  BY DEF Idle
<1>. QED
  BY <1>1, EmptyIsDatabase, TimeIsInterval DEF TypeOK, Phases

\* What UpsertSpan does to each part of the transaction.
LEMMA UpsertSpanFields ==
    ASSUME TypeOK, UpsertSpan
    PROVE  LET s == tx.batch[tx.next]
           IN  /\ tx.phase = "upsert" /\ db' = db
               /\ tx'.phase = (IF tx.next = Len(tx.batch) THEN "recompute" ELSE "upsert")
               /\ tx'.batch = tx.batch /\ tx'.next = tx.next + 1
               /\ tx'.touched = tx.touched \cup {s.trace}
               /\ tx'.cutoff = tx.cutoff /\ tx'.gone = tx.gone
               /\ tx'.work.spans = Upsert(tx.work.spans, s)
               /\ tx'.work.index = IndexUpsert(tx.work.index, tx.work.spans, s)
               /\ tx'.work.traces = tx.work.traces
               /\ DOMAIN tx' = DOMAIN tx /\ DOMAIN tx'.work = DOMAIN tx.work
BY DEF UpsertSpan, TypeOK, Idle, IsDatabase

\* What RecomputeTrace does to each part of the transaction.
LEMMA RecomputeTraceFields ==
    ASSUME TypeOK, NEW t \in tx.touched, RecomputeTrace(t), tx' # Idle
    PROVE  /\ tx.phase = "recompute" /\ db' = db
           /\ tx'.phase = (IF tx.touched = {t} THEN "commit" ELSE "recompute")
           /\ tx'.batch = tx.batch /\ tx'.next = tx.next
           /\ tx'.touched = tx.touched \ {t}
           /\ tx'.cutoff = tx.cutoff /\ tx'.gone = tx.gone
           /\ tx'.work.spans = tx.work.spans /\ tx'.work.index = tx.work.index
           /\ tx'.work.traces = Recompute(tx.work.traces, tx.work.spans, t)
           /\ DOMAIN tx' = DOMAIN tx /\ DOMAIN tx'.work = DOMAIN tx.work
           /\ ~ RefusesCost(TraceCost(tx.work.spans, t))
BY DEF RecomputeTrace, TypeOK, Idle, IsDatabase

\* What DeleteSpans does to each part of the transaction.
LEMMA DeleteSpansFields ==
    ASSUME TypeOK, DeleteSpans
    PROVE  LET dead == {s \in tx.work.spans : s.trace \in tx.gone}
           IN  /\ tx.phase = "deleteSpans" /\ db' = db /\ tx'.phase = "deleteTraces"
               /\ tx'.batch = tx.batch /\ tx'.next = tx.next /\ tx'.touched = tx.touched
               /\ tx'.cutoff = tx.cutoff /\ tx'.gone = tx.gone
               /\ tx'.work.spans = tx.work.spans \ dead
               /\ tx'.work.index = IndexDelete(tx.work.index, dead)
               /\ tx'.work.traces = tx.work.traces
               /\ DOMAIN tx' = DOMAIN tx /\ DOMAIN tx'.work = DOMAIN tx.work
BY DEF DeleteSpans, TypeOK, Idle, IsDatabase

\* What DeleteTraces does to each part of the transaction.
LEMMA DeleteTracesFields ==
    ASSUME TypeOK, DeleteTraces
    PROVE  /\ tx.phase = "deleteTraces" /\ db' = db /\ tx'.phase = "commit"
           /\ tx'.batch = tx.batch /\ tx'.next = tx.next /\ tx'.touched = tx.touched
           /\ tx'.cutoff = tx.cutoff /\ tx'.gone = tx.gone
           /\ tx'.work.spans = tx.work.spans /\ tx'.work.index = tx.work.index
           /\ tx'.work.traces = {r \in tx.work.traces : r.trace \notin tx.gone}
           /\ DOMAIN tx' = DOMAIN tx /\ DOMAIN tx'.work = DOMAIN tx.work
BY DEF DeleteTraces, TypeOK, Idle, IsDatabase

------------------------------------------------------------------------------
(* The inductive invariant *)

\* The inductive invariant holds of a new database.
LEMMA InitEstablishesIInv == Init => IInv
<1>. SUFFICES ASSUME Init PROVE IInv
  OBVIOUS
<1>1. /\ db.spans = {} /\ db.traces = {} /\ db.index = {} /\ tx.phase = "idle"
      /\ IsDatabase(db)
  BY EmptyIsDatabase DEF Init, Empty, Idle
<1>2. TypeOK
  BY <1>1, EmptyIsDatabase, TimeIsInterval DEF Init, Idle, TypeOK, Phases
<1>3. Committed
  BY <1>1 DEF Committed, TracesSummarizeSpans, IndexMatchesSpans, TraceCostsInRange,
              Summaries, TracesOf, Entries
<1>. QED
  BY <1>1, <1>2, <1>3 DEF IInv, UpsertPhase, RecomputePhase, DeleteSpansPhase,
                          DeleteTracesPhase, CommitPhase

\* A step that ends the transaction and leaves the database agreeing.
LEMMA IdleKeepsIInv ==
    ASSUME IsDatabase(db'), Committed', tx' = Idle
    PROVE  IInv'
<1>1. tx'.phase = "idle"
  BY DEF Idle
<1>. QED
  BY <1>1, IdleIsTyped DEF IInv, UpsertPhase, RecomputePhase, DeleteSpansPhase,
                           DeleteTracesPhase, CommitPhase

\* What is true of the committed tables stays true while they do not change.
LEMMA CommittedIsFixed == Committed /\ db' = db => Committed'
BY DEF Committed, TracesSummarizeSpans, IndexMatchesSpans, TraceCostsInRange

\* The elements of a submitted batch are spans.
LEMMA BatchSpans ==
    ASSUME NEW batch \in Batches
    PROVE  /\ Len(batch) \in Nat \ {0} /\ batch # <<>>
           /\ \A i \in 1 .. Len(batch) : batch[i] \in Span
BY BatchesAreSpans

\* InsertBatch begins from a copy of the committed tables.
LEMMA BeginInsertKeepsIInv ==
    ASSUME IInv, NEW batch \in Batches, BeginInsert(batch)
    PROVE  IInv'
<1>1. /\ tx'.phase = "upsert" /\ tx'.work = db /\ tx'.batch = batch /\ tx'.next = 1
      /\ tx'.touched = {} /\ tx'.cutoff = MinTime /\ tx'.gone = {}
      /\ DOMAIN tx' = DOMAIN Idle /\ db' = db
  BY DEF BeginInsert, Idle
<1>2. TypeOK'
  BY <1>1, TimeIsInterval DEF IInv, TypeOK, Phases, IsDatabase
<1>3. Committed'
  BY <1>1, CommittedIsFixed DEF IInv
<1>4. ExactBeyond(db.traces, db.spans, {})
  BY ExactIsSummaries DEF IInv, TypeOK, IsDatabase, Committed, TracesSummarizeSpans
<1>5. InsertTx' /\ tx'.next <= Len(tx'.batch) /\ tx'.touched = TracesTo(tx'.batch, tx'.next - 1)
  <2>1. UpsertedTo(db.spans, batch, 0) = db.spans /\ TracesTo(batch, 0) = {}
    BY UpsertedToStart
  <2>2. SumsInRange(db.spans, {})
    BY DEF SumsInRange
  <2>3. SpanCostsInRange(batch)
    BY DEF BeginInsert
  <2>4. \A r \in db.traces : RowInRange(r)
    BY DEF IInv, Committed, TraceCostsInRange, RowInRange
  <2>5. db.index = Entries(db.spans)
    BY DEF IInv, Committed, IndexMatchesSpans
  <2>6. tx'.next - 1 = 0 /\ tx'.next \in 1 .. Len(batch) + 1 /\ tx'.next <= Len(batch)
    BY <1>1, BatchSpans
  <2>. QED
    BY <1>1, <1>4, <2>1, <2>2, <2>3, <2>4, <2>5, <2>6 DEF InsertTx
<1>. QED
  BY <1>1, <1>2, <1>3, <1>5 DEF IInv, UpsertPhase, RecomputePhase, DeleteSpansPhase,
                                DeleteTracesPhase, CommitPhase

\* Writing one span of the batch, with its index entry.
LEMMA UpsertSpanKeepsIInv ==
    ASSUME IInv, UpsertSpan
    PROVE  IInv'
<1>. DEFINE s == tx.batch[tx.next]
            n == tx.next
<1>1. TypeOK /\ tx.phase = "upsert"
  BY DEF IInv, UpsertSpan
<1>2. InsertTx /\ n <= Len(tx.batch) /\ tx.touched = TracesTo(tx.batch, n - 1)
  BY <1>1 DEF IInv, UpsertPhase
<1>3. tx.batch \in Batches /\ n \in Nat \ {0} /\ n \in 1 .. Len(tx.batch) /\ s \in Span
      /\ Len(tx.batch) \in Nat /\ n - 1 \in Nat /\ (n - 1) + 1 = n /\ (n + 1) - 1 = n
  BY <1>1, <1>2, BatchSpans DEF InsertTx, TypeOK
<1>4. /\ db' = db
      /\ tx'.phase = (IF n = Len(tx.batch) THEN "recompute" ELSE "upsert")
      /\ tx'.batch = tx.batch /\ tx'.next = n + 1
      /\ tx'.touched = tx.touched \cup {s.trace}
      /\ tx'.cutoff = tx.cutoff /\ tx'.gone = tx.gone
      /\ tx'.work.spans = Upsert(tx.work.spans, s)
      /\ tx'.work.index = IndexUpsert(tx.work.index, tx.work.spans, s)
      /\ tx'.work.traces = tx.work.traces
      /\ DOMAIN tx' = DOMAIN tx /\ DOMAIN tx'.work = DOMAIN tx.work
  BY <1>1, UpsertSpanFields
<1>5. tx.work.spans \in SUBSET Span /\ OneRowPerKey(tx.work.spans)
  BY <1>1 DEF TypeOK, IsDatabase
<1>6. tx'.work.index = Entries(tx'.work.spans)
  BY <1>2, <1>3, <1>4, <1>5, IndexUpsertIsExact DEF InsertTx
<1>7. TypeOK'
  <2>1. tx'.work.spans \in SUBSET Span /\ OneRowPerKey(tx'.work.spans)
    BY <1>3, <1>4, <1>5, UpsertKeepsKey
  <2>2. tx'.work.index \subseteq IndexEntry
    BY <1>6, <2>1 DEF Entries, Entry, IndexEntry, Span
  <2>3. IsDatabase(tx'.work)
    BY <1>1, <1>4, <2>1, <2>2 DEF TypeOK, IsDatabase
  <2>4. tx'.touched \subseteq TraceIds
    BY <1>1, <1>3, <1>4, SMTT(30) DEF TypeOK, Span
  <2>. QED
    BY <1>1, <1>3, <1>4, <2>3, <2>4 DEF TypeOK, Phases
<1>8. InsertTx' /\ tx'.touched = TracesTo(tx'.batch, n)
  <2>1. /\ tx'.work.spans = UpsertedTo(db.spans, tx.batch, n)
        /\ tx'.touched = TracesTo(tx.batch, n)
    <3>1. ASSUME NEW k \in Nat
          PROVE  /\ UpsertedTo(db.spans, tx.batch, k + 1)
                     = Upsert(UpsertedTo(db.spans, tx.batch, k), tx.batch[k + 1])
                 /\ TracesTo(tx.batch, k + 1) = TracesTo(tx.batch, k) \cup {tx.batch[k + 1].trace}
      BY UpsertedToStep, Zenon
    <3>2. /\ UpsertedTo(db.spans, tx.batch, n)
                 = Upsert(UpsertedTo(db.spans, tx.batch, n - 1), tx.batch[n])
          /\ TracesTo(tx.batch, n) = TracesTo(tx.batch, n - 1) \cup {tx.batch[n].trace}
      BY <1>3, <3>1
    <3>. QED
      BY <1>2, <1>3, <1>4, <3>2 DEF InsertTx
  <2>2. ExactBeyond(tx'.work.traces, tx'.work.spans, tx'.touched)
    BY <1>2, <1>3, <1>4, <1>5, UpsertKeepsOtherRows DEF InsertTx
  <2>3. \A r \in tx'.work.traces : r.trace \notin tx'.touched => RowInRange(r)
    BY <1>2, <1>4 DEF InsertTx
  <2>4. SumsInRange(tx'.work.spans, TracesTo(tx.batch, n) \ tx'.touched)
    BY <2>1 DEF SumsInRange
  <2>5. tx'.next \in 1 .. Len(tx.batch) + 1
    BY <1>3, <1>4
  <2>6. tx'.touched \subseteq TracesOf(tx'.work.spans)
    BY <1>2, <1>4, UpsertKeepsTraces DEF InsertTx
  <2>7. \A r \in db.spans : \E q \in tx'.work.spans : Key(q) = Key(r)
    <3>1. SUFFICES ASSUME NEW r \in db.spans
                   PROVE  \E q \in tx'.work.spans : Key(q) = Key(r)
      OBVIOUS
    <3>2. PICK p \in tx.work.spans : Key(p) = Key(r)
      BY <1>2 DEF InsertTx
    <3>. QED
      BY <1>4, <3>2, UpsertKeepsKeys
  <2>. QED
    BY <1>2, <1>3, <1>4, <1>6, <2>1, <2>2, <2>3, <2>4, <2>5, <2>6, <2>7 DEF InsertTx
<1>9. Committed'
  BY <1>4, CommittedIsFixed DEF IInv
<1>10. CASE n = Len(tx.batch)
  BY <1>3, <1>4, <1>7, <1>8, <1>9, <1>10 DEF IInv, UpsertPhase, RecomputePhase,
     DeleteSpansPhase, DeleteTracesPhase, CommitPhase
<1>11. CASE n # Len(tx.batch)
  BY <1>3, <1>4, <1>7, <1>8, <1>9, <1>11 DEF IInv, UpsertPhase, RecomputePhase,
     DeleteSpansPhase, DeleteTracesPhase, CommitPhase
<1>. QED
  BY <1>10, <1>11

\* A batch whose sums were in range stays so for the traces already recomputed.
LEMMA RecomputeTraceKeepsIInv ==
    ASSUME IInv, NEW t \in tx.touched, RecomputeTrace(t)
    PROVE  IInv'
<1>1. TypeOK /\ tx.phase = "recompute" /\ db' = db /\ IsDatabase(db') /\ Committed'
  BY CommittedIsFixed DEF IInv, RecomputeTrace, TypeOK, IsDatabase
<1>2. CASE tx' = Idle
  BY <1>1, <1>2, IdleKeepsIInv
<1>3. CASE tx' # Idle
  <2>1. /\ tx'.phase = (IF tx.touched = {t} THEN "commit" ELSE "recompute")
        /\ tx'.batch = tx.batch /\ tx'.next = tx.next
        /\ tx'.touched = tx.touched \ {t}
        /\ tx'.cutoff = tx.cutoff /\ tx'.gone = tx.gone
        /\ tx'.work.spans = tx.work.spans /\ tx'.work.index = tx.work.index
        /\ tx'.work.traces = Recompute(tx.work.traces, tx.work.spans, t)
        /\ DOMAIN tx' = DOMAIN tx /\ DOMAIN tx'.work = DOMAIN tx.work
        /\ ~ RefusesCost(TraceCost(tx.work.spans, t))
    BY <1>1, <1>3, RecomputeTraceFields
  <2>2. InsertTx /\ tx.next = Len(tx.batch) + 1
    BY <1>1 DEF IInv, RecomputePhase
  <2>3. t \in TraceIds /\ Summary(t, OfTrace(tx.work.spans, t)).trace = t
    BY <1>1 DEF TypeOK, Summary
  <2>4. TypeOK'
    <3>1. IsDatabase(tx'.work)
      BY <1>1, <2>1, <2>3 DEF TypeOK, IsDatabase, Recompute
    <3>. QED
      BY <1>1, <2>1, <3>1 DEF TypeOK, Phases
  <2>5. RowInRange(Summary(t, OfTrace(tx.work.spans, t)))
    BY <2>1 DEF RefusesCost, TraceCost, RowInRange
  <2>6. \A r \in tx'.work.traces : r.trace \notin tx'.touched => RowInRange(r)
    BY <2>1, <2>2, <2>5 DEF InsertTx, Recompute
  <2>7. SumsInRange(tx'.work.spans, TracesTo(tx.batch, tx.next - 1) \ tx'.touched)
    BY <2>1, <2>2 DEF InsertTx, SumsInRange, RefusesCost
  <2>8. ExactBeyond(tx'.work.traces, tx'.work.spans, tx'.touched)
    BY <2>1, <2>2, RecomputeRepairsRow DEF InsertTx
  <2>9. InsertTx'
    BY <1>1, <2>1, <2>2, <2>6, <2>7, <2>8 DEF InsertTx
  <2>10. CASE tx.touched = {t}
    BY <1>1, <2>1, <2>2, <2>4, <2>9, <2>10 DEF IInv, UpsertPhase, RecomputePhase,
       DeleteSpansPhase, DeleteTracesPhase, CommitPhase
  <2>11. CASE tx.touched # {t}
    BY <1>1, <2>1, <2>2, <2>4, <2>9, <2>11 DEF IInv, UpsertPhase, RecomputePhase,
       DeleteSpansPhase, DeleteTracesPhase, CommitPhase
  <2>. QED
    BY <2>10, <2>11
<1>. QED
  BY <1>2, <1>3

\* purgeBatch begins from a copy and chooses expired traces.
LEMMA BeginPurgeKeepsIInv ==
    ASSUME IInv, NEW cutoff \in Cutoffs, BeginPurge(cutoff)
    PROVE  IInv'
<1>1. PICK gone \in SUBSET Expired(db.traces, db.spans, cutoff) :
          tx' = [Idle EXCEPT !.phase = "deleteSpans", !.work = db,
                             !.cutoff = cutoff, !.gone = gone]
  BY DEF BeginPurge
<1>2. /\ tx'.phase = "deleteSpans" /\ tx'.work = db /\ tx'.batch = <<>> /\ tx'.next = 1
      /\ tx'.touched = {} /\ tx'.cutoff = cutoff /\ tx'.gone = gone
      /\ DOMAIN tx' = DOMAIN Idle /\ db' = db
  BY <1>1 DEF BeginPurge, Idle
<1>3. /\ db.spans \in SUBSET Span /\ db.traces = Summaries(db.spans) /\ cutoff \in Int
  BY CutoffsAreTimes DEF IInv, TypeOK, IsDatabase, Committed, TracesSummarizeSpans
<1>4. \A t \in gone : t \in TracesOf(db.spans) /\ LongOver(db.spans, t, cutoff)
  BY <1>3, ExpiredIsLongOver
<1>5. TypeOK'
  <2>1. gone \subseteq TraceIds
    BY <1>3, <1>4 DEF TracesOf, Span
  <2>. QED
    BY <1>2, <1>3, <2>1 DEF IInv, TypeOK, Phases
<1>6. Committed'
  BY <1>2, CommittedIsFixed DEF IInv
<1>7. PurgeTx'
  BY <1>2, <1>4 DEF PurgeTx
<1>. QED
  BY <1>2, <1>5, <1>6, <1>7 DEF IInv, UpsertPhase, RecomputePhase, DeleteSpansPhase,
                                DeleteTracesPhase, CommitPhase

\* Deleting the spans of the chosen traces, with their index entries.
LEMMA DeleteSpansKeepsIInv ==
    ASSUME IInv, DeleteSpans
    PROVE  IInv'
<1>. DEFINE dead == {s \in tx.work.spans : s.trace \in tx.gone}
<1>1. TypeOK /\ tx.phase = "deleteSpans"
  BY DEF IInv, DeleteSpans
<1>2. /\ db' = db /\ tx'.phase = "deleteTraces"
      /\ tx'.batch = tx.batch /\ tx'.next = tx.next /\ tx'.touched = tx.touched
      /\ tx'.cutoff = tx.cutoff /\ tx'.gone = tx.gone
      /\ tx'.work.spans = tx.work.spans \ dead
      /\ tx'.work.index = IndexDelete(tx.work.index, dead)
      /\ tx'.work.traces = tx.work.traces
      /\ DOMAIN tx' = DOMAIN tx /\ DOMAIN tx'.work = DOMAIN tx.work
  BY <1>1, DeleteSpansFields
<1>3. /\ PurgeTx /\ tx.work.traces = db.traces
      /\ tx.work.spans = db.spans /\ tx.work.index = Entries(db.spans)
      /\ db.spans \in SUBSET Span
  BY <1>1 DEF IInv, DeleteSpansPhase, Committed, IndexMatchesSpans, TypeOK, IsDatabase
<1>4. SpansPurged'
  <2>1. IndexDelete(Entries(db.spans), dead) = Entries(db.spans \ dead)
    BY <1>3, IndexDeleteIsExact
  <2>. QED
    BY <1>2, <1>3, <2>1 DEF SpansPurged
<1>5. TypeOK'
  <2>1. tx'.work.spans \subseteq tx.work.spans /\ tx'.work.index \subseteq tx.work.index
    BY <1>2 DEF IndexDelete
  <2>2. IsDatabase(tx'.work)
    BY <1>1, <1>2, <2>1 DEF TypeOK, IsDatabase, OneRowPerKey
  <2>. QED
    BY <1>1, <1>2, <2>2 DEF TypeOK, Phases
<1>6. Committed'
  BY <1>2, CommittedIsFixed DEF IInv
<1>7. PurgeTx' /\ tx'.work.traces = db'.traces
  BY <1>2, <1>3 DEF PurgeTx
<1>. QED
  BY <1>2, <1>4, <1>5, <1>6, <1>7 DEF IInv, UpsertPhase, RecomputePhase,
     DeleteSpansPhase, DeleteTracesPhase, CommitPhase

\* Deleting the summary rows of the chosen traces.
LEMMA DeleteTracesKeepsIInv ==
    ASSUME IInv, DeleteTraces
    PROVE  IInv'
<1>1. TypeOK /\ tx.phase = "deleteTraces"
  BY DEF IInv, DeleteTraces
<1>2. /\ db' = db /\ tx'.phase = "commit"
      /\ tx'.batch = tx.batch /\ tx'.next = tx.next /\ tx'.touched = tx.touched
      /\ tx'.cutoff = tx.cutoff /\ tx'.gone = tx.gone
      /\ tx'.work.spans = tx.work.spans /\ tx'.work.index = tx.work.index
      /\ tx'.work.traces = {r \in tx.work.traces : r.trace \notin tx.gone}
      /\ DOMAIN tx' = DOMAIN tx /\ DOMAIN tx'.work = DOMAIN tx.work
  BY <1>1, DeleteTracesFields
<1>3. PurgeTx /\ SpansPurged /\ tx.work.traces = db.traces
  BY <1>1 DEF IInv, DeleteTracesPhase
<1>4. PurgeTx' /\ SpansPurged'
  BY <1>2, <1>3 DEF PurgeTx, SpansPurged
<1>5. TypeOK'
  <2>1. IsDatabase(tx'.work)
    BY <1>1, <1>2 DEF TypeOK, IsDatabase
  <2>. QED
    BY <1>1, <1>2, <2>1 DEF TypeOK, Phases
<1>6. Committed'
  BY <1>2, CommittedIsFixed DEF IInv
<1>7. tx'.work.traces = {r \in db'.traces : r.trace \notin tx'.gone}
  BY <1>2, <1>3
<1>. QED
  BY <1>2, <1>4, <1>5, <1>6, <1>7 DEF IInv, UpsertPhase, RecomputePhase,
     DeleteSpansPhase, DeleteTracesPhase, CommitPhase

\* A finished transaction is a well formed database.
LEMMA CommitKeepsIInv ==
    ASSUME IInv, Commit
    PROVE  IInv'
<1>1. /\ TypeOK /\ tx.phase = "commit" /\ db' = tx.work /\ tx' = Idle
      /\ IsDatabase(tx.work) /\ tx.work.spans \in SUBSET Span
  BY DEF IInv, Commit, TypeOK, IsDatabase
<1>2. Committed'
  <2>1. CASE InsertTx /\ tx.touched = {}
    <3>1. tx.work.traces = Summaries(tx.work.spans)
      BY <1>1, <2>1, ExactIsSummaries DEF InsertTx, IsDatabase
    <3>. QED
      BY <1>1, <2>1, <3>1 DEF InsertTx, Committed, TracesSummarizeSpans,
         IndexMatchesSpans, TraceCostsInRange, RowInRange
  <2>2. CASE /\ SpansPurged
             /\ tx.work.traces = {r \in db.traces : r.trace \notin tx.gone}
    <3>1. db.spans \in SUBSET Span /\ db.traces = Summaries(db.spans)
      BY DEF IInv, TypeOK, IsDatabase, Committed, TracesSummarizeSpans
    <3>2. tx.work.traces = Summaries(tx.work.spans)
      BY <2>2, <3>1, PurgeKeepsRows, ZenonT(60) DEF SpansPurged
    <3>. QED
      BY <1>1, <2>2, <3>2 DEF IInv, SpansPurged, Committed, TracesSummarizeSpans,
         IndexMatchesSpans, TraceCostsInRange
  <2>. QED
    BY <1>1, <2>1, <2>2 DEF IInv, CommitPhase
<1>. QED
  BY <1>1, <1>2, IdleKeepsIInv

\* A dropped transaction leaves the committed tables alone.
LEMMA RollbackKeepsIInv ==
    ASSUME IInv, Rollback
    PROVE  IInv'
<1>1. tx' = Idle /\ db' = db /\ IsDatabase(db') /\ Committed'
  BY CommittedIsFixed DEF IInv, Rollback, TypeOK, IsDatabase
<1>. QED
  BY <1>1, IdleKeepsIInv

\* Every statement keeps the inductive invariant.
LEMMA NextKeepsIInv == IInv /\ [Next]_vars => IInv'
<1>. SUFFICES ASSUME IInv, [Next]_vars PROVE IInv'
  OBVIOUS
<1>1. CASE Next
  BY <1>1, BeginInsertKeepsIInv, UpsertSpanKeepsIInv, RecomputeTraceKeepsIInv,
     BeginPurgeKeepsIInv, DeleteSpansKeepsIInv, DeleteTracesKeepsIInv,
     CommitKeepsIInv, RollbackKeepsIInv DEF Next
<1>2. CASE UNCHANGED vars
  BY <1>2 DEF vars, IInv, TypeOK, Committed, TracesSummarizeSpans, IndexMatchesSpans,
     TraceCostsInRange, UpsertPhase, RecomputePhase, DeleteSpansPhase,
     DeleteTracesPhase, CommitPhase, InsertTx, PurgeTx, SpansPurged
<1>. QED
  BY <1>1, <1>2

------------------------------------------------------------------------------
(* The theorems *)

\* The inductive invariant holds in every reachable state.
THEOREM StoreInvariant == Spec => []IInv
BY InitEstablishesIInv, NextKeepsIInv, PTL DEF Spec

\* The tables stay well typed: a span has one row per key, during and after
\* every transaction.
THEOREM StoreTypeCorrect == Spec => []TypeOK
<1>1. IInv => TypeOK
  BY DEF IInv
<1>. QED
  BY <1>1, StoreInvariant, PTL

\* After every commit the traces table is the summary of the spans table.
THEOREM TracesSummarizeSpansHolds == Spec => []TracesSummarizeSpans
<1>1. IInv => TracesSummarizeSpans
  BY DEF IInv, Committed
<1>. QED
  BY <1>1, StoreInvariant, PTL

\* After every commit the full-text index is the text of the spans table.
THEOREM IndexMatchesSpansHolds == Spec => []IndexMatchesSpans
<1>1. IInv => IndexMatchesSpans
  BY DEF IInv, Committed
<1>. QED
  BY <1>1, StoreInvariant, PTL

\* No trace is ever committed with a cost out of range.
THEOREM TraceCostsInRangeHolds == Spec => []TraceCostsInRange
<1>1. IInv => TraceCostsInRange
  BY DEF IInv, Committed
<1>. QED
  BY <1>1, StoreInvariant, PTL

\* The committed spans change only when a transaction commits.
LEMMA OnlyCommitChangesSpans == [Next]_vars => Commit \/ db' = db
BY DEF Next, vars, BeginInsert, UpsertSpan, RecomputeTrace, BeginPurge, DeleteSpans,
       DeleteTraces, Rollback

\* What a commit puts in place of the committed spans: the batch over them, or
\* what is left of them without the expired traces.
LEMMA CommittedSpans ==
    ASSUME IInv, Commit
    PROVE  \/ InsertTx /\ tx.next = Len(tx.batch) + 1 /\ tx.touched = {}
              /\ db'.spans = tx.work.spans
           \/ PurgeTx /\ db'.spans = {s \in db.spans : s.trace \notin tx.gone}
BY DEF IInv, Commit, CommitPhase, SpansPurged

\* A step takes a span away only with its whole trace, which is over.
LEMMA SpansLeaveWhole ==
    ASSUME IInv, [Next]_vars, NEW s \in db.spans, \A r \in db'.spans : Key(r) # Key(s)
    PROVE  /\ LongOver(db.spans, s.trace, tx.cutoff)
           /\ s.trace \notin TracesOf(db'.spans)
<1>1. CASE db' = db
  BY <1>1
<1>2. CASE Commit
  <2>1. CASE InsertTx /\ db'.spans = tx.work.spans
    BY <2>1 DEF InsertTx
  <2>2. CASE PurgeTx /\ db'.spans = {r \in db.spans : r.trace \notin tx.gone}
    <3>1. s.trace \in tx.gone
      BY <2>2
    <3>. QED
      BY <2>2, <3>1 DEF PurgeTx, TracesOf
  <2>. QED
    BY <1>2, <2>1, <2>2, CommittedSpans
<1>. QED
  BY <1>1, <1>2, OnlyCommitChangesSpans

\* A span leaves the database only with its whole trace, all of whose spans
\* ended before the cutoff.
THEOREM PurgesOnlyLongOverHolds == Spec => PurgesOnlyLongOver
<1>1. ASSUME IInv, [Next]_vars
      PROVE  \A s \in db.spans :
                 (\A r \in db'.spans : Key(r) # Key(s)) =>
                     /\ LongOver(db.spans, s.trace, tx.cutoff)
                     /\ s.trace \notin TracesOf(db'.spans)
  BY <1>1, SpansLeaveWhole
<1>. QED
  BY <1>1, StoreInvariant, PTL DEF Spec, PurgesOnlyLongOver

\* The operators that SpanLedger takes from SpanTable are those of SpanStore.
LEMMA LedgerOperators ==
    ASSUME NEW S, NEW batch, NEW ts, NEW t, NEW cutoff
    PROVE  /\ Ledger!SpanCostsInRange(batch) <=> SpanCostsInRange(batch)
           /\ Ledger!UpsertAll(S, batch) = UpsertAll(S, batch)
           /\ Ledger!TracesOfBatch(batch) = TracesOfBatch(batch)
           /\ Ledger!SumsInRange(S, ts) <=> SumsInRange(S, ts)
           /\ Ledger!TracesOf(S) = TracesOf(S)
           /\ Ledger!LongOver(S, t, cutoff) <=> LongOver(S, t, cutoff)
<1>1. Ledger!SpanCostsInRange(batch) <=> SpanCostsInRange(batch)
  BY DEF Ledger!SpanCostsInRange, SpanCostsInRange, Ledger!CostInRange, CostInRange
<1>2. Ledger!UpsertAll(S, batch) = UpsertAll(S, batch)
  BY DEF Ledger!UpsertAll, UpsertAll, Ledger!LastWrites, LastWrites, Ledger!Key, Key
<1>3. Ledger!TracesOfBatch(batch) = TracesOfBatch(batch)
  BY DEF Ledger!TracesOfBatch, TracesOfBatch
<1>4. Ledger!TracesOf(S) = TracesOf(S)
  BY DEF Ledger!TracesOf, TracesOf
<1>5. Ledger!LongOver(S, t, cutoff) <=> LongOver(S, t, cutoff)
  BY DEF Ledger!LongOver, LongOver, Ledger!OfTrace, OfTrace, Ledger!Unfinished, Unfinished
<1>6. ASSUME NEW u PROVE Ledger!TraceCost(S, u) = TraceCost(S, u)
  <2>1. Ledger!OfTrace(S, u) = OfTrace(S, u)
    BY DEF Ledger!OfTrace, OfTrace
  <2>2. TraceCost(S, u) = BilledSum(OfTrace(S, u), LAMBDA s : s.cost)
    BY DEF TraceCost, Summary
  <2>3. Ledger!TraceCost(S, u) = Ledger!BilledSum(Ledger!OfTrace(S, u), LAMBDA s : s.cost)
    BY DEF Ledger!TraceCost, Ledger!Summary
  <2>4. ASSUME NEW T
        PROVE Ledger!BilledSum(T, LAMBDA s : s.cost) = BilledSum(T, LAMBDA s : s.cost)
    BY Zenon DEF BilledSum, Ledger!BilledSum, MapThenSumSet, Ledger!MapThenSumSet,
           MapThenFoldSet, Ledger!MapThenFoldSet, BilledKinds, Ledger!BilledKinds
  <2>. QED
    BY <2>1, <2>2, <2>3, <2>4
<1>7. Ledger!SumsInRange(S, ts) <=> SumsInRange(S, ts)
  BY <1>6 DEF Ledger!SumsInRange, SumsInRange, Ledger!CostInRange, CostInRange
<1>. QED
  BY <1>1, <1>2, <1>3, <1>4, <1>5, <1>7

\* The transactions implement the ledger: the spans start empty, a commit is
\* one recorded batch or one expiry, and every other step stutters.
THEOREM StoreImplementsLedger == Spec => ImplementsLedger
<1>1. Init => Ledger!Init
  BY DEF Init, Empty, Ledger!Init
<1>2. ASSUME IInv, [Next]_vars PROVE [Ledger!Next]_(db.spans)
  <2>1. CASE db' = db
    BY <2>1
  <2>2. CASE Commit
    <3>1. CASE InsertTx /\ tx.next = Len(tx.batch) + 1 /\ tx.touched = {}
               /\ db'.spans = tx.work.spans
      <4>1. tx.batch \in Batches /\ tx.next - 1 = Len(tx.batch)
        BY <3>1, BatchSpans DEF InsertTx
      <4>2. /\ db'.spans = UpsertAll(db.spans, tx.batch)
            /\ SumsInRange(db'.spans, TracesOfBatch(tx.batch))
        <5>1. /\ UpsertedTo(db.spans, tx.batch, Len(tx.batch)) = UpsertAll(db.spans, tx.batch)
              /\ TracesTo(tx.batch, Len(tx.batch)) = TracesOfBatch(tx.batch)
          BY UpsertedToEnd
        <5>. QED
          BY <3>1, <4>1, <5>1 DEF InsertTx, SumsInRange
      <4>3. Ledger!Record(tx.batch)
        BY <3>1, <4>2, LedgerOperators DEF InsertTx, Ledger!Record
      <4>. QED
        BY <4>1, <4>3 DEF Ledger!Next
    <3>2. CASE PurgeTx /\ db'.spans = {s \in db.spans : s.trace \notin tx.gone}
      <4>1. Ledger!Expire(tx.cutoff)
        BY <3>2, LedgerOperators DEF PurgeTx, Ledger!Expire
      <4>. QED
        BY <3>2, <4>1 DEF PurgeTx, Ledger!Next
    <3>. QED
      BY <1>2, <2>2, <3>1, <3>2, CommittedSpans
  <2>. QED
    BY <1>2, <2>1, <2>2, OnlyCommitChangesSpans
<1>. QED
  BY <1>1, <1>2, StoreInvariant, PTL DEF Spec, ImplementsLedger, Ledger!Spec


------------------------------------------------------------------------------
(* Sums *)

\* Among sets that are finite there is a smallest.
LEMMA SmallestSet ==
    ASSUME NEW S, IsFiniteSet(S), NEW C \in SUBSET SUBSET S, C # {}
    PROVE  \E T \in C : \A U \in C : U \subseteq T => U = T
<1>1. C \subseteq FiniteSubsetsOf(S)
  BY FS_FiniteSubsetsOfFinite
<1>2. PICK T \in C : \A U \in C : ~ (<<U, T>> \in StrictSubsetOrdering(S))
  BY <1>1, WFMin, FS_StrictSubsetOrderingWellFounded
<1>. QED
  BY <1>2 DEF StrictSubsetOrdering

CostSum(S) == MapThenSumSet(LAMBDA s : s.cost, S)

Chosen(S) == CHOOSE x \in S : TRUE

\* One step of the fold that adds up costs.
Step(iter, S) == IF S = {} THEN 0 ELSE Chosen(S).cost + iter[S \ {Chosen(S)}]

Adds(iter, S) == iter = [T \in SUBSET S |-> Step(iter, T)]

\* A sum of costs is a fold.
LEMMA CostSumFolds ==
    ASSUME NEW S
    PROVE  CostSum(S) = (CHOOSE iter : Adds(iter, S))[S]
BY DEF CostSum, MapThenSumSet, MapThenFoldSet, Adds, Step, Chosen

\* Two folds agree on the sets that both have.
LEMMA FoldsAgree ==
    ASSUME NEW S, IsFiniteSet(S), NEW T, NEW f, NEW g, Adds(f, S), Adds(g, T),
           NEW U \in SUBSET S, U \in SUBSET T
    PROVE  f[U] = g[U]
<1>. DEFINE C == {V \in SUBSET S : V \subseteq T /\ f[V] # g[V]}
<1>1. SUFFICES ASSUME C # {} PROVE FALSE
  BY <1>1
<1>2. PICK V \in C : \A W \in C : W \subseteq V => W = V
  <2>1. C \in SUBSET SUBSET S
    OBVIOUS
  <2>. HIDE DEF C
  <2>. QED
    BY <1>1, <2>1, SmallestSet
<1>3. V \in SUBSET S /\ V \in SUBSET T
  BY <1>2
<1>4. f[V] = Step(f, V) /\ g[V] = Step(g, V)
  BY <1>3 DEF Adds
<1>5. V # {} => f[V \ {Chosen(V)}] = g[V \ {Chosen(V)}]
  BY <1>2, <1>3 DEF Chosen
<1>. QED
  BY <1>2, <1>4, <1>5 DEF Step

\* A finite set has a fold.
LEMMA FoldExists ==
    ASSUME NEW S, IsFiniteSet(S)
    PROVE  \E iter : Adds(iter, S)
<1>. DEFINE C == {V \in SUBSET S : ~ \E iter : Adds(iter, V)}
<1>1. SUFFICES ASSUME C # {} PROVE FALSE
  BY <1>1
<1>2. PICK T \in C : \A U \in C : U \subseteq T => U = T
  <2>1. C \in SUBSET SUBSET S
    OBVIOUS
  <2>. HIDE DEF C
  <2>. QED
    BY <1>1, <2>1, SmallestSet
<1>. DEFINE F(V) == CHOOSE iter : Adds(iter, V)
            Rest(V) == V \ {Chosen(V)}
            g == [V \in SUBSET T |-> IF V = {} THEN 0 ELSE Chosen(V).cost + F(Rest(V))[Rest(V)]]
<1>3. ASSUME NEW V \in SUBSET T, V # T PROVE Adds(F(V), V) /\ IsFiniteSet(V)
  <2>1. V \in SUBSET S /\ V \notin C
    BY <1>2, <1>3
  <2>. QED
    BY <2>1, FS_Subset
<1>4. ASSUME NEW V \in SUBSET T, V # T PROVE g[V] = F(V)[V]
  <2>1. F(V)[V] = Step(F(V), V)
    <3>1. Adds(F(V), V)
      BY <1>3, <1>4
    <3>. HIDE DEF F
    <3>. QED
      BY <3>1 DEF Adds
  <2>2. CASE V = {}
    BY <2>1, <2>2 DEF Step
  <2>3. CASE V # {}
    <3>1. Rest(V) \in SUBSET V /\ Rest(V) \in SUBSET T /\ Rest(V) # T
      BY <1>4, <2>3 DEF Chosen
    <3>2. /\ Adds(F(Rest(V)), Rest(V)) /\ IsFiniteSet(Rest(V))
          /\ Adds(F(V), V) /\ IsFiniteSet(V)
      BY <1>3, <1>4, <3>1
    <3>3. F(V)[Rest(V)] = F(Rest(V))[Rest(V)]
      BY <3>1, <3>2, FoldsAgree
    <3>. QED
      BY <2>1, <2>3, <3>3 DEF Step
  <2>. QED
    BY <2>2, <2>3
<1>5. ASSUME NEW V \in SUBSET T PROVE g[V] = Step(g, V)
  <2>1. CASE V = {}
    BY <2>1 DEF Step
  <2>2. CASE V # {}
    <3>1. Rest(V) \in SUBSET T /\ Rest(V) # T
      BY <1>5, <2>2 DEF Chosen
    <3>2. g[Rest(V)] = F(Rest(V))[Rest(V)]
      BY <1>4, <3>1
    <3>. QED
      BY <2>2, <3>2 DEF Step
  <2>. QED
    BY <2>1, <2>2
<1>6. Adds(g, T)
  BY <1>5 DEF Adds
<1>. QED
  BY <1>2, <1>6

\* The sum, an element at a time.
LEMMA CostSumStep ==
    ASSUME NEW S, IsFiniteSet(S)
    PROVE  CostSum(S) = IF S = {} THEN 0 ELSE Chosen(S).cost + CostSum(S \ {Chosen(S)})
<1>. DEFINE F(V) == CHOOSE iter : Adds(iter, V)
            rest == S \ {Chosen(S)}
<1>1. CostSum(S) = F(S)[S] /\ CostSum(rest) = F(rest)[rest]
  BY CostSumFolds
<1>2. IsFiniteSet(rest)
  BY FS_Subset
<1>3. Adds(F(S), S) /\ Adds(F(rest), rest)
  BY <1>2, FoldExists
<1>4. F(S)[S] = Step(F(S), S)
  BY <1>3 DEF Adds
<1>5. F(S)[rest] = F(rest)[rest]
  BY <1>2, <1>3, FoldsAgree
<1>. QED
  BY <1>1, <1>4, <1>5 DEF Step

HasCosts(S) == IsFiniteSet(S) /\ \A s \in S : s.cost \in Int

\* The sum is a number, and taking any element out takes its cost off.
LEMMA CostSumRemove ==
    ASSUME NEW S, HasCosts(S)
    PROVE  /\ CostSum(S) \in Int
           /\ S = {} => CostSum(S) = 0
           /\ \A x \in S : CostSum(S) = x.cost + CostSum(S \ {x})
<1>. DEFINE Good(V) == /\ CostSum(V) \in Int
                       /\ \A x \in V : CostSum(V) = x.cost + CostSum(V \ {x})
            C == {V \in SUBSET S : ~ Good(V)}
<1>0. S = {} => CostSum(S) = 0
  BY CostSumStep DEF HasCosts
<1>1. SUFFICES ASSUME C # {} PROVE FALSE
  BY <1>0, <1>1, Zenon
<1>2. PICK T \in C : \A U \in C : U \subseteq T => U = T
  <2>1. C \in SUBSET SUBSET S /\ IsFiniteSet(S)
    BY DEF HasCosts
  <2>. HIDE DEF C
  <2>. QED
    BY <1>1, <2>1, SmallestSet
<1>3. (\A U \in SUBSET T : U # T => Good(U)) /\ ~ Good(T)
  BY <1>2
<1>4. IsFiniteSet(T) /\ \A s \in T : s.cost \in Int
  BY <1>2, FS_Subset DEF HasCosts
<1>. HIDE DEF C
<1>5. CASE T = {}
  <2>1. CostSum(T) = 0
    BY <1>4, <1>5, CostSumStep
  <2>. QED
    BY <1>3, <1>5, <2>1
<1>6. CASE T # {}
  <2>. DEFINE y == Chosen(T)
  <2>1. y \in T
    BY <1>6 DEF Chosen
  <2>2. CostSum(T) = y.cost + CostSum(T \ {y})
    BY <1>4, <1>6, CostSumStep
  <2>. HIDE DEF y
  <2>3. Good(T \ {y})
    BY <1>3, <2>1
  <2>4. ASSUME NEW x \in T, x # y PROVE CostSum(T) = x.cost + CostSum(T \ {x})
    <3>1. Good(T \ {x}) /\ Good((T \ {x}) \ {y})
      BY <1>3, <2>4
    <3>2. CostSum(T \ {y}) = x.cost + CostSum((T \ {y}) \ {x})
      BY <2>3, <2>4
    <3>3. CostSum(T \ {x}) = y.cost + CostSum((T \ {x}) \ {y})
      BY <2>1, <2>4, <3>1
    <3>4. CostSum((T \ {y}) \ {x}) = CostSum((T \ {x}) \ {y})
      <4>1. (T \ {y}) \ {x} = (T \ {x}) \ {y}
        OBVIOUS
      <4>. QED
        BY <4>1
    <3>5. x.cost \in Int /\ y.cost \in Int /\ CostSum((T \ {x}) \ {y}) \in Int
      BY <1>4, <2>1, <2>4, <3>1
    <3>. QED
      BY <2>2, <3>2, <3>3, <3>4, <3>5
  <2>5. CostSum(T) \in Int
    BY <1>4, <2>1, <2>2, <2>3
  <2>6. Good(T)
    BY <2>2, <2>4, <2>5
  <2>. QED
    BY <1>3, <2>6
<1>. QED
  BY <1>5, <1>6

\* The sum over two sets without a common element.
LEMMA CostSumUnion ==
    ASSUME NEW A, NEW B, HasCosts(A), HasCosts(B), A \cap B = {}
    PROVE  CostSum(A \cup B) = CostSum(A) + CostSum(B)
<1>. DEFINE C == {V \in SUBSET B : CostSum(A \cup V) # CostSum(A) + CostSum(V)}
<1>1. SUFFICES ASSUME C # {} PROVE FALSE
  BY <1>1
<1>2. PICK T \in C : \A U \in C : U \subseteq T => U = T
  <2>1. C \in SUBSET SUBSET B /\ IsFiniteSet(B)
    BY DEF HasCosts
  <2>. HIDE DEF C
  <2>. QED
    BY <1>1, <2>1, SmallestSet
<1>3. HasCosts(T) /\ HasCosts(A \cup T)
  BY <1>2, FS_Subset, FS_Union DEF HasCosts
<1>4. CASE T = {}
  <2>1. CostSum(T) = 0 /\ CostSum(A) \in Int
    BY <1>3, <1>4, CostSumRemove
  <2>2. A \cup T = A
    BY <1>4
  <2>3. CostSum(A \cup T) = CostSum(A)
    BY <2>2
  <2>. QED
    BY <1>2, <2>1, <2>3
<1>5. CASE T # {}
  <2>1. PICK x \in T : TRUE
    BY <1>5
  <2>2. x \in B /\ x \notin A /\ x.cost \in Int
    BY <1>2, <2>1 DEF HasCosts
  <2>3. CostSum(A \cup (T \ {x})) = CostSum(A) + CostSum(T \ {x})
    BY <1>2, <2>1
  <2>4. (A \cup T) \ {x} = A \cup (T \ {x})
    BY <2>2
  <2>5. /\ CostSum(T) = x.cost + CostSum(T \ {x})
        /\ CostSum(A \cup T) = x.cost + CostSum((A \cup T) \ {x})
    BY <1>3, <2>1, CostSumRemove
  <2>6. HasCosts(T \ {x})
    BY <1>3, FS_Subset DEF HasCosts
  <2>7. CostSum(A) \in Int /\ CostSum(T \ {x}) \in Int
    BY <2>6, CostSumRemove
  <2>. QED
    BY <1>2, <2>2, <2>3, <2>4, <2>5, <2>7
<1>. QED
  BY <1>4, <1>5

\* Adding up the rows of groups is adding up what they group.
LEMMA CostSumOfGroups ==
    ASSUME NEW D, IsFiniteSet(D), NEW L, HasCosts(L), NEW G \in [D -> SUBSET L],
           \A d, e \in D : d # e => G[d] \cap G[e] = {},
           \A d \in D : d.cost = CostSum(G[d])
    PROVE  CostSum(D) = CostSum(UNION {G[d] : d \in D})
<1>. DEFINE Of(E) == UNION {G[d] : d \in E}
            C == {E \in SUBSET D : CostSum(E) # CostSum(Of(E))}
<1>1. SUFFICES ASSUME C # {} PROVE FALSE
  BY <1>1
<1>2. PICK E \in C : \A U \in C : U \subseteq E => U = E
  <2>1. C \in SUBSET SUBSET D
    OBVIOUS
  <2>. HIDE DEF C
  <2>. QED
    BY <1>1, <2>1, SmallestSet
<1>3. \A V \in SUBSET L : HasCosts(V) /\ CostSum(V) \in Int /\ (V = {} => CostSum(V) = 0)
  <2>1. \A V \in SUBSET L : HasCosts(V)
    BY FS_Subset DEF HasCosts
  <2>. QED
    BY <2>1, CostSumRemove
<1>4. \A d \in D : G[d] \in SUBSET L /\ d.cost \in Int
  BY <1>3
<1>5. HasCosts(E)
  BY <1>2, <1>4, FS_Subset DEF HasCosts
<1>6. CASE E = {}
  <2>1. CostSum(E) = 0
    BY <1>5, <1>6, CostSumRemove
  <2>2. Of(E) = {} /\ Of(E) \in SUBSET L
    BY <1>6
  <2>3. CostSum(Of(E)) = 0
    BY <1>3, <2>2
  <2>. QED
    BY <1>2, <2>1, <2>3
<1>7. CASE E # {}
  <2>1. PICK d \in E : TRUE
    BY <1>7
  <2>2. CostSum(E) = d.cost + CostSum(E \ {d})
    BY <1>5, CostSumRemove
  <2>3. CostSum(E \ {d}) = CostSum(Of(E \ {d}))
    BY <1>2, <2>1
  <2>4. Of(E) = G[d] \cup Of(E \ {d}) /\ Of(E \ {d}) \in SUBSET L
    BY <1>2, <1>4, <2>1
  <2>5. G[d] \cap Of(E \ {d}) = {}
    BY <1>2, <2>1
  <2>6. HasCosts(G[d]) /\ HasCosts(Of(E \ {d}))
    BY <1>2, <1>3, <1>4, <2>1, <2>4
  <2>7. CostSum(Of(E)) = CostSum(G[d]) + CostSum(Of(E \ {d}))
    BY <2>4, <2>5, <2>6, CostSumUnion
  <2>. QED
    BY <1>2, <2>1, <2>2, <2>3, <2>7
<1>. QED
  BY <1>6, <1>7

------------------------------------------------------------------------------
(* The tree of a trace *)

Kids(S, P) == UNION {Children(S, p) : p \in P}

IsLevels(f, S) == f = [n \in Nat |-> IF n = 0 THEN Roots(S) ELSE Kids(S, f[n - 1])]

\* What is rendered is the union of the levels of the tree.
LEMMA RenderedLevels ==
    ASSUME NEW S
    PROVE  Rendered(S) = UNION {(CHOOSE f : IsLevels(f, S))[n] : n \in 0 .. Cardinality(S)}
BY DEF Rendered, IsLevels, Kids

\* The levels down to the n-th.
LevelsTo(g, S, n) == g[0] = Roots(S) /\ \A i \in 1 .. n : g[i] = Kids(S, g[i - 1])

\* Levels are determined, up to any number of them.
LEMMA LevelsAgree ==
    ASSUME NEW S, NEW m \in Nat, NEW n \in Nat, NEW g, NEW h,
           LevelsTo(g, S, m), LevelsTo(h, S, n), NEW i \in Nat, i <= m, i <= n
    PROVE  g[i] = h[i]
<1>. DEFINE C == {j \in Nat : j <= m /\ j <= n /\ g[j] # h[j]}
<1>1. SUFFICES ASSUME C # {} PROVE FALSE
  BY <1>1
<1>2. PICK j \in C : \A k \in C : j <= k
  <2>1. C \in SUBSET Nat
    OBVIOUS
  <2>. HIDE DEF C
  <2>. QED
    BY <1>1, <2>1, LeastNatural
<1>3. j # 0
  BY <1>2 DEF LevelsTo
<1>4. j - 1 \in Nat /\ j - 1 \notin C
  BY <1>2, <1>3
<1>5. g[j - 1] = h[j - 1]
  BY <1>2, <1>4
<1>6. j \in 1 .. m /\ j \in 1 .. n
  BY <1>2, <1>3
<1>7. g[j] = Kids(S, g[j - 1]) /\ h[j] = Kids(S, h[j - 1])
  BY <1>6 DEF LevelsTo
<1>. QED
  BY <1>2, <1>5, <1>7

\* There are levels up to any number.
LEMMA LevelsToExist ==
    ASSUME NEW S, NEW n \in Nat
    PROVE  \E g : LevelsTo(g, S, n)
<1>. DEFINE C == {j \in Nat : ~ \E g : LevelsTo(g, S, j)}
<1>1. SUFFICES ASSUME C # {} PROVE FALSE
  BY <1>1
<1>2. PICK j \in C : \A k \in C : j <= k
  <2>1. C \in SUBSET Nat
    OBVIOUS
  <2>. HIDE DEF C
  <2>. QED
    BY <1>1, <2>1, LeastNatural
<1>3. j # 0
  <2>1. LevelsTo([i \in 0 .. 0 |-> Roots(S)], S, 0)
    BY DEF LevelsTo
  <2>. QED
    BY <1>2, <2>1
<1>4. j - 1 \in Nat /\ j - 1 \notin C
  BY <1>2, <1>3
<1>5. PICK g : LevelsTo(g, S, j - 1)
  BY <1>4
<1>. DEFINE h == [i \in 0 .. j |-> IF i = j THEN Kids(S, g[j - 1]) ELSE g[i]]
<1>6. h[0] = Roots(S)
  BY <1>2, <1>3, <1>5 DEF LevelsTo
<1>7. ASSUME NEW i \in 1 .. j PROVE h[i] = Kids(S, h[i - 1])
  <2>0. j \in Nat
    BY <1>2
  <2>1. h[i - 1] = g[i - 1]
    BY <2>0
  <2>2. CASE i = j
    BY <2>0, <2>1, <2>2
  <2>3. CASE i # j
    <3>1. i \in 1 .. j - 1 /\ i \in 0 .. j
      BY <2>0, <2>3
    <3>2. g[i] = Kids(S, g[i - 1])
      BY <1>5, <3>1 DEF LevelsTo
    <3>3. h[i] = g[i]
      BY <2>3, <3>1
    <3>. QED
      BY <2>1, <3>2, <3>3
  <2>. QED
    BY <2>2, <2>3
<1>8. LevelsTo(h, S, j)
  <2>. HIDE DEF h
  <2>. QED
    BY <1>6, <1>7 DEF LevelsTo
<1>. QED
  BY <1>2, <1>8

\* The recursive definition of the levels has a solution.
LEMMA LevelsExist ==
    ASSUME NEW S
    PROVE  \E f : IsLevels(f, S)
<1>. DEFINE G(n) == CHOOSE g : LevelsTo(g, S, n)
            f == [n \in Nat |-> G(n)[n]]
<1>1. \A n \in Nat : LevelsTo(G(n), S, n)
  BY LevelsToExist
<1>2. f[0] = Roots(S)
  BY <1>1 DEF LevelsTo
<1>3. ASSUME NEW n \in Nat, n # 0 PROVE f[n] = Kids(S, f[n - 1])
  <2>1. n - 1 \in Nat /\ n \in 1 .. n
    BY <1>3
  <2>2. LevelsTo(G(n), S, n) /\ LevelsTo(G(n - 1), S, n - 1)
    BY <1>1, <2>1
  <2>. HIDE DEF G
  <2>3. G(n)[n - 1] = G(n - 1)[n - 1]
    BY <2>1, <2>2, LevelsAgree
  <2>4. G(n)[n] = Kids(S, G(n)[n - 1])
    BY <2>1, <2>2 DEF LevelsTo
  <2>5. f[n] = G(n)[n] /\ f[n - 1] = G(n - 1)[n - 1]
    BY <2>1
  <2>. HIDE DEF f
  <2>. QED
    BY <2>3, <2>4, <2>5
<1>4. f = [n \in Nat |-> f[n]]
  OBVIOUS
<1>. HIDE DEF f
<1>5. \A n \in Nat : f[n] = IF n = 0 THEN Roots(S) ELSE Kids(S, f[n - 1])
  BY <1>2, <1>3
<1>. QED
  BY <1>4, <1>5 DEF IsLevels

IdsDiffer(S) == \A p, q \in S : p.id = q.id => p = q

\* A span is on one level only, and on none if it belongs to a ring.
LEMMA LevelsAreApart ==
    ASSUME NEW S, IdsDiffer(S), NEW f, IsLevels(f, S)
    PROVE  /\ \A n \in Nat : f[n] \subseteq S
           /\ \A m, n \in Nat : m < n => f[m] \cap f[n] = {}
           /\ \A n \in Nat : f[n] \cap Ringed(S) = {}
<1>1. f[0] = Roots(S) /\ \A n \in Nat \ {0} : f[n] = Kids(S, f[n - 1])
  BY DEF IsLevels
<1>2. \A n \in Nat : f[n] \subseteq S
  BY <1>1 DEF Roots, Kids, Children
<1>3. ASSUME NEW n \in Nat, n # 0, NEW s \in f[n]
      PROVE  n - 1 \in Nat /\ \A p \in S : p.id = s.parent => p \in f[n - 1]
  <2>1. n - 1 \in Nat
    BY <1>3
  <2>2. PICK p \in f[n - 1] : s \in Children(S, p)
    BY <1>1, <1>3 DEF Kids
  <2>3. p \in S /\ s.parent = p.id
    BY <1>2, <2>1, <2>2 DEF Children
  <2>. QED
    BY <2>1, <2>2, <2>3 DEF IdsDiffer
<1>4. ASSUME NEW n \in Nat, NEW s \in f[n]
      PROVE  (\E p \in S : p.id = s.parent) <=> n # 0
  <2>1. CASE n = 0
    BY <1>1, <1>4, <2>1 DEF Roots
  <2>2. CASE n # 0
    <3>1. n - 1 \in Nat
      BY <2>2
    <3>2. PICK p \in f[n - 1] : s \in Children(S, p)
      BY <1>1, <1>4, <2>2 DEF Kids
    <3>. QED
      BY <1>2, <2>2, <3>1, <3>2 DEF Children
  <2>. QED
    BY <2>1, <2>2
<1>5. ASSUME NEW n0 \in Nat, NEW m0 \in Nat, m0 < n0, f[m0] \cap f[n0] # {}
      PROVE  FALSE
  <2>. DEFINE C == {m \in Nat : \E n \in Nat : m < n /\ f[m] \cap f[n] # {}}
  <2>1. C \in SUBSET Nat /\ C # {}
    BY <1>5
  <2>2. PICK m \in C : \A k \in C : m <= k
    <3>. HIDE DEF C
    <3>. QED
      BY <2>1, LeastNatural
  <2>3. PICK n \in Nat : m < n /\ f[m] \cap f[n] # {}
    BY <2>2
  <2>4. PICK s \in f[m] : s \in f[n]
    BY <2>3
  <2>5. m \in Nat /\ n # 0 /\ m # 0
    BY <1>4, <2>2, <2>3, <2>4
  <2>6. PICK p \in S : p.id = s.parent
    BY <1>4, <2>4, <2>5
  <2>7. p \in f[m - 1] /\ p \in f[n - 1] /\ m - 1 \in Nat /\ n - 1 \in Nat
    BY <1>3, <2>4, <2>5, <2>6
  <2>8. m - 1 \in C
    BY <2>3, <2>5, <2>7
  <2>. QED
    BY <2>2, <2>5, <2>8
<1>6. ASSUME NEW n0 \in Nat, f[n0] \cap Ringed(S) # {}
      PROVE  FALSE
  <2>. DEFINE C == {n \in Nat : f[n] \cap Ringed(S) # {}}
  <2>1. C \in SUBSET Nat /\ C # {}
    BY <1>6
  <2>2. PICK n \in C : \A k \in C : n <= k
    <3>. HIDE DEF C
    <3>. QED
      BY <2>1, LeastNatural
  <2>3. PICK s \in f[n] : s \in Ringed(S)
    BY <2>2
  <2>4. PICK X \in SUBSET S : s \in X /\ \A q \in X : \E p \in X : p.id = q.parent
    BY <2>3 DEF Ringed
  <2>5. PICK p \in X : p.id = s.parent
    BY <2>4
  <2>6. n \in Nat /\ n # 0
    BY <1>4, <2>2, <2>3, <2>4, <2>5
  <2>7. p \in f[n - 1] /\ n - 1 \in Nat
    BY <1>3, <2>3, <2>4, <2>5, <2>6
  <2>8. p \in Ringed(S)
    BY <2>4 DEF Ringed
  <2>9. n - 1 \in C
    BY <2>7, <2>8
  <2>. QED
    BY <2>2, <2>6, <2>9
<1>. QED
  BY <1>2, <1>5, <1>6

\* A level that is not empty has that many levels of spans above it.
LEMMA LevelsAreFew ==
    ASSUME NEW S, IsFiniteSet(S), IdsDiffer(S), NEW f, IsLevels(f, S),
           NEW n \in Nat, f[n] # {}
    PROVE  n \in 0 .. Cardinality(S)
<1>1. f[0] = Roots(S) /\ \A i \in Nat \ {0} : f[i] = Kids(S, f[i - 1])
  BY DEF IsLevels
<1>2. \A i \in 0 .. n : f[i] # {}
  <2>. DEFINE C == {k \in Nat : k <= n /\ f[n - k] = {}}
  <2>1. SUFFICES ASSUME C # {} PROVE FALSE
    <3>1. ASSUME NEW i \in 0 .. n, f[i] = {} PROVE n - i \in C
      <4>1. n - (n - i) = i
        OBVIOUS
      <4>. QED
        BY <3>1, <4>1
    <3>. QED
      BY <2>1, <3>1
  <2>2. PICK k \in C : \A l \in C : k <= l
    <3>1. C \in SUBSET Nat
      OBVIOUS
    <3>. HIDE DEF C
    <3>. QED
      BY <2>1, <3>1, LeastNatural
  <2>3. k \in Nat /\ k # 0 /\ k <= n /\ f[n - k] = {}
    BY <2>2
  <2>4. k - 1 \in Nat /\ k - 1 \notin C
    BY <2>2, <2>3
  <2>5. f[n - (k - 1)] # {}
    BY <2>3, <2>4
  <2>6. n - (k - 1) \in Nat \ {0} /\ (n - (k - 1)) - 1 = n - k
    BY <2>3
  <2>7. f[n - (k - 1)] = Kids(S, f[n - k])
    BY <1>1, <2>6
  <2>. QED
    BY <2>3, <2>5, <2>7 DEF Kids
<1>. DEFINE g == [i \in 0 .. n |-> CHOOSE s \in f[i] : TRUE]
<1>3. \A i \in 0 .. n : g[i] \in f[i] /\ g[i] \in S
  BY <1>2, LevelsAreApart
<1>4. ASSUME NEW i \in 0 .. n, NEW j \in 0 .. n, g[i] = g[j] PROVE i = j
  <2>1. f[i] \cap f[j] # {}
    BY <1>3, <1>4
  <2>2. ~ (i < j) /\ ~ (j < i)
    BY <2>1, LevelsAreApart
  <2>. QED
    BY <2>2
<1>5. g \in Injection(0 .. n, S)
  <2>1. g \in [0 .. n -> S]
    BY <1>3
  <2>. QED
    BY <1>4, <2>1 DEF Injection, IsInjective
<1>6. Cardinality(0 .. n) <= Cardinality(S)
  BY <1>5, FS_Injection
<1>7. Cardinality(0 .. n) = n + 1 /\ Cardinality(S) \in Nat
  BY FS_Interval, FS_CardinalityType
<1>. QED
  BY <1>6, <1>7

\* buildTree shows every span that is not in a ring of parents.
LEMMA RenderedIsUnringed ==
    ASSUME NEW S, IsFiniteSet(S), IdsDiffer(S)
    PROVE  Rendered(S) = S \ Ringed(S)
<1>. DEFINE f == CHOOSE g : IsLevels(g, S)
<1>1. IsLevels(f, S)
  BY LevelsExist
<1>2. Rendered(S) = UNION {f[n] : n \in 0 .. Cardinality(S)}
  BY RenderedLevels
<1>. HIDE DEF f
<1>3. f[0] = Roots(S) /\ \A n \in Nat \ {0} : f[n] = Kids(S, f[n - 1])
  BY <1>1 DEF IsLevels
<1>4. ASSUME NEW s \in Rendered(S) PROVE s \in S \ Ringed(S)
  <2>1. PICK n \in 0 .. Cardinality(S) : s \in f[n]
    BY <1>2
  <2>2. n \in Nat
    BY <2>1, FS_CardinalityType
  <2>. QED
    BY <1>1, <2>1, <2>2, LevelsAreApart
<1>5. ASSUME NEW s \in S, s \notin Rendered(S) PROVE s \in Ringed(S)
  <2>. DEFINE X == {q \in S : \A n \in Nat : q \notin f[n]}
  <2>1. \A n \in Nat : f[n] # {} => n \in 0 .. Cardinality(S)
    BY <1>1, LevelsAreFew
  <2>2. s \in X
    BY <1>2, <1>5, <2>1
  <2>3. ASSUME NEW q \in X PROVE \E p \in X : p.id = q.parent
    <3>1. q \in S /\ q \notin f[0]
      OBVIOUS
    <3>2. PICK p \in S : p.id = q.parent
      BY <1>3, <3>1 DEF Roots
    <3>3. ASSUME NEW n \in Nat, p \in f[n] PROVE q \in f[n + 1]
      <4>1. n + 1 \in Nat \ {0} /\ (n + 1) - 1 = n
        OBVIOUS
      <4>. QED
        BY <1>3, <3>1, <3>2, <3>3, <4>1 DEF Kids, Children
    <3>4. p \in X
      BY <3>3
    <3>. QED
      BY <3>2, <3>4
  <2>. QED
    BY <2>2, <2>3 DEF Ringed
<1>. QED
  BY <1>4, <1>5

------------------------------------------------------------------------------
(* Finite sets in order *)

\* A set has no more images than elements.
LEMMA FiniteImage ==
    ASSUME NEW S, IsFiniteSet(S), NEW f
    PROVE  IsFiniteSet({f[x] : x \in S})
<1>. DEFINE T == {f[x] : x \in S}
            g == [x \in S |-> f[x]]
<1>1. g \in Surjection(S, T)
  BY DEF Surjection
<1>. QED
  BY <1>1, FS_Surjection

\* A finite set that a relation orders has a first element.
LEMMA LeastElement ==
    ASSUME NEW S, IsFiniteSet(S), S # {}, NEW R,
           \A x \in S : <<x, x>> \notin R,
           \A x, y \in S : x # y => <<x, y>> \in R \/ <<y, x>> \in R,
           \A x, y, z \in S : <<x, y>> \in R /\ <<y, z>> \in R => <<x, z>> \in R
    PROVE  \E x \in S : \A y \in S \ {x} : <<x, y>> \in R
<1>. DEFINE Before(x) == {y \in S : <<y, x>> \in R}
            C == {Before(x) : x \in S}
<1>1. PICK T \in C : \A U \in C : U \subseteq T => U = T
  <2>1. \A x \in S : Before(x) \in SUBSET S
    OBVIOUS
  <2>. HIDE DEF Before
  <2>2. C \in SUBSET SUBSET S /\ C # {}
    BY <2>1
  <2>. HIDE DEF C
  <2>. QED
    BY <2>2, SmallestSet
<1>2. PICK x \in S : T = Before(x)
  BY <1>1
<1>3. ASSUME NEW y \in S, <<y, x>> \in R PROVE FALSE
  <2>1. Before(y) \subseteq Before(x)
    BY <1>3
  <2>2. y \in Before(x) /\ y \notin Before(y)
    BY <1>3
  <2>. HIDE DEF Before
  <2>. QED
    BY <1>1, <1>2, <2>1, <2>2
<1>. QED
  BY <1>3

\* Below orders pairs of numbers.
LEMMA BelowIsOrder ==
    ASSUME NEW a \in Int \X Int, NEW b \in Int \X Int, NEW c \in Int \X Int
    PROVE  /\ ~ Below(a, a)
           /\ a # b => Below(a, b) \/ Below(b, a)
           /\ ~ (Below(a, b) /\ Below(b, a))
           /\ Below(a, b) /\ Below(b, c) => Below(a, c)
<1>1. /\ a[1] \in Int /\ a[2] \in Int /\ a = <<a[1], a[2]>>
      /\ b[1] \in Int /\ b[2] \in Int /\ b = <<b[1], b[2]>>
      /\ c[1] \in Int /\ c[2] \in Int
  OBVIOUS
<1>2. a # b => a[1] # b[1] \/ a[2] # b[2]
  BY <1>1
<1>. QED
  BY <1>1, <1>2 DEF Below

KeyedRows(R) == \A r \in R : r.key \in Int \X Int

\* The last key of a page is that of one of its rows, and below all others.
LEMMA LastKeyIsLast ==
    ASSUME NEW page, IsFiniteSet(page), page # {}, KeyedRows(page)
    PROVE  \E r \in page : LastKey(page) = r.key /\ \A q \in page : ~ Below(q.key, r.key)
<1>. DEFINE Keys == {r.key : r \in page}
            R == {p \in Keys \X Keys : Below(p[1], p[2])}
<1>1. IsFiniteSet(Keys)
  <2>. DEFINE f == [r \in page |-> r.key]
  <2>1. IsFiniteSet({f[r] : r \in page})
    BY FiniteImage
  <2>2. {f[r] : r \in page} = Keys
    OBVIOUS
  <2>. QED
    BY <2>1, <2>2
<1>2. Keys # {} /\ \A k \in Keys : k \in Int \X Int
  BY DEF KeyedRows
<1>3. \A k, l \in Keys : <<k, l>> \in R <=> Below(k, l)
  OBVIOUS
<1>. HIDE DEF Keys, R
<1>4. PICK k \in Keys : \A l \in Keys \ {k} : <<k, l>> \in R
  <2>1. \A x \in Keys : <<x, x>> \notin R
    BY <1>2, <1>3, BelowIsOrder
  <2>2. \A x, y \in Keys : x # y => <<x, y>> \in R \/ <<y, x>> \in R
    BY <1>2, <1>3, BelowIsOrder
  <2>3. \A x, y, z \in Keys : <<x, y>> \in R /\ <<y, z>> \in R => <<x, z>> \in R
    BY <1>2, <1>3, BelowIsOrder
  <2>. QED
    BY <1>1, <1>2, <2>1, <2>2, <2>3, LeastElement
<1>5. \A l \in Keys : ~ Below(l, k)
  BY <1>2, <1>3, <1>4, BelowIsOrder
<1>6. \E r \in page : \A q \in page : ~ Below(q.key, r.key)
  BY <1>5 DEF Keys
<1>. DEFINE last == CHOOSE r \in page : \A q \in page : ~ Below(q.key, r.key)
<1>7. last \in page /\ \A q \in page : ~ Below(q.key, last.key)
  BY <1>6
<1>8. LastKey(page) = last.key
  BY DEF LastKey
<1>. QED
  BY <1>7, <1>8

------------------------------------------------------------------------------
(* One page *)

\* What a page takes of the rows: the ones no other row is above.
LEMMA NewestIsTop ==
    ASSUME NEW rows, IsFiniteSet(rows), NEW page \in Newest(rows, PageSize)
    PROVE  /\ page \subseteq rows /\ IsFiniteSet(page)
           /\ \A r \in page, q \in rows \ page : ~ Below(r.key, q.key)
           /\ Cardinality(rows) > PageSize => page # {}
           /\ ~ (Cardinality(rows) > PageSize) => page = rows
<1>1. Cardinality(rows) \in Nat /\ PageSize \in Nat \ {0}
  BY FS_CardinalityType, PageSizeIsPositive
<1>2. CASE Cardinality(rows) <= PageSize
  BY <1>1, <1>2 DEF Newest
<1>3. CASE ~ (Cardinality(rows) <= PageSize)
  <2>1. /\ page \in SUBSET rows /\ Cardinality(page) = PageSize
        /\ \A r \in page, q \in rows \ page : ~ Below(r.key, q.key)
    BY <1>3 DEF Newest, kSubset
  <2>2. page # {}
    BY <1>1, <2>1, FS_EmptySet
  <2>. QED
    BY <1>1, <1>3, <2>1, <2>2, FS_Subset
<1>. QED
  BY <1>2, <1>3

------------------------------------------------------------------------------
(* What a committed database is like *)

GoodDb(d) ==
    /\ d.spans \in SUBSET Span
    /\ OneRowPerKey(d.spans)
    /\ IsFiniteSet(d.spans)
    /\ d.traces = Summaries(d.spans)

\* Times are numbers.
LEMMA TimesAreNumbers == \A n \in Time : n \in Int
BY TimeIsInterval DEF Time

\* The fields of a span.
LEMMA SpanTypes ==
    ASSUME NEW s \in Span
    PROVE  /\ s.start \in Time /\ s.end \in Time /\ s.start \in Int /\ s.end \in Int
           /\ s.trace \in TraceIds /\ s.trace \in Int
           /\ s.id \in SpanIds /\ s.id \in Int
           /\ s.cost \in Int \cup {NULL}
<1>1. /\ s.start \in Time /\ s.end \in Time /\ s.trace \in TraceIds
      /\ s.id \in SpanIds /\ s.cost \in Int \cup {NULL}
  BY DEF Span
<1>2. s.start \in Int /\ s.end \in Int
  BY <1>1, TimesAreNumbers
<1>3. s.trace \in Int /\ s.id \in Int
  <2>1. \A n \in TraceIds \cup SpanIds : n \in Int
    BY IdsAreNaturals
  <2>. QED
    BY <1>1, <2>1, Zenon
<1>. QED
  BY <1>1, <1>2, <1>3

\* Times have a smallest.
LEMMA MinOfTimes ==
    ASSUME NEW S \in SUBSET Time, S # {}
    PROVE  Min(S) \in S
<1>. DEFINE T == {x - MinTime : x \in S}
<1>1. \A x \in S : x - MinTime \in Nat /\ x \in Int
  BY TimeIsInterval DEF Time
<1>2. T \in SUBSET Nat /\ T # {}
  BY <1>1
<1>3. PICK m \in T : \A y \in T : m <= y
  <2>. HIDE DEF T
  <2>. QED
    BY <1>2, LeastNatural
<1>4. PICK x \in S : m = x - MinTime
  BY <1>3
<1>5. ASSUME NEW y \in S PROVE x <= y
  <2>1. m <= y - MinTime
    BY <1>3
  <2>. QED
    BY <1>1, <1>4, <2>1, TimeIsInterval
<1>. QED
  BY <1>5 DEF Min

\* The first span of a trace is one of its spans.
LEMMA FirstIsElement ==
    ASSUME NEW S \in SUBSET Span, IsFiniteSet(S), S # {}, IdsDiffer(S)
    PROVE  First(S, Precedes) \in S
<1>. DEFINE R == {p \in S \X S : Precedes(p[1], p[2])}
<1>1. \A s \in S : s.start \in Int /\ s.id \in Int
  BY SpanTypes
<1>2. \A x, y \in S : <<x, y>> \in R <=> Precedes(x, y)
  OBVIOUS
<1>. HIDE DEF R
<1>3. \A x \in S : <<x, x>> \notin R
  BY <1>1, <1>2 DEF Precedes
<1>4. \A x, y \in S : x # y => <<x, y>> \in R \/ <<y, x>> \in R
  BY <1>1, <1>2 DEF Precedes, IdsDiffer
<1>5. \A x, y, z \in S : <<x, y>> \in R /\ <<y, z>> \in R => <<x, z>> \in R
  BY <1>1, <1>2 DEF Precedes
<1>6. \E x \in S : \A y \in S \ {x} : <<x, y>> \in R
  BY <1>3, <1>4, <1>5, LeastElement
<1>7. \E x \in S : \A y \in S \ {x} : Precedes(x, y)
  BY <1>2, <1>6
<1>. QED
  BY <1>7 DEF First

\* The spans of a trace are finitely many, and told apart by their ids.
LEMMA TraceSpans ==
    ASSUME NEW d, GoodDb(d), NEW t
    PROVE  /\ OfTrace(d.spans, t) \in SUBSET Span
           /\ IsFiniteSet(OfTrace(d.spans, t))
           /\ IdsDiffer(OfTrace(d.spans, t))
<1>1. OfTrace(d.spans, t) \in SUBSET d.spans
  BY DEF OfTrace
<1>2. IdsDiffer(OfTrace(d.spans, t))
  BY DEF GoodDb, OfTrace, IdsDiffer, OneRowPerKey, Key
<1>. QED
  BY <1>1, <1>2, FS_Subset DEF GoodDb

\* What a row of traces says, and of which type it is.
LEMMA TraceRow ==
    ASSUME NEW d, GoodDb(d), NEW r \in d.traces
    PROVE  LET S == OfTrace(d.spans, r.trace)
           IN  /\ r = Summary(r.trace, S)
               /\ r.trace \in TracesOf(d.spans)
               /\ r.trace \in Int
               /\ r.start \in Time
               /\ r.end \in Time
               /\ r.spans = Cardinality(S)
               /\ r.cost = BilledSum(S, LAMBDA s : s.cost)
               /\ r.session # NULL => r.session \in Int
<1>1. PICK t \in TracesOf(d.spans) : r = Summary(t, OfTrace(d.spans, t))
  BY DEF GoodDb, Summaries
<1>2. r.trace = t
  BY <1>1 DEF Summary
<1>. DEFINE S == OfTrace(d.spans, t)
<1>3. S \in SUBSET Span /\ IsFiniteSet(S) /\ IdsDiffer(S) /\ S # {} /\ t \in Int
  <2>1. PICK s \in d.spans : s.trace = t
    BY <1>1 DEF TracesOf
  <2>2. s \in Span /\ s \in S
    BY <2>1 DEF GoodDb, OfTrace
  <2>3. t \in Int
    BY <2>1, <2>2, SpanTypes
  <2>. QED
    BY <2>2, <2>3, TraceSpans
<1>. HIDE DEF S
<1>4. /\ r.start = Min({s.start : s \in S}) /\ r.end = Max({s.end : s \in S})
      /\ r.spans = Cardinality(S) /\ r.session = SessionOf(S)
      /\ r.cost = BilledSum(S, LAMBDA s : s.cost)
  BY <1>1 DEF Summary, S
<1>5. {s.start : s \in S} \in SUBSET Time /\ {s.end : s \in S} \in SUBSET Time
  BY <1>3 DEF Span
<1>6. r.start \in Time /\ r.end \in Time
  <2>1. {s.start : s \in S} # {} /\ {s.end : s \in S} # {}
    BY <1>3
  <2>2. Min({s.start : s \in S}) \in Time
    BY <1>5, <2>1, MinOfTimes
  <2>3. Max({s.end : s \in S}) \in Time
    BY <1>5, <2>1, MaxOfTimes
  <2>. QED
    BY <1>4, <2>2, <2>3
<1>7. r.session # NULL => r.session \in Int
  <2>. DEFINE named == {s \in S : s.session # NULL}
  <2>1. CASE named = {}
    BY <1>4, <2>1 DEF SessionOf
  <2>2. CASE named # {}
    <3>1. named \in SUBSET Span /\ IsFiniteSet(named) /\ IdsDiffer(named)
      BY <1>3, FS_Subset DEF IdsDiffer
    <3>2. First(named, Precedes) \in named
      BY <2>2, <3>1, FirstIsElement
    <3>3. First(named, Precedes).session \in Sessions
      BY <3>1, <3>2 DEF Span
    <3>4. r.session = First(named, Precedes).session
      BY <1>4, <2>2 DEF SessionOf
    <3>. QED
      BY <3>3, <3>4, SessionsAreOrdered
  <2>. QED
    BY <2>1, <2>2
<1>. QED
  BY <1>1, <1>2, <1>3, <1>4, <1>6, <1>7 DEF S

\* There are finitely many traces.
LEMMA TracesAreFinite ==
    ASSUME NEW d, GoodDb(d)
    PROVE  IsFiniteSet(d.traces)
<1>. DEFINE row == [s \in d.spans |-> Summary(s.trace, OfTrace(d.spans, s.trace))]
<1>1. IsFiniteSet({row[s] : s \in d.spans})
  BY FiniteImage DEF GoodDb
<1>2. {row[s] : s \in d.spans} = d.traces
  BY Zenon DEF GoodDb, Summaries, TracesOf
<1>. QED
  BY <1>1, <1>2

\* A list is finite, and its keys are pairs of numbers.
LEMMA RowsAreKeyed ==
    ASSUME NEW d, GoodDb(d), NEW list \in Lists
    PROVE  IsFiniteSet(Rows(list, d)) /\ KeyedRows(Rows(list, d))
<1>0. list.of \in {"traces", "sessions", "search"}
  BY ListsAreQueries
<1>1. \A l : IsFiniteSet(SelectedTraces(l, d)) /\ SelectedTraces(l, d) \subseteq d.traces
  BY TracesAreFinite, FS_Subset DEF SelectedTraces
<1>2. CASE list.of = "traces"
  <2>. DEFINE f == [r \in SelectedTraces(list, d) |-> [key |-> <<r.start, r.trace>>, id |-> r.trace]]
  <2>1. IsFiniteSet({f[r] : r \in SelectedTraces(list, d)})
    BY <1>1, FiniteImage
  <2>2. {f[r] : r \in SelectedTraces(list, d)} = TraceRows(list, d)
    BY DEF TraceRows
  <2>3. \A r \in SelectedTraces(list, d) : <<r.start, r.trace>> \in Int \X Int
    BY <1>1, TraceRow, TimesAreNumbers
  <2>4. KeyedRows(TraceRows(list, d))
    BY <2>3 DEF TraceRows, KeyedRows
  <2>. QED
    BY <1>2, <2>1, <2>2, <2>4 DEF Rows
<1>3. CASE list.of = "sessions"
  <2>. DEFINE named == {r \in SelectedTraces([list EXCEPT !.errors = FALSE], d) : r.session # NULL}
              LastEnd(s) == Max({r.end : r \in {q \in named : q.session = s}})
              f == [r \in named |-> [key |-> <<LastEnd(r.session), r.session>>, id |-> r.session]]
  <2>1. named \in SUBSET d.traces /\ IsFiniteSet(named)
    BY <1>1, FS_Subset
  <2>2. {f[r] : r \in named} = SessionRows(list, d)
    BY DEF SessionRows
  <2>3. ASSUME NEW r \in named
        PROVE  LastEnd(r.session) \in Int /\ r.session \in Int
    <3>1. {q.end : q \in {p \in named : p.session = r.session}} \in SUBSET Time
      BY <2>1, TraceRow
    <3>2. {q.end : q \in {p \in named : p.session = r.session}} # {}
      BY <2>3
    <3>3. LastEnd(r.session) \in Time
      BY <3>1, <3>2, MaxOfTimes
    <3>. QED
      BY <2>1, <2>3, <3>3, TraceRow, TimesAreNumbers
  <2>. HIDE DEF LastEnd, named
  <2>4. KeyedRows({f[r] : r \in named})
    BY <2>3 DEF KeyedRows
  <2>. HIDE DEF f
  <2>5. IsFiniteSet({f[r] : r \in named})
    BY <2>1, FiniteImage
  <2>. QED
    BY <1>3, <2>2, <2>4, <2>5 DEF Rows
<1>4. CASE list.of = "search"
  <2>. DEFINE found == {q \in d.spans : /\ [trace |-> q.trace, id |-> q.id, name |-> list.phrase] \in d.index
                                        /\ \E r \in d.traces : r.trace = q.trace}
              f == [s \in found |-> [key |-> <<s.start, s.id>>, id |-> Key(s)]]
  <2>1. found \in SUBSET d.spans /\ IsFiniteSet(found)
    BY FS_Subset DEF GoodDb
  <2>2. {f[s] : s \in found} = SearchRows(list, d)
    BY DEF SearchRows
  <2>3. \A s \in found : <<s.start, s.id>> \in Int \X Int
    BY <2>1, SpanTypes DEF GoodDb
  <2>. HIDE DEF found
  <2>4. KeyedRows({f[s] : s \in found})
    BY <2>3 DEF KeyedRows
  <2>. HIDE DEF f
  <2>5. IsFiniteSet({f[s] : s \in found})
    BY <2>1, FiniteImage
  <2>. QED
    BY <1>4, <2>2, <2>4, <2>5 DEF Rows
<1>. QED
  BY <1>0, <1>2, <1>3, <1>4

------------------------------------------------------------------------------
(* One page of a walk *)

WalkFields == {"op", "phase", "list", "cursor", "odd", "shown", "twice", "lost", "steady"}

Tied(shown, r) == \E q \in shown : q # r /\ q.key = r.key

\* What a page adds to rests on what has been shown: all of it is above the
\* rest of the list, and of the steady rows nothing else is.
Continues(walk, list, rows, cursor) ==
    /\ ~ walk.twice
    /\ \A r \in walk.shown : IsCursor(list, cursor) /\ ~ Below(r.key, cursor)
    /\ \A r \in walk.steady :
          r \in rows /\ (Tied(walk.shown, r) \/ (r \in walk.shown <=> r \notin Past(list, rows, cursor)))

\* What SteadyRowsShownOnce says, and that nothing below the cursor was shown.
Walked(walk) ==
    /\ ~ walk.twice
    /\ walk.phase = "paging" => \A r \in walk.shown : ~ Below(r.key, walk.cursor)
    /\ \A r \in walk.steady :
          \/ Tied(walk.shown, r)
          \/ r \in walk.shown <=> (walk.phase = "done" \/ ~ Below(r.key, walk.cursor))

\* A page keeps what a walk promises, if the list continues where it stopped.
LEMMA TakePageKeepsWalk ==
    ASSUME NEW list, NEW rows, IsFiniteSet(rows), KeyedRows(rows),
           NEW cursor, cursor = NULL \/ cursor \in Int \X Int,
           NEW walk, DOMAIN walk = WalkFields, KeyedRows(walk.shown),
           TakePage(list, rows, cursor, walk)
    PROVE  /\ DOMAIN read' = WalkFields
           /\ read'.op = walk.op /\ read'.list = walk.list /\ read'.steady = walk.steady
           /\ read'.phase \in {"paging", "done"}
           /\ read'.phase = "paging" => read'.cursor \in Int \X Int
           /\ KeyedRows(read'.shown)
           /\ walk.lost \/ (cursor # NULL /\ ~ IsCursor(list, cursor)) => read'.lost
           /\ Continues(walk, list, rows, cursor) => Walked(read')
<1>. DEFINE rest == Past(list, rows, cursor)
            more == Cardinality(rest) > PageSize
<1>1. PICK page \in Newest(rest, PageSize) :
          read' = [walk EXCEPT
                      !.phase  = IF more THEN "paging" ELSE "done",
                      !.cursor = IF more THEN LastKey(page) ELSE NULL,
                      !.odd    = ~ @,
                      !.shown  = @ \cup page,
                      !.lost   = @ \/ (cursor # NULL /\ ~ IsCursor(list, cursor)),
                      !.twice  = @ \/ walk.shown \cap page # {}]
  BY DEF TakePage
<1>2. /\ DOMAIN read' = WalkFields
      /\ read'.op = walk.op /\ read'.list = walk.list /\ read'.steady = walk.steady
      /\ read'.phase = (IF more THEN "paging" ELSE "done")
      /\ read'.cursor = (IF more THEN LastKey(page) ELSE NULL)
      /\ read'.shown = walk.shown \cup page
  BY <1>1 DEF WalkFields
<1>3. walk.lost \/ (cursor # NULL /\ ~ IsCursor(list, cursor)) => read'.lost
  BY <1>1 DEF WalkFields
<1>4. ~ walk.twice /\ walk.shown \cap page = {} => ~ read'.twice
  BY <1>1 DEF WalkFields
<1>5. rest \subseteq rows /\ IsFiniteSet(rest)
  BY FS_Subset DEF Past
<1>. HIDE DEF rest
<1>6. /\ page \subseteq rest /\ IsFiniteSet(page)
      /\ \A r \in page, q \in rest \ page : ~ Below(r.key, q.key)
      /\ more => page # {}
      /\ ~ more => page = rest
  BY <1>5, NewestIsTop
<1>. HIDE DEF more
<1>7. KeyedRows(page) /\ KeyedRows(read'.shown)
  BY <1>2, <1>5, <1>6 DEF KeyedRows
<1>8. ASSUME more
      PROVE  \E r \in page : LastKey(page) = r.key /\ \A q \in page : ~ Below(q.key, r.key)
  BY <1>6, <1>7, <1>8, LastKeyIsLast
<1>9. more => LastKey(page) \in Int \X Int
  BY <1>7, <1>8 DEF KeyedRows
<1>10. ASSUME Continues(walk, list, rows, cursor) PROVE Walked(read')
  <2>1. \A r \in rest : IsCursor(list, cursor) => Below(r.key, cursor)
    BY DEF rest, Past
  <2>2. walk.shown \cap rest = {}
    BY <1>10, <2>1 DEF Continues
  <2>3. ~ read'.twice
    BY <1>4, <1>6, <1>10, <2>2 DEF Continues
  <2>4. ASSUME more, NEW r \in rows, r \notin rest
        PROVE  ~ Below(r.key, LastKey(page))
    <3>1. IsCursor(list, cursor) /\ ~ Below(r.key, cursor) /\ cursor \in Int \X Int
      BY <2>4 DEF rest, Past, IsCursor
    <3>2. PICK p \in page : LastKey(page) = p.key
      BY <1>8, <2>4
    <3>3. Below(p.key, cursor) /\ p.key \in Int \X Int /\ r.key \in Int \X Int
      BY <1>6, <1>7, <2>1, <2>4, <3>1, <3>2 DEF KeyedRows
    <3>. QED
      BY <3>1, <3>2, <3>3, BelowIsOrder
  <2>5. ASSUME more, NEW r \in walk.shown \cup page
        PROVE  ~ Below(r.key, LastKey(page))
    <3>1. CASE r \in page
      BY <1>8, <2>5, <3>1
    <3>2. CASE r \in walk.shown
      <4>1. IsCursor(list, cursor) /\ ~ Below(r.key, cursor) /\ cursor \in Int \X Int
        BY <1>10, <3>2 DEF Continues, IsCursor
      <4>2. PICK p \in page : LastKey(page) = p.key
        BY <1>8, <2>5
      <4>3. Below(p.key, cursor) /\ p.key \in Int \X Int /\ r.key \in Int \X Int
        BY <1>6, <1>7, <2>1, <3>2, <4>1, <4>2 DEF KeyedRows
      <4>. QED
        BY <4>1, <4>2, <4>3, BelowIsOrder
    <3>. QED
      BY <2>5, <3>1, <3>2
  <2>6. ASSUME NEW r \in walk.steady
        PROVE  \/ Tied(read'.shown, r)
               \/ r \in read'.shown <=> (read'.phase = "done" \/ ~ Below(r.key, read'.cursor))
    <3>1. r \in rows /\ (Tied(walk.shown, r) \/ (r \in walk.shown <=> r \notin rest))
      BY <1>10 DEF Continues, rest
    <3>2. CASE Tied(walk.shown, r)
      BY <1>2, <3>2 DEF Tied
    <3>3. CASE r \in walk.shown <=> r \notin rest
      <4>1. CASE ~ more
        <5>1. r \in read'.shown
          BY <1>2, <1>6, <3>1, <3>3, <4>1
        <5>. QED
          BY <1>2, <4>1, <5>1
      <4>2. CASE more /\ r \notin rest
        BY <1>2, <2>4, <3>1, <3>3, <4>2
      <4>3. CASE more /\ r \in page
        BY <1>2, <2>5, <4>3
      <4>4. CASE more /\ r \in rest \ page
        <5>1. PICK p \in page : LastKey(page) = p.key
          BY <1>8, <4>4
        <5>2. ~ Below(p.key, r.key) /\ p.key \in Int \X Int /\ r.key \in Int \X Int
          BY <1>6, <1>7, <3>1, <4>4, <5>1 DEF KeyedRows
        <5>3. CASE p.key = r.key
          <6>1. p \in read'.shown /\ p # r
            BY <1>2, <4>4, <5>1
          <6>. QED
            BY <5>3, <6>1 DEF Tied
        <5>4. CASE p.key # r.key
          <6>1. Below(r.key, LastKey(page))
            BY <5>1, <5>2, <5>4, BelowIsOrder
          <6>2. r \notin read'.shown
            BY <1>2, <3>3, <4>4
          <6>. QED
            BY <1>2, <4>4, <6>1, <6>2
        <5>. QED
          BY <5>3, <5>4
      <4>. QED
        BY <4>1, <4>2, <4>3, <4>4
    <3>. QED
      BY <3>1, <3>2, <3>3
  <2>. QED
    BY <1>2, <2>3, <2>5, <2>6 DEF Walked
<1>. QED
  BY <1>2, <1>3, <1>7, <1>9, <1>10

------------------------------------------------------------------------------
(* The inductive invariant *)

DbFinite == IsFiniteSet(db.spans) /\ IsFiniteSet(tx.work.spans)

\* A walk, between its pages.
ListRead ==
    read.op = "list" =>
        /\ DOMAIN read = WalkFields
        /\ read.list \in Lists
        /\ read.phase \in {"paging", "done"}
        /\ read.phase = "paging" => read.cursor \in Int \X Int
        /\ KeyedRows(read.shown)
        /\ read.phase = "paging" => read.steady \subseteq Rows(read.list, db)
        /\ ~ read.lost => Walked(read)

\* A trace is read after its summary; until it is purged it has as many spans.
TraceRead ==
    read.op = "trace" =>
        /\ DOMAIN read = {"op", "phase", "trace", "spans", "purged"}
        /\ read.phase \in {"spans", "done"}
        /\ read.trace.start \in Int /\ read.trace.end \in Int /\ read.trace.spans \in Nat
        /\ read.phase = "spans" =>
              \/ read.purged
              \/ Cardinality(OfTrace(db.spans, read.trace.trace)) >= read.trace.spans
        /\ read.phase = "done" =>
              /\ read.spans = OfTrace(db.spans, read.trace.trace)
              /\ read.purged \/ Cardinality(read.spans) >= read.trace.spans

\* The first span of the page stays while its trace does.
FirstRead ==
    read.op = "first" =>
        /\ read.phase \in {"span", "done"}
        /\ read.phase = "span" =>
              /\ DOMAIN read = {"op", "phase", "purged", "key"}
              /\ read.purged \/ \E s \in db.spans : Key(s) = read.key
        /\ read.phase = "done" => read.found \/ read.purged

\* All scans of the charts see the one snapshot.
ChartsRead ==
    read.op = "charts" =>
        /\ GoodDb(read.snapshot)
        /\ read.phase \in {"percentiles", "models", "done"}
        /\ read.days = DaysOf(read.range, read.snapshot)
        /\ read.phase # "percentiles" =>
              read.percentiles = PercentilesOf(read.days, read.range, read.snapshot)
        /\ read.phase = "done" => read.models = ModelRows(read.range, read.snapshot)

ReadIInv ==
    /\ IInv
    /\ DbFinite
    /\ read.op \in {"none", "list", "trace", "first", "charts"}
    /\ ListRead
    /\ TraceRead
    /\ FirstRead
    /\ ChartsRead

------------------------------------------------------------------------------
(* The store beside the reads *)

\* What is committed is what the reads rely on.
LEMMA CommittedIsGood == IInv /\ DbFinite => GoodDb(db)
BY DEF IInv, DbFinite, TypeOK, IsDatabase, Committed, TracesSummarizeSpans, GoodDb

\* A transaction adds a span at a time.
LEMMA WriteKeepsFinite ==
    ASSUME IInv, DbFinite, Next
    PROVE  DbFinite'
<1>0. TypeOK /\ IsFiniteSet(Idle.work.spans)
  BY FS_EmptySet DEF IInv, Idle, Empty
<1>1. ASSUME NEW batch \in Batches, BeginInsert(batch) PROVE DbFinite'
  <2>1. tx'.work = db /\ db' = db
    BY <1>1 DEF BeginInsert, Idle
  <2>. QED
    BY <2>1 DEF DbFinite
<1>2. ASSUME UpsertSpan PROVE DbFinite'
  <2>. DEFINE s == tx.batch[tx.next]
  <2>1. tx'.work.spans = Upsert(tx.work.spans, s) /\ db' = db
    BY <1>0, <1>2, UpsertSpanFields
  <2>. HIDE DEF s
  <2>2. Upsert(tx.work.spans, s) \subseteq tx.work.spans \cup {s}
    BY DEF Upsert
  <2>3. IsFiniteSet(tx.work.spans \cup {s})
    BY FS_AddElement DEF DbFinite
  <2>4. IsFiniteSet(Upsert(tx.work.spans, s))
    BY <2>2, <2>3, FS_Subset
  <2>. QED
    BY <2>1, <2>4 DEF DbFinite
<1>3. ASSUME NEW t \in tx.touched, RecomputeTrace(t) PROVE DbFinite'
  <2>1. db' = db
    BY <1>3 DEF RecomputeTrace
  <2>2. CASE tx' = Idle
    BY <1>0, <2>1, <2>2 DEF DbFinite
  <2>3. CASE tx' # Idle
    BY <1>0, <1>3, <2>1, <2>3, RecomputeTraceFields DEF DbFinite
  <2>. QED
    BY <2>2, <2>3
<1>4. ASSUME NEW cutoff \in Cutoffs, BeginPurge(cutoff) PROVE DbFinite'
  <2>1. tx'.work = db /\ db' = db
    BY <1>4 DEF BeginPurge, Idle
  <2>. QED
    BY <2>1 DEF DbFinite
<1>5. ASSUME DeleteSpans PROVE DbFinite'
  <2>1. tx'.work.spans \subseteq tx.work.spans /\ db' = db
    BY <1>0, <1>5, DeleteSpansFields
  <2>. QED
    BY <2>1, FS_Subset DEF DbFinite
<1>6. ASSUME DeleteTraces PROVE DbFinite'
  BY <1>0, <1>6, DeleteTracesFields DEF DbFinite
<1>7. ASSUME Commit PROVE DbFinite'
  BY <1>0, <1>7 DEF Commit, DbFinite
<1>8. ASSUME Rollback PROVE DbFinite'
  BY <1>0, <1>8 DEF Rollback, DbFinite
<1>. QED
  BY <1>1, <1>2, <1>3, <1>4, <1>5, <1>6, <1>7, <1>8 DEF Next

\* A read changes nothing in the store.
LEMMA StoreStays ==
    ASSUME IInv, DbFinite, UNCHANGED <<db, tx>>
    PROVE  IInv' /\ DbFinite'
BY NextKeepsIInv DEF vars, DbFinite

\* While a trace is not purged it keeps its spans, under their keys, so that
\* there are as many as before.
LEMMA TraceKeepsSpans ==
    ASSUME IInv, DbFinite, Next, NEW t, t \in TracesOf(db'.spans)
    PROVE  /\ \A s \in OfTrace(db.spans, t) : \E r \in OfTrace(db'.spans, t) : Key(r) = Key(s)
           /\ Cardinality(OfTrace(db.spans, t)) \in Nat
           /\ Cardinality(OfTrace(db'.spans, t)) \in Nat
           /\ Cardinality(OfTrace(db.spans, t)) <= Cardinality(OfTrace(db'.spans, t))
<1>. DEFINE S == OfTrace(db.spans, t)
            T == OfTrace(db'.spans, t)
            f == [s \in S |-> CHOOSE r \in T : Key(r) = Key(s)]
<1>1. \A s \in S : \E r \in T : Key(r) = Key(s)
  BY SpansLeaveWhole DEF OfTrace, Key
<1>2. IsFiniteSet(T)
  <2>1. DbFinite' /\ T \subseteq db'.spans
    BY WriteKeepsFinite DEF OfTrace
  <2>. QED
    BY <2>1, FS_Subset DEF DbFinite
<1>3. \A r, s \in S : Key(r) = Key(s) => r = s
  BY DEF IInv, TypeOK, IsDatabase, OneRowPerKey, OfTrace
<1>. HIDE DEF S, T
<1>4. \A s \in S : f[s] \in T /\ Key(f[s]) = Key(s)
  BY <1>1
<1>5. f \in Injection(S, T)
  <2>1. f \in [S -> T]
    BY <1>4
  <2>2. \A r, s \in S : f[r] = f[s] => r = s
    BY <1>3, <1>4
  <2>. HIDE DEF f
  <2>. QED
    BY <2>1, <2>2 DEF Injection, IsInjective
<1>6. Cardinality(S) <= Cardinality(T)
  BY <1>2, <1>5, FS_Injection
<1>7. Cardinality(T) \in Nat
  BY <1>2, FS_CardinalityType
<1>8. Cardinality(S) \in Nat
  BY CommittedIsGood, TraceSpans, FS_CardinalityType DEF S
<1>. QED
  BY <1>1, <1>6, <1>7, <1>8 DEF S, T

------------------------------------------------------------------------------
(* Every step keeps the inductive invariant *)

\* The first page begins a walk with every row steady.
LEMMA FirstPageKeepsIInv ==
    ASSUME ReadIInv, NEW list \in Lists, FirstPage(list)
    PROVE  ReadIInv'
<1>. DEFINE rows == Rows(list, db)
            walk == [op |-> "list", phase |-> "paging", list |-> list, cursor |-> NULL, odd |-> FALSE,
                     shown |-> {}, twice |-> FALSE, lost |-> FALSE, steady |-> rows]
<1>1. IInv' /\ DbFinite' /\ TakePage(list, rows, NULL, walk) /\ db' = db
  BY StoreStays DEF ReadIInv, FirstPage
<1>2. IsFiniteSet(rows) /\ KeyedRows(rows)
  BY CommittedIsGood, RowsAreKeyed DEF ReadIInv
<1>. HIDE DEF rows
<1>3. /\ DOMAIN walk = WalkFields /\ walk.shown = {} /\ walk.steady = rows
      /\ walk.op = "list" /\ walk.list = list /\ ~ walk.twice
  BY DEF WalkFields
<1>. HIDE DEF walk
<1>4. Continues(walk, list, rows, NULL)
  BY <1>3 DEF Continues, Past, IsCursor
<1>5. KeyedRows(walk.shown)
  BY <1>3 DEF KeyedRows
<1>6. /\ DOMAIN read' = WalkFields
      /\ read'.op = "list" /\ read'.list = list /\ read'.steady = rows
      /\ read'.phase \in {"paging", "done"}
      /\ read'.phase = "paging" => read'.cursor \in Int \X Int
      /\ KeyedRows(read'.shown)
      /\ Walked(read')
  BY <1>1, <1>2, <1>3, <1>4, <1>5, TakePageKeepsWalk
<1>. QED
  BY <1>1, <1>6 DEF ReadIInv, ListRead, TraceRead, FirstRead, ChartsRead, rows

\* The next page goes on below the cursor.
LEMMA NextPageKeepsIInv ==
    ASSUME ReadIInv, NextPage
    PROVE  ReadIInv'
<1>. DEFINE rows == Rows(read.list, db)
<1>1. IInv' /\ DbFinite' /\ TakePage(read.list, rows, read.cursor, read) /\ db' = db
  BY StoreStays DEF ReadIInv, NextPage
<1>2. /\ read.op = "list" /\ read.phase = "paging"
      /\ DOMAIN read = WalkFields /\ read.list \in Lists
      /\ read.cursor \in Int \X Int /\ KeyedRows(read.shown)
      /\ read.steady \subseteq rows
      /\ ~ read.lost => Walked(read)
  BY DEF ReadIInv, NextPage, ListRead
<1>3. IsFiniteSet(rows) /\ KeyedRows(rows)
  BY <1>2, CommittedIsGood, RowsAreKeyed DEF ReadIInv
<1>. HIDE DEF rows
<1>4. ASSUME ~ read.lost, IsCursor(read.list, read.cursor)
      PROVE  Continues(read, read.list, rows, read.cursor)
  <2>1. \A r \in rows : r \in Past(read.list, rows, read.cursor) <=> Below(r.key, read.cursor)
    BY <1>4 DEF Past
  <2>. QED
    BY <1>2, <1>4, <2>1 DEF Walked, Continues
<1>5. read.cursor # NULL
  BY <1>2, NullIsNoKey
<1>6. /\ DOMAIN read' = WalkFields
      /\ read'.op = "list" /\ read'.list = read.list /\ read'.steady = read.steady
      /\ read'.phase \in {"paging", "done"}
      /\ read'.phase = "paging" => read'.cursor \in Int \X Int
      /\ KeyedRows(read'.shown)
      /\ read.lost \/ ~ IsCursor(read.list, read.cursor) => read'.lost
      /\ Continues(read, read.list, rows, read.cursor) => Walked(read')
  <2>1. KeyedRows(read.shown) /\ DOMAIN read = WalkFields
    BY <1>2
  <2>2. read.cursor = NULL \/ read.cursor \in Int \X Int
    BY <1>2
  <2>. QED
    BY <1>1, <1>2, <1>3, <1>5, <2>1, <2>2, TakePageKeepsWalk
<1>7. ~ read'.lost => Walked(read')
  BY <1>4, <1>6
<1>. QED
  BY <1>1, <1>2, <1>6, <1>7 DEF ReadIInv, ListRead, TraceRead, FirstRead, ChartsRead, rows

\* A summary counts the spans that its trace has at that time.
LEMMA OpenTraceKeepsIInv ==
    ASSUME ReadIInv, NEW t, OpenTrace(t)
    PROVE  ReadIInv'
<1>1. IInv' /\ DbFinite' /\ db' = db
  BY StoreStays DEF ReadIInv, OpenTrace
<1>2. PICK r \in db.traces :
          read' = [op |-> "trace", phase |-> "spans", trace |-> r, spans |-> {}, purged |-> FALSE]
  BY DEF OpenTrace
<1>3. r.start \in Time /\ r.end \in Time /\ r.spans = Cardinality(OfTrace(db.spans, r.trace))
  BY CommittedIsGood, TraceRow DEF ReadIInv
<1>4. Cardinality(OfTrace(db.spans, r.trace)) \in Nat
  BY CommittedIsGood, TraceSpans, FS_CardinalityType DEF ReadIInv
<1>5. /\ r.start \in Int /\ r.end \in Int /\ r.spans \in Nat
      /\ Cardinality(OfTrace(db.spans, r.trace)) >= r.spans
  BY <1>3, <1>4, TimesAreNumbers
<1>6. /\ DOMAIN read' = {"op", "phase", "trace", "spans", "purged"}
      /\ read'.op = "trace" /\ read'.phase = "spans" /\ read'.trace = r
  BY <1>2
<1>. QED
  BY <1>1, <1>5, <1>6 DEF ReadIInv, ListRead, TraceRead, FirstRead, ChartsRead

\* The second query of a trace gets the spans there are.
LEMMA ReadSpansKeepsIInv ==
    ASSUME ReadIInv, ReadSpans
    PROVE  ReadIInv'
<1>1. IInv' /\ DbFinite' /\ db' = db
  BY StoreStays DEF ReadIInv, ReadSpans
<1>2. /\ read.op = "trace" /\ read.phase = "spans"
      /\ DOMAIN read = {"op", "phase", "trace", "spans", "purged"}
      /\ read.trace.start \in Int /\ read.trace.end \in Int /\ read.trace.spans \in Nat
      /\ \/ read.purged
         \/ Cardinality(OfTrace(db.spans, read.trace.trace)) >= read.trace.spans
  BY DEF ReadIInv, ReadSpans, TraceRead
<1>3. /\ DOMAIN read' = {"op", "phase", "trace", "spans", "purged"}
      /\ read'.op = "trace" /\ read'.phase = "done" /\ read'.trace = read.trace
      /\ read'.spans = OfTrace(db.spans, read.trace.trace)
      /\ read'.purged = read.purged
  BY <1>2 DEF ReadSpans
<1>. QED
  BY <1>1, <1>2, <1>3 DEF ReadIInv, ListRead, TraceRead, FirstRead, ChartsRead

\* The first span of a page is one that is stored.
LEMMA SelectFirstKeepsIInv ==
    ASSUME ReadIInv, SelectFirst
    PROVE  ReadIInv'
<1>1. IInv' /\ DbFinite' /\ db' = db
  BY StoreStays DEF ReadIInv, SelectFirst
<1>2. read.spans = OfTrace(db.spans, read.trace.trace) /\ read.spans # {}
  BY DEF ReadIInv, SelectFirst, TraceRead
<1>3. First(read.spans, Precedes) \in read.spans
  BY <1>2, CommittedIsGood, TraceSpans, FirstIsElement DEF ReadIInv
<1>4. \E s \in db.spans : Key(s) = Key(First(read.spans, Precedes))
  BY <1>2, <1>3 DEF OfTrace
<1>5. /\ DOMAIN read' = {"op", "phase", "purged", "key"}
      /\ read'.op = "first" /\ read'.phase = "span"
      /\ read'.key = Key(First(read.spans, Precedes))
  BY DEF SelectFirst
<1>. QED
  BY <1>1, <1>4, <1>5 DEF ReadIInv, ListRead, TraceRead, FirstRead, ChartsRead

\* The last query of a page finds what is stored.
LEMMA ReadFirstKeepsIInv ==
    ASSUME ReadIInv, ReadFirst
    PROVE  ReadIInv'
<1>1. IInv' /\ DbFinite' /\ db' = db
  BY StoreStays DEF ReadIInv, ReadFirst
<1>2. read.purged \/ \E s \in db.spans : Key(s) = read.key
  BY DEF ReadIInv, ReadFirst, FirstRead
<1>3. /\ read'.op = "first" /\ read'.phase = "done"
      /\ read.purged => read'.purged
      /\ (\E s \in db.spans : Key(s) = read.key) => read'.found
  BY DEF ReadFirst
<1>. QED
  BY <1>1, <1>2, <1>3 DEF ReadIInv, ListRead, TraceRead, FirstRead, ChartsRead

\* The scans of the charts read one snapshot.
LEMMA ChartsKeepIInv ==
    ASSUME ReadIInv, (\E range \in Ranges : BeginCharts(range)) \/ ScanPercentiles \/ ScanModels
    PROVE  ReadIInv'
<1>1. IInv' /\ DbFinite' /\ db' = db
  BY StoreStays DEF ReadIInv, BeginCharts, ScanPercentiles, ScanModels
<1>2. ASSUME NEW range \in Ranges, BeginCharts(range)
      PROVE  read'.op = "charts" /\ ChartsRead'
  <2>1. read' = [op |-> "charts", phase |-> "percentiles", range |-> range,
                 snapshot |-> db, days |-> DaysOf(range, db)]
    BY <1>2 DEF BeginCharts
  <2>. QED
    BY <2>1, CommittedIsGood DEF ReadIInv, ChartsRead
<1>3. ASSUME ScanPercentiles PROVE read'.op = "charts" /\ ChartsRead'
  <2>1. read' = [op |-> "charts", phase |-> "models", range |-> read.range,
                 snapshot |-> read.snapshot, days |-> read.days,
                 percentiles |-> PercentilesOf(read.days, read.range, read.snapshot)]
    BY <1>3 DEF ScanPercentiles, ScanData
  <2>2. read.op = "charts"
    BY <1>3 DEF ScanPercentiles
  <2>. QED
    BY <2>1, <2>2 DEF ReadIInv, ChartsRead
<1>4. ASSUME ScanModels PROVE read'.op \in {"none", "charts"} /\ ChartsRead'
  <2>. DEFINE answer == [op |-> "charts", phase |-> "done", range |-> read.range,
                         snapshot |-> read.snapshot, days |-> read.days,
                         percentiles |-> read.percentiles,
                         models |-> ModelRows(read.range, read.snapshot)]
  <2>1. read' = answer \/ read' = NoRead
    BY <1>4 DEF ScanModels, ScanData
  <2>2. read.op = "charts" /\ read.phase = "models"
    BY <1>4 DEF ScanModels
  <2>3. CASE read' = NoRead
    BY <2>3 DEF NoRead, ChartsRead
  <2>4. CASE read' = answer
    BY <2>2, <2>4 DEF ReadIInv, ChartsRead
  <2>. QED
    BY <2>1, <2>3, <2>4
<1>. QED
  BY <1>1, <1>2, <1>3, <1>4 DEF ReadIInv, ListRead, TraceRead, FirstRead

\* Between two answers nothing is being read.
LEMMA AnsweredKeepsIInv ==
    ASSUME ReadIInv, Answered
    PROVE  ReadIInv'
<1>1. IInv' /\ DbFinite' /\ read'.op = "none"
  BY StoreStays DEF ReadIInv, Answered, NoRead
<1>. QED
  BY <1>1 DEF ReadIInv, ListRead, TraceRead, FirstRead, ChartsRead

\* A step of the writer takes rows from the steady ones, and marks a trace
\* that it purges.
LEMMA WriteKeepsIInv ==
    ASSUME ReadIInv, Write
    PROVE  ReadIInv'
<1>1. Next /\ (read.op # "none" => read.phase # "done")
  BY DEF Write
<1>2. IInv' /\ DbFinite'
  BY <1>1, NextKeepsIInv, WriteKeepsFinite DEF ReadIInv
<1>3. CASE read.op = "list"
  <2>1. /\ DOMAIN read = WalkFields /\ read.phase = "paging" /\ read.list \in Lists
        /\ read.cursor \in Int \X Int /\ KeyedRows(read.shown)
        /\ ~ read.lost => Walked(read)
    BY <1>1, <1>3 DEF ReadIInv, ListRead
  <2>2. read' = [read EXCEPT !.steady = @ \cap Rows(read.list, db')]
    BY <1>3, <2>1 DEF Write
  <2>3. /\ DOMAIN read' = WalkFields /\ read'.op = "list" /\ read'.phase = "paging"
        /\ read'.list = read.list /\ read'.cursor = read.cursor /\ read'.shown = read.shown
        /\ read'.lost = read.lost /\ read'.twice = read.twice
        /\ read'.steady = read.steady \cap Rows(read.list, db')
    BY <1>3, <2>1, <2>2 DEF WalkFields
  <2>4. ~ read'.lost => Walked(read')
    BY <2>1, <2>3 DEF Walked
  <2>. QED
    BY <1>2, <2>1, <2>3, <2>4 DEF ReadIInv, ListRead, TraceRead, FirstRead, ChartsRead
<1>4. CASE read.op = "trace"
  <2>1. /\ DOMAIN read = {"op", "phase", "trace", "spans", "purged"} /\ read.phase = "spans"
        /\ read.trace.start \in Int /\ read.trace.end \in Int /\ read.trace.spans \in Nat
        /\ \/ read.purged
           \/ Cardinality(OfTrace(db.spans, read.trace.trace)) >= read.trace.spans
    BY <1>1, <1>4 DEF ReadIInv, TraceRead
  <2>2. read' = [read EXCEPT !.purged = @ \/ read.trace.trace \notin TracesOf(db'.spans)]
    BY <1>4, <2>1 DEF Write
  <2>3. /\ DOMAIN read' = {"op", "phase", "trace", "spans", "purged"}
        /\ read'.op = "trace" /\ read'.phase = "spans" /\ read'.trace = read.trace
        /\ read.purged \/ read.trace.trace \notin TracesOf(db'.spans) => read'.purged
    BY <1>4, <2>1, <2>2
  <2>4. ASSUME ~ read'.purged
        PROVE  Cardinality(OfTrace(db'.spans, read.trace.trace)) >= read.trace.spans
    <3>. DEFINE t == read.trace.trace
    <3>1. /\ t \in TracesOf(db'.spans)
          /\ Cardinality(OfTrace(db.spans, t)) >= read.trace.spans
      BY <2>1, <2>3, <2>4
    <3>2. /\ Cardinality(OfTrace(db.spans, t)) \in Nat
          /\ Cardinality(OfTrace(db'.spans, t)) \in Nat
          /\ Cardinality(OfTrace(db.spans, t)) <= Cardinality(OfTrace(db'.spans, t))
      BY <1>1, <3>1, TraceKeepsSpans DEF ReadIInv
    <3>3. read.trace.spans \in Nat
      BY <2>1
    <3>. HIDE DEF t
    <3>. QED
      BY <3>1, <3>2, <3>3 DEF t
  <2>. QED
    BY <1>2, <2>1, <2>3, <2>4 DEF ReadIInv, ListRead, TraceRead, FirstRead, ChartsRead
<1>5. CASE read.op = "first"
  <2>1. /\ DOMAIN read = {"op", "phase", "purged", "key"} /\ read.phase = "span"
        /\ read.purged \/ \E s \in db.spans : Key(s) = read.key
    BY <1>1, <1>5 DEF ReadIInv, FirstRead
  <2>2. read' = [read EXCEPT !.purged = @ \/ read.key[1] \notin TracesOf(db'.spans)]
    BY <1>5, <2>1 DEF Write
  <2>3. /\ DOMAIN read' = {"op", "phase", "purged", "key"}
        /\ read'.op = "first" /\ read'.phase = "span" /\ read'.key = read.key
        /\ read.purged \/ read.key[1] \notin TracesOf(db'.spans) => read'.purged
    BY <1>5, <2>1, <2>2
  <2>4. ASSUME ~ read'.purged PROVE \E s \in db'.spans : Key(s) = read.key
    <3>1. PICK s \in db.spans : Key(s) = read.key
      BY <2>1, <2>3, <2>4
    <3>2. s.trace \in TracesOf(db'.spans) /\ s \in OfTrace(db.spans, s.trace)
      BY <2>3, <2>4, <3>1 DEF Key, OfTrace
    <3>3. PICK r \in OfTrace(db'.spans, s.trace) : Key(r) = Key(s)
      BY <1>1, <3>2, TraceKeepsSpans DEF ReadIInv
    <3>. QED
      BY <3>1, <3>3 DEF OfTrace
  <2>. QED
    BY <1>2, <2>3, <2>4 DEF ReadIInv, ListRead, TraceRead, FirstRead, ChartsRead
<1>6. CASE read.op \in {"none", "charts"}
  <2>1. read' = read
    BY <1>6 DEF Write
  <2>. QED
    BY <1>2, <1>6, <2>1 DEF ReadIInv, ListRead, TraceRead, FirstRead, ChartsRead
<1>. QED
  BY <1>3, <1>4, <1>5, <1>6 DEF ReadIInv

\* The invariant holds when nothing is stored and nothing read.
LEMMA InitEstablishesReadIInv == ReadInit => ReadIInv
<1>. SUFFICES ASSUME ReadInit PROVE ReadIInv
  OBVIOUS
<1>1. IInv
  BY InitEstablishesIInv DEF ReadInit
<1>2. DbFinite
  BY FS_EmptySet DEF ReadInit, Init, Idle, Empty, DbFinite
<1>3. read.op = "none"
  BY DEF ReadInit, NoRead
<1>. QED
  BY <1>1, <1>2, <1>3 DEF ReadIInv, ListRead, TraceRead, FirstRead, ChartsRead

\* Every step, of the client or of the writer, keeps the invariant.
LEMMA StepsKeepReadIInv ==
    ASSUME ReadIInv, [ReadNext]_<<db, tx, read>>
    PROVE  ReadIInv'
<1>1. CASE Write
  BY <1>1, WriteKeepsIInv
<1>2. ASSUME NEW list \in Lists, FirstPage(list) PROVE ReadIInv'
  BY <1>2, FirstPageKeepsIInv
<1>3. CASE NextPage
  BY <1>3, NextPageKeepsIInv
<1>4. ASSUME NEW t \in TraceIds, OpenTrace(t) PROVE ReadIInv'
  BY <1>4, OpenTraceKeepsIInv
<1>5. CASE ReadSpans
  BY <1>5, ReadSpansKeepsIInv
<1>6. CASE SelectFirst
  BY <1>6, SelectFirstKeepsIInv
<1>7. CASE ReadFirst
  BY <1>7, ReadFirstKeepsIInv
<1>8. CASE (\E range \in Ranges : BeginCharts(range)) \/ ScanPercentiles \/ ScanModels
  BY <1>8, ChartsKeepIInv
<1>9. CASE Answered
  BY <1>9, AnsweredKeepsIInv
<1>10. CASE UNCHANGED <<db, tx, read>>
  <2>1. IInv' /\ DbFinite' /\ read' = read /\ db' = db
    BY <1>10, StoreStays DEF ReadIInv
  <2>. QED
    BY <2>1 DEF ReadIInv, ListRead, TraceRead, FirstRead, ChartsRead
<1>. QED
  BY <1>1, <1>2, <1>3, <1>4, <1>5, <1>6, <1>7, <1>8, <1>9, <1>10 DEF ReadNext

\* What every state of a client beside the writer has.
THEOREM AlwaysReadIInv == ReadSpec => []ReadIInv
<1>1. ReadInit => ReadIInv
  BY InitEstablishesReadIInv
<1>2. ReadIInv /\ [ReadNext]_<<db, tx, read>> => ReadIInv'
  BY StepsKeepReadIInv
<1>. QED
  BY <1>1, <1>2, PTL DEF ReadSpec

\* The store beside the reads is the store: no query of internal/store/query.go
\* changes it, and so what is proved of the store holds of it here.
THEOREM ReadsLeaveStore == ReadSpec => Spec
<1>1. ReadInit => Init
  BY DEF ReadInit
<1>2. [ReadNext]_<<db, tx, read>> => [Next]_vars
  BY Zenon DEF ReadNext, Write, FirstPage, NextPage, OpenTrace, ReadSpans, SelectFirst, ReadFirst,
               BeginCharts, ScanPercentiles, ScanModels, Answered, vars
<1>. QED
  BY <1>1, <1>2, PTL DEF ReadSpec, Spec

------------------------------------------------------------------------------
(* The properties *)

\* A walk neither skips nor repeats a row that stays as it is, whatever the
\* writer commits between two pages (ListTraces, ListSessions, SearchSpans and
\* the cursors of agentPage).
THEOREM SpecSteadyRowsShownOnce == ReadSpec => []SteadyRowsShownOnce
<1>1. ReadIInv => SteadyRowsShownOnce
  <2>. SUFFICES ASSUME ReadIInv, read.op = "list", ~ read.lost
                PROVE  /\ ~ read.twice
                       /\ \A r \in read.steady :
                             \/ TiedWithShown(r)
                             \/ r \in read.shown <=> (read.phase = "done" \/ ~ Below(r.key, read.cursor))
    BY DEF SteadyRowsShownOnce
  <2>1. Walked(read)
    BY DEF ReadIInv, ListRead
  <2>. QED
    BY <2>1 DEF Walked, Tied, TiedWithShown
<1>. QED
  BY <1>1, AlwaysReadIInv, PTL

\* The greater and the smaller of two numbers.
LEMMA MaxOfTwo ==
    ASSUME NEW a \in Int, NEW b \in Int
    PROVE  Max({a, b}) = IF a >= b THEN a ELSE b
BY DEF Max

LEMMA MinOfTwo ==
    ASSUME NEW a \in Int, NEW b \in Int
    PROVE  Min({a, b}) = IF a <= b THEN a ELSE b
BY DEF Min

\* A rounded quotient is a number.
LEMMA RoundIsNumber ==
    ASSUME NEW a \in Int, NEW b \in Int, b > 0
    PROVE  Round(a, b) \in Int
<1>1. 2 * a + b \in Int /\ b - 2 * a \in Int /\ 2 * b \in Int /\ 2 * b > 0
  OBVIOUS
<1>2. \A m, n \in Int : n > 0 => m \div n \in Int
  OBVIOUS
<1>3. (2 * a + b) \div (2 * b) \in Int /\ (b - 2 * a) \div (2 * b) \in Int
  BY <1>1, <1>2
<1>. QED
  BY <1>3 DEF Round

\* A bar lies inside the window of its trace and can be seen, whenever its span
\* began and ended: the spans are read after the summary, and need not fit in it.
LEMMA BarFitsWindow ==
    ASSUME NEW s, NEW trace, s.start \in Int, s.end \in Int,
           trace.start \in Int, trace.end \in Int
    PROVE  LET bar == Bar(s, trace)
           IN  bar.offset >= 0 /\ bar.width >= 1 /\ bar.offset + bar.width <= 100
<1>. DEFINE window == trace.end - trace.start
            at     == Round((s.start - trace.start) * 100, window)
            length == Round((s.end - s.start) * 100, window)
            offset == Clamp(at, 0, 99)
            width  == Min({Max({length, 1}), 100 - offset})
<1>1. window \in Int /\ (s.start - trace.start) * 100 \in Int /\ (s.end - s.start) * 100 \in Int
  OBVIOUS
<1>2. CASE window <= 0
  BY <1>2 DEF Bar
<1>3. CASE window > 0
  <2>1. at \in Int /\ length \in Int
    BY <1>1, <1>3, RoundIsNumber
  <2>. HIDE DEF at, length
  <2>2. offset \in 0 .. 99
    <3>1. Max({at, 0}) \in Int /\ Max({at, 0}) >= 0
      BY <2>1, MaxOfTwo
    <3>2. Min({Max({at, 0}), 99}) = IF Max({at, 0}) <= 99 THEN Max({at, 0}) ELSE 99
      BY <3>1, MinOfTwo
    <3>. QED
      BY <3>1, <3>2 DEF Clamp
  <2>. HIDE DEF offset
  <2>3. width >= 1 /\ width <= 100 - offset /\ width \in Int
    <3>1. Max({length, 1}) \in Int /\ Max({length, 1}) >= 1
      BY <2>1, MaxOfTwo
    <3>. QED
      BY <2>2, <3>1, MinOfTwo
  <2>. HIDE DEF width
  <2>4. Bar(s, trace) = [offset |-> offset, width |-> width]
    BY <1>1, <1>3 DEF Bar, at, length, offset, width
  <2>. QED
    BY <2>2, <2>3, <2>4
<1>. QED
  BY <1>1, <1>2, <1>3

\* The page of a trace has every span of its summary unless the trace was purged
\* in between, draws all of them but those in a ring with bars inside the window,
\* and finds its first span again unless the trace was purged since (GetTrace,
\* ListTraceAgentSpans, buildTree and GetSpan).
THEOREM SpecPageShowsTrace == ReadSpec => []PageShowsTrace
<1>1. ASSUME ReadIInv, read.op = "trace", read.phase = "done"
      PROVE  /\ ~ read.purged => Cardinality(read.spans) >= read.trace.spans
             /\ Rendered(read.spans) = read.spans \ Ringed(read.spans)
             /\ \A s \in read.spans :
                   LET bar == Bar(s, read.trace)
                   IN  bar.offset >= 0 /\ bar.width >= 1 /\ bar.offset + bar.width <= 100
  <2>1. /\ read.trace.start \in Int /\ read.trace.end \in Int
        /\ read.spans = OfTrace(db.spans, read.trace.trace)
        /\ read.purged \/ Cardinality(read.spans) >= read.trace.spans
    BY <1>1 DEF ReadIInv, TraceRead
  <2>2. read.spans \in SUBSET Span /\ IsFiniteSet(read.spans) /\ IdsDiffer(read.spans)
    BY <1>1, <2>1, CommittedIsGood, TraceSpans DEF ReadIInv
  <2>3. Rendered(read.spans) = read.spans \ Ringed(read.spans)
    BY <2>2, RenderedIsUnringed
  <2>4. \A s \in read.spans : s.start \in Int /\ s.end \in Int
    BY <2>2, SpanTypes
  <2>. QED
    BY <2>1, <2>3, <2>4, BarFitsWindow
<1>2. ASSUME ReadIInv, read.op = "first", read.phase = "done"
      PROVE  read.found \/ read.purged
  BY <1>2 DEF ReadIInv, FirstRead
<1>3. ReadIInv => PageShowsTrace
  BY <1>1, <1>2, Zenon DEF PageShowsTrace
<1>. QED
  BY <1>3, AlwaysReadIInv, PTL

------------------------------------------------------------------------------
(* The charts: nearest ranks *)

Before(S, R, x) == {y \in S : <<y, x>> \in R}

\* In a finite set that a relation orders, the numbers of elements before an
\* element are 0, 1, and so on, each taken once.
LEMMA RanksAreNumbers ==
    ASSUME NEW S, IsFiniteSet(S), NEW R,
           \A x \in S : <<x, x>> \notin R,
           \A x, y \in S : x # y => <<x, y>> \in R \/ <<y, x>> \in R,
           \A x, y, z \in S : <<x, y>> \in R /\ <<y, z>> \in R => <<x, z>> \in R
    PROVE  /\ Cardinality(S) \in Nat
           /\ \A x \in S : Cardinality(Before(S, R, x)) \in 0 .. Cardinality(S) - 1
           /\ \A x, y \in S : <<x, y>> \in R
                 => Cardinality(Before(S, R, x)) < Cardinality(Before(S, R, y))
           /\ \A n \in 0 .. Cardinality(S) - 1 : \E x \in S : Cardinality(Before(S, R, x)) = n
<1>. DEFINE rank == [x \in S |-> Cardinality(Before(S, R, x))]
            T == 0 .. Cardinality(S) - 1
<1>1. Cardinality(S) \in Nat
  BY FS_CardinalityType
<1>2. \A U, V \in SUBSET S : U \subseteq V /\ U # V => Cardinality(U) < Cardinality(V)
  <2>. SUFFICES ASSUME NEW U \in SUBSET S, NEW V \in SUBSET S, U \subseteq V, U # V
                PROVE  Cardinality(U) < Cardinality(V)
    OBVIOUS
  <2>1. IsFiniteSet(U) /\ IsFiniteSet(V)
    BY FS_Subset
  <2>2. Cardinality(U) <= Cardinality(V) /\ Cardinality(U) # Cardinality(V)
    BY <2>1, FS_Subset
  <2>3. Cardinality(U) \in Nat /\ Cardinality(V) \in Nat
    BY <2>1, FS_CardinalityType
  <2>. QED
    BY <2>2, <2>3
<1>3. \A x \in S : rank[x] \in Nat
  <2>. SUFFICES ASSUME NEW x \in S PROVE Cardinality(Before(S, R, x)) \in Nat
    OBVIOUS
  <2>1. IsFiniteSet(Before(S, R, x))
    BY FS_Subset DEF Before
  <2>. QED
    BY <2>1, FS_CardinalityType
<1>4. \A x \in S : rank[x] < Cardinality(S)
  <2>. SUFFICES ASSUME NEW x \in S PROVE Cardinality(Before(S, R, x)) < Cardinality(S)
    OBVIOUS
  <2>1. Before(S, R, x) \in SUBSET S /\ x \notin Before(S, R, x)
    BY DEF Before
  <2>. QED
    BY <1>2, <2>1
<1>5. \A x, y \in S : <<x, y>> \in R => rank[x] < rank[y]
  <2>. SUFFICES ASSUME NEW x \in S, NEW y \in S, <<x, y>> \in R
                PROVE  Cardinality(Before(S, R, x)) < Cardinality(Before(S, R, y))
    OBVIOUS
  <2>1. Before(S, R, x) \subseteq Before(S, R, y)
    BY DEF Before
  <2>2. x \in Before(S, R, y) /\ x \notin Before(S, R, x)
    BY DEF Before
  <2>3. Before(S, R, x) \in SUBSET S /\ Before(S, R, y) \in SUBSET S
    BY DEF Before
  <2>. QED
    BY <1>2, <2>1, <2>2, <2>3
<1>6. \A x \in S : rank[x] = Cardinality(Before(S, R, x))
  OBVIOUS
<1>7. DOMAIN rank = S /\ rank = [x \in S |-> rank[x]]
  OBVIOUS
<1>. HIDE DEF rank
<1>8. rank \in Injection(S, T)
  <2>1. \A x \in S : rank[x] \in T
    BY <1>1, <1>3, <1>4
  <2>2. \A x, y \in S : rank[x] = rank[y] => x = y
    <3>. SUFFICES ASSUME NEW x \in S, NEW y \in S, x # y
                  PROVE  rank[x] # rank[y]
      OBVIOUS
    <3>1. rank[x] \in Nat /\ rank[y] \in Nat
      BY <1>3
    <3>2. rank[x] < rank[y] \/ rank[y] < rank[x]
      BY <1>5
    <3>. QED
      BY <3>1, <3>2
  <2>3. rank \in [S -> T]
    BY <1>7, <2>1
  <2>. QED
    BY <2>2, <2>3 DEF Injection, IsInjective
<1>9. IsFiniteSet(T) /\ Cardinality(T) = Cardinality(S)
  <2>. DEFINE n == Cardinality(S)
  <2>1. n \in Nat
    BY <1>1
  <2>. HIDE DEF n
  <2>2. IsFiniteSet(0 .. n - 1) /\ Cardinality(0 .. n - 1) = n
    <3>1. 0 \in Int /\ n - 1 \in Int
      BY <2>1
    <3>2. /\ IsFiniteSet(0 .. n - 1)
          /\ Cardinality(0 .. n - 1) = IF 0 > n - 1 THEN 0 ELSE (n - 1) - 0 + 1
      BY <3>1, FS_Interval
    <3>. QED
      BY <2>1, <3>2
  <2>. QED
    BY <2>2 DEF n
<1>10. rank \in Surjection(S, T)
  BY <1>8, <1>9, FS_Injection
<1>11. \A n \in T : \E x \in S : rank[x] = n
  BY <1>10 DEF Surjection
<1>12. \A x \in S : rank[x] \in T
  BY <1>8 DEF Injection
<1>. QED
  BY <1>1, <1>5, <1>6, <1>11, <1>12

\* The calls of a day, of which Durations sorts the durations.
Called(range, d, day) ==
    {s \in d.spans : /\ s.kind = "llm"
                     /\ InRange(s.start, range.from, range.to)
                     /\ DayOf(s.start) = day}

\* Durations is sorted.
LEMMA DurationsAreSorted ==
    ASSUME NEW d, GoodDb(d), NEW range, NEW day
    PROVE  LET values == Durations(range, d, day)
           IN  /\ values \in Seq(Int)
               /\ \A i, j \in 1 .. Len(values) : i <= j => values[i] <= values[j]
<1>. DEFINE S == Called(range, d, day)
            R == {p \in S \X S : Shorter(p[1], p[2])}
            Nth(n) == CHOOSE s \in S : Cardinality({r \in S : Shorter(r, s)}) = n - 1
            n == Cardinality(S)
            values == [i \in 1 .. n |-> Duration(Nth(i))]
<1>1. S \in SUBSET Span /\ IsFiniteSet(S) /\ \A x, y \in S : Key(x) = Key(y) => x = y
  BY FS_Subset DEF GoodDb, Called, OneRowPerKey
<1>2. Durations(range, d, day) = values
  BY DEF Durations, Called
<1>. HIDE DEF S
<1>3. \A s \in S : Duration(s) \in Int /\ Key(s) \in Int \X Int
  BY <1>1, SpanTypes DEF Duration, Key
<1>4. \A x, y \in S : <<x, y>> \in R <=> Shorter(x, y)
  OBVIOUS
<1>5. \A x \in S : Before(S, R, x) = {r \in S : Shorter(r, x)}
  BY DEF Before
<1>. HIDE DEF R
<1>6. /\ n \in Nat
      /\ \A x, y \in S : <<x, y>> \in R
            => Cardinality(Before(S, R, x)) < Cardinality(Before(S, R, y))
      /\ \A i \in 0 .. n - 1 : \E x \in S : Cardinality(Before(S, R, x)) = i
      /\ \A x \in S : Cardinality(Before(S, R, x)) \in 0 .. n - 1
  <2>1. \A x \in S : <<x, x>> \notin R
    BY <1>3, <1>4, BelowIsOrder DEF Shorter
  <2>2. \A x, y \in S : x # y => <<x, y>> \in R \/ <<y, x>> \in R
    BY <1>1, <1>3, <1>4, BelowIsOrder DEF Shorter
  <2>3. \A x, y, z \in S : <<x, y>> \in R /\ <<y, z>> \in R => <<x, z>> \in R
    BY <1>3, <1>4, BelowIsOrder DEF Shorter
  <2>. QED
    BY <1>1, <2>1, <2>2, <2>3, RanksAreNumbers
<1>. HIDE DEF n
<1>7. ASSUME NEW i \in 1 .. n
      PROVE  Nth(i) \in S /\ Cardinality(Before(S, R, Nth(i))) = i - 1
  <2>1. i - 1 \in 0 .. n - 1
    BY <1>6
  <2>2. PICK x \in S : Cardinality(Before(S, R, x)) = i - 1
    BY <1>6, <2>1
  <2>3. Cardinality({r \in S : Shorter(r, x)}) = i - 1
    BY <1>5, <2>2
  <2>4. Nth(i) \in S /\ Cardinality({r \in S : Shorter(r, Nth(i))}) = i - 1
    BY <2>3
  <2>. QED
    BY <1>5, <2>4
<1>. HIDE DEF Nth
<1>8. values \in Seq(Int) /\ Len(values) = n
  BY <1>3, <1>6, <1>7
<1>9. ASSUME NEW i \in 1 .. n, NEW j \in 1 .. n, i <= j
      PROVE  values[i] <= values[j]
  <2>1. Duration(Nth(j)) \in Int /\ Duration(Nth(i)) \in Int
    BY <1>3, <1>7
  <2>2. CASE <<Nth(j), Nth(i)>> \in R
    BY <1>6, <1>7, <1>9, <2>2
  <2>3. CASE <<Nth(j), Nth(i)>> \notin R
    <3>1. ~ (Duration(Nth(j)) < Duration(Nth(i)))
      BY <1>4, <1>7, <2>3 DEF Shorter
    <3>. QED
      BY <2>1, <3>1
  <2>. QED
    BY <2>2, <2>3
<1>. QED
  BY <1>2, <1>8, <1>9

\* How many of the values are no more than v.
CountUpTo(values, v) == Cardinality({i \in DOMAIN values : values[i] <= v})

\* A nearest rank of sorted values, and what it says of them.
LEMMA PercentileIsRank ==
    ASSUME NEW p \in 1 .. 100, NEW values \in Seq(Int), values # <<>>,
           \A i, j \in 1 .. Len(values) : i <= j => values[i] <= values[j]
    PROVE  /\ 100 * CountUpTo(values, Percentile(p, values)) >= p * Len(values)
           /\ 100 * CountUpTo(values, Percentile(p, values) - 1) < p * Len(values)
<1>. DEFINE n == Len(values)
            k == (p * n + 99) \div 100
            v == values[k]
            Low(w) == {i \in DOMAIN values : values[i] <= w}
<1>1. n \in Nat /\ n > 0 /\ DOMAIN values = 1 .. n /\ \A i \in 1 .. n : values[i] \in Int
  OBVIOUS
<1>2. Percentile(p, values) = v
  BY DEF Percentile
<1>. HIDE DEF n
<1>3. p * n \in Int /\ p * n >= 1 /\ p * n <= 100 * n
  BY <1>1
<1>4. k \in Int /\ 100 * k >= p * n /\ 100 * (k - 1) < p * n
  BY <1>3
<1>5. k \in 1 .. n
  BY <1>1, <1>3, <1>4
<1>. HIDE DEF k
<1>6. v \in Int
  BY <1>1, <1>5
<1>7. 1 .. k \subseteq Low(v)
  BY <1>1, <1>5 DEF n
<1>8. Low(v - 1) \subseteq 1 .. k - 1
  BY <1>1, <1>5, <1>6 DEF n
<1>9. \A w : IsFiniteSet(Low(w)) /\ Cardinality(Low(w)) \in Nat
  <2>1. \A w : Low(w) \in SUBSET (1 .. n)
    BY <1>1
  <2>2. IsFiniteSet(1 .. n)
    BY <1>1, FS_Interval
  <2>. HIDE DEF Low
  <2>3. \A w : IsFiniteSet(Low(w))
    BY <2>1, <2>2, FS_Subset
  <2>. QED
    BY <2>3, FS_CardinalityType
<1>. HIDE DEF Low
<1>10. Cardinality(Low(v)) >= k
  <2>1. Cardinality(1 .. k) = k
    BY <1>5, FS_Interval
  <2>2. Cardinality(1 .. k) <= Cardinality(Low(v))
    BY <1>7, <1>9, FS_Subset
  <2>. QED
    BY <1>5, <1>9, <2>1, <2>2
<1>11. Cardinality(Low(v - 1)) <= k - 1
  <2>1. IsFiniteSet(1 .. k - 1) /\ Cardinality(1 .. k - 1) = k - 1
    BY <1>5, FS_Interval
  <2>. QED
    BY <1>8, <2>1, FS_Subset
<1>12. 100 * Cardinality(Low(v)) >= p * n
  BY <1>3, <1>4, <1>5, <1>9, <1>10
<1>13. 100 * Cardinality(Low(v - 1)) < p * n
  BY <1>3, <1>4, <1>5, <1>9, <1>11
<1>. QED
  BY <1>2, <1>12, <1>13 DEF Low, n, CountUpTo

------------------------------------------------------------------------------
(* The charts: costs *)

Priced(S) == {r \in S : r.cost # NULL}

\* SUM leaves out what has no cost.
LEMMA ColumnIsSum ==
    ASSUME NEW S
    PROVE  ColumnSum(S, LAMBDA r : r.cost) = IF Priced(S) = {} THEN NULL ELSE CostSum(Priced(S))
BY DEF ColumnSum, Priced, CostSum

\* The cost of rows is the sum over those that have one.
LEMMA CostOfIsSum ==
    ASSUME NEW S, HasCosts(Priced(S))
    PROVE  CostOf(S) = CostSum(Priced(S))
<1>1. CostSum(Priced(S)) \in Int /\ (Priced(S) = {} => CostSum(Priced(S)) = 0)
  BY CostSumRemove
<1>2. CostSum(Priced(S)) # NULL
  BY <1>1, NullIsApart
<1>. QED
  BY <1>1, <1>2, ColumnIsSum DEF CostOf

\* GROUP BY: the keys K, of each the group G[k] and the row[k] that adds it up;
\* the groups make up `all', and the rows are `rows'.
GroupedBy(K, G, row, rows, all) ==
    /\ IsFiniteSet(K)
    /\ G \in [K -> SUBSET all]
    /\ \A x \in all : \E k \in K : x \in G[k]
    /\ \A e : e \in rows <=> \E k \in K : e = row[k]
    /\ \A k, l \in K : k # l => G[k] \cap G[l] = {} /\ row[k] # row[l]
    /\ \A k \in K : row[k].cost = IF Priced(G[k]) = {} THEN NULL ELSE CostSum(Priced(G[k]))

\* Rows that each add up a group come to what the groups come to together.
LEMMA RowsAddUp ==
    ASSUME NEW all, HasCosts(Priced(all)), NEW K, NEW G, NEW row, NEW rows,
           GroupedBy(K, G, row, rows, all)
    PROVE  CostOf(rows) = CostOf(all)
<1>. DEFINE D == Priced(rows)
            key == [e \in D |-> CHOOSE k \in K : row[k] = e]
            H == [e \in D |-> Priced(G[key[e]])]
<1>0. /\ IsFiniteSet(K)
      /\ \A k \in K : G[k] \in SUBSET all
      /\ \A x \in all : \E k \in K : x \in G[k]
      /\ \A e : e \in rows <=> \E k \in K : e = row[k]
      /\ \A k, l \in K : k # l => G[k] \cap G[l] = {} /\ row[k] # row[l]
      /\ \A k \in K : row[k].cost = IF Priced(G[k]) = {} THEN NULL ELSE CostSum(Priced(G[k]))
  BY DEF GroupedBy
<1>1. \A e \in D : key[e] \in K /\ row[key[e]] = e
  BY <1>0 DEF Priced
<1>2. \A V \in SUBSET Priced(all) : HasCosts(V) /\ CostSum(V) \in Int
  <2>1. \A V \in SUBSET Priced(all) : HasCosts(V)
    BY FS_Subset DEF HasCosts
  <2>. QED
    BY <2>1, CostSumRemove
<1>3. \A k \in K : Priced(G[k]) \in SUBSET Priced(all)
  BY <1>0 DEF Priced
<1>4. \A k \in K : row[k] \in D <=> Priced(G[k]) # {}
  <2>. SUFFICES ASSUME NEW k \in K PROVE row[k] \in D <=> Priced(G[k]) # {}
    OBVIOUS
  <2>1. row[k] \in rows
    BY <1>0
  <2>2. CostSum(Priced(G[k])) # NULL
    BY <1>2, <1>3, NullIsApart
  <2>. QED
    BY <1>0, <2>1, <2>2 DEF Priced
<1>5. \A k \in K : row[k] \in D => key[row[k]] = k
  BY <1>0, <1>1
<1>6. IsFiniteSet(D)
  <2>1. IsFiniteSet(rows)
    <3>1. rows = {row[k] : k \in K}
      BY <1>0
    <3>. QED
      BY <1>0, <3>1, FiniteImage
  <2>2. D \in SUBSET rows
    BY DEF Priced
  <2>. HIDE DEF D
  <2>. QED
    BY <2>1, <2>2, FS_Subset
<1>7. \A e \in D : H[e] = Priced(G[key[e]])
  OBVIOUS
<1>8. \A e \in D : e.cost = CostSum(H[e])
  BY <1>0, <1>1, <1>4, <1>7
<1>9. D = Priced(rows)
  OBVIOUS
<1>10. H = [e \in D |-> H[e]]
  OBVIOUS
<1>. HIDE DEF D, H, key
<1>11. H \in [D -> SUBSET Priced(all)]
  <2>1. \A e \in D : H[e] \in SUBSET Priced(all)
    BY <1>1, <1>3, <1>7
  <2>. QED
    BY <1>10, <2>1
<1>12. \A e, f \in D : e # f => H[e] \cap H[f] = {}
  <2>. SUFFICES ASSUME NEW e \in D, NEW f \in D, e # f PROVE H[e] \cap H[f] = {}
    OBVIOUS
  <2>1. key[e] # key[f] /\ key[e] \in K /\ key[f] \in K
    BY <1>1
  <2>2. G[key[e]] \cap G[key[f]] = {}
    BY <1>0, <2>1
  <2>. QED
    BY <1>7, <2>2 DEF Priced
<1>13. UNION {H[e] : e \in D} = Priced(all)
  <2>1. ASSUME NEW e \in D, NEW x \in H[e] PROVE x \in Priced(all)
    BY <1>0, <1>1, <1>7, <2>1 DEF Priced
  <2>2. ASSUME NEW x \in Priced(all) PROVE \E e \in D : x \in H[e]
    <3>1. PICK k \in K : x \in G[k]
      BY <1>0 DEF Priced
    <3>2. x \in Priced(G[k])
      BY <3>1 DEF Priced
    <3>3. row[k] \in D /\ key[row[k]] = k
      BY <1>4, <1>5, <3>2
    <3>. QED
      BY <1>7, <3>2, <3>3
  <2>. QED
    BY <2>1, <2>2
<1>14. CostSum(D) = CostSum(Priced(all))
  <2>1. CostSum(D) = CostSum(UNION {H[e] : e \in D})
    BY <1>6, <1>8, <1>11, <1>12, CostSumOfGroups
  <2>. QED
    BY <1>13, <2>1
<1>15. HasCosts(D)
  BY <1>2, <1>6, <1>8, <1>11 DEF HasCosts
<1>. QED
  BY <1>9, <1>14, <1>15, CostOfIsSum

Listed(range, d) == {r \in d.traces : InRange(r.start, range.from, range.to)}

Billed(S) == {s \in S : s.kind \in BilledKinds}

BilledOfModels(range, d) ==
    {s \in d.spans : /\ s.kind \in BilledKinds
                     /\ InRange(s.start, range.from, range.to)
                     /\ s.model # NULL}

\* The costs of a committed database can be added up.
LEMMA CostsAreFinite ==
    ASSUME NEW d, GoodDb(d)
    PROVE  /\ HasCosts(Priced(d.spans))
           /\ HasCosts(Priced(d.traces))
<1>1. HasCosts(Priced(d.spans))
  BY FS_Subset, SpanTypes DEF GoodDb, Priced, HasCosts
<1>2. ASSUME NEW r \in Priced(d.traces) PROVE r.cost \in Int
  <2>. DEFINE S == Billed(OfTrace(d.spans, r.trace))
  <2>1. r.cost = BilledSum(OfTrace(d.spans, r.trace), LAMBDA s : s.cost) /\ r.cost # NULL
    BY TraceRow DEF Priced
  <2>2. S # {} /\ (\A s \in S : s.cost # NULL) /\ r.cost = CostSum(S)
    BY <2>1 DEF BilledSum, Billed, CostSum
  <2>3. S \in SUBSET Priced(d.spans)
    BY <2>2 DEF Billed, OfTrace, Priced
  <2>. HIDE DEF S
  <2>4. HasCosts(S)
    BY <1>1, <2>3, FS_Subset DEF HasCosts
  <2>. QED
    BY <2>2, <2>4, CostSumRemove
<1>3. IsFiniteSet(Priced(d.traces))
  BY TracesAreFinite, FS_Subset DEF Priced
<1>. QED
  BY <1>1, <1>2, <1>3 DEF HasCosts

\* The days come to what the traces come to that they list.
LEMMA DaysAddUp ==
    ASSUME NEW d, GoodDb(d), NEW range
    PROVE  CostOf(DaysOf(range, d)) = CostOf(Listed(range, d))
<1>. DEFINE L == Listed(range, d)
            OnDay(day) == {r \in L : DayOf(r.start) = day}
            K == {DayOf(r.start) : r \in L}
            G == [day \in K |-> OnDay(day)]
            row == [day \in K |->
                       [day    |-> day,
                        traces |-> Cardinality(OnDay(day)),
                        errors |-> Cardinality({r \in OnDay(day) : r.error}),
                        cost   |-> ColumnSum(OnDay(day), LAMBDA r : r.cost),
                        tokens |-> ColumnSum(OnDay(day), LAMBDA r : r.tokens)]]
<1>1. \A e : e \in DaysOf(range, d) <=> \E day \in K : e = row[day]
  BY DEF DaysOf, Listed
<1>2. \A r \in L : \E day \in K : r \in G[day]
  OBVIOUS
<1>3. IsFiniteSet(L) /\ HasCosts(Priced(L))
  <2>1. L \in SUBSET d.traces /\ Priced(L) \in SUBSET Priced(d.traces)
    BY DEF Listed, Priced
  <2>. HIDE DEF L
  <2>. QED
    BY <2>1, TracesAreFinite, CostsAreFinite, FS_Subset DEF HasCosts
<1>4. IsFiniteSet(K)
  <2>. DEFINE f == [r \in L |-> DayOf(r.start)]
  <2>1. K = {f[r] : r \in L}
    OBVIOUS
  <2>. HIDE DEF f, K, L
  <2>. QED
    BY <1>3, <2>1, FiniteImage
<1>5. G \in [K -> SUBSET L]
  OBVIOUS
<1>6. \A k, l \in K : k # l => G[k] \cap G[l] = {} /\ row[k] # row[l]
  <2>1. \A k \in K : row[k].day = k
    OBVIOUS
  <2>2. \A k, l \in K : k # l => G[k] \cap G[l] = {}
    OBVIOUS
  <2>. HIDE DEF row
  <2>. QED
    BY <2>1, <2>2
<1>7. \A k \in K : row[k].cost = IF Priced(G[k]) = {} THEN NULL ELSE CostSum(Priced(G[k]))
  BY ColumnIsSum
<1>. HIDE DEF K, G, row
<1>8. CostOf(DaysOf(range, d)) = CostOf(L)
  <2>. HIDE DEF L
  <2>1. GroupedBy(K, G, row, DaysOf(range, d), L)
    BY <1>1, <1>2, <1>4, <1>5, <1>6, <1>7 DEF GroupedBy
  <2>. QED
    BY <1>3, <2>1, RowsAddUp
<1>. QED
  BY <1>8

\* The models come to what the calls come to that name one.
LEMMA ModelsAddUp ==
    ASSUME NEW d, GoodDb(d), NEW range
    PROVE  CostOf(ModelRows(range, d)) = CostOf(BilledOfModels(range, d))
<1>. DEFINE L == BilledOfModels(range, d)
            Of(m) == {s \in L : s.model = m}
            K == {s.model : s \in L}
            G == [m \in K |-> Of(m)]
            row == [m \in K |->
                       [model  |-> m,
                        calls  |-> Cardinality(Of(m)),
                        cost   |-> ColumnSum(Of(m), LAMBDA s : s.cost),
                        tokens |-> ColumnSum(Of(m), LAMBDA s : s.tokens)]]
<1>1. \A e : e \in ModelRows(range, d) <=> \E m \in K : e = row[m]
  BY DEF ModelRows, BilledOfModels
<1>2. \A s \in L : \E m \in K : s \in G[m]
  OBVIOUS
<1>3. IsFiniteSet(L) /\ HasCosts(Priced(L))
  <2>1. L \in SUBSET d.spans /\ Priced(L) \in SUBSET Priced(d.spans)
    BY DEF BilledOfModels, Priced
  <2>. HIDE DEF L
  <2>. QED
    BY <2>1, CostsAreFinite, FS_Subset DEF HasCosts, GoodDb
<1>4. IsFiniteSet(K)
  <2>. DEFINE f == [s \in L |-> s.model]
  <2>1. K = {f[s] : s \in L}
    OBVIOUS
  <2>. HIDE DEF f, K, L
  <2>. QED
    BY <1>3, <2>1, FiniteImage
<1>5. G \in [K -> SUBSET L]
  OBVIOUS
<1>6. \A k, l \in K : k # l => G[k] \cap G[l] = {} /\ row[k] # row[l]
  <2>1. \A k \in K : row[k].model = k
    OBVIOUS
  <2>2. \A k, l \in K : k # l => G[k] \cap G[l] = {}
    OBVIOUS
  <2>. HIDE DEF row
  <2>. QED
    BY <2>1, <2>2
<1>7. \A k \in K : row[k].cost = IF Priced(G[k]) = {} THEN NULL ELSE CostSum(Priced(G[k]))
  BY ColumnIsSum
<1>. HIDE DEF K, G, row
<1>8. CostOf(ModelRows(range, d)) = CostOf(L)
  <2>. HIDE DEF L
  <2>1. GroupedBy(K, G, row, ModelRows(range, d), L)
    BY <1>1, <1>2, <1>4, <1>5, <1>6, <1>7 DEF GroupedBy
  <2>. QED
    BY <1>3, <2>1, RowsAddUp
<1>. QED
  BY <1>8

\* Traces come to what their billed spans come to, when each has a cost.
LEMMA TracesAddUp ==
    ASSUME NEW d, GoodDb(d), NEW range, NothingStraddles(range, d), AllPriced(d)
    PROVE  CostOf(Listed(range, d)) = CostOf(BilledOfModels(range, d))
<1>. DEFINE K == Listed(range, d)
            L == BilledOfModels(range, d)
            G == [r \in K |-> Billed(OfTrace(d.spans, r.trace))]
            row == [r \in K |-> r]
<1>1. \A e : e \in K <=> \E r \in K : e = row[r]
  OBVIOUS
<1>2. \A r \in K : r \in d.traces /\ InRange(r.start, range.from, range.to)
  BY DEF Listed
<1>3. \A r \in K : G[r] \in SUBSET L
  BY <1>2 DEF BilledOfModels, Billed, OfTrace, NothingStraddles, AllPriced
<1>4. \A s \in L : \E r \in K : s \in G[r]
  <2>1. ASSUME NEW s \in L PROVE \E r \in K : s \in G[r]
    <3>1. s \in d.spans /\ s.kind \in BilledKinds /\ InRange(s.start, range.from, range.to)
      BY DEF BilledOfModels
    <3>. DEFINE r == Summary(s.trace, OfTrace(d.spans, s.trace))
    <3>2. r \in d.traces /\ r.trace = s.trace
      BY <3>1 DEF GoodDb, Summaries, TracesOf, Summary
    <3>. HIDE DEF r
    <3>3. r \in K
      BY <3>1, <3>2 DEF Listed, NothingStraddles
    <3>. QED
      BY <3>1, <3>2, <3>3 DEF Billed, OfTrace
  <2>. QED
    BY <2>1
<1>5. IsFiniteSet(K) /\ HasCosts(Priced(L))
  <2>1. K \in SUBSET d.traces /\ Priced(L) \in SUBSET Priced(d.spans)
    BY DEF Listed, BilledOfModels, Priced
  <2>. HIDE DEF K, L
  <2>. QED
    BY <2>1, TracesAreFinite, CostsAreFinite, FS_Subset DEF HasCosts
<1>6. \A r, q \in K : r # q => r.trace # q.trace
  <2>1. \A r \in K : r = Summary(r.trace, OfTrace(d.spans, r.trace))
    BY <1>2, TraceRow
  <2>. HIDE DEF K
  <2>. QED
    BY <2>1
<1>7. \A r, q \in K : r # q => G[r] \cap G[q] = {} /\ row[r] # row[q]
  BY <1>6 DEF Billed, OfTrace
<1>8. \A r \in K : row[r].cost = IF Priced(G[r]) = {} THEN NULL ELSE CostSum(Priced(G[r]))
  <2>. SUFFICES ASSUME NEW r \in K
                PROVE  r.cost = IF Priced(G[r]) = {} THEN NULL ELSE CostSum(Priced(G[r]))
    OBVIOUS
  <2>. DEFINE S == OfTrace(d.spans, r.trace)
  <2>1. r.cost = BilledSum(S, LAMBDA s : s.cost) /\ G[r] = Billed(S)
    BY <1>2, TraceRow
  <2>2. \A s \in Billed(S) : s.cost # NULL
    BY DEF Billed, OfTrace, AllPriced
  <2>3. Priced(Billed(S)) = Billed(S)
    BY <2>2 DEF Priced
  <2>. HIDE DEF S
  <2>4. r.cost = IF Billed(S) = {} THEN NULL ELSE CostSum(Billed(S))
    BY <2>1, <2>2 DEF BilledSum, Billed, CostSum
  <2>. QED
    BY <2>1, <2>3, <2>4
<1>9. G \in [K -> SUBSET L]
  BY <1>3
<1>. HIDE DEF G, row
<1>10. CostOf(K) = CostOf(L)
  <2>. HIDE DEF L, K
  <2>1. GroupedBy(K, G, row, K, L)
    BY <1>1, <1>4, <1>5, <1>7, <1>8, <1>9 DEF GroupedBy
  <2>. QED
    BY <1>5, <2>1, RowsAddUp
<1>. QED
  BY <1>10

\* The charts of one answer agree, whatever the writer commits between the scans
\* (Dashboard, whose scans run in one transaction): the days and the models come
\* to one cost, and the percentiles are nearest ranks (percentile).
THEOREM SpecChartsAgree == ReadSpec => []ChartsAgree
<1>1. ASSUME ReadIInv, read.op = "charts", read.phase = "done",
             NothingStraddles(read.range, read.snapshot), AllPriced(read.snapshot)
      PROVE  CostOf(read.days) = CostOf(read.models)
  <2>1. /\ GoodDb(read.snapshot)
        /\ read.days = DaysOf(read.range, read.snapshot)
        /\ read.models = ModelRows(read.range, read.snapshot)
    BY <1>1 DEF ReadIInv, ChartsRead
  <2>. QED
    BY <1>1, <2>1, DaysAddUp, ModelsAddUp, TracesAddUp
<1>2. ASSUME ReadIInv, read.op = "charts", read.phase = "done", NEW r \in read.days
      PROVE  LET values == Durations(read.range, read.snapshot, r.day)
                 AtMost(v) == Cardinality({i \in DOMAIN values : values[i] <= v})
                 IsRank(p, v) == /\ 100 * AtMost(v) >= p * Len(values)
                                 /\ 100 * AtMost(v - 1) < p * Len(values)
             IN  values # <<>> => /\ IsRank(50, read.percentiles[r.day].p50)
                                  /\ IsRank(95, read.percentiles[r.day].p95)
  <2>. DEFINE values == Durations(read.range, read.snapshot, r.day)
  <2>1. /\ GoodDb(read.snapshot)
        /\ read.percentiles = PercentilesOf(read.days, read.range, read.snapshot)
    BY <1>2 DEF ReadIInv, ChartsRead
  <2>2. /\ read.percentiles[r.day].p50 = Percentile(50, values)
        /\ read.percentiles[r.day].p95 = Percentile(95, values)
    BY <1>2, <2>1 DEF PercentilesOf
  <2>3. /\ values \in Seq(Int)
        /\ \A i, j \in 1 .. Len(values) : i <= j => values[i] <= values[j]
    BY <2>1, DurationsAreSorted
  <2>. HIDE DEF values
  <2>4. 50 \in 1 .. 100 /\ 95 \in 1 .. 100
    OBVIOUS
  <2>5. ASSUME values # <<>>, NEW p \in {50, 95}
        PROVE  /\ 100 * CountUpTo(values, Percentile(p, values)) >= p * Len(values)
               /\ 100 * CountUpTo(values, Percentile(p, values) - 1) < p * Len(values)
    BY <2>3, <2>4, <2>5, PercentileIsRank
  <2>. QED
    BY <2>2, <2>5 DEF values, CountUpTo
<1>3. ReadIInv => ChartsAgree
  BY <1>1, <1>2, Zenon DEF ChartsAgree
<1>. QED
  BY <1>3, AlwaysReadIInv, PTL

==============================================================================
