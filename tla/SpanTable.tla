------------------------------ MODULE SpanTable ------------------------------
(***************************************************************************)
(* The two tables and the full-text index that internal/store writes, as   *)
(* values, with the operators of the SQL that changes them:                *)
(*   - the upsert of insert.go (insertSpanSQL);                            *)
(*   - the summary row of insert.go (recomputeTraceSQL);                   *)
(*   - the triggers of migrate.go that keep spans_fts beside spans;        *)
(*   - the selection of expired traces of retention.go (purgeBatch).       *)
(* Nothing here has state: SpanStore runs these operators inside           *)
(* transactions.                                                           *)
(*                                                                         *)
(* A span keeps the columns that its trace's summary, the index or the     *)
(* retention rule read.  `name' stands for the three indexed text columns  *)
(* (input_content, output_content, name) and `tokens' for input_tokens and *)
(* output_tokens, which are summed by one rule.  Identifiers are numbers   *)
(* because the SQL orders by them.                                         *)
(***************************************************************************)
EXTENDS Integers, Sequences, FiniteSets, SequencesExt

CONSTANTS
    TraceIds,          \* trace_id, ordered
    SpanIds,           \* span_id, ordered
    MinTime, MaxTime,  \* the range of start_ns and end_ns
    Names,             \* values of the indexed text
    Sessions,          \* non-empty session_id values
    Models,            \* non-empty model names
    MaxCost,           \* config.MaxCostUSD
    Batches,           \* the non-empty batches that callers submit
    Cutoffs,           \* the cutoffs that retention sweeps use
    NULL               \* SQL NULL; also the empty string of an optional column

ASSUME IdsAreNaturals == TraceIds \subseteq Nat /\ SpanIds \subseteq Nat
ASSUME TimeIsInterval == MinTime \in Int /\ MaxTime \in Int
ASSUME CostIsNatural == MaxCost \in Nat
ASSUME NullIsApart == NULL \notin Int \cup Names \cup Sessions \cup Models

Time == MinTime .. MaxTime

Kinds == {"llm", "embedding", "tool", "retrieval", "agent", "other"}

\* The kinds whose tokens and cost a trace adds up.
BilledKinds == {"llm", "embedding"}

Span == [trace   : TraceIds,
         id      : SpanIds,
         parent  : SpanIds \cup {NULL},
         name    : Names,
         kind    : Kinds,
         start   : Time,
         end     : Time,
         error   : BOOLEAN,
         tokens  : Nat \cup {NULL},
         cost    : Int \cup {NULL},
         session : Sessions \cup {NULL},
         model   : Models \cup {NULL}]

ASSUME BatchesAreSpans == Batches \subseteq {b \in Seq(Span) : b # <<>>}
ASSUME CutoffsAreTimes == Cutoffs \subseteq Int

Key(s) == <<s.trace, s.id>>

OfTrace(S, t) == {s \in S : s.trace = t}

TracesOf(S) == {s.trace : s \in S}

OneRowPerKey(S) == \A r, s \in S : Key(r) = Key(s) => r = s

\* costInRange, for a cost that is not NULL.
CostInRange(c) == c >= 0 /\ c <= MaxCost

------------------------------------------------------------------------------
(* Writing a span *)

\* Mutant of Upsert: an insert without the conflict clause on the key.
InsertOnly(S, s) == S \cup {s}

\* INSERT ... ON CONFLICT(trace_id, span_id) DO UPDATE of every column.
Upsert(S, s) == {r \in S : Key(r) # Key(s)} \cup {s}

\* What the index holds for one row of spans.
Entry(s) == [trace |-> s.trace, id |-> s.id, name |-> s.name]

Entries(S) == {Entry(s) : s \in S}

\* Mutant of IndexUpsert: spans_au does not delete the old text.
IndexAppend(I, S, s) == I \cup {Entry(s)}

\* Trigger spans_ai when the key is new; spans_au, which first deletes the old
\* values of the row, when it is not.
IndexUpsert(I, S, s) ==
    (I \ Entries({r \in S : Key(r) = Key(s)})) \cup {Entry(s)}

\* Trigger spans_ad for each deleted row.
IndexDelete(I, gone) == I \ Entries(gone)

------------------------------------------------------------------------------
(* The summary row of a trace *)

Precedes(a, b) == a.start < b.start \/ (a.start = b.start /\ a.id < b.id)

\* ORDER BY (parent_span_id <> ''), start_ns, span_id
RootPrecedes(a, b) ==
    \/ a.parent = NULL /\ b.parent # NULL
    \/ (a.parent = NULL <=> b.parent = NULL) /\ Precedes(a, b)

First(S, Before(_, _)) == CHOOSE s \in S : \A r \in S \ {s} : Before(s, r)

\* SUM over the billed spans, NULL when there is none or one of them is NULL.
BilledSum(S, Value(_)) ==
    LET billed == {s \in S : s.kind \in BilledKinds}
    IN  IF billed = {} \/ \E s \in billed : Value(s) = NULL
        THEN NULL
        ELSE MapThenSumSet(Value, billed)

\* The first non-empty session_id.
SessionOf(S) ==
    LET named == {s \in S : s.session # NULL}
    IN  IF named = {} THEN NULL ELSE First(named, Precedes).session

\* group_concat of the distinct models in the order of their first span.
ModelsOf(S) ==
    LET named  == {s \in S : s.model # NULL}
        firsts == {First({s \in named : s.model = m}, Precedes) :
                       m \in {s.model : s \in named}}
        ordered == SetToSortSeq(firsts, Precedes)
    IN  [i \in DOMAIN ordered |-> ordered[i].model]

\* recomputeTraceSQL for the spans S of trace t.
Summary(t, S) ==
    [trace   |-> t,
     name    |-> First(S, RootPrecedes).name,
     start   |-> Min({s.start : s \in S}),
     end     |-> Max({s.end : s \in S}),
     spans   |-> Cardinality(S),
     llm     |-> Cardinality({s \in S : s.kind = "llm"}),
     tokens  |-> BilledSum(S, LAMBDA s : s.tokens),
     cost    |-> BilledSum(S, LAMBDA s : s.cost),
     error   |-> \E s \in S : s.error,
     session |-> SessionOf(S),
     models  |-> ModelsOf(S)]

\* Mutant of Recompute: ON CONFLICT(trace_id) DO NOTHING.
RecomputeNew(R, S, t) ==
    R \cup {Summary(u, OfTrace(S, u)) : u \in {t} \ {r.trace : r \in R}}

\* The summary of trace t written over the rows R of traces.
Recompute(R, S, t) == {r \in R : r.trace # t} \cup {Summary(t, OfTrace(S, t))}

Summaries(S) == {Summary(t, OfTrace(S, t)) : t \in TracesOf(S)}

------------------------------------------------------------------------------
(* Selecting what has expired *)

\* A span that never ended, or whose clock ran backwards.
Unfinished(s) == s.end <= 0 \/ s.end < s.start

\* The traces purgeBatch may delete, judged by their summary rows R and by the
\* unfinished spans among S.
Expired(R, S, cutoff) ==
    {r.trace : r \in {q \in R : /\ q.start < cutoff
                                /\ q.end < cutoff
                                /\ ~ \E s \in OfTrace(S, q.trace) : Unfinished(s)}}

\* Every span of trace t has ended, and before the cutoff.
LongOver(S, t, cutoff) ==
    \A s \in OfTrace(S, t) : ~ Unfinished(s) /\ s.start < cutoff /\ s.end < cutoff

------------------------------------------------------------------------------
(* A batch as a whole *)

\* The spans of a batch that no later span of the batch overwrites.
LastWrites(batch) ==
    {batch[i] : i \in {j \in 1 .. Len(batch) :
                          \A k \in j + 1 .. Len(batch) : Key(batch[k]) # Key(batch[j])}}

UpsertAll(S, batch) ==
    {r \in S : \A i \in 1 .. Len(batch) : Key(batch[i]) # Key(r)} \cup LastWrites(batch)

TracesOfBatch(batch) == {batch[i].trace : i \in 1 .. Len(batch)}

SpanCostsInRange(batch) ==
    \A i \in 1 .. Len(batch) : batch[i].cost # NULL => CostInRange(batch[i].cost)

TraceCost(S, t) == Summary(t, OfTrace(S, t)).cost

SumsInRange(S, ts) ==
    \A t \in ts : TraceCost(S, t) # NULL => CostInRange(TraceCost(S, t))

==============================================================================
