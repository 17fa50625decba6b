------------------------------ MODULE TraceReads ------------------------------
(***************************************************************************)
(* The reading side of internal/store, as the pages and the JSON API of    *)
(* internal/web use it while SpanStore writes:                             *)
(*   - the lists of traces, sessions and search hits, which a client walks *)
(*     page by page, each page a query of its own;                         *)
(*   - the page and the JSON of one trace, put together from two or three  *)
(*     queries;                                                            *)
(*   - the charts, three scans inside one read transaction.                *)
(* Every query sees what is committed when it runs.  The reads change      *)
(* nothing in the store, so one of them at a time is enough.               *)
(***************************************************************************)
EXTENDS SpanStore

CONSTANTS
    Lists,     \* what clients list: [of, from, to, errors, phrase]
    PageSize,  \* rows a client asks for at a time
    Ranges,    \* the ranges of the charts: [from, to]
    DayLength  \* a UTC day

ASSUME ListsAreQueries ==
    Lists \subseteq [of : {"traces", "sessions", "search"}, from : Int, to : Int,
                     errors : BOOLEAN, phrase : Names]
ASSUME PageSizeIsPositive == PageSize \in Nat \ {0}
ASSUME RangesAreTimes == Ranges \subseteq [from : Int, to : Int]
ASSUME DayHasLength == DayLength \in Nat \ {0}
ASSUME SessionsAreOrdered == Sessions \subseteq Int
ASSUME NullIsNoKey == NULL \notin Int \X Int

VARIABLE read  \* what the client has of the answer it is reading

NoRead == [op |-> "none"]

------------------------------------------------------------------------------
(* What a list holds.  A row is [key, id]; the key is what the list is     *)
(* ordered by, newest first, and what a cursor names.                      *)

\* buildFilterWhere; a bound of 0 is no bound.
InRange(start, from, to) == (from # 0 => start >= from) /\ (to # 0 => start < to)

SelectedTraces(list, d) ==
    {r \in d.traces : InRange(r.start, list.from, list.to) /\ (list.errors => r.error)}

TraceRows(list, d) ==
    {[key |-> <<r.start, r.trace>>, id |-> r.trace] : r \in SelectedTraces(list, d)}

\* GROUP BY session_id, over the selected traces that have one.
SessionRows(list, d) ==
    LET named == {r \in SelectedTraces([list EXCEPT !.errors = FALSE], d) : r.session # NULL}
        LastEnd(s) == Max({r.end : r \in {q \in named : q.session = s}})
    IN  {[key |-> <<LastEnd(s), s>>, id |-> s] : s \in {r.session : r \in named}}

\* The spans whose indexed text matches, joined with spans and traces.
SearchRows(list, d) ==
    {[key |-> <<s.start, s.id>>, id |-> Key(s)] :
        s \in {q \in d.spans : /\ [trace |-> q.trace, id |-> q.id, name |-> list.phrase] \in d.index
                               /\ \E r \in d.traces : r.trace = q.trace}}

Rows(list, d) ==
    CASE list.of = "traces"   -> TraceRows(list, d)
      [] list.of = "sessions" -> SessionRows(list, d)
      [] list.of = "search"   -> SearchRows(list, d)

------------------------------------------------------------------------------
(* Walking a list *)

Below(a, b) == a[1] < b[1] \/ (a[1] = b[1] /\ a[2] < b[2])

\* Mutant of Past: the row-value comparison of the cursor is <=.
PastOrAt(list, rows, cursor) ==
    {r \in rows : cursor = NULL \/ r.key = cursor \/ Below(r.key, cursor)}

\* Mutant of Past: only the first column of the cursor is compared.
PastByTime(list, rows, cursor) ==
    {r \in rows : cursor = NULL \/ r.key[1] < cursor[1]}

\* ListTraces and ListSessions take a cursor whose number is 0 for no cursor.
IsCursor(list, cursor) == cursor # NULL /\ (list.of # "search" => cursor[1] # 0)

\* What is left after the cursor.
Past(list, rows, cursor) == {r \in rows : IsCursor(list, cursor) => Below(r.key, cursor)}

\* ORDER BY key DESC LIMIT n; rows with one key come in any order.
Newest(rows, n) ==
    IF Cardinality(rows) <= n
    THEN {rows}
    ELSE {page \in kSubset(n, rows) :
             \A r \in page, q \in rows \ page : ~ Below(r.key, q.key)}

\* The last row of a page.
LastKey(page) ==
    (CHOOSE r \in page : \A q \in page : ~ Below(q.key, r.key)).key

\* agentPage, and the pages of traces and sessions: one row more than the page
\* is asked for, and only that row makes a next cursor.  `odd' tells a page from
\* the one before it, should they be the same; `shown', `twice' and `lost', that
\* a cursor was taken for none, are history.
TakePage(list, rows, cursor, walk) ==
    LET rest == Past(list, rows, cursor)
    IN  \E page \in Newest(rest, PageSize) :
            LET more == Cardinality(rest) > PageSize
            IN  read' = [walk EXCEPT
                            !.phase  = IF more THEN "paging" ELSE "done",
                            !.cursor = IF more THEN LastKey(page) ELSE NULL,
                            !.odd    = ~ @,
                            !.shown  = @ \cup page,
                            !.lost   = @ \/ (cursor # NULL /\ ~ IsCursor(list, cursor)),
                            !.twice  = @ \/ walk.shown \cap page # {}]

FirstPage(list) ==
    /\ read.op = "none"
    /\ TakePage(list, Rows(list, db), NULL,
                [op |-> "list", phase |-> "paging", list |-> list, cursor |-> NULL, odd |-> FALSE,
                 shown |-> {}, twice |-> FALSE, lost |-> FALSE, steady |-> Rows(list, db)])
    /\ UNCHANGED <<db, tx>>

NextPage ==
    /\ read.op = "list" /\ read.phase = "paging"
    /\ TakePage(read.list, Rows(read.list, db), read.cursor, read)
    /\ UNCHANGED <<db, tx>>

------------------------------------------------------------------------------
(* One trace *)

\* GetTrace, its first query.
OpenTrace(t) ==
    /\ read.op = "none"
    /\ \E r \in db.traces :
          /\ r.trace = t
          /\ read' = [op |-> "trace", phase |-> "spans", trace |-> r, spans |-> {},
                      purged |-> FALSE]
    /\ UNCHANGED <<db, tx>>

\* The spans of the trace: the second query of GetTrace for the page, and
\* ListTraceAgentSpans for JSON.
ReadSpans ==
    /\ read.op = "trace" /\ read.phase = "spans"
    /\ read' = [read EXCEPT !.phase = "done", !.spans = OfTrace(db.spans, read.trace.trace)]
    /\ UNCHANGED <<db, tx>>

\* The page, not the JSON, goes on to show its first span.
SelectFirst ==
    /\ read.op = "trace" /\ read.phase = "done" /\ read.spans # {}
    /\ read' = [op |-> "first", phase |-> "span", purged |-> FALSE,
                key |-> Key(First(read.spans, Precedes))]
    /\ UNCHANGED <<db, tx>>

\* GetSpan; when it finds nothing the whole page is an error.
ReadFirst ==
    /\ read.op = "first" /\ read.phase = "span"
    /\ read' = [op |-> "first", phase |-> "done", purged |-> read.purged,
                found |-> \E s \in db.spans : Key(s) = read.key]
    /\ UNCHANGED <<db, tx>>

\* The children of a span among S, and the spans without a parent in S.
Children(S, p) == {s \in S : s.parent = p.id}

\* Mutant of Roots: a span with a parent that was never captured is no root.
RootsOnly(S) == {s \in S : s.parent = NULL}

Roots(S) == {s \in S : s.parent \notin {p.id : p \in S}}

\* buildTree as the template renders it: the roots, their children, and so on.
Rendered(S) ==
    LET level[n \in Nat] ==
            IF n = 0 THEN Roots(S) ELSE UNION {Children(S, p) : p \in level[n - 1]}
    IN  UNION {level[n] : n \in 0 .. Cardinality(S)}

\* math.Round of a quotient: halves away from zero.
Round(a, b) == IF a >= 0 THEN (2 * a + b) \div (2 * b) ELSE - ((b - 2 * a) \div (2 * b))

Clamp(n, low, high) == Min({Max({n, low}), high})

\* The bar of span s in percent of the window of its trace.
Bar(s, trace) ==
    LET window == trace.end - trace.start
        offset == Clamp(Round((s.start - trace.start) * 100, window), 0, 99)
    IN  IF window <= 0
        THEN [offset |-> 0, width |-> 100]
        ELSE [offset |-> offset,
              width  |-> Min({Max({Round((s.end - s.start) * 100, window), 1}),
                              100 - offset})]

------------------------------------------------------------------------------
(* The charts *)

\* spanDaySQL, integer division rounded down.
DayOf(start) == start \div DayLength

\* SUM of a column: NULL values are left out, and NULL when nothing is left.
ColumnSum(S, Value(_)) ==
    LET known == {s \in S : Value(s) # NULL}
    IN  IF known = {} THEN NULL ELSE MapThenSumSet(Value, known)

\* One row per day on which a trace started.
DaysOf(range, d) ==
    LET listed == {r \in d.traces : InRange(r.start, range.from, range.to)}
        OnDay(day) == {r \in listed : DayOf(r.start) = day}
    IN  {[day    |-> day,
          traces |-> Cardinality(OnDay(day)),
          errors |-> Cardinality({r \in OnDay(day) : r.error}),
          cost   |-> ColumnSum(OnDay(day), LAMBDA r : r.cost),
          tokens |-> ColumnSum(OnDay(day), LAMBDA r : r.tokens)] :
             day \in {DayOf(r.start) : r \in listed}}

\* One row per model that billed spans name.
ModelRows(range, d) ==
    LET called == {s \in d.spans : /\ s.kind \in BilledKinds
                                   /\ InRange(s.start, range.from, range.to)
                                   /\ s.model # NULL}
        Of(m) == {s \in called : s.model = m}
    IN  {[model  |-> m,
          calls  |-> Cardinality(Of(m)),
          cost   |-> ColumnSum(Of(m), LAMBDA s : s.cost),
          tokens |-> ColumnSum(Of(m), LAMBDA s : s.tokens)] :
             m \in {s.model : s \in called}}

Duration(s) == s.end - s.start

\* sort.Float64s, with a rule for equal durations, which changes no value.
Shorter(r, s) ==
    \/ Duration(r) < Duration(s)
    \/ Duration(r) = Duration(s) /\ Below(Key(r), Key(s))

\* The durations of the llm calls of a day, sorted.
Durations(range, d, day) ==
    LET called == {s \in d.spans : /\ s.kind = "llm"
                                   /\ InRange(s.start, range.from, range.to)
                                   /\ DayOf(s.start) = day}
        Nth(n) == CHOOSE s \in called : Cardinality({r \in called : Shorter(r, s)}) = n - 1
    IN  [i \in 1 .. Cardinality(called) |-> Duration(Nth(i))]

Percentile(p, values) ==
    IF values = <<>> THEN NULL ELSE values[(p * Len(values) + 99) \div 100]

\* The percentiles of the days that the first scan listed.
PercentilesOf(days, range, d) ==
    [day \in {r.day : r \in days} |->
        LET values == Durations(range, d, day)
        IN  [p50 |-> Percentile(50, values), p95 |-> Percentile(95, values)]]

\* BEGIN, and the first scan, which fixes the snapshot of the transaction.
BeginCharts(range) ==
    /\ read.op = "none"
    /\ read' = [op |-> "charts", phase |-> "percentiles", range |-> range,
                snapshot |-> db, days |-> DaysOf(range, db)]
    /\ UNCHANGED <<db, tx>>

\* Mutant of ScanData: the later scans run outside the transaction.
LiveData == db

\* What a scan of the transaction reads.
ScanData == read.snapshot

ScanPercentiles ==
    /\ read.op = "charts" /\ read.phase = "percentiles"
    /\ read' = [op |-> "charts", phase |-> "models", range |-> read.range,
                snapshot |-> read.snapshot, days |-> read.days,
                percentiles |-> PercentilesOf(read.days, read.range, ScanData)]
    /\ UNCHANGED <<db, tx>>

\* validateDashboardCosts refuses charts with a cost out of range.
ChartCostsInRange(days, models) ==
    /\ \A r \in days \cup models : r.cost # NULL => CostInRange(r.cost)
    /\ ColumnSum(days, LAMBDA r : r.cost) # NULL
          => CostInRange(ColumnSum(days, LAMBDA r : r.cost))

ScanModels ==
    LET models == ModelRows(read.range, ScanData)
    IN  /\ read.op = "charts" /\ read.phase = "models"
        /\ read' = IF ChartCostsInRange(read.days, models)
                   THEN [op |-> "charts", phase |-> "done", range |-> read.range,
                         snapshot |-> read.snapshot, days |-> read.days,
                         percentiles |-> read.percentiles, models |-> models]
                   ELSE NoRead
        /\ UNCHANGED <<db, tx>>

------------------------------------------------------------------------------
(* The specification *)

ReadInit ==
    /\ Init
    /\ read = NoRead

\* The answer is complete, and the client turns to something else.
Answered ==
    /\ read.op # "none" /\ read.phase = "done"
    /\ read' = NoRead
    /\ UNCHANGED <<db, tx>>

\* A step of the writer, beside any read that is under way.  `steady' and
\* `purged' are history: the rows that have been in the list unchanged since the
\* first page, and whether the trace was purged after its summary was read.
Write ==
    /\ read.op # "none" => read.phase # "done"
    /\ Next
    /\ read' = CASE read.op = "list" /\ read.phase = "paging" ->
                        [read EXCEPT !.steady = @ \cap Rows(read.list, db')]
                 [] read.op = "trace" /\ read.phase = "spans" ->
                        [read EXCEPT !.purged = @ \/ read.trace.trace \notin TracesOf(db'.spans)]
                 [] read.op = "first" ->
                        [read EXCEPT !.purged = @ \/ read.key[1] \notin TracesOf(db'.spans)]
                 [] OTHER -> read

ReadNext ==
    \/ Write
    \/ \E list \in Lists : FirstPage(list)
    \/ NextPage
    \/ \E t \in TraceIds : OpenTrace(t)
    \/ ReadSpans
    \/ SelectFirst
    \/ ReadFirst
    \/ \E range \in Ranges : BeginCharts(range)
    \/ ScanPercentiles
    \/ ScanModels
    \/ Answered

\* A client that was given a cursor asks for the next page.
ReadSpec == ReadInit /\ [][ReadNext]_<<db, tx, read>> /\ WF_<<db, tx, read>>(NextPage)

------------------------------------------------------------------------------
(* Properties *)

\* Two rows with one key, of which the other has been shown.
TiedWithShown(r) == \E q \in read.shown : q # r /\ q.key = r.key

\* A walk neither skips nor repeats a row that stays as it is, whatever the
\* writer does between the pages: so far it has shown exactly the rows that the
\* cursor has passed, at the end all of them, and none twice.  Only a search
\* may lose a row, to another span with the same start and span id, and only a
\* page that ends at time 0 may start the walk again.
SteadyRowsShownOnce ==
    read.op = "list" /\ ~ read.lost =>
        /\ ~ read.twice
        /\ \A r \in read.steady :
              \/ TiedWithShown(r)
              \/ r \in read.shown <=> (read.phase = "done" \/ ~ Below(r.key, read.cursor))

\* The spans of a ring of parents, which no root leads to.
Ringed(S) ==
    UNION {X \in SUBSET S : \A s \in X : \E p \in X : p.id = s.parent}

\* The page of a trace has every span that its summary counts, though the two
\* are read apart, unless the trace was purged in between; it draws all of them
\* but those in a ring, each with a bar inside the window; and it finds its first
\* span again unless the trace was purged since.
PageShowsTrace ==
    /\ read.op = "first" /\ read.phase = "done" => read.found \/ read.purged
    /\ read.op = "trace" /\ read.phase = "done" =>
        /\ ~ read.purged => Cardinality(read.spans) >= read.trace.spans
        /\ Rendered(read.spans) = read.spans \ Ringed(read.spans)
        /\ \A s \in read.spans :
              LET bar == Bar(s, read.trace)
              IN  bar.offset >= 0 /\ bar.width >= 1 /\ bar.offset + bar.width <= 100

\* The range has all of every trace, or nothing of it.
NothingStraddles(range, d) ==
    \A s \in d.spans, r \in d.traces :
        s.trace = r.trace => (InRange(s.start, range.from, range.to)
                                  <=> InRange(r.start, range.from, range.to))

\* Every call names its model and has a cost.
AllPriced(d) == \A s \in d.spans : s.kind \in BilledKinds => s.model # NULL /\ s.cost # NULL

CostOf(S) == LET sum == ColumnSum(S, LAMBDA r : r.cost) IN IF sum = NULL THEN 0 ELSE sum

\* The charts of one answer agree, however the writer moves between the scans:
\* the days, which add up summaries, come to the same cost as the models, which
\* add up spans, and the percentiles are the nearest ranks of the day's calls.
ChartsAgree ==
    read.op = "charts" /\ read.phase = "done" =>
        /\ NothingStraddles(read.range, read.snapshot) /\ AllPriced(read.snapshot)
              => CostOf(read.days) = CostOf(read.models)
        /\ \A r \in read.days :
              LET values == Durations(read.range, read.snapshot, r.day)
                  AtMost(v) == Cardinality({i \in DOMAIN values : values[i] <= v})
                  IsRank(p, v) == /\ 100 * AtMost(v) >= p * Len(values)
                                  /\ 100 * AtMost(v - 1) < p * Len(values)
              IN  values # <<>> => /\ IsRank(50, read.percentiles[r.day].p50)
                                   /\ IsRank(95, read.percentiles[r.day].p95)

IsPaging == read.op = "list" /\ read.phase = "paging"

\* Following the cursor comes to an end, unless a page ends at time 0.
PagingEnds == IsPaging ~> (IsPaging => read.lost)

==============================================================================
