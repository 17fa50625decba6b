------------------------------ MODULE SpanStore ------------------------------
(***************************************************************************)
(* The writing side of internal/store: InsertBatch and purgeBatch as the   *)
(* statements of a SQLite transaction.  The store has one writer           *)
(* connection (migrate.go opens s.w with SetMaxOpenConns(1)), so one       *)
(* transaction is open at a time; it works on a private copy of the        *)
(* tables, which becomes the database when it commits and is dropped when  *)
(* a statement fails, the request is cancelled or the process dies.        *)
(***************************************************************************)
EXTENDS SpanTable

CONSTANT
    BatchSize  \* PURGE_BATCH_SIZE, the traces one purge transaction deletes

ASSUME BatchSizeIsPositive == BatchSize \in Nat \ {0}

VARIABLES
    db,  \* what is committed: [spans, traces, index]
    tx   \* the transaction of the writer connection

vars == <<db, tx>>

Empty == [spans |-> {}, traces |-> {}, index |-> {}]

\* No transaction is open.
Idle == [phase |-> "idle", work |-> Empty, batch |-> <<>>, next |-> 1,
         touched |-> {}, cutoff |-> MinTime, gone |-> {}]

Ledger == INSTANCE SpanLedger WITH spans <- db.spans

Init ==
    /\ db = Empty
    /\ tx = Idle

------------------------------------------------------------------------------
(* InsertBatch *)

\* The costs of the spans are checked before the transaction begins.
BeginInsert(batch) ==
    /\ tx.phase = "idle"
    /\ SpanCostsInRange(batch)
    /\ tx' = [Idle EXCEPT !.phase = "upsert", !.work = db, !.batch = batch]
    /\ UNCHANGED db

UpsertSpan ==
    LET s == tx.batch[tx.next]
    IN  /\ tx.phase = "upsert"
        /\ tx' = [tx EXCEPT
                     !.phase      = IF tx.next = Len(tx.batch) THEN "recompute" ELSE "upsert",
                     !.next       = tx.next + 1,
                     !.touched    = tx.touched \cup {s.trace},
                     !.work.spans = Upsert(tx.work.spans, s),
                     !.work.index = IndexUpsert(tx.work.index, tx.work.spans, s)]
        /\ UNCHANGED db

RefusesCost(c) == c # NULL /\ ~ CostInRange(c)

\* The touched traces in the order of their ids.  A cost out of range fails the
\* batch.
RecomputeTrace(t) ==
    /\ tx.phase = "recompute"
    /\ \A u \in tx.touched : t <= u
    /\ tx' = IF RefusesCost(TraceCost(tx.work.spans, t))
             THEN Idle
             ELSE [tx EXCEPT
                      !.phase       = IF tx.touched = {t} THEN "commit" ELSE "recompute",
                      !.touched     = tx.touched \ {t},
                      !.work.traces = Recompute(tx.work.traces, tx.work.spans, t)]
    /\ UNCHANGED db

------------------------------------------------------------------------------
(* purgeBatch *)

\* LIMIT takes any BatchSize of the expired traces, or all of them.
BeginPurge(cutoff) ==
    /\ tx.phase = "idle"
    /\ \E gone \in SUBSET Expired(db.traces, db.spans, cutoff) :
          /\ \/ Cardinality(gone) = BatchSize
             \/ /\ gone = Expired(db.traces, db.spans, cutoff)
                /\ Cardinality(gone) < BatchSize
          /\ tx' = [Idle EXCEPT !.phase = "deleteSpans", !.work = db,
                                !.cutoff = cutoff, !.gone = gone]
    /\ UNCHANGED db

DeleteSpans ==
    LET dead == {s \in tx.work.spans : s.trace \in tx.gone}
    IN  /\ tx.phase = "deleteSpans"
        /\ tx' = [tx EXCEPT !.phase      = "deleteTraces",
                            !.work.spans = tx.work.spans \ dead,
                            !.work.index = IndexDelete(tx.work.index, dead)]
        /\ UNCHANGED db

DeleteTraces ==
    /\ tx.phase = "deleteTraces"
    /\ tx' = [tx EXCEPT !.phase       = "commit",
                        !.work.traces = {r \in tx.work.traces : r.trace \notin tx.gone}]
    /\ UNCHANGED db

------------------------------------------------------------------------------
(* The end of a transaction *)

Commit ==
    /\ tx.phase = "commit"
    /\ db' = tx.work
    /\ tx' = Idle

\* Mutant of Rollback: what the failed transaction wrote stays.
RollbackKeepsWork ==
    /\ tx.phase # "idle"
    /\ tx' = Idle
    /\ db' = tx.work

\* A statement fails, the context is cancelled or the process dies.
Rollback ==
    /\ tx.phase # "idle"
    /\ tx' = Idle
    /\ UNCHANGED db

Next ==
    \/ \E batch \in Batches : BeginInsert(batch)
    \/ UpsertSpan
    \/ \E t \in tx.touched : RecomputeTrace(t)
    \/ \E cutoff \in Cutoffs : BeginPurge(cutoff)
    \/ DeleteSpans
    \/ DeleteTraces
    \/ Commit
    \/ Rollback

Spec == Init /\ [][Next]_vars

------------------------------------------------------------------------------
(* Properties *)

Phases == {"idle", "upsert", "recompute", "deleteSpans", "deleteTraces", "commit"}

IndexEntry == [trace : TraceIds, id : SpanIds, name : Names]

IsDatabase(d) ==
    /\ DOMAIN d = {"spans", "traces", "index"}
    /\ d.spans \subseteq Span
    /\ OneRowPerKey(d.spans)
    /\ \A r \in d.traces : r.trace \in TraceIds
    /\ d.index \subseteq IndexEntry

\* The shape of the database and of the open transaction; no two rows of spans
\* ever have the same key, in the database or in the transaction's copy.
TypeOK ==
    /\ IsDatabase(db)
    /\ DOMAIN tx = DOMAIN Idle
    /\ tx.phase \in Phases
    /\ IsDatabase(tx.work)
    /\ tx.batch \in Batches \cup {<<>>}
    /\ tx.next \in Nat \ {0}
    /\ tx.touched \subseteq TraceIds
    /\ tx.cutoff \in Int
    /\ tx.gone \subseteq TraceIds

\* After every commit the traces table is exactly what recomputeTraceSQL makes
\* of the spans table: a row for each trace that has spans, none stale, none
\* left over.  InsertBatch keeps it so by recomputing each trace it touched,
\* purgeBatch by deleting both sides together.
TracesSummarizeSpans == db.traces = Summaries(db.spans)

\* After every commit the full-text index holds the current text of each span
\* and nothing else: the triggers remove the old text of a span that is
\* written again and of a span that is purged.
IndexMatchesSpans == db.index = Entries(db.spans)

\* No committed trace has a cost outside 0..MaxCost, however its spans arrived:
\* insertBatch refuses the batch whose sum leaves the range.
TraceCostsInRange ==
    \A r \in db.traces : r.cost # NULL => CostInRange(r.cost)

\* A span leaves the database only with its whole trace, and only when every
\* span of that trace has ended before the cutoff of the purge: the summary
\* row that purgeBatch judges by never hides an unfinished or recent span.
PurgesOnlyLongOver ==
    [][\A s \in db.spans :
          (\A r \in db'.spans : Key(r) # Key(s)) =>
              /\ LongOver(db.spans, s.trace, tx.cutoff)
              /\ s.trace \notin TracesOf(db'.spans)]_vars

\* The transactions implement the ledger: each commit is one whole batch or the
\* removal of whole traces, and everything else leaves the spans alone.
ImplementsLedger == Ledger!Spec

==============================================================================
