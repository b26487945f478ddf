# A verification project for the home budget pipeline

The repository turns receipt files, store orders and bank downloads into a
ledger of purchases. An intake command publishes work to RabbitMQ, OCR workers
read the files and cache what they read, a collector writes the results to
PostgreSQL. Around that path stand importers of stores and banks, calculations
that read text into items and totals, searches and language models that name
products, operator commands and two web applications in which people review,
merge, correct and delete.

This directory holds TLA+ modules of these parts, the TLC configurations that
check them on small instances, and theorems proved by TLAPS. `PROJECT.json`
maps every definition to the lines it stands for.

## 1. The system

| Component | State it keeps | Operations | What is hard | What makes it correct | Modelled in |
|---|---|---|---|---|---|
| Message contracts (`receipts/message.py`, `ocr_results.py`, `sources.py`) | none | construct, validate, identify | several requests share one run identity | identities tell apart what must not be merged | `ReceiptContract` |
| Work queue and OCR workers (`queue_ingest.py`, `parallel_ingest.py`, `cached_reprocess.py`) | three queues; per path a cache artifact, per request a completion marker, per content a file lock | publish, deliver, OCR, publish results, retry, dead-letter, acknowledge, cached re-extraction | a crash between any two steps, redelivery while the first execution still runs, replaced files | no confirmed request is lost; fresh requests get fresh evidence; no needless OCR | `WorkDispatch` |
| Result collector (`ocr_collector.py`) | three queues; OCR runs, events, evidence, expenses, status and request tables | apply a run, apply a pass, retry, dead-letter | duplicates, reordering, concurrent collectors, roll-back | every confirmed result is applied once per request, as a whole, or dead-lettered | `ResultCollector` |
| Normal intake and reset (`publication_guard.py`, `queue_ingest.py`, `backlog_ingest.py`) | lineage rows, a session lock, the processing status | discover, select, reserve, publish, reset | lost confirmations, crashed publishers, a lost session, transaction timestamps | one copy of a job per release; a completion is never reset | `IntakePublication` |
| Legacy direct ingest (`backlog_ingest.py`, `queue_ingest.process_message`) | session locks, status, attempts, evidence | plan, lock, read, verify, save, interrupt | status read before the lock, files replaced, crashes between commits | nothing is worked twice; a completed receipt has its own evidence | `DirectIngest` |
| Evidence and purchases (`evidence.py`, `parallel_ingest.py`, `identities.py`) | evidence, expenses, items, candidates | match, link, create, refresh | several sources of one purchase | evidence counts once | `ExpenseRecords` |
| Duplicate review, merge, deletion, corrections (`duplicate_review.py`, `expense_merge.py`, `web/receipt_deletion.py`, `date_correction.py`, `web/allocation_corrections.py`) | decisions, tombstones, merge payloads, corrections | preview, apply, undo | stale previews, later imports | what a person decided stands | `ExpenseRecords` |
| Source inventory and cache refresh (`source_reconciliation.py`, `source_refresh.py`) | source rows, caches, retained copies | inventory, archive, retire | files and caches change between preview and removal | what is removed is retained | `SourceRefresh` |
| Disposable ingest schema (`schema_blue_green.py`) | two copies of the tables, views, a state row | mark, build, switch | death between the commits, older releases waiting | importers see one complete copy; the roll-back copy survives | `SchemaUpgrade` |
| Model collaboration queue (`model_collaboration_queue.py`) | tasks, results, deadlines, session locks | submit, claim, answer, decide | late answers, interrupted claims | one result per task; every item is decided | `ModelTasks` |
| Product discovery (`receipt_collaboration.py`, `product_enrichment.py`) | evidence and errors collected for one item | search, expand, propose, review | each call may fail, be cut short or contradict | a recommendation rests on supported evidence and complete reviews | `ItemDiscovery` |
| Items of a purchase (`categorization/receipt_items.py`, `item_rules.py`, `web/queries.py`, `product_enrichment.run`) | item rows, rules, collaborations | import, describe, accept, apply a rule, search | imports rewrite what people review | reviewed work stands | `ItemReview` |
| Bank ledger (`transactions/`) | discovered files, retained originals, bank rows, imports | scan, import a tree, import by hand | overlapping exports, crashes between file and database | each row as often as the fullest export shows it | `BankImport` |
| Splits and links (`transactions/workflows.py`, `web/transaction_workflows.py`) | allocations with versions, links by receipt hash | load, save, renumber, merge, delete | stale pages, recycled expense numbers | edits replace what was seen; links keep their receipt | `Allocations` |
| Bank matching (`transactions/reconciliation.py`, `integration.py`) | a decision, an enriched purchase | decide, enrich | rivals that differ in weak fields only | links without a person are safe | `BankMatching` |
| Text extraction (`receipts/ingest.py`, `item_evidence.py`, `summary_evidence.py`, `financial_header.py`, `header_evidence.py`) | lines, candidates, decisions | read, choose, vote, join | damaged amounts, several engines, columns | amounts stay with their rows; no value or name from one pass alone | `ReceiptReading`, `OcrPages`, `OcrEvidence`, `ItemRows`, `OrderedMatches`, `Merchants` |
| Store importers (`instacart/orders.py`, `receipts/costco.py`) | a page being parsed, items, a model cache, stored orders | poll, merge, clean, store, report; group, ask, write | pages that still render, repeated cleaning, failing batches | lines add up to what was charged | `StoreOrders`, `CostcoReceipts` |
| Dead-result recovery, progress and lineage graph, data quality, command line, telemetry | derived data | reports and one-off commands | - | - | not modelled, see section 6 |

How the parts on the receipt path meet:

    intake ----v1/v2----> receipts.v1.work <--TTL-- receipts.v1.retry
      |  (lineage rows)        |                        ^
      v                        v                        | retry / dead
    PostgreSQL            OCR worker -- cache, marker --+--> receipts.v1.dead
      ^                        | run event, pass events (confirmed)
      |                        v
      +---- collector <-- ocr.results.v1.work <--TTL-- ocr.results.v1.retry

Deployment: several OCR workers, one or more collectors, web servers with
several users, a model worker per profile, and commands run by an operator at
any time. All queues deliver at least once. The components share the cache
directory (workers, commands, refresh), the lineage table (workers, intake,
reset), the status table (collector, intake, reset, direct ingest) and the
tables of purchases and items (collector, importers, searches, web).

## 2. The modules

| Module | Models | Builds on |
|---|---|---|
| `ReceiptContract` | request kinds, message identities, result events | - |
| `WorkDispatch` | the work queue, workers, OCR cache, markers, cached re-extraction | `ReceiptContract` |
| `ResultCollector` | the result queue and the collector's transactions | `ReceiptContract` |
| `ReceiptPipeline` | workers and collector over the result queue | composes `WorkDispatch` and `ResultCollector` |
| `ReceiptJob` | the promise: accept, record, park, and in the end one of the two | refined by `ReceiptPipeline` |
| `IntakePublication` | normal intake, reservations, reset | stands alone: workers and collector are "results appear" |
| `ExpenseRecords` | evidence, purchases, duplicates, merges, deletions, corrections, imports | - |
| `ModelTasks` | the two-round queue of language model tasks | - |
| `BankImport` | bank downloads on their way into the ledger | - |
| `Allocations`, `ItemReview` | splits and links; items between imports, searches and people | both in `MCWebEdits` |
| `SchemaUpgrade`, `SourceRefresh`, `DirectIngest`, `BankMatching`, `ItemDiscovery` | what runs beside the pipeline | with the cached command of `ReceiptPipeline` in `MCCommands` |
| `Amounts` | cents, `None`, rounding | - |
| `ReceiptReading` | lines to items, totals and a review status | `Amounts` |
| `OcrPages`, `OcrEvidence` | OCR candidates to a page; passes to fields | `ReceiptReading` / `Amounts` |
| `OrderedMatches`, `ItemRows` | unique ordered matching; names and prices in columns | `ItemRows` uses `OrderedMatches` |
| `Merchants` | merchant, store and address | `Amounts` |
| `StoreOrders`, `CostcoReceipts` | the store importers | `Amounts`; all calculations in `MCCalculations` |
| `WorkDispatch_proofs` | theorems about the work queue and the workers, lemmas about queues and events | `WorkDispatch` |
| `ReceiptPipeline_proofs` | theorems about the collector, the composition and its refinement of `ReceiptJob` | `ResultCollector`, `ReceiptPipeline`, and the module before |
| `Ingest_proofs` | theorems about the ways in beside the workers | `IntakePublication`, `DirectIngest`, `SchemaUpgrade`, `SourceRefresh` |
| `ExpenseRecords_proofs` | theorems about evidence and purchases | `ExpenseRecords` |
| `Items_proofs` | theorems about what names and keeps items | `ModelTasks`, `ItemDiscovery`, `ItemReview` |
| `Bank_proofs` | theorems about the bank side | `BankImport`, `BankMatching`, `Allocations` |
| `Calculations_proofs` | theorems about what is decided from readings, and what a receipt costs | `OcrEvidence`, `OcrPages`, `ReceiptReading`, `Merchants`, `CostcoReceipts` |
| `Orders_proofs` | theorems about the lines stored of an order | `StoreOrders`; uses the lemmas about sets and sums of the module before |
| `MC*` | constants for TLC | extend what they instantiate |

`MCCommands`, `MCWebEdits` and `MCCalculations` run several independent parts:
a variable `running` chooses one in the initial state and the others rest in
theirs, so a run has the sum and not the product of their states.

### Correspondence with the code

*A source is a SHA-256 identity, a path is a file reference.* The cache lock
and the database key on the former (`queue_ingest.py:72-107`), the artifact is
named after the latter (`parallel_ingest.py:138-145`), so a path whose file is
replaced is shared by two sources with two locks.

*Requests.* `normal` is a v1 message, `reprocess` and `auto` are v2 with the two
OCR modes, `cache_only` is v3, `cached` is a re-extraction command that
publishes results itself. Re-publishing the same request is another copy of the
same message identity.

*`WorkDispatch`.* `Deliver` is the start of `handle_worker_delivery` with the
first source check of `produce_result_messages`; `Lock` takes the file lock and
reads the marker; `UseCache` and `ExecuteOcr` are the two outcomes of
`_read_or_create_pages`; `Finish` is the second source check, the marker and the
events, up to the release of the lock; `PublishEvent` one confirmed
`publish_result`; `Route` the confirmed retry or dead letter; `Ack` the
acknowledgement. `FailOcr`, `RejectEvent` are every exception of those stages.
`Crash` is the death of the pod, its flock released and its delivery requeued.
`ConnectionLost` requeues the delivery while the OCR child keeps the lock and
finishes; the child's writes stand, its result is thrown away (`Abandon`).
Retries are new messages with the attempt advanced, a redelivery keeps the
attempt and counts against `x-delivery-limit`.

*`ResultCollector`.* `CheckRun` takes the advisory lock and looks the event up
(`_persist_run`, first half), `CommitRun` is the rest of the transaction up to
its commit, `CommitPass` is `_persist_pass`, `FailResult` any exception (the
roll-back leaves nothing), `RouteResult` the retry or dead letter.

*`ReceiptPipeline`.* A worker's confirmed event and its arrival in the result
queue are one step. `DeployedNext` is what runs by itself; `CommandPublishes`
adds the re-extraction command.

*`IntakePublication`.* `LockIntake` is `publication_guard.serialized`,
`ReadStatus` the two status queries of `_publication_plan_single`, `SelectBatch`
its cache check and completion query with `eligible`, `Reserve` the committed
row before each publication, `Send` the confirmed publication and its
best-effort `queued` row, `SendFails` a lost or refused confirmation.
`BeginReset` opens the reset's transaction and with it fixes NOW(); `CommitReset`
is everything after the lock. The clock counts transaction starts. Rows left by
earlier deployments (`failed`, `processing`, exhausted attempts) are initial
states.

*`ExpenseRecords`.* Every transaction is one action, since each locks the rows
it decides from; previews are separate actions whose versions grow stale. An
import captures duplicate candidates, links automatically where the scores
allow it (abstracted to the pairs they select) and upserts the purchase with
the guards of `ingest.py:1915-1990`.

*`ModelTasks`.* One profile with its queue; a task row is claimed under a
session lock that ends with the database session, not with the broker's
delivery, so the two can be lost apart. The reply queue only wakes a
coordinator that polls anyway and is left out.

*`BankImport`.* A scan is one transaction with a savepoint per file; the
original is written to disk before it. `held` is the table lock that the
scan's ALTER TABLE takes. `import_tree` reads each file again after its plan.

*`Allocations`.* A page is built by several queries (`ReadRows`,
`ReadVersion`), a save is one transaction. Expense numbers are reassigned by the
receipt database while pages are open; links are stored by receipt hash.

*`ItemReview`.* A reading is a sequence of named amounts. An import matches it
to the rows by name and amount (`assign_existing`), blocks when a reviewed row
is left over and deletes unreviewed ones. The product search selects without
locks, looks up for minutes and updates by id, keeping its rows locked.

*`SchemaUpgrade`.* `Mark`, `Build` and `Switch` are the three commits of
`ensure_receipt_schema` under one session lock.

*`SourceRefresh`.* The inventory, the archiving transaction and the removal of
each cache (lock, look again, copy, commit, unlink) are separate steps, with
imports, a worker and changing files between them.

*`DirectIngest`.* `receipt_lock` is a session lock, so it outlives the commits
made while it is held; the candidate's status is read once before and once
under it.

*`BankMatching`.* A purchase is a record of how it compares with the
transaction (amount, day, merchant, card, account, identifier), scored by the
weights of the source.

*`ItemDiscovery`.* One item on its way through `collaborate_item`. A search
answers with a subset of the hits or fails; a hit is what the scoring of
`candidate_evidence` tells apart; each model call answers, is cut short, or
fails, and the errors it leaves decide at the end.

*Calculations.* Each module enumerates inputs by letting a receipt print one
line, an engine report one pass, or a page show one row at a time, and computes
the result with operators that follow the functions of the source. Lines are
records of what the patterns see in them: the patterns themselves are not
modelled. `ItemRows` lets an engine emit the columns of a section names first
or prices first; `OrderedMatches` compares the counting of optimal paths with
an enumeration of all matchings; `Merchants` takes a header above and below a
customer block, footers, and readings of up to two passes; `StoreOrders`
renders cards and fragments in any order while the importer polls.

## 3. The runs

| Run | Instance | Shows |
|---|---|---|
| `work_dispatch` | 2 workers, 1 path, 2 contents, 3 requests (fresh, normal, cached), 1 pass per run, 2 attempts, 1 redelivery, 1 crash or lost connection, 1 replaced file or dropped artifact; 1.1 million states | `TypeOK`, `NoWorkLost`, `FreshEvidence`, `PassesAfterRun`, `NoWastedOcr` |
| `result_collector` | 2 collectors, a cache rebuild and a normal import that share a run, 2 attempts, 1 redelivery, 1 stop; 360 thousand states | `NoResultLost`, `AppliedOnce` |
| `receipt_pipeline` | 1 worker, 1 collector, a normal import and a fresh reprocess of one receipt, 2 attempts each side, 1 worker crash; 200 thousand states, with fairness | `Traceable`, `CompletedByFreshRun`, `KeepsPromise` (the refinement of `ReceiptJob`, liveness included) |
| `commands` | one part at a time: a cached command beside a worker over 2 contents filed under one path; 2 set-ups over 3 releases with 1 death; a refresh over 2 references and 2 contents with 2 changes, 2 OCR runs and 1 import; 2 processes ingesting 2 contents under 1 path, 3 calls, 2 tries, 2 edits; 1 bank transaction and 2 purchases; 3 kinds of item with 3 hits and teams of 1 or 2 profiles; 1.5 million states | `ReadFromReceipt`, `RollbackCopyKept`, `RetiredIsRetained`, `WorkedOnce`, `CompletedHasEvidence`, `SafeMatch`, `RecommendedOnEvidence` |
| `intake_publication` | 2 publishers, 2 receipts, 2 intake commands, 1 reset, 1 fault, 1 worker row; 2.1 million states | `OneCopyPerRelease`, `CompletionKept` |
| `expense_records` | 3 receipts, 1 Instacart and 1 Costco order, 2 decisions of operators; 1.8 million states | `EvidenceCountsOnce`, `GoneWithLastReceipt`, `HumanDecisionStands`, `OperatorWorkStands` |
| `model_tasks` | 1 profile, 2 workers of which 1 may fail, 3 faults, 2 rounds; 300 thousand states, with fairness | `TaskKept`, `RecommendedOnAnswers`, `ResultFinal`, `Decides` |
| `bank_import` | 2 download folders (one configured), contents of 0, 1 or 2 rows, 3 changes, 1 fault; 2.2 million states | `ImportedWhole`, `BookedOnce`, `ScanSettles` |
| `web_edits` | 2 editors, 2 transactions, 2 receipts, 1 expense number, 2 saves, 2 renumberings; and 2 lines, 3 item ids, 2 edits, 1 rule; 380 thousand states | `SeenReplaced`, `LinksStand`, `ReviewStands` |
| `calculations` | one calculation at a time: 4 lines of a receipt; 3 candidates for a page; 3 passes; matchings of 3 by 2 rows; columns of 6 lines; orders of 2 rows and 1 poll more; Costco receipts of 3 lines, batches of 1, 2 calls, 1 error; headers of 3 lines with 2 reports; 800 thousand states | `AdjustmentsStay`, `CoherentHeaderWins`, `PassesAreNotVotes`, `PricesFindTheirRows`, `OrderLinesAddUp`, `SpendPreserved`, `SellerPrinted` |
| `reset_releases` | 1 receipt, 1 intake command, 1 reset | violation, finding 1 |
| `refresh_books_nothing` | as `expense_records` | violation, finding 2 |

### Bounds, and why they are enough

`MaxAttempts` stands for 11 and `MaxResultAttempts` for 25: two attempts give a
first, a last and the step between. `DeliveryLimit` and `ResultLimit` stand for
20: one redelivery and then the limit. `MaxPublish` bounds how often one request
is published (a second publication of the same identity differs from a
redelivery only in its counter), `MaxCrash`, `MaxStops`, `MaxFault`, `MaxFaults`
and `MaxDeaths` the crashes, lost connections and sessions, `MaxDisturb`,
`MaxChanges` and `MaxEdits` what happens to files, downloads and items,
`MaxIntake`, `MaxReset`, `MaxRecord`, `MaxIngests` and `MaxImports` the
commands, `MaxDecisions`, `MaxSaves` and `MaxMoves` what people and the receipt
database do. One crash can happen at every point of every execution; a second
one adds only repetitions of it, except where a fault hides behind another:
`model_tasks` takes three (a lost delivery, the death of the session's holder,
and one more).

Two workers are enough for a redelivery to overtake an abandoned execution, two
collectors for a race on one event, two publishers for one reservation, two
editors for one version. Three receipts are enough for evidence to be linked,
merged and matched a third time. Three releases are needed for a set-up that
waited to be older than the active one and another copy to be kept meanwhile.
A stale cache needs time as well as contents: staleness by contents is exercised
in `work_dispatch`, staleness by time in `receipt_pipeline` through
`CompletedByFreshRun`.

The inputs of the calculations are chosen so that every branch of the modelled
functions is taken: for each kind of line a clean and a damaged amount, a name
and its misreading, totals that agree, disagree and agree by accident. Some
parts were also checked once beyond what the runs keep: `ItemReview` with three
edits (1,038,164 states), `SchemaUpgrade` with two deaths (488 thousand),
`DirectIngest` with four calls, `BankMatching` with every combination of
comparisons (4,697,954), `ItemRows` with seven lines (84,287).

`CHECK_DEADLOCK FALSE` everywhere: the instances end when their requests are
settled and their bounds are used up.

### Fairness

`PipeFairness` (`receipt_pipeline`): weak fairness of each worker's and each
collector's step, of the two TTL expiries. The consume loops take whatever is
delivered and the calls they make return or raise (`consume_worker`,
`consume_results`), TTLs are the broker's. Nothing is assumed of crashes, of
publications or of success: a worker may fail every attempt.

`ModelTasks`: weak fairness of the coordinator's poll, of the deadline
(`Expire`) and of each worker's step. The coordinator sleeps and polls in a
loop (`model_collaboration_queue.py:157`), a worker's handler is bounded by the
HTTP time-out of its provider, and time passes. Nothing is assumed of answers:
`Decides` holds because a round ends at its deadline whatever the workers do.

All other properties are safety properties and assume no fairness.

## 4. What the runs found

Two documented statements are not what the code does; each has a run:

1. *"releases its old reservations atomically"* (`docs/local-development.md:319-320`).
   A reset that waited for a running intake command is dated before the
   reservation that command made, so the receipt stays held although the reset
   reported success (`reset_releases`).
2. *"Refresh secondary evidence without replacing the canonical purchase or
   creating another expense"* (`parallel_ingest.py:679-680`). The purchase of a
   store order has no `source_sha256`, so the refresh of a scan linked to it
   books a second purchase, and both count (`refresh_books_nothing`).

Seen while modelling, without a run of its own. The properties state what does
hold beside them.

- *Receipt path.* A completed request redelivered after a newer one finds
  another artifact than its marker names, and is run and applied again
  (`docs/rabbitmq-receipt-design.md:99-100` says it is skipped). A cache-only
  result whose run another request announced first is a duplicate and its
  request is never recorded (`:261-262`). A delayed event of an older run takes
  the evidence back to it (`:262-263`). The document's budget of three attempts
  (`:100-101`) is `MAX_ATTEMPTS` 11 in `message.py`, and a crash counts against
  the broker's limit of 20 deliveries instead. `RecordRetry`: retries and dead
  letters write queued rows as well, so a receipt dead-lettered without a status
  row is held until an explicit reprocess.
- *Purchases.* `docs/local-development.md:1143-1145` "Another retained receipt
  keeps a shared purchase active" does not hold when electronic matching or a
  merge moves evidence to a deleted keeper. A verified date on evidence without
  a purchase is not carried into the purchase made later. Reloading Instacart
  orders (`orders.py:2827-2961`) wipes merge, deletion, date and allocation
  marks. A rejected pair can come together through a third receipt. The version
  of an allocation does not cover the raw payload.
- *Model tasks.* `docs/product-model-comparison.md:364-365` "interrupted tasks
  have a bounded retry budget": a redelivery to a worker that finds the session
  lock taken is acknowledged, so a task may be left without a message
  (`model_collaboration_queue.py:87`); the deadline ends it.
- *Discovery.* `docs/product-model-comparison.md` "no automatic provider
  retries" is older than the retries of truncated answers. When the first Qwen
  review fails or abstains no fallback can lead to a recommendation any more,
  and the paid reviews are asked in vain. A failed correction keeps the
  unfiltered queries of the first answer.
- *Items.* `product_enrichment.run` selects without locks and updates by id
  minutes later: a description saved meanwhile is overwritten while the audit
  row claims it was empty, and one row deleted meanwhile by an import fails the
  whole batch. It renames items, after which the same reading no longer matches
  them and is blocked. The second `load_existing` of an import does not look
  again for unmatched reviewed rows. README.md:518-521 says unmapped items are
  marked `category_requires_review = true`; `persist_items` leaves it FALSE. A
  rule saved while an import is uncommitted misses its new rows
  (`docs/user-guide.md` "immediately applies"). An override's rationale is
  replaced by a later rule. `load_approved_mappings` ignores the scope and lets
  the lower priority win.
- *Splits.* `docs/bank-transactions.md` "Stale edits are rejected": the page
  reads rows and version in two statements (`workflows.py:120-125`), so a page
  with old rows and the new version can be saved (`:178`); `SeenReplaced` is
  about what the version names. After a merge or deletion a freshly loaded page
  cannot be saved again.
- *Bank import.* A crash inside `retain` (`discovery.py:20`) leaves a cut-short
  original, after which no scan imports those contents; `ScanSettles` excepts
  it. A file imported by hand into another account counts as known.
- *Bank matching.* `enrich` reads without a lock, so provenance may say that a
  value was applied which another writer set first; a second enrichment
  overwrites provenance with `applied=False`.
- *Schema.* The first upgrade of legacy tables that dies after `_mark_dirty`
  drops the copy it has built and renames the old tables to the new colour, so
  the clean row names the new template while the tables are old. A release that
  rolls back rebuilds the retained colour empty instead of switching to it. A
  waiting older set-up may rebuild an older version over a newer one.
- *Refresh.* Between the last look and `unlink` a worker with other contents
  (another lock) may replace the cache, whose fresh bytes are deleted without a
  copy. A delayed result of an archived source imports it again and
  `upsert_evidence` (`evidence.py:219-223`) drops the `source_archived` mark
  until the next refresh.
- *Direct ingest.* Without `verify_source` a backlog marks the hash it planned
  completed although the evidence has the replaced file's hash;
  `CompletedHasEvidence` leaves those receipts out. A failed reprocess of a
  completed receipt leaves it `failed`.
- *Calculations.* A refund whose amount a discount has brought to nothing has
  lost its sign (`ingest.py:1621`): the deposit printed under it is charged and
  not refunded, which `AdjustmentsStay` allows in that case only. Repeated passes of one engine count as readings of a merchant;
  a business named in the customer block can become the merchant, since the
  first sources of `extract_merchant` do not stop at "Ship to". A price lost in
  an incomplete block of columns shifts its neighbours. In an Instacart order a
  refund of three pieces for $10.00 is stored as $-9.99, a line locked by
  "Quantity: 1" can still be raised from the text, a poll with as many items as
  before discards better readings, inferred quantities above 9 are reset to 1,
  two cards of one product become one line, and repeated identical fee lines
  count once. In the Costco importer products with a word of `SKIP_PATTERNS` are
  dropped, two PDFs with one order id keep only the last one's items, the call
  budget can be exceeded by one, an empty answer is asked for again, and a batch
  of one is prompted without instructions (`ai.py:171-178`, precedence of
  `'\n'.join`).

## 5. The proofs

TLAPS proves every state and step property of the concurrent modules, with the
safety half of the refinement, and all but one of the properties of the
calculations, for any constants that satisfy the named assumptions of the
modules: any number of workers, collectors, publishers, editors, receipts and
orders, any limits and bounds, documents and runs of OCR of any length. The
theorems are about the
specifications the runs check (a deployment with fairness implies the
specification without it: `DeployedIsPipeline`).

| Module | Theorem | States |
|---|---|---|
| `WorkDispatch_proofs` | `TypeCorrect` | `Spec => []TypeOK` |
| | `RunEventFirst` | `Spec => []PassesAfterRun` |
| | `WorkIsNotLost` | `Spec => []NoWorkLost` |
| | `FreshIsFresh` | `Spec => []FreshEvidence` |
| | `OcrIsNotWasted` | `Spec => NoWastedOcr` |
| `ReceiptPipeline_proofs` | `ResultTypeCorrect` | `ResultSpec => []ResultTypeOK` |
| | `RunAppliedOnce` | `ResultSpec => []AppliedOnce` |
| | `ResultIsNotLost` | `ResultSpec => []NoResultLost` |
| | `RequestIsTraceable` | `PipeSpec => []Traceable` |
| | `CompletedIsFresh` | `PipeSpec => []CompletedByFreshRun` |
| | `RecordsWhatWasRead` | `PipeSpec => []ReadFromReceipt` |
| | `ImplementsJob` | `PipeSpec => PromisedJob!Spec` |
| | `DeployedIsPipeline` | `PipeFairSpec => PipeSpec` |
| `ExpenseRecords_proofs` | `RecordsTypeCorrect` | `Spec => []TypeOK` |
| | `CountsOnce` | `Spec => []EvidenceCountsOnce` |
| | `LeavesWithLastReceipt` | `Spec => []GoneWithLastReceipt` |
| | `DecisionsOfPeopleStand` | `Spec => HumanDecisionStands` |
| | `WorkOfPeopleStands` | `Spec => OperatorWorkStands` |
| `Ingest_proofs` | `ReceiptsAreWorkedOnce` | `DirectSpec => []WorkedOnce` |
| | `CompletedIsBooked` | `DirectSpec => []CompletedHasEvidence` |
| | `RollbackCopyIsKept` | `SchemaSpec => []RollbackCopyKept` |
| | `CachesAreRetained` | `RefreshSpec => RetiredIsRetained` |
| | `ResetKeepsCompletion` | `IntakeSpec => CompletionKept` |
| | `JobIsSentOnce` | `IntakeSpec => []OneCopyPerRelease` |
| `Items_proofs` | `TasksTypeCorrect` | `Spec => []TypeOK` |
| | `TaskIsKept` | `Spec => []TaskKept` |
| | `ResultIsFinal` | `Spec => ResultFinal` |
| | `RecommendationRests` | `Spec => []RecommendedOnAnswers` |
| | `RecommendationHasEvidence` | `DiscoverySpec => []RecommendedOnEvidence` |
| | `ReviewsAreKept` | `ItemSpec => ReviewStands` |
| `Bank_proofs` | `LinksAreSafe` | `MatchingSpec => []SafeMatch` |
| | `ImportTypeCorrect` | `ImportSpec => []ImportTypeOK` |
| | `FoundIsWhole` | `ImportSpec => []ImportedWhole` |
| | `RowsAreBookedOnce` | `ImportSpec => []BookedOnce` |
| | `ScanLeavesNothing` | `ImportSpec => ScanSettles` |
| | `SavesReplaceWhatWasSeen` | `Spec => SeenReplaced` |
| | `LinksAreKept` | `Spec => LinksStand` |
| `Calculations_proofs` | `RepeatedPassesAreNotVotes` | `EvidenceSpec => []PassesAreNotVotes` |
| | `CoherentHeaderStays` | `PagesSpec => []CoherentHeaderWins` |
| | `AdjustmentsAreKept` | `ReadingSpec => []AdjustmentsStay` |
| | `SellerIsPrinted` | `MerchantSpec => []SellerPrinted` |
| | `SpendIsPreserved` | `CostcoSpec => []SpendPreserved` |
| `Orders_proofs` | `LinesAddUp` | `OrderSpec => []OrderLinesAddUp` |

### The inductive invariants

None of the properties is inductive by itself. What carries each of them:

*Work queue.* The bag lemmas (`EmptyQueue`, `AddToQueue`, `RemoveFromQueue`) say
what adding and removing does to a queue's domain. `TypeInv` strengthens
`TypeOK` by `WorkerOK` and `CliOK`: a worker that is not idle has a message, one
that publishes has a run, a command names a request; without them the requeue
of a crashed worker's message is not typed. `PublishingOK` and `CommandOK` carry
`PassesAfterRun` and `NoWorkLost`: a publishing worker's run was read from the
contents its request names, and the first `sent` events of that run are
confirmed, which is what the acknowledgement relies on. `HistoryGrows` (runs and
confirmed events only grow) keeps those facts for every other worker while one
acts, and `HandOver` covers the steps that end a worker's ownership: each leaves
the message pending, dead or delivered. None of this uses the file lock: no work
is lost even without it.

*Fresh evidence.* A request is fresh against its birth, the number of runs there
were when it was first published, so `AskedFirst` says that nothing queued,
held, marked or confirmed belongs to a request that was never published, and
`FreshWork` that the marker of a fresh request, what its worker publishes, and
the cache it is about to use are younger than its birth. The step that needs
care is a cache that is replaced under another lock by another source of the
same path: it is replaced by a run that is younger still (`CacheStep`).
`NoWastedOcr` is where the lock matters: `OneLockPerSource` is mutual exclusion,
and under it `StillToRebuild` keeps what a worker decided from the marker true
until its OCR ends.

*Collector.* The run events of one source are applied under an advisory lock:
`OneTransactionPerSource` is its mutual exclusion, under which `NotYetApplied`
keeps what `CheckRun` found true until `CommitRun`. A delivery that is
acknowledged was committed (`CommittedRecorded`), routed or requeued.

*Composition.* The invariants of both halves hold together (`WorkerPart`,
`CollectorPart`: a step of one leaves the other's variables alone, apart from
the queue between them), joined by `accepted = confirmed`: what the collector's
queue accepted is what the workers had confirmed. `OnlyAccepted` and
`AppliedAccepted` trace what is held, dead or applied back to an accepted event,
so freshness carries over from the confirmed events to the rows of the
database. `JobStep` maps every step to a step of `ReceiptJob` or to a stutter.

*Purchases.* `RecordsInv` says how the rows point: an evidence row's purchase is
booked, a superseded purchase points at a booked one, what people left on a
purchase is on a booked one, a preview names receipts that have rows.
`EvidenceCountsOnce` and `GoneWithLastReceipt` are inductive with it.

*Direct ingest, schema, refresh.* `OneWorker` is the mutual exclusion of the
receipt lock. `SchemaInv` ties the views to the state row (`ViewsOK`), says what
a clean row promises (`CleanOK`) and that the only builder works on the copy not
in use behind a dirty row (`BuildOK`), so its death leaves importers their copy.
`CopiedOK`: everything a refresh is about to retire was copied first.

*Intake.* `CopiesOK` counts for each message the copies the broker was sent and
those on their way there; they are at most the resets paid for it, plus one if a
reservation holds it. `LockOK` says that what the holder of the intake lock
selected is still below its budget and that no release is dated after its
transaction. `RepairsOK` keeps repair jobs to completed receipts, which a reset
never touches (`CompletionInv`).

*Items.* `TaskInv`: a worker holds a task's lock exactly while it runs the task
in a living session (`LockOK`), a locked task has no result (`Unanswered`), and
an unanswered task is queued or worked on (`BeingWorkedOn`, stronger than
`TaskKept`). `PooledIsResult` ties what a round used to the rows. `DiscoveryInv`
adds the shape of the review: one review per turn, no verdict before the
decision. `RowsOK`: ids are given out once, so an id in a page of yesterday names the
same row or none.

*Banks.* `BooksOK` gives the ledger in closed form: for each account and
fingerprint the largest count in any import, for the committed tables and for
every open transaction. With `ArtifactsOK` (a file is known by an import),
`FoundOK` (what a discovery row says is so when the scan commits) and
`SettlesOK` (a file that stayed as it was is either still to do or recorded) it
gives the four theorems. `EditorsOK`: what an editor loaded carries the version
it had then; an equal version means equal rows. `LinksAreSafe` needs that a
decision has a best purchase at all (`BestExists`, by well-foundedness of the
natural numbers, in place of an induction on the number of purchases).

*Calculations.* Their machines only gather inputs, so the invariants are types
(lists of readings, of lines, of pages); the work is in what the operators
compute over data of any length. An induction over data is out of the provers'
reach, and a least counterexample takes its place: `LeastNatural` (the order of
the naturals is well founded) gives every wrong place of a fold a first one,
`SmallestSet` every wrong subset of a finite set a smallest one, and the step
from the one before refutes it. A fold is a `CHOOSE`, so each comes with a lemma
that the chosen function exists (`SupplyExists`, `ReadExists`, `ItemsExist`).

- `RepeatedPassesAreNotVotes`: every decision is shown to depend on the set of
  readings and not on the sequence (`EligibleSame` to `HeaderOfReadings`), and a
  repeated reading does not change that set.
- `CoherentHeaderStays`: `Best` really has a leader in every finite set of
  candidates (`BestIs`, with the lexicographic order of their keys), a coherent
  header leads every other, and no candidate that supplies rows to the page, nor
  the text layer, replaces it (`SuppliedHeader`).
- `SellerIsPrinted`: what `Spelling`, `MostRead`, `NumberedStores` and the votes
  of the passes can return are lines of a header.
- `SpendIsPreserved`: sums over finite sets (`SumIs`, `SumSame`) do not depend on
  the order of summation, so the invariant of the reading, that the items read
  so far cost what the lines read so far charge (`RunRight`), carries to the
  stored order (`BooksRight`).
- `AdjustmentsAreKept`: `StateRight` says after each line of the text that an
  item costs what is printed for it unless something below it changed it, that
  the adjustments without a sold product are counted, and, within the body of
  the receipt, that the item that takes adjustments is the product last printed
  (`LineRight` has a case for each branch of the loop). `ReadingInv` gives the
  text its shape, body and then summary, over the merging of pages
  (`MergedShaped`), and ties a complete receipt to a count of zero.
- `LinesAddUp`: `OrderInv` says that what was parsed and captured is a
  `SortedList`: one line per product, in the order of the names, each
  `CleanRight` (a line whose total follows from its quantity and price within two
  cents, or a refund, whose price is the rounded share of what was paid). Parsing,
  reconciling and cleaning are folds over rows, fragments and items; each is a
  walk through states of one type (`WalkExists`, `WalkStays`), so `AddRowIs`,
  `ReconcileIs` and `AddItemIs` need one step each. Cleaning a cleaned line tells
  no new quantity (`NothingTold`, `CleanAgain`), and lines of different products
  do not meet, so a cleaned list stays as it is (`CleanedList`); the text of the
  page raises a quantity only where a printed amount is within twelve cents
  (`FromTextAddsUp`). For the reports, a rounded share is off by half a cent
  (`RoundingIs`), what rounding leaves goes to one place (`AllocatedIs`), and both
  sheets are sums of the same lines (`CategoryDiffers`, `SheetsShare`).

### Assumptions

The theorems assume only the `ASSUME`s of the modules they are about, which TLC
evaluates on every run: types and finiteness of the sets, bounds that are
naturals, and placeholders outside the sets they stand beside (`Missing`,
`Nowhere`, `NoMessage`, `NoOrder`, `None`, `Blank`). Those with content are
`ContractAssumption` (every request has a source, a kind and a path),
`ContentsAssumption` (what a file's contents hold), `OrderAssumption` of
`DirectIngest` (a request is a row keyed by its receipt, so it names
one content), `SimilarAssumption` (identical receipts are similar), `DiscoveryAssumption` (a search answers with
hits), `MatchingAssumption` (what a comparison can be), `LinesHaveKinds` (amounts
are cents; discounts and deposits are printed above the summary, labels of the
summary in it), `CandidatesAssumption` (a reading is a list of lines with a
confidence and a resolution), `MerchantAssumption` (documents are lists of
lines, numbered stores carry their number), `CostcoAssumption` (a line that
sells carries an amount: it is how the parser knows it) and `OrderAssumption` of
`StoreOrders`: a page shows at least one of what was bought, and no price under
three cents. That is a statement about the store and not about the code, whose
patterns would read a smaller price too. The premise is needed: cleaning leaves a
total within two cents of quantity times price as it is, and when a quantity above
nine was reset to one, a line of one or two cents may keep a total that the next
cleaning takes for two or three pieces. Free lines are outside the model.

### What stays with TLC

- *Liveness*: `Settles`, the fair half of `KeepsPromise`, and `Decides`. `WF`
  needs `ENABLED`, which these provers do not handle.
- `PricesFindTheirRows`: the unique ordered matching is counted by a recursive
  table over every pair of rows, and its uniqueness is a statement about all
  paths through it; the columns are cut into blocks by a recursion of their own.
- `ResetReleases` and `RefreshBooksNothing` do not hold (section 4).

## 6. What is not modelled

- *Images, OCR and the patterns over text.* A run is a number and the contents it
  read; a line is what the patterns see in it. Hash and pages of a file are read
  in one step; in the code the hash comes first (`parallel_ingest.py:379`) and
  the pages minutes later, so a file that is replaced in between and restored
  afterwards is outside the models. Positions of words, departments, item codes
  and store contacts are left out.
- *Invalid message bodies* (dead-lettered at once, like a source check that
  fails), the legacy hash-named cache location, batch bookkeeping.
- *Queue limits*: a full queue refuses a publication, which is `RejectEvent` and
  `SendFails`; a full retry or dead-letter queue ends the process, which is `Crash`,
  since that `publish_confirmed` raises out of the handler.
- *Markers* are one file per request; a marker and the artifact are replaced
  atomically (`os.replace`), as in the code.
- *Dead-result recovery* (`recover_results.py`) replays deliveries dead-lettered
  with an error the current collector no longer raises; it serves dead letters
  of earlier releases.
- *Purchases*: archived sources, the bank-link check of a merge, the manual
  re-run and evidence reload of Costco, merchant identities, the time of day
  apart from the date, audit rows.
- *Banks*: profiles and ownership, exchange rates, the copy of rows from the
  receipt store, the older item-level reports of `reconciliation/`.
- *Stores*: login, crawling and scrolling, the retry of a post-checkout shell page
  (`orders.py:2385-2404`), the month filter, PDF extraction, electronic mail
  receipts, catalogues and card lookups.
- *Language models*: prompts, the protocols of the providers, evaluations, the
  query cache. What the models see of an answer is whether it came, was cut
  short, cites and names.
- *Refresh*: prefixes, electronic roots, the manifest, the refusal in production.
- *Progress and lineage graph, data quality, telemetry, command line, rendering*:
  derived views and plumbing that decide nothing the modelled parts depend on.

## 7. Plan

1. Proofs: `PricesFindTheirRows`, from lemmas about the counts of
   `OrderedMatches` by the least-counterexample argument of the other
   calculations; the model of OCR below with the theorems of
   `WorkDispatch` carried over.
2. Models: hash and pages of an OCR execution as two steps; evidence of archived
   sources in `ExpenseRecords`; the query cache and its expiry beside
   `ItemDiscovery`.
