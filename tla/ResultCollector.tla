--------------------------- MODULE ResultCollector ---------------------------
(***************************************************************************)
(* The collector of OCR results: receipts/ocr_collector.py.                *)
(*                                                                         *)
(* Result events arrive at least once and in any order.  A collector       *)
(* applies a run event in one transaction under the source's advisory      *)
(* lock: the OCR run, the evidence, the canonical expense, the ingest      *)
(* status, the request's completion and the event identity commit          *)
(* together, and only then is the delivery acknowledged.  A pass event     *)
(* needs its run row.  A failed transaction is retried as a new message    *)
(* until the attempt budget is spent, then dead-lettered.                  *)
(*                                                                         *)
(* The canonical expense is reduced to the run it was last written from:   *)
(* matching to another source's expense, operator corrections and deleted  *)
(* receipts are left to the model of the expense itself.                   *)
(***************************************************************************)
EXTENDS ReceiptContract

CONSTANTS
  Collector,       \* collector processes
  MaxResultAttempts, \* MAX_RESULT_ATTEMPTS of ocr_results.py
  ResultLimit,     \* x-delivery-limit of the result work queue
  MaxStops,        \* bound: collector crashes and lost connections
  NoDelivery       \* a collector with no delivery

ASSUME CollectorAssumption ==
  /\ MaxResultAttempts \in Nat \ {0}
  /\ ResultLimit \in Nat
  /\ MaxStops \in Nat
  /\ NoDelivery \notin [event : Event, attempt : Nat, delivered : Nat]

VARIABLES
  results, delayed,  \* the result work queue and the result retry queue
  deadResults,       \* events in the result dead-letter queue
  accepted,          \* history: events the broker has confirmed
  step, held, owns,  \* a collector's progress, delivery and ownership of it
  events,            \* ocr_result_events: message identities
  runRows,           \* receipt_ocr_runs
  imported,          \* sources whose ingest status is a completed one
  reprocessDone,     \* receipt_reprocess_requests with completed_at
  cacheDone,         \* receipt_cache_requests with completed_at
  evidence,          \* the run each source's evidence was written from
  expense,           \* the run each source's expense was written from
  applied,           \* history: how often a request applied a run
  stops              \* crashes and lost connections so far

resultQueues  == <<results, delayed, deadResults>>
collectorVars == <<step, held, owns>>
database == <<events, runRows, imported, reprocessDone, cacheDone, evidence,
              expense, applied>>
resultVars == <<resultQueues, accepted, collectorVars, database, stops>>

-----------------------------------------------------------------------------
Attempt(e, n) == [event |-> e, attempt |-> n, delivered |-> 0]

MessageId(e) == <<e.run, e.part>>

ResultInit ==
  /\ results = EmptyBag /\ delayed = EmptyBag
  /\ deadResults = {} /\ accepted = {}
  /\ step = [k \in Collector |-> "idle"]
  /\ held = [k \in Collector |-> NoDelivery]
  /\ owns = [k \in Collector |-> FALSE]
  /\ events = {} /\ runRows = {} /\ imported = {}
  /\ reprocessDone = {} /\ cacheDone = {}
  /\ evidence = [s \in Source |-> 0]
  /\ expense = [s \in Source |-> 0]
  /\ applied = EmptyBag
  /\ stops = 0

-----------------------------------------------------------------------------
(* The producers' side: one confirmed publication.                         *)
Enqueue(e) ==
  /\ results' = BagAdd(results, Attempt(e, 1))
  /\ accepted' = accepted \cup {e}
  /\ UNCHANGED <<delayed, deadResults, collectorVars, database, stops>>

Receive(k, d) ==
  /\ step[k] = "idle" /\ d \in DOMAIN results
  /\ results' = BagRemove(results, d)
  /\ step' = [step EXCEPT ![k] = "received"]
  /\ held' = [held EXCEPT ![k] = d]
  /\ owns' = [owns EXCEPT ![k] = TRUE]
  /\ UNCHANGED <<delayed, deadResults, accepted, database, stops>>

Goto(k, where) ==
  /\ step' = [step EXCEPT ![k] = where]
  /\ UNCHANGED <<held, owns>>

-----------------------------------------------------------------------------
(* receipt_lock: one session at a time works on a source's run events.     *)
(* Mutant: no advisory lock.                                               *)
SourceUnlocked(s) == s \in Source

SourceLockFree(s) ==
  \A k \in Collector : step[k] = "checked" => held[k].event.source # s

(* What makes an event already in ocr_result_events a duplicate.           *)
RequestCompleted(e) ==
  /\ PersistenceMode(e.request) = "normal"    => e.source \in imported
  /\ PersistenceMode(e.request) = "reprocess" => e.request \in reprocessDone

(* Mutant: a known event is a duplicate whoever asks.                      *)
SeenBefore(e) == MessageId(e) \in events

IsDuplicate(e) == MessageId(e) \in events /\ RequestCompleted(e)

(* Lock the source and look the event up; a duplicate ends the call.       *)
CheckRun(k) ==
  LET e == held[k].event
  IN  /\ step[k] = "received" /\ e.part = 0
      /\ SourceLockFree(e.source)
      /\ Goto(k, IF IsDuplicate(e) THEN "committed" ELSE "checked")
      /\ UNCHANGED <<resultQueues, accepted, database, stops>>

(* persist_evidence_first: a reprocess replaces the expense, a normal      *)
(* result only creates a missing one.                                      *)
ExpenseAfter(e) ==
  IF PersistenceMode(e.request) = "normal" /\ expense[e.source] # 0
  THEN expense[e.source]
  ELSE e.run

ApplyCacheOnly(e) ==
  /\ cacheDone' = cacheDone \cup {e.request}
  /\ UNCHANGED <<imported, reprocessDone, evidence, expense>>

ApplyReceipt(e) ==
  /\ evidence' = [evidence EXCEPT ![e.source] = e.run]
  /\ expense' = [expense EXCEPT ![e.source] = ExpenseAfter(e)]
  /\ imported' = imported \cup {e.source}
  /\ reprocessDone' = IF PersistenceMode(e.request) = "normal"
                      THEN reprocessDone
                      ELSE reprocessDone \cup {e.request}
  /\ UNCHANGED cacheDone

CommitRun(k) ==
  LET e == held[k].event
  IN  /\ step[k] = "checked"
      /\ IF PersistenceMode(e.request) = "cache_only"
         THEN ApplyCacheOnly(e)
         ELSE ApplyReceipt(e)
      /\ runRows' = runRows \cup {e.run}
      /\ events' = events \cup {MessageId(e)}
      /\ applied' = BagAdd(applied, <<e.run, e.request>>)
      /\ Goto(k, "committed")
      /\ UNCHANGED <<resultQueues, accepted, stops>>

(* A pass is a duplicate, or needs its run row, or fails.                  *)
CommitPass(k) ==
  LET e == held[k].event
  IN  /\ step[k] = "received" /\ e.part > 0
      /\ \/ /\ MessageId(e) \in events
            /\ Goto(k, "committed")
            /\ UNCHANGED events
         \/ /\ MessageId(e) \notin events /\ e.run \in runRows
            /\ Goto(k, "committed")
            /\ events' = events \cup {MessageId(e)}
         \/ /\ MessageId(e) \notin events /\ e.run \notin runRows
            /\ Goto(k, "failed")
            /\ UNCHANGED events
      /\ UNCHANGED <<resultQueues, accepted, runRows, imported, reprocessDone,
                     cacheDone, evidence, expense, applied, stops>>

(* Any other error: the transaction rolls back.                            *)
FailResult(k) ==
  /\ step[k] \in {"received", "checked"}
  /\ Goto(k, "failed")
  /\ UNCHANGED <<resultQueues, accepted, database, stops>>

-----------------------------------------------------------------------------
(* A confirmed retry or dead letter first, then the acknowledgement.       *)
(* Mutant: a spent budget drops the event.                                 *)
RouteDropped(k) ==
  LET d == held[k]
  IN  /\ step[k] = "failed" /\ owns[k]
      /\ delayed' = IF d.attempt < MaxResultAttempts
                    THEN BagAdd(delayed, Attempt(d.event, d.attempt + 1))
                    ELSE delayed
      /\ Goto(k, "settled")
      /\ UNCHANGED <<results, deadResults, accepted, database, stops>>

RouteResult(k) ==
  LET d == held[k]
  IN  /\ step[k] = "failed" /\ owns[k]
      /\ IF d.attempt < MaxResultAttempts
         THEN /\ delayed' = BagAdd(delayed, Attempt(d.event, d.attempt + 1))
              /\ UNCHANGED deadResults
         ELSE /\ deadResults' = deadResults \cup {d.event}
              /\ UNCHANGED delayed
      /\ Goto(k, "settled")
      /\ UNCHANGED <<results, accepted, database, stops>>

Forget(k) ==
  /\ step' = [step EXCEPT ![k] = "idle"]
  /\ held' = [held EXCEPT ![k] = NoDelivery]
  /\ owns' = [owns EXCEPT ![k] = FALSE]

AckResult(k) ==
  /\ step[k] \in {"committed", "settled"} /\ owns[k]
  /\ Forget(k)
  /\ UNCHANGED <<resultQueues, accepted, database, stops>>

RequeueResult(d) ==
  IF d.delivered < ResultLimit
  THEN /\ results' = BagAdd(results, [d EXCEPT !.delivered = @ + 1])
       /\ UNCHANGED <<delayed, deadResults>>
  ELSE /\ deadResults' = deadResults \cup {d.event}
       /\ UNCHANGED <<results, delayed>>

(* The process dies: its session ends, so an open transaction is undone.   *)
CollectorCrash(k) ==
  /\ step[k] # "idle" /\ stops < MaxStops
  /\ stops' = stops + 1
  /\ IF owns[k] THEN RequeueResult(held[k]) ELSE UNCHANGED resultQueues
  /\ Forget(k)
  /\ UNCHANGED <<accepted, database>>

(* The broker connection is lost while the database thread goes on.        *)
CollectorCut(k) ==
  /\ step[k] \in {"received", "checked"} /\ owns[k] /\ stops < MaxStops
  /\ stops' = stops + 1
  /\ RequeueResult(held[k])
  /\ owns' = [owns EXCEPT ![k] = FALSE]
  /\ UNCHANGED <<accepted, step, held, database>>

CollectorExit(k) ==
  /\ step[k] \in {"committed", "failed"} /\ ~owns[k]
  /\ Forget(k)
  /\ UNCHANGED <<resultQueues, accepted, database, stops>>

DelayExpires(d) ==
  /\ d \in DOMAIN delayed
  /\ delayed' = BagRemove(delayed, d)
  /\ results' = BagAdd(results, d)
  /\ UNCHANGED <<deadResults, accepted, collectorVars, database, stops>>

-----------------------------------------------------------------------------
CollectorStep(k) ==
  \/ \E d \in DOMAIN results : Receive(k, d)
  \/ CheckRun(k) \/ CommitRun(k) \/ CommitPass(k) \/ FailResult(k)
  \/ RouteResult(k) \/ AckResult(k) \/ CollectorExit(k)

CollectorNext ==
  \/ \E k \in Collector :
        CollectorStep(k) \/ CollectorCrash(k) \/ CollectorCut(k)
  \/ \E d \in DOMAIN delayed : DelayExpires(d)

ResultNext == CollectorNext \/ \E e \in ReceiptEvents : Enqueue(e)

ResultSpec == ResultInit /\ [][ResultNext]_resultVars

-----------------------------------------------------------------------------
Outcome(e) ==
  /\ MessageId(e) \in events
  /\ e.part = 0 => RequestCompleted(e)

Waiting(e) ==
  \/ \E d \in DOMAIN results \cup DOMAIN delayed : d.event = e
  \/ \E k \in Collector :
        owns[k] /\ step[k] \in {"received", "checked", "failed"}
        /\ held[k].event = e

(***************************************************************************)
(* A confirmed result is never lost: it is queued, delayed, held by a      *)
(* collector that has neither committed it nor handed it on, dead-lettered *)
(* or durably recorded together with the completion its mode promises, the *)
(* ingest status for a normal import, the request for a reprocess          *)
(* (handle_result_delivery, "ACK only after commit or a confirmed          *)
(* retry/dead-letter publication").                                        *)
(***************************************************************************)
NoResultLost ==
  \A e \in accepted : Waiting(e) \/ e \in deadResults \/ Outcome(e)

(***************************************************************************)
(* No request applies one OCR run twice, whatever is redelivered and       *)
(* however many collectors hold copies of the event (receipt_lock around   *)
(* _already_persisted in _persist_run): a second application would also    *)
(* advance the attempts that take a receipt out of normal intake.          *)
(***************************************************************************)
AppliedOnce ==
  \A a \in DOMAIN applied : applied[a] = 1
=============================================================================
