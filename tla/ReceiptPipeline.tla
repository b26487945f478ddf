--------------------------- MODULE ReceiptPipeline ---------------------------
(***************************************************************************)
(* The deployed receipt path: OCR workers (WorkDispatch) and the result    *)
(* collector (ResultCollector) joined by the result queue.  A confirmed    *)
(* publish_result is one step of both: the worker counts it as confirmed   *)
(* and the collector's queue holds it.                                     *)
(***************************************************************************)
EXTENDS WorkDispatch, ResultCollector

pipeVars == <<vars, resultVars>>

PipeInit == Init /\ ResultInit

WorkerPublishes(w) ==
  PublishEvent(w) /\ Enqueue(NextEvent(w))

CommandPublishes ==
  PublishCached /\ Enqueue(EventOf(cli.run, cli.sent, cli.request))

WorkerActs(w) ==
  WorkerPublishes(w) \/ (LocalStep(w) /\ UNCHANGED resultVars)

CollectorActs(k) == CollectorStep(k) /\ UNCHANGED vars

DeployedNext ==
  \/ \E w \in Worker : WorkerActs(w)
  \/ Environment /\ UNCHANGED resultVars
  \/ CollectorNext /\ UNCHANGED vars

(* With an operator's cached re-extraction beside the deployed parts.      *)
PipeNext == DeployedNext \/ CommandPublishes

PipeSpec == PipeInit /\ [][PipeNext]_pipeVars

PipeFairness ==
  /\ \A w \in Worker : WF_pipeVars(WorkerActs(w))
  /\ WF_pipeVars(\E c \in DOMAIN retry : RetryExpires(c) /\ UNCHANGED resultVars)
  /\ \A k \in Collector : WF_pipeVars(CollectorActs(k))
  /\ WF_pipeVars(\E d \in DOMAIN delayed : DelayExpires(d) /\ UNCHANGED vars)

PipeFairSpec == PipeInit /\ [][DeployedNext]_pipeVars /\ PipeFairness

-----------------------------------------------------------------------------
QueuedRequests == {r \in Request : Queued(r)}

RunEventsOf(r) == {e \in accepted : e.part = 0 /\ e.request = r}

Requested == {r \in QueuedRequests : published[r] > 0}

Recorded == {r \in QueuedRequests : \E e \in RunEventsOf(r) : Outcome(e)}

Parked == {r \in QueuedRequests : r \in dead \/ RunEventsOf(r) \cap deadResults # {}}

PromisedJob == INSTANCE ReceiptJob
  WITH Job <- QueuedRequests, requested <- Requested, recorded <- Recorded,
       parked <- Parked

(***************************************************************************)
(* Workers, queues and collector together implement ReceiptJob: a          *)
(* published request is eventually durable or dead-lettered, a durable     *)
(* outcome is never undone, and no outcome appears that was not requested  *)
(* (handle_worker_delivery and handle_result_delivery across redelivery,   *)
(* retry, crash and duplicate publication).                                *)
(***************************************************************************)
KeepsPromise == PromisedJob!LiveSpec

(***************************************************************************)
(* A published request can be found at every moment: its message is        *)
(* pending or dead-lettered, or its run event is queued, held,             *)
(* dead-lettered or recorded.  No hand-over between the two queues loses   *)
(* it (publish with confirms, then acknowledge, on both sides).            *)
(***************************************************************************)
Traceable ==
  \A r \in Requested :
     \/ Pending(r) \/ r \in dead
     \/ \E e \in RunEventsOf(r) : Waiting(e) \/ e \in deadResults \/ Outcome(e)

(***************************************************************************)
(* A reprocess request is complete in the database only by an OCR run of   *)
(* its source that was executed after it was published                     *)
(* (force_refresh in produce_result_messages through to completed_at in    *)
(* _persist_run).                                                          *)
(***************************************************************************)
CompletedByFreshRun ==
  \A r \in reprocessDone :
     Fresh(r) => \E a \in DOMAIN applied :
                    /\ a[2] = r /\ a[1] > born[r]
                    /\ runs[a[1]].source = SourceOf[r]

(***************************************************************************)
(* What a request records about a receipt was read from that receipt's     *)
(* contents, also when the file under its reference is replaced and an     *)
(* operator's cached re-extraction publishes beside the workers            *)
(* (cached_reprocess_events: source check, cache read and event under one  *)
(* lock; produce_result_messages: hash of the parsed pages).               *)
(***************************************************************************)
ReadFromReceipt ==
  \A a \in DOMAIN applied : runs[a[1]].source = SourceOf[a[2]]
==============================================================================
