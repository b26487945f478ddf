------------------------- MODULE WorkDispatch_proofs -------------------------
(***************************************************************************)
(* Theorems about the work queue and its OCR workers, for every set of     *)
(* requests, sources and workers and for every value of the bounds.        *)
(***************************************************************************)
EXTENDS WorkDispatch, TLAPS

-----------------------------------------------------------------------------
(* Queues as bags: publishing adds one message, delivering takes one.      *)

(* An empty queue (declare_topology creates the queues empty).             *)
LEMMA EmptyQueue ==
  ASSUME NEW S PROVE IsQueue(EmptyBag, S)
BY DEF IsQueue, EmptyBag, SetToBag

(* publish_confirmed adds one copy and disturbs no other message.          *)
LEMMA AddToQueue ==
  ASSUME NEW S, NEW q, IsQueue(q, S), NEW c \in S
  PROVE  /\ IsQueue(BagAdd(q, c), S)
         /\ DOMAIN BagAdd(q, c) = DOMAIN q \cup {c}
BY DEF IsQueue, BagAdd

(* A delivery takes at most one kind of message out of the queue.          *)
LEMMA RemoveFromQueue ==
  ASSUME NEW S, NEW q, IsQueue(q, S), NEW c \in S
  PROVE  /\ IsQueue(BagRemove(q, c), S)
         /\ DOMAIN BagRemove(q, c) \subseteq DOMAIN q
         /\ DOMAIN q \subseteq DOMAIN BagRemove(q, c) \cup {c}
BY DEF IsQueue, BagRemove

(* An event of an executed run is well formed (result_messages_for_receipt).*)
LEMMA EventTyped ==
  ASSUME NEW n \in Nat \ {0}, NEW i \in Parts, NEW r \in Request
  PROVE  EventOf(n, i, r) \in Event
BY ContractAssumption DEF EventOf, Event

(* Only a run event names a request, and it names one for its own source.  *)
LEMMA ReceiptEventTyped ==
  ASSUME NEW e \in ReceiptEvents
  PROVE  /\ e \in Event
         /\ e.part = 0 => e.request \in Request /\ e.source = SourceOf[e.request]
BY ContractAssumption DEF ReceiptEvents, EventOf, Event

(* An event of an executed run is one a publisher may send.                *)
LEMMA EventPublished ==
  ASSUME NEW n \in Nat \ {0}, NEW i \in Parts, NEW r \in Request
  PROVE  EventOf(n, i, r) \in ReceiptEvents
BY DEF ReceiptEvents

-----------------------------------------------------------------------------
(* What ties a worker's locals to its phase, and the command's to its      *)
(* request: TypeOK is not inductive without it.                            *)

WorkerOK ==
  \A w \in Worker :
     /\ phase[w] # "idle" => job[w] \in Copy
     /\ phase[w] = "idle" => ~attached[w]
     /\ phase[w] \in {"parsed", "publishing"} => result[w] # 0

CliOK == cli.request # NoRequest => cli.run # 0

TypeInv == TypeOK /\ WorkerOK /\ CliOK

LEMMA InitTyped == Init => TypeInv
<1> SUFFICES ASSUME Init PROVE TypeInv
  OBVIOUS
<1>1. IsQueue(work, Copy) /\ IsQueue(retry, Copy)
  BY EmptyQueue DEF Init
<1>2. TypeOK
  BY <1>1, ContractAssumption, DispatchAssumption
  DEF Init, TypeOK, Phases, NoCli, RunIds
<1>3. WorkerOK /\ CliOK
  BY DEF Init, WorkerOK, CliOK, NoCli
<1> QED BY <1>2, <1>3 DEF TypeInv

(* A returned or republished message is a message of the queue.            *)
LEMMA RequeueTyped ==
  ASSUME TypeOK, NEW c \in Copy, Requeue(c)
  PROVE  /\ IsQueue(work', Copy) /\ IsQueue(retry', Copy) /\ dead' \subseteq Request
         /\ retry' = retry
         /\ DOMAIN work \subseteq DOMAIN work'
         /\ dead \subseteq dead'
         /\ c.request \in dead' \/ \E d \in DOMAIN work' : d.request = c.request
<1>1. CASE c.delivered < DeliveryLimit
  <2> DEFINE d == [c EXCEPT !.delivered = @ + 1]
  <2>1. d \in Copy /\ d.request = c.request
    BY <1>1, DispatchAssumption DEF Copy
  <2>2. work' = BagAdd(work, d) /\ retry' = retry /\ dead' = dead
    BY <1>1 DEF Requeue
  <2>3. IsQueue(work, Copy) /\ IsQueue(retry, Copy) /\ dead \subseteq Request
    BY DEF TypeOK
  <2>4. IsQueue(BagAdd(work, d), Copy) /\ DOMAIN BagAdd(work, d) = DOMAIN work \cup {d}
    <3> HIDE DEF d
    <3> QED BY <2>1, <2>3, AddToQueue
  <2> HIDE DEF d
  <2> QED BY <2>1, <2>2, <2>3, <2>4
<1>2. CASE ~(c.delivered < DeliveryLimit)
  BY <1>2 DEF Requeue, TypeOK, Copy
<1> QED BY <1>1, <1>2

(* Publications, deliveries and retries move messages of Copy only.        *)
LEMMA PublishTyped ==
  ASSUME TypeInv, NEW r \in Request, Publish(r) PROVE TypeInv'
<1>1. Message(r, 1) \in Copy
  BY ContractAssumption, DispatchAssumption DEF Message, Copy
<1>2. IsQueue(work', Copy)
  BY <1>1, AddToQueue DEF TypeInv, TypeOK, Publish
<1>3. published' \in [Request -> 0..MaxPublish] /\ born' \in [Request -> Nat]
  BY DispatchAssumption DEF TypeInv, TypeOK, Publish
<1>4. TypeOK'
  BY <1>2, <1>3 DEF TypeInv, TypeOK, Publish, workerVars, cacheVars, bounds, RunIds
<1> QED
  BY <1>4 DEF TypeInv, Publish, workerVars, WorkerOK, CliOK

LEMMA DeliverTyped ==
  ASSUME TypeInv, NEW w \in Worker, NEW c \in DOMAIN work, Deliver(w, c)
  PROVE  TypeInv'
<1>1. c \in Copy
  BY DEF TypeInv, TypeOK, IsQueue
<1>2. IsQueue(work', Copy)
  BY <1>1, RemoveFromQueue DEF TypeInv, TypeOK, Deliver
<1>3. /\ phase' \in [Worker -> Phases]
      /\ job' \in [Worker -> Copy \cup {NoCopy}]
      /\ attached' \in [Worker -> BOOLEAN]
  BY <1>1 DEF TypeInv, TypeOK, Deliver, Phases
<1>4. TypeOK'
  BY <1>2, <1>3 DEF TypeInv, TypeOK, Deliver, inputVars, cacheVars, bounds, RunIds
<1>5. WorkerOK' /\ CliOK'
  BY <1>1 DEF TypeInv, TypeOK, Deliver, WorkerOK, CliOK
<1> QED BY <1>4, <1>5 DEF TypeInv

LEMMA RetryExpiresTyped ==
  ASSUME TypeInv, NEW c \in DOMAIN retry, RetryExpires(c) PROVE TypeInv'
<1>1. c \in Copy
  BY DEF TypeInv, TypeOK, IsQueue
<1>2. IsQueue(work', Copy) /\ IsQueue(retry', Copy)
  BY <1>1, AddToQueue, RemoveFromQueue DEF TypeInv, TypeOK, RetryExpires
<1>3. TypeOK'
  BY <1>2 DEF TypeInv, TypeOK, RetryExpires, inputVars, workerVars, cacheVars,
              bounds, RunIds
<1> QED
  BY <1>3 DEF TypeInv, RetryExpires, workerVars, WorkerOK, CliOK

(* The locals of an ended call are well typed.                             *)
LEMMA EndCallTyped ==
  ASSUME TypeInv, NEW w \in Worker, NEW how \in Phases, EndCall(w, how)
  PROVE  /\ phase' \in [Worker -> Phases]
         /\ reused' \in [Worker -> BOOLEAN]
         /\ result' \in [Worker -> RunIds]
         /\ sent' \in [Worker -> 0..(NPasses + 1)]
<1>1. 0 \in RunIds /\ 0 \in 0..(NPasses + 1)
  BY ContractAssumption DEF TypeInv, TypeOK, RunIds
<1>2. phase' \in [Worker -> Phases] /\ reused' \in [Worker -> BOOLEAN]
  BY DEF TypeInv, TypeOK, EndCall
<1>3. result' \in [Worker -> RunIds] /\ sent' \in [Worker -> 0..(NPasses + 1)]
  BY <1>1 DEF TypeInv, TypeOK, EndCall
<1> QED BY <1>2, <1>3

(* Under the lock a worker only changes its own locals and the cache.      *)
LEMMA LockedStepTyped ==
  ASSUME TypeInv, NEW w \in Worker,
         Lock(w) \/ UseCache(w) \/ ExecuteOcr(w) \/ FailOcr(w) \/ Finish(w)
  PROVE  TypeInv'
<1> USE DEF TypeInv
<1>0. job[w].request \in Request /\ PathFor(job[w].request) \in Path
  <2>1. phase[w] # "idle"
    BY DEF Lock, UseCache, ExecuteOcr, FailOcr, Finish
  <2> QED BY <2>1, ContractAssumption DEF WorkerOK, Copy, PathFor
<1>1. CASE Lock(w)
  <2>1. TypeOK'
    BY <1>1 DEF TypeOK, Lock, Rebuild, CompletedRebuild, Phases, queueVars,
                inputVars, cacheVars, bounds, RunIds
  <2> QED BY <1>1, <2>1 DEF Lock, WorkerOK, CliOK, TypeOK
<1>2. CASE UseCache(w)
  <2>1. cache[PathFor(job[w].request)] \in RunIds \ {0}
    BY <1>0, <1>2 DEF TypeOK, UseCache, CacheHit
  <2>2. TypeOK'
    BY <1>2, <2>1 DEF TypeOK, UseCache, Phases, queueVars, inputVars, cacheVars,
                      bounds, RunIds
  <2> QED BY <1>2, <2>1, <2>2 DEF UseCache, WorkerOK, CliOK, TypeOK
<1>3. CASE ExecuteOcr(w)
  <2>1. /\ runs' \in Seq(RunRecord) /\ Len(runs') = Len(runs) + 1
        /\ Len(runs) \in Nat
    BY <1>0, <1>3 DEF TypeOK, ExecuteOcr, RunRecord
  <2>2. RunIds \subseteq RunIds' /\ Len(runs) + 1 \in RunIds' /\ Len(runs) + 1 # 0
    BY <2>1 DEF RunIds
  <2>3. /\ cache' \in [Path -> RunIds'] /\ result' \in [Worker -> RunIds']
        /\ marker' \in [Request -> RunIds']
        /\ cli' \in [request : Request \cup {NoRequest}, run : RunIds',
                     sent : 0..(NPasses + 1)]
    BY <1>3, <2>2 DEF TypeOK, ExecuteOcr
  <2>4. TypeOK'
    BY <1>3, <2>1, <2>3 DEF TypeOK, ExecuteOcr, Phases, queueVars, inputVars, bounds
  <2> QED BY <1>3, <2>2, <2>4 DEF ExecuteOcr, WorkerOK, CliOK, TypeOK
<1>4. CASE FailOcr(w)
  <2>0. EndCall(w, "failed") /\ "failed" \in Phases
    BY <1>4 DEF FailOcr, Phases
  <2>1. TypeOK'
    BY <1>4, <2>0, EndCallTyped DEF TypeOK, FailOcr, queueVars, inputVars, cacheVars,
                                    bounds, RunIds
  <2> QED BY <1>4, <2>1 DEF FailOcr, EndCall, WorkerOK, CliOK, TypeOK
<1>5. CASE Finish(w)
  <2>1. marker' \in [Request -> RunIds]
    <3>1. marker' = marker \/ marker' = [marker EXCEPT ![job[w].request] =
                                                     cache[PathFor(job[w].request)]]
      BY <1>5 DEF Finish
    <3> QED BY <1>0, <3>1 DEF TypeOK
  <2>2. /\ phase' \in [Worker -> Phases] /\ reused' \in [Worker -> BOOLEAN]
        /\ result' \in [Worker -> RunIds] /\ sent' \in [Worker -> 0..(NPasses + 1)]
    <3>1. CASE EndCall(w, "invalid") \/ EndCall(w, "failed")
      BY <3>1, EndCallTyped DEF Phases
    <3>2. CASE /\ phase' = [phase EXCEPT ![w] = "publishing"]
               /\ reused' = [reused EXCEPT ![w] = FALSE]
               /\ UNCHANGED <<result, sent>>
      BY <3>2 DEF TypeOK, Phases
    <3> QED BY <1>5, <3>1, <3>2 DEF Finish
  <2>3. TypeOK'
    BY <1>5, <2>1, <2>2 DEF TypeOK, Finish, queueVars, inputVars, bounds, RunIds
  <2> QED BY <1>5, <2>3 DEF Finish, EndCall, WorkerOK, CliOK, TypeOK
<1> QED BY <1>1, <1>2, <1>3, <1>4, <1>5

(* Publication, routing and the ends of a call.                            *)
LEMMA PublishEventTyped ==
  ASSUME TypeInv, NEW w \in Worker, PublishEvent(w) PROVE TypeInv'
<1> USE DEF TypeInv
<1>1. job[w].request \in Request /\ result[w] \in Nat \ {0} /\ sent[w] \in Parts
  BY DEF TypeOK, WorkerOK, PublishEvent, Copy, RunIds, Parts
<1>2. NextEvent(w) \in Event
  BY <1>1, EventTyped DEF NextEvent
<1>3. sent' \in [Worker -> 0..(NPasses + 1)]
  <2>1. sent[w] + 1 \in 0..(NPasses + 1)
    BY <1>1, ContractAssumption DEF Parts
  <2> QED BY <2>1 DEF TypeOK, PublishEvent
<1>4. TypeOK'
  BY <1>2, <1>3 DEF TypeOK, PublishEvent, queueVars, inputVars, cacheVars, bounds,
                    RunIds
<1> QED BY <1>4 DEF PublishEvent, WorkerOK, CliOK

LEMMA RouteTyped ==
  ASSUME TypeInv, NEW w \in Worker, Route(w) PROVE TypeInv'
<1> USE DEF TypeInv
<1>1. job[w] \in Copy
  BY DEF WorkerOK, Route
<1>2. Retries(w) => Message(job[w].request, job[w].attempt + 1) \in Copy
  BY <1>1, ContractAssumption, DispatchAssumption DEF Retries, Message, Copy
<1>3. IsQueue(retry', Copy) /\ dead' \subseteq Request
  <2>1. CASE Retries(w)
    <3> DEFINE m == Message(job[w].request, job[w].attempt + 1)
    <3>1. m \in Copy /\ retry' = BagAdd(retry, m) /\ dead' = dead
      BY <1>2, <2>1 DEF Route
    <3>2. IsQueue(retry, Copy) /\ dead \subseteq Request
      BY DEF TypeOK
    <3> HIDE DEF m
    <3> QED BY <3>1, <3>2, AddToQueue
  <2>2. CASE ~Retries(w)
    BY <1>1, <2>2 DEF TypeOK, Route, Copy
  <2> QED BY <2>1, <2>2
<1>4. TypeOK'
  BY <1>3 DEF TypeOK, Route, Phases, inputVars, cacheVars, bounds, RunIds
<1> QED BY <1>4 DEF Route, WorkerOK, CliOK, TypeOK

(* However a call ends, the worker's locals are well typed afterwards.     *)
LEMMA ReleaseTyped ==
  ASSUME TypeInv, NEW w \in Worker, Release(w), runs' = runs, cli' = cli
  PROVE  /\ phase' \in [Worker -> Phases]
         /\ job' \in [Worker -> Copy \cup {NoCopy}]
         /\ attached' \in [Worker -> BOOLEAN]
         /\ reused' \in [Worker -> BOOLEAN]
         /\ result' \in [Worker -> RunIds']
         /\ sent' \in [Worker -> 0..(NPasses + 1)]
         /\ WorkerOK' /\ CliOK'
<1>1. /\ phase' \in [Worker -> Phases]
      /\ job' \in [Worker -> Copy \cup {NoCopy}]
      /\ attached' \in [Worker -> BOOLEAN]
      /\ reused' \in [Worker -> BOOLEAN]
      /\ result' \in [Worker -> RunIds']
      /\ sent' \in [Worker -> 0..(NPasses + 1)]
  <2>1. RunIds' = RunIds /\ "idle" \in Phases
    BY DEF RunIds, Phases
  <2>2. /\ phase' \in [Worker -> Phases]
        /\ reused' \in [Worker -> BOOLEAN]
        /\ result' \in [Worker -> RunIds]
        /\ sent' \in [Worker -> 0..(NPasses + 1)]
    BY <2>1, EndCallTyped DEF Release
  <2>3. job' \in [Worker -> Copy \cup {NoCopy}] /\ attached' \in [Worker -> BOOLEAN]
    BY DEF TypeInv, TypeOK, Release
  <2> QED BY <2>1, <2>2, <2>3
<1>2. WorkerOK' /\ CliOK'
  BY DEF TypeInv, TypeOK, Release, EndCall, WorkerOK, CliOK
<1> QED BY <1>1, <1>2

LEMMA EndOfCallTyped ==
  ASSUME TypeInv, NEW w \in Worker,
         RejectEvent(w) \/ Ack(w) \/ Abandon(w) \/ Crash(w) \/ ConnectionLost(w)
  PROVE  TypeInv'
<1> USE DEF TypeInv
<1>1. CASE RejectEvent(w)
  <2>0. EndCall(w, "failed") /\ "failed" \in Phases
    BY <1>1 DEF RejectEvent, Phases
  <2>1. TypeOK'
    BY <1>1, <2>0, EndCallTyped DEF TypeOK, RejectEvent, queueVars, inputVars,
                                    cacheVars, bounds, RunIds
  <2> QED BY <1>1, <2>1 DEF RejectEvent, EndCall, WorkerOK, CliOK, TypeOK
<1>2. CASE Ack(w)
  <2>1. Release(w) /\ runs' = runs /\ cli' = cli
    BY <1>2 DEF Ack, cacheVars
  <2>2. TypeOK'
    BY <1>2, <2>1, ReleaseTyped DEF TypeOK, Ack, queueVars, inputVars, cacheVars,
                                    bounds, RunIds
  <2> QED BY <2>1, <2>2, ReleaseTyped
<1>3. CASE Abandon(w)
  <2>1. Release(w) /\ runs' = runs /\ cli' = cli
    BY <1>3 DEF Abandon, cacheVars
  <2>2. TypeOK'
    BY <1>3, <2>1, ReleaseTyped DEF TypeOK, Abandon, queueVars, inputVars, cacheVars,
                                    bounds, RunIds
  <2> QED BY <2>1, <2>2, ReleaseTyped
<1>4. CASE Crash(w)
  <2>1. Release(w) /\ runs' = runs /\ cli' = cli
    BY <1>4 DEF Crash, cacheVars
  <2>2. IsQueue(work', Copy) /\ IsQueue(retry', Copy) /\ dead' \subseteq Request
    BY <1>4, RequeueTyped DEF TypeOK, WorkerOK, Crash, queueVars
  <2>3. crashes' \in 0..MaxCrash
    BY <1>4, DispatchAssumption DEF TypeOK, Crash
  <2>4. TypeOK'
    BY <1>4, <2>1, <2>2, <2>3, ReleaseTyped DEF TypeOK, Crash, inputVars, cacheVars,
                                                RunIds
  <2> QED BY <2>1, <2>4, ReleaseTyped
<1>5. CASE ConnectionLost(w)
  <2>1. IsQueue(work', Copy) /\ IsQueue(retry', Copy) /\ dead' \subseteq Request
    BY <1>5, RequeueTyped DEF TypeOK, WorkerOK, ConnectionLost
  <2>2. crashes' \in 0..MaxCrash
    BY <1>5, DispatchAssumption DEF TypeOK, ConnectionLost
  <2>3. TypeOK'
    BY <1>5, <2>1, <2>2 DEF TypeOK, ConnectionLost, inputVars, cacheVars, RunIds
  <2> QED BY <1>5, <2>3 DEF ConnectionLost, WorkerOK, CliOK, TypeOK
<1> QED BY <1>1, <1>2, <1>3, <1>4, <1>5

(* The cached re-extraction command and the file system.                   *)
LEMMA OutsideTyped ==
  ASSUME TypeInv,
         \/ \E r \in Request : StartCached(r)
         \/ PublishCached \/ EndCached
         \/ \E s \in Source : ReplaceSource(s)
         \/ \E p \in Path : DropCache(p)
  PROVE  TypeInv'
<1> USE DEF TypeInv
<1>1. ASSUME NEW r \in Request, StartCached(r) PROVE TypeInv'
  <2>1. PathFor(r) \in Path
    BY ContractAssumption DEF PathFor
  <2>2. cache[PathFor(r)] \in RunIds \ {0}
    BY <1>1, <2>1 DEF TypeOK, StartCached, CacheHit
  <2>3. published' \in [Request -> 0..MaxPublish]
    BY <1>1, DispatchAssumption DEF TypeOK, StartCached
  <2>4. cli' \in [request : Request \cup {NoRequest}, run : RunIds,
                  sent : 0..(NPasses + 1)] /\ CliOK'
    BY <1>1, <2>2, ContractAssumption DEF StartCached, CliOK
  <2>5. TypeOK'
    BY <1>1, <2>3, <2>4 DEF TypeOK, StartCached, queueVars, workerVars, cacheVars,
                            bounds, RunIds
  <2> QED BY <1>1, <2>4, <2>5 DEF StartCached, WorkerOK, workerVars
<1>2. CASE PublishCached
  <2>1. cli.run \in Nat \ {0} /\ cli.sent \in Parts /\ cli.request \in Request
    BY <1>2 DEF TypeOK, CliOK, PublishCached, RunIds, Parts
  <2>2. EventOf(cli.run, cli.sent, cli.request) \in Event
    BY <2>1, EventTyped
  <2>3. cli' \in [request : Request \cup {NoRequest}, run : RunIds,
                  sent : 0..(NPasses + 1)] /\ CliOK'
    <3>1. cli.sent + 1 \in 0..(NPasses + 1)
      BY <1>2, <2>1, ContractAssumption DEF Parts
    <3> DEFINE CliType == [request : Request \cup {NoRequest}, run : RunIds,
                           sent : 0..(NPasses + 1)]
    <3>2. cli \in CliType /\ cli' = [cli EXCEPT !.sent = cli.sent + 1]
      BY <1>2 DEF TypeOK, PublishCached
    <3>3. cli' \in CliType
      BY <3>1, <3>2
    <3> QED BY <2>1, <3>2, <3>3 DEF CliOK
  <2>4. TypeOK'
    BY <1>2, <2>2, <2>3 DEF TypeOK, PublishCached, queueVars, inputVars, workerVars,
                            cacheVars, bounds, RunIds
  <2> QED BY <1>2, <2>3, <2>4 DEF PublishCached, WorkerOK, workerVars
<1>3. CASE EndCached
  <2>1. cli' \in [request : Request \cup {NoRequest}, run : RunIds,
                  sent : 0..(NPasses + 1)]
    BY <1>3, ContractAssumption DEF TypeOK, EndCached, NoCli, RunIds
  <2>2. TypeOK'
    BY <1>3, <2>1 DEF TypeOK, EndCached, queueVars, inputVars, workerVars, cacheVars,
                      bounds, RunIds
  <2> QED BY <1>3, <2>2 DEF EndCached, NoCli, WorkerOK, CliOK, workerVars
<1>4. ASSUME NEW s \in Source, ReplaceSource(s) PROVE TypeInv'
  <2>1. contents' \in [Path -> Source]
    BY <1>4 DEF TypeOK, ReplaceSource
  <2>3. disturbed' \in 0..MaxDisturb
    BY <1>4, DispatchAssumption DEF TypeOK, ReplaceSource
  <2>2. TypeOK'
    BY <1>4, <2>1, <2>3 DEF TypeOK, ReplaceSource, queueVars, inputVars, workerVars,
                      cacheVars, RunIds
  <2> QED BY <1>4, <2>2 DEF ReplaceSource, WorkerOK, CliOK, workerVars
<1>5. ASSUME NEW p \in Path, DropCache(p) PROVE TypeInv'
  <2>1. cache' \in [Path -> RunIds] /\ disturbed' \in 0..MaxDisturb
    BY <1>5, DispatchAssumption DEF TypeOK, DropCache, RunIds
  <2>2. TypeOK'
    BY <1>5, <2>1 DEF TypeOK, DropCache, queueVars, inputVars, workerVars, RunIds
  <2> QED BY <1>5, <2>2 DEF DropCache, WorkerOK, CliOK, workerVars
<1> QED BY <1>1, <1>2, <1>3, <1>4, <1>5

LEMMA StepTyped == TypeInv /\ [Next]_vars => TypeInv'
<1> SUFFICES ASSUME TypeInv, [Next]_vars PROVE TypeInv'
  OBVIOUS
<1>1. ASSUME NEW w \in Worker, WorkerStep(w) PROVE TypeInv'
  BY <1>1, DeliverTyped, LockedStepTyped, PublishEventTyped, RouteTyped, EndOfCallTyped
  DEF WorkerStep, LocalStep
<1>2. CASE PublishCached
  BY <1>2, OutsideTyped
<1>3. CASE Environment
  BY <1>3, PublishTyped, RetryExpiresTyped, EndOfCallTyped, OutsideTyped DEF Environment
<1>4. CASE UNCHANGED vars
  <2>1. TypeOK'
    BY <1>4 DEF vars, queueVars, inputVars, workerVars, cacheVars, bounds, TypeInv,
                TypeOK, RunIds
  <2> QED BY <1>4, <2>1 DEF vars, workerVars, TypeInv, WorkerOK, CliOK
<1> QED BY <1>1, <1>2, <1>3, <1>4 DEF Next

(***************************************************************************)
(* The state of the queues, workers, cache and command keeps its type, in  *)
(* particular no message exceeds its attempt or delivery limit             *)
(* (ReceiptMessage.next_attempt and x-delivery-limit).                     *)
(***************************************************************************)
THEOREM TypeCorrect == Spec => []TypeOK
<1>1. TypeInv => TypeOK
  BY DEF TypeInv
<1> QED BY InitTyped, StepTyped, <1>1, PTL DEF Spec

-----------------------------------------------------------------------------
(* No work is lost.  NoWorkLost is not inductive: the acknowledgement of a *)
(* complete publication drops the delivery, so the invariant must say that *)
(* what a publishing worker has counted is confirmed, and that the run it  *)
(* publishes read the contents its request names.                          *)

PublishingOK ==
  \A w \in Worker :
     /\ phase[w] # "publishing" => sent[w] = 0
     /\ phase[w] = "publishing" =>
          /\ runs[result[w]].source = SourceOf[job[w].request]
          /\ \A i \in Parts :
                i < sent[w] => EventOf(result[w], i, job[w].request) \in confirmed

CommandOK ==
  cli.request # NoRequest =>
     \A i \in Parts : i < cli.sent => EventOf(cli.run, i, cli.request) \in confirmed

(* The history is append-only: runs are added, events stay confirmed.      *)
HistoryGrows ==
  /\ Len(runs) <= Len(runs')
  /\ \A n \in 1..Len(runs) : runs'[n] = runs[n]
  /\ confirmed \subseteq confirmed'

LEMMA StepGrowsHistory == TypeInv /\ [Next]_vars => HistoryGrows
<1> SUFFICES ASSUME TypeInv, [Next]_vars PROVE HistoryGrows
  OBVIOUS
<1>1. runs \in Seq(RunRecord)
  BY DEF TypeInv, TypeOK
<1>2. ASSUME runs' = runs, confirmed' = confirmed PROVE HistoryGrows
  BY <1>1, <1>2 DEF HistoryGrows
<1>3. ASSUME NEW w \in Worker, ExecuteOcr(w) PROVE HistoryGrows
  <2>1. PathFor(job[w].request) \in Path
    BY <1>3, ContractAssumption DEF TypeInv, WorkerOK, ExecuteOcr, Copy, PathFor
  <2>2. /\ confirmed' = confirmed
        /\ \E m \in RunRecord : runs' = Append(runs, m)
    BY <1>3, <2>1, ContractAssumption
    DEF TypeInv, TypeOK, WorkerOK, ExecuteOcr, Copy, RunRecord
  <2> QED BY <1>1, <2>2 DEF HistoryGrows
<1>4. ASSUME NEW w \in Worker, PublishEvent(w) PROVE HistoryGrows
  BY <1>1, <1>4 DEF HistoryGrows, PublishEvent, cacheVars
<1>5. CASE PublishCached
  BY <1>1, <1>5 DEF HistoryGrows, PublishCached, cacheVars
<1>6. ASSUME NEW w \in Worker,
             \/ \E c \in DOMAIN work : Deliver(w, c)
             \/ Lock(w) \/ UseCache(w) \/ FailOcr(w) \/ Finish(w) \/ RejectEvent(w)
             \/ Route(w) \/ Ack(w) \/ Abandon(w) \/ Crash(w) \/ ConnectionLost(w)
      PROVE  HistoryGrows
  <2>1. runs' = runs /\ confirmed' = confirmed
    BY <1>6 DEF Deliver, Lock, UseCache, FailOcr, Finish, RejectEvent, Route, Ack,
                Abandon, Crash, ConnectionLost, cacheVars
  <2> QED BY <1>2, <2>1
<1>7. ASSUME \/ \E r \in Request : Publish(r) \/ StartCached(r)
             \/ \E c \in DOMAIN retry : RetryExpires(c)
             \/ EndCached
             \/ \E s \in Source : ReplaceSource(s)
             \/ \E p \in Path : DropCache(p)
             \/ UNCHANGED vars
      PROVE  HistoryGrows
  <2>1. runs' = runs /\ confirmed' = confirmed
    BY <1>7 DEF Publish, StartCached, RetryExpires, EndCached, ReplaceSource,
                DropCache, vars, cacheVars
  <2> QED BY <1>2, <2>1
<1> QED BY <1>3, <1>4, <1>5, <1>6, <1>7 DEF Next, WorkerStep, LocalStep, Environment

LEMMA DeliveredStays ==
  ASSUME TypeInv, HistoryGrows, NEW r \in Request, Delivered(r) PROVE Delivered(r)'
<1>1. Len(runs) \in Nat
  BY DEF TypeInv, TypeOK
<1>2. PICK n \in 1..Len(runs) :
        /\ runs[n].source = SourceOf[r]
        /\ \A i \in Parts : EventOf(n, i, r) \in confirmed
  BY DEF Delivered
<1>3. n \in 1..Len(runs') /\ runs'[n] = runs[n]
  BY <1>1, <1>2, TypeInv DEF HistoryGrows
<1>4. \A i \in Parts : EventOf(n, i, r)' \in confirmed'
  BY <1>2 DEF HistoryGrows, EventOf
<1> QED BY <1>2, <1>3, <1>4 DEF Delivered, EventOf

(* A worker whose locals, phase and message do not change keeps what it    *)
(* knows about its publication.                                            *)
KeepsPublishing(w) ==
  /\ phase'[w] = phase[w] /\ sent'[w] = sent[w] /\ result'[w] = result[w]
  /\ job'[w] = job[w]

LEMMA UntouchedPublishing ==
  ASSUME TypeInv, PublishingOK, HistoryGrows, NEW w \in Worker, KeepsPublishing(w)
  PROVE  /\ phase'[w] # "publishing" => sent'[w] = 0
         /\ phase'[w] = "publishing" =>
              /\ runs'[result'[w]].source = SourceOf[job'[w].request]
              /\ \A i \in Parts :
                   i < sent'[w] =>
                      EventOf(result'[w], i, job'[w].request) \in confirmed'
<1>1. phase[w] = "publishing" => result[w] \in 1..Len(runs)
  BY DEF TypeInv, TypeOK, WorkerOK, RunIds
<1>2. phase[w] = "publishing" => runs'[result[w]] = runs[result[w]]
  BY <1>1 DEF HistoryGrows
<1> QED BY <1>2 DEF PublishingOK, HistoryGrows, KeepsPublishing

LEMMA PublishingStep ==
  ASSUME TypeInv, PublishingOK, [Next]_vars PROVE PublishingOK'
<1>0. HistoryGrows
  BY StepGrowsHistory
<1>1. ASSUME \A v \in Worker : KeepsPublishing(v) PROVE PublishingOK'
  BY <1>0, <1>1, UntouchedPublishing DEF PublishingOK
<1>2. ASSUME NEW w \in Worker, WorkerStep(w) \/ Crash(w) \/ ConnectionLost(w)
      PROVE  PublishingOK'
  <2>1. \A v \in Worker \ {w} : KeepsPublishing(v)
    BY <1>2 DEF WorkerStep, LocalStep, Deliver, Lock, UseCache, ExecuteOcr, FailOcr,
                Finish, PublishEvent, RejectEvent, Route, Ack, Abandon, Crash,
                ConnectionLost, Release, EndCall, KeepsPublishing, TypeInv, TypeOK
  <2>2. /\ phase'[w] # "publishing" => sent'[w] = 0
        /\ phase'[w] = "publishing" =>
             /\ runs'[result'[w]].source = SourceOf[job'[w].request]
             /\ \A i \in Parts :
                  i < sent'[w] => EventOf(result'[w], i, job'[w].request) \in confirmed'
    <3>1. CASE PublishEvent(w)
      <4>1. /\ phase[w] = "publishing" /\ phase'[w] = "publishing"
            /\ result'[w] = result[w] /\ job'[w] = job[w] /\ runs' = runs
            /\ sent'[w] = sent[w] + 1 /\ sent[w] \in Nat
            /\ confirmed' = confirmed \cup {EventOf(result[w], sent[w], job[w].request)}
        BY <3>1 DEF PublishEvent, NextEvent, cacheVars, TypeInv, TypeOK
      <4>2. \A i \in Parts : i < sent'[w] => i < sent[w] \/ i = sent[w]
        BY <4>1 DEF Parts
      <4> QED BY <4>1, <4>2 DEF PublishingOK
    <3>2. CASE Finish(w)
      <4>1. CASE EndCall(w, "invalid") \/ EndCall(w, "failed")
        BY <4>1 DEF EndCall, TypeInv, TypeOK
      <4>2. CASE /\ ParsedIntact(w)
                 /\ phase' = [phase EXCEPT ![w] = "publishing"]
                 /\ UNCHANGED <<result, sent>>
        <5>1. /\ phase[w] = "parsed" /\ runs' = runs /\ job' = job
              /\ phase'[w] = "publishing"
          BY <3>2, <4>2 DEF Finish, TypeInv, TypeOK
        <5>2. sent'[w] = 0 /\ runs[result[w]].source = SourceOf[job[w].request]
          BY <4>2, <5>1 DEF ParsedIntact, PublishingOK
        <5> QED BY <4>2, <5>1, <5>2 DEF Parts
      <4> QED BY <3>2, <4>1, <4>2 DEF Finish
    <3>3. CASE KeepsPublishing(w)
      BY <1>0, <3>3, UntouchedPublishing
    <3>4. CASE /\ phase'[w] # "publishing"
               /\ sent'[w] = 0 \/ (sent' = sent /\ phase[w] # "publishing")
      BY <3>4 DEF PublishingOK
    <3>5. CASE \/ \E c \in DOMAIN work : Deliver(w, c)
               \/ Lock(w) \/ UseCache(w) \/ ExecuteOcr(w) \/ Route(w)
      BY <3>4, <3>5 DEF Deliver, Lock, UseCache, ExecuteOcr, Route, TypeInv, TypeOK
    <3>6. CASE FailOcr(w) \/ RejectEvent(w) \/ Ack(w) \/ Abandon(w) \/ Crash(w)
      BY <3>4, <3>6 DEF FailOcr, RejectEvent, Ack, Abandon, Crash, Release, EndCall,
                        TypeInv, TypeOK
    <3>7. CASE ConnectionLost(w)
      BY <3>3, <3>7 DEF ConnectionLost, KeepsPublishing
    <3> QED BY <1>2, <3>1, <3>2, <3>5, <3>6, <3>7 DEF WorkerStep, LocalStep
  <2>3. \A v \in Worker \ {w} :
             /\ phase'[v] # "publishing" => sent'[v] = 0
             /\ phase'[v] = "publishing" =>
                  /\ runs'[result'[v]].source = SourceOf[job'[v].request]
                  /\ \A i \in Parts :
                       i < sent'[v] =>
                          EventOf(result'[v], i, job'[v].request) \in confirmed'
    BY <1>0, <2>1, UntouchedPublishing
  <2> QED BY <2>2, <2>3 DEF PublishingOK
<1>3. ASSUME \/ PublishCached \/ EndCached
             \/ \E r \in Request : Publish(r) \/ StartCached(r)
             \/ \E c \in DOMAIN retry : RetryExpires(c)
             \/ \E s \in Source : ReplaceSource(s)
             \/ \E p \in Path : DropCache(p)
             \/ UNCHANGED vars
      PROVE  PublishingOK'
  <2>1. \A v \in Worker : KeepsPublishing(v)
    BY <1>3 DEF PublishCached, EndCached, Publish, StartCached, RetryExpires,
                ReplaceSource, DropCache, vars, workerVars, KeepsPublishing
  <2> QED BY <1>1, <2>1
<1> QED BY <1>2, <1>3 DEF Next, Environment

(* The command's state is its own.                                         *)
LEMMA CliChanges ==
  ASSUME [Next]_vars
  PROVE  \/ cli' = cli \/ PublishCached \/ EndCached
         \/ \E r \in Request : StartCached(r)
<1>1. ASSUME NEW w \in Worker, WorkerStep(w) \/ Crash(w) \/ ConnectionLost(w)
      PROVE  cli' = cli
  BY <1>1 DEF WorkerStep, LocalStep, Deliver, Lock, UseCache, ExecuteOcr, FailOcr,
              Finish, PublishEvent, RejectEvent, Route, Ack, Abandon, Crash,
              ConnectionLost
<1>2. ASSUME \/ \E r \in Request : Publish(r)
             \/ \E c \in DOMAIN retry : RetryExpires(c)
             \/ \E s \in Source : ReplaceSource(s)
             \/ \E p \in Path : DropCache(p)
             \/ UNCHANGED vars
      PROVE  cli' = cli
  BY <1>2 DEF Publish, RetryExpires, ReplaceSource, DropCache, vars
<1> QED BY <1>1, <1>2 DEF Next, Environment

LEMMA CommandStep ==
  ASSUME TypeInv, CommandOK, [Next]_vars PROVE CommandOK'
<1>0. HistoryGrows
  BY StepGrowsHistory
<1>1. CASE cli' = cli
  BY <1>0, <1>1 DEF CommandOK, HistoryGrows
<1>2. ASSUME NEW r \in Request, StartCached(r) PROVE CommandOK'
  BY <1>2 DEF StartCached, CommandOK, Parts
<1>3. CASE PublishCached
  <2>1. /\ cli'.request = cli.request /\ cli'.run = cli.run
        /\ cli'.sent = cli.sent + 1 /\ cli.sent \in Nat /\ cli.request # NoRequest
        /\ confirmed' = confirmed \cup {EventOf(cli.run, cli.sent, cli.request)}
    BY <1>3 DEF PublishCached, TypeInv, TypeOK
  <2>2. \A i \in Parts : i < cli'.sent => i < cli.sent \/ i = cli.sent
    BY <2>1 DEF Parts
  <2> QED BY <2>1, <2>2 DEF CommandOK
<1>4. CASE EndCached
  BY <1>4 DEF EndCached, NoCli, CommandOK
<1> QED BY <1>1, <1>2, <1>3, <1>4, CliChanges

(* Only a publishing worker or command confirms an event, its next one.    *)
LEMMA NewEventSource ==
  ASSUME [Next]_vars, NEW e \in confirmed' \ confirmed
  PROVE  \/ \E w \in Worker : PublishEvent(w) /\ e = NextEvent(w)
         \/ PublishCached /\ e = EventOf(cli.run, cli.sent, cli.request)
<1>1. \/ \E w \in Worker : PublishEvent(w)
      \/ PublishCached
      \/ confirmed' = confirmed
  BY DEF Next, Environment, WorkerStep, LocalStep, Deliver, Lock, UseCache,
         ExecuteOcr, FailOcr, Finish, RejectEvent, Route, Ack, Abandon, Crash,
         ConnectionLost, Publish, StartCached, RetryExpires, EndCached,
         ReplaceSource, DropCache, vars
<1> QED BY <1>1 DEF PublishEvent, PublishCached

(* The events a step may add, and what the invariant knows of each.        *)
LEMMA NewEvents ==
  ASSUME TypeInv, PublishingOK, CommandOK, [Next]_vars, NEW e \in confirmed' \ confirmed
  PROVE  \E n \in Nat \ {0}, i \in Parts, r \in Request :
            /\ e = EventOf(n, i, r)
            /\ \A j \in Parts : j < i => EventOf(n, j, r) \in confirmed
<1>1. ASSUME NEW w \in Worker, PublishEvent(w), e = NextEvent(w)
      PROVE  \E n \in Nat \ {0}, i \in Parts, r \in Request :
                /\ e = EventOf(n, i, r)
                /\ \A j \in Parts : j < i => EventOf(n, j, r) \in confirmed
  <2>1. job[w].request \in Request /\ result[w] \in Nat \ {0} /\ sent[w] \in Parts
    BY <1>1 DEF TypeInv, TypeOK, WorkerOK, PublishEvent, Copy, RunIds, Parts
  <2>2. \A j \in Parts : j < sent[w] =>
           EventOf(result[w], j, job[w].request) \in confirmed
    BY <1>1 DEF PublishEvent, PublishingOK
  <2> QED BY <1>1, <2>1, <2>2 DEF NextEvent
<1>2. ASSUME PublishCached, e = EventOf(cli.run, cli.sent, cli.request)
      PROVE  \E n \in Nat \ {0}, i \in Parts, r \in Request :
                /\ e = EventOf(n, i, r)
                /\ \A j \in Parts : j < i => EventOf(n, j, r) \in confirmed
  <2>1. cli.request \in Request /\ cli.run \in Nat \ {0} /\ cli.sent \in Parts
    BY <1>2 DEF TypeInv, TypeOK, CliOK, PublishCached, RunIds, Parts
  <2> QED BY <1>2, <2>1 DEF PublishCached, CommandOK
<1> QED BY <1>1, <1>2, NewEventSource

LEMMA PassesStep ==
  ASSUME TypeInv, PublishingOK, CommandOK, PassesAfterRun, [Next]_vars
  PROVE  PassesAfterRun'
<1> SUFFICES ASSUME NEW e \in confirmed', e.part > 0
             PROVE  \E r \in Request : EventOf(e.run, 0, r) \in confirmed'
  BY DEF PassesAfterRun, EventOf
<1>0. confirmed \subseteq confirmed'
  BY StepGrowsHistory DEF HistoryGrows
<1>1. CASE e \in confirmed
  BY <1>0, <1>1 DEF PassesAfterRun
<1>2. CASE e \notin confirmed
  <2>1. PICK n \in Nat \ {0}, i \in Parts, r \in Request :
           /\ e = EventOf(n, i, r)
           /\ \A j \in Parts : j < i => EventOf(n, j, r) \in confirmed
    BY <1>2, NewEvents
  <2>2. e.run = n /\ e.part = i
    BY <2>1 DEF EventOf
  <2>3. 0 \in Parts /\ 0 < i
    BY <2>2, ContractAssumption DEF Parts
  <2> QED BY <1>0, <2>1, <2>2, <2>3
<1> QED BY <1>1, <1>2

(***************************************************************************)
(* Every pass event the broker confirms is preceded by a run event of its  *)
(* run, for every number of passes and workers: result events are built    *)
(* run first and published in that order, also by a cached re-extraction   *)
(* and across retries (result_messages_for_receipt, publish_result).       *)
(***************************************************************************)
THEOREM RunEventFirst == Spec => []PassesAfterRun
<1> DEFINE Inv == TypeInv /\ PublishingOK /\ CommandOK /\ PassesAfterRun
<1>1. Init => Inv
  BY InitTyped DEF Init, PublishingOK, CommandOK, PassesAfterRun, NoCli
<1>2. Inv /\ [Next]_vars => Inv'
  BY StepTyped, PublishingStep, CommandStep, PassesStep
<1>3. Inv => PassesAfterRun
  OBVIOUS
<1> QED BY <1>1, <1>2, <1>3, PTL DEF Spec

-----------------------------------------------------------------------------
(* Where a request can be found, and what each step does to it.            *)

Kept(r) == Pending(r) \/ r \in dead \/ Delivered(r)

Waits(r) == \E c \in DOMAIN work \cup DOMAIN retry : c.request = r

Stays(r) == Kept(r) => Kept(r)'

(* Steps that leave the queues and every delivery alone.                   *)
LEMMA QuietStep ==
  ASSUME TypeInv, [Next]_vars, NEW r \in Request,
         UNCHANGED <<queueVars, job, attached>>,
         \A w \in Worker : attached[w] /\ phase'[w] = "settled" => phase[w] = "settled"
  PROVE  Stays(r)
<1>1. HistoryGrows
  BY StepGrowsHistory
<1>2. Pending(r) => Pending(r)'
  BY DEF Pending, Owned, queueVars
<1>3. Delivered(r) => Delivered(r)'
  BY <1>1, DeliveredStays
<1> QED BY <1>2, <1>3 DEF Stays, Kept, queueVars

(* Steps of one worker that leave its delivery, if it had one for r,       *)
(* somewhere else, and lose nothing from the queues but for that worker.   *)
LEMMA HandOver ==
  ASSUME TypeInv, [Next]_vars, NEW r \in Request, NEW w \in Worker,
         \A v \in Worker \ {w} :
            attached'[v] = attached[v] /\ phase'[v] = phase[v] /\ job'[v] = job[v],
         dead \subseteq dead',
         Waits(r) => Waits(r)' \/ Owned(w, r)',
         Owned(w, r) => Kept(r)'
  PROVE  Stays(r)
<1>1. HistoryGrows
  BY StepGrowsHistory
<1>2. Pending(r) => Kept(r)'
  <2>1. CASE Waits(r)
    BY <2>1 DEF Waits, Pending, Kept
  <2>2. ASSUME NEW v \in Worker \ {w}, Owned(v, r) PROVE Pending(r)'
    BY <2>2 DEF Pending, Owned
  <2> QED BY <2>1, <2>2 DEF Pending, Waits, Kept
<1>3. Delivered(r) => Delivered(r)'
  BY <1>1, DeliveredStays
<1> QED BY <1>2, <1>3 DEF Stays, Kept

LEMMA DeliverStays ==
  ASSUME TypeInv, [Next]_vars, NEW r \in Request,
         NEW w \in Worker, NEW c \in DOMAIN work, Deliver(w, c)
  PROVE  Stays(r)
<1>1. /\ phase[w] = "idle" /\ phase'[w] # "settled"
      /\ attached'[w] /\ job'[w] = c /\ ~attached[w]
  BY DEF Deliver, TypeInv, TypeOK, WorkerOK
<1>2. \A v \in Worker \ {w} :
         attached'[v] = attached[v] /\ phase'[v] = phase[v] /\ job'[v] = job[v]
  BY DEF Deliver, TypeInv, TypeOK
<1>3. DOMAIN work \subseteq DOMAIN work' \cup {c} /\ retry' = retry
  <2>1. IsQueue(work, Copy) /\ c \in Copy
    BY DEF TypeInv, TypeOK, IsQueue
  <2>2. work' = BagRemove(work, c) /\ retry' = retry
    BY DEF Deliver
  <2> QED BY <2>1, <2>2, RemoveFromQueue
<1>4. Waits(r) => Waits(r)' \/ Owned(w, r)'
  BY <1>1, <1>3 DEF Waits, Owned
<1>5. dead \subseteq dead' /\ (Owned(w, r) => Kept(r)')
  BY <1>1 DEF Deliver, Owned
<1> QED BY <1>2, <1>4, <1>5, HandOver

LEMMA RouteStays ==
  ASSUME TypeInv, [Next]_vars, NEW r \in Request, NEW w \in Worker, Route(w)
  PROVE  Stays(r)
<1>1. job[w] \in Copy
  BY DEF TypeInv, WorkerOK, Route
<1>2. \A v \in Worker \ {w} :
         attached'[v] = attached[v] /\ phase'[v] = phase[v] /\ job'[v] = job[v]
  BY DEF Route, TypeInv, TypeOK
<1>3. /\ work' = work /\ dead \subseteq dead'
      /\ DOMAIN retry \subseteq DOMAIN retry'
      /\ \/ job[w].request \in dead'
         \/ \E c \in DOMAIN retry' : c.request = job[w].request
  <2>1. CASE Retries(w)
    <3> DEFINE m == Message(job[w].request, job[w].attempt + 1)
    <3>1. m \in Copy /\ m.request = job[w].request
      BY <1>1, <2>1, ContractAssumption, DispatchAssumption DEF Retries, Message, Copy
    <3>2. retry' = BagAdd(retry, m) /\ dead' = dead /\ work' = work
      BY <2>1 DEF Route
    <3>3. IsQueue(retry, Copy)
      BY DEF TypeInv, TypeOK
    <3> HIDE DEF m
    <3>4. DOMAIN retry' = DOMAIN retry \cup {m}
      BY <3>1, <3>2, <3>3, AddToQueue
    <3> QED BY <3>1, <3>2, <3>4
  <2>2. CASE ~Retries(w)
    BY <2>2 DEF Route
  <2> QED BY <2>1, <2>2
<1>4. Waits(r) => Waits(r)'
  BY <1>3 DEF Waits
<1>5. Owned(w, r) => Kept(r)'
  BY <1>3 DEF Owned, Kept, Pending
<1> QED BY <1>2, <1>3, <1>4, <1>5, HandOver

(* An acknowledged publication is complete.                                *)
LEMMA AckStays ==
  ASSUME TypeInv, PublishingOK, [Next]_vars, NEW r \in Request, NEW w \in Worker,
         Ack(w) \/ Abandon(w)
  PROVE  Stays(r)
<1>1. \A v \in Worker \ {w} :
         attached'[v] = attached[v] /\ phase'[v] = phase[v] /\ job'[v] = job[v]
  BY DEF Ack, Abandon, Release, EndCall, TypeInv, TypeOK
<1>2. UNCHANGED <<work, retry, dead, runs, confirmed>>
  BY DEF Ack, Abandon, queueVars, cacheVars
<1>3. Owned(w, r) => Kept(r)'
  <2> SUFFICES ASSUME Owned(w, r) PROVE Delivered(r)'
    BY DEF Kept
  <2>1. phase[w] = "publishing" /\ sent[w] = NPasses + 1 /\ job[w].request = r
    BY DEF Owned, Ack, Abandon, Acknowledgeable
  <2>2. result[w] \in 1..Len(runs) /\ runs[result[w]].source = SourceOf[r]
    BY <2>1 DEF TypeInv, TypeOK, WorkerOK, RunIds, PublishingOK
  <2>3. \A i \in Parts : EventOf(result[w], i, r) \in confirmed
    BY <2>1, ContractAssumption DEF PublishingOK, Parts
  <2> QED BY <1>2, <2>2, <2>3 DEF Delivered, EventOf
<1>4. Waits(r) => Waits(r)'
  BY <1>2 DEF Waits
<1> QED BY <1>1, <1>2, <1>3, <1>4, HandOver

(* A crash or a lost connection returns the delivery or dead-letters it.   *)
LEMMA CrashStays ==
  ASSUME TypeInv, [Next]_vars, NEW r \in Request, NEW w \in Worker,
         Crash(w) \/ ConnectionLost(w)
  PROVE  Stays(r)
<1>1. \A v \in Worker \ {w} :
         attached'[v] = attached[v] /\ phase'[v] = phase[v] /\ job'[v] = job[v]
  BY DEF Crash, ConnectionLost, Release, EndCall, TypeInv, TypeOK
<1>2. job[w] \in Copy
  BY DEF Crash, ConnectionLost, TypeInv, WorkerOK
<1>3. /\ retry' = retry /\ DOMAIN work \subseteq DOMAIN work' /\ dead \subseteq dead'
      /\ attached[w] => \/ job[w].request \in dead'
                        \/ \E d \in DOMAIN work' : d.request = job[w].request
  <2>1. CASE attached[w]
    <3>1. Requeue(job[w])
      BY <2>1 DEF Crash, ConnectionLost
    <3> QED BY <1>2, <3>1, RequeueTyped DEF TypeInv
  <2>2. CASE ~attached[w]
    BY <2>2 DEF Crash, ConnectionLost, queueVars
  <2> QED BY <2>1, <2>2
<1>4. Waits(r) => Waits(r)'
  BY <1>3 DEF Waits
<1>5. Owned(w, r) => Kept(r)'
  BY <1>3 DEF Owned, Kept, Pending
<1> QED BY <1>1, <1>3, <1>4, <1>5, HandOver

LEMMA RetryExpiresStays ==
  ASSUME TypeInv, [Next]_vars, NEW r \in Request, NEW c \in DOMAIN retry,
         RetryExpires(c)
  PROVE  Stays(r)
<1>1. IsQueue(work, Copy) /\ IsQueue(retry, Copy) /\ c \in Copy
  BY DEF TypeInv, TypeOK, IsQueue
<1>2. work' = BagAdd(work, c) /\ retry' = BagRemove(retry, c)
  BY DEF RetryExpires
<1>3. DOMAIN work' = DOMAIN work \cup {c} /\ DOMAIN retry \subseteq DOMAIN retry' \cup {c}
  <2>1. DOMAIN work' = DOMAIN work \cup {c}
    BY <1>1, <1>2, AddToQueue
  <2>2. DOMAIN retry \subseteq DOMAIN retry' \cup {c}
    BY <1>1, <1>2, RemoveFromQueue
  <2> QED BY <2>1, <2>2
<1>4. Waits(r) => Waits(r)'
  BY <1>3 DEF Waits
<1>5. UNCHANGED <<dead, attached, phase, job>>
  BY DEF RetryExpires, workerVars
<1>6. Pending(r) => Pending(r)'
  BY <1>4, <1>5 DEF Pending, Waits, Owned
<1>7. Delivered(r) => Delivered(r)'
  BY StepGrowsHistory, DeliveredStays
<1> QED BY <1>5, <1>6, <1>7 DEF Stays, Kept

(* A publication of another request does not disturb r.                    *)
LEMMA PublishStays ==
  ASSUME TypeInv, [Next]_vars, NEW r \in Request, NEW q \in Request, Publish(q)
  PROVE  Stays(r) /\ Waits(q)'
<1> DEFINE m == Message(q, 1)
<1>1. m \in Copy /\ m.request = q
  BY ContractAssumption, DispatchAssumption DEF Message, Copy
<1>2. work' = BagAdd(work, m) /\ IsQueue(work, Copy)
  BY DEF Publish, TypeInv, TypeOK
<1> HIDE DEF m
<1>3. DOMAIN work' = DOMAIN work \cup {m}
  BY <1>1, <1>2, AddToQueue
<1>4. UNCHANGED <<retry, dead, attached, phase, job>>
  BY DEF Publish, workerVars
<1>5. Pending(r) => Pending(r)'
  BY <1>3, <1>4 DEF Pending, Owned
<1>6. Delivered(r) => Delivered(r)'
  BY StepGrowsHistory, DeliveredStays
<1> QED BY <1>1, <1>3, <1>4, <1>5, <1>6 DEF Stays, Kept, Waits

LEMMA WorkStep ==
  ASSUME TypeInv, PublishingOK, NoWorkLost, [Next]_vars PROVE NoWorkLost'
<1>1. ASSUME NEW q \in Request, Publish(q) PROVE NoWorkLost'
  <2> SUFFICES ASSUME NEW r \in Request, Queued(r), published'[r] > 0 PROVE Kept(r)'
    BY DEF NoWorkLost, Kept, Queued
  <2>1. CASE r = q
    BY <1>1, <2>1, PublishStays DEF Kept, Pending, Waits
  <2>2. CASE r # q
    BY <1>1, <2>2, PublishStays DEF Publish, TypeInv, TypeOK, NoWorkLost, Stays, Kept
  <2> QED BY <2>1, <2>2
<1>2. ASSUME \A r \in Request : Stays(r) /\ (Queued(r) => published'[r] = published[r])
      PROVE  NoWorkLost'
  BY <1>2 DEF NoWorkLost, Stays, Kept, Queued
<1>3. ASSUME NEW w \in Worker, WorkerStep(w) \/ Crash(w) \/ ConnectionLost(w)
      PROVE  NoWorkLost'
  <2>1. published' = published
    BY <1>3 DEF WorkerStep, LocalStep, Deliver, Lock, UseCache, ExecuteOcr, FailOcr,
                Finish, PublishEvent, RejectEvent, Route, Ack, Abandon, Crash,
                ConnectionLost, inputVars
  <2>2. ASSUME \/ Lock(w) \/ UseCache(w) \/ ExecuteOcr(w) \/ FailOcr(w) \/ Finish(w)
               \/ PublishEvent(w) \/ RejectEvent(w),
               NEW r \in Request
        PROVE  Stays(r)
    <3>1. UNCHANGED <<queueVars, job, attached>>
      BY <2>2 DEF Lock, UseCache, ExecuteOcr, FailOcr, Finish, PublishEvent, RejectEvent
    <3>2. \A v \in Worker :
             attached[v] /\ phase'[v] = "settled" => phase[v] = "settled"
      BY <2>2 DEF Lock, UseCache, ExecuteOcr, FailOcr, Finish, PublishEvent,
                  RejectEvent, EndCall, TypeInv, TypeOK
    <3> QED BY <3>1, <3>2, QuietStep
  <2> QED BY <1>2, <1>3, <2>1, <2>2, DeliverStays, RouteStays, AckStays, CrashStays
          DEF WorkerStep, LocalStep
<1>4. ASSUME NEW c \in DOMAIN retry, RetryExpires(c) PROVE NoWorkLost'
  <2>1. published' = published
    BY <1>4 DEF RetryExpires, inputVars
  <2> QED BY <1>2, <1>4, <2>1, RetryExpiresStays
<1>5. ASSUME \/ PublishCached \/ EndCached
             \/ \E q \in Request : StartCached(q)
             \/ \E s \in Source : ReplaceSource(s)
             \/ \E p \in Path : DropCache(p)
             \/ UNCHANGED vars
      PROVE  NoWorkLost'
  <2>1. UNCHANGED <<queueVars, job, attached, phase>>
    BY <1>5 DEF PublishCached, EndCached, StartCached, ReplaceSource, DropCache, vars,
                workerVars
  <2>2. \A r \in Request : Queued(r) => published'[r] = published[r]
    BY <1>5 DEF PublishCached, EndCached, StartCached, ReplaceSource, DropCache, vars,
                inputVars, Queued, TypeInv, TypeOK
  <2> QED BY <1>2, <2>1, <2>2, QuietStep
<1> QED BY <1>1, <1>3, <1>4, <1>5 DEF Next, Environment

(***************************************************************************)
(* No confirmed publication is lost, for every set of workers, requests    *)
(* and every attempt and delivery limit: until all events of a run of its  *)
(* source are confirmed, a message of the request is queued, waiting for   *)
(* its retry, held unacknowledged or dead-lettered                         *)
(* (handle_worker_delivery: confirm first, acknowledge after).             *)
(***************************************************************************)
THEOREM WorkIsNotLost == Spec => []NoWorkLost
<1> DEFINE Inv == TypeInv /\ PublishingOK /\ NoWorkLost
<1>1. Init => Inv
  BY InitTyped DEF Init, PublishingOK, NoWorkLost
<1>2. Inv /\ [Next]_vars => Inv'
  BY StepTyped, PublishingStep, WorkStep
<1>3. Inv => NoWorkLost
  OBVIOUS
<1> QED BY <1>1, <1>2, <1>3, PTL DEF Spec


-----------------------------------------------------------------------------
(* Fresh evidence.  The property speaks of the moment a request appeared,  *)
(* so the invariant must say that nothing works for a request before it    *)
(* was published, that every confirmed run read the contents its request   *)
(* names, and what an unfinished worker may find in the cache.             *)

AskedFirst ==
  /\ \A c \in DOMAIN work \cup DOMAIN retry : published[c.request] > 0
  /\ \A w \in Worker : phase[w] # "idle" => published[job[w].request] > 0
  /\ cli.request # NoRequest => published[cli.request] > 0
  /\ \A r \in Request : marker[r] # 0 => published[r] > 0
  /\ \A e \in confirmed : e.part = 0 => e.request \in Request /\ published[e.request] > 0

PublishedGrows == \A r \in Request : published[r] <= published'[r]

LEMMA StepPublishes == TypeInv /\ [Next]_vars => PublishedGrows
<1> SUFFICES ASSUME TypeInv, [Next]_vars PROVE PublishedGrows
  OBVIOUS
<1>0. published \in [Request -> Nat]
  BY DispatchAssumption DEF TypeInv, TypeOK
<1>1. ASSUME NEW r \in Request, Publish(r) \/ StartCached(r) PROVE PublishedGrows
  <2>1. published' = [published EXCEPT ![r] = @ + 1]
    BY <1>1 DEF Publish, StartCached
  <2> QED BY <1>0, <2>1 DEF PublishedGrows
<1>2. CASE published' = published
  BY <1>0, <1>2 DEF PublishedGrows
<1>3. ASSUME NEW w \in Worker, WorkerStep(w) \/ Crash(w) \/ ConnectionLost(w)
      PROVE  published' = published
  BY <1>3 DEF WorkerStep, LocalStep, Deliver, Lock, UseCache, ExecuteOcr, FailOcr,
              Finish, PublishEvent, RejectEvent, Route, Ack, Abandon, Crash,
              ConnectionLost, inputVars
<1>4. ASSUME \/ PublishCached \/ EndCached
             \/ \E c \in DOMAIN retry : RetryExpires(c)
             \/ \E s \in Source : ReplaceSource(s)
             \/ \E p \in Path : DropCache(p)
             \/ UNCHANGED vars
      PROVE  published' = published
  BY <1>4 DEF PublishCached, EndCached, RetryExpires, ReplaceSource, DropCache, vars,
              inputVars
<1> QED BY <1>1, <1>2, <1>3, <1>4 DEF Next, Environment

(* What may be new in the queues: a publication, or what a worker held.    *)
NewMessages ==
  \A c \in DOMAIN work' \cup DOMAIN retry' :
     \/ \E d \in DOMAIN work \cup DOMAIN retry : d.request = c.request
     \/ \E w \in Worker : phase[w] # "idle" /\ job[w].request = c.request
     \/ c.request \in Request /\ published'[c.request] > 0

LEMMA StepMessages == TypeInv /\ [Next]_vars => NewMessages
<1> SUFFICES ASSUME TypeInv, [Next]_vars PROVE NewMessages
  OBVIOUS
<1>0. IsQueue(work, Copy) /\ IsQueue(retry, Copy)
  BY DEF TypeInv, TypeOK
<1>1. ASSUME NEW r \in Request, Publish(r) PROVE NewMessages
  <2> DEFINE m == Message(r, 1)
  <2>1. m \in Copy /\ m.request = r
    BY ContractAssumption, DispatchAssumption DEF Message, Copy
  <2>2. work' = BagAdd(work, m) /\ retry' = retry /\ published'[r] > 0
    BY <1>1 DEF Publish, TypeInv, TypeOK
  <2> HIDE DEF m
  <2>3. DOMAIN work' = DOMAIN work \cup {m}
    BY <1>0, <2>1, <2>2, AddToQueue
  <2> QED BY <2>1, <2>2, <2>3 DEF NewMessages
<1>2. ASSUME NEW w \in Worker, NEW c \in DOMAIN work, Deliver(w, c) PROVE NewMessages
  <2>1. c \in Copy /\ work' = BagRemove(work, c) /\ retry' = retry
    BY <1>2 DEF Deliver, TypeInv, TypeOK, IsQueue
  <2>2. DOMAIN work' \subseteq DOMAIN work
    BY <1>0, <2>1, RemoveFromQueue
  <2> QED BY <2>1, <2>2 DEF NewMessages
<1>3. ASSUME NEW c \in DOMAIN retry, RetryExpires(c) PROVE NewMessages
  <2>1. c \in Copy /\ work' = BagAdd(work, c) /\ retry' = BagRemove(retry, c)
    BY <1>3 DEF RetryExpires, TypeInv, TypeOK, IsQueue
  <2>2. DOMAIN work' = DOMAIN work \cup {c}
    BY <1>0, <2>1, AddToQueue
  <2>3. DOMAIN retry' \subseteq DOMAIN retry
    BY <1>0, <2>1, RemoveFromQueue
  <2> QED BY <2>2, <2>3 DEF NewMessages
<1>4. ASSUME NEW w \in Worker, Route(w) PROVE NewMessages
  <2> DEFINE m == Message(job[w].request, job[w].attempt + 1)
  <2>1. phase[w] # "idle" /\ job[w] \in Copy /\ m.request = job[w].request
    BY <1>4 DEF Route, TypeInv, WorkerOK, Message
  <2>2. work' = work /\ (retry' = retry \/ (retry' = BagAdd(retry, m) /\ Retries(w)))
    BY <1>4 DEF Route
  <2>3. Retries(w) => m \in Copy
    BY <2>1, ContractAssumption, DispatchAssumption DEF Retries, Message, Copy
  <2> HIDE DEF m
  <2>4. DOMAIN retry' \subseteq DOMAIN retry \cup {m}
    <3>1. CASE Retries(w) /\ retry' = BagAdd(retry, m)
      BY <1>0, <2>3, <3>1, AddToQueue
    <3> QED BY <2>2, <3>1
  <2> QED BY <2>1, <2>2, <2>4 DEF NewMessages
<1>5. ASSUME NEW w \in Worker, Crash(w) \/ ConnectionLost(w) PROVE NewMessages
  <2>1. phase[w] # "idle" /\ job[w] \in Copy /\ (UNCHANGED queueVars \/ Requeue(job[w]))
    BY <1>5 DEF Crash, ConnectionLost, TypeInv, WorkerOK
  <2>2. CASE UNCHANGED queueVars
    BY <2>2 DEF queueVars, NewMessages
  <2>3. CASE Requeue(job[w])
    <3> DEFINE m == [job[w] EXCEPT !.delivered = @ + 1]
    <3>1. m.request = job[w].request
      BY <2>1 DEF Copy
    <3>2. retry' = retry
          /\ (work' = work \/ (work' = BagAdd(work, m) /\ job[w].delivered < DeliveryLimit))
      BY <2>3 DEF Requeue
    <3>3. job[w].delivered < DeliveryLimit => m \in Copy
      BY <2>1, DispatchAssumption DEF Copy
    <3> HIDE DEF m
    <3>4. DOMAIN work' \subseteq DOMAIN work \cup {m}
      <4>1. CASE job[w].delivered < DeliveryLimit /\ work' = BagAdd(work, m)
        BY <1>0, <3>3, <4>1, AddToQueue
      <4> QED BY <3>2, <4>1
    <3> QED BY <2>1, <3>1, <3>2, <3>4 DEF NewMessages
  <2> QED BY <2>1, <2>2, <2>3
<1>6. CASE work' = work /\ retry' = retry
  BY <1>6 DEF NewMessages
<1>7. ASSUME NEW w \in Worker,
             \/ Lock(w) \/ UseCache(w) \/ ExecuteOcr(w) \/ FailOcr(w) \/ Finish(w)
             \/ PublishEvent(w) \/ RejectEvent(w) \/ Ack(w) \/ Abandon(w)
      PROVE  work' = work /\ retry' = retry
  BY <1>7 DEF Lock, UseCache, ExecuteOcr, FailOcr, Finish, PublishEvent, RejectEvent,
              Ack, Abandon, queueVars
<1>8. ASSUME \/ PublishCached \/ EndCached
             \/ \E r \in Request : StartCached(r)
             \/ \E s \in Source : ReplaceSource(s)
             \/ \E p \in Path : DropCache(p)
             \/ UNCHANGED vars
      PROVE  work' = work /\ retry' = retry
  BY <1>8 DEF PublishCached, EndCached, StartCached, ReplaceSource, DropCache, vars,
              queueVars
<1> QED BY <1>1, <1>2, <1>3, <1>4, <1>5, <1>6, <1>7, <1>8
        DEF Next, Environment, WorkerStep, LocalStep

(* Only a finished extraction writes a marker.                             *)
LEMMA StepMarks ==
  ASSUME [Next]_vars PROVE marker' = marker \/ \E w \in Worker : Finish(w)
<1>1. ASSUME NEW w \in Worker,
             \/ \E c \in DOMAIN work : Deliver(w, c)
             \/ Lock(w) \/ UseCache(w) \/ ExecuteOcr(w) \/ FailOcr(w)
             \/ PublishEvent(w) \/ RejectEvent(w) \/ Route(w) \/ Ack(w)
             \/ Abandon(w) \/ Crash(w) \/ ConnectionLost(w)
      PROVE  marker' = marker
  BY <1>1 DEF Deliver, Lock, UseCache, ExecuteOcr, FailOcr, PublishEvent,
              RejectEvent, Route, Ack, Abandon, Crash, ConnectionLost, cacheVars
<1>2. ASSUME \/ PublishCached \/ EndCached
             \/ \E q \in Request : Publish(q) \/ StartCached(q)
             \/ \E c \in DOMAIN retry : RetryExpires(c)
             \/ \E s \in Source : ReplaceSource(s)
             \/ \E p \in Path : DropCache(p)
             \/ UNCHANGED vars
      PROVE  marker' = marker
  BY <1>2 DEF PublishCached, EndCached, Publish, StartCached, RetryExpires,
              ReplaceSource, DropCache, vars, cacheVars
<1> QED BY <1>1, <1>2 DEF Next, Environment, WorkerStep, LocalStep

LEMMA AskedStep ==
  ASSUME TypeInv, PublishingOK, CommandOK, AskedFirst, [Next]_vars PROVE AskedFirst'
<1>0. /\ PublishedGrows /\ NewMessages
      /\ published \in [Request -> Nat] /\ published' \in [Request -> Nat]
  <2>1. PublishedGrows /\ NewMessages /\ TypeInv'
    BY StepPublishes, StepMessages, StepTyped
  <2> QED BY <2>1, DispatchAssumption DEF TypeInv, TypeOK
<1>1. \A w \in Worker : phase[w] # "idle" => job[w].request \in Request
  BY DEF TypeInv, WorkerOK, Copy
<1>2. \A c \in DOMAIN work \cup DOMAIN retry : c.request \in Request
  BY DEF TypeInv, TypeOK, IsQueue, Copy
<1>3. \A r \in Request : published[r] > 0 => published'[r] > 0
  BY <1>0 DEF PublishedGrows
<1>4. \A c \in DOMAIN work' \cup DOMAIN retry' : published'[c.request] > 0
  BY <1>0, <1>1, <1>2, <1>3 DEF AskedFirst, NewMessages
<1>5. ASSUME NEW w \in Worker, phase'[w] # "idle"
      PROVE  published'[job'[w].request] > 0
  <2>1. CASE phase[w] # "idle" /\ job'[w] = job[w]
    BY <1>1, <1>3, <2>1 DEF AskedFirst
  <2>2. CASE \E c \in DOMAIN work : job'[w] = c
    BY <1>2, <1>3, <2>2 DEF AskedFirst
  <2>3. \/ phase[w] # "idle" /\ job'[w] = job[w]
        \/ \E c \in DOMAIN work : job'[w] = c
    <3>1. ASSUME NEW v \in Worker, NEW c \in DOMAIN work, Deliver(v, c)
          PROVE  (phase[w] # "idle" /\ job'[w] = job[w]) \/ job'[w] = c
      BY <1>5, <3>1 DEF Deliver, TypeInv, TypeOK
    <3>2. ASSUME NEW v \in Worker,
                 \/ Lock(v) \/ UseCache(v) \/ ExecuteOcr(v) \/ FailOcr(v) \/ Finish(v)
                 \/ PublishEvent(v) \/ RejectEvent(v) \/ Route(v) \/ ConnectionLost(v)
          PROVE  phase[w] # "idle" /\ job'[w] = job[w]
      BY <1>5, <3>2 DEF Lock, UseCache, ExecuteOcr, FailOcr, Finish, PublishEvent,
                        RejectEvent, Route, ConnectionLost, EndCall, TypeInv, TypeOK
    <3>3. ASSUME NEW v \in Worker, Ack(v) \/ Abandon(v) \/ Crash(v)
          PROVE  phase[w] # "idle" /\ job'[w] = job[w]
      BY <1>5, <3>3 DEF Ack, Abandon, Crash, Release, EndCall, TypeInv, TypeOK
    <3>4. ASSUME \/ PublishCached \/ EndCached
                 \/ \E r \in Request : Publish(r) \/ StartCached(r)
                 \/ \E c \in DOMAIN retry : RetryExpires(c)
                 \/ \E s \in Source : ReplaceSource(s)
                 \/ \E p \in Path : DropCache(p)
                 \/ UNCHANGED vars
          PROVE  phase[w] # "idle" /\ job'[w] = job[w]
      BY <1>5, <3>4 DEF PublishCached, EndCached, Publish, StartCached, RetryExpires,
                        ReplaceSource, DropCache, vars, workerVars
    <3> QED BY <3>1, <3>2, <3>3, <3>4 DEF Next, Environment, WorkerStep, LocalStep
  <2> QED BY <2>1, <2>2, <2>3
<1>6. cli'.request # NoRequest => published'[cli'.request] > 0
  <2>1. CASE cli'.request = cli.request
    <3>1. cli.request # NoRequest => cli.request \in Request
      BY DEF TypeInv, TypeOK
    <3> QED BY <1>3, <2>1, <3>1 DEF AskedFirst
  <2>2. ASSUME NEW r \in Request, StartCached(r) PROVE published'[cli'.request] > 0
    BY <1>0, <2>2 DEF StartCached
  <2>3. CASE PublishCached \/ EndCached
    BY <2>1, <2>3 DEF PublishCached, EndCached, NoCli, TypeInv, TypeOK
  <2> QED BY <2>1, <2>2, <2>3, CliChanges
<1>7. ASSUME NEW r \in Request, marker'[r] # 0 PROVE published'[r] > 0
  <2>1. CASE marker'[r] = marker[r]
    BY <1>3, <1>7, <2>1 DEF AskedFirst
  <2>2. ASSUME NEW w \in Worker, Finish(w) PROVE published'[r] > 0
    <3>1. CASE r = job[w].request
      BY <1>3, <2>2, <3>1 DEF Finish, AskedFirst
    <3>2. CASE r # job[w].request
      BY <2>1, <2>2, <3>2 DEF Finish, TypeInv, TypeOK
    <3> QED BY <3>1, <3>2
  <2> QED BY <2>1, <2>2, StepMarks
<1>8. ASSUME NEW e \in confirmed', e.part = 0
      PROVE  e.request \in Request /\ published'[e.request] > 0
  <2>1. CASE e \in confirmed
    BY <1>3, <1>8, <2>1 DEF AskedFirst
  <2>2. ASSUME NEW w \in Worker, PublishEvent(w), e = NextEvent(w)
        PROVE  e.request \in Request /\ published'[e.request] > 0
    <3>1. phase[w] # "idle" /\ e.request = job[w].request
      BY <1>8, <2>2 DEF PublishEvent, NextEvent, EventOf
    <3> QED BY <1>1, <1>3, <3>1 DEF AskedFirst
  <2>3. ASSUME PublishCached, e = EventOf(cli.run, cli.sent, cli.request)
        PROVE  e.request \in Request /\ published'[e.request] > 0
    <3>1. cli.request \in Request /\ e.request = cli.request
      BY <1>8, <2>3 DEF PublishCached, EventOf, TypeInv, TypeOK
    <3> QED BY <1>3, <2>3, <3>1 DEF AskedFirst, PublishCached
  <2> QED BY <2>1, <2>2, <2>3, NewEventSource
<1> QED BY <1>4, <1>5, <1>6, <1>7, <1>8 DEF AskedFirst

(* Every confirmed run event names a run that read its request's contents. *)
EvidenceRead ==
  /\ \A e \in confirmed :
        e.part = 0 => e.run \in 1..Len(runs) /\ runs[e.run].source = SourceOf[e.request]
  /\ cli.request # NoRequest =>
        /\ Kind[cli.request] = "cached"
        /\ cli.run \in 1..Len(runs) /\ runs[cli.run].source = SourceOf[cli.request]

LEMMA EvidenceStep ==
  ASSUME TypeInv, PublishingOK, EvidenceRead, [Next]_vars PROVE EvidenceRead'
<1>0. /\ HistoryGrows /\ Len(runs) \in Nat /\ Len(runs') \in Nat
  <2>1. HistoryGrows /\ TypeInv'
    BY StepGrowsHistory, StepTyped
  <2>2. TypeOK /\ TypeOK'
    BY <2>1 DEF TypeInv
  <2>3. runs \in Seq(RunRecord) /\ runs' \in Seq(RunRecord')
    BY ONLY <2>2 DEF TypeOK
  <2>4. Len(runs) \in Nat /\ Len(runs') \in Nat
    BY ONLY <2>3
  <2> QED BY <2>1, <2>4
<1>1. \A n \in 1..Len(runs) : n \in 1..Len(runs') /\ runs'[n] = runs[n]
  BY <1>0 DEF HistoryGrows
<1>2. ASSUME NEW e \in confirmed', e.part = 0
      PROVE  e.run \in 1..Len(runs') /\ runs'[e.run].source = SourceOf[e.request]
  <2>1. CASE e \in confirmed
    BY <1>1, <1>2, <2>1 DEF EvidenceRead
  <2>2. ASSUME NEW w \in Worker, PublishEvent(w), e = NextEvent(w)
        PROVE  e.run \in 1..Len(runs) /\ runs[e.run].source = SourceOf[e.request]
    <3>1. phase[w] = "publishing" /\ e.run = result[w] /\ e.request = job[w].request
      BY <1>2, <2>2 DEF PublishEvent, NextEvent, EventOf
    <3>2. result[w] \in 1..Len(runs)
      BY <1>0, <3>1 DEF TypeInv, TypeOK, WorkerOK, RunIds
    <3> QED BY <3>1, <3>2 DEF PublishingOK
  <2>3. ASSUME PublishCached, e = EventOf(cli.run, cli.sent, cli.request)
        PROVE  e.run \in 1..Len(runs) /\ runs[e.run].source = SourceOf[e.request]
    BY <1>2, <2>3 DEF PublishCached, EventOf, EvidenceRead
  <2> QED BY <1>1, <2>1, <2>2, <2>3, NewEventSource
<1>3. ASSUME cli'.request # NoRequest
      PROVE  /\ Kind[cli'.request] = "cached"
             /\ cli'.run \in 1..Len(runs') /\ runs'[cli'.run].source = SourceOf[cli'.request]
  <2>1. CASE cli'.request = cli.request /\ cli'.run = cli.run
    BY <1>1, <1>3, <2>1 DEF EvidenceRead
  <2>2. ASSUME NEW r \in Request, StartCached(r)
        PROVE  /\ Kind[cli'.request] = "cached"
               /\ cli'.run \in 1..Len(runs)
               /\ runs[cli'.run].source = SourceOf[cli'.request]
    <3>1. /\ Kind[r] = "cached" /\ cli'.request = r /\ cli'.run = cache[PathFor(r)]
          /\ cache[PathFor(r)] # 0
          /\ runs[cache[PathFor(r)]].source = SourceOf[r]
      BY <2>2 DEF StartCached, CacheHit, SourceIntact
    <3>2. PathFor(r) \in Path
      BY ContractAssumption DEF PathFor
    <3>3. cache[PathFor(r)] \in 1..Len(runs)
      BY <1>0, <3>1, <3>2 DEF TypeInv, TypeOK, RunIds
    <3> QED BY <3>1, <3>3
  <2>3. CASE PublishCached
    <3>1. cli'.request = cli.request /\ cli'.run = cli.run
      BY <2>3 DEF PublishCached, TypeInv, TypeOK
    <3> QED BY <2>1, <3>1
  <2>4. CASE EndCached
    BY <1>3, <2>4 DEF EndCached, NoCli
  <2>5. CASE cli' = cli
    BY <2>1, <2>5
  <2> QED BY <1>1, <2>2, <2>3, <2>4, <2>5, CliChanges
<1> QED BY <1>2, <1>3 DEF EvidenceRead

-----------------------------------------------------------------------------
(* What a fresh request's worker, marker and cache hold is newer than the  *)
(* request, unless the artifact is gone.  A worker that trusts its marker  *)
(* finds the marked run in the cache or a later one: the artifact is only  *)
(* ever replaced by a run executed then.                                   *)

FreshWorker(w) ==
  LET r == job[w].request
      held == cache[PathFor(r)]
  IN  phase[w] # "idle" /\ Fresh(r) =>
        /\ phase[w] \in {"parsed", "publishing"} => result[w] > born[r]
        /\ phase[w] = "parsed" \/ (phase[w] = "locked" /\ reused[w]) =>
              held = 0 \/ held > born[r]

FreshWork ==
  /\ \A r \in Request : born[r] <= Len(runs)
  /\ \A r \in Request : Fresh(r) => marker[r] = 0 \/ marker[r] > born[r]
  /\ \A w \in Worker : FreshWorker(w)

(* The request of an unpublished event never had its birth recorded twice. *)
BirthStep ==
  /\ Len(runs) <= Len(runs')
  /\ \A r \in Request : born'[r] <= Len(runs') /\ (published[r] > 0 => born'[r] = born[r])

CacheStep ==
  \A p \in Path :
     cache'[p] = cache[p] \/ cache'[p] = 0 \/ cache'[p] > Len(runs)

LEMMA StepBirths ==
  ASSUME TypeInv, FreshWork, [Next]_vars PROVE BirthStep
<1>0. /\ Len(runs) \in Nat /\ Len(runs') \in Nat /\ Len(runs) <= Len(runs')
      /\ born \in [Request -> Nat]
  <2>1. HistoryGrows /\ TypeInv'
    BY StepGrowsHistory, StepTyped
  <2>2. TypeOK /\ TypeOK'
    BY <2>1 DEF TypeInv
  <2>3. runs \in Seq(RunRecord) /\ runs' \in Seq(RunRecord')
    BY ONLY <2>2 DEF TypeOK
  <2>4. Len(runs) \in Nat /\ Len(runs') \in Nat
    BY ONLY <2>3
  <2>5. born \in [Request -> Nat]
    BY ONLY <2>2 DEF TypeOK
  <2> QED BY <2>1, <2>4, <2>5 DEF HistoryGrows
<1>1. CASE born' = born
  BY <1>0, <1>1 DEF FreshWork, BirthStep
<1>2. ASSUME NEW q \in Request, Publish(q) PROVE BirthStep
  BY <1>0, <1>2 DEF Publish, FreshWork, BirthStep
<1>3. ASSUME NEW w \in Worker, WorkerStep(w) \/ Crash(w) \/ ConnectionLost(w)
      PROVE  born' = born
  BY <1>3 DEF WorkerStep, LocalStep, Deliver, Lock, UseCache, ExecuteOcr, FailOcr,
              Finish, PublishEvent, RejectEvent, Route, Ack, Abandon, Crash,
              ConnectionLost, inputVars
<1>4. ASSUME \/ PublishCached \/ EndCached
             \/ \E r \in Request : StartCached(r)
             \/ \E c \in DOMAIN retry : RetryExpires(c)
             \/ \E s \in Source : ReplaceSource(s)
             \/ \E p \in Path : DropCache(p)
             \/ UNCHANGED vars
      PROVE  born' = born
  BY <1>4 DEF PublishCached, EndCached, StartCached, RetryExpires, ReplaceSource,
              DropCache, vars, inputVars
<1> QED BY <1>1, <1>2, <1>3, <1>4 DEF Next, Environment

LEMMA StepCaches ==
  ASSUME TypeInv, [Next]_vars PROVE CacheStep
<1>0. Len(runs) \in Nat
  BY DEF TypeInv, TypeOK
<1>1. CASE cache' = cache
  BY <1>1 DEF CacheStep
<1>2. ASSUME NEW w \in Worker, ExecuteOcr(w) PROVE CacheStep
  BY <1>0, <1>2 DEF ExecuteOcr, CacheStep, TypeInv, TypeOK
<1>3. ASSUME NEW p \in Path, DropCache(p) PROVE CacheStep
  BY <1>3 DEF DropCache, CacheStep, TypeInv, TypeOK
<1>4. ASSUME NEW w \in Worker,
             \/ \E c \in DOMAIN work : Deliver(w, c)
             \/ Lock(w) \/ UseCache(w) \/ FailOcr(w) \/ Finish(w)
             \/ PublishEvent(w) \/ RejectEvent(w) \/ Route(w) \/ Ack(w)
             \/ Abandon(w) \/ Crash(w) \/ ConnectionLost(w)
      PROVE  cache' = cache
  BY <1>4 DEF Deliver, Lock, UseCache, FailOcr, Finish, PublishEvent, RejectEvent,
              Route, Ack, Abandon, Crash, ConnectionLost, cacheVars
<1>5. ASSUME \/ PublishCached \/ EndCached
             \/ \E r \in Request : Publish(r) \/ StartCached(r)
             \/ \E c \in DOMAIN retry : RetryExpires(c)
             \/ \E s \in Source : ReplaceSource(s)
             \/ UNCHANGED vars
      PROVE  cache' = cache
  BY <1>5 DEF PublishCached, EndCached, Publish, StartCached, RetryExpires,
              ReplaceSource, vars, cacheVars
<1> QED BY <1>1, <1>2, <1>3, <1>4, <1>5 DEF Next, Environment, WorkerStep, LocalStep

(* What one worker may hold after a step, given what it held before.       *)
LEMMA FreshWorkerStep ==
  ASSUME TypeInv, AskedFirst, FreshWork, BirthStep, CacheStep, [Next]_vars,
         NEW w \in Worker
  PROVE  FreshWorker(w)'
<1> DEFINE r == job[w].request
           p == PathFor(r)
           OK == /\ phase'[w] \in {"parsed", "publishing"} =>
                       result'[w] > born'[job'[w].request]
                 /\ phase'[w] = "parsed" \/ (phase'[w] = "locked" /\ reused'[w]) =>
                       cache'[PathFor(job'[w].request)] = 0
                       \/ cache'[PathFor(job'[w].request)] > born'[job'[w].request]
<1> SUFFICES ASSUME phase'[w] # "idle", Fresh(job'[w].request) PROVE OK
  BY DEF FreshWorker, PathFor, Fresh
<1>0. /\ Len(runs) \in Nat /\ Len(runs') \in Nat /\ born \in [Request -> Nat]
      /\ born' \in [Request -> Nat]
      /\ cache \in [Path -> Nat] /\ cache' \in [Path -> Nat]
      /\ result \in [Worker -> Nat] /\ marker \in [Request -> Nat]
  <2>1. TypeInv'
    BY StepTyped
  <2>2. /\ Len(runs) \in Nat /\ born \in [Request -> Nat] /\ cache \in [Path -> RunIds]
        /\ result \in [Worker -> RunIds] /\ marker \in [Request -> RunIds]
        /\ RunIds \subseteq Nat
    BY DEF TypeInv, TypeOK, RunIds
  <2>0. TypeOK'
    BY <2>1 DEF TypeInv
  <2>3. Len(runs') \in Nat /\ born' \in [Request -> Nat]
    <3>1. runs' \in Seq(RunRecord')
      BY ONLY <2>0 DEF TypeOK
    <3>2. born' \in [Request -> Nat]
      BY ONLY <2>0 DEF TypeOK
    <3> QED BY ONLY <3>1, <3>2
  <2>4. cache' \in [Path -> Nat]
    <3>1. cache' \in [Path -> RunIds']
      BY ONLY <2>0 DEF TypeOK
    <3>2. RunIds' \subseteq Nat
      BY <2>3 DEF RunIds
    <3> QED BY <3>1, <3>2
  <2> QED BY <2>2, <2>3, <2>4
<1>1. phase[w] # "idle" => /\ r \in Request /\ p \in Path /\ born'[r] = born[r]
                           /\ born[r] <= Len(runs)
  BY ContractAssumption DEF TypeInv, WorkerOK, Copy, PathFor, AskedFirst, BirthStep,
     FreshWork
<1>2. CASE phase'[w] \notin {"locked", "parsed", "publishing"}
  BY <1>2
<1>3. CASE /\ phase'[w] = phase[w] /\ job'[w] = job[w] /\ reused'[w] = reused[w]
           /\ result'[w] = result[w]
  <2>1. phase[w] # "idle" /\ Fresh(r)
    BY <1>3
  <2>2. /\ phase[w] \in {"parsed", "publishing"} => result[w] > born[r]
        /\ phase[w] = "parsed" \/ (phase[w] = "locked" /\ reused[w]) =>
              cache[p] = 0 \/ cache[p] > born[r]
    BY <2>1 DEF FreshWork, FreshWorker
  <2>3. cache'[p] = cache[p] \/ cache'[p] = 0 \/ cache'[p] > born[r]
    BY <1>0, <1>1, <2>1 DEF CacheStep
  <2> QED BY <1>1, <1>3, <2>1, <2>2, <2>3
<1>4. CASE Lock(w)
  <2>1. /\ phase'[w] = "locked" /\ job' = job /\ cache' = cache /\ phase[w] = "waiting"
        /\ reused'[w] => marker[r] # 0 /\ marker[r] = cache[p]
    BY <1>4 DEF Lock, CompletedRebuild, cacheVars, TypeInv, TypeOK
  <2>2. marker[r] # 0 => marker[r] > born[r]
    BY <1>1, <2>1 DEF FreshWork, FreshWorker
  <2> QED BY <1>1, <2>1, <2>2
<1>5. CASE UseCache(w)
  <2>1. /\ phase'[w] = "parsed" /\ job' = job /\ cache' = cache /\ phase[w] = "locked"
        /\ reused[w] /\ result'[w] = cache[p] /\ cache[p] # 0 /\ Fresh(r)
    BY <1>5 DEF UseCache, MustRefresh, CacheHit, cacheVars, TypeInv, TypeOK
  <2>2. cache[p] > born[r]
    BY <2>1 DEF FreshWork, FreshWorker
  <2> QED BY <1>1, <2>1, <2>2
<1>6. CASE ExecuteOcr(w)
  <2>1. /\ phase'[w] = "parsed" /\ job' = job /\ phase[w] = "locked"
        /\ cache' = [cache EXCEPT ![p] = Len(runs) + 1]
        /\ result'[w] = Len(runs) + 1
    BY <1>6 DEF ExecuteOcr, TypeInv, TypeOK
  <2>2. cache'[p] = Len(runs) + 1
    BY <1>1, <2>1 DEF TypeInv, TypeOK
  <2> QED BY <1>0, <1>1, <2>1, <2>2
<1>7. CASE Finish(w)
  <2>1. CASE EndCall(w, "invalid") \/ EndCall(w, "failed")
    BY <1>2, <2>1 DEF EndCall, TypeInv, TypeOK
  <2>2. CASE /\ phase' = [phase EXCEPT ![w] = "publishing"]
             /\ UNCHANGED <<result, sent>>
    <3>1. /\ phase'[w] = "publishing" /\ phase[w] = "parsed" /\ result'[w] = result[w]
          /\ job' = job
      BY <1>7, <2>2 DEF Finish, TypeInv, TypeOK
    <3>2. result[w] > born[r]
      BY <3>1 DEF FreshWork, FreshWorker
    <3> QED BY <1>1, <3>1, <3>2
  <2> QED BY <1>7, <2>1, <2>2 DEF Finish
<1>8. ASSUME NEW v \in Worker, v # w, WorkerStep(v) \/ Crash(v) \/ ConnectionLost(v)
      PROVE  /\ phase'[w] = phase[w] /\ job'[w] = job[w] /\ reused'[w] = reused[w]
             /\ result'[w] = result[w]
  BY <1>8 DEF WorkerStep, LocalStep, Deliver, Lock, UseCache, ExecuteOcr, FailOcr,
              Finish, PublishEvent, RejectEvent, Route, Ack, Abandon, Crash,
              ConnectionLost, Release, EndCall, TypeInv, TypeOK
<1>9. ASSUME \/ \E c \in DOMAIN work : Deliver(w, c)
             \/ FailOcr(w) \/ RejectEvent(w) \/ Route(w) \/ Ack(w)
             \/ Abandon(w) \/ Crash(w)
      PROVE  phase'[w] \notin {"locked", "parsed", "publishing"}
  BY <1>9 DEF Deliver, FailOcr, RejectEvent, Route, Ack, Abandon, Crash, Release,
              EndCall, TypeInv, TypeOK
<1>10. ASSUME \/ PublishEvent(w) \/ ConnectionLost(w)
              \/ PublishCached \/ EndCached
              \/ \E q \in Request : Publish(q) \/ StartCached(q)
              \/ \E c \in DOMAIN retry : RetryExpires(c)
              \/ \E s \in Source : ReplaceSource(s)
              \/ \E d \in Path : DropCache(d)
              \/ UNCHANGED vars
      PROVE  /\ phase'[w] = phase[w] /\ job'[w] = job[w] /\ reused'[w] = reused[w]
             /\ result'[w] = result[w]
  BY <1>10 DEF PublishEvent, ConnectionLost, PublishCached, EndCached, Publish,
               StartCached, RetryExpires, ReplaceSource, DropCache, vars, workerVars
<1>11. ASSUME NEW v \in Worker, WorkerStep(v) \/ Crash(v) \/ ConnectionLost(v)
       PROVE  OK
  <2>1. CASE v # w
    BY <1>3, <1>8, <1>11, <2>1
  <2>2. CASE v = w
    BY <1>2, <1>3, <1>4, <1>5, <1>6, <1>7, <1>9, <1>10, <1>11, <2>2
    DEF WorkerStep, LocalStep
  <2> QED BY <2>1, <2>2
<1>12. OK
  BY <1>3, <1>10, <1>11 DEF Next, Environment
<1> QED BY <1>12

(* A worker that leaves a marker marks the run its own OCR or a later one  *)
(* put into the cache.                                                     *)
LEMMA MarkerStep ==
  ASSUME TypeInv, AskedFirst, FreshWork, BirthStep, [Next]_vars,
         NEW r \in Request, Fresh(r)
  PROVE  marker'[r] = 0 \/ marker'[r] > born'[r]
<1>1. CASE marker'[r] = marker[r]
  BY <1>1 DEF FreshWork, AskedFirst, BirthStep
<1>2. ASSUME NEW w \in Worker, Finish(w) PROVE marker'[r] = 0 \/ marker'[r] > born'[r]
  <2>1. CASE marker' = [marker EXCEPT ![job[w].request] = cache[PathFor(job[w].request)]]
    <3>1. CASE r = job[w].request
      <4>1. phase[w] = "parsed" /\ marker'[r] = cache[PathFor(r)] /\ born'[r] = born[r]
        BY <1>2, <2>1, <3>1 DEF Finish, TypeInv, TypeOK, AskedFirst, BirthStep
      <4>2. cache[PathFor(r)] = 0 \/ cache[PathFor(r)] > born[r]
        BY <3>1, <4>1 DEF FreshWork, FreshWorker
      <4> QED BY <4>1, <4>2
    <3>2. CASE r # job[w].request
      BY <1>1, <2>1, <3>2 DEF TypeInv, TypeOK
    <3> QED BY <3>1, <3>2
  <2>2. CASE marker' = marker
    BY <1>1, <2>2
  <2> QED BY <1>2, <2>1, <2>2 DEF Finish
<1>3. marker' = marker \/ \E w \in Worker : Finish(w)
  BY StepMarks
<1> QED BY <1>1, <1>2, <1>3

LEMMA FreshWorkStep ==
  ASSUME TypeInv, AskedFirst, FreshWork, [Next]_vars PROVE FreshWork'
<1>1. BirthStep /\ CacheStep
  BY StepBirths, StepCaches
<1>2. \A w \in Worker : FreshWorker(w)'
  BY <1>1, FreshWorkerStep
<1>3. \A r \in Request : Fresh(r) => marker'[r] = 0 \/ marker'[r] > born'[r]
  BY <1>1, MarkerStep
<1> QED BY <1>1, <1>2, <1>3 DEF FreshWork, BirthStep, Fresh

LEMMA FreshEvidenceStep ==
  ASSUME TypeInv, AskedFirst, EvidenceRead, FreshWork, FreshEvidence, [Next]_vars,
         EvidenceRead'
  PROVE  FreshEvidence'
<1> SUFFICES ASSUME NEW e \in confirmed', e.part = 0, Fresh(e.request)
             PROVE  e.run > born'[e.request]
  BY DEF FreshEvidence, EvidenceRead, Fresh
<1>0. BirthStep
  BY StepBirths
<1>1. CASE e \in confirmed
  BY <1>0, <1>1 DEF FreshEvidence, AskedFirst, BirthStep
<1>2. ASSUME NEW w \in Worker, PublishEvent(w), e = NextEvent(w)
      PROVE  e.run > born'[e.request]
  <2>1. /\ phase[w] = "publishing" /\ e.run = result[w] /\ e.request = job[w].request
        /\ job[w].request \in Request
    BY <1>2 DEF PublishEvent, NextEvent, EventOf, TypeInv, WorkerOK, Copy
  <2>2. result[w] > born[e.request] /\ published[e.request] > 0
    BY <2>1 DEF FreshWork, FreshWorker, AskedFirst
  <2> QED BY <1>0, <2>1, <2>2 DEF BirthStep
<1>3. CASE PublishCached /\ e = EventOf(cli.run, cli.sent, cli.request)
  BY <1>3 DEF PublishCached, EventOf, EvidenceRead, Fresh
<1> QED BY <1>1, <1>2, <1>3, NewEventSource

FreshInv == TypeInv /\ PublishingOK /\ CommandOK /\ AskedFirst /\ EvidenceRead
            /\ FreshWork /\ FreshEvidence

LEMMA FreshInit == Init => FreshInv
<1> SUFFICES ASSUME Init PROVE FreshInv
  OBVIOUS
<1>1. TypeInv /\ PublishingOK /\ CommandOK
  BY InitTyped DEF Init, PublishingOK, CommandOK, NoCli
<1>2. DOMAIN work = {} /\ DOMAIN retry = {}
  BY DEF Init, EmptyBag, SetToBag
<1>3. AskedFirst /\ EvidenceRead /\ FreshEvidence
  BY <1>2 DEF Init, NoCli, AskedFirst, EvidenceRead, FreshEvidence
<1>4. FreshWork
  BY DEF Init, FreshWork, FreshWorker
<1> QED BY <1>1, <1>3, <1>4 DEF FreshInv

LEMMA FreshStep == FreshInv /\ [Next]_vars => FreshInv'
<1> SUFFICES ASSUME FreshInv, [Next]_vars PROVE FreshInv'
  OBVIOUS
<1>1. TypeInv' /\ PublishingOK' /\ CommandOK'
  BY StepTyped, PublishingStep, CommandStep DEF FreshInv
<1>2. AskedFirst' /\ EvidenceRead' /\ FreshWork'
  BY AskedStep, EvidenceStep, FreshWorkStep DEF FreshInv
<1>3. FreshEvidence'
  BY <1>2, FreshEvidenceStep DEF FreshInv
<1> QED BY <1>1, <1>2, <1>3 DEF FreshInv

(***************************************************************************)
(* A request for fresh OCR is answered only by a run executed after the    *)
(* request was published, and only by one that read the contents it names, *)
(* for every number of workers, requests, replacements, crashes and        *)
(* retries: the completion marker a redelivery trusts was written for that *)
(* request under the lock, and nothing puts an older run into the cache    *)
(* afterwards (produce_result_messages, _completed_cache_rebuild).         *)
(***************************************************************************)
THEOREM FreshIsFresh == Spec => []FreshEvidence
<1>1. FreshInv => FreshEvidence
  BY DEF FreshInv
<1> QED BY FreshInit, FreshStep, <1>1, PTL DEF Spec

-----------------------------------------------------------------------------
(* No wasted OCR.  A worker that did not find a valid marker when it took  *)
(* the lock may still rely on that when it executes OCR: whoever could     *)
(* have left one needs the same lock.                                      *)

OneLockPerSource ==
  \A v, w \in Worker :
     HoldsLock(v) /\ HoldsLock(w) /\ v # w =>
        SourceOf[job[v].request] # SourceOf[job[w].request]

StillToRebuild ==
  \A w \in Worker :
     /\ phase[w] = "locked" /\ ~reused[w] /\ Rebuild(job[w].request)
     => ~CompletedRebuild(job[w].request)

LockInv == TypeInv /\ OneLockPerSource /\ StillToRebuild

(* Who holds a lock after a step: the worker that took it, or as before.   *)
LEMMA StepLocks ==
  ASSUME TypeInv, [Next]_vars, NEW w \in Worker, HoldsLock(w)'
  PROVE  \/ Lock(w)
         \/ HoldsLock(w) /\ job'[w] = job[w]
            /\ (phase'[w] = "locked" => phase[w] = "locked" /\ reused'[w] = reused[w])
<1> DEFINE LockKept(v) ==
      HoldsLock(v) /\ job'[v] = job[v]
      /\ (phase'[v] = "locked" => phase[v] = "locked" /\ reused'[v] = reused[v])
<1>1. ASSUME NEW v \in Worker, v # w, WorkerStep(v) \/ Crash(v) \/ ConnectionLost(v)
      PROVE  phase'[w] = phase[w] /\ job'[w] = job[w] /\ reused'[w] = reused[w]
  BY <1>1 DEF WorkerStep, LocalStep, Deliver, Lock, UseCache, ExecuteOcr, FailOcr,
              Finish, PublishEvent, RejectEvent, Route, Ack, Abandon, Crash,
              ConnectionLost, Release, EndCall, TypeInv, TypeOK
<1>2. ASSUME \/ \E c \in DOMAIN work : Deliver(w, c)
             \/ FailOcr(w) \/ Finish(w) \/ RejectEvent(w) \/ Route(w)
             \/ Ack(w) \/ Abandon(w) \/ Crash(w)
      PROVE  FALSE
  BY <1>2 DEF HoldsLock, Deliver, FailOcr, Finish, RejectEvent, Route, Ack, Abandon,
              Crash, Release, EndCall, TypeInv, TypeOK
<1>3. ASSUME UseCache(w) \/ ExecuteOcr(w) PROVE LockKept(w)
  BY <1>3 DEF HoldsLock, UseCache, ExecuteOcr, TypeInv, TypeOK
<1>4. ASSUME \/ PublishEvent(w) \/ ConnectionLost(w)
             \/ PublishCached \/ EndCached
             \/ \E q \in Request : Publish(q) \/ StartCached(q)
             \/ \E c \in DOMAIN retry : RetryExpires(c)
             \/ \E s \in Source : ReplaceSource(s)
             \/ \E d \in Path : DropCache(d)
             \/ UNCHANGED vars
      PROVE  phase'[w] = phase[w] /\ job'[w] = job[w] /\ reused'[w] = reused[w]
  BY <1>4 DEF PublishEvent, ConnectionLost, PublishCached, EndCached, Publish,
              StartCached, RetryExpires, ReplaceSource, DropCache, vars, workerVars
<1>5. phase'[w] = phase[w] /\ job'[w] = job[w] /\ reused'[w] = reused[w] => LockKept(w)
  BY DEF HoldsLock
<1>6. ASSUME NEW v \in Worker, WorkerStep(v) \/ Crash(v) \/ ConnectionLost(v)
      PROVE  Lock(w) \/ LockKept(w)
  <2>1. CASE v # w
    BY <1>1, <1>5, <1>6, <2>1
  <2>2. CASE v = w
    BY <1>2, <1>3, <1>4, <1>5, <1>6, <2>2 DEF WorkerStep, LocalStep
  <2> QED BY <2>1, <2>2
<1> QED BY <1>4, <1>5, <1>6 DEF Next, Environment

LEMMA ExclusionStep ==
  ASSUME TypeInv, OneLockPerSource, [Next]_vars PROVE OneLockPerSource'
<1>1. ASSUME NEW v \in Worker, NEW w \in Worker, v # w, Lock(v), HoldsLock(w)'
      PROVE  SourceOf[job'[v].request] # SourceOf[job'[w].request]
  <2>1. phase'[w] = phase[w] /\ job' = job /\ LockFree(SourceOf[job[v].request])
    BY <1>1 DEF Lock, TypeInv, TypeOK
  <2> QED BY <1>1, <2>1 DEF LockFree, HoldsLock
<1> SUFFICES ASSUME NEW v \in Worker, NEW w \in Worker,
                    HoldsLock(v)', HoldsLock(w)', v # w
             PROVE  SourceOf[job'[v].request] # SourceOf[job'[w].request]
  BY DEF OneLockPerSource
<1>2. CASE Lock(v) \/ Lock(w)
  BY <1>1, <1>2
<1>3. CASE ~Lock(v) /\ ~Lock(w)
  BY <1>3, StepLocks DEF OneLockPerSource
<1> QED BY <1>2, <1>3

LEMMA StillToRebuildStep ==
  ASSUME LockInv, [Next]_vars PROVE StillToRebuild'
<1> SUFFICES ASSUME NEW w \in Worker, phase'[w] = "locked", ~reused'[w],
                    Rebuild(job'[w].request)
             PROVE  ~( /\ marker'[job'[w].request] # 0
                       /\ marker'[job'[w].request] = cache'[PathFor(job'[w].request)] )
  BY DEF StillToRebuild, CompletedRebuild, Rebuild, PathFor
<1> DEFINE r == job'[w].request
           p == PathFor(r)
<1>1. CASE Lock(w)
  <2>1. job' = job /\ marker' = marker /\ cache' = cache /\ ~CompletedRebuild(r)
    BY <1>1 DEF Lock, cacheVars, TypeInv, TypeOK, LockInv
  <2> QED BY <2>1 DEF CompletedRebuild
<1>2. CASE ~Lock(w)
  <2>1. phase[w] = "locked" /\ ~reused[w] /\ job'[w] = job[w] /\ HoldsLock(w)
    BY <1>2, StepLocks DEF HoldsLock, LockInv
  <2>2. ~CompletedRebuild(r)
    BY <2>1 DEF LockInv, StillToRebuild
  <2>3. /\ r \in Request /\ p \in Path /\ Len(runs) \in Nat /\ marker[r] \in 0..Len(runs)
    BY <2>1, ContractAssumption DEF LockInv, TypeInv, TypeOK, WorkerOK, Copy, PathFor,
       RunIds
  <2>4. marker'[r] = marker[r]
    <3>1. ASSUME NEW v \in Worker, Finish(v) PROVE marker'[r] = marker[r]
      <4>1. HoldsLock(v) /\ v # w /\ job[v].request # r
        BY <2>1, <3>1 DEF Finish, HoldsLock, LockInv, OneLockPerSource, TypeInv, TypeOK, EndCall
      <4>2. \/ marker' = marker
            \/ marker' = [marker EXCEPT ![job[v].request] = cache[PathFor(job[v].request)]]
        BY <3>1 DEF Finish
      <4> QED BY <2>3, <4>1, <4>2 DEF LockInv, TypeInv, TypeOK
    <3> QED BY <3>1, StepMarks
  <2>5. cache'[p] = cache[p] \/ cache'[p] = 0 \/ cache'[p] > Len(runs)
    BY <2>3, StepCaches DEF CacheStep, LockInv
  <2>6. cache'[p] \in Nat
    <3>1. TypeInv'
      BY StepTyped DEF LockInv
    <3>2. TypeOK'
      BY <3>1 DEF TypeInv
    <3>3. cache' \in [Path -> RunIds']
      BY ONLY <3>2 DEF TypeOK
    <3>4. runs' \in Seq(RunRecord')
      BY ONLY <3>2 DEF TypeOK
    <3>5. Len(runs') \in Nat
      BY ONLY <3>4
    <3> QED BY <2>3, <3>3, <3>5 DEF RunIds
  <2> QED BY <2>2, <2>3, <2>4, <2>5, <2>6 DEF CompletedRebuild
<1> QED BY <1>1, <1>2

(* Only OCR adds a run.                                                    *)
LEMMA StepRuns ==
  ASSUME [Next]_vars PROVE runs' = runs \/ \E w \in Worker : ExecuteOcr(w)
<1>1. ASSUME NEW w \in Worker,
             \/ \E c \in DOMAIN work : Deliver(w, c)
             \/ Lock(w) \/ UseCache(w) \/ FailOcr(w) \/ Finish(w)
             \/ PublishEvent(w) \/ RejectEvent(w) \/ Route(w) \/ Ack(w)
             \/ Abandon(w) \/ Crash(w) \/ ConnectionLost(w)
      PROVE  runs' = runs
  BY <1>1 DEF Deliver, Lock, UseCache, FailOcr, Finish, PublishEvent, RejectEvent,
              Route, Ack, Abandon, Crash, ConnectionLost, cacheVars
<1>2. ASSUME \/ PublishCached \/ EndCached
             \/ \E r \in Request : Publish(r) \/ StartCached(r)
             \/ \E c \in DOMAIN retry : RetryExpires(c)
             \/ \E s \in Source : ReplaceSource(s)
             \/ \E p \in Path : DropCache(p)
             \/ UNCHANGED vars
      PROVE  runs' = runs
  BY <1>2 DEF PublishCached, EndCached, Publish, StartCached, RetryExpires,
              ReplaceSource, DropCache, vars, cacheVars
<1> QED BY <1>1, <1>2 DEF Next, Environment, WorkerStep, LocalStep

LEMMA WasteStep ==
  ASSUME LockInv, [Next]_vars, NEW r \in Request,
         Len(runs') > Len(runs), runs'[Len(runs')].request = r
  PROVE  ~(Rebuild(r) /\ CompletedRebuild(r) /\ CacheHit(PathFor(r)))
<1>1. runs' # runs
  BY DEF LockInv, TypeInv, TypeOK
<1>2. PICK w \in Worker : ExecuteOcr(w)
  BY <1>1, StepRuns
<1>3. phase[w] = "locked" /\ job[w].request = r
  <2>1. phase[w] = "locked" /\ job[w].request \in Request /\ PathFor(job[w].request) \in Path
    BY <1>2, ContractAssumption DEF ExecuteOcr, LockInv, TypeInv, WorkerOK, Copy, PathFor
  <2> DEFINE m == [source |-> contents[PathFor(job[w].request)], request |-> job[w].request]
  <2>2. m \in RunRecord /\ runs' = Append(runs, m) /\ m.request = job[w].request
    BY <1>2, <2>1 DEF ExecuteOcr, LockInv, TypeInv, TypeOK, RunRecord
  <2> HIDE DEF m
  <2> QED BY <2>1, <2>2 DEF LockInv, TypeInv, TypeOK
<1>4. MustRefresh(w) \/ ~CacheHit(PathFor(r))
  BY <1>2, <1>3 DEF ExecuteOcr
<1> QED BY <1>3, <1>4 DEF MustRefresh, LockInv, StillToRebuild

(***************************************************************************)
(* No step executes OCR for a request whose completion marker still names  *)
(* the artifact of the same contents, for every number of workers and      *)
(* redeliveries: who overtakes an abandoned OCR child waits for its lock   *)
(* and then reads its marker (cache_rebuild_lock around                    *)
(* _completed_cache_rebuild).                                              *)
(***************************************************************************)
THEOREM OcrIsNotWasted == Spec => NoWastedOcr
<1>1. Init => LockInv
  BY InitTyped DEF Init, LockInv, OneLockPerSource, StillToRebuild, HoldsLock
<1>2. LockInv /\ [Next]_vars => LockInv'
  BY StepTyped, ExclusionStep, StillToRebuildStep DEF LockInv
<1>3. LockInv /\ [Next]_vars =>
        [ \A r \in Request :
             /\ Len(runs') > Len(runs)
             /\ runs'[Len(runs')].request = r
             => ~( /\ Rebuild(r) /\ CompletedRebuild(r)
                   /\ CacheHit(PathFor(r)) ) ]_vars
  BY WasteStep
<1> QED BY <1>1, <1>2, <1>3, PTL DEF Spec, NoWastedOcr
=============================================================================
