----------------------- MODULE ReceiptPipeline_proofs -----------------------
(***************************************************************************)
(* Theorems about the result collector, for every set of collectors and    *)
(* requests, every number of passes and every attempt and delivery limit,  *)
(* and then about the whole receipt path: OCR workers, result queue and    *)
(* collector, with an operator's cached re-extraction beside them.  Every  *)
(* step of the pipeline is a step or a stutter of each part, so the parts' *)
(* invariants carry over; what is new relates the two, above all that the  *)
(* collector is fed exactly what the workers count as confirmed.           *)
(***************************************************************************)
EXTENDS ReceiptPipeline, WorkDispatch_proofs

-----------------------------------------------------------------------------
(* The state of the collector, its queues and its tables.                  *)

Delivery == [event : ReceiptEvents, attempt : 1..MaxResultAttempts,
             delivered : 0..ResultLimit]

Steps == {"idle", "received", "checked", "committed", "failed", "settled"}

ResultTypeOK ==
  /\ IsQueue(results, Delivery) /\ IsQueue(delayed, Delivery)
  /\ deadResults \subseteq ReceiptEvents
  /\ accepted \subseteq ReceiptEvents
  /\ step \in [Collector -> Steps]
  /\ held \in [Collector -> Delivery \cup {NoDelivery}]
  /\ owns \in [Collector -> BOOLEAN]
  /\ events \subseteq (Nat \ {0}) \X Parts
  /\ runRows \subseteq Nat \ {0}
  /\ imported \subseteq Source
  /\ reprocessDone \subseteq Request
  /\ cacheDone \subseteq Request
  /\ evidence \in [Source -> Nat]
  /\ expense \in [Source -> Nat]
  /\ IsQueue(applied, (Nat \ {0}) \X Request)
  /\ stops \in 0..MaxStops

(* A busy collector has a delivery, and only a run event's transaction     *)
(* goes through the duplicate check.                                       *)
CollectorOK ==
  \A k \in Collector :
     /\ step[k] # "idle" => held[k] \in Delivery
     /\ step[k] = "idle" => ~owns[k]
     /\ step[k] = "checked" => held[k].event.part = 0

ResultInv == ResultTypeOK /\ CollectorOK

(* What a delivered event is.                                              *)
LEMMA HeldEvent ==
  ASSUME NEW d \in Delivery
  PROVE  /\ d.event \in ReceiptEvents
         /\ d.event.run \in Nat \ {0} /\ d.event.part \in Parts
         /\ d.event.source \in Source
         /\ d.event.part = 0 => /\ d.event.request \in Request
                                /\ d.event.source = SourceOf[d.event.request]
<1>1. d.event \in ReceiptEvents
  BY DEF Delivery
<1> HIDE DEF ReceiptEvents
<1>2. /\ d.event \in Event
      /\ d.event.part = 0 => /\ d.event.request \in Request
                             /\ d.event.source = SourceOf[d.event.request]
  BY <1>1, ReceiptEventTyped
<1> QED BY <1>1, <1>2 DEF Event

LEMMA ResultInitTyped == ResultInit => ResultInv
<1> SUFFICES ASSUME ResultInit PROVE ResultInv
  OBVIOUS
<1>1. /\ IsQueue(results, Delivery) /\ IsQueue(delayed, Delivery)
      /\ IsQueue(applied, (Nat \ {0}) \X Request)
  BY EmptyQueue DEF ResultInit
<1>2. ResultTypeOK
  BY <1>1, CollectorAssumption DEF ResultInit, ResultTypeOK, Steps
<1> QED BY <1>2 DEF ResultInit, ResultInv, CollectorOK

(* One confirmed publication adds a first delivery.                        *)
LEMMA EnqueueTyped ==
  ASSUME ResultInv, NEW e \in ReceiptEvents, Enqueue(e)
  PROVE  /\ ResultInv'
         /\ DOMAIN results' = DOMAIN results \cup {Attempt(e, 1)}
<1> DEFINE d == Attempt(e, 1)
<1>1. d \in Delivery
  BY CollectorAssumption DEF Attempt, Delivery
<1>2. results' = BagAdd(results, d) /\ IsQueue(results, Delivery)
  BY DEF Enqueue, ResultInv, ResultTypeOK
<1> HIDE DEF d
<1>3. IsQueue(results', Delivery) /\ DOMAIN results' = DOMAIN results \cup {d}
  BY <1>1, <1>2, AddToQueue
<1>4. ResultTypeOK'
  BY <1>3 DEF Enqueue, ResultInv, ResultTypeOK, collectorVars, database
<1>5. CollectorOK'
  BY DEF Enqueue, ResultInv, CollectorOK, collectorVars
<1> QED BY <1>3, <1>4, <1>5 DEF ResultInv, d

(* A delivery moves from the queue into a collector's hands.               *)
LEMMA ReceiveTyped ==
  ASSUME ResultInv, NEW k \in Collector, NEW d \in DOMAIN results, Receive(k, d)
  PROVE  /\ ResultInv'
         /\ DOMAIN results \subseteq DOMAIN results' \cup {d}
         /\ DOMAIN results' \subseteq DOMAIN results
<1>1. IsQueue(results, Delivery) /\ d \in Delivery
  BY DEF ResultInv, ResultTypeOK, IsQueue
<1>2. results' = BagRemove(results, d)
  BY DEF Receive
<1>3. /\ IsQueue(results', Delivery)
      /\ DOMAIN results \subseteq DOMAIN results' \cup {d}
      /\ DOMAIN results' \subseteq DOMAIN results
  BY <1>1, <1>2, RemoveFromQueue
<1>4. ResultTypeOK'
  BY <1>1, <1>3 DEF Receive, ResultInv, ResultTypeOK, Steps, database
<1>5. CollectorOK'
  BY <1>1 DEF Receive, ResultInv, ResultTypeOK, CollectorOK
<1> QED BY <1>3, <1>4, <1>5 DEF ResultInv

(* The transaction of a run event, up to its commit or its failure.        *)
LEMMA CheckRunTyped ==
  ASSUME ResultInv, NEW k \in Collector, CheckRun(k) PROVE ResultInv'
<1>1. ResultTypeOK'
  BY DEF CheckRun, Goto, ResultInv, ResultTypeOK, Steps, resultQueues, database
<1> QED
  BY <1>1 DEF CheckRun, Goto, ResultInv, ResultTypeOK, CollectorOK

LEMMA CommitRunTyped ==
  ASSUME ResultInv, NEW k \in Collector, CommitRun(k)
  PROVE  /\ ResultInv'
         /\ held[k].event.request \in Request
         /\ held[k].event.source = SourceOf[held[k].event.request]
         /\ MessageId(held[k].event) \in events' /\ RequestCompleted(held[k].event)'
         /\ DOMAIN applied' =
               DOMAIN applied \cup {<<held[k].event.run, held[k].event.request>>}
<1> DEFINE e == held[k].event
<1>1. /\ e.run \in Nat \ {0} /\ e.part = 0 /\ e.source \in Source
      /\ e.request \in Request /\ e.source = SourceOf[e.request]
  <2>1. held[k] \in Delivery /\ held[k].event.part = 0
    BY DEF CommitRun, ResultInv, CollectorOK
  <2> QED BY <2>1, HeldEvent
<1>2. <<e.run, e.part>> \in (Nat \ {0}) \X Parts
  BY <1>1, ContractAssumption DEF Parts
<1>3. /\ step[k] = "checked" /\ events' = events \cup {<<e.run, e.part>>}
      /\ runRows' = runRows \cup {e.run}
      /\ applied' = BagAdd(applied, <<e.run, e.request>>) /\ held' = held
      /\ step' = [step EXCEPT ![k] = "committed"] /\ owns' = owns
      /\ UNCHANGED <<results, delayed, deadResults, accepted, stops>>
  BY DEF CommitRun, Goto, MessageId, resultQueues
<1>4. /\ imported' \subseteq Source /\ reprocessDone' \subseteq Request
      /\ cacheDone' \subseteq Request /\ evidence' \in [Source -> Nat]
      /\ expense' \in [Source -> Nat] /\ RequestCompleted(e)'
  <2>1. CASE PersistenceMode(e.request) = "cache_only"
    <3>1. ApplyCacheOnly(e)
      BY <2>1 DEF CommitRun
    <3>2. PersistenceMode(held'[k].event.request) = "cache_only"
      BY <1>3, <2>1
    <3> QED BY <1>1, <1>3, <2>1, <3>1, <3>2
            DEF ApplyCacheOnly, ResultInv, ResultTypeOK, RequestCompleted, PersistenceMode
  <2>2. CASE PersistenceMode(e.request) # "cache_only"
    <3>1. ApplyReceipt(e)
      BY <2>2 DEF CommitRun
    <3>2. expense' \in [Source -> Nat] /\ evidence' \in [Source -> Nat]
      BY <1>1, <3>1 DEF ApplyReceipt, ExpenseAfter, ResultInv, ResultTypeOK
    <3>3. /\ imported' = imported \cup {e.source} /\ cacheDone' = cacheDone
          /\ reprocessDone' = IF PersistenceMode(e.request) = "normal"
                              THEN reprocessDone ELSE reprocessDone \cup {e.request}
      BY <3>1 DEF ApplyReceipt
    <3>4. RequestCompleted(e)'
      BY <1>3, <2>2, <3>3 DEF RequestCompleted, PersistenceMode
    <3> QED BY <1>1, <3>2, <3>3, <3>4 DEF ResultInv, ResultTypeOK
  <2> QED BY <2>1, <2>2
<1>5. /\ IsQueue(applied', (Nat \ {0}) \X Request)
      /\ DOMAIN applied' = DOMAIN applied \cup {<<e.run, e.request>>}
  <2> DEFINE a == <<e.run, e.request>>
  <2>1. a \in (Nat \ {0}) \X Request /\ applied' = BagAdd(applied, a)
    BY <1>1, <1>3
  <2>2. IsQueue(applied, (Nat \ {0}) \X Request)
    BY DEF ResultInv, ResultTypeOK
  <2> HIDE DEF a
  <2>3. IsQueue(applied', (Nat \ {0}) \X Request) /\ DOMAIN applied' = DOMAIN applied \cup {a}
    BY <2>1, <2>2, AddToQueue
  <2> QED BY <2>3 DEF a
<1>6. /\ events' \subseteq (Nat \ {0}) \X Parts /\ runRows' \subseteq Nat \ {0}
      /\ step' \in [Collector -> Steps]
  BY <1>1, <1>2, <1>3 DEF ResultInv, ResultTypeOK, Steps
<1>7. ResultTypeOK'
  BY <1>3, <1>4, <1>5, <1>6 DEF ResultInv, ResultTypeOK
<1>8. CollectorOK'
  BY <1>3 DEF ResultInv, ResultTypeOK, CollectorOK
<1> QED BY <1>1, <1>3, <1>4, <1>5, <1>7, <1>8 DEF ResultInv, MessageId

LEMMA CommitPassTyped ==
  ASSUME ResultInv, NEW k \in Collector, CommitPass(k) PROVE ResultInv'
<1>1. held[k].event.run \in Nat \ {0} /\ held[k].event.part \in Parts
  <2>1. held[k] \in Delivery
    BY DEF CommitPass, ResultInv, CollectorOK
  <2> QED BY <2>1, HeldEvent
<1>2. events' \subseteq (Nat \ {0}) \X Parts
  BY <1>1 DEF CommitPass, ResultInv, ResultTypeOK, MessageId
<1>3. step' \in [Collector -> Steps]
  BY DEF CommitPass, Goto, ResultInv, ResultTypeOK, Steps
<1>4. ResultTypeOK'
  BY <1>2, <1>3 DEF CommitPass, Goto, ResultInv, ResultTypeOK, resultQueues
<1> QED
  BY <1>4 DEF CommitPass, Goto, ResultInv, ResultTypeOK, CollectorOK

LEMMA FailResultTyped ==
  ASSUME ResultInv, NEW k \in Collector, FailResult(k) PROVE ResultInv'
<1>1. ResultTypeOK'
  BY DEF FailResult, Goto, ResultInv, ResultTypeOK, Steps, resultQueues, database
<1> QED
  BY <1>1 DEF FailResult, Goto, ResultInv, ResultTypeOK, CollectorOK

(* A failed delivery is handed on as the next attempt or dead-lettered.    *)
LEMMA RouteResultTyped ==
  ASSUME ResultInv, NEW k \in Collector, RouteResult(k)
  PROVE  /\ ResultInv'
         /\ DOMAIN delayed \subseteq DOMAIN delayed' /\ deadResults \subseteq deadResults'
         /\ \/ held[k].event \in deadResults'
            \/ \E d \in DOMAIN delayed' : d.event = held[k].event
         /\ \A d \in DOMAIN delayed' : d \in DOMAIN delayed \/ d.event = held[k].event
         /\ deadResults' \subseteq deadResults \cup {held[k].event}
<1>1. held[k] \in Delivery /\ held[k].event \in ReceiptEvents
  BY DEF RouteResult, ResultInv, CollectorOK, Delivery
<1>2. /\ IsQueue(delayed', Delivery) /\ deadResults' \subseteq ReceiptEvents
      /\ DOMAIN delayed \subseteq DOMAIN delayed' /\ deadResults \subseteq deadResults'
      /\ \/ held[k].event \in deadResults'
         \/ \E d \in DOMAIN delayed' : d.event = held[k].event
      /\ \A d \in DOMAIN delayed' : d \in DOMAIN delayed \/ d.event = held[k].event
      /\ deadResults' \subseteq deadResults \cup {held[k].event}
  <2>1. CASE held[k].attempt < MaxResultAttempts
    <3> DEFINE d == Attempt(held[k].event, held[k].attempt + 1)
    <3>1. d \in Delivery /\ d.event = held[k].event
      BY <1>1, <2>1, CollectorAssumption DEF Attempt, Delivery
    <3>2. /\ delayed' = BagAdd(delayed, d) /\ deadResults' = deadResults
          /\ IsQueue(delayed, Delivery) /\ deadResults \subseteq ReceiptEvents
      BY <2>1 DEF RouteResult, ResultInv, ResultTypeOK
    <3> HIDE DEF d
    <3>3. IsQueue(delayed', Delivery) /\ DOMAIN delayed' = DOMAIN delayed \cup {d}
      BY <3>1, <3>2, AddToQueue
    <3> QED BY <3>1, <3>2, <3>3
  <2>2. CASE ~(held[k].attempt < MaxResultAttempts)
    BY <1>1, <2>2 DEF RouteResult, ResultInv, ResultTypeOK
  <2> QED BY <2>1, <2>2
<1>3. ResultTypeOK'
  BY <1>2 DEF RouteResult, Goto, ResultInv, ResultTypeOK, Steps, database
<1>4. CollectorOK'
  BY DEF RouteResult, Goto, ResultInv, ResultTypeOK, CollectorOK
<1> QED BY <1>2, <1>3, <1>4 DEF ResultInv

(* A collector that forgets its delivery is idle.                          *)
LEMMA ForgetTyped ==
  ASSUME ResultInv, NEW k \in Collector, Forget(k)
  PROVE  /\ step' \in [Collector -> Steps]
         /\ held' \in [Collector -> Delivery \cup {NoDelivery}]
         /\ owns' \in [Collector -> BOOLEAN]
         /\ CollectorOK'
<1>1. /\ step' \in [Collector -> Steps] /\ owns' \in [Collector -> BOOLEAN]
      /\ held' \in [Collector -> Delivery \cup {NoDelivery}]
  BY DEF Forget, ResultInv, ResultTypeOK, Steps
<1>2. CollectorOK'
  BY DEF Forget, ResultInv, ResultTypeOK, CollectorOK
<1> QED BY <1>1, <1>2

LEMMA AckResultTyped ==
  ASSUME ResultInv, NEW k \in Collector, AckResult(k) \/ CollectorExit(k)
  PROVE  ResultInv'
<1>1. Forget(k) /\ UNCHANGED <<resultQueues, accepted, database, stops>>
  BY DEF AckResult, CollectorExit
<1>2. ResultTypeOK' /\ CollectorOK'
  BY <1>1, ForgetTyped DEF ResultInv, ResultTypeOK, resultQueues, database
<1> QED BY <1>2 DEF ResultInv

(* A returned delivery is in the queue again or, past its limit, dead.     *)
LEMMA RequeueResultTyped ==
  ASSUME ResultInv, NEW d \in Delivery, RequeueResult(d)
  PROVE  /\ IsQueue(results', Delivery) /\ delayed' = delayed
         /\ deadResults' \subseteq ReceiptEvents
         /\ DOMAIN results \subseteq DOMAIN results' /\ deadResults \subseteq deadResults'
         /\ d.event \in deadResults' \/ \E c \in DOMAIN results' : c.event = d.event
         /\ \A c \in DOMAIN results' : c \in DOMAIN results \/ c.event = d.event
         /\ deadResults' \subseteq deadResults \cup {d.event}
<1>1. CASE d.delivered < ResultLimit
  <2> DEFINE c == [d EXCEPT !.delivered = @ + 1]
  <2>1. c \in Delivery /\ c.event = d.event
    BY <1>1, CollectorAssumption DEF Delivery
  <2>2. /\ results' = BagAdd(results, c) /\ UNCHANGED <<delayed, deadResults>>
        /\ IsQueue(results, Delivery) /\ deadResults \subseteq ReceiptEvents
    BY <1>1 DEF RequeueResult, ResultInv, ResultTypeOK
  <2> HIDE DEF c
  <2>3. IsQueue(results', Delivery) /\ DOMAIN results' = DOMAIN results \cup {c}
    BY <2>1, <2>2, AddToQueue
  <2> QED BY <2>1, <2>2, <2>3
<1>2. CASE ~(d.delivered < ResultLimit)
  BY <1>2 DEF RequeueResult, ResultInv, ResultTypeOK, Delivery
<1> QED BY <1>1, <1>2

LEMMA CollectorStopTyped ==
  ASSUME ResultInv, NEW k \in Collector, CollectorCrash(k) \/ CollectorCut(k)
  PROVE  /\ ResultInv' /\ delayed' = delayed
         /\ DOMAIN results \subseteq DOMAIN results' /\ deadResults \subseteq deadResults'
         /\ owns[k] => \/ held[k].event \in deadResults'
                       \/ \E c \in DOMAIN results' : c.event = held[k].event
         /\ \A c \in DOMAIN results' : c \in DOMAIN results \/ c.event = held[k].event
         /\ deadResults' \subseteq deadResults \cup {held[k].event}
<1>1. held[k] \in Delivery
  BY DEF CollectorCrash, CollectorCut, ResultInv, CollectorOK
<1>2. /\ IsQueue(results', Delivery) /\ delayed' = delayed
      /\ deadResults' \subseteq ReceiptEvents
      /\ DOMAIN results \subseteq DOMAIN results' /\ deadResults \subseteq deadResults'
      /\ owns[k] => \/ held[k].event \in deadResults'
                    \/ \E c \in DOMAIN results' : c.event = held[k].event
      /\ \A c \in DOMAIN results' : c \in DOMAIN results \/ c.event = held[k].event
      /\ deadResults' \subseteq deadResults \cup {held[k].event}
  <2>1. CASE RequeueResult(held[k])
    BY <1>1, <2>1, RequeueResultTyped
  <2>2. CASE ~owns[k] /\ UNCHANGED resultQueues
    BY <2>2 DEF resultQueues, ResultInv, ResultTypeOK
  <2> QED BY <2>1, <2>2 DEF CollectorCrash, CollectorCut
<1>3. stops' \in 0..MaxStops /\ UNCHANGED <<accepted, database>>
  BY CollectorAssumption DEF CollectorCrash, CollectorCut, ResultInv, ResultTypeOK
<1>4. CASE Forget(k)
  BY <1>2, <1>3, <1>4, ForgetTyped DEF ResultInv, ResultTypeOK, database
<1>5. CASE CollectorCut(k)
  <2>1. /\ step' = step /\ held' = held /\ owns' = [owns EXCEPT ![k] = FALSE]
    BY <1>5 DEF CollectorCut
  <2>2. ResultTypeOK' /\ CollectorOK'
    BY <1>2, <1>3, <2>1 DEF ResultInv, ResultTypeOK, CollectorOK, database
  <2> QED BY <1>2, <2>2 DEF ResultInv
<1> QED BY <1>4, <1>5 DEF CollectorCrash

LEMMA DelayExpiresTyped ==
  ASSUME ResultInv, NEW d \in DOMAIN delayed, DelayExpires(d)
  PROVE  /\ ResultInv'
         /\ DOMAIN results' = DOMAIN results \cup {d}
         /\ DOMAIN delayed \subseteq DOMAIN delayed' \cup {d}
         /\ DOMAIN delayed' \subseteq DOMAIN delayed
<1>1. IsQueue(results, Delivery) /\ IsQueue(delayed, Delivery) /\ d \in Delivery
  BY DEF ResultInv, ResultTypeOK, IsQueue
<1>2. delayed' = BagRemove(delayed, d) /\ results' = BagAdd(results, d)
  BY DEF DelayExpires
<1>3. IsQueue(results', Delivery) /\ DOMAIN results' = DOMAIN results \cup {d}
  BY <1>1, <1>2, AddToQueue
<1>4. /\ IsQueue(delayed', Delivery)
      /\ DOMAIN delayed \subseteq DOMAIN delayed' \cup {d}
      /\ DOMAIN delayed' \subseteq DOMAIN delayed
  BY <1>1, <1>2, RemoveFromQueue
<1>5. ResultTypeOK'
  BY <1>3, <1>4 DEF DelayExpires, ResultInv, ResultTypeOK, collectorVars, database
<1>6. CollectorOK'
  BY DEF DelayExpires, ResultInv, CollectorOK, collectorVars
<1> QED BY <1>3, <1>4, <1>5, <1>6 DEF ResultInv

LEMMA ResultStepTyped == ResultInv /\ [ResultNext]_resultVars => ResultInv'
<1> SUFFICES ASSUME ResultInv, [ResultNext]_resultVars PROVE ResultInv'
  OBVIOUS
<1>1. CASE UNCHANGED resultVars
  BY <1>1 DEF resultVars, resultQueues, collectorVars, database, ResultInv,
              ResultTypeOK, CollectorOK
<1>2. ASSUME NEW k \in Collector, CollectorStep(k) PROVE ResultInv'
  BY <1>2, ReceiveTyped, CheckRunTyped, CommitRunTyped, CommitPassTyped,
     FailResultTyped, RouteResultTyped, AckResultTyped DEF CollectorStep
<1>3. ASSUME NEW k \in Collector, CollectorCrash(k) \/ CollectorCut(k)
      PROVE  ResultInv'
  BY <1>3, CollectorStopTyped
<1>4. ASSUME NEW d \in DOMAIN delayed, DelayExpires(d) PROVE ResultInv'
  BY <1>4, DelayExpiresTyped
<1>5. ASSUME NEW e \in ReceiptEvents, Enqueue(e) PROVE ResultInv'
  BY <1>5, EnqueueTyped
<1> QED BY <1>1, <1>2, <1>3, <1>4, <1>5 DEF ResultNext, CollectorNext

(***************************************************************************)
(* Every variable of the collector keeps its type, for every set of        *)
(* collectors and every limit: only deliveries of executed runs' events    *)
(* are queued, within their attempt and delivery budgets (handle_result_   *)
(* delivery, delayed_retry_for).                                           *)
(***************************************************************************)
THEOREM ResultTypeCorrect == ResultSpec => []ResultTypeOK
<1>1. ResultInv => ResultTypeOK
  BY DEF ResultInv
<1> QED BY ResultInitTyped, ResultStepTyped, <1>1, PTL DEF ResultSpec

-----------------------------------------------------------------------------
(* Why the duplicate check is enough: while a transaction is open, its     *)
(* source's lock keeps every other one that could apply the same run for   *)
(* the same request out, and what was applied before is a duplicate.       *)

OneTransactionPerSource ==
  \A j, k \in Collector :
     step[j] = "checked" /\ step[k] = "checked" /\ j # k =>
        held[j].event.source # held[k].event.source

NotYetApplied ==
  \A k \in Collector :
     step[k] = "checked" =>
        <<held[k].event.run, held[k].event.request>> \notin DOMAIN applied

AppliedIsKnown ==
  \A a \in DOMAIN applied :
     <<a[1], 0>> \in events /\ RequestCompleted(EventOf(a[1], 0, a[2]))

ApplyInv ==
  OneTransactionPerSource /\ NotYetApplied /\ AppliedIsKnown /\ AppliedOnce

(* What a step that commits nothing leaves of it.                          *)
LEMMA NoCommitApply ==
  ASSUME ResultInv, ApplyInv, UNCHANGED database,
         \A k \in Collector : step'[k] = "checked" =>
            step[k] = "checked" /\ held'[k] = held[k]
  PROVE  ApplyInv'
<1>1. OneTransactionPerSource' /\ NotYetApplied'
  BY DEF ApplyInv, OneTransactionPerSource, NotYetApplied, database
<1>2. AppliedIsKnown' /\ AppliedOnce'
  BY DEF ApplyInv, AppliedIsKnown, AppliedOnce, RequestCompleted, database
<1> QED BY <1>1, <1>2 DEF ApplyInv

(* The lock and the look-up of the event identity.                         *)
LEMMA CheckRunApply ==
  ASSUME ResultInv, ApplyInv, NEW k \in Collector, CheckRun(k) PROVE ApplyInv'
<1> DEFINE e == held[k].event
<1>1. /\ step[k] = "received" /\ e.part = 0 /\ held' = held /\ UNCHANGED database
      /\ \A j \in Collector : step[j] = "checked" => held[j].event.source # e.source
      /\ step' = [step EXCEPT ![k] = IF IsDuplicate(e) THEN "committed" ELSE "checked"]
  BY DEF CheckRun, Goto, SourceLockFree
<1>2. \A j \in Collector \ {k} : step'[j] = step[j]
  BY <1>1 DEF ResultInv, ResultTypeOK
<1>3. e.request \in Request /\ e.source = SourceOf[e.request]
  BY <1>1, HeldEvent DEF ResultInv, CollectorOK
<1>4. step'[k] = "checked" => <<e.run, e.request>> \notin DOMAIN applied
  <2> SUFFICES ASSUME <<e.run, e.request>> \in DOMAIN applied PROVE IsDuplicate(e)
    BY <1>1 DEF ResultInv, ResultTypeOK
  <2>1. /\ <<e.run, 0>> \in events
        /\ RequestCompleted(EventOf(e.run, 0, e.request))
    BY DEF ApplyInv, AppliedIsKnown
  <2>2. RequestCompleted(e)
    BY <1>3, <2>1 DEF RequestCompleted, EventOf
  <2> QED BY <1>1, <2>1, <2>2 DEF IsDuplicate, MessageId
<1>5. OneTransactionPerSource'
  BY <1>1, <1>2 DEF ApplyInv, OneTransactionPerSource
<1>6. NotYetApplied'
  BY <1>1, <1>2, <1>4 DEF ApplyInv, NotYetApplied, database
<1>7. AppliedIsKnown' /\ AppliedOnce'
  BY <1>1 DEF ApplyInv, AppliedIsKnown, AppliedOnce, RequestCompleted, database
<1> QED BY <1>5, <1>6, <1>7 DEF ApplyInv

(* What a commit records is what the check will find.                      *)
LEMMA CommitRunApply ==
  ASSUME ResultInv, ApplyInv, NEW k \in Collector, CommitRun(k) PROVE ApplyInv'
<1> DEFINE e == held[k].event
           a == <<e.run, e.request>>
<1>1. /\ step[k] = "checked" /\ held' = held
      /\ step' = [step EXCEPT ![k] = "committed"]
      /\ events' = events \cup {MessageId(e)} /\ applied' = BagAdd(applied, a)
      /\ imported \subseteq imported' /\ reprocessDone \subseteq reprocessDone'
  BY DEF CommitRun, Goto, ApplyCacheOnly, ApplyReceipt
<1>2. \A j \in Collector : step'[j] = "checked" => step[j] = "checked" /\ j # k
  BY <1>1 DEF ResultInv, ResultTypeOK
<1>3. /\ e.part = 0 /\ e.request \in Request /\ e.source = SourceOf[e.request]
      /\ MessageId(e) \in events' /\ RequestCompleted(e)'
  <2>1. e.part = 0
    BY <1>1 DEF ResultInv, CollectorOK
  <2> QED BY <2>1, CommitRunTyped
<1>4. OneTransactionPerSource'
  BY <1>1, <1>2 DEF ApplyInv, OneTransactionPerSource
<1>5. a \notin DOMAIN applied
  BY <1>1 DEF ApplyInv, NotYetApplied
<1>6. DOMAIN applied' = DOMAIN applied \cup {a} /\ AppliedOnce'
  <2> HIDE DEF a
  <2> QED BY <1>1, <1>5 DEF BagAdd, ApplyInv, AppliedOnce
<1>7. NotYetApplied'
  <2> SUFFICES ASSUME NEW j \in Collector, step'[j] = "checked"
               PROVE  <<held[j].event.run, held[j].event.request>> \notin DOMAIN applied'
    BY <1>1 DEF NotYetApplied
  <2>1. step[j] = "checked" /\ j # k
    BY <1>2
  <2>2. held[j].event.source # e.source
    BY <1>1, <2>1 DEF ApplyInv, OneTransactionPerSource
  <2>3. held[j].event.request \in Request
        /\ held[j].event.source = SourceOf[held[j].event.request]
    BY <2>1, HeldEvent DEF ResultInv, CollectorOK
  <2>4. <<held[j].event.run, held[j].event.request>> # a
    BY <1>3, <2>2, <2>3
  <2>5. <<held[j].event.run, held[j].event.request>> \notin DOMAIN applied
    BY <2>1 DEF ApplyInv, NotYetApplied
  <2> HIDE DEF a
  <2> QED BY <1>6, <2>4, <2>5
<1>8. AppliedIsKnown'
  <2> SUFFICES ASSUME NEW b \in DOMAIN applied'
               PROVE  <<b[1], 0>> \in events' /\ RequestCompleted(EventOf(b[1], 0, b[2]))'
    BY DEF AppliedIsKnown
  <2>1. CASE b \in DOMAIN applied
    <3>1. <<b[1], 0>> \in events /\ RequestCompleted(EventOf(b[1], 0, b[2]))
      BY <2>1 DEF ApplyInv, AppliedIsKnown
    <3> QED BY <1>1, <3>1 DEF RequestCompleted
  <2>2. CASE b = a
    <3>1. b[1] = e.run /\ b[2] = e.request
      BY <2>2
    <3> QED BY <1>1, <1>3, <3>1 DEF RequestCompleted, EventOf, MessageId
  <2> QED BY <1>6, <2>1, <2>2
<1> QED BY <1>4, <1>6, <1>7, <1>8 DEF ApplyInv

(* A pass adds an identity and applies nothing.                            *)
LEMMA CommitPassApply ==
  ASSUME ResultInv, ApplyInv, NEW k \in Collector, CommitPass(k) PROVE ApplyInv'
<1>1. /\ held' = held /\ events \subseteq events' /\ applied' = applied
      /\ imported' = imported /\ reprocessDone' = reprocessDone
      /\ \A j \in Collector : step'[j] = "checked" => step[j] = "checked"
  BY DEF CommitPass, Goto, ResultInv, ResultTypeOK
<1>2. OneTransactionPerSource' /\ NotYetApplied'
  BY <1>1 DEF ApplyInv, OneTransactionPerSource, NotYetApplied
<1>3. AppliedIsKnown' /\ AppliedOnce'
  BY <1>1 DEF ApplyInv, AppliedIsKnown, AppliedOnce, RequestCompleted
<1> QED BY <1>2, <1>3 DEF ApplyInv

LEMMA ApplyStep ==
  ASSUME ResultInv, ApplyInv, [ResultNext]_resultVars PROVE ApplyInv'
<1>1. ASSUME NEW k \in Collector,
             \/ \E d \in DOMAIN results : Receive(k, d)
             \/ FailResult(k) \/ RouteResult(k) \/ AckResult(k) \/ CollectorExit(k)
             \/ CollectorCrash(k) \/ CollectorCut(k)
      PROVE  ApplyInv'
  <2>1. UNCHANGED database
    BY <1>1 DEF Receive, FailResult, RouteResult, AckResult, CollectorExit,
                CollectorCrash, CollectorCut
  <2>2. \A j \in Collector : step'[j] = "checked" =>
           step[j] = "checked" /\ held'[j] = held[j]
    BY <1>1 DEF Receive, FailResult, RouteResult, AckResult, CollectorExit,
                CollectorCrash, CollectorCut, Goto, Forget, ResultInv, ResultTypeOK
  <2> QED BY <2>1, <2>2, NoCommitApply
<1>2. ASSUME NEW k \in Collector, CheckRun(k) \/ CommitRun(k) \/ CommitPass(k)
      PROVE  ApplyInv'
  BY <1>2, CheckRunApply, CommitRunApply, CommitPassApply
<1>3. ASSUME \/ \E d \in DOMAIN delayed : DelayExpires(d)
             \/ \E e \in ReceiptEvents : Enqueue(e)
             \/ UNCHANGED resultVars
      PROVE  ApplyInv'
  <2>1. UNCHANGED <<step, held, database>>
    BY <1>3 DEF DelayExpires, Enqueue, resultVars, collectorVars
  <2> QED BY <2>1, NoCommitApply
<1> QED BY <1>1, <1>2, <1>3 DEF ResultNext, CollectorNext, CollectorStep

LEMMA ApplyInit == ResultInit => ApplyInv
<1> SUFFICES ASSUME ResultInit PROVE ApplyInv
  OBVIOUS
<1>1. DOMAIN applied = {}
  BY DEF ResultInit, EmptyBag, SetToBag
<1> QED BY <1>1 DEF ResultInit, ApplyInv, OneTransactionPerSource, NotYetApplied,
                    AppliedIsKnown, AppliedOnce

(***************************************************************************)
(* No request applies one OCR run twice, for every number of collectors    *)
(* and however often the event is queued, delayed, redelivered or held     *)
(* after its connection was lost: the advisory lock is taken before the    *)
(* look-up and kept until the commit (receipt_lock around                  *)
(* _already_persisted in _persist_run).                                    *)
(***************************************************************************)
THEOREM RunAppliedOnce == ResultSpec => []AppliedOnce
<1> DEFINE Inv == ResultInv /\ ApplyInv
<1>1. ResultInit => Inv
  BY ResultInitTyped, ApplyInit
<1>2. Inv /\ [ResultNext]_resultVars => Inv'
  BY ResultStepTyped, ApplyStep
<1>3. Inv => AppliedOnce
  BY DEF ApplyInv
<1> QED BY <1>1, <1>2, <1>3, PTL DEF ResultSpec

-----------------------------------------------------------------------------
(* Where a confirmed result is, and what each step does to it.             *)

Safe(e) == Waiting(e) \/ e \in deadResults \/ Outcome(e)

Queues(e) == \E d \in DOMAIN results \cup DOMAIN delayed : d.event = e

Holds(k, e) ==
  owns[k] /\ step[k] \in {"received", "checked", "failed"} /\ held[k].event = e

(* The database only grows, so an outcome stays.                           *)
DatabaseGrows ==
  /\ events \subseteq events' /\ imported \subseteq imported'
  /\ reprocessDone \subseteq reprocessDone'

LEMMA OutcomeStays ==
  ASSUME DatabaseGrows, NEW e PROVE Outcome(e) => Outcome(e)'
BY DEF DatabaseGrows, Outcome, RequestCompleted

LEMMA StepGrowsDatabase ==
  ASSUME [ResultNext]_resultVars PROVE DatabaseGrows
<1>1. ASSUME NEW k \in Collector, CommitRun(k) PROVE DatabaseGrows
  BY <1>1 DEF CommitRun, ApplyCacheOnly, ApplyReceipt, DatabaseGrows
<1>2. ASSUME NEW k \in Collector, CommitPass(k) PROVE DatabaseGrows
  BY <1>2 DEF CommitPass, DatabaseGrows
<1>3. CASE UNCHANGED database
  BY <1>3 DEF database, DatabaseGrows
<1> QED
  BY <1>1, <1>2, <1>3
  DEF ResultNext, CollectorNext, CollectorStep, Receive, CheckRun, FailResult,
      RouteResult, AckResult, CollectorExit, CollectorCrash, CollectorCut,
      DelayExpires, Enqueue, resultVars

(* A collector acknowledges without handing on only what is recorded.      *)
CommittedRecorded ==
  \A k \in Collector : step[k] = "committed" => Outcome(held[k].event)

LEMMA CommittedStep ==
  ASSUME ResultInv, CommittedRecorded, [ResultNext]_resultVars
  PROVE  CommittedRecorded'
<1>0. DatabaseGrows
  BY StepGrowsDatabase
<1>1. ASSUME \A j \in Collector : step'[j] = "committed" =>
                step[j] = "committed" /\ held'[j] = held[j]
      PROVE  CommittedRecorded'
  BY <1>0, <1>1, OutcomeStays DEF CommittedRecorded, Outcome, RequestCompleted
<1>2. ASSUME NEW k \in Collector, CheckRun(k) \/ CommitRun(k) \/ CommitPass(k),
             step'[k] = "committed" => Outcome(held[k].event)'
      PROVE  CommittedRecorded'
  <2>1. held' = held /\ \A j \in Collector \ {k} : step'[j] = step[j]
    BY <1>2 DEF CheckRun, CommitRun, CommitPass, Goto, ResultInv, ResultTypeOK
  <2> QED BY <1>0, <1>2, <2>1, OutcomeStays
          DEF CommittedRecorded, Outcome, RequestCompleted
<1>3. ASSUME NEW k \in Collector, CheckRun(k) PROVE CommittedRecorded'
  <2>1. step'[k] = "committed" => Outcome(held[k].event)
    BY <1>3 DEF CheckRun, Goto, IsDuplicate, Outcome, ResultInv, ResultTypeOK
  <2>2. Outcome(held[k].event) => Outcome(held[k].event)'
    BY <1>3 DEF CheckRun, Goto, database, Outcome, RequestCompleted
  <2> QED BY <1>2, <1>3, <2>1, <2>2
<1>4. ASSUME NEW k \in Collector, CommitRun(k) PROVE CommittedRecorded'
  <2>1. held' = held
    BY <1>4 DEF CommitRun, Goto
  <2>2. Outcome(held[k].event)'
    BY <1>4, <2>1, CommitRunTyped DEF Outcome, MessageId
  <2> QED BY <1>2, <1>4, <2>2
<1>5. ASSUME NEW k \in Collector, CommitPass(k) PROVE CommittedRecorded'
  <2>1. held' = held /\ held[k].event.part > 0
    BY <1>5 DEF CommitPass, Goto
  <2>2. step'[k] = "committed" => MessageId(held[k].event) \in events'
    BY <1>5 DEF CommitPass, Goto, ResultInv, ResultTypeOK
  <2>3. held[k].event.part # 0
    BY <1>5, HeldEvent DEF CommitPass, ResultInv, CollectorOK, Parts
  <2> QED BY <1>2, <1>5, <2>1, <2>2, <2>3 DEF Outcome, MessageId
<1>6. ASSUME NEW k \in Collector,
             \/ \E d \in DOMAIN results : Receive(k, d)
             \/ FailResult(k) \/ RouteResult(k) \/ AckResult(k) \/ CollectorExit(k)
             \/ CollectorCrash(k) \/ CollectorCut(k)
      PROVE  CommittedRecorded'
  <2>1. ASSUME NEW j \in Collector, step'[j] = "committed"
        PROVE  step[j] = "committed" /\ held'[j] = held[j]
    BY <1>6, <2>1 DEF Receive, FailResult, RouteResult, AckResult, CollectorExit,
                      CollectorCrash, CollectorCut, Goto, Forget, ResultInv,
                      ResultTypeOK
  <2> QED BY <1>1, <2>1
<1>7. ASSUME \/ \E d \in DOMAIN delayed : DelayExpires(d)
             \/ \E e \in ReceiptEvents : Enqueue(e)
             \/ UNCHANGED resultVars
      PROVE  CommittedRecorded'
  BY <1>1, <1>7 DEF DelayExpires, Enqueue, resultVars, collectorVars
<1> QED BY <1>3, <1>4, <1>5, <1>6, <1>7 DEF ResultNext, CollectorNext, CollectorStep

(* A step of one collector that leaves what it held somewhere else.        *)
LEMMA ResultHandOver ==
  ASSUME [ResultNext]_resultVars, NEW e, NEW k \in Collector,
         \A j \in Collector \ {k} :
            owns'[j] = owns[j] /\ step'[j] = step[j] /\ held'[j] = held[j],
         deadResults \subseteq deadResults',
         Queues(e) => Queues(e)' \/ Holds(k, e)',
         Holds(k, e) => Safe(e)'
  PROVE  Safe(e) => Safe(e)'
<1>1. Outcome(e) => Outcome(e)'
  BY StepGrowsDatabase, OutcomeStays
<1>2. Queues(e) => Waiting(e)'
  BY DEF Queues, Holds, Waiting
<1>3. ASSUME NEW j \in Collector \ {k}, Holds(j, e) PROVE Waiting(e)'
  BY <1>3 DEF Holds, Waiting
<1>4. Waiting(e) => Safe(e)'
  BY <1>2, <1>3 DEF Waiting, Queues, Holds, Safe
<1> QED BY <1>1, <1>4 DEF Safe

LEMMA ReceiveSafe ==
  ASSUME ResultInv, [ResultNext]_resultVars, NEW e,
         NEW k \in Collector, NEW d \in DOMAIN results, Receive(k, d)
  PROVE  Safe(e) => Safe(e)'
<1>1. \A j \in Collector \ {k} :
         owns'[j] = owns[j] /\ step'[j] = step[j] /\ held'[j] = held[j]
  BY DEF Receive, ResultInv, ResultTypeOK
<1>2. /\ ~Holds(k, e) /\ owns'[k] /\ step'[k] = "received" /\ held'[k] = d
      /\ delayed' = delayed /\ deadResults' = deadResults
  BY DEF Receive, Holds, ResultInv, ResultTypeOK
<1>3. Queues(e) => Queues(e)' \/ Holds(k, e)'
  BY <1>2, ReceiveTyped DEF Queues, Holds
<1> QED BY <1>1, <1>2, <1>3, ResultHandOver

(* Progress with a delivery in hand.                                       *)
LEMMA WorkOnSafe ==
  ASSUME ResultInv, CommittedRecorded, [ResultNext]_resultVars, NEW e,
         NEW k \in Collector,
         CheckRun(k) \/ CommitRun(k) \/ CommitPass(k) \/ FailResult(k)
  PROVE  Safe(e) => Safe(e)'
<1>1. /\ \A j \in Collector \ {k} :
            owns'[j] = owns[j] /\ step'[j] = step[j] /\ held'[j] = held[j]
      /\ UNCHANGED <<results, delayed, deadResults, held, owns>>
      /\ step'[k] \in {"checked", "committed", "failed"}
  BY DEF CheckRun, CommitRun, CommitPass, FailResult, Goto, resultQueues,
         ResultInv, ResultTypeOK
<1>2. CommittedRecorded'
  BY CommittedStep
<1>3. Holds(k, e) => Safe(e)'
  BY <1>1, <1>2 DEF Holds, Safe, Waiting, CommittedRecorded
<1>4. Queues(e) => Queues(e)'
  BY <1>1 DEF Queues
<1> QED BY <1>1, <1>3, <1>4, ResultHandOver

LEMMA RouteSafe ==
  ASSUME ResultInv, [ResultNext]_resultVars, NEW e, NEW k \in Collector,
         RouteResult(k)
  PROVE  Safe(e) => Safe(e)'
<1>1. \A j \in Collector \ {k} :
         owns'[j] = owns[j] /\ step'[j] = step[j] /\ held'[j] = held[j]
  BY DEF RouteResult, Goto, ResultInv, ResultTypeOK
<1>2. results' = results
  BY DEF RouteResult
<1>3. Queues(e) => Queues(e)'
  BY <1>2, RouteResultTyped DEF Queues
<1>4. Holds(k, e) => Safe(e)'
  BY RouteResultTyped DEF Holds, Safe, Waiting
<1>5. deadResults \subseteq deadResults'
  BY RouteResultTyped
<1> QED BY <1>1, <1>3, <1>4, <1>5, ResultHandOver

(* A crash or a lost connection returns what was still owned.              *)
LEMMA StopSafe ==
  ASSUME ResultInv, [ResultNext]_resultVars, NEW e, NEW k \in Collector,
         CollectorCrash(k) \/ CollectorCut(k)
  PROVE  Safe(e) => Safe(e)'
<1>1. \A j \in Collector \ {k} :
         owns'[j] = owns[j] /\ step'[j] = step[j] /\ held'[j] = held[j]
  BY DEF CollectorCrash, CollectorCut, Forget, ResultInv, ResultTypeOK
<1>2. Queues(e) => Queues(e)'
  BY CollectorStopTyped DEF Queues
<1>3. Holds(k, e) => Safe(e)'
  BY CollectorStopTyped DEF Holds, Safe, Waiting
<1>4. deadResults \subseteq deadResults'
  BY CollectorStopTyped
<1> QED BY <1>1, <1>2, <1>3, <1>4, ResultHandOver

(* Only a settled or a committed delivery is let go.                       *)
LEMMA LetGoSafe ==
  ASSUME ResultInv, [ResultNext]_resultVars, NEW e, NEW k \in Collector,
         AckResult(k) \/ CollectorExit(k)
  PROVE  Safe(e) => Safe(e)'
<1>1. /\ \A j \in Collector \ {k} :
            owns'[j] = owns[j] /\ step'[j] = step[j] /\ held'[j] = held[j]
      /\ UNCHANGED <<results, delayed, deadResults>> /\ ~Holds(k, e)
  BY DEF AckResult, CollectorExit, Forget, resultQueues, Holds, ResultInv, ResultTypeOK
<1>2. Queues(e) => Queues(e)'
  BY <1>1 DEF Queues
<1> QED BY <1>1, <1>2, ResultHandOver

LEMMA BrokerSafe ==
  ASSUME ResultInv, [ResultNext]_resultVars, NEW e,
         \/ \E d \in DOMAIN delayed : DelayExpires(d)
         \/ \E c \in ReceiptEvents : Enqueue(c)
         \/ UNCHANGED resultVars
  PROVE  Safe(e) => Safe(e)'
<1>1. Outcome(e) => Outcome(e)'
  BY StepGrowsDatabase, OutcomeStays
<1>2. UNCHANGED <<step, held, owns, deadResults>>
  BY DEF DelayExpires, Enqueue, resultVars, resultQueues, collectorVars
<1>3. Queues(e) => Queues(e)'
  <2>1. ASSUME NEW d \in DOMAIN delayed, DelayExpires(d) PROVE Queues(e) => Queues(e)'
    BY <2>1, DelayExpiresTyped DEF Queues
  <2>2. ASSUME NEW c \in ReceiptEvents, Enqueue(c) PROVE Queues(e) => Queues(e)'
    <3>1. delayed' = delayed /\ DOMAIN results \subseteq DOMAIN results'
      BY <2>2, EnqueueTyped DEF Enqueue
    <3> QED BY <3>1 DEF Queues
  <2>3. CASE UNCHANGED resultVars
    BY <2>3 DEF resultVars, resultQueues, Queues
  <2> QED BY <2>1, <2>2, <2>3
<1>4. Waiting(e) => Waiting(e)'
  BY <1>2, <1>3 DEF Waiting, Queues
<1> QED BY <1>1, <1>2, <1>4 DEF Safe

LEMMA ResultStepSafe ==
  ASSUME ResultInv, CommittedRecorded, [ResultNext]_resultVars, NEW e
  PROVE  Safe(e) => Safe(e)'
BY ReceiveSafe, WorkOnSafe, RouteSafe, LetGoSafe, StopSafe, BrokerSafe
   DEF ResultNext, CollectorNext, CollectorStep

LEMMA NoResultLostStep ==
  ASSUME ResultInv, CommittedRecorded, NoResultLost, [ResultNext]_resultVars
  PROVE  NoResultLost'
<1> SUFFICES ASSUME NEW e \in accepted' PROVE Safe(e)'
  BY DEF NoResultLost, Safe
<1>1. CASE e \in accepted
  BY <1>1, ResultStepSafe DEF NoResultLost, Safe
<1>2. ASSUME NEW c \in ReceiptEvents, Enqueue(c), e = c PROVE Safe(e)'
  <2>1. Attempt(c, 1) \in DOMAIN results' /\ Attempt(c, 1).event = c
    BY <1>2, EnqueueTyped DEF Attempt
  <2> QED BY <1>2, <2>1 DEF Safe, Waiting
<1>3. accepted' = accepted \/ \E c \in ReceiptEvents : Enqueue(c)
  BY DEF ResultNext, CollectorNext, CollectorStep, Receive, CheckRun, CommitRun,
         CommitPass, FailResult, RouteResult, AckResult, CollectorExit,
         CollectorCrash, CollectorCut, DelayExpires, resultVars
<1> QED BY <1>1, <1>2, <1>3 DEF Enqueue

(***************************************************************************)
(* No confirmed result event is lost, for every number of collectors and   *)
(* every limit: it is queued, delayed, held by a collector that still owns *)
(* the delivery, dead-lettered, or recorded with the completion its mode   *)
(* promises (handle_result_delivery: acknowledge only after the commit or  *)
(* a confirmed retry or dead letter).                                      *)
(***************************************************************************)
THEOREM ResultIsNotLost == ResultSpec => []NoResultLost
<1> DEFINE Inv == ResultInv /\ CommittedRecorded /\ NoResultLost
<1>1. ResultInit => Inv
  BY ResultInitTyped DEF ResultInit, CommittedRecorded, NoResultLost
<1>2. Inv /\ [ResultNext]_resultVars => Inv'
  BY ResultStepTyped, CommittedStep, NoResultLostStep
<1>3. Inv => NoResultLost
  OBVIOUS
<1> QED BY <1>1, <1>2, <1>3, PTL DEF ResultSpec

-----------------------------------------------------------------------------
(* Everything the collector holds, parks or applies came from a confirmed  *)
(* event, and a completed reprocess from an application.                   *)

OnlyAccepted ==
  /\ \A d \in DOMAIN results \cup DOMAIN delayed : d.event \in accepted
  /\ \A k \in Collector : step[k] # "idle" => held[k].event \in accepted
  /\ deadResults \subseteq accepted

AppliedAccepted ==
  /\ \A a \in DOMAIN applied :
        \E e \in accepted : e.part = 0 /\ e.run = a[1] /\ e.request = a[2]
  /\ \A r \in reprocessDone : \E a \in DOMAIN applied : a[2] = r

LEMMA AcceptedGrows ==
  ASSUME [ResultNext]_resultVars PROVE accepted \subseteq accepted'
BY DEF ResultNext, CollectorNext, CollectorStep, Receive, CheckRun, CommitRun,
       CommitPass, FailResult, RouteResult, AckResult, CollectorExit,
       CollectorCrash, CollectorCut, DelayExpires, Enqueue, resultVars

LEMMA OnlyAcceptedStep ==
  ASSUME ResultInv, OnlyAccepted, [ResultNext]_resultVars PROVE OnlyAccepted'
<1>0. accepted \subseteq accepted'
  BY AcceptedGrows
<1>1. ASSUME NEW k \in Collector, NEW d \in DOMAIN results, Receive(k, d)
      PROVE  OnlyAccepted'
  <2>1. /\ held' = [held EXCEPT ![k] = d] /\ step' = [step EXCEPT ![k] = "received"]
        /\ delayed' = delayed /\ deadResults' = deadResults /\ accepted' = accepted
        /\ DOMAIN results' \subseteq DOMAIN results
    BY <1>1, ReceiveTyped DEF Receive
  <2> QED BY <2>1 DEF OnlyAccepted, ResultInv, ResultTypeOK
<1>2. ASSUME NEW k \in Collector,
             CheckRun(k) \/ CommitRun(k) \/ CommitPass(k) \/ FailResult(k)
      PROVE  OnlyAccepted'
  <2>1. /\ step[k] # "idle" /\ \A j \in Collector : step'[j] # "idle" => step[j] # "idle"
        /\ UNCHANGED <<results, delayed, deadResults, accepted, held>>
    BY <1>2 DEF CheckRun, CommitRun, CommitPass, FailResult, Goto, resultQueues,
                ResultInv, ResultTypeOK
  <2> QED BY <2>1 DEF OnlyAccepted
<1>3. ASSUME NEW k \in Collector, RouteResult(k) PROVE OnlyAccepted'
  <2>1. /\ step[k] # "idle" /\ \A j \in Collector : step'[j] # "idle" => step[j] # "idle"
        /\ UNCHANGED <<results, accepted, held>>
        /\ \A d \in DOMAIN delayed' : d \in DOMAIN delayed \/ d.event = held[k].event
        /\ deadResults' \subseteq deadResults \cup {held[k].event}
    BY <1>3, RouteResultTyped DEF RouteResult, Goto, ResultInv, ResultTypeOK
  <2> QED BY <2>1 DEF OnlyAccepted
<1>4. ASSUME NEW k \in Collector,
             AckResult(k) \/ CollectorExit(k) \/ CollectorCrash(k) \/ CollectorCut(k)
      PROVE  OnlyAccepted'
  <2>1. /\ step[k] # "idle" /\ accepted' = accepted
        /\ \A j \in Collector : step'[j] # "idle" => step[j] # "idle" /\ held'[j] = held[j]
    BY <1>4 DEF AckResult, CollectorExit, CollectorCrash, CollectorCut, Forget,
                ResultInv, ResultTypeOK
  <2>2. /\ delayed' = delayed
        /\ \A d \in DOMAIN results' : d \in DOMAIN results \/ d.event = held[k].event
        /\ deadResults' \subseteq deadResults \cup {held[k].event}
    <3>1. CASE AckResult(k) \/ CollectorExit(k)
      BY <3>1 DEF AckResult, CollectorExit, resultQueues
    <3>2. CASE CollectorCrash(k) \/ CollectorCut(k)
      BY <3>2, CollectorStopTyped
    <3> QED BY <1>4, <3>1, <3>2
  <2> QED BY <2>1, <2>2 DEF OnlyAccepted
<1>5. ASSUME NEW d \in DOMAIN delayed, DelayExpires(d) PROVE OnlyAccepted'
  <2>1. /\ DOMAIN results' = DOMAIN results \cup {d}
        /\ DOMAIN delayed' \subseteq DOMAIN delayed
        /\ UNCHANGED <<step, held, deadResults, accepted>>
    BY <1>5, DelayExpiresTyped DEF DelayExpires, collectorVars
  <2> QED BY <2>1 DEF OnlyAccepted
<1>6. ASSUME NEW e \in ReceiptEvents, Enqueue(e) PROVE OnlyAccepted'
  <2>1. /\ DOMAIN results' = DOMAIN results \cup {Attempt(e, 1)}
        /\ accepted' = accepted \cup {e} /\ Attempt(e, 1).event = e
        /\ UNCHANGED <<delayed, deadResults, step, held>>
    BY <1>6, EnqueueTyped DEF Enqueue, Attempt, collectorVars
  <2> QED BY <2>1 DEF OnlyAccepted
<1>7. CASE UNCHANGED resultVars
  BY <1>7 DEF resultVars, resultQueues, collectorVars, OnlyAccepted
<1> QED BY <1>1, <1>2, <1>3, <1>4, <1>5, <1>6, <1>7
        DEF ResultNext, CollectorNext, CollectorStep

LEMMA AppliedAcceptedStep ==
  ASSUME ResultInv, OnlyAccepted, AppliedAccepted, [ResultNext]_resultVars
  PROVE  AppliedAccepted'
<1>0. accepted \subseteq accepted'
  BY AcceptedGrows
<1>1. ASSUME NEW k \in Collector, CommitRun(k) PROVE AppliedAccepted'
  <2> DEFINE e == held[k].event
  <2>1. e \in accepted /\ e.part = 0
    BY <1>1 DEF CommitRun, OnlyAccepted, ResultInv, CollectorOK
  <2>2. DOMAIN applied' = DOMAIN applied \cup {<<e.run, e.request>>}
    BY <1>1, CommitRunTyped
  <2>3. reprocessDone' \subseteq reprocessDone \cup {e.request}
    BY <1>1 DEF CommitRun, ApplyCacheOnly, ApplyReceipt
  <2>4. <<e.run, e.request>>[1] = e.run /\ <<e.run, e.request>>[2] = e.request
    OBVIOUS
  <2> HIDE DEF e
  <2> QED BY <1>0, <2>1, <2>2, <2>3, <2>4 DEF AppliedAccepted
<1>2. CASE UNCHANGED <<applied, reprocessDone>>
  BY <1>0, <1>2 DEF AppliedAccepted
<1>3. UNCHANGED <<applied, reprocessDone>> \/ \E k \in Collector : CommitRun(k)
  BY DEF ResultNext, CollectorNext, CollectorStep, Receive, CheckRun, CommitPass,
         FailResult, RouteResult, AckResult, CollectorExit, CollectorCrash,
         CollectorCut, DelayExpires, Enqueue, resultVars, database
<1> QED BY <1>1, <1>2, <1>3

(* The collector's whole invariant, for the modules that compose it.       *)
CollectorInv ==
  /\ ResultInv /\ ApplyInv /\ CommittedRecorded /\ NoResultLost
  /\ OnlyAccepted /\ AppliedAccepted

LEMMA CollectorInit == ResultInit => CollectorInv
<1> SUFFICES ASSUME ResultInit PROVE CollectorInv
  OBVIOUS
<1>1. DOMAIN results = {} /\ DOMAIN delayed = {} /\ DOMAIN applied = {}
  BY DEF ResultInit, EmptyBag, SetToBag
<1>2. OnlyAccepted /\ AppliedAccepted /\ CommittedRecorded /\ NoResultLost
  BY <1>1 DEF ResultInit, OnlyAccepted, AppliedAccepted, CommittedRecorded, NoResultLost
<1> QED BY <1>2, ResultInitTyped, ApplyInit DEF CollectorInv

LEMMA CollectorInvStep == CollectorInv /\ [ResultNext]_resultVars => CollectorInv'
<1> SUFFICES ASSUME CollectorInv, [ResultNext]_resultVars PROVE CollectorInv'
  OBVIOUS
<1> USE DEF CollectorInv
<1>1. ResultInv' /\ ApplyInv' /\ CommittedRecorded' /\ NoResultLost'
  BY ResultStepTyped, ApplyStep, CommittedStep, NoResultLostStep
<1>2. OnlyAccepted' /\ AppliedAccepted'
  BY OnlyAcceptedStep, AppliedAcceptedStep
<1> QED BY <1>1, <1>2

-----------------------------------------------------------------------------
(* The parts' steps.                                                       *)

LEMMA WorkerPart ==
  ASSUME [PipeNext]_pipeVars PROVE [Next]_vars
<1>1. CASE UNCHANGED pipeVars
  BY <1>1 DEF pipeVars
<1>2. ASSUME NEW w \in Worker, WorkerActs(w) PROVE Next
  BY <1>2 DEF WorkerActs, WorkerPublishes, WorkerStep, Next
<1>3. CASE Environment \/ CommandPublishes
  BY <1>3 DEF CommandPublishes, Next
<1>4. CASE CollectorNext /\ UNCHANGED vars
  BY <1>4
<1> QED BY <1>1, <1>2, <1>3, <1>4 DEF PipeNext, DeployedNext

(* What a worker or the command publishes is an event of an executed run.  *)
LEMMA PublishedEvent ==
  ASSUME TypeInv
  PROVE  /\ \A w \in Worker : PublishEvent(w) => NextEvent(w) \in ReceiptEvents
         /\ PublishCached => EventOf(cli.run, cli.sent, cli.request) \in ReceiptEvents
<1>1. ASSUME NEW w \in Worker, PublishEvent(w) PROVE NextEvent(w) \in ReceiptEvents
  <2>1. job[w].request \in Request /\ result[w] \in Nat \ {0} /\ sent[w] \in Parts
    BY <1>1 DEF TypeInv, TypeOK, WorkerOK, PublishEvent, Copy, RunIds, Parts
  <2> QED BY <2>1, EventPublished DEF NextEvent
<1>2. ASSUME PublishCached PROVE EventOf(cli.run, cli.sent, cli.request) \in ReceiptEvents
  <2>1. cli.request \in Request /\ cli.run \in Nat \ {0} /\ cli.sent \in Parts
    BY <1>2 DEF TypeInv, TypeOK, CliOK, PublishCached, RunIds, Parts
  <2> QED BY <2>1, EventPublished
<1> QED BY <1>1, <1>2

LEMMA CollectorPart ==
  ASSUME TypeInv, [PipeNext]_pipeVars PROVE [ResultNext]_resultVars
<1>1. CASE UNCHANGED resultVars
  BY <1>1
<1>2. ASSUME NEW w \in Worker, WorkerActs(w) PROVE [ResultNext]_resultVars
  <2>1. CASE WorkerPublishes(w)
    BY <2>1, PublishedEvent DEF WorkerPublishes, ResultNext
  <2> QED BY <1>1, <1>2, <2>1 DEF WorkerActs
<1>3. CASE CommandPublishes
  BY <1>3, PublishedEvent DEF CommandPublishes, ResultNext
<1>4. CASE CollectorNext
  BY <1>4 DEF ResultNext
<1> QED BY <1>1, <1>2, <1>3, <1>4 DEF PipeNext, DeployedNext, pipeVars

(* A confirmed publish_result is one step of both sides.                   *)
LEMMA QueueIsShared ==
  ASSUME accepted = confirmed, [PipeNext]_pipeVars PROVE accepted' = confirmed'
<1>1. ASSUME NEW w \in Worker, WorkerActs(w) PROVE accepted' = confirmed'
  <2>1. CASE WorkerPublishes(w)
    BY <2>1 DEF WorkerPublishes, PublishEvent, Enqueue
  <2>2. CASE LocalStep(w) /\ UNCHANGED resultVars
    BY <2>2 DEF LocalStep, Deliver, Lock, UseCache, ExecuteOcr, FailOcr, Finish,
                RejectEvent, Route, Ack, Abandon, resultVars
  <2> QED BY <1>1, <2>1, <2>2 DEF WorkerActs
<1>2. CASE CommandPublishes
  BY <1>2 DEF CommandPublishes, PublishCached, Enqueue
<1>3. CASE Environment /\ UNCHANGED resultVars
  BY <1>3 DEF Environment, Publish, StartCached, Crash, ConnectionLost, RetryExpires,
              EndCached, ReplaceSource, DropCache, resultVars
<1>4. CASE CollectorNext /\ UNCHANGED vars
  BY <1>4 DEF CollectorNext, CollectorStep, Receive, CheckRun, CommitRun, CommitPass,
              FailResult, RouteResult, AckResult, CollectorExit, CollectorCrash,
              CollectorCut, DelayExpires, vars
<1>5. CASE UNCHANGED pipeVars
  BY <1>5 DEF pipeVars, vars, resultVars
<1> QED BY <1>1, <1>2, <1>3, <1>4, <1>5 DEF PipeNext, DeployedNext

-----------------------------------------------------------------------------
PipeInv == FreshInv /\ NoWorkLost /\ CollectorInv /\ accepted = confirmed

LEMMA PipeInitInv == PipeInit => PipeInv
<1> SUFFICES ASSUME PipeInit PROVE PipeInv
  OBVIOUS
<1>1. FreshInv /\ NoWorkLost
  BY FreshInit DEF PipeInit, Init, NoWorkLost
<1>2. CollectorInv /\ accepted = confirmed
  BY CollectorInit DEF PipeInit, Init, ResultInit
<1> QED BY <1>1, <1>2 DEF PipeInv

LEMMA PipeInvStep == PipeInv /\ [PipeNext]_pipeVars => PipeInv'
<1> SUFFICES ASSUME PipeInv, [PipeNext]_pipeVars PROVE PipeInv'
  OBVIOUS
<1>1. [Next]_vars /\ [ResultNext]_resultVars
  BY WorkerPart, CollectorPart DEF PipeInv, FreshInv
<1>2. FreshInv' /\ NoWorkLost'
  BY <1>1, FreshStep, WorkStep DEF PipeInv, FreshInv
<1>3. CollectorInv' /\ accepted' = confirmed'
  BY <1>1, CollectorInvStep, QueueIsShared DEF PipeInv
<1> QED BY <1>2, <1>3 DEF PipeInv

(***************************************************************************)
(* A published request can be found at every moment, for every number of   *)
(* workers, collectors and passes and every limit: no hand-over between    *)
(* the work queue and the result queue loses it (handle_worker_delivery    *)
(* and handle_result_delivery: confirm first, acknowledge after).          *)
(***************************************************************************)
THEOREM RequestIsTraceable == PipeSpec => []Traceable
<1>1. PipeInv => Traceable
  <2> SUFFICES ASSUME PipeInv, NEW r \in Requested, ~Pending(r), r \notin dead
               PROVE  \E e \in RunEventsOf(r) :
                         Waiting(e) \/ e \in deadResults \/ Outcome(e)
    BY DEF Traceable
  <2>1. Delivered(r) /\ r \in Request
    BY DEF PipeInv, NoWorkLost, Requested, QueuedRequests
  <2>2. PICK n \in 1..Len(runs) : \A i \in Parts : EventOf(n, i, r) \in confirmed
    BY <2>1 DEF Delivered
  <2>3. EventOf(n, 0, r) \in RunEventsOf(r)
    <3>1. 0 \in Parts
      BY ContractAssumption DEF Parts
    <3> QED BY <2>2, <3>1 DEF PipeInv, RunEventsOf, EventOf
  <2> QED BY <2>3 DEF PipeInv, CollectorInv, NoResultLost, RunEventsOf
<1> QED BY <1>1, PipeInitInv, PipeInvStep, PTL DEF PipeSpec

(***************************************************************************)
(* A reprocess that demands fresh OCR is complete in the database only by  *)
(* a run executed after it was published, from the contents it names, for  *)
(* every number of workers and collectors (force_refresh in                *)
(* produce_result_messages through to completed_at in _persist_run).       *)
(***************************************************************************)
THEOREM CompletedIsFresh == PipeSpec => []CompletedByFreshRun
<1>1. PipeInv => CompletedByFreshRun
  <2> SUFFICES ASSUME PipeInv, NEW r \in reprocessDone, Fresh(r)
               PROVE  \E a \in DOMAIN applied :
                         /\ a[2] = r /\ a[1] > born[r]
                         /\ runs[a[1]].source = SourceOf[r]
    BY DEF CompletedByFreshRun
  <2>1. PICK a \in DOMAIN applied : a[2] = r
    BY DEF PipeInv, CollectorInv, AppliedAccepted
  <2>2. PICK e \in accepted : e.part = 0 /\ e.run = a[1] /\ e.request = r
    BY <2>1 DEF PipeInv, CollectorInv, AppliedAccepted
  <2> QED BY <2>1, <2>2 DEF PipeInv, FreshInv, FreshEvidence
<1> QED BY <1>1, PipeInitInv, PipeInvStep, PTL DEF PipeSpec

(***************************************************************************)
(* What a request records about a receipt was read from the contents it    *)
(* names, for every number of requests, sources filed under one path and   *)
(* replacements of the file, with cached re-extractions beside the workers *)
(* (cached_reprocess_events, produce_result_messages).                     *)
(***************************************************************************)
THEOREM RecordsWhatWasRead == PipeSpec => []ReadFromReceipt
<1>1. PipeInv => ReadFromReceipt
  BY DEF PipeInv, CollectorInv, AppliedAccepted, FreshInv, EvidenceRead, ReadFromReceipt
<1> QED BY <1>1, PipeInitInv, PipeInvStep, PTL DEF PipeSpec

-----------------------------------------------------------------------------
(* The pipeline implements ReceiptJob.                                     *)

(* What is recorded was asked for.                                         *)
LEMMA RecordedRequested == PipeInv => Recorded \subseteq Requested
BY DEF PipeInv, FreshInv, AskedFirst, Recorded, Requested, RunEventsOf

(* A step that parks nothing and accepts nothing can only add outcomes.    *)
LEMMA RecordingStep ==
  ASSUME PipeInv, PipeInv', DatabaseGrows, accepted \subseteq accepted',
         UNCHANGED <<Requested, Parked>>
  PROVE  PromisedJob!Next \/ UNCHANGED <<Requested, Recorded, Parked>>
<1> DEFINE R == Recorded' \ Recorded
<1>1. Recorded \subseteq Recorded'
  BY OutcomeStays DEF Recorded, RunEventsOf, Outcome, RequestCompleted, DatabaseGrows
<1>2. R \subseteq Requested /\ R \in SUBSET QueuedRequests
  <2>1. Recorded' \subseteq Requested'
    BY RecordedRequested DEF Recorded, Requested, RunEventsOf, PipeInv, FreshInv,
                             AskedFirst
  <2> QED BY <2>1 DEF Requested
<1>3. CASE R = {}
  BY <1>1, <1>3
<1>4. CASE R # {}
  <2>1. Recorded' = Recorded \cup R
    BY <1>1
  <2>2. PromisedJob!Record(R)
    BY <1>2, <1>4, <2>1 DEF PromisedJob!Record
  <2> QED BY <1>2, <2>2 DEF PromisedJob!Next
<1> QED BY <1>3, <1>4

(* A worker's step, a disturbance or a publication of a request changes    *)
(* no outcome: it accepts one request, parks one, or does neither.         *)
LEMMA WorkJobStep ==
  ASSUME PipeInv, UNCHANGED resultVars,
         Environment \/ \E w \in Worker : LocalStep(w)
  PROVE  PromisedJob!Next \/ UNCHANGED <<Requested, Recorded, Parked>>
<1>0. UNCHANGED Recorded /\ UNCHANGED <<accepted, deadResults>>
  BY DEF resultVars, resultQueues, database, Recorded, RunEventsOf, Outcome,
         RequestCompleted
<1>1. ASSUME dead' = dead, published' = published
      PROVE  UNCHANGED <<Requested, Parked>>
  BY <1>0, <1>1 DEF Requested, Parked, RunEventsOf
<1>2. ASSUME NEW r \in Request, dead' = dead \cup {r}, published' = published,
             published[r] > 0
      PROVE  PromisedJob!Next \/ UNCHANGED <<Requested, Recorded, Parked>>
  <2>1. UNCHANGED Requested
    BY <1>2 DEF Requested
  <2>2. CASE Queued(r)
    <3>1. r \in QueuedRequests /\ r \in Requested
      BY <1>2, <2>2 DEF QueuedRequests, Requested
    <3>2. Parked' = Parked \cup {r}
      BY <1>0, <1>2, <3>1 DEF Parked, RunEventsOf
    <3> QED BY <1>0, <2>1, <3>1, <3>2 DEF PromisedJob!Park, PromisedJob!Next
  <2>3. CASE ~Queued(r)
    <3>1. UNCHANGED Parked
      BY <1>0, <1>2, <2>3 DEF Parked, RunEventsOf, QueuedRequests
    <3> QED BY <1>0, <2>1, <3>1
  <2> QED BY <2>2, <2>3
<1>3. ASSUME NEW w \in Worker, Route(w) \/ Crash(w) \/ ConnectionLost(w)
      PROVE  PromisedJob!Next \/ UNCHANGED <<Requested, Recorded, Parked>>
  <2>1. job[w].request \in Request /\ published[job[w].request] > 0
    BY <1>3 DEF Route, Crash, ConnectionLost, PipeInv, FreshInv, AskedFirst, TypeInv,
                WorkerOK, Copy
  <2>2. /\ published' = published
        /\ dead' = dead \/ dead' = dead \cup {job[w].request}
    BY <1>3 DEF Route, Crash, ConnectionLost, Requeue, queueVars, inputVars
  <2> QED BY <1>0, <1>1, <1>2, <2>1, <2>2
<1>4. ASSUME NEW r \in Request, Publish(r) PROVE PromisedJob!Next
  <2>1. /\ r \in QueuedRequests /\ dead' = dead
        /\ published' = [published EXCEPT ![r] = @ + 1]
        /\ published \in [Request -> Nat]
    BY <1>4, DispatchAssumption
    DEF Publish, QueuedRequests, PipeInv, FreshInv, TypeInv, TypeOK
  <2>2. Requested' = Requested \cup {r}
    BY <2>1 DEF Requested, QueuedRequests
  <2>3. UNCHANGED Parked
    BY <1>0, <2>1 DEF Parked, RunEventsOf
  <2> QED BY <1>0, <2>1, <2>2, <2>3 DEF PromisedJob!Accept, PromisedJob!Next
<1>5. ASSUME NEW r \in Request, StartCached(r)
      PROVE  UNCHANGED <<Requested, Recorded, Parked>>
  <2>1. /\ r \notin QueuedRequests /\ dead' = dead
        /\ published' = [published EXCEPT ![r] = @ + 1]
        /\ published \in [Request -> Nat]
    BY <1>5, DispatchAssumption
    DEF StartCached, Queued, QueuedRequests, queueVars, PipeInv, FreshInv, TypeInv,
        TypeOK
  <2>2. UNCHANGED Requested
    BY <2>1 DEF Requested, QueuedRequests
  <2>3. UNCHANGED Parked
    BY <1>0, <2>1 DEF Parked, RunEventsOf
  <2> QED BY <1>0, <2>2, <2>3
<1>6. ASSUME \/ \E c \in DOMAIN retry : RetryExpires(c)
             \/ EndCached \/ \E s \in Source : ReplaceSource(s)
             \/ \E p \in Path : DropCache(p)
      PROVE  dead' = dead /\ published' = published
  BY <1>6 DEF RetryExpires, EndCached, ReplaceSource, DropCache, queueVars, inputVars
<1>7. ASSUME NEW w \in Worker, LocalStep(w), ~Route(w)
      PROVE  dead' = dead /\ published' = published
  BY <1>7 DEF LocalStep, Deliver, Lock, UseCache, ExecuteOcr, FailOcr, Finish,
              RejectEvent, Ack, Abandon, queueVars, inputVars
<1> QED BY <1>0, <1>1, <1>3, <1>4, <1>5, <1>6, <1>7 DEF Environment

(* A confirmed result may carry an outcome the database already holds.     *)
LEMMA PublicationJobStep ==
  ASSUME PipeInv, PipeInv', UNCHANGED <<dead, published>>,
         NEW e \in ReceiptEvents, Enqueue(e)
  PROVE  PromisedJob!Next \/ UNCHANGED <<Requested, Recorded, Parked>>
<1>1. /\ accepted' = accepted \cup {e} /\ UNCHANGED deadResults
      /\ UNCHANGED <<events, imported, reprocessDone>>
  BY DEF Enqueue, database
<1>2. UNCHANGED Requested
  BY DEF Requested
<1>3. UNCHANGED Parked
  BY <1>1 DEF Parked, RunEventsOf, PipeInv, CollectorInv, OnlyAccepted
<1> QED BY <1>1, <1>2, <1>3, RecordingStep DEF DatabaseGrows

(* A collector's step makes an outcome durable, parks one event's request, *)
(* or does neither.                                                        *)
LEMMA CollectorJobStep ==
  ASSUME PipeInv, PipeInv', UNCHANGED vars, CollectorNext
  PROVE  PromisedJob!Next \/ UNCHANGED <<Requested, Recorded, Parked>>
<1>0. UNCHANGED Requested /\ UNCHANGED <<dead, accepted>>
  BY DEF vars, queueVars, inputVars, Requested, CollectorNext, CollectorStep, Receive,
         CheckRun, CommitRun, CommitPass, FailResult, RouteResult, AckResult,
         CollectorExit, CollectorCrash, CollectorCut, DelayExpires
<1>1. ASSUME deadResults' = deadResults
      PROVE  PromisedJob!Next \/ UNCHANGED <<Requested, Recorded, Parked>>
  <2>1. UNCHANGED Parked
    BY <1>0, <1>1 DEF Parked, RunEventsOf
  <2>2. DatabaseGrows
    BY StepGrowsDatabase DEF ResultNext
  <2> QED BY <1>0, <2>1, <2>2, RecordingStep
<1>2. ASSUME NEW k \in Collector, NEW e,
             RouteResult(k) \/ CollectorCrash(k) \/ CollectorCut(k),
             e = held[k].event, deadResults' = deadResults \cup {e}
      PROVE  PromisedJob!Next \/ UNCHANGED <<Requested, Recorded, Parked>>
  <2>1. UNCHANGED Recorded
    BY <1>0, <1>2 DEF RouteResult, CollectorCrash, CollectorCut, database, Recorded,
                      RunEventsOf, Outcome, RequestCompleted
  <2>2. e \in accepted
    BY <1>2 DEF RouteResult, CollectorCrash, CollectorCut, PipeInv, CollectorInv,
                OnlyAccepted
  <2>3. CASE e.part = 0 /\ e.request \in QueuedRequests
    <3>1. e.request \in Requested
      BY <2>2, <2>3 DEF PipeInv, FreshInv, AskedFirst, Requested
    <3>2. Parked' = Parked \cup {e.request}
      BY <1>0, <1>2, <2>2, <2>3 DEF Parked, RunEventsOf
    <3> QED BY <1>0, <2>1, <2>3, <3>1, <3>2 DEF PromisedJob!Park, PromisedJob!Next
  <2>4. CASE ~(e.part = 0 /\ e.request \in QueuedRequests)
    <3>1. UNCHANGED Parked
      BY <1>0, <1>2, <2>4 DEF Parked, RunEventsOf
    <3> QED BY <1>0, <2>1, <3>1
  <2> QED BY <2>3, <2>4
<1>3. ASSUME NEW k \in Collector, RouteResult(k) \/ CollectorCrash(k) \/ CollectorCut(k)
      PROVE  deadResults' = deadResults
             \/ deadResults' = deadResults \cup {held[k].event}
  BY <1>3 DEF RouteResult, CollectorCrash, CollectorCut, RequeueResult, resultQueues
<1>4. ASSUME \/ \E k \in Collector :
                  \/ \E d \in DOMAIN results : Receive(k, d)
                  \/ CheckRun(k) \/ CommitRun(k) \/ CommitPass(k) \/ FailResult(k)
                  \/ AckResult(k) \/ CollectorExit(k)
             \/ \E d \in DOMAIN delayed : DelayExpires(d)
      PROVE  deadResults' = deadResults
  BY <1>4 DEF Receive, CheckRun, CommitRun, CommitPass, FailResult, AckResult,
              CollectorExit, DelayExpires, resultQueues
<1>5. CASE \E k \in Collector : RouteResult(k) \/ CollectorCrash(k) \/ CollectorCut(k)
  BY <1>1, <1>2, <1>3, <1>5
<1> QED BY <1>1, <1>4, <1>5 DEF CollectorNext, CollectorStep

LEMMA JobStep ==
  PipeInv /\ PipeInv' /\ [PipeNext]_pipeVars
    => [PromisedJob!Next]_<<Requested, Recorded, Parked>>
<1> SUFFICES ASSUME PipeInv, PipeInv', [PipeNext]_pipeVars
             PROVE  PromisedJob!Next \/ UNCHANGED <<Requested, Recorded, Parked>>
  OBVIOUS
<1>1. ASSUME NEW w \in Worker, WorkerPublishes(w)
      PROVE  PromisedJob!Next \/ UNCHANGED <<Requested, Recorded, Parked>>
  <2>1. NextEvent(w) \in ReceiptEvents /\ UNCHANGED <<dead, published>>
    BY <1>1, PublishedEvent DEF WorkerPublishes, PublishEvent, queueVars, inputVars,
                                PipeInv, FreshInv
  <2> QED BY <1>1, <2>1, PublicationJobStep DEF WorkerPublishes
<1>2. CASE CommandPublishes
  <2>1. /\ EventOf(cli.run, cli.sent, cli.request) \in ReceiptEvents
        /\ UNCHANGED <<dead, published>>
    BY <1>2, PublishedEvent DEF CommandPublishes, PublishCached, queueVars, inputVars,
                                PipeInv, FreshInv
  <2> QED BY <1>2, <2>1, PublicationJobStep DEF CommandPublishes
<1>3. CASE UNCHANGED pipeVars
  BY <1>3 DEF pipeVars, vars, queueVars, inputVars, resultVars, resultQueues,
              database, Requested, Recorded, Parked, RunEventsOf, Outcome,
              RequestCompleted
<1> QED BY <1>1, <1>2, <1>3, WorkJobStep, CollectorJobStep
        DEF PipeNext, DeployedNext, WorkerActs

(***************************************************************************)
(* Workers, queues and collector implement ReceiptJob step by step: no     *)
(* step undoes an outcome or an operator's dead letter, records what       *)
(* nobody asked for, or does two of the three at once, for every number    *)
(* of processes and every limit (handle_worker_delivery and                *)
(* handle_result_delivery; that every request is settled in the end is     *)
(* the liveness half, which stays with the model checker).                 *)
(***************************************************************************)
THEOREM ImplementsJob == PipeSpec => PromisedJob!Spec
<1>1. PipeInit => PromisedJob!Init
  <2> SUFFICES ASSUME PipeInit PROVE PromisedJob!Init
    OBVIOUS
  <2>1. published = [r \in Request |-> 0] /\ accepted = {} /\ dead = {}
    BY DEF PipeInit, Init, ResultInit
  <2> QED BY <2>1 DEF PromisedJob!Init, Requested, Recorded, Parked, RunEventsOf,
                      QueuedRequests
<1> QED BY <1>1, PipeInitInv, PipeInvStep, JobStep, PTL
        DEF PipeSpec, PromisedJob!Spec, PromisedJob!jobVars

(* The deployed parts without the operator's command, and with the         *)
(* scheduling they need, are one of these pipelines.                       *)
THEOREM DeployedIsPipeline == PipeFairSpec => PipeSpec
<1>1. [DeployedNext]_pipeVars => [PipeNext]_pipeVars
  BY DEF PipeNext
<1> QED BY <1>1, PTL DEF PipeFairSpec, PipeSpec
=============================================================================
