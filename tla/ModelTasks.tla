----------------------------- MODULE ModelTasks -----------------------------
(***************************************************************************)
(* The two rounds in which language models review one receipt item         *)
(* (model_collaboration_queue.py).                                         *)
(*                                                                         *)
(* A coordinator writes one task per profile to PostgreSQL, publishes the  *)
(* task ids to the provider queues and waits for results or its deadline.  *)
(* Workers hold a session lock on a task while they run it, record the     *)
(* result, notify the coordinator and acknowledge.  The findings of the    *)
(* first round are the input of the second; the answers of both decide.    *)
(*                                                                         *)
(* A worker process may die, lose its broker connection or lose its        *)
(* database session at any step.  It runs the model in a thread: when the  *)
(* broker connection is lost the thread goes on, with the lock, and only   *)
(* after it has ended does the worker connect again.                       *)
(*                                                                         *)
(* Not modelled: the content of prompts and answers (a model answers or    *)
(* fails), the reply queue, which only wakes a coordinator     *)
(* that polls the table anyway, and its expiry a day later, and the checks  *)
(* of citations, arithmetic and agreement across families that can also    *)
(* leave an item in review.                                                *)
(***************************************************************************)
EXTENDS Integers, FiniteSets

CONSTANTS
    Profiles,        \* model profiles taking part
    Provider(_),     \* the provider of a profile
    Workers,         \* worker processes
    Serves(_),       \* the provider whose queue a worker consumes
    Faulty,          \* workers that may fail (bound)
    Nobody,          \* no worker
    MaxFaults        \* bound: crashes, lost connections and lost sessions

ASSUME ProfilesAssumption == IsFiniteSet(Profiles) /\ Profiles # {}
ASSUME WorkersAssumption == IsFiniteSet(Workers) /\ Nobody \notin Workers
ASSUME FaultsAssumption == MaxFaults \in Nat /\ Faulty \subseteq Workers

Stages == {"independent", "exchange"}
Tasks == Profiles \X Stages
TasksOf(s) == {t \in Tasks : t[2] = s}

\* attempts >= 2 ends a task that was interrupted twice.
RetryBudget == 2

Results == {"answered", "error"}

VARIABLES
    stage,      \* the round the coordinator is in
    pc,         \* what it is doing: adding, publishing, waiting, failed, decided
    stored,     \* tasks that have a row
    published,  \* tasks whose id was confirmed by the broker
    attempts,   \* attempts[t]: the counter in the row
    result,     \* result[t]: the result in the row, or "none"
    pooled,     \* pooled[t]: the result the coordinator used, "timeout" included
    decision,   \* none, recommended or review
    late,       \* stages whose deadline has passed
    queue,      \* queue[t]: number of messages ready on the provider queue
    worker,     \* worker[w]: step, task, outcome, and what it is connected to
    lock,       \* lock[t]: the worker whose session locks the task
    runs,       \* history: how often the model was called for a task
    orphaned,   \* history: tasks a delivery of which was skipped for a holder
                \* that had lost its broker connection
    faults      \* number of faults so far (bound)

coordinatorVars == <<stage, pc, published, pooled, decision>>
rowVars == <<stored, attempts, result>>
vars == <<coordinatorVars, rowVars, late, queue, worker, lock, runs, orphaned, faults>>

NoTask == <<Nobody, "none">>
Idle == [at |-> "idle", task |-> NoTask, out |-> "none",
         linked |-> TRUE, session |-> TRUE]

Init ==
    /\ stage = "independent"
    /\ pc = "adding"
    /\ stored = {}
    /\ published = {}
    /\ attempts = [t \in Tasks |-> 0]
    /\ result = [t \in Tasks |-> "none"]
    /\ pooled = [t \in Tasks |-> "none"]
    /\ decision = "none"
    /\ late = {}
    /\ queue = [t \in Tasks |-> 0]
    /\ worker = [w \in Workers |-> Idle]
    /\ lock = [t \in Tasks |-> Nobody]
    /\ runs = [t \in Tasks |-> 0]
    /\ orphaned = {}
    /\ faults = 0

-----------------------------------------------------------------------------
(* The coordinator: Dispatcher.round, called twice by collaborate_item.    *)

\* Store.add, for every task of the round before any is published.
Add(t) ==
    /\ pc = "adding"
    /\ t \in TasksOf(stage) \ stored
    /\ stored' = stored \cup {t}
    /\ pc' = IF TasksOf(stage) \subseteq stored' THEN "publishing" ELSE "adding"
    /\ UNCHANGED <<stage, published, pooled, decision, attempts, result,
                   late, queue, worker, lock, runs, orphaned, faults>>

\* notification to the provider queue, confirmed.
Publish(t) ==
    /\ pc = "publishing"
    /\ t \in TasksOf(stage) \ published
    /\ queue' = [queue EXCEPT ![t] = @ + 1]
    /\ published' = published \cup {t}
    /\ pc' = IF TasksOf(stage) \subseteq published' THEN "waiting" ELSE "publishing"
    /\ UNCHANGED <<stage, pooled, decision, rowVars, late, worker, lock,
                   runs, orphaned, faults>>

\* The round ends when every task has a result, or at its deadline.
AllAnswered == \A t \in TasksOf(stage) : result[t] # "none"
RoundAnswered == AllAnswered
RoundOver == AllAnswered \/ stage \in late

\* What round returns for a task: a task without a result is a TimeoutError.
Returned(t) == IF result[t] = "none" THEN "timeout" ELSE result[t]

\* End of the first round.  Its findings go into the tasks of the second, which
\* are written next.
EndIndependent ==
    /\ pc = "waiting" /\ stage = "independent" /\ RoundOver
    /\ pooled' = [t \in Tasks |-> IF t \in TasksOf(stage) THEN Returned(t) ELSE "none"]
    /\ stage' = "exchange"
    /\ pc' = "adding"
    /\ UNCHANGED <<published, decision, rowVars, late, queue, worker, lock, runs,
                   orphaned, faults>>

\* Whether reconcile may recommend the item.  collaborate_item hands it every
\* error and missing result of both rounds; any of them leaves the item in
\* review.  So may the answers themselves.
AgreedReviews(answer) == \A p \in Profiles : answer[<<p, "exchange">>] = "answered"
Complete(answer) == \A t \in Tasks : answer[t] = "answered"

\* End of the second round, and the decision.
EndExchange ==
    /\ pc = "waiting" /\ stage = "exchange" /\ RoundOver
    /\ pooled' = [t \in Tasks |-> IF t \in TasksOf(stage) THEN Returned(t) ELSE pooled[t]]
    /\ \E d \in {"recommended", "review"} :
         /\ d = "recommended" => Complete(pooled')
         /\ decision' = d
    /\ pc' = "decided"
    /\ UNCHANGED <<stage, published, rowVars, late, queue, worker, lock,
                   runs, orphaned, faults>>

\* The coordinator dies or a publication fails: the run ends with an error,
\* its tasks stay where they are.
CoordinatorFails ==
    /\ pc \in {"adding", "publishing", "waiting"}
    /\ faults < MaxFaults
    /\ faults' = faults + 1
    /\ pc' = "failed"
    /\ UNCHANGED <<stage, published, pooled, decision, rowVars, late,
                   queue, worker, lock, runs, orphaned>>

\* The deadline of the round passes.  That of an earlier round matters no more:
\* the round has ended with it or with a result for every task.
Expire ==
    /\ pc \in {"publishing", "waiting", "failed"}
    /\ stage \notin late
    /\ late' = late \cup {stage}
    /\ UNCHANGED <<coordinatorVars, rowVars, queue, worker, lock, runs, orphaned,
                   faults>>

-----------------------------------------------------------------------------
(* The workers: worker and Store.execute.                                  *)

Step(w, at) == worker' = [worker EXCEPT ![w].at = at]

\* One delivery at a time (prefetch_count 1).
Take(w, t) ==
    /\ worker[w].at = "idle"
    /\ Provider(t[1]) = Serves(w)
    /\ queue[t] > 0
    /\ queue' = [queue EXCEPT ![t] = @ - 1]
    /\ worker' = [worker EXCEPT ![w].at = "taken", ![w].task = t]
    /\ UNCHANGED <<coordinatorVars, rowVars, late, lock, runs, orphaned, faults>>

\* pg_try_advisory_lock succeeds.
LockIgnored(t) == TRUE
LockObtainable(t) == lock[t] = Nobody

\* An expired or exhausted task is not run.
Runnable(t) == t[2] \notin late /\ attempts[t] < RetryBudget

\* The lock is taken and the row read.  A task that has its result needs a
\* notification only, one that has no row is refused; else the attempt is
\* counted and the model called.  A fault between these statements leaves what
\* a fault before or after them leaves.
Claim(w) ==
    LET t == worker[w].task
    IN /\ worker[w].at = "taken" /\ worker[w].session
       /\ LockObtainable(t)
       /\ IF t \in stored /\ result[t] = "none"
          THEN /\ lock' = [lock EXCEPT ![t] = w]
               /\ attempts' = [attempts EXCEPT ![t] = @ + 1]
               /\ runs' = IF Runnable(t) THEN [runs EXCEPT ![t] = @ + 1] ELSE runs
               /\ worker' = IF Runnable(t) THEN [worker EXCEPT ![w].at = "running"]
                            ELSE [worker EXCEPT ![w].at = "ran", ![w].out = "error"]
          ELSE /\ worker' = IF t \in stored THEN [worker EXCEPT ![w].at = "replying"]
                            ELSE [worker EXCEPT ![w] = Idle]
               /\ UNCHANGED <<attempts, lock, runs>>
       /\ UNCHANGED <<coordinatorVars, stored, result, late, queue, orphaned, faults>>

\* Another session holds the lock: "the active holder will notify".
Skip(w) ==
    /\ worker[w].at = "taken" /\ worker[w].session
    /\ ~LockObtainable(worker[w].task)
    /\ Step(w, "skipped")
    /\ orphaned' = IF worker[lock[worker[w].task]].linked THEN orphaned
                   ELSE orphaned \cup {worker[w].task}
    /\ UNCHANGED <<coordinatorVars, rowVars, late, queue, lock, runs, faults>>

\* The model answers, or fails; an answer after the deadline is an error.
Finish(w) ==
    LET t == worker[w].task
    IN /\ worker[w].at = "running"
       /\ \E out \in Results :
            worker' = [worker EXCEPT ![w].at = "ran",
                          ![w].out = IF t[2] \in late THEN "error" ELSE out]
       /\ UNCHANGED <<coordinatorVars, rowVars, late, queue, lock, runs, orphaned,
                      faults>>

\* The result is written and the lock released.
Save(w) ==
    LET t == worker[w].task
    IN /\ worker[w].at = "ran" /\ worker[w].session
       /\ result' = [result EXCEPT ![t] = worker[w].out]
       /\ lock' = [lock EXCEPT ![t] = Nobody]
       /\ Step(w, "replying")
       /\ UNCHANGED <<coordinatorVars, stored, attempts, late, queue, runs, orphaned,
                      faults>>

\* The delivery is acknowledged, after the notification where one is due.
AckableEarly(w) == worker[w].at \in {"running", "replying", "skipped"}
Ackable(w) == worker[w].at \in {"replying", "skipped"}
Ack(w) ==
    /\ Ackable(w) /\ worker[w].linked
    /\ worker' = [worker EXCEPT ![w] = [Idle EXCEPT !.session = worker[w].session]]
    /\ UNCHANGED <<coordinatorVars, rowVars, late, queue, lock, runs, orphaned, faults>>

-----------------------------------------------------------------------------
(* Faults.                                                                 *)

Fault(w) ==
    /\ w \in Faulty /\ faults < MaxFaults
    /\ faults' = faults + 1

\* The broker returns what a lost connection had not acknowledged.
Requeued(w) ==
    IF worker[w].at # "idle" /\ worker[w].linked
    THEN [queue EXCEPT ![worker[w].task] = @ + 1] ELSE queue

Unlocked(w) == [t \in Tasks |-> IF lock[t] = w THEN Nobody ELSE lock[t]]

Crash(w) ==
    /\ worker[w].at # "idle"
    /\ Fault(w)
    /\ queue' = Requeued(w)
    /\ lock' = Unlocked(w)
    /\ worker' = [worker EXCEPT ![w] = Idle]
    /\ UNCHANGED <<coordinatorVars, rowVars, late, runs, orphaned>>

LoseLink(w) ==
    /\ worker[w].at # "idle" /\ worker[w].linked
    /\ Fault(w)
    /\ queue' = Requeued(w)
    /\ worker' = [worker EXCEPT ![w].linked = FALSE]
    /\ UNCHANGED <<coordinatorVars, rowVars, late, lock, runs, orphaned>>

LoseSession(w) ==
    /\ worker[w].at \in {"taken", "running", "ran"}
    /\ worker[w].session
    /\ Fault(w)
    /\ lock' = Unlocked(w)
    /\ worker' = [worker EXCEPT ![w].session = FALSE]
    /\ UNCHANGED <<coordinatorVars, rowVars, late, queue, runs, orphaned>>

\* consume_loop: the thread has ended, or a statement failed on a dead session.
\* The worker leaves what it had unacknowledged and connects again.
Reconnect(w) ==
    /\ \/ ~worker[w].linked /\ worker[w].at \in {"replying", "skipped"}
       \/ ~worker[w].session /\ worker[w].at \in {"taken", "ran"}
    /\ queue' = Requeued(w)
    /\ worker' = [worker EXCEPT ![w] = Idle]
    /\ UNCHANGED <<coordinatorVars, rowVars, late, lock, runs, orphaned, faults>>

-----------------------------------------------------------------------------
CoordinatorStep ==
    \/ \E t \in Tasks : Add(t) \/ Publish(t)
    \/ EndIndependent
    \/ EndExchange

WorkerStep(w) ==
    \/ \E t \in Tasks : Take(w, t)
    \/ Claim(w) \/ Skip(w) \/ Finish(w) \/ Save(w) \/ Ack(w)
    \/ Reconnect(w)

Next ==
    \/ CoordinatorStep
    \/ CoordinatorFails
    \/ Expire
    \/ \E w \in Workers :
        \/ WorkerStep(w)
        \/ Crash(w) \/ LoseLink(w) \/ LoseSession(w)

\* The coordinator polls every 0.2 s, workers consume without pause, and time
\* passes.
Fairness ==
    /\ WF_vars(CoordinatorStep)
    /\ WF_vars(Expire)
    /\ \A w \in Workers : WF_vars(WorkerStep(w))

Spec == Init /\ [][Next]_vars /\ Fairness

-----------------------------------------------------------------------------
(* Properties.                                                             *)

WorkerSteps == {"idle", "taken", "running", "ran", "replying", "skipped"}

TypeOK ==
    /\ stage \in Stages
    /\ pc \in {"adding", "publishing", "waiting", "failed", "decided"}
    /\ stored \subseteq Tasks
    /\ published \subseteq stored
    /\ attempts \in [Tasks -> Nat]
    /\ result \in [Tasks -> Results \cup {"none"}]
    /\ pooled \in [Tasks -> Results \cup {"none", "timeout"}]
    /\ decision \in {"none", "recommended", "review"}
    /\ late \subseteq Stages
    /\ queue \in [Tasks -> Nat]
    /\ worker \in [Workers -> [at : WorkerSteps, task : Tasks \cup {NoTask},
                               out : Results \cup {"none"},
                               linked : BOOLEAN, session : BOOLEAN]]
    /\ lock \in [Tasks -> Workers \cup {Nobody}]
    /\ runs \in [Tasks -> 0 .. RetryBudget]
    /\ orphaned \subseteq Tasks
    /\ faults \in 0 .. MaxFaults

Holds(w, t) == worker[w].task = t /\ worker[w].at # "idle"

\* A published task without a result will be worked on: its id is ready,
\* unacknowledged, or its holder still runs.  Crashes, lost connections and
\* lost sessions do not change that, except for the tasks orphaned by Skip.
TaskKept ==
    \A t \in published \ orphaned :
        result[t] = "none" =>
            \/ queue[t] > 0
            \/ \E w \in Workers : Holds(w, t) /\ worker[w].linked

\* A recorded result is final, whatever duplicate deliveries, orphaned threads
\* and dead sessions are still at work: "duplicate deliveries reuse committed
\* results".
ResultFinal ==
    [][\A t \in Tasks : result[t] # "none" => result'[t] = result[t]]_vars

\* docs/product-model-comparison.md: "late/missing workers become incomplete
\* results".  A recommendation rests on a recorded answer of every participant
\* in both rounds.
RecommendedOnAnswers ==
    decision = "recommended" => \A t \in Tasks : result[t] = "answered"

\* Whatever the workers do, both rounds end and the item is decided, unless
\* the coordinator itself fails.
Decides == <>(pc \in {"decided", "failed"})
=============================================================================
