----------------------------- MODULE Items_proofs -----------------------------
(***************************************************************************)
(* Theorems about the products of receipt items: the queue of model tasks, *)
(* for every set of profiles and workers and every number of crashes, lost *)
(* connections and lost sessions; the discovery of one product, for every  *)
(* team, whatever searches and models return; and the items themselves     *)
(* between imports, searches and people.                                   *)
(***************************************************************************)
EXTENDS ModelTasks, ItemDiscovery, ItemReview, FiniteSetTheorems, TLAPS

-----------------------------------------------------------------------------
(* The workers' states.                                                    *)

WorkerStates ==
  [at : WorkerSteps, task : Tasks \cup {NoTask}, out : Results \cup {"none"},
   linked : BOOLEAN, session : BOOLEAN]

(* A busy worker has a task, an idle one a connection; a result is ready   *)
(* before it is written and written before it is announced.                *)
WorkerOK ==
  \A w \in Workers :
     /\ worker[w].at # "idle" => worker[w].task \in Tasks
     /\ worker[w].at = "idle" => worker[w].linked
     /\ worker[w].at = "ran" => worker[w].out \in Results
     /\ worker[w].at = "replying" => result[worker[w].task] # "none"

(* Each call of the model is counted in the row.                           *)
RunsCounted == \A t \in Tasks : runs[t] <= attempts[t]

(* Every task of a round has its row before one is published.              *)
WrittenFirst == pc \in {"publishing", "waiting"} => TasksOf(stage) \subseteq stored

TypeInv == TypeOK /\ WorkerOK /\ RunsCounted /\ WrittenFirst

(* A session locks a task exactly while its worker runs the model for it   *)
(* or has yet to write the result.                                         *)
LockOK ==
  \A t \in Tasks, w \in Workers :
     lock[t] = w <=> /\ worker[w].task = t /\ worker[w].session
                     /\ worker[w].at \in {"running", "ran"}

(* Nobody runs a task that has its result.                                 *)
Unanswered == \A t \in Tasks : lock[t] # Nobody => result[t] = "none"

LockInv == LockOK /\ Unanswered

(* What TaskKept leaves out: a worker that skips a task or only announces  *)
(* its result does not keep it.                                            *)
WorkedOn(t) ==
  \/ queue[t] > 0
  \/ \E w \in Workers : /\ worker[w].task = t /\ worker[w].linked
                        /\ worker[w].at \in {"taken", "running", "ran"}

BeingWorkedOn ==
  \A t \in published \ orphaned : result[t] = "none" => WorkedOn(t)

(* What the coordinator used is what the rows say, a time-out apart.       *)
PooledIsResult == \A t \in Tasks : pooled[t] \in Results => result[t] = pooled[t]

ResultsFinal == \A t \in Tasks : result[t] # "none" => result'[t] = result[t]

-----------------------------------------------------------------------------
(* One worker's move, which leaves the others where they are.              *)
LEMMA WorkerMoves ==
  ASSUME TypeInv, NEW w \in Workers, NEW x \in WorkerStates,
         worker' = [worker EXCEPT ![w] = x], ResultsFinal,
         x.at # "idle" => x.task \in Tasks,
         x.at = "idle" => x.linked,
         x.at = "ran" => x.out \in Results,
         x.at = "replying" => result'[x.task] # "none"
  PROVE  /\ worker' \in [Workers -> WorkerStates] /\ WorkerOK'
         /\ worker'[w] = x
         /\ \A v \in Workers \ {w} : worker'[v] = worker[v]
<1>1. worker \in [Workers -> WorkerStates]
  BY DEF TypeInv, TypeOK, WorkerStates
<1>2. /\ worker' \in [Workers -> WorkerStates] /\ worker'[w] = x
      /\ \A v \in Workers \ {w} : worker'[v] = worker[v]
  BY <1>1
<1>3. WorkerOK'
  BY <1>2 DEF TypeInv, WorkerOK, ResultsFinal
<1> QED BY <1>2, <1>3

(* What the locks must do when one worker moves.                           *)
LEMMA LockMoves ==
  ASSUME LockOK, NEW w \in Workers, NEW x,
         worker'[w] = x, \A v \in Workers \ {w} : worker'[v] = worker[v],
         \A t \in Tasks, v \in Workers \ {w} : lock'[t] = v <=> lock[t] = v,
         \A t \in Tasks :
            lock'[t] = w <=> x.task = t /\ x.session /\ x.at \in {"running", "ran"}
  PROVE  LockOK'
BY DEF LockOK

(* A move that takes no worked-on task out of the queue or its worker's    *)
(* hands keeps every task.                                                 *)
LEMMA KeepsTasks ==
  ASSUME BeingWorkedOn, NEW w \in Workers,
         published' = published, orphaned \subseteq orphaned', ResultsFinal,
         published \subseteq Tasks, result' \in [Tasks -> Results \cup {"none"}],
         \A v \in Workers \ {w} : worker'[v] = worker[v],
         \A t \in Tasks : queue[t] > 0 /\ result'[t] = "none" => WorkedOn(t)',
         \A t \in Tasks \ orphaned' :
            /\ worker[w].task = t /\ worker[w].linked
            /\ worker[w].at \in {"taken", "running", "ran"} /\ result'[t] = "none"
            => WorkedOn(t)'
  PROVE  BeingWorkedOn'
<1> SUFFICES ASSUME NEW t \in published \ orphaned', result'[t] = "none"
             PROVE  WorkedOn(t)'
  BY DEF BeingWorkedOn
<1>1. t \in Tasks \ orphaned' /\ t \in published \ orphaned /\ result[t] = "none"
  BY DEF ResultsFinal
<1>2. CASE queue[t] > 0
  BY <1>1, <1>2
<1>3. ASSUME NEW v \in Workers, worker[v].task = t, worker[v].linked,
             worker[v].at \in {"taken", "running", "ran"}
      PROVE  WorkedOn(t)'
  BY <1>1, <1>3 DEF WorkedOn
<1> QED BY <1>1, <1>2, <1>3 DEF BeingWorkedOn, WorkedOn

(* The broker returns what a lost connection had not acknowledged.         *)
LEMMA RequeuedTask ==
  ASSUME TypeInv, NEW w \in Workers, queue' = Requeued(w)
  PROVE  /\ queue' \in [Tasks -> Nat] /\ \A t \in Tasks : queue[t] <= queue'[t]
         /\ worker[w].at # "idle" /\ worker[w].linked => queue'[worker[w].task] > 0
<1>1. queue \in [Tasks -> Nat] /\ (worker[w].at # "idle" => worker[w].task \in Tasks)
  BY DEF TypeInv, TypeOK, WorkerOK
<1> QED BY <1>1 DEF Requeued

(* A session that ends takes its locks with it.                            *)
LEMMA UnlockedTasks ==
  ASSUME TypeInv, NEW w \in Workers, lock' = Unlocked(w)
  PROVE  /\ lock' \in [Tasks -> Workers \cup {Nobody}]
         /\ \A t \in Tasks : lock'[t] # w /\ (lock'[t] # Nobody => lock'[t] = lock[t])
         /\ \A t \in Tasks, v \in Workers \ {w} : lock'[t] = v <=> lock[t] = v
<1>1. lock \in [Tasks -> Workers \cup {Nobody}]
  BY DEF TypeInv, TypeOK
<1> QED BY <1>1, WorkersAssumption DEF Unlocked

-----------------------------------------------------------------------------
(* Each step of a worker.                                                  *)
TaskInv == TypeInv /\ LockInv /\ BeingWorkedOn

LEMMA TakeStep ==
  ASSUME TaskInv, NEW w \in Workers, NEW t \in Tasks, Take(w, t)
  PROVE  TaskInv' /\ ResultsFinal
<1> DEFINE x == [worker[w] EXCEPT !.at = "taken", !.task = t]
<1> USE DEF TaskInv
<1>0. worker[w] \in WorkerStates /\ worker[w].linked /\ worker[w].at = "idle"
  BY DEF Take, TypeInv, TypeOK, WorkerOK, WorkerStates
<1>1. /\ x \in WorkerStates /\ x.at = "taken" /\ x.task = t /\ x.linked
      /\ x.session = worker[w].session
  BY <1>0 DEF WorkerStates, WorkerSteps
<1>2. worker' = [worker EXCEPT ![w] = x]
  BY DEF Take
<1> HIDE DEF x
<1>3. /\ queue[t] > 0 /\ queue' = [queue EXCEPT ![t] = @ - 1]
      /\ UNCHANGED <<coordinatorVars, rowVars, late, lock, runs, orphaned, faults>>
  BY DEF Take
<1>4. ResultsFinal
  BY <1>3 DEF ResultsFinal, rowVars
<1>5. /\ worker' \in [Workers -> WorkerStates] /\ WorkerOK' /\ worker'[w] = x
      /\ \A v \in Workers \ {w} : worker'[v] = worker[v]
  BY <1>1, <1>2, <1>4, WorkerMoves
<1>6. queue' \in [Tasks -> Nat] /\ \A u \in Tasks \ {t} : queue'[u] = queue[u]
  BY <1>3 DEF TypeInv, TypeOK
<1>7. TypeInv'
  BY <1>3, <1>5, <1>6
  DEF TypeInv, TypeOK, WorkerStates, RunsCounted, WrittenFirst, coordinatorVars, rowVars
<1>8. LockInv'
  <2>1. \A u \in Tasks : lock[u] # w
    BY <1>0 DEF LockInv, LockOK
  <2>2. LockOK'
    BY <1>1, <1>3, <1>5, <2>1, LockMoves DEF LockInv
  <2> QED BY <1>3, <2>2 DEF LockInv, Unanswered, rowVars
<1>9. BeingWorkedOn'
  <2>1. \A u \in Tasks : queue[u] > 0 => WorkedOn(u)'
    BY <1>1, <1>5, <1>6 DEF WorkedOn
  <2>2. /\ published' = published /\ orphaned' = orphaned /\ published \subseteq Tasks
        /\ result' \in [Tasks -> Results \cup {"none"}]
    BY <1>3 DEF coordinatorVars, rowVars, TypeInv, TypeOK
  <2> QED BY <1>0, <1>4, <1>5, <2>1, <2>2, KeepsTasks
<1> QED BY <1>4, <1>7, <1>8, <1>9

(* The lock is taken and the model called, or the delivery needs neither.  *)
LEMMA ClaimStep ==
  ASSUME TaskInv, NEW w \in Workers, Claim(w)
  PROVE  TaskInv' /\ ResultsFinal
<1> DEFINE t == worker[w].task
           x == worker'[w]
<1> USE DEF TaskInv
<1>0. /\ worker \in [Workers -> WorkerStates] /\ worker[w] \in WorkerStates
      /\ worker[w].at = "taken" /\ worker[w].session /\ t \in Tasks
      /\ lock[t] = Nobody
  BY DEF Claim, LockObtainable, TypeInv, TypeOK, WorkerOK, WorkerStates
<1>1. UNCHANGED <<coordinatorVars, stored, result, late, queue, orphaned, faults>>
  BY DEF Claim
<1>2. ResultsFinal
  BY <1>1 DEF ResultsFinal
<1>3. \A u \in Tasks : lock[u] # w
  BY <1>0 DEF LockInv, LockOK
<1>t. /\ published' = published /\ orphaned' = orphaned /\ published \subseteq Tasks
      /\ result' \in [Tasks -> Results \cup {"none"}]
  BY <1>1 DEF coordinatorVars, TypeInv, TypeOK
<1>4. CASE t \in stored /\ result[t] = "none"
  <2> DEFINE y == IF Runnable(t) THEN [worker[w] EXCEPT !.at = "running"]
                  ELSE [worker[w] EXCEPT !.at = "ran", !.out = "error"]
  <2>1. /\ lock' = [lock EXCEPT ![t] = w]
        /\ attempts' = [attempts EXCEPT ![t] = @ + 1]
        /\ runs' = IF Runnable(t) THEN [runs EXCEPT ![t] = @ + 1] ELSE runs
        /\ worker' = [worker EXCEPT ![w] = y]
    BY <1>4 DEF Claim
  <2>2. /\ y \in WorkerStates /\ y.at \in {"running", "ran"} /\ y.task = t
        /\ y.linked = worker[w].linked /\ y.session
        /\ y.at = "ran" => y.out \in Results
    BY <1>0 DEF WorkerStates, WorkerSteps, Results
  <2> HIDE DEF y
  <2>3. /\ worker' \in [Workers -> WorkerStates] /\ WorkerOK' /\ worker'[w] = y
        /\ \A v \in Workers \ {w} : worker'[v] = worker[v]
    BY <1>0, <1>2, <2>1, <2>2, WorkerMoves
  <2>4. /\ attempts' \in [Tasks -> Nat] /\ runs' \in [Tasks -> 0 .. RetryBudget]
        /\ \A u \in Tasks : runs'[u] <= attempts'[u]
    BY <1>0, <2>1 DEF TypeInv, TypeOK, RunsCounted, Runnable, RetryBudget
  <2>5. lock' \in [Tasks -> Workers \cup {Nobody}]
    BY <2>1 DEF TypeInv, TypeOK
  <2>6. TypeInv'
    BY <1>1, <2>3, <2>4, <2>5
    DEF TypeInv, TypeOK, WorkerStates, RunsCounted, WrittenFirst, coordinatorVars
  <2>7. LockInv'
    <3>1. /\ \A u \in Tasks, v \in Workers \ {w} : lock'[u] = v <=> lock[u] = v
          /\ \A u \in Tasks : lock'[u] = w <=> u = t
      BY <1>0, <1>3, <2>1, WorkersAssumption DEF TypeInv, TypeOK
    <3>2. LockOK'
      BY <2>2, <2>3, <3>1, LockMoves DEF LockInv
    <3>3. Unanswered'
      BY <1>1, <1>4, <2>1 DEF LockInv, Unanswered, TypeInv, TypeOK
    <3> QED BY <3>2, <3>3 DEF LockInv
  <2>8. BeingWorkedOn'
    <3>1. \A u \in Tasks : queue[u] > 0 => WorkedOn(u)'
      BY <1>1 DEF WorkedOn
    <3>2. \A u \in Tasks : worker[w].task = u /\ worker[w].linked => WorkedOn(u)'
      BY <2>2, <2>3 DEF WorkedOn
    <3> QED BY <1>2, <1>t, <2>3, <3>1, <3>2, KeepsTasks
  <2> QED BY <1>2, <2>6, <2>7, <2>8
<1>5. CASE ~(t \in stored /\ result[t] = "none")
  <2> DEFINE y == IF t \in stored THEN [worker[w] EXCEPT !.at = "replying"] ELSE Idle
  <2>1. worker' = [worker EXCEPT ![w] = y] /\ UNCHANGED <<attempts, lock, runs>>
    BY <1>5 DEF Claim
  <2>2. /\ y \in WorkerStates /\ y.at \in {"replying", "idle"}
        /\ y.at = "replying" => y.task = t /\ result[t] # "none"
        /\ y.at = "idle" => y.linked /\ t \notin stored
    BY <1>0, <1>5 DEF WorkerStates, WorkerSteps, Idle
  <2> HIDE DEF y
  <2>3. /\ worker' \in [Workers -> WorkerStates] /\ WorkerOK' /\ worker'[w] = y
        /\ \A v \in Workers \ {w} : worker'[v] = worker[v]
    BY <1>0, <1>1, <1>2, <2>1, <2>2, WorkerMoves
  <2>4. TypeInv'
    BY <1>1, <2>1, <2>3
    DEF TypeInv, TypeOK, WorkerStates, RunsCounted, WrittenFirst, coordinatorVars
  <2>5. LockOK'
    BY <1>3, <2>1, <2>2, <2>3, LockMoves DEF LockInv
  <2>6. LockInv'
    BY <1>1, <2>1, <2>5 DEF LockInv, Unanswered
  <2>7. BeingWorkedOn'
    <3> SUFFICES ASSUME NEW u \in published' \ orphaned', result'[u] = "none"
                 PROVE  WorkedOn(u)'
      BY DEF BeingWorkedOn
    <3>1. u # t
      BY <1>1, <1>5, <1>t DEF TypeInv, TypeOK
    <3>2. WorkedOn(u)
      BY <1>1, <1>t DEF BeingWorkedOn
    <3> QED BY <1>1, <2>3, <3>1, <3>2 DEF WorkedOn
  <2> QED BY <1>2, <2>4, <2>6, <2>7
<1> QED BY <1>4, <1>5

(* "The active holder will notify": the holder keeps the task if it still  *)
(* has its own delivery; if not, the task is counted as orphaned.          *)
LEMMA SkipStep ==
  ASSUME TaskInv, NEW w \in Workers, Skip(w)
  PROVE  TaskInv' /\ ResultsFinal
<1> DEFINE t == worker[w].task
           x == [worker[w] EXCEPT !.at = "skipped"]
           u == lock[t]
<1> USE DEF TaskInv
<1>0. /\ worker[w] \in WorkerStates /\ worker[w].at = "taken" /\ t \in Tasks
      /\ u \in Workers
  BY DEF Skip, LockObtainable, TypeInv, TypeOK, WorkerOK, WorkerStates
<1>1. /\ x \in WorkerStates /\ x.at = "skipped" /\ x.task = t
  BY <1>0 DEF WorkerStates, WorkerSteps
<1>2. worker' = [worker EXCEPT ![w] = x]
  BY DEF Skip, Step
<1> HIDE DEF x
<1>3. /\ UNCHANGED <<coordinatorVars, rowVars, late, queue, lock, runs, faults>>
      /\ orphaned' = IF worker[u].linked THEN orphaned ELSE orphaned \cup {t}
  BY DEF Skip
<1>4. ResultsFinal
  BY <1>3 DEF ResultsFinal, rowVars
<1>5. /\ worker' \in [Workers -> WorkerStates] /\ WorkerOK' /\ worker'[w] = x
      /\ \A v \in Workers \ {w} : worker'[v] = worker[v]
  BY <1>0, <1>1, <1>2, <1>4, WorkerMoves
<1>6. TypeInv'
  BY <1>0, <1>3, <1>5
  DEF TypeInv, TypeOK, WorkerStates, RunsCounted, WrittenFirst, coordinatorVars, rowVars
<1>7. LockInv'
  <2>1. \A v \in Tasks : lock[v] # w
    BY <1>0 DEF LockInv, LockOK
  <2>2. LockOK'
    BY <1>1, <1>3, <1>5, <2>1, LockMoves DEF LockInv
  <2> QED BY <1>3, <2>2 DEF LockInv, Unanswered, rowVars
<1>8. BeingWorkedOn'
  <2>1. worker[u].task = t /\ worker[u].at \in {"running", "ran"} /\ u # w
    BY <1>0 DEF LockInv, LockOK
  <2>2. ASSUME NEW v \in Tasks, v = t, v \notin orphaned' PROVE WorkedOn(v)'
    BY <1>0, <1>3, <1>5, <2>1, <2>2 DEF WorkedOn
  <2>3. \A v \in Tasks : queue[v] > 0 => WorkedOn(v)'
    BY <1>3 DEF WorkedOn
  <2>4. /\ published' = published /\ orphaned \subseteq orphaned' /\ published \subseteq Tasks
        /\ result' \in [Tasks -> Results \cup {"none"}]
    BY <1>3 DEF coordinatorVars, rowVars, TypeInv, TypeOK
  <2> QED BY <1>4, <1>5, <2>2, <2>3, <2>4, KeepsTasks
<1> QED BY <1>4, <1>6, <1>7, <1>8

(* The model answers: the thread is done, the row not yet written.         *)
LEMMA FinishStep ==
  ASSUME TaskInv, NEW w \in Workers, Finish(w)
  PROVE  TaskInv' /\ ResultsFinal
<1> USE DEF TaskInv
<1>0. worker[w] \in WorkerStates /\ worker[w].at = "running"
  BY DEF Finish, TypeInv, TypeOK, WorkerStates
<1>1. PICK o \in Results :
         worker' = [worker EXCEPT ![w] = [worker[w] EXCEPT !.at = "ran", !.out = o]]
  BY DEF Finish, Results
<1> DEFINE x == [worker[w] EXCEPT !.at = "ran", !.out = o]
<1>2. /\ x \in WorkerStates /\ x.at = "ran" /\ x.out \in Results
      /\ x.task = worker[w].task /\ x.task \in Tasks
      /\ x.linked = worker[w].linked /\ x.session = worker[w].session
  BY <1>0 DEF WorkerStates, WorkerSteps, TypeInv, WorkerOK
<1>3. worker' = [worker EXCEPT ![w] = x]
  BY <1>1
<1> HIDE DEF x
<1>4. UNCHANGED <<coordinatorVars, rowVars, late, queue, lock, runs, orphaned, faults>>
  BY DEF Finish
<1>5. ResultsFinal
  BY <1>4 DEF ResultsFinal, rowVars
<1>6. /\ worker' \in [Workers -> WorkerStates] /\ WorkerOK' /\ worker'[w] = x
      /\ \A v \in Workers \ {w} : worker'[v] = worker[v]
  BY <1>2, <1>3, <1>5, WorkerMoves
<1>7. TypeInv'
  BY <1>4, <1>6
  DEF TypeInv, TypeOK, WorkerStates, RunsCounted, WrittenFirst, coordinatorVars, rowVars
<1>8. LockInv'
  <2>1. LockOK'
    BY <1>0, <1>2, <1>4, <1>6, LockMoves DEF LockInv, LockOK
  <2> QED BY <1>4, <2>1 DEF LockInv, Unanswered, rowVars
<1>9. BeingWorkedOn'
  BY <1>0, <1>2, <1>4, <1>6
  DEF BeingWorkedOn, WorkedOn, coordinatorVars, rowVars
<1> QED BY <1>5, <1>7, <1>8, <1>9

(* The result is written by the one session that holds the task's lock.    *)
LEMMA SaveStep ==
  ASSUME TaskInv, NEW w \in Workers, Save(w)
  PROVE  TaskInv' /\ ResultsFinal
<1> DEFINE x == [worker[w] EXCEPT !.at = "replying"]
<1> USE DEF TaskInv
<1>0. PICK t \in Tasks : t = worker[w].task
  BY DEF Save, TypeInv, WorkerOK
<1>1. /\ worker[w] \in WorkerStates /\ worker[w].at = "ran" /\ worker[w].session
      /\ worker[w].out \in Results /\ lock[t] = w
  BY <1>0 DEF Save, TypeInv, TypeOK, WorkerOK, WorkerStates, LockInv, LockOK
<1>2. /\ x \in WorkerStates /\ x.at = "replying" /\ x.task = t
  BY <1>0, <1>1 DEF WorkerStates, WorkerSteps
<1>3. worker' = [worker EXCEPT ![w] = x]
  BY DEF Save, Step
<1> HIDE DEF x
<1>4. /\ result' = [result EXCEPT ![t] = worker[w].out]
      /\ lock' = [lock EXCEPT ![t] = Nobody]
      /\ UNCHANGED <<coordinatorVars, stored, attempts, late, queue, runs, orphaned, faults>>
  BY <1>0 DEF Save
<1>5. /\ result' \in [Tasks -> Results \cup {"none"}] /\ result'[t] # "none"
      /\ \A u \in Tasks \ {t} : result'[u] = result[u]
  BY <1>1, <1>4 DEF TypeInv, TypeOK, Results
<1>6. ResultsFinal
  <2>1. result[t] = "none"
    BY <1>1, WorkersAssumption DEF LockInv, Unanswered
  <2> QED BY <1>5, <2>1 DEF ResultsFinal
<1>7. /\ worker' \in [Workers -> WorkerStates] /\ WorkerOK' /\ worker'[w] = x
      /\ \A v \in Workers \ {w} : worker'[v] = worker[v]
  BY <1>2, <1>3, <1>5, <1>6, WorkerMoves
<1>8. /\ lock' \in [Tasks -> Workers \cup {Nobody}] /\ lock'[t] = Nobody
      /\ \A u \in Tasks \ {t} : lock'[u] = lock[u]
  BY <1>4 DEF TypeInv, TypeOK
<1>9. TypeInv'
  BY <1>4, <1>5, <1>7, <1>8
  DEF TypeInv, TypeOK, WorkerStates, RunsCounted, WrittenFirst, coordinatorVars
<1>10. LockInv'
  <2>1. \A u \in Tasks : lock[u] = w => u = t
    BY <1>0 DEF LockInv, LockOK
  <2>2. /\ \A u \in Tasks : lock'[u] # w
        /\ \A u \in Tasks, v \in Workers \ {w} : lock'[u] = v <=> lock[u] = v
    BY <1>1, <1>8, <2>1, WorkersAssumption
  <2>3. LockOK'
    BY <1>2, <1>7, <2>2, LockMoves DEF LockInv
  <2> QED BY <1>5, <1>8, <2>3 DEF LockInv, Unanswered
<1>11. BeingWorkedOn'
  BY <1>0, <1>4, <1>5, <1>7, <1>9
  DEF BeingWorkedOn, WorkedOn, coordinatorVars, TypeInv, TypeOK
<1> QED BY <1>6, <1>9, <1>10, <1>11

(* The delivery is acknowledged, or left behind by a worker that connects  *)
(* again: by then its task has its result or another holder, or goes back. *)
LEMMA LetGoStep ==
  ASSUME TaskInv, NEW w \in Workers, Ack(w) \/ Reconnect(w)
  PROVE  TaskInv' /\ ResultsFinal
<1> USE DEF TaskInv
<1>0. worker[w] \in WorkerStates /\ worker[w].task \in Tasks
  BY DEF Ack, Ackable, Reconnect, TypeInv, TypeOK, WorkerOK, WorkerStates
<1>1. PICK x \in WorkerStates :
         x.at = "idle" /\ x.linked /\ worker' = [worker EXCEPT ![w] = x]
  <2>1. CASE Ack(w)
    <3> DEFINE y == [Idle EXCEPT !.session = worker[w].session]
    <3>1. y \in WorkerStates /\ y.at = "idle" /\ y.linked
      BY <1>0 DEF WorkerStates, WorkerSteps, Idle
    <3>2. worker' = [worker EXCEPT ![w] = y]
      BY <2>1 DEF Ack
    <3> HIDE DEF y
    <3> QED BY <3>1, <3>2
  <2>2. CASE Reconnect(w)
    <3>1. Idle \in WorkerStates /\ Idle.at = "idle" /\ Idle.linked
      BY DEF WorkerStates, WorkerSteps, Idle
    <3>2. worker' = [worker EXCEPT ![w] = Idle]
      BY <2>2 DEF Reconnect
    <3> QED BY <3>1, <3>2
  <2> QED BY <2>1, <2>2
<1>2. /\ UNCHANGED <<coordinatorVars, rowVars, late, lock, runs, orphaned, faults>>
      /\ (queue' = queue \/ queue' = Requeued(w))
      /\ worker[w].linked /\ worker[w].at \in {"taken", "running", "ran"}
            => queue' = Requeued(w)
      /\ worker[w].at \in {"running", "ran"} => ~worker[w].session
  BY DEF Ack, Ackable, Reconnect
<1>3. ResultsFinal
  BY <1>2 DEF ResultsFinal, rowVars
<1>4. /\ worker' \in [Workers -> WorkerStates] /\ WorkerOK' /\ worker'[w] = x
      /\ \A v \in Workers \ {w} : worker'[v] = worker[v]
  BY <1>1, <1>3, WorkerMoves
<1>5. queue' \in [Tasks -> Nat] /\ \A t \in Tasks : queue[t] > 0 => queue'[t] > 0
  BY <1>2, RequeuedTask DEF TypeInv, TypeOK
<1>6. TypeInv'
  BY <1>2, <1>4, <1>5
  DEF TypeInv, TypeOK, WorkerStates, RunsCounted, WrittenFirst, coordinatorVars, rowVars
<1>7. LockInv'
  <2>1. \A t \in Tasks : lock[t] # w
    BY <1>2 DEF LockInv, LockOK
  <2>2. LockOK'
    BY <1>1, <1>2, <1>4, <2>1, LockMoves DEF LockInv
  <2> QED BY <1>2, <2>2 DEF LockInv, Unanswered, rowVars
<1>8. BeingWorkedOn'
  <2>1. worker[w].linked /\ worker[w].at \in {"taken", "running", "ran"}
          => queue'[worker[w].task] > 0
    BY <1>2, RequeuedTask
  <2>2. /\ published' = published /\ orphaned' = orphaned /\ published \subseteq Tasks
        /\ result' \in [Tasks -> Results \cup {"none"}]
    BY <1>2 DEF coordinatorVars, rowVars, TypeInv, TypeOK
  <2> QED BY <1>3, <1>4, <1>5, <2>1, <2>2, KeepsTasks DEF WorkedOn
<1> QED BY <1>3, <1>6, <1>7, <1>8

(* A process dies, a broker connection or a database session is lost.      *)
LEMMA FaultStep ==
  ASSUME TaskInv, NEW w \in Workers, Crash(w) \/ LoseLink(w) \/ LoseSession(w)
  PROVE  TaskInv' /\ ResultsFinal
<1> USE DEF TaskInv
<1>0. /\ worker[w] \in WorkerStates /\ worker[w].task \in Tasks
      /\ worker[w].at # "idle"
  BY DEF Crash, LoseLink, LoseSession, TypeInv, TypeOK, WorkerOK, WorkerStates
<1>1. /\ faults' \in 0 .. MaxFaults
      /\ UNCHANGED <<coordinatorVars, rowVars, late, runs, orphaned>>
  BY FaultsAssumption DEF Crash, LoseLink, LoseSession, Fault, TypeInv, TypeOK
<1>2. ResultsFinal
  BY <1>1 DEF ResultsFinal, rowVars
<1>3. PICK x \in WorkerStates :
         /\ worker' = [worker EXCEPT ![w] = x]
         /\ \/ x = Idle
            \/ /\ x.at = worker[w].at /\ x.task = worker[w].task
               /\ x.out = worker[w].out
         /\ \/ lock' = lock /\ x.session = worker[w].session /\ x # Idle
            \/ lock' = Unlocked(w) /\ (x = Idle \/ ~x.session)
         /\ \/ queue' = Requeued(w)
            \/ queue' = queue /\ x # Idle /\ x.linked = worker[w].linked
  <2>0. Idle \in WorkerStates /\ Idle.at = "idle" /\ Idle.linked
    BY DEF WorkerStates, WorkerSteps, Idle
  <2>1. CASE Crash(w)
    BY <2>0, <2>1 DEF Crash
  <2>2. CASE LoseLink(w)
    <3> DEFINE y == [worker[w] EXCEPT !.linked = FALSE]
    <3>1. /\ y \in WorkerStates /\ y.at = worker[w].at /\ y.task = worker[w].task
          /\ y.out = worker[w].out /\ y.session = worker[w].session
      BY <1>0 DEF WorkerStates
    <3>2. /\ worker' = [worker EXCEPT ![w] = y] /\ lock' = lock
          /\ queue' = Requeued(w)
      BY <2>2 DEF LoseLink
    <3> HIDE DEF y
    <3> QED BY <1>0, <2>0, <3>1, <3>2
  <2>3. CASE LoseSession(w)
    <3> DEFINE y == [worker[w] EXCEPT !.session = FALSE]
    <3>1. /\ y \in WorkerStates /\ y.at = worker[w].at /\ y.task = worker[w].task
          /\ y.out = worker[w].out /\ ~y.session /\ y.linked = worker[w].linked
      BY <1>0 DEF WorkerStates
    <3>2. /\ worker' = [worker EXCEPT ![w] = y] /\ lock' = Unlocked(w)
          /\ queue' = queue
      BY <2>3 DEF LoseSession
    <3> HIDE DEF y
    <3> QED BY <1>0, <2>0, <3>1, <3>2
  <2> QED BY <2>1, <2>2, <2>3
<1>4. Idle.at = "idle" /\ Idle.linked
  BY DEF Idle
<1>5. /\ worker' \in [Workers -> WorkerStates] /\ WorkerOK' /\ worker'[w] = x
      /\ \A v \in Workers \ {w} : worker'[v] = worker[v]
  <2>1. worker[w].at = "replying" => result'[worker[w].task] # "none"
    BY <1>0, <1>1 DEF TypeInv, WorkerOK, rowVars
  <2>2. worker[w].at = "ran" => worker[w].out \in Results
    BY DEF TypeInv, WorkerOK
  <2> HIDE DEF Idle
  <2> QED BY <1>0, <1>2, <1>3, <1>4, <2>1, <2>2, WorkerMoves
<1>6. /\ queue' \in [Tasks -> Nat] /\ \A t \in Tasks : queue[t] > 0 => queue'[t] > 0
      /\ queue' = Requeued(w) /\ worker[w].linked => queue'[worker[w].task] > 0
  BY <1>0, <1>3, RequeuedTask DEF TypeInv, TypeOK
<1>7. lock' \in [Tasks -> Workers \cup {Nobody}]
  BY <1>3, UnlockedTasks DEF TypeInv, TypeOK
<1>8. TypeInv'
  BY <1>1, <1>5, <1>6, <1>7
  DEF TypeInv, TypeOK, WorkerStates, RunsCounted, WrittenFirst, coordinatorVars, rowVars
<1>9. LockInv'
  <2>1. CASE lock' = lock /\ x.session = worker[w].session /\ x # Idle
    <3>1. LockOK'
      BY <1>3, <1>5, <2>1, LockMoves DEF LockInv, LockOK
    <3> QED BY <1>1, <2>1, <3>1 DEF LockInv, Unanswered, rowVars
  <2>2. CASE lock' = Unlocked(w) /\ (x = Idle \/ ~x.session)
    <3>1. /\ \A t \in Tasks : lock'[t] # w /\ (lock'[t] # Nobody => lock'[t] = lock[t])
          /\ \A t \in Tasks, v \in Workers \ {w} : lock'[t] = v <=> lock[t] = v
      BY <2>2, UnlockedTasks
    <3>2. LockOK'
      BY <1>4, <1>5, <2>2, <3>1, LockMoves DEF LockInv
    <3> QED BY <1>1, <3>1, <3>2 DEF LockInv, Unanswered, rowVars
  <2> QED BY <1>3, <2>1, <2>2
<1>10. BeingWorkedOn'
  <2>1. /\ published' = published /\ orphaned' = orphaned /\ published \subseteq Tasks
        /\ result' \in [Tasks -> Results \cup {"none"}]
    BY <1>1 DEF coordinatorVars, rowVars, TypeInv, TypeOK
  <2>2. ASSUME NEW t \in Tasks, worker[w].task = t, worker[w].linked,
               worker[w].at \in {"taken", "running", "ran"}
        PROVE  WorkedOn(t)'
    <3>1. CASE queue' = Requeued(w)
      BY <1>6, <2>2, <3>1 DEF WorkedOn
    <3>2. CASE queue' = queue /\ x # Idle /\ x.linked = worker[w].linked
      BY <1>3, <1>5, <2>2, <3>2 DEF WorkedOn
    <3> QED BY <1>3, <3>1, <3>2
  <2>3. \A t \in Tasks : queue[t] > 0 => WorkedOn(t)'
    BY <1>6 DEF WorkedOn
  <2> QED BY <1>2, <1>5, <2>1, <2>2, <2>3, KeepsTasks
<1> QED BY <1>2, <1>8, <1>9, <1>10

-----------------------------------------------------------------------------
(* The coordinator adds rows, publishes ids and ends rounds; it takes back *)
(* neither a result nor a message.                                         *)
LEMMA CoordinatorKeeps ==
  ASSUME TaskInv, CoordinatorStep \/ CoordinatorFails \/ Expire
  PROVE  TaskInv' /\ ResultsFinal
<1> USE DEF TaskInv
<1>1. UNCHANGED <<attempts, result, worker, lock, runs, orphaned>>
  BY DEF CoordinatorStep, Add, Publish, EndIndependent, EndExchange,
         CoordinatorFails, Expire, coordinatorVars, rowVars
<1>2. ResultsFinal
  BY <1>1 DEF ResultsFinal
<1>3. LockInv' /\ WorkerOK' /\ RunsCounted'
  BY <1>1 DEF TypeInv, LockInv, LockOK, Unanswered, WorkerOK, RunsCounted
<1>4. ASSUME UNCHANGED <<published, queue>> PROVE BeingWorkedOn'
  BY <1>1, <1>4 DEF BeingWorkedOn, WorkedOn
<1>5. ASSUME NEW t \in Tasks, Add(t) PROVE TypeOK' /\ WrittenFirst' /\ BeingWorkedOn'
  <2>1. TypeOK'
    BY <1>1, <1>5 DEF Add, TypeInv, TypeOK
  <2>2. WrittenFirst'
    BY <1>5 DEF Add, WrittenFirst
  <2> QED BY <1>4, <1>5, <2>1, <2>2 DEF Add
<1>6. ASSUME NEW t \in Tasks, Publish(t) PROVE TypeOK' /\ WrittenFirst' /\ BeingWorkedOn'
  <2>1. t \in stored /\ stored' = stored /\ stage' = stage
    BY <1>6 DEF Publish, TypeInv, WrittenFirst, rowVars
  <2>2. /\ queue' \in [Tasks -> Nat] /\ queue'[t] > 0
        /\ \A u \in Tasks : queue[u] <= queue'[u]
    BY <1>6 DEF Publish, TypeInv, TypeOK
  <2>3. TypeOK'
    BY <1>1, <1>6, <2>1, <2>2 DEF Publish, TypeInv, TypeOK
  <2>4. WrittenFirst'
    BY <1>6, <2>1 DEF Publish, TypeInv, WrittenFirst
  <2>5. BeingWorkedOn'
    <3>1. published' = published \cup {t} /\ published \subseteq Tasks
      BY <1>6 DEF Publish, TypeInv, TypeOK
    <3>2. queue \in [Tasks -> Nat]
      BY DEF TypeInv, TypeOK
    <3> QED BY <1>1, <2>2, <3>1, <3>2 DEF BeingWorkedOn, WorkedOn
  <2> QED BY <2>3, <2>4, <2>5
<1>7. ASSUME EndIndependent PROVE TypeOK' /\ WrittenFirst' /\ BeingWorkedOn'
  <2>1. pooled' \in [Tasks -> Results \cup {"none", "timeout"}]
    BY <1>7 DEF EndIndependent, Returned, TypeInv, TypeOK
  <2>2. TypeOK'
    BY <1>1, <1>7, <2>1 DEF EndIndependent, Stages, TypeInv, TypeOK, rowVars
  <2> QED BY <1>4, <1>7, <2>2 DEF EndIndependent, WrittenFirst
<1>8. ASSUME EndExchange PROVE TypeOK' /\ WrittenFirst' /\ BeingWorkedOn'
  <2>1. pooled' \in [Tasks -> Results \cup {"none", "timeout"}]
    BY <1>8 DEF EndExchange, Returned, TypeInv, TypeOK
  <2>2. TypeOK'
    BY <1>1, <1>8, <2>1 DEF EndExchange, TypeInv, TypeOK, rowVars
  <2> QED BY <1>4, <1>8, <2>2 DEF EndExchange, WrittenFirst
<1>9. ASSUME CoordinatorFails \/ Expire PROVE TypeOK' /\ WrittenFirst' /\ BeingWorkedOn'
  <2>1. TypeOK'
    BY <1>1, <1>9, FaultsAssumption
    DEF CoordinatorFails, Expire, TypeInv, TypeOK, coordinatorVars, rowVars
  <2>2. WrittenFirst'
    BY <1>9 DEF CoordinatorFails, Expire, TypeInv, WrittenFirst, coordinatorVars, rowVars
  <2> QED BY <1>4, <1>9, <2>1, <2>2 DEF CoordinatorFails, Expire, coordinatorVars
<1> QED BY <1>2, <1>3, <1>5, <1>6, <1>7, <1>8, <1>9 DEF CoordinatorStep, TypeInv

-----------------------------------------------------------------------------
LEMMA TaskInit == Init => TaskInv
<1> SUFFICES ASSUME Init PROVE TaskInv
  OBVIOUS
<1>1. TypeOK
  BY FaultsAssumption DEF Init, TypeOK, Idle, WorkerSteps, Stages, RetryBudget
<1>2. WorkerOK /\ RunsCounted /\ WrittenFirst
  BY DEF Init, Idle, WorkerOK, RunsCounted, WrittenFirst
<1>3. LockInv /\ BeingWorkedOn
  BY WorkersAssumption DEF Init, Idle, LockInv, LockOK, Unanswered, BeingWorkedOn
<1> QED BY <1>1, <1>2, <1>3 DEF TaskInv, TypeInv

LEMMA TaskStep == TaskInv /\ [Next]_vars => TaskInv' /\ ResultsFinal
<1> SUFFICES ASSUME TaskInv, [Next]_vars PROVE TaskInv' /\ ResultsFinal
  OBVIOUS
<1>1. ASSUME NEW w \in Workers, WorkerStep(w) PROVE TaskInv' /\ ResultsFinal
  BY <1>1, TakeStep, ClaimStep, SkipStep, FinishStep, SaveStep, LetGoStep
  DEF WorkerStep
<1>2. CASE UNCHANGED vars
  <2>1. UNCHANGED <<stage, pc, published, pooled, decision, stored, attempts, result,
                    late, queue, worker, lock, runs, orphaned, faults>>
    BY <1>2 DEF vars, coordinatorVars, rowVars
  <2>2. TypeInv'
    BY <2>1 DEF TaskInv, TypeInv, TypeOK, WorkerOK, RunsCounted, WrittenFirst
  <2>3. LockInv' /\ BeingWorkedOn' /\ ResultsFinal
    BY <2>1 DEF TaskInv, LockInv, LockOK, Unanswered, BeingWorkedOn, WorkedOn,
                ResultsFinal
  <2> QED BY <2>2, <2>3 DEF TaskInv
<1> QED BY <1>1, <1>2, FaultStep, CoordinatorKeeps DEF Next

(***************************************************************************)
(* The queue's state keeps its type, and no model is called for a task     *)
(* more often than the retry budget allows (Store.execute).                *)
(***************************************************************************)
THEOREM TasksTypeCorrect == Spec => []TypeOK
<1>1. TaskInv => TypeOK
  BY DEF TaskInv, TypeInv
<1> QED BY <1>1, TaskInit, TaskStep, PTL DEF Spec

(***************************************************************************)
(* A published task without a result will be worked on, for every number   *)
(* of workers and faults, except for the tasks orphaned by Skip (prefetch  *)
(* one, acknowledgement last, requeue on a lost connection: worker and     *)
(* Store.execute).                                                         *)
(***************************************************************************)
THEOREM TaskIsKept == Spec => []TaskKept
<1>1. TaskInv => TaskKept
  BY DEF TaskInv, TypeInv, TypeOK, BeingWorkedOn, WorkedOn, TaskKept, Holds
<1> QED BY <1>1, TaskInit, TaskStep, PTL DEF Spec

(***************************************************************************)
(* A recorded result is final, whatever duplicate deliveries, orphaned     *)
(* threads and dead sessions are still at work (Store.execute: the result  *)
(* is read and written under the task's session lock).                     *)
(***************************************************************************)
THEOREM ResultIsFinal == Spec => ResultFinal
<1>1. TaskInv /\ [Next]_vars
        => [\A t \in Tasks : result[t] # "none" => result'[t] = result[t]]_vars
  BY TaskStep DEF ResultsFinal
<1> QED BY <1>1, TaskInit, TaskStep, PTL DEF Spec, ResultFinal

-----------------------------------------------------------------------------
(* What the decision rests on.                                             *)
DecisionInv == TaskInv /\ PooledIsResult /\ RecommendedOnAnswers

LEMMA DecisionStep == DecisionInv /\ [Next]_vars => DecisionInv'
<1> SUFFICES ASSUME DecisionInv, [Next]_vars PROVE DecisionInv'
  OBVIOUS
<1> USE DEF DecisionInv
<1>1. TaskInv' /\ ResultsFinal
  BY TaskStep
<1>2. /\ pooled \in [Tasks -> Results \cup {"none", "timeout"}]
      /\ result \in [Tasks -> Results \cup {"none"}]
  BY DEF TaskInv, TypeInv, TypeOK
<1>3. CASE UNCHANGED <<pooled, decision>>
  BY <1>1, <1>2, <1>3
  DEF PooledIsResult, RecommendedOnAnswers, ResultsFinal, Results
<1>4. CASE EndIndependent
  <2>1. /\ decision' = decision /\ result' = result
        /\ pooled' = [t \in Tasks |->
                        IF t \in TasksOf(stage) THEN Returned(t) ELSE "none"]
    BY <1>4 DEF EndIndependent, rowVars
  <2> QED BY <1>1, <2>1 DEF PooledIsResult, RecommendedOnAnswers, Returned, Results
<1>5. CASE EndExchange
  <2>1. /\ result' = result
        /\ pooled' = [t \in Tasks |->
                        IF t \in TasksOf(stage) THEN Returned(t) ELSE pooled[t]]
        /\ decision' = "recommended" => \A t \in Tasks : pooled'[t] = "answered"
    BY <1>5 DEF EndExchange, Complete, rowVars
  <2>2. PooledIsResult'
    BY <2>1 DEF PooledIsResult, Returned, Results
  <2>3. RecommendedOnAnswers'
    BY <2>1, <2>2 DEF PooledIsResult, RecommendedOnAnswers, Results
  <2> QED BY <1>1, <2>2, <2>3
<1>6. \/ UNCHANGED <<pooled, decision>> \/ EndIndependent \/ EndExchange
  BY DEF Next, CoordinatorStep, Add, Publish, CoordinatorFails, Expire, WorkerStep,
         Take, Claim, Skip, Finish, Save, Ack, Reconnect, Crash, LoseLink,
         LoseSession, vars, coordinatorVars
<1> QED BY <1>3, <1>4, <1>5, <1>6

(***************************************************************************)
(* A recommendation rests on a recorded answer of every participant in     *)
(* both rounds, however late results and results of an earlier round       *)
(* arrive (Dispatcher.round, reconcile).                                   *)
(***************************************************************************)
THEOREM RecommendationRests == Spec => []RecommendedOnAnswers
<1>1. Init => PooledIsResult /\ RecommendedOnAnswers
  BY DEF Init, PooledIsResult, RecommendedOnAnswers, Results
<1>2. DecisionInv => RecommendedOnAnswers
  BY DEF DecisionInv
<1>3. Init => DecisionInv
  BY <1>1, TaskInit DEF DecisionInv
<1> QED BY <1>2, <1>3, DecisionStep, PTL DEF Spec

-----------------------------------------------------------------------------
(* The discovery of a product for one item.                                *)

Positive == Nat \ {0}
Saved == {"none", "uncited", "search again", "searched"}
Turns == [who : Positive, reading : Int, attempt : Int, saved : Saved, readings : Int]
Given == [profile : {team[k] : k \in Nat \ {0}}, ok : BOOLEAN, choice : Hits \cup {NoHit}]

(* Profiles review one after the other, when all searches are over.        *)
ReviewsOK ==
  /\ reviews \in Seq(Given)
  /\ doing \notin {"review", "decided"} => reviews = <<>>
  /\ doing = "review" => Len(reviews) = turn.who - 1

DiscoveryInv ==
  /\ pool \subseteq Hits
  /\ turn \in Turns
  /\ ReviewsOK
  /\ doing # "decided" => verdict = "none"
  /\ RecommendedOnEvidence

LEMMA FirstTurnIsTurn == FirstTurn \in Turns /\ FirstTurn.who = 1
BY DEF FirstTurn, Turns, Positive, Saved

(* A turn with one of its parts changed is a turn.                         *)
LEMMA TurnChanges ==
  ASSUME NEW t \in Turns
  PROVE  /\ t.who \in Positive /\ t.reading \in Int
         /\ \A n \in {1, 2} : [t EXCEPT !.reading = n] \in Turns /\ [t EXCEPT !.reading = n].who = t.who
         /\ \A n \in {1, 2} : [t EXCEPT !.attempt = n] \in Turns /\ [t EXCEPT !.attempt = n].who = t.who
         /\ \A n \in {1, 2} : [t EXCEPT !.readings = n] \in Turns /\ [t EXCEPT !.readings = n].who = t.who
         /\ \A x \in Saved : [t EXCEPT !.saved = x] \in Turns /\ [t EXCEPT !.saved = x].who = t.who
         /\ \A n \in Positive : [t EXCEPT !.who = n] \in Turns /\ [t EXCEPT !.who = n].who = n
         /\ [t EXCEPT !.who = t.who + 1] \in Turns /\ [t EXCEPT !.who = t.who + 1].who = t.who + 1
         /\ [t EXCEPT !.reading = t.reading + 1] \in Turns
<1>1. t.who \in Positive /\ t.reading \in Int
  BY DEF Turns
<1>2. t.who + 1 \in Positive /\ t.reading + 1 \in Int
  BY <1>1 DEF Positive
<1> HIDE DEF Positive, Saved
<1>3. ASSUME NEW n \in Int
      PROVE  /\ [t EXCEPT !.reading = n] \in Turns /\ [t EXCEPT !.reading = n].who = t.who
             /\ [t EXCEPT !.attempt = n] \in Turns /\ [t EXCEPT !.attempt = n].who = t.who
             /\ [t EXCEPT !.readings = n] \in Turns /\ [t EXCEPT !.readings = n].who = t.who
  BY DEF Turns
<1>4. ASSUME NEW x \in Saved
      PROVE  [t EXCEPT !.saved = x] \in Turns /\ [t EXCEPT !.saved = x].who = t.who
  BY DEF Turns
<1>5. ASSUME NEW n \in Positive
      PROVE  [t EXCEPT !.who = n] \in Turns /\ [t EXCEPT !.who = n].who = n
  BY DEF Turns
<1> HIDE DEF Turns
<1>6. 1 \in Int /\ 2 \in Int
  OBVIOUS
<1> QED BY <1>1, <1>2, <1>3, <1>4, <1>5, <1>6, Zenon

(* What everyone chose is one hit, found by the searches, that the receipt *)
(* explains; and no other hit scores that it does not explain.             *)
LEMMA RecommendedHit ==
  ASSUME NEW errors, NEW families, NEW given \in Seq(Given), pool \subseteq Hits,
         Recommends(errors, given, families)
  PROVE  /\ \E h \in Candidates : \A k \in DOMAIN given : given[k].ok /\ given[k].choice = h
         /\ \A h \in pool : Confidence(h) >= Threshold => h.support /\ Unmatched(Resolved(h)) = {}
<1> DEFINE chosen == {given[k].choice : k \in DOMAIN given}
<1>1. Cardinality(chosen) = 1 /\ chosen \subseteq Candidates /\ \A k \in DOMAIN given : given[k].ok
  BY DEF Recommends
<1>2. IsFiniteSet(chosen)
  <2>1. DOMAIN given = 1 .. Len(given) /\ Len(given) \in Nat
    OBVIOUS
  <2>2. IsFiniteSet(DOMAIN given)
    BY <2>1, FS_Interval
  <2> DEFINE f == [k \in DOMAIN given |-> given[k].choice]
  <2>3. f \in Surjection(DOMAIN given, chosen)
    BY DEF Surjection
  <2> QED BY <2>2, <2>3, FS_Surjection
<1>3. \E h : chosen = {h}
  BY <1>1, <1>2, FS_Singleton
<1>4. pool \cap StrongHits \subseteq SelectableHits
  BY DEF Recommends, CompleteContext, Candidates
<1>5. \A h \in pool : Confidence(h) >= Threshold => h \in SelectableHits
  BY <1>4 DEF StrongHits
<1>6. \E h \in Candidates : \A k \in DOMAIN given : given[k].ok /\ given[k].choice = h
  <2>1. PICK h : chosen = {h}
    BY <1>3
  <2>2. h \in Candidates
    BY <1>1, <2>1
  <2>3. \A k \in DOMAIN given : given[k].choice = h
    <3>1. \A k \in DOMAIN given : given[k].choice \in chosen
      OBVIOUS
    <3> HIDE DEF chosen
    <3> QED BY <2>1, <3>1
  <2> QED BY <1>1, <2>2, <2>3
<1>7. \A h \in pool : Confidence(h) >= Threshold => h.support /\ Unmatched(Resolved(h)) = {}
  BY <1>5 DEF SelectableHits, VerifiedHits
<1> QED BY <1>6, <1>7

(* Failures are passed over only where the discovery makes up for them.    *)
LEMMA PassedOver ==
  ASSUME NEW errors, NEW given, NEW families, Recommends(Blocking(errors, given), given, families)
  PROVE  \A e \in errors :
            /\ e.stage = "expansion" /\ e.type = "truncated" /\ matched
            /\ \E k \in DOMAIN given : given[k].profile = e.profile
            /\ sought.arithmetic = "pass"
<1>1. Blocking(errors, given) = {}
  BY DEF Recommends
<1>2. CASE errors = {}
  BY <1>2
<1>3. CASE errors # {}
  <2>1. /\ matched /\ sought.arithmetic = "pass" /\ errors \ Recoverable(given) = {}
    BY <1>1, <1>3 DEF Blocking
  <2> QED BY <2>1 DEF Recoverable
<1> QED BY <1>2, <1>3

(* The step that decides.                                                  *)
LEMMA EndReviewStep ==
  ASSUME DiscoveryInv, doing = "review", NEW ok \in BOOLEAN, NEW choice \in Hits \cup {NoHit},
         EndReview(team[turn.who], ok, choice), UNCHANGED <<sought, team, pool, matched>>
  PROVE  DiscoveryInv'
<1> DEFINE p == team[turn.who]
           x == [profile |-> p, ok |-> ok, choice |-> choice]
           given == Append(reviews, x)
           alone == /\ turn.who = 1 /\ Qwen(p)
                    /\ Recommends(Blocking(failures, given), given, 1)
                    /\ sought.arithmetic = "pass" /\ ShownTo(p)
           errors == failures \cup {Failed("review", given[k].profile, "other") :
                                       k \in {j \in DOMAIN given : ~given[j].ok}}
           families == IF alone THEN 1 ELSE 2
<1>w. turn.who \in Nat \ {0} /\ turn \in Turns
  BY TurnChanges DEF DiscoveryInv, Positive
<1>1. given \in Seq(Given) /\ Len(given) = Len(reviews) + 1
  <2>1. x \in Given
    BY <1>w DEF Given
  <2>2. reviews \in Seq(Given)
    BY DEF DiscoveryInv, ReviewsOK
  <2> HIDE DEF x, Given
  <2> QED BY <2>1, <2>2
<1>2. Len(given) = turn.who
  BY <1>1, <1>w DEF DiscoveryInv, ReviewsOK
<1>3. /\ reviews' = given
      /\ IF alone \/ turn.who = Len(team)
         THEN /\ doing' = "decided" /\ failures' = errors /\ turn' = FirstTurn
              /\ verdict' = IF Recommends(Blocking(errors, given), given, families)
                            THEN "recommended" ELSE "review"
         ELSE /\ turn' = [FirstTurn EXCEPT !.who = turn.who + 1]
              /\ UNCHANGED <<doing, verdict, failures>>
  BY DEF EndReview
<1>g. Given' = Given
  BY DEF Given
<1>4. CASE ~(alone \/ turn.who = Len(team))
  <2>1. turn' = [FirstTurn EXCEPT !.who = turn.who + 1] /\ UNCHANGED <<doing, verdict, failures>>
    BY <1>3, <1>4
  <2>2. turn' \in Turns /\ turn'.who = turn.who + 1
    <3>1. turn.who + 1 \in Positive
      BY <1>w, TurnChanges DEF Positive
    <3> QED BY <2>1, <3>1, FirstTurnIsTurn, TurnChanges
  <2>3. verdict' = "none" /\ doing' = "review"
    BY <2>1 DEF DiscoveryInv
  <2> HIDE DEF given
  <2>4. ReviewsOK'
    BY <1>w, <1>1, <1>2, <1>3, <1>g, <2>2, <2>3 DEF ReviewsOK
  <2> QED BY <2>2, <2>3, <2>4 DEF DiscoveryInv, RecommendedOnEvidence
<1>5. CASE alone \/ turn.who = Len(team)
  <2>1. /\ doing' = "decided" /\ failures' = errors /\ turn' = FirstTurn
        /\ verdict' = IF Recommends(Blocking(errors, given), given, families)
                      THEN "recommended" ELSE "review"
    BY <1>3, <1>5
  <2>2. ReviewsOK'
    <3> HIDE DEF given
    <3> QED BY <1>1, <1>3, <1>g, <2>1 DEF ReviewsOK
  <2>3. ASSUME verdict' = "recommended"
        PROVE  RecommendedOnEvidence'
    <3>1. Recommends(Blocking(errors, given), given, families)
      BY <2>1, <2>3
    <3>2. pool \subseteq Hits
      BY DEF DiscoveryInv
    <3> HIDE DEF errors, given, families, alone
    <3>3. /\ \E h \in Candidates : \A k \in DOMAIN given : given[k].ok /\ given[k].choice = h
          /\ \A h \in pool : Confidence(h) >= Threshold => h.support /\ Unmatched(Resolved(h)) = {}
      BY <1>1, <3>1, <3>2, RecommendedHit
    <3>4. \A e \in errors :
             /\ e.stage = "expansion" /\ e.type = "truncated" /\ matched
             /\ \E k \in DOMAIN given : given[k].profile = e.profile
             /\ sought.arithmetic = "pass"
      BY <3>1, PassedOver
    <3>5. Cardinality({ProviderOf(given[k].profile) : k \in DOMAIN given}) = 1 =>
            /\ Len(given) = 1 /\ ProviderOf(team[1]) = "qwen" /\ sought.arithmetic = "pass"
            /\ Vision(team[1]) => sought.images = "shown"
      <4>1. CASE alone
        BY <1>2, <4>1 DEF alone, Qwen, ShownTo
      <4>2. CASE ~alone
        <5>1. Cardinality({ProviderOf(given[k].profile) : k \in DOMAIN given}) >= 2
          BY <3>1, <4>2 DEF families, Recommends
        <5> QED BY <5>1
      <4> QED BY <4>1, <4>2
    <3>6. Candidates' = Candidates
      BY DEF Candidates
    <3> QED BY <1>3, <2>1, <3>3, <3>4, <3>5, <3>6 DEF RecommendedOnEvidence
  <2>4. verdict' # "recommended" => RecommendedOnEvidence'
    BY DEF RecommendedOnEvidence
  <2> QED BY <2>1, <2>2, <2>3, <2>4, FirstTurnIsTurn DEF DiscoveryInv
<1> QED BY <1>4, <1>5

(* The steps before the reviews.                                           *)
LEMMA SearchSteps ==
  ASSUME DiscoveryInv, doing \notin {"review", "decided"}, pool' \subseteq Hits, turn' \in Turns,
         UNCHANGED <<sought, team, reviews, verdict>>,
         doing' # "decided", doing' = "review" => turn'.who = 1
  PROVE  DiscoveryInv'
<1>1. reviews = <<>> /\ verdict = "none"
  BY DEF DiscoveryInv, ReviewsOK
<1>2. ReviewsOK'
  <2>1. << >> \in Seq(Given') /\ Len(<< >>) = 0
    OBVIOUS
  <2> QED BY <1>1, <2>1 DEF ReviewsOK
<1> QED BY <1>1, <1>2 DEF DiscoveryInv, RecommendedOnEvidence

(* The end of a reading leaves a turn, and for the reviews the first.      *)
LEMMA EndReadingTurns ==
  ASSUME turn \in Turns, NEW p, NEW type, NEW verified, NEW failed,
         EndReading(p, type, verified, failed)
  PROVE  /\ turn' \in Turns /\ doing' \in {"review", "proposal", "expansion"}
         /\ doing' = "review" => turn'.who = 1
<1> DEFINE skip == CircuitOpen(p, type) \/ turn.reading = turn.readings
<1>1. doing' = IF verified THEN "review"
               ELSE IF skip /\ turn.who = Len(team) THEN "proposal" ELSE "expansion"
  BY DEF EndReading
<1>2. turn' = IF doing' # "expansion" THEN FirstTurn
              ELSE IF skip THEN [turn EXCEPT !.who = @ + 1, !.reading = 1, !.attempt = 1, !.saved = "none"]
              ELSE [turn EXCEPT !.reading = @ + 1, !.attempt = 1, !.saved = "none"]
  BY <1>1 DEF EndReading
<1> HIDE DEF skip
<1>3. CASE doing' # "expansion"
  BY <1>1, <1>2, <1>3, FirstTurnIsTurn
<1>4. CASE doing' = "expansion" /\ skip
  <2> DEFINE a == [turn EXCEPT !.who = turn.who + 1]
             b == [a EXCEPT !.reading = 1]
             c == [b EXCEPT !.attempt = 1]
             d == [c EXCEPT !.saved = "none"]
  <2>1. turn' = d
    BY <1>2, <1>4
  <2>2. a \in Turns
    BY TurnChanges
  <2> HIDE DEF a
  <2>3. b \in Turns
    BY <2>2, TurnChanges
  <2> HIDE DEF b
  <2>4. c \in Turns
    BY <2>3, TurnChanges
  <2> HIDE DEF c
  <2>5. d \in Turns
    BY <2>4, TurnChanges DEF Saved
  <2> QED BY <1>4, <2>1, <2>5
<1>5. CASE doing' = "expansion" /\ ~skip
  <2> DEFINE a == [turn EXCEPT !.reading = turn.reading + 1]
             b == [a EXCEPT !.attempt = 1]
             c == [b EXCEPT !.saved = "none"]
  <2>1. turn' = c
    BY <1>2, <1>5
  <2>2. a \in Turns
    BY TurnChanges
  <2> HIDE DEF a
  <2>3. b \in Turns
    BY <2>2, TurnChanges
  <2> HIDE DEF b
  <2>4. c \in Turns
    BY <2>3, TurnChanges DEF Saved
  <2> QED BY <1>5, <2>1, <2>4
<1> QED BY <1>3, <1>4, <1>5

LEMMA DiscoveryStep == DiscoveryInv /\ [DiscoveryNext]_discoveryVars => DiscoveryInv'
<1> SUFFICES ASSUME DiscoveryInv, [DiscoveryNext]_discoveryVars
             PROVE  DiscoveryInv'
  OBVIOUS
<1>t. turn \in Turns /\ pool \subseteq Hits
  BY DEF DiscoveryInv
<1>1. ASSUME UNCHANGED discoveryVars
      PROVE  DiscoveryInv'
  BY <1>1 DEF discoveryVars, DiscoveryInv, ReviewsOK, Given, RecommendedOnEvidence, Candidates
<1>2. ASSUME NEW hits \in Answers, NEW failed \in BOOLEAN, Search(hits, failed)
      PROVE  DiscoveryInv'
  <2>1. doing' \in {"alternatives", "descriptive", "relaxed", "grounded", "suffixes"}
    BY <1>2 DEF Search, AfterSearch
  <2> QED BY <1>2, <1>t, <2>1, SearchSteps, DiscoveryAssumption DEF Search
<1>3. ASSUME NEW hits \in Answers, NEW failed \in BOOLEAN, NEW answered \in BOOLEAN,
             ExpandSuffix(answered, hits, failed)
      PROVE  DiscoveryInv'
  <2>1. turn' \in Turns
    BY <1>3, <1>t, TurnChanges DEF ExpandSuffix
  <2> QED BY <1>3, <1>t, <2>1, SearchSteps, DiscoveryAssumption DEF ExpandSuffix
<1>4. ASSUME NEW hits \in Answers, NEW failed \in BOOLEAN, NEW answered \in BOOLEAN,
             Propose(answered, hits, failed)
      PROVE  DiscoveryInv'
  <2>1. \/ turn' = [turn EXCEPT !.who = @ + 1] /\ doing' = doing
        \/ turn' = FirstTurn /\ doing' = "review"
    BY <1>4 DEF Propose
  <2>2. turn' \in Turns /\ (doing' = "review" => turn'.who = 1) /\ doing' # "decided"
    <3>1. CASE turn' = [turn EXCEPT !.who = @ + 1] /\ doing' = doing
      BY <1>4, <1>t, <3>1, TurnChanges DEF Propose
    <3>2. CASE turn' = FirstTurn /\ doing' = "review"
      BY <3>2, FirstTurnIsTurn
    <3> QED BY <2>1, <3>1, <3>2
  <2> QED BY <1>4, <1>t, <2>2, SearchSteps, DiscoveryAssumption DEF Propose
<1>5. ASSUME NEW hits \in Answers, NEW failed \in BOOLEAN,
             NEW kind \in {"thinking", "truncated", "other"}, ExpansionFails(kind, hits, failed)
      PROVE  DiscoveryInv'
  <2>1. turn' \in Turns /\ doing' # "decided" /\ (doing' = "review" => turn'.who = 1)
    <3>1. \/ turn' = [turn EXCEPT !.attempt = 2] /\ doing' = doing /\ doing = "expansion"
          \/ \E type : EndReading(team[turn.who], type, VerifiedBy(hits), failed)
      BY <1>5 DEF ExpansionFails
    <3>2. CASE turn' = [turn EXCEPT !.attempt = 2] /\ doing' = doing /\ doing = "expansion"
      BY <1>t, <3>2, TurnChanges
    <3> QED BY <1>t, <3>1, <3>2, EndReadingTurns
  <2> QED BY <1>5, <1>t, <2>1, SearchSteps, DiscoveryAssumption DEF ExpansionFails
<1>6. ASSUME NEW hits \in Answers, NEW failed \in BOOLEAN, NEW queries, NEW cited \in BOOLEAN,
             ExpansionAnswers(queries, cited, hits, failed)
      PROVE  DiscoveryInv'
  <2>1. turn' \in Turns /\ doing' # "decided" /\ (doing' = "review" => turn'.who = 1)
    <3>1. \/ /\ \E saved \in {"uncited", "search again", "searched"} :
                   turn' = [turn EXCEPT !.attempt = 2, !.saved = saved]
             /\ doing' = doing /\ doing = "expansion"
          \/ \E type : EndReading(team[turn.who], type, VerifiedBy(hits), failed)
      BY <1>6 DEF ExpansionAnswers
    <3>2. CASE /\ \E saved \in {"uncited", "search again", "searched"} :
                     turn' = [turn EXCEPT !.attempt = 2, !.saved = saved]
               /\ doing' = doing /\ doing = "expansion"
      <4>1. PICK saved \in Saved : turn' = [turn EXCEPT !.attempt = 2, !.saved = saved]
        BY <3>2 DEF Saved
      <4>2. [turn EXCEPT !.attempt = 2] \in Turns
        BY <1>t, TurnChanges
      <4>3. [[turn EXCEPT !.attempt = 2] EXCEPT !.saved = saved] \in Turns
        BY <4>2, TurnChanges
      <4> QED BY <3>2, <4>1, <4>3
    <3> QED BY <1>t, <3>1, <3>2, EndReadingTurns
  <2> QED BY <1>6, <1>t, <2>1, SearchSteps, DiscoveryAssumption DEF ExpansionAnswers
<1>7. ASSUME NEW unresolved \in 0 .. SearchedReadings, EndSuffixes(unresolved)
      PROVE  DiscoveryInv'
  <2>1. turn' = [FirstTurn EXCEPT !.readings = unresolved] /\ unresolved \in Int
    BY <1>7 DEF EndSuffixes
  <2>2. turn' = [who |-> 1, reading |-> 1, attempt |-> 1, saved |-> "none", readings |-> unresolved]
    BY <2>1 DEF FirstTurn
  <2>3. turn' \in Turns /\ turn'.who = 1
    <3>1. 1 \in Positive /\ "none" \in Saved /\ 1 \in Int
      BY DEF Positive, Saved
    <3> HIDE DEF Positive, Saved
    <3>2. unresolved \in Int
      BY <2>1, Zenon
    <3> QED BY <2>2, <3>1, <3>2 DEF Turns
  <2> QED BY <1>7, <1>t, <2>3, SearchSteps DEF EndSuffixes
<1>8. ASSUME NEW outcome \in {"answered", "uncited", "thinking", "truncated", "other"},
             NEW choice \in Hits \cup {NoHit}, Review(outcome, choice)
      PROVE  DiscoveryInv'
  <2>1. CASE AskedAgain(team[turn.who], outcome)
    <3>1. turn' = [turn EXCEPT !.attempt = 2] /\ UNCHANGED <<doing, reviews, failures, verdict, sought, team, pool, matched>>
      BY <1>8, <2>1 DEF Review
    <3>2. turn' \in Turns /\ turn'.who = turn.who
      BY <1>t, <3>1, TurnChanges
    <3> QED BY <3>1, <3>2 DEF DiscoveryInv, ReviewsOK, Given, RecommendedOnEvidence, Candidates
  <2>2. CASE ~AskedAgain(team[turn.who], outcome)
    <3>1. /\ doing = "review" /\ UNCHANGED <<sought, team, pool, matched>>
          /\ EndReview(team[turn.who], outcome = "answered", IF outcome = "answered" THEN choice ELSE NoHit)
      BY <1>8, <2>2 DEF Review
    <3>2. (outcome = "answered") \in BOOLEAN
          /\ (IF outcome = "answered" THEN choice ELSE NoHit) \in Hits \cup {NoHit}
      OBVIOUS
    <3> QED BY <3>1, <3>2, EndReviewStep
  <2> QED BY <2>1, <2>2
<1> QED BY <1>1, <1>2, <1>3, <1>4, <1>5, <1>6, <1>7, <1>8 DEF DiscoveryNext

(* A product is recommended only when every profile asked chose the same   *)
(* hit, found by a search of this run and explained by this receipt, and   *)
(* the discovery has no gap: whatever searches and models return, in which *)
(* order they fail, and however the team is made up.                       *)
THEOREM RecommendationHasEvidence == DiscoverySpec => []RecommendedOnEvidence
<1>1. DiscoveryInit => DiscoveryInv
  BY FirstTurnIsTurn DEF DiscoveryInit, DiscoveryInv, ReviewsOK, RecommendedOnEvidence
<1>2. DiscoveryInv => RecommendedOnEvidence
  BY DEF DiscoveryInv
<1> QED BY <1>1, <1>2, DiscoveryStep, PTL DEF DiscoverySpec

-----------------------------------------------------------------------------
(* The items of a purchase between imports, searches and people.           *)

IsRow(row) ==
  /\ row = [name |-> row.name, amount |-> row.amount, category |-> row.category,
            decided |-> row.decided, product |-> row.product]
  /\ row.decided \in BOOLEAN

(* Ids are never handed out twice: an id on a page or in a search that no  *)
(* longer is in rows does not come back as another item.                   *)
RowsOK ==
  /\ issued \in Nat /\ edits \in Nat
  /\ Ids \subseteq 1 .. issued
  /\ rows = [i \in Ids |-> rows[i]]
  /\ \A i \in Ids : IsRow(rows[i])

LEMMA RowChanges ==
  ASSUME NEW row, IsRow(row)
  PROVE  /\ \A c : LET r == [row EXCEPT !.category = c]
                   IN /\ IsRow(r) /\ r.category = c /\ r.decided = row.decided
                      /\ r.product = row.product
         /\ \A p : LET r == [row EXCEPT !.product = p]
                   IN /\ IsRow(r) /\ r.product = p /\ r.decided = row.decided
                      /\ r.category = row.category
         /\ \A n : IsRow([row EXCEPT !.name = n])
         /\ \A d \in BOOLEAN : IsRow([row EXCEPT !.decided = d])
BY DEF IsRow

LEMMA CategorizedRow ==
  ASSUME NEW row, IsRow(row)
  PROVE  /\ IsRow(Categorized(row))
         /\ Categorized(row).decided = row.decided /\ Categorized(row).product = row.product
         /\ row.category # None => Categorized(row).category = row.category
BY RowChanges DEF Categorized

(* The ids an import hands out are new.                                    *)
LEMMA FreshIds ==
  ASSUME NEW reading \in Readings
  PROVE  /\ Cardinality(Added(reading)) \in Nat
         /\ \A n \in Added(reading) :
               Cardinality({m \in Added(reading) : m <= n}) \in 1 .. Cardinality(Added(reading))
<1> DEFINE added == Added(reading)
<1>1. PICK k \in 0 .. MaxLines : reading \in [1 .. k -> Lines]
  BY DEF Readings, SeqOf
<1>2. MaxLines \in Nat
  BY ItemReviewAssumption
<1>3. added \subseteq 1 .. k /\ k \in Nat
  BY <1>1, <1>2 DEF Added
<1>4. IsFiniteSet(added)
  BY <1>3, FS_Interval, FS_Subset
<1> HIDE DEF added
<1>5. ASSUME NEW n \in added
      PROVE  Cardinality({m \in added : m <= n}) \in 1 .. Cardinality(added)
  <2> DEFINE below == {m \in added : m <= n}
  <2>1. below \subseteq added /\ n \in below
    BY <1>3
  <2>2. IsFiniteSet(below) /\ Cardinality(below) <= Cardinality(added)
    BY <1>4, <2>1, FS_Subset
  <2>3. Cardinality(below) \in Nat /\ Cardinality(added) \in Nat /\ Cardinality(below) # 0
    BY <1>4, <2>1, <2>2, FS_CardinalityType, FS_EmptySet
  <2> QED BY <2>2, <2>3
<1> QED BY <1>4, <1>5, FS_CardinalityType DEF added

LEMMA ImportRows ==
  ASSUME RowsOK, NEW reading \in Readings, Import(reading)
  PROVE  /\ RowsOK'
         /\ Kept(reading) \subseteq DOMAIN rows' /\ Kept(reading) \subseteq Ids
         /\ \A i \in Ids \cap DOMAIN rows' : rows'[i] = Categorized(rows[i])
<1> DEFINE added == Added(reading)
           IdOf(n) == issued + Cardinality({m \in added : m <= n})
           fresh == {IdOf(n) : n \in added}
           LineOf(i) == reading[CHOOSE n \in added : IdOf(n) = i]
           row(i) == IF i \in fresh THEN NewRow(LineOf(i)) ELSE rows[i]
<1>1. /\ issued' = issued + Cardinality(added) /\ edits' = edits
      /\ rows' = [i \in Kept(reading) \cup fresh |-> Categorized(row(i))]
  BY DEF Import, PersistItems
<1>2. Kept(reading) \subseteq Ids
  BY DEF Kept
<1>3. \A i \in fresh : i \in issued + 1 .. issued' /\ i \notin Ids
  <2> HIDE DEF added
  <2>1. issued \in Nat /\ Ids \subseteq 1 .. issued
    BY DEF RowsOK
  <2>2. /\ Cardinality(added) \in Nat
        /\ \A n \in added : Cardinality({m \in added : m <= n}) \in 1 .. Cardinality(added)
    BY FreshIds DEF added
  <2>3. ASSUME NEW n \in added
        PROVE  IdOf(n) \in issued + 1 .. issued' /\ IdOf(n) \notin 1 .. issued
    <3> DEFINE c == Cardinality({m \in added : m <= n})
    <3>1. c \in 1 .. Cardinality(added) /\ IdOf(n) = issued + c
      BY <2>2
    <3> HIDE DEF c, IdOf
    <3> QED BY <1>1, <2>1, <2>2, <3>1
  <2> HIDE DEF IdOf
  <2> QED BY <2>1, <2>3
<1>4. issued' \in Nat /\ issued <= issued'
  BY <1>1, FreshIds DEF RowsOK
<1>5. \A line : IsRow(NewRow(line))
  BY DEF NewRow, IsRow
<1> HIDE DEF added, IdOf, fresh, LineOf
<1>6. \A i \in Kept(reading) \cup fresh : IsRow(row(i))
  BY <1>2, <1>5 DEF RowsOK
<1>7. \A i \in DOMAIN rows' : IsRow(rows'[i])
  BY <1>1, <1>6, CategorizedRow
<1>8. DOMAIN rows' \subseteq 1 .. issued'
  BY <1>1, <1>2, <1>3, <1>4 DEF RowsOK
<1>9. rows' = [i \in DOMAIN rows' |-> rows'[i]]
  BY <1>1
<1>10. \A i \in Ids \cap DOMAIN rows' : rows'[i] = Categorized(rows[i])
  BY <1>1, <1>3
<1> QED BY <1>1, <1>2, <1>4, <1>7, <1>8, <1>9, <1>10 DEF RowsOK, Ids

(* A step that changes one row.                                            *)
LEMMA OneRow ==
  ASSUME RowsOK, NEW i \in Ids, NEW row, IsRow(row), rows' = [rows EXCEPT ![i] = row],
         issued' = issued, edits' \in Nat
  PROVE  RowsOK'
BY DEF RowsOK, Ids

LEMMA AppliedRule ==
  ASSUME RowsOK, NEW rule, NEW decided \in BOOLEAN, ApplyRule(rule, decided), issued' = issued, Edit
  PROVE  RowsOK' /\ edits' # edits
<1> DEFINE ids == IF rule.active THEN RowsOf(rule) ELSE {}
           new(i) == [[rows[i] EXCEPT !.category = rule.category] EXCEPT !.decided = decided]
<1>1. rows' = [i \in Ids |-> IF i \in ids THEN new(i) ELSE rows[i]]
  BY DEF ApplyRule
<1>2. edits' = edits + 1 /\ edits \in Nat
  BY DEF Edit, RowsOK
<1>3. ASSUME NEW i \in Ids
      PROVE  IsRow(new(i)) /\ IsRow(rows[i])
  <2>1. IsRow(rows[i])
    BY DEF RowsOK
  <2>2. IsRow([rows[i] EXCEPT !.category = rule.category])
    BY <2>1, RowChanges
  <2> QED BY <2>1, <2>2, RowChanges
<1> HIDE DEF ids, new
<1> QED BY <1>1, <1>2, <1>3 DEF RowsOK, Ids

(* What ReviewStands says of one step.                                     *)
Stands ==
  edits' = edits /\ search' = search =>
      \A i \in Ids :
         /\ Reviewed(i) => i \in DOMAIN rows' /\ rows'[i].decided = rows[i].decided
         /\ i \in DOMAIN rows' =>
               /\ rows[i].category # None => rows'[i].category = rows[i].category
               /\ rows[i].product # None /\ rows'[i].product # rows[i].product
                     => accepted' # accepted /\ rows[i].product = seen.product

LEMMA ItemStep == RowsOK /\ [ItemNext]_itemVars => RowsOK' /\ Stands
<1> SUFFICES ASSUME RowsOK, [ItemNext]_itemVars
             PROVE  RowsOK' /\ Stands
  OBVIOUS
<1>e. edits \in Nat /\ (Edit => edits' = edits + 1 /\ edits' # edits /\ edits' \in Nat)
  BY DEF RowsOK, Edit
<1>r. \A i \in Ids : IsRow(rows[i])
  BY DEF RowsOK
<1>q. ASSUME rows' = rows, issued' = issued, edits' \in Nat
      PROVE  RowsOK' /\ Stands
  BY <1>q DEF RowsOK, Stands, Ids
<1>1. CASE UNCHANGED itemVars
  BY <1>1, <1>q, <1>e DEF itemVars
<1>2. ASSUME NEW reading \in Readings, Import(reading)
      PROVE  RowsOK' /\ Stands
  <2>1. /\ RowsOK'
        /\ Kept(reading) \subseteq DOMAIN rows'
        /\ \A i \in Ids \cap DOMAIN rows' : rows'[i] = Categorized(rows[i])
    BY <1>2, ImportRows
  <2>2. \A i \in Ids : Reviewed(i) => i \in Kept(reading)
    BY <1>2 DEF Import, Blocked
  <2> QED BY <1>r, <2>1, <2>2, CategorizedRow DEF Stands
<1>3. CASE Refresh
  <2> DEFINE taken(i) == [rows[i] EXCEPT !.product = FromCache(i)]
  <2>1. /\ rows' = [i \in Ids |-> Categorized(taken(i))]
        /\ issued' = issued /\ edits' = edits
    BY <1>3 DEF Refresh, RefreshedRow
  <2>2. ASSUME NEW i \in Ids
        PROVE  /\ IsRow(taken(i)) /\ taken(i).decided = rows[i].decided
               /\ taken(i).category = rows[i].category
               /\ rows[i].product # None => taken(i).product = rows[i].product
    <3>1. rows[i].product # None => FromCache(i) = rows[i].product
      BY DEF FromCache
    <3> QED BY <1>r, <3>1, RowChanges
  <2> HIDE DEF taken
  <2>3. \A i \in Ids : /\ IsRow(Categorized(taken(i)))
                       /\ Categorized(taken(i)).decided = rows[i].decided
                       /\ rows[i].category # None => Categorized(taken(i)).category = rows[i].category
                       /\ rows[i].product # None => Categorized(taken(i)).product = rows[i].product
    BY <2>2, CategorizedRow
  <2>4. RowsOK'
    BY <2>1, <2>3 DEF RowsOK, Ids
  <2> QED BY <2>1, <2>3, <2>4 DEF Stands
<1>4. ASSUME NEW i \in Ids, NEW product, Describe(i, product)
      PROVE  RowsOK' /\ Stands
  <2>1. /\ rows' = [rows EXCEPT ![i] = [rows[i] EXCEPT !.product = product]]
        /\ issued' = issued /\ Edit
    BY <1>4 DEF Describe
  <2>2. IsRow([rows[i] EXCEPT !.product = product])
    BY <1>r, RowChanges
  <2> QED BY <1>e, <2>1, <2>2, OneRow DEF Stands
<1>5. ASSUME NEW i \in Ids, NEW product, Collaborate(i, product)
      PROVE  RowsOK' /\ Stands
  BY <1>5, <1>e, <1>q DEF Collaborate
<1>6. ASSUME NEW i \in Ids, Look(i)
      PROVE  RowsOK' /\ Stands
  BY <1>6, <1>e, <1>q DEF Look
<1>7. CASE Accept
  <2>1. CASE rows' = rows
    BY <1>7, <1>e, <1>q, <2>1 DEF Accept
  <2>2. CASE /\ Current /\ seen.number \notin accepted /\ rows[seen.item].product = seen.product
             /\ TakeProduct(seen.item, suggested[seen.item].product)
             /\ accepted' = accepted \cup {seen.number}
    <3> DEFINE i == seen.item
               taken == [rows[i] EXCEPT !.product = suggested[i].product]
    <3>1. /\ i \in Ids /\ rows' = [rows EXCEPT ![i] = Categorized(taken)]
          /\ issued' = issued /\ edits' = edits /\ accepted' # accepted
      BY <1>7, <2>2 DEF Accept, Current, TakeProduct
    <3>2. /\ IsRow(taken) /\ taken.decided = rows[i].decided /\ taken.category = rows[i].category
      BY <1>r, <3>1, RowChanges
    <3> HIDE DEF taken
    <3>3. /\ IsRow(Categorized(taken)) /\ Categorized(taken).decided = rows[i].decided
          /\ rows[i].category # None => Categorized(taken).category = rows[i].category
      BY <3>2, CategorizedRow
    <3>4. RowsOK'
      BY <1>e, <3>1, <3>3, OneRow
    <3>5. /\ DOMAIN rows' = Ids /\ rows'[i] = Categorized(taken)
          /\ \A j \in Ids \ {i} : rows'[j] = rows[j]
      BY <3>1 DEF RowsOK
    <3> QED BY <2>2, <3>1, <3>3, <3>4, <3>5 DEF Stands
  <2> QED BY <1>7, <2>1, <2>2 DEF Accept
<1>8. ASSUME NEW ids, Pick(ids)
      PROVE  RowsOK' /\ Stands
  BY <1>8, <1>e, <1>q DEF Pick
<1>9. ASSUME NEW i, NEW product, LookUp(i, product)
      PROVE  RowsOK' /\ Stands
  BY <1>9, <1>e, <1>q DEF LookUp
<1>10. CASE CommitSearch
  <2> DEFINE found == {i \in DOMAIN written : written[i] # None}
             new(i) == IF i \in found THEN Found(i, written[i]) ELSE rows[i]
  <2>1. /\ search = {} /\ search' = None /\ issued' = issued /\ edits' = edits
        /\ rows' = [i \in Ids |-> new(i)]
    BY <1>10 DEF CommitSearch
  <2>2. ASSUME NEW i \in Ids
        PROVE  IsRow(new(i))
    <3> DEFINE name == IF <<rows[i].name, written[i]>> \in DOMAIN Corrected
                       THEN Corrected[<<rows[i].name, written[i]>>] ELSE rows[i].name
    <3>1. IsRow([rows[i] EXCEPT !.product = written[i]])
      BY <1>r, RowChanges
    <3>2. IsRow([[rows[i] EXCEPT !.product = written[i]] EXCEPT !.name = name])
      <4> HIDE DEF name
      <4> QED BY <3>1, RowChanges
    <3>3. Found(i, written[i]) = [[rows[i] EXCEPT !.product = written[i]] EXCEPT !.name = name]
      BY <1>r DEF Found, IsRow
    <3> QED BY <1>r, <3>2, <3>3
  <2> HIDE DEF new
  <2>3. RowsOK'
    BY <2>1, <2>2 DEF RowsOK, Ids
  <2>4. search' # search
    BY <2>1, ItemReviewAssumption
  <2> QED BY <2>3, <2>4 DEF Stands
<1>11. ASSUME NEW k, NEW rule, SaveCategoryRule(k, rule)
       PROVE  RowsOK' /\ Stands
  BY <1>11, AppliedRule DEF SaveCategoryRule, Stands
<1>12. ASSUME NEW i, NEW category, SaveCategoryOverride(i, category)
       PROVE  RowsOK' /\ Stands
  BY <1>12, AppliedRule DEF SaveCategoryOverride, Stands
<1> QED BY <1>1, <1>2, <1>3, <1>4, <1>5, <1>6, <1>7, <1>8, <1>9, <1>10, <1>11, <1>12
        DEF ItemNext

(* Imports, refreshes and acceptances keep what was reviewed, whatever     *)
(* edits, searches and stale pages come between: every reviewed row, every *)
(* category that is set and every decision; an acceptance replaces only    *)
(* the product its page showed.                                            *)
THEOREM ReviewsAreKept == ItemSpec => ReviewStands
<1>1. ItemInit => RowsOK
  BY DEF ItemInit, RowsOK, Ids
<1>2. RowsOK /\ [ItemNext]_itemVars => [Stands]_itemVars
  BY ItemStep
<1> QED BY <1>1, <1>2, ItemStep, PTL DEF ItemSpec, ReviewStands, Stands
==============================================================================
