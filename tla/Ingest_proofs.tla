---------------------------- MODULE Ingest_proofs ----------------------------
(***************************************************************************)
(* Theorems about the ways into the ledger beside the deployed workers.    *)
(* Each part is proved of its own specification, for every value of its    *)
(* constants.                                                              *)
(***************************************************************************)
EXTENDS DirectIngest, SchemaUpgrade, SourceRefresh, IntakePublication,
        FiniteSetTheorems, TLAPS

-----------------------------------------------------------------------------
(* Ingest inside one process.                                              *)

Candidates == [path : Paths, digest : Hashes, kind : {"backlog", "backlog refresh"},
               request : {NoOrder}]
Given == Orders \cup Candidates

CallerStates ==
  [at : {"resting", "choosing"}, left : SUBSET Candidates]
  \cup [at : {"waiting", "reading", "parsing"}, left : SUBSET Candidates, order : Given]
  \cup [at : {"saving"}, left : SUBSET Candidates, order : Given, read : Hashes]

DirectTypeOK ==
  /\ disk \in [Paths -> Hashes]
  /\ ingested \in [Hashes -> [status : {"none", "processing", "failed", "completed"},
                              attempts : Nat]]
  /\ asked \in [Requests -> [attempts : Nat, done : BOOLEAN]]
  /\ callers \in [Callers -> CallerStates]

(* One process at a time works on a receipt.                               *)
OneWorker ==
  \A c, d \in Callers :
     Working(c) /\ Working(d) /\ callers[c].order.digest = callers[d].order.digest => c = d

DirectInv == DirectTypeOK /\ OneWorker /\ WorkedOnce

LEMMA GivenOrders ==
  \A o \in Given :
     /\ o.path \in Paths /\ o.digest \in Hashes
     /\ o.request # NoOrder => o.request \in Requests /\ o \in Orders
BY OrderAssumption DEF Given, Candidates

(* Who works has an order.                                                 *)
LEMMA CallerFacts ==
  ASSUME DirectTypeOK, NEW c \in Callers
  PROVE  /\ callers[c].left \in SUBSET Candidates
         /\ callers[c].at \in {"waiting", "reading", "parsing", "saving"} =>
              callers[c].order \in Given
         /\ callers[c].at = "saving" => callers[c].read \in Hashes
         /\ callers[c].at \in {"resting", "choosing", "waiting", "reading", "parsing", "saving"}
BY DEF DirectTypeOK, CallerStates

(* A process that rests, chooses or waits holds no lock: the others keep   *)
(* theirs.                                                                 *)
LEMMA RestingKeeps ==
  ASSUME DirectTypeOK, NEW c \in Callers, NEW x \in CallerStates,
         callers' = [callers EXCEPT ![c] = x]
  PROVE  /\ callers' \in [Callers -> CallerStates]
         /\ callers'[c] = x
         /\ \A d \in Callers : d # c => callers'[d] = callers[d]
BY DEF DirectTypeOK

LEMMA AfterOneOK ==
  ASSUME DirectTypeOK, NEW c \in Callers
  PROVE  AfterOne(c) \in CallerStates /\ AfterOne(c).at \in {"resting", "choosing"}
BY CallerFacts DEF AfterOne, Resting, CallerStates

LEMMA DirectInitOK == DirectInit => DirectInv
BY DirectAssumption
   DEF DirectInit, DirectInv, DirectTypeOK, OneWorker, WorkedOnce, Working, Resting, CallerStates

(* Steps of a process that does not work on a receipt afterwards, and that *)
(* finish nothing.                                                         *)
LEMMA IdleStep ==
  ASSUME DirectInv, NEW c \in Callers, NEW x \in CallerStates,
         callers' = [callers EXCEPT ![c] = x], x.at \in {"resting", "choosing", "waiting"},
         UNCHANGED <<disk, asked>>,
         ingested' \in [Hashes -> [status : {"none", "processing", "failed", "completed"},
                                  attempts : Nat]],
         \A d \in Hashes : Completed(d)' => Completed(d)
  PROVE  DirectInv'
<1>1. /\ callers' \in [Callers -> CallerStates] /\ callers'[c] = x
      /\ \A d \in Callers : d # c => callers'[d] = callers[d]
  BY RestingKeeps DEF DirectInv
<1>2. DirectTypeOK'
  BY <1>1 DEF DirectInv, DirectTypeOK
<1>3. OneWorker'
  BY <1>1 DEF DirectInv, OneWorker, Working
<1>4. WorkedOnce'
  <2>1. \A r \in Requests : asked'[r].attempts <= MaxTries
    BY DEF DirectInv, WorkedOnce
  <2>2. ASSUME NEW d \in Callers, Working(d)', NEW o, o = callers'[d].order
        PROVE  ~(\/ o.request # NoOrder /\ asked[o.request].done
                 \/ ~Refreshes(o) /\ Completed(o.digest)')
    <3>1. Working(d) /\ o = callers[d].order
      BY <1>1, <2>2 DEF Working
    <3>2. o.digest \in Hashes /\ ~IsDone(o)
      BY <3>1, CallerFacts, GivenOrders DEF DirectInv, WorkedOnce, Working
    <3> QED BY <3>2 DEF IsDone
  <2> QED BY <2>1, <2>2 DEF WorkedOnce, IsDone, Completed
<1> QED BY <1>2, <1>3, <1>4 DEF DirectInv

(* A failure completes nothing.                                            *)
LEMMA StatusFails ==
  ASSUME DirectTypeOK, NEW h \in Hashes, ingested' = [ingested EXCEPT ![h].status = "failed"]
  PROVE  /\ ingested' \in [Hashes -> [status : {"none", "processing", "failed", "completed"},
                                     attempts : Nat]]
         /\ \A d \in Hashes : ingested'[d].status = "completed" => ingested[d].status = "completed"
<1> DEFINE x == [ingested[h] EXCEPT !.status = "failed"]
<1>1. x \in [status : {"none", "processing", "failed", "completed"}, attempts : Nat]
      /\ x.status = "failed"
  BY DEF DirectTypeOK
<1>2. ingested' = [ingested EXCEPT ![h] = x]
  OBVIOUS
<1> HIDE DEF x
<1> QED BY <1>1, <1>2 DEF DirectTypeOK

(* The file is compared or read: the order stays.                          *)
LEMMA WorkStep ==
  ASSUME DirectInv, NEW c \in Callers, Verify(c) \/ Read(c)
  PROVE  DirectInv'
<1>1. PICK x \in CallerStates :
         /\ callers' = [callers EXCEPT ![c] = x]
         /\ x.at \in {"parsing", "saving"} /\ x.order = callers[c].order
  <2>1. callers[c] \in CallerStates
    BY DEF DirectInv, DirectTypeOK
  <2>2. CASE Verify(c)
    <3>1. [callers[c] EXCEPT !.at = "parsing"] \in CallerStates
      BY <2>1, <2>2 DEF Verify, CallerStates
    <3>2. [callers[c] EXCEPT !.at = "parsing"].order = callers[c].order
          /\ [callers[c] EXCEPT !.at = "parsing"].at = "parsing"
      BY <2>1, <2>2 DEF Verify, CallerStates
    <3> QED BY <2>2, <3>1, <3>2 DEF Verify
  <2>3. CASE Read(c)
    <3> DEFINE x == [at |-> "saving", left |-> callers[c].left, order |-> callers[c].order,
                     read |-> disk[callers[c].order.path]]
    <3>1. x \in CallerStates
      BY <2>3, CallerFacts, GivenOrders DEF Read, CallerStates, DirectInv, DirectTypeOK
    <3> QED BY <2>3, <3>1 DEF Read
  <2> QED BY <2>2, <2>3
<1>2. /\ callers' \in [Callers -> CallerStates] /\ callers'[c] = x
      /\ \A d \in Callers : d # c => callers'[d] = callers[d]
  BY <1>1, RestingKeeps DEF DirectInv
<1>3. Working(c) /\ UNCHANGED <<disk, ingested, asked>>
  BY DEF Verify, Read, Working
<1>4. \A d \in Callers : (Working(d) <=> Working(d)') /\ (Working(d) => callers'[d].order = callers[d].order)
  BY <1>1, <1>2, <1>3 DEF Working
<1>5. DirectTypeOK' /\ OneWorker'
  BY <1>2, <1>3, <1>4 DEF DirectInv, DirectTypeOK, OneWorker
<1>6. WorkedOnce'
  BY <1>3, <1>4 DEF DirectInv, WorkedOnce, IsDone, Completed
<1> QED BY <1>5, <1>6 DEF DirectInv

(* With the lock, after the status was read again: counted and committed   *)
(* before anything is read.                                                *)
LEMMA AdmitStep ==
  ASSUME DirectInv, NEW c \in Callers, Admit(c)
  PROVE  DirectInv'
<1> DEFINE o == callers[c].order
<1>1. o \in Given /\ callers[c].at = "waiting" /\ LockHolders(o.digest) = {}
  BY CallerFacts DEF Admit, DirectInv
<1>2. CASE IsDone(o) \/ Exhausted(o)
  <2>1. callers' = [callers EXCEPT ![c] = AfterOne(c)] /\ UNCHANGED <<disk, asked>>
        /\ (ingested' = ingested \/ ingested' = [ingested EXCEPT ![o.digest].status = "failed"])
    BY <1>2 DEF Admit
  <2>2. /\ ingested' \in [Hashes -> [status : {"none", "processing", "failed", "completed"},
                                     attempts : Nat]]
        /\ \A d \in Hashes : Completed(d)' => Completed(d)
    <3>1. o.digest \in Hashes
      BY <1>1, GivenOrders
    <3>2. CASE ingested' = [ingested EXCEPT ![o.digest].status = "failed"]
      BY <3>1, <3>2, StatusFails DEF DirectInv, Completed
    <3>3. CASE ingested' = ingested
      BY <3>3 DEF DirectInv, DirectTypeOK, Completed
    <3> QED BY <2>1, <3>2, <3>3
  <2> QED BY <2>1, <2>2, AfterOneOK, IdleStep DEF DirectInv
<1>3. CASE ~IsDone(o) /\ ~Exhausted(o)
  <2> DEFINE x == [callers[c] EXCEPT !.at = "reading"]
  <2>1. /\ callers' = [callers EXCEPT ![c] = x]
        /\ ingested' = IF o.kind = "cache" THEN ingested
                       ELSE [ingested EXCEPT ![o.digest] =
                                [status |-> "processing", attempts |-> @.attempts + 1]]
        /\ asked' = IF o.request = NoOrder THEN asked
                    ELSE [asked EXCEPT ![o.request].attempts = @ + 1]
        /\ UNCHANGED disk
    BY <1>3 DEF Admit
  <2>2. x \in CallerStates /\ x.order = o /\ x.at = "reading"
    BY <1>1 DEF DirectInv, DirectTypeOK, CallerStates
  <2> HIDE DEF x
  <2>3. /\ callers' \in [Callers -> CallerStates] /\ callers'[c] = x
        /\ \A d \in Callers : d # c => callers'[d] = callers[d]
    BY <2>1, <2>2, RestingKeeps DEF DirectInv
  <2>4. /\ ingested' \in [Hashes -> [status : {"none", "processing", "failed", "completed"},
                                     attempts : Nat]]
        /\ \A d \in Hashes : Completed(d)' => Completed(d)
    BY <2>1, <1>1, GivenOrders DEF DirectInv, DirectTypeOK, Completed
  <2>5. /\ asked' \in [Requests -> [attempts : Nat, done : BOOLEAN]]
        /\ \A r \in Requests : asked'[r].done = asked[r].done /\ asked'[r].attempts <= MaxTries
    BY <2>1, <1>1, <1>3, GivenOrders, DirectAssumption
       DEF DirectInv, DirectTypeOK, WorkedOnce, Exhausted
  <2>6. DirectTypeOK'
    BY <2>1, <2>3, <2>4, <2>5 DEF DirectTypeOK, DirectInv
  <2>7. OneWorker'
    BY <1>1, <2>2, <2>3 DEF DirectInv, OneWorker, LockHolders, Working
  <2>8. ASSUME NEW d \in Callers, Working(d)', NEW p, p = callers'[d].order
        PROVE  ~(\/ p.request # NoOrder /\ asked'[p.request].done
                 \/ ~Refreshes(p) /\ Completed(p.digest)')
    <3>1. p \in Given /\ ~IsDone(p)
      <4>1. CASE d = c
        BY <1>1, <1>3, <2>2, <2>3, <2>8, <4>1
      <4>2. CASE d # c
        BY <2>3, <2>8, <4>2, CallerFacts DEF DirectInv, WorkedOnce, Working
      <4> QED BY <4>1, <4>2
    <3>2. p.digest \in Hashes /\ (p.request # NoOrder => p.request \in Requests)
      BY <3>1, GivenOrders
    <3> QED BY <2>4, <2>5, <3>1, <3>2 DEF IsDone
  <2>9. WorkedOnce'
    BY <2>5, <2>8 DEF WorkedOnce, IsDone, Completed
  <2> QED BY <2>6, <2>7, <2>9 DEF DirectInv
<1> QED BY <1>2, <1>3

(* What is saved is done: nobody else works on its receipt, and no other   *)
(* receipt has its request.                                                *)
LEMMA SaveStep ==
  ASSUME DirectInv, NEW c \in Callers, Save(c)
  PROVE  DirectInv'
<1> DEFINE o == callers[c].order
           x == AfterOne(c)
<1>1. /\ o \in Given /\ o.digest \in Hashes /\ Working(c)
      /\ o.request # NoOrder => o.request \in Requests /\ o \in Orders
  BY CallerFacts, GivenOrders DEF Save, DirectInv, Working
<1>2. x \in CallerStates /\ x.at \in {"resting", "choosing"}
  BY AfterOneOK DEF DirectInv
<1>3. /\ callers' = [callers EXCEPT ![c] = x]
      /\ \/ UNCHANGED ingested
         \/ ingested' = [ingested EXCEPT ![o.digest].status = "completed"]
      /\ \/ UNCHANGED asked
         \/ o.request # NoOrder /\ asked' = [asked EXCEPT ![o.request].done = TRUE]
      /\ UNCHANGED disk
  BY DEF Save
<1> HIDE DEF o, x
<1>4. /\ callers' \in [Callers -> CallerStates] /\ callers'[c] = x
      /\ \A d \in Callers : d # c => callers'[d] = callers[d]
  BY <1>2, <1>3, RestingKeeps DEF DirectInv
<1>5. /\ ingested' \in [Hashes -> [status : {"none", "processing", "failed", "completed"},
                                   attempts : Nat]]
      /\ \A d \in Hashes : d # o.digest => ingested'[d] = ingested[d]
  <2> DEFINE y == [ingested[o.digest] EXCEPT !.status = "completed"]
  <2>1. y \in [status : {"none", "processing", "failed", "completed"}, attempts : Nat]
    BY <1>1 DEF DirectInv, DirectTypeOK
  <2>2. UNCHANGED ingested \/ ingested' = [ingested EXCEPT ![o.digest] = y]
    BY <1>3
  <2> HIDE DEF y
  <2> QED BY <2>1, <2>2 DEF DirectInv, DirectTypeOK
<1>6. /\ asked' \in [Requests -> [attempts : Nat, done : BOOLEAN]]
      /\ \A r \in Requests : asked'[r].attempts = asked[r].attempts
      /\ \A r \in Requests : asked'[r].done # asked[r].done => r = o.request
  <2>1. CASE UNCHANGED asked
    BY <2>1 DEF DirectInv, DirectTypeOK
  <2>2. CASE o.request # NoOrder /\ asked' = [asked EXCEPT ![o.request].done = TRUE]
    <3> DEFINE y == [asked[o.request] EXCEPT !.done = TRUE]
    <3>1. y \in [attempts : Nat, done : BOOLEAN] /\ y.attempts = asked[o.request].attempts
      BY <1>1, <2>2 DEF DirectInv, DirectTypeOK
    <3>2. asked' = [asked EXCEPT ![o.request] = y]
      BY <2>2
    <3> HIDE DEF y
    <3> QED BY <1>1, <2>2, <3>1, <3>2 DEF DirectInv, DirectTypeOK
  <2> QED BY <1>3, <2>1, <2>2
<1>7. DirectTypeOK'
  BY <1>3, <1>4, <1>5, <1>6 DEF DirectInv, DirectTypeOK
<1>8. OneWorker'
  BY <1>2, <1>4 DEF DirectInv, OneWorker, Working
<1>9. ASSUME NEW d \in Callers, Working(d)', NEW p, p = callers'[d].order
      PROVE  ~(\/ p.request # NoOrder /\ asked'[p.request].done
               \/ ~Refreshes(p) /\ ingested'[p.digest].status = "completed")
  <2>1. d # c /\ Working(d) /\ p = callers[d].order
    BY <1>2, <1>4, <1>9 DEF Working
  <2>2. p \in Given /\ ~IsDone(p)
    BY <2>1, CallerFacts DEF DirectInv, WorkedOnce, Working
  <2>3. p.digest \in Hashes /\ (p.request # NoOrder => p.request \in Requests /\ p \in Orders)
    BY <2>2, GivenOrders
  <2>4. p.digest # o.digest
    BY <1>1, <2>1 DEF o, DirectInv, OneWorker
  <2>5. p.request # NoOrder => p.request # o.request
    BY <1>1, <2>3, <2>4, OrderAssumption
  <2> QED BY <1>5, <1>6, <2>2, <2>3, <2>4, <2>5 DEF IsDone, Completed, DirectInv, DirectTypeOK
<1>10. WorkedOnce'
  BY <1>6, <1>9 DEF DirectInv, WorkedOnce, IsDone, Completed
<1> QED BY <1>7, <1>8, <1>10 DEF DirectInv

LEMMA FailStep ==
  ASSUME DirectInv, NEW c \in Callers, Fail(c)
  PROVE  DirectInv'
<1> DEFINE o == callers[c].order
<1>1. o.digest \in Hashes
  BY CallerFacts, GivenOrders DEF Fail, Working, DirectInv
<1>2. /\ callers' = [callers EXCEPT ![c] = AfterOne(c)] /\ UNCHANGED <<disk, asked>>
      /\ ingested' = ingested \/ ingested' = [ingested EXCEPT ![o.digest].status = "failed"]
  BY DEF Fail
<1>3. /\ ingested' \in [Hashes -> [status : {"none", "processing", "failed", "completed"},
                                   attempts : Nat]]
      /\ \A d \in Hashes : Completed(d)' => Completed(d)
  <2>1. CASE ingested' = [ingested EXCEPT ![o.digest].status = "failed"]
    BY <1>1, <2>1, StatusFails DEF DirectInv, Completed
  <2>2. CASE ingested' = ingested
    BY <2>2 DEF DirectInv, DirectTypeOK, Completed
  <2> QED BY <1>2, <2>1, <2>2
<1> QED BY <1>2, <1>3, AfterOneOK, IdleStep DEF DirectInv

(* A process is called, chooses its next receipt, ends or dies.            *)
LEMMA CallStep ==
  ASSUME DirectInv, NEW c \in Callers,
         \/ \E o \in Orders : ProcessMessage(c, o)
         \/ \E kind \in {"backlog", "backlog refresh"} : ProcessBacklog(c, kind)
         \/ Choose(c) \/ EndBacklog(c) \/ Perish(c)
  PROVE  DirectInv'
<1> DEFINE moves == \E x \in CallerStates : /\ callers' = [callers EXCEPT ![c] = x]
                                             /\ x.at \in {"resting", "choosing", "waiting"}
<1>1. ASSUME NEW o \in Orders, ProcessMessage(c, o)
      PROVE  moves
  <2>1. [at |-> "waiting", left |-> {}, order |-> o] \in CallerStates
    BY DEF CallerStates, Given
  <2>2. callers' = [callers EXCEPT ![c] = [at |-> "waiting", left |-> {}, order |-> o]]
    BY <1>1 DEF ProcessMessage
  <2> QED BY <2>1, <2>2
<1>2. ASSUME NEW kind \in {"backlog", "backlog refresh"}, ProcessBacklog(c, kind)
      PROVE  moves
  <2> DEFINE left == {Candidate(p, kind) : p \in {x \in Paths : kind = "backlog" => ~Completed(disk[x])}}
  <2>1. \A p \in Paths : Candidate(p, kind) \in Candidates
    BY DEF Candidate, Candidates, DirectInv, DirectTypeOK
  <2>2. left \in SUBSET Candidates
    BY <2>1
  <2>3. callers' = [callers EXCEPT ![c] = [at |-> "choosing", left |-> left]]
    BY <1>2 DEF ProcessBacklog
  <2> HIDE DEF left
  <2>4. [at |-> "choosing", left |-> left] \in CallerStates
    BY <2>2 DEF CallerStates
  <2> QED BY <2>3, <2>4
<1>3. ASSUME Choose(c)
      PROVE  moves
  <2>1. PICK o \in callers[c].left :
          callers' = [callers EXCEPT ![c] = [at |-> "waiting", left |-> @.left \ {o}, order |-> o]]
    BY <1>3 DEF Choose
  <2>2. [at |-> "waiting", left |-> callers[c].left \ {o}, order |-> o] \in CallerStates
    BY CallerFacts DEF DirectInv, CallerStates, Given
  <2> QED BY <2>1, <2>2
<1>4. ASSUME EndBacklog(c) \/ Perish(c)
      PROVE  moves
  <2>1. callers' = [callers EXCEPT ![c] = Resting] /\ Resting \in CallerStates
    BY <1>4 DEF EndBacklog, Perish, Resting, CallerStates
  <2> QED BY <2>1 DEF Resting
<1>5. UNCHANGED <<disk, asked, ingested>>
  BY DEF ProcessMessage, ProcessBacklog, Choose, EndBacklog, Perish
<1>6. moves
  BY <1>1, <1>2, <1>3, <1>4
<1> QED BY <1>5, <1>6, IdleStep DEF DirectInv, DirectTypeOK, Completed

LEMMA DirectStep == DirectInv /\ [DirectNext]_directVars => DirectInv'
<1> SUFFICES ASSUME DirectInv, [DirectNext]_directVars
             PROVE  DirectInv'
  OBVIOUS
<1>1. CASE UNCHANGED directVars \/ \E p \in Paths, d \in Hashes : EditFile(p, d)
  <2>1. UNCHANGED <<ingested, asked, callers>> /\ disk' \in [Paths -> Hashes]
    BY <1>1 DEF EditFile, directVars, DirectInv, DirectTypeOK
  <2> QED BY <2>1
          DEF DirectInv, DirectTypeOK, OneWorker, WorkedOnce, Working, IsDone, Completed
<1>2. CASE \E c \in Callers : Admit(c) \/ Verify(c) \/ Read(c) \/ Save(c) \/ Fail(c)
  BY <1>2, AdmitStep, WorkStep, SaveStep, FailStep
<1>3. CASE \E c \in Callers : \/ \E o \in Orders : ProcessMessage(c, o)
                            \/ \E kind \in {"backlog", "backlog refresh"} : ProcessBacklog(c, kind)
                            \/ Choose(c) \/ EndBacklog(c) \/ Perish(c)
  BY <1>3, CallStep
<1> QED BY <1>1, <1>2, <1>3 DEF DirectNext

(* A receipt is never worked through twice for the same reason, however    *)
(* many processes were handed it, and a request never beyond its budget.   *)
THEOREM ReceiptsAreWorkedOnce == DirectSpec => []WorkedOnce
<1>1. DirectInv => WorkedOnce
  BY DEF DirectInv
<1> QED BY <1>1, DirectInitOK, DirectStep, PTL DEF DirectSpec

(* A receipt that messages completed has evidence of its own contents:     *)
(* what a message saves was read from, and compared with, the contents it  *)
(* names.                                                                  *)
THEOREM CompletedIsBooked == DirectSpec => []CompletedHasEvidence
<1>1. DirectInit => CompletedHasEvidence
  BY DEF DirectInit, CompletedHasEvidence, Completed
<1>2. DirectInv /\ CompletedHasEvidence /\ [DirectNext]_directVars => CompletedHasEvidence'
  <2> SUFFICES ASSUME DirectInv, CompletedHasEvidence, [DirectNext]_directVars
               PROVE  CompletedHasEvidence'
    OBVIOUS
  <2> USE DEF DirectInv, CompletedHasEvidence, Completed
  <2>1. CASE UNCHANGED <<booked, unverified>> /\ \A d \in Hashes : Completed(d)' => Completed(d)
    BY <2>1
  <2>2. ASSUME NEW c \in Callers, Save(c)
        PROVE  CompletedHasEvidence'
    <3> DEFINE o == callers[c].order
    <3>1. o.digest \in Hashes /\ (o.kind = "cache" => UNCHANGED ingested)
      BY <2>2, CallerFacts, GivenOrders DEF Save
    <3>2. \A d \in Hashes : Completed(d)' => Completed(d) \/ (o.kind # "cache" /\ d = o.digest)
      BY <2>2, <3>1 DEF Save, DirectTypeOK
    <3>3. booked \subseteq booked' /\ unverified \subseteq unverified'
      BY <2>2 DEF Save
    <3>4. o.kind # "cache" => o.digest \in booked' \/ o.digest \in unverified'
      BY <2>2 DEF Save, Intact
    <3> QED BY <3>2, <3>3, <3>4
  <2>3. ASSUME NEW c \in Callers, Admit(c) \/ Fail(c)
        PROVE  UNCHANGED <<booked, unverified>> /\ \A d \in Hashes : Completed(d)' => Completed(d)
    <3> DEFINE o == callers[c].order
    <3>1. o.digest \in Hashes
      BY <2>3, CallerFacts, GivenOrders DEF Admit, Fail, Working
    <3>2. \/ ingested' = ingested
          \/ ingested' = [ingested EXCEPT ![o.digest].status = "failed"]
          \/ ingested' = [ingested EXCEPT ![o.digest] =
                             [status |-> "processing", attempts |-> @.attempts + 1]]
      BY <2>3 DEF Admit, Fail
    <3>3. UNCHANGED <<booked, unverified>>
      BY <2>3 DEF Admit, Fail
    <3> HIDE DEF o
    <3> QED BY <3>1, <3>2, <3>3, StatusFails DEF DirectTypeOK
  <2> QED BY <2>1, <2>2, <2>3
          DEF DirectNext, ProcessMessage, ProcessBacklog, Choose, EndBacklog, Verify, Read, Perish,
              EditFile, directVars
<1>3. DirectSpec => []DirectInv
  BY DirectInitOK, DirectStep, PTL DEF DirectSpec
<1> QED BY <1>1, <1>2, <1>3, PTL DEF DirectSpec

-----------------------------------------------------------------------------
(* The set-up of the ingest schema.                                        *)

SetupStates ==
  [at : {"idle"}] \cup [at : {"waiting"}, code : Releases]
  \cup [at : {"marked", "built"}, code : Releases, target : Colors,
        previous : 0 .. MaxVersion \cup {Missing}]

SchemaTypeOK ==
  /\ release \in Releases
  /\ ingest \in Copies \cup {Missing}
  /\ copies \in [Colors -> Copies \cup {Missing}]
  /\ views \in Colors \cup {Missing}
  /\ tracked \in States \cup {Missing}
  /\ setups \in [Setup -> SetupStates]

Builds(u) == setups[u].at \in {"marked", "built"}

(* The session lock.                                                       *)
OneBuilder == \A u, v \in Setup : Builds(u) /\ Builds(v) => u = v

(* The views are the active copy of the state row, once there is one; the  *)
(* old tables are in use until then.                                       *)
ViewsOK ==
  /\ ingest # Missing => views = Missing /\ ingest.of = Legacy
  /\ views # Missing => copies[views] # Missing
  /\ tracked = Missing => views = Missing
  /\ tracked # Missing => tracked.active = views /\ (tracked.version = 0 <=> views = Missing)

(* A clean row: the active copy is the one it names, the other one is what *)
(* it replaced.                                                            *)
CleanOK ==
  tracked # Missing /\ ~tracked.dirty =>
     /\ views # Missing
     /\ copies[views].of \in {tracked.hash, Legacy}
     /\ tracked.previous # Missing => copies[Other(views)] = replaced

(* A build leaves the row dirty and works on the copy that is not in use.  *)
(* A build that knows a previous version finds it in use, as views or as   *)
(* the old tables.                                                         *)
BuildOK ==
  \A u \in Setup : Builds(u) =>
     /\ tracked # Missing /\ tracked.dirty
     /\ views # Missing => setups[u].target = Other(views)
     /\ views = Missing /\ setups[u].previous # Missing =>
          ingest # Missing /\ setups[u].target = "green"
     /\ setups[u].at = "built" => copies[setups[u].target] = Empty(setups[u].code)

SchemaInv == SchemaTypeOK /\ OneBuilder /\ ViewsOK /\ CleanOK /\ BuildOK

LEMMA Others == Other("blue") = "green" /\ Other("green") = "blue"
BY DEF Other, Colors

LEMMA SchemaInitOK == SchemaInit => SchemaInv
BY SchemaAssumption, MissingAssumption
   DEF SchemaInit, SchemaInv, SchemaTypeOK, OneBuilder, ViewsOK, CleanOK, BuildOK, Builds,
       SetupStates, Releases, Copies, States, Empty, Idle

LEMMA SetupFacts ==
  ASSUME SchemaTypeOK, NEW u \in Setup
  PROVE  /\ setups[u].at \in {"waiting", "marked", "built"} => setups[u].code \in Releases
         /\ Builds(u) => /\ setups[u].target \in Colors
                         /\ setups[u].previous \in 0 .. MaxVersion \cup {Missing}
BY DEF SchemaTypeOK, SetupStates, Builds

(* A set-up that does not build afterwards changes nothing else.           *)
LEMMA SetupIdles ==
  ASSUME SchemaInv, NEW u \in Setup, NEW x \in SetupStates, x.at \in {"idle", "waiting"},
         setups' = [setups EXCEPT ![u] = x],
         UNCHANGED <<ingest, copies, views, tracked, replaced, release>>
  PROVE  SchemaInv'
<1>1. \A v \in Setup : Builds(v)' => Builds(v) /\ setups'[v] = setups[v]
  BY DEF SchemaInv, SchemaTypeOK, Builds
<1> QED BY <1>1 DEF SchemaInv, SchemaTypeOK, OneBuilder, ViewsOK, CleanOK, BuildOK, Builds

LEMMA ImportRowKeeps ==
  ASSUME SchemaInv, ImportRow
  PROVE  SchemaInv'
<1>1. \A c \in Copies : c.rows < MaxRows =>
         [c EXCEPT !.rows = @ + 1] \in Copies /\ [c EXCEPT !.rows = @ + 1].of = c.of
  BY SchemaAssumption DEF Copies
<1>2. UNCHANGED <<release, views, tracked, setups, replaced>>
  BY DEF ImportRow
<1>3. CASE views # Missing
  <2> DEFINE x == [copies[views] EXCEPT !.rows = @ + 1]
  <2>1. copies[views] \in Copies /\ views \in Colors
    BY <1>3 DEF SchemaInv, SchemaTypeOK, ViewsOK
  <2>2. x \in Copies /\ x.of = copies[views].of
    BY <1>1, <1>3, <2>1 DEF ImportRow, Visible
  <2>3. copies' = [copies EXCEPT ![views] = x] /\ UNCHANGED ingest
    BY <1>3 DEF ImportRow
  <2> HIDE DEF x
  <2>4. SchemaTypeOK'
    BY <1>2, <2>1, <2>2, <2>3 DEF SchemaInv, SchemaTypeOK
  <2>5. OneBuilder' /\ ViewsOK'
    BY <1>2, <1>3, <2>1, <2>2, <2>3, MissingAssumption
       DEF SchemaInv, SchemaTypeOK, OneBuilder, Builds, ViewsOK
  <2>6. \A c \in Colors : c # views => copies'[c] = copies[c]
    BY <2>3 DEF SchemaInv, SchemaTypeOK
  <2>7. Other(views) # views /\ Other(views) \in Colors
    BY <2>1, Others DEF Colors
  <2>8. CleanOK'
    BY <1>2, <2>1, <2>2, <2>3, <2>6, <2>7 DEF SchemaInv, SchemaTypeOK, CleanOK
  <2>9. BuildOK'
    BY <1>2, <1>3, <2>3, <2>6, <2>7 DEF SchemaInv, BuildOK, Builds
  <2> QED BY <2>4, <2>5, <2>8, <2>9 DEF SchemaInv
<1>4. CASE views = Missing
  <2>1. ingest \in Copies /\ UNCHANGED copies
    BY <1>4 DEF ImportRow, Visible, SchemaInv, SchemaTypeOK
  <2>2. ingest' \in Copies /\ ingest'.of = ingest.of
    BY <1>1, <1>4, <2>1 DEF ImportRow, Visible
  <2> QED BY <1>2, <1>4, <2>1, <2>2, MissingAssumption
          DEF SchemaInv, SchemaTypeOK, OneBuilder, ViewsOK, CleanOK, BuildOK, Builds
<1> QED BY <1>3, <1>4

(* The next copy to build is never the one in use.                         *)
LEMMA Targets ==
  ASSUME SchemaInv
  PROVE  /\ TargetColor \in Colors /\ PreviousVersion \in 0 .. MaxVersion \cup {Missing}
         /\ views # Missing => TargetColor = Other(views)
         /\ views = Missing /\ PreviousVersion # Missing => ingest # Missing /\ TargetColor = "green"
<1> USE DEF SchemaInv, SchemaTypeOK, ViewsOK, Colors
<1>1. tracked # Missing => tracked \in States
  OBVIOUS
<1>2. PreviousVersion \in 0 .. MaxVersion \cup {Missing}
  BY <1>1, SchemaAssumption DEF PreviousVersion, States
<1>3. TargetColor \in Colors /\ (views # Missing => TargetColor = Other(views))
  BY Others DEF TargetColor, ActiveColor
<1>4. ASSUME views = Missing, PreviousVersion # Missing
      PROVE  ingest # Missing /\ TargetColor = "green"
  <2>1. tracked = Missing
    BY <1>4 DEF PreviousVersion
  <2> QED BY <1>4, <2>1 DEF PreviousVersion, TargetColor, ActiveColor
<1> QED BY <1>2, <1>3, <1>4

LEMMA MarkDirtyKeeps ==
  ASSUME SchemaInv, NEW u \in Setup, MarkDirty(u)
  PROVE  SchemaInv'
<1> DEFINE x == [at |-> "marked", code |-> setups[u].code,
                 target |-> TargetColor, previous |-> PreviousVersion]
<1>1. /\ setups' = [setups EXCEPT ![u] = x] /\ Holder = {}
      /\ UNCHANGED <<release, ingest, copies, views, replaced>>
      /\ setups[u].code \in Releases
  BY SetupFacts DEF MarkDirty, SchemaInv
<1>2. /\ x \in SetupStates /\ x.at = "marked"
      /\ views # Missing => x.target = Other(views)
      /\ views = Missing /\ x.previous # Missing => ingest # Missing /\ x.target = "green"
  BY <1>1, Targets DEF SetupStates
<1> HIDE DEF x
<1>3. /\ tracked' \in States /\ tracked'.dirty
      /\ tracked'.active = views /\ (tracked'.version = 0 <=> views = Missing)
  <2>1. CASE tracked = Missing
    BY <1>1, <2>1, SchemaAssumption DEF MarkDirty, SchemaInv, ViewsOK, States
  <2>2. CASE tracked # Missing
    <3>1. tracked \in States
      BY <2>2 DEF SchemaInv, SchemaTypeOK
    <3>2. tracked' = [tracked EXCEPT !.hash = setups[u].code, !.dirty = TRUE]
      BY <2>2 DEF MarkDirty
    <3> QED BY <1>1, <2>2, <3>1, <3>2 DEF SchemaInv, ViewsOK, States
  <2> QED BY <2>1, <2>2
<1>4. setups' \in [Setup -> SetupStates] /\ setups'[u] = x
      /\ \A v \in Setup : v # u => setups'[v] = setups[v] /\ ~Builds(v)
  BY <1>1, <1>2 DEF SchemaInv, SchemaTypeOK, Holder, Builds
<1>5. SchemaTypeOK' /\ ViewsOK' /\ CleanOK'
  BY <1>1, <1>3, <1>4, MissingAssumption DEF SchemaInv, SchemaTypeOK, ViewsOK, CleanOK
<1>6. OneBuilder' /\ BuildOK'
  BY <1>1, <1>2, <1>3, <1>4, MissingAssumption DEF OneBuilder, BuildOK, Builds
<1> QED BY <1>5, <1>6 DEF SchemaInv

LEMMA BuildSchemaKeeps ==
  ASSUME SchemaInv, NEW u \in Setup, BuildSchema(u)
  PROVE  SchemaInv'
<1> DEFINE x == [setups[u] EXCEPT !.at = "built"]
           t == setups[u].target
           e == Empty(setups[u].code)
<1>1. /\ setups' = [setups EXCEPT ![u] = x] /\ copies' = [copies EXCEPT ![t] = e]
      /\ UNCHANGED <<release, ingest, views, tracked, replaced>>
      /\ Builds(u) /\ t \in Colors
  BY SetupFacts DEF BuildSchema, Builds, SchemaInv
<1>2. e \in Copies
  BY SchemaAssumption, SetupFacts DEF BuildSchema, SchemaInv, Empty, Copies
<1>3. /\ x \in SetupStates /\ x.at = "built" /\ x.target = t /\ x.code = setups[u].code
      /\ x.previous = setups[u].previous
  BY DEF BuildSchema, SchemaInv, SchemaTypeOK, SetupStates
<1>4. setups' \in [Setup -> SetupStates] /\ setups'[u] = x
      /\ \A v \in Setup : v # u => setups'[v] = setups[v] /\ ~Builds(v)
  BY <1>1, <1>3 DEF SchemaInv, SchemaTypeOK, OneBuilder
<1>5. /\ tracked # Missing /\ tracked.dirty /\ (views # Missing => t = Other(views))
      /\ views = Missing /\ setups[u].previous # Missing => ingest # Missing /\ t = "green"
  BY <1>1 DEF SchemaInv, BuildOK
<1>6. views # Missing => copies'[views] = copies[views]
  BY <1>1, <1>5, Others DEF SchemaInv, SchemaTypeOK, Colors
<1>7. copies' \in [Colors -> Copies \cup {Missing}] /\ copies'[t] = e
  BY <1>1, <1>2 DEF SchemaInv, SchemaTypeOK
<1>8. x.at = "built" => copies'[x.target] = Empty(x.code)
  BY <1>3, <1>7
<1> HIDE DEF x, t, e
<1>9. SchemaTypeOK' /\ ViewsOK' /\ CleanOK'
  BY <1>1, <1>4, <1>5, <1>6, <1>7 DEF SchemaInv, SchemaTypeOK, ViewsOK, CleanOK
<1>10. OneBuilder'
  BY <1>4 DEF OneBuilder, Builds
<1>11. BuildOK'
  BY <1>1, <1>3, <1>4, <1>5, <1>8 DEF BuildOK, Builds
<1> QED BY <1>9, <1>10, <1>11 DEF SchemaInv

(* What was in use before is the other copy afterwards.                    *)
LEMMA CutOverKeeps ==
  ASSUME SchemaInv, NEW u \in Setup, CutOver(u)
  PROVE  SchemaInv'
<1> DEFINE job == setups[u]
<1>1. /\ job.at = "built" /\ Builds(u) /\ job.code \in Releases /\ job.target \in Colors
      /\ job.previous \in 0 .. MaxVersion \cup {Missing}
  BY SetupFacts DEF CutOver, Builds, SchemaInv
<1>2. /\ views # Missing => job.target = Other(views)
      /\ views = Missing /\ job.previous # Missing => ingest # Missing /\ job.target = "green"
      /\ copies[job.target] = Empty(job.code)
  BY <1>1 DEF SchemaInv, BuildOK
<1>3. /\ copies' = IF ingest = Missing THEN copies ELSE [copies EXCEPT !["blue"] = ingest]
      /\ ingest' = Missing /\ views' = job.target
      /\ tracked' = [version |-> job.code.version, active |-> job.target,
                     previous |-> job.previous, hash |-> job.code, dirty |-> FALSE]
      /\ setups' = [setups EXCEPT ![u] = Idle]
      /\ replaced' = Visible /\ UNCHANGED release
  BY DEF CutOver
<1>4. Empty(job.code) \in Copies /\ Empty(job.code).of = job.code
  BY <1>1, SchemaAssumption DEF Empty, Copies
<1> HIDE DEF job
<1>5. setups' \in [Setup -> SetupStates] /\ \A v \in Setup : ~Builds(v)'
  <2>1. Idle \in SetupStates /\ Idle.at = "idle"
    BY DEF Idle, SetupStates
  <2>2. \A v \in Setup : v # u => ~Builds(v)
    BY <1>1 DEF SchemaInv, OneBuilder
  <2> QED BY <1>3, <2>1, <2>2 DEF SchemaInv, SchemaTypeOK, Builds
<1>6. tracked' \in States /\ job.code.version # 0
  BY <1>1, <1>3, SchemaAssumption DEF States, Releases
<1>7. /\ copies' \in [Colors -> Copies \cup {Missing}] /\ copies'[job.target] # Missing
      /\ copies'[job.target].of \in {job.code, Legacy}
      /\ job.previous # Missing => copies'[Other(job.target)] = Visible
  <2>1. CASE ingest = Missing
    <3>1. job.previous # Missing => views # Missing /\ Other(job.target) = views
      BY <1>2, <2>1, Others DEF SchemaInv, SchemaTypeOK, Colors
    <3>2. job.previous # Missing => copies[Other(job.target)] = Visible
      BY <3>1 DEF Visible
    <3> QED BY <1>2, <1>3, <1>4, <2>1, <3>2, MissingAssumption DEF SchemaInv, SchemaTypeOK
  <2>2. CASE ingest # Missing
    <3>1. views = Missing /\ ingest.of = Legacy /\ ingest \in Copies
      BY <2>2 DEF SchemaInv, SchemaTypeOK, ViewsOK
    <3>2. copies' = [copies EXCEPT !["blue"] = ingest] /\ Visible = ingest
      BY <1>3, <2>2, <3>1 DEF Visible
    <3>3. copies' \in [Colors -> Copies \cup {Missing}] /\ copies'["blue"] = ingest
          /\ copies'["green"] = copies["green"]
      BY <3>1, <3>2 DEF SchemaInv, SchemaTypeOK, Colors
    <3>4. CASE job.target = "blue"
      BY <1>2, <2>2, <3>1, <3>3, <3>4
    <3>5. CASE job.target = "green"
      BY <1>2, <1>4, <3>2, <3>3, <3>5, Others, MissingAssumption
    <3> QED BY <1>1, <3>4, <3>5 DEF Colors
  <2> QED BY <2>1, <2>2
<1>8. SchemaTypeOK'
  BY <1>1, <1>3, <1>5, <1>6, <1>7 DEF SchemaInv, SchemaTypeOK
<1>9. ViewsOK'
  BY <1>1, <1>3, <1>6, <1>7, MissingAssumption DEF ViewsOK
<1>10. CleanOK'
  BY <1>1, <1>3, <1>7, MissingAssumption DEF CleanOK
<1>11. OneBuilder' /\ BuildOK'
  BY <1>5 DEF OneBuilder, BuildOK
<1> QED BY <1>8, <1>9, <1>10, <1>11 DEF SchemaInv

LEMMA SchemaStep == SchemaInv /\ [SchemaNext]_schemaVars => SchemaInv'
<1> SUFFICES ASSUME SchemaInv, [SchemaNext]_schemaVars
             PROVE  SchemaInv'
  OBVIOUS
<1>1. ASSUME NEW u \in Setup, ReadTemplate(u) \/ LeaveAlone(u) \/ Die(u)
      PROVE  SchemaInv'
  <2>1. /\ UNCHANGED <<ingest, copies, views, tracked, replaced, release>>
        /\ setups' = [setups EXCEPT ![u] = Idle]
           \/ setups' = [setups EXCEPT ![u] = [at |-> "waiting", code |-> release]]
    BY <1>1 DEF ReadTemplate, LeaveAlone, Die
  <2>2. Idle \in SetupStates /\ Idle.at = "idle"
    BY DEF Idle, SetupStates
  <2>3. [at |-> "waiting", code |-> release] \in SetupStates
    BY DEF SchemaInv, SchemaTypeOK, SetupStates
  <2> QED BY <2>1, <2>2, <2>3, SetupIdles
<1>2. ASSUME NEW version \in 1 .. MaxVersion, NEW edited \in BOOLEAN, Deploy(version, edited)
      PROVE  SchemaInv'
  <2>1. release' \in Releases /\ UNCHANGED <<ingest, copies, views, tracked, setups, replaced>>
    BY <1>2 DEF Deploy, Releases
  <2> QED BY <2>1 DEF SchemaInv, SchemaTypeOK, OneBuilder, ViewsOK, CleanOK, BuildOK, Builds
<1>3. CASE UNCHANGED schemaVars
  BY <1>3 DEF schemaVars, SchemaInv, SchemaTypeOK, OneBuilder, ViewsOK, CleanOK, BuildOK, Builds
<1> QED BY <1>1, <1>2, <1>3, ImportRowKeeps, MarkDirtyKeeps, BuildSchemaKeeps, CutOverKeeps
        DEF SchemaNext, SetupStep

(* Importers always have a copy to work on, whichever set-ups died, and    *)
(* behind a clean state row the copy it replaced is kept as they left it.  *)
THEOREM RollbackCopyIsKept == SchemaSpec => []RollbackCopyKept
<1>1. SchemaInv => RollbackCopyKept
  BY DEF SchemaInv, ViewsOK, CleanOK, RollbackCopyKept
<1> QED BY <1>1, SchemaInitOK, SchemaStep, PTL DEF SchemaSpec

-----------------------------------------------------------------------------
(* The refresh of a source folder.                                         *)

RefreshTypeOK ==
  /\ folder \in [References -> Digests \cup {Nowhere}]
  /\ artifacts \in [References -> Artifacts \cup {Nowhere}]
  /\ ocr # Nowhere => ocr.reference \in References /\ ocr.of \in Digests
  /\ ocrs \in Nat

(* The states of the command after it has its locks.                       *)
CommandOK ==
  /\ command.at = "copying" =>
       command = [at |-> "copying", version |-> command.version, stale |-> command.stale,
                  left |-> command.left]
  /\ command.at = "retiring" =>
       \/ command = [at |-> "retiring", stale |-> command.stale, left |-> command.left]
       \/ command = [at |-> "retiring", version |-> command.version, stale |-> command.stale,
                     left |-> command.left]

(* What was copied is retained, and everything stale is copied before      *)
(* anything is retired.                                                    *)
CopiedOK ==
  /\ command.at = "copying" =>
       \A e \in command.stale : e \in command.left \/ e.artifact \in retained
  /\ command.at \in {"retiring", "unlinking"} =>
       /\ command.left \subseteq command.stale
       /\ \A e \in command.stale : e.artifact \in retained
  /\ command.at = "unlinking" =>
       /\ command.seen.artifact \in retained
       /\ command.seen.file # command.seen.artifact.of

RefreshInv == RefreshTypeOK /\ CommandOK /\ CopiedOK

LEMMA RefreshInitOK == RefreshInit => RefreshInv
<1> SUFFICES ASSUME RefreshInit
             PROVE  RefreshInv
  OBVIOUS
<1>1. command.at = "idle"
  BY DEF RefreshInit, NoCommand
<1>2. RefreshTypeOK
  <2>1. PICK d \in Digests, r \in References :
          /\ folder = [f \in References |-> IF f = r THEN d ELSE Nowhere]
          /\ artifacts = [f \in References |-> IF f = r THEN [of |-> d, run |-> 1] ELSE Nowhere]
    BY DEF RefreshInit
  <2>2. [of |-> d, run |-> 1] \in Artifacts
    BY DEF Artifacts
  <2> QED BY <2>1, <2>2 DEF RefreshInit, RefreshTypeOK
<1> QED BY <1>1, <1>2 DEF RefreshInv, CommandOK, CopiedOK

LEMMA RefreshStep == RefreshInv /\ [RefreshNext]_refreshVars => RefreshInv'
<1> SUFFICES ASSUME RefreshInv, [RefreshNext]_refreshVars
             PROVE  RefreshInv'
  OBVIOUS
<1> USE DEF RefreshInv
<1>1. CASE UNCHANGED refreshVars
  BY <1>1 DEF refreshVars, RefreshTypeOK, CommandOK, CopiedOK
<1>2. ASSUME \/ \E r \in References, d \in Digests \cup {Nowhere} : ChangeFile(r, d)
             \/ \E d \in Digests, r \in References : ImportReceipt(d, r)
             \/ \E r \in References : StartOcr(r)
             \/ EndOcr
      PROVE  RefreshInv'
  <2>1. UNCHANGED <<command, retained>>
    BY <1>2 DEF ChangeFile, ImportReceipt, StartOcr, EndOcr
  <2>2. CASE EndOcr
    <3>1. [of |-> ocr.of, run |-> ocrs + 1] \in Artifacts
      BY <2>2 DEF EndOcr, RefreshTypeOK, Artifacts
    <3> QED BY <2>1, <2>2, <3>1 DEF EndOcr, RefreshTypeOK, CommandOK, CopiedOK
  <2>3. CASE ~EndOcr
    <3>1. RefreshTypeOK'
      BY <1>2, <2>3, NowhereAssumption DEF ChangeFile, ImportReceipt, StartOcr, RefreshTypeOK
    <3> QED BY <2>1, <3>1 DEF CommandOK, CopiedOK
  <2> QED BY <2>2, <2>3
<1>3. ASSUME Preview \/ Inspect \/ Compare \/ Stop
      PROVE  RefreshInv'
  <2>1. command'.at \in {"idle", "previewed", "inspected", "waiting"}
    BY <1>3 DEF Preview, Inspect, Compare, Stop, NoCommand
  <2>2. UNCHANGED <<folder, artifacts, ocr, ocrs>>
    BY <1>3 DEF Preview, Inspect, Compare, Stop
  <2> QED BY <2>1, <2>2 DEF RefreshTypeOK, CommandOK, CopiedOK
<1>4. CASE TakeLocks
  BY <1>4 DEF TakeLocks, NoCommand, RefreshTypeOK, CommandOK, CopiedOK
<1>5. ASSUME NEW e \in command.left, Retain(e)
      PROVE  RefreshInv'
  <2>1. command = [at |-> "copying", version |-> command.version, stale |-> command.stale,
                   left |-> command.left]
    BY <1>5 DEF Retain, CommandOK
  <2>2. \/ command' = NoCommand
        \/ /\ command' = [at |-> "copying", version |-> command.version, stale |-> command.stale,
                          left |-> command.left \ {e}]
           /\ retained' = retained \cup {e.artifact}
    BY <1>5, <2>1 DEF Retain
  <2>3. UNCHANGED <<folder, artifacts, ocr, ocrs>> /\ command.at = "copying"
    BY <1>5 DEF Retain
  <2> QED BY <2>2, <2>3 DEF NoCommand, RefreshTypeOK, CommandOK, CopiedOK
<1>6. CASE Reconcile
  <2>1. command = [at |-> "copying", version |-> command.version, stale |-> command.stale,
                   left |-> command.left]
    BY <1>6 DEF Reconcile, CommandOK
  <2>2. \/ command' = NoCommand
        \/ command' = [at |-> "retiring", version |-> command.version, stale |-> command.stale,
                       left |-> command.stale]
    BY <1>6, <2>1 DEF Reconcile
  <2>3. UNCHANGED <<folder, artifacts, ocr, ocrs, retained>> /\ command.at = "copying" /\ command.left = {}
    BY <1>6 DEF Reconcile
  <2> QED BY <2>2, <2>3 DEF NoCommand, RefreshTypeOK, CommandOK, CopiedOK
<1>7. ASSUME NEW e \in command.left, Check(e)
      PROVE  RefreshInv'
  <2>1. UNCHANGED <<folder, artifacts, ocr, ocrs, retained>> /\ command.at = "retiring"
    BY <1>7 DEF Check
  <2>2. e.artifact \in retained
    BY <2>1 DEF CopiedOK
  <2>3. CASE StillRetired(e)
    BY <1>7, <2>1, <2>2, <2>3 DEF Check, StillRetired, RefreshTypeOK, CommandOK, CopiedOK
  <2>4. CASE ~StillRetired(e)
    <3>1. \/ command' = [at |-> "retiring", stale |-> command.stale, left |-> command.left \ {e}]
          \/ command' = [at |-> "retiring", version |-> command.version, stale |-> command.stale,
                         left |-> command.left \ {e}]
      BY <1>7, <2>1, <2>4 DEF Check, CommandOK
    <3> QED BY <2>1, <3>1 DEF RefreshTypeOK, CommandOK, CopiedOK
  <2> QED BY <2>3, <2>4
<1>8. CASE Unlink
  <2>1. RefreshTypeOK'
    BY <1>8 DEF Unlink, RefreshTypeOK
  <2> QED BY <1>8, <2>1 DEF Unlink, CommandOK, CopiedOK
<1> QED BY <1>1, <1>2, <1>3, <1>4, <1>5, <1>6, <1>7, <1>8 DEF RefreshNext

(* No cache leaves the active directory unless its bytes are retained and  *)
(* its file had gone from the reference when the command looked last.      *)
THEOREM CachesAreRetained == RefreshSpec => RetiredIsRetained
<1>1. RefreshInv /\ [RefreshNext]_refreshVars =>
         \A r \in References : artifacts[r] # Nowhere /\ artifacts'[r] = Nowhere =>
            command.seen.artifact \in retained /\ command.seen.file # command.seen.artifact.of
  <2> SUFFICES ASSUME RefreshInv, [RefreshNext]_refreshVars, NEW r \in References,
                      artifacts[r] # Nowhere, artifacts'[r] = Nowhere
               PROVE  command.seen.artifact \in retained
                      /\ command.seen.file # command.seen.artifact.of
    OBVIOUS
  <2>1. ~EndOcr
    <3> SUFFICES ASSUME EndOcr
                 PROVE  FALSE
      OBVIOUS
    <3>1. [of |-> ocr.of, run |-> ocrs + 1] \in Artifacts
      BY DEF EndOcr, RefreshInv, RefreshTypeOK, Artifacts
    <3> QED BY <3>1, NowhereAssumption DEF EndOcr, RefreshInv, RefreshTypeOK
  <2>2. Unlink
    BY <2>1 DEF RefreshNext, refreshVars, ChangeFile, ImportReceipt, StartOcr, Preview, Inspect,
                Compare, TakeLocks, Retain, Reconcile, Check, Stop
  <2> QED BY <2>2 DEF Unlink, RefreshInv, CopiedOK
<1>2. RefreshSpec => []RefreshInv
  BY RefreshInitOK, RefreshStep, PTL DEF RefreshSpec
<1>3. RefreshInv /\ [RefreshNext]_refreshVars =>
         [\A r \in References : artifacts[r] # Nowhere /\ artifacts'[r] = Nowhere =>
             LET look == command.seen
             IN look = [artifact |-> artifacts[r], file |-> folder[r]] =>
                   /\ look.artifact \in retained
                   /\ look.file # look.artifact.of]_refreshVars
  BY <1>1
<1> QED BY <1>2, <1>3, PTL DEF RefreshSpec, RetiredIsRetained

-----------------------------------------------------------------------------
(* Normal intake, reservations and the operator's reset.                   *)

LEMMA IntakeInitOK == IntakeInit => IntakeTypeOK
BY DEF IntakeInit, IntakeTypeOK, NothingSeen, EmptyBag, SetToBag

(* What EndIntake leaves of a publisher.                                   *)
LEMMA EndIntakeTypes ==
  ASSUME IntakeTypeOK, NEW p \in Publisher, EndIntake(p)
  PROVE  /\ lock' \in Publisher \cup {NoPublisher}
         /\ stage' \in [Publisher -> {"idle", "planning", "selecting", "publishing"}]
         /\ seen' \in [Publisher -> [pending : SUBSET Source, skipped : SUBSET Source]]
         /\ batch' \in [Publisher -> SUBSET Message]
         /\ current' \in [Publisher -> Message \cup {NoMessage}]
         /\ stamp' \in [Publisher -> 0..clock]
         /\ \A q \in Publisher : stage'[q] # "publishing" =>
              batch'[q] = {} /\ current'[q] = NoMessage /\ stamp'[q] = 0
<1>1. NothingSeen \in [pending : SUBSET Source, skipped : SUBSET Source]
  BY DEF NothingSeen
<1> QED BY <1>1 DEF EndIntake, IntakeTypeOK

(* Rows and times stay within the clock when it goes on.                   *)
LEMMA ClockTypes ==
  ASSUME IntakeTypeOK, clock' \in {clock, Now}
  PROVE  /\ clock' \in Nat
         /\ 0..clock \subseteq 0..clock' /\ 1..clock \subseteq 1..clock'
         /\ completion \in [Source -> 0..clock'] /\ stamp \in [Publisher -> 0..clock']
         /\ intake \subseteq [message : Message, at : 1..clock']
         /\ releases \subseteq [source : Source, at : 1..clock']
         /\ resetting \in [source : Source, at : 1..clock'] \cup {NoReset}
<1>1. clock' \in Nat /\ 0..clock \subseteq 0..clock' /\ 1..clock \subseteq 1..clock'
  BY DEF IntakeTypeOK, Now
<1>2. completion \in [Source -> 0..clock'] /\ stamp \in [Publisher -> 0..clock']
  BY <1>1 DEF IntakeTypeOK
<1> HIDE DEF Now
<1>3. intake \subseteq [message : Message, at : 1..clock']
  <2>1. ASSUME NEW row \in [message : Message, at : 1..clock]
        PROVE  row \in [message : Message, at : 1..clock']
    BY <1>1
  <2> QED BY <2>1 DEF IntakeTypeOK
<1>4. /\ releases \subseteq [source : Source, at : 1..clock']
      /\ resetting \in [source : Source, at : 1..clock'] \cup {NoReset}
  <2>1. ASSUME NEW x \in [source : Source, at : 1..clock]
        PROVE  x \in [source : Source, at : 1..clock']
    BY <1>1
  <2> QED BY <2>1 DEF IntakeTypeOK
<1> QED BY <1>1, <1>2, <1>3, <1>4

(* A message of a row, of a batch or on its way is a message.              *)
LEMMA QueueTypes ==
  ASSUME IntakeTypeOK, NEW m \in DOMAIN queued
  PROVE  m \in Message /\ m.source \in Source
         /\ DOMAIN BagRemove(queued, m) \subseteq Message
BY DEF IntakeTypeOK, BagRemove, Message

LEMMA SendTypes ==
  ASSUME IntakeTypeOK, NEW m \in Message, BrokerAccepts(m)
  PROVE  DOMAIN queued' \subseteq Message /\ DOMAIN sends' \subseteq Message
BY DEF IntakeTypeOK, BrokerAccepts, BagAdd

LEMMA NewRowTypes ==
  ASSUME IntakeTypeOK, NEW m \in Message, NEW t \in 1..clock',
         intake' = intake \cup {Row(m, t)}, clock' \in {clock, Now}
  PROVE  intake' \subseteq [message : Message, at : 1..clock']
BY ClockTypes DEF Row

LEMMA IntakeTypeStep == IntakeTypeOK /\ [IntakeNext]_intakeVars => IntakeTypeOK'
<1> SUFFICES ASSUME IntakeTypeOK, [IntakeNext]_intakeVars
             PROVE  IntakeTypeOK'
  OBVIOUS
<1> USE DEF discovery, lineage, broker, locals, counters
<1> HIDE DEF Message
<1>t. Now \in Nat /\ Now \in 1..Now /\ Now \in 0..Now
  BY DEF IntakeTypeOK, Now
<1>1. CASE UNCHANGED intakeVars
  BY <1>1 DEF intakeVars, IntakeTypeOK
<1>2. ASSUME NEW p \in Publisher, LockIntake(p)
      PROVE  IntakeTypeOK'
  BY <1>2 DEF LockIntake, IntakeTypeOK
<1>3. ASSUME NEW p \in Publisher, ReadStatus(p)
      PROVE  IntakeTypeOK'
  BY <1>3 DEF ReadStatus, IntakeTypeOK
<1>4. ASSUME NEW p \in Publisher, SelectBatch(p)
      PROVE  IntakeTypeOK'
  <2>1. clock' \in {clock, Now}
    BY <1>4 DEF SelectBatch
  <2>2. CASE Eligible(p) = {}
    <3>1. EndIntake(p)
      BY <1>4, <2>2 DEF SelectBatch
    <3>2. stamp' \in [Publisher -> 0..clock']
      BY <3>1, <2>1, EndIntakeTypes, ClockTypes
    <3> QED BY <1>4, <2>1, <3>1, <3>2, EndIntakeTypes, ClockTypes DEF SelectBatch, IntakeTypeOK
  <2>3. CASE Eligible(p) # {}
    <3>1. Eligible(p) \subseteq Message
      BY DEF Eligible, Planned, Import, Repair, IntakeTypeOK, Message
    <3>2. batch' \in [Publisher -> SUBSET Message]
      BY <1>4, <2>3, <3>1 DEF SelectBatch, IntakeTypeOK
    <3>3. stamp' \in [Publisher -> 0..clock']
      BY <1>4, <1>t, <2>1, <2>3, ClockTypes DEF SelectBatch, IntakeTypeOK
    <3>4. seen' \in [Publisher -> [pending : SUBSET Source, skipped : SUBSET Source]]
      BY <1>4, <2>3 DEF SelectBatch, IntakeTypeOK, NothingSeen
    <3>5. \A q \in Publisher : stage'[q] # "publishing" =>
             batch'[q] = {} /\ current'[q] = NoMessage /\ stamp'[q] = 0
      BY <1>4, <2>3 DEF SelectBatch, IntakeTypeOK
    <3> QED BY <1>4, <2>1, <2>3, <3>2, <3>3, <3>4, <3>5, ClockTypes DEF SelectBatch, IntakeTypeOK
  <2> QED BY <2>2, <2>3
<1>5. ASSUME NEW p \in Publisher, NEW m \in batch[p], Reserve(p, m)
      PROVE  IntakeTypeOK'
  <2>1. m \in Message
    BY DEF IntakeTypeOK
  <2>2. PICK t \in {stamp[p], Now} :
          /\ intake' = intake \cup {Row(m, t)} /\ t # 0
          /\ clock' = IF t = stamp[p] THEN clock ELSE Now
    BY <1>5, <1>t DEF Reserve, IntakeTypeOK, Now
  <2>3. clock' \in {clock, Now} /\ t \in 1..clock'
    BY <2>2, <1>t DEF IntakeTypeOK
  <2>4. intake' \subseteq [message : Message, at : 1..clock']
    BY <2>1, <2>2, <2>3, NewRowTypes
  <2>5. stamp' \in [Publisher -> 0..clock']
    BY <1>5, <2>3, ClockTypes DEF Reserve
  <2> QED BY <1>5, <2>1, <2>3, <2>4, <2>5, ClockTypes DEF Reserve, IntakeTypeOK
<1>6. ASSUME NEW p \in Publisher, Send(p)
      PROVE  IntakeTypeOK'
  <2>1. current[p] \in Message /\ BrokerAccepts(current[p])
    BY <1>6 DEF Send, IntakeTypeOK
  <2>2. clock' \in {clock, Now}
    BY <1>6 DEF Send
  <2>3. intake' \subseteq [message : Message, at : 1..clock']
    <3>1. CASE UNCHANGED <<intake, clock>>
      BY <3>1 DEF IntakeTypeOK
    <3>2. CASE intake' = intake \cup {Row(current[p], Now)} /\ clock' = Now
      BY <1>t, <2>1, <2>2, <3>2, NewRowTypes
    <3> QED BY <1>6, <3>1, <3>2 DEF Send
  <2> QED BY <1>6, <2>1, <2>2, <2>3, SendTypes, ClockTypes DEF Send, IntakeTypeOK
<1>7. ASSUME NEW p \in Publisher, SendFails(p)
      PROVE  IntakeTypeOK'
  <2>1. current[p] \in Message /\ EndIntake(p)
    BY <1>7 DEF SendFails, IntakeTypeOK
  <2>2. DOMAIN queued' \subseteq Message /\ DOMAIN sends' \subseteq Message
    BY <1>7, <2>1, SendTypes DEF SendFails, IntakeTypeOK
  <2> QED BY <1>7, <2>1, <2>2, EndIntakeTypes DEF SendFails, IntakeTypeOK
<1>8. ASSUME NEW p \in Publisher, FinishIntake(p) \/ CrashIntake(p)
      PROVE  IntakeTypeOK'
  BY <1>8, EndIntakeTypes DEF FinishIntake, CrashIntake, IntakeTypeOK
<1>9. ASSUME NEW p \in Publisher, LoseSession(p)
      PROVE  IntakeTypeOK'
  BY <1>9 DEF LoseSession, IntakeTypeOK
<1>10. ASSUME NEW s \in Source, BeginReset(s)
       PROVE  IntakeTypeOK'
  <2>1. resetting' \in [source : Source, at : 1..clock'] \cup {NoReset}
    BY <1>10, <1>t DEF BeginReset
  <2> QED BY <1>10, <2>1, ClockTypes DEF BeginReset, IntakeTypeOK
<1>11. CASE CommitReset
  BY <1>11 DEF CommitReset, IntakeTypeOK
<1>12. CASE AbandonReset
  BY <1>12 DEF AbandonReset, IntakeTypeOK
<1>13. ASSUME NEW m \in DOMAIN queued, RecordRetry(m)
       PROVE  IntakeTypeOK'
  <2>1. intake' \subseteq [message : Message, at : 1..clock']
    BY <1>13, <1>t, QueueTypes, NewRowTypes DEF RecordRetry
  <2>2. DOMAIN queued' \subseteq Message
    BY <1>13, QueueTypes DEF RecordRetry, IntakeTypeOK
  <2> QED BY <1>13, <2>1, <2>2, ClockTypes DEF RecordRetry, IntakeTypeOK
<1>14. ASSUME NEW m \in DOMAIN queued, FinishOcr(m)
       PROVE  IntakeTypeOK'
  BY <1>14, QueueTypes DEF FinishOcr, IntakeTypeOK
<1>15. ASSUME NEW s \in Source, Collect(s)
       PROVE  IntakeTypeOK'
  <2>1. completion' \in [Source -> 0..clock'] /\ clock' \in {clock, Now}
    BY <1>15, <1>t, ClockTypes DEF Collect
  <2> QED BY <1>15, <2>1, ClockTypes DEF Collect, IntakeTypeOK
<1>16. ASSUME NEW s \in Source, DropArtifact(s)
       PROVE  IntakeTypeOK'
  BY <1>16 DEF DropArtifact, IntakeTypeOK
<1> QED BY <1>1, <1>2, <1>3, <1>4, <1>5, <1>6, <1>7, <1>8, <1>9, <1>10, <1>11, <1>12, <1>13,
           <1>14, <1>15, <1>16 DEF IntakeNext

(* A repair is named after a completion that nothing takes back.           *)
Sound(m) == m.epoch # 0 => status[m.source] = "completed"

CompletedOK == \A s \in Source : status[s] # "completed" => completion[s] = 0

RepairsOK ==
  /\ \A m \in DOMAIN queued : Sound(m)
  /\ \A row \in intake : Sound(row.message)
  /\ \A p \in Publisher : /\ current[p] # NoMessage => Sound(current[p])
                          /\ \A m \in batch[p] : Sound(m)

(* What the broker has of a message, with what is on its way to it, against *)
(* the resets that have been paid for and the reservation that is held.    *)
Pending(m) == {p \in Publisher : current[p] = m}
Count(m)   == Sent(m) + Cardinality(Pending(m))
Budget(m)  == IF m.epoch = 0 THEN resets[m.source] ELSE 0

CopiesOK ==
  /\ sends \in [DOMAIN sends -> Nat]
  /\ \A m \in Message : Count(m) <= Budget(m) + (IF Held(m) THEN 1 ELSE 0)

(* What the holder of the intake lock has selected is still free, and its  *)
(* first reservation will not be older than a release.                     *)
LockOK ==
  lock # NoPublisher =>
    /\ \A m \in batch[lock] : Count(m) <= Budget(m)
    /\ stamp[lock] # 0 => \A x \in releases : x.at <= stamp[lock]

CompletionInv == IntakeTypeOK /\ CompletedOK
IntakeInv == IntakeTypeOK /\ RepairsOK /\ CopiesOK /\ LockOK

LEMMA CompletionStep == CompletionInv /\ [IntakeNext]_intakeVars => CompletionInv'
<1> SUFFICES ASSUME CompletionInv, [IntakeNext]_intakeVars
             PROVE  CompletionInv'
  OBVIOUS
<1> USE DEF CompletionInv, discovery, lineage, broker, locals, counters
<1>1. IntakeTypeOK'
  BY IntakeTypeStep
<1>2. CASE UNCHANGED <<status, completion>>
  BY <1>1, <1>2 DEF CompletedOK
<1>3. CASE CommitReset
  BY <1>1, <1>3 DEF CommitReset, CompletedOK, IntakeTypeOK
<1>4. ASSUME NEW s \in Source, Collect(s)
      PROVE  CompletedOK'
  BY <1>4 DEF Collect, CompletedOK, IntakeTypeOK
<1>5. UNCHANGED <<status, completion>> \/ CommitReset \/ \E s \in Source : Collect(s)
  BY DEF IntakeNext, intakeVars, LockIntake, ReadStatus, SelectBatch, Reserve, Send, SendFails,
         FinishIntake, CrashIntake, LoseSession, BeginReset, AbandonReset, RecordRetry, FinishOcr,
         DropArtifact
<1> QED BY <1>1, <1>2, <1>3, <1>4, <1>5

(* A reset never takes back a completion.                                  *)
THEOREM ResetKeepsCompletion == IntakeSpec => CompletionKept
<1> USE DEF discovery, lineage, broker, locals, counters
<1>1. IntakeInit => CompletionInv
  BY IntakeInitOK DEF IntakeInit, CompletionInv, CompletedOK
<1>2. CompletionInv /\ [IntakeNext]_intakeVars =>
         [\A s \in Source : completion'[s] >= completion[s]]_intakeVars
  <2> SUFFICES ASSUME CompletionInv, IntakeNext
               PROVE  \A s \in Source : completion'[s] >= completion[s]
    OBVIOUS
  <2>1. CASE UNCHANGED completion
    BY <2>1 DEF CompletionInv, IntakeTypeOK
  <2>2. CASE CommitReset
    BY <2>2 DEF CommitReset, Resettable, CompletionInv, CompletedOK, IntakeTypeOK
  <2>3. ASSUME NEW s \in Source, Collect(s)
        PROVE  \A r \in Source : completion'[r] >= completion[r]
    BY <2>3 DEF Collect, Now, CompletionInv, IntakeTypeOK
  <2>4. UNCHANGED completion \/ CommitReset \/ \E s \in Source : Collect(s)
    BY DEF IntakeNext, LockIntake, ReadStatus, SelectBatch, Reserve, Send, SendFails,
           FinishIntake, CrashIntake, LoseSession, BeginReset, AbandonReset, RecordRetry,
           FinishOcr, DropArtifact
  <2> QED BY <2>1, <2>2, <2>3, <2>4
<1> QED BY <1>1, <1>2, CompletionStep, PTL DEF IntakeSpec, CompletionKept

-----------------------------------------------------------------------------
(* Counting copies.                                                        *)

LEMMA CountTypes ==
  ASSUME IntakeTypeOK, CopiesOK, NEW m \in Message
  PROVE  /\ Sent(m) \in Nat /\ Budget(m) \in Nat /\ Count(m) \in Nat
         /\ IsFiniteSet(Pending(m)) /\ Cardinality(Pending(m)) \in Nat
<1>1. Sent(m) \in Nat
  BY DEF CopiesOK, Sent
<1>2. IsFiniteSet(Pending(m)) /\ Cardinality(Pending(m)) \in Nat
  BY IntakeAssumption, FS_Subset, FS_CardinalityType DEF Pending
<1>3. Budget(m) \in Nat
  BY DEF Budget, Message, IntakeTypeOK
<1> QED BY <1>1, <1>2, <1>3 DEF Count

(* The broker counts one copy of what it accepts.                          *)
LEMMA AcceptCounts ==
  ASSUME sends \in [DOMAIN sends -> Nat], NEW k, BrokerAccepts(k), NEW m
  PROVE  /\ sends' \in [DOMAIN sends' -> Nat]
         /\ Sent(m)' = Sent(m) + (IF m = k THEN 1 ELSE 0)
BY DEF BrokerAccepts, BagAdd, Sent

(* One publisher moves on.                                                 *)
LEMMA PendingMoves ==
  ASSUME IntakeTypeOK, NEW p \in Publisher, NEW y, NEW m \in Message,
         current' = [current EXCEPT ![p] = y]
  PROVE  Cardinality(Pending(m))' = Cardinality(Pending(m))
           - (IF current[p] = m THEN 1 ELSE 0) + (IF y = m THEN 1 ELSE 0)
<1>1. IsFiniteSet(Pending(m)) /\ Cardinality(Pending(m)) \in Nat
  BY IntakeAssumption, FS_Subset, FS_CardinalityType DEF Pending
<1>2. p \in Pending(m) <=> current[p] = m
  BY DEF Pending
<1>3. CASE y = m
  <2>1. Pending(m)' = Pending(m) \cup {p}
    BY <1>3 DEF Pending, IntakeTypeOK
  <2>2. Cardinality(Pending(m) \cup {p}) =
          IF p \in Pending(m) THEN Cardinality(Pending(m)) ELSE Cardinality(Pending(m)) + 1
    BY <1>1, FS_AddElement
  <2>3. Cardinality(Pending(m))' = Cardinality(Pending(m) \cup {p})
    BY <2>1
  <2> QED BY <1>1, <1>2, <1>3, <2>2, <2>3
<1>4. CASE y # m
  <2>1. Pending(m)' = Pending(m) \ {p}
    BY <1>4 DEF Pending, IntakeTypeOK
  <2>2. Cardinality(Pending(m) \ {p}) =
          IF p \in Pending(m) THEN Cardinality(Pending(m)) - 1 ELSE Cardinality(Pending(m))
    BY <1>1, FS_RemoveElement
  <2>3. Cardinality(Pending(m))' = Cardinality(Pending(m) \ {p})
    BY <2>1
  <2> QED BY <1>1, <1>2, <1>4, <2>2, <2>3
<1> QED BY <1>3, <1>4

(* A row is never taken back, and releases are only added by a reset.      *)
LEMMA HeldStays ==
  ASSUME intake \subseteq intake', releases' = releases, NEW m
  PROVE  Held(m) => Held(m)'
BY DEF Held, Released

LEMMA CountStays ==
  ASSUME UNCHANGED <<sends, current>>, NEW m
  PROVE  Count(m)' = Count(m)
BY DEF Count, Sent, Pending

(* A command that ends takes back no copy and adds none it had not begun.  *)
LEMMA EndCounts ==
  ASSUME IntakeTypeOK, CopiesOK, NEW p \in Publisher, EndIntake(p),
         \/ sends' = sends
         \/ current[p] # NoMessage /\ BrokerAccepts(current[p])
  PROVE  /\ sends' \in [DOMAIN sends' -> Nat]
         /\ \A m \in Message : Count(m)' <= Count(m)
<1>1. sends' \in [DOMAIN sends' -> Nat]
  BY AcceptCounts DEF CopiesOK
<1>2. ASSUME NEW m \in Message
      PROVE  Count(m)' <= Count(m)
  <2>1. Sent(m)' = Sent(m) \/ (current[p] = m /\ Sent(m)' = Sent(m) + 1)
    <3>1. CASE sends' = sends
      BY <3>1 DEF Sent
    <3>2. CASE current[p] # NoMessage /\ BrokerAccepts(current[p])
      BY <3>2, <1>2, CountTypes, AcceptCounts DEF CopiesOK
    <3> QED BY <3>1, <3>2
  <2>2. Cardinality(Pending(m))' = Cardinality(Pending(m)) - (IF current[p] = m THEN 1 ELSE 0)
    <3>1. NoMessage # m
      BY NoMessageAssumption
    <3>2. current' = [current EXCEPT ![p] = NoMessage]
      BY DEF EndIntake
    <3>3. Cardinality(Pending(m)) \in Nat
      BY CountTypes
    <3>4. Cardinality(Pending(m))' = Cardinality(Pending(m))
            - (IF current[p] = m THEN 1 ELSE 0) + (IF NoMessage = m THEN 1 ELSE 0)
      BY <3>2, <1>2, PendingMoves
    <3> QED BY <3>1, <3>3, <3>4
  <2>3. /\ Sent(m) \in Nat /\ Cardinality(Pending(m)) \in Nat
    BY CountTypes
  <2>4. Count(m)' = Sent(m)' + Cardinality(Pending(m))' /\ Count(m) = Sent(m) + Cardinality(Pending(m))
    BY DEF Count
  <2> QED BY <2>1, <2>2, <2>3, <2>4
<1> QED BY <1>1, <1>2

(* Steps that send nothing new, release nothing and select nothing.        *)
LEMMA QuietStep ==
  ASSUME IntakeTypeOK, IntakeTypeOK', CopiesOK, LockOK,
         intake \subseteq intake', UNCHANGED <<releases, resets>>,
         sends' \in [DOMAIN sends' -> Nat],
         \A m \in Message : Count(m)' <= Count(m),
         lock' \in {lock, NoPublisher},
         lock' # NoPublisher => batch'[lock'] = batch[lock'] /\ stamp'[lock'] = stamp[lock']
  PROVE  CopiesOK' /\ LockOK'
<1>1. ASSUME NEW m \in Message
      PROVE  Budget(m)' = Budget(m) /\ Count(m) \in Nat /\ Budget(m) \in Nat /\ Count(m)' \in Int
  <2>1. Count(m)' \in Int
    <3>1. Sent(m)' \in Nat
      BY DEF Sent
    <3>2. Pending(m)' \subseteq Publisher
      BY DEF Pending
    <3>3. Cardinality(Pending(m)') \in Nat
      BY <3>2, IntakeAssumption, FS_Subset, FS_CardinalityType
    <3>4. Count(m)' = Sent(m)' + Cardinality(Pending(m)')
      BY DEF Count
    <3> QED BY <3>1, <3>3, <3>4
  <2> QED BY <2>1, CountTypes DEF Budget
<1>2. CopiesOK'
  <2>1. ASSUME NEW m \in Message
        PROVE  Count(m)' <= Budget(m)' + (IF Held(m)' THEN 1 ELSE 0)
    <3>1. Count(m) <= Budget(m) + (IF Held(m) THEN 1 ELSE 0) /\ Count(m)' <= Count(m)
      BY DEF CopiesOK
    <3>2. Held(m) => Held(m)'
      BY HeldStays
    <3>3. CASE Held(m)'
      BY <1>1, <3>1, <3>3
    <3>4. CASE ~Held(m)'
      BY <1>1, <3>1, <3>2, <3>4
    <3> QED BY <3>3, <3>4
  <2> QED BY <2>1 DEF CopiesOK
<1>3. LockOK'
  <2> SUFFICES ASSUME lock' # NoPublisher
               PROVE  /\ \A m \in batch'[lock'] : Count(m)' <= Budget(m)'
                      /\ stamp'[lock'] # 0 => \A x \in releases' : x.at <= stamp'[lock']
    BY DEF LockOK
  <2>1. lock' = lock /\ lock \in Publisher /\ batch'[lock'] = batch[lock] /\ stamp'[lock'] = stamp[lock]
    BY DEF IntakeTypeOK
  <2>2. ASSUME NEW m \in batch[lock]
        PROVE  Count(m)' <= Budget(m)'
    <3>1. m \in Message /\ Count(m) <= Budget(m)
      BY <2>1 DEF LockOK, IntakeTypeOK
    <3>2. Count(m)' <= Count(m)
      BY <3>1
    <3> QED BY <3>1, <3>2, <1>1
  <2> QED BY <2>1, <2>2 DEF LockOK
<1> QED BY <1>2, <1>3

LEMMA RepairsStep == IntakeInv /\ [IntakeNext]_intakeVars => RepairsOK'
<1> SUFFICES ASSUME IntakeTypeOK, RepairsOK, [IntakeNext]_intakeVars
             PROVE  RepairsOK'
  BY DEF IntakeInv
<1> USE DEF discovery, lineage, broker, locals, counters
<1>1. \A m : Sound(m) => Sound(m)'
  <2>1. \A s : status[s] = "completed" => status'[s] = "completed"
    <3>1. CASE UNCHANGED status
      BY <3>1
    <3>2. CASE CommitReset
      BY <3>2 DEF CommitReset, Resettable, IntakeTypeOK
    <3>3. ASSUME NEW s \in Source, Collect(s)
          PROVE  \A r : status[r] = "completed" => status'[r] = "completed"
      BY <3>3 DEF Collect, IntakeTypeOK
    <3>4. UNCHANGED status \/ CommitReset \/ \E s \in Source : Collect(s)
      BY DEF IntakeNext, intakeVars, LockIntake, ReadStatus, SelectBatch, Reserve, Send, SendFails,
             FinishIntake, CrashIntake, LoseSession, BeginReset, AbandonReset, RecordRetry,
             FinishOcr, DropArtifact
    <3> QED BY <3>1, <3>2, <3>3, <3>4
  <2> QED BY <2>1 DEF Sound
<1> HIDE DEF Sound
<1>2. CASE /\ queued' = queued /\ intake' = intake
           /\ \A p \in Publisher : /\ current'[p] \in {current[p], NoMessage}
                                   /\ batch'[p] \subseteq batch[p]
  BY <1>1, <1>2 DEF RepairsOK
<1>3. ASSUME NEW p \in Publisher, EndIntake(p)
      PROVE  \A q \in Publisher : /\ current'[q] \in {current[q], NoMessage}
                                  /\ batch'[q] \subseteq batch[q]
  BY <1>3 DEF EndIntake, IntakeTypeOK
<1>4. ASSUME NEW p \in Publisher, SelectBatch(p)
      PROVE  RepairsOK'
  <2>1. CASE Eligible(p) = {}
    BY <1>2, <1>3, <1>4, <2>1 DEF SelectBatch
  <2>2. CASE Eligible(p) # {}
    <3>1. \A m \in Eligible(p) : Sound(m)
      BY DEF Eligible, Planned, Import, Repair, Sound
    <3>2. \A q \in Publisher : batch'[q] = IF q = p THEN Eligible(p) ELSE batch[q]
      BY <1>4, <2>2 DEF SelectBatch, IntakeTypeOK
    <3> HIDE DEF Eligible
    <3> QED BY <1>1, <1>4, <2>2, <3>1, <3>2 DEF SelectBatch, RepairsOK
  <2> QED BY <2>1, <2>2
<1>5. ASSUME NEW p \in Publisher, NEW m \in batch[p], Reserve(p, m)
      PROVE  RepairsOK'
  <2>1. Sound(m)
    BY DEF RepairsOK
  <2>2. \A row \in intake' : row \in intake \/ row.message = m
    BY <1>5 DEF Reserve, Row
  <2>3. \A q \in Publisher : current'[q] \in {current[q], m} /\ batch'[q] \subseteq batch[q]
    BY <1>5 DEF Reserve, IntakeTypeOK
  <2> QED BY <1>1, <1>5, <2>1, <2>2, <2>3 DEF Reserve, RepairsOK
<1>6. ASSUME NEW p \in Publisher, Send(p)
      PROVE  RepairsOK'
  <2>1. Sound(current[p]) /\ current[p] \in Message
    BY <1>6 DEF Send, RepairsOK, IntakeTypeOK
  <2>2. \A row \in intake' : row \in intake \/ row.message = current[p]
    BY <1>6 DEF Send, Row
  <2>3. \A q \in Publisher : current'[q] \in {current[q], NoMessage} /\ batch'[q] = batch[q]
    BY <1>6 DEF Send, IntakeTypeOK
  <2>4. DOMAIN queued' = DOMAIN queued \cup {current[p]}
    BY <1>6 DEF Send, BrokerAccepts, BagAdd
  <2> QED BY <1>1, <2>1, <2>2, <2>3, <2>4 DEF RepairsOK
<1>7. ASSUME NEW p \in Publisher, SendFails(p)
      PROVE  RepairsOK'
  <2>1. Sound(current[p]) /\ EndIntake(p) /\ intake' = intake
    BY <1>7 DEF SendFails, RepairsOK
  <2>2. DOMAIN queued' \subseteq DOMAIN queued \cup {current[p]}
    BY <1>7 DEF SendFails, BrokerAccepts, BagAdd
  <2> QED BY <1>1, <1>3, <2>1, <2>2 DEF RepairsOK
<1>8. ASSUME NEW p \in Publisher, FinishIntake(p) \/ CrashIntake(p)
      PROVE  RepairsOK'
  BY <1>2, <1>3, <1>8 DEF FinishIntake, CrashIntake
<1>9. ASSUME NEW m \in DOMAIN queued, RecordRetry(m) \/ FinishOcr(m)
      PROVE  RepairsOK'
  <2>1. Sound(m)
    BY DEF RepairsOK
  <2>2. DOMAIN BagRemove(queued, m) \subseteq DOMAIN queued
    BY DEF BagRemove
  <2>3. DOMAIN queued' \subseteq DOMAIN queued
    BY <1>9, <2>2 DEF RecordRetry, FinishOcr
  <2>4. \A row \in intake' : row \in intake \/ row.message = m
    BY <1>9 DEF RecordRetry, FinishOcr, Row
  <2>5. UNCHANGED <<current, batch>>
    BY <1>9 DEF RecordRetry, FinishOcr
  <2> QED BY <1>1, <2>1, <2>3, <2>4, <2>5 DEF RepairsOK
<1>10. CASE UNCHANGED <<queued, intake, current, batch>>
  BY <1>2, <1>10
<1> QED BY <1>4, <1>5, <1>6, <1>7, <1>8, <1>9, <1>10
        DEF IntakeNext, intakeVars, LockIntake, ReadStatus, LoseSession, BeginReset, CommitReset,
            AbandonReset, Collect, DropArtifact

LEMMA ReserveCopies ==
  ASSUME IntakeInv, IntakeTypeOK', NEW p \in Publisher, NEW m \in batch[p], Reserve(p, m)
  PROVE  CopiesOK' /\ LockOK'
<1> USE DEF IntakeInv, discovery, lineage, broker, locals, counters
<1>1. m \in Message /\ lock = p /\ lock # NoPublisher /\ Count(m) <= Budget(m)
  BY IntakeAssumption DEF Reserve, LockOK, IntakeTypeOK
<1>2. /\ UNCHANGED <<sends, resets, releases, lock>>
      /\ current[p] = NoMessage /\ current' = [current EXCEPT ![p] = m]
      /\ batch' = [batch EXCEPT ![p] = @ \ {m}] /\ stamp' = [stamp EXCEPT ![p] = 0]
      /\ intake \subseteq intake'
  BY DEF Reserve
<1>3. ASSUME NEW k \in Message
      PROVE  /\ Count(k)' = Count(k) + (IF k = m THEN 1 ELSE 0)
             /\ Count(k) \in Nat /\ Budget(k) \in Nat /\ Budget(k)' = Budget(k)
  <2>1. current[p] # k
    BY <1>2, NoMessageAssumption
  <2>2. Cardinality(Pending(k))' = Cardinality(Pending(k))
          - (IF current[p] = k THEN 1 ELSE 0) + (IF m = k THEN 1 ELSE 0)
    BY <1>2, <1>3, PendingMoves
  <2>3. Sent(k)' = Sent(k) /\ Budget(k)' = Budget(k)
    BY <1>2 DEF Sent, Budget
  <2>4. Count(k)' = Sent(k)' + Cardinality(Pending(k))' /\ Count(k) = Sent(k) + Cardinality(Pending(k))
    BY DEF Count
  <2>5. Sent(k) \in Nat /\ Cardinality(Pending(k)) \in Nat /\ Budget(k) \in Nat
    BY CountTypes
  <2> QED BY <2>1, <2>2, <2>3, <2>4, <2>5
<1>4. Held(m)'
  <2> DEFINE t == IF stamp[p] # 0 THEN stamp[p] ELSE Now
  <2>1. Row(m, t) \in intake' /\ Row(m, t).message = m /\ Row(m, t).at = t
    BY DEF Reserve, Row
  <2>2. \A x \in releases : x.at \in Int /\ x.at <= t /\ t \in Int
    BY <1>1 DEF LockOK, IntakeTypeOK, Now
  <2>3. \A x \in releases' : ~(x.at > t)
    BY <1>2, <2>2
  <2> HIDE DEF t
  <2> QED BY <2>1, <2>3 DEF Held, Released
<1>5. CopiesOK'
  <2>1. ASSUME NEW k \in Message
        PROVE  Count(k)' <= Budget(k)' + (IF Held(k)' THEN 1 ELSE 0)
    <3>1. CASE k = m
      BY <1>1, <1>3, <1>4, <3>1
    <3>2. CASE k # m
      <4>1. Count(k) <= Budget(k) + (IF Held(k) THEN 1 ELSE 0)
        BY DEF CopiesOK
      <4>2. Held(k) => Held(k)'
        BY <1>2, HeldStays
      <4> QED BY <1>3, <3>2, <4>1, <4>2
    <3> QED BY <3>1, <3>2
  <2> QED BY <1>2, <2>1 DEF CopiesOK
<1>6. LockOK'
  <2>1. ASSUME NEW k \in batch[p] \ {m}
        PROVE  Count(k)' <= Budget(k)'
    BY <1>1, <1>3 DEF LockOK, IntakeTypeOK
  <2>2. lock' = p /\ batch'[p] = batch[p] \ {m} /\ stamp'[p] = 0
    BY <1>1, <1>2 DEF IntakeTypeOK
  <2> QED BY <2>1, <2>2 DEF LockOK
<1> QED BY <1>5, <1>6

LEMMA ResetCopies ==
  ASSUME IntakeInv, IntakeTypeOK', CommitReset
  PROVE  CopiesOK' /\ LockOK'
<1> USE DEF IntakeInv, discovery, lineage, broker, locals, counters
<1>1. /\ UNCHANGED <<sends, current, intake, lock>> /\ lock = NoPublisher
      /\ resetting \in [source : Source, at : 1..clock]
      /\ releases' = releases \cup {resetting}
      /\ resets' = [resets EXCEPT ![resetting.source] = @ + 1]
      /\ status[resetting.source] = "unfinished"
  BY DEF CommitReset, Resettable, IntakeTypeOK
<1>2. ASSUME NEW m \in Message
      PROVE  Count(m)' <= Budget(m)' + (IF Held(m)' THEN 1 ELSE 0)
  <2>1. /\ Count(m)' = Count(m) /\ Count(m) \in Nat /\ Budget(m) \in Nat
        /\ Count(m) <= Budget(m) + (IF Held(m) THEN 1 ELSE 0)
    BY <1>1, CountStays, CountTypes DEF CopiesOK
  <2>2. CASE m.source # resetting.source
    <3>1. Held(m) => Held(m)'
      BY <1>1, <2>2 DEF Held, Released
    <3>2. Budget(m)' = Budget(m)
      BY <1>1, <2>2 DEF Budget, IntakeTypeOK, Message
    <3> QED BY <2>1, <3>1, <3>2
  <2>3. CASE m.source = resetting.source /\ m.epoch = 0
    <3>1. Budget(m)' = Budget(m) + 1
      BY <1>1, <2>3 DEF Budget, IntakeTypeOK
    <3> QED BY <2>1, <3>1
  <2>4. CASE m.source = resetting.source /\ m.epoch # 0
    <3>1. ~Held(m)
      BY <1>1, <2>4 DEF Held, RepairsOK, Sound
    <3>2. Budget(m)' = Budget(m)
      BY <2>4 DEF Budget
    <3> QED BY <2>1, <3>1, <3>2
  <2> QED BY <2>2, <2>3, <2>4
<1> QED BY <1>1, <1>2 DEF CopiesOK, LockOK

LEMMA CopiesStep == IntakeInv /\ [IntakeNext]_intakeVars => CopiesOK' /\ LockOK'
<1> SUFFICES ASSUME IntakeInv, [IntakeNext]_intakeVars
             PROVE  CopiesOK' /\ LockOK'
  OBVIOUS
<1> USE DEF IntakeInv, discovery, lineage, broker, locals, counters
<1>t. IntakeTypeOK'
  BY IntakeTypeStep
<1>q. ASSUME UNCHANGED <<sends, current, releases, resets>>, intake \subseteq intake',
             lock' \in {lock, NoPublisher},
             lock' # NoPublisher => batch'[lock'] = batch[lock'] /\ stamp'[lock'] = stamp[lock']
      PROVE  CopiesOK' /\ LockOK'
  <2>1. \A m \in Message : Count(m)' <= Count(m)
    BY <1>q, CountStays, CountTypes
  <2>2. sends' \in [DOMAIN sends' -> Nat]
    BY <1>q DEF CopiesOK
  <2> QED BY <1>t, <1>q, <2>1, <2>2, QuietStep
<1>e. ASSUME NEW p \in Publisher, EndIntake(p), UNCHANGED <<releases, resets, intake>>,
             \/ sends' = sends
             \/ current[p] # NoMessage /\ BrokerAccepts(current[p])
      PROVE  CopiesOK' /\ LockOK'
  <2>1. /\ sends' \in [DOMAIN sends' -> Nat]
        /\ \A m \in Message : Count(m)' <= Count(m)
    BY <1>e, EndCounts
  <2>2. /\ lock' \in {lock, NoPublisher}
        /\ lock' # NoPublisher => batch'[lock'] = batch[lock'] /\ stamp'[lock'] = stamp[lock']
    BY <1>e DEF EndIntake, IntakeTypeOK
  <2> QED BY <1>t, <1>e, <2>1, <2>2, QuietStep
<1>1. CASE UNCHANGED intakeVars
  BY <1>1, <1>q DEF intakeVars
<1>2. ASSUME NEW p \in Publisher, LockIntake(p)
      PROVE  CopiesOK' /\ LockOK'
  <2>1. /\ batch'[lock'] = {} /\ stamp'[lock'] = 0
        /\ UNCHANGED <<sends, current, releases, resets, intake>>
    BY <1>2 DEF LockIntake, IntakeTypeOK
  <2>2. CopiesOK'
    BY <2>1 DEF CopiesOK, Count, Sent, Pending, Budget, Held, Released
  <2> QED BY <2>1, <2>2 DEF LockOK
<1>3. ASSUME NEW p \in Publisher, ReadStatus(p)
      PROVE  CopiesOK' /\ LockOK'
  BY <1>3, <1>q DEF ReadStatus
<1>4. ASSUME NEW p \in Publisher, SelectBatch(p)
      PROVE  CopiesOK' /\ LockOK'
  <2>1. CASE Eligible(p) = {}
    BY <1>4, <1>e, <2>1 DEF SelectBatch
  <2>2. CASE Eligible(p) # {}
    <3>1. /\ batch'[p] = Eligible(p) /\ stamp'[p] = Now /\ lock' = p
          /\ UNCHANGED <<sends, current, releases, resets, intake>>
      BY <1>4, <2>2 DEF SelectBatch, IntakeTypeOK
    <3>2. CopiesOK'
      BY <3>1 DEF CopiesOK, Count, Sent, Pending, Budget, Held, Released
    <3>3. ASSUME NEW m \in Eligible(p)
          PROVE  Count(m)' <= Budget(m)'
      <4>1. m \in Message
        BY <3>1, <1>t DEF IntakeTypeOK
      <4>2. ~Held(m)
        BY DEF Eligible
      <4>3. Count(m) <= Budget(m) + 0
        BY <4>1, <4>2 DEF CopiesOK
      <4>4. Count(m)' = Count(m) /\ Budget(m)' = Budget(m)
        BY <3>1, CountStays DEF Budget
      <4> QED BY <4>1, <4>3, <4>4, CountTypes
    <3>4. \A x \in releases : x.at <= Now
      BY DEF IntakeTypeOK, Now
    <3> QED BY <3>1, <3>2, <3>3, <3>4 DEF LockOK
  <2> QED BY <2>1, <2>2
<1>5. ASSUME NEW p \in Publisher, NEW m \in batch[p], Reserve(p, m)
      PROVE  CopiesOK' /\ LockOK'
  BY <1>5, <1>t, ReserveCopies
<1>6. ASSUME NEW p \in Publisher, Send(p)
      PROVE  CopiesOK' /\ LockOK'
  <2>1. /\ current[p] \in Message /\ BrokerAccepts(current[p])
        /\ current' = [current EXCEPT ![p] = NoMessage]
        /\ UNCHANGED <<releases, resets, lock, batch, stamp>> /\ intake \subseteq intake'
    BY <1>6 DEF Send, IntakeTypeOK
  <2>2. sends' \in [DOMAIN sends' -> Nat]
    BY <2>1, AcceptCounts DEF CopiesOK
  <2>3. ASSUME NEW m \in Message
        PROVE  Count(m)' <= Count(m)
    <3>1. Sent(m)' = Sent(m) + (IF m = current[p] THEN 1 ELSE 0)
      BY <2>1, AcceptCounts DEF CopiesOK
    <3>2. Cardinality(Pending(m))' = Cardinality(Pending(m))
            - (IF current[p] = m THEN 1 ELSE 0) + (IF NoMessage = m THEN 1 ELSE 0)
      BY <2>1, <2>3, PendingMoves
    <3>3. NoMessage # m /\ Sent(m) \in Nat /\ Cardinality(Pending(m)) \in Nat
      BY NoMessageAssumption, CountTypes
    <3>4. Count(m)' = Sent(m)' + Cardinality(Pending(m))' /\ Count(m) = Sent(m) + Cardinality(Pending(m))
      BY DEF Count
    <3> QED BY <3>1, <3>2, <3>3, <3>4
  <2> QED BY <1>t, <2>1, <2>2, <2>3, QuietStep
<1>7. ASSUME NEW p \in Publisher, SendFails(p)
      PROVE  CopiesOK' /\ LockOK'
  BY <1>7, <1>e DEF SendFails
<1>8. ASSUME NEW p \in Publisher, FinishIntake(p) \/ CrashIntake(p)
      PROVE  CopiesOK' /\ LockOK'
  BY <1>8, <1>e DEF FinishIntake, CrashIntake
<1>9. ASSUME NEW p \in Publisher, LoseSession(p)
      PROVE  CopiesOK' /\ LockOK'
  BY <1>9, <1>q DEF LoseSession
<1>10. CASE CommitReset
  BY <1>10, <1>t, ResetCopies
<1>11. CASE AbandonReset \/ \E s \in Source : BeginReset(s) \/ Collect(s) \/ DropArtifact(s)
  BY <1>11, <1>q DEF BeginReset, AbandonReset, Collect, DropArtifact
<1>12. ASSUME NEW m \in DOMAIN queued, RecordRetry(m) \/ FinishOcr(m)
       PROVE  CopiesOK' /\ LockOK'
  <2>1. /\ UNCHANGED <<sends, current, releases, resets, lock, batch, stamp>>
        /\ intake \subseteq intake'
    BY <1>12 DEF RecordRetry, FinishOcr
  <2> QED BY <1>q, <2>1
<1> QED BY <1>1, <1>2, <1>3, <1>4, <1>5, <1>6, <1>7, <1>8, <1>9, <1>10, <1>11, <1>12 DEF IntakeNext

(* Rerunning intake never adds another copy of the same job, however many  *)
(* publishers run, crash or lose their confirmation or their session.      *)
THEOREM JobIsSentOnce == IntakeSpec => []OneCopyPerRelease
<1>1. IntakeInit => IntakeInv
  <2> SUFFICES ASSUME IntakeInit
               PROVE  RepairsOK /\ CopiesOK /\ LockOK
    BY IntakeInitOK DEF IntakeInv
  <2>1. /\ DOMAIN queued = {} /\ DOMAIN sends = {} /\ sends \in [DOMAIN sends -> Nat]
        /\ intake = {} /\ lock = NoPublisher
        /\ \A p \in Publisher : current[p] = NoMessage /\ batch[p] = {}
        /\ \A s \in Source : resets[s] = 0
    BY DEF IntakeInit, EmptyBag, SetToBag
  <2>2. ASSUME NEW m \in Message
        PROVE  Count(m) <= Budget(m) + (IF Held(m) THEN 1 ELSE 0)
    <3>1. Pending(m) = {} /\ Sent(m) = 0
      BY <2>1, NoMessageAssumption DEF Pending, Sent
    <3>2. Budget(m) = 0
      BY <2>1 DEF Budget, Message
    <3> QED BY <3>1, <3>2, FS_EmptySet DEF Count
  <2> QED BY <2>1, <2>2 DEF RepairsOK, CopiesOK, LockOK
<1>2. IntakeInv /\ [IntakeNext]_intakeVars => IntakeInv'
  BY IntakeTypeStep, RepairsStep, CopiesStep DEF IntakeInv
<1>3. IntakeInv => OneCopyPerRelease
  <2> SUFFICES ASSUME IntakeInv, NEW m \in DOMAIN sends
               PROVE  Sent(m) <= 1 + Budget(m)
    BY DEF OneCopyPerRelease, Budget
  <2>1. m \in Message
    BY DEF IntakeInv, IntakeTypeOK
  <2>2. Count(m) <= Budget(m) + (IF Held(m) THEN 1 ELSE 0)
    BY <2>1 DEF IntakeInv, CopiesOK
  <2> QED BY <2>1, <2>2, CountTypes DEF IntakeInv, Count
<1> QED BY <1>1, <1>2, <1>3, PTL DEF IntakeSpec
=============================================================================
