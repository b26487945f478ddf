--------------------------- MODULE IntakePublication ---------------------------
(***************************************************************************)
(* Normal intake: discovery, durable reservations and publication of       *)
(* receipt work (receipts/queue_ingest.py publication_plan and             *)
(* _publish_normal, receipts/publication_guard.py), with the operator's    *)
(* reset (receipts/backlog_ingest.py reset_receipt_for_retry).             *)
(*                                                                         *)
(* lineage.receipt_events decides what is in flight: a message is held     *)
(* while one of its reserved or queued rows is not older than every        *)
(* release of its source.  A row carries the time its transaction STARTED  *)
(* (occurred_at DEFAULT NOW()), which for a reset precedes its wait for    *)
(* the intake lock and for the first reservation of a batch is the time    *)
(* of the eligibility query.                                               *)
(***************************************************************************)
EXTENDS FiniteSets, Integers, BagsExt, Bags

CONSTANTS
  Source,       \* SHA-256 identities under the receipt roots
  Publisher,    \* intake commands, one at a time per process
  MaxIntake,    \* bound: intake commands started
  MaxReset,     \* bound: operator resets started
  MaxFault,     \* bound: crashes, lost sessions and dropped caches
  MaxRecord,    \* bound: retry and dead-letter rows written by workers
  NoPublisher, NoMessage, NoReset

ASSUME IntakeAssumption ==
  /\ MaxIntake \in Nat /\ MaxReset \in Nat
  /\ MaxFault \in Nat /\ MaxRecord \in Nat
  /\ IsFiniteSet(Publisher) /\ NoPublisher \notin Publisher

VARIABLES
  status,       \* receipt_processing_status: none, unfinished or completed
  exhausted,    \* sources whose stored attempts reached MAX_ATTEMPTS
  completion,   \* completed_at of each source, 0 if never
  cached,       \* sources with an OCR cache artifact
  intake,       \* intake_reserved and queued rows
  releases,     \* intake_released rows
  queued,       \* messages in the work or retry queue
  awaiting,     \* sources with a result on its way to the collector
  lock,         \* holder of the session lock ledger:normal-intake
  stage, seen, batch, current, stamp,  \* each publisher's locals
  resetting,    \* the reset whose transaction has begun
  sends,        \* history: messages the broker accepted from intake
  resets,       \* history: committed resets of each source
  clock, starts, begun, faults, recorded

discovery == <<status, exhausted, completion, cached>>
lineage   == <<intake, releases>>
broker    == <<queued, awaiting>>
locals    == <<stage, seen, batch, current, stamp>>
counters  == <<starts, begun, faults, recorded>>
intakeVars == <<discovery, lineage, broker, lock, locals, resetting, sends,
                resets, clock, counters>>

-----------------------------------------------------------------------------
(* Epoch 0 is the v1 message; a repair (v2) is named after the completion  *)
(* whose cache is missing.                                                 *)
Message == [source : Source, epoch : Nat]

ASSUME NoMessageAssumption == NoMessage \notin Message

Import(s) == [source |-> s, epoch |-> 0]
Repair(s) == [source |-> s, epoch |-> completion[s]]

Now == clock + 1

Row(m, t) == [message |-> m, at |-> t]

Released(row) ==
  \E x \in releases : x.source = row.message.source /\ x.at > row.at

Held(m) == \E row \in intake : row.message = m /\ ~Released(row)

IntakeTypeOK ==
  /\ status \in [Source -> {"none", "unfinished", "completed"}]
  /\ exhausted \subseteq Source
  /\ completion \in [Source -> 0..clock]
  /\ cached \subseteq Source
  /\ intake \subseteq [message : Message, at : 1..clock]
  /\ releases \subseteq [source : Source, at : 1..clock]
  /\ DOMAIN queued \subseteq Message /\ DOMAIN sends \subseteq Message
  /\ awaiting \subseteq Source
  /\ lock \in Publisher \cup {NoPublisher}
  /\ stage \in [Publisher -> {"idle", "planning", "selecting", "publishing"}]
  /\ seen \in [Publisher -> [pending : SUBSET Source, skipped : SUBSET Source]]
  /\ batch \in [Publisher -> SUBSET Message]
  /\ current \in [Publisher -> Message \cup {NoMessage}]
  /\ stamp \in [Publisher -> 0..clock]
  /\ \A p \in Publisher :
        stage[p] # "publishing" => batch[p] = {} /\ current[p] = NoMessage /\ stamp[p] = 0
  /\ clock \in Nat
  /\ resetting \in [source : Source, at : 1..clock] \cup {NoReset}
  /\ resets \in [Source -> Nat]

NothingSeen == [pending |-> {}, skipped |-> {}]

(* Rows of earlier deployments may be unfinished or exhausted.             *)
IntakeInit ==
  /\ status \in [Source -> {"none", "unfinished"}]
  /\ exhausted \in SUBSET {s \in Source : status[s] = "unfinished"}
  /\ completion = [s \in Source |-> 0]
  /\ cached = {} /\ intake = {} /\ releases = {}
  /\ queued = EmptyBag /\ awaiting = {}
  /\ lock = NoPublisher
  /\ stage = [p \in Publisher |-> "idle"]
  /\ seen = [p \in Publisher |-> NothingSeen]
  /\ batch = [p \in Publisher |-> {}]
  /\ current = [p \in Publisher |-> NoMessage]
  /\ stamp = [p \in Publisher |-> 0]
  /\ resetting = NoReset
  /\ sends = EmptyBag
  /\ resets = [s \in Source |-> 0]
  /\ clock = 0 /\ starts = 0 /\ begun = 0 /\ faults = 0 /\ recorded = 0

-----------------------------------------------------------------------------
(* One intake command.                                                     *)

EndIntake(p) ==
  /\ lock' = IF lock = p THEN NoPublisher ELSE lock
  /\ stage' = [stage EXCEPT ![p] = "idle"]
  /\ seen' = [seen EXCEPT ![p] = NothingSeen]
  /\ batch' = [batch EXCEPT ![p] = {}]
  /\ current' = [current EXCEPT ![p] = NoMessage]
  /\ stamp' = [stamp EXCEPT ![p] = 0]

LockIntake(p) ==
  /\ stage[p] = "idle" /\ lock = NoPublisher /\ starts < MaxIntake
  /\ lock' = p
  /\ stage' = [stage EXCEPT ![p] = "planning"]
  /\ starts' = starts + 1
  /\ UNCHANGED <<discovery, lineage, broker, seen, batch, current, stamp,
                 resetting, sends, resets, clock, begun, faults, recorded>>

(* plan_unprocessed_receipts and the exhausted query.                      *)
ReadStatus(p) ==
  /\ stage[p] = "planning" /\ lock = p
  /\ seen' = [seen EXCEPT ![p] =
       [pending |-> {s \in Source : status[s] # "completed"} \ exhausted,
        skipped |-> {s \in Source : status[s] = "completed"}]]
  /\ stage' = [stage EXCEPT ![p] = "selecting"]
  /\ UNCHANGED <<discovery, lineage, broker, lock, batch, current, stamp,
                 resetting, sends, resets, clock, counters>>

(* What discovery asks for: imports as they were read, and repairs of      *)
(* completions read now for the sources whose artifact is missing now.     *)
Planned(p) ==
  {Import(s) : s \in seen[p].pending} \cup
  {Repair(s) : s \in {x \in seen[p].skipped \ cached : status[x] = "completed"}}

(* Mutant: reservations are not consulted.                                 *)
EligibleAll(p) == Planned(p)

Eligible(p) == {m \in Planned(p) : ~Held(m)}

SelectBatch(p) ==
  /\ stage[p] = "selecting" /\ lock = p
  /\ clock' = Now
  /\ IF Eligible(p) = {}
     THEN EndIntake(p)
     ELSE /\ batch' = [batch EXCEPT ![p] = Eligible(p)]
          /\ stamp' = [stamp EXCEPT ![p] = Now]
          /\ stage' = [stage EXCEPT ![p] = "publishing"]
          /\ seen' = [seen EXCEPT ![p] = NothingSeen]
          /\ UNCHANGED <<lock, current>>
  /\ UNCHANGED <<discovery, lineage, broker, resetting, sends, resets, counters>>

(* The first reservation shares the transaction of the eligibility query.  *)
Reserve(p, m) ==
  /\ stage[p] = "publishing" /\ lock = p
  /\ current[p] = NoMessage /\ m \in batch[p]
  /\ LET t == IF stamp[p] # 0 THEN stamp[p] ELSE Now
     IN  /\ intake' = intake \cup {Row(m, t)}
         /\ clock' = IF stamp[p] # 0 THEN clock ELSE Now
  /\ stamp' = [stamp EXCEPT ![p] = 0]
  /\ current' = [current EXCEPT ![p] = m]
  /\ batch' = [batch EXCEPT ![p] = @ \ {m}]
  /\ UNCHANGED <<discovery, releases, broker, lock, stage, seen, resetting,
                 sends, resets, counters>>

BrokerAccepts(m) ==
  /\ queued' = BagAdd(queued, m)
  /\ sends' = BagAdd(sends, m)

(* publish_confirmed, then the best-effort queued row.                     *)
Send(p) ==
  LET m == current[p]
  IN  /\ stage[p] = "publishing" /\ m # NoMessage
      /\ BrokerAccepts(m)
      /\ \/ intake' = intake \cup {Row(m, Now)} /\ clock' = Now
         \/ UNCHANGED <<intake, clock>>
      /\ current' = [current EXCEPT ![p] = NoMessage]
      /\ UNCHANGED <<discovery, releases, awaiting, lock, stage, seen, batch,
                     stamp, resetting, resets, counters>>

(* "Publication interrupted; reservation retained": the broker may or may  *)
(* not have the message.                                                   *)
SendFails(p) ==
  /\ stage[p] = "publishing" /\ current[p] # NoMessage
  /\ BrokerAccepts(current[p]) \/ UNCHANGED <<queued, sends>>
  /\ EndIntake(p)
  /\ UNCHANGED <<discovery, lineage, awaiting, resetting, resets, clock, counters>>

(* The batch is done, or the next statement finds the session gone.        *)
FinishIntake(p) ==
  /\ stage[p] # "idle" /\ current[p] = NoMessage
  /\ (stage[p] = "publishing" /\ batch[p] = {}) \/ lock # p
  /\ EndIntake(p)
  /\ UNCHANGED <<discovery, lineage, broker, resetting, sends, resets, clock,
                 counters>>

CrashIntake(p) ==
  /\ stage[p] # "idle" /\ faults < MaxFault
  /\ faults' = faults + 1
  /\ EndIntake(p)
  /\ UNCHANGED <<discovery, lineage, broker, resetting, sends, resets, clock,
                 starts, begun, recorded>>

(* The database session ends, and its lock with it; the process goes on.   *)
LoseSession(p) ==
  /\ lock = p /\ faults < MaxFault
  /\ faults' = faults + 1
  /\ lock' = NoPublisher
  /\ UNCHANGED <<discovery, lineage, broker, locals, resetting, sends, resets,
                 clock, starts, begun, recorded>>

-----------------------------------------------------------------------------
(* The operator's reset: its transaction begins, then waits for the lock.  *)

BeginReset(s) ==
  /\ resetting = NoReset /\ begun < MaxReset
  /\ begun' = begun + 1
  /\ clock' = Now
  /\ resetting' = [source |-> s, at |-> Now]
  /\ UNCHANGED <<discovery, lineage, broker, lock, locals, sends, resets,
                 starts, faults, recorded>>

(* Mutant: a completed receipt may be reset.                               *)
ResettableAny(s) == status[s] # "none"

Resettable(s) == status[s] = "unfinished"

CommitReset ==
  /\ resetting # NoReset /\ lock = NoPublisher
  /\ Resettable(resetting.source)
  /\ status' = [status EXCEPT ![resetting.source] = "unfinished"]
  /\ completion' = [completion EXCEPT ![resetting.source] = 0]
  /\ exhausted' = exhausted \ {resetting.source}
  /\ releases' = releases \cup {resetting}
  /\ resets' = [resets EXCEPT ![resetting.source] = @ + 1]
  /\ resetting' = NoReset
  /\ UNCHANGED <<cached, intake, broker, lock, locals, sends, clock, counters>>

(* Unknown, never attempted or completed receipt, receipt lock taken, or   *)
(* the command killed.                                                     *)
AbandonReset ==
  /\ resetting # NoReset
  /\ resetting' = NoReset
  /\ UNCHANGED <<discovery, lineage, broker, lock, locals, sends, resets,
                 clock, counters>>

-----------------------------------------------------------------------------
(* Workers and the collector, as far as intake can see them.               *)

(* A worker republishes for a retry, or dead-letters, and records it.      *)
RecordRetry(m) ==
  /\ m \in DOMAIN queued /\ recorded < MaxRecord
  /\ recorded' = recorded + 1
  /\ clock' = Now
  /\ intake' = intake \cup {Row(m, Now)}
  /\ queued' \in {queued, BagRemove(queued, m)}
  /\ UNCHANGED <<discovery, releases, awaiting, lock, locals, resetting, sends,
                 resets, starts, begun, faults>>

FinishOcr(m) ==
  /\ m \in DOMAIN queued
  /\ queued' = BagRemove(queued, m)
  /\ cached' = cached \cup {m.source}
  /\ awaiting' = awaiting \cup {m.source}
  /\ UNCHANGED <<status, exhausted, completion, lineage, lock, locals,
                 resetting, sends, resets, clock, counters>>

Collect(s) ==
  /\ s \in awaiting
  /\ awaiting' = awaiting \ {s}
  /\ clock' = Now
  /\ status' = [status EXCEPT ![s] = "completed"]
  /\ completion' = [completion EXCEPT ![s] = Now]
  /\ UNCHANGED <<exhausted, cached, lineage, queued, lock, locals, resetting,
                 sends, resets, counters>>

DropArtifact(s) ==
  /\ s \in cached /\ faults < MaxFault
  /\ faults' = faults + 1
  /\ cached' = cached \ {s}
  /\ UNCHANGED <<status, exhausted, completion, lineage, broker, lock, locals,
                 resetting, sends, resets, clock, starts, begun, recorded>>

-----------------------------------------------------------------------------
IntakeNext ==
  \/ \E p \in Publisher :
       \/ LockIntake(p) \/ ReadStatus(p) \/ SelectBatch(p)
       \/ \E m \in batch[p] : Reserve(p, m)
       \/ Send(p) \/ SendFails(p) \/ FinishIntake(p)
       \/ CrashIntake(p) \/ LoseSession(p)
  \/ \E s \in Source : BeginReset(s)
  \/ CommitReset \/ AbandonReset
  \/ \E m \in DOMAIN queued : RecordRetry(m) \/ FinishOcr(m)
  \/ \E s \in Source : Collect(s) \/ DropArtifact(s)

IntakeSpec == IntakeInit /\ [][IntakeNext]_intakeVars

-----------------------------------------------------------------------------
Sent(m) == IF m \in DOMAIN sends THEN sends[m] ELSE 0

InFlight(m) == m \in DOMAIN queued \/ m.source \in awaiting

(***************************************************************************)
(* Rerunning intake never adds another copy of the same job: the broker    *)
(* accepts the import of a source once, and once more for each committed   *)
(* reset, and a repair once per completion, however publishers crash, lose *)
(* their confirmation or their session (docs/local-development.md,         *)
(* "rerunning intake does not create another copy of the same pending      *)
(* job"; _publish_normal).                                                 *)
(***************************************************************************)
OneCopyPerRelease ==
  \A m \in DOMAIN sends :
     Sent(m) <= 1 + (IF m.epoch = 0 THEN resets[m.source] ELSE 0)

(***************************************************************************)
(* A reset never takes back a completion: a receipt completed while the    *)
(* reset waits stays completed (reset_receipt_for_retry, "Read the status  *)
(* after taking it so a just-completed receipt cannot be reset by a race"). *)
(***************************************************************************)
CompletionKept ==
  [][\A s \in Source : completion'[s] >= completion[s]]_intakeVars

(***************************************************************************)
(* A committed reset leaves no reservation of its source behind, except of *)
(* work still in flight (docs/local-development.md, "releases its old      *)
(* reservations atomically").                                              *)
(***************************************************************************)
ResetReleases ==
  [][\A s \in Source :
        resets'[s] > resets[s] =>
           \A row \in intake' :
              row.message.source = s =>
                 \/ (\E x \in releases' : x.source = s /\ x.at > row.at)
                 \/ InFlight(row.message)' ]_intakeVars
=============================================================================
