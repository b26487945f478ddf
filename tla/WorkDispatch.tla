---------------------------- MODULE WorkDispatch ----------------------------
(***************************************************************************)
(* The receipt work queue and its OCR workers: receipts/queue_ingest.py    *)
(* with the path-based OCR cache of receipts/parallel_ingest.py.           *)
(*                                                                         *)
(* RabbitMQ delivers at least once.  A worker checks the source hash, takes *)
(* the per-source cache lock (flock), reuses or rebuilds the OCR cache,    *)
(* writes a completion marker, releases the lock, publishes the result     *)
(* events with confirms, and only then acknowledges.  A failure publishes  *)
(* the next attempt (or the dead letter) before the acknowledgement.       *)
(* A worker process may crash and a connection may be lost at any point; a *)
(* lost connection requeues the delivery while the OCR child still runs.   *)
(***************************************************************************)
EXTENDS ReceiptContract, Sequences

CONSTANTS
  Worker,        \* OCR worker processes
  DeliveryLimit, \* x-delivery-limit of the work queue
  MaxPublish,    \* bound: confirmed publications of one request
  MaxCrash,      \* bound: process crashes and lost connections
  MaxDisturb,    \* bound: replaced source files and dropped artifacts
  NoCopy         \* a worker with no delivery

ASSUME DispatchAssumption ==
  /\ DeliveryLimit \in Nat
  /\ MaxPublish \in Nat
  /\ MaxCrash \in Nat
  /\ MaxDisturb \in Nat

VARIABLES
  work, retry,   \* the work queue and the retry queue
  dead,          \* requests with a message in the dead-letter queue
  published,     \* confirmed publications of each request
  born,          \* history: OCR runs that existed when the request appeared
  phase, job,    \* each worker's progress and the message it works on
  attached,      \* whether the worker still owns the delivery
  reused,        \* whether the completion marker was valid under the lock
  result, sent,  \* the run a worker publishes, and how many events it did
  contents,      \* the source now stored at each path
  cache,         \* the run in each path's cache artifact, 0 if none
  marker,        \* the run recorded by each request's completion marker
  runs,          \* history: every OCR run executed, in order
  confirmed,     \* history: result events confirmed by the broker
  cli,           \* the cached re-extraction in progress
  crashes,       \* crashes and lost connections so far
  disturbed      \* replaced files and dropped artifacts so far

queueVars  == <<work, retry, dead>>
inputVars  == <<published, born>>
workerVars == <<phase, job, attached, reused, result, sent>>
cacheVars  == <<cache, marker, runs>>
bounds == <<crashes, disturbed>>
vars == <<queueVars, inputVars, workerVars, cacheVars, contents, confirmed,
          cli, bounds>>

-----------------------------------------------------------------------------
Copy == [request : Request, attempt : 1..MaxAttempts,
         delivered : 0..DeliveryLimit]

Message(r, n) == [request |-> r, attempt |-> n, delivered |-> 0]

Phases == {"idle", "waiting", "locked", "parsed", "publishing", "failed",
           "invalid", "settled"}

RunRecord == [source : Source, request : Request]

RunIds == 0..Len(runs)

NoCli == [request |-> NoRequest, run |-> 0, sent |-> 0]

TypeOK ==
  /\ IsQueue(work, Copy)
  /\ IsQueue(retry, Copy)
  /\ dead \subseteq Request
  /\ published \in [Request -> 0..MaxPublish]
  /\ born \in [Request -> Nat]
  /\ phase \in [Worker -> Phases]
  /\ job \in [Worker -> Copy \cup {NoCopy}]
  /\ attached \in [Worker -> BOOLEAN]
  /\ reused \in [Worker -> BOOLEAN]
  /\ result \in [Worker -> RunIds]
  /\ sent \in [Worker -> 0..(NPasses + 1)]
  /\ contents \in [Path -> Source]
  /\ runs \in Seq(RunRecord)
  /\ cache \in [Path -> RunIds]
  /\ marker \in [Request -> RunIds]
  /\ confirmed \subseteq Event
  /\ cli \in [request : Request \cup {NoRequest}, run : RunIds,
              sent : 0..(NPasses + 1)]
  /\ crashes \in 0..MaxCrash
  /\ disturbed \in 0..MaxDisturb

Init ==
  /\ work = EmptyBag
  /\ retry = EmptyBag
  /\ dead = {}
  /\ published = [r \in Request |-> 0]
  /\ born = [r \in Request |-> 0]
  /\ phase = [w \in Worker |-> "idle"]
  /\ job = [w \in Worker |-> NoCopy]
  /\ attached = [w \in Worker |-> FALSE]
  /\ reused = [w \in Worker |-> FALSE]
  /\ result = [w \in Worker |-> 0]
  /\ sent = [w \in Worker |-> 0]
  /\ contents \in {f \in [Path -> Source] : \A p \in Path : PathOf[f[p]] = p}
  /\ runs = <<>>
  /\ cache = [p \in Path |-> 0]
  /\ marker = [r \in Request |-> 0]
  /\ confirmed = {}
  /\ cli = NoCli
  /\ crashes = 0
  /\ disturbed = 0

-----------------------------------------------------------------------------
(* The per-source cache lock and the completion marker.                    *)

HoldsLock(w) == phase[w] \in {"locked", "parsed"}

(* Mutant: no lock around the cache.                                       *)
Unlocked(s) == s \in Source

LockFree(s) ==
  /\ \A w \in Worker : HoldsLock(w) => SourceOf[job[w].request] # s
  /\ cli.request # NoRequest => SourceOf[cli.request] # s

CompletedRebuild(r) == marker[r] # 0 /\ marker[r] = cache[PathFor(r)]

SourceIntact(r) == contents[PathFor(r)] = SourceOf[r]

(* Mutant: the artifact of other contents is a hit.                        *)
ArtifactExists(p) == cache[p] # 0

CacheHit(p) == cache[p] # 0 /\ runs[cache[p]].source = contents[p]

Requeue(c) ==
  IF c.delivered < DeliveryLimit
  THEN /\ work' = BagAdd(work, [c EXCEPT !.delivered = @ + 1])
       /\ UNCHANGED <<retry, dead>>
  ELSE /\ dead' = dead \cup {c.request}
       /\ UNCHANGED <<work, retry>>

(* The locals of a processing call end with it, however it ends.           *)
EndCall(w, how) ==
  /\ phase' = [phase EXCEPT ![w] = how]
  /\ reused' = [reused EXCEPT ![w] = FALSE]
  /\ result' = [result EXCEPT ![w] = 0]
  /\ sent' = [sent EXCEPT ![w] = 0]

Release(w) ==
  /\ EndCall(w, "idle")
  /\ job' = [job EXCEPT ![w] = NoCopy]
  /\ attached' = [attached EXCEPT ![w] = FALSE]

-----------------------------------------------------------------------------
(* Publishers hash the stored file, so a request names what is there now.  *)

Publish(r) ==
  /\ Queued(r) /\ SourceIntact(r)
  /\ published[r] < MaxPublish
  /\ work' = BagAdd(work, Message(r, 1))
  /\ published' = [published EXCEPT ![r] = @ + 1]
  /\ born' = IF published[r] = 0 THEN [born EXCEPT ![r] = Len(runs)] ELSE born
  /\ UNCHANGED <<retry, dead, workerVars, cacheVars, contents, confirmed, cli,
                 bounds>>

(* A delivery starts with the source check, outside the lock.              *)
Deliver(w, c) ==
  /\ phase[w] = "idle" /\ c \in DOMAIN work
  /\ work' = BagRemove(work, c)
  /\ job' = [job EXCEPT ![w] = c]
  /\ attached' = [attached EXCEPT ![w] = TRUE]
  /\ phase' = [phase EXCEPT ![w] =
                 IF SourceIntact(c.request) THEN "waiting" ELSE "invalid"]
  /\ UNCHANGED <<retry, dead, inputVars, reused, result, sent, cacheVars,
                 contents, confirmed, cli, bounds>>

Lock(w) ==
  LET r == job[w].request
  IN  /\ phase[w] = "waiting" /\ LockFree(SourceOf[r])
      /\ phase' = [phase EXCEPT ![w] = "locked"]
      /\ reused' = [reused EXCEPT ![w] = Rebuild(r) /\ CompletedRebuild(r)]
      /\ UNCHANGED <<queueVars, inputVars, job, attached, result, sent,
                     cacheVars, contents, confirmed, cli, bounds>>

(* Mutant: only the first attempt of a request forces OCR.                 *)
RefreshOnce(w) ==
  Fresh(job[w].request) /\ ~reused[w] /\ job[w].attempt = 1

MustRefresh(w) == Fresh(job[w].request) /\ ~reused[w]

UseCache(w) ==
  LET p == PathFor(job[w].request)
  IN  /\ phase[w] = "locked" /\ ~MustRefresh(w) /\ CacheHit(p)
      /\ result' = [result EXCEPT ![w] = cache[p]]
      /\ phase' = [phase EXCEPT ![w] = "parsed"]
      /\ UNCHANGED <<queueVars, inputVars, job, attached, reused, sent,
                     cacheVars, contents, confirmed, cli, bounds>>

(* OCR reads whatever the path holds now and replaces the artifact; the    *)
(* hash the artifact claims and the pages it holds are taken as one read.  *)
ExecuteOcr(w) ==
  LET r == job[w].request
  IN  /\ phase[w] = "locked"
      /\ MustRefresh(w) \/ ~CacheHit(PathFor(r))
      /\ runs' = Append(runs, [source  |-> contents[PathFor(r)],
                               request |-> r])
      /\ cache' = [cache EXCEPT ![PathFor(r)] = Len(runs) + 1]
      /\ result' = [result EXCEPT ![w] = Len(runs) + 1]
      /\ phase' = [phase EXCEPT ![w] = "parsed"]
      /\ UNCHANGED <<queueVars, inputVars, job, attached, reused, sent, marker,
                     contents, confirmed, cli, bounds>>

FailOcr(w) ==
  /\ phase[w] = "locked"
  /\ EndCall(w, "failed")
  /\ UNCHANGED <<queueVars, inputVars, job, attached, cacheVars, contents,
                 confirmed, cli, bounds>>

(* Mutant: the source is checked at delivery only.                         *)
ParsedUnchecked(w) == result[w] # 0

ParsedIntact(w) ==
  LET r == job[w].request
  IN  SourceIntact(r) /\ runs[result[w]].source = SourceOf[r]

NeedsMarker(w) == Rebuild(job[w].request) /\ ~reused[w]

(* Second source check, marker and event construction, still under lock.   *)
Finish(w) ==
  LET r == job[w].request
  IN  /\ phase[w] = "parsed"
      /\ \/ /\ ~ParsedIntact(w)
            /\ EndCall(w, "invalid")
            /\ UNCHANGED marker
         \/ /\ ParsedIntact(w) /\ NeedsMarker(w) /\ cache[PathFor(r)] = 0
            /\ EndCall(w, "failed")
            /\ UNCHANGED marker
         \/ /\ ParsedIntact(w) /\ ~(NeedsMarker(w) /\ cache[PathFor(r)] = 0)
            /\ phase' = [phase EXCEPT ![w] = "publishing"]
            /\ reused' = [reused EXCEPT ![w] = FALSE]
            /\ UNCHANGED <<result, sent>>
            /\ marker' = IF NeedsMarker(w)
                         THEN [marker EXCEPT ![r] = cache[PathFor(r)]]
                         ELSE marker
      /\ UNCHANGED <<queueVars, inputVars, job, attached, cache, runs, contents,
                     confirmed, cli, bounds>>

(* Events are published in order, run event first.                         *)
(* Mutant: passes before the run.                                          *)
PassFirst(w) == EventOf(result[w], NPasses - sent[w], job[w].request)

NextEvent(w) == EventOf(result[w], sent[w], job[w].request)

PublishEvent(w) ==
  /\ phase[w] = "publishing" /\ attached[w] /\ sent[w] <= NPasses
  /\ confirmed' = confirmed \cup {NextEvent(w)}
  /\ sent' = [sent EXCEPT ![w] = @ + 1]
  /\ UNCHANGED <<queueVars, inputVars, phase, job, attached, reused, result,
                 cacheVars, contents, cli, bounds>>

(* The result queue is full (reject-publish) or the message unroutable.    *)
RejectEvent(w) ==
  /\ phase[w] = "publishing" /\ attached[w] /\ sent[w] <= NPasses
  /\ EndCall(w, "failed")
  /\ UNCHANGED <<queueVars, inputVars, job, attached, cacheVars, contents,
                 confirmed, cli, bounds>>

(* Mutant: one attempt too many.                                           *)
RetriesOnceMore(w) == phase[w] = "failed" /\ job[w].attempt <= MaxAttempts

Retries(w) == phase[w] = "failed" /\ job[w].attempt < MaxAttempts

Route(w) ==
  LET c == job[w]
  IN  /\ phase[w] \in {"failed", "invalid"} /\ attached[w]
      /\ IF Retries(w)
         THEN /\ retry' = BagAdd(retry, Message(c.request, c.attempt + 1))
              /\ UNCHANGED dead
         ELSE /\ dead' = dead \cup {c.request}
              /\ UNCHANGED retry
      /\ phase' = [phase EXCEPT ![w] = "settled"]
      /\ UNCHANGED <<work, inputVars, job, attached, reused, result, sent,
                     cacheVars, contents, confirmed, cli, bounds>>

(* Mutant: the last event is not awaited.                                  *)
AckedEarly(w) ==
  \/ phase[w] = "publishing" /\ sent[w] >= NPasses
  \/ phase[w] = "settled"

Acknowledgeable(w) ==
  \/ phase[w] = "publishing" /\ sent[w] = NPasses + 1
  \/ phase[w] = "settled"

Ack(w) ==
  /\ attached[w] /\ Acknowledgeable(w)
  /\ Release(w)
  /\ UNCHANGED <<queueVars, inputVars, cacheVars, contents, confirmed, cli,
                 bounds>>

(* Once its child ends, a worker that lost its connection stops.           *)
Abandon(w) ==
  /\ phase[w] \in {"publishing", "failed", "invalid"} /\ ~attached[w]
  /\ Release(w)
  /\ UNCHANGED <<queueVars, inputVars, cacheVars, contents, confirmed, cli,
                 bounds>>

Crash(w) ==
  /\ phase[w] # "idle" /\ crashes < MaxCrash
  /\ crashes' = crashes + 1
  /\ IF attached[w] THEN Requeue(job[w]) ELSE UNCHANGED queueVars
  /\ Release(w)
  /\ UNCHANGED <<inputVars, cacheVars, contents, confirmed, cli, disturbed>>

ConnectionLost(w) ==
  /\ phase[w] \in {"waiting", "locked", "parsed"} /\ attached[w]
  /\ crashes < MaxCrash
  /\ crashes' = crashes + 1
  /\ Requeue(job[w])
  /\ attached' = [attached EXCEPT ![w] = FALSE]
  /\ UNCHANGED <<inputVars, phase, job, reused, result, sent, cacheVars,
                 contents, confirmed, cli, disturbed>>

(* The retry queue dead-letters each message to the work queue on its TTL. *)
RetryExpires(c) ==
  /\ c \in DOMAIN retry
  /\ retry' = BagRemove(retry, c)
  /\ work' = BagAdd(work, c)
  /\ UNCHANGED <<dead, inputVars, workerVars, cacheVars, contents, confirmed,
                 cli, bounds>>

-----------------------------------------------------------------------------
(* Cached re-extraction publishes while it holds the source's cache lock.  *)

StartCached(r) ==
  /\ Kind[r] = "cached" /\ cli = NoCli
  /\ LockFree(SourceOf[r]) /\ SourceIntact(r) /\ CacheHit(PathFor(r))
  /\ published[r] < MaxPublish
  /\ published' = [published EXCEPT ![r] = @ + 1]
  /\ cli' = [request |-> r, run |-> cache[PathFor(r)], sent |-> 0]
  /\ UNCHANGED <<queueVars, born, workerVars, cacheVars, contents, confirmed,
                 bounds>>

PublishCached ==
  /\ cli.request # NoRequest /\ cli.sent <= NPasses
  /\ confirmed' = confirmed \cup {EventOf(cli.run, cli.sent, cli.request)}
  /\ cli' = [cli EXCEPT !.sent = @ + 1]
  /\ UNCHANGED <<queueVars, inputVars, workerVars, cacheVars, contents,
                 bounds>>

(* The command ends: after its last event, on a broker error, or killed.   *)
EndCached ==
  /\ cli.request # NoRequest
  /\ cli' = NoCli
  /\ UNCHANGED <<queueVars, inputVars, workerVars, cacheVars, contents,
                 confirmed, bounds>>

-----------------------------------------------------------------------------
(* The file system around the workers.                                     *)

ReplaceSource(s) ==
  /\ contents[PathOf[s]] # s /\ disturbed < MaxDisturb
  /\ disturbed' = disturbed + 1
  /\ contents' = [contents EXCEPT ![PathOf[s]] = s]
  /\ UNCHANGED <<queueVars, inputVars, workerVars, cacheVars, confirmed, cli,
                 crashes>>

DropCache(p) ==
  /\ cache[p] # 0 /\ disturbed < MaxDisturb
  /\ disturbed' = disturbed + 1
  /\ cache' = [cache EXCEPT ![p] = 0]
  /\ UNCHANGED <<queueVars, inputVars, workerVars, marker, runs, contents,
                 confirmed, cli, crashes>>

-----------------------------------------------------------------------------
LocalStep(w) ==
  \/ \E c \in DOMAIN work : Deliver(w, c)
  \/ Lock(w) \/ UseCache(w) \/ ExecuteOcr(w) \/ FailOcr(w) \/ Finish(w)
  \/ RejectEvent(w) \/ Route(w) \/ Ack(w) \/ Abandon(w)

WorkerStep(w) == LocalStep(w) \/ PublishEvent(w)

Environment ==
  \/ \E r \in Request : Publish(r) \/ StartCached(r)
  \/ \E w \in Worker : Crash(w) \/ ConnectionLost(w)
  \/ \E c \in DOMAIN retry : RetryExpires(c)
  \/ EndCached
  \/ \E s \in Source : ReplaceSource(s)
  \/ \E p \in Path : DropCache(p)

Next ==
  \/ \E w \in Worker : WorkerStep(w)
  \/ PublishCached
  \/ Environment

Spec == Init /\ [][Next]_vars

-----------------------------------------------------------------------------
Delivered(r) ==
  \E n \in 1..Len(runs) :
     /\ runs[n].source = SourceOf[r]
     /\ \A i \in Parts : EventOf(n, i, r) \in confirmed

Owned(w, r) == attached[w] /\ phase[w] # "settled" /\ job[w].request = r

Pending(r) ==
  \/ \E c \in DOMAIN work \cup DOMAIN retry : c.request = r
  \/ \E w \in Worker : Owned(w, r)

(***************************************************************************)
(* A confirmed publication is never lost: until every event of one OCR run *)
(* of its source is confirmed, a copy of the message is queued, waiting    *)
(* for its retry, dead-lettered, or held unacknowledged by a worker that   *)
(* has not handed it on (handle_worker_delivery, "Publish every result     *)
(* with confirms before acknowledging OCR work").                          *)
(***************************************************************************)
NoWorkLost ==
  \A r \in Request :
     Queued(r) /\ published[r] > 0 => Pending(r) \/ r \in dead \/ Delivered(r)

(***************************************************************************)
(* A request for fresh OCR (v2 in mode fresh, or v3) is never answered     *)
(* with a run that predates the request or that read other contents,       *)
(* whatever was cached, retried, redelivered or replaced meanwhile         *)
(* (produce_result_messages, force_refresh and the completion marker).     *)
(***************************************************************************)
FreshEvidence ==
  \A e \in confirmed :
     e.part = 0 /\ Fresh(e.request) =>
        /\ e.run > born[e.request]
        /\ runs[e.run].source = SourceOf[e.request]

(***************************************************************************)
(* A pass event reaches the broker only after some run event of its run,   *)
(* so a collector fed in publication order always finds the run row        *)
(* (result_messages_for_receipt, "one run event followed by ... passes").  *)
(***************************************************************************)
PassesAfterRun ==
  \A e \in confirmed :
     e.part > 0 => \E r \in Request : EventOf(e.run, 0, r) \in confirmed

(***************************************************************************)
(* OCR is not repeated for a request whose completion marker still matches *)
(* the artifact of the same contents: a redelivery that overtakes an       *)
(* abandoned OCR child waits for the lock and then sees the child's marker *)
(* (cache_rebuild_lock around _completed_cache_rebuild).                    *)
(***************************************************************************)
NoWastedOcr ==
  [][ \A r \in Request :
        /\ Len(runs') > Len(runs)
        /\ runs'[Len(runs')].request = r
        => ~( /\ Rebuild(r) /\ CompletedRebuild(r)
              /\ CacheHit(PathFor(r)) ) ]_vars
=============================================================================
