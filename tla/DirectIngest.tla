---------------------------- MODULE DirectIngest ----------------------------
(***************************************************************************)
(* Ingest inside one process: process_backlog over a folder                *)
(* (receipts/backlog_ingest.py) and process_message for one queued message *)
(* (receipts/queue_ingest.py). The deployed workers no longer call them;   *)
(* tests and scripts do. Both work under a session lock per receipt, which *)
(* outlives the commits they make on the way. A process may die anywhere;  *)
(* its sessions, and so its locks, end with it.                            *)
(***************************************************************************)
EXTENDS Integers, FiniteSets

CONSTANTS Callers,    \* processes
          Paths,      \* receipt files
          Hashes,     \* SHA-256 of their contents
          Orders,     \* messages: [path, digest, kind, request]
          NoOrder,    \* no request
          MaxTries,   \* MAX_ATTEMPTS
          MaxIngests,   \* bound on calls of process_backlog and process_message
          MaxEdits    \* bound on replaced files

ASSUME DirectAssumption == MaxTries \in Nat \ {0} /\ MaxIngests \in Nat /\ MaxEdits \in Nat

VARIABLES disk,       \* contents of each file
          ingested,   \* receipt_processing_status: status and attempts
          asked,      \* receipt_reprocess_requests and receipt_cache_requests
          booked,     \* receipts with evidence
          callers,    \* what each process does
          backlog,    \* holder of the backlog lock
          unverified, \* history: receipts completed by process_backlog
          ingests, edits

directVars == <<disk, ingested, asked, booked, callers, backlog, unverified, ingests, edits>>

Resting  == [at |-> "resting", left |-> {}]
Requests == {o.request : o \in Orders} \ {NoOrder}

\* A request is a row of its receipt, (source_sha256, request_id): no two
\* receipts share one.
ASSUME OrderAssumption ==
    /\ Orders \subseteq [path : Paths, digest : Hashes, kind : {"import", "reprocess", "cache"},
                         request : Requests \cup {NoOrder}]
    /\ \A o, p \in Orders : o.request = p.request /\ o.request # NoOrder => o.digest = p.digest

Completed(d) == ingested[d].status = "completed"
Working(c) == callers[c].at \in {"reading", "parsing", "saving"}

DirectInit ==
    /\ disk \in [Paths -> Hashes]
    /\ ingested = [d \in Hashes |-> [status |-> "none", attempts |-> 0]]
    /\ asked = [r \in Requests |-> [attempts |-> 0, done |-> FALSE]]
    /\ booked = {}
    /\ callers = [c \in Callers |-> Resting]
    /\ backlog = NoOrder
    /\ unverified = {}
    /\ ingests = 0 /\ edits = 0

\* A message is checked against the file before and after it is read;
\* the candidates of a backlog are not.
Checked(o)  == o.kind \notin {"backlog", "backlog refresh"}
\* The kinds that read the file anew although its receipt is completed.
Refreshes(o) == o.kind \in {"reprocess", "cache", "backlog refresh"}

-----------------------------------------------------------------------------
(* Calls *)

ProcessMessage(c, o) ==
    /\ callers[c] = Resting /\ ingests < MaxIngests
    /\ callers' = [callers EXCEPT ![c] = [at |-> "waiting", left |-> {}, order |-> o]]
    /\ ingests' = ingests + 1
    /\ UNCHANGED <<disk, ingested, asked, booked, backlog, unverified, edits>>

Candidate(p, kind) == [path |-> p, digest |-> disk[p], kind |-> kind, request |-> NoOrder]

\* plan_unprocessed_receipts: one backlog at a time, all files hashed, and the
\* completed ones left out unless they are to be read anew.
ProcessBacklog(c, kind) ==
    /\ callers[c] = Resting /\ ingests < MaxIngests /\ backlog = NoOrder
    /\ backlog' = c
    /\ callers' = [callers EXCEPT ![c] =
                      [at |-> "choosing", left |-> {Candidate(p, kind) :
                          p \in {x \in Paths : kind = "backlog" => ~Completed(disk[x])}}]]
    /\ ingests' = ingests + 1
    /\ UNCHANGED <<disk, ingested, asked, booked, unverified, edits>>

Choose(c) ==
    /\ callers[c].at = "choosing"
    /\ \E o \in callers[c].left :
          callers' = [callers EXCEPT ![c] = [at |-> "waiting", left |-> @.left \ {o}, order |-> o]]
    /\ UNCHANGED <<disk, ingested, asked, booked, backlog, unverified, ingests, edits>>

\* The end of process_backlog.
EndBacklog(c) ==
    /\ callers[c] = [at |-> "choosing", left |-> {}]
    /\ callers' = [callers EXCEPT ![c] = Resting] /\ backlog' = NoOrder
    /\ UNCHANGED <<disk, ingested, asked, booked, unverified, ingests, edits>>

\* Where a process goes on when one receipt is done or has failed.
AfterOne(c) == IF backlog = c THEN [at |-> "choosing", left |-> callers[c].left] ELSE Resting

-----------------------------------------------------------------------------
(* One receipt: process_candidate and rebuild_cache_message *)

\* Mutant: the receipt lock ends with the first commit under it.
LockUntilCommit(d) == {}
LockHolders(d) == {c \in Callers : Working(c) /\ callers[c].order.digest = d}

IsDone(o)    == \/ o.request # NoOrder /\ asked[o.request].done
                \/ ~Refreshes(o) /\ Completed(o.digest)
Exhausted(o) == IF o.request # NoOrder THEN asked[o.request].attempts >= MaxTries
                ELSE Checked(o) /\ ingested[o.digest].attempts >= MaxTries

\* With the lock: skipped, out of attempts, or counted and committed before
\* anything is read. A cache rebuild keeps no ingest status.
Admit(c) ==
    LET o == callers[c].order
    IN /\ callers[c].at = "waiting" /\ LockHolders(o.digest) = {}
       /\ IF IsDone(o) \/ Exhausted(o)
          THEN /\ callers' = [callers EXCEPT ![c] = AfterOne(c)]
               /\ ingested' = IF ~IsDone(o) /\ o.request = NoOrder
                              THEN [ingested EXCEPT ![o.digest].status = "failed"] ELSE ingested
               /\ UNCHANGED asked
          ELSE /\ callers' = [callers EXCEPT ![c].at = "reading"]
               /\ ingested' = IF o.kind = "cache" THEN ingested
                              ELSE [ingested EXCEPT ![o.digest] =
                                       [status |-> "processing", attempts |-> @.attempts + 1]]
               /\ asked' = IF o.request = NoOrder THEN asked
                           ELSE [asked EXCEPT ![o.request].attempts = @ + 1]
       /\ UNCHANGED <<disk, booked, backlog, unverified, ingests, edits>>

\* The file is compared with the message, ...
Verify(c) ==
    /\ callers[c].at = "reading"
    /\ Checked(callers[c].order) => disk[callers[c].order.path] = callers[c].order.digest
    /\ callers' = [callers EXCEPT ![c].at = "parsing"]
    /\ UNCHANGED <<disk, ingested, asked, booked, backlog, unverified, ingests, edits>>

\* ... and then read, by OCR or from its cache.
Read(c) ==
    /\ callers[c].at = "parsing"
    /\ callers' = [callers EXCEPT ![c] = [at |-> "saving", left |-> @.left, order |-> @.order,
                                          read |-> disk[@.order.path]]]
    /\ UNCHANGED <<disk, ingested, asked, booked, backlog, unverified, ingests, edits>>

\* Evidence, status and request in one transaction: the evidence is that of
\* the contents read, the status that of the candidate.
\* Mutant: the file on disk is enough.
IntactNow(c) == disk[callers[c].order.path] = callers[c].order.digest
Intact(c) == callers[c].read = callers[c].order.digest /\ disk[callers[c].order.path] = callers[c].order.digest
Save(c) ==
    LET o == callers[c].order
    IN /\ callers[c].at = "saving" /\ (Checked(o) => Intact(c))
       /\ booked' = IF o.kind = "cache" THEN booked ELSE booked \cup {callers[c].read}
       /\ ingested' = IF o.kind = "cache" THEN ingested ELSE [ingested EXCEPT ![o.digest].status = "completed"]
       /\ asked' = IF o.request = NoOrder THEN asked ELSE [asked EXCEPT ![o.request].done = TRUE]
       /\ unverified' = IF Checked(o) THEN unverified ELSE unverified \cup {o.digest}
       /\ callers' = [callers EXCEPT ![c] = AfterOne(c)]
       /\ UNCHANGED <<disk, backlog, ingests, edits>>

\* A changed file, or any other error; a cache rebuild records none.
Fail(c) ==
    /\ Working(c)
    /\ ingested' = IF callers[c].order.kind = "cache" THEN ingested
                   ELSE [ingested EXCEPT ![callers[c].order.digest].status = "failed"]
    /\ callers' = [callers EXCEPT ![c] = AfterOne(c)]
    /\ UNCHANGED <<disk, asked, booked, backlog, unverified, ingests, edits>>

Perish(c) ==
    /\ callers[c] # Resting
    /\ callers' = [callers EXCEPT ![c] = Resting]
    /\ backlog' = IF backlog = c THEN NoOrder ELSE backlog
    /\ UNCHANGED <<disk, ingested, asked, booked, unverified, ingests, edits>>

EditFile(p, d) ==
    /\ edits < MaxEdits /\ disk[p] # d
    /\ disk' = [disk EXCEPT ![p] = d] /\ edits' = edits + 1
    /\ UNCHANGED <<ingested, asked, booked, callers, backlog, unverified, ingests>>

DirectNext ==
    \/ \E c \in Callers, o \in Orders : ProcessMessage(c, o)
    \/ \E c \in Callers, kind \in {"backlog", "backlog refresh"} : ProcessBacklog(c, kind)
    \/ \E c \in Callers : \/ Choose(c) \/ EndBacklog(c)
                          \/ Admit(c) \/ Verify(c) \/ Read(c) \/ Save(c) \/ Fail(c) \/ Perish(c)
    \/ \E p \in Paths, d \in Hashes : EditFile(p, d)

DirectSpec == DirectInit /\ [][DirectNext]_directVars
-----------------------------------------------------------------------------
(* Properties *)

\* Two processes never work a receipt through twice: what a message or a
\* backlog saves had not been done before, by its own request or, without a
\* refresh, by anybody, although the status was read before the lock was
\* awaited and commits are made while it is held ("Commit one receipt
\* atomically; recheck completion after taking its lock",
\* receipts/backlog_ingest.py); and no request is tried more often than the
\* budget allows, however often it is delivered and its process dies.
WorkedOnce ==
    /\ \A c \in Callers : Working(c) => ~IsDone(callers[c].order)
    /\ \A r \in Requests : asked[r].attempts <= MaxTries

\* A receipt that messages completed has evidence of its own contents, also
\* when the file was replaced while it was read.
CompletedHasEvidence ==
    \A d \in Hashes : Completed(d) /\ d \notin unverified => d \in booked
=============================================================================
