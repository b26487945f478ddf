-------------------------- MODULE ReceiptContract --------------------------
(***************************************************************************)
(* The message contracts shared by the OCR worker, the result collector    *)
(* and the intake publisher:                                               *)
(*   receipts/message.py      versioned work messages (v1, v2, v3)          *)
(*   receipts/ocr_results.py  run and pass result events                    *)
(*   receipts/sources.py      the source reference a message names          *)
(*                                                                         *)
(* A Source is a SHA-256 content identity, a Path the source reference     *)
(* under which the file is stored.  The two are kept apart because the     *)
(* cache lock and the database key on the former, the cache artifact on    *)
(* the latter.                                                             *)
(***************************************************************************)
EXTENDS Integers, Bags, BagsExt

CONSTANTS
  Source,        \* SHA-256 identities of receipt contents
  Path,          \* source references under the receipt root
  PathOf,        \* the reference each content is filed under
  Request,       \* message identities: one per request_id, or the v1 message
  SourceOf,      \* the content each request names
  Kind,          \* the contract and OCR mode of each request
  NPasses,       \* OCR passes a run records
  MaxAttempts,   \* MAX_ATTEMPTS of message.py
  NoRequest      \* request field of an event that carries none

(***************************************************************************)
(* "normal" is v1, "reprocess" v2 in mode fresh, "auto" v2 in mode auto,   *)
(* "cache_only" v3.  "cached" is a CLI re-extraction, which publishes      *)
(* result events itself and never enters the work queue.                   *)
(***************************************************************************)
Kinds == {"normal", "reprocess", "auto", "cache_only", "cached"}

ASSUME ContractAssumption ==
  /\ PathOf \in [Source -> Path]
  /\ SourceOf \in [Request -> Source]
  /\ Kind \in [Request -> Kinds]
  /\ NPasses \in Nat
  /\ MaxAttempts \in Nat \ {0}
  /\ NoRequest \notin Request

Queued(r)  == Kind[r] # "cached"
Rebuild(r) == Kind[r] \in {"reprocess", "auto", "cache_only"}
Fresh(r)   == Kind[r] \in {"reprocess", "cache_only"}

PersistenceMode(r) ==
  IF Kind[r] \in {"normal", "cache_only"} THEN Kind[r] ELSE "reprocess"

PathFor(r) == PathOf[SourceOf[r]]

(***************************************************************************)
(* Result events.  Part 0 is the run event, which names its request; the   *)
(* others are the pass events, which carry no request and no mode.         *)
(***************************************************************************)
Parts == 0..NPasses

Event == [run : Nat \ {0}, part : Parts, source : Source,
          request : Request \cup {NoRequest}]

EventOf(run, part, r) ==
  [run |-> run, part |-> part, source |-> SourceOf[r],
   request |-> IF part = 0 THEN r ELSE NoRequest]

(* The events of the executed runs: what publishers send.                  *)
ReceiptEvents ==
  {EventOf(run, part, r) : run \in Nat \ {0}, part \in Parts, r \in Request}

(***************************************************************************)
(* A queue is a bag of messages: RabbitMQ gives no order that survives a   *)
(* redelivery, and the same message may be in it more than once.           *)
(***************************************************************************)
IsQueue(q, S) ==
  /\ DOMAIN q \subseteq S
  /\ q \in [DOMAIN q -> Nat \ {0}]
=============================================================================
