------------------------------- MODULE CasFence -------------------------------
(***************************************************************************)
(* The service's durable one-attempt ledger for one installation           *)
(* (evergreen_witness_cas_fence.py, WitnessCasFenceLedger): a row of       *)
(* witness_cas_attempt_fences, never deleted.  witnessed_revision and      *)
(* witnessed_sha256 are functions of the status (_read_locked refuses any  *)
(* other pair), so the row is its request and its status.  Each operator   *)
(* below is one BEGIN IMMEDIATE transaction, or one read.                  *)
(***************************************************************************)
EXTENDS CommitProtocol

CONSTANT NoRow   \* the installation has no row

Prepared     == "PREPARED_NO_DISPATCH"
MayHaveSent  == "CAS_MAY_HAVE_BEEN_DISPATCHED"
PriorSigned  == "PRIOR_SIGNED_STILL_UNRESOLVED"
SuccSigned   == "SUCCESSOR_SIGNED_FORWARD_RECOVERY_REQUIRED"
FenceStatus  == {Prepared, MayHaveSent, PriorSigned, SuccSigned}
FenceRow     == [req : Request, st : FenceStatus]

ASSUME NoRowAssumption == NoRow \notin FenceRow

VARIABLE ledger

FenceTypeOK == ledger \in FenceRow \cup {NoRow}

\* _read_locked: the row, when it is this request's; another request's raises.
FenceOf(q) == ledger # NoRow /\ ledger.req = q

\* A faulty variant: a reservation replaces an undispatched one.
ReserveOver(q) ==
  /\ ledger # NoRow => ledger.st = Prepared
  /\ ledger' = [req |-> q, st |-> Prepared]

\* reserve: only where there is no row at all.
Reserve(q) ==
  /\ ledger = NoRow
  /\ ledger' = [req |-> q, st |-> Prepared]

\* A faulty variant: a dispatch is repeated until a successor is recorded.
ClaimUntilSigned(q) ==
  /\ FenceOf(q)
  /\ ledger.st # SuccSigned
  /\ ledger' = [ledger EXCEPT !.st = MayHaveSent]

\* A faulty variant: the claim is checked but not written.
ClaimUnwritten(q) ==
  /\ FenceOf(q)
  /\ ledger.st = Prepared
  /\ UNCHANGED ledger

\* _claim_once: the durable mark that precedes the one call of the witness.
ClaimOnce(q) ==
  /\ FenceOf(q)
  /\ ledger.st = Prepared
  /\ ledger' = [ledger EXCEPT !.st = MayHaveSent]

\* inspect_signed_head, its first read: a dispatch must be on record.
Dispatched(q) == FenceOf(q) /\ ledger.st # Prepared

\* inspect_signed_head between its signed read and its transaction: the status
\* a head stands for, which may not take back a successor already recorded.
StatusFor(q, h) == IF SignedSuccessor(q, h) THEN SuccSigned ELSE PriorSigned
MayRecord(q, initial, h) ==
  /\ Recognised(q, h)
  /\ initial.st = SuccSigned => SignedSuccessor(q, h)

\* A faulty variant: the row read first is not compared again.
RecordOver(initial, status) ==
  /\ ledger # NoRow
  /\ ledger' = [initial EXCEPT !.st = status]

\* inspect_signed_head, its transaction: only if the row is still the one read.
RecordHead(initial, status) ==
  /\ ledger = initial
  /\ ledger' = [ledger EXCEPT !.st = status]
=============================================================================
