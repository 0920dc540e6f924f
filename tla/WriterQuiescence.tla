--------------------------- MODULE WriterQuiescence ---------------------------
(***************************************************************************)
(* The writer-admission gate in front of the ledger                        *)
(* (evergreen_witness_writer_quiescence.py, WitnessWriterQuiescenceGate):  *)
(* a row of witness_writer_quiescence in the ledger's own database, never  *)
(* deleted.  As in CasFence the signed columns follow from the state.      *)
(***************************************************************************)
EXTENDS CasFence

Admitted      == "ADMITTED_NOT_DISPATCHED"
InFlight      == "CAS_MAY_BE_IN_FLIGHT"
Stopping      == "STOP_REQUESTED_NO_DISPATCH"
StoppingSent  == "STOP_REQUESTED_MAY_BE_IN_FLIGHT"
StoppedPrior  == "SERVICE_ASSERTED_STOPPED_PRIOR_SIGNED_UNRESOLVED"
StoppedNext   == "SERVICE_ASSERTED_STOPPED_SUCCESSOR_SIGNED_FORWARD_REQUIRED"
Terminal      == {StoppedPrior, StoppedNext}
GateStatus    == {Admitted, InFlight, Stopping, StoppingSent} \cup Terminal
GateRow       == [req : Request, st : GateStatus]

ASSUME NoGateAssumption == NoRow \notin GateRow

VARIABLE gate

GateTypeOK == gate \in GateRow \cup {NoRow}

\* _read: the row, when it is this request's; another request's raises.
GateOf(q) == gate # NoRow /\ gate.req = q

\* A faulty variant: the row is admitted with the ledger's status.
AdmitAsReserved(q) ==
  /\ gate = NoRow
  /\ FenceOf(q) /\ ledger.st = Prepared
  /\ gate' = ledger

\* admit: in one transaction, no row yet and the ledger's reservation unsent.
Admit(q) ==
  /\ gate = NoRow
  /\ FenceOf(q) /\ ledger.st = Prepared
  /\ gate' = [req |-> q, st |-> Admitted]

\* A faulty variant: the row is overwritten without the comparison.
TransitionOver(previous, state) ==
  /\ gate # NoRow
  /\ gate' = [previous EXCEPT !.st = state]

\* _transition: compare-and-set of the row against the snapshot read before.
Transition(previous, state) ==
  /\ gate = previous
  /\ gate' = [gate EXCEPT !.st = state]

\* request_stop: the state a stop of this snapshot leads to, given what the
\* ledger read for it said.
StopState(previous, fence) ==
  IF previous.st = Admitted /\ fence # NoRow /\ fence.st = Prepared
  THEN Stopping ELSE StoppingSent

\* certify_stopped_and_observe: the state a recognised signed head leads to.
StoppedState(q, h) == IF SignedSuccessor(q, h) THEN StoppedNext ELSE StoppedPrior
=============================================================================
