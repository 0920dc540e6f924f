------------------------------- MODULE OneShotCas -------------------------------
(***************************************************************************)
(* What the witness service promises about an update of one installation:  *)
(* one request is ever reserved, the witness is asked to move the head at  *)
(* most once and only after that possibility is on record, and once the    *)
(* outcome is settled as prior or next the head stays what it says.        *)
(***************************************************************************)
EXTENDS CommitRequests

CONSTANT NoUpdate

VARIABLES
  head,     \* the installation's head at the witness
  update    \* NoUpdate, or the reserved request and its phase

Phase == {"reserved", "possible", "prior", "next"}

Init ==
  /\ head \in {[rev |-> Generation[r], sha |-> r] : r \in Receipt} \cup {NoHead}
  /\ update = NoUpdate

Reserve(q) ==
  /\ update = NoUpdate
  /\ update' = [req |-> q, phase |-> "reserved"]
  /\ UNCHANGED head

InPhase(phases) == update # NoUpdate /\ update.phase \in phases

MarkPossible ==
  /\ InPhase({"reserved"})
  /\ update' = [update EXCEPT !.phase = "possible"]
  /\ UNCHANGED head

Land ==
  /\ InPhase({"possible"})
  /\ SignedPrior(update.req, head)
  /\ head' = SuccessorHead(update.req)
  /\ UNCHANGED update

Settle ==
  /\ InPhase({"reserved", "possible"})
  /\ \/ SignedPrior(update.req, head) /\ update' = [update EXCEPT !.phase = "prior"]
     \/ SignedSuccessor(update.req, head) /\ update' = [update EXCEPT !.phase = "next"]
  /\ UNCHANGED head

Next ==
  \/ \E q \in Request : Reserve(q)
  \/ MarkPossible
  \/ Land
  \/ Settle

Spec == Init /\ [][Next]_<<head, update>>
=============================================================================
