---------------------------- MODULE CommitRequests ----------------------------
(***************************************************************************)
(* Requests of the lost-acknowledgement commit protocol                    *)
(* (evergreen_witness_commit_protocol.py): a request names the receipt and *)
(* revision it expects at the witness and the successor it proposes, and a *)
(* freshly signed head is classified against both.                         *)
(***************************************************************************)
EXTENDS Receipts

CONSTANT Request   \* the requests that pass _validated: [pred, succ, rev]

\* _validated: consecutive generations, an exact predecessor link and a
\* revision that can still be incremented.
ASSUME RequestAssumption ==
  /\ Request \subseteq [pred : Receipt, succ : Receipt, rev : Nat \ {0}]
  /\ \A q \in Request : Succeeds(q.succ, q.pred) /\ q.rev < MaxGeneration

PriorHead(q)     == [rev |-> q.rev,     sha |-> q.pred]
SuccessorHead(q) == [rev |-> q.rev + 1, sha |-> q.succ]

\* A faulty variant: the successor is recognised by its receipt at any revision.
SignedByReceipt(q, h) == h # NoHead /\ h.sha = q.succ

\* _signed_head: the classification of a fresh signed head.  Any other head
\* (none, divergent, or an exact receipt at an unexpected revision) raises.
SignedPrior(q, h)     == h = PriorHead(q)
SignedSuccessor(q, h) == h = SuccessorHead(q)
Recognised(q, h)      == SignedPrior(q, h) \/ SignedSuccessor(q, h)
=============================================================================
