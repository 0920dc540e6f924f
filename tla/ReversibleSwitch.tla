--------------------------- MODULE ReversibleSwitch ---------------------------
(***************************************************************************)
(* What the local files promise about a change of slot: at most one        *)
(* candidate is pending; it is given up freely until it has been offered   *)
(* to the witness, and never afterwards; and the slot in force changes     *)
(* only when the witness commits an offered candidate.                     *)
(***************************************************************************)
CONSTANTS Slot, None

VARIABLES
  slot,      \* the slot in force, or None
  pending    \* None, or a candidate and whether it was offered

Init == slot \in Slot \cup {None} /\ pending = None

Start(c) ==
  /\ pending = None
  /\ pending' = [candidate |-> c, offered |-> FALSE]
  /\ UNCHANGED slot

Undecided == pending # None /\ ~pending.offered

GiveUp == Undecided /\ pending' = None /\ UNCHANGED slot

Offer ==
  /\ Undecided
  /\ pending' = [candidate |-> pending.candidate, offered |-> TRUE]
  /\ UNCHANGED slot

Commit ==
  /\ pending # None /\ pending.offered
  /\ slot' = pending.candidate
  /\ UNCHANGED pending

Next == (\E c \in Slot : Start(c)) \/ GiveUp \/ Offer \/ Commit

Spec == Init /\ [][Next]_<<slot, pending>>
=============================================================================
