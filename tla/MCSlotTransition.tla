--------------------------- MODULE MCSlotTransition ---------------------------
(***************************************************************************)
(* Small instances of SlotTransition: the slot installed before, and new   *)
(* journals bound to it or to nothing.                                     *)
(***************************************************************************)
EXTENDS SlotTransition, TLC

mcExpectations == {None, [transaction |-> Installed, generation |-> 1]}

Symmetric == Permutations(Process) \cup Permutations(Transaction)
=============================================================================
