--------------------------- MODULE MCWitnessService ---------------------------
(***************************************************************************)
(* A small instance of WitnessService: a genesis g, its successor a, and   *)
(* the update from one to the other.                                       *)
(***************************************************************************)
EXTENDS WitnessService, TLC

CONSTANTS g, a, none

mcReceipt     == {g, a}
mcGeneration  == g :> 1 @@ a :> 2
mcPredecessor == g :> none @@ a :> g
oneRequest    == {[pred |-> g, succ |-> a, rev |-> 1]}
=============================================================================
