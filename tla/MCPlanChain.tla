----------------------------- MODULE MCPlanChain -----------------------------
(***************************************************************************)
(* A small instance of PlanChain: receipts g, a and b, an update from g    *)
(* to a, and two states of the other local files.                          *)
(***************************************************************************)
EXTENDS PlanChain, TLC

CONSTANTS g, a, b, none

mcReceipt     == {g, a, b}
mcGeneration  == g :> 1 @@ a :> 2 @@ b :> 3
mcPredecessor == g :> none @@ a :> g @@ b :> a

mcRequest == {[pred |-> g, succ |-> a, rev |-> 1]}

Symmetric == Permutations(Proc) \cup Permutations(Local)
=============================================================================
