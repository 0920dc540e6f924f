----------------------------- MODULE MCPlanService -----------------------------
(***************************************************************************)
(* Small instances of PlanService, with the receipts and requests of       *)
(* MCWitnessService.                                                       *)
(***************************************************************************)
EXTENDS PlanService, TLC

CONSTANTS g, a, b, none

mcReceipt     == {g, a, b}
mcGeneration  == g :> 1 @@ a :> 2 @@ b :> 2
mcPredecessor == g :> none @@ a :> g @@ b :> g

mcRequest  == {[pred |-> g, succ |-> r, rev |-> 1] : r \in {a, b}}
oneRequest == {[pred |-> g, succ |-> a, rev |-> 1]}

\* With a request at a revision where its successor may already stand.
openRequest == mcRequest \cup {[pred |-> g, succ |-> a, rev |-> 2]}

Symmetric == Permutations(Proc)
=============================================================================
