--------------------------- MODULE MCCheckpointStore ---------------------------
(***************************************************************************)
(* Small instances of CheckpointStore.  The receipts are a genesis g, two  *)
(* competing successors a and b of it, and c, which continues a.           *)
(***************************************************************************)
EXTENDS CheckpointStore, TLC

CONSTANTS g, a, b, c, none

mcReceipt     == {g, a, b, c}
mcGeneration  == g :> 1 @@ a :> 2 @@ b :> 2 @@ c :> 3
mcPredecessor == g :> none @@ a :> g @@ b :> g @@ c :> a

\* Nonces are drawn at random and clients and installations are alike, so
\* permuting them changes nothing (no property tells them apart).
Symmetric ==
  Permutations(Client) \cup Permutations(Nonce) \cup Permutations(Installation)
=============================================================================
