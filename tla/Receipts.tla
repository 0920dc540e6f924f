------------------------------- MODULE Receipts -------------------------------
(***************************************************************************)
(* Canonical active-installation receipts, as the witness and the clients  *)
(* compare them (evergreen_active_receipts.py).  SHA-256 is taken to be    *)
(* injective, so a receipt stands for its own digest: comparing two        *)
(* digests is comparing two receipts.  Of a receipt's fields the models    *)
(* keep the generation and the predecessor digest; the rest only           *)
(* distinguishes one receipt from another.                                 *)
(***************************************************************************)
EXTENDS Naturals

CONSTANTS
  Receipt,        \* the receipts that parse
  NoReceipt,      \* previous_receipt_sha256 = null
  Generation,     \* Generation[r]  is r.generation
  Predecessor,    \* Predecessor[r] is r.previous_receipt_sha256
  MaxGeneration,  \* _MAX_GENERATION, 2**53 - 1 in the code
  NoHead          \* an installation without a row in witness_heads

(***************************************************************************)
(* What parse_untrusted_active_receipt guarantees of each receipt it       *)
(* returns.  It checks that exactly the first generation has no            *)
(* predecessor; it cannot check the predecessor's own generation, of which *)
(* it sees only a digest.                                                  *)
(***************************************************************************)
ASSUME ReceiptAssumption ==
  /\ NoReceipt \notin Receipt
  /\ MaxGeneration \in Nat \ {0}
  /\ Generation \in [Receipt -> 1..MaxGeneration]
  /\ Predecessor \in [Receipt -> Receipt \cup {NoReceipt}]
  /\ \A r \in Receipt : Generation[r] = 1 <=> Predecessor[r] = NoReceipt

\* A receipt that may start an installation's chain.
IsGenesis(r) == Generation[r] = 1 /\ Predecessor[r] = NoReceipt

\* A receipt that continues the chain whose head is old.
Succeeds(new, old) ==
  /\ Generation[new] = Generation[old] + 1
  /\ Predecessor[new] = old

(***************************************************************************)
(* The witness's durable head of one installation: a row of witness_heads. *)
(* previous_generation and previous_sha256 are functions of the receipt.   *)
(***************************************************************************)
HeadRow == [rev : Nat \ {0}, sha : Receipt]

ASSUME NoHeadAssumption == NoHead \notin HeadRow

\* commit_receipt's checks: a receipt is taken as a genesis by an installation
\* without a head, or as the exact continuation of the head.
Continues(h, r) ==
  \/ h = NoHead /\ IsGenesis(r)
  \/ /\ h # NoHead
     /\ Generation[h.sha] < MaxGeneration
     /\ h.rev < MaxGeneration
     /\ Succeeds(r, h.sha)

\* A faulty variant: the first row starts at revision 0.
AppendedFromZero(h, r) == [rev |-> IF h = NoHead THEN 0 ELSE h.rev + 1, sha |-> r]

\* A faulty variant: a continuation keeps its predecessor's revision.
AppendedInPlace(h, r) == [rev |-> IF h = NoHead THEN 1 ELSE h.rev, sha |-> r]

\* The row commit_receipt writes.
Appended(h, r) == [rev |-> IF h = NoHead THEN 1 ELSE h.rev + 1, sha |-> r]
=============================================================================
