---------------------------- MODULE CommitProtocol ----------------------------
(***************************************************************************)
(* The witness's head of one installation as the commit protocol           *)
(* (evergreen_witness_commit_protocol.py) moves it.  Reading a signed head *)
(* is one step here: FreshHeadRead is the promise that lets it be.         *)
(***************************************************************************)
EXTENDS CommitRequests

VARIABLES
  head,      \* this installation's row of witness_heads
  attempts   \* history: calls of commit_receipt made for a fenced request

HeadTypeOK == head \in HeadRow \cup {NoHead} /\ attempts \in Nat

\* commit_independently_approved_successor, from its approval on: one call of
\* commit_receipt, which takes the successor or refuses it.
AttemptCommit(q) ==
  /\ attempts' = attempts + 1
  /\ head' = IF Continues(head, q.succ) THEN Appended(head, q.succ) ELSE head

\* A commit_receipt call of some other administrator of the store.
OtherCommit(r) ==
  /\ Continues(head, r)
  /\ head' = Appended(head, r)
  /\ UNCHANGED attempts
=============================================================================
