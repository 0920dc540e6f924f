----------------------------- MODULE FreshHeadRead -----------------------------
(***************************************************************************)
(* What the checkpoint witness promises its callers: every installation    *)
(* has one chain of receipts that only grows at its head, and a query that *)
(* returns an observation returns the head as it stood at one instant      *)
(* between the call and its return.  Nothing here mentions nonces, clocks  *)
(* or messages; CheckpointStore implements it with those.                  *)
(***************************************************************************)
EXTENDS Receipts

CONSTANTS Installation, Client, Idle

VARIABLES
  head,      \* installation -> [rev, sha] or NoHead
  read,      \* client -> Idle, or the read it has in progress
  results    \* what completed reads returned

vars == <<head, read, results>>

Pending(i)     == [inst |-> i, stage |-> "asked"]
Observed(i, h) == [inst |-> i, stage |-> "seen", rev |-> h.rev, sha |-> h.sha]

Init ==
  /\ head = [i \in Installation |-> NoHead]
  /\ read = [c \in Client |-> Idle]
  /\ results = {}

Advance(i, r) ==
  /\ Continues(head[i], r)
  /\ head' = [head EXCEPT ![i] = Appended(head[i], r)]
  /\ UNCHANGED <<read, results>>

Ask(c, i) ==
  /\ read[c] = Idle
  /\ read' = [read EXCEPT ![c] = Pending(i)]
  /\ UNCHANGED <<head, results>>

Look(c, i) ==
  /\ read[c] = Pending(i)
  /\ head[i] # NoHead
  /\ read' = [read EXCEPT ![c] = Observed(i, head[i])]
  /\ UNCHANGED <<head, results>>

Return(c) ==
  /\ read[c] # Idle
  /\ read[c].stage = "seen"
  /\ results' = results \cup {[inst |-> read[c].inst, rev |-> read[c].rev, sha |-> read[c].sha]}
  /\ read' = [read EXCEPT ![c] = Idle]
  /\ UNCHANGED head

Fail(c) ==
  /\ read[c] # Idle
  /\ read' = [read EXCEPT ![c] = Idle]
  /\ UNCHANGED <<head, results>>

Next ==
  \/ \E i \in Installation, r \in Receipt : Advance(i, r)
  \/ \E c \in Client, i \in Installation : Ask(c, i) \/ Look(c, i)
  \/ \E c \in Client : Return(c) \/ Fail(c)

Spec == Init /\ [][Next]_vars
=============================================================================
