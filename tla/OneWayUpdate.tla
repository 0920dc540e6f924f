----------------------------- MODULE OneWayUpdate -----------------------------
(***************************************************************************)
(* What the plan's records promise about the three acts on an              *)
(* installation, writing the receipt, deleting the recovery capsule and    *)
(* launching the successor: each is claimed before it is done and done at  *)
(* most once; it is settled at most once and not done after that; and no   *)
(* act is claimed before the ones before it are settled.                   *)
(***************************************************************************)
EXTENDS Naturals

CONSTANT Act, Earlier   \* Earlier[a]: the acts that come before a

VARIABLES claimed, done, settled

Start == claimed = {} /\ done = {} /\ settled = {}

Claim(a) ==
  /\ a \notin claimed
  /\ Earlier[a] \subseteq settled
  /\ claimed' = claimed \cup {a}
  /\ UNCHANGED <<done, settled>>

Do(a) ==
  /\ a \in claimed
  /\ a \notin done \cup settled
  /\ done' = done \cup {a}
  /\ UNCHANGED <<claimed, settled>>

Settle(a) ==
  /\ a \in claimed
  /\ a \notin settled
  /\ settled' = settled \cup {a}
  /\ UNCHANGED <<claimed, done>>

Go == \E a \in Act : Claim(a) \/ Do(a) \/ Settle(a)

Promised == Start /\ [][Go]_<<claimed, done, settled>>
=============================================================================
