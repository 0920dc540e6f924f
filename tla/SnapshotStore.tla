----------------------------- MODULE SnapshotStore -----------------------------
(***************************************************************************)
(* What backup and restore promise: an archive appears all at once, is a   *)
(* tree some workspace really was, and is not replaced; a workspace that   *)
(* is restored appears all at once where there was nothing.  Staging is    *)
(* nowhere in it.                                                          *)
(***************************************************************************)
CONSTANTS Path, BackupId, Tree, Empty, None

VARIABLES
  live,            \* the tree at each path, or None
  kept,            \* the tree in each archive, or None
  past             \* every tree a workspace has been

vars == <<live, kept, past>>

Trees(workspaces) == {workspaces[path] : path \in Path} \ {None}

Init ==
  /\ live \in [Path -> Tree \cup {None}]
  /\ kept = [id \in BackupId |-> None]
  /\ past = Trees(live)

\* Whoever works in a workspace changes one file of it.
Write(path) ==
  /\ live[path] # None
  /\ \E t \in Tree : /\ \A f, g \in DOMAIN t :
                          t[f] # live[path][f] /\ t[g] # live[path][g] => f = g
                     /\ live' = [live EXCEPT ![path] = t]
                     /\ past' = past \cup {t}
  /\ UNCHANGED kept

\* A workspace is made empty, or restored.
Appear(path) ==
  /\ live[path] = None
  /\ \E t \in past \cup {Empty} : /\ live' = [live EXCEPT ![path] = t]
                                  /\ past' = past \cup {t}
  /\ UNCHANGED kept

Keep(id) ==
  /\ kept[id] = None
  /\ \E t \in past : kept' = [kept EXCEPT ![id] = t]
  /\ UNCHANGED <<live, past>>

Discard(id) ==
  /\ kept' = [kept EXCEPT ![id] = None]
  /\ UNCHANGED <<live, past>>

Next ==
  \/ \E path \in Path : Write(path) \/ Appear(path)
  \/ \E id \in BackupId : Keep(id) \/ Discard(id)

Spec == Init /\ [][Next]_vars
=============================================================================
