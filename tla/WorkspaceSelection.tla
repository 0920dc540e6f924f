-------------------------- MODULE WorkspaceSelection --------------------------
(***************************************************************************)
(* pds workspace set, setup and reset.  Core makes the directory, Core     *)
(* saves the preference: the two are separate operations, and a failure    *)
(* between them is reported as a partial success.                          *)
(***************************************************************************)
EXTENDS Workspaces

\* set_workspace up to the first change: PDS_WORKSPACE_ROOT refuses another root.
BeginSet(p, path) ==
  /\ MayStart(p, "set")
  /\ Source(p) = "environment" => Resolved(p) = path
  /\ command' = [command EXCEPT ![p] =
       [op |-> "set", at |-> "planned", root |-> path, source |-> Source(p),
        id |-> None, target |-> path, nonce |-> None,
        reviewed |-> Empty, got |-> Empty, todo |-> {}]]
  /\ UNCHANGED <<tree, archive, staging, saved, edits, past, roles>>

\* initialize_resolved_workspace, which setup runs under PDS_WORKSPACE_ROOT.
BeginInitialize(p) ==
  /\ MayStart(p, "initialize")
  /\ Source(p) = "environment"
  /\ command' = [command EXCEPT ![p] =
       [op |-> "initialize", at |-> "planned", root |-> Resolved(p), source |-> Source(p),
        id |-> None, target |-> Resolved(p), nonce |-> None,
        reviewed |-> Empty, got |-> Empty, todo |-> {}]]
  /\ UNCHANGED <<tree, archive, staging, saved, edits, past, roles>>

\* A faulty variant: the directory is left to whoever comes next.
LeftUnmade(path) == UNCHANGED tree

\* Core's ensure_workspace_root(create=True).
Made(path) == tree' = [tree EXCEPT ![path] = IF @ = None THEN Empty ELSE @]

EnsureRoot(p) ==
  /\ Running(p, Selecting, "planned")
  /\ Made(command[p].root)
  /\ past' = past \cup {tree'[command[p].root]}
  /\ command' = [command EXCEPT ![p] = IF @.op = "set" THEN [@ EXCEPT !.at = "ensured"]
                                       ELSE None]
  /\ UNCHANGED <<archive, staging, saved, edits, roles>>

\* Core's save_workspace_root; the resolution that follows only reports.
SavePreference(p) ==
  /\ Running(p, {"set"}, "ensured")
  /\ saved' = command[p].root
  /\ command' = [command EXCEPT ![p] = None]
  /\ UNCHANGED <<tree, archive, staging, edits, past, roles>>

\* reset_workspace: Core's clear_saved_workspace_root.
ResetPreference(p) ==
  /\ MayStart(p, "set")
  /\ saved' = None
  /\ UNCHANGED <<tree, archive, staging, edits, past, command, roles>>

SelectionStep(p) ==
  \/ \E path \in Path : BeginSet(p, path)
  \/ BeginInitialize(p)
  \/ EnsureRoot(p)
  \/ SavePreference(p)
  \/ ResetPreference(p)
=============================================================================
