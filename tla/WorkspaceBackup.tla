---------------------------- MODULE WorkspaceBackup ----------------------------
(***************************************************************************)
(* pds workspace backup create: a read-only plan, then, after BACKUP is    *)
(* typed, a second walk, an exclusive staging directory, a copy of every   *)
(* file, a third walk, a second hash of every source file, a hash of the   *)
(* staged files, the manifest, and a rename that replaces nothing.         *)
(* Nobody stops writing to the workspace meanwhile.                        *)
(***************************************************************************)
EXTENDS Workspaces

\* plan_workspace_backup.
PlanBackup(p, id) ==
  /\ MayStart(p, "backup")
  /\ Exists(Resolved(p))
  /\ archive[id] = None
  /\ \E free \in FreeBytes : EnoughSpace(Inventory(tree[Resolved(p)]), free)
  /\ command' = [command EXCEPT ![p] =
       [op |-> "backup", at |-> "planned", root |-> Resolved(p), source |-> Source(p),
        id |-> id, target |-> id, nonce |-> None,
        reviewed |-> Inventory(tree[Resolved(p)]), got |-> Empty, todo |-> {}]]
  /\ UNCHANGED <<tree, archive, staging, saved, edits, past, roles>>

\* The plan is shown, and BACKUP is typed.
ConfirmBackup(p) ==
  /\ Running(p, Backing, "planned")
  /\ Move(p, "confirmed")
  /\ UNCHANGED <<tree, archive, staging, saved, edits, past, roles>>

\* The names and sizes are still those that were reviewed.
AsReviewed(p) ==
  /\ Exists(command[p].root)
  /\ Inventory(tree[command[p].root]) = command[p].reviewed

\* _recheck_plan_source and _prepare_destination_for_execution.
RecheckBackup(p) ==
  /\ Running(p, Backing, "confirmed")
  /\ Resolved(p) = command[p].root
  /\ AsReviewed(p)
  /\ archive[command[p].id] = None
  /\ \E free \in FreeBytes : EnoughSpace(command[p].reviewed, free)
  /\ Move(p, "checked")
  /\ UNCHANGED <<tree, archive, staging, saved, edits, past, roles>>

ReviewedFiles(p) == {f \in File : command[p].reviewed[f] # 0}

\* The exclusive mkdir, then _create_staging_payload.
StageBackup(p, nonce) ==
  /\ Running(p, Backing, "checked")
  /\ MakeStaging(p, nonce, ReviewedFiles(p))
  /\ UNCHANGED <<tree, archive, saved, edits, past, roles>>

\* _copy_regular_file: opened once, its size the same before and after.
CopySource(p, f, landed) ==
  /\ Running(p, Backing, "copying") /\ f \in Left(p)
  /\ Exists(command[p].root)
  /\ tree[command[p].root][f] # Absent
  /\ CopyInto(p, f, tree[command[p].root][f], landed)
  /\ UNCHANGED <<tree, archive, saved, edits, past, roles>>

\* A faulty variant: only names and sizes are compared after the copy.
RewalkTrusts(p) ==
  /\ Running(p, Backing, "copying") /\ Left(p) = {}
  /\ AsReviewed(p)
  /\ NextPass(p, "rehashing", {})
  /\ UNCHANGED <<tree, archive, staging, saved, edits, past, roles>>

\* _verify_source_matches_copied: the walk...
Rewalk(p) ==
  /\ Running(p, Backing, "copying") /\ Left(p) = {}
  /\ AsReviewed(p)
  /\ NextPass(p, "rehashing", ReviewedFiles(p))
  /\ UNCHANGED <<tree, archive, staging, saved, edits, past, roles>>

\* ... and then every source file again.
RehashSource(p, f) ==
  /\ Running(p, Backing, "rehashing") /\ f \in Left(p)
  /\ Exists(command[p].root)
  /\ tree[command[p].root][f] = command[p].got[f]
  /\ DoneWith(p, f)
  /\ UNCHANGED <<tree, archive, staging, saved, edits, past, roles>>

\* create_workspace_backup_manifest: an entry that was copied has the size that
\* was reviewed.
ManifestMatchesPlan(p) == Inventory(command[p].got) = command[p].reviewed

\* A faulty variant: the staged files are not read back.
StagedAsHoped(p) == StagedFiles(p) \in Stored

\* _verify_staged_payload.
StagedAsCopied(p) == SameBytes(command[p].got, StagedFiles(p))

\* _verify_staged_payload, the manifest and its read-back, all inside staging.
SealBackup(p) ==
  /\ Running(p, Backing, "rehashing") /\ Left(p) = {}
  /\ StagedAsCopied(p)
  /\ ManifestMatchesPlan(p)
  /\ Move(p, "sealed")
  /\ UNCHANGED <<tree, archive, staging, saved, edits, past, roles>>

\* _publish_staging and _rename_no_replace.
PublishBackup(p) ==
  /\ Running(p, Backing, "sealed")
  /\ archive[command[p].id] = None
  /\ archive' = [archive EXCEPT ![command[p].id] =
                   [manifest |-> command[p].got, payload |-> StagedFiles(p)]]
  /\ TakeStaging(p)
  /\ UNCHANGED <<tree, saved, edits, past, roles>>

BackupStep(p) ==
  \/ \E id \in BackupId : PlanBackup(p, id)
  \/ ConfirmBackup(p)
  \/ RecheckBackup(p)
  \/ \E nonce \in Nonce : StageBackup(p, nonce)
  \/ \E f \in File, landed \in Content \cup {Damaged} : CopySource(p, f, landed)
  \/ Rewalk(p)
  \/ \E f \in File : RehashSource(p, f)
  \/ SealBackup(p)
  \/ PublishBackup(p)
=============================================================================
