--------------------------- MODULE WorkspaceRestore ---------------------------
(***************************************************************************)
(* pds workspace restore: the backup is verified, a plan is reviewed, and  *)
(* after RESTORE is typed the backup is verified again, its payload copied *)
(* into an exclusive staging directory beside the destination, verified a  *)
(* third time, the staged files hashed, and the directory renamed without  *)
(* replacing anything.  The backup itself is never written; it may be      *)
(* damaged, discarded or made anew meanwhile.                              *)
(***************************************************************************)
EXTENDS Workspaces

\* _canonical_backup_root, _validate_top_level and _load_manifest: a published
\* backup, never an .incomplete- directory.  (A manifest that is rewritten is a
\* backup discarded and another one made.)
Readable(id) == archive[id] # None

\* _verify_inventory: the payload is exactly what the manifest lists.
PayloadMatches(id) == SameBytes(archive[id].manifest, archive[id].payload)

\* verify_workspace_backup, and pds workspace backup verify.
Verifies(id) == Readable(id) /\ PayloadMatches(id)

\* plan_workspace_restore: never inside or over the current workspace.
PlanRestore(p, id, destination) ==
  /\ MayStart(p, "restore")
  /\ Verifies(id)
  /\ destination # Resolved(p)
  /\ tree[destination] = None
  /\ \E free \in FreeBytes : EnoughSpace(Inventory(archive[id].manifest), free)
  /\ command' = [command EXCEPT ![p] =
       [op |-> "restore", at |-> "planned", root |-> Resolved(p), source |-> Source(p),
        id |-> id, target |-> destination, nonce |-> None,
        reviewed |-> archive[id].manifest, got |-> Empty, todo |-> {}]]
  /\ UNCHANGED <<tree, archive, staging, saved, edits, past, roles>>

\* The plan is shown, and RESTORE is typed.
ConfirmRestore(p) ==
  /\ Running(p, Restoring, "planned")
  /\ Move(p, "confirmed")
  /\ UNCHANGED <<tree, archive, staging, saved, edits, past, roles>>

\* _same_verification: the backup still is the one that was reviewed.
StillVerifies(p) ==
  /\ Verifies(command[p].id)
  /\ archive[command[p].id].manifest = command[p].reviewed

\* _recheck_restore_sources and _prepare_destination_for_execution.
RecheckRestore(p) ==
  /\ Running(p, Restoring, "confirmed")
  /\ StillVerifies(p)
  /\ Resolved(p) = command[p].root /\ Source(p) = command[p].source
  /\ tree[command[p].target] = None
  /\ \E free \in FreeBytes : EnoughSpace(Inventory(command[p].reviewed), free)
  /\ Move(p, "checked")
  /\ UNCHANGED <<tree, archive, staging, saved, edits, past, roles>>

\* The exclusive mkdir, then _create_staging_tree.
StageRestore(p, nonce) ==
  /\ Running(p, Restoring, "checked")
  /\ MakeStaging(p, nonce, Present(command[p].reviewed))
  /\ UNCHANGED <<tree, archive, saved, edits, past, roles>>

\* _copy_verified_file: what went by has the hash and size of the manifest entry.
CopyPayload(p, f, landed) ==
  /\ Running(p, Restoring, "copying") /\ f \in Left(p)
  /\ archive[command[p].id] # None
  /\ archive[command[p].id].payload[f] = command[p].reviewed[f]
  /\ CopyInto(p, f, command[p].reviewed[f], landed)
  /\ UNCHANGED <<tree, archive, saved, edits, past, roles>>

\* The second verification of the backup, and copied = manifest.files.
ReverifyBackup(p) ==
  /\ Running(p, Restoring, "copying") /\ Left(p) = {}
  /\ StillVerifies(p)
  /\ command[p].got = command[p].reviewed
  /\ Move(p, "rehashing")
  /\ UNCHANGED <<tree, archive, staging, saved, edits, past, roles>>

\* A faulty variant: the staged workspace is not read back.
RestoredAsHoped(p) == StagedFiles(p) \in Stored

\* _verify_staged_restore.
RestoredAsReviewed(p) == SameBytes(command[p].reviewed, StagedFiles(p))

SealRestore(p) ==
  /\ Running(p, Restoring, "rehashing")
  /\ RestoredAsReviewed(p)
  /\ Move(p, "sealed")
  /\ UNCHANGED <<tree, archive, staging, saved, edits, past, roles>>

\* A faulty variant: a rename that replaces an empty directory.
NothingOrEmpty(path) == tree[path] = None \/ tree[path] = Empty

\* _rename_no_replace.
NothingThere(path) == tree[path] = None

\* _publish_staging: a damaged tree would be a workspace with damaged files.
PublishRestore(p) ==
  /\ Running(p, Restoring, "sealed")
  /\ NothingThere(command[p].target)
  /\ tree' = [tree EXCEPT ![command[p].target] = StagedFiles(p)]
  /\ past' = past \cup {StagedFiles(p)}
  /\ TakeStaging(p)
  /\ UNCHANGED <<archive, saved, edits, roles>>

RestoreStep(p) ==
  \/ \E id \in BackupId, destination \in Path : PlanRestore(p, id, destination)
  \/ ConfirmRestore(p)
  \/ RecheckRestore(p)
  \/ \E nonce \in Nonce : StageRestore(p, nonce)
  \/ \E f \in File, landed \in Content \cup {Damaged} : CopyPayload(p, f, landed)
  \/ ReverifyBackup(p)
  \/ SealRestore(p)
  \/ PublishRestore(p)
=============================================================================
