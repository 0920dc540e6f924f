--------------------------- MODULE WorkspaceCustody ---------------------------
(***************************************************************************)
(* The workspace commands together, over the same trees, archives and      *)
(* preference, while teachers and other programs keep writing to the       *)
(* workspaces and a command can fail, or die, between any two steps.       *)
(***************************************************************************)
EXTENDS WorkspaceBackup, WorkspaceRestore, WorkspaceSelection

\* A workspace with some files, or none yet.
CustodyInit ==
  /\ \E first \in [File -> {Absent, 1}] \cup {None} :
       tree = [path \in Path |-> IF path = Default THEN first ELSE None]
  /\ archive = [id \in BackupId |-> None]
  /\ staging = [key \in Target \X Nonce |-> None]
  /\ saved = None
  /\ edits = 1
  /\ past = {tree[path] : path \in Path} \ {None}
  /\ command = [p \in Process |-> None]
  /\ roles \in Roles

-----------------------------------------------------------------------------
(* The world around the commands.                                          *)

\* A file of a workspace is written, or removed.
Edit(path, f, content) ==
  /\ Exists(path)
  /\ edits < MaxEdits
  /\ edits' = edits + 1
  /\ content \in {edits + 1, Absent}
  /\ tree' = [tree EXCEPT ![path][f] = content]
  /\ past' = past \cup {tree'[path]}
  /\ UNCHANGED <<archive, staging, saved, command, roles>>

DamageArchive(id, f) ==
  /\ archive[id] # None
  /\ archive' = [archive EXCEPT ![id].payload[f] = Damaged]
  /\ UNCHANGED <<tree, staging, saved, edits, past, command, roles>>

DiscardArchive(id) ==
  /\ archive[id] # None
  /\ archive' = [archive EXCEPT ![id] = None]
  /\ UNCHANGED <<tree, staging, saved, edits, past, command, roles>>

World ==
  \/ \E path \in Path, f \in File, content \in Content \cup {Absent} : Edit(path, f, content)
  \/ \E id \in BackupId, f \in File : DamageArchive(id, f)
  \/ \E id \in BackupId : DiscardArchive(id)

-----------------------------------------------------------------------------
(* How a command ends early.                                               *)

\* A refusal, or Q, before there is staging.
Refuse(p) ==
  /\ command[p] # None /\ ~HasStaging(p)
  /\ command' = [command EXCEPT ![p] = None]
  /\ UNCHANGED <<tree, archive, staging, saved, edits, past, roles>>

\* What nobody's command owns any more; nothing reads its files.
Orphan == [owner |-> None, files |-> Empty]

\* An error: _cleanup_staging, as far as the file system lets it.
FailAndClean(p, left) ==
  /\ HasStaging(p)
  /\ staging' = [staging EXCEPT ![StagingOf(p)] = left]
  /\ command' = [command EXCEPT ![p] = None]
  /\ UNCHANGED <<tree, archive, saved, edits, past, roles>>

\* Killed: nothing runs, and the staging directory stays for an operator.
Die(p) ==
  /\ command[p] # None
  /\ staging' = [key \in Target \X Nonce |->
                   IF staging[key] # None /\ staging[key].owner = p
                   THEN Orphan ELSE staging[key]]
  /\ command' = [command EXCEPT ![p] = None]
  /\ UNCHANGED <<tree, archive, saved, edits, past, roles>>

EndEarly(p) ==
  \/ Refuse(p)
  \/ \E left \in {None, Orphan} : FailAndClean(p, left)
  \/ Die(p)

CustodyStep(p) == BackupStep(p) \/ RestoreStep(p) \/ SelectionStep(p) \/ EndEarly(p)

CustodyNext == World \/ \E p \in Process : CustodyStep(p)

CustodySpec == CustodyInit /\ [][CustodyNext]_custodyVars

-----------------------------------------------------------------------------
(* Properties.                                                             *)

\* A backup holds a tree that the workspace really was at one moment, not files
\* of different moments: what changed during the copy is found by the second
\* walk and the second hash.
PublishedIsSnapshot == \A id \in BackupId : archive[id] # None => archive[id].manifest \in past

\* A preference that was saved names a directory that was made first, whatever
\* else ran or died between the two Core calls.
SelectedExists == saved # None => Exists(saved)

\* A backup verifies at the moment it is published, even if the disk damaged
\* what was staged.
PublishedVerifies ==
  [][\A id \in BackupId : archive[id] = None => archive'[id] = None \/ Verifies(id)']_custodyVars

\* A staging directory disappears only at the hands of the command that made it:
\* a command that meets another's, or a dead one's, leaves it alone.
StagingKept ==
  [][\A key \in Target \X Nonce : staging[key] # None =>
       \/ staging'[key] # None
       \/ \E p \in Process : /\ command[p] # None /\ command'[p] = None
                             /\ staging[key].owner = p]_custodyVars

Store == INSTANCE SnapshotStore WITH
  live <- tree,
  kept <- [id \in BackupId |-> IF archive[id] = None THEN None ELSE archive[id].manifest]

\* Backup and restore, with their staging and their races, are the store above:
\* complete trees that appear once, replacing nothing.
ImplementsSnapshotStore == Store!Spec

\* What stands in the way of losing a teacher's files, all of it: backups are of
\* one moment and verify when they appear, nobody clears away another's staged
\* copy, and the saved preference leads to a directory.
WorkspacesStand ==
  /\ []PublishedIsSnapshot
  /\ []SelectedExists
  /\ PublishedVerifies
  /\ StagingKept
=============================================================================
