------------------------------ MODULE Workspaces ------------------------------
(***************************************************************************)
(* What the workspace commands of the pds program share: workspace trees,  *)
(* backup archives, the hidden staging directories that become either, the *)
(* saved workspace preference, and the command each process is running.    *)
(*                                                                         *)
(* A directory tree is its regular files.  The content of a file is the    *)
(* number of the edit that wrote it, so that no later edit repeats an      *)
(* earlier content; the directories, which have no bytes, are left out, as *)
(* are links and special files, which every walk refuses.  A walk over the *)
(* names and sizes of a tree is one step; the bytes of each file are read  *)
(* in a step of their own.                                                 *)
(***************************************************************************)
EXTENDS Integers, FiniteSets, FiniteSetsExt

CONSTANTS
  Process,         \* running pds commands
  Path,            \* directories that are or may become workspaces
  Default,         \* Core's default workspace root
  Override,        \* the root a process finds in PDS_WORKSPACE_ROOT
  BackupId,        \* backup names: the second in which a plan was made
  Nonce,           \* staging name suffixes
  File,            \* relative file names
  Size,            \* the length of each content
  FreeBytes,       \* free space a destination may report
  MinReserve,      \* BACKUP_MINIMUM_RESERVE_BYTES
  ReservePercent,  \* the reserve in percent of the payload
  MaxEdits,        \* bound on the edits of workspace files
  Roles,           \* bound on who runs what: the sessions that are explored
  None             \* no directory, no archive, no preference, no command

Backing   == {"backup"}
Restoring == {"restore"}
Selecting == {"set", "initialize"}
Custodial == Backing \cup Restoring \cup Selecting

Absent  == 0                    \* no such file
Content == 1..MaxEdits
Damaged == MaxEdits + 1         \* bytes nobody wrote

ASSUME WorkspaceAssumption ==
  /\ IsFiniteSet(File)
  /\ MaxEdits \in Nat \ {0}
  /\ Size \in [Content -> Nat \ {0}]
  /\ FreeBytes \subseteq Nat /\ MinReserve \in Nat /\ ReservePercent \in Nat
  /\ Default \in Path
  /\ Override \in [Process -> Path \cup {None}]
  /\ BackupId \cap Path = {}
  /\ Roles \subseteq [Process -> SUBSET Custodial]

Tree  == [File -> Content \cup {Absent}]
Stored == [File -> Content \cup {Absent, Damaged}]
Empty == [f \in File |-> Absent]

Target  == BackupId \cup Path
Staged  == [owner : Process \cup {None}, files : Stored]
Archive == [manifest : Tree, payload : Stored]

Where     == {"planned", "confirmed", "checked", "copying", "rehashing", "sealed", "ensured"}

\* A command: what was reviewed (the sizes, or the manifest), what was copied,
\* and the files the current pass has left.
Command ==
  [op : Custodial, at : Where,
   root : Path, source : {"environment", "saved", "default"},
   id : BackupId \cup {None}, target : Target, nonce : Nonce \cup {None},
   reviewed : [File -> Nat], got : Tree, todo : SUBSET File]

ASSUME WorkspaceNoneAssumption ==
  /\ None \notin Path \cup BackupId \cup Nonce \cup Process
  /\ None \notin Tree \cup Archive \cup Staged \cup Command

VARIABLES
  tree,            \* the files below each path, or None
  archive,         \* each published backup
  staging,         \* each .incomplete- directory
  saved,           \* Core's saved workspace preference
  edits,           \* edits so far
  past,            \* every tree a workspace has been
  command,         \* what each process is doing
  roles            \* the commands a process may run, which never changes

custodyVars == <<tree, archive, staging, saved, edits, past, command, roles>>

CustodyTypeOK ==
  /\ tree \in [Path -> Tree \cup {None}]
  /\ archive \in [BackupId -> Archive \cup {None}]
  /\ staging \in [Target \X Nonce -> Staged \cup {None}]
  /\ saved \in Path \cup {None}
  /\ edits \in 0..MaxEdits
  /\ past \subseteq Tree
  /\ command \in [Process -> Command \cup {None}]
  /\ roles \in Roles

-----------------------------------------------------------------------------
(* Walks, manifests and space.                                             *)

Present(t) == {f \in File : t[f] # Absent}

\* inventory_workspace: the names and the sizes, never the bytes.
Inventory(t) == [f \in File |-> IF t[f] = Absent THEN 0 ELSE Size[t[f]]]

\* The hash of every stored file is that of the tree's.
SameBytes(t, stored) == \A f \in File : stored[f] = t[f]

TotalBytes(sizes) == MapThenSumSet(LAMBDA f : sizes[f], File)

\* required_backup_free_bytes: the payload and the larger of the two reserves.
RequiredFreeBytes(total) ==
  LET share == (total * ReservePercent + 99) \div 100
  IN total + (IF share > MinReserve THEN share ELSE MinReserve)

EnoughSpace(sizes, free) == free >= RequiredFreeBytes(TotalBytes(sizes))

-----------------------------------------------------------------------------
(* Which workspace a process works on.                                     *)

Resolved(p) == IF Override[p] # None THEN Override[p]
               ELSE IF saved # None THEN saved ELSE Default

Source(p) == IF Override[p] # None THEN "environment"
             ELSE IF saved # None THEN "saved" ELSE "default"

Exists(path) == tree[path] # None

-----------------------------------------------------------------------------
(* Commands and their staging directories.                                 *)

MayStart(p, op) == command[p] = None /\ op \in roles[p]

Running(p, ops, where) ==
  command[p] # None /\ command[p].op \in ops /\ command[p].at = where

Move(p, where) == command' = [command EXCEPT ![p].at = where]

Left(p) == command[p].todo

NextPass(p, where, files) ==
  command' = [command EXCEPT ![p].at = where, ![p].todo = files]

DoneWith(p, f) == command' = [command EXCEPT ![p].todo = @ \ {f}]

StagingOf(p) == <<command[p].target, command[p].nonce>>
HasStaging(p) == command[p] # None /\ command[p].nonce # None

\* A faulty variant: a name that is taken is found out inside the try block.
NameStaging(p, nonce, files) ==
  /\ staging' = IF staging[<<command[p].target, nonce>>] = None
                THEN [staging EXCEPT ![<<command[p].target, nonce>>] =
                        [owner |-> p, files |-> Empty]]
                ELSE staging
  /\ command' = [command EXCEPT ![p].at = "copying", ![p].nonce = nonce,
                                ![p].todo = files]

\* The staging directory is made with mkdir(exist_ok=False), outside the try
\* block that cleans up: it is the caller's only if the caller made it.
MakeStaging(p, nonce, files) ==
  /\ staging[<<command[p].target, nonce>>] = None
  /\ staging' = [staging EXCEPT ![<<command[p].target, nonce>>] =
                   [owner |-> p, files |-> Empty]]
  /\ command' = [command EXCEPT ![p].at = "copying", ![p].nonce = nonce,
                                ![p].todo = files]

\* A file is copied into staging: the bytes that went by are remembered, and
\* may have reached the disk damaged.
CopyInto(p, f, content, landed) ==
  /\ landed \in {content, Damaged}
  /\ staging' = [staging EXCEPT ![StagingOf(p)].files[f] = landed]
  /\ command' = [command EXCEPT ![p].got[f] = content, ![p].todo = @ \ {f}]

StagedFiles(p) == staging[StagingOf(p)].files

\* The staged tree becomes the final directory: the rename never replaces.
TakeStaging(p) ==
  /\ staging' = [staging EXCEPT ![StagingOf(p)] = None]
  /\ command' = [command EXCEPT ![p] = None]

=============================================================================
