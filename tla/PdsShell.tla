------------------------------- MODULE PdsShell -------------------------------
(***************************************************************************)
(* The pds program at a teacher's desk: the workspace commands, the guided *)
(* classroom setup, the launcher with its settings, and the script that    *)
(* installs them.  They share no file but the workspace, in which a        *)
(* setup's writes are edits like any other, so that a behaviour uses one   *)
(* family of commands at a time.                                           *)
(***************************************************************************)
EXTENDS WorkspaceCustody, ClassroomSetup, SuiteLaunch, SuiteBootstrap

CONSTANTS
  Family           \* the families of commands that are explored

ASSUME FamilyAssumption == Family \subseteq {"custody", "classroom", "launch", "bootstrap"}

VARIABLES family   \* the one that is in use

shellVars == <<custodyVars, classroomVars, launchVars, bootstrapVars, family>>

\* The families that are not in use start in one way.
ShellInit ==
  /\ CustodyInit /\ ClassroomInit /\ LaunchInit /\ BootstrapInit
  /\ family \in Family
  /\ family # "custody" => ~Exists(Default) /\ \A p \in Process : roles[p] = {}
  /\ family # "classroom" => source = [c \in Class |-> CHOOSE r \in Roster : TRUE]
  /\ family # "bootstrap" => target = Nil

\* cli.main: the first words of the command line choose the handler.
WorkspaceCommands ==
  family = "custody" /\ CustodyNext /\ UNCHANGED <<classroomVars, launchVars, bootstrapVars>>

SetupCommand ==
  family = "classroom" /\ ClassroomNext /\ UNCHANGED <<custodyVars, launchVars, bootstrapVars>>

LaunchCommands ==
  family = "launch" /\ LaunchNext /\ UNCHANGED <<custodyVars, classroomVars, bootstrapVars>>

\* bootstrap_windows.ps1, which runs pds bootstrap from the wheel.
BootstrapScripts ==
  family = "bootstrap" /\ BootstrapNext /\ UNCHANGED <<custodyVars, classroomVars, launchVars>>

ShellNext ==
  /\ UNCHANGED family
  /\ WorkspaceCommands \/ SetupCommand \/ LaunchCommands \/ BootstrapScripts

ShellSpec == ShellInit /\ [][ShellNext]_shellVars

\* The files and calls of all four families stay well formed.
ShellTypeOK == CustodyTypeOK /\ ClassroomTypeOK /\ LaunchTypeOK /\ BootstrapTypeOK
=============================================================================
