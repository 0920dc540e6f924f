---------------------------- MODULE SuiteBootstrap ----------------------------
(***************************************************************************)
(* bootstrap_windows.ps1 and the bootstrap commands it calls: a target     *)
(* environment is inspected and planned, the wheels it misses are          *)
(* authenticated, the environment is made or kept and filled by pip, and   *)
(* what is installed is verified and marked.  The script holds no lock; it *)
(* leaves a sentinel with its nonce in a directory that it makes, and      *)
(* removes the directory again, by that proof, when it fails.              *)
(*                                                                         *)
(* What pip installs appears when pip has installed it; wheels and digests *)
(* are the versions they carry.  A version installed from source is none   *)
(* that a release ships.                                                   *)
(***************************************************************************)
EXTENDS Naturals

CONSTANTS
  Script,          \* running scripts
  Release,         \* authenticated suite wheels, with their manifests
  Optional,        \* components that may be selected
  Ships,           \* the version of each package in each release
  Orders,          \* bound on what a script is asked for
  Found,           \* bound on what is at the target path at first
  MaxMade,         \* bound on directories made there
  MaxMeddling,     \* bound on changes by hand
  Nil

Required == {"core", "suite"}
Package  == Required \cup Optional

FromSource  == "source"
Version == {Ships[release][p] : release \in Release, p \in Package} \cup {FromSource}

\* made says which directory it is, 0 for one that was there before, which no
\* script has its nonce in; spoilt, that somebody began to remove it.
Environment ==
  [made : 0..MaxMade, venv : BOOLEAN, pip : BOOLEAN, pkg : [Package -> Version \cup {Nil}],
   marker : Release \cup {Nil}, sentinel : 0..MaxMade, spoilt : BOOLEAN]

\* nonce is the ownership nonce, named for the directory that was made with it;
\* verified, in which directory the composition was.
BootstrapRun ==
  [release : Release, chosen : SUBSET Optional, create : BOOLEAN, left : SUBSET Package,
   wheels : SUBSET Package, nonce : 0..MaxMade, verified : 0..MaxMade,
   at : {"planned", "ready", "rooted", "pip", "packages", "seen", "marked", "failed", "removing"}]

ASSUME BootstrapAssumption ==
  /\ Ships \in [Release -> [Package -> Version \ {FromSource, Nil}]]
  /\ Orders \subseteq [release : Release, chosen : SUBSET Optional]
  /\ Found \subseteq Environment \cup {Nil}
  /\ \A env \in Found \ {Nil} : env.made = 0 /\ env.sentinel = 0
  /\ MaxMade \in Nat /\ MaxMeddling \in Nat
  /\ Nil \notin BootstrapRun \cup Environment \cup Release \cup Version

VARIABLES
  target,          \* the environment at the target path
  scripts,         \* what each script is doing
  made,            \* directories made so far
  installed,       \* what each script last reported as completed, and where
  meddled,         \* changes by hand so far
  withdrawn        \* a script began to remove what it had marked

bootstrapVars == <<target, scripts, made, installed, meddled, withdrawn>>

BootstrapTypeOK ==
  /\ target \in Environment \cup {Nil}
  /\ scripts \in [Script -> BootstrapRun \cup {Nil}]
  /\ made \in 0..MaxMade
  /\ installed \in
       [Script -> [release : Release, chosen : SUBSET Optional, made : 0..MaxMade] \cup {Nil}]
  /\ meddled \in 0..MaxMeddling
  /\ withdrawn \in BOOLEAN

BootstrapInit ==
  /\ target \in Found
  /\ scripts = [s \in Script |-> Nil]
  /\ made = 0
  /\ installed = [s \in Script |-> Nil]
  /\ meddled = 0 /\ withdrawn = FALSE

-----------------------------------------------------------------------------
(* The inspection of the target and the plan.                              *)

IsVenv == target # Nil /\ target.venv

\* inspect_windows_environment: packages are read of a virtual environment only.
Observed(p) == IF IsVenv THEN target.pkg[p] ELSE Nil

\* A faulty variant: an environment that nobody marked is adopted.
EnvironmentFree(release) == target = Nil \/ (IsVenv /\ target.marker \in {release, Nil})

\* _environment_blockers: only what a bootstrap of this release marked is kept.
EnvironmentRight(release) == target = Nil \/ (IsVenv /\ target.marker = release)

\* _package_plan: what is there stays, and must be what the release ships, even
\* if it was not selected.
PackagesRight(release) == \A p \in Package : Observed(p) \in {Nil, Ships[release][p]}

CanBootstrap(release) == EnvironmentRight(release) /\ PackagesRight(release)

Missing(release, chosen) == {p \in Required \cup chosen : Observed(p) = Nil}

ScriptAt(s, where) == scripts[s] # Nil /\ scripts[s].at = where

Advance(s, where) == scripts' = [scripts EXCEPT ![s].at = where]

\* All that is left of a script that failed is the nonce of what it made.
Failed(s, nonce) ==
  [scripts[s] EXCEPT !.chosen = {}, !.create = FALSE, !.left = {}, !.wheels = {},
                     !.nonce = nonce, !.verified = 0, !.at = "failed"]

\* The plan that is applied is the one that is read as JSON; a blocked plan
\* ends the script.
PlanTarget(s, order) ==
  /\ scripts[s] = Nil
  /\ CanBootstrap(order.release)
  /\ scripts' = [scripts EXCEPT ![s] =
       [release |-> order.release, chosen |-> order.chosen, create |-> target = Nil,
        left |-> Missing(order.release, order.chosen), wheels |-> {}, nonce |-> 0,
        verified |-> 0, at |-> "planned"]]
  /\ UNCHANGED <<target, made, installed, meddled, withdrawn>>

\* required_component_artifacts and verify_required_artifacts plan again, each
\* from what they find; the suite's own wheel was authenticated before.
PrepareArtifacts(s) ==
  /\ ScriptAt(s, "planned")
  /\ CanBootstrap(scripts[s].release)
  /\ scripts' = [scripts EXCEPT
       ![s].wheels = Missing(scripts[s].release, scripts[s].chosen) \ {"suite"},
       ![s].at = "ready"]
  /\ UNCHANGED <<target, made, installed, meddled, withdrawn>>

-----------------------------------------------------------------------------
(* The target.                                                             *)

NoPackages == [p \in Package |-> Nil]

NewTarget(venv, sentinel) ==
  [made |-> made + 1, venv |-> venv, pip |-> FALSE, pkg |-> NoPackages, marker |-> Nil,
   sentinel |-> sentinel, spoilt |-> FALSE]

\* A faulty variant: a directory that appeared after the plan is replaced.
AbsentOrReplaced == TRUE

\* The plan's absence still holds: New-Item refuses what exists.
StillAbsent == target = Nil

\* Initialize-OwnedTargetRoot.  Without its sentinel the directory stays.
MakeTargetRoot(s) ==
  /\ ScriptAt(s, "ready") /\ scripts[s].create
  /\ StillAbsent
  /\ made < MaxMade
  /\ \E written \in BOOLEAN :
       /\ target' = NewTarget(FALSE, IF written THEN made + 1 ELSE 0)
       /\ scripts' = [scripts EXCEPT ![s] =
            IF written THEN [@ EXCEPT !.nonce = made + 1, !.create = FALSE, !.at = "rooted"]
            ELSE Failed(s, made + 1)]
  /\ made' = made + 1
  /\ UNCHANGED <<installed, meddled, withdrawn>>

\* python -m venv, which makes the directory again if it went away.
MakeVenv(s) ==
  /\ ScriptAt(s, "rooted")
  /\ \/ target # Nil /\ target' = [target EXCEPT !.venv = TRUE] /\ UNCHANGED made
     \/ target = Nil /\ made < MaxMade /\ target' = NewTarget(TRUE, 0) /\ made' = made + 1
  /\ Advance(s, "pip")
  /\ UNCHANGED <<installed, meddled, withdrawn>>

KeepTarget(s) ==
  /\ ScriptAt(s, "ready") /\ ~scripts[s].create
  /\ IsVenv
  /\ Advance(s, "pip")
  /\ UNCHANGED <<target, made, installed, meddled, withdrawn>>

-----------------------------------------------------------------------------
(* pip, and what it installed.                                             *)

InstallPip(s) ==
  /\ ScriptAt(s, "pip")
  /\ IsVenv
  /\ target' = [target EXCEPT !.pip = TRUE]
  /\ Advance(s, "packages")
  /\ UNCHANGED <<made, installed, meddled, withdrawn>>

\* Core, then the suite, then the components that the plan found missing.
NextToInstall(left) ==
  IF "core" \in left THEN {"core"} ELSE IF "suite" \in left THEN {"suite"} ELSE left

InstallPackage(s, p) ==
  /\ ScriptAt(s, "packages")
  /\ p \in NextToInstall(scripts[s].left) \cap (scripts[s].wheels \cup {"suite"})
  /\ IsVenv
  /\ target' = [target EXCEPT !.pkg[p] = Ships[scripts[s].release][p]]
  /\ scripts' = [scripts EXCEPT ![s].left = @ \ {p}, ![s].wheels = @ \ {p}]
  /\ UNCHANGED <<made, installed, meddled, withdrawn>>

\* verify_installed_composition, verify_installed_import_layout and the tooling.
\* What was planned is not looked at any more.
CompositionVerified(release, chosen) ==
  /\ IsVenv /\ target.pip
  /\ \A p \in Required \cup chosen : target.pkg[p] # Nil
  /\ \A p \in Package : target.pkg[p] \in {Nil, Ships[release][p]}

VerifyInstalled(s) ==
  /\ ScriptAt(s, "packages") /\ scripts[s].left = {}
  /\ CompositionVerified(scripts[s].release, scripts[s].chosen)
  /\ scripts' = [scripts EXCEPT ![s].verified = target.made, ![s].wheels = {},
                                ![s].create = FALSE, ![s].at = "seen"]
  /\ UNCHANGED <<target, made, installed, meddled, withdrawn>>

\* write_environment_marker.
WriteMarker(s) ==
  /\ ScriptAt(s, "seen")
  /\ IsVenv
  /\ target' = [target EXCEPT !.marker = scripts[s].release]
  /\ Advance(s, "marked")
  /\ UNCHANGED <<made, installed, meddled, withdrawn>>

\* A faulty variant: any sentinel will do.
AnySentinel(s) == target # Nil /\ target.sentinel # 0

\* The sentinel that was written is still there, with its nonce.
Owns(s) == scripts[s].nonce # 0 /\ target # Nil /\ target.sentinel = scripts[s].nonce

\* A script that made the target takes its sentinel away; one that kept it just
\* reports.
Complete(s) ==
  /\ ScriptAt(s, "marked")
  /\ scripts[s].nonce # 0 => Owns(s)
  /\ target' = IF scripts[s].nonce # 0 THEN [target EXCEPT !.sentinel = 0] ELSE target
  /\ installed' = [installed EXCEPT ![s] =
       [release |-> scripts[s].release, chosen |-> scripts[s].chosen,
        made |-> scripts[s].verified]]
  /\ scripts' = [scripts EXCEPT ![s] = Nil]
  /\ UNCHANGED <<made, meddled, withdrawn>>

-----------------------------------------------------------------------------
(* Failures.                                                               *)

\* Every throw, and a person who does not approve.
ScriptFails(s) ==
  /\ scripts[s] # Nil /\ scripts[s].at \notin {"failed", "removing"}
  /\ scripts' = [scripts EXCEPT ![s] =
       IF scripts[s].nonce # 0 THEN Failed(s, scripts[s].nonce) ELSE Nil]
  /\ UNCHANGED <<target, made, installed, meddled, withdrawn>>

\* What a recursive removal may leave for a while, or for good.
Remains ==
  [made : {target.made}, venv : {target.venv, FALSE}, pip : {target.pip},
   pkg : {target.pkg, NoPackages}, marker : {target.marker, Nil},
   sentinel : {target.sentinel, 0}, spoilt : {TRUE}]

\* Remove-ValidatedCreatedTargetEnvironment.
BeginRemoval(s) ==
  /\ ScriptAt(s, "failed")
  /\ Owns(s)
  /\ target' \in Remains
  /\ withdrawn' = (withdrawn \/ target.marker # Nil)
  /\ Advance(s, "removing")
  /\ UNCHANGED <<made, installed, meddled>>

EndRemoval(s) ==
  /\ ScriptAt(s, "removing")
  /\ target' = Nil
  /\ scripts' = [scripts EXCEPT ![s] = Nil]
  /\ UNCHANGED <<made, installed, meddled, withdrawn>>

\* A script is killed, or refuses to remove what it cannot prove is its own.
ScriptEnds(s) ==
  /\ scripts[s] # Nil
  /\ scripts' = [scripts EXCEPT ![s] = Nil]
  /\ UNCHANGED <<target, made, installed, meddled, withdrawn>>

\* Somebody deletes the directory, or the sentinel in it, under a running script.
Meddle ==
  /\ meddled < MaxMeddling /\ meddled' = meddled + 1
  /\ target # Nil /\ \A s \in Script : ~ScriptAt(s, "removing")
  /\ target' \in {Nil, [target EXCEPT !.sentinel = 0]}
  /\ UNCHANGED <<scripts, made, installed, withdrawn>>

BootstrapNext ==
  \/ \E s \in Script :
       \/ \E order \in Orders : PlanTarget(s, order)
       \/ PrepareArtifacts(s)
       \/ MakeTargetRoot(s) \/ MakeVenv(s) \/ KeepTarget(s)
       \/ InstallPip(s)
       \/ \E p \in Package : InstallPackage(s, p)
       \/ VerifyInstalled(s) \/ WriteMarker(s) \/ Complete(s)
       \/ ScriptFails(s) \/ BeginRemoval(s) \/ EndRemoval(s) \/ ScriptEnds(s)
  \/ Meddle

-----------------------------------------------------------------------------
(* Properties.                                                             *)

\* What one script removes is the very directory that it made: never one that was
\* there before, one that another made in the same place after somebody deleted
\* the first, nor one that was completed by its maker.
OwnRemovedOnly ==
  [][target # Nil /\ meddled' = meddled /\ (target' = Nil \/ target'.spoilt # target.spoilt) =>
       \E s \in Script : scripts[s] # Nil /\ scripts[s].nonce = target.made]_bootstrapVars

\* No directory went away under a script that keeps it.  An environment is marked
\* before its maker is done: one that is withdrawn then may be kept by another.
Undisturbed == meddled = 0 /\ ~withdrawn

\* Scripts that run at once, of one release or of two, replace nothing: a package
\* that is there stays as it is until its directory is removed by its maker.
NothingReplaced ==
  [][target # Nil /\ target' # Nil /\ Undisturbed /\ ~target'.spoilt =>
       /\ target'.made = target.made
       /\ \A p \in Package : target.pkg[p] # Nil => target'.pkg[p] = target.pkg[p]]_bootstrapVars

\* What was reported as completed is, for the next script that is asked for the
\* same, unblocked and complete, whoever else added to it or failed over it: what
\* is verified at the end and what is planned at the beginning agree.
RerunHasNothingToDo ==
  \A s \in Script :
    installed[s] # Nil /\ Undisturbed =>
      /\ target # Nil /\ target.made = installed[s].made
      /\ CanBootstrap(installed[s].release)
      /\ Missing(installed[s].release, installed[s].chosen) = {}

\* All three: environments that scripts make, keep, fill and remove side by side
\* are each one's own, and whole when they are said to be.
EnvironmentsStand ==
  /\ OwnRemovedOnly
  /\ NothingReplaced
  /\ []RerunHasNothingToDo
=============================================================================
