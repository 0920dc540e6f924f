----------------------------- MODULE PlanRecords -----------------------------
(***************************************************************************)
(* The service's append-once records of one update of one installation     *)
(* (the evergreen_plan modules): one SQLite table per stage, with at most  *)
(* one row each, never updated or deleted.  A row repeats the digests of   *)
(* the rows before it; what is new in it is one piece of evidence.  The    *)
(* model keeps of a row the request, the digests of the local files as     *)
(* reserved, and that new evidence.                                        *)
(***************************************************************************)
EXTENDS CommitRequests

CONSTANTS
  NoRow,   \* the installation has no row in a table
  Local    \* digests of proposal, selection, journal, candidate and target

\* The tables in the order of the stages that write them.
Reservation  == 1    \* plan_finalization_fence_v1
Preclaim     == 2    \* plan_publication_preclaim_v1
Protected    == 3    \* plan_protected_receipt_v1
Intent       == 4    \* plan_local_deployment_intent_v1
Prewrite     == 5    \* plan_local_prewrite_uncertainty_v1
WriteClaim   == 6    \* plan_local_receipt_dispatch_v1
Convergence  == 7    \* plan_local_convergence_v1
Clearance    == 8    \* plan_capsule_clearance_preflight_v1
Predelete    == 9    \* plan_capsule_predelete_uncertainty_v1
DeleteClaim  == 10   \* plan_capsule_delete_dispatch_v1
Postdelete   == 11   \* plan_capsule_postdelete_reconciliation_v1
Readiness    == 12   \* plan_launcher_readiness_preflight_v1
LaunchIntent == 13   \* plan_launch_intent_v1
Prelaunch    == 14   \* plan_prelaunch_uncertainty_v1
LaunchClaim  == 15   \* plan_launch_dispatch_v1
Started      == 16   \* plan_launch_reconciliation_v1
Health       == 17   \* plan_launch_health_preflight_v1
Activation   == 18   \* plan_activation_readiness_v1
Stage        == Reservation..Activation

\* The stages whose evidence names the fence it was read under, and those whose
\* evidence names a heartbeat of the launched process.
FenceStages == Convergence..LaunchClaim
BeatStages  == {Health, Activation}

PlanRow == [req : Request, local : Local, mark : Nat]

ASSUME NoPlanRowAssumption == NoRow \notin PlanRow

VARIABLE row

\* observe: a row of the right form, whose new evidence is a digest.
RowsTypeOK ==
  /\ row \in [Stage -> PlanRow \cup {NoRow}]
  /\ \A s \in FenceStages \cup BeatStages : row[s] # NoRow => row[s].mark > 0

Exists(s) == row[s] # NoRow

\* What every later row is bound to.
Update == row[Reservation]

\* The new evidence of a stage, where a later stage must find it again.
Repeats(s, mark) ==
  /\ s \in Clearance..DeleteClaim    => mark = row[Convergence].mark
  /\ s \in LaunchIntent..LaunchClaim => mark = row[Readiness].mark
  /\ s = Activation                  => mark = row[Health].mark

\* The comparisons of the _exact_... functions between two rows.
Bound(s) ==
  row[s].req = Update.req /\ row[s].local = Update.local /\ Repeats(s, row[s].mark)

\* The whole chain up to a stage, as _read_under_service_lock and the
\* comparisons after it require it before anything else is read.
ChainedTo(s) ==
  /\ \A t \in Reservation..s : Exists(t)
  /\ \A t \in Reservation..s : Bound(t)

\* A faulty variant: the stage's own row is not looked for.
OpenAgain(s) == ChainedTo(s - 1)

\* A stage may be recorded: the chain before it stands, its own row is missing.
Open(s) == ~ Exists(s) /\ ChainedTo(s - 1)

\* INSERT ... COMMIT.
Record(s, new) == row' = [row EXCEPT ![s] = new]
=============================================================================
