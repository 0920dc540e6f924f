--------------------------- MODULE CompositionReview ---------------------------
(***************************************************************************)
(* plan_authenticated_composition_review: from the releases of the signed  *)
(* catalog, the modules that the witness selected and the targets that a   *)
(* person asks for, the modules of the next composition.  What they need   *)
(* of each other is followed in rounds, each of which looks at the         *)
(* requirements of the selection that the one before left.                 *)
(***************************************************************************)
EXTENDS Naturals, FiniteSets

CONSTANTS
  Component,       \* the registered modules
  Catalogs,        \* per module, its releases: [version, needs, ok, revoked];
                   \* needs is a function from some modules to the versions
                   \* that will do
  MaxRounds,       \* bound: _MAX_ROUNDS
  Removed,         \* the target of a module that is to go
  NoReview         \* nothing is reviewed

\* A release needs registered modules: all other requirements are only listed.
ASSUME ReviewAssumption ==
  /\ MaxRounds \in Nat \ {0}
  /\ \A catalog \in Catalogs : \A m \in DOMAIN catalog :
       /\ m \in Component /\ IsFiniteSet(catalog[m])
       /\ \A r \in catalog[m] : r.version \in Nat /\ DOMAIN r.needs \subseteq Component
       /\ \A r, s \in catalog[m] : r.version = s.version => r = s

VARIABLE planning  \* [catalog, before, targets, selected, round, seen, status]

-----------------------------------------------------------------------------
Usable(release) == release.ok /\ ~release.revoked

\* _requirements: the versions of a module that will do for all who need it.
Needing(selected, m) == {n \in DOMAIN selected : m \in DOMAIN selected[n].needs}
Needed(selected) == {m \in Component : Needing(selected, m) # {}}
Suits(selected, m, version) ==
  \A n \in Needing(selected, m) : version \in selected[n].needs[m]

\* A faulty variant: only what is not there at all is looked for.
OpenNeedsMissing(selected, present) == Needed(selected) \ DOMAIN present

\* The requirements of a selection that another one leaves open.
OpenNeeds(selected, present) ==
  {m \in Needed(selected) :
     m \in DOMAIN present => ~Suits(selected, m, present[m].version)}

NeedsMet(selected) == OpenNeeds(selected, selected) = {}

\* _choose: the release that was there, if it will do, and else the newest.
Eligible(m, selected) ==
  IF m \in DOMAIN planning.catalog
  THEN {r \in planning.catalog[m] : Usable(r) /\ Suits(selected, m, r.version)}
  ELSE {}

Choice(m, selected) ==
  LET eligible == Eligible(m, selected)
      retained == IF m \in DOMAIN planning.before
                  THEN {r \in eligible : r.version = planning.before[m].version}
                  ELSE {}
  IN IF retained # {} THEN CHOOSE r \in retained : TRUE
     ELSE CHOOSE r \in eligible : \A s \in eligible : s.version <= r.version

-----------------------------------------------------------------------------
\* A faulty variant: the plan starts from the targets alone.
OverlayTargets(catalog, before, targets) ==
  [m \in {n \in DOMAIN targets : targets[n] # Removed} |->
     CHOOSE r \in catalog[m] : r.version = targets[m]]

\* The baseline with the targets in it, before anything else is looked at.
Overlay(catalog, before, targets) ==
  [m \in (DOMAIN before \cup DOMAIN targets) \ {n \in DOMAIN targets : targets[n] = Removed}
     |-> IF m \in DOMAIN targets
         THEN CHOOSE r \in catalog[m] : r.version = targets[m]
         ELSE before[m]]

\* A target is a usable release, or the end of a module that is there.
TargetsStand(catalog, before, targets) ==
  /\ targets # <<>>
  /\ \A m \in DOMAIN targets :
       IF targets[m] = Removed THEN m \in DOMAIN before
       ELSE m \in DOMAIN catalog
              /\ \E r \in catalog[m] : r.version = targets[m] /\ Usable(r)

\* What was selected before was once the outcome of such a review, and each
\* of its releases is still in the catalog, perhaps revoked since.
Baselines(catalog) ==
  {before \in UNION {[ms -> UNION {catalog[m] : m \in ms}] : ms \in SUBSET DOMAIN catalog} :
     /\ before # <<>>
     /\ \A m \in DOMAIN before : before[m] \in catalog[m]
     /\ NeedsMet(before)}

Targets(catalog) ==
  UNION {[ms -> {Removed} \cup UNION {{r.version : r \in catalog[m]} : m \in DOMAIN catalog}] :
           ms \in SUBSET DOMAIN catalog}

ReviewInit == planning = NoReview

BeginReview ==
  /\ planning = NoReview
  /\ \E catalog \in Catalogs : \E before \in Baselines(catalog), targets \in Targets(catalog) :
       LET selected == Overlay(catalog, before, targets)
       IN /\ TargetsStand(catalog, before, targets)
          /\ planning' = [catalog |-> catalog, before |-> before, targets |-> targets,
                        selected |-> selected, round |-> 0, seen |-> {},
                        status |-> IF selected = <<>> THEN "refused" ELSE "open"]

\* A faulty variant: a target that another release needs at all is refused.
UnresolvableTarget(open) ==
  \/ Needed(planning.selected) \cap DOMAIN planning.targets # {}
  \/ \E m \in open : Eligible(m, planning.selected) = {}

\* A requirement of what is to go, or of what was asked for in another
\* version, or that no release meets.
Unresolvable(open) ==
  \E m \in open : m \in DOMAIN planning.targets \/ Eligible(m, planning.selected) = {}

\* A faulty variant: only the last selection is remembered.
NextRoundShortMemory ==
  /\ planning # NoReview /\ planning.status = "open"
  /\ LET selected == planning.selected
         open == OpenNeeds(selected, selected)
         chosen == [m \in DOMAIN selected \cup open |->
                      IF m \in open THEN Choice(m, selected) ELSE selected[m]]
     IN planning' =
          IF selected \in planning.seen \/ planning.round = MaxRounds \/ Unresolvable(open)
          THEN [planning EXCEPT !.status = "refused"]
          ELSE IF open = {}
          THEN [planning EXCEPT !.status = IF \A m \in DOMAIN selected : Usable(selected[m])
                                         THEN "planned" ELSE "refused"]
          ELSE [planning EXCEPT !.selected = chosen, !.round = @ + 1,
                                !.seen = {selected}]

\* One round.  Its requirements are those of the selection it began with, so
\* the order in which the modules are taken does not matter.  When nothing is
\* left open, the graph that is checked anew is the one just looked at.
NextRound ==
  /\ planning # NoReview /\ planning.status = "open"
  /\ LET selected == planning.selected
         open == OpenNeeds(selected, selected)
         chosen == [m \in DOMAIN selected \cup open |->
                      IF m \in open THEN Choice(m, selected) ELSE selected[m]]
     IN planning' =
          IF selected \in planning.seen \/ planning.round = MaxRounds \/ Unresolvable(open)
          THEN [planning EXCEPT !.status = "refused"]
          ELSE IF open = {}
          THEN [planning EXCEPT !.status = IF \A m \in DOMAIN selected : Usable(selected[m])
                                         THEN "planned" ELSE "refused"]
          ELSE [planning EXCEPT !.selected = chosen, !.round = @ + 1,
                                !.seen = @ \cup {selected}]

\* Once it is shown, another review may begin.
EndReview ==
  /\ planning # NoReview /\ planning.status # "open"
  /\ planning' = NoReview

ReviewNext == BeginReview \/ NextRound \/ EndReview

ReviewSpec == ReviewInit /\ [][ReviewNext]_planning

-----------------------------------------------------------------------------
(* What becomes of each module, as it is shown.                            *)

Change(m) ==
  LET before == planning.before  after == planning.selected
  IN IF m \notin DOMAIN before THEN "ADD"
     ELSE IF m \notin DOMAIN after THEN "REMOVE"
     ELSE IF before[m] = after[m] THEN "UNCHANGED"
     ELSE IF after[m].version > before[m].version THEN "UPGRADE" ELSE "DOWNGRADE"

Shown == [m \in DOMAIN planning.before \cup DOMAIN planning.selected |-> Change(m)]

Reviewed(status) == planning # NoReview /\ planning.status = status

-----------------------------------------------------------------------------
ReviewTypeOK ==
  planning # NoReview =>
    /\ DOMAIN planning.selected \subseteq DOMAIN planning.catalog
    /\ \A m \in DOMAIN planning.selected : planning.selected[m] \in planning.catalog[m]
    /\ Cardinality(planning.seen) = planning.round
    /\ planning.round \in 0..MaxRounds
    /\ planning.status \in {"open", "planned", "refused"}

\* A plan that is shown can be run as it is: each module in it has what it
\* needs in a version that will do, although the needs changed from round to
\* round, and none of its releases is revoked.
ReviewedPlanStands ==
  Reviewed("planned") =>
    \A m \in DOMAIN planning.selected :
      /\ planning.selected[m].ok /\ ~planning.selected[m].revoked
      /\ \A n \in DOMAIN planning.selected[m].needs :
           /\ n \in DOMAIN planning.selected
           /\ planning.selected[n].version \in planning.selected[m].needs[n]

\* What nobody asked for stays as it was, unless some release selected on the
\* way refused it: modules only go when they are asked to, and another version
\* never comes for nothing.
NothingChangesForNothing ==
  Reviewed("planned") =>
    \A m \in DOMAIN Shown \ DOMAIN planning.targets :
      /\ Shown[m] # "REMOVE"
      /\ Shown[m] \in {"UPGRADE", "DOWNGRADE"} =>
           \E selected \in planning.seen : \E n \in DOMAIN selected :
             /\ m \in DOMAIN selected[n].needs
             /\ planning.before[m].version \notin selected[n].needs[m]

\* Targets that already stand together with the baseline are planned just so.
TargetsThatStandArePlanned ==
  Reviewed("refused") =>
    LET overlay == Overlay(planning.catalog, planning.before, planning.targets)
    IN overlay = <<>> \/ ~NeedsMet(overlay) \/ \E m \in DOMAIN overlay : ~Usable(overlay[m])

\* All three: the closure of the targets can be run, changes nothing for nothing
\* and refuses nothing that stands.
CompositionStands ==
  ReviewedPlanStands /\ NothingChangesForNothing /\ TargetsThatStandArePlanned
=============================================================================
