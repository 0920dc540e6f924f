---------------------------- MODULE ClassroomSetup ----------------------------
(***************************************************************************)
(* pds setup: what Core holds is assessed, the teacher's choices become a  *)
(* plan, and after APPLY the plan is rechecked and carried out one Core    *)
(* write at a time, each read back, with no rollback.  Several sessions    *)
(* may run at once, Core's own programs write to the same workspace, and a *)
(* session may stop at an error, or die, between any two steps.            *)
(*                                                                         *)
(* An assessment, a preflight and a Core write are one step each.  The     *)
(* content of a roster, a starter pack or a calendar is a name for it; a   *)
(* state token of a roster is the roster.                                  *)
(***************************************************************************)
EXTENDS Naturals

CONSTANTS
  Session,         \* running setups
  Class, Year,
  Roster,          \* contents of a roster
  Pack,            \* starter standards packs
  Clash,           \* pairs of packs that define something differently
  Calendar,        \* contents of an Academic Period calendar
  MaxOutside,      \* bound on the changes others make
  Wishes,          \* bound on the choices a teacher makes
  Nothing          \* not there, not chosen, no setup

Core == [year : Year \cup {Nothing},
         class : [Class -> Year \cup {Nothing}],
         roster : [Class -> Roster \cup {Nothing}],
         standards : SUBSET Pack,
         periods : [Year -> Calendar \cup {Nothing}]]

\* assemble_shared_setup_plan: one year, each class once, rosters of those classes.
SetupChoices == {wish \in [year : Year, classes : SUBSET Class, rosters : SUBSET Class,
                      pack : Pack \cup {Nothing}, calendar : Calendar \cup {Nothing}] :
              wish.rosters \subseteq wish.classes}

Kind == {"year", "class", "roster", "standards", "periods"}
Item == [kind : Kind, class : Class \cup {Nothing}]

Setup == [at : {"reviewed", "applying"}, wish : SetupChoices, seen : Core,
          offered : [Class -> Roster], left : SUBSET Item, checked : BOOLEAN,
          written : SUBSET Item, changed : SUBSET Item, disturbed : SUBSET Item]

ASSUME ClassroomAssumption ==
  /\ Clash \subseteq Pack \X Pack /\ \A k \in Pack : <<k, k>> \notin Clash
  /\ MaxOutside \in Nat
  /\ Nothing \notin Session
  /\ Nothing \notin Year \cup Class \cup Roster \cup Pack \cup Calendar
  /\ Nothing \notin Setup
  /\ Wishes \subseteq SetupChoices

VARIABLES
  core,            \* what Core holds
  source,          \* the roster file offered for each class
  setup,           \* what each session is doing
  omitted,         \* writes that a failed setup did not mention
  outside          \* changes others have made

classroomVars == <<core, source, setup, omitted, outside>>

ClassroomTypeOK ==
  /\ core \in Core
  /\ source \in [Class -> Roster]
  /\ setup \in [Session -> Setup \cup {Nothing}]
  /\ omitted \in [Session -> SUBSET Item]
  /\ outside \in 0..MaxOutside

ClassroomInit ==
  /\ core = [year |-> Nothing, class |-> [c \in Class |-> Nothing],
             roster |-> [c \in Class |-> Nothing], standards |-> {},
             periods |-> [y \in Year |-> Nothing]]
  /\ source \in [Class -> Roster]
  /\ setup = [s \in Session |-> Nothing]
  /\ omitted = [s \in Session |-> {}]
  /\ outside = 0

-----------------------------------------------------------------------------
(* The plan: what is to be done with each item.                            *)

Of(kind, class) == [kind |-> kind, class |-> class]

\* A faulty variant: an item for the standards although no pack was chosen.
ItemsUnskipped(wish) ==
  {Of("year", Nothing), Of("standards", Nothing), Of("periods", Nothing)}
    \cup {Of("class", c) : c \in wish.classes} \cup {Of("roster", c) : c \in wish.rosters}

Items(wish) ==
  {Of("year", Nothing)} \cup {Of("class", c) : c \in wish.classes}
    \cup {Of("roster", c) : c \in wish.rosters}
    \cup {Of("standards", Nothing) : k \in {wish.pack} \ {Nothing}}
    \cup {Of("periods", Nothing)}

\* plan_school_year: an open year is never replaced.
SchoolYearDisposition(held, year) ==
  IF held.year = Nothing THEN "NEW"
  ELSE IF held.year = year THEN "EXISTING_MATCH" ELSE "CONFLICT"

\* plan_class: a roster without metadata is not guessed about.
ClassDisposition(held, c, year) ==
  IF held.class[c] = Nothing
  THEN IF held.roster[c] = Nothing THEN "NEW" ELSE "CONFLICT"
  ELSE IF held.class[c] = year THEN "EXISTING_MATCH" ELSE "CONFLICT"

\* plan_roster_import, from Core's differences.
RosterAction(held, c, offered) ==
  IF held.roster[c] = Nothing THEN "CREATE"
  ELSE IF held.roster[c] = offered[c] THEN "KEEP" ELSE "REPLACE"

\* plan_starter_standards, from Core's dry merge.
StandardsAction(held, pack) ==
  IF \E k \in held.standards : <<k, pack>> \in Clash THEN "REFUSE"
  ELSE IF pack \in held.standards THEN "KEEP" ELSE "INSTALL"

\* plan_academic_periods, as the guided setup calls it: an existing calendar is
\* kept, and no other is asked for.
AcademicPeriodAction(held, year, calendar) ==
  IF held.periods[year] # Nothing THEN "KEEP"
  ELSE IF calendar = Nothing THEN "SKIP" ELSE "CREATE"

Action(held, offered, wish, i) ==
  CASE i.kind = "year"      -> SchoolYearDisposition(held, wish.year)
    [] i.kind = "class"     -> ClassDisposition(held, i.class, wish.year)
    [] i.kind = "roster"    -> RosterAction(held, i.class, offered)
    [] i.kind = "standards" -> StandardsAction(held, wish.pack)
    [] i.kind = "periods"   -> AcademicPeriodAction(held, wish.year, wish.calendar)

Writing  == {"NEW", "CREATE", "REPLACE", "INSTALL"}
Blocking == {"CONFLICT", "REFUSE"}

\* SharedSetupPlan.can_apply: nothing blocks.
CanApply(held, offered, wish) ==
  \A i \in Items(wish) : Action(held, offered, wish, i) \notin Blocking

\* The library that Core's dry merge proposes.
CandidateLibrary(held, pack) == held.standards \cup {pack}

-----------------------------------------------------------------------------
(* Sessions.                                                               *)

Wish(s)    == setup[s].wish
Planned(s, i) == Action(setup[s].seen, setup[s].offered, Wish(s), i)

\* assess_shared_setup, collect_setup_plan and the review.
Review(s, wish) ==
  /\ setup[s] = Nothing
  /\ setup' = [setup EXCEPT ![s] =
       [at |-> "reviewed", wish |-> wish, seen |-> core, offered |-> source,
        left |-> Items(wish), checked |-> FALSE,
        written |-> {}, changed |-> {}, disturbed |-> {}]]
  /\ omitted' = [omitted EXCEPT ![s] = {}]
  /\ UNCHANGED <<core, source, outside>>

\* _assessment_material: everything that was assessed except the rosters...
SameAssessment(s) ==
  \A field \in {"year", "class", "standards", "periods"} :
    core[field] = setup[s].seen[field]

\* ... of which those in the plan are compared by their state tokens:
\* _guarded_roster_preview.
SameRoster(s, c) ==
  core.roster[c] = setup[s].seen.roster[c] /\ source[c] = setup[s].offered[c]

\* preflight_setup_plan.
Preflight(s) ==
  /\ setup[s] # Nothing /\ setup[s].at = "reviewed"
  /\ CanApply(setup[s].seen, setup[s].offered, Wish(s))
  /\ SameAssessment(s)
  /\ \A c \in Wish(s).rosters : SameRoster(s, c)
  /\ setup' = [setup EXCEPT ![s].at = "applying"]
  /\ UNCHANGED <<core, source, omitted, outside>>

\* A faulty variant: rosters come before the metadata of their classes.
RosterFirst == [kind \in Kind |-> CASE kind = "year" -> 1 [] kind = "roster" -> 2
                  [] kind = "class" -> 3 [] kind = "standards" -> 4 [] kind = "periods" -> 5]

\* _execute_after_preflight: the order of the domains.
Rank == [kind \in Kind |-> CASE kind = "year" -> 1 [] kind = "class" -> 2
           [] kind = "roster" -> 3 [] kind = "standards" -> 4 [] kind = "periods" -> 5]

\* i is the next item of s, and is of the given kind.
Turn(s, kind, i) ==
  /\ setup[s] # Nothing /\ setup[s].at = "applying"
  /\ i \in setup[s].left /\ i.kind = kind
  /\ \A j \in setup[s].left : Rank[kind] <= Rank[j.kind]

MustWrite(s, kind, i) ==
  Turn(s, kind, i) /\ Planned(s, i) \in Writing /\ i \notin setup[s].written

\* What an item rests on: a class also on there being no roster without it.
Basis(held, wish, i) ==
  CASE i.kind = "year"      -> held.year
    [] i.kind = "class"     -> <<held.class[i.class], held.roster[i.class]>>
    [] i.kind = "roster"    -> held.roster[i.class]
    [] i.kind = "standards" -> held.standards
    [] i.kind = "periods"   -> held.periods[wish.year]

\* The sessions other than the writer whose items a change of core touches.
Disturbed(writer, held) ==
  [s \in Session |->
     IF s = writer \/ setup[s] = Nothing THEN setup[s]
     ELSE [setup[s] EXCEPT !.disturbed =
             @ \cup {i \in Items(Wish(s)) : Basis(core, Wish(s), i) # Basis(held, Wish(s), i)}]]

\* One Core write, which the session notes at once or only when it is verified.
Write(s, i, held, noted) ==
  /\ core' = held
  /\ setup' = [Disturbed(s, held) EXCEPT ![s].written = @ \cup {i},
                                         ![s].changed = @ \cup noted]
  /\ UNCHANGED <<source, omitted, outside>>

-----------------------------------------------------------------------------
(* The writes, which are Core's, and their verification.                   *)

\* A faulty variant: an open year is replaced.
YearReplaceable == TRUE

\* open_school_year(overwrite=False) refuses while a year is open.
YearFree == core.year = Nothing

OpenSchoolYear(s, i) ==
  /\ MustWrite(s, "year", i)
  /\ YearFree
  /\ Write(s, i, [core EXCEPT !.year = Wish(s).year], {i})

\* write_class_metadata_for_class(overwrite=False).
CreateClass(s, i) ==
  /\ MustWrite(s, "class", i)
  /\ core.class[i.class] = Nothing
  /\ Write(s, i, [core EXCEPT !.class[i.class] = Wish(s).year], {i})

\* commit_roster_import, guarded by both tokens; its entry in changed waits for
\* _verify_roster_commit.
CommitRoster(s, i) ==
  /\ MustWrite(s, "roster", i)
  /\ SameRoster(s, i.class)
  /\ Write(s, i, [core EXCEPT !.roster[i.class] = source[i.class]], {})

\* _jit_check_standards.
CheckStandards(s, i) ==
  /\ MustWrite(s, "standards", i) /\ ~setup[s].checked
  /\ core.standards = setup[s].seen.standards
  /\ setup' = [setup EXCEPT ![s].checked = TRUE]
  /\ UNCHANGED <<core, source, omitted, outside>>

\* install_starter_standards_library, which may merge into the library that it
\* is given or into the one that it finds.
InstallStandards(s, i, library) ==
  /\ MustWrite(s, "standards", i) /\ setup[s].checked
  /\ library \in {setup[s].seen.standards, core.standards}
  /\ Write(s, i, [core EXCEPT !.standards = library \cup {Wish(s).pack}], {i})

\* write_academic_period_calendar(expected_current_revision=None).
CreatePeriods(s, i) ==
  /\ MustWrite(s, "periods", i)
  /\ core.periods[Wish(s).year] = Nothing
  /\ Write(s, i, [core EXCEPT !.periods[Wish(s).year] = Wish(s).calendar], {i})

\* _verify_school_year.
SchoolYearHolds(s) == core.year = Wish(s).year

\* _verify_class.
ClassHolds(s, c) == core.class[c] = Wish(s).year

\* A faulty variant: what Core returned is believed.
RosterBelieved(s, i) == i.class \in Class

\* _verify_roster_commit after a commit, a guarded preview of a roster kept.
RosterHolds(s, i) ==
  IF i \in setup[s].written THEN core.roster[i.class] = setup[s].offered[i.class]
  ELSE SameRoster(s, i.class)

\* _verify_standards.
StandardsHold(s) == core.standards = CandidateLibrary(setup[s].seen, Wish(s).pack)

\* _verify_academic_periods: a skipped calendar is not looked for.
PeriodsHold(s, i) ==
  CASE Planned(s, i) = "CREATE" -> core.periods[Wish(s).year] = Wish(s).calendar
    [] Planned(s, i) = "KEEP" ->
         core.periods[Wish(s).year] = setup[s].seen.periods[Wish(s).year]
    [] OTHER -> TRUE

Holds(s, i) ==
  CASE i.kind = "year"      -> SchoolYearHolds(s)
    [] i.kind = "class"     -> ClassHolds(s, i.class)
    [] i.kind = "roster"    -> RosterHolds(s, i)
    [] i.kind = "standards" -> StandardsHold(s)
    [] i.kind = "periods"   -> PeriodsHold(s, i)

\* The item is verified and counts as completed.
Verify(s, i) ==
  /\ Turn(s, i.kind, i)
  /\ Planned(s, i) \in Writing => i \in setup[s].written
  /\ Holds(s, i)
  /\ setup' = [setup EXCEPT ![s].left = @ \ {i}, ![s].disturbed = @ \ {i},
                            ![s].changed = @ \cup (setup[s].written \cap {i})]
  /\ UNCHANGED <<core, source, omitted, outside>>

-----------------------------------------------------------------------------
(* How a session ends.                                                     *)

Succeed(s) ==
  /\ setup[s] # Nothing /\ setup[s].at = "applying" /\ setup[s].left = {}
  /\ setup' = [setup EXCEPT ![s] = Nothing]
  /\ UNCHANGED <<core, source, omitted, outside>>

\* An error anywhere, reported as a partial success if something is noted as
\* changed and as a plain failure otherwise.
Stop(s) ==
  /\ setup[s] # Nothing
  /\ setup' = [setup EXCEPT ![s] = Nothing]
  /\ omitted' = [omitted EXCEPT ![s] = setup[s].written \ setup[s].changed]
  /\ UNCHANGED <<core, source, outside>>

Abandon(s) ==
  /\ setup[s] # Nothing
  /\ setup' = [setup EXCEPT ![s] = Nothing]
  /\ UNCHANGED <<core, source, omitted, outside>>

-----------------------------------------------------------------------------
(* Other programs, and the teacher with the roster file.                   *)

ChangeOutside(held) ==
  /\ outside < MaxOutside /\ outside' = outside + 1
  /\ core' = held
  /\ setup' = Disturbed(Nothing, held)
  /\ UNCHANGED <<source, omitted>>

EditRoster(c, content) == ChangeOutside([core EXCEPT !.roster[c] = content])
AddStandards(pack)     == ChangeOutside([core EXCEPT !.standards = @ \cup {pack}])

EditSource(c, content) ==
  /\ outside < MaxOutside /\ outside' = outside + 1
  /\ source' = [source EXCEPT ![c] = content]
  /\ UNCHANGED <<core, setup, omitted>>

SetupStep(s) ==
  \/ \E wish \in Wishes : Review(s, wish)
  \/ Preflight(s)
  \/ \E i \in Item :
       \/ OpenSchoolYear(s, i) \/ CreateClass(s, i) \/ CommitRoster(s, i)
       \/ CheckStandards(s, i) \/ CreatePeriods(s, i)
       \/ \E library \in SUBSET Pack : InstallStandards(s, i, library)
       \/ Verify(s, i)
  \/ Succeed(s) \/ Stop(s) \/ Abandon(s)

Outside ==
  \/ \E c \in Class, content \in Roster : EditRoster(c, content) \/ EditSource(c, content)
  \/ \E pack \in Pack : AddStandards(pack)

ClassroomNext == Outside \/ \E s \in Session : SetupStep(s)

ClassroomSpec == ClassroomInit /\ [][ClassroomNext]_classroomVars

-----------------------------------------------------------------------------
(* Properties.                                                             *)

Applying(s) == setup[s] # Nothing /\ setup[s].at = "applying"

\* Setups that run at once leave one school year, and no class of another: the
\* one that reviewed an earlier state is refused by Core or by its verification.
ClassesOfOneYear == \A c \in Class : core.class[c] \in {Nothing, core.year}

\* What a setup has completed is as the teacher wanted it, unless someone else
\* changed it afterwards: nothing is skipped, believed or undone by a later item.
CompletedStands ==
  \A s \in Session : Applying(s) =>
    \A i \in Items(Wish(s)) \ setup[s].left :
      i \in setup[s].disturbed \/ CASE
        i.kind = "year"      -> core.year = Wish(s).year
     [] i.kind = "class"     -> core.class[i.class] = Wish(s).year
     [] i.kind = "roster"    -> core.roster[i.class] = setup[s].offered[i.class]
     [] i.kind = "standards" -> Wish(s).pack \in core.standards
     [] i.kind = "periods"   -> core.periods[Wish(s).year] = Nothing => Wish(s).calendar = Nothing

\* However far a setup got, the same choices can be made again: no intermediate
\* state is one that the planner calls a conflict.
RerunNotBlocked ==
  \A s \in Session : Applying(s) /\ setup[s].disturbed = {} =>
    CanApply(core, setup[s].offered, Wish(s))

\* A setup that fails names every Core write it made.
WritesReported == \A s \in Session : omitted[s] = {}

\* Two setups that apply what each reviewed come to one school year, undo nothing
\* of what is complete, and can be made again wherever they stop.
SetupsStand == ClassesOfOneYear /\ CompletedStands /\ RerunNotBlocked
=============================================================================
