------------------------------ MODULE SuiteLaunch ------------------------------
(***************************************************************************)
(* pds launch, and pds settings clear-recent and reset: the application is *)
(* observed, its launcher resolved and started, and then it is moved to    *)
(* the front of the list of recent applications in the suite settings.     *)
(* The settings are read, changed and replaced as a whole, with no lock:   *)
(* what another process saved in between is overwritten, which nothing     *)
(* promises not to happen.  Installations and the file change at any time. *)
(***************************************************************************)
EXTENDS Naturals, Sequences

CONSTANTS
  Console,         \* running pds commands
  Component,       \* launchable applications
  MaxRecent,       \* _MAX_RECENT_COMPONENTS, 5 in the code
  Installations,   \* bound on what may be wrong with an application
  MaxHands,        \* bound on installations and edits by hand
  Idle             \* no command

Defect == {"not_installed", "version", "python", "suite", "core", "entry_point", "launcher"}

Lists    == UNION {[1..n -> Component] : n \in 0..MaxRecent}
Settings == [state : {"missing", "unreadable", "saved"}, recent : Lists]
Errand   == [op : {"launch", "clear", "reset"}, component : Component \cup {Idle},
             at : {"available", "started", "loaded", "staged"}, recent : Lists]

ASSUME LaunchAssumption ==
  /\ MaxRecent \in Nat \ {0} /\ MaxHands \in Nat
  /\ Installations \subseteq SUBSET Defect
  /\ Idle \notin Errand /\ Idle \notin Component

VARIABLES
  defects,         \* what is wrong with each installed application
  settings,        \* suite-settings.json
  vouched,         \* applications that were started, or listed by hand
  torn,            \* the file was made unreadable by hand
  errand,          \* what each process is doing
  hands            \* changes by hand so far

launchVars == <<defects, settings, vouched, torn, errand, hands>>

LaunchTypeOK ==
  /\ defects \in [Component -> SUBSET Defect]
  /\ settings \in Settings
  /\ vouched \subseteq Component
  /\ torn \in BOOLEAN
  /\ errand \in [Console -> Errand \cup {Idle}]
  /\ hands \in 0..MaxHands

LaunchInit ==
  /\ defects = [c \in Component |-> {}]
  /\ settings = [state |-> "missing", recent |-> <<>>]
  /\ vouched = {} /\ torn = FALSE
  /\ errand = [p \in Console |-> Idle]
  /\ hands = 0

-----------------------------------------------------------------------------
(* The inventory of applications.                                          *)

\* _observation: the first thing that is wrong names the status; and
\* resolve_application_launchers, which only a row that is right gets to.
Status(ds) ==
  IF "not_installed" \in ds THEN "NOT_INSTALLED"
  ELSE IF ds \cap {"version", "python", "suite", "core"} # {} THEN "INCOMPATIBLE"
  ELSE IF ds \cap {"entry_point", "launcher"} # {} THEN "UNAVAILABLE"
  ELSE "AVAILABLE"

At(p, ops, where) == errand[p] # Idle /\ errand[p].op \in ops /\ errand[p].at = where

\* _run_launch: the rows are observed once.
Inspect(p, c) ==
  /\ errand[p] = Idle
  /\ Status(defects[c]) = "AVAILABLE"
  /\ errand' = [errand EXCEPT ![p] =
       [op |-> "launch", component |-> c, at |-> "available", recent |-> <<>>]]
  /\ UNCHANGED <<defects, settings, vouched, torn, hands>>

\* launch_application: the launcher starts if its file still does.
Start(p) ==
  /\ At(p, {"launch"}, "available")
  /\ {"not_installed", "launcher"} \cap defects[errand[p].component] = {}
  /\ vouched' = vouched \cup {errand[p].component}
  /\ errand' = [errand EXCEPT ![p].at = "started"]
  /\ UNCHANGED <<defects, settings, torn, hands>>

-----------------------------------------------------------------------------
(* The settings.                                                           *)

\* A faulty variant: an application keeps its older place as well.
OthersAndIt(recent, c) == recent

Place(recent, c) == CHOOSE n \in 1..Len(recent) : recent[n] = c

\* A list with an application twice is refused when it is read, so that there is
\* one to leave out at most.
Others(recent, c) ==
  IF \A n \in 1..Len(recent) : recent[n] # c THEN recent
  ELSE [n \in 1..(Len(recent) - 1) |-> recent[IF n < Place(recent, c) THEN n ELSE n + 1]]

\* A faulty variant: the list is not cut.
Uncut(list) == list

Cut(list) == IF Len(list) > MaxRecent THEN SubSeq(list, 1, MaxRecent) ELSE list

\* record_recent_component: to the front, the others behind it, the list cut.
MovedToFront(recent, c) == Cut(<<c>> \o Others(recent, c))

Changed(p, recent) ==
  IF errand[p].op = "launch" THEN MovedToFront(recent, errand[p].component) ELSE <<>>

\* A faulty variant: the list is saved before the application starts.
RecordsAt == "available"

\* A launch is recorded once launch_application has returned.
RecordedAt == "started"

\* clear_recent_components and record_recent_component read; an unreadable file
\* is refused.
Load(p) ==
  /\ At(p, {"launch"}, RecordedAt)
  /\ settings.state # "unreadable"
  /\ errand' = [errand EXCEPT ![p].at = "loaded", ![p].recent = Changed(p, settings.recent)]
  /\ UNCHANGED <<defects, settings, vouched, torn, hands>>

BeginClear(p) ==
  /\ errand[p] = Idle
  /\ settings.state # "unreadable"
  /\ errand' = [errand EXCEPT ![p] =
       [op |-> "clear", component |-> Idle, at |-> "loaded", recent |-> <<>>]]
  /\ UNCHANGED <<defects, settings, vouched, torn, hands>>

\* reset_suite_settings reads nothing: it is the one way out of an unreadable file.
BeginReset(p) ==
  /\ errand[p] = Idle
  /\ errand' = [errand EXCEPT ![p] =
       [op |-> "reset", component |-> Idle, at |-> "loaded", recent |-> <<>>]]
  /\ UNCHANGED <<defects, settings, vouched, torn, hands>>

\* A faulty variant: the document is written in place.
WritesInPlace == settings' = [settings EXCEPT !.state = "unreadable"]

\* save_suite_settings writes a temporary file first...
WritesBeside == UNCHANGED settings

StageSettings(p) ==
  /\ At(p, {"launch", "clear", "reset"}, "loaded")
  /\ WritesBeside
  /\ errand' = [errand EXCEPT ![p].at = "staged"]
  /\ UNCHANGED <<defects, vouched, torn, hands>>

\* ... and replaces the settings with it.
ReplaceSettings(p) ==
  /\ At(p, {"launch", "clear", "reset"}, "staged")
  /\ settings' = [state |-> "saved", recent |-> errand[p].recent]
  /\ errand' = [errand EXCEPT ![p] = Idle]
  /\ UNCHANGED <<defects, vouched, torn, hands>>

\* A refusal, a warning that the settings were not saved, an error or a death.
GiveUp(p) ==
  /\ errand[p] # Idle
  /\ errand' = [errand EXCEPT ![p] = Idle]
  /\ UNCHANGED <<defects, settings, vouched, torn, hands>>

-----------------------------------------------------------------------------
(* pip, and a text editor.                                                 *)

ByHand == hands < MaxHands /\ hands' = hands + 1 /\ UNCHANGED errand

Reinstall(c, ds) ==
  /\ ByHand
  /\ defects' = [defects EXCEPT ![c] = ds]
  /\ UNCHANGED <<settings, vouched, torn>>

EditSettings(c) ==
  /\ ByHand
  /\ settings' = [state |-> "saved", recent |-> <<c>>]
  /\ vouched' = vouched \cup {c}
  /\ UNCHANGED <<defects, torn>>

SpoilSettings ==
  /\ ByHand
  /\ settings' = [state |-> "unreadable", recent |-> <<>>]
  /\ torn' = TRUE
  /\ UNCHANGED <<defects, vouched>>

LaunchStep(p) ==
  \/ \E c \in Component : Inspect(p, c)
  \/ BeginClear(p) \/ BeginReset(p)
  \/ Start(p) \/ Load(p) \/ StageSettings(p) \/ ReplaceSettings(p) \/ GiveUp(p)

Hands ==
  \/ \E c \in Component : EditSettings(c) \/ \E ds \in Installations : Reinstall(c, ds)
  \/ SpoilSettings

LaunchNext == Hands \/ \E p \in Console : LaunchStep(p)

LaunchSpec == LaunchInit /\ [][LaunchNext]_launchVars

-----------------------------------------------------------------------------
(* Properties.                                                             *)

\* The suite never leaves a settings file that it cannot read, even when it dies
\* while it saves.
SettingsNeverTorn == settings.state = "unreadable" => torn

\* What is listed as recent was started, though others save and clear the list
\* between the read and the replacement, and starts fail.
RecentWereStarted == \A n \in 1..Len(settings.recent) : settings.recent[n] \in vouched

\* No application is listed twice, whoever saved which list last.
RecentDistinct ==
  \A m, n \in 1..Len(settings.recent) : m # n => settings.recent[m] # settings.recent[n]

\* Whoever else launches, saves, clears or dies, the settings can be read, and
\* their list is of distinct applications that were started.
SettingsStand == SettingsNeverTorn /\ RecentWereStarted /\ RecentDistinct
=============================================================================
