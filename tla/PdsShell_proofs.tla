---------------------------- MODULE PdsShell_proofs ----------------------------
(***************************************************************************)
(* Proofs about the commands at a teacher's desk, one family after another. *)
(* A behaviour is of one family, so that each family's steps are all that  *)
(* its variables see.                                                      *)
(***************************************************************************)
EXTENDS PdsShell, SequenceTheorems, TLAPS

LEMMA FamiliesAlone ==
  /\ ShellInit => CustodyInit /\ ClassroomInit /\ LaunchInit /\ BootstrapInit
  /\ [ShellNext]_shellVars =>
       /\ [CustodyNext]_custodyVars /\ [ClassroomNext]_classroomVars
       /\ [LaunchNext]_launchVars /\ [BootstrapNext]_bootstrapVars
BY DEF ShellInit, ShellNext, shellVars, WorkspaceCommands, SetupCommand, LaunchCommands,
   BootstrapScripts

-----------------------------------------------------------------------------
(* The list of recent applications.                                        *)

Contents(list) == {list[n] : n \in 1..Len(list)}

NoneTwice(list) == \A m, n \in 1..Len(list) : m # n => list[m] # list[n]

LEMMA ListsAre ==
  /\ \A list \in Lists : list \in Seq(Component) /\ Len(list) <= MaxRecent
  /\ \A list \in Seq(Component) : Len(list) <= MaxRecent => list \in Lists
<1>1. ASSUME NEW list \in Lists PROVE list \in Seq(Component) /\ Len(list) <= MaxRecent
  <2>1. PICK n \in 0..MaxRecent : list \in [1..n -> Component]
    BY DEF Lists
  <2>2. n \in Nat /\ n <= MaxRecent
    BY LaunchAssumption
  <2>3. list \in Seq(Component)
    BY <2>1, <2>2, SeqDef
  <2>4. Len(list) = n
    BY <2>1, <2>2, <2>3, LenProperties
  <2> QED BY <2>2, <2>3, <2>4
<1>2. ASSUME NEW list \in Seq(Component), Len(list) <= MaxRecent PROVE list \in Lists
  <2>1. Len(list) \in 0..MaxRecent
    BY <1>2, LenProperties, LaunchAssumption
  <2>2. list \in [1..Len(list) -> Component]
    BY LenProperties
  <2> QED BY <2>1, <2>2 DEF Lists
<1> QED BY <1>1, <1>2

\* A list without one application holds the others, once each.
LEMMA OthersAre ==
  ASSUME NEW list \in Seq(Component), NoneTwice(list), NEW c \in Component
  PROVE  /\ Others(list, c) \in Seq(Component)
         /\ NoneTwice(Others(list, c))
         /\ Contents(Others(list, c)) \subseteq Contents(list) \ {c}
<1>0. Len(list) \in Nat /\ \A n \in 1..Len(list) : list[n] \in Component
  BY LenProperties, ElementOfSeq
<1>1. CASE \A n \in 1..Len(list) : list[n] # c
  <2>1. Others(list, c) = list
    BY <1>1 DEF Others
  <2> QED BY <1>1, <2>1 DEF Contents
<1>2. CASE \E n \in 1..Len(list) : list[n] = c
  <2> DEFINE k == Place(list, c)
             other == Others(list, c)
             m == Len(list) - 1
  <2>1. k \in 1..Len(list) /\ list[k] = c
    BY <1>2 DEF Place
  <2>2. other = [n \in 1..m |-> list[IF n < k THEN n ELSE n + 1]]
    BY <1>2 DEF Others
  <2>3. m \in Nat
    BY <1>0, <2>1
  <2> HIDE DEF k, other
  <2>4. \A n \in 1..m : (IF n < k THEN n ELSE n + 1) \in (1..Len(list)) \ {k}
    BY <1>0, <2>1
  <2>5. other \in [1..m -> Component]
    BY <1>0, <2>2, <2>4
  <2>6. other \in Seq(Component) /\ Len(other) = m
    BY <2>3, <2>5, SeqDef, LenProperties
  <2>7. NoneTwice(other)
    <3> SUFFICES ASSUME NEW i \in 1..m, NEW j \in 1..m, i # j PROVE other[i] # other[j]
      BY <2>6 DEF NoneTwice
    <3> DEFINE x == IF i < k THEN i ELSE i + 1
               y == IF j < k THEN j ELSE j + 1
    <3>1. x \in 1..Len(list) /\ y \in 1..Len(list) /\ x # y
      BY <1>0, <2>1, <2>4
    <3>2. other[i] = list[x] /\ other[j] = list[y]
      BY <2>2
    <3> QED BY <3>1, <3>2 DEF NoneTwice
  <2>8. ASSUME NEW i \in 1..m PROVE other[i] \in Contents(list) \ {c}
    <3> DEFINE x == IF i < k THEN i ELSE i + 1
    <3>1. x \in 1..Len(list) /\ x # k /\ other[i] = list[x]
      BY <2>2, <2>4
    <3>2. list[x] # list[k]
      BY <2>1, <3>1 DEF NoneTwice
    <3> QED BY <2>1, <3>1, <3>2 DEF Contents
  <2> QED BY <2>6, <2>7, <2>8 DEF Contents, other
<1> QED BY <1>1, <1>2

\* record_recent_component: what was there and the application, once each, in a
\* list that can be read again.
LEMMA MovedToFrontIs ==
  ASSUME NEW list \in Lists, NoneTwice(list), NEW c \in Component
  PROVE  /\ MovedToFront(list, c) \in Lists
         /\ NoneTwice(MovedToFront(list, c))
         /\ Contents(MovedToFront(list, c)) \subseteq Contents(list) \cup {c}
<1> DEFINE other == Others(list, c)
           whole == <<c>> \o other
           front == MovedToFront(list, c)
<1>0. MaxRecent \in Nat \ {0} /\ list \in Seq(Component)
  BY LaunchAssumption, ListsAre
<1>1. /\ other \in Seq(Component) /\ NoneTwice(other)
      /\ Contents(other) \subseteq Contents(list) \ {c}
  BY <1>0, OthersAre
<1>2. <<c>> \in Seq(Component) /\ Len(<<c>>) = 1 /\ <<c>>[1] = c
  OBVIOUS
<1> HIDE DEF other
<1>3. /\ whole \in Seq(Component) /\ Len(whole) = 1 + Len(other) /\ Len(other) \in Nat
      /\ whole[1] = c
      /\ \A i \in 2..Len(whole) : whole[i] = other[i - 1]
  BY <1>1, <1>2, ConcatProperties, LenProperties
<1>4. NoneTwice(whole)
  <2> SUFFICES ASSUME NEW i \in 1..Len(whole), NEW j \in 1..Len(whole), i < j
               PROVE  whole[i] # whole[j]
    BY <1>3, SMTT(30) DEF NoneTwice
  <2>1. j \in 2..Len(whole) /\ j - 1 \in 1..Len(other) /\ whole[j] = other[j - 1]
    BY <1>3
  <2>2. CASE i = 1
    BY <1>1, <1>3, <2>1, <2>2 DEF Contents
  <2>3. CASE i # 1
    <3>1. i \in 2..Len(whole) /\ i - 1 \in 1..Len(other) /\ i - 1 # j - 1
      BY <1>3, <2>1, <2>3
    <3>2. whole[i] = other[i - 1]
      BY <1>3, <3>1
    <3> QED BY <1>1, <2>1, <3>1, <3>2 DEF NoneTwice
  <2> QED BY <2>2, <2>3
<1>5. Contents(whole) \subseteq Contents(list) \cup {c}
  <2> SUFFICES ASSUME NEW i \in 1..Len(whole) PROVE whole[i] \in Contents(list) \cup {c}
    BY DEF Contents
  <2>1. CASE i = 1
    BY <1>3, <2>1
  <2>2. CASE i # 1
    <3>1. i \in 2..Len(whole) /\ i - 1 \in 1..Len(other)
      BY <1>3, <2>2
    <3>2. whole[i] = other[i - 1]
      BY <1>3, <3>1
    <3> QED BY <1>1, <3>1, <3>2 DEF Contents
  <2> QED BY <2>1, <2>2
<1>6. front = IF Len(whole) > MaxRecent THEN SubSeq(whole, 1, MaxRecent) ELSE whole
  BY DEF MovedToFront, Cut, other
<1> HIDE DEF whole, front
<1>7. CASE Len(whole) > MaxRecent
  <2>1. /\ front \in Seq(Component) /\ Len(front) = MaxRecent
        /\ \A i \in 1..MaxRecent : front[i] = whole[i]
    BY <1>0, <1>3, <1>6, <1>7, SubSeqProperties
  <2>2. NoneTwice(front)
    BY <1>0, <1>3, <1>4, <1>7, <2>1 DEF NoneTwice
  <2>3. Contents(front) \subseteq Contents(whole)
    BY <1>0, <1>3, <1>7, <2>1 DEF Contents
  <2>4. front \in Lists
    BY <1>0, <2>1, ListsAre
  <2> QED BY <1>5, <2>2, <2>3, <2>4 DEF front
<1>8. CASE ~(Len(whole) > MaxRecent)
  <2>1. front = whole /\ front \in Lists
    BY <1>0, <1>3, <1>6, <1>8, ListsAre
  <2> QED BY <1>4, <1>5, <2>1 DEF front
<1> QED BY <1>7, <1>8

-----------------------------------------------------------------------------
(* pds launch and the settings.                                            *)

\* A list that is on its way into the settings, and a launch that is yet to be
\* recorded, keep what the settings keep.
LaunchInv ==
  /\ LaunchTypeOK
  /\ SettingsNeverTorn
  /\ Contents(settings.recent) \subseteq vouched /\ NoneTwice(settings.recent)
  /\ \A p \in Console : errand[p] # Idle =>
       /\ errand[p].op = "launch" => errand[p].component \in Component
       /\ errand[p].op = "launch" /\ errand[p].at # "available" => errand[p].component \in vouched
       /\ Contents(errand[p].recent) \subseteq vouched /\ NoneTwice(errand[p].recent)

LEMMA EmptyList ==
  << >> \in Lists /\ Contents(<< >>) = {} /\ NoneTwice(<< >>)
<1>1. << >> \in Seq(Component) /\ Len(<< >>) = 0 /\ MaxRecent \in Nat
  BY LaunchAssumption
<1>2. << >> \in Lists
  <2> DEFINE none == << >>
  <2>1. none \in Seq(Component) /\ Len(none) <= MaxRecent
    BY <1>1
  <2> HIDE DEF none
  <2>2. none \in Lists
    BY <2>1, ListsAre
  <2> QED BY <2>2 DEF none
<1>3. Contents(<< >>) = {} /\ NoneTwice(<< >>)
  BY <1>1 DEF Contents, NoneTwice
<1> QED BY <1>2, <1>3

LEMMA OneListed ==
  ASSUME NEW c \in Component
  PROVE  <<c>> \in Lists /\ Contents(<<c>>) = {c} /\ NoneTwice(<<c>>)
<1>1. <<c>> \in Seq(Component) /\ Len(<<c>>) = 1 /\ <<c>>[1] = c
  OBVIOUS
<1>2. 1 <= MaxRecent
  BY LaunchAssumption
<1>3. <<c>> \in Lists
  BY <1>1, <1>2, ListsAre
<1> HIDE DEF NoneTwice
<1>4. \A n \in 1..Len(<<c>>) : n = 1
  BY <1>1
<1>5. Contents(<<c>>) = {c}
  BY <1>1, <1>4 DEF Contents
<1>6. NoneTwice(<<c>>)
  BY <1>4 DEF NoneTwice
<1> QED BY <1>3, <1>5, <1>6

LEMMA LaunchInvInit == LaunchInit => LaunchInv
<1> SUFFICES ASSUME LaunchInit PROVE LaunchInv
  OBVIOUS
<1>1. settings = [state |-> "missing", recent |-> << >>] /\ settings \in Settings
  BY EmptyList DEF LaunchInit, Settings
<1>2. LaunchTypeOK
  <2>1. 0 \in 0..MaxHands
    BY LaunchAssumption
  <2>2. errand \in [Console -> Errand \cup {Idle}] /\ defects \in [Component -> SUBSET Defect]
    BY DEF LaunchInit
  <2> QED BY <1>1, <2>1, <2>2 DEF LaunchInit, LaunchTypeOK
<1> QED
  BY <1>1, <1>2, EmptyList DEF LaunchInit, LaunchInv, SettingsNeverTorn

LEMMA LaunchInvStep == LaunchInv /\ [LaunchNext]_launchVars => LaunchInv'
<1> SUFFICES ASSUME LaunchInv, [LaunchNext]_launchVars PROVE LaunchInv'
  OBVIOUS
<1> DEFINE Right(p) ==
      errand[p] # Idle =>
       /\ errand[p].op = "launch" => errand[p].component \in Component
       /\ errand[p].op = "launch" /\ errand[p].at # "available" => errand[p].component \in vouched
       /\ Contents(errand[p].recent) \subseteq vouched /\ NoneTwice(errand[p].recent)
<1> USE EmptyList, LaunchAssumption
<1>0. LaunchTypeOK /\ \A p \in Console : Right(p)
  BY DEF LaunchInv
\* A step of one command on its own errand.
<1>1. ASSUME NEW p \in Console, NEW e \in Errand \cup {Idle},
             errand' = [errand EXCEPT ![p] = e],
             UNCHANGED <<settings, torn>>, vouched \subseteq vouched', vouched' \subseteq Component,
             UNCHANGED <<defects, hands>>,
             Right(p)'
      PROVE  LaunchInv'
  <2>1. LaunchTypeOK'
    BY <1>0, <1>1 DEF LaunchTypeOK
  <2>2. \A q \in Console \ {p} : errand'[q] = errand[q]
    BY <1>0, <1>1 DEF LaunchTypeOK
  <2>3. \A q \in Console : Right(q)'
    BY <1>0, <1>1, <2>2
  <2> QED BY <1>1, <2>1, <2>3 DEF LaunchInv, SettingsNeverTorn
<1>2. ASSUME NEW p \in Console, NEW c \in Component, Inspect(p, c) PROVE LaunchInv'
  <2> DEFINE e == [op |-> "launch", component |-> c, at |-> "available", recent |-> << >>]
  <2>1. e \in Errand /\ errand'[p] = e
    BY <1>0, <1>2 DEF Inspect, Errand, LaunchTypeOK
  <2> QED BY <1>0, <1>1, <1>2, <2>1 DEF Inspect, LaunchTypeOK
<1>3. ASSUME NEW p \in Console, BeginClear(p) \/ BeginReset(p) PROVE LaunchInv'
  <2>1. PICK e \in {[op |-> o, component |-> Idle, at |-> "loaded", recent |-> << >>] :
                       o \in {"clear", "reset"}} :
          errand' = [errand EXCEPT ![p] = e]
    BY <1>3 DEF BeginClear, BeginReset
  <2>2. e \in Errand /\ errand'[p] = e
    BY <1>0, <2>1 DEF Errand, LaunchTypeOK
  <2>3. e.recent = << >> /\ e.op # "launch"
    BY <2>1
  <2>4. Right(p)'
    BY <2>2, <2>3
  <2> QED BY <1>0, <1>1, <1>3, <2>1, <2>2, <2>4 DEF BeginClear, BeginReset, LaunchTypeOK
<1>4. ASSUME NEW p \in Console, Start(p) PROVE LaunchInv'
  <2> DEFINE e == [errand[p] EXCEPT !.at = "started"]
  <2>1. errand[p] # Idle /\ errand[p].op = "launch" /\ errand' = [errand EXCEPT ![p] = e]
        /\ vouched' = vouched \cup {errand[p].component}
    BY <1>4 DEF Start, At
  <2>2. errand[p] \in Errand /\ e \in Errand /\ errand'[p] = e
    BY <1>0, <2>1 DEF LaunchTypeOK, Errand
  <2>3. /\ e.op = "launch" /\ e.component = errand[p].component /\ e.recent = errand[p].recent
        /\ errand[p].component \in Component
    BY <1>0, <2>1, <2>2 DEF Errand
  <2>4. vouched' \subseteq Component
    BY <1>0, <2>1, <2>3 DEF LaunchTypeOK
  <2> HIDE DEF e
  <2>5. Right(p)'
    BY <1>0, <2>1, <2>2, <2>3
  <2> QED BY <1>1, <1>4, <2>1, <2>2, <2>4, <2>5 DEF Start
<1>5. ASSUME NEW p \in Console, Load(p) PROVE LaunchInv'
  <2> DEFINE c == errand[p].component
             new == MovedToFront(settings.recent, c)
             e == [errand[p] EXCEPT !.at = "loaded", !.recent = new]
  <2>1. /\ errand[p] # Idle /\ errand[p].op = "launch" /\ errand[p].at = "started"
        /\ errand' = [errand EXCEPT ![p] = e]
    BY <1>5 DEF Load, At, RecordedAt, Changed
  <2>2. errand[p] \in Errand /\ c \in Component /\ c \in vouched
    BY <1>0, <2>1 DEF LaunchTypeOK
  <2>3. settings.recent \in Lists /\ NoneTwice(settings.recent)
        /\ Contents(settings.recent) \subseteq vouched
    BY DEF LaunchInv, LaunchTypeOK, Settings
  <2>4. new \in Lists /\ NoneTwice(new) /\ Contents(new) \subseteq vouched
    BY <2>2, <2>3, MovedToFrontIs
  <2> HIDE DEF new
  <2>5. e \in Errand /\ errand'[p] = e /\ e.recent = new /\ e.component = c
    BY <1>0, <2>1, <2>2, <2>4 DEF LaunchTypeOK, Errand
  <2> HIDE DEF c, e
  <2>6. Right(p)'
    BY <1>5, <2>2, <2>4, <2>5 DEF Load
  <2> QED BY <1>0, <1>1, <1>5, <2>1, <2>5, <2>6 DEF Load, LaunchTypeOK
<1>6. ASSUME NEW p \in Console, StageSettings(p) PROVE LaunchInv'
  <2> DEFINE e == [errand[p] EXCEPT !.at = "staged"]
  <2>1. errand[p] # Idle /\ errand[p].at = "loaded" /\ errand' = [errand EXCEPT ![p] = e]
    BY <1>6 DEF StageSettings, At
  <2>2. e \in Errand /\ errand'[p] = e /\ e.op = errand[p].op
        /\ e.component = errand[p].component /\ e.recent = errand[p].recent
    BY <1>0, <2>1 DEF LaunchTypeOK, Errand
  <2> HIDE DEF e
  <2>3. Right(p)'
    BY <1>0, <1>6, <2>1, <2>2 DEF StageSettings
  <2> QED BY <1>0, <1>1, <1>6, <2>1, <2>2, <2>3 DEF StageSettings, WritesBeside, LaunchTypeOK
<1>7. ASSUME NEW p \in Console, ReplaceSettings(p) PROVE LaunchInv'
  <2>1. errand[p] # Idle /\ errand[p] \in Errand /\ errand[p].recent \in Lists
    BY <1>0, <1>7 DEF ReplaceSettings, At, LaunchTypeOK, Errand
  <2>2. /\ settings' = [state |-> "saved", recent |-> errand[p].recent]
        /\ errand' = [errand EXCEPT ![p] = Idle] /\ UNCHANGED <<defects, vouched, torn, hands>>
    BY <1>7 DEF ReplaceSettings
  <2>3. LaunchTypeOK'
    BY <1>0, <2>1, <2>2 DEF LaunchTypeOK, Settings
  <2>4. \A q \in Console : Right(q)'
    BY <1>0, <2>2 DEF LaunchTypeOK
  <2> QED BY <1>0, <2>1, <2>2, <2>3, <2>4 DEF LaunchInv, SettingsNeverTorn
<1>8. ASSUME NEW p \in Console, GiveUp(p) PROVE LaunchInv'
  <2>1. errand'[p] = Idle
    BY <1>0, <1>8 DEF GiveUp, LaunchTypeOK
  <2> QED BY <1>0, <1>1, <1>8, <2>1 DEF GiveUp, LaunchTypeOK
<1>9. ASSUME Hands PROVE LaunchInv'
  <2>1. hands' \in 0..MaxHands /\ UNCHANGED errand /\ vouched \subseteq vouched'
    BY <1>0, <1>9 DEF Hands, EditSettings, Reinstall, SpoilSettings, ByHand, LaunchTypeOK
  <2>2. ASSUME NEW c \in Component, EditSettings(c) PROVE LaunchInv'
    <3>1. LaunchTypeOK'
      BY <1>0, <2>1, <2>2, OneListed DEF EditSettings, LaunchTypeOK, Settings
    <3> QED BY <1>0, <2>1, <2>2, <3>1, OneListed
            DEF EditSettings, LaunchInv, SettingsNeverTorn
  <2>3. ASSUME NEW c \in Component, NEW ds \in Installations, Reinstall(c, ds) PROVE LaunchInv'
    <3>1. LaunchTypeOK'
      BY <1>0, <2>1, <2>3 DEF Reinstall, LaunchTypeOK
    <3> QED BY <1>0, <2>1, <2>3, <3>1 DEF Reinstall, LaunchInv, SettingsNeverTorn
  <2>4. ASSUME SpoilSettings PROVE LaunchInv'
    <3>1. LaunchTypeOK'
      BY <1>0, <2>1, <2>4 DEF SpoilSettings, LaunchTypeOK, Settings
    <3> QED BY <1>0, <2>1, <2>4, <3>1 DEF SpoilSettings, LaunchInv, SettingsNeverTorn
  <2> QED BY <1>9, <2>2, <2>3, <2>4 DEF Hands
<1>10. ASSUME UNCHANGED launchVars PROVE LaunchInv'
  BY <1>10 DEF launchVars, LaunchInv, LaunchTypeOK, SettingsNeverTorn
<1> QED
  BY <1>2, <1>3, <1>4, <1>5, <1>6, <1>7, <1>8, <1>9, <1>10 DEF LaunchNext, LaunchStep

LEMMA LaunchAlways == ShellSpec => []LaunchInv
<1>1. ShellInit => LaunchInv
  BY FamiliesAlone, LaunchInvInit
<1>2. LaunchInv /\ [ShellNext]_shellVars => LaunchInv'
  BY FamiliesAlone, LaunchInvStep
<1> QED BY <1>1, <1>2, PTL DEF ShellSpec

\* However many commands launch, save, clear, reset and die over one settings file
\* without a lock, it can be read unless somebody spoilt it by hand, and lists
\* applications that were started, each once (settings.py, applications.py).
THEOREM SettingsSound == ShellSpec => []SettingsStand
<1>1. LaunchInv => SettingsStand
  BY DEF LaunchInv, SettingsStand, RecentWereStarted, RecentDistinct, Contents, NoneTwice
<1> QED BY <1>1, LaunchAlways, PTL

-----------------------------------------------------------------------------
(* The bootstrap of an environment.                                        *)

Works(s) == scripts[s] # Nil /\ scripts[s].at \notin {"failed", "removing"} /\ ~scripts[s].create

\* What a script is asked for and what it has may be read off where it is.
ScriptShapes ==
  \A s \in Script : scripts[s] # Nil =>
    /\ scripts[s].at \in {"planned", "ready"} => scripts[s].nonce = 0
    /\ scripts[s].at \in {"rooted", "failed", "removing"} => scripts[s].nonce # 0
    /\ scripts[s].create => scripts[s].at \in {"planned", "ready"}

\* A nonce is of one script and one directory, the one that holds its sentinel.
NoncesAreOwn ==
  /\ target # Nil => target.made <= made /\ target.sentinel \in {0, target.made}
  /\ \A s \in Script : scripts[s] # Nil =>
       /\ scripts[s].nonce <= made
       /\ scripts[s].at = "removing" => target # Nil /\ target.made = scripts[s].nonce
       /\ \A t \in Script \ {s} : scripts[t] # Nil /\ scripts[s].nonce # 0 =>
            scripts[t].nonce # scripts[s].nonce

\* Nothing that is there is other than what a release ships.
ShippedOnly(release) == \A p \in Package : target.pkg[p] \in {Nil, Ships[release][p]}

Filled(chosen) == \A p \in Required \cup chosen : target.pkg[p] # Nil

\* A script works on what it made, which nobody else has adopted before it is
\* marked, or on what was marked for its release.
OnItsTarget(s) ==
  /\ target # Nil /\ ShippedOnly(scripts[s].release)
  /\ IF scripts[s].nonce = 0
     THEN target.venv /\ target.marker = scripts[s].release
     ELSE target.made = scripts[s].nonce /\ target.marker \in {Nil, scripts[s].release}
  /\ scripts[s].at \in {"pip", "packages", "seen", "marked"} => target.venv
  /\ scripts[s].at \in {"seen", "marked"} =>
       scripts[s].verified = target.made /\ Filled(scripts[s].chosen)
  /\ scripts[s].at = "marked" => target.marker = scripts[s].release

StillWhole(s) ==
  /\ target # Nil /\ target.venv /\ target.made = installed[s].made
  /\ target.marker = installed[s].release
  /\ ShippedOnly(installed[s].release) /\ Filled(installed[s].chosen)

\* While nothing was deleted by hand and no marked environment was withdrawn.
TargetsKept ==
  Undisturbed =>
    /\ \A s \in Script : Works(s) => OnItsTarget(s)
    /\ \A s \in Script : scripts[s] # Nil /\ scripts[s].at = "removing" => target.marker = Nil
    /\ \A s \in Script : installed[s] # Nil => StillWhole(s)

BootstrapInv == BootstrapTypeOK /\ ScriptShapes /\ NoncesAreOwn /\ TargetsKept

LEMMA NilIsNone ==
  /\ \A run \in BootstrapRun : run # Nil
  /\ \A env \in Environment : env # Nil
  /\ \A release \in Release : release # Nil
  /\ \A version \in Version : version # Nil
BY BootstrapAssumption

LEMMA ShippedVersions ==
  ASSUME NEW release \in Release, NEW p \in Package
  PROVE  Ships[release][p] \in Version
BY BootstrapAssumption DEF Version

\* A script's step changes no other script.
LEMMA OneScript ==
  ASSUME BootstrapTypeOK, NEW s \in Script, NEW new, scripts' = [scripts EXCEPT ![s] = new]
  PROVE  scripts'[s] = new /\ \A t \in Script \ {s} : scripts'[t] = scripts[t]
BY DEF BootstrapTypeOK

LEMMA NewTargetIs ==
  ASSUME NEW venv \in BOOLEAN, NEW sentinel \in 0..MaxMade, made + 1 \in 0..MaxMade
  PROVE  /\ NewTarget(venv, sentinel) \in Environment
         /\ NewTarget(venv, sentinel) # Nil
<1>1. NoPackages \in [Package -> Version \cup {Nil}]
  BY DEF NoPackages
<1> HIDE DEF NoPackages
<1>2. NewTarget(venv, sentinel) \in Environment
  BY <1>1 DEF NewTarget, Environment
<1> QED BY <1>2, NilIsNone

LEMMA FailedIs ==
  ASSUME BootstrapTypeOK, NEW s \in Script, scripts[s] # Nil, NEW nonce \in 0..MaxMade
  PROVE  /\ Failed(s, nonce) \in BootstrapRun
         /\ Failed(s, nonce).at = "failed" /\ Failed(s, nonce).nonce = nonce
         /\ ~Failed(s, nonce).create
<1>1. scripts[s] \in BootstrapRun /\ 0 \in 0..MaxMade
  BY BootstrapAssumption DEF BootstrapTypeOK
<1> QED BY <1>1 DEF Failed, BootstrapRun

LEMMA BootstrapTypesStep == BootstrapTypeOK /\ [BootstrapNext]_bootstrapVars => BootstrapTypeOK'
<1> SUFFICES ASSUME BootstrapTypeOK, [BootstrapNext]_bootstrapVars PROVE BootstrapTypeOK'
  OBVIOUS
<1> USE BootstrapAssumption
<1>0. /\ \A s \in Script : scripts[s] # Nil => scripts[s] \in BootstrapRun
      /\ target # Nil => target \in Environment
      /\ 0 \in 0..MaxMade /\ made \in 0..MaxMade
  BY DEF BootstrapTypeOK
\* A step that only moves a script.
<1>1. ASSUME NEW s \in Script, NEW new \in BootstrapRun \cup {Nil},
             scripts' = [scripts EXCEPT ![s] = new],
             target' \in Environment \cup {Nil}, made' \in 0..MaxMade,
             UNCHANGED meddled, UNCHANGED installed \/ installed' \in
               [Script -> [release : Release, chosen : SUBSET Optional, made : 0..MaxMade] \cup {Nil}],
             withdrawn' \in BOOLEAN
      PROVE  BootstrapTypeOK'
  BY <1>1 DEF BootstrapTypeOK
<1>2. ASSUME NEW s \in Script, NEW order \in Orders, PlanTarget(s, order) PROVE BootstrapTypeOK'
  <2> DEFINE new == [release |-> order.release, chosen |-> order.chosen, create |-> target = Nil,
                     left |-> Missing(order.release, order.chosen), wheels |-> {}, nonce |-> 0,
                     verified |-> 0, at |-> "planned"]
  <2>1. new \in BootstrapRun
    <3>1. order.release \in Release /\ order.chosen \in SUBSET Optional
      OBVIOUS
    <3>2. Missing(order.release, order.chosen) \in SUBSET Package
      BY <3>1 DEF Missing, Package
    <3>3. (target = Nil) \in BOOLEAN
      OBVIOUS
    <3> QED BY <1>0, <3>1, <3>2, <3>3 DEF BootstrapRun
  <2>2. scripts' = [scripts EXCEPT ![s] = new] /\ UNCHANGED <<target, made, installed, meddled, withdrawn>>
    BY <1>2 DEF PlanTarget
  <2> HIDE DEF new
  <2> QED BY <1>1, <2>1, <2>2 DEF BootstrapTypeOK
<1>3. ASSUME NEW s \in Script, PrepareArtifacts(s) PROVE BootstrapTypeOK'
  <2> DEFINE missing == Missing(scripts[s].release, scripts[s].chosen) \ {"suite"}
             new == [scripts[s] EXCEPT !.wheels = missing, !.at = "ready"]
  <2>1. scripts[s] \in BootstrapRun /\ UNCHANGED <<target, made, installed, meddled, withdrawn>>
    BY <1>0, <1>3 DEF PrepareArtifacts, ScriptAt
  <2>2. missing \in SUBSET Package
    BY <2>1 DEF Missing, Package, BootstrapRun
  <2>3. scripts' = [scripts EXCEPT ![s] = new]
    BY <1>3 DEF PrepareArtifacts
  <2> HIDE DEF missing
  <2>4. new \in BootstrapRun
    BY <2>1, <2>2 DEF BootstrapRun
  <2> HIDE DEF new
  <2> QED BY <1>1, <2>1, <2>3, <2>4 DEF BootstrapTypeOK
<1>4. ASSUME NEW s \in Script, MakeTargetRoot(s) PROVE BootstrapTypeOK'
  <2>1. scripts[s] \in BootstrapRun /\ made + 1 \in 0..MaxMade /\ made' = made + 1
        /\ UNCHANGED <<installed, meddled, withdrawn>>
    BY <1>0, <1>4 DEF MakeTargetRoot, ScriptAt
  <2>2. PICK written \in BOOLEAN :
          /\ target' = NewTarget(FALSE, IF written THEN made + 1 ELSE 0)
          /\ scripts' = [scripts EXCEPT ![s] =
               IF written THEN [@ EXCEPT !.nonce = made + 1, !.create = FALSE, !.at = "rooted"]
               ELSE Failed(s, made + 1)]
    BY <1>4 DEF MakeTargetRoot
  <2>3. target' \in Environment
    BY <1>0, <2>1, <2>2, NewTargetIs
  <2> DEFINE rooted == [scripts[s] EXCEPT !.nonce = made + 1, !.create = FALSE, !.at = "rooted"]
  <2>4. rooted \in BootstrapRun
    BY <2>1 DEF BootstrapRun
  <2>5. Failed(s, made + 1) \in BootstrapRun
    BY <2>1, NilIsNone, FailedIs
  <2>6. scripts' = [scripts EXCEPT ![s] = IF written THEN rooted ELSE Failed(s, made + 1)]
    BY <2>2
  <2> HIDE DEF rooted
  <2> QED BY <1>1, <2>1, <2>3, <2>4, <2>5, <2>6 DEF BootstrapTypeOK
<1>5. ASSUME NEW s \in Script, NEW where \in {"pip", "packages", "marked", "removing"},
             scripts[s] # Nil, Advance(s, where),
             target' \in Environment \cup {Nil}, made' \in 0..MaxMade,
             UNCHANGED <<meddled, installed>>, withdrawn' \in BOOLEAN
      PROVE  BootstrapTypeOK'
  <2> DEFINE new == [scripts[s] EXCEPT !.at = where]
  <2>1. new \in BootstrapRun
    BY <1>0, <1>5 DEF BootstrapRun
  <2>2. scripts' = [scripts EXCEPT ![s] = new]
    BY <1>5 DEF Advance
  <2> HIDE DEF new
  <2> QED BY <1>1, <1>5, <2>1, <2>2
<1>6. ASSUME NEW s \in Script, MakeVenv(s) PROVE BootstrapTypeOK'
  <2>1. target' \in Environment /\ made' \in 0..MaxMade
    <3>1. CASE target # Nil /\ target' = [target EXCEPT !.venv = TRUE] /\ UNCHANGED made
      BY <1>0, <3>1 DEF Environment
    <3>2. CASE made < MaxMade /\ target' = NewTarget(TRUE, 0) /\ made' = made + 1
      <4>1. made + 1 \in 0..MaxMade
        BY <1>0, <3>2
      <4> QED BY <1>0, <3>2, <4>1, NewTargetIs
    <3> QED BY <1>6, <3>1, <3>2 DEF MakeVenv
  <2> QED BY <1>5, <1>6, <2>1 DEF MakeVenv, ScriptAt, BootstrapTypeOK
<1>7. ASSUME NEW s \in Script, KeepTarget(s) PROVE BootstrapTypeOK'
  BY <1>5, <1>7 DEF KeepTarget, ScriptAt, BootstrapTypeOK
<1>8. ASSUME NEW s \in Script, InstallPip(s) PROVE BootstrapTypeOK'
  <2>1. target' \in Environment
    BY <1>0, <1>8 DEF InstallPip, IsVenv, Environment
  <2> QED BY <1>5, <1>8, <2>1 DEF InstallPip, ScriptAt, BootstrapTypeOK
<1>9. ASSUME NEW s \in Script, NEW p \in Package, InstallPackage(s, p) PROVE BootstrapTypeOK'
  <2> DEFINE new == [scripts[s] EXCEPT !.left = @ \ {p}, !.wheels = @ \ {p}]
             v   == Ships[scripts[s].release][p]
  <2>1. scripts[s] \in BootstrapRun /\ target \in Environment
        /\ UNCHANGED <<made, installed, meddled, withdrawn>>
    BY <1>0, <1>9 DEF InstallPackage, ScriptAt, IsVenv
  <2>2. v \in Version
    BY <2>1, ShippedVersions DEF BootstrapRun
  <2>3. scripts' = [scripts EXCEPT ![s] = new] /\ target' = [target EXCEPT !.pkg[p] = v]
    BY <1>9 DEF InstallPackage
  <2> HIDE DEF v
  <2>4. target' \in Environment
    BY <2>1, <2>2, <2>3 DEF Environment
  <2>5. new \in BootstrapRun
    BY <2>1 DEF BootstrapRun
  <2> HIDE DEF new
  <2> QED BY <1>1, <2>1, <2>3, <2>4, <2>5 DEF BootstrapTypeOK
<1>10. ASSUME NEW s \in Script, VerifyInstalled(s) PROVE BootstrapTypeOK'
  <2> DEFINE new == [scripts[s] EXCEPT !.verified = target.made, !.wheels = {},
                                       !.create = FALSE, !.at = "seen"]
  <2>1. scripts[s] \in BootstrapRun /\ target.made \in 0..MaxMade
        /\ UNCHANGED <<target, made, installed, meddled, withdrawn>>
    BY <1>0, <1>10 DEF VerifyInstalled, ScriptAt, CompositionVerified, IsVenv, Environment
  <2>2. new \in BootstrapRun
    BY <2>1 DEF BootstrapRun
  <2>3. scripts' = [scripts EXCEPT ![s] = new]
    BY <1>10 DEF VerifyInstalled
  <2> HIDE DEF new
  <2> QED BY <1>1, <2>1, <2>2, <2>3 DEF BootstrapTypeOK
<1>11. ASSUME NEW s \in Script, WriteMarker(s) PROVE BootstrapTypeOK'
  <2>1. scripts[s].release \in Release
    BY <1>0, <1>11 DEF WriteMarker, ScriptAt, BootstrapRun
  <2>2. target' \in Environment
    BY <1>0, <1>11, <2>1 DEF WriteMarker, IsVenv, Environment
  <2> QED BY <1>5, <1>11, <2>2 DEF WriteMarker, ScriptAt, BootstrapTypeOK
<1>12. ASSUME NEW s \in Script, Complete(s) PROVE BootstrapTypeOK'
  <2> DEFINE e == [release |-> scripts[s].release, chosen |-> scripts[s].chosen,
                   made |-> scripts[s].verified]
  <2>1. scripts[s] \in BootstrapRun /\ UNCHANGED <<made, meddled, withdrawn>>
        /\ scripts' = [scripts EXCEPT ![s] = Nil]
    BY <1>0, <1>12 DEF Complete, ScriptAt
  <2>2. target' \in Environment \cup {Nil}
    BY <1>0, <1>12 DEF Complete, Owns, Environment, BootstrapTypeOK
  <2>3. e \in [release : Release, chosen : SUBSET Optional, made : 0..MaxMade]
    BY <2>1 DEF BootstrapRun
  <2>4. installed' = [installed EXCEPT ![s] = e]
    BY <1>12 DEF Complete
  <2> HIDE DEF e
  <2> QED BY <1>1, <2>1, <2>2, <2>3, <2>4 DEF BootstrapTypeOK
<1>13. ASSUME NEW s \in Script, ScriptFails(s) PROVE BootstrapTypeOK'
  <2>1. scripts[s] \in BootstrapRun
    BY <1>0, <1>13 DEF ScriptFails
  <2>2. Failed(s, scripts[s].nonce) \in BootstrapRun
    BY <2>1, NilIsNone, FailedIs DEF BootstrapRun
  <2> QED BY <1>1, <1>13, <2>2 DEF ScriptFails, BootstrapTypeOK
<1>14. ASSUME NEW s \in Script, BeginRemoval(s) PROVE BootstrapTypeOK'
  <2>1. target \in Environment
    BY <1>0, <1>14 DEF BeginRemoval, Owns
  <2>2. Remains \subseteq Environment
    <3>1. NoPackages \in [Package -> Version \cup {Nil}]
      BY DEF NoPackages
    <3>2. /\ target.made \in 0..MaxMade /\ target.venv \in BOOLEAN /\ target.pip \in BOOLEAN
          /\ target.pkg \in [Package -> Version \cup {Nil}]
          /\ target.marker \in Release \cup {Nil} /\ target.sentinel \in 0..MaxMade
      BY <2>1 DEF Environment
    <3> HIDE DEF NoPackages
    <3> QED BY <1>0, <3>1, <3>2 DEF Remains, Environment
  <2> QED BY <1>5, <1>14, <2>2 DEF BeginRemoval, ScriptAt, BootstrapTypeOK
<1>15. ASSUME NEW s \in Script, EndRemoval(s) \/ ScriptEnds(s) PROVE BootstrapTypeOK'
  BY <1>1, <1>15 DEF EndRemoval, ScriptEnds, BootstrapTypeOK
<1>16. ASSUME Meddle PROVE BootstrapTypeOK'
  <2>1. target' \in Environment \cup {Nil}
    BY <1>0, <1>16 DEF Meddle, Environment
  <2> QED BY <1>16, <2>1 DEF Meddle, BootstrapTypeOK
<1>17. ASSUME UNCHANGED bootstrapVars PROVE BootstrapTypeOK'
  BY <1>17 DEF bootstrapVars, BootstrapTypeOK
<1> QED
  BY <1>2, <1>3, <1>4, <1>6, <1>7, <1>8, <1>9, <1>10, <1>11, <1>12, <1>13, <1>14, <1>15, <1>16,
     <1>17 DEF BootstrapNext

\* Where a script gets to with its order as it is.
LEMMA Advanced ==
  ASSUME BootstrapTypeOK, NEW s \in Script, scripts[s] # Nil, NEW where, Advance(s, where),
         where \in {"pip", "packages", "marked", "removing"}
  PROVE  /\ scripts'[s] # Nil /\ scripts'[s].at = where
         /\ scripts'[s].release = scripts[s].release /\ scripts'[s].chosen = scripts[s].chosen
         /\ scripts'[s].nonce = scripts[s].nonce /\ scripts'[s].create = scripts[s].create
         /\ scripts'[s].verified = scripts[s].verified
         /\ \A t \in Script \ {s} : scripts'[t] = scripts[t]
<1> DEFINE new == [scripts[s] EXCEPT !.at = where]
<1>1. scripts[s] \in BootstrapRun
  BY DEF BootstrapTypeOK
<1>2. new \in BootstrapRun /\ new.at = where
      /\ new.release = scripts[s].release /\ new.chosen = scripts[s].chosen
      /\ new.nonce = scripts[s].nonce /\ new.create = scripts[s].create
      /\ new.verified = scripts[s].verified
  BY <1>1 DEF BootstrapRun
<1>3. scripts' = [scripts EXCEPT ![s] = new]
  BY DEF Advance
<1> HIDE DEF new
<1>4. scripts'[s] = new /\ \A t \in Script \ {s} : scripts'[t] = scripts[t]
  BY <1>3 DEF BootstrapTypeOK
<1>5. new # Nil
  BY <1>2, NilIsNone
<1> QED BY <1>2, <1>4, <1>5

\* A faithful step of one script over one that is there: what the invariants see.
OneMoves(s) ==
  /\ scripts[s] # Nil /\ scripts'[s] # Nil
  /\ scripts'[s].release = scripts[s].release /\ scripts'[s].chosen = scripts[s].chosen
  /\ scripts'[s].nonce = scripts[s].nonce
  /\ \A t \in Script \ {s} : scripts'[t] = scripts[t]

LEMMA PlannedIs ==
  ASSUME BootstrapTypeOK, NEW s \in Script, NEW order \in Orders, PlanTarget(s, order)
  PROVE  /\ scripts[s] = Nil /\ scripts'[s].at = "planned" /\ scripts'[s].nonce = 0
         /\ scripts'[s].create <=> target = Nil
         /\ CanBootstrap(scripts'[s].release)
         /\ \A t \in Script \ {s} : scripts'[t] = scripts[t]
         /\ UNCHANGED <<target, made, installed, meddled, withdrawn>>
<1> DEFINE new == [release |-> order.release, chosen |-> order.chosen, create |-> target = Nil,
                   left |-> Missing(order.release, order.chosen), wheels |-> {}, nonce |-> 0,
                   verified |-> 0, at |-> "planned"]
<1>1. scripts' = [scripts EXCEPT ![s] = new] /\ scripts[s] = Nil /\ CanBootstrap(order.release)
      /\ UNCHANGED <<target, made, installed, meddled, withdrawn>>
  BY DEF PlanTarget
<1>2. new.release = order.release /\ new.at = "planned" /\ new.nonce = 0
  OBVIOUS
<1>3. new.create <=> target = Nil
  BY Zenon
<1> HIDE DEF new
<1> QED BY <1>1, <1>2, <1>3, OneScript

LEMMA PreparedIs ==
  ASSUME BootstrapTypeOK, NEW s \in Script, PrepareArtifacts(s)
  PROVE  /\ OneMoves(s) /\ scripts[s].at = "planned" /\ scripts'[s].at = "ready"
         /\ scripts'[s].create = scripts[s].create
         /\ UNCHANGED <<target, made, installed, meddled, withdrawn>>
<1> DEFINE missing == Missing(scripts[s].release, scripts[s].chosen) \ {"suite"}
           new == [scripts[s] EXCEPT !.wheels = missing, !.at = "ready"]
<1>1. scripts[s] \in BootstrapRun /\ scripts[s] # Nil /\ scripts[s].at = "planned"
      /\ scripts' = [scripts EXCEPT ![s] = new]
      /\ UNCHANGED <<target, made, installed, meddled, withdrawn>>
  BY DEF PrepareArtifacts, ScriptAt, BootstrapTypeOK
<1>2. missing \in SUBSET Package
  BY <1>1 DEF Missing, Package, BootstrapRun
<1> HIDE DEF missing
<1>3. new \in BootstrapRun /\ new.at = "ready" /\ new.create = scripts[s].create
      /\ new.release = scripts[s].release /\ new.chosen = scripts[s].chosen
      /\ new.nonce = scripts[s].nonce
  BY <1>1, <1>2 DEF BootstrapRun
<1> HIDE DEF new
<1>4. scripts'[s] = new /\ \A t \in Script \ {s} : scripts'[t] = scripts[t]
  BY <1>1 DEF BootstrapTypeOK
<1>5. new # Nil
  BY <1>3, NilIsNone
<1> QED BY <1>1, <1>3, <1>4, <1>5 DEF OneMoves

LEMMA RootedIs ==
  ASSUME BootstrapTypeOK, NEW s \in Script, MakeTargetRoot(s)
  PROVE  /\ scripts[s] # Nil /\ scripts'[s] # Nil /\ target = Nil /\ target' # Nil
         /\ made' = made + 1 /\ made + 1 \in 1..MaxMade /\ target'.made = made + 1
         /\ target'.sentinel \in {0, made + 1}
         /\ target'.marker = Nil /\ \A p \in Package : target'.pkg[p] = Nil
         /\ scripts'[s].at \in {"rooted", "failed"} /\ ~scripts'[s].create
         /\ scripts'[s].nonce = made + 1
         /\ \A t \in Script \ {s} : scripts'[t] = scripts[t]
         /\ UNCHANGED <<installed, meddled, withdrawn>>
<1>1. scripts[s] # Nil /\ scripts[s] \in BootstrapRun /\ target = Nil /\ made' = made + 1
      /\ made + 1 \in 1..MaxMade /\ made + 1 \in 0..MaxMade /\ 0 \in 0..MaxMade
      /\ UNCHANGED <<installed, meddled, withdrawn>>
  BY BootstrapAssumption DEF MakeTargetRoot, ScriptAt, StillAbsent, BootstrapTypeOK
<1> DEFINE rooted == [scripts[s] EXCEPT !.nonce = made + 1, !.create = FALSE, !.at = "rooted"]
<1>2. PICK written \in BOOLEAN :
        /\ target' = NewTarget(FALSE, IF written THEN made + 1 ELSE 0)
        /\ scripts' = [scripts EXCEPT ![s] =
             IF written THEN rooted ELSE Failed(s, made + 1)]
  BY DEF MakeTargetRoot
<1>3. target' # Nil
  BY <1>1, <1>2, NewTargetIs
<1>4. target'.made = made + 1 /\ target'.sentinel \in {0, made + 1} /\ target'.marker = Nil
      /\ \A p \in Package : target'.pkg[p] = Nil
  BY <1>2 DEF NewTarget, NoPackages
<1>5. rooted # Nil /\ rooted.at = "rooted" /\ ~rooted.create /\ rooted.nonce = made + 1
  <2>1. rooted \in BootstrapRun
    BY <1>1 DEF BootstrapRun
  <2> QED BY <1>1, <2>1, NilIsNone DEF BootstrapRun
<1>6. /\ Failed(s, made + 1) # Nil /\ Failed(s, made + 1).at = "failed"
      /\ ~Failed(s, made + 1).create /\ Failed(s, made + 1).nonce = made + 1
  BY <1>1, FailedIs, NilIsNone
<1> HIDE DEF rooted
<1> QED BY <1>1, <1>2, <1>3, <1>4, <1>5, <1>6, OneScript

LEMMA VerifiedIs ==
  ASSUME BootstrapTypeOK, NEW s \in Script, VerifyInstalled(s)
  PROVE  /\ OneMoves(s) /\ scripts[s].at = "packages" /\ scripts'[s].at = "seen"
         /\ ~scripts'[s].create /\ scripts'[s].verified = target.made
         /\ CompositionVerified(scripts[s].release, scripts[s].chosen)
         /\ UNCHANGED <<target, made, installed, meddled, withdrawn>>
<1> DEFINE new == [scripts[s] EXCEPT !.verified = target.made, !.wheels = {},
                                     !.create = FALSE, !.at = "seen"]
<1>1. scripts[s] \in BootstrapRun /\ scripts[s] # Nil /\ scripts[s].at = "packages"
      /\ scripts' = [scripts EXCEPT ![s] = new]
      /\ CompositionVerified(scripts[s].release, scripts[s].chosen)
      /\ target.made \in 0..MaxMade
      /\ UNCHANGED <<target, made, installed, meddled, withdrawn>>
  BY DEF VerifyInstalled, ScriptAt, BootstrapTypeOK, CompositionVerified, IsVenv, Environment
<1>2. new \in BootstrapRun /\ new.at = "seen" /\ ~new.create /\ new.verified = target.made
      /\ new.release = scripts[s].release /\ new.chosen = scripts[s].chosen
      /\ new.nonce = scripts[s].nonce
  BY <1>1 DEF BootstrapRun
<1> HIDE DEF new
<1>4. scripts'[s] = new /\ \A t \in Script \ {s} : scripts'[t] = scripts[t]
  BY <1>1 DEF BootstrapTypeOK
<1>5. new # Nil
  BY <1>2, NilIsNone
<1> QED BY <1>1, <1>2, <1>4, <1>5 DEF OneMoves

LEMMA PackageIs ==
  ASSUME BootstrapTypeOK, NEW s \in Script, NEW p \in Package, InstallPackage(s, p)
  PROVE  /\ OneMoves(s) /\ scripts[s].at = "packages" /\ scripts'[s].at = "packages"
         /\ scripts'[s].create = scripts[s].create
         /\ target # Nil /\ target' # Nil /\ target.venv
         /\ target'.made = target.made /\ target'.venv = target.venv
         /\ target'.marker = target.marker /\ target'.sentinel = target.sentinel
         /\ target'.spoilt = target.spoilt
         /\ target'.pkg[p] = Ships[scripts[s].release][p] /\ target'.pkg[p] # Nil
         /\ \A q \in Package \ {p} : target'.pkg[q] = target.pkg[q]
         /\ UNCHANGED <<made, installed, meddled, withdrawn>>
<1> DEFINE new == [scripts[s] EXCEPT !.left = @ \ {p}, !.wheels = @ \ {p}]
           v   == Ships[scripts[s].release][p]
<1>1. scripts[s] \in BootstrapRun /\ scripts[s] # Nil /\ scripts[s].at = "packages"
      /\ scripts' = [scripts EXCEPT ![s] = new]
      /\ target # Nil /\ target \in Environment /\ target.venv
      /\ target' = [target EXCEPT !.pkg[p] = v]
      /\ UNCHANGED <<made, installed, meddled, withdrawn>>
  BY DEF InstallPackage, ScriptAt, BootstrapTypeOK, IsVenv
<1>2. v \in Version /\ v # Nil
  BY <1>1, ShippedVersions, NilIsNone DEF BootstrapRun
<1>3. new \in BootstrapRun /\ new.at = "packages" /\ new.create = scripts[s].create
      /\ new.release = scripts[s].release /\ new.chosen = scripts[s].chosen
      /\ new.nonce = scripts[s].nonce
  BY <1>1 DEF BootstrapRun
<1> HIDE DEF new, v
<1>4. /\ target' \in Environment
      /\ target'.made = target.made /\ target'.venv = target.venv
      /\ target'.marker = target.marker /\ target'.sentinel = target.sentinel
      /\ target'.spoilt = target.spoilt
      /\ target'.pkg[p] = v /\ \A q \in Package \ {p} : target'.pkg[q] = target.pkg[q]
  BY <1>1, <1>2 DEF Environment
<1>5. scripts'[s] = new /\ \A t \in Script \ {s} : scripts'[t] = scripts[t]
  BY <1>1 DEF BootstrapTypeOK
<1>6. new # Nil /\ target' # Nil
  BY <1>3, <1>4, NilIsNone
<1> QED BY <1>1, <1>2, <1>3, <1>4, <1>5, <1>6 DEF OneMoves, v

\* A directory as it was, but for what a step fills in.
SameDirectory ==
  /\ target # Nil /\ target' # Nil
  /\ target'.made = target.made /\ target'.sentinel = target.sentinel
  /\ target'.spoilt = target.spoilt /\ target'.pkg = target.pkg

LEMMA VenvIs ==
  ASSUME BootstrapTypeOK, NEW s \in Script, MakeVenv(s)
  PROVE  /\ OneMoves(s) /\ scripts[s].at = "rooted" /\ scripts'[s].at = "pip"
         /\ scripts'[s].create = scripts[s].create
         /\ \/ /\ SameDirectory /\ target'.marker = target.marker /\ target'.venv
               /\ UNCHANGED made
            \/ /\ target = Nil /\ target' # Nil /\ made' = made + 1
               /\ target'.made = made + 1 /\ target'.sentinel = 0
         /\ UNCHANGED <<installed, meddled, withdrawn>>
<1>1. scripts[s] # Nil /\ scripts[s].at = "rooted" /\ Advance(s, "pip")
      /\ UNCHANGED <<installed, meddled, withdrawn>>
  BY DEF MakeVenv, ScriptAt
<1>2. OneMoves(s) /\ scripts'[s].at = "pip" /\ scripts'[s].create = scripts[s].create
  BY <1>1, Advanced DEF OneMoves
<1>3. CASE target # Nil /\ target' = [target EXCEPT !.venv = TRUE] /\ UNCHANGED made
  <2>1. target \in Environment
    BY <1>3 DEF BootstrapTypeOK
  <2>2. target' \in Environment /\ target'.made = target.made /\ target'.sentinel = target.sentinel
        /\ target'.spoilt = target.spoilt /\ target'.pkg = target.pkg
        /\ target'.marker = target.marker /\ target'.venv
    BY <1>3, <2>1 DEF Environment
  <2> QED BY <1>1, <1>2, <1>3, <2>2, NilIsNone DEF SameDirectory
<1>4. CASE target = Nil /\ made < MaxMade /\ target' = NewTarget(TRUE, 0) /\ made' = made + 1
  <2>1. made + 1 \in 0..MaxMade /\ 0 \in 0..MaxMade
    BY <1>4, BootstrapAssumption DEF BootstrapTypeOK
  <2>2. target' # Nil
    BY <1>4, <2>1, NewTargetIs
  <2>3. target'.made = made + 1 /\ target'.sentinel = 0
    BY <1>4 DEF NewTarget
  <2> QED BY <1>1, <1>2, <1>4, <2>2, <2>3
<1> QED BY <1>3, <1>4 DEF MakeVenv

LEMMA PipIs ==
  ASSUME BootstrapTypeOK, NEW s \in Script, InstallPip(s)
  PROVE  /\ OneMoves(s) /\ scripts[s].at = "pip" /\ scripts'[s].at = "packages"
         /\ scripts'[s].create = scripts[s].create
         /\ SameDirectory /\ target'.marker = target.marker /\ target'.venv = target.venv
         /\ UNCHANGED <<made, installed, meddled, withdrawn>>
<1>1. scripts[s] # Nil /\ scripts[s].at = "pip" /\ Advance(s, "packages")
      /\ target # Nil /\ target \in Environment /\ target' = [target EXCEPT !.pip = TRUE]
      /\ UNCHANGED <<made, installed, meddled, withdrawn>>
  BY DEF InstallPip, ScriptAt, IsVenv, BootstrapTypeOK
<1>2. OneMoves(s) /\ scripts'[s].at = "packages" /\ scripts'[s].create = scripts[s].create
  BY <1>1, Advanced DEF OneMoves
<1>3. target' \in Environment /\ target'.made = target.made /\ target'.sentinel = target.sentinel
      /\ target'.spoilt = target.spoilt /\ target'.pkg = target.pkg
      /\ target'.marker = target.marker /\ target'.venv = target.venv
  BY <1>1 DEF Environment
<1> QED BY <1>1, <1>2, <1>3, NilIsNone DEF SameDirectory

LEMMA MarkerIs ==
  ASSUME BootstrapTypeOK, NEW s \in Script, WriteMarker(s)
  PROVE  /\ OneMoves(s) /\ scripts[s].at = "seen" /\ scripts'[s].at = "marked"
         /\ scripts'[s].create = scripts[s].create /\ scripts'[s].verified = scripts[s].verified
         /\ SameDirectory /\ target'.marker = scripts[s].release /\ target'.venv = target.venv
         /\ target'.marker # Nil
         /\ UNCHANGED <<made, installed, meddled, withdrawn>>
<1>1. scripts[s] # Nil /\ scripts[s].at = "seen" /\ Advance(s, "marked")
      /\ target # Nil /\ target \in Environment
      /\ target' = [target EXCEPT !.marker = scripts[s].release]
      /\ scripts[s].release \in Release
      /\ UNCHANGED <<made, installed, meddled, withdrawn>>
  BY DEF WriteMarker, ScriptAt, IsVenv, BootstrapTypeOK, BootstrapRun
<1>2. OneMoves(s) /\ scripts'[s].at = "marked" /\ scripts'[s].create = scripts[s].create
      /\ scripts'[s].verified = scripts[s].verified
  BY <1>1, Advanced DEF OneMoves
<1>3. target' \in Environment /\ target'.made = target.made /\ target'.sentinel = target.sentinel
      /\ target'.spoilt = target.spoilt /\ target'.pkg = target.pkg
      /\ target'.marker = scripts[s].release /\ target'.venv = target.venv
  BY <1>1 DEF Environment
<1> QED BY <1>1, <1>2, <1>3, NilIsNone DEF SameDirectory

LEMMA CompletedIs ==
  ASSUME BootstrapTypeOK, NEW s \in Script, Complete(s)
  PROVE  /\ scripts[s] # Nil /\ scripts[s].at = "marked" /\ scripts'[s] = Nil
         /\ \A t \in Script \ {s} : scripts'[t] = scripts[t]
         /\ \/ UNCHANGED target
            \/ /\ target # Nil /\ target' # Nil
               /\ target'.made = target.made /\ target'.sentinel = 0
               /\ target'.spoilt = target.spoilt /\ target'.pkg = target.pkg
               /\ target'.marker = target.marker /\ target'.venv = target.venv
         /\ installed'[s].release = scripts[s].release
         /\ installed'[s].chosen = scripts[s].chosen
         /\ installed'[s].made = scripts[s].verified
         /\ \A t \in Script \ {s} : installed'[t] = installed[t]
         /\ UNCHANGED <<made, meddled, withdrawn>>
<1>1. scripts[s] # Nil /\ scripts[s].at = "marked" /\ scripts' = [scripts EXCEPT ![s] = Nil]
      /\ UNCHANGED <<made, meddled, withdrawn>>
  BY DEF Complete, ScriptAt
<1>2. scripts'[s] = Nil /\ \A t \in Script \ {s} : scripts'[t] = scripts[t]
  BY <1>1 DEF BootstrapTypeOK
<1>3. /\ installed'[s].release = scripts[s].release
      /\ installed'[s].chosen = scripts[s].chosen
      /\ installed'[s].made = scripts[s].verified
      /\ \A t \in Script \ {s} : installed'[t] = installed[t]
  BY DEF Complete, BootstrapTypeOK
<1>4. CASE scripts[s].nonce = 0
  BY <1>1, <1>2, <1>3, <1>4 DEF Complete
<1>5. CASE scripts[s].nonce # 0
  <2>1. target # Nil /\ target \in Environment /\ target' = [target EXCEPT !.sentinel = 0]
    BY <1>5 DEF Complete, Owns, BootstrapTypeOK
  <2>2. target' \in Environment /\ target'.made = target.made /\ target'.sentinel = 0
        /\ target'.spoilt = target.spoilt /\ target'.pkg = target.pkg
        /\ target'.marker = target.marker /\ target'.venv = target.venv
    BY <2>1, BootstrapAssumption DEF Environment
  <2> QED BY <1>1, <1>2, <1>3, <2>1, <2>2, NilIsNone
<1> QED BY <1>4, <1>5

LEMMA FailsIs ==
  ASSUME BootstrapTypeOK, NEW s \in Script, ScriptFails(s)
  PROVE  /\ scripts[s] # Nil /\ scripts[s].at \notin {"failed", "removing"}
         /\ scripts'[s] # Nil => /\ scripts'[s].at = "failed" /\ ~scripts'[s].create
                                /\ scripts'[s].nonce = scripts[s].nonce /\ scripts[s].nonce # 0
         /\ \A t \in Script \ {s} : scripts'[t] = scripts[t]
         /\ UNCHANGED <<target, made, installed, meddled, withdrawn>>
<1>1. /\ scripts[s] # Nil /\ scripts[s].at \notin {"failed", "removing"}
      /\ UNCHANGED <<target, made, installed, meddled, withdrawn>>
      /\ scripts[s].nonce \in 0..MaxMade
  BY DEF ScriptFails, BootstrapTypeOK, BootstrapRun
<1>2. /\ scripts'[s] = IF scripts[s].nonce # 0 THEN Failed(s, scripts[s].nonce) ELSE Nil
      /\ \A t \in Script \ {s} : scripts'[t] = scripts[t]
  BY DEF ScriptFails, BootstrapTypeOK
<1> QED BY <1>1, <1>2, FailedIs

LEMMA RemovalIs ==
  ASSUME BootstrapTypeOK, NEW s \in Script, BeginRemoval(s)
  PROVE  /\ OneMoves(s) /\ scripts[s].at = "failed" /\ scripts'[s].at = "removing"
         /\ scripts'[s].create = scripts[s].create
         /\ Owns(s) /\ target # Nil /\ target' # Nil
         /\ target'.made = target.made /\ target'.sentinel \in {target.sentinel, 0}
         /\ target'.marker \in {target.marker, Nil} /\ target'.spoilt
         /\ withdrawn' = (withdrawn \/ target.marker # Nil)
         /\ UNCHANGED <<made, installed, meddled>>
<1>1. scripts[s] # Nil /\ scripts[s].at = "failed" /\ Advance(s, "removing")
      /\ Owns(s) /\ target # Nil /\ target \in Environment /\ target' \in Remains
      /\ withdrawn' = (withdrawn \/ target.marker # Nil)
      /\ UNCHANGED <<made, installed, meddled>>
  BY DEF BeginRemoval, ScriptAt, Owns, BootstrapTypeOK
<1>2. OneMoves(s) /\ scripts'[s].at = "removing" /\ scripts'[s].create = scripts[s].create
  BY <1>1, Advanced DEF OneMoves
<1>3. target'.made = target.made /\ target'.sentinel \in {target.sentinel, 0}
      /\ target'.marker \in {target.marker, Nil} /\ target'.spoilt
  BY <1>1 DEF Remains
<1>4. target' # Nil
  <2>1. target' \in Environment
    <3>1. NoPackages \in [Package -> Version \cup {Nil}]
      BY DEF NoPackages
    <3>2. /\ target.made \in 0..MaxMade /\ target.venv \in BOOLEAN /\ target.pip \in BOOLEAN
          /\ target.pkg \in [Package -> Version \cup {Nil}]
          /\ target.marker \in Release \cup {Nil} /\ target.sentinel \in 0..MaxMade
      BY <1>1 DEF Environment
    <3> HIDE DEF NoPackages
    <3>3. 0 \in 0..MaxMade
      BY BootstrapAssumption
    <3> QED BY <1>1, <3>1, <3>2, <3>3 DEF Remains, Environment
  <2> QED BY <2>1, NilIsNone
<1> QED BY <1>1, <1>2, <1>3, <1>4

LEMMA EndsIs ==
  ASSUME BootstrapTypeOK, NEW s \in Script, EndRemoval(s) \/ ScriptEnds(s)
  PROVE  /\ scripts[s] # Nil /\ scripts'[s] = Nil
         /\ \A t \in Script \ {s} : scripts'[t] = scripts[t]
         /\ \/ scripts[s].at = "removing" /\ target' = Nil
            \/ UNCHANGED target
         /\ UNCHANGED <<made, installed, meddled, withdrawn>>
BY DEF EndRemoval, ScriptEnds, ScriptAt, BootstrapTypeOK

LEMMA MeddledIs ==
  ASSUME BootstrapTypeOK, Meddle
  PROVE  /\ meddled' = meddled + 1 /\ meddled' # 0 /\ meddled' # meddled
         /\ target # Nil
         /\ \A s \in Script : scripts[s] # Nil => scripts[s].at # "removing"
         /\ \/ target' = Nil
            \/ /\ target' # Nil /\ target'.made = target.made /\ target'.sentinel = 0
               /\ target'.spoilt = target.spoilt /\ target'.pkg = target.pkg
         /\ UNCHANGED <<scripts, made, installed, withdrawn>>
<1>1. /\ target # Nil /\ target \in Environment /\ meddled \in Nat /\ meddled' = meddled + 1
      /\ \A s \in Script : scripts[s] # Nil => scripts[s].at # "removing"
      /\ UNCHANGED <<scripts, made, installed, withdrawn>>
  BY DEF Meddle, ScriptAt, BootstrapTypeOK
<1>a. meddled' # 0 /\ meddled' # meddled
  BY <1>1
<1>2. CASE target' = Nil
  BY <1>1, <1>2, <1>a
<1>3. CASE target' = [target EXCEPT !.sentinel = 0]
  <2>1. target' \in Environment /\ target'.made = target.made /\ target'.sentinel = 0
        /\ target'.spoilt = target.spoilt /\ target'.pkg = target.pkg
    BY <1>1, <1>3, BootstrapAssumption DEF Environment
  <2>2. target' # Nil
    BY <2>1, NilIsNone
  <2> QED BY <1>1, <1>a, <2>1, <2>2
<1> QED BY <1>2, <1>3 DEF Meddle

LEMMA ShapesStep ==
  BootstrapTypeOK /\ ScriptShapes /\ [BootstrapNext]_bootstrapVars => ScriptShapes'
<1> SUFFICES ASSUME BootstrapTypeOK, ScriptShapes, [BootstrapNext]_bootstrapVars
             PROVE  ScriptShapes'
  OBVIOUS
<1> USE DEF ScriptShapes, OneMoves
<1>1. ASSUME NEW s \in Script, NEW order \in Orders, PlanTarget(s, order) PROVE ScriptShapes'
  BY <1>1, PlannedIs
<1>2. ASSUME NEW s \in Script, PrepareArtifacts(s) PROVE ScriptShapes'
  BY <1>2, PreparedIs
<1>3. ASSUME NEW s \in Script, MakeTargetRoot(s) PROVE ScriptShapes'
  <2>1. made + 1 # 0
    BY <1>3, RootedIs
  <2> QED BY <1>3, <2>1, RootedIs
<1>4. ASSUME NEW s \in Script, MakeVenv(s) PROVE ScriptShapes'
  BY <1>4, VenvIs
<1>5. ASSUME NEW s \in Script, KeepTarget(s) PROVE ScriptShapes'
  BY <1>5, Advanced DEF KeepTarget, ScriptAt
<1>6. ASSUME NEW s \in Script, InstallPip(s) PROVE ScriptShapes'
  BY <1>6, PipIs
<1>7. ASSUME NEW s \in Script, NEW p \in Package, InstallPackage(s, p) PROVE ScriptShapes'
  BY <1>7, PackageIs
<1>8. ASSUME NEW s \in Script, VerifyInstalled(s) PROVE ScriptShapes'
  BY <1>8, VerifiedIs
<1>9. ASSUME NEW s \in Script, WriteMarker(s) PROVE ScriptShapes'
  BY <1>9, MarkerIs
<1>10. ASSUME NEW s \in Script, Complete(s) PROVE ScriptShapes'
  BY <1>10, CompletedIs
<1>11. ASSUME NEW s \in Script, ScriptFails(s) PROVE ScriptShapes'
  BY <1>11, FailsIs
<1>12. ASSUME NEW s \in Script, BeginRemoval(s) PROVE ScriptShapes'
  BY <1>12, RemovalIs
<1>13. ASSUME NEW s \in Script, EndRemoval(s) \/ ScriptEnds(s) PROVE ScriptShapes'
  BY <1>13, EndsIs
<1>14. ASSUME Meddle \/ UNCHANGED bootstrapVars PROVE ScriptShapes'
  BY <1>14, MeddledIs DEF bootstrapVars
<1> QED
  BY <1>1, <1>2, <1>3, <1>4, <1>5, <1>6, <1>7, <1>8, <1>9, <1>10, <1>11, <1>12, <1>13, <1>14
     DEF BootstrapNext

LEMMA NoncesStep ==
  BootstrapTypeOK /\ ScriptShapes /\ NoncesAreOwn /\ [BootstrapNext]_bootstrapVars => NoncesAreOwn'
<1> SUFFICES ASSUME BootstrapTypeOK, ScriptShapes, NoncesAreOwn, [BootstrapNext]_bootstrapVars
             PROVE  NoncesAreOwn'
  OBVIOUS
<1>0. /\ made \in Nat
      /\ target # Nil => target.made \in Nat
      /\ \A s \in Script : scripts[s] # Nil => scripts[s].nonce \in Nat
  BY DEF BootstrapTypeOK, Environment, BootstrapRun
<1>a. /\ target # Nil => target.made <= made /\ target.sentinel \in {0, target.made}
      /\ \A s \in Script : scripts[s] # Nil =>
           /\ scripts[s].nonce <= made
           /\ scripts[s].at = "removing" => target # Nil /\ target.made = scripts[s].nonce
           /\ \A t \in Script \ {s} : scripts[t] # Nil /\ scripts[s].nonce # 0 =>
                scripts[t].nonce # scripts[s].nonce
  BY DEF NoncesAreOwn
\* What leaves nonces and the target's identity alone.
<1>b. ASSUME \A t \in Script : scripts'[t] # Nil =>
               \/ scripts'[t].nonce = 0 /\ scripts'[t].at # "removing"
               \/ /\ scripts[t] # Nil /\ scripts'[t].nonce = scripts[t].nonce
                  /\ scripts'[t].at = "removing" =>
                       \/ scripts[t].at = "removing"
                       \/ target # Nil /\ target.made = scripts[t].nonce,
             UNCHANGED made,
             \/ UNCHANGED target
             \/ /\ target # Nil /\ target' # Nil /\ target'.made = target.made
                /\ target'.sentinel \in {0, target.sentinel}
             \/ target' = Nil /\ \A t \in Script : scripts'[t] # Nil => scripts'[t].at # "removing"
      PROVE  NoncesAreOwn'
  BY <1>0, <1>a, <1>b DEF NoncesAreOwn
<1>1. ASSUME NEW s \in Script, NEW order \in Orders, PlanTarget(s, order) PROVE NoncesAreOwn'
  BY <1>1, <1>b, PlannedIs
<1>2. ASSUME NEW s \in Script, PrepareArtifacts(s) PROVE NoncesAreOwn'
  BY <1>2, <1>b, PreparedIs DEF OneMoves
<1>3. ASSUME NEW s \in Script, MakeTargetRoot(s) PROVE NoncesAreOwn'
  <2>1. /\ target = Nil /\ target' # Nil /\ made' = made + 1 /\ target'.made = made + 1
        /\ target'.sentinel \in {0, made + 1}
        /\ scripts'[s].nonce = made + 1 /\ scripts'[s].at # "removing"
        /\ \A t \in Script \ {s} : scripts'[t] = scripts[t]
    BY <1>3, RootedIs
  <2> QED BY <1>0, <1>a, <2>1 DEF NoncesAreOwn
<1>4. ASSUME NEW s \in Script, MakeVenv(s) PROVE NoncesAreOwn'
  <2>1. CASE SameDirectory /\ UNCHANGED made
    BY <1>4, <1>b, <2>1, VenvIs DEF OneMoves, SameDirectory
  <2>2. CASE target = Nil /\ target' # Nil /\ made' = made + 1
             /\ target'.made = made + 1 /\ target'.sentinel = 0
    <3>1. /\ scripts[s] # Nil /\ scripts'[s].nonce = scripts[s].nonce /\ scripts'[s].at = "pip"
          /\ \A t \in Script \ {s} : scripts'[t] = scripts[t]
      BY <1>4, VenvIs DEF OneMoves
    <3> QED BY <1>0, <1>a, <2>2, <3>1 DEF NoncesAreOwn
  <2> QED BY <1>4, <2>1, <2>2, VenvIs
<1>5. ASSUME NEW s \in Script, KeepTarget(s) PROVE NoncesAreOwn'
  BY <1>5, <1>b, Advanced DEF KeepTarget, ScriptAt
<1>6. ASSUME NEW s \in Script, InstallPip(s) PROVE NoncesAreOwn'
  BY <1>6, <1>b, PipIs DEF OneMoves, SameDirectory
<1>7. ASSUME NEW s \in Script, NEW p \in Package, InstallPackage(s, p) PROVE NoncesAreOwn'
  BY <1>7, <1>b, PackageIs DEF OneMoves
<1>8. ASSUME NEW s \in Script, VerifyInstalled(s) PROVE NoncesAreOwn'
  BY <1>8, <1>b, VerifiedIs DEF OneMoves
<1>9. ASSUME NEW s \in Script, WriteMarker(s) PROVE NoncesAreOwn'
  BY <1>9, <1>b, MarkerIs DEF OneMoves, SameDirectory
<1>10. ASSUME NEW s \in Script, Complete(s) PROVE NoncesAreOwn'
  BY <1>10, <1>b, CompletedIs
<1>11. ASSUME NEW s \in Script, ScriptFails(s) PROVE NoncesAreOwn'
  BY <1>11, <1>b, FailsIs
<1>12. ASSUME NEW s \in Script, BeginRemoval(s) PROVE NoncesAreOwn'
  <2>1. target.made = scripts[s].nonce
    BY <1>12, <1>a, RemovalIs DEF Owns
  <2> QED BY <1>12, <1>b, <2>1, RemovalIs DEF OneMoves
<1>13. ASSUME NEW s \in Script, EndRemoval(s) \/ ScriptEnds(s) PROVE NoncesAreOwn'
  <2>1. scripts[s].at = "removing" =>
          \A t \in Script \ {s} : scripts[t] # Nil => scripts[t].at # "removing"
    BY <1>13, <1>a, EndsIs DEF ScriptShapes
  <2> QED BY <1>13, <1>b, <2>1, EndsIs
<1>14. ASSUME Meddle PROVE NoncesAreOwn'
  BY <1>14, <1>b, MeddledIs
<1>15. ASSUME UNCHANGED bootstrapVars PROVE NoncesAreOwn'
  BY <1>15, <1>b DEF bootstrapVars
<1> QED
  BY <1>1, <1>2, <1>3, <1>4, <1>5, <1>6, <1>7, <1>8, <1>9, <1>10, <1>11, <1>12, <1>13, <1>14,
     <1>15 DEF BootstrapNext

\* Scripts that work on one target work for one release.
LEMMA OneReleaseAtATime ==
  ASSUME BootstrapInv, Undisturbed, NEW s \in Script, Works(s)
  PROVE  /\ target # Nil /\ OnItsTarget(s) /\ scripts[s].release \in Release
         /\ \A t \in Script \ {s} : Works(t) =>
              scripts[t].release = scripts[s].release /\ target.marker = scripts[s].release
         /\ \A t \in Script : installed[t] # Nil =>
              installed[t].release = scripts[s].release /\ target.marker = scripts[s].release
         /\ \A t \in Script : scripts[t] # Nil => scripts[t].at # "removing"
<1>0. /\ \A t \in Script : scripts[t] # Nil => scripts[t].release \in Release
      /\ \A t \in Script : installed[t] # Nil => installed[t].release \in Release
  BY DEF BootstrapInv, BootstrapTypeOK, BootstrapRun
<1>1. /\ \A t \in Script : Works(t) => OnItsTarget(t)
      /\ \A t \in Script : scripts[t] # Nil /\ scripts[t].at = "removing" => target.marker = Nil
      /\ \A t \in Script : installed[t] # Nil => StillWhole(t)
  BY DEF BootstrapInv, TargetsKept
<1>2. /\ target # Nil /\ scripts[s] # Nil /\ scripts[s].release \in Release
      /\ IF scripts[s].nonce = 0 THEN target.marker = scripts[s].release
         ELSE target.made = scripts[s].nonce /\ target.marker \in {Nil, scripts[s].release}
  BY <1>0, <1>1 DEF Works, OnItsTarget
<1>3. \A t \in Script \ {s} : scripts[t] # Nil /\ scripts[t].nonce # 0 /\ target.made = scripts[t].nonce =>
        scripts[s].nonce = 0
  BY <1>2 DEF BootstrapInv, NoncesAreOwn
<1>4. ASSUME NEW t \in Script \ {s}, Works(t)
      PROVE  scripts[t].release = scripts[s].release /\ target.marker = scripts[s].release
  <2>1. /\ scripts[t] # Nil /\ scripts[t].release # Nil
        /\ IF scripts[t].nonce = 0 THEN target.marker = scripts[t].release
           ELSE target.made = scripts[t].nonce /\ target.marker \in {Nil, scripts[t].release}
    BY <1>0, <1>1, <1>4, NilIsNone DEF Works, OnItsTarget
  <2>2. scripts[s].release # Nil
    BY <1>2, NilIsNone
  <2> QED BY <1>2, <1>3, <2>1, <2>2
<1>5. ASSUME NEW t \in Script, installed[t] # Nil
      PROVE  installed[t].release = scripts[s].release /\ target.marker = scripts[s].release
  <2>1. target.marker = installed[t].release /\ installed[t].release # Nil
    BY <1>0, <1>1, <1>5, NilIsNone DEF StillWhole
  <2> QED BY <1>2, <2>1
<1>6. ASSUME NEW t \in Script, scripts[t] # Nil, scripts[t].at = "removing" PROVE FALSE
  <2>1. t # s
    BY <1>6 DEF Works
  <2>2. /\ target.marker = Nil /\ target.made = scripts[t].nonce /\ scripts[t].nonce # 0
    BY <1>1, <1>6 DEF BootstrapInv, NoncesAreOwn, ScriptShapes
  <2>3. scripts[s].nonce = 0
    BY <1>3, <1>6, <2>1, <2>2
  <2>4. target.marker = scripts[s].release
    BY <1>2, <2>3
  <2> QED BY <1>2, <2>2, <2>4, NilIsNone
<1> QED BY <1>1, <1>2, <1>4, <1>5, <1>6

LEMMA KeptStep == BootstrapInv /\ [BootstrapNext]_bootstrapVars => TargetsKept'
<1> SUFFICES ASSUME BootstrapInv, [BootstrapNext]_bootstrapVars, Undisturbed'
             PROVE  /\ \A s \in Script : Works(s)' => OnItsTarget(s)'
                    /\ \A s \in Script : scripts'[s] # Nil /\ scripts'[s].at = "removing" =>
                         target'.marker = Nil
                    /\ \A s \in Script : installed'[s] # Nil => StillWhole(s)'
  BY DEF TargetsKept
<1> DEFINE Goal == /\ \A s \in Script : Works(s)' => OnItsTarget(s)'
                   /\ \A s \in Script : scripts'[s] # Nil /\ scripts'[s].at = "removing" =>
                        target'.marker = Nil
                   /\ \A s \in Script : installed'[s] # Nil => StillWhole(s)'
<1>0. BootstrapTypeOK /\ ScriptShapes /\ NoncesAreOwn
  BY DEF BootstrapInv
<1>a. Undisturbed =>
        /\ \A t \in Script : Works(t) => OnItsTarget(t)
        /\ \A t \in Script : scripts[t] # Nil /\ scripts[t].at = "removing" => target.marker = Nil
        /\ \A t \in Script : installed[t] # Nil => StillWhole(t)
  BY DEF BootstrapInv, TargetsKept
\* What stands as it did.
<1>b. ASSUME UNCHANGED target
      PROVE  /\ \A t \in Script : scripts'[t] = scripts[t] =>
                  (Works(t)' <=> Works(t)) /\ (OnItsTarget(t)' <=> OnItsTarget(t))
             /\ \A t \in Script : installed'[t] = installed[t] => (StillWhole(t)' <=> StillWhole(t))
  BY <1>b DEF Works, OnItsTarget, StillWhole, ShippedOnly, Filled
<1>c. ASSUME target # Nil, target' # Nil, target'.made = target.made, target'.pkg = target.pkg,
             target'.marker = target.marker, target.venv => target'.venv
      PROVE  /\ \A t \in Script : scripts'[t] = scripts[t] =>
                  (Works(t)' <=> Works(t)) /\ (OnItsTarget(t) => OnItsTarget(t)')
             /\ \A t \in Script : installed'[t] = installed[t] => (StillWhole(t) => StillWhole(t)')
  BY <1>c DEF Works, OnItsTarget, StillWhole, ShippedOnly, Filled
<1>1. ASSUME NEW s \in Script, NEW order \in Orders, PlanTarget(s, order) PROVE Goal
  <2>1. UNCHANGED <<target, installed>> /\ Undisturbed
    BY <1>0, <1>1, PlannedIs DEF Undisturbed
  <2>2. Works(s)' => OnItsTarget(s)'
    <3>1. /\ UNCHANGED target /\ scripts'[s].at = "planned" /\ scripts'[s].nonce = 0
          /\ scripts'[s].create <=> target = Nil
          /\ CanBootstrap(scripts'[s].release)
      BY <1>0, <1>1, PlannedIs
    <3>2. target # Nil => /\ target.venv /\ target.marker = scripts'[s].release
                         /\ \A p \in Package : target.pkg[p] \in {Nil, Ships[scripts'[s].release][p]}
      BY <3>1 DEF CanBootstrap, EnvironmentRight, PackagesRight, Observed, IsVenv
    <3> QED BY <3>1, <3>2 DEF Works, OnItsTarget, ShippedOnly
  <2> QED BY <1>0, <1>1, <1>a, <1>b, <2>1, <2>2, PlannedIs
<1>2. ASSUME NEW s \in Script, PrepareArtifacts(s) PROVE Goal
  <2>1. UNCHANGED <<target, installed>> /\ Undisturbed
    BY <1>0, <1>2, PreparedIs DEF Undisturbed
  <2>2. Works(s)' => OnItsTarget(s)'
    <3>1. Works(s)' => Works(s)
      BY <1>0, <1>2, PreparedIs DEF Works, OneMoves
    <3> QED BY <1>0, <1>2, <1>a, <2>1, <3>1, PreparedIs DEF OnItsTarget, OneMoves, ShippedOnly
  <2> QED BY <1>0, <1>2, <1>a, <1>b, <2>1, <2>2, PreparedIs DEF OneMoves
<1>3. ASSUME NEW s \in Script, MakeTargetRoot(s) PROVE Goal
  <2>1. target = Nil /\ UNCHANGED installed /\ Undisturbed
    BY <1>0, <1>3, RootedIs DEF Undisturbed
  <2>2. \A t \in Script : ~Works(t) /\ installed[t] = Nil
    BY <1>a, <2>1 DEF OnItsTarget, StillWhole
  <2>3. \A t \in Script : scripts[t] # Nil => scripts[t].at # "removing"
    BY <1>0, <2>1 DEF NoncesAreOwn
  <2>4. /\ \A t \in Script \ {s} : scripts'[t] = scripts[t]
        /\ scripts'[s] # Nil /\ scripts'[s].at \in {"rooted", "failed"} /\ scripts'[s].nonce = made + 1
        /\ target' # Nil /\ target'.made = made + 1 /\ target'.marker = Nil /\ made + 1 # 0
        /\ \A p \in Package : target'.pkg[p] = Nil
    BY <1>0, <1>3, RootedIs
  <2>5. Works(s)' => OnItsTarget(s)'
    BY <2>4 DEF Works, OnItsTarget, ShippedOnly
  <2>6. \A t \in Script \ {s} : ~Works(t)'
    BY <2>2, <2>4 DEF Works
  <2> QED BY <2>1, <2>2, <2>3, <2>4, <2>5, <2>6
<1>4. ASSUME NEW s \in Script, MakeVenv(s) PROVE Goal
  <2>1. UNCHANGED installed /\ Undisturbed /\ Works(s)
    BY <1>0, <1>4, VenvIs DEF Undisturbed, Works, OneMoves, ScriptShapes
  <2>2. OnItsTarget(s) /\ target # Nil
    BY <1>a, <2>1 DEF OnItsTarget
  <2>3. SameDirectory /\ target'.marker = target.marker /\ target'.venv
    BY <1>0, <1>4, <2>2, VenvIs
  <2>4. OnItsTarget(s)'
    BY <1>0, <1>4, <2>2, <2>3, VenvIs DEF OnItsTarget, SameDirectory, OneMoves, ShippedOnly
  <2> QED BY <1>0, <1>4, <1>a, <1>c, <2>1, <2>2, <2>3, <2>4, VenvIs DEF SameDirectory, OneMoves
<1>5. ASSUME NEW s \in Script, KeepTarget(s) PROVE Goal
  <2>1. /\ UNCHANGED <<target, installed>> /\ Undisturbed /\ Works(s)
        /\ OneMoves(s) /\ scripts'[s].at = "pip" /\ target.venv
    BY <1>0, <1>5, Advanced DEF KeepTarget, ScriptAt, Undisturbed, Works, IsVenv, OneMoves
  <2>2. OnItsTarget(s)'
    BY <1>a, <2>1 DEF OnItsTarget, ShippedOnly, OneMoves
  <2> QED BY <1>a, <1>b, <2>1, <2>2 DEF OneMoves
<1>6. ASSUME NEW s \in Script, InstallPip(s) PROVE Goal
  <2>1. UNCHANGED installed /\ Undisturbed /\ Works(s)
    BY <1>0, <1>6, PipIs DEF Undisturbed, Works, OneMoves, ScriptShapes
  <2>2. OnItsTarget(s)'
    BY <1>0, <1>6, <1>a, <2>1, PipIs DEF OnItsTarget, SameDirectory, OneMoves, ShippedOnly
  <2> QED BY <1>0, <1>6, <1>a, <1>c, <2>1, <2>2, PipIs DEF SameDirectory, OneMoves
<1>7. ASSUME NEW s \in Script, NEW p \in Package, InstallPackage(s, p) PROVE Goal
  <2>1. UNCHANGED installed /\ Undisturbed /\ Works(s)
    BY <1>0, <1>7, PackageIs DEF Undisturbed, Works, OneMoves, ScriptShapes
  <2>2. /\ OnItsTarget(s)
        /\ \A t \in Script \ {s} : Works(t) => scripts[t].release = scripts[s].release
        /\ \A t \in Script : installed[t] # Nil => installed[t].release = scripts[s].release
        /\ \A t \in Script : scripts[t] # Nil => scripts[t].at # "removing"
    BY <2>1, OneReleaseAtATime
  <2>3. /\ target # Nil /\ target' # Nil /\ target.venv
        /\ target'.made = target.made /\ target'.venv = target.venv
        /\ target'.marker = target.marker
        /\ target'.pkg[p] = Ships[scripts[s].release][p] /\ target'.pkg[p] # Nil
        /\ \A q \in Package \ {p} : target'.pkg[q] = target.pkg[q]
        /\ OneMoves(s) /\ scripts[s].at = "packages" /\ scripts'[s].at = "packages"
    BY <1>0, <1>7, PackageIs
  <2>4. /\ ShippedOnly(scripts[s].release) => \A q \in Package :
             target'.pkg[q] \in {Nil, Ships[scripts[s].release][q]}
        /\ \A chosen \in SUBSET Optional : Filled(chosen) =>
             \A q \in Required \cup chosen : target'.pkg[q] # Nil
    BY <2>3 DEF ShippedOnly, Filled, Package
  <2>5. \A t \in Script : Works(t) => scripts[t].chosen \in SUBSET Optional
    BY <1>0 DEF BootstrapTypeOK, BootstrapRun, Works
  <2>6. ShippedOnly(scripts[s].release)
    BY <2>2 DEF OnItsTarget
  <2>7. OnItsTarget(s)'
    BY <2>2, <2>3, <2>4, <2>6 DEF OnItsTarget, OneMoves, ShippedOnly
  <2>8. ASSUME NEW t \in Script \ {s}, Works(t)' PROVE OnItsTarget(t)'
    <3>1. scripts'[t] = scripts[t] /\ Works(t) /\ OnItsTarget(t)
      BY <1>a, <2>1, <2>3, <2>8 DEF OneMoves, Works
    <3>2. scripts[t].release = scripts[s].release /\ scripts[t].chosen \in SUBSET Optional
      BY <2>2, <2>5, <3>1
    <3>3. scripts[t].at \in {"seen", "marked"} => Filled(scripts[t].chosen)
      BY <3>1 DEF OnItsTarget
    <3>4. ShippedOnly(scripts[t].release)' /\ (Filled(scripts[t].chosen) => Filled(scripts[t].chosen)')
      BY <2>4, <2>6, <3>1, <3>2 DEF ShippedOnly, Filled
    <3> QED BY <2>3, <3>1, <3>3, <3>4 DEF OnItsTarget
  <2>9. ASSUME NEW t \in Script, installed'[t] # Nil PROVE StillWhole(t)'
    <3>1. installed'[t] = installed[t] /\ StillWhole(t) /\ installed[t].release = scripts[s].release
      BY <1>a, <2>1, <2>2, <2>9
    <3>2. installed[t].chosen \in SUBSET Optional
      BY <1>0, <2>9, <3>1 DEF BootstrapTypeOK
    <3>3. ShippedOnly(installed[t].release)' /\ Filled(installed[t].chosen)'
      BY <2>4, <2>6, <3>1, <3>2 DEF ShippedOnly, Filled, StillWhole
    <3> QED BY <2>3, <3>1, <3>3 DEF StillWhole
  <2>10. \A t \in Script : scripts'[t] # Nil => scripts'[t].at # "removing"
    BY <2>2, <2>3 DEF OneMoves
  <2> QED BY <2>7, <2>8, <2>9, <2>10
<1>8. ASSUME NEW s \in Script, VerifyInstalled(s) PROVE Goal
  <2>1. UNCHANGED <<target, installed>> /\ Undisturbed /\ Works(s)
    BY <1>0, <1>8, VerifiedIs DEF Undisturbed, Works, OneMoves, ScriptShapes
  <2>2. target.venv /\ Filled(scripts[s].chosen)
    BY <1>0, <1>8, VerifiedIs DEF CompositionVerified, Filled, IsVenv
  <2>3. OnItsTarget(s)'
    BY <1>0, <1>8, <1>a, <2>1, <2>2, VerifiedIs DEF OnItsTarget, OneMoves, ShippedOnly, Filled
  <2> QED BY <1>0, <1>8, <1>a, <1>b, <2>1, <2>3, VerifiedIs DEF OneMoves
<1>9. ASSUME NEW s \in Script, WriteMarker(s) PROVE Goal
  <2>1. UNCHANGED installed /\ Undisturbed /\ Works(s)
    BY <1>0, <1>9, MarkerIs DEF Undisturbed, Works, OneMoves, ScriptShapes
  <2>2. /\ OnItsTarget(s)
        /\ \A t \in Script \ {s} : Works(t) => target.marker = scripts[s].release
        /\ \A t \in Script : installed[t] # Nil => target.marker = scripts[s].release
        /\ \A t \in Script : scripts[t] # Nil => scripts[t].at # "removing"
    BY <2>1, OneReleaseAtATime
  <2>3. /\ OneMoves(s) /\ scripts[s].at = "seen" /\ scripts'[s].at = "marked"
        /\ scripts'[s].verified = scripts[s].verified
        /\ SameDirectory /\ target'.marker = scripts[s].release /\ target'.venv = target.venv
    BY <1>0, <1>9, MarkerIs
  <2>4. OnItsTarget(s)'
    BY <2>2, <2>3 DEF OnItsTarget, SameDirectory, OneMoves, ShippedOnly, Filled
  <2>5. CASE \E t \in Script \ {s} : Works(t)
    BY <1>a, <1>c, <2>1, <2>2, <2>3, <2>4, <2>5 DEF SameDirectory, OneMoves
  <2>6. CASE \E t \in Script : installed[t] # Nil
    BY <1>a, <1>c, <2>1, <2>2, <2>3, <2>4, <2>6 DEF SameDirectory, OneMoves
  <2>7. CASE /\ \A t \in Script \ {s} : ~Works(t)
             /\ \A t \in Script : installed[t] = Nil
    <3>1. \A t \in Script \ {s} : ~Works(t)'
      BY <2>3, <2>7 DEF OneMoves, Works
    <3> QED BY <2>1, <2>2, <2>3, <2>4, <2>7, <3>1 DEF OneMoves
  <2> QED BY <2>5, <2>6, <2>7
<1>10. ASSUME NEW s \in Script, Complete(s) PROVE Goal
  <2>1. Undisturbed /\ Works(s)
    BY <1>0, <1>10, CompletedIs DEF Undisturbed, Works, ScriptShapes
  <2>2. OnItsTarget(s) /\ target # Nil
    BY <1>a, <2>1 DEF OnItsTarget
  <2>3. /\ target' # Nil /\ target'.made = target.made /\ target'.pkg = target.pkg
        /\ target'.marker = target.marker /\ target'.venv = target.venv
    BY <1>0, <1>10, <2>2, CompletedIs
  <2>4. /\ installed'[s].release = scripts[s].release /\ installed'[s].chosen = scripts[s].chosen
        /\ installed'[s].made = scripts[s].verified
        /\ scripts[s].at = "marked" /\ scripts'[s] = Nil
        /\ \A t \in Script \ {s} : scripts'[t] = scripts[t] /\ installed'[t] = installed[t]
    BY <1>0, <1>10, CompletedIs
  <2>5. StillWhole(s)'
    BY <2>2, <2>3, <2>4 DEF OnItsTarget, StillWhole, ShippedOnly, Filled
  <2>6. ~Works(s)'
    BY <2>4 DEF Works
  <2> QED BY <1>a, <1>c, <2>1, <2>2, <2>3, <2>4, <2>5, <2>6
<1>11. ASSUME NEW s \in Script, ScriptFails(s) PROVE Goal
  <2>1. UNCHANGED <<target, installed>> /\ Undisturbed
    BY <1>0, <1>11, FailsIs DEF Undisturbed
  <2>2. ~Works(s)' /\ \A t \in Script \ {s} : scripts'[t] = scripts[t]
    BY <1>0, <1>11, FailsIs DEF Works
  <2>3. scripts'[s] # Nil => scripts'[s].at # "removing"
    BY <1>0, <1>11, FailsIs
  <2> QED BY <1>a, <1>b, <2>1, <2>2, <2>3
<1>d. ASSUME NEW s \in Script, scripts[s] # Nil, scripts[s].nonce # 0, ~Works(s), target # Nil,
             target.made = scripts[s].nonce, target.marker = Nil, Undisturbed
      PROVE  /\ \A t \in Script : ~Works(t)
             /\ \A t \in Script : installed[t] = Nil
  <2>1. ASSUME NEW t \in Script, Works(t) PROVE FALSE
    <3>1. t # s /\ OnItsTarget(t) /\ scripts[t] # Nil /\ scripts[t].release # Nil
      BY <1>0, <1>a, <1>d, <2>1, NilIsNone DEF Works, BootstrapTypeOK, BootstrapRun
    <3>2. target.made = scripts[t].nonce /\ scripts[t].nonce # 0
      BY <1>d, <3>1 DEF OnItsTarget
    <3> QED BY <1>0, <1>d, <3>1, <3>2 DEF NoncesAreOwn
  <2>2. ASSUME NEW t \in Script, installed[t] # Nil PROVE FALSE
    <3>1. installed[t].release # Nil /\ target.marker = installed[t].release
      BY <1>0, <1>a, <1>d, <2>2, NilIsNone DEF BootstrapTypeOK, StillWhole
    <3> QED BY <1>d, <3>1
  <2> QED BY <2>1, <2>2
<1>12. ASSUME NEW s \in Script, BeginRemoval(s) PROVE Goal
  <2>1. /\ OneMoves(s) /\ scripts[s].at = "failed" /\ scripts'[s].at = "removing"
        /\ Owns(s) /\ target # Nil /\ target'.marker \in {target.marker, Nil}
        /\ withdrawn' = (withdrawn \/ target.marker # Nil)
        /\ UNCHANGED <<installed, meddled>>
    BY <1>0, <1>12, RemovalIs
  <2>2. Undisturbed /\ target.marker = Nil
    BY <2>1 DEF Undisturbed
  <2>3. ~Works(s) /\ ~Works(s)' /\ scripts[s] # Nil /\ \A t \in Script \ {s} : scripts'[t] = scripts[t]
    BY <2>1 DEF Works, OneMoves
  <2>4. scripts[s].nonce # 0 /\ target.made = scripts[s].nonce
    BY <1>0, <2>1 DEF Owns, NoncesAreOwn
  <2>5. /\ \A t \in Script : ~Works(t)
        /\ \A t \in Script : installed[t] = Nil
    BY <1>d, <2>1, <2>2, <2>3, <2>4
  <2>6. \A t \in Script : ~Works(t)'
    BY <2>3, <2>5 DEF Works
  <2> QED BY <2>1, <2>2, <2>5, <2>6
<1>13. ASSUME NEW s \in Script, EndRemoval(s) \/ ScriptEnds(s) PROVE Goal
  <2>1. /\ scripts[s] # Nil /\ scripts'[s] = Nil
        /\ \A t \in Script \ {s} : scripts'[t] = scripts[t]
        /\ UNCHANGED installed /\ Undisturbed
    BY <1>0, <1>13, EndsIs DEF Undisturbed
  <2>2. ~Works(s)'
    BY <2>1 DEF Works
  <2>3. CASE UNCHANGED target
    BY <1>a, <1>b, <2>1, <2>2, <2>3
  <2>4. CASE scripts[s].at = "removing"
    <3>1. target # Nil /\ target.made = scripts[s].nonce /\ scripts[s].nonce # 0
          /\ target.marker = Nil /\ ~Works(s)
      BY <1>0, <1>a, <2>1, <2>4 DEF NoncesAreOwn, ScriptShapes, Works
    <3>2. \A t \in Script \ {s} : scripts[t] # Nil => scripts[t].at # "removing"
      BY <1>0, <2>1, <3>1 DEF NoncesAreOwn, ScriptShapes
    <3>3. /\ \A t \in Script : ~Works(t)
          /\ \A t \in Script : installed[t] = Nil
      BY <1>d, <2>1, <3>1
    <3>4. \A t \in Script : ~Works(t)'
      BY <2>1, <2>2, <3>3 DEF Works
    <3> QED BY <2>1, <3>2, <3>3, <3>4
  <2> QED BY <1>0, <1>13, <2>3, <2>4, EndsIs
<1>14. ASSUME Meddle PROVE Goal
  BY <1>0, <1>14, MeddledIs DEF Undisturbed
<1>15. ASSUME UNCHANGED bootstrapVars PROVE Goal
  BY <1>15, <1>a, <1>b DEF bootstrapVars, Undisturbed
<1> QED
  BY <1>1, <1>2, <1>3, <1>4, <1>5, <1>6, <1>7, <1>8, <1>9, <1>10, <1>11, <1>12, <1>13, <1>14,
     <1>15 DEF BootstrapNext

LEMMA BootstrapInvInit == BootstrapInit => BootstrapInv
<1> SUFFICES ASSUME BootstrapInit PROVE BootstrapInv
  OBVIOUS
<1> USE BootstrapAssumption
<1>1. /\ target \in Found /\ made = 0 /\ meddled = 0 /\ withdrawn = FALSE
      /\ \A s \in Script : scripts[s] = Nil /\ installed[s] = Nil
  BY DEF BootstrapInit
<1>2. BootstrapTypeOK
  <2>1. 0 \in 0..MaxMade /\ 0 \in 0..MaxMeddling
    OBVIOUS
  <2>2. target \in Environment \cup {Nil}
    BY <1>1
  <2> QED BY <1>1, <2>1, <2>2 DEF BootstrapInit, BootstrapTypeOK
<1>3. ScriptShapes /\ TargetsKept
  BY <1>1 DEF ScriptShapes, TargetsKept, Works
<1>4. NoncesAreOwn
  BY <1>1 DEF NoncesAreOwn
<1> QED BY <1>2, <1>3, <1>4 DEF BootstrapInv

LEMMA BootstrapInvStep == BootstrapInv /\ [BootstrapNext]_bootstrapVars => BootstrapInv'
<1> SUFFICES ASSUME BootstrapInv, [BootstrapNext]_bootstrapVars PROVE BootstrapInv'
  OBVIOUS
<1>1. BootstrapTypeOK /\ ScriptShapes /\ NoncesAreOwn
  BY DEF BootstrapInv
<1> QED BY <1>1, BootstrapTypesStep, ShapesStep, NoncesStep, KeptStep DEF BootstrapInv

LEMMA BootstrapAlways == ShellSpec => []BootstrapInv
<1>1. ShellInit => BootstrapInv
  BY FamiliesAlone, BootstrapInvInit
<1>2. BootstrapInv /\ [ShellNext]_shellVars => BootstrapInv'
  BY FamiliesAlone, BootstrapInvStep
<1> QED BY <1>1, <1>2, PTL DEF ShellSpec

\* What a step takes away, or begins to, is what one script made.
LEMMA RemovesItsOwn ==
  ASSUME BootstrapInv, [BootstrapNext]_bootstrapVars, target # Nil, meddled' = meddled,
         target' = Nil \/ target'.spoilt # target.spoilt
  PROVE  \E s \in Script : scripts[s] # Nil /\ scripts[s].nonce = target.made
<1>0. BootstrapTypeOK /\ ScriptShapes /\ NoncesAreOwn
  BY DEF BootstrapInv
<1>1. ASSUME NEW s \in Script, BeginRemoval(s)
      PROVE  scripts[s] # Nil /\ scripts[s].nonce = target.made
  BY <1>0, <1>1, RemovalIs DEF Owns, NoncesAreOwn, OneMoves
<1>2. ASSUME NEW s \in Script, EndRemoval(s) \/ ScriptEnds(s)
      PROVE  scripts[s] # Nil /\ scripts[s].nonce = target.made
  BY <1>0, <1>2, EndsIs DEF NoncesAreOwn
<1>3. ASSUME NEW s \in Script, ~BeginRemoval(s), ~EndRemoval(s), ~ScriptEnds(s),
             \/ \E order \in Orders : PlanTarget(s, order)
             \/ PrepareArtifacts(s)
             \/ MakeTargetRoot(s) \/ MakeVenv(s) \/ KeepTarget(s)
             \/ InstallPip(s)
             \/ \E p \in Package : InstallPackage(s, p)
             \/ VerifyInstalled(s) \/ WriteMarker(s) \/ Complete(s)
             \/ ScriptFails(s)
      PROVE  target' # Nil /\ target'.spoilt = target.spoilt
  BY <1>0, <1>3, PlannedIs, PreparedIs, RootedIs, VenvIs, PipIs, PackageIs, VerifiedIs, MarkerIs,
     CompletedIs, FailsIs DEF KeepTarget, SameDirectory
<1>4. ~Meddle
  BY <1>0, MeddledIs
<1>5. ~UNCHANGED bootstrapVars
  BY DEF bootstrapVars
<1> QED BY <1>1, <1>2, <1>3, <1>4, <1>5 DEF BootstrapNext

\* What is there stays, in the directory it is in.
LEMMA ReplacesNothing ==
  ASSUME BootstrapInv, [BootstrapNext]_bootstrapVars, target # Nil, target' # Nil, Undisturbed,
         ~target'.spoilt
  PROVE  /\ target'.made = target.made
         /\ \A p \in Package : target.pkg[p] # Nil => target'.pkg[p] = target.pkg[p]
<1> DEFINE Goal == /\ target'.made = target.made
                   /\ \A p \in Package : target.pkg[p] # Nil => target'.pkg[p] = target.pkg[p]
<1>0. BootstrapTypeOK /\ ScriptShapes
  BY DEF BootstrapInv
<1>1. ASSUME NEW s \in Script, NEW p \in Package, InstallPackage(s, p)
      PROVE  Goal
  <2>1. Works(s)
    BY <1>0, <1>1, PackageIs DEF Works, OneMoves, ScriptShapes
  <2>2. target.pkg[p] \in {Nil, Ships[scripts[s].release][p]}
    BY <2>1, OneReleaseAtATime DEF OnItsTarget, ShippedOnly
  <2> QED BY <1>0, <1>1, <2>2, PackageIs
<1>2. ASSUME NEW s \in Script,
             \/ \E order \in Orders : PlanTarget(s, order)
             \/ PrepareArtifacts(s)
             \/ MakeTargetRoot(s) \/ MakeVenv(s) \/ KeepTarget(s)
             \/ InstallPip(s)
             \/ VerifyInstalled(s) \/ WriteMarker(s) \/ Complete(s)
             \/ ScriptFails(s)
      PROVE  Goal
  BY <1>0, <1>2, PlannedIs, PreparedIs, RootedIs, VenvIs, PipIs, VerifiedIs, MarkerIs,
     CompletedIs, FailsIs DEF KeepTarget, SameDirectory
<1>3. ASSUME NEW s \in Script, BeginRemoval(s) \/ EndRemoval(s) \/ ScriptEnds(s)
      PROVE  Goal
  BY <1>0, <1>3, RemovalIs, EndsIs
<1>4. ASSUME Meddle PROVE Goal
  BY <1>0, <1>4, MeddledIs
<1>5. ASSUME UNCHANGED bootstrapVars PROVE Goal
  BY <1>5 DEF bootstrapVars
<1> QED BY <1>1, <1>2, <1>3, <1>4, <1>5 DEF BootstrapNext

LEMMA WholeMeansDone == BootstrapInv => RerunHasNothingToDo
<1> SUFFICES ASSUME BootstrapInv, NEW s \in Script, installed[s] # Nil, Undisturbed
             PROVE  /\ target # Nil /\ target.made = installed[s].made
                    /\ CanBootstrap(installed[s].release)
                    /\ Missing(installed[s].release, installed[s].chosen) = {}
  BY DEF RerunHasNothingToDo
<1>1. StillWhole(s)
  BY DEF BootstrapInv, TargetsKept
<1> QED
  BY <1>1 DEF StillWhole, CanBootstrap, EnvironmentRight, PackagesRight, Observed, IsVenv, Missing,
     ShippedOnly, Filled

\* Whatever number of scripts make, adopt, fill, verify, mark and remove one target
\* path at once: each removes only the directory it made, none replaces a package
\* that is there, and what was reported as completed is whole when it is planned
\* again (bootstrap_windows.ps1 with
\* bootstrap.py and bootstrap_installation.py).
THEOREM EnvironmentsAreOwnAndWhole == ShellSpec => EnvironmentsStand
<1>1. BootstrapInv /\ [ShellNext]_shellVars =>
        [target # Nil /\ meddled' = meddled /\ (target' = Nil \/ target'.spoilt # target.spoilt) =>
           \E s \in Script : scripts[s] # Nil /\ scripts[s].nonce = target.made]_bootstrapVars
  BY FamiliesAlone, RemovesItsOwn
<1>2. BootstrapInv /\ [ShellNext]_shellVars =>
        [target # Nil /\ target' # Nil /\ Undisturbed /\ ~target'.spoilt =>
           /\ target'.made = target.made
           /\ \A p \in Package : target.pkg[p] # Nil =>
                target'.pkg[p] = target.pkg[p]]_bootstrapVars
  BY FamiliesAlone, ReplacesNothing
<1>3. ShellSpec => OwnRemovedOnly
  BY <1>1, BootstrapAlways, PTL DEF ShellSpec, OwnRemovedOnly
<1>4. ShellSpec => NothingReplaced
  BY <1>2, BootstrapAlways, PTL DEF ShellSpec, NothingReplaced
<1>5. ShellSpec => []RerunHasNothingToDo
  BY WholeMeansDone, BootstrapAlways, PTL
<1> QED BY <1>3, <1>4, <1>5, PTL DEF EnvironmentsStand

-----------------------------------------------------------------------------
(* The guided setup.                                                       *)

\* What completing an item leaves, as CompletedStands has it.
Stands(s, i) ==
  CASE i.kind = "year"      -> core.year = Wish(s).year
    [] i.kind = "class"     -> core.class[i.class] = Wish(s).year
    [] i.kind = "roster"    -> core.roster[i.class] = setup[s].offered[i.class]
    [] i.kind = "standards" -> Wish(s).pack \in core.standards
    [] i.kind = "periods"   -> core.periods[Wish(s).year] = Nothing => Wish(s).calendar = Nothing

TheYear == Of("year", Nothing)

\* A reviewed setup knows what its items rest on, but for what was disturbed; one
\* that is applied has passed its review, and its own writes block nothing.
ReviewedRight(s) ==
  setup[s].at = "reviewed" =>
    /\ setup[s].left = Items(Wish(s))
    /\ \A i \in Items(Wish(s)) \ setup[s].disturbed :
         Basis(core, Wish(s), i) = Basis(setup[s].seen, Wish(s), i)

ApplyingRight(s) ==
  setup[s].at = "applying" =>
    /\ setup[s].left \subseteq Items(Wish(s))
    /\ CanApply(setup[s].seen, setup[s].offered, Wish(s))
    /\ \A i \in Items(Wish(s)) \ setup[s].disturbed :
         Action(core, setup[s].offered, Wish(s), i) \notin Blocking
    /\ \A i \in Items(Wish(s)) \ setup[s].left : i \in setup[s].disturbed \/ Stands(s, i)
    /\ TheYear \notin setup[s].left => core.year = Wish(s).year

SessionRight(s) == setup[s] # Nothing => ReviewedRight(s) /\ ApplyingRight(s)

ClassroomInv ==
  /\ ClassroomTypeOK
  /\ ClassesOfOneYear
  /\ \A s \in Session : SessionRight(s)

LEMMA ItemsAre ==
  ASSUME NEW wish \in SetupChoices, NEW i \in Items(wish)
  PROVE  /\ i \in Item /\ i.kind \in Kind
         /\ i.kind = "year" => i = TheYear
         /\ i.kind = "class" => i.class \in wish.classes /\ i.class \in Class
         /\ i.kind = "roster" => i.class \in wish.rosters /\ i.class \in Class
         /\ i.kind = "roster" => Of("class", i.class) \in Items(wish)
         /\ i.kind = "standards" => wish.pack \in Pack
         /\ \A j \in Items(wish) : i.kind = j.kind /\ i.class = j.class => i = j
         /\ \A j \in Items(wish) : i.kind = j.kind /\ i.kind \notin {"class", "roster"} => i = j
<1>1. /\ wish.classes \subseteq Class /\ wish.rosters \subseteq wish.classes
      /\ wish.pack \in Pack \cup {Nothing}
  BY DEF SetupChoices
<1>2. \A j \in Items(wish) :
        \/ j = Of("year", Nothing)
        \/ \E c \in wish.classes : j = Of("class", c)
        \/ \E c \in wish.rosters : j = Of("roster", c)
        \/ j = Of("standards", Nothing) /\ wish.pack \in Pack
        \/ j = Of("periods", Nothing)
  BY <1>1 DEF Items
<1>3. \A c \in wish.classes : Of("class", c) \in Items(wish)
  BY DEF Items
<1>4. \A j \in Items(wish) : j \in Item
  BY <1>1, <1>2 DEF Item, Kind, Of
<1>5. i.kind = "roster" => i.class \in wish.rosters /\ i.class \in Class
                           /\ Of("class", i.class) \in Items(wish)
  BY <1>1, <1>2, <1>3 DEF Of
<1>6. i.kind = "class" => i.class \in wish.classes /\ i.class \in Class
  BY <1>1, <1>2 DEF Of
<1>7. /\ i.kind = "year" => i = TheYear
      /\ i.kind = "standards" => wish.pack \in Pack
      /\ i.kind \in Kind
  BY <1>1, <1>2 DEF Of, TheYear, Kind
<1>8. \A j \in Items(wish) : i.kind = j.kind /\ i.class = j.class => i = j
  BY <1>4 DEF Item
<1>9. \A j \in Items(wish) : i.kind = j.kind /\ i.kind \notin {"class", "roster"} => i = j
  BY <1>2 DEF Of
<1> QED BY <1>4, <1>5, <1>6, <1>7, <1>8, <1>9

\* What is to be done with an item, and whether it stands, is read from its basis.
LEMMA ReadFromBasis ==
  ASSUME NEW wish \in SetupChoices, NEW i \in Items(wish), NEW offered,
         NEW held \in Core, NEW later \in Core, Basis(held, wish, i) = Basis(later, wish, i)
  PROVE  Action(held, offered, wish, i) = Action(later, offered, wish, i)
<1>1. i.kind \in Kind
  BY ItemsAre
<1>2. CASE i.kind = "year"
  BY <1>2 DEF Basis, Action, SchoolYearDisposition
<1>3. CASE i.kind = "class"
  <2>1. held.class[i.class] = later.class[i.class] /\ held.roster[i.class] = later.roster[i.class]
    BY <1>3 DEF Basis
  <2> QED BY <1>3, <2>1 DEF Action, ClassDisposition
<1>4. CASE i.kind = "roster"
  BY <1>4 DEF Basis, Action, RosterAction
<1>5. CASE i.kind = "standards"
  BY <1>5 DEF Basis, Action, StandardsAction
<1>6. CASE i.kind = "periods"
  BY <1>6 DEF Basis, Action, AcademicPeriodAction
<1> QED BY <1>1, <1>2, <1>3, <1>4, <1>5, <1>6 DEF Kind

LEMMA StandsByBasis ==
  ASSUME NEW s \in Session, Wish(s) \in SetupChoices, Wish(s)' = Wish(s),
         setup'[s].offered = setup[s].offered, NEW i \in Items(Wish(s)),
         Basis(core, Wish(s), i) = Basis(core', Wish(s), i)
  PROVE  Stands(s, i) => Stands(s, i)'
<1>1. i.kind \in Kind
  BY ItemsAre
<1>2. CASE i.kind = "year"
  BY <1>2 DEF Basis, Stands
<1>3. CASE i.kind = "class"
  <2>1. core.class[i.class] = core'.class[i.class]
    BY <1>3 DEF Basis
  <2> QED BY <1>3, <2>1 DEF Stands
<1>4. CASE i.kind = "roster"
  BY <1>4 DEF Basis, Stands
<1>5. CASE i.kind = "standards"
  BY <1>5 DEF Basis, Stands
<1>6. CASE i.kind = "periods"
  BY <1>6 DEF Basis, Stands
<1> QED BY <1>1, <1>2, <1>3, <1>4, <1>5, <1>6 DEF Kind

LEMMA SetupIs ==
  ASSUME ClassroomTypeOK, NEW s \in Session, setup[s] # Nothing
  PROVE  /\ setup[s] \in Setup /\ Wish(s) \in SetupChoices
         /\ setup[s].seen \in Core /\ setup[s].offered \in [Class -> Roster]
         /\ setup[s].left \subseteq Item /\ setup[s].written \subseteq Item
         /\ Items(Wish(s)) \subseteq Item
         /\ setup[s].at \in {"reviewed", "applying"}
<1>1. setup[s] \in Setup
  BY DEF ClassroomTypeOK
<1>2. Wish(s) \in SetupChoices
  BY <1>1 DEF Wish, Setup
<1>3. Items(Wish(s)) \subseteq Item
  BY <1>2, ItemsAre
<1> QED BY <1>1, <1>2, <1>3 DEF Setup

\* A change of Core is noted with the sessions whose items it touches.
LEMMA DisturbedIs ==
  ASSUME ClassroomTypeOK, NEW writer, NEW held \in Core
  PROVE  /\ Disturbed(writer, held) \in [Session -> Setup \cup {Nothing}]
         /\ \A s \in Session : setup[s] = Nothing \/ s = writer =>
              Disturbed(writer, held)[s] = setup[s]
         /\ \A s \in Session : setup[s] # Nothing /\ s # writer =>
              LET new == Disturbed(writer, held)[s] IN
              /\ new \in Setup
              /\ new.at = setup[s].at /\ new.wish = setup[s].wish /\ new.seen = setup[s].seen
              /\ new.offered = setup[s].offered /\ new.left = setup[s].left
              /\ new.written = setup[s].written
              /\ new.disturbed = setup[s].disturbed \cup
                   {i \in Items(Wish(s)) : Basis(core, Wish(s), i) # Basis(held, Wish(s), i)}
<1>1. ASSUME NEW s \in Session, setup[s] = Nothing \/ s = writer
      PROVE  Disturbed(writer, held)[s] = setup[s] /\ setup[s] \in Setup \cup {Nothing}
  BY <1>1 DEF Disturbed, ClassroomTypeOK
<1>2. ASSUME NEW s \in Session, setup[s] # Nothing, s # writer
      PROVE  LET new == Disturbed(writer, held)[s] IN
             /\ new \in Setup
             /\ new.at = setup[s].at /\ new.wish = setup[s].wish /\ new.seen = setup[s].seen
             /\ new.offered = setup[s].offered /\ new.left = setup[s].left
             /\ new.written = setup[s].written
             /\ new.disturbed = setup[s].disturbed \cup
                  {i \in Items(Wish(s)) : Basis(core, Wish(s), i) # Basis(held, Wish(s), i)}
  <2> DEFINE touched ==
        {i \in Items(Wish(s)) : Basis(core, Wish(s), i) # Basis(held, Wish(s), i)}
  <2>1. Disturbed(writer, held)[s] =
          [setup[s] EXCEPT !.disturbed = setup[s].disturbed \cup touched]
    BY <1>2 DEF Disturbed
  <2>2. touched \subseteq Item /\ setup[s] \in Setup
    BY <1>2, SetupIs
  <2> HIDE DEF touched
  <2>3. [setup[s] EXCEPT !.disturbed = setup[s].disturbed \cup touched] \in Setup
    BY <2>2 DEF Setup
  <2> QED BY <2>1, <2>2, <2>3 DEF touched, Setup
<1>3. Disturbed(writer, held) \in [Session -> Setup \cup {Nothing}]
  <2>1. \A s \in Session : Disturbed(writer, held)[s] \in Setup \cup {Nothing}
    BY <1>1, <1>2
  <2> QED BY <2>1 DEF Disturbed
<1> QED BY <1>1, <1>2, <1>3

\* What a session knows and has completed survives a change that is noted with it.
LEMMA SessionStays ==
  ASSUME ClassroomTypeOK, core' \in Core, NEW s \in Session, setup[s] # Nothing, SessionRight(s),
         setup'[s].at = setup[s].at, Wish(s)' = Wish(s), setup'[s].seen = setup[s].seen,
         setup'[s].offered = setup[s].offered, setup'[s].left = setup[s].left,
         setup'[s].disturbed = setup[s].disturbed \cup
           {i \in Items(Wish(s)) : Basis(core, Wish(s), i) # Basis(core', Wish(s), i)},
         core.year # Nothing => core'.year = core.year
  PROVE  SessionRight(s)'
<1>1. Wish(s) \in SetupChoices /\ core \in Core
  BY SetupIs DEF ClassroomTypeOK
<1>2. \A i \in Items(Wish(s)) : i \notin setup'[s].disturbed =>
        i \notin setup[s].disturbed /\ Basis(core, Wish(s), i) = Basis(core', Wish(s), i)
  OBVIOUS
<1>3. ReviewedRight(s)'
  BY <1>2 DEF SessionRight, ReviewedRight
<1>4. CASE setup[s].at = "applying"
  <2>1. \A i \in Items(Wish(s)) : i \notin setup'[s].disturbed =>
          Action(core', setup[s].offered, Wish(s), i) = Action(core, setup[s].offered, Wish(s), i)
    BY <1>1, <1>2, ReadFromBasis
  <2>2. \A i \in Items(Wish(s)) : i \notin setup'[s].disturbed => (Stands(s, i) => Stands(s, i)')
    BY <1>1, <1>2, StandsByBasis
  <2>3. TheYear \notin setup[s].left => core'.year = Wish(s).year
    <3>1. Wish(s).year \in Year
      BY <1>1 DEF SetupChoices
    <3> QED BY <1>4, <3>1, ClassroomAssumption DEF SessionRight, ApplyingRight
  <2> QED BY <1>2, <1>3, <1>4, <2>1, <2>2, <2>3 DEF SessionRight, ApplyingRight
<1> QED BY <1>3, <1>4 DEF SessionRight, ApplyingRight

\* One Core write: its own session notes it, the others are disturbed by it.
LEMMA WriteIs ==
  ASSUME ClassroomTypeOK, NEW s \in Session, setup[s] # Nothing, NEW i \in Item,
         NEW held \in Core, NEW noted \in SUBSET Item, Write(s, i, held, noted)
  PROVE  /\ ClassroomTypeOK' /\ core' = held
         /\ setup'[s] # Nothing /\ setup'[s].at = setup[s].at /\ Wish(s)' = Wish(s)
         /\ setup'[s].seen = setup[s].seen /\ setup'[s].offered = setup[s].offered
         /\ setup'[s].left = setup[s].left /\ setup'[s].disturbed = setup[s].disturbed
         /\ \A t \in Session \ {s} : setup'[t] = Disturbed(s, held)[t]
<1> DEFINE D == Disturbed(s, held)
           new == [D[s] EXCEPT !.written = @ \cup {i}, !.changed = @ \cup noted]
<1>1. /\ D \in [Session -> Setup \cup {Nothing}] /\ D[s] = setup[s] /\ setup[s] \in Setup
  BY DisturbedIs, SetupIs
<1>2. /\ core' = held /\ UNCHANGED <<source, omitted, outside>>
      /\ setup' = [D EXCEPT ![s].written = @ \cup {i}, ![s].changed = @ \cup noted]
  BY DEF Write
<1> HIDE DEF D
<1>3. setup' = [D EXCEPT ![s] = new]
  BY <1>1, <1>2
<1>4. /\ new \in Setup /\ new.at = setup[s].at /\ new.wish = setup[s].wish
      /\ new.seen = setup[s].seen /\ new.offered = setup[s].offered
      /\ new.left = setup[s].left /\ new.disturbed = setup[s].disturbed
  BY <1>1 DEF Setup
<1> HIDE DEF new
<1>5. setup'[s] = new /\ \A t \in Session \ {s} : setup'[t] = D[t]
  BY <1>1, <1>3
<1>6. setup' \in [Session -> Setup \cup {Nothing}]
  BY <1>1, <1>3, <1>4
<1>7. new # Nothing
  BY <1>4, ClassroomAssumption
<1> QED BY <1>2, <1>4, <1>5, <1>6, <1>7 DEF ClassroomTypeOK, Wish, D

\* The other sessions' part of a Core write.
LEMMA OthersStay ==
  ASSUME ClassroomInv, NEW writer, NEW held \in Core, core' = held,
         NEW t \in Session, t # writer, setup'[t] = Disturbed(writer, held)[t],
         core.year # Nothing => core'.year = core.year
  PROVE  SessionRight(t)'
<1>1. ClassroomTypeOK /\ SessionRight(t)
  BY DEF ClassroomInv
<1>2. CASE setup[t] = Nothing
  BY <1>1, <1>2, DisturbedIs DEF SessionRight
<1>3. CASE setup[t] # Nothing
  <2>1. /\ setup'[t].at = setup[t].at /\ setup'[t].wish = setup[t].wish
        /\ setup'[t].seen = setup[t].seen
        /\ setup'[t].offered = setup[t].offered /\ setup'[t].left = setup[t].left
        /\ setup'[t].disturbed = setup[t].disturbed \cup
             {i \in Items(Wish(t)) : Basis(core, Wish(t), i) # Basis(held, Wish(t), i)}
    BY <1>1, <1>3, DisturbedIs
  <2>2. Wish(t)' = Wish(t)
    BY <2>1 DEF Wish
  <2> QED BY <1>1, <1>3, <2>1, <2>2, SessionStays
<1> QED BY <1>2, <1>3

\* A write of a session's own blocks nothing and undoes nothing of what is complete.
LEMMA OwnWrite ==
  ASSUME ClassroomInv, NEW s \in Session, setup[s] # Nothing, setup[s].at = "applying",
         NEW i \in setup[s].left,
         NEW held \in Core, NEW noted \in SUBSET Item, Write(s, i, held, noted),
         core.year # Nothing => held.year = core.year,
         ClassesOfOneYear',
         \A j \in Items(Wish(s)) : j \notin setup[s].disturbed =>
           \/ Basis(core, Wish(s), j) = Basis(held, Wish(s), j)
           \/ /\ Action(held, setup[s].offered, Wish(s), j) \notin Blocking
              /\ j \in setup[s].left \/ Stands(s, j)'
  PROVE  ClassroomInv'
<1>1. ClassroomTypeOK /\ SessionRight(s) /\ Wish(s) \in SetupChoices /\ i \in Item /\ core \in Core
  BY SetupIs DEF ClassroomInv, ClassroomTypeOK
<1>2. /\ ClassroomTypeOK' /\ core' = held
      /\ setup'[s] # Nothing /\ setup'[s].at = "applying" /\ Wish(s)' = Wish(s)
      /\ setup'[s].seen = setup[s].seen /\ setup'[s].offered = setup[s].offered
      /\ setup'[s].left = setup[s].left /\ setup'[s].disturbed = setup[s].disturbed
      /\ \A t \in Session \ {s} : setup'[t] = Disturbed(s, held)[t]
  BY <1>1, WriteIs
<1>3. \A t \in Session \ {s} : SessionRight(t)'
  BY <1>2, OthersStay
<1>4. ApplyingRight(s)
  BY <1>1 DEF SessionRight
<1>5. \A j \in Items(Wish(s)) : j \notin setup[s].disturbed =>
        Action(core', setup[s].offered, Wish(s), j) \notin Blocking
  BY <1>1, <1>2, <1>4, ReadFromBasis DEF ApplyingRight
<1>6. \A j \in Items(Wish(s)) \ setup[s].left : j \in setup[s].disturbed \/ Stands(s, j)'
  BY <1>1, <1>2, <1>4, StandsByBasis DEF ApplyingRight
<1>7. TheYear \notin setup[s].left => core'.year = Wish(s).year
  <2>1. Wish(s).year # Nothing
    BY <1>1, ClassroomAssumption DEF SetupChoices
  <2> QED BY <1>2, <1>4, <2>1 DEF ApplyingRight
<1>8. SessionRight(s)'
  BY <1>2, <1>4, <1>5, <1>6, <1>7 DEF SessionRight, ReviewedRight, ApplyingRight
<1> QED BY <1>2, <1>3, <1>8 DEF ClassroomInv

\* When an item has its turn, those of the domains before it are complete.
LEMMA TurnIs ==
  ASSUME ClassroomInv, NEW s \in Session, NEW kind \in Kind, NEW i, Turn(s, kind, i)
  PROVE  /\ setup[s] # Nothing /\ setup[s].at = "applying" /\ ApplyingRight(s)
         /\ Wish(s) \in SetupChoices /\ Wish(s).year \in Year /\ Wish(s).year # Nothing
         /\ i \in setup[s].left /\ i \in Items(Wish(s)) /\ i.kind = kind
         /\ kind # "year" => TheYear \notin setup[s].left
         /\ kind = "roster" => \A c \in Class : Of("class", c) \notin setup[s].left
         /\ core \in Core
<1>1. /\ setup[s] # Nothing /\ setup[s].at = "applying"
      /\ i \in setup[s].left /\ i.kind = kind
      /\ \A j \in setup[s].left : Rank[kind] <= Rank[j.kind]
  BY DEF Turn
<1>2. ClassroomTypeOK /\ ApplyingRight(s) /\ Wish(s) \in SetupChoices /\ core \in Core
  BY <1>1, SetupIs DEF ClassroomInv, SessionRight, ClassroomTypeOK
<1>3. Wish(s).year \in Year /\ Wish(s).year # Nothing
  BY <1>2, ClassroomAssumption DEF SetupChoices
<1>4. /\ Rank["year"] = 1 /\ Rank["class"] = 2 /\ Rank["roster"] = 3
      /\ Rank["standards"] = 4 /\ Rank["periods"] = 5
  BY DEF Rank, Kind
<1>5. TheYear.kind = "year" /\ \A c \in Class : Of("class", c).kind = "class"
  BY DEF TheYear, Of
<1>6. kind # "year" => TheYear \notin setup[s].left
  BY <1>1, <1>4, <1>5 DEF Kind
<1>7. kind = "roster" => \A c \in Class : Of("class", c) \notin setup[s].left
  BY <1>1, <1>4, <1>5
<1> QED BY <1>1, <1>2, <1>3, <1>6, <1>7 DEF ApplyingRight

LEMMA YearWrite ==
  ASSUME ClassroomInv, NEW s \in Session, NEW i \in Item, OpenSchoolYear(s, i)
  PROVE  ClassroomInv'
<1> DEFINE held == [core EXCEPT !.year = Wish(s).year]
<1>1. Turn(s, "year", i) /\ core.year = Nothing /\ Write(s, i, held, {i})
  BY DEF OpenSchoolYear, MustWrite, YearFree
<1>2. "year" \in Kind
  BY DEF Kind
<1>3. /\ setup[s] # Nothing /\ setup[s].at = "applying" /\ i \in setup[s].left
      /\ Wish(s) \in SetupChoices /\ Wish(s).year \in Year /\ core \in Core
      /\ i \in Items(Wish(s)) /\ i.kind = "year"
  BY <1>1, <1>2, TurnIs
<1>4. /\ held \in Core /\ held.year = Wish(s).year /\ held.class = core.class
      /\ held.roster = core.roster /\ held.standards = core.standards
      /\ held.periods = core.periods
  BY <1>3 DEF Core
<1> HIDE DEF held
<1>5. ASSUME NEW j \in Items(Wish(s))
      PROVE  \/ Basis(core, Wish(s), j) = Basis(held, Wish(s), j)
             \/ /\ Action(held, setup[s].offered, Wish(s), j) \notin Blocking
                /\ j \in setup[s].left
  <2>1. CASE j.kind = "year"
    <3>1. j = i
      BY <1>3, <2>1, ItemsAre
    <3>2. Action(held, setup[s].offered, Wish(s), j) = "EXISTING_MATCH"
      <4>1. held.year # Nothing
        BY <1>3, <1>4, ClassroomAssumption
      <4> QED BY <1>4, <2>1, <4>1 DEF Action, SchoolYearDisposition
    <3> QED BY <1>3, <3>1, <3>2 DEF Blocking
  <2>2. CASE j.kind # "year"
    <3>1. j.kind \in {"class", "roster", "standards", "periods"}
      BY <1>3, <2>2, ItemsAre DEF Kind
    <3> QED BY <1>4, <3>1 DEF Basis
  <2> QED BY <2>1, <2>2
<1>6. ClassesOfOneYear'
  <2>1. core' = held /\ \A c \in Class : core.class[c] = Nothing
    BY <1>1 DEF Write, ClassroomInv, ClassesOfOneYear
  <2> QED BY <1>4, <2>1 DEF ClassesOfOneYear
<1> QED BY <1>1, <1>3, <1>4, <1>5, <1>6, OwnWrite

LEMMA ClassWrite ==
  ASSUME ClassroomInv, NEW s \in Session, NEW i \in Item, CreateClass(s, i)
  PROVE  ClassroomInv'
<1> DEFINE new == [core.class EXCEPT ![i.class] = Wish(s).year]
           held == [core EXCEPT !.class = new]
<1>1. Turn(s, "class", i) /\ core.class[i.class] = Nothing /\ Write(s, i, held, {i})
  BY DEF CreateClass, MustWrite
<1>2. "class" \in Kind
  BY DEF Kind
<1>3. /\ setup[s] # Nothing /\ setup[s].at = "applying" /\ i \in setup[s].left
      /\ Wish(s) \in SetupChoices /\ Wish(s).year \in Year /\ Wish(s).year # Nothing
      /\ core \in Core
      /\ i \in Items(Wish(s)) /\ i.kind = "class" /\ core.year = Wish(s).year
  BY <1>1, <1>2, TurnIs DEF ApplyingRight
<1>4. i.class \in Class /\ core.class \in [Class -> Year \cup {Nothing}]
  BY <1>3, ItemsAre DEF Core
<1>5. /\ new \in [Class -> Year \cup {Nothing}] /\ new[i.class] = Wish(s).year
      /\ \A c \in Class \ {i.class} : new[c] = core.class[c]
  BY <1>3, <1>4
<1> HIDE DEF new
<1>6. /\ held \in Core /\ held.year = core.year /\ held.class = new
      /\ held.roster = core.roster /\ held.standards = core.standards
      /\ held.periods = core.periods
  BY <1>3, <1>5 DEF Core
<1> HIDE DEF held
<1>7. ASSUME NEW j \in Items(Wish(s))
      PROVE  \/ Basis(core, Wish(s), j) = Basis(held, Wish(s), j)
             \/ /\ Action(held, setup[s].offered, Wish(s), j) \notin Blocking
                /\ j \in setup[s].left
  <2>1. CASE j.kind = "class" /\ j.class = i.class
    <3>1. j = i
      BY <1>3, <2>1, ItemsAre
    <3>2. Action(held, setup[s].offered, Wish(s), j) = "EXISTING_MATCH"
      BY <1>3, <1>5, <1>6, <2>1 DEF Action, ClassDisposition
    <3> QED BY <1>3, <3>1, <3>2 DEF Blocking
  <2>2. CASE j.kind = "class" /\ j.class # i.class
    <3>1. new[j.class] = core.class[j.class]
      BY <1>3, <1>5, <2>2, ItemsAre
    <3> QED BY <1>6, <2>2, <3>1 DEF Basis
  <2>3. CASE j.kind # "class"
    <3>1. j.kind \in {"year", "roster", "standards", "periods"}
      BY <1>3, <2>3, ItemsAre DEF Kind
    <3> QED BY <1>6, <3>1 DEF Basis
  <2> QED BY <2>1, <2>2, <2>3
<1>8. ClassesOfOneYear'
  <2>1. core' = held /\ \A c \in Class : core.class[c] \in {Nothing, core.year}
    BY <1>1 DEF Write, ClassroomInv, ClassesOfOneYear
  <2> QED BY <1>3, <1>5, <1>6, <2>1 DEF ClassesOfOneYear
<1> QED BY <1>1, <1>3, <1>6, <1>7, <1>8, OwnWrite

LEMMA RosterWrite ==
  ASSUME ClassroomInv, NEW s \in Session, NEW i \in Item, CommitRoster(s, i)
  PROVE  ClassroomInv'
<1> DEFINE new == [core.roster EXCEPT ![i.class] = source[i.class]]
           held == [core EXCEPT !.roster = new]
<1>1. Turn(s, "roster", i) /\ Write(s, i, held, {})
  BY DEF CommitRoster, MustWrite
<1>2. "roster" \in Kind
  BY DEF Kind
<1>3. /\ setup[s] # Nothing /\ setup[s].at = "applying" /\ i \in setup[s].left
      /\ Wish(s) \in SetupChoices /\ Wish(s).year # Nothing /\ core \in Core
      /\ i \in Items(Wish(s)) /\ i.kind = "roster" /\ ApplyingRight(s)
      /\ \A c \in Class : Of("class", c) \notin setup[s].left
  BY <1>1, <1>2, TurnIs
<1>4. /\ i.class \in Class /\ core.roster \in [Class -> Roster \cup {Nothing}]
      /\ source[i.class] \in Roster
  BY <1>3, ItemsAre DEF Core, ClassroomInv, ClassroomTypeOK
<1>5. /\ new \in [Class -> Roster \cup {Nothing}]
      /\ \A c \in Class \ {i.class} : new[c] = core.roster[c]
  BY <1>4
<1> HIDE DEF new
<1>6. /\ held \in Core /\ held.year = core.year /\ held.class = core.class
      /\ held.roster = new /\ held.standards = core.standards
      /\ held.periods = core.periods
  BY <1>3, <1>5 DEF Core
<1> HIDE DEF held
<1>a. core' = held /\ Wish(s)' = Wish(s)
  <2>1. ClassroomTypeOK
    BY DEF ClassroomInv
  <2> QED BY <1>1, <1>3, <1>6, <2>1, WriteIs
<1>7. ASSUME NEW j \in Items(Wish(s)), j \notin setup[s].disturbed
      PROVE  \/ Basis(core, Wish(s), j) = Basis(held, Wish(s), j)
             \/ /\ Action(held, setup[s].offered, Wish(s), j) \notin Blocking
                /\ j \in setup[s].left \/ Stands(s, j)'
  <2>1. CASE j.kind = "roster" /\ j.class = i.class
    <3>1. j = i
      BY <1>3, <2>1, ItemsAre
    <3>2. Action(held, setup[s].offered, Wish(s), j) \in {"CREATE", "KEEP", "REPLACE"}
      BY <2>1 DEF Action, RosterAction
    <3> QED BY <1>3, <3>1, <3>2 DEF Blocking
  <2>2. CASE j.kind = "class" /\ j.class = i.class
    <3>1. Of("class", i.class) \notin setup[s].left /\ Of("class", i.class) \in Items(Wish(s))
      BY <1>3, <1>4, ItemsAre
    <3>2. j = Of("class", i.class)
      <4>1. Of("class", i.class).kind = "class" /\ Of("class", i.class).class = i.class
        BY DEF Of
      <4> QED BY <1>3, <2>2, <3>1, <4>1, ItemsAre
    <3>3. Stands(s, j)
      BY <1>3, <1>7, <3>1, <3>2 DEF ApplyingRight
    <3>4. core.class[j.class] = Wish(s).year
      BY <2>2, <3>3 DEF Stands
    <3>5. Action(held, setup[s].offered, Wish(s), j) = "EXISTING_MATCH"
      BY <1>3, <1>6, <2>2, <3>4 DEF Action, ClassDisposition
    <3>6. Stands(s, j)'
      BY <1>6, <1>a, <2>2, <3>4 DEF Stands
    <3> QED BY <3>5, <3>6 DEF Blocking
  <2>3. CASE j.kind \in {"class", "roster"} /\ j.class # i.class
    <3>1. new[j.class] = core.roster[j.class]
      BY <1>3, <1>5, <2>3, ItemsAre
    <3> QED BY <1>6, <2>3, <3>1 DEF Basis
  <2>4. CASE j.kind \notin {"class", "roster"}
    <3>1. j.kind \in {"year", "standards", "periods"}
      BY <1>3, <2>4, ItemsAre DEF Kind
    <3> QED BY <1>6, <3>1 DEF Basis
  <2> QED BY <2>1, <2>2, <2>3, <2>4
<1>8. ClassesOfOneYear'
  BY <1>6, <1>a DEF ClassroomInv, ClassesOfOneYear
<1> QED BY <1>1, <1>3, <1>6, <1>7, <1>8, OwnWrite

LEMMA StandardsWrite ==
  ASSUME ClassroomInv, NEW s \in Session, NEW i \in Item, NEW library \in SUBSET Pack,
         InstallStandards(s, i, library)
  PROVE  ClassroomInv'
<1> DEFINE held == [core EXCEPT !.standards = library \cup {Wish(s).pack}]
<1>1. /\ Turn(s, "standards", i) /\ Write(s, i, held, {i})
      /\ library \in {setup[s].seen.standards, core.standards}
  BY DEF InstallStandards, MustWrite
<1>2. "standards" \in Kind
  BY DEF Kind
<1>3. /\ setup[s] # Nothing /\ setup[s].at = "applying" /\ i \in setup[s].left
      /\ Wish(s) \in SetupChoices /\ core \in Core
      /\ i \in Items(Wish(s)) /\ i.kind = "standards" /\ ApplyingRight(s)
  BY <1>1, <1>2, TurnIs
<1>4. Wish(s).pack \in Pack
  BY <1>3, ItemsAre
<1>5. /\ held \in Core /\ held.year = core.year /\ held.class = core.class
      /\ held.roster = core.roster /\ held.standards = library \cup {Wish(s).pack}
      /\ held.periods = core.periods
  BY <1>3, <1>4 DEF Core
<1> HIDE DEF held
<1>6. ASSUME NEW j \in Items(Wish(s)), j \notin setup[s].disturbed
      PROVE  \/ Basis(core, Wish(s), j) = Basis(held, Wish(s), j)
             \/ /\ Action(held, setup[s].offered, Wish(s), j) \notin Blocking
                /\ j \in setup[s].left
  <2>1. CASE j.kind = "standards"
    <3>1. j = i
      BY <1>3, <2>1, ItemsAre
    <3>2. Action(setup[s].seen, setup[s].offered, Wish(s), j) \notin Blocking
      BY <1>3 DEF ApplyingRight, CanApply
    <3>3. Action(core, setup[s].offered, Wish(s), j) \notin Blocking
      BY <1>3, <1>6 DEF ApplyingRight
    <3>4. \A k \in library : <<k, Wish(s).pack>> \notin Clash
      BY <1>1, <2>1, <3>2, <3>3 DEF Action, StandardsAction, Blocking
    <3>5. <<Wish(s).pack, Wish(s).pack>> \notin Clash
      BY <1>4, ClassroomAssumption
    <3>6. Action(held, setup[s].offered, Wish(s), j) \in {"KEEP", "INSTALL"}
      BY <1>5, <2>1, <3>4, <3>5 DEF Action, StandardsAction
    <3> QED BY <1>3, <3>1, <3>6 DEF Blocking
  <2>2. CASE j.kind # "standards"
    <3>1. j.kind \in {"year", "class", "roster", "periods"}
      BY <1>3, <2>2, ItemsAre DEF Kind
    <3> QED BY <1>5, <3>1 DEF Basis
  <2> QED BY <2>1, <2>2
<1>7. ClassesOfOneYear'
  <2>1. core' = held
    BY <1>1 DEF Write
  <2> QED BY <1>5, <2>1 DEF ClassroomInv, ClassesOfOneYear
<1> QED BY <1>1, <1>3, <1>5, <1>6, <1>7, OwnWrite

LEMMA PeriodsWrite ==
  ASSUME ClassroomInv, NEW s \in Session, NEW i \in Item, CreatePeriods(s, i)
  PROVE  ClassroomInv'
<1> DEFINE new == [core.periods EXCEPT ![Wish(s).year] = Wish(s).calendar]
           held == [core EXCEPT !.periods = new]
<1>1. Turn(s, "periods", i) /\ Write(s, i, held, {i})
  BY DEF CreatePeriods, MustWrite
<1>2. "periods" \in Kind
  BY DEF Kind
<1>3. /\ setup[s] # Nothing /\ setup[s].at = "applying" /\ i \in setup[s].left
      /\ Wish(s) \in SetupChoices /\ Wish(s).year \in Year /\ core \in Core
      /\ i \in Items(Wish(s)) /\ i.kind = "periods"
  BY <1>1, <1>2, TurnIs
<1>4. new \in [Year -> Calendar \cup {Nothing}]
  BY <1>3 DEF Core, SetupChoices
<1> HIDE DEF new
<1>5. /\ held \in Core /\ held.year = core.year /\ held.class = core.class
      /\ held.roster = core.roster /\ held.standards = core.standards
      /\ held.periods = new
  BY <1>3, <1>4 DEF Core
<1> HIDE DEF held
<1>6. ASSUME NEW j \in Items(Wish(s))
      PROVE  \/ Basis(core, Wish(s), j) = Basis(held, Wish(s), j)
             \/ /\ Action(held, setup[s].offered, Wish(s), j) \notin Blocking
                /\ j \in setup[s].left
  <2>1. CASE j.kind = "periods"
    <3>1. j = i
      BY <1>3, <2>1, ItemsAre
    <3>2. Action(held, setup[s].offered, Wish(s), j) \in {"KEEP", "SKIP", "CREATE"}
      BY <2>1 DEF Action, AcademicPeriodAction
    <3> QED BY <1>3, <3>1, <3>2 DEF Blocking
  <2>2. CASE j.kind # "periods"
    <3>1. j.kind \in {"year", "class", "roster", "standards"}
      BY <1>3, <2>2, ItemsAre DEF Kind
    <3> QED BY <1>5, <3>1 DEF Basis
  <2> QED BY <2>1, <2>2
<1>7. ClassesOfOneYear'
  <2>1. core' = held
    BY <1>1 DEF Write
  <2> QED BY <1>5, <2>1 DEF ClassroomInv, ClassesOfOneYear
<1> QED BY <1>1, <1>3, <1>5, <1>6, <1>7, OwnWrite

\* A step of one session that leaves Core alone.
LEMMA SessionMoves ==
  ASSUME ClassroomInv, NEW s \in Session, NEW new \in Setup \cup {Nothing},
         setup' = [setup EXCEPT ![s] = new], UNCHANGED <<core, outside>>,
         source' \in [Class -> Roster], omitted' \in [Session -> SUBSET Item],
         SessionRight(s)'
  PROVE  ClassroomInv'
<1>1. ClassroomTypeOK'
  BY DEF ClassroomInv, ClassroomTypeOK
<1>2. ASSUME NEW t \in Session, t # s PROVE SessionRight(t)'
  <2>1. setup'[t] = setup[t] /\ SessionRight(t)
    BY <1>2 DEF ClassroomInv, ClassroomTypeOK
  <2> QED
    BY <2>1 DEF SessionRight, ReviewedRight, ApplyingRight, Wish, Stands
<1>3. ClassesOfOneYear'
  BY DEF ClassroomInv, ClassesOfOneYear
<1> QED BY <1>1, <1>2, <1>3 DEF ClassroomInv

LEMMA ReviewStep ==
  ASSUME ClassroomInv, NEW s \in Session, NEW wish \in Wishes, Review(s, wish)
  PROVE  ClassroomInv'
<1> DEFINE new == [at |-> "reviewed", wish |-> wish, seen |-> core, offered |-> source,
                   left |-> Items(wish), checked |-> FALSE,
                   written |-> {}, changed |-> {}, disturbed |-> {}]
<1>1. /\ setup' = [setup EXCEPT ![s] = new] /\ UNCHANGED <<core, source, outside>>
      /\ omitted' = [omitted EXCEPT ![s] = {}]
  BY DEF Review
<1>2. wish \in SetupChoices /\ core \in Core /\ source \in [Class -> Roster]
  BY ClassroomAssumption DEF ClassroomInv, ClassroomTypeOK
<1>3. Items(wish) \in SUBSET Item
  BY <1>2, ItemsAre
<1>4. new \in Setup
  BY <1>2, <1>3 DEF Setup
<1>5. new.at = "reviewed" /\ new.wish = wish /\ new.seen = core /\ new.left = Items(wish)
  OBVIOUS
<1> HIDE DEF new
<1>6. setup'[s] = new
  BY <1>1 DEF ClassroomInv, ClassroomTypeOK
<1>7. SessionRight(s)'
  BY <1>1, <1>5, <1>6 DEF SessionRight, ReviewedRight, ApplyingRight, Wish
<1>8. omitted' \in [Session -> SUBSET Item] /\ source' \in [Class -> Roster]
  BY <1>1 DEF ClassroomInv, ClassroomTypeOK
<1> QED BY <1>1, <1>4, <1>7, <1>8, SessionMoves

\* What was assessed is what is there, so that what the plan allows is allowed.
LEMMA PreflightStep ==
  ASSUME ClassroomInv, NEW s \in Session, Preflight(s)
  PROVE  ClassroomInv'
<1> DEFINE new == [setup[s] EXCEPT !.at = "applying"]
<1>1. /\ setup[s] # Nothing /\ setup[s].at = "reviewed"
      /\ CanApply(setup[s].seen, setup[s].offered, Wish(s))
      /\ setup' = [setup EXCEPT ![s] = new] /\ UNCHANGED <<core, source, omitted, outside>>
  BY DEF Preflight
<1>2. /\ setup[s] \in Setup /\ Wish(s) \in SetupChoices /\ setup[s].seen \in Core
      /\ core \in Core /\ SessionRight(s) /\ source \in [Class -> Roster]
      /\ omitted \in [Session -> SUBSET Item]
  BY <1>1, SetupIs DEF ClassroomInv, ClassroomTypeOK
<1>3. /\ new \in Setup /\ new.at = "applying" /\ new.wish = setup[s].wish
      /\ new.seen = setup[s].seen /\ new.offered = setup[s].offered
      /\ new.left = setup[s].left /\ new.disturbed = setup[s].disturbed
  BY <1>2 DEF Setup
<1> HIDE DEF new
<1>4. setup'[s] = new
  BY <1>1 DEF ClassroomInv, ClassroomTypeOK
<1>5. Wish(s)' = Wish(s)
  BY <1>3, <1>4 DEF Wish
<1>6. setup[s].left = Items(Wish(s)) /\ TheYear \in setup[s].left
  BY <1>1, <1>2 DEF SessionRight, ReviewedRight, Items, TheYear
<1>7. ASSUME NEW i \in Items(Wish(s)), i \notin setup[s].disturbed
      PROVE  Action(core, setup[s].offered, Wish(s), i) \notin Blocking
  <2>1. Basis(core, Wish(s), i) = Basis(setup[s].seen, Wish(s), i)
    BY <1>1, <1>2, <1>7 DEF SessionRight, ReviewedRight
  <2>2. Action(setup[s].seen, setup[s].offered, Wish(s), i) \notin Blocking
    BY <1>1 DEF CanApply
  <2> QED BY <1>2, <2>1, <2>2, ReadFromBasis
<1>8. SessionRight(s)'
  BY <1>1, <1>3, <1>4, <1>5, <1>6, <1>7 DEF SessionRight, ReviewedRight, ApplyingRight
<1> QED BY <1>1, <1>2, <1>3, <1>8, SessionMoves

LEMMA CheckStep ==
  ASSUME ClassroomInv, NEW s \in Session, NEW i \in Item, CheckStandards(s, i)
  PROVE  ClassroomInv'
<1> DEFINE new == [setup[s] EXCEPT !.checked = TRUE]
<1>1. /\ setup[s] # Nothing
      /\ setup' = [setup EXCEPT ![s] = new] /\ UNCHANGED <<core, source, omitted, outside>>
  BY DEF CheckStandards, MustWrite, Turn
<1>2. /\ setup[s] \in Setup /\ SessionRight(s) /\ source \in [Class -> Roster]
      /\ omitted \in [Session -> SUBSET Item]
  BY <1>1, SetupIs DEF ClassroomInv, ClassroomTypeOK
<1>3. /\ new \in Setup /\ new.at = setup[s].at /\ new.wish = setup[s].wish
      /\ new.seen = setup[s].seen /\ new.offered = setup[s].offered
      /\ new.left = setup[s].left /\ new.disturbed = setup[s].disturbed
  BY <1>2 DEF Setup
<1> HIDE DEF new
<1>4. setup'[s] = new
  BY <1>1 DEF ClassroomInv, ClassroomTypeOK
<1>5. SessionRight(s)'
  BY <1>1, <1>2, <1>3, <1>4 DEF SessionRight, ReviewedRight, ApplyingRight, Wish, Stands
<1> QED BY <1>1, <1>2, <1>3, <1>5, SessionMoves

\* What is verified stands and would not block, as it would be kept.
LEMMA HeldStands ==
  ASSUME ClassroomInv, NEW s \in Session, NEW i \in Item, Verify(s, i)
  PROVE  Stands(s, i) /\ Action(core, setup[s].offered, Wish(s), i) \notin Blocking
<1>1. /\ Turn(s, i.kind, i) /\ Holds(s, i)
      /\ Planned(s, i) \in Writing => i \in setup[s].written
  BY DEF Verify
<1>2. i.kind \in Kind
  BY DEF Item
<1>3. /\ Wish(s) \in SetupChoices /\ Wish(s).year # Nothing /\ i \in Items(Wish(s))
      /\ ApplyingRight(s) /\ setup[s].at = "applying"
  BY <1>1, <1>2, TurnIs
<1>4. Action(setup[s].seen, setup[s].offered, Wish(s), i) \notin Blocking
  BY <1>3 DEF ApplyingRight, CanApply
<1>5. CASE i.kind = "year"
  <2>1. core.year = Wish(s).year
    BY <1>1, <1>5 DEF Holds, SchoolYearHolds
  <2> QED BY <1>3, <1>5, <2>1 DEF Stands, Action, SchoolYearDisposition, Blocking
<1>6. CASE i.kind = "class"
  <2>1. core.class[i.class] = Wish(s).year
    BY <1>1, <1>6 DEF Holds, ClassHolds
  <2> QED BY <1>3, <1>6, <2>1 DEF Stands, Action, ClassDisposition, Blocking
<1>7. CASE i.kind = "roster"
  <2>1. core.roster[i.class] = setup[s].offered[i.class]
    <3>1. CASE i \in setup[s].written
      BY <1>1, <1>7, <3>1 DEF Holds, RosterHolds
    <3>2. CASE i \notin setup[s].written
      <4>1. core.roster[i.class] = setup[s].seen.roster[i.class]
        BY <1>1, <1>7, <3>2 DEF Holds, RosterHolds, SameRoster
      <4>2. RosterAction(setup[s].seen, i.class, setup[s].offered) \notin Writing
        BY <1>1, <1>7, <3>2 DEF Planned, Action
      <4> QED BY <4>1, <4>2 DEF RosterAction, Writing
    <3> QED BY <3>1, <3>2
  <2>2. Action(core, setup[s].offered, Wish(s), i) \in {"CREATE", "KEEP", "REPLACE"}
    BY <1>7 DEF Action, RosterAction
  <2> QED BY <1>7, <2>1, <2>2 DEF Stands, Blocking
<1>8. CASE i.kind = "standards"
  <2>1. core.standards = setup[s].seen.standards \cup {Wish(s).pack}
    BY <1>1, <1>8 DEF Holds, StandardsHold, CandidateLibrary
  <2>2. Wish(s).pack \in Pack
    BY <1>3, <1>8, ItemsAre
  <2>3. \A k \in setup[s].seen.standards : <<k, Wish(s).pack>> \notin Clash
    BY <1>4, <1>8 DEF Action, StandardsAction, Blocking
  <2>4. <<Wish(s).pack, Wish(s).pack>> \notin Clash
    BY <2>2, ClassroomAssumption
  <2>5. Action(core, setup[s].offered, Wish(s), i) = "KEEP"
    BY <1>8, <2>1, <2>3, <2>4 DEF Action, StandardsAction
  <2> QED BY <1>8, <2>1, <2>5 DEF Stands, Blocking
<1>9. CASE i.kind = "periods"
  <2>1. /\ Planned(s, i) = AcademicPeriodAction(setup[s].seen, Wish(s).year, Wish(s).calendar)
        /\ PeriodsHold(s, i)
    BY <1>1, <1>9 DEF Planned, Action, Holds
  <2>2. core.periods[Wish(s).year] = Nothing => Wish(s).calendar = Nothing
    BY <2>1 DEF AcademicPeriodAction, PeriodsHold
  <2>3. Action(core, setup[s].offered, Wish(s), i) \in {"KEEP", "SKIP", "CREATE"}
    BY <1>9 DEF Action, AcademicPeriodAction
  <2> QED BY <1>9, <2>2, <2>3 DEF Stands, Blocking
<1> QED BY <1>2, <1>5, <1>6, <1>7, <1>8, <1>9 DEF Kind

LEMMA VerifyStep ==
  ASSUME ClassroomInv, NEW s \in Session, NEW i \in Item, Verify(s, i)
  PROVE  ClassroomInv'
<1> DEFINE noted == setup[s].changed \cup (setup[s].written \cap {i})
           new == [setup[s] EXCEPT !.left = @ \ {i}, !.disturbed = @ \ {i}, !.changed = noted]
<1>1. /\ setup' = [setup EXCEPT ![s] = new] /\ UNCHANGED <<core, source, omitted, outside>>
      /\ Turn(s, i.kind, i) /\ i.kind \in Kind /\ Holds(s, i)
  BY DEF Verify, Item
<1>2. /\ setup[s] \in Setup /\ source \in [Class -> Roster]
      /\ omitted \in [Session -> SUBSET Item] /\ ApplyingRight(s) /\ setup[s].at = "applying"
      /\ Wish(s) \in SetupChoices /\ i \in Items(Wish(s))
  BY <1>1, TurnIs, SetupIs DEF ClassroomInv, ClassroomTypeOK
<1>3. /\ noted \subseteq Item
  BY <1>2 DEF Setup
<1> HIDE DEF noted
<1>4. /\ new \in Setup /\ new.at = "applying" /\ new.wish = setup[s].wish
      /\ new.seen = setup[s].seen /\ new.offered = setup[s].offered
      /\ new.left = setup[s].left \ {i} /\ new.disturbed = setup[s].disturbed \ {i}
  BY <1>2, <1>3 DEF Setup
<1> HIDE DEF new
<1>5. setup'[s] = new
  BY <1>1 DEF ClassroomInv, ClassroomTypeOK
<1>6. Wish(s)' = Wish(s) /\ core' = core
  BY <1>1, <1>4, <1>5 DEF Wish
<1>7. \A j \in Item : Stands(s, j) => Stands(s, j)'
  BY <1>4, <1>5, <1>6 DEF Stands
<1>8. Stands(s, i) /\ Action(core, setup[s].offered, Wish(s), i) \notin Blocking
  BY HeldStands
<1>9. TheYear \notin setup'[s].left => core.year = Wish(s).year
  <2>1. CASE TheYear \notin setup[s].left
    BY <1>2, <2>1 DEF ApplyingRight
  <2>2. CASE TheYear = i
    BY <1>8, <2>2 DEF Stands, TheYear, Of
  <2> QED BY <1>4, <1>5, <2>1, <2>2
<1>10. Items(Wish(s)) \subseteq Item
  BY <1>2, ItemsAre
<1>11. SessionRight(s)'
  BY <1>2, <1>4, <1>5, <1>6, <1>7, <1>8, <1>9, <1>10
     DEF SessionRight, ReviewedRight, ApplyingRight
<1> QED BY <1>1, <1>2, <1>4, <1>11, SessionMoves

LEMMA SessionEnds ==
  ASSUME ClassroomInv, NEW s \in Session, Succeed(s) \/ Stop(s) \/ Abandon(s)
  PROVE  ClassroomInv'
<1>1. /\ setup' = [setup EXCEPT ![s] = Nothing] /\ UNCHANGED <<core, outside, source>>
      /\ setup[s] # Nothing
  BY DEF Succeed, Stop, Abandon
<1>2. setup'[s] = Nothing /\ source \in [Class -> Roster]
  BY <1>1 DEF ClassroomInv, ClassroomTypeOK
<1>3. omitted' \in [Session -> SUBSET Item]
  <2>1. setup[s].written \ setup[s].changed \in SUBSET Item
    BY <1>1, SetupIs DEF ClassroomInv
  <2> QED BY <2>1 DEF Succeed, Stop, Abandon, ClassroomInv, ClassroomTypeOK
<1> QED BY <1>1, <1>2, <1>3, SessionMoves DEF SessionRight

\* What a setup knows of itself depends on Core and its own record only.
LEMMA UnseenBySetups ==
  ASSUME ClassroomInv, UNCHANGED <<core, setup, omitted>>
  PROVE  \A s \in Session : SessionRight(s)'
<1> SUFFICES ASSUME NEW s \in Session PROVE SessionRight(s)'
  OBVIOUS
<1>1. SessionRight(s) /\ Wish(s)' = Wish(s) /\ \A i : Stands(s, i)' = Stands(s, i)
  BY DEF ClassroomInv, Wish, Stands
<1>2. ReviewedRight(s) => ReviewedRight(s)'
  BY <1>1 DEF ReviewedRight
<1>3. ApplyingRight(s) => ApplyingRight(s)'
  BY <1>1 DEF ApplyingRight
<1> QED BY <1>1, <1>2, <1>3 DEF SessionRight

LEMMA OutsideStep ==
  ASSUME ClassroomInv, Outside
  PROVE  ClassroomInv'
<1>0. ClassroomTypeOK /\ core \in Core /\ outside \in 0..MaxOutside
  BY DEF ClassroomInv, ClassroomTypeOK
<1>1. ASSUME NEW held \in Core, ChangeOutside(held), held.year = core.year,
             held.class = core.class
      PROVE  ClassroomInv'
  <2>1. /\ core' = held /\ setup' = Disturbed(Nothing, held) /\ UNCHANGED <<source, omitted>>
        /\ outside' \in 0..MaxOutside
    BY <1>0, <1>1, ClassroomAssumption DEF ChangeOutside
  <2>2. ClassroomTypeOK'
    BY <1>0, <2>1, DisturbedIs DEF ClassroomTypeOK
  <2>3. \A t \in Session : SessionRight(t)'
    <3>1. \A t \in Session : t # Nothing
      BY ClassroomAssumption
    <3> QED BY <1>1, <2>1, <3>1, OthersStay
  <2>4. ClassesOfOneYear'
    BY <1>1, <2>1 DEF ClassroomInv, ClassesOfOneYear
  <2> QED BY <2>2, <2>3, <2>4 DEF ClassroomInv
<1>2. ASSUME NEW c \in Class, NEW content \in Roster, EditRoster(c, content)
      PROVE  ClassroomInv'
  <2> DEFINE new == [core.roster EXCEPT ![c] = content]
             held == [core EXCEPT !.roster = new]
  <2>1. new \in [Class -> Roster \cup {Nothing}]
    BY <1>0 DEF Core
  <2>2. ChangeOutside(held)
    BY <1>2 DEF EditRoster
  <2> HIDE DEF new
  <2>3. held \in Core /\ held.year = core.year /\ held.class = core.class
    BY <1>0, <2>1 DEF Core
  <2> HIDE DEF held
  <2> QED BY <1>1, <2>2, <2>3
<1>3. ASSUME NEW pack \in Pack, AddStandards(pack) PROVE ClassroomInv'
  <2> DEFINE held == [core EXCEPT !.standards = @ \cup {pack}]
  <2>1. ChangeOutside(held)
    BY <1>3 DEF AddStandards
  <2>2. held \in Core /\ held.year = core.year /\ held.class = core.class
    BY <1>0 DEF Core
  <2> HIDE DEF held
  <2> QED BY <1>1, <2>1, <2>2
<1>4. ASSUME NEW c \in Class, NEW content \in Roster, EditSource(c, content)
      PROVE  ClassroomInv'
  <2>1. /\ UNCHANGED <<core, setup, omitted>> /\ outside' \in 0..MaxOutside
        /\ source' \in [Class -> Roster]
    BY <1>0, <1>4, ClassroomAssumption DEF EditSource, ClassroomTypeOK
  <2>2. ClassroomTypeOK' /\ ClassesOfOneYear'
    BY <2>1 DEF ClassroomInv, ClassroomTypeOK, ClassesOfOneYear
  <2>3. \A s \in Session : SessionRight(s)'
    BY <2>1, UnseenBySetups
  <2> QED BY <2>2, <2>3 DEF ClassroomInv
<1> QED BY <1>2, <1>3, <1>4 DEF Outside

LEMMA ClassroomInvInit == ClassroomInit => ClassroomInv
<1> SUFFICES ASSUME ClassroomInit PROVE ClassroomInv
  OBVIOUS
<1>1. core \in Core
  BY DEF ClassroomInit, Core
<1>2. 0 \in 0..MaxOutside
  BY ClassroomAssumption
<1> QED
  BY <1>1, <1>2 DEF ClassroomInit, ClassroomInv, ClassroomTypeOK, ClassesOfOneYear, SessionRight

LEMMA ClassroomInvStep == ClassroomInv /\ [ClassroomNext]_classroomVars => ClassroomInv'
<1> SUFFICES ASSUME ClassroomInv, [ClassroomNext]_classroomVars PROVE ClassroomInv'
  OBVIOUS
<1>1. ASSUME NEW s \in Session, SetupStep(s) PROVE ClassroomInv'
  BY <1>1, ReviewStep, PreflightStep, YearWrite, ClassWrite, RosterWrite, CheckStep, PeriodsWrite,
     StandardsWrite, VerifyStep, SessionEnds DEF SetupStep
<1>2. ASSUME UNCHANGED classroomVars PROVE ClassroomInv'
  <2>1. UNCHANGED <<core, setup, omitted, outside, source>>
    BY <1>2 DEF classroomVars
  <2>2. ClassroomTypeOK' /\ ClassesOfOneYear'
    BY <2>1 DEF ClassroomInv, ClassroomTypeOK, ClassesOfOneYear
  <2>3. \A s \in Session : SessionRight(s)'
    BY <2>1, UnseenBySetups
  <2> QED BY <2>2, <2>3 DEF ClassroomInv
<1> QED BY <1>1, <1>2, OutsideStep DEF ClassroomNext

LEMMA ClassroomAlways == ShellSpec => []ClassroomInv
<1>1. ShellInit => ClassroomInv
  BY FamiliesAlone, ClassroomInvInit
<1>2. ClassroomInv /\ [ShellNext]_shellVars => ClassroomInv'
  BY FamiliesAlone, ClassroomInvStep
<1> QED BY <1>1, <1>2, PTL DEF ShellSpec

\* However many guided setups review, recheck, write, verify and stop side by side
\* while others write to Core: all classes are of the one school year, what a setup
\* has completed stands unless someone else touched it, and undisturbed it can be
\* asked for again (classroom_planning.py, classroom_apply.py).
THEOREM SetupsSound == ShellSpec => []SetupsStand
<1>1. ClassroomInv => SetupsStand
  <2> SUFFICES ASSUME ClassroomInv PROVE SetupsStand
    OBVIOUS
  <2>1. \A s \in Session : Applying(s) => ApplyingRight(s) /\ setup[s].at = "applying"
    BY DEF Applying, ClassroomInv, SessionRight
  <2>2. CompletedStands
    BY <2>1 DEF CompletedStands, ApplyingRight, Stands
  <2>3. RerunNotBlocked
    BY <2>1 DEF RerunNotBlocked, ApplyingRight, CanApply
  <2> QED BY <2>2, <2>3 DEF ClassroomInv, SetupsStand
<1> QED BY <1>1, ClassroomAlways, PTL

-----------------------------------------------------------------------------
(* Backup, restore and the selection of a workspace.                       *)

\* What is in a tree is in some tree that was, and no edit is yet to come.
TreesWere ==
  /\ \A path \in Path : tree[path] # None => tree[path] \in past
  /\ \A t \in past : \A f \in File : t[f] <= edits
  /\ PublishedIsSnapshot
  /\ SelectedExists

\* A command at work in a staging directory is its owner.
StagingOwned(p) ==
  /\ command[p].at \in {"copying", "rehashing", "sealed"} => command[p].nonce # None
  /\ command[p].nonce # None =>
       staging[StagingOf(p)] # None /\ staging[StagingOf(p)].owner = p

\* A tree that was, which the source files that are yet to be hashed agree with
\* where they agree with the copy, and the copy agrees with in all others.  It is
\* the tree of the second walk: what is written later was in no copy.
OneMoment(p) ==
  \E was \in past : \A f \in File :
    IF f \in command[p].todo
    THEN tree[command[p].root][f] = command[p].got[f] => was[f] = command[p].got[f]
    ELSE was[f] = command[p].got[f]

BackupRight(p) ==
  command[p].op = "backup" =>
    /\ command[p].id \in BackupId
    /\ \A f \in File : command[p].got[f] <= edits
    /\ \A f \in File \ ReviewedFiles(p) : command[p].got[f] = Absent
    /\ command[p].at \in {"copying", "rehashing"} => command[p].todo \subseteq ReviewedFiles(p)
    /\ command[p].at = "copying" =>
         \A f \in ReviewedFiles(p) \ command[p].todo : command[p].got[f] # Absent
    /\ command[p].at = "rehashing" =>
         /\ Exists(command[p].root) /\ OneMoment(p)
         /\ \A f \in ReviewedFiles(p) : command[p].got[f] # Absent
    /\ command[p].at = "sealed" =>
         command[p].got \in past /\ SameBytes(command[p].got, StagedFiles(p))

RestoreRight(p) ==
  command[p].op = "restore" =>
    /\ command[p].id \in BackupId /\ command[p].target \in Path
    /\ command[p].reviewed \in past
    /\ command[p].at = "sealed" => SameBytes(command[p].reviewed, StagedFiles(p))

SelectionRight(p) ==
  command[p].op \in Selecting =>
    /\ command[p].nonce = None
    /\ command[p].at \in {"planned", "ensured"}
    /\ command[p].at = "ensured" => Exists(command[p].root)

CommandRight(p) ==
  command[p] # None =>
    StagingOwned(p) /\ BackupRight(p) /\ RestoreRight(p) /\ SelectionRight(p)

CustodyInv ==
  /\ CustodyTypeOK
  /\ TreesWere
  /\ \A p \in Process : CommandRight(p)

LEMMA NoneOfThem ==
  /\ \A t \in Tree : t # None
  /\ \A a \in Archive : a # None
  /\ \A held \in Staged : held # None
  /\ \A run \in Command : run # None
  /\ \A p \in Process : p # None
  /\ \A n \in Nonce : n # None
BY WorkspaceNoneAssumption

LEMMA CommandIs ==
  ASSUME CustodyTypeOK, NEW p \in Process, command[p] # None
  PROVE  /\ command[p] \in Command /\ command[p].root \in Path /\ command[p].target \in Target
         /\ command[p].got \in Tree /\ command[p].todo \in SUBSET File
         /\ command[p].reviewed \in [File -> Nat] /\ command[p].op \in Custodial
         /\ command[p].nonce \in Nonce \cup {None} /\ command[p].at \in Where
         /\ command[p].nonce # None => StagingOf(p) \in Target \X Nonce
         /\ ReviewedFiles(p) \subseteq File
<1>1. command[p] \in Command
  BY DEF CustodyTypeOK
<1> QED BY <1>1 DEF Command, StagingOf, ReviewedFiles

\* What changes elsewhere is no command's matter: files that are written, trees that
\* appear, and the staging directories of others.
LEMMA OthersGoOn ==
  ASSUME CustodyInv, NEW q \in Process, command'[q] = command[q],
         past \subseteq past', edits' \in Int, edits <= edits',
         \A path \in Path : tree[path] # None =>
           /\ tree'[path] # None
           /\ \A f \in File : \/ tree'[path][f] = tree[path][f]
                              \/ tree'[path][f] \in {Absent, edits + 1},
         command[q] # None /\ command[q].nonce # None =>
           staging'[StagingOf(q)] = staging[StagingOf(q)]
  PROVE  CommandRight(q)'
<1> SUFFICES ASSUME command[q] # None PROVE CommandRight(q)'
  BY DEF CommandRight
<1>1. /\ CustodyTypeOK /\ StagingOwned(q) /\ BackupRight(q) /\ RestoreRight(q)
      /\ SelectionRight(q)
  BY DEF CustodyInv, CommandRight
<1>2. /\ command[q].root \in Path /\ command[q].got \in Tree /\ edits \in Int
      /\ \A f \in File : command[q].got[f] \in Int
      /\ ReviewedFiles(q) \subseteq File
  BY <1>1, CommandIs, WorkspaceAssumption DEF CustodyTypeOK, Tree, Content, Absent
<1>3. StagingOf(q)' = StagingOf(q) /\ ReviewedFiles(q)' = ReviewedFiles(q)
  BY DEF StagingOf, ReviewedFiles
<1>4. StagingOwned(q)'
  BY <1>1, <1>3 DEF StagingOwned
<1>5. RestoreRight(q)' /\ SelectionRight(q)'
  <2>1. command[q].nonce # None => StagedFiles(q)' = StagedFiles(q)
    BY <1>3 DEF StagedFiles
  <2> QED
    BY <1>1, <1>2, <2>1 DEF RestoreRight, SelectionRight, Exists, StagingOwned, SameBytes
<1>6. ASSUME command[q].op = "backup", command[q].at = "rehashing" PROVE OneMoment(q)'
  <2>1. PICK was \in past : \A f \in File :
          IF f \in command[q].todo
          THEN tree[command[q].root][f] = command[q].got[f] => was[f] = command[q].got[f]
          ELSE was[f] = command[q].got[f]
    BY <1>1, <1>6 DEF BackupRight, OneMoment
  <2>2. ASSUME NEW f \in command[q].todo,
               tree'[command[q].root][f] = command[q].got[f]
        PROVE  tree[command[q].root][f] = command[q].got[f]
    <3>1. f \in File /\ command[q].got[f] <= edits /\ command[q].got[f] # Absent
          /\ tree[command[q].root] # None
      BY <1>1, <1>2, <1>6 DEF BackupRight, Exists
    <3> QED BY <1>2, <2>2, <3>1
  <2> QED BY <2>1, <2>2 DEF OneMoment
<1>7. BackupRight(q)'
  <2>1. command[q].nonce # None => StagedFiles(q)' = StagedFiles(q)
    BY <1>3 DEF StagedFiles
  <2>2. \A f \in File : command[q].op = "backup" => command[q].got[f] <= edits'
    BY <1>1, <1>2 DEF BackupRight
  <2>3. Exists(command[q].root) => tree'[command[q].root] # None
    BY <1>2 DEF Exists
  <2> QED
    BY <1>1, <1>3, <1>6, <2>1, <2>2, <2>3 DEF BackupRight, StagingOwned, SameBytes, Exists
<1> QED BY <1>4, <1>5, <1>7 DEF CommandRight

\* A command's step: what it does to the world, and what is then right about it.
LEMMA CommandSteps ==
  ASSUME CustodyInv, NEW p \in Process, CustodyTypeOK', TreesWere', CommandRight(p)',
         \A q \in Process \ {p} : command'[q] = command[q],
         past \subseteq past', edits' = edits,
         \A path \in Path : tree[path] # None => tree'[path] = tree[path],
         \A key \in Target \X Nonce : staging[key] # None /\ staging[key].owner # p =>
           staging'[key] = staging[key]
  PROVE  CustodyInv'
<1>1. ASSUME NEW q \in Process \ {p} PROVE CommandRight(q)'
  <2>1. edits' \in Int /\ edits <= edits'
    BY DEF CustodyInv, CustodyTypeOK
  <2>2. command[q] # None /\ command[q].nonce # None =>
          staging'[StagingOf(q)] = staging[StagingOf(q)]
    BY CommandIs DEF CustodyInv, CommandRight, StagingOwned
  <2> QED BY <2>1, <2>2, OthersGoOn
<1> QED BY <1>1 DEF CustodyInv

\* A step within the command that leaves the world as it is.
LEMMA CommandTurns ==
  ASSUME CustodyInv, NEW p \in Process, NEW new \in Command \cup {None},
         command' = [command EXCEPT ![p] = new],
         UNCHANGED <<tree, archive, staging, saved, edits, past, roles>>,
         CommandRight(p)'
  PROVE  CustodyInv'
<1>1. CustodyTypeOK' /\ \A q \in Process \ {p} : command'[q] = command[q]
  BY DEF CustodyInv, CustodyTypeOK
<1>2. TreesWere'
  BY DEF CustodyInv, TreesWere, PublishedIsSnapshot, SelectedExists, Exists
<1> QED BY <1>1, <1>2, CommandSteps

LEMMA Moved ==
  ASSUME CustodyTypeOK, NEW p \in Process, command[p] # None, NEW where \in Where, Move(p, where)
  PROVE  \E new \in Command :
           /\ command' = [command EXCEPT ![p] = new] /\ command'[p] = new /\ new # None
           /\ new.at = where /\ new.op = command[p].op /\ new.root = command[p].root
           /\ new.id = command[p].id /\ new.target = command[p].target
           /\ new.nonce = command[p].nonce /\ new.reviewed = command[p].reviewed
           /\ new.got = command[p].got /\ new.todo = command[p].todo
<1> DEFINE new == [command[p] EXCEPT !.at = where]
<1>1. command[p] \in Command
  BY CommandIs
<1>2. /\ new \in Command
      /\ new.at = where /\ new.op = command[p].op /\ new.root = command[p].root
      /\ new.id = command[p].id /\ new.target = command[p].target
      /\ new.nonce = command[p].nonce /\ new.reviewed = command[p].reviewed
      /\ new.got = command[p].got /\ new.todo = command[p].todo
  BY <1>1 DEF Command
<1>3. command' = [command EXCEPT ![p] = new]
  BY DEF Move
<1> HIDE DEF new
<1>4. command'[p] = new
  BY <1>3 DEF CustodyTypeOK
<1> QED BY <1>2, <1>3, <1>4, NoneOfThem

\* Confirmations, rechecks and seals.
LEMMA MovesOn ==
  ASSUME CustodyInv, NEW p \in Process, command[p] # None, NEW where \in Where, Move(p, where),
         UNCHANGED <<tree, archive, staging, saved, edits, past, roles>>,
         command[p].op \in {"backup", "restore"},
         \/ where \in {"confirmed", "checked"}
         \/ command[p].op = "restore" /\ where = "rehashing" /\ command[p].nonce # None
         \/ /\ where = "sealed" /\ command[p].nonce # None
            /\ command[p].op = "restore" => SameBytes(command[p].reviewed, StagedFiles(p))
            /\ command[p].op = "backup" => /\ command[p].got \in past
                                          /\ SameBytes(command[p].got, StagedFiles(p))
  PROVE  CustodyInv'
<1>1. /\ CustodyTypeOK /\ StagingOwned(p) /\ BackupRight(p) /\ RestoreRight(p)
  BY DEF CustodyInv, CommandRight
<1>2. PICK new \in Command :
        /\ command' = [command EXCEPT ![p] = new] /\ command'[p] = new /\ new # None
        /\ new.at = where /\ new.op = command[p].op /\ new.root = command[p].root
        /\ new.id = command[p].id /\ new.target = command[p].target
        /\ new.nonce = command[p].nonce /\ new.reviewed = command[p].reviewed
        /\ new.got = command[p].got /\ new.todo = command[p].todo
  BY <1>1, Moved
<1>3. StagingOf(p)' = StagingOf(p) /\ ReviewedFiles(p)' = ReviewedFiles(p)
  BY <1>2 DEF StagingOf, ReviewedFiles
<1>4. StagedFiles(p)' = StagedFiles(p)
  BY <1>3 DEF StagedFiles
<1>5. StagingOwned(p)'
  BY <1>1, <1>2, <1>3 DEF StagingOwned
<1>6. BackupRight(p)'
  BY <1>1, <1>2, <1>3, <1>4 DEF BackupRight, SameBytes
<1>7. RestoreRight(p)'
  BY <1>1, <1>2, <1>4 DEF RestoreRight, SameBytes
<1>8. SelectionRight(p)'
  BY <1>2 DEF SelectionRight, Selecting
<1>9. CommandRight(p)'
  BY <1>5, <1>6, <1>7, <1>8 DEF CommandRight
<1> QED BY <1>2, <1>9, CommandTurns

LEMMA PlanSteps ==
  ASSUME CustodyInv, NEW p \in Process, NEW id \in BackupId,
         PlanBackup(p, id) \/ \E destination \in Path : PlanRestore(p, id, destination)
  PROVE  CustodyInv'
<1>0. CustodyTypeOK /\ TreesWere
  BY DEF CustodyInv
<1>1. Resolved(p) \in Path /\ Source(p) \in {"environment", "saved", "default"}
  BY <1>0, WorkspaceAssumption DEF Resolved, Source, CustodyTypeOK
<1>2. Empty \in Tree /\ \A f \in File : Empty[f] = Absent
  BY DEF Empty, Tree
<1>3. CASE PlanBackup(p, id)
  <2> DEFINE listed == Inventory(tree[Resolved(p)])
             new == [op |-> "backup", at |-> "planned", root |-> Resolved(p), source |-> Source(p),
                     id |-> id, target |-> id, nonce |-> None,
                     reviewed |-> listed, got |-> Empty, todo |-> {}]
  <2>1. /\ Exists(Resolved(p)) /\ command' = [command EXCEPT ![p] = new]
        /\ UNCHANGED <<tree, archive, staging, saved, edits, past, roles>>
    BY <1>3 DEF PlanBackup
  <2>2. listed \in [File -> Nat]
    <3>1. tree[Resolved(p)] \in Tree
      BY <1>0, <1>1, <2>1 DEF Exists, CustodyTypeOK
    <3> QED BY <3>1, WorkspaceAssumption DEF Inventory, Tree
  <2> HIDE DEF listed
  <2>3. new \in Command /\ new # None
    <3>1. new \in Command
      BY <1>1, <1>2, <2>2 DEF Command, Custodial, Backing, Where, Target
    <3> QED BY <3>1, NoneOfThem
  <2>4. /\ new.op = "backup" /\ new.at = "planned" /\ new.id = id /\ new.nonce = None
        /\ new.got = Empty
    OBVIOUS
  <2> HIDE DEF new
  <2>5. command'[p] = new
    BY <1>0, <2>1 DEF CustodyTypeOK
  <2>6. \A f \in File : new.got[f] <= edits
    BY <1>0, <1>2, <2>4 DEF CustodyTypeOK, Absent
  <2>7. CommandRight(p)'
    BY <1>2, <2>1, <2>4, <2>5, <2>6
       DEF CommandRight, StagingOwned, BackupRight, RestoreRight, SelectionRight, Selecting
  <2> QED BY <2>1, <2>3, <2>7, CommandTurns
<1>4. ASSUME NEW destination \in Path, PlanRestore(p, id, destination)
      PROVE  CustodyInv'
  <2> DEFINE m == archive[id].manifest
             new == [op |-> "restore", at |-> "planned", root |-> Resolved(p),
                     source |-> Source(p),
                     id |-> id, target |-> destination, nonce |-> None,
                     reviewed |-> m, got |-> Empty, todo |-> {}]
  <2>1. /\ archive[id] # None /\ command' = [command EXCEPT ![p] = new]
        /\ UNCHANGED <<tree, archive, staging, saved, edits, past, roles>>
    BY <1>4 DEF PlanRestore, Verifies, Readable
  <2>2. m \in Tree /\ m \in past /\ m \in [File -> Nat]
    <3>1. m \in past
      BY <1>0, <2>1 DEF TreesWere, PublishedIsSnapshot
    <3>2. m \in Tree
      BY <1>0, <3>1 DEF CustodyTypeOK
    <3> QED BY <3>1, <3>2, WorkspaceAssumption DEF Tree, Content, Absent
  <2> HIDE DEF m
  <2>3. new \in Command /\ new # None
    <3>1. new \in Command
      BY <1>1, <1>2, <2>2 DEF Command, Custodial, Restoring, Where, Target
    <3> QED BY <3>1, NoneOfThem
  <2>4. /\ new.op = "restore" /\ new.at = "planned" /\ new.id = id /\ new.nonce = None
        /\ new.target = destination /\ new.reviewed = m
    OBVIOUS
  <2> HIDE DEF new
  <2>5. command'[p] = new
    BY <1>0, <2>1 DEF CustodyTypeOK
  <2>7. CommandRight(p)'
    BY <2>1, <2>2, <2>4, <2>5
       DEF CommandRight, StagingOwned, BackupRight, RestoreRight, SelectionRight, Selecting
  <2> QED BY <2>1, <2>3, <2>7, CommandTurns
<1> QED BY <1>3, <1>4

\* The exclusive mkdir: the directory is one that nobody had.
LEMMA StageSteps ==
  ASSUME CustodyInv, NEW p \in Process, NEW nonce \in Nonce, NEW files \in SUBSET File,
         MakeStaging(p, nonce, files), command[p] # None, command[p].op \in {"backup", "restore"},
         command[p].op = "backup" => files = ReviewedFiles(p),
         UNCHANGED <<tree, archive, saved, edits, past, roles>>
  PROVE  CustodyInv'
<1> DEFINE key == <<command[p].target, nonce>>
           held == [owner |-> p, files |-> Empty]
           new == [command[p] EXCEPT !.at = "copying", !.nonce = nonce, !.todo = files]
<1>0. /\ CustodyTypeOK /\ TreesWere /\ BackupRight(p) /\ RestoreRight(p)
      /\ command[p] \in Command /\ command[p].target \in Target
  BY CommandIs DEF CustodyInv, CommandRight
<1>1. /\ staging[key] = None /\ staging' = [staging EXCEPT ![key] = held]
      /\ command' = [command EXCEPT ![p] = new]
  BY DEF MakeStaging
<1>2. key \in Target \X Nonce
  BY <1>0
<1>3. held \in Staged /\ held # None /\ held.owner = p
  <2>1. held \in Staged
    BY DEF Staged, Stored, Empty
  <2> QED BY <2>1, NoneOfThem
<1>4. /\ new \in Command /\ new.at = "copying" /\ new.nonce = nonce /\ new.todo = files
      /\ new.target = command[p].target /\ new.op = command[p].op /\ new.id = command[p].id
      /\ new.reviewed = command[p].reviewed /\ new.got = command[p].got
      /\ new.root = command[p].root
  BY <1>0 DEF Command, Where
<1> HIDE DEF held, new
<1>5. command'[p] = new /\ new # None /\ nonce # None
  BY <1>0, <1>1, <1>4, NoneOfThem DEF CustodyTypeOK
<1>6. StagingOf(p)' = key /\ ReviewedFiles(p)' = ReviewedFiles(p)
  BY <1>4, <1>5 DEF StagingOf, ReviewedFiles
<1> HIDE DEF key
<1>7. staging'[key] = held /\ \A k \in (Target \X Nonce) \ {key} : staging'[k] = staging[k]
  BY <1>0, <1>1, <1>2 DEF CustodyTypeOK
<1>8. CustodyTypeOK' /\ \A q \in Process \ {p} : command'[q] = command[q]
  BY <1>0, <1>1, <1>2, <1>3, <1>4 DEF CustodyTypeOK
<1>9. TreesWere'
  BY <1>0 DEF TreesWere, PublishedIsSnapshot, SelectedExists, Exists
<1>10. StagingOwned(p)'
  BY <1>3, <1>4, <1>5, <1>6, <1>7 DEF StagingOwned
<1>11. BackupRight(p)' /\ RestoreRight(p)' /\ SelectionRight(p)'
  BY <1>0, <1>4, <1>5, <1>6 DEF BackupRight, RestoreRight, SelectionRight, Selecting
<1>12. CommandRight(p)'
  BY <1>10, <1>11 DEF CommandRight
<1> QED BY <1>1, <1>7, <1>8, <1>9, <1>12, CommandSteps

\* A file goes by and is remembered as it was read.
LEMMA CopySteps ==
  ASSUME CustodyInv, NEW p \in Process, NEW f \in File, NEW content \in Content \cup {Absent},
         NEW landed, CopyInto(p, f, content, landed), command[p] # None,
         command[p].op \in {"backup", "restore"}, command[p].at = "copying", f \in command[p].todo,
         command[p].op = "backup" => content # Absent /\ content <= edits,
         UNCHANGED <<tree, archive, saved, edits, past, roles>>
  PROVE  CustodyInv'
<1> DEFINE key == StagingOf(p)
           files == [staging[key].files EXCEPT ![f] = landed]
           held == [staging[key] EXCEPT !.files = files]
           copied == [command[p].got EXCEPT ![f] = content]
           new == [command[p] EXCEPT !.got = copied, !.todo = @ \ {f}]
<1>0. /\ CustodyTypeOK /\ TreesWere /\ StagingOwned(p) /\ BackupRight(p) /\ RestoreRight(p)
      /\ command[p] \in Command /\ command[p].got \in Tree
      /\ command[p].nonce # None /\ key \in Target \X Nonce
      /\ staging[key] # None /\ staging[key].owner = p /\ staging[key] \in Staged
      /\ ReviewedFiles(p) \subseteq File
  BY CommandIs DEF CustodyInv, CommandRight, StagingOwned, CustodyTypeOK
<1>1. /\ staging' = [staging EXCEPT ![key] = held]
      /\ command' = [command EXCEPT ![p] = new]
      /\ landed \in Content \cup {Absent, Damaged}
  BY DEF CopyInto
<1>2. held \in Staged /\ held # None /\ held.owner = p
  <2>1. files \in Stored
    BY <1>0, <1>1 DEF Staged, Stored
  <2> HIDE DEF files
  <2>2. held \in Staged /\ held.owner = p
    BY <1>0, <2>1 DEF Staged
  <2> QED BY <2>2, NoneOfThem
<1>3. copied \in Tree /\ copied[f] = content /\ \A g \in File \ {f} : copied[g] = command[p].got[g]
  BY <1>0 DEF Tree
<1> HIDE DEF held, copied
<1>4. /\ new \in Command /\ new.at = "copying" /\ new.nonce = command[p].nonce
      /\ new.todo = command[p].todo \ {f}
      /\ new.target = command[p].target /\ new.op = command[p].op /\ new.id = command[p].id
      /\ new.reviewed = command[p].reviewed /\ new.got = copied
      /\ new.root = command[p].root
  BY <1>0, <1>3 DEF Command
<1> HIDE DEF new
<1>5. command'[p] = new /\ new # None
  BY <1>0, <1>1, <1>4, NoneOfThem DEF CustodyTypeOK
<1>6. StagingOf(p)' = key /\ ReviewedFiles(p)' = ReviewedFiles(p)
  BY <1>4, <1>5 DEF StagingOf, ReviewedFiles
<1> HIDE DEF key
<1>7. staging'[key] = held /\ \A k \in (Target \X Nonce) \ {key} : staging'[k] = staging[k]
  BY <1>0, <1>1 DEF CustodyTypeOK
<1>8. CustodyTypeOK' /\ \A q \in Process \ {p} : command'[q] = command[q]
  BY <1>0, <1>1, <1>2, <1>4 DEF CustodyTypeOK
<1>9. TreesWere'
  BY <1>0 DEF TreesWere, PublishedIsSnapshot, SelectedExists, Exists
<1>10. StagingOwned(p)'
  BY <1>0, <1>2, <1>4, <1>5, <1>6, <1>7 DEF StagingOwned
<1>11. BackupRight(p)'
  <2> SUFFICES ASSUME command[p].op = "backup" PROVE BackupRight(p)'
    BY <1>4, <1>5 DEF BackupRight
  <2>1. command[p].todo \subseteq ReviewedFiles(p)
    BY <1>0 DEF BackupRight
  <2>2. \A g \in File : copied[g] <= edits
    BY <1>0, <1>3 DEF BackupRight
  <2>3. \A g \in File \ ReviewedFiles(p) : copied[g] = Absent
    BY <1>0, <1>3, <2>1 DEF BackupRight
  <2>4. \A g \in ReviewedFiles(p) \ (command[p].todo \ {f}) : copied[g] # Absent
    BY <1>0, <1>3 DEF BackupRight
  <2> QED BY <1>0, <1>4, <1>5, <1>6, <2>1, <2>2, <2>3, <2>4 DEF BackupRight
<1>12. RestoreRight(p)' /\ SelectionRight(p)'
  BY <1>0, <1>4, <1>5 DEF RestoreRight, SelectionRight, Selecting
<1>13. CommandRight(p)'
  BY <1>10, <1>11, <1>12 DEF CommandRight
<1> QED BY <1>0, <1>7, <1>8, <1>9, <1>13, CommandSteps

\* The second walk, which is the moment that the backup is of.
LEMMA RewalkStep ==
  ASSUME CustodyInv, NEW p \in Process, Rewalk(p)
  PROVE  CustodyInv'
<1> DEFINE new == [command[p] EXCEPT !.at = "rehashing", !.todo = ReviewedFiles(p)]
           was == tree[command[p].root]
<1>1. /\ command[p] # None /\ command[p].op = "backup" /\ command[p].at = "copying"
      /\ command[p].todo = {} /\ AsReviewed(p)
      /\ command' = [command EXCEPT ![p] = new]
      /\ UNCHANGED <<tree, archive, staging, saved, edits, past, roles>>
  BY DEF Rewalk, Running, Left, NextPass, Backing
<1>2. /\ CustodyTypeOK /\ TreesWere /\ StagingOwned(p) /\ BackupRight(p)
      /\ command[p] \in Command /\ command[p].root \in Path
      /\ ReviewedFiles(p) \in SUBSET File
  BY <1>1, CommandIs DEF CustodyInv, CommandRight
<1>3. /\ new \in Command /\ new.at = "rehashing" /\ new.nonce = command[p].nonce
      /\ new.todo = ReviewedFiles(p)
      /\ new.target = command[p].target /\ new.op = "backup" /\ new.id = command[p].id
      /\ new.reviewed = command[p].reviewed /\ new.got = command[p].got
      /\ new.root = command[p].root
  BY <1>1, <1>2 DEF Command, Where
<1> HIDE DEF new
<1>4. command'[p] = new /\ new # None
  BY <1>1, <1>2, <1>3, NoneOfThem DEF CustodyTypeOK
<1>5. StagingOf(p)' = StagingOf(p) /\ ReviewedFiles(p)' = ReviewedFiles(p)
  BY <1>3, <1>4 DEF StagingOf, ReviewedFiles
<1>6. was # None /\ was \in past /\ was \in Tree
  BY <1>1, <1>2 DEF AsReviewed, Exists, TreesWere, CustodyTypeOK
<1>7. ASSUME NEW f \in File \ ReviewedFiles(p) PROVE was[f] = command[p].got[f]
  <2>1. command[p].reviewed[f] = 0
    BY DEF ReviewedFiles
  <2>2. Inventory(was)[f] = 0
    BY <1>1, <2>1 DEF AsReviewed
  <2>3. was[f] = Absent
    BY <1>6, <2>2, WorkspaceAssumption DEF Inventory, Tree
  <2> QED BY <1>1, <1>2, <2>3 DEF BackupRight
<1>8. OneMoment(p)'
  <2>1. \A f \in File :
          IF f \in new.todo THEN tree[new.root][f] = new.got[f] => was[f] = new.got[f]
          ELSE was[f] = new.got[f]
    BY <1>3, <1>7
  <2> HIDE DEF was
  <2> QED BY <1>1, <1>4, <1>6, <2>1 DEF OneMoment
<1>9. StagingOwned(p)'
  BY <1>1, <1>2, <1>3, <1>4, <1>5 DEF StagingOwned
<1>10. BackupRight(p)'
  BY <1>1, <1>2, <1>3, <1>4, <1>5, <1>6, <1>8 DEF BackupRight, Exists
<1>11. CommandRight(p)'
  BY <1>3, <1>4, <1>9, <1>10 DEF CommandRight, RestoreRight, SelectionRight, Selecting
<1> QED BY <1>1, <1>3, <1>11, CommandTurns

\* A source file that still is what was copied was that at the second walk.
LEMMA RehashStep ==
  ASSUME CustodyInv, NEW p \in Process, NEW f \in File, RehashSource(p, f)
  PROVE  CustodyInv'
<1> DEFINE new == [command[p] EXCEPT !.todo = @ \ {f}]
<1>1. /\ command[p] # None /\ command[p].op = "backup" /\ command[p].at = "rehashing"
      /\ f \in command[p].todo /\ tree[command[p].root][f] = command[p].got[f]
      /\ command' = [command EXCEPT ![p] = new]
      /\ UNCHANGED <<tree, archive, staging, saved, edits, past, roles>>
  BY DEF RehashSource, Running, Left, DoneWith, Backing
<1>2. /\ CustodyTypeOK /\ TreesWere /\ StagingOwned(p) /\ BackupRight(p)
      /\ command[p] \in Command
  BY <1>1, CommandIs DEF CustodyInv, CommandRight
<1>3. /\ new \in Command /\ new.at = "rehashing" /\ new.nonce = command[p].nonce
      /\ new.todo = command[p].todo \ {f}
      /\ new.target = command[p].target /\ new.op = "backup" /\ new.id = command[p].id
      /\ new.reviewed = command[p].reviewed /\ new.got = command[p].got
      /\ new.root = command[p].root
  BY <1>1, <1>2 DEF Command
<1> HIDE DEF new
<1>4. command'[p] = new /\ new # None
  BY <1>1, <1>2, <1>3, NoneOfThem DEF CustodyTypeOK
<1>5. StagingOf(p)' = StagingOf(p) /\ ReviewedFiles(p)' = ReviewedFiles(p)
  BY <1>3, <1>4 DEF StagingOf, ReviewedFiles
<1>6. OneMoment(p)'
  <2>1. PICK was \in past : \A g \in File :
          IF g \in command[p].todo
          THEN tree[command[p].root][g] = command[p].got[g] => was[g] = command[p].got[g]
          ELSE was[g] = command[p].got[g]
    BY <1>1, <1>2 DEF BackupRight, OneMoment
  <2>2. \A g \in File :
          IF g \in new.todo THEN tree[new.root][g] = new.got[g] => was[g] = new.got[g]
          ELSE was[g] = new.got[g]
    BY <1>1, <1>3, <2>1
  <2> QED BY <1>1, <1>4, <2>2 DEF OneMoment
<1>7. StagingOwned(p)'
  BY <1>1, <1>2, <1>3, <1>4, <1>5 DEF StagingOwned
<1>8. BackupRight(p)'
  BY <1>1, <1>2, <1>3, <1>4, <1>5, <1>6 DEF BackupRight, Exists
<1>9. CommandRight(p)'
  BY <1>3, <1>4, <1>7, <1>8 DEF CommandRight, RestoreRight, SelectionRight, Selecting
<1> QED BY <1>1, <1>3, <1>9, CommandTurns

LEMMA SealSteps ==
  ASSUME CustodyInv, NEW p \in Process, SealBackup(p) \/ SealRestore(p)
  PROVE  CustodyInv'
<1>0. "sealed" \in Where
  BY DEF Where
<1>1. /\ command[p] # None /\ command[p].at = "rehashing" /\ Move(p, "sealed")
      /\ command[p].op \in {"backup", "restore"}
      /\ UNCHANGED <<tree, archive, staging, saved, edits, past, roles>>
  BY DEF SealBackup, SealRestore, Running, Backing, Restoring
<1>2. /\ CustodyTypeOK /\ TreesWere /\ StagingOwned(p) /\ BackupRight(p)
      /\ command[p].got \in Tree
  BY <1>1, CommandIs DEF CustodyInv, CommandRight
<1>3. command[p].nonce # None
  BY <1>1, <1>2 DEF StagingOwned
<1>4. ASSUME command[p].op = "backup"
      PROVE  command[p].got \in past /\ SameBytes(command[p].got, StagedFiles(p))
  <2>1. command[p].todo = {} /\ SameBytes(command[p].got, StagedFiles(p))
    BY <1>4 DEF SealBackup, SealRestore, Running, Backing, Restoring, Left, StagedAsCopied
  <2>2. PICK was \in past : \A f \in File : was[f] = command[p].got[f]
    BY <1>1, <1>2, <1>4, <2>1 DEF BackupRight, OneMoment
  <2>3. was \in Tree
    BY <1>2, <2>2 DEF CustodyTypeOK
  <2>4. was = command[p].got
    BY <1>2, <2>2, <2>3 DEF Tree
  <2> QED BY <2>1, <2>2, <2>4
<1>5. ASSUME command[p].op = "restore" PROVE SameBytes(command[p].reviewed, StagedFiles(p))
  BY <1>5 DEF SealBackup, SealRestore, Running, Backing, Restoring, RestoredAsReviewed
<1> QED BY <1>0, <1>1, <1>3, <1>4, <1>5, MovesOn

\* What a sealed command has staged is what it copied or reviewed.
LEMMA SealedIs ==
  ASSUME CustodyInv, NEW p \in Process, command[p] # None, command[p].at = "sealed",
         command[p].op \in {"backup", "restore"}
  PROVE  /\ StagingOf(p) \in Target \X Nonce /\ staging[StagingOf(p)] # None
         /\ staging[StagingOf(p)].owner = p /\ StagedFiles(p) \in Stored
         /\ command[p].op = "backup" =>
              /\ command[p].id \in BackupId /\ command[p].got \in past /\ command[p].got \in Tree
              /\ SameBytes(command[p].got, StagedFiles(p))
         /\ command[p].op = "restore" =>
              /\ command[p].target \in Path /\ command[p].reviewed \in past
              /\ StagedFiles(p) = command[p].reviewed /\ StagedFiles(p) \in Tree
<1>1. /\ CustodyTypeOK /\ StagingOwned(p) /\ BackupRight(p) /\ RestoreRight(p)
      /\ past \subseteq Tree
  BY DEF CustodyInv, CommandRight, CustodyTypeOK
<1>2. /\ StagingOf(p) \in Target \X Nonce /\ staging[StagingOf(p)] # None
      /\ staging[StagingOf(p)].owner = p /\ command[p].got \in Tree
  BY <1>1, CommandIs DEF StagingOwned
<1>3. StagedFiles(p) \in Stored
  BY <1>1, <1>2 DEF StagedFiles, CustodyTypeOK, Staged
<1>4. ASSUME command[p].op = "restore"
      PROVE  StagedFiles(p) = command[p].reviewed /\ command[p].reviewed \in past
  <2>1. command[p].reviewed \in past /\ \A f \in File : StagedFiles(p)[f] = command[p].reviewed[f]
    BY <1>1, <1>4 DEF RestoreRight, SameBytes
  <2>2. command[p].reviewed \in Tree
    BY <1>1, <2>1
  <2> QED BY <1>3, <2>1, <2>2 DEF Stored, Tree
<1>5. command[p].op = "restore" => command[p].target \in Path
  BY <1>1 DEF RestoreRight
<1>6. command[p].op = "backup" =>
        /\ command[p].id \in BackupId /\ command[p].got \in past
        /\ SameBytes(command[p].got, StagedFiles(p))
  BY <1>1 DEF BackupRight
<1> QED BY <1>1, <1>2, <1>3, <1>4, <1>5, <1>6

LEMMA TakenIs ==
  ASSUME CustodyInv, NEW p \in Process, command[p] # None, command[p].at = "sealed",
         command[p].op \in {"backup", "restore"}, TakeStaging(p)
  PROVE  /\ staging' \in [Target \X Nonce -> Staged \cup {None}]
         /\ command' \in [Process -> Command \cup {None}] /\ command'[p] = None
         /\ \A q \in Process \ {p} : command'[q] = command[q]
         /\ \A key \in Target \X Nonce : staging[key] # None /\ staging[key].owner # p =>
              staging'[key] = staging[key]
<1>1. CustodyTypeOK /\ StagingOf(p) \in Target \X Nonce /\ staging[StagingOf(p)].owner = p
  BY SealedIs DEF CustodyInv
<1> QED BY <1>1 DEF TakeStaging, CustodyTypeOK

LEMMA PublishBackupStep ==
  ASSUME CustodyInv, NEW p \in Process, PublishBackup(p)
  PROVE  CustodyInv'
<1> DEFINE id == command[p].id
           new == [manifest |-> command[p].got, payload |-> StagedFiles(p)]
<1>1. /\ command[p] # None /\ command[p].at = "sealed" /\ command[p].op = "backup"
      /\ archive' = [archive EXCEPT ![id] = new] /\ TakeStaging(p)
      /\ UNCHANGED <<tree, saved, edits, past, roles>>
  BY DEF PublishBackup, Running, Backing
<1>2. /\ id \in BackupId /\ command[p].got \in past /\ command[p].got \in Tree
      /\ StagedFiles(p) \in Stored
  BY <1>1, SealedIs
<1>3. new \in Archive /\ new.manifest \in past
  BY <1>2 DEF Archive
<1> HIDE DEF new, id
<1>4. CustodyTypeOK'
  BY <1>1, <1>2, <1>3, TakenIs DEF CustodyInv, CustodyTypeOK
<1>5. TreesWere'
  <2>1. \A b \in BackupId : archive'[b] = archive[b] \/ archive'[b] = new
    BY <1>1, <1>2 DEF CustodyInv, CustodyTypeOK
  <2> QED BY <1>1, <1>3, <2>1 DEF CustodyInv, TreesWere, PublishedIsSnapshot, SelectedExists, Exists
<1> QED BY <1>1, <1>4, <1>5, TakenIs, CommandSteps DEF CommandRight

LEMMA PublishRestoreStep ==
  ASSUME CustodyInv, NEW p \in Process, PublishRestore(p)
  PROVE  CustodyInv'
<1> DEFINE path == command[p].target
           new == StagedFiles(p)
<1>1. /\ command[p] # None /\ command[p].at = "sealed" /\ command[p].op = "restore"
      /\ tree[path] = None /\ tree' = [tree EXCEPT ![path] = new]
      /\ past' = past \cup {new} /\ TakeStaging(p)
      /\ UNCHANGED <<archive, saved, edits, roles>>
  BY DEF PublishRestore, Running, Restoring, NothingThere
<1>2. path \in Path /\ new \in past /\ new \in Tree
  BY <1>1, SealedIs
<1> HIDE DEF path, new
<1>3. past' = past
  BY <1>1, <1>2
<1>4. CustodyTypeOK'
  BY <1>1, <1>2, <1>3, TakenIs DEF CustodyInv, CustodyTypeOK
<1>5. \A w \in Path : /\ tree[w] # None => tree'[w] = tree[w]
                      /\ tree'[w] = tree[w] \/ tree'[w] = new
  BY <1>1, <1>2 DEF CustodyInv, CustodyTypeOK
<1>6. TreesWere'
  <2>1. saved # None => saved \in Path
    BY DEF CustodyInv, CustodyTypeOK
  <2> QED
    BY <1>1, <1>2, <1>3, <1>5, <2>1
       DEF CustodyInv, TreesWere, PublishedIsSnapshot, SelectedExists, Exists
<1> QED BY <1>1, <1>3, <1>4, <1>5, <1>6, TakenIs, CommandSteps DEF CommandRight

LEMMA SelectionSteps ==
  ASSUME CustodyInv, NEW p \in Process, SelectionStep(p)
  PROVE  CustodyInv'
<1>0. CustodyTypeOK /\ TreesWere
  BY DEF CustodyInv
<1>a. Resolved(p) \in Path /\ Source(p) \in {"environment", "saved", "default"}
  BY <1>0, WorkspaceAssumption DEF Resolved, Source, CustodyTypeOK
<1>b. /\ Empty \in Tree /\ Empty \in [File -> Nat] /\ Empty # None
      /\ \A f \in File : Empty[f] <= edits
  <2>1. Empty \in Tree /\ Empty \in [File -> Nat] /\ \A f \in File : Empty[f] = 0
    BY DEF Empty, Tree, Absent
  <2>2. 0 <= edits
    BY <1>0 DEF CustodyTypeOK
  <2> QED BY <2>1, <2>2, NoneOfThem
<1>1. ASSUME NEW path \in Path, NEW op \in Selecting,
             command' = [command EXCEPT ![p] =
               [op |-> op, at |-> "planned", root |-> path, source |-> Source(p),
                id |-> None, target |-> path, nonce |-> None,
                reviewed |-> Empty, got |-> Empty, todo |-> {}]],
             UNCHANGED <<tree, archive, staging, saved, edits, past, roles>>
      PROVE  CustodyInv'
  <2> DEFINE none == Empty
             new == [op |-> op, at |-> "planned", root |-> path, source |-> Source(p),
                     id |-> None, target |-> path, nonce |-> None,
                     reviewed |-> none, got |-> none, todo |-> {}]
  <2>1. none \in Tree /\ none \in [File -> Nat]
    BY <1>b
  <2>2. command' = [command EXCEPT ![p] = new]
    BY <1>1
  <2> HIDE DEF none
  <2>3. new \in Command
    BY <1>a, <2>1 DEF Command, Custodial, Selecting, Where, Target
  <2>4. new.op = op /\ new.at = "planned" /\ new.nonce = None
    OBVIOUS
  <2> HIDE DEF new
  <2>5. command'[p] = new
    BY <1>0, <2>2 DEF CustodyTypeOK
  <2>6. CommandRight(p)'
    BY <2>4, <2>5
       DEF CommandRight, StagingOwned, BackupRight, RestoreRight, SelectionRight, Selecting
  <2> QED BY <1>1, <2>2, <2>3, <2>6, CommandTurns
<1>2. ASSUME NEW path \in Path, BeginSet(p, path) PROVE CustodyInv'
  BY <1>1, <1>2 DEF BeginSet, Selecting
<1>3. ASSUME BeginInitialize(p) PROVE CustodyInv'
  BY <1>1, <1>3, <1>a DEF BeginInitialize, Selecting
<1>4. ASSUME EnsureRoot(p) PROVE CustodyInv'
  <2> DEFINE root == command[p].root
             moved == [command[p] EXCEPT !.at = "ensured"]
             new == IF command[p].op = "set" THEN moved ELSE None
  <2>1. /\ command[p] # None /\ command[p].op \in Selecting /\ Made(root)
        /\ past' = past \cup {tree'[root]}
        /\ command' = [command EXCEPT ![p] = new]
        /\ UNCHANGED <<archive, staging, saved, edits, roles>>
    BY <1>4 DEF EnsureRoot, Running
  <2>2. command[p] \in Command /\ root \in Path /\ SelectionRight(p)
    BY <1>0, <2>1, CommandIs DEF CustodyInv, CommandRight
  <2>3. /\ moved \in Command /\ moved.op = command[p].op /\ moved.root = root
        /\ moved.at = "ensured" /\ moved.nonce = command[p].nonce
    BY <2>2 DEF Command, Where
  <2> HIDE DEF moved, root
  <2>4. /\ tree' \in [Path -> Tree \cup {None}]
        /\ \A w \in Path : tree[w] # None => tree'[w] = tree[w]
        /\ \A w \in Path : tree'[w] # None => tree'[w] = tree[w] \/ (tree'[w] = Empty /\ w = root)
        /\ tree'[root] # None /\ tree'[root] \in Tree
    <3> DEFINE after == IF tree[root] = None THEN Empty ELSE tree[root]
    <3>1. tree \in [Path -> Tree \cup {None}] /\ root \in Path
      BY <1>0, <2>2 DEF CustodyTypeOK
    <3>2. /\ after \in Tree /\ after # None /\ after \in {tree[root], Empty}
          /\ tree[root] # None => after = tree[root]
      BY <1>b, <3>1
    <3>3. tree' = [tree EXCEPT ![root] = after]
      BY <2>1 DEF Made
    <3> HIDE DEF after
    <3>4. tree'[root] = after /\ \A w \in Path \ {root} : tree'[w] = tree[w]
      BY <3>1, <3>3
    <3>5. tree' \in [Path -> Tree \cup {None}]
      BY <3>1, <3>2, <3>3
    <3>6. ASSUME NEW w \in Path
          PROVE  /\ tree[w] # None => tree'[w] = tree[w]
                 /\ tree'[w] = tree[w] \/ (tree'[w] = Empty /\ w = root)
      <4>1. CASE w = root
        BY <3>2, <3>4, <4>1
      <4>2. CASE w # root
        BY <3>4, <4>2
      <4> QED BY <4>1, <4>2
    <3> QED BY <3>2, <3>4, <3>5, <3>6
  <2>5. command'[p] = new /\ \A q \in Process \ {p} : command'[q] = command[q]
    BY <1>0, <2>1 DEF CustodyTypeOK
  <2>6. tree'[root] \in past \/ tree'[root] = Empty
    BY <1>0, <2>2, <2>4 DEF TreesWere
  <2>7. CustodyTypeOK'
    BY <1>0, <2>1, <2>3, <2>4 DEF CustodyTypeOK
  <2>8. TreesWere'
    <3>1. \A w \in Path : tree'[w] # None => tree'[w] \in past'
      BY <1>0, <2>1, <2>4 DEF TreesWere
    <3>2. \A t \in past' : \A f \in File : t[f] <= edits'
      BY <1>0, <1>b, <2>1, <2>6 DEF TreesWere
    <3>3. PublishedIsSnapshot' /\ SelectedExists'
      BY <1>0, <2>1, <2>4 DEF TreesWere, PublishedIsSnapshot, SelectedExists, Exists, CustodyTypeOK
    <3> QED BY <3>1, <3>2, <3>3 DEF TreesWere
  <2>9. CommandRight(p)'
    <3>1. CASE command[p].op = "set"
      BY <2>1, <2>2, <2>3, <2>4, <2>5, <3>1
         DEF CommandRight, StagingOwned, BackupRight, RestoreRight, SelectionRight, Exists
    <3>2. CASE command[p].op # "set"
      BY <2>5, <3>2 DEF CommandRight
    <3> QED BY <3>1, <3>2
  <2> QED BY <2>1, <2>4, <2>5, <2>7, <2>8, <2>9, CommandSteps
<1>5. ASSUME SavePreference(p) PROVE CustodyInv'
  <2>1. /\ command[p] # None /\ command[p].op = "set" /\ command[p].at = "ensured"
        /\ saved' = command[p].root /\ command' = [command EXCEPT ![p] = None]
        /\ UNCHANGED <<tree, archive, staging, edits, past, roles>>
    BY <1>5 DEF SavePreference, Running
  <2>2. command[p].root \in Path /\ Exists(command[p].root)
    BY <1>0, <2>1, CommandIs DEF CustodyInv, CommandRight, SelectionRight, Selecting
  <2>3. CustodyTypeOK' /\ command'[p] = None /\ \A q \in Process \ {p} : command'[q] = command[q]
    BY <1>0, <2>1, <2>2 DEF CustodyTypeOK
  <2>4. TreesWere'
    BY <1>0, <2>1, <2>2 DEF TreesWere, PublishedIsSnapshot, SelectedExists, Exists
  <2> QED BY <2>1, <2>3, <2>4, CommandSteps DEF CommandRight
<1>6. ASSUME ResetPreference(p) PROVE CustodyInv'
  <2>1. saved' = None /\ UNCHANGED <<tree, archive, staging, edits, past, command, roles>>
    BY <1>6 DEF ResetPreference
  <2>2. CustodyTypeOK' /\ TreesWere'
    BY <1>0, <2>1 DEF CustodyTypeOK, TreesWere, PublishedIsSnapshot, SelectedExists
  <2>3. \A q \in Process : CommandRight(q)'
    BY <2>1 DEF CustodyInv, CommandRight, StagingOwned, BackupRight, RestoreRight, SelectionRight,
       Exists, SameBytes, OneMoment, StagedFiles, StagingOf, ReviewedFiles
  <2> QED BY <2>2, <2>3 DEF CustodyInv
<1> QED BY <1>2, <1>3, <1>4, <1>5, <1>6 DEF SelectionStep

LEMMA BackupSteps ==
  ASSUME CustodyInv, NEW p \in Process, BackupStep(p)
  PROVE  CustodyInv'
<1>0. CustodyTypeOK /\ TreesWere
  BY DEF CustodyInv
<1>1. ASSUME NEW where \in {"confirmed", "checked"}, Running(p, Backing, "planned") \/ Running(p, Backing, "confirmed"),
             Move(p, where), UNCHANGED <<tree, archive, staging, saved, edits, past, roles>>
      PROVE  CustodyInv'
  <2>1. command[p] # None /\ command[p].op \in {"backup", "restore"} /\ where \in Where
    BY <1>1 DEF Running, Backing, Where
  <2> QED BY <1>1, <2>1, MovesOn
<1>2. ASSUME NEW id \in BackupId, PlanBackup(p, id) PROVE CustodyInv'
  BY <1>2, PlanSteps
<1>3. ASSUME ConfirmBackup(p) PROVE CustodyInv'
  BY <1>1, <1>3 DEF ConfirmBackup
<1>4. ASSUME RecheckBackup(p) PROVE CustodyInv'
  BY <1>1, <1>4 DEF RecheckBackup
<1>5. ASSUME NEW nonce \in Nonce, StageBackup(p, nonce) PROVE CustodyInv'
  <2>1. /\ command[p] # None /\ command[p].op = "backup"
        /\ MakeStaging(p, nonce, ReviewedFiles(p))
        /\ UNCHANGED <<tree, archive, saved, edits, past, roles>>
    BY <1>5 DEF StageBackup, Running, Backing
  <2>2. ReviewedFiles(p) \in SUBSET File
    BY DEF ReviewedFiles
  <2> QED BY <2>1, <2>2, StageSteps
<1>6. ASSUME NEW f \in File, NEW landed \in Content \cup {Damaged}, CopySource(p, f, landed)
      PROVE  CustodyInv'
  <2> DEFINE content == tree[command[p].root][f]
  <2>1. /\ command[p] # None /\ command[p].op = "backup" /\ command[p].at = "copying"
        /\ f \in command[p].todo /\ tree[command[p].root] # None /\ content # Absent
        /\ CopyInto(p, f, content, landed)
        /\ UNCHANGED <<tree, archive, saved, edits, past, roles>>
    BY <1>6 DEF CopySource, Running, Backing, Left, Exists
  <2>2. tree[command[p].root] \in past /\ tree[command[p].root] \in Tree
    BY <1>0, <2>1, CommandIs DEF TreesWere, CustodyTypeOK
  <2>3. content \in Content \cup {Absent} /\ content <= edits
    BY <1>0, <2>2 DEF TreesWere, Tree
  <2> HIDE DEF content
  <2> QED BY <2>1, <2>3, CopySteps
<1>7. ASSUME Rewalk(p) PROVE CustodyInv'
  BY <1>7, RewalkStep
<1>8. ASSUME NEW f \in File, RehashSource(p, f) PROVE CustodyInv'
  BY <1>8, RehashStep
<1>9. ASSUME SealBackup(p) PROVE CustodyInv'
  BY <1>9, SealSteps
<1>10. ASSUME PublishBackup(p) PROVE CustodyInv'
  BY <1>10, PublishBackupStep
<1> QED BY <1>2, <1>3, <1>4, <1>5, <1>6, <1>7, <1>8, <1>9, <1>10 DEF BackupStep

LEMMA RestoreSteps ==
  ASSUME CustodyInv, NEW p \in Process, RestoreStep(p)
  PROVE  CustodyInv'
<1>0. CustodyTypeOK /\ TreesWere
  BY DEF CustodyInv
<1>1. ASSUME NEW where \in {"confirmed", "checked"},
             Running(p, Restoring, "planned") \/ Running(p, Restoring, "confirmed"),
             Move(p, where), UNCHANGED <<tree, archive, staging, saved, edits, past, roles>>
      PROVE  CustodyInv'
  <2>1. command[p] # None /\ command[p].op \in {"backup", "restore"} /\ where \in Where
    BY <1>1 DEF Running, Restoring, Where
  <2> QED BY <1>1, <2>1, MovesOn
<1>2. ASSUME NEW id \in BackupId, NEW destination \in Path, PlanRestore(p, id, destination)
      PROVE  CustodyInv'
  BY <1>2, PlanSteps
<1>3. ASSUME ConfirmRestore(p) PROVE CustodyInv'
  BY <1>1, <1>3 DEF ConfirmRestore
<1>4. ASSUME RecheckRestore(p) PROVE CustodyInv'
  BY <1>1, <1>4 DEF RecheckRestore
<1>5. ASSUME NEW nonce \in Nonce, StageRestore(p, nonce) PROVE CustodyInv'
  <2>1. /\ command[p] # None /\ command[p].op = "restore"
        /\ MakeStaging(p, nonce, Present(command[p].reviewed))
        /\ UNCHANGED <<tree, archive, saved, edits, past, roles>>
    BY <1>5 DEF StageRestore, Running, Restoring
  <2>2. Present(command[p].reviewed) \in SUBSET File
    BY DEF Present
  <2> QED BY <2>1, <2>2, StageSteps
<1>6. ASSUME NEW f \in File, NEW landed \in Content \cup {Damaged}, CopyPayload(p, f, landed)
      PROVE  CustodyInv'
  <2> DEFINE content == command[p].reviewed[f]
  <2>1. /\ command[p] # None /\ command[p].op = "restore" /\ command[p].at = "copying"
        /\ f \in command[p].todo /\ CopyInto(p, f, content, landed)
        /\ UNCHANGED <<tree, archive, saved, edits, past, roles>>
    BY <1>6 DEF CopyPayload, Running, Restoring, Left
  <2>2. command[p].reviewed \in Tree
    BY <1>0, <2>1 DEF CustodyInv, CommandRight, RestoreRight, CustodyTypeOK
  <2>3. content \in Content \cup {Absent}
    BY <2>2 DEF Tree
  <2> HIDE DEF content
  <2> QED BY <2>1, <2>3, CopySteps
<1>7. ASSUME ReverifyBackup(p) PROVE CustodyInv'
  <2>1. /\ command[p] # None /\ command[p].op = "restore" /\ command[p].at = "copying"
        /\ Move(p, "rehashing") /\ "rehashing" \in Where
        /\ UNCHANGED <<tree, archive, staging, saved, edits, past, roles>>
    BY <1>7 DEF ReverifyBackup, Running, Restoring, Where
  <2>2. command[p].nonce # None
    BY <2>1 DEF CustodyInv, CommandRight, StagingOwned
  <2> QED BY <2>1, <2>2, MovesOn
<1>8. ASSUME SealRestore(p) PROVE CustodyInv'
  BY <1>8, SealSteps
<1>9. ASSUME PublishRestore(p) PROVE CustodyInv'
  BY <1>9, PublishRestoreStep
<1> QED BY <1>2, <1>3, <1>4, <1>5, <1>6, <1>7, <1>8, <1>9 DEF RestoreStep

LEMMA OrphanIs == Orphan \in Staged /\ Orphan # None /\ Orphan.owner = None
<1>1. Empty \in Stored
  BY DEF Empty, Stored
<1>2. Orphan \in Staged /\ Orphan.owner = None
  BY <1>1 DEF Orphan, Staged
<1> QED BY <1>2, NoneOfThem

\* What a command that ends early does to the staging directories.
LEMMA EndsEarlyAs ==
  ASSUME CustodyInv, NEW p \in Process, EndEarly(p)
  PROVE  /\ command[p] # None /\ command' = [command EXCEPT ![p] = None]
         /\ staging' \in [Target \X Nonce -> Staged \cup {None}]
         /\ \A key \in Target \X Nonce : staging[key] # None /\ staging[key].owner # p =>
              staging'[key] = staging[key]
         /\ UNCHANGED <<tree, archive, saved, edits, past, roles>>
<1>0. CustodyTypeOK
  BY DEF CustodyInv
<1>1. CASE Refuse(p)
  BY <1>0, <1>1 DEF Refuse, CustodyTypeOK
<1>2. ASSUME NEW left \in {None, Orphan}, FailAndClean(p, left)
      PROVE  /\ command[p] # None /\ command' = [command EXCEPT ![p] = None]
             /\ staging' \in [Target \X Nonce -> Staged \cup {None}]
             /\ \A key \in Target \X Nonce : staging[key] # None /\ staging[key].owner # p =>
                  staging'[key] = staging[key]
             /\ UNCHANGED <<tree, archive, saved, edits, past, roles>>
  <2>1. /\ command[p] # None /\ command[p].nonce # None
        /\ staging' = [staging EXCEPT ![StagingOf(p)] = left]
        /\ command' = [command EXCEPT ![p] = None]
        /\ UNCHANGED <<tree, archive, saved, edits, past, roles>>
    BY <1>2 DEF FailAndClean, HasStaging
  <2>2. StagingOf(p) \in Target \X Nonce /\ staging[StagingOf(p)].owner = p
    BY <1>0, <2>1, CommandIs DEF CustodyInv, CommandRight, StagingOwned
  <2>3. left \in Staged \cup {None}
    BY OrphanIs
  <2> QED BY <1>0, <2>1, <2>2, <2>3 DEF CustodyTypeOK
<1>3. CASE Die(p)
  <2>1. /\ command[p] # None /\ command' = [command EXCEPT ![p] = None]
        /\ staging' = [key \in Target \X Nonce |->
                         IF staging[key] # None /\ staging[key].owner = p
                         THEN Orphan ELSE staging[key]]
        /\ UNCHANGED <<tree, archive, saved, edits, past, roles>>
    BY <1>3 DEF Die
  <2> HIDE DEF Orphan
  <2> QED BY <1>0, <2>1, OrphanIs DEF CustodyTypeOK
<1> QED BY <1>1, <1>2, <1>3 DEF EndEarly

LEMMA EndEarlyStep ==
  ASSUME CustodyInv, NEW p \in Process, EndEarly(p)
  PROVE  CustodyInv'
<1>1. CustodyTypeOK' /\ command'[p] = None /\ \A q \in Process \ {p} : command'[q] = command[q]
  BY EndsEarlyAs DEF CustodyInv, CustodyTypeOK
<1>2. TreesWere'
  BY EndsEarlyAs DEF CustodyInv, TreesWere, PublishedIsSnapshot, SelectedExists, Exists
<1> QED BY <1>1, <1>2, EndsEarlyAs, CommandSteps DEF CommandRight

\* An edit writes what no tree held before, or removes a file.
LEMMA EditIs ==
  ASSUME CustodyInv, NEW path \in Path, NEW f \in File,
         NEW content \in Content \cup {Absent}, Edit(path, f, content)
  PROVE  /\ tree[path] \in Tree /\ tree'[path] \in Tree /\ tree'[path] # None
         /\ tree' = [tree EXCEPT ![path] = tree'[path]]
         /\ \A g \in File \ {f} : tree'[path][g] = tree[path][g]
         /\ tree'[path][f] \in {Absent, edits + 1}
         /\ past' = past \cup {tree'[path]} /\ edits' = edits + 1 /\ edits < MaxEdits
         /\ UNCHANGED <<archive, staging, saved, command, roles>>
<1> DEFINE new == [tree[path] EXCEPT ![f] = content]
<1>1. /\ tree[path] # None /\ edits < MaxEdits /\ edits' = edits + 1
      /\ content \in {edits + 1, Absent} /\ tree' = [tree EXCEPT ![path] = new]
      /\ past' = past \cup {tree'[path]}
      /\ UNCHANGED <<archive, staging, saved, command, roles>>
  BY DEF Edit, Exists
<1>2. tree \in [Path -> Tree \cup {None}]
  BY DEF CustodyInv, CustodyTypeOK
<1>3. tree[path] \in Tree
  BY <1>1, <1>2
<1>4. /\ new \in Tree /\ new[f] = content
      /\ \A g \in File \ {f} : new[g] = tree[path][g]
  BY <1>3 DEF Tree
<1> HIDE DEF new
<1>5. tree'[path] = new /\ new # None
  BY <1>1, <1>2, <1>4, NoneOfThem
<1> QED BY <1>1, <1>3, <1>4, <1>5

LEMMA WorldStep ==
  ASSUME CustodyInv, World
  PROVE  CustodyInv'
<1>0. CustodyTypeOK /\ TreesWere
  BY DEF CustodyInv
<1>1. ASSUME NEW path \in Path, NEW f \in File, NEW content \in Content \cup {Absent},
             Edit(path, f, content)
      PROVE  CustodyInv'
  <2> DEFINE new == tree'[path]
  <2>1. /\ tree[path] \in Tree /\ new \in Tree /\ new # None
        /\ tree' = [tree EXCEPT ![path] = new]
        /\ \A g \in File \ {f} : new[g] = tree[path][g]
        /\ new[f] \in {Absent, edits + 1}
        /\ past' = past \cup {new} /\ edits' = edits + 1 /\ edits < MaxEdits
        /\ UNCHANGED <<archive, staging, saved, command, roles>>
    BY <1>1, EditIs
  <2>2. \A w \in Path \ {path} : tree'[w] = tree[w]
    BY <1>0, <2>1 DEF CustodyTypeOK
  <2>3. edits \in Int /\ 0 <= edits /\ MaxEdits \in Int
    BY <1>0, WorkspaceAssumption DEF CustodyTypeOK
  <2>4. CustodyTypeOK'
    <3>1. tree' \in [Path -> Tree \cup {None}]
      BY <1>0, <2>1 DEF CustodyTypeOK
    <3>2. past' \subseteq Tree
      BY <1>0, <2>1 DEF CustodyTypeOK
    <3>3. edits' \in 0..MaxEdits
      BY <2>1, <2>3
    <3> QED BY <1>0, <2>1, <3>1, <3>2, <3>3 DEF CustodyTypeOK
  <2>5. tree[path] \in past
    BY <1>0, <2>1, NoneOfThem DEF TreesWere
  <2>6. \A t \in past : \A g \in File : t[g] \in Int /\ t[g] <= edits
    BY <1>0 DEF TreesWere, CustodyTypeOK, Tree, Content, Absent
  <2>7. \A g \in File : new[g] <= edits'
    BY <2>1, <2>3, <2>5, <2>6 DEF Absent
  <2>8. TreesWere'
    <3>1. \A w \in Path : tree'[w] # None => tree'[w] \in past'
      BY <1>0, <2>1, <2>2 DEF TreesWere
    <3>2. \A t \in past' : \A g \in File : t[g] <= edits'
      BY <2>1, <2>3, <2>6, <2>7
    <3>3. PublishedIsSnapshot'
      BY <1>0, <2>1 DEF TreesWere, PublishedIsSnapshot
    <3>4. SelectedExists'
      BY <1>0, <2>1, <2>2 DEF TreesWere, SelectedExists, Exists, CustodyTypeOK
    <3> QED BY <3>1, <3>2, <3>3, <3>4 DEF TreesWere
  <2>9. ASSUME NEW w \in Path, tree[w] # None
        PROVE  /\ tree'[w] # None
               /\ \A g \in File : tree'[w][g] = tree[w][g] \/ tree'[w][g] \in {Absent, edits + 1}
    <3>1. CASE w = path
      BY <2>1, <3>1
    <3>2. CASE w # path
      BY <2>2, <2>9, <3>2
    <3> QED BY <3>1, <3>2
  <2>10. ASSUME NEW q \in Process PROVE CommandRight(q)'
    <3>1. command'[q] = command[q] /\ past \subseteq past' /\ edits' \in Int /\ edits <= edits'
      BY <2>1, <2>3
    <3> QED BY <2>1, <2>9, <3>1, OthersGoOn
  <2> QED BY <2>4, <2>8, <2>10 DEF CustodyInv
<1>2. ASSUME NEW id \in BackupId, archive' \in [BackupId -> Archive \cup {None}],
             \A b \in BackupId : archive'[b] # None => /\ archive[b] # None
                                                       /\ archive'[b].manifest = archive[b].manifest,
             UNCHANGED <<tree, staging, saved, edits, past, command, roles>>
      PROVE  CustodyInv'
  <2>1. CustodyTypeOK'
    BY <1>0, <1>2 DEF CustodyTypeOK
  <2>2. TreesWere'
    BY <1>0, <1>2 DEF TreesWere, PublishedIsSnapshot, SelectedExists, Exists
  <2>3. ASSUME NEW q \in Process PROVE CommandRight(q)'
    <3>1. /\ command'[q] = command[q] /\ past \subseteq past' /\ edits' \in Int /\ edits <= edits'
          /\ tree' = tree /\ staging' = staging
      BY <1>0, <1>2 DEF CustodyTypeOK
    <3> QED BY <3>1, OthersGoOn
  <2> QED BY <2>1, <2>2, <2>3 DEF CustodyInv
<1>3. ASSUME NEW id \in BackupId, NEW f \in File, DamageArchive(id, f) PROVE CustodyInv'
  <2> DEFINE stored == [archive[id].payload EXCEPT ![f] = Damaged]
             new == [archive[id] EXCEPT !.payload = stored]
  <2>1. /\ archive[id] # None /\ archive' = [archive EXCEPT ![id] = new]
        /\ UNCHANGED <<tree, staging, saved, edits, past, command, roles>>
    BY <1>3 DEF DamageArchive
  <2>2. archive[id] \in Archive
    BY <1>0, <2>1 DEF CustodyTypeOK
  <2>3. stored \in Stored
    BY <2>2 DEF Archive, Stored
  <2> HIDE DEF stored
  <2>4. new \in Archive /\ new.manifest = archive[id].manifest
    BY <2>2, <2>3 DEF Archive
  <2> HIDE DEF new
  <2> QED BY <1>0, <1>2, <2>1, <2>4 DEF CustodyTypeOK
<1>4. ASSUME NEW id \in BackupId, DiscardArchive(id) PROVE CustodyInv'
  BY <1>0, <1>2, <1>4 DEF DiscardArchive, CustodyTypeOK
<1> QED BY <1>1, <1>3, <1>4 DEF World

LEMMA CustodyInvInit == CustodyInit => CustodyInv
<1> SUFFICES ASSUME CustodyInit PROVE CustodyInv
  OBVIOUS
<1>1. PICK first \in [File -> {Absent, 1}] \cup {None} :
        tree = [path \in Path |-> IF path = Default THEN first ELSE None]
  BY DEF CustodyInit
<1>2. /\ past = {tree[path] : path \in Path} \ {None} /\ edits = 1 /\ saved = None
      /\ archive = [id \in BackupId |-> None]
      /\ staging = [key \in Target \X Nonce |-> None]
      /\ command = [p \in Process |-> None] /\ roles \in Roles
  BY DEF CustodyInit
<1>3. /\ MaxEdits \in Nat \ {0} /\ 1 \in Content /\ 1 \in 0..MaxEdits
  BY WorkspaceAssumption DEF Content
<1>4. first # None => first \in Tree /\ \A f \in File : first[f] <= 1
  BY <1>3 DEF Tree, Absent
<1>5. tree \in [Path -> Tree \cup {None}] /\ past \subseteq {first} \ {None}
  BY <1>1, <1>2, <1>4
<1>6. CustodyTypeOK
  BY <1>2, <1>3, <1>4, <1>5 DEF CustodyTypeOK
<1>7. TreesWere
  BY <1>2, <1>4, <1>5 DEF TreesWere, PublishedIsSnapshot, SelectedExists
<1>8. \A p \in Process : CommandRight(p)
  BY <1>2 DEF CommandRight
<1> QED BY <1>6, <1>7, <1>8 DEF CustodyInv

LEMMA CustodyInvStep == CustodyInv /\ [CustodyNext]_custodyVars => CustodyInv'
<1> SUFFICES ASSUME CustodyInv, [CustodyNext]_custodyVars PROVE CustodyInv'
  OBVIOUS
<1>1. ASSUME NEW p \in Process, CustodyStep(p) PROVE CustodyInv'
  BY <1>1, BackupSteps, RestoreSteps, SelectionSteps, EndEarlyStep DEF CustodyStep
<1>2. CASE UNCHANGED custodyVars
  <2>1. CustodyTypeOK' /\ TreesWere'
    BY <1>2 DEF custodyVars, CustodyInv, CustodyTypeOK, TreesWere, PublishedIsSnapshot,
       SelectedExists, Exists
  <2>2. ASSUME NEW q \in Process PROVE CommandRight(q)'
    <3>1. /\ command'[q] = command[q] /\ past \subseteq past' /\ edits' \in Int /\ edits <= edits'
          /\ tree' = tree /\ staging' = staging
      BY <1>2 DEF custodyVars, CustodyInv, CustodyTypeOK
    <3> QED BY <3>1, OthersGoOn
  <2> QED BY <2>1, <2>2 DEF CustodyInv
<1> QED BY <1>1, <1>2, WorldStep DEF CustodyNext

LEMMA CustodyAlways == ShellSpec => []CustodyInv
<1>1. ShellInit => CustodyInv
  BY FamiliesAlone, CustodyInvInit
<1>2. CustodyInv /\ [ShellNext]_shellVars => CustodyInv'
  BY FamiliesAlone, CustodyInvStep
<1> QED BY <1>1, <1>2, PTL DEF ShellSpec

\* The steps that put anything into a workspace or an archive, or take it out.
LEMMA OtherStepsLeave ==
  ASSUME CustodyInv, [CustodyNext]_custodyVars,
         ~\E path \in Path, f \in File, content \in Content \cup {Absent} :
            Edit(path, f, content),
         ~\E id \in BackupId : DiscardArchive(id) \/ \E f \in File : DamageArchive(id, f),
         ~\E p \in Process : PublishBackup(p) \/ PublishRestore(p) \/ EnsureRoot(p)
  PROVE  UNCHANGED <<tree, archive, past>>
<1>1. ASSUME NEW p \in Process, CustodyStep(p) PROVE UNCHANGED <<tree, archive, past>>
  <2>1. CASE EndEarly(p)
    BY <2>1, EndsEarlyAs
  <2>2. CASE BackupStep(p)
    BY <2>2 DEF BackupStep, PlanBackup, ConfirmBackup, RecheckBackup, StageBackup, CopySource,
       Rewalk, RehashSource, SealBackup
  <2>3. CASE RestoreStep(p)
    BY <2>3 DEF RestoreStep, PlanRestore, ConfirmRestore, RecheckRestore, StageRestore,
       CopyPayload, ReverifyBackup, SealRestore
  <2>4. CASE SelectionStep(p)
    BY <2>4 DEF SelectionStep, BeginSet, BeginInitialize, SavePreference, ResetPreference
  <2> QED BY <1>1, <2>1, <2>2, <2>3, <2>4 DEF CustodyStep
<1>2. CASE UNCHANGED custodyVars
  BY <1>2 DEF custodyVars
<1> QED BY <1>1, <1>2 DEF CustodyNext, World

\* A published archive is what was copied, which the staged files were read back against.
LEMMA PublishedIs ==
  ASSUME CustodyInv, NEW p \in Process, PublishBackup(p)
  PROVE  \E id \in BackupId, new \in Archive :
           /\ archive[id] = None /\ archive' = [archive EXCEPT ![id] = new] /\ new # None
           /\ new.manifest \in past /\ new.manifest \in Tree /\ SameBytes(new.manifest, new.payload)
           /\ UNCHANGED <<tree, past>>
<1> DEFINE id == command[p].id
           m == command[p].got
           stored == StagedFiles(p)
           new == [manifest |-> m, payload |-> stored]
<1>1. /\ command[p] # None /\ command[p].at = "sealed" /\ command[p].op = "backup"
      /\ archive[id] = None /\ archive' = [archive EXCEPT ![id] = new]
      /\ UNCHANGED <<tree, past>>
  BY DEF PublishBackup, Running, Backing
<1>2. /\ id \in BackupId /\ m \in past /\ m \in Tree /\ stored \in Stored
      /\ SameBytes(m, stored)
  BY <1>1, SealedIs
<1> HIDE DEF m, stored, id
<1>3. new \in Archive /\ new.manifest = m /\ new.payload = stored
  BY <1>2 DEF Archive
<1> HIDE DEF new
<1> QED BY <1>1, <1>2, <1>3, NoneOfThem

LEMMA PublishedVerify ==
  ASSUME CustodyInv, [CustodyNext]_custodyVars, NEW id \in BackupId,
         archive[id] = None, archive'[id] # None
  PROVE  Verifies(id)'
<1>0. archive \in [BackupId -> Archive \cup {None}]
  BY DEF CustodyInv, CustodyTypeOK
<1>1. ASSUME NEW p \in Process, PublishBackup(p) PROVE Verifies(id)'
  <2>1. PICK b \in BackupId, new \in Archive :
          /\ archive' = [archive EXCEPT ![b] = new] /\ SameBytes(new.manifest, new.payload)
    BY <1>1, PublishedIs
  <2>2. archive'[id] = new
    BY <1>0, <2>1
  <2> QED BY <2>1, <2>2 DEF Verifies, Readable, PayloadMatches, SameBytes
<1>2. ASSUME \/ \E path \in Path, f \in File, content \in Content \cup {Absent} :
                  Edit(path, f, content)
             \/ \E b \in BackupId : DiscardArchive(b) \/ \E f \in File : DamageArchive(b, f)
             \/ \E p \in Process : PublishRestore(p) \/ EnsureRoot(p)
      PROVE  FALSE
  BY <1>0, <1>2 DEF Edit, DiscardArchive, DamageArchive, PublishRestore, EnsureRoot
<1> QED BY <1>1, <1>2, OtherStepsLeave

\* Whoever makes or fills a staging directory leaves the others where they are.
LEMMA StagingSteps ==
  ASSUME CustodyInv, NEW p \in Process,
         \/ \E nonce \in Nonce : StageBackup(p, nonce) \/ StageRestore(p, nonce)
         \/ \E f \in File, landed \in Content \cup {Damaged} :
              CopySource(p, f, landed) \/ CopyPayload(p, f, landed),
         NEW key \in Target \X Nonce, staging[key] # None
  PROVE  staging'[key] # None
<1>0. CustodyTypeOK /\ staging[key] \in Staged
  BY DEF CustodyInv, CustodyTypeOK
<1>1. ASSUME NEW nonce \in Nonce, StageBackup(p, nonce) \/ StageRestore(p, nonce)
      PROVE  staging'[key] # None
  <2> DEFINE fresh == <<command[p].target, nonce>>
             held == [owner |-> p, files |-> Empty]
  <2>1. staging[fresh] = None /\ staging' = [staging EXCEPT ![fresh] = held]
    BY <1>1 DEF StageBackup, StageRestore, MakeStaging
  <2> HIDE DEF fresh, held
  <2> QED BY <1>0, <2>1 DEF CustodyTypeOK
<1>2. ASSUME NEW f \in File, NEW landed \in Content \cup {Damaged},
             CopySource(p, f, landed) \/ CopyPayload(p, f, landed)
      PROVE  staging'[key] # None
  <2> DEFINE own == StagingOf(p)
             files == [staging[own].files EXCEPT ![f] = landed]
             held == [staging[own] EXCEPT !.files = files]
  <2>1. staging' = [staging EXCEPT ![own] = held]
    BY <1>2 DEF CopySource, CopyPayload, CopyInto
  <2>2. CASE key = own
    <3>1. files \in Stored
      BY <1>0, <2>2 DEF Staged, Stored
    <3> HIDE DEF files, own
    <3>2. held \in Staged
      BY <1>0, <2>2, <3>1 DEF Staged
    <3> HIDE DEF held
    <3> QED BY <1>0, <2>1, <2>2, <3>2, NoneOfThem DEF CustodyTypeOK
  <2>3. CASE key # own
    <3> HIDE DEF own, held
    <3> QED BY <1>0, <2>1, <2>3 DEF CustodyTypeOK
  <2> QED BY <2>2, <2>3
<1> QED BY <1>1, <1>2

LEMMA StagingStays ==
  ASSUME CustodyInv, [CustodyNext]_custodyVars, NEW key \in Target \X Nonce,
         staging[key] # None, staging'[key] = None
  PROVE  \E p \in Process : /\ command[p] # None /\ command'[p] = None
                            /\ staging[key].owner = p
<1>0. CustodyTypeOK
  BY DEF CustodyInv
<1>1. ASSUME NEW p \in Process, CustodyStep(p)
      PROVE  /\ command[p] # None /\ command'[p] = None
             /\ staging[key].owner = p
  <2>1. CASE EndEarly(p)
    <3>1. command'[p] = None
      BY <1>0, <2>1, EndsEarlyAs DEF CustodyTypeOK
    <3> QED BY <2>1, <3>1, EndsEarlyAs
  <2>2. CASE PublishBackup(p) \/ PublishRestore(p)
    <3>1. /\ command[p] # None /\ command[p].at = "sealed" /\ TakeStaging(p)
          /\ command[p].op \in {"backup", "restore"}
      BY <2>2 DEF PublishBackup, PublishRestore, Running, Backing, Restoring
    <3> QED BY <3>1, TakenIs
  <2>3. CASE \/ \E nonce \in Nonce : StageBackup(p, nonce) \/ StageRestore(p, nonce)
             \/ \E f \in File, landed \in Content \cup {Damaged} :
                  CopySource(p, f, landed) \/ CopyPayload(p, f, landed)
    BY <2>3, StagingSteps
  <2>4. CASE UNCHANGED staging
    BY <2>4
  <2>5. CASE BackupStep(p)
    BY <2>2, <2>3, <2>4, <2>5 DEF BackupStep, PlanBackup, ConfirmBackup, RecheckBackup,
       Rewalk, RehashSource, SealBackup
  <2>6. CASE RestoreStep(p)
    BY <2>2, <2>3, <2>4, <2>6 DEF RestoreStep, PlanRestore, ConfirmRestore, RecheckRestore,
       ReverifyBackup, SealRestore
  <2>7. CASE SelectionStep(p)
    BY <2>4, <2>7 DEF SelectionStep, BeginSet, BeginInitialize, EnsureRoot, SavePreference,
       ResetPreference
  <2> QED BY <1>1, <2>1, <2>5, <2>6, <2>7 DEF CustodyStep
<1>2. ASSUME World \/ UNCHANGED custodyVars PROVE FALSE
  BY <1>2 DEF World, Edit, DamageArchive, DiscardArchive, custodyVars
<1> QED BY <1>1, <1>2 DEF CustodyNext

\* Whatever is written, damaged, refused or killed meanwhile, a backup is a tree its
\* workspace was at one moment and verifies when it appears, staged files are cleared
\* away by the command that made them alone, and a saved preference leads to a
\* directory (workspace_backup.py, workspace_restore.py, workspace_management.py).
THEOREM WorkspacesAreKept == ShellSpec => WorkspacesStand
<1>1. CustodyInv => PublishedIsSnapshot /\ SelectedExists
  BY DEF CustodyInv, TreesWere
<1>2. CustodyInv /\ [ShellNext]_shellVars =>
        [\A id \in BackupId : archive[id] = None =>
           archive'[id] = None \/ Verifies(id)']_custodyVars
  BY FamiliesAlone, PublishedVerify
<1>3. CustodyInv /\ [ShellNext]_shellVars =>
        [\A key \in Target \X Nonce : staging[key] # None =>
           \/ staging'[key] # None
           \/ \E p \in Process : /\ command[p] # None /\ command'[p] = None
                                 /\ staging[key].owner = p]_custodyVars
  BY FamiliesAlone, StagingStays
<1>4. ShellSpec => []PublishedIsSnapshot /\ []SelectedExists
  BY <1>1, CustodyAlways, PTL
<1>5. ShellSpec => PublishedVerifies
  BY <1>2, CustodyAlways, PTL DEF ShellSpec, PublishedVerifies
<1>6. ShellSpec => StagingKept
  BY <1>3, CustodyAlways, PTL DEF ShellSpec, StagingKept
<1> QED BY <1>4, <1>5, <1>6 DEF WorkspacesStand

\* The files and the calls of the workspace commands, the setups, the launcher and the
\* bootstrap scripts have the form their handlers rely on.
THEOREM ShellTypes == ShellSpec => []ShellTypeOK
<1>1. CustodyInv /\ ClassroomInv /\ LaunchInv /\ BootstrapInv => ShellTypeOK
  BY DEF CustodyInv, ClassroomInv, LaunchInv, BootstrapInv, ShellTypeOK
<1> QED BY <1>1, CustodyAlways, ClassroomAlways, LaunchAlways, BootstrapAlways, PTL

-----------------------------------------------------------------------------
(* Backup and restore implement a store of whole trees.                    *)

LEMMA EditWrites ==
  ASSUME CustodyInv, NEW path \in Path, NEW f \in File,
         NEW content \in Content \cup {Absent}, Edit(path, f, content)
  PROVE  Store!Write(path)
<1> DEFINE new == tree'[path]
<1>1. /\ tree[path] \in Tree /\ new \in Tree
      /\ tree' = [tree EXCEPT ![path] = new]
      /\ \A g \in File \ {f} : new[g] = tree[path][g]
      /\ past' = past \cup {new} /\ UNCHANGED archive
  BY EditIs
<1>2. \A g, h \in DOMAIN new : new[g] # tree[path][g] /\ new[h] # tree[path][h] => g = h
  BY <1>1 DEF Tree
<1>3. tree[path] # None
  BY <1>1, NoneOfThem
<1> HIDE DEF new
<1> QED BY <1>1, <1>2, <1>3 DEF Store!Write

LEMMA RestoreAppears ==
  ASSUME CustodyInv, NEW p \in Process, PublishRestore(p)
  PROVE  \E path \in Path : Store!Appear(path)
<1> DEFINE path == command[p].target
           new == StagedFiles(p)
<1>1. /\ command[p] # None /\ command[p].at = "sealed" /\ command[p].op = "restore"
      /\ tree[path] = None /\ tree' = [tree EXCEPT ![path] = new]
      /\ past' = past \cup {new} /\ UNCHANGED archive
  BY DEF PublishRestore, Running, Restoring, NothingThere
<1>2. path \in Path /\ new \in past
  BY <1>1, SealedIs
<1> HIDE DEF path, new
<1> QED BY <1>1, <1>2 DEF Store!Appear

LEMMA EnsureAppears ==
  ASSUME CustodyInv, NEW p \in Process, EnsureRoot(p)
  PROVE  (\E path \in Path : Store!Appear(path)) \/ UNCHANGED <<tree, archive, past>>
<1> DEFINE path == command[p].root
<1>0. CustodyTypeOK /\ TreesWere
  BY DEF CustodyInv
<1>1. /\ command[p] # None /\ UNCHANGED archive
      /\ tree' = [tree EXCEPT ![path] = IF tree[path] = None THEN Empty ELSE tree[path]]
      /\ past' = past \cup {tree'[path]}
  BY DEF EnsureRoot, Running, Made
<1>2. path \in Path
  BY <1>0, <1>1, CommandIs
<1> HIDE DEF path
<1>3. CASE tree[path] = None
  <2> DEFINE new == Empty
  <2>1. tree' = [tree EXCEPT ![path] = new]
    BY <1>1, <1>3
  <2> HIDE DEF new
  <2>2. tree'[path] = new
    BY <1>0, <1>2, <2>1 DEF CustodyTypeOK
  <2>3. new = Empty
    BY DEF new
  <2> QED BY <1>1, <1>2, <1>3, <2>1, <2>2, <2>3 DEF Store!Appear
<1>4. CASE tree[path] # None
  <2>1. tree' = tree
    BY <1>0, <1>1, <1>2, <1>4 DEF CustodyTypeOK
  <2>2. tree[path] \in past
    BY <1>0, <1>2, <1>4 DEF TreesWere
  <2> QED BY <1>1, <2>1, <2>2
<1> QED BY <1>3, <1>4

LEMMA PublishKeeps ==
  ASSUME CustodyInv, NEW p \in Process, PublishBackup(p)
  PROVE  \E id \in BackupId : Store!Keep(id)
<1>1. PICK id \in BackupId, new \in Archive :
        /\ archive[id] = None /\ archive' = [archive EXCEPT ![id] = new] /\ new # None
        /\ new.manifest \in past /\ UNCHANGED <<tree, past>>
  BY PublishedIs
<1>2. archive \in [BackupId -> Archive \cup {None}]
  BY DEF CustodyInv, CustodyTypeOK
<1> DEFINE kept == [b \in BackupId |-> IF archive[b] = None THEN None ELSE archive[b].manifest]
           after == [b \in BackupId |-> IF archive'[b] = None THEN None ELSE archive'[b].manifest]
           m == new.manifest
<1>3. \A b \in BackupId : archive'[b] = IF b = id THEN new ELSE archive[b]
  BY <1>1, <1>2
<1>4. after = [kept EXCEPT ![id] = m] /\ kept[id] = None
  <2>1. \A b \in BackupId \ {id} : after[b] = kept[b]
    BY <1>3
  <2>2. after[id] = m /\ kept[id] = None
    BY <1>1, <1>3
  <2> HIDE DEF m
  <2>3. after = [b \in BackupId |-> IF b = id THEN m ELSE kept[b]]
    BY <2>1, <2>2
  <2> QED BY <2>2, <2>3
<1> HIDE DEF m
<1>5. m \in past
  BY <1>1 DEF m
<1> QED BY <1>1, <1>4, <1>5 DEF Store!Keep

LEMMA DiscardDiscards ==
  ASSUME CustodyInv, NEW id \in BackupId, DiscardArchive(id)
  PROVE  Store!Discard(id)
<1>1. archive' = [archive EXCEPT ![id] = None] /\ UNCHANGED <<tree, past>>
  BY DEF DiscardArchive
<1>2. archive \in [BackupId -> Archive \cup {None}]
  BY DEF CustodyInv, CustodyTypeOK
<1> DEFINE kept == [b \in BackupId |-> IF archive[b] = None THEN None ELSE archive[b].manifest]
           after == [b \in BackupId |-> IF archive'[b] = None THEN None ELSE archive'[b].manifest]
<1>3. \A b \in BackupId : archive'[b] = IF b = id THEN None ELSE archive[b]
  BY <1>1, <1>2
<1>4. after = [kept EXCEPT ![id] = None]
  BY <1>3
<1> QED BY <1>1, <1>4 DEF Store!Discard

\* Damage is to the stored files, and the manifest still says what they were.
LEMMA DamageKeeps ==
  ASSUME CustodyInv, NEW id \in BackupId, NEW f \in File, DamageArchive(id, f)
  PROVE  /\ UNCHANGED <<tree, past>>
         /\ \A b \in BackupId : /\ archive'[b] = None <=> archive[b] = None
                                /\ archive[b] # None => archive'[b].manifest = archive[b].manifest
<1> DEFINE stored == [archive[id].payload EXCEPT ![f] = Damaged]
           new == [archive[id] EXCEPT !.payload = stored]
<1>1. /\ archive[id] # None /\ archive' = [archive EXCEPT ![id] = new]
      /\ UNCHANGED <<tree, past>>
  BY DEF DamageArchive
<1>2. archive \in [BackupId -> Archive \cup {None}] /\ archive[id] \in Archive
  BY <1>1 DEF CustodyInv, CustodyTypeOK
<1>3. stored \in Stored
  BY <1>2 DEF Archive, Stored
<1> HIDE DEF stored
<1>4. new \in Archive /\ new.manifest = archive[id].manifest
  BY <1>2, <1>3 DEF Archive
<1> HIDE DEF new
<1> QED BY <1>1, <1>2, <1>4, NoneOfThem

LEMMA CustodyMaps ==
  ASSUME CustodyInv, [CustodyNext]_custodyVars
  PROVE  [Store!Next]_Store!vars
<1>1. ASSUME NEW path \in Path, NEW f \in File, NEW content \in Content \cup {Absent},
             Edit(path, f, content)
      PROVE  Store!Next
  BY <1>1, EditWrites DEF Store!Next
<1>2. ASSUME NEW p \in Process, PublishBackup(p) PROVE Store!Next
  BY <1>2, PublishKeeps DEF Store!Next
<1>3. ASSUME NEW p \in Process, PublishRestore(p) PROVE Store!Next
  BY <1>3, RestoreAppears DEF Store!Next
<1>4. ASSUME UNCHANGED <<tree, archive, past>> PROVE UNCHANGED Store!vars
  BY <1>4 DEF Store!vars
<1>5. ASSUME NEW p \in Process, EnsureRoot(p) PROVE Store!Next \/ UNCHANGED Store!vars
  BY <1>4, <1>5, EnsureAppears DEF Store!Next
<1>6. ASSUME NEW id \in BackupId, DiscardArchive(id) PROVE Store!Next
  BY <1>6, DiscardDiscards DEF Store!Next
<1>7. ASSUME NEW id \in BackupId, NEW f \in File, DamageArchive(id, f)
      PROVE  UNCHANGED Store!vars
  BY <1>7, DamageKeeps DEF Store!vars
<1> QED BY <1>1, <1>2, <1>3, <1>4, <1>5, <1>6, <1>7, OtherStepsLeave

\* Backup and restore, copying file by file while workspaces change, with processes
\* that die and staging that stays, are a store in which whole trees that were appear
\* and are kept at once, replacing nothing.
THEOREM CustodyIsSnapshotStore == ShellSpec => ImplementsSnapshotStore
<1>1. CustodyInit => Store!Init
  <2> SUFFICES ASSUME CustodyInit PROVE Store!Init
    OBVIOUS
  <2>1. /\ past = {tree[path] : path \in Path} \ {None}
        /\ archive = [id \in BackupId |-> None]
    BY DEF CustodyInit
  <2>2. tree \in [Path -> Tree \cup {None}]
    BY CustodyInvInit DEF CustodyInv, CustodyTypeOK
  <2> QED BY <2>1, <2>2 DEF Store!Init, Store!Trees
<1>2. CustodyInv /\ [ShellNext]_shellVars => [Store!Next]_Store!vars
  BY FamiliesAlone, CustodyMaps
<1>3. ShellInit => Store!Init
  BY <1>1, FamiliesAlone
<1> QED BY <1>2, <1>3, CustodyAlways, PTL DEF ShellSpec, ImplementsSnapshotStore, Store!Spec
=============================================================================
