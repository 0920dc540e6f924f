---------------------------- MODULE PlanChain_proofs ----------------------------
(***************************************************************************)
(* Proofs about the plan's chain, for any requests, files, processes and   *)
(* any number of fences and heartbeats: the rows are one chain, each act   *)
(* is begun at most once and on what was read before, certificates and     *)
(* reports stand, and the chain implements OneWayUpdate.                   *)
(***************************************************************************)
EXTENDS PlanChain, TLAPS

-----------------------------------------------------------------------------
(* Stages.                                                                 *)

LEMMA StageNumbers ==
  /\ Reservation = 1 /\ Preclaim = 2 /\ Protected = 3 /\ Intent = 4 /\ Prewrite = 5
  /\ WriteClaim = 6 /\ Convergence = 7 /\ Clearance = 8 /\ Predelete = 9
  /\ DeleteClaim = 10 /\ Postdelete = 11 /\ Readiness = 12 /\ LaunchIntent = 13
  /\ Prelaunch = 14 /\ LaunchClaim = 15 /\ Started = 16 /\ Health = 17
  /\ Activation = 18 /\ Stage = 1..18
BY DEF Reservation, Preclaim, Protected, Intent, Prewrite, WriteClaim, Convergence,
       Clearance, Predelete, DeleteClaim, Postdelete, Readiness, LaunchIntent,
       Prelaunch, LaunchClaim, Started, Health, Activation, Stage

LEMMA StageKinds ==
  /\ FenceStages = 7..15
  /\ BeatStages = {17, 18}
  /\ Claims = {6, 10, 15}
BY StageNumbers DEF FenceStages, BeatStages, Claims

\* A claim belongs to one act.
LEMMA ClaimsOfActs ==
  /\ \A a \in Act : ClaimOf[a] \in Claims /\ SettledBy[a] \in Stage /\ ClaimOf[a] \in Stage
  /\ \A s \in Claims : ActOf(s) \in Act /\ ClaimOf[ActOf(s)] = s
  /\ \A a \in Act : ActOf(ClaimOf[a]) = a
<1>1. \A a \in Act : ClaimOf[a] \in Claims /\ SettledBy[a] \in Stage /\ ClaimOf[a] \in Stage
  BY StageNumbers DEF Act, ClaimOf, SettledBy, Claims
<1>2. \A s \in Claims : \E a \in Act : ClaimOf[a] = s
  BY DEF Act, ClaimOf, Claims
<1>3. \A s \in Claims : ActOf(s) \in Act /\ ClaimOf[ActOf(s)] = s
  BY <1>2 DEF ActOf
<1>4. \A a, b \in Act : ClaimOf[a] = ClaimOf[b] => a = b
  BY StageNumbers DEF Act, ClaimOf
<1> QED BY <1>1, <1>3, <1>4

-----------------------------------------------------------------------------
(* Calls and rows.                                                         *)

LEMMA CallFields ==
  ASSUME TypeOK, NEW p \in Proc, call[p] # Free
  PROVE  /\ call[p] \in Call
         /\ call[p].at \in Reading \cup {"evident", "claimed", "calling"}
         /\ call[p].stage \in Stage
         /\ call[p].new \in PlanRow
         /\ call[p].saw \in FileState \cup CapsuleState
BY DEF TypeOK, Call

LEMMA RowFields ==
  ASSUME TypeOK, NEW s \in Stage, Exists(s)
  PROVE  /\ row[s] \in PlanRow
         /\ row[s].req \in Request /\ row[s].local \in Local /\ row[s].mark \in Nat
BY DEF TypeOK, RowsTypeOK, Exists, PlanRow

LEMMA Entered ==
  ASSUME TypeOK, NEW p \in Proc, NEW c \in Call, Enter(p, c)
  PROVE  /\ call' \in [Proc -> Call \cup {Free}]
         /\ call'[p] = c /\ call'[p] # Free
         /\ \A w \in Proc \ {p} : call'[w] = call[w]
BY FreeAssumption DEF TypeOK, Enter

LEMMA Moved ==
  ASSUME TypeOK, NEW p \in Proc, call[p] # Free,
         NEW where \in Reading \cup {"evident", "claimed", "calling"}, Move(p, where)
  PROVE  /\ call' \in [Proc -> Call \cup {Free}]
         /\ call'[p] # Free /\ call'[p].at = where
         /\ call'[p].stage = call[p].stage /\ call'[p].new = call[p].new
         /\ call'[p].saw = call[p].saw
         /\ \A w \in Proc \ {p} : call'[w] = call[w]
<1>1. call[p] \in Call
  BY DEF TypeOK
<1>2. [call[p] EXCEPT !.at = where] \in Call
  BY <1>1 DEF Call
<1>3. call'[p] = [call[p] EXCEPT !.at = where]
  BY DEF TypeOK, Move
<1>4. /\ call'[p].at = where
      /\ call'[p].stage = call[p].stage /\ call'[p].new = call[p].new
      /\ call'[p].saw = call[p].saw
  BY <1>1, <1>3 DEF Call
<1>5. call' = [call EXCEPT ![p] = [call[p] EXCEPT !.at = where]]
  BY DEF Move
<1>6. /\ call' \in [Proc -> Call \cup {Free}]
      /\ \A w \in Proc \ {p} : call'[w] = call[w]
  BY <1>2, <1>5 DEF TypeOK
<1> QED BY <1>2, <1>3, <1>4, <1>6, FreeAssumption

LEMMA Left ==
  ASSUME TypeOK, NEW p \in Proc, Leave(p)
  PROVE  /\ call' \in [Proc -> Call \cup {Free}]
         /\ call'[p] = Free
         /\ \A w \in Proc \ {p} : call'[w] = call[w]
BY DEF TypeOK, Leave

LEMMA Recorded ==
  ASSUME TypeOK, NEW s \in Stage, NEW new \in PlanRow, Record(s, new)
  PROVE  /\ row' \in [Stage -> PlanRow \cup {NoRow}]
         /\ row'[s] = new /\ row'[s] # NoRow
         /\ \A t \in Stage \ {s} : row'[t] = row[t]
BY NoPlanRowAssumption DEF TypeOK, RowsTypeOK, Record

-----------------------------------------------------------------------------
(* Steps.                                                                  *)

\* A call that will write a row, a call that only looks.
Recording(p) == call[p] # Free /\ call[p].at \in {"sampled", "signed", "confirmed"}
Looking(p)   == call[p] # Free /\ call[p].at \in {"looking", "looked"}

\* The methods of the stages after the first two begin in the same way.
LEMMA Beginnings ==
  ASSUME NEW p \in Proc, Enters(p)
  PROVE  \/ \E s \in {Reservation, Preclaim}, q \in Request : ReadsBasis(p, s, q)
         \/ \E s \in Protected..Activation : Begin(p, s)
         \/ InspectWrite(p) \/ InspectDelete(p)
BY StageNumbers
   DEF Enters, RecordReceipt, PrepareIntent, ArmPrewrite, DispatchWrite, CertifyWrite,
       PrepareClearance, ArmPredelete, DispatchDelete, CertifyDelete, PrepareReadiness,
       ReserveLaunch, ArmPrelaunch, DispatchLaunch, ReconcileLaunch, RecordHealth,
       ReserveActivation

\* What is outside moves no call and writes no row.  A file changes under a
\* fence only by the act that works on it.
OutsideFrame ==
  /\ UNCHANGED <<row, call, acts>>
  /\ epoch' = epoch \/ (~ fenced /\ epoch' = epoch + 1)
  /\ fenced' => epoch' = epoch + 1 \/ (fenced /\ epoch' = epoch)
  /\ fenced /\ ~ fenced' => \A w \in Proc : call[w] # Free => call[w].stage \notin Claims
  /\ reports' = reports \/ (reports' = {} /\ ~ fenced')
  /\ fenced /\ ~ fenced' => reports' = {}
  /\ acting' \subseteq acting
  /\ process = "none" => process' = "none" \/ "launch" \in acting
  /\ process # "none" => process' # "none"
  /\ file' # file => ~ fenced \/ "write" \in acting
  /\ capsule' # capsule => ~ fenced \/ "delete" \in acting
  /\ local' # local => ~ fenced

LEMMA OutsideLeaves ==
  ASSUME Outside
  PROVE  OutsideFrame
<1> USE DEF OutsideFrame, deeds
<1>1. ASSUME NEW r \in Receipt, HeadMoves(r) PROVE OutsideFrame
  BY <1>1 DEF HeadMoves
<1>2. ASSUME FenceTaken PROVE OutsideFrame
  BY <1>2 DEF FenceTaken
<1>3. ASSUME FenceLapses PROVE OutsideFrame
  BY <1>3 DEF FenceLapses
<1>4. ASSUME OthersChange PROVE OutsideFrame
  BY <1>4 DEF OthersChange
<1>5. ASSUME ServiceWrites PROVE OutsideFrame
  BY <1>5 DEF ServiceWrites
<1>6. ASSUME ServiceDeletes PROVE OutsideFrame
  BY <1>6 DEF ServiceDeletes
<1>7. ASSUME ServiceLaunches PROVE OutsideFrame
  BY <1>7 DEF ServiceLaunches
<1>8. ASSUME NEW a \in Act, ServiceEnds(a) PROVE OutsideFrame
  BY <1>8 DEF ServiceEnds, site
<1>9. ASSUME ProcessBeats PROVE OutsideFrame
  BY <1>9 DEF ProcessBeats
<1>10. ASSUME ProcessEnds PROVE OutsideFrame
  BY <1>10 DEF ProcessEnds
<1> QED
  BY Outside, <1>1, <1>2, <1>3, <1>4, <1>5, <1>6, <1>7, <1>8, <1>9, <1>10
  DEF Outside

\* The steps that write a row, and the row they write.
Writes(p) == Reserve(p) \/ PreclaimOnce(p) \/ Commits(p)

LEMMA WritesOwnRow ==
  ASSUME NEW p \in Proc, Writes(p)
  PROVE  /\ call[p] # Free
         /\ Record(call[p].stage, call[p].new)
         /\ UNCHANGED <<site, deeds, reports>>
BY DEF Writes, Reserve, PreclaimOnce, Commits, At

\* A step of a process that writes no row and does not call the service leaves
\* everything but the calls and the reports.
Reads(p) ==
  \/ Enters(p) \/ Signs(p) \/ Confirms(p) \/ WriteReadsBack(p) \/ DeleteReadsBack(p)
  \/ InspectWriteReturns(p) \/ InspectDeleteSigns(p) \/ InspectDeleteReturns(p) \/ Ends(p)

LEMMA ReadsLeave ==
  ASSUME NEW p \in Proc, Reads(p)
  PROVE  UNCHANGED <<row, site, deeds>>
<1>1. CASE Enters(p)
  BY <1>1, Beginnings DEF ReadsBasis, Begin, InspectWrite, InspectDelete
<1> QED
  BY <1>1 DEF Reads, Signs, Confirms, WriteReadsBack, DeleteReadsBack, InspectWriteReturns,
              InspectDeleteSigns, InspectDeleteReturns, Ends

\* Every step is one of five kinds.
LEMMA StepKinds ==
  ASSUME [Next]_vars
  PROVE  \/ Outside
         \/ \E p \in Proc : Reads(p)
         \/ \E p \in Proc : Writes(p)
         \/ \E p \in Proc : CallsService(p)
         \/ UNCHANGED vars
BY DEF Next, GoesOn, Reads, Writes

-----------------------------------------------------------------------------
(* Types.                                                                  *)

FenceCounted == fenced => epoch > 0

MarksCounted ==
  \A p \in Proc : Recording(p) /\ call[p].stage \in FenceStages \cup BeatStages
                    => call[p].new.mark > 0

SawTyped ==
  \A p \in Proc : Looking(p) =>
    /\ call[p].at = "looking" => call[p].stage \in {Convergence, Postdelete}
    /\ call[p].at = "looked" => call[p].stage = Postdelete
    /\ call[p].stage = Convergence => call[p].saw \in FileState
    /\ call[p].stage = Postdelete => call[p].saw \in CapsuleState

Typed == TypeOK /\ FenceCounted /\ MarksCounted /\ SawTyped

\* The first reading finds a fence, or a heartbeat.
LEMMA EvidenceCounts ==
  ASSUME Typed, NEW s \in Stage, Sees(s)
  PROVE  /\ Evidence(s) \in Nat
         /\ s \in FenceStages \cup BeatStages => Evidence(s) > 0
BY StageNumbers, StageKinds
   DEF Typed, TypeOK, FenceCounted, Evidence, Sees, ReadbackMatches, CapsuleCleared

LEMMA InitialHeads ==
  \A r \in Receipt : [rev |-> Generation[r], sha |-> r] \in HeadRow
<1>1. MaxGeneration \in Nat /\ \A r \in Receipt : Generation[r] \in 1..MaxGeneration
  BY ReceiptAssumption
<1>2. \A n \in 1..MaxGeneration : n \in Nat \ {0}
  BY <1>1
<1>3. \A r \in Receipt : Generation[r] \in Nat \ {0}
  BY <1>1, <1>2, Zenon
<1> QED BY <1>3 DEF HeadRow

LEMMA InitTyped == Init => Typed
<1> SUFFICES ASSUME Init PROVE Typed
  OBVIOUS
<1> USE DEF Init
<1>1. head \in HeadRow \cup {NoHead}
  BY InitialHeads
<1>2. RowsTypeOK
  BY StageNumbers, StageKinds DEF RowsTypeOK
<1>3. TypeOK
  BY <1>1, <1>2 DEF TypeOK, FileState, CapsuleState, ProcessState
<1>4. FenceCounted /\ MarksCounted /\ SawTyped
  BY DEF FenceCounted, MarksCounted, SawTyped, Recording, Looking
<1> QED BY <1>3, <1>4 DEF Typed

\* Outside the types are kept.
LEMMA OutsideTyped ==
  ASSUME Typed, Outside
  PROVE  Typed'
<1> USE DEF deeds, Typed, FenceCounted
<1>a. OutsideFrame
  BY OutsideLeaves
<1>b. MarksCounted' /\ SawTyped' /\ RowsTypeOK' /\ FenceCounted'
  BY <1>a DEF OutsideFrame, MarksCounted, SawTyped, Recording, Looking, TypeOK, RowsTypeOK,
              Exists
<1>c. acts' \in [Act -> Nat] /\ call' \in [Proc -> Call \cup {Free}] /\ acting' \subseteq Act
      /\ reports' \subseteq Report /\ epoch' \in Nat
  BY <1>a DEF OutsideFrame, TypeOK
<1>d. /\ head' \in HeadRow \cup {NoHead}
      /\ file' \in FileState /\ capsule' \in CapsuleState /\ local' \in Local
      /\ fenced' \in BOOLEAN
      /\ process' \in ProcessState /\ beat' \in Nat
  <2> DEFINE Goal == /\ head' \in HeadRow \cup {NoHead}
                     /\ file' \in FileState /\ capsule' \in CapsuleState /\ local' \in Local
                     /\ fenced' \in BOOLEAN
                     /\ process' \in ProcessState /\ beat' \in Nat
  <2> USE DEF TypeOK
  <2>1. ASSUME NEW r \in Receipt, HeadMoves(r) PROVE Goal
    BY <2>1 DEF HeadMoves, Appended, HeadRow
  <2>2. ASSUME FenceTaken PROVE Goal
    BY <2>2 DEF FenceTaken
  <2>3. ASSUME FenceLapses PROVE Goal
    BY <2>3 DEF FenceLapses
  <2>4. ASSUME OthersChange PROVE Goal
    BY <2>4 DEF OthersChange
  <2>5. ASSUME ServiceWrites PROVE Goal
    BY <2>5 DEF ServiceWrites
  <2>6. ASSUME ServiceDeletes PROVE Goal
    BY <2>6 DEF ServiceDeletes
  <2>7. ASSUME ServiceLaunches PROVE Goal
    BY <2>7 DEF ServiceLaunches, ProcessState
  <2>8. ASSUME NEW a \in Act, ServiceEnds(a) PROVE Goal
    BY <2>8 DEF ServiceEnds, site
  <2>9. ASSUME ProcessBeats PROVE Goal
    BY <2>9 DEF ProcessBeats
  <2>10. ASSUME ProcessEnds PROVE Goal
    BY <2>10 DEF ProcessEnds, ProcessState
  <2> QED
    BY Outside, <2>1, <2>2, <2>3, <2>4, <2>5, <2>6, <2>7, <2>8, <2>9, <2>10 DEF Outside
<1> QED
  BY <1>a, <1>b, <1>c, <1>d DEF TypeOK

\* What a step of a process must show when it moves only calls and reports.
LEMMA CallsTyped ==
  ASSUME Typed, UNCHANGED <<row, site, deeds>>,
         call' \in [Proc -> Call \cup {Free}], reports' \subseteq Report,
         NEW p \in Proc, \A w \in Proc \ {p} : call'[w] = call[w],
         Recording(p)' /\ call'[p].stage \in FenceStages \cup BeatStages
           => call'[p].new.mark > 0,
         Looking(p)' =>
           /\ call'[p].at = "looking" => call'[p].stage \in {Convergence, Postdelete}
           /\ call'[p].at = "looked" => call'[p].stage = Postdelete
           /\ call'[p].stage = Convergence => call'[p].saw \in FileState
           /\ call'[p].stage = Postdelete => call'[p].saw \in CapsuleState
  PROVE  Typed'
<1>1. TypeOK' /\ FenceCounted'
  BY DEF Typed, TypeOK, RowsTypeOK, Exists, FenceCounted, site, deeds
<1>2. MarksCounted'
  BY DEF Typed, MarksCounted, Recording
<1>3. SawTyped'
  BY DEF Typed, SawTyped, Looking
<1> QED BY <1>1, <1>2, <1>3 DEF Typed

\* A return adds well-formed reports at most.
LEMMA ReturnsTyped ==
  ASSUME TypeOK, NEW p \in Proc, NEW saw, NEW mark, NEW a \in {"write", "delete"},
         a = "write" => saw \in FileState, a = "delete" => saw \in CapsuleState,
         Returns(p, a, saw, mark)
  PROVE  Leave(p) /\ reports' \subseteq Report
BY DEF TypeOK, Returns, Report

\* What the entries leave in the process's call.
LEMMA Begun ==
  ASSUME Typed, NEW p \in Proc, NEW s \in Protected..Activation, Begin(p, s)
  PROVE  /\ UNCHANGED <<row, site, deeds, reports>>
         /\ call' \in [Proc -> Call \cup {Free}]
         /\ \A w \in Proc \ {p} : call'[w] = call[w]
         /\ call[p] = Free /\ call'[p] # Free
         /\ call'[p].at = "sampled" /\ call'[p].stage = s
         /\ call'[p].new \in PlanRow
         /\ call'[p].new.req = Update.req /\ call'[p].new.local = Update.local
         /\ call'[p].new.mark = Evidence(s)
<1> DEFINE c == [at |-> "sampled", stage |-> s, saw |-> NoReceipt,
                 new |-> [Update EXCEPT !.mark = Evidence(s)]]
<1>0. TypeOK BY DEF Typed
<1>1. s \in 3..18 /\ s \in Stage /\ 1 \in Stage /\ 1 \in 1..(s - 1)
  <2>1. s \in 3..18 BY StageNumbers
  <2> QED BY <2>1, StageNumbers
<1>2. Exists(1) /\ Update \in PlanRow
  <2>1. Exists(1) BY <1>1, StageNumbers DEF Begin, Open, ChainedTo
  <2> QED BY <2>1, <1>0, <1>1, RowFields, StageNumbers DEF Update
<1>3. Evidence(s) \in Nat
  BY <1>1, EvidenceCounts DEF Begin
<1>4. /\ [Update EXCEPT !.mark = Evidence(s)] \in PlanRow
      /\ [Update EXCEPT !.mark = Evidence(s)].mark = Evidence(s)
      /\ [Update EXCEPT !.mark = Evidence(s)].req = Update.req
      /\ [Update EXCEPT !.mark = Evidence(s)].local = Update.local
  BY <1>2, <1>3 DEF PlanRow
<1>5. c \in Call
  BY <1>1, <1>4 DEF Call, Reading, FileState
<1>6. Enter(p, c) /\ call[p] = Free /\ UNCHANGED <<row, site, deeds, reports>>
  BY DEF Begin, Idle
<1>7. /\ call' \in [Proc -> Call \cup {Free}] /\ call'[p] = c /\ call'[p] # Free
      /\ \A w \in Proc \ {p} : call'[w] = call[w]
  BY <1>0, <1>5, <1>6, Entered
<1>8. /\ call'[p].at = "sampled" /\ call'[p].stage = s
      /\ call'[p].new = [Update EXCEPT !.mark = Evidence(s)]
  BY <1>7
<1> HIDE DEF c
<1> QED BY <1>4, <1>6, <1>7, <1>8

LEMMA BasisRead ==
  ASSUME Typed, NEW p \in Proc, NEW s \in {Reservation, Preclaim}, NEW q \in Request,
         ReadsBasis(p, s, q)
  PROVE  /\ UNCHANGED <<row, site, deeds, reports>>
         /\ call' \in [Proc -> Call \cup {Free}]
         /\ \A w \in Proc \ {p} : call'[w] = call[w]
         /\ call[p] = Free /\ call'[p] # Free
         /\ call'[p].at = "evident" /\ call'[p].stage = s
<1> DEFINE new == [req |-> q, local |-> local, mark |-> 0]
<1> DEFINE c == [at |-> "evident", stage |-> s, saw |-> NoReceipt, new |-> new]
<1>1. c \in Call
  <2>1. new \in PlanRow BY DEF Typed, TypeOK, PlanRow
  <2>2. s \in Stage BY StageNumbers
  <2> HIDE DEF new
  <2> QED BY <2>1, <2>2 DEF Call, FileState
<1>2. Enter(p, c) /\ call[p] = Free /\ UNCHANGED <<row, site, deeds, reports>>
  BY DEF ReadsBasis, Idle
<1>3. /\ call' \in [Proc -> Call \cup {Free}] /\ call'[p] = c /\ call'[p] # Free
      /\ \A w \in Proc \ {p} : call'[w] = call[w]
  BY <1>1, <1>2, Entered DEF Typed
<1>4. call'[p].at = "evident" /\ call'[p].stage = s
  BY <1>3
<1> HIDE DEF c
<1> QED BY <1>2, <1>3, <1>4

\* An inspection knows what it saw and under which fence.
LEMMA Inspected ==
  ASSUME Typed, NEW p \in Proc, InspectWrite(p) \/ InspectDelete(p)
  PROVE  /\ UNCHANGED <<row, site, deeds, reports>>
         /\ call' \in [Proc -> Call \cup {Free}]
         /\ \A w \in Proc \ {p} : call'[w] = call[w]
         /\ call[p] = Free /\ call'[p] # Free
         /\ call'[p].at = "looking" /\ call'[p].new.mark = epoch
         /\ call'[p].stage = IF InspectWrite(p) THEN Convergence ELSE Postdelete
         /\ call'[p].saw = IF InspectWrite(p) THEN file ELSE capsule
<1> DEFINE s == IF InspectWrite(p) THEN Convergence ELSE Postdelete
<1> DEFINE v == IF InspectWrite(p) THEN file ELSE capsule
<1> DEFINE c == [at |-> "looking", stage |-> s, saw |-> v,
                 new |-> [Update EXCEPT !.mark = epoch]]
<1>0. TypeOK BY DEF Typed
<1>1. Exists(1) /\ 1 \in Stage
  BY StageNumbers DEF InspectWrite, InspectDelete, ChainedTo
<1>2. Update \in PlanRow
  BY <1>0, <1>1, RowFields, StageNumbers DEF Update
<1>3. /\ [Update EXCEPT !.mark = epoch] \in PlanRow
      /\ [Update EXCEPT !.mark = epoch].mark = epoch
  BY <1>0, <1>2 DEF PlanRow, TypeOK
<1>4. s \in Stage /\ v \in FileState \cup CapsuleState
  BY <1>0, StageNumbers DEF TypeOK
<1>5. Enter(p, c) /\ call[p] = Free /\ UNCHANGED <<row, site, deeds, reports>>
  <2>1. CASE InspectWrite(p)
    <3>1. Enter(p, [at |-> "looking", stage |-> Convergence, saw |-> file,
                    new |-> [Update EXCEPT !.mark = epoch]])
          /\ call[p] = Free /\ UNCHANGED <<row, site, deeds, reports>>
      BY <2>1 DEF InspectWrite, Idle
    <3> QED BY <2>1, <3>1
  <2>2. CASE ~ InspectWrite(p)
    <3>1. Enter(p, [at |-> "looking", stage |-> Postdelete, saw |-> capsule,
                    new |-> [Update EXCEPT !.mark = epoch]])
          /\ call[p] = Free /\ UNCHANGED <<row, site, deeds, reports>>
      BY <2>2 DEF InspectDelete, Idle
    <3> QED BY <2>2, <3>1
  <2> QED BY <2>1, <2>2
<1> HIDE DEF s, v
<1>6. c \in Call
  BY <1>3, <1>4 DEF Call, Reading
<1>7. /\ call' \in [Proc -> Call \cup {Free}] /\ call'[p] = c /\ call'[p] # Free
      /\ \A w \in Proc \ {p} : call'[w] = call[w]
  BY <1>0, <1>5, <1>6, Entered
<1>8. /\ call'[p].at = "looking" /\ call'[p].stage = s /\ call'[p].saw = v
      /\ call'[p].new = [Update EXCEPT !.mark = epoch]
  BY <1>7
<1> HIDE DEF c
<1> QED BY <1>3, <1>5, <1>7, <1>8 DEF s, v

\* How the other reading steps move their call.
LEMMA ReadsOn ==
  ASSUME Typed, NEW p \in Proc, Signs(p) \/ Confirms(p) \/ InspectDeleteSigns(p)
  PROVE  /\ UNCHANGED <<row, site, deeds, reports>>
         /\ call[p] # Free /\ call'[p] # Free
         /\ call' \in [Proc -> Call \cup {Free}]
         /\ \A w \in Proc \ {p} : call'[w] = call[w]
         /\ call'[p].stage = call[p].stage /\ call'[p].new = call[p].new
         /\ call'[p].saw = call[p].saw
         /\ \/ call[p].at = "sampled" /\ call'[p].at = "signed"
            \/ call[p].at = "signed" /\ call'[p].at = "confirmed"
            \/ /\ call[p].at = "looking" /\ call'[p].at = "looked"
               /\ call[p].stage = Postdelete
<1>0. TypeOK BY DEF Typed
<1>1. CASE Signs(p)
  BY <1>0, <1>1, Moved DEF Signs, At, Reading
<1>2. CASE Confirms(p)
  BY <1>0, <1>2, Moved DEF Confirms, At, Reading
<1>3. CASE InspectDeleteSigns(p)
  BY <1>0, <1>3, Moved DEF InspectDeleteSigns, At, Reading
<1> QED BY <1>1, <1>2, <1>3

\* A method that returns, with or without an answer, or ends otherwise.
Closes(p) ==
  WriteReadsBack(p) \/ DeleteReadsBack(p) \/ InspectWriteReturns(p)
    \/ InspectDeleteReturns(p) \/ Ends(p)

LEMMA Closed ==
  ASSUME Typed, NEW p \in Proc, Closes(p)
  PROVE  /\ UNCHANGED <<row, site, deeds>>
         /\ call[p] # Free /\ call'[p] = Free
         /\ call' \in [Proc -> Call \cup {Free}]
         /\ \A w \in Proc \ {p} : call'[w] = call[w]
         /\ reports' \subseteq Report
<1>0. TypeOK BY DEF Typed
<1>1. CASE WriteReadsBack(p)
  BY <1>0, <1>1, ReturnsTyped, Left DEF WriteReadsBack, At, TypeOK
<1>2. CASE DeleteReadsBack(p)
  BY <1>0, <1>2, ReturnsTyped, Left DEF DeleteReadsBack, At, TypeOK
<1>3. CASE InspectWriteReturns(p)
  <2>1. call[p] # Free /\ call[p].saw \in FileState
    BY <1>3 DEF InspectWriteReturns, At, Typed, SawTyped, Looking
  <2> QED BY <1>0, <1>3, <2>1, ReturnsTyped, Left DEF InspectWriteReturns
<1>4. CASE InspectDeleteReturns(p)
  BY <1>0, <1>4, ReturnsTyped, Left DEF InspectDeleteReturns, At, TypeOK
<1>5. CASE Ends(p)
  BY <1>0, <1>5, Left DEF Ends, TypeOK
<1> QED BY <1>1, <1>2, <1>3, <1>4, <1>5 DEF Closes

LEMMA ReadKinds ==
  ASSUME NEW p \in Proc, Reads(p)
  PROVE  \/ \E s \in {Reservation, Preclaim}, q \in Request : ReadsBasis(p, s, q)
         \/ \E s \in Protected..Activation : Begin(p, s)
         \/ InspectWrite(p) \/ InspectDelete(p)
         \/ Signs(p) \/ Confirms(p) \/ InspectDeleteSigns(p)
         \/ Closes(p)
BY Beginnings DEF Reads, Closes

LEMMA ReadsTyped ==
  ASSUME Typed, NEW p \in Proc, Reads(p)
  PROVE  Typed'
<1>0. TypeOK /\ reports \subseteq Report BY DEF Typed, TypeOK
<1>1. ASSUME NEW s \in {Reservation, Preclaim}, NEW q \in Request, ReadsBasis(p, s, q)
      PROVE  Typed'
  <2>1. reports' \subseteq Report /\ ~ Recording(p)' /\ ~ Looking(p)'
    BY <1>0, <1>1, BasisRead DEF Recording, Looking
  <2> QED BY <1>1, <2>1, BasisRead, CallsTyped
<1>2. ASSUME NEW s \in Protected..Activation, Begin(p, s) PROVE Typed'
  <2>1. reports' \subseteq Report /\ ~ Looking(p)'
    BY <1>0, <1>2, Begun DEF Looking
  <2>2. call'[p].stage \in FenceStages \cup BeatStages => call'[p].new.mark > 0
    <3>1. s \in Stage
      <4>1. s \in 3..18 BY StageNumbers
      <4> QED BY <4>1, StageNumbers
    <3>2. Sees(s) BY <1>2 DEF Begin
    <3> QED BY <1>2, <3>1, <3>2, Begun, EvidenceCounts
  <2> QED BY <1>2, <2>1, <2>2, Begun, CallsTyped
<1>3. ASSUME InspectWrite(p) \/ InspectDelete(p) PROVE Typed'
  <2>1. reports' \subseteq Report /\ ~ Recording(p)'
    BY <1>0, <1>3, Inspected DEF Recording
  <2>2. /\ call'[p].at = "looking"
        /\ call'[p].stage \in {Convergence, Postdelete}
        /\ call'[p].stage = Convergence => call'[p].saw \in FileState
        /\ call'[p].stage = Postdelete => call'[p].saw \in CapsuleState
    BY <1>0, <1>3, Inspected, StageNumbers DEF TypeOK
  <2> QED BY <1>3, <2>1, <2>2, Inspected, CallsTyped
<1>4. ASSUME Signs(p) \/ Confirms(p) \/ InspectDeleteSigns(p) PROVE Typed'
  <2>1. reports' \subseteq Report
    BY <1>0, <1>4, ReadsOn
  <2>2. Recording(p)' /\ call'[p].stage \in FenceStages \cup BeatStages
           => call'[p].new.mark > 0
    BY <1>4, ReadsOn DEF Recording, Typed, MarksCounted
  <2>3. Looking(p)' => /\ call'[p].at = "looked" /\ call'[p].stage = Postdelete
                       /\ call'[p].saw \in CapsuleState
    BY <1>4, ReadsOn DEF Looking, Typed, SawTyped
  <2>4. Postdelete # Convergence
    BY StageNumbers
  <2> QED BY <1>4, <2>1, <2>2, <2>3, <2>4, ReadsOn, CallsTyped
<1>5. ASSUME Closes(p) PROVE Typed'
  BY <1>5, Closed, CallsTyped DEF Recording, Looking
<1> QED BY <1>1, <1>2, <1>3, <1>4, <1>5, ReadKinds

\* What a write leaves.
LEMMA Written ==
  ASSUME Typed, NEW p \in Proc, Writes(p)
  PROVE  /\ UNCHANGED <<site, deeds, reports>>
         /\ call[p] # Free
         /\ row' \in [Stage -> PlanRow \cup {NoRow}]
         /\ row'[call[p].stage] = call[p].new /\ call[p].new # NoRow
         /\ \A t \in Stage \ {call[p].stage} : row'[t] = row[t]
         /\ call' \in [Proc -> Call \cup {Free}]
         /\ \A w \in Proc \ {p} : call'[w] = call[w]
         /\ call'[p] # Free => /\ call[p].at \in {"signed", "confirmed"}
                               /\ call[p].stage \in Claims
                               /\ call'[p].at = "claimed"
                               /\ call'[p].stage = call[p].stage
<1>0. TypeOK BY DEF Typed
<1>1. /\ call[p] # Free /\ Record(call[p].stage, call[p].new)
      /\ UNCHANGED <<site, deeds, reports>>
  BY WritesOwnRow
<1>2. /\ row' \in [Stage -> PlanRow \cup {NoRow}]
      /\ row'[call[p].stage] = call[p].new /\ call[p].new # NoRow
      /\ \A t \in Stage \ {call[p].stage} : row'[t] = row[t]
  BY <1>0, <1>1, CallFields, Recorded
<1>3. \/ Leave(p)
      \/ /\ call[p].at \in {"signed", "confirmed"} /\ call[p].stage \in Claims
         /\ Move(p, "claimed")
  BY DEF Writes, Reserve, PreclaimOnce, Commits, At
<1>4. CASE Leave(p)
  BY <1>0, <1>1, <1>2, <1>4, Left
<1>5. CASE /\ call[p].at \in {"signed", "confirmed"} /\ call[p].stage \in Claims
           /\ Move(p, "claimed")
  BY <1>0, <1>1, <1>2, <1>5, Moved DEF Reading
<1> QED BY <1>3, <1>4, <1>5

\* What the call of the service leaves.
LEMMA Called ==
  ASSUME Typed, NEW p \in Proc, CallsService(p)
  PROVE  /\ UNCHANGED <<row, site, reports>>
         /\ call[p] # Free /\ call[p].at = "claimed"
         /\ call' \in [Proc -> Call \cup {Free}]
         /\ \A w \in Proc \ {p} : call'[w] = call[w]
         /\ call'[p] # Free /\ call'[p].at = "calling"
         /\ call'[p].stage = call[p].stage
         /\ acting' = acting \cup {ActOf(call[p].stage)}
         /\ acts' = [acts EXCEPT ![ActOf(call[p].stage)] = @ + 1]
BY Moved DEF Typed, CallsService, At

\* A call past its claim is a call of a stage that claims.
ClaimsAreClaims ==
  \A p \in Proc : call[p] # Free /\ call[p].at \in {"claimed", "calling"}
                    => call[p].stage \in Claims

LEMMA WritesTyped ==
  ASSUME Typed, NEW p \in Proc, Writes(p)
  PROVE  Typed'
<1> DEFINE s == call[p].stage
<1>0. TypeOK /\ s \in Stage /\ call[p] # Free BY Written, CallFields DEF Typed
<1>1. s \in FenceStages \cup BeatStages => call[p].new.mark > 0
  <2>1. s \in {Reservation, Preclaim} \/ Recording(p)
    BY DEF Writes, Reserve, PreclaimOnce, Commits, At, Recording
  <2> QED BY <2>1, StageNumbers, StageKinds DEF Typed, MarksCounted
<1>2. RowsTypeOK'
  <2>1. \A t \in FenceStages \cup BeatStages : t \in Stage
    BY StageNumbers, StageKinds
  <2>2. ASSUME NEW t \in FenceStages \cup BeatStages, row'[t] # NoRow
        PROVE  row'[t].mark > 0
    BY <1>0, <1>1, <2>1, <2>2, Written DEF TypeOK, RowsTypeOK
  <2> QED BY <2>2, Written DEF RowsTypeOK
<1>3. TypeOK' /\ FenceCounted'
  BY <1>0, <1>2, Written DEF Typed, TypeOK, FenceCounted, site, deeds
<1>4. ~ Recording(p)' /\ ~ Looking(p)'
  BY Written DEF Recording, Looking
<1>5. MarksCounted' /\ SawTyped'
  BY <1>4, Written DEF Typed, MarksCounted, SawTyped, Recording, Looking
<1> QED BY <1>3, <1>5 DEF Typed

LEMMA CallsServiceTyped ==
  ASSUME Typed, ClaimsAreClaims, NEW p \in Proc, CallsService(p)
  PROVE  Typed'
<1> DEFINE a == ActOf(call[p].stage)
<1>1. a \in Act
  BY Called, ClaimsOfActs DEF ClaimsAreClaims
<1>2. acting' \subseteq Act /\ acts' \in [Act -> Nat]
  BY <1>1, Called DEF Typed, TypeOK
<1>3. TypeOK' /\ FenceCounted'
  BY <1>2, Called DEF Typed, TypeOK, RowsTypeOK, Exists, FenceCounted, site
<1>4. ~ Recording(p)' /\ ~ Looking(p)'
  BY Called DEF Recording, Looking
<1>5. MarksCounted' /\ SawTyped'
  BY <1>4, Called DEF Typed, MarksCounted, SawTyped, Recording, Looking
<1> QED BY <1>3, <1>5 DEF Typed

LEMMA TypedStep ==
  ASSUME Typed, ClaimsAreClaims, [Next]_vars
  PROVE  Typed'
<1>1. CASE UNCHANGED vars
  BY <1>1 DEF vars, site, deeds, Typed, TypeOK, RowsTypeOK, Exists, FenceCounted,
              MarksCounted, SawTyped, Recording, Looking
<1> QED
  BY <1>1, StepKinds, OutsideTyped, ReadsTyped, WritesTyped, CallsServiceTyped

LEMMA ClaimsAreClaimsStep ==
  ASSUME Typed, ClaimsAreClaims, [Next]_vars
  PROVE  ClaimsAreClaims'
<1> USE DEF ClaimsAreClaims
<1>1. CASE Outside
  BY <1>1, OutsideLeaves DEF OutsideFrame
<1>2. ASSUME NEW p \in Proc, Reads(p) PROVE ClaimsAreClaims'
  <2>1. \A w \in Proc \ {p} : call'[w] = call[w]
    BY <1>2, ReadKinds, BasisRead, Begun, Inspected, ReadsOn, Closed
  <2>2. call'[p] # Free => call'[p].at \notin {"claimed", "calling"}
    BY <1>2, ReadKinds, BasisRead, Begun, Inspected, ReadsOn, Closed
  <2> QED BY <2>1, <2>2
<1>3. ASSUME NEW p \in Proc, Writes(p) PROVE ClaimsAreClaims'
  BY <1>3, Written
<1>4. ASSUME NEW p \in Proc, CallsService(p) PROVE ClaimsAreClaims'
  BY <1>4, Called
<1>5. CASE UNCHANGED vars
  BY <1>5 DEF vars
<1> QED BY <1>1, <1>2, <1>3, <1>4, <1>5, StepKinds

\* The state has its type in every behaviour.
THEOREM TypeCorrect == Spec => []TypeOK
<1>1. Init => Typed /\ ClaimsAreClaims
  BY InitTyped DEF Init, ClaimsAreClaims
<1>2. Typed /\ ClaimsAreClaims /\ [Next]_vars => (Typed /\ ClaimsAreClaims)'
  BY TypedStep, ClaimsAreClaimsStep
<1>3. Typed => TypeOK
  BY DEF Typed
<1> QED BY <1>1, <1>2, <1>3, PTL DEF Spec

-----------------------------------------------------------------------------
(* The chain of rows.                                                      *)

ChainWhole == \A s \in Stage : Exists(s) => ChainedTo(s)

\* The comparisons of a stage only look at the rows up to it.
LEMMA BoundStays ==
  ASSUME NEW u \in Stage, \A t \in Reservation..u : row'[t] = row[t], Bound(u)
  PROVE  Bound(u)'
<1>1. /\ 1 \in 1..u /\ u \in 1..u
      /\ u \in 8..10 => 7 \in 1..u
      /\ u \in 13..15 => 12 \in 1..u
      /\ u = 18 => 17 \in 1..u
  BY StageNumbers
<1> QED BY <1>1, StageNumbers DEF Bound, Repeats, Update

LEMMA ChainGrows ==
  ASSUME Typed, ChainWhole, NEW s \in Stage, NEW new \in PlanRow,
         row'[s] = new, new # NoRow, \A t \in Stage \ {s} : row'[t] = row[t],
         ~ Exists(s), ChainedTo(s - 1),
         s # Reservation => new.req = Update.req /\ new.local = Update.local,
         Repeats(s, new.mark)
  PROVE  ChainWhole'
<1> SUFFICES ASSUME NEW t \in Stage, Exists(t)' PROVE ChainedTo(t)'
  BY DEF ChainWhole
<1>0. s \in 1..18 /\ t \in 1..18 /\ Reservation = 1 /\ Stage = 1..18
  BY StageNumbers
<1>1. ASSUME NEW r \in Nat, r < s \/ (r # s /\ r \in Stage), \A u \in 1..r : u \in Stage,
             ChainedTo(r)
      PROVE  \A u \in 1..r : row'[u] = row[u] /\ Exists(u)' /\ Bound(u)'
  <2>1. \A u \in 1..r : Exists(u) /\ Bound(u) /\ u # s
    BY <1>0, <1>1 DEF ChainedTo
  <2>2. \A u \in 1..r : row'[u] = row[u]
    BY <1>1, <2>1
  <2>3. \A u \in 1..r : \A v \in 1..u : v \in 1..r
    BY <1>1
  <2>4. \A u \in 1..r : Bound(u)'
    BY <1>0, <1>1, <2>1, <2>2, <2>3, BoundStays
  <2> QED BY <2>1, <2>2, <2>4 DEF Exists
<1>2. CASE t # s
  <2>1. Exists(t) /\ ChainedTo(t)
    BY <1>2 DEF Exists, ChainWhole
  <2>2. t \in Nat /\ \A u \in 1..t : u \in Stage
    BY <1>0
  <2> QED BY <1>0, <1>1, <1>2, <2>1, <2>2 DEF ChainedTo
<1>3. CASE t = s
  <2>1. s - 1 \in Nat /\ s - 1 < s /\ \A u \in 1..(s - 1) : u \in Stage
    BY <1>0
  <2>2. \A u \in 1..(s - 1) : row'[u] = row[u] /\ Exists(u)' /\ Bound(u)'
    BY <1>1, <2>1
  <2>3. Exists(s)'
    BY DEF Exists
  <2>4. Bound(s)'
    <3>1. /\ s # 1 => row'[1] = row[1]
          /\ s \in 8..10 => row'[7] = row[7]
          /\ s \in 13..15 => row'[12] = row[12]
          /\ s = 18 => row'[17] = row[17]
      BY <1>0, <2>2
    <3> QED BY <1>0, <3>1, StageNumbers DEF Bound, Repeats, Update
  <2>5. \A u \in 1..s : u = s \/ u \in 1..(s - 1)
    BY <1>0
  <2> QED BY <1>0, <1>3, <2>2, <2>3, <2>4, <2>5 DEF ChainedTo
<1> QED BY <1>2, <1>3

TxAlone == \A p, q \in Proc : InTransaction(p) /\ InTransaction(q) => p = q

\* What a call that will write has found in the tables.
Ready(s, new) ==
  /\ s \in Protected..Activation
  /\ ~ Exists(s) /\ ChainedTo(s - 1)
  /\ new.req = Update.req /\ new.local = Update.local /\ Repeats(s, new.mark)

TxReady == \A p \in Proc : Recording(p) => Ready(call[p].stage, call[p].new)

\* An inspection looks for the outcome of an act that was claimed.
LooksAfterClaim ==
  \A p \in Proc, a \in Act : Looking(p) /\ call[p].stage = SettledBy[a] => Exists(ClaimOf[a])

ChainInv ==
  /\ Typed /\ ClaimsAreClaims
  /\ ChainWhole /\ TxAlone /\ TxReady /\ LooksAfterClaim

LEMMA TransactionKinds ==
  \A p \in Proc : InTransaction(p) <=> Recording(p) \/ Looking(p)
BY DEF InTransaction, Reading, Recording, Looking

\* Whatever writes a row continues the chain, and no other call is in a
\* transaction then.
LEMMA WritesContinue ==
  ASSUME ChainInv, NEW p \in Proc, Writes(p)
  PROVE  /\ call[p].stage \in Stage /\ call[p].new \in PlanRow
         /\ ~ Exists(call[p].stage) /\ ChainedTo(call[p].stage - 1)
         /\ call[p].stage # Reservation => /\ call[p].new.req = Update.req
                                           /\ call[p].new.local = Update.local
         /\ Repeats(call[p].stage, call[p].new.mark)
         /\ \A w \in Proc \ {p} : ~ InTransaction(w)
         /\ Commits(p) => Recording(p)
<1>0. TypeOK /\ call[p] # Free BY Written DEF ChainInv, Typed
<1>1. call[p].stage \in Stage /\ call[p].new \in PlanRow
  BY <1>0, CallFields
<1>2. CASE Reserve(p)
  <2>1. /\ call[p].stage = Reservation /\ ~ Exists(Reservation)
        /\ \A w \in Proc : ~ InTransaction(w)
    BY <1>2 DEF Reserve, At, DbFree
  <2>2. ChainedTo(Reservation - 1) /\ Repeats(Reservation, call[p].new.mark)
    BY StageNumbers DEF ChainedTo, Repeats
  <2>3. ~ Commits(p)
    BY <1>2 DEF Reserve, Commits, At
  <2> QED BY <1>1, <2>1, <2>2, <2>3
<1>3. CASE PreclaimOnce(p)
  <2>1. /\ call[p].stage = Preclaim /\ ~ Exists(Preclaim) /\ row[Reservation] = call[p].new
        /\ \A w \in Proc : ~ InTransaction(w)
    BY <1>3 DEF PreclaimOnce, At, DbFree
  <2>2. Exists(Reservation)
    BY <1>1, <2>1, NoPlanRowAssumption DEF Exists
  <2>3. ChainedTo(Preclaim - 1)
    BY <2>2, StageNumbers DEF ChainedTo, Bound, Repeats, Update
  <2>4. Repeats(Preclaim, call[p].new.mark)
    BY StageNumbers DEF Repeats
  <2>5. ~ Commits(p)
    BY <1>3 DEF PreclaimOnce, Commits, At
  <2> QED BY <1>1, <2>1, <2>3, <2>4, <2>5 DEF Update
<1>4. CASE Commits(p)
  <2>1. Recording(p)
    BY <1>4 DEF Commits, At, Recording
  <2>2. Ready(call[p].stage, call[p].new)
    BY <2>1 DEF ChainInv, TxReady
  <2>3. \A w \in Proc \ {p} : ~ InTransaction(w)
    BY <2>1, TransactionKinds DEF ChainInv, TxAlone
  <2> QED BY <1>1, <2>1, <2>2, <2>3 DEF Ready
<1> QED BY <1>2, <1>3, <1>4 DEF Writes

\* A row stays as it was written.
LEMMA RowsStand ==
  ASSUME ChainInv, [Next]_vars, NEW s \in Stage, Exists(s)
  PROVE  row'[s] = row[s] /\ Exists(s)'
<1>1. row'[s] = row[s]
  <2>1. CASE \E p \in Proc : Writes(p)
    BY <2>1, WritesContinue, Written DEF ChainInv
  <2>2. CASE UNCHANGED row
    BY <2>2
  <2>3. UNCHANGED row \/ \E p \in Proc : Writes(p)
    BY StepKinds, OutsideLeaves, ReadsLeave, Called DEF OutsideFrame, vars, ChainInv
  <2> QED BY <2>1, <2>2, <2>3
<1> QED BY <1>1 DEF Exists

\* The calls of the other processes, when no row is written.
LEMMA OthersReady ==
  ASSUME ChainInv, UNCHANGED row, NEW p \in Proc, \A w \in Proc \ {p} : call'[w] = call[w],
         InTransaction(p)' => InTransaction(p) \/ DbFree,
         Recording(p)' => Ready(call'[p].stage, call'[p].new),
         \A a \in Act : Looking(p)' /\ call'[p].stage = SettledBy[a] => Exists(ClaimOf[a])
  PROVE  ChainWhole' /\ TxAlone' /\ TxReady' /\ LooksAfterClaim'
<1>1. ChainWhole'
  BY DEF ChainInv, ChainWhole, ChainedTo, Exists, Bound, Repeats, Update
<1>2. TxAlone'
  BY DEF ChainInv, TxAlone, InTransaction, DbFree
<1>3. TxReady'
  <2>1. ASSUME NEW w \in Proc, Recording(w)' PROVE Ready(call[w].stage, call[w].new)'
    <3>1. CASE w = p
      BY <2>1, <3>1 DEF Ready, ChainedTo, Exists, Bound, Repeats, Update
    <3>2. CASE w # p
      BY <2>1, <3>2 DEF ChainInv, TxReady, Recording, Ready, ChainedTo, Exists, Bound,
                        Repeats, Update
    <3> QED BY <3>1, <3>2
  <2> QED BY <2>1 DEF TxReady
<1>4. LooksAfterClaim'
  BY DEF ChainInv, LooksAfterClaim, Looking, Exists
<1> QED BY <1>1, <1>2, <1>3, <1>4

LEMMA ChainInvStep ==
  ASSUME ChainInv, [Next]_vars
  PROVE  ChainInv'
<1> DEFINE Goal == ChainWhole' /\ TxAlone' /\ TxReady' /\ LooksAfterClaim'
<1>0. Typed /\ ClaimsAreClaims /\ Typed' /\ ClaimsAreClaims'
  BY TypedStep, ClaimsAreClaimsStep DEF ChainInv
<1>1. ASSUME UNCHANGED <<row, call>> PROVE Goal
  <2>1. ChainWhole'
    BY <1>1 DEF ChainInv, ChainWhole, ChainedTo, Exists, Bound, Repeats, Update
  <2>2. TxAlone' /\ LooksAfterClaim'
    BY <1>1 DEF ChainInv, TxAlone, LooksAfterClaim, InTransaction, Looking, Exists
  <2>3. TxReady'
    BY <1>1 DEF ChainInv, TxReady, Ready, ChainedTo, Exists, Bound, Repeats, Update, Recording
  <2> QED BY <2>1, <2>2, <2>3
<1>2. ASSUME NEW p \in Proc, Reads(p) PROVE Goal
  <2>0. UNCHANGED row
    BY <1>2, ReadsLeave
  <2>1. ASSUME NEW s \in {Reservation, Preclaim}, NEW q \in Request, ReadsBasis(p, s, q)
        PROVE  Goal
    BY <1>0, <2>0, <2>1, BasisRead, OthersReady, TransactionKinds
    DEF InTransaction, Reading, Recording, Looking
  <2>2. ASSUME NEW s \in Protected..Activation, Begin(p, s) PROVE Goal
    <3>1. DbFree /\ Open(s) /\ Repeats(s, Evidence(s))
      BY <2>2 DEF Begin
    <3>2. Ready(call'[p].stage, call'[p].new) /\ ~ Looking(p)'
      BY <1>0, <2>2, <3>1, Begun DEF Ready, Open, Looking
    <3> QED BY <1>0, <2>0, <2>2, <3>1, <3>2, Begun, OthersReady
  <2>3. ASSUME InspectWrite(p) \/ InspectDelete(p) PROVE Goal
    <3>1. /\ DbFree
          /\ InspectWrite(p) => Exists(WriteClaim)
          /\ ~ InspectWrite(p) => Exists(DeleteClaim)
      BY <2>3, StageNumbers DEF InspectWrite, InspectDelete, ChainedTo
    <3>2. \A a \in Act : call'[p].stage = SettledBy[a] => Exists(ClaimOf[a])
      BY <1>0, <2>3, <3>1, Inspected, StageNumbers DEF Act, SettledBy, ClaimOf
    <3>3. ~ Recording(p)'
      BY <1>0, <2>3, Inspected DEF Recording
    <3> QED BY <1>0, <2>0, <2>3, <3>1, <3>2, <3>3, Inspected, OthersReady
  <2>4. ASSUME Signs(p) \/ Confirms(p) \/ InspectDeleteSigns(p) PROVE Goal
    <3>1. /\ InTransaction(p)
          /\ Recording(p)' => Recording(p)
          /\ Looking(p)' => Looking(p)
      BY <1>0, <2>4, ReadsOn DEF InTransaction, Reading, Recording, Looking
    <3>2. Recording(p)' => Ready(call'[p].stage, call'[p].new)
      BY <1>0, <2>4, <3>1, ReadsOn DEF ChainInv, TxReady
    <3>3. \A a \in Act : Looking(p)' /\ call'[p].stage = SettledBy[a] => Exists(ClaimOf[a])
      BY <1>0, <2>4, <3>1, ReadsOn DEF ChainInv, LooksAfterClaim
    <3> QED BY <1>0, <2>0, <2>4, <3>1, <3>2, <3>3, ReadsOn, OthersReady
  <2>5. ASSUME Closes(p) PROVE Goal
    BY <1>0, <2>0, <2>5, Closed, OthersReady DEF InTransaction, Recording, Looking
  <2> QED BY <1>2, <2>1, <2>2, <2>3, <2>4, <2>5, ReadKinds
<1>3. ASSUME NEW p \in Proc, Writes(p) PROVE Goal
  <2>1. ChainWhole'
    BY <1>0, <1>3, WritesContinue, Written, ChainGrows DEF ChainInv
  <2>2. \A w \in Proc : ~ InTransaction(w)'
    BY <1>0, <1>3, WritesContinue, Written DEF InTransaction, Reading
  <2>3. \A w \in Proc : ~ Recording(w)' /\ ~ Looking(w)'
    BY <2>2 DEF InTransaction, Reading, Recording, Looking
  <2> QED BY <2>1, <2>2, <2>3 DEF TxAlone, TxReady, LooksAfterClaim
<1>4. ASSUME NEW p \in Proc, CallsService(p) PROVE Goal
  BY <1>0, <1>4, Called, OthersReady DEF InTransaction, Reading, Recording, Looking
<1>5. Goal
  BY <1>1, <1>2, <1>3, <1>4, StepKinds, OutsideLeaves DEF OutsideFrame, vars
<1> QED BY <1>0, <1>5 DEF ChainInv

\* The rows are always the beginning of one update's chain.
THEOREM RowsAreOneChain == Spec => []OneChain
<1>1. Init => ChainInv
  BY InitTyped DEF Init, ChainInv, ClaimsAreClaims, ChainWhole, TxAlone, TxReady,
                   LooksAfterClaim, Exists, InTransaction, Recording, Looking
<1>2. ChainInv /\ [Next]_vars => ChainInv'
  BY ChainInvStep
<1>3. ChainInv => OneChain
  <2> SUFFICES ASSUME ChainInv, NEW s \in Stage, Exists(s)
               PROVE  Bound(s) /\ (s > Reservation => Exists(s - 1))
    BY DEF OneChain
  <2>1. ChainedTo(s) /\ s \in 1..18 /\ Reservation = 1
    BY StageNumbers DEF ChainInv, ChainWhole
  <2> QED BY <2>1 DEF ChainedTo
<1> QED BY <1>1, <1>2, <1>3, PTL DEF Spec

-----------------------------------------------------------------------------
(* The acts.                                                               *)

PastClaim(p) == call[p] # Free /\ call[p].at \in {"claimed", "calling"}

\* A call past its claim holds a row that is its own, and a claimed act has not
\* been begun.
ClaimsHeld ==
  \A p \in Proc : PastClaim(p) =>
    /\ Exists(call[p].stage)
    /\ call[p].at = "claimed" => acts[ActOf(call[p].stage)] = 0

OneHolder ==
  \A p, q \in Proc : PastClaim(p) /\ PastClaim(q) /\ call[p].stage = call[q].stage => p = q

ActingBegun == \A a \in acting : acts[a] > 0

LaunchBegun ==
  \/ process # "none"
  \/ Exists(Started)
  \/ \E p \in Proc : Recording(p) /\ call[p].stage = Started
  => acts["launch"] > 0

ActInv == ClaimsHeld /\ OneHolder /\ ActsOnce /\ ActingBegun /\ LaunchBegun

LEMMA DispatchingIsPastClaim ==
  \A p \in Proc, a \in Act :
    Dispatching(p, a) <=> PastClaim(p) /\ call[p].stage = ClaimOf[a]
BY DEF Dispatching, PastClaim

\* The call of the service begins the act of a claim that is the process's own.
LEMMA BeginsOwnAct ==
  ASSUME ChainInv, ActInv, NEW p \in Proc, CallsService(p)
  PROVE  /\ ActOf(call[p].stage) \in Act
         /\ call[p].stage = ClaimOf[ActOf(call[p].stage)]
         /\ Exists(call[p].stage) /\ acts[ActOf(call[p].stage)] = 0
         /\ acts'[ActOf(call[p].stage)] = 1
         /\ \A a \in Act \ {ActOf(call[p].stage)} : acts'[a] = acts[a]
<1>1. PastClaim(p) /\ call[p].at = "claimed"
  BY Called DEF ChainInv, PastClaim
<1>2. call[p].stage \in Claims
  BY <1>1 DEF ChainInv, ClaimsAreClaims, PastClaim
<1>3. Exists(call[p].stage) /\ acts[ActOf(call[p].stage)] = 0
  BY <1>1 DEF ActInv, ClaimsHeld
<1>4. /\ ActOf(call[p].stage) \in Act
      /\ call[p].stage = ClaimOf[ActOf(call[p].stage)]
  BY <1>2, ClaimsOfActs
<1>5. acts \in [Act -> Nat] /\ acts' = [acts EXCEPT ![ActOf(call[p].stage)] = @ + 1]
  BY Called DEF ChainInv, Typed, TypeOK
<1> QED BY <1>3, <1>4, <1>5

\* No act is ever taken back.
LEMMA ActsGrow ==
  ASSUME ChainInv, ActInv, [Next]_vars
  PROVE  \A a \in Act : acts'[a] = acts[a] \/ acts'[a] = 1
<1>1. UNCHANGED acts \/ \E p \in Proc : CallsService(p)
  BY StepKinds, OutsideLeaves, ReadsLeave, Written
  DEF OutsideFrame, vars, deeds, ChainInv
<1> QED BY <1>1, BeginsOwnAct

LEMMA ActInvStep ==
  ASSUME ChainInv, ActInv, [Next]_vars
  PROVE  ActInv'
<1>0. Typed /\ TypeOK /\ acts \in [Act -> Nat]
  BY DEF ChainInv, Typed, TypeOK
<1>1. ClaimsHeld' /\ OneHolder'
  <2>1. ASSUME UNCHANGED <<call, acts>> PROVE ClaimsHeld' /\ OneHolder'
    BY <1>0, <2>1, CallFields, RowsStand DEF ActInv, ClaimsHeld, OneHolder, PastClaim
  <2>2. ASSUME NEW p \in Proc, Reads(p) PROVE ClaimsHeld' /\ OneHolder'
    <3>1. UNCHANGED acts /\ \A w \in Proc \ {p} : call'[w] = call[w]
      BY <1>0, <2>2, ReadKinds, BasisRead, Begun, Inspected, ReadsOn, Closed DEF deeds
    <3>2. ~ PastClaim(p)'
      BY <1>0, <2>2, ReadKinds, BasisRead, Begun, Inspected, ReadsOn, Closed DEF PastClaim
    <3> QED BY <1>0, <3>1, <3>2, CallFields, RowsStand
            DEF ActInv, ClaimsHeld, OneHolder, PastClaim
  <2>3. ASSUME NEW p \in Proc, Writes(p) PROVE ClaimsHeld' /\ OneHolder'
    <3>1. UNCHANGED acts /\ \A w \in Proc \ {p} : call'[w] = call[w]
      BY <1>0, <2>3, Written DEF deeds
    <3>2. PastClaim(p)' => /\ call'[p].stage = call[p].stage /\ call[p].stage \in Claims
                           /\ ~ Exists(call[p].stage) /\ Exists(call[p].stage)'
      BY <1>0, <2>3, Written, WritesContinue DEF PastClaim, Exists
    <3>3. PastClaim(p)' => acts[ActOf(call[p].stage)] = 0
      BY <1>0, <3>2, ClaimsOfActs DEF ActInv, ActsOnce
    <3>4. \A w \in Proc \ {p} : PastClaim(w)' => PastClaim(w) /\ Exists(call[w].stage)
                                                 /\ Exists(call[w].stage)'
      BY <1>0, <3>1, CallFields, RowsStand DEF ActInv, ClaimsHeld, PastClaim
    <3> QED BY <3>1, <3>2, <3>3, <3>4 DEF ActInv, ClaimsHeld, OneHolder, PastClaim
  <2>4. ASSUME NEW p \in Proc, CallsService(p) PROVE ClaimsHeld' /\ OneHolder'
    <3>1. /\ \A w \in Proc \ {p} : call'[w] = call[w]
          /\ PastClaim(p) /\ call'[p].at = "calling" /\ call'[p].stage = call[p].stage
          /\ UNCHANGED row
      BY <1>0, <2>4, Called DEF PastClaim
    <3>2. ASSUME NEW w \in Proc \ {p}, PastClaim(w)
          PROVE  acts'[ActOf(call[w].stage)] = acts[ActOf(call[w].stage)]
      <4>1. call[w].stage # call[p].stage
        BY <3>1, <3>2 DEF ActInv, OneHolder
      <4>2. call[w].stage \in Claims /\ call[p].stage \in Claims
        BY <3>1, <3>2 DEF ChainInv, ClaimsAreClaims, PastClaim
      <4> QED BY <2>4, <4>1, <4>2, ClaimsOfActs, BeginsOwnAct
    <3> QED BY <3>1, <3>2 DEF ActInv, ClaimsHeld, OneHolder, PastClaim, Exists
  <2> QED BY <2>1, <2>2, <2>3, <2>4, StepKinds, OutsideLeaves
          DEF OutsideFrame, vars, deeds
<1>2. ActsOnce'
  <2>1. ASSUME UNCHANGED acts PROVE ActsOnce'
    BY <2>1, RowsStand, ClaimsOfActs DEF ActInv, ActsOnce
  <2>2. ASSUME NEW p \in Proc, CallsService(p) PROVE ActsOnce'
    BY <2>2, BeginsOwnAct, RowsStand, ClaimsOfActs DEF ActInv, ActsOnce
  <2> QED BY <2>1, <2>2, StepKinds, OutsideLeaves, ReadsLeave, Written
          DEF OutsideFrame, vars, deeds, ChainInv
<1>3. ActingBegun'
  <2>1. ASSUME UNCHANGED acts, acting' \subseteq acting PROVE ActingBegun'
    BY <2>1 DEF ActInv, ActingBegun
  <2>2. ASSUME NEW p \in Proc, CallsService(p) PROVE ActingBegun'
    <3>1. acting' = acting \cup {ActOf(call[p].stage)} /\ acting \subseteq Act
      BY <1>0, <2>2, Called DEF TypeOK
    <3> QED BY <2>2, <3>1, BeginsOwnAct DEF ActInv, ActingBegun
  <2> QED BY <2>1, <2>2, StepKinds, OutsideLeaves, ReadsLeave, Written
          DEF OutsideFrame, vars, deeds, ChainInv
<1>4. LaunchBegun'
  <2>1. acts["launch"] > 0 => acts'["launch"] > 0
    BY <1>0, ActsGrow DEF Act
  <2>2. process' # "none" => acts'["launch"] > 0
    <3>1. process' # "none" => process # "none" \/ "launch" \in acting
      BY StepKinds, OutsideLeaves, ReadsLeave, Written, Called
      DEF OutsideFrame, vars, site, ChainInv
    <3> QED BY <2>1, <3>1 DEF ActInv, LaunchBegun, ActingBegun
  <2>3. Exists(Started)' => acts'["launch"] > 0
    <3>1. Started \in Stage
      BY StageNumbers
    <3>2. ASSUME NEW p \in Proc, Writes(p), Exists(Started)' PROVE acts["launch"] > 0
      <4>1. CASE call[p].stage = Started
        <5>1. Recording(p)
          BY <3>2, <4>1, WritesContinue, StageNumbers
          DEF Writes, Reserve, PreclaimOnce, At
        <5> QED BY <4>1, <5>1 DEF ActInv, LaunchBegun
      <4>2. CASE call[p].stage # Started
        BY <1>0, <3>1, <3>2, <4>2, Written DEF ActInv, LaunchBegun, Exists
      <4> QED BY <4>1, <4>2
    <3>3. ASSUME UNCHANGED row, Exists(Started)' PROVE acts["launch"] > 0
      BY <3>3 DEF ActInv, LaunchBegun, Exists
    <3> QED BY <2>1, <3>2, <3>3, StepKinds, OutsideLeaves, ReadsLeave, Called
            DEF OutsideFrame, vars, ChainInv
  <2>4. ASSUME NEW p \in Proc, Recording(p)', call'[p].stage = Started
        PROVE  acts'["launch"] > 0
    <3>1. CASE call'[p] = call[p]
      BY <2>1, <2>4, <3>1 DEF ActInv, LaunchBegun, Recording
    <3>2. CASE call'[p] # call[p]
      <4>1. \A w \in Proc : Writes(w) \/ CallsService(w) =>
               (call'[p] = call[p] \/ ~ Recording(p)')
        BY <1>0, Written, Called DEF Recording
      <4>2. PICK w \in Proc : Reads(w)
        BY <2>4, <3>2, <4>1, StepKinds, OutsideLeaves DEF OutsideFrame, vars
      <4>3. w = p /\ ((\E s \in Protected..Activation : Begin(p, s))
                      \/ Signs(p) \/ Confirms(p) \/ InspectDeleteSigns(p))
        BY <1>0, <2>4, <3>2, <4>2, ReadKinds, BasisRead, Begun, Inspected, ReadsOn, Closed
        DEF Recording
      <4>4. ASSUME NEW s \in Protected..Activation, Begin(p, s) PROVE acts["launch"] > 0
        BY <1>0, <2>4, <4>4, Begun, StageNumbers DEF Begin, Sees, ActInv, LaunchBegun
      <4>5. ASSUME Signs(p) \/ Confirms(p) \/ InspectDeleteSigns(p) PROVE acts["launch"] > 0
        BY <1>0, <2>4, <4>5, ReadsOn DEF Recording, ActInv, LaunchBegun
      <4> QED BY <2>1, <4>3, <4>4, <4>5
    <3> QED BY <3>1, <3>2
  <2> QED BY <2>2, <2>3, <2>4 DEF LaunchBegun
<1> QED BY <1>1, <1>2, <1>3, <1>4 DEF ActInv

\* Each act is begun at most once, and its claim is found by every restart.
THEOREM ActsBegunOnce == Spec => []ActsOnce
<1>1. Init => ChainInv /\ ActInv
  <2>1. Init => ChainInv
    BY InitTyped DEF Init, ChainInv, ClaimsAreClaims, ChainWhole, TxAlone, TxReady,
                     LooksAfterClaim, Exists, InTransaction, Recording, Looking
  <2>2. Init => ActInv
    BY StageNumbers DEF Init, ActInv, ClaimsHeld, OneHolder, ActsOnce, ActingBegun,
                        LaunchBegun, PastClaim, Recording, Exists
  <2> QED BY <2>1, <2>2
<1>2. ChainInv /\ ActInv /\ [Next]_vars => (ChainInv /\ ActInv)'
  BY ChainInvStep, ActInvStep
<1>3. ActInv => ActsOnce
  BY DEF ActInv
<1> QED BY <1>1, <1>2, <1>3, PTL DEF Spec

-----------------------------------------------------------------------------
(* Terminations.                                                           *)

\* The outcome of an act is on record, about to be recorded, being looked at or
\* reported.
Settling(a) ==
  \/ Exists(SettledBy[a])
  \/ \E p \in Proc : InTransaction(p) /\ call[p].stage = SettledBy[a]
  \/ \E r \in reports : r.act = a

\* An act whose outcome matters can no longer happen.
SettledQuiet == \A a \in {"write", "delete"} : Settling(a) => Quiet(a) /\ Exists(ClaimOf[a])

\* An act that was claimed, is not under way and has no call past its claim is
\* never under way again.
LEMMA QuietStays ==
  ASSUME ChainInv, ActInv, [Next]_vars, NEW a \in Act, Quiet(a), Exists(ClaimOf[a])
  PROVE  Quiet(a)' /\ Exists(ClaimOf[a])'
<1>0. Typed /\ ClaimOf[a] \in Stage /\ Exists(ClaimOf[a])'
  BY ClaimsOfActs, RowsStand DEF ChainInv
<1>1. ASSUME acting' \subseteq acting, UNCHANGED call PROVE Quiet(a)'
  BY <1>1 DEF Quiet, Dispatching
<1>2. ASSUME NEW p \in Proc, Reads(p) PROVE Quiet(a)'
  <2>1. UNCHANGED acting /\ \A w \in Proc \ {p} : call'[w] = call[w]
    BY <1>0, <1>2, ReadKinds, BasisRead, Begun, Inspected, ReadsOn, Closed DEF deeds
  <2>2. ~ Dispatching(p, a)'
    BY <1>0, <1>2, ReadKinds, BasisRead, Begun, Inspected, ReadsOn, Closed DEF Dispatching
  <2> QED BY <2>1, <2>2 DEF Quiet, Dispatching
<1>3. ASSUME NEW p \in Proc, Writes(p) PROVE Quiet(a)'
  <2>1. UNCHANGED acting /\ \A w \in Proc \ {p} : call'[w] = call[w]
    BY <1>0, <1>3, Written DEF deeds
  <2>2. ~ Dispatching(p, a)'
    BY <1>0, <1>3, Written, WritesContinue DEF Dispatching
  <2> QED BY <2>1, <2>2 DEF Quiet, Dispatching
<1>4. ASSUME NEW p \in Proc, CallsService(p) PROVE Quiet(a)'
  <2>1. ~ Dispatching(p, a) /\ call[p] # Free /\ call[p].at = "claimed"
    BY <1>0, <1>4, Called DEF Quiet
  <2>2. ActOf(call[p].stage) # a
    BY <1>4, <2>1, BeginsOwnAct DEF Dispatching
  <2>3. ~ Dispatching(p, a)'
    BY <1>0, <1>4, <2>1, Called DEF Dispatching
  <2> QED BY <1>0, <1>4, <2>2, <2>3, Called DEF Quiet, Dispatching
<1> QED BY <1>0, <1>1, <1>2, <1>3, <1>4, StepKinds, OutsideLeaves DEF OutsideFrame, vars, deeds

\* The returns that add a report, and what it says.
LEMMA Reported ==
  ASSUME ChainInv, NEW p \in Proc, Closes(p), NEW r \in reports', r \notin reports
  PROVE  /\ fenced
         /\ \/ WriteReadsBack(p) /\ r.act = "write" /\ r.saw = file
            \/ DeleteReadsBack(p) /\ r.act = "delete" /\ r.saw = capsule
            \/ /\ InspectWriteReturns(p) /\ r.act = "write" /\ r.saw = call[p].saw
               /\ call[p].new.mark = epoch
            \/ InspectDeleteReturns(p) /\ r.act = "delete" /\ r.saw = capsule
<1>1. ~ Ends(p)
  BY DEF Ends
<1> QED BY <1>1 DEF Closes, WriteReadsBack, DeleteReadsBack, InspectWriteReturns,
                    InspectDeleteReturns, Returns

\* A return that reads an effect back leaves its act for good.
LEMMA ReadBackIsQuiet ==
  ASSUME ChainInv, ActInv, NEW p \in Proc, NEW a \in {"write", "delete"},
         PastClaim(p), call[p].stage = ClaimOf[a], a \notin acting,
         UNCHANGED <<row, acting>>, call'[p] = Free,
         \A w \in Proc \ {p} : call'[w] = call[w]
  PROVE  Quiet(a)' /\ Exists(ClaimOf[a])'
<1>1. a \in Act
  BY DEF Act
<1>2. \A w \in Proc \ {p} : ~ Dispatching(w, a)
  BY <1>1, DispatchingIsPastClaim DEF ActInv, OneHolder
<1>3. Exists(ClaimOf[a])
  BY DEF ActInv, ClaimsHeld
<1> QED BY <1>2, <1>3 DEF Quiet, Dispatching, Exists

LEMMA SettledQuietStep ==
  ASSUME ChainInv, ActInv, SettledQuiet, [Next]_vars
  PROVE  SettledQuiet'
<1> SUFFICES ASSUME NEW a \in {"write", "delete"}, Settling(a)'
             PROVE  Quiet(a)' /\ Exists(ClaimOf[a])'
  BY DEF SettledQuiet
<1>0. Typed /\ a \in Act /\ SettledBy[a] \in Stage
  BY ClaimsOfActs DEF ChainInv, Act
<1>1. CASE Settling(a)
  BY <1>0, <1>1, QuietStays DEF SettledQuiet
<1>2. ASSUME ~ Settling(a) PROVE Quiet(a)' /\ Exists(ClaimOf[a])'
  <2>1. ASSUME Outside \/ UNCHANGED vars PROVE FALSE
    BY <1>2, <2>1, OutsideLeaves
    DEF OutsideFrame, vars, Settling, Exists, InTransaction
  <2>2. ASSUME NEW p \in Proc, Writes(p) PROVE FALSE
    <3>1. ~ InTransaction(p)'
      BY <1>0, <2>2, Written DEF InTransaction, Reading
    <3>2. \A w \in Proc \ {p} : call'[w] = call[w]
      BY <1>0, <2>2, Written
    <3>3. reports' = reports
      BY <1>0, <2>2, Written
    <3>4. Exists(SettledBy[a])'
      BY <1>2, <3>1, <3>2, <3>3 DEF Settling, InTransaction
    <3>5. call[p].stage = SettledBy[a]
      BY <1>0, <1>2, <2>2, <3>4, Written DEF Settling, Exists
    <3>6. SettledBy[a] \notin {Reservation, Preclaim}
      BY StageNumbers DEF SettledBy, Act
    <3>7. InTransaction(p)
      BY <2>2, <3>5, <3>6, TransactionKinds
      DEF Writes, Reserve, PreclaimOnce, Commits, At, Recording
    <3> QED BY <1>2, <3>5, <3>7 DEF Settling
  <2>3. ASSUME NEW p \in Proc, CallsService(p) PROVE FALSE
    BY <1>0, <1>2, <2>3, Called DEF Settling, Exists, InTransaction, Reading
  <2>4. ASSUME NEW p \in Proc, Reads(p) PROVE Quiet(a)' /\ Exists(ClaimOf[a])'
    <3>0. UNCHANGED <<row, acting>>
      BY <2>4, ReadsLeave DEF deeds
    <3>1. ASSUME NEW s \in {Reservation, Preclaim}, NEW q \in Request, ReadsBasis(p, s, q)
          PROVE  FALSE
      BY <1>0, <1>2, <3>0, <3>1, BasisRead DEF Settling, Exists, InTransaction, Reading
    <3>2. ASSUME NEW s \in Protected..Activation, Begin(p, s)
          PROVE  Quiet(a)' /\ Exists(ClaimOf[a])'
      <4>1. s = SettledBy[a]
        BY <1>0, <1>2, <3>0, <3>2, Begun DEF Settling, Exists, InTransaction
      <4>2. Sees(s) /\ ChainedTo(s - 1)
        BY <3>2 DEF Begin, Open
      <4>3. Quiet(a)
        BY <4>1, <4>2, StageNumbers DEF Sees, CapsuleCleared, SettledBy, Act
      <4>4. Exists(ClaimOf[a])
        BY <4>1, <4>2, StageNumbers DEF ChainedTo, SettledBy, ClaimOf, Act
      <4> QED BY <1>0, <4>3, <4>4, QuietStays
    <3>3. ASSUME InspectWrite(p) \/ InspectDelete(p) PROVE Quiet(a)' /\ Exists(ClaimOf[a])'
      <4>1. call'[p].stage = SettledBy[a]
        BY <1>0, <1>2, <3>0, <3>3, Inspected DEF Settling, Exists, InTransaction
      <4>2. a = IF InspectWrite(p) THEN "write" ELSE "delete"
        BY <1>0, <3>3, <4>1, Inspected, StageNumbers DEF SettledBy, Act
      <4>3. Quiet(a) /\ Exists(ClaimOf[a])
        BY <3>3, <4>2, StageNumbers
        DEF InspectWrite, InspectDelete, ChainedTo, ClaimOf, Act
      <4> QED BY <1>0, <4>3, QuietStays
    <3>4. ASSUME Signs(p) \/ Confirms(p) \/ InspectDeleteSigns(p) PROVE FALSE
      BY <1>0, <1>2, <3>0, <3>4, ReadsOn DEF Settling, Exists, InTransaction, Reading
    <3>5. ASSUME Closes(p) PROVE Quiet(a)' /\ Exists(ClaimOf[a])'
      <4>1. PICK r \in reports' : r.act = a
        BY <1>0, <1>2, <3>0, <3>5, Closed DEF Settling, Exists, InTransaction
      <4>2. r \notin reports
        BY <1>2, <4>1 DEF Settling
      <4>3. \/ WriteReadsBack(p) /\ a = "write"
            \/ DeleteReadsBack(p) /\ a = "delete"
            \/ InspectWriteReturns(p) /\ a = "write"
            \/ InspectDeleteReturns(p) /\ a = "delete"
        BY <3>5, <4>1, <4>2, Reported
      <4>4. ASSUME InspectWriteReturns(p) /\ a = "write" PROVE FALSE
        BY <1>2, <4>4 DEF InspectWriteReturns, At, Settling, InTransaction, Reading,
                          SettledBy, Act
      <4>5. ASSUME InspectDeleteReturns(p) /\ a = "delete" PROVE FALSE
        <5>1. call[p] # Free /\ call[p].at = "looked"
          BY <4>5 DEF InspectDeleteReturns, At
        <5>2. call[p].stage = Postdelete
          BY <5>1 DEF ChainInv, Typed, SawTyped, Looking
        <5> QED BY <1>2, <4>5, <5>1, <5>2
                DEF Settling, InTransaction, Reading, SettledBy, Act
      <4>6. /\ PastClaim(p) /\ call[p].stage = ClaimOf[a] /\ a \notin acting
        BY <4>3, <4>4, <4>5
        DEF WriteReadsBack, DeleteReadsBack, At, PastClaim, ClaimOf, Act
      <4> QED BY <1>0, <3>0, <3>5, <4>6, Closed, ReadBackIsQuiet
    <3> QED BY <2>4, <3>1, <3>2, <3>3, <3>4, <3>5, ReadKinds
  <2> QED BY <2>1, <2>2, <2>3, <2>4, StepKinds
<1> QED BY <1>1, <1>2

-----------------------------------------------------------------------------
(* What is seen under a fence.                                             *)

\* Evidence names no fence that has not been taken.
FencesKnown ==
  /\ \A s \in FenceStages : Exists(s) => row[s].mark <= epoch
  /\ \A p \in Proc :
       \/ Recording(p) /\ call[p].stage \in FenceStages
       \/ Looking(p)
       => call[p].new.mark <= epoch

\* What a call saw under a fence is so for as long as the fence lasts.
SeenStands ==
  \A p \in Proc : fenced /\ epoch = call[p].new.mark =>
    /\ Recording(p) /\ call[p].stage = Convergence => file = Update.req.succ
    /\ Recording(p) /\ call[p].stage = Postdelete
         => file = Update.req.succ /\ capsule = "absent"
    /\ Looking(p) /\ call[p].stage = Convergence => file = call[p].saw

FenceInv ==
  /\ FencesKnown /\ SeenStands /\ CertificatesStand
  /\ ReportsStand /\ (reports # {} => fenced)

ServiceInv == ChainInv /\ ActInv /\ SettledQuiet

\* A fence that holds after a step and was known before it held before it, and a
\* file on which no act can work has not changed under it.
LEMMA UnderOneFence ==
  ASSUME ServiceInv, [Next]_vars
  PROVE  /\ epoch' \in Nat /\ epoch' >= epoch
         /\ \A m \in Nat : m <= epoch /\ fenced' /\ epoch' = m => fenced /\ epoch = m
         /\ fenced /\ Quiet("write") => file' = file
         /\ fenced /\ Quiet("delete") => capsule' = capsule
<1>0. Typed /\ epoch \in Nat
  BY DEF ServiceInv, ChainInv, Typed, TypeOK
<1>1. CASE Outside
  BY <1>0, <1>1, OutsideLeaves DEF OutsideFrame, Quiet
<1>2. CASE UNCHANGED site
  BY <1>0, <1>2 DEF site
<1> QED BY <1>0, <1>1, <1>2, StepKinds, ReadsLeave, Written, Called DEF vars

\* A row or a call that speaks of an act's outcome keeps the act away.
LEMMA SettlingIsQuiet ==
  ASSUME ServiceInv
  PROVE  /\ Exists(Convergence) => Quiet("write")
         /\ Exists(Postdelete) => Quiet("write") /\ Quiet("delete")
         /\ \A p \in Proc : InTransaction(p) /\ call[p].stage = Convergence => Quiet("write")
         /\ \A p \in Proc : Recording(p) /\ call[p].stage = Postdelete
                              => Quiet("write") /\ Quiet("delete")
         /\ \A r \in reports : r.act = "write" => Quiet("write")
         /\ \A r \in reports : r.act = "delete" => Quiet("delete")
<1>1. SettledBy["write"] = Convergence /\ SettledBy["delete"] = Postdelete
  BY DEF SettledBy, Act
<1>2. /\ Settling("write") => Quiet("write")
      /\ Settling("delete") => Quiet("delete")
  BY DEF ServiceInv, SettledQuiet
<1>3. Exists(Postdelete) => Exists(Convergence)
  BY StageNumbers DEF ServiceInv, ChainInv, ChainWhole, ChainedTo
<1>4. \A p \in Proc : Recording(p) /\ call[p].stage = Postdelete => Exists(Convergence)
  BY StageNumbers DEF ServiceInv, ChainInv, TxReady, Ready, ChainedTo
<1> QED BY <1>1, <1>2, <1>3, <1>4, TransactionKinds DEF Settling

\* A call in a transaction after a step was in it before, or has just begun.
LEMMA RecordingBefore ==
  ASSUME ServiceInv, [Next]_vars, NEW p \in Proc, InTransaction(p)'
  PROVE  \/ /\ InTransaction(p)
            /\ Recording(p)' <=> Recording(p)
            /\ Looking(p)' <=> Looking(p)
            /\ call'[p].stage = call[p].stage /\ call'[p].new = call[p].new
            /\ call'[p].saw = call[p].saw
         \/ /\ UNCHANGED <<row, site, reports>>
            /\ \/ \E s \in Protected..Activation : Begin(p, s)
               \/ InspectWrite(p) \/ InspectDelete(p)
<1> DEFINE Same == /\ InTransaction(p)
                   /\ Recording(p)' <=> Recording(p)
                   /\ Looking(p)' <=> Looking(p)
                   /\ call'[p].stage = call[p].stage /\ call'[p].new = call[p].new
                   /\ call'[p].saw = call[p].saw
<1> DEFINE Fresh == /\ UNCHANGED <<row, site, reports>>
                    /\ \/ \E s \in Protected..Activation : Begin(p, s)
                       \/ InspectWrite(p) \/ InspectDelete(p)
<1>0. Typed
  BY DEF ServiceInv, ChainInv
<1>1. CASE call'[p] = call[p]
  BY <1>1 DEF InTransaction, Recording, Looking
<1>2. ASSUME call'[p] # call[p] PROVE Same \/ Fresh
  <2>1. \A w \in Proc : Writes(w) \/ CallsService(w) => call'[p] = call[p] \/ ~ InTransaction(p)'
    BY <1>0, Written, Called DEF InTransaction, Reading
  <2>2. PICK w \in Proc : Reads(w)
    BY <1>2, <2>1, StepKinds, OutsideLeaves DEF OutsideFrame, vars
  <2>3. /\ w = p
        /\ \/ \E s \in Protected..Activation : Begin(p, s)
           \/ InspectWrite(p) \/ InspectDelete(p)
           \/ Signs(p) \/ Confirms(p) \/ InspectDeleteSigns(p)
    BY <1>0, <1>2, <2>2, ReadKinds, BasisRead, Begun, Inspected, ReadsOn, Closed
    DEF InTransaction, Reading
  <2>4. ASSUME Signs(p) \/ Confirms(p) \/ InspectDeleteSigns(p) PROVE Same
    BY <1>0, <2>4, ReadsOn DEF InTransaction, Reading, Recording, Looking
  <2>5. ASSUME \/ \E s \in Protected..Activation : Begin(p, s)
               \/ InspectWrite(p) \/ InspectDelete(p)
        PROVE  Fresh
    BY <1>0, <2>5, Begun, Inspected
  <2> QED BY <2>3, <2>4, <2>5
<1> QED BY <1>1, <1>2

LEMMA FencesKnownStep ==
  ASSUME ServiceInv, FenceInv, [Next]_vars
  PROVE  FencesKnown'
<1>0. Typed /\ TypeOK /\ epoch \in Nat /\ epoch' \in Nat /\ epoch' >= epoch
  BY UnderOneFence DEF ServiceInv, ChainInv, Typed, TypeOK
<1>1. ASSUME NEW s \in FenceStages, Exists(s)' PROVE row'[s].mark <= epoch'
  <2>1. s \in Stage /\ s \notin {Reservation, Preclaim}
    BY StageNumbers, StageKinds
  <2>2. CASE Exists(s)
    BY <1>0, <2>1, <2>2, RowsStand, RowFields DEF FenceInv, FencesKnown, ServiceInv
  <2>3. ASSUME ~ Exists(s) PROVE row'[s].mark <= epoch'
    <3>1. PICK p \in Proc : Writes(p)
      BY <1>1, <2>3, StepKinds, OutsideLeaves, ReadsLeave, Called
      DEF OutsideFrame, vars, Exists, ServiceInv, ChainInv
    <3>2. /\ call[p].stage = s /\ row'[s] = call[p].new /\ UNCHANGED site
          /\ call[p].new \in PlanRow
      BY <1>0, <1>1, <2>1, <2>3, <3>1, Written, WritesContinue DEF Exists, ServiceInv
    <3>3. Recording(p)
      BY <2>1, <3>1, <3>2 DEF Writes, Reserve, PreclaimOnce, Commits, At, Recording
    <3> QED BY <1>0, <3>2, <3>3 DEF FenceInv, FencesKnown, site
  <2> QED BY <2>2, <2>3
<1>2. ASSUME NEW p \in Proc,
             (Recording(p)' /\ call'[p].stage \in FenceStages) \/ Looking(p)'
      PROVE  call'[p].new.mark <= epoch'
  <2>0. InTransaction(p)'
    BY <1>2, TransactionKinds DEF InTransaction, Reading, Recording, Looking
  <2>1. ASSUME /\ InTransaction(p)
               /\ Recording(p)' <=> Recording(p)
               /\ Looking(p)' <=> Looking(p)
               /\ call'[p].stage = call[p].stage /\ call'[p].new = call[p].new
        PROVE  call'[p].new.mark <= epoch'
    <3>1. call[p].new.mark \in Nat
      BY <1>0, <2>1, CallFields DEF InTransaction, PlanRow
    <3>2. call[p].new.mark <= epoch
      BY <1>2, <2>1 DEF FenceInv, FencesKnown
    <3> QED BY <1>0, <2>1, <3>1, <3>2
  <2>2. ASSUME NEW s \in Protected..Activation, Begin(p, s), UNCHANGED site
        PROVE  call'[p].new.mark <= epoch'
    BY <1>0, <1>2, <2>2, Begun DEF Evidence, site, Recording, Looking
  <2>3. ASSUME InspectWrite(p) \/ InspectDelete(p), UNCHANGED site
        PROVE  call'[p].new.mark <= epoch'
    BY <1>0, <2>3, Inspected DEF site
  <2> QED BY <2>0, <2>1, <2>2, <2>3, RecordingBefore
<1> QED BY <1>1, <1>2 DEF FencesKnown

LEMMA SeenStandsStep ==
  ASSUME ServiceInv, FenceInv, [Next]_vars
  PROVE  SeenStands'
<1> SUFFICES ASSUME NEW p \in Proc, InTransaction(p)', fenced', epoch' = call'[p].new.mark
             PROVE
      /\ Recording(p)' /\ call'[p].stage = Convergence => file' = Update'.req.succ
      /\ Recording(p)' /\ call'[p].stage = Postdelete
           => file' = Update'.req.succ /\ capsule' = "absent"
      /\ Looking(p)' /\ call'[p].stage = Convergence => file' = call'[p].saw
  BY DEF SeenStands, InTransaction, Reading, Recording, Looking
<1>0. Typed /\ TypeOK /\ Convergence \in FenceStages /\ Postdelete \in FenceStages
      /\ Convergence # Postdelete
  BY StageNumbers, StageKinds DEF ServiceInv, ChainInv, Typed
<1>1. ASSUME /\ InTransaction(p)
             /\ Recording(p)' <=> Recording(p)
             /\ Looking(p)' <=> Looking(p)
             /\ call'[p].stage = call[p].stage /\ call'[p].new = call[p].new
             /\ call'[p].saw = call[p].saw
      PROVE
      /\ Recording(p)' /\ call'[p].stage = Convergence => file' = Update'.req.succ
      /\ Recording(p)' /\ call'[p].stage = Postdelete
           => file' = Update'.req.succ /\ capsule' = "absent"
      /\ Looking(p)' /\ call'[p].stage = Convergence => file' = call'[p].saw
  <2>1. call[p].new.mark \in Nat
    BY <1>0, <1>1, CallFields DEF InTransaction, PlanRow
  <2>2. (Recording(p) /\ call[p].stage \in FenceStages) \/ Looking(p)
          => fenced /\ epoch = call[p].new.mark
    BY <1>1, <2>1, UnderOneFence DEF FenceInv, FencesKnown
  <2>3. Recording(p) /\ call[p].stage \in FenceStages => Update' = Update
    <3>1. Recording(p) /\ call[p].stage \in FenceStages => Exists(Reservation)
      BY StageNumbers, StageKinds
      DEF ServiceInv, ChainInv, TxReady, Ready, ChainedTo
    <3> QED BY <3>1, RowsStand, StageNumbers DEF Update, ServiceInv
  <2>4. InTransaction(p) /\ call[p].stage = Convergence => Quiet("write")
    BY SettlingIsQuiet
  <2>5. Recording(p) /\ call[p].stage = Postdelete => Quiet("write") /\ Quiet("delete")
    BY SettlingIsQuiet
  <2>6. ASSUME Recording(p), call[p].stage = Convergence PROVE file' = Update'.req.succ
    BY <1>0, <1>1, <2>2, <2>3, <2>4, <2>6, UnderOneFence DEF FenceInv, SeenStands
  <2>7. ASSUME Recording(p), call[p].stage = Postdelete
        PROVE  file' = Update'.req.succ /\ capsule' = "absent"
    BY <1>0, <2>2, <2>3, <2>5, <2>7, UnderOneFence DEF FenceInv, SeenStands
  <2>8. ASSUME Looking(p), call[p].stage = Convergence PROVE file' = call[p].saw
    BY <1>1, <2>2, <2>4, <2>8, UnderOneFence DEF FenceInv, SeenStands
  <2> QED BY <1>1, <2>6, <2>7, <2>8
<1>2. ASSUME NEW s \in Protected..Activation, Begin(p, s), UNCHANGED <<row, site>>
      PROVE
      /\ Recording(p)' /\ call'[p].stage = Convergence => file' = Update'.req.succ
      /\ Recording(p)' /\ call'[p].stage = Postdelete
           => file' = Update'.req.succ /\ capsule' = "absent"
      /\ Looking(p)' /\ call'[p].stage = Convergence => file' = call'[p].saw
  <2>1. Sees(s) /\ call'[p].stage = s /\ ~ Looking(p)'
    BY <1>0, <1>2, Begun DEF Begin, Looking
  <2>2. /\ s = Convergence => file = Update.req.succ
        /\ s = Postdelete => file = Update.req.succ /\ capsule = "absent"
    BY <2>1, StageNumbers DEF Sees, CapsuleCleared
  <2> QED BY <1>2, <2>1, <2>2 DEF site, Update
<1>3. ASSUME InspectWrite(p) \/ InspectDelete(p), UNCHANGED <<row, site>>
      PROVE
      /\ Recording(p)' /\ call'[p].stage = Convergence => file' = Update'.req.succ
      /\ Recording(p)' /\ call'[p].stage = Postdelete
           => file' = Update'.req.succ /\ capsule' = "absent"
      /\ Looking(p)' /\ call'[p].stage = Convergence => file' = call'[p].saw
  <2>1. ~ Recording(p)'
    BY <1>0, <1>3, Inspected DEF Recording
  <2>2. call'[p].stage = Convergence => call'[p].saw = file
    BY <1>0, <1>3, Inspected
  <2> QED BY <1>3, <2>1, <2>2 DEF site
<1> QED BY <1>1, <1>2, <1>3, RecordingBefore

\* A certificate stands after a step: it stood before, or its method has just
\* seen what it says.
LEMMA CertificatesStep ==
  ASSUME ServiceInv, FenceInv, [Next]_vars
  PROVE  CertificatesStand'
<1>0. Typed /\ TypeOK /\ Convergence \in FenceStages /\ Postdelete \in FenceStages
      /\ Convergence \in Stage /\ Postdelete \in Stage
      /\ Convergence \notin {Reservation, Preclaim} /\ Postdelete \notin {Reservation, Preclaim}
  BY StageNumbers, StageKinds DEF ServiceInv, ChainInv, Typed
<1>1. ASSUME NEW s \in {Convergence, Postdelete}, Exists(s), UnderFenceOf(s)'
      PROVE  /\ UnderFenceOf(s) /\ row'[s] = row[s]
             /\ Quiet("write") => file' = file
             /\ Quiet("delete") => capsule' = capsule
  <2>1. row[s].mark \in Nat /\ row[s].mark <= epoch /\ row'[s] = row[s]
    BY <1>0, <1>1, RowFields, RowsStand DEF FenceInv, FencesKnown, ServiceInv
  <2> QED BY <1>1, <2>1, UnderOneFence DEF UnderFenceOf
<1>2. ASSUME NEW s \in {Convergence, Postdelete}, ~ Exists(s), Exists(s)'
      PROVE  \E p \in Proc : /\ Recording(p) /\ call[p].stage = s
                             /\ row'[s] = call[p].new /\ call[p].new.req = Update.req
                             /\ UNCHANGED site
  <2>1. PICK p \in Proc : Writes(p)
    BY <1>2, StepKinds, OutsideLeaves, ReadsLeave, Called
    DEF OutsideFrame, vars, Exists, ServiceInv, ChainInv
  <2>2. call[p].stage = s /\ row'[s] = call[p].new /\ UNCHANGED site
    BY <1>0, <1>2, <2>1, Written DEF Exists
  <2>3. Recording(p) /\ call[p].new.req = Update.req
    BY <1>0, <2>1, <2>2, WritesContinue
    DEF Writes, Reserve, PreclaimOnce, Commits, At, Recording, ServiceInv
  <2> QED BY <2>2, <2>3
<1>3. ASSUME UnderFenceOf(Convergence)' PROVE file' = row'[Convergence].req.succ
  <2>1. CASE Exists(Convergence)
    BY <1>1, <1>3, <2>1, SettlingIsQuiet DEF FenceInv, CertificatesStand
  <2>2. ASSUME ~ Exists(Convergence) PROVE file' = row'[Convergence].req.succ
    <3>1. Exists(Convergence)' /\ fenced' /\ epoch' = row'[Convergence].mark
      BY <1>3 DEF UnderFenceOf
    <3> QED BY <1>2, <2>2, <3>1 DEF FenceInv, SeenStands, site
  <2> QED BY <2>1, <2>2
<1>4. ASSUME UnderFenceOf(Postdelete)'
      PROVE  file' = row'[Postdelete].req.succ /\ capsule' = "absent"
  <2>1. CASE Exists(Postdelete)
    BY <1>1, <1>4, <2>1, SettlingIsQuiet DEF FenceInv, CertificatesStand
  <2>2. ASSUME ~ Exists(Postdelete)
        PROVE  file' = row'[Postdelete].req.succ /\ capsule' = "absent"
    <3>1. Exists(Postdelete)' /\ fenced' /\ epoch' = row'[Postdelete].mark
      BY <1>4 DEF UnderFenceOf
    <3> QED BY <1>2, <2>2, <3>1 DEF FenceInv, SeenStands, site
  <2> QED BY <2>1, <2>2
<1> QED BY <1>3, <1>4 DEF CertificatesStand

LEMMA ReportsStep ==
  ASSUME ServiceInv, FenceInv, [Next]_vars
  PROVE  ReportsStand' /\ (reports' # {} => fenced')
<1>0. Typed /\ reports \subseteq Report
  BY DEF ServiceInv, ChainInv, Typed, TypeOK
<1>1. reports' # {} => fenced'
  <2>1. ASSUME Outside PROVE reports' # {} => fenced'
    BY <2>1, OutsideLeaves DEF OutsideFrame, FenceInv
  <2>2. ASSUME NEW p \in Proc, Closes(p) PROVE reports' # {} => fenced'
    <3>1. fenced' = fenced
      BY <1>0, <2>2, Closed DEF site
    <3>2. reports' # {} => reports # {} \/ fenced
      BY <2>2, Reported DEF ServiceInv
    <3> QED BY <3>1, <3>2 DEF FenceInv
  <2>3. ASSUME NEW p \in Proc, Reads(p) \/ Writes(p) \/ CallsService(p), ~ Closes(p)
        PROVE  reports' # {} => fenced'
    BY <1>0, <2>3, ReadKinds, BasisRead, Begun, Inspected, ReadsOn, Written, Called
    DEF FenceInv, site
  <2> QED BY <2>1, <2>2, <2>3, StepKinds DEF vars, site, FenceInv
<1>2. ASSUME NEW r \in reports' PROVE r.saw = IF r.act = "write" THEN file' ELSE capsule'
  <2>1. CASE r \in reports
    <3>1. fenced /\ r.act \in {"write", "delete"}
      BY <1>0, <2>1 DEF FenceInv, Report
    <3>2. r.act = "write" => file' = file
      BY <2>1, <3>1, SettlingIsQuiet, UnderOneFence
    <3>3. r.act = "delete" => capsule' = capsule
      BY <2>1, <3>1, SettlingIsQuiet, UnderOneFence
    <3> QED BY <2>1, <3>1, <3>2, <3>3 DEF FenceInv, ReportsStand
  <2>2. ASSUME r \notin reports
        PROVE  r.saw = IF r.act = "write" THEN file' ELSE capsule'
    <3>1. PICK p \in Proc : Closes(p)
      BY <1>0, <1>2, <2>2, StepKinds, OutsideLeaves, ReadKinds, BasisRead, Begun, Inspected,
         ReadsOn, Written, Called DEF OutsideFrame, vars
    <3>2. UNCHANGED site
      BY <1>0, <3>1, Closed
    <3>3. ASSUME InspectWriteReturns(p), call[p].new.mark = epoch, fenced
          PROVE  file = call[p].saw
      BY <3>3 DEF InspectWriteReturns, At, Looking, FenceInv, SeenStands
    <3> QED BY <1>2, <2>2, <3>1, <3>2, <3>3, Reported DEF ServiceInv, site
  <2> QED BY <2>1, <2>2
<1>3. ReportsStand'
  BY <1>2 DEF ReportsStand
<1> QED BY <1>1, <1>3

ChainSafety == ServiceInv /\ FenceInv

LEMMA ChainSafetyInit == Init => ChainSafety
<1> SUFFICES ASSUME Init PROVE ChainSafety
  OBVIOUS
<1>1. ChainInv
  BY InitTyped DEF Init, ChainInv, ClaimsAreClaims, ChainWhole, TxAlone, TxReady,
                   LooksAfterClaim, Exists, InTransaction, Recording, Looking
<1>2. ActInv
  BY StageNumbers DEF Init, ActInv, ClaimsHeld, OneHolder, ActsOnce, ActingBegun,
                      LaunchBegun, PastClaim, Recording, Exists
<1>3. SettledQuiet
  BY ClaimsOfActs DEF Init, SettledQuiet, Settling, Exists, InTransaction, Act
<1>4. FenceInv
  BY StageNumbers, StageKinds
  DEF Init, FenceInv, FencesKnown, SeenStands, CertificatesStand, ReportsStand,
      UnderFenceOf, Exists, Recording, Looking
<1> QED BY <1>1, <1>2, <1>3, <1>4 DEF ChainSafety, ServiceInv

LEMMA ChainSafetyStep ==
  ASSUME ChainSafety, [Next]_vars
  PROVE  ChainSafety'
BY ChainInvStep, ActInvStep, SettledQuietStep, FencesKnownStep, SeenStandsStep,
   CertificatesStep, ReportsStep
DEF ChainSafety, ServiceInv, FenceInv

\* A certificate speaks of the installation until its fence is lost.
THEOREM CertificatesAreTrue == Spec => []CertificatesStand
<1>1. ChainSafety => CertificatesStand
  BY DEF ChainSafety, FenceInv
<1> QED BY <1>1, ChainSafetyInit, ChainSafetyStep, PTL DEF Spec

\* So does what an inspection or a dispatch returned.
THEOREM ReportsAreTrue == Spec => []ReportsStand
<1>1. ChainSafety => ReportsStand
  BY DEF ChainSafety, FenceInv
<1> QED BY <1>1, ChainSafetyInit, ChainSafetyStep, PTL DEF Spec

\* Both: what was certified or reported stands.
THEOREM WordsAreTrue == Spec => []WordsStand
BY CertificatesAreTrue, ReportsAreTrue, PTL DEF WordsStand

-----------------------------------------------------------------------------
(* Acts on what was seen.                                                  *)

\* A call of a stage that claims, before it has called the service.
Unsent(p) ==
  /\ call[p] # Free /\ call[p].stage \in Claims
  /\ Recording(p) \/ call[p].at = "claimed"

\* What the methods of these stages read first.
Before(s) ==
  /\ fenced /\ local = Update.local
  /\ s = WriteClaim  => file = Update.req.pred /\ capsule = "kept"
  /\ s = DeleteClaim => file = Update.req.succ /\ capsule = "kept"
  /\ s = LaunchClaim => file = Update.req.succ /\ capsule = "absent" /\ process = "none"

UnsentAsRead == \A p \in Proc : Unsent(p) => Before(call[p].stage)

\* No act is under way while a call is on its way to begin one.
LEMMA UnsentIsAlone ==
  ASSUME ServiceInv, NEW p \in Proc, Unsent(p)
  PROVE  acting = {}
<1>0. TypeOK /\ acting \subseteq Act /\ call[p].stage \in Stage
  BY CallFields DEF ServiceInv, ChainInv, Typed, TypeOK, Unsent
<1> SUFFICES ASSUME NEW a \in acting PROVE FALSE
  OBVIOUS
<1>1. a \in Act /\ acts[a] > 0 /\ Exists(ClaimOf[a]) /\ ClaimOf[a] \in Stage
      /\ ClaimOf[a] \in Claims
  BY <1>0, ClaimsOfActs DEF ServiceInv, ActInv, ActingBegun, ActsOnce
<1>2. ChainedTo(ClaimOf[a])
  BY <1>1 DEF ServiceInv, ChainInv, ChainWhole
<1>3. PICK b \in Act : call[p].stage = ClaimOf[b]
  BY ClaimsOfActs DEF Unsent
<1>4. CASE Recording(p)
  <2>1. ~ Exists(call[p].stage) /\ ChainedTo(call[p].stage - 1)
    BY <1>4 DEF ServiceInv, ChainInv, TxReady, Ready
  <2>2. ClaimOf[a] < call[p].stage
    BY <1>0, <1>1, <1>2, <2>1, StageNumbers DEF ChainedTo
  <2>3. a \in {"write", "delete"} /\ Exists(SettledBy[a])
    BY <1>0, <1>1, <1>3, <2>1, <2>2, StageNumbers DEF ChainedTo, ClaimOf, SettledBy, Act
  <2> QED BY <2>3 DEF ServiceInv, SettledQuiet, Settling, Quiet
<1>5. CASE PastClaim(p) /\ call[p].at = "claimed"
  <2>1. Exists(call[p].stage) /\ acts[b] = 0 /\ ChainedTo(call[p].stage)
    BY <1>0, <1>3, <1>5, ClaimsOfActs
    DEF ServiceInv, ActInv, ClaimsHeld, ChainInv, ChainWhole
  <2>2. a # b
    BY <1>1, <2>1
  <2>3. CASE ClaimOf[a] < ClaimOf[b]
    <3>1. a \in {"write", "delete"} /\ Exists(SettledBy[a])
      BY <1>1, <1>3, <2>1, <2>3, StageNumbers DEF ChainedTo, ClaimOf, SettledBy, Act
    <3> QED BY <3>1 DEF ServiceInv, SettledQuiet, Settling, Quiet
  <2>4. CASE ClaimOf[b] < ClaimOf[a]
    <3>1. b \in {"write", "delete"} /\ Exists(SettledBy[b])
      BY <1>1, <1>2, <1>3, <2>4, StageNumbers DEF ChainedTo, ClaimOf, SettledBy, Act
    <3>2. Quiet(b) /\ Dispatching(p, b)
      BY <1>3, <1>5, <3>1, DispatchingIsPastClaim
      DEF ServiceInv, SettledQuiet, Settling
    <3> QED BY <3>2 DEF Quiet
  <2> QED BY <2>2, <2>3, <2>4, <1>1, <1>3, StageNumbers DEF ClaimOf, Act
<1> QED BY <1>4, <1>5 DEF Unsent, PastClaim

\* The installation stays as it was read until the act begins.
LEMMA UnsentAsReadStep ==
  ASSUME ServiceInv, UnsentAsRead, [Next]_vars
  PROVE  UnsentAsRead'
<1> SUFFICES ASSUME NEW p \in Proc, Unsent(p)' PROVE Before(call[p].stage)'
  BY DEF UnsentAsRead
<1>0. Typed /\ TypeOK
  BY DEF ServiceInv, ChainInv, Typed
<1>1. ASSUME Unsent(p), call'[p].stage = call[p].stage PROVE Before(call[p].stage)'
  <2>1. acting = {} /\ Before(call[p].stage)
    BY <1>1, UnsentIsAlone DEF UnsentAsRead
  <2>2. Exists(Reservation)
    BY <1>1, <1>0, CallFields, StageNumbers, StageKinds
    DEF Unsent, ServiceInv, ChainInv, TxReady, Ready, ChainWhole, ChainedTo, ActInv,
        ClaimsHeld, PastClaim
  <2>3. Update' = Update
    BY <2>2, RowsStand, StageNumbers DEF Update, ServiceInv
  <2>4. UNCHANGED <<file, capsule, local, fenced>> /\ (process = "none" => process' = "none")
    <3>1. ASSUME Outside
          PROVE  /\ UNCHANGED <<file, capsule, local, fenced>>
                 /\ process = "none" => process' = "none"
      <4>1. fenced /\ call[p] # Free /\ call[p].stage \in Claims
        BY <1>1, <2>1 DEF Before, Unsent
      <4>2. fenced' /\ fenced
        BY <3>1, <4>1, OutsideLeaves DEF OutsideFrame
      <4>3. fenced' = fenced
        BY <1>0, <3>1, <4>2, OutsideTyped DEF Typed, TypeOK
      <4> QED BY <2>1, <3>1, <4>2, <4>3, OutsideLeaves DEF OutsideFrame
    <3>2. CASE UNCHANGED site
      BY <3>2 DEF site
    <3> QED BY <1>0, <3>1, <3>2, StepKinds, ReadsLeave, Written, Called DEF vars
  <2> QED BY <1>1, <2>1, <2>3, <2>4 DEF Before
<1>2. ASSUME ~ (Unsent(p) /\ call'[p].stage = call[p].stage) PROVE Before(call[p].stage)'
  <2>1. call'[p] # call[p]
    BY <1>2 DEF Unsent, Recording
  <2>2. ASSUME NEW w \in Proc, Writes(w) PROVE FALSE
    <3>1. w = p /\ call[p].at \in {"signed", "confirmed"} /\ call[p].stage \in Claims
          /\ call'[p].stage = call[p].stage /\ call[p] # Free
      BY <1>0, <2>1, <2>2, Written DEF Unsent
    <3> QED BY <1>2, <3>1 DEF Unsent, Recording
  <2>3. ASSUME NEW w \in Proc, CallsService(w) PROVE FALSE
    BY <1>0, <2>1, <2>3, Called DEF Unsent, Recording
  <2>4. ASSUME NEW w \in Proc, Reads(w) PROVE Before(call[p].stage)'
    <3>1. w = p
      BY <1>0, <2>1, <2>4, ReadKinds, BasisRead, Begun, Inspected, ReadsOn, Closed
    <3>2. ASSUME NEW s \in Protected..Activation, Begin(p, s) PROVE Before(call[p].stage)'
      <4>1. Sees(s) /\ call'[p].stage = s /\ UNCHANGED <<row, site>> /\ s \in Claims
        BY <1>0, <3>2, Begun DEF Begin, Unsent
      <4>2. /\ s = WriteClaim => BasisMatches(Update) /\ PredecessorInPlace
            /\ s = DeleteClaim => /\ BasisMatches(Update) /\ ReadbackMatches
                                  /\ file = Update.req.succ
            /\ s = LaunchClaim => CapsuleCleared /\ NothingRuns
        BY <4>1, StageNumbers DEF Sees
      <4>3. s \in {WriteClaim, DeleteClaim, LaunchClaim}
        BY <4>1 DEF Claims
      <4>4. Before(s)
        BY <4>2, <4>3, StageNumbers DEF Before, BasisMatches, PredecessorInPlace, ReadbackMatches,
                          CapsuleCleared, NothingRuns
      <4> QED BY <4>1, <4>4 DEF Before, site, Update
    <3>3. ASSUME Signs(p) \/ Confirms(p) \/ InspectDeleteSigns(p) PROVE FALSE
      BY <1>0, <1>2, <3>3, ReadsOn DEF Unsent, Recording
    <3>4. ASSUME NEW s \in {Reservation, Preclaim}, NEW q \in Request, ReadsBasis(p, s, q)
          PROVE  FALSE
      BY <1>0, <3>4, BasisRead DEF Unsent, Recording
    <3>5. ASSUME InspectWrite(p) \/ InspectDelete(p) PROVE FALSE
      BY <1>0, <3>5, Inspected DEF Unsent, Recording
    <3>6. ASSUME Closes(p) PROVE FALSE
      BY <1>0, <3>6, Closed DEF Unsent, Recording
    <3> QED BY <2>4, <3>1, <3>2, <3>3, <3>4, <3>5, <3>6, ReadKinds
  <2> QED BY <2>1, <2>2, <2>3, <2>4, StepKinds, OutsideLeaves DEF OutsideFrame, vars
<1> QED BY <1>1, <1>2

BeginsAsSeen ==
  \A a \in Act : acts'[a] > acts[a] =>
       /\ acting = {} /\ fenced /\ local = Update.local
       /\ a = "write"  => file = Update.req.pred /\ capsule = "kept"
       /\ a = "delete" => file = Update.req.succ /\ capsule = "kept"
       /\ a = "launch" => file = Update.req.succ /\ capsule = "absent" /\ process = "none"

LEMMA BeginsAsSeenStep ==
  ASSUME ServiceInv, UnsentAsRead, [Next]_vars
  PROVE  BeginsAsSeen
<1> SUFFICES ASSUME NEW a \in Act, acts'[a] > acts[a]
             PROVE
       /\ acting = {} /\ fenced /\ local = Update.local
       /\ a = "write"  => file = Update.req.pred /\ capsule = "kept"
       /\ a = "delete" => file = Update.req.succ /\ capsule = "kept"
       /\ a = "launch" => file = Update.req.succ /\ capsule = "absent" /\ process = "none"
  BY DEF BeginsAsSeen
<1>0. Typed /\ acts \in [Act -> Nat]
  BY DEF ServiceInv, ChainInv, Typed, TypeOK
<1>1. PICK p \in Proc : CallsService(p)
  BY <1>0, StepKinds, OutsideLeaves, ReadsLeave, Written DEF OutsideFrame, vars, deeds
<1>2. call[p].stage = ClaimOf[a]
  BY <1>0, <1>1, BeginsOwnAct DEF ServiceInv
<1>3. Unsent(p)
  BY <1>0, <1>1, <1>2, Called, ClaimsOfActs DEF Unsent
<1>4. acting = {} /\ Before(ClaimOf[a])
  BY <1>2, <1>3, UnsentIsAlone DEF UnsentAsRead
<1>5. ClaimOf["write"] = WriteClaim /\ ClaimOf["delete"] = DeleteClaim
      /\ ClaimOf["launch"] = LaunchClaim
  BY DEF ClaimOf, Act
<1> QED BY <1>4, <1>5 DEF Before

\* No act is begun on an installation other than the one its method read, and
\* none while another is under way.
THEOREM ActsBeginAsSeen == Spec => ActsAsSeen
<1>1. Init => ChainSafety /\ UnsentAsRead
  BY ChainSafetyInit DEF Init, UnsentAsRead, Unsent
<1>2. ChainSafety /\ UnsentAsRead /\ [Next]_vars => (ChainSafety /\ UnsentAsRead)'
  BY ChainSafetyStep, UnsentAsReadStep DEF ChainSafety
<1>3. ChainSafety /\ UnsentAsRead /\ [Next]_vars => BeginsAsSeen \/ UNCHANGED vars
  BY BeginsAsSeenStep DEF ChainSafety
<1>4. Spec => [][BeginsAsSeen]_vars
  BY <1>1, <1>2, <1>3, PTL DEF Spec
<1> QED BY <1>4 DEF ActsAsSeen, BeginsAsSeen

-----------------------------------------------------------------------------
(* The one-way update.                                                     *)

Claimed == {a \in Act : Exists(ClaimOf[a])}
Done    == {a \in Act : acts[a] > 0}
Settled == {a \in Act : Exists(SettledBy[a])}

\* A row that is written makes the difference of its own stage.
LEMMA RowsMap ==
  ASSUME ServiceInv, NEW p \in Proc, Writes(p)
  PROVE  /\ Done' = Done
         /\ Claimed' = Claimed \cup {a \in Act : ClaimOf[a] = call[p].stage}
         /\ Settled' = Settled \cup {a \in Act : SettledBy[a] = call[p].stage}
<1>1. Typed /\ ChainInv
  BY DEF ServiceInv, ChainInv
<1>2. Done' = Done
  BY <1>1, Written DEF Done, deeds
<1>3. \A t \in Stage : Exists(t)' <=> Exists(t) \/ t = call[p].stage
  BY <1>1, Written, WritesContinue DEF Exists
<1> QED BY <1>2, <1>3, ClaimsOfActs DEF Claimed, Settled

\* Writing a claim claims its act, which was not claimed; writing what settles
\* an act settles it; every other row is a stutter.
LEMMA WritesMap ==
  ASSUME ServiceInv, NEW p \in Proc, Writes(p)
  PROVE  OneWay!Go \/ UNCHANGED <<Claimed, Done, Settled>>
<1> DEFINE s == call[p].stage
<1>1. s \in Stage /\ ~ Exists(s) /\ ChainedTo(s - 1)
  BY WritesContinue DEF ServiceInv
<1>2. \A t \in 1..(s - 1) : Exists(t)
  BY <1>1, StageNumbers DEF ChainedTo
<1>3. ASSUME NEW a \in Act, s = ClaimOf[a] PROVE OneWay!Claim(a)
  <2>1. Earlier[a] \subseteq Settled
    BY <1>1, <1>2, <1>3, StageNumbers DEF Earlier, Settled, SettledBy, ClaimOf, Act
  <2>2. a \notin Claimed
    BY <1>1, <1>3 DEF Claimed
  <2>3. {b \in Act : ClaimOf[b] = s} = {a} /\ {b \in Act : SettledBy[b] = s} = {}
    BY <1>3, StageNumbers DEF ClaimOf, SettledBy, Act
  <2>4. Done' = Done /\ Claimed' = Claimed \cup {a} /\ Settled' = Settled
    BY <2>3, RowsMap
  <2> QED BY <2>1, <2>2, <2>4 DEF OneWay!Claim, Claimed, Done, Settled
<1>4. ASSUME NEW a \in Act, s = SettledBy[a] PROVE OneWay!Settle(a)
  <2>1. a \in Claimed
    BY <1>1, <1>2, <1>4, StageNumbers DEF Claimed, SettledBy, ClaimOf, Act
  <2>2. a \notin Settled
    BY <1>1, <1>4 DEF Settled
  <2>3. {b \in Act : SettledBy[b] = s} = {a} /\ {b \in Act : ClaimOf[b] = s} = {}
    BY <1>4, StageNumbers DEF ClaimOf, SettledBy, Act
  <2>4. Done' = Done /\ Claimed' = Claimed /\ Settled' = Settled \cup {a}
    BY <2>3, RowsMap
  <2> QED BY <2>1, <2>2, <2>4 DEF OneWay!Settle, Claimed, Done, Settled
<1>5. ASSUME \A a \in Act : s # ClaimOf[a] /\ s # SettledBy[a]
      PROVE  UNCHANGED <<Claimed, Done, Settled>>
  BY <1>5, RowsMap
<1> QED BY <1>3, <1>4, <1>5 DEF OneWay!Go

\* The service is called for an act that is claimed, not begun and not settled.
LEMMA CallsMap ==
  ASSUME ServiceInv, NEW p \in Proc, CallsService(p)
  PROVE  OneWay!Go
<1> DEFINE a == ActOf(call[p].stage)
<1>0. Typed /\ ChainInv /\ ActInv
  BY DEF ServiceInv, ChainInv
<1>1. /\ a \in Act /\ call[p].stage = ClaimOf[a] /\ Exists(ClaimOf[a])
      /\ acts[a] = 0 /\ acts'[a] = 1 /\ \A b \in Act \ {a} : acts'[b] = acts[b]
  BY <1>0, BeginsOwnAct
<1>2. UNCHANGED row
  BY <1>0, <1>1, Called
<1>3. ~ Exists(SettledBy[a])
  <2>1. CASE a \in {"write", "delete"}
    <3>1. Dispatching(p, a)
      BY <1>0, <1>1, Called DEF Dispatching
    <3>2. ~ Settling(a)
      BY <2>1, <3>1 DEF ServiceInv, SettledQuiet, Quiet
    <3> QED BY <3>2 DEF Settling
  <2>2. CASE a = "launch"
    BY <1>0, <1>1, <2>2 DEF ActInv, LaunchBegun, SettledBy
  <2> QED BY <1>1, <2>1, <2>2 DEF Act
<1>4. a \in Claimed /\ a \notin Done \cup Settled
  BY <1>1, <1>3 DEF Claimed, Done, Settled
<1>5. Claimed' = Claimed /\ Settled' = Settled
  BY <1>2 DEF Claimed, Settled, Exists
<1>6. Done' = Done \cup {a}
  BY <1>1 DEF Done
<1>7. \E b \in Act : b = a
  BY <1>1
<1>8. \E b \in Act : OneWay!Do(b)
  BY <1>4, <1>5, <1>6, <1>7 DEF OneWay!Do, Claimed, Done, Settled
<1> QED BY <1>8 DEF OneWay!Go

\* Seen through its claims and certificates, the chain claims, does and settles
\* each act once and in order.
THEOREM ChainIsOneWay == Spec => ImplementsOneWayUpdate
<1>1. Init => OneWay!Start
  BY ClaimsOfActs DEF Init, OneWay!Start, Exists
<1>2. ChainSafety /\ [Next]_vars => [OneWay!Go]_<<Claimed, Done, Settled>>
  <2> SUFFICES ASSUME ChainSafety, [Next]_vars
               PROVE  OneWay!Go \/ UNCHANGED <<Claimed, Done, Settled>>
    OBVIOUS
  <2>1. ServiceInv /\ Typed
    BY DEF ChainSafety, ServiceInv, ChainInv
  <2>2. ASSUME UNCHANGED <<row, acts>> PROVE UNCHANGED <<Claimed, Done, Settled>>
    BY <2>2 DEF Claimed, Done, Settled, Exists
  <2> QED BY <2>1, <2>2, WritesMap, CallsMap, StepKinds, OutsideLeaves, ReadsLeave
          DEF OutsideFrame, vars, deeds
<1> QED
  BY <1>1, <1>2, ChainSafetyInit, ChainSafetyStep, PTL
  DEF Spec, ImplementsOneWayUpdate, OneWay!Promised, Claimed, Done, Settled
=============================================================================
