------------------------------ MODULE PlanChain ------------------------------
(***************************************************************************)
(* The plan's chain of service records and the three acts it claims, with  *)
(* any number of service processes.  A method reads its evidence, takes    *)
(* SQLite's write lock, compares the durable chain, reads the evidence     *)
(* again, inserts its row and commits; the methods that dispatch then call *)
(* the protected service once.  A process may raise or die at each step.   *)
(*                                                                         *)
(* The witness, the files, the fence, the launched process and the service *)
(* that acts are outside: the code sees them through callbacks.  A callback*)
(* may always raise; what it returns is taken to be true when it returns.  *)
(***************************************************************************)
EXTENDS PlanRecords

CONSTANTS
  Proc,       \* service processes
  Free,       \* a process with no call
  MaxEpoch,   \* bound on the fences ever taken
  MaxBeat     \* bound on the heartbeats of the launched process

Act       == {"write", "delete", "launch"}
ClaimOf   == [write |-> WriteClaim, delete |-> DeleteClaim, launch |-> LaunchClaim]
SettledBy == [write |-> Convergence, delete |-> Postdelete, launch |-> Started]
Claims    == {WriteClaim, DeleteClaim, LaunchClaim}
ActOf(s)  == CHOOSE a \in Act : ClaimOf[a] = s

VARIABLES
  head,      \* the witness's row of the installation
  file,      \* the active receipt's file; NoReceipt when it is none of an update
  capsule,   \* the recovery capsule's file
  local,     \* the other local files
  fenced,    \* does the service hold its fence on the installation?
  epoch,     \* how many fences it has taken: the evidence names the fence
  process,   \* the launched process
  beat,      \* its heartbeats
  acting,    \* the acts the service has begun and not ended
  acts,      \* history: how often each act was begun
  reports,   \* history: what was returned of the installation as the present
             \* fence holds it
  call

site  == <<head, file, capsule, local, fenced, epoch, process, beat>>
deeds == <<acting, acts>>
vars  == <<row, site, deeds, reports, call>>

FileState    == {q.pred : q \in Request} \cup {q.succ : q \in Request} \cup {NoReceipt}
CapsuleState == {"kept", "absent", "unknown"}
ProcessState == {"none", "running", "ended"}
Reading      == {"sampled", "looking", "signed", "looked", "confirmed"}

Call == [at : Reading \cup {"evident", "claimed", "calling"},
         stage : Stage, new : PlanRow, saw : FileState \cup CapsuleState]

Report == [act : {"write"}, saw : FileState] \cup [act : {"delete"}, saw : CapsuleState]

ASSUME FreeAssumption == Free \notin Call /\ MaxEpoch \in Nat /\ MaxBeat \in Nat

TypeOK ==
  /\ RowsTypeOK
  /\ head \in HeadRow \cup {NoHead}
  /\ file \in FileState /\ capsule \in CapsuleState /\ local \in Local
  /\ fenced \in BOOLEAN /\ epoch \in Nat
  /\ process \in ProcessState /\ beat \in Nat
  /\ acting \subseteq Act /\ acts \in [Act -> Nat]
  /\ reports \subseteq Report
  /\ call \in [Proc -> Call \cup {Free}]

Init ==
  /\ row = [s \in Stage |-> NoRow]
  /\ head \in {[rev |-> Generation[r], sha |-> r] : r \in Receipt} \cup {NoHead}
  /\ file \in FileState /\ capsule \in CapsuleState /\ local \in Local
  /\ fenced = FALSE /\ epoch = 0
  /\ process = "none" /\ beat = 0
  /\ acting = {} /\ acts = [a \in Act |-> 0]
  /\ reports = {}
  /\ call = [p \in Proc |-> Free]

At(p, where) == call[p] # Free /\ call[p].at = where

\* SQLite lets one connection hold a BEGIN IMMEDIATE transaction at a time.
InTransaction(p) == call[p] # Free /\ call[p].at \in Reading
DbFree           == \A w \in Proc : ~ InTransaction(w)

\* A call of the method that dispatches act a, past its claim.
Dispatching(p, a) ==
  call[p] # Free /\ call[p].stage = ClaimOf[a] /\ call[p].at \in {"claimed", "calling"}

-----------------------------------------------------------------------------
(* What the readers must find.                                             *)

\* _fresh_basis_matches: witness, reviewed files and capsule, as reserved.
BasisMatches(r) == local = r.local /\ capsule = "kept" /\ SignedSuccessor(r.req, head)

\* A faulty variant: the target is read without its fence.
ReadbackUnfenced == local = Update.local

\* The part of the physical readbacks that all of them share.
ReadbackMatches == fenced /\ local = Update.local

\* A faulty variant: terminations are not asked for.
QuietUnasked(a) == TRUE

\* _quiescent, _exact_termination: no operation issued under the claim of act a
\* is in flight or can still be issued.
Quiet(a) == a \notin acting /\ \A w \in Proc : ~ Dispatching(w, a)

PredecessorInPlace == ReadbackMatches /\ file = Update.req.pred

\* _classify_postdelete, when it answers "absent".
CapsuleCleared ==
  ReadbackMatches /\ file = Update.req.succ /\ capsule = "absent" /\ Quiet("delete")

\* _exact_runtime: nothing was launched and nothing is in flight.
NothingRuns == process = "none" /\ \A a \in Act : Quiet(a)

\* What the readers of a stage must find, each time it reads.
Sees(s) ==
  /\ s \in Protected..DeleteClaim      => BasisMatches(Update)
  /\ s \in Intent..WriteClaim          => PredecessorInPlace
  /\ s \in Convergence..DeleteClaim    => ReadbackMatches /\ Quiet("write")
                                          /\ file = Update.req.succ
  /\ s \in Postdelete..Activation      => CapsuleCleared
  /\ s \in Readiness..LaunchClaim      => NothingRuns
  /\ s \in {Started, Health, Activation} => process # "none"
  /\ s \in BeatStages                  => process = "running" /\ beat > 0

\* The evidence that is new in a stage's row.
Evidence(s) == IF s \in FenceStages THEN epoch ELSE IF s \in BeatStages THEN beat ELSE 0

-----------------------------------------------------------------------------
(* The parts of a method.                                                  *)

Idle(p) == call[p] = Free
Enter(p, c) == call' = [call EXCEPT ![p] = c]
Move(p, where) == call' = [call EXCEPT ![p].at = where]
Leave(p) == call' = [call EXCEPT ![p] = Free]

\* A method returns what it saw under a fence.
Returns(p, act, saw, mark) ==
  /\ reports' = reports \cup
       {r \in {[act |-> act, saw |-> saw]} : fenced /\ mark = epoch}
  /\ Leave(p)

\* BEGIN IMMEDIATE, the comparison with the durable chain, the first reading.
Begin(p, s) ==
  /\ Idle(p) /\ DbFree
  /\ Open(s)
  /\ Sees(s)
  /\ Repeats(s, Evidence(s))
  /\ Enter(p, [at |-> "sampled", stage |-> s, saw |-> NoReceipt,
               new |-> [Update EXCEPT !.mark = Evidence(s)]])
  /\ UNCHANGED <<row, site, deeds, reports>>

\* _signed: a fresh signed head, which must be the successor.
Signs(p) ==
  /\ At(p, "sampled")
  /\ SignedSuccessor(call[p].new.req, head)
  /\ Move(p, "signed")
  /\ UNCHANGED <<row, site, deeds, reports>>

\* The second reading, which must find what the first one found.
Confirms(p) ==
  /\ At(p, "signed") /\ call[p].stage >= Convergence
  /\ Sees(call[p].stage)
  /\ Evidence(call[p].stage) = call[p].new.mark
  /\ Move(p, "confirmed")
  /\ UNCHANGED <<row, site, deeds, reports>>

\* A faulty variant: a claim is not durable when the service is called.
CommitsLater(p) ==
  /\ At(p, IF call[p].stage >= Convergence THEN "confirmed" ELSE "signed")
  /\ IF call[p].stage \in Claims
       THEN UNCHANGED row /\ Move(p, "claimed")
       ELSE Record(call[p].stage, call[p].new) /\ Leave(p)
  /\ UNCHANGED <<site, deeds, reports>>

\* INSERT and COMMIT.  An acknowledgement that is lost is a call that ends here
\* although its row is durable.
Commits(p) ==
  /\ At(p, IF call[p].stage >= Convergence THEN "confirmed" ELSE "signed")
  /\ Record(call[p].stage, call[p].new)
  /\ IF call[p].stage \in Claims THEN Move(p, "claimed") ELSE Leave(p)
  /\ UNCHANGED <<site, deeds, reports>>

\* The one call of the protected service.
CallsService(p) ==
  /\ At(p, "claimed")
  /\ acting' = acting \cup {ActOf(call[p].stage)}
  /\ acts' = [acts EXCEPT ![ActOf(call[p].stage)] = @ + 1]
  /\ Move(p, "calling")
  /\ UNCHANGED <<row, site, reports>>

\* An exception, a refusal of a callback, a return that reports nothing, or the
\* death of the process.  An open transaction is rolled back.
Ends(p) == call[p] # Free /\ Leave(p) /\ UNCHANGED <<row, site, deeds, reports>>

-----------------------------------------------------------------------------
(* The two methods that read their evidence before their transaction.      *)

\* The caller's review names the files as they were when it was made; fresh
\* evidence must repeat it.  Nothing has been compared with the tables yet.
ReadsBasis(p, s, q) ==
  LET new == [req |-> q, local |-> local, mark |-> 0]
  IN  /\ Idle(p)
      /\ BasisMatches(new)
      /\ Enter(p, [at |-> "evident", stage |-> s, saw |-> NoReceipt, new |-> new])
      /\ UNCHANGED <<row, site, deeds, reports>>

\* A faulty variant: a reservation is renewed while no receipt is protected.
ReserveAgain(p) ==
  /\ At(p, "evident") /\ call[p].stage = Reservation
  /\ DbFree /\ ~ Exists(Protected)
  /\ Record(Reservation, call[p].new)
  /\ Leave(p)
  /\ UNCHANGED <<site, deeds, reports>>

\* reserve: any row at all is a refusal, even an identical one.
Reserve(p) ==
  /\ At(p, "evident") /\ call[p].stage = Reservation
  /\ DbFree /\ ~ Exists(Reservation)
  /\ Record(Reservation, call[p].new)
  /\ Leave(p)
  /\ UNCHANGED <<site, deeds, reports>>

\* preclaim_once: the reservation it was given must be the durable one.
PreclaimOnce(p) ==
  /\ At(p, "evident") /\ call[p].stage = Preclaim
  /\ DbFree /\ ~ Exists(Preclaim)
  /\ row[Reservation] = call[p].new
  /\ Record(Preclaim, call[p].new)
  /\ Leave(p)
  /\ UNCHANGED <<site, deeds, reports>>

-----------------------------------------------------------------------------
(* The methods, each of which begins with the reading of its stage.        *)

RecordReceipt(p)    == Begin(p, Protected)
PrepareIntent(p)    == Begin(p, Intent)
ArmPrewrite(p)      == Begin(p, Prewrite)
DispatchWrite(p)    == Begin(p, WriteClaim)
CertifyWrite(p)     == Begin(p, Convergence)
PrepareClearance(p) == Begin(p, Clearance)
ArmPredelete(p)     == Begin(p, Predelete)
DispatchDelete(p)   == Begin(p, DeleteClaim)
CertifyDelete(p)    == Begin(p, Postdelete)
PrepareReadiness(p) == Begin(p, Readiness)
ReserveLaunch(p)    == Begin(p, LaunchIntent)
ArmPrelaunch(p)     == Begin(p, Prelaunch)
DispatchLaunch(p)   == Begin(p, LaunchClaim)
ReconcileLaunch(p)  == Begin(p, Started)
RecordHealth(p)     == Begin(p, Health)
ReserveActivation(p) == Begin(p, Activation)

\* A dispatching method looks at the effect once its callback has returned, which
\* ends its act.  What the dispatch of the launch says is of the process, not of
\* the files: its return is one of Ends.
WriteReadsBack(p) ==
  /\ At(p, "calling") /\ call[p].stage = WriteClaim /\ "write" \notin acting
  /\ BasisMatches(Update) /\ ReadbackMatches /\ file = Update.req.succ
  /\ Returns(p, "write", file, epoch)
  /\ UNCHANGED <<row, site, deeds>>

DeleteReadsBack(p) ==
  /\ At(p, "calling") /\ call[p].stage = DeleteClaim /\ "delete" \notin acting
  /\ ReadbackMatches /\ file = Update.req.succ /\ capsule = "absent"
  /\ SignedSuccessor(Update.req, head)
  /\ Returns(p, "delete", capsule, epoch)
  /\ UNCHANGED <<row, site, deeds>>

-----------------------------------------------------------------------------
(* The read-only inspections.  Each holds the write lock and rolls back.   *)

\* inspect of the local convergence: whatever the receipt's file holds.
InspectWrite(p) ==
  /\ Idle(p) /\ DbFree /\ ChainedTo(WriteClaim)
  /\ BasisMatches(Update) /\ ReadbackMatches /\ Quiet("write")
  /\ Enter(p, [at |-> "looking", stage |-> Convergence, saw |-> file,
               new |-> [Update EXCEPT !.mark = epoch]])
  /\ UNCHANGED <<row, site, deeds, reports>>

InspectWriteReturns(p) ==
  /\ At(p, "looking") /\ call[p].stage = Convergence
  /\ SignedSuccessor(call[p].new.req, head)
  /\ Returns(p, "write", call[p].saw, call[p].new.mark)
  /\ UNCHANGED <<row, site, deeds>>

\* inspect of the capsule's deletion: whatever the capsule's file holds.
InspectDelete(p) ==
  /\ Idle(p) /\ DbFree /\ ChainedTo(DeleteClaim)
  /\ ReadbackMatches /\ file = Update.req.succ /\ Quiet("delete")
  /\ Enter(p, [at |-> "looking", stage |-> Postdelete, saw |-> capsule,
               new |-> [Update EXCEPT !.mark = epoch]])
  /\ UNCHANGED <<row, site, deeds, reports>>

InspectDeleteSigns(p) ==
  /\ At(p, "looking") /\ call[p].stage = Postdelete
  /\ SignedSuccessor(call[p].new.req, head)
  /\ Move(p, "looked")
  /\ UNCHANGED <<row, site, deeds, reports>>

InspectDeleteReturns(p) ==
  /\ At(p, "looked")
  /\ ReadbackMatches /\ file = Update.req.succ /\ Quiet("delete")
  /\ capsule = call[p].saw /\ epoch = call[p].new.mark
  /\ Returns(p, "delete", capsule, epoch)
  /\ UNCHANGED <<row, site, deeds>>

-----------------------------------------------------------------------------
(* Outside.                                                                *)

HeadMoves(r) ==
  /\ Continues(head, r) /\ head' = Appended(head, r)
  /\ UNCHANGED <<row, file, capsule, local, fenced, epoch, process, beat, deeds, reports, call>>

\* The service fences the installation; every fence has a digest of its own.
FenceTaken ==
  /\ ~ fenced /\ epoch < MaxEpoch
  /\ fenced' = TRUE /\ epoch' = epoch + 1
  /\ UNCHANGED <<row, head, file, capsule, local, process, beat, deeds, reports, call>>

\* It may lose the fence between two readings of any method, but keeps it across
\* a dispatch and an act, which the dispatching methods ask of it.
FenceLapses ==
  /\ fenced /\ acting = {}
  /\ \A w \in Proc : call[w] # Free => call[w].stage \notin Claims
  /\ fenced' = FALSE
  /\ reports' = {}
  /\ UNCHANGED <<row, head, file, capsule, local, epoch, process, beat, deeds, call>>

\* Without a fence anybody may change the files.
OthersChange ==
  /\ ~ fenced
  /\ \/ file' \in FileState /\ UNCHANGED <<capsule, local>>
     \/ capsule' \in CapsuleState /\ UNCHANGED <<file, local>>
     \/ local' \in Local /\ UNCHANGED <<file, capsule>>
  /\ UNCHANGED <<row, head, fenced, epoch, process, beat, deeds, reports, call>>

\* The service's acts.  A write or a deletion that is interrupted may leave
\* anything of the file it works on.
ServiceWrites ==
  /\ "write" \in acting /\ file' \in FileState
  /\ UNCHANGED <<row, head, capsule, local, fenced, epoch, process, beat, deeds, reports, call>>

ServiceDeletes ==
  /\ "delete" \in acting /\ capsule' \in CapsuleState
  /\ UNCHANGED <<row, head, file, local, fenced, epoch, process, beat, deeds, reports, call>>

ServiceLaunches ==
  /\ "launch" \in acting /\ process = "none" /\ process' = "running"
  /\ UNCHANGED <<row, head, file, capsule, local, fenced, epoch, beat, deeds, reports, call>>

ServiceEnds(a) ==
  /\ a \in acting /\ acting' = acting \ {a}
  /\ UNCHANGED <<row, site, acts, reports, call>>

ProcessBeats ==
  /\ process = "running" /\ beat < MaxBeat /\ beat' = beat + 1
  /\ UNCHANGED <<row, head, file, capsule, local, fenced, epoch, process, deeds, reports, call>>

ProcessEnds ==
  /\ process = "running" /\ process' = "ended"
  /\ UNCHANGED <<row, head, file, capsule, local, fenced, epoch, beat, deeds, reports, call>>

-----------------------------------------------------------------------------
Enters(p) ==
  \/ \E s \in {Reservation, Preclaim}, q \in Request : ReadsBasis(p, s, q)
  \/ RecordReceipt(p) \/ PrepareIntent(p) \/ ArmPrewrite(p) \/ DispatchWrite(p)
  \/ CertifyWrite(p) \/ PrepareClearance(p) \/ ArmPredelete(p) \/ DispatchDelete(p)
  \/ CertifyDelete(p) \/ PrepareReadiness(p) \/ ReserveLaunch(p) \/ ArmPrelaunch(p)
  \/ DispatchLaunch(p) \/ ReconcileLaunch(p) \/ RecordHealth(p) \/ ReserveActivation(p)
  \/ InspectWrite(p) \/ InspectDelete(p)

GoesOn(p) ==
  \/ Reserve(p) \/ PreclaimOnce(p)
  \/ Signs(p) \/ Confirms(p) \/ Commits(p) \/ CallsService(p)
  \/ WriteReadsBack(p) \/ DeleteReadsBack(p)
  \/ InspectWriteReturns(p) \/ InspectDeleteSigns(p) \/ InspectDeleteReturns(p)

Outside ==
  \/ \E r \in Receipt : HeadMoves(r)
  \/ FenceTaken \/ FenceLapses
  \/ OthersChange
  \/ ServiceWrites \/ ServiceDeletes
  \/ ServiceLaunches \/ \E a \in Act : ServiceEnds(a)
  \/ ProcessBeats \/ ProcessEnds

Next == Outside \/ \E p \in Proc : Enters(p) \/ GoesOn(p) \/ Ends(p)

Spec == Init /\ [][Next]_vars

-----------------------------------------------------------------------------
(* Properties.                                                             *)

\* The durable rows are always the beginning of one update's chain: none is
\* missing before another, and all repeat what they must, although the first
\* two stages read their evidence before they look at the tables.
OneChain == \A s \in Stage : Exists(s) => Bound(s) /\ (s > Reservation => Exists(s - 1))

\* Each act is begun at most once, whatever is retried or lost, and a restart
\* always finds its claim.
ActsOnce == \A a \in Act : acts[a] <= 1 /\ (acts[a] > 0 => Exists(ClaimOf[a]))

\* A certificate speaks of the installation for as long as the fence lasts under
\* which it was read: no write or deletion that was claimed before it is still
\* to come (certify_once, whose readers ask for terminations).
UnderFenceOf(s) == Exists(s) /\ fenced /\ epoch = row[s].mark
CertificatesStand ==
  /\ UnderFenceOf(Convergence) => file = row[Convergence].req.succ
  /\ UnderFenceOf(Postdelete)  => file = row[Postdelete].req.succ /\ capsule = "absent"

\* So does what an inspection or a dispatch returned, even when it says that the
\* predecessor is still there: the act it waited for never happens later.
ReportsStand ==
  \A r \in reports : r.saw = IF r.act = "write" THEN file ELSE capsule

\* Both: nothing that was certified or reported of the installation is belied
\* while the fence lasts.
WordsStand == CertificatesStand /\ ReportsStand

\* No act is begun on an installation other than the one its method read before
\* it claimed the act, and none while another act is in flight.
ActsAsSeen ==
  [][\A a \in Act : acts'[a] > acts[a] =>
       /\ acting = {} /\ fenced /\ local = Update.local
       /\ a = "write"  => file = Update.req.pred /\ capsule = "kept"
       /\ a = "delete" => file = Update.req.succ /\ capsule = "kept"
       /\ a = "launch" => file = Update.req.succ /\ capsule = "absent" /\ process = "none"]_vars

\* The chain implements the one-way update.
Earlier == [write |-> {}, delete |-> {"write"}, launch |-> {"write", "delete"}]

OneWay == INSTANCE OneWayUpdate WITH
  claimed <- {a \in Act : Exists(ClaimOf[a])},
  done    <- {a \in Act : acts[a] > 0},
  settled <- {a \in Act : Exists(SettledBy[a])}

\* Seen through its claims and certificates the chain does nothing but claim, do
\* and settle each act once and in order.
ImplementsOneWayUpdate == OneWay!Promised
=============================================================================
