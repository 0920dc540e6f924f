---------------------------- MODULE CheckpointStore ----------------------------
(***************************************************************************)
(* The external monotonic checkpoint witness and the clients that query    *)
(* it: MonotonicCheckpointStore (evergreen_checkpoint_store.py), whose     *)
(* SQLite tables are head and issued, and the challenge/statement protocol *)
(* of evergreen_checkpoint_witness.py.                                     *)
(*                                                                         *)
(* The transport between them is the environment: it may lose, delay,      *)
(* repeat and reorder challenges and signed replies, which is why sent and *)
(* replies only grow and are read in any order.  Signatures and the mTLS   *)
(* identity hold by assumption: a reply is one the witness signed.         *)
(*                                                                         *)
(* Clocks are whole units; clock is the server's.  A caller's now is any   *)
(* time within Skew of it, since teacher machines are not synchronised.    *)
(***************************************************************************)
EXTENDS Receipts

CONSTANTS
  Installation,   \* installation identifiers
  Client,         \* processes that call query_checkpoint_witness
  Nonce,          \* the 32-byte challenge nonces
  Idle,           \* a client with no query open
  Fresh,          \* oldest acceptable challenge: 120 s
  Retention,      \* how long a nonce row is kept: 300 s
  Validity,       \* how long a statement stays valid: 60 s
  MaxWindow,      \* longest validity a client accepts: 300 s
  Skew,           \* bound on |caller's now - clock|
  MaxTime         \* bound on clock

ASSUME WindowAssumption ==
  /\ {Fresh, Retention, Validity, MaxWindow, Skew, MaxTime} \subseteq Nat
  /\ Fresh <= Retention
  /\ 0 < Validity /\ Validity <= MaxWindow

VARIABLES
  clock,      \* the witness service's clock
  head,       \* witness_heads: installation -> [rev, sha] or NoHead
  issued,     \* issued_challenges: rows [inst, nonce, at]
  sent,       \* challenges given to the transport
  replies,    \* signed statements given to the transport
  query,      \* client -> [chal, receipt, min, since] or Idle; since is a
              \* history field, the head's revision when the query began
  accepted    \* history: the statements clients have verified, with since

serverVars == <<head, issued>>
netVars    == <<sent, replies>>
clientVars == <<query, accepted>>
vars       == <<clock, head, issued, sent, replies, query, accepted>>

Time == 0..MaxTime
Challenge == [inst : Installation, nonce : Nonce, at : 0..(MaxTime + Skew)]
Statement == [chal : Challenge, rev : Nat \ {0}, sha : Receipt,
              at : Time, expires : Nat]
Query     == [chal : Challenge, receipt : Receipt, min : Nat, since : Nat]

\* An idle client has neither a query nor an abstract read.
ASSUME IdleAssumption ==
  /\ Idle \notin Query
  /\ Idle \notin [inst : Installation, stage : {"asked"}]
  /\ Idle \notin [inst : Installation, stage : {"seen"}, rev : Nat, sha : Receipt]

TypeOK ==
  /\ clock \in Time
  /\ head \in [Installation -> HeadRow \cup {NoHead}]
  /\ issued \subseteq [inst : Installation, nonce : Nonce, at : Time]
  /\ sent \subseteq Challenge
  /\ replies \subseteq Statement
  /\ query \in [Client -> Query \cup {Idle}]
  /\ accepted \subseteq [stmt : Statement, since : Nat]

Init ==
  /\ clock = 0
  /\ head = [i \in Installation |-> NoHead]
  /\ issued = {}
  /\ sent = {}
  /\ replies = {}
  /\ query = [c \in Client |-> Idle]
  /\ accepted = {}

-----------------------------------------------------------------------------
(* The witness service.                                                    *)

\* commit_receipt: one BEGIN IMMEDIATE transaction.  A receipt starts a chain
\* at generation and revision 1, or continues it exactly at the stored head;
\* every other receipt is refused and nothing changes.
CommitReceipt(i, r) ==
  /\ Continues(head[i], r)
  /\ head' = [head EXCEPT ![i] = Appended(head[i], r)]
  /\ UNCHANGED <<clock, issued, netVars, clientVars>>

\* A faulty variant: a nonce is forgotten one instant too early.
KeptTooBriefly(t) == {row \in issued : row.at + Retention > t}

\* The rows answer_challenge keeps when it runs at time t.
Kept(t) == {row \in issued : row.at + Retention >= t}

\* _challenge: the freshness window of a received challenge at time t.
IsFresh(chal, t) == chal.at <= t /\ t - chal.at <= Fresh

\* A faulty variant: the nonce is recorded but not looked up first.
ConsumeNonceAgain(chal) ==
  /\ IsFresh(chal, clock)
  /\ head[chal.inst] # NoHead
  /\ issued' = Kept(clock) \cup
               {[inst |-> chal.inst, nonce |-> chal.nonce, at |-> clock]}

\* answer_challenge up to its COMMIT: prune, refuse a nonce still recorded and
\* an unknown installation, then record the nonce at the server's time.
ConsumeNonce(chal) ==
  /\ IsFresh(chal, clock)
  /\ ~ \E row \in Kept(clock) : row.inst = chal.inst /\ row.nonce = chal.nonce
  /\ head[chal.inst] # NoHead
  /\ issued' = Kept(clock) \cup
               {[inst |-> chal.inst, nonce |-> chal.nonce, at |-> clock]}

\* The statement signed for chal: the head read inside the transaction.
StatementFor(chal) ==
  [chal |-> chal, rev |-> head[chal.inst].rev, sha |-> head[chal.inst].sha,
   at |-> clock, expires |-> clock + Validity]

AnswerChallenge(chal) ==
  /\ ConsumeNonce(chal)
  /\ replies' = replies \cup {StatementFor(chal)}
  /\ UNCHANGED <<clock, head, sent, clientVars>>

\* The signer is unavailable, the service stops or the socket breaks after the
\* COMMIT: the nonce is spent and no statement leaves the service.
AnswerLost(chal) ==
  /\ ConsumeNonce(chal)
  /\ UNCHANGED <<clock, head, netVars, clientVars>>

-----------------------------------------------------------------------------
(* A client.                                                               *)

Revision(i) == IF head[i] = NoHead THEN 0 ELSE head[i].rev

NearClock == {t \in 0..(MaxTime + Skew) : t <= clock + Skew /\ clock <= t + Skew}

\* query_checkpoint_witness up to the transport call.  The nonce is drawn
\* afresh (secrets.token_bytes), so no earlier challenge has it.
IssueChallenge(c, i, r, min, now) ==
  /\ query[c] = Idle
  /\ \E n \in Nonce :
       LET chal == [inst |-> i, nonce |-> n, at |-> now] IN
       /\ \A s \in sent : s.nonce # n
       /\ sent' = sent \cup {chal}
       /\ query' = [query EXCEPT ![c] =
                      [chal |-> chal, receipt |-> r, min |-> min,
                       since |-> Revision(i)]]
  /\ UNCHANGED <<clock, serverVars, replies, accepted>>

\* A faulty variant: a statement is matched by its installation, not its challenge.
VerifiedForInstallation(q, s) ==
  LET now == q.chal.at IN
  /\ s.chal.inst = q.chal.inst
  /\ s.rev >= q.min
  /\ s.at <= now /\ now <= s.expires
  /\ s.at < s.expires /\ s.expires <= s.at + MaxWindow
  /\ s.at >= q.chal.at
  /\ s.sha = q.receipt

\* verify_witness_statement: q was issued with the same now it is verified at,
\* so the challenge's own age is 0 and its time is the instant compared.
Verified(q, s) ==
  LET now == q.chal.at IN
  /\ s.chal = q.chal
  /\ s.rev >= q.min
  /\ s.at <= now /\ now <= s.expires
  /\ s.at < s.expires /\ s.expires <= s.at + MaxWindow
  /\ s.at >= q.chal.at
  /\ s.sha = q.receipt

\* The transport hands the client a signed reply, of this or an earlier
\* challenge; the call returns the observation.
AcceptReply(c, s) ==
  /\ query[c] # Idle
  /\ Verified(query[c], s)
  /\ accepted' = accepted \cup {[stmt |-> s, since |-> query[c].since]}
  /\ query' = [query EXCEPT ![c] = Idle]
  /\ UNCHANGED <<clock, serverVars, netVars>>

\* A transport error, a refused reply or a stopped client: the call raises.
QueryFails(c) ==
  /\ query[c] # Idle
  /\ query' = [query EXCEPT ![c] = Idle]
  /\ UNCHANGED <<clock, serverVars, netVars, accepted>>

Tick ==
  /\ clock < MaxTime
  /\ clock' = clock + 1
  /\ UNCHANGED <<serverVars, netVars, clientVars>>

-----------------------------------------------------------------------------
Next ==
  \/ \E i \in Installation, r \in Receipt : CommitReceipt(i, r)
  \/ \E chal \in sent : AnswerChallenge(chal)
  \/ \E chal \in sent : AnswerLost(chal)
  \/ \E c \in Client, i \in Installation, r \in Receipt,
        min \in 0..1, now \in NearClock : IssueChallenge(c, i, r, min, now)
  \/ \E c \in Client, s \in replies : AcceptReply(c, s)
  \/ \E c \in Client : QueryFails(c)
  \/ Tick

Spec == Init /\ [][Next]_vars

-----------------------------------------------------------------------------
(* Properties.                                                             *)

\* The witness signs at most one statement per challenge, however often the
\* transport redelivers it and however much of the nonce table has been pruned
\* meanwhile (answer_challenge's replay check against its 300 s retention).
ChallengeAnsweredOnce ==
  \A s, t \in replies : s.chal = t.chal => s = t

\* Two statements about one installation never name different receipts at one
\* revision, nor a lower revision at a later time: what independent clients
\* saw of the chain can always be merged into one chain.
StatementsAgree ==
  \A s, t \in replies : s.chal.inst = t.chal.inst =>
    /\ s.rev = t.rev => s.sha = t.sha
    /\ s.at < t.at => s.rev <= t.rev

\* An observation query_checkpoint_witness returns is never older than the
\* call: a repeated or delayed reply to an earlier challenge is not taken for
\* the current head, even after the head has moved on.
AcceptedIsFresh ==
  \A a \in accepted : a.stmt.rev >= a.since

\* The refinement: a read has looked once the witness has answered it.
ReplyTo(q, R) == CHOOSE s \in R : s.chal = q.chal

ReadOf(q, R) ==
  IF q = Idle THEN Idle
  ELSE IF \E s \in R : s.chal = q.chal
  THEN [inst |-> q.chal.inst, stage |-> "seen",
        rev |-> ReplyTo(q, R).rev, sha |-> ReplyTo(q, R).sha]
  ELSE [inst |-> q.chal.inst, stage |-> "asked"]

readBar == [c \in Client |-> ReadOf(query[c], replies)]

resultsBar ==
  {[inst |-> a.stmt.chal.inst, rev |-> a.stmt.rev, sha |-> a.stmt.sha] : a \in accepted}

Promise == INSTANCE FreshHeadRead WITH read <- readBar, results <- resultsBar

\* The witness and its clients together implement FreshHeadRead: losing,
\* repeating and reordering messages never lets a client return a head that
\* was not the head at an instant of its own call.
ImplementsFreshHeadRead == Promise!Spec
=============================================================================
