----------------------------- MODULE ReleaseCatalog -----------------------------
(***************************************************************************)
(* The signed catalog of releases: a registry that root keys sign, one     *)
(* document of releases for each module and one for each integration, and  *)
(* the cache of them that several programs save and preview.               *)
(*                                                                         *)
(* A cache is verified afresh whenever it is read; its history is what     *)
(* keeps a save from going back.  One lock file serialises the saves, and  *)
(* a save that is killed leaves the lock behind.                           *)
(***************************************************************************)
EXTENDS Integers, FiniteSets

CONSTANTS
  Trust,           \* pinned keyrings: [revision, keys, roots, threshold]
  Transition,      \* changes of keyring: [previous, successor, old, new]
  Offer,           \* what a save is given: [registry, modules, integrations]
  Saver,           \* programs that save the cache
  Reader,          \* programs that preview it
  Reported,        \* what may be reported of an installed module: a version,
                   \* "not_reported" or "metadata_unreadable"
  MaxDocuments,    \* bound: _MAX_DOCUMENTS
  MaxClock,        \* bound on the clock, in half seconds
  MaxSetBacks,     \* bound on the times the clock is set back
  Absent           \* no cache, no lock, no call, nothing shown

\* What may be in the cache: the documents of one offer.
CachedSnapshot ==
  {[registry |-> o.registry, modules |-> o.modules, integrations |-> o.integrations,
    accepted |-> now, trust |-> t] : o \in Offer, now \in 0..MaxClock, t \in Trust}

\* Where a save may be, with what it holds there.
SaveCall ==
  [step : {"called", "locked"}, trust : Trust, now : 0..MaxClock]
    \cup [step : {"written"}, snapshot : CachedSnapshot] \cup [step : {"over"}]

\* The times in a document are written in whole seconds.
ASSUME CatalogAssumption ==
  /\ MaxClock \in Nat /\ MaxSetBacks \in Nat
  /\ Absent \notin Saver \cup CachedSnapshot \cup SaveCall
  /\ \A t \in Trust : t.revision \in Nat
  /\ \A t \in Transition : t.successor \in Trust
  /\ \A o \in Offer :
       /\ IsFiniteSet(o.modules) /\ IsFiniteSet(o.integrations)
       /\ \A d \in {o.registry} \cup o.modules \cup o.integrations :
            d.revision \in Nat /\ d.issued \in Nat /\ d.issued % 2 = 0 /\ d.expires \in Nat

VARIABLES
  cache,           \* the cache file, or Absent
  lock,            \* who made the lock file, or Absent
  clock,
  setBacks,
  pinned,          \* the keyring that was provisioned
  saves,           \* per saver: where its call is and what it holds
  shown            \* per reader: what it showed last, or Absent

catalogVars ==
  <<cache, lock, clock, setBacks, pinned, saves, shown>>

-----------------------------------------------------------------------------
(* Documents.  A document is [kind, id, source, revision, issued, expires, *)
(* body, signers]; its digest stands for everything but the signatures.    *)
(* signers has the keys whose signature is on it; a signature that does    *)
(* not verify is refused just as one by a stranger, and has no member.     *)

Digest(document) == [document EXCEPT !.signers = {}]

\* A faulty variant: the last moment is still in the window.
InClosedWindow(document, now) == document.issued <= now /\ now <= document.expires

InWindow(document, now) == document.issued <= now /\ now < document.expires

\* The member of a set of documents for an identity, as a set of at most one.
Of(documents, id) == {document \in documents : document.id = id}

\* A faulty variant: another document of the same revision will do.
ContinuesByRevision(document, earlier) ==
  \A before \in earlier : document.revision >= before.revision

\* Each is neither a step back nor another document of the same revision.
Continues(document, earlier) ==
  \A before \in earlier :
    /\ document.revision >= before.revision
    /\ document.revision = before.revision => Digest(document) = Digest(before)

Authorised(document, allowed, trust, required) ==
  /\ document.signers \subseteq allowed \cap trust.keys
  /\ Cardinality(document.signers) >= required

\* A faulty variant: only the roots are kept apart.
SeparateFromRoots(registry, trust) ==
  \A m \in DOMAIN registry.body.modules :
    registry.body.modules[m].keys \subseteq trust.keys \ trust.roots

\* A key has one role: root, one module's, or integration.
SeparateDelegations(registry, trust) ==
  LET modules == DOMAIN registry.body.modules
      keysOf(m) == registry.body.modules[m].keys
  IN /\ registry.body.integrators \subseteq trust.keys \ trust.roots
     /\ \A m \in modules :
          /\ keysOf(m) \subseteq trust.keys \ (trust.roots \cup registry.body.integrators)
          /\ \A n \in modules \ {m} : keysOf(m) \cap keysOf(n) = {}

VerifyRegistry(document, trust, now, earlier) ==
  /\ document.kind = "registry"
  /\ Authorised(document, trust.roots, trust, trust.threshold)
  /\ SeparateDelegations(document, trust)
  /\ InWindow(document, now)
  /\ Continues(document, earlier)

VerifyModule(document, registry, trust, now, earlier) ==
  /\ document.kind = "module_release"
  /\ document.id \in DOMAIN registry.body.modules
  /\ LET authority == registry.body.modules[document.id]
     IN /\ document.source = authority.source
        /\ Authorised(document, authority.keys, trust, 1)
  /\ InWindow(document, now)
  /\ Continues(document, earlier)

VerifyIntegration(document, registry, trust, now, earlier) ==
  /\ document.kind = "integration"
  /\ Authorised(document, registry.body.integrators, trust, 1)
  /\ InWindow(document, now)
  /\ Continues(document, earlier)

-----------------------------------------------------------------------------
(* Snapshots: [registry, modules, integrations, accepted, trust].          *)

Ids(documents) == {document.id : document \in documents}

\* A faulty variant: the modules are verified as if nothing came before.
AuthenticatesAfresh(offer, trust, now, previous) ==
  /\ VerifyRegistry(offer.registry, trust, now,
                    IF previous = Absent THEN {} ELSE {previous.registry})
  /\ \A m \in offer.modules : VerifyModule(m, offer.registry, trust, now, {})
  /\ \A i \in offer.integrations :
       VerifyIntegration(i, offer.registry, trust, now, {})

\* _authenticate: every document on its own, then no identity twice and none
\* of the previous ones left out.
Authenticates(offer, trust, now, previous) ==
  LET before(kind) == IF previous = Absent THEN {}
                      ELSE IF kind = "module_release" THEN previous.modules
                      ELSE previous.integrations
      Whole(documents, kind) ==
        /\ Cardinality(documents) <= MaxDocuments
        /\ Cardinality(Ids(documents)) = Cardinality(documents)
        /\ Ids(before(kind)) \subseteq Ids(documents)
  IN /\ VerifyRegistry(offer.registry, trust, now,
                       IF previous = Absent THEN {} ELSE {previous.registry})
     /\ \A m \in offer.modules :
          VerifyModule(m, offer.registry, trust, now, Of(before("module_release"), m.id))
     /\ \A i \in offer.integrations :
          VerifyIntegration(i, offer.registry, trust, now, Of(before("integration"), i.id))
     /\ Whole(offer.modules, "module_release")
     /\ Whole(offer.integrations, "integration")

\* One record for each document of a snapshot: who speaks as what, and when.
Voices(snapshot) ==
  LET Voice(role, document) ==
        [role |-> role, signers |-> document.signers,
         issued |-> document.issued, expires |-> document.expires]
  IN {Voice(<<"registry">>, snapshot.registry)}
     \cup {Voice(<<"module_release", m.id>>, m) : m \in snapshot.modules}
     \cup {Voice(<<"integration">>, i) : i \in snapshot.integrations}

\* The last moment at which some document of the snapshot was issued.
HistoricalTime(snapshot) ==
  CHOOSE t \in {v.issued : v \in Voices(snapshot)} :
    \A v \in Voices(snapshot) : v.issued <= t

\* _deserialize(now=None): it was good when it was accepted.
GoodHistory(snapshot, trust) ==
  LET then == HistoricalTime(snapshot)
  IN /\ then <= snapshot.accepted
     /\ \A v \in Voices(snapshot) : snapshot.accepted < v.expires
     /\ Authenticates(snapshot, trust, then, Absent)
     /\ snapshot.trust = trust

\* _deserialize(now): it is good now, and now is not before it was accepted.
GoodNow(snapshot, trust, now) ==
  /\ Authenticates(snapshot, trust, now, Absent)
  /\ snapshot.trust = trust
  /\ now >= snapshot.accepted

\* The time that is written: whole seconds, which are two units.
Truncated(now) == now - (now % 2)

-----------------------------------------------------------------------------
(* What the catalog says of an installed module.                           *)

Finding(snapshot, id, reported) ==
  LET listed == {d \in Of(snapshot.modules, id) : reported \in DOMAIN d.body}
  IN IF reported \in {"not_reported", "metadata_unreadable"} THEN reported
     ELSE IF Of(snapshot.modules, id) = {} THEN "signed_release_document_absent"
     ELSE IF listed = {} THEN "version_not_in_signed_releases"
     ELSE IF \A d \in listed : d.body[reported] THEN "signed_version_revoked"
     ELSE "signed_version_match"

-----------------------------------------------------------------------------
CatalogInit ==
  /\ cache = Absent
  /\ lock = Absent
  /\ clock = 0
  /\ setBacks = 0
  /\ pinned \in {t \in Trust : \A u \in Trust : t.revision <= u.revision}
  /\ saves = [s \in Saver |-> Absent]
  /\ shown = [r \in Reader |-> Absent]

\* The caller reads the clock and the provisioned keyring, and then calls.
CallSave(s) ==
  /\ saves[s] = Absent
  /\ saves' = [saves EXCEPT ![s] = [step |-> "called", trust |-> pinned, now |-> clock]]
  /\ UNCHANGED <<cache, lock, clock, setBacks, pinned, shown>>

\* os.open(O_CREAT | O_EXCL): whoever finds a lock file gives up.
TakeLock(s) ==
  /\ saves[s] # Absent /\ saves[s].step = "called"
  /\ IF lock = Absent
     THEN /\ lock' = s
          /\ saves' = [saves EXCEPT ![s].step = "locked"]
     ELSE /\ saves' = [saves EXCEPT ![s] = Absent]
          /\ UNCHANGED lock
  /\ UNCHANGED <<cache, clock, setBacks, pinned, shown>>

\* A faulty variant: what the cache had stays beside what is new.
MergedSnapshot(offer, call) ==
  [registry |-> offer.registry,
   modules |-> offer.modules \cup (IF cache = Absent THEN {} ELSE cache.modules),
   integrations |-> offer.integrations,
   accepted |-> Truncated(call.now), trust |-> call.trust]

NewSnapshot(offer, call) ==
  [registry |-> offer.registry, modules |-> offer.modules,
   integrations |-> offer.integrations,
   accepted |-> Truncated(call.now), trust |-> call.trust]

\* What is saved, or refused, is decided on the cache that is read here.
Acceptable(offer, call, previous) ==
  /\ previous # Absent => /\ GoodHistory(previous, call.trust)
                          /\ call.now >= previous.accepted
  /\ Authenticates(offer, call.trust, call.now, previous)

\* Which documents the call brought matters from here on.
ReadHistory(s) ==
  /\ saves[s] # Absent /\ saves[s].step = "locked"
  /\ \E offer \in Offer :
       saves' = [saves EXCEPT ![s] =
                  IF Acceptable(offer, saves[s], cache)
                  THEN [step |-> "written", snapshot |-> NewSnapshot(offer, saves[s])]
                  ELSE [step |-> "over"]]
  /\ UNCHANGED <<cache, lock, clock, setBacks, pinned, shown>>

\* The temporary file is complete on disk before it takes the cache's name.
ReplaceCache(s) ==
  /\ saves[s] # Absent /\ saves[s].step = "written"
  /\ cache' = saves[s].snapshot
  /\ saves' = [saves EXCEPT ![s] = [step |-> "over"]]
  /\ UNCHANGED <<lock, clock, setBacks, pinned, shown>>

\* finally: the lock goes, however the save ended.
Unlock(s) ==
  /\ saves[s] # Absent /\ saves[s].step = "over"
  /\ lock' = Absent
  /\ saves' = [saves EXCEPT ![s] = Absent]
  /\ UNCHANGED <<cache, clock, setBacks, pinned, shown>>

\* A program that is killed leaves the cache and the lock as they are.
KillSaver(s) ==
  /\ saves[s] # Absent
  /\ saves' = [saves EXCEPT ![s] = Absent]
  /\ UNCHANGED <<cache, lock, clock, setBacks, pinned, shown>>

\* The person at the desk removes a lock whose program is gone.
RemoveLock ==
  /\ lock # Absent /\ saves[lock] = Absent
  /\ lock' = Absent
  /\ UNCHANGED <<cache, clock, setBacks, pinned, saves, shown>>

\* inspect_offline_catalog_preview: the policy file must match the pin, the
\* cache is read once for what is shown, and is refused or shown whole.
Preview(r) ==
  /\ cache # Absent /\ GoodNow(cache, pinned, clock)
  /\ shown' = [shown EXCEPT ![r] =
                [snapshot |-> cache,
                 findings |-> [id \in DOMAIN cache.registry.body.modules |->
                                [v \in Reported |-> Finding(cache, id, v)]]]]
  /\ UNCHANGED <<cache, lock, clock, setBacks, pinned, saves>>

Tick ==
  /\ clock < MaxClock
  /\ clock' = clock + 1
  /\ UNCHANGED <<cache, lock, setBacks, pinned, saves, shown>>

SetBack ==
  /\ setBacks < MaxSetBacks
  /\ \E now \in 0..clock - 1 : clock' = now
  /\ setBacks' = setBacks + 1
  /\ UNCHANGED <<cache, lock, pinned, saves, shown>>

\* verify_trust_transition: both quorums of roots signed the successor.
Quorum(signers, trust) ==
  signers \subseteq trust.roots /\ Cardinality(signers) >= trust.threshold

VerifiedTransition(t) ==
  /\ t.previous = pinned
  /\ t.successor.revision > pinned.revision
  /\ Quorum(t.old, pinned)
  /\ Quorum(t.new, t.successor)

\* Whoever provisions the successor starts a new cache: the old one can be
\* neither shown nor succeeded under the new keyring.
Rotate ==
  /\ \E t \in Transition : VerifiedTransition(t) /\ pinned' = t.successor
  /\ UNCHANGED <<cache, lock, clock, setBacks, saves, shown>>

RemoveCache ==
  /\ cache # Absent /\ cache.trust # pinned
  /\ cache' = Absent
  /\ UNCHANGED <<lock, clock, setBacks, pinned, saves, shown>>

SaverStep(s) ==
  \/ CallSave(s) \/ TakeLock(s) \/ ReadHistory(s) \/ ReplaceCache(s)
  \/ Unlock(s) \/ KillSaver(s)

CatalogNext ==
  \/ \E s \in Saver : SaverStep(s)
  \/ \E r \in Reader : Preview(r)
  \/ RemoveLock \/ Tick \/ SetBack \/ Rotate \/ RemoveCache

CatalogSpec == CatalogInit /\ [][CatalogNext]_catalogVars

-----------------------------------------------------------------------------
CatalogTypeOK ==
  /\ cache \in CachedSnapshot \cup {Absent}
  /\ lock \in Saver \cup {Absent}
  /\ clock \in 0..MaxClock
  /\ setBacks \in 0..MaxSetBacks
  /\ pinned \in Trust
  /\ saves \in [Saver -> SaveCall \cup {Absent}]

\* The earlier snapshot's documents are all in the later one, each in the
\* same revision and then unchanged, or in a later one.
NotBefore(later, earlier) ==
  /\ later.accepted >= earlier.accepted
  /\ Continues(later.registry, {earlier.registry})
  /\ \A m \in earlier.modules :
       \E n \in Of(later.modules, m.id) : Continues(n, {m})
  /\ \A i \in earlier.integrations :
       \E j \in Of(later.integrations, i.id) : Continues(j, {i})

\* Whatever the clocks do and however saves race and die, nobody who previews
\* the catalog under one keyring is shown an earlier state of it than anyone
\* was shown before: no revision goes back, none has two contents, none of
\* the documents is missing (save_catalog_cache, load_catalog_cache).
ShownNeverGoesBack ==
  [][\A r, q \in Reader :
       /\ shown'[r] # shown[r]
       /\ shown[q] # Absent
       /\ shown[q].snapshot.trust = shown'[r].snapshot.trust
       => NotBefore(shown'[r].snapshot, shown[q].snapshot)]_catalogVars

\* A version that somebody was shown as revoked is shown as a match only by a
\* later revision of the module's document (compare_local_catalog_metadata).
RevocationNotForgotten ==
  [][\A r, q \in Reader : \A v \in Reported :
       shown'[r] # shown[r] /\ shown[q] # Absent =>
         LET then == shown[q].snapshot  now == shown'[r].snapshot
         IN \A m \in then.modules : \A n \in Of(now.modules, m.id) :
              /\ now.trust = then.trust
              /\ m.id \in DOMAIN shown[q].findings \cap DOMAIN shown'[r].findings
              /\ shown[q].findings[m.id][v] = "signed_version_revoked"
              /\ shown'[r].findings[m.id][v] = "signed_version_match"
              => n.revision > m.revision]_catalogVars

\* What was saved never stands in the way of the next save: the cache still
\* verifies as the history it will be read as, however late that is
\* (_deserialize with now=None).
SavedIsGoodHistory == cache # Absent => GoodHistory(cache, cache.trust)

\* In what is saved no key speaks in two roles: for the roots, for one
\* module, for another, or for integrations (_ensure_separate_delegations).
OneRolePerKey ==
  cache # Absent =>
    \A v, u \in Voices(cache) : v.signers \cap u.signers # {} => v.role = u.role

\* All four: what is saved will verify as a history in which every key has one
\* role, and what is shown of it never goes back.
CatalogStands ==
  /\ []SavedIsGoodHistory
  /\ []OneRolePerKey
  /\ ShownNeverGoesBack
  /\ RevocationNotForgotten
=============================================================================
