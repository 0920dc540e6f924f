--------------------------- MODULE MCEvergreenSupply ---------------------------
(***************************************************************************)
(* Small instances of EvergreenSupply: two programs that save one cache,   *)
(* two that issue one release, four small catalogs, two programs that      *)
(* prepare two candidates, an auditor of one file of each sort, and two    *)
(* reviews of one successor.                                               *)
(***************************************************************************)
EXTENDS EvergreenSupply, TLC

CONSTANTS rootA, rootB, keyA, keyB, keyI, keyM, wheel1, site1, runtime1, native1,
          formGood, formOther

-----------------------------------------------------------------------------
(* Trust, and what a save may be given.                                    *)

mcTrustOld == [revision |-> 1, keys |-> {rootA, keyA, keyB, keyI}, roots |-> {rootA}, threshold |-> 1]
mcTrustNew ==
  [revision |-> 2, keys |-> {rootA, rootB, keyA, keyB, keyI}, roots |-> {rootA, rootB},
   threshold |-> 2]
mcTrust == {mcTrustOld, mcTrustNew}
mcTransition ==
  {[previous |-> mcTrustOld, successor |-> mcTrustNew, old |-> {rootA}, new |-> {rootA, rootB}]}

Delegates(forApp, forLib) ==
  [app |-> [source |-> "pds", keys |-> {forApp}], lib |-> [source |-> "pds", keys |-> {forLib}]]

Registry(revision, issued, expires, modules, signers) ==
  [kind |-> "registry", id |-> "suite", source |-> "pds", revision |-> revision,
   issued |-> issued, expires |-> expires,
   body |-> [modules |-> modules, integrators |-> {keyI}], signers |-> signers]

ReleasesOf(id, revision, issued, expires, body, signers) ==
  [kind |-> "module_release", id |-> id, source |-> "pds", revision |-> revision,
   issued |-> issued, expires |-> expires, body |-> body, signers |-> signers]

mcIntegration ==
  [kind |-> "integration", id |-> "grades", source |-> "pds", revision |-> 1, issued |-> 0,
   expires |-> 4, body |-> "evidence", signers |-> {keyI}]

\* A release that stands; the same one revoked, and the same revision again
\* with the revocation left out; the registry's next revision with a second
\* module; one module's key for both; the registry as both roots sign it.
mcFirst   == Registry(1, 0, 4, Delegates(keyA, keyB), {rootA})
mcSecond  == Registry(2, 2, 6, Delegates(keyA, keyB), {rootA})
mcRevoked == ReleasesOf("app", 2, 0, 6, [v1 |-> TRUE], {keyA})
mcCleared == ReleasesOf("app", 2, 0, 6, [v1 |-> FALSE], {keyA})

Offered(registry, modules, integrations) ==
  [registry |-> registry, modules |-> modules, integrations |-> integrations]

mcOffer ==
  {Offered(mcFirst, {ReleasesOf("app", 1, 0, 4, [v1 |-> FALSE], {keyA})}, {}),
   Offered(mcFirst, {mcRevoked}, {}),
   Offered(mcSecond, {mcRevoked, ReleasesOf("lib", 1, 2, 6, [v1 |-> FALSE], {keyB})}, {}),
   Offered(mcSecond, {mcCleared}, {}),
   Offered(Registry(1, 0, 6, Delegates(keyA, keyB), {rootA, rootB}), {mcRevoked}, {mcIntegration}),
   Offered(Registry(2, 2, 6, Delegates(keyA, keyA), {rootA}),
           {mcRevoked, ReleasesOf("lib", 1, 2, 6, [v1 |-> FALSE], {keyA})}, {})}

mcRole  == [root |-> rootA, module |-> keyM, integrator |-> keyI]
mcWheel == [v1 |-> FALSE]
mcOtherReleases == {[v1 |-> TRUE], [v1 |-> FALSE, v2 |-> TRUE]}

-----------------------------------------------------------------------------
(* Catalogs for a composition.                                             *)

NoNeed == <<>>
Version(v, needs) == [version |-> v, needs |-> needs, ok |-> TRUE, revoked |-> FALSE]
RevokedVersion(v) == [Version(v, NoNeed) EXCEPT !.revoked = TRUE]

\* What the newest needs is revoked or needs another; what a round adds the
\* next one does not need; and two that chase each other.
mcCatalogs ==
  {[core  |-> {Version(1, NoNeed), Version(2, NoNeed), RevokedVersion(3)},
    omr   |-> {Version(1, "core" :> {1, 2}), Version(2, "core" :> {2, 3})},
    write |-> {Version(1, "core" :> {1} @@ "omr" :> {1, 2}),
               Version(2, "core" :> {1, 2, 3} @@ "omr" :> {1, 2}),
               Version(3, "omr" :> {2})}],
   [core  |-> {Version(1, NoNeed), Version(2, NoNeed)},
    omr   |-> {Version(1, NoNeed), Version(2, "core" :> {2})},
    view  |-> {Version(1, "omr" :> {1})},
    write |-> {Version(1, "omr" :> {1, 2} @@ "view" :> {1})}],
   [core  |-> {Version(1, "omr" :> {2}), Version(2, "omr" :> {1})},
    omr   |-> {Version(1, "core" :> {1}), Version(2, "core" :> {2})},
    write |-> {Version(1, "core" :> {1} @@ "omr" :> {1}), Version(2, NoNeed)}]}

-----------------------------------------------------------------------------
(* The files of a candidate and what is said of them.                      *)

mcForm ==
  [f \in {wheel1, site1, runtime1, native1} |->
     IF f = runtime1 THEN {formGood, formOther} ELSE {formGood}]

mcRequires == [w \in {"app", "lib", "extra"} |-> IF w = "app" THEN {"lib"} ELSE {}]

mcComposition ==
  {[wheels |-> wheels, requires |-> mcRequires, roots |-> {"app"}, locked |-> locked,
    edges |-> edges, registered |-> registered, envelopes |-> envelopes, cached |-> {"app"},
    revoked |-> revoked] :
     wheels \in {{"app"}, {"app", "lib"}, {"app", "lib", "extra"}},
     locked \in {{"app", "lib"}, {"app", "lib", "extra"}},
     edges \in {{}, {<<"app", "lib">>}}, registered \in {{"app"}, {"app", "lib"}},
     envelopes \in {{"app"}, {"app", "lib"}}, revoked \in {{}, {"app"}}}
=============================================================================
