------------------------------ MODULE MCPdsShell ------------------------------
(***************************************************************************)
(* Small instances of PdsShell: two commands at a time over two files, two *)
(* setups over a class, two launches over three applications, two scripts  *)
(* that install one release or two.                                        *)
(***************************************************************************)
EXTENDS PdsShell, TLC

CONSTANTS p1, p2, p3, w, r, y1, y2, k1, k2, d

\* Contents of one length, which only their bytes tell apart.
mcSize == [c \in 1..MaxEdits |-> 1]

\* p3 runs under PDS_WORKSPACE_ROOT.
mcOverride == [p \in Process |-> IF p = p3 THEN r ELSE None]

Runs(first, second, third) ==
  [p \in Process |-> IF p = p1 THEN first ELSE IF p = p2 THEN second ELSE third]

mcRoles ==
  {Runs({}, {}, {}),
   Runs({"backup"}, {"backup"}, {}),
   Runs({"backup"}, {"restore"}, {}),
   Runs({"backup"}, {"set"}, {}),
   Runs({"backup", "restore"}, {}, {"initialize"})}

Wants(year, rosters, pack, calendar) ==
  [year |-> year, classes |-> Class, rosters |-> rosters, pack |-> pack,
   calendar |-> calendar]

mcWishes ==
  {Wants(y1, Class, k1, d), Wants(y2, {}, Nothing, Nothing)}

\* k1 cannot be merged after k2.
mcClash == {<<k2, k1>>}

mcInstallations == {{}, {"not_installed"}, {"version", "launcher"}, {"launcher"}}

\* Both releases ship one Core.
mcShips ==
  [v1 |-> [core |-> "c1", suite |-> "s1", omr |-> "o1"],
   v2 |-> [core |-> "c1", suite |-> "s2", omr |-> "o2"]]

mcOrders == {[release |-> "v1", chosen |-> {"omr"}], [release |-> "v2", chosen |-> {}]}

Env(venv, ofCore, ofSuite, ofOmr, marker) ==
  [made |-> 0, venv |-> venv, pip |-> venv,
   pkg |-> [core |-> ofCore, suite |-> ofSuite, omr |-> ofOmr],
   marker |-> marker, sentinel |-> 0, spoilt |-> FALSE]

\* Nothing, a minimal environment of v1, one from source that nobody marked, and
\* a directory that is no environment.
mcFound ==
  {Nil, Env(TRUE, "c1", "s1", Nil, "v1"), Env(TRUE, "c1", Nil, FromSource, Nil),
   Env(FALSE, Nil, Nil, Nil, Nil)}

Symmetric == Permutations(File) \cup Permutations(Script)
=============================================================================
