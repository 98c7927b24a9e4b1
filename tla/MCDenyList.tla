----------------------------- MODULE MCDenyList -----------------------------
(* Instances of DenyList for TLC. *)
EXTENDS DenyList, TLC

CONSTANTS app, mgr, iso, main, extra

MCPkgs == {app, mgr}
\* Two processes of one package, and an isolated process of it.
MCEntries == {<<app, main>>, <<app, extra>>, <<iso, main>>}
MCOwner == [p \in {main, extra} |-> app]

Symmetry == Permutations(Threads) \cup Permutations(Monitors)
=============================================================================
