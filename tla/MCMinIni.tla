------------------------------ MODULE MCMinIni ------------------------------
(* MinIni for TLC: names of one kind are interchangeable.                  *)
EXTENDS MinIni

Symmetry == Permutations(Sections) \union Permutations(Keys) \union Permutations(Values)
=============================================================================
