----------------------------- MODULE MCRegistry -----------------------------
(* Instances of Registry that TLC checks.                                  *)
EXTENDS Registry, TLC

\* One name may come from either side.
Mine == {1, 2}
Theirs == {2, 3}

\* Keys differ in nothing but what is made with them.
Symmetric == Permutations(Own)
=============================================================================
