----------------------------- MODULE MCOmniNames -----------------------------
(* The naming service with two clients, the root context, one or two others  *)
(* and one name.                                                             *)
EXTENDS OmniNames, TLC

CONSTANTS t1, t2, o1, o2, c1, c2, n1

Symmetric == Permutations({t1, t2})
SymmetricAll == Permutations({t1, t2}) \cup Permutations({c1, c2})
=============================================================================
