------------------------ MODULE MCReadersWritersLock ------------------------
(* Three threads over the lock of omniNames. *)
EXTENDS ReadersWritersLock, TLC

CONSTANTS t1, t2, t3

MCThreads == {t1, t2, t3}
Symmetric == Permutations(MCThreads)
=============================================================================
