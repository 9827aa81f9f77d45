----------------------------- MODULE MCAosMutex -----------------------------
(* Small instances of AosMutex for TLC. *)
EXTENDS AosMutexRefinement, TLC

CONSTANTS t1, t2, t3, n1, n2

MCThreads3 == {t1, t2, t3}
MCNames2   == {n1, n2}

(* The ids of the pool alone. *)
MCMutexIds == MutexIds

MCSymmetry == Permutations(MCThreads3) \cup Permutations(MCNames2)
=============================================================================
