------------------------------ MODULE MCAosSem ------------------------------
(* Small instances of AosSem for TLC. *)
EXTENDS AosSemRefinement, TLC

CONSTANTS t1, t2, t3, n1, n2

MCThreads2 == {t1, t2}
MCThreads3 == {t1, t2, t3}
MCNames1   == {n1}
MCNames2   == {n1, n2}

(* Every id the pool can hand out, and two that no table accepts: a mutex  *)
(* id and an index beyond the pool.                                        *)
MCCallIds == SemIds \cup {IdPack(AOS_TYPE_MUTEX, 1, 0),
                          IdPack(AOS_TYPE_BINSEM, 1, MaxSems)}

(* The ids of the pool alone, for the runs that check liveness.            *)
MCSemIds == SemIds

MCFullContract     == Obligations
MCNoCreateContract == {"no post during delete"}
MCNoContract       == {}

MCSymmetry == Permutations(MCThreads3) \cup Permutations(MCNames2)
=============================================================================
