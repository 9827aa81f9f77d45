-------------------------- MODULE MCAosMutexCancel --------------------------
(* A small instance of AosMutexCancel for TLC. *)
EXTENDS AosMutexCancel

CONSTANTS t1, t2, n1

MCThreads == {t1, t2}
MCNames   == {n1}

(* Every id the pool can hand out, and two that no table accepts: a        *)
(* semaphore id and an index beyond the pool.                              *)
MCCallIds == MutexIds \cup {IdPack(AOS_TYPE_BINSEM, 1, 0),
                            IdPack(AOS_TYPE_MUTEX, 1, MaxMutexes)}
=============================================================================
