--------------------------- MODULE MCAosSemCancel ---------------------------
(* A small instance of AosSemCancel for TLC. *)
EXTENDS AosSemCancel

CONSTANTS t1, t2, t3, n1

MCThreads  == {t1, t2, t3}
MCTasks    == {t1}
MCNames    == {n1}
MCSemIds   == SemIds
MCContract == {"no create during delete"}

(* t3 is an interrupt handler: it only posts. *)
MCInterrupt == call[t3].op \in {"none", "Post"}
=============================================================================
