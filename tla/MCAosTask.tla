----------------------------- MODULE MCAosTask -----------------------------
(* Small instances of AosTask for TLC. *)
EXTENDS AosTaskRefinement, TLC

CONSTANTS c1, c2, n1, n2, n3, a, b

MCCallers1 == {c1}
MCCallers2 == {c1, c2}
MCNatives2 == {n1, n2}
MCNatives3 == {n1, n2, n3}
MCNames1   == {a}
MCNames2   == {a, b}

(* Every id the pool can hand out, and a mutex id. *)
MCCallIds == TaskIds \cup {IdPack(AOS_TYPE_MUTEX, 1, 0)}

MCOnePriority   == {0}
MCTwoPriorities == {0, 31}

MCFullContract == Obligations
MCLooseContract == {"created first", "one delete", "no priority after join"}
MCSelfDelete == Obligations \ {"no self delete"}

(* The runs that check liveness, where symmetry is unsound, leave one of    *)
(* each pair of symmetric behaviours out: threads are started in order and *)
(* slot 0 has name a, slot 1 name b.                                       *)
MCInOrder ==
  /\ native[n2].stage # "none" => native[n1].stage # "none"
  /\ slot[0].name # b /\ slot[1].name # a

MCSymmetry == Permutations(MCCallers2) \cup Permutations(MCNatives3) \cup Permutations(MCNames2)
=============================================================================
