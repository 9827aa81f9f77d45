-------------------------- MODULE AosSemRefinement --------------------------
(***************************************************************************)
(* aos_sem.c implements the token cycle of AosSemToken, as long as callers *)
(* keep their obligations.                                                 *)
(***************************************************************************)
EXTENDS AosSem

(* The phase the fields of slot i stand for.  The id is what makes the     *)
(* object exist: it is published last by Create and cleared first by       *)
(* Delete.                                                                 *)
PhaseOf(i) ==
  CASE slot[i].id = AOS_ID_NONE -> "none"
    [] slot[i].id # AOS_ID_NONE /\ slot[i].native > 0 -> "full"
    [] slot[i].id # AOS_ID_NONE /\ slot[i].native = 0 /\ slot[i].state = 0 -> "empty"
    [] OTHER -> IF \E t \in Threads : At(t, "post") /\ SlotOf(t) = i
                  THEN "posting" ELSE "draining"

PhaseMap == [i \in Slots |-> PhaseOf(i)]

Token == INSTANCE AosSemToken WITH phase <- PhaseMap

(* Strict binary semantics (aos_sem.h): successful posts and waits on a    *)
(* semaphore alternate, whatever the threads and interrupts do, and no     *)
(* delete happens while a token is in somebody's hands.                    *)
TokenCycle == Token!TokenSpec

(* The same, and a token in somebody's hands is always handed on.          *)
TokenCycleFair == Token!TokenFairSpec

=============================================================================
