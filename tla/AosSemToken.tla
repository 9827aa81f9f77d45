---------------------------- MODULE AosSemToken ----------------------------
(***************************************************************************)
(* What the binary semaphores of aos_sem.h promise: each object carries at *)
(* most one token, and the token goes round                                *)
(*                                                                         *)
(*   "empty" -> "posting" -> "full" -> "draining" -> "empty"               *)
(*                                                                         *)
(* so successful posts and successful waits alternate.  "posting" and      *)
(* "draining" are the phases in which one caller has the token in hand; in *)
(* both a further post is refused.  An object is deleted only while nobody *)
(* has its token in hand.                                                  *)
(***************************************************************************)
CONSTANT Slots   (* where the objects live                                 *)

VARIABLE phase   (* per slot: where its token is, "none" without an object *)

Phases == {"none", "empty", "posting", "full", "draining"}

TokenInit == phase = [i \in Slots |-> "none"]

Move(i, from, to) == phase[i] = from /\ phase' = [phase EXCEPT ![i] = to]

Create(i)  == Move(i, "none", "empty") \/ Move(i, "none", "full")
Accept(i)  == Move(i, "empty", "posting")
Deliver(i) == Move(i, "posting", "full")
Take(i)    == Move(i, "full", "draining")
Drain(i)   == Move(i, "draining", "empty")
Delete(i)  == Move(i, "empty", "none") \/ Move(i, "full", "none")

TokenNext ==
  \E i \in Slots : \/ Create(i) \/ Accept(i) \/ Deliver(i)
                   \/ Take(i) \/ Drain(i) \/ Delete(i)

TokenSpec == TokenInit /\ [][TokenNext]_phase

(* Whoever has a token in hand hands it on. *)
TokenFairSpec ==
  /\ TokenSpec
  /\ \A i \in Slots : WF_phase(Deliver(i)) /\ WF_phase(Drain(i))

=============================================================================
