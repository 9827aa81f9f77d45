----------------------------- MODULE AosPriority -----------------------------
(***************************************************************************)
(* The mapping of AOS task priorities, where 0 is the highest, onto the    *)
(* priorities of a native real-time policy, where more is higher.          *)
(***************************************************************************)
EXTENDS Integers

CONSTANT UIntMod  (* unsigned arithmetic is modulo UIntMod, 2^32           *)

ASSUME PriorityAssumption == UIntMod \in Nat \ {0}

AOS_CONFIG_TASK_PRIORITY_LEVELS == 32

AOS_TASK_PRIORITY_LOWEST == AOS_CONFIG_TASK_PRIORITY_LEVELS - 1

AosPriorities == 0 .. AOS_TASK_PRIORITY_LOWEST

(* What sched_get_priority_min and _max may say, -1 for an error.  The     *)
(* range of a policy times 31 fits the unsigned type (Linux offers 1 .. 99). *)
IsRange(min, max) ==
  /\ min \in Int /\ max \in Int
  /\ min >= -1 /\ max >= -1
  /\ (max - min) * AOS_TASK_PRIORITY_LOWEST < UIntMod

(* Mutant: the size of the range is off by one. *)
PolicyHasEnoughLevelsOffByOne(min, max) ==
  /\ min >= 0 /\ max >= 0
  /\ min < max
  /\ max - min + 2 >= AOS_CONFIG_TASK_PRIORITY_LEVELS

PolicyHasEnoughLevels(min, max) ==
  /\ min >= 0 /\ max >= 0
  /\ min < max
  /\ max - min + 1 >= AOS_CONFIG_TASK_PRIORITY_LEVELS

MapPriority(min, max, priority) ==
  max - (((max - min) * priority) % UIntMod) \div AOS_TASK_PRIORITY_LOWEST
=============================================================================
