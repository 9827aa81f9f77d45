---------------------------- MODULE AosSemCancel ----------------------------
(***************************************************************************)
(* AosSem with callers that are tasks, which AOS_TaskDelete may end.       *)
(*                                                                         *)
(* AOS_TaskDelete calls pthread_cancel.  Cancellation is deferred: it acts *)
(* in a task's own code or inside sem_wait and sem_timedwait; the other    *)
(* native calls of aos_sem.c (sem_trywait, sem_post, the table lock, the   *)
(* clock) are no cancellation points.  aos_sem.c pushes no cleanup         *)
(* handler, so a task that ends inside a wait keeps its reference.         *)
(***************************************************************************)
EXTENDS AosSem

CONSTANT Tasks  (* the callers AOS_TaskDelete may end                      *)

ASSUME SemCancelAssumption == Tasks \subseteq Threads

VARIABLES
  fate,  (* per task: it runs, was asked to end, or has ended              *)
  lost   (* history, per slot: the references tasks took with them         *)

cvars == <<slot, call, fate, lost>>

CancelInit == Init /\ fate = [t \in Tasks |-> "runs"] /\ lost = [i \in Slots |-> 0]

Ended == {t \in Tasks : fate[t] = "ended"}

(* A task that has ended calls no more. *)
CallNext ==
  /\ Next
  /\ \A t \in Ended : call'[t] = Idle
  /\ UNCHANGED <<fate, lost>>

(* pthread_cancel of a task that still runs. *)
AskToEnd(t) ==
  /\ fate[t] = "runs"
  /\ fate' = [fate EXCEPT ![t] = "asked"]
  /\ UNCHANGED <<slot, call, lost>>

(* Between its calls of this module the task reaches a cancellation point. *)
EndOutside(t) ==
  /\ fate[t] = "asked"
  /\ call[t] = Idle
  /\ fate' = [fate EXCEPT ![t] = "ended"]
  /\ UNCHANGED <<slot, call, lost>>

(* Mutants: only a timed wait can be cancelled; the wait has a second      *)
(* cancellation point, after the token was taken.                          *)
EndInWaitTimedOnly(t) ==
  /\ fate[t] = "asked"
  /\ At(t, "native")
  /\ call[t].op = "TimedWait"
  /\ fate' = [fate EXCEPT ![t] = "ended"]
  /\ lost' = [lost EXCEPT ![SlotOf(t)] = @ + 1]
  /\ Return(t)
  /\ UNCHANGED slot

EndInWaitAfterTake(t) ==
  /\ fate[t] = "asked"
  /\ call[t].pc \in {"native", "clear"}
  /\ call[t].op \in {"Wait", "TimedWait"}
  /\ fate' = [fate EXCEPT ![t] = "ended"]
  /\ lost' = [lost EXCEPT ![SlotOf(t)] = @ + 1]
  /\ Return(t)
  /\ UNCHANGED slot

(* Inside sem_wait or sem_timedwait: no token is taken. *)
EndInWait(t) ==
  /\ fate[t] = "asked"
  /\ At(t, "native")
  /\ call[t].op \in {"Wait", "TimedWait"}
  /\ fate' = [fate EXCEPT ![t] = "ended"]
  /\ lost' = [lost EXCEPT ![SlotOf(t)] = @ + 1]
  /\ Return(t)
  /\ UNCHANGED slot

CancelNext ==
  CallNext \/ \E t \in Tasks : AskToEnd(t) \/ EndOutside(t) \/ EndInWait(t)

CancelSpec == CancelInit /\ [][CancelNext]_cvars

(* As in AosSem; and a task asked to end acts on it while it is blocked in *)
(* a wait.  Nothing makes it come to a cancellation point of its own code. *)
CancelFairSpec ==
  /\ CancelSpec
  /\ Fairness
  /\ \A t \in Tasks : WF_cvars(EndInWait(t))

-----------------------------------------------------------------------------
(* Properties *)

(* ref_count is the number of waiters plus that of the waiters that ended  *)
(* inside their wait: the surplus is never more and never less than that.  *)
RefCountAccounted ==
  \A i \in Slots :
    slot[i].ref_count = Cardinality({t \in Threads : Holds(t, i)}) + lost[i]

(* A semaphore that lost a reference can never be deleted: AOS_SemDelete   *)
(* answers AOS_ERR_BUSY for ever, and the slot and the name stay taken.    *)
LostPinsSemaphore ==
  [][\A i \in Slots :
       lost[i] > 0 => /\ slot'[i].in_use
                      /\ slot'[i].id = slot[i].id
                      /\ slot'[i].ref_count > 0]_cvars

(* A task asked to end does not stay inside this module, waiting for ever  *)
(* included: AOS_TaskDelete, which joins it without a timeout, is not kept *)
(* waiting there.                                                          *)
AskedTaskLeaves ==
  \A t \in Tasks :
    (fate[t] = "asked" /\ call[t] # Idle) ~> (fate[t] = "ended" \/ call[t] = Idle)

-----------------------------------------------------------------------------
(* Why the safety properties hold, although posts may race deletes and     *)
(* tasks end inside their waits: the invariant that every step keeps while *)
(* no AOS_SemCreate overlaps an AOS_SemDelete.                             *)

NoCreateDuringDelete ==
  \A t, u \in Threads : ~(call[t].op = "Create" /\ call[u].op = "Delete")

(* An id stands only in an occupied slot, and no reference is lost where   *)
(* none stands; waiters find their id in their slot, deleters find the     *)
(* slot free, and the one creator finds it occupied and not yet published. *)
SlotOccupants ==
  /\ \A i \in Slots :
       /\ slot[i].id # AOS_ID_NONE => slot[i].in_use
       /\ lost[i] > 0 => slot[i].id # AOS_ID_NONE
  /\ \A t \in Threads :
       /\ call[t].pc \in HoldPoints => slot[SlotOf(t)].id = call[t].id
       /\ call[t].pc \in DeletePoints => ~slot[SlotOf(t)].in_use /\ call[t].pc # "undelete"
       /\ call[t].pc \in CreatePoints =>
            slot[SlotOf(t)].in_use /\ slot[SlotOf(t)].id = AOS_ID_NONE
  /\ \A t, u \in Threads :
       call[t].pc \in CreatePoints /\ call[u].pc \in CreatePoints => t = u

CancelInv ==
  /\ TypeOK
  /\ fate \in [Tasks -> {"runs", "asked", "ended"}]
  /\ lost \in [Slots -> Nat]
  /\ CallDiscipline
  /\ NoCreateDuringDelete
  /\ SlotOccupants
  /\ RefCountAccounted

(* Beside CancelInv: what an id stands for, or is about to, is not         *)
(* destroyed.                                                              *)
OccupantsAlive ==
  /\ \A i \in Slots : slot[i].id # AOS_ID_NONE => slot[i].live
  /\ \A t \in Threads : call[t].pc \in CreatePoints => slot[SlotOf(t)].live

=============================================================================
