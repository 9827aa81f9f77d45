--------------------------- MODULE AosMutexCancel ---------------------------
(***************************************************************************)
(* AosMutex with callers that are tasks, which AOS_TaskDelete may end.     *)
(*                                                                         *)
(* No native call of aos_mutex.c is a cancellation point: neither          *)
(* pthread_mutex_lock nor pthread_mutex_timedlock.  So a task is ended     *)
(* between its calls of this module, and it may own a mutex then; native   *)
(* mutexes are not robust (aos_mutex.c sets no such attribute): it stays   *)
(* locked, for the threads that already wait for it too.  That is what     *)
(* POSIX says.  The mutexes inherit priority, and a kernel that implements *)
(* such a mutex may treat the waiters of an owner that ends in a way of    *)
(* its own, which is not modelled.                                         *)
(***************************************************************************)
EXTENDS AosMutex

CONSTANT Tasks  (* the callers AOS_TaskDelete may end                      *)

ASSUME MutexCancelAssumption == Tasks \subseteq Threads

VARIABLE fate   (* per task: it runs, was asked to end, or has ended       *)

cvars == <<slot, call, fate>>

CancelInit == Init /\ fate = [t \in Tasks |-> "runs"]

Ended == {t \in Tasks : fate[t] = "ended"}

(* A task that has ended calls no more. *)
CallNext ==
  /\ Next
  /\ \A t \in Ended : call'[t] = Idle
  /\ UNCHANGED fate

(* pthread_cancel of a task that still runs. *)
AskToEnd(t) ==
  /\ fate[t] = "runs"
  /\ fate' = [fate EXCEPT ![t] = "asked"]
  /\ UNCHANGED <<slot, call>>

(* The task reaches a cancellation point; what it owns stays locked. *)
EndOutside(t) ==
  /\ fate[t] = "asked"
  /\ call[t] = Idle
  /\ fate' = [fate EXCEPT ![t] = "ended"]
  /\ UNCHANGED <<slot, call>>

CancelNext == CallNext \/ \E t \in Tasks : AskToEnd(t) \/ EndOutside(t)

CancelSpec == CancelInit /\ [][CancelNext]_cvars

(* As in AosMutex.  Nothing makes a task asked to end come to a            *)
(* cancellation point.                                                     *)
CancelFairSpec == CancelSpec /\ \A t \in Threads : WF_vars(Step(t))

-----------------------------------------------------------------------------
(* Properties *)

(* AOS_MutexLock blocks for ever only while another thread has the mutex,  *)
(* for ever or again and again: a relock is refused, a mutex that was      *)
(* unlocked or destroyed keeps nobody waiting.  A delete of the task that  *)
(* waits lasts as long, AOS_MutexLock being no cancellation point.         *)
LockWaitsForHolder ==
  \A t \in Threads :
    <>[](call[t].op = "Lock") =>
      []<>(At(t, "native") /\ slot[SlotOf(t)].owner \notin {t, NoThread})

(* Wrong-owner unlocks are refused also when the owner is gone: a mutex    *)
(* whose owner was ended stays locked for as long as its slot has this     *)
(* occupant, and who waits in AOS_MutexLock for it stays there.            *)
OrphanStaysLocked ==
  [][\A i \in Slots :
       slot[i].owner \in Ended /\ slot'[i].serial = slot[i].serial =>
         /\ slot'[i].owner = slot[i].owner
         /\ \A t \in Threads :
              At(t, "native") /\ call[t].op = "Lock" /\ SlotOf(t) = i /\ slot[i].live
                => call'[t] = call[t]]_cvars

-----------------------------------------------------------------------------
(* Why orphans stay locked, however callers create and delete: a task that *)
(* has ended is inside no call, so no step is that of the owner.           *)
OrphanInv ==
  /\ TypeOK
  /\ fate \in [Tasks -> {"runs", "asked", "ended"}]
  /\ \A t \in Ended : call[t] = Idle

=============================================================================
