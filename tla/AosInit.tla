------------------------------- MODULE AosInit -------------------------------
(***************************************************************************)
(* AOS_Init and AOS_GetCapabilities of aos_posix.c, with the scheduling    *)
(* probe of aos_task.c and the threads that use the OSAL meanwhile.        *)
(*                                                                         *)
(* AOS_Init runs under g_init_lock; its steps are separate because         *)
(* AOS_GetCapabilities and the create calls read what it writes without    *)
(* that lock.  Each unlocked load is one step that sees the last store.    *)
(***************************************************************************)
EXTENDS AosPriority, FiniteSets

CONSTANTS
  Threads,      (* threads that call the API                               *)
  NoThread,     (* holder of a free lock                                   *)
  Ranges,       (* what <<sched_get_priority_min, _max>> may say           *)
  MaxFailures   (* bound on the calls of AOS_Init that fail                *)

ASSUME InitAssumption ==
  /\ NoThread \notin Threads
  /\ \A r \in Ranges : r = <<r[1], r[2]>> /\ IsRange(r[1], r[2])
  /\ MaxFailures \in Nat

VARIABLES
  platform,   (* fixed: AOS_CONFIG_POSIX_RT_REQUIRED and the two policies  *)
  g_init_lock,
  g_is_initialized,
  posix_task_module_initialized,
  g_task_module_initialized,
  g_task_key_valid,
  g_rt_enabled,
  g_rt_policy,      (* the policy, with g_rt_priority_min and _max         *)
  g_mutex_initialized,
  g_sem_initialized,
  keys,       (* native thread-specific-data keys that exist               *)
  pools,      (* the pools that hold objects                               *)
  sched,      (* per thread: its own scheduling or that of the probe       *)
  call,       (* per thread: where it is, its locals, the capabilities it  *)
              (* was told, whether an AOS_Init of its succeeded and failed *)
  probe,      (* history: what the last scheduling probe found             *)
  failures    (* history: calls of AOS_Init that failed                    *)

flags == <<g_is_initialized, posix_task_module_initialized,
           g_task_module_initialized, g_task_key_valid,
           g_mutex_initialized, g_sem_initialized>>

rt == <<g_rt_enabled, g_rt_policy, sched, probe>>

vars == <<platform, g_init_lock, flags, rt, keys, pools, call, failures>>

Points == {"idle", "enter", "task", "policy", "probe", "restore", "task_fails",
           "task_done", "mutex", "sem", "done", "leave", "caps"}

Errors == {"CREATION_FAILED", "UNSUPPORTED", "PERMISSION_DENIED"}

At(t, point)   == call[t].pc = point
Goto(t, point) == call' = [call EXCEPT ![t].pc = point]

(* The call goes on to point with ret = status. *)
GotoWith(t, point, status) ==
  call' = [call EXCEPT ![t].pc = point, ![t].ret = status]

NoPolicy == [name |-> "SCHED_OTHER", min |-> 0, max |-> 0]

Init ==
  /\ platform \in [required : BOOLEAN, fifo : Ranges, rr : Ranges]
  /\ g_init_lock = NoThread
  /\ g_is_initialized = FALSE
  /\ posix_task_module_initialized = FALSE
  /\ g_task_module_initialized = FALSE
  /\ g_task_key_valid = FALSE
  /\ g_rt_enabled = FALSE
  /\ g_rt_policy = NoPolicy
  /\ g_mutex_initialized = FALSE
  /\ g_sem_initialized = FALSE
  /\ keys = 0
  /\ pools = {}
  /\ sched = [t \in Threads |-> "own"]
  /\ call = [t \in Threads |-> [pc |-> "idle", ret |-> "none", orig |-> "own",
                                caps |-> "none", done |-> FALSE, failed |-> FALSE]]
  /\ probe = "none"
  /\ failures = 0

-----------------------------------------------------------------------------
(* AOS_Init *)

Enter(t) ==
  /\ At(t, "idle")
  /\ failures < MaxFailures
  /\ Goto(t, "enter")
  /\ UNCHANGED <<platform, g_init_lock, flags, rt, keys, pools, failures>>

TakeInitLock(t) ==
  /\ At(t, "enter")
  /\ g_init_lock = NoThread
  /\ g_init_lock' = t
  /\ GotoWith(t, IF g_is_initialized THEN "leave" ELSE "task", "SUCCESS")
  /\ UNCHANGED <<platform, flags, rt, keys, pools, failures>>

(* Mutants: a key that was not created is deleted; the module accepts      *)
(* calls before the scheduling is settled.                                 *)
TaskPoolDeletesKey(t) ==
  /\ At(t, "task")
  /\ IF posix_task_module_initialized \/ g_task_module_initialized
       THEN Goto(t, "mutex") /\ UNCHANGED <<g_task_key_valid, keys, pools>>
       ELSE /\ pools' = pools \ {"task"}
            /\ \/ /\ keys' = keys + 1
                  /\ g_task_key_valid' = TRUE
                  /\ Goto(t, "policy")
               \/ /\ GotoWith(t, "task_fails", "CREATION_FAILED")
                  /\ UNCHANGED <<g_task_key_valid, keys>>
  /\ UNCHANGED <<platform, g_init_lock, rt, failures, g_is_initialized,
                 posix_task_module_initialized, g_task_module_initialized,
                 g_mutex_initialized, g_sem_initialized>>

TaskPoolEarlyFlag(t) ==
  /\ At(t, "task")
  /\ IF posix_task_module_initialized \/ g_task_module_initialized
       THEN Goto(t, "mutex") /\ UNCHANGED <<g_task_key_valid, keys, pools, g_task_module_initialized>>
       ELSE /\ pools' = pools \ {"task"}
            /\ keys' = keys + 1
            /\ g_task_key_valid' = TRUE
            /\ g_task_module_initialized' = TRUE
            /\ Goto(t, "policy")
  /\ UNCHANGED <<platform, g_init_lock, rt, failures, g_is_initialized,
                 posix_task_module_initialized, g_mutex_initialized, g_sem_initialized>>

(* AOS_PosixTaskInit, to the end of its first section under g_task_lock:   *)
(* nothing to do, or the pool is zeroed and the key created, or not.       *)
TaskPool(t) ==
  /\ At(t, "task")
  /\ IF posix_task_module_initialized \/ g_task_module_initialized
       THEN Goto(t, "mutex") /\ UNCHANGED <<g_task_key_valid, keys, pools>>
       ELSE /\ pools' = pools \ {"task"}
            /\ \/ /\ keys' = keys + 1
                  /\ g_task_key_valid' = TRUE
                  /\ Goto(t, "policy")
               \/ /\ GotoWith(t, "done", "CREATION_FAILED")
                  /\ UNCHANGED <<g_task_key_valid, keys>>
  /\ UNCHANGED <<platform, g_init_lock, rt, failures, g_is_initialized,
                 posix_task_module_initialized, g_task_module_initialized,
                 g_mutex_initialized, g_sem_initialized>>

HasEnoughLevels(range) == PolicyHasEnoughLevels(range[1], range[2])

Policy(name, range) == [name |-> name, min |-> range[1], max |-> range[2]]

(* Without real-time scheduling: an error if it is required, else the      *)
(* fallback, which is a success.                                           *)
NoRealTime(t, error) ==
  IF platform.required
    THEN GotoWith(t, "task_fails", error) /\ UNCHANGED g_rt_enabled
    ELSE g_rt_enabled' = FALSE /\ Goto(t, "task_done")

(* AOS_PosixConfigureRtPolicy: the choice of a policy. *)
ChoosePolicy(t) ==
  /\ At(t, "policy")
  /\ IF HasEnoughLevels(platform.fifo)
       THEN /\ g_rt_policy' = Policy("SCHED_FIFO", platform.fifo)
            /\ Goto(t, "probe")
            /\ UNCHANGED <<g_rt_enabled, probe>>
     ELSE IF HasEnoughLevels(platform.rr)
       THEN /\ g_rt_policy' = Policy("SCHED_RR", platform.rr)
            /\ Goto(t, "probe")
            /\ UNCHANGED <<g_rt_enabled, probe>>
     ELSE /\ NoRealTime(t, "UNSUPPORTED")
          /\ probe' = "failed"
          /\ UNCHANGED g_rt_policy
  /\ UNCHANGED <<platform, g_init_lock, flags, keys, pools, sched, failures>>

(* pthread_getschedparam saves the scheduling of the caller, and           *)
(* pthread_setschedparam gives it the real-time policy.                    *)
ProbeSucceeds(t) ==
  /\ At(t, "probe")
  /\ call' = [call EXCEPT ![t].pc = "restore", ![t].orig = sched[t]]
  /\ sched' = [sched EXCEPT ![t] = "probe"]
  /\ g_rt_enabled' = TRUE
  /\ probe' = "secured"
  /\ UNCHANGED <<platform, g_init_lock, flags, g_rt_policy, keys, pools, failures>>

(* Mutant: the fallback forgets to clear g_rt_enabled.                     *)
ProbeFailsKeepsRt(t) ==
  /\ At(t, "probe")
  /\ IF platform.required
       THEN \E error \in Errors : GotoWith(t, "task_fails", error)
       ELSE Goto(t, "task_done")
  /\ probe' = "failed"
  /\ UNCHANGED <<platform, g_init_lock, flags, g_rt_enabled, g_rt_policy, sched,
                 keys, pools, failures>>

(* The scheduling cannot be read (CREATION_FAILED), or the probe fails:    *)
(* EPERM, EINVAL or another error.                                         *)
ProbeFails(t) ==
  /\ At(t, "probe")
  /\ \E error \in Errors : NoRealTime(t, error)
  /\ probe' = "failed"
  /\ UNCHANGED <<platform, g_init_lock, flags, g_rt_policy, sched, keys, pools,
                 failures>>

(* Mutant: the scheduling of the caller is not put back.                   *)
RestoreSkipped(t) ==
  /\ At(t, "restore")
  /\ Goto(t, "task_done")
  /\ UNCHANGED <<platform, g_init_lock, flags, rt, keys, pools, failures>>

Restore(t) ==
  /\ At(t, "restore")
  /\ sched' = [sched EXCEPT ![t] = call[t].orig]
  /\ Goto(t, "task_done")
  /\ UNCHANGED <<platform, g_init_lock, flags, g_rt_enabled, g_rt_policy, probe,
                 keys, pools, failures>>

(* The caller keeps the real-time policy, and g_rt_enabled stays set. *)
RestoreFails(t) ==
  /\ At(t, "restore")
  /\ GotoWith(t, "task_fails", "CREATION_FAILED")
  /\ UNCHANGED <<platform, g_init_lock, flags, rt, keys, pools, failures>>

(* Mutant: the key outlives the failure.                                   *)
TaskFailsKeepsKey(t) ==
  /\ At(t, "task_fails")
  /\ Goto(t, "done")
  /\ UNCHANGED <<platform, g_init_lock, flags, rt, keys, pools, failures>>

(* The second section under g_task_lock, after a failure. *)
TaskFails(t) ==
  /\ At(t, "task_fails")
  /\ keys' = keys - 1
  /\ g_task_key_valid' = FALSE
  /\ Goto(t, "done")
  /\ UNCHANGED <<platform, g_init_lock, rt, pools, failures, g_is_initialized,
                 posix_task_module_initialized, g_task_module_initialized,
                 g_mutex_initialized, g_sem_initialized>>

(* The same, after a success: from here on AOS_TaskCreate accepts calls.   *)
TaskDone(t) ==
  /\ At(t, "task_done")
  /\ g_task_module_initialized' = TRUE
  /\ posix_task_module_initialized' = TRUE
  /\ Goto(t, "mutex")
  /\ UNCHANGED <<platform, g_init_lock, rt, keys, pools, failures, g_is_initialized,
                 g_task_key_valid, g_mutex_initialized, g_sem_initialized>>

(* AOS_PosixMutexInit *)
MutexPool(t) ==
  /\ At(t, "mutex")
  /\ pools' = IF g_mutex_initialized THEN pools ELSE pools \ {"mutex"}
  /\ g_mutex_initialized' = TRUE
  /\ Goto(t, "sem")
  /\ UNCHANGED <<platform, g_init_lock, rt, keys, failures, g_is_initialized,
                 posix_task_module_initialized, g_task_module_initialized,
                 g_task_key_valid, g_sem_initialized>>

(* AOS_PosixBinSemInit *)
SemPool(t) ==
  /\ At(t, "sem")
  /\ pools' = IF g_sem_initialized THEN pools ELSE pools \ {"sem"}
  /\ g_sem_initialized' = TRUE
  /\ Goto(t, "done")
  /\ UNCHANGED <<platform, g_init_lock, rt, keys, failures, g_is_initialized,
                 posix_task_module_initialized, g_task_module_initialized,
                 g_task_key_valid, g_mutex_initialized>>

Done(t) ==
  /\ At(t, "done")
  /\ g_is_initialized' = (g_is_initialized \/ call[t].ret = "SUCCESS")
  /\ Goto(t, "leave")
  /\ UNCHANGED <<platform, g_init_lock, rt, keys, pools, failures,
                 posix_task_module_initialized, g_task_module_initialized,
                 g_task_key_valid, g_mutex_initialized, g_sem_initialized>>

Leave(t) ==
  /\ At(t, "leave")
  /\ g_init_lock' = NoThread
  /\ LET success == call[t].ret = "SUCCESS"
     IN  /\ failures' = IF success THEN failures ELSE failures + 1
         /\ call' = [call EXCEPT ![t].pc = "idle", ![t].ret = "none",
                                 ![t].done = @ \/ success,
                                 ![t].failed = @ \/ ~success]
  /\ UNCHANGED <<platform, flags, rt, keys, pools>>

-----------------------------------------------------------------------------
(* The calls that read what AOS_Init writes *)

(* Mutant: the capabilities are reported without looking at the flag.      *)
CapsCheckMissing(t) ==
  /\ At(t, "idle")
  /\ Goto(t, "caps")
  /\ UNCHANGED <<platform, g_init_lock, flags, rt, keys, pools, failures>>

(* AOS_GetCapabilities loads g_is_initialized and refuses, *)
CapsCheck(t) ==
  /\ At(t, "idle")
  /\ g_is_initialized
  /\ Goto(t, "caps")
  /\ UNCHANGED <<platform, g_init_lock, flags, rt, keys, pools, failures>>

(* or loads g_rt_enabled; the other capabilities are constants.            *)
CapsReport(t) ==
  /\ At(t, "caps")
  /\ call' = [call EXCEPT ![t].pc = "idle",
                          ![t].caps = IF g_rt_enabled THEN "rt" ELSE "no rt"]
  /\ UNCHANGED <<platform, g_init_lock, flags, rt, keys, pools, failures>>

(* Mutant: AOS_TaskCreate does not look at the flag.                       *)
CreateTaskUnchecked(t) ==
  /\ At(t, "idle")
  /\ pools' = pools \cup {"task"}
  /\ UNCHANGED <<platform, g_init_lock, flags, rt, keys, call, failures>>

(* AOS_TaskCreate refuses until the task module is initialised.            *)
CreateTask(t) ==
  /\ At(t, "idle")
  /\ g_task_module_initialized
  /\ pools' = pools \cup {"task"}
  /\ UNCHANGED <<platform, g_init_lock, flags, rt, keys, call, failures>>

(* AOS_MutexCreate and AOS_SemCreate look at no flag: their locks are      *)
(* initialised statically, and they work before and during AOS_Init too.   *)
CreateObject(t) ==
  /\ At(t, "idle")
  /\ \E kind \in {"mutex", "sem"} : pools' = pools \cup {kind}
  /\ UNCHANGED <<platform, g_init_lock, flags, rt, keys, call, failures>>

-----------------------------------------------------------------------------
InitStep(t) ==
  \/ TakeInitLock(t) \/ TaskPool(t) \/ ChoosePolicy(t)
  \/ ProbeSucceeds(t) \/ ProbeFails(t) \/ Restore(t) \/ RestoreFails(t)
  \/ TaskFails(t) \/ TaskDone(t) \/ MutexPool(t) \/ SemPool(t)
  \/ Done(t) \/ Leave(t)

Next ==
  \E t \in Threads :
    \/ Enter(t) \/ InitStep(t) \/ CapsCheck(t) \/ CapsReport(t)
    \/ CreateTask(t) \/ CreateObject(t)

Spec == Init /\ [][Next]_vars

-----------------------------------------------------------------------------
(* Properties *)

Statuses == {"none", "SUCCESS"} \cup Errors

CallType == [pc : Points, ret : Statuses, orig : {"own", "probe"},
             caps : {"none", "rt", "no rt"}, done : BOOLEAN, failed : BOOLEAN]

SharedTypes ==
  /\ platform \in [required : BOOLEAN, fifo : Ranges, rr : Ranges]
  /\ g_init_lock \in Threads \cup {NoThread}
  /\ {g_is_initialized, posix_task_module_initialized, g_task_module_initialized,
      g_task_key_valid, g_mutex_initialized, g_sem_initialized, g_rt_enabled}
       \subseteq BOOLEAN
  /\ g_rt_policy \in {NoPolicy} \cup
       {Policy(name, range) : name \in {"SCHED_FIFO", "SCHED_RR"}, range \in Ranges}
  /\ keys \in Nat
  /\ pools \subseteq {"task", "mutex", "sem"}
  /\ sched \in [Threads -> {"own", "probe"}]
  /\ probe \in {"none", "secured", "failed"}
  /\ failures \in Nat

(* Flags, policies, threads and calls keep their types. *)
TypeOK == SharedTypes /\ call \in [Threads -> CallType]

(* Whoever finds the OSAL initialised finds all of it ready, whatever      *)
(* calls of AOS_Init failed before: the three modules, the key, and        *)
(* real-time scheduling enabled exactly when the last probe "actually      *)
(* secured SCHED_FIFO/RR" (aos_posix_internal.h), as a build that requires *)
(* it must have found.                                                     *)
InitializedIsReady ==
  g_is_initialized =>
    /\ g_task_module_initialized /\ g_mutex_initialized /\ g_sem_initialized
    /\ g_task_key_valid
    /\ g_rt_enabled <=> probe = "secured"
    /\ platform.required => g_rt_enabled

(* No native key is lost or left behind by failing calls of AOS_Init.      *)
KeyAccounted == keys = (IF g_task_key_valid THEN 1 ELSE 0)

(* Tasks run at distinct native priorities, in the order of their AOS      *)
(* priorities, within the range of the policy they get.                    *)
PrioritiesSeparate ==
  g_task_module_initialized /\ g_rt_enabled =>
    LET native(p) == MapPriority(g_rt_policy.min, g_rt_policy.max, p)
    IN  /\ \A p \in AosPriorities : native(p) \in g_rt_policy.min .. g_rt_policy.max
        /\ \A p, q \in AosPriorities : p < q => native(p) > native(q)

(* What AOS_GetCapabilities has told anybody stays true. *)
ReportsStand ==
  \A t \in Threads : call[t].caps # "none" => (call[t].caps = "rt" <=> g_rt_enabled)

(* A thread that saw no AOS_Init fail runs with its own scheduling again:  *)
(* the probe is temporary.                                                 *)
SchedulingRestored ==
  \A t \in Threads : At(t, "idle") /\ ~call[t].failed => sched[t] = "own"

(* "Idempotent: repeated calls are no-ops" (aos_osal.h): no call of        *)
(* AOS_Init zeroes a pool that holds tasks, which AOS_TaskCreate accepts   *)
(* while a call still runs, or any pool once the OSAL is initialised.      *)
(* What can be lost is a mutex or a semaphore created before that.         *)
ObjectsKept ==
  [][/\ "task" \in pools => "task" \in pools'
     /\ g_is_initialized => pools \subseteq pools']_vars

(* Scheduling is settled before the first task can exist: all tasks get    *)
(* the same policy and the same mapping of priorities.                     *)
SchedulingSettled ==
  [][g_task_module_initialized => UNCHANGED <<g_rt_enabled, g_rt_policy>>]_vars

-----------------------------------------------------------------------------
(* The inductive invariant: what holds between the steps of an AOS_Init    *)

SettlePoints == {"policy", "probe", "restore", "task_fails", "task_done"}

InitPoints == SettlePoints \cup {"task", "mutex", "sem", "done", "leave"}

(* One call of AOS_Init at a time, the one that holds g_init_lock.         *)
LockHeld == \A t \in Threads : call[t].pc \in InitPoints <=> g_init_lock = t

(* What the probe found is what g_rt_enabled says and what is required.    *)
RtSettled ==
  /\ g_rt_enabled <=> probe = "secured"
  /\ platform.required => g_rt_enabled
  /\ g_rt_enabled => HasEnoughLevels(<<g_rt_policy.min, g_rt_policy.max>>)

(* A flag is set only after what it announces is ready; the key is there   *)
(* without the task module only while a call is settling the scheduling.   *)
FlagsOrdered ==
  /\ posix_task_module_initialized = g_task_module_initialized
  /\ g_task_module_initialized => g_task_key_valid /\ RtSettled
  /\ g_is_initialized =>
       g_task_module_initialized /\ g_mutex_initialized /\ g_sem_initialized
  /\ g_task_key_valid =>
       g_task_module_initialized \/ \E t \in Threads : call[t].pc \in SettlePoints

(* What a call of AOS_Init has done and found when it comes to a point.    *)
CallProgress ==
  \A t \in Threads :
    LET c == call[t]
    IN  /\ c.pc \in SettlePoints => ~g_task_module_initialized /\ g_task_key_valid
        /\ c.pc \in {"task", "policy", "probe", "restore", "task_done", "mutex", "sem"}
             => c.ret = "SUCCESS"
        /\ c.pc = "task_fails" => c.ret \in Errors
        /\ c.pc \in {"done", "leave"} => c.ret # "none"
        /\ c.pc \in {"probe", "restore"}
             => HasEnoughLevels(<<g_rt_policy.min, g_rt_policy.max>>)
        /\ c.pc = "restore" => g_rt_enabled /\ probe = "secured"
        /\ c.pc = "task_done" => RtSettled
        /\ c.pc \in {"mutex", "sem"} => g_task_module_initialized
        /\ c.pc = "sem" => g_mutex_initialized
        /\ c.pc = "done" /\ c.ret = "SUCCESS" =>
             g_task_module_initialized /\ g_mutex_initialized /\ g_sem_initialized
        /\ c.pc = "leave" /\ c.ret = "SUCCESS" => g_is_initialized

(* No task exists before the task module is initialised, and nobody has    *)
(* been told that the OSAL is ready before it is.                          *)
UsesReady ==
  /\ "task" \in pools => g_task_module_initialized
  /\ \A t \in Threads :
       call[t].done \/ call[t].caps # "none" \/ At(t, "caps") => g_is_initialized

(* A thread has the scheduling of the probe only inside the call that      *)
(* probes, or once a call of its has failed or is about to.                *)
ProbeTemporary ==
  \A t \in Threads :
    LET c == call[t]
    IN  /\ sched[t] = "own" \/ c.failed \/ c.pc = "restore"
             \/ (c.pc \in {"task_fails", "done", "leave"} /\ c.ret \in Errors)
        /\ c.pc = "restore" => c.orig = "own" \/ c.failed

(* The invariant that every step keeps.                                    *)
IInv ==
  /\ TypeOK
  /\ LockHeld
  /\ FlagsOrdered
  /\ KeyAccounted
  /\ CallProgress
  /\ UsesReady
  /\ ReportsStand
  /\ ProbeTemporary

=============================================================================
