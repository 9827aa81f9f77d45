---------------------------- MODULE AosInitProofs ----------------------------
(***************************************************************************)
(* AOS_Init makes the OSAL ready before it says so, whatever calls failed  *)
(* before, for any number of threads that call it and use it meanwhile and *)
(* for every answer of the platform.                                       *)
(*                                                                         *)
(* Only the thread that holds g_init_lock is inside AOS_Init (LockHeld),   *)
(* so a step of AOS_Init has to be looked at for that thread alone         *)
(* (InitStepKeeps); the steps of the other threads write none of the flags *)
(* it writes (OutsideStepKeeps).                                           *)
(***************************************************************************)
EXTENDS AosInit, AosPriorityProofs

(* The parts of the invariant for one thread. *)
FlagsOf(t) ==
  /\ posix_task_module_initialized = g_task_module_initialized
  /\ g_task_module_initialized => g_task_key_valid /\ RtSettled
  /\ g_is_initialized =>
       g_task_module_initialized /\ g_mutex_initialized /\ g_sem_initialized
  /\ g_task_key_valid => g_task_module_initialized \/ call[t].pc \in SettlePoints

ProgressOf(t) ==
  LET c == call[t]
  IN  /\ c.pc \in SettlePoints => ~g_task_module_initialized /\ g_task_key_valid
      /\ c.pc \in {"task", "policy", "probe", "restore", "task_done", "mutex", "sem"}
           => c.ret = "SUCCESS"
      /\ c.pc = "task_fails" => c.ret \in Errors
      /\ c.pc \in {"done", "leave"} => c.ret # "none"
      /\ c.pc \in {"probe", "restore"}
           => HasEnoughLevels(<<g_rt_policy.min, g_rt_policy.max>>)
      /\ c.pc = "restore" => g_rt_enabled /\ probe = "secured"
      /\ c.pc = "task_done" => RtSettled
      /\ c.pc \in {"mutex", "sem"} => g_task_module_initialized
      /\ c.pc = "sem" => g_mutex_initialized
      /\ c.pc = "done" /\ c.ret = "SUCCESS" =>
           g_task_module_initialized /\ g_mutex_initialized /\ g_sem_initialized
      /\ c.pc = "leave" /\ c.ret = "SUCCESS" => g_is_initialized

TemporaryOf(t) ==
  LET c == call[t]
  IN  /\ sched[t] = "own" \/ c.failed \/ c.pc = "restore"
           \/ (c.pc \in {"task_fails", "done", "leave"} /\ c.ret \in Errors)
      /\ c.pc = "restore" => c.orig = "own" \/ c.failed

PoolsReady == "task" \in pools => g_task_module_initialized

UserReady(t) == call[t].done \/ call[t].caps # "none" \/ At(t, "caps") => g_is_initialized

ReportStands(t) == call[t].caps # "none" => (call[t].caps = "rt" <=> g_rt_enabled)

LEMMA Parts ==
  /\ CallProgress <=> \A t \in Threads : ProgressOf(t)
  /\ ProbeTemporary <=> \A t \in Threads : TemporaryOf(t)
  /\ UsesReady <=> PoolsReady /\ \A t \in Threads : UserReady(t)
  /\ ReportsStand <=> \A t \in Threads : ReportStands(t)
<1>1. CallProgress <=> \A t \in Threads : ProgressOf(t)
  BY Zenon DEF CallProgress, ProgressOf
<1>2. ProbeTemporary <=> \A t \in Threads : TemporaryOf(t)
  BY Zenon DEF ProbeTemporary, TemporaryOf
<1>3. UsesReady <=> PoolsReady /\ \A t \in Threads : UserReady(t)
  BY Zenon DEF UsesReady, PoolsReady, UserReady
<1>4. ReportsStand <=> \A t \in Threads : ReportStands(t)
  BY Zenon DEF ReportsStand, ReportStands
<1>5. QED
  BY <1>1, <1>2, <1>3, <1>4

LEMMA PartsPrime ==
  /\ CallProgress' <=> \A t \in Threads : ProgressOf(t)'
  /\ ProbeTemporary' <=> \A t \in Threads : TemporaryOf(t)'
  /\ UsesReady' <=> PoolsReady' /\ \A t \in Threads : UserReady(t)'
  /\ ReportsStand' <=> \A t \in Threads : ReportStands(t)'
<1>1. CallProgress' <=> \A t \in Threads : ProgressOf(t)'
  BY Zenon DEF CallProgress, ProgressOf
<1>2. ProbeTemporary' <=> \A t \in Threads : TemporaryOf(t)'
  BY Zenon DEF ProbeTemporary, TemporaryOf
<1>3. UsesReady' <=> PoolsReady' /\ \A t \in Threads : UserReady(t)'
  BY Zenon DEF UsesReady, PoolsReady, UserReady
<1>4. ReportsStand' <=> \A t \in Threads : ReportStands(t)'
  BY Zenon DEF ReportsStand, ReportStands
<1>5. QED
  BY <1>1, <1>2, <1>3, <1>4

(* While a thread holds the lock, or nobody does, the others are outside.  *)
LEMMA OthersOutside ==
  ASSUME IInv, NEW t \in Threads, g_init_lock \in {t, NoThread},
         NEW u \in Threads, u # t
  PROVE  call[u].pc \notin InitPoints
  BY InitAssumption DEF IInv, LockHeld

(* A step of the thread in AOS_Init, or of the one that enters or leaves,  *)
(* keeps the invariant when it does for that thread.                       *)
LEMMA InitStepKeeps ==
  ASSUME IInv, NEW t \in Threads, g_init_lock \in {t, NoThread},
         call' \in [Threads -> CallType], SharedTypes',
         \A u \in Threads \ {t} : call'[u] = call[u] /\ sched'[u] = sched[u],
         g_init_lock' = IF call'[t].pc \in InitPoints THEN t ELSE NoThread,
         FlagsOf(t)', KeyAccounted', ProgressOf(t)', TemporaryOf(t)', PoolsReady',
         UserReady(t)', call'[t].caps = call[t].caps,
         g_is_initialized => g_is_initialized' /\ g_rt_enabled' = g_rt_enabled
  PROVE  IInv'
<1> DEFINE Outside == {"idle", "enter", "caps"}
<1>1. \A u \in Threads \ {t} : call'[u].pc \notin InitPoints
  BY OthersOutside
<1>2. TypeOK'
  BY DEF TypeOK
<1>3. LockHeld'
  BY <1>1, InitAssumption DEF LockHeld
<1>4. FlagsOrdered'
  BY DEF FlagsOf, FlagsOrdered
<1>5. ASSUME NEW u \in Threads, u # t
      PROVE  ProgressOf(u)'
  BY <1>1, <1>5 DEF ProgressOf, InitPoints, SettlePoints
<1>6. ASSUME NEW u \in Threads, u # t
      PROVE  TemporaryOf(u)'
  <2>1. TemporaryOf(u)
    BY Parts DEF IInv
  <2>2. QED
    BY <1>6, <2>1 DEF TemporaryOf
<1>7. ASSUME NEW u \in Threads, u # t
      PROVE  UserReady(u)'
  <2>1. UserReady(u)
    BY Parts DEF IInv
  <2>2. QED
    BY <1>7, <2>1 DEF UserReady, At
<1>8. ASSUME NEW u \in Threads
      PROVE  ReportStands(u)'
  <2>1. UserReady(u) /\ ReportStands(u)
    BY Parts DEF IInv
  <2>2. call'[u].caps = call[u].caps
    OBVIOUS
  <2>3. QED
    BY <2>1, <2>2 DEF UserReady, ReportStands
<1>9. CallProgress' /\ ProbeTemporary' /\ UsesReady' /\ ReportsStand'
  BY <1>5, <1>6, <1>7, <1>8, PartsPrime
<1>10. QED
  BY <1>2, <1>3, <1>4, <1>9 DEF IInv
(* A step of a thread outside AOS_Init that writes its own call and the    *)
(* pools keeps the invariant too.                                          *)
LEMMA OutsideStepKeeps ==
  ASSUME IInv, NEW t \in Threads,
         call[t].pc \notin InitPoints, call'[t].pc \notin InitPoints,
         call' \in [Threads -> CallType],
         \A u \in Threads \ {t} : call'[u] = call[u],
         UNCHANGED <<platform, g_init_lock, flags, rt, keys, failures>>,
         call'[t].failed = call[t].failed,
         pools' \subseteq {"task", "mutex", "sem"}, PoolsReady',
         UserReady(t)', ReportStands(t)'
  PROVE  IInv'
<1>0. /\ UNCHANGED <<platform, g_init_lock, keys, failures, probe, sched,
                     g_rt_enabled, g_rt_policy, g_is_initialized>>
      /\ UNCHANGED <<posix_task_module_initialized, g_task_module_initialized,
                     g_task_key_valid, g_mutex_initialized, g_sem_initialized>>
  BY DEF flags, rt
<1>1. \A u \in Threads \ {t} : call'[u] = call[u]
  OBVIOUS
<1>2. TypeOK'
  BY <1>0 DEF IInv, TypeOK, SharedTypes
<1>3. LockHeld'
  BY <1>0, <1>1 DEF IInv, LockHeld
<1>4. RtSettled' = RtSettled
  BY <1>0 DEF RtSettled
<1>5. FlagsOrdered'
  <2>1. \A u \in Threads : call[u].pc \in SettlePoints => call'[u].pc \in SettlePoints
    BY <1>1 DEF InitPoints
  <2>2. FlagsOrdered
    BY DEF IInv
  <2>3. QED
    BY <1>0, <1>4, <2>1, <2>2 DEF FlagsOrdered
<1>6. KeyAccounted'
  BY <1>0 DEF IInv, KeyAccounted
<1>7. ASSUME NEW u \in Threads
      PROVE  ProgressOf(u)'
  <2>1. CASE u = t
    BY <2>1 DEF ProgressOf, InitPoints, SettlePoints
  <2>2. CASE u # t
    <3>1. ProgressOf(u)
      BY Parts DEF IInv
    <3>2. QED
      BY <1>0, <1>1, <1>4, <2>2, <3>1 DEF ProgressOf
  <2>3. QED
    BY <2>1, <2>2
<1>8. ASSUME NEW u \in Threads
      PROVE  TemporaryOf(u)'
  <2>1. TemporaryOf(u)
    BY Parts DEF IInv
  <2>2. CASE u = t
    BY <1>0, <2>1, <2>2 DEF TemporaryOf, InitPoints, SettlePoints
  <2>3. CASE u # t
    BY <1>0, <1>1, <2>1, <2>3 DEF TemporaryOf
  <2>4. QED
    BY <2>2, <2>3
<1>9. ASSUME NEW u \in Threads
      PROVE  UserReady(u)' /\ ReportStands(u)'
  <2>1. UserReady(u) /\ ReportStands(u)
    BY Parts DEF IInv
  <2>2. QED
    BY <1>0, <1>1, <2>1 DEF UserReady, ReportStands, At
<1>10. CallProgress' /\ ProbeTemporary' /\ UsesReady' /\ ReportsStand'
  BY <1>7, <1>8, <1>9, PartsPrime
<1>11. QED
  BY <1>2, <1>3, <1>5, <1>6, <1>10 DEF IInv

(* What a thread finds before its step. *)
LEMMA Before ==
  ASSUME IInv, NEW t \in Threads
  PROVE  /\ SharedTypes /\ call \in [Threads -> CallType] /\ call[t] \in CallType
         /\ KeyAccounted /\ PoolsReady
         /\ ProgressOf(t) /\ TemporaryOf(t) /\ UserReady(t) /\ ReportStands(t)
  BY Parts DEF IInv, TypeOK

(* And inside AOS_Init. *)
LEMMA InsideBefore ==
  ASSUME IInv, NEW t \in Threads, call[t].pc \in InitPoints
  PROVE  /\ SharedTypes /\ call[t] \in CallType
         /\ KeyAccounted /\ PoolsReady
         /\ ProgressOf(t) /\ TemporaryOf(t) /\ UserReady(t)
         /\ g_init_lock = t /\ FlagsOf(t)
<1>1. g_init_lock = t
  BY DEF IInv, LockHeld
<1>2. \A u \in Threads \ {t} : call[u].pc \notin InitPoints
  BY <1>1, OthersOutside
<1>3. \A u \in Threads : call[u].pc \in SettlePoints => u = t
  BY <1>2 DEF InitPoints
<1>4. FlagsOf(t)
  BY <1>3 DEF IInv, FlagsOrdered, FlagsOf
<1>5. QED
  BY <1>1, <1>4, Before

(* The calls after a step of one thread. *)
LEMMA OneCall ==
  ASSUME IInv, NEW t \in Threads, NEW c \in CallType, call' = [call EXCEPT ![t] = c]
  PROVE  /\ call' \in [Threads -> CallType]
         /\ call'[t] = c
         /\ \A u \in Threads \ {t} : call'[u] = call[u]
  BY DEF IInv, TypeOK

(* The call of a thread goes on to a point, with a status to return.      *)
Moves(t, point, status) ==
  /\ call' \in [Threads -> CallType]
  /\ \A u \in Threads \ {t} : call'[u] = call[u]
  /\ call'[t].pc = point /\ call'[t].ret = status
  /\ call'[t].failed = call[t].failed /\ call'[t].done = call[t].done
  /\ call'[t].caps = call[t].caps

LEMMA GotoMoves ==
  ASSUME IInv, NEW t \in Threads, NEW point \in Points, Goto(t, point)
  PROVE  Moves(t, point, call[t].ret) /\ call'[t].orig = call[t].orig
<1> DEFINE c == [call[t] EXCEPT !.pc = point]
<1>1. call \in [Threads -> CallType] /\ call[t] \in CallType
  BY Before
<1>2. c \in CallType /\ call' = [call EXCEPT ![t] = c]
  BY <1>1 DEF Goto, CallType
<1>3. /\ c.pc = point /\ c.ret = call[t].ret /\ c.failed = call[t].failed
      /\ c.done = call[t].done /\ c.caps = call[t].caps /\ c.orig = call[t].orig
  BY <1>1 DEF CallType
<1> HIDE DEF c
<1>4. QED
  BY <1>2, <1>3, OneCall DEF Moves

LEMMA GotoWithMoves ==
  ASSUME IInv, NEW t \in Threads, NEW point \in Points, NEW status \in Statuses,
         GotoWith(t, point, status)
  PROVE  Moves(t, point, status)
<1> DEFINE c == [call[t] EXCEPT !.pc = point, !.ret = status]
<1>1. call \in [Threads -> CallType] /\ call[t] \in CallType
  BY Before
<1>2. c \in CallType /\ call' = [call EXCEPT ![t] = c]
  BY <1>1 DEF GotoWith, CallType
<1>3. /\ c.pc = point /\ c.ret = status /\ c.failed = call[t].failed
      /\ c.done = call[t].done /\ c.caps = call[t].caps
  BY <1>1 DEF CallType
<1> HIDE DEF c
<1>4. QED
  BY <1>2, <1>3, OneCall DEF Moves

(* A step from one point inside AOS_Init to another.                       *)
LEMMA AdvanceKeeps ==
  ASSUME IInv, NEW t \in Threads, NEW point \in InitPoints, NEW status,
         call[t].pc \in InitPoints, Moves(t, point, status), g_init_lock' = g_init_lock,
         \A u \in Threads \ {t} : sched'[u] = sched[u],
         g_is_initialized => g_is_initialized' /\ g_rt_enabled' = g_rt_enabled,
         SharedTypes', FlagsOf(t)', KeyAccounted', PoolsReady', ProgressOf(t)',
         TemporaryOf(t)'
  PROVE  IInv'
<1>1. g_init_lock = t /\ UserReady(t)
  BY InsideBefore
<1>2. UserReady(t)'
  BY <1>1 DEF UserReady, Moves, At, InitPoints, SettlePoints
<1>3. g_init_lock' = IF call'[t].pc \in InitPoints THEN t ELSE NoThread
  BY <1>1 DEF Moves
<1>4. QED
  BY <1>1, <1>2, <1>3, InitStepKeeps DEF Moves

-----------------------------------------------------------------------------
(* The steps of AOS_Init *)

LEMMA TakeInitLockKeeps ==
  ASSUME IInv, NEW t \in Threads, TakeInitLock(t)
  PROVE  IInv'
<1> DEFINE c == [call[t] EXCEPT !.pc = IF g_is_initialized THEN "leave" ELSE "task",
                                !.ret = "SUCCESS"]
<1>1. /\ SharedTypes /\ call \in [Threads -> CallType] /\ call[t] \in CallType
      /\ KeyAccounted /\ PoolsReady /\ TemporaryOf(t) /\ UserReady(t)
      /\ call[t].pc = "enter" /\ g_init_lock = NoThread
  BY Before DEF TakeInitLock, At
<1>2. c \in CallType /\ call' = [call EXCEPT ![t] = c]
  BY <1>1 DEF TakeInitLock, GotoWith, CallType, Points, Statuses
<1>3. /\ call' \in [Threads -> CallType] /\ call'[t] = c
      /\ \A u \in Threads \ {t} : call'[u] = call[u]
  BY <1>2, OneCall
<1>4. /\ UNCHANGED <<platform, flags, rt, keys, pools, failures>> /\ g_init_lock' = t
  BY DEF TakeInitLock
<1>5. /\ UNCHANGED <<platform, keys, pools, failures, probe, sched,
                     g_rt_enabled, g_rt_policy, g_is_initialized>>
      /\ UNCHANGED <<posix_task_module_initialized, g_task_module_initialized,
                     g_task_key_valid, g_mutex_initialized, g_sem_initialized>>
  BY <1>4 DEF flags, rt
<1>6. SharedTypes'
  BY <1>1, <1>4, <1>5 DEF SharedTypes
<1>7. FlagsOf(t)'
  <2>1. \A u \in Threads : call[u].pc \notin SettlePoints
    BY <1>1, OthersOutside DEF InitPoints, SettlePoints
  <2>2. FlagsOrdered
    BY DEF IInv
  <2>3. QED
    BY <1>5, <2>1, <2>2 DEF FlagsOrdered, FlagsOf, RtSettled
<1>8. KeyAccounted' /\ PoolsReady'
  BY <1>1, <1>5 DEF KeyAccounted, PoolsReady
<1>9. c.pc \in {"leave", "task"} /\ (c.pc = "leave" => g_is_initialized) /\ c.ret = "SUCCESS"
      /\ c.failed = call[t].failed /\ c.done = call[t].done /\ c.caps = call[t].caps
  BY <1>1 DEF CallType
<1> HIDE DEF c
<1>10. ProgressOf(t)'
  BY <1>3, <1>5, <1>9 DEF ProgressOf, SettlePoints
<1>11. TemporaryOf(t)'
  BY <1>1, <1>3, <1>5, <1>9 DEF TemporaryOf
<1>12. UserReady(t)'
  BY <1>1, <1>3, <1>5, <1>9 DEF UserReady, At
<1>13. c.pc \in InitPoints
  BY <1>9 DEF InitPoints
<1>14. QED
  BY <1>1, <1>3, <1>4, <1>5, <1>6, <1>7, <1>8, <1>9, <1>10, <1>11, <1>12, <1>13,
     InitStepKeeps

LEMMA TaskPoolKeeps ==
  ASSUME IInv, NEW t \in Threads, TaskPool(t)
  PROVE  IInv'
<1>1. call[t].pc = "task" /\ call[t].pc \in InitPoints
  BY DEF TaskPool, At, InitPoints
<1>2. /\ SharedTypes /\ call[t] \in CallType /\ KeyAccounted /\ PoolsReady
      /\ ProgressOf(t) /\ TemporaryOf(t) /\ UserReady(t)
      /\ g_init_lock = t /\ FlagsOf(t)
  BY <1>1, InsideBefore
<1>3. /\ UNCHANGED <<platform, g_init_lock, failures, probe, sched,
                     g_rt_enabled, g_rt_policy, g_is_initialized>>
      /\ UNCHANGED <<posix_task_module_initialized, g_task_module_initialized,
                     g_mutex_initialized, g_sem_initialized>>
  BY DEF TaskPool, rt
<1>4. RtSettled' = RtSettled
  BY <1>3 DEF RtSettled
<1>5. CASE g_task_module_initialized
  <2>1. Goto(t, "mutex") /\ UNCHANGED <<g_task_key_valid, keys, pools>>
    BY <1>2, <1>5 DEF TaskPool, FlagsOf
  <2>2. Moves(t, "mutex", call[t].ret)
    BY <2>1, GotoMoves DEF Points
  <2>3. SharedTypes'
    BY <1>2, <1>3, <2>1 DEF SharedTypes
  <2>4. FlagsOf(t)' /\ KeyAccounted' /\ PoolsReady'
    BY <1>2, <1>3, <1>4, <1>5, <2>1 DEF FlagsOf, KeyAccounted, PoolsReady
  <2>5. ProgressOf(t)' /\ TemporaryOf(t)'
    BY <1>1, <1>2, <1>3, <1>5, <2>2 DEF ProgressOf, TemporaryOf, SettlePoints, Moves
  <2>6. QED
    BY <1>1, <1>3, <2>2, <2>3, <2>4, <2>5, AdvanceKeeps DEF InitPoints
<1>6. CASE ~g_task_module_initialized
  <2>1. keys = 0 /\ ~g_task_key_valid
    BY <1>1, <1>2, <1>6 DEF FlagsOf, KeyAccounted, SettlePoints
  <2>2. CASE /\ pools' = pools \ {"task"} /\ keys' = keys + 1 /\ g_task_key_valid' = TRUE
             /\ Goto(t, "policy")
    <3>1. Moves(t, "policy", call[t].ret)
      BY <2>2, GotoMoves DEF Points
    <3>2. SharedTypes'
      BY <1>2, <1>3, <2>1, <2>2 DEF SharedTypes
    <3>3. FlagsOf(t)' /\ KeyAccounted' /\ PoolsReady'
      BY <1>2, <1>3, <1>4, <1>6, <2>1, <2>2, <3>1
         DEF FlagsOf, KeyAccounted, PoolsReady, SettlePoints, Moves
    <3>4. ProgressOf(t)' /\ TemporaryOf(t)'
      BY <1>1, <1>2, <1>3, <1>6, <2>2, <3>1
         DEF ProgressOf, TemporaryOf, SettlePoints, Moves
    <3>5. QED
      BY <1>1, <1>3, <3>1, <3>2, <3>3, <3>4, AdvanceKeeps DEF InitPoints, SettlePoints
  <2>3. CASE /\ pools' = pools \ {"task"} /\ GotoWith(t, "done", "CREATION_FAILED")
             /\ UNCHANGED <<g_task_key_valid, keys>>
    <3>1. Moves(t, "done", "CREATION_FAILED")
      BY <2>3, GotoWithMoves DEF Points, Statuses, Errors
    <3>2. SharedTypes'
      BY <1>2, <1>3, <2>1, <2>3 DEF SharedTypes
    <3>3. FlagsOf(t)' /\ KeyAccounted' /\ PoolsReady'
      BY <1>2, <1>3, <1>4, <1>6, <2>1, <2>3, <3>1
         DEF FlagsOf, KeyAccounted, PoolsReady, SettlePoints, Moves
    <3>4. ProgressOf(t)' /\ TemporaryOf(t)'
      BY <1>1, <1>2, <1>3, <1>6, <2>3, <3>1
         DEF ProgressOf, TemporaryOf, SettlePoints, Moves
    <3>5. QED
      BY <1>1, <1>3, <3>1, <3>2, <3>3, <3>4, AdvanceKeeps DEF InitPoints, SettlePoints
  <2>4. QED
    BY <1>2, <1>6, <2>2, <2>3 DEF TaskPool, FlagsOf
<1>7. QED
  BY <1>5, <1>6

(* Without real-time scheduling, from the choice or from the probe.        *)
LEMMA NoRealTimeKeeps ==
  ASSUME IInv, NEW t \in Threads, call[t].pc \in {"policy", "probe"},
         NEW error \in Errors, NoRealTime(t, error), probe' = "failed",
         UNCHANGED <<platform, g_init_lock, flags, g_rt_policy, sched, keys, pools, failures>>
  PROVE  IInv'
<1>1. call[t].pc \in InitPoints /\ call[t].pc \in SettlePoints
  BY DEF InitPoints, SettlePoints
<1>2. /\ SharedTypes /\ call[t] \in CallType /\ KeyAccounted /\ PoolsReady
      /\ ProgressOf(t) /\ TemporaryOf(t) /\ FlagsOf(t)
  BY <1>1, InsideBefore
<1>3. /\ UNCHANGED <<g_is_initialized, posix_task_module_initialized,
                     g_task_module_initialized, g_task_key_valid,
                     g_mutex_initialized, g_sem_initialized>>
      /\ ~g_task_module_initialized /\ g_task_key_valid /\ ~g_is_initialized
      /\ call[t].ret = "SUCCESS"
  BY <1>1, <1>2 DEF flags, ProgressOf, FlagsOf
<1>4. CASE platform.required
  <2>1. GotoWith(t, "task_fails", error) /\ g_rt_enabled' = g_rt_enabled
    BY <1>4 DEF NoRealTime
  <2>2. Moves(t, "task_fails", error)
    BY <2>1, GotoWithMoves DEF Points, Statuses
  <2>3. SharedTypes'
    BY <1>2, <1>3, <2>1 DEF SharedTypes
  <2>4. FlagsOf(t)' /\ KeyAccounted' /\ PoolsReady'
    BY <1>2, <1>3, <2>2 DEF FlagsOf, KeyAccounted, PoolsReady, SettlePoints, Moves
  <2>5. ProgressOf(t)' /\ TemporaryOf(t)'
    BY <1>3, <2>2 DEF ProgressOf, TemporaryOf, SettlePoints, Moves
  <2>6. QED
    BY <1>1, <1>3, <2>2, <2>3, <2>4, <2>5, AdvanceKeeps DEF InitPoints, SettlePoints
<1>5. CASE ~platform.required
  <2>1. Goto(t, "task_done") /\ g_rt_enabled' = FALSE
    BY <1>5 DEF NoRealTime
  <2>2. Moves(t, "task_done", "SUCCESS")
    BY <1>3, <2>1, GotoMoves DEF Points
  <2>3. SharedTypes'
    <3>1. g_rt_enabled' \in BOOLEAN
      BY <2>1
    <3>2. QED
      BY <1>2, <1>3, <3>1 DEF SharedTypes
  <2>4. FlagsOf(t)' /\ KeyAccounted' /\ PoolsReady'
    BY <1>2, <1>3, <2>2 DEF FlagsOf, KeyAccounted, PoolsReady, SettlePoints, Moves
  <2>5. RtSettled'
    BY <1>5, <2>1 DEF RtSettled
  <2>6. ProgressOf(t)' /\ TemporaryOf(t)'
    BY <1>2, <1>3, <2>2, <2>5 DEF ProgressOf, TemporaryOf, SettlePoints, Moves
  <2>7. QED
    BY <1>1, <1>3, <2>2, <2>3, <2>4, <2>6, AdvanceKeeps DEF InitPoints, SettlePoints
<1>6. QED
  BY <1>4, <1>5

LEMMA ChoosePolicyKeeps ==
  ASSUME IInv, NEW t \in Threads, ChoosePolicy(t)
  PROVE  IInv'
<1>1. call[t].pc = "policy" /\ call[t].pc \in InitPoints /\ call[t].pc \in SettlePoints
  BY DEF ChoosePolicy, At, InitPoints, SettlePoints
<1>2. /\ SharedTypes /\ call[t] \in CallType /\ KeyAccounted /\ PoolsReady
      /\ ProgressOf(t) /\ TemporaryOf(t) /\ FlagsOf(t)
  BY <1>1, InsideBefore
<1>3. /\ UNCHANGED <<platform, g_init_lock, keys, pools, sched, failures>>
      /\ UNCHANGED <<g_is_initialized, posix_task_module_initialized,
                     g_task_module_initialized, g_task_key_valid,
                     g_mutex_initialized, g_sem_initialized>>
      /\ ~g_task_module_initialized /\ g_task_key_valid /\ ~g_is_initialized
      /\ call[t].ret = "SUCCESS"
  BY <1>1, <1>2 DEF flags, ProgressOf, FlagsOf, ChoosePolicy
<1>4. ASSUME NEW name \in {"SCHED_FIFO", "SCHED_RR"}, NEW range \in Ranges,
             HasEnoughLevels(range), g_rt_policy' = Policy(name, range),
             Goto(t, "probe"), UNCHANGED <<g_rt_enabled, probe>>
      PROVE  IInv'
  <2>1. Moves(t, "probe", "SUCCESS")
    BY <1>3, <1>4, GotoMoves DEF Points
  <2>2. SharedTypes'
    BY <1>2, <1>3, <1>4 DEF SharedTypes
  <2>3. FlagsOf(t)' /\ KeyAccounted' /\ PoolsReady'
    BY <1>2, <1>3, <2>1 DEF FlagsOf, KeyAccounted, PoolsReady, SettlePoints, Moves
  <2>4. HasEnoughLevels(<<g_rt_policy.min, g_rt_policy.max>>)'
    BY <1>4 DEF HasEnoughLevels, Policy
  <2>5. ProgressOf(t)' /\ TemporaryOf(t)'
    BY <1>1, <1>2, <1>3, <2>1, <2>4 DEF ProgressOf, TemporaryOf, SettlePoints, Moves
  <2>6. QED
    BY <1>1, <1>3, <1>4, <2>1, <2>2, <2>3, <2>5, AdvanceKeeps DEF InitPoints, SettlePoints
<1>5. CASE HasEnoughLevels(platform.fifo)
  BY <1>2, <1>4, <1>5 DEF ChoosePolicy, SharedTypes
<1>6. CASE ~HasEnoughLevels(platform.fifo) /\ HasEnoughLevels(platform.rr)
  BY <1>2, <1>4, <1>6 DEF ChoosePolicy, SharedTypes
<1>7. CASE ~HasEnoughLevels(platform.fifo) /\ ~HasEnoughLevels(platform.rr)
  <2>1. /\ NoRealTime(t, "UNSUPPORTED") /\ probe' = "failed"
        /\ UNCHANGED <<platform, g_init_lock, flags, g_rt_policy, sched, keys, pools,
                       failures>>
    BY <1>7 DEF ChoosePolicy
  <2>2. QED
    BY <1>1, <2>1, NoRealTimeKeeps DEF Errors
<1>8. QED
  BY <1>5, <1>6, <1>7

LEMMA ProbeSucceedsKeeps ==
  ASSUME IInv, NEW t \in Threads, ProbeSucceeds(t)
  PROVE  IInv'
<1>1. call[t].pc = "probe" /\ call[t].pc \in InitPoints /\ call[t].pc \in SettlePoints
  BY DEF ProbeSucceeds, At, InitPoints, SettlePoints
<1>2. /\ SharedTypes /\ call[t] \in CallType /\ KeyAccounted /\ PoolsReady
      /\ ProgressOf(t) /\ TemporaryOf(t) /\ FlagsOf(t)
  BY <1>1, InsideBefore
<1>3. /\ UNCHANGED <<platform, g_init_lock, g_rt_policy, keys, pools, failures>>
      /\ UNCHANGED <<g_is_initialized, posix_task_module_initialized,
                     g_task_module_initialized, g_task_key_valid,
                     g_mutex_initialized, g_sem_initialized>>
      /\ ~g_task_module_initialized /\ g_task_key_valid /\ ~g_is_initialized
      /\ call[t].ret = "SUCCESS" /\ g_rt_enabled' = TRUE /\ probe' = "secured"
      /\ sched' = [sched EXCEPT ![t] = "probe"]
  BY <1>1, <1>2 DEF flags, ProgressOf, FlagsOf, ProbeSucceeds
<1> DEFINE c == [call[t] EXCEPT !.pc = "restore", !.orig = sched[t]]
<1>4. c \in CallType /\ call' = [call EXCEPT ![t] = c]
  <2>1. sched[t] \in {"own", "probe"} /\ call \in [Threads -> CallType]
    BY <1>2, Before DEF SharedTypes
  <2>2. QED
    BY <1>2, <2>1 DEF ProbeSucceeds, CallType, Points
<1>5. /\ c.pc = "restore" /\ c.ret = "SUCCESS" /\ c.failed = call[t].failed
      /\ c.done = call[t].done /\ c.caps = call[t].caps /\ c.orig = sched[t]
  BY <1>2, <1>3 DEF CallType
<1> HIDE DEF c
<1>6. Moves(t, "restore", "SUCCESS") /\ call'[t].orig = sched[t]
  BY <1>4, <1>5, OneCall DEF Moves
<1>7. SharedTypes'
  BY <1>2, <1>3 DEF SharedTypes
<1>8. FlagsOf(t)' /\ KeyAccounted' /\ PoolsReady'
  BY <1>2, <1>3, <1>6 DEF FlagsOf, KeyAccounted, PoolsReady, SettlePoints, Moves
<1>9. ProgressOf(t)'
  BY <1>1, <1>2, <1>3, <1>6 DEF ProgressOf, SettlePoints, Moves
<1>10. TemporaryOf(t)'
  BY <1>1, <1>2, <1>6 DEF TemporaryOf, Moves
<1>11. \A u \in Threads \ {t} : sched'[u] = sched[u]
  BY <1>2, <1>3 DEF SharedTypes
<1>12. QED
  BY <1>1, <1>3, <1>6, <1>7, <1>8, <1>9, <1>10, <1>11, AdvanceKeeps
     DEF InitPoints, SettlePoints

LEMMA ProbeFailsKeeps ==
  ASSUME IInv, NEW t \in Threads, ProbeFails(t)
  PROVE  IInv'
<1>1. PICK error \in Errors : NoRealTime(t, error)
  BY DEF ProbeFails
<1>2. /\ call[t].pc = "probe" /\ probe' = "failed"
      /\ UNCHANGED <<platform, g_init_lock, flags, g_rt_policy, sched, keys, pools, failures>>
  BY DEF ProbeFails, At
<1>3. QED
  BY <1>1, <1>2, NoRealTimeKeeps

LEMMA RestoreKeeps ==
  ASSUME IInv, NEW t \in Threads, Restore(t) \/ RestoreFails(t)
  PROVE  IInv'
<1>1. call[t].pc = "restore" /\ call[t].pc \in InitPoints /\ call[t].pc \in SettlePoints
  BY DEF Restore, RestoreFails, At, InitPoints, SettlePoints
<1>2. /\ SharedTypes /\ call[t] \in CallType /\ KeyAccounted /\ PoolsReady
      /\ ProgressOf(t) /\ TemporaryOf(t) /\ FlagsOf(t)
  BY <1>1, InsideBefore
<1>3. /\ UNCHANGED <<platform, g_init_lock, g_rt_enabled, g_rt_policy, probe, keys, pools,
                     failures>>
      /\ UNCHANGED <<g_is_initialized, posix_task_module_initialized,
                     g_task_module_initialized, g_task_key_valid,
                     g_mutex_initialized, g_sem_initialized>>
      /\ ~g_task_module_initialized /\ g_task_key_valid /\ ~g_is_initialized
      /\ call[t].ret = "SUCCESS" /\ g_rt_enabled /\ probe = "secured"
      /\ HasEnoughLevels(<<g_rt_policy.min, g_rt_policy.max>>)
      /\ call[t].orig = "own" \/ call[t].failed
  BY <1>1, <1>2 DEF flags, rt, ProgressOf, TemporaryOf, FlagsOf, Restore, RestoreFails
<1>4. CASE Restore(t)
  <2>1. /\ Moves(t, "task_done", "SUCCESS")
        /\ sched' = [sched EXCEPT ![t] = call[t].orig]
    BY <1>3, <1>4, GotoMoves DEF Restore, Points
  <2>2. /\ sched' \in [Threads -> {"own", "probe"}] /\ sched'[t] = call[t].orig
        /\ \A u \in Threads \ {t} : sched'[u] = sched[u]
    <3>1. call[t].orig \in {"own", "probe"}
      BY <1>2 DEF CallType
    <3>2. sched \in [Threads -> {"own", "probe"}]
      BY <1>2 DEF SharedTypes
    <3>3. QED
      BY <2>1, <3>1, <3>2
  <2>3. SharedTypes'
    BY <1>2, <1>3, <2>2 DEF SharedTypes
  <2>4. FlagsOf(t)' /\ KeyAccounted' /\ PoolsReady'
    BY <1>2, <1>3, <2>1 DEF FlagsOf, KeyAccounted, PoolsReady, SettlePoints, Moves
  <2>5. RtSettled'
    BY <1>3 DEF RtSettled, HasEnoughLevels
  <2>6. ProgressOf(t)' /\ TemporaryOf(t)'
    BY <1>3, <2>1, <2>2, <2>5 DEF ProgressOf, TemporaryOf, SettlePoints, Moves
  <2>7. QED
    BY <1>1, <1>3, <2>1, <2>2, <2>3, <2>4, <2>6, AdvanceKeeps DEF InitPoints, SettlePoints
<1>5. CASE RestoreFails(t)
  <2>1. Moves(t, "task_fails", "CREATION_FAILED") /\ sched' = sched
    BY <1>5, GotoWithMoves DEF RestoreFails, rt, Points, Statuses, Errors
  <2>2. SharedTypes'
    BY <1>2, <1>3, <2>1 DEF SharedTypes
  <2>3. FlagsOf(t)' /\ KeyAccounted' /\ PoolsReady'
    BY <1>2, <1>3, <2>1 DEF FlagsOf, KeyAccounted, PoolsReady, SettlePoints, Moves
  <2>4. ProgressOf(t)' /\ TemporaryOf(t)'
    BY <1>3, <2>1 DEF ProgressOf, TemporaryOf, SettlePoints, Moves, Errors
  <2>5. QED
    BY <1>1, <1>3, <2>1, <2>2, <2>3, <2>4, AdvanceKeeps DEF InitPoints, SettlePoints
<1>6. QED
  BY <1>4, <1>5

LEMMA TaskFailsKeeps ==
  ASSUME IInv, NEW t \in Threads, TaskFails(t)
  PROVE  IInv'
<1>1. call[t].pc = "task_fails" /\ call[t].pc \in InitPoints /\ call[t].pc \in SettlePoints
  BY DEF TaskFails, At, InitPoints, SettlePoints
<1>2. /\ SharedTypes /\ call[t] \in CallType /\ KeyAccounted /\ PoolsReady
      /\ ProgressOf(t) /\ TemporaryOf(t) /\ FlagsOf(t)
  BY <1>1, InsideBefore
<1>3. /\ UNCHANGED <<platform, g_init_lock, g_rt_enabled, g_rt_policy, probe, sched, pools,
                     failures>>
      /\ UNCHANGED <<g_is_initialized, posix_task_module_initialized,
                     g_task_module_initialized, g_mutex_initialized, g_sem_initialized>>
      /\ ~g_task_module_initialized /\ ~g_is_initialized
      /\ keys = 1 /\ keys' = 0 /\ g_task_key_valid' = FALSE
      /\ call[t].ret \in Errors
  BY <1>1, <1>2 DEF rt, ProgressOf, FlagsOf, KeyAccounted, TaskFails
<1>4. Moves(t, "done", call[t].ret)
  BY GotoMoves DEF TaskFails, Points
<1>5. SharedTypes'
  <2>1. g_task_key_valid' \in BOOLEAN
    BY <1>3
  <2>2. QED
    BY <1>2, <1>3, <2>1 DEF SharedTypes
<1>6. FlagsOf(t)' /\ KeyAccounted' /\ PoolsReady'
  BY <1>2, <1>3 DEF FlagsOf, KeyAccounted, PoolsReady
<1>7. ProgressOf(t)' /\ TemporaryOf(t)'
  BY <1>3, <1>4 DEF ProgressOf, TemporaryOf, SettlePoints, Moves, Errors
<1>8. QED
  BY <1>1, <1>3, <1>4, <1>5, <1>6, <1>7, AdvanceKeeps DEF InitPoints, SettlePoints

LEMMA TaskDoneKeeps ==
  ASSUME IInv, NEW t \in Threads, TaskDone(t)
  PROVE  IInv'
<1>1. call[t].pc = "task_done" /\ call[t].pc \in InitPoints /\ call[t].pc \in SettlePoints
  BY DEF TaskDone, At, InitPoints, SettlePoints
<1>2. /\ SharedTypes /\ call[t] \in CallType /\ KeyAccounted /\ PoolsReady
      /\ ProgressOf(t) /\ TemporaryOf(t) /\ FlagsOf(t)
  BY <1>1, InsideBefore
<1>3. /\ UNCHANGED <<platform, g_init_lock, g_rt_enabled, g_rt_policy, probe, sched, keys,
                     pools, failures>>
      /\ UNCHANGED <<g_is_initialized, g_task_key_valid, g_mutex_initialized,
                     g_sem_initialized>>
      /\ g_task_module_initialized' = TRUE /\ posix_task_module_initialized' = TRUE
      /\ g_task_key_valid /\ ~g_is_initialized /\ RtSettled
      /\ call[t].ret = "SUCCESS"
  BY <1>1, <1>2 DEF rt, ProgressOf, FlagsOf, TaskDone
<1>4. RtSettled'
  BY <1>3 DEF RtSettled, HasEnoughLevels
<1>5. Moves(t, "mutex", "SUCCESS")
  BY <1>3, GotoMoves DEF TaskDone, Points
<1>6. SharedTypes'
  <2>1. g_task_module_initialized' \in BOOLEAN /\ posix_task_module_initialized' \in BOOLEAN
    BY <1>3
  <2>2. QED
    BY <1>2, <1>3, <2>1 DEF SharedTypes
<1>7. FlagsOf(t)' /\ KeyAccounted' /\ PoolsReady'
  BY <1>2, <1>3, <1>4 DEF FlagsOf, KeyAccounted, PoolsReady
<1>8. ProgressOf(t)' /\ TemporaryOf(t)'
  BY <1>1, <1>2, <1>3, <1>5 DEF ProgressOf, TemporaryOf, SettlePoints, Moves
<1>9. QED
  BY <1>1, <1>3, <1>5, <1>6, <1>7, <1>8, AdvanceKeeps DEF InitPoints, SettlePoints

LEMMA MutexPoolKeeps ==
  ASSUME IInv, NEW t \in Threads, MutexPool(t)
  PROVE  IInv'
<1>1. call[t].pc = "mutex" /\ call[t].pc \in InitPoints
  BY DEF MutexPool, At, InitPoints
<1>2. /\ SharedTypes /\ call[t] \in CallType /\ KeyAccounted /\ PoolsReady
      /\ ProgressOf(t) /\ TemporaryOf(t) /\ FlagsOf(t)
  BY <1>1, InsideBefore
<1>3. /\ UNCHANGED <<platform, g_init_lock, g_rt_enabled, g_rt_policy, probe, sched, keys,
                     failures>>
      /\ UNCHANGED <<g_is_initialized, posix_task_module_initialized,
                     g_task_module_initialized, g_task_key_valid, g_sem_initialized>>
      /\ g_mutex_initialized' = TRUE /\ pools' \subseteq pools
      /\ g_task_module_initialized /\ call[t].ret = "SUCCESS"
  BY <1>1, <1>2 DEF rt, ProgressOf, MutexPool
<1>4. RtSettled' = RtSettled
  BY <1>3 DEF RtSettled, HasEnoughLevels
<1>5. Moves(t, "sem", "SUCCESS")
  BY <1>3, GotoMoves DEF MutexPool, Points
<1>6. SharedTypes'
  <2>1. g_mutex_initialized' \in BOOLEAN
    BY <1>3
  <2>2. QED
    BY <1>2, <1>3, <2>1 DEF SharedTypes
<1>7. FlagsOf(t)' /\ KeyAccounted' /\ PoolsReady'
  BY <1>2, <1>3, <1>4 DEF FlagsOf, KeyAccounted, PoolsReady
<1>8. ProgressOf(t)' /\ TemporaryOf(t)'
  BY <1>1, <1>2, <1>3, <1>5 DEF ProgressOf, TemporaryOf, SettlePoints, Moves
<1>9. QED
  BY <1>1, <1>3, <1>5, <1>6, <1>7, <1>8, AdvanceKeeps DEF InitPoints, SettlePoints

LEMMA SemPoolKeeps ==
  ASSUME IInv, NEW t \in Threads, SemPool(t)
  PROVE  IInv'
<1>1. call[t].pc = "sem" /\ call[t].pc \in InitPoints
  BY DEF SemPool, At, InitPoints
<1>2. /\ SharedTypes /\ call[t] \in CallType /\ KeyAccounted /\ PoolsReady
      /\ ProgressOf(t) /\ TemporaryOf(t) /\ FlagsOf(t)
  BY <1>1, InsideBefore
<1>3. /\ UNCHANGED <<platform, g_init_lock, g_rt_enabled, g_rt_policy, probe, sched, keys,
                     failures>>
      /\ UNCHANGED <<g_is_initialized, posix_task_module_initialized,
                     g_task_module_initialized, g_task_key_valid, g_mutex_initialized>>
      /\ g_sem_initialized' = TRUE /\ pools' \subseteq pools
      /\ g_task_module_initialized /\ g_mutex_initialized /\ call[t].ret = "SUCCESS"
  BY <1>1, <1>2 DEF rt, ProgressOf, SemPool
<1>4. RtSettled' = RtSettled
  BY <1>3 DEF RtSettled, HasEnoughLevels
<1>5. Moves(t, "done", "SUCCESS")
  BY <1>3, GotoMoves DEF SemPool, Points
<1>6. SharedTypes'
  <2>1. g_sem_initialized' \in BOOLEAN
    BY <1>3
  <2>2. QED
    BY <1>2, <1>3, <2>1 DEF SharedTypes
<1>7. FlagsOf(t)' /\ KeyAccounted' /\ PoolsReady'
  BY <1>2, <1>3, <1>4 DEF FlagsOf, KeyAccounted, PoolsReady
<1>8. ProgressOf(t)' /\ TemporaryOf(t)'
  BY <1>1, <1>2, <1>3, <1>5 DEF ProgressOf, TemporaryOf, SettlePoints, Moves
<1>9. QED
  BY <1>1, <1>3, <1>5, <1>6, <1>7, <1>8, AdvanceKeeps DEF InitPoints, SettlePoints

LEMMA DoneKeeps ==
  ASSUME IInv, NEW t \in Threads, Done(t)
  PROVE  IInv'
<1>1. call[t].pc = "done" /\ call[t].pc \in InitPoints
  BY DEF Done, At, InitPoints
<1>2. /\ SharedTypes /\ call[t] \in CallType /\ KeyAccounted /\ PoolsReady
      /\ ProgressOf(t) /\ TemporaryOf(t) /\ FlagsOf(t)
  BY <1>1, InsideBefore
<1>3. /\ UNCHANGED <<platform, g_init_lock, g_rt_enabled, g_rt_policy, probe, sched, keys,
                     pools, failures>>
      /\ UNCHANGED <<posix_task_module_initialized, g_task_module_initialized,
                     g_task_key_valid, g_mutex_initialized, g_sem_initialized>>
      /\ g_is_initialized' = (g_is_initialized \/ call[t].ret = "SUCCESS")
      /\ call[t].ret # "none" /\ call[t].ret \in Statuses
      /\ call[t].ret = "SUCCESS" =>
           g_task_module_initialized /\ g_mutex_initialized /\ g_sem_initialized
  BY <1>1, <1>2 DEF rt, ProgressOf, Done, CallType
<1>4. RtSettled' = RtSettled
  BY <1>3 DEF RtSettled, HasEnoughLevels
<1>5. Moves(t, "leave", call[t].ret)
  BY <1>3, GotoMoves DEF Done, Points
<1>6. SharedTypes'
  <2>1. g_is_initialized' \in BOOLEAN
    BY <1>3
  <2>2. QED
    BY <1>2, <1>3, <2>1 DEF SharedTypes
<1>7. FlagsOf(t)' /\ KeyAccounted' /\ PoolsReady'
  BY <1>1, <1>2, <1>3, <1>4 DEF FlagsOf, KeyAccounted, PoolsReady, SettlePoints
<1>8. ProgressOf(t)' /\ TemporaryOf(t)'
  BY <1>1, <1>2, <1>3, <1>5 DEF ProgressOf, TemporaryOf, SettlePoints, Moves
<1>9. QED
  BY <1>1, <1>3, <1>5, <1>6, <1>7, <1>8, AdvanceKeeps DEF InitPoints, SettlePoints

LEMMA LeaveKeeps ==
  ASSUME IInv, NEW t \in Threads, Leave(t)
  PROVE  IInv'
<1>1. call[t].pc = "leave" /\ call[t].pc \in InitPoints
  BY DEF Leave, At, InitPoints
<1>2. /\ SharedTypes /\ call[t] \in CallType /\ KeyAccounted /\ PoolsReady
      /\ ProgressOf(t) /\ TemporaryOf(t) /\ UserReady(t) /\ FlagsOf(t) /\ g_init_lock = t
  BY <1>1, InsideBefore
<1>3. /\ UNCHANGED <<platform, g_rt_enabled, g_rt_policy, probe, sched, keys, pools>>
      /\ UNCHANGED <<g_is_initialized, posix_task_module_initialized,
                     g_task_module_initialized, g_task_key_valid, g_mutex_initialized,
                     g_sem_initialized>>
      /\ g_init_lock' = NoThread /\ failures' \in {failures, failures + 1}
  BY DEF rt, flags, Leave
<1> DEFINE success == call[t].ret = "SUCCESS"
           c == [call[t] EXCEPT !.pc = "idle", !.ret = "none",
                                !.done = @ \/ success, !.failed = @ \/ ~success]
<1>4. c \in CallType /\ call' = [call EXCEPT ![t] = c]
  <2>1. call \in [Threads -> CallType]
    BY Before
  <2>2. QED
    BY <1>2, <2>1 DEF Leave, CallType, Points, Statuses
<1>5. /\ c.pc = "idle" /\ c.ret = "none" /\ c.caps = call[t].caps
      /\ c.done = (call[t].done \/ success)
      /\ c.failed = (call[t].failed \/ ~success)
  BY <1>2 DEF CallType
<1> HIDE DEF c
<1>6. /\ call' \in [Threads -> CallType] /\ call'[t] = c
      /\ \A u \in Threads \ {t} : call'[u] = call[u]
  BY <1>4, OneCall
<1>7. SharedTypes'
  BY <1>2, <1>3 DEF SharedTypes
<1>8. FlagsOf(t)' /\ KeyAccounted' /\ PoolsReady'
  BY <1>1, <1>2, <1>3 DEF FlagsOf, KeyAccounted, PoolsReady, SettlePoints, RtSettled,
                          HasEnoughLevels
<1>9. ProgressOf(t)'
  BY <1>5, <1>6 DEF ProgressOf, SettlePoints
<1>10. TemporaryOf(t)'
  BY <1>1, <1>2, <1>3, <1>5, <1>6 DEF TemporaryOf, Errors
<1>11. UserReady(t)'
  BY <1>1, <1>2, <1>3, <1>5, <1>6 DEF UserReady, ProgressOf, At
<1>12. QED
  BY <1>2, <1>3, <1>5, <1>6, <1>7, <1>8, <1>9, <1>10, <1>11, InitStepKeeps
     DEF InitPoints, SettlePoints

-----------------------------------------------------------------------------
(* The steps outside AOS_Init *)

LEMMA OutsideKeeps ==
  ASSUME IInv, NEW t \in Threads,
         Enter(t) \/ CapsCheck(t) \/ CapsReport(t) \/ CreateTask(t) \/ CreateObject(t)
  PROVE  IInv'
<1>1. /\ SharedTypes /\ call \in [Threads -> CallType] /\ call[t] \in CallType
      /\ PoolsReady /\ UserReady(t) /\ ReportStands(t)
  BY Before
<1>2. /\ call[t].pc \in {"idle", "caps"}
      /\ UNCHANGED <<platform, g_init_lock, flags, rt, keys, failures>>
  BY DEF Enter, CapsCheck, CapsReport, CreateTask, CreateObject, At
<1>3. UNCHANGED <<g_is_initialized, g_task_module_initialized, g_rt_enabled>>
  BY <1>2 DEF flags, rt
<1>4. call[t].pc \notin InitPoints
  BY <1>2 DEF InitPoints, SettlePoints
<1>5. CASE Enter(t) \/ CapsCheck(t)
  <2>1. PICK point \in {"enter", "caps"} :
          /\ Goto(t, point) /\ (point = "caps" => g_is_initialized) /\ pools' = pools
    BY <1>5 DEF Enter, CapsCheck
  <2>2. Moves(t, point, call[t].ret)
    BY <2>1, GotoMoves DEF Points
  <2>3. PoolsReady' /\ UserReady(t)' /\ ReportStands(t)'
    BY <1>1, <1>3, <2>1, <2>2 DEF PoolsReady, UserReady, ReportStands, Moves, At
  <2>4. call'[t].pc \notin InitPoints
    BY <2>2 DEF Moves, InitPoints, SettlePoints
  <2>5. pools' \subseteq {"task", "mutex", "sem"}
    BY <1>1, <2>1 DEF SharedTypes
  <2>6. QED
    BY <1>2, <1>4, <2>2, <2>3, <2>4, <2>5, OutsideStepKeeps DEF Moves
<1>6. CASE CapsReport(t)
  <2> DEFINE c == [call[t] EXCEPT !.pc = "idle",
                                  !.caps = IF g_rt_enabled THEN "rt" ELSE "no rt"]
  <2>1. c \in CallType /\ call' = [call EXCEPT ![t] = c] /\ pools' = pools
        /\ call[t].pc = "caps"
    BY <1>1, <1>6 DEF CapsReport, CallType, Points, At
  <2>2. /\ c.pc = "idle" /\ c.done = call[t].done /\ c.failed = call[t].failed
        /\ c.caps = IF g_rt_enabled THEN "rt" ELSE "no rt"
    BY <1>1 DEF CallType
  <2> HIDE DEF c
  <2>3. /\ call' \in [Threads -> CallType] /\ call'[t] = c
        /\ \A u \in Threads \ {t} : call'[u] = call[u]
    BY <2>1, OneCall
  <2>4. PoolsReady' /\ UserReady(t)' /\ ReportStands(t)'
    BY <1>1, <1>3, <2>1, <2>2, <2>3 DEF PoolsReady, UserReady, ReportStands, At
  <2>5. call'[t].pc \notin InitPoints
    BY <2>2, <2>3 DEF InitPoints, SettlePoints
  <2>6. pools' \subseteq {"task", "mutex", "sem"}
    BY <1>1, <2>1 DEF SharedTypes
  <2>7. QED
    BY <1>2, <1>4, <2>2, <2>3, <2>4, <2>5, <2>6, OutsideStepKeeps
<1>7. CASE CreateTask(t) \/ CreateObject(t)
  <2>1. call' = call
    BY <1>7 DEF CreateTask, CreateObject
  <2>2. /\ pools' \subseteq {"task", "mutex", "sem"}
        /\ "task" \in pools' => "task" \in pools \/ g_task_module_initialized
    <3>1. pools \subseteq {"task", "mutex", "sem"}
      BY <1>1 DEF SharedTypes
    <3>2. CASE CreateTask(t)
      BY <3>1, <3>2 DEF CreateTask
    <3>3. CASE CreateObject(t)
      <4>1. PICK kind \in {"mutex", "sem"} : pools' = pools \cup {kind}
        BY <3>3 DEF CreateObject
      <4>2. QED
        BY <3>1, <4>1
    <3>4. QED
      BY <1>7, <3>2, <3>3
  <2>3. PoolsReady'
    BY <1>1, <1>3, <2>2 DEF PoolsReady
  <2>4. UserReady(t)' /\ ReportStands(t)'
    BY <1>1, <1>3, <2>1 DEF UserReady, ReportStands, At
  <2>5. QED
    BY <1>1, <1>2, <1>4, <2>1, <2>2, <2>3, <2>4, OutsideStepKeeps
<1>8. QED
  BY <1>5, <1>6, <1>7

-----------------------------------------------------------------------------
(* The theorems *)

LEMMA InitKeeps ==
  ASSUME Init
  PROVE  IInv
<1>1. /\ call \in [Threads -> CallType]
      /\ \A t \in Threads :
           /\ call[t].pc = "idle" /\ call[t].caps = "none"
           /\ ~call[t].done /\ sched[t] = "own"
  BY DEF Init, CallType, Points, Statuses
<1>2. SharedTypes
  <2>1. {g_is_initialized, posix_task_module_initialized, g_task_module_initialized,
         g_task_key_valid, g_mutex_initialized, g_sem_initialized, g_rt_enabled}
          \subseteq BOOLEAN
    BY DEF Init
  <2>2. /\ platform \in [required : BOOLEAN, fifo : Ranges, rr : Ranges]
        /\ g_init_lock = NoThread /\ g_rt_policy = NoPolicy /\ keys = 0 /\ pools = {}
        /\ probe = "none" /\ failures = 0 /\ sched = [t \in Threads |-> "own"]
    BY DEF Init
  <2>3. QED
    BY <2>1, <2>2 DEF SharedTypes
<1>3. LockHeld
  BY <1>1, InitAssumption DEF Init, LockHeld, InitPoints, SettlePoints
<1>4. FlagsOrdered /\ KeyAccounted
  BY DEF Init, FlagsOrdered, KeyAccounted
<1>5. CallProgress /\ ProbeTemporary
  BY <1>1 DEF CallProgress, ProbeTemporary, SettlePoints
<1>6. UsesReady /\ ReportsStand
  BY <1>1 DEF Init, UsesReady, ReportsStand, At
<1>7. QED
  BY <1>1, <1>2, <1>3, <1>4, <1>5, <1>6 DEF IInv, TypeOK

LEMMA StutterKeeps ==
  ASSUME IInv, UNCHANGED vars
  PROVE  IInv'
<1>1. /\ UNCHANGED <<platform, g_init_lock, keys, pools, call, failures, probe, sched,
                     g_rt_enabled, g_rt_policy, g_is_initialized>>
      /\ UNCHANGED <<posix_task_module_initialized, g_task_module_initialized,
                     g_task_key_valid, g_mutex_initialized, g_sem_initialized>>
  BY DEF vars, flags, rt
<1>2. TypeOK' /\ LockHeld' /\ KeyAccounted'
  BY <1>1 DEF IInv, TypeOK, SharedTypes, LockHeld, KeyAccounted
<1>3. FlagsOrdered'
  BY <1>1 DEF IInv, FlagsOrdered, RtSettled, HasEnoughLevels
<1>4. CallProgress'
  BY <1>1 DEF IInv, CallProgress, RtSettled, HasEnoughLevels
<1>5. UsesReady' /\ ReportsStand' /\ ProbeTemporary'
  BY <1>1 DEF IInv, UsesReady, ReportsStand, ProbeTemporary, At
<1>6. QED
  BY <1>2, <1>3, <1>4, <1>5 DEF IInv

LEMMA NextKeeps ==
  ASSUME IInv, [Next]_vars
  PROVE  IInv'
<1>1. ASSUME NEW t \in Threads, InitStep(t)
      PROVE  IInv'
  BY <1>1, TakeInitLockKeeps, TaskPoolKeeps, ChoosePolicyKeeps, ProbeSucceedsKeeps,
     ProbeFailsKeeps, RestoreKeeps, TaskFailsKeeps, TaskDoneKeeps, MutexPoolKeeps,
     SemPoolKeeps, DoneKeeps, LeaveKeeps, Zenon DEF InitStep
<1>2. QED
  BY <1>1, OutsideKeeps, StutterKeeps, Zenon DEF Next

(* The invariant holds in every state: the flags are set in order, one     *)
(* call of AOS_Init runs at a time, and no task exists and nobody is told  *)
(* that the OSAL is ready before it is.                                    *)
THEOREM InitInvariant == Spec => []IInv
<1>1. Init => IInv
  BY InitKeeps
<1>2. IInv /\ [Next]_vars => IInv'
  BY NextKeeps
<1>3. QED
  BY <1>1, <1>2, PTL DEF Spec

(* Whoever finds the OSAL initialised finds all of it ready.               *)
THEOREM InitReady == Spec => []InitializedIsReady
<1>1. IInv => InitializedIsReady
  BY DEF IInv, FlagsOrdered, RtSettled, InitializedIsReady
<1>2. QED
  BY <1>1, InitInvariant, PTL

(* No native key is lost or left behind by calls that fail.                *)
THEOREM InitKeys == Spec => []KeyAccounted
<1>1. IInv => KeyAccounted
  BY DEF IInv
<1>2. QED
  BY <1>1, InitInvariant, PTL

(* Once the task module is ready, the mapping of the priorities separates  *)
(* them within the range of the policy, whatever range the platform has.   *)
THEOREM InitPriorities == Spec => []PrioritiesSeparate
<1>1. IInv => PrioritiesSeparate
  <2>1. SUFFICES ASSUME IInv, g_task_module_initialized, g_rt_enabled
                 PROVE  LET native(p) == MapPriority(g_rt_policy.min, g_rt_policy.max, p)
                        IN  /\ \A p \in AosPriorities :
                                 native(p) \in g_rt_policy.min .. g_rt_policy.max
                            /\ \A p, q \in AosPriorities : p < q => native(p) > native(q)
    BY DEF PrioritiesSeparate
  <2>2. PolicyHasEnoughLevels(g_rt_policy.min, g_rt_policy.max)
    BY <2>1 DEF IInv, FlagsOrdered, RtSettled, HasEnoughLevels
  <2>3. /\ g_rt_policy.min \in Int /\ g_rt_policy.max \in Int
        /\ IsRange(g_rt_policy.min, g_rt_policy.max)
    <3>1. g_rt_policy \in {NoPolicy} \cup
            {Policy(name, range) : name \in {"SCHED_FIFO", "SCHED_RR"}, range \in Ranges}
      BY <2>1 DEF IInv, TypeOK, SharedTypes
    <3>2. IsRange(0, 0)
      BY PriorityAssumption DEF IsRange, AOS_TASK_PRIORITY_LOWEST,
                                AOS_CONFIG_TASK_PRIORITY_LEVELS
    <3>3. CASE g_rt_policy = NoPolicy
      BY <3>2, <3>3 DEF NoPolicy
    <3>4. ASSUME NEW name, NEW range \in Ranges, g_rt_policy = Policy(name, range)
          PROVE  IsRange(g_rt_policy.min, g_rt_policy.max)
      BY <3>4, InitAssumption DEF Policy
    <3>5. IsRange(g_rt_policy.min, g_rt_policy.max)
      BY <3>1, <3>3, <3>4
    <3>6. QED
      BY <3>5 DEF IsRange
  <2>4. QED
    BY <2>2, <2>3, MappingInRange, MappingSeparates
<1>2. QED
  BY <1>1, InitInvariant, PTL

(* What AOS_GetCapabilities has told anybody stays true.                   *)
THEOREM InitReports == Spec => []ReportsStand
<1>1. IInv => ReportsStand
  BY DEF IInv
<1>2. QED
  BY <1>1, InitInvariant, PTL

(* The probe is temporary: a thread that saw no AOS_Init fail has its own  *)
(* scheduling again when the call returns.                                 *)
THEOREM InitScheduling == Spec => []SchedulingRestored
<1>1. IInv => SchedulingRestored
  BY DEF IInv, ProbeTemporary, SchedulingRestored, At
<1>2. QED
  BY <1>1, InitInvariant, PTL

(* No call of AOS_Init zeroes a pool that holds tasks, or any pool once    *)
(* the OSAL is initialised, however many calls fail and are tried again.   *)
THEOREM InitObjects == Spec => ObjectsKept
<1> DEFINE Keeps == /\ "task" \in pools => "task" \in pools'
                    /\ g_is_initialized => pools \subseteq pools'
<1>1. ASSUME IInv, Next
      PROVE  Keeps
  <2>1. PICK t \in Threads :
          \/ Enter(t) \/ InitStep(t) \/ CapsCheck(t) \/ CapsReport(t)
          \/ CreateTask(t) \/ CreateObject(t)
    BY <1>1, Zenon DEF Next
  <2>2. PoolsReady /\ FlagsOrdered
    BY <1>1, Before DEF IInv
  <2>3. CASE TaskPool(t)
    BY <2>2, <2>3 DEF TaskPool, PoolsReady, FlagsOrdered
  <2>4. CASE MutexPool(t)
    BY <2>2, <2>4 DEF MutexPool, FlagsOrdered
  <2>5. CASE SemPool(t)
    BY <2>2, <2>5 DEF SemPool, FlagsOrdered
  <2>6. CASE CreateTask(t) \/ CreateObject(t)
    <3>1. pools \subseteq pools'
      BY <2>6, Zenon DEF CreateTask, CreateObject
    <3>2. QED
      BY <3>1
  <2>7. CASE Enter(t) \/ CapsCheck(t) \/ CapsReport(t)
    BY <2>7 DEF Enter, CapsCheck, CapsReport
  <2>8. CASE TakeInitLock(t) \/ ChoosePolicy(t) \/ ProbeSucceeds(t) \/ ProbeFails(t)
             \/ Restore(t) \/ RestoreFails(t) \/ TaskFails(t) \/ TaskDone(t)
             \/ Done(t) \/ Leave(t)
    <3>1. pools' = pools
      BY <2>8, Zenon DEF TakeInitLock, ChoosePolicy, ProbeSucceeds, ProbeFails, Restore,
                         RestoreFails, TaskFails, TaskDone, Done, Leave
    <3>2. QED
      BY <3>1
  <2>9. QED
    BY <2>1, <2>3, <2>4, <2>5, <2>6, <2>7, <2>8, Zenon DEF InitStep
<1>2. IInv /\ [Next]_vars => [Keeps]_vars
  BY <1>1
<1>3. QED
  BY <1>2, InitInvariant, PTL DEF Spec, ObjectsKept

(* Scheduling is settled before the first task can exist.                  *)
THEOREM InitSettles == Spec => SchedulingSettled
<1>1. ASSUME IInv, Next, g_task_module_initialized
      PROVE  UNCHANGED <<g_rt_enabled, g_rt_policy>>
  <2>1. PICK t \in Threads :
          \/ Enter(t) \/ InitStep(t) \/ CapsCheck(t) \/ CapsReport(t)
          \/ CreateTask(t) \/ CreateObject(t)
    BY <1>1, Zenon DEF Next
  <2>2. call[t].pc \notin SettlePoints
    BY <1>1, Before DEF ProgressOf
  <2>3. CASE ChoosePolicy(t) \/ ProbeSucceeds(t) \/ ProbeFails(t) \/ Restore(t)
             \/ RestoreFails(t) \/ TaskFails(t) \/ TaskDone(t)
    BY <2>2, <2>3 DEF ChoosePolicy, ProbeSucceeds, ProbeFails, Restore, RestoreFails,
                      TaskFails, TaskDone, At, SettlePoints
  <2>4. CASE Enter(t) \/ TakeInitLock(t) \/ TaskPool(t) \/ MutexPool(t) \/ SemPool(t)
             \/ Done(t) \/ Leave(t) \/ CapsCheck(t) \/ CapsReport(t)
             \/ CreateTask(t) \/ CreateObject(t)
    <3>1. UNCHANGED rt \/ UNCHANGED <<g_rt_enabled, g_rt_policy>>
      BY <2>4, Zenon DEF Enter, TakeInitLock, TaskPool, MutexPool, SemPool, Done, Leave,
                         CapsCheck, CapsReport, CreateTask, CreateObject
    <3>2. QED
      BY <3>1 DEF rt
  <2>5. QED
    BY <2>1, <2>3, <2>4, Zenon DEF InitStep
<1>2. IInv /\ [Next]_vars =>
        [g_task_module_initialized => UNCHANGED <<g_rt_enabled, g_rt_policy>>]_vars
  BY <1>1
<1>3. QED
  BY <1>2, InitInvariant, PTL DEF Spec, SchedulingSettled

==============================================================================
