------------------------------- MODULE AosTime -------------------------------
(***************************************************************************)
(* The clocks: AOS_TimeGet, AOS_TaskDelay, and the deadlines of            *)
(* AOS_SemTimedWait and AOS_MutexTimedLock.                                *)
(*                                                                         *)
(* Delays and readings use CLOCK_MONOTONIC, timed waits CLOCK_REALTIME,    *)
(* which anybody may set.  A deadline is computed once, when the call      *)
(* reads its clock, and the native call then waits until the clock reaches *)
(* it.  Time is counted in nanoseconds; the sizes of the other units are   *)
(* constants.  Seconds are 64 bits wide and do not overflow.               *)
(***************************************************************************)
EXTENDS Integers

CONSTANTS
  NsPerUs, UsPerMs, MsPerSec,  (* 1000 each                                *)
  Threads,        (* threads that call the API                             *)
  Timeouts,       (* the durations in ms that they ask for                 *)
  MaxTime,        (* bound on the monotonic clock                          *)
  MaxShift,       (* bound on the distance between the two clocks          *)
  MaxSettings,    (* bound on the settings of the wall clock               *)
  MaxInterrupts   (* bound on the interruptions of a call by signals       *)

NsPerMs  == NsPerUs * UsPerMs
UsPerSec == UsPerMs * MsPerSec
NsPerSec == NsPerMs * MsPerSec

ASSUME TimeAssumption ==
  /\ {NsPerUs, UsPerMs, MsPerSec} \subseteq Nat \ {0}
  /\ Timeouts \subseteq Nat
  /\ {MaxTime, MaxShift, MaxSettings, MaxInterrupts} \subseteq Nat

VARIABLES
  mono,      (* CLOCK_MONOTONIC                                            *)
  wall,      (* CLOCK_REALTIME                                             *)
  settings,  (* history: how often the wall clock was set                  *)
  call       (* per thread: the call it is in, and what it was told        *)

vars == <<mono, wall, settings, call>>

-----------------------------------------------------------------------------
(* struct timespec *)

Timespecs == [sec : Nat, nsec : 0 .. NsPerSec - 1]

(* What clock_gettime answers when a clock has run for ns nanoseconds.     *)
ClockGettime(ns) == [sec |-> ns \div NsPerSec, nsec |-> ns % NsPerSec]

ToNs(ts) == ts.sec * NsPerSec + ts.nsec

(* Mutants: the carry into the seconds is lost, or applied too late.       *)
DeadlineNoCarry(now, ms) ==
  LET additional_ns == (ms % MsPerSec) * NsPerMs + now.nsec
  IN  [sec  |-> now.sec + ms \div MsPerSec, nsec |-> additional_ns % NsPerSec]

DelayDeadlineLateCarry(now, ms) ==
  LET sec  == now.sec + ms \div MsPerSec
      nsec == now.nsec + (ms % MsPerSec) * NsPerMs
  IN  IF nsec > NsPerSec
        THEN [sec |-> sec + 1, nsec |-> nsec - NsPerSec]
        ELSE [sec |-> sec, nsec |-> nsec]

(* AOS_SemTimedWait and AOS_MutexTimedLock *)
Deadline(now, ms) ==
  LET additional_ns == (ms % MsPerSec) * NsPerMs + now.nsec
  IN  [sec  |-> now.sec + ms \div MsPerSec + additional_ns \div NsPerSec,
       nsec |-> additional_ns % NsPerSec]

(* AOS_TaskDelay *)
DelayDeadline(now, ms) ==
  LET sec  == now.sec + ms \div MsPerSec
      nsec == now.nsec + (ms % MsPerSec) * NsPerMs
  IN  IF nsec >= NsPerSec
        THEN [sec |-> sec + 1, nsec |-> nsec - NsPerSec]
        ELSE [sec |-> sec, nsec |-> nsec]

(* Mutant: the seconds are scaled to milliseconds. *)
MicrosecondsWrongUnit(now) == now.sec * MsPerSec + now.nsec \div NsPerUs

(* AOS_TimeGet *)
Microseconds(now) == now.sec * UsPerSec + now.nsec \div NsPerUs

-----------------------------------------------------------------------------
Ops == {"TaskDelay", "SemTimedWait", "MutexTimedLock"}

(* shift and interrupts are histories: by how much the clock of the call   *)
(* was set meanwhile, and how many signals came.                           *)
Idle == [op |-> "none", ms |-> 0, start |-> 0, deadline |-> ClockGettime(0),
         shift |-> 0, interrupts |-> 0]

Clock(op) == IF op = "TaskDelay" THEN mono ELSE wall

Init ==
  /\ mono = 0
  /\ wall \in 0 .. MaxShift
  /\ settings = 0
  /\ call = [t \in Threads |-> [wait |-> Idle, now_us |-> 0]]

Waits(t) == call[t].wait # Idle

DeadlineOf(op, ms) ==
  LET now == ClockGettime(Clock(op))
  IN  IF op = "TaskDelay" THEN DelayDeadline(now, ms) ELSE Deadline(now, ms)

(* The call reads its clock and computes its deadline.  MaxTime leaves it  *)
(* the time to reach it.                                                   *)
Begin(t, op, ms) ==
  /\ ~Waits(t)
  /\ mono + ms * NsPerMs + 2 * MaxShift <= MaxTime
  /\ call' = [call EXCEPT ![t].wait =
       [op |-> op, ms |-> ms, start |-> mono, deadline |-> DeadlineOf(op, ms),
        shift |-> 0, interrupts |-> 0]]
  /\ UNCHANGED <<mono, wall, settings>>

Reached(t) == Clock(call[t].wait.op) >= ToNs(call[t].wait.deadline)

(* Mutant: the retry loop of AOS_SemTimedWait goes on at ETIMEDOUT too.    *)
ExpireRetried(t) ==
  /\ Waits(t)
  /\ Reached(t)
  /\ call[t].wait.op # "SemTimedWait"
  /\ call' = [call EXCEPT ![t].wait = Idle]
  /\ UNCHANGED <<mono, wall, settings>>

(* ETIMEDOUT, or the end of a delay.                                       *)
Expire(t) ==
  /\ Waits(t)
  /\ Reached(t)
  /\ call' = [call EXCEPT ![t].wait = Idle]
  /\ UNCHANGED <<mono, wall, settings>>

(* The token or the mutex arrives first. *)
Succeed(t) ==
  /\ call[t].wait.op \in {"SemTimedWait", "MutexTimedLock"}
  /\ call' = [call EXCEPT ![t].wait = Idle]
  /\ UNCHANGED <<mono, wall, settings>>

(* Mutant: the retry computes a new deadline.                              *)
InterruptRestarts(t) ==
  /\ call[t].wait.op \in {"TaskDelay", "SemTimedWait"}
  /\ call[t].wait.interrupts < MaxInterrupts
  /\ call' = [call EXCEPT ![t].wait.interrupts = @ + 1,
                          ![t].wait.deadline = DeadlineOf(call[t].wait.op, call[t].wait.ms)]
  /\ UNCHANGED <<mono, wall, settings>>

(* EINTR: the native call is made again, with the same deadline.           *)
Interrupt(t) ==
  /\ call[t].wait.op \in {"TaskDelay", "SemTimedWait"}
  /\ call[t].wait.interrupts < MaxInterrupts
  /\ call' = [call EXCEPT ![t].wait.interrupts = @ + 1]
  /\ UNCHANGED <<mono, wall, settings>>

TimeGet(t) ==
  /\ ~Waits(t)
  /\ call' = [call EXCEPT ![t].now_us = Microseconds(ClockGettime(mono))]
  /\ UNCHANGED <<mono, wall, settings>>

Tick ==
  /\ mono < MaxTime
  /\ mono' = mono + 1
  /\ wall' = wall + 1
  /\ UNCHANGED <<settings, call>>

(* Somebody sets the wall clock. *)
SetClock ==
  /\ settings < MaxSettings
  /\ settings' = settings + 1
  /\ wall' \in {w \in mono - MaxShift .. mono + MaxShift : w >= 0}
  /\ call' = [t \in Threads |->
       IF Waits(t) /\ call[t].wait.op # "TaskDelay"
         THEN [call[t] EXCEPT !.wait.shift = @ + (wall' - wall)]
         ELSE call[t]]
  /\ UNCHANGED mono

Next ==
  \/ Tick \/ SetClock
  \/ \E t \in Threads :
       \/ \E op \in Ops, ms \in Timeouts : Begin(t, op, ms)
       \/ Expire(t) \/ Succeed(t) \/ Interrupt(t) \/ TimeGet(t)

Spec == Init /\ [][Next]_vars

(* Time goes on, and a thread whose deadline has come is woken up.         *)
FairSpec == Spec /\ WF_vars(Tick) /\ \A t \in Threads : WF_vars(Expire(t))

-----------------------------------------------------------------------------
(* Properties *)

WaitType == [op : Ops \cup {"none"}, ms : Timeouts \cup {0}, start : Nat,
             deadline : Timespecs, shift : Int, interrupts : Nat]

(* Clocks, calls and deadlines keep their types; a deadline is normalised, *)
(* or the native call would refuse it with EINVAL.                         *)
TypeOK ==
  /\ mono \in Nat /\ wall \in Nat /\ settings \in Nat
  /\ call \in [Threads -> [wait : WaitType, now_us : Nat]]

(* The deadline stays where the call put it: the time of its clock at the  *)
(* start, plus the duration asked for, whatever signals interrupt the      *)
(* call.  shift says how much later that clock's start would read now.     *)
DeadlineExact ==
  \A t \in Threads :
    Waits(t) =>
      LET c == call[t].wait
      IN  ToNs(c.deadline) =
            c.start + (Clock(c.op) - mono - c.shift) + c.ms * NsPerMs

(* No delay ends and no timed wait times out early, save by the amount     *)
(* that the wall clock was set forward during the wait; delays, which are  *)
(* on the monotonic clock, are never early.                                *)
NeverEarly ==
  \A t \in Threads :
    Waits(t) /\ Reached(t) =>
      mono - call[t].wait.start + call[t].wait.shift >= call[t].wait.ms * NsPerMs

(* "Guaranteed non-decreasing" (aos_osal.h), and microseconds.             *)
ReadingsGrow ==
  [][\A t \in Threads :
       /\ call'[t].now_us >= call[t].now_us
       /\ call'[t].now_us # call[t].now_us => call'[t].now_us = mono \div NsPerUs]_vars

(* No reading is ahead of the clock. *)
ReadingsPast == \A t \in Threads : call[t].now_us <= mono \div NsPerUs

(* The invariant that every step keeps. *)
IInv == TypeOK /\ DeadlineExact /\ ReadingsPast

(* The wait is bounded: every delay and timed wait returns, although the   *)
(* clock may be set back meanwhile.                                        *)
WaitReturns == \A t \in Threads : Waits(t) ~> ~Waits(t)

=============================================================================
