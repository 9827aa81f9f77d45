---------------------------- MODULE AosTimeProofs ----------------------------
(***************************************************************************)
(* The arithmetic of deadlines and readings is exact for every time, every *)
(* duration and every size of the units; so the deadlines that AosTime     *)
(* keeps are where they should be, and nothing wakes early.                *)
(***************************************************************************)
EXTENDS AosTime, TLAPS

(* The units are positive. *)
LEMMA Units ==
  /\ NsPerUs \in Nat \ {0} /\ UsPerMs \in Nat \ {0} /\ MsPerSec \in Nat \ {0}
  /\ NsPerMs \in Nat \ {0} /\ UsPerSec \in Nat \ {0} /\ NsPerSec \in Nat \ {0}
<1>1. NsPerUs \in Nat \ {0} /\ UsPerMs \in Nat \ {0} /\ MsPerSec \in Nat \ {0}
  BY TimeAssumption
<1>2. \A a, b \in Nat \ {0} : a * b \in Nat \ {0}
  OBVIOUS
<1>3. NsPerMs \in Nat \ {0} /\ UsPerSec \in Nat \ {0}
  BY <1>1, <1>2 DEF NsPerMs, UsPerSec
<1>4. NsPerSec \in Nat \ {0}
  BY <1>1, <1>2, <1>3 DEF NsPerSec
<1>5. QED
  BY <1>1, <1>3, <1>4

(* Quotient and remainder of a natural number. *)
LEMMA DivMod ==
  ASSUME NEW a \in Nat, NEW b \in Nat \ {0}
  PROVE  /\ a \div b \in Nat /\ a % b \in 0 .. b - 1
         /\ a = b * (a \div b) + (a % b)
<1>1. a \div b \in Int /\ a % b \in 0 .. b - 1
  OBVIOUS
<1>2. a = b * (a \div b) + (a % b)
  OBVIOUS
<1>3. a \div b \in Nat
  <2>1. SUFFICES ASSUME a \div b < 0 PROVE FALSE
    BY <1>1
  <2>2. PICK d \in Nat : a \div b = -1 - d
    <3>1. -1 - (a \div b) \in Nat /\ a \div b = -1 - (-1 - (a \div b))
      BY <1>1, <2>1
    <3>2. QED
      BY <3>1
  <2>3. b * d \in Nat
    OBVIOUS
  <2>4. b * (-1 - d) = -b - b * d
    OBVIOUS
  <2>5. QED
    BY <1>1, <1>2, <2>2, <2>3, <2>4
<1>4. QED
  BY <1>1, <1>2, <1>3

(* The quotient is the only one. *)
LEMMA DivUnique ==
  ASSUME NEW q \in Nat, NEW b \in Nat \ {0}, NEW r \in 0 .. b - 1
  PROVE  (q * b + r) \div b = q /\ (q * b + r) % b = r
<1> DEFINE a == q * b + r
           k == a \div b
           m == a % b
<1>0. q * b \in Nat
  OBVIOUS
<1>1. a \in Nat
  BY <1>0
<1>2. k \in Nat /\ m \in 0 .. b - 1 /\ a = b * k + m
  BY <1>1, DivMod
<1> HIDE DEF k, m
<1>3. ~ k > q
  <2>1. SUFFICES ASSUME k > q PROVE FALSE
    OBVIOUS
  <2>2. PICK d \in Nat : k = q + 1 + d
    <3>1. k - q - 1 \in Nat /\ k = q + 1 + (k - q - 1)
      BY <1>2, <2>1
    <3>2. QED
      BY <3>1
  <2>3. b * d \in Nat
    BY <2>2
  <2>4. b * (q + 1 + d) = q * b + b + b * d
    BY <2>2
  <2>5. QED
    BY <1>0, <1>2, <2>2, <2>3, <2>4
<1>4. ~ k < q
  <2>1. SUFFICES ASSUME k < q PROVE FALSE
    OBVIOUS
  <2>2. PICK d \in Nat : q = k + 1 + d
    <3>1. q - k - 1 \in Nat /\ q = k + 1 + (q - k - 1)
      BY <1>2, <2>1
    <3>2. QED
      BY <3>1
  <2>3. b * d \in Nat /\ b * k \in Nat
    BY <1>2, <2>2
  <2>4. (k + 1 + d) * b = b * k + b + b * d
    BY <1>2, <2>2
  <2>5. QED
    BY <1>0, <1>2, <2>2, <2>3, <2>4
<1>5. k = q
  BY <1>2, <1>3, <1>4
<1>6. b * k = q * b
  BY <1>5
<1>7. m = r
  BY <1>0, <1>2, <1>6
<1>8. QED
  BY <1>5, <1>7 DEF k, m

(* Division is monotone. *)
LEMMA DivMonotone ==
  ASSUME NEW a \in Nat, NEW b \in Nat, NEW d \in Nat \ {0}, a <= b
  PROVE  a \div d <= b \div d
<1> DEFINE j == a \div d
           k == b \div d
<1>1. /\ j \in Nat /\ a % d \in 0 .. d - 1 /\ a = d * j + (a % d)
      /\ k \in Nat /\ b % d \in 0 .. d - 1 /\ b = d * k + (b % d)
  BY DivMod
<1> HIDE DEF j, k
<1>2. SUFFICES ASSUME j > k PROVE FALSE
  BY <1>1 DEF j, k
<1>3. PICK e \in Nat : j = k + 1 + e
  <2>1. j - k - 1 \in Nat /\ j = k + 1 + (j - k - 1)
    BY <1>1, <1>2
  <2>2. QED
    BY <2>1
<1>4. d * k \in Nat /\ d * e \in Nat /\ d * (k + 1 + e) = d * k + d + d * e
  BY <1>1, <1>3
<1>5. QED
  BY <1>1, <1>3, <1>4

(* clock_gettime loses nothing. *)
LEMMA ClockRead ==
  ASSUME NEW ns \in Nat
  PROVE  ClockGettime(ns) \in Timespecs /\ ToNs(ClockGettime(ns)) = ns
<1>1. /\ ns \div NsPerSec \in Nat /\ ns % NsPerSec \in 0 .. NsPerSec - 1
      /\ ns = NsPerSec * (ns \div NsPerSec) + (ns % NsPerSec)
  BY Units, DivMod
<1>2. NsPerSec * (ns \div NsPerSec) = (ns \div NsPerSec) * NsPerSec
  BY <1>1, Units
<1> DEFINE k == ns \div NsPerSec
           m == ns % NsPerSec
<1>4. ClockGettime(ns) = [sec |-> k, nsec |-> m]
  BY DEF ClockGettime
<1> HIDE DEF k, m
<1>5. k \in Nat /\ m \in 0 .. NsPerSec - 1 /\ ns = k * NsPerSec + m
  BY <1>1, <1>2 DEF k, m
<1>6. QED
  BY <1>4, <1>5 DEF ToNs, Timespecs

(* The part of the duration that is less than a second. *)
LEMMA Fraction ==
  ASSUME NEW ms \in Nat
  PROVE  /\ ms \div MsPerSec \in Nat
         /\ (ms % MsPerSec) * NsPerMs \in 0 .. NsPerSec - 1
         /\ ms * NsPerMs = (ms \div MsPerSec) * NsPerSec + (ms % MsPerSec) * NsPerMs
<1> DEFINE k == ms \div MsPerSec
           m == ms % MsPerSec
<1>1. k \in Nat /\ m \in 0 .. MsPerSec - 1 /\ ms = MsPerSec * k + m
  BY Units, DivMod
<1> HIDE DEF k, m
<1>2. ms * NsPerMs = k * NsPerSec + m * NsPerMs
  <2>1. (MsPerSec * k + m) * NsPerMs = (MsPerSec * k) * NsPerMs + m * NsPerMs
    BY <1>1, Units
  <2>2. (MsPerSec * k) * NsPerMs = k * (NsPerMs * MsPerSec)
    BY <1>1, Units
  <2>3. QED
    BY <1>1, <2>1, <2>2 DEF NsPerSec
<1>3. m * NsPerMs \in 0 .. NsPerSec - 1
  <2>1. PICK d \in Nat : MsPerSec = m + 1 + d
    <3>1. MsPerSec - m - 1 \in Nat /\ MsPerSec = m + 1 + (MsPerSec - m - 1)
      BY <1>1, Units
    <3>2. QED
      BY <3>1
  <2>2. NsPerMs * d \in Nat /\ m * NsPerMs \in Nat
    BY <1>1, <2>1, Units
  <2>3. NsPerMs * (m + 1 + d) = m * NsPerMs + NsPerMs + NsPerMs * d
    BY <1>1, <2>1, Units
  <2>4. QED
    BY <2>1, <2>2, <2>3, Units DEF NsPerSec
<1>4. QED
  BY <1>1, <1>2, <1>3 DEF k, m

(* The deadline of a timed wait is the time of the clock plus the          *)
(* duration, to the nanosecond, and is normalised.                         *)
THEOREM DeadlineCorrect ==
  ASSUME NEW now \in Timespecs, NEW ms \in Nat
  PROVE  /\ Deadline(now, ms) \in Timespecs
         /\ ToNs(Deadline(now, ms)) = ToNs(now) + ms * NsPerMs
<1> DEFINE extra == (ms % MsPerSec) * NsPerMs + now.nsec
           carry == extra \div NsPerSec
           nsec  == extra % NsPerSec
           sec   == ms \div MsPerSec
<1>1. now.sec \in Nat /\ now.nsec \in Nat
  BY Units DEF Timespecs
<1>2. sec \in Nat /\ extra \in Nat
      /\ ms * NsPerMs + now.nsec = sec * NsPerSec + extra
  <2> DEFINE part == (ms % MsPerSec) * NsPerMs
  <2>1. sec \in Nat /\ part \in 0 .. NsPerSec - 1 /\ ms * NsPerMs = sec * NsPerSec + part
    BY Fraction
  <2>2. extra = part + now.nsec
    OBVIOUS
  <2> HIDE DEF sec, part, extra
  <2>3. sec * NsPerSec \in Nat
    BY <2>1, Units
  <2>4. QED
    BY <1>1, <2>1, <2>2, <2>3, Units
<1>3. carry \in Nat /\ nsec \in 0 .. NsPerSec - 1 /\ extra = NsPerSec * carry + nsec
  BY <1>2, DivMod, Units
<1>4. Deadline(now, ms) = [sec |-> now.sec + sec + carry, nsec |-> nsec]
  BY DEF Deadline
<1> HIDE DEF sec, carry, nsec, extra
<1>5. (now.sec + sec + carry) * NsPerSec
        = now.sec * NsPerSec + sec * NsPerSec + NsPerSec * carry
  BY <1>1, <1>2, <1>3, Units
<1>6. Deadline(now, ms) \in Timespecs
  BY <1>1, <1>2, <1>3, <1>4 DEF Timespecs
<1>7. ms * NsPerMs \in Nat /\ now.sec * NsPerSec \in Nat
      /\ sec * NsPerSec \in Nat /\ NsPerSec * carry \in Nat
  BY <1>1, <1>2, <1>3, Units
<1>8. ToNs(Deadline(now, ms)) = (now.sec + sec + carry) * NsPerSec + nsec
  BY <1>4 DEF ToNs
<1>9. ToNs(now) = now.sec * NsPerSec + now.nsec
  BY DEF ToNs
<1>10. QED
  BY <1>1, <1>2, <1>3, <1>5, <1>6, <1>7, <1>8, <1>9

(* AOS_TaskDelay computes the same deadline in another way. *)
THEOREM DelayDeadlineCorrect ==
  ASSUME NEW now \in Timespecs, NEW ms \in Nat
  PROVE  DelayDeadline(now, ms) = Deadline(now, ms)
<1> DEFINE extra == (ms % MsPerSec) * NsPerMs + now.nsec
<1>1. now.sec \in Nat /\ now.nsec \in 0 .. NsPerSec - 1
  BY DEF Timespecs
<1>2. /\ ms \div MsPerSec \in Nat
      /\ (ms % MsPerSec) * NsPerMs \in 0 .. NsPerSec - 1
  BY Fraction
<1>3. extra \in Nat /\ extra = now.nsec + (ms % MsPerSec) * NsPerMs
  BY <1>1, <1>2, Units
<1>4. CASE extra < NsPerSec
  <2>1. extra \in 0 .. NsPerSec - 1
    BY <1>3, <1>4, Units
  <2>2. (0 * NsPerSec + extra) \div NsPerSec = 0 /\ (0 * NsPerSec + extra) % NsPerSec = extra
    BY <2>1, DivUnique, Units
  <2>3. 0 * NsPerSec + extra = extra
    BY <1>3, Units
  <2>4. extra \div NsPerSec = 0 /\ extra % NsPerSec = extra
    BY <2>2, <2>3
  <2>5. QED
    BY <1>1, <1>2, <1>3, <1>4, <2>4, Units DEF Deadline, DelayDeadline
<1>5. CASE extra >= NsPerSec
  <2>1. extra - NsPerSec \in 0 .. NsPerSec - 1
    BY <1>1, <1>2, <1>5, Units
  <2>2. /\ (1 * NsPerSec + (extra - NsPerSec)) \div NsPerSec = 1
        /\ (1 * NsPerSec + (extra - NsPerSec)) % NsPerSec = extra - NsPerSec
    BY <2>1, DivUnique, Units
  <2>3. 1 * NsPerSec + (extra - NsPerSec) = extra
    BY <1>3, Units
  <2>4. extra \div NsPerSec = 1 /\ extra % NsPerSec = extra - NsPerSec
    BY <2>2, <2>3
  <2>5. QED
    BY <1>1, <1>2, <1>3, <1>5, <2>4, Units DEF Deadline, DelayDeadline
<1>6. QED
  BY <1>3, <1>4, <1>5, Units

(* A reading is the time in microseconds, rounded down. *)
THEOREM ReadingCorrect ==
  ASSUME NEW ns \in Nat
  PROVE  Microseconds(ClockGettime(ns)) = ns \div NsPerUs
<1> DEFINE k == ns \div NsPerSec
           m == ns % NsPerSec
           q == m \div NsPerUs
           r == m % NsPerUs
<1>1. k \in Nat /\ m \in Nat /\ ns = NsPerSec * k + m
  BY DivMod, Units
<1>2. q \in Nat /\ r \in 0 .. NsPerUs - 1 /\ m = NsPerUs * q + r
  BY <1>1, DivMod, Units
<1>3. Microseconds(ClockGettime(ns)) = k * UsPerSec + q
  BY DEF Microseconds, ClockGettime
<1> HIDE DEF k, m, q, r
<1>4. NsPerSec = UsPerSec * NsPerUs
  <2>1. (NsPerUs * UsPerMs) * MsPerSec = (UsPerMs * MsPerSec) * NsPerUs
    BY Units
  <2>2. QED
    BY <2>1 DEF NsPerSec, NsPerMs, UsPerSec
<1>5. k * UsPerSec + q \in Nat
  BY <1>1, <1>2, Units
<1>6. (k * UsPerSec + q) * NsPerUs = NsPerSec * k + NsPerUs * q
  <2>1. (k * UsPerSec + q) * NsPerUs = (k * UsPerSec) * NsPerUs + NsPerUs * q
    BY <1>1, <1>2, Units
  <2>2. (k * UsPerSec) * NsPerUs = (UsPerSec * NsPerUs) * k
    BY <1>1, Units
  <2>3. QED
    BY <1>4, <2>1, <2>2
<1>7. ns = (k * UsPerSec + q) * NsPerUs + r
  <2>1. NsPerSec * k \in Nat /\ NsPerUs * q \in Nat
    BY <1>1, <1>2, Units
  <2>2. QED
    BY <1>1, <1>2, <1>6, <2>1, Units
<1>8. ((k * UsPerSec + q) * NsPerUs + r) \div NsPerUs = k * UsPerSec + q
  BY <1>2, <1>5, DivUnique, Units
<1>9. QED
  BY <1>3, <1>7, <1>8

-----------------------------------------------------------------------------
(* The invariants of the state machine *)

(* Both clocks have run for a natural number of nanoseconds. *)
LEMMA StartsIdle == Idle \in WaitType
  BY ClockRead DEF Idle, WaitType

(* The deadline that a call computes from its clock. *)
LEMMA DeadlineStart ==
  ASSUME TypeOK, NEW op \in Ops, NEW ms \in Timeouts
  PROVE  /\ DeadlineOf(op, ms) \in Timespecs
         /\ ToNs(DeadlineOf(op, ms)) = Clock(op) + ms * NsPerMs
         /\ Clock(op) \in Nat
<1> DEFINE now == ClockGettime(Clock(op))
<1>1. Clock(op) \in Nat
  BY DEF Clock, TypeOK
<1>2. now \in Timespecs /\ ToNs(now) = Clock(op)
  BY <1>1, ClockRead
<1>3. ms \in Nat
  BY TimeAssumption
<1> HIDE DEF now
<1>4. DelayDeadline(now, ms) = Deadline(now, ms)
  BY <1>2, <1>3, DelayDeadlineCorrect
<1>5. Deadline(now, ms) \in Timespecs /\ ToNs(Deadline(now, ms)) = ToNs(now) + ms * NsPerMs
  BY <1>2, <1>3, DeadlineCorrect
<1>6. DeadlineOf(op, ms) = Deadline(now, ms)
  BY <1>4 DEF DeadlineOf, now
<1>7. QED
  BY <1>1, <1>2, <1>5, <1>6

(* What DeadlineExact says of one call. *)
ExactFor(c, m, w) ==
  ToNs(c.deadline) =
    c.start + ((IF c.op = "TaskDelay" THEN m ELSE w) - m - c.shift) + c.ms * NsPerMs

CallType == [wait : WaitType, now_us : Nat]

(* A step of one thread, which the clocks do not notice.                   *)
LEMMA OneThread ==
  ASSUME TypeOK, DeadlineExact, NEW t \in Threads, NEW c \in CallType,
         c.wait # Idle => ExactFor(c.wait, mono, wall),
         call' = [call EXCEPT ![t] = c], UNCHANGED <<mono, wall, settings>>
  PROVE  TypeOK' /\ DeadlineExact'
<1>1. call \in [Threads -> CallType]
  BY DEF TypeOK, CallType
<1>2. call' \in [Threads -> CallType]
  BY <1>1
<1>3. ASSUME NEW u \in Threads, call'[u].wait # Idle
      PROVE  ExactFor(call'[u].wait, mono, wall)
  <2>1. CASE u = t
    BY <1>1, <1>3, <2>1
  <2>2. CASE u # t
    BY <1>1, <1>3, <2>2 DEF DeadlineExact, ExactFor, Clock, Waits
  <2>3. QED
    BY <2>1, <2>2
<1>4. TypeOK'
  BY <1>2 DEF TypeOK, CallType
<1>5. DeadlineExact'
  BY <1>3 DEF DeadlineExact, ExactFor, Clock, Waits
<1>6. QED
  BY <1>4, <1>5

(* What a thread keeps before a step. *)
LEMMA CallBefore ==
  ASSUME TypeOK, DeadlineExact, NEW t \in Threads
  PROVE  /\ call[t] \in CallType /\ call[t].wait \in WaitType /\ call[t].now_us \in Nat
         /\ call[t].wait # Idle => ExactFor(call[t].wait, mono, wall)
  BY DEF TypeOK, CallType, DeadlineExact, ExactFor, Clock, Waits

(* The types and the deadlines are kept by every step. *)
LEMMA TimeStep ==
  ASSUME TypeOK, DeadlineExact, [Next]_vars
  PROVE  TypeOK' /\ DeadlineExact'
<1>1. ASSUME NEW t \in Threads, NEW op \in Ops, NEW ms \in Timeouts, Begin(t, op, ms)
      PROVE  TypeOK' /\ DeadlineExact'
  <2> DEFINE w == [op |-> op, ms |-> ms, start |-> mono, deadline |-> DeadlineOf(op, ms),
                   shift |-> 0, interrupts |-> 0]
             c == [call[t] EXCEPT !.wait = w]
  <2>1. call[t] \in CallType
    BY CallBefore
  <2>2. w \in WaitType
    BY DeadlineStart DEF WaitType, TypeOK
  <2>3. ExactFor(w, mono, wall)
    <3>1. ms * NsPerMs \in Nat
      BY Units, TimeAssumption
    <3>2. mono \in Nat /\ wall \in Nat
      BY DEF TypeOK
    <3>3. QED
      BY <3>1, <3>2, DeadlineStart DEF ExactFor, Clock
  <2>4. call' = [call EXCEPT ![t] = c] /\ UNCHANGED <<mono, wall, settings>>
    BY <1>1 DEF Begin
  <2> HIDE DEF w
  <2>5. c \in CallType /\ c.wait = w
    BY <2>1, <2>2 DEF CallType
  <2> HIDE DEF c
  <2>6. QED
    BY <2>3, <2>4, <2>5, OneThread
<1>2. ASSUME NEW t \in Threads, Expire(t) \/ Succeed(t)
      PROVE  TypeOK' /\ DeadlineExact'
  <2> DEFINE c == [call[t] EXCEPT !.wait = Idle]
  <2>1. c \in CallType /\ c.wait = Idle
    BY CallBefore, StartsIdle DEF CallType
  <2>2. call' = [call EXCEPT ![t] = c] /\ UNCHANGED <<mono, wall, settings>>
    BY <1>2 DEF Expire, Succeed
  <2> HIDE DEF c
  <2>3. QED
    BY <2>1, <2>2, OneThread
<1>3. ASSUME NEW t \in Threads, Interrupt(t)
      PROVE  TypeOK' /\ DeadlineExact'
  <2> DEFINE w == [call[t].wait EXCEPT !.interrupts = @ + 1]
             c == [call[t] EXCEPT !.wait = w]
  <2>1. call[t] \in CallType /\ call[t].wait \in WaitType
    BY CallBefore
  <2>2. w \in WaitType
    BY <2>1 DEF WaitType
  <2>3. ExactFor(w, mono, wall)
    <3>1. call[t].wait # Idle
      BY <1>3 DEF Interrupt, Idle
    <3>2. ExactFor(call[t].wait, mono, wall)
      BY <3>1, CallBefore
    <3>3. QED
      BY <2>1, <3>2 DEF ExactFor, WaitType, ToNs
  <2>4. call' = [call EXCEPT ![t] = c] /\ UNCHANGED <<mono, wall, settings>>
    BY <1>3, <2>1 DEF Interrupt
  <2> HIDE DEF w
  <2>5. c \in CallType /\ c.wait = w
    BY <2>1, <2>2 DEF CallType
  <2> HIDE DEF c
  <2>6. QED
    BY <2>3, <2>4, <2>5, OneThread
<1>4. ASSUME NEW t \in Threads, TimeGet(t)
      PROVE  TypeOK' /\ DeadlineExact'
  <2> DEFINE c == [call[t] EXCEPT !.now_us = Microseconds(ClockGettime(mono))]
  <2>1. Microseconds(ClockGettime(mono)) \in Nat
    <3>1. mono \in Nat
      BY DEF TypeOK
    <3>2. mono \div NsPerUs \in Nat
      BY <3>1, DivMod, Units
    <3>3. QED
      BY <3>1, <3>2, ReadingCorrect
  <2>2. c \in CallType /\ c.wait = call[t].wait
    BY <2>1, CallBefore DEF CallType
  <2>3. call' = [call EXCEPT ![t] = c] /\ UNCHANGED <<mono, wall, settings>>
    BY <1>4 DEF TimeGet
  <2> HIDE DEF c
  <2>4. QED
    BY <2>2, <2>3, CallBefore, OneThread
<1>5. CASE Tick
  <2>1. /\ mono \in Nat /\ wall \in Nat
        /\ mono' = mono + 1 /\ wall' = wall + 1 /\ UNCHANGED <<settings, call>>
    BY <1>5 DEF Tick, TypeOK
  <2>2. ASSUME NEW t \in Threads, call[t].wait # Idle
        PROVE  ExactFor(call[t].wait, mono', wall')
    <3>1. ExactFor(call[t].wait, mono, wall) /\ call[t].wait \in WaitType
      BY <2>2, CallBefore
    <3>2. call[t].wait.start \in Nat /\ call[t].wait.shift \in Int
      BY <3>1 DEF WaitType
    <3>3. /\ mono' - mono' - call[t].wait.shift = mono - mono - call[t].wait.shift
          /\ wall' - mono' - call[t].wait.shift = wall - mono - call[t].wait.shift
      BY <2>1, <3>2
    <3>4. QED
      BY <3>1, <3>3 DEF ExactFor
  <2>3. TypeOK'
    BY <2>1 DEF TypeOK
  <2>4. DeadlineExact'
    BY <2>1, <2>2 DEF DeadlineExact, ExactFor, Clock, Waits
  <2>5. QED
    BY <2>3, <2>4
<1>6. CASE SetClock
  <2>1. /\ mono \in Nat /\ wall \in Nat /\ settings \in Nat
        /\ mono' = mono /\ wall' \in Nat /\ settings' \in Nat
    <3>1. mono \in Nat /\ wall \in Nat /\ settings \in Nat /\ MaxShift \in Nat
      BY TimeAssumption DEF TypeOK
    <3>2. QED
      BY <1>6, <3>1 DEF SetClock
  <2> DEFINE c(t) == IF Waits(t) /\ call[t].wait.op # "TaskDelay"
                       THEN [call[t] EXCEPT !.wait.shift = @ + (wall' - wall)]
                       ELSE call[t]
  <2>2. call' = [t \in Threads |-> c(t)]
    BY <1>6 DEF SetClock
  <2>3. ASSUME NEW t \in Threads
        PROVE  /\ c(t) \in CallType
               /\ c(t).wait # Idle => ExactFor(c(t).wait, mono, wall')
    <3>1. /\ call[t] \in CallType /\ call[t].wait \in WaitType
          /\ call[t].wait # Idle => ExactFor(call[t].wait, mono, wall)
      BY CallBefore
    <3>2. CASE Waits(t) /\ call[t].wait.op # "TaskDelay"
      <4> DEFINE w == [call[t].wait EXCEPT !.shift = @ + (wall' - wall)]
      <4>1. w \in WaitType
        BY <2>1, <3>1 DEF WaitType
      <4>2. c(t) = [call[t] EXCEPT !.wait = w]
        BY <3>1, <3>2
      <4>3. ExactFor(w, mono, wall')
        <5>1. ExactFor(call[t].wait, mono, wall)
          BY <3>1, <3>2 DEF Waits
        <5>2. /\ w.shift = call[t].wait.shift + (wall' - wall)
              /\ w.deadline = call[t].wait.deadline /\ w.start = call[t].wait.start
              /\ w.op = call[t].wait.op /\ w.ms = call[t].wait.ms
              /\ call[t].wait.shift \in Int
          BY <3>1 DEF WaitType
        <5> HIDE DEF w
        <5>3. wall' - mono - w.shift = wall - mono - call[t].wait.shift
          BY <2>1, <5>2
        <5>4. QED
          BY <3>2, <5>1, <5>2, <5>3 DEF ExactFor
      <4> HIDE DEF w
      <4>4. QED
        BY <3>1, <4>1, <4>2, <4>3 DEF CallType
    <3>3. CASE ~(Waits(t) /\ call[t].wait.op # "TaskDelay")
      BY <3>1, <3>3 DEF Waits, ExactFor
    <3>4. QED
      BY <3>2, <3>3
  <2> HIDE DEF c
  <2>4. call' \in [Threads -> CallType]
    BY <2>2, <2>3
  <2>5. TypeOK'
    BY <2>1, <2>4 DEF TypeOK, CallType
  <2>6. DeadlineExact'
    BY <2>1, <2>2, <2>3 DEF DeadlineExact, ExactFor, Clock, Waits
  <2>7. QED
    BY <2>5, <2>6
<1>7. CASE UNCHANGED vars
  BY <1>7 DEF vars, TypeOK, DeadlineExact, Waits, Clock
<1>8. QED
  BY <1>1, <1>2, <1>3, <1>4, <1>5, <1>6, <1>7 DEF Next

(* A thread writes only its own reading, and the time of the clock into it. *)
LEMMA ReadingWritten ==
  ASSUME TypeOK, [Next]_vars, NEW t \in Threads
  PROVE  /\ mono' \in {mono, mono + 1}
         /\ call'[t].now_us \in {call[t].now_us, mono \div NsPerUs}
<1>1. call[t] \in CallType /\ call \in [Threads -> CallType] /\ mono \in Nat
  BY DEF TypeOK, CallType
<1>2. CASE Tick \/ UNCHANGED vars
  BY <1>2 DEF Tick, vars
<1>3. CASE SetClock
  <2>1. call'[t] = IF Waits(t) /\ call[t].wait.op # "TaskDelay"
                     THEN [call[t] EXCEPT !.wait.shift = @ + (wall' - wall)]
                     ELSE call[t]
    BY <1>3 DEF SetClock
  <2>2. QED
    BY <1>1, <1>3, <2>1 DEF SetClock, CallType
<1>4. ASSUME NEW u \in Threads, TimeGet(u)
      PROVE  /\ mono' = mono
             /\ call'[t].now_us \in {call[t].now_us, mono \div NsPerUs}
  <2>1. call' = [call EXCEPT ![u] = [call[u] EXCEPT !.now_us = mono \div NsPerUs]]
    BY <1>1, <1>4, ReadingCorrect DEF TimeGet
  <2>2. call[u] \in CallType
    BY <1>1
  <2>3. QED
    BY <1>1, <1>4, <2>1, <2>2 DEF TimeGet, CallType
<1>5. ASSUME NEW u \in Threads,
             \/ \E op \in Ops, ms \in Timeouts : Begin(u, op, ms)
             \/ Expire(u) \/ Succeed(u) \/ Interrupt(u)
      PROVE  mono' = mono /\ call'[t].now_us = call[t].now_us
  <2>1. /\ mono' = mono
        /\ \E w : call' = [call EXCEPT ![u] = [call[u] EXCEPT !.wait = w]]
    <3>1. CASE \E op \in Ops, ms \in Timeouts : Begin(u, op, ms)
      BY <1>1, <3>1 DEF Begin
    <3>2. CASE Expire(u) \/ Succeed(u)
      BY <1>1, <3>2 DEF Expire, Succeed
    <3>3. CASE Interrupt(u)
      <4> DEFINE w == [call[u].wait EXCEPT !.interrupts = @ + 1]
      <4>1. call' = [call EXCEPT ![u] = [call[u] EXCEPT !.wait = w]] /\ mono' = mono
        BY <1>1, <3>3 DEF Interrupt
      <4>2. QED
        BY <4>1
    <3>4. QED
      BY <1>5, <3>1, <3>2, <3>3
  <2>2. PICK w : call' = [call EXCEPT ![u] = [call[u] EXCEPT !.wait = w]]
    BY <2>1
  <2>3. call[u] \in CallType
    BY <1>1
  <2>4. QED
    BY <1>1, <2>1, <2>2, <2>3 DEF CallType
<1>6. QED
  BY <1>2, <1>3, <1>4, <1>5 DEF Next

(* Readings grow: each is that of a clock which only advances. *)
LEMMA ReadingStep ==
  ASSUME IInv, [Next]_vars
  PROVE  /\ ReadingsPast'
         /\ \A t \in Threads :
              /\ call'[t].now_us >= call[t].now_us
              /\ call'[t].now_us # call[t].now_us =>
                   call'[t].now_us = mono \div NsPerUs
<1>1. mono \in Nat /\ mono' \in Nat /\ mono' >= mono
  <2>1. mono \in Nat
    BY DEF IInv, TypeOK
  <2>2. mono' \in {mono, mono + 1} \/ Threads = {}
    BY ReadingWritten DEF IInv
  <2>3. CASE Threads = {}
    <3>1. CASE Tick
      BY <2>1, <3>1 DEF Tick
    <3>2. CASE SetClock \/ UNCHANGED vars
      BY <2>1, <3>2 DEF SetClock, vars
    <3>3. QED
      BY <2>3, <3>1, <3>2 DEF Next
  <2>4. QED
    BY <2>1, <2>2, <2>3
<1>2. /\ mono \div NsPerUs \in Nat /\ mono' \div NsPerUs \in Nat
      /\ mono \div NsPerUs <= mono' \div NsPerUs
  BY <1>1, Units, DivMod, DivMonotone
<1>3. ASSUME NEW t \in Threads
      PROVE  /\ call'[t].now_us <= mono' \div NsPerUs
             /\ call'[t].now_us >= call[t].now_us
             /\ call'[t].now_us # call[t].now_us =>
                  call'[t].now_us = mono \div NsPerUs
  <2>1. call[t].now_us \in Nat /\ call[t].now_us <= mono \div NsPerUs
    BY CallBefore DEF IInv, ReadingsPast
  <2>2. call'[t].now_us \in {call[t].now_us, mono \div NsPerUs}
    BY ReadingWritten DEF IInv
  <2>3. QED
    BY <1>2, <2>1, <2>2
<1>4. QED
  BY <1>3 DEF ReadingsPast

(* Types and deadlines are kept, whatever signals and settings of the      *)
(* clock do, and no reading is ahead of the clock.                         *)
THEOREM TimeInvariant == Spec => []IInv
<1>1. Init => IInv
  <2>1. ASSUME Init PROVE TypeOK
    <3>1. 0 .. MaxShift \subseteq Nat
      BY TimeAssumption
    <3>2. QED
      BY <2>1, <3>1, StartsIdle DEF Init, TypeOK
  <2>2. Init => DeadlineExact
    BY DEF Init, DeadlineExact, Waits
  <2>3. ASSUME Init PROVE ReadingsPast
    <3>1. 0 \div NsPerUs \in Nat
      BY Units, DivMod
    <3>2. QED
      BY <2>3, <3>1 DEF Init, ReadingsPast
  <2>4. QED
    BY <2>1, <2>2, <2>3 DEF IInv
<1>2. IInv /\ [Next]_vars => IInv'
  BY TimeStep, ReadingStep DEF IInv
<1>3. QED
  BY <1>1, <1>2, PTL DEF Spec

(* Every deadline is where the call put it. *)
THEOREM TimeDeadlineExact == Spec => []DeadlineExact
<1>1. IInv => DeadlineExact
  BY DEF IInv
<1>2. QED
  BY <1>1, TimeInvariant, PTL

(* "Guaranteed non-decreasing": a reading never falls behind an earlier    *)
(* one of the same thread.                                                 *)
THEOREM TimeReadingsGrow == Spec => ReadingsGrow
<1>1. IInv /\ [Next]_vars =>
        [\A t \in Threads :
           /\ call'[t].now_us >= call[t].now_us
           /\ call'[t].now_us # call[t].now_us => call'[t].now_us = mono \div NsPerUs]_vars
  BY ReadingStep
<1>2. QED
  BY <1>1, TimeInvariant, PTL DEF Spec, ReadingsGrow

(* No delay ends early, and no timed wait save by what the clock was set.  *)
THEOREM TimeNeverEarly == Spec => []NeverEarly
<1>1. IInv => NeverEarly
  <2>1. SUFFICES ASSUME TypeOK, DeadlineExact, NEW t \in Threads, Waits(t), Reached(t)
                 PROVE  mono - call[t].wait.start + call[t].wait.shift
                          >= call[t].wait.ms * NsPerMs
    BY DEF IInv, NeverEarly
  <2> DEFINE w == call[t].wait
             d == w.ms * NsPerMs
  <2>2. /\ w.start \in Nat /\ w.shift \in Int /\ w.ms \in Nat
        /\ mono \in Nat /\ Clock(w.op) \in Nat
    <3>1. w \in WaitType
      BY <2>1, CallBefore
    <3>2. Timeouts \cup {0} \subseteq Nat
      BY TimeAssumption
    <3>3. w.start \in Nat /\ w.shift \in Int /\ w.ms \in Nat
      BY <3>1, <3>2 DEF WaitType
    <3>4. mono \in Nat /\ wall \in Nat
      BY <2>1 DEF TypeOK
    <3>5. QED
      BY <3>3, <3>4 DEF Clock
  <2>3. d \in Nat
    BY <2>2, Units
  <2>4. ToNs(w.deadline) = w.start + (Clock(w.op) - mono - w.shift) + d
    BY <2>1 DEF DeadlineExact
  <2>5. Clock(w.op) >= ToNs(w.deadline)
    BY <2>1 DEF Reached
  <2> HIDE DEF w, d
  <2>6. mono - w.start + w.shift >= d
    BY <2>2, <2>3, <2>4, <2>5
  <2>7. QED
    BY <2>6 DEF w, d
<1>2. QED
  BY <1>1, TimeInvariant, PTL
=============================================================================
