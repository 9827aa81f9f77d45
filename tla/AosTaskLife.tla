---------------------------- MODULE AosTaskLife ----------------------------
(***************************************************************************)
(* What the task table promises: a slot that was given to a thread is not  *)
(* given to another before that thread has ended and has been reaped, and  *)
(* every thread is reaped at most once.                                    *)
(***************************************************************************)
CONSTANTS
  Threads,   (* threads that may be started                                *)
  Slots,     (* the slots of the table                                     *)
  Empty,     (* what a free slot holds: no thread                          *)
  Reserved   (* what a slot holds while its thread is being created: none  *)

VARIABLES
  holder,  (* per slot: Empty, Reserved or the thread it belongs to        *)
  life     (* per thread: none, running, ended, reaped                     *)

vars == <<holder, life>>

Init ==
  /\ holder = [i \in Slots |-> Empty]
  /\ life = [n \in Threads |-> "none"]

Reserve(i) ==
  /\ holder[i] = Empty
  /\ holder' = [holder EXCEPT ![i] = Reserved]
  /\ UNCHANGED life

(* The creation failed: no thread was started. *)
GiveUp(i) ==
  /\ holder[i] = Reserved
  /\ holder' = [holder EXCEPT ![i] = Empty]
  /\ UNCHANGED life

Start(i, n) ==
  /\ holder[i] = Reserved
  /\ life[n] = "none"
  /\ holder' = [holder EXCEPT ![i] = n]
  /\ life' = [life EXCEPT ![n] = "running"]

End(n) ==
  /\ life[n] = "running"
  /\ life' = [life EXCEPT ![n] = "ended"]
  /\ UNCHANGED holder

(* Only a thread that has its slot is reaped, so no thread is lost. *)
Reap(i, n) ==
  /\ holder[i] = n
  /\ life[n] = "ended"
  /\ life' = [life EXCEPT ![n] = "reaped"]
  /\ UNCHANGED holder

Release(i, n) ==
  /\ holder[i] = n
  /\ life[n] = "reaped"
  /\ holder' = [holder EXCEPT ![i] = Empty]
  /\ UNCHANGED life

Next ==
  \E i \in Slots :
    \/ Reserve(i) \/ GiveUp(i)
    \/ \E n \in Threads : Start(i, n) \/ End(n) \/ Reap(i, n) \/ Release(i, n)

Spec == Init /\ [][Next]_vars
=============================================================================
