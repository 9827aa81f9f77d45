----------------------------- MODULE MCAosTime -----------------------------
(* A small instance of AosTime for TLC. *)
EXTENDS AosTime

CONSTANTS t1

(* Calls on the clocks do not interact: one thread is enough. *)
MCThreads  == {t1}
MCTimeouts == {0, 1, 3}
=============================================================================
