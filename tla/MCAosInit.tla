----------------------------- MODULE MCAosInit -----------------------------
(* A small instance of AosInit for TLC. *)
EXTENDS AosInit

CONSTANTS t1, t2

MCThreads == {t1, t2}

(* Linux's range, exactly 32 levels, one level too few, and an error. *)
MCRanges == {<<1, 99>>, <<1, 32>>, <<0, 30>>, <<-1, -1>>}
=============================================================================
