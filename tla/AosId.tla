------------------------------- MODULE AosId -------------------------------
(***************************************************************************)
(* The packed object id ("ticket") of aos_osal.h and the per-slot serial   *)
(* that makes stale ids detectable.  Every object table (tasks, mutexes,   *)
(* binary semaphores) hands out ids built with IdPack and advances the     *)
(* serial of a slot with NextSerial when the slot gets a new occupant.     *)
(***************************************************************************)
EXTENDS Integers

CONSTANT
  SerialMod   (* 2^8 in the code: serials are uint8_t                      *)

(* Three or more values: 0 marks a slot never used, and two serials must   *)
(* remain for a new occupant to differ from the one before.                *)
ASSUME SerialModAssumption == SerialMod \in 3 .. 256

AOS_ID_NONE == 0

AOS_TYPE_TASK   == 1
AOS_TYPE_MUTEX  == 2
AOS_TYPE_BINSEM == 3

(* { type[31:24], serial[23:16], index[15:0] } : the shifts of a uint32_t. *)
IdPack(type, serial, index) == 16777216 * type + 65536 * serial + index

IdType(id)   == (id \div 16777216) % 256
IdSerial(id) == (id \div 65536) % 256
IdIndex(id)  == id % 65536

(* Mutant: the increment without the wrap.                                 *)
NextSerialNoWrap(serial) == serial + 1

(* (uint8_t)(serial + 1), skipping 0. *)
NextSerial(serial) ==
  LET next == (serial + 1) % SerialMod
  IN  IF next = 0 THEN 1 ELSE next

============================================================================
