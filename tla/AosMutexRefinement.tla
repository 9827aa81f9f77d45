------------------------- MODULE AosMutexRefinement -------------------------
(***************************************************************************)
(* aos_mutex.c implements the table of AosMutexTable while callers keep    *)
(* creation and deletion apart.                                            *)
(***************************************************************************)
EXTENDS AosMutex

UsedSlots == {i \in Slots : slot[i].in_use}

LiveIds == {slot[i].id : i \in UsedSlots}

SlotWithId(id) == CHOOSE i \in UsedSlots : slot[i].id = id

TableMap ==
  [id \in LiveIds |->
     LET s == slot[SlotWithId(id)] IN [name |-> s.name, holder |-> s.owner]]

Table == INSTANCE AosMutexTable WITH Ids <- MutexIds, table <- TableMap

(* The calls of aos_mutex.h behave like operations on a table of mutexes:  *)
(* unique names, one holder, release by the holder, deletion when free.    *)
ImplementsTable == Table!TableSpec

=============================================================================
