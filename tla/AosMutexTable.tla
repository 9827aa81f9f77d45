--------------------------- MODULE AosMutexTable ---------------------------
(***************************************************************************)
(* What aos_mutex.h promises of the mutexes as a whole: a table of live    *)
(* ids, each with a name of its own and at most one holder.  A mutex is    *)
(* released by its holder alone, and deleted only while nobody holds it.   *)
(***************************************************************************)
CONSTANTS Threads, NoThread, Names, Ids

VARIABLE table   (* live id -> its name and its holder                     *)

TableInit == table = << >>

Entry == [name: Names, holder: Threads \cup {NoThread}]

Create(id, name) ==
  /\ id \notin DOMAIN table
  /\ \A other \in DOMAIN table : table[other].name # name
  /\ table' = [k \in DOMAIN table \cup {id} |->
                 IF k = id THEN [name |-> name, holder |-> NoThread] ELSE table[k]]

Acquire(t, id) ==
  /\ id \in DOMAIN table
  /\ table[id].holder = NoThread
  /\ table' = [table EXCEPT ![id].holder = t]

Release(t, id) ==
  /\ id \in DOMAIN table
  /\ table[id].holder = t
  /\ table' = [table EXCEPT ![id].holder = NoThread]

Delete(id) ==
  /\ id \in DOMAIN table
  /\ table[id].holder = NoThread
  /\ table' = [k \in DOMAIN table \ {id} |-> table[k]]

TableNext ==
  \E id \in Ids :
    \/ \E name \in Names : Create(id, name)
    \/ \E t \in Threads : Acquire(t, id) \/ Release(t, id)
    \/ Delete(id)

TableSpec == TableInit /\ [][TableNext]_table

=============================================================================
