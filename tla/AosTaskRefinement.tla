------------------------- MODULE AosTaskRefinement -------------------------
(***************************************************************************)
(* aos_task.c implements AosTaskLife.  A slot in use belongs to the thread *)
(* in its thread field, except while AOS_TaskCreate is between its lock    *)
(* section and the return of pthread_create: then it is reserved.          *)
(***************************************************************************)
EXTENDS AosTask

Reserved == "reserved"

HolderOf(i) ==
  IF ~slot[i].in_use THEN NoThread
  ELSE IF Creating(i) THEN Reserved
  ELSE slot[i].thread

LifeOf(n) ==
  IF native[n].stage \in {"start", "named", "body", "cleanup"} THEN "running"
  ELSE native[n].stage

Life == INSTANCE AosTaskLife WITH
  Threads <- Natives, Empty <- NoThread,
  holder <- [i \in Slots |-> HolderOf(i)],
  life <- [n \in Natives |-> LifeOf(n)]

(* Every step of the code keeps the promise of AosTaskLife: a slot changes *)
(* hands only after its thread was reaped, and threads are reaped once.    *)
ImplementsLife == Life!Spec
=============================================================================
