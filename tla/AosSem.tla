------------------------------- MODULE AosSem -------------------------------
(***************************************************************************)
(* The POSIX binary semaphore of aos_sem.c, one step per access to shared  *)
(* state that another thread can observe.                                  *)
(*                                                                         *)
(* Threads call the API concurrently.  A critical section of the table     *)
(* lock is one step, except in AOS_SemCreate, whose native, state and id   *)
(* fields are also read by AOS_SemPost without the lock: it is three steps *)
(* (pc "Create", "store_state", "publish") that keep the lock.  The steps  *)
(* outside the lock are the calls on the native semaphore and the atomic   *)
(* accesses to id and state.                                               *)
(***************************************************************************)
EXTENDS AosId, FiniteSets

CONSTANTS
  Threads,      (* threads and interrupt contexts that call the API        *)
  Names,        (* object names (the valid ones)                           *)
  NoName,       (* the empty string left in a slot that has no occupant    *)
  MaxSems,      (* AOS_MAX_SEMS                                            *)
  SemValueMax,  (* SEM_VALUE_MAX of the native semaphore                   *)
  CallIds,      (* the ids callers pass: valid, stale or malformed         *)
  Contract      (* the obligations callers keep, see Permitted             *)

Slots == 0 .. MaxSems - 1

SemIds == {IdPack(AOS_TYPE_BINSEM, serial, i) :
             serial \in 1 .. SerialMod - 1, i \in Slots}

Obligations == {"no post during delete", "no create during delete"}

ASSUME SemAssumption ==
  /\ IsFiniteSet(Threads)
  /\ NoName \notin Names
  /\ MaxSems \in 1 .. 65535
  /\ SemValueMax \in Nat \ {0}
  /\ CallIds \subseteq Nat
  /\ Contract \subseteq Obligations

VARIABLES
  slot,   (* g_sem_pool: the slot records; native and live stand for native_sem *)
  call    (* per thread: the call it is in, where, and its locals          *)

vars == <<slot, call>>

-----------------------------------------------------------------------------
(* Calls and where they are *)

WaitOps == {"Wait", "TryWait", "TimedWait"}
Ops     == WaitOps \cup {"Create", "Post", "Delete", "GetInfo"}

(* A call starts with pc = its name; the other values are points inside.   *)
CreatePoints == {"store_state", "publish"}
HoldPoints   == {"deadline", "native", "clear", "release"}
PostPoints   == {"cas", "post", "rollback"}
DeletePoints == {"destroy", "wipe", "undelete"}

Points == Ops \cup CreatePoints \cup HoldPoints \cup PostPoints
              \cup DeletePoints \cup {"idle"}

Idle == [op |-> "none", pc |-> "idle", id |-> AOS_ID_NONE, value |-> 0]

At(t, point)   == call[t].pc = point
Goto(t, point) == call' = [call EXCEPT ![t].pc = point]
Return(t)      == call' = [call EXCEPT ![t] = Idle]

(* The slot a thread works on: &g_sem_pool[AOS_IdIndex(id)]. *)
SlotOf(t) == IdIndex(call[t].id)

(* g_sem_table_lock is free: only AOS_SemCreate keeps it between steps.    *)
TableUnlocked == \A u \in Threads : call[u].pc \notin CreatePoints

(* What callers promise.  aos_sem.h asks that no AOS_SemPost on an id      *)
(* overlaps its AOS_SemDelete.  The second obligation is not documented:   *)
(* AOS_SemCreate overlaps no AOS_SemDelete, whatever the ids.              *)
Permitted(op, id) ==
  /\ "no post during delete" \in Contract =>
       \A u \in Threads :
         call[u].id = id => {op, call[u].op} # {"Post", "Delete"}
  /\ "no create during delete" \in Contract =>
       \A u \in Threads : {op, call[u].op} # {"Create", "Delete"}

-----------------------------------------------------------------------------
(* The object table *)

EmptySlot == [id |-> AOS_ID_NONE, state |-> 0, native |-> 0, live |-> FALSE,
              ref_count |-> 0, serial |-> 0, in_use |-> FALSE, name |-> NoName]

ValidId(id) ==
  /\ IdType(id) = AOS_TYPE_BINSEM
  /\ IdIndex(id) \in Slots
  /\ LET s == slot[IdIndex(id)]
     IN  s.in_use /\ s.id = id /\ s.serial = IdSerial(id)

NameTaken(name) == \E i \in Slots : slot[i].in_use /\ slot[i].name = name

FreeSlots == {i \in Slots : ~slot[i].in_use}

IsFirstFree(i) == i \in FreeSlots /\ \A j \in FreeSlots : i <= j

(* AOS_PosixBinSemInit: the pool is zeroed, every id is none. *)
Init ==
  /\ slot = [i \in Slots |-> EmptySlot]
  /\ call = [t \in Threads |-> Idle]

(* A thread enters the API; Create has no id yet (it is an out parameter). *)
BeginCreate(t) ==
  /\ call[t] = Idle
  /\ Permitted("Create", AOS_ID_NONE)
  /\ call' = [call EXCEPT ![t] =
       [op |-> "Create", pc |-> "Create", id |-> AOS_ID_NONE, value |-> 0]]
  /\ UNCHANGED slot

BeginCall(t, op, id) ==
  /\ call[t] = Idle
  /\ Permitted(op, id)
  /\ call' = [call EXCEPT ![t] = [op |-> op, pc |-> op, id |-> id, value |-> 0]]
  /\ UNCHANGED slot

-----------------------------------------------------------------------------
(* AOS_SemCreate *)

(* A taken name, a full table or a failing sem_init: nothing is written    *)
(* yet.  A bad parameter returns before the lock and is left out.          *)
CreateFails(t) ==
  /\ At(t, "Create")
  /\ TableUnlocked
  /\ Return(t)
  /\ UNCHANGED slot

(* Mutant: the id is published before the state it must guard.             *)
CreateLockedEarlyId(t) ==
  /\ At(t, "Create")
  /\ TableUnlocked
  /\ \E i \in Slots, name \in Names, value \in {0, 1} :
       LET serial == NextSerial(slot[i].serial)
           id     == IdPack(AOS_TYPE_BINSEM, serial, i)
       IN  /\ IsFirstFree(i)
           /\ ~NameTaken(name)
           /\ slot' = [slot EXCEPT ![i] =
                [id |-> id, state |-> slot[i].state,
                 native |-> value, live |-> TRUE, ref_count |-> 0,
                 serial |-> serial, in_use |-> TRUE, name |-> name]]
           /\ call' = [call EXCEPT ![t] =
                [op |-> "Create", pc |-> "store_state", value |-> value,
                 id |-> id]]

CreateLocked(t) ==
  /\ At(t, "Create")
  /\ TableUnlocked
  /\ \E i \in Slots, name \in Names, value \in {0, 1} :
       LET serial == NextSerial(slot[i].serial)
       IN  /\ IsFirstFree(i)
           /\ ~NameTaken(name)
           /\ slot' = [slot EXCEPT ![i] =
                [id |-> slot[i].id, state |-> slot[i].state,
                 native |-> value, live |-> TRUE, ref_count |-> 0,
                 serial |-> serial, in_use |-> TRUE, name |-> name]]
           /\ call' = [call EXCEPT ![t] =
                [op |-> "Create", pc |-> "store_state", value |-> value,
                 id |-> IdPack(AOS_TYPE_BINSEM, serial, i)]]

StoreState(t) ==
  /\ At(t, "store_state")
  /\ slot' = [slot EXCEPT ![SlotOf(t)].state = call[t].value]
  /\ Goto(t, "publish")

PublishId(t) ==
  /\ At(t, "publish")
  /\ slot' = [slot EXCEPT ![SlotOf(t)].id = call[t].id]
  /\ Return(t)

-----------------------------------------------------------------------------
(* AOS_SemWait, AOS_SemTryWait, AOS_SemTimedWait *)

(* The reference keeps AOS_SemDelete away until ReleaseReference. *)
AcquireReference(t) ==
  /\ call[t].pc \in WaitOps
  /\ TableUnlocked
  /\ IF ValidId(call[t].id)
       THEN /\ slot' = [slot EXCEPT ![SlotOf(t)].ref_count = @ + 1]
            /\ Goto(t, IF call[t].op = "TimedWait" THEN "deadline" ELSE "native")
       ELSE Return(t) /\ UNCHANGED slot

(* Mutant: the failing clock returns without releasing the reference.      *)
TakeDeadlineNoRelease(t) ==
  /\ At(t, "deadline")
  /\ Goto(t, "native") \/ Return(t)
  /\ UNCHANGED slot

(* clock_gettime and the absolute deadline; on failure the call gives up.  *)
TakeDeadline(t) ==
  /\ At(t, "deadline")
  /\ Goto(t, "native") \/ Goto(t, "release")
  /\ UNCHANGED slot

(* Mutant: the waiter forgets to clear the state flag.                     *)
NativeTakeKeepsState(t) ==
  /\ At(t, "native")
  /\ slot[SlotOf(t)].native > 0
  /\ slot' = [slot EXCEPT ![SlotOf(t)].native = @ - 1]
  /\ Goto(t, "release")

(* sem_wait, sem_trywait or sem_timedwait returns 0.  A wait interrupted   *)
(* by a signal (EINTR) is retried and stays at "native".                   *)
NativeTake(t) ==
  /\ At(t, "native")
  /\ slot[SlotOf(t)].native > 0
  /\ slot' = [slot EXCEPT ![SlotOf(t)].native = @ - 1]
  /\ Goto(t, "clear")

(* Mutants: the error path returns without releasing the reference; the    *)
(* timed wait calls sem_wait, which has no deadline.                       *)
NativeGiveUpNoRelease(t) ==
  /\ At(t, "native")
  /\ \/ call[t].op # "Wait" /\ slot[SlotOf(t)].native = 0
     \/ ~slot[SlotOf(t)].live
  /\ Return(t)
  /\ UNCHANGED slot

NativeGiveUpTryOnly(t) ==
  /\ At(t, "native")
  /\ \/ call[t].op = "TryWait" /\ slot[SlotOf(t)].native = 0
     \/ ~slot[SlotOf(t)].live
  /\ Goto(t, "release")
  /\ UNCHANGED slot

(* EAGAIN, ETIMEDOUT, or EINVAL on a destroyed semaphore. *)
NativeGiveUp(t) ==
  /\ At(t, "native")
  /\ \/ call[t].op # "Wait" /\ slot[SlotOf(t)].native = 0
     \/ ~slot[SlotOf(t)].live
  /\ Goto(t, "release")
  /\ UNCHANGED slot

ClearState(t) ==
  /\ At(t, "clear")
  /\ slot' = [slot EXCEPT ![SlotOf(t)].state = 0]
  /\ Goto(t, "release")

ReleaseReference(t) ==
  /\ At(t, "release")
  /\ TableUnlocked
  /\ slot' = [slot EXCEPT ![SlotOf(t)].ref_count = IF @ > 0 THEN @ - 1 ELSE @]
  /\ Return(t)

-----------------------------------------------------------------------------
(* AOS_SemPost: no lock, one atomic access or native call per step *)

PostCheckId(t) ==
  /\ At(t, "Post")
  /\ LET id == call[t].id
     IN  IF /\ IdType(id) = AOS_TYPE_BINSEM
            /\ IdIndex(id) \in Slots
            /\ slot[IdIndex(id)].id = id
           THEN Goto(t, "cas")
           ELSE Return(t)
  /\ UNCHANGED slot

(* Mutant: the state flag is stored, not compared and swapped.             *)
PostCasBlind(t) ==
  /\ At(t, "cas")
  /\ slot' = [slot EXCEPT ![SlotOf(t)].state = 1]
  /\ Goto(t, "post")

(* compare-and-swap of state from 0 to 1, else AOS_ERR_INVALID_STATE. *)
PostCas(t) ==
  /\ At(t, "cas")
  /\ IF slot[SlotOf(t)].state = 0
       THEN slot' = [slot EXCEPT ![SlotOf(t)].state = 1] /\ Goto(t, "post")
       ELSE Return(t) /\ UNCHANGED slot

PostNative(t) ==
  /\ At(t, "post")
  /\ slot[SlotOf(t)].native < SemValueMax
  /\ slot' = [slot EXCEPT ![SlotOf(t)].native = @ + 1]
  /\ Return(t)

(* EOVERFLOW, or EINVAL on a destroyed semaphore. *)
PostNativeFails(t) ==
  /\ At(t, "post")
  /\ slot[SlotOf(t)].native = SemValueMax \/ ~slot[SlotOf(t)].live
  /\ Goto(t, "rollback")
  /\ UNCHANGED slot

PostRollback(t) ==
  /\ At(t, "rollback")
  /\ slot' = [slot EXCEPT ![SlotOf(t)].state = 0]
  /\ Return(t)

-----------------------------------------------------------------------------
(* AOS_SemDelete and AOS_SemGetInfo *)

(* Mutant: the reference count is not looked at.                           *)
DeleteLockedReferenced(t) ==
  /\ At(t, "Delete")
  /\ TableUnlocked
  /\ IF ValidId(call[t].id)
       THEN /\ slot' = [slot EXCEPT ![SlotOf(t)].id = AOS_ID_NONE,
                                    ![SlotOf(t)].in_use = FALSE]
            /\ Goto(t, "destroy")
       ELSE Return(t) /\ UNCHANGED slot

DeleteLocked(t) ==
  /\ At(t, "Delete")
  /\ TableUnlocked
  /\ IF ValidId(call[t].id) /\ slot[SlotOf(t)].ref_count = 0
       THEN /\ slot' = [slot EXCEPT ![SlotOf(t)].id = AOS_ID_NONE,
                                    ![SlotOf(t)].in_use = FALSE]
            /\ Goto(t, "destroy")
       ELSE Return(t) /\ UNCHANGED slot

DestroyNative(t) ==
  /\ At(t, "destroy")
  /\ slot' = [slot EXCEPT ![SlotOf(t)].live = FALSE]
  /\ Goto(t, "wipe")

(* sem_destroy may refuse (EBUSY) when a thread is blocked on the native   *)
(* semaphore.                                                              *)
DestroyFails(t) ==
  /\ At(t, "destroy")
  /\ \E u \in Threads : At(u, "native") /\ SlotOf(u) = SlotOf(t)
  /\ Goto(t, "undelete")
  /\ UNCHANGED slot

(* The serial stays, so that ids of this occupant remain detectable. *)
WipeSlot(t) ==
  /\ At(t, "wipe")
  /\ TableUnlocked
  /\ slot' = [slot EXCEPT ![SlotOf(t)].ref_count = 0,
                          ![SlotOf(t)].name = NoName]
  /\ Return(t)

Undelete(t) ==
  /\ At(t, "undelete")
  /\ TableUnlocked
  /\ slot' = [slot EXCEPT ![SlotOf(t)].in_use = TRUE,
                          ![SlotOf(t)].id = call[t].id]
  /\ Return(t)

(* Reads the slot under the lock, writes nothing shared. *)
GetInfo(t) ==
  /\ At(t, "GetInfo")
  /\ TableUnlocked
  /\ Return(t)
  /\ UNCHANGED slot

-----------------------------------------------------------------------------
(* The steps that enter a critical section of the table lock. *)
LockStep(t) ==
  \/ CreateFails(t) \/ CreateLocked(t)
  \/ AcquireReference(t) \/ ReleaseReference(t)
  \/ DeleteLocked(t) \/ WipeSlot(t) \/ Undelete(t) \/ GetInfo(t)

Step(t) ==
  \/ LockStep(t)
  \/ StoreState(t) \/ PublishId(t)
  \/ TakeDeadline(t) \/ NativeTake(t) \/ NativeGiveUp(t) \/ ClearState(t)
  \/ PostCheckId(t) \/ PostCas(t) \/ PostNative(t) \/ PostNativeFails(t)
  \/ PostRollback(t)
  \/ DestroyNative(t) \/ DestroyFails(t)

Next ==
  \E t \in Threads :
    \/ BeginCreate(t)
    \/ \E op \in Ops \ {"Create"}, id \in CallIds : BeginCall(t, op, id)
    \/ Step(t)

Spec == Init /\ [][Next]_vars

(* Every thread inside the API is scheduled again, and the table lock,     *)
(* held for a bounded number of steps, is not denied to it for ever.       *)
(* Nothing makes a thread call the API.                                    *)
Fairness == \A t \in Threads : WF_vars(Step(t)) /\ SF_vars(LockStep(t))

FairSpec == Spec /\ Fairness

-----------------------------------------------------------------------------
(* Properties *)

(* Every field of a slot and every local of a call stays in its type: the  *)
(* 8-bit serial, the binary state, an id that is none or names its slot.   *)
SlotType == [id: SemIds \cup {AOS_ID_NONE}, state: {0, 1},
             native: 0 .. SemValueMax, live: BOOLEAN, ref_count: Nat,
             serial: 0 .. SerialMod - 1, in_use: BOOLEAN,
             name: Names \cup {NoName}]

CallType == [op: Ops \cup {"none"}, pc: Points,
             id: CallIds \cup SemIds \cup {AOS_ID_NONE}, value: {0, 1}]

TypeOK == slot \in [Slots -> SlotType] /\ call \in [Threads -> CallType]

(* t is between AOS_PosixSemAcquireReference and ReleaseReference on i.    *)
Holds(t, i) == call[t].pc \in HoldPoints /\ SlotOf(t) = i

(* ref_count is the number of waiters: one release per acquire, on every   *)
(* path out of Wait, TryWait and TimedWait, and no reset under a waiter.   *)
RefCountExact ==
  \A i \in Slots : slot[i].ref_count = Cardinality({t \in Threads : Holds(t, i)})

(* A thread that waits keeps its semaphore: the slot stays occupied by the *)
(* semaphore the thread named and its native semaphore is not destroyed    *)
(* ("a concurrent Delete() cannot destroy the slot out from under this     *)
(* store", aos_sem.c).                                                     *)
WaiterKeepsSlot ==
  \A t \in Threads, i \in Slots :
    Holds(t, i) => slot[i].in_use /\ slot[i].live /\ slot[i].id = call[t].id

(* No two semaphores share a name and none is nameless. *)
NamesUnique ==
  \A i \in Slots :
    slot[i].in_use =>
      /\ slot[i].name \in Names
      /\ \A j \in Slots : slot[j].in_use /\ slot[j].name = slot[i].name => i = j

(* t has claimed the token of i (flipped state, or taken it from the       *)
(* native semaphore) and has not yet handed it on.                         *)
Carries(t, i) == call[t].pc \in {"post", "rollback", "clear"} /\ SlotOf(t) = i

(* Strict binary semantics: state = 1 exactly when one token is in the     *)
(* native semaphore or in the hands of one poster or waiter.  So the       *)
(* native count never exceeds 1, and a Post refused because state = 1 is   *)
(* always covered by a token some waiter has taken or can take.            *)
TokenConserved ==
  \A i \in Slots :
    LET carried == Cardinality({t \in Threads : Carries(t, i)})
    IN  IF slot[i].id = AOS_ID_NONE
          THEN carried = 0
          ELSE slot[i].state = slot[i].native + carried

(* The roll-back of AOS_SemPost is "practically unreachable" (aos_sem.c):  *)
(* sem_post never overflows nor meets a destroyed semaphore.               *)
RollbackUnreachable == \A t \in Threads : ~At(t, "rollback")

(* Every call but Wait returns, whatever the other threads do: neither the *)
(* table lock nor the native semaphore blocks it for good.                 *)
NonBlockingReturns ==
  \A t \in Threads : call[t].op \notin {"Wait", "none"} ~> call[t] = Idle

(* "a legitimate future post is not permanently blocked" (aos_sem.c): a    *)
(* state flag that no native token backs does not stay set.                *)
PostNotBlockedForever ==
  \A i \in Slots :
    (slot[i].state = 1 /\ slot[i].native = 0)
      ~> (slot[i].state = 0 \/ slot[i].native > 0)

-----------------------------------------------------------------------------
(* Why the safety properties hold: the invariant that the steps keep while *)
(* callers meet all their obligations.                                     *)

(* A point inside a call belongs to that call; past its checks, a call has *)
(* an id of the pool.                                                      *)
CallDiscipline ==
  \A t \in Threads :
    /\ call[t].pc = "idle" => call[t].op = "none"
    /\ call[t].pc \in Ops => call[t].op = call[t].pc
    /\ call[t].pc \in CreatePoints => call[t].op = "Create"
    /\ call[t].pc \in HoldPoints => call[t].op \in WaitOps
    /\ call[t].pc \in PostPoints => call[t].op = "Post"
    /\ call[t].pc \in DeletePoints => call[t].op = "Delete"
    /\ call[t].pc \in CreatePoints \cup HoldPoints \cup PostPoints \cup DeletePoints
         => call[t].id \in SemIds

(* The obligations of the callers, as facts about the calls in progress.   *)
ContractKept ==
  \A t, u \in Threads :
    /\ ~(call[t].op = "Create" /\ call[u].op = "Delete")
    /\ call[t].op = "Post" /\ call[u].op = "Delete" => call[t].id # call[u].id

(* An id stands in a slot only while the semaphore can be used; waiters    *)
(* and posters past their checks find it there, deleters find the slot     *)
(* free, and the one creator finds the slot as it set it.                  *)
SlotDiscipline ==
  /\ \A i \in Slots :
       slot[i].id # AOS_ID_NONE => slot[i].in_use /\ slot[i].live
  /\ \A t \in Threads :
       /\ call[t].pc \in HoldPoints \cup PostPoints =>
            slot[SlotOf(t)].id = call[t].id
       /\ call[t].pc \in DeletePoints =>
            ~slot[SlotOf(t)].in_use /\ call[t].pc # "undelete"
       /\ call[t].pc \in CreatePoints =>
            /\ slot[SlotOf(t)].in_use
            /\ slot[SlotOf(t)].live
            /\ slot[SlotOf(t)].id = AOS_ID_NONE
            /\ slot[SlotOf(t)].native = call[t].value
            /\ call[t].pc = "publish" => slot[SlotOf(t)].state = call[t].value
  /\ \A t, u \in Threads :
       call[t].pc \in CreatePoints /\ call[u].pc \in CreatePoints => t = u

IInv ==
  /\ TypeOK
  /\ CallDiscipline
  /\ ContractKept
  /\ SlotDiscipline
  /\ RefCountExact
  /\ TokenConserved
  /\ RollbackUnreachable
  /\ NamesUnique

=============================================================================
