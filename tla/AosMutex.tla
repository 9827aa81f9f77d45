------------------------------ MODULE AosMutex ------------------------------
(***************************************************************************)
(* The POSIX mutex of aos_mutex.c: an object table in front of native      *)
(* mutexes that are error-checking, non-recursive and inherit priority.    *)
(*                                                                         *)
(* A critical section of the table lock is one step: it is never entered   *)
(* by a thread that holds it, and what it writes outside the native mutex  *)
(* is read only under the lock.  The calls on the native mutex are steps   *)
(* of their own.  A thread that owns a mutex and one that is acquiring it  *)
(* each hold a reference, which keeps AOS_MutexDelete away.                *)
(***************************************************************************)
EXTENDS AosId, FiniteSets

CONSTANTS
  Threads,      (* threads that call the API                               *)
  NoThread,     (* owner of a native mutex nobody has locked               *)
  Names,        (* object names (the valid ones)                           *)
  NoName,       (* the empty string left in a slot that has no occupant    *)
  MaxMutexes,   (* AOS_MAX_MUTEXES                                         *)
  CallIds,      (* the ids callers pass: valid, stale or malformed         *)
  CreateOverlapsDelete  (* whether a Create may overlap a Delete           *)

Slots == 0 .. MaxMutexes - 1

MutexIds == {IdPack(AOS_TYPE_MUTEX, serial, i) :
               serial \in 1 .. SerialMod - 1, i \in Slots}

ASSUME MutexAssumption ==
  /\ IsFiniteSet(Threads)
  /\ NoThread \notin Threads
  /\ NoName \notin Names
  /\ MaxMutexes \in 1 .. 65535
  /\ CallIds \subseteq Nat
  /\ CreateOverlapsDelete \in BOOLEAN

VARIABLES
  slot,   (* g_mutex_pool; owner and live stand for native_mutex           *)
  call    (* per thread: the call it is in, where, and the id it passed    *)

vars == <<slot, call>>

-----------------------------------------------------------------------------
(* Calls and where they are *)

LockOps == {"Lock", "TryLock", "TimedLock"}
Ops     == LockOps \cup {"Create", "Unlock", "Delete", "GetInfo"}

Points == Ops \cup {"deadline", "native", "release", "native_unlock",
                    "destroy", "wipe", "undelete", "idle"}

Idle == [op |-> "none", pc |-> "idle", id |-> AOS_ID_NONE]

At(t, point)   == call[t].pc = point
Goto(t, point) == call' = [call EXCEPT ![t].pc = point]
Return(t)      == call' = [call EXCEPT ![t] = Idle]

(* The slot a thread works on: &g_mutex_pool[AOS_IdIndex(id)]. *)
SlotOf(t) == IdIndex(call[t].id)

(* Callers that serialise creation and deletion, whatever the ids.         *)
Permitted(op) ==
  CreateOverlapsDelete
    \/ \A u \in Threads : {op, call[u].op} # {"Create", "Delete"}

-----------------------------------------------------------------------------
(* The object table *)

EmptySlot == [id |-> AOS_ID_NONE, owner |-> NoThread, live |-> FALSE,
              ref_count |-> 0, serial |-> 0, in_use |-> FALSE, name |-> NoName]

ValidId(id) ==
  /\ IdType(id) = AOS_TYPE_MUTEX
  /\ IdIndex(id) \in Slots
  /\ LET s == slot[IdIndex(id)]
     IN  s.in_use /\ s.id = id /\ s.serial = IdSerial(id)

(* Mutant: the names of free slots are compared, not those in use.         *)
NameTakenByFree(name) == \E i \in Slots : ~slot[i].in_use /\ slot[i].name = name

NameTaken(name) == \E i \in Slots : slot[i].in_use /\ slot[i].name = name

FreeSlots == {i \in Slots : ~slot[i].in_use}

IsFirstFree(i) == i \in FreeSlots /\ \A j \in FreeSlots : i <= j

(* AOS_PosixMutexInit: the pool is zeroed. *)
Init ==
  /\ slot = [i \in Slots |-> EmptySlot]
  /\ call = [t \in Threads |-> Idle]

Begin(t, op, id) ==
  /\ call[t] = Idle
  /\ Permitted(op)
  /\ call' = [call EXCEPT ![t] = [op |-> op, pc |-> op, id |-> id]]
  /\ UNCHANGED slot

-----------------------------------------------------------------------------
(* AOS_MutexCreate *)

(* A taken name, a full table, or a failing attribute or init call: no     *)
(* field has been written.  A bad parameter returns before the lock and is *)
(* left out.                                                               *)
CreateFails(t) ==
  /\ At(t, "Create")
  /\ Return(t)
  /\ UNCHANGED slot

CreateLocked(t) ==
  /\ At(t, "Create")
  /\ \E i \in Slots, name \in Names :
       LET serial == NextSerial(slot[i].serial)
       IN  /\ IsFirstFree(i)
           /\ ~NameTaken(name)
           /\ slot' = [slot EXCEPT ![i] =
                [id |-> IdPack(AOS_TYPE_MUTEX, serial, i),
                 owner |-> NoThread, live |-> TRUE, ref_count |-> 0,
                 serial |-> serial, in_use |-> TRUE, name |-> name]]
  /\ Return(t)

-----------------------------------------------------------------------------
(* AOS_MutexLock, AOS_MutexTryLock, AOS_MutexTimedLock *)

AcquireReference(t) ==
  /\ call[t].pc \in LockOps
  /\ IF ValidId(call[t].id)
       THEN /\ slot' = [slot EXCEPT ![SlotOf(t)].ref_count = @ + 1]
            /\ Goto(t, IF call[t].op = "TimedLock" THEN "deadline" ELSE "native")
       ELSE Return(t) /\ UNCHANGED slot

(* clock_gettime and the absolute deadline; on failure the call gives up.  *)
TakeDeadline(t) ==
  /\ At(t, "deadline")
  /\ Goto(t, "native") \/ Goto(t, "release")
  /\ UNCHANGED slot

(* Mutant: the reference is dropped as soon as the mutex is locked.        *)
NativeLockNoReference(t) ==
  /\ At(t, "native")
  /\ slot[SlotOf(t)].live
  /\ slot[SlotOf(t)].owner = NoThread
  /\ slot' = [slot EXCEPT ![SlotOf(t)].owner = t]
  /\ Goto(t, "release")

(* The native lock call returns 0: the reference stays with the owner.     *)
NativeLock(t) ==
  /\ At(t, "native")
  /\ slot[SlotOf(t)].live
  /\ slot[SlotOf(t)].owner = NoThread
  /\ slot' = [slot EXCEPT ![SlotOf(t)].owner = t]
  /\ Return(t)

(* Mutants: a relock by the owner keeps its second reference; the mutex is *)
(* of a type that does not detect a relock; the timed lock waits without a *)
(* deadline.                                                               *)
NativeLockFailsKeepsReference(t) ==
  /\ At(t, "native")
  /\ \/ slot[SlotOf(t)].owner = t /\ Return(t)
     \/ /\ \/ call[t].op # "Lock" /\ slot[SlotOf(t)].owner # NoThread
           \/ ~slot[SlotOf(t)].live
        /\ Goto(t, "release")
  /\ UNCHANGED slot

NativeLockFailsNoRelockCheck(t) ==
  /\ At(t, "native")
  /\ \/ call[t].op # "Lock" /\ slot[SlotOf(t)].owner # NoThread
     \/ ~slot[SlotOf(t)].live
  /\ Goto(t, "release")
  /\ UNCHANGED slot

NativeLockFailsNoDeadline(t) ==
  /\ At(t, "native")
  /\ \/ slot[SlotOf(t)].owner = t
     \/ call[t].op = "TryLock" /\ slot[SlotOf(t)].owner # NoThread
     \/ ~slot[SlotOf(t)].live
  /\ Goto(t, "release")
  /\ UNCHANGED slot

(* EDEADLK for a relock, EBUSY or ETIMEDOUT while another thread owns it,  *)
(* EINVAL on a destroyed mutex.                                            *)
NativeLockFails(t) ==
  /\ At(t, "native")
  /\ \/ slot[SlotOf(t)].owner = t
     \/ call[t].op # "Lock" /\ slot[SlotOf(t)].owner # NoThread
     \/ ~slot[SlotOf(t)].live
  /\ Goto(t, "release")
  /\ UNCHANGED slot

ReleaseReference(t) ==
  /\ At(t, "release")
  /\ slot' = [slot EXCEPT ![SlotOf(t)].ref_count = IF @ > 0 THEN @ - 1 ELSE @]
  /\ Return(t)

-----------------------------------------------------------------------------
(* AOS_MutexUnlock *)

(* The id is checked under the lock, but no reference is taken. *)
UnlockCheckId(t) ==
  /\ At(t, "Unlock")
  /\ IF ValidId(call[t].id) THEN Goto(t, "native_unlock") ELSE Return(t)
  /\ UNCHANGED slot

(* Mutant: the mutex is of a type that does not check its owner.           *)
NativeUnlockUnchecked(t) ==
  /\ At(t, "native_unlock")
  /\ slot[SlotOf(t)].live
  /\ slot[SlotOf(t)].owner # NoThread
  /\ slot' = [slot EXCEPT ![SlotOf(t)].owner = NoThread]
  /\ Goto(t, "release")

NativeUnlock(t) ==
  /\ At(t, "native_unlock")
  /\ slot[SlotOf(t)].live
  /\ slot[SlotOf(t)].owner = t
  /\ slot' = [slot EXCEPT ![SlotOf(t)].owner = NoThread]
  /\ Goto(t, "release")

(* EPERM for a thread that is not the owner, EINVAL on a destroyed mutex.  *)
NativeUnlockFails(t) ==
  /\ At(t, "native_unlock")
  /\ slot[SlotOf(t)].owner # t \/ ~slot[SlotOf(t)].live
  /\ Return(t)
  /\ UNCHANGED slot

-----------------------------------------------------------------------------
(* AOS_MutexDelete and AOS_MutexGetInfo *)

(* Mutant: the reference count is not looked at.                           *)
DeleteLockedReferenced(t) ==
  /\ At(t, "Delete")
  /\ IF ValidId(call[t].id)
       THEN /\ slot' = [slot EXCEPT ![SlotOf(t)].in_use = FALSE]
            /\ Goto(t, "destroy")
       ELSE Return(t) /\ UNCHANGED slot

DeleteLocked(t) ==
  /\ At(t, "Delete")
  /\ IF ValidId(call[t].id) /\ slot[SlotOf(t)].ref_count = 0
       THEN /\ slot' = [slot EXCEPT ![SlotOf(t)].in_use = FALSE]
            /\ Goto(t, "destroy")
       ELSE Return(t) /\ UNCHANGED slot

(* pthread_mutex_destroy refuses (EBUSY) a locked mutex. *)
DestroyNative(t) ==
  /\ At(t, "destroy")
  /\ IF slot[SlotOf(t)].owner = NoThread
       THEN slot' = [slot EXCEPT ![SlotOf(t)].live = FALSE] /\ Goto(t, "wipe")
       ELSE Goto(t, "undelete") /\ UNCHANGED slot

(* The slot is put back when the destroy failed, and emptied otherwise.    *)
(* The serial stays, so that ids of this occupant remain detectable.       *)
FinishDelete(t) ==
  /\ call[t].pc \in {"wipe", "undelete"}
  /\ slot' = [slot EXCEPT ![SlotOf(t)] =
       IF At(t, "undelete")
         THEN [@ EXCEPT !.in_use = TRUE]
         ELSE [@ EXCEPT !.id = AOS_ID_NONE, !.ref_count = 0, !.name = NoName]]
  /\ Return(t)

(* Reads the slot under the lock, writes nothing shared. *)
GetInfo(t) ==
  /\ At(t, "GetInfo")
  /\ Return(t)
  /\ UNCHANGED slot

-----------------------------------------------------------------------------
Step(t) ==
  \/ CreateFails(t) \/ CreateLocked(t)
  \/ AcquireReference(t) \/ TakeDeadline(t)
  \/ NativeLock(t) \/ NativeLockFails(t) \/ ReleaseReference(t)
  \/ UnlockCheckId(t) \/ NativeUnlock(t) \/ NativeUnlockFails(t)
  \/ DeleteLocked(t) \/ DestroyNative(t) \/ FinishDelete(t)
  \/ GetInfo(t)

Next ==
  \E t \in Threads :
    \/ Begin(t, "Create", AOS_ID_NONE)
    \/ \E op \in Ops \ {"Create"}, id \in CallIds : Begin(t, op, id)
    \/ Step(t)

Spec == Init /\ [][Next]_vars

(* Every thread inside the API is scheduled again and gets the table lock. *)
(* Nothing makes a thread call the API, and nothing makes an owner unlock. *)
FairSpec == Spec /\ \A t \in Threads : WF_vars(Step(t))

-----------------------------------------------------------------------------
(* Properties *)

SlotType ==
  [id: MutexIds \cup {AOS_ID_NONE}, owner: Threads \cup {NoThread}, live: BOOLEAN,
   ref_count: Nat, serial: 0 .. SerialMod - 1, in_use: BOOLEAN,
   name: Names \cup {NoName}]

CallType == [op: Ops \cup {"none"}, pc: Points, id: CallIds \cup {AOS_ID_NONE}]

(* Every field of a slot and every local of a call stays in its type: the  *)
(* 8-bit serial, the owner, an id that is none or one of the pool.         *)
TypeOK ==
  /\ slot \in [Slots -> SlotType]
  /\ call \in [Threads -> CallType]

RefPoints    == {"deadline", "native", "release"}
DeletePoints == {"destroy", "wipe", "undelete"}

(* t holds a reference on i for the call it is in. *)
Refers(t, i) == call[t].pc \in RefPoints /\ SlotOf(t) = i

(* ref_count is the number of lockers and unlockers inside the API, plus   *)
(* one for the owner: the reference taken by Lock is given back by the     *)
(* Unlock of the same ownership or by the failing lock, once.              *)
RefCountExact ==
  \A i \in Slots :
    slot[i].ref_count = Cardinality({t \in Threads : Refers(t, i)})
                          + (IF slot[i].owner # NoThread THEN 1 ELSE 0)

(* Who holds a reference keeps the mutex it named, native and all. *)
LockerKeepsSlot ==
  \A t \in Threads, i \in Slots :
    Refers(t, i) => slot[i].in_use /\ slot[i].live /\ slot[i].id = call[t].id

(* The owner of a mutex can always give it back: its id passes the checks  *)
(* of AOS_MutexUnlock and the native mutex is alive ("Release a mutex      *)
(* owned by the current task/thread", aos_mutex.h).                        *)
OwnerCanUnlock ==
  \A i \in Slots :
    slot[i].owner # NoThread =>
      slot[i].live /\ ValidId(slot[i].id) /\ IdIndex(slot[i].id) = i

(* "Prevent new users from acquiring references while                      *)
(* pthread_mutex_destroy() is in progress" (aos_mutex.c): the mutex being  *)
(* destroyed has no owner and nobody holds a reference on its slot.        *)
NoUserDuringDestroy ==
  \A t \in Threads :
    At(t, "destroy") =>
      /\ slot[SlotOf(t)].owner = NoThread
      /\ \A u \in Threads : ~Refers(u, SlotOf(t))

(* Every call but Lock returns, whatever the other threads do. *)
NonBlockingReturns ==
  \A t \in Threads : call[t].op \notin {"Lock", "none"} ~> call[t] = Idle

-----------------------------------------------------------------------------
(* Why the safety properties hold: the invariant that the steps keep while *)
(* no create overlaps a delete.                                            *)

(* A point inside a call belongs to that call; past its checks, a call has *)
(* an id of the pool.                                                      *)
Disciplined(c) ==
  /\ c.pc = "idle" => c.op = "none"
  /\ c.pc \in Ops => c.op = c.pc
  /\ c.pc \in {"deadline", "native"} => c.op \in LockOps
  /\ c.pc = "release" => c.op \in LockOps \cup {"Unlock"}
  /\ c.pc = "native_unlock" => c.op = "Unlock"
  /\ c.pc \in DeletePoints => c.op = "Delete"
  /\ c.pc \in RefPoints \cup DeletePoints \cup {"native_unlock"} => c.id \in MutexIds

CallDiscipline == \A t \in Threads : Disciplined(call[t])

ContractKept ==
  \A t, u \in Threads : ~(call[t].op = "Create" /\ call[u].op = "Delete")

(* A slot in use has a live mutex and the id of its place and serial; only *)
(* such a slot has an owner or references, and the owner of a mutex that   *)
(* passed the check of AOS_MutexUnlock still finds it under its id.        *)
SlotDiscipline ==
  /\ \A i \in Slots :
       /\ slot[i].in_use => /\ slot[i].live
                            /\ slot[i].id \in MutexIds
                            /\ IdIndex(slot[i].id) = i
                            /\ IdSerial(slot[i].id) = slot[i].serial
       /\ slot[i].owner # NoThread => slot[i].in_use
  /\ \A t \in Threads :
       LET s == slot[SlotOf(t)]
       IN  /\ call[t].pc \in RefPoints => s.in_use /\ s.id = call[t].id
           /\ call[t].pc \in DeletePoints => ~s.in_use /\ call[t].pc # "undelete"
           /\ At(t, "native_unlock") /\ s.owner = t => s.id = call[t].id

(* No two mutexes share a name. *)
NamesUnique ==
  \A i, j \in Slots :
    slot[i].in_use /\ slot[j].in_use /\ slot[i].name = slot[j].name => i = j

IInv ==
  /\ TypeOK
  /\ CallDiscipline
  /\ ContractKept
  /\ SlotDiscipline
  /\ RefCountExact
  /\ NamesUnique

=============================================================================
