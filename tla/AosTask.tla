------------------------------ MODULE AosTask ------------------------------
(***************************************************************************)
(* The POSIX tasks of aos_task.c: the task table, the native threads that  *)
(* AOS_TaskCreate starts, and the calls that end and reap them.            *)
(*                                                                         *)
(* A section under g_task_lock is one step; no call keeps the lock between *)
(* steps, so it is not a variable.  A call has no effect before its first  *)
(* section: entering the call and that section are one step, and a call    *)
(* that is refused there changes nothing.  The steps outside the lock are  *)
(* the calls pthread_create, pthread_cancel and pthread_join, and the      *)
(* trampoline's read of its slot's id.                                     *)
(***************************************************************************)
EXTENDS AosId, FiniteSets

CONSTANTS
  Callers,     (* threads the module did not create (main, ...)            *)
  Natives,     (* threads pthread_create may start, each with a handle of  *)
               (* its own: their number bounds the creations of a run      *)
  NoThread,    (* a handle that designates no thread                       *)
  Names,       (* task names                                               *)
  EmptyName,   (* the empty string: a slot without a name, or a task's     *)
  MaxTasks,    (* AOS_MAX_TASKS                                            *)
  Priorities,  (* the AOS priorities in use, among 0 .. 31                 *)
  RtEnabled,   (* g_rt_enabled: threads have native priorities             *)
  CallIds,     (* the ids callers pass: valid, stale or malformed          *)
  Contract     (* the obligations callers keep, see Permitted              *)

Slots == 0 .. MaxTasks - 1

Actors == Callers \cup Natives

TaskIds == {IdPack(AOS_TYPE_TASK, serial, i) :
              serial \in 1 .. SerialMod - 1, i \in Slots}

Obligations == {"one join", "one delete", "created first", "no self delete",
                "deleted tasks reap no one", "no join of a joiner",
                "no priority after join"}

ASSUME TaskAssumption ==
  /\ Callers \cap Natives = {}
  /\ NoThread \notin Actors
  /\ MaxTasks \in 1 .. 65535
  /\ 0 \in Priorities
  /\ RtEnabled \in BOOLEAN
  /\ CallIds \subseteq Nat
  /\ Contract \subseteq Obligations

VARIABLES
  slot,    (* g_task_pool                                                  *)
  native,  (* per native thread: where it is, and what pthread keeps of it *)
  call,    (* per thread: the call it is in, where, and its locals         *)
  misused  (* history: the native functions that were given the handle of  *)
           (* no thread or of a thread already joined, which is undefined  *)

vars == <<slot, native, call, misused>>

-----------------------------------------------------------------------------
(* Calls, threads and where they are *)

Idle == [op |-> "none", pc |-> "idle", id |-> AOS_ID_NONE,
         thread |-> NoThread, priority |-> 0]

Reapers == {"Join", "Delete"}
Points  == {"idle", "spawn", "rollback", "cancel", "join", "free"}

At(u, point)   == call[u].pc = point
Goto(u, point) == call' = [call EXCEPT ![u].pc = point]
Return(u)      == call' = [call EXCEPT ![u] = Idle]

(* The trampoline's points, and the two states of a thread that is over.   *)
Stages == {"none", "start", "named", "body", "cleanup", "ended", "reaped"}

(* A handle that may be passed to pthread_cancel, _join or _setschedprio.  *)
Usable(h) == h \in Natives /\ native[h].stage \notin {"none", "reaped"}

(* slot->id of the thread's task; its index is the slot pointer that       *)
(* AOS_TaskCreate passes to the trampoline.                                *)
HomeOf(n) == IdIndex(native[n].task)
SlotOf(u) == IdIndex(call[u].id)

(* A task calls the API from its entry function. *)
CanCall(u) == call[u] = Idle /\ (u \in Natives => native[u].stage = "body")

EmptySlot == [thread |-> NoThread, entry |-> AOS_ID_NONE, id |-> AOS_ID_NONE,
              priority |-> 0, state |-> "UNUSED", serial |-> 0,
              in_use |-> FALSE, joined |-> FALSE, name |-> EmptyName]

NoNative == [stage |-> "none", task |-> AOS_ID_NONE, key |-> AOS_ID_NONE,
             runs |-> AOS_ID_NONE, priority |-> 0, cancelled |-> FALSE]

(* AOS_PosixTaskInit: the pool is zeroed. *)
Init ==
  /\ slot = [i \in Slots |-> EmptySlot]
  /\ native = [n \in Natives |-> NoNative]
  /\ call = [u \in Actors |-> Idle]
  /\ misused = {}

ValidId(id) ==
  /\ IdType(id) = AOS_TYPE_TASK
  /\ IdIndex(id) \in Slots
  /\ LET s == slot[IdIndex(id)]
     IN  s.in_use /\ s.id = id /\ s.serial = IdSerial(id)

-----------------------------------------------------------------------------
(* What callers promise.  aos_task.h documents "one join": a task is not   *)
(* joined by two callers, nor joined and deleted at the same time.  The    *)
(* other obligations are not documented.                                   *)

Reaping(u, id) == call[u].op \in Reapers /\ call[u].id = id

Permitted(u, op, id) ==
  /\ "one join" \in Contract =>
       \A v \in Actors : Reaping(v, id) => op # "Join" /\ call[v].op # "Join"
  /\ "one delete" \in Contract =>
       ~(op = "Delete" /\ \E v \in Actors : Reaping(v, id) /\ call[v].op = "Delete")
  /\ "created first" \in Contract =>
       ~\E v \in Actors : call[v].op = "Create" /\ call[v].id = id
  /\ "no self delete" \in Contract =>
       ~(op = "Delete" /\ u \in Natives /\ native[u].task = id)
  /\ "deleted tasks reap no one" \in Contract =>
       /\ op = "Delete" =>
            ~\E n \in Natives : native[n].task = id /\ call[n].op \in Reapers
       /\ u \in Natives /\ op \in Reapers =>
            ~\E v \in Actors : call[v].op = "Delete" /\ call[v].id = native[u].task
  /\ "no join of a joiner" \in Contract =>
       ~(/\ u \in Natives /\ op \in Reapers
         /\ \E n \in Natives : native[n].task = id /\ call[n].op \in Reapers)
  /\ "no priority after join" \in Contract =>
       ~(op = "SetPriority" /\ ValidId(id) /\ slot[IdIndex(id)].joined)

-----------------------------------------------------------------------------
(* AOS_TaskCreate *)

NameTaken(name) == \E i \in Slots : slot[i].in_use /\ slot[i].name = name

FreeSlots == {i \in Slots : ~slot[i].in_use}

IsFirstFree(i) == i \in FreeSlots /\ \A j \in FreeSlots : i <= j

(* The slot is filled and the id handed out; thread still holds the handle *)
(* of the slot's previous occupant.  entry stands for the function and its *)
(* argument, named by the task they were given for.                        *)
CreateLocked(u) ==
  /\ CanCall(u)
  /\ \E i \in Slots, name \in Names, priority \in Priorities :
       LET serial == NextSerial(slot[i].serial)
           id     == IdPack(AOS_TYPE_TASK, serial, i)
       IN  /\ IsFirstFree(i)
           /\ ~NameTaken(name)
           /\ slot' = [slot EXCEPT ![i] =
                [thread |-> slot[i].thread, entry |-> id, id |-> id,
                 priority |-> priority, state |-> "STARTING",
                 serial |-> serial, in_use |-> TRUE, joined |-> FALSE,
                 name |-> name]]
           /\ call' = [call EXCEPT ![u] =
                [op |-> "Create", pc |-> "spawn", id |-> id,
                 thread |-> NoThread, priority |-> priority]]
  /\ UNCHANGED <<native, misused>>

(* pthread_create stores the handle before the new thread can run (glibc). *)
Spawn(u) ==
  /\ At(u, "spawn")
  /\ \E n \in Natives :
       /\ native[n].stage = "none"
       /\ native' = [native EXCEPT ![n] =
            [NoNative EXCEPT !.stage = "start", !.task = call[u].id,
                             !.priority = IF RtEnabled THEN call[u].priority ELSE 0]]
       /\ slot' = [slot EXCEPT ![SlotOf(u)].thread = n]
  /\ Return(u)
  /\ UNCHANGED misused

(* Bad attributes, or pthread_create fails: it may have written a handle   *)
(* that designates nothing.                                                *)
SpawnFails(u) ==
  /\ At(u, "spawn")
  /\ \E h \in {NoThread, slot[SlotOf(u)].thread} :
       slot' = [slot EXCEPT ![SlotOf(u)].thread = h]
  /\ Goto(u, "rollback")
  /\ UNCHANGED <<native, misused>>

Rollback(u) ==
  /\ At(u, "rollback")
  /\ slot' = [slot EXCEPT ![SlotOf(u)].in_use = FALSE,
                          ![SlotOf(u)].state = "UNUSED"]
  /\ Return(u)
  /\ UNCHANGED <<native, misused>>

-----------------------------------------------------------------------------
(* AOS_PosixTaskTrampoline, the entry function, AOS_PosixTaskCleanup *)

(* The read of slot->id, without the lock; AOS_TaskGetId returns the key.  *)
StoreIdentity(n) ==
  /\ native[n].stage = "start"
  /\ native' = [native EXCEPT ![n].stage = "named", ![n].key = slot[HomeOf(n)].id]
  /\ UNCHANGED <<slot, call, misused>>

(* The locked section reads entry and arg, then the task's own code runs.  *)
EnterBody(n) ==
  /\ native[n].stage = "named"
  /\ slot' = [slot EXCEPT ![HomeOf(n)].state = "RUNNING"]
  /\ native' = [native EXCEPT ![n].stage = "body", ![n].runs = slot[HomeOf(n)].entry]
  /\ UNCHANGED <<call, misused>>

(* The entry function returns or calls AOS_TaskExit. *)
BodyEnds(n) ==
  /\ native[n].stage = "body"
  /\ call[n] = Idle
  /\ native' = [native EXCEPT ![n].stage = "cleanup"]
  /\ UNCHANGED <<slot, call, misused>>

(* A pending cancellation takes effect at a cancellation point: one in the *)
(* entry function, AOS_TaskDelay, or the pthread_join of a call by the     *)
(* task, which it leaves without having joined anybody.  The task's own    *)
(* code may as well never come to one: it spins, or sits in AOS_MutexLock. *)
ActOnCancel(n) ==
  /\ native[n].stage = "body"
  /\ native[n].cancelled
  /\ call[n] = Idle \/ At(n, "join")
  /\ native' = [native EXCEPT ![n].stage = "cleanup"]
  /\ Return(n)
  /\ UNCHANGED <<slot, misused>>

(* Mutant: the handler does not record the exit.                           *)
CleanupSilent(n) ==
  /\ native[n].stage = "cleanup"
  /\ native' = [native EXCEPT ![n].stage = "ended"]
  /\ UNCHANGED <<slot, call, misused>>

(* The handler checks in_use only.  After it the thread touches nothing    *)
(* shared: its end is part of this step.                                   *)
Cleanup(n) ==
  /\ native[n].stage = "cleanup"
  /\ IF slot[HomeOf(n)].in_use
       THEN slot' = [slot EXCEPT ![HomeOf(n)].state = "EXITED"]
       ELSE UNCHANGED slot
  /\ native' = [native EXCEPT ![n].stage = "ended"]
  /\ UNCHANGED <<call, misused>>

-----------------------------------------------------------------------------
(* AOS_TaskDelete and AOS_TaskJoin *)

(* Mutants: the test of joined is inverted, or missing.                    *)
DeleteLockedInverted(u, id) ==
  /\ CanCall(u)
  /\ Permitted(u, "Delete", id)
  /\ ValidId(id)
  /\ LET s == slot[IdIndex(id)]
     IN  /\ slot' = [slot EXCEPT ![IdIndex(id)].joined = TRUE]
         /\ call' = IF s.thread = u
                      THEN call
                      ELSE [call EXCEPT ![u] =
                             [op |-> "Delete", id |-> id, priority |-> 0,
                              pc |-> IF s.joined THEN "cancel" ELSE "free",
                              thread |-> s.thread]]
  /\ UNCHANGED <<native, misused>>

DeleteLockedAlwaysReaps(u, id) ==
  /\ CanCall(u)
  /\ Permitted(u, "Delete", id)
  /\ ValidId(id)
  /\ LET s == slot[IdIndex(id)]
     IN  /\ slot' = [slot EXCEPT ![IdIndex(id)].joined = TRUE]
         /\ call' = IF s.thread = u
                      THEN call
                      ELSE [call EXCEPT ![u] =
                             [op |-> "Delete", id |-> id, priority |-> 0,
                              pc |-> "cancel", thread |-> s.thread]]
  /\ UNCHANGED <<native, misused>>

(* joined is set before the task is found to delete itself. *)
DeleteLocked(u, id) ==
  /\ CanCall(u)
  /\ Permitted(u, "Delete", id)
  /\ ValidId(id)
  /\ LET s == slot[IdIndex(id)]
     IN  /\ slot' = [slot EXCEPT ![IdIndex(id)].joined = TRUE]
         /\ call' = IF s.thread = u
                      THEN call
                      ELSE [call EXCEPT ![u] =
                             [op |-> "Delete", id |-> id, priority |-> 0,
                              pc |-> IF s.joined THEN "free" ELSE "cancel",
                              thread |-> s.thread]]
  /\ UNCHANGED <<native, misused>>

(* Mutant: the claim is recorded before the self check.                    *)
JoinLockedClaimsFirst(u, id) ==
  /\ CanCall(u)
  /\ Permitted(u, "Join", id)
  /\ ValidId(id)
  /\ LET s == slot[IdIndex(id)]
     IN  /\ ~s.joined
         /\ slot' = [slot EXCEPT ![IdIndex(id)].joined = TRUE]
         /\ call' = IF s.thread = u
                      THEN call
                      ELSE [call EXCEPT ![u] =
                             [op |-> "Join", pc |-> "join", id |-> id,
                              thread |-> s.thread, priority |-> 0]]
  /\ UNCHANGED <<native, misused>>

JoinLocked(u, id) ==
  /\ CanCall(u)
  /\ Permitted(u, "Join", id)
  /\ ValidId(id)
  /\ LET s == slot[IdIndex(id)]
     IN  /\ ~s.joined
         /\ s.thread # u
         /\ slot' = [slot EXCEPT ![IdIndex(id)].joined = TRUE]
         /\ call' = [call EXCEPT ![u] = [op |-> "Join", pc |-> "join", id |-> id,
                                         thread |-> s.thread, priority |-> 0]]
  /\ UNCHANGED <<native, misused>>

(* Mutants: the slot is freed without joining the thread; the task is not  *)
(* asked to end.                                                           *)
CancelNativeNoJoin(u) ==
  /\ At(u, "cancel")
  /\ IF Usable(call[u].thread)
       THEN /\ native' = [native EXCEPT ![call[u].thread].cancelled = TRUE]
            /\ UNCHANGED misused
       ELSE misused' = misused \cup {"cancel"} /\ UNCHANGED native
  /\ Goto(u, "free")
  /\ UNCHANGED slot

CancelNativeSkipped(u) ==
  /\ At(u, "cancel")
  /\ Goto(u, "join")
  /\ UNCHANGED <<slot, native, misused>>

CancelNative(u) ==
  /\ At(u, "cancel")
  /\ IF Usable(call[u].thread)
       THEN /\ native' = [native EXCEPT ![call[u].thread].cancelled = TRUE]
            /\ UNCHANGED misused
       ELSE misused' = misused \cup {"cancel"} /\ UNCHANGED native
  /\ Goto(u, "join")
  /\ UNCHANGED slot

(* pthread_join returns once the thread is over; AOS_TaskJoin returns,     *)
(* AOS_TaskDelete goes on to free the slot.  On no thread or on one that   *)
(* is already joined anything may happen: here the call returns an error.  *)
JoinNative(u) ==
  /\ At(u, "join")
  /\ LET h == call[u].thread
     IN  IF Usable(h)
           THEN /\ native[h].stage = "ended"
                /\ native' = [native EXCEPT ![h].stage = "reaped"]
                /\ IF call[u].op = "Delete" THEN Goto(u, "free") ELSE Return(u)
                /\ UNCHANGED misused
           ELSE /\ misused' = misused \cup {IF h \in Natives THEN "rejoin" ELSE "join"}
                /\ Return(u)
                /\ UNCHANGED native
  /\ UNCHANGED slot

(* EDEADLK: the target is itself joining the caller (glibc looks no        *)
(* further).  The call returns with joined left set.                       *)
JoinRefused(u) ==
  /\ At(u, "join")
  /\ u \in Natives
  /\ LET n == call[u].thread
     IN  /\ n \in Natives
         /\ At(n, "join")
         /\ call[n].thread = u
         /\ ~native[n].cancelled /\ ~native[u].cancelled
  /\ Return(u)
  /\ UNCHANGED <<slot, native, misused>>

(* Mutant: only the slot of a task that has exited is freed.               *)
FreeSlotIfExited(u) ==
  /\ At(u, "free")
  /\ LET i == SlotOf(u)
     IN  IF slot[i].in_use /\ slot[i].id = call[u].id /\ slot[i].state = "EXITED"
           THEN slot' = [slot EXCEPT ![i] =
                  [slot[i] EXCEPT !.in_use = FALSE, !.joined = FALSE,
                                  !.state = "UNUSED", !.entry = AOS_ID_NONE,
                                  !.name = EmptyName]]
           ELSE UNCHANGED slot
  /\ Return(u)
  /\ UNCHANGED <<native, misused>>

FreeSlot(u) ==
  /\ At(u, "free")
  /\ LET i == SlotOf(u)
     IN  IF slot[i].in_use /\ slot[i].id = call[u].id
           THEN slot' = [slot EXCEPT ![i] =
                  [slot[i] EXCEPT !.in_use = FALSE, !.joined = FALSE,
                                  !.state = "UNUSED", !.entry = AOS_ID_NONE,
                                  !.name = EmptyName]]
           ELSE UNCHANGED slot
  /\ Return(u)
  /\ UNCHANGED <<native, misused>>

-----------------------------------------------------------------------------
(* Mutant: the new priority is stored but not given to the thread.         *)
SetPriorityStoredOnly(u, id, priority) ==
  /\ CanCall(u)
  /\ Permitted(u, "SetPriority", id)
  /\ ValidId(id)
  /\ slot' = [slot EXCEPT ![IdIndex(id)].priority = priority]
  /\ UNCHANGED <<native, call, misused>>

(* AOS_TaskSetPriority: one section.  AOS_TaskGetInfo, AOS_TaskGetId and   *)
(* AOS_TaskYield change no state; AOS_TaskDelay only waits.                *)
SetPriority(u, id, priority) ==
  /\ CanCall(u)
  /\ Permitted(u, "SetPriority", id)
  /\ ValidId(id)
  /\ LET i == IdIndex(id)
         h == slot[i].thread
     IN  /\ slot' = [slot EXCEPT ![i].priority = priority]
         /\ IF RtEnabled /\ Usable(h)
              THEN native' = [native EXCEPT ![h].priority = priority]
              ELSE UNCHANGED native
         /\ misused' = IF RtEnabled /\ ~Usable(h) THEN misused \cup {"setschedprio"}
                                             ELSE misused
  /\ UNCHANGED call

-----------------------------------------------------------------------------
(* The specification *)

CreateStep(u) == Spawn(u) \/ SpawnFails(u) \/ Rollback(u)

ReapStep(u) ==
  CancelNative(u) \/ JoinNative(u) \/ JoinRefused(u) \/ FreeSlot(u)

ThreadStep(n) == StoreIdentity(n) \/ EnterBody(n) \/ Cleanup(n)

Request(u) ==
  \/ CreateLocked(u)
  \/ \E id \in CallIds :
       \/ DeleteLocked(u, id)
       \/ JoinLocked(u, id)
       \/ \E priority \in Priorities : SetPriority(u, id, priority)

Next ==
  \/ \E u \in Actors : Request(u) \/ CreateStep(u) \/ ReapStep(u)
  \/ \E n \in Natives : ThreadStep(n) \/ BodyEnds(n) \/ ActOnCancel(n)

Spec == Init /\ [][Next]_vars

(* The scheduler runs every thread inside the API and inside the           *)
(* trampoline.  Nothing makes a task end, on its own or when it is asked   *)
(* to, or a thread call the API.                                           *)
Fairness ==
  /\ \A u \in Actors : WF_vars(CreateStep(u)) /\ WF_vars(ReapStep(u))
  /\ \A n \in Natives : WF_vars(ThreadStep(n))

FairSpec == Spec /\ Fairness

-----------------------------------------------------------------------------
(* Properties *)

SlotType ==
  [thread : Natives \cup {NoThread}, entry : TaskIds \cup {AOS_ID_NONE},
   id : TaskIds \cup {AOS_ID_NONE}, priority : Priorities,
   state : {"UNUSED", "STARTING", "RUNNING", "EXITED"},
   serial : 0 .. SerialMod - 1, in_use : BOOLEAN, joined : BOOLEAN,
   name : Names \cup {EmptyName}]

NativeType ==
  [stage : Stages, task : TaskIds \cup {AOS_ID_NONE},
   key : TaskIds \cup {AOS_ID_NONE}, runs : TaskIds \cup {AOS_ID_NONE},
   priority : Priorities, cancelled : BOOLEAN]

CallType ==
  [op : {"none", "Create"} \cup Reapers, pc : Points,
   id : TaskIds \cup {AOS_ID_NONE}, thread : Natives \cup {NoThread},
   priority : Priorities]

(* Slots, threads and calls keep their types; serials stay within their    *)
(* width and no task has serial 0.                                         *)
TypeOK ==
  /\ slot \in [Slots -> SlotType]
  /\ native \in [Natives -> NativeType]
  /\ call \in [Actors -> CallType]
  /\ misused \subseteq {"cancel", "join", "rejoin", "setschedprio"}

(* The slot is between AOS_TaskCreate's lock section and the return of     *)
(* pthread_create.                                                         *)
Creating(i) == \E u \in Actors : call[u].op = "Create" /\ SlotOf(u) = i

(* No native call gets the handle of no thread, or of one already joined.  *)
HandlesSound == misused = {}

(* A thread that was started and not yet joined has its slot: the slot is  *)
(* occupied, carries the id of its task and the thread's handle.  So its   *)
(* late writes reach no other task, and it can still be reaped.            *)
SlotOutlivesThread ==
  \A n \in Natives :
    native[n].stage \notin {"none", "reaped"} =>
      LET s == slot[HomeOf(n)]
      IN  s.in_use /\ s.id = native[n].task /\ s.thread = n

(* joined means what its comment says: somebody is committed to reaping    *)
(* the thread, or has reaped it.                                           *)
ClaimIsKept ==
  \A i \in Slots :
    slot[i].in_use /\ slot[i].joined =>
      \/ native[slot[i].thread].stage = "reaped"
      \/ \E u \in Actors : Reaping(u, slot[i].id) /\ call[u].pc \in {"cancel", "join"}

(* What AOS_TaskGetInfo reports agrees with the thread.                    *)
StateTruthful ==
  \A i \in Slots :
    slot[i].in_use =>
      LET stage == IF Creating(i) THEN "start" ELSE native[slot[i].thread].stage
      IN  \/ slot[i].state = "STARTING" /\ stage \in {"start", "named"}
          \/ slot[i].state = "RUNNING"  /\ stage \in {"body", "cleanup"}
          \/ slot[i].state = "EXITED"   /\ stage \in {"ended", "reaped"}

(* A thread runs the entry function of the task it was started for, and    *)
(* AOS_TaskGetId tells it the id of that task.                             *)
OwnIdentity ==
  \A n \in Natives :
    /\ native[n].stage \notin {"none", "start"} => native[n].key = native[n].task
    /\ native[n].stage \in {"body", "cleanup", "ended"} =>
         native[n].runs = native[n].task

(* With real-time scheduling, a thread that is not yet joined runs at the  *)
(* priority AOS_TaskGetInfo reports.                                       *)
PriorityApplied ==
  RtEnabled =>
    \A n \in Natives :
      native[n].stage \notin {"none", "reaped"} =>
        native[n].priority = slot[HomeOf(n)].priority

-----------------------------------------------------------------------------
(* Why they hold: an inductive invariant, for callers that keep the whole  *)
(* contract.                                                               *)

Started(n) == native[n].stage \notin {"none", "reaped"}

(* A point inside a call belongs to that call; tasks are inside a call     *)
(* only while they run their entry function.                               *)
CallDiscipline ==
  \A u \in Actors :
    /\ call[u].op = "none" => call[u] = Idle
    /\ call[u].op = "Create" => call[u].pc \in {"spawn", "rollback"}
    /\ call[u].op = "Join" => call[u].pc = "join"
    /\ call[u].op = "Delete" => call[u].pc \in {"cancel", "join", "free"}
    /\ call[u].op # "none" => call[u].id \in TaskIds
    /\ u \in Natives /\ call[u].op # "none" => native[u].stage = "body"

(* The contract, as a fact about the calls in progress. *)
ContractKept ==
  /\ \A u, v \in Actors :
       /\ call[u].op \in Reapers /\ call[v].op \in Reapers
       /\ call[u].id = call[v].id
       => u = v
  /\ \A u \in Actors, n \in Natives :
       call[u].op = "Delete" /\ native[n].task = call[u].id => call[n].op \notin Reapers
  /\ \A n, m \in Natives :
       ~(/\ call[n].op \in Reapers /\ call[n].thread = m
         /\ call[m].op \in Reapers /\ call[m].thread = n)

(* Whoever creates a task finds its slot as it was filled, and no other    *)
(* creator and no started thread there.                                    *)
CreatorDiscipline ==
  \A u \in Actors : call[u].op = "Create" =>
    /\ LET s == slot[SlotOf(u)]
       IN  /\ s.in_use /\ ~s.joined /\ s.id = call[u].id
           /\ s.priority = call[u].priority
    /\ \A v \in Actors : call[v].op = "Create" /\ SlotOf(v) = SlotOf(u) => v = u
    /\ \A n \in Natives : Started(n) => HomeOf(n) # SlotOf(u)

(* A slot in use has the id of its place and serial, and once its thread   *)
(* is created it is the slot of that thread.                               *)
SlotDiscipline ==
  \A i \in Slots : slot[i].in_use =>
    /\ slot[i].id \in TaskIds /\ IdIndex(slot[i].id) = i
    /\ IdSerial(slot[i].id) = slot[i].serial
    /\ slot[i].entry = slot[i].id
    /\ ~Creating(i) =>
         /\ slot[i].thread \in Natives
         /\ native[slot[i].thread].task = slot[i].id
         /\ native[slot[i].thread].stage # "none"
         /\ native[slot[i].thread].stage = "reaped" => slot[i].joined

(* Whoever reaps a task finds its own claim and the task's thread.         *)
ReaperDiscipline ==
  \A u \in Actors : call[u].op \in Reapers =>
    LET s == slot[SlotOf(u)]
    IN  /\ s.in_use /\ s.joined /\ s.id = call[u].id /\ s.thread = call[u].thread
        /\ ~Creating(SlotOf(u))
        /\ call[u].pc = "free" <=> ~Started(s.thread)

(* A thread is asked to end only by a delete that is waiting for it. *)
CancelDiscipline ==
  \A n \in Natives : Started(n) /\ native[n].cancelled =>
    \E u \in Actors :
      call[u].op = "Delete" /\ call[u].pc = "join" /\ call[u].thread = n

IInv ==
  /\ TypeOK
  /\ CallDiscipline
  /\ ContractKept
  /\ CreatorDiscipline
  /\ SlotDiscipline
  /\ ReaperDiscipline
  /\ CancelDiscipline
  /\ HandlesSound
  /\ SlotOutlivesThread
  /\ ClaimIsKept
  /\ StateTruthful
  /\ OwnIdentity
  /\ PriorityApplied

-----------------------------------------------------------------------------
(* What holds for callers that keep three of the obligations only: the     *)
(* inductive invariant behind HandlesSound and DeleteFreesSlot.            *)

LooseContract == {"created first", "one delete", "no priority after join"}

(* u is committed to reaping thread h: nobody else may join it meanwhile.  *)
Claims(u, h) == call[u].pc \in {"cancel", "join"} /\ call[u].thread = h

(* The one creator of a slot finds it as it was filled. *)
CreatorAlone ==
  \A u \in Actors : call[u].op = "Create" =>
    /\ LET s == slot[SlotOf(u)]
       IN  s.in_use /\ ~s.joined /\ s.id = call[u].id
    /\ \A v \in Actors : call[v].op = "Create" /\ SlotOf(v) = SlotOf(u) => v = u

(* The one deleter of a task has its slot until it frees it. *)
DeleterAlone ==
  \A u \in Actors : call[u].op = "Delete" =>
    /\ LET s == slot[SlotOf(u)]
       IN  s.in_use /\ s.joined /\ s.id = call[u].id
    /\ \A v \in Actors : call[v].op = "Delete" /\ SlotOf(v) = SlotOf(u) => v = u

(* A task that nobody has claimed can still be reaped: its thread was      *)
(* started, was not joined, and is in nobody's hands.                      *)
UnclaimedReapable ==
  \A i \in Slots : slot[i].in_use =>
    /\ slot[i].id \in TaskIds /\ IdIndex(slot[i].id) = i
    /\ ~slot[i].joined /\ ~Creating(i) =>
         LET h == slot[i].thread
         IN  /\ h \in Natives /\ Started(h) /\ native[h].task = slot[i].id
             /\ \A u \in Actors : ~Claims(u, h)

(* A claimed thread is not joined, and claimed by one caller; a delete     *)
(* that waits for it has asked it to end.                                  *)
ClaimAlone ==
  \A u \in Actors : call[u].pc \in {"cancel", "join"} =>
    LET h == call[u].thread
    IN  /\ h \in Natives /\ Started(h)
        /\ \A v \in Actors : Claims(v, h) => v = u
        /\ call[u].op = "Delete" /\ call[u].pc = "join" => native[h].cancelled

LooseInv ==
  /\ TypeOK
  /\ CallDiscipline
  /\ CreatorAlone
  /\ DeleterAlone
  /\ UnclaimedReapable
  /\ ClaimAlone
  /\ HandlesSound

-----------------------------------------------------------------------------
(* Liveness *)

(* The task comes to cancellation points while its own code runs, so that  *)
(* once asked to end it does.  Nothing in the code makes a task do so.     *)
ActsOnCancel(n) == SF_vars(ActOnCancel(n))

(* AOS_TaskDelete of a task that acts on cancellation returns, or its      *)
(* caller has ended, whatever the other tasks do: they may ignore that     *)
(* they are deleted themselves, join the task, or be joined by it.  Of a   *)
(* task that does not act on it, AOS_TaskDelete need not return.           *)
DeleteReturns ==
  \A n \in Natives :
    ActsOnCancel(n) =>
      \A u \in Actors :
        (call[u].op = "Delete" /\ call[u].thread = n) ~> (call[u].op # "Delete")

(* An AOS_TaskDelete that was not refused leaves its task's slot free,     *)
(* unless its caller is a task that was itself made to end meanwhile.      *)
DeleteFreesSlot ==
  [][\A u \in Actors :
       call[u].op = "Delete" /\ call'[u].op # "Delete" =>
         \/ LET s == slot'[SlotOf(u)] IN ~(s.in_use /\ s.id = call[u].id)
         \/ u \in Natives /\ native'[u].stage # "body"]_vars

=============================================================================
