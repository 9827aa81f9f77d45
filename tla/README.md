# A TLA+ verification of Afligh8_osal

Afligh8_osal is an operating-system abstraction layer for embedded and flight-control
code. The repository holds one backend, POSIX: tasks, mutexes and binary semaphores kept in
static tables and named by packed ids, with initialisation, clocks and a scheduling policy
beside them. This directory models that backend in TLA+, checks it with TLC and proves its
main theorems with TLAPS.

All source paths below are relative to `src/src/` (`sem.c` stands for
`os/posix/src/aos_sem.c`, and `mutex.c`, `task.c`, `posix.c` likewise).

## 1. Inventory

| Component | State | Operations | Interacts with |
|---|---|---|---|
| Object ids (`include/aos_osal.h`) | the `serial` byte of every slot | `AOS_IdPack`, `AOS_IdType`, `AOS_IdSerial`, `AOS_IdIndex`, serial increment in each Create | every table |
| Binary semaphores (`sem.c`) | `g_sem_pool[16]`: native semaphore, atomic `id` and `state`, `ref_count`, `serial`, `in_use`, `name`, `creator`; `g_sem_table_lock` | Create, Delete, Wait, TryWait, TimedWait, Post, GetInfo | task ids (creator); Post may run in interrupt context, without the lock |
| Mutexes (`mutex.c`) | `g_mutex_pool[8]`: native mutex, `id`, `ref_count`, `serial`, `in_use`, `name`, `creator`; `g_mutex_table_lock` | Create, Delete, Lock, TryLock, TimedLock, Unlock, GetInfo | task ids (creator) |
| Tasks (`task.c`) | `g_task_pool[8]`: thread, entry, state, `joined`, `serial`, `in_use`, ...; `g_task_lock`; a thread-specific key | Create, Delete (cancel + join), Join, Exit, SetPriority, GetId, GetInfo, trampoline, cleanup handler | cancels threads that may be inside a semaphore or hold a mutex |
| Scheduling policy and priorities (`task.c` 42-195) | `g_rt_enabled`, policy and range | probe at init, `AOS_PosixMapPriority` | initialisation, task creation |
| Initialisation (`posix.c`, `task.c` 203-250) | `g_is_initialized`, one flag per table, the key | `AOS_Init`, `AOS_GetCapabilities` | all tables; read without its lock |
| Time (`posix.c`, `task.c`, `sem.c`, `mutex.c`) | none of its own | `AOS_TimeGet`, `AOS_TaskDelay`, deadlines of the timed waits | two native clocks, one of which may be set |
| Status names (`aos_status.c`) | none | `AOS_StrError` | none |

What is hard in this code:

* **Concurrency.** Every slow path takes a table lock for a short section, but the native
  calls (wait, post, lock, join, destroy) are outside it. What joins the sections of one call
  is the `ref_count` of the slot, or the `joined` flag of a task. `AOS_SemPost` takes no lock
  at all and races every other call.
* **Two records of one fact.** A semaphore's token is in the native semaphore *and* in the
  `state` flag. A task's state and priority are in its slot *and* in its native thread. They
  are written in separate steps.
* **Reuse of slots.** A slot is freed and reused; stale ids, late releases, late wipes and the
  late writes of an ending thread must not reach the next occupant. The Deletes of semaphores
  and mutexes free the slot before they have finished with it.
* **Failure.** Error paths after a reference was taken; a refused destroy; cancellation of a
  task inside a wait or while it owns a mutex; a failing join; an `AOS_Init` that fails half-way
  and is called again.
* **Time.** Timeouts race deliveries; signals interrupt waits; deadlines are taken from a clock
  that may be set.

What makes each component correct: *ids*, packing loses nothing and a new occupant has a
new id; *semaphores*, exact references, one token, alternation of posts and waits, no
destruction under a waiter, unique names, calls that return; *mutexes*, exact references
including the owner's, an owner who can always unlock, no user during destroy; *tasks*, each
thread joined exactly once, no slot freed while its thread runs, no write to the next
occupant, a recorded state and priority that are the thread's; *policy*, a strictly monotone
mapping; *initialisation*, initialised means ready, whatever failed before, and nothing that
was created after that is wiped; *time*, exact deadlines, no early timeout, growing readings.
`PROJECT.json` lists the hazards one by one, at their lines, with the properties that cover them. A
hazard that the obligations of section 2 exclude has no property, and a note that says so.

## 2. The modules

| Module | Models |
|---|---|
| `AosId` | packed ids and the wrapping serial |
| `AosSem` | `sem.c` |
| `AosSemToken` | abstract specification: what a binary semaphore promises |
| `AosSemRefinement` | the refinement mapping from `AosSem` to `AosSemToken` |
| `AosSemCancel` | `AosSem` composed with tasks that `AOS_TaskDelete` may end |
| `AosMutex` | `mutex.c` |
| `AosMutexTable` | abstract specification: a table of named mutexes with at most one holder |
| `AosMutexRefinement` | the refinement mapping from `AosMutex` to `AosMutexTable` |
| `AosMutexCancel` | `AosMutex` composed with tasks that `AOS_TaskDelete` may end |
| `AosTask` | `task.c`: the table, the native threads, create, delete, join, priorities |
| `AosTaskLife` | abstract specification: slots change hands only after their thread was reaped |
| `AosTaskRefinement` | the refinement mapping from `AosTask` to `AosTaskLife` |
| `AosPriority` | the choice of a policy and the mapping of priorities, as pure operators |
| `AosInit` | `AOS_Init` with the scheduling probe, `AOS_GetCapabilities`, creations meanwhile |
| `AosTime` | the two clocks, readings, delays and the deadlines of timed waits |
| `MCAos*` | small instances for TLC |
| `Aos*Proofs` | theorems and proofs: `Id`, `Sem`, `SemCancel`, `Mutex` (with cancellation), `Task`, `Priority`, `Init`, `Time` |

A definition whose comment begins "Mutant" is a plausible bug in the definition after it. No
specification uses it; it is there to show that the properties would notice.

### Objects and calls

`slot[i]` is the slot record of the pool. The native object is represented by what the API
calls can observe of it: for a semaphore its value `native` and whether it is initialised and
not destroyed (`live`); for a mutex its `owner` and `live`; for a task the entry `native[n]` of
its thread. `call[t]` says which API call thread `t` is in, where in it (`pc`), and its locals:
the id it passed, the initial value of a Create, the handle a Delete or Join has read.

A step of the model is one access to state another thread can observe:

* A section under a table lock is one step. `AOS_SemCreate` is the exception: three of the
  fields it writes are read by `AOS_SemPost` without the lock, so it is three steps
  (`CreateLocked`, `StoreState`, `PublishId`) that keep the lock, and `TableUnlocked` is false
  meanwhile.
* Each native call and each atomic access outside the lock is a step of its own:
  `NativeTake`/`NativeGiveUp`, `ClearState`, `PostCheckId`, `PostCas`, `PostNative`,
  `DestroyNative`, `Spawn`, `CancelNative`, `JoinNative`, and so on. Wait, TryWait and TimedWait
  share their steps; `op` decides which outcomes are possible (only Wait has no give-up, only
  TimedWait computes a deadline).
* The atomics of `sem.c` are acquire/release on `id` and `state`. Every store that must be
  seen before another is ordered by them or by the lock, so sequentially consistent steps
  are an adequate model.
* The native objects are modelled from their POSIX and glibc behaviour. An error-checking mutex
  refuses a relock and a wrong-owner unlock; `pthread_mutex_destroy` refuses a locked mutex; a
  call on a destroyed mutex fails with EINVAL. `sem_destroy` may refuse (POSIX allows it, glibc
  never does) only while a thread is blocked. A call on a destroyed semaphore is undefined: it
  may fail, or work on the value that glibc leaves in place. A wait interrupted by a signal is
  retried, so it stays where it is.

Abstractions: a name is a model value and, for semaphores and mutexes, stands for the name and
the creator, which are set and cleared together; status codes are not stored (which return is
taken is the branch of the action); a bad parameter returns before any shared access and is left
out; so is the data that GetInfo copies out.

### Tasks

A thread goes through the trampoline in `native[n].stage`: `start`, `named` (it has stored
`slot->id` in its key, `StoreIdentity`), `body` (it has set RUNNING and read `entry` and `arg`
under the lock, `EnterBody`), `cleanup` (the body returned, called `AOS_TaskExit` or was
cancelled), `ended` (`Cleanup`, the handler) and `reaped` (joined). `slot[i].thread` is
`slot->thread`; it keeps the handle of the previous occupant until `pthread_create` has stored
the new one. `entry` stands for the function and its argument and is named by the task they were
given for, so that `OwnIdentity` can say that a thread runs what its creator asked for.

No call of `task.c` has an effect before its first section, so entering the call and that section
are one step, and a call refused there changes nothing (it stutters). A cancellation is deferred:
it acts in the task's own code or in the `pthread_join` of a call the task makes (`ActOnCancel`),
the cancellation points that `task.c` itself has. Using the handle of no thread, or of one already
joined, is undefined: the history variable `misused` records it, and the call is given an error.

### Cancellation inside the other modules

`AosSemCancel` and `AosMutexCancel` add to the module they extend the ends of tasks: `fate[t]` is
`runs`, `asked` (`pthread_cancel` was called) or `ended`. In `sem.c` the cancellation points are
`sem_wait` and `sem_timedwait`, and there is no cleanup handler: `EndInWait` ends the task and
leaves its reference behind, which `lost` counts. In `mutex.c` no native call is a cancellation
point, so a task ends only between its calls, but possibly as an owner (`EndOutside`); the
mutexes are not robust, so they stay locked. That is POSIX: what a kernel does with the waiters
of a priority-inheriting mutex (mutex.c 240) when its owner ends, as Linux's futexes do for those
already queued, is not modelled, and `OrphanStaysLocked` does not speak of it.

### Initialisation

`AosInit` has a variable per flag of the code, under the code's names. The platform (the ranges
of the two policies, and whether the build requires real-time) is chosen once, in `Init`.
`AOS_Init`'s steps are separate although it keeps `g_init_lock`, because the two flags that
others read without that lock change between them. Each such unlocked read is one load, which
finds the last store. `pools` says only which pools hold objects, for the one question whether an
initialisation can wipe them; `keys` counts native thread-specific keys. Creations come at any time:
`AOS_TaskCreate` refuses until its module is initialised (`CreateTask`), `AOS_MutexCreate` and
`AOS_SemCreate` test no flag (`CreateObject`). The header's "Must be called once before any other
AOS_* call" (`aos_osal.h` 136) is not assumed of anybody.

`sched[t]` is a thread's own scheduling or the probe's. When the scheduling cannot be restored
(`RestoreFails`), the caller stays real-time and its `AOS_Init` fails. If it then tries again, the
probe's scheduling is what is saved and restored, and that second `AOS_Init` succeeds.
`SchedulingRestored` therefore speaks of threads that saw no failure.

### Time

`AosTime` counts nanoseconds. The sizes of the units are constants (1000 each in the code), so
that TLC can use small ones while the theorems hold for all. `mono` and `wall` advance together;
`SetClock` sets `wall`. A call reads its clock once, computes its deadline with the code's
arithmetic and waits for that clock to reach it; the history field `shift` sums the settings of
its clock meanwhile.

### The obligations of callers

`aos_sem.h` (73-77) makes callers responsible that nobody posts to a semaphore being deleted,
`aos_task.h` (61-63) that a task is joined by one caller and not joined and deleted at once. The
code needs more than that. The modules have all of it as obligations of the environment, and the
constant `Contract` says which are kept in a run.

| Module | Obligation | Documented |
|---|---|---|
| `AosSem` | `"no post during delete"`: of the same id | yes |
| | `"no create during delete"`: no `AOS_SemCreate` overlaps any `AOS_SemDelete` | no |
| `AosMutex` | `CreateOverlapsDelete = FALSE`: the same for mutexes | no |
| `AosTask` | `"one join"`: no two calls that join a task, no join beside a delete | yes |
| | `"one delete"`: a task is deleted by one caller at a time | no |
| | `"created first"`: its id is not used before `AOS_TaskCreate` has returned | no |
| | `"no self delete"`: no task deletes itself (the code answers an error, see section 4) | no |
| | `"deleted tasks reap no one"`: a task being deleted is not inside Join or Delete | no |
| | `"no join of a joiner"`: a task inside Join or Delete is not joined or deleted by another task | no |
| | `"no priority after join"`: `AOS_TaskSetPriority` is not called on a task already joined | no |

Each obligation of `AosTask` is needed: dropping any one of them from `task_contract` alone
makes TLC find a violation of `SlotOutlivesThread` or, for the last, of `HandlesSound`. The
fourth is a finding; `task_loose` and the theorems on `LooseInv` show what survives when only
three are kept (`LooseContract`). Those three are each needed in turn. Without `"created first"`
or `"no priority after join"` TLC refutes `HandlesSound` on the instance of `task_loose`. Without
`"one delete"` it does so with two callers, four threads, one slot and `SerialMod = 3`: the second
delete frees the slot while the first still waits, the slot is reused until its serial has wrapped,
and the late free of the first then hits a task that is being created under the same id.

## 3. What is checked

| Run | Instance | Shows |
|---|---|---|
| `sem_contract` | 3 threads, 2 slots, 2 names, symmetry; 1.6 million states | With both obligations: `RefCountExact`, `WaiterKeepsSlot`, `TokenConserved`, and the inductive invariant `IInv`, of which `TypeOK`, `NamesUnique` and `RollbackUnreachable` are parts |
| `sem_token` | 3 threads, 1 slot | `AosSem` implements `AosSemToken`: posts and waits alternate, and a token in a caller's hand is handed on (fairness) |
| `sem_cancel` | a task, a thread, an interrupt handler, 1 slot | Without the documented obligation, and with a task that may be cancelled: references are the waiters plus the lost ones (`RefCountAccounted`), a lost reference pins its semaphore for ever (`LostPinsSemaphore`), a cancelled task is stuck in no call (`AskedTaskLeaves`), a post is not blocked for ever (`PostNotBlockedForever`) |
| `sem_chaos` | 2 threads, 1 slot | With no obligation at all, every call but Wait still returns |
| `mutex_contract` | 3 threads, 2 slots, 2 names, symmetry | Without create/delete overlap: `RefCountExact` (owner included), `LockerKeepsSlot`, `OwnerCanUnlock`, `IInv` (with `TypeOK` and `NamesUnique`), and refinement of `AosMutexTable` |
| `mutex_cancel` | 2 tasks, 1 slot | Whatever callers do: every call but Lock returns, Lock blocks for ever only while another thread has the mutex for ever or again and again (`LockWaitsForHolder`), and the mutex of an ended owner stays locked, for those who wait for it too |
| `task_contract` | 2 callers, 2 threads, 2 slots, 2 priorities, symmetry | With the whole contract: `SlotOutlivesThread`, `ClaimIsKept`, `StateTruthful`, `OwnIdentity`, `IInv` (with `TypeOK` and `PriorityApplied`), and refinement of `AosTaskLife` |
| `task_loose` | 1 caller, 2 threads, 2 slots | Callers that join and delete one task at once, delete themselves, delete and join joiners: no native call gets a bad handle (`HandlesSound`), an accepted Delete leaves the slot free (`DeleteFreesSlot`), and it returns if its target acts on cancellation, whether the other tasks do or not (`DeleteReturns`) |
| `init` | 2 threads, 16 platforms, 2 builds, 2 failing calls | `InitializedIsReady`, `KeyAccounted`, `PrioritiesSeparate`, `ReportsStand`, `SchedulingRestored`, `ObjectsKept`, `SchedulingSettled`, `IInv` (with `TypeOK`) |
| `time` | 1 thread, 20 ns, 2 settings of the clock, 1 signal per call | `DeadlineExact`, `NeverEarly`, `ReadingsGrow`, `WaitReturns`, `IInv` (with `TypeOK`) |
| `sem_create_race` | 3 threads, 1 slot | a finding (section 4) |
| `task_self_delete` | 1 caller, 2 threads, 2 slots | a finding (section 4) |

**Bounds, and why they are enough.**

* `SerialMod` is 3, so a serial wraps after two occupants and stale ids alias at once: more
  hostile than the code's 256 values. The ids callers pass are every id the pool can hand out,
  valid or stale, and (where `MCCallIds` is used) a wrong type and an index out of range.
  `SemValueMax` is 2: one more than a binary token needs, so that an overflow is possible.
* The semaphore and mutex state spaces are finite as they are, with no bound on the length of a
  behaviour. All conflicts are about one slot, between at most one creator or deleter, one poster
  and one waiter: three threads give every combination of three, and two slots let one object
  disturb another (names, free slots). More threads on one slot are what the proofs cover.
* `AosTask`: the number of `Natives` bounds the creations of a behaviour (a handle is not
  reused). Two threads are what it takes for a slot to be reused, or for two tasks to be alive
  and act on each other and on themselves.
* `task_loose` and `task_self_delete` have no symmetry reduction (`task_loose` checks liveness).
  Their constraint `MCInOrder` keeps one of each pair of symmetric behaviours: threads are
  interchangeable, so they are started in order; names matter only through being taken, so
  slot 0 uses one and slot 1 the other, and with two slots a name is always free either way.
* `sem_cancel`: `MCInterrupt` makes the third thread an interrupt handler, which only posts, as
  `sem.c` allows to a handler. That leaves one waiter or deleter beside the task, enough
  for a cancelled and an uncancelled waiter, or a waiter and a deleter, on the one slot.
* `AosInit`: `MaxFailures` bounds the calls of `AOS_Init` (after two failures no new one starts).
  Two failures give a failure after a failure, by the same and by different threads. The four
  ranges are Linux's, exactly 32 levels, one too few and an error. `UIntMod` is 2^16, larger than
  any product of the mapping, as 2^32 is in the code.
* `AosTime`: `MaxTime`, `MaxShift`, `MaxSettings` and `MaxInterrupts` bound the clocks, their
  distance, the settings and the signals; a call begins only if `MaxTime` leaves it the time to
  end. Units of 2 make every carry happen. Calls on the clocks do not interact, so one thread is
  enough, and the theorems are for any number.

**Deadlock** checking is off: a system whose threads are all blocked in Wait, Lock or Join, or in
which nobody calls anything, is a state the program may be in, and the bounded runs end. (It is on in
`init`, where a thread outside `AOS_Init` can always create something.) What must not block is the
subject of `NonBlockingReturns`, `DeleteReturns`, `AskedTaskLeaves`, `LockWaitsForHolder` and
`WaitReturns`.

**Fairness.** Nothing makes a thread call the API, post, unlock, or end on its own.

* `AosSem`: weak fairness of every thread inside the API (the scheduler runs it again), and
  strong fairness of its steps that take the table lock (held for a bounded section, and released
  again and again). `AosMutex`, where a section is one step and the lock is always free
  between steps, needs only weak fairness.
* `AosSemCancel`: in addition, a cancelled task that is blocked in a semaphore wait acts on it (weak),
  as POSIX says of a thread blocked in a cancellation point. `AosMutexCancel` adds nothing. In neither
  does anything make a cancelled task come to a cancellation point of its own code.
* `AosTask`: weak fairness of the steps inside a call and of the trampoline, none of `ActOnCancel`. A
  task that spins, or that sits in `AOS_MutexLock`, never acts on its cancellation, and its deleter
  waits for ever. `DeleteReturns` has the cooperation as its hypothesis instead, for the one task
  that is deleted: `ActsOnCancel(n)`, that a task which passes cancellation points again and again, in
  its own code or in a join, acts at one of them. Without the hypothesis TLC refutes the property.
* `AosTime`: time goes on, and a thread whose deadline has come is woken up.

Each property has a mutant of the code it is about (a dropped release, a wrong loop bound, a
swapped store order, an inverted test, a lost carry, ...) that TLC must refute.

## 4. What the checks found

Two runs end in a violation of what the code's own comments say:

* `sem_create_race`. `AOS_SemDelete` gives the slot back (614) before it destroys the native
  semaphore (619) and wipes the slot (649-659). A Create in between hands out the slot; the
  pending delete then destroys the new semaphore, under its waiter, and zeroes its reference count.
* `task_self_delete`. `AOS_TaskDelete` sets `joined` (513) before it finds that the caller is the
  task itself (517) and answers an error. Nobody will join the thread, and the next Delete of it,
  by anybody, takes the flag for a finished join and frees the slot under the running thread.

Others have no run of their own; to see one, drop the obligation it is about:

* `AOS_MutexDelete` has the race of `AOS_SemDelete` (571, 576, 604-612), and its wipe also clears
  the id of the new mutex, so that its owner can no longer unlock it (`CreateOverlapsDelete`).
* `AOS_MutexUnlock` takes no reference (503-510): the wrong-owner unlock that an error-checking
  mutex is there to detect may run on a mutex already destroyed. So `LockerKeepsSlot` does not
  speak of calls at `native_unlock`, and `OwnerCanUnlock` only of owners.
* Between a successful `sem_wait` (sem.c 336) and the clearing of the flag (346), `AOS_SemPost`
  answers `AOS_ERR_INVALID_STATE` on a semaphore that TryWait calls empty. In `AosSemToken` this
  is the phase "draining", in which no post is accepted.
* Of two Deletes of one task the second skips the reap and frees the slot while the first still
  waits for the thread (`"one delete"`). A Delete, Join or SetPriority between the publication of the
  id (459) and `pthread_create` (471) uses the handle of the slot's previous occupant
  (`"created first"`).
* A join that fails or is cancelled leaves `joined` set. Two tasks that join each other get an
  error from the native layer, and a task cancelled inside `AOS_TaskJoin` never finishes it: in
  both cases nobody will join the target, and the next Delete frees its slot while it runs (`"no
  join of a joiner"`, `"deleted tasks reap no one"`).
* `AOS_TaskSetPriority` on a task that was joined uses a handle that no longer exists (`"no priority
  after join"`). `aos_task.h` says that the id remains valid after a join.
* A task cancelled inside a semaphore wait, or while it owns a mutex, leaves an object that can
  never be deleted (`LostPinsSemaphore`, `OrphanStaysLocked`); and deleting a task that waits in
  `AOS_MutexLock`, no cancellation point, takes until the mutex is unlocked, for ever if its owner was
  deleted or is the deleter (`LockWaitsForHolder`, `OrphanStaysLocked`).
* Mutexes and semaphores created before `AOS_Init` has zeroed their pool (mutex.c 52, sem.c 67) are
  wiped, since their creations test no flag. `AOS_TaskCreate` does (task.c 401), but accepts calls
  before `AOS_Init` is over, so a task that starts early enough can lose what it creates. The header
  forbids such calls; `ObjectsKept` says that nothing else is ever wiped.
* A stale id aliases after 255 later occupants of its slot, not 256 as `aos_osal.h` (84) says,
  since serial 0 is skipped (`StaleIdAliasesAfter`).
* The early return at task.c 212-215 (the module initialised by somebody else) cannot be taken:
  both flags are set together.

## 5. What is proved

Every theorem below is for all values of the constants: any number of threads, slots, names,
serials and ids. The assumptions on the constants are the named ASSUMEs of the modules.

**`AosIdProofs`.** Packing can be undone for all values (`IdRoundTrip`), a live id is not none, the
next serial is in range, never 0 and new (`NextSerialFresh`), and a stale id is told from each of
the next `SerialMod - 2` occupants and aliases with the one after them (`StaleIdAliasesAfter`).

**`AosSemProofs`**, from `Contract = Obligations`: `SemInvariant` (`Spec => []IInv`) and from it
`SemTypeOK`, `SemRefCountExact`, `SemWaiterKeepsSlot`, `SemTokenConserved`,
`SemRollbackUnreachable`, `SemNamesUnique`. None of the properties is inductive alone. `IInv` adds:

* `CallDiscipline`: a point inside a call belongs to that call, and a call past its checks has
  an id of the pool, hence a slot (`SemIdFacts`).
* `ContractKept`: the obligations as a fact about calls in progress: no Create with a Delete,
  no Post with the Delete of its id.
* `SlotDiscipline`: an id stands in a slot only while the slot is occupied and live; waiters
  and posters past their checks find their own id there; deleters find the slot free; the one
  creator finds the slot as it set it.

The step that needs them all is `DeleteLocked`: `ref_count = 0` and `RefCountExact` exclude
waiters, `SlotDiscipline` gives every poster on the slot the very id that is being deleted, and
`ContractKept` excludes that. So no token is in anybody's hand when the id is cleared. For
the token, `CarrierAlone` says that whoever has it finds the flag set, the native count 0 and no
other carrier; so `sem_post` cannot overflow and the roll-back is unreachable. There is one lemma
per action; steps that write no slot share `QuietStep`, and counting is by `CountIn` and `CountOut`.
`SemImplementsToken` is the refinement (`Spec => TokenCycle`): a step changes at most the phase of
its own slot (`OnePhaseMoves`), and `IInv` says which phase that is before and after it, so that
each action maps to one step of `AosSemToken` or to a stutter.

**`AosSemCancelProofs`**, from the one obligation `"no create during delete"`: posts may race deletes,
and tasks may be ended inside their waits. `CancelInvariant` (`CancelSpec => []CancelInv`) gives
`CancelRefCount` (`RefCountAccounted`), `CancelLossPins` (`LostPinsSemaphore`) and
`CancelWaiterKeepsSlot` (`WaiterKeepsSlot`, which no run checks under cancellation). The
exact count of `IInv` is false here. `CancelInv` has the count with the lost references, the discipline
of the calls, and `SlotOccupants`: an id stands only in an occupied slot, waiters find theirs,
deleters find a free slot, and a reference is lost only where an id stands. A release and an end
inside a wait differ only in where the reference goes, from the count or into `lost`; both are
instances of `HolderLeaves`. A delete needs a count of 0, hence a slot that has lost nothing, and no
other step clears an id; so the loss pins the semaphore. That no waiter's semaphore is destroyed needs
`OccupantsAlive` beside `CancelInv`.

**`AosMutexProofs`**, from `CreateOverlapsDelete = FALSE`: `MutexInvariant` and from it
`MutexTypeOK`, `MutexRefCountExact`, `MutexLockerKeepsSlot`, `MutexOwnerCanUnlock`,
`MutexNoUserDuringDestroy`. The shape is that of the semaphores, with the owner counted: most
steps move one reference between a call and the ownership, and `RefCountExact` follows from one
lemma about what a step does to the counts. A wrong-owner unlock may be at `native_unlock` on a
slot whose occupant has changed, so `SlotDiscipline` ties the id of such a call to the slot only if
the call's thread is the owner. `MutexImplementsTable` is the refinement: `TableEntries` says that
the map of live ids is a table indexed by the slots, `HolderChanges` and `EntryMoves` what a write
to one slot does to it, and each action maps to one step of `AosMutexTable` or to a stutter.
`MutexOrphanStaysLocked` (`CancelSpec => OrphanStaysLocked`) needs no obligation at all: an ended
task is inside no call (`OrphanInv`), only the owner's own step releases a mutex, and a locked one
is not destroyed.

**`AosTaskProofs`**, from `Contract = Obligations`: `TaskInvariant` and from it `TaskTypeOK`,
`TaskHandlesSound`, `TaskSlotOutlivesThread`, `TaskClaimIsKept`, `TaskStateTruthful`,
`TaskOwnIdentity`, `TaskPriorityApplied`, and the refinement `TaskImplementsLife`. What makes the
properties inductive is who may be where: `CreatorDiscipline` (whoever creates a task finds its
slot as it was filled, and no started thread there), `SlotDiscipline` (an occupied slot is that
of its thread), `ReaperDiscipline` (whoever reaps a task finds its own claim, its thread, and is
past the join exactly when the thread is joined) and `CancelDiscipline` (only a delete that is
waiting for a task has cancelled it). The step that matters is `FreeSlot`: `ReaperDiscipline` says
that the thread is joined, so that no thread loses its slot.

From `LooseContract \subseteq Contract` only (callers may join and delete one task at once, delete
themselves, and delete and join tasks that are inside Join or Delete): `TaskLooseInvariant`
(`Spec => []LooseInv`), and from it `TaskLooseHandles` (`HandlesSound`) and `TaskLooseDelete`
(`DeleteFreesSlot`). Slots may then be freed under running threads, so `SlotDiscipline` and
`ReaperDiscipline` are gone. What is left is who is alone: `CreatorAlone` and `DeleterAlone` (each
keeps its slot until it is done), `UnclaimedReapable` (a task that nobody has claimed has a thread
that can still be joined, and is in nobody's hands) and `ClaimAlone` (a claimed thread has one
claimant and is not joined, and a delete that waits for it has asked it to end). A join is refused
only if its target is itself joining the caller and was not asked to end; that cannot happen to a
delete. Steps that claim and free nothing share `LooseFrame`.

**`AosPriorityProofs`**: the mapping is strictly monotone for every range of at least 32 levels
(`MappingSeparates`) and stays in the range, reaching both ends (`MappingInRange`).

**`AosInitProofs`**, with no hypothesis but the assumptions on the constants: `InitInvariant`
(`Spec => []IInv`) and from it every safety and action property of the run: `InitReady`, `InitKeys`,
`InitPriorities`, `InitReports`, `InitScheduling`, `InitObjects` and `InitSettles`. `IInv` adds:

* `LockHeld`: who is inside `AOS_Init` holds `g_init_lock`; so a step of `AOS_Init` has to be looked
  at for its own thread only (`InitStepKeeps`), and the other steps write none of its flags
  (`OutsideStepKeeps`).
* `FlagsOrdered`: a flag is set only after what it announces is ready. `InitializedIsReady` is the
  last of these orders, and is not inductive without the others: the last step of a successful call
  relies on what the steps before it have set, or found set.
* `CallProgress`: what a call has done and found when it comes to a point (that the key is there
  while the scheduling is settled, that a success has passed every table).
* `UsesReady`: no task exists before the task module is initialised, which is why none is ever wiped,
  and nobody is told that the OSAL is ready before it is, which is why no report changes. That mutexes
  and semaphores survive once the OSAL is initialised is `FlagsOrdered`.
* `ProbeTemporary`: a thread has the probe's scheduling only inside the probe or after a failure.

`InitPriorities` rests on the two theorems of `AosPriorityProofs`, for the range the probe chose.

**`AosTimeProofs`**: the code's two ways to compute a deadline yield a normalised deadline exactly
the duration later (`DeadlineCorrect`, `DelayDeadlineCorrect`), readings are microseconds rounded
down (`ReadingCorrect`). With these, `TimeInvariant` (`Spec => []IInv`): deadlines stay exact
(`TimeDeadlineExact`), and no reading is ahead of the clock (`ReadingsPast`, the part that
`ReadingsGrow` alone lacks), so that the readings of a thread never decrease (`TimeReadingsGrow`). No
wait is early but by what its clock was set forward (`TimeNeverEarly`).

`CancelInv` with `OccupantsAlive`, `OrphanInv` and `LooseInv` are properties of no run, only their
consequences are; TLC was used to see that they hold on the instances `sem_cancel`, `mutex_cancel`
and `task_loose`.

**Only model-checked.** Every invariant and action property that a passing run checks is stated by
a theorem above, on its own or as a part of an inductive invariant. What remains with TLC is liveness
under fairness, since TLAPS does not reason about ENABLED: `NonBlockingReturns` (so all of
`sem_chaos`), `AskedTaskLeaves`, `PostNotBlockedForever`, `LockWaitsForHolder`, `DeleteReturns`,
`WaitReturns`, and the fairness in `TokenCycleFair`, whose safety part is
`SemImplementsToken`.

## 6. Plan

Done, most important behaviour first: ids, semaphores, mutexes, tasks, each with its abstract
specification and proofs; cancellation inside semaphores and mutexes; stale ids; priorities and
deadlines; initialisation; the proofs of what survives cancellation and the weaker contracts. What
may be added is proof: for `sem_cancel` and `mutex_cancel`, the abstract specifications that their
weaker contracts still implement.

## 7. Not modelled

* `AOS_StrError`: a constant table.
* The calls that only read or yield: `AOS_TaskGetId`, `AOS_TaskGetInfo` and `AOS_TaskYield` (the
  key that GetId returns and the state and priority that GetInfo returns are modelled, and are
  what `OwnIdentity`, `StateTruthful` and `PriorityApplied` are about).
* The error return of task.c 529-531 (`pthread_cancel` fails but the join does not): glibc has no
  such outcome for a thread that is not joined.
* A `pthread_setschedprio` that the system refuses: `AOS_TaskSetPriority` then changes nothing.
* Priority inheritance and scheduling latency (behaviour of the native mutex and scheduler), stack
  sizes, and the warnings that are printed.
* The tests, examples and benchmarks.
