---------------------------- MODULE AosTaskProofs ----------------------------
(***************************************************************************)
(* Proofs about AosTask, for any number of threads, slots, names and ids:  *)
(* while callers keep the whole contract, IInv is an invariant, and with   *)
(* it every safety property of the module; and aos_task.c implements       *)
(* AosTaskLife.  While they keep three of its obligations, LooseInv is.    *)
(***************************************************************************)
EXTENDS AosTaskRefinement, AosIdProofs

(* Ids of the pool: not AOS_ID_NONE, and they name the slot they are for.  *)
LEMMA TaskIdFacts ==
  /\ \A id \in TaskIds : id \in Nat /\ id # AOS_ID_NONE /\ IdIndex(id) \in Slots
  /\ \A serial \in 1 .. SerialMod - 1, i \in Slots :
       LET id == IdPack(AOS_TYPE_TASK, serial, i)
       IN  id \in TaskIds /\ IdIndex(id) = i /\ IdSerial(id) = serial
<1>1. ASSUME NEW serial \in 1 .. SerialMod - 1, NEW i \in Slots
      PROVE  LET id == IdPack(AOS_TYPE_TASK, serial, i)
             IN  /\ id \in Nat /\ id # AOS_ID_NONE /\ id \in TaskIds
                 /\ IdIndex(id) = i /\ IdSerial(id) = serial
  <2>1. serial \in Nat /\ serial < 256
    BY SMTT(30), SerialModAssumption
  <2>2. i \in Nat /\ i < 65536
    BY SMTT(30), TaskAssumption DEF Slots
  <2>3. AOS_TYPE_TASK \in Nat /\ AOS_TYPE_TASK < 256 /\ AOS_TYPE_TASK >= 1
    BY DEF AOS_TYPE_TASK
  <2>4. IdPack(AOS_TYPE_TASK, serial, i) \in TaskIds
    BY DEF TaskIds
  <2> QED BY <2>1, <2>2, <2>3, <2>4, IdRoundTrip, LiveIdIsNotNone
<1> QED BY <1>1 DEF TaskIds

(* The constants that idle calls and empty slots hold are of their types.  *)
LEMMA ZeroPriority == 0 \in Priorities
BY TaskAssumption

LEMMA NoneIndex == IdIndex(AOS_ID_NONE) \in Slots
<1>1. 0 % 65536 = 0
  BY SMT
<1> QED BY <1>1, TaskAssumption DEF IdIndex, AOS_ID_NONE, Slots

(* The id of a slot in use is one of the pool's, and it names the slot.    *)
LEMMA ValidIdFacts ==
  ASSUME SlotDiscipline, NEW id, ValidId(id)
  PROVE  /\ id \in TaskIds /\ IdIndex(id) \in Slots
         /\ slot[IdIndex(id)].in_use /\ slot[IdIndex(id)].id = id
BY DEF ValidId, SlotDiscipline

(* A call past its first section works on a slot of the pool.              *)
LEMMA CallSlot ==
  ASSUME IInv, NEW u \in Actors, call[u].op # "none"
  PROVE  call[u].id \in TaskIds /\ SlotOf(u) \in Slots
BY TaskIdFacts DEF IInv, CallDiscipline, SlotOf

LEMMA RecordTypes ==
  /\ Idle \in CallType /\ EmptySlot \in SlotType /\ NoNative \in NativeType
BY TaskAssumption, SerialModAssumption
   DEF Idle, CallType, Points, EmptySlot, SlotType, NoNative, NativeType, Stages

LEMMA InitInv == Init => IInv
<1> SUFFICES ASSUME Init PROVE IInv
  OBVIOUS
<1>1. TypeOK
  BY RecordTypes DEF Init, TypeOK
<1>2. /\ \A i \in Slots : ~slot[i].in_use
      /\ \A n \in Natives : native[n].stage = "none"
      /\ \A u \in Actors : call[u] = Idle /\ call[u].op = "none"
      /\ misused = {}
  BY DEF Init, EmptySlot, NoNative, Idle
<1>3. CallDiscipline
  BY <1>2 DEF CallDiscipline
<1>4. ContractKept /\ CreatorDiscipline /\ ReaperDiscipline
  BY <1>2 DEF ContractKept, CreatorDiscipline, ReaperDiscipline, Reapers, Actors
<1>5. SlotDiscipline /\ ClaimIsKept /\ StateTruthful
  BY <1>2 DEF SlotDiscipline, ClaimIsKept, StateTruthful
<1>6. HandlesSound /\ SlotOutlivesThread /\ OwnIdentity /\ PriorityApplied
      /\ CancelDiscipline
  BY <1>2 DEF CancelDiscipline, Started, HandlesSound, SlotOutlivesThread, OwnIdentity, PriorityApplied
<1> QED BY <1>1, <1>3, <1>4, <1>5, <1>6 DEF IInv

-----------------------------------------------------------------------------
(* The steps of a thread *)

(* What a slot in use says of its thread. *)
LEMMA SlotThread ==
  ASSUME IInv, NEW i \in Slots, slot[i].in_use
  PROVE  /\ slot[i].joined => ~Creating(i)
         /\ ~Creating(i) => /\ slot[i].thread \in Natives
                            /\ native[slot[i].thread].task = slot[i].id
                            /\ native[slot[i].thread].stage # "none"
                            /\ HomeOf(slot[i].thread) = i
BY DEF IInv, SlotDiscipline, CreatorDiscipline, Creating, HomeOf

(* The slot of a started thread. *)
LEMMA ThreadSlot ==
  ASSUME IInv, NEW n \in Natives, Started(n)
  PROVE  /\ HomeOf(n) \in Slots
         /\ slot[HomeOf(n)].in_use /\ slot[HomeOf(n)].id = native[n].task
         /\ slot[HomeOf(n)].thread = n
         /\ native[n].task \in TaskIds
         /\ ~Creating(HomeOf(n))
<1>1. native[n].task \in TaskIds \cup {AOS_ID_NONE}
  BY DEF IInv, TypeOK, NativeType
<1>2. \A id \in TaskIds \cup {AOS_ID_NONE} : IdIndex(id) \in Slots
  BY TaskIdFacts, NoneIndex
<1>3. HomeOf(n) \in Slots
  BY <1>1, <1>2 DEF HomeOf
<1>4. /\ slot[HomeOf(n)].in_use /\ slot[HomeOf(n)].id = native[n].task
      /\ slot[HomeOf(n)].thread = n
  BY DEF IInv, SlotOutlivesThread, Started
<1>5. ~Creating(HomeOf(n))
  BY DEF IInv, CreatorDiscipline, Creating
<1>6. native[n].task \in TaskIds
  BY <1>3, <1>4 DEF IInv, SlotDiscipline
<1> QED BY <1>3, <1>4, <1>5, <1>6

(* What a thread that reaps a task knows. *)
LEMMA ReaperSlot ==
  ASSUME IInv, NEW u \in Actors, call[u].op \in Reapers
  PROVE  /\ call[u].id \in TaskIds /\ SlotOf(u) \in Slots
         /\ slot[SlotOf(u)].in_use /\ slot[SlotOf(u)].joined
         /\ slot[SlotOf(u)].id = call[u].id
         /\ slot[SlotOf(u)].thread = call[u].thread
         /\ ~Creating(SlotOf(u))
         /\ call[u].pc = "free" <=> ~Started(call[u].thread)
         /\ call[u].thread \in Natives
         /\ native[call[u].thread].task = call[u].id
         /\ HomeOf(call[u].thread) = SlotOf(u)
<1>1. call[u].id \in TaskIds /\ SlotOf(u) \in Slots
  BY CallSlot DEF Reapers
<1>2. /\ slot[SlotOf(u)].in_use /\ slot[SlotOf(u)].joined
      /\ slot[SlotOf(u)].id = call[u].id
      /\ slot[SlotOf(u)].thread = call[u].thread
      /\ ~Creating(SlotOf(u))
      /\ call[u].pc = "free" <=> ~Started(call[u].thread)
  BY DEF IInv, ReaperDiscipline
<1> QED BY <1>1, <1>2, SlotThread

(* A thread that moves on while it stays started, and writes at most the   *)
(* state of its slot, keeps what is said of slots, calls and claims.       *)
LEMMA ThreadMoves ==
  ASSUME IInv, NEW n \in Natives, Started(n), Started(n)',
         call[n].op = "none" \/ native'[n].stage = "body",
         \A m \in Natives : /\ m # n => native'[m] = native[m]
                            /\ native'[m].task = native[m].task
                            /\ native'[m].priority = native[m].priority
                            /\ native'[m].cancelled = native[m].cancelled,
         \A i \in Slots : /\ slot'[i].in_use <=> slot[i].in_use
                          /\ slot'[i].joined <=> slot[i].joined
                          /\ slot'[i].id = slot[i].id
                          /\ slot'[i].serial = slot[i].serial
                          /\ slot'[i].entry = slot[i].entry
                          /\ slot'[i].thread = slot[i].thread
                          /\ slot'[i].priority = slot[i].priority
                          /\ i # HomeOf(n) => slot'[i] = slot[i],
         call' = call, misused' = misused
  PROVE  /\ CallDiscipline' /\ ContractKept' /\ CreatorDiscipline'
         /\ SlotDiscipline' /\ ReaperDiscipline' /\ CancelDiscipline'
         /\ HandlesSound' /\ SlotOutlivesThread' /\ ClaimIsKept'
         /\ PriorityApplied'
<1> USE DEF IInv
<1>1. \A m \in Natives : (Started(m)' <=> Started(m)) /\ HomeOf(m)' = HomeOf(m)
  BY DEF Started, HomeOf
<1>2. \A u \in Actors : SlotOf(u)' = SlotOf(u)
  BY DEF SlotOf
<1>3. \A i \in Slots : Creating(i)' <=> Creating(i)
  BY <1>2 DEF Creating
<1>4. CallDiscipline'
  BY DEF CallDiscipline, Idle
<1>5. ContractKept'
  BY DEF ContractKept
<1>6. CreatorDiscipline'
  BY <1>1, <1>2, CallSlot DEF CreatorDiscipline
<1>7. SlotDiscipline'
  BY <1>1, <1>3, SlotThread DEF SlotDiscipline, Started
<1>8. ReaperDiscipline'
  BY <1>1, <1>2, <1>3, ReaperSlot DEF ReaperDiscipline
<1>9. CancelDiscipline' /\ HandlesSound'
  BY <1>1 DEF CancelDiscipline, HandlesSound
<1>10. SlotOutlivesThread' /\ PriorityApplied'
  BY <1>1, ThreadSlot DEF SlotOutlivesThread, PriorityApplied, Started
<1>11. ClaimIsKept'
  BY <1>1, SlotThread DEF ClaimIsKept, Reaping, Started
<1> QED BY <1>4, <1>5, <1>6, <1>7, <1>8, <1>9, <1>10, <1>11

LEMMA StoreIdentityInv ==
  ASSUME IInv, NEW n \in Natives, StoreIdentity(n)
  PROVE  IInv'
<1>1. /\ native[n].stage = "start" /\ call[n].op = "none"
      /\ slot' = slot /\ call' = call /\ misused' = misused
      /\ Started(n)
  BY DEF StoreIdentity, Started, IInv, CallDiscipline, Actors
<1>2. slot[HomeOf(n)].id = native[n].task /\ native[n].task \in TaskIds
  BY <1>1, ThreadSlot
<1>3. /\ native'[n].stage = "named" /\ native'[n].key = native[n].task
      /\ \A m \in Natives : /\ native'[m].task = native[m].task
                            /\ native'[m].runs = native[m].runs
                            /\ native'[m].priority = native[m].priority
                            /\ native'[m].cancelled = native[m].cancelled
                            /\ m # n => native'[m] = native[m]
  BY <1>2 DEF StoreIdentity, IInv, TypeOK, NativeType
<1>4. Started(n)'
  BY <1>3 DEF Started
<1>5. /\ CallDiscipline' /\ ContractKept' /\ CreatorDiscipline'
      /\ SlotDiscipline' /\ ReaperDiscipline' /\ CancelDiscipline'
      /\ HandlesSound' /\ SlotOutlivesThread' /\ ClaimIsKept'
      /\ PriorityApplied'
  BY <1>1, <1>3, <1>4, ThreadMoves
<1>6. TypeOK'
  <2>1. native' \in [Natives -> NativeType]
    <3> DEFINE moved == [native[n] EXCEPT !.stage = "named", !.key = native[n].task]
    <3>1. moved \in NativeType
      <4>1. native[n] \in NativeType
        BY <1>2 DEF IInv, TypeOK
      <4> QED BY <4>1 DEF NativeType, Stages
    <3>2. native' = [native EXCEPT ![n] = moved]
      BY <1>2 DEF StoreIdentity
    <3> HIDE DEF moved
    <3> QED BY <3>1, <3>2 DEF IInv, TypeOK
  <2> QED BY <1>1, <2>1 DEF IInv, TypeOK
<1>7. StateTruthful'
  BY <1>1, <1>3, SlotThread DEF IInv, StateTruthful, Creating, SlotOf
<1>8. OwnIdentity'
  BY <1>1, <1>3 DEF IInv, OwnIdentity
<1> QED BY <1>5, <1>6, <1>7, <1>8 DEF IInv

LEMMA EnterBodyInv ==
  ASSUME IInv, NEW n \in Natives, EnterBody(n)
  PROVE  IInv'
<1>1. /\ native[n].stage = "named" /\ call[n].op = "none"
      /\ call' = call /\ misused' = misused
      /\ Started(n)
  BY DEF EnterBody, Started, IInv, CallDiscipline, Actors
<1> PICK i0 \in Slots : i0 = HomeOf(n)
  BY <1>1, ThreadSlot
<1>2. /\ slot[i0].in_use /\ slot[i0].id = native[n].task /\ slot[i0].thread = n
      /\ native[n].task \in TaskIds /\ slot[i0].entry = native[n].task
      /\ ~Creating(i0)
  BY <1>1, ThreadSlot DEF IInv, SlotDiscipline
<1>3. /\ native'[n].stage = "body" /\ native'[n].runs = native[n].task
      /\ \A m \in Natives : /\ native'[m].task = native[m].task
                            /\ native'[m].key = native[m].key
                            /\ native'[m].priority = native[m].priority
                            /\ native'[m].cancelled = native[m].cancelled
                            /\ m # n => native'[m] = native[m]
  BY <1>2 DEF EnterBody, IInv, TypeOK, NativeType
<1>4. /\ slot'[i0].state = "RUNNING"
      /\ \A i \in Slots : /\ slot'[i].in_use <=> slot[i].in_use
                          /\ slot'[i].joined <=> slot[i].joined
                          /\ slot'[i].id = slot[i].id
                          /\ slot'[i].serial = slot[i].serial
                          /\ slot'[i].entry = slot[i].entry
                          /\ slot'[i].thread = slot[i].thread
                          /\ slot'[i].priority = slot[i].priority
                          /\ i # i0 => slot'[i] = slot[i]
      /\ slot' \in [Slots -> SlotType]
  BY DEF EnterBody, IInv, TypeOK, SlotType
<1>5. Started(n)'
  BY <1>3 DEF Started
<1>6. /\ CallDiscipline' /\ ContractKept' /\ CreatorDiscipline'
      /\ SlotDiscipline' /\ ReaperDiscipline' /\ CancelDiscipline'
      /\ HandlesSound' /\ SlotOutlivesThread' /\ ClaimIsKept'
      /\ PriorityApplied'
  BY <1>1, <1>3, <1>4, <1>5, ThreadMoves
<1>7. TypeOK'
  <2>1. native' \in [Natives -> NativeType]
    <3> DEFINE moved == [native[n] EXCEPT !.stage = "body", !.runs = native[n].task]
    <3>1. moved \in NativeType
      <4>1. native[n] \in NativeType
        BY <1>2 DEF IInv, TypeOK
      <4> QED BY <4>1 DEF NativeType, Stages
    <3>2. native' = [native EXCEPT ![n] = moved]
      BY <1>2 DEF EnterBody
    <3> HIDE DEF moved
    <3> QED BY <3>1, <3>2 DEF IInv, TypeOK
  <2> QED BY <1>1, <1>4, <2>1 DEF IInv, TypeOK
<1>8. StateTruthful'
  BY <1>1, <1>2, <1>3, <1>4, SlotThread DEF IInv, StateTruthful, Creating, SlotOf
<1>9. OwnIdentity'
  BY <1>1, <1>3 DEF IInv, OwnIdentity
<1> QED BY <1>6, <1>7, <1>8, <1>9 DEF IInv

(* The entry function is left, by itself or by a cancellation.             *)
LEMMA BodyLeft ==
  ASSUME IInv, NEW n \in Natives, native[n].stage = "body", call[n].op = "none",
         native' = [native EXCEPT ![n].stage = "cleanup"],
         slot' = slot, call' = call, misused' = misused
  PROVE  IInv'
<1>1. Started(n)
  BY DEF Started
<1>2. /\ native'[n].stage = "cleanup"
      /\ \A m \in Natives : /\ native'[m].task = native[m].task
                            /\ native'[m].key = native[m].key
                            /\ native'[m].runs = native[m].runs
                            /\ native'[m].priority = native[m].priority
                            /\ native'[m].cancelled = native[m].cancelled
                            /\ m # n => native'[m] = native[m]
      /\ native' \in [Natives -> NativeType]
  BY DEF IInv, TypeOK, NativeType, Stages
<1>3. Started(n)'
  BY <1>2 DEF Started
<1>4. /\ CallDiscipline' /\ ContractKept' /\ CreatorDiscipline'
      /\ SlotDiscipline' /\ ReaperDiscipline' /\ CancelDiscipline'
      /\ HandlesSound' /\ SlotOutlivesThread' /\ ClaimIsKept'
      /\ PriorityApplied'
  BY <1>1, <1>2, <1>3, ThreadMoves
<1>5. TypeOK'
  BY <1>2 DEF IInv, TypeOK
<1>6. StateTruthful'
  BY <1>2, SlotThread DEF IInv, StateTruthful, Creating, SlotOf
<1>7. OwnIdentity'
  BY <1>2 DEF IInv, OwnIdentity
<1> QED BY <1>4, <1>5, <1>6, <1>7 DEF IInv

LEMMA BodyEndsInv ==
  ASSUME IInv, NEW n \in Natives, BodyEnds(n)
  PROVE  IInv'
<1>1. /\ native[n].stage = "body" /\ call[n].op = "none"
      /\ native' = [native EXCEPT ![n].stage = "cleanup"]
      /\ slot' = slot /\ call' = call /\ misused' = misused
  BY DEF BodyEnds, Idle
<1> QED BY <1>1, BodyLeft

(* A task that is asked to end is inside no call that reaps another.       *)
LEMMA CancelledIsIdle ==
  ASSUME IInv, NEW n \in Natives, Started(n), native[n].cancelled
  PROVE  call[n].op \notin Reapers
<1>1. PICK u \in Actors : call[u].op = "Delete" /\ call[u].thread = n
  BY DEF IInv, CancelDiscipline
<1>2. native[n].task = call[u].id
  BY <1>1, ReaperSlot DEF Reapers
<1> QED BY <1>1, <1>2 DEF IInv, ContractKept

LEMMA ActOnCancelInv ==
  ASSUME IInv, NEW n \in Natives, ActOnCancel(n)
  PROVE  IInv'
<1>1. native[n].stage = "body" /\ native[n].cancelled /\ Started(n)
  BY DEF ActOnCancel, Started
<1>2. ~At(n, "join")
  BY <1>1, CancelledIsIdle DEF At, IInv, CallDiscipline, Actors, Reapers, TypeOK, CallType, Idle
<1>3. call[n] = Idle /\ call' = call
  BY <1>2 DEF ActOnCancel, Return, IInv, TypeOK
<1>4. /\ call[n].op = "none"
      /\ native' = [native EXCEPT ![n].stage = "cleanup"]
      /\ slot' = slot /\ misused' = misused
  BY <1>3 DEF ActOnCancel, Idle
<1> QED BY <1>1, <1>3, <1>4, BodyLeft

LEMMA CleanupInv ==
  ASSUME IInv, NEW n \in Natives, Cleanup(n)
  PROVE  IInv'
<1>1. /\ native[n].stage = "cleanup" /\ call[n].op = "none"
      /\ call' = call /\ misused' = misused
      /\ Started(n)
  BY DEF Cleanup, Started, IInv, CallDiscipline, Actors
<1> PICK i0 \in Slots : i0 = HomeOf(n)
  BY <1>1, ThreadSlot
<1>2. slot[i0].in_use /\ slot[i0].thread = n /\ ~Creating(i0)
  BY <1>1, ThreadSlot
<1>3. /\ native'[n].stage = "ended"
      /\ \A m \in Natives : /\ native'[m].task = native[m].task
                            /\ native'[m].key = native[m].key
                            /\ native'[m].runs = native[m].runs
                            /\ native'[m].priority = native[m].priority
                            /\ native'[m].cancelled = native[m].cancelled
                            /\ m # n => native'[m] = native[m]
      /\ native' \in [Natives -> NativeType]
  BY DEF Cleanup, IInv, TypeOK, NativeType, Stages
<1>4. /\ slot'[i0].state = "EXITED"
      /\ \A i \in Slots : /\ slot'[i].in_use <=> slot[i].in_use
                          /\ slot'[i].joined <=> slot[i].joined
                          /\ slot'[i].id = slot[i].id
                          /\ slot'[i].serial = slot[i].serial
                          /\ slot'[i].entry = slot[i].entry
                          /\ slot'[i].thread = slot[i].thread
                          /\ slot'[i].priority = slot[i].priority
                          /\ i # i0 => slot'[i] = slot[i]
      /\ slot' \in [Slots -> SlotType]
  BY <1>2 DEF Cleanup, IInv, TypeOK, SlotType
<1>5. Started(n)'
  BY <1>3 DEF Started
<1>6. /\ CallDiscipline' /\ ContractKept' /\ CreatorDiscipline'
      /\ SlotDiscipline' /\ ReaperDiscipline' /\ CancelDiscipline'
      /\ HandlesSound' /\ SlotOutlivesThread' /\ ClaimIsKept'
      /\ PriorityApplied'
  BY <1>1, <1>3, <1>4, <1>5, ThreadMoves
<1>7. TypeOK'
  BY <1>1, <1>3, <1>4 DEF IInv, TypeOK
<1>8. StateTruthful'
  BY <1>1, <1>2, <1>3, <1>4, SlotThread DEF IInv, StateTruthful, Creating, SlotOf
<1>9. OwnIdentity'
  BY <1>1, <1>3 DEF IInv, OwnIdentity
<1> QED BY <1>6, <1>7, <1>8, <1>9 DEF IInv

-----------------------------------------------------------------------------
(* AOS_TaskCreate *)

LEMMA PcOp ==
  ASSUME CallDiscipline, NEW u \in Actors, TypeOK
  PROVE  /\ call[u].pc \in {"spawn", "rollback"} => call[u].op = "Create"
         /\ call[u].pc \in {"cancel", "free"} => call[u].op = "Delete"
         /\ call[u].pc = "join" => call[u].op \in Reapers
BY DEF CallDiscipline, TypeOK, CallType, Idle, Reapers

LEMMA CreateLockedInv ==
  ASSUME IInv, NEW u \in Actors, CreateLocked(u)
  PROVE  IInv'
<1>1. PICK i0 \in Slots, name \in Names, priority \in Priorities :
        LET serial == NextSerial(slot[i0].serial)
            id     == IdPack(AOS_TYPE_TASK, serial, i0)
        IN  /\ IsFirstFree(i0)
            /\ slot' = [slot EXCEPT ![i0] =
                 [thread |-> slot[i0].thread, entry |-> id, id |-> id,
                  priority |-> priority, state |-> "STARTING",
                  serial |-> serial, in_use |-> TRUE, joined |-> FALSE,
                  name |-> name]]
            /\ call' = [call EXCEPT ![u] =
                 [op |-> "Create", pc |-> "spawn", id |-> id,
                  thread |-> NoThread, priority |-> priority]]
  BY DEF CreateLocked
<1>2. /\ call[u] = Idle /\ (u \in Natives => native[u].stage = "body")
      /\ native' = native /\ misused' = misused
  BY DEF CreateLocked, CanCall
<1>3. ~slot[i0].in_use
  BY <1>1 DEF IsFirstFree, FreeSlots
<1>4. PICK serial \in 1 .. SerialMod - 1 : serial = NextSerial(slot[i0].serial)
  BY NextSerialFresh DEF IInv, TypeOK, SlotType
<1>5. PICK id \in TaskIds : /\ id = IdPack(AOS_TYPE_TASK, serial, i0)
                            /\ IdIndex(id) = i0 /\ IdSerial(id) = serial
  BY TaskIdFacts
<1> DEFINE filled == [thread |-> slot[i0].thread, entry |-> id, id |-> id,
                      priority |-> priority, state |-> "STARTING",
                      serial |-> serial, in_use |-> TRUE, joined |-> FALSE,
                      name |-> name]
           begun  == [op |-> "Create", pc |-> "spawn", id |-> id,
                      thread |-> NoThread, priority |-> priority]
<1>6. slot' = [slot EXCEPT ![i0] = filled] /\ call' = [call EXCEPT ![u] = begun]
  BY <1>1, <1>4, <1>5
<1>7. filled \in SlotType /\ begun \in CallType
  BY <1>4, SerialModAssumption DEF SlotType, CallType, Points, IInv, TypeOK
<1>8. TypeOK'
  <2> HIDE DEF filled, begun
  <2> QED BY <1>2, <1>6, <1>7 DEF IInv, TypeOK
<1>9. /\ slot'[i0].in_use /\ ~slot'[i0].joined /\ slot'[i0].id = id
      /\ slot'[i0].serial = serial /\ slot'[i0].entry = id
      /\ slot'[i0].priority = priority /\ slot'[i0].state = "STARTING"
      /\ \A i \in Slots : i # i0 => slot'[i] = slot[i]
  BY <1>6 DEF IInv, TypeOK
<1>10. /\ call'[u].op = "Create" /\ call'[u].pc = "spawn" /\ call'[u].id = id
       /\ call'[u].priority = priority
       /\ \A v \in Actors : v # u => call'[v] = call[v]
       /\ call[u].op = "none"
  BY <1>2, <1>6 DEF IInv, TypeOK, Idle
<1> HIDE DEF filled, begun
<1>11. /\ SlotOf(u)' = i0
       /\ \A v \in Actors : v # u => SlotOf(v)' = SlotOf(v)
       /\ \A n \in Natives : HomeOf(n)' = HomeOf(n) /\ (Started(n)' <=> Started(n))
  BY <1>2, <1>5, <1>10 DEF SlotOf, HomeOf, Started
<1>12. ~Creating(i0)
  BY <1>3 DEF Creating, IInv, CreatorDiscipline
<1>13. \A i \in Slots : Creating(i)' <=> (Creating(i) \/ i = i0)
  BY <1>10, <1>11 DEF Creating
<1>14. CallDiscipline'
  BY <1>2, <1>10 DEF IInv, CallDiscipline, Idle
<1>15. ContractKept'
  BY <1>2, <1>10 DEF IInv, ContractKept, Reapers, Actors
<1>16. CreatorDiscipline'
  <2>1. \A n \in Natives : Started(n) => HomeOf(n) # i0
    BY <1>3, ThreadSlot
  <2>2. \A v \in Actors : call[v].op = "Create" => SlotOf(v) # i0 /\ SlotOf(v) \in Slots
    BY <1>12, CallSlot DEF Creating
  <2> QED BY <1>9, <1>10, <1>11, <2>1, <2>2 DEF IInv, CreatorDiscipline
<1>17. SlotDiscipline'
  BY <1>2, <1>5, <1>9, <1>13, SlotThread DEF IInv, SlotDiscipline
<1>18. ReaperDiscipline'
  BY <1>2, <1>3, <1>9, <1>10, <1>11, <1>13, ReaperSlot DEF IInv, ReaperDiscipline, Reapers
<1>19. CancelDiscipline' /\ HandlesSound' /\ OwnIdentity'
  BY <1>2, <1>10, <1>11 DEF IInv, CancelDiscipline, HandlesSound, OwnIdentity
<1>20. SlotOutlivesThread' /\ PriorityApplied'
  BY <1>2, <1>3, <1>9, <1>11, ThreadSlot DEF IInv, SlotOutlivesThread, PriorityApplied, Started
<1>21. ClaimIsKept'
  BY <1>2, <1>9, <1>10 DEF IInv, ClaimIsKept, Reaping, Reapers
<1>22. StateTruthful'
  BY <1>2, <1>9, <1>13 DEF IInv, StateTruthful
<1> QED BY <1>8, <1>14, <1>15, <1>16, <1>17, <1>18, <1>19, <1>20, <1>21, <1>22 DEF IInv

(* What a thread that creates a task knows. *)
LEMMA CreatorSlot ==
  ASSUME IInv, NEW u \in Actors, call[u].pc \in {"spawn", "rollback"}
  PROVE  /\ call[u].op = "Create" /\ call[u].id \in TaskIds
         /\ SlotOf(u) \in Slots /\ Creating(SlotOf(u))
         /\ slot[SlotOf(u)].in_use /\ ~slot[SlotOf(u)].joined
         /\ slot[SlotOf(u)].id = call[u].id
         /\ slot[SlotOf(u)].priority = call[u].priority
         /\ slot[SlotOf(u)].state = "STARTING"
         /\ \A v \in Actors : call[v].op # "none" /\ v # u => SlotOf(v) # SlotOf(u)
         /\ \A n \in Natives : Started(n) => HomeOf(n) # SlotOf(u)
<1>1. call[u].op = "Create"
  BY PcOp DEF IInv
<1>2. call[u].id \in TaskIds /\ SlotOf(u) \in Slots /\ Creating(SlotOf(u))
  BY <1>1, CallSlot DEF Creating
<1>3. /\ slot[SlotOf(u)].in_use /\ ~slot[SlotOf(u)].joined
      /\ slot[SlotOf(u)].id = call[u].id
      /\ slot[SlotOf(u)].priority = call[u].priority
      /\ \A v \in Actors : call[v].op = "Create" /\ SlotOf(v) = SlotOf(u) => v = u
      /\ \A n \in Natives : Started(n) => HomeOf(n) # SlotOf(u)
  BY <1>1 DEF IInv, CreatorDiscipline
<1>4. slot[SlotOf(u)].state = "STARTING"
  BY <1>2, <1>3 DEF IInv, StateTruthful
<1>5. ASSUME NEW v \in Actors, call[v].op # "none", v # u
      PROVE  SlotOf(v) # SlotOf(u)
  <2>1. CASE call[v].op \in Reapers
    BY <1>2, <2>1, ReaperSlot
  <2>2. CASE call[v].op = "Create"
    BY <1>3, <1>5, <2>2
  <2> QED BY <1>5, <2>1, <2>2 DEF IInv, TypeOK, CallType
<1> QED BY <1>1, <1>2, <1>3, <1>4, <1>5

LEMMA SpawnInv ==
  ASSUME IInv, NEW u \in Actors, Spawn(u)
  PROVE  IInv'
<1>1. PICK n0 \in Natives :
        /\ native[n0].stage = "none"
        /\ native' = [native EXCEPT ![n0] =
             [NoNative EXCEPT !.stage = "start", !.task = call[u].id,
                !.priority = IF RtEnabled THEN call[u].priority ELSE 0]]
        /\ slot' = [slot EXCEPT ![SlotOf(u)].thread = n0]
  BY DEF Spawn
<1>2. call[u].pc = "spawn" /\ call' = [call EXCEPT ![u] = Idle] /\ misused' = misused
  BY DEF Spawn, At, Return
<1> PICK i0 \in Slots : i0 = SlotOf(u)
  BY <1>2, CreatorSlot
<1> PICK id \in TaskIds : id = call[u].id
  BY <1>2, CreatorSlot
<1> PICK priority \in Priorities : priority = call[u].priority
  BY DEF IInv, TypeOK, CallType
<1>3. /\ IdIndex(id) = i0 /\ Creating(i0)
      /\ slot[i0].in_use /\ ~slot[i0].joined /\ slot[i0].id = id
      /\ slot[i0].priority = priority /\ slot[i0].state = "STARTING"
      /\ \A v \in Actors : call[v].op # "none" /\ v # u => SlotOf(v) # i0
      /\ \A n \in Natives : Started(n) => HomeOf(n) # i0
      /\ call[u].op = "Create"
  BY <1>2, CreatorSlot DEF SlotOf
<1> PICK given \in Priorities : given = IF RtEnabled THEN priority ELSE 0
  BY ZeroPriority
<1> DEFINE born == [NoNative EXCEPT !.stage = "start", !.task = id, !.priority = given]
<1>4. /\ born \in NativeType /\ born.stage = "start" /\ born.task = id
      /\ RtEnabled => born.priority = priority
      /\ ~born.cancelled
  <2>1. NoNative \in NativeType /\ ~NoNative.cancelled
    BY RecordTypes DEF NoNative
  <2>2. born \in NativeType
    BY <2>1 DEF NativeType, Stages
  <2> QED BY <2>1, <2>2 DEF NativeType
<1>5. native' = [native EXCEPT ![n0] = born]
  BY <1>1
<1> HIDE DEF born
<1>6. /\ native'[n0] = born
      /\ \A n \in Natives : n # n0 => native'[n] = native[n]
      /\ native' \in [Natives -> NativeType]
  BY <1>4, <1>5 DEF IInv, TypeOK
<1>7. /\ slot'[i0].thread = n0
      /\ \A i \in Slots : /\ slot'[i].in_use <=> slot[i].in_use
                          /\ slot'[i].joined <=> slot[i].joined
                          /\ slot'[i].id = slot[i].id
                          /\ slot'[i].serial = slot[i].serial
                          /\ slot'[i].entry = slot[i].entry
                          /\ slot'[i].priority = slot[i].priority
                          /\ slot'[i].state = slot[i].state
                          /\ i # i0 => slot'[i] = slot[i]
      /\ slot' \in [Slots -> SlotType]
  BY <1>1 DEF IInv, TypeOK, SlotType
<1>8. /\ call'[u] = Idle /\ call'[u].op = "none"
      /\ \A v \in Actors : v # u => call'[v] = call[v]
      /\ call' \in [Actors -> CallType]
  BY <1>2, RecordTypes DEF IInv, TypeOK, Idle
<1>9. TypeOK'
  BY <1>2, <1>6, <1>7, <1>8 DEF IInv, TypeOK
<1>10. /\ \A v \in Actors : v # u => SlotOf(v)' = SlotOf(v)
       /\ \A n \in Natives : n # n0 => HomeOf(n)' = HomeOf(n) /\ (Started(n)' <=> Started(n))
       /\ HomeOf(n0)' = i0 /\ Started(n0)' /\ ~Started(n0)
       /\ call[n0].op = "none" /\ native'[n0].stage = "start" /\ native'[n0].task = id
  BY <1>1, <1>3, <1>4, <1>6, <1>8 DEF SlotOf, HomeOf, Started, IInv, CallDiscipline, Actors
<1>11. ~Creating(i0)' /\ \A i \in Slots : i # i0 => (Creating(i)' <=> Creating(i))
  BY <1>3, <1>8, <1>10 DEF Creating
<1>30. \A i \in Slots : slot[i].in_use /\ i # i0 /\ ~Creating(i) =>
         /\ slot[i].thread # n0 /\ slot[i].thread \in Natives
         /\ native'[slot[i].thread] = native[slot[i].thread]
  BY <1>1, <1>6, SlotThread
<1>12. CallDiscipline'
  BY <1>1, <1>6, <1>8, <1>10 DEF IInv, CallDiscipline, Idle
<1>13. ContractKept'
  <2>1. \A v \in Actors : v # u /\ call[v].op \in Reapers => call[v].id # id
    BY <1>3, CallSlot DEF Reapers, SlotOf
  <2>2. \A v \in Actors : call'[v].op \in Reapers => v # u /\ call'[v] = call[v] /\ v # n0
    BY <1>8, <1>10 DEF Reapers, Actors
  <2>3. \A v \in Actors : call'[v].op = "Delete" => v # u /\ call'[v] = call[v] /\ v # n0
    BY <2>2 DEF Reapers
  <2>4. \A n \in Natives : call'[n].op \in Reapers => n # u /\ call'[n] = call[n] /\ n # n0
    BY <2>2 DEF Actors
  <2> QED BY <1>6, <2>2, <2>3, <2>4 DEF IInv, ContractKept
<1>14. CreatorDiscipline'
  BY <1>3, <1>7, <1>8, <1>10, CallSlot DEF IInv, CreatorDiscipline
<1>15. SlotDiscipline'
  <2> SUFFICES ASSUME NEW i \in Slots, slot'[i].in_use
               PROVE  /\ slot'[i].id \in TaskIds /\ IdIndex(slot'[i].id) = i
                      /\ IdSerial(slot'[i].id) = slot'[i].serial
                      /\ slot'[i].entry = slot'[i].id
                      /\ ~Creating(i)' =>
                           /\ slot'[i].thread \in Natives
                           /\ native'[slot'[i].thread].task = slot'[i].id
                           /\ native'[slot'[i].thread].stage # "none"
                           /\ native'[slot'[i].thread].stage = "reaped" => slot'[i].joined
    BY DEF SlotDiscipline
  <2>1. /\ slot'[i].id \in TaskIds /\ IdIndex(slot'[i].id) = i
        /\ IdSerial(slot'[i].id) = slot'[i].serial
        /\ slot'[i].entry = slot'[i].id
    BY <1>7 DEF IInv, SlotDiscipline
  <2>2. CASE i = i0
    BY <1>3, <1>7, <1>10, <2>1, <2>2
  <2>3. CASE i # i0
    BY <1>7, <1>11, <1>30, <2>1, <2>3 DEF IInv, SlotDiscipline
  <2> QED BY <2>2, <2>3
<1>16. ReaperDiscipline'
  <2> SUFFICES ASSUME NEW v \in Actors, call'[v].op \in Reapers
               PROVE  (LET s == slot[SlotOf(v)]
                       IN  /\ s.in_use /\ s.joined /\ s.id = call[v].id
                           /\ s.thread = call[v].thread
                           /\ ~Creating(SlotOf(v))
                           /\ call[v].pc = "free" <=> ~Started(s.thread))'
    BY DEF ReaperDiscipline
  <2>1. v # u /\ call'[v] = call[v] /\ call[v].op \in Reapers /\ SlotOf(v)' = SlotOf(v)
    BY <1>8, <1>10 DEF Reapers
  <2>2. SlotOf(v) # i0 /\ SlotOf(v) \in Slots
    BY <1>3, <2>1, ReaperSlot DEF Reapers
  <2>3. slot'[SlotOf(v)] = slot[SlotOf(v)] 
    BY <1>7, <2>1, <2>2
  <2>4. slot[SlotOf(v)].thread # n0 /\ slot[SlotOf(v)].thread \in Natives
    BY <1>30, <2>1, <2>2, ReaperSlot
  <2>5. Started(slot[SlotOf(v)].thread)' <=> Started(slot[SlotOf(v)].thread)
    BY <1>6, <2>1, <2>3, <2>4 DEF Started
  <2>6. Creating(SlotOf(v))' <=> Creating(SlotOf(v))
    BY <1>11, <2>1, <2>2
  <2> QED BY <2>1, <2>3, <2>5, <2>6, ReaperSlot
<1>17. CancelDiscipline'
  BY <1>3, <1>4, <1>6, <1>8, <1>10 DEF IInv, CancelDiscipline
<1>18. HandlesSound' /\ OwnIdentity'
  BY <1>2, <1>4, <1>6, <1>10 DEF IInv, HandlesSound, OwnIdentity
<1>19. SlotOutlivesThread' /\ PriorityApplied'
  BY <1>3, <1>4, <1>6, <1>7, <1>10, ThreadSlot DEF IInv, SlotOutlivesThread, PriorityApplied, Started
<1>20. ClaimIsKept'
  <2> SUFFICES ASSUME NEW i \in Slots, slot'[i].in_use, slot'[i].joined
               PROVE  \/ native'[slot'[i].thread].stage = "reaped"
                      \/ \E v \in Actors : /\ call'[v].op \in Reapers
                                           /\ call'[v].id = slot'[i].id
                                           /\ call'[v].pc \in {"cancel", "join"}
    BY DEF ClaimIsKept, Reaping
  <2>1. i # i0 /\ slot'[i] = slot[i] /\ ~Creating(i)
    BY <1>3, <1>7, SlotThread
  <2>2. native'[slot[i].thread] = native[slot[i].thread]
    BY <1>30, <2>1
  <2> QED BY <1>3, <1>8, <2>1, <2>2 DEF IInv, ClaimIsKept, Reaping, Reapers
<1>21. StateTruthful'
  <2> SUFFICES ASSUME NEW i \in Slots, slot'[i].in_use
               PROVE  LET stage == IF Creating(i)' THEN "start"
                                   ELSE native'[slot'[i].thread].stage
                      IN  \/ slot'[i].state = "STARTING" /\ stage \in {"start", "named"}
                          \/ slot'[i].state = "RUNNING"  /\ stage \in {"body", "cleanup"}
                          \/ slot'[i].state = "EXITED"   /\ stage \in {"ended", "reaped"}
    BY DEF StateTruthful
  <2>1. CASE i = i0
    BY <1>3, <1>7, <1>10, <2>1
  <2>2. CASE i # i0
    BY <1>7, <1>11, <1>30, <2>2 DEF IInv, StateTruthful
  <2> QED BY <2>1, <2>2
<1> QED BY <1>9, <1>12, <1>13, <1>14, <1>15, <1>16, <1>17, <1>18, <1>19, <1>20, <1>21 DEF IInv
LEMMA SpawnFailsInv ==
  ASSUME IInv, NEW u \in Actors, SpawnFails(u)
  PROVE  IInv'
<1>1. /\ call[u].pc = "spawn" /\ call' = [call EXCEPT ![u].pc = "rollback"]
      /\ native' = native /\ misused' = misused
  BY DEF SpawnFails, At, Goto
<1> PICK i0 \in Slots : i0 = SlotOf(u)
  BY <1>1, CreatorSlot
<1>2. /\ Creating(i0) /\ slot[i0].in_use /\ ~slot[i0].joined
      /\ \A v \in Actors : call[v].op # "none" /\ v # u => SlotOf(v) # i0
      /\ \A n \in Natives : Started(n) => HomeOf(n) # i0
      /\ call[u].op = "Create"
  BY <1>1, CreatorSlot
<1>3. PICK h \in Natives \cup {NoThread} : slot' = [slot EXCEPT ![i0].thread = h]
  BY DEF SpawnFails, IInv, TypeOK, SlotType
<1>4. /\ \A i \in Slots : /\ slot'[i].in_use <=> slot[i].in_use
                          /\ slot'[i].joined <=> slot[i].joined
                          /\ slot'[i].id = slot[i].id
                          /\ slot'[i].serial = slot[i].serial
                          /\ slot'[i].entry = slot[i].entry
                          /\ slot'[i].priority = slot[i].priority
                          /\ slot'[i].state = slot[i].state
                          /\ i # i0 => slot'[i] = slot[i]
      /\ slot' \in [Slots -> SlotType]
  BY <1>3 DEF IInv, TypeOK, SlotType
<1>5. /\ \A v \in Actors : /\ call'[v].op = call[v].op /\ call'[v].id = call[v].id
                           /\ call'[v].thread = call[v].thread
                           /\ call'[v].priority = call[v].priority
                           /\ v # u => call'[v] = call[v]
      /\ call'[u].pc = "rollback"
      /\ call' \in [Actors -> CallType]
  BY <1>1 DEF IInv, TypeOK, CallType, Points
<1>6. /\ \A v \in Actors : SlotOf(v)' = SlotOf(v)
      /\ \A n \in Natives : HomeOf(n)' = HomeOf(n) /\ (Started(n)' <=> Started(n))
  BY <1>1, <1>5 DEF SlotOf, HomeOf, Started
<1>7. \A i \in Slots : Creating(i)' <=> Creating(i)
  BY <1>5, <1>6 DEF Creating
<1>8. TypeOK'
  BY <1>1, <1>4, <1>5 DEF IInv, TypeOK
<1>9. CallDiscipline'
  BY <1>1, <1>2, <1>5 DEF IInv, CallDiscipline, Idle
<1>10. ContractKept'
  BY <1>1, <1>5 DEF IInv, ContractKept, Actors
<1>11. CreatorDiscipline'
  BY <1>4, <1>5, <1>6, CallSlot DEF IInv, CreatorDiscipline
<1>12. SlotDiscipline'
  BY <1>1, <1>2, <1>4, <1>7 DEF IInv, SlotDiscipline
<1>13. ReaperDiscipline'
  <2> SUFFICES ASSUME NEW v \in Actors, call'[v].op \in Reapers
               PROVE  (LET s == slot[SlotOf(v)]
                       IN  /\ s.in_use /\ s.joined /\ s.id = call[v].id
                           /\ s.thread = call[v].thread
                           /\ ~Creating(SlotOf(v))
                           /\ call[v].pc = "free" <=> ~Started(s.thread))'
    BY DEF ReaperDiscipline
  <2>1. call[v].op \in Reapers /\ v # u /\ call'[v] = call[v]
    BY <1>2, <1>5 DEF Reapers
  <2>2. SlotOf(v) # i0 /\ SlotOf(v) \in Slots
    BY <1>2, <2>1, ReaperSlot DEF Reapers
  <2> QED BY <1>4, <1>6, <1>7, <2>1, <2>2, ReaperSlot
<1>14. CancelDiscipline'
  BY <1>1, <1>2, <1>5, <1>6 DEF IInv, CancelDiscipline
<1>15. HandlesSound' /\ OwnIdentity'
  BY <1>1 DEF IInv, HandlesSound, OwnIdentity
<1>16. SlotOutlivesThread' /\ PriorityApplied'
  BY <1>1, <1>2, <1>4, <1>6, ThreadSlot DEF IInv, SlotOutlivesThread, PriorityApplied, Started
<1>17. ClaimIsKept'
  BY <1>1, <1>2, <1>4, <1>5 DEF IInv, ClaimIsKept, Reaping, Reapers
<1>18. StateTruthful'
  BY <1>1, <1>2, <1>4, <1>7 DEF IInv, StateTruthful
<1> QED BY <1>8, <1>9, <1>10, <1>11, <1>12, <1>13, <1>14, <1>15, <1>16, <1>17, <1>18 DEF IInv

(* A slot that no call and no started thread uses is given up. *)
LEMMA SlotGivenUp ==
  ASSUME IInv, NEW u \in Actors, NEW i0 \in Slots,
         SlotOf(u) = i0, call[u].op # "none",
         \A v \in Actors : call[v].op # "none" /\ v # u => SlotOf(v) # i0,
         \A n \in Natives : Started(n) => HomeOf(n) # i0,
         slot' \in [Slots -> SlotType], ~slot'[i0].in_use,
         \A i \in Slots : i # i0 => slot'[i] = slot[i],
         call' = [call EXCEPT ![u] = Idle],
         native' = native, misused' = misused, call[u].pc # "join"
  PROVE  IInv'
<1>1. /\ call'[u] = Idle /\ call'[u].op = "none"
      /\ \A v \in Actors : v # u => call'[v] = call[v]
      /\ call' \in [Actors -> CallType]
  BY RecordTypes DEF IInv, TypeOK, Idle
<1>2. /\ \A v \in Actors : v # u => SlotOf(v)' = SlotOf(v)
      /\ \A n \in Natives : HomeOf(n)' = HomeOf(n) /\ (Started(n)' <=> Started(n))
  BY <1>1 DEF SlotOf, HomeOf, Started
<1>3. \A i \in Slots : i # i0 => (Creating(i)' <=> Creating(i))
  BY <1>1, <1>2 DEF Creating
<1>4. TypeOK'
  BY <1>1 DEF IInv, TypeOK
<1>5. CallDiscipline'
  BY <1>1 DEF IInv, CallDiscipline
<1>6. ContractKept'
  BY <1>1 DEF IInv, ContractKept, Reapers, Actors
<1>7. CreatorDiscipline'
  BY <1>1, <1>2, CallSlot DEF IInv, CreatorDiscipline
<1>8. SlotDiscipline'
  BY <1>3 DEF IInv, SlotDiscipline
<1>9. ReaperDiscipline'
  <2> SUFFICES ASSUME NEW v \in Actors, call'[v].op \in Reapers
               PROVE  (LET s == slot[SlotOf(v)]
                       IN  /\ s.in_use /\ s.joined /\ s.id = call[v].id
                           /\ s.thread = call[v].thread
                           /\ ~Creating(SlotOf(v))
                           /\ call[v].pc = "free" <=> ~Started(s.thread))'
    BY DEF ReaperDiscipline
  <2>1. call[v].op \in Reapers /\ v # u /\ call'[v] = call[v] /\ SlotOf(v)' = SlotOf(v)
    BY <1>1, <1>2 DEF Reapers
  <2>2. SlotOf(v) # i0 /\ SlotOf(v) \in Slots
    BY <2>1, ReaperSlot DEF Reapers
  <2> QED BY <1>2, <1>3, <2>1, <2>2, ReaperSlot
<1>10. CancelDiscipline'
  BY <1>1, <1>2 DEF IInv, CancelDiscipline
<1>11. HandlesSound' /\ OwnIdentity'
  BY DEF IInv, HandlesSound, OwnIdentity
<1>12. SlotOutlivesThread' /\ PriorityApplied'
  BY <1>2, ThreadSlot DEF IInv, SlotOutlivesThread, PriorityApplied, Started
<1>13. ClaimIsKept'
  <2> SUFFICES ASSUME NEW i \in Slots, slot'[i].in_use, slot'[i].joined
               PROVE  \/ native'[slot'[i].thread].stage = "reaped"
                      \/ \E v \in Actors : /\ call'[v].op \in Reapers
                                           /\ call'[v].id = slot'[i].id
                                           /\ call'[v].pc \in {"cancel", "join"}
    BY DEF ClaimIsKept, Reaping
  <2>1. i # i0 /\ slot'[i] = slot[i]
    OBVIOUS
  <2>2. ASSUME NEW v \in Actors, call[v].id = slot[i].id, call[v].op \in Reapers
        PROVE  v # u
    BY <2>1, <2>2 DEF SlotOf, IInv, SlotDiscipline
  <2> QED BY <1>1, <2>1, <2>2 DEF IInv, ClaimIsKept, Reaping
<1>14. StateTruthful'
  BY <1>3 DEF IInv, StateTruthful
<1> QED BY <1>4, <1>5, <1>6, <1>7, <1>8, <1>9, <1>10, <1>11, <1>12, <1>13, <1>14 DEF IInv

LEMMA RollbackInv ==
  ASSUME IInv, NEW u \in Actors, Rollback(u)
  PROVE  IInv'
<1>1. /\ call[u].pc = "rollback" /\ call' = [call EXCEPT ![u] = Idle]
      /\ native' = native /\ misused' = misused
  BY DEF Rollback, At, Return
<1> PICK i0 \in Slots : i0 = SlotOf(u)
  BY <1>1, CreatorSlot
<1>2. /\ call[u].op = "Create" /\ call[u].op # "none"
      /\ \A v \in Actors : call[v].op # "none" /\ v # u => SlotOf(v) # i0
      /\ \A n \in Natives : Started(n) => HomeOf(n) # i0
  BY <1>1, CreatorSlot
<1>3. /\ slot' \in [Slots -> SlotType] /\ ~slot'[i0].in_use
      /\ \A i \in Slots : i # i0 => slot'[i] = slot[i]
  <2> DEFINE freed == [slot[i0] EXCEPT !.in_use = FALSE, !.state = "UNUSED"]
  <2>1. freed \in SlotType /\ ~freed.in_use
    <3>1. slot[i0] \in SlotType
      BY DEF IInv, TypeOK
    <3> QED BY <3>1 DEF SlotType
  <2>2. slot' = [slot EXCEPT ![i0] = freed]
    BY DEF Rollback, IInv, TypeOK
  <2> HIDE DEF freed
  <2> QED BY <2>1, <2>2 DEF IInv, TypeOK
<1> QED BY <1>1, <1>2, <1>3, SlotGivenUp
-----------------------------------------------------------------------------
(* AOS_TaskDelete and AOS_TaskJoin *)

(* What the contract says when a thread sets out to reap a task. *)
LEMMA ReapAllowed ==
  ASSUME IInv, Contract = Obligations, NEW u \in Actors, CanCall(u),
         NEW op \in Reapers, NEW id, Permitted(u, op, id), ValidId(id)
  PROVE  LET i == IdIndex(id)
             h == slot[i].thread
         IN  /\ id \in TaskIds /\ i \in Slots /\ slot[i].in_use /\ slot[i].id = id
             /\ ~Creating(i)
             /\ \A v \in Actors : call[v].op # "none" => SlotOf(v) # i
             /\ \A v \in Actors : ~Reaping(v, id)
             /\ h \in Natives /\ native[h].task = id /\ HomeOf(h) = i
             /\ op = "Delete" => h # u
             /\ slot[i].joined => native[h].stage = "reaped"
             /\ ~slot[i].joined => Started(h)
<1>1. id \in TaskIds /\ IdIndex(id) \in Slots /\ slot[IdIndex(id)].in_use
      /\ slot[IdIndex(id)].id = id
  BY ValidIdFacts DEF IInv
<1> PICK i \in Slots : i = IdIndex(id)
  BY <1>1
<1>2. \A v \in Actors : ~Reaping(v, id)
  BY DEF Permitted, Obligations, Reaping, Reapers
<1>3. \A v \in Actors : call[v].op = "Create" => call[v].id # id
  BY DEF Permitted, Obligations
<1>4. ~Creating(i)
  BY <1>1, <1>3 DEF Creating, IInv, CreatorDiscipline
<1>5. /\ slot[i].thread \in Natives /\ native[slot[i].thread].task = id
      /\ native[slot[i].thread].stage # "none" /\ HomeOf(slot[i].thread) = i
  BY <1>1, <1>4, SlotThread
<1>6. op = "Delete" => slot[i].thread # u
  BY <1>5 DEF Permitted, Obligations
<1>7. slot[i].joined => native[slot[i].thread].stage = "reaped"
  BY <1>1, <1>2 DEF IInv, ClaimIsKept
<1>8. ~slot[i].joined => Started(slot[i].thread)
  BY <1>1, <1>4, <1>5 DEF IInv, SlotDiscipline, Started
<1>9. ASSUME NEW v \in Actors, call[v].op # "none" PROVE SlotOf(v) # i
  <2>1. CASE call[v].op \in Reapers
    BY <1>1, <1>2, <2>1, ReaperSlot DEF Reaping
  <2>2. CASE call[v].op = "Create"
    BY <1>4, <2>2 DEF Creating
  <2> QED BY <1>9, <2>1, <2>2 DEF IInv, TypeOK, CallType
<1> QED BY <1>1, <1>2, <1>4, <1>5, <1>6, <1>7, <1>8, <1>9

(* A claim is made: joined is set, and the caller goes on to reap. *)
LEMMA ClaimMade ==
  ASSUME IInv, Contract = Obligations, NEW u \in Actors, CanCall(u),
         NEW op \in Reapers, NEW id, Permitted(u, op, id), ValidId(id),
         NEW pc \in {"cancel", "join", "free"},
         op = "Join" => pc = "join", 
         slot[IdIndex(id)].thread # u,
         pc = "free" <=> slot[IdIndex(id)].joined,
         slot' = [slot EXCEPT ![IdIndex(id)].joined = TRUE],
         call' = [call EXCEPT ![u] = [op |-> op, pc |-> pc, id |-> id,
                                      thread |-> slot[IdIndex(id)].thread,
                                      priority |-> 0]],
         native' = native, misused' = misused
  PROVE  IInv'
<1> PICK i0 \in Slots : i0 = IdIndex(id)
  BY ReapAllowed
<1> PICK h \in Natives : h = slot[i0].thread
  BY ReapAllowed
<1>1. /\ id \in TaskIds /\ slot[i0].in_use /\ slot[i0].id = id /\ ~Creating(i0)
      /\ \A v \in Actors : call[v].op # "none" => SlotOf(v) # i0
      /\ \A v \in Actors : ~Reaping(v, id)
      /\ native[h].task = id /\ HomeOf(h) = i0 /\ h # u
      /\ slot[i0].joined => native[h].stage = "reaped"
      /\ ~slot[i0].joined => Started(h)
      /\ pc = "free" <=> slot[i0].joined
  BY ReapAllowed
<1>2. pc = "free" <=> ~Started(h)
  BY <1>1 DEF Started
<1>3. call[u] = Idle /\ call[u].op = "none" /\ (u \in Natives => native[u].stage = "body")
  BY DEF CanCall, Idle
<1>4. /\ \A i \in Slots : /\ slot'[i].in_use <=> slot[i].in_use
                          /\ slot'[i].id = slot[i].id
                          /\ slot'[i].serial = slot[i].serial
                          /\ slot'[i].entry = slot[i].entry
                          /\ slot'[i].thread = slot[i].thread
                          /\ slot'[i].priority = slot[i].priority
                          /\ slot'[i].state = slot[i].state
                          /\ i # i0 => slot'[i] = slot[i]
      /\ slot'[i0].joined
      /\ slot' \in [Slots -> SlotType]
  <2> DEFINE claimed == [slot[i0] EXCEPT !.joined = TRUE]
  <2>1. /\ claimed \in SlotType /\ claimed.joined
        /\ claimed.in_use = slot[i0].in_use /\ claimed.id = slot[i0].id
        /\ claimed.serial = slot[i0].serial /\ claimed.entry = slot[i0].entry
        /\ claimed.thread = slot[i0].thread /\ claimed.priority = slot[i0].priority
        /\ claimed.state = slot[i0].state
    <3>1. slot[i0] \in SlotType
      BY DEF IInv, TypeOK
    <3> QED BY <3>1 DEF SlotType
  <2>2. slot' = [slot EXCEPT ![i0] = claimed]
    BY DEF IInv, TypeOK
  <2> HIDE DEF claimed
  <2>3. slot' \in [Slots -> SlotType] /\ slot'[i0] = claimed
        /\ \A i \in Slots : i # i0 => slot'[i] = slot[i]
    BY <2>1, <2>2 DEF IInv, TypeOK
  <2> QED BY <2>1, <2>3
<1> DEFINE begun == [op |-> op, pc |-> pc, id |-> id, thread |-> h, priority |-> 0]
<1>5. begun \in CallType
  <2>1. op \in {"none", "Create"} \cup Reapers /\ pc \in Points
        /\ id \in TaskIds \cup {AOS_ID_NONE} /\ h \in Natives \cup {NoThread}
        /\ 0 \in Priorities
    <3>1. pc \in Points
      BY Zenon DEF Points
    <3> QED BY <1>1, <3>1, ZeroPriority
  <2> QED BY <2>1 DEF CallType
<1>6. call' = [call EXCEPT ![u] = begun]
  OBVIOUS
<1>7. /\ call'[u].op = op /\ call'[u].pc = pc /\ call'[u].id = id /\ call'[u].thread = h
      /\ \A v \in Actors : v # u => call'[v] = call[v]
  BY <1>6 DEF IInv, TypeOK
<1>8. call' \in [Actors -> CallType]
  <2> HIDE DEF begun
  <2> QED BY <1>5, <1>6 DEF IInv, TypeOK
<1> HIDE DEF begun
<1>9. /\ SlotOf(u)' = i0
      /\ \A v \in Actors : v # u => SlotOf(v)' = SlotOf(v)
      /\ \A n \in Natives : HomeOf(n)' = HomeOf(n) /\ (Started(n)' <=> Started(n))
  BY <1>7 DEF SlotOf, HomeOf, Started
<1>10. \A i \in Slots : Creating(i)' <=> Creating(i)
  BY <1>3, <1>7, <1>9 DEF Creating, Reapers
<1>11. TypeOK'
  BY <1>4, <1>8 DEF IInv, TypeOK
<1>12. CallDiscipline'
  BY <1>1, <1>3, <1>7 DEF IInv, CallDiscipline, Reapers
<1>13. ContractKept'
  <2>1. ASSUME NEW v \in Actors, NEW w \in Actors,
               call'[v].op \in Reapers, call'[w].op \in Reapers,
               call'[v].id = call'[w].id
        PROVE  v = w
    <3>1. CASE v = u
      BY <1>1, <1>7, <2>1, <3>1 DEF Reaping
    <3>2. CASE w = u
      BY <1>1, <1>7, <2>1, <3>2 DEF Reaping
    <3>3. CASE v # u /\ w # u
      BY <1>7, <2>1, <3>3 DEF IInv, ContractKept
    <3> QED BY <3>1, <3>2, <3>3
  <2>2. ASSUME NEW v \in Actors, NEW n \in Natives, call'[v].op = "Delete",
               native[n].task = call'[v].id, call'[n].op \in Reapers
        PROVE  FALSE
    <3>0. n \in Actors
      BY DEF Actors
    <3>1. CASE v = u
      <4>1. op = "Delete" /\ native[n].task = id
        BY <1>7, <2>2, <3>1
      <4>2. n # u
        BY <4>1 DEF Permitted, Obligations
      <4> QED BY <1>7, <2>2, <3>0, <4>1, <4>2 DEF Permitted, Obligations
    <3>2. CASE v # u /\ n = u
      BY <1>7, <2>2, <3>2 DEF Permitted, Obligations
    <3>3. CASE v # u /\ n # u
      BY <1>7, <2>2, <3>0, <3>3 DEF IInv, ContractKept
    <3> QED BY <3>1, <3>2, <3>3
  <2>3. ASSUME NEW n \in Natives, NEW m \in Natives,
               call'[n].op \in Reapers, call'[n].thread = m,
               call'[m].op \in Reapers, call'[m].thread = n
        PROVE  FALSE
    <3>0. n \in Actors /\ m \in Actors
      BY DEF Actors
    <3>1. u \in Natives => call[h].op \notin Reapers
      BY <1>1 DEF Permitted, Obligations
    <3>2. CASE n = u
      BY <1>1, <1>7, <2>3, <3>0, <3>1, <3>2
    <3>3. CASE m = u
      BY <1>1, <1>7, <2>3, <3>0, <3>1, <3>3
    <3>4. CASE n # u /\ m # u
      BY <1>7, <2>3, <3>0, <3>4 DEF IInv, ContractKept
    <3> QED BY <3>2, <3>3, <3>4
  <2> QED BY <2>1, <2>2, <2>3 DEF ContractKept
<1>14. CreatorDiscipline'
  <2> SUFFICES ASSUME NEW v \in Actors, call'[v].op = "Create"
               PROVE  (/\ LET s == slot[SlotOf(v)]
                          IN  /\ s.in_use /\ ~s.joined /\ s.id = call[v].id
                              /\ s.priority = call[v].priority
                       /\ \A w \in Actors : call[w].op = "Create" /\ SlotOf(w) = SlotOf(v)
                                              => w = v
                       /\ \A n \in Natives : Started(n) => HomeOf(n) # SlotOf(v))'
    BY DEF CreatorDiscipline
  <2>1. v # u /\ call'[v] = call[v] /\ SlotOf(v)' = SlotOf(v)
    BY <1>7, <1>9 DEF Reapers
  <2>2. SlotOf(v) # i0 /\ SlotOf(v) \in Slots
    BY <1>1, <2>1, CallSlot
  <2>3. \A w \in Actors : call'[w].op = "Create" => w # u
    BY <1>7 DEF Reapers
  <2> QED BY <1>4, <1>7, <1>9, <2>1, <2>2, <2>3 DEF IInv, CreatorDiscipline
<1>15. SlotDiscipline'
  BY <1>4, <1>10 DEF IInv, SlotDiscipline
<1>16. ReaperDiscipline'
  <2> SUFFICES ASSUME NEW v \in Actors, call'[v].op \in Reapers
               PROVE  (LET s == slot[SlotOf(v)]
                       IN  /\ s.in_use /\ s.joined /\ s.id = call[v].id
                           /\ s.thread = call[v].thread
                           /\ ~Creating(SlotOf(v))
                           /\ call[v].pc = "free" <=> ~Started(s.thread))'
    BY DEF ReaperDiscipline
  <2>1. CASE v = u
    BY <1>1, <1>2, <1>4, <1>7, <1>9, <1>10, <2>1
  <2>2. CASE v # u
    <3>1. call'[v] = call[v] /\ call[v].op \in Reapers /\ SlotOf(v)' = SlotOf(v)
      BY <1>7, <1>9, <2>2
    <3>2. SlotOf(v) # i0 /\ SlotOf(v) \in Slots
      BY <1>1, <3>1, ReaperSlot DEF Reapers
    <3> QED BY <1>4, <1>9, <1>10, <3>1, <3>2, ReaperSlot
  <2> QED BY <2>1, <2>2
<1>17. CancelDiscipline'
  BY <1>3, <1>7, <1>9 DEF IInv, CancelDiscipline
<1>18. HandlesSound' /\ OwnIdentity'
  BY DEF IInv, HandlesSound, OwnIdentity
<1>19. SlotOutlivesThread' /\ PriorityApplied'
  BY <1>4, <1>9, ThreadSlot DEF IInv, SlotOutlivesThread, PriorityApplied, Started
<1>20. ClaimIsKept'
  <2> SUFFICES ASSUME NEW i \in Slots, slot'[i].in_use, slot'[i].joined
               PROVE  \/ native'[slot'[i].thread].stage = "reaped"
                      \/ \E v \in Actors : /\ call'[v].op \in Reapers
                                           /\ call'[v].id = slot'[i].id
                                           /\ call'[v].pc \in {"cancel", "join"}
    BY DEF ClaimIsKept, Reaping
  <2>1. CASE i = i0
    BY <1>1, <1>4, <1>7, <2>1
  <2>2. CASE i # i0
    BY <1>3, <1>4, <1>7, <2>2 DEF IInv, ClaimIsKept, Reaping, Reapers
  <2> QED BY <2>1, <2>2
<1>21. StateTruthful'
  BY <1>4, <1>10 DEF IInv, StateTruthful
<1> QED BY <1>11, <1>12, <1>13, <1>14, <1>15, <1>16, <1>17, <1>18, <1>19, <1>20, <1>21 DEF IInv

LEMMA DeleteLockedInv ==
  ASSUME IInv, Contract = Obligations, NEW u \in Actors, NEW id, DeleteLocked(u, id)
  PROVE  IInv'
<1>1. /\ CanCall(u) /\ Permitted(u, "Delete", id) /\ ValidId(id)
      /\ slot' = [slot EXCEPT ![IdIndex(id)].joined = TRUE]
      /\ native' = native /\ misused' = misused
  BY DEF DeleteLocked
<1>2. slot[IdIndex(id)].thread # u
  BY <1>1, ReapAllowed DEF Reapers
<1> PICK pc \in {"cancel", "join", "free"} :
      pc = IF slot[IdIndex(id)].joined THEN "free" ELSE "cancel"
  OBVIOUS
<1>3. call' = [call EXCEPT ![u] = [op |-> "Delete", pc |-> pc, id |-> id,
                                   thread |-> slot[IdIndex(id)].thread,
                                   priority |-> 0]]
  BY <1>2 DEF DeleteLocked
<1>4. "Delete" \in Reapers /\ "Delete" # "Join"
      /\ (pc = "free" <=> slot[IdIndex(id)].joined)
  BY DEF Reapers
<1> QED BY <1>1, <1>2, <1>3, <1>4, ClaimMade

LEMMA JoinLockedInv ==
  ASSUME IInv, Contract = Obligations, NEW u \in Actors, NEW id, JoinLocked(u, id)
  PROVE  IInv'
<1>1. /\ CanCall(u) /\ Permitted(u, "Join", id) /\ ValidId(id)
      /\ slot' = [slot EXCEPT ![IdIndex(id)].joined = TRUE]
      /\ native' = native /\ misused' = misused
      /\ slot[IdIndex(id)].thread # u /\ ~slot[IdIndex(id)].joined
      /\ call' = [call EXCEPT ![u] = [op |-> "Join", pc |-> "join", id |-> id,
                                      thread |-> slot[IdIndex(id)].thread,
                                      priority |-> 0]]
  BY DEF JoinLocked
<1>2. "Join" \in Reapers /\ "join" \in {"cancel", "join", "free"} /\ "join" # "free"
  BY DEF Reapers
<1> QED BY <1>1, <1>2, ClaimMade

LEMMA FreeSlotInv ==
  ASSUME IInv, NEW u \in Actors, FreeSlot(u)
  PROVE  IInv'
<1>1. /\ call[u].pc = "free" /\ call' = [call EXCEPT ![u] = Idle]
      /\ native' = native /\ misused' = misused
  BY DEF FreeSlot, At, Return
<1>2. call[u].op = "Delete" /\ call[u].op \in Reapers
  BY <1>1, PcOp DEF IInv, Reapers
<1> PICK i0 \in Slots : i0 = SlotOf(u)
  BY <1>2, ReaperSlot
<1>3. /\ slot[i0].in_use /\ slot[i0].id = call[u].id /\ ~Creating(i0)
      /\ ~Started(slot[i0].thread)
  BY <1>1, <1>2, ReaperSlot
<1>4. /\ slot' \in [Slots -> SlotType] /\ ~slot'[i0].in_use
      /\ \A i \in Slots : i # i0 => slot'[i] = slot[i]
  <2> DEFINE freed == [slot[i0] EXCEPT !.in_use = FALSE, !.joined = FALSE,
                         !.state = "UNUSED", !.entry = AOS_ID_NONE, !.name = EmptyName]
  <2>1. freed \in SlotType /\ ~freed.in_use
    <3>1. slot[i0] \in SlotType
      BY DEF IInv, TypeOK
    <3> QED BY <3>1 DEF SlotType
  <2>2. slot' = [slot EXCEPT ![i0] = freed]
    BY <1>3 DEF FreeSlot
  <2> HIDE DEF freed
  <2> QED BY <2>1, <2>2 DEF IInv, TypeOK
<1>5. ASSUME NEW v \in Actors, call[v].op # "none", v # u
      PROVE  SlotOf(v) # i0
  <2>1. CASE call[v].op \in Reapers
    BY <1>2, <1>3, <1>5, <2>1, ReaperSlot DEF IInv, ContractKept
  <2>2. CASE call[v].op = "Create"
    BY <1>3, <2>2 DEF Creating
  <2> QED BY <1>5, <2>1, <2>2 DEF IInv, TypeOK, CallType
<1>6. \A n \in Natives : Started(n) => HomeOf(n) # i0
  BY <1>3, ThreadSlot
<1> QED BY <1>1, <1>2, <1>4, <1>5, <1>6, SlotGivenUp
LEMMA CancelNativeInv ==
  ASSUME IInv, NEW u \in Actors, CancelNative(u)
  PROVE  IInv'
<1>1. call[u].pc = "cancel" /\ call' = [call EXCEPT ![u].pc = "join"] /\ slot' = slot
  BY DEF CancelNative, At, Goto
<1>2. call[u].op = "Delete" /\ call[u].op \in Reapers
  BY <1>1, PcOp DEF IInv, Reapers
<1> PICK h \in Natives : h = call[u].thread
  BY <1>2, ReaperSlot
<1>3. Started(h) /\ Usable(h)
  BY <1>1, <1>2, ReaperSlot DEF Started, Usable
<1>4. native' = [native EXCEPT ![h].cancelled = TRUE] /\ misused' = misused
  BY <1>3 DEF CancelNative
<1>5. /\ \A n \in Natives : /\ native'[n].stage = native[n].stage
                            /\ native'[n].task = native[n].task
                            /\ native'[n].key = native[n].key
                            /\ native'[n].runs = native[n].runs
                            /\ native'[n].priority = native[n].priority
                            /\ n # h => native'[n] = native[n]
      /\ native' \in [Natives -> NativeType]
  <2> DEFINE asked == [native[h] EXCEPT !.cancelled = TRUE]
  <2>1. /\ asked \in NativeType
        /\ asked.stage = native[h].stage /\ asked.task = native[h].task
        /\ asked.key = native[h].key /\ asked.runs = native[h].runs
        /\ asked.priority = native[h].priority
    BY DEF IInv, TypeOK, NativeType
  <2>2. native' = [native EXCEPT ![h] = asked]
    BY <1>4
  <2> HIDE DEF asked
  <2>3. native' \in [Natives -> NativeType] /\ native'[h] = asked
        /\ \A n \in Natives : n # h => native'[n] = native[n]
    BY <2>1, <2>2 DEF IInv, TypeOK
  <2> QED BY <2>1, <2>3
<1>6. /\ \A v \in Actors : /\ call'[v].op = call[v].op /\ call'[v].id = call[v].id
                           /\ call'[v].thread = call[v].thread
                           /\ call'[v].priority = call[v].priority
                           /\ v # u => call'[v] = call[v]
      /\ call'[u].pc = "join"
      /\ call' \in [Actors -> CallType]
  BY <1>1 DEF IInv, TypeOK, CallType, Points
<1>7. /\ \A v \in Actors : SlotOf(v)' = SlotOf(v)
      /\ \A n \in Natives : HomeOf(n)' = HomeOf(n) /\ (Started(n)' <=> Started(n))
  BY <1>5, <1>6 DEF SlotOf, HomeOf, Started
<1>8. \A i \in Slots : Creating(i)' <=> Creating(i)
  BY <1>6, <1>7 DEF Creating
<1>9. TypeOK'
  BY <1>1, <1>4, <1>5, <1>6 DEF IInv, TypeOK
<1>10. CallDiscipline'
  BY <1>1, <1>2, <1>5, <1>6 DEF IInv, CallDiscipline, Idle
<1>11. ContractKept'
  BY <1>5, <1>6 DEF IInv, ContractKept, Actors
<1>12. CreatorDiscipline'
  BY <1>1, <1>6, <1>7 DEF IInv, CreatorDiscipline
<1>13. SlotDiscipline'
  BY <1>1, <1>5, <1>8 DEF IInv, SlotDiscipline
<1>14. ReaperDiscipline'
  BY <1>1, <1>2, <1>3, <1>6, <1>7, <1>8, ReaperSlot DEF IInv, ReaperDiscipline
<1>15. CancelDiscipline'
  <2>1. ASSUME NEW n \in Natives, Started(n)', native'[n].cancelled, n # h
        PROVE  \E v \in Actors :
                 call'[v].op = "Delete" /\ call'[v].pc = "join" /\ call'[v].thread = n
    BY <1>1, <1>5, <1>6, <1>7, <2>1 DEF IInv, CancelDiscipline
  <2>2. call'[u].op = "Delete" /\ call'[u].pc = "join" /\ call'[u].thread = h
    BY <1>2, <1>6
  <2> QED BY <2>1, <2>2 DEF CancelDiscipline
<1>16. HandlesSound' /\ OwnIdentity'
  BY <1>4, <1>5 DEF IInv, HandlesSound, OwnIdentity
<1>17. SlotOutlivesThread' /\ PriorityApplied'
  BY <1>1, <1>5, <1>7 DEF IInv, SlotOutlivesThread, PriorityApplied
<1>18. ClaimIsKept'
  BY <1>1, <1>5, <1>6, SlotThread DEF IInv, ClaimIsKept, Reaping
<1>19. StateTruthful'
  BY <1>1, <1>5, <1>8, SlotThread DEF IInv, StateTruthful
<1> QED BY <1>9, <1>10, <1>11, <1>12, <1>13, <1>14, <1>15, <1>16, <1>17, <1>18, <1>19 DEF IInv

LEMMA JoinNativeInv ==
  ASSUME IInv, NEW u \in Actors, JoinNative(u)
  PROVE  IInv'
<1>1. call[u].pc = "join" /\ slot' = slot
  BY DEF JoinNative, At
<1>2. call[u].op \in Reapers
  BY <1>1, PcOp DEF IInv
<1> PICK h \in Natives : h = call[u].thread
  BY <1>2, ReaperSlot
<1> PICK i0 \in Slots : i0 = SlotOf(u)
  BY <1>2, ReaperSlot
<1>3. /\ Started(h) /\ Usable(h) /\ slot[i0].thread = h /\ slot[i0].joined
      /\ slot[i0].in_use /\ slot[i0].id = call[u].id /\ ~Creating(i0)
      /\ HomeOf(h) = i0 /\ native[h].task = call[u].id
  BY <1>1, <1>2, ReaperSlot DEF Started, Usable
<1>4. /\ native[h].stage = "ended"
      /\ native' = [native EXCEPT ![h].stage = "reaped"] /\ misused' = misused
      /\ call' = IF call[u].op = "Delete" THEN [call EXCEPT ![u].pc = "free"]
                                          ELSE [call EXCEPT ![u] = Idle]
  BY <1>3 DEF JoinNative, Goto, Return
<1>5. /\ \A n \in Natives : /\ native'[n].task = native[n].task
                            /\ native'[n].key = native[n].key
                            /\ native'[n].runs = native[n].runs
                            /\ native'[n].priority = native[n].priority
                            /\ native'[n].cancelled = native[n].cancelled
                            /\ n # h => native'[n] = native[n]
      /\ native'[h].stage = "reaped"
      /\ native' \in [Natives -> NativeType]
  BY <1>4 DEF IInv, TypeOK, NativeType, Stages
<1>6. /\ \A v \in Actors : v # u => call'[v] = call[v]
      /\ call' \in [Actors -> CallType]
  BY <1>4, RecordTypes DEF IInv, TypeOK, CallType, Points
<1>7. \/ /\ call[u].op = "Delete" /\ call'[u].op = "Delete" /\ call'[u].id = call[u].id
         /\ call'[u].thread = h /\ call'[u].pc = "free"
      \/ call'[u] = Idle /\ call'[u].op = "none"
  BY <1>4 DEF IInv, TypeOK, CallType, Idle
<1>8. /\ call'[u].op \in Reapers => SlotOf(u)' = i0
      /\ \A v \in Actors : v # u => SlotOf(v)' = SlotOf(v)
      /\ \A n \in Natives : HomeOf(n)' = HomeOf(n)
      /\ \A n \in Natives : n # h => (Started(n)' <=> Started(n))
      /\ ~Started(h)'
  BY <1>5, <1>6, <1>7 DEF SlotOf, HomeOf, Started, Reapers, Idle
<1>9. \A i \in Slots : Creating(i)' <=> Creating(i)
  BY <1>2, <1>6, <1>7, <1>8 DEF Creating, Reapers
<1>10. call[h].op = "none" /\ h # u
  BY <1>2, <1>4 DEF IInv, CallDiscipline, Reapers, Actors
<1>11. TypeOK'
  BY <1>1, <1>4, <1>5, <1>6 DEF IInv, TypeOK
<1>12. CallDiscipline'
  <2> SUFFICES ASSUME NEW v \in Actors
               PROVE  /\ call'[v].op = "none" => call'[v] = Idle
                      /\ call'[v].op = "Create" => call'[v].pc \in {"spawn", "rollback"}
                      /\ call'[v].op = "Join" => call'[v].pc = "join"
                      /\ call'[v].op = "Delete" => call'[v].pc \in {"cancel", "join", "free"}
                      /\ call'[v].op # "none" => call'[v].id \in TaskIds
                      /\ v \in Natives /\ call'[v].op # "none" => native'[v].stage = "body"
    BY DEF CallDiscipline
  <2>1. CASE v = u
    BY <1>2, <1>5, <1>7, <1>10, <2>1 DEF IInv, CallDiscipline, Reapers
  <2>2. CASE v # u
    BY <1>5, <1>6, <1>10, <2>2 DEF IInv, CallDiscipline
  <2> QED BY <2>1, <2>2
<1>13. \A v \in Actors : call'[v].op \in Reapers =>
         /\ call'[v].op = call[v].op /\ call'[v].id = call[v].id
         /\ call'[v].thread = call[v].thread
  BY <1>6, <1>7 DEF Reapers
<1>14. ContractKept'
  BY <1>5, <1>13 DEF IInv, ContractKept, Actors, Reapers
<1>15. CreatorDiscipline'
  <2>1. \A v \in Actors : call'[v].op = "Create" => v # u
    BY <1>7
  <2>2. \A n \in Natives : Started(n)' => Started(n)
    BY <1>3, <1>8
  <2> QED BY <1>1, <1>6, <1>8, <2>1, <2>2 DEF IInv, CreatorDiscipline
<1>16. \A i \in Slots : slot[i].in_use /\ i # i0 /\ ~Creating(i) =>
         slot[i].thread # h /\ slot[i].thread \in Natives
  BY <1>3, SlotThread
<1>17. SlotDiscipline'
  <2> SUFFICES ASSUME NEW i \in Slots, slot[i].in_use, ~Creating(i)
               PROVE  /\ slot[i].thread \in Natives
                      /\ native'[slot[i].thread].task = slot[i].id
                      /\ native'[slot[i].thread].stage # "none"
                      /\ native'[slot[i].thread].stage = "reaped" => slot[i].joined
    BY <1>1, <1>9 DEF IInv, SlotDiscipline
  <2>1. CASE i = i0
    BY <1>3, <1>5, <2>1
  <2>2. CASE i # i0
    BY <1>5, <1>16, <2>2 DEF IInv, SlotDiscipline
  <2> QED BY <2>1, <2>2
<1>18. ReaperDiscipline'
  <2> SUFFICES ASSUME NEW v \in Actors, call'[v].op \in Reapers
               PROVE  (LET s == slot[SlotOf(v)]
                       IN  /\ s.in_use /\ s.joined /\ s.id = call[v].id
                           /\ s.thread = call[v].thread
                           /\ ~Creating(SlotOf(v))
                           /\ call[v].pc = "free" <=> ~Started(s.thread))'
    BY DEF ReaperDiscipline
  <2>1. CASE v = u
    <3>1. /\ call'[u].id = call[u].id /\ call'[u].thread = h /\ call'[u].pc = "free"
          /\ SlotOf(u)' = i0
      BY <1>7, <1>8, <2>1 DEF Reapers
    <3> QED BY <1>1, <1>3, <1>8, <1>9, <2>1, <3>1
  <2>2. CASE v # u
    <3>1. call'[v] = call[v] /\ call[v].op \in Reapers /\ SlotOf(v)' = SlotOf(v)
      BY <1>6, <1>8, <2>2
    <3>2. SlotOf(v) # i0 /\ SlotOf(v) \in Slots
      BY <1>2, <1>3, <2>2, <3>1, ReaperSlot DEF IInv, ContractKept
    <3>3. slot[SlotOf(v)].thread # h /\ slot[SlotOf(v)].thread \in Natives
      BY <1>16, <3>1, <3>2, ReaperSlot
    <3> QED BY <1>1, <1>8, <1>9, <3>1, <3>2, <3>3, ReaperSlot
  <2> QED BY <2>1, <2>2
<1>19. CancelDiscipline'
  <2> SUFFICES ASSUME NEW n \in Natives, Started(n)', native'[n].cancelled
               PROVE  \E v \in Actors : /\ call'[v].op = "Delete" /\ call'[v].pc = "join"
                                        /\ call'[v].thread = n
    BY DEF CancelDiscipline
  <2>1. n # h /\ Started(n) /\ native[n].cancelled
    BY <1>5, <1>8
  <2>2. PICK v \in Actors : /\ call[v].op = "Delete" /\ call[v].pc = "join"
                            /\ call[v].thread = n
    BY <2>1 DEF IInv, CancelDiscipline
  <2> QED BY <1>6, <2>1, <2>2
<1>20. HandlesSound' /\ OwnIdentity'
  BY <1>4, <1>5 DEF IInv, HandlesSound, OwnIdentity
<1>21. SlotOutlivesThread' /\ PriorityApplied'
  BY <1>1, <1>5, <1>8 DEF IInv, SlotOutlivesThread, PriorityApplied, Started
<1>22. ClaimIsKept'
  <2> SUFFICES ASSUME NEW i \in Slots, slot[i].in_use, slot[i].joined
               PROVE  \/ native'[slot[i].thread].stage = "reaped"
                      \/ \E v \in Actors : /\ call'[v].op \in Reapers
                                           /\ call'[v].id = slot[i].id
                                           /\ call'[v].pc \in {"cancel", "join"}
    BY <1>1 DEF ClaimIsKept, Reaping
  <2>1. CASE i = i0
    BY <1>3, <1>5, <2>1
  <2>2. CASE i # i0
    <3>1. slot[i].id # call[u].id
      BY <1>3, <2>2 DEF IInv, SlotDiscipline
    <3>2. native'[slot[i].thread] = native[slot[i].thread]
      BY <1>5, <1>16, <2>2, SlotThread
    <3> QED BY <1>6, <3>1, <3>2 DEF IInv, ClaimIsKept, Reaping
  <2> QED BY <2>1, <2>2
<1>23. StateTruthful'
  <2> SUFFICES ASSUME NEW i \in Slots, slot[i].in_use
               PROVE  LET stage == IF Creating(i) THEN "start"
                                   ELSE native'[slot[i].thread].stage
                      IN  \/ slot[i].state = "STARTING" /\ stage \in {"start", "named"}
                          \/ slot[i].state = "RUNNING"  /\ stage \in {"body", "cleanup"}
                          \/ slot[i].state = "EXITED"   /\ stage \in {"ended", "reaped"}
    BY <1>1, <1>9 DEF StateTruthful
  <2>1. CASE i = i0
    BY <1>3, <1>4, <1>5, <2>1 DEF IInv, StateTruthful
  <2>2. CASE i # i0
    BY <1>5, <1>16, <2>2 DEF IInv, StateTruthful
  <2> QED BY <2>1, <2>2
<1> QED BY <1>11, <1>12, <1>14, <1>15, <1>17, <1>18, <1>19, <1>20, <1>21, <1>22, <1>23 DEF IInv

(* Callers that keep the contract never make two tasks join each other.    *)
LEMMA NeverRefused ==
  ASSUME IInv, NEW u \in Actors
  PROVE  ~JoinRefused(u)
<1> SUFFICES ASSUME JoinRefused(u) PROVE FALSE
  OBVIOUS
<1>1. PICK n \in Natives : /\ call[u].pc = "join" /\ u \in Natives
                           /\ call[u].thread = n
                           /\ call[n].pc = "join" /\ call[n].thread = u
  BY DEF JoinRefused, At
<1>2. call[u].op \in Reapers /\ call[n].op \in Reapers
  BY <1>1, PcOp DEF IInv, Actors
<1> QED BY <1>1, <1>2 DEF IInv, ContractKept

-----------------------------------------------------------------------------
(* AOS_TaskSetPriority *)

LEMMA SetPriorityInv ==
  ASSUME IInv, Contract = Obligations, NEW u \in Actors, NEW id,
         NEW priority \in Priorities, SetPriority(u, id, priority)
  PROVE  IInv'
<1>1. Permitted(u, "SetPriority", id) /\ ValidId(id) /\ call' = call
  BY DEF SetPriority
<1>2. id \in TaskIds /\ IdIndex(id) \in Slots /\ slot[IdIndex(id)].in_use
      /\ slot[IdIndex(id)].id = id
  BY <1>1, ValidIdFacts DEF IInv
<1> PICK i0 \in Slots : i0 = IdIndex(id)
  BY <1>2
<1>3. ~slot[i0].joined
  BY <1>1 DEF Permitted, Obligations
<1>4. \A v \in Actors : call[v].op = "Create" => call[v].id # id
  BY <1>1 DEF Permitted, Obligations
<1>5. ~Creating(i0)
  BY <1>2, <1>4 DEF Creating, IInv, CreatorDiscipline
<1> PICK h \in Natives : h = slot[i0].thread
  BY <1>2, <1>5, SlotThread
<1>6. Started(h) /\ Usable(h) /\ HomeOf(h) = i0
  BY <1>2, <1>3, <1>5, SlotThread DEF IInv, SlotDiscipline, Started, Usable
<1>7. /\ slot' = [slot EXCEPT ![i0].priority = priority]
      /\ native' = IF RtEnabled THEN [native EXCEPT ![h].priority = priority] ELSE native
      /\ misused' = misused
  BY <1>6 DEF SetPriority
<1>8. /\ \A i \in Slots : /\ slot'[i].in_use <=> slot[i].in_use
                          /\ slot'[i].joined <=> slot[i].joined
                          /\ slot'[i].id = slot[i].id
                          /\ slot'[i].serial = slot[i].serial
                          /\ slot'[i].entry = slot[i].entry
                          /\ slot'[i].thread = slot[i].thread
                          /\ slot'[i].state = slot[i].state
                          /\ i # i0 => slot'[i] = slot[i]
      /\ slot'[i0].priority = priority
      /\ slot' \in [Slots -> SlotType]
  BY <1>7 DEF IInv, TypeOK, SlotType
<1>9. /\ \A n \in Natives : /\ native'[n].stage = native[n].stage
                            /\ native'[n].task = native[n].task
                            /\ native'[n].key = native[n].key
                            /\ native'[n].runs = native[n].runs
                            /\ native'[n].cancelled = native[n].cancelled
                            /\ n # h => native'[n] = native[n]
      /\ RtEnabled => native'[h].priority = priority
      /\ native' \in [Natives -> NativeType]
  BY <1>7 DEF IInv, TypeOK, NativeType
<1>10. /\ \A v \in Actors : SlotOf(v)' = SlotOf(v)
       /\ \A n \in Natives : HomeOf(n)' = HomeOf(n) /\ (Started(n)' <=> Started(n))
  BY <1>1, <1>9 DEF SlotOf, HomeOf, Started
<1>11. \A i \in Slots : Creating(i)' <=> Creating(i)
  BY <1>1, <1>10 DEF Creating
<1>12. TypeOK'
  BY <1>1, <1>7, <1>8, <1>9 DEF IInv, TypeOK
<1>13. CallDiscipline' /\ ContractKept'
  BY <1>1, <1>9 DEF IInv, CallDiscipline, ContractKept, Idle
<1>14. CreatorDiscipline'
  <2>1. \A v \in Actors : call[v].op = "Create" => SlotOf(v) # i0 /\ SlotOf(v) \in Slots
    BY <1>5, CallSlot DEF Creating
  <2> QED BY <1>1, <1>8, <1>10, <2>1 DEF IInv, CreatorDiscipline
<1>15. SlotDiscipline'
  BY <1>8, <1>9, <1>11 DEF IInv, SlotDiscipline
<1>16. ReaperDiscipline'
  BY <1>1, <1>8, <1>10, <1>11, ReaperSlot DEF IInv, ReaperDiscipline
<1>17. CancelDiscipline'
  BY <1>1, <1>9, <1>10 DEF IInv, CancelDiscipline
<1>18. HandlesSound' /\ OwnIdentity'
  BY <1>7, <1>9 DEF IInv, HandlesSound, OwnIdentity
<1>19. SlotOutlivesThread'
  BY <1>8, <1>9, <1>10, ThreadSlot DEF IInv, SlotOutlivesThread, Started
<1>20. PriorityApplied'
  <2> SUFFICES ASSUME RtEnabled, NEW n \in Natives, Started(n)
               PROVE  native'[n].priority = slot'[HomeOf(n)].priority
    BY <1>9, <1>10 DEF PriorityApplied, Started
  <2>1. CASE n = h
    BY <1>6, <1>8, <1>9, <2>1
  <2>2. CASE n # h
    <3>1. HomeOf(n) # i0 /\ HomeOf(n) \in Slots
      BY <2>2, ThreadSlot
    <3> QED BY <1>8, <1>9, <2>2, <3>1 DEF IInv, PriorityApplied, Started
  <2> QED BY <2>1, <2>2
<1>21. ClaimIsKept'
  BY <1>1, <1>8, <1>9, SlotThread DEF IInv, ClaimIsKept, Reaping
<1>22. StateTruthful'
  BY <1>8, <1>9, <1>11, SlotThread DEF IInv, StateTruthful
<1> QED BY <1>12, <1>13, <1>14, <1>15, <1>16, <1>17, <1>18, <1>19, <1>20, <1>21, <1>22 DEF IInv
-----------------------------------------------------------------------------
(* The invariant *)

LEMMA StepInv ==
  ASSUME IInv, Contract = Obligations, [Next]_vars
  PROVE  IInv'
<1>1. CASE UNCHANGED vars
  BY <1>1 DEF vars, IInv, TypeOK, CallDiscipline, ContractKept, CreatorDiscipline,
              SlotDiscipline, ReaperDiscipline, CancelDiscipline, HandlesSound,
              SlotOutlivesThread, ClaimIsKept, StateTruthful, OwnIdentity,
              PriorityApplied, Creating, Reaping, Started, HomeOf, SlotOf
<1>2. ASSUME NEW u \in Actors, Request(u) PROVE IInv'
  <2>1. CASE CreateLocked(u)
    BY <2>1, CreateLockedInv
  <2>2. ASSUME NEW id \in CallIds, DeleteLocked(u, id) PROVE IInv'
    BY <2>2, DeleteLockedInv
  <2>3. ASSUME NEW id \in CallIds, JoinLocked(u, id) PROVE IInv'
    BY <2>3, JoinLockedInv
  <2>4. ASSUME NEW id \in CallIds, NEW priority \in Priorities,
               SetPriority(u, id, priority)
        PROVE  IInv'
    BY <2>4, SetPriorityInv
  <2> QED BY <1>2, <2>1, <2>2, <2>3, <2>4 DEF Request
<1>3. ASSUME NEW u \in Actors, CreateStep(u) PROVE IInv'
  BY <1>3, SpawnInv, SpawnFailsInv, RollbackInv DEF CreateStep
<1>4. ASSUME NEW u \in Actors, ReapStep(u) PROVE IInv'
  BY <1>4, CancelNativeInv, JoinNativeInv, NeverRefused, FreeSlotInv DEF ReapStep
<1>5. ASSUME NEW n \in Natives, ThreadStep(n) PROVE IInv'
  BY <1>5, StoreIdentityInv, EnterBodyInv, CleanupInv DEF ThreadStep
<1>6. ASSUME NEW n \in Natives, BodyEnds(n) \/ ActOnCancel(n) PROVE IInv'
  BY <1>6, BodyEndsInv, ActOnCancelInv
<1> QED BY <1>1, <1>2, <1>3, <1>4, <1>5, <1>6 DEF Next

(* While callers keep the whole contract, the state of the task table, of  *)
(* its threads and of the calls in progress satisfies the inductive        *)
(* invariant.                                                              *)
THEOREM TaskInvariant ==
  ASSUME Contract = Obligations
  PROVE  Spec => []IInv
<1>1. IInv /\ [Next]_vars => IInv'
  BY StepInv
<1> QED BY <1>1, InitInv, PTL DEF Spec

(* ... every value in them has its type, and no task has serial 0. *)
THEOREM TaskTypeOK ==
  ASSUME Contract = Obligations
  PROVE  Spec => []TypeOK
<1>1. IInv => TypeOK
  BY DEF IInv
<1> QED BY <1>1, TaskInvariant, PTL

(* ... pthread_cancel, pthread_join and pthread_setschedprio are only given *)
(* the handles of threads that were started and not yet joined.            *)
THEOREM TaskHandlesSound ==
  ASSUME Contract = Obligations
  PROVE  Spec => []HandlesSound
<1>1. IInv => HandlesSound
  BY DEF IInv
<1> QED BY <1>1, TaskInvariant, PTL

(* ... no slot is freed before its thread was joined. *)
THEOREM TaskSlotOutlivesThread ==
  ASSUME Contract = Obligations
  PROVE  Spec => []SlotOutlivesThread
<1>1. IInv => SlotOutlivesThread
  BY DEF IInv
<1> QED BY <1>1, TaskInvariant, PTL

(* ... a task marked joined was joined or is about to be. *)
THEOREM TaskClaimIsKept ==
  ASSUME Contract = Obligations
  PROVE  Spec => []ClaimIsKept
<1>1. IInv => ClaimIsKept
  BY DEF IInv
<1> QED BY <1>1, TaskInvariant, PTL

(* ... AOS_TaskGetInfo reports the state the thread is in. *)
THEOREM TaskStateTruthful ==
  ASSUME Contract = Obligations
  PROVE  Spec => []StateTruthful
<1>1. IInv => StateTruthful
  BY DEF IInv
<1> QED BY <1>1, TaskInvariant, PTL

(* ... every thread runs its own task's function under its own task's id,  *)
(* whatever its slot was used for before.                                  *)
THEOREM TaskOwnIdentity ==
  ASSUME Contract = Obligations
  PROVE  Spec => []OwnIdentity
<1>1. IInv => OwnIdentity
  BY DEF IInv
<1> QED BY <1>1, TaskInvariant, PTL

(* ... a thread runs at the priority AOS_TaskGetInfo reports. *)
THEOREM TaskPriorityApplied ==
  ASSUME Contract = Obligations
  PROVE  Spec => []PriorityApplied
<1>1. IInv => PriorityApplied
  BY DEF IInv
<1> QED BY <1>1, TaskInvariant, PTL
-----------------------------------------------------------------------------
(* The refinement *)

(* Holders and lives change only when slots and threads do.                *)
LEMMA QuietStep ==
  ASSUME \A i \in Slots : /\ slot'[i].in_use <=> slot[i].in_use
                          /\ slot[i].in_use /\ ~Creating(i) => slot'[i].thread = slot[i].thread
                          /\ Creating(i)' <=> Creating(i),
         \A n \in Natives : LifeOf(n)' = LifeOf(n)
  PROVE  UNCHANGED Life!vars
<1>1. \A i \in Slots : HolderOf(i)' = HolderOf(i)
  BY DEF HolderOf
<1>2. [i \in Slots |-> HolderOf(i)]' = [i \in Slots |-> HolderOf(i)]
  BY <1>1
<1>3. [n \in Natives |-> LifeOf(n)]' = [n \in Natives |-> LifeOf(n)]
  OBVIOUS
<1> QED BY <1>2, <1>3 DEF Life!vars

LEMMA HolderChange ==
  ASSUME NEW i0 \in Slots, NEW holder, HolderOf(i0)' = holder,
         \A i \in Slots : i # i0 => HolderOf(i)' = HolderOf(i)
  PROVE  [i \in Slots |-> HolderOf(i)]'
           = [[i \in Slots |-> HolderOf(i)] EXCEPT ![i0] = holder]
OBVIOUS

LEMMA LifeChange ==
  ASSUME NEW n0 \in Natives, NEW life, LifeOf(n0)' = life,
         \A n \in Natives : n # n0 => LifeOf(n)' = LifeOf(n)
  PROVE  [n \in Natives |-> LifeOf(n)]'
           = [[n \in Natives |-> LifeOf(n)] EXCEPT ![n0] = life]
OBVIOUS

LEMMA ThreadStepMaps ==
  ASSUME IInv, NEW n \in Natives, ThreadStep(n) \/ BodyEnds(n) \/ ActOnCancel(n)
  PROVE  [Life!Next]_(Life!vars)
<1>1. Started(n) /\ n \in Actors
  BY DEF ThreadStep, StoreIdentity, EnterBody, Cleanup, BodyEnds, ActOnCancel, Started, Actors
<1> PICK i0 \in Slots : i0 = HomeOf(n)
  BY <1>1, ThreadSlot
<1>2. \A u \in Actors : (call'[u].op = "Create" <=> call[u].op = "Create") /\ call'[u].id = call[u].id
  <2>1. CASE ActOnCancel(n)
    <3>1. call[n] = Idle \/ call[n].op \in Reapers
      BY <2>1, PcOp, <1>1 DEF IInv, ActOnCancel, At
    <3>2. call[n] = Idle
      BY <2>1, <3>1, <1>1, CancelledIsIdle DEF ActOnCancel
    <3> QED BY <2>1, <3>2 DEF ActOnCancel, Return, IInv, TypeOK
  <2> QED BY <2>1 DEF ThreadStep, StoreIdentity, EnterBody, Cleanup, BodyEnds
<1>3. \A i \in Slots : Creating(i)' <=> Creating(i)
  BY <1>2 DEF Creating, SlotOf
<1>4. \A i \in Slots : (slot'[i].in_use <=> slot[i].in_use) /\ slot'[i].thread = slot[i].thread
  BY DEF ThreadStep, StoreIdentity, EnterBody, Cleanup, BodyEnds, ActOnCancel, IInv, TypeOK, SlotType
<1>5. \A m \in Natives : m # n => LifeOf(m)' = LifeOf(m)
  BY DEF ThreadStep, StoreIdentity, EnterBody, Cleanup, BodyEnds, ActOnCancel, LifeOf, IInv, TypeOK
<1>6. CASE ~Cleanup(n)
  <2>1. LifeOf(n)' = LifeOf(n)
    BY <1>6 DEF ThreadStep, StoreIdentity, EnterBody, BodyEnds, ActOnCancel, LifeOf,
                IInv, TypeOK, NativeType
  <2> QED BY <1>3, <1>4, <1>5, <2>1, QuietStep
<1>7. CASE Cleanup(n)
  <2>1. LifeOf(n) = "running" /\ LifeOf(n)' = "ended"
    BY <1>7 DEF Cleanup, LifeOf, IInv, TypeOK, NativeType
  <2>2. [i \in Slots |-> HolderOf(i)]' = [i \in Slots |-> HolderOf(i)]
    <3>1. \A i \in Slots : HolderOf(i)' = HolderOf(i)
      BY <1>3, <1>4 DEF HolderOf
    <3> QED BY <3>1
  <2>3. [m \in Natives |-> LifeOf(m)]' = [[m \in Natives |-> LifeOf(m)] EXCEPT ![n] = "ended"]
    BY <1>5, <2>1, LifeChange
  <2>4. Life!End(n)
    BY <2>1, <2>2, <2>3 DEF Life!End
  <2> QED BY <2>4 DEF Life!Next
<1> QED BY <1>6, <1>7

LEMMA CreateLockedMaps ==
  ASSUME IInv, NEW u \in Actors, CreateLocked(u)
  PROVE  Life!Next
<1>1. PICK i0 \in Slots, name \in Names, priority \in Priorities :
        LET serial == NextSerial(slot[i0].serial)
            id     == IdPack(AOS_TYPE_TASK, serial, i0)
        IN  /\ IsFirstFree(i0)
            /\ slot' = [slot EXCEPT ![i0] =
                 [thread |-> slot[i0].thread, entry |-> id, id |-> id,
                  priority |-> priority, state |-> "STARTING",
                  serial |-> serial, in_use |-> TRUE, joined |-> FALSE,
                  name |-> name]]
            /\ call' = [call EXCEPT ![u] =
                 [op |-> "Create", pc |-> "spawn", id |-> id,
                  thread |-> NoThread, priority |-> priority]]
  BY DEF CreateLocked
<1>2. call[u] = Idle /\ call[u].op = "none" /\ native' = native
  BY DEF CreateLocked, CanCall, Idle
<1>3. ~slot[i0].in_use
  BY <1>1 DEF IsFirstFree, FreeSlots
<1>4. NextSerial(slot[i0].serial) \in 1 .. SerialMod - 1
  BY NextSerialFresh DEF IInv, TypeOK, SlotType
<1>5. /\ call'[u].op = "Create" /\ IdIndex(call'[u].id) = i0
      /\ \A v \in Actors : v # u => call'[v] = call[v]
  BY <1>1, <1>4, TaskIdFacts DEF IInv, TypeOK
<1>6. slot'[i0].in_use /\ \A i \in Slots : i # i0 => slot'[i] = slot[i]
  BY <1>1 DEF IInv, TypeOK
<1>7. Creating(i0)' /\ \A i \in Slots : i # i0 => (Creating(i)' <=> Creating(i))
  BY <1>2, <1>5 DEF Creating, SlotOf
<1>8. /\ HolderOf(i0) = NoThread /\ HolderOf(i0)' = Reserved
      /\ \A i \in Slots : i # i0 => HolderOf(i)' = HolderOf(i)
  BY <1>3, <1>6, <1>7 DEF HolderOf
<1>9. [n \in Natives |-> LifeOf(n)]' = [n \in Natives |-> LifeOf(n)]
  BY <1>2 DEF LifeOf
<1>10. Life!Reserve(i0)
  BY <1>8, <1>9, HolderChange DEF Life!Reserve
<1> QED BY <1>10 DEF Life!Next

LEMMA CreateStepMaps ==
  ASSUME IInv, NEW u \in Actors, CreateStep(u)
  PROVE  [Life!Next]_(Life!vars)
<1>1. call[u].pc \in {"spawn", "rollback"}
  BY DEF CreateStep, Spawn, SpawnFails, Rollback, At
<1> PICK i0 \in Slots : i0 = SlotOf(u)
  BY <1>1, CreatorSlot
<1>2. /\ call[u].op = "Create" /\ Creating(i0) /\ slot[i0].in_use
      /\ \A v \in Actors : call[v].op # "none" /\ v # u => SlotOf(v) # i0
  BY <1>1, CreatorSlot
<1>3. HolderOf(i0) = Reserved
  BY <1>2 DEF HolderOf
<1>4. /\ \A v \in Actors : v # u => call'[v] = call[v]
      /\ \A i \in Slots : i # i0 => slot'[i] = slot[i]
  BY DEF CreateStep, Spawn, SpawnFails, Rollback, Goto, Return, IInv, TypeOK
<1>5. \A i \in Slots : i # i0 => (Creating(i)' <=> Creating(i))
  <2>1. call'[u].op = "Create" => call'[u].id = call[u].id
    BY DEF CreateStep, Spawn, SpawnFails, Rollback, Goto, Return, IInv, TypeOK, CallType, Idle
  <2> QED BY <1>2, <1>4, <2>1 DEF Creating, SlotOf
<1>6. \A i \in Slots : i # i0 => HolderOf(i)' = HolderOf(i)
  BY <1>4, <1>5 DEF HolderOf
<1>7. CASE Spawn(u)
  <2>1. PICK n0 \in Natives :
          /\ native[n0].stage = "none"
          /\ native' = [native EXCEPT ![n0] =
               [NoNative EXCEPT !.stage = "start", !.task = call[u].id,
                  !.priority = IF RtEnabled THEN call[u].priority ELSE 0]]
          /\ slot' = [slot EXCEPT ![i0].thread = n0]
    BY <1>7 DEF Spawn
  <2>2. ~Creating(i0)'
    <3>1. call'[u].op = "none"
      BY <1>7 DEF Spawn, Return, IInv, TypeOK, Idle
    <3> QED BY <1>2, <1>4, <3>1 DEF Creating, SlotOf
  <2>3. slot'[i0].in_use /\ slot'[i0].thread = n0
    BY <1>2, <2>1 DEF IInv, TypeOK, SlotType
  <2>4. HolderOf(i0)' = n0
    BY <2>2, <2>3 DEF HolderOf
  <2>5. native'[n0].stage = "start" /\ \A n \in Natives : n # n0 => native'[n] = native[n]
    BY <2>1 DEF IInv, TypeOK, NoNative
  <2>6. /\ LifeOf(n0) = "none" /\ LifeOf(n0)' = "running"
        /\ \A n \in Natives : n # n0 => LifeOf(n)' = LifeOf(n)
    BY <2>1, <2>5 DEF LifeOf
  <2>7. Life!Start(i0, n0)
    BY <1>3, <1>6, <2>4, <2>6, HolderChange, LifeChange DEF Life!Start
  <2> QED BY <2>7 DEF Life!Next
<1>8. CASE SpawnFails(u)
  <2>1. Creating(i0)'
    BY <1>2, <1>8 DEF SpawnFails, Goto, Creating, SlotOf, IInv, TypeOK, CallType
  <2>2. slot'[i0].in_use /\ native' = native
    BY <1>2, <1>8 DEF SpawnFails, IInv, TypeOK, SlotType
  <2>3. \A n \in Natives : LifeOf(n)' = LifeOf(n)
    BY <2>2 DEF LifeOf
  <2> QED BY <1>2, <1>4, <1>5, <2>1, <2>2, <2>3, QuietStep
<1>9. CASE Rollback(u)
  <2>1. ~slot'[i0].in_use /\ native' = native
    BY <1>9 DEF Rollback, IInv, TypeOK, SlotType
  <2>2. HolderOf(i0)' = NoThread
    BY <2>1 DEF HolderOf
  <2>3. [n \in Natives |-> LifeOf(n)]' = [n \in Natives |-> LifeOf(n)]
    BY <2>1 DEF LifeOf
  <2>4. Life!GiveUp(i0)
    BY <1>3, <1>6, <2>2, <2>3, HolderChange DEF Life!GiveUp
  <2> QED BY <2>4 DEF Life!Next
<1> QED BY <1>7, <1>8, <1>9 DEF CreateStep

LEMMA ReapStepMaps ==
  ASSUME IInv, NEW u \in Actors, ReapStep(u)
  PROVE  [Life!Next]_(Life!vars)
<1>1. call[u].op \in Reapers
  BY PcOp DEF IInv, ReapStep, CancelNative, JoinNative, JoinRefused, FreeSlot, At, Reapers
<1> PICK i0 \in Slots : i0 = SlotOf(u)
  BY <1>1, ReaperSlot
<1> PICK h \in Natives : h = call[u].thread
  BY <1>1, ReaperSlot
<1>2. /\ slot[i0].in_use /\ slot[i0].id = call[u].id /\ slot[i0].thread = h /\ ~Creating(i0)
      /\ call[u].pc = "free" <=> ~Started(h)
      /\ native[h].stage # "none"
  BY <1>1, ReaperSlot, SlotThread
<1>3. HolderOf(i0) = h
  BY <1>2 DEF HolderOf
<1>4. /\ \A v \in Actors : v # u => call'[v] = call[v]
      /\ call'[u].op # "Create"
  BY <1>1 DEF ReapStep, CancelNative, JoinNative, JoinRefused, FreeSlot, Goto, Return,
              IInv, TypeOK, CallType, Idle, Reapers
<1>5. \A i \in Slots : Creating(i)' <=> Creating(i)
  BY <1>1, <1>4 DEF Creating, SlotOf, Reapers
<1>6. CASE CancelNative(u)
  <2>1. \A n \in Natives : native'[n].stage = native[n].stage
    BY <1>6 DEF CancelNative, IInv, TypeOK, NativeType
  <2>2. slot' = slot /\ \A n \in Natives : LifeOf(n)' = LifeOf(n)
    BY <1>6, <2>1 DEF CancelNative, LifeOf
  <2> QED BY <1>5, <2>2, QuietStep
<1>7. CASE JoinNative(u)
  <2>1. Usable(h)
    BY <1>2, <1>7 DEF JoinNative, At, Usable, Started
  <2>2. slot' = slot /\ native[h].stage = "ended"
        /\ native' = [native EXCEPT ![h].stage = "reaped"]
    BY <1>7, <2>1 DEF JoinNative
  <2>3. /\ LifeOf(h) = "ended" /\ LifeOf(h)' = "reaped"
        /\ \A n \in Natives : n # h => LifeOf(n)' = LifeOf(n)
    BY <2>2 DEF LifeOf, IInv, TypeOK, NativeType
  <2>4. [i \in Slots |-> HolderOf(i)]' = [i \in Slots |-> HolderOf(i)]
    <3>1. \A i \in Slots : HolderOf(i)' = HolderOf(i)
      BY <1>5, <2>2 DEF HolderOf
    <3> QED BY <3>1
  <2>5. Life!Reap(i0, h)
    BY <1>3, <2>3, <2>4, LifeChange DEF Life!Reap
  <2> QED BY <2>5 DEF Life!Next
<1>8. CASE JoinRefused(u)
  BY <1>8, NeverRefused
<1>9. CASE FreeSlot(u)
  <2>1. call[u].pc = "free" /\ native' = native
    BY <1>9 DEF FreeSlot, At
  <2>2. slot' = [slot EXCEPT ![i0] =
                   [slot[i0] EXCEPT !.in_use = FALSE, !.joined = FALSE,
                      !.state = "UNUSED", !.entry = AOS_ID_NONE, !.name = EmptyName]]
    BY <1>2, <1>9 DEF FreeSlot
  <2>3. ~slot'[i0].in_use /\ \A i \in Slots : i # i0 => slot'[i] = slot[i]
    BY <2>2 DEF IInv, TypeOK, SlotType
  <2>4. HolderOf(i0)' = NoThread /\ \A i \in Slots : i # i0 => HolderOf(i)' = HolderOf(i)
    BY <1>5, <2>3 DEF HolderOf
  <2>5. LifeOf(h) = "reaped"
    BY <1>2, <2>1 DEF LifeOf, Started
  <2>6. [n \in Natives |-> LifeOf(n)]' = [n \in Natives |-> LifeOf(n)]
    BY <2>1 DEF LifeOf
  <2>7. Life!Release(i0, h)
    BY <1>3, <2>4, <2>5, <2>6, HolderChange DEF Life!Release
  <2> QED BY <2>7 DEF Life!Next
<1> QED BY <1>6, <1>7, <1>8, <1>9 DEF ReapStep

(* The claims and the priorities are no part of AosTaskLife. *)
LEMMA ClaimMaps ==
  ASSUME IInv, NEW u \in Actors, NEW id,
         \/ DeleteLocked(u, id) \/ JoinLocked(u, id)
         \/ \E priority \in Priorities : SetPriority(u, id, priority)
  PROVE  UNCHANGED Life!vars
<1>1. call[u] = Idle /\ call[u].op = "none" /\ IdIndex(id) \in Slots
  <2>1. CanCall(u) /\ ValidId(id)
    BY DEF DeleteLocked, JoinLocked, SetPriority
  <2> QED BY <2>1 DEF CanCall, Idle, ValidId
<1> DEFINE Kept == /\ \A i \in Slots : /\ slot'[i].in_use <=> slot[i].in_use
                                     /\ slot'[i].thread = slot[i].thread
                   /\ \A v \in Actors : v # u => call'[v] = call[v]
                   /\ call'[u].op # "Create"
                   /\ \A n \in Natives : native'[n].stage = native[n].stage
<1>2. ASSUME DeleteLocked(u, id) PROVE Kept
  <2>1. slot' = [slot EXCEPT ![IdIndex(id)].joined = TRUE] /\ native' = native
    BY <1>2 DEF DeleteLocked
  <2>2. \A i \in Slots : (slot'[i].in_use <=> slot[i].in_use) /\ slot'[i].thread = slot[i].thread
    BY <2>1 DEF IInv, TypeOK, SlotType
  <2>3. \A v \in Actors : v # u => call'[v] = call[v]
    BY <1>2 DEF DeleteLocked, IInv, TypeOK
  <2>4. call'[u].op # "Create"
    BY <1>1, <1>2 DEF DeleteLocked, IInv, TypeOK
  <2> QED BY <2>1, <2>2, <2>3, <2>4
<1>3. ASSUME JoinLocked(u, id) PROVE Kept
  <2>1. slot' = [slot EXCEPT ![IdIndex(id)].joined = TRUE] /\ native' = native
    BY <1>3 DEF JoinLocked
  <2>2. \A i \in Slots : (slot'[i].in_use <=> slot[i].in_use) /\ slot'[i].thread = slot[i].thread
    BY <2>1 DEF IInv, TypeOK, SlotType
  <2>3. \A v \in Actors : v # u => call'[v] = call[v]
    BY <1>3 DEF JoinLocked, IInv, TypeOK
  <2>4. call'[u].op # "Create"
    BY <1>1, <1>3 DEF JoinLocked, IInv, TypeOK
  <2> QED BY <2>1, <2>2, <2>3, <2>4
<1>4. ASSUME NEW priority \in Priorities, SetPriority(u, id, priority) PROVE Kept
  <2>1. slot' = [slot EXCEPT ![IdIndex(id)].priority = priority] /\ call' = call
    BY <1>4 DEF SetPriority
  <2>2. \A i \in Slots : (slot'[i].in_use <=> slot[i].in_use) /\ slot'[i].thread = slot[i].thread
    BY <2>1 DEF IInv, TypeOK, SlotType
  <2>3. \A n \in Natives : native'[n].stage = native[n].stage
    <3>1. CASE native' = native
      BY <3>1
    <3>2. CASE native' # native
      <4>1. PICK h \in Natives : native' = [native EXCEPT ![h].priority = priority]
        BY <1>4, <3>2 DEF SetPriority, Usable
      <4> QED BY <4>1 DEF IInv, TypeOK, NativeType
    <3> QED BY <3>1, <3>2
  <2> QED BY <1>1, <2>1, <2>2, <2>3
<1>5. Kept
  BY <1>2, <1>3, <1>4
<1>6. \A i \in Slots : Creating(i)' <=> Creating(i)
  BY <1>1, <1>5 DEF Creating, SlotOf
<1>7. \A n \in Natives : LifeOf(n)' = LifeOf(n)
  BY <1>5 DEF LifeOf
<1> QED BY <1>5, <1>6, <1>7, QuietStep

(* aos_task.c implements AosTaskLife while callers keep the contract: a    *)
(* slot changes hands only after its thread ended and was reaped, and no   *)
(* thread is reaped twice or lost.                                         *)
THEOREM TaskImplementsLife ==
  ASSUME Contract = Obligations
  PROVE  Spec => ImplementsLife
<1>1. Init => Life!Init
  <2> SUFFICES ASSUME Init PROVE Life!Init
    OBVIOUS
  <2>1. \A i \in Slots : HolderOf(i) = NoThread
    BY DEF Init, EmptySlot, HolderOf
  <2>2. \A n \in Natives : LifeOf(n) = "none"
    BY DEF Init, NoNative, LifeOf
  <2> QED BY <2>1, <2>2 DEF Life!Init
<1>2. IInv /\ [Next]_vars => [Life!Next]_(Life!vars)
  <2> SUFFICES ASSUME IInv, [Next]_vars PROVE [Life!Next]_(Life!vars)
    OBVIOUS
  <2>1. CASE UNCHANGED vars
    <3>1. \A i \in Slots : Creating(i)' <=> Creating(i)
      BY <2>1 DEF vars, Creating, SlotOf
    <3>2. \A n \in Natives : LifeOf(n)' = LifeOf(n)
      BY <2>1 DEF vars, LifeOf
    <3> QED BY <2>1, <3>1, <3>2, QuietStep DEF vars
  <2>2. ASSUME NEW u \in Actors, Request(u) PROVE [Life!Next]_(Life!vars)
    BY <2>2, CreateLockedMaps, ClaimMaps DEF Request
  <2>3. ASSUME NEW u \in Actors, CreateStep(u) \/ ReapStep(u) PROVE [Life!Next]_(Life!vars)
    BY <2>3, CreateStepMaps, ReapStepMaps
  <2>4. ASSUME NEW n \in Natives, ThreadStep(n) \/ BodyEnds(n) \/ ActOnCancel(n)
        PROVE  [Life!Next]_(Life!vars)
    BY <2>4, ThreadStepMaps
  <2> QED BY <2>1, <2>2, <2>3, <2>4 DEF Next
<1> QED BY <1>1, <1>2, TaskInvariant, PTL DEF Spec, ImplementsLife, Life!Spec

-----------------------------------------------------------------------------
(* Three of the obligations                                                *)

LEMMA LoosePermits ==
  ASSUME LooseContract \subseteq Contract, NEW u, NEW op, NEW id, Permitted(u, op, id)
  PROVE  /\ \A v \in Actors : call[v].op = "Create" => call[v].id # id
         /\ op = "Delete" => \A v \in Actors : call[v].op = "Delete" => call[v].id # id
         /\ op = "SetPriority" /\ ValidId(id) => ~slot[IdIndex(id)].joined
BY Zenon DEF Permitted, LooseContract, Reaping, Reapers

(* The slot of a call past its first section. *)
LEMMA EngagedTask ==
  ASSUME LooseInv, NEW u \in Actors, call[u].op # "none"
  PROVE  call[u].id \in TaskIds /\ SlotOf(u) \in Slots
BY TaskIdFacts DEF LooseInv, CallDiscipline, SlotOf

LEMMA LooseInit == Init => LooseInv
<1> SUFFICES ASSUME Init PROVE LooseInv
  OBVIOUS
<1>1. TypeOK
  BY RecordTypes DEF Init, TypeOK
<1>2. /\ \A i \in Slots : ~slot[i].in_use
      /\ \A u \in Actors : call[u] = Idle /\ call[u].op = "none" /\ call[u].pc = "idle"
      /\ misused = {}
  BY DEF Init, EmptySlot, Idle
<1>3. CallDiscipline /\ CreatorAlone /\ DeleterAlone
  BY <1>2 DEF CallDiscipline, CreatorAlone, DeleterAlone
<1>4. UnclaimedReapable /\ ClaimAlone /\ HandlesSound
  BY <1>2 DEF UnclaimedReapable, ClaimAlone, HandlesSound
<1> QED BY <1>1, <1>3, <1>4 DEF LooseInv

(* A step that keeps the slots' places and claims, ends or advances calls, *)
(* and whose only thread to be joined is one its claimant lets go of.      *)
LEMMA LooseFrame ==
  ASSUME LooseInv, TypeOK', CallDiscipline', misused' = misused,
         \A i \in Slots : /\ slot'[i].in_use <=> slot[i].in_use
                          /\ slot'[i].joined <=> slot[i].joined
                          /\ slot'[i].id = slot[i].id
                          /\ ~Creating(i) => slot'[i].thread = slot[i].thread,
         \A v \in Actors :
           \/ call'[v] = call[v]
           \/ call'[v] = Idle /\ call[v].op # "Create"
           \/ /\ call'[v].op = call[v].op /\ call'[v].id = call[v].id
              /\ call'[v].thread = call[v].thread
              /\ call'[v].pc = "join" =>
                   call[v].pc = "cancel" /\ native'[call[v].thread].cancelled
              /\ call'[v].pc # "cancel",
         \A n \in Natives :
           /\ native'[n].task = native[n].task
           /\ native[n].cancelled => native'[n].cancelled
           /\ Started(n) => Started(n)' \/ \E v \in Actors : Claims(v, n) /\ ~Claims(v, n)'
  PROVE  LooseInv'
<1>1. \A v \in Actors : /\ call'[v].op = "Create" <=> call[v].op = "Create"
                        /\ call'[v].op = "Create" => SlotOf(v)' = SlotOf(v) /\ call'[v].id = call[v].id
                        /\ call'[v].op = "Delete" =>
                             call[v].op = "Delete" /\ SlotOf(v)' = SlotOf(v) /\ call'[v].id = call[v].id
  BY DEF Idle, SlotOf
<1>2. \A v \in Actors : \A h : Claims(v, h)' => Claims(v, h)
  BY DEF Claims, Idle
<1>3. CreatorAlone'
  BY <1>1, EngagedTask DEF CreatorAlone, LooseInv
<1>4. DeleterAlone'
  BY <1>1, EngagedTask DEF DeleterAlone, LooseInv
<1>5. UnclaimedReapable'
  <2> SUFFICES ASSUME NEW i \in Slots, slot'[i].in_use
               PROVE  (/\ slot[i].id \in TaskIds /\ IdIndex(slot[i].id) = i
                       /\ ~slot[i].joined /\ ~Creating(i) =>
                            LET h == slot[i].thread
                            IN  /\ h \in Natives /\ Started(h) /\ native[h].task = slot[i].id
                                /\ \A u \in Actors : ~Claims(u, h))'
    BY DEF UnclaimedReapable
  <2>1. slot'[i].id \in TaskIds /\ IdIndex(slot'[i].id) = i
    BY DEF LooseInv, UnclaimedReapable
  <2>2. ASSUME ~slot'[i].joined, ~Creating(i)'
        PROVE  (/\ slot[i].thread \in Natives /\ Started(slot[i].thread)
                /\ native[slot[i].thread].task = slot[i].id
                /\ \A u \in Actors : ~Claims(u, slot[i].thread))'
    <3>1. ~Creating(i)
      BY <1>1, <2>2 DEF Creating
    <3>2. PICK h \in Natives : h = slot[i].thread /\ h = slot'[i].thread
      BY <2>2, <3>1 DEF LooseInv, UnclaimedReapable
    <3>3. /\ Started(h) /\ native[h].task = slot[i].id
          /\ \A u \in Actors : ~Claims(u, h)
      BY <2>2, <3>1, <3>2 DEF LooseInv, UnclaimedReapable
    <3>4. Started(h)' /\ native'[h].task = slot'[i].id /\ \A u \in Actors : ~Claims(u, h)'
      BY <1>2, <3>3
    <3> QED BY <3>2, <3>4
  <2> QED BY <2>1, <2>2
<1>6. ClaimAlone'
  <2> SUFFICES ASSUME NEW v \in Actors, call'[v].pc \in {"cancel", "join"}
               PROVE  (LET h == call[v].thread
                       IN  /\ h \in Natives /\ Started(h)
                           /\ \A w \in Actors : Claims(w, h) => w = v
                           /\ call[v].op = "Delete" /\ call[v].pc = "join" => native[h].cancelled)'
    BY DEF ClaimAlone
  <2>1. call[v].pc \in {"cancel", "join"} /\ call'[v].thread = call[v].thread
        /\ call'[v].op = call[v].op
    BY DEF Idle
  <2>2. PICK h \in Natives : h = call[v].thread
    BY <2>1 DEF LooseInv, ClaimAlone
  <2>3. /\ Started(h) /\ \A w \in Actors : Claims(w, h) => w = v
        /\ call[v].op = "Delete" /\ call[v].pc = "join" => native[h].cancelled
    BY <2>1, <2>2 DEF LooseInv, ClaimAlone
  <2>4. Claims(v, h)'
    BY <2>1, <2>2 DEF Claims
  <2>5. Started(h)' /\ \A w \in Actors : Claims(w, h)' => w = v
    BY <1>2, <2>3, <2>4
  <2>6. call'[v].op = "Delete" /\ call'[v].pc = "join" => native'[h].cancelled
    <3>1. CASE call'[v] = call[v]
      BY <2>3, <3>1
    <3>2. CASE call'[v] # call[v]
      BY <2>1, <2>2, <3>2 DEF Idle
    <3> QED BY <3>1, <3>2
  <2> QED BY <2>1, <2>2, <2>5, <2>6
<1>7. HandlesSound'
  BY DEF LooseInv, HandlesSound
<1> QED BY <1>3, <1>4, <1>5, <1>6, <1>7 DEF LooseInv

(* The steps of a thread. *)
LEMMA LooseThread ==
  ASSUME LooseInv, NEW n \in Natives, ThreadStep(n) \/ BodyEnds(n)
  PROVE  LooseInv'
<1>1. /\ slot \in [Slots -> SlotType] /\ native \in [Natives -> NativeType]
      /\ call \in [Actors -> CallType] /\ native[n] \in NativeType
  BY DEF LooseInv, TypeOK
<1>2. /\ call' = call /\ misused' = misused /\ n \in Actors
      /\ native[n].stage \in {"start", "named", "body", "cleanup"}
      /\ native[n].stage # "body" \/ call[n] = Idle
  BY DEF ThreadStep, StoreIdentity, EnterBody, Cleanup, BodyEnds, Actors
<1>3. call[n].op = "none" /\ Started(n)
  BY <1>2 DEF LooseInv, CallDiscipline, Started, Idle
<1> PICK i0 \in Slots : i0 = HomeOf(n)
  BY <1>1, TaskIdFacts, NoneIndex DEF HomeOf, NativeType
<1>4. slot[i0] \in SlotType
  BY <1>1
<1>5. PICK moved \in NativeType :
        /\ native' = [native EXCEPT ![n] = moved]
        /\ moved.stage \in {"named", "body", "cleanup", "ended"}
        /\ moved.task = native[n].task /\ moved.cancelled = native[n].cancelled
  <2>1. CASE StoreIdentity(n)
    <3> DEFINE moved == [native[n] EXCEPT !.stage = "named", !.key = slot[i0].id]
    <3>1. native' = [native EXCEPT ![n] = moved]
      BY <2>1 DEF StoreIdentity
    <3>2. /\ moved \in NativeType /\ moved.stage = "named"
          /\ moved.task = native[n].task /\ moved.cancelled = native[n].cancelled
      BY <1>1, <1>4 DEF NativeType, Stages, SlotType
    <3> HIDE DEF moved
    <3> QED BY <3>1, <3>2
  <2>2. CASE EnterBody(n)
    <3> DEFINE moved == [native[n] EXCEPT !.stage = "body", !.runs = slot[i0].entry]
    <3>1. native' = [native EXCEPT ![n] = moved]
      BY <2>2 DEF EnterBody
    <3>2. /\ moved \in NativeType /\ moved.stage = "body"
          /\ moved.task = native[n].task /\ moved.cancelled = native[n].cancelled
      BY <1>1, <1>4 DEF NativeType, Stages, SlotType
    <3> HIDE DEF moved
    <3> QED BY <3>1, <3>2
  <2>3. CASE Cleanup(n)
    <3> DEFINE moved == [native[n] EXCEPT !.stage = "ended"]
    <3>1. native' = [native EXCEPT ![n] = moved]
      BY <2>3 DEF Cleanup
    <3>2. /\ moved \in NativeType /\ moved.stage = "ended"
          /\ moved.task = native[n].task /\ moved.cancelled = native[n].cancelled
      BY <1>1 DEF NativeType, Stages
    <3> HIDE DEF moved
    <3> QED BY <3>1, <3>2
  <2>4. CASE BodyEnds(n)
    <3> DEFINE moved == [native[n] EXCEPT !.stage = "cleanup"]
    <3>1. native' = [native EXCEPT ![n] = moved]
      BY <2>4 DEF BodyEnds
    <3>2. /\ moved \in NativeType /\ moved.stage = "cleanup"
          /\ moved.task = native[n].task /\ moved.cancelled = native[n].cancelled
      BY <1>1 DEF NativeType, Stages
    <3> HIDE DEF moved
    <3> QED BY <3>1, <3>2
  <2> QED BY <2>1, <2>2, <2>3, <2>4 DEF ThreadStep
<1>6. /\ native' \in [Natives -> NativeType] /\ native'[n] = moved
      /\ \A m \in Natives : m # n => native'[m] = native[m]
  BY <1>1, <1>5
<1>7. PICK state \in {"UNUSED", "STARTING", "RUNNING", "EXITED"} :
        slot' = [slot EXCEPT ![i0].state = state]
  <2>1. CASE EnterBody(n)
    BY <2>1 DEF EnterBody
  <2>2. CASE Cleanup(n) /\ slot[i0].in_use
    BY <2>2 DEF Cleanup
  <2>3. CASE slot' = slot
    BY <1>1, <1>4, <2>3 DEF SlotType
  <2> QED BY <2>1, <2>2, <2>3 DEF ThreadStep, StoreIdentity, Cleanup, BodyEnds
<1>8. /\ slot' \in [Slots -> SlotType]
      /\ \A i \in Slots : /\ slot'[i].in_use = slot[i].in_use
                          /\ slot'[i].joined = slot[i].joined
                          /\ slot'[i].id = slot[i].id
                          /\ slot'[i].thread = slot[i].thread
  BY <1>1, <1>7 DEF SlotType
<1>9. TypeOK'
  BY <1>1, <1>2, <1>6, <1>8 DEF LooseInv, TypeOK
<1>10. CallDiscipline'
  BY <1>2, <1>3, <1>6 DEF LooseInv, CallDiscipline, Idle
<1>11. \A m \in Natives : /\ native'[m].task = native[m].task
                          /\ native[m].cancelled => native'[m].cancelled
                          /\ Started(m) => Started(m)'
  BY <1>5, <1>6 DEF Started
<1> QED BY <1>2, <1>8, <1>9, <1>10, <1>11, LooseFrame

(* A task that acts on its cancellation leaves the call that it is in.     *)
LEMMA LooseActOnCancel ==
  ASSUME LooseInv, NEW n \in Natives, ActOnCancel(n)
  PROVE  LooseInv'
<1>1. /\ slot \in [Slots -> SlotType] /\ native \in [Natives -> NativeType]
      /\ call \in [Actors -> CallType] /\ native[n] \in NativeType /\ n \in Actors
  BY DEF LooseInv, TypeOK, Actors
<1>2. /\ native[n].stage = "body" /\ slot' = slot /\ misused' = misused
      /\ native' = [native EXCEPT ![n].stage = "cleanup"]
      /\ call' = [call EXCEPT ![n] = Idle]
      /\ call[n] = Idle \/ call[n].pc = "join"
  BY DEF ActOnCancel, Return, At
<1>3. call[n].op # "Create"
  BY <1>1, <1>2, PcOp DEF LooseInv, Idle, Reapers
<1>4. /\ call'[n] = Idle /\ \A v \in Actors : v # n => call'[v] = call[v]
      /\ call' \in [Actors -> CallType]
  BY <1>1, <1>2, RecordTypes
<1>5. /\ native'[n].stage = "cleanup"
      /\ \A m \in Natives : /\ native'[m].task = native[m].task
                            /\ native'[m].cancelled = native[m].cancelled
                            /\ m # n => native'[m] = native[m]
      /\ native' \in [Natives -> NativeType]
  BY <1>1, <1>2 DEF NativeType, Stages
<1>6. TypeOK'
  BY <1>2, <1>4, <1>5 DEF LooseInv, TypeOK
<1>7. CallDiscipline'
  BY <1>1, <1>4, <1>5 DEF LooseInv, CallDiscipline, Idle
<1>8. \A m \in Natives : Started(m) => Started(m)'
  BY <1>5 DEF Started
<1>9. \A v \in Actors : call'[v] = call[v] \/ (call'[v] = Idle /\ call[v].op # "Create")
  BY <1>3, <1>4
<1> QED BY <1>2, <1>5, <1>6, <1>7, <1>8, <1>9, LooseFrame

LEMMA LooseSpawnFails ==
  ASSUME LooseInv, NEW u \in Actors, SpawnFails(u)
  PROVE  LooseInv'
<1>1. /\ slot \in [Slots -> SlotType] /\ call \in [Actors -> CallType]
      /\ call[u] \in CallType
  BY DEF LooseInv, TypeOK
<1>2. /\ call[u].pc = "spawn" /\ call' = [call EXCEPT ![u].pc = "rollback"]
      /\ native' = native /\ misused' = misused
  BY DEF SpawnFails, At, Goto
<1>3. call[u].op = "Create"
  BY <1>2, PcOp DEF LooseInv
<1> PICK i0 \in Slots : i0 = SlotOf(u)
  BY <1>3, EngagedTask
<1>4. slot[i0] \in SlotType /\ Creating(i0)
  BY <1>1, <1>3 DEF Creating
<1>5. PICK h \in Natives \cup {NoThread} : slot' = [slot EXCEPT ![i0].thread = h]
  BY <1>4 DEF SpawnFails, SlotType
<1>6. /\ slot' \in [Slots -> SlotType]
      /\ \A i \in Slots : /\ slot'[i].in_use = slot[i].in_use
                          /\ slot'[i].joined = slot[i].joined
                          /\ slot'[i].id = slot[i].id
                          /\ i # i0 => slot'[i] = slot[i]
  BY <1>1, <1>5 DEF SlotType
<1>7. \A i \in Slots : ~Creating(i) => slot'[i].thread = slot[i].thread
  BY <1>4, <1>6
<1>8. /\ call' \in [Actors -> CallType]
      /\ call'[u].pc = "rollback"
      /\ \A v \in Actors : /\ call'[v].op = call[v].op /\ call'[v].id = call[v].id
                           /\ call'[v].thread = call[v].thread
                           /\ v # u => call'[v] = call[v]
  BY <1>1, <1>2 DEF CallType, Points
<1>9. TypeOK'
  BY <1>2, <1>6, <1>8 DEF LooseInv, TypeOK
<1>10. CallDiscipline'
  BY <1>2, <1>3, <1>8 DEF LooseInv, CallDiscipline, Idle
<1>11. \A n \in Natives : Started(n) => Started(n)'
  BY <1>2 DEF Started
<1> QED BY <1>2, <1>6, <1>7, <1>8, <1>9, <1>10, <1>11, LooseFrame

(* What a caller that cancels or joins a thread knows. *)
LEMMA Claimant ==
  ASSUME LooseInv, NEW u \in Actors, call[u].pc \in {"cancel", "join"}
  PROVE  /\ call[u].op \in Reapers
         /\ call[u].pc = "cancel" => call[u].op = "Delete"
         /\ call[u].thread \in Natives
         /\ Started(call[u].thread) /\ Usable(call[u].thread)
         /\ \A v \in Actors : Claims(v, call[u].thread) => v = u
         /\ call[u].op = "Delete" /\ call[u].pc = "join" => native[call[u].thread].cancelled
<1>1. /\ call[u].op \in Reapers /\ (call[u].pc = "cancel" => call[u].op = "Delete")
  BY PcOp DEF LooseInv, Reapers
<1>2. /\ call[u].thread \in Natives /\ Started(call[u].thread)
      /\ \A v \in Actors : Claims(v, call[u].thread) => v = u
      /\ call[u].op = "Delete" /\ call[u].pc = "join" => native[call[u].thread].cancelled
  BY DEF LooseInv, ClaimAlone
<1> QED BY <1>1, <1>2 DEF Usable, Started

LEMMA LooseCancelNative ==
  ASSUME LooseInv, NEW u \in Actors, CancelNative(u)
  PROVE  LooseInv'
<1>1. /\ native \in [Natives -> NativeType] /\ call \in [Actors -> CallType]
      /\ call[u] \in CallType
  BY DEF LooseInv, TypeOK
<1>2. /\ call[u].pc = "cancel" /\ call' = [call EXCEPT ![u].pc = "join"] /\ slot' = slot
  BY DEF CancelNative, At, Goto
<1> PICK h \in Natives : h = call[u].thread
  BY <1>2, Claimant
<1>3. Usable(h) /\ call[u].op = "Delete"
  BY <1>2, Claimant
<1>4. native' = [native EXCEPT ![h].cancelled = TRUE] /\ misused' = misused
  BY <1>3 DEF CancelNative
<1>5. /\ native' \in [Natives -> NativeType] /\ native'[h].cancelled
      /\ \A n \in Natives : /\ native'[n].stage = native[n].stage
                            /\ native'[n].task = native[n].task
                            /\ n # h => native'[n] = native[n]
  <2> DEFINE asked == [native[h] EXCEPT !.cancelled = TRUE]
  <2>1. native[h] \in NativeType
    BY <1>1
  <2>2. /\ asked \in NativeType /\ asked.cancelled
        /\ asked.stage = native[h].stage /\ asked.task = native[h].task
    BY <2>1 DEF NativeType
  <2>3. native' = [native EXCEPT ![h] = asked]
    BY <1>4
  <2> HIDE DEF asked
  <2>4. /\ native' \in [Natives -> NativeType] /\ native'[h] = asked
        /\ \A n \in Natives : n # h => native'[n] = native[n]
    BY <1>1, <2>2, <2>3
  <2> QED BY <2>2, <2>4
<1>6. /\ call' \in [Actors -> CallType]
      /\ call'[u].pc = "join"
      /\ \A v \in Actors : /\ call'[v].op = call[v].op /\ call'[v].id = call[v].id
                           /\ call'[v].thread = call[v].thread
                           /\ v # u => call'[v] = call[v]
  BY <1>1, <1>2 DEF CallType, Points
<1>7. TypeOK'
  BY <1>2, <1>4, <1>5, <1>6 DEF LooseInv, TypeOK
<1>8. CallDiscipline'
  BY <1>3, <1>5, <1>6 DEF LooseInv, CallDiscipline, Idle
<1>9. \A n \in Natives : /\ Started(n) => Started(n)'
                         /\ native[n].cancelled => native'[n].cancelled
  BY <1>5 DEF Started
<1> QED BY <1>2, <1>4, <1>5, <1>6, <1>7, <1>8, <1>9, LooseFrame

(* The joined thread was in the hands of its one claimant. *)
LEMMA LooseJoinNative ==
  ASSUME LooseInv, NEW u \in Actors, JoinNative(u)
  PROVE  LooseInv'
<1>1. /\ native \in [Natives -> NativeType] /\ call \in [Actors -> CallType]
      /\ call[u] \in CallType
  BY DEF LooseInv, TypeOK
<1>2. call[u].pc = "join" /\ slot' = slot
  BY DEF JoinNative, At
<1> PICK h \in Natives : h = call[u].thread
  BY <1>2, Claimant
<1>3. Usable(h) /\ call[u].op \in Reapers
  BY <1>2, Claimant
<1>4. /\ native[h].stage = "ended" /\ misused' = misused
      /\ native' = [native EXCEPT ![h].stage = "reaped"]
      /\ call' = IF call[u].op = "Delete" THEN [call EXCEPT ![u].pc = "free"]
                                          ELSE [call EXCEPT ![u] = Idle]
  BY <1>3 DEF JoinNative, Goto, Return
<1>5. /\ native' \in [Natives -> NativeType] /\ native'[h].stage = "reaped"
      /\ \A n \in Natives : /\ native'[n].task = native[n].task
                            /\ native'[n].cancelled = native[n].cancelled
                            /\ n # h => native'[n] = native[n]
  BY <1>1, <1>4 DEF NativeType, Stages
<1>6. /\ call' \in [Actors -> CallType]
      /\ \A v \in Actors : v # u => call'[v] = call[v]
  BY <1>1, <1>4, RecordTypes DEF CallType, Points
<1>7. \/ /\ call'[u].op = call[u].op /\ call'[u].id = call[u].id
         /\ call'[u].thread = call[u].thread /\ call'[u].pc = "free"
         /\ call[u].op = "Delete"
      \/ call'[u] = Idle
  BY <1>1, <1>4 DEF CallType
<1>8. call[h].op = "none" /\ h \in Actors
  BY <1>4 DEF LooseInv, CallDiscipline, Actors
<1>9. TypeOK'
  BY <1>2, <1>4, <1>5, <1>6 DEF LooseInv, TypeOK
<1>10. CallDiscipline'
  <2> SUFFICES ASSUME NEW v \in Actors
               PROVE  /\ call'[v].op = "none" => call'[v] = Idle
                      /\ call'[v].op = "Create" => call'[v].pc \in {"spawn", "rollback"}
                      /\ call'[v].op = "Join" => call'[v].pc = "join"
                      /\ call'[v].op = "Delete" => call'[v].pc \in {"cancel", "join", "free"}
                      /\ call'[v].op # "none" => call'[v].id \in TaskIds
                      /\ v \in Natives /\ call'[v].op # "none" => native'[v].stage = "body"
    BY DEF CallDiscipline
  <2>1. u # h
    BY <1>3, <1>8 DEF Reapers
  <2>2. CASE v = u
    BY <1>5, <1>7, <2>1, <2>2 DEF LooseInv, CallDiscipline, Idle
  <2>3. CASE v # u
    BY <1>5, <1>6, <1>8, <2>3 DEF LooseInv, CallDiscipline
  <2> QED BY <2>2, <2>3
<1>11. Claims(u, h) /\ ~Claims(u, h)'
  BY <1>2, <1>7 DEF Claims, Idle
<1>12. \A n \in Natives : n # h /\ Started(n) => Started(n)'
  BY <1>5 DEF Started
<1>13. call[u].op # "Create"
  BY <1>3 DEF Reapers
<1> QED BY <1>2, <1>4, <1>5, <1>6, <1>7, <1>9, <1>10, <1>11, <1>12, <1>13, LooseFrame

LEMMA LooseJoinRefused ==
  ASSUME LooseInv, NEW u \in Actors, JoinRefused(u)
  PROVE  LooseInv'
<1>1. /\ call \in [Actors -> CallType] /\ call[u].pc = "join"
      /\ call' = [call EXCEPT ![u] = Idle]
      /\ slot' = slot /\ native' = native /\ misused' = misused
  BY DEF LooseInv, TypeOK, JoinRefused, At, Return
<1>2. call[u].op # "Create"
  BY <1>1, Claimant DEF Reapers
<1>3. /\ call'[u] = Idle /\ \A v \in Actors : v # u => call'[v] = call[v]
      /\ call' \in [Actors -> CallType]
  BY <1>1, RecordTypes
<1>4. TypeOK' /\ CallDiscipline'
  BY <1>1, <1>3 DEF LooseInv, TypeOK, CallDiscipline, Idle
<1>5. \A n \in Natives : Started(n) => Started(n)'
  BY <1>1 DEF Started
<1> QED BY <1>1, <1>2, <1>3, <1>4, <1>5, LooseFrame

(* What callers find of a task they may call upon: it is not being created.*)
LEMMA LooseTarget ==
  ASSUME LooseInv, LooseContract \subseteq Contract,
         NEW u \in Actors, NEW op, NEW id, Permitted(u, op, id), ValidId(id)
  PROVE  /\ id \in TaskIds /\ IdIndex(id) \in Slots
         /\ slot[IdIndex(id)].in_use /\ slot[IdIndex(id)].id = id
         /\ ~Creating(IdIndex(id))
         /\ op = "Delete" =>
              \A v \in Actors : call[v].op = "Delete" => SlotOf(v) # IdIndex(id)
         /\ ~slot[IdIndex(id)].joined =>
              LET h == slot[IdIndex(id)].thread
              IN  /\ h \in Natives /\ Started(h) /\ native[h].task = id
                  /\ \A v \in Actors : ~Claims(v, h)
<1>1. /\ IdIndex(id) \in Slots /\ slot[IdIndex(id)].in_use /\ slot[IdIndex(id)].id = id
  BY DEF ValidId
<1>2. id \in TaskIds
  BY <1>1 DEF LooseInv, UnclaimedReapable
<1>3. /\ \A v \in Actors : call[v].op = "Create" => call[v].id # id
      /\ op = "Delete" => \A v \in Actors : call[v].op = "Delete" => call[v].id # id
  BY LoosePermits
<1>4. ~Creating(IdIndex(id))
  BY <1>1, <1>3 DEF Creating, LooseInv, CreatorAlone
<1>5. op = "Delete" =>
        \A v \in Actors : call[v].op = "Delete" => SlotOf(v) # IdIndex(id)
  BY <1>1, <1>3 DEF LooseInv, DeleterAlone
<1>6. ~slot[IdIndex(id)].joined =>
        LET h == slot[IdIndex(id)].thread
        IN  /\ h \in Natives /\ Started(h) /\ native[h].task = id
            /\ \A v \in Actors : ~Claims(v, h)
  BY <1>1, <1>4 DEF LooseInv, UnclaimedReapable
<1> QED BY <1>1, <1>2, <1>4, <1>5, <1>6

LEMMA LooseSetPriority ==
  ASSUME LooseInv, LooseContract \subseteq Contract, NEW u \in Actors, NEW id,
         NEW priority \in Priorities, SetPriority(u, id, priority)
  PROVE  LooseInv'
<1>1. Permitted(u, "SetPriority", id) /\ ValidId(id) /\ call' = call
  BY DEF SetPriority
<1> PICK i0 \in Slots : i0 = IdIndex(id)
  BY <1>1, LooseTarget
<1>2. ~slot[i0].joined
  BY <1>1, LoosePermits
<1> PICK h \in Natives : h = slot[i0].thread
  BY <1>1, <1>2, LooseTarget
<1>3. Usable(h)
  BY <1>1, <1>2, LooseTarget DEF Usable, Started
<1>4. /\ slot' = [slot EXCEPT ![i0].priority = priority]
      /\ native' = IF RtEnabled THEN [native EXCEPT ![h].priority = priority] ELSE native
      /\ misused' = misused
  BY <1>3 DEF SetPriority
<1>5. slot \in [Slots -> SlotType] /\ native \in [Natives -> NativeType]
  BY DEF LooseInv, TypeOK
<1>6. /\ slot' \in [Slots -> SlotType]
      /\ \A i \in Slots : /\ slot'[i].in_use = slot[i].in_use
                          /\ slot'[i].joined = slot[i].joined
                          /\ slot'[i].id = slot[i].id
                          /\ slot'[i].thread = slot[i].thread
  BY <1>4, <1>5 DEF SlotType
<1>7. /\ native' \in [Natives -> NativeType]
      /\ \A n \in Natives : /\ native'[n].stage = native[n].stage
                            /\ native'[n].task = native[n].task
                            /\ native'[n].cancelled = native[n].cancelled
  BY <1>4, <1>5 DEF NativeType
<1>8. TypeOK' /\ CallDiscipline'
  BY <1>1, <1>4, <1>6, <1>7 DEF LooseInv, TypeOK, CallDiscipline, Idle
<1>9. \A n \in Natives : Started(n) => Started(n)'
  BY <1>7 DEF Started
<1> QED BY <1>1, <1>4, <1>6, <1>7, <1>8, <1>9, LooseFrame

LEMMA LooseCreateLocked ==
  ASSUME LooseInv, NEW u \in Actors, CreateLocked(u)
  PROVE  LooseInv'
<1>1. PICK i0 \in Slots, name \in Names, priority \in Priorities :
        LET serial == NextSerial(slot[i0].serial)
            id     == IdPack(AOS_TYPE_TASK, serial, i0)
        IN  /\ IsFirstFree(i0)
            /\ slot' = [slot EXCEPT ![i0] =
                 [thread |-> slot[i0].thread, entry |-> id, id |-> id,
                  priority |-> priority, state |-> "STARTING",
                  serial |-> serial, in_use |-> TRUE, joined |-> FALSE,
                  name |-> name]]
            /\ call' = [call EXCEPT ![u] =
                 [op |-> "Create", pc |-> "spawn", id |-> id,
                  thread |-> NoThread, priority |-> priority]]
  BY DEF CreateLocked
<1>2. /\ call[u] = Idle /\ (u \in Natives => native[u].stage = "body")
      /\ native' = native /\ misused' = misused
  BY DEF CreateLocked, CanCall
<1>3. ~slot[i0].in_use
  BY <1>1 DEF IsFirstFree, FreeSlots
<1>4. slot[i0] \in SlotType /\ slot \in [Slots -> SlotType] /\ call \in [Actors -> CallType]
  BY DEF LooseInv, TypeOK
<1>5. PICK serial \in 1 .. SerialMod - 1 : serial = NextSerial(slot[i0].serial)
  BY <1>4, NextSerialFresh DEF SlotType
<1>6. PICK id \in TaskIds : id = IdPack(AOS_TYPE_TASK, serial, i0) /\ IdIndex(id) = i0
  BY TaskIdFacts
<1> DEFINE filled == [thread |-> slot[i0].thread, entry |-> id, id |-> id,
                      priority |-> priority, state |-> "STARTING",
                      serial |-> serial, in_use |-> TRUE, joined |-> FALSE,
                      name |-> name]
           begun  == [op |-> "Create", pc |-> "spawn", id |-> id,
                      thread |-> NoThread, priority |-> priority]
<1>7. slot' = [slot EXCEPT ![i0] = filled] /\ call' = [call EXCEPT ![u] = begun]
  BY <1>1, <1>5, <1>6
<1>8. filled \in SlotType /\ begun \in CallType
  BY <1>4, <1>5, SerialModAssumption DEF SlotType, CallType, Points
<1>9. TypeOK'
  <2> HIDE DEF filled, begun
  <2> QED BY <1>2, <1>4, <1>7, <1>8 DEF LooseInv, TypeOK
<1>10. /\ slot'[i0].in_use /\ ~slot'[i0].joined /\ slot'[i0].id = id
       /\ \A i \in Slots : i # i0 => slot'[i] = slot[i]
  BY <1>4, <1>7
<1>11. /\ call'[u].op = "Create" /\ call'[u].pc = "spawn" /\ call'[u].id = id
       /\ \A v \in Actors : v # u => call'[v] = call[v]
       /\ call[u].op = "none"
  BY <1>2, <1>4, <1>7 DEF Idle
<1> HIDE DEF filled, begun
<1>12. /\ SlotOf(u)' = i0
       /\ \A v \in Actors : v # u => SlotOf(v)' = SlotOf(v)
  BY <1>6, <1>11 DEF SlotOf
<1>13. \A i \in Slots : Creating(i)' <=> (Creating(i) \/ i = i0)
  BY <1>11, <1>12 DEF Creating
<1>14. \A v \in Actors : call[v].op \in {"Create", "Delete"} => SlotOf(v) # i0 /\ SlotOf(v) \in Slots
  BY <1>3, EngagedTask DEF LooseInv, CreatorAlone, DeleterAlone
<1>15. CallDiscipline'
  BY <1>2, <1>11 DEF LooseInv, CallDiscipline, Idle
<1>16. CreatorAlone'
  BY <1>10, <1>11, <1>12, <1>14 DEF LooseInv, CreatorAlone
<1>17. DeleterAlone'
  BY <1>10, <1>11, <1>12, <1>14 DEF LooseInv, DeleterAlone
<1>18. \A v \in Actors : \A h : Claims(v, h)' => Claims(v, h)
  BY <1>11 DEF Claims
<1>19. UnclaimedReapable'
  BY <1>2, <1>6, <1>10, <1>13, <1>18 DEF LooseInv, UnclaimedReapable, Started
<1>20. ClaimAlone'
  BY <1>2, <1>11, <1>18 DEF LooseInv, ClaimAlone, Started
<1> QED BY <1>2, <1>9, <1>15, <1>16, <1>17, <1>19, <1>20 DEF LooseInv, HandlesSound

(* What the creator of a task knows. *)
LEMMA LooseCreator ==
  ASSUME LooseInv, NEW u \in Actors, call[u].pc \in {"spawn", "rollback"}
  PROVE  /\ call[u].op = "Create" /\ call[u].id \in TaskIds /\ SlotOf(u) \in Slots
         /\ slot[SlotOf(u)].in_use /\ ~slot[SlotOf(u)].joined
         /\ slot[SlotOf(u)].id = call[u].id
         /\ \A v \in Actors : v # u /\ call[v].op \in {"Create", "Delete"} => SlotOf(v) # SlotOf(u)
<1>1. call[u].op = "Create"
  BY PcOp DEF LooseInv
<1>2. call[u].id \in TaskIds /\ SlotOf(u) \in Slots
  BY <1>1, EngagedTask
<1> QED BY <1>1, <1>2 DEF LooseInv, CreatorAlone, DeleterAlone

LEMMA LooseSpawn ==
  ASSUME LooseInv, NEW u \in Actors, Spawn(u)
  PROVE  LooseInv'
<1>1. PICK n0 \in Natives :
        /\ native[n0].stage = "none"
        /\ native' = [native EXCEPT ![n0] =
             [NoNative EXCEPT !.stage = "start", !.task = call[u].id,
                !.priority = IF RtEnabled THEN call[u].priority ELSE 0]]
        /\ slot' = [slot EXCEPT ![SlotOf(u)].thread = n0]
  BY DEF Spawn
<1>2. call[u].pc = "spawn" /\ call' = [call EXCEPT ![u] = Idle] /\ misused' = misused
  BY DEF Spawn, At, Return
<1>3. /\ slot \in [Slots -> SlotType] /\ native \in [Natives -> NativeType]
      /\ call \in [Actors -> CallType]
  BY DEF LooseInv, TypeOK
<1> PICK i0 \in Slots : i0 = SlotOf(u)
  BY <1>2, LooseCreator
<1> PICK id \in TaskIds : id = call[u].id
  BY <1>2, LooseCreator
<1> PICK given \in Priorities : given = IF RtEnabled THEN call[u].priority ELSE 0
  BY <1>3, ZeroPriority DEF CallType
<1>4. /\ call[u].op = "Create"
      /\ slot[i0].in_use /\ ~slot[i0].joined /\ slot[i0].id = id /\ IdIndex(id) = i0
      /\ \A v \in Actors : v # u /\ call[v].op \in {"Create", "Delete"} => SlotOf(v) # i0
  BY <1>2, LooseCreator DEF SlotOf
<1> DEFINE born == [NoNative EXCEPT !.stage = "start", !.task = id, !.priority = given]
<1>5. born \in NativeType /\ born.stage = "start" /\ born.task = id
  BY RecordTypes DEF NativeType, Stages
<1>6. native' = [native EXCEPT ![n0] = born]
  BY <1>1
<1> HIDE DEF born
<1>7. /\ native'[n0] = born /\ native' \in [Natives -> NativeType]
      /\ \A n \in Natives : n # n0 => native'[n] = native[n]
  BY <1>3, <1>5, <1>6
<1>8. /\ slot'[i0].thread = n0 /\ slot' \in [Slots -> SlotType]
      /\ \A i \in Slots : /\ slot'[i].in_use = slot[i].in_use
                          /\ slot'[i].joined = slot[i].joined
                          /\ slot'[i].id = slot[i].id
                          /\ i # i0 => slot'[i] = slot[i]
  <2> DEFINE owned == [slot[i0] EXCEPT !.thread = n0]
  <2>1. slot[i0] \in SlotType
    BY <1>3
  <2>2. /\ owned \in SlotType /\ owned.thread = n0 /\ owned.in_use = slot[i0].in_use
        /\ owned.joined = slot[i0].joined /\ owned.id = slot[i0].id
    BY <2>1 DEF SlotType
  <2>3. slot' = [slot EXCEPT ![i0] = owned]
    BY <1>1, <1>3
  <2> HIDE DEF owned
  <2>4. /\ slot' \in [Slots -> SlotType] /\ slot'[i0] = owned
        /\ \A i \in Slots : i # i0 => slot'[i] = slot[i]
    BY <1>3, <2>2, <2>3
  <2> QED BY <2>2, <2>4
<1>9. /\ call'[u] = Idle /\ call'[u].op = "none" /\ call'[u].pc = "idle"
      /\ \A v \in Actors : v # u => call'[v] = call[v] /\ SlotOf(v)' = SlotOf(v)
      /\ call' \in [Actors -> CallType]
  BY <1>2, <1>3, RecordTypes DEF Idle, SlotOf
<1>10. TypeOK'
  BY <1>2, <1>7, <1>8, <1>9 DEF LooseInv, TypeOK
<1>11. CallDiscipline'
  BY <1>1, <1>7, <1>9 DEF LooseInv, CallDiscipline
<1>12. CreatorAlone'
  BY <1>8, <1>9, EngagedTask DEF LooseInv, CreatorAlone
<1>13. DeleterAlone'
  BY <1>8, <1>9, EngagedTask DEF LooseInv, DeleterAlone
<1>14. \A i \in Slots : i # i0 => (Creating(i)' <=> Creating(i))
  BY <1>9 DEF Creating
<1>15. \A v \in Actors : \A h : Claims(v, h)' => Claims(v, h)
  BY <1>9 DEF Claims
<1>16. \A n \in Natives : Started(n) => n # n0 /\ Started(n)' /\ native'[n] = native[n]
  BY <1>1, <1>7 DEF Started
<1>17. \A v \in Actors : ~Claims(v, n0)
  BY <1>16 DEF LooseInv, ClaimAlone, Claims
<1>18. Started(n0)' /\ native'[n0].task = id
  BY <1>5, <1>7 DEF Started
<1>19. UnclaimedReapable'
  <2> SUFFICES ASSUME NEW i \in Slots, slot'[i].in_use
               PROVE  (/\ slot[i].id \in TaskIds /\ IdIndex(slot[i].id) = i
                       /\ ~slot[i].joined /\ ~Creating(i) =>
                            LET h == slot[i].thread
                            IN  /\ h \in Natives /\ Started(h) /\ native[h].task = slot[i].id
                                /\ \A v \in Actors : ~Claims(v, h))'
    BY DEF UnclaimedReapable
  <2>1. CASE i = i0
    BY <1>4, <1>8, <1>15, <1>17, <1>18, <2>1
  <2>2. CASE i # i0
    <3>1. slot'[i].id \in TaskIds /\ IdIndex(slot'[i].id) = i
      BY <1>8, <2>2 DEF LooseInv, UnclaimedReapable
    <3>2. ASSUME ~slot'[i].joined, ~Creating(i)'
          PROVE  LET h == slot[i].thread
                 IN  /\ h \in Natives /\ Started(h) /\ native[h].task = slot[i].id
                     /\ \A v \in Actors : ~Claims(v, h)
      BY <1>8, <1>14, <2>2, <3>2 DEF LooseInv, UnclaimedReapable
    <3> QED BY <1>8, <1>15, <1>16, <2>2, <3>1, <3>2
  <2> QED BY <2>1, <2>2
<1>20. ClaimAlone'
  <2> SUFFICES ASSUME NEW v \in Actors, call'[v].pc \in {"cancel", "join"}
               PROVE  (LET h == call[v].thread
                       IN  /\ h \in Natives /\ Started(h)
                           /\ \A w \in Actors : Claims(w, h) => w = v
                           /\ call[v].op = "Delete" /\ call[v].pc = "join" => native[h].cancelled)'
    BY DEF ClaimAlone
  <2>1. v # u /\ call'[v] = call[v]
    BY <1>9
  <2>2. LET h == call[v].thread
        IN  /\ h \in Natives /\ Started(h)
            /\ \A w \in Actors : Claims(w, h) => w = v
            /\ call[v].op = "Delete" /\ call[v].pc = "join" => native[h].cancelled
    BY <2>1 DEF LooseInv, ClaimAlone
  <2> QED BY <1>15, <1>16, <2>1, <2>2
<1> QED BY <1>2, <1>10, <1>11, <1>12, <1>13, <1>19, <1>20 DEF LooseInv, HandlesSound

(* A slot is given up by its one creator or its one deleter.               *)
LEMMA LooseGivenUp ==
  ASSUME LooseInv, NEW u \in Actors, NEW i0 \in Slots,
         call[u].pc \notin {"cancel", "join"},
         \A v \in Actors : v # u /\ call[v].op \in {"Create", "Delete"} => SlotOf(v) # i0,
         NEW freed \in SlotType, ~freed.in_use, slot' = [slot EXCEPT ![i0] = freed],
         \/ call[u].op # "Create"
         \/ SlotOf(u) = i0,
         call' = [call EXCEPT ![u] = Idle], native' = native, misused' = misused
  PROVE  LooseInv'
<1>1. slot \in [Slots -> SlotType] /\ call \in [Actors -> CallType]
  BY DEF LooseInv, TypeOK
<1>2. /\ ~slot'[i0].in_use /\ slot' \in [Slots -> SlotType]
      /\ \A i \in Slots : i # i0 => slot'[i] = slot[i]
  BY <1>1
<1>3. /\ call'[u] = Idle /\ call'[u].op = "none" /\ call'[u].pc = "idle"
      /\ \A v \in Actors : v # u => call'[v] = call[v] /\ SlotOf(v)' = SlotOf(v)
      /\ call' \in [Actors -> CallType]
  BY <1>1, RecordTypes DEF Idle, SlotOf
<1>4. TypeOK'
  BY <1>2, <1>3 DEF LooseInv, TypeOK
<1>5. CallDiscipline'
  BY <1>3 DEF LooseInv, CallDiscipline
<1>6. CreatorAlone'
  BY <1>2, <1>3, EngagedTask DEF LooseInv, CreatorAlone
<1>7. DeleterAlone'
  BY <1>2, <1>3, EngagedTask DEF LooseInv, DeleterAlone
<1>8. \A i \in Slots : i # i0 => (Creating(i) => Creating(i)')
  BY <1>3 DEF Creating
<1>9. \A v \in Actors : \A h : Claims(v, h)' => Claims(v, h)
  BY <1>3 DEF Claims
<1>10. UnclaimedReapable'
  BY <1>2, <1>8, <1>9 DEF LooseInv, UnclaimedReapable, Started
<1>11. ClaimAlone'
  BY <1>3, <1>9 DEF LooseInv, ClaimAlone, Started
<1> QED BY <1>4, <1>5, <1>6, <1>7, <1>10, <1>11 DEF LooseInv, HandlesSound

LEMMA LooseRollback ==
  ASSUME LooseInv, NEW u \in Actors, Rollback(u)
  PROVE  LooseInv'
<1>1. /\ call[u].pc = "rollback" /\ call' = [call EXCEPT ![u] = Idle]
      /\ native' = native /\ misused' = misused
  BY DEF Rollback, At, Return
<1> PICK i0 \in Slots : i0 = SlotOf(u)
  BY <1>1, LooseCreator
<1>2. /\ call[u].op = "Create"
      /\ \A v \in Actors : v # u /\ call[v].op \in {"Create", "Delete"} => SlotOf(v) # i0
  BY <1>1, LooseCreator
<1>3. slot \in [Slots -> SlotType] /\ slot[i0] \in SlotType
  BY DEF LooseInv, TypeOK
<1> DEFINE freed == [slot[i0] EXCEPT !.in_use = FALSE, !.state = "UNUSED"]
<1>4. freed \in SlotType /\ ~freed.in_use
  BY <1>3 DEF SlotType
<1>5. slot' = [slot EXCEPT ![i0] = freed]
  BY <1>3 DEF Rollback
<1> HIDE DEF freed
<1> QED BY <1>1, <1>2, <1>4, <1>5, LooseGivenUp

(* What the deleter of a task knows. *)
LEMMA LooseDeleter ==
  ASSUME LooseInv, NEW u \in Actors, call[u].op = "Delete"
  PROVE  /\ call[u].id \in TaskIds /\ SlotOf(u) \in Slots
         /\ slot[SlotOf(u)].in_use /\ slot[SlotOf(u)].joined
         /\ slot[SlotOf(u)].id = call[u].id
         /\ \A v \in Actors : v # u /\ call[v].op \in {"Create", "Delete"} => SlotOf(v) # SlotOf(u)
<1>1. call[u].id \in TaskIds /\ SlotOf(u) \in Slots
  BY EngagedTask
<1> QED BY <1>1 DEF LooseInv, CreatorAlone, DeleterAlone

LEMMA LooseFreeSlot ==
  ASSUME LooseInv, NEW u \in Actors, FreeSlot(u)
  PROVE  LooseInv'
<1>1. /\ call[u].pc = "free" /\ call' = [call EXCEPT ![u] = Idle]
      /\ native' = native /\ misused' = misused
  BY DEF FreeSlot, At, Return
<1>2. call[u].op = "Delete"
  BY <1>1, PcOp DEF LooseInv
<1> PICK i0 \in Slots : i0 = SlotOf(u)
  BY <1>2, LooseDeleter
<1>3. /\ slot[i0].in_use /\ slot[i0].id = call[u].id
      /\ \A v \in Actors : v # u /\ call[v].op \in {"Create", "Delete"} => SlotOf(v) # i0
  BY <1>2, LooseDeleter
<1>4. slot \in [Slots -> SlotType] /\ slot[i0] \in SlotType
  BY DEF LooseInv, TypeOK
<1> DEFINE freed == [slot[i0] EXCEPT !.in_use = FALSE, !.joined = FALSE,
                       !.state = "UNUSED", !.entry = AOS_ID_NONE, !.name = EmptyName]
<1>5. freed \in SlotType /\ ~freed.in_use
  BY <1>4 DEF SlotType
<1>6. slot' = [slot EXCEPT ![i0] = freed]
  BY <1>3 DEF FreeSlot
<1> HIDE DEF freed
<1> QED BY <1>1, <1>2, <1>3, <1>5, <1>6, LooseGivenUp

(* A claim is made: joined is set, and the caller goes on to reap, or is   *)
(* refused as the task itself.                                             *)
LEMMA LooseClaim ==
  ASSUME LooseInv, LooseContract \subseteq Contract,
         NEW u \in Actors, CanCall(u), NEW op \in Reapers, NEW id,
         Permitted(u, op, id), ValidId(id),
         NEW pc \in {"cancel", "join", "free"},
         op = "Join" <=> pc = "join",
         pc = "free" => slot[IdIndex(id)].joined,
         pc # "free" => ~slot[IdIndex(id)].joined,
         slot' = [slot EXCEPT ![IdIndex(id)].joined = TRUE],
         \/ call' = call
         \/ call' = [call EXCEPT ![u] = [op |-> op, pc |-> pc, id |-> id,
                                         thread |-> slot[IdIndex(id)].thread,
                                         priority |-> 0]],
         native' = native, misused' = misused
  PROVE  LooseInv'
<1> PICK i0 \in Slots : i0 = IdIndex(id)
  BY LooseTarget
<1>1. /\ id \in TaskIds /\ slot[i0].in_use /\ slot[i0].id = id /\ ~Creating(i0)
      /\ op = "Delete" => \A v \in Actors : call[v].op = "Delete" => SlotOf(v) # i0
  BY LooseTarget
<1>2. ~slot[i0].joined => /\ slot[i0].thread \in Natives /\ Started(slot[i0].thread)
                          /\ native[slot[i0].thread].task = id
                          /\ \A v \in Actors : ~Claims(v, slot[i0].thread)
  BY LooseTarget
<1>3. /\ slot \in [Slots -> SlotType] /\ call \in [Actors -> CallType]
      /\ slot[i0] \in SlotType
  BY DEF LooseInv, TypeOK
<1> PICK h \in Natives \cup {NoThread} : h = slot[i0].thread
  BY <1>3 DEF SlotType
<1>4. /\ call[u] = Idle /\ call[u].op = "none" /\ call[u].pc = "idle"
      /\ (u \in Natives => native[u].stage = "body")
  BY DEF CanCall, Idle
<1>5. /\ slot' \in [Slots -> SlotType] /\ slot'[i0].joined
      /\ \A i \in Slots : /\ slot'[i].in_use = slot[i].in_use
                          /\ slot'[i].id = slot[i].id
                          /\ slot'[i].thread = slot[i].thread
                          /\ i # i0 => slot'[i] = slot[i]
  BY <1>3 DEF SlotType
<1> DEFINE begun == [op |-> op, pc |-> pc, id |-> id, thread |-> h, priority |-> 0]
<1>6. begun \in CallType
  <2>1. /\ op \in {"none", "Create"} \cup Reapers /\ h \in Natives \cup {NoThread}
        /\ id \in TaskIds \cup {AOS_ID_NONE} /\ 0 \in Priorities
    BY <1>1, ZeroPriority
  <2>2. pc \in Points
    BY Zenon DEF Points
  <2> QED BY <2>1, <2>2 DEF CallType
<1>7. call' = call \/ call' = [call EXCEPT ![u] = begun]
  OBVIOUS
<1>8. /\ call' \in [Actors -> CallType]
      /\ \A v \in Actors : v # u => call'[v] = call[v]
      /\ \/ call'[u] = call[u]
         \/ call'[u].op = op /\ call'[u].pc = pc /\ call'[u].id = id /\ call'[u].thread = h
  <2>1. CASE call' = call
    BY <1>3, <2>1
  <2>2. CASE call' = [call EXCEPT ![u] = begun]
    <3>1. begun.op = op /\ begun.pc = pc /\ begun.id = id /\ begun.thread = h
      OBVIOUS
    <3> HIDE DEF begun
    <3> QED BY <1>3, <1>6, <2>2, <3>1
  <2> QED BY <1>7, <2>1, <2>2
<1> HIDE DEF begun
<1>9. /\ call'[u].op # "Create" /\ call[u].op # "Create"
      /\ \A v \in Actors : v # u => SlotOf(v)' = SlotOf(v)
      /\ call'[u].op = "Delete" => op = "Delete" /\ SlotOf(u)' = i0 /\ call'[u].id = id
  BY <1>4, <1>8 DEF SlotOf, Reapers
<1>10. \A v \in Actors : call[v].op = "Create" => SlotOf(v) \in Slots /\ SlotOf(v) # i0
  BY <1>1, EngagedTask DEF Creating
<1>11. \A i \in Slots : Creating(i)' <=> Creating(i)
  BY <1>8, <1>9 DEF Creating
<1>12. TypeOK'
  BY <1>5, <1>8 DEF LooseInv, TypeOK
<1>13. CallDiscipline'
  <2> SUFFICES ASSUME NEW v \in Actors
               PROVE  /\ call'[v].op = "none" => call'[v] = Idle
                      /\ call'[v].op = "Create" => call'[v].pc \in {"spawn", "rollback"}
                      /\ call'[v].op = "Join" => call'[v].pc = "join"
                      /\ call'[v].op = "Delete" => call'[v].pc \in {"cancel", "join", "free"}
                      /\ call'[v].op # "none" => call'[v].id \in TaskIds
                      /\ v \in Natives /\ call'[v].op # "none" => native'[v].stage = "body"
    BY DEF CallDiscipline
  <2>1. CASE call'[v] = call[v]
    BY <2>1 DEF LooseInv, CallDiscipline
  <2>2. CASE v = u /\ call'[v] # call[v]
    BY <1>1, <1>4, <1>8, <2>2 DEF Reapers
  <2> QED BY <1>8, <2>1, <2>2
<1>14. CreatorAlone'
  BY <1>5, <1>8, <1>9, <1>10 DEF LooseInv, CreatorAlone
<1>15. DeleterAlone'
  <2>1. \A v \in Actors : v # u /\ call[v].op = "Delete" =>
          SlotOf(v) \in Slots /\ slot'[SlotOf(v)].in_use /\ slot'[SlotOf(v)].joined
          /\ slot'[SlotOf(v)].id = call[v].id
    BY <1>5, EngagedTask DEF LooseInv, DeleterAlone
  <2>2. \A v \in Actors : call'[v].op = "Delete" =>
          (LET s == slot[SlotOf(v)]
           IN  s.in_use /\ s.joined /\ s.id = call[v].id)'
    BY <1>1, <1>5, <1>8, <1>9, <2>1
  <2>3. ASSUME NEW v \in Actors, NEW w \in Actors, call'[v].op = "Delete",
               call'[w].op = "Delete", SlotOf(w)' = SlotOf(v)'
        PROVE  w = v
    BY <1>1, <1>8, <1>9, <2>3 DEF LooseInv, DeleterAlone
  <2> QED BY <2>2, <2>3 DEF DeleterAlone
<1>16. /\ \A v \in Actors : \A k : v # u => (Claims(v, k)' <=> Claims(v, k))
       /\ \A k : ~Claims(u, k)
       /\ \A k : Claims(u, k)' => k = h /\ ~slot[i0].joined
  BY <1>4, <1>8 DEF Claims
<1>17. UnclaimedReapable'
  <2> SUFFICES ASSUME NEW i \in Slots, slot'[i].in_use
               PROVE  (/\ slot[i].id \in TaskIds /\ IdIndex(slot[i].id) = i
                       /\ ~slot[i].joined /\ ~Creating(i) =>
                            LET k == slot[i].thread
                            IN  /\ k \in Natives /\ Started(k) /\ native[k].task = slot[i].id
                                /\ \A v \in Actors : ~Claims(v, k))'
    BY DEF UnclaimedReapable
  <2>1. slot'[i].id \in TaskIds /\ IdIndex(slot'[i].id) = i
    BY <1>5 DEF LooseInv, UnclaimedReapable
  <2>2. ASSUME ~slot'[i].joined, ~Creating(i)'
        PROVE  (/\ slot[i].thread \in Natives /\ Started(slot[i].thread)
                /\ native[slot[i].thread].task = slot[i].id
                /\ \A v \in Actors : ~Claims(v, slot[i].thread))'
    <3>1. i # i0 /\ ~Creating(i) /\ slot'[i] = slot[i]
      BY <1>5, <1>11, <2>2
    <3>2. PICK k \in Natives : k = slot[i].thread /\ k = slot'[i].thread
      BY <2>2, <3>1 DEF LooseInv, UnclaimedReapable
    <3>3. /\ Started(k) /\ native[k].task = slot[i].id /\ IdIndex(slot[i].id) = i
          /\ \A v \in Actors : ~Claims(v, k)
      BY <2>2, <3>1, <3>2 DEF LooseInv, UnclaimedReapable
    <3>4. ~Claims(u, k)'
      BY <1>2, <1>16, <3>1, <3>3
    <3> QED BY <1>16, <3>1, <3>2, <3>3, <3>4 DEF Started
  <2> QED BY <2>1, <2>2
<1>18. ClaimAlone'
  <2> SUFFICES ASSUME NEW v \in Actors, call'[v].pc \in {"cancel", "join"}
               PROVE  (LET k == call[v].thread
                       IN  /\ k \in Natives /\ Started(k)
                           /\ \A w \in Actors : Claims(w, k) => w = v
                           /\ call[v].op = "Delete" /\ call[v].pc = "join" => native[k].cancelled)'
    BY DEF ClaimAlone
  <2>1. CASE v = u
    <3>1. /\ call'[u].thread = h /\ call'[u].op = op /\ call'[u].pc = pc
          /\ ~slot[i0].joined
      BY <1>4, <1>8, <2>1
    <3>2. /\ h \in Natives /\ Started(h) /\ \A w \in Actors : ~Claims(w, h)
      BY <1>2, <3>1
    <3>3. ~(op = "Delete" /\ pc = "join")
      OBVIOUS
    <3> QED BY <1>16, <2>1, <3>1, <3>2, <3>3 DEF Started
  <2>2. CASE v # u
    <3>1. call'[v] = call[v]
      BY <1>8, <2>2
    <3>2. PICK k \in Natives : k = call[v].thread
      BY <3>1 DEF LooseInv, ClaimAlone
    <3>3. /\ Started(k) /\ Claims(v, k) /\ \A w \in Actors : Claims(w, k) => w = v
          /\ call[v].op = "Delete" /\ call[v].pc = "join" => native[k].cancelled
      BY <3>1, <3>2 DEF LooseInv, ClaimAlone, Claims
    <3>4. ~Claims(u, k)'
      BY <1>2, <1>16, <3>3
    <3> QED BY <1>16, <3>1, <3>2, <3>3, <3>4 DEF Started
  <2> QED BY <2>1, <2>2
<1> QED BY <1>12, <1>13, <1>14, <1>15, <1>17, <1>18 DEF LooseInv, HandlesSound

LEMMA LooseDeleteLocked ==
  ASSUME LooseInv, LooseContract \subseteq Contract,
         NEW u \in Actors, NEW id, DeleteLocked(u, id)
  PROVE  LooseInv'
<1>1. /\ CanCall(u) /\ Permitted(u, "Delete", id) /\ ValidId(id)
      /\ slot' = [slot EXCEPT ![IdIndex(id)].joined = TRUE]
      /\ native' = native /\ misused' = misused
  BY DEF DeleteLocked
<1> PICK pc \in {"cancel", "join", "free"} :
      pc = IF slot[IdIndex(id)].joined THEN "free" ELSE "cancel"
  OBVIOUS
<1>2. \/ call' = call
      \/ call' = [call EXCEPT ![u] = [op |-> "Delete", pc |-> pc, id |-> id,
                                      thread |-> slot[IdIndex(id)].thread,
                                      priority |-> 0]]
  BY DEF DeleteLocked
<1>3. /\ "Delete" \in Reapers /\ ("Delete" = "Join" <=> pc = "join")
      /\ (pc = "free" => slot[IdIndex(id)].joined)
      /\ (pc # "free" => ~slot[IdIndex(id)].joined)
  BY DEF Reapers
<1> QED BY <1>1, <1>2, <1>3, LooseClaim

LEMMA LooseJoinLocked ==
  ASSUME LooseInv, LooseContract \subseteq Contract,
         NEW u \in Actors, NEW id, JoinLocked(u, id)
  PROVE  LooseInv'
<1>1. /\ CanCall(u) /\ Permitted(u, "Join", id) /\ ValidId(id)
      /\ slot' = [slot EXCEPT ![IdIndex(id)].joined = TRUE]
      /\ native' = native /\ misused' = misused
      /\ ~slot[IdIndex(id)].joined
      /\ call' = [call EXCEPT ![u] = [op |-> "Join", pc |-> "join", id |-> id,
                                      thread |-> slot[IdIndex(id)].thread,
                                      priority |-> 0]]
  BY DEF JoinLocked
<1>2. "Join" \in Reapers /\ "join" \in {"cancel", "join", "free"} /\ "join" # "free"
  BY DEF Reapers
<1> QED BY <1>1, <1>2, LooseClaim

LEMMA LooseStep ==
  ASSUME LooseInv, LooseContract \subseteq Contract, [Next]_vars
  PROVE  LooseInv'
<1>1. CASE UNCHANGED vars
  BY <1>1 DEF vars, LooseInv, TypeOK, CallDiscipline, CreatorAlone, DeleterAlone,
              UnclaimedReapable, ClaimAlone, HandlesSound, Creating, Claims,
              Started, SlotOf
<1>2. ASSUME NEW u \in Actors, Request(u) PROVE LooseInv'
  <2>1. CASE CreateLocked(u)
    BY <2>1, LooseCreateLocked
  <2>2. ASSUME NEW id \in CallIds, DeleteLocked(u, id) PROVE LooseInv'
    BY <2>2, LooseDeleteLocked
  <2>3. ASSUME NEW id \in CallIds, JoinLocked(u, id) PROVE LooseInv'
    BY <2>3, LooseJoinLocked
  <2>4. ASSUME NEW id \in CallIds, NEW priority \in Priorities,
               SetPriority(u, id, priority)
        PROVE  LooseInv'
    BY <2>4, LooseSetPriority
  <2> QED BY <1>2, <2>1, <2>2, <2>3, <2>4 DEF Request
<1>3. ASSUME NEW u \in Actors, CreateStep(u) PROVE LooseInv'
  BY <1>3, LooseSpawn, LooseSpawnFails, LooseRollback DEF CreateStep
<1>4. ASSUME NEW u \in Actors, ReapStep(u) PROVE LooseInv'
  BY <1>4, LooseCancelNative, LooseJoinNative, LooseJoinRefused, LooseFreeSlot DEF ReapStep
<1>5. ASSUME NEW n \in Natives, ThreadStep(n) \/ BodyEnds(n) \/ ActOnCancel(n)
      PROVE  LooseInv'
  BY <1>5, LooseThread, LooseActOnCancel
<1> QED BY <1>1, <1>2, <1>3, <1>4, <1>5 DEF Next

(* While callers keep three of the obligations (no task is reaped, or      *)
(* given a priority, by its id before its AOS_TaskCreate returned, none is *)
(* deleted twice at a time, and none that is claimed gets a priority),     *)
(* each slot has one creator or one deleter at most, and an unclaimed task *)
(* has a thread that can still be joined.                                  *)
THEOREM TaskLooseInvariant ==
  ASSUME LooseContract \subseteq Contract
  PROVE  Spec => []LooseInv
<1>1. LooseInv /\ [Next]_vars => LooseInv'
  BY LooseStep
<1> QED BY <1>1, LooseInit, PTL DEF Spec

(* ... and even though a task may be joined by several callers, delete     *)
(* itself, or reap others while it is deleted, no native function is given *)
(* the handle of no thread or of one that is already joined.               *)
THEOREM TaskLooseHandles ==
  ASSUME LooseContract \subseteq Contract
  PROVE  Spec => []HandlesSound
<1>1. LooseInv => HandlesSound
  BY DEF LooseInv
<1> QED BY <1>1, TaskLooseInvariant, PTL

(* Only the end of AOS_TaskDelete, or of the thread that is in it, ends    *)
(* the call: pthread_join is never refused to a delete, because its target *)
(* has been asked to end.                                                  *)
LEMMA DeleteEnds ==
  ASSUME LooseInv, [Next]_vars, NEW u \in Actors,
         call[u].op = "Delete", call'[u].op # "Delete"
  PROVE  FreeSlot(u) \/ (u \in Natives /\ ActOnCancel(u))
<1>1. /\ call \in [Actors -> CallType] /\ call[u] # Idle /\ call'[u] # call[u]
      /\ call[u].pc \in {"cancel", "join", "free"}
  BY DEF LooseInv, TypeOK, CallDiscipline, Idle
<1>2. ~JoinRefused(u)
  <2> SUFFICES ASSUME JoinRefused(u) PROVE FALSE
    OBVIOUS
  <2>1. call[u].pc = "join" /\ ~native[call[u].thread].cancelled
    BY DEF JoinRefused, At
  <2> QED BY <2>1, Claimant
<1>3. ~CancelNative(u)
  BY <1>1 DEF CancelNative, Goto, CallType
<1>4. ~JoinNative(u)
  <2> SUFFICES ASSUME JoinNative(u) PROVE FALSE
    OBVIOUS
  <2>1. call[u].pc = "join" /\ Usable(call[u].thread)
    BY Claimant DEF JoinNative, At
  <2>2. call' = [call EXCEPT ![u].pc = "free"]
    BY <2>1 DEF JoinNative, Goto
  <2> QED BY <1>1, <2>2 DEF CallType
<1>5. ASSUME NEW v \in Actors, Request(v) PROVE FALSE
  <2>1. call[v] = Idle /\ \A w \in Actors : w # v => call'[w] = call[w]
    BY <1>1, <1>5 DEF Request, CreateLocked, DeleteLocked, JoinLocked, SetPriority, CanCall
  <2> QED BY <1>1, <2>1
<1>6. ASSUME NEW v \in Actors, CreateStep(v) PROVE FALSE
  <2>1. call[v].pc \in {"spawn", "rollback"} /\ \A w \in Actors : w # v => call'[w] = call[w]
    BY <1>1, <1>6 DEF CreateStep, Spawn, SpawnFails, Rollback, At, Return, Goto
  <2> QED BY <1>1, <2>1
<1>7. ASSUME NEW v \in Actors, ReapStep(v) PROVE FreeSlot(u)
  <2>1. \A w \in Actors : w # v => call'[w] = call[w]
    BY <1>1, <1>7 DEF ReapStep, CancelNative, JoinNative, JoinRefused, FreeSlot, Return, Goto
  <2>2. v = u
    BY <1>1, <2>1
  <2> QED BY <1>2, <1>3, <1>4, <1>7, <2>2 DEF ReapStep
<1>8. ASSUME NEW n \in Natives, ThreadStep(n) \/ BodyEnds(n) PROVE FALSE
  BY <1>1, <1>8 DEF ThreadStep, StoreIdentity, EnterBody, Cleanup, BodyEnds
<1>9. ASSUME NEW n \in Natives, ActOnCancel(n) PROVE n = u
  BY <1>1, <1>9 DEF ActOnCancel, Return
<1>10. ~UNCHANGED vars
  BY <1>1 DEF vars
<1> QED BY <1>5, <1>6, <1>7, <1>8, <1>9, <1>10 DEF Next

(* ... and an AOS_TaskDelete that was not refused leaves the slot of its   *)
(* task free, unless its caller is a task that was made to end meanwhile.  *)
THEOREM TaskLooseDelete ==
  ASSUME LooseContract \subseteq Contract
  PROVE  Spec => DeleteFreesSlot
<1>1. LooseInv /\ [Next]_vars =>
        [\A u \in Actors :
           call[u].op = "Delete" /\ call'[u].op # "Delete" =>
             \/ LET s == slot'[SlotOf(u)] IN ~(s.in_use /\ s.id = call[u].id)
             \/ u \in Natives /\ native'[u].stage # "body"]_vars
  <2> SUFFICES ASSUME LooseInv, [Next]_vars, NEW u \in Actors,
                      call[u].op = "Delete", call'[u].op # "Delete"
               PROVE  \/ LET s == slot'[SlotOf(u)] IN ~(s.in_use /\ s.id = call[u].id)
                      \/ u \in Natives /\ native'[u].stage # "body"
    OBVIOUS
  <2>1. slot \in [Slots -> SlotType] /\ native \in [Natives -> NativeType]
    BY DEF LooseInv, TypeOK
  <2>2. CASE FreeSlot(u)
    <3> PICK i0 \in Slots : i0 = SlotOf(u)
      BY LooseDeleter
    <3>1. slot[i0].in_use /\ slot[i0].id = call[u].id
      BY LooseDeleter
    <3>2. slot' = [slot EXCEPT ![i0] =
                     [slot[i0] EXCEPT !.in_use = FALSE, !.joined = FALSE,
                        !.state = "UNUSED", !.entry = AOS_ID_NONE, !.name = EmptyName]]
      BY <2>2, <3>1 DEF FreeSlot
    <3>3. ~slot'[i0].in_use
      BY <2>1, <3>2 DEF SlotType
    <3> QED BY <3>3
  <2>3. CASE u \in Natives /\ ActOnCancel(u)
    <3>1. native'[u].stage = "cleanup"
      BY <2>1, <2>3 DEF ActOnCancel, NativeType
    <3> QED BY <2>3, <3>1
  <2> QED BY <2>2, <2>3, DeleteEnds
<1> QED BY <1>1, TaskLooseInvariant, PTL DEF Spec, DeleteFreesSlot
=============================================================================
