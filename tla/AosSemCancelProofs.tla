------------------------- MODULE AosSemCancelProofs -------------------------
(***************************************************************************)
(* Proofs about AosSemCancel, for any number of threads and slots and      *)
(* whichever of the threads are tasks: while no AOS_SemCreate overlaps an  *)
(* AOS_SemDelete, every reference is accounted for, although posts may     *)
(* race deletes and tasks may be ended inside their waits.                 *)
(***************************************************************************)
EXTENDS AosSemCancel, AosSemProofs

FateOK == fate \in [Tasks -> {"runs", "asked", "ended"}]

(* Points at which a call has something to say about a slot. *)
SlotPoints == CreatePoints \cup HoldPoints \cup DeletePoints

LEMMA PointFacts ==
  /\ SlotPoints = {"store_state", "publish", "deadline", "native", "clear",
                   "release", "destroy", "wipe", "undelete"}
  /\ CreatePoints = {"store_state", "publish"}
  /\ HoldPoints = {"deadline", "native", "clear", "release"}
  /\ PostPoints = {"cas", "post", "rollback"}
  /\ DeletePoints = {"destroy", "wipe", "undelete"}
  /\ Ops = {"Wait", "TryWait", "TimedWait", "Create", "Post", "Delete", "GetInfo"}
  /\ WaitOps = {"Wait", "TryWait", "TimedWait"}
BY DEF SlotPoints, CreatePoints, HoldPoints, PostPoints, DeletePoints, Ops, WaitOps

-----------------------------------------------------------------------------
(* Lemmas on the calls and the slots *)

(* Where no id stands, nobody holds a reference and none is lost.          *)
LEMMA NoneUnheld ==
  ASSUME CancelInv, NEW i \in Slots, slot[i].id = AOS_ID_NONE
  PROVE  /\ \A u \in Threads : call[u].pc \in HoldPoints => SlotOf(u) # i
         /\ Holders(i) = {} /\ lost[i] = 0 /\ slot[i].ref_count = 0
<1>1. \A u \in Threads : call[u].pc \in HoldPoints => SlotOf(u) # i
  BY EngagedSlot DEF CancelInv, SlotOccupants
<1>2. Holders(i) = {}
  BY <1>1 DEF Holders, Holds
<1>3. lost[i] = 0
  <2>1. lost[i] \in Nat /\ ~(lost[i] > 0)
    BY DEF CancelInv, SlotOccupants
  <2> QED BY <2>1
<1>4. slot[i].ref_count = Cardinality(Holders(i)) + lost[i]
  BY DEF CancelInv, RefCountAccounted, Holders
<1>5. Cardinality({}) = 0
  BY FS_EmptySet
<1> QED BY <1>1, <1>2, <1>3, <1>4, <1>5

(* A slot whose ref_count is 0 has no holder and has lost nothing.         *)
LEMMA UnreferencedFacts ==
  ASSUME CancelInv, NEW i \in Slots, slot[i].ref_count = 0
  PROVE  Holders(i) = {} /\ lost[i] = 0
<1>1. Cardinality(Holders(i)) \in Nat /\ IsFiniteSet(Holders(i)) /\ lost[i] \in Nat
  BY CountNat DEF Holders, CancelInv
<1>2. Cardinality(Holders(i)) + lost[i] = 0
  BY DEF CancelInv, RefCountAccounted, Holders
<1>3. Cardinality(Holders(i)) = 0 /\ lost[i] = 0
  BY <1>1, <1>2
<1> QED BY <1>1, <1>3, FS_EmptySet

(* The counts stay right if those of one slot do and no one moves between  *)
(* the others.                                                             *)
LEMMA AccountedAt ==
  ASSUME RefCountAccounted, NEW i0 \in Slots,
         \A i \in Slots \ {i0} :
           /\ slot'[i].ref_count = slot[i].ref_count /\ lost'[i] = lost[i]
           /\ \A u \in Threads : Holds(u, i)' <=> Holds(u, i),
         slot'[i0].ref_count = Cardinality({u \in Threads : Holds(u, i0)'}) + lost'[i0]
  PROVE  RefCountAccounted'
<1>1. ASSUME NEW i \in Slots \ {i0}
      PROVE  {u \in Threads : Holds(u, i)'} = {u \in Threads : Holds(u, i)}
  OBVIOUS
<1> QED BY <1>1 DEF RefCountAccounted

LEMMA AccountedKept ==
  ASSUME RefCountAccounted, UNCHANGED lost,
         \A i \in Slots : /\ slot'[i].ref_count = slot[i].ref_count
                          /\ \A u \in Threads : Holds(u, i)' <=> Holds(u, i)
  PROVE  RefCountAccounted'
<1>1. ASSUME NEW i \in Slots
      PROVE  {u \in Threads : Holds(u, i)'} = {u \in Threads : Holds(u, i)}
  OBVIOUS
<1> QED BY <1>1 DEF RefCountAccounted

(* A write to a field that references are not counted by.                  *)
LEMMA SideWrite ==
  ASSUME TypeOK, NEW i0 \in Slots, NEW v,
         \/ v \in {0, 1} /\ slot' = [slot EXCEPT ![i0].state = v]
         \/ v \in 0 .. SemValueMax /\ slot' = [slot EXCEPT ![i0].native = v]
         \/ v \in BOOLEAN /\ slot' = [slot EXCEPT ![i0].live = v]
  PROVE  /\ slot' \in [Slots -> SlotType]
         /\ \A i \in Slots : /\ slot'[i].id = slot[i].id
                             /\ slot'[i].in_use = slot[i].in_use
                             /\ slot'[i].ref_count = slot[i].ref_count
<1>1. slot \in [Slots -> SlotType] /\ slot[i0] \in SlotType
  BY DEF TypeOK
<1>2. CASE v \in {0, 1} /\ slot' = [slot EXCEPT ![i0].state = v]
  BY <1>1, <1>2 DEF SlotType
<1>3. CASE v \in 0 .. SemValueMax /\ slot' = [slot EXCEPT ![i0].native = v]
  BY <1>1, <1>3 DEF SlotType
<1>4. CASE v \in BOOLEAN /\ slot' = [slot EXCEPT ![i0].live = v]
  BY <1>1, <1>4 DEF SlotType
<1> QED BY <1>2, <1>3, <1>4

LEMMA ReturnKeepsCalls ==
  ASSUME CancelInv, NEW t \in Threads, Return(t)
  PROVE  /\ CallDiscipline' /\ NoCreateDuringDelete'
         /\ call' \in [Threads -> CallType]
         /\ call'[t].pc = "idle" /\ call'[t].op = "none"
         /\ \A u \in Threads : u # t => call'[u] = call[u] /\ SlotOf(u)' = SlotOf(u)
<1>1. /\ call' \in [Threads -> CallType]
      /\ call'[t].pc = "idle" /\ call'[t].op = "none"
      /\ \A u \in Threads : u # t => call'[u] = call[u] /\ SlotOf(u)' = SlotOf(u)
  BY ReturnEffect DEF CancelInv
<1>2. CallDiscipline'
  BY <1>1, PointFacts DEF CancelInv, CallDiscipline
<1>3. NoCreateDuringDelete'
  BY <1>1 DEF CancelInv, NoCreateDuringDelete
<1> QED BY <1>1, <1>2, <1>3

LEMMA GotoKeepsCalls ==
  ASSUME CancelInv, NEW t \in Threads, NEW point, Goto(t, point),
         \/ point \in HoldPoints /\ call[t].op \in WaitOps
         \/ point \in PostPoints /\ call[t].op = "Post"
         \/ point \in DeletePoints /\ call[t].op = "Delete"
         \/ point \in CreatePoints /\ call[t].op = "Create",
         call[t].id \in SemIds
  PROVE  /\ CallDiscipline' /\ NoCreateDuringDelete'
         /\ call' \in [Threads -> CallType]
         /\ \A u \in Threads : /\ call'[u].pc = IF u = t THEN point ELSE call[u].pc
                               /\ call'[u].op = call[u].op
                               /\ call'[u].id = call[u].id
                               /\ SlotOf(u)' = SlotOf(u)
<1>1. point \in Points /\ point # "idle" /\ point \notin Ops
  BY PointFacts DEF Points
<1>2. /\ call' \in [Threads -> CallType]
      /\ \A u \in Threads : /\ call'[u].pc = IF u = t THEN point ELSE call[u].pc
                            /\ call'[u].op = call[u].op
                            /\ call'[u].id = call[u].id
                            /\ SlotOf(u)' = SlotOf(u)
  BY <1>1, GotoEffect DEF CancelInv
<1>3. CallDiscipline'
  BY <1>1, <1>2, PointFacts DEF CancelInv, CallDiscipline
<1>4. NoCreateDuringDelete'
  BY <1>2 DEF CancelInv, NoCreateDuringDelete
<1> QED BY <1>2, <1>3, <1>4

-----------------------------------------------------------------------------
(* Every step keeps CancelInv *)

(* A step of t that writes no id, no reference count and no use mark, and  *)
(* leaves t in its group of points, keeps what is said about slots.        *)
LEMMA QuietCancel ==
  ASSUME CancelInv, NEW t \in Threads, UNCHANGED lost,
         \A i \in Slots : /\ slot'[i].id = slot[i].id
                          /\ slot'[i].in_use = slot[i].in_use
                          /\ slot'[i].ref_count = slot[i].ref_count,
         \A u \in Threads : u # t => call'[u] = call[u],
         call'[t].pc \in HoldPoints <=> call[t].pc \in HoldPoints,
         call'[t].pc \in CreatePoints => call[t].pc \in CreatePoints,
         call'[t].pc \in DeletePoints =>
           call[t].pc \in DeletePoints /\ call'[t].pc # "undelete",
         call'[t].pc \in SlotPoints => call'[t].id = call[t].id,
         TypeOK', FateOK', CallDiscipline', NoCreateDuringDelete'
  PROVE  CancelInv'
<1>1. \A u \in Threads : u # t => SlotOf(u)' = SlotOf(u)
  BY DEF SlotOf
<1>2. call'[t].pc \in SlotPoints => SlotOf(t)' = SlotOf(t)
  BY DEF SlotOf
<1>3. \A u \in Threads : call[u].pc \in SlotPoints => SlotOf(u) \in Slots
  BY EngagedSlot DEF CancelInv, SlotPoints
<1>4. SlotOccupants'
  <2>1. \A i \in Slots : /\ slot'[i].id # AOS_ID_NONE => slot'[i].in_use
                         /\ lost'[i] > 0 => slot'[i].id # AOS_ID_NONE
    BY DEF CancelInv, SlotOccupants
  <2>2. ASSUME NEW u \in Threads
        PROVE  /\ call'[u].pc \in HoldPoints => slot'[SlotOf(u)'].id = call'[u].id
               /\ call'[u].pc \in DeletePoints =>
                    ~slot'[SlotOf(u)'].in_use /\ call'[u].pc # "undelete"
               /\ call'[u].pc \in CreatePoints =>
                    slot'[SlotOf(u)'].in_use /\ slot'[SlotOf(u)'].id = AOS_ID_NONE
    <3>1. CASE u = t
      BY <1>2, <1>3, <3>1 DEF CancelInv, SlotOccupants, SlotPoints
    <3>2. CASE u # t
      BY <1>1, <1>3, <3>2 DEF CancelInv, SlotOccupants, SlotPoints
    <3> QED BY <3>1, <3>2
  <2>3. \A u, w \in Threads :
          call'[u].pc \in CreatePoints /\ call'[w].pc \in CreatePoints => u = w
    BY DEF CancelInv, SlotOccupants
  <2> QED BY <2>1, <2>2, <2>3 DEF SlotOccupants
<1>5. RefCountAccounted'
  <2>1. \A i \in Slots, u \in Threads : Holds(u, i)' <=> Holds(u, i)
    BY <1>1, <1>2 DEF Holds, SlotPoints
  <2> QED BY <2>1, AccountedKept DEF CancelInv
<1>6. lost' \in [Slots -> Nat]
  BY DEF CancelInv
<1> QED BY <1>4, <1>5, <1>6 DEF CancelInv, FateOK

(* ... in particular a call that returns from outside these groups, ...    *)
LEMMA QuietReturn ==
  ASSUME CancelInv, NEW t \in Threads, Return(t), UNCHANGED <<fate, lost>>,
         call[t].pc \notin HoldPoints,
         slot' \in [Slots -> SlotType],
         \A i \in Slots : /\ slot'[i].id = slot[i].id
                          /\ slot'[i].in_use = slot[i].in_use
                          /\ slot'[i].ref_count = slot[i].ref_count
  PROVE  CancelInv'
<1>1. /\ CallDiscipline' /\ NoCreateDuringDelete'
      /\ call' \in [Threads -> CallType] /\ call'[t].pc = "idle"
      /\ \A u \in Threads : u # t => call'[u] = call[u]
  BY ReturnKeepsCalls
<1>2. TypeOK' /\ FateOK'
  BY <1>1 DEF TypeOK, FateOK, CancelInv
<1> QED BY <1>1, <1>2, QuietCancel, PointFacts

(* ... and one that goes on inside its group.                              *)
LEMMA QuietGoto ==
  ASSUME CancelInv, NEW t \in Threads, NEW point, Goto(t, point),
         UNCHANGED <<fate, lost>>,
         slot' \in [Slots -> SlotType],
         \A i \in Slots : /\ slot'[i].id = slot[i].id
                          /\ slot'[i].in_use = slot[i].in_use
                          /\ slot'[i].ref_count = slot[i].ref_count,
         \/ point \in HoldPoints /\ call[t].pc \in HoldPoints
         \/ point \in PostPoints /\ call[t].pc \in PostPoints
         \/ point \in PostPoints /\ call[t].pc = "Post" /\ call[t].id \in SemIds
         \/ point = "wipe" /\ call[t].pc = "destroy"
         \/ point = "publish" /\ call[t].pc = "store_state"
  PROVE  CancelInv'
<1>1. /\ call[t].id \in SemIds
      /\ \/ point \in HoldPoints /\ call[t].op \in WaitOps
         \/ point \in PostPoints /\ call[t].op = "Post"
         \/ point \in DeletePoints /\ call[t].op = "Delete"
         \/ point \in CreatePoints /\ call[t].op = "Create"
  BY PointFacts DEF CancelInv, CallDiscipline
<1>2. /\ CallDiscipline' /\ NoCreateDuringDelete'
      /\ call' \in [Threads -> CallType]
      /\ call'[t].pc = point /\ call'[t].id = call[t].id
  BY <1>1, GotoKeepsCalls
<1>3. \A u \in Threads : u # t => call'[u] = call[u]
  BY DEF Goto, CancelInv, TypeOK
<1>4. TypeOK' /\ FateOK'
  BY <1>2 DEF TypeOK, FateOK, CancelInv
<1> QED BY <1>2, <1>3, <1>4, QuietCancel, PointFacts

LEMMA IdleFacts == Idle.pc = "idle" /\ Idle.op = "none"
BY DEF Idle

LEMMA BeginDiscipline ==
  ASSUME CallDiscipline, NEW t \in Threads, NEW op \in Ops,
         call'[t].op = op, call'[t].pc = op,
         \A u \in Threads : u # t => call'[u] = call[u]
  PROVE  CallDiscipline'
<1>1. /\ op # "idle" /\ op \notin CreatePoints /\ op \notin HoldPoints
      /\ op \notin PostPoints /\ op \notin DeletePoints
  BY DEF Ops, WaitOps, CreatePoints, HoldPoints, PostPoints, DeletePoints
<1> QED BY <1>1 DEF CallDiscipline

LEMMA BeginKeeps ==
  ASSUME CancelInv, "no create during delete" \in Contract, NEW t \in Threads,
         NEW op \in Ops, NEW id \in CallIds \cup {AOS_ID_NONE},
         call[t] = Idle, Permitted(op, id),
         call' = [call EXCEPT ![t] = [op |-> op, pc |-> op, id |-> id, value |-> 0]],
         UNCHANGED <<slot, fate, lost>>
  PROVE  CancelInv'
<1>1. call[t].pc = "idle"
  BY IdleFacts
<1>2. /\ call'[t].op = op /\ call'[t].pc = op /\ call'[t].id = id
      /\ \A u \in Threads : u # t => call'[u] = call[u]
  BY DEF CancelInv, TypeOK
<1>3. TypeOK' /\ FateOK'
  BY DEF CancelInv, TypeOK, CallType, Points, FateOK
<1>4. CallDiscipline'
  BY Zenon, <1>2, BeginDiscipline DEF CancelInv
<1>5. NoCreateDuringDelete'
  <2>1. \A u \in Threads : /\ ~(op = "Create" /\ call[u].op = "Delete")
                           /\ ~(op = "Delete" /\ call[u].op = "Create")
    BY DEF Permitted
  <2> QED BY <1>2, <2>1 DEF CancelInv, NoCreateDuringDelete
<1>6. op \notin SlotPoints
  BY PointFacts
<1> QED
  BY <1>1, <1>2, <1>3, <1>4, <1>5, <1>6, QuietCancel, PointFacts
     DEF SlotPoints

(* The steps of waiting that move neither a reference nor an id. *)
LEMMA HoldKeeps ==
  ASSUME CancelInv, NEW t \in Threads, UNCHANGED <<fate, lost>>,
         TakeDeadline(t) \/ NativeTake(t) \/ NativeGiveUp(t) \/ ClearState(t)
  PROVE  CancelInv'
<1>1. slot \in [Slots -> SlotType]
  BY DEF CancelInv, TypeOK
<1>2. CASE TakeDeadline(t)
  <2>1. PICK point \in {"native", "release"} : Goto(t, point)
    BY <1>2 DEF TakeDeadline
  <2>2. call[t].pc = "deadline" /\ UNCHANGED slot
    BY <1>2 DEF TakeDeadline, At
  <2> QED BY <1>1, <2>1, <2>2, QuietGoto, PointFacts
<1>3. CASE NativeGiveUp(t)
  <2>1. call[t].pc = "native" /\ UNCHANGED slot /\ Goto(t, "release")
    BY <1>3 DEF NativeGiveUp, At
  <2> QED BY <1>1, <2>1, QuietGoto, PointFacts
<1>4. CASE NativeTake(t)
  <2>1. call[t].pc = "native" /\ Goto(t, "clear") /\ slot[SlotOf(t)].native > 0
    BY <1>4 DEF NativeTake, At
  <2>2. PICK i0 \in Slots : i0 = SlotOf(t)
    BY <2>1, EngagedSlot, PointFacts DEF CancelInv
  <2>3. slot[i0].native \in 0 .. SemValueMax
    BY SlotNumbers DEF CancelInv
  <2>4. slot[i0].native - 1 \in 0 .. SemValueMax
    BY <2>1, <2>2, <2>3, LimitFacts
  <2>5. slot' = [slot EXCEPT ![i0].native = slot[i0].native - 1]
    BY <1>4, <2>2 DEF NativeTake
  <2>6. /\ slot' \in [Slots -> SlotType]
        /\ \A i \in Slots : /\ slot'[i].id = slot[i].id
                            /\ slot'[i].in_use = slot[i].in_use
                            /\ slot'[i].ref_count = slot[i].ref_count
    BY <2>4, <2>5, SideWrite DEF CancelInv
  <2> QED BY <2>1, <2>6, QuietGoto, PointFacts
<1>5. CASE ClearState(t)
  <2>1. call[t].pc = "clear" /\ Goto(t, "release")
    BY <1>5 DEF ClearState, At
  <2>2. PICK i0 \in Slots : i0 = SlotOf(t)
    BY <2>1, EngagedSlot, PointFacts DEF CancelInv
  <2>3. slot' = [slot EXCEPT ![i0].state = 0]
    BY <1>5, <2>2 DEF ClearState
  <2>4. /\ slot' \in [Slots -> SlotType]
        /\ \A i \in Slots : /\ slot'[i].id = slot[i].id
                            /\ slot'[i].in_use = slot[i].in_use
                            /\ slot'[i].ref_count = slot[i].ref_count
    BY <2>3, SideWrite DEF CancelInv
  <2> QED BY <2>1, <2>4, QuietGoto, PointFacts
<1> QED BY <1>2, <1>3, <1>4, <1>5

(* A post touches the state flag and the native count, whoever deletes the *)
(* semaphore meanwhile.                                                    *)
LEMMA PostKeeps ==
  ASSUME CancelInv, NEW t \in Threads, UNCHANGED <<fate, lost>>,
         \/ PostCheckId(t) \/ PostCas(t) \/ PostNative(t)
         \/ PostNativeFails(t) \/ PostRollback(t)
  PROVE  CancelInv'
<1>1. slot \in [Slots -> SlotType]
  BY DEF CancelInv, TypeOK
<1>2. CASE PostCheckId(t)
  <2>1. call[t].pc = "Post" /\ UNCHANGED slot
    BY <1>2 DEF PostCheckId, At
  <2>2. CASE Return(t)
    BY <1>1, <2>1, <2>2, QuietReturn, PointFacts
  <2>3. CASE /\ IdType(call[t].id) = AOS_TYPE_BINSEM
             /\ IdIndex(call[t].id) \in Slots
             /\ slot[IdIndex(call[t].id)].id = call[t].id
             /\ Goto(t, "cas")
    <3>1. slot[IdIndex(call[t].id)].id \in SemIds \cup {AOS_ID_NONE}
      BY <1>1, <2>3 DEF SlotType
    <3>2. IdType(AOS_ID_NONE) # AOS_TYPE_BINSEM
      BY SMT DEF IdType, AOS_ID_NONE, AOS_TYPE_BINSEM
    <3>3. call[t].id \in SemIds
      BY <2>3, <3>1, <3>2
    <3> QED BY <1>1, <2>1, <2>3, <3>3, QuietGoto, PointFacts
  <2> QED BY <1>2, <2>2, <2>3 DEF PostCheckId
<1>3. ASSUME NEW v, call[t].pc \in PostPoints,
             \/ v \in {0, 1} /\ slot' = [slot EXCEPT ![SlotOf(t)].state = v]
             \/ v \in 0 .. SemValueMax /\ slot' = [slot EXCEPT ![SlotOf(t)].native = v],
             Return(t) \/ Goto(t, "post")
      PROVE  CancelInv'
  <2>1. PICK i0 \in Slots : i0 = SlotOf(t)
    BY <1>3, EngagedSlot DEF CancelInv
  <2>2. /\ slot' \in [Slots -> SlotType]
        /\ \A i \in Slots : /\ slot'[i].id = slot[i].id
                            /\ slot'[i].in_use = slot[i].in_use
                            /\ slot'[i].ref_count = slot[i].ref_count
    BY <1>3, <2>1, SideWrite DEF CancelInv
  <2>3. call[t].pc \notin HoldPoints
    BY <1>3, PointFacts
  <2>4. CASE Return(t)
    BY <2>2, <2>3, <2>4, QuietReturn
  <2>5. CASE Goto(t, "post")
    BY <1>3, <2>2, <2>5, QuietGoto, PointFacts
  <2> QED BY <1>3, <2>4, <2>5
<1>4. CASE PostCas(t)
  <2>1. call[t].pc = "cas" /\ call[t].pc \in PostPoints /\ call[t].pc \notin HoldPoints
    BY <1>4, PointFacts DEF PostCas, At
  <2>2. CASE slot' = [slot EXCEPT ![SlotOf(t)].state = 1] /\ Goto(t, "post")
    BY <1>3, <2>1, <2>2
  <2>3. CASE Return(t) /\ UNCHANGED slot
    BY <1>1, <2>1, <2>3, QuietReturn
  <2> QED BY <1>4, <2>2, <2>3 DEF PostCas
<1>5. CASE PostNative(t)
  <2>1. /\ call[t].pc = "post" /\ call[t].pc \in PostPoints /\ Return(t)
        /\ slot[SlotOf(t)].native < SemValueMax
    BY <1>5, PointFacts DEF PostNative, At
  <2>2. PICK i0 \in Slots : i0 = SlotOf(t)
    BY <2>1, EngagedSlot DEF CancelInv
  <2>3. slot[i0].native \in 0 .. SemValueMax
    BY SlotNumbers DEF CancelInv
  <2>4. slot[i0].native + 1 \in 0 .. SemValueMax
    BY <2>1, <2>2, <2>3, LimitFacts
  <2>5. slot' = [slot EXCEPT ![SlotOf(t)].native = slot[i0].native + 1]
    BY <1>5, <2>2 DEF PostNative
  <2> QED BY <1>3, <2>1, <2>4, <2>5
<1>6. CASE PostNativeFails(t)
  <2>1. call[t].pc = "post" /\ UNCHANGED slot /\ Goto(t, "rollback")
    BY <1>6 DEF PostNativeFails, At
  <2> QED BY <1>1, <2>1, QuietGoto, PointFacts
<1>7. CASE PostRollback(t)
  <2>1. /\ call[t].pc \in PostPoints /\ Return(t)
        /\ slot' = [slot EXCEPT ![SlotOf(t)].state = 0]
    BY <1>7, PointFacts DEF PostRollback, At
  <2> QED BY <1>3, <2>1
<1> QED BY <1>2, <1>4, <1>5, <1>6, <1>7

(* The steps that count: a reference is taken, given back, or lost.        *)
LEMMA AcquireKeeps ==
  ASSUME CancelInv, NEW t \in Threads, AcquireReference(t), UNCHANGED <<fate, lost>>
  PROVE  CancelInv'
<1>1. /\ call[t].pc \in WaitOps /\ call[t].op \in WaitOps
      /\ call[t].pc \notin HoldPoints
  BY PointFacts DEF CancelInv, AcquireReference, CallDiscipline
<1>2. CASE Return(t) /\ UNCHANGED slot
  <2>1. slot \in [Slots -> SlotType]
    BY DEF CancelInv, TypeOK
  <2> QED BY <1>1, <1>2, <2>1, QuietReturn
<1>3. CASE /\ ValidId(call[t].id)
           /\ slot' = [slot EXCEPT ![SlotOf(t)].ref_count = @ + 1]
           /\ \E point \in {"deadline", "native"} : Goto(t, point)
  <2>1. PICK point \in {"deadline", "native"} : Goto(t, point)
    BY <1>3
  <2>2. /\ SlotOf(t) \in Slots /\ slot[SlotOf(t)].in_use
        /\ slot[SlotOf(t)].id = call[t].id /\ call[t].id \in SemIds
    <3>1. IdType(AOS_ID_NONE) # AOS_TYPE_BINSEM
      BY SMT DEF IdType, AOS_ID_NONE, AOS_TYPE_BINSEM
    <3> QED BY <1>3, <3>1 DEF ValidId, SlotOf, CancelInv, TypeOK, SlotType
  <2>slot. PICK i0 \in Slots : i0 = SlotOf(t)
    BY <2>2
  <2>3. /\ CallDiscipline' /\ NoCreateDuringDelete'
        /\ call' \in [Threads -> CallType]
        /\ \A u \in Threads : /\ call'[u].pc = IF u = t THEN point ELSE call[u].pc
                              /\ call'[u].id = call[u].id
                              /\ SlotOf(u)' = SlotOf(u)
    BY <1>1, <2>1, <2>2, GotoKeepsCalls, PointFacts
  <2>4. \A i \in Slots :
          /\ slot'[i].ref_count = IF i = i0 THEN slot[i].ref_count + 1
                                            ELSE slot[i].ref_count
          /\ slot'[i].id = slot[i].id /\ slot'[i].in_use = slot[i].in_use
    BY <1>3, <2>slot DEF CancelInv, TypeOK, SlotType
  <2>5. TypeOK' /\ FateOK'
    <3>1. slot[i0] \in SlotType /\ slot \in [Slots -> SlotType]
      BY DEF CancelInv, TypeOK
    <3>2. slot' \in [Slots -> SlotType]
      BY <1>3, <2>slot, <3>1 DEF SlotType
    <3> QED BY <2>3, <3>2 DEF TypeOK, FateOK, CancelInv
  <2>6. SlotOccupants'
    BY <1>1, <2>1, <2>2, <2>3, <2>4, EngagedSlot, PointFacts
       DEF CancelInv, SlotOccupants
  <2>7. RefCountAccounted'
    <3>1. t \notin Holders(i0)
      BY <1>1 DEF Holders, Holds
    <3>2. {u \in Threads : Holds(u, i0)'} = Holders(i0) \cup {t}
      BY <2>slot, <2>1, <2>3, PointFacts DEF Holders, Holds
    <3>3. /\ Cardinality(Holders(i0) \cup {t}) = Cardinality(Holders(i0)) + 1
          /\ Cardinality(Holders(i0)) \in Nat /\ lost[i0] \in Nat
      BY <3>1, CountIn, CountNat DEF Holders, CancelInv
    <3>4. slot[i0].ref_count = Cardinality(Holders(i0)) + lost[i0]
      BY DEF CancelInv, RefCountAccounted, Holders
    <3>n. /\ Cardinality({u \in Threads : Holds(u, i0)'}) = Cardinality(Holders(i0)) + 1
          /\ lost'[i0] = lost[i0]
          /\ slot'[i0].ref_count = slot[i0].ref_count + 1
      BY <2>4, <3>2, <3>3
    <3>5. slot'[i0].ref_count = Cardinality({u \in Threads : Holds(u, i0)'}) + lost'[i0]
      BY <3>n, <3>3, <3>4
    <3>6. \A i \in Slots \ {i0}, u \in Threads : Holds(u, i)' <=> Holds(u, i)
      BY <1>1, <2>slot, <2>3 DEF Holds
    <3> QED BY <2>4, <3>5, <3>6, AccountedAt DEF CancelInv
  <2>8. lost' \in [Slots -> Nat]
    BY DEF CancelInv
  <2> QED BY <2>3, <2>5, <2>6, <2>7, <2>8 DEF CancelInv, FateOK
<1> QED BY <1>2, <1>3 DEF AcquireReference

(* A holder t leaves the slot i0: what the step says of ref_count and lost *)
(* decides whether the reference was given back or lost.                   *)
LEMMA HolderLeaves ==
  ASSUME CancelInv, NEW t \in Threads, NEW i0 \in Slots, Holds(t, i0), Return(t),
         slot' \in [Slots -> SlotType], lost' \in [Slots -> Nat], FateOK',
         \A i \in Slots : slot'[i].id = slot[i].id /\ slot'[i].in_use = slot[i].in_use,
         \A i \in Slots \ {i0} :
           slot'[i].ref_count = slot[i].ref_count /\ lost'[i] = lost[i],
         slot'[i0].ref_count - lost'[i0] = (slot[i0].ref_count - lost[i0]) - 1
  PROVE  CancelInv'
<1>1. /\ CallDiscipline' /\ NoCreateDuringDelete'
      /\ call' \in [Threads -> CallType] /\ call'[t].pc = "idle"
      /\ \A u \in Threads : u # t => call'[u] = call[u] /\ SlotOf(u)' = SlotOf(u)
  BY ReturnKeepsCalls
<1>2. slot[i0].id # AOS_ID_NONE
  BY EngagedSlot DEF CancelInv, SlotOccupants, Holds
<1>3. SlotOccupants'
  <2>1. \A i \in Slots : /\ slot'[i].id # AOS_ID_NONE => slot'[i].in_use
                         /\ lost'[i] > 0 => slot'[i].id # AOS_ID_NONE
    BY <1>2 DEF CancelInv, SlotOccupants
  <2>2. ASSUME NEW u \in Threads
        PROVE  /\ call'[u].pc \in HoldPoints => slot'[SlotOf(u)'].id = call'[u].id
               /\ call'[u].pc \in DeletePoints =>
                    ~slot'[SlotOf(u)'].in_use /\ call'[u].pc # "undelete"
               /\ call'[u].pc \in CreatePoints =>
                    slot'[SlotOf(u)'].in_use /\ slot'[SlotOf(u)'].id = AOS_ID_NONE
    <3>1. CASE u = t
      BY <1>1, <3>1, PointFacts
    <3>2. CASE u # t
      BY <1>1, <3>2, EngagedSlot DEF CancelInv, SlotOccupants
    <3> QED BY <3>1, <3>2
  <2>3. \A u, w \in Threads :
          call'[u].pc \in CreatePoints /\ call'[w].pc \in CreatePoints => u = w
    BY <1>1, PointFacts DEF CancelInv, SlotOccupants
  <2> QED BY <2>1, <2>2, <2>3 DEF SlotOccupants
<1>4. RefCountAccounted'
  <2>1. {u \in Threads : Holds(u, i0)'} = Holders(i0) \ {t}
    BY <1>1, PointFacts DEF Holders, Holds
  <2>2. /\ t \in Holders(i0)
        /\ Cardinality(Holders(i0) \ {t}) = Cardinality(Holders(i0)) - 1
        /\ Cardinality(Holders(i0)) \in Nat
    BY CountOut, CountNat DEF Holders
  <2>3. slot[i0].ref_count = Cardinality(Holders(i0)) + lost[i0]
    BY DEF CancelInv, RefCountAccounted, Holders
  <2>4. lost[i0] \in Nat /\ lost'[i0] \in Nat /\ slot'[i0].ref_count \in Nat
    BY DEF CancelInv, SlotType
  <2>5. slot'[i0].ref_count = Cardinality({u \in Threads : Holds(u, i0)'}) + lost'[i0]
    <3>1. Cardinality({u \in Threads : Holds(u, i0)'}) = Cardinality(Holders(i0)) - 1
      BY <2>1, <2>2
    <3> QED BY <2>2, <2>3, <2>4, <3>1
  <2>6. \A i \in Slots \ {i0}, u \in Threads : Holds(u, i)' <=> Holds(u, i)
    BY <1>1, PointFacts DEF Holds
  <2> QED BY <2>5, <2>6, AccountedAt DEF CancelInv
<1> QED BY <1>1, <1>3, <1>4 DEF CancelInv, TypeOK, FateOK

LEMMA ReleaseKeeps ==
  ASSUME CancelInv, NEW t \in Threads, ReleaseReference(t), UNCHANGED <<fate, lost>>
  PROVE  CancelInv'
<1>1. call[t].pc = "release" /\ Return(t)
  BY DEF ReleaseReference, At
<1>2. PICK i0 \in Slots : i0 = SlotOf(t)
  BY <1>1, EngagedSlot, PointFacts DEF CancelInv
<1>3. Holds(t, i0)
  BY <1>1, <1>2, PointFacts DEF Holds
<1>4. slot[i0].ref_count > 0 /\ slot[i0].ref_count \in Nat /\ lost[i0] \in Nat
  <2>1. /\ t \in Holders(i0)
        /\ Cardinality(Holders(i0)) >= 1 /\ Cardinality(Holders(i0)) \in Nat
    BY <1>3, CountOut, CountNat DEF Holders
  <2>2. slot[i0].ref_count = Cardinality(Holders(i0)) + lost[i0] /\ lost[i0] \in Nat
    BY DEF CancelInv, RefCountAccounted, Holders
  <2> QED BY <2>1, <2>2
<1>5. slot \in [Slots -> SlotType] /\ slot[i0] \in SlotType
  BY DEF CancelInv, TypeOK
<1>6. slot' = [slot EXCEPT ![i0].ref_count = slot[i0].ref_count - 1]
  BY <1>2, <1>4, <1>5 DEF ReleaseReference, SlotType
<1>7. /\ slot' \in [Slots -> SlotType]
      /\ slot'[i0].ref_count = slot[i0].ref_count - 1
      /\ \A i \in Slots \ {i0} : slot'[i] = slot[i]
      /\ \A i \in Slots : slot'[i].id = slot[i].id /\ slot'[i].in_use = slot[i].in_use
  BY <1>4, <1>5, <1>6 DEF SlotType
<1>8. FateOK' /\ lost' \in [Slots -> Nat]
  BY DEF CancelInv, FateOK
<1> QED BY <1>1, <1>3, <1>4, <1>7, <1>8, HolderLeaves

LEMMA EndInWaitKeeps ==
  ASSUME CancelInv, NEW t \in Tasks, t \in Threads, EndInWait(t)
  PROVE  CancelInv'
<1>1. call[t].pc = "native" /\ Return(t) /\ UNCHANGED slot
  BY DEF EndInWait, At
<1>2. PICK i0 \in Slots : i0 = SlotOf(t)
  BY <1>1, EngagedSlot, PointFacts DEF CancelInv
<1>3. Holds(t, i0)
  BY <1>1, <1>2, PointFacts DEF Holds
<1>4. lost \in [Slots -> Nat] /\ lost[i0] \in Nat /\ lost' = [lost EXCEPT ![i0] = @ + 1]
  BY <1>2 DEF EndInWait, CancelInv
<1>5. /\ lost' \in [Slots -> Nat] /\ lost'[i0] = lost[i0] + 1
      /\ \A i \in Slots \ {i0} : lost'[i] = lost[i]
  BY <1>4
<1>6. FateOK'
  BY DEF EndInWait, CancelInv, FateOK
<1>7. slot \in [Slots -> SlotType] /\ slot[i0].ref_count \in Nat
  BY DEF CancelInv, TypeOK, SlotType
<1> QED BY <1>1, <1>3, <1>4, <1>5, <1>6, <1>7, HolderLeaves

(* The steps that change who occupies a slot: nobody holds a reference on  *)
(* the slot, and none was lost there.                                      *)
LEMMA CreateLockedKeeps ==
  ASSUME CancelInv, NEW t \in Threads, CreateLocked(t), UNCHANGED <<fate, lost>>
  PROVE  CancelInv'
<1> DEFINE serial(i) == NextSerial(slot[i].serial)
           id(i)     == IdPack(AOS_TYPE_BINSEM, serial(i), i)
<1>1. /\ call[t].pc = "Create" /\ call[t].op = "Create"
      /\ \A u \in Threads : call[u].pc \notin CreatePoints
  BY PointFacts DEF CreateLocked, At, TableUnlocked, CancelInv, CallDiscipline
<1>2. PICK i0 \in Slots, name \in Names, value \in {0, 1} :
        /\ IsFirstFree(i0)
        /\ slot' = [slot EXCEPT ![i0] =
             [id |-> slot[i0].id, state |-> slot[i0].state,
              native |-> value, live |-> TRUE, ref_count |-> 0,
              serial |-> serial(i0), in_use |-> TRUE, name |-> name]]
        /\ call' = [call EXCEPT ![t] =
             [op |-> "Create", pc |-> "store_state", value |-> value,
              id |-> id(i0)]]
  BY DEF CreateLocked
<1>3. slot \in [Slots -> SlotType] /\ slot[i0] \in SlotType
      /\ call \in [Threads -> CallType]
  BY DEF CancelInv, TypeOK
<1>4. serial(i0) \in 1 .. SerialMod - 1
  BY <1>3, NextSerialFresh DEF SlotType
<1>5. PICK newid \in SemIds : newid = id(i0) /\ newid # AOS_ID_NONE /\ IdIndex(newid) = i0
  BY <1>4, SemIdFacts
<1>6. /\ ~slot[i0].in_use /\ slot[i0].id = AOS_ID_NONE
  BY <1>2 DEF IsFirstFree, FreeSlots, CancelInv, SlotOccupants
<1>7. /\ call'[t].op = "Create" /\ call'[t].pc = "store_state" /\ call'[t].id = newid
      /\ \A u \in Threads : u # t => call'[u] = call[u]
  BY <1>2, <1>3, <1>5
<1>8. SlotOf(t)' = i0 /\ \A u \in Threads : u # t => SlotOf(u)' = SlotOf(u)
  BY <1>5, <1>7 DEF SlotOf
<1>9. /\ slot'[i0].id = AOS_ID_NONE /\ slot'[i0].in_use /\ slot'[i0].ref_count = 0
      /\ \A i \in Slots \ {i0} : slot'[i] = slot[i]
  BY <1>2, <1>3, <1>6
<1>10. TypeOK' /\ FateOK'
  <2>1. call' \in [Threads -> CallType]
    BY SMTT(30), <1>2, <1>3, <1>5 DEF CallType, Ops, Points, CreatePoints
  <2>2. value \in 0 .. SemValueMax /\ serial(i0) \in 0 .. SerialMod - 1
    BY <1>4, LimitFacts, SerialModAssumption
  <2> HIDE DEF serial
  <2>3. slot' \in [Slots -> SlotType]
    BY <1>2, <1>3, <2>2 DEF SlotType
  <2> QED BY <2>1, <2>3 DEF TypeOK, FateOK, CancelInv
<1>11. CallDiscipline'
  BY <1>7, PointFacts DEF CancelInv, CallDiscipline
<1>12. \A u \in Threads : call[u].op # "Delete" /\ call[u].pc \notin DeletePoints
  BY <1>1 DEF CancelInv, NoCreateDuringDelete, CallDiscipline
<1>13. NoCreateDuringDelete'
  BY <1>7, <1>12 DEF NoCreateDuringDelete, CancelInv
<1>14. SlotOccupants'
  <2>1. \A i \in Slots : /\ slot'[i].id # AOS_ID_NONE => slot'[i].in_use
                         /\ lost'[i] > 0 => slot'[i].id # AOS_ID_NONE
    BY <1>6, <1>9 DEF CancelInv, SlotOccupants
  <2>2. ASSUME NEW u \in Threads, u # t
        PROVE  /\ call'[u].pc \in HoldPoints => slot'[SlotOf(u)'].id = call'[u].id
               /\ call'[u].pc \notin CreatePoints \cup DeletePoints
    <3>1. call[u].pc \in HoldPoints =>
            SlotOf(u) \in Slots \ {i0} /\ slot[SlotOf(u)].id = call[u].id
      BY <1>6, NoneUnheld, EngagedSlot DEF CancelInv, SlotOccupants
    <3> QED BY <1>1, <1>7, <1>8, <1>9, <1>12, <2>2, <3>1
  <2> QED BY <1>7, <1>8, <1>9, <2>1, <2>2, PointFacts DEF SlotOccupants
<1>15. RefCountAccounted'
  <2>1. \A i \in Slots, u \in Threads : Holds(u, i)' <=> Holds(u, i)
    BY <1>1, <1>7, <1>8, PointFacts DEF Holds
  <2>2. \A i \in Slots : slot'[i].ref_count = slot[i].ref_count
    BY <1>6, <1>9, NoneUnheld
  <2> QED BY <2>1, <2>2, AccountedKept DEF CancelInv
<1>16. lost' \in [Slots -> Nat]
  BY DEF CancelInv
<1> QED BY <1>10, <1>11, <1>13, <1>14, <1>15, <1>16 DEF CancelInv, FateOK

LEMMA StoreStateKeeps ==
  ASSUME CancelInv, NEW t \in Threads, StoreState(t), UNCHANGED <<fate, lost>>
  PROVE  CancelInv'
<1>1. call[t].pc = "store_state" /\ Goto(t, "publish")
  BY DEF StoreState, At
<1>2. PICK i0 \in Slots : i0 = SlotOf(t)
  BY <1>1, EngagedSlot, PointFacts DEF CancelInv
<1>3. call[t].value \in {0, 1}
  BY DEF CancelInv, TypeOK, CallType
<1>4. slot' = [slot EXCEPT ![i0].state = call[t].value]
  BY <1>2 DEF StoreState
<1>5. /\ slot' \in [Slots -> SlotType]
      /\ \A i \in Slots : /\ slot'[i].id = slot[i].id
                          /\ slot'[i].in_use = slot[i].in_use
                          /\ slot'[i].ref_count = slot[i].ref_count
  BY <1>3, <1>4, SideWrite DEF CancelInv
<1> QED BY <1>1, <1>5, QuietGoto

LEMMA PublishIdKeeps ==
  ASSUME CancelInv, NEW t \in Threads, PublishId(t), UNCHANGED <<fate, lost>>
  PROVE  CancelInv'
<1>1. call[t].pc = "publish" /\ Return(t)
  BY DEF PublishId, At
<1>2. call[t].id \in SemIds /\ SlotOf(t) \in Slots
  BY <1>1, EngagedSlot, PointFacts DEF CancelInv
<1>slot. PICK i0 \in Slots : i0 = SlotOf(t)
  BY <1>2
<1>3. /\ CallDiscipline' /\ NoCreateDuringDelete'
      /\ call' \in [Threads -> CallType] /\ call'[t].pc = "idle"
      /\ \A u \in Threads : u # t => call'[u] = call[u] /\ SlotOf(u)' = SlotOf(u)
  BY <1>1, ReturnKeepsCalls
<1>4. /\ slot[i0].id = AOS_ID_NONE /\ slot[i0].in_use
      /\ \A u \in Threads : call[u].pc \in CreatePoints => u = t
  BY <1>1, <1>slot, PointFacts DEF CancelInv, SlotOccupants
<1>5. slot \in [Slots -> SlotType] /\ slot[i0] \in SlotType
  BY DEF CancelInv, TypeOK
<1>6. /\ slot' \in [Slots -> SlotType]
      /\ \A i \in Slots :
           /\ slot'[i].id = IF i = i0 THEN call[t].id ELSE slot[i].id
           /\ slot'[i].in_use = slot[i].in_use
           /\ slot'[i].ref_count = slot[i].ref_count
  BY <1>2, <1>slot, <1>5 DEF PublishId, SlotType
<1>7. SlotOccupants'
  <2>1. \A i \in Slots : /\ slot'[i].id # AOS_ID_NONE => slot'[i].in_use
                         /\ lost'[i] > 0 => slot'[i].id # AOS_ID_NONE
    BY <1>2, <1>4, <1>6, SemIdFacts DEF CancelInv, SlotOccupants
  <2>2. ASSUME NEW u \in Threads, u # t
        PROVE  /\ call'[u].pc \in HoldPoints => slot'[SlotOf(u)'].id = call'[u].id
               /\ call'[u].pc \in DeletePoints =>
                    ~slot'[SlotOf(u)'].in_use /\ call'[u].pc # "undelete"
               /\ call'[u].pc \notin CreatePoints
    <3>1. call[u].pc \in HoldPoints =>
            SlotOf(u) \in Slots \ {i0} /\ slot[SlotOf(u)].id = call[u].id
      BY <1>4, NoneUnheld, EngagedSlot DEF CancelInv, SlotOccupants
    <3>2. call[u].pc \in DeletePoints =>
            SlotOf(u) \in Slots /\ ~slot[SlotOf(u)].in_use /\ call[u].pc # "undelete"
      BY EngagedSlot DEF CancelInv, SlotOccupants
    <3> QED BY <1>3, <1>4, <1>6, <2>2, <3>1, <3>2
  <2> QED BY <1>3, <2>1, <2>2, PointFacts DEF SlotOccupants
<1>8. RefCountAccounted'
  <2>1. \A i \in Slots, u \in Threads : Holds(u, i)' <=> Holds(u, i)
    BY <1>1, <1>3, PointFacts DEF Holds
  <2> QED BY <1>6, <2>1, AccountedKept DEF CancelInv
<1>9. lost' \in [Slots -> Nat] /\ FateOK'
  BY DEF CancelInv, FateOK
<1> QED BY <1>3, <1>6, <1>7, <1>8, <1>9 DEF CancelInv, TypeOK, FateOK

(* A semaphore that passes the check of AOS_SemDelete has no holder and    *)
(* has lost no reference; a post may still be under way.                   *)
LEMMA DeleteLockedKeeps ==
  ASSUME CancelInv, NEW t \in Threads, DeleteLocked(t), UNCHANGED <<fate, lost>>
  PROVE  CancelInv'
<1>1. call[t].pc = "Delete" /\ call[t].op = "Delete" /\ call[t].pc \notin HoldPoints
  BY PointFacts DEF DeleteLocked, At, CancelInv, CallDiscipline
<1>2. slot \in [Slots -> SlotType]
  BY DEF CancelInv, TypeOK
<1>3. CASE Return(t) /\ UNCHANGED slot
  BY <1>1, <1>2, <1>3, QuietReturn
<1>4. CASE /\ ValidId(call[t].id) /\ slot[SlotOf(t)].ref_count = 0
           /\ slot' = [slot EXCEPT ![SlotOf(t)].id = AOS_ID_NONE,
                                   ![SlotOf(t)].in_use = FALSE]
           /\ Goto(t, "destroy")
  <2>1. /\ SlotOf(t) \in Slots /\ slot[SlotOf(t)].id = call[t].id
        /\ call[t].id \in SemIds
    <3>1. IdType(AOS_ID_NONE) # AOS_TYPE_BINSEM
      BY SMT DEF IdType, AOS_ID_NONE, AOS_TYPE_BINSEM
    <3> QED BY <1>2, <1>4, <3>1 DEF ValidId, SlotOf, SlotType
  <2>slot. PICK i0 \in Slots : i0 = SlotOf(t)
    BY <2>1
  <2>2. Holders(i0) = {} /\ lost[i0] = 0
    BY <1>4, <2>slot, UnreferencedFacts
  <2>3. /\ CallDiscipline' /\ NoCreateDuringDelete'
        /\ call' \in [Threads -> CallType]
        /\ \A u \in Threads : /\ call'[u].pc = IF u = t THEN "destroy" ELSE call[u].pc
                              /\ call'[u].id = call[u].id
                              /\ SlotOf(u)' = SlotOf(u)
    BY <1>1, <1>4, <2>1, GotoKeepsCalls, PointFacts
  <2>4. /\ slot' \in [Slots -> SlotType]
        /\ slot'[i0].id = AOS_ID_NONE /\ ~slot'[i0].in_use
        /\ \A i \in Slots \ {i0} : slot'[i] = slot[i]
        /\ \A i \in Slots : slot'[i].ref_count = slot[i].ref_count
    <3> DEFINE deleted == [slot[i0] EXCEPT !.id = AOS_ID_NONE, !.in_use = FALSE]
    <3>1. /\ deleted \in SlotType /\ deleted.id = AOS_ID_NONE /\ ~deleted.in_use
          /\ deleted.ref_count = slot[i0].ref_count
      BY <1>2 DEF SlotType
    <3>2. slot' = [slot EXCEPT ![i0] = deleted]
      BY <1>2, <1>4, <2>slot DEF SlotType
    <3> HIDE DEF deleted
    <3> QED BY <1>2, <3>1, <3>2
  <2>5. \A u \in Threads : call[u].op # "Create" /\ call[u].pc \notin CreatePoints
    BY <1>1 DEF CancelInv, NoCreateDuringDelete, CallDiscipline
  <2>6. SlotOccupants'
    <3>1. \A i \in Slots : /\ slot'[i].id # AOS_ID_NONE => slot'[i].in_use
                           /\ lost'[i] > 0 => slot'[i].id # AOS_ID_NONE
      BY <2>2, <2>4 DEF CancelInv, SlotOccupants
    <3>2. ASSUME NEW u \in Threads, u # t
          PROVE  /\ call'[u].pc \in HoldPoints => slot'[SlotOf(u)'].id = call'[u].id
                 /\ call'[u].pc \in DeletePoints =>
                      ~slot'[SlotOf(u)'].in_use /\ call'[u].pc # "undelete"
                 /\ call'[u].pc \notin CreatePoints
      <4>1. call[u].pc \in HoldPoints =>
              SlotOf(u) \in Slots \ {i0} /\ slot[SlotOf(u)].id = call[u].id
        BY <2>2, EngagedSlot DEF CancelInv, SlotOccupants, Holders, Holds
      <4>2. call[u].pc \in DeletePoints =>
              SlotOf(u) \in Slots /\ ~slot[SlotOf(u)].in_use /\ call[u].pc # "undelete"
        BY EngagedSlot DEF CancelInv, SlotOccupants
      <4> QED BY <2>3, <2>4, <2>5, <3>2, <4>1, <4>2
    <3> QED BY <2>slot, <2>3, <2>4, <3>1, <3>2, PointFacts DEF SlotOccupants
  <2>7. RefCountAccounted'
    <3>1. \A i \in Slots, u \in Threads : Holds(u, i)' <=> Holds(u, i)
      BY <1>1, <2>3, PointFacts DEF Holds
    <3> QED BY <2>4, <3>1, AccountedKept DEF CancelInv
  <2>8. lost' \in [Slots -> Nat] /\ FateOK'
    BY DEF CancelInv, FateOK
  <2> QED BY <2>3, <2>4, <2>6, <2>7, <2>8 DEF CancelInv, TypeOK, FateOK
<1> QED BY <1>3, <1>4 DEF DeleteLocked

LEMMA DestroyKeeps ==
  ASSUME CancelInv, NEW t \in Threads, DestroyNative(t), UNCHANGED <<fate, lost>>
  PROVE  CancelInv'
<1>1. call[t].pc = "destroy" /\ Goto(t, "wipe")
  BY DEF DestroyNative, At
<1>2. PICK i0 \in Slots : i0 = SlotOf(t)
  BY <1>1, EngagedSlot, PointFacts DEF CancelInv
<1>3. slot' = [slot EXCEPT ![i0].live = FALSE]
  BY <1>2 DEF DestroyNative
<1>4. /\ slot' \in [Slots -> SlotType]
      /\ \A i \in Slots : /\ slot'[i].id = slot[i].id
                          /\ slot'[i].in_use = slot[i].in_use
                          /\ slot'[i].ref_count = slot[i].ref_count
  BY <1>3, SideWrite DEF CancelInv
<1> QED BY <1>1, <1>4, QuietGoto

(* Nobody is blocked on a semaphore being destroyed, whoever else works on *)
(* its slot: sem_destroy does not refuse, and the slot is never put back.  *)
LEMMA DestroyNotRefused ==
  ASSUME CancelInv, NEW t \in Threads
  PROVE  ~DestroyFails(t) /\ ~Undelete(t)
<1>1. ASSUME DestroyFails(t) PROVE FALSE
  <2>1. PICK u \in Threads : call[u].pc = "native" /\ SlotOf(u) = SlotOf(t)
    BY <1>1 DEF DestroyFails, At
  <2>2. SlotOf(u) \in Slots /\ slot[SlotOf(u)].id # AOS_ID_NONE
    BY <2>1, EngagedSlot, PointFacts DEF CancelInv, SlotOccupants
  <2>3. ~slot[SlotOf(t)].in_use
    BY <1>1, PointFacts DEF CancelInv, SlotOccupants, DestroyFails, At
  <2> QED BY <2>1, <2>2, <2>3 DEF CancelInv, SlotOccupants
<1>2. ASSUME Undelete(t) PROVE FALSE
  BY <1>2, PointFacts DEF CancelInv, SlotOccupants, Undelete, At
<1> QED BY <1>1, <1>2

LEMMA WipeKeeps ==
  ASSUME CancelInv, NEW t \in Threads, WipeSlot(t), UNCHANGED <<fate, lost>>
  PROVE  CancelInv'
<1>1. call[t].pc = "wipe" /\ Return(t) /\ call[t].pc \notin HoldPoints
  BY PointFacts DEF WipeSlot, At
<1>2. PICK i0 \in Slots : i0 = SlotOf(t)
  BY <1>1, EngagedSlot, PointFacts DEF CancelInv
<1>3. slot[i0].id = AOS_ID_NONE
  BY <1>1, <1>2, PointFacts DEF CancelInv, SlotOccupants
<1>4. slot[i0].ref_count = 0
  BY <1>3, NoneUnheld
<1>5. slot \in [Slots -> SlotType] /\ slot[i0] \in SlotType
  BY DEF CancelInv, TypeOK
<1>6. /\ slot' \in [Slots -> SlotType]
      /\ \A i \in Slots : /\ slot'[i].id = slot[i].id
                          /\ slot'[i].in_use = slot[i].in_use
                          /\ slot'[i].ref_count = slot[i].ref_count
  BY <1>2, <1>4, <1>5 DEF WipeSlot, SlotType
<1> QED BY <1>1, <1>6, QuietReturn

-----------------------------------------------------------------------------
(* The theorems *)

LEMMA CancelInitInv == CancelInit => CancelInv
<1> SUFFICES ASSUME CancelInit PROVE CancelInv
  OBVIOUS
<1>1. /\ slot = [i \in Slots |-> EmptySlot] /\ call = [t \in Threads |-> Idle]
      /\ fate = [t \in Tasks |-> "runs"] /\ lost = [i \in Slots |-> 0]
  BY DEF CancelInit, Init
<1>2. EmptySlot \in SlotType /\ EmptySlot.id = AOS_ID_NONE /\ EmptySlot.ref_count = 0
      /\ EmptySlot.in_use = FALSE
  BY LimitFacts, SerialModAssumption DEF EmptySlot, SlotType
<1>3. Idle \in CallType
  BY DEF Idle, CallType, Points
<1>4. TypeOK /\ fate \in [Tasks -> {"runs", "asked", "ended"}] /\ lost \in [Slots -> Nat]
  BY <1>1, <1>2, <1>3 DEF TypeOK
<1>5. \A t \in Threads : call[t].pc = "idle" /\ call[t].op = "none"
  BY <1>1, IdleFacts
<1>6. CallDiscipline
  BY <1>5, PointFacts DEF CallDiscipline
<1>7. NoCreateDuringDelete
  BY <1>5 DEF NoCreateDuringDelete
<1>8. SlotOccupants
  BY <1>1, <1>2, <1>5, PointFacts DEF SlotOccupants
<1>9. RefCountAccounted
  <2>1. ASSUME NEW i \in Slots
        PROVE  slot[i].ref_count = Cardinality({t \in Threads : Holds(t, i)}) + lost[i]
    <3>1. {t \in Threads : Holds(t, i)} = {}
      BY <1>5, PointFacts DEF Holds
    <3> QED BY <1>1, <1>2, <3>1, FS_EmptySet
  <2> QED BY <2>1 DEF RefCountAccounted
<1> QED BY <1>4, <1>6, <1>7, <1>8, <1>9 DEF CancelInv

LEMMA CallStepKeeps ==
  ASSUME CancelInv, NEW t \in Threads, Step(t), UNCHANGED <<fate, lost>>
  PROVE  CancelInv'
<1>1. slot \in [Slots -> SlotType]
  BY DEF CancelInv, TypeOK
<1>2. CASE CreateFails(t) \/ GetInfo(t)
  <2>1. Return(t) /\ UNCHANGED slot /\ call[t].pc \in {"Create", "GetInfo"}
    BY <1>2 DEF CreateFails, GetInfo, At
  <2> QED BY <1>1, <2>1, QuietReturn, PointFacts
<1>3. CASE CreateLocked(t) \/ StoreState(t) \/ PublishId(t)
  BY <1>3, CreateLockedKeeps, StoreStateKeeps, PublishIdKeeps
<1>4. CASE AcquireReference(t) \/ ReleaseReference(t)
  BY <1>4, AcquireKeeps, ReleaseKeeps
<1>5. CASE TakeDeadline(t) \/ NativeTake(t) \/ NativeGiveUp(t) \/ ClearState(t)
  BY <1>5, HoldKeeps
<1>6. CASE \/ PostCheckId(t) \/ PostCas(t) \/ PostNative(t)
           \/ PostNativeFails(t) \/ PostRollback(t)
  BY <1>6, PostKeeps
<1>7. CASE DeleteLocked(t) \/ DestroyNative(t) \/ WipeSlot(t)
  BY <1>7, DeleteLockedKeeps, DestroyKeeps, WipeKeeps
<1> QED
  BY <1>2, <1>3, <1>4, <1>5, <1>6, <1>7, DestroyNotRefused DEF Step, LockStep

(* A step outside this module's code: only the fate of a task changes.     *)
LEMMA OutsideKeeps ==
  ASSUME CancelInv, slot' = slot, call' = call, lost' = lost, FateOK'
  PROVE  CancelInv'
<1>1. /\ TypeOK /\ CallDiscipline /\ NoCreateDuringDelete /\ SlotOccupants
      /\ RefCountAccounted /\ lost \in [Slots -> Nat]
  BY DEF CancelInv
<1>2. TypeOK' /\ CallDiscipline' /\ NoCreateDuringDelete'
  BY <1>1 DEF TypeOK, CallDiscipline, NoCreateDuringDelete
<1>3. SlotOccupants'
  BY <1>1 DEF SlotOccupants, SlotOf
<1>4. RefCountAccounted'
  BY <1>1 DEF RefCountAccounted, Holds, SlotOf
<1> QED BY <1>1, <1>2, <1>3, <1>4 DEF CancelInv, FateOK

LEMMA TaskStepKeeps ==
  ASSUME CancelInv, NEW t \in Tasks, AskToEnd(t) \/ EndOutside(t) \/ EndInWait(t)
  PROVE  CancelInv'
<1>1. CASE EndInWait(t)
  BY <1>1, EndInWaitKeeps, SemCancelAssumption
<1>2. CASE AskToEnd(t) \/ EndOutside(t)
  <2>1. slot' = slot /\ call' = call /\ lost' = lost /\ FateOK'
    BY <1>2 DEF AskToEnd, EndOutside, CancelInv, FateOK
  <2> QED BY <2>1, OutsideKeeps
<1> QED BY <1>1, <1>2

LEMMA StutterKeeps ==
  ASSUME CancelInv, UNCHANGED cvars
  PROVE  CancelInv'
<1>1. slot' = slot /\ call' = call /\ lost' = lost /\ fate' = fate
  BY DEF cvars
<1>2. FateOK'
  BY <1>1 DEF CancelInv, FateOK
<1> QED BY <1>1, <1>2, OutsideKeeps

LEMMA CancelStepInv ==
  ASSUME CancelInv, "no create during delete" \in Contract, [CancelNext]_cvars
  PROVE  CancelInv'
<1>1. CASE CallNext
  <2>1. PICK t \in Threads :
          \/ BeginCreate(t)
          \/ \E op \in Ops \ {"Create"}, id \in CallIds : BeginCall(t, op, id)
          \/ Step(t)
    BY <1>1 DEF CallNext, Next
  <2>2. UNCHANGED <<fate, lost>>
    BY <1>1 DEF CallNext
  <2>3. CASE BeginCreate(t)
    BY <2>2, <2>3, BeginKeeps, PointFacts DEF BeginCreate
  <2>4. CASE \E op \in Ops \ {"Create"}, id \in CallIds : BeginCall(t, op, id)
    BY <2>2, <2>4, BeginKeeps DEF BeginCall
  <2>5. CASE Step(t)
    BY <2>2, <2>5, CallStepKeeps
  <2> QED BY <2>1, <2>3, <2>4, <2>5
<1>2. CASE \E t \in Tasks : AskToEnd(t) \/ EndOutside(t) \/ EndInWait(t)
  BY <1>2, TaskStepKeeps
<1>3. CASE UNCHANGED cvars
  BY <1>3, StutterKeeps
<1> QED BY <1>1, <1>2, <1>3 DEF CancelNext

(* While no AOS_SemCreate overlaps an AOS_SemDelete, and whatever else     *)
(* callers do, CancelInv holds in every state.                             *)
THEOREM CancelInvariant ==
  ASSUME "no create during delete" \in Contract
  PROVE  CancelSpec => []CancelInv
<1>1. CancelInit => CancelInv
  BY CancelInitInv
<1>2. CancelInv /\ [CancelNext]_cvars => CancelInv'
  BY CancelStepInv
<1> QED BY <1>1, <1>2, PTL DEF CancelSpec

(* ref_count is the number of waiters plus that of the references lost to  *)
(* tasks that were ended inside their wait.                                *)
THEOREM CancelRefCount ==
  ASSUME "no create during delete" \in Contract
  PROVE  CancelSpec => []RefCountAccounted
<1>1. CancelInv => RefCountAccounted
  BY DEF CancelInv
<1> QED BY <1>1, CancelInvariant, PTL

(* No step changes the id of a slot that lost a reference, nor forgets the *)
(* loss.                                                                   *)
LEMMA LossKeepsId ==
  ASSUME CancelInv, [CancelNext]_cvars, NEW i \in Slots, lost[i] > 0
  PROVE  slot'[i].id = slot[i].id /\ lost'[i] >= lost[i]
<1>1. /\ slot \in [Slots -> SlotType] /\ lost[i] \in Nat
      /\ slot[i].id # AOS_ID_NONE /\ slot[i].in_use /\ slot[i].ref_count # 0
  <2>1. slot[i].id # AOS_ID_NONE /\ slot[i].in_use
    BY DEF CancelInv, SlotOccupants
  <2>2. lost[i] # 0
    BY DEF CancelInv
  <2> QED BY <2>1, <2>2, UnreferencedFacts DEF CancelInv, TypeOK
<1>2. CASE CallNext
  <2>1. PICK t \in Threads :
          \/ BeginCreate(t)
          \/ \E op \in Ops \ {"Create"}, id \in CallIds : BeginCall(t, op, id)
          \/ Step(t)
    BY <1>2 DEF CallNext, Next
  <2>2. lost' = lost
    BY <1>2 DEF CallNext
  <2>3. CASE UNCHANGED slot
    BY <1>1, <2>2, <2>3
  <2>4. CASE CreateLocked(t)
    <3>1. PICK i0 \in Slots : ~slot[i0].in_use /\ slot'[i] = IF i = i0 THEN slot'[i] ELSE slot[i]
      BY <1>1, <2>4 DEF CreateLocked, IsFirstFree, FreeSlots
    <3> QED BY <1>1, <2>2, <3>1
  <2>5. CASE PublishId(t)
    <3>1. slot[SlotOf(t)].id = AOS_ID_NONE
      BY <2>5, PointFacts DEF PublishId, At, CancelInv, SlotOccupants
    <3> QED BY <1>1, <2>2, <2>5, <3>1 DEF PublishId
  <2>6. CASE DeleteLocked(t)
    <3>1. CASE UNCHANGED slot
      BY <1>1, <2>2, <3>1
    <3>2. CASE /\ slot[SlotOf(t)].ref_count = 0
               /\ slot' = [slot EXCEPT ![SlotOf(t)].id = AOS_ID_NONE,
                                       ![SlotOf(t)].in_use = FALSE]
      BY <1>1, <2>2, <3>2
    <3> QED BY <2>6, <3>1, <3>2 DEF DeleteLocked
  <2>7. CASE AcquireReference(t) \/ ReleaseReference(t) \/ WipeSlot(t)
    BY <1>1, <2>2, <2>7 DEF AcquireReference, ReleaseReference, WipeSlot, SlotType
  <2>8. CASE StoreState(t) \/ NativeTake(t) \/ ClearState(t)
    BY <1>1, <2>2, <2>8 DEF StoreState, NativeTake, ClearState, SlotType
  <2>9. CASE PostCas(t) \/ PostNative(t) \/ PostRollback(t) \/ DestroyNative(t)
    BY <1>1, <2>2, <2>9 DEF PostCas, PostNative, PostRollback, DestroyNative, SlotType
  <2> QED
    BY <2>1, <2>3, <2>4, <2>5, <2>6, <2>7, <2>8, <2>9, DestroyNotRefused
       DEF BeginCreate, BeginCall, Step, LockStep, CreateFails, GetInfo,
           TakeDeadline, NativeGiveUp, PostCheckId, PostNativeFails
<1>3. CASE \E t \in Tasks : EndInWait(t)
  <2>1. PICK t \in Tasks : EndInWait(t)
    BY <1>3
  <2>2. UNCHANGED slot /\ lost' = [lost EXCEPT ![SlotOf(t)] = @ + 1]
    BY <2>1 DEF EndInWait
  <2>3. lost' = [lost EXCEPT ![SlotOf(t)] = lost[SlotOf(t)] + 1] /\ lost \in [Slots -> Nat]
    BY <2>2 DEF CancelInv
  <2>4. lost'[i] = lost[i] \/ lost'[i] = lost[i] + 1
    BY <2>3
  <2> QED BY <1>1, <2>2, <2>4
<1>4. CASE \E t \in Tasks : AskToEnd(t) \/ EndOutside(t)
  BY <1>1, <1>4 DEF AskToEnd, EndOutside
<1>5. CASE UNCHANGED cvars
  BY <1>1, <1>5 DEF cvars
<1> QED BY <1>2, <1>3, <1>4, <1>5 DEF CancelNext

LEMMA LossPins ==
  ASSUME CancelInv, CancelInv', [CancelNext]_cvars, NEW i \in Slots, lost[i] > 0
  PROVE  slot'[i].in_use /\ slot'[i].id = slot[i].id /\ slot'[i].ref_count > 0
<1>1. slot'[i].id = slot[i].id /\ lost'[i] >= lost[i]
  BY LossKeepsId
<1>2. lost \in [Slots -> Nat] /\ lost' \in [Slots -> Nat]
  BY DEF CancelInv
<1>3. lost[i] \in Nat /\ lost'[i] \in Nat /\ lost'[i] > 0
  BY <1>1, <1>2
<1>4. slot'[i].in_use
  BY <1>3 DEF CancelInv, SlotOccupants
<1>5. slot'[i].ref_count = Cardinality({t \in Threads : Holds(t, i)'}) + lost'[i]
  BY DEF CancelInv, RefCountAccounted
<1>6. Cardinality({t \in Threads : Holds(t, i)'}) \in Nat
  BY CountNat
<1>7. slot'[i].ref_count > 0
  BY <1>3, <1>5, <1>6
<1> QED BY <1>1, <1>4, <1>7

(* A semaphore that lost a reference is never deleted: the slot keeps its  *)
(* occupant, whose ref_count stays above 0.                                *)
THEOREM CancelLossPins ==
  ASSUME "no create during delete" \in Contract
  PROVE  CancelSpec => LostPinsSemaphore
<1> DEFINE Pins == \A i \in Slots :
                     lost[i] > 0 => /\ slot'[i].in_use
                                    /\ slot'[i].id = slot[i].id
                                    /\ slot'[i].ref_count > 0
<1>1. CancelInv /\ CancelInv' /\ [CancelNext]_cvars => [Pins]_cvars
  BY LossPins
<1> QED BY <1>1, CancelInvariant, PTL DEF CancelSpec, LostPinsSemaphore

-----------------------------------------------------------------------------
(* Waiters keep their semaphore, native and all                            *)

LEMMA CreateAlive ==
  ASSUME CancelInv, OccupantsAlive, NEW t \in Threads,
         CreateLocked(t) \/ StoreState(t) \/ PublishId(t)
  PROVE  OccupantsAlive'
<1>1. slot \in [Slots -> SlotType] /\ call \in [Threads -> CallType]
  BY DEF CancelInv, TypeOK
<1>2. CASE CreateLocked(t)
  <2>1. /\ \A u \in Threads : call[u].pc \notin CreatePoints
    BY <1>2 DEF CreateLocked, TableUnlocked
  <2>2. PICK i0 \in Slots, name \in Names, value \in {0, 1} :
          /\ slot' = [slot EXCEPT ![i0] =
               [id |-> slot[i0].id, state |-> slot[i0].state,
                native |-> value, live |-> TRUE, ref_count |-> 0,
                serial |-> NextSerial(slot[i0].serial), in_use |-> TRUE, name |-> name]]
          /\ call' = [call EXCEPT ![t] =
               [op |-> "Create", pc |-> "store_state", value |-> value,
                id |-> IdPack(AOS_TYPE_BINSEM, NextSerial(slot[i0].serial), i0)]]
    BY <1>2 DEF CreateLocked
  <2>3. /\ slot'[i0].live /\ \A i \in Slots \ {i0} : slot'[i] = slot[i]
        /\ SlotOf(t)' = i0 /\ \A u \in Threads \ {t} : call'[u] = call[u]
    <3>1. NextSerial(slot[i0].serial) \in 1 .. SerialMod - 1
      BY <1>1, NextSerialFresh DEF SlotType
    <3>2. IdIndex(IdPack(AOS_TYPE_BINSEM, NextSerial(slot[i0].serial), i0)) = i0
      BY <3>1, SemIdFacts
    <3>3. call'[t].id = IdPack(AOS_TYPE_BINSEM, NextSerial(slot[i0].serial), i0)
      BY <1>1, <2>2
    <3>4. SlotOf(t)' = i0
      BY <3>2, <3>3 DEF SlotOf
    <3>5. slot'[i0].live /\ \A i \in Slots \ {i0} : slot'[i] = slot[i]
      BY <1>1, <2>2
    <3>6. \A u \in Threads \ {t} : call'[u] = call[u]
      BY <1>1, <2>2
    <3> QED BY <3>4, <3>5, <3>6
  <2> QED BY <2>1, <2>3 DEF OccupantsAlive
<1>3. CASE StoreState(t)
  <2>1. call[t].pc = "store_state" /\ Goto(t, "publish")
    BY <1>3 DEF StoreState, At
  <2>2. PICK i0 \in Slots : i0 = SlotOf(t)
    BY <2>1, EngagedSlot, PointFacts DEF CancelInv
  <2>3. \A i \in Slots : slot'[i].live = slot[i].live /\ slot'[i].id = slot[i].id
    BY <1>1, <1>3, <2>2 DEF StoreState, SlotType
  <2>4. \A u \in Threads : /\ SlotOf(u)' = SlotOf(u)
                           /\ call'[u].pc \in CreatePoints => call[u].pc \in CreatePoints
    BY <1>1, <2>1, PointFacts DEF Goto, SlotOf, CallType
  <2>5. \A u \in Threads : call[u].pc \in CreatePoints => SlotOf(u) \in Slots
    BY EngagedSlot DEF CancelInv
  <2> QED BY <2>3, <2>4, <2>5 DEF OccupantsAlive
<1>4. CASE PublishId(t)
  <2>1. call[t].pc = "publish" /\ call[t].pc \in CreatePoints /\ Return(t)
    BY <1>4, PointFacts DEF PublishId, At
  <2>2. PICK i0 \in Slots : i0 = SlotOf(t)
    BY <2>1, EngagedSlot DEF CancelInv
  <2>3. slot[i0].live /\ \A u \in Threads \ {t} : call[u].pc \notin CreatePoints
    BY <2>1, <2>2 DEF OccupantsAlive, CancelInv, SlotOccupants
  <2>4. /\ \A i \in Slots \ {i0} : slot'[i] = slot[i]
        /\ slot'[i0].live = slot[i0].live
    BY <1>1, <1>4, <2>2 DEF PublishId, SlotType
  <2>5. /\ call'[t].pc = "idle" /\ \A u \in Threads \ {t} : call'[u] = call[u]
    BY <2>1, ReturnKeepsCalls
  <2> QED BY <2>3, <2>4, <2>5, PointFacts DEF OccupantsAlive
<1> QED BY <1>2, <1>3, <1>4

(* The other steps create nothing, and only DestroyNative destroys.        *)
LEMMA OtherAlive ==
  ASSUME CancelInv, OccupantsAlive, NEW t \in Threads,
         \A u \in Threads : call'[u].pc \in CreatePoints => call'[u] = call[u],
         \A i \in Slots : /\ slot'[i].live = slot[i].live
                          /\ slot'[i].id \in {slot[i].id, AOS_ID_NONE}
  PROVE  OccupantsAlive'
<1>1. \A u \in Threads :
        call'[u].pc \in CreatePoints => SlotOf(u)' = SlotOf(u) /\ SlotOf(u) \in Slots
  BY EngagedSlot DEF SlotOf, CancelInv
<1> QED BY <1>1 DEF OccupantsAlive

LEMMA DestroyAlive ==
  ASSUME CancelInv, OccupantsAlive, NEW t \in Threads, DestroyNative(t)
  PROVE  OccupantsAlive'
<1>1. call[t].pc = "destroy" /\ call[t].pc \in DeletePoints /\ Goto(t, "wipe")
  BY PointFacts DEF DestroyNative, At
<1>2. PICK i0 \in Slots : i0 = SlotOf(t)
  BY <1>1, EngagedSlot DEF CancelInv
<1>3. slot[i0].id = AOS_ID_NONE /\ ~slot[i0].in_use
  BY <1>1, <1>2 DEF CancelInv, SlotOccupants
<1>4. \A u \in Threads : call[u].pc \in CreatePoints => SlotOf(u) \in Slots \ {i0}
  BY <1>3, EngagedSlot DEF CancelInv, SlotOccupants
<1>5. slot \in [Slots -> SlotType] /\ call \in [Threads -> CallType]
  BY DEF CancelInv, TypeOK
<1>6. /\ \A i \in Slots \ {i0} : slot'[i] = slot[i]
      /\ slot'[i0].id = slot[i0].id
  BY <1>2, <1>5 DEF DestroyNative, SlotType
<1>7. \A u \in Threads : /\ SlotOf(u)' = SlotOf(u)
                         /\ call'[u].pc \in CreatePoints => call[u].pc \in CreatePoints
  BY <1>1, <1>5, PointFacts DEF Goto, SlotOf, CallType
<1> QED BY <1>3, <1>4, <1>6, <1>7 DEF OccupantsAlive

LEMMA StepAlive ==
  ASSUME CancelInv, OccupantsAlive, NEW t \in Threads, Step(t)
  PROVE  OccupantsAlive'
<1>1. slot \in [Slots -> SlotType] /\ call \in [Threads -> CallType]
  BY DEF CancelInv, TypeOK
<1>2. CASE CreateLocked(t) \/ StoreState(t) \/ PublishId(t) \/ DestroyNative(t)
  BY <1>2, CreateAlive, DestroyAlive
<1>3. ASSUME ~(CreateLocked(t) \/ StoreState(t) \/ PublishId(t) \/ DestroyNative(t))
      PROVE  OccupantsAlive'
  <2>1. \/ Return(t)
        \/ \E point \in Points \ CreatePoints : Goto(t, point)
    <3>1. \/ Return(t)
          \/ \E point \in HoldPoints \cup PostPoints \cup {"destroy"} : Goto(t, point)
      BY <1>3, PointFacts, DestroyNotRefused
         DEF Step, LockStep, CreateFails, GetInfo, AcquireReference, ReleaseReference,
             DeleteLocked, WipeSlot, TakeDeadline, NativeTake, NativeGiveUp, ClearState,
             PostCheckId, PostCas, PostNative, PostNativeFails, PostRollback
    <3> QED BY <3>1, PointFacts DEF Points
  <2>2. \A u \in Threads : call'[u].pc \in CreatePoints => call'[u] = call[u]
    BY <1>1, <2>1, IdleFacts, PointFacts DEF Return, Goto, CallType
  <2>3. \A i \in Slots : /\ slot'[i].live = slot[i].live
                         /\ slot'[i].id \in {slot[i].id, AOS_ID_NONE}
    <3>1. CASE UNCHANGED slot
      BY <3>1
    <3>2. CASE AcquireReference(t) \/ ReleaseReference(t) \/ WipeSlot(t)
      BY <1>1, <3>2 DEF AcquireReference, ReleaseReference, WipeSlot, SlotType
    <3>3. CASE NativeTake(t) \/ ClearState(t)
      BY <1>1, <3>3 DEF NativeTake, ClearState, SlotType
    <3>4. CASE PostCas(t) \/ PostNative(t) \/ PostRollback(t)
      BY <1>1, <3>4 DEF PostCas, PostNative, PostRollback, SlotType
    <3>5. CASE DeleteLocked(t)
      BY <1>1, <3>5 DEF DeleteLocked, SlotType
    <3> QED
      BY <1>3, <3>1, <3>2, <3>3, <3>4, <3>5, DestroyNotRefused
         DEF Step, LockStep, CreateFails, GetInfo, TakeDeadline, NativeGiveUp,
             PostCheckId, PostNativeFails
  <2> QED BY <2>2, <2>3, OtherAlive
<1> QED BY <1>2, <1>3

LEMMA NextAlive ==
  ASSUME CancelInv, OccupantsAlive, [CancelNext]_cvars
  PROVE  OccupantsAlive'
<1>1. call \in [Threads -> CallType]
  BY DEF CancelInv, TypeOK
<1>2. CASE CallNext
  <2>1. PICK t \in Threads :
          \/ BeginCreate(t)
          \/ \E op \in Ops \ {"Create"}, id \in CallIds : BeginCall(t, op, id)
          \/ Step(t)
    BY <1>2 DEF CallNext, Next
  <2>2. CASE BeginCreate(t) \/ \E op \in Ops \ {"Create"}, id \in CallIds : BeginCall(t, op, id)
    <3>1. /\ UNCHANGED slot
          /\ \E op \in Ops : \E id :
               call' = [call EXCEPT ![t] = [op |-> op, pc |-> op, id |-> id, value |-> 0]]
      BY <2>2, PointFacts DEF BeginCreate, BeginCall
    <3>2. \A u \in Threads : call'[u].pc \in CreatePoints => call'[u] = call[u]
      BY <1>1, <3>1, PointFacts
    <3> QED BY <3>1, <3>2, OtherAlive
  <2>3. CASE Step(t)
    BY <2>3, StepAlive
  <2> QED BY <2>1, <2>2, <2>3
<1>3. CASE \E t \in Tasks : AskToEnd(t) \/ EndOutside(t) \/ EndInWait(t)
  <2>1. PICK t \in Threads : (UNCHANGED call \/ Return(t)) /\ UNCHANGED slot
    BY <1>3, SemCancelAssumption DEF AskToEnd, EndOutside, EndInWait
  <2>2. \A u \in Threads : call'[u].pc \in CreatePoints => call'[u] = call[u]
    BY <1>1, <2>1, IdleFacts, PointFacts DEF Return
  <2> QED BY <2>1, <2>2, OtherAlive
<1>4. CASE UNCHANGED cvars
  BY <1>4 DEF cvars, OccupantsAlive, SlotOf
<1> QED BY <1>2, <1>3, <1>4 DEF CancelNext

LEMMA HeldSlot ==
  ASSUME CancelInv, OccupantsAlive
  PROVE  WaiterKeepsSlot
<1>1. ASSUME NEW t \in Threads, NEW i \in Slots, Holds(t, i)
      PROVE  slot[i].in_use /\ slot[i].live /\ slot[i].id = call[t].id
  <2>1. slot[i].id = call[t].id /\ call[t].id # AOS_ID_NONE
    BY <1>1, EngagedSlot DEF Holds, CancelInv, SlotOccupants
  <2> QED BY <2>1 DEF OccupantsAlive, CancelInv, SlotOccupants
<1> QED BY <1>1 DEF WaiterKeepsSlot

LEMMA AliveInit == CancelInit => OccupantsAlive
BY IdleFacts, PointFacts DEF CancelInit, Init, OccupantsAlive, EmptySlot

(* A thread that waits keeps its semaphore, native and all, although posts *)
(* may race deletes and tasks may be ended: only the obligation on creates *)
(* matters to it.                                                          *)
THEOREM CancelWaiterKeepsSlot ==
  ASSUME "no create during delete" \in Contract
  PROVE  CancelSpec => []WaiterKeepsSlot
<1>1. CancelInit => OccupantsAlive
  BY AliveInit
<1>2. CancelInv /\ OccupantsAlive /\ [CancelNext]_cvars => OccupantsAlive'
  BY ZenonT(60), NextAlive
<1>3. CancelInv /\ OccupantsAlive => WaiterKeepsSlot
  BY Zenon, HeldSlot
<1> QED BY <1>1, <1>2, <1>3, CancelInvariant, PTL DEF CancelSpec

=============================================================================
