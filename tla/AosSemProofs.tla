---------------------------- MODULE AosSemProofs ----------------------------
(***************************************************************************)
(* Proofs about AosSem, for any number of threads, slots and names: while  *)
(* callers keep their obligations, IInv is an invariant, and with it every *)
(* safety property of the module.                                          *)
(***************************************************************************)
EXTENDS AosSemRefinement, AosIdProofs, FiniteSetTheorems

(* Ids of the pool: not AOS_ID_NONE, and they name the slot they are for.  *)
LEMMA SemIdFacts ==
  /\ \A id \in SemIds : id \in Nat /\ id # AOS_ID_NONE /\ IdIndex(id) \in Slots
  /\ \A serial \in 1 .. SerialMod - 1, i \in Slots :
       LET id == IdPack(AOS_TYPE_BINSEM, serial, i)
       IN  id \in SemIds /\ IdIndex(id) = i
<1>1. ASSUME NEW serial \in 1 .. SerialMod - 1, NEW i \in Slots
      PROVE  LET id == IdPack(AOS_TYPE_BINSEM, serial, i)
             IN  id \in Nat /\ id # AOS_ID_NONE /\ id \in SemIds /\ IdIndex(id) = i
  <2>1. serial \in Nat /\ serial < 256
    BY SMTT(30), SerialModAssumption
  <2>2. i \in Nat /\ i < 65536
    BY SMTT(30), SemAssumption DEF Slots
  <2>3. AOS_TYPE_BINSEM \in Nat /\ AOS_TYPE_BINSEM < 256 /\ AOS_TYPE_BINSEM >= 1
    BY DEF AOS_TYPE_BINSEM
  <2>4. IdPack(AOS_TYPE_BINSEM, serial, i) \in SemIds
    BY DEF SemIds
  <2> QED BY <2>1, <2>2, <2>3, <2>4, IdRoundTrip, LiveIdIsNotNone
<1> QED BY <1>1 DEF SemIds

-----------------------------------------------------------------------------
(* What the assumptions on the constants say of the numbers.               *)
LEMMA LimitFacts == IsFiniteSet(Threads) /\ SemValueMax \in Nat \ {0}
BY SemAssumption

(* Counting threads *)

Holders(i)  == {t \in Threads : Holds(t, i)}
Carriers(i) == {t \in Threads : Carries(t, i)}

LEMMA CountNat ==
  ASSUME NEW S \in SUBSET Threads
  PROVE  IsFiniteSet(S) /\ Cardinality(S) \in Nat
BY FS_Subset, FS_CardinalityType, LimitFacts

LEMMA CountIn ==
  ASSUME NEW S \in SUBSET Threads, NEW t \in Threads, t \notin S
  PROVE  Cardinality(S \cup {t}) = Cardinality(S) + 1
BY CountNat, FS_AddElement

LEMMA CountOut ==
  ASSUME NEW S \in SUBSET Threads, NEW t \in S
  PROVE  Cardinality(S \ {t}) = Cardinality(S) - 1 /\ Cardinality(S) >= 1
<1>1. Cardinality(S \ {t}) = Cardinality(S) - 1
  BY CountNat, FS_RemoveElement
<1>2. Cardinality(S) \in Nat /\ Cardinality(S) # 0
  BY CountNat, FS_EmptySet
<1> QED BY <1>1, <1>2

(* The numbers a slot holds.                                               *)
LEMMA SlotNumbers ==
  ASSUME TypeOK, NEW i \in Slots
  PROVE  /\ slot[i].state \in {0, 1}
         /\ slot[i].native \in 0 .. SemValueMax /\ slot[i].native \in Nat
<1>1. slot[i] \in SlotType
  BY DEF TypeOK
<1>2. slot[i].state \in {0, 1} /\ slot[i].native \in 0 .. SemValueMax
  BY <1>1 DEF SlotType
<1> QED BY <1>2

(* A step that moves no thread in or out of a count keeps the count.       *)
LEMMA RefCountKept ==
  ASSUME RefCountExact,
         \A i \in Slots : slot'[i].ref_count = slot[i].ref_count,
         \A i \in Slots, u \in Threads : Holds(u, i)' <=> Holds(u, i)
  PROVE  RefCountExact'
<1>1. ASSUME NEW i \in Slots
      PROVE  {u \in Threads : Holds(u, i)'} = {u \in Threads : Holds(u, i)}
  OBVIOUS
<1> QED BY <1>1 DEF RefCountExact

LEMMA TokenKept ==
  ASSUME TokenConserved,
         \A i \in Slots : /\ slot'[i].id = slot[i].id
                          /\ slot'[i].state = slot[i].state
                          /\ slot'[i].native = slot[i].native,
         \A i \in Slots, u \in Threads : Carries(u, i)' <=> Carries(u, i)
  PROVE  TokenConserved'
<1>1. ASSUME NEW i \in Slots
      PROVE  {u \in Threads : Carries(u, i)'} = {u \in Threads : Carries(u, i)}
  OBVIOUS
<1> QED BY <1>1 DEF TokenConserved

(* A step that touches one slot i0 only needs the count of that slot.      *)
LEMMA RefCountAt ==
  ASSUME RefCountExact, NEW i0 \in Slots,
         \A i \in Slots \ {i0} : slot'[i].ref_count = slot[i].ref_count,
         \A i \in Slots \ {i0}, u \in Threads : Holds(u, i)' <=> Holds(u, i),
         slot'[i0].ref_count = Cardinality({u \in Threads : Holds(u, i0)'})
  PROVE  RefCountExact'
<1>1. ASSUME NEW i \in Slots \ {i0}
      PROVE  {u \in Threads : Holds(u, i)'} = {u \in Threads : Holds(u, i)}
  OBVIOUS
<1> QED BY <1>1 DEF RefCountExact

LEMMA TokenAt ==
  ASSUME TokenConserved, NEW i0 \in Slots,
         \A i \in Slots \ {i0} : /\ slot'[i].id = slot[i].id
                                 /\ slot'[i].state = slot[i].state
                                 /\ slot'[i].native = slot[i].native,
         \A i \in Slots \ {i0}, u \in Threads : Carries(u, i)' <=> Carries(u, i),
         NEW n, n = Cardinality({u \in Threads : Carries(u, i0)'}),
         IF slot'[i0].id = AOS_ID_NONE
           THEN n = 0
           ELSE slot'[i0].state = slot'[i0].native + n
  PROVE  TokenConserved'
<1>1. ASSUME NEW i \in Slots \ {i0}
      PROVE  {u \in Threads : Carries(u, i)'} = {u \in Threads : Carries(u, i)}
  OBVIOUS
<1> QED BY <1>1 DEF TokenConserved

-----------------------------------------------------------------------------
(* What the steps do to the calls *)

LEMMA GotoEffect ==
  ASSUME TypeOK, NEW t \in Threads, NEW point \in Points, Goto(t, point)
  PROVE  /\ call' \in [Threads -> CallType]
         /\ \A u \in Threads :
              /\ call'[u].pc = IF u = t THEN point ELSE call[u].pc
              /\ call'[u].op = call[u].op
              /\ call'[u].id = call[u].id
              /\ call'[u].value = call[u].value
              /\ SlotOf(u)' = SlotOf(u)
BY DEF TypeOK, CallType, Goto, SlotOf

LEMMA ReturnEffect ==
  ASSUME TypeOK, NEW t \in Threads, Return(t)
  PROVE  /\ call' \in [Threads -> CallType]
         /\ call'[t].pc = "idle" /\ call'[t].op = "none"
         /\ \A u \in Threads : u # t => call'[u] = call[u] /\ SlotOf(u)' = SlotOf(u)
<1>1. Idle \in CallType
  BY DEF Idle, CallType, Points
<1> QED BY <1>1 DEF TypeOK, Return, Idle, SlotOf

(* Past its checks, a call works on a slot of the pool.                    *)
LEMMA EngagedSlot ==
  ASSUME CallDiscipline, NEW t \in Threads,
         call[t].pc \in CreatePoints \cup HoldPoints \cup PostPoints \cup DeletePoints
  PROVE  /\ call[t].id \in SemIds
         /\ call[t].id # AOS_ID_NONE
         /\ SlotOf(t) \in Slots
BY SemIdFacts DEF CallDiscipline, SlotOf

(* A step of t that writes no slot and moves t neither into nor out of a   *)
(* group of points keeps everything that is said about slots.              *)
LEMMA QuietStep ==
  ASSUME IInv, NEW t \in Threads, UNCHANGED slot,
         \A u \in Threads \ {t} : call'[u] = call[u],
         call'[t].pc \notin CreatePoints \cup DeletePoints \cup {"post", "rollback", "clear"},
         call[t].pc \notin {"post", "rollback", "clear"},
         call'[t].pc \in HoldPoints <=> call[t].pc \in HoldPoints,
         call'[t].pc \in HoldPoints => call'[t].id = call[t].id,
         call'[t].pc \in PostPoints => slot[IdIndex(call'[t].id)].id = call'[t].id,
         TypeOK', CallDiscipline', ContractKept'
  PROVE  IInv'
<1>1. \A u \in Threads : u # t => SlotOf(u)' = SlotOf(u)
  BY DEF SlotOf
<1>2. call'[t].pc \in HoldPoints => SlotOf(t)' = SlotOf(t)
  BY DEF SlotOf
<1>3. SlotDiscipline'
  BY <1>1, <1>2 DEF IInv, SlotDiscipline, SlotOf
<1>4. RefCountExact'
  BY <1>1, <1>2, RefCountKept DEF IInv, Holds
<1>5. TokenConserved'
  <2>1. \A i \in Slots, u \in Threads : Carries(u, i)' <=> Carries(u, i)
    BY <1>1 DEF Carries
  <2> QED BY <2>1, TokenKept DEF IInv
<1>6. RollbackUnreachable'
  BY DEF IInv, RollbackUnreachable, At
<1>7. NamesUnique'
  BY DEF IInv, NamesUnique
<1> QED BY <1>3, <1>4, <1>5, <1>6, <1>7 DEF IInv

LEMMA CallsAfterReturn ==
  ASSUME IInv, NEW t \in Threads, Return(t)
  PROVE  CallDiscipline' /\ ContractKept'
<1>1. /\ call'[t].pc = "idle" /\ call'[t].op = "none"
      /\ \A u \in Threads : u # t => call'[u] = call[u]
  BY ReturnEffect DEF IInv
<1>2. CallDiscipline'
  BY <1>1 DEF IInv, CallDiscipline, Ops, WaitOps, CreatePoints, HoldPoints,
              PostPoints, DeletePoints
<1>3. ContractKept'
  BY <1>1 DEF IInv, ContractKept
<1> QED BY <1>2, <1>3

LEMMA CallsAfterGoto ==
  ASSUME IInv, NEW t \in Threads, NEW point, Goto(t, point),
         \/ point \in HoldPoints /\ call[t].op \in WaitOps
         \/ point \in PostPoints /\ call[t].op = "Post"
         \/ point \in DeletePoints /\ call[t].op = "Delete"
         \/ point \in CreatePoints /\ call[t].op = "Create",
         call[t].id \in SemIds
  PROVE  CallDiscipline' /\ ContractKept' /\ call' \in [Threads -> CallType]
<1>1. point \in Points /\ point # "idle" /\ point \notin Ops
  BY DEF Points, Ops, WaitOps, CreatePoints, HoldPoints, PostPoints, DeletePoints
<1>2. \A u \in Threads : /\ call'[u].pc = IF u = t THEN point ELSE call[u].pc
                         /\ call'[u].op = call[u].op
                         /\ call'[u].id = call[u].id
  BY <1>1, GotoEffect DEF IInv
<1>3. CallDiscipline'
  BY <1>1, <1>2 DEF IInv, CallDiscipline, WaitOps, CreatePoints, HoldPoints,
                    PostPoints, DeletePoints
<1>4. ContractKept'
  BY <1>2 DEF IInv, ContractKept
<1>5. call' \in [Threads -> CallType]
  BY <1>1, GotoEffect DEF IInv
<1> QED BY <1>3, <1>4, <1>5 DEF TypeOK

-----------------------------------------------------------------------------
(* Every step keeps IInv *)

LEMMA BeginStep ==
  ASSUME IInv, Contract = Obligations, NEW t \in Threads, NEW op \in Ops,
         NEW id \in CallIds \cup {AOS_ID_NONE}, call[t] = Idle, Permitted(op, id),
         call' = [call EXCEPT ![t] = [op |-> op, pc |-> op, id |-> id, value |-> 0]],
         UNCHANGED slot
  PROVE  IInv'
<1>1. call[t].op = "none" /\ call[t].pc = "idle"
  BY DEF Idle
<1>2. /\ call'[t].op = op /\ call'[t].pc = op /\ call'[t].id = id
      /\ \A u \in Threads : u # t => call'[u] = call[u]
  BY DEF IInv, TypeOK
<1>3. TypeOK'
  BY DEF IInv, TypeOK, CallType, Points
<1>4. CallDiscipline'
  BY <1>2 DEF IInv, CallDiscipline, Ops, WaitOps, CreatePoints, HoldPoints,
              PostPoints, DeletePoints
<1>5. ContractKept'
  <2>1. \A u \in Threads :
          /\ ~(op = "Create" /\ call[u].op = "Delete")
          /\ ~(op = "Delete" /\ call[u].op = "Create")
          /\ op = "Post" /\ call[u].op = "Delete" => id # call[u].id
          /\ op = "Delete" /\ call[u].op = "Post" => call[u].id # id
    BY DEF Permitted, Obligations
  <2> QED BY <1>2, <2>1 DEF IInv, ContractKept
<1> QED
  BY <1>1, <1>2, <1>3, <1>4, <1>5, QuietStep
     DEF Ops, WaitOps, CreatePoints, HoldPoints, PostPoints, DeletePoints

LEMMA CreateFailsStep ==
  ASSUME IInv, NEW t \in Threads, call[t].pc \in {"Create", "GetInfo"},
         Return(t), UNCHANGED slot
  PROVE  IInv'
BY CallsAfterReturn, ReturnEffect, QuietStep
   DEF IInv, TypeOK, CreatePoints, HoldPoints, PostPoints, DeletePoints

LEMMA TakeDeadlineStep ==
  ASSUME IInv, NEW t \in Threads, TakeDeadline(t)
  PROVE  IInv'
<1>1. PICK point \in {"native", "release"} : Goto(t, point)
  BY DEF TakeDeadline
<1>2. point \in Points /\ call[t].op \in WaitOps /\ call[t].id \in SemIds
  BY DEF IInv, CallDiscipline, TakeDeadline, At, Points, HoldPoints
<1>3. call[t].pc = "deadline" /\ UNCHANGED slot
  BY DEF TakeDeadline, At
<1>4. CallDiscipline' /\ ContractKept' /\ TypeOK'
  BY <1>1, <1>2, <1>3, CallsAfterGoto DEF IInv, TypeOK, HoldPoints
<1>5. /\ call'[t].pc = point /\ call'[t].id = call[t].id
      /\ \A u \in Threads \ {t} : call'[u] = call[u]
  BY <1>1, <1>2 DEF IInv, TypeOK, CallType, Goto
<1> QED
  BY <1>1, <1>3, <1>4, <1>5, QuietStep
     DEF CreatePoints, HoldPoints, PostPoints, DeletePoints

LEMMA NativeGiveUpStep ==
  ASSUME IInv, NEW t \in Threads, NativeGiveUp(t)
  PROVE  IInv'
<1>1. "release" \in Points /\ call[t].op \in WaitOps /\ call[t].id \in SemIds
  BY DEF IInv, CallDiscipline, NativeGiveUp, At, Points, HoldPoints
<1>2. /\ Goto(t, "release") /\ call[t].pc = "native" /\ UNCHANGED slot
  BY DEF NativeGiveUp, At
<1>3. CallDiscipline' /\ ContractKept' /\ TypeOK'
  BY <1>1, <1>2, CallsAfterGoto DEF IInv, TypeOK, HoldPoints
<1>4. /\ call'[t].pc = "release" /\ call'[t].id = call[t].id
      /\ \A u \in Threads \ {t} : call'[u] = call[u]
  BY <1>2 DEF IInv, TypeOK, CallType, Goto
<1> QED
  BY <1>2, <1>3, <1>4, QuietStep
     DEF CreatePoints, HoldPoints, PostPoints, DeletePoints

LEMMA PostCheckIdStep ==
  ASSUME IInv, NEW t \in Threads, PostCheckId(t)
  PROVE  IInv'
<1> DEFINE id == call[t].id
<1>1. CASE Return(t)
  BY <1>1, CallsAfterReturn, ReturnEffect, QuietStep
     DEF IInv, TypeOK, PostCheckId, At,
         CreatePoints, HoldPoints, PostPoints, DeletePoints
<1>2. CASE /\ IdType(id) = AOS_TYPE_BINSEM
           /\ IdIndex(id) \in Slots
           /\ slot[IdIndex(id)].id = id
           /\ Goto(t, "cas")
  <2>1. id \in SemIds
    <3>1. slot[IdIndex(id)].id \in SemIds \cup {AOS_ID_NONE}
      BY <1>2 DEF IInv, TypeOK, SlotType
    <3>2. IdType(AOS_ID_NONE) # AOS_TYPE_BINSEM
      BY SMT DEF IdType, AOS_ID_NONE, AOS_TYPE_BINSEM
    <3> QED BY <1>2, <3>1, <3>2
  <2>2. call[t].op = "Post" /\ "cas" \in Points
    BY DEF IInv, CallDiscipline, PostCheckId, At, Points, PostPoints, Ops
  <2>3. call[t].pc = "Post" /\ UNCHANGED slot
    BY DEF PostCheckId, At
  <2>4. CallDiscipline' /\ ContractKept' /\ TypeOK'
    BY <1>2, <2>1, <2>2, <2>3, CallsAfterGoto DEF IInv, TypeOK, PostPoints
  <2>5. /\ call'[t].pc = "cas" /\ call'[t].id = id
        /\ \A u \in Threads \ {t} : call'[u] = call[u]
    BY <1>2 DEF IInv, TypeOK, CallType, Goto
  <2> QED
    BY <1>2, <2>3, <2>4, <2>5, QuietStep
       DEF CreatePoints, HoldPoints, PostPoints, DeletePoints
<1> QED BY <1>1, <1>2 DEF PostCheckId

LEMMA AcquireStep ==
  ASSUME IInv, NEW t \in Threads, AcquireReference(t)
  PROVE  IInv'
<1> DEFINE i0 == SlotOf(t)
<1> USE DEF IInv
<1>1. CASE Return(t) /\ UNCHANGED slot
  BY <1>1, CallsAfterReturn, ReturnEffect, QuietStep
     DEF TypeOK, AcquireReference, WaitOps,
         CreatePoints, HoldPoints, PostPoints, DeletePoints
<1>2. CASE /\ ValidId(call[t].id)
           /\ slot' = [slot EXCEPT ![i0].ref_count = @ + 1]
           /\ \E point \in {"deadline", "native"} : Goto(t, point)
  <2>1. PICK point \in {"deadline", "native"} : Goto(t, point)
    BY <1>2
  <2>2. /\ i0 \in Slots /\ slot[i0].in_use /\ slot[i0].id = call[t].id
        /\ call[t].id \in SemIds
    <3>1. IdType(AOS_ID_NONE) # AOS_TYPE_BINSEM
      BY SMT DEF IdType, AOS_ID_NONE, AOS_TYPE_BINSEM
    <3> QED BY <1>2, <3>1 DEF ValidId, SlotOf, TypeOK, SlotType
  <2>3. call[t].op \in WaitOps /\ call[t].pc \in WaitOps /\ point \in Points
    BY DEF AcquireReference, CallDiscipline, Ops, Points, HoldPoints
  <2>4. CallDiscipline' /\ ContractKept' /\ call' \in [Threads -> CallType]
    BY <2>1, <2>2, <2>3, CallsAfterGoto DEF HoldPoints
  <2>5. \A u \in Threads : /\ call'[u].pc = IF u = t THEN point ELSE call[u].pc
                           /\ call'[u].id = call[u].id
                           /\ call'[u].value = call[u].value
                           /\ SlotOf(u)' = SlotOf(u)
    BY <2>1, <2>3, GotoEffect
  <2>6. \A i \in Slots :
          /\ slot'[i].ref_count = IF i = i0 THEN slot[i].ref_count + 1
                                            ELSE slot[i].ref_count
          /\ slot'[i].id = slot[i].id /\ slot'[i].in_use = slot[i].in_use
          /\ slot'[i].live = slot[i].live /\ slot'[i].name = slot[i].name
          /\ slot'[i].state = slot[i].state /\ slot'[i].native = slot[i].native
    BY <1>2, <2>2 DEF TypeOK, SlotType
  <2>7. TypeOK'
    BY <1>2, <2>2, <2>4 DEF TypeOK, SlotType
  <2>8. SlotDiscipline'
    BY <2>2, <2>3, <2>5, <2>6, EngagedSlot
       DEF SlotDiscipline, WaitOps, CreatePoints, HoldPoints, PostPoints, DeletePoints
  <2>9. RefCountExact'
    <3> SUFFICES ASSUME NEW i \in Slots
                 PROVE  slot'[i].ref_count = Cardinality({u \in Threads : Holds(u, i)'})
      BY DEF RefCountExact
    <3>1. CASE i = i0
      <4>1. t \notin Holders(i)
        BY <2>3 DEF Holders, Holds, WaitOps, HoldPoints
      <4>2. {u \in Threads : Holds(u, i)'} = Holders(i) \cup {t}
        BY <2>1, <2>5, <3>1 DEF Holders, Holds, HoldPoints
      <4>3. Cardinality(Holders(i) \cup {t}) = Cardinality(Holders(i)) + 1
        BY <4>1, CountIn DEF Holders
      <4> QED BY <2>6, <3>1, <4>2, <4>3 DEF RefCountExact, Holders
    <3>2. CASE i # i0
      <4>1. {u \in Threads : Holds(u, i)'} = Holders(i)
        BY <2>3, <2>5, <3>2 DEF Holders, Holds, WaitOps, HoldPoints
      <4> QED BY <2>6, <3>2, <4>1 DEF RefCountExact, Holders
    <3> QED BY <3>1, <3>2
  <2>10. TokenConserved'
    <3>1. \A i \in Slots, u \in Threads : Carries(u, i)' <=> Carries(u, i)
      BY <2>1, <2>3, <2>5 DEF Carries, WaitOps
    <3> QED BY <2>6, <3>1, TokenKept
  <2>11. RollbackUnreachable' /\ NamesUnique'
    BY <2>1, <2>5, <2>6 DEF RollbackUnreachable, At, NamesUnique
  <2> QED BY <2>4, <2>7, <2>8, <2>9, <2>10, <2>11
<1> QED BY <1>1, <1>2 DEF AcquireReference

(* Whoever has claimed the token of a slot finds the flag set and no other *)
(* token, in the native semaphore or in another hand.                      *)
LEMMA CarrierAlone ==
  ASSUME IInv, NEW t \in Threads, call[t].pc \in {"post", "rollback", "clear"}
  PROVE  /\ SlotOf(t) \in Slots
         /\ slot[SlotOf(t)].id = call[t].id /\ slot[SlotOf(t)].id # AOS_ID_NONE
         /\ slot[SlotOf(t)].state = 1 /\ slot[SlotOf(t)].native = 0
         /\ t \in Carriers(SlotOf(t)) /\ Cardinality(Carriers(SlotOf(t))) = 1
<1> DEFINE i0 == SlotOf(t)
<1>1. i0 \in Slots /\ slot[i0].id = call[t].id /\ call[t].id # AOS_ID_NONE
  BY EngagedSlot DEF IInv, SlotDiscipline, HoldPoints, PostPoints
<1>2. t \in Carriers(i0)
  BY DEF Carriers, Carries
<1>3. Cardinality(Carriers(i0)) >= 1 /\ Cardinality(Carriers(i0)) \in Nat
  BY <1>2, CountOut, CountNat DEF Carriers
<1>4. slot[i0].state = slot[i0].native + Cardinality(Carriers(i0))
  BY <1>1 DEF IInv, TokenConserved, Carriers
<1>5. slot[i0].state \in {0, 1} /\ slot[i0].native \in Nat
  BY <1>1, SlotNumbers DEF IInv
<1> QED BY <1>1, <1>2, <1>3, <1>4, <1>5

LEMMA NativeTakeStep ==
  ASSUME IInv, NEW t \in Threads, NativeTake(t)
  PROVE  IInv'
<1> USE DEF IInv
<1>1. call[t].pc = "native" /\ Goto(t, "clear") /\ slot[SlotOf(t)].native > 0
  BY DEF NativeTake, At
<1>2. call[t].id \in SemIds /\ call[t].op \in WaitOps /\ SlotOf(t) \in Slots
  BY <1>1, EngagedSlot DEF CallDiscipline, HoldPoints
<1>slot. PICK i0 \in Slots : i0 = SlotOf(t)
  BY <1>2
<1> USE <1>slot
<1>3. "clear" \in Points
  BY DEF Points, HoldPoints
<1>4. CallDiscipline' /\ ContractKept' /\ call' \in [Threads -> CallType]
  BY <1>1, <1>2, CallsAfterGoto DEF HoldPoints
<1>5. \A u \in Threads : /\ call'[u].pc = IF u = t THEN "clear" ELSE call[u].pc
                         /\ call'[u].id = call[u].id
                         /\ call'[u].value = call[u].value
                         /\ SlotOf(u)' = SlotOf(u)
  BY <1>1, <1>3, GotoEffect
<1>6. \A i \in Slots :
        /\ slot'[i].native = IF i = i0 THEN slot[i].native - 1 ELSE slot[i].native
        /\ slot'[i].id = slot[i].id /\ slot'[i].in_use = slot[i].in_use
        /\ slot'[i].live = slot[i].live /\ slot'[i].name = slot[i].name
        /\ slot'[i].state = slot[i].state /\ slot'[i].ref_count = slot[i].ref_count
  BY <1>2 DEF NativeTake, TypeOK, SlotType
<1>7. TypeOK'
  <2>1. slot[i0].native \in 0 .. SemValueMax /\ slot[i0].native - 1 \in 0 .. SemValueMax
    <3>1. SemValueMax \in Nat
      BY LimitFacts
    <3> QED BY <1>1, <1>2, <3>1, SlotNumbers
  <2> QED BY SMTT(30), <1>2, <1>4, <2>1 DEF NativeTake, TypeOK, SlotType
<1>8. SlotDiscipline'
  <2>1. \A u \in Threads : call[u].pc \in CreatePoints => SlotOf(u) # i0
    BY <1>1, <1>2, EngagedSlot DEF SlotDiscipline, HoldPoints
  <2> QED
    BY <1>1, <1>5, <1>6, <2>1, EngagedSlot
       DEF SlotDiscipline, CreatePoints, HoldPoints, PostPoints, DeletePoints
<1>9. RefCountExact'
  <2>1. \A i \in Slots, u \in Threads : Holds(u, i)' <=> Holds(u, i)
    BY <1>1, <1>5 DEF Holds, HoldPoints
  <2> QED BY <1>6, <2>1, RefCountKept
<1>10. TokenConserved'
  <2>1. slot[i0].id # AOS_ID_NONE
    BY <1>1, <1>2, EngagedSlot DEF SlotDiscipline, HoldPoints
  <2>2. slot[i0].native \in Nat /\ slot[i0].state \in Nat
    BY LimitFacts DEF TypeOK, SlotType
  <2>3. slot[i0].state = slot[i0].native + Cardinality(Carriers(i0))
    BY <2>1 DEF TokenConserved, Carriers
  <2>4. t \notin Carriers(i0)
    BY <1>1 DEF Carriers, Carries
  <2>5. {u \in Threads : Carries(u, i0)'} = Carriers(i0) \cup {t}
    BY <1>5 DEF Carriers, Carries
  <2>6. /\ Cardinality(Carriers(i0) \cup {t}) = Cardinality(Carriers(i0)) + 1
        /\ Cardinality(Carriers(i0)) \in Nat
    BY <2>4, CountIn, CountNat DEF Carriers
  <2>7. slot'[i0].state = slot'[i0].native + (Cardinality(Carriers(i0)) + 1)
    BY <1>6, <2>2, <2>3, <2>6
  <2>8. \A i \in Slots \ {i0}, u \in Threads : Carries(u, i)' <=> Carries(u, i)
    BY <1>1, <1>5 DEF Carries
  <2> QED BY <1>6, <2>1, <2>5, <2>6, <2>7, <2>8, TokenAt
<1>11. RollbackUnreachable' /\ NamesUnique'
  BY <1>5, <1>6 DEF RollbackUnreachable, At, NamesUnique
<1> QED BY <1>4, <1>7, <1>8, <1>9, <1>10, <1>11

LEMMA ClearStateStep ==
  ASSUME IInv, NEW t \in Threads, ClearState(t)
  PROVE  IInv'
<1> USE DEF IInv
<1>1. call[t].pc = "clear" /\ Goto(t, "release")
  BY DEF ClearState, At
<1>2. call[t].id \in SemIds /\ call[t].op \in WaitOps /\ SlotOf(t) \in Slots
  BY <1>1, EngagedSlot DEF CallDiscipline, HoldPoints
<1>slot. PICK i0 \in Slots : i0 = SlotOf(t)
  BY <1>2
<1> USE <1>slot
<1>3. "release" \in Points
  BY DEF Points, HoldPoints
<1>4. CallDiscipline' /\ ContractKept' /\ call' \in [Threads -> CallType]
  BY <1>1, <1>2, CallsAfterGoto DEF HoldPoints
<1>5. \A u \in Threads : /\ call'[u].pc = IF u = t THEN "release" ELSE call[u].pc
                         /\ call'[u].id = call[u].id
                         /\ call'[u].value = call[u].value
                         /\ SlotOf(u)' = SlotOf(u)
  BY <1>1, <1>3, GotoEffect
<1>6. \A i \in Slots :
        /\ slot'[i].state = IF i = i0 THEN 0 ELSE slot[i].state
        /\ slot'[i].id = slot[i].id /\ slot'[i].in_use = slot[i].in_use
        /\ slot'[i].live = slot[i].live /\ slot'[i].name = slot[i].name
        /\ slot'[i].native = slot[i].native /\ slot'[i].ref_count = slot[i].ref_count
  BY <1>2 DEF ClearState, TypeOK, SlotType
<1>7. TypeOK'
  BY <1>2, <1>4 DEF ClearState, TypeOK, SlotType
<1>8. SlotDiscipline'
  <2>1. \A u \in Threads : call[u].pc \in CreatePoints => SlotOf(u) # i0
    BY <1>1, <1>2, EngagedSlot DEF SlotDiscipline, HoldPoints
  <2> QED
    BY <1>1, <1>5, <1>6, <2>1, EngagedSlot
       DEF SlotDiscipline, CreatePoints, HoldPoints, PostPoints, DeletePoints
<1>9. RefCountExact'
  <2>1. \A i \in Slots, u \in Threads : Holds(u, i)' <=> Holds(u, i)
    BY <1>1, <1>5 DEF Holds, HoldPoints
  <2> QED BY <1>6, <2>1, RefCountKept
<1>10. TokenConserved'
  <2>1. /\ slot[i0].native = 0 /\ slot[i0].id # AOS_ID_NONE
        /\ t \in Carriers(i0) /\ Cardinality(Carriers(i0)) = 1
    BY <1>1, CarrierAlone
  <2>2. {u \in Threads : Carries(u, i0)'} = Carriers(i0) \ {t}
    BY <1>5 DEF Carriers, Carries
  <2>3. Cardinality(Carriers(i0) \ {t}) = 0
    BY <2>1, CountOut DEF Carriers
  <2>4. \A i \in Slots \ {i0}, u \in Threads : Carries(u, i)' <=> Carries(u, i)
    BY <1>1, <1>5 DEF Carries
  <2> QED BY <1>6, <2>1, <2>2, <2>3, <2>4, TokenAt
<1>11. RollbackUnreachable' /\ NamesUnique'
  BY <1>5, <1>6 DEF RollbackUnreachable, At, NamesUnique
<1> QED BY <1>4, <1>7, <1>8, <1>9, <1>10, <1>11

LEMMA ReleaseStep ==
  ASSUME IInv, NEW t \in Threads, ReleaseReference(t)
  PROVE  IInv'
<1> USE DEF IInv
<1>1. call[t].pc = "release" /\ Return(t)
  BY DEF ReleaseReference, At
<1>2. SlotOf(t) \in Slots
  BY <1>1, EngagedSlot DEF HoldPoints
<1>slot. PICK i0 \in Slots : i0 = SlotOf(t)
  BY <1>2
<1> USE <1>slot
<1>3. CallDiscipline' /\ ContractKept' /\ call' \in [Threads -> CallType]
  BY <1>1, CallsAfterReturn, ReturnEffect
<1>4. /\ call'[t].pc = "idle"
      /\ \A u \in Threads : u # t => call'[u] = call[u] /\ SlotOf(u)' = SlotOf(u)
  BY <1>1, ReturnEffect
<1>5. t \in Holders(i0) /\ slot[i0].ref_count = Cardinality(Holders(i0))
  BY <1>1 DEF Holders, Holds, HoldPoints, RefCountExact
<1>6. /\ slot[i0].ref_count \in Nat /\ slot[i0].ref_count >= 1
      /\ slot[i0].ref_count - 1 = Cardinality(Holders(i0) \ {t})
  BY <1>5, CountOut, CountNat DEF Holders
<1>7. \A i \in Slots :
        /\ slot'[i].ref_count = IF i = i0 THEN slot[i].ref_count - 1
                                          ELSE slot[i].ref_count
        /\ slot'[i].id = slot[i].id /\ slot'[i].in_use = slot[i].in_use
        /\ slot'[i].live = slot[i].live /\ slot'[i].name = slot[i].name
        /\ slot'[i].state = slot[i].state /\ slot'[i].native = slot[i].native
  BY <1>6 DEF ReleaseReference, TypeOK, SlotType
<1>8. TypeOK'
  <2>1. slot[i0].ref_count - 1 \in Nat
    BY <1>6
  <2> QED BY <1>3, <1>6, <2>1 DEF ReleaseReference, TypeOK, SlotType
<1>9. SlotDiscipline'
  BY <1>1, <1>4, <1>7, EngagedSlot
     DEF SlotDiscipline, CreatePoints, HoldPoints, PostPoints, DeletePoints
<1>10. RefCountExact'
  <2>1. {u \in Threads : Holds(u, i0)'} = Holders(i0) \ {t}
    BY <1>4 DEF Holders, Holds, HoldPoints
  <2>2. \A i \in Slots \ {i0}, u \in Threads : Holds(u, i)' <=> Holds(u, i)
    BY <1>1, <1>4 DEF Holds, HoldPoints
  <2> QED BY <1>6, <1>7, <2>1, <2>2, RefCountAt
<1>11. TokenConserved'
  <2>1. \A i \in Slots, u \in Threads : Carries(u, i)' <=> Carries(u, i)
    BY <1>1, <1>4 DEF Carries
  <2> QED BY <1>7, <2>1, TokenKept
<1>12. RollbackUnreachable' /\ NamesUnique'
  BY <1>4, <1>7 DEF RollbackUnreachable, At, NamesUnique
<1> QED BY <1>3, <1>8, <1>9, <1>10, <1>11, <1>12

LEMMA PostCasStep ==
  ASSUME IInv, NEW t \in Threads, PostCas(t)
  PROVE  IInv'
<1> USE DEF IInv
<1>1. call[t].pc = "cas" /\ call[t].op = "Post" /\ call[t].id \in SemIds
  BY DEF PostCas, At, CallDiscipline, PostPoints
<1>2. SlotOf(t) \in Slots /\ call[t].id # AOS_ID_NONE
  BY <1>1, EngagedSlot DEF PostPoints
<1>slot. PICK i0 \in Slots : i0 = SlotOf(t)
  BY <1>2
<1> USE <1>slot
<1>3. CASE slot[i0].state # 0
  <2>1. Return(t) /\ UNCHANGED slot
    BY <1>3 DEF PostCas
  <2> QED
    BY <1>1, <2>1, CallsAfterReturn, ReturnEffect, QuietStep
       DEF TypeOK, CreatePoints, HoldPoints, PostPoints, DeletePoints
<1>4. CASE slot[i0].state = 0
  <2>1. Goto(t, "post") /\ slot' = [slot EXCEPT ![i0].state = 1]
    BY <1>4 DEF PostCas
  <2>2. "post" \in Points
    BY DEF Points, PostPoints
  <2>3. CallDiscipline' /\ ContractKept' /\ call' \in [Threads -> CallType]
    BY <1>1, <2>1, CallsAfterGoto DEF PostPoints
  <2>4. \A u \in Threads : /\ call'[u].pc = IF u = t THEN "post" ELSE call[u].pc
                           /\ call'[u].id = call[u].id
                           /\ call'[u].value = call[u].value
                           /\ SlotOf(u)' = SlotOf(u)
    BY <2>1, <2>2, GotoEffect
  <2>5. \A i \in Slots :
          /\ slot'[i].state = IF i = i0 THEN 1 ELSE slot[i].state
          /\ slot'[i].id = slot[i].id /\ slot'[i].in_use = slot[i].in_use
          /\ slot'[i].live = slot[i].live /\ slot'[i].name = slot[i].name
          /\ slot'[i].native = slot[i].native
          /\ slot'[i].ref_count = slot[i].ref_count
    BY <2>1 DEF TypeOK, SlotType
  <2>6. TypeOK'
    BY <2>1, <2>3 DEF TypeOK, SlotType
  <2>7. slot[i0].id # AOS_ID_NONE
    BY <1>1, <1>2 DEF SlotDiscipline, PostPoints
  <2>8. SlotDiscipline'
    BY <1>1, <2>4, <2>5, <2>7, EngagedSlot
       DEF SlotDiscipline, CreatePoints, HoldPoints, PostPoints, DeletePoints
  <2>9. RefCountExact'
    <3>1. \A i \in Slots, u \in Threads : Holds(u, i)' <=> Holds(u, i)
      BY <1>1, <2>4 DEF Holds, HoldPoints
    <3> QED BY <2>5, <3>1, RefCountKept
  <2>10. TokenConserved'
    <3>1. slot[i0].native \in Nat
      BY LimitFacts DEF TypeOK, SlotType
    <3>2. 0 = slot[i0].native + Cardinality(Carriers(i0))
      BY <1>4, <2>7 DEF TokenConserved, Carriers
    <3>3. t \notin Carriers(i0)
      BY <1>1 DEF Carriers, Carries
    <3>4. {u \in Threads : Carries(u, i0)'} = Carriers(i0) \cup {t}
      BY <2>4 DEF Carriers, Carries
    <3>5. /\ Cardinality(Carriers(i0) \cup {t}) = Cardinality(Carriers(i0)) + 1
          /\ Cardinality(Carriers(i0)) \in Nat
      BY <3>3, CountIn, CountNat DEF Carriers
    <3>6. slot'[i0].state = slot'[i0].native + (Cardinality(Carriers(i0)) + 1)
      BY <2>5, <3>1, <3>2, <3>5
    <3>7. \A i \in Slots \ {i0}, u \in Threads : Carries(u, i)' <=> Carries(u, i)
      BY <1>1, <2>4 DEF Carries
    <3> QED BY SMTT(30), <2>5, <2>7, <3>4, <3>5, <3>6, <3>7, TokenAt
  <2>11. RollbackUnreachable' /\ NamesUnique'
    BY <2>4, <2>5 DEF RollbackUnreachable, At, NamesUnique
  <2> QED BY <2>3, <2>6, <2>8, <2>9, <2>10, <2>11
<1> QED BY <1>3, <1>4

LEMMA PostNativeStep ==
  ASSUME IInv, NEW t \in Threads, PostNative(t)
  PROVE  IInv'
<1> USE DEF IInv
<1>1. call[t].pc = "post" /\ Return(t)
  BY DEF PostNative, At
<1>2. SlotOf(t) \in Slots
  BY <1>1, CarrierAlone
<1>slot. PICK i0 \in Slots : i0 = SlotOf(t)
  BY <1>2
<1> USE <1>slot
<1>3. /\ slot[i0].id # AOS_ID_NONE /\ slot[i0].state = 1 /\ slot[i0].native = 0
      /\ t \in Carriers(i0) /\ Cardinality(Carriers(i0)) = 1
  BY <1>1, CarrierAlone
<1>4. CallDiscipline' /\ ContractKept' /\ call' \in [Threads -> CallType]
  BY <1>1, CallsAfterReturn, ReturnEffect
<1>5. /\ call'[t].pc = "idle"
      /\ \A u \in Threads : u # t => call'[u] = call[u] /\ SlotOf(u)' = SlotOf(u)
  BY <1>1, ReturnEffect
<1>6. \A i \in Slots :
        /\ slot'[i].native = IF i = i0 THEN 1 ELSE slot[i].native
        /\ slot'[i].id = slot[i].id /\ slot'[i].in_use = slot[i].in_use
        /\ slot'[i].live = slot[i].live /\ slot'[i].name = slot[i].name
        /\ slot'[i].state = slot[i].state /\ slot'[i].ref_count = slot[i].ref_count
  BY <1>3 DEF PostNative, TypeOK, SlotType
<1>7. TypeOK'
  <2>1. slot[i0].native + 1 \in 0 .. SemValueMax
    BY <1>3, LimitFacts
  <2> QED BY SMTT(30), <1>4, <2>1 DEF PostNative, TypeOK, SlotType
<1>8. SlotDiscipline'
  BY <1>1, <1>3, <1>5, <1>6, EngagedSlot
     DEF SlotDiscipline, CreatePoints, HoldPoints, PostPoints, DeletePoints
<1>9. RefCountExact'
  <2>1. \A i \in Slots, u \in Threads : Holds(u, i)' <=> Holds(u, i)
    BY <1>1, <1>5 DEF Holds, HoldPoints
  <2> QED BY <1>6, <2>1, RefCountKept
<1>10. TokenConserved'
  <2>1. {u \in Threads : Carries(u, i0)'} = Carriers(i0) \ {t}
    BY <1>5 DEF Carriers, Carries
  <2>2. Cardinality(Carriers(i0) \ {t}) = 0
    BY <1>3, CountOut DEF Carriers
  <2>3. \A i \in Slots \ {i0}, u \in Threads : Carries(u, i)' <=> Carries(u, i)
    BY <1>1, <1>5 DEF Carries
  <2> QED BY <1>3, <1>6, <2>1, <2>2, <2>3, TokenAt
<1>11. RollbackUnreachable' /\ NamesUnique'
  BY SMTT(30), <1>5, <1>6 DEF RollbackUnreachable, At, NamesUnique
<1> QED BY <1>4, <1>7, <1>8, <1>9, <1>10, <1>11

(* A poster that has set the flag finds room, and a live semaphore.        *)
LEMMA PostNativeSucceeds ==
  ASSUME IInv, NEW t \in Threads
  PROVE  ~PostNativeFails(t) /\ ~PostRollback(t)
<1>1. ~PostNativeFails(t)
  <2> SUFFICES ASSUME PostNativeFails(t) PROVE FALSE
    OBVIOUS
  <2>1. /\ SlotOf(t) \in Slots /\ slot[SlotOf(t)].id # AOS_ID_NONE
        /\ slot[SlotOf(t)].native = 0
    BY CarrierAlone DEF PostNativeFails, At
  <2>2. slot[SlotOf(t)].live
    BY <2>1 DEF IInv, SlotDiscipline
  <2> QED BY <2>1, <2>2, LimitFacts DEF PostNativeFails
<1>2. ~PostRollback(t)
  BY DEF IInv, RollbackUnreachable, PostRollback
<1> QED BY <1>1, <1>2

(* Nobody waits on or posts to a slot whose id is none.                    *)
LEMMA NoneUnused ==
  ASSUME IInv, NEW i \in Slots, slot[i].id = AOS_ID_NONE
  PROVE  /\ \A u \in Threads :
              call[u].pc \in HoldPoints \cup PostPoints => SlotOf(u) # i
         /\ Cardinality({u \in Threads : Holds(u, i)}) = 0
         /\ Cardinality({u \in Threads : Carries(u, i)}) = 0
<1>1. \A u \in Threads : call[u].pc \in HoldPoints \cup PostPoints => SlotOf(u) # i
  BY EngagedSlot DEF IInv, SlotDiscipline
<1>2. {u \in Threads : Holds(u, i)} = {} /\ {u \in Threads : Carries(u, i)} = {}
  BY <1>1 DEF Holds, Carries, HoldPoints, PostPoints
<1> QED BY <1>1, <1>2, FS_EmptySet

LEMMA CreateLockedStep ==
  ASSUME IInv, NEW t \in Threads, CreateLocked(t)
  PROVE  IInv'
<1> USE DEF IInv
<1>1. /\ call[t].pc = "Create" /\ call[t].op = "Create"
      /\ \A u \in Threads : call[u].pc \notin CreatePoints
  BY DEF CreateLocked, At, TableUnlocked, CallDiscipline, Ops
<1> DEFINE serial(i) == NextSerial(slot[i].serial)
           id(i)     == IdPack(AOS_TYPE_BINSEM, serial(i), i)
<1>2. PICK i0 \in Slots, name \in Names, value \in {0, 1} :
        /\ IsFirstFree(i0)
        /\ ~NameTaken(name)
        /\ slot' = [slot EXCEPT ![i0] =
             [id |-> slot[i0].id, state |-> slot[i0].state,
              native |-> value, live |-> TRUE, ref_count |-> 0,
              serial |-> serial(i0), in_use |-> TRUE, name |-> name]]
        /\ call' = [call EXCEPT ![t] =
             [op |-> "Create", pc |-> "store_state", value |-> value,
              id |-> id(i0)]]
  BY DEF CreateLocked
<1>3. serial(i0) \in 1 .. SerialMod - 1
  BY NextSerialFresh DEF TypeOK, SlotType
<1>4. PICK newid \in SemIds : newid = id(i0) /\ newid # AOS_ID_NONE /\ IdIndex(newid) = i0
  BY <1>3, SemIdFacts
<1>5. /\ ~slot[i0].in_use /\ slot[i0].id = AOS_ID_NONE
  BY <1>2 DEF IsFirstFree, FreeSlots, SlotDiscipline
<1>6. /\ call'[t].op = "Create" /\ call'[t].pc = "store_state"
      /\ call'[t].value = value /\ call'[t].id = newid
      /\ \A u \in Threads : u # t => call'[u] = call[u]
  BY <1>2, <1>4 DEF TypeOK
<1>7. SlotOf(t)' = i0 /\ \A u \in Threads : u # t => SlotOf(u)' = SlotOf(u)
  BY <1>4, <1>6 DEF SlotOf
<1>8. /\ slot'[i0].id = AOS_ID_NONE /\ slot'[i0].native = value
      /\ slot'[i0].in_use /\ slot'[i0].live /\ slot'[i0].ref_count = 0
      /\ slot'[i0].name = name
      /\ \A i \in Slots \ {i0} : slot'[i] = slot[i]
  BY <1>2, <1>5 DEF TypeOK
<1>9. TypeOK'
  <2>1. call' \in [Threads -> CallType]
    BY SMTT(30), <1>2, <1>4 DEF TypeOK, CallType, Ops, Points, CreatePoints
  <2>2. value \in 0 .. SemValueMax /\ serial(i0) \in 0 .. SerialMod - 1
    BY <1>3, SemAssumption, SerialModAssumption
  <2>3. slot' \in [Slots -> SlotType]
    BY <1>2, <2>2 DEF TypeOK, SlotType
  <2> QED BY <2>1, <2>3 DEF TypeOK
<1>10. CallDiscipline'
  BY <1>6 DEF CallDiscipline, Ops, WaitOps, CreatePoints, HoldPoints,
              PostPoints, DeletePoints
<1>11. ContractKept'
  BY <1>1, <1>6 DEF ContractKept
<1>12. \A u \in Threads : /\ call[u].op # "Delete"
                          /\ call[u].pc \notin DeletePoints
  BY <1>1 DEF ContractKept, CallDiscipline
<1>13. SlotDiscipline'
  <2>1. \A u \in Threads \ {t} :
          call'[u].pc \in HoldPoints \cup PostPoints =>
            SlotOf(u) \in Slots \ {i0} /\ slot'[SlotOf(u)].id = call'[u].id
    BY <1>5, <1>6, <1>8, NoneUnused, EngagedSlot DEF SlotDiscipline
  <2>2. \A u \in Threads \ {t} : call'[u].pc \notin CreatePoints \cup DeletePoints
    BY <1>1, <1>6, <1>12
  <2>3. \A i \in Slots : slot'[i].id # AOS_ID_NONE => slot'[i].in_use /\ slot'[i].live
    BY <1>8 DEF SlotDiscipline
  <2>4. "store_state" \notin HoldPoints \cup PostPoints \cup DeletePoints
    BY DEF HoldPoints, PostPoints, DeletePoints
  <2> QED BY <1>6, <1>7, <1>8, <2>1, <2>2, <2>3, <2>4 DEF SlotDiscipline
<1>14. RefCountExact'
  <2>1. {u \in Threads : Holds(u, i0)'} = {u \in Threads : Holds(u, i0)}
    BY <1>1, <1>5, <1>6, <1>7, NoneUnused DEF Holds, HoldPoints
  <2>2. \A i \in Slots \ {i0}, u \in Threads : Holds(u, i)' <=> Holds(u, i)
    BY <1>1, <1>6, <1>7 DEF Holds, HoldPoints
  <2> QED BY <1>5, <1>8, <2>1, <2>2, NoneUnused, RefCountAt
<1>15. TokenConserved'
  <2>1. {u \in Threads : Carries(u, i0)'} = {u \in Threads : Carries(u, i0)}
    BY <1>1, <1>6, <1>7 DEF Carries
  <2>2. \A i \in Slots \ {i0}, u \in Threads : Carries(u, i)' <=> Carries(u, i)
    BY <1>1, <1>6, <1>7 DEF Carries
  <2> QED BY <1>5, <1>8, <2>1, <2>2, NoneUnused, TokenAt
<1>16. RollbackUnreachable'
  BY <1>6 DEF RollbackUnreachable, At
<1>17. NamesUnique'
  BY <1>2, <1>8 DEF NamesUnique, NameTaken
<1> QED BY <1>9, <1>10, <1>11, <1>13, <1>14, <1>15, <1>16, <1>17

LEMMA StoreStateStep ==
  ASSUME IInv, NEW t \in Threads, StoreState(t)
  PROVE  IInv'
<1> USE DEF IInv
<1>1. call[t].pc = "store_state" /\ Goto(t, "publish")
  BY DEF StoreState, At
<1>2. call[t].id \in SemIds /\ call[t].op = "Create" /\ SlotOf(t) \in Slots
  BY <1>1, EngagedSlot DEF CallDiscipline, CreatePoints
<1>slot. PICK i0 \in Slots : i0 = SlotOf(t)
  BY <1>2
<1> USE <1>slot
<1>3. "publish" \in Points
  BY DEF Points, CreatePoints
<1>4. CallDiscipline' /\ ContractKept' /\ call' \in [Threads -> CallType]
  BY <1>1, <1>2, CallsAfterGoto DEF CreatePoints
<1>5. \A u \in Threads : /\ call'[u].pc = IF u = t THEN "publish" ELSE call[u].pc
                         /\ call'[u].id = call[u].id
                         /\ call'[u].value = call[u].value
                         /\ SlotOf(u)' = SlotOf(u)
  BY <1>1, <1>3, GotoEffect
<1>6. \A i \in Slots :
        /\ slot'[i].state = IF i = i0 THEN call[t].value ELSE slot[i].state
        /\ slot'[i].id = slot[i].id /\ slot'[i].in_use = slot[i].in_use
        /\ slot'[i].live = slot[i].live /\ slot'[i].name = slot[i].name
        /\ slot'[i].native = slot[i].native /\ slot'[i].ref_count = slot[i].ref_count
  BY DEF StoreState, TypeOK, SlotType
<1>7. TypeOK'
  BY <1>4 DEF StoreState, TypeOK, SlotType, CallType
<1>8. slot[i0].id = AOS_ID_NONE
  BY <1>1 DEF SlotDiscipline, CreatePoints
<1>9. SlotDiscipline'
  BY <1>1, <1>5, <1>6, EngagedSlot
     DEF SlotDiscipline, CreatePoints, HoldPoints, PostPoints, DeletePoints
<1>10. RefCountExact'
  <2>1. \A i \in Slots, u \in Threads : Holds(u, i)' <=> Holds(u, i)
    BY <1>1, <1>5 DEF Holds, HoldPoints
  <2> QED BY <1>6, <2>1, RefCountKept
<1>11. TokenConserved'
  <2>1. {u \in Threads : Carries(u, i0)'} = {u \in Threads : Carries(u, i0)}
    BY <1>1, <1>5 DEF Carries
  <2>2. \A i \in Slots \ {i0}, u \in Threads : Carries(u, i)' <=> Carries(u, i)
    BY <1>1, <1>5 DEF Carries
  <2> QED BY <1>6, <1>8, <2>1, <2>2, NoneUnused, TokenAt
<1>12. RollbackUnreachable' /\ NamesUnique'
  BY <1>5, <1>6 DEF RollbackUnreachable, At, NamesUnique
<1> QED BY <1>4, <1>7, <1>9, <1>10, <1>11, <1>12

LEMMA PublishIdStep ==
  ASSUME IInv, NEW t \in Threads, PublishId(t)
  PROVE  IInv'
<1> USE DEF IInv
<1>1. call[t].pc = "publish" /\ Return(t)
  BY DEF PublishId, At
<1>2. call[t].id \in SemIds /\ SlotOf(t) \in Slots
  BY <1>1, EngagedSlot DEF CreatePoints
<1>slot. PICK i0 \in Slots : i0 = SlotOf(t)
  BY <1>2
<1> USE <1>slot
<1>3. CallDiscipline' /\ ContractKept' /\ call' \in [Threads -> CallType]
  BY <1>1, CallsAfterReturn, ReturnEffect
<1>4. /\ call'[t].pc = "idle"
      /\ \A u \in Threads : u # t => call'[u] = call[u] /\ SlotOf(u)' = SlotOf(u)
  BY <1>1, ReturnEffect
<1>5. /\ slot[i0].id = AOS_ID_NONE /\ slot[i0].in_use /\ slot[i0].live
      /\ slot[i0].state = call[t].value /\ slot[i0].native = call[t].value
      /\ \A u \in Threads : call[u].pc \in CreatePoints => u = t
  BY <1>1 DEF SlotDiscipline, CreatePoints
<1>6. \A i \in Slots :
        /\ slot'[i].id = IF i = i0 THEN call[t].id ELSE slot[i].id
        /\ slot'[i].in_use = slot[i].in_use
        /\ slot'[i].live = slot[i].live /\ slot'[i].name = slot[i].name
        /\ slot'[i].state = slot[i].state
        /\ slot'[i].native = slot[i].native /\ slot'[i].ref_count = slot[i].ref_count
  BY DEF PublishId, TypeOK, SlotType
<1>7. TypeOK'
  BY <1>2, <1>3 DEF PublishId, TypeOK, SlotType
<1>8. SlotDiscipline'
  <2>1. \A u \in Threads \ {t} :
          call'[u].pc \in HoldPoints \cup PostPoints =>
            SlotOf(u) \in Slots \ {i0} /\ slot'[SlotOf(u)].id = call'[u].id
    BY <1>4, <1>5, <1>6, NoneUnused, EngagedSlot DEF SlotDiscipline
  <2>2. \A u \in Threads \ {t} : call'[u].pc \notin CreatePoints
    BY <1>4, <1>5
  <2>3. \A i \in Slots : slot'[i].id # AOS_ID_NONE => slot'[i].in_use /\ slot'[i].live
    BY <1>5, <1>6 DEF SlotDiscipline
  <2>4. \A u \in Threads \ {t} :
          call'[u].pc \in DeletePoints =>
            SlotOf(u) \in Slots /\ ~slot'[SlotOf(u)].in_use /\ call'[u].pc # "undelete"
    BY <1>4, <1>6, EngagedSlot DEF SlotDiscipline
  <2>5. "idle" \notin CreatePoints \cup HoldPoints \cup PostPoints \cup DeletePoints
    BY DEF CreatePoints, HoldPoints, PostPoints, DeletePoints
  <2> QED BY <1>4, <2>1, <2>2, <2>3, <2>4, <2>5 DEF SlotDiscipline
<1>9. RefCountExact'
  <2>1. \A i \in Slots, u \in Threads : Holds(u, i)' <=> Holds(u, i)
    BY <1>1, <1>4 DEF Holds, HoldPoints
  <2> QED BY <1>6, <2>1, RefCountKept
<1>10. TokenConserved'
  <2>1. {u \in Threads : Carries(u, i0)'} = {u \in Threads : Carries(u, i0)}
    BY <1>1, <1>4 DEF Carries
  <2>2. \A i \in Slots \ {i0}, u \in Threads : Carries(u, i)' <=> Carries(u, i)
    BY <1>1, <1>4 DEF Carries
  <2>3. slot'[i0].state = slot'[i0].native + 0 /\ slot'[i0].id # AOS_ID_NONE
    <3>1. call[t].value \in {0, 1}
      BY DEF TypeOK, CallType
    <3> QED BY <1>2, <1>5, <1>6, <3>1, SemIdFacts
  <2> QED BY <1>5, <1>6, <2>1, <2>2, <2>3, NoneUnused, TokenAt
<1>11. RollbackUnreachable' /\ NamesUnique'
  BY <1>4, <1>6 DEF RollbackUnreachable, At, NamesUnique
<1> QED BY <1>3, <1>7, <1>8, <1>9, <1>10, <1>11

(* A semaphore about to be deleted has no reference and, by the contract,  *)
(* no poster: nobody works on its slot.                                    *)
LEMMA DeleteLockedStep ==
  ASSUME IInv, NEW t \in Threads, DeleteLocked(t)
  PROVE  IInv'
<1> USE DEF IInv
<1>1. call[t].pc = "Delete" /\ call[t].op = "Delete"
  BY DEF DeleteLocked, At, CallDiscipline, Ops
<1>2. CASE Return(t) /\ UNCHANGED slot
  BY <1>1, <1>2, CallsAfterReturn, ReturnEffect, QuietStep
     DEF TypeOK, CreatePoints, HoldPoints, PostPoints, DeletePoints
<1>3. CASE /\ ValidId(call[t].id) /\ slot[SlotOf(t)].ref_count = 0
           /\ slot' = [slot EXCEPT ![SlotOf(t)].id = AOS_ID_NONE,
                                   ![SlotOf(t)].in_use = FALSE]
           /\ Goto(t, "destroy")
  <2>1. /\ SlotOf(t) \in Slots /\ slot[SlotOf(t)].id = call[t].id
        /\ call[t].id \in SemIds
    <3>1. IdType(AOS_ID_NONE) # AOS_TYPE_BINSEM
      BY SMT DEF IdType, AOS_ID_NONE, AOS_TYPE_BINSEM
    <3> QED BY <1>3, <3>1 DEF ValidId, SlotOf, TypeOK, SlotType
  <2>slot. PICK i0 \in Slots : i0 = SlotOf(t)
    BY <2>1
  <2> USE <2>slot
  <2>2. "destroy" \in Points
    BY DEF Points, DeletePoints
  <2>3. CallDiscipline' /\ ContractKept' /\ call' \in [Threads -> CallType]
    BY <1>1, <1>3, <2>1, CallsAfterGoto DEF DeletePoints
  <2>4. \A u \in Threads : /\ call'[u].pc = IF u = t THEN "destroy" ELSE call[u].pc
                           /\ call'[u].id = call[u].id
                           /\ call'[u].value = call[u].value
                           /\ SlotOf(u)' = SlotOf(u)
    BY <1>3, <2>2, GotoEffect
  <2>5. /\ slot'[i0].id = AOS_ID_NONE /\ ~slot'[i0].in_use
        /\ \A i \in Slots \ {i0} : slot'[i].id = slot[i].id
                                 /\ (slot'[i].in_use <=> slot[i].in_use)
        /\ \A i \in Slots :
             /\ slot'[i].live = slot[i].live /\ slot'[i].name = slot[i].name
             /\ slot'[i].state = slot[i].state /\ slot'[i].native = slot[i].native
             /\ slot'[i].ref_count = slot[i].ref_count
    BY <1>3 DEF TypeOK, SlotType
  <2>6. TypeOK'
    <3> DEFINE deleted == [slot[i0] EXCEPT !.id = AOS_ID_NONE, !.in_use = FALSE]
    <3>1. deleted \in SlotType
      BY DEF TypeOK, SlotType
    <3>2. slot' = [slot EXCEPT ![i0] = deleted]
      BY <1>3 DEF TypeOK, SlotType
    <3> HIDE DEF deleted
    <3> QED BY <2>3, <3>1, <3>2 DEF TypeOK
  <2>7. \A u \in Threads : call[u].pc \in HoldPoints => SlotOf(u) # i0
    <3>1. Cardinality({u \in Threads : Holds(u, i0)}) = 0
      BY <1>3 DEF RefCountExact
    <3>2. {u \in Threads : Holds(u, i0)} = {}
      BY <3>1, CountNat, FS_EmptySet
    <3> QED BY <3>2 DEF Holds
  <2>8. \A u \in Threads : call[u].pc \in PostPoints => SlotOf(u) # i0
    BY <1>1, <2>1 DEF CallDiscipline, ContractKept, SlotDiscipline
  <2>9. \A u \in Threads : call[u].pc \notin CreatePoints
    BY <1>1 DEF CallDiscipline, ContractKept
  <2>10. SlotDiscipline'
    <3>1. \A u \in Threads :
            call'[u].pc \in HoldPoints \cup PostPoints =>
              SlotOf(u) \in Slots /\ slot'[SlotOf(u)].id = call'[u].id
      BY <1>1, <2>4, <2>5, <2>7, <2>8, EngagedSlot
         DEF SlotDiscipline, HoldPoints, PostPoints
    <3>2. \A u \in Threads : call'[u].pc \notin CreatePoints
      BY <2>4, <2>9 DEF CreatePoints
    <3>3. \A i \in Slots : slot'[i].id # AOS_ID_NONE => slot'[i].in_use /\ slot'[i].live
      BY <2>5 DEF SlotDiscipline
    <3>4. \A u \in Threads :
            call'[u].pc \in DeletePoints =>
              SlotOf(u) \in Slots /\ ~slot'[SlotOf(u)].in_use /\ call'[u].pc # "undelete"
      BY <2>4, <2>5, EngagedSlot DEF SlotDiscipline
    <3> QED BY <2>4, <3>1, <3>2, <3>3, <3>4 DEF SlotDiscipline
  <2>11. RefCountExact'
    <3>1. \A i \in Slots, u \in Threads : Holds(u, i)' <=> Holds(u, i)
      BY <1>1, <2>4 DEF Holds, HoldPoints
    <3> QED BY <2>5, <3>1, RefCountKept
  <2>12. TokenConserved'
    <3>1. {u \in Threads : Carries(u, i0)'} = {}
      BY <2>4, <2>7, <2>8 DEF Carries, HoldPoints, PostPoints
    <3>2. Cardinality({u \in Threads : Carries(u, i0)'}) = 0
      BY <3>1, FS_EmptySet
    <3>3. \A i \in Slots \ {i0}, u \in Threads : Carries(u, i)' <=> Carries(u, i)
      BY <1>1, <2>4 DEF Carries
    <3> QED BY <2>5, <3>2, <3>3, TokenAt
  <2>13. RollbackUnreachable' /\ NamesUnique'
    BY <2>4, <2>5 DEF RollbackUnreachable, At, NamesUnique
  <2> QED BY <2>3, <2>6, <2>10, <2>11, <2>12, <2>13
<1> QED BY <1>2, <1>3 DEF DeleteLocked

LEMMA DestroyNativeStep ==
  ASSUME IInv, NEW t \in Threads, DestroyNative(t)
  PROVE  IInv'
<1> USE DEF IInv
<1>1. call[t].pc = "destroy" /\ Goto(t, "wipe")
  BY DEF DestroyNative, At
<1>2. call[t].id \in SemIds /\ call[t].op = "Delete" /\ SlotOf(t) \in Slots
  BY <1>1, EngagedSlot DEF CallDiscipline, DeletePoints
<1>slot. PICK i0 \in Slots : i0 = SlotOf(t)
  BY <1>2
<1> USE <1>slot
<1>3. "wipe" \in Points
  BY DEF Points, DeletePoints
<1>4. CallDiscipline' /\ ContractKept' /\ call' \in [Threads -> CallType]
  BY <1>1, <1>2, CallsAfterGoto DEF DeletePoints
<1>5. \A u \in Threads : /\ call'[u].pc = IF u = t THEN "wipe" ELSE call[u].pc
                         /\ call'[u].id = call[u].id
                         /\ call'[u].value = call[u].value
                         /\ SlotOf(u)' = SlotOf(u)
  BY <1>1, <1>3, GotoEffect
<1>6. \A i \in Slots :
        /\ i # i0 => (slot'[i].live <=> slot[i].live)
        /\ slot'[i].id = slot[i].id /\ (slot'[i].in_use <=> slot[i].in_use)
        /\ slot'[i].name = slot[i].name /\ slot'[i].state = slot[i].state
        /\ slot'[i].native = slot[i].native /\ slot'[i].ref_count = slot[i].ref_count
  BY DEF DestroyNative, TypeOK, SlotType
<1>7. TypeOK'
  BY <1>4 DEF DestroyNative, TypeOK, SlotType
<1>8. ~slot[i0].in_use /\ slot[i0].id = AOS_ID_NONE
  BY <1>1 DEF SlotDiscipline, DeletePoints
<1>9. SlotDiscipline'
  BY <1>1, <1>5, <1>6, <1>8, EngagedSlot
     DEF SlotDiscipline, CreatePoints, HoldPoints, PostPoints, DeletePoints
<1>10. RefCountExact'
  <2>1. \A i \in Slots, u \in Threads : Holds(u, i)' <=> Holds(u, i)
    BY <1>1, <1>5 DEF Holds, HoldPoints
  <2> QED BY <1>6, <2>1, RefCountKept
<1>11. TokenConserved'
  <2>1. \A i \in Slots, u \in Threads : Carries(u, i)' <=> Carries(u, i)
    BY <1>1, <1>5 DEF Carries
  <2> QED BY <1>6, <2>1, TokenKept
<1>12. RollbackUnreachable' /\ NamesUnique'
  BY <1>5, <1>6 DEF RollbackUnreachable, At, NamesUnique
<1> QED BY <1>4, <1>7, <1>9, <1>10, <1>11, <1>12

(* No thread is blocked on a semaphore being destroyed: sem_destroy does   *)
(* not refuse.                                                             *)
LEMMA DestroySucceeds ==
  ASSUME IInv, NEW t \in Threads
  PROVE  ~DestroyFails(t) /\ ~Undelete(t)
<1>1. ~DestroyFails(t)
  <2> SUFFICES ASSUME DestroyFails(t) PROVE FALSE
    OBVIOUS
  <2>1. PICK u \in Threads : At(u, "native") /\ SlotOf(u) = SlotOf(t)
    BY DEF DestroyFails
  <2>2. SlotOf(u) \in Slots /\ slot[SlotOf(u)].id # AOS_ID_NONE
    BY <2>1, EngagedSlot DEF IInv, At, SlotDiscipline, HoldPoints
  <2>3. ~slot[SlotOf(t)].in_use
    BY DEF IInv, SlotDiscipline, DestroyFails, At, DeletePoints
  <2> QED BY <2>1, <2>2, <2>3 DEF IInv, SlotDiscipline
<1>2. ~Undelete(t)
  BY DEF IInv, SlotDiscipline, Undelete, At, DeletePoints
<1> QED BY <1>1, <1>2

LEMMA WipeSlotStep ==
  ASSUME IInv, NEW t \in Threads, WipeSlot(t)
  PROVE  IInv'
<1> USE DEF IInv
<1>1. call[t].pc = "wipe" /\ Return(t)
  BY DEF WipeSlot, At
<1>2. SlotOf(t) \in Slots
  BY <1>1, EngagedSlot DEF DeletePoints
<1>slot. PICK i0 \in Slots : i0 = SlotOf(t)
  BY <1>2
<1> USE <1>slot
<1>3. CallDiscipline' /\ ContractKept' /\ call' \in [Threads -> CallType]
  BY <1>1, CallsAfterReturn, ReturnEffect
<1>4. /\ call'[t].pc = "idle"
      /\ \A u \in Threads : u # t => call'[u] = call[u] /\ SlotOf(u)' = SlotOf(u)
  BY <1>1, ReturnEffect
<1>5. ~slot[i0].in_use /\ slot[i0].id = AOS_ID_NONE
  BY <1>1 DEF SlotDiscipline, DeletePoints
<1>6. \A i \in Slots :
        /\ slot'[i].ref_count = IF i = i0 THEN 0 ELSE slot[i].ref_count
        /\ slot'[i].name = IF i = i0 THEN NoName ELSE slot[i].name
        /\ slot'[i].id = slot[i].id /\ slot'[i].in_use = slot[i].in_use
        /\ slot'[i].live = slot[i].live /\ slot'[i].state = slot[i].state
        /\ slot'[i].native = slot[i].native
  BY DEF WipeSlot, TypeOK, SlotType
<1>7. TypeOK'
  <2>1. slot' \in [Slots -> SlotType]
    <3>1. slot[i0] \in SlotType
      BY DEF TypeOK
    <3> QED BY <3>1 DEF WipeSlot, TypeOK, SlotType
  <2> QED BY <1>3, <2>1 DEF TypeOK
<1>8. SlotDiscipline'
  BY <1>1, <1>4, <1>6, EngagedSlot
     DEF SlotDiscipline, CreatePoints, HoldPoints, PostPoints, DeletePoints
<1>9. RefCountExact'
  <2>1. \A i \in Slots, u \in Threads : Holds(u, i)' <=> Holds(u, i)
    BY <1>1, <1>4 DEF Holds, HoldPoints
  <2>2. {u \in Threads : Holds(u, i0)'} = {u \in Threads : Holds(u, i0)}
    BY <2>1
  <2> QED BY <1>5, <1>6, <2>1, <2>2, NoneUnused, RefCountAt
<1>10. TokenConserved'
  <2>1. \A i \in Slots, u \in Threads : Carries(u, i)' <=> Carries(u, i)
    BY <1>1, <1>4 DEF Carries
  <2> QED BY <1>6, <2>1, TokenKept
<1>11. RollbackUnreachable' /\ NamesUnique'
  BY <1>4, <1>5, <1>6 DEF RollbackUnreachable, At, NamesUnique
<1> QED BY <1>3, <1>7, <1>8, <1>9, <1>10, <1>11

-----------------------------------------------------------------------------
(* The theorems *)

LEMMA InitInv == Init => IInv
<1> SUFFICES ASSUME Init PROVE IInv
  OBVIOUS
<1>1. /\ \A i \in Slots : slot[i] = EmptySlot
      /\ \A t \in Threads : call[t] = Idle
  BY DEF Init
<1>2. \A t \in Threads :
        call[t].pc \notin Ops \cup CreatePoints \cup HoldPoints \cup PostPoints
                           \cup DeletePoints
  BY <1>1 DEF Idle, Ops, WaitOps, CreatePoints, HoldPoints, PostPoints, DeletePoints
<1>3. TypeOK
  <2>1. EmptySlot \in SlotType
    BY SemAssumption, SerialModAssumption DEF EmptySlot, SlotType
  <2>2. Idle \in CallType
    BY DEF Idle, CallType, Points
  <2> QED BY <2>1, <2>2 DEF Init, TypeOK
<1>4. CallDiscipline /\ ContractKept
  BY <1>1, <1>2 DEF CallDiscipline, ContractKept, Idle
<1>5. SlotDiscipline /\ RollbackUnreachable /\ NamesUnique
  BY <1>1, <1>2 DEF SlotDiscipline, RollbackUnreachable, At, NamesUnique, EmptySlot,
                    PostPoints
<1>6. ASSUME NEW i \in Slots
      PROVE  {t \in Threads : Holds(t, i)} = {} /\ {t \in Threads : Carries(t, i)} = {}
  BY <1>2 DEF Holds, Carries, HoldPoints, PostPoints
<1>7. RefCountExact /\ TokenConserved
  BY <1>1, <1>6, FS_EmptySet DEF RefCountExact, TokenConserved, EmptySlot
<1> QED BY <1>3, <1>4, <1>5, <1>7 DEF IInv

LEMMA StepKeepsInv ==
  ASSUME IInv, NEW t \in Threads, Step(t)
  PROVE  IInv'
<1>1. ASSUME LockStep(t) PROVE IInv'
  <2>1. ASSUME CreateFails(t) \/ GetInfo(t) PROVE IInv'
    BY <2>1, CreateFailsStep DEF CreateFails, GetInfo, At
  <2> QED
    BY <1>1, <2>1, CreateLockedStep, AcquireStep, ReleaseStep, DeleteLockedStep,
       WipeSlotStep, DestroySucceeds DEF LockStep
<1> QED
  BY <1>1, StoreStateStep, PublishIdStep, TakeDeadlineStep, NativeTakeStep,
     NativeGiveUpStep, ClearStateStep, PostCheckIdStep, PostCasStep,
     PostNativeStep, PostNativeSucceeds, DestroyNativeStep, DestroySucceeds
     DEF Step

LEMMA StutterKeepsInv == IInv /\ UNCHANGED vars => IInv'
BY DEF vars, IInv, TypeOK, CallDiscipline, ContractKept, SlotDiscipline, RefCountExact,
       TokenConserved, RollbackUnreachable, NamesUnique, SlotOf, Holds, Carries, At

LEMMA NextKeepsInv ==
  ASSUME Contract = Obligations
  PROVE  IInv /\ [Next]_vars => IInv'
<1> SUFFICES ASSUME IInv, Next PROVE IInv'
  BY StutterKeepsInv
<1>1. PICK t \in Threads :
        \/ BeginCreate(t)
        \/ \E op \in Ops \ {"Create"}, id \in CallIds : BeginCall(t, op, id)
        \/ Step(t)
  BY DEF Next
<1>2. ASSUME BeginCreate(t) PROVE IInv'
  <2>1. "Create" \in Ops
    BY DEF Ops
  <2> QED BY <1>2, <2>1, BeginStep DEF BeginCreate
<1>3. ASSUME NEW op \in Ops \ {"Create"}, NEW id \in CallIds, BeginCall(t, op, id)
      PROVE  IInv'
  BY <1>3, BeginStep DEF BeginCall
<1> QED BY <1>1, <1>2, <1>3, StepKeepsInv

(* IInv is inductive: while callers keep their obligations it holds in     *)
(* every state, for any number of threads, slots, names and serials.       *)
THEOREM SemInvariant ==
  ASSUME Contract = Obligations
  PROVE  Spec => []IInv
BY InitInv, NextKeepsInv, PTL DEF Spec

(* Every field of a slot and every local of a call keeps its type.         *)
THEOREM SemTypeOK ==
  ASSUME Contract = Obligations
  PROVE  Spec => []TypeOK
<1>1. IInv => TypeOK
  BY DEF IInv
<1> QED BY <1>1, SemInvariant, PTL

(* aos_sem.c counts references exactly: ref_count is the number of threads *)
(* inside Wait, TryWait and TimedWait.                                     *)
THEOREM SemRefCountExact ==
  ASSUME Contract = Obligations
  PROVE  Spec => []RefCountExact
<1>1. IInv => RefCountExact
  BY DEF IInv
<1> QED BY <1>1, SemInvariant, PTL

(* AOS_SemDelete never takes a semaphore from a thread that waits on it.   *)
THEOREM SemWaiterKeepsSlot ==
  ASSUME Contract = Obligations
  PROVE  Spec => []WaiterKeepsSlot
<1>1. IInv => WaiterKeepsSlot
  <2> SUFFICES ASSUME IInv, NEW t \in Threads, NEW i \in Slots, Holds(t, i)
               PROVE  slot[i].in_use /\ slot[i].live /\ slot[i].id = call[t].id
    BY DEF WaiterKeepsSlot
  <2>1. slot[i].id = call[t].id
    BY DEF IInv, SlotDiscipline, Holds
  <2>2. call[t].id # AOS_ID_NONE
    BY EngagedSlot DEF IInv, Holds
  <2> QED BY <2>1, <2>2 DEF IInv, SlotDiscipline
<1> QED BY <1>1, SemInvariant, PTL

(* Strict binary semantics of AOS_SemPost and the waits: one token, either *)
(* in the native semaphore or in one hand, exactly when state is 1.        *)
THEOREM SemTokenConserved ==
  ASSUME Contract = Obligations
  PROVE  Spec => []TokenConserved
<1>1. IInv => TokenConserved
  BY DEF IInv
<1> QED BY <1>1, SemInvariant, PTL

(* The roll-back of AOS_SemPost is unreachable.                            *)
THEOREM SemRollbackUnreachable ==
  ASSUME Contract = Obligations
  PROVE  Spec => []RollbackUnreachable
<1>1. IInv => RollbackUnreachable
  BY DEF IInv
<1> QED BY <1>1, SemInvariant, PTL

(* AOS_SemCreate never gives one name to two semaphores.                   *)
THEOREM SemNamesUnique ==
  ASSUME Contract = Obligations
  PROVE  Spec => []NamesUnique
<1>1. IInv => NamesUnique
  BY DEF IInv
<1> QED BY <1>1, SemInvariant, PTL

-----------------------------------------------------------------------------
(* aos_sem.c implements AosSemToken                                        *)

Posting(i) == \E u \in Threads : At(u, "post") /\ SlotOf(u) = i

(* Who may have the token in hand in each phase.                           *)
LEMMA PhaseFacts ==
  ASSUME IInv, NEW i \in Slots
  PROVE  /\ slot[i].native \in {0, 1} \/ slot[i].id = AOS_ID_NONE
         /\ slot[i].state \in {0, 1} /\ slot[i].native \in Nat
         /\ slot[i].id # AOS_ID_NONE /\ slot[i].state = 0 => slot[i].native = 0
         /\ slot[i].id # AOS_ID_NONE /\ slot[i].native > 0 => slot[i].native = 1 /\ slot[i].state = 1
<1>1. slot[i].state \in {0, 1} /\ slot[i].native \in Nat
  BY SlotNumbers DEF IInv
<1>2. Cardinality(Carriers(i)) \in Nat
  BY CountNat DEF Carriers
<1>3. slot[i].id # AOS_ID_NONE => slot[i].state = slot[i].native + Cardinality(Carriers(i))
  BY DEF IInv, TokenConserved, Carriers
<1> QED BY SMTT(30), <1>1, <1>2, <1>3

LEMMA PostingKept ==
  ASSUME NEW t \in Threads, NEW i \in Slots,
         \A u \in Threads \ {t} : call'[u] = call[u],
         call[t].pc = "post" => SlotOf(t) # i,
         call'[t].pc = "post" => SlotOf(t)' # i
  PROVE  Posting(i)' <=> Posting(i)
<1>1. \A u \in Threads \ {t} : SlotOf(u)' = SlotOf(u)
  BY DEF SlotOf
<1> QED BY <1>1 DEF Posting, At

LEMMA PhaseKept ==
  ASSUME NEW i \in Slots,
         slot'[i].id = slot[i].id,
         \/ slot[i].id = AOS_ID_NONE
         \/ slot'[i].state = slot[i].state /\ slot'[i].native = slot[i].native,
         Posting(i)' <=> Posting(i)
  PROVE  PhaseOf(i)' = PhaseOf(i)
BY DEF PhaseOf, Posting

(* A step that moves no token keeps every phase.                           *)
LEMMA QuietPhases ==
  ASSUME NEW t \in Threads,
         \A u \in Threads \ {t} : call'[u] = call[u],
         call[t].pc # "post", call'[t].pc # "post",
         \A i \in Slots : /\ slot'[i].id = slot[i].id
                          /\ \/ slot[i].id = AOS_ID_NONE
                             \/ slot'[i].state = slot[i].state /\ slot'[i].native = slot[i].native
  PROVE  PhaseMap' = PhaseMap
<1>1. \A i \in Slots : PhaseOf(i)' = PhaseOf(i)
  <2> SUFFICES ASSUME NEW i \in Slots PROVE PhaseOf(i)' = PhaseOf(i)
    OBVIOUS
  <2>1. Posting(i)' <=> Posting(i)
    BY PostingKept
  <2> QED BY <2>1, PhaseKept
<1> QED BY <1>1 DEF PhaseMap

(* A step that touches one slot only moves the phase of that slot.         *)
LEMMA OnePhaseMoves ==
  ASSUME NEW t \in Threads, NEW i0 \in Slots, NEW from, NEW to,
         \A u \in Threads \ {t} : call'[u] = call[u],
         call[t].pc = "post" => SlotOf(t) = i0,
         call'[t].pc = "post" => SlotOf(t)' = i0,
         \A i \in Slots \ {i0} : slot'[i] = slot[i],
         PhaseOf(i0) = from, PhaseOf(i0)' = to
  PROVE  Token!Move(i0, from, to)
<1>1. \A i \in Slots \ {i0} : PhaseOf(i)' = PhaseOf(i)
  <2> SUFFICES ASSUME NEW i \in Slots \ {i0} PROVE PhaseOf(i)' = PhaseOf(i)
    OBVIOUS
  <2>1. Posting(i)' <=> Posting(i)
    BY PostingKept
  <2> QED BY <2>1, PhaseKept
<1>2. PhaseMap[i0] = from
  BY DEF PhaseMap
<1>3. PhaseMap' = [PhaseMap EXCEPT ![i0] = to]
  BY <1>1 DEF PhaseMap
<1> QED BY <1>2, <1>3 DEF Token!Move

LEMMA OthersAfterGoto ==
  ASSUME IInv, NEW t \in Threads, NEW point, Goto(t, point)
  PROVE  /\ call'[t].pc = point /\ SlotOf(t)' = SlotOf(t)
         /\ \A u \in Threads \ {t} : call'[u] = call[u]
BY DEF IInv, TypeOK, CallType, Goto, SlotOf

LEMMA OthersAfterReturn ==
  ASSUME IInv, NEW t \in Threads, Return(t)
  PROVE  /\ call'[t].pc = "idle"
         /\ \A u \in Threads \ {t} : call'[u] = call[u]
BY DEF IInv, TypeOK, CallType, Return, Idle

LEMMA PublishMaps ==
  ASSUME IInv, NEW t \in Threads, PublishId(t)
  PROVE  \E i \in Slots : Token!Create(i)
<1>1. call[t].pc = "publish" /\ SlotOf(t) \in Slots /\ call[t].id # AOS_ID_NONE
  BY EngagedSlot DEF IInv, PublishId, At, CreatePoints
<1> PICK i0 \in Slots : i0 = SlotOf(t)
  BY <1>1
<1>2. /\ slot[i0].id = AOS_ID_NONE
      /\ slot[i0].native = call[t].value /\ slot[i0].state = call[t].value
  BY <1>1 DEF IInv, SlotDiscipline, CreatePoints
<1>3. call[t].value \in {0, 1}
  BY DEF IInv, TypeOK, CallType
<1>4. /\ call'[t].pc = "idle"
      /\ \A u \in Threads \ {t} : call'[u] = call[u]
  BY OthersAfterReturn DEF PublishId
<1>5. /\ slot'[i0].id = call[t].id
      /\ slot'[i0].native = slot[i0].native /\ slot'[i0].state = slot[i0].state
      /\ \A i \in Slots \ {i0} : slot'[i] = slot[i]
  BY DEF IInv, TypeOK, SlotType, PublishId
<1>6. PhaseOf(i0) = "none" /\ PhaseOf(i0)' \in {"empty", "full"}
  BY <1>1, <1>2, <1>3, <1>5 DEF PhaseOf
<1>7. Token!Move(i0, "none", PhaseOf(i0)')
  BY <1>1, <1>4, <1>5, <1>6, OnePhaseMoves
<1> QED BY <1>6, <1>7 DEF Token!Create

LEMMA TakeMaps ==
  ASSUME IInv, IInv', NEW t \in Threads, NativeTake(t)
  PROVE  \E i \in Slots : Token!Take(i)
<1>1. call[t].pc = "native" /\ SlotOf(t) \in Slots
  BY EngagedSlot DEF IInv, NativeTake, At, HoldPoints
<1> PICK i0 \in Slots : i0 = SlotOf(t)
  BY <1>1
<1>2. slot[i0].id # AOS_ID_NONE /\ slot[i0].native > 0
  BY <1>1, EngagedSlot DEF IInv, SlotDiscipline, NativeTake, HoldPoints
<1>3. slot[i0].native = 1 /\ slot[i0].state = 1
  BY <1>2, PhaseFacts
<1>4. /\ call'[t].pc = "clear" /\ SlotOf(t)' = i0
      /\ \A u \in Threads \ {t} : call'[u] = call[u]
  BY OthersAfterGoto DEF NativeTake
<1>5. /\ slot'[i0].id = slot[i0].id /\ slot'[i0].native = 0 /\ slot'[i0].state = 1
      /\ \A i \in Slots \ {i0} : slot'[i] = slot[i]
  BY <1>3 DEF IInv, TypeOK, SlotType, NativeTake
<1>6. ~Posting(i0)
  BY <1>3, CarrierAlone DEF Posting, At
<1>7. ~Posting(i0)'
  BY <1>1, <1>4, <1>6 DEF Posting, At, SlotOf
<1>8. PhaseOf(i0) = "full" /\ PhaseOf(i0)' = "draining"
  BY <1>2, <1>3, <1>5, <1>7 DEF PhaseOf, Posting
<1>9. Token!Move(i0, "full", "draining")
  BY <1>1, <1>4, <1>5, <1>8, OnePhaseMoves
<1> QED BY <1>9 DEF Token!Take

LEMMA ClearMaps ==
  ASSUME IInv, NEW t \in Threads, ClearState(t)
  PROVE  \E i \in Slots : Token!Drain(i)
<1>1. call[t].pc = "clear" /\ SlotOf(t) \in Slots
  BY CarrierAlone DEF ClearState, At
<1> PICK i0 \in Slots : i0 = SlotOf(t)
  BY <1>1
<1>2. /\ slot[i0].id # AOS_ID_NONE /\ slot[i0].state = 1 /\ slot[i0].native = 0
      /\ t \in Carriers(i0) /\ Cardinality(Carriers(i0)) = 1
  BY <1>1, CarrierAlone
<1>3. Carriers(i0) \ {t} = {}
  <2>1. Carriers(i0) \in SUBSET Threads /\ Carriers(i0) \ {t} \in SUBSET Threads
    BY DEF Carriers
  <2>2. Cardinality(Carriers(i0) \ {t}) = 1 - 1
    BY <1>2, <2>1, CountOut
  <2>3. IsFiniteSet(Carriers(i0) \ {t})
    BY <2>1, CountNat
  <2>4. QED
    BY <2>2, <2>3, FS_EmptySet
<1>4. ~Posting(i0)
  BY <1>1, <1>3 DEF Posting, Carriers, Carries, At
<1>5. /\ call'[t].pc = "release" /\ SlotOf(t)' = i0
      /\ \A u \in Threads \ {t} : call'[u] = call[u]
  BY OthersAfterGoto DEF ClearState
<1>6. /\ slot'[i0].id = slot[i0].id /\ slot'[i0].native = 0 /\ slot'[i0].state = 0
      /\ \A i \in Slots \ {i0} : slot'[i] = slot[i]
  BY <1>2 DEF IInv, TypeOK, SlotType, ClearState
<1>7. PhaseOf(i0) = "draining" /\ PhaseOf(i0)' = "empty"
  BY <1>2, <1>4, <1>6 DEF PhaseOf, Posting
<1>8. Token!Move(i0, "draining", "empty")
  BY <1>1, <1>5, <1>6, <1>7, OnePhaseMoves
<1> QED BY <1>8 DEF Token!Drain

LEMMA CasMaps ==
  ASSUME IInv, NEW t \in Threads, PostCas(t)
  PROVE  PhaseMap' = PhaseMap \/ \E i \in Slots : Token!Accept(i)
<1>1. call[t].pc = "cas" /\ SlotOf(t) \in Slots
  BY EngagedSlot DEF IInv, PostCas, At, PostPoints
<1> PICK i0 \in Slots : i0 = SlotOf(t)
  BY <1>1
<1>2. CASE slot[i0].state # 0
  <2>1. Return(t) /\ UNCHANGED slot
    BY <1>2 DEF PostCas
  <2>2. PhaseMap' = PhaseMap
    BY <1>1, <2>1, OthersAfterReturn, QuietPhases
  <2> QED BY <2>2
<1>3. CASE slot[i0].state = 0
  <2>1. Goto(t, "post") /\ slot' = [slot EXCEPT ![i0].state = 1]
    BY <1>3 DEF PostCas
  <2>2. slot[i0].id # AOS_ID_NONE
    BY <1>1, EngagedSlot DEF IInv, SlotDiscipline, PostPoints
  <2>3. slot[i0].native = 0
    BY <1>3, <2>2, PhaseFacts
  <2>4. /\ call'[t].pc = "post" /\ SlotOf(t)' = i0
        /\ \A u \in Threads \ {t} : call'[u] = call[u]
    BY <2>1, OthersAfterGoto
  <2>5. /\ slot'[i0].id = slot[i0].id /\ slot'[i0].native = 0 /\ slot'[i0].state = 1
        /\ \A i \in Slots \ {i0} : slot'[i] = slot[i]
    BY <2>1, <2>3 DEF IInv, TypeOK, SlotType
  <2>6. Posting(i0)'
    BY <2>4 DEF Posting, At
  <2>7. PhaseOf(i0) = "empty" /\ PhaseOf(i0)' = "posting"
    BY <1>3, <2>2, <2>3, <2>5, <2>6 DEF PhaseOf, Posting
  <2>8. Token!Move(i0, "empty", "posting")
    BY <1>1, <2>4, <2>5, <2>7, OnePhaseMoves
  <2> QED BY <2>8 DEF Token!Accept
<1> QED BY <1>2, <1>3

LEMMA PostMaps ==
  ASSUME IInv, NEW t \in Threads, PostNative(t)
  PROVE  \E i \in Slots : Token!Deliver(i)
<1>1. call[t].pc = "post" /\ SlotOf(t) \in Slots
  BY CarrierAlone DEF PostNative, At
<1> PICK i0 \in Slots : i0 = SlotOf(t)
  BY <1>1
<1>2. slot[i0].id # AOS_ID_NONE /\ slot[i0].state = 1 /\ slot[i0].native = 0
  BY <1>1, CarrierAlone
<1>3. Posting(i0)
  BY <1>1 DEF Posting, At
<1>4. /\ call'[t].pc = "idle"
      /\ \A u \in Threads \ {t} : call'[u] = call[u]
  BY OthersAfterReturn DEF PostNative
<1>5. /\ slot'[i0].id = slot[i0].id /\ slot'[i0].native = 1
      /\ \A i \in Slots \ {i0} : slot'[i] = slot[i]
  BY <1>2 DEF IInv, TypeOK, SlotType, PostNative
<1>6. PhaseOf(i0) = "posting" /\ PhaseOf(i0)' = "full"
  BY <1>2, <1>3, <1>5 DEF PhaseOf, Posting
<1>7. Token!Move(i0, "posting", "full")
  BY <1>1, <1>4, <1>5, <1>6, OnePhaseMoves
<1> QED BY <1>7 DEF Token!Deliver

LEMMA SemDeleteMaps ==
  ASSUME IInv, IInv', NEW t \in Threads, DeleteLocked(t)
  PROVE  PhaseMap' = PhaseMap \/ \E i \in Slots : Token!Delete(i)
<1>1. call[t].pc = "Delete"
  BY DEF DeleteLocked, At
<1>2. CASE Return(t) /\ UNCHANGED slot
  BY <1>1, <1>2, OthersAfterReturn, QuietPhases
<1>3. CASE /\ ValidId(call[t].id)
           /\ slot' = [slot EXCEPT ![SlotOf(t)].id = AOS_ID_NONE,
                                   ![SlotOf(t)].in_use = FALSE]
           /\ Goto(t, "destroy")
  <2>1. /\ SlotOf(t) \in Slots /\ slot[SlotOf(t)].id = call[t].id
        /\ call[t].id # AOS_ID_NONE
    <3>1. IdType(AOS_ID_NONE) # AOS_TYPE_BINSEM
      BY SMT DEF IdType, AOS_ID_NONE, AOS_TYPE_BINSEM
    <3> QED BY <1>3, <3>1 DEF ValidId, SlotOf
  <2> PICK i0 \in Slots : i0 = SlotOf(t)
    BY <2>1
  <2>2. /\ call'[t].pc = "destroy" /\ SlotOf(t)' = i0
        /\ \A u \in Threads \ {t} : call'[u] = call[u]
    BY <1>3, OthersAfterGoto
  <2>3. /\ slot'[i0].id = AOS_ID_NONE
        /\ \A i \in Slots \ {i0} : slot'[i] = slot[i]
    BY <1>3 DEF IInv, TypeOK, SlotType
  <2>4. {u \in Threads : Carries(u, i0)'} = Carriers(i0)
    BY <1>1, <2>2 DEF Carriers, Carries, SlotOf
  <2>5. Cardinality({u \in Threads : Carries(u, i0)'}) = 0
    BY <2>3 DEF IInv, TokenConserved
  <2>6. slot[i0].state = slot[i0].native + 0
    BY <2>1, <2>4, <2>5 DEF IInv, TokenConserved, Carriers
  <2>7. PhaseOf(i0) \in {"empty", "full"} /\ PhaseOf(i0)' = "none"
    BY <2>1, <2>3, <2>6, PhaseFacts DEF PhaseOf
  <2>8. Token!Move(i0, PhaseOf(i0), "none")
    BY <1>1, <2>2, <2>3, <2>7, OnePhaseMoves
  <2> QED BY <2>7, <2>8 DEF Token!Delete
<1> QED BY <1>2, <1>3 DEF DeleteLocked

LEMMA QuietMaps ==
  ASSUME IInv, NEW t \in Threads,
         \/ CreateFails(t) \/ CreateLocked(t) \/ StoreState(t)
         \/ AcquireReference(t) \/ TakeDeadline(t) \/ NativeGiveUp(t) \/ ReleaseReference(t)
         \/ PostCheckId(t) \/ DestroyNative(t) \/ WipeSlot(t) \/ GetInfo(t)
  PROVE  PhaseMap' = PhaseMap
<1>1. CASE CreateFails(t) \/ GetInfo(t)
  BY <1>1, OthersAfterReturn, QuietPhases DEF CreateFails, GetInfo, At
<1>2. CASE TakeDeadline(t) \/ NativeGiveUp(t) \/ PostCheckId(t)
  BY <1>2, OthersAfterReturn, OthersAfterGoto, QuietPhases
     DEF TakeDeadline, NativeGiveUp, PostCheckId, At
<1>3. CASE AcquireReference(t)
  <2>1. call[t].pc # "post" /\ call'[t].pc # "post"
        /\ \A u \in Threads \ {t} : call'[u] = call[u]
    BY <1>3, OthersAfterReturn, OthersAfterGoto DEF AcquireReference, WaitOps
  <2>2. \A i \in Slots : /\ slot'[i].id = slot[i].id /\ slot'[i].state = slot[i].state
                         /\ slot'[i].native = slot[i].native
    BY <1>3 DEF AcquireReference, IInv, TypeOK, SlotType
  <2> QED BY <2>1, <2>2, QuietPhases
<1>4. CASE ReleaseReference(t)
  <2>1. call[t].pc # "post" /\ call'[t].pc # "post"
        /\ \A u \in Threads \ {t} : call'[u] = call[u]
    BY <1>4, OthersAfterReturn DEF ReleaseReference, At
  <2>2. \A i \in Slots : /\ slot'[i].id = slot[i].id /\ slot'[i].state = slot[i].state
                         /\ slot'[i].native = slot[i].native
    BY <1>4 DEF ReleaseReference, IInv, TypeOK, SlotType
  <2> QED BY <2>1, <2>2, QuietPhases
<1>5. CASE DestroyNative(t)
  <2>1. call[t].pc # "post" /\ call'[t].pc # "post"
        /\ \A u \in Threads \ {t} : call'[u] = call[u]
    BY <1>5, OthersAfterGoto DEF DestroyNative, At
  <2>2. \A i \in Slots : /\ slot'[i].id = slot[i].id /\ slot'[i].state = slot[i].state
                         /\ slot'[i].native = slot[i].native
    BY <1>5 DEF DestroyNative, IInv, TypeOK, SlotType
  <2> QED BY <2>1, <2>2, QuietPhases
<1>6. CASE WipeSlot(t)
  <2>1. call[t].pc # "post" /\ call'[t].pc # "post"
        /\ \A u \in Threads \ {t} : call'[u] = call[u]
    BY <1>6, OthersAfterReturn DEF WipeSlot, At
  <2>2. \A i \in Slots : /\ slot'[i].id = slot[i].id /\ slot'[i].state = slot[i].state
                         /\ slot'[i].native = slot[i].native
    BY <1>6 DEF WipeSlot, IInv, TypeOK, SlotType
  <2> QED BY <2>1, <2>2, QuietPhases
<1>7. CASE StoreState(t)
  <2>1. call[t].pc = "store_state" /\ SlotOf(t) \in Slots /\ slot[SlotOf(t)].id = AOS_ID_NONE
    BY <1>7, EngagedSlot DEF StoreState, At, IInv, SlotDiscipline, CreatePoints
  <2>2. call[t].pc # "post" /\ call'[t].pc # "post"
        /\ \A u \in Threads \ {t} : call'[u] = call[u]
    BY <1>7, OthersAfterGoto DEF StoreState, At
  <2>3. \A i \in Slots :
          /\ slot'[i].id = slot[i].id
          /\ i # SlotOf(t) =>
               slot'[i].state = slot[i].state /\ slot'[i].native = slot[i].native
    BY <1>7 DEF StoreState, IInv, TypeOK, SlotType
  <2> QED BY <2>1, <2>2, <2>3, QuietPhases
<1>8. CASE CreateLocked(t)
  <2>1. PICK i0 \in Slots, name \in Names, value \in {0, 1} :
          LET serial == NextSerial(slot[i0].serial)
          IN  /\ IsFirstFree(i0)
              /\ slot' = [slot EXCEPT ![i0] =
                   [id |-> slot[i0].id, state |-> slot[i0].state,
                    native |-> value, live |-> TRUE, ref_count |-> 0,
                    serial |-> serial, in_use |-> TRUE, name |-> name]]
              /\ call' = [call EXCEPT ![t] =
                   [op |-> "Create", pc |-> "store_state", value |-> value,
                    id |-> IdPack(AOS_TYPE_BINSEM, serial, i0)]]
    BY <1>8 DEF CreateLocked
  <2>2. slot[i0].id = AOS_ID_NONE
    BY <2>1 DEF IInv, SlotDiscipline, IsFirstFree, FreeSlots
  <2>3. call[t].pc # "post" /\ call'[t].pc # "post"
        /\ \A u \in Threads \ {t} : call'[u] = call[u]
    BY <1>8, <2>1 DEF CreateLocked, At, IInv, TypeOK
  <2>4. \A i \in Slots :
          slot'[i].id = slot[i].id /\ (i # i0 => slot'[i] = slot[i])
    BY <2>1 DEF IInv, TypeOK
  <2> QED BY <2>2, <2>3, <2>4, QuietPhases
<1> QED BY <1>1, <1>2, <1>3, <1>4, <1>5, <1>6, <1>7, <1>8

LEMMA BeginMaps ==
  ASSUME IInv, NEW t \in Threads, NEW op \in Ops, NEW id,
         call[t] = Idle, UNCHANGED slot,
         call' = [call EXCEPT ![t] = [op |-> op, pc |-> op, id |-> id, value |-> 0]]
  PROVE  PhaseMap' = PhaseMap
<1>1. /\ call'[t].pc = op /\ call[t].pc = "idle"
      /\ \A u \in Threads \ {t} : call'[u] = call[u]
  BY DEF IInv, TypeOK, Idle
<1>2. op # "post"
  BY DEF Ops, WaitOps
<1> QED BY <1>1, <1>2, QuietPhases

LEMMA NextMaps ==
  ASSUME IInv, IInv', [Next]_vars
  PROVE  [Token!TokenNext]_PhaseMap
<1> SUFFICES Token!TokenNext \/ PhaseMap' = PhaseMap
  OBVIOUS
<1>1. CASE UNCHANGED vars
  BY <1>1 DEF vars, PhaseMap, PhaseOf, At, SlotOf
<1>2. CASE Next
  <2>1. PICK t \in Threads :
          \/ BeginCreate(t)
          \/ \E op \in Ops \ {"Create"}, id \in CallIds : BeginCall(t, op, id)
          \/ Step(t)
    BY <1>2 DEF Next
  <2>2. CASE BeginCreate(t)
    <3>1. "Create" \in Ops
      BY DEF Ops
    <3> QED BY <2>2, <3>1, BeginMaps DEF BeginCreate
  <2>3. CASE \E op \in Ops \ {"Create"}, id \in CallIds : BeginCall(t, op, id)
    BY <2>3, BeginMaps DEF BeginCall
  <2>4. CASE Step(t)
    <3>1. \/ PublishId(t) \/ NativeTake(t) \/ ClearState(t) \/ PostCas(t) \/ PostNative(t)
          \/ DeleteLocked(t)
          => Token!TokenNext \/ PhaseMap' = PhaseMap
      BY PublishMaps, TakeMaps, ClearMaps, CasMaps, PostMaps, SemDeleteMaps
         DEF Token!TokenNext
    <3> QED
      BY <2>4, <3>1, QuietMaps, PostNativeSucceeds, DestroySucceeds DEF Step, LockStep
  <2> QED BY <2>1, <2>2, <2>3, <2>4
<1> QED BY <1>1, <1>2

LEMMA InitMaps == Init => Token!TokenInit
BY DEF Init, EmptySlot, PhaseMap, PhaseOf, Token!TokenInit

(* aos_sem.c implements the token cycle of aos_sem.h ("strict binary       *)
(* semantics"), for any number of threads, semaphores, names and serials.  *)
THEOREM SemImplementsToken ==
  ASSUME Contract = Obligations
  PROVE  Spec => TokenCycle
<1>1. IInv /\ IInv' /\ [Next]_vars => [Token!TokenNext]_PhaseMap
  BY NextMaps
<1> QED BY <1>1, InitMaps, SemInvariant, PTL DEF Spec, TokenCycle, Token!TokenSpec

=============================================================================
