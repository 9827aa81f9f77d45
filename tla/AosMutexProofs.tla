--------------------------- MODULE AosMutexProofs ---------------------------
(***************************************************************************)
(* Proofs about AosMutex, for any number of threads, mutexes and names:    *)
(* while no create overlaps a delete, IInv is an invariant, and with it    *)
(* every safety property of the module.                                    *)
(***************************************************************************)
EXTENDS AosMutexRefinement, AosMutexCancel, AosIdProofs, FiniteSetTheorems

(* Ids of the pool name the slot and the serial they are for.              *)
LEMMA MutexIdFacts ==
  /\ \A id \in MutexIds : id # AOS_ID_NONE /\ IdIndex(id) \in Slots
  /\ \A serial \in 1 .. SerialMod - 1, i \in Slots :
       LET id == IdPack(AOS_TYPE_MUTEX, serial, i)
       IN  id \in MutexIds /\ IdIndex(id) = i /\ IdSerial(id) = serial
           /\ IdType(id) = AOS_TYPE_MUTEX
<1>1. ASSUME NEW serial \in 1 .. SerialMod - 1, NEW i \in Slots
      PROVE  LET id == IdPack(AOS_TYPE_MUTEX, serial, i)
             IN  id \in MutexIds /\ id # AOS_ID_NONE /\ IdIndex(id) = i
                 /\ IdSerial(id) = serial /\ IdType(id) = AOS_TYPE_MUTEX
  <2>1. serial \in Nat /\ serial < 256
    BY SMTT(30), SerialModAssumption
  <2>2. i \in Nat /\ i < 65536
    BY SMTT(30), MutexAssumption DEF Slots
  <2>3. AOS_TYPE_MUTEX \in Nat /\ AOS_TYPE_MUTEX < 256 /\ AOS_TYPE_MUTEX >= 1
    BY DEF AOS_TYPE_MUTEX
  <2>4. IdPack(AOS_TYPE_MUTEX, serial, i) \in MutexIds
    BY DEF MutexIds
  <2>5. QED
    BY <2>1, <2>2, <2>3, <2>4, IdRoundTrip, LiveIdIsNotNone
<1>2. QED
  BY <1>1 DEF MutexIds

(* The threads are finitely many, and no thread is "no thread".            *)
LEMMA ThreadFacts == IsFiniteSet(Threads) /\ NoThread \notin Threads
BY MutexAssumption

(* A call that is past its checks has the id of a slot of the pool.        *)
LEMMA CallSlot ==
  ASSUME CallDiscipline, NEW u \in Threads,
         call[u].pc \in RefPoints \cup DeletePoints \cup {"native_unlock"}
  PROVE  call[u].id \in MutexIds /\ SlotOf(u) \in Slots
<1>1. call[u].id \in MutexIds
  BY DEF CallDiscipline, Disciplined
<1>2. QED
  BY <1>1, MutexIdFacts DEF SlotOf

(* What passes the checks of an id has an id of the pool. *)
LEMMA ValidIdFacts ==
  ASSUME TypeOK, NEW id, ValidId(id)
  PROVE  /\ id \in MutexIds /\ IdIndex(id) \in Slots
         /\ slot[IdIndex(id)].in_use /\ slot[IdIndex(id)].id = id
<1>1. /\ IdIndex(id) \in Slots /\ slot[IdIndex(id)].in_use
      /\ slot[IdIndex(id)].id = id /\ IdType(id) = AOS_TYPE_MUTEX
  BY DEF ValidId
<1>2. id \in MutexIds \cup {AOS_ID_NONE}
  BY <1>1 DEF TypeOK, SlotType
<1>3. IdType(AOS_ID_NONE) # AOS_TYPE_MUTEX
  BY SMT DEF IdType, AOS_ID_NONE, AOS_TYPE_MUTEX
<1>4. QED
  BY <1>1, <1>2, <1>3

-----------------------------------------------------------------------------
(* Counting references *)

Ref(c, i) == c.pc \in RefPoints /\ IdIndex(c.id) = i

Referrers(i) == {u \in Threads : Refers(u, i)}

One(condition) == IF condition THEN 1 ELSE 0

(* When one thread goes on, the count of every slot changes by what that   *)
(* thread referred to and by what it refers to now.                        *)
LEMMA RefMove ==
  ASSUME NEW t \in Threads, NEW c, NEW i \in Slots,
         call \in [Threads -> CallType], call' = [call EXCEPT ![t] = c]
  PROVE  /\ Cardinality(Referrers(i)) \in Nat
         /\ Refers(t, i) => Cardinality(Referrers(i)) >= 1
         /\ Cardinality({u \in Threads : Refers(u, i)'}) =
              (Cardinality(Referrers(i)) - One(Refers(t, i))) + One(Ref(c, i))
<1> DEFINE others == Referrers(i) \ {t}
<1>1. /\ IsFiniteSet(others) /\ IsFiniteSet(Referrers(i))
      /\ Cardinality(others) \in Nat /\ Cardinality(Referrers(i)) \in Nat
  BY FS_Subset, FS_CardinalityType, ThreadFacts DEF Referrers
<1>2. Cardinality(Referrers(i)) = Cardinality(others) + One(Refers(t, i))
  <2>1. CASE Refers(t, i)
    <3>1. Referrers(i) = others \cup {t} /\ t \notin others
      BY <2>1 DEF Referrers
    <3>2. Cardinality(Referrers(i)) = Cardinality(others) + 1
      BY <1>1, <3>1, FS_AddElement
    <3>3. QED
      BY <2>1, <3>2 DEF One
  <2>2. CASE ~Refers(t, i)
    <3>1. Referrers(i) = others
      BY <2>2 DEF Referrers
    <3>2. QED
      BY <1>1, <2>2, <3>1 DEF One
  <2>3. QED
    BY <2>1, <2>2
<1>3. Cardinality({u \in Threads : Refers(u, i)'}) = Cardinality(others) + One(Ref(c, i))
  <2>1. \A u \in Threads : Refers(u, i)' <=> IF u = t THEN Ref(c, i) ELSE Refers(u, i)
    BY DEF Refers, Ref, SlotOf
  <2>2. CASE Ref(c, i)
    <3>1. {u \in Threads : Refers(u, i)'} = others \cup {t} /\ t \notin others
      BY <2>1, <2>2 DEF Referrers
    <3>2. Cardinality(others \cup {t}) = Cardinality(others) + 1
      BY <1>1, <3>1, FS_AddElement
    <3>3. QED
      BY <2>2, <3>1, <3>2 DEF One
  <2>3. CASE ~Ref(c, i)
    <3>1. {u \in Threads : Refers(u, i)'} = others
      BY <2>1, <2>3 DEF Referrers
    <3>2. QED
      BY <1>1, <2>3, <3>1 DEF One
  <2>4. QED
    BY <2>2, <2>3
<1> HIDE DEF others
<1>4. QED
  BY <1>1, <1>2, <1>3 DEF One

(* So the counts stay exact if ref_count and the owner change alike.       *)
LEMMA RefCountStep ==
  ASSUME TypeOK, RefCountExact, NEW t \in Threads, NEW c,
         call' = [call EXCEPT ![t] = c],
         \A i \in Slots :
           slot'[i].ref_count =
             ((slot[i].ref_count - One(Refers(t, i)) - One(slot[i].owner # NoThread))
               + One(Ref(c, i))) + One(slot'[i].owner # NoThread)
  PROVE  RefCountExact'
<1> SUFFICES ASSUME NEW i \in Slots
             PROVE  slot'[i].ref_count =
                      Cardinality({u \in Threads : Refers(u, i)'})
                        + (IF slot'[i].owner # NoThread THEN 1 ELSE 0)
  BY DEF RefCountExact
<1>1. /\ Cardinality(Referrers(i)) \in Nat
      /\ Cardinality({u \in Threads : Refers(u, i)'}) =
           (Cardinality(Referrers(i)) - One(Refers(t, i))) + One(Ref(c, i))
  BY RefMove DEF TypeOK
<1>2. slot[i].ref_count = Cardinality(Referrers(i)) + One(slot[i].owner # NoThread)
  BY DEF RefCountExact, Referrers, One
<1>3. \A condition \in BOOLEAN : One(condition) \in 0 .. 1
  BY DEF One
<1> HIDE DEF Referrers
<1>4. QED
  BY <1>1, <1>2 DEF One

-----------------------------------------------------------------------------
(* What the steps do to the calls *)

LEMMA CallStep ==
  ASSUME IInv, NEW t \in Threads, NEW c \in CallType,
         call' = [call EXCEPT ![t] = c], Disciplined(c), c.op \in {call[t].op, "none"}
  PROVE  /\ call' \in [Threads -> CallType]
         /\ \A u \in Threads : call'[u] = IF u = t THEN c ELSE call[u]
         /\ CallDiscipline' /\ ContractKept'
<1>1. call \in [Threads -> CallType]
  BY DEF IInv, TypeOK
<1>2. /\ call' \in [Threads -> CallType]
      /\ \A u \in Threads : call'[u] = IF u = t THEN c ELSE call[u]
  BY <1>1
<1>3. CallDiscipline'
  BY <1>2 DEF IInv, CallDiscipline, Disciplined
<1>4. ContractKept'
  BY <1>2 DEF IInv, ContractKept
<1>5. QED
  BY <1>2, <1>3, <1>4

LEMMA IdleFacts ==
  /\ Idle \in CallType /\ Disciplined(Idle)
  /\ Idle.op = "none" /\ Idle.pc = "idle"
  /\ \A i : ~Ref(Idle, i)
BY DEF Idle, CallType, Points, Ops, LockOps, Disciplined, RefPoints, DeletePoints, Ref

(* Goto is a step of this form. *)
LEMMA GotoIs ==
  ASSUME TypeOK, NEW t \in Threads, NEW point \in Points, Goto(t, point)
  PROVE  LET c == [op |-> call[t].op, pc |-> point, id |-> call[t].id]
         IN  c \in CallType /\ call' = [call EXCEPT ![t] = c]
<1> DEFINE c == [op |-> call[t].op, pc |-> point, id |-> call[t].id]
<1>1. call[t] \in CallType
  BY DEF TypeOK
<1>2. c \in CallType
  BY <1>1 DEF CallType
<1>3. [call[t] EXCEPT !.pc = point] = c
  BY <1>1 DEF CallType
<1>4. call' = [call EXCEPT ![t] = [call[t] EXCEPT !.pc = point]]
  BY DEF Goto
<1>5. QED
  BY <1>2, <1>3, <1>4

(* A step that writes no slot: the thread's references stay, and a delete  *)
(* or an unlock is not entered.                                            *)
LEMMA QuietStep ==
  ASSUME IInv, NEW t \in Threads, NEW c \in CallType, UNCHANGED slot,
         call' = [call EXCEPT ![t] = c], Disciplined(c),
         CallDiscipline', ContractKept',
         c.pc \notin DeletePoints,
         c.pc \in RefPoints <=> call[t].pc \in RefPoints,
         c.pc \in RefPoints => c.id = call[t].id,
         c.pc = "native_unlock" => slot[IdIndex(c.id)].id = c.id
  PROVE  IInv'
<1>1. /\ call' \in [Threads -> CallType]
      /\ \A u \in Threads : call'[u] = IF u = t THEN c ELSE call[u]
  BY DEF IInv, TypeOK
<1>2. TypeOK'
  BY <1>1 DEF IInv, TypeOK
<1>3. SlotDiscipline'
  BY <1>1 DEF IInv, SlotDiscipline, SlotOf, At
<1>4. RefCountExact'
  <2>1. \A i \in Slots : Ref(c, i) <=> Refers(t, i)
    BY DEF Ref, Refers, SlotOf
  <2>2. \A i \in Slots : slot[i].ref_count \in Nat
    BY DEF IInv, TypeOK, SlotType
  <2>3. ASSUME NEW i \in Slots
        PROVE  slot'[i].ref_count =
                 ((slot[i].ref_count - One(Refers(t, i)) - One(slot[i].owner # NoThread))
                   + One(Ref(c, i))) + One(slot'[i].owner # NoThread)
    <3>1. One(Ref(c, i)) = One(Refers(t, i))
      BY <2>1 DEF One
    <3>2. One(Refers(t, i)) \in Nat /\ One(slot[i].owner # NoThread) \in Nat
      BY DEF One
    <3>3. \A r, x, y \in Nat : r = ((r - x - y) + x) + y
      OBVIOUS
    <3>4. QED
      BY <2>2, <3>1, <3>2, <3>3
  <2>4. QED
    BY <2>3, RefCountStep DEF IInv
<1>5. NamesUnique'
  BY DEF IInv, NamesUnique
<1>6. QED
  BY <1>2, <1>3, <1>4, <1>5 DEF IInv

(* A return that leaves no reference behind. *)
LEMMA QuietReturn ==
  ASSUME IInv, NEW t \in Threads, Return(t), UNCHANGED slot, call[t].pc \notin RefPoints
  PROVE  IInv'
<1>1. CallDiscipline' /\ ContractKept'
  BY IdleFacts, CallStep DEF Return
<1>2. QED
  BY <1>1, IdleFacts, QuietStep DEF Return, RefPoints, DeletePoints

(* A step on a slot whose occupant stays: only the count and the owner     *)
(* change.                                                                 *)
LEMMA OccupantStep ==
  ASSUME IInv, NEW t \in Threads, NEW c \in CallType, NEW i0 \in Slots,
         NEW r \in Nat, NEW o \in {slot[i0].owner, t, NoThread},
         call' = [call EXCEPT ![t] = c], CallDiscipline', ContractKept',
         slot' = [slot EXCEPT ![i0] = [slot[i0] EXCEPT !.ref_count = r, !.owner = o]],
         slot[i0].in_use,
         c.pc \notin DeletePoints \cup {"native_unlock"},
         c.pc \in RefPoints => IdIndex(c.id) = i0 /\ c.id = slot[i0].id,
         call[t].pc \in RefPoints => SlotOf(t) = i0,
         r = ((slot[i0].ref_count - One(Refers(t, i0)) - One(slot[i0].owner # NoThread))
               + One(Ref(c, i0))) + One(o # NoThread)
  PROVE  IInv'
<1>1. /\ call' \in [Threads -> CallType]
      /\ \A u \in Threads : call'[u] = IF u = t THEN c ELSE call[u]
  BY DEF IInv, TypeOK
<1>2. slot[i0] \in SlotType
  BY DEF IInv, TypeOK
<1>3. /\ slot' \in [Slots -> SlotType]
      /\ slot'[i0].ref_count = r /\ slot'[i0].owner = o
      /\ \A i \in Slots : /\ slot'[i].in_use = slot[i].in_use
                          /\ slot'[i].live = slot[i].live
                          /\ slot'[i].id = slot[i].id
                          /\ slot'[i].serial = slot[i].serial
                          /\ slot'[i].name = slot[i].name
                          /\ i # i0 => /\ slot'[i].owner = slot[i].owner
                                       /\ slot'[i].ref_count = slot[i].ref_count
  <2>1. [slot[i0] EXCEPT !.ref_count = r, !.owner = o] \in SlotType
    BY <1>2 DEF SlotType
  <2>2. QED
    BY <1>2, <2>1 DEF IInv, TypeOK, SlotType
<1>4. SlotDiscipline'
  <2>1. ASSUME NEW i \in Slots
        PROVE  /\ slot'[i].in_use => /\ slot'[i].live
                                     /\ slot'[i].id \in MutexIds
                                     /\ IdIndex(slot'[i].id) = i
                                     /\ IdSerial(slot'[i].id) = slot'[i].serial
               /\ slot'[i].owner # NoThread => slot'[i].in_use
    BY <1>3 DEF IInv, SlotDiscipline
  <2>2. ASSUME NEW u \in Threads
        PROVE  LET s == slot'[SlotOf(u)']
               IN  /\ call'[u].pc \in RefPoints => s.in_use /\ s.id = call'[u].id
                   /\ call'[u].pc \in DeletePoints => ~s.in_use /\ call'[u].pc # "undelete"
                   /\ call'[u].pc = "native_unlock" /\ s.owner = u => s.id = call'[u].id
    <3>1. CASE u = t
      BY <1>1, <1>3, <3>1 DEF SlotOf
    <3>2. CASE u # t
      <4>1. call'[u] = call[u] /\ SlotOf(u)' = SlotOf(u)
        BY <1>1, <3>2 DEF SlotOf
      <4>2. CASE call[u].pc \in RefPoints \cup DeletePoints \cup {"native_unlock"}
        <5>1. SlotOf(u) \in Slots
          BY <4>2, CallSlot DEF IInv
        <5>2. NoThread \notin Threads
          BY ThreadFacts
        <5>3. QED
          BY <1>3, <3>2, <4>1, <5>1, <5>2 DEF IInv, SlotDiscipline, At
      <4>3. CASE call[u].pc \notin RefPoints \cup DeletePoints \cup {"native_unlock"}
        BY <4>1, <4>3
      <4>4. QED
        BY <4>2, <4>3
    <3>3. QED
      BY <3>1, <3>2
  <2>3. QED
    BY <2>1, <2>2 DEF SlotDiscipline, At
<1>5. RefCountExact'
  <2>1. ASSUME NEW i \in Slots, i # i0
        PROVE  One(Refers(t, i)) = 0 /\ One(Ref(c, i)) = 0
    BY <2>1 DEF Refers, Ref, One
  <2>2. ASSUME NEW i \in Slots
        PROVE  slot'[i].ref_count =
                 ((slot[i].ref_count - One(Refers(t, i)) - One(slot[i].owner # NoThread))
                   + One(Ref(c, i))) + One(slot'[i].owner # NoThread)
    <3>1. CASE i = i0
      BY <1>3, <3>1
    <3>2. CASE i # i0
      <4>1. slot[i].ref_count \in Nat /\ One(slot[i].owner # NoThread) \in Nat
        BY DEF IInv, TypeOK, SlotType, One
      <4>2. \A x, y \in Nat : x = ((x - 0 - y) + 0) + y
        OBVIOUS
      <4>3. QED
        BY <1>3, <2>1, <3>2, <4>1, <4>2
    <3>3. QED
      BY <3>1, <3>2
  <2>3. QED
    BY <2>2, RefCountStep DEF IInv
<1>6. NamesUnique'
  BY <1>3 DEF IInv, NamesUnique
<1>7. TypeOK'
  BY <1>1, <1>3 DEF TypeOK
<1>8. QED
  BY <1>4, <1>5, <1>6, <1>7 DEF IInv

-----------------------------------------------------------------------------
(* Every step keeps IInv *)

(* Whoever holds a reference works on a slot in use, with its own id. *)
LEMMA ReferrerSlot ==
  ASSUME IInv, NEW t \in Threads, call[t].pc \in RefPoints
  PROVE  /\ call[t].id \in MutexIds /\ SlotOf(t) \in Slots
         /\ slot[SlotOf(t)].in_use /\ slot[SlotOf(t)].live
         /\ slot[SlotOf(t)].id = call[t].id
         /\ Refers(t, SlotOf(t))
<1>1. call[t].id \in MutexIds /\ SlotOf(t) \in Slots
  BY CallSlot DEF IInv
<1>2. QED
  BY <1>1 DEF IInv, SlotDiscipline, Refers

LEMMA BeginStep ==
  ASSUME IInv, CreateOverlapsDelete = FALSE, NEW t \in Threads, NEW op \in Ops,
         NEW id \in CallIds \cup {AOS_ID_NONE}, Begin(t, op, id)
  PROVE  IInv'
<1> DEFINE c == [op |-> op, pc |-> op, id |-> id]
<1>1. call[t].op = "none" /\ call[t].pc = "idle"
  BY DEF Begin, Idle
<1>2. c \in CallType /\ Disciplined(c) /\ call' = [call EXCEPT ![t] = c]
  BY DEF Begin, CallType, Points, Disciplined, Ops, LockOps, RefPoints, DeletePoints
<1>3. \A u \in Threads : call'[u] = IF u = t THEN c ELSE call[u]
  BY <1>2 DEF IInv, TypeOK
<1>4. CallDiscipline'
  BY <1>2, <1>3 DEF IInv, CallDiscipline, Disciplined
<1>5. ContractKept'
  <2>1. \A u \in Threads : /\ ~(op = "Create" /\ call[u].op = "Delete")
                           /\ ~(op = "Delete" /\ call[u].op = "Create")
    BY DEF Begin, Permitted
  <2>2. QED
    BY <1>3, <2>1 DEF IInv, ContractKept
<1>6. c.pc \notin DeletePoints \cup RefPoints \cup {"native_unlock"}
  BY DEF Ops, LockOps, DeletePoints, RefPoints
<1>7. UNCHANGED slot
  BY DEF Begin
<1> HIDE DEF c
<1>8. QED
  BY <1>1, <1>2, <1>4, <1>5, <1>6, <1>7, QuietStep DEF RefPoints

LEMMA AcquireStep ==
  ASSUME IInv, NEW t \in Threads, AcquireReference(t)
  PROVE  IInv'
<1>1. call[t].pc \in LockOps /\ call[t].pc \notin RefPoints
  BY DEF AcquireReference, LockOps, RefPoints
<1>2. call[t].op \in LockOps
  BY <1>1 DEF IInv, CallDiscipline, Disciplined, Ops
<1>3. CASE ~ValidId(call[t].id)
  BY <1>1, <1>3, QuietReturn DEF AcquireReference
<1>4. CASE ValidId(call[t].id)
  <2>1. PICK point \in {"deadline", "native"} : Goto(t, point)
    BY <1>4 DEF AcquireReference
  <2> DEFINE c == [op |-> call[t].op, pc |-> point, id |-> call[t].id]
             i0 == SlotOf(t)
  <2>2. /\ call[t].id \in MutexIds /\ i0 \in Slots
        /\ slot[i0].in_use /\ slot[i0].id = call[t].id
    BY <1>4, ValidIdFacts DEF IInv, SlotOf
  <2>3. c \in CallType /\ call' = [call EXCEPT ![t] = c]
    <3>1. point \in Points
      BY DEF Points
    <3>2. QED
      BY <2>1, <3>1, GotoIs DEF IInv
  <2>4. Disciplined(c)
    BY <1>2, <2>2 DEF Disciplined, Ops, LockOps, DeletePoints, RefPoints
  <2>5. CallDiscipline' /\ ContractKept'
    BY <2>3, <2>4, CallStep
  <2>6. slot[i0] \in SlotType
    BY <2>2 DEF IInv, TypeOK
  <2>7. slot' = [slot EXCEPT ![i0] = [slot[i0] EXCEPT !.ref_count = slot[i0].ref_count + 1,
                                                      !.owner = slot[i0].owner]]
    BY <1>4, <2>6 DEF AcquireReference, SlotType, IInv, TypeOK
  <2>8. slot[i0].ref_count \in Nat /\ slot[i0].ref_count + 1 \in Nat
    BY <2>6 DEF SlotType
  <2>9. slot[i0].ref_count + 1 =
          ((slot[i0].ref_count - One(Refers(t, i0)) - One(slot[i0].owner # NoThread))
               + One(Ref(c, i0))) + One(slot[i0].owner # NoThread)
    <3>1. One(Refers(t, i0)) = 0 /\ One(Ref(c, i0)) = 1
      BY <1>1 DEF One, Refers, Ref, RefPoints, SlotOf
    <3>2. One(slot[i0].owner # NoThread) \in Nat
      BY DEF One
    <3>3. \A x, y \in Nat : x + 1 = ((x - 0 - y) + 1) + y
      OBVIOUS
    <3>4. QED
      BY <2>8, <3>1, <3>2, <3>3
  <2>10. c.pc \notin DeletePoints \cup {"native_unlock"} /\ IdIndex(c.id) = i0 /\ c.id = slot[i0].id
    BY <2>2 DEF DeletePoints, SlotOf
  <2> HIDE DEF c, i0
  <2>11. QED
    BY <1>1, <2>2, <2>3, <2>5, <2>7, <2>8, <2>9, <2>10, OccupantStep
<1>5. QED
  BY <1>3, <1>4

LEMMA TakeDeadlineStep ==
  ASSUME IInv, NEW t \in Threads, TakeDeadline(t)
  PROVE  IInv'
<1>1. PICK point \in {"native", "release"} : Goto(t, point)
  BY DEF TakeDeadline
<1> DEFINE c == [op |-> call[t].op, pc |-> point, id |-> call[t].id]
<1>2. call[t].pc = "deadline" /\ UNCHANGED slot
  BY DEF TakeDeadline, At
<1>3. c \in CallType /\ call' = [call EXCEPT ![t] = c]
  BY <1>1, GotoIs DEF IInv, Points
<1>4. Disciplined(c)
  BY <1>2 DEF IInv, CallDiscipline, Disciplined, Ops, LockOps, DeletePoints, RefPoints
<1>5. CallDiscipline' /\ ContractKept'
  BY <1>3, <1>4, CallStep
<1>6. /\ c.pc \notin DeletePoints \cup {"native_unlock"} /\ c.pc \in RefPoints
      /\ call[t].pc \in RefPoints /\ c.id = call[t].id
  BY <1>2 DEF DeletePoints, RefPoints
<1> HIDE DEF c
<1>7. QED
  BY <1>2, <1>3, <1>4, <1>5, <1>6, QuietStep

(* The reference of a lock passes to the owner. *)
LEMMA NativeLockStep ==
  ASSUME IInv, NEW t \in Threads, NativeLock(t)
  PROVE  IInv'
<1> DEFINE i0 == SlotOf(t)
<1>1. /\ call[t].pc \in RefPoints /\ slot[i0].owner = NoThread
      /\ slot' = [slot EXCEPT ![i0].owner = t] /\ call' = [call EXCEPT ![t] = Idle]
  BY DEF NativeLock, At, RefPoints, Return
<1>2. i0 \in Slots /\ slot[i0].in_use /\ Refers(t, i0)
  BY <1>1, ReferrerSlot
<1>3. CallDiscipline' /\ ContractKept'
  BY <1>1, IdleFacts, CallStep
<1>4. slot[i0] \in SlotType
  BY <1>2 DEF IInv, TypeOK
<1>5. slot' = [slot EXCEPT ![i0] = [slot[i0] EXCEPT !.ref_count = slot[i0].ref_count,
                                                    !.owner = t]]
  BY <1>1, <1>4 DEF SlotType, IInv, TypeOK
<1>6. slot[i0].ref_count \in Nat
  BY <1>4 DEF SlotType
<1>7. slot[i0].ref_count =
        ((slot[i0].ref_count - One(Refers(t, i0)) - One(slot[i0].owner # NoThread))
             + One(Ref(Idle, i0))) + One(t # NoThread)
  <2>1. One(Refers(t, i0)) = 1 /\ One(Ref(Idle, i0)) = 0
    BY SMTT(30), <1>2, IdleFacts DEF One
  <2>2. One(slot[i0].owner # NoThread) = 0 /\ One(t # NoThread) = 1
    BY <1>1, ThreadFacts DEF One
  <2>3. \A x \in Nat : x = ((x - 1 - 0) + 0) + 1
    OBVIOUS
  <2>4. QED
    BY <1>6, <2>1, <2>2, <2>3
<1>8. Idle.pc \notin DeletePoints \cup RefPoints \cup {"native_unlock"}
  BY DEF Idle, DeletePoints, RefPoints
<1>9. Idle \in CallType
  BY IdleFacts
<1> HIDE DEF i0
<1>10. QED
  BY <1>1, <1>2, <1>3, <1>5, <1>6, <1>7, <1>8, <1>9, OccupantStep DEF i0

LEMMA NativeLockFailsStep ==
  ASSUME IInv, NEW t \in Threads, NativeLockFails(t)
  PROVE  IInv'
<1> DEFINE c == [op |-> call[t].op, pc |-> "release", id |-> call[t].id]
<1>2. call[t].pc = "native" /\ Goto(t, "release") /\ UNCHANGED slot
  BY DEF NativeLockFails, At
<1>3. c \in CallType /\ call' = [call EXCEPT ![t] = c]
  BY <1>2, GotoIs DEF IInv, Points
<1>4. Disciplined(c)
  BY <1>2 DEF IInv, CallDiscipline, Disciplined, Ops, LockOps, DeletePoints, RefPoints
<1>5. CallDiscipline' /\ ContractKept'
  BY <1>3, <1>4, CallStep
<1>6. /\ c.pc \notin DeletePoints \cup {"native_unlock"} /\ c.pc \in RefPoints
      /\ call[t].pc \in RefPoints /\ c.id = call[t].id
  BY <1>2 DEF DeletePoints, RefPoints
<1> HIDE DEF c
<1>7. QED
  BY <1>2, <1>3, <1>4, <1>5, <1>6, QuietStep

LEMMA ReleaseStep ==
  ASSUME IInv, NEW t \in Threads, ReleaseReference(t)
  PROVE  IInv'
<1> DEFINE i0 == SlotOf(t)
           r  == slot[i0].ref_count - 1
<1>1. /\ call[t].pc \in RefPoints /\ call' = [call EXCEPT ![t] = Idle]
  BY DEF ReleaseReference, At, RefPoints, Return
<1>2. i0 \in Slots /\ slot[i0].in_use /\ Refers(t, i0)
  BY <1>1, ReferrerSlot
<1>3. CallDiscipline' /\ ContractKept'
  BY <1>1, IdleFacts, CallStep
<1>4. slot[i0] \in SlotType
  BY <1>2 DEF IInv, TypeOK
<1>5. slot[i0].ref_count \in Nat /\ slot[i0].ref_count >= 1
  <2>1. /\ Cardinality(Referrers(i0)) \in Nat /\ Cardinality(Referrers(i0)) >= 1
    BY <1>1, <1>2, RefMove DEF IInv, TypeOK
  <2>2. /\ slot[i0].ref_count = Cardinality(Referrers(i0)) + One(slot[i0].owner # NoThread)
        /\ One(slot[i0].owner # NoThread) \in Nat
    BY <1>2 DEF IInv, RefCountExact, Referrers, One
  <2>3. QED
    BY <2>1, <2>2
<1>6. slot' = [slot EXCEPT ![i0] = [slot[i0] EXCEPT !.ref_count = r,
                                                    !.owner = slot[i0].owner]]
  <2>1. slot' = [slot EXCEPT ![i0].ref_count = IF @ > 0 THEN @ - 1 ELSE @]
    BY DEF ReleaseReference
  <2>2. (IF slot[i0].ref_count > 0 THEN slot[i0].ref_count - 1 ELSE slot[i0].ref_count) = r
    BY <1>5
  <2>3. [slot[i0] EXCEPT !.ref_count = r]
          = [slot[i0] EXCEPT !.ref_count = r, !.owner = slot[i0].owner]
    BY <1>4 DEF SlotType
  <2>4. slot \in [Slots -> SlotType]
    BY DEF IInv, TypeOK
  <2> HIDE DEF r, i0
  <2>5. slot' = [slot EXCEPT ![i0] = [slot[i0] EXCEPT !.ref_count = r]]
    BY <1>2, <2>1, <2>2, <2>4
  <2>6. QED
    BY <2>3, <2>5, Zenon
<1>7. r \in Nat
  BY <1>5
<1>8. r = ((slot[i0].ref_count - One(Refers(t, i0)) - One(slot[i0].owner # NoThread))
              + One(Ref(Idle, i0))) + One(slot[i0].owner # NoThread)
  <2>1. One(Refers(t, i0)) = 1 /\ One(Ref(Idle, i0)) = 0
    BY <1>2, IdleFacts DEF One
  <2>2. One(slot[i0].owner # NoThread) \in Nat
    BY DEF One
  <2>3. \A x, y \in Nat : x - 1 = ((x - 1 - y) + 0) + y
    OBVIOUS
  <2>4. QED
    BY <1>5, <2>1, <2>2, <2>3
<1>9. Idle.pc \notin DeletePoints \cup RefPoints \cup {"native_unlock"} /\ Idle \in CallType
  BY IdleFacts DEF Idle, DeletePoints, RefPoints
<1> HIDE DEF i0, r
<1>10. QED
  BY <1>1, <1>2, <1>3, <1>6, <1>7, <1>8, <1>9, OccupantStep DEF i0

LEMMA UnlockCheckIdStep ==
  ASSUME IInv, NEW t \in Threads, UnlockCheckId(t)
  PROVE  IInv'
<1>1. call[t].pc = "Unlock" /\ UNCHANGED slot /\ call[t].pc \notin RefPoints
  BY DEF UnlockCheckId, At, RefPoints
<1>2. CASE ~ValidId(call[t].id)
  BY <1>1, <1>2, QuietReturn DEF UnlockCheckId
<1>3. CASE ValidId(call[t].id)
  <2> DEFINE c == [op |-> call[t].op, pc |-> "native_unlock", id |-> call[t].id]
  <2>1. c \in CallType /\ call' = [call EXCEPT ![t] = c]
    BY <1>3, GotoIs DEF IInv, Points, UnlockCheckId
  <2>2. call[t].id \in MutexIds /\ slot[IdIndex(c.id)].id = c.id
    BY <1>3, ValidIdFacts DEF IInv
  <2>3. Disciplined(c)
    BY <1>1, <2>2 DEF IInv, CallDiscipline, Disciplined, Ops, LockOps, DeletePoints, RefPoints
  <2>4. CallDiscipline' /\ ContractKept'
    BY <2>1, <2>3, CallStep
  <2>5. c.pc \notin DeletePoints \cup RefPoints
    BY DEF DeletePoints, RefPoints
  <2> HIDE DEF c
  <2>6. QED
    BY <1>1, <2>1, <2>2, <2>3, <2>4, <2>5, QuietStep
<1>4. QED
  BY <1>2, <1>3

(* The reference of the owner passes to the unlock. *)
LEMMA NativeUnlockStep ==
  ASSUME IInv, NEW t \in Threads, NativeUnlock(t)
  PROVE  IInv'
<1> DEFINE i0 == SlotOf(t)
           c  == [op |-> call[t].op, pc |-> "release", id |-> call[t].id]
<1>1. /\ call[t].pc = "native_unlock" /\ slot[i0].owner = t
      /\ slot' = [slot EXCEPT ![i0].owner = NoThread] /\ Goto(t, "release")
  BY DEF NativeUnlock, At
<1>2. call[t].op = "Unlock" /\ call[t].id \in MutexIds /\ i0 \in Slots
  <2>1. call[t].op = "Unlock"
    BY <1>1 DEF IInv, CallDiscipline, Disciplined
  <2>2. QED
    BY <1>1, <2>1, CallSlot DEF IInv
<1>3. slot[i0].in_use /\ slot[i0].id = call[t].id
  <2>1. slot[i0].owner # NoThread
    BY <1>1, ThreadFacts
  <2>2. slot[i0].in_use
    BY <1>2, <2>1 DEF IInv, SlotDiscipline
  <2>3. slot[i0].id = call[t].id
    BY <1>1 DEF IInv, SlotDiscipline, At
  <2>4. QED
    BY <2>2, <2>3
<1>4. c \in CallType /\ call' = [call EXCEPT ![t] = c]
  BY <1>1, GotoIs DEF IInv, Points
<1>5. Disciplined(c)
  BY <1>2 DEF Disciplined, Ops, LockOps, DeletePoints
<1>6. CallDiscipline' /\ ContractKept'
  BY <1>4, <1>5, CallStep
<1>7. slot[i0] \in SlotType
  BY <1>2 DEF IInv, TypeOK
<1>8. slot' = [slot EXCEPT ![i0] = [slot[i0] EXCEPT !.ref_count = slot[i0].ref_count,
                                                    !.owner = NoThread]]
  BY <1>1, <1>7 DEF SlotType, IInv, TypeOK
<1>9. slot[i0].ref_count \in Nat
  BY <1>7 DEF SlotType
<1>10. slot[i0].ref_count =
        ((slot[i0].ref_count - One(Refers(t, i0)) - One(slot[i0].owner # NoThread))
             + One(Ref(c, i0))) + One(NoThread # NoThread)
  <2>1. One(Refers(t, i0)) = 0 /\ One(Ref(c, i0)) = 1
    BY <1>1 DEF One, Refers, Ref, RefPoints, SlotOf
  <2>2. One(slot[i0].owner # NoThread) = 1 /\ One(NoThread # NoThread) = 0
    BY <1>1, ThreadFacts DEF One
  <2>3. \A x \in Nat : x = ((x - 0 - 1) + 1) + 0
    OBVIOUS
  <2>4. QED
    BY <1>9, <2>1, <2>2, <2>3
<1>11. /\ c.pc \notin DeletePoints \cup {"native_unlock"} /\ IdIndex(c.id) = i0
       /\ c.id = slot[i0].id /\ call[t].pc \notin RefPoints
  BY <1>1, <1>3 DEF DeletePoints, RefPoints, SlotOf
<1> HIDE DEF i0, c
<1>12. QED
  BY ZenonT(60), <1>2, <1>3, <1>4, <1>6, <1>8, <1>9, <1>10, <1>11, OccupantStep

LEMMA QuietReturns ==
  ASSUME IInv, NEW t \in Threads,
         CreateFails(t) \/ NativeUnlockFails(t) \/ GetInfo(t)
  PROVE  IInv'
BY QuietReturn DEF CreateFails, NativeUnlockFails, GetInfo, At, RefPoints

(* The slot a delete works on is free: no owner, no reference, no count.   *)
LEMMA DeletedSlot ==
  ASSUME IInv, NEW t \in Threads, call[t].pc \in DeletePoints
  PROVE  /\ SlotOf(t) \in Slots /\ ~slot[SlotOf(t)].in_use
         /\ slot[SlotOf(t)].owner = NoThread
         /\ \A u \in Threads : ~Refers(u, SlotOf(t))
         /\ call[t].pc # "undelete" /\ call[t].op = "Delete"
<1>1. SlotOf(t) \in Slots
  BY CallSlot DEF IInv
<1>2. ~slot[SlotOf(t)].in_use /\ call[t].pc # "undelete"
  BY DEF IInv, SlotDiscipline
<1>3. slot[SlotOf(t)].owner = NoThread
  BY <1>1, <1>2 DEF IInv, SlotDiscipline
<1>4. \A u \in Threads : ~Refers(u, SlotOf(t))
  BY <1>2 DEF IInv, SlotDiscipline, Refers
<1>5. call[t].op = "Delete"
  BY DEF IInv, CallDiscipline, Disciplined
<1>6. QED
  BY <1>1, <1>2, <1>3, <1>4, <1>5

LEMMA FreeSlotCount ==
  ASSUME IInv, NEW i \in Slots, ~slot[i].in_use
  PROVE  slot[i].ref_count = 0 /\ slot[i].owner = NoThread /\ Referrers(i) = {}
<1>1. slot[i].owner = NoThread
  BY DEF IInv, SlotDiscipline
<1>2. Referrers(i) = {}
  BY DEF IInv, SlotDiscipline, Refers, Referrers
<1>3. slot[i].ref_count = Cardinality({}) + 0
  BY <1>1, <1>2 DEF IInv, RefCountExact, Referrers
<1>4. QED
  BY <1>1, <1>2, <1>3, FS_EmptySet

(* A step of a delete on the slot that it freed, or is freeing. *)
LEMMA FreedStep ==
  ASSUME IInv, NEW t \in Threads, NEW c \in CallType, NEW i0 \in Slots, NEW s \in SlotType,
         call' = [call EXCEPT ![t] = c], CallDiscipline', ContractKept',
         slot' = [slot EXCEPT ![i0] = s],
         s.ref_count = 0, slot[i0].ref_count = 0, slot[i0].owner = NoThread,
         ~s.in_use, s.owner = NoThread,
         c.pc \notin RefPoints \cup {"native_unlock"}, call[t].pc \notin RefPoints,
         c.pc \in DeletePoints => IdIndex(c.id) = i0 /\ c.pc # "undelete"
  PROVE  IInv'
<1>1. /\ call' \in [Threads -> CallType]
      /\ \A u \in Threads : call'[u] = IF u = t THEN c ELSE call[u]
  BY DEF IInv, TypeOK
<1>2. /\ slot' \in [Slots -> SlotType] /\ slot'[i0] = s
      /\ \A i \in Slots : i # i0 => slot'[i] = slot[i]
  BY DEF IInv, TypeOK
<1>3. Referrers(i0) = {}
  <2>1. /\ IsFiniteSet(Referrers(i0)) /\ Cardinality(Referrers(i0)) \in Nat
    BY FS_Subset, FS_CardinalityType, ThreadFacts DEF Referrers
  <2>2. slot[i0].ref_count = Cardinality(Referrers(i0)) + 0
    BY DEF IInv, RefCountExact, Referrers
  <2>3. Cardinality(Referrers(i0)) = 0
    BY <2>1, <2>2
  <2>4. QED
    BY <2>1, <2>3, FS_EmptySet
<1>4. SlotDiscipline'
  <2>1. ASSUME NEW i \in Slots
        PROVE  /\ slot'[i].in_use => /\ slot'[i].live
                                     /\ slot'[i].id \in MutexIds
                                     /\ IdIndex(slot'[i].id) = i
                                     /\ IdSerial(slot'[i].id) = slot'[i].serial
               /\ slot'[i].owner # NoThread => slot'[i].in_use
    BY <1>2 DEF IInv, SlotDiscipline
  <2>2. ASSUME NEW u \in Threads
        PROVE  LET x == slot'[SlotOf(u)']
               IN  /\ call'[u].pc \in RefPoints => x.in_use /\ x.id = call'[u].id
                   /\ call'[u].pc \in DeletePoints => ~x.in_use /\ call'[u].pc # "undelete"
                   /\ call'[u].pc = "native_unlock" /\ x.owner = u => x.id = call'[u].id
    <3>1. CASE u = t
      BY <1>1, <1>2, <3>1 DEF SlotOf
    <3>2. CASE u # t
      <4>1. call'[u] = call[u] /\ SlotOf(u)' = SlotOf(u)
        BY <1>1, <3>2 DEF SlotOf
      <4>2. CASE call[u].pc \in RefPoints \cup DeletePoints \cup {"native_unlock"}
        <5>1. SlotOf(u) \in Slots
          BY <4>2, CallSlot DEF IInv
        <5>2. u # NoThread
          BY ThreadFacts
        <5>3. CASE SlotOf(u) = i0
          <6>1. call[u].pc \notin RefPoints
            BY <1>3, <5>3 DEF Referrers, Refers
          <6>2. call[u].pc \in DeletePoints => call[u].pc # "undelete"
            BY DEF IInv, SlotDiscipline
          <6>3. slot'[SlotOf(u)'] = s
            BY <1>2, <4>1, <5>3
          <6>4. QED
            BY <4>1, <5>2, <6>1, <6>2, <6>3
        <5>4. CASE SlotOf(u) # i0
          BY <1>2, <4>1, <5>1, <5>4 DEF IInv, SlotDiscipline, At
        <5>5. QED
          BY <5>3, <5>4
      <4>3. CASE call[u].pc \notin RefPoints \cup DeletePoints \cup {"native_unlock"}
        BY <4>1, <4>3
      <4>4. QED
        BY <4>2, <4>3
    <3>3. QED
      BY <3>1, <3>2
  <2>3. QED
    BY <2>1, <2>2 DEF SlotDiscipline, At
<1>5. RefCountExact'
  <2>1. ASSUME NEW i \in Slots
        PROVE  slot'[i].ref_count =
                 ((slot[i].ref_count - One(Refers(t, i)) - One(slot[i].owner # NoThread))
                   + One(Ref(c, i))) + One(slot'[i].owner # NoThread)
    <3>1. One(Refers(t, i)) = 0 /\ One(Ref(c, i)) = 0
      BY DEF One, Refers, Ref
    <3>2. slot[i].ref_count \in Nat /\ One(slot[i].owner # NoThread) \in Nat
      BY DEF IInv, TypeOK, SlotType, One
    <3>3. \A x, y \in Nat : x = ((x - 0 - y) + 0) + y
      OBVIOUS
    <3>4. /\ slot'[i].ref_count = slot[i].ref_count
          /\ One(slot'[i].owner # NoThread) = One(slot[i].owner # NoThread)
      BY <1>2
    <3>5. QED
      BY <3>1, <3>2, <3>3, <3>4
  <2>2. QED
    BY <2>1, RefCountStep DEF IInv
<1>6. NamesUnique'
  BY <1>2 DEF IInv, NamesUnique
<1>7. TypeOK'
  BY <1>1, <1>2 DEF TypeOK
<1>8. QED
  BY <1>4, <1>5, <1>6, <1>7 DEF IInv

LEMMA DeleteLockedStep ==
  ASSUME IInv, NEW t \in Threads, DeleteLocked(t)
  PROVE  IInv'
<1> DEFINE i0 == SlotOf(t)
           c  == [op |-> call[t].op, pc |-> "destroy", id |-> call[t].id]
           s  == [slot[i0] EXCEPT !.in_use = FALSE]
<1>1. call[t].pc = "Delete" /\ call[t].pc \notin RefPoints
  BY DEF DeleteLocked, At, RefPoints
<1>2. CASE ~(ValidId(call[t].id) /\ slot[i0].ref_count = 0)
  BY <1>1, <1>2, QuietReturn DEF DeleteLocked
<1>3. CASE ValidId(call[t].id) /\ slot[i0].ref_count = 0
  <2>1. slot' = [slot EXCEPT ![i0].in_use = FALSE] /\ Goto(t, "destroy")
    BY <1>3 DEF DeleteLocked
  <2>2. call[t].id \in MutexIds /\ i0 \in Slots
    BY <1>3, ValidIdFacts DEF IInv, SlotOf
  <2>3. c \in CallType /\ call' = [call EXCEPT ![t] = c]
    BY <2>1, GotoIs DEF IInv, Points
  <2>4. Disciplined(c)
    BY <1>1, <2>2 DEF IInv, CallDiscipline, Disciplined, Ops, LockOps, RefPoints
  <2>5. CallDiscipline' /\ ContractKept'
    BY <2>3, <2>4, CallStep
  <2>6. slot[i0] \in SlotType /\ slot' = [slot EXCEPT ![i0] = s]
    BY <2>1, <2>2 DEF IInv, TypeOK
  <2>7. /\ s \in SlotType /\ ~s.in_use /\ s.ref_count = 0
        /\ s.owner = slot[i0].owner
    BY <1>3, <2>6 DEF SlotType
  <2>8. slot[i0].owner = NoThread
    <3>1. Cardinality(Referrers(i0)) \in Nat
      BY <2>2, RefMove, <2>3 DEF IInv, TypeOK
    <3>2. slot[i0].ref_count = Cardinality(Referrers(i0)) + One(slot[i0].owner # NoThread)
      BY <2>2 DEF IInv, RefCountExact, Referrers, One
    <3>3. One(slot[i0].owner # NoThread) # 1
      BY <1>3, <3>1, <3>2
    <3>4. QED
      BY <3>3 DEF One
  <2>9. c.pc \notin RefPoints \cup {"native_unlock"} /\ IdIndex(c.id) = i0 /\ c.pc # "undelete"
    BY DEF RefPoints, SlotOf
  <2> HIDE DEF c, i0, s
  <2>10. QED
    BY <1>1, <1>3, <2>2, <2>3, <2>5, <2>6, <2>7, <2>8, <2>9, FreedStep
<1>4. QED
  BY <1>2, <1>3

(* A delete never has to put a mutex back. *)
LEMMA DeleteGoesThrough ==
  ASSUME IInv, NEW t \in Threads
  PROVE  /\ DestroyNative(t) =>
              /\ slot' = [slot EXCEPT ![SlotOf(t)].live = FALSE]
              /\ Goto(t, "wipe")
         /\ FinishDelete(t) =>
              slot' = [slot EXCEPT ![SlotOf(t)] =
                [@ EXCEPT !.id = AOS_ID_NONE, !.ref_count = 0, !.name = NoName]]
<1>1. DestroyNative(t) => slot[SlotOf(t)].owner = NoThread
  BY DeletedSlot DEF DestroyNative, At, DeletePoints
<1>2. FinishDelete(t) => call[t].pc # "undelete"
  BY DeletedSlot DEF FinishDelete, DeletePoints
<1>3. QED
  BY <1>1, <1>2 DEF DestroyNative, FinishDelete, At

LEMMA DestroyStep ==
  ASSUME IInv, NEW t \in Threads, DestroyNative(t)
  PROVE  IInv'
<1> DEFINE i0 == SlotOf(t)
           c  == [op |-> call[t].op, pc |-> "wipe", id |-> call[t].id]
           s  == [slot[i0] EXCEPT !.live = FALSE]
<1>1. /\ call[t].pc \in DeletePoints /\ call[t].pc \notin RefPoints
      /\ slot' = [slot EXCEPT ![i0].live = FALSE] /\ Goto(t, "wipe")
  BY DeleteGoesThrough DEF DestroyNative, At, RefPoints, DeletePoints
<1>2. /\ i0 \in Slots /\ ~slot[i0].in_use /\ call[t].op = "Delete"
      /\ slot[i0].ref_count = 0 /\ slot[i0].owner = NoThread
  BY <1>1, DeletedSlot, FreeSlotCount
<1>3. c \in CallType /\ call' = [call EXCEPT ![t] = c]
  BY <1>1, GotoIs DEF IInv, Points
<1>4. Disciplined(c)
  BY <1>1, <1>2 DEF IInv, CallDiscipline, Disciplined, Ops, LockOps, RefPoints
<1>5. CallDiscipline' /\ ContractKept'
  BY <1>3, <1>4, CallStep
<1>6. slot[i0] \in SlotType /\ slot' = [slot EXCEPT ![i0] = s]
  BY <1>1, <1>2 DEF IInv, TypeOK
<1>7. /\ s \in SlotType /\ ~s.in_use /\ s.ref_count = 0 /\ s.owner = NoThread
  BY <1>2, <1>6 DEF SlotType
<1>8. c.pc \notin RefPoints \cup {"native_unlock"} /\ IdIndex(c.id) = i0 /\ c.pc # "undelete"
  BY DEF RefPoints, SlotOf
<1> HIDE DEF c, i0, s
<1>9. QED
  BY <1>1, <1>2, <1>3, <1>5, <1>6, <1>7, <1>8, FreedStep

LEMMA FinishDeleteStep ==
  ASSUME IInv, NEW t \in Threads, FinishDelete(t)
  PROVE  IInv'
<1> DEFINE i0 == SlotOf(t)
           s  == [slot[i0] EXCEPT !.id = AOS_ID_NONE, !.ref_count = 0, !.name = NoName]
<1>1. /\ call[t].pc \in DeletePoints /\ call[t].pc \notin RefPoints
      /\ call' = [call EXCEPT ![t] = Idle]
  BY DEF FinishDelete, RefPoints, DeletePoints, Return
<1>2. /\ i0 \in Slots /\ ~slot[i0].in_use
      /\ slot[i0].ref_count = 0 /\ slot[i0].owner = NoThread
  BY <1>1, DeletedSlot, FreeSlotCount
<1>3. CallDiscipline' /\ ContractKept'
  BY <1>1, IdleFacts, CallStep
<1>4. slot[i0] \in SlotType /\ slot' = [slot EXCEPT ![i0] = s]
  BY <1>2, DeleteGoesThrough DEF IInv, TypeOK
<1>5. /\ s \in SlotType /\ ~s.in_use /\ s.ref_count = 0 /\ s.owner = NoThread
  BY <1>2, <1>4 DEF SlotType
<1>6. /\ Idle \in CallType
      /\ Idle.pc \notin RefPoints \cup {"native_unlock"} \cup DeletePoints
  BY IdleFacts DEF Idle, RefPoints, DeletePoints
<1> HIDE DEF i0, s
<1>7. QED
  BY <1>1, <1>2, <1>3, <1>4, <1>5, <1>6, FreedStep

LEMMA CreateStep ==
  ASSUME IInv, NEW t \in Threads, CreateLocked(t)
  PROVE  IInv'
<1>1. /\ call[t].pc = "Create" /\ call' = [call EXCEPT ![t] = Idle]
      /\ call[t].pc \notin RefPoints
  BY DEF CreateLocked, At, Return, RefPoints
<1>2. PICK i0 \in Slots, name \in Names :
        LET serial == NextSerial(slot[i0].serial)
        IN  /\ IsFirstFree(i0)
            /\ ~NameTaken(name)
            /\ slot' = [slot EXCEPT ![i0] =
                 [id |-> IdPack(AOS_TYPE_MUTEX, serial, i0),
                  owner |-> NoThread, live |-> TRUE, ref_count |-> 0,
                  serial |-> serial, in_use |-> TRUE, name |-> name]]
  BY DEF CreateLocked
<1> DEFINE serial == NextSerial(slot[i0].serial)
           s == [id |-> IdPack(AOS_TYPE_MUTEX, serial, i0),
                 owner |-> NoThread, live |-> TRUE, ref_count |-> 0,
                 serial |-> serial, in_use |-> TRUE, name |-> name]
<1>3. serial \in 1 .. SerialMod - 1 /\ serial \in 0 .. SerialMod - 1
  <2>1. slot[i0].serial \in 0 .. SerialMod - 1
    BY DEF IInv, TypeOK, SlotType
  <2>2. serial \in 1 .. SerialMod - 1
    BY <2>1, NextSerialFresh
  <2> HIDE DEF serial
  <2>3. QED
    BY <2>2, SerialModAssumption
<1>4. /\ s.id \in MutexIds /\ IdIndex(s.id) = i0 /\ IdSerial(s.id) = s.serial
  BY <1>3, MutexIdFacts
<1>5. s \in SlotType
  BY <1>3, <1>4 DEF SlotType
<1>6. /\ slot' \in [Slots -> SlotType] /\ slot'[i0] = s
      /\ \A i \in Slots : i # i0 => slot'[i] = slot[i]
  BY <1>2, <1>5 DEF IInv, TypeOK
<1>7. /\ s.live /\ s.in_use /\ s.owner = NoThread /\ s.ref_count = 0 /\ s.name = name
  OBVIOUS
<1>8. ~slot[i0].in_use
  BY <1>2 DEF IsFirstFree, FreeSlots
<1>9. slot[i0].ref_count = 0 /\ slot[i0].owner = NoThread /\ Referrers(i0) = {}
  BY <1>8, FreeSlotCount
<1>10. CallDiscipline' /\ ContractKept'
  BY <1>1, IdleFacts, CallStep
<1>11. /\ call' \in [Threads -> CallType]
       /\ \A u \in Threads : call'[u] = IF u = t THEN Idle ELSE call[u]
  BY <1>1, IdleFacts DEF IInv, TypeOK
<1>12. \A u \in Threads : call[u].pc \notin DeletePoints
  <2>1. call[t].op = "Create"
    BY <1>1 DEF IInv, CallDiscipline, Disciplined, Ops
  <2>2. \A u \in Threads : call[u].op # "Delete"
    BY <2>1 DEF IInv, ContractKept
  <2>3. QED
    BY <2>2 DEF IInv, CallDiscipline, Disciplined
<1> HIDE DEF s
<1>13. SlotDiscipline'
  <2>1. ASSUME NEW i \in Slots
        PROVE  /\ slot'[i].in_use => /\ slot'[i].live
                                     /\ slot'[i].id \in MutexIds
                                     /\ IdIndex(slot'[i].id) = i
                                     /\ IdSerial(slot'[i].id) = slot'[i].serial
               /\ slot'[i].owner # NoThread => slot'[i].in_use
    BY <1>4, <1>6, <1>7 DEF IInv, SlotDiscipline
  <2>2. ASSUME NEW u \in Threads
        PROVE  LET x == slot'[SlotOf(u)']
               IN  /\ call'[u].pc \in RefPoints => x.in_use /\ x.id = call'[u].id
                   /\ call'[u].pc \in DeletePoints => ~x.in_use /\ call'[u].pc # "undelete"
                   /\ call'[u].pc = "native_unlock" /\ x.owner = u => x.id = call'[u].id
    <3>1. CASE u = t
      BY <1>11, <3>1 DEF Idle, RefPoints, DeletePoints
    <3>2. CASE u # t
      <4>1. call'[u] = call[u] /\ SlotOf(u)' = SlotOf(u)
        BY <1>11, <3>2 DEF SlotOf
      <4>2. CASE call[u].pc \in RefPoints \cup {"native_unlock"}
        <5>1. SlotOf(u) \in Slots
          BY <4>2, CallSlot DEF IInv
        <5>2. u # NoThread
          BY ThreadFacts
        <5>3. CASE SlotOf(u) = i0
          <6>1. call[u].pc \notin RefPoints
            BY <1>9, <5>3 DEF Referrers, Refers
          <6>2. slot'[SlotOf(u)'] = s
            BY <1>6, <4>1, <5>3
          <6>3. QED
            BY <1>7, <1>12, <4>1, <5>2, <6>1, <6>2
        <5>4. CASE SlotOf(u) # i0
          BY <1>6, <1>12, <4>1, <5>1, <5>4 DEF IInv, SlotDiscipline, At
        <5>5. QED
          BY <5>3, <5>4
      <4>3. CASE call[u].pc \notin RefPoints \cup {"native_unlock"}
        BY <1>12, <4>1, <4>3
      <4>4. QED
        BY <4>2, <4>3
    <3>3. QED
      BY <3>1, <3>2
  <2>3. QED
    BY <2>1, <2>2 DEF SlotDiscipline, At
<1>14. RefCountExact'
  <2>1. ASSUME NEW i \in Slots
        PROVE  slot'[i].ref_count =
                 ((slot[i].ref_count - One(Refers(t, i)) - One(slot[i].owner # NoThread))
                   + One(Ref(Idle, i))) + One(slot'[i].owner # NoThread)
    <3>1. One(Refers(t, i)) = 0 /\ One(Ref(Idle, i)) = 0
      BY <1>1, IdleFacts DEF One, Refers
    <3>2. slot[i].ref_count \in Nat /\ One(slot[i].owner # NoThread) \in Nat
      BY DEF IInv, TypeOK, SlotType, One
    <3>3. \A x, y \in Nat : x = ((x - 0 - y) + 0) + y
      OBVIOUS
    <3>4. /\ slot'[i].ref_count = slot[i].ref_count
          /\ One(slot'[i].owner # NoThread) = One(slot[i].owner # NoThread)
      BY <1>6, <1>7, <1>9
    <3>5. QED
      BY <3>1, <3>2, <3>3, <3>4
  <2>2. QED
    BY <1>1, <2>1, RefCountStep DEF IInv
<1>15. NamesUnique'
  <2>1. \A i \in Slots : slot[i].in_use => slot[i].name # name
    BY <1>2 DEF NameTaken
  <2>2. QED
    BY <1>6, <1>7, <2>1 DEF IInv, NamesUnique
<1>16. TypeOK'
  BY <1>6, <1>11 DEF TypeOK
<1>17. QED
  BY <1>10, <1>13, <1>14, <1>15, <1>16 DEF IInv

LEMMA InitInv == Init => IInv
<1> SUFFICES ASSUME Init PROVE IInv
  OBVIOUS
<1>1. EmptySlot \in SlotType /\ ~EmptySlot.in_use /\ EmptySlot.owner = NoThread
      /\ EmptySlot.ref_count = 0
  BY SerialModAssumption DEF EmptySlot, SlotType
<1>2. TypeOK
  BY <1>1, IdleFacts DEF Init, TypeOK
<1>3. \A t \in Threads : call[t] = Idle /\ call[t].pc = "idle" /\ call[t].op = "none"
  BY IdleFacts DEF Init
<1>4. CallDiscipline /\ ContractKept
  BY <1>3, IdleFacts DEF CallDiscipline, ContractKept
<1>5. \A i \in Slots : slot[i] = EmptySlot
  BY DEF Init
<1>6. SlotDiscipline
  BY <1>1, <1>3, <1>5 DEF SlotDiscipline, RefPoints, DeletePoints, At
<1>7. RefCountExact
  <2>1. \A i \in Slots : {t \in Threads : Refers(t, i)} = {}
    BY <1>3 DEF Refers, RefPoints
  <2>2. QED
    BY <1>1, <1>5, <2>1, FS_EmptySet DEF RefCountExact
<1>8. NamesUnique
  BY <1>1, <1>5 DEF NamesUnique
<1>9. QED
  BY <1>2, <1>4, <1>6, <1>7, <1>8 DEF IInv

LEMMA StutterKeepsInv == IInv /\ UNCHANGED vars => IInv'
<1> SUFFICES ASSUME IInv, UNCHANGED vars PROVE IInv'
  OBVIOUS
<1>1. slot' = slot /\ call' = call
  BY DEF vars
<1>2. \A t \in Threads, i \in Slots : Refers(t, i)' <=> Refers(t, i)
  BY <1>1 DEF Refers, SlotOf
<1>3. \A i \in Slots : {t \in Threads : Refers(t, i)'} = {t \in Threads : Refers(t, i)}
  BY <1>2
<1>4. RefCountExact'
  BY <1>1, <1>3 DEF IInv, RefCountExact
<1>5. QED
  BY <1>1, <1>4 DEF IInv, TypeOK, CallDiscipline, Disciplined, ContractKept,
                    SlotDiscipline, NamesUnique, SlotOf, At

LEMMA NextKeepsInv ==
  ASSUME CreateOverlapsDelete = FALSE
  PROVE  IInv /\ [Next]_vars => IInv'
<1> SUFFICES ASSUME IInv, Next PROVE IInv'
  BY StutterKeepsInv
<1>1. PICK t \in Threads :
        \/ Begin(t, "Create", AOS_ID_NONE)
        \/ \E op \in Ops \ {"Create"}, id \in CallIds : Begin(t, op, id)
        \/ Step(t)
  BY DEF Next
<1>2. CASE Begin(t, "Create", AOS_ID_NONE)
  BY <1>2, BeginStep DEF Ops
<1>3. ASSUME NEW op \in Ops \ {"Create"}, NEW id \in CallIds, Begin(t, op, id)
      PROVE  IInv'
  BY <1>3, BeginStep
<1>4. CASE Step(t)
  BY <1>4, CreateStep, AcquireStep, TakeDeadlineStep, NativeLockStep,
     NativeLockFailsStep, ReleaseStep, UnlockCheckIdStep, NativeUnlockStep,
     QuietReturns, DeleteLockedStep, DestroyStep, FinishDeleteStep DEF Step
<1>5. QED
  BY <1>1, <1>2, <1>3, <1>4

(* IInv is inductive: while no create overlaps a delete it holds in every  *)
(* state, for any number of threads, mutexes, names and serials.           *)
THEOREM MutexInvariant ==
  ASSUME CreateOverlapsDelete = FALSE
  PROVE  Spec => []IInv
BY InitInv, NextKeepsInv, PTL DEF Spec

(* Every field of a slot and every local of a call keeps its type.         *)
THEOREM MutexTypeOK ==
  ASSUME CreateOverlapsDelete = FALSE
  PROVE  Spec => []TypeOK
<1>1. IInv => TypeOK
  BY DEF IInv
<1>2. QED
  BY <1>1, MutexInvariant, PTL

(* ref_count counts the calls inside the API and the owner, exactly: the   *)
(* reference of a lock is given back once, by its unlock.                  *)
THEOREM MutexRefCountExact ==
  ASSUME CreateOverlapsDelete = FALSE
  PROVE  Spec => []RefCountExact
<1>1. IInv => RefCountExact
  BY DEF IInv
<1>2. QED
  BY <1>1, MutexInvariant, PTL

(* AOS_MutexDelete never takes a mutex from a thread that is locking it.   *)
THEOREM MutexLockerKeepsSlot ==
  ASSUME CreateOverlapsDelete = FALSE
  PROVE  Spec => []LockerKeepsSlot
<1>1. IInv => LockerKeepsSlot
  <2>1. SUFFICES ASSUME IInv, NEW t \in Threads, NEW i \in Slots, Refers(t, i)
                 PROVE  slot[i].in_use /\ slot[i].live /\ slot[i].id = call[t].id
    BY DEF LockerKeepsSlot
  <2>2. QED
    BY <2>1, ReferrerSlot DEF Refers
<1>2. QED
  BY <1>1, MutexInvariant, PTL

(* The owner of a mutex can always unlock it.                              *)
THEOREM MutexOwnerCanUnlock ==
  ASSUME CreateOverlapsDelete = FALSE
  PROVE  Spec => []OwnerCanUnlock
<1>1. IInv => OwnerCanUnlock
  <2>1. SUFFICES ASSUME IInv, NEW i \in Slots, slot[i].owner # NoThread
                 PROVE  slot[i].live /\ ValidId(slot[i].id) /\ IdIndex(slot[i].id) = i
    BY DEF OwnerCanUnlock
  <2>2. /\ slot[i].in_use /\ slot[i].live /\ slot[i].id \in MutexIds
        /\ IdIndex(slot[i].id) = i /\ IdSerial(slot[i].id) = slot[i].serial
    BY <2>1 DEF IInv, SlotDiscipline
  <2>3. IdType(slot[i].id) = AOS_TYPE_MUTEX
    BY <2>2, MutexIdFacts DEF MutexIds
  <2>4. QED
    BY <2>2, <2>3 DEF ValidId
<1>2. QED
  BY <1>1, MutexInvariant, PTL

(* The mutex that is being destroyed has no owner and no user.             *)
THEOREM MutexNoUserDuringDestroy ==
  ASSUME CreateOverlapsDelete = FALSE
  PROVE  Spec => []NoUserDuringDestroy
<1>1. IInv => NoUserDuringDestroy
  BY DeletedSlot DEF NoUserDuringDestroy, At, DeletePoints
<1>2. QED
  BY <1>1, MutexInvariant, PTL

-----------------------------------------------------------------------------
(* aos_mutex.c implements AosMutexTable *)

InUse(s)  == {i \in Slots : s[i].in_use}
Indexed(s) == \A i \in Slots : s[i].in_use => IdIndex(s[i].id) = i

(* The table that a pool stands for, by the index in its ids.              *)
TableOf(s) ==
  [id \in {s[i].id : i \in InUse(s)} |->
     [name |-> s[IdIndex(id)].name, holder |-> s[IdIndex(id)].owner]]

LEMMA TableEntries ==
  ASSUME NEW s, Indexed(s)
  PROVE  /\ \A id : id \in DOMAIN TableOf(s) <=>
                  IdIndex(id) \in Slots /\ s[IdIndex(id)].in_use /\ s[IdIndex(id)].id = id
         /\ \A id \in DOMAIN TableOf(s) :
              TableOf(s)[id] = [name |-> s[IdIndex(id)].name, holder |-> s[IdIndex(id)].owner]
<1>1. DOMAIN TableOf(s) = {s[i].id : i \in InUse(s)}
  BY DEF TableOf
<1>2. ASSUME NEW id
      PROVE  id \in {s[i].id : i \in InUse(s)} <=>
               IdIndex(id) \in Slots /\ s[IdIndex(id)].in_use /\ s[IdIndex(id)].id = id
  BY DEF InUse, Indexed
<1>3. QED
  BY <1>1, <1>2 DEF TableOf

LEMMA IndexedAlways == IInv => Indexed(slot)
BY DEF IInv, SlotDiscipline, Indexed

LEMMA IndexedNext == IInv' => Indexed(slot')
BY DEF IInv, SlotDiscipline, Indexed

LEMMA TableEntriesNext ==
  ASSUME IInv'
  PROVE  \A id \in DOMAIN TableOf(slot') :
           TableOf(slot')[id] =
             [name |-> slot'[IdIndex(id)].name, holder |-> slot'[IdIndex(id)].owner]
BY IndexedNext, TableEntries

LEMMA MapIsTable == IInv => TableMap = TableOf(slot)
<1> SUFFICES ASSUME IInv PROVE TableMap = TableOf(slot)
  OBVIOUS
<1>1. \A i \in Slots : slot[i].in_use => IdIndex(slot[i].id) = i
  BY IndexedAlways DEF Indexed
<1>2. ASSUME NEW id \in LiveIds PROVE SlotWithId(id) = IdIndex(id)
  BY <1>1 DEF LiveIds, UsedSlots, SlotWithId
<1>3. LiveIds = {slot[i].id : i \in InUse(slot)}
  BY DEF LiveIds, UsedSlots, InUse
<1>4. QED
  BY <1>2, <1>3 DEF TableMap, TableOf

LEMMA MapIsTableNext == IInv' => TableMap' = TableOf(slot')
<1> SUFFICES ASSUME IInv' PROVE TableMap' = TableOf(slot')
  OBVIOUS
<1>1. \A i \in Slots : slot'[i].in_use => IdIndex(slot'[i].id) = i
  BY IndexedNext DEF Indexed
<1>2. ASSUME NEW id \in LiveIds' PROVE SlotWithId(id)' = IdIndex(id)
  BY <1>1 DEF LiveIds, UsedSlots, SlotWithId
<1>3. LiveIds' = {slot'[i].id : i \in InUse(slot')}
  BY DEF LiveIds, UsedSlots, InUse
<1>4. QED
  BY <1>2, <1>3 DEF TableMap, TableOf

(* Slots that stay free, and slots that keep id, name and owner, keep the  *)
(* table as it is.                                                         *)
LEMMA TableKept ==
  ASSUME IInv, IInv',
         \A i \in Slots :
           /\ slot'[i].in_use = slot[i].in_use
           /\ slot[i].in_use => /\ slot'[i].id = slot[i].id
                                /\ slot'[i].name = slot[i].name
                                /\ slot'[i].owner = slot[i].owner
  PROVE  TableMap' = TableMap
<1>1. Indexed(slot) /\ Indexed(slot')
  BY IndexedAlways, IndexedNext
<1>2. InUse(slot') = InUse(slot)
  BY DEF InUse
<1>3. {slot'[i].id : i \in InUse(slot')} = {slot[i].id : i \in InUse(slot)}
  BY <1>2 DEF InUse
<1>4. \A id \in {slot[i].id : i \in InUse(slot)} :
        /\ slot'[IdIndex(id)].name = slot[IdIndex(id)].name
        /\ slot'[IdIndex(id)].owner = slot[IdIndex(id)].owner
  BY <1>1 DEF InUse, Indexed
<1>5. TableOf(slot') = TableOf(slot)
  BY <1>3, <1>4 DEF TableOf
<1>6. QED
  BY <1>5, MapIsTable, MapIsTableNext

(* A change of owner is a change of holder of that one entry. *)
LEMMA HolderChanges ==
  ASSUME IInv, IInv', NEW i \in Slots, NEW h, slot[i].in_use,
         slot' = [slot EXCEPT ![i].owner = h]
  PROVE  /\ slot[i].id \in DOMAIN TableMap /\ slot[i].id \in MutexIds
         /\ TableMap[slot[i].id].holder = slot[i].owner
         /\ TableMap' = [TableMap EXCEPT ![slot[i].id].holder = h]
<1> DEFINE id0 == slot[i].id
           A == TableOf(slot)
           B == TableOf(slot')
           C == [A EXCEPT ![id0].holder = h]
<1>1. Indexed(slot) /\ Indexed(slot')
  BY IndexedAlways, IndexedNext
<1>2. /\ slot \in [Slots -> SlotType]
      /\ \A j \in Slots : /\ slot'[j].in_use = slot[j].in_use
                           /\ slot'[j].id = slot[j].id
                           /\ slot'[j].name = slot[j].name
                           /\ slot'[j].owner = IF j = i THEN h ELSE slot[j].owner
  BY DEF IInv, TypeOK, SlotType
<1>3. id0 \in MutexIds /\ IdIndex(id0) = i
  BY DEF IInv, SlotDiscipline
<1>4. id0 \in DOMAIN A /\ A[id0] = [name |-> slot[i].name, holder |-> slot[i].owner]
  BY <1>1, <1>3, TableEntries
<1>5. DOMAIN B = DOMAIN A /\ DOMAIN C = DOMAIN A
  <2>1. \A id : id \in DOMAIN A <=>
              IdIndex(id) \in Slots /\ slot[IdIndex(id)].in_use /\ slot[IdIndex(id)].id = id
    BY <1>1, TableEntries
  <2>2. \A id : id \in DOMAIN B <=>
              IdIndex(id) \in Slots /\ slot'[IdIndex(id)].in_use /\ slot'[IdIndex(id)].id = id
    BY <1>1, TableEntries
  <2> HIDE DEF A, B
  <2>3. \A id : id \in DOMAIN B <=> id \in DOMAIN A
    BY <1>2, <2>1, <2>2
  <2>4. DOMAIN B = DOMAIN A
    BY <2>3
  <2>5. QED
    BY <2>4
<1>6. ASSUME NEW id \in DOMAIN A PROVE B[id] = C[id]
  <2>1. IdIndex(id) \in Slots /\ slot[IdIndex(id)].id = id
    BY <1>1, TableEntries
  <2>2. B[id] = [name |-> slot'[IdIndex(id)].name, holder |-> slot'[IdIndex(id)].owner]
    <3>1. \A k \in DOMAIN B :
            B[k] = [name |-> slot'[IdIndex(k)].name, holder |-> slot'[IdIndex(k)].owner]
      BY TableEntriesNext
    <3> HIDE DEF A, B
    <3>2. id \in DOMAIN B
      BY <1>5
    <3>3. QED
      BY <3>1, <3>2
  <2>3. A[id] = [name |-> slot[IdIndex(id)].name, holder |-> slot[IdIndex(id)].owner]
    BY <1>1, TableEntries
  <2> HIDE DEF A, B
  <2>4. CASE id = id0
    BY <1>2, <1>3, <1>4, <2>1, <2>2, <2>3, <2>4
  <2>5. CASE id # id0
    <3>1. IdIndex(id) # i
      BY <2>1, <2>5
    <3>2. C[id] = A[id]
      BY <2>5
    <3>3. QED
      BY <1>2, <2>1, <2>2, <2>3, <3>1, <3>2
  <2>6. QED
    BY <2>4, <2>5
<1>7. B = C
  <2>1. A = [id \in DOMAIN A |-> A[id]] /\ B = [id \in DOMAIN B |-> B[id]]
    BY DEF TableOf
  <2> HIDE DEF A, B
  <2>2. C = [id \in DOMAIN C |-> C[id]]
    BY <2>1
  <2>3. QED
    BY <1>5, <1>6, <2>1, <2>2
<1> HIDE DEF A, B
<1>8. TableMap = A /\ TableMap' = B
  BY MapIsTable, MapIsTableNext DEF A, B
<1>9. id0 \in DOMAIN TableMap /\ TableMap[id0].holder = slot[i].owner
  BY <1>4, <1>8
<1>10. TableMap' = [TableMap EXCEPT ![id0].holder = h]
  BY <1>7, <1>8
<1>11. QED
  BY <1>3, <1>9, <1>10

(* The steps that the table does not see. *)
LEMMA QuietMaps ==
  ASSUME IInv, IInv', NEW t \in Threads,
         \/ UNCHANGED slot
         \/ AcquireReference(t) \/ ReleaseReference(t)
         \/ DestroyNative(t) \/ FinishDelete(t)
  PROVE  TableMap' = TableMap
<1>1. slot \in [Slots -> SlotType]
  BY DEF IInv, TypeOK
<1>2. CASE UNCHANGED slot
  BY <1>2, TableKept
<1>3. ASSUME NEW i, NEW n, slot' = [slot EXCEPT ![i].ref_count = n]
      PROVE  TableMap' = TableMap
  BY <1>1, <1>3, TableKept DEF SlotType
<1>4. CASE AcquireReference(t) \/ ReleaseReference(t)
  BY <1>2, <1>3, <1>4 DEF AcquireReference, ReleaseReference
<1>5. CASE DestroyNative(t) \/ FinishDelete(t)
  <2>1. call[t].pc \in DeletePoints
    BY <1>5 DEF DestroyNative, FinishDelete, At, DeletePoints
  <2>2. SlotOf(t) \in Slots /\ ~slot[SlotOf(t)].in_use
    BY <2>1, DeletedSlot
  <2>3. /\ \A i \in Slots : i # SlotOf(t) => slot'[i] = slot[i]
        /\ slot'[SlotOf(t)].in_use = slot[SlotOf(t)].in_use
    <3>1. \/ slot' = [slot EXCEPT ![SlotOf(t)].live = FALSE]
          \/ slot' = [slot EXCEPT ![SlotOf(t)] =
               [@ EXCEPT !.id = AOS_ID_NONE, !.ref_count = 0, !.name = NoName]]
      BY <1>5, DeleteGoesThrough
    <3>2. slot[SlotOf(t)] \in SlotType
      BY <1>1, <2>2
    <3>3. QED
      BY <1>1, <2>2, <3>1, <3>2 DEF SlotType
  <2>4. QED
    BY <2>2, <2>3, TableKept
<1>6. QED
  BY <1>2, <1>4, <1>5

LEMMA NativeLockMaps ==
  ASSUME IInv, IInv', NEW t \in Threads, NativeLock(t)
  PROVE  \E id \in MutexIds : Table!Acquire(t, id)
<1>1. SlotOf(t) \in Slots /\ slot[SlotOf(t)].in_use
  BY ReferrerSlot DEF NativeLock, At, RefPoints
<1>2. slot[SlotOf(t)].owner = NoThread /\ slot' = [slot EXCEPT ![SlotOf(t)].owner = t]
  BY DEF NativeLock
<1> DEFINE id == slot[SlotOf(t)].id
<1>3. /\ id \in DOMAIN TableMap /\ id \in MutexIds
      /\ TableMap[id].holder = NoThread
      /\ TableMap' = [TableMap EXCEPT ![id].holder = t]
  BY <1>1, <1>2, HolderChanges
<1> HIDE DEF id
<1>4. QED
  BY <1>3 DEF Table!Acquire

LEMMA NativeUnlockMaps ==
  ASSUME IInv, IInv', NEW t \in Threads, NativeUnlock(t)
  PROVE  \E id \in MutexIds : Table!Release(t, id)
<1>1. slot[SlotOf(t)].owner = t /\ slot' = [slot EXCEPT ![SlotOf(t)].owner = NoThread]
  BY DEF NativeUnlock
<1>2. SlotOf(t) \in Slots
  BY MutexIdFacts DEF NativeUnlock, At, IInv, CallDiscipline, Disciplined, SlotOf
<1>3. slot[SlotOf(t)].in_use
  <2>1. \A i \in Slots : slot[i].owner # NoThread => slot[i].in_use
    BY DEF IInv, SlotDiscipline
  <2>2. t # NoThread
    BY ThreadFacts
  <2>3. slot[SlotOf(t)].owner # NoThread
    BY <1>1, <2>2, Zenon
  <2>4. QED
    BY <1>2, <2>1, <2>3, Zenon
<1> DEFINE id == slot[SlotOf(t)].id
<1>4. /\ id \in DOMAIN TableMap /\ id \in MutexIds
      /\ TableMap[id].holder = t
      /\ TableMap' = [TableMap EXCEPT ![id].holder = NoThread]
  BY <1>1, <1>2, <1>3, HolderChanges
<1> HIDE DEF id
<1>5. QED
  BY <1>4 DEF Table!Release

(* Table B is table A with one entry more. *)
Moved(A, B, id, e) ==
  /\ id \notin DOMAIN A
  /\ id \in DOMAIN B /\ B[id] = e
  /\ B = [k \in DOMAIN A \cup {id} |-> IF k = id THEN e ELSE A[k]]
  /\ A = [k \in DOMAIN B \ {id} |-> B[k]]

(* One slot more or less in use is one entry more or less. *)
LEMMA EntryMoves ==
  ASSUME NEW s1, NEW s2, NEW i \in Slots, Indexed(s1), Indexed(s2),
         ~s1[i].in_use, s2[i].in_use,
         \A j \in Slots : j # i => /\ s1[j].in_use = s2[j].in_use
                                   /\ s1[j].id = s2[j].id
                                   /\ s1[j].name = s2[j].name
                                   /\ s1[j].owner = s2[j].owner
  PROVE  Moved(TableOf(s1), TableOf(s2), s2[i].id, [name |-> s2[i].name, holder |-> s2[i].owner])
<1> DEFINE id0 == s2[i].id
           A   == TableOf(s1)
           B   == TableOf(s2)
           e   == [name |-> s2[i].name, holder |-> s2[i].owner]
<1>1. \A id : id \in DOMAIN A <=>
            IdIndex(id) \in Slots /\ s1[IdIndex(id)].in_use /\ s1[IdIndex(id)].id = id
  BY TableEntries
<1>2. \A id : id \in DOMAIN B <=>
            IdIndex(id) \in Slots /\ s2[IdIndex(id)].in_use /\ s2[IdIndex(id)].id = id
  BY TableEntries
<1>3. \A id \in DOMAIN A :
        A[id] = [name |-> s1[IdIndex(id)].name, holder |-> s1[IdIndex(id)].owner]
  BY TableEntries
<1>4. \A id \in DOMAIN B :
        B[id] = [name |-> s2[IdIndex(id)].name, holder |-> s2[IdIndex(id)].owner]
  BY TableEntries
<1>5. A = [k \in DOMAIN A |-> A[k]] /\ B = [k \in DOMAIN B |-> B[k]]
  BY DEF TableOf
<1>6. IdIndex(id0) = i
  BY DEF Indexed
<1> HIDE DEF A, B
<1>7. id0 \notin DOMAIN A /\ id0 \in DOMAIN B /\ B[id0] = e
  BY <1>1, <1>2, <1>4, <1>6
<1>8. \A id : id \in DOMAIN B <=> id \in DOMAIN A \/ id = id0
  BY <1>1, <1>2, <1>6
<1>9. DOMAIN B = DOMAIN A \cup {id0} /\ DOMAIN A = DOMAIN B \ {id0}
  BY <1>7, <1>8
<1>10. ASSUME NEW k \in DOMAIN A PROVE A[k] = B[k]
  <2>1. k \in DOMAIN B /\ IdIndex(k) \in Slots /\ IdIndex(k) # i
    BY <1>1, <1>8
  <2>2. QED
    BY <1>3, <1>4, <2>1
<1>11. B = [k \in DOMAIN A \cup {id0} |-> IF k = id0 THEN e ELSE A[k]]
  BY <1>5, <1>7, <1>9, <1>10
<1>12. A = [k \in DOMAIN B \ {id0} |-> B[k]]
  BY <1>5, <1>9, <1>10
<1>13. Moved(A, B, id0, e)
  BY <1>7, <1>11, <1>12 DEF Moved
<1>14. QED
  BY <1>13 DEF A, B

LEMMA CreateMaps ==
  ASSUME IInv, IInv', NEW t \in Threads, CreateLocked(t)
  PROVE  \E id \in MutexIds, name \in Names : Table!Create(id, name)
<1>1. PICK i \in Slots, name \in Names :
        /\ IsFirstFree(i)
        /\ ~NameTaken(name)
        /\ slot' = [slot EXCEPT ![i] =
              [id |-> IdPack(AOS_TYPE_MUTEX, NextSerial(slot[i].serial), i),
               owner |-> NoThread, live |-> TRUE, ref_count |-> 0,
               serial |-> NextSerial(slot[i].serial), in_use |-> TRUE, name |-> name]]
  BY DEF CreateLocked
<1>2. slot \in [Slots -> SlotType]
  BY DEF IInv, TypeOK
<1>3. /\ ~slot[i].in_use /\ slot'[i].in_use
      /\ slot'[i].name = name /\ slot'[i].owner = NoThread
      /\ \A j \in Slots : j # i => slot'[j] = slot[j]
  BY <1>1, <1>2 DEF IsFirstFree, FreeSlots
<1>4. slot'[i].id \in MutexIds
  BY <1>3 DEF IInv, SlotDiscipline
<1>5. \A j \in Slots : slot[j].in_use => slot[j].name # name
  BY <1>1 DEF NameTaken
<1> DEFINE id0 == slot'[i].id
<1>6. /\ TableMap = TableOf(slot) /\ TableMap' = TableOf(slot')
      /\ Indexed(slot) /\ Indexed(slot')
  BY MapIsTable, MapIsTableNext, IndexedAlways, IndexedNext
<1>7. \A id \in DOMAIN TableMap : TableMap[id].name # name
  BY <1>5, <1>6, TableEntries
<1>8. /\ id0 \notin DOMAIN TableMap
      /\ TableMap' = [k \in DOMAIN TableMap \cup {id0} |->
                        IF k = id0 THEN [name |-> name, holder |-> NoThread] ELSE TableMap[k]]
  <2>1. \A j \in Slots : j # i => /\ slot[j].in_use = slot'[j].in_use
                                   /\ slot[j].id = slot'[j].id
                                   /\ slot[j].name = slot'[j].name
                                   /\ slot[j].owner = slot'[j].owner
    BY <1>3
  <2>2. Moved(TableOf(slot), TableOf(slot'), slot'[i].id,
              [name |-> slot'[i].name, holder |-> slot'[i].owner])
    BY <1>3, <1>6, <2>1, EntryMoves, Zenon
  <2>3. slot'[i].name = name /\ slot'[i].owner = NoThread
    BY <1>3
  <2>4. Moved(TableMap, TableMap', id0, [name |-> name, holder |-> NoThread])
    BY <1>6, <2>2, <2>3, Zenon
  <2>5. QED
    BY <2>4 DEF Moved
<1> HIDE DEF id0
<1>9. Table!Create(id0, name)
  BY <1>7, <1>8 DEF Table!Create
<1>10. QED
  BY <1>4, <1>9 DEF id0

LEMMA DeleteMaps ==
  ASSUME IInv, IInv', NEW t \in Threads, DeleteLocked(t)
  PROVE  TableMap' = TableMap \/ \E id \in MutexIds : Table!Delete(id)
<1> DEFINE i == SlotOf(t)
           id0 == slot[i].id
<1>1. CASE ~(ValidId(call[t].id) /\ slot[i].ref_count = 0)
  BY <1>1, QuietMaps DEF DeleteLocked
<1>2. CASE ValidId(call[t].id) /\ slot[i].ref_count = 0
  <2>1. slot' = [slot EXCEPT ![i].in_use = FALSE] /\ Goto(t, "destroy")
    BY <1>2 DEF DeleteLocked
  <2>2. i \in Slots /\ slot[i].in_use /\ slot \in [Slots -> SlotType]
    BY <1>2, ValidIdFacts DEF IInv, TypeOK, SlotOf
  <2>3. id0 \in MutexIds
    BY <2>2 DEF IInv, SlotDiscipline
  <2>4. /\ ~slot'[i].in_use /\ slot'[i].owner = slot[i].owner
        /\ \A j \in Slots : j # i => slot'[j] = slot[j]
    BY <2>1, <2>2 DEF SlotType
  <2>5. slot[i].owner = NoThread
    BY <2>2, <2>4 DEF IInv, SlotDiscipline
  <2>6. /\ TableMap = TableOf(slot) /\ TableMap' = TableOf(slot')
        /\ Indexed(slot) /\ Indexed(slot')
    BY MapIsTable, MapIsTableNext, IndexedAlways, IndexedNext
  <2> HIDE DEF i
  <2>7. /\ id0 \in DOMAIN TableMap /\ TableMap[id0].holder = NoThread
        /\ TableMap' = [k \in DOMAIN TableMap \ {id0} |-> TableMap[k]]
    <3>1. \A j \in Slots : j # i => /\ slot'[j].in_use = slot[j].in_use
                                     /\ slot'[j].id = slot[j].id
                                     /\ slot'[j].name = slot[j].name
                                     /\ slot'[j].owner = slot[j].owner
      BY <2>4
    <3>2. Moved(TableOf(slot'), TableOf(slot), slot[i].id,
                [name |-> slot[i].name, holder |-> slot[i].owner])
      BY <2>2, <2>4, <2>6, <3>1, EntryMoves, Zenon
    <3>3. Moved(TableMap', TableMap, id0, [name |-> slot[i].name, holder |-> NoThread])
      BY <2>5, <2>6, <3>2, Zenon
    <3>4. QED
      BY <3>3 DEF Moved
  <2> HIDE DEF id0
  <2>8. QED
    BY <2>3, <2>7 DEF Table!Delete
<1>3. QED
  BY <1>1, <1>2

LEMMA NextMaps ==
  ASSUME IInv, IInv', [Next]_vars
  PROVE  [Table!TableNext]_TableMap
<1> SUFFICES Table!TableNext \/ TableMap' = TableMap
  OBVIOUS
<1>1. CASE UNCHANGED vars
  BY <1>1, TableKept DEF vars
<1>2. CASE Next
  <2>1. PICK t \in Threads :
          \/ Begin(t, "Create", AOS_ID_NONE)
          \/ \E op \in Ops \ {"Create"}, id \in CallIds : Begin(t, op, id)
          \/ Step(t)
    BY <1>2 DEF Next
  <2>2. CASE UNCHANGED slot
    BY <2>2, TableKept
  <2>3. CASE \/ Begin(t, "Create", AOS_ID_NONE)
             \/ \E op \in Ops \ {"Create"}, id \in CallIds : Begin(t, op, id)
    BY <2>2, <2>3 DEF Begin
  <2>4. CASE \/ CreateFails(t) \/ TakeDeadline(t) \/ NativeLockFails(t) \/ UnlockCheckId(t)
             \/ NativeUnlockFails(t) \/ GetInfo(t)
    BY <2>2, <2>4 DEF CreateFails, TakeDeadline, NativeLockFails, UnlockCheckId,
                      NativeUnlockFails, GetInfo
  <2>5. CASE AcquireReference(t) \/ ReleaseReference(t) \/ DestroyNative(t) \/ FinishDelete(t)
    BY <2>5, QuietMaps
  <2>6. CASE CreateLocked(t)
    BY <2>6, CreateMaps DEF Table!TableNext
  <2>7. CASE NativeLock(t)
    BY <2>7, NativeLockMaps DEF Table!TableNext
  <2>8. CASE NativeUnlock(t)
    BY <2>8, NativeUnlockMaps DEF Table!TableNext
  <2>9. CASE DeleteLocked(t)
    BY <2>9, DeleteMaps DEF Table!TableNext
  <2>10. QED
    BY <2>1, <2>3, <2>4, <2>5, <2>6, <2>7, <2>8, <2>9 DEF Step
<1>3. QED
  BY <1>1, <1>2

LEMMA InitMaps == Init => Table!TableInit
<1>1. SUFFICES ASSUME Init PROVE TableMap = << >>
  BY DEF Table!TableInit
<1>2. UsedSlots = {}
  BY <1>1 DEF Init, UsedSlots, EmptySlot
<1>3. LiveIds = {}
  BY <1>2 DEF LiveIds
<1>4. QED
  BY <1>3 DEF TableMap

(* aos_mutex.c implements the table of aos_mutex.h, for any number of      *)
(* threads, mutexes, names and ids.                                        *)
THEOREM MutexImplementsTable ==
  ASSUME CreateOverlapsDelete = FALSE
  PROVE  Spec => ImplementsTable
<1>1. IInv /\ IInv' /\ [Next]_vars => [Table!TableNext]_TableMap
  BY NextMaps
<1>2. QED
  BY <1>1, InitMaps, MutexInvariant, PTL DEF Spec, ImplementsTable, Table!TableSpec

-----------------------------------------------------------------------------
(* Tasks that own a mutex when they are ended (AosMutexCancel), whether or *)
(* not creates overlap deletes                                             *)

(* The calls a step may leave behind. *)
LEMMA CallTypes ==
  ASSUME call \in [Threads -> CallType], NEW t \in Threads
  PROVE  /\ Return(t) => call' \in [Threads -> CallType]
         /\ \A point \in Points : Goto(t, point) => call' \in [Threads -> CallType]
<1>1. Idle \in CallType
  BY DEF Idle, CallType, Points
<1> QED BY <1>1 DEF Return, Goto, CallType

(* Types need no obligation of the callers. *)
LEMMA SlotWriteTypes ==
  ASSUME TypeOK, NEW t \in Threads, Step(t)
  PROVE  slot' \in [Slots -> SlotType]
<1>1. slot \in [Slots -> SlotType] /\ \A i \in Slots : slot[i] \in SlotType
  BY DEF TypeOK
<1>2. CASE CreateLocked(t)
  <2>1. PICK i \in Slots, name \in Names :
          slot' = [slot EXCEPT ![i] =
            [id |-> IdPack(AOS_TYPE_MUTEX, NextSerial(slot[i].serial), i),
             owner |-> NoThread, live |-> TRUE, ref_count |-> 0,
             serial |-> NextSerial(slot[i].serial), in_use |-> TRUE, name |-> name]]
    BY <1>2 DEF CreateLocked
  <2>2. NextSerial(slot[i].serial) \in 1 .. SerialMod - 1
    BY <1>1, NextSerialFresh DEF SlotType
  <2>3. /\ IdPack(AOS_TYPE_MUTEX, NextSerial(slot[i].serial), i) \in MutexIds
        /\ NextSerial(slot[i].serial) \in 0 .. SerialMod - 1
    BY <2>2, MutexIdFacts, SerialModAssumption
  <2> QED BY <1>1, <2>1, <2>3 DEF SlotType
<1>3. CASE AcquireReference(t)
  BY <1>1, <1>3 DEF AcquireReference, SlotType
<1>4. CASE ReleaseReference(t)
  <2>1. CASE SlotOf(t) \in Slots
    <3>1. slot[SlotOf(t)].ref_count \in Nat
      BY <1>1, <2>1 DEF SlotType
    <3> DEFINE n == IF slot[SlotOf(t)].ref_count > 0 THEN slot[SlotOf(t)].ref_count - 1
                                                     ELSE slot[SlotOf(t)].ref_count
    <3>2. n \in Nat
      BY <3>1
    <3>3. slot' = [slot EXCEPT ![SlotOf(t)].ref_count = n]
      BY <1>4 DEF ReleaseReference
    <3> HIDE DEF n
    <3> QED BY <1>1, <2>1, <3>2, <3>3 DEF SlotType
  <2>2. CASE SlotOf(t) \notin Slots
    BY <1>1, <1>4, <2>2 DEF ReleaseReference
  <2> QED BY <2>1, <2>2
<1>5. CASE NativeLock(t) \/ NativeUnlock(t)
  BY <1>1, <1>5 DEF NativeLock, NativeUnlock, SlotType
<1>6. CASE DeleteLocked(t) \/ DestroyNative(t)
  <2>1. \/ UNCHANGED slot
        \/ slot' = [slot EXCEPT ![SlotOf(t)].in_use = FALSE]
        \/ slot' = [slot EXCEPT ![SlotOf(t)].live = FALSE]
    BY <1>6 DEF DeleteLocked, DestroyNative
  <2>2. \A i \in Slots : /\ [slot[i] EXCEPT !.in_use = FALSE] \in SlotType
                         /\ [slot[i] EXCEPT !.live = FALSE] \in SlotType
    BY <1>1 DEF SlotType
  <2> QED BY <1>1, <2>1, <2>2
<1>7. CASE FinishDelete(t)
  <2>1. \/ slot' = [slot EXCEPT ![SlotOf(t)] = [@ EXCEPT !.in_use = TRUE]]
        \/ slot' = [slot EXCEPT ![SlotOf(t)] =
                       [@ EXCEPT !.id = AOS_ID_NONE, !.ref_count = 0, !.name = NoName]]
    BY <1>7 DEF FinishDelete
  <2>2. \A i \in Slots :
          /\ [slot[i] EXCEPT !.in_use = TRUE] \in SlotType
          /\ [slot[i] EXCEPT !.id = AOS_ID_NONE, !.ref_count = 0, !.name = NoName] \in SlotType
    BY <1>1 DEF SlotType
  <2> QED BY <1>1, <2>1, <2>2
<1> QED
  BY <1>1, <1>2, <1>3, <1>4, <1>5, <1>6, <1>7
     DEF Step, CreateFails, TakeDeadline, NativeLockFails, UnlockCheckId,
         NativeUnlockFails, GetInfo

LEMMA StepTypes ==
  ASSUME TypeOK, NEW t \in Threads, Step(t)
  PROVE  TypeOK'
<1>1. \/ Return(t)
      \/ \E point \in {"deadline", "native", "release", "native_unlock",
                       "destroy", "wipe", "undelete"} : Goto(t, point)
  BY DEF Step, CreateFails, CreateLocked, AcquireReference, TakeDeadline, NativeLock,
         NativeLockFails, ReleaseReference, UnlockCheckId, NativeUnlock,
         NativeUnlockFails, DeleteLocked, DestroyNative, FinishDelete, GetInfo
<1>2. \/ Return(t)
      \/ \E point \in Points : Goto(t, point)
  BY <1>1 DEF Points
<1>3. call' \in [Threads -> CallType]
  BY <1>2, CallTypes DEF TypeOK
<1> QED BY <1>3, SlotWriteTypes DEF TypeOK

(* A step of t goes on with the call of t only, and t is inside a call.    *)
LEMMA OneCallMoves ==
  ASSUME TypeOK, NEW t \in Threads, Step(t)
  PROVE  /\ \A u \in Threads \ {t} : call'[u] = call[u]
         /\ call[t] # Idle
<1>1. \/ Return(t)
      \/ \E point \in {"deadline", "native", "release", "native_unlock",
                       "destroy", "wipe", "undelete"} : Goto(t, point)
  BY DEF Step, CreateFails, CreateLocked, AcquireReference, TakeDeadline, NativeLock,
         NativeLockFails, ReleaseReference, UnlockCheckId, NativeUnlock,
         NativeUnlockFails, DeleteLocked, DestroyNative, FinishDelete, GetInfo
<1>2. \A u \in Threads \ {t} : call'[u] = call[u]
  BY <1>1 DEF TypeOK, Return, Goto
<1>3. call[t].pc # "idle"
  BY DEF Step, At, CreateFails, CreateLocked, AcquireReference, TakeDeadline, NativeLock,
         NativeLockFails, ReleaseReference, UnlockCheckId, NativeUnlock,
         NativeUnlockFails, DeleteLocked, DestroyNative, FinishDelete, GetInfo, LockOps
<1>4. Idle.pc = "idle"
  BY DEF Idle
<1> QED BY <1>2, <1>3, <1>4

(* Every step of a thread keeps OrphanInv and keeps an orphan locked.      *)
LEMMA OrphanStep ==
  ASSUME OrphanInv, NEW t \in Threads, Step(t), \A e \in Ended : call'[e] = Idle,
         NEW i \in Slots, slot[i].owner \in Ended, slot'[i].serial = slot[i].serial
  PROVE  slot'[i].owner = slot[i].owner
<1>1. slot \in [Slots -> SlotType] /\ slot[i] \in SlotType
  BY DEF OrphanInv, TypeOK
<1>2. slot[i].owner \in Threads /\ slot[i].owner # NoThread /\ call[slot[i].owner] = Idle
  BY MutexCancelAssumption, ThreadFacts DEF OrphanInv, Ended
<1>3. slot[i].owner # t
  BY <1>2, OneCallMoves DEF OrphanInv
<1>4. CASE CreateLocked(t)
  <2>1. PICK j \in Slots, name \in Names :
          slot' = [slot EXCEPT ![j] =
            [id |-> IdPack(AOS_TYPE_MUTEX, NextSerial(slot[j].serial), j),
             owner |-> NoThread, live |-> TRUE, ref_count |-> 0,
             serial |-> NextSerial(slot[j].serial), in_use |-> TRUE, name |-> name]]
    BY <1>4 DEF CreateLocked
  <2>2. CASE j = i
    <3>1. slot'[i].serial = NextSerial(slot[i].serial)
      BY <1>1, <2>1, <2>2
    <3>2. NextSerial(slot[i].serial) # slot[i].serial
      BY <1>1, NextSerialFresh DEF SlotType
    <3> QED BY <3>1, <3>2
  <2>3. CASE j # i
    BY <1>1, <2>1, <2>3
  <2> QED BY <2>2, <2>3
<1>5. CASE NativeLock(t)
  BY <1>1, <1>2, <1>5 DEF NativeLock, SlotType
<1>6. CASE NativeUnlock(t)
  BY <1>1, <1>3, <1>6 DEF NativeUnlock, SlotType
<1>7. CASE AcquireReference(t) \/ ReleaseReference(t)
  BY <1>1, <1>7 DEF AcquireReference, ReleaseReference, SlotType
<1>8. CASE DeleteLocked(t) \/ DestroyNative(t)
  <2>1. \/ UNCHANGED slot
        \/ slot' = [slot EXCEPT ![SlotOf(t)].in_use = FALSE]
        \/ slot' = [slot EXCEPT ![SlotOf(t)].live = FALSE]
    BY <1>8 DEF DeleteLocked, DestroyNative
  <2> QED BY <1>1, <2>1 DEF SlotType
<1>9. CASE FinishDelete(t)
  BY <1>1, <1>9 DEF FinishDelete, SlotType
<1> QED
  BY <1>1, <1>4, <1>5, <1>6, <1>7, <1>8, <1>9
     DEF Step, CreateFails, TakeDeadline, NativeLockFails, UnlockCheckId,
         NativeUnlockFails, GetInfo

(* Who is blocked in AOS_MutexLock on an orphan makes no step.             *)
LEMMA WaiterStuck ==
  ASSUME OrphanInv, NEW t \in Threads, Step(t),
         NEW i \in Slots, slot[i].owner \in Ended,
         NEW u \in Threads, call[u].pc = "native", call[u].op = "Lock",
         SlotOf(u) = i, slot[i].live
  PROVE  call'[u] = call[u]
<1>1. slot[i].owner \in Threads /\ slot[i].owner # NoThread /\ call[slot[i].owner] = Idle
  BY MutexCancelAssumption, ThreadFacts DEF OrphanInv, Ended
<1>2. slot[i].owner # t
  BY <1>1, OneCallMoves DEF OrphanInv
<1>3. u # t
  <2> SUFFICES ASSUME u = t PROVE FALSE
    OBVIOUS
  <2>1. NativeLock(t) \/ NativeLockFails(t)
    BY DEF Step, At, CreateFails, CreateLocked, AcquireReference, TakeDeadline,
           ReleaseReference, UnlockCheckId, NativeUnlock, NativeUnlockFails,
           DeleteLocked, DestroyNative, FinishDelete, GetInfo, LockOps
  <2> QED BY <1>1, <1>2, <2>1 DEF NativeLock, NativeLockFails
<1> QED BY <1>3, OneCallMoves DEF OrphanInv

(* A call that begins was idle, and writes no slot. *)
LEMMA BeginTypes ==
  ASSUME TypeOK, NEW t \in Threads, NEW op \in Ops,
         NEW id \in CallIds \cup {AOS_ID_NONE}, Begin(t, op, id)
  PROVE  /\ TypeOK' /\ UNCHANGED slot
         /\ \A u \in Threads : call[u].pc = "native" => call'[u] = call[u]
<1>1. TypeOK' /\ UNCHANGED slot
  BY DEF Begin, TypeOK, CallType, Points
<1>2. call[t].pc = "idle" /\ \A u \in Threads \ {t} : call'[u] = call[u]
  BY IdleFacts DEF Begin, TypeOK
<1> QED BY <1>1, <1>2

LEMMA OrphanNext ==
  ASSUME OrphanInv, [CancelNext]_cvars
  PROVE  /\ OrphanInv'
         /\ \A i \in Slots :
              slot[i].owner \in Ended /\ slot'[i].serial = slot[i].serial =>
                /\ slot'[i].owner = slot[i].owner
                /\ \A t \in Threads :
                     At(t, "native") /\ call[t].op = "Lock" /\ SlotOf(t) = i
                       /\ slot[i].live => call'[t] = call[t]
<1>1. CASE CallNext
  <2>1. UNCHANGED fate /\ \A e \in Ended : call'[e] = Idle
    BY <1>1 DEF CallNext
  <2>2. Ended' = Ended
    BY <2>1 DEF Ended
  <2>3. PICK t \in Threads :
          \/ \E op \in Ops, id \in CallIds \cup {AOS_ID_NONE} : Begin(t, op, id)
          \/ Step(t)
    BY <1>1 DEF CallNext, Next, Ops
  <2>4. CASE Step(t)
    <3>1. TypeOK'
      BY <2>4, StepTypes DEF OrphanInv
    <3>2. OrphanInv'
      BY <2>1, <2>2, <3>1 DEF OrphanInv
    <3> QED BY <2>1, <2>4, <3>2, OrphanStep, WaiterStuck DEF At
  <2>5. CASE \E op \in Ops, id \in CallIds \cup {AOS_ID_NONE} : Begin(t, op, id)
    <3>1. /\ TypeOK' /\ UNCHANGED slot
          /\ \A u \in Threads : call[u].pc = "native" => call'[u] = call[u]
      BY <2>5, BeginTypes DEF OrphanInv
    <3>2. OrphanInv'
      BY <2>1, <2>2, <3>1 DEF OrphanInv
    <3> QED BY <3>1, <3>2 DEF At
  <2> QED BY <2>3, <2>4, <2>5
<1>2. CASE \E e \in Tasks : AskToEnd(e) \/ EndOutside(e)
  <2>1. PICK e \in Tasks : AskToEnd(e) \/ EndOutside(e)
    BY <1>2
  <2>2. slot' = slot /\ call' = call
    BY <2>1 DEF AskToEnd, EndOutside
  <2>3. \E f \in {"asked", "ended"} : fate' = [fate EXCEPT ![e] = f] /\ (f = "ended" => call[e] = Idle)
    BY <2>1 DEF AskToEnd, EndOutside
  <2>4. /\ fate' \in [Tasks -> {"runs", "asked", "ended"}]
        /\ \A u \in Tasks : fate'[u] = "ended" => fate[u] = "ended" \/ call[u] = Idle
    BY <2>3 DEF OrphanInv
  <2>5. OrphanInv'
    BY <2>2, <2>4 DEF OrphanInv, TypeOK, Ended
  <2> QED BY <2>2, <2>5
<1>3. CASE UNCHANGED cvars
  <2>1. slot' = slot /\ call' = call /\ fate' = fate
    BY <1>3 DEF cvars
  <2>2. OrphanInv'
    BY <2>1 DEF OrphanInv, TypeOK, Ended
  <2> QED BY <2>1, <2>2
<1> QED BY <1>1, <1>2, <1>3 DEF CancelNext

LEMMA OrphanInit == CancelInit => OrphanInv
<1> SUFFICES ASSUME CancelInit PROVE OrphanInv
  OBVIOUS
<1>1. /\ slot = [i \in Slots |-> EmptySlot] /\ call = [t \in Threads |-> Idle]
      /\ fate = [t \in Tasks |-> "runs"]
  BY DEF CancelInit, Init
<1>2. EmptySlot \in SlotType
  BY SerialModAssumption DEF EmptySlot, SlotType
<1>3. Ended = {}
  BY <1>1 DEF Ended
<1> QED BY <1>1, <1>2, <1>3, IdleFacts DEF OrphanInv, TypeOK

(* A mutex whose owner was ended stays locked, and who waits for it in     *)
(* AOS_MutexLock stays there, as long as the slot has this occupant:       *)
(* nothing is asked of the callers.                                        *)
THEOREM MutexOrphanStaysLocked == CancelSpec => OrphanStaysLocked
<1> DEFINE Kept ==
      \A i \in Slots :
        slot[i].owner \in Ended /\ slot'[i].serial = slot[i].serial =>
          /\ slot'[i].owner = slot[i].owner
          /\ \A t \in Threads :
               At(t, "native") /\ call[t].op = "Lock" /\ SlotOf(t) = i /\ slot[i].live
                 => call'[t] = call[t]
<1>1. OrphanInv /\ [CancelNext]_cvars => OrphanInv'
  BY OrphanNext
<1>2. OrphanInv /\ [CancelNext]_cvars => [Kept]_cvars
  BY OrphanNext
<1> QED BY <1>1, <1>2, OrphanInit, PTL DEF CancelSpec, OrphanStaysLocked

=============================================================================
