-------------------------- MODULE AosPriorityProofs --------------------------
(***************************************************************************)
(* What the mapping of priorities preserves, for every range of native     *)
(* priorities that AOS_PosixConfigureRtPolicy accepts.                     *)
(***************************************************************************)
EXTENDS AosPriority, TLAPS

(* The unsigned product does not wrap. *)
LEMMA ProductFits ==
  ASSUME NEW range \in Nat, NEW p \in AosPriorities,
         range * AOS_TASK_PRIORITY_LOWEST < UIntMod
  PROVE  /\ range * p \in Nat
         /\ range * p <= range * AOS_TASK_PRIORITY_LOWEST
         /\ (range * p) % UIntMod = range * p
<1>1. range * p \in Nat
  BY DEF AosPriorities, AOS_TASK_PRIORITY_LOWEST, AOS_CONFIG_TASK_PRIORITY_LEVELS
<1>2. range * p <= range * AOS_TASK_PRIORITY_LOWEST
  <2>1. PICK d \in Nat : AOS_TASK_PRIORITY_LOWEST = p + d
    <3>1. 31 - p \in Nat /\ 31 = p + (31 - p)
      BY DEF AosPriorities, AOS_TASK_PRIORITY_LOWEST, AOS_CONFIG_TASK_PRIORITY_LEVELS
    <3>2. QED
      BY <3>1 DEF AOS_TASK_PRIORITY_LOWEST, AOS_CONFIG_TASK_PRIORITY_LEVELS
  <2>2. range * d \in Nat
    OBVIOUS
  <2>3. range * (p + d) = range * p + range * d
    BY DEF AosPriorities
  <2>4. QED
    BY <1>1, <2>1, <2>2, <2>3
<1>3. (range * p) % UIntMod = range * p
  <2>1. range * p < UIntMod
    BY <1>1, <1>2, PriorityAssumption
       DEF AOS_TASK_PRIORITY_LOWEST, AOS_CONFIG_TASK_PRIORITY_LEVELS
  <2>2. \A x \in Nat, m \in Nat \ {0} : x < m => x % m = x
    OBVIOUS
  <2>3. QED
    BY <1>1, <2>1, <2>2, PriorityAssumption
<1>4. QED
  BY <1>1, <1>2, <1>3

(* A more urgent task gets a higher native priority: the mapping is        *)
(* strictly monotone, so no two of the 32 levels fall together.            *)
THEOREM MappingSeparates ==
  ASSUME NEW min \in Int, NEW max \in Int,
         IsRange(min, max), PolicyHasEnoughLevels(min, max),
         NEW p \in AosPriorities, NEW q \in AosPriorities, p < q
  PROVE  MapPriority(min, max, p) > MapPriority(min, max, q)
<1> DEFINE range == max - min
           x == range * p
           y == range * q
<1>1. range \in Nat /\ range >= 31 /\ range * AOS_TASK_PRIORITY_LOWEST < UIntMod
  BY DEF IsRange, PolicyHasEnoughLevels, AOS_CONFIG_TASK_PRIORITY_LEVELS
<1>2. x \in Nat /\ x % UIntMod = x
  BY <1>1, ProductFits
<1>3. y \in Nat /\ y % UIntMod = y
  BY <1>1, ProductFits
<1>4. y >= x + 31
  <2>1. PICK d \in Nat : q = p + 1 + d
    <3>1. q - p - 1 \in Nat /\ q = p + 1 + (q - p - 1)
      BY DEF AosPriorities
    <3>2. QED
      BY <3>1
  <2>2. range * d \in Nat
    BY <1>1
  <2>3. p \in Nat
    BY DEF AosPriorities, AOS_TASK_PRIORITY_LOWEST, AOS_CONFIG_TASK_PRIORITY_LEVELS
  <2> HIDE DEF range
  <2>4. range * (p + 1 + d) = range * p + range + range * d
    BY <1>1, <2>3
  <2>5. QED
    BY <1>1, <1>2, <1>3, <2>1, <2>2, <2>4
<1> HIDE DEF x, y
<1>5. y \div 31 > x \div 31
  BY <1>2, <1>3, <1>4
<1>6. /\ MapPriority(min, max, p) = max - x \div 31
      /\ MapPriority(min, max, q) = max - y \div 31
  BY <1>2, <1>3 DEF MapPriority, x, y, AOS_TASK_PRIORITY_LOWEST, AOS_CONFIG_TASK_PRIORITY_LEVELS
<1>7. x \div 31 \in Int /\ y \div 31 \in Int
  BY <1>2, <1>3
<1>8. QED
  BY <1>5, <1>6, <1>7

(* The mapping stays within the range of the policy and uses all of it.    *)
THEOREM MappingInRange ==
  ASSUME NEW min \in Int, NEW max \in Int,
         IsRange(min, max), PolicyHasEnoughLevels(min, max),
         NEW p \in AosPriorities
  PROVE  /\ MapPriority(min, max, p) \in min .. max
         /\ MapPriority(min, max, 0) = max
         /\ MapPriority(min, max, AOS_TASK_PRIORITY_LOWEST) = min
<1> DEFINE range == max - min
           x == range * p
<1>1. range \in Nat /\ range * AOS_TASK_PRIORITY_LOWEST < UIntMod
  BY DEF IsRange, PolicyHasEnoughLevels
<1>2. x \in Nat /\ x % UIntMod = x /\ x <= range * 31
  BY <1>1, ProductFits DEF AOS_TASK_PRIORITY_LOWEST, AOS_CONFIG_TASK_PRIORITY_LEVELS
<1>3. MapPriority(min, max, p) = max - x \div 31
  BY <1>2 DEF MapPriority, AOS_TASK_PRIORITY_LOWEST, AOS_CONFIG_TASK_PRIORITY_LEVELS
<1> HIDE DEF x
<1>4. x \div 31 \in 0 .. range
  BY <1>1, <1>2
<1>5. MapPriority(min, max, p) \in min .. max
  BY <1>1, <1>3, <1>4
<1>6. /\ 0 \in AosPriorities
      /\ AOS_TASK_PRIORITY_LOWEST \in AosPriorities
  BY DEF AosPriorities, AOS_TASK_PRIORITY_LOWEST, AOS_CONFIG_TASK_PRIORITY_LEVELS
<1>7. (range * 0) % UIntMod = range * 0
  BY <1>1, <1>6, ProductFits
<1>8. (range * AOS_TASK_PRIORITY_LOWEST) % UIntMod = range * AOS_TASK_PRIORITY_LOWEST
  BY <1>1, <1>6, ProductFits
<1>9. MapPriority(min, max, 0) = max
  BY <1>1, <1>7 DEF MapPriority, AOS_TASK_PRIORITY_LOWEST, AOS_CONFIG_TASK_PRIORITY_LEVELS
<1>10. MapPriority(min, max, AOS_TASK_PRIORITY_LOWEST) = min
  <2>1. (range * 31) \div 31 = range
    BY <1>1
  <2>2. QED
    BY <1>1, <1>8, <2>1 DEF MapPriority, AOS_TASK_PRIORITY_LOWEST, AOS_CONFIG_TASK_PRIORITY_LEVELS
<1>11. QED
  BY <1>5, <1>9, <1>10
=============================================================================
