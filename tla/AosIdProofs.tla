---------------------------- MODULE AosIdProofs ----------------------------
(* Theorems about packed ids and serials, for every serial width.          *)
EXTENDS AosId, TLAPS

(* Packing loses nothing: the three fields of an id can be read back.      *)
THEOREM IdRoundTrip ==
  ASSUME NEW type \in Nat, type < 256,
         NEW serial \in Nat, serial < 256,
         NEW index \in Nat, index < 65536
  PROVE  /\ IdPack(type, serial, index) \in Nat
         /\ IdType(IdPack(type, serial, index)) = type
         /\ IdSerial(IdPack(type, serial, index)) = serial
         /\ IdIndex(IdPack(type, serial, index)) = index
<1> DEFINE id == IdPack(type, serial, index)
           high == 256 * type + serial
           low  == 65536 * serial + index
<1>1. id \in Nat /\ high \in Nat /\ low \in Nat /\ low < 16777216
  BY SMT DEF IdPack
<1>2. id = 16777216 * type + low /\ id = 65536 * high + index
  BY SMT DEF IdPack
<1>3. type % 256 = type /\ high % 256 = serial
  BY SMT
<1> HIDE DEF id, high, low
<1>4. id \div 16777216 = type
  BY <1>1, <1>2, SMT
<1>5. id \div 65536 = high /\ id % 65536 = index
  BY <1>1, <1>2, SMT
<1>6. IdType(id) = type /\ IdSerial(id) = serial /\ IdIndex(id) = index
  BY <1>3, <1>4, <1>5, SMT DEF IdType, IdSerial, IdIndex
<1> QED BY <1>1, <1>6, SMT DEF id

(* A live id is never AOS_ID_NONE: its type is at least 1.                 *)
LEMMA LiveIdIsNotNone ==
  ASSUME NEW type \in Nat, type >= 1, NEW serial \in Nat, NEW index \in Nat
  PROVE  IdPack(type, serial, index) # AOS_ID_NONE
BY SMT DEF IdPack, AOS_ID_NONE

(* The next serial is never 0, fits its width, and differs from the one    *)
(* before: the id of the previous occupant of a slot is stale.             *)
THEOREM NextSerialFresh ==
  ASSUME NEW serial \in 0 .. SerialMod - 1
  PROVE  /\ NextSerial(serial) \in 1 .. SerialMod - 1
         /\ NextSerial(serial) # serial
<1>1. SerialMod \in Nat /\ SerialMod >= 3
  BY SerialModAssumption
<1>2. CASE serial + 1 < SerialMod
  <2>1. (serial + 1) % SerialMod = serial + 1
    BY <1>1, <1>2
  <2> QED BY <1>1, <1>2, <2>1 DEF NextSerial
<1>3. CASE serial + 1 = SerialMod
  <2>1. (serial + 1) % SerialMod = 0
    BY <1>1, <1>3
  <2> QED BY <1>1, <1>3, <2>1 DEF NextSerial
<1> QED BY <1>1, <1>2, <1>3

-----------------------------------------------------------------------------
(* How long a stale id stays detectable *)

(* The serial of the k-th occupant after one with this serial.             *)
SerialAfter(serial, k) == ((serial - 1 + k) % (SerialMod - 1)) + 1

(* What % does, as the facts the prover needs. *)
LEMMA ModFacts ==
  \A n \in Nat, m \in Nat \ {0} :
     /\ n % m \in 0 .. m - 1
     /\ n < m => n % m = n
     /\ n >= m => n % m = (n - m) % m
     /\ (n + 1) % m = (IF (n % m) + 1 = m THEN 0 ELSE (n % m) + 1)
<1> SUFFICES ASSUME NEW n \in Nat, NEW m \in Nat \ {0}
             PROVE  /\ n % m \in 0 .. m - 1
                    /\ n < m => n % m = n
                    /\ n >= m => n % m = (n - m) % m
                    /\ (n + 1) % m = (IF (n % m) + 1 = m THEN 0 ELSE (n % m) + 1)
  OBVIOUS
<1>1. PICK q \in Nat, r \in 0 .. m - 1 : n = m * q + r
  <2>1. n = m * (n \div m) + (n % m) /\ n \div m \in Nat /\ n % m \in 0 .. m - 1
    BY SMT
  <2>2. QED
    BY <2>1
<1>2. \A x \in Nat, y \in 0 .. m - 1 : (m * x + y) % m = y
  BY SMT
<1>3. n % m = r
  BY <1>1, <1>2
<1>4. n < m => n % m = n
  BY SMT
<1>5. n >= m => n % m = (n - m) % m
  <2>1. SUFFICES ASSUME n >= m PROVE n % m = (n - m) % m
    OBVIOUS
  <2>2. q >= 1
    BY <1>1, <2>1
  <2>3. q - 1 \in Nat /\ n - m = m * (q - 1) + r
    BY <1>1, <2>2
  <2>4. QED
    BY <1>2, <1>3, <2>3
<1>6. (n + 1) % m = (IF r + 1 = m THEN 0 ELSE r + 1)
  <2>1. CASE r + 1 = m
    <3>1. n + 1 = m * (q + 1) + 0 /\ q + 1 \in Nat /\ 0 \in 0 .. m - 1
      BY <1>1, <2>1
    <3>2. (m * (q + 1) + 0) % m = 0
      BY <1>2, <3>1
    <3>3. QED
      BY <2>1, <3>1, <3>2
  <2>2. CASE r + 1 # m
    <3>1. n + 1 = m * q + (r + 1) /\ r + 1 \in 0 .. m - 1
      BY <1>1, <2>2
    <3>2. QED
      BY <1>2, <2>2, <3>1
  <2>3. QED
    BY <2>1, <2>2
<1>7. QED
  BY <1>3, <1>4, <1>5, <1>6

(* SerialAfter counts the steps of NextSerial.                             *)
LEMMA SerialAfterStep ==
  ASSUME NEW serial \in 1 .. SerialMod - 1, NEW k \in Nat
  PROVE  /\ SerialAfter(serial, 0) = serial
         /\ SerialAfter(serial, k) \in 1 .. SerialMod - 1
         /\ SerialAfter(serial, k + 1) = NextSerial(SerialAfter(serial, k))
<1> DEFINE m == SerialMod - 1
           n == serial - 1 + k
           a == n % m
<1>1. m \in Nat \ {0} /\ SerialMod \in Nat \ {0} /\ SerialMod = m + 1 /\ m >= 2
  BY SerialModAssumption
<1>2. /\ n \in Nat /\ serial - 1 \in Nat /\ serial - 1 < m
      /\ serial - 1 + (k + 1) = n + 1 /\ serial - 1 + 0 = serial - 1
      /\ serial - 1 + 1 = serial
  BY <1>1
<1>3. SerialAfter(serial, 0) = ((serial - 1) % m) + 1
  BY <1>2 DEF SerialAfter
<1>4. SerialAfter(serial, k) = a + 1
  BY DEF SerialAfter
<1>5. SerialAfter(serial, k + 1) = ((n + 1) % m) + 1
  BY <1>2 DEF SerialAfter
<1> HIDE DEF m, n
<1>6. (serial - 1) % m = serial - 1
  BY <1>1, <1>2, ModFacts
<1>7. a \in 0 .. m - 1 /\ (n + 1) % m = (IF a + 1 = m THEN 0 ELSE a + 1)
  BY <1>1, <1>2, ModFacts
<1> HIDE DEF a
<1>8. NextSerial(a + 1) = (IF a + 1 = m THEN 1 ELSE a + 2)
  <2>1. PICK b \in Nat : b = a + 1 + 1 /\ b <= SerialMod /\ b # 0
    BY <1>1, <1>7
  <2>2. NextSerial(a + 1) = (IF b % SerialMod = 0 THEN 1 ELSE b % SerialMod)
    BY <2>1 DEF NextSerial
  <2>3. CASE a + 1 = m
    <3>1. SerialMod % SerialMod = 0
      BY <1>1
    <3>2. b = SerialMod
      BY <1>1, <1>7, <2>1, <2>3
    <3>3. QED
      BY <2>2, <2>3, <3>1, <3>2
  <2>4. CASE a + 1 # m
    <3>1. b < SerialMod /\ b = a + 2
      BY <1>1, <1>7, <2>1, <2>4
    <3>2. b % SerialMod = b
      BY <1>1, <2>1, <3>1, ModFacts
    <3>3. QED
      BY <2>1, <2>2, <2>4, <3>1, <3>2
  <2>5. QED
    BY <2>3, <2>4
<1>9. QED
  BY <1>1, <1>2, <1>3, <1>4, <1>5, <1>6, <1>7, <1>8

(* An id is recognised as stale until its slot has had SerialMod - 1 later *)
(* occupants, 255 in the code (the comment in aos_osal.h says 256): the id *)
(* of that one is the old id again.                                        *)
THEOREM StaleIdAliasesAfter ==
  ASSUME NEW serial \in 1 .. SerialMod - 1
  PROVE  /\ \A k \in 1 .. SerialMod - 2 : SerialAfter(serial, k) # serial
         /\ SerialAfter(serial, SerialMod - 1) = serial
<1> DEFINE m == SerialMod - 1
           s == serial - 1
<1>1. /\ m \in Nat \ {0} /\ SerialMod - 2 = m - 1
      /\ s \in Nat /\ s < m /\ serial = s + 1
  BY SerialModAssumption
<1>2. \A k \in Nat : SerialAfter(serial, k) = ((s + k) % m) + 1
  BY DEF SerialAfter
<1> HIDE DEF m, s
<1>3. ASSUME NEW k \in 1 .. m - 1
      PROVE  (s + k) % m # s
  <2>1. PICK n \in Nat : n = s + k
    BY <1>1
  <2>2. CASE n < m
    <3>1. n % m = n
      BY <1>1, <2>2, ModFacts
    <3>2. QED
      BY <1>1, <2>1, <3>1
  <2>3. CASE n >= m
    <3>1. PICK c \in Nat : c = n - m /\ c < m /\ c # s
      BY <1>1, <2>1, <2>3
    <3>2. n % m = c % m
      BY <1>1, <2>3, <3>1, ModFacts
    <3>3. c % m = c
      BY <1>1, <3>1, ModFacts
    <3>4. QED
      BY <2>1, <3>1, <3>2, <3>3
  <2>4. QED
    BY <1>1, <2>2, <2>3
<1>4. (s + m) % m = s
  <2>1. PICK n \in Nat : n = s + m /\ n >= m /\ n - m = s
    BY <1>1
  <2>2. n % m = (n - m) % m
    BY <1>1, <2>1, ModFacts
  <2>3. s % m = s
    BY <1>1, ModFacts
  <2>4. QED
    BY <2>1, <2>2, <2>3
<1>5. SerialAfter(serial, m) = serial
  BY <1>1, <1>2, <1>4
<1>6. ASSUME NEW k \in 1 .. m - 1
      PROVE  SerialAfter(serial, k) # serial
  <2>1. k \in Nat /\ (s + k) % m # s
    BY <1>1, <1>3
  <2>2. (s + k) % m \in Nat
    BY <1>1, <2>1, ModFacts
  <2>3. QED
    BY <1>1, <1>2, <2>1, <2>2
<1>7. QED
  BY <1>1, <1>5, <1>6 DEF m

=============================================================================
