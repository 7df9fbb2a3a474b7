-------------------------- MODULE CollectionProofs --------------------------
(***************************************************************************)
(* Proofs about the collections of the ANTLR runtime that recognisers work  *)
(* with: the bit sets, the tries of integers and the rule memory kept in    *)
(* them.                                                                    *)
(***************************************************************************)
EXTENDS Bitset, RuleMemo, TLAPS

-----------------------------------------------------------------------------
(* Bit sets. *)

(* What every operation leaves: room for each bit that is one. *)
Sound(s) ==
  /\ s \in [length : Nat, bits : SUBSET Bit]
  /\ s.length >= LeastWords
  /\ \A b \in s.bits : WordNumber(b) < s.length

SetsSound ==
  /\ DOMAIN sets = Name
  /\ \A n \in Name : Sound(sets[n])

(* A sound bit set holds this set of types. *)
Holds(s, S) == Sound(s) /\ s.bits = S
-----------------------------------------------------------------------------
(* Words. *)

LEMMA WordNat ==
  ASSUME NEW b \in Bit
  PROVE  b \in Nat /\ WordNumber(b) \in Nat /\ NumWordsToHold(b) = WordNumber(b) + 1
<1>1. PICK w \in Nat \ {0} : w = WordBits
  BY WordAssumption
<1>2. PICK x \in Nat : x = b
  BY WordAssumption
<1>3. x \div w \in Nat
  OBVIOUS
<1> QED
  BY <1>1, <1>2, <1>3 DEF WordNumber, NumWordsToHold

LEMMA Exactly ==
  ASSUME NEW a \in Nat \ {0}, NEW w \in Nat \ {0}
  PROVE  (a * w - 1) \div w + 1 = a
OBVIOUS

LEMMA InRoom ==
  ASSUME NEW i \in Nat, NEW l \in Nat, NEW w \in Nat \ {0}, i \div w < l
  PROVE  i < l * w
OBVIOUS

LEMMA MoreRoom ==
  ASSUME NEW a \in Nat, NEW b \in Nat, NEW w \in Nat, a >= b
  PROVE  a * w >= b * w
OBVIOUS

(* A set made with room for the words of another has as many. *)
LEMMA NewHas ==
  ASSUME NEW l \in Nat, l >= LeastWords
  PROVE  NewBitset(WordBits * l) = [length |-> l, bits |-> {}]
<1>1. PICK w \in Nat \ {0}, k \in Nat \ {0} : w = WordBits /\ k = LeastWords
  BY WordAssumption
<1>2. l * w \in Nat /\ k * w \in Nat /\ l * w >= k * w /\ w * l = l * w
  BY <1>1, MoreRoom
<1>3. Larger(WordBits * l, LeastWords * WordBits) = l * w
  BY <1>1, <1>2 DEF Larger
<1>4. (l * w - 1) \div w + 1 = l
  BY <1>1, Exactly
<1> QED
  BY <1>1, <1>3, <1>4 DEF NewBitset

LEMMA NewZero == NewBitset(0) = [length |-> LeastWords, bits |-> {}]
<1>1. PICK w \in Nat \ {0}, k \in Nat \ {0} : w = WordBits /\ k = LeastWords
  BY WordAssumption
<1>2. k * w \in Nat
  BY <1>1
<1>3. Larger(0, LeastWords * WordBits) = k * w
  BY <1>1, <1>2 DEF Larger
<1>4. (k * w - 1) \div w + 1 = k
  BY <1>1, Exactly
<1> QED
  BY <1>1, <1>3, <1>4 DEF NewBitset

LEMMA NewHolds == Holds(NewBitset(0), {})
<1>1. PICK k \in Nat : k = LeastWords
  BY WordAssumption
<1>2. NewBitset(0) = [length |-> k, bits |-> {}]
  BY <1>1, NewZero
<1> QED
  BY <1>1, <1>2 DEF Holds, Sound
-----------------------------------------------------------------------------
(* The operations. *)

(* A sound set, field by field. *)
LEMMA Fields ==
  ASSUME NEW s, Sound(s)
  PROVE  /\ s = [length |-> s.length, bits |-> s.bits]
         /\ s.length \in Nat /\ s.length >= LeastWords /\ LeastWords \in Nat \ {0}
         /\ s.bits \subseteq Bit /\ \A b \in s.bits : WordNumber(b) < s.length
BY WordAssumption DEF Sound

LEMMA MoreBits ==
  ASSUME NEW m, NEW S, NEW T, NEW g, g = [length |-> m, bits |-> S]
  PROVE  [g EXCEPT !.bits = @ \cup T] = [length |-> m, bits |-> S \cup T]
OBVIOUS

LEMMA AddHolds ==
  ASSUME NEW s, Sound(s), NEW b \in Bit
  PROVE  Holds(addBit(s, b), s.bits \cup {b})
<1>1. PICK l \in Nat, k \in Nat, w \in Nat : /\ l = s.length /\ k = LeastWords /\ l >= k
                                             /\ w = WordNumber(b) /\ NumWordsToHold(b) = w + 1
  BY Fields, WordNat
<1>2. PICK m \in Nat : m >= l /\ w < m /\ addBit(s, b) = [length |-> m, bits |-> s.bits \cup {b}]
  <2>1. s = [length |-> l, bits |-> s.bits]
    BY <1>1, Fields
  <2>2. CASE w >= l
    <3>1. PICK m \in Nat : m = Larger(2 * l, w + 1) /\ m >= l /\ w < m
      BY DEF Larger
    <3>2. growToInclude(s, b) = [length |-> m, bits |-> s.bits]
      BY <1>1, <2>1, <3>1 DEF growToInclude, grow
    <3>3. addBit(s, b) = [growToInclude(s, b) EXCEPT !.bits = @ \cup {b}]
      BY <1>1, <2>2 DEF addBit
    <3>4. addBit(s, b) = [length |-> m, bits |-> s.bits \cup {b}]
      BY <3>2, <3>3, MoreBits
    <3> QED
      BY <3>1, <3>4
  <2>3. CASE ~ (w >= l)
    <3>1. addBit(s, b) = [s EXCEPT !.bits = @ \cup {b}]
      BY <1>1, <2>3 DEF addBit
    <3>2. addBit(s, b) = [length |-> l, bits |-> s.bits \cup {b}]
      BY <2>1, <3>1, MoreBits
    <3>3. l >= l /\ w < l
      BY <2>3
    <3> QED
      BY <3>2, <3>3
  <2> QED
    BY <2>2, <2>3
<1>3. \A c \in s.bits : WordNumber(c) \in Nat /\ WordNumber(c) < l
  BY <1>1, Fields, WordNat
<1>4. s.bits \cup {b} \subseteq Bit
  BY Fields
<1> QED
  BY <1>1, <1>2, <1>3, <1>4 DEF Holds, Sound

LEMMA RemoveHolds ==
  ASSUME NEW s, Sound(s), NEW b \in Bit
  PROVE  Holds(removeBit(s, b), s.bits \ {b})
<1>1. CASE WordNumber(b) < s.length
  <2>1. removeBit(s, b) = [length |-> s.length, bits |-> s.bits \ {b}]
    BY <1>1, Fields DEF removeBit
  <2> QED
    BY <2>1, Fields DEF Holds, Sound
<1>2. CASE ~ (WordNumber(b) < s.length)
  <2>1. b \notin s.bits
    BY <1>2, Fields
  <2>2. s.bits \ {b} = s.bits
    BY <2>1
  <2> QED
    BY <1>2, <2>2 DEF removeBit, Holds
<1> QED
  BY <1>1, <1>2

LEMMA CloneHolds ==
  ASSUME NEW s, Sound(s)
  PROVE  clone(s) = s
<1>1. NewBitset(WordBits * s.length) = [length |-> s.length, bits |-> {}]
  BY Fields, NewHas
<1>2. clone(s) = [length |-> s.length, bits |-> s.bits]
  BY <1>1 DEF clone
<1> QED
  BY <1>2, Fields

(* Or-ing leaves a sound set that holds what the words of both have in    *)
(* common with the room; with bits that fit, that is the union.            *)
LEMMA OrSound ==
  ASSUME NEW s, Sound(s), NEW t, Sound(t)
  PROVE  /\ Sound(borInPlace(s, t))
         /\ BitsFit => borInPlace(s, t).bits = s.bits \cup t.bits
<1>1. PICK l \in Nat, k \in Nat, q \in Nat :
        l = s.length /\ k = LeastWords /\ l >= k /\ q = t.length /\ q >= k
  BY Fields
<1>2. PICK m \in Nat :
        /\ (IF s.length < t.length THEN growToInclude(s, t.length * WordBytes) ELSE s)
             = [length |-> m, bits |-> s.bits]
        /\ m >= l /\ (m >= q \/ m >= 2 * k)
  <2>1. s = [length |-> l, bits |-> s.bits]
    BY <1>1, Fields
  <2>2. CASE l < q
    <3>1. NumWordsToHold(q * WordBytes) \in Nat
      <4>1. PICK w \in Nat \ {0}, y \in Nat : w = WordBits /\ y = WordBytes
        BY WordAssumption
      <4>2. q * y \in Nat
        OBVIOUS
      <4>3. (q * y) \div w \in Nat
        BY <4>2
      <4> QED
        BY <4>1, <4>3 DEF NumWordsToHold
    <3>2. PICK x \in Nat : x = NumWordsToHold(q * WordBytes)
      BY <3>1
    <3>3. PICK m \in Nat : m = Larger(2 * l, x) /\ m >= l /\ m >= 2 * k
      BY <1>1 DEF Larger
    <3>4. growToInclude(s, t.length * WordBytes) = [length |-> m, bits |-> s.bits]
      BY <1>1, <2>1, <3>2, <3>3 DEF growToInclude, grow
    <3> QED
      BY <1>1, <2>2, <3>3, <3>4
  <2>3. CASE ~ (l < q)
    BY <1>1, <2>1, <2>3
  <2> QED
    BY <2>2, <2>3
<1>3. PICK min \in Nat : min = Smaller(m, q) /\ min <= m /\ (min = m \/ min = q)
  BY DEF Smaller
<1> DEFINE C == {b \in t.bits : WordNumber(b) < min}
<1>4. borInPlace(s, t) = [length |-> m, bits |-> s.bits \cup C]
  <2>1. PICK g : /\ g = IF s.length < t.length THEN growToInclude(s, t.length * WordBytes) ELSE s
                 /\ g = [length |-> m, bits |-> s.bits]
    BY <1>2
  <2>2. Smaller(g.length, t.length) = min
    BY <1>1, <1>3, <2>1
  <2>3. borInPlace(s, t) = [g EXCEPT !.bits = @ \cup C]
    BY <2>1, <2>2 DEF borInPlace
  <2>4. PICK S, T : S = s.bits /\ T = C
    OBVIOUS
  <2>5. g = [length |-> m, bits |-> S]
    BY <2>1, <2>4
  <2>6. [g EXCEPT !.bits = @ \cup T] = [length |-> m, bits |-> S \cup T]
    BY <2>5, MoreBits
  <2> HIDE DEF C
  <2> QED
    BY <2>3, <2>4, <2>6
<1>5. s.bits \cup C \subseteq Bit
  BY Fields
<1>6. /\ \A b \in s.bits : WordNumber(b) \in Nat /\ WordNumber(b) < l
      /\ \A b \in t.bits : b \in Bit /\ WordNumber(b) \in Nat /\ WordNumber(b) < q
  BY <1>1, Fields, WordNat
<1>7. \A b \in s.bits \cup C : WordNumber(b) < m
  BY <1>2, <1>3, <1>6
<1>8. Sound(borInPlace(s, t))
  <2> HIDE DEF C
  <2> QED
    BY <1>1, <1>2, <1>4, <1>5, <1>7 DEF Sound
<1>9. ASSUME BitsFit PROVE C = t.bits
  <2>1. \A b \in t.bits : WordNumber(b) < 2 * k
    BY <1>1, <1>6, <1>9 DEF BitsFit
  <2>2. ASSUME NEW b \in t.bits PROVE WordNumber(b) < min
    <3>1. PICK w \in Nat : w = WordNumber(b) /\ w < q /\ w < 2 * k
      BY <1>6, <2>1
    <3> QED
      BY <1>2, <1>3, <3>1 DEF Smaller
  <2> QED
    BY <2>2
<1> QED
  BY <1>4, <1>8, <1>9

LEMMA LoadHolds ==
  ASSUME NEW list \in Lists
  PROVE  Holds(bitsetLoad(list), list.bits)
<1>1. PICK k \in Nat, l \in Nat : k = LeastWords /\ l = list.length
  BY WordAssumption
<1>2. PICK m \in Nat : m = Larger(k, l) /\ m >= k /\ m >= l
  BY DEF Larger
<1>3. bitsetLoad(list) = [length |-> m, bits |-> list.bits]
  BY <1>1, <1>2, NewZero DEF bitsetLoad
<1>4. list.bits \subseteq Bit /\ \A b \in list.bits : WordNumber(b) < l
  BY <1>1, WordAssumption DEF WordNumber
<1>5. \A b \in list.bits : WordNumber(b) \in Nat
  BY <1>4, WordNat
<1>6. \A b \in list.bits : WordNumber(b) < m
  BY <1>2, <1>4, <1>5
<1> QED
  BY <1>1, <1>2, <1>3, <1>4, <1>6 DEF Holds, Sound

LEMMA OfHolds ==
  ASSUME NEW b \in Bit, NEW c \in Bit
  PROVE  Holds(BitsetOf(b), {b}) /\ Holds(BitsetOf2(b, c), {b, c})
<1>1. Holds(BitsetOf(b), {b})
  BY NewHolds, AddHolds DEF BitsetOf, Holds
<1>2. Holds(addBit(BitsetOf(b), c), {b} \cup {c})
  BY <1>1, AddHolds DEF Holds
<1>3. {b} \cup {c} = {b, c}
  OBVIOUS
<1> QED
  BY <1>1, <1>2, <1>3 DEF BitsetOf2

LEMMA FromListHolds ==
  ASSUME NEW b \in Bit, NEW c \in Bit
  PROVE  BitsetFromList(<<b, c>>) = BitsetOf2(b, c)
<1> DEFINE l == <<b, c>>
           F(f) == [i \in 0 .. 2 |-> IF i = 0 THEN NewBitset(0) ELSE addBit(f[i - 1], l[i])]
           g == [i \in 0 .. 2 |-> IF i = 0 THEN NewBitset(0)
                                  ELSE IF i = 1 THEN BitsetOf(b) ELSE BitsetOf2(b, c)]
           after == CHOOSE f : f = F(f)
<1>1. Len(l) = 2 /\ l[1] = b /\ l[2] = c
  OBVIOUS
<1>2. g = F(g)
  <2>1. ASSUME NEW i \in 0 .. 2 PROVE g[i] = F(g)[i]
    <3>1. i \in {0, 1, 2}
      BY <2>1
    <3>2. 0 \in 0 .. 2 /\ 1 \in 0 .. 2 /\ 2 \in 0 .. 2
      OBVIOUS
    <3> HIDE DEF l
    <3> QED
      BY <1>1, <3>1, <3>2 DEF BitsetOf, BitsetOf2
  <2> QED
    BY <2>1
<1>3. after = F(after)
  <2>1. \E f : f = F(f)
    BY <1>2
  <2> HIDE DEF F
  <2> QED
    BY <2>1
<1>4. BitsetFromList(l) = after[2]
  BY <1>1 DEF BitsetFromList
<1>5. after[0] = NewBitset(0) /\ after[1] = addBit(after[0], b) /\ after[2] = addBit(after[1], c)
  <2> HIDE DEF after, l
  <2> QED
    BY <1>1, <1>3
<1> QED
  BY <1>4, <1>5 DEF BitsetOf, BitsetOf2
-----------------------------------------------------------------------------
(* The steps. *)

LEMMA InitInv == ASSUME BitsetInit PROVE SetsSound
BY NewHolds DEF BitsetInit, SetsSound, Holds

LEMMA NextInv ==
  ASSUME SetsSound, BitsetNext
  PROVE  SetsSound'
<1>1. ASSUME NEW n \in Name, NEW s, Sound(s), sets' = [sets EXCEPT ![n] = s] PROVE SetsSound'
  BY <1>1 DEF SetsSound
<1>2. \A n \in Name : Sound(sets[n])
  BY DEF SetsSound
<1>3. ASSUME NEW n \in Name, NEW b \in Bit, AddTo(n, b) \/ RemoveFrom(n, b) \/ SetOf(n, b)
      PROVE  SetsSound'
  <2>1. Sound(addBit(sets[n], b)) /\ Sound(removeBit(sets[n], b)) /\ Sound(BitsetOf(b))
    BY <1>2, AddHolds, RemoveHolds, OfHolds DEF Holds
  <2> QED
    BY <1>1, <1>3, <2>1 DEF AddTo, RemoveFrom, SetOf
<1>4. ASSUME NEW n \in Name, NEW b \in Bit, NEW c \in Bit, SetOf2(n, b, c) \/ SetFrom(n, <<b, c>>)
      PROVE  SetsSound'
  <2>1. Sound(BitsetOf2(b, c)) /\ BitsetFromList(<<b, c>>) = BitsetOf2(b, c)
    BY OfHolds, FromListHolds DEF Holds
  <2> QED
    BY <1>1, <1>4, <2>1 DEF SetOf2, SetFrom
<1>5. ASSUME NEW n \in Name, NEW m \in Name, OrInto(n, m) \/ CloneTo(n, m)
      PROVE  SetsSound'
  <2>1. Sound(borInPlace(sets[n], sets[m])) /\ Sound(clone(sets[n]))
    BY <1>2, OrSound, CloneHolds
  <2> QED
    BY <1>1, <1>5, <2>1 DEF OrInto, CloneTo
<1>6. ASSUME NEW n \in Name, NEW m \in Name, NEW r \in Name, OrTo(n, m, r)
      PROVE  SetsSound'
  <2>1. bor(sets[n], sets[m]) = borInPlace(sets[n], sets[m])
    BY <1>2, CloneHolds DEF bor, bitsetORInPlace
  <2>2. Sound(bor(sets[n], sets[m]))
    BY <1>2, <2>1, OrSound
  <2> QED
    BY <1>1, <1>6, <2>2 DEF OrTo
<1>7. ASSUME NEW n \in Name, NEW list \in Lists, LoadInto(n, list)
      PROVE  SetsSound'
  BY <1>1, <1>7, LoadHolds DEF LoadInto, Holds
<1> QED
  BY <1>3, <1>4, <1>5, <1>6, <1>7 DEF BitsetNext

LEMMA Ones ==
  ASSUME NEW s, Sound(s)
  PROVE  {b \in Bit : isMember(s, b)} = s.bits
BY Fields DEF isMember

LEMMA MembersAreBits ==
  ASSUME SetsSound
  PROVE  \A n \in Name : Members(n) = sets[n].bits
<1>1. ASSUME NEW n \in Name PROVE Members(n) = sets[n].bits
  <2>1. Sound(sets[n])
    BY DEF SetsSound
  <2> QED
    BY <2>1, Ones DEF Members
<1> QED
  BY <1>1

(* The observers of sound sets. *)
LEMMA EqualsTrue ==
  ASSUME NEW s, Sound(s), NEW t, Sound(t), s.length >= t.length
  PROVE  equals(s, t) = {s.bits = t.bits}
<1>1. PICK l \in Nat, q \in Nat : l = s.length /\ q = t.length /\ l >= q
  BY Fields
<1>2. Smaller(l, q) = q
  BY <1>1 DEF Smaller
<1>3. /\ \A b \in s.bits : WordNumber(b) \in Nat /\ WordNumber(b) < l
      /\ \A b \in t.bits : WordNumber(b) \in Nat /\ WordNumber(b) < q
  BY <1>1, Fields, WordNat
<1> DEFINE A == {b \in s.bits : WordNumber(b) < q}
           B == {b \in t.bits : WordNumber(b) < q}
<1>4. equals(s, t) = IF A # B THEN {FALSE}
                     ELSE IF l > q THEN {\A b \in s.bits : WordNumber(b) < q}
                     ELSE IF q > q THEN BOOLEAN ELSE {TRUE}
  BY <1>1, <1>2 DEF equals
<1>5. B = t.bits
  BY <1>3
<1>6. CASE A # B
  <2>1. s.bits # t.bits
    BY <1>5, <1>6
  <2> HIDE DEF A, B
  <2> QED
    BY <1>4, <1>6, <2>1
<1>7. CASE A = B /\ l > q
  <2>1. (\A b \in s.bits : WordNumber(b) < q) <=> s.bits = t.bits
    BY <1>5, <1>7
  <2>2. equals(s, t) = {\A b \in s.bits : WordNumber(b) < q}
    <3> HIDE DEF A, B
    <3> QED
      BY <1>4, <1>7
  <2> QED
    BY <2>1, <2>2
<1>8. CASE A = B /\ ~ (l > q)
  <2>1. s.bits = t.bits
    BY <1>1, <1>3, <1>5, <1>8
  <2>2. equals(s, t) = {TRUE}
    <3>1. ~ (q > q)
      OBVIOUS
    <3> HIDE DEF A, B
    <3> QED
      BY <1>4, <1>8, <3>1
  <2> QED
    BY <2>1, <2>2
<1> QED
  BY <1>6, <1>7, <1>8

LEMMA ListAscends ==
  ASSUME NEW s, Sound(s)
  PROVE  toIntList(s) = <<size(s) + 1>> \o ascending(s.bits)
<1>1. PICK w \in Nat \ {0}, l \in Nat : w = WordBits /\ l = s.length
  BY Fields, WordAssumption
<1>2. ASSUME NEW i \in s.bits PROVE i < numBits(s) /\ isMember(s, i)
  <2>1. PICK x \in Nat : x = i /\ x \div w < l
    BY <1>1, Fields, WordAssumption DEF WordNumber
  <2>2. x < l * w
    BY <2>1, InRoom
  <2> QED
    BY <1>1, <2>1, <2>2 DEF numBits, isMember, WordNumber
<1>3. {i \in s.bits : i < numBits(s) /\ isMember(s, i)} = s.bits
  BY <1>2
<1> QED
  BY <1>3 DEF toIntList

LEMMA SoundBitsets == ASSUME SetsSound PROVE BitsetsSound
<1>1. ASSUME NEW n \in Name
      PROVE  /\ sets[n].length >= LeastWords
             /\ \A b \in sets[n].bits : WordNumber(b) < sets[n].length
             /\ size(sets[n]) = Cardinality(Members(n))
             /\ isNilNode(sets[n]) <=> (Members(n) = {})
             /\ \E first \in {size(sets[n]), size(sets[n]) + 1} :
                  toIntList(sets[n]) = <<first>> \o ascending(Members(n))
  <2>1. Sound(sets[n]) /\ Members(n) = sets[n].bits
    BY MembersAreBits DEF SetsSound
  <2>2. toIntList(sets[n]) = <<size(sets[n]) + 1>> \o ascending(Members(n))
    BY <2>1, ListAscends
  <2> QED
    BY <2>1, <2>2, Fields DEF size, isNilNode
<1>2. ASSUME NEW n \in Name, NEW m \in Name, sets[n].length >= sets[m].length
      PROVE  equals(sets[n], sets[m]) = {Members(n) = Members(m)}
  <2>1. /\ Sound(sets[n]) /\ Members(n) = sets[n].bits
        /\ Sound(sets[m]) /\ Members(m) = sets[m].bits
    BY MembersAreBits DEF SetsSound
  <2>2. equals(sets[n], sets[m]) = {sets[n].bits = sets[m].bits}
    BY <1>2, <2>1, EqualsTrue
  <2> QED
    BY <2>1, <2>2
<1> QED
  BY <1>1, <1>2 DEF BitsetsSound
-----------------------------------------------------------------------------
(* The runtime's bit sets, whatever their lengths, have room for each of   *)
(* their bits, and answer about their members as sets do (antlr3bitset).   *)
THEOREM Soundness == BitsetSpec => []BitsetsSound
<1>1. BitsetInit => SetsSound
  BY InitInv
<1>2. SetsSound /\ [BitsetNext]_sets => SetsSound'
  <2>1. SetsSound /\ UNCHANGED sets => SetsSound'
    BY DEF SetsSound
  <2> QED
    BY <2>1, NextInv
<1>3. SetsSound => BitsetsSound
  BY SoundBitsets
<1> QED
  BY <1>1, <1>2, <1>3, PTL DEF BitsetSpec
-----------------------------------------------------------------------------
(* What the sets hold, step by step. *)

Contents == [n \in Name |-> Members(n)]

(* A set takes other contents. *)
Becomes(n, S) == Contents' = [Contents EXCEPT ![n] = S]

LEMMA ContentsAre ==
  ASSUME SetsSound
  PROVE  Contents = [n \in Name |-> sets[n].bits]
BY MembersAreBits DEF Contents

LEMMA Written ==
  ASSUME SetsSound, SetsSound', NEW n \in Name, NEW s, sets' = [sets EXCEPT ![n] = s]
  PROVE  Becomes(n, s.bits)
<1>1. Contents = [m \in Name |-> sets[m].bits] /\ Contents' = [m \in Name |-> sets'[m].bits]
  <2>1. Contents = [m \in Name |-> sets[m].bits]
    BY ContentsAre
  <2>2. ASSUME NEW m \in Name PROVE Members(m)' = sets'[m].bits
    <3>1. Sound(sets'[m])
      BY DEF SetsSound
    <3> QED
      BY <3>1, Ones DEF Members
  <2> QED
    BY <2>1, <2>2 DEF Contents
<1>2. \A m \in Name : sets'[m] = IF m = n THEN s ELSE sets[m]
  BY DEF SetsSound
<1> QED
  BY <1>1, <1>2 DEF Becomes

LEMMA Steps ==
  ASSUME SetsSound, SetsSound', BitsFit, BitsetNext
  PROVE  \E n \in Name :
           \/ \E b \in Bit : Becomes(n, Contents[n] \cup {b}) \/ Becomes(n, Contents[n] \ {b})
           \/ \E b, c \in Bit : Becomes(n, {b, c})
           \/ \E m, r \in Name : Becomes(n, Contents[m] \cup Contents[r])
           \/ \E list \in Lists : Becomes(n, list.bits)
<1>1. \A n \in Name : Sound(sets[n]) /\ Contents[n] = sets[n].bits
  BY ContentsAre DEF SetsSound
<1>2. ASSUME NEW n \in Name, NEW b \in Bit, AddTo(n, b)
      PROVE  Becomes(n, Contents[n] \cup {b})
  <2>1. addBit(sets[n], b).bits = Contents[n] \cup {b}
    BY <1>1, AddHolds DEF Holds
  <2> QED
    BY <1>2, <2>1, Written DEF AddTo
<1>3. ASSUME NEW n \in Name, NEW b \in Bit, RemoveFrom(n, b)
      PROVE  Becomes(n, Contents[n] \ {b})
  <2>1. removeBit(sets[n], b).bits = Contents[n] \ {b}
    BY <1>1, RemoveHolds DEF Holds
  <2> QED
    BY <1>3, <2>1, Written DEF RemoveFrom
<1>4. ASSUME NEW n \in Name, NEW b \in Bit, SetOf(n, b)
      PROVE  Becomes(n, {b, b})
  <2>1. BitsetOf(b).bits = {b, b}
    BY OfHolds DEF Holds
  <2> QED
    BY <1>4, <2>1, Written DEF SetOf
<1>5. ASSUME NEW n \in Name, NEW b \in Bit, NEW c \in Bit, SetOf2(n, b, c) \/ SetFrom(n, <<b, c>>)
      PROVE  Becomes(n, {b, c})
  <2>1. BitsetOf2(b, c).bits = {b, c} /\ BitsetFromList(<<b, c>>) = BitsetOf2(b, c)
    BY OfHolds, FromListHolds DEF Holds
  <2> QED
    BY <1>5, <2>1, Written DEF SetOf2, SetFrom
<1>6. ASSUME NEW n \in Name, NEW m \in Name, OrInto(n, m)
      PROVE  Becomes(n, Contents[n] \cup Contents[m])
  <2>1. borInPlace(sets[n], sets[m]).bits = Contents[n] \cup Contents[m]
    BY <1>1, OrSound
  <2> QED
    BY <1>6, <2>1, Written DEF OrInto
<1>7. ASSUME NEW n \in Name, NEW m \in Name, CloneTo(n, m)
      PROVE  Becomes(m, Contents[n] \cup Contents[n])
  <2>1. clone(sets[n]).bits = Contents[n] \cup Contents[n]
    BY <1>1, CloneHolds
  <2> QED
    BY <1>7, <2>1, Written DEF CloneTo
<1>8. ASSUME NEW n \in Name, NEW m \in Name, NEW r \in Name, OrTo(n, m, r)
      PROVE  Becomes(r, Contents[n] \cup Contents[m])
  <2>1. bor(sets[n], sets[m]) = borInPlace(sets[n], sets[m])
    BY <1>1, CloneHolds DEF bor, bitsetORInPlace
  <2>2. bor(sets[n], sets[m]).bits = Contents[n] \cup Contents[m]
    BY <1>1, <2>1, OrSound
  <2> QED
    BY <1>8, <2>2, Written DEF OrTo
<1>9. ASSUME NEW n \in Name, NEW list \in Lists, LoadInto(n, list)
      PROVE  Becomes(n, list.bits)
  <2>1. bitsetLoad(list).bits = list.bits
    BY LoadHolds DEF Holds
  <2> QED
    BY <1>9, <2>1, Written DEF LoadInto
<1> QED
  BY <1>2, <1>3, <1>4, <1>5, <1>6, <1>7, <1>8, <1>9 DEF BitsetNext

(* Bit sets whose bits lie in the first 2 * LeastWords words - twice the    *)
(* words a new set has - are the sets of token types the recogniser takes   *)
(* them for, whatever is added, removed, loaded, copied and or-ed           *)
(* (antlr3bitset).                                                         *)
THEOREM Implements ==
  ASSUME BitsFit PROVE BitsetSpec => ImplementsTokenSets
<1>1. BitsetInit => SetsSound /\ Sets!Init
  <2>1. BitsetInit => SetsSound
    BY InitInv
  <2>2. ASSUME BitsetInit, SetsSound PROVE Sets!Init
    <3>1. \A n \in Name : Members(n) = {}
      BY <2>2, NewZero, MembersAreBits DEF BitsetInit
    <3> QED
      BY <3>1 DEF Sets!Init
  <2> QED
    BY <2>1, <2>2
<1>2. SetsSound /\ [BitsetNext]_sets => SetsSound'
  <2>1. SetsSound /\ UNCHANGED sets => SetsSound'
    BY DEF SetsSound
  <2> QED
    BY <2>1, NextInv
<1>3. SetsSound /\ SetsSound' /\ [BitsetNext]_sets => [Sets!Next]_Contents
  <2>1. ASSUME UNCHANGED sets PROVE UNCHANGED Contents
    BY <2>1 DEF Contents, Members
  <2>2. ASSUME SetsSound, SetsSound', BitsetNext PROVE Sets!Next
    <3>1. PICK n \in Name :
            \/ \E b \in Bit : Becomes(n, Contents[n] \cup {b}) \/ Becomes(n, Contents[n] \ {b})
            \/ \E b, c \in Bit : Becomes(n, {b, c})
            \/ \E m, r \in Name : Becomes(n, Contents[m] \cup Contents[r])
            \/ \E list \in Lists : Becomes(n, list.bits)
      BY <2>2, Steps
    <3>2. PICK S \in Sets!Results(n) : Becomes(n, S)
      <4>1. \A m \in Name : Contents[m] = Members(m)
        BY DEF Contents
      <4>2. ASSUME NEW b \in Bit
            PROVE  /\ Contents[n] \cup {b} \in Sets!Results(n)
                   /\ Contents[n] \ {b} \in Sets!Results(n)
        BY <4>1 DEF Sets!Results
      <4>3. ASSUME NEW b \in Bit, NEW c \in Bit PROVE {b, c} \in Sets!Results(n)
        BY DEF Sets!Results
      <4>4. ASSUME NEW m \in Name, NEW r \in Name
            PROVE  Contents[m] \cup Contents[r] \in Sets!Results(n)
        BY <4>1 DEF Sets!Results
      <4>5. ASSUME NEW list \in Lists PROVE list.bits \in Sets!Results(n)
        BY DEF Sets!Results
      <4> QED
        BY <3>1, <4>2, <4>3, <4>4, <4>5
    <3> QED
      BY <3>2 DEF Sets!Next, Becomes, Contents
  <2> QED
    BY <2>1, <2>2
<1> QED
  BY <1>1, <1>2, <1>3, PTL DEF BitsetSpec, ImplementsTokenSets, Sets!Spec, Contents

-----------------------------------------------------------------------------
(* The tries.  The masks are the powers of two. *)

Double(bit, mask) == 2 * mask
Doubling == INSTANCE Induction WITH Start <- 1, Step <- Double

LEMMA Masks ==
  /\ bitMask[0] = 1
  /\ \A b \in Nat : bitMask[b + 1] = 2 * bitMask[b] /\ bitMask[b] \in Nat \ {0}
<1>1. bitMask = Doubling!Along
  BY DEF bitMask, Doubling!Along, Double
<1>2. bitMask[0] = 1 /\ \A b \in Nat : bitMask[b + 1] = 2 * bitMask[b]
  BY <1>1, Doubling!Unfolds DEF Double
<1> DEFINE Off == {b \in Nat : bitMask[b] \notin Nat \ {0}}
<1>3. ASSUME Off # {} PROVE FALSE
  <2>1. PICK b \in Off : \A c \in Off : b <= c
    BY <1>3, Doubling!Least
  <2>2. b - 1 \in Nat /\ b - 1 \notin Off /\ b - 1 + 1 = b
    BY <1>2, <2>1
  <2>3. bitMask[b] = 2 * bitMask[b - 1]
    BY <1>2, <2>2
  <2> QED
    BY <2>1, <2>2, <2>3
<1> QED
  BY <1>2, <1>3

(* A key is what its bits are. *)
LEMMA BitsTell ==
  ASSUME NEW depth \in Nat, NEW k \in KeysBelow(depth), NEW j \in KeysBelow(depth),
         \A b \in 0..(depth - 1) : IsSet(k, b) = IsSet(j, b)
  PROVE  k = j
<1> DEFINE q(x, b) == x \div bitMask[b]
           Off == {b \in Nat : b <= depth /\ q(k, depth - b) # q(j, depth - b)}
<1>1. k \in Nat /\ j \in Nat /\ k < bitMask[depth] /\ j < bitMask[depth]
  BY Masks DEF KeysBelow
<1>2. ASSUME NEW x \in Nat, NEW b \in Nat
      PROVE  /\ q(x, b) \in Nat
             /\ q(x, b) = 2 * q(x, b + 1) + (q(x, b) % 2)
             /\ q(x, b) % 2 \in {0, 1}
  <2>1. PICK m \in Nat \ {0} : m = bitMask[b] /\ bitMask[b + 1] = 2 * m
    BY Masks
  <2>2. PICK y \in Nat : y = x \div m
    OBVIOUS
  <2>3. x \div (2 * m) = y \div 2
    BY <2>2
  <2>4. y = 2 * (y \div 2) + (y % 2) /\ y % 2 \in {0, 1}
    OBVIOUS
  <2> QED
    BY <2>1, <2>2, <2>3, <2>4
<1>3. q(k, depth) = 0 /\ q(j, depth) = 0
  <2>1. PICK m \in Nat \ {0} : m = bitMask[depth]
    BY Masks
  <2>2. k \div m = 0 /\ j \div m = 0
    BY <1>1, <2>1
  <2> QED
    BY <2>1, <2>2
<1>4. \A b \in 0..(depth - 1) : (q(k, b) % 2 = 1) = (q(j, b) % 2 = 1)
  BY DEF IsSet
<1>5. Off = {}
  <2> SUFFICES ASSUME Off # {} PROVE FALSE
    OBVIOUS
  <2>1. PICK b \in Off : \A c \in Off : b <= c
    <3>1. Off \in SUBSET Nat
      OBVIOUS
    <3> HIDE DEF Off
    <3> QED
      BY <3>1, Doubling!Least
  <2> HIDE DEF q
  <2>2. b # 0
    BY <1>3, <2>1
  <2>3. b - 1 \in Nat /\ b - 1 <= depth /\ b - 1 \notin Off
    BY <2>1, <2>2
  <2>4. q(k, depth - (b - 1)) = q(j, depth - (b - 1))
    BY <2>3
  <2>5. depth - b \in 0..(depth - 1) /\ depth - b + 1 = depth - (b - 1)
    BY <2>1, <2>2
  <2>6. q(k, depth - b) % 2 = q(j, depth - b) % 2
    <3>1. /\ q(k, depth - b) % 2 \in {0, 1}
          /\ q(j, depth - b) % 2 \in {0, 1}
      BY <1>1, <1>2, <2>5
    <3>2. (q(k, depth - b) % 2 = 1) = (q(j, depth - b) % 2 = 1)
      BY <1>4, <2>5
    <3> QED
      BY <3>1, <3>2
  <2>7. q(k, depth - b) = q(j, depth - b)
    <3>1. /\ q(k, depth - b) = 2 * q(k, depth - b + 1) + (q(k, depth - b) % 2)
          /\ q(j, depth - b) = 2 * q(j, depth - b + 1) + (q(j, depth - b) % 2)
      BY <1>1, <1>2, <2>5
    <3> QED
      BY <2>4, <2>5, <2>6, <3>1
  <2> QED
    BY <2>1, <2>7
<1>6. depth \notin Off
  BY <1>5
<1>7. q(k, 0) = q(j, 0)
  <2>1. depth - depth = 0
    OBVIOUS
  <2> HIDE DEF q
  <2> QED
    BY <1>6, <2>1
<1>8. q(k, 0) = k /\ q(j, 0) = j
  <2>1. k \div 1 = k /\ j \div 1 = j
    BY <1>1
  <2> QED
    BY <2>1, Masks
<1> QED
  BY <1>7, <1>8

LEMMA LeftmostDiffers ==
  ASSUME NEW depth \in Nat, NEW k \in KeysBelow(depth), NEW j \in KeysBelow(depth), k # j
  PROVE  LET b == LeftmostDifference(depth, k, j)
         IN /\ b \in 0..(depth - 1)
            /\ IsSet(k, b) # IsSet(j, b)
            /\ \A c \in (b + 1)..(depth - 1) : IsSet(k, c) = IsSet(j, c)
<1> DEFINE D == {b \in 0..(depth - 1) : IsSet(k, b) # IsSet(j, b)}
<1>1. D # {}
  BY BitsTell
<1>2. PICK m \in D : \A n \in D : m >= n
  <2>1. D \in SUBSET Nat /\ \A n \in D : n <= depth
    OBVIOUS
  <2> HIDE DEF D
  <2> QED
    BY <1>1, <2>1, Doubling!Greatest
<1>3. LeftmostDifference(depth, k, j) = CHOOSE x \in D : \A y \in D : x >= y
  BY DEF LeftmostDifference, Max
<1> DEFINE b == LeftmostDifference(depth, k, j)
<1>4. b \in D /\ \A y \in D : b >= y
  <2> HIDE DEF D
  <2> QED
    BY <1>2, <1>3
<1>5. ASSUME NEW c \in (b + 1)..(depth - 1) PROVE IsSet(k, c) = IsSet(j, c)
  <2>1. b \in Nat /\ c \in 0..(depth - 1) /\ ~(b >= c)
    BY <1>4
  <2> QED
    BY <1>4, <2>1
<1> QED
  BY <1>4, <1>5

-----------------------------------------------------------------------------
(* Keys by their bits.                                                      *)

BitOf(key, bit) == IF IsSet(key, bit) THEN 1 ELSE 0

(* Two keys agree from a bit upwards. *)
Agree(j, k, bit) == \A b \in Nat : b >= bit => BitOf(j, b) = BitOf(k, b)

LEMMA BitSet ==
  ASSUME NEW key, NEW bit
  PROVE  BitOf(key, bit) \in {0, 1} /\ (IsSet(key, bit) <=> BitOf(key, bit) = 1)
BY DEF BitOf

(* A key of a depth has no bit from the depth upwards. *)
LEMMA NoBitAbove ==
  ASSUME NEW depth \in Nat, NEW k \in KeysBelow(depth), NEW bit \in Nat, bit >= depth
  PROVE  BitOf(k, bit) = 0
<1> DEFINE Low == {b \in Nat : b >= depth /\ bitMask[b] < bitMask[depth]}
<1>1. Low = {}
  <2>1. ASSUME Low # {} PROVE FALSE
    <3>1. PICK b \in Low : \A c \in Low : b <= c
      <4>1. Low \in SUBSET Nat
        OBVIOUS
      <4> HIDE DEF Low
      <4> QED
        BY <2>1, <4>1, Doubling!Least
    <3>2. b # depth
      BY <3>1, Masks
    <3>3. b - 1 \in Nat /\ b - 1 >= depth /\ b - 1 \notin Low /\ b - 1 + 1 = b
      BY <3>1, <3>2
    <3>4. bitMask[b] = 2 * bitMask[b - 1] /\ bitMask[b - 1] \in Nat /\ bitMask[depth] \in Nat
      BY <3>3, Masks
    <3> QED
      BY <3>1, <3>3, <3>4
  <2> QED
    BY <2>1
<1>2. PICK m \in Nat \ {0} : m = bitMask[bit]
  BY Masks
<1>3. k \in Nat /\ k < m
  BY <1>1, <1>2, Masks DEF KeysBelow
<1>4. k \div m = 0
  BY <1>3
<1> QED
  BY <1>2, <1>4 DEF BitOf, IsSet

LEMMA AgreeTells ==
  ASSUME NEW depth \in Nat, NEW k \in KeysBelow(depth), NEW j \in KeysBelow(depth), Agree(j, k, 0)
  PROVE  k = j
<1>1. ASSUME NEW b \in 0..(depth - 1) PROVE IsSet(k, b) = IsSet(j, b)
  <2>1. BitOf(j, b) = BitOf(k, b)
    BY DEF Agree
  <2>2. IsSet(k, b) \in BOOLEAN /\ IsSet(j, b) \in BOOLEAN
    BY DEF IsSet
  <2> QED
    BY <2>1, <2>2 DEF BitOf
<1> QED
  BY <1>1, BitsTell

LEMMA Leftmost ==
  ASSUME NEW depth \in Nat, NEW k \in KeysBelow(depth), NEW j \in KeysBelow(depth), k # j
  PROVE  LET b == LeftmostDifference(depth, k, j)
         IN b \in 0..(depth - 1) /\ BitOf(k, b) # BitOf(j, b) /\ Agree(j, k, b + 1)
<1> DEFINE b == LeftmostDifference(depth, k, j)
<1>1. /\ b \in 0..(depth - 1)
      /\ IsSet(k, b) # IsSet(j, b)
      /\ \A c \in (b + 1)..(depth - 1) : IsSet(k, c) = IsSet(j, c)
  BY LeftmostDiffers
<1> HIDE DEF b
<1>2. BitOf(k, b) # BitOf(j, b)
  <2>1. IsSet(k, b) \in BOOLEAN /\ IsSet(j, b) \in BOOLEAN
    BY DEF IsSet
  <2> QED
    BY <1>1, <2>1 DEF BitOf
<1>3. ASSUME NEW c \in Nat, c >= b + 1 PROVE BitOf(j, c) = BitOf(k, c)
  <2>1. CASE c < depth
    BY <1>1, <1>3, <2>1 DEF BitOf
  <2>2. CASE c >= depth
    BY <2>2, NoBitAbove
  <2> QED
    BY <2>1, <2>2
<1> QED
  BY <1>1, <1>2, <1>3 DEF b, Agree

-----------------------------------------------------------------------------
(* Tries.                                                                   *)

(* A link is a node and a bit: where it leads, and the keys it is for.      *)
Child(t, x, s) == IF s = 1 THEN t[x].rightN ELSE t[x].leftN

LinkOf(x, s) == s \in {0, 1} /\ (x = 0 => s = 0)

Leads(t, x, s, k) == Agree(k, x, t[x].bitNum + 1) /\ BitOf(k, t[x].bitNum) = s

Nodes(t, depth) ==
  /\ t = [x \in DOMAIN t |-> t[x]]
  /\ DOMAIN t \subseteq KeysBelow(depth)
  /\ 0 \in DOMAIN t /\ t[0].bitNum = depth /\ t[0].buckets = NoData
  /\ \A x \in DOMAIN t :
       /\ t[x] \in [bitNum : Nat, leftN : DOMAIN t, rightN : DOMAIN t, buckets : Int]
       /\ x # 0 => t[x].bitNum < depth

(* A link leads to a node it is for: down, to a node that agrees with all   *)
(* the nodes the link is for on the bits it does not test, or up, to the    *)
(* only node it is for.                                                     *)
LinkTrue(t, x, s) ==
  LET c == Child(t, x, s)
  IN /\ Leads(t, x, s, c)
     /\ \A k \in DOMAIN t : Leads(t, x, s, k) =>
          IF t[c].bitNum < t[x].bitNum THEN Agree(k, c, t[c].bitNum + 1) ELSE k = c

(* Two nodes do not test the same bit of the same keys. *)
Apart(t) ==
  \A x, y \in DOMAIN t :
    t[x].bitNum = t[y].bitNum /\ Agree(x, y, t[x].bitNum + 1) => x = y

TrieTrue(t, depth) ==
  /\ Nodes(t, depth) /\ Apart(t)
  /\ \A x \in DOMAIN t, s \in {0, 1} : LinkOf(x, s) => LinkTrue(t, x, s)

LEMMA NewTrieTrue ==
  ASSUME NEW depth \in Nat
  PROVE  TrieTrue(NewTrie(depth), depth) /\ DOMAIN NewTrie(depth) = {0}
<1> DEFINE t == NewTrie(depth)
<1>1. t = [x \in {0} |-> [bitNum |-> depth, leftN |-> 0, rightN |-> 0, buckets |-> NoData]]
  BY DEF NewTrie
<1>2. 0 \in KeysBelow(depth)
  BY Masks DEF KeysBelow
<1> HIDE DEF t
<1>3. Nodes(t, depth)
  BY <1>1, <1>2 DEF Nodes, NoData
<1>4. Apart(t)
  BY <1>1 DEF Apart
<1>5. LinkTrue(t, 0, 0)
  <2>1. Child(t, 0, 0) = 0
    BY <1>1 DEF Child
  <2>2. Leads(t, 0, 0, 0)
    BY <1>1, <1>2, NoBitAbove DEF Leads, Agree
  <2> QED
    BY <1>1, <2>1, <2>2 DEF LinkTrue
<1> QED
  BY <1>1, <1>3, <1>4, <1>5 DEF t, TrieTrue, LinkOf

-----------------------------------------------------------------------------
(* The walk down a trie.                                                    *)

WalkLinks(t) == [this : DOMAIN t, next : DOMAIN t]

Stopped(t, least, l) == t[l.this].bitNum <= t[l.next].bitNum \/ t[l.next].bitNum <= least

(* What is true of the first link and passed on is true of the last, and    *)
(* there the walk had to stop: it goes down a bit at least with each link.  *)
LEMMA WalkStays ==
  ASSUME NEW depth \in Nat, NEW t, Nodes(t, depth), NEW k, NEW least \in Int,
         NEW V \in SUBSET WalkLinks(t), [this |-> 0, next |-> t[0].leftN] \in V,
         \A l \in V : Onward(t, k, least, l) \in V
  PROVE  Walk(t, k, least) \in V /\ Stopped(t, least, Walk(t, k, least))
<1> DEFINE first == [this |-> 0, next |-> t[0].leftN]
           G == [n \in Nat |-> [l \in V |-> Onward(t, k, least, l)]]
           Step(f) == [n \in Nat |-> IF n = 0 THEN first ELSE Onward(t, k, least, f[n - 1])]
           link == CHOOSE f : f = Step(f)
<1>1. PICK f : Doubling!Iterates(f, V, first, G)
  <2>1. G \in [Nat -> [V -> V]] /\ first \in V
    OBVIOUS
  <2> HIDE DEF G, first
  <2> QED
    BY <2>1, Doubling!Iteration
<1>2. ASSUME NEW n \in Nat PROVE f[n + 1] = Onward(t, k, least, f[n])
  <2>1. G[n][f[n]] = Onward(t, k, least, f[n])
    BY <1>1 DEF Doubling!Iterates
  <2> QED
    BY <1>1, <2>1 DEF Doubling!Iterates
<1>3. f = Step(f)
  <2> HIDE DEF G, first
  <2>1. ASSUME NEW n \in Nat, n # 0 PROVE f[n] = Onward(t, k, least, f[n - 1])
    <3>1. n - 1 \in Nat /\ n - 1 + 1 = n
      BY <2>1
    <3> QED
      BY <1>2, <3>1
  <2> QED
    BY <1>1, <2>1 DEF Doubling!Iterates
<1>4. link = Step(link)
  BY <1>3
<1>5. Walk(t, k, least) = link[depth]
  BY DEF Walk, Nodes
<1> HIDE DEF G, first, link
<1>6. link[0] = first /\ \A n \in Nat : link[n + 1] = Onward(t, k, least, link[n])
  BY <1>4
<1> HIDE DEF Step
<1>7. \A n \in Nat : link[n] = f[n]
  <2> DEFINE Off == {n \in Nat : link[n] # f[n]}
  <2>1. ASSUME Off # {} PROVE FALSE
    <3>1. PICK n \in Off : \A i \in Off : n <= i
      <4>1. Off \in SUBSET Nat
        OBVIOUS
      <4> HIDE DEF Off
      <4> QED
        BY <2>1, <4>1, Doubling!Least
    <3>2. n # 0
      BY <1>1, <1>6, <3>1 DEF Doubling!Iterates
    <3>3. n - 1 \in Nat /\ n - 1 \notin Off /\ n - 1 + 1 = n
      BY <3>1, <3>2
    <3>4. link[n - 1] = f[n - 1]
      BY <3>3
    <3>5. link[n] = Onward(t, k, least, link[n - 1]) /\ f[n] = Onward(t, k, least, f[n - 1])
      BY <1>2, <1>6, <3>3
    <3> QED
      BY <3>1, <3>4, <3>5
  <2> QED
    BY <2>1
<1>8. ASSUME NEW n \in Nat PROVE link[n] \in V
  BY <1>1, <1>7 DEF Doubling!Iterates
<1>9. \A x \in DOMAIN t : t[x].bitNum \in Nat /\ t[x].bitNum <= depth
  BY DEF Nodes
<1> DEFINE Late == {n \in Nat : /\ ~Stopped(t, least, link[n])
                                /\ t[link[n].this].bitNum > depth - n}
<1>10. Late = {}
  <2>1. ASSUME Late # {} PROVE FALSE
    <3>1. PICK n \in Late : \A i \in Late : n <= i
      <4>1. Late \in SUBSET Nat
        OBVIOUS
      <4> HIDE DEF Late
      <4> QED
        BY <2>1, <4>1, Doubling!Least
    <3>2. n # 0
      BY <1>6, <1>9, <3>1 DEF first, Nodes
    <3>3. n - 1 \in Nat /\ n - 1 \notin Late /\ n - 1 + 1 = n
      BY <3>1, <3>2
    <3>4. link[n] = Onward(t, k, least, link[n - 1])
      BY <1>6, <3>3
    <3>5. PICK l \in V : l = link[n - 1] /\ l.this \in DOMAIN t /\ l.next \in DOMAIN t
      BY <1>8, <3>3 DEF WalkLinks
    <3>6. CASE Stopped(t, least, l)
      <4>1. Onward(t, k, least, l) = l
        BY <1>9, <3>5, <3>6 DEF Stopped, Onward
      <4> QED
        BY <3>1, <3>4, <3>5, <3>6, <4>1
    <3>7. CASE ~Stopped(t, least, l)
      <4>1. t[l.this].bitNum > t[l.next].bitNum
        BY <1>9, <3>5, <3>7 DEF Stopped
      <4>2. t[l.this].bitNum <= depth - (n - 1)
        BY <1>9, <3>3, <3>5, <3>7
      <4>3. Onward(t, k, least, l).this \in {l.this, l.next}
        BY DEF Onward
      <4>4. ~Stopped(t, least, l) => Onward(t, k, least, l).this = l.next
        BY <1>9, <3>5, <4>1 DEF Stopped, Onward
      <4> QED
        BY <1>9, <3>1, <3>4, <3>5, <3>7, <4>1, <4>2, <4>4
    <3> QED
      BY <3>6, <3>7
  <2> QED
    BY <2>1
<1>11. Stopped(t, least, link[depth])
  <2>1. PICK l \in V : l = link[depth] /\ l.this \in DOMAIN t /\ l.next \in DOMAIN t
    BY <1>8 DEF WalkLinks
  <2>2. CASE t[l.this].bitNum <= depth - depth
    BY <1>9, <2>1, <2>2 DEF Stopped
  <2>3. CASE ~(t[l.this].bitNum <= depth - depth)
    <3>1. depth \notin Late
      BY <1>10
    <3> QED
      BY <1>9, <2>1, <2>3, <3>1
  <2> QED
    BY <2>2, <2>3
<1> QED
  BY <1>5, <1>8, <1>11

(* A link of the walk for a key: every node that agrees with the key from a *)
(* bit upwards is still ahead, or the link leads to one that agrees as far. *)
OnPath(t, k, least, l) ==
  LET s == BitOf(k, t[l.this].bitNum)
  IN /\ l.next = Child(t, l.this, s) /\ LinkOf(l.this, s) /\ t[l.this].bitNum > least
     /\ \A j \in DOMAIN t, b \in Nat :
          Agree(j, k, b) => \/ Agree(l.next, k, b)
                            \/ t[l.this].bitNum >= b /\ Leads(t, l.this, s, j)

LEMMA PathBegins ==
  ASSUME NEW depth \in Nat, NEW t, TrieTrue(t, depth), NEW k \in KeysBelow(depth),
         NEW least \in Int, least < depth
  PROVE  OnPath(t, k, least, [this |-> 0, next |-> t[0].leftN])
<1> DEFINE l == [this |-> 0, next |-> t[0].leftN]
<1>1. 0 \in DOMAIN t /\ t[0].bitNum = depth /\ DOMAIN t \subseteq KeysBelow(depth) /\ l.next \in DOMAIN t
  BY DEF TrieTrue, Nodes
<1>2. l.this = 0 /\ l.next = t[0].leftN /\ BitOf(k, depth) = 0
  BY NoBitAbove
<1> HIDE DEF l
<1>3. l.next = Child(t, l.this, 0) /\ LinkOf(l.this, 0)
  BY <1>2 DEF Child, LinkOf
<1>4. ASSUME NEW j \in DOMAIN t, NEW b \in Nat, Agree(j, k, b)
      PROVE  Agree(l.next, k, b) \/ (depth >= b /\ Leads(t, 0, 0, j))
  <2>1. CASE b > depth
    <3>1. ASSUME NEW c \in Nat, c >= b PROVE BitOf(l.next, c) = BitOf(k, c)
      BY <1>1, <2>1, <3>1, NoBitAbove
    <3> QED
      BY <3>1 DEF Agree
  <2>2. CASE depth >= b
    <3>1. ASSUME NEW c \in Nat, c >= depth + 1 PROVE BitOf(j, c) = BitOf(0, c)
      BY <1>1, <3>1, NoBitAbove
    <3>2. BitOf(j, depth) = 0
      BY <1>1, NoBitAbove
    <3> QED
      BY <1>1, <2>2, <3>1, <3>2 DEF Agree, Leads
  <2> QED
    BY <2>1, <2>2
<1> QED
  BY <1>1, <1>2, <1>3, <1>4 DEF OnPath, l

LEMMA PathGoesOn ==
  ASSUME NEW depth \in Nat, NEW t, TrieTrue(t, depth), NEW k \in KeysBelow(depth),
         NEW least \in Int, NEW l \in WalkLinks(t), OnPath(t, k, least, l)
  PROVE  Onward(t, k, least, l) \in WalkLinks(t) /\ OnPath(t, k, least, Onward(t, k, least, l))
<1>1. \A x \in DOMAIN t : /\ t[x].bitNum \in Nat /\ t[x].bitNum <= depth
                          /\ t[x].leftN \in DOMAIN t /\ t[x].rightN \in DOMAIN t
                          /\ x # 0 => t[x].bitNum < depth
  BY DEF TrieTrue, Nodes
<1>2. t[0].bitNum = depth
  BY DEF TrieTrue, Nodes
<1>3. l.this \in DOMAIN t /\ l.next \in DOMAIN t
  BY DEF WalkLinks
<1>4. SUFFICES ASSUME t[l.this].bitNum > t[l.next].bitNum, t[l.next].bitNum > least
               PROVE  Onward(t, k, least, l) \in WalkLinks(t)
                      /\ OnPath(t, k, least, Onward(t, k, least, l))
  BY DEF Onward
<1> DEFINE x == l.this
           y == l.next
           s == BitOf(k, t[x].bitNum)
           r == BitOf(k, t[y].bitNum)
           z == Child(t, y, r)
<1>5. Onward(t, k, least, l) = [this |-> y, next |-> z]
  BY <1>4, BitSet DEF Onward, Child
<1>6. y # 0 /\ LinkOf(y, r) /\ LinkOf(x, s) /\ s \in {0, 1} /\ r \in {0, 1} /\ y = Child(t, x, s)
  <2>1. y # 0
    <3>1. t[y].bitNum < t[x].bitNum /\ t[x].bitNum <= depth
          /\ t[y].bitNum \in Nat /\ t[x].bitNum \in Nat
      BY <1>1, <1>3, <1>4
    <3> HIDE DEF x, y
    <3> QED
      BY <1>2, <3>1
  <2>2. s \in {0, 1} /\ r \in {0, 1}
    BY BitSet
  <2>3. LinkOf(x, s) /\ y = Child(t, x, s)
    BY DEF OnPath
  <2> QED
    BY <2>1, <2>2, <2>3 DEF LinkOf
<1>7. LinkTrue(t, x, s) /\ LinkTrue(t, y, r)
  BY <1>3, <1>6 DEF TrieTrue
<1>8. z \in DOMAIN t
  BY <1>1, <1>3 DEF Child
<1>9. \A j \in DOMAIN t : Leads(t, x, s, j) => Agree(j, y, t[y].bitNum + 1)
  BY <1>4, <1>6, <1>7 DEF LinkTrue
<1>10. Agree(z, y, t[y].bitNum + 1)
  BY <1>7 DEF LinkTrue, Leads
<1>11. t[x].bitNum \in Nat /\ t[y].bitNum \in Nat
  BY <1>1, <1>3
<1>12. ASSUME NEW j \in DOMAIN t, NEW b \in Nat, Agree(j, k, b)
       PROVE  Agree(z, k, b) \/ (t[y].bitNum >= b /\ Leads(t, y, r, j))
  <2>1. Agree(y, k, b) \/ (t[x].bitNum >= b /\ Leads(t, x, s, j))
    BY <1>12 DEF OnPath
  <2>2. Agree(y, k, b) \/ Agree(j, y, t[y].bitNum + 1)
    BY <1>9, <2>1
  <2> HIDE DEF r, z
  <2>3. CASE t[y].bitNum >= b
    <3>1. Agree(j, y, t[y].bitNum + 1)
      BY <1>11, <1>12, <2>2, <2>3 DEF Agree
    <3>2. BitOf(j, t[y].bitNum) = r
      BY <1>11, <1>12, <2>3 DEF Agree, r
    <3> QED
      BY <2>3, <3>1, <3>2 DEF Leads
  <2>4. CASE t[y].bitNum < b
    <3>1. Agree(y, k, b)
      BY <1>11, <1>12, <2>2, <2>4 DEF Agree
    <3> QED
      BY <1>10, <1>11, <2>4, <3>1 DEF Agree
  <2> QED
    BY <1>11, <2>3, <2>4
<1>13. OnPath(t, k, least, [this |-> y, next |-> z])
  BY <1>4, <1>6, <1>12 DEF OnPath
<1> QED
  BY <1>3, <1>5, <1>8, <1>13 DEF WalkLinks

LEMMA WalkTrue ==
  ASSUME NEW depth \in Nat, NEW t, TrieTrue(t, depth), NEW k \in KeysBelow(depth),
         NEW least \in Int, least < depth
  PROVE  LET w == Walk(t, k, least)
         IN w \in WalkLinks(t) /\ OnPath(t, k, least, w) /\ Stopped(t, least, w)
<1> DEFINE V == {l \in WalkLinks(t) : OnPath(t, k, least, l)}
<1>1. Nodes(t, depth) /\ [this |-> 0, next |-> t[0].leftN] \in WalkLinks(t)
  BY DEF TrieTrue, Nodes, WalkLinks
<1>2. [this |-> 0, next |-> t[0].leftN] \in V
  BY <1>1, PathBegins
<1>3. V \in SUBSET WalkLinks(t) /\ \A l \in V : Onward(t, k, least, l) \in V
  BY PathGoesOn
<1>4. Walk(t, k, least) \in V /\ Stopped(t, least, Walk(t, k, least))
  <2> HIDE DEF V
  <2> QED
    BY <1>1, <1>2, <1>3, WalkStays
<1> QED
  BY <1>4

(* The node that is reached agrees with the key as far as any node does.    *)
LEMMA ReachesNearest ==
  ASSUME NEW depth \in Nat, NEW t, TrieTrue(t, depth), NEW k \in KeysBelow(depth)
  PROVE  /\ Reached(t, k) \in DOMAIN t
         /\ \A j \in DOMAIN t, b \in Nat : Agree(j, k, b) => Agree(Reached(t, k), k, b)
<1> DEFINE w == Walk(t, k, -1)
           s == BitOf(k, t[w.this].bitNum)
<1>1. w \in WalkLinks(t) /\ OnPath(t, k, -1, w) /\ Stopped(t, -1, w)
  BY WalkTrue
<1>2. Reached(t, k) = w.next
  BY DEF Reached
<1> HIDE DEF w
<1>3. /\ w.this \in DOMAIN t /\ w.next \in DOMAIN t
      /\ t[w.this].bitNum \in Nat /\ t[w.next].bitNum \in Nat
  BY <1>1 DEF WalkLinks, TrieTrue, Nodes
<1>4. ~(t[w.next].bitNum < t[w.this].bitNum)
  BY <1>1, <1>3 DEF Stopped
<1>5. LinkTrue(t, w.this, s) /\ w.next = Child(t, w.this, s)
  BY <1>1, <1>3, BitSet DEF OnPath, TrieTrue
<1>6. \A j \in DOMAIN t : Leads(t, w.this, s, j) => j = w.next
  BY <1>4, <1>5 DEF LinkTrue
<1>7. ASSUME NEW j \in DOMAIN t, NEW b \in Nat, Agree(j, k, b) PROVE Agree(w.next, k, b)
  BY <1>1, <1>6, <1>7 DEF OnPath
<1> QED
  BY <1>2, <1>3, <1>7

(* What is in a trie is found, and nothing else. *)
LEMMA GetTrue ==
  ASSUME NEW depth \in Nat, NEW t, TrieTrue(t, depth), NEW k \in KeysBelow(depth)
  PROVE  /\ Reached(t, k) = k <=> k \in DOMAIN t
         /\ get(t, k) = IF k \in DOMAIN t THEN t[k].buckets ELSE NoData
<1>1. Reached(t, k) \in DOMAIN t /\ DOMAIN t \subseteq KeysBelow(depth)
  BY ReachesNearest DEF TrieTrue, Nodes
<1>2. ASSUME k \in DOMAIN t PROVE Reached(t, k) = k
  <2>1. Agree(k, k, 0)
    BY DEF Agree
  <2>2. Agree(Reached(t, k), k, 0)
    BY <1>2, <2>1, ReachesNearest
  <2> QED
    BY <1>1, <2>2, AgreeTells
<1>3. DOMAIN t = {0} => t[0].buckets = NoData
  BY DEF TrieTrue, Nodes
<1> QED
  BY <1>1, <1>2, <1>3 DEF get

-----------------------------------------------------------------------------
(* Insertion.                                                               *)

(* A link that is for f tests a bit above b and leads up, or to a node that *)
(* tests a bit below b: only one can be.                                    *)
Crosses(t, x, s, b, f) ==
  /\ x \in DOMAIN t /\ LinkOf(x, s) /\ t[x].bitNum > b /\ Leads(t, x, s, f)
  /\ \/ t[Child(t, x, s)].bitNum >= t[x].bitNum
     \/ t[Child(t, x, s)].bitNum < b

LEMMA NodeFacts ==
  ASSUME NEW depth \in Nat, NEW t, TrieTrue(t, depth), NEW x \in DOMAIN t
  PROVE  /\ t[x].bitNum \in Nat /\ t[x].bitNum <= depth /\ x \in KeysBelow(depth)
         /\ x # 0 <=> t[x].bitNum < depth
         /\ \A s \in {0, 1} :
              /\ Child(t, x, s) \in DOMAIN t /\ t[Child(t, x, s)].bitNum \in Nat
              /\ LinkOf(x, s) => LinkTrue(t, x, s)
BY DEF TrieTrue, Nodes, Child

LEMMA CrossLower ==
  ASSUME NEW depth \in Nat, NEW t, TrieTrue(t, depth), NEW b \in Nat, NEW f \in DOMAIN t,
         NEW x, NEW s, Crosses(t, x, s, b, f), NEW y, NEW r, Crosses(t, y, r, b, f)
  PROVE  ~(t[y].bitNum < t[x].bitNum)
<1> SUFFICES ASSUME t[y].bitNum < t[x].bitNum PROVE FALSE
  OBVIOUS
<1> DEFINE c == Child(t, x, s)
           o == Child(t, y, 1 - r)
<1>1. x \in DOMAIN t /\ y \in DOMAIN t /\ s \in {0, 1} /\ r \in {0, 1} /\ LinkTrue(t, x, s)
  BY NodeFacts DEF Crosses, LinkOf
<1>2. t[x].bitNum \in Nat /\ t[y].bitNum \in Nat /\ t[x].bitNum <= depth /\ c \in DOMAIN t
      /\ t[c].bitNum \in Nat
  BY <1>1, NodeFacts
<1>3. 1 - r \in {0, 1} /\ y # 0
  BY <1>1, <1>2, NodeFacts
<1>4. o \in DOMAIN t /\ LinkTrue(t, y, 1 - r)
  BY <1>1, <1>3, NodeFacts DEF LinkOf
<1>5. /\ Agree(o, y, t[y].bitNum + 1) /\ BitOf(o, t[y].bitNum) = 1 - r
      /\ Agree(f, y, t[y].bitNum + 1) /\ BitOf(f, t[y].bitNum) = r
      /\ Agree(f, x, t[x].bitNum + 1) /\ BitOf(f, t[x].bitNum) = s
      /\ t[y].bitNum > b
  BY <1>4 DEF LinkTrue, Leads, Crosses
<1> HIDE DEF c, o
<1>6. Leads(t, x, s, o) /\ Leads(t, x, s, y) /\ Leads(t, x, s, f)
  BY <1>2, <1>5 DEF Agree, Leads
<1>7. CASE t[c].bitNum >= t[x].bitNum
  <2>1. y = c
    BY <1>1, <1>2, <1>6, <1>7 DEF LinkTrue, c
  <2> QED
    BY <1>2, <1>7, <2>1
<1>8. CASE t[c].bitNum < b /\ t[c].bitNum < t[x].bitNum
  <2>1. Agree(o, c, t[c].bitNum + 1) /\ Agree(f, c, t[c].bitNum + 1)
    BY <1>1, <1>4, <1>6, <1>8 DEF LinkTrue, c
  <2>2. BitOf(o, t[y].bitNum) = BitOf(f, t[y].bitNum)
    BY <1>2, <1>5, <1>8, <2>1 DEF Agree
  <2> QED
    BY <1>1, <1>5, <2>2
<1>9. t[c].bitNum >= t[x].bitNum \/ t[c].bitNum < b
  BY DEF Crosses, c
<1> QED
  BY <1>2, <1>5, <1>7, <1>8, <1>9

LEMMA CrossOnce ==
  ASSUME NEW depth \in Nat, NEW t, TrieTrue(t, depth), NEW b \in Nat, NEW f \in DOMAIN t,
         NEW x, NEW s, Crosses(t, x, s, b, f), NEW y, NEW r, Crosses(t, y, r, b, f)
  PROVE  x = y /\ s = r
<1>1. x \in DOMAIN t /\ y \in DOMAIN t
  BY DEF Crosses
<1>2. t[x].bitNum \in Nat /\ t[y].bitNum \in Nat
  BY <1>1, NodeFacts
<1>3. t[x].bitNum = t[y].bitNum
  <2>1. ~(t[y].bitNum < t[x].bitNum)
    BY CrossLower
  <2>2. ~(t[x].bitNum < t[y].bitNum)
    BY CrossLower
  <2> QED
    BY <1>2, <2>1, <2>2
<1>4. Agree(x, y, t[x].bitNum + 1) /\ s = r
  BY <1>2, <1>3 DEF Crosses, Leads, Agree
<1> QED
  BY <1>1, <1>3, <1>4 DEF TrieTrue, Apart

(* Where a key is inserted: the nodes its link is for are the only ones     *)
(* that agree with it above the bit, and none agrees with it on the bit.    *)
Room(t, depth, k, b, x, s, f) ==
  /\ b \in Nat /\ b < depth /\ f \in DOMAIN t /\ BitOf(k, b) # BitOf(f, b) /\ Agree(f, k, b + 1)
  /\ Crosses(t, x, s, b, f) /\ s = BitOf(k, t[x].bitNum)
  /\ \A j \in DOMAIN t : ~Agree(j, k, b)
  /\ \A y \in DOMAIN t : t[y].bitNum = b => ~Agree(y, k, b + 1)
  /\ \A j \in DOMAIN t : Leads(t, x, s, j) => Agree(j, f, b)

LEMMA RoomFound ==
  ASSUME NEW depth \in Nat, NEW t, TrieTrue(t, depth), NEW k \in KeysBelow(depth), k \notin DOMAIN t
  PROVE  LET b == LeftmostDifference(depth, k, Reached(t, k))
             w == Walk(t, k, b)
         IN /\ Room(t, depth, k, b, w.this, BitOf(k, t[w.this].bitNum), Reached(t, k))
            /\ w.next = Child(t, w.this, BitOf(k, t[w.this].bitNum))
<1> DEFINE f == Reached(t, k)
           b == LeftmostDifference(depth, k, f)
           w == Walk(t, k, b)
           x == w.this
           c == w.next
           s == BitOf(k, t[x].bitNum)
<1>1. f \in DOMAIN t /\ \A j \in DOMAIN t, i \in Nat : Agree(j, k, i) => Agree(f, k, i)
  BY ReachesNearest
<1>2. f \in KeysBelow(depth) /\ f # k
  BY <1>1 DEF TrieTrue, Nodes
<1> HIDE DEF f
<1>3. b \in Nat /\ b < depth /\ BitOf(k, b) # BitOf(f, b) /\ Agree(f, k, b + 1)
  <2>1. b \in 0..(depth - 1) /\ BitOf(k, b) # BitOf(f, b) /\ Agree(f, k, b + 1)
    BY <1>2, Leftmost
  <2> QED
    BY <2>1
<1> HIDE DEF b
<1>4. w \in WalkLinks(t) /\ OnPath(t, k, b, w) /\ Stopped(t, b, w)
  BY <1>3, WalkTrue
<1> HIDE DEF w
<1>5. \A j \in DOMAIN t : ~Agree(j, k, b)
  <2>1. ~Agree(f, k, b)
    BY <1>3 DEF Agree
  <2> QED
    BY <1>1, <1>3, <2>1
<1>6. ASSUME NEW y \in DOMAIN t, t[y].bitNum = b PROVE ~Agree(y, k, b + 1)
  <2> SUFFICES ASSUME Agree(y, k, b + 1) PROVE FALSE
    OBVIOUS
  <2> DEFINE e == Child(t, y, BitOf(k, b))
  <2>1. y # 0
    BY <1>3, <1>6, NodeFacts
  <2>2. BitOf(k, b) \in {0, 1}
    BY BitSet
  <2>3. e \in DOMAIN t /\ LinkTrue(t, y, BitOf(k, b))
    BY <2>1, <2>2, NodeFacts DEF LinkOf
  <2>4. Agree(e, y, b + 1) /\ BitOf(e, b) = BitOf(k, b)
    BY <1>6, <2>3 DEF LinkTrue, Leads
  <2> HIDE DEF e
  <2>5. Agree(e, k, b)
    BY <1>3, <2>4 DEF Agree
  <2> QED
    BY <1>5, <2>3, <2>5
<1>7. /\ x \in DOMAIN t /\ c \in DOMAIN t /\ t[x].bitNum \in Nat /\ t[c].bitNum \in Nat
      /\ t[x].bitNum > b /\ LinkOf(x, s) /\ c = Child(t, x, s) /\ s \in {0, 1}
  <2>1. x \in DOMAIN t /\ c \in DOMAIN t
    BY <1>4 DEF WalkLinks
  <2>2. t[x].bitNum > b /\ LinkOf(x, s) /\ c = Child(t, x, s)
    BY <1>4 DEF OnPath
  <2>3. t[x].bitNum \in Nat /\ t[c].bitNum \in Nat
    BY <2>1, NodeFacts
  <2> QED
    BY <2>1, <2>2, <2>3, BitSet
<1>8. LinkTrue(t, x, s)
  BY <1>7, NodeFacts
<1>9. Leads(t, x, s, c)
  BY <1>7, <1>8 DEF LinkTrue
<1>10. Agree(c, k, b + 1) \/ Leads(t, x, s, f)
  <2>1. b + 1 \in Nat
    BY <1>3
  <2> QED
    BY <1>1, <1>3, <1>4, <2>1 DEF OnPath
<1>11. Leads(t, x, s, f)
  <2>1. CASE Agree(c, k, b + 1)
    <3>1. Agree(c, f, b + 1)
      BY <1>3, <2>1 DEF Agree
    <3> QED
      BY <1>3, <1>7, <1>9, <3>1 DEF Leads, Agree
  <2> QED
    BY <1>10, <2>1
<1>12. t[c].bitNum >= t[x].bitNum \/ t[c].bitNum < b
  <2>1. SUFFICES ASSUME t[c].bitNum < t[x].bitNum, t[c].bitNum = b PROVE FALSE
    BY <1>3, <1>4, <1>7 DEF Stopped
  <2>2. Agree(f, c, b + 1)
    BY <1>1, <1>7, <1>8, <1>11, <2>1 DEF LinkTrue
  <2>3. Agree(c, k, b + 1)
    BY <1>3, <2>2 DEF Agree
  <2> QED
    BY <1>6, <1>7, <2>1, <2>3
<1>13. ASSUME NEW j \in DOMAIN t, Leads(t, x, s, j) PROVE Agree(j, f, b)
  <2>1. CASE t[c].bitNum >= t[x].bitNum
    <3>1. j = c /\ f = c
      BY <1>1, <1>7, <1>8, <1>11, <1>13, <2>1 DEF LinkTrue
    <3> QED
      BY <3>1 DEF Agree
  <2>2. CASE t[c].bitNum < b
    <3>1. Agree(j, c, t[c].bitNum + 1) /\ Agree(f, c, t[c].bitNum + 1)
      BY <1>1, <1>3, <1>7, <1>8, <1>11, <1>13, <2>2 DEF LinkTrue
    <3> QED
      BY <1>3, <1>7, <2>2, <3>1 DEF Agree
  <2> QED
    BY <1>12, <2>1, <2>2
<1>14. Crosses(t, x, s, b, f)
  BY <1>7, <1>11, <1>12 DEF Crosses
<1>15. Room(t, depth, k, b, x, s, f)
  BY <1>1, <1>3, <1>5, <1>6, <1>13, <1>14 DEF Room
<1> QED
  BY <1>7, <1>15 DEF f, b, w

(* The trie with the key: the link the walk stopped at leads to the new     *)
(* node, whose links lead to itself and to where that link led.             *)
Grown(t, u, k, data, b, x, s) ==
  /\ u = [n \in DOMAIN t \cup {k} |-> u[n]]
  /\ u[k] \in [bitNum : Nat, leftN : DOMAIN u, rightN : DOMAIN u, buckets : Int]
  /\ u[k].bitNum = b /\ u[k].buckets = data
  /\ Child(u, k, BitOf(k, b)) = k /\ Child(u, k, 1 - BitOf(k, b)) = Child(t, x, s)
  /\ \A y \in DOMAIN t :
       /\ u[y] \in [bitNum : Nat, leftN : DOMAIN u, rightN : DOMAIN u, buckets : Int]
       /\ u[y].bitNum = t[y].bitNum /\ u[y].buckets = t[y].buckets
       /\ \A r \in {0, 1} :
            Child(u, y, r) = IF y = x /\ r = s THEN k ELSE Child(t, y, r)

LEMMA InsertGrows ==
  ASSUME NEW depth \in Nat, NEW t, TrieTrue(t, depth), NEW k \in KeysBelow(depth),
         k \notin DOMAIN t, NEW data \in Int, NEW b \in Nat,
         Walk(t, k, b) \in WalkLinks(t)
  PROVE  LET w == Walk(t, k, b)
             s == BitOf(k, t[w.this].bitNum)
         IN w.next = Child(t, w.this, s) => Grown(t, Insert(t, k, data, b), k, data, b, w.this, s)
<1> DEFINE w == Walk(t, k, b)
           x == w.this
           s == BitOf(k, t[x].bitNum)
           u == Insert(t, k, data, b)
           node == [bitNum |-> b, buckets |-> data,
                    leftN  |-> IF IsSet(k, b) THEN w.next ELSE k,
                    rightN |-> IF IsSet(k, b) THEN k ELSE w.next]
           above == IF IsSet(k, t[x].bitNum) THEN [t[x] EXCEPT !.rightN = k]
                    ELSE [t[x] EXCEPT !.leftN = k]
<1> SUFFICES ASSUME w.next = Child(t, x, s) PROVE Grown(t, u, k, data, b, x, s)
  OBVIOUS
<1>1. u = [n \in DOMAIN t \cup {k} |-> IF n = k THEN node ELSE IF n = x THEN above ELSE t[n]]
  BY DEF Insert
<1>2. x \in DOMAIN t /\ w.next \in DOMAIN t /\ DOMAIN u = DOMAIN t \cup {k} /\ x # k
  BY <1>1 DEF WalkLinks
<1>3. \A y \in DOMAIN t : t[y] \in [bitNum : Nat, leftN : DOMAIN t, rightN : DOMAIN t, buckets : Int]
  BY DEF TrieTrue, Nodes
<1>4. s \in {0, 1} /\ (IsSet(k, t[x].bitNum) <=> s = 1)
      /\ BitOf(k, b) \in {0, 1} /\ (IsSet(k, b) <=> BitOf(k, b) = 1)
  BY BitSet
<1>5. u[k] = node /\ u[x] = above /\ \A y \in DOMAIN t : y # x => u[y] = t[y]
  BY <1>1, <1>2
<1> HIDE DEF u, w, s
<1>6. /\ node \in [bitNum : Nat, leftN : DOMAIN u, rightN : DOMAIN u, buckets : Int]
      /\ node.bitNum = b /\ node.buckets = data
  BY <1>2
<1>7. Child(u, k, BitOf(k, b)) = k /\ Child(u, k, 1 - BitOf(k, b)) = Child(t, x, s)
  BY <1>4, <1>5 DEF Child
<1>8. /\ above \in [bitNum : Nat, leftN : DOMAIN u, rightN : DOMAIN u, buckets : Int]
      /\ above.bitNum = t[x].bitNum /\ above.buckets = t[x].buckets
  BY <1>2, <1>3
<1>9. \A r \in {0, 1} : Child(u, x, r) = IF r = s THEN k ELSE Child(t, x, r)
  <2>1. t[x] \in [bitNum : Nat, leftN : DOMAIN t, rightN : DOMAIN t, buckets : Int]
    BY <1>2, <1>3
  <2>2. CASE s = 1
    BY <1>4, <1>5, <2>1, <2>2 DEF Child
  <2>3. CASE s = 0
    BY <1>4, <1>5, <2>1, <2>3 DEF Child
  <2> QED
    BY <1>4, <2>2, <2>3
<1> HIDE DEF node, above
<1>10. ASSUME NEW y \in DOMAIN t
       PROVE  /\ u[y] \in [bitNum : Nat, leftN : DOMAIN u, rightN : DOMAIN u, buckets : Int]
              /\ u[y].bitNum = t[y].bitNum /\ u[y].buckets = t[y].buckets
              /\ \A r \in {0, 1} :
                   Child(u, y, r) = IF y = x /\ r = s THEN k ELSE Child(t, y, r)
  <2>1. CASE y = x
    BY <1>5, <1>8, <1>9, <2>1
  <2>2. CASE y # x
    BY <1>2, <1>3, <1>5, <2>2 DEF Child
  <2> QED
    BY <2>1, <2>2
<1> QED
  BY <1>1, <1>2, <1>5, <1>6, <1>7, <1>10 DEF Grown, w, s, u

LEMMA GrownTrue ==
  ASSUME NEW depth \in Nat, NEW t, TrieTrue(t, depth), NEW k \in KeysBelow(depth), k \notin DOMAIN t,
         NEW u, NEW data \in Int, NEW b, NEW x, NEW s, NEW f, Room(t, depth, k, b, x, s, f),
         Grown(t, u, k, data, b, x, s)
  PROVE  TrieTrue(u, depth)
<1> DEFINE c == Child(t, x, s)
           q == BitOf(k, b)
<1>1. /\ b \in Nat /\ b < depth /\ f \in DOMAIN t /\ q # BitOf(f, b) /\ Agree(f, k, b + 1)
      /\ Crosses(t, x, s, b, f) /\ s = BitOf(k, t[x].bitNum)
      /\ \A j \in DOMAIN t : ~Agree(j, k, b)
      /\ \A y \in DOMAIN t : t[y].bitNum = b => ~Agree(y, k, b + 1)
      /\ \A j \in DOMAIN t : Leads(t, x, s, j) => Agree(j, f, b)
  BY DEF Room
<1>2. /\ x \in DOMAIN t /\ s \in {0, 1} /\ LinkOf(x, s) /\ t[x].bitNum \in Nat /\ t[x].bitNum > b
      /\ c \in DOMAIN t /\ t[c].bitNum \in Nat /\ Leads(t, x, s, f) /\ LinkTrue(t, x, s)
      /\ (t[c].bitNum >= t[x].bitNum \/ t[c].bitNum < b)
  <2>1. x \in DOMAIN t /\ s \in {0, 1} /\ LinkOf(x, s) /\ t[x].bitNum > b /\ Leads(t, x, s, f)
        /\ (t[c].bitNum >= t[x].bitNum \/ t[c].bitNum < b)
    BY <1>1 DEF Crosses, LinkOf
  <2> QED
    BY <2>1, NodeFacts
<1> HIDE DEF c
<1>3. 0 \in DOMAIN t /\ k # 0 /\ DOMAIN u = DOMAIN t \cup {k} /\ q \in {0, 1}
      /\ \A j \in DOMAIN t : BitOf(j, b) \in {0, 1}
  BY BitSet DEF TrieTrue, Nodes, Grown
<1>4. Nodes(u, depth)
  BY <1>1, <1>3 DEF Nodes, Grown, TrieTrue
<1>5. Apart(u)
  <2> SUFFICES ASSUME NEW y \in DOMAIN u, NEW z \in DOMAIN u, y # z,
                      u[y].bitNum = u[z].bitNum, Agree(y, z, u[y].bitNum + 1)
               PROVE  FALSE
    BY DEF Apart
  <2>1. CASE y \in DOMAIN t /\ z \in DOMAIN t
    BY <2>1 DEF Apart, Grown, TrieTrue
  <2>2. CASE y = k /\ z \in DOMAIN t
    <3>1. t[z].bitNum = b /\ Agree(z, k, b + 1)
      BY <2>2 DEF Grown, Agree
    <3> QED
      BY <1>1, <2>2, <3>1
  <2>3. CASE z = k /\ y \in DOMAIN t
    <3>1. t[y].bitNum = b /\ Agree(y, k, b + 1)
      BY <2>3 DEF Grown, Agree
    <3> QED
      BY <1>1, <2>3, <3>1
  <2> QED
    BY <1>3, <2>1, <2>2, <2>3
<1>6. \A y \in DOMAIN t : \A r, j : Leads(u, y, r, j) <=> Leads(t, y, r, j)
  BY DEF Grown, Leads
<1>7. \A r, j : Leads(u, k, r, j) <=> Agree(j, k, b + 1) /\ BitOf(j, b) = r
  BY DEF Grown, Leads
<1>8. u[k].bitNum = b /\ \A y \in DOMAIN t : u[y].bitNum = t[y].bitNum
  BY DEF Grown
<1>9. LinkTrue(u, k, q)
  <2>1. Child(u, k, q) = k
    BY DEF Grown
  <2>2. Agree(k, k, b + 1)
    BY DEF Agree
  <2>3. ASSUME NEW j \in DOMAIN u, Leads(u, k, q, j) PROVE j = k
    <3>1. Agree(j, k, b)
      BY <1>1, <1>7, <2>3 DEF Agree
    <3> QED
      BY <1>1, <1>3, <3>1
  <2> QED
    BY <1>1, <1>7, <1>8, <2>1, <2>2, <2>3 DEF LinkTrue
<1>10. LinkTrue(u, k, 1 - q)
  <2>1. Child(u, k, 1 - q) = c
    BY DEF Grown, c
  <2>2. Leads(u, k, 1 - q, c)
    <3>1. Leads(t, x, s, c)
      BY <1>2 DEF LinkTrue, c
    <3>2. Agree(c, f, b)
      BY <1>1, <1>2, <3>1
    <3>3. Agree(c, k, b + 1) /\ BitOf(c, b) = BitOf(f, b)
      BY <1>1, <3>2 DEF Agree
    <3>4. BitOf(f, b) = 1 - q
      BY <1>1, <1>3
    <3> QED
      BY <1>7, <3>3, <3>4
  <2>3. ASSUME NEW j \in DOMAIN u, Leads(u, k, 1 - q, j)
        PROVE  j \in DOMAIN t /\ Leads(t, x, s, j)
    <3>1. Agree(j, k, b + 1) /\ BitOf(j, b) = 1 - q
      BY <1>7, <2>3
    <3>2. j # k
      BY <1>3, <3>1
    <3>3. Agree(j, f, b + 1)
      BY <1>1, <3>1 DEF Agree
    <3> QED
      BY <1>1, <1>2, <1>3, <3>2, <3>3 DEF Leads, Agree
  <2>4. ASSUME NEW j \in DOMAIN u, Leads(u, k, 1 - q, j)
        PROVE  IF u[c].bitNum < u[k].bitNum THEN Agree(j, c, u[c].bitNum + 1) ELSE j = c
    <3>1. j \in DOMAIN t /\ Leads(t, x, s, j)
      BY <2>3, <2>4
    <3>2. IF t[c].bitNum < t[x].bitNum THEN Agree(j, c, t[c].bitNum + 1) ELSE j = c
      BY <1>2, <3>1 DEF LinkTrue, c
    <3> QED
      BY <1>1, <1>2, <1>8, <3>2
  <2> QED
    BY <2>1, <2>2, <2>4 DEF LinkTrue
<1>11. LinkTrue(u, x, s)
  <2>1. Child(u, x, s) = k
    BY <1>2 DEF Grown
  <2>2. Leads(u, x, s, k)
    BY <1>1, <1>2, <1>6 DEF Leads, Agree
  <2>3. ASSUME NEW j \in DOMAIN u, Leads(u, x, s, j) PROVE Agree(j, k, b + 1)
    <3>1. CASE j = k
      BY <3>1 DEF Agree
    <3>2. CASE j \in DOMAIN t
      <4>1. Agree(j, f, b)
        BY <1>1, <1>2, <1>6, <2>3, <3>2
      <4> QED
        BY <1>1, <4>1 DEF Agree
    <3> QED
      BY <1>3, <3>1, <3>2
  <2> QED
    BY <1>2, <1>8, <2>1, <2>2, <2>3 DEF LinkTrue
<1>12. ASSUME NEW y \in DOMAIN t, NEW r \in {0, 1}, LinkOf(y, r), ~(y = x /\ r = s)
       PROVE  LinkTrue(u, y, r)
  <2> DEFINE e == Child(t, y, r)
  <2>1. Child(u, y, r) = e
    BY <1>12 DEF Grown
  <2>2. t[y].bitNum \in Nat /\ e \in DOMAIN t /\ t[e].bitNum \in Nat /\ LinkTrue(t, y, r)
    BY <1>12, NodeFacts
  <2>3. Leads(t, y, r, e)
    BY <2>2 DEF LinkTrue
  <2>4. \A j \in DOMAIN t : Leads(t, y, r, j) =>
          IF t[e].bitNum < t[y].bitNum THEN Agree(j, e, t[e].bitNum + 1) ELSE j = e
    BY <2>2 DEF LinkTrue
  <2>10. ~Crosses(t, y, r, b, f)
    BY <1>1, <1>12, CrossOnce
  <2>11. ~Crosses(t, y, r, b, f) => ~(/\ LinkOf(y, r) /\ t[y].bitNum > b /\ Leads(t, y, r, f)
                                      /\ (t[e].bitNum >= t[y].bitNum \/ t[e].bitNum < b))
    BY DEF Crosses
  <2> HIDE DEF e
  <2>5. ASSUME Leads(t, y, r, k)
        PROVE  t[e].bitNum < t[y].bitNum /\ Agree(k, e, t[e].bitNum + 1)
    <3>1. Agree(k, y, t[y].bitNum + 1) /\ BitOf(k, t[y].bitNum) = r
      BY <2>5 DEF Leads
    <3>2. t[y].bitNum > b
      <4>1. CASE t[y].bitNum < b
        <5>1. Agree(y, k, b)
          BY <1>1, <2>2, <3>1, <4>1 DEF Agree
        <5> QED
          BY <1>1, <5>1
      <4>2. CASE t[y].bitNum = b
        <5>1. Agree(y, k, b + 1)
          BY <3>1, <4>2 DEF Agree
        <5> QED
          BY <1>1, <4>2, <5>1
      <4> QED
        BY <1>1, <2>2, <4>1, <4>2
    <3>3. Leads(t, y, r, f)
      BY <1>1, <2>2, <3>1, <3>2 DEF Leads, Agree
    <3>4. t[e].bitNum < t[y].bitNum /\ t[e].bitNum >= b
      BY <1>1, <1>12, <2>2, <2>10, <2>11, <3>2, <3>3
    <3>5. Agree(f, e, t[e].bitNum + 1)
      BY <1>1, <2>4, <3>3, <3>4
    <3>6. Agree(k, e, t[e].bitNum + 1)
      BY <1>1, <2>2, <3>4, <3>5 DEF Agree
    <3> QED
      BY <3>4, <3>6
  <2>6. ASSUME NEW j \in DOMAIN u, Leads(u, y, r, j)
        PROVE  IF u[e].bitNum < u[y].bitNum THEN Agree(j, e, u[e].bitNum + 1) ELSE j = e
    <3>1. Leads(t, y, r, j)
      BY <1>6, <2>6
    <3>2. u[e].bitNum = t[e].bitNum /\ u[y].bitNum = t[y].bitNum
      BY <1>8, <2>2
    <3>3. CASE j \in DOMAIN t
      BY <2>4, <3>1, <3>2, <3>3
    <3>4. CASE j = k
      BY <2>5, <3>1, <3>2, <3>4
    <3> QED
      BY <1>3, <3>3, <3>4
  <2>7. Leads(u, y, r, e)
    BY <1>6, <2>3
  <2> QED
    BY <2>1, <2>6, <2>7 DEF LinkTrue
<1>13. ASSUME NEW y \in DOMAIN u, NEW r \in {0, 1}, LinkOf(y, r) PROVE LinkTrue(u, y, r)
  <2>1. CASE y = k
    <3>1. r = q \/ r = 1 - q
      BY <1>3
    <3> QED
      BY <1>9, <1>10, <2>1, <3>1
  <2>2. CASE y \in DOMAIN t /\ ~(y = x /\ r = s)
    BY <1>12, <1>13, <2>2
  <2>3. CASE y = x /\ r = s
    BY <1>11, <2>3
  <2> QED
    BY <1>3, <2>1, <2>2, <2>3
<1> QED
  BY <1>4, <1>5, <1>13 DEF TrieTrue

(* A key that is added is in the trie with its data; what was there stays.  *)
LEMMA AddTrue ==
  ASSUME NEW depth \in Nat, NEW t, TrieTrue(t, depth), NEW k \in KeysBelow(depth), NEW data \in Int
  PROVE  LET u == add(t, k, data)
         IN /\ TrieTrue(u, depth) /\ DOMAIN u = DOMAIN t \cup {k}
            /\ \A j \in DOMAIN u : u[j].buckets = IF j \in DOMAIN t THEN t[j].buckets ELSE data
<1> DEFINE f == Reached(t, k)
           b == LeftmostDifference(depth, k, f)
           w == Walk(t, k, b)
           s == BitOf(k, t[w.this].bitNum)
           u == Insert(t, k, data, b)
<1>1. CASE k \in DOMAIN t
  <2>1. add(t, k, data) = t
    BY <1>1, GetTrue DEF add
  <2> QED
    BY <1>1, <2>1
<1>2. CASE k \notin DOMAIN t
  <2>1. Room(t, depth, k, b, w.this, s, f) /\ w.next = Child(t, w.this, s)
    BY <1>2, RoomFound
  <2>2. b \in Nat /\ b < depth
    BY <2>1 DEF Room
  <2>3. add(t, k, data) = u
    BY <1>2, GetTrue DEF add, TrieTrue, Nodes
  <2> HIDE DEF b, f
  <2>4. w \in WalkLinks(t)
    BY <2>2, WalkTrue
  <2>5. Grown(t, u, k, data, b, w.this, s)
    BY <1>2, <2>1, <2>2, <2>4, InsertGrows
  <2> HIDE DEF w, s, u
  <2>6. TrieTrue(u, depth)
    BY <1>2, <2>1, <2>5, GrownTrue
  <2>7. DOMAIN u = DOMAIN t \cup {k}
        /\ \A j \in DOMAIN u : u[j].buckets = IF j \in DOMAIN t THEN t[j].buckets ELSE data
    BY <1>2, <2>5 DEF Grown
  <2> QED
    BY <2>3, <2>6, <2>7
<1> QED
  BY <1>1, <1>2

-----------------------------------------------------------------------------
(* The memory.                                                              *)

(* What is kept for a rule that ends, or fails. *)
Kept(end) == IF end = Fails THEN MEMO_RULE_FAILED ELSE end - 1

ListTrue(list, r) ==
  /\ TrieTrue(list, PlaceDepth) /\ DOMAIN list \subseteq DOMAIN ends[r] \cup {0}
  /\ \A start \in DOMAIN list \ {0} : list[start].buckets = Kept(ends[r][start])

(* The tries are true, each rule that is remembered has its own list, and   *)
(* the lists keep what the rules do.                                        *)
MemoryTrue(m) ==
  /\ m = [rules |-> m.rules, lists |-> m.lists]
  /\ m.lists = [r \in DOMAIN m.lists |-> m.lists[r]]
  /\ TrieTrue(m.rules, RuleDepth)
  /\ DOMAIN m.rules = DOMAIN m.lists \cup {0} /\ DOMAIN m.lists \subseteq DOMAIN ends
  /\ \A r \in DOMAIN m.lists : m.rules[r].buckets = r /\ ListTrue(m.lists[r], r)

(* The last call was answered in truth, and is in the memory now.           *)
LastTrue ==
  LET end == ends[last.rule][last.start]
  IN /\ last.rule \in DOMAIN lists /\ last.rule \in DOMAIN ends
     /\ last.start \in DOMAIN ends[last.rule]
     /\ last.start # 0 => last.start \in DOMAIN lists[last.rule]
     /\ last.failed <=> end = Fails
     /\ ~last.failed => last.index = end

MemoInv == ends \in Inputs /\ MemoryTrue(Memo) /\ (last # NoCall => LastTrue)

LEMMA InputFacts ==
  ASSUME NEW e \in Inputs, NEW r \in DOMAIN e
  PROVE  /\ r \in KeysBelow(RuleDepth) /\ r \in Nat \ {0}
         /\ DOMAIN e[r] \subseteq KeysBelow(PlaceDepth)
         /\ \A s \in DOMAIN e[r] :
              /\ s \in Nat /\ (e[r][s] = Fails \/ (e[r][s] \in Nat /\ e[r][s] >= s))
              /\ Kept(e[r][s]) \in Int
              /\ s # 0 => Kept(e[r][s]) \notin {NoData, MEMO_RULE_UNKNOWN}
              /\ s # 0 => (Kept(e[r][s]) = 0 <=> e[r][s] = 1)
<1>1. RuleDepth \in Nat /\ PlaceDepth \in Nat
  BY MemoAssumption
<1>2. KeysBelow(RuleDepth) \subseteq Nat /\ KeysBelow(PlaceDepth) \subseteq Nat
  BY <1>1, Masks DEF KeysBelow
<1> QED
  BY <1>2, MemoAssumption
     DEF Kept, Fails, MEMO_RULE_FAILED, MEMO_RULE_UNKNOWN, NoData

(* What the tries answer for a rule at a place. *)
LEMMA AnswersTrue ==
  ASSUME ends \in Inputs, NEW m, MemoryTrue(m), NEW r \in DOMAIN ends, NEW start \in DOMAIN ends[r]
  PROVE  /\ get(m.rules, r) = IF r \in DOMAIN m.lists THEN r ELSE NoData
         /\ r \in DOMAIN m.lists =>
              get(m.lists[r], start) = IF start \in DOMAIN m.lists[r] \ {0} THEN Kept(ends[r][start])
                                       ELSE NoData
<1>1. RuleDepth \in Nat /\ PlaceDepth \in Nat
  BY MemoAssumption
<1>2. r \in KeysBelow(RuleDepth) /\ r # 0 /\ start \in KeysBelow(PlaceDepth)
  BY InputFacts
<1>3. get(m.rules, r) = IF r \in DOMAIN m.lists THEN r ELSE NoData
  <2>1. get(m.rules, r) = IF r \in DOMAIN m.rules THEN m.rules[r].buckets ELSE NoData
    BY <1>1, <1>2, GetTrue DEF MemoryTrue
  <2> QED
    BY <1>2, <2>1 DEF MemoryTrue
<1>4. ASSUME r \in DOMAIN m.lists
      PROVE  get(m.lists[r], start) = IF start \in DOMAIN m.lists[r] \ {0}
                                      THEN Kept(ends[r][start]) ELSE NoData
  <2> DEFINE list == m.lists[r]
  <2>1. ListTrue(list, r)
    BY <1>4 DEF MemoryTrue
  <2> HIDE DEF list
  <2>2. list[0].buckets = NoData
    BY <2>1 DEF ListTrue, TrieTrue, Nodes
  <2>3. get(list, start) = IF start \in DOMAIN list THEN list[start].buckets ELSE NoData
    BY <1>1, <1>2, <2>1, GetTrue DEF ListTrue
  <2> QED
    BY <2>1, <2>2, <2>3 DEF list, ListTrue
<1> QED
  BY <1>3, <1>4

LEMMA EmptyMemory ==
  ASSUME NEW m, m = [rules |-> NewTrie(RuleDepth), lists |-> <<>>]
  PROVE  MemoryTrue(m)
<1>1. TrieTrue(NewTrie(RuleDepth), RuleDepth) /\ DOMAIN NewTrie(RuleDepth) = {0}
  BY MemoAssumption, NewTrieTrue
<1>2. m.rules = NewTrie(RuleDepth) /\ m.lists = <<>> /\ DOMAIN m.lists = {}
  OBVIOUS
<1>3. m.lists = [r \in DOMAIN m.lists |-> m.lists[r]]
  BY <1>2
<1> QED
  BY <1>1, <1>2, <1>3 DEF MemoryTrue

(* What getRuleMemoization answers, and the memory it leaves. *)
LEMMA AskTrue ==
  ASSUME ends \in Inputs, NEW m, MemoryTrue(m), NEW r \in DOMAIN ends, NEW start \in DOMAIN ends[r]
  PROVE  LET asked == getRuleMemoization(m, r, start)
         IN /\ MemoryTrue(asked.memo) /\ DOMAIN asked.memo.lists = DOMAIN m.lists \cup {r}
            /\ asked.stop = IF /\ r \in DOMAIN m.lists /\ start \in DOMAIN m.lists[r] \ {0}
                               /\ Kept(ends[r][start]) # 0
                            THEN Kept(ends[r][start]) ELSE MEMO_RULE_UNKNOWN
            /\ r \in DOMAIN m.lists => asked.memo = m
<1>1. r \in KeysBelow(RuleDepth) /\ r \in Nat \ {0}
  BY InputFacts
<1>2. CASE r \in DOMAIN m.lists
  <2>1. get(m.rules, r) = r /\ r # NoData
    BY <1>1, <1>2, AnswersTrue DEF NoData
  <2>2. get(m.lists[r], start) = IF start \in DOMAIN m.lists[r] \ {0} THEN Kept(ends[r][start])
                                 ELSE NoData
    BY <1>2, AnswersTrue
  <2>3. start \in DOMAIN m.lists[r] \ {0} => Kept(ends[r][start]) # NoData
    BY InputFacts
  <2> QED
    BY <1>2, <2>1, <2>2, <2>3 DEF getRuleMemoization
<1>3. CASE r \notin DOMAIN m.lists
  <2> DEFINE rules == add(m.rules, r, r)
             ls == [q \in DOMAIN m.lists \cup {r} |->
                      IF q = r THEN NewTrie(PlaceDepth) ELSE m.lists[q]]
             n == [rules |-> rules, lists |-> ls]
  <2>1. get(m.rules, r) = NoData
    BY <1>3, AnswersTrue
  <2>2. getRuleMemoization(m, r, start) = [memo |-> n, stop |-> MEMO_RULE_UNKNOWN]
    BY <2>1 DEF getRuleMemoization
  <2>3. RuleDepth \in Nat /\ TrieTrue(m.rules, RuleDepth) /\ r \in Int
    BY <1>1, MemoAssumption DEF MemoryTrue
  <2>4. /\ TrieTrue(rules, RuleDepth) /\ DOMAIN rules = DOMAIN m.rules \cup {r}
        /\ \A q \in DOMAIN rules : rules[q].buckets = IF q \in DOMAIN m.rules
                                                      THEN m.rules[q].buckets ELSE r
    <3>1. PICK t, u : t = m.rules /\ u = add(t, r, r)
      OBVIOUS
    <3>2. TrieTrue(t, RuleDepth) /\ r \in KeysBelow(RuleDepth) /\ r \in Int /\ RuleDepth \in Nat
      BY <1>1, <2>3, <3>1
    <3>3. /\ TrieTrue(u, RuleDepth) /\ DOMAIN u = DOMAIN t \cup {r}
          /\ \A q \in DOMAIN u : u[q].buckets = IF q \in DOMAIN t THEN t[q].buckets ELSE r
      BY <3>1, <3>2, AddTrue
    <3> QED
      BY <3>1, <3>3
  <2>5. ListTrue(NewTrie(PlaceDepth), r)
    BY MemoAssumption, NewTrieTrue DEF ListTrue
  <2>6. n.rules = rules /\ n.lists = ls /\ DOMAIN ls = DOMAIN m.lists \cup {r}
    OBVIOUS
  <2>7. \A q \in DOMAIN m.lists : m.rules[q].buckets = q /\ ListTrue(m.lists[q], q)
    BY DEF MemoryTrue
  <2>8. DOMAIN m.rules = DOMAIN m.lists \cup {0} /\ DOMAIN m.lists \subseteq DOMAIN ends
    BY DEF MemoryTrue
  <2> HIDE DEF rules
  <2>9. \A q \in DOMAIN ls : rules[q].buckets = q /\ ListTrue(ls[q], q)
    BY <1>1, <1>3, <2>4, <2>5, <2>7, <2>8
  <2>10. ls = [q \in DOMAIN ls |-> ls[q]]
    OBVIOUS
  <2> HIDE DEF ls
  <2>11. MemoryTrue(n)
    BY <2>4, <2>6, <2>8, <2>9, <2>10 DEF MemoryTrue
  <2> QED
    BY <1>3, <2>2, <2>6, <2>11
<1> QED
  BY <1>2, <1>3

(* What memoize leaves of a rule that did what the input says. *)
LEMMA RememberTrue ==
  ASSUME ends \in Inputs, NEW m, MemoryTrue(m), NEW r \in DOMAIN ends, NEW start \in DOMAIN ends[r],
         r \in DOMAIN m.lists
  PROVE  LET n == memoize(m, r, start, ends[r][start] = Fails, ends[r][start])
         IN MemoryTrue(n) /\ DOMAIN n.lists = DOMAIN m.lists /\ start \in DOMAIN n.lists[r]
<1> DEFINE data == Kept(ends[r][start])
           list == add(m.lists[r], start, data)
           ls == [q \in DOMAIN m.lists |-> IF q = r THEN list ELSE m.lists[q]]
           n == memoize(m, r, start, ends[r][start] = Fails, ends[r][start])
<1>1. get(m.rules, r) = r /\ r # NoData
  BY AnswersTrue, InputFacts DEF NoData
<1>2. n = [m EXCEPT !.lists[r] = list]
  BY <1>1 DEF memoize, Kept
<1>3. m = [rules |-> m.rules, lists |-> m.lists] /\ m.lists = [q \in DOMAIN m.lists |-> m.lists[q]]
  BY DEF MemoryTrue
<1> HIDE DEF n, list
<1>4. n.rules = m.rules /\ n.lists = ls /\ n = [rules |-> n.rules, lists |-> n.lists]
  BY <1>2, <1>3
<1>5. ListTrue(m.lists[r], r)
  BY DEF MemoryTrue
<1>6. PlaceDepth \in Nat /\ start \in KeysBelow(PlaceDepth) /\ data \in Int
  BY InputFacts, MemoAssumption
<1>7. /\ TrieTrue(list, PlaceDepth) /\ DOMAIN list = DOMAIN m.lists[r] \cup {start}
      /\ \A j \in DOMAIN list : list[j].buckets = IF j \in DOMAIN m.lists[r]
                                                  THEN m.lists[r][j].buckets ELSE data
  <2>1. TrieTrue(m.lists[r], PlaceDepth)
    BY <1>5 DEF ListTrue
  <2> HIDE DEF data
  <2> QED
    BY <1>6, <2>1, AddTrue DEF list
<1>8. ListTrue(list, r)
  BY <1>5, <1>7 DEF ListTrue
<1>9. \A q \in DOMAIN n.lists : n.rules[q].buckets = q /\ ListTrue(n.lists[q], q)
  BY <1>4, <1>8 DEF MemoryTrue
<1>10. n.lists = [q \in DOMAIN n.lists |-> n.lists[q]] /\ DOMAIN n.lists = DOMAIN m.lists
  BY <1>4
<1>11. MemoryTrue(n)
  BY <1>4, <1>9, <1>10 DEF MemoryTrue
<1> QED
  BY <1>4, <1>7, <1>11 DEF n

LEMMA MemoInitInv == MemoInit => MemoInv
<1> SUFFICES ASSUME MemoInit PROVE MemoInv
  OBVIOUS
<1>1. Memo = [rules |-> NewTrie(RuleDepth), lists |-> <<>>]
  BY DEF MemoInit, Memo
<1>2. MemoryTrue(Memo)
  BY <1>1, EmptyMemory
<1> QED
  BY <1>2 DEF MemoInit, MemoInv

(* A rule that parses, or is answered from the memory. *)
LEMMA CallRuleInv ==
  ASSUME MemoInv, NEW r \in DOMAIN ends, NEW start \in DOMAIN ends[r], CallRule(r, start)
  PROVE  MemoInv'
<1> DEFINE end == ends[r][start]
           asked == getRuleMemoization(Memo, r, start)
           after == IF asked.stop # MEMO_RULE_UNKNOWN THEN asked.memo
                    ELSE memoize(asked.memo, r, start, end = Fails, end)
<1>1. ends \in Inputs /\ MemoryTrue(Memo) /\ ends' = ends
  BY DEF MemoInv, CallRule
<1>2. /\ MemoryTrue(asked.memo) /\ DOMAIN asked.memo.lists = DOMAIN Memo.lists \cup {r}
      /\ asked.stop = IF /\ r \in DOMAIN Memo.lists /\ start \in DOMAIN Memo.lists[r] \ {0}
                         /\ Kept(end) # 0
                      THEN Kept(end) ELSE MEMO_RULE_UNKNOWN
      /\ r \in DOMAIN Memo.lists => asked.memo = Memo
  BY <1>1, AskTrue
<1>3. /\ start \in Nat /\ (end = Fails \/ (end \in Nat /\ end >= start))
      /\ start # 0 => Kept(end) # MEMO_RULE_UNKNOWN
  BY <1>1, InputFacts
<1> HIDE DEF asked
<1>4. MemoryTrue(after) /\ r \in DOMAIN after.lists /\ (start # 0 => start \in DOMAIN after.lists[r])
  <2>1. CASE asked.stop # MEMO_RULE_UNKNOWN
    BY <1>2, <2>1
  <2>2. CASE asked.stop = MEMO_RULE_UNKNOWN
    <3>1. after = memoize(asked.memo, r, start, end = Fails, end) /\ r \in DOMAIN asked.memo.lists
      BY <1>2, <2>2
    <3> QED
      BY <1>1, <1>2, <3>1, RememberTrue
  <2> QED
    BY <2>1, <2>2
<1>5. Memo' = [rules |-> after.rules, lists |-> after.lists]
  BY DEF CallRule, Memo, asked
<1>6. Memo' = after
  BY <1>4, <1>5 DEF MemoryTrue
<1>7. MemoryTrue(Memo)'
  BY <1>1, <1>4, <1>6 DEF MemoryTrue, ListTrue
<1>8. /\ last'.rule = r /\ last'.start = start
      /\ last'.failed <=> end = Fails
      /\ ~last'.failed => last'.index = end
  <2>1. CASE asked.stop = MEMO_RULE_UNKNOWN
    BY <2>1 DEF CallRule, asked
  <2>2. CASE asked.stop # MEMO_RULE_UNKNOWN
    <3>1. asked.stop = Kept(end)
      BY <1>2, <2>2
    <3>2. last' = [rule |-> r, start |-> start, parsed |-> FALSE,
                   failed |-> asked.stop = MEMO_RULE_FAILED,
                   index |-> IF asked.stop = MEMO_RULE_FAILED THEN start ELSE asked.stop + 1]
      BY <2>2 DEF CallRule, asked
    <3>3. (Kept(end) = MEMO_RULE_FAILED <=> end = Fails) /\ (end # Fails => Kept(end) + 1 = end)
      BY <1>3 DEF Kept, Fails, MEMO_RULE_FAILED
    <3>4. /\ last'.rule = r /\ last'.start = start
          /\ last'.failed <=> Kept(end) = MEMO_RULE_FAILED
          /\ Kept(end) # MEMO_RULE_FAILED => last'.index = Kept(end) + 1
      BY <3>1, <3>2
    <3> HIDE DEF end
    <3> QED
      BY <3>3, <3>4
  <2> QED
    BY <2>1, <2>2
<1>9. LastTrue'
  <2>1. lists' = after.lists
    BY DEF CallRule, asked
  <2> QED
    BY <1>1, <1>4, <1>8, <2>1 DEF LastTrue
<1> QED
  BY <1>1, <1>7, <1>9 DEF MemoInv

LEMMA MemoNextInv == MemoInv /\ [MemoNext]_memoVars => MemoInv'
<1> SUFFICES ASSUME MemoInv, [MemoNext]_memoVars PROVE MemoInv'
  OBVIOUS
<1>1. CASE \E r \in DOMAIN ends : \E start \in DOMAIN ends[r] : CallRule(r, start)
  BY <1>1, CallRuleInv
<1>2. CASE ResetRecognizer
  <2>1. Memo' = [rules |-> NewTrie(RuleDepth), lists |-> <<>>]
    BY <1>2 DEF ResetRecognizer, Memo
  <2>2. MemoryTrue(Memo)'
    <3>1. TrieTrue(NewTrie(RuleDepth), RuleDepth) /\ DOMAIN NewTrie(RuleDepth) = {0}
      BY MemoAssumption, NewTrieTrue
    <3>2. Memo'.rules = NewTrie(RuleDepth) /\ Memo'.lists = <<>> /\ DOMAIN Memo'.lists = {}
      BY <2>1
    <3>3. Memo'.lists = [r \in DOMAIN Memo'.lists |-> Memo'.lists[r]]
      BY <3>2
    <3> QED
      BY <2>1, <3>1, <3>2, <3>3 DEF MemoryTrue
  <2> QED
    BY <1>2, <2>2 DEF ResetRecognizer, MemoInv, NoCall
<1>3. CASE UNCHANGED memoVars
  BY <1>3 DEF memoVars, MemoInv, Memo, MemoryTrue, ListTrue, LastTrue
<1> QED
  BY <1>1, <1>2, <1>3 DEF MemoNext

(* In a true memory the tries find what they keep, and the last call is     *)
(* answered as it was.                                                      *)
LEMMA InvTrue == MemoInv => MemoTrue
<1> SUFFICES ASSUME MemoInv PROVE MemoTrue
  OBVIOUS
<1>1. ends \in Inputs /\ MemoryTrue(Memo) /\ Memo.rules = ruleMemo /\ Memo.lists = lists
  BY DEF MemoInv, Memo
<1>2. ASSUME NEW t, NEW depth \in Nat, TrieTrue(t, depth),
             \A x \in DOMAIN t \ {0} : t[x].buckets # NoData
      PROVE  /\ \A key \in DOMAIN t \ {0} : get(t, key) = t[key].buckets /\ get(t, key) # NoData
             /\ \A key \in KeysBelow(t[0].bitNum) \ DOMAIN t : get(t, key) = NoData
  <2>1. t[0].bitNum = depth /\ DOMAIN t \subseteq KeysBelow(depth)
    BY <1>2 DEF TrieTrue, Nodes
  <2>2. \A key \in KeysBelow(depth) :
          get(t, key) = IF key \in DOMAIN t THEN t[key].buckets ELSE NoData
    BY <1>2, GetTrue
  <2> QED
    BY <1>2, <2>1, <2>2
<1>3. RuleDepth \in Nat /\ PlaceDepth \in Nat
  BY MemoAssumption
<1>4. TrieTrue(ruleMemo, RuleDepth) /\ \A r \in DOMAIN ruleMemo \ {0} : ruleMemo[r].buckets # NoData
  <2>1. \A r \in DOMAIN ruleMemo \ {0} : ruleMemo[r].buckets = r /\ r \in DOMAIN ends
    BY <1>1 DEF MemoryTrue
  <2>2. \A r \in DOMAIN ends : r # NoData
    BY <1>1, InputFacts DEF NoData
  <2> QED
    BY <1>1, <2>1, <2>2 DEF MemoryTrue
<1>5. ASSUME NEW r \in DOMAIN lists
      PROVE  TrieTrue(lists[r], PlaceDepth)
             /\ \A s \in DOMAIN lists[r] \ {0} : lists[r][s].buckets # NoData
  <2>1. ListTrue(lists[r], r) /\ r \in DOMAIN ends
    BY <1>1 DEF MemoryTrue
  <2>2. \A s \in DOMAIN ends[r] \ {0} : Kept(ends[r][s]) # NoData
    BY <1>1, <2>1, InputFacts
  <2> QED
    BY <2>1, <2>2 DEF ListTrue
<1>6. ASSUME NEW t \in {ruleMemo} \cup {lists[r] : r \in DOMAIN lists}
      PROVE  /\ \A key \in DOMAIN t \ {0} : get(t, key) = t[key].buckets /\ get(t, key) # NoData
             /\ \A key \in KeysBelow(t[0].bitNum) \ DOMAIN t : get(t, key) = NoData
  <2>1. PICK depth \in Nat : TrieTrue(t, depth) /\ \A x \in DOMAIN t \ {0} : t[x].buckets # NoData
    BY <1>3, <1>4, <1>5
  <2> QED
    BY <1>2, <2>1
<1>7. ASSUME last # NoCall
      PROVE  LET end == ends[last.rule][last.start]
             IN /\ last.failed <=> end = Fails
                /\ ~last.failed => last.index = end
                /\ last.start > 0 /\ end # 1 =>
                     getRuleMemoization(Memo, last.rule, last.start).stop # MEMO_RULE_UNKNOWN
  <2>1. LastTrue
    BY <1>7 DEF MemoInv
  <2> DEFINE r == last.rule
             s == last.start
             end == ends[r][s]
  <2>2. r \in DOMAIN ends /\ s \in DOMAIN ends[r] /\ r \in DOMAIN lists
        /\ (s # 0 => s \in DOMAIN lists[r])
    BY <2>1 DEF LastTrue
  <2>3. s # 0 => /\ Kept(end) # MEMO_RULE_UNKNOWN
                 /\ Kept(end) = 0 <=> end = 1
    BY <1>1, <2>2, InputFacts
  <2> HIDE DEF r, s
  <2>4. getRuleMemoization(Memo, r, s).stop = IF s \in DOMAIN lists[r] \ {0} /\ Kept(end) # 0
                                              THEN Kept(end) ELSE MEMO_RULE_UNKNOWN
    BY <1>1, <2>2, AskTrue
  <2>5. s > 0 /\ end # 1 => getRuleMemoization(Memo, r, s).stop # MEMO_RULE_UNKNOWN
    <3>1. s \in Nat
      BY <1>1, <2>2, InputFacts
    <3> QED
      BY <2>2, <2>3, <2>4, <3>1
  <2> QED
    BY <2>1, <2>5 DEF LastTrue, r, s
<1> QED
  BY <1>6, <1>7 DEF MemoTrue

(* MemoTrue, whatever rules an input has and wherever they end, for keys of *)
(* any depth: no rule that was remembered is answered differently from what *)
(* it would do, and every trie finds exactly the keys that were added.      *)
THEOREM MemoryIsTrue == MemoSpec => []MemoTrue
<1>1. MemoInit => MemoInv
  BY MemoInitInv
<1>2. MemoInv /\ [MemoNext]_memoVars => MemoInv'
  BY MemoNextInv
<1>3. MemoInv => MemoTrue
  BY InvTrue
<1> QED
  BY <1>1, <1>2, <1>3, PTL DEF MemoSpec

===============================================================================
