-------------------------------- MODULE Bitset --------------------------------
(***************************************************************************)
(* The bit sets of the ANTLR runtime (antlr3bitset): arrays of words that   *)
(* grow when a bit beyond the last word is added.  The recognisers keep     *)
(* their follow and resynchronisation sets in them.  A bit set is           *)
(*                                                                         *)
(*   length   the number of words allocated (m_blist.m_length)             *)
(*   bits     the numbers of the bits that are one                         *)
(*                                                                         *)
(* A BitsetList, the static table a generated parser loads a set from, has  *)
(* the same form.                                                           *)
(***************************************************************************)
EXTENDS Integers, FiniteSets, Sequences, FiniteSetsExt, SequencesExt

CONSTANTS
  Name,       \* the sets at hand
  Bit,        \* the bit numbers considered
  Lists,      \* the tables sets are loaded from
  WordBits,   \* ANTLR_BITSET_BITS
  WordBytes,  \* sizeof(ANTLR_BITWORD)
  LeastWords, \* a new set has room for at least so many words
  MaxWords    \* bound of the model: or-ing two sets in turn doubles them for ever

ASSUME WordAssumption ==
  /\ WordBits \in Nat \ {0} /\ WordBytes \in Nat \ {0} /\ LeastWords \in Nat \ {0}
  /\ Bit \subseteq Nat
  /\ \A list \in Lists :
       /\ list.length \in Nat /\ list.bits \subseteq Bit
       /\ \A b \in list.bits : b \div WordBits < list.length

VARIABLE sets   \* sets[n] : the bit set a pointer refers to

WordNumber(bit) == bit \div WordBits
NumWordsToHold(bit) == (bit \div WordBits) + 1
Larger(i, j) == IF i > j THEN i ELSE j
Smaller(i, j) == IF i > j THEN j ELSE i

(* Bitset(numBits): never fewer words than LeastWords, all zero.            *)
NewBitset(numBits) ==
  [length |-> (Larger(numBits, LeastWords * WordBits) - 1) \div WordBits + 1, bits |-> {}]

(* grow: the words are copied to a larger zeroed array.                     *)
grow(s, newSize) == [s EXCEPT !.length = newSize]

(* growToInclude: twice the words, or as many as the bit needs.             *)
growToInclude(s, bit) == grow(s, Larger(2 * s.length, NumWordsToHold(bit)))

isMember(s, bit) == WordNumber(bit) < s.length /\ bit \in s.bits

addBit(s, bit) ==
  LET g == IF WordNumber(bit) >= s.length THEN growToInclude(s, bit) ELSE s
  IN [g EXCEPT !.bits = @ \cup {bit}]

removeBit(s, bit) ==
  IF WordNumber(bit) < s.length THEN [s EXCEPT !.bits = @ \ {bit}] ELSE s

(* Mutant of borInPlace: the target is never enlarged. *)
borInPlaceFixed(s, t) ==
  LET minimum == Smaller(s.length, t.length)
  IN [s EXCEPT !.bits = @ \cup {b \in t.bits : WordNumber(b) < minimum}]

(* borInPlace: the room asked for is counted in bytes where growToInclude   *)
(* expects a bit number; words beyond the room are left out.                *)
borInPlace(s, t) ==
  LET g == IF s.length < t.length THEN growToInclude(s, t.length * WordBytes) ELSE s
      minimum == Smaller(g.length, t.length)
  IN [g EXCEPT !.bits = @ \cup {b \in t.bits : WordNumber(b) < minimum}]

clone(s) == [NewBitset(WordBits * s.length) EXCEPT !.bits = s.bits]

(* bitsetORInPlace has a body of its own, the same as borInPlace's.         *)
bitsetORInPlace(s, t) == borInPlace(s, t)
bor(s, t) == bitsetORInPlace(clone(s), t)

(* bitsetLoad: a new set, enlarged word by word, takes the table's words.   *)
bitsetLoad(list) == [length |-> Larger(NewBitset(0).length, list.length), bits |-> list.bits]

BitsetOf(bit) == addBit(NewBitset(0), bit)
BitsetOf2(bit1, bit2) == addBit(BitsetOf(bit1), bit2)
BitsetFromList(list) ==
  LET after[i \in 0..Len(list)] ==
        IF i = 0 THEN NewBitset(0) ELSE addBit(after[i - 1], list[i])
  IN after[Len(list)]
-------------------------------------------------------------------------------
(* Observers. *)
size(s) == Cardinality(s.bits)
isNilNode(s) == s.bits = {}
numBits(s) == s.length * WordBits
ascending(S) == SetToSortSeq(S, LAMBDA i, j : i < j)

(* Mutant of toIntList: stops one word early. *)
toIntListShort(s) ==
  <<size(s) + 1>> \o ascending({i \in s.bits : i < numBits(s) - WordBits})

(* toIntList: the first entry counts itself too. *)
toIntList(s) ==
  <<size(s) + 1>> \o ascending({i \in s.bits : i < numBits(s) /\ isMember(s, i)})

(* equals: the answers possible.  Beyond the words both have, it looks at    *)
(* its own words also when the other set is the longer one: it then reads    *)
(* words that are not its own, and may find anything there.                  *)
equals(s, t) ==
  LET minimum == Smaller(s.length, t.length)
      Common(x) == {b \in x.bits : WordNumber(b) < minimum}
  IN IF Common(s) # Common(t) THEN {FALSE}
     ELSE IF s.length > minimum THEN {\A b \in s.bits : WordNumber(b) < minimum}
     ELSE IF t.length > minimum THEN BOOLEAN
     ELSE {TRUE}
-------------------------------------------------------------------------------
BitsetInit == sets = [n \in Name |-> NewBitset(0)]

AddTo(n, b) == sets' = [sets EXCEPT ![n] = addBit(@, b)]
RemoveFrom(n, b) == sets' = [sets EXCEPT ![n] = removeBit(@, b)]
SetOf(n, b) == sets' = [sets EXCEPT ![n] = BitsetOf(b)]
SetOf2(n, b, c) == sets' = [sets EXCEPT ![n] = BitsetOf2(b, c)]
SetFrom(n, seq) == sets' = [sets EXCEPT ![n] = BitsetFromList(seq)]
OrInto(n, m) ==
  /\ borInPlace(sets[n], sets[m]).length <= MaxWords
  /\ sets' = [sets EXCEPT ![n] = borInPlace(@, sets[m])]
OrTo(n, m, r) ==
  /\ bor(sets[n], sets[m]).length <= MaxWords
  /\ sets' = [sets EXCEPT ![r] = bor(sets[n], sets[m])]
CloneTo(n, r) == sets' = [sets EXCEPT ![r] = clone(sets[n])]
LoadInto(n, list) == sets' = [sets EXCEPT ![n] = bitsetLoad(list)]

BitsetNext ==
  \E n \in Name :
    \/ \E b \in Bit : AddTo(n, b) \/ RemoveFrom(n, b) \/ SetOf(n, b)
    \/ \E b, c \in Bit : SetOf2(n, b, c) \/ SetFrom(n, <<b, c>>)
    \/ \E m \in Name : OrInto(n, m) \/ CloneTo(n, m) \/ (\E r \in Name : OrTo(n, m, r))
    \/ \E list \in Lists : LoadInto(n, list)

BitsetSpec == BitsetInit /\ [][BitsetNext]_sets
-------------------------------------------------------------------------------
Members(n) == {b \in Bit : isMember(sets[n], b)}

(* Or-ing finds room for all bits: they lie in twice the words of a new set.   *)
BitsFit == \A b \in Bit : WordNumber(b) < 2 * LeastWords

(* Loading, adding, removing, copying and or-ing bit sets of different lengths *)
(* is what the recogniser takes it for, the same with sets of token types, as  *)
(* long as the types fit twice the words of a new set: the room borInPlace     *)
(* asks for is too little for more, and members beyond it are lost.            *)
Sets == INSTANCE TokenSets WITH members <- [n \in Name |-> Members(n)],
                           Loads <- {list.bits : list \in Lists}
ImplementsTokenSets == Sets!Spec

(* Every one bit lies in a word the set has allocated: add has made room       *)
(* before it writes.  size, isNilNode and the members toIntList gives, which   *)
(* read the words each their own way, agree with isMember; and equals answers  *)
(* whether two sets have the same members when it is called on the one that    *)
(* has as many words or more (on the shorter one it reads beyond its words).   *)
(* Whether the first entry of toIntList counts itself is left open: the code   *)
(* lets it, the header (antlr3bitset.hpp:158) calls it the number of elements  *)
(* that follow.                                                                *)
BitsetsSound ==
  \A n \in Name :
    /\ sets[n].length >= LeastWords
    /\ \A b \in sets[n].bits : WordNumber(b) < sets[n].length
    /\ size(sets[n]) = Cardinality(Members(n))
    /\ isNilNode(sets[n]) <=> (Members(n) = {})
    /\ \E first \in {size(sets[n]), size(sets[n]) + 1} :
         toIntList(sets[n]) = <<first>> \o ascending(Members(n))
    /\ \A m \in Name :
         sets[n].length >= sets[m].length =>
           equals(sets[n], sets[m]) = {Members(n) = Members(m)}
===============================================================================
