-------------------------------- MODULE IntTrie --------------------------------
(***************************************************************************)
(* The integer trie of the ANTLR runtime (antlr3collections), a Patricia    *)
(* trie.  A trie is a function from the keys of its nodes to                *)
(*                                                                         *)
(*   bitNum           the bit of a key that is tested at the node           *)
(*   leftN, rightN    the keys of the nodes to go on with: bitNum falls on  *)
(*                    the way down, a pointer to a node whose bitNum does   *)
(*                    not leads back up to where the key must be            *)
(*   buckets          the data added for the key, or NoData                *)
(*                                                                         *)
(* The root has key 0 and tests a bit no key has.  No client can allow      *)
(* duplicates (m_allowDups has no setter), and del does nothing.            *)
(***************************************************************************)
EXTENDS Integers, FiniteSets, Sequences, FiniteSetsExt, SequencesExt

NoData == -3       \* NULL; data are places, marks and names, see RuleMemo

(* The constructor; the depth limits the keys to those below bitMask[depth]. *)
NewTrie(depth) ==
  [n \in {0} |-> [bitNum |-> depth, leftN |-> 0, rightN |-> 0, buckets |-> NoData]]

bitMask[bit \in Nat] == IF bit = 0 THEN 1 ELSE 2 * bitMask[bit - 1]

IsSet(key, bit) == (key \div bitMask[bit]) % 2 = 1      \* key & bitMask[bit]

(* The keys of a trie of a depth. *)
KeysBelow(depth) == 0..(bitMask[depth] - 1)

(* Descent by the bits of the key, until a pointer leads back up or to a    *)
(* node that tests a bit not above least: the last node and where it leads. *)
(* Each step goes down a bit at least.                                      *)
Onward(t, key, least, link) ==
  IF t[link.this].bitNum > t[link.next].bitNum /\ t[link.next].bitNum > least
  THEN [this |-> link.next,
        next |-> IF IsSet(key, t[link.next].bitNum) THEN t[link.next].rightN
                 ELSE t[link.next].leftN]
  ELSE link

Walk(t, key, least) ==
  LET link[n \in Nat] == IF n = 0 THEN [this |-> 0, next |-> t[0].leftN]
                         ELSE Onward(t, key, least, link[n - 1])
  IN link[t[0].bitNum]

Reached(t, key) == Walk(t, key, -1).next

get(t, key) == IF DOMAIN t # {0} /\ Reached(t, key) = key THEN t[key].buckets ELSE NoData

(* The leftmost bit in which two keys differ: the tests of xorKey, and      *)
(* bitIndex for its highest byte that is not zero.                          *)
LeftmostDifference(depth, key, other) ==
  Max({b \in 0..(depth - 1) : IsSet(key, b) # IsSet(other, b)})

(* add, of a key that differs in the bit from the one it would be found at: *)
(* the new node comes before the first that tests a lower bit or leads up.  *)
Insert(t, key, data, bit) ==
  LET place == Walk(t, key, bit)
      node == [bitNum |-> bit, buckets |-> data,
               leftN  |-> IF IsSet(key, bit) THEN place.next ELSE key,
               rightN |-> IF IsSet(key, bit) THEN key ELSE place.next]
      above == IF IsSet(key, t[place.this].bitNum) THEN [t[place.this] EXCEPT !.rightN = key]
               ELSE [t[place.this] EXCEPT !.leftN = key]
  IN [n \in DOMAIN t \cup {key} |->
        IF n = key THEN node ELSE IF n = place.this THEN above ELSE t[n]]

(* add: a key that is there stays as it is; the root has key 0.             *)
add(t, key, data) ==
  LET found == Reached(t, key)
  IN IF found = key THEN t
     ELSE Insert(t, key, data, LeftmostDifference(t[0].bitNum, key, found))
===============================================================================
