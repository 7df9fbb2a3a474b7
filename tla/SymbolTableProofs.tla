------------------------- MODULE SymbolTableProofs -------------------------
(***************************************************************************)
(* The symbol table gives every declaration a slot of its own, for any     *)
(* names, any nesting of functions and blocks and any errors.              *)
(***************************************************************************)
EXTENDS SymbolTableProperties, FiniteSetTheorems, SequenceTheorems, TLAPS

(* A block's map; a table. *)
Maps   == UNION {[D -> Nat] : D \in SUBSET Name}
Tables == [blocks : Seq(Maps), cur : Nat, max : Nat]

-----------------------------------------------------------------------------
(* Tables. *)

LEMMA TableFields ==
  ASSUME NEW t \in Tables
  PROVE  /\ t.blocks \in Seq(Maps) /\ t.cur \in Nat /\ t.max \in Nat
         /\ Len(t.blocks) \in Nat /\ DOMAIN t.blocks = 1 .. Len(t.blocks)
         /\ \A i \in 1 .. Len(t.blocks) :
              /\ t.blocks[i] \in Maps /\ DOMAIN t.blocks[i] \subseteq Name
              /\ \A x \in DOMAIN t.blocks[i] : t.blocks[i][x] \in Nat
<1>1. /\ t.blocks \in Seq(Maps) /\ t.cur \in Nat /\ t.max \in Nat
  BY DEF Tables
<1>2. \A f \in Maps : DOMAIN f \subseteq Name /\ \A x \in DOMAIN f : f[x] \in Nat
  BY DEF Maps
<1> QED
  BY <1>1, <1>2

LEMMA EmptyMap == <<>> \in Maps /\ DOMAIN <<>> = {}
<1>1. DOMAIN <<>> = {}
  OBVIOUS
<1>2. <<>> \in [{} -> Nat]
  BY <1>1
<1> QED
  BY <1>1, <1>2 DEF Maps

LEMMA NewTablePacked == NewTable \in Tables /\ Packed(NewTable) /\ Len(NewTable.blocks) = 1
<1>1. /\ NewTable.blocks = << <<>> >> /\ NewTable.cur = 0 /\ NewTable.max = 0
      /\ DOMAIN <<>> = {} /\ <<>> \in Maps
  BY EmptyMap DEF NewTable
<1>2. NewTable \in Tables
  BY <1>1 DEF Tables, NewTable
<1>3. Len(NewTable.blocks) = 1 /\ NewTable.blocks[1] = <<>> /\ DOMAIN NewTable.blocks = {1}
  BY <1>1
<1>4. \A i \in 1 .. 2 : Outer(NewTable, i, 0)
  BY <1>1, <1>3 DEF Outer
<1> QED
  BY <1>1, <1>2, <1>3, <1>4 DEF Packed, Apart

LEMMA NewTableBlocks == NewTable.blocks # <<>>
<1>1. NewTable.blocks = << <<>> >>
  BY DEF NewTable
<1>2. << <<>> >> # <<>>
  OBVIOUS
<1> QED
  BY <1>1, <1>2

(* Tables with the same slots in the same blocks. *)
LEMMA OuterSame ==
  ASSUME NEW t, NEW u, NEW i \in Nat, NEW n,
         \A j \in 1 .. i - 1 : u.blocks[j] = t.blocks[j],
         Outer(t, i, n)
  PROVE  Outer(u, i, n)
BY DEF Outer

(* A table with no more declarations than another. *)
LEMMA ApartLess ==
  ASSUME NEW t, NEW u, Apart(t),
         \A j \in DOMAIN u.blocks : \A x \in DOMAIN u.blocks[j] :
           /\ j \in DOMAIN t.blocks /\ x \in DOMAIN t.blocks[j]
           /\ u.blocks[j][x] = t.blocks[j][x]
  PROVE  Apart(u)
BY DEF Apart

LEMMA PushPacked ==
  ASSUME NEW t \in Tables, Packed(t), NEW u, u = pushBlock(t)
  PROVE  /\ u \in Tables /\ Packed(u) /\ u.max = t.max
         /\ Len(u.blocks) = Len(t.blocks) + 1
         /\ \A i \in 1 .. Len(t.blocks) : u.blocks[i] = t.blocks[i]
<1>1. PICK bs \in Seq(Maps) : bs = t.blocks
  BY TableFields
<1>2. PICK b \in Maps : b = <<>> /\ DOMAIN b = {}
  BY EmptyMap
<1>3. u = [t EXCEPT !.blocks = Append(bs, b)]
  BY <1>1, <1>2 DEF pushBlock
<1>4. /\ u \in Tables /\ u.blocks = Append(bs, b) /\ u.cur = t.cur /\ u.max = t.max
  <2>1. PICK cs \in Seq(Maps) : cs = Append(bs, b)
    BY AppendProperties
  <2>2. u = [t EXCEPT !.blocks = cs]
    BY <1>3, <2>1
  <2> QED
    BY <2>1, <2>2 DEF Tables
<1>5. PICK l \in Nat : l = Len(bs)
  BY <1>1
<1>6. /\ Len(u.blocks) = l + 1 /\ DOMAIN u.blocks = 1 .. l + 1 /\ DOMAIN bs = 1 .. l
      /\ u.blocks[l + 1] = b /\ \A i \in 1 .. l : u.blocks[i] = bs[i]
  BY <1>1, <1>4, <1>5, AppendProperties
<1>7. \A i \in 1 .. l + 1 : i \in 1 .. l \/ i = l + 1
  BY <1>5
<1>8. Apart(u)
  <2>1. ASSUME NEW j \in DOMAIN u.blocks, NEW x \in DOMAIN u.blocks[j]
        PROVE  /\ j \in DOMAIN t.blocks /\ x \in DOMAIN t.blocks[j]
               /\ u.blocks[j][x] = t.blocks[j][x]
    <3>1. j \in 1 .. l
      BY <1>2, <1>6, <1>7
    <3> QED
      BY <1>1, <1>6, <3>1
  <2>2. Apart(t)
    BY DEF Packed
  <2> QED
    BY <2>1, <2>2, ApartLess
<1>9. ASSUME NEW i \in 1 .. l + 1, NEW n, Outer(t, i, n) PROVE Outer(u, i, n)
  <2>1. \A j \in 1 .. i - 1 : j \in 1 .. l /\ u.blocks[j] = t.blocks[j]
    BY <1>1, <1>5, <1>6
  <2> QED
    BY <1>9, <2>1, <1>5, OuterSame
<1>10. Outer(t, l + 1, t.cur) /\ \A i \in 1 .. l : \E n \in 0 .. t.cur : Outer(t, i, n)
  BY <1>1, <1>5, <1>6 DEF Packed
<1>11. \A i \in 1 .. l : i \in 1 .. l + 1
  BY <1>5
<1>12. \A i \in 1 .. l + 1 : \E n \in 0 .. u.cur : Outer(u, i, n)
  <2>1. t.cur \in 0 .. t.cur /\ l + 1 \in 1 .. l + 1
    BY TableFields, <1>5
  <2> QED
    BY <1>4, <1>7, <1>9, <1>10, <1>11, <2>1
<1>13. Outer(u, l + 2, u.cur)
  <2>1. \A j \in 1 .. (l + 2) - 1 : j \in 1 .. (l + 1) - 1 \/ j = l + 1
    BY <1>5
  <2>2. \A j \in 1 .. (l + 1) - 1 : j \in 1 .. (l + 2) - 1
    BY <1>5
  <2>3. Outer(u, l + 1, u.cur)
    BY <1>4, <1>5, <1>9, <1>10
  <2> QED
    BY <1>2, <1>6, <2>1, <2>2, <2>3 DEF Outer
<1>14. t.cur <= t.max /\ Len(u.blocks) + 1 = l + 2
  BY <1>5, <1>6 DEF Packed
<1> QED
  BY <1>1, <1>4, <1>5, <1>6, <1>8, <1>12, <1>13, <1>14 DEF Packed

(* The slots from a block outwards end where those of the blocks from it   *)
(* on begin.                                                               *)
LEMMA OuterInner ==
  ASSUME NEW t \in Tables, Packed(t), NEW i \in 1 .. Len(t.blocks), NEW n \in Nat,
         Outer(t, i, n),
         NEW k \in i .. Len(t.blocks), NEW x \in DOMAIN t.blocks[k]
  PROVE  n <= t.blocks[k][x]
<1>1. SUFFICES ASSUME t.blocks[k][x] < n PROVE FALSE
  BY TableFields
<1>2. k \in 1 .. Len(t.blocks) /\ t.blocks[k][x] \in Nat
  BY TableFields
<1>3. PICK j \in 1 .. i - 1 : \E y \in DOMAIN t.blocks[j] : t.blocks[j][y] = t.blocks[k][x]
  BY <1>1, <1>2 DEF Outer
<1>4. j \in 1 .. Len(t.blocks) /\ j # k
  BY <1>3, TableFields
<1> QED
  BY <1>2, <1>3, <1>4, TableFields DEF Packed, Apart

(* A table's slots are below its count. *)
LEMMA SlotBound ==
  ASSUME NEW t \in Tables, Packed(t), NEW i \in 1 .. Len(t.blocks), NEW x \in DOMAIN t.blocks[i]
  PROVE  t.blocks[i][x] \in 0 .. t.cur - 1
<1>1. PICK l \in Nat : l = Len(t.blocks)
  BY TableFields
<1>2. i \in 1 .. (l + 1) - 1 /\ Outer(t, l + 1, t.cur)
  BY <1>1 DEF Packed
<1>3. t.blocks[i][x] < t.cur /\ t.blocks[i][x] \in Nat /\ t.cur \in Nat
  BY <1>2, TableFields DEF Outer
<1> QED
  BY <1>3

(* As many slots are given back as the block has taken. *)
LEMMA PopCount ==
  ASSUME NEW t \in Tables, Packed(t), NEW l \in Nat \ {0}, l = Len(t.blocks),
         NEW n \in 0 .. t.cur, Outer(t, l, n)
  PROVE  IsFiniteSet(DOMAIN t.blocks[l]) /\ Cardinality(DOMAIN t.blocks[l]) = t.cur - n
<1> DEFINE D == DOMAIN t.blocks[l]
           S == n .. t.cur - 1
           f == [x \in D |-> t.blocks[l][x]]
<1>1. t.cur \in Nat /\ n \in Nat /\ l \in l .. Len(t.blocks) /\ l \in 1 .. Len(t.blocks)
      /\ DOMAIN t.blocks = 1 .. Len(t.blocks)
  BY TableFields
<1>2. \A x \in D : f[x] \in S
  <2>1. \A x \in D : n <= t.blocks[l][x]
    BY <1>1, OuterInner
  <2>2. \A x \in D : t.blocks[l][x] \in 0 .. t.cur - 1
    BY <1>1, SlotBound
  <2> QED
    BY <1>1, <2>1, <2>2
<1>3. \A x, y \in D : f[x] = f[y] => x = y
  BY <1>1 DEF Packed, Apart
<1>4. \A s \in S : \E x \in D : f[x] = s
  <2>1. SUFFICES ASSUME NEW s \in S PROVE \E x \in D : t.blocks[l][x] = s
    OBVIOUS
  <2>2. s \in 0 .. t.cur - 1 /\ n <= s /\ Outer(t, l + 1, t.cur) /\ s \in Nat
    BY <1>1 DEF Packed
  <2>3. PICK j \in 1 .. (l + 1) - 1 : \E x \in DOMAIN t.blocks[j] : t.blocks[j][x] = s
    BY <2>2 DEF Outer
  <2>4. j \in 1 .. l - 1 => FALSE
    BY <2>2, <2>3, <1>1 DEF Outer
  <2>5. j = l
    BY <2>3, <2>4
  <2> QED
    BY <2>3, <2>5
<1>5. f \in Injection(D, S) /\ f \in Surjection(D, S)
  BY <1>2, <1>3, <1>4 DEF Injection, IsInjective, Surjection
<1>6. IsFiniteSet(S) /\ Cardinality(S) = t.cur - n
  <2>1. PICK c \in Nat : c = t.cur /\ n <= c
    BY <1>1
  <2>2. n \in Int /\ c - 1 \in Int
    BY <1>1
  <2>3. IsFiniteSet(n .. c - 1)
        /\ Cardinality(n .. c - 1) = IF n > c - 1 THEN 0 ELSE (c - 1) - n + 1
    BY <2>2, FS_Interval
  <2>4. (IF n > c - 1 THEN 0 ELSE (c - 1) - n + 1) = c - n
    BY <1>1, <2>1
  <2> QED
    BY <2>1, <2>3, <2>4
<1> QED
  <2>1. PICK g \in Injection(D, S) : g = f
    BY <1>5
  <2>2. g \in Surjection(D, S)
    BY <1>5, <2>1
  <2>3. PICK Z : Z = S
    OBVIOUS
  <2>4. g \in Injection(D, Z) /\ IsFiniteSet(Z)
    BY <1>6, <2>1, <2>3
  <2>5. IsFiniteSet(D) /\ (Cardinality(D) = Cardinality(Z) <=> g \in Surjection(D, Z))
    <3> HIDE DEF D, f
    <3> QED
      BY <2>4, FS_Injection
  <2> QED
    BY <1>6, <2>2, <2>3, <2>5

LEMMA PopPacked ==
  ASSUME NEW t \in Tables, Packed(t), t.blocks # <<>>, NEW u, u = popBlock(t)
  PROVE  /\ u \in Tables /\ Packed(u) /\ u.max = t.max
         /\ Len(u.blocks) = Len(t.blocks) - 1
         /\ \A i \in 1 .. Len(t.blocks) - 1 : u.blocks[i] = t.blocks[i]
         /\ Outer(t, Len(t.blocks), u.cur)
<1>1. PICK bs \in Seq(Maps) : bs = t.blocks
  BY TableFields
<1>2. PICK l \in Nat \ {0} : l = Len(bs)
  BY <1>1, EmptySeq
<1>3. PICK n \in 0 .. t.cur : Outer(t, l, n)
  <2>1. l \in DOMAIN t.blocks
    BY <1>1, <1>2, TableFields
  <2> QED
    BY <2>1 DEF Packed
<1>4. IsFiniteSet(DOMAIN t.blocks[l]) /\ Cardinality(DOMAIN t.blocks[l]) = t.cur - n
  BY <1>1, <1>2, <1>3, PopCount
<1>5. PICK cs \in Seq(Maps) : cs = SubSeq(bs, 1, l - 1)
  <2>1. PICK k \in Nat : k = l - 1
    BY <1>2
  <2>2. \A i \in 1 .. k : bs[i] \in Maps
    BY <1>2, <2>1
  <2>3. 1 \in Int /\ k \in Int
    BY <2>1
  <2>4. SubSeq(bs, 1, k) \in Seq(Maps)
    BY <2>2, <2>3, SubSeqProperties
  <2> QED
    BY <2>1, <2>4
<1>6. PICK c \in Nat : c = n
  BY <1>3, TableFields
<1>7. u = [t EXCEPT !.blocks = cs, !.cur = c]
  <2>1. Block(t) = t.blocks[l]
    BY <1>1, <1>2 DEF Block
  <2>2. t.cur - Cardinality(DOMAIN Block(t)) = c
    BY <1>4, <1>6, <2>1, TableFields
  <2> QED
    BY <1>1, <1>2, <1>5, <2>2 DEF popBlock, Inner
<1>8. u \in Tables /\ u.blocks = cs /\ u.cur = c /\ u.max = t.max
  BY <1>7 DEF Tables
<1>9. /\ Len(cs) = l - 1 /\ DOMAIN cs = 1 .. l - 1 /\ \A i \in 1 .. l - 1 : cs[i] = bs[i]
  BY <1>2, <1>5
<1>10. Apart(u)
  <2>1. ASSUME NEW j \in DOMAIN u.blocks, NEW x \in DOMAIN u.blocks[j]
        PROVE  /\ j \in DOMAIN t.blocks /\ x \in DOMAIN t.blocks[j]
               /\ u.blocks[j][x] = t.blocks[j][x]
    <3>1. j \in 1 .. l - 1 /\ u.blocks[j] = bs[j]
      BY <1>8, <1>9
    <3>2. j \in DOMAIN bs
      BY <1>2, <3>1
    <3> QED
      BY <1>1, <3>1, <3>2
  <2>2. Apart(t)
    BY DEF Packed
  <2> QED
    BY <2>1, <2>2, ApartLess
<1>11. ASSUME NEW i \in 1 .. l, NEW m, Outer(t, i, m) PROVE Outer(u, i, m)
  <2>1. \A j \in 1 .. i - 1 : u.blocks[j] = t.blocks[j]
    BY <1>1, <1>2, <1>8, <1>9
  <2>2. i \in Nat
    BY <1>2
  <2> QED
    BY <1>11, <2>1, <2>2, OuterSame
<1>12. ASSUME NEW i \in 1 .. l - 1 PROVE \E m \in 0 .. c : Outer(u, i, m)
  <2>1. PICK m \in 0 .. t.cur : Outer(t, i, m)
    BY <1>1, <1>2 DEF Packed
  <2>2. m \in Nat /\ i \in 1 .. l
    BY <2>1, <1>2, TableFields
  <2>3. SUFFICES ASSUME ~ (m <= c) PROVE FALSE
    BY <1>2, <1>6, <1>11, <2>1, <2>2
  <2>4. c \in 0 .. m - 1
    BY <1>6, <2>2, <2>3
  <2>5. PICK j \in 1 .. i - 1 : \E x \in DOMAIN t.blocks[j] : t.blocks[j][x] = c
    BY <2>1, <2>4 DEF Outer
  <2>6. j \in 1 .. l - 1
    BY <1>2, <2>5
  <2>7. c < c
    BY <1>3, <1>6, <2>5, <2>6 DEF Outer
  <2> QED
    BY <1>6, <2>7
<1>13. Outer(u, Len(u.blocks) + 1, u.cur)
  <2>1. Len(u.blocks) + 1 = l /\ l \in 1 .. l
    BY <1>2, <1>8, <1>9
  <2> QED
    BY <1>3, <1>6, <1>8, <1>11, <2>1
<1>14. u.cur <= u.max
  BY <1>3, <1>6, <1>8, TableFields DEF Packed
<1> QED
  BY <1>1, <1>2, <1>3, <1>6, <1>8, <1>9, <1>10, <1>12, <1>13, <1>14 DEF Packed

(* A table with one block closes: what ~SymbolTable asserts. *)
LEMMA OneBlockCloses ==
  ASSUME NEW t \in Tables, Packed(t), Len(t.blocks) = 1
  PROVE  Closes(t)
<1>1. t.blocks # <<>>
  BY TableFields
<1>2. PICK u : u = popBlock(t)
  OBVIOUS
<1>3. Outer(t, 1, u.cur) /\ u \in Tables
  BY <1>1, <1>2, PopPacked
<1>4. u.cur \in Nat
  BY <1>3, TableFields
<1>5. ~ (0 \in 0 .. u.cur - 1)
  BY <1>3 DEF Outer
<1> QED
  BY <1>2, <1>4, <1>5 DEF Closes

(* Every declaration alive in a table has a slot of its own, and they are  *)
(* the first ones, inner blocks above outer ones.                          *)
LEMMA LiveIs ==
  ASSUME NEW t
  PROVE  \A p : p \in Live(t) <=>
           \E i \in DOMAIN t.blocks : \E x \in DOMAIN t.blocks[i] : p = <<i, x>>
BY DEF Live

LEMMA PackedSlots ==
  ASSUME NEW t \in Tables, Packed(t)
  PROVE  /\ {t.blocks[p[1]][p[2]] : p \in Live(t)} = 0 .. t.cur - 1
         /\ Cardinality(Live(t)) = t.cur
         /\ \A p, q \in Live(t) :
              p[1] < q[1] => t.blocks[p[1]][p[2]] < t.blocks[q[1]][q[2]]
         /\ t.cur <= t.max
<1> DEFINE S == 0 .. t.cur - 1
           f == [p \in Live(t) |-> t.blocks[p[1]][p[2]]]
<1>1. PICK l \in Nat : l = Len(t.blocks) /\ DOMAIN t.blocks = 1 .. l
  BY TableFields
<1>2. \A p \in Live(t) : /\ p[1] \in 1 .. l /\ p[2] \in DOMAIN t.blocks[p[1]]
                         /\ p = <<p[1], p[2]>>
  BY <1>1, LiveIs
<1>3. \A p \in Live(t) : f[p] \in S
  BY <1>1, <1>2, SlotBound
<1>4. \A p, q \in Live(t) : f[p] = f[q] => p = q
  <2>1. \A p, q \in Live(t) : f[p] = f[q] => p[1] = q[1] /\ p[2] = q[2]
    BY <1>1, <1>2 DEF Packed, Apart
  <2> QED
    BY <1>2, <2>1
<1>5. \A s \in S : \E p \in Live(t) : f[p] = s
  <2>1. SUFFICES ASSUME NEW s \in S PROVE \E p \in Live(t) : t.blocks[p[1]][p[2]] = s
    OBVIOUS
  <2>2. Outer(t, l + 1, t.cur)
    BY <1>1 DEF Packed
  <2>3. PICK j \in 1 .. (l + 1) - 1 : \E x \in DOMAIN t.blocks[j] : t.blocks[j][x] = s
    BY <2>2 DEF Outer
  <2>4. PICK x \in DOMAIN t.blocks[j] : t.blocks[j][x] = s
    BY <2>3
  <2>5. j \in 1 .. l
    BY <1>1, <2>3
  <2>6. <<j, x>> \in Live(t)
    BY <1>1, <2>4, <2>5, LiveIs
  <2> QED
    BY <2>4, <2>6
<1>6. {t.blocks[p[1]][p[2]] : p \in Live(t)} = S
  <2>1. \A p \in Live(t) : t.blocks[p[1]][p[2]] \in S
    BY <1>3
  <2>2. \A s \in S : \E p \in Live(t) : t.blocks[p[1]][p[2]] = s
    BY <1>5
  <2> HIDE DEF S
  <2> QED
    BY <2>1, <2>2
<1>7. f \in Injection(Live(t), S) /\ f \in Surjection(Live(t), S)
  BY <1>3, <1>4, <1>5 DEF Injection, IsInjective, Surjection
<1>8. IsFiniteSet(S) /\ Cardinality(S) = t.cur
  <2>1. PICK c \in Nat : c = t.cur
    BY TableFields
  <2>2. PICK b \in Int : b = c - 1
    BY <2>1
  <2>3. IsFiniteSet(0 .. b) /\ Cardinality(0 .. b) = IF 0 > b THEN 0 ELSE b - 0 + 1
    BY FS_Interval
  <2>4. (IF 0 > b THEN 0 ELSE b - 0 + 1) = c
    BY <2>1, <2>2
  <2> QED
    BY <2>1, <2>2, <2>3, <2>4
<1>9. Cardinality(Live(t)) = t.cur
  <2> HIDE DEF S, f
  <2> QED
    BY <1>7, <1>8, FS_Injection
<1>10. ASSUME NEW p \in Live(t), NEW q \in Live(t), p[1] < q[1]
       PROVE  t.blocks[p[1]][p[2]] < t.blocks[q[1]][q[2]]
  <2>1. PICK n \in 0 .. t.cur : Outer(t, q[1], n)
    BY <1>1, <1>2 DEF Packed
  <2>2. t.blocks[p[1]][p[2]] < n
    <3>1. p[1] \in 1 .. q[1] - 1
      BY <1>1, <1>2, <1>10
    <3> QED
      BY <1>2, <2>1, <3>1 DEF Outer
  <2>3. n <= t.blocks[q[1]][q[2]]
    <3>1. q[1] \in q[1] .. Len(t.blocks) /\ q[1] \in 1 .. Len(t.blocks) /\ n \in Nat
      BY <1>1, <1>2, <2>1, TableFields
    <3> QED
      BY <1>2, <2>1, <3>1, OuterInner
  <2>4. /\ t.blocks[p[1]][p[2]] \in Nat /\ t.blocks[q[1]][q[2]] \in Nat /\ n \in Nat
    BY <1>1, <1>2, <2>1, TableFields
  <2> QED
    BY <2>2, <2>3, <2>4
<1> QED
  BY <1>6, <1>9, <1>10 DEF Packed

(* Declared names take the next slots, in their order, in the innermost    *)
(* block.                                                                  *)
LEMMA DeclarePacked ==
  ASSUME NEW t \in Tables, Packed(t), t.blocks # <<>>,
         NEW names \in Seq(Name), Declarable(t, names),
         NEW u, u = declare(t, names)
  PROVE  /\ u \in Tables /\ Packed(u) /\ t.max <= u.max
         /\ Len(u.blocks) = Len(t.blocks)
         /\ \A i \in 1 .. Len(t.blocks) : \A x \in DOMAIN t.blocks[i] :
              x \in DOMAIN u.blocks[i] /\ u.blocks[i][x] = t.blocks[i][x]
         /\ \A i \in 1 .. Len(names) :
              /\ names[i] \in DOMAIN u.blocks[Len(t.blocks)]
              /\ u.blocks[Len(t.blocks)][names[i]] = t.cur + i - 1
<1> DEFINE R == {names[i] : i \in DOMAIN names}
           B == t.blocks[Len(t.blocks)]
           pos(x) == CHOOSE i \in DOMAIN names : names[i] = x
           C == [x \in DOMAIN B \cup R |-> IF x \in DOMAIN B THEN B[x] ELSE t.cur + pos(x) - 1]
<1>1. PICK bs \in Seq(Maps) : bs = t.blocks
  BY TableFields
<1>2. PICK l \in Nat \ {0} : l = Len(bs)
  BY <1>1, EmptySeq
<1>3. PICK c \in Nat : c = t.cur
  BY TableFields
<1>4. PICK m \in Nat : m = Len(names) /\ DOMAIN names = 1 .. m
  OBVIOUS
<1>5. /\ DOMAIN bs = 1 .. l /\ l \in 1 .. l /\ B = bs[l] /\ B \in Maps
      /\ DOMAIN B \subseteq Name /\ \A x \in DOMAIN B : B[x] \in 0 .. c - 1
  BY <1>1, <1>2, <1>3, TableFields, SlotBound
<1>6. /\ \A i \in 1 .. m : names[i] \in Name /\ names[i] \notin DOMAIN B
      /\ \A i, j \in 1 .. m : names[i] = names[j] => i = j
  <2>1. Block(t) = B
    BY DEF Block
  <2>2. \A i \in 1 .. m : names[i] \in Name
    BY <1>4
  <2> QED
    BY <1>4, <2>1, <2>2 DEF Declarable
<1>7. \A i \in 1 .. m : pos(names[i]) = i
  BY <1>4, <1>6
<1>8. /\ DOMAIN C = DOMAIN B \cup R
      /\ \A x \in DOMAIN B : C[x] = B[x]
      /\ \A i \in 1 .. m : names[i] \in R /\ C[names[i]] = c + i - 1
  <2>1. \A i \in 1 .. m : names[i] \in R
    BY <1>4
  <2> QED
    BY <1>3, <1>6, <1>7, <2>1
<1>9. \A x \in DOMAIN C : \/ x \in DOMAIN B /\ C[x] = B[x] /\ C[x] \in 0 .. c - 1
                          \/ \E i \in 1 .. m : x = names[i] /\ C[x] = c + i - 1
  <2>1. ASSUME NEW x \in R PROVE \E i \in 1 .. m : x = names[i]
    BY <1>4
  <2>2. SUFFICES ASSUME NEW x \in DOMAIN C
                 PROVE  \/ x \in DOMAIN B /\ C[x] = B[x] /\ C[x] \in 0 .. c - 1
                        \/ \E i \in 1 .. m : x = names[i] /\ C[x] = c + i - 1
    OBVIOUS
  <2> HIDE DEF C, R, B, pos
  <2>3. x \in DOMAIN B \/ x \in R
    BY <1>8
  <2> QED
    BY <1>5, <1>8, <2>1, <2>3
<1>10. C \in Maps
  <2>1. \A x \in DOMAIN C : C[x] \in Nat
    <3>1. \A i \in 1 .. m : c + i - 1 \in Nat
      BY <1>3, <1>4
    <3>2. \A n \in 0 .. c - 1 : n \in Nat
      BY <1>3
    <3> HIDE DEF C, R, B, pos
    <3> QED
      BY <1>9, <3>1, <3>2
  <2>2. DOMAIN C \subseteq Name
    BY <1>4, <1>5, <1>6, <1>8
  <2>3. C \in [DOMAIN C -> Nat]
    BY <2>1
  <2> HIDE DEF C
  <2> QED
    BY <2>2, <2>3 DEF Maps
<1>11. PICK d \in Maps : d = C
  BY <1>10
<1>12. PICK es \in Seq(Maps) :
         /\ es = [bs EXCEPT ![l] = d] /\ Len(es) = l /\ DOMAIN es = 1 .. l /\ es[l] = d
         /\ \A i \in 1 .. l : i # l => es[i] = bs[i]
  <2>1. PICK es : es = [bs EXCEPT ![l] = d]
    OBVIOUS
  <2>2. /\ es \in Seq(Maps) /\ Len(es) = l
        /\ \A i \in 1 .. l : es[i] = IF i = l THEN d ELSE bs[i]
    BY <1>2, <1>5, <2>1, ExceptSeq
  <2> QED
    BY <1>5, <2>1, <2>2
<1>13. PICK a \in Nat : a = IF t.max < c + m THEN c + m ELSE t.max
  BY <1>3, <1>4, TableFields
<1>14. u = [blocks |-> es, cur |-> c + m, max |-> a]
  <2>1. declare(t, names) =
          [blocks |-> [t.blocks EXCEPT ![Len(t.blocks)] = C], cur |-> t.cur + Len(names),
           max |-> IF t.max < t.cur + Len(names) THEN t.cur + Len(names) ELSE t.max]
    BY <1>1, <1>2, <1>5 DEF declare
  <2>2. [t.blocks EXCEPT ![Len(t.blocks)] = C] = es
    BY <1>1, <1>2, <1>11, <1>12
  <2>3. t.cur + Len(names) = c + m
    BY <1>3, <1>4
  <2>4. a = IF t.max < t.cur + Len(names) THEN t.cur + Len(names) ELSE t.max
    BY <1>13, <2>3
  <2> HIDE DEF C, R, B, pos
  <2>5. u = declare(t, names)
    OBVIOUS
  <2> QED
    BY Zenon, <2>1, <2>2, <2>3, <2>4, <2>5
<1>15. u \in Tables /\ u.blocks = es /\ u.cur = c + m /\ u.max = a
  BY <1>14, <1>3, <1>4, <1>13 DEF Tables
<1>16. \A x \in DOMAIN d : \/ x \in DOMAIN B /\ d[x] = bs[l][x] /\ d[x] \in 0 .. c - 1
                           \/ \E i \in 1 .. m : x = names[i] /\ d[x] = c + i - 1
  <2>1. B = bs[l]
    BY <1>5
  <2> HIDE DEF C, R, B, pos
  <2> QED
    BY <1>9, <1>11, <2>1
<1>17. \A i \in 1 .. l : \A x \in DOMAIN bs[i] : bs[i][x] \in 0 .. c - 1
  BY <1>1, <1>2, <1>3, SlotBound
<1>18. \A i \in 1 .. l : \A x \in DOMAIN es[i] :
         \/ x \in DOMAIN bs[i] /\ es[i][x] = bs[i][x] /\ es[i][x] \in 0 .. c - 1
         \/ i = l /\ \E k \in 1 .. m : x = names[k] /\ es[i][x] = c + k - 1
  BY <1>5, <1>12, <1>16, <1>17
<1>19. \A i \in 1 .. l : \A x \in DOMAIN bs[i] : x \in DOMAIN es[i] /\ es[i][x] = bs[i][x]
  BY <1>5, <1>8, <1>11, <1>12
<1>20. \A i \in 1 .. m : names[i] \in DOMAIN es[l] /\ es[l][names[i]] = c + i - 1
  BY <1>8, <1>11, <1>12
<1> HIDE DEF R, B, pos, C
<1>21. Apart(u)
  <2>1. SUFFICES ASSUME NEW j \in 1 .. l, NEW k \in 1 .. l,
                        NEW x \in DOMAIN es[j], NEW y \in DOMAIN es[k], es[j][x] = es[k][y]
                 PROVE  j = k /\ x = y
    BY <1>12, <1>15 DEF Apart
  <2>2. \A n \in 0 .. c - 1, i \in 1 .. m : n # c + i - 1
    BY <1>3, <1>4
  <2>3. \A i, h \in 1 .. m : c + i - 1 = c + h - 1 => i = h
    BY <1>3, <1>4
  <2>4. CASE x \in DOMAIN bs[j] /\ es[j][x] = bs[j][x] /\ es[j][x] \in 0 .. c - 1
    <3>1. y \in DOMAIN bs[k] /\ es[k][y] = bs[k][y]
      <4>1. \/ y \in DOMAIN bs[k] /\ es[k][y] = bs[k][y]
            \/ \E i \in 1 .. m : es[k][y] = c + i - 1
        BY <1>18, <2>1
      <4> QED
        BY <2>1, <2>2, <2>4, <4>1
    <3>2. j \in DOMAIN bs /\ k \in DOMAIN bs /\ bs[j][x] = bs[k][y]
      BY <1>5, <2>1, <2>4, <3>1
    <3> QED
      BY <1>1, <2>4, <3>1, <3>2 DEF Packed, Apart
  <2>5. CASE j = l /\ \E i \in 1 .. m : x = names[i] /\ es[j][x] = c + i - 1
    <3>1. k = l /\ \E i \in 1 .. m : y = names[i] /\ es[k][y] = c + i - 1
      BY <1>18, <2>1, <2>2, <2>5
    <3> QED
      BY <2>1, <2>3, <2>5, <3>1
  <2> QED
    BY <1>18, <2>4, <2>5
<1>22. Outer(u, Len(u.blocks) + 1, u.cur)
  <2>1. Outer(t, l + 1, c) /\ Len(u.blocks) + 1 = l + 1
    BY <1>1, <1>2, <1>3, <1>12, <1>15 DEF Packed
  <2>2. \A j \in 1 .. (l + 1) - 1 : j \in 1 .. l
    BY <1>2
  <2>3. \A j \in 1 .. l : j \in 1 .. (l + 1) - 1
    BY <1>2
  <2>4. ASSUME NEW j \in 1 .. (l + 1) - 1, NEW x \in DOMAIN es[j] PROVE es[j][x] < c + m
    <3>1. \A n \in 0 .. c - 1 : n < c + m
      BY <1>3, <1>4
    <3>2. \A i \in 1 .. m : c + i - 1 < c + m
      BY <1>3, <1>4
    <3> QED
      BY <1>18, <2>2, <2>4, <3>1, <3>2
  <2>5. ASSUME NEW s \in 0 .. c + m - 1
        PROVE  \E j \in 1 .. (l + 1) - 1 : \E x \in DOMAIN es[j] : es[j][x] = s
    <3>1. s \in 0 .. c - 1 \/ \E i \in 1 .. m : s = c + i - 1
      <4>1. s \in Int /\ 0 <= s /\ s <= c + m - 1
        BY <1>3, <1>4
      <4>2. CASE s < c
        BY <4>1, <4>2, <1>3
      <4>3. CASE c <= s
        <5>1. s - c + 1 \in 1 .. m /\ s = c + (s - c + 1) - 1
          BY <4>1, <4>3, <1>3, <1>4
        <5> QED
          BY <5>1
      <4> QED
        BY <4>1, <4>2, <4>3, <1>3
    <3>2. CASE s \in 0 .. c - 1
      <4>1. PICK j \in 1 .. (l + 1) - 1 : \E x \in DOMAIN bs[j] : bs[j][x] = s
        BY <1>1, <2>1, <3>2 DEF Outer
      <4> QED
        BY <1>19, <2>2, <4>1
    <3>3. CASE \E i \in 1 .. m : s = c + i - 1
      BY <1>5, <1>20, <2>3, <3>3
    <3> QED
      BY <3>1, <3>2, <3>3
  <2>6. Outer(u, l + 1, c + m)
    <3>1. PICK fs : fs = u.blocks /\ fs = es
      BY <1>15
    <3>2. \A j \in 1 .. (l + 1) - 1 : \A x \in DOMAIN fs[j] : fs[j][x] < c + m
      BY <2>4, <3>1
    <3>3. \A q \in 0 .. c + m - 1 :
            \E j \in 1 .. (l + 1) - 1 : \E x \in DOMAIN fs[j] : fs[j][x] = q
      BY <2>5, <3>1
    <3> QED
      BY <3>1, <3>2, <3>3 DEF Outer
  <2> QED
    BY <1>15, <2>1, <2>6
<1>23. ASSUME NEW i \in 1 .. l PROVE \E n \in 0 .. u.cur : Outer(u, i, n)
  <2>1. PICK n \in 0 .. t.cur : Outer(t, i, n)
    BY <1>1, <1>2, <1>5 DEF Packed
  <2>2. \A j \in 1 .. i - 1 : j \in 1 .. l /\ j # l
    BY <1>2
  <2>3. \A j \in 1 .. i - 1 : u.blocks[j] = t.blocks[j]
    BY <1>1, <1>12, <1>15, <2>2
  <2>4. n \in 0 .. u.cur /\ i \in Nat
    BY <1>2, <1>3, <1>4, <1>15, <2>1
  <2> QED
    BY <2>1, <2>3, <2>4, OuterSame
<1>24. u.cur <= u.max /\ t.max <= u.max
  <2>1. PICK b \in Nat : b = t.max
    BY TableFields
  <2> QED
    BY <1>3, <1>4, <1>13, <1>15, <2>1
<1>25. Packed(u)
  BY <1>12, <1>15, <1>21, <1>22, <1>23, <1>24 DEF Packed
<1>26. Len(u.blocks) = Len(t.blocks)
  BY <1>1, <1>2, <1>12, <1>15
<1> QED
  BY <1>1, <1>2, <1>3, <1>4, <1>15, <1>19, <1>20, <1>24, <1>25, <1>26

-----------------------------------------------------------------------------
(* Rules and their tables. *)

LEMMA RankNat ==
  ASSUME NEW rs \in Seq(Rules), NEW i \in Nat
  PROVE  /\ IsFiniteSet({j \in DOMAIN rs : IsFunction(rs, j) /\ j <= i})
         /\ Rank(rs, i) \in Nat
<1>1. PICK l \in Nat : l = Len(rs) /\ DOMAIN rs = 1 .. l
  OBVIOUS
<1>2. IsFiniteSet(1 .. l)
  <2>1. 1 \in Int /\ l \in Int
    BY <1>1
  <2> QED
    BY <2>1, FS_Interval
<1>3. {j \in DOMAIN rs : IsFunction(rs, j) /\ j <= i} \in SUBSET (1 .. l)
  BY <1>1
<1>4. IsFiniteSet({j \in DOMAIN rs : IsFunction(rs, j) /\ j <= i})
  BY <1>2, <1>3, FS_Subset
<1> QED
  BY <1>4, FS_CardinalityType DEF Rank

(* Only the kinds of the rules up to a rule count. *)
LEMMA RankCong ==
  ASSUME NEW rs \in Seq(Rules), NEW qs \in Seq(Rules), NEW i \in Nat,
         i <= Len(rs), i <= Len(qs),
         \A k \in 1 .. i : qs[k].kind = rs[k].kind
  PROVE  Rank(qs, i) = Rank(rs, i)
<1>1. DOMAIN rs = 1 .. Len(rs) /\ DOMAIN qs = 1 .. Len(qs)
  OBVIOUS
<1>2. \A j : j \in DOMAIN qs /\ j <= i <=> j \in 1 .. i
  BY <1>1
<1>3. \A j : j \in DOMAIN rs /\ j <= i <=> j \in 1 .. i
  BY <1>1
<1>4. {j \in DOMAIN qs : IsFunction(qs, j) /\ j <= i}
      = {j \in DOMAIN rs : IsFunction(rs, j) /\ j <= i}
  BY <1>2, <1>3 DEF IsFunction
<1> QED
  BY <1>4 DEF Rank

LEMMA RankStep ==
  ASSUME NEW rs \in Seq(Rules), NEW i \in Nat, i + 1 <= Len(rs)
  PROVE  Rank(rs, i + 1) = IF IsFunction(rs, i + 1) THEN Rank(rs, i) + 1 ELSE Rank(rs, i)
<1> DEFINE S == {j \in DOMAIN rs : IsFunction(rs, j) /\ j <= i}
           T == {j \in DOMAIN rs : IsFunction(rs, j) /\ j <= i + 1}
<1>1. i + 1 \in DOMAIN rs /\ i + 1 \notin S /\ \A j \in DOMAIN rs : j \in Nat
  OBVIOUS
<1>2. \A j \in Nat : j <= i + 1 <=> j <= i \/ j = i + 1
  OBVIOUS
<1>3. IsFiniteSet(S)
  BY RankNat
<1>4. CASE IsFunction(rs, i + 1)
  <2>1. T = S \cup {i + 1}
    BY <1>1, <1>2, <1>4
  <2>2. Cardinality(S \cup {i + 1}) = Cardinality(S) + 1
    <3> HIDE DEF S
    <3> QED
      BY <1>1, <1>3, FS_AddElement
  <2> QED
    BY <1>4, <2>1, <2>2 DEF Rank
<1>5. CASE ~ IsFunction(rs, i + 1)
  <2>1. T = S
    BY <1>1, <1>2, <1>5
  <2> QED
    BY <1>5, <2>1 DEF Rank
<1> QED
  BY <1>4, <1>5

LEMMA RankUp ==
  ASSUME NEW rs \in Seq(Rules), NEW i \in Nat, NEW k \in Nat, i <= k
  PROVE  Rank(rs, i) <= Rank(rs, k)
<1> DEFINE S == {j \in DOMAIN rs : IsFunction(rs, j) /\ j <= i}
           T == {j \in DOMAIN rs : IsFunction(rs, j) /\ j <= k}
<1>1. \A j \in DOMAIN rs : j \in Nat
  OBVIOUS
<1>2. S \in SUBSET T
  BY <1>1
<1>3. IsFiniteSet(T)
  BY RankNat
<1>4. Cardinality(S) <= Cardinality(T)
  <2> HIDE DEF S, T
  <2> QED
    BY <1>2, <1>3, FS_Subset
<1> QED
  BY <1>4 DEF Rank

LEMMA RankZero ==
  ASSUME NEW rs \in Seq(Rules)
  PROVE  Rank(rs, 0) = 0
<1>1. {j \in DOMAIN rs : IsFunction(rs, j) /\ j <= 0} = {}
  OBVIOUS
<1> QED
  BY <1>1, FS_EmptySet DEF Rank

LEMMA RankOwner ==
  ASSUME NEW rs \in Seq(Rules), NEW i \in DOMAIN rs, NEW j \in 1 .. i, Owns(rs, j, i)
  PROVE  Rank(rs, j) = Rank(rs, i)
<1>1. \A k \in DOMAIN rs : IsFunction(rs, k) => (k <= i <=> k <= j)
  <2>1. \A k \in DOMAIN rs : k \in Nat /\ i \in Nat /\ j \in Nat /\ j <= i
    OBVIOUS
  <2>2. \A k \in DOMAIN rs : k <= i /\ ~ (k <= j) => k \in j + 1 .. i
    BY <2>1
  <2> QED
    BY <2>1, <2>2 DEF Owns
<1> QED
  BY <1>1 DEF Rank

(* A step that adds a rule at the end, or removes or keeps rules there, and *)
(* with a function its table; only the last table may change.              *)
Moves(rs, qs, ts, us) ==
  /\ Len(us) - Rank(qs, Len(qs)) = Len(ts) - Rank(rs, Len(rs))
  /\ Len(qs) <= Len(rs) + 1
  /\ \A i \in 1 .. Len(qs) : i <= Len(rs) => qs[i] = rs[i]
  /\ \A n \in 1 .. Len(ts) : n < Len(us) => us[n] = ts[n]

LEMMA TableNoRange ==
  ASSUME NEW rs \in Seq(Rules), NEW ts \in Seq(Tables), RulesNest(rs, ts)
  PROVE  \A i \in 1 .. Len(rs) :
           /\ TableNo(rs, Len(ts), i) \in 1 .. Len(ts)
           /\ i = Len(rs) => TableNo(rs, Len(ts), i) = Len(ts)
           /\ i < Len(rs) /\ Innermost(rs, i) => TableNo(rs, Len(ts), i) < Len(ts)
<1>1. SUFFICES ASSUME NEW i \in 1 .. Len(rs)
               PROVE  /\ TableNo(rs, Len(ts), i) \in 1 .. Len(ts)
                      /\ i = Len(rs) => TableNo(rs, Len(ts), i) = Len(ts)
                      /\ i < Len(rs) /\ Innermost(rs, i) => TableNo(rs, Len(ts), i) < Len(ts)
  OBVIOUS
<1>2. PICK l \in Nat : l = Len(rs) /\ DOMAIN rs = 1 .. l /\ i <= l
  OBVIOUS
<1>3. PICK r \in Nat : r = Rank(rs, l)
  BY <1>2, RankNat
<1>4. PICK q \in Nat : q = Rank(rs, i)
  <2>1. i \in Nat
    OBVIOUS
  <2> QED
    BY <2>1, RankNat
<1>5. PICK m \in Nat : m = Len(ts)
  OBVIOUS
<1>6. r <= m /\ q <= r
  BY <1>2, <1>3, <1>4, <1>5, RankUp DEF RulesNest
<1>7. q >= 1
  <2>1. PICK j \in 1 .. i : Owns(rs, j, i)
    BY <1>2 DEF RulesNest
  <2>2. IsFunction(rs, j) /\ j \in DOMAIN rs /\ i \in DOMAIN rs
    BY <1>2, <2>1 DEF Owns
  <2>3. PICK k \in Nat : j = k + 1 /\ k + 1 <= Len(rs)
    BY <1>2, <2>1
  <2>4. Rank(rs, k + 1) = Rank(rs, k) + 1 /\ Rank(rs, k) \in Nat
    BY <2>2, <2>3, RankStep, RankNat
  <2>5. Rank(rs, j) = Rank(rs, i)
    BY <2>1, <2>2, RankOwner
  <2> QED
    BY <1>4, <2>3, <2>4, <2>5
<1>8. ASSUME i < l, Innermost(rs, i) PROVE q < r
  <2>1. IsFunction(rs, i + 1) /\ i + 1 <= Len(rs) /\ i + 1 \in Nat /\ i \in Nat
    BY <1>2, <1>8 DEF Innermost
  <2>2. Rank(rs, i + 1) = q + 1
    BY <1>4, <2>1, RankStep
  <2>3. Rank(rs, i + 1) <= Rank(rs, l)
    BY <1>2, <2>1, RankUp
  <2> QED
    BY <1>3, <2>2, <2>3
<1> QED
  BY <1>2, <1>3, <1>4, <1>5, <1>6, <1>7, <1>8 DEF TableNo

LEMMA Geometry ==
  ASSUME NEW rs \in Seq(Rules), NEW qs \in Seq(Rules),
         NEW ts \in Seq(Tables), NEW us \in Seq(Tables),
         RulesNest(rs, ts), RulesNest(qs, us), Moves(rs, qs, ts, us),
         NEW i \in 1 .. Len(qs)
  PROVE  /\ i <= Len(rs) =>
              /\ TableNo(qs, Len(us), i) = TableNo(rs, Len(ts), i)
              /\ \A j \in 1 .. i : Owns(qs, j, i) => Owns(rs, j, i)
              /\ IsFunction(qs, i) => IsFunction(rs, i)
         /\ i < Len(qs) =>
              /\ i <= Len(rs)
              /\ Innermost(qs, i) => Innermost(rs, i)
<1>1. PICK l \in Nat : l = Len(rs)
  OBVIOUS
<1>2. PICK h \in Nat : h = Len(qs) /\ h <= l + 1 /\ i <= h
  BY <1>1 DEF Moves
<1>3. \A k \in 1 .. h : k <= l => qs[k] = rs[k]
  BY <1>1, <1>2 DEF Moves
<1>4. ASSUME i <= l
      PROVE  /\ TableNo(qs, Len(us), i) = TableNo(rs, Len(ts), i)
             /\ \A j \in 1 .. i : Owns(qs, j, i) => Owns(rs, j, i)
             /\ IsFunction(qs, i) => IsFunction(rs, i)
  <2>1. \A k \in 1 .. i : k \in 1 .. h /\ k <= l
    BY <1>2, <1>4
  <2>2. \A k \in 1 .. i : qs[k] = rs[k]
    BY <1>3, <2>1
  <2>3. Rank(qs, i) = Rank(rs, i)
    BY <1>1, <1>2, <1>4, <2>2, RankCong
  <2>4. TableNo(qs, Len(us), i) = TableNo(rs, Len(ts), i)
    BY <2>3 DEF TableNo, Moves
  <2>5. ASSUME NEW j \in 1 .. i, Owns(qs, j, i) PROVE Owns(rs, j, i)
    <3>1. \A k \in j + 1 .. i : k \in 1 .. i
      OBVIOUS
    <3> QED
      BY <2>2, <2>5, <3>1 DEF Owns, IsFunction
  <2>6. i \in 1 .. i
    OBVIOUS
  <2> QED
    BY <2>2, <2>4, <2>5, <2>6 DEF IsFunction
<1>5. ASSUME i < h PROVE i <= l /\ (Innermost(qs, i) => Innermost(rs, i))
  <2>1. i <= l
    BY <1>1, <1>2, <1>5
  <2>2. CASE i = l
    BY <1>1, <2>2 DEF Innermost
  <2>3. CASE i # l
    <3>1. i + 1 \in 1 .. h /\ i + 1 <= l /\ i # h
      BY <1>1, <1>2, <1>5, <2>1, <2>3
    <3> QED
      BY <1>2, <1>3, <2>1, <3>1 DEF Innermost, IsFunction
  <2> QED
    BY <2>1, <2>2, <2>3
<1> QED
  BY <1>1, <1>2, <1>4, <1>5

(* What the last table has to be after such a step. *)
LastNested(rs, qs, ts, us) ==
  /\ \A j \in 1 .. Len(qs) : Owns(qs, j, Len(qs)) =>
       Len(us[Len(us)].blocks) >= Len(qs) - j + 1
  /\ Len(us) <= Len(ts) => ts[Len(us)].max <= us[Len(us)].max
  /\ Len(qs) > Len(rs) /\ IsFunction(qs, Len(qs)) =>
       qs[Len(qs)].used <= us[Len(us)].max

LEMMA KeepNested ==
  ASSUME NEW rs \in Seq(Rules), NEW qs \in Seq(Rules),
         NEW ts \in Seq(Tables), NEW us \in Seq(Tables),
         RulesNest(rs, ts), RulesNest(qs, us), Moves(rs, qs, ts, us),
         Nested(rs, ts), LastNested(rs, qs, ts, us)
  PROVE  Nested(qs, us)
<1>1. SUFFICES ASSUME NEW i \in 1 .. Len(qs), NEW n, n = TableNo(qs, Len(us), i)
               PROVE  /\ IsFunction(qs, i) => qs[i].used <= us[n].max
                      /\ Innermost(qs, i) =>
                           \A j \in 1 .. i : Owns(qs, j, i) => Len(us[n].blocks) >= i - j + 1
  BY DEF Nested
<1>2. n \in 1 .. Len(us) /\ (i = Len(qs) => n = Len(us))
      /\ (i < Len(qs) /\ Innermost(qs, i) => n < Len(us))
  BY <1>1, TableNoRange
<1>3. i <= Len(rs) => /\ n = TableNo(rs, Len(ts), i) /\ n \in 1 .. Len(ts) /\ i \in 1 .. Len(rs)
                      /\ \A j \in 1 .. i : Owns(qs, j, i) => Owns(rs, j, i)
                      /\ IsFunction(qs, i) => IsFunction(rs, i)
                      /\ qs[i] = rs[i]
  <2>1. i <= Len(rs) => i \in 1 .. Len(rs)
    OBVIOUS
  <2>2. i <= Len(rs) => qs[i] = rs[i]
    BY DEF Moves
  <2>3. i <= Len(rs) => TableNo(rs, Len(ts), i) \in 1 .. Len(ts)
    BY <2>1, TableNoRange
  <2> QED
    BY <1>1, <2>1, <2>2, <2>3, Geometry
<1>4. i <= Len(rs) => us[n] = ts[n] \/ (n = Len(us) /\ n <= Len(ts))
  BY <1>2, <1>3 DEF Moves
<1>5. ASSUME IsFunction(qs, i) PROVE qs[i].used <= us[n].max
  <2>1. CASE i <= Len(rs)
    <3>1. rs[i].used <= ts[n].max /\ qs[i].used = rs[i].used
      BY <1>3, <1>5, <2>1 DEF Nested
    <3>2. PICK x \in Nat : x = rs[i].used
      <4>1. rs[i] \in Rules
        BY <1>3, <2>1
      <4> QED
        BY <4>1 DEF Rules
    <3>3. PICK y \in Nat : y = ts[n].max
      <4>1. ts[n] \in Tables
        BY <1>3, <2>1
      <4> QED
        BY <4>1, TableFields
    <3>4. PICK z \in Nat : z = us[n].max
      BY <1>2, TableFields
    <3>5. y <= z
      <4>1. CASE us[n] = ts[n]
        BY <3>3, <3>4, <4>1
      <4>2. CASE n = Len(us) /\ n <= Len(ts)
        BY <3>3, <3>4, <4>2 DEF LastNested
      <4> QED
        BY <1>4, <2>1, <4>1, <4>2
    <3> QED
      BY <3>1, <3>2, <3>3, <3>4, <3>5
  <2>2. CASE i > Len(rs)
    <3>1. i = Len(qs)
      BY <2>2, <1>1 DEF Moves
    <3> QED
      BY <1>2, <1>5, <2>2, <3>1 DEF LastNested
  <2> QED
    BY <2>1, <2>2
<1>6. ASSUME Innermost(qs, i), NEW j \in 1 .. i, Owns(qs, j, i)
      PROVE  Len(us[n].blocks) >= i - j + 1
  <2>1. CASE i = Len(qs)
    BY <1>2, <1>6, <2>1 DEF LastNested
  <2>2. CASE i < Len(qs)
    <3>1. i <= Len(rs) /\ Innermost(rs, i)
      BY <1>6, <2>2, Geometry
    <3>2. us[n] = ts[n]
      BY <1>2, <1>3, <1>6, <2>2, <3>1 DEF Moves
    <3> QED
      BY <1>3, <1>6, <3>1, <3>2 DEF Nested
  <2> QED
    BY <2>1, <2>2
<1> QED
  BY <1>5, <1>6

(* The same without errors. *)
LastExact(rs, qs, ts, us) ==
  /\ \A j \in 1 .. Len(qs) : Owns(qs, j, Len(qs)) =>
       Len(us[Len(us)].blocks) = Len(qs) - j + 1
  /\ Len(us) <= Len(ts) =>
       \A x \in DOMAIN ts[Len(us)].blocks[1] :
         /\ x \in DOMAIN us[Len(us)].blocks[1]
         /\ us[Len(us)].blocks[1][x] = ts[Len(us)].blocks[1][x]
  /\ Len(qs) > Len(rs) /\ IsFunction(qs, Len(qs)) =>
       HasParams(qs[Len(qs)], us[Len(us)])

LEMMA KeepExact ==
  ASSUME NEW rs \in Seq(Rules), NEW qs \in Seq(Rules),
         NEW ts \in Seq(Tables), NEW us \in Seq(Tables),
         RulesNest(rs, ts), RulesNest(qs, us), Moves(rs, qs, ts, us),
         Exact(rs, ts), LastExact(rs, qs, ts, us)
  PROVE  Exact(qs, us)
<1>0. Rank(qs, Len(qs)) = Len(us)
  <2>1. Rank(qs, Len(qs)) \in Nat /\ Rank(rs, Len(rs)) = Len(ts)
    <3>1. Len(qs) \in Nat
      OBVIOUS
    <3> QED
      BY <3>1, RankNat DEF Exact
  <2> QED
    BY <2>1 DEF Moves
<1>1. SUFFICES ASSUME NEW i \in 1 .. Len(qs), NEW n, n = TableNo(qs, Len(us), i)
               PROVE  ExactAt(qs, us[n], i)
  BY <1>0 DEF Exact
<1>2. n \in 1 .. Len(us) /\ (i = Len(qs) => n = Len(us))
      /\ (i < Len(qs) /\ Innermost(qs, i) => n < Len(us))
  BY <1>1, TableNoRange
<1>3. i <= Len(rs) => /\ n = TableNo(rs, Len(ts), i) /\ n \in 1 .. Len(ts) /\ i \in 1 .. Len(rs)
                      /\ \A j \in 1 .. i : Owns(qs, j, i) => Owns(rs, j, i)
                      /\ IsFunction(qs, i) => IsFunction(rs, i)
                      /\ qs[i] = rs[i]
  <2>1. i <= Len(rs) => i \in 1 .. Len(rs)
    OBVIOUS
  <2>2. i <= Len(rs) => qs[i] = rs[i]
    BY DEF Moves
  <2>3. i <= Len(rs) => TableNo(rs, Len(ts), i) \in 1 .. Len(ts)
    BY <2>1, TableNoRange
  <2> QED
    BY <1>1, <2>1, <2>2, <2>3, Geometry
<1>4. i <= Len(rs) => us[n] = ts[n] \/ (n = Len(us) /\ n <= Len(ts))
  BY <1>2, <1>3 DEF Moves
<1>5. ASSUME IsFunction(qs, i) PROVE HasParams(qs[i], us[n])
  <2>1. CASE i <= Len(rs)
    <3>1. HasParams(rs[i], ts[n]) /\ qs[i] = rs[i]
      BY <1>3, <1>5, <2>1 DEF Exact, ExactAt
    <3>2. \A x \in DOMAIN ts[n].blocks[1] :
            x \in DOMAIN us[n].blocks[1] /\ us[n].blocks[1][x] = ts[n].blocks[1][x]
      BY <1>4, <2>1 DEF LastExact
    <3> QED
      BY <3>1, <3>2 DEF HasParams
  <2>2. CASE i > Len(rs)
    <3>1. i = Len(qs)
      BY <2>2, <1>1 DEF Moves
    <3> QED
      BY <1>2, <1>5, <2>2, <3>1 DEF LastExact
  <2> QED
    BY <2>1, <2>2
<1>6. ASSUME Innermost(qs, i), NEW j \in 1 .. i, Owns(qs, j, i)
      PROVE  Len(us[n].blocks) = i - j + 1
  <2>1. CASE i = Len(qs)
    BY <1>2, <1>6, <2>1 DEF LastExact
  <2>2. CASE i < Len(qs)
    <3>1. i <= Len(rs) /\ Innermost(rs, i)
      BY <1>6, <2>2, Geometry
    <3>2. us[n] = ts[n]
      BY <1>2, <1>3, <1>6, <2>2, <3>1 DEF Moves
    <3>3. ExactAt(rs, ts[n], i) /\ Owns(rs, j, i)
      BY <1>3, <1>6, <3>1 DEF Exact
    <3> QED
      BY <3>1, <3>2, <3>3 DEF ExactAt
  <2> QED
    BY <2>1, <2>2
<1> QED
  BY <1>5, <1>6 DEF ExactAt

LEMMA InnerSeq ==
  ASSUME NEW S, NEW s \in Seq(S), s # <<>>, NEW q, q = Inner(s)
  PROVE  /\ q \in Seq(S) /\ Len(q) = Len(s) - 1 /\ Len(s) \in Nat \ {0}
         /\ \A i \in 1 .. Len(s) - 1 : q[i] = s[i]
<1>1. PICK l \in Nat : l = Len(s) - 1 /\ Len(s) = l + 1
  BY EmptySeq
<1>2. \A i \in 1 .. l : s[i] \in S
  BY <1>1
<1>3. q = SubSeq(s, 1, l)
  BY <1>1 DEF Inner
<1>4. 1 \in Int /\ l \in Int
  BY <1>1
<1>5. SubSeq(s, 1, l) \in Seq(S)
  BY <1>2, <1>4, SubSeqProperties
<1>6. Len(q) = l /\ \A i \in 1 .. l : q[i] = s[i]
  BY <1>1, <1>3
<1> QED
  BY <1>1, <1>3, <1>5, <1>6

LEMMA InnerRules ==
  ASSUME NEW rs \in Seq(Rules), rs # <<>>
  PROVE  /\ Inner(rs) \in Seq(Rules) /\ Len(Inner(rs)) = Len(rs) - 1 /\ Len(rs) \in Nat \ {0}
         /\ \A i \in 1 .. Len(rs) - 1 : Inner(rs)[i] = rs[i]
BY InnerSeq

(* Another last table. *)
TopOnly(ts, us) ==
  Len(us) = Len(ts) /\ \A n \in 1 .. Len(ts) : n < Len(us) => us[n] = ts[n]

LEMMA SetTopOnly ==
  ASSUME NEW ts \in Seq(Tables), ts # <<>>, NEW t \in Tables,
         NEW us, us = [ts EXCEPT ![Len(ts)] = t]
  PROVE  /\ us \in Seq(Tables) /\ TopOnly(ts, us) /\ us[Len(ts)] = t
         /\ Len(us) = Len(ts) /\ us # <<>> /\ Len(ts) \in Nat \ {0}
<1>1. PICK l \in Nat \ {0} : l = Len(ts) /\ l \in 1 .. l
  BY EmptySeq
<1>2. us \in Seq(Tables) /\ Len(us) = l /\ \A i \in 1 .. l : us[i] = IF i = l THEN t ELSE ts[i]
  BY <1>1, ExceptSeq
<1>3. \A n \in 1 .. l : n < l => n # l
  BY <1>1
<1> QED
  BY <1>1, <1>2, <1>3 DEF TopOnly

(* A block more, a block less, the same rules: another last table. *)
LEMMA GrowBlock ==
  ASSUME NEW rs \in Seq(Rules), NEW ts \in Seq(Tables), RulesNest(rs, ts), rs # <<>>,
         NEW r \in Rules, r.kind = "block", NEW qs, qs = Append(rs, r),
         NEW us \in Seq(Tables), TopOnly(ts, us)
  PROVE  /\ qs \in Seq(Rules) /\ RulesNest(qs, us) /\ Moves(rs, qs, ts, us)
         /\ Len(qs) = Len(rs) + 1 /\ ~ IsFunction(qs, Len(qs))
         /\ \A j \in 1 .. Len(qs) : Owns(qs, j, Len(qs)) =>
              j \in 1 .. Len(rs) /\ Owns(rs, j, Len(rs))
<1>1. PICK l \in Nat \ {0} : l = Len(rs) /\ DOMAIN rs = 1 .. l
  BY EmptySeq
<1>2. /\ qs \in Seq(Rules) /\ Len(qs) = l + 1 /\ DOMAIN qs = 1 .. l + 1
      /\ qs[l + 1] = r /\ \A i \in 1 .. l : qs[i] = rs[i]
  BY <1>1, AppendProperties
<1>3. ~ IsFunction(qs, l + 1)
  BY <1>2 DEF IsFunction
<1>4. Rank(qs, l + 1) = Rank(rs, l)
  <2>1. l \in Nat /\ l + 1 <= Len(qs) /\ l <= Len(qs) /\ l <= Len(rs)
    BY <1>1, <1>2
  <2>2. Rank(qs, l) = Rank(rs, l)
    BY <1>2, <2>1, RankCong
  <2> QED
    BY <1>2, <1>3, <2>1, <2>2, RankStep
<1>5. Moves(rs, qs, ts, us)
  BY <1>1, <1>2, <1>4 DEF Moves, TopOnly
<1>6. ASSUME NEW i \in 1 .. l, NEW j \in 1 .. i
      PROVE  Owns(qs, j, i) <=> Owns(rs, j, i)
  <2>1. \A k \in j + 1 .. i : k \in 1 .. l
    BY <1>1
  <2>2. j \in 1 .. l
    BY <1>1
  <2> QED
    BY <1>2, <2>1, <2>2 DEF Owns, IsFunction
<1>7. ASSUME NEW j \in 1 .. l, Owns(qs, j, l) PROVE Owns(qs, j, l + 1)
  <2>1. \A k \in j + 1 .. l + 1 : k = l + 1 \/ k \in j + 1 .. l
    <3>1. SUFFICES ASSUME NEW k \in j + 1 .. l + 1, k # l + 1 PROVE k \in j + 1 .. l
      OBVIOUS
    <3>2. l \in Int /\ j \in Int
      BY <1>1
    <3>3. k \in Int /\ j + 1 <= k /\ k <= l + 1
      BY <3>1, <3>2
    <3> QED
      BY <3>1, <3>2, <3>3
  <2> QED
    BY <1>1, <1>3, <1>7, <2>1 DEF Owns
<1>8. ASSUME NEW j \in 1 .. l + 1, Owns(qs, j, l + 1) PROVE j \in 1 .. l /\ Owns(rs, j, l)
  <2>1. j # l + 1
    BY <1>3, <1>8 DEF Owns
  <2>2. j \in 1 .. l /\ l \in 1 .. l
    BY <1>1, <2>1
  <2>3. \A k \in j + 1 .. l : k \in j + 1 .. l + 1
    BY <1>1
  <2>4. Owns(qs, j, l)
    BY <1>8, <2>2, <2>3 DEF Owns
  <2> QED
    BY <1>6, <2>2, <2>4
<1>9. ASSUME NEW i \in 1 .. l + 1
      PROVE  (qs[i].kind = "program" <=> i = 1) /\ \E j \in 1 .. i : Owns(qs, j, i)
  <2>1. CASE i \in 1 .. l
    BY <1>1, <1>2, <1>6, <2>1 DEF RulesNest
  <2>2. CASE i = l + 1
    <3>1. l \in 1 .. l /\ \A j \in 1 .. l : j \in 1 .. l + 1
      BY <1>1
    <3>2. PICK j \in 1 .. l : Owns(rs, j, l)
      BY <1>1, <3>1 DEF RulesNest
    <3>3. Owns(qs, j, l + 1)
      BY <1>6, <1>7, <3>1, <3>2
    <3> QED
      BY <1>1, <1>2, <2>2, <3>1, <3>3
  <2> QED
    BY <1>1, <2>1, <2>2
<1>10. RulesNest(qs, us)
  BY <1>1, <1>2, <1>4, <1>9 DEF RulesNest, TopOnly
<1> QED
  BY <1>1, <1>2, <1>3, <1>5, <1>8, <1>10

(* A function more, with its table. *)
FunctionRule(rs, r) == r \in Rules /\ r.kind = IF rs = <<>> THEN "program" ELSE "body"

Begun(rs, ts, r, t, qs, us) ==
  /\ qs \in Seq(Rules) /\ us \in Seq(Tables)
  /\ RulesNest(qs, us) /\ Moves(rs, qs, ts, us)
  /\ Len(qs) = Len(rs) + 1 /\ qs[Len(qs)] = r
  /\ Len(us) = Len(ts) + 1 /\ us[Len(us)] = t
  /\ \A j \in 1 .. Len(qs) : Owns(qs, j, Len(qs)) => j = Len(qs)

LEMMA GrowFunction ==
  ASSUME NEW rs \in Seq(Rules), NEW ts \in Seq(Tables), RulesNest(rs, ts),
         NEW r, FunctionRule(rs, r), NEW qs, qs = Append(rs, r),
         NEW t \in Tables, NEW us, us = Append(ts, t)
  PROVE  Begun(rs, ts, r, t, qs, us)
<1>0. r \in Rules /\ r.kind = IF rs = <<>> THEN "program" ELSE "body"
  BY DEF FunctionRule
<1>1. PICK l \in Nat : l = Len(rs) /\ DOMAIN rs = 1 .. l
  OBVIOUS
<1>2. /\ qs \in Seq(Rules) /\ Len(qs) = l + 1 /\ DOMAIN qs = 1 .. l + 1
      /\ qs[l + 1] = r /\ \A i \in 1 .. l : qs[i] = rs[i]
  BY <1>0, <1>1, AppendProperties
<1>3. PICK m \in Nat : m = Len(ts)
  OBVIOUS
<1>4. /\ us \in Seq(Tables) /\ Len(us) = m + 1 /\ us[m + 1] = t
      /\ \A n \in 1 .. m : us[n] = ts[n]
  BY <1>3, AppendProperties
<1>5. IsFunction(qs, l + 1)
  BY <1>0, <1>2 DEF IsFunction
<1>6. Rank(qs, l + 1) = Rank(rs, l) + 1 /\ Rank(rs, l) \in Nat
  <2>1. l \in Nat /\ l + 1 <= Len(qs) /\ l <= Len(qs) /\ l <= Len(rs)
    BY <1>1, <1>2
  <2>2. Rank(qs, l) = Rank(rs, l)
    BY <1>2, <2>1, RankCong
  <2> QED
    BY <1>2, <1>5, <2>1, <2>2, RankStep, RankNat
<1>7. Moves(rs, qs, ts, us)
  <2>1. Len(us) - Rank(qs, Len(qs)) = Len(ts) - Rank(rs, Len(rs))
    <3>1. PICK k \in Nat : k = Rank(rs, l) /\ Rank(qs, l + 1) = k + 1
      BY <1>6
    <3>2. (m + 1) - (k + 1) = m - k
      OBVIOUS
    <3> QED
      BY <1>1, <1>2, <1>3, <1>4, <3>1, <3>2
  <2>2. Len(qs) <= Len(rs) + 1
    BY <1>1, <1>2
  <2>3. \A i \in 1 .. Len(qs) : i <= Len(rs) => qs[i] = rs[i]
    BY <1>1, <1>2
  <2>4. \A n \in 1 .. Len(ts) : n < Len(us) => us[n] = ts[n]
    BY <1>3, <1>4
  <2> QED
    BY <2>1, <2>2, <2>3, <2>4 DEF Moves
<1>8. ASSUME NEW i \in 1 .. l, NEW j \in 1 .. i
      PROVE  Owns(qs, j, i) <=> Owns(rs, j, i)
  <2>1. \A k \in j + 1 .. i : k \in 1 .. l
    BY <1>1
  <2>2. j \in 1 .. l
    BY <1>1
  <2> QED
    BY <1>2, <2>1, <2>2 DEF Owns, IsFunction
<1>9. ASSUME NEW j \in 1 .. l + 1, Owns(qs, j, l + 1) PROVE j = l + 1
  <2>1. j # l + 1 => l + 1 \in j + 1 .. l + 1
    BY <1>1
  <2> QED
    BY <1>5, <1>9, <2>1 DEF Owns
<1>10. Owns(qs, l + 1, l + 1) /\ l + 1 \in 1 .. l + 1
  <2>1. l + 1 \in 1 .. l + 1 /\ \A k \in (l + 1) + 1 .. l + 1 : FALSE
    BY <1>1
  <2> QED
    BY <1>5, <2>1 DEF Owns
<1>11. ASSUME NEW i \in 1 .. l + 1
       PROVE  (qs[i].kind = "program" <=> i = 1) /\ \E j \in 1 .. i : Owns(qs, j, i)
  <2>1. CASE i \in 1 .. l
    BY <1>1, <1>2, <1>8, <2>1 DEF RulesNest
  <2>2. CASE i = l + 1
    <3>1. l = 0 <=> rs = <<>>
      BY <1>1, EmptySeq
    <3>2. qs[i].kind = "program" <=> i = 1
      BY <1>0, <1>1, <1>2, <2>2, <3>1
    <3> QED
      BY <1>10, <2>2, <3>2
  <2> QED
    BY <1>1, <2>1, <2>2
<1>12. RulesNest(qs, us)
  BY <1>1, <1>2, <1>3, <1>4, <1>6, <1>11 DEF RulesNest
<1> QED
  BY <1>1, <1>2, <1>3, <1>4, <1>7, <1>9, <1>12 DEF Begun

(* A rule less: that of a block, whose table stays, or that of a function. *)
LEMMA Shrink ==
  ASSUME NEW rs \in Seq(Rules), NEW ts \in Seq(Tables), RulesNest(rs, ts), rs # <<>>,
         NEW qs, qs = Inner(rs), NEW us \in Seq(Tables),
         \/ us = ts
         \/ rs[Len(rs)].kind = "block" /\ TopOnly(ts, us)
         \/ rs[Len(rs)].kind # "block" /\ us = Inner(ts)
  PROVE  /\ qs \in Seq(Rules) /\ RulesNest(qs, us) /\ Len(qs) = Len(rs) - 1
         /\ ts # <<>>
         /\ (us = ts /\ rs[Len(rs)].kind # "block") \/ Moves(rs, qs, ts, us)
         /\ rs[Len(rs)].kind = "block" =>
              /\ qs # <<>>
              /\ \A j \in 1 .. Len(qs) : Owns(qs, j, Len(qs)) =>
                   j \in 1 .. Len(rs) /\ Owns(rs, j, Len(rs))
<1>1. /\ qs \in Seq(Rules) /\ Len(qs) = Len(rs) - 1 /\ Len(rs) \in Nat \ {0}
      /\ \A i \in 1 .. Len(rs) - 1 : qs[i] = rs[i]
  <2>1. rs \in Seq(Rules) /\ rs # <<>> /\ qs = Inner(rs)
    OBVIOUS
  <2> QED
    BY <2>1, InnerRules
<1>2. PICK l \in Nat : l = Len(qs) /\ Len(rs) = l + 1 /\ DOMAIN qs = 1 .. l
                       /\ DOMAIN rs = 1 .. l + 1 /\ \A i \in 1 .. l : qs[i] = rs[i]
  BY <1>1
<1>3. PICK m \in Nat : m = Len(ts)
  OBVIOUS
<1>4. Rank(rs, l + 1) = (IF IsFunction(rs, l + 1) THEN Rank(qs, l) + 1 ELSE Rank(qs, l))
      /\ Rank(qs, l) \in Nat
  <2>1. l \in Nat /\ l + 1 <= Len(rs) /\ l <= Len(qs) /\ l <= Len(rs)
    BY <1>2
  <2>2. Rank(qs, l) = Rank(rs, l)
    BY <1>1, <1>2, <2>1, RankCong
  <2> QED
    BY <1>1, <2>1, <2>2, RankStep, RankNat
<1>5. ASSUME NEW i \in 1 .. l, NEW j \in 1 .. i
      PROVE  Owns(qs, j, i) <=> Owns(rs, j, i)
  <2>1. \A k \in j + 1 .. i : k \in 1 .. l
    BY <1>2
  <2>2. j \in 1 .. l
    BY <1>2
  <2> QED
    BY <1>2, <2>1, <2>2 DEF Owns, IsFunction
<1>6. Rank(rs, l + 1) <= m
  BY <1>2, <1>3 DEF RulesNest
<1>7. m >= 1
  <2>1. l + 1 \in 1 .. Len(rs)
    BY <1>2
  <2>2. TableNo(rs, Len(ts), l + 1) \in 1 .. m
    BY <1>3, <2>1, TableNoRange
  <2> QED
    BY <1>3, <2>2
<1>8. ts # <<>>
  BY <1>3, <1>7, EmptySeq
<1>9. /\ Len(us) = m \/ (IsFunction(rs, l + 1) /\ Len(us) = m - 1)
      /\ rs[Len(rs)].kind = "block" => Len(us) = m
      /\ (us = ts /\ rs[Len(rs)].kind # "block") \/
           /\ IsFunction(rs, l + 1) => Len(us) = m - 1
           /\ \A n \in 1 .. m : n < Len(us) => us[n] = ts[n]
  <2>1. CASE us = ts
    BY <1>2, <1>3, <2>1 DEF IsFunction
  <2>2. CASE rs[Len(rs)].kind = "block" /\ TopOnly(ts, us)
    BY <1>2, <1>3, <2>2 DEF IsFunction, TopOnly
  <2>3. CASE rs[Len(rs)].kind # "block" /\ us = Inner(ts)
    <3>1. Len(us) = m - 1 /\ \A i \in 1 .. m - 1 : us[i] = ts[i]
      BY <1>3, <1>8, <2>3, InnerSeq
    <3>2. \A n \in 1 .. m : n < m - 1 => n \in 1 .. m - 1
      BY <1>3
    <3> QED
      BY <1>2, <2>3, <3>1, <3>2 DEF IsFunction
  <2> QED
    BY <2>1, <2>2, <2>3
<1>10. (us = ts /\ rs[Len(rs)].kind # "block") \/ Moves(rs, qs, ts, us)
  <2>1. SUFFICES ASSUME ~ (us = ts /\ rs[Len(rs)].kind # "block") PROVE Moves(rs, qs, ts, us)
    OBVIOUS
  <2>2. Len(us) - Rank(qs, l) = m - Rank(rs, l + 1)
    BY <1>3, <1>4, <1>9, <2>1
  <2>3. \A i \in 1 .. l : i <= l + 1 => qs[i] = rs[i]
    BY <1>2
  <2> QED
    BY <1>2, <1>3, <1>9, <2>1, <2>2, <2>3 DEF Moves
<1>11. ASSUME NEW i \in 1 .. l
       PROVE  (qs[i].kind = "program" <=> i = 1) /\ \E j \in 1 .. i : Owns(qs, j, i)
  <2>1. i \in DOMAIN rs
    BY <1>2
  <2> QED
    BY <1>2, <1>5, <2>1 DEF RulesNest
<1>12. RulesNest(qs, us)
  <2>1. Rank(qs, l) <= Len(us)
    BY <1>3, <1>4, <1>6, <1>9
  <2> QED
    BY <1>2, <1>11, <2>1 DEF RulesNest
<1>13. ASSUME rs[Len(rs)].kind = "block"
       PROVE  /\ qs # <<>>
              /\ \A j \in 1 .. Len(qs) : Owns(qs, j, Len(qs)) =>
                   j \in 1 .. Len(rs) /\ Owns(rs, j, Len(rs))
  <2>1. l # 0
    BY <1>2, <1>13 DEF RulesNest
  <2>2. ASSUME NEW j \in 1 .. l, Owns(qs, j, l) PROVE j \in 1 .. l + 1 /\ Owns(rs, j, l + 1)
    <3>1. l \in 1 .. l /\ j \in 1 .. l + 1
      BY <1>2, <2>1
    <3>2. Owns(rs, j, l)
      BY <1>5, <2>2, <3>1
    <3>3. \A k \in j + 1 .. l + 1 : k # l + 1 => k \in j + 1 .. l
      <4>1. SUFFICES ASSUME NEW k \in j + 1 .. l + 1, k # l + 1 PROVE k \in j + 1 .. l
        OBVIOUS
      <4>2. l \in Int /\ j \in Int
        BY <1>2
      <4>3. k \in Int /\ j + 1 <= k /\ k <= l + 1
        BY <4>1, <4>2
      <4> QED
        BY <4>1, <4>2, <4>3
    <3>4. ~ IsFunction(rs, l + 1)
      BY <1>2, <1>13 DEF IsFunction
    <3> QED
      BY <3>1, <3>2, <3>3, <3>4 DEF Owns
  <2> QED
    BY <1>2, <2>1, <2>2, EmptySeq
<1> QED
  BY <1>1, <1>8, <1>10, <1>12, <1>13

(* How many blocks the last table has. *)
LEMMA LastHas ==
  ASSUME NEW rs \in Seq(Rules), NEW ts \in Seq(Tables), RulesNest(rs, ts), rs # <<>>
  PROVE  /\ ts # <<>> /\ Len(ts) \in Nat \ {0} /\ Len(rs) \in Nat \ {0}
         /\ ts[Len(ts)] \in Tables /\ Len(ts[Len(ts)].blocks) \in Nat
         /\ Nested(rs, ts) =>
              /\ \A j \in 1 .. Len(rs) : Owns(rs, j, Len(rs)) =>
                   Len(ts[Len(ts)].blocks) >= Len(rs) - j + 1
              /\ Len(ts[Len(ts)].blocks) >= 1
              /\ IsFunction(rs, Len(rs)) => rs[Len(rs)].used <= ts[Len(ts)].max
         /\ Exact(rs, ts) =>
              /\ \A j \in 1 .. Len(rs) : Owns(rs, j, Len(rs)) =>
                   Len(ts[Len(ts)].blocks) = Len(rs) - j + 1
              /\ Len(ts[Len(ts)].blocks) >= 1
              /\ IsFunction(rs, Len(rs)) => Len(ts[Len(ts)].blocks) = 1
              /\ ~ IsFunction(rs, Len(rs)) => Len(ts[Len(ts)].blocks) >= 2
<1>1. PICK l \in Nat \ {0} : l = Len(rs) /\ l \in 1 .. Len(rs) /\ l \in DOMAIN rs
  BY EmptySeq
<1>2. TableNo(rs, Len(ts), l) = Len(ts) /\ Len(ts) \in 1 .. Len(ts)
  BY <1>1, TableNoRange
<1>3. ts # <<>> /\ Len(ts) \in Nat \ {0} /\ ts[Len(ts)] \in Tables
  BY <1>2, EmptySeq
<1>4. PICK b \in Nat : b = Len(ts[Len(ts)].blocks)
  BY <1>3, TableFields
<1>5. PICK o \in 1 .. l : Owns(rs, o, l)
  BY <1>1 DEF RulesNest
<1>6. Innermost(rs, l)
  BY <1>1 DEF Innermost
<1>7. l - o + 1 >= 1 /\ (IsFunction(rs, l) => o = l) /\ (~ IsFunction(rs, l) => o # l)
  <2>1. o # l => l \in o + 1 .. l
    BY <1>1
  <2> QED
    BY <1>1, <1>5, <2>1 DEF Owns
<1>8. ASSUME Nested(rs, ts)
      PROVE  /\ \A j \in 1 .. l : Owns(rs, j, l) => b >= l - j + 1
             /\ IsFunction(rs, l) => rs[l].used <= ts[Len(ts)].max
  BY <1>1, <1>2, <1>4, <1>6, <1>8 DEF Nested
<1>9. ASSUME Exact(rs, ts) PROVE \A j \in 1 .. l : Owns(rs, j, l) => b = l - j + 1
  <2>1. ExactAt(rs, ts[Len(ts)], l)
    BY <1>1, <1>2, <1>9 DEF Exact
  <2> QED
    BY <1>1, <1>4, <1>6, <2>1 DEF ExactAt
<1>10. Nested(rs, ts) => b >= 1
  BY <1>1, <1>4, <1>5, <1>7, <1>8
<1>11. Exact(rs, ts) => b >= 1 /\ (IsFunction(rs, l) => b = 1) /\ (~ IsFunction(rs, l) => b >= 2)
  <2>1. SUFFICES ASSUME Exact(rs, ts)
                 PROVE  b >= 1 /\ (IsFunction(rs, l) => b = 1) /\ (~ IsFunction(rs, l) => b >= 2)
    OBVIOUS
  <2>2. b = l - o + 1
    BY <1>5, <1>9, <2>1
  <2> QED
    BY <1>1, <1>4, <1>7, <2>2
<1> QED
  BY <1>1, <1>3, <1>4, <1>8, <1>9, <1>10, <1>11

Keeps(rs, ts, qs, us) ==
  /\ RulesNest(qs, us)
  /\ Nested(rs, ts) => Nested(qs, us)
  /\ Exact(rs, ts) => Exact(qs, us)

(* u has the declarations of the first block of t. *)
FirstKept(t, u) ==
  Len(t.blocks) >= 1 =>
    \A x \in DOMAIN t.blocks[1] : x \in DOMAIN u.blocks[1] /\ u.blocks[1][x] = t.blocks[1][x]

LEMMA BlockBegun ==
  ASSUME NEW rs \in Seq(Rules), NEW ts \in Seq(Tables), RulesNest(rs, ts), rs # <<>>,
         NEW r \in Rules, r.kind = "block", NEW qs, qs = Append(rs, r),
         NEW u \in Tables, NEW us, us = [ts EXCEPT ![Len(ts)] = u],
         Len(u.blocks) = Len(ts[Len(ts)].blocks) + 1, u.max = ts[Len(ts)].max,
         FirstKept(ts[Len(ts)], u)
  PROVE  Keeps(rs, ts, qs, us)
<1>1. /\ ts # <<>> /\ Len(ts) \in Nat \ {0} /\ Len(rs) \in Nat \ {0}
      /\ Len(ts[Len(ts)].blocks) \in Nat /\ ts[Len(ts)] \in Tables
  BY LastHas
<1>2. us \in Seq(Tables) /\ TopOnly(ts, us) /\ us[Len(us)] = u /\ Len(us) = Len(ts)
  <2>1. ts \in Seq(Tables) /\ ts # <<>> /\ u \in Tables /\ us = [ts EXCEPT ![Len(ts)] = u]
    BY <1>1
  <2>2. /\ us \in Seq(Tables) /\ TopOnly(ts, us) /\ us[Len(ts)] = u
        /\ Len(us) = Len(ts)
    BY <2>1, SetTopOnly
  <2> QED
    BY <2>2
<1>3. /\ qs \in Seq(Rules) /\ RulesNest(qs, us) /\ Moves(rs, qs, ts, us)
      /\ Len(qs) = Len(rs) + 1 /\ ~ IsFunction(qs, Len(qs))
      /\ \A j \in 1 .. Len(qs) : Owns(qs, j, Len(qs)) =>
           j \in 1 .. Len(rs) /\ Owns(rs, j, Len(rs))
  BY <1>2, GrowBlock
<1>4. u.max \in Nat
  BY TableFields
<1>5. Nested(rs, ts) => LastNested(rs, qs, ts, us)
  <2>1. ASSUME Nested(rs, ts), NEW j \in 1 .. Len(qs), Owns(qs, j, Len(qs))
        PROVE  Len(u.blocks) >= Len(qs) - j + 1
    <3>1. Len(ts[Len(ts)].blocks) >= Len(rs) - j + 1 /\ j \in 1 .. Len(rs)
      BY <1>3, <2>1, LastHas
    <3> QED
      BY <1>1, <1>3, <3>1
  <2> QED
    BY <1>2, <1>3, <1>4, <2>1 DEF LastNested
<1>6. Exact(rs, ts) => LastExact(rs, qs, ts, us)
  <2>1. ASSUME Exact(rs, ts), NEW j \in 1 .. Len(qs), Owns(qs, j, Len(qs))
        PROVE  Len(u.blocks) = Len(qs) - j + 1
    <3>1. Len(ts[Len(ts)].blocks) = Len(rs) - j + 1 /\ j \in 1 .. Len(rs)
      BY <1>3, <2>1, LastHas
    <3> QED
      BY <1>1, <1>3, <3>1
  <2>2. Exact(rs, ts) => Len(ts[Len(ts)].blocks) >= 1
    BY LastHas
  <2> QED
    BY <1>2, <1>3, <2>1, <2>2 DEF LastExact, FirstKept
<1> QED
  BY <1>2, <1>3, <1>5, <1>6, KeepNested, KeepExact DEF Keeps

(* The end of a block; without an error it is its table's that ends. *)
LEMMA BlockEnded ==
  ASSUME NEW rs \in Seq(Rules), NEW ts \in Seq(Tables), RulesNest(rs, ts), rs # <<>>,
         rs[Len(rs)].kind = "block", NEW qs, qs = Inner(rs),
         NEW u \in Tables, NEW us, us = [ts EXCEPT ![Len(ts)] = u],
         Len(u.blocks) = Len(ts[Len(ts)].blocks) - 1, u.max = ts[Len(ts)].max,
         Len(u.blocks) >= 1 => FirstKept(ts[Len(ts)], u)
  PROVE  Keeps(rs, ts, qs, us)
<1>1. /\ ts # <<>> /\ Len(ts) \in Nat \ {0} /\ Len(rs) \in Nat \ {0}
      /\ Len(ts[Len(ts)].blocks) \in Nat /\ ts[Len(ts)] \in Tables
  BY LastHas
<1>2. us \in Seq(Tables) /\ TopOnly(ts, us) /\ us[Len(us)] = u /\ Len(us) = Len(ts)
  <2>1. ts \in Seq(Tables) /\ ts # <<>> /\ u \in Tables /\ us = [ts EXCEPT ![Len(ts)] = u]
    BY <1>1
  <2>2. /\ us \in Seq(Tables) /\ TopOnly(ts, us) /\ us[Len(ts)] = u
        /\ Len(us) = Len(ts)
    BY <2>1, SetTopOnly
  <2> QED
    BY <2>2
<1>3. /\ qs \in Seq(Rules) /\ RulesNest(qs, us) /\ Moves(rs, qs, ts, us)
      /\ Len(qs) = Len(rs) - 1
      /\ \A j \in 1 .. Len(qs) : Owns(qs, j, Len(qs)) =>
           j \in 1 .. Len(rs) /\ Owns(rs, j, Len(rs))
  BY <1>2, Shrink
<1>4. u.max \in Nat
  BY TableFields
<1>5. Nested(rs, ts) => LastNested(rs, qs, ts, us)
  <2>1. ASSUME Nested(rs, ts), NEW j \in 1 .. Len(qs), Owns(qs, j, Len(qs))
        PROVE  Len(u.blocks) >= Len(qs) - j + 1
    <3>1. Len(ts[Len(ts)].blocks) >= Len(rs) - j + 1 /\ j \in 1 .. Len(rs)
      BY <1>3, <2>1, LastHas
    <3> QED
      BY <1>1, <1>3, <3>1
  <2>2. ~ (Len(qs) > Len(rs))
    BY <1>1, <1>3
  <2>3. /\ us[Len(us)].max = u.max /\ us[Len(us)].blocks = u.blocks
        /\ ts[Len(us)].max = u.max /\ u.max <= u.max
    BY <1>2, <1>4
  <2> QED
    BY <2>1, <2>2, <2>3 DEF LastNested
<1>6. Exact(rs, ts) => LastExact(rs, qs, ts, us)
  <2>1. ASSUME Exact(rs, ts), NEW j \in 1 .. Len(qs), Owns(qs, j, Len(qs))
        PROVE  Len(u.blocks) = Len(qs) - j + 1
    <3>1. Len(ts[Len(ts)].blocks) = Len(rs) - j + 1 /\ j \in 1 .. Len(rs)
      BY <1>3, <2>1, LastHas
    <3> QED
      BY <1>1, <1>3, <3>1
  <2>2. Exact(rs, ts) => Len(ts[Len(ts)].blocks) >= 2
    <3>1. ~ IsFunction(rs, Len(rs))
      BY DEF IsFunction
    <3> QED
      BY <3>1, LastHas
  <2>3. Exact(rs, ts) => Len(u.blocks) >= 1 /\ Len(ts[Len(ts)].blocks) >= 1
    BY <1>1, <2>2
  <2>4. ~ (Len(qs) > Len(rs))
    BY <1>1, <1>3
  <2> QED
    BY <1>2, <1>3, <2>1, <2>3, <2>4 DEF LastExact, FirstKept
<1> QED
  BY <1>2, <1>3, <1>5, <1>6, KeepNested, KeepExact DEF Keeps

(* A file or a body begins. *)
LEMMA FunctionBegun ==
  ASSUME NEW rs \in Seq(Rules), NEW ts \in Seq(Tables), RulesNest(rs, ts),
         NEW r, FunctionRule(rs, r), NEW qs, qs = Append(rs, r),
         NEW u \in Tables, NEW us, us = Append(ts, u),
         Len(u.blocks) = 1, r.used = 0, HasParams(r, u)
  PROVE  Keeps(rs, ts, qs, us)
<1>1. /\ qs \in Seq(Rules) /\ us \in Seq(Tables)
      /\ RulesNest(qs, us) /\ Moves(rs, qs, ts, us)
      /\ Len(qs) = Len(rs) + 1 /\ qs[Len(qs)] = r
      /\ Len(us) = Len(ts) + 1 /\ us[Len(us)] = u
      /\ \A j \in 1 .. Len(qs) : Owns(qs, j, Len(qs)) => j = Len(qs)
  <2>1. /\ rs \in Seq(Rules) /\ ts \in Seq(Tables) /\ RulesNest(rs, ts)
        /\ FunctionRule(rs, r) /\ qs = Append(rs, r) /\ u \in Tables /\ us = Append(ts, u)
    OBVIOUS
  <2>2. Begun(rs, ts, r, u, qs, us)
    BY <2>1, GrowFunction
  <2> QED
    BY <2>2 DEF Begun
<1>2. ~ (Len(us) <= Len(ts)) /\ Len(qs) - Len(qs) + 1 = 1
  BY <1>1
<1>3. u.max \in Nat
  BY TableFields
<1>4. LastNested(rs, qs, ts, us)
  <2>1. \A j \in 1 .. Len(qs) : Owns(qs, j, Len(qs)) => Len(u.blocks) >= Len(qs) - j + 1
    BY <1>1, <1>2
  <2>2. r.used <= u.max
    BY <1>3
  <2> QED
    BY <1>1, <1>2, <2>1, <2>2 DEF LastNested
<1>5. LastExact(rs, qs, ts, us)
  <2>1. \A j \in 1 .. Len(qs) : Owns(qs, j, Len(qs)) => Len(u.blocks) = Len(qs) - j + 1
    BY <1>1, <1>2
  <2> QED
    BY <1>1, <1>2, <2>1 DEF LastExact
<1> QED
  BY <1>1, <1>4, <1>5, KeepNested, KeepExact DEF Keeps

(* The end of a function. *)
LEMMA FunctionEnded ==
  ASSUME NEW rs \in Seq(Rules), NEW ts \in Seq(Tables), RulesNest(rs, ts), rs # <<>>,
         rs[Len(rs)].kind # "block", NEW qs, qs = Inner(rs), NEW us, us = Inner(ts)
  PROVE  Keeps(rs, ts, qs, us)
<1>1. /\ ts # <<>> /\ Len(ts) \in Nat \ {0} /\ Len(rs) \in Nat \ {0}
  BY LastHas
<1>2. us \in Seq(Tables) /\ Len(us) = Len(ts) - 1 /\ \A n \in 1 .. Len(ts) - 1 : us[n] = ts[n]
  <2>1. ts \in Seq(Tables) /\ ts # <<>> /\ us = Inner(ts)
    BY <1>1
  <2> QED
    BY <2>1, InnerSeq
<1>3. /\ qs \in Seq(Rules) /\ RulesNest(qs, us) /\ Len(qs) = Len(rs) - 1
      /\ us = ts \/ Moves(rs, qs, ts, us)
  BY <1>2, Shrink
<1>4. Moves(rs, qs, ts, us)
  BY <1>1, <1>2, <1>3
<1>5. CASE qs = <<>>
  <2>1. Nested(qs, us)
    BY <1>5 DEF Nested
  <2>2. Exact(rs, ts) => Exact(qs, us)
    <3>1. Rank(qs, 0) = 0 /\ Len(qs) = 0
      BY <1>3, <1>5, RankZero
    <3>2. Exact(rs, ts) => Len(us) - 0 = 0
      <4>1. Exact(rs, ts) => Rank(rs, Len(rs)) = Len(ts)
        BY DEF Exact
      <4> QED
        BY <1>1, <1>4, <3>1, <4>1 DEF Moves
    <3> QED
      BY <1>2, <1>5, <3>1, <3>2 DEF Exact
  <2> QED
    BY <1>3, <2>1, <2>2 DEF Keeps
<1>6. CASE qs # <<>>
  <2>1. PICK l \in Nat \ {0} : l = Len(qs) /\ Len(rs) = l + 1
    BY <1>1, <1>3, <1>6, EmptySeq
  <2>2. /\ l \in 1 .. Len(qs) /\ l <= Len(rs) /\ l \in 1 .. Len(rs)
        /\ IsFunction(rs, l + 1) /\ l < Len(rs)
    BY <2>1 DEF IsFunction
  <2>3. /\ TableNo(qs, Len(us), l) = TableNo(rs, Len(ts), l)
        /\ \A j \in 1 .. l : Owns(qs, j, l) => Owns(rs, j, l)
    BY <1>2, <1>3, <1>4, <2>2, Geometry
  <2>4. TableNo(qs, Len(us), l) = Len(us) /\ Len(us) \in 1 .. Len(us)
    BY <1>2, <1>3, <2>1, <2>2, TableNoRange
  <2>5. Innermost(rs, l)
    BY <2>2 DEF Innermost
  <2>6. us[Len(us)] = ts[Len(us)] /\ us[Len(us)] \in Tables /\ ~ (Len(qs) > Len(rs))
    BY <1>1, <1>2, <2>1, <2>4
  <2>7. PICK x \in Nat : x = us[Len(us)].max
    BY <2>6, TableFields
  <2>8. Nested(rs, ts) => LastNested(rs, qs, ts, us)
    <3>1. ASSUME Nested(rs, ts), NEW j \in 1 .. l, Owns(qs, j, l)
          PROVE  Len(us[Len(us)].blocks) >= l - j + 1
      <4>1. l \in DOMAIN rs /\ Owns(rs, j, l)
        BY <2>2, <2>3, <3>1
      <4>2. Len(ts[TableNo(rs, Len(ts), l)].blocks) >= l - j + 1
        BY <2>5, <3>1, <4>1 DEF Nested
      <4> QED
        BY <2>3, <2>4, <2>6, <4>2
    <3> QED
      BY <2>1, <2>6, <2>7, <3>1 DEF LastNested
  <2>9. Exact(rs, ts) => LastExact(rs, qs, ts, us)
    <3>1. ASSUME Exact(rs, ts), NEW j \in 1 .. l, Owns(qs, j, l)
          PROVE  Len(us[Len(us)].blocks) = l - j + 1
      <4>1. ExactAt(rs, us[Len(us)], l)
        <5>1. l \in DOMAIN rs
          BY <2>2
        <5>2. ExactAt(rs, ts[TableNo(rs, Len(ts), l)], l)
          BY <3>1, <5>1 DEF Exact
        <5> QED
          BY <2>3, <2>4, <2>6, <5>2
      <4> QED
        BY <2>2, <2>3, <2>5, <3>1, <4>1 DEF ExactAt
    <3> QED
      BY <2>1, <2>6, <3>1 DEF LastExact
  <2> QED
    BY <1>2, <1>3, <1>4, <2>8, <2>9, KeepNested, KeepExact DEF Keeps
<1> QED
  BY <1>5, <1>6

(* An error ends a rule: the last function keeps its table. *)
LEMMA RuleLost ==
  ASSUME NEW rs \in Seq(Rules), NEW ts \in Seq(Tables), RulesNest(rs, ts), rs # <<>>,
         NEW qs, qs = Inner(rs)
  PROVE  /\ qs \in Seq(Rules) /\ RulesNest(qs, ts) /\ ts # <<>>
         /\ rs[Len(rs)].kind # "body" /\ Nested(rs, ts) => Nested(qs, ts)
<1>1. /\ ts # <<>> /\ Len(ts) \in Nat \ {0} /\ Len(rs) \in Nat \ {0}
      /\ Len(ts[Len(ts)].blocks) \in Nat /\ ts[Len(ts)] \in Tables
  BY LastHas
<1>2. /\ qs \in Seq(Rules) /\ RulesNest(qs, ts) /\ Len(qs) = Len(rs) - 1
      /\ rs[Len(rs)].kind # "block" \/ Moves(rs, qs, ts, ts)
      /\ rs[Len(rs)].kind = "block" =>
           /\ qs # <<>>
           /\ \A j \in 1 .. Len(qs) : Owns(qs, j, Len(qs)) =>
                j \in 1 .. Len(rs) /\ Owns(rs, j, Len(rs))
  BY Shrink
<1>3. CASE rs[Len(rs)].kind = "block"
  <2>1. ASSUME Nested(rs, ts), NEW j \in 1 .. Len(qs), Owns(qs, j, Len(qs))
        PROVE  Len(ts[Len(ts)].blocks) >= Len(qs) - j + 1
    <3>1. Len(ts[Len(ts)].blocks) >= Len(rs) - j + 1 /\ j \in 1 .. Len(rs)
      BY <1>2, <1>3, <2>1, LastHas
    <3> QED
      BY <1>1, <1>2, <3>1
  <2>2. ~ (Len(qs) > Len(rs)) /\ ts[Len(ts)].max \in Nat
    BY <1>1, <1>2, TableFields
  <2>3. Nested(rs, ts) => LastNested(rs, qs, ts, ts)
    BY <2>1, <2>2 DEF LastNested
  <2> QED
    BY <1>1, <1>2, <1>3, <2>3, KeepNested
<1>4. CASE rs[Len(rs)].kind = "program"
  <2>1. Len(rs) = 1
    <3>1. Len(rs) \in DOMAIN rs
      BY <1>1
    <3> QED
      BY <1>4, <3>1 DEF RulesNest
  <2>2. Len(qs) = 0
    BY <1>2, <2>1
  <2>3. Nested(qs, ts)
    BY <1>2, <2>2 DEF Nested
  <2> QED
    BY <1>1, <1>2, <2>3
<1>5. rs[Len(rs)].kind \in {"program", "body", "block"}
  <2>1. rs[Len(rs)] \in Rules
    BY <1>1
  <2> QED
    BY <2>1 DEF Rules
<1> QED
  BY <1>1, <1>2, <1>3, <1>4, <1>5

(* Declarations in the last table. *)
LEMMA TableChanged ==
  ASSUME NEW rs \in Seq(Rules), NEW ts \in Seq(Tables), RulesNest(rs, ts), rs # <<>>,
         NEW u \in Tables, NEW us, us = [ts EXCEPT ![Len(ts)] = u],
         Len(u.blocks) = Len(ts[Len(ts)].blocks), ts[Len(ts)].max <= u.max,
         FirstKept(ts[Len(ts)], u)
  PROVE  Keeps(rs, ts, rs, us)
<1>1. /\ ts # <<>> /\ Len(ts) \in Nat \ {0} /\ Len(rs) \in Nat \ {0}
      /\ Len(ts[Len(ts)].blocks) \in Nat /\ ts[Len(ts)] \in Tables
  BY LastHas
<1>2. us \in Seq(Tables) /\ TopOnly(ts, us) /\ us[Len(us)] = u /\ Len(us) = Len(ts)
  <2>1. ts \in Seq(Tables) /\ ts # <<>> /\ u \in Tables /\ us = [ts EXCEPT ![Len(ts)] = u]
    BY <1>1
  <2>2. /\ us \in Seq(Tables) /\ TopOnly(ts, us) /\ us[Len(ts)] = u
        /\ Len(us) = Len(ts)
    BY <2>1, SetTopOnly
  <2> QED
    BY <2>2
<1>3. Moves(rs, rs, ts, us) /\ RulesNest(rs, us) /\ ~ (Len(rs) > Len(rs))
  <2>1. RulesNest(rs, us)
    BY <1>2 DEF RulesNest
  <2>2. Moves(rs, rs, ts, us)
    <3>1. Len(rs) <= Len(rs) + 1
      BY <1>1
    <3> QED
      BY <1>2, <3>1 DEF Moves, TopOnly
  <2> QED
    BY <1>1, <2>1, <2>2
<1>4. Nested(rs, ts) => LastNested(rs, rs, ts, us)
  BY <1>2, <1>3, LastHas DEF LastNested
<1>5. Exact(rs, ts) => LastExact(rs, rs, ts, us)
  BY <1>2, <1>3, LastHas DEF LastExact, FirstKept
<1> QED
  BY <1>2, <1>3, <1>4, <1>5, KeepNested, KeepExact DEF Keeps

(* The innermost function uses more slots of its table. *)
LEMMA UsedMore ==
  ASSUME NEW rs \in Seq(Rules), NEW ts \in Seq(Tables), RulesNest(rs, ts), rs # <<>>,
         NEW f \in 1 .. Len(rs), Owns(rs, f, Len(rs)),
         NEW n \in Nat, n <= rs[f].used \/ n <= ts[Len(ts)].max,
         NEW qs, qs = [rs EXCEPT ![f].used = n]
  PROVE  qs \in Seq(Rules) /\ qs # <<>> /\ Keeps(rs, ts, qs, ts)
<1>1. PICK l \in Nat \ {0} : l = Len(rs) /\ DOMAIN rs = 1 .. l
  BY EmptySeq
<1>2. PICK e : e = [rs[f] EXCEPT !.used = n]
  OBVIOUS
<1>3. rs[f] \in Rules
  BY <1>1
<1>4. e \in Rules /\ e.kind = rs[f].kind /\ e.params = rs[f].params /\ e.used = n
  BY <1>2, <1>3 DEF Rules
<1>5. /\ qs \in Seq(Rules) /\ Len(qs) = l /\ DOMAIN qs = 1 .. l
      /\ \A i \in 1 .. l : qs[i] = IF i = f THEN e ELSE rs[i]
  <2>1. qs = [rs EXCEPT ![f] = e]
    BY <1>2
  <2> QED
    BY <1>1, <1>4, <2>1, ExceptSeq
<1>6. \A i \in 1 .. l : /\ qs[i].kind = rs[i].kind /\ qs[i].params = rs[i].params
                        /\ i # f => qs[i].used = rs[i].used
  BY <1>4, <1>5
<1>7. qs[f].used = n
  BY <1>1, <1>4, <1>5
<1>8. \A i \in 1 .. l : IsFunction(qs, i) <=> IsFunction(rs, i)
  BY <1>6 DEF IsFunction
<1>9. ASSUME NEW i \in 1 .. l PROVE Rank(qs, i) = Rank(rs, i)
  <2>1. i \in Nat /\ i <= l /\ \A k \in 1 .. i : k \in 1 .. l
    BY <1>1
  <2>2. \A k \in 1 .. i : qs[k].kind = rs[k].kind
    BY <1>6, <2>1
  <2>3. i <= Len(rs) /\ i <= Len(qs)
    BY <1>1, <1>5, <2>1
  <2> QED
    BY <1>5, <2>1, <2>2, <2>3, RankCong
<1>10. l \in 1 .. l
  BY <1>1
<1>11. ASSUME NEW i \in 1 .. l, NEW j \in 1 .. i PROVE Owns(qs, j, i) <=> Owns(rs, j, i)
  <2>1. j \in 1 .. l /\ \A k \in j + 1 .. i : k \in 1 .. l
    BY <1>1
  <2> QED
    BY <1>8, <2>1 DEF Owns
<1>12. ASSUME NEW i \in 1 .. l PROVE Innermost(qs, i) => Innermost(rs, i)
  <2>1. i # l => i + 1 \in 1 .. l
    BY <1>1
  <2> QED
    BY <1>1, <1>5, <1>8, <2>1 DEF Innermost
<1>13. \A i \in 1 .. l : TableNo(qs, Len(ts), i) = TableNo(rs, Len(ts), i)
  BY <1>1, <1>5, <1>9, <1>10 DEF TableNo
<1>14. TableNo(rs, Len(ts), f) = Len(ts)
  <2>1. l \in DOMAIN rs /\ f \in 1 .. l
    BY <1>1
  <2>2. Rank(rs, f) = Rank(rs, l)
    BY <1>1, <2>1, RankOwner
  <2>3. TableNo(rs, Len(ts), l) = Len(ts)
    BY <1>1, <2>1, TableNoRange
  <2> QED
    BY <1>1, <2>2, <2>3 DEF TableNo
<1>15. RulesNest(qs, ts)
  <2>1. Rank(qs, l) <= Len(ts)
    BY <1>1, <1>9, <1>10 DEF RulesNest
  <2>2. ASSUME NEW i \in 1 .. l
        PROVE  (qs[i].kind = "program" <=> i = 1) /\ \E j \in 1 .. i : Owns(qs, j, i)
    BY <1>1, <1>6, <1>11 DEF RulesNest
  <2> QED
    BY <1>5, <2>1, <2>2 DEF RulesNest
<1>16. ASSUME Nested(rs, ts) PROVE Nested(qs, ts)
  <2>1. ASSUME NEW i \in 1 .. l, NEW t, t = ts[TableNo(rs, Len(ts), i)]
        PROVE  /\ IsFunction(qs, i) => qs[i].used <= t.max
               /\ Innermost(qs, i) =>
                    \A j \in 1 .. i : Owns(qs, j, i) => Len(t.blocks) >= i - j + 1
    <3>1. /\ IsFunction(rs, i) => rs[i].used <= t.max
          /\ Innermost(rs, i) =>
               \A j \in 1 .. i : Owns(rs, j, i) => Len(t.blocks) >= i - j + 1
      BY <1>1, <1>16, <2>1 DEF Nested
    <3>2. CASE i = f
      <4>1. t = ts[Len(ts)] /\ t \in Tables
        BY <1>14, <2>1, <3>2, LastHas
      <4>2. t.max \in Nat /\ rs[f].used \in Nat
        BY <1>3, <4>1, TableFields DEF Rules
      <4>3. IsFunction(rs, i) => n <= t.max
        BY <3>1, <3>2, <4>1, <4>2
      <4> QED
        BY <1>7, <1>8, <1>11, <1>12, <3>1, <3>2, <4>3
    <3>3. CASE i # f
      BY <1>6, <1>8, <1>11, <1>12, <3>1, <3>3
    <3> QED
      BY <3>2, <3>3
  <2> QED
    BY <1>5, <1>13, <2>1 DEF Nested
<1>17. ASSUME Exact(rs, ts) PROVE Exact(qs, ts)
  <2>1. ASSUME NEW i \in 1 .. l, NEW t, t = ts[TableNo(rs, Len(ts), i)]
        PROVE  ExactAt(qs, t, i)
    <3>1. ExactAt(rs, t, i)
      BY <1>1, <1>17, <2>1 DEF Exact
    <3>2. HasParams(rs[i], t) => HasParams(qs[i], t)
      BY <1>6 DEF HasParams
    <3> QED
      BY <1>8, <1>11, <1>12, <3>1, <3>2 DEF ExactAt
  <2>2. Rank(qs, Len(qs)) = Len(ts)
    BY <1>1, <1>5, <1>9, <1>10, <1>17 DEF Exact
  <2> QED
    BY <1>5, <1>13, <2>1, <2>2 DEF Exact
<1> QED
  BY <1>1, <1>5, <1>15, <1>16, <1>17, EmptySeq DEF Keeps

(* A name has at most one slot, below the table's count. *)
LEMMA SlotsOne ==
  ASSUME NEW t \in Tables, Packed(t), NEW name
  PROVE  /\ \A s \in Slots(t, name) : s \in 0 .. t.cur - 1
         /\ \A s, r \in Slots(t, name) : s = r
<1> DEFINE J == {j \in DOMAIN t.blocks : /\ name \in DOMAIN t.blocks[j]
                                         /\ \A k \in j + 1 .. Len(t.blocks) :
                                              name \notin DOMAIN t.blocks[k]}
<1>1. \A s \in Slots(t, name) : \E j \in J : s = t.blocks[j][name]
  BY DEF Slots
<1>2. PICK l \in Nat : l = Len(t.blocks) /\ DOMAIN t.blocks = 1 .. l
  BY TableFields
<1>3. ASSUME NEW i \in J, NEW j \in J PROVE i = j
  <2>1. i \in 1 .. l /\ j \in 1 .. l
    BY <1>2
  <2>2. i < j => j \in i + 1 .. l
    BY <1>2, <2>1
  <2>3. j < i => i \in j + 1 .. l
    BY <1>2, <2>1
  <2>4. ~ (i < j) /\ ~ (j < i)
    BY <1>2, <2>2, <2>3
  <2> QED
    BY <1>2, <2>1, <2>4
<1>4. \A j \in J : t.blocks[j][name] \in 0 .. t.cur - 1
  BY <1>2, SlotBound
<1> QED
  BY <1>1, <1>3, <1>4

LEMMA UsesStep ==
  ASSUME rules \in Seq(Rules), rules # <<>>, NEW ts \in Seq(Tables), RulesNest(rules, ts),
         NEW t, t = ts[Len(ts)], Packed(t), NEW name, Uses(t, name)
  PROVE  rules' \in Seq(Rules) /\ rules' # <<>> /\ Keeps(rules, ts, rules', ts)
<1>1. PICK l \in Nat \ {0} : l = Len(rules) /\ DOMAIN rules = 1 .. l /\ l \in 1 .. l
  BY EmptySeq
<1>2. PICK f : f = Function
  OBVIOUS
<1>3. f \in 1 .. l /\ Owns(rules, f, l)
  <2>1. PICK j \in 1 .. l : Owns(rules, j, l)
    BY <1>1 DEF RulesNest
  <2>2. /\ j \in DOMAIN rules /\ rules[j].kind # "block"
        /\ \A k \in j + 1 .. Len(rules) : rules[k].kind = "block"
    BY <1>1, <2>1 DEF Owns, IsFunction
  <2>3. /\ f \in DOMAIN rules /\ rules[f].kind # "block"
        /\ \A k \in f + 1 .. Len(rules) : rules[k].kind = "block"
    BY <1>2, <2>2 DEF Function
  <2> QED
    BY <1>1, <2>3 DEF Owns, IsFunction
<1>4. t \in Tables
  BY LastHas
<1>5. PICK u \in Nat : u = rules[f].used
  <2>1. rules[f] \in Rules
    BY <1>1, <1>3
  <2> QED
    BY <2>1 DEF Rules
<1> DEFINE C == {u} \cup {s + 1 : s \in Slots(t, name)}
           n == CHOOSE k \in C : k >= u /\ \A s \in Slots(t, name) : k > s
<1>6. rules' = [rules EXCEPT ![f].used = n]
  BY <1>2, <1>5 DEF Uses
<1>7. PICK c \in Nat : c = t.cur /\ c <= t.max
  BY <1>4, TableFields DEF Packed
<1>8. \A s \in Slots(t, name) : s \in 0 .. c - 1 /\ \A r \in Slots(t, name) : r = s
  BY <1>4, <1>7, SlotsOne
<1>9. \E k \in C : k >= u /\ \A s \in Slots(t, name) : k > s
  <2>1. CASE \A s \in Slots(t, name) : u > s
    BY <1>5, <2>1
  <2>2. CASE \E s \in Slots(t, name) : ~ (u > s)
    <3>1. PICK s \in Slots(t, name) : ~ (u > s)
      BY <2>2
    <3>2. s \in Nat /\ s + 1 >= u /\ s + 1 > s
      BY <1>5, <1>7, <1>8, <3>1
    <3>3. s + 1 \in C
      OBVIOUS
    <3> QED
      BY <1>8, <3>1, <3>2, <3>3
  <2> QED
    BY <2>1, <2>2
<1>10. n = u \/ \E s \in Slots(t, name) : n = s + 1
  <2>1. n \in C
    BY <1>9
  <2> QED
    BY <2>1
<1> HIDE DEF n, C
<1>11. n \in Nat /\ (n <= u \/ n <= t.max)
  <2>1. CASE n = u
    BY <1>5, <2>1
  <2>2. CASE \E s \in Slots(t, name) : n = s + 1
    <3>1. PICK s \in 0 .. c - 1 : n = s + 1
      BY <1>8, <2>2
    <3>2. t.max \in Nat
      BY <1>4, TableFields
    <3> QED
      BY <1>7, <3>1, <3>2
  <2> QED
    BY <1>10, <2>1, <2>2
<1> QED
  BY <1>1, <1>3, <1>5, <1>6, <1>11, UsedMore

-----------------------------------------------------------------------------
(* Steps. *)

Kinds == {"program", "body", "block"}
Inv   == s_tables \in Seq(Tables) /\ IInv

LEMMA InvFacts ==
  ASSUME Inv
  PROVE  /\ s_tables \in Seq(Tables) /\ rules \in Seq(Rules) /\ errors \in Seq(Kinds)
         /\ phase \in Phase /\ RulesNest(rules, s_tables)
         /\ \A k \in 1 .. Len(s_tables) : Packed(s_tables[k])
         /\ phase = "idle" => rules = <<>>
         /\ phase = "parse" =>
              /\ rules # <<>> /\ s_tables # <<>> /\ topTable \in Tables /\ Packed(topTable)
              /\ Len(rules) \in Nat \ {0} /\ Len(s_tables) \in Nat \ {0}
              /\ topTable = s_tables[Len(s_tables)]
<1>1. /\ s_tables \in Seq(Tables) /\ rules \in Seq(Rules) /\ errors \in Seq(Kinds)
      /\ phase \in Phase /\ RulesNest(rules, s_tables)
      /\ phase = "idle" => rules = <<>>
      /\ phase = "parse" => rules # <<>> /\ s_tables # <<>>
  BY DEF Inv, IInv, TypeOK, Kinds
<1>2. \A k \in 1 .. Len(s_tables) : Packed(s_tables[k])
  BY <1>1 DEF Inv, IInv
<1>3. s_tables # <<>> => Len(s_tables) \in Nat \ {0} /\ Len(s_tables) \in 1 .. Len(s_tables)
  BY <1>1, EmptySeq
<1>4. rules # <<>> => Len(rules) \in Nat \ {0}
  BY <1>1, EmptySeq
<1> QED
  BY <1>1, <1>2, <1>3, <1>4 DEF topTable

LEMMA IsTables ==
  ASSUME NEW t \in Tables
  PROVE  IsTable(t)
<1>1. DOMAIN t = {"blocks", "cur", "max"}
  BY DEF Tables
<1> QED
  BY <1>1, TableFields DEF IsTable

(* What is left to show of a step. *)
LEMMA MakeInv ==
  ASSUME s_tables' \in Seq(Tables), rules' \in Seq(Rules), errors' \in Seq(Kinds),
         phase' \in Phase,
         phase' = "parse" => rules' # <<>> /\ s_tables' # <<>>,
         phase' = "idle" => rules' = <<>>,
         \A k \in 1 .. Len(s_tables') : Packed(s_tables'[k]),
         RulesNest(rules', s_tables'),
         (\A i \in DOMAIN errors' : errors'[i] # "body") => Nested(rules', s_tables'),
         errors' = <<>> => Exact(rules', s_tables'),
         AssertionsHold'
  PROVE  Inv'
<1>1. \A k \in DOMAIN s_tables' : s_tables'[k] \in Tables /\ Packed(s_tables'[k])
  OBVIOUS
<1>2. \A k \in DOMAIN s_tables' : IsTable(s_tables'[k])
  BY <1>1, IsTables
<1>3. TypeOK'
  BY <1>2 DEF TypeOK, Kinds
<1> QED
  BY <1>1, <1>3 DEF Inv, IInv

(* Steps that keep tables and rules together. *)
LEMMA KeepsInv ==
  ASSUME Inv, UNCHANGED errors,
         s_tables' \in Seq(Tables), rules' \in Seq(Rules),
         \A k \in 1 .. Len(s_tables') : Packed(s_tables'[k]),
         Keeps(rules, s_tables, rules', s_tables'),
         phase' = IF rules' = <<>> THEN "idle" ELSE "parse"
  PROVE  Inv'
<1>1. rules' # <<>> => s_tables' # <<>>
  BY LastHas DEF Keeps
<1>2. AssertionsHold' /\ phase' \in Phase
  BY DEF AssertionsHold, Phase
<1>3. /\ (\A i \in DOMAIN errors : errors[i] # "body") => Nested(rules, s_tables)
      /\ errors = <<>> => Exact(rules, s_tables)
      /\ errors \in Seq(Kinds)
  BY InvFacts DEF Inv, IInv
<1> QED
  BY <1>1, <1>2, <1>3, MakeInv DEF Keeps

(* Steps that end the parser. *)
LEMMA StopInv ==
  ASSUME Inv, UNCHANGED <<s_tables, rules, errors>>,
         phase' \in {"failed", "assertion", "undefined"}, AssertionsHold'
  PROVE  Inv'
BY DEF Inv, IInv, TypeOK, Phase

LEMMA AppendPacked ==
  ASSUME NEW ts \in Seq(Tables), \A k \in 1 .. Len(ts) : Packed(ts[k]),
         NEW t \in Tables, Packed(t), NEW us, us = Append(ts, t)
  PROVE  us \in Seq(Tables) /\ \A k \in 1 .. Len(us) : Packed(us[k])
<1>1. PICK m \in Nat : m = Len(ts)
  OBVIOUS
<1>2. /\ us \in Seq(Tables) /\ Len(us) = m + 1 /\ us[m + 1] = t
      /\ \A n \in 1 .. m : us[n] = ts[n]
  BY <1>1, AppendProperties
<1>3. \A n \in 1 .. m + 1 : n \in 1 .. m \/ n = m + 1
  BY <1>1
<1> QED
  BY <1>1, <1>2, <1>3

LEMMA SetTopPacked ==
  ASSUME NEW ts \in Seq(Tables), \A k \in 1 .. Len(ts) : Packed(ts[k]), ts # <<>>,
         NEW t \in Tables, Packed(t), NEW us, us = [ts EXCEPT ![Len(ts)] = t]
  PROVE  us \in Seq(Tables) /\ \A k \in 1 .. Len(us) : Packed(us[k])
<1>1. PICK l \in Nat \ {0} : l = Len(ts) /\ l \in 1 .. l
  BY EmptySeq
<1>2. us \in Seq(Tables) /\ Len(us) = l /\ \A i \in 1 .. l : us[i] = IF i = l THEN t ELSE ts[i]
  BY <1>1, ExceptSeq
<1> QED
  BY <1>1, <1>2

LEMMA InitInv == ASSUME Init PROVE Inv
<1>1. s_tables = <<>> /\ rules = <<>> /\ errors = <<>> /\ phase = "idle"
  BY DEF Init
<1>2. s_tables \in Seq(Tables) /\ rules \in Seq(Rules) /\ errors \in Seq(Kinds)
      /\ Len(s_tables) = 0 /\ Len(rules) = 0 /\ DOMAIN s_tables = {} /\ DOMAIN rules = {}
  BY <1>1
<1>3. Rank(rules, 0) = 0
  BY <1>2, RankZero
<1>4. RulesNest(rules, s_tables) /\ Nested(rules, s_tables) /\ Exact(rules, s_tables)
  BY <1>2, <1>3 DEF RulesNest, Nested, Exact
<1>5. TypeOK /\ AssertionsHold
  BY <1>1, <1>2 DEF TypeOK, AssertionsHold, Phase, Kinds
<1> QED
  BY <1>1, <1>2, <1>4, <1>5 DEF Inv, IInv

LEMMA RuleIs ==
  ASSUME NEW kind \in Kinds, NEW params \in Seq(Name)
  PROVE  /\ Rule(kind, params) \in Rules /\ Rule(kind, params).kind = kind
         /\ Rule(kind, params).params = params /\ Rule(kind, params).used = 0
BY DEF Rule, Rules, Kinds

LEMMA AppendNonempty ==
  ASSUME NEW S, NEW s \in Seq(S), NEW e \in S
  PROVE  Append(s, e) \in Seq(S) /\ Append(s, e) # <<>>
<1>1. Append(s, e) \in Seq(S) /\ Len(Append(s, e)) = Len(s) + 1 /\ Len(s) \in Nat
  BY AppendProperties
<1> QED
  BY <1>1, EmptySeq

LEMMA BeginProgramStep == ASSUME Inv, BeginProgram PROVE Inv'
<1>1. PICK r : r = Rule("program", <<>>)
  OBVIOUS
<1>2. /\ r \in Rules /\ r.kind = "program" /\ r.params = <<>> /\ r.used = 0
  <2>1. "program" \in Kinds /\ <<>> \in Seq(Name)
    BY DEF Kinds
  <2> QED
    BY <1>1, <2>1, RuleIs
<1>3. /\ s_tables \in Seq(Tables) /\ rules \in Seq(Rules) /\ rules = <<>>
      /\ RulesNest(rules, s_tables) /\ \A k \in 1 .. Len(s_tables) : Packed(s_tables[k])
  BY InvFacts DEF BeginProgram
<1>4. /\ s_tables' = Append(s_tables, NewTable) /\ phase' = "parse" /\ UNCHANGED errors
  BY DEF BeginProgram
<1>5. rules' = Append(rules, r)
  BY <1>1, <1>3 DEF BeginProgram
<1>6. s_tables' \in Seq(Tables) /\ \A k \in 1 .. Len(s_tables') : Packed(s_tables'[k])
  BY <1>3, <1>4, NewTablePacked, AppendPacked
<1>7. rules' \in Seq(Rules) /\ rules' # <<>>
  BY <1>2, <1>3, <1>5, AppendNonempty
<1>8. FunctionRule(rules, r) /\ HasParams(r, NewTable) /\ r.used = 0
  BY <1>2, <1>3 DEF FunctionRule, HasParams
<1>9. Keeps(rules, s_tables, rules', s_tables')
  BY <1>3, <1>4, <1>5, <1>8, NewTablePacked, FunctionBegun
<1> QED
  BY <1>4, <1>6, <1>7, <1>9, KeepsInv

LEMMA BeginBlockStep == ASSUME Inv, BeginBlock PROVE Inv'
<1>1. PICK r : r = Rule("block", <<>>)
  OBVIOUS
<1>2. r \in Rules /\ r.kind = "block"
  <2>1. "block" \in Kinds /\ <<>> \in Seq(Name)
    BY DEF Kinds
  <2> QED
    BY <1>1, <2>1, RuleIs
<1>3. phase = "parse"
  BY DEF BeginBlock, Parsing
<1>4. /\ s_tables \in Seq(Tables) /\ rules \in Seq(Rules)
      /\ RulesNest(rules, s_tables) /\ \A k \in 1 .. Len(s_tables) : Packed(s_tables[k])
      /\ rules # <<>> /\ s_tables # <<>> /\ topTable \in Tables /\ Packed(topTable)
      /\ topTable = s_tables[Len(s_tables)]
  BY <1>3, InvFacts
<1>5. PICK t \in Tables : t = s_tables[Len(s_tables)] /\ Packed(t)
  BY <1>4
<1>6. PICK u : u = pushBlock(t)
  OBVIOUS
<1>7. /\ u \in Tables /\ Packed(u) /\ u.max = t.max /\ Len(u.blocks) = Len(t.blocks) + 1
      /\ \A i \in 1 .. Len(t.blocks) : u.blocks[i] = t.blocks[i]
  BY <1>5, <1>6, PushPacked
<1>8. /\ s_tables' = [s_tables EXCEPT ![Len(s_tables)] = u] /\ phase' = "parse"
      /\ UNCHANGED errors /\ rules' = Append(rules, r)
  BY <1>1, <1>3, <1>4, <1>5, <1>6 DEF BeginBlock, SetTop
<1>9. s_tables' \in Seq(Tables) /\ \A k \in 1 .. Len(s_tables') : Packed(s_tables'[k])
  BY <1>4, <1>7, <1>8, SetTopPacked
<1>10. rules' \in Seq(Rules) /\ rules' # <<>>
  BY <1>2, <1>4, <1>8, AppendNonempty
<1>11. FirstKept(t, u)
  <2>1. Len(t.blocks) \in Nat /\ (Len(t.blocks) >= 1 => 1 \in 1 .. Len(t.blocks))
    BY TableFields
  <2> QED
    BY <1>7, <2>1 DEF FirstKept
<1>12. Keeps(rules, s_tables, rules', s_tables')
  BY <1>2, <1>4, <1>5, <1>7, <1>8, <1>11, BlockBegun
<1> QED
  BY <1>8, <1>9, <1>10, <1>12, KeepsInv

LEMMA EndBlockStep == ASSUME Inv, EndBlock PROVE Inv'
<1>1. phase = "parse" /\ rules[Len(rules)].kind = "block" /\ topTable.blocks # <<>>
  BY DEF EndBlock, In, Parsing, Usable
<1>2. /\ s_tables \in Seq(Tables) /\ rules \in Seq(Rules)
      /\ RulesNest(rules, s_tables) /\ \A k \in 1 .. Len(s_tables) : Packed(s_tables[k])
      /\ rules # <<>> /\ s_tables # <<>> /\ topTable \in Tables /\ Packed(topTable)
      /\ topTable = s_tables[Len(s_tables)]
  BY <1>1, InvFacts
<1>3. PICK t \in Tables : t = s_tables[Len(s_tables)] /\ Packed(t) /\ t.blocks # <<>>
  BY <1>1, <1>2
<1>4. PICK u : u = popBlock(t)
  OBVIOUS
<1>5. /\ u \in Tables /\ Packed(u) /\ u.max = t.max /\ Len(u.blocks) = Len(t.blocks) - 1
      /\ \A i \in 1 .. Len(t.blocks) - 1 : u.blocks[i] = t.blocks[i]
  BY <1>3, <1>4, PopPacked
<1>6. /\ s_tables' = [s_tables EXCEPT ![Len(s_tables)] = u] /\ phase' = "parse"
      /\ UNCHANGED errors /\ rules' = Inner(rules)
  BY <1>1, <1>2, <1>3, <1>4 DEF EndBlock, SetTop
<1>7. s_tables' \in Seq(Tables) /\ \A k \in 1 .. Len(s_tables') : Packed(s_tables'[k])
  BY <1>2, <1>5, <1>6, SetTopPacked
<1>8. rules' \in Seq(Rules) /\ rules' # <<>>
  BY <1>1, <1>2, <1>6, Shrink
<1>9. Len(u.blocks) >= 1 => FirstKept(t, u)
  <2>1. Len(t.blocks) \in Nat /\ (Len(u.blocks) >= 1 => 1 \in 1 .. Len(t.blocks) - 1)
    BY <1>5, TableFields
  <2> QED
    BY <1>5, <2>1 DEF FirstKept
<1>10. Keeps(rules, s_tables, rules', s_tables')
  BY <1>1, <1>2, <1>3, <1>5, <1>6, <1>9, BlockEnded
<1> QED
  BY <1>6, <1>7, <1>8, <1>10, KeepsInv

LEMMA BeginBodyStep ==
  ASSUME Inv, NEW params \in Seq(Name), BeginBody(params)
  PROVE  Inv'
<1>1. PICK r : r = Rule("body", params)
  OBVIOUS
<1>2. r \in Rules /\ r.kind = "body" /\ r.params = params /\ r.used = 0
  <2>1. "body" \in Kinds
    BY DEF Kinds
  <2> QED
    BY <1>1, <2>1, RuleIs
<1>3. phase = "parse"
  BY DEF BeginBody, Parsing
<1>4. /\ s_tables \in Seq(Tables) /\ rules \in Seq(Rules) /\ rules # <<>>
      /\ RulesNest(rules, s_tables) /\ \A k \in 1 .. Len(s_tables) : Packed(s_tables[k])
  BY <1>3, InvFacts
<1>5. PICK t : t = NewTable
  OBVIOUS
<1>6. t \in Tables /\ Packed(t) /\ Len(t.blocks) = 1 /\ t.blocks # <<>> /\ t.cur = 0
  <2>1. t \in Tables /\ Packed(t) /\ Len(t.blocks) = 1
    BY <1>5, NewTablePacked
  <2>2. t.blocks # <<>>
    BY <1>5, NewTableBlocks
  <2> QED
    BY <1>5, <2>1, <2>2 DEF NewTable
<1>7. PICK u : u = declare(t, params)
  OBVIOUS
<1>8. Declarable(t, params)
  BY <1>5 DEF BeginBody
<1>9. /\ u \in Tables /\ Packed(u) /\ Len(u.blocks) = Len(t.blocks)
      /\ \A i \in 1 .. Len(params) :
           /\ params[i] \in DOMAIN u.blocks[Len(t.blocks)]
           /\ u.blocks[Len(t.blocks)][params[i]] = t.cur + i - 1
  BY <1>6, <1>7, <1>8, DeclarePacked
<1>10. /\ s_tables' = Append(s_tables, u) /\ rules' = Append(rules, r)
       /\ phase' = "parse" /\ UNCHANGED errors
  BY <1>1, <1>3, <1>5, <1>7 DEF BeginBody
<1>11. s_tables' \in Seq(Tables) /\ \A k \in 1 .. Len(s_tables') : Packed(s_tables'[k])
  BY <1>4, <1>9, <1>10, AppendPacked
<1>12. rules' \in Seq(Rules) /\ rules' # <<>>
  BY <1>2, <1>4, <1>10, AppendNonempty
<1>13. FunctionRule(rules, r)
  BY <1>2, <1>4 DEF FunctionRule
<1>14. HasParams(r, u)
  <2>1. \A i \in 1 .. Len(params) : 0 + i - 1 = i - 1
    OBVIOUS
  <2>2. DOMAIN r.params = 1 .. Len(params)
    BY <1>2
  <2> QED
    BY <1>2, <1>6, <1>9, <2>1, <2>2 DEF HasParams
<1>15. Len(u.blocks) = 1
  BY <1>6, <1>9
<1>16. Keeps(rules, s_tables, rules', s_tables')
  BY <1>2, <1>4, <1>9, <1>10, <1>13, <1>14, <1>15, FunctionBegun
<1> QED
  BY <1>10, <1>11, <1>12, <1>16, KeepsInv

(* Declarations in the last table, of the same rules. *)
LEMMA Declares ==
  ASSUME Inv, phase = "parse", topTable.blocks # <<>>, NEW names \in Seq(Name),
         Declarable(topTable, names),
         NEW us, us = SetTop(declare(topTable, names))
  PROVE  /\ us \in Seq(Tables) /\ \A k \in 1 .. Len(us) : Packed(us[k])
         /\ Len(us) = Len(s_tables) /\ Keeps(rules, s_tables, rules, us)
         /\ us[Len(us)] = declare(topTable, names)
<1>1. /\ s_tables \in Seq(Tables) /\ rules \in Seq(Rules)
      /\ RulesNest(rules, s_tables) /\ \A k \in 1 .. Len(s_tables) : Packed(s_tables[k])
      /\ rules # <<>> /\ s_tables # <<>> /\ topTable \in Tables /\ Packed(topTable)
      /\ topTable = s_tables[Len(s_tables)]
  BY InvFacts
<1>2. PICK t \in Tables : t = s_tables[Len(s_tables)] /\ Packed(t) /\ t.blocks # <<>>
                          /\ t = topTable
  BY <1>1
<1>3. PICK u : u = declare(t, names)
  OBVIOUS
<1>4. Declarable(t, names)
  BY <1>2
<1>5. /\ u \in Tables /\ Packed(u) /\ t.max <= u.max /\ Len(u.blocks) = Len(t.blocks)
      /\ \A i \in 1 .. Len(t.blocks) : \A x \in DOMAIN t.blocks[i] :
           x \in DOMAIN u.blocks[i] /\ u.blocks[i][x] = t.blocks[i][x]
  BY <1>2, <1>3, <1>4, DeclarePacked
<1>6. us = [s_tables EXCEPT ![Len(s_tables)] = u]
  BY <1>2, <1>3 DEF SetTop
<1>7. us \in Seq(Tables) /\ \A k \in 1 .. Len(us) : Packed(us[k])
  BY <1>1, <1>5, <1>6, SetTopPacked
<1>8. us[Len(us)] = u /\ Len(us) = Len(s_tables)
  <2>1. us[Len(s_tables)] = u /\ Len(us) = Len(s_tables)
    BY <1>1, <1>5, <1>6, SetTopOnly
  <2> QED
    BY <2>1
<1>9. FirstKept(t, u)
  <2>1. Len(t.blocks) \in Nat /\ (Len(t.blocks) >= 1 => 1 \in 1 .. Len(t.blocks))
    BY TableFields
  <2> QED
    BY <1>5, <2>1 DEF FirstKept
<1>10. Keeps(rules, s_tables, rules, us)
  BY <1>1, <1>2, <1>5, <1>6, <1>9, TableChanged
<1> QED
  BY <1>2, <1>3, <1>7, <1>8, <1>10

LEMMA VarDeclaresStep ==
  ASSUME Inv, NEW names \in Seq(Name), VarDeclares(names)
  PROVE  Inv'
<1>1. /\ phase = "parse" /\ topTable.blocks # <<>> /\ Declarable(topTable, names)
      /\ s_tables' = SetTop(declare(topTable, names))
      /\ rules' = rules /\ phase' = phase /\ UNCHANGED errors
  BY DEF VarDeclares, Parsing, Usable
<1>2. rules \in Seq(Rules) /\ rules # <<>>
  BY <1>1, InvFacts
<1>3. /\ s_tables' \in Seq(Tables) /\ \A k \in 1 .. Len(s_tables') : Packed(s_tables'[k])
      /\ Keeps(rules, s_tables, rules, s_tables')
  BY <1>1, Declares
<1> QED
  BY <1>1, <1>2, <1>3, KeepsInv

LEMMA VarDefineStep ==
  ASSUME Inv, NEW name \in Name, VarDefine(name)
  PROVE  Inv'
<1>1. /\ phase = "parse" /\ topTable.blocks # <<>> /\ Declarable(topTable, <<name>>)
      /\ s_tables' = SetTop(declare(topTable, <<name>>))
      /\ Uses(declare(topTable, <<name>>), name)
      /\ phase' = phase /\ UNCHANGED errors
  BY DEF VarDefine, Parsing, Usable
<1>2. /\ rules \in Seq(Rules) /\ rules # <<>> /\ s_tables \in Seq(Tables)
      /\ RulesNest(rules, s_tables) /\ <<name>> \in Seq(Name) /\ s_tables # <<>>
      /\ Len(s_tables) \in Nat \ {0}
  BY <1>1, InvFacts
<1>3. PICK us : us = s_tables'
  OBVIOUS
<1>4. PICK u : u = declare(topTable, <<name>>)
  OBVIOUS
<1>5. us = SetTop(declare(topTable, <<name>>))
  BY <1>1, <1>3
<1>6. /\ us \in Seq(Tables) /\ \A k \in 1 .. Len(us) : Packed(us[k])
      /\ Len(us) = Len(s_tables) /\ Keeps(rules, s_tables, rules, us)
      /\ us[Len(us)] = u
  BY <1>1, <1>2, <1>4, <1>5, Declares
<1>7. Packed(u) /\ Uses(u, name) /\ RulesNest(rules, us)
  <2>1. Len(us) \in 1 .. Len(us)
    BY <1>2, <1>6
  <2> QED
    BY <1>1, <1>4, <1>6, <2>1 DEF Keeps
<1>8. rules' \in Seq(Rules) /\ rules' # <<>> /\ Keeps(rules, us, rules', us)
  BY <1>2, <1>6, <1>7, UsesStep
<1>9. Keeps(rules, s_tables, rules', s_tables')
  BY <1>3, <1>6, <1>8 DEF Keeps
<1> QED
  BY <1>1, <1>3, <1>6, <1>8, <1>9, KeepsInv

LEMMA ReferenceStep ==
  ASSUME Inv, NEW name \in Name, Reference(name)
  PROVE  Inv'
<1>1. /\ phase = "parse" /\ Uses(topTable, name)
      /\ s_tables' = s_tables /\ phase' = phase /\ UNCHANGED errors
  BY DEF Reference, Parsing
<1>2. /\ rules \in Seq(Rules) /\ rules # <<>> /\ s_tables \in Seq(Tables)
      /\ RulesNest(rules, s_tables) /\ \A k \in 1 .. Len(s_tables) : Packed(s_tables[k])
      /\ topTable = s_tables[Len(s_tables)] /\ Packed(topTable)
  BY <1>1, InvFacts
<1>3. rules' \in Seq(Rules) /\ rules' # <<>> /\ Keeps(rules, s_tables, rules', s_tables)
  <2>1. PICK t : t = topTable
    OBVIOUS
  <2>2. t = s_tables[Len(s_tables)] /\ Packed(t) /\ Uses(t, name)
    BY <1>1, <1>2, <2>1
  <2> QED
    BY <1>2, <2>2, UsesStep
<1> QED
  BY <1>1, <1>2, <1>3, KeepsInv

(* A table less. *)
LEMMA InnerPacked ==
  ASSUME NEW ts \in Seq(Tables), \A k \in 1 .. Len(ts) : Packed(ts[k]), ts # <<>>,
         NEW us, us = Inner(ts)
  PROVE  us \in Seq(Tables) /\ \A k \in 1 .. Len(us) : Packed(us[k])
<1>1. /\ us \in Seq(Tables) /\ Len(us) = Len(ts) - 1 /\ Len(ts) \in Nat \ {0}
      /\ \A i \in 1 .. Len(ts) - 1 : us[i] = ts[i]
  BY InnerSeq
<1>2. \A i \in 1 .. Len(ts) - 1 : i \in 1 .. Len(ts)
  BY <1>1
<1> QED
  BY <1>1, <1>2

(* The last rule ends. *)
LEMMA RuleEnds ==
  ASSUME rules \in Seq(Rules), rules # <<>>, rules' = Inner(rules),
         phase' = IF Len(rules) = 1 THEN "idle" ELSE "parse"
  PROVE  rules' \in Seq(Rules) /\ phase' = IF rules' = <<>> THEN "idle" ELSE "parse"
<1>1. /\ rules' \in Seq(Rules) /\ Len(rules') = Len(rules) - 1 /\ Len(rules) \in Nat \ {0}
  <2>1. PICK qs : qs = rules'
    OBVIOUS
  <2>2. qs = Inner(rules)
    BY <2>1
  <2>3. qs \in Seq(Rules) /\ Len(qs) = Len(rules) - 1 /\ Len(rules) \in Nat \ {0}
    BY <2>2, InnerSeq
  <2> QED
    BY <2>1, <2>3
<1>2. Len(rules') = 0 <=> Len(rules) = 1
  BY <1>1
<1>3. rules' = <<>> <=> Len(rules') = 0
  BY <1>1, EmptySeq
<1> QED
  BY <1>1, <1>2, <1>3

LEMMA EndFunctionStep == ASSUME Inv, EndFunction PROVE Inv'
<1>1. /\ phase = "parse" /\ rules[Len(rules)].kind # "block"
      /\ s_tables' = Inner(s_tables) /\ rules' = Inner(rules)
      /\ phase' = IF Len(rules) = 1 THEN "idle" ELSE "parse"
      /\ UNCHANGED errors
  BY DEF EndFunction, In, Parsing
<1>2. /\ s_tables \in Seq(Tables) /\ rules \in Seq(Rules)
      /\ RulesNest(rules, s_tables) /\ \A k \in 1 .. Len(s_tables) : Packed(s_tables[k])
      /\ rules # <<>> /\ s_tables # <<>>
  BY <1>1, InvFacts
<1>3. s_tables' \in Seq(Tables) /\ \A k \in 1 .. Len(s_tables') : Packed(s_tables'[k])
  BY <1>1, <1>2, InnerPacked
<1>4. rules' \in Seq(Rules) /\ phase' = IF rules' = <<>> THEN "idle" ELSE "parse"
  BY <1>1, <1>2, RuleEnds
<1>5. Keeps(rules, s_tables, rules', s_tables')
  BY <1>1, <1>2, FunctionEnded
<1> QED
  BY <1>1, <1>3, <1>4, <1>5, KeepsInv

(* A body the error ended is among the errors; without one the functions   *)
(* still have their tables.                                                *)
LEMMA SyntaxErrorStep == ASSUME Inv, SyntaxError PROVE Inv'
<1>1. PICK kind : kind = rules[Len(rules)].kind
  OBVIOUS
<1>2. /\ phase = "parse" /\ errors' = Append(errors, kind) /\ rules' = Inner(rules)
      /\ phase' = IF Len(rules) = 1 THEN "idle" ELSE "parse"
      /\ s_tables' = s_tables
  BY <1>1 DEF SyntaxError, Parsing
<1>3. /\ s_tables \in Seq(Tables) /\ rules \in Seq(Rules) /\ errors \in Seq(Kinds)
      /\ RulesNest(rules, s_tables) /\ \A k \in 1 .. Len(s_tables) : Packed(s_tables[k])
      /\ rules # <<>> /\ s_tables # <<>> /\ Len(rules) \in 1 .. Len(rules)
  BY <1>2, InvFacts
<1>4. kind \in Kinds
  <2>1. rules[Len(rules)] \in Rules
    BY <1>3
  <2> QED
    BY <1>1, <2>1 DEF Rules, Kinds
<1>5. rules' \in Seq(Rules) /\ phase' = IF rules' = <<>> THEN "idle" ELSE "parse"
  BY <1>2, <1>3, RuleEnds
<1>6. /\ RulesNest(rules', s_tables)
      /\ kind # "body" /\ Nested(rules, s_tables) => Nested(rules', s_tables)
  BY <1>1, <1>2, <1>3, RuleLost
<1>7. errors' \in Seq(Kinds) /\ errors' # <<>>
  BY <1>2, <1>3, <1>4, AppendNonempty
<1>8. ASSUME \A i \in DOMAIN errors' : errors'[i] # "body"
      PROVE  Nested(rules', s_tables')
  <2>1. PICK m \in Nat : m = Len(errors)
    BY <1>3
  <2>2. /\ Len(errors') = m + 1 /\ errors'[m + 1] = kind
        /\ \A n \in 1 .. m : errors'[n] = errors[n]
    BY <1>2, <1>3, <1>4, <2>1, AppendProperties
  <2>3. DOMAIN errors' = 1 .. m + 1 /\ DOMAIN errors = 1 .. m
    BY <1>3, <1>7, <2>1, <2>2
  <2>4. m + 1 \in 1 .. m + 1 /\ \A n \in 1 .. m : n \in 1 .. m + 1
    BY <2>1
  <2>5. kind # "body" /\ \A i \in DOMAIN errors : errors[i] # "body"
    BY <1>8, <2>2, <2>3, <2>4
  <2>6. Nested(rules, s_tables)
    BY <2>5 DEF Inv, IInv
  <2> QED
    BY <1>2, <1>6, <2>5, <2>6
<1>9. AssertionsHold' /\ phase' \in Phase
  BY <1>2, <1>7 DEF AssertionsHold, Phase
<1> QED
  BY <1>2, <1>3, <1>5, <1>6, <1>7, <1>8, <1>9, MakeInv

LEMMA RedeclareStep ==
  ASSUME Inv, NEW names, Redeclare(names)
  PROVE  Inv'
<1>1. UNCHANGED <<s_tables, rules, errors>> /\ phase' = "failed"
  BY DEF Redeclare
<1> QED
  BY <1>1, StopInv DEF AssertionsHold

(* Without an error a function has one block when it ends, and the block   *)
(* has all slots there are.                                                *)
LEMMA EndFunctionOpenStep == ASSUME Inv, EndFunctionOpen PROVE Inv'
<1>1. /\ phase = "parse" /\ rules[Len(rules)].kind # "block" /\ ~ Closes(topTable)
      /\ UNCHANGED <<s_tables, rules, errors>> /\ phase' = "assertion"
  BY DEF EndFunctionOpen, In, Parsing
<1>2. /\ s_tables \in Seq(Tables) /\ rules \in Seq(Rules)
      /\ RulesNest(rules, s_tables) /\ rules # <<>>
      /\ topTable \in Tables /\ Packed(topTable) /\ topTable = s_tables[Len(s_tables)]
  BY <1>1, InvFacts
<1>3. ASSUME errors = <<>> PROVE FALSE
  <2>1. Exact(rules, s_tables)
    BY <1>3 DEF Inv, IInv
  <2>2. Len(topTable.blocks) = 1
    BY <1>1, <1>2, <2>1, LastHas DEF IsFunction
  <2>3. Closes(topTable)
    <3>1. PICK t \in Tables : t = topTable /\ Packed(t) /\ Len(t.blocks) = 1
      BY <1>2, <2>2
    <3> QED
      BY <3>1, OneBlockCloses
  <2> QED
    BY <1>1, <2>3
<1>4. AssertionsHold'
  BY <1>1, <1>3 DEF AssertionsHold
<1> QED
  BY <1>1, <1>4, StopInv

(* A table runs out of blocks only after an error has ended a body.        *)
LEMMA NoBlockStep == ASSUME Inv, NoBlock PROVE Inv'
<1>1. /\ phase = "parse" /\ topTable.blocks = <<>>
      /\ UNCHANGED <<s_tables, rules, errors>> /\ phase' = "undefined"
  BY DEF NoBlock, Parsing
<1>2. /\ s_tables \in Seq(Tables) /\ rules \in Seq(Rules)
      /\ RulesNest(rules, s_tables) /\ rules # <<>>
      /\ topTable = s_tables[Len(s_tables)]
  BY <1>1, InvFacts
<1>3. ASSUME \A i \in DOMAIN errors : errors[i] # "body" PROVE FALSE
  <2>1. Nested(rules, s_tables)
    BY <1>3 DEF Inv, IInv
  <2>2. Len(topTable.blocks) >= 1
    BY <1>2, <2>1, LastHas
  <2>3. Len(topTable.blocks) = 0
    BY <1>1
  <2> QED
    BY <2>2, <2>3
<1>4. \E i \in DOMAIN errors : errors[i] = "body"
  BY <1>3
<1>5. AssertionsHold'
  BY <1>1, <1>4 DEF AssertionsHold
<1> QED
  BY <1>1, <1>5, StopInv

LEMMA StayInv == ASSUME Inv, UNCHANGED vars PROVE Inv'
<1>1. UNCHANGED <<s_tables, rules, errors, phase>>
  BY DEF vars
<1> QED
  BY <1>1 DEF Inv, IInv, TypeOK, AssertionsHold

LEMMA NextInv == ASSUME Inv, [Next]_vars PROVE Inv'
<1>1. CASE BeginProgram
  BY <1>1, BeginProgramStep
<1>2. CASE BeginBlock
  BY <1>2, BeginBlockStep
<1>3. CASE EndBlock
  BY <1>3, EndBlockStep
<1>4. ASSUME NEW x \in Name, NEW y \in Name, NEW names \in {<<>>, <<x>>, <<x, y>>},
             \/ BeginBody(names)
             \/ names # <<>> /\ VarDeclares(names)
             \/ Redeclare(names)
      PROVE  Inv'
  <2>1. <<>> \in Seq(Name) /\ <<x>> \in Seq(Name) /\ <<x, y>> \in Seq(Name)
    OBVIOUS
  <2>2. names \in Seq(Name)
    BY <1>4, <2>1
  <2> QED
    BY <1>4, <2>2, BeginBodyStep, VarDeclaresStep, RedeclareStep
<1>5. ASSUME NEW name \in Name, VarDefine(name) \/ Reference(name) PROVE Inv'
  BY <1>5, VarDefineStep, ReferenceStep
<1>6. CASE EndFunction
  BY <1>6, EndFunctionStep
<1>7. CASE EndFunctionOpen
  BY <1>7, EndFunctionOpenStep
<1>8. CASE SyntaxError
  BY <1>8, SyntaxErrorStep
<1>9. CASE NoBlock
  BY <1>9, NoBlockStep
<1>10. CASE Full \/ Stopped \/ UNCHANGED vars
  <2>1. UNCHANGED vars
    BY <1>10 DEF Full, Stopped
  <2> QED
    BY <2>1, StayInv
<1> QED
  BY <1>1, <1>2, <1>3, <1>4, <1>5, <1>6, <1>7, <1>8, <1>9, <1>10 DEF Next

-----------------------------------------------------------------------------
(* Theorems. *)

LEMMA SpecInv == Spec => []Inv
<1>1. Init => Inv
  BY InitInv
<1>2. Inv /\ [Next]_vars => Inv'
  BY NextInv
<1> QED
  BY <1>1, <1>2, PTL DEF Spec

(* The blocks of a table hold its first slots, and as long as no error has *)
(* ended a body, the functions the parser is in have the last tables, in   *)
(* their order, each with the blocks of its rules.                         *)
THEOREM Invariant == Spec => []IInv
<1>1. Inv => IInv
  BY DEF Inv
<1> QED
  BY <1>1, SpecInv, PTL

(* ~SymbolTable finds what it asserts, and every table has a block when    *)
(* one is asked of it, unless an error has ended a rule.                   *)
THEOREM Assertions == Spec => []AssertionsHold
<1>1. Inv => AssertionsHold
  BY DEF Inv, IInv
<1> QED
  BY <1>1, SpecInv, PTL

(* The table of the i-th rule, as long as no rule ended by an error. *)
LEMMA TableOfIs ==
  ASSUME Inv, errors = <<>>, NEW i \in Functions
  PROVE  TableOf(i) = s_tables[TableNo(rules, Len(s_tables), i)]
<1>1. /\ rules \in Seq(Rules) /\ s_tables \in Seq(Tables)
      /\ Rank(rules, Len(rules)) = Len(s_tables)
  BY InvFacts DEF Inv, IInv, Exact
<1>2. {j \in Functions : j <= i} = {j \in DOMAIN rules : IsFunction(rules, j) /\ j <= i}
  BY DEF Functions, IsFunction
<1>3. i \in Nat /\ Rank(rules, i) \in Nat
  <2>1. i \in Nat
    BY <1>1 DEF Functions
  <2> QED
    BY <1>1, <2>1, RankNat
<1>4. TableNo(rules, Len(s_tables), i) = Rank(rules, i)
  <2>1. PICK m \in Nat : m = Len(s_tables)
    BY <1>1
  <2>2. m - m + Rank(rules, i) = Rank(rules, i)
    BY <1>3
  <2> QED
    BY <1>1, <2>1, <2>2 DEF TableNo
<1> QED
  BY <1>2, <1>4 DEF TableOf, Rank

LEMMA InvDense == ASSUME Inv PROVE SlotsDense
<1>1. TypeOK
  BY DEF Inv, IInv
<1>2. ASSUME NEW k \in DOMAIN s_tables
      PROVE  LET t == s_tables[k] IN
               /\ {t.blocks[p[1]][p[2]] : p \in Live(t)} = 0 .. t.cur - 1
               /\ Cardinality(Live(t)) = t.cur
               /\ \A p, q \in Live(t) :
                    p[1] < q[1] => t.blocks[p[1]][p[2]] < t.blocks[q[1]][q[2]]
               /\ t.cur <= t.max
  <2>1. PICK t \in Tables : t = s_tables[k] /\ Packed(t)
    BY InvFacts
  <2>2. /\ {t.blocks[p[1]][p[2]] : p \in Live(t)} = 0 .. t.cur - 1
        /\ Cardinality(Live(t)) = t.cur
        /\ \A p, q \in Live(t) :
             p[1] < q[1] => t.blocks[p[1]][p[2]] < t.blocks[q[1]][q[2]]
        /\ t.cur <= t.max
    BY <2>1, PackedSlots
  <2> QED
    BY <2>1, <2>2
<1>3. ASSUME errors = <<>>, NEW i \in Functions, NEW k \in DOMAIN rules[i].params
      PROVE  <<rules[i].params[k], k - 1>> \in
               {<<n, TableOf(i).blocks[1][n]>> : n \in DOMAIN TableOf(i).blocks[1]}
  <2>1. i \in DOMAIN rules /\ IsFunction(rules, i)
    BY DEF Functions, IsFunction
  <2>2. Exact(rules, s_tables)
    BY <1>3 DEF Inv, IInv
  <2>3. ExactAt(rules, TableOf(i), i)
    BY <1>3, <2>1, <2>2, TableOfIs DEF Exact
  <2>4. HasParams(rules[i], TableOf(i))
    BY <2>1, <2>3 DEF ExactAt
  <2> QED
    BY <1>3, <2>4 DEF HasParams
<1> QED
  BY <1>1, <1>2, <1>3 DEF SlotsDense

(* Each declaration alive has a slot of its own, and they are the first    *)
(* ones: popBlock gives back just those of the block it closes.  The       *)
(* parameters have the slots callFromVM puts the arguments in.             *)
THEOREM Dense == Spec => []SlotsDense
<1>1. Inv => SlotsDense
  BY InvDense
<1> QED
  BY <1>1, SpecInv, PTL

(* When a function ends, every slot its tree names is below its            *)
(* localCount, unless an error has ended a body.                           *)
THEOREM Fit == Spec => []LocalsFit
<1>1. ASSUME Inv PROVE LocalsFit
  <2>1. SUFFICES ASSUME \A i \in DOMAIN errors : errors[i] # "body",
                        In("body") \/ In("program")
                 PROVE  rules[Len(rules)].used <= topTable.max
    BY DEF LocalsFit
  <2>2. phase = "parse" /\ rules[Len(rules)].kind # "block"
    BY <2>1 DEF In, Parsing
  <2>3. /\ rules \in Seq(Rules) /\ s_tables \in Seq(Tables) /\ RulesNest(rules, s_tables)
        /\ rules # <<>> /\ topTable = s_tables[Len(s_tables)]
    BY <1>1, <2>2, InvFacts
  <2>4. Nested(rules, s_tables)
    BY <1>1, <2>1 DEF Inv, IInv
  <2>5. IsFunction(rules, Len(rules))
    BY <2>2 DEF IsFunction
  <2> QED
    BY <2>3, <2>4, <2>5, LastHas
<1>2. Inv => LocalsFit
  BY <1>1
<1> QED
  BY <1>2, SpecInv, PTL
=============================================================================
