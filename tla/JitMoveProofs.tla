--------------------------- MODULE JitMoveProofs ---------------------------
(***************************************************************************)
(* The code the JIT of Move emits, run by the processor, keeps the         *)
(* interpreter's registers and does what the interpreter's Move does, for  *)
(* any operands near enough.                                               *)
(***************************************************************************)
EXTENDS JitMoveProperties, SequenceTheorems, TLAPS

-----------------------------------------------------------------------------
(* The bytes of the code. *)

Cat(u, s, t) == s \in Seq(Int) /\ t \in Seq(Int) /\ u = s \o t

Joins(u, s, t, m, n) ==
  /\ u \in Seq(Int) /\ Len(u) = m + n
  /\ \A i \in 1 .. m : u[i] = s[i]
  /\ \A i \in 1 .. n : u[m + i] = t[i]

LEMMA ConcatAt ==
  ASSUME NEW u, NEW s, NEW t, Cat(u, s, t),
         NEW m, m = Len(s), NEW n, n = Len(t)
  PROVE  Joins(u, s, t, m, n)
<1>1. s \in Seq(Int) /\ t \in Seq(Int) /\ m \in Nat /\ n \in Nat
  BY DEF Cat
<1>2. /\ u \in Seq(Int) /\ Len(u) = m + n
      /\ \A i \in 1 .. m : u[i] = s[i]
      /\ \A i \in m + 1 .. m + n : u[i] = t[i - m]
  BY <1>1, ConcatProperties DEF Cat
<1>3. ASSUME NEW i \in 1 .. n PROVE u[m + i] = t[i]
  <2>1. m + i \in m + 1 .. m + n /\ (m + i) - m = i
    BY <1>1
  <2> QED
    BY <1>2, <2>1
<1> QED
  BY <1>2, <1>3 DEF Joins

(* The pieces, of the bytes that depend on the operand. *)
IsAddress(s, a) ==
  /\ s \in Seq(Int) /\ Len(s) = 10
  /\ s[1] = 72 /\ s[2] = 137 /\ s[3] = 235
  /\ s[4] = 72 /\ s[5] = 131 /\ s[6] = 195 /\ s[7] = a
  /\ s[8] = 72 /\ s[9] = 139 /\ s[10] = 3

IsPushes(s, b, c) ==
  /\ s \in Seq(Int) /\ Len(s) = 6
  /\ s[1] = 255 /\ s[2] = 112 /\ s[3] = b
  /\ s[4] = 255 /\ s[5] = 112 /\ s[6] = c

IsPops(s, b, c) ==
  /\ s \in Seq(Int) /\ Len(s) = 10
  /\ s[1] = 91 /\ s[2] = 72 /\ s[3] = 137 /\ s[4] = 88 /\ s[5] = c
  /\ s[6] = 91 /\ s[7] = 72 /\ s[8] = 137 /\ s[9] = 88 /\ s[10] = b

IsLoad(s, a, b, c) ==
  /\ s \in Seq(Int) /\ Len(s) = 16
  /\ s[1] = 72 /\ s[2] = 137 /\ s[3] = 235
  /\ s[4] = 72 /\ s[5] = 131 /\ s[6] = 195 /\ s[7] = a
  /\ s[8] = 72 /\ s[9] = 139 /\ s[10] = 3
  /\ s[11] = 255 /\ s[12] = 112 /\ s[13] = b
  /\ s[14] = 255 /\ s[15] = 112 /\ s[16] = c

IsStore(s, a, b, c) ==
  /\ s \in Seq(Int) /\ Len(s) = 20
  /\ s[1] = 72 /\ s[2] = 137 /\ s[3] = 235
  /\ s[4] = 72 /\ s[5] = 131 /\ s[6] = 195 /\ s[7] = a
  /\ s[8] = 72 /\ s[9] = 139 /\ s[10] = 3
  /\ s[11] = 91 /\ s[12] = 72 /\ s[13] = 137 /\ s[14] = 88 /\ s[15] = c
  /\ s[16] = 91 /\ s[17] = 72 /\ s[18] = 137 /\ s[19] = 88 /\ s[20] = b

LEMMA AddressIs ==
  ASSUME NEW a \in Int
  PROVE  IsAddress(<<72, 137, 235, 72, 131, 195, a, 72, 139, 3>>, a)
<1>1. <<72, 137, 235, 72, 131, 195, a, 72, 139, 3>> \in Seq(Int)
  OBVIOUS
<1> QED
  BY <1>1 DEF IsAddress

LEMMA PushesAre ==
  ASSUME NEW b \in Int, NEW c \in Int
  PROVE  IsPushes(<<255, 112, b, 255, 112, c>>, b, c)
<1>1. <<255, 112, b, 255, 112, c>> \in Seq(Int)
  OBVIOUS
<1> QED
  BY <1>1 DEF IsPushes

LEMMA PopsAre ==
  ASSUME NEW b \in Int, NEW c \in Int
  PROVE  IsPops(<<91, 72, 137, 88, c, 91, 72, 137, 88, b>>, b, c)
<1>1. <<91, 72, 137, 88, c, 91, 72, 137, 88, b>> \in Seq(Int)
  OBVIOUS
<1> QED
  BY <1>1 DEF IsPops

LEMMA LoadIs ==
  ASSUME NEW a, NEW b, NEW c, NEW s, IsAddress(s, a), NEW t, IsPushes(t, b, c),
         NEW u, Cat(u, s, t)
  PROVE  IsLoad(u, a, b, c)
<1>1. 10 = Len(s) /\ 6 = Len(t)
  BY DEF IsAddress, IsPushes
<1>2. /\ u \in Seq(Int) /\ Len(u) = 10 + 6
      /\ \A i \in 1 .. 10 : u[i] = s[i]
      /\ \A i \in 1 .. 6 : u[10 + i] = t[i]
  <2>1. Joins(u, s, t, 10, 6)
    BY <1>1, ConcatAt
  <2> QED
    BY <2>1 DEF Joins
<1>3. /\ u[10 + 1] = t[1] /\ u[10 + 2] = t[2] /\ u[10 + 3] = t[3]
      /\ u[10 + 4] = t[4] /\ u[10 + 5] = t[5] /\ u[10 + 6] = t[6]
  BY <1>2
<1>4. /\ u[1] = s[1] /\ u[2] = s[2] /\ u[3] = s[3] /\ u[4] = s[4] /\ u[5] = s[5]
      /\ u[6] = s[6] /\ u[7] = s[7] /\ u[8] = s[8] /\ u[9] = s[9] /\ u[10] = s[10]
  BY <1>2
<1> QED
  BY <1>2, <1>3, <1>4 DEF IsAddress, IsPushes, IsLoad

LEMMA StoreIs ==
  ASSUME NEW a, NEW b, NEW c, NEW s, IsAddress(s, a), NEW t, IsPops(t, b, c),
         NEW u, Cat(u, s, t)
  PROVE  IsStore(u, a, b, c)
<1>1. 10 = Len(s) /\ 10 = Len(t)
  BY DEF IsAddress, IsPops
<1>2. /\ u \in Seq(Int) /\ Len(u) = 10 + 10
      /\ \A i \in 1 .. 10 : u[i] = s[i]
      /\ \A i \in 1 .. 10 : u[10 + i] = t[i]
  <2>1. Joins(u, s, t, 10, 10)
    BY <1>1, ConcatAt
  <2> QED
    BY <2>1 DEF Joins
<1>3. /\ u[10 + 1] = t[1] /\ u[10 + 2] = t[2] /\ u[10 + 3] = t[3]
      /\ u[10 + 4] = t[4] /\ u[10 + 5] = t[5] /\ u[10 + 6] = t[6]
      /\ u[10 + 7] = t[7] /\ u[10 + 8] = t[8] /\ u[10 + 9] = t[9] /\ u[10 + 10] = t[10]
  BY <1>2
<1>4. /\ u[1] = s[1] /\ u[2] = s[2] /\ u[3] = s[3] /\ u[4] = s[4] /\ u[5] = s[5]
      /\ u[6] = s[6] /\ u[7] = s[7] /\ u[8] = s[8] /\ u[9] = s[9] /\ u[10] = s[10]
  BY <1>2
<1> QED
  BY <1>2, <1>3, <1>4 DEF IsAddress, IsPops, IsStore

(* The whole code. *)
IsCode(u, l, s) ==
  /\ u \in Seq(Int) /\ Len(u) = 41
  /\ u[1] = 82 /\ u[2] = 85
  /\ \A i \in 1 .. 16 : u[2 + i] = l[i]
  /\ \A i \in 1 .. 20 : u[18 + i] = s[i]
  /\ u[39] = 93 /\ u[40] = 90 /\ u[41] = 195

LEMMA CodeIs ==
  ASSUME NEW l, NEW a, NEW b, NEW c, IsLoad(l, a, b, c),
         NEW s, NEW d, NEW e, NEW f, IsStore(s, d, e, f),
         NEW v, Cat(v, beginBuild, l), NEW w, Cat(w, v, s),
         NEW u, Cat(u, w, endBuild)
  PROVE  IsCode(u, l, s)
<1>1. 2 = Len(beginBuild) /\ beginBuild[1] = 82 /\ beginBuild[2] = 85
  BY DEF beginBuild
<1>2. /\ 3 = Len(endBuild)
      /\ endBuild[1] = 93 /\ endBuild[2] = 90 /\ endBuild[3] = 195
  BY DEF endBuild
<1>3. 16 = Len(l) /\ 20 = Len(s)
  BY DEF IsLoad, IsStore
<1>4. Joins(v, beginBuild, l, 2, 16)
  <2>1. Cat(v, beginBuild, l) /\ 2 = Len(beginBuild) /\ 16 = Len(l)
    BY <1>1, <1>3
  <2> QED
    BY <2>1, ConcatAt
<1>5. 18 = Len(v)
  BY <1>4 DEF Joins
<1>6. Joins(w, v, s, 18, 20)
  BY <1>3, <1>5, ConcatAt
<1>7. 38 = Len(w) /\ 3 = Len(endBuild)
  BY <1>2, <1>6 DEF Joins
<1>8. Joins(u, w, endBuild, 38, 3)
  BY <1>7, ConcatAt
<1>9. u[1] = 82 /\ u[2] = 85
  <2>1. u[1] = w[1] /\ u[2] = w[2]
    BY <1>8 DEF Joins
  <2>2. w[1] = v[1] /\ w[2] = v[2]
    BY <1>6 DEF Joins
  <2>3. v[1] = beginBuild[1] /\ v[2] = beginBuild[2]
    BY <1>4 DEF Joins
  <2> QED
    BY <1>1, <2>1, <2>2, <2>3
<1>10. ASSUME NEW i \in 1 .. 16 PROVE u[2 + i] = l[i]
  <2>1. 2 + i \in 1 .. 18 /\ 2 + i \in 1 .. 38
    OBVIOUS
  <2> QED
    BY <1>4, <1>6, <1>8, <2>1 DEF Joins
<1>11. ASSUME NEW i \in 1 .. 20 PROVE u[18 + i] = s[i]
  <2>1. 18 + i \in 1 .. 38
    OBVIOUS
  <2> QED
    BY <1>6, <1>8, <2>1 DEF Joins
<1>12. u[38 + 1] = 93 /\ u[38 + 2] = 90 /\ u[38 + 3] = 195
  BY <1>2, <1>8 DEF Joins
<1> QED
  BY <1>8, <1>9, <1>10, <1>11, <1>12 DEF IsCode, Joins

(* What an operand contributes: which pointer of the frame, and where the  *)
(* two words of its value are.                                             *)
Pointer(id) == localIdx2RbpOff(id)
First(id)   == Byte(localIdx2ValueOff(id))
Second(id)  == Byte(localIdx2ValueOff(id) + 8)

LEMMA Operand ==
  ASSUME NEW id \in LocalIds \cup Consts
  PROVE  /\ Pointer(id) \in Int /\ First(id) \in 0 .. 255 /\ Second(id) \in 0 .. 255
         /\ Pointer(id) = IF id \in Consts THEN 24 ELSE 16
         /\ id \in Nat /\ id % 64 \in 0 .. 63
<1>1. id \in 0 .. 255 /\ (id \in Consts <=> id >= 128)
  BY JitMoveAssumption
<1>2. Pointer(id) = IF id \in Consts THEN 24 ELSE 16
  <2>1. id >= 128 <=> id \div 128 # 0
    BY <1>1
  <2> QED
    BY <1>1, <2>1 DEF Pointer, localIdx2RbpOff
<1>3. id % 64 \in 0 .. 63
  BY <1>1
<1>4. First(id) \in 0 .. 255 /\ Second(id) \in 0 .. 255
  <2>1. \A n \in Int : n % 256 \in 0 .. 255
    OBVIOUS
  <2>2. PICK m \in 0 .. 63 : m = id % 64
    BY <1>3
  <2>3. m * 16 \in Int /\ m * 16 + 8 \in Int
    OBVIOUS
  <2> QED
    BY <2>1, <2>2, <2>3 DEF First, Second, Byte, localIdx2ValueOff
<1> QED
  BY <1>1, <1>2, <1>3, <1>4

LEMMA CompiledIs ==
  ASSUME NEW dest \in LocalIds, NEW src \in LocalIds \cup Consts
  PROVE  \E l, s : /\ IsLoad(l, Pointer(src), First(src), Second(src))
                   /\ IsStore(s, Pointer(dest), First(dest), Second(dest))
                   /\ IsCode(compiled(dest, src), l, s)
<1>1. /\ dest \in LocalIds \cup Consts
      /\ Pointer(src) \in Int /\ First(src) \in Int /\ Second(src) \in Int
      /\ Pointer(dest) \in Int /\ First(dest) \in Int /\ Second(dest) \in Int
  BY Operand
<1>2. PICK l : l = loadLocal(src)
  OBVIOUS
<1>3. IsLoad(l, Pointer(src), First(src), Second(src))
  <2>1. PICK s : s = address(src)
    OBVIOUS
  <2>2. PICK t : t = <<255, 112, First(src), 255, 112, Second(src)>>
    OBVIOUS
  <2>3. IsAddress(s, Pointer(src))
    <3>1. s = <<72, 137, 235, 72, 131, 195, Pointer(src), 72, 139, 3>>
      BY <2>1 DEF address, Pointer
    <3> QED
      BY <1>1, <3>1, AddressIs
  <2>4. IsPushes(t, First(src), Second(src))
    BY <1>1, <2>2, PushesAre
  <2>5. Cat(l, s, t)
    <3>1. l = s \o t
      BY <1>2, <2>1, <2>2 DEF loadLocal, First, Second
    <3>2. s \in Seq(Int) /\ t \in Seq(Int)
      BY <2>3, <2>4 DEF IsAddress, IsPushes
    <3> QED
      BY <3>1, <3>2 DEF Cat
  <2> QED
    BY <2>3, <2>4, <2>5, LoadIs
<1>4. PICK s : s = storeLocal(dest)
  OBVIOUS
<1>5. IsStore(s, Pointer(dest), First(dest), Second(dest))
  <2>1. PICK r : r = address(dest)
    OBVIOUS
  <2>2. PICK t : t = <<91, 72, 137, 88, Second(dest), 91, 72, 137, 88, First(dest)>>
    OBVIOUS
  <2>3. IsAddress(r, Pointer(dest))
    <3>1. r = <<72, 137, 235, 72, 131, 195, Pointer(dest), 72, 139, 3>>
      BY <2>1 DEF address, Pointer
    <3> QED
      BY <1>1, <3>1, AddressIs
  <2>4. IsPops(t, First(dest), Second(dest))
    BY <1>1, <2>2, PopsAre
  <2>5. Cat(s, r, t)
    <3>1. s = r \o t
      BY <1>4, <2>1, <2>2 DEF storeLocal, First, Second
    <3>2. r \in Seq(Int) /\ t \in Seq(Int)
      BY <2>3, <2>4 DEF IsAddress, IsPops
    <3> QED
      BY <3>1, <3>2 DEF Cat
  <2> QED
    BY <2>3, <2>4, <2>5, StoreIs
<1>6. IsCode(compiled(dest, src), l, s)
  <2>1. /\ beginBuild \in Seq(Int) /\ endBuild \in Seq(Int)
        /\ 2 = Len(beginBuild)
    BY DEF beginBuild, endBuild
  <2>2. l \in Seq(Int) /\ s \in Seq(Int) /\ 16 = Len(l) /\ 20 = Len(s)
    BY <1>3, <1>5 DEF IsLoad, IsStore
  <2>3. PICK v : v = beginBuild \o l
    OBVIOUS
  <2>4. Cat(v, beginBuild, l)
    BY <2>1, <2>2, <2>3 DEF Cat
  <2>5. v \in Seq(Int) /\ 18 = Len(v)
    <3>1. Joins(v, beginBuild, l, 2, 16)
      BY <2>1, <2>2, <2>4, ConcatAt
    <3> QED
      BY <3>1 DEF Joins
  <2>6. PICK w : w = v \o s
    OBVIOUS
  <2>7. Cat(w, v, s)
    BY <2>2, <2>5, <2>6 DEF Cat
  <2>8. w \in Seq(Int)
    <3>1. Joins(w, v, s, 18, 20)
      BY <2>2, <2>5, <2>7, ConcatAt
    <3> QED
      BY <3>1 DEF Joins
  <2>9. Cat(compiled(dest, src), w, endBuild)
    <3>1. compiled(dest, src) = w \o endBuild
      BY <1>2, <1>4, <2>3, <2>6 DEF compiled
    <3> QED
      BY <2>1, <2>8, <3>1 DEF Cat
  <2> QED
    BY <1>3, <1>5, <2>4, <2>7, <2>9, CodeIs
<1> QED
  BY <1>3, <1>5, <1>6

(* The buffer's bytes. *)
LEMMA Bytes ==
  ASSUME NEW dest \in LocalIds, NEW src \in LocalIds \cup Consts, Holds(dest, src)
  PROVE  /\ buffer[0] = 82 /\ buffer[1] = 85
         /\ buffer[2] = 72 /\ buffer[3] = 137 /\ buffer[4] = 235
         /\ buffer[5] = 72 /\ buffer[6] = 131 /\ buffer[7] = 195 /\ buffer[8] = Pointer(src)
         /\ buffer[9] = 72 /\ buffer[10] = 139 /\ buffer[11] = 3
         /\ buffer[12] = 255 /\ buffer[13] = 112 /\ buffer[14] = First(src)
         /\ buffer[15] = 255 /\ buffer[16] = 112 /\ buffer[17] = Second(src)
         /\ buffer[18] = 72 /\ buffer[19] = 137 /\ buffer[20] = 235
         /\ buffer[21] = 72 /\ buffer[22] = 131 /\ buffer[23] = 195 /\ buffer[24] = Pointer(dest)
         /\ buffer[25] = 72 /\ buffer[26] = 139 /\ buffer[27] = 3
         /\ buffer[28] = 91
         /\ buffer[29] = 72 /\ buffer[30] = 137 /\ buffer[31] = 88 /\ buffer[32] = Second(dest)
         /\ buffer[33] = 91
         /\ buffer[34] = 72 /\ buffer[35] = 137 /\ buffer[36] = 88 /\ buffer[37] = First(dest)
         /\ buffer[38] = 93 /\ buffer[39] = 90 /\ buffer[40] = 195
<1>1. PICK u : u = compiled(dest, src)
  OBVIOUS
<1>2. PICK l, s : /\ IsLoad(l, Pointer(src), First(src), Second(src))
                  /\ IsStore(s, Pointer(dest), First(dest), Second(dest))
                  /\ IsCode(u, l, s)
  BY <1>1, CompiledIs
<1>3. \A k \in 0 .. 40 : buffer[k] = u[k + 1]
  <2>1. Len(u) = 41
    BY <1>2 DEF IsCode
  <2> QED
    BY <1>1, <2>1 DEF Holds
<1>4. \A i \in 1 .. 16 : buffer[1 + i] = l[i]
  <2>1. \A i \in 1 .. 16 : 1 + i \in 0 .. 40 /\ (1 + i) + 1 = 2 + i
    OBVIOUS
  <2>2. \A i \in 1 .. 16 : u[2 + i] = l[i]
    BY <1>2 DEF IsCode
  <2> QED
    BY <1>3, <2>1, <2>2
<1>5. \A i \in 1 .. 20 : buffer[17 + i] = s[i]
  <2>1. \A i \in 1 .. 20 : 17 + i \in 0 .. 40 /\ (17 + i) + 1 = 18 + i
    OBVIOUS
  <2>2. \A i \in 1 .. 20 : u[18 + i] = s[i]
    BY <1>2 DEF IsCode
  <2> QED
    BY <1>3, <2>1, <2>2
<1>6. /\ buffer[1 + 1] = l[1] /\ buffer[1 + 2] = l[2] /\ buffer[1 + 3] = l[3]
      /\ buffer[1 + 4] = l[4] /\ buffer[1 + 5] = l[5] /\ buffer[1 + 6] = l[6]
      /\ buffer[1 + 7] = l[7] /\ buffer[1 + 8] = l[8] /\ buffer[1 + 9] = l[9]
      /\ buffer[1 + 10] = l[10] /\ buffer[1 + 11] = l[11] /\ buffer[1 + 12] = l[12]
      /\ buffer[1 + 13] = l[13] /\ buffer[1 + 14] = l[14] /\ buffer[1 + 15] = l[15]
      /\ buffer[1 + 16] = l[16]
  BY <1>4
<1>7. /\ buffer[17 + 1] = s[1] /\ buffer[17 + 2] = s[2] /\ buffer[17 + 3] = s[3]
      /\ buffer[17 + 4] = s[4] /\ buffer[17 + 5] = s[5] /\ buffer[17 + 6] = s[6]
      /\ buffer[17 + 7] = s[7] /\ buffer[17 + 8] = s[8] /\ buffer[17 + 9] = s[9]
      /\ buffer[17 + 10] = s[10] /\ buffer[17 + 11] = s[11] /\ buffer[17 + 12] = s[12]
      /\ buffer[17 + 13] = s[13] /\ buffer[17 + 14] = s[14] /\ buffer[17 + 15] = s[15]
      /\ buffer[17 + 16] = s[16] /\ buffer[17 + 17] = s[17] /\ buffer[17 + 18] = s[18]
      /\ buffer[17 + 19] = s[19] /\ buffer[17 + 20] = s[20]
  BY <1>5
<1>8. /\ buffer[0] = u[0 + 1] /\ buffer[1] = u[1 + 1] /\ buffer[38] = u[38 + 1]
      /\ buffer[39] = u[39 + 1] /\ buffer[40] = u[40 + 1]
  BY <1>3
<1>9. u[1] = 82 /\ u[2] = 85 /\ u[39] = 93 /\ u[40] = 90 /\ u[41] = 195
  BY <1>2 DEF IsCode
<1>10. /\ l[1] = 72 /\ l[2] = 137 /\ l[3] = 235
       /\ l[4] = 72 /\ l[5] = 131 /\ l[6] = 195 /\ l[7] = Pointer(src)
       /\ l[8] = 72 /\ l[9] = 139 /\ l[10] = 3
       /\ l[11] = 255 /\ l[12] = 112 /\ l[13] = First(src)
       /\ l[14] = 255 /\ l[15] = 112 /\ l[16] = Second(src)
  BY <1>2 DEF IsLoad
<1>11. /\ s[1] = 72 /\ s[2] = 137 /\ s[3] = 235
       /\ s[4] = 72 /\ s[5] = 131 /\ s[6] = 195 /\ s[7] = Pointer(dest)
       /\ s[8] = 72 /\ s[9] = 139 /\ s[10] = 3
       /\ s[11] = 91 /\ s[12] = 72 /\ s[13] = 137 /\ s[14] = 88 /\ s[15] = Second(dest)
       /\ s[16] = 91 /\ s[17] = 72 /\ s[18] = 137 /\ s[19] = 88 /\ s[20] = First(dest)
  BY <1>2 DEF IsStore
<1>12. /\ buffer[0] = 82 /\ buffer[1] = 85
       /\ buffer[38] = 93 /\ buffer[39] = 90 /\ buffer[40] = 195
  BY <1>8, <1>9
<1>13. /\ buffer[2] = 72 /\ buffer[3] = 137 /\ buffer[4] = 235
       /\ buffer[5] = 72 /\ buffer[6] = 131 /\ buffer[7] = 195 /\ buffer[8] = Pointer(src)
       /\ buffer[9] = 72 /\ buffer[10] = 139 /\ buffer[11] = 3
       /\ buffer[12] = 255 /\ buffer[13] = 112 /\ buffer[14] = First(src)
       /\ buffer[15] = 255 /\ buffer[16] = 112 /\ buffer[17] = Second(src)
  BY <1>6, <1>10
<1>14. /\ buffer[18] = 72 /\ buffer[19] = 137 /\ buffer[20] = 235
       /\ buffer[21] = 72 /\ buffer[22] = 131 /\ buffer[23] = 195 /\ buffer[24] = Pointer(dest)
       /\ buffer[25] = 72 /\ buffer[26] = 139 /\ buffer[27] = 3
       /\ buffer[28] = 91
       /\ buffer[29] = 72 /\ buffer[30] = 137 /\ buffer[31] = 88 /\ buffer[32] = Second(dest)
       /\ buffer[33] = 91
       /\ buffer[34] = 72 /\ buffer[35] = 137 /\ buffer[36] = 88 /\ buffer[37] = First(dest)
  BY <1>7, <1>11
<1> QED
  BY <1>12, <1>13, <1>14

(* The instructions of the code. *)
LEMMA Code ==
  ASSUME NEW dest \in LocalIds, NEW src \in LocalIds \cup Consts, Holds(dest, src)
  PROVE  /\ Decode(0) = push("rdx") /\ Decode(1) = push("rbp")
         /\ Decode(2) = move("rbx", "rbp") /\ Decode(5) = add("rbx", Pointer(src))
         /\ Decode(9) = load("rax", "rbx")
         /\ Decode(12) = pushAt("rax", Signed(First(src)))
         /\ Decode(15) = pushAt("rax", Signed(Second(src)))
         /\ Decode(18) = move("rbx", "rbp") /\ Decode(21) = add("rbx", Pointer(dest))
         /\ Decode(25) = load("rax", "rbx")
         /\ Decode(28) = pop("rbx") /\ Decode(29) = store("rax", Signed(Second(dest)), "rbx")
         /\ Decode(33) = pop("rbx") /\ Decode(34) = store("rax", Signed(First(dest)), "rbx")
         /\ Decode(38) = pop("rbp") /\ Decode(39) = pop("rdx") /\ Decode(40) = ret
<1>1. Decode(0) = push("rdx") /\ Decode(1) = push("rbp")
  <2>1. buffer[0 + 0] = 82 /\ buffer[1 + 0] = 85
    BY Bytes
  <2> QED
    BY <2>1 DEF Decode
<1>2. /\ Decode(38) = pop("rbp") /\ Decode(39) = pop("rdx") /\ Decode(40) = ret
      /\ Decode(28) = pop("rbx") /\ Decode(33) = pop("rbx")
  <2>1. /\ buffer[38 + 0] = 93 /\ buffer[39 + 0] = 90 /\ buffer[40 + 0] = 195
        /\ buffer[28 + 0] = 91 /\ buffer[33 + 0] = 91
    BY Bytes
  <2> QED
    BY <2>1 DEF Decode
<1>3. Decode(2) = move("rbx", "rbp") /\ Decode(18) = move("rbx", "rbp")
  <2>1. /\ buffer[2 + 0] = 72 /\ buffer[2 + 1] = 137 /\ buffer[2 + 2] = 235
        /\ buffer[18 + 0] = 72 /\ buffer[18 + 1] = 137 /\ buffer[18 + 2] = 235
    BY Bytes
  <2> QED
    BY <2>1 DEF Decode
<1>4. Decode(5) = add("rbx", Pointer(src)) /\ Decode(21) = add("rbx", Pointer(dest))
  <2>1. /\ buffer[5 + 0] = 72 /\ buffer[5 + 1] = 131 /\ buffer[5 + 2] = 195
        /\ buffer[5 + 3] = Pointer(src)
        /\ buffer[21 + 0] = 72 /\ buffer[21 + 1] = 131 /\ buffer[21 + 2] = 195
        /\ buffer[21 + 3] = Pointer(dest)
    BY Bytes
  <2>2. Signed(Pointer(src)) = Pointer(src) /\ Signed(Pointer(dest)) = Pointer(dest)
    <3>1. Pointer(src) \in {16, 24} /\ Pointer(dest) \in {16, 24}
      BY Operand
    <3> QED
      BY <3>1 DEF Signed
  <2> QED
    BY <2>1, <2>2 DEF Decode
<1>5. Decode(9) = load("rax", "rbx") /\ Decode(25) = load("rax", "rbx")
  <2>1. /\ buffer[9 + 0] = 72 /\ buffer[9 + 1] = 139 /\ buffer[9 + 2] = 3
        /\ buffer[25 + 0] = 72 /\ buffer[25 + 1] = 139 /\ buffer[25 + 2] = 3
    BY Bytes
  <2> QED
    BY <2>1 DEF Decode
<1>6. /\ Decode(12) = pushAt("rax", Signed(First(src)))
      /\ Decode(15) = pushAt("rax", Signed(Second(src)))
  <2>1. /\ buffer[12 + 0] = 255 /\ buffer[12 + 1] = 112 /\ buffer[12 + 2] = First(src)
        /\ buffer[15 + 0] = 255 /\ buffer[15 + 1] = 112 /\ buffer[15 + 2] = Second(src)
    BY Bytes
  <2> QED
    BY <2>1 DEF Decode
<1>7. /\ Decode(29) = store("rax", Signed(Second(dest)), "rbx")
      /\ Decode(34) = store("rax", Signed(First(dest)), "rbx")
  <2>1. /\ buffer[29 + 0] = 72 /\ buffer[29 + 1] = 137 /\ buffer[29 + 2] = 88
        /\ buffer[29 + 3] = Second(dest)
        /\ buffer[34 + 0] = 72 /\ buffer[34 + 1] = 137 /\ buffer[34 + 2] = 88
        /\ buffer[34 + 3] = First(dest)
    BY Bytes
  <2> QED
    BY <2>1 DEF Decode
<1> QED
  BY <1>1, <1>2, <1>3, <1>4, <1>5, <1>6, <1>7

-----------------------------------------------------------------------------
(* Memory. *)

(* The words of the stack and those of values are different words. *)
LEMMA StackWords ==
  /\ \A k \in 0 .. 32 : StackTop - 8 * k \in Stack
  /\ Stack \cap Data = {}
  /\ \A a \in Data : a \in Int /\ a >= 12160
<1>1. \A k \in 0 .. 32 : StackTop - 8 * k \in Stack
  BY DEF Stack
<1>2. \A a \in Stack : a \in Int /\ a <= 4096
  BY DEF Stack, StackTop
<1>3. \A a \in Data : a \in Int /\ a >= 12160
  BY DEF Data, Words, BlockAt
<1> QED
  BY <1>1, <1>2, <1>3

LEMMA DataWord ==
  ASSUME NEW id
  PROVE  /\ BlockAt(id \in Consts) \in Int
         /\ \A k \in -16 .. 127 : BlockAt(id \in Consts) + 8 * k \in Data
<1>1. CASE id \in Consts
  BY <1>1 DEF Data, Words, BlockAt
<1>2. CASE id \notin Consts
  BY <1>2 DEF Data, Words, BlockAt
<1> QED
  BY <1>1, <1>2

(* The words an operand's displacements reach. *)
At1(id) == BlockAt(id \in Consts) + Signed(First(id))
At2(id) == BlockAt(id \in Consts) + Signed(Second(id))

LEMMA Reach ==
  ASSUME NEW id \in LocalIds \cup Consts
  PROVE  /\ At1(id) \in Data /\ At2(id) \in Data
         /\ toValue(id) \in Data /\ toValue(id) + 8 \in Data
         /\ toValue(id) # toValue(id) + 8
         /\ Near(id) => At1(id) = toValue(id) /\ At2(id) = toValue(id) + 8
<1>1. PICK m \in 0 .. 63 : m = id % 64
  BY Operand
<1>2. PICK b \in Int : /\ b = BlockAt(id \in Consts)
                       /\ \A k \in -16 .. 127 : b + 8 * k \in Data
  BY DataWord
<1>3. PICK j \in -16 .. 127 : Signed(First(id)) = 8 * j
  <2>1. \A n \in 0 .. 63 :
          \E i \in -16 .. 127 :
            (IF (n * 16) % 256 < 128 THEN (n * 16) % 256 ELSE ((n * 16) % 256) - 256) = 8 * i
    OBVIOUS
  <2> QED
    BY <1>1, <2>1 DEF First, Signed, Byte, localIdx2ValueOff
<1>4. PICK k \in -16 .. 127 : Signed(Second(id)) = 8 * k
  <2>1. \A n \in 0 .. 63 :
          \E i \in -16 .. 127 :
            (IF (n * 16 + 8) % 256 < 128 THEN (n * 16 + 8) % 256
             ELSE ((n * 16 + 8) % 256) - 256) = 8 * i
    OBVIOUS
  <2> QED
    BY <1>1, <2>1 DEF Second, Signed, Byte, localIdx2ValueOff
<1>5. At1(id) \in Data /\ At2(id) \in Data
  BY <1>2, <1>3, <1>4 DEF At1, At2
<1>6. toValue(id) \in Data /\ toValue(id) + 8 \in Data
  <2>1. toValue(id) = b + 16 * m
    BY <1>1, <1>2 DEF toValue
  <2>2. PICK i \in -16 .. 127 : i = 2 * m
    BY <1>1
  <2>3. PICK n \in -16 .. 127 : n = 2 * m + 1
    BY <1>1
  <2>4. b + 8 * i \in Data /\ b + 8 * n \in Data
    BY <1>2
  <2>5. 16 * m = 8 * i /\ 16 * m + 8 = 8 * n
    BY <1>1, <2>2, <2>3
  <2> QED
    BY <2>1, <2>4, <2>5
<1>7. ASSUME Near(id) PROVE At1(id) = toValue(id) /\ At2(id) = toValue(id) + 8
  <2>1. m \in 0 .. 7
    BY <1>1, <1>7 DEF Near
  <2>2. \A n \in 0 .. 7 : (n * 16) % 256 = n * 16 /\ (n * 16 + 8) % 256 = n * 16 + 8
    OBVIOUS
  <2>3. First(id) = m * 16 /\ Second(id) = m * 16 + 8
    BY <1>1, <2>1, <2>2 DEF First, Second, Byte, localIdx2ValueOff
  <2>4. Signed(First(id)) = m * 16 /\ Signed(Second(id)) = m * 16 + 8
    BY <2>1, <2>3 DEF Signed
  <2>5. At1(id) = b + m * 16 /\ At2(id) = b + (m * 16 + 8)
    BY <1>2, <2>4 DEF At1, At2
  <2>6. toValue(id) = b + 16 * m
    BY <1>1, <1>2 DEF toValue
  <2> QED
    BY <1>1, <2>5, <2>6
<1>8. toValue(id) # toValue(id) + 8
  BY <1>6, StackWords
<1> QED
  BY <1>5, <1>6, <1>7, <1>8

(* The pointer of the frame that an operand's code loads. *)
LEMMA LocalBlock ==
  ASSUME NEW dest \in LocalIds
  PROVE  BlockAt(dest \in Consts) = BlockAt(FALSE)
<1>1. dest \notin Consts
  BY JitMoveAssumption
<1> QED
  BY <1>1 DEF BlockAt

LEMMA FrameHas ==
  ASSUME NEW id \in LocalIds \cup Consts
  PROVE  FramePointers[FrameAt + Pointer(id)] = BlockAt(id \in Consts)
<1>1. FramePointers[FrameAt + 16] = 12288 /\ FramePointers[FrameAt + 24] = 16384
  BY DEF FramePointers, FrameAt, BlockAt
<1>2. BlockAt(id \in Consts) = IF id \in Consts THEN 16384 ELSE 12288
  BY DEF BlockAt
<1> QED
  BY <1>1, <1>2, Operand

-----------------------------------------------------------------------------
(* What an instruction does to the stack. *)

MachineOK == DOMAIN reg = Register /\ DOMAIN mem = Data \cup Stack

PushDone(n, w) ==
  /\ MachineOK'
  /\ Depth(n + 1)'
  /\ Word(n + 1)' = w
  /\ \A k \in 1 .. 32 : k # n + 1 => Word(k)' = Word(k)
  /\ \A a \in Data : mem'[a] = mem[a]
  /\ \A r \in Register \ {"rsp"} : reg'[r] = reg[r]

LEMMA PushDoes ==
  ASSUME MachineOK, NEW n \in 0 .. 31, Depth(n), NEW w, Pushed(w)
  PROVE  PushDone(n, w)
<1>1. PICK s \in Int : s = StackTop - 8 * (n + 1)
  BY DEF StackTop
<1>2. reg["rsp"] - 8 = s
  BY <1>1 DEF Depth, StackTop
<1>3. s \in Stack /\ s \in DOMAIN mem
  <2>1. n + 1 \in 0 .. 32
    OBVIOUS
  <2> QED
    BY <1>1, <2>1, StackWords DEF MachineOK
<1>4. mem' = [mem EXCEPT ![s] = w] /\ reg' = [reg EXCEPT !["rsp"] = s]
  BY <1>2 DEF Pushed, Rsp
<1>5. MachineOK' /\ reg'["rsp"] = s /\ mem'[s] = w
  BY <1>3, <1>4 DEF MachineOK, Register, Saved
<1>6. \A r \in Register \ {"rsp"} : reg'[r] = reg[r]
  BY <1>4 DEF MachineOK
<1>7. \A a \in Data : mem'[a] = mem[a]
  BY <1>3, <1>4, StackWords DEF MachineOK
<1>8. ASSUME NEW k \in 1 .. 32, k # n + 1 PROVE mem'[StackTop - 8 * k] = mem[StackTop - 8 * k]
  <2>1. StackTop - 8 * k # s
    BY <1>1, <1>8 DEF StackTop
  <2>2. StackTop - 8 * k \in DOMAIN mem
    BY <1>8, StackWords DEF MachineOK
  <2> QED
    BY <1>4, <2>1, <2>2
<1> QED
  BY <1>1, <1>5, <1>6, <1>7, <1>8 DEF PushDone, Depth, Word

PopDone(n, r) ==
  /\ MachineOK'
  /\ Depth(n)'
  /\ reg'[r] = Word(n + 1)
  /\ \A q \in Register \ {"rsp", r} : reg'[q] = reg[q]

SetReg(r, v) == reg' = [reg EXCEPT ![r] = v] /\ UNCHANGED mem
Popped(r) == reg' = [reg EXCEPT !["rsp"] = Rsp + 8, ![r] = mem[Rsp]] /\ UNCHANGED mem

LEMMA PopDoes ==
  ASSUME MachineOK, NEW n \in 0 .. 31, Depth(n + 1), NEW r \in Register, r # "rsp", Popped(r)
  PROVE  PopDone(n, r) /\ UNCHANGED mem
<1>1. Rsp = StackTop - 8 * (n + 1) /\ Rsp + 8 = StackTop - 8 * n
  BY DEF Depth, StackTop, Rsp
<1>2. reg'["rsp"] = StackTop - 8 * n
  BY <1>1 DEF MachineOK, Register, Saved, Popped
<1>3. reg'[r] = Word(n + 1)
  BY <1>1 DEF MachineOK, Word, Popped
<1>4. MachineOK' /\ \A q \in Register \ {"rsp", r} : reg'[q] = reg[q]
  BY DEF MachineOK, Popped
<1> QED
  BY <1>2, <1>3, <1>4 DEF PopDone, Depth, Popped

(* Another register. *)
LEMMA SetDoes ==
  ASSUME MachineOK, NEW r \in Register, NEW v, SetReg(r, v)
  PROVE  /\ MachineOK' /\ reg'[r] = v /\ UNCHANGED mem
         /\ \A q \in Register \ {r} : reg'[q] = reg[q]
BY DEF MachineOK, SetReg

-----------------------------------------------------------------------------
(* The trampoline. *)

LEMMA Trampoline ==
  /\ trampoline[1] = push("rbp") /\ trampoline[2] = move("rbp", "rsp")
  /\ trampoline[3] = push("r12") /\ trampoline[4] = push("r13")
  /\ trampoline[5] = push("r14") /\ trampoline[6] = push("r15")
  /\ trampoline[7] = push("rbx") /\ trampoline[8] = push("r9")
  /\ trampoline[9] = push("r8") /\ trampoline[10] = push("rcx")
  /\ trampoline[11] = push("rdx") /\ trampoline[12] = push("rsi")
  /\ trampoline[13] = push("rdi") /\ trampoline[14] = add("rsp", -72)
  /\ trampoline[15] = set("r12", 512) /\ trampoline[16] = set("r14", 0)
  /\ trampoline[17] = set("r15", 2) /\ trampoline[18] = move("r13", "rdx")
  /\ trampoline[19] = move("rbp", "rsi") /\ trampoline[20] = call("rdi")
  /\ trampoline[21] = add("rsp", 120) /\ trampoline[22] = pop("rbx")
  /\ trampoline[23] = pop("r15") /\ trampoline[24] = pop("r14")
  /\ trampoline[25] = pop("r13") /\ trampoline[26] = pop("r12")
  /\ trampoline[27] = pop("rbp") /\ trampoline[28] = ret
BY DEF trampoline

(* What an instruction does, by its kind. *)
Does(i) == (Registers(i) /\ UNCHANGED mem) \/ Memory(i)

LEMMA Doing ==
  /\ \A r : Does(push(r)) => Pushed(reg[r])
  /\ \A r, n : Does(pushAt(r, n)) => Pushed(mem[reg[r] + n])
  /\ \A r : Does(pop(r)) => Popped(r)
  /\ \A r, q : Does(move(r, q)) => SetReg(r, reg[q])
  /\ \A r, n : Does(add(r, n)) => SetReg(r, reg[r] + n)
  /\ \A r, n : Does(set(r, n)) => SetReg(r, n)
  /\ \A r, q : Does(load(r, q)) => SetReg(r, FramePointers[reg[q]])
  /\ \A r, n, q : Does(store(r, n, q)) =>
       mem' = [mem EXCEPT ![reg[r] + n] = reg[q]] /\ UNCHANGED reg
  /\ \A r : ~ Does(call(r)) /\ ~ Does(ret)
BY DEF Does, Registers, Memory, push, pushAt, pop, move, add, set, load, store, call, ret,
       SetReg, Popped

PushesAt == {1} \cup 3 .. 13

LEMMA TrampolinePush ==
  ASSUME MachineOK, NEW ip \in PushesAt, TrampolineAt(ip), NEW r \in Register,
         trampoline[ip] = push(r), Does(trampoline[ip]), UNCHANGED offset
  PROVE  MachineOK' /\ TrampolineAt(ip + 1)' /\ \A a \in Data : mem'[a] = mem[a]
<1>1. PICK n \in 0 .. 11 : n = TrampolineDepth(ip) /\ TrampolineDepth(ip + 1) = n + 1
  BY DEF PushesAt, TrampolineDepth
<1>2. Depth(n)
  BY <1>1 DEF TrampolineAt
<1>3. PICK w : w = reg[r]
  OBVIOUS
<1>4. Pushed(w)
  BY <1>3, Doing
<1>5. PushDone(n, w)
  BY <1>2, <1>4, PushDoes
<1>6. n + 1 <= 6 => w = Callers[PushedFirst[n + 1]]
  <2>1. CASE ip \in {1, 3, 4, 5, 6, 7}
    <3>1. n + 1 = IF ip = 1 THEN 1 ELSE ip - 1
      BY <1>1, <2>1 DEF TrampolineDepth
    <3>2. /\ PushedFirst[1] = "rbp" /\ PushedFirst[2] = "r12" /\ PushedFirst[3] = "r13"
          /\ PushedFirst[4] = "r14" /\ PushedFirst[5] = "r15" /\ PushedFirst[6] = "rbx"
      BY DEF PushedFirst
    <3>3. r = PushedFirst[n + 1]
      BY <2>1, <3>1, <3>2, Trampoline DEF push
    <3>4. reg[r] = Callers[r]
      BY <2>1, <3>1, <3>2, <3>3 DEF TrampolineAt
    <3> QED
      BY <1>3, <3>3, <3>4
  <2>2. CASE ip \notin {1, 3, 4, 5, 6, 7}
    <3>1. n + 1 > 6
      BY <1>1, <2>2 DEF TrampolineDepth, PushesAt
    <3> QED
      BY <3>1
  <2> QED
    BY <2>1, <2>2
<1>7. KeptUpTo(n + 1)'
  <2>1. SUFFICES ASSUME NEW k \in 1 .. 6, k <= n + 1
                 PROVE  Word(k)' = Callers[PushedFirst[k]]
    BY DEF KeptUpTo
  <2>2. CASE k = n + 1
    BY <1>5, <1>6, <2>2 DEF PushDone
  <2>3. CASE k # n + 1
    <3>1. k <= n /\ k \in 1 .. 32
      BY <2>1, <2>3
    <3>2. Word(k) = Callers[PushedFirst[k]]
      BY <1>1, <2>1, <3>1 DEF TrampolineAt, KeptUpTo
    <3> QED
      BY <1>5, <2>3, <3>1, <3>2 DEF PushDone
  <2> QED
    BY <2>2, <2>3
<1>8. \A q \in {"rbp", "r12", "r13", "r14", "r15", "rbx", "rdi", "rsi"} : reg'[q] = reg[q]
  BY <1>5 DEF PushDone, Register, Saved
<1>9. ip + 1 \in 1 .. 28 /\ ip + 1 # 20 /\ ip \in 1 .. 13
  BY DEF PushesAt
<1>10. /\ ip \notin 3 .. 27 => reg'["rbp"] = Callers["rbp"]
       /\ ip + 1 \notin 3 .. 27 => ip \notin 3 .. 27
  BY <1>8, <1>9 DEF TrampolineAt
<1>11. TrampolineAt(ip + 1)'
  BY <1>1, <1>5, <1>7, <1>8, <1>9, <1>10 DEF TrampolineAt, PushDone
<1> QED
  BY <1>5, <1>11 DEF PushDone

(* What stays when the stack does. *)
LEMMA KeptStays ==
  ASSUME NEW n, NEW m, KeptUpTo(n), UNCHANGED mem, \A k \in 1 .. 6 : k <= m => k <= n
  PROVE  KeptUpTo(m)'
BY DEF KeptUpTo, Word

LEMMA TrampolineSet ==
  ASSUME MachineOK, NEW ip \in {2, 14, 15, 16, 17, 18, 19, 21}, TrampolineAt(ip),
         Does(trampoline[ip]), UNCHANGED offset
  PROVE  MachineOK' /\ TrampolineAt(ip + 1)' /\ \A a \in Data : mem'[a] = mem[a]
<1> DEFINE Regs == {"rbp", "r12", "r13", "r14", "r15", "rbx", "rdi", "rsi", "rsp"}
<1>1. Depth(TrampolineDepth(ip)) /\ KeptUpTo(TrampolineDepth(ip))
  BY DEF TrampolineAt
<1>2. Regs \subseteq Register /\ "rdx" \in Register
  BY DEF Register, Saved
<1>3. ASSUME UNCHANGED mem, MachineOK', Depth(TrampolineDepth(ip + 1))'
      PROVE  /\ KeptUpTo(TrampolineDepth(ip + 1))' /\ Depth(TrampolineDepth(ip + 1))'
             /\ MachineOK' /\ \A a \in Data : mem'[a] = mem[a]
  <2>1. \A k \in 1 .. 6 : k <= TrampolineDepth(ip + 1) => k <= TrampolineDepth(ip)
    BY DEF TrampolineDepth
  <2> QED
    BY <1>1, <1>3, <2>1, KeptStays
<1>4. CASE ip = 2
  <2>1. SetReg("rbp", reg["rsp"])
    BY <1>4, Trampoline, Doing
  <2>2. MachineOK' /\ UNCHANGED mem /\ \A q \in Register \ {"rbp"} : reg'[q] = reg[q]
    BY <1>2, <2>1, SetDoes
  <2>3. TrampolineDepth(ip + 1) = TrampolineDepth(ip)
    BY <1>4 DEF TrampolineDepth
  <2>4. Depth(TrampolineDepth(ip + 1))'
    BY <1>1, <1>2, <2>2, <2>3 DEF Depth
  <2> QED
    BY <1>2, <1>3, <1>4, <2>1, <2>2, <2>4 DEF TrampolineAt
<1>5. CASE ip = 14
  <2>1. SetReg("rsp", reg["rsp"] + -72)
    BY <1>5, Trampoline, Doing
  <2>2. /\ MachineOK' /\ UNCHANGED mem /\ \A q \in Register \ {"rsp"} : reg'[q] = reg[q]
        /\ reg'["rsp"] = reg["rsp"] + -72
    BY <1>2, <2>1, SetDoes
  <2>3. TrampolineDepth(ip + 1) = 21 /\ TrampolineDepth(ip) = 12
    BY <1>5 DEF TrampolineDepth
  <2>4. Depth(TrampolineDepth(ip + 1))'
    BY <1>1, <2>2, <2>3 DEF Depth, StackTop
  <2> QED
    BY <1>2, <1>3, <1>5, <2>1, <2>2, <2>4 DEF TrampolineAt
<1>6. ASSUME NEW r \in {"r12", "r13", "r14", "r15"}, NEW v,
             SetReg(r, v),
             ip \in {15, 16, 17, 18},
             r = CASE ip = 15 -> "r12" [] ip = 16 -> "r14" [] ip = 17 -> "r15" [] ip = 18 -> "r13"
      PROVE  MachineOK' /\ TrampolineAt(ip + 1)' /\ \A a \in Data : mem'[a] = mem[a]
  <2>1. MachineOK' /\ UNCHANGED mem /\ \A q \in Register \ {r} : reg'[q] = reg[q]
    BY <1>2, <1>6, SetDoes
  <2>2. TrampolineDepth(ip + 1) = TrampolineDepth(ip)
    BY <1>6 DEF TrampolineDepth
  <2>3. Depth(TrampolineDepth(ip + 1))'
    BY <1>1, <1>2, <2>1, <2>2 DEF Depth
  <2>4. /\ KeptUpTo(TrampolineDepth(ip + 1))' /\ Depth(TrampolineDepth(ip + 1))'
        /\ \A a \in Data : mem'[a] = mem[a]
    BY <1>3, <1>6, <2>1, <2>3
  <2>5. \A q \in Regs : q # r => reg'[q] = reg[q]
    BY <1>2, <2>1
  <2>6. CASE ip = 15
    BY <1>6, <2>1, <2>4, <2>5, <2>6 DEF TrampolineAt
  <2>7. CASE ip = 16
    BY <1>6, <2>1, <2>4, <2>5, <2>7 DEF TrampolineAt
  <2>8. CASE ip = 17
    BY <1>6, <2>1, <2>4, <2>5, <2>8 DEF TrampolineAt
  <2>9. CASE ip = 18
    BY <1>6, <2>1, <2>4, <2>5, <2>9 DEF TrampolineAt
  <2> QED
    BY <1>6, <2>6, <2>7, <2>8, <2>9
<1>7. CASE ip = 15
  <2>1. SetReg("r12", 512)
    BY <1>7, Trampoline, Doing
  <2> QED
    BY <1>6, <1>7, <2>1
<1>8. CASE ip = 16
  <2>1. SetReg("r14", 0)
    BY <1>8, Trampoline, Doing
  <2> QED
    BY <1>6, <1>8, <2>1
<1>9. CASE ip = 17
  <2>1. SetReg("r15", 2)
    BY <1>9, Trampoline, Doing
  <2> QED
    BY <1>6, <1>9, <2>1
<1>10. CASE ip = 18
  <2>1. SetReg("r13", reg["rdx"])
    BY <1>10, Trampoline, Doing
  <2> QED
    BY <1>6, <1>10, <2>1
<1>11. CASE ip = 19
  <2>1. SetReg("rbp", reg["rsi"])
    BY <1>11, Trampoline, Doing
  <2>2. /\ MachineOK' /\ UNCHANGED mem /\ \A q \in Register \ {"rbp"} : reg'[q] = reg[q]
        /\ reg'["rbp"] = reg["rsi"]
    BY <1>2, <2>1, SetDoes
  <2>3. TrampolineDepth(ip + 1) = TrampolineDepth(ip)
    BY <1>11 DEF TrampolineDepth
  <2>4. Depth(TrampolineDepth(ip + 1))'
    BY <1>1, <1>2, <2>2, <2>3 DEF Depth
  <2> QED
    BY <1>2, <1>3, <1>11, <2>1, <2>2, <2>4 DEF TrampolineAt
<1>12. CASE ip = 21
  <2>1. SetReg("rsp", reg["rsp"] + 120)
    BY <1>12, Trampoline, Doing
  <2>2. /\ MachineOK' /\ UNCHANGED mem /\ \A q \in Register \ {"rsp"} : reg'[q] = reg[q]
        /\ reg'["rsp"] = reg["rsp"] + 120
    BY <1>2, <2>1, SetDoes
  <2>3. TrampolineDepth(ip + 1) = 6 /\ TrampolineDepth(ip) = 21
    BY <1>12 DEF TrampolineDepth
  <2>4. Depth(TrampolineDepth(ip + 1))'
    BY <1>1, <2>2, <2>3 DEF Depth, StackTop
  <2> QED
    BY <1>2, <1>3, <1>12, <2>1, <2>2, <2>4 DEF TrampolineAt
<1> QED
  BY <1>4, <1>5, <1>7, <1>8, <1>9, <1>10, <1>11, <1>12

LEMMA TrampolinePop ==
  ASSUME MachineOK, NEW ip \in 22 .. 27, TrampolineAt(ip),
         Does(trampoline[ip]), UNCHANGED offset
  PROVE  MachineOK' /\ TrampolineAt(ip + 1)' /\ \A a \in Data : mem'[a] = mem[a]
<1>1. PICK n \in 0 .. 5 : n = 27 - ip /\ TrampolineDepth(ip) = n + 1 /\ TrampolineDepth(ip + 1) = n
  BY DEF TrampolineDepth
<1>2. PICK r : r = PushedFirst[n + 1]
  OBVIOUS
<1>3. /\ ip = 22 => r = "rbx"
      /\ ip = 23 => r = "r15"
      /\ ip = 24 => r = "r14"
      /\ ip = 25 => r = "r13"
      /\ ip = 26 => r = "r12"
      /\ ip = 27 => r = "rbp"
      /\ ip \in {22, 23, 24, 25, 26, 27}
  <2>1. /\ PushedFirst[1] = "rbp" /\ PushedFirst[2] = "r12" /\ PushedFirst[3] = "r13"
        /\ PushedFirst[4] = "r14" /\ PushedFirst[5] = "r15" /\ PushedFirst[6] = "rbx"
    BY DEF PushedFirst
  <2> QED
    BY <1>1, <1>2, <2>1
<1>4. trampoline[ip] = pop(r) /\ r \in Register /\ r # "rsp"
  BY <1>3, Trampoline DEF Register, Saved
<1>5. Depth(n + 1) /\ KeptUpTo(n + 1)
  BY <1>1 DEF TrampolineAt
<1>6. Popped(r)
  BY <1>4, Doing
<1>7. PopDone(n, r) /\ UNCHANGED mem
  BY <1>5, <1>6, <1>4, PopDoes
<1>8. reg'[r] = Callers[r]
  <2>1. n + 1 \in 1 .. 6 /\ n + 1 <= n + 1
    OBVIOUS
  <2>2. Word(n + 1) = Callers[PushedFirst[n + 1]]
    BY <1>5, <2>1 DEF KeptUpTo
  <2> QED
    BY <1>2, <1>7, <2>2 DEF PopDone
<1>9. KeptUpTo(n)'
  <2>1. \A k \in 1 .. 6 : k <= n => k <= n + 1
    OBVIOUS
  <2> QED
    BY <1>5, <1>7, <2>1, KeptStays
<1>10. \A q \in {"rbp", "r12", "r13", "r14", "r15", "rbx", "rdi", "rsi"} : q # r => reg'[q] = reg[q]
  BY <1>7 DEF PopDone, Register, Saved
<1>11. Depth(TrampolineDepth(ip + 1))' /\ KeptUpTo(TrampolineDepth(ip + 1))'
  BY <1>1, <1>7, <1>9 DEF PopDone
<1>12. ip + 1 \in 1 .. 28 /\ ip + 1 \in 23 .. 28
  OBVIOUS
<1>13. ASSUME ip = 22 PROVE TrampolineAt(ip + 1)'
  BY <1>3, <1>8, <1>10, <1>11, <1>13 DEF TrampolineAt
<1>14. ASSUME ip = 23 PROVE TrampolineAt(ip + 1)'
  BY <1>3, <1>8, <1>10, <1>11, <1>14 DEF TrampolineAt
<1>15. ASSUME ip = 24 PROVE TrampolineAt(ip + 1)'
  BY <1>3, <1>8, <1>10, <1>11, <1>15 DEF TrampolineAt
<1>16. ASSUME ip = 25 PROVE TrampolineAt(ip + 1)'
  BY <1>3, <1>8, <1>10, <1>11, <1>16 DEF TrampolineAt
<1>17. ASSUME ip = 26 PROVE TrampolineAt(ip + 1)'
  BY <1>3, <1>8, <1>10, <1>11, <1>17 DEF TrampolineAt
<1>18. ASSUME ip = 27 PROVE TrampolineAt(ip + 1)'
  BY <1>3, <1>8, <1>10, <1>11, <1>18 DEF TrampolineAt
<1>19. TrampolineAt(ip + 1)'
  BY <1>3, <1>13, <1>14, <1>15, <1>16, <1>17, <1>18
<1> QED
  BY <1>7, <1>19 DEF PopDone

(* Every instruction of the trampoline but its call and its return. *)
LEMMA TrampolineStep ==
  ASSUME MachineOK, NEW ip \in 1 .. 28, TrampolineAt(ip), Does(trampoline[ip]), UNCHANGED offset
  PROVE  /\ MachineOK' /\ TrampolineAt(ip + 1)' /\ \A a \in Data : mem'[a] = mem[a]
         /\ ip \notin {20, 28}
<1>1. CASE ip \in PushesAt
  <2>1. PICK r \in Register : trampoline[ip] = push(r)
    BY <1>1, Trampoline DEF PushesAt, Register, Saved
  <2> QED
    BY <1>1, <2>1, TrampolinePush DEF PushesAt
<1>2. CASE ip \in {2, 14, 15, 16, 17, 18, 19, 21}
  BY <1>2, TrampolineSet
<1>3. CASE ip \in 22 .. 27
  BY <1>3, TrampolinePop
<1>4. CASE ip \in {20, 28}
  <2>1. trampoline[ip] = call("rdi") \/ trampoline[ip] = ret
    BY <1>4, Trampoline
  <2> QED
    BY <2>1, Doing
<1> QED
  BY <1>1, <1>2, <1>3, <1>4 DEF PushesAt

-----------------------------------------------------------------------------
(* The code. *)

(* What a step of the code shows, of the point it leaves and the next one. *)
CodeGoes(p, q, dest, src) ==
  /\ MachineOK' /\ CodeAt(q, dest, src)'
  /\ DataAt(p, dest, src) /\ AllNear => DataAt(q, dest, src)'

(* Registers are set. *)
LEMMA CodeSet ==
  ASSUME MachineOK, NEW dest \in LocalIds, NEW src \in LocalIds \cup Consts,
         NEW p \in {2, 5, 9, 18, 21, 25}, NEW q, CodeAt(p, dest, src), UNCHANGED expected,
         NEW r \in {"rbx", "rax"}, NEW v, SetReg(r, v),
         \/ p = 2 /\ q = 5 /\ r = "rbx" /\ v = reg["rbp"]
         \/ p = 18 /\ q = 21 /\ r = "rbx" /\ v = reg["rbp"]
         \/ p = 5 /\ q = 9 /\ r = "rbx" /\ v = FrameAt + localIdx2RbpOff(src)
         \/ p = 21 /\ q = 25 /\ r = "rbx" /\ v = FrameAt + localIdx2RbpOff(dest)
         \/ p = 9 /\ q = 12 /\ r = "rax" /\ v = BlockAt(src \in Consts)
         \/ p = 25 /\ q = 28 /\ r = "rax" /\ v = BlockAt(FALSE)
  PROVE  CodeGoes(p, q, dest, src)
<1>1. {"rbx", "rax", "rsp", "rbp"} \subseteq Register
  BY DEF Register, Saved
<1>2. /\ MachineOK' /\ reg'[r] = v /\ UNCHANGED mem
      /\ \A x \in Register \ {r} : reg'[x] = reg[x]
  BY <1>1, SetDoes
<1>3. reg'["rsp"] = reg["rsp"] /\ reg'["rbp"] = reg["rbp"]
  BY <1>1, <1>2
<1>4. Depth(CodeDepth(q))' /\ q \in Points
  <2>1. /\ CodeDepth(2) = 24 /\ CodeDepth(5) = 24 /\ CodeDepth(9) = 24 /\ CodeDepth(12) = 24
        /\ CodeDepth(18) = 26 /\ CodeDepth(21) = 26 /\ CodeDepth(25) = 26 /\ CodeDepth(28) = 26
    BY DEF CodeDepth
  <2>2. <<p, q>> \in {<<2, 5>>, <<18, 21>>, <<5, 9>>, <<21, 25>>, <<9, 12>>, <<25, 28>>}
    OBVIOUS
  <2>3. CodeDepth(q) = CodeDepth(p) /\ q \in Points
    BY <2>1, <2>2 DEF Points
  <2> QED
    BY <1>3, <2>3 DEF CodeAt, Depth
<1>5. KeptUpTo(6)' /\ Word(22)' = Word(22) /\ Word(24)' = Word(24)
  BY <1>2 DEF CodeAt, KeptUpTo, Word
<1>6. CodeAt(q, dest, src)'
  <2>1. CASE p = 2 /\ q = 5
    BY <1>2, <1>3, <1>4, <1>5, <2>1 DEF CodeAt
  <2>2. CASE p = 18 /\ q = 21
    BY <1>2, <1>3, <1>4, <1>5, <2>2 DEF CodeAt
  <2>3. CASE p = 5 /\ q = 9
    BY <1>2, <1>3, <1>4, <1>5, <2>3 DEF CodeAt
  <2>4. CASE p = 21 /\ q = 25
    BY <1>2, <1>3, <1>4, <1>5, <2>4 DEF CodeAt
  <2>5. CASE p = 9 /\ q = 12
    BY <1>2, <1>3, <1>4, <1>5, <2>5 DEF CodeAt
  <2>6. CASE p = 25 /\ q = 28
    BY <1>2, <1>3, <1>4, <1>5, <2>6 DEF CodeAt, BlockAt
  <2> QED
    BY <2>1, <2>2, <2>3, <2>4, <2>5, <2>6
<1>7. ASSUME DataAt(p, dest, src) PROVE DataAt(q, dest, src)'
  <2>1. Unmoved(dest, src)'
    BY <1>2, <1>7 DEF DataAt, Unmoved
  <2>2. Word(25)' = Word(25) /\ Word(26)' = Word(26)
    BY <1>2 DEF Word
  <2>3. p \in {18, 21, 25} =>
          Word(25) = expected[toValue(dest)] /\ Word(26) = expected[toValue(dest) + 8]
    BY <1>7 DEF DataAt
  <2>4. <<p, q>> \in {<<2, 5>>, <<18, 21>>, <<5, 9>>, <<21, 25>>, <<9, 12>>, <<25, 28>>}
    OBVIOUS
  <2>5. CASE p \in {2, 5, 9} /\ q \in {5, 9, 12}
    BY <2>1, <2>5 DEF DataAt
  <2>6. CASE p \in {18, 21, 25} /\ q \in {21, 25, 28}
    BY <2>1, <2>2, <2>3, <2>6 DEF DataAt
  <2> QED
    BY <2>4, <2>5, <2>6
<1> QED
  BY <1>2, <1>6, <1>7 DEF CodeGoes

(* Words are pushed. *)
LEMMA CodePush ==
  ASSUME MachineOK, NEW dest \in LocalIds, NEW src \in LocalIds \cup Consts,
         NEW p \in {0, 1, 12, 15}, NEW q, CodeAt(p, dest, src), UNCHANGED expected,
         NEW w, Pushed(w),
         \/ p = 0 /\ q = 1
         \/ p = 1 /\ q = 2 /\ w = FrameAt
         \/ p = 12 /\ q = 15 /\ w = mem[At1(src)]
         \/ p = 15 /\ q = 18 /\ w = mem[At2(src)]
  PROVE  CodeGoes(p, q, dest, src)
<1>1. PICK n \in 22 .. 25 : n = CodeDepth(p) /\ n + 1 = CodeDepth(q)
  BY DEF CodeDepth
<1>2. Depth(n) /\ n \in 0 .. 31
  BY <1>1 DEF CodeAt
<1>3. PushDone(n, w)
  BY <1>2, PushDoes
<1>4. /\ MachineOK' /\ Depth(CodeDepth(q))' /\ Word(n + 1)' = w
      /\ \A k \in 1 .. 32 : k # n + 1 => Word(k)' = Word(k)
      /\ \A a \in Data : mem'[a] = mem[a]
      /\ \A r \in Register \ {"rsp"} : reg'[r] = reg[r]
  BY <1>1, <1>3 DEF PushDone
<1>5. \A k \in 1 .. 22 : Word(k)' = Word(k)
  <2>1. \A k \in 1 .. 22 : k \in 1 .. 32 /\ k # n + 1
    OBVIOUS
  <2> QED
    BY <1>4, <2>1
<1>6. KeptUpTo(6)'
  BY <1>5 DEF CodeAt, KeptUpTo
<1>7. Word(22)' = 21
  BY <1>5 DEF CodeAt
<1>8. q >= 2 => Word(24)' = FrameAt
  <2>1. CASE p = 1
    <3>1. n + 1 = 24
      BY <1>1, <2>1 DEF CodeDepth
    <3> QED
      BY <1>4, <2>1, <3>1
  <2>2. CASE p \in {12, 15}
    <3>1. n + 1 # 24
      BY <1>1, <2>2 DEF CodeDepth
    <3> QED
      BY <1>4, <2>2, <3>1 DEF CodeAt
  <2> QED
    BY <2>1, <2>2
<1>9. reg'["rbp"] = reg["rbp"] /\ reg'["rax"] = reg["rax"]
  BY <1>4 DEF Register, Saved
<1>10. CodeAt(q, dest, src)'
  <2>1. q \in Points
    BY DEF Points
  <2>2. CASE p = 0 /\ q = 1
    BY <1>4, <1>6, <1>7, <1>8, <1>9, <2>1, <2>2 DEF CodeAt
  <2>3. CASE p = 1 /\ q = 2
    BY <1>4, <1>6, <1>7, <1>8, <1>9, <2>1, <2>3 DEF CodeAt
  <2>4. CASE p = 12 /\ q = 15
    BY <1>4, <1>6, <1>7, <1>8, <1>9, <2>1, <2>4 DEF CodeAt
  <2>5. CASE p = 15 /\ q = 18
    BY <1>4, <1>6, <1>7, <1>8, <1>9, <2>1, <2>5 DEF CodeAt
  <2> QED
    BY <2>2, <2>3, <2>4, <2>5
<1>11. ASSUME DataAt(p, dest, src), AllNear PROVE DataAt(q, dest, src)'
  <2>1. /\ toValue(dest) \in Data /\ toValue(dest) + 8 \in Data
        /\ toValue(src) \in Data /\ toValue(src) + 8 \in Data
        /\ At1(src) = toValue(src) /\ At2(src) = toValue(src) + 8
    BY <1>11, Reach DEF AllNear
  <2>2. Unmoved(dest, src)
    BY <1>11 DEF DataAt
  <2>3. Unmoved(dest, src)'
    BY <1>4, <2>1, <2>2 DEF Unmoved
  <2>4. q = 15 => Word(25)' = expected'[toValue(dest)]
    <3>1. p = 12 => n + 1 = 25
      BY <1>1 DEF CodeDepth
    <3> QED
      BY <1>4, <2>1, <2>2, <3>1 DEF Unmoved
  <2>5. q = 18 => /\ Word(25)' = expected'[toValue(dest)]
                  /\ Word(26)' = expected'[toValue(dest) + 8]
    <3>1. p = 15 => n + 1 = 26 /\ Word(25) = expected[toValue(dest)]
      BY <1>1, <1>11 DEF CodeDepth, DataAt
    <3>2. 25 \in 1 .. 32
      OBVIOUS
    <3> QED
      BY <1>4, <2>1, <2>2, <3>1, <3>2 DEF Unmoved
  <2> QED
    BY <2>3, <2>4, <2>5 DEF DataAt
<1> QED
  BY <1>4, <1>10, <1>11 DEF CodeGoes

(* Words are popped. *)
LEMMA CodePop ==
  ASSUME MachineOK, NEW dest \in LocalIds, NEW src \in LocalIds \cup Consts,
         NEW p \in {28, 33, 38, 39}, NEW q, CodeAt(p, dest, src), UNCHANGED expected,
         NEW r \in Register, Popped(r),
         \/ p = 28 /\ q = 29 /\ r = "rbx"
         \/ p = 33 /\ q = 34 /\ r = "rbx"
         \/ p = 38 /\ q = 39 /\ r = "rbp"
         \/ p = 39 /\ q = 40 /\ r = "rdx"
  PROVE  CodeGoes(p, q, dest, src)
<1>1. PICK n \in 22 .. 25 : n + 1 = CodeDepth(p) /\ n = CodeDepth(q)
  BY DEF CodeDepth
<1>2. Depth(n + 1) /\ n \in 0 .. 31 /\ r # "rsp"
  BY <1>1 DEF CodeAt
<1>3. PopDone(n, r) /\ UNCHANGED mem
  BY <1>2, PopDoes
<1>4. /\ MachineOK' /\ Depth(CodeDepth(q))' /\ reg'[r] = Word(n + 1)
      /\ \A x \in Register \ {"rsp", r} : reg'[x] = reg[x]
  BY <1>1, <1>3 DEF PopDone
<1>5. KeptUpTo(6)' /\ \A k : Word(k)' = Word(k)
  BY <1>3 DEF CodeAt, KeptUpTo, Word
<1>6. /\ q \in {29, 34} => reg'["rbp"] = reg["rbp"]
      /\ q \in {29, 34} => reg'["rax"] = reg["rax"]
      /\ q \in Points
  BY <1>4 DEF Register, Saved, Points
<1>7. CodeAt(q, dest, src)'
  <2>1. CASE p = 28 /\ q = 29
    BY <1>4, <1>5, <1>6, <2>1 DEF CodeAt, BlockAt
  <2>2. CASE p = 33 /\ q = 34
    BY <1>4, <1>5, <1>6, <2>2 DEF CodeAt, BlockAt
  <2>3. CASE p = 38 /\ q = 39
    BY <1>4, <1>5, <1>6, <2>3 DEF CodeAt
  <2>4. CASE p = 39 /\ q = 40
    BY <1>4, <1>5, <1>6, <2>4 DEF CodeAt
  <2> QED
    BY <2>1, <2>2, <2>3, <2>4
<1>8. ASSUME DataAt(p, dest, src), p = 28 PROVE DataAt(q, dest, src)'
  <2>1. n + 1 = 26
    BY <1>1, <1>8 DEF CodeDepth
  <2>2. reg'["rbx"] = expected'[toValue(dest) + 8] /\ Word(25)' = expected'[toValue(dest)]
    BY <1>4, <1>5, <1>8, <2>1 DEF DataAt
  <2>3. Unmoved(dest, src)'
    BY <1>3, <1>8 DEF DataAt, Unmoved
  <2> QED
    BY <1>8, <2>2, <2>3 DEF DataAt
<1>9. ASSUME DataAt(p, dest, src), p = 33 PROVE DataAt(q, dest, src)'
  <2>1. n + 1 = 25
    BY <1>1, <1>9 DEF CodeDepth
  <2>2. reg'["rbx"] = expected'[toValue(dest)]
    BY <1>4, <1>9, <2>1 DEF DataAt
  <2>3. \A a \in Data \ {toValue(dest)} : mem'[a] = expected'[a]
    BY <1>3, <1>9 DEF DataAt
  <2> QED
    BY <1>9, <2>2, <2>3 DEF DataAt
<1>10. ASSUME DataAt(p, dest, src), p \in {38, 39} PROVE DataAt(q, dest, src)'
  <2>1. Moved'
    BY <1>3, <1>10 DEF DataAt, Moved
  <2> QED
    BY <1>10, <2>1 DEF DataAt
<1> QED
  BY <1>4, <1>7, <1>8, <1>9, <1>10 DEF CodeGoes

(* Words are stored. *)
LEMMA CodeStore ==
  ASSUME MachineOK, NEW dest \in LocalIds, NEW src \in LocalIds \cup Consts,
         NEW p \in {29, 34}, NEW q, CodeAt(p, dest, src), UNCHANGED <<expected, reg>>,
         NEW x, mem' = [mem EXCEPT ![x] = reg["rbx"]],
         \/ p = 29 /\ q = 33 /\ x = At2(dest)
         \/ p = 34 /\ q = 38 /\ x = At1(dest)
  PROVE  CodeGoes(p, q, dest, src)
<1>1. /\ x \in Data /\ toValue(dest) \in Data /\ toValue(dest) + 8 \in Data
      /\ toValue(dest) # toValue(dest) + 8
      /\ AllNear => At1(dest) = toValue(dest) /\ At2(dest) = toValue(dest) + 8
  BY Reach DEF AllNear
<1>2. \A k \in 0 .. 32 : Word(k)' = Word(k)
  <2>1. \A k \in 0 .. 32 : StackTop - 8 * k \in DOMAIN mem /\ StackTop - 8 * k # x
    BY <1>1, StackWords DEF MachineOK
  <2> QED
    BY <2>1 DEF Word
<1>3. mem'[x] = reg["rbx"] /\ MachineOK' /\ \A a \in Data : a # x => mem'[a] = mem[a]
  BY <1>1 DEF MachineOK
<1>4. Depth(CodeDepth(q))' /\ q \in Points
  <2>1. CodeDepth(q) = CodeDepth(p) /\ q \in Points
    BY DEF CodeDepth, Points
  <2> QED
    BY <2>1 DEF CodeAt, Depth
<1>5. KeptUpTo(6)' /\ Word(22)' = 21 /\ Word(24)' = FrameAt
  <2>1. \A k \in 1 .. 6 : k \in 0 .. 32
    OBVIOUS
  <2> QED
    BY <1>2, <2>1 DEF CodeAt, KeptUpTo
<1>6. CodeAt(q, dest, src)'
  <2>1. CASE p = 29 /\ q = 33
    BY <1>4, <1>5, <2>1 DEF CodeAt, BlockAt
  <2>2. CASE p = 34 /\ q = 38
    BY <1>4, <1>5, <2>2 DEF CodeAt
  <2> QED
    BY <2>1, <2>2
<1>7. ASSUME DataAt(p, dest, src), AllNear, p = 29 PROVE DataAt(q, dest, src)'
  <2>1. /\ x = toValue(dest) + 8 /\ reg["rbx"] = expected[x]
        /\ Word(25) = expected[toValue(dest)] /\ Unmoved(dest, src)
    BY <1>1, <1>7 DEF DataAt
  <2>2. \A a \in Data \ {toValue(dest)} : mem'[a] = expected'[a]
    BY <1>1, <1>3, <2>1 DEF Unmoved
  <2>3. Word(25)' = expected'[toValue(dest)]
    BY <1>2, <2>1
  <2> QED
    BY <1>7, <2>2, <2>3 DEF DataAt
<1>8. ASSUME DataAt(p, dest, src), AllNear, p = 34 PROVE DataAt(q, dest, src)'
  <2>1. /\ x = toValue(dest) /\ reg["rbx"] = expected[x]
        /\ \A a \in Data \ {toValue(dest)} : mem[a] = expected[a]
    BY <1>1, <1>8 DEF DataAt
  <2>2. Moved'
    BY <1>1, <1>3, <2>1 DEF Moved
  <2> QED
    BY <1>8, <2>2 DEF DataAt
<1> QED
  BY <1>3, <1>6, <1>7, <1>8 DEF CodeGoes

(* Every instruction of the code but its return. *)
LEMMA CodeStep ==
  ASSUME MachineOK, NEW dest \in LocalIds, NEW src \in LocalIds \cup Consts, Holds(dest, src),
         NEW p, CodeAt(p, dest, src), Does(Decode(p)), UNCHANGED expected
  PROVE  CodeGoes(p, p + Decode(p).len, dest, src) /\ p # 40
<1> DEFINE Goes(q) == CodeGoes(p, q, dest, src)
<1>1. p \in Points /\ p \in Int
  BY DEF CodeAt, Points
<1>2. {"rax", "rbx", "rbp", "rdx", "rsp"} \subseteq Register
  BY DEF Register, Saved
<1>3. CASE p = 0
  <2>1. Decode(p) = push("rdx") /\ Pushed(reg["rdx"])
    BY <1>3, Code, Doing
  <2>2. Goes(1)
    BY <1>3, <2>1, CodePush
  <2> QED
    BY <1>3, <2>1, <2>2 DEF push
<1>4. CASE p = 1
  <2>1. Decode(p) = push("rbp") /\ Pushed(reg["rbp"])
    BY <1>4, Code, Doing
  <2>2. reg["rbp"] = FrameAt
    BY <1>4 DEF CodeAt
  <2>3. Goes(2)
    BY <1>4, <2>1, <2>2, CodePush
  <2> QED
    BY <1>4, <2>1, <2>3 DEF push
<1>5. CASE p \in {2, 18}
  <2>1. Decode(p) = move("rbx", "rbp") /\ SetReg("rbx", reg["rbp"])
    BY <1>5, Code, Doing
  <2>2. p = 2 => Goes(5)
    BY <2>1, CodeSet
  <2>3. p = 18 => Goes(21)
    BY <2>1, CodeSet
  <2> QED
    BY <1>5, <2>1, <2>2, <2>3 DEF move
<1>6. CASE p = 5
  <2>1. Decode(p) = add("rbx", Pointer(src)) /\ SetReg("rbx", reg["rbx"] + Pointer(src))
    BY <1>6, Code, Doing
  <2>2. SetReg("rbx", FrameAt + localIdx2RbpOff(src))
    BY <1>6, <2>1 DEF CodeAt, Pointer
  <2>3. Goes(9)
    BY <1>6, <2>2, CodeSet
  <2> QED
    BY <1>6, <2>1, <2>3 DEF add
<1>7. CASE p = 21
  <2>1. Decode(p) = add("rbx", Pointer(dest)) /\ SetReg("rbx", reg["rbx"] + Pointer(dest))
    BY <1>7, Code, Doing
  <2>2. SetReg("rbx", FrameAt + localIdx2RbpOff(dest))
    BY <1>7, <2>1 DEF CodeAt, Pointer
  <2>3. Goes(25)
    BY <1>7, <2>2, CodeSet
  <2> QED
    BY <1>7, <2>1, <2>3 DEF add
<1>8. CASE p = 9
  <2>1. Decode(p) = load("rax", "rbx") /\ SetReg("rax", FramePointers[reg["rbx"]])
    BY <1>8, Code, Doing
  <2>2. FramePointers[reg["rbx"]] = BlockAt(src \in Consts)
    <3>1. reg["rbx"] = FrameAt + Pointer(src)
      BY <1>8 DEF CodeAt, Pointer
    <3> QED
      BY <3>1, FrameHas
  <2>3. SetReg("rax", BlockAt(src \in Consts))
    BY <2>1, <2>2
  <2>4. Goes(12)
    BY <1>8, <2>3, CodeSet
  <2> QED
    BY <1>8, <2>1, <2>4 DEF load
<1>9. CASE p = 25
  <2>1. Decode(p) = load("rax", "rbx") /\ SetReg("rax", FramePointers[reg["rbx"]])
    BY <1>9, Code, Doing
  <2>2. FramePointers[reg["rbx"]] = BlockAt(FALSE)
    <3>1. reg["rbx"] = FrameAt + Pointer(dest)
      BY <1>9 DEF CodeAt, Pointer
    <3> QED
      BY <3>1, FrameHas, LocalBlock
  <2>3. SetReg("rax", BlockAt(FALSE))
    BY <2>1, <2>2
  <2>4. Goes(28)
    BY <1>9, <2>3, CodeSet
  <2> QED
    BY <1>9, <2>1, <2>4 DEF load
<1>10. CASE p \in {12, 15}
  <2>1. reg["rax"] = BlockAt(src \in Consts)
    BY <1>10 DEF CodeAt
  <2>2. p = 12 => Decode(p) = pushAt("rax", Signed(First(src))) /\ Pushed(mem[At1(src)])
    BY <2>1, Code, Doing DEF At1
  <2>3. p = 15 => Decode(p) = pushAt("rax", Signed(Second(src))) /\ Pushed(mem[At2(src)])
    BY <2>1, Code, Doing DEF At2
  <2>4. p = 12 => Goes(15)
    BY <2>2, CodePush
  <2>5. p = 15 => Goes(18)
    BY <2>3, CodePush
  <2> QED
    BY <1>10, <2>2, <2>3, <2>4, <2>5 DEF pushAt
<1>11. CASE p \in {28, 33}
  <2>1. Decode(p) = pop("rbx") /\ Popped("rbx")
    BY <1>11, Code, Doing
  <2>2. p = 28 => Goes(29)
    BY <1>2, <2>1, CodePop
  <2>3. p = 33 => Goes(34)
    BY <1>2, <2>1, CodePop
  <2> QED
    BY <1>11, <2>1, <2>2, <2>3 DEF pop
<1>12. CASE p \in {29, 34}
  <2>1. reg["rax"] = BlockAt(dest \in Consts)
    BY <1>12, LocalBlock DEF CodeAt
  <2>2. p = 29 => /\ Decode(p) = store("rax", Signed(Second(dest)), "rbx")
                  /\ mem' = [mem EXCEPT ![At2(dest)] = reg["rbx"]] /\ UNCHANGED reg
    BY <2>1, Code, Doing DEF At2
  <2>3. p = 34 => /\ Decode(p) = store("rax", Signed(First(dest)), "rbx")
                  /\ mem' = [mem EXCEPT ![At1(dest)] = reg["rbx"]] /\ UNCHANGED reg
    BY <2>1, Code, Doing DEF At1
  <2>4. p = 29 => Goes(33)
    BY <2>2, CodeStore
  <2>5. p = 34 => Goes(38)
    BY <2>3, CodeStore
  <2> QED
    BY <1>12, <2>2, <2>3, <2>4, <2>5 DEF store
<1>13. CASE p = 38
  <2>1. Decode(p) = pop("rbp") /\ Popped("rbp")
    BY <1>13, Code, Doing
  <2>2. Goes(39)
    BY <1>2, <1>13, <2>1, CodePop
  <2> QED
    BY <1>13, <2>1, <2>2 DEF pop
<1>14. CASE p = 39
  <2>1. Decode(p) = pop("rdx") /\ Popped("rdx")
    BY <1>14, Code, Doing
  <2>2. Goes(40)
    BY <1>2, <1>14, <2>1, CodePop
  <2> QED
    BY <1>14, <2>1, <2>2 DEF pop
<1>15. CASE p = 40
  <2>1. Decode(p) = ret
    BY <1>15, Code
  <2> QED
    BY <2>1, Doing
<1> QED
  BY <1>1, <1>3, <1>4, <1>5, <1>6, <1>7, <1>8, <1>9, <1>10, <1>11, <1>12, <1>13, <1>14, <1>15
     DEF Points

-----------------------------------------------------------------------------
(* The kinds of the instructions. *)

LEMMA CodeKinds ==
  ASSUME NEW dest \in LocalIds, NEW src \in LocalIds \cup Consts, Holds(dest, src), NEW p \in Points
  PROVE  /\ Decode(p).op \notin {"call", "illegal"}
         /\ Decode(p).op = "ret" => p = 40
         /\ Decode(p).len \in 1 .. 4 /\ p + Decode(p).len <= 41
<1>1. CASE p \in {0, 1, 2, 5, 9}
  BY <1>1, Code DEF push, move, add, load
<1>2. CASE p \in {12, 15, 18, 21, 25}
  BY <1>2, Code DEF pushAt, move, add, load
<1>3. CASE p \in {28, 29, 33, 34}
  BY <1>3, Code DEF pop, store
<1>4. CASE p \in {38, 39, 40}
  BY <1>4, Code DEF pop, ret
<1> QED
  BY <1>1, <1>2, <1>3, <1>4 DEF Points

LEMMA TrampolineKinds ==
  ASSUME NEW ip \in 1 .. 28
  PROVE  /\ trampoline[ip].op # "illegal"
         /\ trampoline[ip].op = "call" => ip = 20
         /\ trampoline[ip].op = "ret" => ip = 28
<1>1. CASE ip \in {1, 2, 3, 4, 5, 6, 7, 8, 9, 10, 11, 12, 13, 14}
  BY <1>1, Trampoline DEF push, move, add
<1>2. CASE ip \in {15, 16, 17, 18, 19, 20, 21}
  BY <1>2, Trampoline DEF set, move, add, call
<1>3. CASE ip \in {22, 23, 24, 25, 26, 27, 28}
  BY <1>3, Trampoline DEF pop, ret
<1> QED
  BY <1>1, <1>2, <1>3

(* The code is 41 bytes. *)
LEMMA CodeBytes ==
  ASSUME NEW dest \in LocalIds, NEW src \in LocalIds \cup Consts
  PROVE  /\ Len(compiled(dest, src)) = 41
         /\ \A k \in 0 .. 40 : compiled(dest, src)[k + 1] \in 0 .. 255
<1>1. PICK u : u = compiled(dest, src)
  OBVIOUS
<1>2. PICK l, s : /\ IsLoad(l, Pointer(src), First(src), Second(src))
                  /\ IsStore(s, Pointer(dest), First(dest), Second(dest))
                  /\ IsCode(u, l, s)
  BY <1>1, CompiledIs
<1>3. /\ Pointer(src) \in 0 .. 255 /\ First(src) \in 0 .. 255 /\ Second(src) \in 0 .. 255
      /\ Pointer(dest) \in 0 .. 255 /\ First(dest) \in 0 .. 255 /\ Second(dest) \in 0 .. 255
  BY Operand
<1>4. ASSUME NEW i \in 1 .. 16 PROVE l[i] \in 0 .. 255
  <2>1. i \in {1, 2, 3, 4, 5, 6, 7, 8, 9, 10, 11, 12, 13, 14, 15, 16}
    OBVIOUS
  <2>2. /\ l[1] \in 0 .. 255 /\ l[2] \in 0 .. 255 /\ l[3] \in 0 .. 255
        /\ l[4] \in 0 .. 255 /\ l[5] \in 0 .. 255 /\ l[6] \in 0 .. 255
        /\ l[7] \in 0 .. 255 /\ l[8] \in 0 .. 255 /\ l[9] \in 0 .. 255
        /\ l[10] \in 0 .. 255 /\ l[11] \in 0 .. 255 /\ l[12] \in 0 .. 255
        /\ l[13] \in 0 .. 255 /\ l[14] \in 0 .. 255 /\ l[15] \in 0 .. 255
        /\ l[16] \in 0 .. 255
    BY <1>2, <1>3 DEF IsLoad
  <2> QED
    BY <2>1, <2>2
<1>5. ASSUME NEW i \in 1 .. 20 PROVE s[i] \in 0 .. 255
  <2>1. i \in {1, 2, 3, 4, 5, 6, 7, 8, 9, 10, 11, 12, 13, 14, 15, 16, 17, 18, 19, 20}
    OBVIOUS
  <2>2. /\ s[1] \in 0 .. 255 /\ s[2] \in 0 .. 255 /\ s[3] \in 0 .. 255
        /\ s[4] \in 0 .. 255 /\ s[5] \in 0 .. 255 /\ s[6] \in 0 .. 255
        /\ s[7] \in 0 .. 255 /\ s[8] \in 0 .. 255 /\ s[9] \in 0 .. 255
        /\ s[10] \in 0 .. 255 /\ s[11] \in 0 .. 255 /\ s[12] \in 0 .. 255
        /\ s[13] \in 0 .. 255 /\ s[14] \in 0 .. 255 /\ s[15] \in 0 .. 255
        /\ s[16] \in 0 .. 255 /\ s[17] \in 0 .. 255 /\ s[18] \in 0 .. 255
        /\ s[19] \in 0 .. 255 /\ s[20] \in 0 .. 255
    BY <1>2, <1>3 DEF IsStore
  <2> QED
    BY <2>1, <2>2
<1>6. ASSUME NEW k \in 0 .. 40 PROVE u[k + 1] \in 0 .. 255
  <2>1. CASE k \in 2 .. 17
    <3>1. k - 1 \in 1 .. 16 /\ 2 + (k - 1) = k + 1
      BY <2>1
    <3>2. u[2 + (k - 1)] = l[k - 1]
      BY <1>2, <3>1 DEF IsCode
    <3> QED
      BY <1>4, <3>1, <3>2
  <2>2. CASE k \in 18 .. 37
    <3>1. k - 17 \in 1 .. 20 /\ 18 + (k - 17) = k + 1
      BY <2>2
    <3>2. u[18 + (k - 17)] = s[k - 17]
      BY <1>2, <3>1 DEF IsCode
    <3> QED
      BY <1>5, <3>1, <3>2
  <2>3. CASE k \in {0, 1, 38, 39, 40}
    <3>1. k + 1 \in {1, 2, 39, 40, 41}
      BY <2>3
    <3>2. u[1] \in 0 .. 255 /\ u[2] \in 0 .. 255
      BY <1>2 DEF IsCode
    <3>3. u[39] \in 0 .. 255 /\ u[40] \in 0 .. 255 /\ u[41] \in 0 .. 255
      BY <1>2 DEF IsCode
    <3> QED
      BY <3>1, <3>2, <3>3
  <2> QED
    BY <2>1, <2>2, <2>3
<1>7. Len(u) = 41
  BY <1>2 DEF IsCode
<1> QED
  BY <1>1, <1>6, <1>7

-----------------------------------------------------------------------------
(* The steps. *)

Places == [in : {"interpreter", "trampoline", "buffer"}, ip : Nat]

LEMMA InitInv ==
  ASSUME JitInit PROVE JitInv
<1>1. JitTypeOK
  <2>1. at \in Places
    BY DEF JitInit, Places
  <2> QED
    BY <2>1, JitMoveAssumption DEF JitInit, JitTypeOK, Places
<1>2. CalleeSaved
  BY DEF JitInit, CalleeSaved, Register
<1>3. MovesLikeInterpreter
  BY DEF JitInit, MovesLikeInterpreter
<1> QED
  BY <1>1, <1>2, <1>3 DEF JitInit, JitInv, OnlyStraddlingFaults

LEMMA BufferType ==
  ASSUME JitTypeOK PROVE DOMAIN buffer = 0 .. 63 /\ \A k \in 0 .. 63 : buffer[k] \in 0 .. 255
<1>1. buffer \in [0 .. BufferSize - 1 -> 0 .. 255]
  BY Zenon DEF JitTypeOK
<1>2. BufferSize - 1 = 63
  BY DEF BufferSize
<1> QED
  BY <1>1, <1>2

LEMMA MoveInv ==
  ASSUME JitInv, NEW dest \in LocalIds, NEW src \in LocalIds \cup Consts, Move(dest, src)
  PROVE  JitInv'
<1>1. /\ JitTypeOK /\ CalleeSaved /\ (AllNear => MovesLikeInterpreter)
      /\ jitPhase = "idle" /\ jitPhase' = "run"
  <2>1. JitTypeOK /\ CalleeSaved /\ (AllNear => MovesLikeInterpreter)
    BY DEF JitInv, OnlyStraddlingFaults
  <2>2. jitPhase = "idle" /\ jitPhase' = "run"
    BY DEF Move, Callable
  <2> QED
    BY <2>1, <2>2
<1>2. PICK u : /\ u = compiled(dest, src) /\ Len(u) = 41
               /\ \A k \in 0 .. 40 : u[k + 1] \in 0 .. 255
  BY CodeBytes
<1>3. buffer' = [k \in 0 .. 63 |-> IF k < 41 THEN u[k + 1] ELSE buffer[k]]
  <2>1. buffer' = [k \in DOMAIN buffer |-> IF k < Len(u) THEN u[k + 1] ELSE buffer[k]]
    BY <1>2 DEF Move
  <2>2. DOMAIN buffer = 0 .. 63 /\ Len(u) = 41
    BY <1>1, <1>2, BufferType
  <2> QED
    BY <2>1, <2>2
<1>4. buffer' \in [0 .. BufferSize - 1 -> 0 .. 255]
  <2>1. ASSUME NEW k \in 0 .. 63
        PROVE  (IF k < 41 THEN u[k + 1] ELSE buffer[k]) \in 0 .. 255
    <3>1. CASE k < 41
      <4>1. k \in 0 .. 40
        BY <3>1
      <4> QED
        BY <1>2, <3>1, <4>1
    <3>2. CASE ~ (k < 41)
      BY <1>1, <3>2, BufferType
    <3> QED
      BY <3>1, <3>2
  <2>2. buffer' \in [0 .. 63 -> 0 .. 255]
    BY <1>3, <2>1
  <2>3. BufferSize - 1 = 63
    BY DEF BufferSize
  <2> QED
    BY <2>2, <2>3
<1>5. Holds(dest, src)'
  <2>1. \A k \in 0 .. 40 : buffer'[k] = u[k + 1]
    BY <1>3
  <2>2. Len(compiled(dest, src)) - 1 = 40
    <3>1. Len(compiled(dest, src)) = 41
      BY Zenon, <1>2
    <3> QED
      BY <3>1
  <2>3. \A k \in 0 .. Len(compiled(dest, src)) - 1 : buffer'[k] = compiled(dest, src)[k + 1]
    BY <1>2, <2>1, <2>2
  <2> QED
    BY <2>3 DEF Holds
<1>6. at' = [in |-> "trampoline", ip |-> 1] /\ UNCHANGED <<offset, mem>> /\ moves' = moves + 1
  BY DEF Move
<1>7. JitTypeOK'
  <2>1. at' \in Places
    BY <1>6 DEF Places
  <2>2. moves' \in 0 .. MaxMoves
    BY <1>1, <1>6, JitMoveAssumption DEF JitTypeOK, Move, Callable
  <2>3. DOMAIN reg' = Register /\ DOMAIN mem' = Data \cup Stack /\ DOMAIN expected' = Data
    BY <1>1 DEF JitTypeOK, Move
  <2> QED
    BY <1>1, <1>4, <1>6, <2>1, <2>2, <2>3 DEF JitTypeOK, Places
<1>8. TrampolineAt(1)'
  <2>1. /\ reg'["rdi"] = offset' /\ reg'["rsi"] = FrameAt
        /\ \A r \in Register \ {"rdi", "rsi"} : reg'[r] = reg[r]
    BY <1>1 DEF JitTypeOK, Move, Register
  <2>2. \A r \in Saved : reg'[r] = IF r = "rsp" THEN StackTop ELSE Callers[r]
    BY <1>1, <2>1 DEF CalleeSaved, Register, Saved
  <2>3. TrampolineDepth(1) = 0 /\ Depth(0)'
    BY <2>2 DEF TrampolineDepth, Depth, StackTop, Saved
  <2>4. KeptUpTo(0)'
    BY DEF KeptUpTo
  <2> QED
    BY <2>1, <2>2, <2>3, <2>4 DEF TrampolineAt, Saved
<1>9. ASSUME AllNear PROVE Unmoved(dest, src)'
  <2>1. PICK d, s : d = toValue(dest) /\ s = toValue(src)
    OBVIOUS
  <2>2. d \in Data /\ d + 8 \in Data /\ d # d + 8 /\ s \in Data /\ s + 8 \in Data
    BY <2>1, Reach
  <2>3. \A a \in Data : mem[a] = expected[a]
    BY <1>1, <1>9 DEF MovesLikeInterpreter
  <2>4. expected' = [expected EXCEPT ![d] = expected[s], ![d + 8] = expected[s + 8]]
    BY <2>1 DEF Move
  <2>5. /\ expected'[d] = mem[s] /\ expected'[d + 8] = mem[s + 8]
        /\ \A a \in Data \ {d, d + 8} : expected'[a] = mem[a]
    BY <1>1, <2>2, <2>3, <2>4 DEF JitTypeOK
  <2> QED
    BY <1>6, <2>1, <2>5 DEF Unmoved
<1>10. (offset \div PageSize)' \in pages'
  BY DEF Move, Protected
<1>11. MoveRuns(dest, src)'
  BY <1>5, <1>6, <1>8, <1>9, <1>10 DEF MoveRuns
<1> QED
  BY <1>1, <1>7, <1>11 DEF JitInv, OnlyStraddlingFaults, CalleeSaved, MovesLikeInterpreter

(* What a step of the processor leaves alone, and what it has to show. *)
Machine == UNCHANGED <<moves, buffer, pages, offset, expected>>

LEMMA RunInv ==
  ASSUME JitInv, jitPhase = "run", Machine, jitPhase' = "run", MachineOK', at' \in Places,
         NEW dest \in LocalIds, NEW src \in LocalIds \cup Consts, MoveRuns(dest, src),
         NEW q, at'.ip = q,
         \/ /\ at'.in = "trampoline" /\ TrampolineAt(q)'
            /\ AllNear => IF q <= 20 THEN Unmoved(dest, src)' ELSE Moved'
         \/ /\ at'.in = "buffer" /\ CodeAt(q, dest, src)'
            /\ AllNear => DataAt(q, dest, src)'
  PROVE  JitInv'
<1>1. JitTypeOK'
  BY DEF JitInv, OnlyStraddlingFaults, JitTypeOK, Machine, MachineOK, Places
<1>2. Holds(dest, src)' /\ offset' \div PageSize \in pages'
  BY DEF MoveRuns, Machine, Holds
<1>3. MoveRuns(dest, src)'
  BY <1>2 DEF MoveRuns
<1> QED
  BY <1>1, <1>3 DEF JitInv, OnlyStraddlingFaults, CalleeSaved, MovesLikeInterpreter

(* Where the processor is. *)
Here(p, dest, src) ==
  \/ /\ at = [in |-> "trampoline", ip |-> p] /\ p \in 1 .. 28 /\ Instruction = trampoline[p]
     /\ TrampolineAt(p) /\ (AllNear => IF p <= 20 THEN Unmoved(dest, src) ELSE Moved)
  \/ /\ at = [in |-> "buffer", ip |-> p] /\ p \in Points /\ Instruction = Decode(p)
     /\ CodeAt(p, dest, src) /\ (AllNear => DataAt(p, dest, src))

LEMMA RunningHere ==
  ASSUME JitInv, jitPhase = "run"
  PROVE  /\ MachineOK
         /\ \E dest \in LocalIds, src \in LocalIds \cup Consts, p \in Nat :
              /\ offset \div PageSize \in pages /\ Holds(dest, src) /\ MoveRuns(dest, src)
              /\ Here(p, dest, src)
<1>1. PICK dest \in LocalIds, src \in LocalIds \cup Consts : MoveRuns(dest, src)
  BY DEF JitInv
<1>2. MachineOK /\ at \in Places
  BY DEF JitInv, OnlyStraddlingFaults, JitTypeOK, MachineOK, Places
<1>3. at = [in |-> at.in, ip |-> at.ip]
  BY <1>2 DEF Places
<1>4. PICK p \in Nat : p = at.ip
  BY <1>2 DEF Places
<1>5. CASE /\ at.in = "trampoline" /\ TrampolineAt(p)
           /\ AllNear => IF p <= 20 THEN Unmoved(dest, src) ELSE Moved
  <2>1. p \in 1 .. 28 /\ Instruction = trampoline[p]
    BY <1>4, <1>5 DEF TrampolineAt, Instruction, InBuffer
  <2>2. Here(p, dest, src)
    BY <1>3, <1>4, <1>5, <2>1 DEF Here
  <2> QED
    BY <1>1, <1>2, <2>2 DEF MoveRuns
<1>6. CASE at.in = "buffer" /\ CodeAt(p, dest, src) /\ (AllNear => DataAt(p, dest, src))
  <2>1. p \in Points /\ Instruction = Decode(p)
    BY <1>4, <1>6 DEF CodeAt, Instruction, InBuffer
  <2>2. Here(p, dest, src)
    BY <1>3, <1>4, <1>6, <2>1 DEF Here
  <2> QED
    BY <1>1, <1>2, <2>2 DEF MoveRuns
<1> QED
  BY <1>1, <1>4, <1>5, <1>6 DEF MoveRuns

LEMMA ExecuteInv ==
  ASSUME JitInv, Execute
  PROVE  JitInv'
<1>1. /\ jitPhase = "run" /\ jitPhase' = "run" /\ Machine /\ at' = After
      /\ Does(Instruction)
  BY DEF Execute, Machine, Does
<1>2. PICK dest \in LocalIds, src \in LocalIds \cup Consts, p \in Nat :
        /\ MachineOK /\ Holds(dest, src) /\ MoveRuns(dest, src) /\ Here(p, dest, src)
  BY <1>1, RunningHere
<1>3. UNCHANGED offset /\ UNCHANGED expected
  BY <1>1 DEF Machine
<1>4. CASE /\ at = [in |-> "trampoline", ip |-> p] /\ p \in 1 .. 28 /\ Instruction = trampoline[p]
           /\ TrampolineAt(p) /\ (AllNear => IF p <= 20 THEN Unmoved(dest, src) ELSE Moved)
  <2>1. Does(trampoline[p])
    BY <1>1, <1>4
  <2>2. /\ MachineOK' /\ TrampolineAt(p + 1)' /\ p # 20
        /\ \A a \in Data : mem'[a] = mem[a]
    BY <1>2, <1>3, <1>4, <2>1, TrampolineStep
  <2>3. Unmoved(dest, src) => Unmoved(dest, src)'
    BY <1>3, <2>2, Reach DEF Unmoved
  <2>4. Moved => Moved'
    BY <1>3, <2>2 DEF Moved
  <2>5. p + 1 <= 20 <=> p <= 20
    BY <1>4, <2>2
  <2>6. at' = [in |-> "trampoline", ip |-> p + 1] /\ p + 1 \in Nat
    BY <1>1, <1>4 DEF After, InBuffer
  <2>7. AllNear => IF p + 1 <= 20 THEN Unmoved(dest, src)' ELSE Moved'
    BY <1>4, <2>3, <2>4, <2>5
  <2>8. at' \in Places /\ at'.in = "trampoline" /\ at'.ip = p + 1
    BY <2>6 DEF Places
  <2> QED
    BY <1>1, <1>2, <2>2, <2>7, <2>8, RunInv
<1>5. CASE /\ at = [in |-> "buffer", ip |-> p] /\ p \in Points /\ Instruction = Decode(p)
           /\ CodeAt(p, dest, src) /\ (AllNear => DataAt(p, dest, src))
  <2>1. PICK q : q = p + Decode(p).len
    OBVIOUS
  <2>2. Does(Decode(p))
    BY <1>1, <1>5
  <2>3. CodeGoes(p, q, dest, src)
    BY <1>2, <1>3, <1>5, <2>1, <2>2, CodeStep
  <2>4. p \in Nat /\ Decode(p).len \in 1 .. 4
    BY <1>2, <1>5, CodeKinds DEF Points
  <2>5. at' = [in |-> "buffer", ip |-> q] /\ q \in Nat
    BY <1>1, <1>5, <2>1, <2>4 DEF After, InBuffer
  <2>6. at' \in Places /\ at'.in = "buffer" /\ at'.ip = q
    BY <2>5 DEF Places
  <2>7. MachineOK' /\ CodeAt(q, dest, src)' /\ (AllNear => DataAt(q, dest, src)')
    BY <1>5, <2>3 DEF CodeGoes
  <2> QED
    BY <1>1, <1>2, <2>6, <2>7, RunInv
<1> QED
  BY <1>2, <1>4, <1>5 DEF Here

(* The trampoline calls the code. *)
LEMMA CallInv ==
  ASSUME JitInv, CallCode
  PROVE  JitInv'
<1>1. /\ jitPhase = "run" /\ jitPhase' = "run" /\ Machine /\ Instruction.op = "call"
      /\ at' = [in |-> "buffer", ip |-> 0]
  BY DEF CallCode, Machine
<1>2. PICK dest \in LocalIds, src \in LocalIds \cup Consts, p \in Nat :
        /\ MachineOK /\ Holds(dest, src) /\ MoveRuns(dest, src) /\ Here(p, dest, src)
  BY <1>1, RunningHere
<1>3. /\ at = [in |-> "trampoline", ip |-> 20] /\ TrampolineAt(20)
      /\ AllNear => Unmoved(dest, src)
  <2>1. CASE /\ at = [in |-> "trampoline", ip |-> p] /\ p \in 1 .. 28
             /\ Instruction = trampoline[p]
             /\ TrampolineAt(p) /\ (AllNear => IF p <= 20 THEN Unmoved(dest, src) ELSE Moved)
    <3>1. p = 20
      BY <1>1, <2>1, TrampolineKinds
    <3> QED
      BY <2>1, <3>1
  <2>2. CASE p \in Points /\ Instruction = Decode(p)
    BY <1>1, <1>2, <2>2, CodeKinds
  <2> QED
    BY <1>2, <2>1, <2>2 DEF Here
<1>4. Pushed(21)
  <2>1. After.ip = 21
    BY <1>3 DEF After, InBuffer
  <2> QED
    BY <2>1 DEF CallCode
<1>5. /\ Depth(21) /\ KeptUpTo(21) /\ reg["rbp"] = FrameAt
  BY <1>3 DEF TrampolineAt, TrampolineDepth
<1>6. PushDone(21, 21)
  BY <1>2, <1>4, <1>5, PushDoes
<1>7. /\ MachineOK' /\ Depth(22)' /\ Word(22)' = 21 /\ reg'["rbp"] = reg["rbp"]
      /\ \A a \in Data : mem'[a] = mem[a]
      /\ \A k \in 1 .. 6 : Word(k)' = Word(k)
  <2>1. \A k \in 1 .. 6 : k \in 1 .. 32 /\ k # 22
    OBVIOUS
  <2>2. "rbp" \in Register \ {"rsp"}
    BY DEF Register, Saved
  <2> QED
    BY <1>6, <2>1, <2>2 DEF PushDone
<1>8. KeptUpTo(6)'
  <2>1. \A k \in 1 .. 6 : k <= 21
    OBVIOUS
  <2> QED
    BY <1>5, <1>7, <2>1 DEF KeptUpTo
<1>9. CodeAt(0, dest, src)'
  <2>1. CodeDepth(0) = 22 /\ 0 \in Points
    BY DEF CodeDepth, Points
  <2> QED
    BY <1>5, <1>7, <1>8, <2>1 DEF CodeAt
<1>10. AllNear => DataAt(0, dest, src)'
  <2>1. ASSUME Unmoved(dest, src) PROVE Unmoved(dest, src)'
    <3>1. UNCHANGED expected
      BY <1>1 DEF Machine
    <3> QED
      BY <1>7, <2>1, <3>1, Reach DEF Unmoved
  <2> QED
    BY <1>3, <2>1 DEF DataAt
<1>11. at' \in Places /\ at'.in = "buffer" /\ at'.ip = 0
  BY <1>1 DEF Places
<1> QED
  BY <1>1, <1>2, <1>7, <1>9, <1>10, <1>11, RunInv

(* The code returns to the trampoline, the trampoline to the interpreter. *)
LEMMA ReturnInv ==
  ASSUME JitInv, ReturnBack
  PROVE  JitInv'
<1>1. /\ jitPhase = "run" /\ Machine /\ Instruction.op = "ret" /\ UNCHANGED mem
  BY DEF ReturnBack, Machine
<1>2. PICK dest \in LocalIds, src \in LocalIds \cup Consts, p \in Nat :
        /\ MachineOK /\ Holds(dest, src) /\ MoveRuns(dest, src) /\ Here(p, dest, src)
  BY <1>1, RunningHere
<1>3. UNCHANGED offset /\ UNCHANGED expected
  BY <1>1 DEF Machine
<1>4. ASSUME Moved PROVE Moved'
  BY <1>1, <1>3, <1>4 DEF Moved
<1>5. CASE /\ at = [in |-> "buffer", ip |-> p] /\ p \in Points /\ Instruction = Decode(p)
           /\ CodeAt(p, dest, src) /\ (AllNear => DataAt(p, dest, src))
  <2>1. p = 40
    BY <1>1, <1>2, <1>5, CodeKinds
  <2>2. Depth(22) /\ KeptUpTo(6) /\ Word(22) = 21
    BY <1>5, <2>1 DEF CodeAt, CodeDepth
  <2>3. AllNear => Moved
    BY <1>5, <2>1 DEF DataAt
  <2>4. /\ at' = [in |-> "trampoline", ip |-> mem[Rsp]]
        /\ reg' = [reg EXCEPT !["rsp"] = Rsp + 8] /\ jitPhase' = "run"
    BY <1>5 DEF ReturnBack, InBuffer
  <2>5. Rsp = StackTop - 8 * 22 /\ Rsp + 8 = StackTop - 8 * 21
    BY <2>2 DEF Depth, Rsp, StackTop
  <2>6. at' = [in |-> "trampoline", ip |-> 21]
    BY <2>2, <2>4, <2>5 DEF Word
  <2>7. SetReg("rsp", StackTop - 8 * 21) /\ "rsp" \in Register
    BY <1>1, <2>4, <2>5 DEF SetReg, Register, Saved
  <2>8. MachineOK' /\ Depth(21)'
    BY <1>2, <2>7, SetDoes DEF Depth
  <2>9. KeptUpTo(21)'
    BY <1>1, <2>2 DEF KeptUpTo, Word
  <2>10. TrampolineAt(21)'
    <3>1. TrampolineDepth(21) = 21
      BY DEF TrampolineDepth
    <3> QED
      BY <2>8, <2>9, <3>1 DEF TrampolineAt
  <2>11. AllNear => IF 21 <= 20 THEN Unmoved(dest, src)' ELSE Moved'
    BY <1>4, <2>3
  <2>12. at' \in Places /\ at'.in = "trampoline" /\ at'.ip = 21
    BY <2>6 DEF Places
  <2> QED
    BY <1>1, <1>2, <2>4, <2>8, <2>10, <2>11, <2>12, RunInv
<1>6. CASE /\ at = [in |-> "trampoline", ip |-> p] /\ p \in 1 .. 28 /\ Instruction = trampoline[p]
           /\ TrampolineAt(p) /\ (AllNear => IF p <= 20 THEN Unmoved(dest, src) ELSE Moved)
  <2>1. p = 28
    BY <1>1, <1>6, TrampolineKinds
  <2>2. at' = [in |-> "interpreter", ip |-> 0] /\ jitPhase' = "idle" /\ UNCHANGED reg
    BY <1>6 DEF ReturnBack, InBuffer
  <2>3. CalleeSaved'
    <3>1. reg["rsp"] = StackTop
      BY <1>6, <2>1 DEF TrampolineAt, TrampolineDepth, Depth, StackTop
    <3>2. \A r \in Saved : r # "rsp" => reg[r] = Callers[r]
      BY <1>6, <2>1 DEF TrampolineAt, Saved
    <3> QED
      BY <2>2, <3>1, <3>2 DEF CalleeSaved
  <2>4. AllNear => MovesLikeInterpreter'
    BY <1>4, <1>6, <2>1 DEF MovesLikeInterpreter, Moved
  <2>5. at' \in Places
    BY <2>2 DEF Places
  <2>6. JitTypeOK'
    BY <1>1, <2>2, <2>5 DEF JitInv, OnlyStraddlingFaults, JitTypeOK, Machine, Places
  <2> QED
    BY <2>2, <2>3, <2>4, <2>6 DEF JitInv, OnlyStraddlingFaults
<1> QED
  BY <1>2, <1>5, <1>6 DEF Here

(* The pages of a buffer that does not straddle are the one page. *)
LEMMA OnePage ==
  ASSUME NEW o \in Nat, NEW k \in 0 .. BufferSize - 1,
         o \div PageSize = (o + BufferSize - 1) \div PageSize
  PROVE  (o + k) \div PageSize = o \div PageSize
BY DEF PageSize, BufferSize

LEMMA FaultInv ==
  ASSUME JitInv, Fault
  PROVE  JitInv'
<1>1. /\ jitPhase = "run" /\ jitPhase' = "fault" /\ Machine /\ UNCHANGED <<reg, mem, at>>
      /\ Instruction.op = "illegal" \/ ~ Fetchable
  BY DEF Fault, Machine
<1>2. PICK dest \in LocalIds, src \in LocalIds \cup Consts, p \in Nat :
        /\ offset \div PageSize \in pages /\ Holds(dest, src) /\ Here(p, dest, src)
  BY <1>1, RunningHere
<1>3. /\ at = [in |-> "buffer", ip |-> p] /\ p \in Points /\ Instruction = Decode(p)
      /\ ~ Fetchable
  <2>1. CASE p \in 1 .. 28 /\ Instruction = trampoline[p] /\ at = [in |-> "trampoline", ip |-> p]
    <3>1. Fetchable
      BY <2>1 DEF Fetchable, InBuffer
    <3>2. Instruction.op # "illegal"
      BY <2>1, TrampolineKinds
    <3> QED
      BY <1>1, <3>1, <3>2
  <2>2. CASE p \in Points /\ Instruction = Decode(p) /\ at = [in |-> "buffer", ip |-> p]
    <3>1. Instruction.op # "illegal"
      BY <1>2, <2>2, CodeKinds
    <3> QED
      BY <1>1, <2>2, <3>1
  <2> QED
    BY <1>2, <2>1, <2>2 DEF Here
<1>4. PICK n : n = Decode(p).len /\ n \in 1 .. 4 /\ p + n <= 41
  BY <1>2, <1>3, CodeKinds
<1>5. PICK k \in 0 .. n - 1 : (offset + p + k) \div PageSize \notin pages
  BY <1>3, <1>4 DEF Fetchable
<1>6. offset \in Nat
  BY JitMoveAssumption DEF JitInv, OnlyStraddlingFaults, JitTypeOK
<1>7. PICK j \in 0 .. BufferSize - 1 : j = p + k /\ offset + p + k = offset + j
  BY <1>3, <1>4, <1>5, <1>6 DEF Points, BufferSize
<1>8. offset \div PageSize # (offset + BufferSize - 1) \div PageSize
  BY <1>2, <1>5, <1>6, <1>7, OnePage
<1>9. JitTypeOK'
  BY <1>1 DEF JitInv, OnlyStraddlingFaults, JitTypeOK, Machine
<1> QED
  BY <1>1, <1>8, <1>9
     DEF JitInv, OnlyStraddlingFaults, CalleeSaved, MovesLikeInterpreter, Machine

LEMMA StutterInv ==
  ASSUME JitInv, UNCHANGED jitVars
  PROVE  JitInv'
<1>1. JitTypeOK' /\ OnlyStraddlingFaults' /\ CalleeSaved' /\ (AllNear => MovesLikeInterpreter')
  BY DEF JitInv, OnlyStraddlingFaults, JitTypeOK, CalleeSaved, MovesLikeInterpreter, jitVars
<1>2. ASSUME NEW dest \in LocalIds, NEW src \in LocalIds \cup Consts, MoveRuns(dest, src)
      PROVE  MoveRuns(dest, src)'
  <2>1. PICK q : q = at.ip
    OBVIOUS
  <2>2. UNCHANGED <<buffer, pages, offset, reg, mem, expected>> /\ UNCHANGED at
    BY DEF jitVars
  <2>3. Holds(dest, src)'
    BY <1>2, <2>2 DEF MoveRuns, Holds
  <2>4. (Unmoved(dest, src) => Unmoved(dest, src)') /\ (Moved => Moved')
    BY <2>2 DEF Unmoved, Moved
  <2>5. \A n : Depth(n) => Depth(n)'
    BY <2>2 DEF Depth
  <2>6. \A n : KeptUpTo(n) => KeptUpTo(n)'
    BY <2>2 DEF KeptUpTo, Word
  <2>7. TrampolineAt(q) => TrampolineAt(q)'
    BY <2>2, <2>5, <2>6 DEF TrampolineAt
  <2>8. CodeAt(q, dest, src) => CodeAt(q, dest, src)'
    BY <2>2, <2>5, <2>6 DEF CodeAt, Word
  <2>9. DataAt(q, dest, src) => DataAt(q, dest, src)'
    BY <2>2, <2>4 DEF DataAt, Word
  <2> QED
    BY <1>2, <2>1, <2>2, <2>3, <2>4, <2>7, <2>8, <2>9 DEF MoveRuns
<1> QED
  BY <1>1, <1>2 DEF JitInv, jitVars

LEMMA NextInv ==
  ASSUME JitInv, [JitNext]_jitVars
  PROVE  JitInv'
<1>1. ASSUME NEW dest \in LocalIds, NEW src \in LocalIds \cup Consts, Move(dest, src)
      PROVE  JitInv'
  BY <1>1, MoveInv
<1>2. CASE Execute
  BY <1>2, ExecuteInv
<1>3. CASE CallCode
  BY <1>3, CallInv
<1>4. CASE ReturnBack
  BY <1>4, ReturnInv
<1>5. CASE Fault
  BY <1>5, FaultInv
<1>6. CASE Done
  BY <1>6, StutterInv DEF Done
<1>7. CASE UNCHANGED jitVars
  BY <1>7, StutterInv
<1> QED
  BY <1>1, <1>2, <1>3, <1>4, <1>5, <1>6, <1>7 DEF JitNext

-----------------------------------------------------------------------------
(* Wherever the processor is, in the trampoline or in the emitted code,    *)
(* its registers and the words on its stack are the ones that place calls  *)
(* for, and of near operands the values are where that place leaves them.  *)
THEOREM Invariant == JitSpec => []JitInv
<1>1. JitInit => JitInv
  BY InitInv
<1>2. JitInv /\ [JitNext]_jitVars => JitInv'
  BY NextInv
<1> QED
  BY <1>1, <1>2, PTL DEF JitSpec

(* A Move run natively gives the interpreter its stack pointer and the     *)
(* registers a callee must keep, whatever the operands, and whatever was   *)
(* in the registers.                                                       *)
THEOREM Saves == JitSpec => []CalleeSaved
<1>1. JitInv => CalleeSaved
  BY DEF JitInv
<1> QED
  BY <1>1, Invariant, PTL

(* The only fault of the emitted code is a buffer of two pages, wherever   *)
(* the buffer is and however many Moves overwrite it.                      *)
THEOREM Straddles == JitSpec => []OnlyStraddlingFaults
<1>1. JitInv => OnlyStraddlingFaults
  BY DEF JitInv
<1> QED
  BY <1>1, Invariant, PTL

(* Where every operand's displacements fit in 7 bits, a Move run natively  *)
(* leaves exactly what the interpreter's Move leaves.                      *)
THEOREM MovesRight ==
  ASSUME AllNear
  PROVE  JitSpec => []MovesLikeInterpreter
<1>1. JitInv => MovesLikeInterpreter
  BY DEF JitInv
<1> QED
  BY <1>1, Invariant, PTL
=============================================================================
