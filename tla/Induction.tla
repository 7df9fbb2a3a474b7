------------------------------- MODULE Induction -------------------------------
(***************************************************************************)
(* Numbers: induction as the least of a set, and functions defined by       *)
(* recursion.                                                               *)
(***************************************************************************)
EXTENDS Integers, WellFoundedInduction, TLAPS

CONSTANTS Start, Step(_, _)

LEMMA Least ==
  ASSUME NEW S \in SUBSET Nat, S # {}
  PROVE  \E m \in S : \A n \in S : m <= n
<1>1. PICK m \in S : \A n \in S : ~(<<n, m>> \in OpToRel(<, Nat))
  BY NatLessThanWellFounded, WFMin
<1>2. \A n \in S : ~(n < m)
  BY <1>1 DEF OpToRel
<1> QED
  BY <1>2

LEMMA Greatest ==
  ASSUME NEW S \in SUBSET Nat, S # {}, NEW bound \in Nat, \A n \in S : n <= bound
  PROVE  \E m \in S : \A n \in S : m >= n
<1> DEFINE T == {b \in Nat : \A n \in S : n <= b}
<1>1. PICK m \in T : \A b \in T : m <= b
  <2>1. T \in SUBSET Nat /\ T # {}
    OBVIOUS
  <2> QED
    BY <2>1, Least
<1>2. m \in S
  <2> SUFFICES ASSUME m \notin S PROVE FALSE
    OBVIOUS
  <2>1. \A n \in S : n \in Nat /\ n <= m - 1
    BY <1>1
  <2>2. m - 1 \in Nat
    <3>1. PICK n \in S : TRUE
      OBVIOUS
    <3>2. n \in Nat /\ n <= m - 1 /\ m \in Nat
      BY <2>1, <1>1
    <3> QED
      BY <3>2
  <2>3. m - 1 \in T
    BY <2>1, <2>2
  <2> QED
    BY <1>1, <2>3
<1> QED
  BY <1>1, <1>2

(* The function that begins with a and goes on as G says. *)
Iterates(f, S, a, G) ==
  f \in [Nat -> S] /\ f[0] = a /\ \A n \in Nat : f[n + 1] = G[n][f[n]]

LEMMA Iteration ==
  ASSUME NEW S, NEW a \in S, NEW G \in [Nat -> [S -> S]]
  PROVE  \E f : Iterates(f, S, a, G)
<1> DEFINE A(m) == {g \in [0..m -> S] : g[0] = a /\ \A n \in 0..(m - 1) : g[n + 1] = G[n][g[n]]}
           Bad == {m \in Nat : A(m) = {}}
<1>1. Bad = {}
  <2> SUFFICES ASSUME Bad # {} PROVE FALSE
    OBVIOUS
  <2>1. PICK m \in Bad : \A n \in Bad : m <= n
    BY Least
  <2>2. m # 0
    <3>1. [i \in 0..0 |-> a] \in A(0)
      OBVIOUS
    <3> QED
      BY <3>1, <2>1
  <2>3. m - 1 \in Nat /\ m - 1 \notin Bad
    BY <2>1, <2>2
  <2>4. PICK g : g \in A(m - 1)
    BY <2>3
  <2> DEFINE h == [i \in 0..m |-> IF i = m THEN G[m - 1][g[m - 1]] ELSE g[i]]
  <2>5. h \in [0..m -> S]
    BY <2>3, <2>4
  <2>6. h[0] = a
    BY <2>2, <2>3, <2>4
  <2>7. ASSUME NEW n \in 0..(m - 1) PROVE h[n + 1] = G[n][h[n]]
    <3>1. CASE n = m - 1
      <4>1. n \in 0..m /\ n # m /\ n + 1 \in 0..m /\ n + 1 = m
        BY <2>3, <3>1
      <4>2. h[n + 1] = G[m - 1][g[m - 1]] /\ h[n] = g[n]
        BY <4>1
      <4> QED
        BY <4>2, <3>1
    <3>2. CASE n # m - 1
      <4>1. n \in 0..(m - 1 - 1) /\ n + 1 \in 0..m /\ n + 1 # m /\ n # m /\ n \in 0..m
        BY <2>3, <3>2
      <4> QED
        BY <2>4, <4>1
    <3> QED
      BY <3>1, <3>2
  <2>8. h \in A(m)
    BY <2>5, <2>6, <2>7
  <2> QED
    BY <2>1, <2>8
<1>2. ASSUME NEW m \in Nat, NEW g \in A(m), NEW k \in Nat, NEW h \in A(k), m <= k
      PROVE  \A i \in 0..m : g[i] = h[i]
  <2> DEFINE Off == {i \in 0..m : g[i] # h[i]}
  <2> SUFFICES ASSUME Off # {} PROVE FALSE
    OBVIOUS
  <2>1. PICK i \in Off : \A j \in Off : i <= j
    <3>1. Off \in SUBSET Nat
      OBVIOUS
    <3> HIDE DEF Off
    <3> QED
      BY <3>1, Least
  <2>2. i # 0
    BY <2>1
  <2>3. i - 1 \in 0..(m - 1) /\ i - 1 \in 0..(k - 1) /\ i - 1 \notin Off /\ i - 1 + 1 = i
    BY <2>1, <2>2, <1>2
  <2>4. g[i - 1] = h[i - 1]
    BY <2>3
  <2>5. g[i] = G[i - 1][g[i - 1]] /\ h[i] = G[i - 1][h[i - 1]]
    BY <2>3
  <2> QED
    BY <2>1, <2>4, <2>5
<1> DEFINE f == [n \in Nat |-> (CHOOSE g : g \in A(n))[n]]
<1>3. ASSUME NEW n \in Nat PROVE (CHOOSE g : g \in A(n)) \in A(n)
  <2>1. A(n) # {}
    BY <1>1
  <2> HIDE DEF A
  <2> QED
    BY <2>1
<1>4. ASSUME NEW n \in Nat, NEW g \in A(n) PROVE f[n] = g[n]
  <2>1. PICK h : h = (CHOOSE x : x \in A(n)) /\ h \in A(n)
    BY <1>3
  <2>2. f[n] = h[n]
    BY <2>1
  <2> HIDE DEF A, f
  <2>3. \A i \in 0..n : g[i] = h[i]
    BY <1>2, <2>1
  <2> QED
    BY <2>2, <2>3
<1>5. f \in [Nat -> S] /\ f[0] = a
  <2>1. ASSUME NEW n \in Nat PROVE f[n] \in S /\ (n = 0 => f[n] = a)
    <3>1. PICK h : h \in A(n)
      BY <1>3
    <3>2. f[n] = h[n]
      <4> HIDE DEF A, f
      <4> QED
        BY <1>4, <3>1
    <3> QED
      BY <3>1, <3>2
  <2> QED
    BY <2>1
<1>6. ASSUME NEW n \in Nat PROVE f[n + 1] = G[n][f[n]]
  <2>1. PICK g : g \in A(n + 1)
    <3>1. A(n + 1) # {}
      BY <1>1
    <3> HIDE DEF A
    <3> QED
      BY <3>1
  <2>2. f[n + 1] = g[n + 1]
    <3> HIDE DEF A, f
    <3> QED
      BY <1>4, <2>1
  <2>5. g[n + 1] = G[n][g[n]]
    BY <2>1
  <2> DEFINE h == [i \in 0..n |-> g[i]]
  <2>3. h \in A(n)
    BY <2>1
  <2>4. f[n] = h[n]
    <3> HIDE DEF A, f
    <3> QED
      BY <1>4, <2>3
  <2>6. h[n] = g[n]
    OBVIOUS
  <2> HIDE DEF f, h, A
  <2> QED
    BY <2>2, <2>4, <2>5, <2>6
<1> QED
  BY <1>5, <1>6 DEF Iterates
-----------------------------------------------------------------------------
(* The function that begins with Start and goes on as Step says: it obeys   *)
(* its recursive definition.                                                *)
Along[n \in Nat] == IF n = 0 THEN Start ELSE Step(n, Along[n - 1])

LEMMA Unfolds == Along[0] = Start /\ \A n \in Nat : Along[n + 1] = Step(n + 1, Along[n])
<1> DEFINE D(f, n) == IF n = 0 THEN Start ELSE Step(n, f[n - 1])
           Part(m, g) == g = [n \in 0..m |-> D(g, n)]
           Bad == {m \in Nat : ~ \E g : Part(m, g)}
<1>0. ASSUME NEW m \in Nat, NEW g, Part(m, g), NEW n \in 0..m PROVE g[n] = D(g, n)
  <2>1. PICK d : d = [k \in 0..m |-> D(g, k)]
    OBVIOUS
  <2>2. d[n] = D(g, n)
    BY <2>1
  <2>3. g = d
    BY <1>0, <2>1
  <2> QED
    BY <2>2, <2>3
<1>1. Bad = {}
  <2> SUFFICES ASSUME Bad # {} PROVE FALSE
    OBVIOUS
  <2>1. PICK m \in Bad : \A n \in Bad : m <= n
    BY Least
  <2>2. m # 0
    <3>1. Part(0, [n \in 0..0 |-> Start])
      OBVIOUS
    <3> QED
      BY <3>1, <2>1
  <2>3. m - 1 \in Nat /\ m - 1 \notin Bad
    <3>1. m \in Nat /\ m # 0 /\ m - 1 \in Nat
      BY <2>1, <2>2
    <3> HIDE DEF Bad
    <3> QED
      BY <2>1, <3>1
  <2>4. PICK g : Part(m - 1, g)
    BY <2>3
  <2> DEFINE h == [n \in 0..m |-> IF n = m THEN Step(m, g[m - 1]) ELSE g[n]]
  <2>5. ASSUME NEW n \in 0..m PROVE h[n] = D(h, n)
    <3>1. CASE n = 0
      <4>1. 0 \in 0..(m - 1) /\ h[0] = g[0]
        BY <2>2, <2>3, <3>1
      <4>2. g[0] = D(g, 0)
        BY <2>4, <4>1
      <4> QED
        BY <3>1, <4>1, <4>2
    <3>2. CASE n # 0 /\ n # m
      <4>1. n \in 0..(m - 1) /\ n - 1 \in 0..m /\ n - 1 # m /\ n - 1 \in 0..(m - 1)
        BY <2>3, <3>2
      <4>2. h[n] = g[n] /\ h[n - 1] = g[n - 1]
        BY <3>2, <4>1
      <4>3. g[n] = D(g, n)
        BY <2>4, <4>1
      <4> QED
        BY <3>2, <4>2, <4>3
    <3>3. CASE n = m
      <4>1. m - 1 \in 0..m /\ m - 1 # m /\ m \in 0..m
        BY <2>3
      <4>2. h[m] = Step(m, g[m - 1]) /\ h[m - 1] = g[m - 1]
        BY <4>1
      <4> QED
        BY <2>2, <3>3, <4>2
    <3> QED
      BY <3>1, <3>2, <3>3
  <2>6. h = [n \in 0..m |-> h[n]]
    OBVIOUS
  <2>7. [n \in 0..m |-> h[n]] = [n \in 0..m |-> D(h, n)]
    BY <2>5
  <2>8. Part(m, h)
    BY <2>6, <2>7
  <2> QED
    BY <2>1, <2>8
<1>2. ASSUME NEW m \in Nat, NEW k \in Nat, NEW g, NEW h, Part(m, g), Part(k, h), m <= k
      PROVE  \A i \in 0..m : g[i] = h[i]
  <2> DEFINE Off1 == {i \in 0..m : g[i] # h[i]}
  <2> SUFFICES ASSUME Off1 # {} PROVE FALSE
    OBVIOUS
  <2>1. PICK i \in Off1 : \A j \in Off1 : i <= j
    <3>1. Off1 \in SUBSET Nat
      OBVIOUS
    <3> HIDE DEF Off1
    <3> QED
      BY <3>1, Least
  <2>2. g[i] = D(g, i) /\ h[i] = D(h, i)
    <3>1. i \in 0..m /\ i \in 0..k
      BY <1>2
    <3> HIDE DEF Part
    <3> QED
      BY <1>0, <1>2, <3>1
  <2>3. i # 0
    BY <2>1, <2>2
  <2>4. i - 1 \in 0..m /\ i - 1 \notin Off1
    BY <2>1, <2>3
  <2> QED
    BY <2>1, <2>2, <2>3, <2>4
<1> DEFINE Sol(m) == CHOOSE g : Part(m, g)
           f == [n \in Nat |-> Sol(n)[n]]
<1>3. ASSUME NEW m \in Nat PROVE Part(m, Sol(m))
  BY <1>1
<1>4. ASSUME NEW n \in Nat PROVE f[n] = D(f, n)
  <2>1. Sol(n)[n] = D(Sol(n), n)
    <3> HIDE DEF Part, Sol
    <3>1. n \in 0..n /\ Part(n, Sol(n))
      BY <1>3
    <3> QED
      BY <1>0, <3>1
  <2>2. CASE n = 0
    BY <2>1, <2>2
  <2>3. CASE n # 0
    <3>1. n - 1 \in Nat /\ n - 1 <= n /\ n - 1 \in 0..(n - 1)
      BY <2>3
    <3>2. Part(n - 1, Sol(n - 1)) /\ Part(n, Sol(n))
      BY <1>3, <3>1
    <3> HIDE DEF Part, Sol
    <3>3. Sol(n - 1)[n - 1] = Sol(n)[n - 1]
      BY <1>2, <3>1, <3>2
    <3> QED
      BY <2>1, <2>3, <3>1, <3>3
  <2> QED
    BY <2>2, <2>3
<1>5. f = [n \in Nat |-> D(f, n)]
  <2>1. f = [n \in Nat |-> f[n]]
    OBVIOUS
  <2>2. [n \in Nat |-> f[n]] = [n \in Nat |-> D(f, n)]
    BY <1>4
  <2> HIDE DEF f
  <2> QED
    BY <2>1, <2>2
<1> DEFINE E == CHOOSE e : e = [n \in Nat |-> D(e, n)]
<1>6. E = [n \in Nat |-> D(E, n)]
  <2> HIDE DEF f
  <2> QED
    BY <1>5
<1>7. Along = E
  BY DEF Along
<1>8. E[0] = Start /\ \A n \in Nat : E[n + 1] = Step(n + 1, E[n])
  <2> HIDE DEF E
  <2>1. ASSUME NEW n \in Nat PROVE E[n] = D(E, n)
    BY <1>6
  <2>2. ASSUME NEW n \in Nat PROVE E[n + 1] = Step(n + 1, E[n])
    <3>1. n + 1 \in Nat /\ n + 1 # 0 /\ n + 1 - 1 = n
      OBVIOUS
    <3>2. E[n + 1] = D(E, n + 1)
      BY <2>1, <3>1
    <3> QED
      BY <3>1, <3>2
  <2> QED
    BY <2>1, <2>2
<1> HIDE DEF E
<1> QED
  BY <1>7, <1>8
===============================================================================
