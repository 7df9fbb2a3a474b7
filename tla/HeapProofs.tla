----------------------------- MODULE HeapProofs -----------------------------
(***************************************************************************)
(* Proofs about module Heap, for every value of its constants.             *)
(***************************************************************************)
EXTENDS HeapProperties, FiniteSetTheorems, TLAPS

-----------------------------------------------------------------------------
(* The initial state. *)

LEMMA InitIInv == ASSUME Init PROVE IInv
<1> USE HeapAssumption DEF Init
<1>1. Live = {} /\ Freed = {}
  BY DEF Live, Freed, Fresh
<1>2. TypeOK
  BY DEF TypeOK, Kind, Phase, Frame, Value
<1>3. MetaOK
  BY DEF MetaOK
<1>8. ConstsOK
  BY DEF ConstsOK, Meta
<1>7. StringsOK /\ ListOK
  BY <1>1 DEF StringsOK, ListOK
<1>4. HeldGood
  BY <1>1 DEF HeldGood, Good, Kept
<1>5. MarksOK
  BY DEF MarksOK
<1>6. FramesOK /\ BaseFrame
  BY DEF FramesOK, BaseFrame
<1> QED
  BY <1>2, <1>3, <1>4, <1>5, <1>6, <1>7, <1>8 DEF IInv

-----------------------------------------------------------------------------
(* Steps of the program that leave the heap alone. *)

(* Replacing what the globals, the stack and the frames hold by good       *)
(* values preserves the invariant while the program runs.                  *)
LEMMA SameHeap ==
  ASSUME IInv, phase = "run", phase' \in {"run", "aborted"},
         UNCHANGED <<heapVars, m_metas, constTable, parsed, gcVars>>,
         m_frames # <<>>,
         m_globals' \in [Obj -> Value \cup {None}],
         m_values' \in Seq(Value), m_frames' \in Seq(Frame), m_frames' # <<>>,
         \A o \in Obj : m_globals'[o] # None => Good(o) /\ Good(m_globals'[o]),
         \A i \in 1..Len(m_values') : Good(m_values'[i]),
         \A i \in 1..Len(m_frames') :
           IF i = 1 THEN m_frames'[i].func = None
           ELSE /\ m_frames'[i].func \in Kept
                /\ kind[m_frames'[i].func] = "jsfunction"
  PROVE  IInv'
<1> USE DEF IInv, heapVars, gcVars
<1>1. Live' = Live /\ Freed' = Freed /\ Fresh' = Fresh /\ Kept' = Kept
  BY DEF Live, Freed, Fresh, Kept
<1>2. ScriptConstants' = ScriptConstants
  BY DEF ScriptConstants
<1>3. \A v : Good(v)' <=> Good(v)
  BY <1>1, <1>2 DEF Good
<1>4. TypeOK'
  BY DEF TypeOK, Phase
<1>5. MetaOK' /\ ConstsOK' /\ StringsOK' /\ ListOK'
  BY <1>1 DEF MetaOK, ConstsOK, StringsOK, ListOK
<1>6. FramesOK' /\ BaseFrame'
  BY <1>1 DEF FramesOK, BaseFrame
<1>7. HeldGood'
  BY <1>1, <1>3 DEF HeldGood
<1>8. MarksOK'
  BY <1>1 DEF MarksOK
<1> QED
  BY <1>4, <1>5, <1>6, <1>7, <1>8

-----------------------------------------------------------------------------
(* What a running body can name. *)

(* The running body has a meta, its locals are slots of the stack, and     *)
(* every operand it can name is good.                                      *)
LEMMA RunningBody ==
  ASSUME IInv, Running
  PROVE  /\ Code \in Meta
         /\ m_frames # <<>>
         /\ Locals \subseteq 1..Len(m_values)
         /\ \A v \in constTable[Code] : v \in Obj /\ Good(v) /\ v \in Live \cup Freed
         /\ \A v \in Operands : v \in Value /\ Good(v)
<1> USE HeapAssumption DEF IInv, Running
<1>0. Len(m_frames) \in 1..Len(m_frames) /\ m_frames # <<>> /\ m_frames \in Seq(Frame)
      /\ Top \in Frame
  BY DEF TypeOK, Top, Last
<1>1. Top.func \in Kept /\ kind[Top.func] = "jsfunction"
  BY <1>0 DEF FramesOK, Top, Last
<1>2. Code \in Meta
  BY <1>1 DEF Code, MetaOK, Kept, Live
<1>3. Locals \subseteq 1..Len(m_values)
  BY <1>0 DEF Locals, Frame, TypeOK
<1>4. \A v \in constTable[Code] : v \in Obj /\ v \in Live \cup Freed
  BY <1>2 DEF TypeOK, ConstsOK, Live
<1>5. ASSUME NEW v \in constTable[Code] PROVE Good(v)
  <2>1. CASE Code \in Script
    BY <1>4, <1>5, <2>1 DEF Good, Kept, ScriptConstants
  <2>2. CASE Code \in Func
    <3>1. Code \in m_metas
      BY <1>0, <1>5, <2>2 DEF ConstsOK
    <3> QED
      BY <3>1, <1>5 DEF HeldGood
  <2> QED
    BY <1>2, <2>1, <2>2 DEF Meta
<1>6. ASSUME NEW v \in Operands PROVE v \in Value /\ Good(v)
  <2>1. CASE v \in constTable[Code]
    BY <1>4, <1>5, <2>1 DEF Value
  <2>2. CASE v \in {Nil, Num}
    BY <2>2 DEF Value, Good
  <2>3. CASE v \in {m_values[i] : i \in Locals}
    BY <1>3, <2>3 DEF TypeOK, HeldGood
  <2> QED
    BY <1>6, <2>1, <2>2, <2>3 DEF Operands
<1> QED
  BY <1>0, <1>2, <1>3, <1>4, <1>5, <1>6

(* Storing a good value in a local. *)
LEMMA StoreGood ==
  ASSUME IInv, Running, NEW d \in Locals, NEW v \in Value, Store(d, v)
  PROVE  /\ m_values' \in Seq(Value)
         /\ Len(m_values') = Len(m_values)
         /\ \A i \in 1..Len(m_values') : m_values'[i] = IF i = d THEN v ELSE m_values[i]
<1>1. m_values \in Seq(Value) /\ d \in 1..Len(m_values)
  BY RunningBody DEF IInv, TypeOK
<1> QED
  BY <1>1 DEF Store

(* A step that only stores a good value in a local. *)
LEMMA StoreStep ==
  ASSUME IInv, Running, NEW d \in Locals, NEW v \in Value, Good(v), Store(d, v),
         UNCHANGED <<heapVars, m_globals, m_frames, m_metas, constTable, parsed, gcVars, phase>>
  PROVE  IInv'
<1>1. /\ m_values' \in Seq(Value)
      /\ \A i \in 1..Len(m_values') : Good(m_values'[i])
  BY StoreGood DEF IInv, HeldGood
<1>2. m_frames # <<>>
  BY RunningBody
<1>3. m_globals \in [Obj -> Value \cup {None}] /\ m_frames \in Seq(Frame)
  BY DEF IInv, TypeOK
<1>4. \A o \in Obj : m_globals[o] # None => Good(o) /\ Good(m_globals[o])
  BY DEF IInv, HeldGood
<1>5. FramesOK
  BY DEF IInv
<1> QED
  BY <1>1, <1>2, <1>3, <1>4, <1>5, SameHeap DEF Running, FramesOK

LEMMA MoveStep ==
  ASSUME IInv, NEW d, NEW v, Move(d, v) PROVE IInv'
<1>1. Running /\ d \in Locals /\ v \in Operands
  BY DEF Move
<1>2. v \in Value /\ Good(v)
  BY <1>1, RunningBody
<1> QED
  BY <1>1, <1>2, StoreStep DEF Move

LEMMA GetArrayStep ==
  ASSUME IInv, NEW d, NEW a, NEW i, GetArray(d, a, i) PROVE IInv'
<1>1. Running /\ d \in Locals /\ a \in Obj /\ kind[a] = "array" /\ a \in Operands
  BY DEF GetArray, OperandsOf
<1>2. a \in Kept
  <2>1. a \in Live
    BY <1>1 DEF Live, Fresh, Freed
  <2> QED
    BY <1>1, <2>1 DEF Kept, Running
<1>3. elems[a] \in Seq(Value) /\ i \in 1..Len(elems[a])
  BY <1>1 DEF GetArray, IInv, TypeOK
<1>4. elems[a][i] \in Value /\ Good(elems[a][i])
  BY <1>1, <1>2, <1>3 DEF IInv, HeldGood
<1> QED
  BY <1>1, <1>4, StoreStep DEF GetArray

LEMMA SetGlobalStep ==
  ASSUME IInv, NEW k, NEW v, SetGlobal(k, v) PROVE IInv'
<1>1. Running /\ k \in Obj /\ Good(k) /\ v \in Value /\ Good(v) /\ m_frames # <<>>
  BY RunningBody DEF SetGlobal
<1>2. /\ m_globals' \in [Obj -> Value \cup {None}]
      /\ m_values \in Seq(Value) /\ m_frames \in Seq(Frame)
  BY <1>1 DEF SetGlobal, IInv, TypeOK
<1>3. \A o \in Obj : m_globals'[o] # None => Good(o) /\ Good(m_globals'[o])
  BY <1>1 DEF SetGlobal, IInv, HeldGood, TypeOK
<1>4. \A i \in 1..Len(m_values) : Good(m_values[i])
  BY DEF IInv, HeldGood
<1>5. FramesOK
  BY DEF IInv
<1> QED
  BY <1>1, <1>2, <1>3, <1>4, <1>5, SameHeap DEF SetGlobal, Running, FramesOK

LEMMA GetGlobalStep ==
  ASSUME IInv, NEW d, NEW k, GetGlobal(d, k) PROVE IInv'
<1> DEFINE v == m_globals'[k]
<1>1. /\ Running /\ d \in Locals /\ k \in Obj /\ Good(k) /\ m_frames # <<>>
      /\ Store(d, v)
  BY RunningBody DEF GetGlobal
<1>2. /\ m_globals' \in [Obj -> Value \cup {None}]
      /\ v \in Value
      /\ m_frames \in Seq(Frame)
  BY <1>1, HeapAssumption DEF GetGlobal, IInv, TypeOK, Value
<1>3. \A o \in Obj : m_globals'[o] # None => Good(o) /\ Good(m_globals'[o])
  <2>1. Good(Nil)
    BY HeapAssumption DEF Good
  <2> QED
    BY <1>1, <2>1 DEF GetGlobal, IInv, HeldGood, TypeOK
<1>4. Good(v)
  BY <1>1, <1>2, <1>3, HeapAssumption
<1>5. /\ m_values' \in Seq(Value)
      /\ \A i \in 1..Len(m_values') : Good(m_values'[i])
  BY <1>1, <1>2, <1>4, StoreGood DEF IInv, HeldGood
<1>6. FramesOK
  BY DEF IInv
<1> QED
  BY <1>1, <1>2, <1>3, <1>5, <1>6, SameHeap DEF GetGlobal, Running, FramesOK

-----------------------------------------------------------------------------
(* Calls and returns. *)

LEMMA ResizeGood ==
  ASSUME NEW s \in Seq(Value), NEW n \in Int
  PROVE  /\ Resize(s, n) \in Seq(Value)
         /\ n \in Nat => Len(Resize(s, n)) = n
         /\ \A i \in 1..Len(Resize(s, n)) :
              \/ i \in 1..Len(s) /\ Resize(s, n)[i] = s[i]
              \/ Resize(s, n)[i] = Nil
<1> DEFINE r(i) == IF i <= Len(s) THEN s[i] ELSE Nil
           k == IF n \in Nat THEN n ELSE 0
<1>1. Resize(s, n) = [i \in 1..k |-> r(i)]
  <2>1. 1..n = 1..k
    OBVIOUS
  <2> QED
    BY <2>1 DEF Resize
<1>2. \A i \in 1..k : r(i) \in Value
  BY DEF Value
<1>3. k \in Nat
  OBVIOUS
<1>4. \A i \in 1..k : (i \in 1..Len(s) /\ r(i) = s[i]) \/ r(i) = Nil
  OBVIOUS
<1> HIDE DEF r
<1>5. [i \in 1..k |-> r(i)] \in Seq(Value) /\ Len([i \in 1..k |-> r(i)]) = k
  BY <1>2, <1>3
<1> QED
  BY <1>1, <1>4, <1>5

(* A step of the program that only resizes the stack and drops frames. *)
LEMMA PopStep ==
  ASSUME IInv, Running, NEW n \in Int, NEW k \in 1..Len(m_frames),
         m_values' = Resize(m_values, n), m_frames' = SubSeq(m_frames, 1, k),
         phase' \in {"run", "aborted"},
         UNCHANGED <<heapVars, m_globals, m_metas, constTable, parsed, gcVars>>
  PROVE  IInv'
<1>1. /\ m_values \in Seq(Value) /\ m_frames \in Seq(Frame)
      /\ m_globals \in [Obj -> Value \cup {None}]
  BY DEF IInv, TypeOK
<1>2. Good(Nil)
  BY HeapAssumption DEF Good
<1>3. m_values' \in Seq(Value) /\ \A i \in 1..Len(m_values') : Good(m_values'[i])
  <2>1. \A i \in 1..Len(m_values) : Good(m_values[i])
    BY DEF IInv, HeldGood
  <2> QED
    BY <1>1, <1>2, <2>1, ResizeGood
<1>4. /\ m_frames' \in Seq(Frame) /\ Len(m_frames') = k /\ m_frames' # <<>>
      /\ \A i \in 1..k : m_frames'[i] = m_frames[i]
  BY <1>1
<1>5. \A i \in 1..Len(m_frames') :
        IF i = 1 THEN m_frames'[i].func = None
        ELSE /\ m_frames'[i].func \in Kept
             /\ kind[m_frames'[i].func] = "jsfunction"
  BY <1>1, <1>4 DEF IInv, FramesOK
<1>6. \A o \in Obj : m_globals[o] # None => Good(o) /\ Good(m_globals[o])
  BY DEF IInv, HeldGood
<1> QED
  BY <1>1, <1>3, <1>4, <1>5, <1>6, RunningBody, SameHeap DEF Running

LEMMA ThrowStep ==
  ASSUME IInv, Throw PROVE IInv'
<1>1. Running /\ m_frames \in Seq(Frame)
  BY DEF Throw, IInv, TypeOK
<1>2. 2 \in 1..Len(m_frames) /\ 1 \in 1..Len(m_frames)
  BY <1>1 DEF Running
<1>3. m_frames[2] \in Frame
  BY <1>1, <1>2
<1>4. m_frames[2].oldStackSize \in Int
  BY <1>3 DEF Frame
<1> QED
  BY <1>1, <1>2, <1>4, PopStep DEF Throw

LEMMA ReturnStep ==
  ASSUME IInv, Return PROVE IInv'
<1>1. Running /\ m_frames \in Seq(Frame)
  BY DEF Return, IInv, TypeOK
<1>2. Len(m_frames) \in 1..Len(m_frames) /\ Len(m_frames) - 1 \in 1..Len(m_frames)
  BY <1>1 DEF Running
<1>7. Top \in Frame
  BY <1>1, <1>2 DEF Top, Last
<1>3. Top.oldStackSize \in Nat
  BY <1>7 DEF Frame
<1>4. NArgs \in Nat
  BY HeapAssumption DEF NArgs
<1> DEFINE n == IF Len(m_frames) = 2 THEN Top.oldStackSize - NArgs ELSE Top.oldStackSize
<1>5. n \in Int
  BY <1>3, <1>4
<1>6. m_values' = Resize(m_values, n)
  BY DEF Return
<1> HIDE DEF n
<1> QED
  BY <1>1, <1>2, <1>5, <1>6, PopStep DEF Return, Running, Front

LEMMA CallStep ==
  ASSUME IInv, NEW f, NEW a, NEW n, Call(f, a, n) PROVE IInv'
<1>1. /\ Running /\ f \in Obj /\ kind[f] = "jsfunction"
      /\ a \in 1..Len(m_values) /\ n \in Nat /\ m_frames # <<>>
  BY RunningBody DEF Call, OperandsOf, IInv, TypeOK
<1>2. f \in Kept /\ meta[f] \in Meta
  BY <1>1 DEF Kept, Live, Fresh, Freed, Running, IInv, MetaOK
<1>3. /\ m_values \in Seq(Value) /\ m_frames \in Seq(Frame)
      /\ m_globals \in [Obj -> Value \cup {None}]
  BY DEF IInv, TypeOK
<1>4. Good(Nil)
  BY HeapAssumption DEF Good
<1> DEFINE args == [i \in DOMAIN m_values |->
                      IF i \in (a + n)..(a + ArgCount[meta[f]] - 1)
                      THEN Nil ELSE m_values[i]]
           size == a - 1 + LocalSpace[meta[f]]
<1>5. args \in Seq(Value) /\ Len(args) = Len(m_values)
  BY <1>3 DEF Value
<1>6. \A i \in 1..Len(args) : Good(args[i])
  BY <1>3, <1>4, <1>5 DEF IInv, HeldGood
<1>7. size \in Nat
  BY <1>1, <1>2, HeapAssumption
<1>8. m_values' = Resize(args, size)
  BY DEF Call
<1>9. m_values' \in Seq(Value) /\ \A i \in 1..Len(m_values') : Good(m_values'[i])
  <2> HIDE DEF args, size
  <2>1. size \in Int
    BY <1>7
  <2>2. /\ m_values' \in Seq(Value)
        /\ \A i \in 1..Len(m_values') :
             \/ i \in 1..Len(args) /\ m_values'[i] = args[i]
             \/ m_values'[i] = Nil
    BY <1>5, <1>8, <2>1, ResizeGood
  <2> QED
    BY <1>4, <1>6, <2>2
<1> DEFINE fr == [func |-> f, base |-> a, oldStackSize |-> Len(m_values)]
<1>10. fr \in Frame /\ fr.func = f
  BY <1>1, <1>3 DEF Frame
<1>11. m_frames' = Append(m_frames, fr)
  BY DEF Call
<1>12. /\ m_frames' \in Seq(Frame) /\ m_frames' # <<>>
       /\ \A i \in 1..Len(m_frames') :
            IF i = 1 THEN m_frames'[i].func = None
            ELSE /\ m_frames'[i].func \in Kept
                 /\ kind[m_frames'[i].func] = "jsfunction"
  <2> HIDE DEF fr
  <2>1. m_frames' \in Seq(Frame) /\ Len(m_frames') = Len(m_frames) + 1
    BY <1>3, <1>10, <1>11
  <2>2. \A i \in 1..Len(m_frames) : m_frames'[i] = m_frames[i]
    BY <1>3, <1>10, <1>11
  <2>3. m_frames'[Len(m_frames) + 1] = fr /\ Len(m_frames) + 1 # 1
    BY <1>1, <1>3, <1>10, <1>11
  <2> QED
    BY <1>1, <1>2, <1>3, <1>10, <2>1, <2>2, <2>3 DEF IInv, FramesOK
<1>13. \A o \in Obj : m_globals[o] # None => Good(o) /\ Good(m_globals[o])
  BY DEF IInv, HeldGood
<1> HIDE DEF args, size, fr
<1> QED
  BY <1>1, <1>3, <1>9, <1>12, <1>13, SameHeap DEF Call, Running

-----------------------------------------------------------------------------
(* Writing to an array. *)

LEMMA ArrayStep ==
  ASSUME IInv, phase = "run", phase' = phase, m_frames # <<>>,
         NEW a \in Obj, kind[a] = "array",
         NEW t \in Seq(Value), \A i \in 1..Len(t) : Good(t[i]),
         elems' = [elems EXCEPT ![a] = t],
         m_values' \in Seq(Value), \A i \in 1..Len(m_values') : Good(m_values'[i]),
         UNCHANGED <<kind, text, meta, m_head, m_objCount, m_strs, m_globals,
                     m_frames, m_metas, constTable, parsed, gcVars>>
  PROVE  IInv'
<1> USE DEF IInv, gcVars
<1>1. Live' = Live /\ Freed' = Freed /\ Fresh' = Fresh /\ Kept' = Kept
  BY DEF Live, Freed, Fresh, Kept
<1>2. \A v : Good(v)' <=> Good(v)
  BY <1>1 DEF Good, ScriptConstants
<1>3. TypeOK'
  BY DEF TypeOK
<1>4. MetaOK' /\ ConstsOK' /\ StringsOK' /\ ListOK' /\ FramesOK' /\ BaseFrame'
  BY <1>1 DEF MetaOK, ConstsOK, StringsOK, ListOK, FramesOK, BaseFrame
<1>5. HeldGood'
  BY <1>1, <1>2 DEF HeldGood, TypeOK
<1>6. MarksOK'
  BY <1>1 DEF MarksOK
<1> QED
  BY <1>3, <1>4, <1>5, <1>6

(* The elements of an array that exists are good while the program runs. *)
LEMMA ElementsGood ==
  ASSUME IInv, phase = "run", NEW a \in Obj, kind[a] = "array"
  PROVE  elems[a] \in Seq(Value) /\ \A i \in 1..Len(elems[a]) : Good(elems[a][i])
<1>1. a \in Kept
  BY DEF Kept, Live, Fresh, Freed
<1> QED
  BY <1>1 DEF IInv, TypeOK, HeldGood

LEMMA SetArrayStep ==
  ASSUME IInv, NEW a, NEW i, NEW v, SetArray(a, i, v) PROVE IInv'
<1>1. /\ Running /\ a \in Obj /\ kind[a] = "array" /\ m_frames # <<>>
      /\ v \in Value /\ Good(v) /\ phase = "run"
  BY RunningBody DEF SetArray, OperandsOf, Running
<1>2. elems[a] \in Seq(Value) /\ \A j \in 1..Len(elems[a]) : Good(elems[a][j])
  BY <1>1, ElementsGood
<1> DEFINE t == [elems[a] EXCEPT ![i] = v]
<1>3. t \in Seq(Value) /\ \A j \in 1..Len(t) : Good(t[j])
  <2>3. i \in 1..Len(elems[a])
    BY <1>2 DEF SetArray
  <2>1. t \in Seq(Value) /\ Len(t) = Len(elems[a])
    BY <1>1, <1>2, <2>3
  <2>2. \A j \in 1..Len(t) : t[j] = v \/ t[j] = elems[a][j]
    BY <1>2, <2>1
  <2> QED
    BY <1>1, <1>2, <2>1, <2>2
<1>4. elems' = [elems EXCEPT ![a] = t]
  BY DEF SetArray
<1>5. m_values \in Seq(Value) /\ \A j \in 1..Len(m_values) : Good(m_values[j])
  BY DEF IInv, TypeOK, HeldGood
<1> HIDE DEF t
<1> QED
  BY <1>1, <1>3, <1>4, <1>5, ArrayStep DEF SetArray, rootVars

LEMMA InsertAtElements ==
  ASSUME NEW s \in Seq(Value), NEW pos \in 1..(Len(s) + 1), NEW v \in Value
  PROVE  /\ InsertAt(s, pos, v) \in Seq(Value)
         /\ \A i \in 1..Len(InsertAt(s, pos, v)) :
              \/ InsertAt(s, pos, v)[i] = v
              \/ \E j \in 1..Len(s) : InsertAt(s, pos, v)[i] = s[j]
<1> DEFINE l == SubSeq(s, 1, pos - 1)
           r == SubSeq(s, pos, Len(s))
<1>1. /\ l \in Seq(Value) /\ Len(l) = pos - 1
      /\ \A i \in 1..Len(l) : l[i] = s[i] /\ i \in 1..Len(s)
  OBVIOUS
<1>2. /\ r \in Seq(Value) /\ Len(r) = Len(s) - pos + 1
      /\ \A i \in 1..Len(r) : r[i] = s[pos + i - 1] /\ pos + i - 1 \in 1..Len(s)
  OBVIOUS
<1>3. InsertAt(s, pos, v) = l \o <<v>> \o r
  BY DEF InsertAt
<1> HIDE DEF l, r
<1> DEFINE t == l \o <<v>> \o r
<1>4. t \in Seq(Value) /\ Len(t) = Len(l) + 1 + Len(r)
  BY <1>1, <1>2
<1>5. ASSUME NEW i \in 1..Len(t) PROVE t[i] = v \/ \E j \in 1..Len(s) : t[i] = s[j]
  <2>1. CASE i <= Len(l)
    <3>1. t[i] = l[i] /\ i \in 1..Len(l)
      BY <1>1, <1>2, <1>4, <2>1
    <3> QED
      BY <1>1, <3>1
  <2>2. CASE i = Len(l) + 1
    BY <1>1, <1>2, <2>2
  <2>3. CASE i > Len(l) + 1
    <3>1. t[i] = r[i - Len(l) - 1] /\ i - Len(l) - 1 \in 1..Len(r)
      BY <1>1, <1>2, <1>4, <2>3
    <3> QED
      BY <1>2, <3>1
  <2> QED
    BY <1>1, <1>4, <2>1, <2>2, <2>3
<1> HIDE DEF t
<1> QED
  BY <1>3, <1>4, <1>5 DEF t

LEMMA RemoveAtElements ==
  ASSUME NEW s \in Seq(Value), NEW pos \in 1..Len(s)
  PROVE  /\ RemoveAt(s, pos) \in Seq(Value)
         /\ \A i \in 1..Len(RemoveAt(s, pos)) :
              \E j \in 1..Len(s) : RemoveAt(s, pos)[i] = s[j]
<1> DEFINE l == SubSeq(s, 1, pos - 1)
           r == SubSeq(s, pos + 1, Len(s))
<1>1. /\ l \in Seq(Value) /\ Len(l) = pos - 1
      /\ \A i \in 1..Len(l) : l[i] = s[i] /\ i \in 1..Len(s)
  OBVIOUS
<1>2. /\ r \in Seq(Value) /\ Len(r) = Len(s) - pos
      /\ \A i \in 1..Len(r) : r[i] = s[pos + i] /\ pos + i \in 1..Len(s)
  OBVIOUS
<1>3. RemoveAt(s, pos) = l \o r
  BY DEF RemoveAt
<1> HIDE DEF l, r
<1> DEFINE t == l \o r
<1>4. t \in Seq(Value) /\ Len(t) = Len(l) + Len(r)
  <2>1. l \in Seq(Value) /\ r \in Seq(Value)
    BY <1>1, <1>2
  <2> QED
    BY <2>1
<1>5. ASSUME NEW i \in 1..Len(t) PROVE \E j \in 1..Len(s) : t[i] = s[j]
  <2>1. CASE i <= Len(l)
    <3>1. t[i] = l[i] /\ i \in 1..Len(l)
      BY <1>1, <1>2, <1>4, <2>1
    <3> QED
      BY <1>1, <3>1
  <2>2. CASE i > Len(l)
    <3>1. t[i] = r[i - Len(l)] /\ i - Len(l) \in 1..Len(r)
      BY <1>1, <1>2, <1>4, <2>2
    <3> QED
      BY <1>2, <3>1
  <2> QED
    BY <1>1, <1>4, <2>1, <2>2
<1> HIDE DEF t
<1> QED
  BY <1>3, <1>4, <1>5 DEF t

(* insert and remove: the array is in local d, which then becomes nil. *)
LEMMA ArrayBuiltin ==
  ASSUME IInv, Running, NEW d \in Locals, m_values[d] \in OperandsOf("array")
  PROVE  LET a == m_values[d] IN
         /\ phase = "run" /\ m_frames # <<>>
         /\ a \in Obj /\ kind[a] = "array"
         /\ elems[a] \in Seq(Value) /\ \A i \in 1..Len(elems[a]) : Good(elems[a][i])
         /\ Store(d, Nil) => /\ m_values' \in Seq(Value)
                             /\ \A i \in 1..Len(m_values') : Good(m_values'[i])
<1> DEFINE a == m_values[d]
<1>1. phase = "run" /\ m_frames # <<>> /\ a \in Obj /\ kind[a] = "array"
  BY RunningBody DEF OperandsOf, Running
<1>2. elems[a] \in Seq(Value) /\ \A i \in 1..Len(elems[a]) : Good(elems[a][i])
  BY <1>1, ElementsGood
<1>3. Nil \in Value /\ Good(Nil)
  BY HeapAssumption DEF Good, Value
<1>4. ASSUME Store(d, Nil)
      PROVE  m_values' \in Seq(Value) /\ \A i \in 1..Len(m_values') : Good(m_values'[i])
  BY <1>3, <1>4, StoreGood DEF IInv, HeldGood
<1> QED
  BY <1>1, <1>2, <1>4

LEMMA ArrayInsertStep ==
  ASSUME IInv, NEW d, NEW pos, NEW v, ArrayInsert(d, pos, v) PROVE IInv'
<1> DEFINE a == m_values[d]
           t == InsertAt(elems[a], pos, v)
<1>1. Running /\ d \in Locals /\ a \in OperandsOf("array") /\ v \in Value /\ Good(v)
  BY RunningBody DEF ArrayInsert
<1>2. /\ phase = "run" /\ m_frames # <<>> /\ a \in Obj /\ kind[a] = "array"
      /\ elems[a] \in Seq(Value) /\ \A i \in 1..Len(elems[a]) : Good(elems[a][i])
      /\ m_values' \in Seq(Value) /\ \A i \in 1..Len(m_values') : Good(m_values'[i])
  BY <1>1, ArrayBuiltin DEF ArrayInsert
<1>3. pos \in 1..(Len(elems[a]) + 1) /\ elems' = [elems EXCEPT ![a] = t]
  BY DEF ArrayInsert
<1>4. t \in Seq(Value) /\ \A i \in 1..Len(t) : Good(t[i])
  BY <1>1, <1>2, <1>3, InsertAtElements
<1> HIDE DEF a, t
<1> QED
  BY <1>2, <1>3, <1>4, ArrayStep DEF ArrayInsert

LEMMA ArrayRemoveStep ==
  ASSUME IInv, NEW d, NEW pos, ArrayRemove(d, pos) PROVE IInv'
<1> DEFINE a == m_values[d]
           t == RemoveAt(elems[a], pos)
<1>1. Running /\ d \in Locals /\ a \in OperandsOf("array")
  BY DEF ArrayRemove
<1>2. /\ phase = "run" /\ m_frames # <<>> /\ a \in Obj /\ kind[a] = "array"
      /\ elems[a] \in Seq(Value) /\ \A i \in 1..Len(elems[a]) : Good(elems[a][i])
      /\ m_values' \in Seq(Value) /\ \A i \in 1..Len(m_values') : Good(m_values'[i])
  BY <1>1, ArrayBuiltin DEF ArrayRemove
<1>3. pos \in 1..Len(elems[a]) /\ elems' = [elems EXCEPT ![a] = t]
  BY <1>2 DEF ArrayRemove
<1>4. t \in Seq(Value) /\ \A i \in 1..Len(t) : Good(t[i])
  BY <1>2, <1>3, RemoveAtElements
<1> HIDE DEF a, t
<1> QED
  BY <1>2, <1>3, <1>4, ArrayStep DEF ArrayRemove

-----------------------------------------------------------------------------
(* Allocation. *)

(* Linking new objects: what existed still does, nothing is freed, and     *)
(* what was good stays good.                                               *)
LEMMA LinkGrows ==
  ASSUME IInv, phase \in {"boot", "load", "run"}, phase' \in {"boot", "load", "run"},
         NEW new, NextFresh(new),
         NEW newKind \in [Obj -> {"string", "array", "jsfunction", "cfunction"}],
         Link(new, newKind), UNCHANGED gcVars,
         ScriptConstants \subseteq ScriptConstants'
  PROVE  /\ kind' \in [Obj -> Kind] /\ m_head' \subseteq Obj /\ m_objCount' \in Nat
         /\ new \subseteq Obj
         /\ \A o \in Obj : kind'[o] = IF o \in new THEN newKind[o] ELSE kind[o]
         /\ Live' = Live \cup new /\ Fresh' = Fresh \ new
         /\ Kept = Live /\ Kept' = Live'
         /\ \A v : Good(v) => Good(v)'
         /\ \A o \in new : Good(o)'
         /\ ListOK'
<1> USE DEF IInv
<1>1. new \subseteq Fresh /\ Fresh \subseteq Obj
  BY DEF NextFresh, Fresh
<1>2. \A o \in Obj : kind'[o] = IF o \in new THEN newKind[o] ELSE kind[o]
  BY DEF Link
<1>3. \A o \in new : newKind[o] \notin {"fresh", "freed"} /\ kind[o] = "fresh" /\ o \in Obj
  BY <1>1 DEF Fresh
<1>4. Live' = Live \cup new /\ Freed' = Freed /\ Fresh' = Fresh \ new
  BY <1>2, <1>3 DEF Live, Freed, Fresh
<1>5. Kept = Live /\ Kept' = Live'
  BY DEF Kept
<1>6. (\A v : Good(v) => Good(v)') /\ (\A o \in new : Good(o)')
  BY <1>4, <1>5 DEF Good
<1>7. ListOK'
  BY <1>1, <1>4 DEF ListOK, Link, gcVars, Live
<1>8. kind' \in [Obj -> Kind] /\ m_head' \subseteq Obj
  BY <1>1 DEF Link, TypeOK, Kind
<1>9. m_objCount' \in Nat
  <2>1. IsFiniteSet(Obj)
    BY FS_Interval, HeapAssumption DEF Obj
  <2>2. IsFiniteSet(new)
    BY <1>1, <2>1, FS_Subset
  <2> QED
    BY <2>2, FS_CardinalityType DEF Link, TypeOK
<1> QED
  BY <1>1, <1>2, <1>4, <1>5, <1>6, <1>7, <1>8, <1>9

(* Interned or new, a string asked for exists afterwards. *)
LEMMA InterningGood ==
  ASSUME IInv, phase \in {"boot", "load", "run"},
         NEW contents \in SUBSET Text, NEW g, Interning(contents, g), StoreTexts(g)
  PROVE  /\ g \in [contents -> Obj]
         /\ \A c \in contents : g[c] \in Live \cup NewStrings(g)
         /\ NewStrings(g) \subseteq Fresh
         /\ text' \in [Obj -> Text \cup {None}]
         /\ m_strs' \subseteq Live \cup NewStrings(g) /\ m_strs' \subseteq Obj
<1> USE DEF IInv
<1>1. g \in [contents -> Obj] /\ DOMAIN g = contents
  BY DEF Interning
<1>2. \A c \in contents : g[c] \in m_strs \/ g[c] \in Fresh
  BY DEF Interning
<1>3. m_strs \subseteq Live /\ Live \subseteq Obj
  BY DEF StringsOK, Live
<1>4. \A c \in contents : g[c] \in Live \cup NewStrings(g)
  BY <1>1, <1>2, <1>3 DEF NewStrings
<1>5. NewStrings(g) \subseteq Fresh /\ Fresh \subseteq Obj
  BY DEF NewStrings, Fresh
<1>6. ASSUME NEW o \in NewStrings(g)
      PROVE  (CHOOSE c \in DOMAIN g : g[c] = o) \in Text
  BY <1>1, <1>6 DEF NewStrings
<1>7. text' \in [Obj -> Text \cup {None}]
  BY <1>6 DEF StoreTexts, TypeOK
<1> QED
  BY <1>1, <1>3, <1>4, <1>5, <1>7 DEF StoreTexts

(* A step that allocates preserves the invariant when everything held      *)
(* afterwards was good before, existed, or is new.                         *)
LEMMA GrowStep ==
  ASSUME IInv, phase \in {"boot", "load", "run"}, phase' \in {"load", "run"},
         NEW new, NextFresh(new),
         NEW newKind \in [Obj -> {"string", "array", "jsfunction", "cfunction"}],
         Link(new, newKind), UNCHANGED gcVars,
         text' \in [Obj -> Text \cup {None}],
         m_strs' \subseteq Live \cup new,
         elems' \in [Obj -> Seq(Value)],
         \A o \in Obj \ new : elems'[o] = elems[o],
         \A o \in new : kind'[o] = "array" => \A i \in 1..Len(elems'[o]) : Good(elems'[o][i]),
         meta' \in [Obj -> Meta \cup {None}],
         \A o \in Obj \ new : meta'[o] = meta[o],
         \A o \in new : kind'[o] = "jsfunction" => meta'[o] \in Meta,
         constTable' \in [Meta -> SUBSET (Obj \ (Fresh \ new))],
         ScriptConstants \subseteq ScriptConstants',
         m_metas' \subseteq Func, parsed' \subseteq Script,
         \A f \in Func \ m_metas' : constTable'[f] = {},
         \A s \in Script \ parsed' : constTable'[s] = {},
         \A f \in m_metas' : \A o \in constTable'[f] : Good(o) \/ o \in Live \cup new,
         m_globals' \in [Obj -> Value \cup {None}],
         \A o \in Obj : m_globals'[o] # None =>
           /\ Good(o) \/ o \in new
           /\ Good(m_globals'[o]) \/ m_globals'[o] \in new,
         m_values' \in Seq(Value),
         \A i \in 1..Len(m_values') : Good(m_values'[i]) \/ m_values'[i] \in Live \cup new,
         m_frames' \in Seq(Frame), m_frames' # <<>>,
         \A i \in 1..Len(m_frames') :
           IF i = 1 THEN m_frames'[i].func = None
           ELSE m_frames'[i].func \in Live \cup new /\ kind'[m_frames'[i].func] = "jsfunction"
  PROVE  IInv'
<1> USE DEF IInv
<1>1. /\ kind' \in [Obj -> Kind] /\ m_head' \subseteq Obj /\ m_objCount' \in Nat
      /\ new \subseteq Obj
      /\ \A o \in Obj : kind'[o] = IF o \in new THEN newKind[o] ELSE kind[o]
      /\ Live' = Live \cup new /\ Fresh' = Fresh \ new
      /\ Kept = Live /\ Kept' = Live'
      /\ \A w : Good(w) => Good(w)'
      /\ \A o \in new : Good(o)'
      /\ ListOK'
  BY LinkGrows
<1>2. \A w : Good(w) \/ w \in Live \cup new => Good(w)'
  BY <1>1 DEF Good
<1>3. TypeOK'
  <2>1. constTable' \in [Meta -> SUBSET Obj]
    OBVIOUS
  <2>2. m_strs' \subseteq Obj
    BY <1>1 DEF Live
  <2>3. phase' \in Phase
    BY DEF Phase
  <2> QED
    BY <1>1, <2>1, <2>2, <2>3 DEF TypeOK, gcVars
<1>4. MetaOK'
  BY <1>1 DEF MetaOK
<1>5. FramesOK' /\ BaseFrame'
  BY <1>1 DEF FramesOK, BaseFrame
<1>6. ConstsOK'
  BY <1>1 DEF ConstsOK
<1>7. StringsOK'
  BY <1>1 DEF StringsOK
<1>8. HeldGood'
  <2>1. (\A o \in Obj : m_globals[o] # None => Good(o) /\ Good(m_globals[o]))'
    BY <1>2
  <2>2. (\A i \in 1..Len(m_values) : Good(m_values[i]))'
    BY <1>2
  <2>3. (\A f \in m_metas : \A o \in constTable[f] : Good(o))'
    BY <1>2
  <2>4. ASSUME NEW p \in Kept', kind'[p] = "array", NEW i \in 1..Len(elems'[p]),
               NEW w, w = elems'[p][i]
        PROVE  Good(w)'
    <3>1. CASE p \in new
      BY <1>1, <2>4, <3>1
    <3>2. CASE p \notin new
      BY <1>1, <2>4, <3>2 DEF HeldGood, Live
    <3> QED
      BY <3>1, <3>2
  <2> QED
    BY <2>1, <2>2, <2>3, <2>4 DEF HeldGood
<1>9. MarksOK'
  BY <1>1 DEF MarksOK, gcVars
<1> QED
  BY <1>1, <1>3, <1>4, <1>5, <1>6, <1>7, <1>8, <1>9

(* A step of the running program that allocates, and stores the new        *)
(* object, or an interned one, in a local.                                 *)
LEMMA AllocStep ==
  ASSUME IInv, Running, phase' = phase,
         NEW new, NextFresh(new),
         NEW newKind \in [Obj -> {"string", "array", "jsfunction", "cfunction"}],
         Link(new, newKind),
         UNCHANGED <<m_globals, m_frames, m_metas, constTable, parsed, gcVars>>,
         text' \in [Obj -> Text \cup {None}],
         m_strs' \subseteq Live \cup new,
         elems' \in [Obj -> Seq(Value)],
         \A o \in Obj \ new : elems'[o] = elems[o],
         \A o \in new : kind'[o] = "array" => \A i \in 1..Len(elems'[o]) : Good(elems'[o][i]),
         meta' \in [Obj -> Meta \cup {None}],
         \A o \in Obj \ new : meta'[o] = meta[o],
         \A o \in new : kind'[o] = "jsfunction" => meta'[o] \in Meta,
         NEW d \in Locals, NEW v \in Live \cup new, Store(d, v)
  PROVE  IInv'
<1>1. /\ phase = "run" /\ m_frames # <<>>
      /\ Kept = Live /\ new \subseteq Fresh /\ Fresh \subseteq Obj /\ Live \subseteq Obj
  BY RunningBody DEF Running, Kept, NextFresh, Fresh, Live
<1>2. ScriptConstants' = ScriptConstants
  BY DEF ScriptConstants
<1>3. v \in Value
  BY <1>1 DEF Value
<1>4. /\ m_values' \in Seq(Value)
      /\ \A i \in 1..Len(m_values') : Good(m_values'[i]) \/ m_values'[i] \in Live \cup new
  <2>1. \A i \in 1..Len(m_values) : Good(m_values[i])
    BY DEF IInv, HeldGood
  <2>2. /\ m_values' \in Seq(Value) /\ Len(m_values') = Len(m_values)
        /\ \A i \in 1..Len(m_values') : m_values'[i] = v \/ m_values'[i] = m_values[i]
    BY <1>3, StoreGood
  <2> QED
    BY <2>1, <2>2
<1>5. /\ constTable \in [Meta -> SUBSET Obj] /\ m_metas \subseteq Func /\ parsed \subseteq Script
      /\ m_globals \in [Obj -> Value \cup {None}] /\ m_frames \in Seq(Frame)
  BY DEF IInv, TypeOK
<1>6. /\ \A m \in Meta : constTable[m] \cap Fresh = {}
      /\ \A f \in Func \ m_metas : constTable[f] = {}
      /\ \A s \in Script \ parsed : constTable[s] = {}
  BY <1>1 DEF IInv, ConstsOK
<1>7. constTable' \in [Meta -> SUBSET (Obj \ (Fresh \ new))]
  BY <1>5, <1>6
<1>8. /\ \A f \in m_metas : \A o \in constTable[f] : Good(o)
      /\ \A o \in Obj : m_globals[o] # None => Good(o) /\ Good(m_globals[o])
  BY DEF IInv, HeldGood
<1>9. \A i \in 1..Len(m_frames') :
        IF i = 1 THEN m_frames'[i].func = None
        ELSE m_frames'[i].func \in Live \cup new /\ kind'[m_frames'[i].func] = "jsfunction"
  BY <1>1 DEF IInv, FramesOK, Link, Fresh, Live
<1>10. /\ m_metas' \subseteq Func /\ parsed' \subseteq Script
       /\ m_globals' \in [Obj -> Value \cup {None}] /\ m_frames' \in Seq(Frame)
       /\ \A f \in Func \ m_metas' : constTable'[f] = {}
       /\ \A s \in Script \ parsed' : constTable'[s] = {}
       /\ \A f \in m_metas' : \A o \in constTable'[f] : Good(o) \/ o \in Live \cup new
       /\ \A o \in Obj : m_globals'[o] # None =>
            /\ Good(o) \/ o \in new
            /\ Good(m_globals'[o]) \/ m_globals'[o] \in new
  BY <1>5, <1>6, <1>8
<1>11. phase \in {"boot", "load", "run"} /\ phase' \in {"load", "run"} /\ UNCHANGED gcVars
       /\ m_frames' # <<>>
  BY <1>1
<1> QED
  BY <1>2, <1>4, <1>7, <1>9, <1>10, <1>11, GrowStep

LEMMA MakeStringStep ==
  ASSUME IInv, NEW d, NEW c \in Text, MakeString(d, c) PROVE IInv'
<1>1. PICK g \in [{c} -> Obj] :
        /\ Interning({c}, g) /\ NextFresh(NewStrings(g))
        /\ Link(NewStrings(g), [o \in Obj |-> "string"])
        /\ StoreTexts(g) /\ Store(d, g[c])
  BY DEF MakeString
<1>2. Running /\ d \in Locals /\ phase' = phase /\ phase = "run"
  BY DEF MakeString, Running
<1> DEFINE new == NewStrings(g)
           newKind == [o \in Obj |-> "string"]
<1>3. /\ text' \in [Obj -> Text \cup {None}] /\ m_strs' \subseteq Live \cup new
      /\ g[c] \in Live \cup new
  BY <1>1, <1>2, InterningGood
<1>4. newKind \in [Obj -> {"string", "array", "jsfunction", "cfunction"}]
  OBVIOUS
<1>5. UNCHANGED <<elems, meta, m_globals, m_frames, m_metas, constTable, parsed, gcVars>>
  BY DEF MakeString
<1>6. \A o \in new : kind'[o] = "string"
  BY <1>1 DEF Link, NewStrings, Fresh
<1>7. elems \in [Obj -> Seq(Value)] /\ meta \in [Obj -> Meta \cup {None}]
  BY DEF IInv, TypeOK
<1>8. NextFresh(new) /\ Link(new, newKind)
  BY <1>1
<1> HIDE DEF new, newKind
<1> QED
  BY <1>1, <1>2, <1>3, <1>4, <1>5, <1>6, <1>7, <1>8, AllocStep

LEMMA NewArrayStep ==
  ASSUME IInv, NEW d, NEW src, NEW n, NewArray(d, src, n) PROVE IInv'
<1>1. PICK o \in Fresh :
        /\ NextFresh({o}) /\ Link({o}, [p \in Obj |-> "array"])
        /\ elems' = [elems EXCEPT ![o] = SubSeq(m_values, src, src + n - 1)]
        /\ Store(d, o)
  BY DEF NewArray
<1>2. /\ Running /\ d \in Locals /\ phase' = phase /\ o \in Obj
      /\ src \in 1..Len(m_values) /\ n \in Nat /\ src + n - 1 <= Len(m_values)
  BY RunningBody, HeapAssumption DEF NewArray, Fresh
<1>3. /\ m_values \in Seq(Value) /\ elems \in [Obj -> Seq(Value)]
      /\ meta \in [Obj -> Meta \cup {None}] /\ text \in [Obj -> Text \cup {None}]
      /\ m_strs \subseteq Live /\ \A i \in 1..Len(m_values) : Good(m_values[i])
  BY <1>2 DEF IInv, TypeOK, StringsOK, HeldGood, Running
<1> DEFINE t == SubSeq(m_values, src, src + n - 1)
           newKind == [p \in Obj |-> "array"]
<1>4. t \in Seq(Value) /\ \A i \in 1..Len(t) : Good(t[i])
  <2>1. t \in Seq(Value)
    BY <1>2, <1>3
  <2>2. \A i \in 1..Len(t) : t[i] = m_values[src + i - 1] /\ src + i - 1 \in 1..Len(m_values)
    BY <1>2, <1>3
  <2> QED
    BY <1>3, <2>1, <2>2
<1>5. newKind \in [Obj -> {"string", "array", "jsfunction", "cfunction"}]
  OBVIOUS
<1>6. UNCHANGED <<text, meta, m_strs, m_globals, m_frames, m_metas, constTable, parsed, gcVars>>
  BY DEF NewArray
<1>7. kind'[o] = "array"
  BY <1>1, <1>2 DEF Link
<1>8. Link({o}, newKind)
  BY <1>1
<1> HIDE DEF t, newKind
<1>9. /\ elems' \in [Obj -> Seq(Value)] /\ elems'[o] = t
      /\ \A p \in Obj \ {o} : elems'[p] = elems[p]
  BY <1>1, <1>2, <1>3, <1>4 DEF t
<1> QED
  BY <1>1, <1>2, <1>3, <1>4, <1>5, <1>6, <1>7, <1>8, <1>9, AllocStep

LEMMA NewFunctionStep ==
  ASSUME IInv, NEW d, NEW f, NewFunction(d, f) PROVE IInv'
<1>1. PICK o \in Fresh :
        /\ NextFresh({o}) /\ Link({o}, [p \in Obj |-> "jsfunction"])
        /\ meta' = [meta EXCEPT ![o] = f] /\ Store(d, o)
  BY DEF NewFunction
<1>2. /\ Running /\ d \in Locals /\ phase' = phase /\ o \in Obj /\ f \in Meta
  BY DEF NewFunction, Fresh, IInv, TypeOK, Meta
<1>3. /\ elems \in [Obj -> Seq(Value)]
      /\ meta \in [Obj -> Meta \cup {None}] /\ text \in [Obj -> Text \cup {None}]
      /\ m_strs \subseteq Live
  BY <1>2 DEF IInv, TypeOK, StringsOK, Running
<1> DEFINE newKind == [p \in Obj |-> "jsfunction"]
<1>4. newKind \in [Obj -> {"string", "array", "jsfunction", "cfunction"}]
  OBVIOUS
<1>5. UNCHANGED <<text, elems, m_strs, m_globals, m_frames, m_metas, constTable, parsed, gcVars>>
  BY DEF NewFunction
<1>6. kind'[o] = "jsfunction" /\ kind'[o] # "array"
  BY <1>1, <1>2 DEF Link
<1>7. Link({o}, newKind)
  BY <1>1
<1>8. /\ meta' \in [Obj -> Meta \cup {None}] /\ meta'[o] = f
      /\ \A p \in Obj \ {o} : meta'[p] = meta[p]
  BY <1>1, <1>2, <1>3
<1> HIDE DEF newKind
<1>9. /\ m_strs' \subseteq Live \cup {o} /\ text' \in [Obj -> Text \cup {None}]
      /\ elems' \in [Obj -> Seq(Value)] /\ \A p \in Obj \ {o} : elems'[p] = elems[p]
      /\ \A p \in {o} : kind'[p] = "array" => \A i \in 1..Len(elems'[p]) : Good(elems'[p][i])
      /\ \A p \in {o} : kind'[p] = "jsfunction" => meta'[p] \in Meta
  BY <1>2, <1>3, <1>5, <1>6, <1>8
<1> QED
  BY <1>1, <1>2, <1>3, <1>4, <1>5, <1>7, <1>8, <1>9, AllocStep

-----------------------------------------------------------------------------
(* Loading files. *)

(* The objects that loading a file allocates. *)
Loaded(g, o) == NewStrings(g) \cup {o}

(* What loading a file leaves behind, new being the objects it allocated. *)
LoadLeaves(s, others, g, o, new) ==
  /\ o \in Fresh /\ NextFresh(new) /\ kind'[o] = "jsfunction"
  /\ \A c \in LiteralsIn(s) \cup others : g[c] \in Live \cup new
  /\ text' \in [Obj -> Text \cup {None}]
  /\ m_strs' \subseteq Live \cup new
  /\ meta' \in [Obj -> Meta \cup {None}]
  /\ \A p \in Obj \ new : meta'[p] = meta[p]
  /\ \A p \in new : kind'[p] = "array" => FALSE
  /\ \A p \in new : kind'[p] = "jsfunction" => meta'[p] \in Meta
  /\ constTable' \in [Meta -> SUBSET (Obj \ (Fresh \ new))]
  /\ ScriptConstants \subseteq ScriptConstants'
  /\ m_metas' \subseteq Func /\ parsed' \subseteq Script
  /\ \A f \in Func \ m_metas' : constTable'[f] = {}
  /\ \A t \in Script \ parsed' : constTable'[t] = {}
  /\ \A f \in m_metas' : \A p \in constTable'[f] : Good(p) \/ p \in Live \cup new

(* Loading a file allocates well-formed objects, and fills the constant    *)
(* tables with strings that are live.                                      *)
LEMMA LoadFacts ==
  ASSUME IInv, phase \in {"load", "run"}, m_frames # <<>>, NEW s \in Script,
         NEW others \in SUBSET Text, NEW g, NEW o, Load(s, others, g, o)
  PROVE  LoadLeaves(s, others, g, o, Loaded(g, o))
<1>0. PICK new : new = NewStrings(g) \cup {o}
  OBVIOUS
<1> DEFINE contents == LiteralsIn(s) \cup others
           table(m) == IF m \in {s} \cup FuncsOf[s] THEN {g[c] : c \in Literals[m]}
                       ELSE constTable[m]
<1>1. /\ FuncsOf[s] \subseteq Func /\ s \in Meta /\ FuncsOf[s] \subseteq Meta /\ s \notin Func
      /\ \A m \in Meta : Literals[m] \subseteq Text
      /\ contents \in SUBSET Text
      /\ \A m \in {s} \cup FuncsOf[s] : Literals[m] \subseteq contents
  BY HeapAssumption DEF Meta, LiteralsIn
<1>2. /\ Interning(contents, g) /\ StoreTexts(g) /\ o \in Fresh \ NewStrings(g)
      /\ s \notin parsed /\ NextFresh(new)
      /\ Link(new, [p \in Obj |-> IF p = o THEN "jsfunction" ELSE "string"])
  BY <1>0 DEF Load
<1>3. /\ \A c \in contents : g[c] \in Live \cup NewStrings(g)
      /\ text' \in [Obj -> Text \cup {None}]
      /\ m_strs' \subseteq Live \cup NewStrings(g)
  BY <1>1, <1>2, InterningGood
<1>4. /\ m_metas' = m_metas \cup FuncsOf[s] /\ parsed' = parsed \cup {s}
      /\ meta' = [meta EXCEPT ![o] = s]
      /\ constTable' = [m \in Meta |-> table(m)]
  BY DEF Load, ParseProgram
<1>5. /\ m_metas \subseteq Func /\ parsed \subseteq Script
      /\ constTable \in [Meta -> SUBSET Obj] /\ meta \in [Obj -> Meta \cup {None}]
      /\ \A m \in Meta : constTable[m] \cap Fresh = {}
      /\ \A t \in Script \ parsed : constTable[t] = {}
      /\ \A f \in Func \ m_metas : constTable[f] = {}
      /\ \A f \in m_metas : \A p \in constTable[f] : Good(p)
  BY DEF IInv, TypeOK, ConstsOK, HeldGood
<1>6. /\ new \subseteq Fresh /\ Fresh \subseteq Obj /\ Live \subseteq Obj /\ Live \cap Fresh = {}
  BY <1>2 DEF NextFresh, Fresh, Live
<1>7. \A p \in Obj : kind'[p] = IF p \in new THEN IF p = o THEN "jsfunction" ELSE "string"
                                ELSE kind[p]
  BY <1>2 DEF Link
<1> HIDE DEF contents
<1>8. \A m \in {s} \cup FuncsOf[s] : table(m) \subseteq Live \cup new
  BY <1>0, <1>1, <1>3
<1>9. \A m \in Meta : table(m) \subseteq Obj \ (Fresh \ new)
  BY <1>5, <1>6, <1>8
<1> HIDE DEF table
<1>10. constTable' \in [Meta -> SUBSET (Obj \ (Fresh \ new))]
  BY <1>4, <1>9
<1>11. ScriptConstants \subseteq ScriptConstants'
  <2>1. \A t \in Script : constTable[t] \subseteq constTable'[t]
    BY <1>1, <1>2, <1>4, <1>5, HeapAssumption DEF table, Meta
  <2> QED
    BY <2>1 DEF ScriptConstants
<1>12. \A f \in Func \ m_metas' : constTable'[f] = {}
  BY <1>1, <1>4, <1>5, HeapAssumption DEF table, Meta
<1>13. \A t \in Script \ parsed' : constTable'[t] = {}
  BY <1>1, <1>4, <1>5, HeapAssumption DEF table, Meta
<1>14. \A f \in m_metas' : \A p \in constTable'[f] : Good(p) \/ p \in Live \cup new
  <2>1. ASSUME NEW f \in FuncsOf[s] PROVE constTable'[f] \subseteq Live \cup new
    BY <1>1, <1>4, <1>8
  <2>2. ASSUME NEW f \in m_metas, f \notin FuncsOf[s] PROVE constTable'[f] = constTable[f]
    BY <1>1, <1>4, <1>5, <2>2 DEF table, Meta
  <2> QED
    BY <1>4, <1>5, <2>1, <2>2
<1>15. /\ meta' \in [Obj -> Meta \cup {None}]
       /\ \A p \in Obj \ new : meta'[p] = meta[p]
       /\ \A p \in new : kind'[p] = "array" => FALSE
       /\ \A p \in new : kind'[p] = "jsfunction" => meta'[p] \in Meta
       /\ kind'[o] = "jsfunction"
  <2>1. o \in new /\ o \in Obj
    BY <1>0, <1>2, <1>6
  <2> QED
    BY <1>1, <1>4, <1>5, <1>6, <1>7, <2>1
<1>16. /\ m_metas' \subseteq Func /\ parsed' \subseteq Script
       /\ m_strs' \subseteq Live \cup new
       /\ \A c \in contents : g[c] \in Live \cup new
  BY <1>0, <1>1, <1>3, <1>4, <1>5
<1>17. LoadLeaves(s, others, g, o, new)
  BY <1>2, <1>3, <1>10, <1>11, <1>12, <1>13, <1>14, <1>15, <1>16 DEF contents, LoadLeaves
<1> QED
  BY <1>0, <1>17 DEF Loaded

LEMMA LoadFileStep ==
  ASSUME IInv, NEW d, NEW s \in Script, LoadFile(d, s) PROVE IInv'
<1>1. PICK g \in [LiteralsIn(s) -> Obj], o \in Fresh : Load(s, {}, g, o) /\ Store(d, o)
  BY DEF LoadFile
<1>2. /\ Running /\ d \in Locals /\ phase = "run" /\ phase' = "run" /\ m_frames # <<>>
      /\ Kept = Live /\ o \in Obj /\ o \in Value
  BY <1>1, RunningBody DEF LoadFile, Running, Kept, Fresh, Value
<1> DEFINE newKind == [p \in Obj |-> IF p = o THEN "jsfunction" ELSE "string"]
<1>0. PICK new : new = Loaded(g, o)
  OBVIOUS
<1>3. /\ o \in Fresh /\ NextFresh(new) /\ kind'[o] = "jsfunction"
      /\ text' \in [Obj -> Text \cup {None}]
      /\ m_strs' \subseteq Live \cup new
      /\ meta' \in [Obj -> Meta \cup {None}]
      /\ \A p \in Obj \ new : meta'[p] = meta[p]
      /\ \A p \in new : kind'[p] = "array" => FALSE
      /\ \A p \in new : kind'[p] = "jsfunction" => meta'[p] \in Meta
      /\ constTable' \in [Meta -> SUBSET (Obj \ (Fresh \ new))]
      /\ ScriptConstants \subseteq ScriptConstants'
      /\ m_metas' \subseteq Func /\ parsed' \subseteq Script
      /\ \A f \in Func \ m_metas' : constTable'[f] = {}
      /\ \A t \in Script \ parsed' : constTable'[t] = {}
      /\ \A f \in m_metas' : \A p \in constTable'[f] : Good(p) \/ p \in Live \cup new
  <2>1. {} \in SUBSET Text /\ Load(s, {}, g, o) /\ phase \in {"load", "run"}
    BY <1>1, <1>2
  <2>2. LoadLeaves(s, {}, g, o, Loaded(g, o))
    BY <1>2, <2>1, LoadFacts
  <2>3. LoadLeaves(s, {}, g, o, new)
    BY <1>0, <2>2
  <2> QED
    BY <2>3 DEF LoadLeaves
<1>4. Link(new, newKind) /\ elems' = elems
  BY <1>0, <1>1 DEF Load, Loaded
<1>5. newKind \in [Obj -> {"string", "array", "jsfunction", "cfunction"}]
  OBVIOUS
<1>6. o \in new
  BY <1>0 DEF Loaded
<1> HIDE DEF newKind
<1>7. /\ m_values' \in Seq(Value)
      /\ \A i \in 1..Len(m_values') : Good(m_values'[i]) \/ m_values'[i] \in Live \cup new
  <2>1. \A i \in 1..Len(m_values) : Good(m_values[i])
    BY DEF IInv, HeldGood
  <2>2. /\ m_values' \in Seq(Value) /\ Len(m_values') = Len(m_values)
        /\ \A i \in 1..Len(m_values') : m_values'[i] = o \/ m_values'[i] = m_values[i]
    BY <1>1, <1>2, StoreGood
  <2> QED
    BY <1>6, <2>1, <2>2
<1>8. /\ elems' \in [Obj -> Seq(Value)] /\ \A p \in Obj \ new : elems'[p] = elems[p]
      /\ \A p \in new : kind'[p] = "array" => \A i \in 1..Len(elems'[p]) : Good(elems'[p][i])
  BY <1>3, <1>4 DEF IInv, TypeOK
<1>9. UNCHANGED gcVars /\ m_globals' = m_globals /\ m_frames' = m_frames /\ m_frames' # <<>>
  BY <1>2 DEF LoadFile
<1>10. /\ m_globals' \in [Obj -> Value \cup {None}] /\ m_frames' \in Seq(Frame)
       /\ \A p \in Obj : m_globals'[p] # None =>
            /\ Good(p) \/ p \in new
            /\ Good(m_globals'[p]) \/ m_globals'[p] \in new
  BY <1>9 DEF IInv, TypeOK, HeldGood
<1>11. \A i \in 1..Len(m_frames') :
         IF i = 1 THEN m_frames'[i].func = None
         ELSE m_frames'[i].func \in Live \cup new /\ kind'[m_frames'[i].func] = "jsfunction"
  <2>1. \A p \in Live : kind'[p] = kind[p]
    BY <1>3, <1>4 DEF Link, Live, NextFresh
  <2> QED
    BY <1>2, <1>9, <2>1 DEF IInv, FramesOK
<1>12. phase \in {"boot", "load", "run"} /\ phase' \in {"load", "run"}
  BY <1>2
<1> QED
  BY <1>3, <1>4, <1>5, <1>7, <1>8, <1>9, <1>10, <1>11, <1>12, GrowStep

LEMMA RunFileStep ==
  ASSUME IInv, RunFile PROVE IInv'
<1>1. PICK g \in [LiteralsIn(Main) \cup ArgTexts -> Obj], o \in Fresh :
        /\ Load(Main, ArgTexts, g, o)
        /\ m_frames' = Append(m_frames, [func |-> o, base |-> 1,
                                         oldStackSize |-> 1 + NArgs])
        /\ m_values' = Resize(m_values \o (IF Argv = <<>> THEN <<Nil>>
                                           ELSE [i \in DOMAIN Argv |-> g[Argv[i]]]),
                              LocalSpace[Main])
  BY DEF RunFile
<1>2. /\ phase = "load" /\ phase' = "run" /\ Kept = Live /\ o \in Obj
      /\ UNCHANGED gcVars /\ m_globals' = m_globals
  BY DEF RunFile, Kept, Fresh
<1>3. /\ m_frames # <<>> /\ m_frames \in Seq(Frame) /\ m_values \in Seq(Value)
      /\ m_globals \in [Obj -> Value \cup {None}] /\ elems \in [Obj -> Seq(Value)]
  BY <1>2 DEF IInv, BaseFrame, TypeOK
<1> DEFINE newKind == [p \in Obj |-> IF p = o THEN "jsfunction" ELSE "string"]
<1>0. PICK new : new = Loaded(g, o)
  OBVIOUS
<1>4. ArgTexts \in SUBSET Text /\ \A i \in 1..Len(Argv) : Argv[i] \in ArgTexts
  BY HeapAssumption DEF ArgTexts, ToSet
<1>5. /\ o \in Fresh /\ NextFresh(new) /\ kind'[o] = "jsfunction"
      /\ text' \in [Obj -> Text \cup {None}]
      /\ m_strs' \subseteq Live \cup new
      /\ meta' \in [Obj -> Meta \cup {None}]
      /\ \A p \in Obj \ new : meta'[p] = meta[p]
      /\ \A p \in new : kind'[p] = "array" => FALSE
      /\ \A p \in new : kind'[p] = "jsfunction" => meta'[p] \in Meta
      /\ constTable' \in [Meta -> SUBSET (Obj \ (Fresh \ new))]
      /\ ScriptConstants \subseteq ScriptConstants'
      /\ m_metas' \subseteq Func /\ parsed' \subseteq Script
      /\ \A f \in Func \ m_metas' : constTable'[f] = {}
      /\ \A t \in Script \ parsed' : constTable'[t] = {}
      /\ \A f \in m_metas' : \A p \in constTable'[f] : Good(p) \/ p \in Live \cup new
      /\ \A c \in ArgTexts : g[c] \in Live \cup new
  <2>1. Main \in Script /\ phase \in {"load", "run"} /\ Load(Main, ArgTexts, g, o)
    BY <1>1, <1>2, HeapAssumption
  <2>2. LoadLeaves(Main, ArgTexts, g, o, Loaded(g, o))
    BY <1>3, <1>4, <2>1, LoadFacts
  <2>3. LoadLeaves(Main, ArgTexts, g, o, new)
    BY <1>0, <2>2
  <2> QED
    BY <2>3 DEF LoadLeaves
<1>6. Link(new, newKind) /\ elems' = elems
  BY <1>0, <1>1 DEF Load, Loaded
<1>7. newKind \in [Obj -> {"string", "array", "jsfunction", "cfunction"}]
  OBVIOUS
<1>8. o \in new /\ new \subseteq Obj /\ Live \subseteq Obj
  BY <1>0, <1>5 DEF Loaded, NextFresh, Fresh, Live
<1> HIDE DEF newKind
<1> DEFINE args == IF Argv = <<>> THEN <<Nil>> ELSE [i \in DOMAIN Argv |-> g[Argv[i]]]
           stack == m_values \o args
<1>9. args \in Seq(Value) /\ \A i \in 1..Len(args) : args[i] = Nil \/ args[i] \in Live \cup new
  <2>1. CASE Argv = <<>>
    BY <2>1 DEF Value
  <2>2. CASE Argv # <<>>
    <3>1. args = [i \in 1..Len(Argv) |-> g[Argv[i]]] /\ Len(Argv) \in Nat
      BY <2>2, HeapAssumption
    <3>2. \A i \in 1..Len(Argv) : g[Argv[i]] \in Live \cup new /\ g[Argv[i]] \in Value
      BY <1>4, <1>5, <1>8 DEF Value
    <3> HIDE DEF args
    <3>3. args \in Seq(Value) /\ Len(args) = Len(Argv)
      BY <3>1, <3>2
    <3> QED
      BY <3>1, <3>2, <3>3
  <2> QED
    BY <2>1, <2>2
<1> HIDE DEF args
<1>10. Good(Nil) /\ \A i \in 1..Len(m_values) : Good(m_values[i])
  BY HeapAssumption DEF Good, IInv, HeldGood
<1>11. stack \in Seq(Value) /\ \A i \in 1..Len(stack) :
         Good(stack[i]) \/ stack[i] \in Live \cup new
  <2>1. stack \in Seq(Value) /\ Len(stack) = Len(m_values) + Len(args)
    BY <1>3, <1>9
  <2>2. ASSUME NEW i \in 1..Len(stack)
        PROVE  \/ i \in 1..Len(m_values) /\ stack[i] = m_values[i]
               \/ i - Len(m_values) \in 1..Len(args) /\ stack[i] = args[i - Len(m_values)]
    BY <1>3, <1>9, <2>1
  <2> HIDE DEF stack
  <2> QED
    BY <1>9, <1>10, <2>1, <2>2
<1>12. m_values' = Resize(stack, LocalSpace[Main]) /\ LocalSpace[Main] \in Int
  BY <1>1, HeapAssumption DEF args, Meta
<1> HIDE DEF stack
<1>13. /\ m_values' \in Seq(Value)
       /\ \A i \in 1..Len(m_values') : Good(m_values'[i]) \/ m_values'[i] \in Live \cup new
  <2>1. /\ m_values' \in Seq(Value)
        /\ \A i \in 1..Len(m_values') :
             \/ i \in 1..Len(stack) /\ m_values'[i] = stack[i]
             \/ m_values'[i] = Nil
    BY <1>11, <1>12, ResizeGood
  <2> QED
    BY <1>10, <1>11, <2>1
<1>14. /\ elems' \in [Obj -> Seq(Value)] /\ \A p \in Obj \ new : elems'[p] = elems[p]
       /\ \A p \in new : kind'[p] = "array" => \A i \in 1..Len(elems'[p]) : Good(elems'[p][i])
  BY <1>3, <1>5, <1>6
<1>15. /\ m_globals' \in [Obj -> Value \cup {None}]
       /\ \A p \in Obj : m_globals'[p] # None =>
            /\ Good(p) \/ p \in new
            /\ Good(m_globals'[p]) \/ m_globals'[p] \in new
  BY <1>2, <1>3 DEF IInv, HeldGood
<1> DEFINE fr == [func |-> o, base |-> 1, oldStackSize |-> 1 + NArgs]
<1>16. fr \in Frame /\ fr.func = o /\ m_frames' = Append(m_frames, fr)
  <2>1. NArgs \in Nat
    BY HeapAssumption DEF NArgs
  <2> QED
    BY <1>1, <1>2, <2>1 DEF Frame
<1> HIDE DEF fr
<1>17. /\ m_frames' \in Seq(Frame) /\ m_frames' # <<>>
       /\ \A i \in 1..Len(m_frames') :
            IF i = 1 THEN m_frames'[i].func = None
            ELSE m_frames'[i].func \in Live \cup new /\ kind'[m_frames'[i].func] = "jsfunction"
  <2>1. \A p \in Live : kind'[p] = kind[p]
    BY <1>5, <1>6 DEF Link, Live, NextFresh
  <2>2. m_frames' \in Seq(Frame) /\ Len(m_frames') = Len(m_frames) + 1 /\ Len(m_frames) \in Nat \ {0}
    BY <1>3, <1>16
  <2>3. /\ \A i \in 1..Len(m_frames) : m_frames'[i] = m_frames[i]
        /\ m_frames'[Len(m_frames) + 1] = fr
    BY <1>3, <1>16
  <2>4. \A i \in 1..Len(m_frames) :
          IF i = 1 THEN m_frames[i].func = None
          ELSE m_frames[i].func \in Live /\ kind[m_frames[i].func] = "jsfunction"
    BY <1>2 DEF IInv, FramesOK
  <2>5. m_frames' # <<>>
    BY <2>2
  <2> QED
    BY <1>5, <1>8, <1>16, <2>1, <2>2, <2>3, <2>4, <2>5
<1>18. phase \in {"boot", "load", "run"} /\ phase' \in {"load", "run"} /\ UNCHANGED gcVars
  BY <1>2
<1> QED
  BY <1>5, <1>6, <1>7, <1>13, <1>14, <1>15, <1>17, <1>18, GrowStep

LEMMA RegisterBuildinsStep ==
  ASSUME IInv, RegisterBuildins PROVE IInv'
<1>1. PICK g \in [Builtin -> Fresh], h \in [Builtin -> Fresh], new \in SUBSET Fresh :
        /\ new = {g[b] : b \in Builtin} \cup {h[b] : b \in Builtin}
        /\ NextFresh(new)
        /\ Link(new, [o \in Obj |-> IF \E b \in Builtin : g[b] = o
                                    THEN "string" ELSE "cfunction"])
        /\ StoreTexts(g)
        /\ m_globals' = [o \in Obj |-> IF \E b \in Builtin : g[b] = o
                                       THEN h[CHOOSE b \in Builtin : g[b] = o]
                                       ELSE m_globals[o]]
  BY DEF RegisterBuildins
<1> DEFINE newKind == [o \in Obj |-> IF \E b \in Builtin : g[b] = o
                                     THEN "string" ELSE "cfunction"]
<1>2. /\ phase = "boot" /\ phase' = "load" /\ UNCHANGED gcVars /\ Kept = Live
      /\ UNCHANGED <<elems, meta, m_values, m_frames, m_metas, constTable, parsed>>
  BY DEF RegisterBuildins, Kept
<1>3. newKind \in [Obj -> {"string", "array", "jsfunction", "cfunction"}]
  OBVIOUS
<1>4. Link(new, newKind) /\ NextFresh(new)
  BY <1>1
<1>5. \A p \in new : kind'[p] # "array" /\ kind'[p] # "jsfunction"
  BY <1>1 DEF Link, NextFresh, Fresh
<1> HIDE DEF newKind
<1>6. /\ DOMAIN g = Builtin /\ Builtin \subseteq Text
      /\ \A b \in Builtin : g[b] \in new /\ h[b] \in new
      /\ new \subseteq Obj
  BY <1>1, HeapAssumption DEF Fresh
<1>7. text' \in [Obj -> Text \cup {None}] /\ m_strs' \subseteq Live \cup new
  <2>1. /\ text \in [Obj -> Text \cup {None}] /\ m_strs \subseteq Live
        /\ NewStrings(g) \subseteq new
    BY <1>2, <1>6 DEF IInv, TypeOK, StringsOK, NewStrings
  <2>2. ASSUME NEW o \in NewStrings(g)
        PROVE  (CHOOSE c \in DOMAIN g : g[c] = o) \in Text
    BY <1>6, <2>2 DEF NewStrings
  <2> QED
    BY <1>1, <2>1, <2>2 DEF StoreTexts
<1>8. /\ m_globals' \in [Obj -> Value \cup {None}]
      /\ \A o \in Obj : m_globals'[o] # None =>
           /\ Good(o) \/ o \in new
           /\ Good(m_globals'[o]) \/ m_globals'[o] \in new
  <2>1. /\ m_globals \in [Obj -> Value \cup {None}]
        /\ \A o \in Obj : m_globals[o] # None => Good(o) /\ Good(m_globals[o])
    BY DEF IInv, TypeOK, HeldGood
  <2>2. ASSUME NEW o \in Obj
        PROVE  \/ /\ o \in new /\ m_globals'[o] \in new
               \/ m_globals'[o] = m_globals[o]
    <3>1. CASE \E b \in Builtin : g[b] = o
      <4>1. (CHOOSE b \in Builtin : g[b] = o) \in Builtin
        BY <3>1
      <4>2. m_globals'[o] = h[CHOOSE b \in Builtin : g[b] = o]
        BY <1>1, <3>1
      <4> QED
        BY <1>6, <3>1, <4>1, <4>2
    <3>2. CASE ~\E b \in Builtin : g[b] = o
      BY <1>1, <3>2
    <3> QED
      BY <3>1, <3>2
  <2>3. m_globals' = [o \in Obj |-> m_globals'[o]]
    BY <1>1
  <2> QED
    BY <1>6, <2>1, <2>2, <2>3 DEF Value
<1>9. /\ elems' \in [Obj -> Seq(Value)] /\ meta' \in [Obj -> Meta \cup {None}]
      /\ m_metas' \subseteq Func /\ parsed' \subseteq Script
      /\ m_values' \in Seq(Value) /\ m_frames' \in Seq(Frame) /\ m_frames' # <<>>
  BY <1>2 DEF IInv, TypeOK, BaseFrame
<1>10. /\ constTable' \in [Meta -> SUBSET (Obj \ (Fresh \ new))]
       /\ ScriptConstants \subseteq ScriptConstants'
       /\ \A f \in Func \ m_metas' : constTable'[f] = {}
       /\ \A s \in Script \ parsed' : constTable'[s] = {}
       /\ \A f \in m_metas' : \A o \in constTable'[f] : Good(o) \/ o \in Live \cup new
  BY <1>2, <1>9 DEF IInv, TypeOK, ConstsOK, HeldGood, ScriptConstants
<1>11. \A i \in 1..Len(m_values') : Good(m_values'[i]) \/ m_values'[i] \in Live \cup new
  BY <1>2 DEF IInv, HeldGood
<1>12. \A i \in 1..Len(m_frames') :
         IF i = 1 THEN m_frames'[i].func = None
         ELSE m_frames'[i].func \in Live \cup new /\ kind'[m_frames'[i].func] = "jsfunction"
  <2>1. \A p \in Live : kind'[p] = kind[p]
    BY <1>4 DEF Link, Live, NextFresh
  <2> QED
    BY <1>2, <2>1 DEF IInv, FramesOK
<1>13. phase \in {"boot", "load", "run"} /\ phase' \in {"load", "run"}
  BY <1>2
<1> QED
  BY <1>2, <1>3, <1>4, <1>5, <1>7, <1>8, <1>9, <1>10, <1>11, <1>12, <1>13, GrowStep

-----------------------------------------------------------------------------
(* The collector. *)

(* Replacing one element of a sequence. *)
LEMMA StoreInSeq ==
  ASSUME NEW S, NEW s \in Seq(S), NEW i, NEW v \in S
  PROVE  /\ [s EXCEPT ![i] = v] \in Seq(S) /\ Len([s EXCEPT ![i] = v]) = Len(s)
         /\ \A j \in 1..Len(s) : [s EXCEPT ![i] = v][j] = s[j] \/ [s EXCEPT ![i] = v][j] = v
<1> DEFINE t == [s EXCEPT ![i] = v]
<1>1. DOMAIN t = 1..Len(s) /\ Len(s) \in Nat
  OBVIOUS
<1>2. \A j \in 1..Len(s) : t[j] = s[j] \/ t[j] = v
  OBVIOUS
<1>3. \A j \in 1..Len(s) : t[j] \in S
  BY <1>2
<1>4. t = [j \in 1..Len(s) |-> t[j]]
  BY <1>1
<1> HIDE DEF t
<1>5. t \in Seq(S)
  BY <1>1, <1>3, <1>4
<1>6. Len(t) = Len(s)
  BY <1>1, <1>5
<1>7. (\A j \in 1..Len(s) : t[j] = s[j] \/ t[j] = v) /\ t \in Seq(S) /\ Len(t) = Len(s)
  BY <1>2, <1>5, <1>6
<1> QED
  BY <1>7 DEF t

(* Who holds a root. *)
LEMMA RootsCases ==
  \A o : o \in Roots <=>
    /\ o \in Obj
    /\ \/ m_globals[o] # None
       \/ \E k \in Obj : o = m_globals[k]
       \/ o \in ToSet(m_values)
       \/ \E f \in m_metas : o \in constTable[f]
       \/ \E i \in DOMAIN m_frames : o = m_frames[i].func
<1> SUFFICES ASSUME NEW o \in Obj
             PROVE  o \in Roots <=>
                      \/ m_globals[o] # None
                      \/ \E k \in Obj : o = m_globals[k]
                      \/ o \in ToSet(m_values)
                      \/ \E f \in m_metas : o \in constTable[f]
                      \/ \E i \in DOMAIN m_frames : o = m_frames[i].func
  BY DEF Roots
<1> DEFINE A == {k \in Obj : m_globals[k] # None}
           B == {m_globals[k] : k \in Obj}
           C == ToSet(m_values)
           D == UNION {constTable[f] : f \in m_metas}
           E == {m_frames[i].func : i \in DOMAIN m_frames}
<1>1. Roots = (A \cup B \cup C \cup D \cup E) \cap Obj
  BY DEF Roots
<1>2. o \in A <=> m_globals[o] # None
  OBVIOUS
<1>3. o \in B <=> \E k \in Obj : o = m_globals[k]
  OBVIOUS
<1>4. o \in D <=> \E f \in m_metas : o \in constTable[f]
  OBVIOUS
<1>5. o \in E <=> \E i \in DOMAIN m_frames : o = m_frames[i].func
  OBVIOUS
<1> HIDE DEF A, B, D, E
<1> QED
  BY <1>1, <1>2, <1>3, <1>4, <1>5

(* Every reference the machine holds is good, and so is every element of   *)
(* an array that stays.                                                    *)
LEMMA RootsGood ==
  ASSUME IInv
  PROVE  /\ \A o \in Roots : Good(o)
         /\ \A p \in Kept : \A o \in Children(p) : Good(o)
<1> USE HeapAssumption DEF IInv
<1>1. ASSUME NEW o \in Roots PROVE Good(o)
  <2>1. CASE \E k \in Obj : m_globals[k] # None /\ o = k
    BY <2>1 DEF HeldGood
  <2>2. CASE \E k \in Obj : o = m_globals[k]
    <3>1. PICK k \in Obj : o = m_globals[k]
      BY <2>2
    <3>2. o # None
      BY <1>1 DEF Roots, Value
    <3> QED
      BY <3>1, <3>2 DEF HeldGood
  <2>3. CASE \E i \in 1..Len(m_values) : o = m_values[i]
    BY <2>3 DEF HeldGood
  <2>4. CASE \E f \in m_metas : o \in constTable[f]
    BY <2>4 DEF HeldGood
  <2>5. CASE \E i \in 1..Len(m_frames) : o = m_frames[i].func
    <3>1. PICK i \in 1..Len(m_frames) : o = m_frames[i].func
      BY <2>5
    <3>2. o # None
      BY <1>1 DEF Roots, Value
    <3> QED
      BY <3>1, <3>2 DEF FramesOK, Good
  <2>6. DOMAIN m_values = 1..Len(m_values) /\ DOMAIN m_frames = 1..Len(m_frames)
    BY DEF TypeOK
  <2>7. o \in ToSet(m_values) => \E i \in 1..Len(m_values) : o = m_values[i]
    BY <2>6 DEF ToSet
  <2> QED
    BY <1>1, <2>1, <2>2, <2>3, <2>4, <2>5, <2>6, <2>7, RootsCases
<1>2. ASSUME NEW p \in Kept, NEW o \in Children(p) PROVE Good(o)
  <2>1. kind[p] = "array" /\ o \in ToSet(elems[p])
    BY <1>2 DEF Children
  <2>2. DOMAIN elems[p] = 1..Len(elems[p])
    BY DEF TypeOK, Kept, Live
  <2> QED
    BY <1>2, <2>1, <2>2 DEF HeldGood, ToSet
<1> QED
  BY <1>1, <1>2

(* What is closed under references is good. *)
LEMMA ClosedHeld ==
  ASSUME TypeOK', Roots' \subseteq Kept',
         \A p \in Kept' : Children(p)' \subseteq Kept'
  PROVE  HeldGood'
<1> USE HeapAssumption DEF TypeOK
<1>1. ASSUME NEW o \in Obj, m_globals'[o] # None
      PROVE  Good(o)' /\ Good(m_globals[o])'
  BY <1>1 DEF Good, Roots
<1>2. ASSUME NEW i \in 1..Len(m_values') PROVE Good(m_values[i])'
  <2>1. DOMAIN m_values' = 1..Len(m_values')
    OBVIOUS
  <2> QED
    BY <1>2, <2>1 DEF Good, Roots, ToSet
<1>3. ASSUME NEW f \in m_metas', NEW o \in constTable'[f] PROVE Good(o)'
  BY <1>3 DEF Good, Roots
<1>4. ASSUME NEW p \in Kept', kind'[p] = "array", NEW i \in 1..Len(elems'[p])
      PROVE  Good(elems[p][i])'
  <2>1. DOMAIN elems'[p] = 1..Len(elems'[p])
    BY <1>4 DEF Kept, Live
  <2>2. elems'[p][i] \in Obj => elems'[p][i] \in Children(p)'
    BY <1>4, <2>1 DEF Children, ToSet
  <2> QED
    BY <1>4, <2>2 DEF Good
<1> QED
  BY <1>1, <1>2, <1>3, <1>4 DEF HeldGood

(* A step that changes no object and no root, and leaves what stays as it  *)
(* is, preserves the parts of the invariant that speak of them.            *)
LEMMA SameObjects ==
  ASSUME IInv, UNCHANGED <<kind, text, elems, meta, m_strs, rootVars>>, Kept' = Kept
  PROVE  /\ Live' = Live /\ Freed' = Freed /\ Roots' = Roots
         /\ \A p : Children(p)' = Children(p)
         /\ MetaOK' /\ FramesOK' /\ ConstsOK' /\ HeldGood'
<1> USE DEF IInv, rootVars
<1>1. Live' = Live /\ Freed' = Freed /\ Fresh' = Fresh
  BY DEF Live, Freed, Fresh
<1>2. ScriptConstants' = ScriptConstants
  BY DEF ScriptConstants
<1>3. \A v : Good(v)' <=> Good(v)
  BY <1>1, <1>2 DEF Good
<1>4. MetaOK' /\ FramesOK' /\ ConstsOK'
  BY <1>1 DEF MetaOK, FramesOK, ConstsOK
<1>5. HeldGood'
  BY <1>3 DEF HeldGood
<1>6. Roots' = Roots /\ \A p : Children(p)' = Children(p)
  BY DEF Roots, Children
<1> QED
  BY <1>1, <1>4, <1>5, <1>6

LEMMA CollectGarbageStep ==
  ASSUME IInv, NEW d, CollectGarbage(d) PROVE IInv'
<1> USE DEF IInv
<1>1. /\ phase = "run" /\ phase' = "mark" /\ gcSlot' = d
      /\ Roots \cap Freed = {} /\ unscans' = Roots /\ Roots \subseteq Obj
      /\ mark' = [o \in Obj |-> IF o \in Roots THEN "Unscan" ELSE mark[o]]
      /\ UNCHANGED <<kind, text, elems, meta, m_head, m_objCount, m_strs, rootVars, oldHead>>
  BY DEF CollectGarbage, Running, heapVars, Roots
<1>2. m_frames # <<>> /\ d \in Nat
  BY RunningBody DEF CollectGarbage, TypeOK
<1>3. Kept = Live /\ Kept' = Kept
  BY <1>1 DEF Kept, Live, Fresh, Freed
<1>4. /\ Live' = Live /\ Freed' = Freed /\ Roots' = Roots
      /\ \A p : Children(p)' = Children(p)
      /\ MetaOK' /\ FramesOK' /\ ConstsOK' /\ HeldGood'
  BY <1>1, <1>3, SameObjects
<1>5. Roots \subseteq Live
  BY <1>1, <1>3, RootsGood DEF Good
<1>6. TypeOK'
  BY <1>1, <1>2 DEF TypeOK, rootVars, Phase
<1>7. BaseFrame' /\ StringsOK' /\ ListOK'
  BY <1>1, <1>2, <1>4 DEF BaseFrame, StringsOK, ListOK, rootVars
<1>8. MarksOK'
  BY <1>1, <1>4, <1>5 DEF MarksOK
<1> QED
  BY <1>4, <1>6, <1>7, <1>8

LEMMA MarkStepStep ==
  ASSUME IInv, NEW o, MarkStep(o) PROVE IInv'
<1> USE DEF IInv
<1> DEFINE found == {c \in Children(o) : mark[c] = "Unaccess"}
<1>1. /\ phase = "mark" /\ phase' = "mark" /\ o \in unscans
      /\ Children(o) \cap Freed = {}
      /\ unscans' = (unscans \ {o}) \cup found
      /\ mark' = [p \in Obj |-> IF p = o THEN "Scan"
                                ELSE IF p \in found THEN "Unscan" ELSE mark[p]]
      /\ UNCHANGED <<kind, text, elems, meta, m_head, m_objCount, m_strs, rootVars,
                     oldHead, gcSlot>>
  BY DEF MarkStep, heapVars
<1>2. Kept = Live /\ Kept' = Kept
  BY <1>1 DEF Kept, Live, Fresh, Freed
<1>3. /\ Live' = Live /\ Freed' = Freed /\ Roots' = Roots
      /\ \A p : Children(p)' = Children(p)
      /\ MetaOK' /\ FramesOK' /\ ConstsOK' /\ HeldGood'
  BY <1>1, <1>2, SameObjects
<1>4. mark \in [Obj -> {"Unaccess", "Unscan", "Scan"}] /\ unscans \subseteq Obj
  BY DEF TypeOK
<1>5. o \in Live /\ mark[o] = "Unscan"
  BY <1>1, <1>4 DEF MarksOK
<1>6. Children(o) \subseteq Live /\ Children(o) \subseteq Obj
  <2>1. \A c \in Children(o) : Good(c) /\ c \in Obj
    BY <1>2, <1>5, RootsGood DEF Children
  <2> QED
    BY <1>1, <1>2, <2>1 DEF Good
<1>7. /\ found \subseteq Live /\ found \subseteq Obj /\ o \notin found
      /\ \A c \in Children(o) : c \in found \/ mark[c] # "Unaccess"
      /\ \A c \in found : mark[c] = "Unaccess"
  BY <1>5, <1>6
<1> HIDE DEF found
<1>8. TypeOK'
  BY <1>1, <1>4, <1>7 DEF TypeOK, rootVars
<1>9. BaseFrame' /\ StringsOK' /\ ListOK'
  BY <1>1, <1>3 DEF BaseFrame, StringsOK, ListOK, rootVars
<1>10. /\ \A p \in Obj : mark'[p] = IF p = o THEN "Scan"
                                    ELSE IF p \in found THEN "Unscan" ELSE mark[p]
       /\ unscans' = (unscans \ {o}) \cup found
  BY <1>1
<1>11. MarksOK'
  <2>1. \A p \in Obj \ Live' : mark'[p] = "Unaccess"
    BY <1>3, <1>5, <1>7, <1>10 DEF MarksOK
  <2>2. unscans' = {p \in Obj : mark'[p] = "Unscan"}
    BY <1>1, <1>4, <1>5, <1>7, <1>10 DEF MarksOK
  <2>3. \A p \in Obj : mark[p] # "Unaccess" => mark'[p] # "Unaccess"
    BY <1>10
  <2>4. \A p \in Roots : mark'[p] # "Unaccess"
    BY <1>1, <2>3 DEF MarksOK, Roots
  <2>5. ASSUME NEW p \in Obj, mark'[p] = "Scan", NEW c \in Children(p)
        PROVE  mark'[c] # "Unaccess"
    <3>1. c \in Obj
      BY <2>5 DEF Children
    <3>2. CASE p = o
      BY <1>7, <1>10, <2>3, <2>5, <3>1, <3>2
    <3>3. CASE p # o
      <4>1. mark[p] = "Scan"
        BY <1>10, <2>5, <3>3
      <4> QED
        BY <1>1, <2>3, <2>5, <3>1, <4>1 DEF MarksOK
    <3> QED
      BY <3>2, <3>3
  <2>6. (\A p \in Obj : mark[p] = "Scan" => \A c \in Children(p) : mark[c] # "Unaccess")'
    BY <1>3, <2>5
  <2> QED
    BY <1>1, <1>3, <2>1, <2>2, <2>4, <2>6 DEF MarksOK
<1> QED
  BY <1>3, <1>8, <1>9, <1>11

LEMMA BeginSweepStep ==
  ASSUME IInv, BeginSweep PROVE IInv'
<1> USE DEF IInv
<1>1. /\ phase = "mark" /\ phase' = "sweep" /\ unscans = {} /\ unscans' = {}
      /\ oldHead' = m_head /\ m_head' = {} /\ m_objCount' = 0
      /\ UNCHANGED <<kind, text, elems, meta, mark, m_strs, rootVars, gcSlot>>
  BY DEF BeginSweep
<1>2. /\ Live' = Live /\ Freed' = Freed /\ Fresh' = Fresh /\ Roots' = Roots
      /\ \A p : Children(p)' = Children(p)
  BY <1>1 DEF Live, Freed, Fresh, Roots, Children, rootVars
<1>3. Kept = Live /\ Kept' = {p \in Live : mark[p] = "Scan"}
  BY <1>1, <1>2 DEF Kept
<1>4. \A p \in Obj : mark[p] # "Unaccess" => p \in Kept' /\ mark[p] = "Scan"
  BY <1>1, <1>3 DEF TypeOK, MarksOK
<1>5. TypeOK'
  BY <1>1 DEF TypeOK, rootVars, Phase
<1>6. Roots' \subseteq Kept'
  BY <1>1, <1>2, <1>4 DEF MarksOK, Roots
<1>7. \A p \in Kept' : Children(p)' \subseteq Kept'
  <2>1. ASSUME NEW p \in Kept', NEW c \in Children(p) PROVE c \in Kept'
    <3>1. p \in Obj /\ c \in Obj /\ mark[p] = "Scan"
      BY <1>3, <2>1 DEF Live, Children
    <3> QED
      BY <1>1, <1>4, <2>1, <3>1 DEF MarksOK
  <2> QED
    BY <1>2, <2>1
<1>8. HeldGood'
  BY <1>5, <1>6, <1>7, ClosedHeld
<1>9. MetaOK' /\ ConstsOK' /\ StringsOK' /\ BaseFrame'
  BY <1>1, <1>2 DEF MetaOK, ConstsOK, StringsOK, BaseFrame, rootVars
<1>10. ListOK'
  BY <1>1, <1>2 DEF ListOK
<1>11. FramesOK'
  <2>1. ASSUME NEW i \in 1..Len(m_frames), i # 1 PROVE m_frames[i].func \in Kept'
    <3>1. m_frames[i].func \in Obj
      BY <1>3, <2>1 DEF FramesOK, Live
    <3>2. i \in DOMAIN m_frames
      BY <2>1 DEF TypeOK
    <3>3. m_frames[i].func \in Roots
      BY <3>1, <3>2, RootsCases
    <3> QED
      BY <1>2, <1>6, <3>3
  <2> QED
    BY <1>1, <2>1 DEF FramesOK, rootVars
<1>12. MarksOK'
  BY <1>1, <1>2, <1>4, <1>6, <1>7 DEF MarksOK, TypeOK
<1> QED
  BY <1>5, <1>8, <1>9, <1>10, <1>11, <1>12

LEMMA SweepStep ==
  ASSUME IInv, NEW o, Sweep(o) PROVE IInv'
<1> USE HeapAssumption DEF IInv
<1>1. /\ phase = "sweep" /\ phase' = "sweep" /\ o \in oldHead /\ mark[o] = "Unaccess"
      /\ kind' = [kind EXCEPT ![o] = "freed"] /\ text' = [text EXCEPT ![o] = None]
      /\ elems' = [elems EXCEPT ![o] = <<>>] /\ meta' = [meta EXCEPT ![o] = None]
      /\ oldHead' = oldHead \ {o}
      /\ UNCHANGED <<m_head, m_objCount, m_strs, rootVars, mark, unscans, gcSlot>>
  BY DEF Sweep
<1>2. TypeOK'
  <2>1. /\ kind' \in [Obj -> Kind] /\ text' \in [Obj -> Text \cup {None}]
        /\ meta' \in [Obj -> Meta \cup {None}]
    BY <1>1 DEF TypeOK, Kind
  <2>2. elems' \in [Obj -> Seq(Value)]
    BY <1>1 DEF TypeOK
  <2> QED
    BY <1>1, <2>1, <2>2 DEF TypeOK, rootVars
<1>3. o \in Live /\ o \in Obj /\ o \notin m_head /\ o \notin Kept
  BY <1>1 DEF ListOK, Kept, Live
<1>4. \A p \in Obj : kind'[p] = IF p = o THEN "freed" ELSE kind[p]
  BY <1>1 DEF TypeOK
<1>5. Live' = Live \ {o} /\ Fresh' = Fresh
  BY <1>3, <1>4 DEF Live, Fresh, Freed
<1>6. Kept' = Kept /\ Kept \subseteq Obj
  BY <1>1, <1>3, <1>5 DEF Kept, Live
<1>7. Roots' = Roots
  BY <1>1 DEF Roots, rootVars
<1>8. \A p \in Kept : kind'[p] = kind[p] /\ elems'[p] = elems[p]
  BY <1>1, <1>3, <1>4, <1>6 DEF TypeOK
<1>9. \A p \in Kept : Children(p)' = Children(p)
  BY <1>8 DEF Children
<1>10. Roots' \subseteq Kept' /\ \A p \in Kept' : Children(p)' \subseteq Kept'
  BY <1>1, <1>6, <1>7, <1>9 DEF MarksOK
<1>11. HeldGood'
  BY <1>2, <1>10, ClosedHeld
<1>12. MetaOK'
  BY <1>1, <1>4 DEF MetaOK, TypeOK
<1>13. FramesOK' /\ BaseFrame'
  BY <1>1, <1>6, <1>8 DEF FramesOK, BaseFrame, rootVars
<1>14. ConstsOK' /\ StringsOK'
  BY <1>1, <1>5 DEF ConstsOK, StringsOK, rootVars
<1>15. ListOK'
  BY <1>1, <1>3, <1>5 DEF ListOK
<1>16. MarksOK'
  BY <1>1, <1>5, <1>10 DEF MarksOK
<1> QED
  BY <1>2, <1>11, <1>12, <1>13, <1>14, <1>15, <1>16

LEMMA KeepStep ==
  ASSUME IInv, NEW o, Keep(o) PROVE IInv'
<1> USE DEF IInv
<1>1. /\ phase = "sweep" /\ phase' = "sweep" /\ o \in oldHead /\ mark[o] = "Scan"
      /\ mark' = [mark EXCEPT ![o] = "Unaccess"]
      /\ oldHead' = oldHead \ {o} /\ m_head' = m_head \cup {o}
      /\ m_objCount' = m_objCount + 1
      /\ UNCHANGED <<kind, text, elems, meta, m_strs, rootVars, unscans, gcSlot>>
  BY DEF Keep
<1>2. o \in Live /\ o \in Obj /\ o \notin m_head /\ o \in Kept
  BY <1>1 DEF ListOK, Kept, Live
<1>3. mark \in [Obj -> {"Unaccess", "Unscan", "Scan"}]
  BY DEF TypeOK
<1>4. \A p \in Obj : mark'[p] = IF p = o THEN "Unaccess" ELSE mark[p]
  BY <1>1, <1>3
<1>5. Live' = Live
  BY <1>1 DEF Live, Fresh, Freed
<1>6. Kept' = Kept
  BY <1>1, <1>2, <1>4, <1>5 DEF Kept, Live
<1>7. /\ Live' = Live /\ Freed' = Freed /\ Roots' = Roots
      /\ \A p : Children(p)' = Children(p)
      /\ MetaOK' /\ FramesOK' /\ ConstsOK' /\ HeldGood'
  BY <1>1, <1>6, SameObjects
<1>8. TypeOK'
  BY <1>1, <1>2, <1>3 DEF TypeOK, rootVars
<1>9. BaseFrame' /\ StringsOK' /\ ListOK'
  BY <1>1, <1>2, <1>7 DEF BaseFrame, StringsOK, ListOK, rootVars
<1>10. MarksOK'
  <2>1. \A p \in Obj \ Live' : mark'[p] = "Unaccess"
    BY <1>2, <1>4, <1>7 DEF MarksOK
  <2>2. Roots' \subseteq Kept' /\ \A p \in Kept' : Children(p)' \subseteq Kept'
    BY <1>1, <1>6, <1>7 DEF MarksOK
  <2>3. (\A p \in m_head : mark[p] = "Unaccess")'
    BY <1>1, <1>2, <1>4 DEF MarksOK, TypeOK
  <2>4. (\A p \in oldHead : mark[p] # "Unscan")'
    BY <1>1, <1>2, <1>4 DEF MarksOK, TypeOK
  <2> QED
    BY <1>1, <2>1, <2>2, <2>3, <2>4 DEF MarksOK
<1> QED
  BY <1>7, <1>8, <1>9, <1>10

LEMMA FinishGCStep ==
  ASSUME IInv, FinishGC PROVE IInv'
<1> USE HeapAssumption DEF IInv
<1>1. /\ phase = "sweep" /\ phase' = (IF gcSlot = None THEN "exit" ELSE "run")
      /\ oldHead = {} /\ oldHead' = {} /\ gcSlot' = None
      /\ m_strs' = {o \in m_head : kind[o] = "string"}
      /\ m_values' = IF gcSlot = None THEN m_values ELSE [m_values EXCEPT ![gcSlot] = Num]
      /\ UNCHANGED <<kind, text, elems, meta, m_head, m_objCount, m_globals, m_frames,
                     m_metas, constTable, parsed, mark, unscans>>
  BY DEF FinishGC
<1>2. m_head = Live /\ Kept = Live
  BY <1>1 DEF ListOK, Kept
<1>3. /\ Live' = Live /\ Freed' = Freed /\ Fresh' = Fresh
      /\ \A p : Children(p)' = Children(p)
  BY <1>1 DEF Live, Freed, Fresh, Children
<1>4. Kept' = Kept
  BY <1>1, <1>2, <1>3 DEF Kept
<1>5. \A v : Good(v)' <=> Good(v)
  BY <1>1, <1>3, <1>4 DEF Good, ScriptConstants
<1>6. /\ m_values' \in Seq(Value) /\ Len(m_values') = Len(m_values)
      /\ \A i \in 1..Len(m_values') : m_values'[i] = m_values[i] \/ m_values'[i] = Num
  <2>1. m_values \in Seq(Value) /\ Num \in Value
    BY DEF TypeOK, Value
  <2>2. CASE gcSlot = None
    BY <1>1, <2>1, <2>2
  <2>3. CASE gcSlot # None
    <3>1. m_values' = [m_values EXCEPT ![gcSlot] = Num]
      BY <1>1, <2>3
    <3>2. PICK d : d = gcSlot
      OBVIOUS
    <3>3. LET t == [m_values EXCEPT ![d] = Num] IN
          /\ t \in Seq(Value) /\ Len(t) = Len(m_values)
          /\ \A j \in 1..Len(m_values) : t[j] = m_values[j] \/ t[j] = Num
      BY <2>1, StoreInSeq
    <3> QED
      BY <3>1, <3>2, <3>3
  <2> QED
    BY <2>2, <2>3
<1>7. TypeOK'
  <2>1. m_strs' \subseteq Obj
    BY <1>1 DEF TypeOK
  <2> QED
    BY <1>1, <1>6, <2>1 DEF TypeOK, Phase
<1>8. MetaOK' /\ FramesOK' /\ ConstsOK' /\ BaseFrame'
  BY <1>1, <1>3, <1>4 DEF MetaOK, FramesOK, ConstsOK, BaseFrame
<1>9. StringsOK' /\ ListOK'
  BY <1>1, <1>2, <1>3 DEF StringsOK, ListOK
<1>10. HeldGood'
  <2>1. (\A i \in 1..Len(m_values) : Good(m_values[i]))'
    <3>1. Good(Num)
      BY DEF Good
    <3> QED
      BY <1>5, <1>6, <3>1 DEF HeldGood
  <2>2. (\A o \in Obj : m_globals[o] # None => Good(o) /\ Good(m_globals[o]))'
    BY <1>1, <1>5 DEF HeldGood
  <2>3. (\A f \in m_metas : \A o \in constTable[f] : Good(o))'
    BY <1>1, <1>5 DEF HeldGood
  <2>4. (\A p \in Kept : kind[p] = "array" => \A i \in 1..Len(elems[p]) : Good(elems[p][i]))'
    BY <1>1, <1>4, <1>5 DEF HeldGood
  <2> QED
    BY <2>1, <2>2, <2>3, <2>4 DEF HeldGood
<1>11. MarksOK'
  BY <1>1, <1>2, <1>3 DEF MarksOK, TypeOK
<1> QED
  BY <1>7, <1>8, <1>9, <1>10, <1>11

LEMMA DestroyInstanceStep ==
  ASSUME IInv, DestroyInstance PROVE IInv'
<1> USE HeapAssumption DEF IInv
<1>1. /\ phase = "run" /\ phase' = "mark" /\ gcSlot' = None /\ unscans' = {}
      /\ m_frames' = <<>> /\ m_values' = <<>> /\ m_metas' = {}
      /\ m_globals' = [o \in Obj |-> None]
      /\ UNCHANGED <<kind, text, elems, meta, m_head, m_objCount, m_strs, constTable,
                     parsed, mark, oldHead>>
  BY DEF DestroyInstance, heapVars
<1>2. /\ Live' = Live /\ Freed' = Freed /\ Fresh' = Fresh /\ Kept = Live /\ Kept' = Live
      /\ \A p : Children(p)' = Children(p)
  BY <1>1 DEF Live, Freed, Fresh, Kept, Children
<1>3. \A v : Good(v)' <=> Good(v)
  BY <1>1, <1>2 DEF Good, ScriptConstants
<1>4. TypeOK'
  BY <1>1 DEF TypeOK, Phase
<1>5. MetaOK' /\ FramesOK' /\ BaseFrame' /\ ConstsOK' /\ StringsOK' /\ ListOK'
  BY <1>1, <1>2 DEF MetaOK, FramesOK, BaseFrame, ConstsOK, StringsOK, ListOK
<1>6. HeldGood'
  BY <1>1, <1>2, <1>3 DEF HeldGood
<1>7. Roots' = {}
  <2>1. (\A o : o \notin Roots)'
    <3>1. ToSet(m_values)' = {} /\ DOMAIN m_frames' = {}
      BY <1>1 DEF ToSet
    <3>2. None \notin Obj /\ \A o \in Obj : m_globals'[o] = None
      BY <1>1 DEF Value
    <3> QED
      BY <1>1, <3>1, <3>2, ZenonT(60) DEF Roots
  <2> QED
    BY <2>1
<1>8. MarksOK'
  BY <1>1, <1>2, <1>7 DEF MarksOK
<1> QED
  BY <1>4, <1>5, <1>6, <1>8

(* Following a dangling reference stops the model. *)
LEMMA UndefinedStep ==
  ASSUME IInv, phase \in {"run", "mark"}, phase' = "undefined",
         UNCHANGED <<heapVars, rootVars, gcVars>>
  PROVE  IInv'
<1> USE DEF IInv, heapVars, rootVars, gcVars
<1>1. Kept' = Kept
  BY DEF Kept, Live, Fresh, Freed
<1>2. /\ Live' = Live /\ Freed' = Freed /\ Roots' = Roots
      /\ \A p : Children(p)' = Children(p)
      /\ MetaOK' /\ FramesOK' /\ ConstsOK' /\ HeldGood'
  BY <1>1, SameObjects
<1>3. TypeOK'
  BY DEF TypeOK, Phase
<1>4. BaseFrame' /\ StringsOK' /\ ListOK' /\ MarksOK'
  BY <1>2 DEF BaseFrame, StringsOK, ListOK, MarksOK
<1> QED
  BY <1>2, <1>3, <1>4

-----------------------------------------------------------------------------
(* Every step, and the specification. *)

LEMMA BytecodeStep ==
  ASSUME IInv, Running, Bytecode PROVE IInv'
<1>1. CASE \E d \in Locals, v \in Operands : Move(d, v)
  BY <1>1, MoveStep
<1>2. CASE \E d \in Locals, c \in Text : MakeString(d, c)
  BY <1>2, MakeStringStep
<1>3. CASE \E d, src \in Locals, n \in 0..MaxLen : NewArray(d, src, n)
  BY <1>3, NewArrayStep
<1>4. CASE \E d \in Locals, f \in m_metas : NewFunction(d, f)
  BY <1>4, NewFunctionStep
<1>5. CASE \E k \in constTable[Code], v \in Operands : SetGlobal(k, v)
  BY <1>5, SetGlobalStep
<1>6. CASE \E d \in Locals, k \in constTable[Code] : GetGlobal(d, k)
  BY <1>6, GetGlobalStep
<1>7. CASE \E d \in Locals, a \in OperandsOf("array"), i \in 1..MaxLen : GetArray(d, a, i)
  BY <1>7, GetArrayStep
<1>8. CASE \E a \in OperandsOf("array"), i \in 1..MaxLen, v \in Operands : SetArray(a, i, v)
  BY <1>8, SetArrayStep
<1>9. CASE \E f \in OperandsOf("jsfunction"), a \in Locals, n \in 0..Len(m_values) :
             Call(f, a, n)
  BY <1>9, CallStep
<1> QED
  BY <1>1, <1>2, <1>3, <1>4, <1>5, <1>6, <1>7, <1>8, <1>9 DEF Bytecode

LEMMA BuiltinStep ==
  ASSUME IInv, BuiltinCall PROVE IInv'
<1>1. CASE \E d \in Locals, s \in Script : LoadFile(d, s)
  BY <1>1, LoadFileStep
<1>2. CASE \E d \in Locals, pos \in 1..MaxLen, v \in Operands : ArrayInsert(d, pos, v)
  BY <1>2, ArrayInsertStep
<1>3. CASE \E d \in Locals, pos \in 1..MaxLen : ArrayRemove(d, pos)
  BY <1>3, ArrayRemoveStep
<1>4. CASE \E d \in Locals : CollectGarbage(d)
  BY <1>4, CollectGarbageStep
<1> QED
  BY <1>1, <1>2, <1>3, <1>4 DEF BuiltinCall

LEMMA CollectorStepStep ==
  ASSUME IInv, CollectorStep PROVE IInv'
<1>1. CASE \E o \in unscans : MarkStep(o)
  BY <1>1, MarkStepStep
<1>2. CASE \E o \in unscans : ScanFreed(o)
  <2>1. /\ phase \in {"run", "mark"} /\ phase' = "undefined"
        /\ UNCHANGED <<heapVars, rootVars, gcVars>>
    BY <1>2 DEF ScanFreed
  <2> QED
    BY <2>1, UndefinedStep
<1>3. CASE BeginSweep
  BY <1>3, BeginSweepStep
<1>4. CASE \E o \in oldHead : Sweep(o)
  BY <1>4, SweepStep
<1>5. CASE \E o \in oldHead : Keep(o)
  BY <1>5, KeepStep
<1>6. CASE FinishGC
  BY <1>6, FinishGCStep
<1> QED
  BY <1>1, <1>2, <1>3, <1>4, <1>5, <1>6 DEF CollectorStep

(* Nothing happens. *)
LEMMA StutterStep ==
  ASSUME IInv, UNCHANGED vars PROVE IInv'
<1> USE DEF vars, heapVars, rootVars, gcVars
<1>1. /\ Live' = Live /\ Freed' = Freed /\ Fresh' = Fresh /\ Kept' = Kept
      /\ Roots' = Roots /\ \A p : Children(p)' = Children(p)
  BY DEF Live, Freed, Fresh, Kept, Roots, Children
<1>2. \A v : Good(v)' <=> Good(v)
  BY <1>1 DEF Good, ScriptConstants
<1>3. TypeOK' /\ MetaOK' /\ FramesOK' /\ BaseFrame' /\ ConstsOK' /\ StringsOK' /\ ListOK'
  BY <1>1 DEF IInv, TypeOK, MetaOK, FramesOK, BaseFrame, ConstsOK, StringsOK, ListOK
<1>4. HeldGood'
  BY <1>1, <1>2 DEF IInv, HeldGood
<1>5. MarksOK'
  BY <1>1 DEF IInv, MarksOK
<1> QED
  BY <1>3, <1>4, <1>5 DEF IInv

LEMMA NextIInv ==
  ASSUME IInv, [Next]_vars PROVE IInv'
<1>1. CASE RegisterBuildins
  BY <1>1, RegisterBuildinsStep
<1>2. CASE RunFile
  BY <1>2, RunFileStep
<1>3. CASE Running /\ Bytecode
  BY <1>3, BytecodeStep
<1>4. CASE Running /\ BuiltinCall
  BY <1>4, BuiltinStep
<1>5. CASE Return
  BY <1>5, ReturnStep
<1>6. CASE Throw
  BY <1>6, ThrowStep
<1>7. CASE DestroyInstance
  BY <1>7, DestroyInstanceStep
<1>8. CASE CollectorStep
  BY <1>8, CollectorStepStep
<1>9. CASE TouchFreed
  <2>1. /\ phase \in {"run", "mark"} /\ phase' = "undefined"
        /\ UNCHANGED <<heapVars, rootVars, gcVars>>
    BY <1>9 DEF TouchFreed, Running
  <2> QED
    BY <2>1, UndefinedStep
<1>10. CASE UNCHANGED vars
  BY <1>10, StutterStep
<1> QED
  BY <1>1, <1>2, <1>3, <1>4, <1>5, <1>6, <1>7, <1>8, <1>9, <1>10 DEF Next, Terminated

(* In every reachable state of the machine, whatever the program, the      *)
(* inductive invariant holds.                                              *)
THEOREM InductiveInvariant == Spec => []IInv
<1>1. Init => IInv
  BY InitIInv
<1>2. IInv /\ [Next]_vars => IInv'
  BY NextIInv
<1> QED
  BY <1>1, <1>2, PTL DEF Spec

(* Every variable of the machine keeps its type: no operation of the       *)
(* interpreter, of the builtins or of the collector leaves its range.      *)
THEOREM TypeCorrect == Spec => []TypeOK
<1>1. IInv => TypeOK
  BY DEF IInv
<1> QED
  BY <1>1, InductiveInvariant, PTL

(* The collector never frees an object that a global, a stack slot, a      *)
(* frame, a registered meta or a surviving array refers to, except string  *)
(* constants of a file's top-level code: what accessGCObjects reports as a *)
(* root is enough for everything else, for programs of any size.           *)
THEOREM Dangling == Spec => []OnlyScriptConstantsDangle
<1>1. ASSUME IInv PROVE OnlyScriptConstantsDangle
  <2>1. \A o \in Roots : o \in Obj /\ Good(o)
    BY <1>1, RootsGood DEF Roots
  <2>2. \A p \in Kept : \A o \in Children(p) : o \in Obj /\ Good(o)
    BY <1>1, RootsGood DEF Children
  <2> QED
    BY <2>1, <2>2 DEF OnlyScriptConstantsDangle, Good
<1> QED
  BY <1>1, InductiveInvariant, PTL

(* The assertion of performFullGC's sweep (GCObject.cpp:52) never fails:   *)
(* no object is left half-marked when the mark phase ends.                 *)
THEOREM SweepAssertion == Spec => []SweptAreScanned
<1>1. IInv => SweptAreScanned
  BY DEF IInv, MarksOK, SweptAreScanned
<1> QED
  BY <1>1, InductiveInvariant, PTL

-----------------------------------------------------------------------------
(* The tables of module Heap: the manager's list and count, the intern     *)
(* table of strings, the constant tables of registered metas, and what is  *)
(* left when the machine is destroyed.  Every step is one of three: it     *)
(* allocates, it works on what exists, or it is the collector's.  From     *)
(* them follows that the machine implements ManagedHeap, for programs that *)
(* never lose a constant.                                                  *)

(* Sets of objects are finite. *)

LEMMA ObjectsFinite ==
  ASSUME NEW S \in SUBSET Obj PROVE IsFiniteSet(S)
<1>1. IsFiniteSet(Obj)
  BY FS_Interval, HeapAssumption DEF Obj
<1> QED
  BY <1>1, FS_Subset

(* The end of a sequence that has grown. *)
LEMMA AppendLast ==
  ASSUME NEW S, NEW s \in Seq(S), NEW e \in S
  PROVE  /\ Len(Append(s, e)) = Len(s) + 1
         /\ Append(s, e)[Len(s) + 1] = e
         /\ \A i \in 1..Len(s) : Append(s, e)[i] = s[i]
  OBVIOUS

LEMMA InitTables == ASSUME Init PROVE TablesInv
<1> USE HeapAssumption DEF Init
<1>1. IInv
  BY InitIInv
<1>2. Live = {} /\ Strings = {}
  BY DEF Live, Freed, Fresh, Strings
<1>3. StackOK
  BY <1>2 DEF StackOK
<1>4. DestroyedOK
  BY DEF DestroyedOK, Collecting
<1>5. CountOK
  BY FS_EmptySet DEF CountOK
<1>6. InternCanonical
  BY <1>2 DEF InternCanonical
<1>7. RegisteredOK
  BY DEF RegisteredOK
<1> QED
  BY <1>1, <1>3, <1>4, <1>5, <1>6, <1>7 DEF TablesInv

-----------------------------------------------------------------------------
(* Steps that work on what exists. *)

(* The program works on objects there are: no list or table changes. *)
Works ==
  /\ phase = "run" /\ phase' \in {"run", "aborted"}
  /\ UNCHANGED <<kind, text, meta, m_head, m_objCount, m_strs,
                 m_metas, constTable, parsed, gcVars>>

(* What exists is the same, and outside a sweep all of it stays. *)
LEMMA SameLive ==
  ASSUME UNCHANGED kind
  PROVE  /\ Live' = Live /\ Freed' = Freed /\ Fresh' = Fresh /\ Strings' = Strings
         /\ phase # "sweep" /\ phase' # "sweep" => Kept = Live /\ Kept' = Live
  BY DEF Live, Freed, Fresh, Strings, Kept

LEMMA WorksStep ==
  ASSUME TablesInv, IInv', Works, StackOK' PROVE TablesInv'
<1> USE DEF TablesInv, Works
<1>1. Live' = Live /\ Strings' = Strings /\ Kept' = Kept
  BY SameLive
<1>2. DestroyedOK'
  BY DEF DestroyedOK, Collecting
<1>3. CountOK'
  BY DEF CountOK
<1>4. InternCanonical'
  BY <1>1 DEF InternCanonical
<1>5. RegisteredOK'
  BY <1>1 DEF RegisteredOK
<1> QED
  BY <1>2, <1>3, <1>4, <1>5

(* Frames as before, and a stack as high as before. *)
LEMMA SameStack ==
  ASSUME TablesInv, phase = "run", phase' = "run",
         m_frames' = m_frames, Len(m_values') = Len(m_values), gcSlot' = gcSlot
  PROVE  StackOK'
  BY DEF TablesInv, StackOK

(* A bytecode or a builtin that allocates nothing. *)
LEMMA StoreWorks ==
  ASSUME TablesInv, IInv', NEW d \in Locals, NEW v \in Value, Running, Store(d, v),
         m_frames' = m_frames, phase' = phase,
         UNCHANGED <<kind, text, meta, m_head, m_objCount, m_strs,
                     m_metas, constTable, parsed, gcVars>>
  PROVE  TablesInv'
<1>1. Len(m_values') = Len(m_values)
  BY StoreGood DEF TablesInv
<1>2. StackOK'
  BY <1>1, SameStack DEF Running, gcVars
<1> QED
  BY <1>2, WorksStep DEF Works, Running

LEMMA MoveTables ==
  ASSUME TablesInv, IInv', NEW d, NEW v, Move(d, v) PROVE TablesInv'
<1>1. Running /\ d \in Locals /\ v \in Value
  BY RunningBody DEF Move, TablesInv
<1> QED
  BY <1>1, StoreWorks DEF Move, heapVars

LEMMA GetGlobalTables ==
  ASSUME TablesInv, IInv', NEW d, NEW k, GetGlobal(d, k) PROVE TablesInv'
<1>1. Running /\ d \in Locals /\ k \in Obj
  BY RunningBody DEF GetGlobal, TablesInv
<1>2. m_globals'[k] \in Value
  BY <1>1, HeapAssumption DEF GetGlobal, TablesInv, IInv, TypeOK, Value
<1> QED
  BY <1>1, <1>2, StoreWorks DEF GetGlobal, heapVars

LEMMA GetArrayTables ==
  ASSUME TablesInv, IInv', NEW d, NEW a, NEW i, GetArray(d, a, i) PROVE TablesInv'
<1>1. Running /\ d \in Locals /\ a \in Obj
  BY DEF GetArray, OperandsOf
<1>2. elems[a] \in Seq(Value) /\ i \in DOMAIN elems[a]
  BY <1>1 DEF GetArray, TablesInv, IInv, TypeOK
<1>3. elems[a][i] \in Value
  BY <1>2
<1> QED
  BY <1>1, <1>3, StoreWorks DEF GetArray, heapVars

LEMMA ArrayBuiltinTables ==
  ASSUME TablesInv, IInv',
         \/ \E d, pos, v : ArrayInsert(d, pos, v)
         \/ \E d, pos : ArrayRemove(d, pos)
  PROVE  TablesInv'
<1>1. PICK d \in Locals :
        /\ Running /\ Store(d, Nil) /\ m_frames' = m_frames /\ phase' = phase
        /\ UNCHANGED <<kind, text, meta, m_head, m_objCount, m_strs,
                       m_metas, constTable, parsed, gcVars>>
  BY DEF ArrayInsert, ArrayRemove
<1> QED
  BY <1>1, StoreWorks DEF Value

(* Assignments that leave the stack alone. *)
LEMMA SetTables ==
  ASSUME TablesInv, IInv',
         \/ \E k, v : SetGlobal(k, v)
         \/ \E a, i, v : SetArray(a, i, v)
  PROVE  TablesInv'
<1>1. Works /\ Running /\ phase' = phase /\ UNCHANGED <<m_frames, m_values, gcSlot>>
  BY DEF Works, SetGlobal, SetArray, Running, heapVars, rootVars, gcVars
<1>2. StackOK'
  BY <1>1, SameStack DEF Running
<1> QED
  BY <1>1, <1>2, WorksStep

LEMMA CallTables ==
  ASSUME TablesInv, IInv', NEW f, NEW a, NEW n, Call(f, a, n) PROVE TablesInv'
<1>1. /\ Works /\ Running /\ phase' = "run" /\ gcSlot' = gcSlot
      /\ m_frames' = Append(m_frames, [func |-> f, base |-> a,
                                       oldStackSize |-> Len(m_values)])
  BY DEF Works, Call, Running, heapVars, gcVars
<1>2. m_frames \in Seq(Frame) /\ m_frames' \in Seq(Frame)
  BY DEF TablesInv, IInv, TypeOK
<1>3. Len(m_frames) > 1 /\ Len(m_frames') > 1 /\ m_frames'[2] = m_frames[2]
  BY <1>1, <1>2 DEF Running
<1>4. StackOK'
  BY <1>1, <1>3 DEF TablesInv, StackOK, Running
<1> QED
  BY <1>1, <1>4, WorksStep

(* The last return leaves the one slot the machine began with. *)
LEMMA ReturnTables ==
  ASSUME TablesInv, IInv', Return PROVE TablesInv'
<1>1. /\ Works /\ Running /\ phase = "run" /\ phase' = "run" /\ gcSlot' = gcSlot
      /\ m_frames' = Front(m_frames)
      /\ m_values' = Resize(m_values, IF Len(m_frames) = 2
                                      THEN Top.oldStackSize - NArgs
                                      ELSE Top.oldStackSize)
  BY DEF Works, Return, Running, heapVars, gcVars
<1>2. m_frames \in Seq(Frame) /\ m_values \in Seq(Value) /\ Len(m_frames) > 1
  BY <1>1 DEF TablesInv, IInv, TypeOK, Running
<1>3. /\ Len(m_frames') = Len(m_frames) - 1
      /\ Len(m_frames') > 1 => m_frames'[2] = m_frames[2]
  BY <1>1, <1>2 DEF Front
<1>4. Len(m_frames) = 2 => Len(m_values') = 1
  <2>1. SUFFICES ASSUME Len(m_frames) = 2 PROVE Len(m_values') = 1
    OBVIOUS
  <2>2. Top.oldStackSize = 1 + NArgs
    BY <2>1, <1>2 DEF TablesInv, StackOK, Top, Last
  <2>3. NArgs \in Nat
    BY HeapAssumption DEF NArgs
  <2>4. m_values' = Resize(m_values, 1)
    BY <1>1, <2>1, <2>2, <2>3
  <2>5. 1 \in Int /\ 1 \in Nat /\ m_values \in Seq(Value)
    BY <1>2
  <2>6. Len(Resize(m_values, 1)) = 1
    BY <2>5, ResizeGood, Zenon
  <2> QED
    BY <2>4, <2>6
<1>5. StackOK'
  BY <1>1, <1>2, <1>3, <1>4 DEF TablesInv, StackOK
<1> QED
  BY <1>1, <1>5, WorksStep

LEMMA ThrowTables ==
  ASSUME TablesInv, IInv', Throw PROVE TablesInv'
<1>1. /\ Works /\ Running /\ phase = "run" /\ phase' = "aborted" /\ gcSlot' = gcSlot
      /\ m_frames' = SubSeq(m_frames, 1, 1)
  BY DEF Works, Throw, Running, heapVars, gcVars
<1>2. m_frames \in Seq(Frame) /\ Len(m_frames) > 1
  BY <1>1 DEF TablesInv, IInv, TypeOK, Running
<1>3. Len(m_frames') = 1
  BY <1>1, <1>2
<1>4. StackOK'
  BY <1>1, <1>3 DEF TablesInv, StackOK
<1> QED
  BY <1>1, <1>4, WorksStep

-----------------------------------------------------------------------------
(* Steps that allocate. *)

(* The strings of g that are new, and other objects, join the heap. *)
Allocates(contents, g, others, newKind) ==
  /\ phase \in {"boot", "load", "run"} /\ phase' \in {"load", "run"}
  /\ UNCHANGED gcVars
  /\ contents \subseteq Text /\ Interning(contents, g)
  /\ others \subseteq Fresh \ NewStrings(g)
  /\ newKind \in [Obj -> {"string", "array", "jsfunction", "cfunction"}]
  /\ \A o \in NewStrings(g) : newKind[o] = "string"
  /\ \A o \in others : newKind[o] # "string"
  /\ Link(NewStrings(g) \cup others, newKind)
  /\ StoreTexts(g)

(* The heap after an allocation. *)
LEMMA AllocatesGrows ==
  ASSUME TablesInv, NEW contents, NEW g, NEW others, NEW newKind,
         Allocates(contents, g, others, newKind)
  PROVE  /\ NewStrings(g) \subseteq Fresh /\ Fresh \subseteq Obj
         /\ \A o \in Obj : kind'[o] = IF o \in NewStrings(g) \cup others
                                      THEN newKind[o] ELSE kind[o]
         /\ Live' = Live \cup NewStrings(g) \cup others
         /\ Live \cap Fresh = {}
         /\ Kept = Live /\ Kept' = Live'
         /\ Strings' = Strings \cup NewStrings(g)
         /\ \A c \in contents : g[c] \in Live'
<1> USE DEF Allocates
<1>1. NewStrings(g) \subseteq Fresh /\ Fresh \subseteq Obj
  BY DEF NewStrings, Fresh
<1>2. \A o \in Obj : kind'[o] = IF o \in NewStrings(g) \cup others
                                THEN newKind[o] ELSE kind[o]
  BY DEF Link
<1>3. \A o \in NewStrings(g) \cup others :
        newKind[o] \notin {"fresh", "freed"} /\ kind[o] = "fresh" /\ o \in Obj
  BY <1>1 DEF Fresh
<1>4. Live' = Live \cup NewStrings(g) \cup others
  BY <1>2, <1>3 DEF Live, Freed, Fresh
<1>5. Kept = Live /\ Kept' = Live' /\ Live \cap Fresh = {} /\ Live \subseteq Obj
  BY DEF Kept, Live
<1>6. Strings' = Strings \cup NewStrings(g)
  <2>1. \A o \in Live : kind'[o] = kind[o]
    BY <1>1, <1>2, <1>5
  <2> QED
    BY <1>1, <1>2, <1>3, <1>4, <2>1 DEF Strings
<1>7. ASSUME NEW c \in contents PROVE g[c] \in Live'
  <2>1. g[c] \in Live \cup NewStrings(g)
    BY <1>7, InterningGood DEF TablesInv
  <2> QED
    BY <1>4, <2>1
<1> QED
  BY <1>1, <1>2, <1>4, <1>5, <1>6, <1>7

(* A new string holds the content it was made for. *)
LEMMA NewText ==
  ASSUME TablesInv, NEW contents, NEW g, NEW others, NEW newKind,
         Allocates(contents, g, others, newKind), NEW o \in NewStrings(g)
  PROVE  /\ text'[o] \in contents /\ g[text'[o]] = o
         /\ \A p \in m_strs : text[p] # text'[o]
<1>0. NewStrings(g) \subseteq Fresh /\ Fresh \subseteq Obj /\ Live \cap Fresh = {}
  BY AllocatesGrows
<1>1. DOMAIN g = contents /\ o \in Obj
  BY <1>0 DEF Allocates, Interning
<1>2. \E c \in contents : g[c] = o
  BY <1>1 DEF NewStrings
<1> DEFINE c == CHOOSE c \in DOMAIN g : g[c] = o
<1>3. c \in contents /\ g[c] = o
  BY <1>1, <1>2
<1>4. text'[o] = c
  BY <1>1 DEF Allocates, StoreTexts
<1>5. o \in Fresh /\ o \notin m_strs
  BY <1>0 DEF TablesInv, IInv, StringsOK, Allocates
<1> HIDE DEF c
<1>6. \A p \in m_strs : text[p] # c
  BY <1>3, <1>5 DEF Allocates, Interning
<1> QED
  BY <1>3, <1>4, <1>6

LEMMA AllocatesCanonical ==
  ASSUME TablesInv, NEW contents, NEW g, NEW others, NEW newKind,
         Allocates(contents, g, others, newKind)
  PROVE  InternCanonical'
<1> DEFINE new == NewStrings(g)
<1>1. /\ new \subseteq Fresh /\ Live \cap Fresh = {}
      /\ Live' = Live \cup new \cup others
      /\ Strings' = Strings \cup new
  BY AllocatesGrows
<1>2. m_strs = Strings /\ Strings \subseteq Live /\ Live \subseteq Obj
  BY DEF Allocates, TablesInv, InternCanonical, Strings, Live
<1>3. m_strs' = m_strs \cup new
  BY DEF Allocates, StoreTexts
<1>4. \A o \in Strings : text'[o] = text[o]
  BY <1>1, <1>2 DEF Allocates, StoreTexts
<1>5. ASSUME NEW o \in Strings', NEW p \in Strings', text'[o] = text'[p]
      PROVE  o = p
  <2>1. CASE o \in new /\ p \in new
    BY <1>5, <2>1, NewText
  <2>2. CASE o \in new /\ p \in Strings
    BY <1>2, <1>4, <1>5, <2>2, NewText
  <2>3. CASE o \in Strings /\ p \in new
    BY <1>2, <1>4, <1>5, <2>3, NewText
  <2>4. CASE o \in Strings /\ p \in Strings
    BY <1>4, <1>5, <2>4 DEF TablesInv, InternCanonical
  <2> QED
    BY <1>1, <1>5, <2>1, <2>2, <2>3, <2>4
<1> QED
  BY <1>1, <1>2, <1>3, <1>5 DEF InternCanonical

LEMMA AllocatesCounts ==
  ASSUME TablesInv, NEW contents, NEW g, NEW others, NEW newKind,
         Allocates(contents, g, others, newKind)
  PROVE  CountOK'
<1> DEFINE new == NewStrings(g) \cup others
<1>0. NewStrings(g) \subseteq Fresh /\ Fresh \subseteq Obj /\ Live \cap Fresh = {}
  BY AllocatesGrows
<1>1. /\ new \subseteq Obj /\ m_head \subseteq Obj /\ m_head \cap new = {}
  BY <1>0 DEF Allocates, TablesInv, IInv, TypeOK, ListOK
<1>2. m_head' = m_head \cup new /\ m_objCount' = m_objCount + Cardinality(new)
  BY DEF Allocates, Link
<1> HIDE DEF new
<1>3. IsFiniteSet(new) /\ IsFiniteSet(m_head)
  BY <1>1, ObjectsFinite
<1>4. /\ Cardinality(m_head \cup new) =
           Cardinality(m_head) + Cardinality(new) - Cardinality(m_head \cap new)
      /\ Cardinality(m_head \cap new) = 0
      /\ Cardinality(m_head) \in Nat /\ Cardinality(new) \in Nat
  BY <1>1, <1>3, FS_Union, FS_EmptySet, FS_CardinalityType
<1> QED
  BY <1>2, <1>4 DEF CountOK, TablesInv

(* The tables after an allocation that also keeps to what is said of the   *)
(* stack and of the constants.                                             *)
LEMMA AllocatesStep ==
  ASSUME TablesInv, IInv', NEW contents, NEW g, NEW others, NEW newKind,
         Allocates(contents, g, others, newKind),
         StackOK', RegisteredOK'
  PROVE  TablesInv'
<1>1. DestroyedOK'
  BY DEF DestroyedOK, Collecting, Allocates
<1> QED
  BY <1>1, AllocatesCanonical, AllocatesCounts DEF TablesInv

(* The constants of registered metas stay if they are the same. *)
LEMMA SameRegistered ==
  ASSUME TablesInv, NEW contents, NEW g, NEW others, NEW newKind,
         Allocates(contents, g, others, newKind), UNCHANGED <<m_metas, constTable>>
  PROVE  RegisteredOK'
<1>1. Kept \subseteq Kept'
  BY AllocatesGrows
<1> QED
  BY <1>1 DEF TablesInv, RegisteredOK

(* One new object that is not a string. *)
LEMMA AllocatesOther ==
  ASSUME TablesInv, IInv', Running, phase' = phase, UNCHANGED gcVars,
         NEW o \in Fresh,
         NEW newKind \in [Obj -> {"array", "jsfunction", "cfunction"}],
         Link({o}, newKind), UNCHANGED <<text, m_strs, m_frames, m_metas, constTable>>,
         NEW d \in Locals, Store(d, o)
  PROVE  TablesInv'
<1> DEFINE g == [c \in {} |-> Nil]
<1>1. NewStrings(g) = {} /\ DOMAIN g = {}
  BY DEF NewStrings
<1>2. o \in Obj /\ o \in Value /\ text \in [Obj -> Text \cup {None}]
  BY DEF Fresh, Value, TablesInv, IInv, TypeOK
<1>3. Allocates({}, g, {o}, newKind)
  <2>1. Interning({}, g)
    BY DEF Interning
  <2>2. StoreTexts(g)
    BY <1>1, <1>2 DEF StoreTexts
  <2>3. newKind \in [Obj -> {"string", "array", "jsfunction", "cfunction"}] /\ newKind[o] # "string"
    BY <1>2
  <2>4. Link(NewStrings(g) \cup {o}, newKind)
    BY <1>1
  <2> HIDE DEF g
  <2> QED
    BY <1>1, <2>1, <2>2, <2>3, <2>4 DEF Allocates, Running
<1> HIDE DEF g
<1>4. Len(m_values') = Len(m_values)
  BY <1>2, StoreGood DEF TablesInv
<1>5. StackOK'
  BY <1>4, SameStack DEF Running, gcVars
<1> QED
  BY <1>3, <1>5, SameRegistered, AllocatesStep

LEMMA NewArrayTables ==
  ASSUME TablesInv, IInv', NEW d, NEW src, NEW n, NewArray(d, src, n) PROVE TablesInv'
<1>1. PICK o \in Fresh : Link({o}, [p \in Obj |-> "array"]) /\ Store(d, o)
  BY DEF NewArray
<1>2. PICK newKind : newKind = [p \in Obj |-> "array"]
  OBVIOUS
<1>3. newKind \in [Obj -> {"array", "jsfunction", "cfunction"}] /\ Link({o}, newKind)
  BY <1>1, <1>2
<1>4. /\ Running /\ d \in Locals /\ phase' = phase /\ UNCHANGED gcVars
      /\ UNCHANGED <<text, m_strs, m_frames, m_metas, constTable>>
  BY DEF NewArray
<1> QED
  BY <1>1, <1>3, <1>4, AllocatesOther

LEMMA NewFunctionTables ==
  ASSUME TablesInv, IInv', NEW d, NEW f, NewFunction(d, f) PROVE TablesInv'
<1>1. PICK o \in Fresh : Link({o}, [p \in Obj |-> "jsfunction"]) /\ Store(d, o)
  BY DEF NewFunction
<1>2. PICK newKind : newKind = [p \in Obj |-> "jsfunction"]
  OBVIOUS
<1>3. newKind \in [Obj -> {"array", "jsfunction", "cfunction"}] /\ Link({o}, newKind)
  BY <1>1, <1>2
<1>4. /\ Running /\ d \in Locals /\ phase' = phase /\ UNCHANGED gcVars
      /\ UNCHANGED <<text, m_strs, m_frames, m_metas, constTable>>
  BY DEF NewFunction
<1> QED
  BY <1>1, <1>3, <1>4, AllocatesOther

LEMMA MakeStringTables ==
  ASSUME TablesInv, IInv', NEW d, NEW c \in Text, MakeString(d, c) PROVE TablesInv'
<1>1. PICK g \in [{c} -> Obj] :
        /\ Interning({c}, g)
        /\ Link(NewStrings(g), [o \in Obj |-> "string"])
        /\ StoreTexts(g) /\ Store(d, g[c])
  BY DEF MakeString
<1>2. PICK newKind : newKind = [o \in Obj |-> "string"]
  OBVIOUS
<1>3. /\ Running /\ d \in Locals /\ phase' = phase /\ phase = "run" /\ UNCHANGED gcVars
      /\ UNCHANGED <<m_frames, m_metas, constTable>>
  BY DEF MakeString, Running
<1>4. NewStrings(g) \cup {} = NewStrings(g) /\ NewStrings(g) \subseteq Obj
  BY DEF NewStrings, Fresh
<1>5. Allocates({c}, g, {}, newKind)
  BY <1>1, <1>2, <1>3, <1>4 DEF Allocates
<1>6. Len(m_values') = Len(m_values)
  BY <1>1, <1>3, StoreGood DEF TablesInv, Value
<1>7. StackOK'
  BY <1>3, <1>6, SameStack DEF gcVars
<1> QED
  BY <1>3, <1>5, <1>7, SameRegistered, AllocatesStep

(* Loading a file allocates its strings and the function that runs it, and *)
(* the constant tables it fills hold strings that exist.                   *)
LEMMA LoadTables ==
  ASSUME TablesInv, phase \in {"load", "run"}, phase' = "run", UNCHANGED gcVars,
         NEW s \in Script, NEW others \in SUBSET Text, NEW o,
         NEW g, Load(s, others, g, o)
  PROVE  /\ RegisteredOK'
         /\ Allocates(LiteralsIn(s) \cup others, g, {o},
                      [p \in Obj |-> IF p = o THEN "jsfunction" ELSE "string"])
<1> DEFINE contents == LiteralsIn(s) \cup others
           newKind == [p \in Obj |-> IF p = o THEN "jsfunction" ELSE "string"]
<1>1. /\ Interning(contents, g) /\ o \in Fresh \ NewStrings(g)
      /\ Link(NewStrings(g) \cup {o}, newKind) /\ StoreTexts(g)
      /\ ParseProgram(s, g)
  BY DEF Load
<1>2. s \in Meta /\ FuncsOf[s] \subseteq Meta /\ FuncsOf[s] \subseteq Func
  BY HeapAssumption DEF Meta
<1>3. contents \subseteq Text
  BY <1>2, HeapAssumption DEF LiteralsIn
<1>4. Literals[s] \subseteq contents /\ \A f \in FuncsOf[s] : Literals[f] \subseteq contents
  BY DEF LiteralsIn
<1>5. o \in Obj /\ NewStrings(g) \subseteq Obj /\ o \notin NewStrings(g)
  BY <1>1 DEF Fresh, NewStrings
<1>6. /\ newKind \in [Obj -> {"string", "array", "jsfunction", "cfunction"}]
      /\ \A p \in NewStrings(g) : newKind[p] = "string"
      /\ \A p \in {o} : newKind[p] # "string"
  BY <1>5
<1> HIDE DEF contents, newKind
<1>7. Allocates(contents, g, {o}, newKind)
  BY <1>1, <1>3, <1>6 DEF Allocates
<1>8. /\ Kept \subseteq Kept' /\ \A c \in contents : g[c] \in Kept'
  BY <1>7, AllocatesGrows
<1>9. ASSUME NEW f \in m_metas' PROVE constTable'[f] \subseteq Kept'
  <2>1. f \in Meta /\ f \in m_metas \cup FuncsOf[s]
    BY <1>1, <1>2 DEF ParseProgram, TablesInv, IInv, TypeOK, Meta
  <2>2. CASE f \in FuncsOf[s]
    <3>1. constTable'[f] = {g[c] : c \in Literals[f]}
      BY <1>1, <2>1, <2>2 DEF ParseProgram
    <3> QED
      BY <1>4, <1>8, <2>2, <3>1
  <2>3. CASE f \notin FuncsOf[s]
    <3>1. f # s
      BY <2>1, <2>3, HeapAssumption DEF TablesInv, IInv, TypeOK
    <3>2. constTable'[f] = constTable[f]
      BY <1>1, <2>1, <2>3, <3>1 DEF ParseProgram
    <3> QED
      BY <1>8, <2>1, <2>3, <3>2 DEF TablesInv, RegisteredOK
  <2> QED
    BY <2>2, <2>3
<1>10. RegisteredOK'
  BY <1>9 DEF RegisteredOK
<1> QED
  BY <1>7, <1>10 DEF contents, newKind

LEMMA LoadFileTables ==
  ASSUME TablesInv, IInv', NEW d, NEW s \in Script, LoadFile(d, s) PROVE TablesInv'
<1>1. PICK g \in [LiteralsIn(s) -> Obj], o \in Fresh : Load(s, {}, g, o) /\ Store(d, o)
  BY DEF LoadFile
<1>2. /\ Running /\ d \in Locals /\ phase = "run" /\ phase' = "run"
      /\ m_frames' = m_frames /\ UNCHANGED gcVars
  BY DEF LoadFile, Running
<1>3. {} \in SUBSET Text
  OBVIOUS
<1>4. PICK contents, newKind : Allocates(contents, g, {o}, newKind) /\ RegisteredOK'
  BY <1>1, <1>2, <1>3, LoadTables
<1>5. Len(m_values') = Len(m_values)
  BY <1>1, <1>2, StoreGood DEF TablesInv, Value, Fresh
<1>6. StackOK'
  BY <1>2, <1>5, SameStack DEF gcVars
<1> QED
  BY <1>4, <1>6, AllocatesStep

(* The script's frame, the second one, counts the arguments. *)
LEMMA RunFileTables ==
  ASSUME TablesInv, IInv', RunFile PROVE TablesInv'
<1>1. PICK g \in [LiteralsIn(Main) \cup ArgTexts -> Obj], o \in Fresh :
        /\ Load(Main, ArgTexts, g, o)
        /\ m_frames' = Append(m_frames, [func |-> o, base |-> 1,
                                         oldStackSize |-> 1 + NArgs])
  BY DEF RunFile
<1>2. /\ phase = "load" /\ phase' = "run" /\ UNCHANGED gcVars /\ gcSlot' = gcSlot
      /\ Main \in Script
  BY HeapAssumption DEF RunFile, gcVars
<1>3. ArgTexts \in SUBSET Text
  BY HeapAssumption DEF ArgTexts, ToSet
<1>4. PICK contents, newKind : Allocates(contents, g, {o}, newKind) /\ RegisteredOK'
  BY <1>1, <1>2, <1>3, LoadTables
<1>5. m_frames \in Seq(Frame) /\ Len(m_frames) = 1
  BY <1>2 DEF TablesInv, IInv, TypeOK, StackOK
<1>6. Len(m_frames') = 2 /\ m_frames'[2].oldStackSize = 1 + NArgs
  <2>1. PICK fr : fr = [func |-> o, base |-> 1, oldStackSize |-> 1 + NArgs]
    OBVIOUS
  <2>2. fr \in Frame
    BY <2>1, HeapAssumption DEF Frame, NArgs, Fresh
  <2>3. m_frames' = Append(m_frames, fr)
    BY <1>1, <2>1
  <2>4. /\ Len(Append(m_frames, fr)) = Len(m_frames) + 1
        /\ Append(m_frames, fr)[Len(m_frames) + 1] = fr
    BY <1>5, <2>2, AppendLast
  <2>5. Len(m_frames') = 2 /\ m_frames'[2] = fr
    BY <1>5, <2>3, <2>4
  <2> QED
    BY <2>1, <2>5
<1>7. StackOK'
  BY <1>2, <1>5, <1>6 DEF TablesInv, StackOK
<1> QED
  BY <1>4, <1>7, AllocatesStep

(* Two functions whose images have twice as many elements together as they *)
(* have arguments are injective, and their images disjoint.                *)
LEMMA TwoImages ==
  ASSUME NEW B, IsFiniteSet(B), NEW S, NEW g \in [B -> S], NEW h \in [B -> S],
         Cardinality({g[b] : b \in B} \cup {h[b] : b \in B}) = 2 * Cardinality(B)
  PROVE  /\ {g[b] : b \in B} \cap {h[b] : b \in B} = {}
         /\ \A b, c \in B : g[b] = g[c] => b = c
<1>1. PICK G, H : G = {g[b] : b \in B} /\ H = {h[b] : b \in B}
  OBVIOUS
<1>2. g \in Surjection(B, G) /\ h \in Surjection(B, H)
  BY <1>1 DEF Surjection
<1>3. /\ IsFiniteSet(G) /\ Cardinality(G) <= Cardinality(B)
      /\ Cardinality(G) = Cardinality(B) <=> g \in Injection(B, G)
      /\ IsFiniteSet(H) /\ Cardinality(H) <= Cardinality(B)
  BY <1>2, FS_Surjection
<1>4. /\ Cardinality(G \cup H) = Cardinality(G) + Cardinality(H) - Cardinality(G \cap H)
      /\ IsFiniteSet(G \cap H)
  BY <1>3, FS_Union, FS_Intersection
<1>5. /\ Cardinality(G) \in Nat /\ Cardinality(H) \in Nat /\ Cardinality(B) \in Nat
      /\ Cardinality(G \cap H) \in Nat
  BY <1>3, <1>4, FS_CardinalityType
<1>6. Cardinality(G \cup H) = 2 * Cardinality(B)
  BY <1>1
<1>7. Cardinality(G) = Cardinality(B) /\ Cardinality(G \cap H) = 0
  BY <1>3, <1>4, <1>5, <1>6
<1>8. G \cap H = {} /\ g \in Injection(B, G)
  BY <1>3, <1>4, <1>7, FS_EmptySet
<1>9. \A b, c \in B : g[b] = g[c] => b = c
  BY <1>8 DEF Injection, IsInjective
<1> QED
  BY <1>1, <1>8, <1>9

(* The names of the builtins are the first strings of the machine. *)
LEMMA RegisterBuildinsTables ==
  ASSUME TablesInv, IInv', RegisterBuildins PROVE TablesInv'
<1>1. PICK g \in [Builtin -> Fresh], h \in [Builtin -> Fresh] :
        /\ Cardinality({g[b] : b \in Builtin} \cup {h[b] : b \in Builtin})
             = 2 * Cardinality(Builtin)
        /\ Link({g[b] : b \in Builtin} \cup {h[b] : b \in Builtin},
                [o \in Obj |-> IF \E b \in Builtin : g[b] = o
                               THEN "string" ELSE "cfunction"])
        /\ StoreTexts(g)
  BY DEF RegisterBuildins
<1>2. PICK newKind : newKind = [o \in Obj |-> IF \E b \in Builtin : g[b] = o
                                              THEN "string" ELSE "cfunction"]
  OBVIOUS
<1>3. PICK names, functions : /\ names = {g[b] : b \in Builtin}
                              /\ functions = {h[b] : b \in Builtin}
  OBVIOUS
<1>4. /\ phase = "boot" /\ phase' = "load" /\ UNCHANGED gcVars
      /\ UNCHANGED <<m_frames, m_metas, constTable>>
  BY DEF RegisterBuildins
<1>5. /\ names \cap functions = {}
      /\ \A b, c \in Builtin : g[b] = g[c] => b = c
  <2>1. IsFiniteSet(Builtin)
    BY HeapAssumption
  <2>2. /\ {g[b] : b \in Builtin} \cap {h[b] : b \in Builtin} = {}
        /\ \A b, c \in Builtin : g[b] = g[c] => b = c
    BY <1>1, <2>1, TwoImages, Zenon
  <2> QED
    BY <1>3, <2>2
<1>6. names \subseteq Fresh /\ functions \subseteq Fresh /\ Fresh \subseteq Obj
  BY <1>3 DEF Fresh
<1>7. NewStrings(g) = names
  BY <1>3, <1>6 DEF NewStrings
<1>8. Interning(Builtin, g)
  <2>1. m_strs = {}
    BY <1>4 DEF TablesInv, StackOK
  <2>2. g \in [Builtin -> Obj]
    BY <1>6
  <2> QED
    BY <1>5, <2>1, <2>2 DEF Interning
<1>9. /\ newKind \in [Obj -> {"string", "array", "jsfunction", "cfunction"}]
      /\ \A o \in names : newKind[o] = "string"
      /\ \A o \in functions : newKind[o] # "string"
  BY <1>2, <1>3, <1>5, <1>6
<1>10. Link(NewStrings(g) \cup functions, newKind) /\ StoreTexts(g)
  BY <1>1, <1>2, <1>3, <1>7
<1>11. Builtin \subseteq Text
  BY HeapAssumption
<1>12. Allocates(Builtin, g, functions, newKind)
  BY <1>4, <1>5, <1>6, <1>7, <1>8, <1>9, <1>10, <1>11 DEF Allocates
<1>13. StackOK'
  BY <1>4 DEF TablesInv, StackOK, gcVars
<1> QED
  BY <1>4, <1>12, <1>13, SameRegistered, AllocatesStep

-----------------------------------------------------------------------------
(* Steps of the collector. *)

(* What a step of the collector leaves alone before the sweep. *)
Marks ==
  /\ UNCHANGED <<kind, text, m_head, m_objCount, m_strs, constTable>>
  /\ phase # "sweep" /\ phase' # "sweep"

LEMMA MarksStep ==
  ASSUME TablesInv, IInv', Marks, m_metas' \subseteq m_metas, StackOK', DestroyedOK'
  PROVE  TablesInv'
<1> USE DEF TablesInv, Marks
<1>1. Live' = Live /\ Strings' = Strings /\ Kept' = Kept
  BY SameLive
<1>2. CountOK' /\ InternCanonical' /\ RegisteredOK'
  BY <1>1 DEF CountOK, InternCanonical, RegisteredOK
<1> QED
  BY <1>2

LEMMA CollectGarbageTables ==
  ASSUME TablesInv, IInv', NEW d, CollectGarbage(d) PROVE TablesInv'
<1>1. /\ phase = "run" /\ phase' = "mark" /\ gcSlot' = d /\ Len(m_frames) > 1
      /\ UNCHANGED <<kind, text, m_head, m_objCount, m_strs, constTable, m_metas,
                     m_frames, m_values>>
  BY DEF CollectGarbage, Running, heapVars, rootVars
<1>2. d # None
  <2>1. d \in 1..Len(m_values)
    BY RunningBody DEF CollectGarbage, TablesInv
  <2> QED
    BY <2>1, HeapAssumption
<1>3. StackOK'
  BY <1>1 DEF TablesInv, StackOK
<1>4. DestroyedOK'
  BY <1>1, <1>2 DEF DestroyedOK
<1> QED
  BY <1>1, <1>3, <1>4, MarksStep DEF Marks

(* In the collection of ~JSVM there is nothing to scan. *)
LEMMA MarkStepTables ==
  ASSUME TablesInv, IInv', NEW o, MarkStep(o) PROVE TablesInv'
<1>1. /\ phase = "mark" /\ phase' = "mark" /\ gcSlot' = gcSlot /\ o \in unscans
      /\ UNCHANGED <<heapVars, rootVars>>
  BY DEF MarkStep
<1>2. Marks /\ m_metas' = m_metas
  BY <1>1 DEF Marks, heapVars, rootVars
<1>3. StackOK'
  BY <1>1 DEF TablesInv, StackOK, rootVars
<1>4. gcSlot # None
  BY <1>1 DEF TablesInv, DestroyedOK, Collecting
<1>5. DestroyedOK'
  BY <1>1, <1>4 DEF DestroyedOK
<1> QED
  BY <1>2, <1>3, <1>5, MarksStep

LEMMA UndefinedTables ==
  ASSUME TablesInv, IInv', phase \in {"run", "mark"}, phase' = "undefined",
         UNCHANGED <<heapVars, rootVars, gcVars>>
  PROVE  TablesInv'
<1>1. Marks /\ m_metas' = m_metas
  BY DEF Marks, heapVars, rootVars
<1>2. StackOK'
  BY DEF TablesInv, StackOK, rootVars, gcVars
<1>3. DestroyedOK'
  BY DEF DestroyedOK, Collecting
<1> QED
  BY <1>1, <1>2, <1>3, MarksStep

LEMMA DestroyInstanceTables ==
  ASSUME TablesInv, IInv', DestroyInstance PROVE TablesInv'
<1> USE HeapAssumption
<1>1. /\ phase = "run" /\ phase' = "mark" /\ gcSlot' = None /\ unscans' = {}
      /\ m_frames' = <<>> /\ m_values' = <<>> /\ m_metas' = {}
      /\ m_globals' = [o \in Obj |-> None] /\ mark' = mark
  BY DEF DestroyInstance
<1>2. Marks /\ m_metas' \subseteq m_metas
  BY <1>1 DEF Marks, DestroyInstance, heapVars
<1>3. StackOK'
  BY <1>1 DEF StackOK
<1>4. Roots' = {}
  <2>1. (\A o : o \notin Roots)'
    <3>1. ToSet(m_values)' = {} /\ DOMAIN m_frames' = {}
      BY <1>1 DEF ToSet
    <3>2. None \notin Obj /\ \A o \in Obj : m_globals'[o] = None
      BY <1>1 DEF Value
    <3> QED
      BY <1>1, <3>1, <3>2, ZenonT(60) DEF Roots
  <2> QED
    BY <2>1
<1>5. \A o \in Obj : mark'[o] = "Unaccess"
  BY <1>1 DEF TablesInv, IInv, MarksOK
<1>6. DestroyedOK'
  BY <1>1, <1>4, <1>5 DEF DestroyedOK
<1> QED
  BY <1>2, <1>3, <1>6, MarksStep

(* The sweep starts with an empty list, and keeps what is marked. *)
LEMMA BeginSweepTables ==
  ASSUME TablesInv, IInv', BeginSweep PROVE TablesInv'
<1> USE DEF TablesInv
<1>1. /\ phase = "mark" /\ phase' = "sweep" /\ unscans = {} /\ unscans' = {}
      /\ m_head' = {} /\ m_objCount' = 0
      /\ UNCHANGED <<kind, text, m_strs, rootVars, mark, gcSlot>>
  BY DEF BeginSweep
<1>2. Live' = Live /\ Strings' = Strings /\ Roots' = Roots /\ Kept = Live
  BY <1>1, SameLive DEF Roots, rootVars, Kept
<1>3. CountOK'
  BY <1>1, FS_EmptySet DEF CountOK
<1>4. InternCanonical'
  BY <1>1, <1>2 DEF InternCanonical
<1>5. StackOK'
  BY <1>1 DEF StackOK, rootVars
<1>6. DestroyedOK'
  BY <1>1, <1>2 DEF DestroyedOK, Collecting, rootVars
<1>7. ASSUME NEW f \in m_metas', NEW o \in constTable'[f] PROVE o \in Kept'
  <2>1. o \in Obj
    BY <1>1, <1>7 DEF rootVars, IInv, TypeOK, Meta
  <2>2. o \in Roots'
    BY <1>7, <2>1 DEF Roots
  <2> QED
    BY <1>1, <2>2 DEF IInv, MarksOK
<1>8. RegisteredOK'
  BY <1>7 DEF RegisteredOK
<1> QED
  BY <1>3, <1>4, <1>5, <1>6, <1>8

(* Freeing an object: it was no root, and its text goes with it. *)
LEMMA SweepTables ==
  ASSUME TablesInv, IInv', NEW o, Sweep(o) PROVE TablesInv'
<1> USE DEF TablesInv
<1>1. /\ phase = "sweep" /\ phase' = "sweep" /\ o \in oldHead /\ mark[o] = "Unaccess"
      /\ kind' = [kind EXCEPT ![o] = "freed"] /\ text' = [text EXCEPT ![o] = None]
      /\ UNCHANGED <<m_head, m_objCount, m_strs, rootVars, mark, unscans, gcSlot>>
  BY DEF Sweep
<1>2. o \in Live /\ o \in Obj /\ o \notin m_head /\ o \notin Kept
  BY <1>1 DEF IInv, ListOK, Kept, Live
<1>3. \A p \in Obj : /\ kind'[p] = IF p = o THEN "freed" ELSE kind[p]
                     /\ text'[p] = IF p = o THEN None ELSE text[p]
  BY <1>1 DEF IInv, TypeOK
<1>4. Live' = Live \ {o} /\ Live \subseteq Obj
  BY <1>2, <1>3 DEF Live, Freed, Fresh
<1>5. Strings' = Strings \ {o} /\ Roots' = Roots
  BY <1>1, <1>3, <1>4 DEF Strings, Roots, rootVars
<1>6. Kept' = Kept
  BY <1>1, <1>2, <1>4 DEF Kept
<1>7. InternCanonical'
  <2>1. \A p \in Strings' : p \in Strings /\ text'[p] = text[p]
    BY <1>3, <1>4, <1>5 DEF Strings
  <2> QED
    BY <1>1, <1>4, <1>5, <2>1 DEF InternCanonical
<1>8. CountOK' /\ RegisteredOK'
  BY <1>1, <1>6 DEF CountOK, RegisteredOK, rootVars
<1>9. StackOK'
  BY <1>1 DEF StackOK, rootVars
<1>10. DestroyedOK'
  BY <1>1, <1>5 DEF DestroyedOK, Collecting, rootVars
<1> QED
  BY <1>7, <1>8, <1>9, <1>10

(* Keeping an object: the collection of ~JSVM marked none. *)
LEMMA KeepTables ==
  ASSUME TablesInv, IInv', NEW o, Keep(o) PROVE TablesInv'
<1> USE DEF TablesInv
<1>1. /\ phase = "sweep" /\ phase' = "sweep" /\ o \in oldHead /\ mark[o] = "Scan"
      /\ mark' = [mark EXCEPT ![o] = "Unaccess"]
      /\ m_head' = m_head \cup {o} /\ m_objCount' = m_objCount + 1
      /\ UNCHANGED <<kind, text, m_strs, rootVars, unscans, gcSlot>>
  BY DEF Keep
<1>2. o \in Live /\ o \in Obj /\ o \notin m_head /\ m_head \subseteq Obj
  BY <1>1 DEF IInv, TypeOK, ListOK, Live
<1>3. \A p \in Obj : mark'[p] = IF p = o THEN "Unaccess" ELSE mark[p]
  BY <1>1 DEF IInv, TypeOK
<1>4. Live' = Live /\ Strings' = Strings /\ Live \subseteq Obj
  BY <1>1, SameLive DEF Live
<1>5. Kept' = Kept
  BY <1>1, <1>2, <1>3, <1>4 DEF Kept
<1>6. CountOK'
  <2>1. IsFiniteSet(m_head)
    BY <1>2, ObjectsFinite
  <2>2. Cardinality(m_head \cup {o}) = Cardinality(m_head) + 1
    BY <1>2, <2>1, FS_AddElement
  <2> QED
    BY <1>1, <2>2 DEF CountOK
<1>7. InternCanonical' /\ RegisteredOK'
  BY <1>1, <1>4, <1>5 DEF InternCanonical, RegisteredOK, rootVars
<1>8. StackOK'
  BY <1>1 DEF StackOK, rootVars
<1>9. gcSlot # None
  BY <1>1, <1>2 DEF DestroyedOK, Collecting
<1>10. DestroyedOK'
  BY <1>1, <1>9 DEF DestroyedOK
<1> QED
  BY <1>6, <1>7, <1>8, <1>10

(* The intern table is rebuilt from the strings that were kept. *)
LEMMA FinishGCTables ==
  ASSUME TablesInv, IInv', FinishGC PROVE TablesInv'
<1> USE DEF TablesInv
<1>1. /\ phase = "sweep" /\ phase' = (IF gcSlot = None THEN "exit" ELSE "run")
      /\ oldHead = {} /\ gcSlot' = None
      /\ m_strs' = {o \in m_head : kind[o] = "string"}
      /\ UNCHANGED <<kind, text, m_head, m_objCount, m_frames, m_metas, constTable>>
  BY DEF FinishGC
<1>2. m_head = Live /\ Live' = Live /\ Strings' = Strings
  BY <1>1, SameLive DEF IInv, ListOK
<1>3. Kept = Live /\ Kept' = Live
  BY <1>1, <1>2 DEF Kept
<1>4. InternCanonical'
  BY <1>1, <1>2 DEF InternCanonical, Strings
<1>5. CountOK' /\ RegisteredOK'
  BY <1>1, <1>3 DEF CountOK, RegisteredOK
<1>6. StackOK'
  BY <1>1 DEF StackOK
<1>7. DestroyedOK'
  BY <1>1, <1>2 DEF DestroyedOK, Collecting
<1> QED
  BY <1>4, <1>5, <1>6, <1>7

LEMMA StutterTables ==
  ASSUME TablesInv, IInv', UNCHANGED vars PROVE TablesInv'
<1> USE DEF vars, heapVars, rootVars, gcVars
<1>1. /\ Live' = Live /\ Strings' = Strings /\ Kept' = Kept /\ Roots' = Roots
  BY SameLive DEF Kept, Roots
<1>2. StackOK' /\ DestroyedOK' /\ CountOK'
  BY <1>1 DEF TablesInv, StackOK, DestroyedOK, CountOK, Collecting
<1>3. InternCanonical' /\ RegisteredOK'
  BY <1>1 DEF TablesInv, InternCanonical, RegisteredOK
<1> QED
  BY <1>2, <1>3 DEF TablesInv

-----------------------------------------------------------------------------
(* Every step, and the specification. *)

LEMMA BytecodeTables ==
  ASSUME TablesInv, IInv', Bytecode PROVE TablesInv'
<1>1. CASE \E d \in Locals, v \in Operands : Move(d, v)
  BY <1>1, MoveTables
<1>2. CASE \E d \in Locals, c \in Text : MakeString(d, c)
  BY <1>2, MakeStringTables
<1>3. CASE \E d, src \in Locals, n \in 0..MaxLen : NewArray(d, src, n)
  BY <1>3, NewArrayTables
<1>4. CASE \E d \in Locals, f \in m_metas : NewFunction(d, f)
  BY <1>4, NewFunctionTables
<1>5. CASE \E k \in constTable[Code], v \in Operands : SetGlobal(k, v)
  BY <1>5, SetTables
<1>6. CASE \E d \in Locals, k \in constTable[Code] : GetGlobal(d, k)
  BY <1>6, GetGlobalTables
<1>7. CASE \E d \in Locals, a \in OperandsOf("array"), i \in 1..MaxLen : GetArray(d, a, i)
  BY <1>7, GetArrayTables
<1>8. CASE \E a \in OperandsOf("array"), i \in 1..MaxLen, v \in Operands : SetArray(a, i, v)
  BY <1>8, SetTables
<1>9. CASE \E f \in OperandsOf("jsfunction"), a \in Locals, n \in 0..Len(m_values) :
             Call(f, a, n)
  BY <1>9, CallTables
<1> QED
  BY <1>1, <1>2, <1>3, <1>4, <1>5, <1>6, <1>7, <1>8, <1>9 DEF Bytecode

LEMMA BuiltinTables ==
  ASSUME TablesInv, IInv', BuiltinCall PROVE TablesInv'
<1>1. CASE \E d \in Locals, s \in Script : LoadFile(d, s)
  BY <1>1, LoadFileTables
<1>2. CASE \E d \in Locals, pos \in 1..MaxLen, v \in Operands : ArrayInsert(d, pos, v)
  BY <1>2, ArrayBuiltinTables
<1>3. CASE \E d \in Locals, pos \in 1..MaxLen : ArrayRemove(d, pos)
  BY <1>3, ArrayBuiltinTables
<1>4. CASE \E d \in Locals : CollectGarbage(d)
  BY <1>4, CollectGarbageTables
<1> QED
  BY <1>1, <1>2, <1>3, <1>4 DEF BuiltinCall

LEMMA CollectorTables ==
  ASSUME TablesInv, IInv', CollectorStep PROVE TablesInv'
<1>1. CASE \E o \in unscans : MarkStep(o)
  BY <1>1, MarkStepTables
<1>2. CASE \E o \in unscans : ScanFreed(o)
  <2>1. /\ phase \in {"run", "mark"} /\ phase' = "undefined"
        /\ UNCHANGED <<heapVars, rootVars, gcVars>>
    BY <1>2 DEF ScanFreed
  <2> QED
    BY <2>1, UndefinedTables
<1>3. CASE BeginSweep
  BY <1>3, BeginSweepTables
<1>4. CASE \E o \in oldHead : Sweep(o)
  BY <1>4, SweepTables
<1>5. CASE \E o \in oldHead : Keep(o)
  BY <1>5, KeepTables
<1>6. CASE FinishGC
  BY <1>6, FinishGCTables
<1> QED
  BY <1>1, <1>2, <1>3, <1>4, <1>5, <1>6 DEF CollectorStep

LEMMA NextTables ==
  ASSUME TablesInv, [Next]_vars PROVE TablesInv'
<1>0. IInv'
  BY NextIInv DEF TablesInv
<1>1. CASE RegisterBuildins
  BY <1>0, <1>1, RegisterBuildinsTables
<1>2. CASE RunFile
  BY <1>0, <1>2, RunFileTables
<1>3. CASE Running /\ Bytecode
  BY <1>0, <1>3, BytecodeTables
<1>4. CASE Running /\ BuiltinCall
  BY <1>0, <1>4, BuiltinTables
<1>5. CASE Return
  BY <1>0, <1>5, ReturnTables
<1>6. CASE Throw
  BY <1>0, <1>6, ThrowTables
<1>7. CASE DestroyInstance
  BY <1>0, <1>7, DestroyInstanceTables
<1>8. CASE CollectorStep
  BY <1>0, <1>8, CollectorTables
<1>9. CASE TouchFreed
  <2>1. /\ phase \in {"run", "mark"} /\ phase' = "undefined"
        /\ UNCHANGED <<heapVars, rootVars, gcVars>>
    BY <1>9 DEF TouchFreed, Running
  <2> QED
    BY <1>0, <2>1, UndefinedTables
<1>10. CASE UNCHANGED vars
  BY <1>0, <1>10, StutterTables
<1> QED
  BY <1>1, <1>2, <1>3, <1>4, <1>5, <1>6, <1>7, <1>8, <1>9, <1>10 DEF Next, Terminated

(* The tables of the machine keep in step with the heap whatever the       *)
(* program does.                                                           *)
THEOREM TablesInvariant == Spec => []TablesInv
<1>1. Init => TablesInv
  BY InitTables
<1>2. TablesInv /\ [Next]_vars => TablesInv'
  BY NextTables
<1> QED
  BY <1>1, <1>2, PTL DEF Spec

(* JSStringManager: the intern table holds exactly the strings that exist, *)
(* one for each content, so that comparing strings by address compares     *)
(* their contents, for any program and through any number of collections.  *)
THEOREM Canonical == Spec => []InternCanonical
<1>1. TablesInv => InternCanonical
  BY DEF TablesInv
<1> QED
  BY <1>1, TablesInvariant, PTL

(* GCObjectManager: the list is every object that exists, the count its    *)
(* length, and no mark outlives a collection.                              *)
THEOREM ListTrue == Spec => []ListIsHeap
<1>1. TablesInv => ListIsHeap
  BY DEF TablesInv, IInv, CountOK, ListOK, MarksOK, ListIsHeap
<1> QED
  BY <1>1, TablesInvariant, PTL

(* The assertions of ~JSVM (JSVM.cpp:43) and ~GCObjectManager              *)
(* (GCObject.cpp:10): a script that ends leaves one slot on the stack, and *)
(* the last collection frees every object.                                 *)
THEOREM Shutdown == Spec => []CleanShutdown
<1>1. ASSUME TablesInv, phase = "exit"
      PROVE  Live = {} /\ m_head = {} /\ m_objCount = 0
  <2>1. Live = {} /\ m_head = {}
    BY <1>1 DEF TablesInv, DestroyedOK, IInv, ListOK
  <2> QED
    BY <1>1, <2>1, FS_EmptySet DEF TablesInv, CountOK
<1>2. TablesInv => CleanShutdown
  BY <1>1 DEF TablesInv, StackOK, CleanShutdown
<1> QED
  BY <1>2, TablesInvariant, PTL

(* The constants of a function body are never freed while the machine      *)
(* exists: registering its meta keeps them, in every program, also through *)
(* the calls that are still running.                                       *)
THEOREM BodyConstants == Spec => []BodiesStay
<1>1. ASSUME TablesInv, NEW f \in Func, m_frames # <<>>
      PROVE  constTable[f] \cap Freed = {}
  <2>1. f \in m_metas \/ constTable[f] = {}
    BY <1>1 DEF TablesInv, IInv, ConstsOK
  <2>2. Kept \cap Freed = {}
    BY DEF Kept, Live
  <2> QED
    BY <1>1, <2>1, <2>2 DEF TablesInv, RegisteredOK
<1>2. ASSUME TablesInv, NEW i \in 2..Len(m_frames) PROVE m_frames # <<>>
  BY <1>2 DEF TablesInv, IInv, TypeOK
<1>3. TablesInv => BodiesStay
  BY <1>1, <1>2 DEF BodiesStay
<1> QED
  BY <1>3, TablesInvariant, PTL

-----------------------------------------------------------------------------
(* Programs whose files repeat every string of their top-level code in a   *)
(* function body: nothing dangles, and the heap with its collector         *)
(* implements ManagedHeap.                                                 *)

(* What holds in one state. *)

(* Constants stay while there are frames to use them and while marking;    *)
(* otherwise the machine is gone, and everything with it.                  *)
LEMMA ConstantsKept ==
  ASSUME TablesInv, SharedOK
  PROVE  \/ \A m \in Meta : constTable[m] \subseteq Kept
         \/ m_frames = <<>> /\ Kept = {} /\ Roots = {} /\ phase # "mark"
<1> USE DEF TablesInv, SharedOK
<1>1. CASE m_frames # <<>>
  <2>1. ASSUME NEW f \in Func PROVE constTable[f] \subseteq Kept
    BY <1>1, <2>1 DEF IInv, ConstsOK, RegisteredOK
  <2>2. m_metas \subseteq Func
    BY DEF IInv, TypeOK
  <2>3. ASSUME NEW s \in Script PROVE constTable[s] \subseteq Kept
    BY <1>1, <2>1, <2>2, <2>3
  <2> QED
    BY <2>1, <2>3 DEF Meta
<1>2. CASE phase = "mark"
  BY <1>2 DEF Kept
<1>3. CASE m_frames = <<>> /\ phase \in {"sweep", "exit"}
  <2>1. gcSlot = None
    BY <1>3 DEF StackOK
  <2>2. Roots = {}
    BY <1>3, <2>1 DEF DestroyedOK, Collecting
  <2>3. Kept = {}
    BY <1>3, <2>1 DEF DestroyedOK, Collecting, Kept, Live
  <2> QED
    BY <1>3, <2>2, <2>3
<1> QED
  BY <1>1, <1>2, <1>3

LEMMA KeptExists == Kept \cap Freed = {} /\ Kept \subseteq Live /\ Live \subseteq Obj
  BY DEF Kept, Live

(* A value that may be held is, if an object, one that stays. *)
LEMMA GoodKept ==
  ASSUME TablesInv, SharedOK, m_frames # <<>> \/ phase = "mark",
         NEW v \in Obj, Good(v)
  PROVE  v \in Kept
<1>1. \A m \in Meta : constTable[m] \subseteq Kept
  BY ConstantsKept
<1>2. ScriptConstants \subseteq Kept
  BY <1>1 DEF ScriptConstants, Meta
<1> QED
  BY <1>2 DEF Good

(* Every root and every reference of an object that stays leads to an      *)
(* object that stays.                                                      *)
LEMMA RefsKept ==
  ASSUME TablesInv, SharedOK
  PROVE  /\ Roots \subseteq Kept
         /\ \A p \in Kept : References(p) \subseteq Kept
<1>1. CASE Kept = {} /\ Roots = {}
  BY <1>1
<1>2. CASE /\ m_frames # <<>> \/ phase = "mark"
           /\ \A m \in Meta : constTable[m] \subseteq Kept
  <2>0. IInv
    BY DEF TablesInv
  <2>1. ASSUME NEW o \in Roots PROVE o \in Kept
    <3>1. CASE m_frames # <<>>
      BY <2>0, <2>1, <3>1, GoodKept, RootsGood DEF Roots
    <3>2. CASE m_frames = <<>>
      <4>1. phase = "mark" /\ gcSlot = None
        BY <1>2, <3>2 DEF TablesInv, StackOK
      <4> QED
        BY <2>1, <4>1 DEF TablesInv, DestroyedOK, Collecting
    <3> QED
      BY <3>1, <3>2
  <2>2. ASSUME NEW p \in Kept, NEW o \in References(p) PROVE o \in Kept
    <3>1. CASE kind[p] = "jsfunction"
      <4>1. meta[p] \in Meta
        BY <2>0, <2>2, <3>1, KeptExists DEF IInv, MetaOK
      <4> QED
        BY <1>2, <2>2, <3>1, <4>1 DEF References
    <3>2. CASE kind[p] # "jsfunction"
      <4>1. o \in Children(p)
        BY <2>2, <3>2 DEF References
      <4>2. o \in Obj
        BY <4>1 DEF Children
      <4> QED
        BY <1>2, <2>0, <2>2, <4>1, <4>2, GoodKept, RootsGood
    <3> QED
      BY <3>1, <3>2
  <2> QED
    BY <2>1, <2>2
<1>3. m_frames = <<>> => phase \in {"mark", "sweep", "exit"}
  BY DEF SharedOK
<1>4. m_frames # <<>> => \A m \in Meta : constTable[m] \subseteq Kept
  BY ConstantsKept
<1>5. phase = "mark" => \A m \in Meta : constTable[m] \subseteq Kept
  BY ConstantsKept
<1>6. m_frames = <<>> /\ phase \in {"sweep", "exit"} => Kept = {} /\ Roots = {}
  <2>1. SUFFICES ASSUME m_frames = <<>>, phase \in {"sweep", "exit"}
                 PROVE  Kept = {} /\ Roots = {}
    OBVIOUS
  <2>2. gcSlot = None
    BY <2>1 DEF TablesInv, StackOK
  <2> QED
    BY <2>1, <2>2 DEF TablesInv, DestroyedOK, SharedOK, Collecting, Kept, Live
<1> QED
  BY <1>1, <1>2, <1>3, <1>4, <1>5, <1>6

(* No operand of a running body, no root and no element of an array that   *)
(* is being scanned has been freed.                                        *)
LEMMA NothingDangles ==
  ASSUME TablesInv, SharedOK
  PROVE  /\ ~TouchFreed
         /\ \A o : ~ScanFreed(o)
<1>0. IInv
  BY DEF TablesInv
<1>1. ASSUME TouchFreed PROVE FALSE
  <2>1. Running /\ m_frames # <<>>
    BY <1>0, <1>1, RunningBody DEF TouchFreed
  <2>2. \A v \in Operands : v \in Obj => v \in Kept
    BY <1>0, <2>1, RunningBody, GoodKept
  <2>3. Freed \subseteq Obj
    BY DEF Freed
  <2> QED
    BY <1>1, <2>2, <2>3, RefsKept, KeptExists DEF TouchFreed
<1>2. ASSUME NEW o, ScanFreed(o) PROVE FALSE
  <2>1. phase = "mark" /\ o \in unscans /\ Children(o) \cap Freed # {}
    BY <1>2 DEF ScanFreed
  <2>2. o \in Obj /\ mark[o] = "Unscan"
    BY <1>0, <2>1 DEF IInv, MarksOK
  <2>3. o \in Kept
    BY <1>0, <2>1, <2>2 DEF IInv, MarksOK, Kept
  <2>4. kind[o] = "array"
    BY <2>1 DEF Children
  <2>5. Children(o) = References(o)
    BY <2>4 DEF References
  <2> QED
    BY <2>1, <2>3, <2>5, RefsKept, KeptExists
<1> QED
  BY <1>1, <1>2

-----------------------------------------------------------------------------
(* Every step. *)

(* No step of the running program but loadFile changes a constant table.   *)
LEMMA BytecodeConstants ==
  ASSUME Bytecode PROVE UNCHANGED <<m_metas, constTable, parsed, phase>>
<1>1. CASE \E d \in Locals, v \in Operands : Move(d, v)
  BY <1>1 DEF Move
<1>2. CASE \E d \in Locals, c \in Text : MakeString(d, c)
  BY <1>2 DEF MakeString
<1>3. CASE \E d, src \in Locals, n \in 0..MaxLen : NewArray(d, src, n)
  BY <1>3 DEF NewArray
<1>4. CASE \E d \in Locals, f \in m_metas : NewFunction(d, f)
  BY <1>4 DEF NewFunction
<1>5. CASE \E k \in constTable[Code], v \in Operands : SetGlobal(k, v)
  BY <1>5 DEF SetGlobal
<1>6. CASE \E d \in Locals, k \in constTable[Code] : GetGlobal(d, k)
  BY <1>6 DEF GetGlobal
<1>7. CASE \E d \in Locals, a \in OperandsOf("array"), i \in 1..MaxLen : GetArray(d, a, i)
  BY <1>7 DEF GetArray
<1>8. CASE \E a \in OperandsOf("array"), i \in 1..MaxLen, v \in Operands : SetArray(a, i, v)
  BY <1>8 DEF SetArray, rootVars
<1>9. CASE \E f \in OperandsOf("jsfunction"), a \in Locals, n \in 0..Len(m_values) :
             Call(f, a, n)
  BY <1>9 DEF Call
<1> QED
  BY <1>1, <1>2, <1>3, <1>4, <1>5, <1>6, <1>7, <1>8, <1>9 DEF Bytecode

(* A step that leaves the constant tables alone, between collections. *)
LEMMA SameConstants ==
  ASSUME TablesInv, TablesInv', SharedOK, m_frames # <<>>,
         UNCHANGED <<m_metas, constTable, parsed>>,
         phase' \in {"load", "run", "aborted"}, phase' # "aborted" \/ m_frames' # <<>>
  PROVE  SharedOK'
<1>1. m_frames' # <<>>
  BY DEF TablesInv, IInv, BaseFrame
<1> QED
  BY <1>1 DEF SharedOK

(* A file's own constants are among those of the functions it registers.   *)
LEMMA LoadShared ==
  ASSUME LiteralsShared, TablesInv, TablesInv', SharedOK, m_frames # <<>>, phase' = "run",
         NEW s \in Script, NEW others, NEW g, NEW o, Load(s, others, g, o)
  PROVE  SharedOK'
<1>1. /\ s \notin parsed /\ m_metas' = m_metas \cup FuncsOf[s] /\ parsed' = parsed \cup {s}
      /\ constTable' = [m \in Meta |-> IF m \in {s} \cup FuncsOf[s]
                                       THEN {g[c] : c \in Literals[m]}
                                       ELSE constTable[m]]
  BY DEF Load, ParseProgram
<1>2. /\ s \in Meta /\ FuncsOf[s] \subseteq Func /\ Func \subseteq Meta /\ Script \subseteq Meta
      /\ Func \cap Script = {} /\ m_metas \subseteq Func
      /\ \A t \in Script : t # s => FuncsOf[s] \cap FuncsOf[t] = {}
  BY HeapAssumption DEF Meta, TablesInv, IInv, TypeOK
<1>3. m_metas' \subseteq UNION {FuncsOf[t] : t \in parsed'}
  BY <1>1 DEF SharedOK
<1>4. ASSUME NEW f \in m_metas PROVE f \notin FuncsOf[s]
  <2>1. PICK t \in parsed : f \in FuncsOf[t]
    BY DEF SharedOK
  <2>2. t \in Script /\ t # s
    BY <1>1 DEF TablesInv, IInv, TypeOK
  <2> QED
    BY <1>2, <2>1, <2>2
<1>5. \A f \in m_metas : constTable'[f] = constTable[f]
  BY <1>1, <1>2, <1>4
<1>6. ASSUME NEW t \in Script, NEW c \in constTable'[t]
      PROVE  \E f \in m_metas' : c \in constTable'[f]
  <2>1. CASE t = s
    <3>1. PICK x \in Literals[s] : c = g[x]
      BY <1>1, <1>2, <1>6, <2>1
    <3>2. PICK f \in FuncsOf[s] : x \in Literals[f]
      BY DEF LiteralsShared
    <3>3. constTable'[f] = {g[y] : y \in Literals[f]} /\ f \in m_metas'
      BY <1>1, <1>2, <3>2
    <3> QED
      BY <3>1, <3>2, <3>3
  <2>2. CASE t # s
    <3>1. constTable'[t] = constTable[t]
      BY <1>1, <1>2, <2>2
    <3>2. PICK f \in m_metas : c \in constTable[f]
      BY <1>6, <3>1 DEF SharedOK
    <3> QED
      BY <1>1, <1>5, <3>2
  <2> QED
    BY <2>1, <2>2
<1>7. m_frames' # <<>>
  BY DEF TablesInv, IInv, BaseFrame
<1> QED
  BY <1>3, <1>6, <1>7 DEF SharedOK

LEMMA SharedStep ==
  ASSUME LiteralsShared, TablesInv, TablesInv', SharedOK, [Next]_vars PROVE SharedOK'
<1>0. phase \in {"boot", "load", "run"} => m_frames # <<>>
  BY DEF TablesInv, IInv, BaseFrame
<1>1. CASE RegisterBuildins
  BY <1>0, <1>1, SameConstants DEF RegisterBuildins
<1>2. CASE RunFile
  <2>1. /\ phase = "load" /\ phase' = "run" /\ Main \in Script
        /\ \E g, o : Load(Main, ArgTexts, g, o)
    BY <1>2, HeapAssumption DEF RunFile
  <2> QED
    BY <1>0, <2>1, LoadShared
<1>3. CASE Running /\ Bytecode
  <2>1. UNCHANGED <<m_metas, constTable, parsed, phase>> /\ phase = "run"
    BY <1>3, BytecodeConstants DEF Running
  <2> QED
    BY <1>0, <2>1, SameConstants
<1>4. CASE Running /\ BuiltinCall
  <2>1. CASE \E d \in Locals, s \in Script : LoadFile(d, s)
    <3>1. PICK s \in Script : \E g, o : Load(s, {}, g, o)
      BY <2>1 DEF LoadFile
    <3>2. phase = "run" /\ phase' = "run"
      BY <2>1 DEF LoadFile, Running
    <3> QED
      BY <1>0, <3>1, <3>2, LoadShared
  <2>2. CASE \/ \E d \in Locals, pos \in 1..MaxLen, v \in Operands : ArrayInsert(d, pos, v)
             \/ \E d \in Locals, pos \in 1..MaxLen : ArrayRemove(d, pos)
    <3>1. UNCHANGED <<m_metas, constTable, parsed, phase>> /\ phase = "run"
      BY <2>2 DEF ArrayInsert, ArrayRemove, Running
    <3> QED
      BY <1>0, <3>1, SameConstants
  <2>3. CASE \E d \in Locals : CollectGarbage(d)
    <3>1. /\ phase = "run" /\ phase' = "mark"
          /\ UNCHANGED <<kind, m_frames, m_metas, constTable, parsed>>
      BY <2>3 DEF CollectGarbage, Running, heapVars, rootVars
    <3>2. \A m \in Meta : constTable[m] \subseteq Live
      BY <1>0, <3>1, ConstantsKept, KeptExists
    <3>3. Live' = Live
      BY <3>1, SameLive
    <3> QED
      BY <1>0, <3>1, <3>2, <3>3 DEF SharedOK
  <2> QED
    BY <1>4, <2>1, <2>2, <2>3 DEF BuiltinCall
<1>5. CASE Return
  <2>1. UNCHANGED <<m_metas, constTable, parsed, phase>> /\ phase = "run"
    BY <1>5 DEF Return, Running
  <2> QED
    BY <1>0, <2>1, SameConstants
<1>6. CASE Throw
  <2>1. /\ phase = "run" /\ phase' = "aborted" /\ UNCHANGED <<m_metas, constTable, parsed>>
        /\ Len(m_frames) > 1 /\ m_frames' = SubSeq(m_frames, 1, 1)
    BY <1>6 DEF Throw, Running
  <2>2. m_frames' # <<>>
    BY <2>1 DEF TablesInv, IInv, TypeOK
  <2> QED
    BY <1>0, <2>1, <2>2, SameConstants
<1>7. CASE DestroyInstance
  <2>1. /\ phase = "run" /\ phase' = "mark" /\ m_frames' = <<>> /\ m_metas' = {}
        /\ UNCHANGED <<kind, constTable>>
    BY <1>7 DEF DestroyInstance, heapVars
  <2>2. \A m \in Meta : constTable[m] \subseteq Live
    BY <1>0, <2>1, ConstantsKept, KeptExists
  <2>3. Live' = Live
    BY <2>1, SameLive
  <2> QED
    BY <2>1, <2>2, <2>3 DEF SharedOK
<1>8. CASE CollectorStep
  <2>1. CASE \E o \in unscans : MarkStep(o)
    <3>1. phase = "mark" /\ phase' = "mark" /\ UNCHANGED <<kind, rootVars>>
      BY <2>1 DEF MarkStep, heapVars
    <3>2. Live' = Live
      BY <3>1, SameLive
    <3> QED
      BY <3>1, <3>2 DEF SharedOK, rootVars
  <2>2. CASE BeginSweep \/ \E o \in oldHead : Sweep(o) \/ Keep(o)
    <3>1. phase \in {"mark", "sweep"} /\ phase' = "sweep" /\ UNCHANGED rootVars
      BY <2>2 DEF BeginSweep, Sweep, Keep
    <3> QED
      BY <3>1 DEF SharedOK, rootVars
  <2>3. CASE FinishGC
    <3>1. /\ phase = "sweep" /\ phase' = IF gcSlot = None THEN "exit" ELSE "run"
          /\ m_values' = IF gcSlot = None THEN m_values ELSE [m_values EXCEPT ![gcSlot] = Num]
          /\ UNCHANGED <<m_globals, m_frames, m_metas, constTable, parsed>>
      BY <2>3 DEF FinishGC
    <3>2. CASE gcSlot # None
      <4>1. m_frames # <<>>
        BY <3>2 DEF TablesInv, IInv, BaseFrame
      <4> QED
        BY <3>1, <3>2, <4>1 DEF SharedOK
    <3>3. CASE gcSlot = None
      <4>1. Roots = {} /\ Roots' = Roots
        BY <3>1, <3>3 DEF TablesInv, DestroyedOK, Collecting, Roots
      <4> QED
        BY <3>1, <3>3, <4>1 DEF SharedOK
    <3> QED
      BY <3>2, <3>3
  <2> QED
    BY <1>8, <2>1, <2>2, <2>3, NothingDangles DEF CollectorStep
<1>9. CASE TouchFreed
  BY <1>9, NothingDangles
<1>10. CASE UNCHANGED vars
  <2>1. Live' = Live /\ Roots' = Roots
    BY <1>10, SameLive DEF vars, heapVars, rootVars, Roots
  <2> QED
    BY <1>10, <2>1 DEF SharedOK, vars, rootVars
<1> QED
  BY <1>1, <1>2, <1>3, <1>4, <1>5, <1>6, <1>7, <1>8, <1>9, <1>10 DEF Next, Terminated

-----------------------------------------------------------------------------
(* What is marked is reachable. *)

LEMMA ReachableRoot ==
  ASSUME NEW o \in Roots PROVE o \in Managed!Reachable
<1>1. o \in Obj
  BY DEF Roots
<1> QED
  BY <1>1 DEF Managed!Reachable, Managed!Closed

LEMMA ReachableStep ==
  ASSUME NEW p \in Managed!Reachable, NEW c \in Refs[p], c \in Obj
  PROVE  c \in Managed!Reachable
<1>1. ASSUME NEW S \in SUBSET Obj, Managed!Closed(S) PROVE c \in S
  <2>1. p \in S
    BY <1>1 DEF Managed!Reachable
  <2> QED
    BY <1>1, <2>1 DEF Managed!Closed
<1> QED
  BY <1>1 DEF Managed!Reachable

LEMMA SameReachable ==
  ASSUME UNCHANGED <<phase, heapVars, rootVars>>, phase # "sweep"
  PROVE  Managed!Reachable' = Managed!Reachable
<1>1. Roots' = Roots
  BY DEF rootVars, Roots
<1>2. Kept' = Kept
  BY DEF heapVars, Kept, Live, Fresh, Freed
<1>3. Refs' = Refs
  BY <1>2 DEF Refs, References, Children, heapVars, rootVars
<1> QED
  BY <1>1, <1>3 DEF Managed!Reachable, Managed!Closed

LEMMA MarkStepReachable ==
  ASSUME TablesInv, MarkedReachable, NEW o \in unscans, MarkStep(o)
  PROVE  MarkedReachable'
<1>1. /\ phase = "mark" /\ UNCHANGED <<heapVars, rootVars, phase>>
      /\ mark' = [p \in Obj |-> IF p = o THEN "Scan"
                                ELSE IF p \in {c \in Children(o) : mark[c] = "Unaccess"}
                                THEN "Unscan" ELSE mark[p]]
  BY DEF MarkStep
<1>2. Managed!Reachable' = Managed!Reachable
  BY <1>1, SameReachable
<1>3. o \in Obj /\ mark[o] = "Unscan" /\ o \in Live
  BY <1>1 DEF TablesInv, IInv, MarksOK
<1>4. o \in Managed!Reachable /\ o \in Kept
  BY <1>1, <1>3 DEF MarkedReachable, Kept
<1>5. ASSUME NEW c \in Children(o) PROVE c \in Managed!Reachable
  <2>1. kind[o] = "array" /\ c \in Obj
    BY <1>5 DEF Children
  <2>2. c \in Refs[o]
    BY <1>3, <1>4, <1>5, <2>1 DEF Refs, References
  <2> QED
    BY <1>4, <2>1, <2>2, ReachableStep
<1>6. ASSUME NEW p \in Obj, mark'[p] # "Unaccess" PROVE p \in Managed!Reachable
  <2>1. p = o \/ p \in Children(o) \/ mark[p] # "Unaccess"
    BY <1>1, <1>6
  <2> QED
    BY <1>1, <1>4, <1>5, <2>1 DEF MarkedReachable
<1> QED
  BY <1>2, <1>6 DEF MarkedReachable

LEMMA MarkedStep ==
  ASSUME TablesInv, TablesInv', SharedOK, MarkedReachable, [Next]_vars
  PROVE  MarkedReachable'
<1>1. CASE phase' # "mark"
  BY <1>1 DEF MarkedReachable
<1>2. CASE \E o \in unscans : MarkStep(o)
  BY <1>2, MarkStepReachable
<1>3. CASE \E d \in Locals : CollectGarbage(d)
  <2>1. /\ phase = "run" /\ phase' = "mark" /\ UNCHANGED rootVars
        /\ mark' = [o \in Obj |-> IF o \in Roots THEN "Unscan" ELSE mark[o]]
    BY <1>3 DEF CollectGarbage, Running
  <2>2. Roots' = Roots
    BY <2>1 DEF Roots, rootVars
  <2>3. \A o \in Obj : mark[o] = "Unaccess"
    BY <2>1 DEF TablesInv, IInv, MarksOK
  <2>4. ASSUME NEW o \in Roots' PROVE o \in Managed!Reachable'
    <3>1. o \in Obj
      BY <2>2, <2>4 DEF Roots
    <3> QED
      BY <2>4, <3>1 DEF Managed!Reachable, Managed!Closed
  <2> QED
    BY <2>1, <2>2, <2>3, <2>4 DEF MarkedReachable
<1>4. CASE DestroyInstance
  <2>1. phase' = "mark" /\ gcSlot' = None
    BY <1>4 DEF DestroyInstance
  <2>2. \A o \in Obj : mark'[o] = "Unaccess"
    BY <2>1 DEF TablesInv, DestroyedOK, Collecting
  <2> QED
    BY <2>2 DEF MarkedReachable
<1>5. CASE UNCHANGED vars /\ phase = "mark"
  <2>1. Managed!Reachable' = Managed!Reachable
    BY <1>5, SameReachable DEF vars
  <2> QED
    BY <1>5, <2>1 DEF MarkedReachable, vars, gcVars
<1>6. CASE phase' = "mark"
  <2>1. phase = "mark" \/ (\E d \in Locals : CollectGarbage(d)) \/ DestroyInstance
    <3>1. RegisterBuildins \/ RunFile => phase' # "mark"
      BY DEF RegisterBuildins, RunFile
    <3>2. Running /\ Bytecode => phase' # "mark"
      BY BytecodeConstants DEF Running
    <3>3. Running /\ BuiltinCall /\ phase' = "mark" => \E d \in Locals : CollectGarbage(d)
      BY DEF BuiltinCall, LoadFile, ArrayInsert, ArrayRemove, Running
    <3>4. Return \/ Throw \/ TouchFreed => phase' # "mark"
      BY DEF Return, Throw, TouchFreed, Running
    <3>5. CollectorStep /\ phase' = "mark" => phase = "mark"
      BY DEF CollectorStep, MarkStep, ScanFreed, BeginSweep, Sweep, Keep, FinishGC
    <3>6. Terminated \/ UNCHANGED vars => phase' = phase
      BY DEF Terminated, vars
    <3> QED
      BY <1>6, <3>1, <3>2, <3>3, <3>4, <3>5, <3>6 DEF Next
  <2>2. CASE phase = "mark"
    <3>1. (\E o \in unscans : MarkStep(o)) \/ UNCHANGED vars
      <4>1. CASE CollectorStep
        BY <1>6, <2>2, <4>1, NothingDangles
        DEF CollectorStep, BeginSweep, Sweep, Keep, FinishGC
      <4>2. CASE Next /\ ~CollectorStep
        BY <2>2, <4>2 DEF Next, RegisterBuildins, RunFile, Running, Return, Throw,
                          DestroyInstance, TouchFreed, Terminated
      <4> QED
        BY <4>1, <4>2
    <3> QED
      BY <1>2, <1>5, <2>2, <3>1
  <2> QED
    BY <1>3, <1>4, <2>1, <2>2
<1> QED
  BY <1>1, <1>6

-----------------------------------------------------------------------------
(* The theorems. *)

LEMMA InitShared == ASSUME Init PROVE SharedInv
<1>1. TablesInv
  BY InitTables
<1>2. SharedOK
  BY DEF Init, SharedOK, Meta
<1>3. MarkedReachable
  BY DEF Init, MarkedReachable
<1> QED
  BY <1>1, <1>2, <1>3 DEF SharedInv

(* For programs whose files share their literals with their function       *)
(* bodies (LiteralsShared), the invariant that follows constants and marks *)
(* through every step of the machine and of GCObjectManager.               *)
THEOREM SharedInvariant ==
  ASSUME LiteralsShared PROVE Spec => []SharedInv
<1>1. Init => SharedInv
  BY InitShared
<1>2. TablesInv /\ TablesInv' /\ SharedInv /\ [Next]_vars => SharedInv'
  <2>1. SUFFICES ASSUME TablesInv, TablesInv', SharedInv, [Next]_vars PROVE SharedInv'
    OBVIOUS
  <2>2. SharedOK /\ MarkedReachable
    BY <2>1 DEF SharedInv
  <2>3. SharedOK'
    BY <2>1, <2>2, SharedStep
  <2>4. MarkedReachable'
    BY <2>1, <2>2, MarkedStep
  <2> QED
    BY <2>1, <2>3, <2>4 DEF SharedInv
<1> QED
  BY <1>1, <1>2, TablesInvariant, PTL DEF Spec

(* JSVM.h:17 and JSFunction.h:19: for such programs a function that can be *)
(* called finds every string of its constant table.                        *)
THEOREM ConstantsStay ==
  ASSUME LiteralsShared PROVE Spec => []ConstantsStayLive
<1>1. SharedInv => ConstantsStayLive
  <2>1. SUFFICES ASSUME TablesInv, SharedOK,
                        NEW i \in 2..Len(m_frames)
                 PROVE  constTable[meta[m_frames[i].func]] \cap Freed = {}
    BY DEF SharedInv, ConstantsStayLive
  <2>2. m_frames \in Seq(Frame) /\ i \in 1..Len(m_frames) /\ i # 1 /\ m_frames # <<>>
    BY <2>1 DEF TablesInv, IInv, TypeOK
  <2>3. m_frames[i].func \in Kept /\ kind[m_frames[i].func] = "jsfunction"
    BY <2>1, <2>2 DEF TablesInv, IInv, FramesOK
  <2>4. m_frames[i].func \in Obj
    BY <2>3, KeptExists
  <2>5. meta[m_frames[i].func] \in Meta
    BY <2>1, <2>3, <2>4 DEF TablesInv, IInv, MetaOK
  <2>6. \A m \in Meta : constTable[m] \subseteq Kept
    BY <2>1, <2>2, ConstantsKept
  <2> QED
    BY <2>5, <2>6, KeptExists
<1> QED
  BY <1>1, SharedInvariant, PTL

(* For such programs neither an operand nor a collection ever follows a    *)
(* reference to an object that has been freed.                             *)
THEOREM NoUndefined ==
  ASSUME LiteralsShared PROVE Spec => []NoUndefinedBehaviour
<1>1. SharedInv => NoUndefinedBehaviour
  BY DEF SharedInv, SharedOK, NoUndefinedBehaviour
<1> QED
  BY <1>1, SharedInvariant, PTL

-----------------------------------------------------------------------------
(* The heap implements ManagedHeap. *)

LEMMA InitManaged == ASSUME Init PROVE Managed!Init
<1>1. Live = {} /\ Kept = {}
  BY DEF Init, Live, Kept, Fresh, Freed
<1>2. Roots = {}
  <2>1. SharedInv
    BY InitShared
  <2>2. Roots \subseteq Kept
    BY <2>1, RefsKept DEF SharedInv
  <2> QED
    BY <1>1, <2>2
<1>3. Refs = [o \in Obj |-> {}]
  BY <1>1 DEF Refs
<1> QED
  BY <1>1, <1>2, <1>3 DEF Managed!Init

(* What RefsKept says, as a formula that can be primed. *)
RefsClosed == Roots \subseteq Kept /\ \A p \in Kept : References(p) \subseteq Kept

(* A step that keeps what stays is a Mutate. *)
LEMMA MutateStep ==
  ASSUME RefsClosed', Kept \subseteq Kept' PROVE Managed!Mutate
<1>1. Kept' \subseteq Obj
  BY DEF Kept, Live
<1>2. Refs' = [o \in Obj |-> IF o \in Kept' THEN References(o)' ELSE {}]
  BY DEF Refs
<1>3. Refs' \in [Obj -> SUBSET Kept']
  BY <1>2 DEF RefsClosed
<1>4. \A o \in Obj \ Kept' : Refs'[o] = {}
  BY <1>2
<1> QED
  BY <1>1, <1>3, <1>4 DEF Managed!Mutate, RefsClosed

(* Between collections, allocating keeps what stays. *)
LEMMA LinkKeeps ==
  ASSUME phase # "sweep", phase' # "sweep", NEW new, new \subseteq Fresh,
         \A o \in Obj \ new : kind'[o] = kind[o]
  PROVE  Kept \subseteq Kept'
<1>1. ASSUME NEW o \in Live PROVE o \in Live'
  <2>1. o \in Obj /\ o \notin new
    BY <1>1 DEF Live
  <2>2. kind'[o] = kind[o]
    BY <2>1
  <2> QED
    BY <1>1, <2>2 DEF Live, Fresh, Freed
<1> QED
  BY <1>1 DEF Kept

(* A step of the sweep frees only what is not kept, and keeps the rest. *)
LEMMA SweepKeeps ==
  ASSUME TablesInv, phase = "sweep", \E o \in oldHead : Sweep(o) \/ Keep(o)
  PROVE  Kept \subseteq Kept'
<1>1. PICK o \in oldHead : Sweep(o) \/ Keep(o)
  OBVIOUS
<1>2. o \notin m_head /\ o \in Obj /\ kind \in [Obj -> Kind] /\ phase' = "sweep"
      /\ mark \in [Obj -> {"Unaccess", "Unscan", "Scan"}]
  BY <1>1 DEF TablesInv, IInv, ListOK, TypeOK, Live, Sweep, Keep
<1>3. ASSUME NEW p \in Kept PROVE p \in Kept'
  <2>1. p \in Obj /\ p \in Live /\ (p \in m_head \/ mark[p] = "Scan")
    BY <1>3 DEF Kept, Live
  <2>2. CASE Sweep(o)
    <3>1. p # o /\ mark' = mark /\ m_head' = m_head
      BY <1>2, <2>1, <2>2 DEF Sweep
    <3>2. kind'[p] = kind[p]
      BY <1>2, <2>1, <2>2, <3>1 DEF Sweep
    <3> QED
      BY <1>2, <2>1, <3>1, <3>2 DEF Kept, Live, Fresh, Freed
  <2>3. CASE Keep(o)
    <3>1. /\ kind' = kind /\ m_head' = m_head \cup {o}
          /\ mark'[p] = IF p = o THEN "Unaccess" ELSE mark[p]
      BY <1>2, <2>1, <2>3 DEF Keep
    <3> QED
      BY <1>2, <2>1, <3>1 DEF Kept, Live, Fresh, Freed
  <2> QED
    BY <1>1, <2>2, <2>3
<1> QED
  BY <1>3

LEMMA FinishKeeps ==
  ASSUME FinishGC PROVE Kept \subseteq Kept'
<1>1. UNCHANGED kind /\ phase' # "sweep"
  BY DEF FinishGC
<1> QED
  BY <1>1 DEF Kept, Live, Fresh, Freed

(* Every step but the end of marking keeps what stays. *)
LEMMA ProgramKeeps ==
  ASSUME TablesInv, SharedOK, [Next]_vars, ~BeginSweep
  PROVE  Kept \subseteq Kept'
<1>1. CASE RegisterBuildins
  <2>1. PICK new : NextFresh(new) /\ \E k : Link(new, k)
    BY <1>1 DEF RegisterBuildins
  <2>2. new \subseteq Fresh /\ \A o \in Obj \ new : kind'[o] = kind[o]
    BY <2>1 DEF NextFresh, Link
  <2> QED
    BY <1>1, <2>2, LinkKeeps DEF RegisterBuildins
<1>2. ASSUME NEW s, NEW others, NEW g, NEW o, Load(s, others, g, o),
             phase # "sweep", phase' # "sweep"
      PROVE  Kept \subseteq Kept'
  <2>1. PICK new : NextFresh(new) /\ \E k : Link(new, k)
    BY <1>2 DEF Load
  <2>2. new \subseteq Fresh /\ \A p \in Obj \ new : kind'[p] = kind[p]
    BY <2>1 DEF NextFresh, Link
  <2> QED
    BY <1>2, <2>2, LinkKeeps
<1>3. CASE RunFile
  BY <1>2, <1>3 DEF RunFile
<1>4. ASSUME phase # "sweep", phase' # "sweep", UNCHANGED kind PROVE Kept \subseteq Kept'
  BY <1>4 DEF Kept, Live, Fresh, Freed
<1>5. CASE Running /\ Bytecode
  <2>1. phase # "sweep" /\ phase' # "sweep"
    BY <1>5, BytecodeConstants DEF Running
  <2>2. CASE \/ \E d \in Locals, c \in Text : MakeString(d, c)
             \/ \E d, src \in Locals, n \in 0..MaxLen : NewArray(d, src, n)
             \/ \E d \in Locals, f \in m_metas : NewFunction(d, f)
    <3>1. PICK new : NextFresh(new) /\ \E k : Link(new, k)
      BY <2>2 DEF MakeString, NewArray, NewFunction
    <3>2. new \subseteq Fresh /\ \A o \in Obj \ new : kind'[o] = kind[o]
      BY <3>1 DEF NextFresh, Link
    <3> QED
      BY <2>1, <3>2, LinkKeeps
  <2>3. CASE \/ \E d \in Locals, v \in Operands : Move(d, v)
             \/ \E k \in constTable[Code], v \in Operands : SetGlobal(k, v)
             \/ \E d \in Locals, k \in constTable[Code] : GetGlobal(d, k)
             \/ \E d \in Locals, a \in OperandsOf("array"), i \in 1..MaxLen : GetArray(d, a, i)
             \/ \E a \in OperandsOf("array"), i \in 1..MaxLen, v \in Operands : SetArray(a, i, v)
             \/ \E f \in OperandsOf("jsfunction"), a \in Locals, n \in 0..Len(m_values) :
                  Call(f, a, n)
    <3>1. UNCHANGED kind
      BY <2>3 DEF Move, SetGlobal, GetGlobal, GetArray, SetArray, Call, heapVars
    <3> QED
      BY <1>4, <2>1, <3>1
  <2> QED
    BY <1>5, <2>2, <2>3 DEF Bytecode
<1>6. CASE Running /\ BuiltinCall
  <2>1. CASE \E d \in Locals, s \in Script : LoadFile(d, s)
    BY <1>2, <1>6, <2>1 DEF LoadFile, Running
  <2>2. CASE ~ \E d \in Locals, s \in Script : LoadFile(d, s)
    <3>1. UNCHANGED kind /\ phase # "sweep" /\ phase' # "sweep"
      BY <1>6, <2>2 DEF BuiltinCall, ArrayInsert, ArrayRemove, CollectGarbage, Running, heapVars
    <3> QED
      BY <1>4, <3>1
  <2> QED
    BY <2>1, <2>2
<1>7. CASE Return \/ Throw \/ DestroyInstance
  <2>1. UNCHANGED kind /\ phase # "sweep" /\ phase' # "sweep"
    BY <1>7 DEF Return, Throw, DestroyInstance, Running, heapVars
  <2> QED
    BY <1>4, <2>1
<1>8. CASE CollectorStep
  <2>1. CASE \E o \in unscans : MarkStep(o)
    <3>1. UNCHANGED kind /\ phase # "sweep" /\ phase' # "sweep"
      BY <2>1 DEF MarkStep, heapVars
    <3> QED
      BY <1>4, <3>1
  <2>2. CASE \E o \in oldHead : Sweep(o) \/ Keep(o)
    <3>1. phase = "sweep"
      BY <2>2 DEF Sweep, Keep
    <3> QED
      BY <2>2, <3>1, SweepKeeps
  <2> QED
    BY <1>8, <2>1, <2>2, NothingDangles, FinishKeeps DEF CollectorStep
<1>9. CASE TouchFreed
  BY <1>9, NothingDangles
<1>10. CASE UNCHANGED vars
  BY <1>10 DEF vars, heapVars, gcVars, Kept, Live, Fresh, Freed
<1> QED
  BY <1>1, <1>3, <1>5, <1>6, <1>7, <1>8, <1>9, <1>10 DEF Next, Terminated

(* When marking ends, an object is marked exactly if it is reachable. *)
LEMMA MarkedIsReachable ==
  ASSUME SharedInv, phase = "mark", unscans = {}
  PROVE  {o \in Live : mark[o] = "Scan"} = Live \cap Managed!Reachable
<1> DEFINE M == {o \in Obj : mark[o] # "Unaccess"}
<1>0. TablesInv /\ SharedOK /\ MarkedReachable
  BY DEF SharedInv
<1>1. \A o \in M : mark[o] = "Scan" /\ o \in Live
  BY <1>0 DEF TablesInv, IInv, MarksOK, TypeOK
<1>2. Kept = Live
  BY DEF Kept
<1>3. Roots \subseteq M
  BY <1>0 DEF TablesInv, IInv, MarksOK, Roots
<1>4. ASSUME NEW o \in M, NEW c \in Refs[o] PROVE c \in M
  <2>1. o \in Obj /\ o \in Kept /\ mark[o] = "Scan"
    BY <1>1, <1>2, <1>4
  <2>2. c \in References(o)
    BY <1>4, <2>1 DEF Refs
  <2>3. CASE kind[o] = "jsfunction"
    <3>1. meta[o] \in Meta /\ c \in constTable[meta[o]]
      BY <1>0, <2>1, <2>2, <2>3 DEF References, TablesInv, IInv, MetaOK
    <3>2. m_frames # <<>>
      <4>1. gcSlot # None
        BY <1>0, <2>1 DEF TablesInv, DestroyedOK, Collecting
      <4> QED
        BY <1>0, <4>1 DEF TablesInv, IInv, BaseFrame
    <3>3. \E f \in m_metas : c \in constTable[f]
      BY <1>0, <3>1, <3>2 DEF Meta, SharedOK, TablesInv, IInv, ConstsOK
    <3>4. c \in Obj
      BY <1>0, <3>1 DEF TablesInv, IInv, TypeOK
    <3>5. c \in Roots
      BY <3>3, <3>4 DEF Roots
    <3> QED
      BY <1>3, <3>5
  <2>4. CASE kind[o] # "jsfunction"
    <3>1. c \in Children(o) /\ c \in Obj
      BY <2>2, <2>4 DEF References, Children
    <3> QED
      BY <1>0, <2>1, <3>1 DEF TablesInv, IInv, MarksOK
  <2> QED
    BY <2>3, <2>4
<1>5. Managed!Closed(M)
  BY <1>3, <1>4 DEF Managed!Closed
<1>6. Managed!Reachable \subseteq M
  BY <1>5 DEF Managed!Reachable
<1>7. \A o \in Live : mark[o] = "Scan" => o \in Managed!Reachable
  BY <1>0 DEF MarkedReachable, Live
<1> QED
  BY <1>1, <1>6, <1>7

LEMMA CollectStep ==
  ASSUME SharedInv, BeginSweep PROVE Managed!Collect
<1>1. /\ phase = "mark" /\ unscans = {} /\ phase' = "sweep" /\ m_head' = {}
      /\ UNCHANGED <<kind, elems, meta, mark, rootVars>>
  BY DEF BeginSweep
<1>2. Kept = Live /\ Live' = Live
  BY <1>1, SameLive DEF Kept
<1>3. Kept' = {o \in Live : mark[o] = "Scan"}
  BY <1>1, <1>2 DEF Kept
<1>4. Kept' = Kept \cap Managed!Reachable
  BY <1>1, <1>2, <1>3, MarkedIsReachable
<1>5. \A o : References(o)' = References(o)
  BY <1>1 DEF References, Children, rootVars
<1>6. Refs' = [o \in Obj |-> IF o \in Kept' THEN Refs[o] ELSE {}]
  BY <1>4, <1>5 DEF Refs
<1>7. Roots' = Roots
  BY <1>1 DEF Roots, rootVars
<1> QED
  BY <1>4, <1>6, <1>7 DEF Managed!Collect

(* The machine and its mark-and-sweep collector implement ManagedHeap: the *)
(* end of marking is a Collect, which removes exactly the objects that no  *)
(* root reaches; every other step, of the program or of the sweep, is a    *)
(* Mutate, which loses no object and leaves no reference without one.      *)
THEOREM Implements ==
  ASSUME LiteralsShared PROVE Spec => ImplementsManagedHeap
<1>1. Init => Managed!Init
  BY InitManaged
<1>2. SharedInv => RefsClosed
  BY RefsKept DEF SharedInv, RefsClosed
<1>3. SharedInv /\ RefsClosed' /\ [Next]_vars => [Managed!Next]_(Managed!vars)
  <2>1. SUFFICES ASSUME SharedInv, RefsClosed', [Next]_vars
                 PROVE  Managed!Next
    OBVIOUS
  <2>2. CASE BeginSweep
    BY <2>1, <2>2, CollectStep DEF Managed!Next
  <2>3. CASE ~BeginSweep
    <3>1. TablesInv /\ SharedOK
      BY <2>1 DEF SharedInv
    <3>2. Kept \subseteq Kept'
      BY <2>1, <2>3, <3>1, ProgramKeeps
    <3> QED
      BY <2>1, <3>2, MutateStep DEF Managed!Next
  <2> QED
    BY <2>2, <2>3
<1> QED
  BY <1>1, <1>2, <1>3, SharedInvariant, PTL DEF Spec, ImplementsManagedHeap, Managed!Spec
=============================================================================
