-------------------------------- MODULE Heap --------------------------------
(***************************************************************************)
(* The JJS virtual machine as the garbage collector sees it: the objects   *)
(* of runtime/GCObject, JSString, JSArray and JSFunction, the places of    *)
(* runtime/JSVM that hold references to them (globals, value stack, frame  *)
(* stack, registered metas), the operations of the interpreter and of the  *)
(* builtins that create, copy and drop references, and the mark-and-sweep  *)
(* collector, one object at a time.                                        *)
(*                                                                         *)
(* Objects are numbered in the order they are allocated and a number is    *)
(* never used twice, so a reference to a freed object stays recognisable.  *)
(* Numbers, booleans and every other value the collector ignores are the   *)
(* single value Num.  The texts of strings are members of a small set.     *)
(***************************************************************************)
EXTENDS Integers, SequencesExt

CONSTANTS
  NObj,        \* bound: how many objects may ever be allocated
  Text,        \* contents of strings
  Builtin,     \* names registered by registerBuildins
  Func,        \* metas of function bodies
  Script,      \* files; each is loaded at most once
  Main,        \* the file named on the command line
  Argv,        \* the remaining words of the command line
  FuncsOf,     \* the function bodies a file contains
  Literals,    \* strings and global names in a body's constant table
  LocalSpace,  \* FuncMeta::getLocalSpace
  ArgCount,    \* FuncMeta::argCount
  MaxLen,      \* bound: elements of an array
  MaxDepth,    \* bound: frames
  Nil, Num, None

Obj   == 1..NObj
Meta  == Func \cup Script
Value == Obj \cup {Nil, Num}

ASSUME HeapAssumption ==
  /\ NObj \in Nat
  /\ Main \in Script
  /\ Func \cap Script = {}
  /\ Builtin \subseteq Text /\ IsFiniteSet(Builtin)
  /\ Argv \in Seq(Text)
  /\ FuncsOf \in [Script -> SUBSET Func]
  /\ \A s, t \in Script : s # t => FuncsOf[s] \cap FuncsOf[t] = {}
  /\ Literals \in [Meta -> SUBSET Text]
  /\ LocalSpace \in [Meta -> Nat]
  /\ ArgCount \in [Meta -> Nat]
  /\ MaxLen \in Nat
  /\ MaxDepth \in Nat
  /\ Nil \notin Obj /\ Num \notin Obj /\ None \notin Value
  /\ None \notin Text /\ None \notin Meta /\ None \notin Nat

VARIABLES
  kind,        \* what each object is; "fresh" before, "freed" after its life
  text,        \* JSString::buf
  elems,       \* JSArray::array
  meta,        \* JSFunction::meta
  mark,        \* GCObject::state
  m_head,      \* the manager's list of objects, as a set
  m_objCount,
  m_strs,      \* JSStringManager's intern table
  m_globals,   \* key object -> value, None where there is no entry
  m_values,    \* the value stack
  m_frames,    \* the frame stack
  m_metas,     \* metas registered with the VM
  constTable,  \* the strings of each meta's constant table
  parsed,      \* files loaded so far
  phase,       \* where the single thread is
  unscans,     \* work list of performFullGC
  oldHead,     \* rest of the list the sweep has yet to visit
  gcSlot       \* stack slot that receives collectgarbage's result

heapVars == <<kind, text, elems, meta, m_head, m_objCount, m_strs>>
rootVars == <<m_globals, m_values, m_frames, m_metas, constTable, parsed>>
gcVars   == <<mark, unscans, oldHead, gcSlot>>
vars     == <<heapVars, rootVars, gcVars, phase>>

Kind  == {"fresh", "string", "array", "jsfunction", "cfunction", "freed"}
Phase == {"boot", "load", "run", "mark", "sweep", "exit", "aborted", "undefined"}
Frame == [func : Obj \cup {None}, base : Nat \ {0}, oldStackSize : Nat]

Fresh == {o \in Obj : kind[o] = "fresh"}
Freed == {o \in Obj : kind[o] = "freed"}
Live  == Obj \ (Fresh \cup Freed)

(* The objects of S are the next ones to be allocated. *)
NextFresh(S) == S \subseteq Fresh /\ \A o \in S : \A p \in Fresh \ S : o < p

(* std::vector::resize: cut off, or filled up with NIL values. *)
Resize(s, n) == [i \in 1..n |-> IF i <= Len(s) THEN s[i] ELSE Nil]

Init ==
  /\ kind = [o \in Obj |-> "fresh"]
  /\ text = [o \in Obj |-> None]
  /\ elems = [o \in Obj |-> <<>>]
  /\ meta = [o \in Obj |-> None]
  /\ mark = [o \in Obj |-> "Unaccess"]
  /\ m_head = {} /\ m_objCount = 0
  /\ m_strs = {}
  /\ m_globals = [o \in Obj |-> None]
  /\ m_values = <<Nil>>
  /\ m_frames = <<[func |-> None, base |-> 1, oldStackSize |-> 1]>>
  /\ m_metas = {}
  /\ constTable = [m \in Meta |-> {}]
  /\ parsed = {}
  /\ phase = "boot"
  /\ unscans = {} /\ oldHead = {} /\ gcSlot = None

-----------------------------------------------------------------------------
(* Allocation and interning. *)

(* Mutant of Link: the count is not kept. *)
LinkUncounted(new, newKind) ==
  /\ kind' = [o \in Obj |-> IF o \in new THEN newKind[o] ELSE kind[o]]
  /\ m_head' = m_head \cup new
  /\ UNCHANGED m_objCount

(* New objects of the given kind are linked into the manager's list. *)
Link(new, newKind) ==
  /\ kind' = [o \in Obj |-> IF o \in new THEN newKind[o] ELSE kind[o]]
  /\ m_head' = m_head \cup new
  /\ m_objCount' = m_objCount + Cardinality(new)

(* g maps each content to its string: the interned one, or a new one. *)
Interning(contents, g) ==
  /\ g \in [contents -> Obj]
  /\ \A c \in contents :
       IF \E o \in m_strs : text[o] = c
       THEN g[c] \in m_strs /\ text[g[c]] = c
       ELSE g[c] \in Fresh /\ \A d \in contents : g[d] = g[c] => d = c

NewStrings(g) == {g[c] : c \in DOMAIN g} \cap Fresh

(* Mutant of StoreTexts: new strings are not entered in the table. *)
StoreTextsUnseen(g) ==
  /\ text' = [o \in Obj |-> IF o \in NewStrings(g)
                            THEN CHOOSE c \in DOMAIN g : g[c] = o
                            ELSE text[o]]
  /\ UNCHANGED m_strs

StoreTexts(g) ==
  /\ text' = [o \in Obj |-> IF o \in NewStrings(g)
                            THEN CHOOSE c \in DOMAIN g : g[c] = o
                            ELSE text[o]]
  /\ m_strs' = m_strs \cup NewStrings(g)

LiteralsIn(s) == Literals[s] \cup UNION {Literals[f] : f \in FuncsOf[s]}

(* The parser fills the constant tables of a file and its function bodies, *)
(* and registers the metas of the bodies, but not the file's own.          *)
ParseProgram(s, g) ==
  /\ constTable' = [m \in Meta |-> IF m \in {s} \cup FuncsOf[s]
                                   THEN {g[c] : c \in Literals[m]}
                                   ELSE constTable[m]]
  /\ m_metas' = m_metas \cup FuncsOf[s]
  /\ parsed' = parsed \cup {s}

(* loadFile: the names and literals of the file are interned, the file is  *)
(* parsed, and o becomes the function that runs it.                        *)
Load(s, others, g, o) ==
  /\ s \notin parsed
  /\ Interning(LiteralsIn(s) \cup others, g)
  /\ o \in Fresh \ NewStrings(g)
  /\ NextFresh(NewStrings(g) \cup {o})
  /\ Link(NewStrings(g) \cup {o},
          [p \in Obj |-> IF p = o THEN "jsfunction" ELSE "string"])
  /\ StoreTexts(g)
  /\ meta' = [meta EXCEPT ![o] = s]
  /\ ParseProgram(s, g)
  /\ UNCHANGED elems

-----------------------------------------------------------------------------
(* jjs.cpp: start and end of the program. *)

RegisterBuildins ==
  /\ phase = "boot"
  /\ \E g, h \in [Builtin -> Fresh] :
       LET new == {g[b] : b \in Builtin} \cup {h[b] : b \in Builtin} IN
       /\ Cardinality(new) = 2 * Cardinality(Builtin)
       /\ NextFresh(new)
       /\ Link(new, [o \in Obj |-> IF \E b \in Builtin : g[b] = o
                                   THEN "string" ELSE "cfunction"])
       /\ StoreTexts(g)
       /\ m_globals' = [o \in Obj |-> IF \E b \in Builtin : g[b] = o
                                      THEN h[CHOOSE b \in Builtin : g[b] = o]
                                      ELSE m_globals[o]]
  /\ phase' = "load"
  /\ UNCHANGED <<elems, meta, m_values, m_frames, m_metas, constTable, parsed, gcVars>>

ArgTexts == ToSet(Argv)
NArgs    == IF Argv = <<>> THEN 1 ELSE Len(Argv)

(* runFile and callFromC: the arguments are pushed above the one slot of   *)
(* the base frame, and the window handed to the script begins at that slot *)
(* (JSVM::pushStack returns the back of the vector as it was before).      *)
RunFile ==
  /\ phase = "load"
  /\ \E g \in [LiteralsIn(Main) \cup ArgTexts -> Obj], o \in Fresh :
       /\ Load(Main, ArgTexts, g, o)
       /\ m_frames' = Append(m_frames, [func |-> o, base |-> 1,
                                        oldStackSize |-> 1 + NArgs])
       /\ m_values' = Resize(m_values \o (IF Argv = <<>> THEN <<Nil>>
                                          ELSE [i \in DOMAIN Argv |-> g[Argv[i]]]),
                             LocalSpace[Main])
  /\ phase' = "run"
  /\ UNCHANGED <<m_globals, gcVars>>

Top     == Last(m_frames)
Running == phase = "run" /\ Len(m_frames) > 1
Code    == meta[Top.func]
Locals  == Top.base .. Len(m_values)

(* What an operand of the running body may be. *)
Operands == {m_values[i] : i \in Locals} \cup constTable[Code] \cup {Nil, Num}
OperandsOf(k) == {v \in Operands : v \in Obj /\ kind[v] = k}

Store(d, v) == m_values' = [m_values EXCEPT ![d] = v]

-----------------------------------------------------------------------------
(* interpreter/Stubs.h: the bytecodes. *)

(* Move; also every bytecode and C builtin whose result is a number, a     *)
(* boolean or nil.                                                         *)
Move(d, v) ==
  /\ Running /\ d \in Locals /\ v \in Operands
  /\ Store(d, v)
  /\ UNCHANGED <<heapVars, m_globals, m_frames, m_metas, constTable, parsed, gcVars, phase>>

(* Add on strings; tostring, format, type, readfile and disassemble. *)
MakeString(d, c) ==
  /\ Running /\ d \in Locals
  /\ OperandsOf("string") \cup OperandsOf("cfunction") # {}
  /\ \E g \in [{c} -> Obj] :
       /\ Interning({c}, g)
       /\ NextFresh(NewStrings(g))
       /\ Link(NewStrings(g), [o \in Obj |-> "string"])
       /\ StoreTexts(g)
       /\ Store(d, g[c])
  /\ UNCHANGED <<elems, meta, m_globals, m_frames, m_metas, constTable, parsed, gcVars, phase>>

(* NewArray: a new array with copies of n consecutive locals from src. *)
NewArray(d, src, n) ==
  /\ Running /\ d \in Locals /\ src \in Locals /\ n \in 0..MaxLen
  /\ src + n - 1 <= Len(m_values)
  /\ \E o \in Fresh :
       /\ NextFresh({o})
       /\ Link({o}, [p \in Obj |-> "array"])
       /\ elems' = [elems EXCEPT ![o] = SubSeq(m_values, src, src + n - 1)]
       /\ Store(d, o)
  /\ UNCHANGED <<text, meta, m_strs, m_globals, m_frames, m_metas, constTable, parsed, gcVars, phase>>

NewFunction(d, f) ==
  /\ Running /\ d \in Locals /\ f \in m_metas
  /\ \E o \in Fresh :
       /\ NextFresh({o})
       /\ Link({o}, [p \in Obj |-> "jsfunction"])
       /\ meta' = [meta EXCEPT ![o] = f]
       /\ Store(d, o)
  /\ UNCHANGED <<text, elems, m_strs, m_globals, m_frames, m_metas, constTable, parsed, gcVars, phase>>

(* Assigning nil erases the entry. *)
SetGlobal(k, v) ==
  /\ Running /\ k \in constTable[Code] /\ v \in Operands
  /\ m_globals' = [m_globals EXCEPT ![k] = IF v = Nil THEN None ELSE v]
  /\ UNCHANGED <<heapVars, m_values, m_frames, m_metas, constTable, parsed, gcVars, phase>>

(* Mutant of GetGlobal: an undefined global yields whatever find() gives. *)
GetGlobalUnchecked(d, k) ==
  /\ Running /\ d \in Locals /\ k \in constTable[Code]
  /\ Store(d, m_globals[k])
  /\ UNCHANGED <<heapVars, m_globals, m_frames, m_metas, constTable, parsed, gcVars, phase>>

(* Reading an undefined global creates an entry that holds nil. *)
GetGlobal(d, k) ==
  /\ Running /\ d \in Locals /\ k \in constTable[Code]
  /\ m_globals' = [m_globals EXCEPT ![k] = IF @ = None THEN Nil ELSE @]
  /\ Store(d, m_globals'[k])
  /\ UNCHANGED <<heapVars, m_frames, m_metas, constTable, parsed, gcVars, phase>>

GetArray(d, a, i) ==
  /\ Running /\ d \in Locals /\ a \in OperandsOf("array")
  /\ i \in DOMAIN elems[a]
  /\ Store(d, elems[a][i])
  /\ UNCHANGED <<heapVars, m_globals, m_frames, m_metas, constTable, parsed, gcVars, phase>>

SetArray(a, i, v) ==
  /\ Running /\ a \in OperandsOf("array") /\ v \in Operands
  /\ i \in DOMAIN elems[a]
  /\ elems' = [elems EXCEPT ![a][i] = v]
  /\ UNCHANGED <<kind, text, meta, m_head, m_objCount, m_strs, rootVars, gcVars, phase>>

(* Call of a bytecode function: missing arguments become nil, the window   *)
(* of the callee begins at its first argument.                             *)
Call(f, a, n) ==
  /\ Running /\ Len(m_frames) < MaxDepth
  /\ f \in OperandsOf("jsfunction") /\ a \in Locals
  /\ n \in 0..(Len(m_values) - a + 1)
  /\ m_values' = Resize([i \in DOMAIN m_values |->
                           IF i \in (a + n)..(a + ArgCount[meta[f]] - 1)
                           THEN Nil ELSE m_values[i]],
                        a - 1 + LocalSpace[meta[f]])
  /\ m_frames' = Append(m_frames, [func |-> f, base |-> a,
                                   oldStackSize |-> Len(m_values)])
  /\ UNCHANGED <<heapVars, m_globals, m_metas, constTable, parsed, gcVars, phase>>

(* Mutant of Return: the call from C leaves its arguments on the stack. *)
ReturnUnpopped ==
  /\ Running
  /\ m_values' = Resize(m_values, Top.oldStackSize)
  /\ m_frames' = Front(m_frames)
  /\ UNCHANGED <<heapVars, m_globals, m_metas, constTable, parsed, gcVars, phase>>

(* The end of a body pops its frame; the script's frame also ends the call *)
(* from C, which pops the arguments.                                       *)
Return ==
  /\ Running
  /\ m_values' = Resize(m_values, IF Len(m_frames) = 2
                                  THEN Top.oldStackSize - NArgs
                                  ELSE Top.oldStackSize)
  /\ m_frames' = Front(m_frames)
  /\ UNCHANGED <<heapVars, m_globals, m_metas, constTable, parsed, gcVars, phase>>

(* A failed ASSERT throws: execute pops the frames of the script, nobody   *)
(* catches below main, and the VM is never destroyed.                      *)
Throw ==
  /\ Running
  /\ m_values' = Resize(m_values, m_frames[2].oldStackSize)
  /\ m_frames' = SubSeq(m_frames, 1, 1)
  /\ phase' = "aborted"
  /\ UNCHANGED <<heapVars, m_globals, m_metas, constTable, parsed, gcVars>>

-----------------------------------------------------------------------------
(* jjs.cpp: the builtins that touch the heap.  Which of the C functions an *)
(* object wraps is left open: any of them may be the one called.           *)

LoadFile(d, s) ==
  /\ Running /\ OperandsOf("cfunction") # {} /\ d \in Locals
  /\ m_values[d] \in OperandsOf("string")
  /\ \E g \in [LiteralsIn(s) -> Obj], o \in Fresh :
       Load(s, {}, g, o) /\ Store(d, o)
  /\ UNCHANGED <<m_globals, m_frames, gcVars, phase>>

ArrayInsert(d, pos, v) ==
  /\ Running /\ OperandsOf("cfunction") # {} /\ d \in Locals
  /\ m_values[d] \in OperandsOf("array") /\ v \in Operands
  /\ LET a == m_values[d]
         s == elems[a] IN
     /\ Len(s) < MaxLen /\ pos \in 1..(Len(s) + 1)
     /\ elems' = [elems EXCEPT ![a] = InsertAt(s, pos, v)]
  /\ Store(d, Nil)
  /\ UNCHANGED <<kind, text, meta, m_head, m_objCount, m_strs, m_globals, m_frames,
                 m_metas, constTable, parsed, gcVars, phase>>

ArrayRemove(d, pos) ==
  /\ Running /\ OperandsOf("cfunction") # {} /\ d \in Locals
  /\ m_values[d] \in OperandsOf("array")
  /\ LET a == m_values[d]
         s == elems[a] IN
     /\ pos \in DOMAIN s
     /\ elems' = [elems EXCEPT ![a] = RemoveAt(s, pos)]
  /\ Store(d, Nil)
  /\ UNCHANGED <<kind, text, meta, m_head, m_objCount, m_strs, m_globals, m_frames,
                 m_metas, constTable, parsed, gcVars, phase>>

-----------------------------------------------------------------------------
(* GCObject.cpp: the collector. *)

(* Mutants of Roots: the metas, or the values of globals, are forgotten. *)
RootsNoMetas ==
  ( {o \in Obj : m_globals[o] # None} \cup {m_globals[o] : o \in Obj}
    \cup ToSet(m_values) \cup {m_frames[i].func : i \in DOMAIN m_frames} ) \cap Obj

RootsNoGlobalValues ==
  ( {o \in Obj : m_globals[o] # None} \cup ToSet(m_values)
    \cup (UNION {constTable[f] : f \in m_metas})
    \cup {m_frames[i].func : i \in DOMAIN m_frames} ) \cap Obj

(* JSVM::accessGCObjects. *)
Roots ==
  ( {o \in Obj : m_globals[o] # None}
    \cup {m_globals[o] : o \in Obj}
    \cup ToSet(m_values)
    \cup (UNION {constTable[f] : f \in m_metas})
    \cup {m_frames[i].func : i \in DOMAIN m_frames} ) \cap Obj

(* Mutant of Children: arrays are not scanned. *)
ChildrenNone(o) == {}

(* JSArray::accessGCObjects; only arrays are scanned. *)
Children(o) ==
  IF kind[o] = "array" THEN ToSet(elems[o]) \cap Obj ELSE {}

CollectGarbage(d) ==
  /\ Running /\ OperandsOf("cfunction") # {} /\ d \in Locals
  /\ Roots \cap Freed = {}
  /\ unscans' = Roots
  /\ mark' = [o \in Obj |-> IF o \in Roots THEN "Unscan" ELSE mark[o]]
  /\ gcSlot' = d
  /\ phase' = "mark"
  /\ UNCHANGED <<heapVars, rootVars, oldHead>>

(* Mutants of MarkStep: what is found is marked but not put on the work    *)
(* list; or it is put there whatever its mark.                             *)
MarkStepUnlisted(o) ==
  /\ phase = "mark" /\ o \in unscans
  /\ unscans' = unscans \ {o}
  /\ mark' = [p \in Obj |-> IF p = o THEN "Scan"
                            ELSE IF p \in Children(o) /\ mark[p] = "Unaccess"
                            THEN "Unscan" ELSE mark[p]]
  /\ UNCHANGED <<heapVars, rootVars, oldHead, gcSlot, phase>>

MarkStepAgain(o) ==
  /\ phase = "mark" /\ o \in unscans
  /\ unscans' = (unscans \ {o}) \cup Children(o)
  /\ mark' = [p \in Obj |-> IF p \in Children(o) THEN "Unscan"
                            ELSE IF p = o THEN "Scan" ELSE mark[p]]
  /\ UNCHANGED <<heapVars, rootVars, oldHead, gcSlot, phase>>

MarkStep(o) ==
  /\ phase = "mark" /\ o \in unscans
  /\ Children(o) \cap Freed = {}
  /\ LET found == {c \in Children(o) : mark[c] = "Unaccess"} IN
     /\ unscans' = (unscans \ {o}) \cup found
     /\ mark' = [p \in Obj |-> IF p = o THEN "Scan"
                               ELSE IF p \in found THEN "Unscan" ELSE mark[p]]
  /\ UNCHANGED <<heapVars, rootVars, oldHead, gcSlot, phase>>

BeginSweep ==
  /\ phase = "mark" /\ unscans = {}
  /\ oldHead' = m_head
  /\ m_head' = {} /\ m_objCount' = 0
  /\ phase' = "sweep"
  /\ UNCHANGED <<kind, text, elems, meta, m_strs, rootVars, mark, unscans, gcSlot>>

Sweep(o) ==
  /\ phase = "sweep" /\ o \in oldHead /\ mark[o] = "Unaccess"
  /\ kind' = [kind EXCEPT ![o] = "freed"]
  /\ text' = [text EXCEPT ![o] = None]
  /\ elems' = [elems EXCEPT ![o] = <<>>]
  /\ meta' = [meta EXCEPT ![o] = None]
  /\ oldHead' = oldHead \ {o}
  /\ UNCHANGED <<m_head, m_objCount, m_strs, rootVars, mark, unscans, gcSlot, phase>>

(* Mutant of Keep: the mark is not cleared. *)
KeepMarked(o) ==
  /\ phase = "sweep" /\ o \in oldHead /\ mark[o] = "Scan"
  /\ oldHead' = oldHead \ {o}
  /\ m_head' = m_head \cup {o}
  /\ m_objCount' = m_objCount + 1
  /\ UNCHANGED <<kind, text, elems, meta, m_strs, rootVars, mark, unscans, gcSlot, phase>>

Keep(o) ==
  /\ phase = "sweep" /\ o \in oldHead /\ mark[o] = "Scan"
  /\ mark' = [mark EXCEPT ![o] = "Unaccess"]
  /\ oldHead' = oldHead \ {o}
  /\ m_head' = m_head \cup {o}
  /\ m_objCount' = m_objCount + 1
  /\ UNCHANGED <<kind, text, elems, meta, m_strs, rootVars, unscans, gcSlot, phase>>

(* Mutant of FinishGC: the intern table is not rebuilt. *)
FinishGCUnnotified ==
  /\ phase = "sweep" /\ oldHead = {}
  /\ m_values' = IF gcSlot = None THEN m_values
                 ELSE [m_values EXCEPT ![gcSlot] = Num]
  /\ phase' = IF gcSlot = None THEN "exit" ELSE "run"
  /\ gcSlot' = None
  /\ UNCHANGED <<kind, text, elems, meta, m_head, m_objCount, m_strs, m_globals, m_frames,
                 m_metas, constTable, parsed, mark, unscans, oldHead>>

(* JSStringManager::notifyValidGCObjects, and the return to the caller. *)
FinishGC ==
  /\ phase = "sweep" /\ oldHead = {}
  /\ m_strs' = {o \in m_head : kind[o] = "string"}
  /\ m_values' = IF gcSlot = None THEN m_values
                 ELSE [m_values EXCEPT ![gcSlot] = Num]
  /\ phase' = IF gcSlot = None THEN "exit" ELSE "run"
  /\ gcSlot' = None
  /\ UNCHANGED <<kind, text, elems, meta, m_head, m_objCount, m_globals, m_frames,
                 m_metas, constTable, parsed, mark, unscans, oldHead>>

(* ~JSVM: every root is dropped before a last collection. *)
DestroyInstance ==
  /\ phase = "run" /\ Len(m_frames) = 1
  /\ m_frames' = <<>> /\ m_values' = <<>> /\ m_metas' = {}
  /\ m_globals' = [o \in Obj |-> None]
  /\ unscans' = {} /\ gcSlot' = None
  /\ phase' = "mark"
  /\ UNCHANGED <<heapVars, constTable, parsed, mark, oldHead>>

(* Dereferencing a freed object, undefined behaviour: an operand of a      *)
(* bytecode or builtin, or a root visited by accessGCObjects.              *)
TouchFreed ==
  /\ Running
  /\ \/ Operands \cap Freed # {}
     \/ OperandsOf("cfunction") # {} /\ Roots \cap Freed # {}
  /\ phase' = "undefined"
  /\ UNCHANGED <<heapVars, rootVars, gcVars>>

(* The same, for an element of an array that is being scanned. *)
ScanFreed(o) ==
  /\ phase = "mark" /\ o \in unscans
  /\ Children(o) \cap Freed # {}
  /\ phase' = "undefined"
  /\ UNCHANGED <<heapVars, rootVars, gcVars>>

Terminated ==
  /\ phase \in {"exit", "aborted", "undefined"}
  /\ UNCHANGED vars

Bytecode ==
  \/ \E d \in Locals, v \in Operands : Move(d, v)
  \/ \E d \in Locals, c \in Text : MakeString(d, c)
  \/ \E d, src \in Locals, n \in 0..MaxLen : NewArray(d, src, n)
  \/ \E d \in Locals, f \in m_metas : NewFunction(d, f)
  \/ \E k \in constTable[Code], v \in Operands : SetGlobal(k, v)
  \/ \E d \in Locals, k \in constTable[Code] : GetGlobal(d, k)
  \/ \E d \in Locals, a \in OperandsOf("array"), i \in 1..MaxLen : GetArray(d, a, i)
  \/ \E a \in OperandsOf("array"), i \in 1..MaxLen, v \in Operands : SetArray(a, i, v)
  \/ \E f \in OperandsOf("jsfunction"), a \in Locals, n \in 0..Len(m_values) : Call(f, a, n)

BuiltinCall ==
  \/ \E d \in Locals, s \in Script : LoadFile(d, s)
  \/ \E d \in Locals, pos \in 1..MaxLen, v \in Operands : ArrayInsert(d, pos, v)
  \/ \E d \in Locals, pos \in 1..MaxLen : ArrayRemove(d, pos)
  \/ \E d \in Locals : CollectGarbage(d)

CollectorStep ==
  \/ \E o \in unscans : MarkStep(o) \/ ScanFreed(o)
  \/ BeginSweep
  \/ \E o \in oldHead : Sweep(o) \/ Keep(o)
  \/ FinishGC

Next ==
  \/ RegisterBuildins
  \/ RunFile
  \/ Running /\ (Bytecode \/ BuiltinCall)
  \/ Return
  \/ Throw
  \/ DestroyInstance
  \/ CollectorStep
  \/ TouchFreed
  \/ Terminated

Spec == Init /\ [][Next]_vars

(* performFullGC is a straight-line function: once entered it is run.      *)
FairSpec == Spec /\ WF_vars(CollectorStep)
=============================================================================
