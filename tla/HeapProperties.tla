--------------------------- MODULE HeapProperties ---------------------------
(***************************************************************************)
(* What has to be true of the machine of module Heap.                      *)
(***************************************************************************)
EXTENDS Heap

Collecting == phase \in {"mark", "sweep"}

Strings == {o \in Live : kind[o] = "string"}

(* Objects that are not garbage of the sweep in progress: during the sweep *)
(* those already kept and those whose mark will make the sweep keep them.  *)
Kept == IF phase = "sweep"
        THEN {o \in Live : o \in m_head \/ mark[o] = "Scan"}
        ELSE Live

ScriptConstants == UNION {constTable[s] : s \in Script}

-----------------------------------------------------------------------------
(* Every variable keeps its type. *)
TypeOK ==
  /\ kind \in [Obj -> Kind]
  /\ text \in [Obj -> Text \cup {None}]
  /\ elems \in [Obj -> Seq(Value)]
  /\ meta \in [Obj -> Meta \cup {None}]
  /\ mark \in [Obj -> {"Unaccess", "Unscan", "Scan"}]
  /\ m_head \subseteq Obj /\ m_objCount \in Nat
  /\ m_strs \subseteq Obj
  /\ m_globals \in [Obj -> Value \cup {None}]
  /\ m_values \in Seq(Value)
  /\ m_frames \in Seq(Frame)
  /\ m_metas \subseteq Func
  /\ constTable \in [Meta -> SUBSET Obj]
  /\ parsed \subseteq Script
  /\ phase \in Phase
  /\ unscans \subseteq Obj /\ oldHead \subseteq Obj
  /\ gcSlot \in Nat \cup {None}

(* The only references that can ever dangle are those to string constants  *)
(* of a file's top-level code: whatever a global, a stack slot, a frame, a *)
(* registered meta or an array that stays holds is otherwise an object     *)
(* that exists and that the sweep in progress keeps.                       *)
OnlyScriptConstantsDangle ==
  \A o \in Roots \cup UNION {Children(p) : p \in Kept} :
    o \in Kept \/ (o \in Freed /\ o \in ScriptConstants)

(* JSStringManager: the intern table holds exactly the strings that exist, *)
(* one for each content, so comparing strings by address compares their    *)
(* contents; while a sweep runs it may also hold strings just freed, which *)
(* notifyValidGCObjects drops before anybody looks a string up again.      *)
InternCanonical ==
  /\ m_strs \cap Live = Strings
  /\ phase # "sweep" => m_strs \subseteq Live
  /\ \A o, p \in Strings : text[o] = text[p] => o = p

(* The manager's list: between collections it is every object, with no     *)
(* mark left over from the last collection; while the sweep runs the old   *)
(* and the new list divide them.  The count is the length of the list,     *)
(* which collectgarbage reports the difference of.                         *)
ListIsHeap ==
  /\ m_objCount = Cardinality(m_head)
  /\ m_head \cup oldHead = Live /\ m_head \cap oldHead = {}
  /\ phase \notin {"mark", "sweep", "undefined"} => \A o \in Obj : mark[o] = "Unaccess"

(* GCObject.cpp:52 asserts that whatever the sweep keeps has been scanned. *)
SweptAreScanned ==
  phase = "sweep" => \A o \in oldHead : mark[o] # "Unscan"

(* JSVM.cpp:43 and GCObject.cpp:10 assert, when the machine is destroyed,  *)
(* that the value stack is back to its one slot, and that the last         *)
(* collection has freed every object.                                      *)
CleanShutdown ==
  /\ phase = "run" /\ Len(m_frames) = 1 => Len(m_values) = 1
  /\ phase = "exit" => Live = {} /\ m_head = {} /\ m_objCount = 0

(* A function that can be called finds every string of its constant table. *)
(* JSVM.h:17 calls the table "static data", and JSFunction.h:19 declares a *)
(* Function::accessGCObjects that would keep it alive.                     *)
ConstantsStayLive ==
  ~Collecting =>
    \A i \in 2..Len(m_frames) : constTable[meta[m_frames[i].func]] \cap Freed = {}

(* The same, for function bodies only: registering their metas is enough. *)
BodiesStay ==
  ~Collecting =>
    \A i \in 2..Len(m_frames) :
      meta[m_frames[i].func] \in Func =>
        constTable[meta[m_frames[i].func]] \cap Freed = {}

(* No collection follows a reference to an object that is gone. *)
NoUndefinedBehaviour == phase # "undefined"

(* A collection, once begun, returns to the program or ends it. *)
CollectionEnds == Collecting ~> ~Collecting

-----------------------------------------------------------------------------
(* The heap and its collector implement ManagedHeap.  A function refers to *)
(* its constants; a collection happens when marking has finished, and the  *)
(* sweep that follows changes nothing a program could see.                 *)
References(o) ==
  IF kind[o] = "jsfunction" THEN constTable[meta[o]] ELSE Children(o)

Refs == [o \in Obj |-> IF o \in Kept THEN References(o) ELSE {}]

Managed == INSTANCE ManagedHeap WITH objs <- Kept, roots <- Roots, refs <- Refs

ImplementsManagedHeap == Managed!Spec

-----------------------------------------------------------------------------
(* The inductive invariant behind OnlyScriptConstantsDangle: TypeOK, and   *)
(* what connects the marks, the list, the intern table and the roots.      *)

(* A value that may be held: not an object, or one that stays, or a freed  *)
(* string constant of a file's top-level code.                             *)
Good(v) == v \in Obj => v \in Kept \/ (v \in Freed /\ v \in ScriptConstants)

(* What each holder of references holds. *)
HeldGood ==
  /\ \A o \in Obj : m_globals[o] # None => Good(o) /\ Good(m_globals[o])
  /\ \A i \in 1..Len(m_values) : Good(m_values[i])
  /\ \A f \in m_metas : \A o \in constTable[f] : Good(o)
  /\ \A p \in Kept : kind[p] = "array" =>
       \A i \in 1..Len(elems[p]) : Good(elems[p][i])

(* The first frame runs no function, every other one a function that       *)
(* stays.  There are frames until the machine is destroyed.                *)
FramesOK ==
  \A i \in 1..Len(m_frames) :
    IF i = 1 THEN m_frames[i].func = None
    ELSE m_frames[i].func \in Kept /\ kind[m_frames[i].func] = "jsfunction"

BaseFrame ==
  phase \in {"boot", "load", "run"} \/ gcSlot # None => m_frames # <<>>

MetaOK == \A o \in Obj : kind[o] = "jsfunction" => meta[o] \in Meta

(* Constants have been allocated; files not loaded have none; while there  *)
(* are frames, the metas of function bodies that have some are registered. *)
ConstsOK ==
  /\ \A m \in Meta : constTable[m] \cap Fresh = {}
  /\ \A s \in Script \ parsed : constTable[s] = {}
  /\ m_frames # <<>> => \A f \in Func \ m_metas : constTable[f] = {}

StringsOK == phase # "sweep" => m_strs \subseteq Live

ListOK ==
  /\ m_head \cup oldHead = Live /\ m_head \cap oldHead = {}
  /\ phase # "sweep" => oldHead = {}

(* Between collections nothing is marked.  While marking, the work list is *)
(* the objects found and not scanned, no root is unmarked, and a scanned   *)
(* object refers to marked ones only.  While sweeping, what stays is       *)
(* closed under references.                                                *)
MarksOK ==
  /\ \A o \in Obj \ Live : mark[o] = "Unaccess"
  /\ phase \notin {"mark", "sweep", "undefined"} => \A o \in Obj : mark[o] = "Unaccess"
  /\ phase = "mark" =>
       /\ unscans = {o \in Obj : mark[o] = "Unscan"}
       /\ \A o \in Roots : mark[o] # "Unaccess"
       /\ \A o \in Obj : mark[o] = "Scan" =>
            \A c \in Children(o) : mark[c] # "Unaccess"
  /\ phase = "sweep" =>
       /\ Roots \subseteq Kept
       /\ \A o \in Kept : Children(o) \subseteq Kept
       /\ \A o \in m_head : mark[o] = "Unaccess"
       /\ \A o \in oldHead : mark[o] # "Unscan"

(* The inductive invariant. *)
IInv ==
  /\ TypeOK
  /\ MetaOK
  /\ FramesOK
  /\ BaseFrame
  /\ ConstsOK
  /\ StringsOK
  /\ ListOK
  /\ HeldGood
  /\ MarksOK

-----------------------------------------------------------------------------
(* What makes the other properties inductive together with IInv.           *)

(* Until a script runs there is one frame, and before registerBuildins no  *)
(* object; the size the script's frame restores counts the arguments; a    *)
(* slot waits for a result only while collectgarbage runs.                 *)
StackOK ==
  /\ phase = "boot" => Live = {} /\ m_strs = {}
  /\ phase \in {"boot", "load"} => Len(m_frames) = 1
  /\ Len(m_frames) > 1 => m_frames[2].oldStackSize = 1 + NArgs
  /\ phase = "run" /\ Len(m_frames) = 1 => Len(m_values) = 1
  /\ gcSlot # None => phase \in {"mark", "sweep", "undefined"} /\ Len(m_frames) > 1

(* A collection that returns to nobody is the one of ~JSVM: it has no      *)
(* root, marks nothing and keeps nothing.                                  *)
DestroyedOK ==
  /\ Collecting /\ gcSlot = None =>
       /\ m_frames = <<>> /\ Roots = {} /\ unscans = {}
       /\ \A o \in Obj : mark[o] = "Unaccess"
       /\ phase = "sweep" => m_head = {}
  /\ phase = "exit" => Live = {}

CountOK == m_objCount = Cardinality(m_head)

(* The constants of a registered function body stay. *)
RegisteredOK == \A f \in m_metas : constTable[f] \subseteq Kept

TablesInv ==
  /\ IInv
  /\ StackOK
  /\ DestroyedOK
  /\ CountOK
  /\ InternCanonical
  /\ RegisteredOK

(* Programs in which every string of a file's top-level code also occurs   *)
(* in a function body of the file.                                         *)
LiteralsShared ==
  \A s \in Script : Literals[s] \subseteq UNION {Literals[f] : f \in FuncsOf[s]}

(* For them a constant stays as long as a frame could use it, and every    *)
(* root and every reference of an object that stays leads to one.          *)
SharedOK ==
  /\ m_metas \subseteq UNION {FuncsOf[s] : s \in parsed}
  /\ m_frames # <<>> =>
       \A s \in Script : constTable[s] \subseteq UNION {constTable[f] : f \in m_metas}
  /\ phase = "mark" => \A m \in Meta : constTable[m] \subseteq Live
  /\ m_frames = <<>> => phase \in {"mark", "sweep", "exit"}
  /\ phase = "exit" => Roots = {}
  /\ phase # "undefined"

(* What is marked is reachable. *)
MarkedReachable ==
  phase = "mark" => \A o \in Obj : mark[o] # "Unaccess" => o \in Managed!Reachable

SharedInv == TablesInv /\ SharedOK /\ MarkedReachable
=============================================================================
