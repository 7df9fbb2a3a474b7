----------------------------- MODULE CallStack -----------------------------
(***************************************************************************)
(* Calls in the JJS virtual machine: the value stack as memory with a size *)
(* that moves, the frame stack, calls from C and from bytecode, the loop   *)
(* of the interpreter, and the unwinding of an exception.                  *)
(*                                                                         *)
(* m_values and m_frames are vectors whose memory is reserved once; frames *)
(* keep raw pointers into the first, the interpreter into the second.  A   *)
(* pointer into m_values is an offset from its beginning.  What a slot     *)
(* beyond the size still holds is kept, since code may write and read it.  *)
(* Which code a body consists of is left open.                             *)
(***************************************************************************)
EXTENDS Integers, Sequences

CONSTANTS
  Func,          \* bytecode functions, the script included
  Script,        \* the function called from C
  NArgs,         \* the arguments of that call
  CodeLen,       \* instructions of a body
  ArgsAt,        \* arguments a call at an instruction of a body passes
  LocalSpace,    \* FuncMeta::getLocalSpace
  ArgCount,      \* FuncMeta::argCount
  Value, Nil,
  StackReserve,  \* slots reserved for m_values
  FrameReserve,  \* frames reserved for m_frames
  None

ASSUME CallStackAssumption ==
  /\ Script \in Func /\ None \notin Func
  /\ NArgs \in Nat \ {0}
  /\ CodeLen \in [Func -> Nat \ {0}]
  /\ \A f \in Func : ArgsAt[f] \in [0 .. CodeLen[f] - 1 -> Nat]
  /\ LocalSpace \in [Func -> Nat]
  /\ ArgCount \in [Func -> Nat]
  /\ \A f \in Func : ArgCount[f] <= LocalSpace[f]
  /\ Nil \in Value
  /\ StackReserve \in Nat /\ FrameReserve \in Nat \ {0, 1}
  /\ 1 + NArgs <= StackReserve /\ LocalSpace[Script] <= StackReserve

VARIABLES
  m_values,   \* what each reserved slot holds
  m_size,     \* m_values.size()
  m_frames,
  phase       \* where the single thread is

vars == <<m_values, m_size, m_frames, phase>>

Slot  == 0 .. StackReserve - 1
Phase == {"boot", "run", "unwind", "done", "failed", "undefined"}
Frame == [func : Func \cup {None}, base : Nat, oldStackSize : Nat, ip : Nat]

BaseFrame == [func |-> None, base |-> 0, oldStackSize |-> 1, ip |-> 0]

Init ==
  /\ m_values = [i \in Slot |-> Nil]
  /\ m_size = 1
  /\ m_frames = <<BaseFrame>>
  /\ phase = "boot"

Top    == m_frames[Len(m_frames)]
Caller == m_frames[Len(m_frames) - 1]

(* The instruction at the top frame's ip is about to be executed. *)
Running == phase = "run" /\ Top.ip < CodeLen[Top.func]

(* std::vector::resize: slots that come into being are NIL. *)
Resized(v, old, new) ==
  [i \in Slot |-> IF i \in old .. new - 1 THEN Nil ELSE v[i]]

(* Mutant of FillMissing: the first missing argument is skipped. *)
FillMissingLate(f, args, n) ==
  [i \in Slot |-> IF i \in args + n + 1 .. args + ArgCount[f] - 1
                  THEN Nil ELSE m_values[i]]

(* callFromVM of a bytecode function: arguments that are missing become    *)
(* NIL, whether or not their slots exist yet.                              *)
FillMissing(f, args, n) ==
  [i \in Slot |-> IF i \in args + n .. args + ArgCount[f] - 1
                  THEN Nil ELSE m_values[i]]

(* Mutant of PushFrame: the window is added to the stack, not laid over    *)
(* the arguments.                                                          *)
PushFrameAtEnd(f, args, frames, v, size) ==
  /\ m_frames' = Append(frames, [func |-> f, base |-> args,
                                 oldStackSize |-> size, ip |-> 0])
  /\ m_size' = size + LocalSpace[f]
  /\ m_values' = Resized(v, size, m_size')

(* JSVM::pushFrame, with the memory and the size it finds. *)
PushFrame(f, args, frames, v, size) ==
  /\ m_frames' = Append(frames, [func |-> f, base |-> args,
                                 oldStackSize |-> size, ip |-> 0])
  /\ m_size' = args + LocalSpace[f]
  /\ m_values' = Resized(v, size, m_size')

(* callFromC: the arguments are inserted behind the slot of the base       *)
(* frame, but pushStack returns that slot: it becomes the first local.     *)
CallFromC ==
  /\ phase = "boot"
  /\ \E arg \in [1 .. NArgs -> Value] :
       PushFrame(Script, 0, m_frames,
                 [i \in Slot |-> IF i \in 1 .. NArgs THEN arg[i] ELSE m_values[i]],
                 1 + NArgs)
  /\ phase' = "run"

Advance(ip) == [m_frames EXCEPT ![Len(m_frames)].ip = ip]

(* A bytecode that writes local d.  Local 0 takes the result of a body,    *)
(* and is written even where the body has no slot.                         *)
Assign(d, v) ==
  /\ Running
  /\ d < LocalSpace[Top.func] \/ d = 0
  /\ m_values' = [m_values EXCEPT ![Top.base + d] = v]
  /\ m_frames' = Advance(Top.ip + 1)
  /\ UNCHANGED <<m_size, phase>>

(* Jump, TrueJump, FalseJump; a bytecode that writes no local. *)
Goto(ip) ==
  /\ Running
  /\ m_frames' = Advance(ip)
  /\ UNCHANGED <<m_values, m_size, phase>>

(* The operands of Call: the arguments are the locals from a on, where the *)
(* generator has allocated at least one temporary.                         *)
Passed == ArgsAt[Top.func][Top.ip]

Arguments(a) ==
  /\ Running
  /\ a < LocalSpace[Top.func] /\ a + Passed <= LocalSpace[Top.func]

(* A call of a C function leaves its result, or NIL, in the first slot.    *)
CallCFunction(a, v) ==
  /\ Arguments(a)
  /\ m_values' = [m_values EXCEPT ![Top.base + a] = v]
  /\ m_frames' = Advance(Top.ip + 1)
  /\ UNCHANGED <<m_size, phase>>

Fits(f, args) ==
  /\ args + LocalSpace[f] <= StackReserve
  /\ Len(m_frames) < FrameReserve

(* Mutant of Call: it may be the last instruction of a body. *)
CallLast(f, a) ==
  /\ Arguments(a)
  /\ Fits(f, Top.base + a)
  /\ PushFrame(f, Top.base + a, Advance(Top.ip + 1),
               FillMissing(f, Top.base + a, Passed), m_size)
  /\ UNCHANGED phase

(* Call is never the last instruction of a body: the generator emits a     *)
(* Move of the result after it.                                            *)
Call(f, a) ==
  /\ Arguments(a)
  /\ Top.ip + 1 < CodeLen[Top.func]
  /\ Fits(f, Top.base + a)
  /\ PushFrame(f, Top.base + a, Advance(Top.ip + 1),
               FillMissing(f, Top.base + a, Passed), m_size)
  /\ UNCHANGED phase

(* Past its reserve a vector moves, and every pointer into it dangles.     *)
Overflow(f, a) ==
  /\ Arguments(a)
  /\ Top.ip + 1 < CodeLen[Top.func]
  /\ ~ Fits(f, Top.base + a)
  /\ phase' = "undefined"
  /\ UNCHANGED <<m_values, m_size, m_frames>>

(* Mutant of PopFrame: everything from the frame's base on is dropped. *)
PopFrameToBase ==
  /\ m_frames' = SubSeq(m_frames, 1, Len(m_frames) - 1)
  /\ m_size' = Top.base
  /\ UNCHANGED m_values

PopFrame ==
  /\ m_frames' = SubSeq(m_frames, 1, Len(m_frames) - 1)
  /\ m_size' = Top.oldStackSize
  /\ m_values' = Resized(m_values, m_size, m_size')

AtEnd == phase = "run" /\ Top.ip = CodeLen[Top.func]

(* The end of a body called from bytecode. *)
Return ==
  /\ AtEnd /\ Len(m_frames) > 2
  /\ PopFrame
  /\ UNCHANGED phase

(* Mutant of ReturnToC: the arguments stay on the stack. *)
ReturnToCUnpopped ==
  /\ AtEnd /\ Len(m_frames) = 2
  /\ m_frames' = SubSeq(m_frames, 1, 1)
  /\ m_size' = Top.oldStackSize
  /\ m_values' = Resized(m_values, m_size, Top.oldStackSize)
  /\ phase' = "done"

(* The end of the script: callFromC then pops the arguments. *)
ReturnToC ==
  /\ AtEnd /\ Len(m_frames) = 2
  /\ m_frames' = SubSeq(m_frames, 1, 1)
  /\ m_size' = Top.oldStackSize - NArgs
  /\ m_values' = Resized(m_values, m_size, Top.oldStackSize)
  /\ phase' = "done"

(* An instruction fails an ASSERT. *)
Throw ==
  /\ Running
  /\ phase' = "unwind"
  /\ UNCHANGED <<m_values, m_size, m_frames>>

(* execute pops the frames above the one it was started with, and throws   *)
(* the exception again.                                                    *)
Unwind ==
  /\ phase = "unwind" /\ Len(m_frames) > 1
  /\ PopFrame
  /\ UNCHANGED phase

Rethrow ==
  /\ phase = "unwind" /\ Len(m_frames) = 1
  /\ phase' = "failed"
  /\ UNCHANGED <<m_values, m_size, m_frames>>

Terminated == phase \in {"done", "failed", "undefined"} /\ UNCHANGED vars

Next ==
  \/ CallFromC
  \/ \E d \in 0 .. StackReserve, v \in Value : Assign(d, v)
  \/ \E ip \in 0 .. (IF Running THEN CodeLen[Top.func] ELSE 0) : Goto(ip)
  \/ \E a \in 0 .. StackReserve :
       \/ \E v \in Value : CallCFunction(a, v)
       \/ \E f \in Func : Call(f, a) \/ Overflow(f, a)
  \/ Return
  \/ ReturnToC
  \/ Throw
  \/ Unwind
  \/ Rethrow
  \/ Terminated

Spec == Init /\ [][Next]_vars
=============================================================================
