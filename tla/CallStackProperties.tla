------------------------ MODULE CallStackProperties ------------------------
(***************************************************************************)
(* What makes CallStack correct.                                           *)
(***************************************************************************)
EXTENDS CallStack

TypeOK ==
  /\ m_values \in [Slot -> Value]
  /\ m_size \in 0 .. StackReserve
  /\ m_frames \in Seq(Frame) /\ Len(m_frames) \in 1 .. FrameReserve
  /\ phase \in Phase

(* Frames nest, and popFrame restores what pushFrame found: a frame begins *)
(* inside the window of its caller, and the size it restores is the end of *)
(* that window.  The size of the stack is the end of the top window.       *)
WindowEnd(frames, i) ==
  IF i = 1 THEN 1 + NArgs
  ELSE frames[i].base + LocalSpace[frames[i].func]

FramesNest ==
  /\ m_frames[1] = BaseFrame
  /\ \A i \in 2 .. Len(m_frames) :
       /\ m_frames[i].func \in Func
       /\ m_frames[i].oldStackSize = WindowEnd(m_frames, i - 1)
       /\ m_frames[i].base \in m_frames[i - 1].base .. WindowEnd(m_frames, i - 1) - 1
  /\ phase \in {"run", "unwind"} => m_size = WindowEnd(m_frames, Len(m_frames))

(* execute adds a line to the exception for every frame it unwinds, taken  *)
(* from ip2line: the ip of each has to lie within the body.  The ip of a   *)
(* caller is already past its Call.                                        *)
LinesInRange ==
  /\ \A i \in 2 .. Len(m_frames) - 1 :
       m_frames[i].ip < CodeLen[m_frames[i].func]
  /\ phase = "unwind" /\ Len(m_frames) > 1 => Top.ip < CodeLen[Top.func]

(* Whatever the calls in between, callFromC leaves the stack as it was:    *)
(* the one slot of the base frame (~JSVM asserts it), and the arguments    *)
(* above it if an exception passed through.                                *)
EndsRestored ==
  /\ phase = "done"   => m_frames = <<BaseFrame>> /\ m_size = 1
  /\ phase = "failed" => m_frames = <<BaseFrame>> /\ m_size = 1 + NArgs

(* The value a body leaves in its first local is what its caller finds in  *)
(* the first of the slots it passed.  Not so for bodies without a slot.    *)
ResultArrives ==
  [][Return => m_values'[Top.base] = m_values[Top.base]]_vars

(* The slots of activation i: the window of the top frame, the part below  *)
(* the callee's window of the others.                                      *)
LocalsOf(i) ==
  LET end == IF i = Len(m_frames) THEN WindowEnd(m_frames, i) ELSE m_frames[i + 1].base
      base == m_frames[i].base
  IN [j \in 1 .. end - base |-> m_values[base + j - 1]]

Acts ==
  IF phase # "run" THEN <<>>
  ELSE [i \in 1 .. Len(m_frames) - 1 |->
          [func |-> m_frames[i + 1].func, ip |-> m_frames[i + 1].ip,
           locals |-> LocalsOf(i + 1)]]

Status ==
  CASE phase = "boot"                 -> "idle"
    [] phase = "run"                  -> "running"
    [] phase = "done"                 -> "done"
    [] phase \in {"unwind", "failed"} -> "failed"
    [] phase = "undefined"            -> "exhausted"

Separate == INSTANCE Activations WITH acts <- Acts, status <- Status

(* The shared stack implements separate activations: no callee changes the *)
(* locals a caller still needs, arguments and results arrive.              *)
ImplementsActivations == Separate!Spec
-----------------------------------------------------------------------------
(* The frames there are in each phase, and how far the top one has come:   *)
(* what makes the properties above inductive.                              *)
PhaseOK ==
  /\ phase = "boot" => m_frames = <<BaseFrame>> /\ m_size = 1
  /\ phase = "run"  => Len(m_frames) >= 2 /\ Top.ip <= CodeLen[Top.func]

WindowsFit == \A i \in 1 .. Len(m_frames) : WindowEnd(m_frames, i) \in 0 .. StackReserve

IInv ==
  /\ TypeOK
  /\ PhaseOK
  /\ WindowsFit
  /\ FramesNest
  /\ LinesInRange
  /\ EndsRestored

(* A callee's window begins above the part of every caller's window that   *)
(* is still that caller's.                                                 *)
BasesRise ==
  \A i, j \in 1 .. Len(m_frames) : i <= j => m_frames[i].base <= m_frames[j].base
=============================================================================
