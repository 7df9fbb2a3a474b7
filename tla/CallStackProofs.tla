-------------------------- MODULE CallStackProofs --------------------------
(***************************************************************************)
(* Calls nest and are unwound correctly, and the shared value stack        *)
(* implements the separate activations of module Activations, for bodies,  *)
(* stacks and arguments of any size.  IInv is the inductive invariant;     *)
(* there is one lemma for each kind of step.                               *)
(***************************************************************************)
EXTENDS CallStackProperties, SequenceTheorems, TLAPS

(* gs are the frames with the ip of the top one set. *)
Advanced(gs, ip) ==
  /\ gs \in Seq(Frame) /\ Len(gs) = Len(m_frames)
  /\ \A i \in 1 .. Len(m_frames) : /\ gs[i].func = m_frames[i].func
                                   /\ gs[i].base = m_frames[i].base
                                   /\ gs[i].oldStackSize = m_frames[i].oldStackSize
  /\ \A i \in 1 .. Len(m_frames) - 1 : gs[i] = m_frames[i]
  /\ gs[Len(m_frames)].ip = ip

LEMMA AdvanceTop ==
  ASSUME m_frames \in Seq(Frame), Len(m_frames) >= 1, NEW ip \in Nat,
         NEW gs, gs = Advance(ip)
  PROVE  Advanced(gs, ip)
<1>0. PICK fs \in Seq(Frame) : fs = m_frames /\ Len(fs) >= 1
  OBVIOUS
<1> DEFINE n == Len(fs)
<1>1. PICK e : e = [fs[n] EXCEPT !.ip = ip]
  OBVIOUS
<1>2. n \in 1 .. n /\ fs[n] \in Frame /\ gs = [fs EXCEPT ![n] = e]
  <2>1. gs = [fs EXCEPT ![n] = [fs[n] EXCEPT !.ip = ip]]
    BY <1>0 DEF Advance
  <2>2. gs = [fs EXCEPT ![n] = e]
    BY <1>1, <2>1
  <2> QED
    BY <1>0, <2>2
<1>3. /\ e \in Frame /\ e.func = fs[n].func /\ e.base = fs[n].base
      /\ e.oldStackSize = fs[n].oldStackSize /\ e.ip = ip
  BY <1>1, <1>2 DEF Frame
<1>4. /\ gs \in Seq(Frame) /\ Len(gs) = n
      /\ \A i \in 1 .. n : gs[i] = IF i = n THEN e ELSE fs[i]
  BY <1>2, <1>3, ExceptSeq
<1>5. \A i \in 1 .. n - 1 : i \in 1 .. n /\ i # n
  OBVIOUS
<1> QED
  BY <1>0, <1>2, <1>3, <1>4, <1>5 DEF Advanced

(* Popping a frame leaves those below it. *)
LEMMA PopTop ==
  ASSUME NEW fs \in Seq(Frame), Len(fs) >= 2,
         NEW gs, gs = SubSeq(fs, 1, Len(fs) - 1)
  PROVE  /\ gs \in Seq(Frame) /\ Len(gs) = Len(fs) - 1
         /\ \A i \in 1 .. Len(gs) : gs[i] = fs[i]
  OBVIOUS

(* Pushing one, too. *)
LEMMA PushTop ==
  ASSUME NEW fs \in Seq(Frame), NEW e \in Frame, NEW gs, gs = Append(fs, e)
  PROVE  /\ gs \in Seq(Frame) /\ Len(gs) = Len(fs) + 1
         /\ \A i \in 1 .. Len(fs) : gs[i] = fs[i]
         /\ gs[Len(fs) + 1] = e
  OBVIOUS

LEMMA ResizedType ==
  ASSUME NEW v \in [Slot -> Value], NEW old, NEW new
  PROVE  Resized(v, old, new) \in [Slot -> Value]
  BY CallStackAssumption DEF Resized

-----------------------------------------------------------------------------
LEMMA InitOK == ASSUME Init PROVE IInv
<1>1. BaseFrame \in Frame
  BY DEF BaseFrame, Frame
<1>2. /\ m_frames = <<BaseFrame>> /\ m_frames \in Seq(Frame) /\ Len(m_frames) = 1
      /\ m_frames[1] = BaseFrame /\ m_size = 1 /\ phase = "boot"
  BY <1>1 DEF Init
<1>3. TypeOK
  BY <1>2, CallStackAssumption DEF Init, TypeOK, Phase
<1>4. WindowsFit
  BY <1>2, CallStackAssumption DEF WindowsFit, WindowEnd
<1> QED
  BY <1>2, <1>3, <1>4 DEF IInv, PhaseOK, FramesNest, LinesInRange, EndsRestored

(* What is known of a running body. *)
LEMMA RunningBody ==
  ASSUME IInv, phase = "run"
  PROVE  /\ m_frames \in Seq(Frame) /\ Len(m_frames) \in 2 .. FrameReserve
         /\ Top \in Frame /\ Top.ip \in Nat /\ Top.base \in Nat /\ Top.func \in Func /\ CodeLen[Top.func] \in Nat \ {0}
         /\ LocalSpace[Top.func] \in Nat
         /\ m_size = Top.base + LocalSpace[Top.func]
         /\ m_values \in [Slot -> Value] /\ m_size \in 0 .. StackReserve
<1>1. m_frames \in Seq(Frame) /\ Len(m_frames) \in 2 .. FrameReserve
  BY CallStackAssumption DEF IInv, TypeOK, PhaseOK
<1>2. Top \in Frame /\ Top.ip \in Nat /\ Top.base \in Nat
  <2>1. Len(m_frames) \in 1 .. Len(m_frames) /\ Top = m_frames[Len(m_frames)]
    BY <1>1 DEF Top
  <2>2. Top \in Frame
    BY <1>1, <2>1
  <2> QED
    BY <2>2 DEF Frame
<1>3. Top.func \in Func
  BY <1>1 DEF IInv, FramesNest, Top
<1>4. m_size = Top.base + LocalSpace[Top.func]
  BY <1>1 DEF IInv, FramesNest, Top, WindowEnd
<1> QED
  BY <1>1, <1>2, <1>3, <1>4, CallStackAssumption DEF IInv, TypeOK

(* A bytecode that stays in its body. *)
LEMMA AdvanceStep ==
  ASSUME IInv, Running, NEW ip \in 0 .. CodeLen[Top.func], m_frames' = Advance(ip),
         m_size' = m_size, phase' = phase, m_values' \in [Slot -> Value]
  PROVE  IInv'
<1>1. /\ phase = "run" /\ m_frames \in Seq(Frame) /\ Len(m_frames) \in 2 .. FrameReserve
      /\ Top.func \in Func /\ CodeLen[Top.func] \in Nat /\ ip \in Nat
  BY RunningBody DEF Running
<1>2. /\ m_frames' \in Seq(Frame) /\ Len(m_frames') = Len(m_frames)
      /\ \A i \in 1 .. Len(m_frames) : /\ m_frames'[i].func = m_frames[i].func
                                       /\ m_frames'[i].base = m_frames[i].base
                                       /\ m_frames'[i].oldStackSize = m_frames[i].oldStackSize
      /\ \A i \in 1 .. Len(m_frames) - 1 : m_frames'[i] = m_frames[i]
      /\ m_frames'[Len(m_frames)].ip = ip
  <2>1. m_frames \in Seq(Frame) /\ Len(m_frames) >= 1 /\ m_frames' = Advance(ip) /\ ip \in Nat
    BY <1>1
  <2>2. Advanced(m_frames', ip)
    BY <2>1, AdvanceTop
  <2> QED
    BY <2>2 DEF Advanced
<1>3. \A i \in 1 .. Len(m_frames) : WindowEnd(m_frames', i) = WindowEnd(m_frames, i)
  BY <1>2 DEF WindowEnd
<1>4. TypeOK'
  BY <1>1, <1>2 DEF IInv, TypeOK
<1>5. FramesNest'
  <2>1. m_frames'[1] = BaseFrame
    BY <1>1, <1>2 DEF IInv, FramesNest
  <2>2. phase' = "run" /\ m_size' = WindowEnd(m_frames', Len(m_frames'))
    BY <1>1, <1>2, <1>3 DEF IInv, FramesNest
  <2>3. ASSUME NEW i \in 2 .. Len(m_frames')
        PROVE  /\ m_frames'[i].func \in Func
               /\ m_frames'[i].oldStackSize = WindowEnd(m_frames', i - 1)
               /\ m_frames'[i].base \in m_frames'[i - 1].base .. WindowEnd(m_frames', i - 1) - 1
    <3>1. i \in 2 .. Len(m_frames) /\ i \in 1 .. Len(m_frames) /\ i - 1 \in 1 .. Len(m_frames)
      BY <1>1, <1>2
    <3> QED
      BY <1>2, <1>3, <3>1 DEF IInv, FramesNest
  <2> QED
    BY <2>1, <2>2, <2>3 DEF FramesNest
<1>6. PhaseOK'
  BY <1>1, <1>2 DEF PhaseOK, Top
<1>7. LinesInRange'
  BY <1>1, <1>2 DEF IInv, LinesInRange
<1>8. EndsRestored'
  BY <1>1 DEF EndsRestored
<1>9. WindowsFit'
  BY <1>2, <1>3 DEF IInv, WindowsFit
<1> QED
  BY <1>4, <1>5, <1>6, <1>7, <1>8, <1>9 DEF IInv

LEMMA PushStep ==
  ASSUME IInv, phase' = "run", NEW frames \in Seq(Frame), NEW f \in Func,
         NEW args \in Nat, NEW v \in [Slot -> Value],
         Len(frames) = Len(m_frames), frames[1] = m_frames[1],
         \A i \in 1 .. Len(frames) : /\ frames[i].func = m_frames[i].func
                                     /\ frames[i].base = m_frames[i].base
                                     /\ frames[i].oldStackSize = m_frames[i].oldStackSize,
         \A i \in 2 .. Len(frames) : frames[i].ip < CodeLen[frames[i].func],
         args \in m_frames[Len(m_frames)].base .. WindowEnd(m_frames, Len(m_frames)) - 1,
         PushFrame(f, args, frames, v, WindowEnd(m_frames, Len(m_frames))),
         args + LocalSpace[f] <= StackReserve, Len(m_frames) < FrameReserve
  PROVE  IInv'
<1> DEFINE n == Len(m_frames)
           e == [func |-> f, base |-> args, oldStackSize |-> WindowEnd(m_frames, n), ip |-> 0]
<1>1. n \in Nat /\ n >= 1 /\ FrameReserve \in Nat /\ LocalSpace[f] \in Nat /\ CodeLen[f] \in Nat
  BY CallStackAssumption DEF IInv, TypeOK
<1>2. WindowEnd(m_frames, n) \in Nat
  BY <1>1, CallStackAssumption DEF IInv, WindowsFit
<1>3. e \in Frame
  BY <1>2 DEF Frame
<1>4. m_frames' = Append(frames, e)
  BY DEF PushFrame
<1>5. /\ e.func = f /\ e.base = args /\ e.oldStackSize = WindowEnd(m_frames, n) /\ e.ip = 0
  OBVIOUS
<1> HIDE DEF e
<1>6. /\ m_frames' \in Seq(Frame) /\ Len(m_frames') = n + 1
      /\ \A i \in 1 .. n : m_frames'[i] = frames[i]
      /\ m_frames'[n + 1] = e
  BY <1>3, <1>4, PushTop
<1>7. \A i \in 1 .. n : WindowEnd(m_frames', i) = WindowEnd(m_frames, i)
  BY <1>6 DEF WindowEnd
<1>8. WindowEnd(m_frames', n + 1) = args + LocalSpace[f]
  BY <1>1, <1>5, <1>6 DEF WindowEnd
<1>9. m_size' = args + LocalSpace[f] /\ m_values' \in [Slot -> Value]
  BY ResizedType DEF PushFrame
<1>10. TypeOK'
  BY <1>1, <1>6, <1>9 DEF TypeOK, Phase
<1>11. FramesNest'
  <2>1. m_frames'[1] = BaseFrame
    BY <1>1, <1>6 DEF IInv, FramesNest
  <2>2. m_size' = WindowEnd(m_frames', Len(m_frames'))
    BY <1>6, <1>8, <1>9
  <2>3. ASSUME NEW i \in 2 .. Len(m_frames')
        PROVE  /\ m_frames'[i].func \in Func
               /\ m_frames'[i].oldStackSize = WindowEnd(m_frames', i - 1)
               /\ m_frames'[i].base \in m_frames'[i - 1].base .. WindowEnd(m_frames', i - 1) - 1
    <3>1. CASE i = n + 1
      BY <1>1, <1>5, <1>6, <1>7, <3>1
    <3>2. CASE i \in 2 .. n
      <4>1. i \in 1 .. n /\ i - 1 \in 1 .. n
        BY <1>1, <3>2
      <4>2. /\ m_frames[i].func \in Func
            /\ m_frames[i].oldStackSize = WindowEnd(m_frames, i - 1)
            /\ m_frames[i].base \in m_frames[i - 1].base .. WindowEnd(m_frames, i - 1) - 1
        BY <3>2 DEF IInv, FramesNest
      <4>3. /\ m_frames'[i].func = m_frames[i].func
            /\ m_frames'[i].base = m_frames[i].base
            /\ m_frames'[i].oldStackSize = m_frames[i].oldStackSize
            /\ m_frames'[i - 1].base = m_frames[i - 1].base
            /\ WindowEnd(m_frames', i - 1) = WindowEnd(m_frames, i - 1)
        BY <1>6, <1>7, <4>1
      <4> QED
        BY <4>2, <4>3
    <3> QED
      BY <1>1, <1>6, <3>1, <3>2
  <2> QED
    BY <2>1, <2>2, <2>3 DEF FramesNest
<1>12. PhaseOK'
  BY <1>1, <1>5, <1>6 DEF PhaseOK, Top
<1>13. LinesInRange'
  BY <1>1, <1>6 DEF LinesInRange
<1>14. EndsRestored'
  BY DEF EndsRestored
<1>15. WindowsFit'
  <2>1. \A i \in 1 .. Len(m_frames') : i \in 1 .. n \/ i = n + 1
    BY <1>1, <1>6
  <2>2. WindowEnd(m_frames', n + 1) \in 0 .. StackReserve
    BY <1>1, <1>8, CallStackAssumption
  <2> QED
    BY <1>7, <2>1, <2>2 DEF IInv, WindowsFit
<1> QED
  BY <1>10, <1>11, <1>12, <1>13, <1>14, <1>15 DEF IInv

LEMMA CallFromCStep == ASSUME IInv, CallFromC PROVE IInv'
<1>1. /\ m_frames = <<BaseFrame>> /\ m_frames \in Seq(Frame) /\ Len(m_frames) = 1
      /\ m_frames[1].base = 0 /\ WindowEnd(m_frames, 1) = 1 + NArgs
      /\ m_values \in [Slot -> Value]
  BY DEF IInv, PhaseOK, TypeOK, CallFromC, BaseFrame, WindowEnd
<1>2. PICK arg \in [1 .. NArgs -> Value] :
        PushFrame(Script, 0, m_frames,
                  [i \in Slot |-> IF i \in 1 .. NArgs THEN arg[i] ELSE m_values[i]],
                  1 + NArgs)
  BY DEF CallFromC
<1>3. [i \in Slot |-> IF i \in 1 .. NArgs THEN arg[i] ELSE m_values[i]] \in [Slot -> Value]
  BY <1>1
<1>4. /\ phase' = "run" /\ 0 \in Nat /\ Script \in Func /\ LocalSpace[Script] \in Nat
      /\ 0 + LocalSpace[Script] <= StackReserve /\ Len(m_frames) < FrameReserve
      /\ 0 \in 0 .. NArgs
  BY <1>1, CallStackAssumption DEF CallFromC
<1>5. PICK v : v = [i \in Slot |-> IF i \in 1 .. NArgs THEN arg[i] ELSE m_values[i]]
  OBVIOUS
<1>6. v \in [Slot -> Value] /\ PushFrame(Script, 0, m_frames, v, WindowEnd(m_frames, Len(m_frames)))
  BY <1>1, <1>2, <1>3, <1>5
<1>7. 0 \in m_frames[Len(m_frames)].base .. WindowEnd(m_frames, Len(m_frames)) - 1
  BY <1>1, CallStackAssumption
<1>8. \A i \in 2 .. Len(m_frames) : m_frames[i].ip < CodeLen[m_frames[i].func]
  BY <1>1
<1> QED
  BY <1>1, <1>4, <1>6, <1>7, <1>8, PushStep

LEMMA CallStep ==
  ASSUME IInv, NEW f \in Func, NEW a \in Nat, Call(f, a)
  PROVE  IInv'
<1>1. /\ phase = "run" /\ phase' = "run" /\ m_frames \in Seq(Frame)
      /\ Len(m_frames) \in 2 .. FrameReserve
      /\ Top.func \in Func /\ LocalSpace[Top.func] \in Nat /\ CodeLen[Top.func] \in Nat
      /\ m_size = Top.base + LocalSpace[Top.func] /\ m_values \in [Slot -> Value]
      /\ Top = m_frames[Len(m_frames)] /\ Top.base \in Nat /\ Top.ip \in Nat
  BY RunningBody DEF Call, Arguments, Running, Top, Frame
<1>2. m_size = WindowEnd(m_frames, Len(m_frames))
  BY <1>1 DEF IInv, FramesNest
<1>3. /\ a < LocalSpace[Top.func] /\ Top.ip + 1 < CodeLen[Top.func]
      /\ Top.base + a + LocalSpace[f] <= StackReserve /\ Len(m_frames) < FrameReserve
      /\ PushFrame(f, Top.base + a, Advance(Top.ip + 1),
                   FillMissing(f, Top.base + a, Passed), m_size)
  BY DEF Call, Arguments, Fits
<1>0. PICK ip \in Nat : ip = Top.ip + 1
  BY <1>1
<1>4. PICK frames : frames = Advance(ip)
  OBVIOUS
<1>5. /\ frames \in Seq(Frame) /\ Len(frames) = Len(m_frames)
      /\ \A i \in 1 .. Len(m_frames) : /\ frames[i].func = m_frames[i].func
                                       /\ frames[i].base = m_frames[i].base
                                       /\ frames[i].oldStackSize = m_frames[i].oldStackSize
      /\ \A i \in 1 .. Len(m_frames) - 1 : frames[i] = m_frames[i]
      /\ frames[Len(m_frames)].ip = ip
  <2>1. m_frames \in Seq(Frame) /\ Len(m_frames) >= 1 /\ frames = Advance(ip) /\ ip \in Nat
    BY <1>0, <1>1, <1>4
  <2>2. Advanced(frames, ip)
    BY <2>1, AdvanceTop
  <2> QED
    BY <2>2 DEF Advanced
<1>6. PICK v : v = FillMissing(f, Top.base + a, Passed)
  OBVIOUS
<1>7. v \in [Slot -> Value]
  BY <1>1, <1>6, CallStackAssumption DEF FillMissing
<1>8. PICK args : args = Top.base + a
  OBVIOUS
<1>9. /\ args \in Nat
      /\ args \in m_frames[Len(m_frames)].base .. WindowEnd(m_frames, Len(m_frames)) - 1
  <2>1. PICK base \in Nat, space \in Nat : base = Top.base /\ space = LocalSpace[Top.func]
    BY <1>1
  <2>2. /\ args = base + a /\ a < space /\ m_frames[Len(m_frames)].base = base
        /\ WindowEnd(m_frames, Len(m_frames)) = base + space
    BY <1>1, <1>2, <1>3, <1>8, <2>1
  <2>3. args \in Nat /\ args \in base .. base + space - 1
    BY <2>2
  <2> QED
    BY <2>2, <2>3
<1>10. \A i \in 2 .. Len(frames) : frames[i].ip < CodeLen[frames[i].func]
  <2>1. \A i \in 2 .. Len(m_frames) - 1 : m_frames[i].ip < CodeLen[m_frames[i].func]
    BY DEF IInv, LinesInRange
  <2>2. \A i \in 2 .. Len(frames) : i = Len(m_frames) \/ i \in 2 .. Len(m_frames) - 1
    BY <1>1, <1>5
  <2>3. \A i \in 2 .. Len(m_frames) - 1 : i \in 1 .. Len(m_frames) - 1
    OBVIOUS
  <2>4. frames[Len(m_frames)].func = Top.func
    BY <1>1, <1>5
  <2> QED
    BY <1>0, <1>3, <1>5, <2>1, <2>2, <2>3, <2>4
<1>11. /\ PushFrame(f, args, frames, v, WindowEnd(m_frames, Len(m_frames)))
       /\ args + LocalSpace[f] <= StackReserve
  <2>1. PushFrame(f, Top.base + a, Advance(Top.ip + 1),
                  FillMissing(f, Top.base + a, Passed), m_size)
    BY <1>3
  <2>2. /\ Top.base + a = args /\ Advance(Top.ip + 1) = frames
        /\ FillMissing(f, Top.base + a, Passed) = v
    BY <1>0, <1>4, <1>6, <1>8
  <2>3. PushFrame(f, args, frames, v, m_size)
    BY <2>1, <2>2
  <2>4. Top.base + a + LocalSpace[f] <= StackReserve
    BY <1>3
  <2> QED
    BY <1>2, <2>2, <2>3, <2>4
<1>12. frames[1] = m_frames[1]
  BY <1>1, <1>5
<1> QED
  BY <1>1, <1>3, <1>5, <1>7, <1>9, <1>10, <1>11, <1>12, PushStep

(* The end of a call, and each step of the unwinding. *)
LEMMA PopStep ==
  ASSUME IInv, PopFrame, phase' = phase, Len(m_frames) >= 2, phase \in {"run", "unwind"},
         phase = "run" => Len(m_frames) > 2
  PROVE  IInv'
<1> DEFINE n == Len(m_frames)
<1>1. /\ m_frames \in Seq(Frame) /\ n \in 2 .. FrameReserve /\ FrameReserve \in Nat
      /\ m_values \in [Slot -> Value]
  BY CallStackAssumption DEF IInv, TypeOK
<1>2. /\ m_frames' \in Seq(Frame) /\ Len(m_frames') = n - 1
      /\ \A i \in 1 .. n - 1 : m_frames'[i] = m_frames[i]
  <2>1. m_frames' = SubSeq(m_frames, 1, Len(m_frames) - 1)
    BY DEF PopFrame
  <2> QED
    BY <1>1, <2>1, PopTop
<1>3. \A i \in 1 .. n - 1 : WindowEnd(m_frames', i) = WindowEnd(m_frames, i)
  BY <1>2 DEF WindowEnd
<1>4. m_size' = WindowEnd(m_frames, n - 1)
  BY <1>1 DEF IInv, FramesNest, PopFrame, Top
<1>5. m_size' \in 0 .. StackReserve
  BY <1>1, <1>4 DEF IInv, WindowsFit
<1>6. TypeOK'
  <2>1. m_values' \in [Slot -> Value]
    BY <1>1, ResizedType DEF PopFrame
  <2> QED
    BY <1>1, <1>2, <1>5, <2>1 DEF IInv, TypeOK
<1>7. FramesNest'
  <2>1. m_frames'[1] = BaseFrame
    BY <1>1, <1>2 DEF IInv, FramesNest
  <2>2. m_size' = WindowEnd(m_frames', Len(m_frames'))
    BY <1>1, <1>2, <1>3, <1>4
  <2>3. ASSUME NEW i \in 2 .. Len(m_frames')
        PROVE  /\ m_frames'[i].func \in Func
               /\ m_frames'[i].oldStackSize = WindowEnd(m_frames', i - 1)
               /\ m_frames'[i].base \in m_frames'[i - 1].base .. WindowEnd(m_frames', i - 1) - 1
    <3>1. i \in 2 .. n /\ i \in 1 .. n - 1 /\ i - 1 \in 1 .. n - 1 /\ i \in 1 .. Len(m_frames')
          /\ i - 1 \in 1 .. Len(m_frames')
      BY <1>1, <1>2
    <3> QED
      BY <1>2, <1>3, <3>1 DEF IInv, FramesNest
  <2> QED
    BY <2>1, <2>2, <2>3 DEF FramesNest
<1>8. PhaseOK'
  <2>1. CASE phase = "run"
    <3>1. n > 2 /\ n - 1 \in 2 .. n - 1 /\ n - 1 \in 1 .. Len(m_frames') /\ Len(m_frames') >= 2
      BY <1>1, <1>2, <2>1
    <3>2. m_frames[n - 1].ip < CodeLen[m_frames[n - 1].func] /\ m_frames[n - 1].func \in Func
          /\ m_frames[n - 1] \in Frame
      BY <1>1, <3>1 DEF IInv, LinesInRange, FramesNest
    <3>3. m_frames[n - 1].ip <= CodeLen[m_frames[n - 1].func]
      BY <3>2, CallStackAssumption DEF Frame
    <3> QED
      BY <1>2, <2>1, <3>1, <3>3 DEF PhaseOK, Top
  <2> QED
    BY <2>1 DEF PhaseOK
<1>9. LinesInRange'
  <2>1. ASSUME NEW i \in 2 .. Len(m_frames')
        PROVE  m_frames'[i].ip < CodeLen[m_frames'[i].func]
    <3>1. i \in 1 .. Len(m_frames') /\ i \in 2 .. Len(m_frames) - 1
      BY <1>1, <1>2
    <3>2. m_frames[i].ip < CodeLen[m_frames[i].func] /\ m_frames'[i] = m_frames[i]
      BY <1>2, <3>1 DEF IInv, LinesInRange
    <3> QED
      BY <3>2
  <2>2. \A i \in 2 .. Len(m_frames') - 1 : i \in 2 .. Len(m_frames')
    BY <1>1, <1>2
  <2>3. Len(m_frames') > 1 => Len(m_frames') \in 2 .. Len(m_frames')
    BY <1>1, <1>2
  <2> QED
    BY <2>1, <2>2, <2>3 DEF LinesInRange, Top
<1>10. EndsRestored'
  BY DEF EndsRestored
<1>11. WindowsFit'
  BY <1>1, <1>2, <1>3 DEF IInv, WindowsFit
<1> QED
  BY <1>6, <1>7, <1>8, <1>9, <1>10, <1>11 DEF IInv

LEMMA ReturnToCStep == ASSUME IInv, ReturnToC PROVE IInv'
<1>1. /\ m_frames \in Seq(Frame) /\ Len(m_frames) = 2 /\ m_frames[1] = BaseFrame
      /\ m_values \in [Slot -> Value]
      /\ Top.oldStackSize = WindowEnd(m_frames, 1)
  BY DEF IInv, TypeOK, FramesNest, ReturnToC, Top
<1>2. /\ m_frames' = <<BaseFrame>> /\ m_frames' \in Seq(Frame) /\ Len(m_frames') = 1
      /\ m_frames'[1] = BaseFrame
  <2>1. m_frames' = SubSeq(m_frames, 1, 1)
    BY DEF ReturnToC
  <2>2. m_frames' \in Seq(Frame) /\ Len(m_frames') = 1 /\ m_frames'[1] = BaseFrame
    BY <1>1, <2>1
  <2>3. <<BaseFrame>> \in Seq(Frame) /\ Len(<<BaseFrame>>) = 1 /\ <<BaseFrame>>[1] = BaseFrame
    BY DEF BaseFrame, Frame
  <2>4. m_frames' = <<BaseFrame>>
    BY <2>2, <2>3, SeqEqual
  <2> QED
    BY <2>2, <2>4
<1>3. m_size' = 1 /\ phase' = "done"
  BY <1>1, CallStackAssumption DEF WindowEnd, ReturnToC
<1>4. m_values' \in [Slot -> Value]
  BY <1>1, ResizedType DEF ReturnToC
<1>5. TypeOK'
  BY <1>2, <1>3, <1>4, CallStackAssumption DEF TypeOK, Phase
<1>6. WindowsFit'
  BY <1>2, CallStackAssumption DEF WindowsFit, WindowEnd
<1> QED
  BY <1>2, <1>3, <1>5, <1>6
     DEF IInv, PhaseOK, FramesNest, LinesInRange, EndsRestored

(* Steps that only change the phase. *)
LEMMA PhaseStep ==
  ASSUME IInv, UNCHANGED <<m_values, m_size, m_frames>>,
         \/ Running /\ phase' \in {"unwind", "undefined"}
         \/ Rethrow
         \/ phase' = phase
  PROVE  IInv'
<1>1. TypeOK'
  BY DEF IInv, TypeOK, Rethrow, Phase
<1>2. WindowsFit'
  BY DEF IInv, WindowsFit
<1>3. PhaseOK'
  BY DEF IInv, PhaseOK, Rethrow, Top
<1>4. FramesNest'
  BY DEF IInv, FramesNest, Running, Rethrow
<1>5. LinesInRange'
  BY DEF IInv, LinesInRange, Running, Rethrow, Top
<1>6. EndsRestored'
  <2>1. CASE Rethrow
    <3>1. m_frames \in Seq(Frame) /\ Len(m_frames) = 1 /\ m_frames[1] = BaseFrame
      BY <2>1 DEF IInv, TypeOK, FramesNest, Rethrow
    <3>2. m_frames = <<BaseFrame>>
      BY <3>1
    <3>3. m_size = 1 + NArgs
      BY <2>1, <3>1 DEF IInv, FramesNest, WindowEnd, Rethrow
    <3> QED
      BY <2>1, <3>2, <3>3 DEF EndsRestored, Rethrow
  <2>2. CASE ~ Rethrow
    BY <2>2 DEF IInv, EndsRestored
  <2> QED
    BY <2>1, <2>2
<1> QED
  BY <1>1, <1>2, <1>3, <1>4, <1>5, <1>6 DEF IInv

-----------------------------------------------------------------------------
LEMMA NextOK == ASSUME IInv, [Next]_vars PROVE IInv'
<1>1. CASE CallFromC
  BY <1>1, CallFromCStep
<1>2. ASSUME NEW d \in 0 .. StackReserve, NEW v \in Value, Assign(d, v) PROVE IInv'
  <2>1. /\ Running /\ m_frames' = Advance(Top.ip + 1)
        /\ m_size' = m_size /\ phase' = phase
        /\ m_values' = [m_values EXCEPT ![Top.base + d] = v]
    BY <1>2 DEF Assign
  <2>2. phase = "run" /\ Top.ip < CodeLen[Top.func]
    BY <2>1 DEF Running
  <2>3. Top.ip + 1 \in 0 .. CodeLen[Top.func] /\ m_values \in [Slot -> Value]
    BY <2>2, RunningBody
  <2>4. m_values' \in [Slot -> Value]
    BY <2>1, <2>3
  <2> QED
    BY <2>1, <2>3, <2>4, AdvanceStep
<1>3. ASSUME NEW ip \in 0 .. (IF Running THEN CodeLen[Top.func] ELSE 0), Goto(ip)
      PROVE IInv'
  <2>1. ip \in 0 .. CodeLen[Top.func] /\ m_values \in [Slot -> Value]
    BY <1>3 DEF Goto, IInv, TypeOK
  <2>2. /\ Running /\ m_frames' = Advance(ip) /\ m_size' = m_size /\ phase' = phase
        /\ m_values' \in [Slot -> Value]
    BY <1>3, <2>1 DEF Goto
  <2> QED
    BY <2>1, <2>2, AdvanceStep
<1>4. ASSUME NEW a \in 0 .. StackReserve, NEW v \in Value,
             CallCFunction(a, v)
      PROVE  IInv'
  <2>1. /\ Running /\ m_frames' = Advance(Top.ip + 1)
        /\ m_size' = m_size /\ phase' = phase
        /\ m_values' = [m_values EXCEPT ![Top.base + a] = v]
    BY <1>4 DEF CallCFunction, Arguments
  <2>2. phase = "run" /\ Top.ip < CodeLen[Top.func]
    BY <2>1 DEF Running
  <2>3. Top.ip + 1 \in 0 .. CodeLen[Top.func] /\ m_values \in [Slot -> Value]
    BY <2>2, RunningBody
  <2>4. m_values' \in [Slot -> Value]
    BY <2>1, <2>3
  <2> QED
    BY <2>1, <2>3, <2>4, AdvanceStep
<1>5. ASSUME NEW a \in 0 .. StackReserve, NEW f \in Func
      PROVE  (Call(f, a) => IInv') /\ (Overflow(f, a) => IInv')
  <2>1. a \in Nat
    BY CallStackAssumption
  <2>2. ASSUME Overflow(f, a) PROVE IInv'
    BY <2>2, PhaseStep DEF Overflow, Arguments
  <2> QED
    BY <2>1, <2>2, CallStep
<1>6. CASE Return
  BY <1>6, PopStep DEF Return, AtEnd
<1>7. CASE ReturnToC
  BY <1>7, ReturnToCStep
<1>8. CASE Throw
  BY <1>8, PhaseStep DEF Throw
<1>9. CASE Unwind
  <2>1. Len(m_frames) >= 2
    BY <1>9 DEF Unwind, IInv, TypeOK
  <2> QED
    BY <1>9, <2>1, PopStep DEF Unwind
<1>10. CASE Rethrow
  BY <1>10, PhaseStep DEF Rethrow
<1>11. CASE Terminated \/ UNCHANGED vars
  BY <1>11, PhaseStep DEF Terminated, vars
<1> QED
  BY <1>1, <1>2, <1>3, <1>4, <1>5, <1>6, <1>7, <1>8, <1>9, <1>10, <1>11 DEF Next

(* The strengthening that is inductive. *)
THEOREM InductiveInvariant == Spec => []IInv
<1>1. Init => IInv
  BY InitOK
<1>2. IInv /\ [Next]_vars => IInv'
  BY NextOK
<1> QED
  BY <1>1, <1>2, PTL DEF Spec

(* Every step of the machine keeps the types of its variables: in          *)
(* particular the stack and the frames never outgrow what was reserved.    *)
THEOREM TypeCorrect == Spec => []TypeOK
<1>1. IInv => TypeOK
  BY DEF IInv
<1> QED
  BY <1>1, InductiveInvariant, PTL

(* pushFrame and popFrame nest over every sequence of calls, returns and   *)
(* exceptions.                                                             *)
THEOREM Nesting == Spec => []FramesNest
<1>1. IInv => FramesNest
  BY DEF IInv
<1> QED
  BY <1>1, InductiveInvariant, PTL

(* execute finds a line for every frame it unwinds. *)
THEOREM Lines == Spec => []LinesInRange
<1>1. IInv => LinesInRange
  BY DEF IInv
<1> QED
  BY <1>1, InductiveInvariant, PTL

(* callFromC leaves the stack as it found it, whether it returns or throws.*)
THEOREM Restored == Spec => []EndsRestored
<1>1. IInv => EndsRestored
  BY DEF IInv
<1> QED
  BY <1>1, InductiveInvariant, PTL

-----------------------------------------------------------------------------
(* Windows lie one above the other. *)

(* Frames are pushed above, popped, or keep their bases. *)
LEMMA RiseStep ==
  ASSUME BasesRise, TypeOK, TypeOK',
         \A i \in 1 .. Len(m_frames') :
           i <= Len(m_frames) => m_frames'[i].base = m_frames[i].base,
         \/ Len(m_frames') <= Len(m_frames)
         \/ /\ Len(m_frames') = Len(m_frames) + 1
            /\ m_frames[Len(m_frames)].base <= m_frames'[Len(m_frames')].base
  PROVE  BasesRise'
<1>1. m_frames \in Seq(Frame) /\ m_frames' \in Seq(Frame)
      /\ Len(m_frames) \in Nat /\ Len(m_frames) >= 1
  BY DEF TypeOK
<1>2. \A i \in 1 .. Len(m_frames) : m_frames[i].base \in Nat
  <2>1. \A i \in 1 .. Len(m_frames) : m_frames[i] \in Frame
    BY <1>1
  <2> QED
    BY <2>1 DEF Frame
<1>3. \A i \in 1 .. Len(m_frames') : m_frames'[i].base \in Nat
  <2>1. \A i \in 1 .. Len(m_frames') : m_frames'[i] \in Frame
    BY <1>1
  <2> QED
    BY <2>1 DEF Frame
<1>4. ASSUME NEW i \in 1 .. Len(m_frames'), NEW j \in 1 .. Len(m_frames'), i <= j
      PROVE  m_frames'[i].base <= m_frames'[j].base
  <2>1. CASE j <= Len(m_frames)
    <3>1. i \in 1 .. Len(m_frames) /\ j \in 1 .. Len(m_frames)
      BY <1>1, <1>4, <2>1
    <3>2. m_frames[i].base <= m_frames[j].base
      BY <1>4, <3>1 DEF BasesRise
    <3> QED
      BY <1>4, <2>1, <3>1, <3>2
  <2>2. CASE j > Len(m_frames) /\ i <= Len(m_frames)
    <3>1. /\ i \in 1 .. Len(m_frames) /\ Len(m_frames) \in 1 .. Len(m_frames)
          /\ j = Len(m_frames')
      BY <1>1, <1>4, <2>2
    <3>2. m_frames[i].base <= m_frames[Len(m_frames)].base
      BY <3>1 DEF BasesRise
    <3>3. m_frames[Len(m_frames)].base <= m_frames'[j].base
      BY <1>1, <1>4, <2>2, <3>1
    <3>4. m_frames'[i].base = m_frames[i].base
      BY <2>2, <1>4
    <3> QED
      BY <1>2, <1>3, <1>4, <3>1, <3>2, <3>3, <3>4
  <2>3. CASE i > Len(m_frames)
    <3>1. i = j
      BY <1>1, <1>4, <2>3
    <3> QED
      BY <1>3, <3>1
  <2> QED
    BY <1>1, <1>4, <2>1, <2>2, <2>3
<1> QED
  BY <1>4 DEF BasesRise

(* What a call pushes, and what it leaves of the memory. *)
LEMMA CallFacts ==
  ASSUME IInv, NEW f \in Func, NEW a \in Nat, Call(f, a)
  PROVE  /\ phase = "run" /\ phase' = "run" /\ Running
         /\ Len(m_frames) \in Nat /\ Len(m_frames) >= 2 /\ Len(m_frames') = Len(m_frames) + 1
         /\ \A i \in 1 .. Len(m_frames) - 1 : m_frames'[i] = m_frames[i]
         /\ m_frames'[Len(m_frames)].func = Top.func
         /\ m_frames'[Len(m_frames)].base = Top.base
         /\ m_frames'[Len(m_frames)].ip = Top.ip + 1
         /\ m_frames'[Len(m_frames) + 1].func = f
         /\ m_frames'[Len(m_frames) + 1].base = Top.base + a
         /\ m_frames'[Len(m_frames) + 1].ip = 0
         /\ Passed \in Nat /\ a < LocalSpace[Top.func] /\ a + Passed <= LocalSpace[Top.func]
         /\ Top.base + a + LocalSpace[f] <= StackReserve
         /\ \A s \in Slot : s < Top.base + a + Passed => m_values'[s] = m_values[s]
         /\ \A s \in Slot : Top.base + a + Passed <= s /\ s < Top.base + a + ArgCount[f]
                              => m_values'[s] = Nil
<1>0. /\ phase = "run" /\ phase' = "run" /\ Running
  BY DEF Call, Arguments, Running
<1>1. /\ phase = "run" /\ phase' = "run" /\ m_frames \in Seq(Frame)
      /\ Len(m_frames) \in 2 .. FrameReserve
      /\ Top.func \in Func /\ LocalSpace[Top.func] \in Nat /\ CodeLen[Top.func] \in Nat
      /\ m_size = Top.base + LocalSpace[Top.func] /\ m_values \in [Slot -> Value]
      /\ Top = m_frames[Len(m_frames)] /\ Top.base \in Nat /\ Top.ip \in Nat
      /\ Top.ip < CodeLen[Top.func] /\ m_size \in 0 .. StackReserve
  BY <1>0, RunningBody DEF Running, Top
<1>2. /\ a < LocalSpace[Top.func] /\ a + Passed <= LocalSpace[Top.func]
      /\ Top.base + a + LocalSpace[f] <= StackReserve /\ Running
      /\ PushFrame(f, Top.base + a, Advance(Top.ip + 1),
                   FillMissing(f, Top.base + a, Passed), m_size)
  BY DEF Call, Arguments, Fits
<1>3. Passed \in Nat
  <2>1. ArgsAt[Top.func] \in [0 .. CodeLen[Top.func] - 1 -> Nat]
    BY <1>1, CallStackAssumption
  <2>2. Top.ip \in 0 .. CodeLen[Top.func] - 1
    BY <1>1
  <2> QED
    BY <2>1, <2>2 DEF Passed
<1>4. PICK frames : frames = Advance(Top.ip + 1)
  OBVIOUS
<1>5. PICK ip \in Nat : ip = Top.ip + 1
  BY <1>1
<1>6. Advanced(frames, ip)
  BY <1>1, <1>4, <1>5, AdvanceTop
<1>7. /\ frames \in Seq(Frame) /\ Len(frames) = Len(m_frames)
      /\ \A i \in 1 .. Len(m_frames) - 1 : frames[i] = m_frames[i]
      /\ frames[Len(m_frames)].func = Top.func /\ frames[Len(m_frames)].base = Top.base
      /\ frames[Len(m_frames)].ip = Top.ip + 1
  BY <1>1, <1>5, <1>6 DEF Advanced
<1>8. PICK e : e = [func |-> f, base |-> Top.base + a, oldStackSize |-> m_size, ip |-> 0]
  OBVIOUS
<1>9. /\ e \in Frame /\ e.func = f /\ e.base = Top.base + a /\ e.ip = 0
      /\ m_frames' = Append(frames, e)
  <2>1. m_frames' = Append(frames, e)
    BY <1>2, <1>4, <1>8 DEF PushFrame
  <2>2. PICK base \in Nat, size \in Nat : base = Top.base + a /\ size = m_size
    BY <1>1
  <2>3. e = [func |-> f, base |-> base, oldStackSize |-> size, ip |-> 0]
    BY <1>8, <2>2
  <2>4. e \in Frame /\ e.func = f /\ e.base = base /\ e.ip = 0
    BY <2>3 DEF Frame
  <2> QED
    BY <2>1, <2>2, <2>4
<1>10. /\ Len(m_frames') = Len(m_frames) + 1 /\ m_frames'[Len(m_frames) + 1] = e
       /\ \A i \in 1 .. Len(m_frames) : m_frames'[i] = frames[i]
  BY <1>7, <1>9, PushTop
<1>11. m_values' = Resized(FillMissing(f, Top.base + a, Passed), m_size, m_size')
  BY <1>2 DEF PushFrame
<1>12. \A s \in Slot : m_values'[s] =
         IF s \in m_size .. m_size' - 1 THEN Nil
         ELSE IF s \in Top.base + a + Passed .. Top.base + a + ArgCount[f] - 1
         THEN Nil ELSE m_values[s]
  BY <1>11 DEF Resized, FillMissing
<1>13. PICK base \in Nat, n \in Nat, space \in Nat, count \in Nat, size \in Nat :
         /\ base = Top.base /\ n = Passed /\ space = LocalSpace[Top.func]
         /\ count = ArgCount[f] /\ size = m_size
  <2>1. m_size \in Nat /\ ArgCount[f] \in Nat
    BY <1>1, CallStackAssumption
  <2>2. Top.base \in Nat /\ Passed \in Nat /\ LocalSpace[Top.func] \in Nat
    BY <1>1, <1>3
  <2> QED
    BY <2>1, <2>2
<1>14. Slot \subseteq Nat
  BY CallStackAssumption DEF Slot
<1>15. \A s \in Slot : m_values'[s] =
         IF s \in size .. m_size' - 1 THEN Nil
         ELSE IF s \in base + a + n .. base + a + count - 1 THEN Nil ELSE m_values[s]
  BY <1>12, <1>13
<1>16. /\ \A s \in Slot : s < base + a + n => m_values'[s] = m_values[s]
       /\ \A s \in Slot : base + a + n <= s /\ s < base + a + count => m_values'[s] = Nil
  <2>1. a + n <= space /\ size = base + space
    BY <1>1, <1>2, <1>13
  <2>2. ASSUME NEW s \in Slot, s < base + a + n PROVE m_values'[s] = m_values[s]
    <3>1. s \in Nat /\ s < size
      BY <1>14, <2>1, <2>2
    <3>2. s \notin size .. m_size' - 1 /\ s \notin base + a + n .. base + a + count - 1
      BY <2>2, <3>1
    <3> QED
      BY <1>15, <3>2
  <2>3. ASSUME NEW s \in Slot, base + a + n <= s, s < base + a + count
        PROVE  m_values'[s] = Nil
    <3>1. s \in base + a + n .. base + a + count - 1
      BY <1>14, <2>3
    <3> QED
      BY <1>15, <3>1
  <2> QED
    BY <2>2, <2>3
<1>17. Len(m_frames) \in Nat /\ Len(m_frames) >= 2 /\ Len(m_frames) \in 1 .. Len(m_frames)
       /\ \A i \in 1 .. Len(m_frames) - 1 : i \in 1 .. Len(m_frames)
  BY <1>1
<1> QED
  BY <1>0, <1>1, <1>2, <1>3, <1>7, <1>9, <1>10, <1>13, <1>16, <1>17

LEMMA RiseInit == ASSUME Init PROVE BasesRise
<1>1. m_frames = <<BaseFrame>> /\ Len(m_frames) = 1 /\ m_frames[1].base = 0
  BY DEF Init, BaseFrame
<1> QED
  BY <1>1 DEF BasesRise

LEMMA RiseNext == ASSUME IInv, IInv', BasesRise, [Next]_vars PROVE BasesRise'
<1>0. TypeOK /\ TypeOK' /\ m_frames \in Seq(Frame) /\ Len(m_frames) \in Nat
  BY DEF IInv, TypeOK
<1>1. ASSUME NEW ip \in Nat, m_frames' = Advance(ip), Len(m_frames) >= 1 PROVE BasesRise'
  <2>1. m_frames \in Seq(Frame) /\ Len(m_frames) >= 1 /\ m_frames' = Advance(ip)
    BY <1>0, <1>1
  <2>2. Advanced(m_frames', ip)
    BY <2>1, AdvanceTop
  <2>3. /\ Len(m_frames') = Len(m_frames)
        /\ \A i \in 1 .. Len(m_frames) : m_frames'[i].base = m_frames[i].base
    BY <2>2 DEF Advanced
  <2> QED
    BY <1>0, <2>3, RiseStep
<1>2. ASSUME Running, NEW ip \in 0 .. CodeLen[Top.func], m_frames' = Advance(ip)
      PROVE BasesRise'
  <2>1. Len(m_frames) >= 1
    BY <1>2, RunningBody DEF Running
  <2> QED
    BY <1>1, <1>2, <2>1
<1>3. ASSUME Running, m_frames' = Advance(Top.ip + 1) PROVE BasesRise'
  <2>1. Top.ip + 1 \in Nat /\ Len(m_frames) >= 1
    BY <1>3, RunningBody DEF Running
  <2> QED
    BY <1>1, <1>3, <2>1
<1>4. ASSUME NEW f \in Func, NEW a \in Nat, Call(f, a) PROVE BasesRise'
  <2>1. PICK n \in Nat : n = Len(m_frames) /\ n >= 2 /\ Len(m_frames') = n + 1
    BY <1>4, CallFacts
  <2>2. /\ \A i \in 1 .. n - 1 : m_frames'[i] = m_frames[i]
        /\ m_frames'[n].base = Top.base /\ m_frames[n].base = Top.base
        /\ m_frames'[n + 1].base = Top.base + a
    BY <1>4, <2>1, CallFacts DEF Top
  <2>3. Top.base \in Nat
    BY <1>4, CallFacts, RunningBody
  <2>4. \A i \in 1 .. Len(m_frames') :
          i <= Len(m_frames) => m_frames'[i].base = m_frames[i].base
    <3>1. \A i \in 1 .. n : i = n \/ i \in 1 .. n - 1
      BY <2>1
    <3> QED
      BY <2>1, <2>2, <3>1
  <2>5. m_frames[Len(m_frames)].base <= m_frames'[Len(m_frames')].base
    BY <2>1, <2>2, <2>3
  <2> QED
    BY <1>0, <2>1, <2>4, <2>5, RiseStep
<1>5. ASSUME m_frames' = SubSeq(m_frames, 1, Len(m_frames) - 1), Len(m_frames) >= 2
      PROVE BasesRise'
  <2>1. /\ Len(m_frames') = Len(m_frames) - 1
        /\ \A i \in 1 .. Len(m_frames') : m_frames'[i] = m_frames[i]
    BY <1>0, <1>5, PopTop
  <2> QED
    BY <1>0, <2>1, RiseStep
<1>6. CASE CallFromC
  <2>1. m_frames = <<BaseFrame>> /\ Len(m_frames) = 1 /\ m_frames[1].base = 0
    BY <1>6 DEF IInv, PhaseOK, CallFromC, BaseFrame
  <2>2. PICK e : /\ e = [func |-> Script, base |-> 0, oldStackSize |-> 1 + NArgs, ip |-> 0]
                 /\ m_frames' = Append(m_frames, e)
    BY <1>6 DEF CallFromC, PushFrame
  <2>3. e.base = 0 /\ e \in Frame
    BY <2>2, CallStackAssumption DEF Frame
  <2>4. /\ Len(m_frames') = 2 /\ m_frames'[1] = m_frames[1] /\ m_frames'[2] = e
    BY <1>0, <2>1, <2>2, <2>3, PushTop
  <2>5. \A i \in 1 .. Len(m_frames') : i <= Len(m_frames) => i = 1
    BY <2>1, <2>4
  <2>6. /\ Len(m_frames') = Len(m_frames) + 1
        /\ m_frames[Len(m_frames)].base <= m_frames'[Len(m_frames')].base
    BY <2>1, <2>3, <2>4
  <2> QED
    BY <1>0, <2>4, <2>5, <2>6, RiseStep
<1>7. CASE \/ \E d \in 0 .. StackReserve, v \in Value : Assign(d, v)
           \/ \E a \in 0 .. StackReserve, v \in Value : CallCFunction(a, v)
  BY <1>3, <1>7 DEF Assign, CallCFunction, Arguments
<1>8. CASE \E ip \in 0 .. (IF Running THEN CodeLen[Top.func] ELSE 0) : Goto(ip)
  BY <1>2, <1>8 DEF Goto
<1>9. CASE \E a \in 0 .. StackReserve, f \in Func : Call(f, a)
  <2>1. 0 .. StackReserve \subseteq Nat
    BY CallStackAssumption
  <2> QED
    BY <1>4, <1>9, <2>1
<1>10. CASE Return \/ Unwind \/ ReturnToC
  <2>1. m_frames' = SubSeq(m_frames, 1, Len(m_frames) - 1) /\ Len(m_frames) >= 2
    <3>1. CASE Return
      BY <1>0, <3>1 DEF Return, PopFrame
    <3>2. CASE Unwind
      BY <1>0, <3>2 DEF Unwind, PopFrame
    <3>3. CASE ReturnToC
      <4>1. Len(m_frames) = 2 /\ m_frames' = SubSeq(m_frames, 1, 1)
        BY <3>3 DEF ReturnToC
      <4> QED
        BY <4>1
    <3> QED
      BY <1>10, <3>1, <3>2, <3>3
  <2> QED
    BY <1>5, <2>1
<1>11. CASE UNCHANGED m_frames
  BY <1>11 DEF BasesRise
<1>12. (\E a \in 0 .. StackReserve, f \in Func : Overflow(f, a)) \/ Throw \/ Rethrow \/ Terminated
         \/ UNCHANGED vars => UNCHANGED m_frames
  BY DEF Overflow, Throw, Rethrow, Terminated, vars
<1> QED
  BY <1>6, <1>7, <1>8, <1>9, <1>10, <1>11, <1>12 DEF Next

-----------------------------------------------------------------------------
(* What the refinement mapping makes of a running state. *)

Activity == [func : Func, ip : Nat, locals : Seq(Value)]

(* The end of what LocalsOf(i) shows. *)
LocalsEnd(i) ==
  IF i = Len(m_frames) THEN WindowEnd(m_frames, i) ELSE m_frames[i + 1].base

Shape ==
  phase = "run" =>
    /\ \A i \in 2 .. Len(m_frames) :
         /\ m_frames[i].base \in Nat /\ LocalsEnd(i) \in m_frames[i].base .. StackReserve
         /\ LocalsOf(i) \in Seq(Value)
         /\ Len(LocalsOf(i)) = LocalsEnd(i) - m_frames[i].base
         /\ \A j \in 1 .. Len(LocalsOf(i)) :
              LocalsOf(i)[j] = m_values[m_frames[i].base + j - 1]
    /\ Acts \in Seq(Activity) /\ Len(Acts) = Len(m_frames) - 1
    /\ \A i \in 1 .. Len(m_frames) - 1 :
         /\ Acts[i].func = m_frames[i + 1].func
         /\ Acts[i].ip = m_frames[i + 1].ip
         /\ Acts[i].locals = LocalsOf(i + 1)

LEMMA ShapeHolds == ASSUME IInv PROVE Shape
<1>1. SUFFICES ASSUME phase = "run" PROVE Shape
  BY DEF Shape
<1>2. /\ m_frames \in Seq(Frame) /\ Len(m_frames) \in Nat /\ Len(m_frames) >= 2
      /\ m_values \in [Slot -> Value] /\ StackReserve \in Nat
  BY <1>1, RunningBody, CallStackAssumption DEF IInv, TypeOK
<1>3. ASSUME NEW i \in 2 .. Len(m_frames)
      PROVE  /\ m_frames[i].base \in Nat /\ LocalsEnd(i) \in m_frames[i].base .. StackReserve
             /\ m_frames[i].func \in Func /\ m_frames[i].ip \in Nat
  <2>1. i \in 1 .. Len(m_frames) /\ m_frames[i] \in Frame
    BY <1>2
  <2>2. m_frames[i].base \in Nat /\ m_frames[i].ip \in Nat
    BY <2>1 DEF Frame
  <2>3. m_frames[i].func \in Func
    BY DEF IInv, FramesNest
  <2>4. /\ WindowEnd(m_frames, i) = m_frames[i].base + LocalSpace[m_frames[i].func]
        /\ WindowEnd(m_frames, i) \in 0 .. StackReserve
        /\ LocalSpace[m_frames[i].func] \in Nat
    BY <2>1, <2>3, CallStackAssumption DEF WindowEnd, IInv, WindowsFit
  <2>7. PICK base \in Nat, space \in Nat, end \in Nat, max \in Nat :
          /\ base = m_frames[i].base /\ space = LocalSpace[m_frames[i].func]
          /\ end = base + space /\ end = WindowEnd(m_frames, i)
          /\ max = StackReserve /\ end <= max
    BY <1>2, <2>2, <2>4
  <2>5. CASE i = Len(m_frames)
    <3>1. LocalsEnd(i) = end
      BY <2>5, <2>7 DEF LocalsEnd
    <3>2. end \in base .. max
      BY <2>7
    <3> QED
      BY <2>2, <2>3, <2>7, <3>1, <3>2
  <2>6. CASE i # Len(m_frames)
    <3>1. i + 1 \in 2 .. Len(m_frames) /\ (i + 1) - 1 = i
      BY <1>2, <2>6
    <3>2. m_frames[i + 1].base \in m_frames[i].base .. WindowEnd(m_frames, i) - 1
      BY <3>1 DEF IInv, FramesNest
    <3>3. PICK b \in Nat : b = LocalsEnd(i) /\ b \in base .. end - 1
      <4>1. LocalsEnd(i) = m_frames[i + 1].base
        BY <2>6 DEF LocalsEnd
      <4>2. LocalsEnd(i) \in base .. end - 1
        BY <2>7, <3>2, <4>1
      <4> QED
        BY <2>7, <4>2
    <3>4. b \in base .. max
      BY <2>7, <3>3
    <3> QED
      BY <2>2, <2>3, <2>7, <3>3, <3>4
  <2> QED
    BY <2>2, <2>3, <2>5, <2>6
<1>4. ASSUME NEW i \in 2 .. Len(m_frames)
      PROVE  /\ LocalsOf(i) \in Seq(Value)
             /\ Len(LocalsOf(i)) = LocalsEnd(i) - m_frames[i].base
             /\ \A j \in 1 .. Len(LocalsOf(i)) :
                  LocalsOf(i)[j] = m_values[m_frames[i].base + j - 1]
  <2>1. PICK base \in Nat, end \in Nat :
          /\ base = m_frames[i].base /\ end = LocalsEnd(i) /\ base <= end /\ end <= StackReserve
    BY <1>2, <1>3
  <2> DEFINE s(j) == m_values[base + j - 1]
             k == end - base
  <2>2. LocalsOf(i) = [j \in 1 .. k |-> s(j)]
    BY <2>1 DEF LocalsOf, LocalsEnd
  <2>3. ASSUME NEW j \in 1 .. k PROVE s(j) \in Value
    <3>1. base + j - 1 \in Slot
      <4>1. PICK max \in Nat : max = StackReserve /\ end <= max
        BY <2>1, CallStackAssumption
      <4>2. base + j - 1 \in 0 .. max - 1
        BY <2>1, <4>1
      <4> QED
        BY <4>1, <4>2 DEF Slot
    <3>2. m_values \in [Slot -> Value]
      BY <1>2
    <3> QED
      BY <3>1, <3>2
  <2>4. k \in Nat
    BY <2>1
  <2> HIDE DEF s, k
  <2>5. /\ [j \in 1 .. k |-> s(j)] \in Seq(Value) /\ Len([j \in 1 .. k |-> s(j)]) = k
        /\ \A j \in 1 .. k : [j1 \in 1 .. k |-> s(j1)][j] = s(j)
    BY <2>3, <2>4
  <2> QED
    BY <2>1, <2>2, <2>5 DEF k, s
<1>5. /\ Acts \in Seq(Activity) /\ Len(Acts) = Len(m_frames) - 1
      /\ \A i \in 1 .. Len(m_frames) - 1 :
           /\ Acts[i].func = m_frames[i + 1].func
           /\ Acts[i].ip = m_frames[i + 1].ip
           /\ Acts[i].locals = LocalsOf(i + 1)
  <2> DEFINE r(i) == [func |-> m_frames[i + 1].func, ip |-> m_frames[i + 1].ip,
                      locals |-> LocalsOf(i + 1)]
             k == Len(m_frames) - 1
  <2>1. Acts = [i \in 1 .. k |-> r(i)] /\ k \in Nat
    BY <1>1, <1>2 DEF Acts
  <2>2. ASSUME NEW i \in 1 .. k
        PROVE  /\ r(i) \in Activity
               /\ r(i).func = m_frames[i + 1].func /\ r(i).ip = m_frames[i + 1].ip
               /\ r(i).locals = LocalsOf(i + 1)
    <3>1. i + 1 \in 2 .. Len(m_frames)
      BY <1>2
    <3>2. m_frames[i + 1].func \in Func /\ m_frames[i + 1].ip \in Nat
      BY <1>3, <3>1
    <3>3. LocalsOf(i + 1) \in Seq(Value)
      BY <1>4, <3>1
    <3> QED
      BY <3>2, <3>3 DEF Activity
  <2> HIDE DEF r
  <2>3. /\ [i \in 1 .. k |-> r(i)] \in Seq(Activity) /\ Len([i \in 1 .. k |-> r(i)]) = k
        /\ \A i \in 1 .. k : [j \in 1 .. k |-> r(j)][i] = r(i)
    <3> HIDE DEF k
    <3> QED
      BY <2>1, <2>2
  <2> QED
    BY <2>1, <2>2, <2>3
<1> QED
  BY <1>3, <1>4, <1>5 DEF Shape

(* Two activities of one function, at one instruction, with equal locals.  *)
LEMMA SameActivity ==
  ASSUME NEW x \in Activity, NEW y \in Activity,
         x.func = y.func, x.ip = y.ip, x.locals = y.locals
  PROVE  x = y
  BY DEF Activity

(* The top activation goes on to another instruction. *)
LEMMA IpExcept ==
  ASSUME NEW acts \in Seq(Activity), NEW bcts \in Seq(Activity), NEW k \in Nat, k >= 1,
         Len(acts) = k, Len(bcts) = k, \A i \in 1 .. k - 1 : bcts[i] = acts[i],
         bcts[k].func = acts[k].func, bcts[k].locals = acts[k].locals
  PROVE  bcts = [acts EXCEPT ![k].ip = bcts[k].ip]
<1>1. PICK e : e = [acts[k] EXCEPT !.ip = bcts[k].ip]
  OBVIOUS
<1>2. k \in 1 .. k /\ acts[k] \in Activity /\ bcts[k] \in Activity
  OBVIOUS
<1>3. e \in Activity /\ e.func = acts[k].func /\ e.ip = bcts[k].ip /\ e.locals = acts[k].locals
  BY <1>1, <1>2 DEF Activity
<1>4. bcts[k] = e
  BY <1>2, <1>3, SameActivity
<1>5. [acts EXCEPT ![k].ip = bcts[k].ip] = [acts EXCEPT ![k] = e]
  BY <1>1
<1>6. /\ [acts EXCEPT ![k] = e] \in Seq(Activity) /\ Len([acts EXCEPT ![k] = e]) = k
      /\ \A i \in 1 .. k : [acts EXCEPT ![k] = e][i] = bcts[i]
  BY <1>2, <1>3, <1>4
<1> QED
  BY <1>5, <1>6, SeqEqual

(* The same, and one of its locals changes. *)
Updated(acts, k, ip, d, v) == [acts EXCEPT ![k].ip = ip, ![k].locals[d] = v]

TopChanged(acts, bcts, k, d, v) ==
  /\ acts \in Seq(Activity) /\ bcts \in Seq(Activity) /\ k \in Nat /\ k >= 1
  /\ Len(acts) = k /\ Len(bcts) = k /\ \A i \in 1 .. k - 1 : bcts[i] = acts[i]
  /\ bcts[k].func = acts[k].func
  /\ bcts[k].locals = [acts[k].locals EXCEPT ![d] = v]

LEMMA LocalExcept ==
  ASSUME NEW acts, NEW bcts, NEW k, NEW d, NEW v, TopChanged(acts, bcts, k, d, v)
  PROVE  bcts = Updated(acts, k, bcts[k].ip, d, v)
<1> USE DEF TopChanged
<1>1. PICK e : e = [acts[k] EXCEPT !.ip = bcts[k].ip, !.locals[d] = v]
  OBVIOUS
<1>2. k \in 1 .. k /\ acts[k] \in Activity /\ bcts[k] \in Activity
  OBVIOUS
<1>3. /\ e \in Activity /\ e.func = acts[k].func /\ e.ip = bcts[k].ip
      /\ e.locals = [acts[k].locals EXCEPT ![d] = v]
  <2>1. /\ DOMAIN acts[k] = {"func", "ip", "locals"}
        /\ acts[k] = [func |-> acts[k].func, ip |-> acts[k].ip, locals |-> acts[k].locals]
    BY <1>2 DEF Activity
  <2>2. e = [func |-> acts[k].func, ip |-> bcts[k].ip, locals |-> bcts[k].locals]
    BY <1>1, <2>1
  <2>3. /\ acts[k].func \in Func /\ bcts[k].ip \in Nat /\ bcts[k].locals \in Seq(Value)
        /\ bcts[k].locals = [acts[k].locals EXCEPT ![d] = v]
    BY <1>2 DEF Activity
  <2> QED
    BY <2>2, <2>3 DEF Activity
<1>4. bcts[k] = e
  BY <1>2, <1>3, SameActivity
<1>5. Updated(acts, k, bcts[k].ip, d, v) = [acts EXCEPT ![k] = e]
  <2>1. acts \in [1 .. k -> Activity] /\ k \in 1 .. k
    OBVIOUS
  <2> HIDE DEF TopChanged
  <2> QED
    BY <1>1, <2>1 DEF Updated
<1>6. /\ [acts EXCEPT ![k] = e] \in Seq(Activity) /\ Len([acts EXCEPT ![k] = e]) = k
      /\ \A i \in 1 .. k : [acts EXCEPT ![k] = e][i] = bcts[i]
  BY <1>2, <1>3, <1>4
<1> QED
  BY <1>5, <1>6, SeqEqual

-----------------------------------------------------------------------------
(* Steps within a body. *)

(* Activations whose slots a step leaves alone keep their locals. *)
LEMMA SameLocals ==
  ASSUME Shape, Shape', phase = "run", phase' = "run",
         NEW i \in 2 .. Len(m_frames), i \in 2 .. Len(m_frames'),
         m_frames'[i].base = m_frames[i].base, LocalsEnd(i)' = LocalsEnd(i),
         \A s \in Slot : m_frames[i].base <= s /\ s < LocalsEnd(i) => m_values'[s] = m_values[s]
  PROVE  LocalsOf(i)' = LocalsOf(i)
<1>1. PICK base \in Nat, end \in Nat :
        base = m_frames[i].base /\ end = LocalsEnd(i) /\ end <= StackReserve
  <2>1. m_frames[i].base \in Nat /\ LocalsEnd(i) \in m_frames[i].base .. StackReserve
    BY DEF Shape
  <2> QED
    BY <2>1, CallStackAssumption
<1>2. /\ LocalsOf(i) \in Seq(Value) /\ Len(LocalsOf(i)) = end - base
      /\ \A j \in 1 .. Len(LocalsOf(i)) : LocalsOf(i)[j] = m_values[base + j - 1]
  BY <1>1 DEF Shape
<1>3. /\ LocalsOf(i)' \in Seq(Value) /\ Len(LocalsOf(i)') = end - base
      /\ \A j \in 1 .. Len(LocalsOf(i)') : LocalsOf(i)'[j] = m_values'[base + j - 1]
  BY <1>1 DEF Shape
<1>4. ASSUME NEW j \in 1 .. Len(LocalsOf(i)) PROVE LocalsOf(i)'[j] = LocalsOf(i)[j]
  <2>1. base + j - 1 \in Nat /\ base <= base + j - 1 /\ base + j - 1 < end
    BY <1>2
  <2>3. base + j - 1 \in Slot
    BY <1>1, <2>1, CallStackAssumption DEF Slot
  <2>2. m_values'[base + j - 1] = m_values[base + j - 1]
    BY <1>1, <2>1, <2>3
  <2> QED
    BY <1>2, <1>3, <2>2
<1> HIDE DEF LocalsOf
<1> QED
  BY <1>2, <1>3, <1>4, SeqEqual

(* What the abstract machine sees of a running one. *)
LEMMA RunningTop ==
  ASSUME IInv, Shape, phase = "run"
  PROVE  /\ Len(Acts) \in Nat /\ Len(Acts) >= 1 /\ Len(m_frames) = Len(Acts) + 1
         /\ Status = "running"
         /\ Separate!Top = Acts[Len(Acts)]
         /\ Separate!Top.func = Top.func /\ Separate!Top.ip = Top.ip
         /\ Separate!Top.locals = LocalsOf(Len(m_frames))
         /\ Len(LocalsOf(Len(m_frames))) = LocalSpace[Top.func]
<1>1. /\ Len(m_frames) \in 2 .. FrameReserve /\ Top.base \in Nat
      /\ LocalSpace[Top.func] \in Nat /\ m_size = Top.base + LocalSpace[Top.func]
  BY RunningBody
<1>2. Acts \in Seq(Activity) /\ Len(Acts) = Len(m_frames) - 1
  BY DEF Shape
<1>3. Len(Acts) \in 1 .. Len(m_frames) - 1 /\ Len(m_frames) = Len(Acts) + 1
  BY <1>1, <1>2
<1>4. /\ Acts[Len(Acts)].func = Top.func /\ Acts[Len(Acts)].ip = Top.ip
      /\ Acts[Len(Acts)].locals = LocalsOf(Len(m_frames))
  BY <1>3 DEF Shape, Top
<1>5. WindowEnd(m_frames, Len(m_frames)) = Top.base + LocalSpace[Top.func]
  BY <1>1 DEF WindowEnd, Top
<1>6. Len(LocalsOf(Len(m_frames))) = LocalSpace[Top.func]
  <2>1. Len(m_frames) \in 2 .. Len(m_frames)
    BY <1>1
  <2>2. Len(LocalsOf(Len(m_frames))) = LocalsEnd(Len(m_frames)) - m_frames[Len(m_frames)].base
    BY <2>1 DEF Shape
  <2>3. LocalsEnd(Len(m_frames)) = Top.base + LocalSpace[Top.func]
    BY <1>5 DEF LocalsEnd
  <2>4. PICK b \in Nat, l \in Nat : b = Top.base /\ l = LocalSpace[Top.func]
    BY <1>1
  <2>5. b + l - b = l
    OBVIOUS
  <2> QED
    BY <2>2, <2>3, <2>4, <2>5 DEF Top
<1>7. Status = "running"
  BY DEF Status
<1>8. Separate!Top = Acts[Len(Acts)]
  BY DEF Separate!Top
<1> QED
  BY <1>1, <1>3, <1>4, <1>6, <1>7, <1>8

LEMMA WithinStep ==
  ASSUME IInv, IInv', Shape, Shape', BasesRise, Running,
         NEW ip \in 0 .. CodeLen[Top.func], m_frames' = Advance(ip), phase' = phase,
         NEW d \in Nat, NEW v \in Value, d = 0 \/ d < LocalSpace[Top.func],
         m_values' = m_values \/ m_values' = [m_values EXCEPT ![Top.base + d] = v]
  PROVE  Separate!Step
<1>1. /\ phase = "run" /\ phase' = "run" /\ m_frames \in Seq(Frame)
      /\ Len(m_frames) \in 2 .. FrameReserve /\ Top = m_frames[Len(m_frames)]
      /\ Top.func \in Func /\ LocalSpace[Top.func] \in Nat /\ Top.base \in Nat
      /\ m_values \in [Slot -> Value] /\ CodeLen[Top.func] \in Nat
      /\ m_size = Top.base + LocalSpace[Top.func] /\ m_size <= StackReserve /\ ip \in Nat
  BY RunningBody, CallStackAssumption DEF Running, Top
<1>2. PICK n \in Nat : n = Len(m_frames) /\ n >= 2
  BY <1>1
<1>3. Advanced(m_frames', ip)
  <2>1. m_frames \in Seq(Frame) /\ Len(m_frames) >= 1 /\ m_frames' = Advance(ip) /\ ip \in Nat
    BY <1>1
  <2> QED
    BY <2>1, AdvanceTop
<1>4. /\ Len(m_frames') = n
      /\ \A i \in 1 .. n : m_frames'[i].func = m_frames[i].func /\ m_frames'[i].base = m_frames[i].base
      /\ \A i \in 1 .. n - 1 : m_frames'[i] = m_frames[i]
      /\ m_frames'[n].ip = ip
  BY <1>2, <1>3 DEF Advanced
<1>5. \A i \in 2 .. n : LocalsEnd(i)' = LocalsEnd(i)
  <2>1. \A i \in 2 .. n : i \in 1 .. n /\ (i # n => i + 1 \in 1 .. n)
    BY <1>2
  <2>2. \A i \in 1 .. n : WindowEnd(m_frames', i) = WindowEnd(m_frames, i)
    BY <1>4 DEF WindowEnd
  <2> QED
    BY <1>2, <1>4, <2>1, <2>2 DEF LocalsEnd
<1>6. ASSUME NEW i \in 2 .. n - 1 PROVE LocalsOf(i)' = LocalsOf(i)
  <2>1. i \in 2 .. Len(m_frames) /\ i \in 2 .. Len(m_frames') /\ i \in 1 .. n
        /\ i + 1 \in 1 .. n /\ i # n
    BY <1>2, <1>4
  <2>2. LocalsEnd(i) = m_frames[i + 1].base
    BY <1>2, <2>1 DEF LocalsEnd
  <2>3. m_frames[i + 1].base <= Top.base
    <3>1. n \in 1 .. n /\ i + 1 <= n
      BY <1>2
    <3> QED
      BY <1>1, <1>2, <2>1, <3>1 DEF BasesRise
  <2>4. LocalsEnd(i) \in Nat
    <3>1. i + 1 \in 1 .. Len(m_frames)
      BY <1>2, <2>1
    <3>2. m_frames[i + 1] \in Frame
      BY <1>1, <3>1
    <3> QED
      BY <2>2, <3>2 DEF Frame
  <2>5. ASSUME NEW s \in Slot, s < LocalsEnd(i) PROVE m_values'[s] = m_values[s]
    <3>0. s \in Nat
      BY CallStackAssumption DEF Slot
    <3>1. s < Top.base
      BY <1>1, <2>2, <2>3, <2>4, <2>5, <3>0
    <3>2. s # Top.base + d
      BY <1>1, <3>0, <3>1
    <3> QED
      BY <1>1, <3>2
  <2> QED
    BY <1>1, <1>4, <1>5, <2>1, <2>5, SameLocals
<1>7. Len(Acts) = n - 1 /\ Len(Acts') = n - 1 /\ Acts \in Seq(Activity) /\ Acts' \in Seq(Activity)
  BY <1>1, <1>2, <1>4 DEF Shape
<1>8. PICK k \in Nat : k = n - 1 /\ k >= 1 /\ k = Len(Acts) /\ k = Len(Acts') /\ n = k + 1
  BY <1>2, <1>7
<1>9. /\ \A i \in 1 .. k : /\ Acts[i].func = m_frames[i + 1].func
                           /\ Acts[i].ip = m_frames[i + 1].ip
                           /\ Acts[i].locals = LocalsOf(i + 1)
      /\ \A i \in 1 .. k : /\ Acts'[i].func = m_frames'[i + 1].func
                           /\ Acts'[i].ip = m_frames'[i + 1].ip
                           /\ Acts'[i].locals = LocalsOf(i + 1)'
  BY <1>1, <1>2, <1>4, <1>8 DEF Shape
<1>10. ASSUME NEW i \in 1 .. k - 1 PROVE Acts'[i] = Acts[i]
  <2>1. i \in 1 .. k /\ i + 1 \in 2 .. n - 1 /\ i + 1 \in 1 .. n - 1
    BY <1>8
  <2>2. Acts[i] \in Activity /\ Acts'[i] \in Activity
    BY <1>7, <1>8, <2>1
  <2>3. m_frames'[i + 1] = m_frames[i + 1] /\ LocalsOf(i + 1)' = LocalsOf(i + 1)
    BY <1>4, <1>6, <2>1
  <2> QED
    BY <1>9, <2>1, <2>2, <2>3, SameActivity
<1>11. Acts'[k].func = Acts[k].func /\ Acts'[k].ip = ip
  <2>1. k \in 1 .. k /\ n \in 1 .. n
    BY <1>2, <1>8
  <2> QED
    BY <1>4, <1>8, <1>9, <2>1
<1>12. /\ Separate!Top = Acts[k] /\ Separate!Top.func = Top.func /\ Separate!Top.ip = Top.ip
       /\ Status = "running" /\ Status' = Status /\ Len(LocalsOf(n)) = LocalSpace[Top.func]
       /\ Acts[k].locals = LocalsOf(n)
  BY <1>1, <1>2, <1>8, RunningTop DEF Status
<1>13. Separate!Running
  BY <1>12 DEF Separate!Running, Running
<1>14. n \in 2 .. n /\ n \in 2 .. Len(m_frames) /\ n \in 2 .. Len(m_frames')
  BY <1>2, <1>4
<1>15. m_frames'[n].base = m_frames[n].base /\ LocalsEnd(n)' = LocalsEnd(n)
  <2>1. n \in 1 .. n
    BY <1>2
  <2> QED
    BY <1>4, <1>5, <1>14, <2>1
<1>16. LocalsEnd(n) = Top.base + LocalSpace[Top.func]
  BY <1>1, <1>2 DEF LocalsEnd, WindowEnd
<1>17. PICK b \in Nat, l \in Nat : b = Top.base /\ l = LocalSpace[Top.func]
  BY <1>1
<1>18. CASE m_values' = m_values \/ ~ (d < LocalSpace[Top.func])
  <2>1. ASSUME NEW s \in Slot, m_frames[n].base <= s, s < LocalsEnd(n)
        PROVE  m_values'[s] = m_values[s]
    <3>0. s \in Nat
      BY CallStackAssumption DEF Slot
    <3>1. b <= s /\ s < b + l
      BY <1>1, <1>2, <1>16, <1>17, <2>1
    <3>2. CASE ~ (d < LocalSpace[Top.func])
      <4>1. d = 0 /\ l <= 0
        BY <1>17, <3>2
      <4> QED
        BY <3>0, <3>1, <4>1
    <3> QED
      BY <1>18, <3>2
  <2>2. LocalsOf(n)' = LocalsOf(n)
    BY <1>1, <1>14, <1>15, <2>1, SameLocals
  <2>3. Acts'[k].locals = Acts[k].locals
    <3>1. k \in 1 .. k
      BY <1>8
    <3> QED
      BY <1>8, <1>9, <2>2, <3>1
  <2>4. Acts' = [Acts EXCEPT ![k].ip = ip]
    <3>1. PICK acts \in Seq(Activity), bcts \in Seq(Activity) : acts = Acts /\ bcts = Acts'
      BY <1>7
    <3>2. bcts = [acts EXCEPT ![k].ip = bcts[k].ip]
      <4>1. /\ k \in Nat /\ k >= 1 /\ Len(acts) = k /\ Len(bcts) = k
            /\ \A i \in 1 .. k - 1 : bcts[i] = acts[i]
            /\ bcts[k].func = acts[k].func /\ bcts[k].locals = acts[k].locals
        BY <1>8, <1>10, <1>11, <2>3, <3>1
      <4> QED
        BY <4>1, IpExcept
    <3> QED
      BY <1>11, <3>1, <3>2
  <2> QED
    BY <1>8, <1>12, <1>13, <2>4 DEF Separate!Step
<1>19. CASE d < LocalSpace[Top.func] /\ m_values' = [m_values EXCEPT ![Top.base + d] = v]
  <2>1. /\ LocalsOf(n) \in Seq(Value) /\ LocalsOf(n)' \in Seq(Value)
        /\ Len(LocalsOf(n)) = l /\ Len(LocalsOf(n)') = l
        /\ \A j \in 1 .. l : LocalsOf(n)[j] = m_values[b + j - 1]
        /\ \A j \in 1 .. l : LocalsOf(n)'[j] = m_values'[b + j - 1]
    <3>1. /\ LocalsOf(n) \in Seq(Value) /\ LocalsOf(n)' \in Seq(Value)
          /\ Len(LocalsOf(n)') = LocalsEnd(n)' - m_frames'[n].base
          /\ Len(LocalsOf(n)) = LocalsEnd(n) - m_frames[n].base
          /\ \A j \in 1 .. Len(LocalsOf(n)) : LocalsOf(n)[j] = m_values[m_frames[n].base + j - 1]
          /\ \A j \in 1 .. Len(LocalsOf(n)') : LocalsOf(n)'[j] = m_values'[m_frames'[n].base + j - 1]
      BY <1>1, <1>14 DEF Shape
    <3>2. m_frames[n].base = b /\ LocalsEnd(n) = b + l /\ b + l - b = l
      BY <1>1, <1>2, <1>16, <1>17
    <3> QED
      BY <1>15, <3>1, <3>2
  <2>2. d + 1 \in 1 .. l /\ d + 1 \in 1 .. Len(LocalsOf(n))
    BY <1>17, <1>19, <2>1
  <2>3. ASSUME NEW j \in 1 .. l
        PROVE  LocalsOf(n)'[j] = [LocalsOf(n) EXCEPT ![d + 1] = v][j]
    <3>1. b + j - 1 \in Slot
      <4>1. b + l <= StackReserve /\ StackReserve \in Nat
        BY <1>1, <1>17, CallStackAssumption
      <4> QED
        BY <4>1 DEF Slot
    <3>2. m_values'[b + j - 1] = IF b + j - 1 = b + d THEN v ELSE m_values[b + j - 1]
      BY <1>1, <1>17, <1>19, <3>1
    <3>3. b + j - 1 = b + d <=> j = d + 1
      OBVIOUS
    <3>4. [LocalsOf(n) EXCEPT ![d + 1] = v][j] = IF j = d + 1 THEN v ELSE LocalsOf(n)[j]
      BY <2>1, <2>2
    <3> QED
      BY <2>1, <3>2, <3>3, <3>4
  <2>4. LocalsOf(n)' = [LocalsOf(n) EXCEPT ![d + 1] = v]
    <3>1. /\ [LocalsOf(n) EXCEPT ![d + 1] = v] \in Seq(Value)
          /\ Len([LocalsOf(n) EXCEPT ![d + 1] = v]) = l
      BY <2>1, <2>2
    <3> QED
      BY <2>1, <2>3, <3>1, SeqEqual
  <2>5. Acts'[k].locals = [Acts[k].locals EXCEPT ![d + 1] = v]
    <3>1. k \in 1 .. k
      BY <1>8
    <3> QED
      BY <1>8, <1>9, <2>4, <3>1
  <2>6. Acts' = [Acts EXCEPT ![k].ip = ip, ![k].locals[d + 1] = v]
    <3>1. PICK acts \in Seq(Activity), bcts \in Seq(Activity) : acts = Acts /\ bcts = Acts'
      BY <1>7
    <3>3. PICK e \in Nat : e = d + 1
      OBVIOUS
    <3>2. bcts = Updated(acts, k, bcts[k].ip, e, v)
      <4>1. TopChanged(acts, bcts, k, e, v)
        BY <1>8, <1>10, <1>11, <2>5, <3>1, <3>3 DEF TopChanged
      <4> QED
        BY <4>1, LocalExcept
    <3> QED
      BY <1>11, <3>1, <3>2, <3>3 DEF Updated
  <2>7. d + 1 \in DOMAIN Separate!Top.locals
    BY <1>12, <2>1, <2>2
  <2> QED
    BY <1>8, <1>12, <1>13, <2>6, <2>7 DEF Separate!Step
<1> QED
  BY <1>18, <1>19

-----------------------------------------------------------------------------
(* Calls. *)

(* The activation of a caller whose frame and part of the stack stay. *)
LEMMA CallerStays ==
  ASSUME Shape, Shape', phase = "run", phase' = "run",
         NEW i \in Nat, i >= 2, i < Len(m_frames), i < Len(m_frames'),
         Len(m_frames) \in Nat, Len(m_frames') \in Nat,
         m_frames'[i] = m_frames[i], m_frames'[i + 1].base = m_frames[i + 1].base,
         \A s \in Slot : s < m_frames[i + 1].base => m_values'[s] = m_values[s]
  PROVE  Acts'[i - 1] = Acts[i - 1]
<1>1. LocalsEnd(i)' = LocalsEnd(i) /\ LocalsEnd(i) = m_frames[i + 1].base
  BY DEF LocalsEnd
<1>2. i \in 2 .. Len(m_frames) /\ i \in 2 .. Len(m_frames')
  OBVIOUS
<1>3. LocalsOf(i)' = LocalsOf(i)
  BY <1>1, <1>2, SameLocals
<1>4. PICK j \in Nat : j = i - 1 /\ i = j + 1
  OBVIOUS
<1>5. j \in 1 .. Len(m_frames) - 1 /\ j \in 1 .. Len(m_frames') - 1
  BY <1>4
<1>6. /\ Acts \in Seq(Activity) /\ Len(Acts) = Len(m_frames) - 1
      /\ Acts' \in Seq(Activity) /\ Len(Acts') = Len(m_frames') - 1
  BY DEF Shape
<1>7. Acts[j] \in Activity /\ Acts'[j] \in Activity
  BY <1>5, <1>6
<1>8. /\ Acts[j].func = m_frames[j + 1].func /\ Acts'[j].func = m_frames'[j + 1].func
      /\ Acts[j].ip = m_frames[j + 1].ip /\ Acts'[j].ip = m_frames'[j + 1].ip
      /\ Acts[j].locals = LocalsOf(j + 1) /\ Acts'[j].locals = LocalsOf(j + 1)'
  BY <1>5 DEF Shape
<1>9. Acts'[j] = Acts[j]
  BY <1>3, <1>4, <1>7, <1>8, SameActivity
<1> QED
  BY <1>4, <1>9

(* One activation is replaced and another one added at the end. *)
LEMMA TwoAppended ==
  ASSUME NEW acts \in Seq(Activity), NEW bcts \in Seq(Activity), NEW k \in Nat, k >= 1,
         Len(acts) = k, Len(bcts) = k + 1, \A i \in 1 .. k - 1 : bcts[i] = acts[i]
  PROVE  bcts = Append(Append(SubSeq(acts, 1, k - 1), bcts[k]), bcts[k + 1])
<1> DEFINE below == SubSeq(acts, 1, k - 1)
           ccts == Append(Append(below, bcts[k]), bcts[k + 1])
<1>1. /\ below \in Seq(Activity) /\ Len(below) = k - 1
      /\ \A i \in 1 .. k - 1 : below[i] = acts[i]
  OBVIOUS
<1>2. bcts[k] \in Activity /\ bcts[k + 1] \in Activity
  OBVIOUS
<1>3. /\ ccts \in Seq(Activity) /\ Len(ccts) = k + 1
      /\ \A i \in 1 .. k - 1 : ccts[i] = below[i]
      /\ ccts[k] = bcts[k] /\ ccts[k + 1] = bcts[k + 1]
  <2> HIDE DEF below
  <2> QED
    BY <1>1, <1>2
<1>4. ASSUME NEW i \in 1 .. k + 1 PROVE ccts[i] = bcts[i]
  <2>1. i \in 1 .. k - 1 \/ i = k \/ i = k + 1
    OBVIOUS
  <2> HIDE DEF below
  <2> QED
    BY <1>1, <1>3, <2>1
<1> HIDE DEF ccts
<1>5. bcts = ccts
  BY <1>3, <1>4, SeqEqual
<1> QED
  BY <1>5 DEF ccts

LEMMA InvokeStep ==
  ASSUME IInv, IInv', Shape, Shape', BasesRise, NEW f \in Func, NEW a \in Nat, Call(f, a)
  PROVE  Separate!Invoke
<1>1. /\ phase = "run" /\ phase' = "run" /\ Running /\ Passed \in Nat
      /\ a < LocalSpace[Top.func] /\ a + Passed <= LocalSpace[Top.func]
      /\ Top.base + a + LocalSpace[f] <= StackReserve
  BY CallFacts
<1>2. PICK n \in Nat : n = Len(m_frames) /\ n >= 2 /\ Len(m_frames') = n + 1
  BY CallFacts
<1>3. /\ \A i \in 1 .. n - 1 : m_frames'[i] = m_frames[i]
      /\ m_frames'[n].func = Top.func /\ m_frames'[n].base = Top.base
      /\ m_frames'[n].ip = Top.ip + 1
      /\ m_frames'[n + 1].func = f /\ m_frames'[n + 1].base = Top.base + a
      /\ m_frames'[n + 1].ip = 0 /\ m_frames[n] = Top
  BY <1>2, CallFacts DEF Top
<1>4. /\ Top.base \in Nat /\ Top.func \in Func /\ LocalSpace[Top.func] \in Nat /\ Top.ip \in Nat
      /\ LocalSpace[f] \in Nat /\ ArgCount[f] \in Nat /\ StackReserve \in Nat
      /\ m_size = Top.base + LocalSpace[Top.func] /\ m_size <= StackReserve
      /\ m_frames \in Seq(Frame)
  BY <1>1, RunningBody, CallStackAssumption
<1>5. PICK b \in Nat, l \in Nat, p \in Nat, m \in Nat, c \in Nat, r \in Nat :
        /\ b = Top.base /\ l = LocalSpace[Top.func] /\ p = Passed /\ m = LocalSpace[f]
        /\ c = ArgCount[f] /\ a < l /\ a + p <= l /\ b + a + m <= r
        /\ b + l <= r /\ r = StackReserve
  BY <1>1, <1>4
<1>6. /\ \A s \in Slot : s < b + a + p => m_values'[s] = m_values[s]
      /\ \A s \in Slot : b + a + p <= s /\ s < b + a + c => m_values'[s] = Nil
  BY <1>5, CallFacts
<1>7. Slot \subseteq Nat /\ \A s \in Nat : s < StackReserve => s \in Slot
  BY <1>4 DEF Slot
<1>8. PICK k \in Nat : /\ k = n - 1 /\ k >= 1 /\ n = k + 1 /\ Len(Acts) = k /\ Len(Acts') = k + 1
                       /\ Acts \in Seq(Activity) /\ Acts' \in Seq(Activity)
  BY <1>1, <1>2 DEF Shape
<1>9. ASSUME NEW i \in 1 .. k - 1 PROVE Acts'[i] = Acts[i]
  <2>1. PICK j \in Nat : j = i + 1 /\ j >= 2 /\ j < n /\ j \in 1 .. n - 1 /\ j - 1 = i
                         /\ j + 1 \in 1 .. n
    BY <1>8
  <2>2. m_frames'[j + 1].base = m_frames[j + 1].base
    BY <1>3, <2>1
  <2>3. m_frames[j + 1].base \in Nat /\ m_frames[j + 1].base <= b
    <3>1. j + 1 \in 1 .. Len(m_frames) /\ n \in 1 .. Len(m_frames) /\ j + 1 <= n
      BY <1>2, <2>1
    <3>2. m_frames[j + 1].base <= m_frames[n].base
      BY <3>1 DEF BasesRise
    <3>3. m_frames[j + 1] \in Frame
      BY <1>4, <3>1
    <3> QED
      BY <1>3, <1>5, <3>2, <3>3 DEF Frame
  <2>4. \A s \in Slot : s < m_frames[j + 1].base => m_values'[s] = m_values[s]
    <3>1. PICK x \in Nat : x = m_frames[j + 1].base /\ x <= b
      BY <2>3
    <3>2. \A s \in Slot : s < x => s < b + a + p
      BY <1>7, <3>1
    <3> QED
      BY <1>6, <3>1, <3>2
  <2>5. j < Len(m_frames) /\ j < Len(m_frames') /\ m_frames'[j] = m_frames[j]
        /\ Len(m_frames) \in Nat /\ Len(m_frames') \in Nat
    BY <1>2, <1>3, <2>1
  <2>6. Acts'[j - 1] = Acts[j - 1]
    BY <1>1, <2>1, <2>2, <2>4, <2>5, CallerStays
  <2> QED
    BY <2>1, <2>6
<1>10. /\ Separate!Top = Acts[k] /\ Separate!Top.func = Top.func /\ Separate!Top.ip = Top.ip
       /\ Separate!Top.locals = LocalsOf(n) /\ Len(LocalsOf(n)) = l
       /\ Status = "running" /\ Status' = Status
  BY <1>1, <1>2, <1>5, <1>8, RunningTop DEF Status
<1>11. /\ LocalsOf(n) \in Seq(Value)
       /\ \A j \in 1 .. l : LocalsOf(n)[j] = m_values[b + j - 1]
  <2>1. n \in 2 .. Len(m_frames)
    BY <1>2
  <2> QED
    BY <1>1, <1>3, <1>5, <1>10, <2>1 DEF Shape
<1>12. /\ LocalsOf(n)' \in Seq(Value) /\ Len(LocalsOf(n)') = a
       /\ \A j \in 1 .. a : LocalsOf(n)'[j] = m_values'[b + j - 1]
  <2>1. n \in 2 .. Len(m_frames') /\ n # Len(m_frames')
    BY <1>2
  <2>2. LocalsEnd(n)' = b + a /\ m_frames'[n].base = b /\ b + a - b = a
    BY <1>3, <1>5, <2>1 DEF LocalsEnd
  <2>3. /\ LocalsOf(n)' \in Seq(Value)
        /\ Len(LocalsOf(n)') = LocalsEnd(n)' - m_frames'[n].base
        /\ \A j \in 1 .. Len(LocalsOf(n)') : LocalsOf(n)'[j] = m_values'[m_frames'[n].base + j - 1]
    BY <1>1, <2>1 DEF Shape
  <2> QED
    BY <2>2, <2>3
<1>13. /\ LocalsOf(n + 1)' \in Seq(Value) /\ Len(LocalsOf(n + 1)') = m
       /\ \A j \in 1 .. m : LocalsOf(n + 1)'[j] = m_values'[b + a + j - 1]
  <2>1. n + 1 \in 2 .. Len(m_frames') /\ n + 1 = Len(m_frames') /\ n + 1 # 1
    BY <1>2
  <2>2. LocalsEnd(n + 1)' = b + a + m /\ m_frames'[n + 1].base = b + a /\ b + a + m - (b + a) = m
    BY <1>3, <1>5, <2>1 DEF LocalsEnd, WindowEnd
  <2>3. /\ LocalsOf(n + 1)' \in Seq(Value)
        /\ Len(LocalsOf(n + 1)') = LocalsEnd(n + 1)' - m_frames'[n + 1].base
        /\ \A j \in 1 .. Len(LocalsOf(n + 1)') :
             LocalsOf(n + 1)'[j] = m_values'[m_frames'[n + 1].base + j - 1]
    BY <1>1, <2>1 DEF Shape
  <2> QED
    BY <2>2, <2>3
<1>14. LocalsOf(n)' = SubSeq(LocalsOf(n), 1, a)
  <2>1. PICK old \in Seq(Value), new \in Seq(Value) : old = LocalsOf(n) /\ new = LocalsOf(n)'
    BY <1>11, <1>12
  <2>2. /\ SubSeq(old, 1, a) \in Seq(Value) /\ Len(SubSeq(old, 1, a)) = a
        /\ \A j \in 1 .. a : SubSeq(old, 1, a)[j] = old[j]
    <3>1. a \in 0 .. Len(old)
      BY <1>5, <1>10, <2>1
    <3> QED
      BY <3>1
  <2>3. ASSUME NEW j \in 1 .. a PROVE new[j] = old[j]
    <3>0. a < l /\ b + l <= r
      BY <1>5
    <3>1. j \in 1 .. l /\ b + j - 1 \in Nat /\ b + j - 1 < r /\ b + j - 1 < b + a + p
      <4>1. PICK i \in Nat : i = j /\ 1 <= i /\ i <= a
        OBVIOUS
      <4> QED
        BY <3>0, <4>1
    <3>2. m_values'[b + j - 1] = m_values[b + j - 1]
      BY <1>5, <1>6, <1>7, <3>1
    <3> QED
      BY <1>11, <1>12, <2>1, <3>1, <3>2
  <2>4. new = SubSeq(old, 1, a)
    BY <1>12, <2>1, <2>2, <2>3, SeqEqual
  <2> QED
    BY <2>1, <2>4
<1>15. /\ Acts[k] \in Activity /\ Acts[k].func = Top.func /\ Acts[k].ip = Top.ip
       /\ Acts[k].locals = LocalsOf(n)
       /\ Acts'[k] \in Activity /\ Acts'[k].func = Top.func /\ Acts'[k].ip = Top.ip + 1
       /\ Acts'[k].locals = LocalsOf(n)'
       /\ Acts'[k + 1] \in Activity /\ Acts'[k + 1].func = f /\ Acts'[k + 1].ip = 0
       /\ Acts'[k + 1].locals = LocalsOf(n + 1)'
  <2>1. k \in 1 .. Len(m_frames') - 1 /\ k + 1 \in 1 .. Len(m_frames') - 1 /\ k \in 1 .. Len(m_frames) - 1
        /\ k \in 1 .. Len(Acts) /\ k \in 1 .. Len(Acts') /\ k + 1 \in 1 .. Len(Acts')
    BY <1>2, <1>8
  <2>2. Acts[k] \in Activity /\ Acts'[k] \in Activity /\ Acts'[k + 1] \in Activity
    BY <1>8, <2>1
  <2>3. /\ Acts'[k].func = m_frames'[n].func /\ Acts'[k].ip = m_frames'[n].ip
        /\ Acts'[k].locals = LocalsOf(n)'
    BY <1>1, <1>8, <2>1 DEF Shape
  <2>4. /\ Acts'[k + 1].func = m_frames'[n + 1].func /\ Acts'[k + 1].ip = m_frames'[n + 1].ip
        /\ Acts'[k + 1].locals = LocalsOf(n + 1)'
    BY <1>1, <1>8, <2>1 DEF Shape
  <2> QED
    BY <1>3, <1>10, <2>2, <2>3, <2>4
<1>16. Acts'[k] = [Acts[k] EXCEPT !.ip = @ + 1, !.locals = SubSeq(@, 1, a)]
  <2>1. PICK x \in Activity, y \in Activity : x = Acts[k] /\ y = Acts'[k]
    BY <1>15
  <2>2. /\ x.func = y.func /\ y.ip = x.ip + 1 /\ y.locals = SubSeq(x.locals, 1, a)
    BY <1>14, <1>15, <2>1
  <2>3. y = [x EXCEPT !.ip = @ + 1, !.locals = SubSeq(@, 1, a)]
    BY <2>2 DEF Activity
  <2> QED
    BY <2>1, <2>3
<1>17. Acts'[k + 1] = Separate!Activation(f, LocalsOf(n + 1)')
  BY <1>15 DEF Separate!Activation, Activity
<1>18. Acts' = Append(Append(Separate!Below, Acts'[k]), Acts'[k + 1])
  <2>1. PICK acts \in Seq(Activity), bcts \in Seq(Activity) : acts = Acts /\ bcts = Acts'
    BY <1>8
  <2>2. Len(acts) = k /\ Len(bcts) = k + 1 /\ k >= 1 /\ \A i \in 1 .. k - 1 : bcts[i] = acts[i]
    BY <1>8, <1>9, <2>1
  <2>3. bcts = Append(Append(SubSeq(acts, 1, k - 1), bcts[k]), bcts[k + 1])
    BY <2>2, TwoAppended
  <2> QED
    BY <1>8, <2>1, <2>3 DEF Separate!Below
<1>19. LocalsOf(n + 1)' \in Separate!Locals(f) /\ DOMAIN LocalsOf(n + 1)' = 1 .. m
  BY <1>5, <1>13 DEF Separate!Locals
<1>20. PICK e \in Nat : e = a + 1 /\ e - 1 = a
  OBVIOUS
<1>21. /\ e \in DOMAIN Separate!Top.locals
       /\ Separate!Passed = p /\ e + p - 1 <= Len(Separate!Top.locals)
  <2>1. e \in 1 .. l /\ e + p - 1 <= l
    BY <1>5, <1>20
  <2>2. Separate!Passed = p
    BY <1>5, <1>10 DEF Separate!Passed, Passed
  <2> QED
    BY <1>10, <1>11, <2>1, <2>2
<1>22. ASSUME NEW i \in 1 .. m
       PROVE  /\ i <= p => LocalsOf(n + 1)'[i] = Separate!Top.locals[e + i - 1]
              /\ p < i /\ i <= c => LocalsOf(n + 1)'[i] = Nil
  <2>1. PICK s \in Nat : s = b + a + i - 1 /\ s < r
    BY <1>5
  <2>2. s \in Slot /\ LocalsOf(n + 1)'[i] = m_values'[s]
    BY <1>5, <1>7, <1>13, <2>1
  <2>3. ASSUME i <= p PROVE LocalsOf(n + 1)'[i] = Separate!Top.locals[e + i - 1]
    <3>1. s < b + a + p /\ e + i - 1 \in 1 .. l /\ b + (e + i - 1) - 1 = s
      BY <1>5, <1>20, <2>1, <2>3
    <3>2. LocalsOf(n)[e + i - 1] = m_values[s]
      BY <1>11, <3>1
    <3> QED
      BY <1>6, <1>10, <2>2, <3>1, <3>2
  <2>4. ASSUME p < i, i <= c PROVE LocalsOf(n + 1)'[i] = Nil
    <3>1. b + a + p <= s /\ s < b + a + c
      BY <2>1, <2>4
    <3> QED
      BY <1>6, <2>2, <3>1
  <2> QED
    BY <2>3, <2>4
<1>23. Separate!Running
  BY <1>1, <1>10 DEF Separate!Running, Running
<1> DEFINE locals == LocalsOf(n + 1)'
<1>24. /\ f \in Func /\ e \in DOMAIN Separate!Top.locals /\ locals \in Separate!Locals(f)
       /\ e + Separate!Passed - 1 <= Len(Separate!Top.locals)
       /\ \A i \in DOMAIN locals :
            /\ i <= Separate!Passed => locals[i] = Separate!Top.locals[e + i - 1]
            /\ Separate!Passed < i /\ i <= ArgCount[f] => locals[i] = Nil
       /\ Acts' = Append(Append(Separate!Below, [Separate!Top EXCEPT !.ip = @ + 1,
                                         !.locals = SubSeq(@, 1, e - 1)]),
                         Separate!Activation(f, locals))
  <2>1. /\ f \in Func /\ e \in DOMAIN Separate!Top.locals /\ locals \in Separate!Locals(f)
        /\ e + Separate!Passed - 1 <= Len(Separate!Top.locals)
    BY <1>19, <1>21
  <2>2. \A i \in DOMAIN locals :
            /\ i <= Separate!Passed => locals[i] = Separate!Top.locals[e + i - 1]
            /\ Separate!Passed < i /\ i <= ArgCount[f] => locals[i] = Nil
    BY <1>5, <1>19, <1>21, <1>22
  <2>3. Acts' = Append(Append(Separate!Below, [Separate!Top EXCEPT !.ip = @ + 1,
                                         !.locals = SubSeq(@, 1, e - 1)]),
                         Separate!Activation(f, locals))
    BY <1>10, <1>16, <1>17, <1>18, <1>20
  <2> QED
    BY <2>1, <2>2, <2>3
<1> HIDE DEF locals
<1> QED
  BY <1>10, <1>23, <1>24 DEF Separate!Invoke

-----------------------------------------------------------------------------
(* Returns. *)

(* The last activation goes, and the one below gets other locals. *)
Dropped(acts, bcts, k) ==
  /\ acts \in Seq(Activity) /\ bcts \in Seq(Activity) /\ k \in Nat /\ k >= 1
  /\ Len(acts) = k + 1 /\ Len(bcts) = k /\ \A i \in 1 .. k - 1 : bcts[i] = acts[i]
  /\ bcts[k].func = acts[k].func /\ bcts[k].ip = acts[k].ip

LEMMA LastDropped ==
  ASSUME NEW acts, NEW bcts, NEW k, Dropped(acts, bcts, k)
  PROVE  bcts = [SubSeq(acts, 1, k) EXCEPT ![k].locals = bcts[k].locals]
<1> USE DEF Dropped
<1>1. PICK below \in Seq(Activity) :
        /\ below = SubSeq(acts, 1, k) /\ Len(below) = k
        /\ \A i \in 1 .. k : below[i] = acts[i]
  <2>1. /\ SubSeq(acts, 1, k) \in Seq(Activity) /\ Len(SubSeq(acts, 1, k)) = k
        /\ \A i \in 1 .. k : SubSeq(acts, 1, k)[i] = acts[i]
    OBVIOUS
  <2> QED
    BY <2>1
<1>2. PICK e : e = [below[k] EXCEPT !.locals = bcts[k].locals]
  OBVIOUS
<1>3. k \in 1 .. k /\ below[k] \in Activity /\ bcts[k] \in Activity /\ below[k] = acts[k]
  BY <1>1
<1>4. e \in Activity /\ e.func = acts[k].func /\ e.ip = acts[k].ip /\ e.locals = bcts[k].locals
  BY <1>2, <1>3 DEF Activity
<1>5. bcts[k] = e
  BY <1>3, <1>4, SameActivity
<1>6. [below EXCEPT ![k].locals = bcts[k].locals] = [below EXCEPT ![k] = e]
  BY <1>2
<1>7. /\ [below EXCEPT ![k] = e] \in Seq(Activity) /\ Len([below EXCEPT ![k] = e]) = k
      /\ \A i \in 1 .. k : [below EXCEPT ![k] = e][i] = bcts[i]
  <2>1. /\ [below EXCEPT ![k] = e] \in Seq(Activity) /\ Len([below EXCEPT ![k] = e]) = k
        /\ \A i \in 1 .. k : [below EXCEPT ![k] = e][i] = IF i = k THEN e ELSE below[i]
    <3>1. below \in Seq(Activity) /\ k \in 1 .. Len(below) /\ e \in Activity /\ Len(below) = k
      BY <1>1, <1>3, <1>4
    <3> QED
      BY <3>1, ExceptSeq
  <2>2. \A i \in 1 .. k : i = k \/ i \in 1 .. k - 1
    OBVIOUS
  <2> QED
    BY <1>1, <1>5, <2>1, <2>2
<1> QED
  BY <1>1, <1>6, <1>7, SeqEqual

LEMMA FinishStep ==
  ASSUME IInv, IInv', Shape, Shape', BasesRise, Return
  PROVE  Separate!Finish
<1>1. /\ phase = "run" /\ phase' = "run" /\ Top.ip = CodeLen[Top.func] /\ PopFrame
      /\ Len(m_frames) > 2
  BY DEF Return, AtEnd
<1>2. PICK n \in Nat : n = Len(m_frames) /\ n >= 3 /\ Len(m_frames') = n - 1 /\ m_frames \in Seq(Frame)
                       /\ \A i \in 1 .. n - 1 : m_frames'[i] = m_frames[i]
  <2>1. m_frames \in Seq(Frame) /\ m_frames' = SubSeq(m_frames, 1, Len(m_frames) - 1)
        /\ Len(m_frames) >= 2
    BY <1>1 DEF IInv, TypeOK, PopFrame
  <2>2. Len(m_frames') = Len(m_frames) - 1 /\ \A i \in 1 .. Len(m_frames') : m_frames'[i] = m_frames[i]
    BY <2>1, PopTop
  <2>3. PICK n \in Nat : n = Len(m_frames)
    BY <2>1
  <2>4. n >= 3 /\ Len(m_frames') = n - 1
    BY <1>1, <2>2, <2>3
  <2> QED
    BY <2>1, <2>2, <2>3, <2>4
<1>3. /\ Top.base \in Nat /\ Top.func \in Func /\ LocalSpace[Top.func] \in Nat
      /\ m_size = Top.base + LocalSpace[Top.func] /\ StackReserve \in Nat
      /\ Top = m_frames[n]
  BY <1>1, <1>2, RunningBody, CallStackAssumption DEF Top
<1>4. /\ m_frames[n - 1].base \in Nat /\ m_frames[n - 1].func \in Func
      /\ LocalSpace[m_frames[n - 1].func] \in Nat
      /\ WindowEnd(m_frames, n - 1) = m_frames[n - 1].base + LocalSpace[m_frames[n - 1].func]
      /\ WindowEnd(m_frames, n - 1) <= StackReserve
  <2>1. n - 1 \in 1 .. Len(m_frames) /\ n - 1 \in 2 .. Len(m_frames)
    BY <1>2
  <2>2. m_frames[n - 1] \in Frame
    BY <1>2, <2>1
  <2>3. m_frames[n - 1].base \in Nat
    BY <2>2 DEF Frame
  <2>4. m_frames[n - 1].func \in Func
    BY <2>1 DEF IInv, FramesNest
  <2>5. WindowEnd(m_frames, n - 1) = m_frames[n - 1].base + LocalSpace[m_frames[n - 1].func]
    BY <2>1 DEF WindowEnd
  <2>6. WindowEnd(m_frames, n - 1) \in 0 .. StackReserve
    BY <2>1 DEF IInv, WindowsFit
  <2> QED
    BY <1>3, <2>3, <2>4, <2>5, <2>6, CallStackAssumption
<1>5. PICK b \in Nat, l \in Nat, c \in Nat, lc \in Nat, e \in Nat, r \in Nat :
        /\ b = Top.base /\ l = LocalSpace[Top.func]
        /\ c = m_frames[n - 1].base /\ lc = LocalSpace[m_frames[n - 1].func]
        /\ e = WindowEnd(m_frames, n - 1) /\ e = c + lc
        /\ r = StackReserve /\ e <= r
  <2>1. WindowEnd(m_frames, n - 1) \in Nat
    BY <1>4
  <2> QED
    BY <1>3, <1>4, <2>1
<1>6. c <= b /\ b <= e - 1 /\ m_size' = e
  <2>1. n \in 2 .. Len(m_frames)
    BY <1>2
  <2>2. m_frames[n].base \in m_frames[n - 1].base .. WindowEnd(m_frames, n - 1) - 1
        /\ m_frames[n].oldStackSize = WindowEnd(m_frames, n - 1)
    BY <2>1 DEF IInv, FramesNest
  <2>3. b \in c .. e - 1
    BY <1>3, <1>5, <2>2
  <2> QED
    BY <1>1, <1>3, <1>5, <2>2, <2>3 DEF PopFrame
<1>7. \A s \in Slot : m_values'[s] = IF s \in b + l .. e - 1 THEN Nil ELSE m_values[s]
  <2>1. m_values' = Resized(m_values, m_size, m_size')
    BY <1>1 DEF PopFrame
  <2>2. m_size = b + l
    BY <1>3, <1>5
  <2> QED
    BY <1>6, <2>1, <2>2 DEF Resized
<1>8. Slot \subseteq Nat /\ \A s \in Nat : s < r => s \in Slot
  BY <1>5 DEF Slot
<1>9. PICK k \in Nat : /\ k >= 1 /\ n = k + 2 /\ Len(Acts) = k + 1 /\ Len(Acts') = k
                       /\ Acts \in Seq(Activity) /\ Acts' \in Seq(Activity)
  <2>1. Len(Acts) = n - 1 /\ Len(Acts') = n - 2 /\ Acts \in Seq(Activity) /\ Acts' \in Seq(Activity)
    BY <1>1, <1>2 DEF Shape
  <2>2. n - 2 \in Nat /\ n - 2 >= 1 /\ n = (n - 2) + 2 /\ n - 1 = (n - 2) + 1
    BY <1>2
  <2> QED
    BY <2>1, <2>2
<1>10. ASSUME NEW i \in 1 .. k - 1 PROVE Acts'[i] = Acts[i]
  <2>1. PICK j \in Nat : j = i + 1 /\ j >= 2 /\ j < n - 1 /\ j \in 1 .. n - 1 /\ j - 1 = i
                         /\ j + 1 \in 1 .. n - 1 /\ j + 1 \in 1 .. n
    BY <1>9
  <2>2. m_frames'[j + 1].base = m_frames[j + 1].base /\ m_frames'[j] = m_frames[j]
    BY <1>2, <2>1
  <2>3. m_frames[j + 1].base \in Nat /\ m_frames[j + 1].base <= b
    <3>1. j + 1 \in 1 .. Len(m_frames) /\ n \in 1 .. Len(m_frames) /\ j + 1 <= n
      BY <1>2, <2>1
    <3>2. m_frames[j + 1].base <= m_frames[n].base
      BY <3>1 DEF BasesRise
    <3>3. m_frames[j + 1] \in Frame
      BY <1>2, <3>1
    <3> QED
      BY <1>3, <1>5, <3>2, <3>3 DEF Frame
  <2>4. \A s \in Slot : s < m_frames[j + 1].base => m_values'[s] = m_values[s]
    <3>1. PICK x \in Nat : x = m_frames[j + 1].base /\ x <= b
      BY <2>3
    <3>2. \A s \in Slot : s < x => s \notin b + l .. e - 1
      BY <1>8, <3>1
    <3> QED
      BY <1>7, <3>1, <3>2
  <2>5. j < Len(m_frames) /\ j < Len(m_frames') /\ Len(m_frames) \in Nat /\ Len(m_frames') \in Nat
    BY <1>2, <2>1
  <2>6. Acts'[j - 1] = Acts[j - 1]
    BY <1>1, <2>1, <2>2, <2>4, <2>5, CallerStays
  <2> QED
    BY <2>1, <2>6
<1>11. /\ Separate!Top = Acts[k + 1] /\ Separate!Top.func = Top.func /\ Separate!Top.ip = Top.ip
       /\ Separate!Top.locals = LocalsOf(n) /\ Len(LocalsOf(n)) = l
       /\ Status = "running" /\ Status' = Status
  BY <1>1, <1>2, <1>5, <1>9, RunningTop DEF Status
<1>12. /\ LocalsOf(n) \in Seq(Value)
       /\ \A j \in 1 .. l : LocalsOf(n)[j] = m_values[b + j - 1]
  <2>1. n \in 2 .. Len(m_frames)
    BY <1>2
  <2> QED
    BY <1>1, <1>3, <1>5, <1>11, <2>1 DEF Shape
<1>13. /\ LocalsOf(n - 1) \in Seq(Value) /\ Len(LocalsOf(n - 1)) = b - c
       /\ \A j \in 1 .. b - c : LocalsOf(n - 1)[j] = m_values[c + j - 1]
  <2>1. n - 1 \in 2 .. Len(m_frames) /\ n - 1 # Len(m_frames) /\ n - 1 + 1 = n
    BY <1>2
  <2>2. LocalsEnd(n - 1) = b
    BY <1>3, <1>5, <2>1 DEF LocalsEnd
  <2>3. /\ LocalsOf(n - 1) \in Seq(Value)
        /\ Len(LocalsOf(n - 1)) = LocalsEnd(n - 1) - m_frames[n - 1].base
        /\ \A j \in 1 .. Len(LocalsOf(n - 1)) :
             LocalsOf(n - 1)[j] = m_values[m_frames[n - 1].base + j - 1]
    BY <1>1, <2>1 DEF Shape
  <2> QED
    BY <1>5, <2>2, <2>3
<1>14. /\ LocalsOf(n - 1)' \in Seq(Value) /\ Len(LocalsOf(n - 1)') = lc
       /\ \A j \in 1 .. lc : LocalsOf(n - 1)'[j] = m_values'[c + j - 1]
  <2>1. n - 1 \in 2 .. Len(m_frames') /\ n - 1 = Len(m_frames') /\ n - 1 # 1 /\ n - 1 \in 1 .. n - 1
    BY <1>2
  <2>2. m_frames'[n - 1] = m_frames[n - 1]
    BY <1>2, <2>1
  <2>3. LocalsEnd(n - 1)' = c + lc /\ c + lc - c = lc
    <3>1. LocalsEnd(n - 1)' = m_frames'[n - 1].base + LocalSpace[m_frames'[n - 1].func]
      BY <2>1 DEF LocalsEnd, WindowEnd
    <3> QED
      BY <1>5, <2>2, <3>1
  <2>4. /\ LocalsOf(n - 1)' \in Seq(Value)
        /\ Len(LocalsOf(n - 1)') = LocalsEnd(n - 1)' - m_frames'[n - 1].base
        /\ \A j \in 1 .. Len(LocalsOf(n - 1)') :
             LocalsOf(n - 1)'[j] = m_values'[m_frames'[n - 1].base + j - 1]
    BY <1>1, <2>1 DEF Shape
  <2>5. m_frames'[n - 1].base = c
    BY <1>5, <2>2
  <2>6. Len(LocalsOf(n - 1)') = lc
    BY <2>3, <2>4, <2>5
  <2> QED
    BY <2>4, <2>5, <2>6
<1>15. PICK kept \in Seq(Value), locals \in Seq(Value) :
         kept = LocalsOf(n - 1) /\ locals = LocalsOf(n - 1)'
  BY <1>13, <1>14
<1>16. PICK h \in Nat : h = b - c /\ b = c + h /\ h + 1 <= lc
  <2>1. e = c + lc
    BY <1>5
  <2>2. c <= b /\ b <= e - 1
    BY <1>6
  <2>3. b - c \in Nat /\ b = c + (b - c) /\ b - c + 1 <= lc
    BY <2>1, <2>2
  <2> QED
    BY <2>3
<1>17. Separate!Result \in Value /\ Separate!Result = m_values'[b]
  <2>1. b \in Slot /\ b < e
    BY <1>5, <1>6, <1>8
  <2>2. CASE l = 0
    <3>1. LocalsOf(n) = <<>>
      BY <1>11, <1>12, <2>2
    <3>2. b \in b + l .. e - 1
      BY <1>6, <2>2
    <3> QED
      BY <1>7, <1>11, <2>1, <3>1, <3>2, CallStackAssumption DEF Separate!Result
  <2>3. CASE l >= 1
    <3>1. LocalsOf(n) # <<>> /\ 1 \in 1 .. l /\ LocalsOf(n)[1] \in Value
      BY <1>11, <1>12, <2>3
    <3>2. b \notin b + l .. e - 1 /\ b + 1 - 1 = b
      BY <2>3
    <3> QED
      BY <1>7, <1>11, <1>12, <2>1, <3>1, <3>2 DEF Separate!Result
  <2> QED
    BY <2>2, <2>3
<1>18. SubSeq(locals, 1, Len(kept) + 1) = Append(kept, Separate!Result)
  <2>1. PICK v \in Value : v = Separate!Result
    BY <1>17
  <2>2. Len(kept) = h /\ Len(locals) = lc
    BY <1>13, <1>14, <1>15, <1>16
  <2>3. /\ SubSeq(locals, 1, h + 1) \in Seq(Value) /\ Len(SubSeq(locals, 1, h + 1)) = h + 1
        /\ \A j \in 1 .. h + 1 : SubSeq(locals, 1, h + 1)[j] = locals[j]
    BY <1>16, <2>2
  <2>4. /\ Append(kept, v) \in Seq(Value) /\ Len(Append(kept, v)) = h + 1
        /\ \A j \in 1 .. h : Append(kept, v)[j] = kept[j]
        /\ Append(kept, v)[h + 1] = v
    BY <2>2
  <2>5. ASSUME NEW j \in 1 .. h + 1 PROVE locals[j] = Append(kept, v)[j]
    <3>1. PICK s \in Nat : s = c + j - 1 /\ s < r /\ j \in 1 .. lc
      <4>1. c + lc <= r
        BY <1>5
      <4>2. h + 1 <= lc
        BY <1>16
      <4>3. c + j - 1 \in Nat /\ c + j - 1 < r /\ j \in 1 .. lc
        BY <4>1, <4>2
      <4> QED
        BY <4>3
    <3>2. s \in Slot /\ locals[j] = m_values'[s]
      BY <1>8, <1>14, <1>15, <3>1
    <3>3. CASE j = h + 1
      <4>1. s = b
        BY <1>16, <3>1, <3>3
      <4> QED
        BY <1>17, <2>1, <2>4, <3>2, <3>3, <4>1
    <3>4. CASE j # h + 1
      <4>1. j \in 1 .. h /\ s < b
        BY <1>16, <3>1, <3>4
      <4>2. s \notin b + l .. e - 1
        BY <4>1
      <4>3. m_values'[s] = m_values[s]
        BY <1>7, <3>2, <4>2
      <4>4. kept[j] = m_values[s]
        BY <1>13, <1>15, <1>16, <3>1, <4>1
      <4> QED
        BY <2>4, <3>2, <4>1, <4>3, <4>4
    <3> QED
      BY <3>3, <3>4
  <2>6. SubSeq(locals, 1, h + 1) = Append(kept, v)
    BY <2>3, <2>4, <2>5, SeqEqual
  <2> QED
    BY <2>1, <2>2, <2>6
<1>19. /\ Acts[k].func = m_frames[n - 1].func /\ Acts[k].locals = kept
       /\ Acts'[k].func = Acts[k].func /\ Acts'[k].ip = Acts[k].ip
       /\ Acts'[k].locals = locals
  <2>1. k \in 1 .. Len(m_frames) - 1 /\ k \in 1 .. Len(m_frames') - 1 /\ k + 1 = n - 1
        /\ n - 1 \in 1 .. n - 1
    BY <1>2, <1>9
  <2>2. /\ Acts[k].func = m_frames[n - 1].func /\ Acts[k].ip = m_frames[n - 1].ip
        /\ Acts[k].locals = LocalsOf(n - 1)
    BY <1>1, <2>1 DEF Shape
  <2>3. /\ Acts'[k].func = m_frames'[n - 1].func /\ Acts'[k].ip = m_frames'[n - 1].ip
        /\ Acts'[k].locals = LocalsOf(n - 1)'
    BY <1>1, <2>1 DEF Shape
  <2>4. m_frames'[n - 1] = m_frames[n - 1]
    BY <1>2, <2>1
  <2> QED
    BY <1>15, <2>2, <2>3, <2>4
<1>20. Acts' = [Separate!Below EXCEPT ![k].locals = locals]
  <2>1. PICK acts \in Seq(Activity), bcts \in Seq(Activity) : acts = Acts /\ bcts = Acts'
    BY <1>9
  <2>2. Dropped(acts, bcts, k)
    BY <1>9, <1>10, <1>19, <2>1 DEF Dropped
  <2>3. bcts = [SubSeq(acts, 1, k) EXCEPT ![k].locals = bcts[k].locals]
    BY <2>2, LastDropped
  <2>4. Separate!Below = SubSeq(acts, 1, k)
    <3>1. k + 1 - 1 = k
      OBVIOUS
    <3> QED
      BY <1>9, <2>1, <3>1 DEF Separate!Below
  <2> QED
    BY <1>19, <2>1, <2>3, <2>4
<1>21. locals \in Separate!Locals(Acts[k].func)
  BY <1>5, <1>14, <1>15, <1>19 DEF Separate!Locals
<1>22. Separate!AtEnd /\ Len(Acts) > 1 /\ Len(Acts) - 1 = k
  BY <1>1, <1>9, <1>11 DEF Separate!AtEnd
<1> QED
  BY <1>11, <1>18, <1>19, <1>20, <1>21, <1>22 DEF Separate!Finish

-----------------------------------------------------------------------------
(* Beginning and end. *)

LEMMA StartStep == ASSUME IInv, IInv', Shape', CallFromC PROVE Separate!Start
<1>1. phase = "boot" /\ phase' = "run" /\ m_frames = <<BaseFrame>> /\ m_frames \in Seq(Frame)
      /\ Len(m_frames) = 1
  BY DEF CallFromC, IInv, PhaseOK, TypeOK
<1>2. PICK e : /\ e = [func |-> Script, base |-> 0, oldStackSize |-> 1 + NArgs, ip |-> 0]
               /\ m_frames' = Append(m_frames, e)
  BY DEF CallFromC, PushFrame
<1>3. e \in Frame /\ e.func = Script /\ e.base = 0 /\ e.ip = 0
  BY <1>2, CallStackAssumption DEF Frame
<1>4. Len(m_frames') = 2 /\ m_frames'[2] = e
  BY <1>1, <1>2, <1>3, PushTop
<1>5. PICK l \in Nat : l = LocalSpace[Script]
  BY CallStackAssumption
<1>6. LocalsEnd(2)' = l
  <2>1. LocalsEnd(2)' = e.base + LocalSpace[e.func]
    BY <1>4 DEF LocalsEnd, WindowEnd
  <2> QED
    BY <1>3, <1>5, <2>1
<1>7. 2 \in 2 .. Len(m_frames') /\ 1 \in 1 .. Len(m_frames') - 1 /\ l - 0 = l
  BY <1>4
<1>8. LocalsOf(2)' \in Seq(Value) /\ Len(LocalsOf(2)') = l
  <2>1. /\ LocalsOf(2)' \in Seq(Value)
        /\ Len(LocalsOf(2)') = LocalsEnd(2)' - m_frames'[2].base
    BY <1>1, <1>7 DEF Shape
  <2> QED
    BY <1>3, <1>4, <1>6, <1>7, <2>1
<1>9. /\ Acts' \in Seq(Activity) /\ Len(Acts') = 1
      /\ Acts'[1].func = Script /\ Acts'[1].ip = 0 /\ Acts'[1].locals = LocalsOf(2)'
  <2>1. 1 + 1 = 2 /\ 2 - 1 = 1
    OBVIOUS
  <2> QED
    BY <1>1, <1>3, <1>4, <1>7, <2>1 DEF Shape
<1>10. PICK locals : locals = LocalsOf(2)'
  OBVIOUS
<1>11. locals \in Separate!Locals(Script)
  BY <1>5, <1>8, <1>10 DEF Separate!Locals
<1>12. Acts' = <<Separate!Activation(Script, locals)>>
  <2>1. PICK x \in Activity : x = Acts'[1]
    BY <1>9
  <2>2. x = Separate!Activation(Script, locals)
    BY <1>9, <1>10, <2>1 DEF Activity, Separate!Activation
  <2>3. Acts' = <<x>>
    BY <1>9, <2>1
  <2> QED
    BY <2>2, <2>3
<1>13. Status = "idle" /\ Status' = "running"
  BY <1>1 DEF Status
<1> QED
  BY <1>11, <1>12, <1>13 DEF Separate!Start

LEMMA EndStep == ASSUME IInv, Shape, ReturnToC PROVE Separate!FinishScript
<1>1. phase = "run" /\ phase' = "done" /\ Len(m_frames) = 2 /\ Top.ip = CodeLen[Top.func]
  BY DEF ReturnToC, AtEnd
<1>2. /\ Separate!Top.func = Top.func /\ Separate!Top.ip = Top.ip /\ Status = "running"
      /\ Len(Acts) \in Nat /\ Len(m_frames) = Len(Acts) + 1
  BY <1>1, RunningTop
<1>3. Acts' = <<>> /\ Status' = "done" /\ Len(Acts) = 1
  BY <1>1, <1>2 DEF Acts, Status
<1> QED
  BY <1>1, <1>2, <1>3 DEF Separate!FinishScript, Separate!AtEnd

LEMMA FailStep ==
  ASSUME IInv, Shape, Running, phase' \in {"unwind", "undefined"}
  PROVE  Separate!Fail \/ Separate!Exhaust
<1>1. phase = "run" /\ Top.ip < CodeLen[Top.func]
  BY DEF Running
<1>2. Separate!Running
  BY <1>1, RunningTop DEF Separate!Running
<1>3. Acts' = <<>> /\ Status' = IF phase' = "unwind" THEN "failed" ELSE "exhausted"
  BY DEF Acts, Status
<1> QED
  BY <1>2, <1>3 DEF Separate!Fail, Separate!Exhaust

(* Steps that no activation takes part in. *)
LEMMA HiddenStep ==
  ASSUME Unwind \/ Rethrow \/ Terminated \/ UNCHANGED vars
  PROVE  UNCHANGED Separate!vars
<1>1. CASE Unwind \/ Rethrow
  <2>1. phase = "unwind" /\ phase' \in {"unwind", "failed"}
    BY <1>1 DEF Unwind, Rethrow
  <2>2. Acts = <<>> /\ Acts' = <<>> /\ Status = "failed" /\ Status' = "failed"
    BY <2>1 DEF Acts, Status
  <2> QED
    BY <2>2 DEF Separate!vars
<1>2. CASE Terminated \/ UNCHANGED vars
  <2>1. UNCHANGED <<m_values, m_size, m_frames, phase>>
    BY <1>2 DEF Terminated, vars
  <2>2. Acts' = Acts /\ Status' = Status
    BY <2>1 DEF Acts, Status, LocalsOf
  <2> QED
    BY <2>2 DEF Separate!vars
<1> QED
  BY <1>1, <1>2

LEMMA RefineStep ==
  ASSUME IInv, IInv', Shape, Shape', BasesRise, [Next]_vars
  PROVE  [Separate!Next]_(Separate!vars)
<1> USE DEF Separate!Next
<1>1. CASE CallFromC
  BY <1>1, StartStep
<1>2. ASSUME NEW d \in 0 .. StackReserve, NEW v \in Value, Assign(d, v) \/ CallCFunction(d, v)
      PROVE  Separate!Step
  <2>1. /\ Running /\ d \in Nat /\ phase' = phase
        /\ m_frames' = Advance(Top.ip + 1)
        /\ m_values' = [m_values EXCEPT ![Top.base + d] = v]
    BY <1>2, CallStackAssumption DEF Assign, CallCFunction, Arguments
  <2>2. d = 0 \/ d < LocalSpace[Top.func]
    BY <1>2 DEF Assign, CallCFunction, Arguments
  <2>3. Top.ip + 1 \in 0 .. CodeLen[Top.func]
    <3>1. phase = "run" /\ Top.ip < CodeLen[Top.func]
      BY <2>1 DEF Running
    <3>2. Top.ip \in Nat /\ CodeLen[Top.func] \in Nat
      BY <3>1, RunningBody
    <3> QED
      BY <3>1, <3>2
  <2>4. PICK ip \in 0 .. CodeLen[Top.func] : ip = Top.ip + 1
    BY <2>3
  <2>5. m_frames' = Advance(ip)
    BY <2>1, <2>4
  <2> QED
    BY <2>1, <2>2, <2>4, <2>5, WithinStep
<1>3. ASSUME NEW ip \in 0 .. (IF Running THEN CodeLen[Top.func] ELSE 0), Goto(ip)
      PROVE  Separate!Step
  <2>1. /\ Running /\ ip \in 0 .. CodeLen[Top.func] /\ m_frames' = Advance(ip)
        /\ phase' = phase /\ m_values' = m_values
    BY <1>3 DEF Goto
  <2> QED
    BY <2>1, WithinStep, CallStackAssumption
<1>4. ASSUME NEW a \in 0 .. StackReserve, NEW f \in Func, Call(f, a)
      PROVE  Separate!Invoke
  <2>1. a \in Nat
    BY CallStackAssumption
  <2> QED
    BY <1>4, <2>1, InvokeStep
<1>5. ASSUME NEW a \in 0 .. StackReserve, NEW f \in Func, Overflow(f, a)
      PROVE  Separate!Fail \/ Separate!Exhaust
  BY <1>5, FailStep DEF Overflow, Arguments
<1>6. CASE Return
  BY <1>6, FinishStep
<1>7. CASE ReturnToC
  BY <1>7, EndStep
<1>8. CASE Throw
  BY <1>8, FailStep DEF Throw
<1>9. CASE Unwind \/ Rethrow \/ Terminated \/ UNCHANGED vars
  BY <1>9, HiddenStep
<1> QED
  BY <1>1, <1>2, <1>3, <1>4, <1>5, <1>6, <1>7, <1>8, <1>9 DEF Next

-----------------------------------------------------------------------------
(* JSVM's one value stack, on which the window of a callee lies over the   *)
(* arguments in its caller's, implements an activation of its own for      *)
(* every call: no callee changes a local its caller still needs, arguments *)
(* and results arrive, missing arguments are nil, and an exception ends    *)
(* every activation.                                                       *)
THEOREM Implements == Spec => ImplementsActivations
<1>1. Init => BasesRise
  BY RiseInit
<1>2. IInv /\ IInv' /\ BasesRise /\ [Next]_vars => BasesRise'
  BY RiseNext
<1>3. IInv => Shape
  BY ShapeHolds
<1>4. Init => Separate!Init
  BY DEF Init, Separate!Init, Acts, Status
<1>5. IInv /\ IInv' /\ Shape /\ Shape' /\ BasesRise /\ [Next]_vars
        => [Separate!Next]_(Separate!vars)
  BY RefineStep
<1> QED
  BY <1>1, <1>2, <1>3, <1>4, <1>5, InductiveInvariant, PTL
     DEF Spec, ImplementsActivations, Separate!Spec
=============================================================================
