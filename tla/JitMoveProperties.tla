------------------------- MODULE JitMoveProperties -------------------------
(***************************************************************************)
(* What the JIT of Move promises.                                          *)
(***************************************************************************)
EXTENDS JitMove

(* The variables have their types: the machine writes bytes to the buffer,  *)
(* and no memory but locals, constants and its stack.                       *)
JitTypeOK ==
  /\ jitPhase \in {"idle", "run", "fault"} /\ moves \in 0 .. MaxMoves
  /\ buffer \in [0 .. BufferSize - 1 -> 0 .. 255]
  /\ offset \in Offsets
  /\ DOMAIN reg = Register /\ DOMAIN mem = Data \cup Stack
  /\ DOMAIN expected = Data
  /\ at \in [in : {"interpreter", "trampoline", "buffer"}, ip : Nat]

(* A Move leaves what the interpreter's Move leaves: both words of the     *)
(* source in the destination, every other slot and constant as it was.     *)
MovesLikeInterpreter ==
  jitPhase = "idle" => \A a \in Data : mem[a] = expected[a]

(* The interpreter finds its stack pointer and the registers a callee must *)
(* keep as they were, although the trampoline and the code use them.       *)
CalleeSaved ==
  jitPhase = "idle" => \A r \in Saved : reg[r] = IF r = "rsp" THEN StackTop ELSE Callers[r]

(* The emitted code returns before its end and its instructions are those  *)
(* of the processor, so the only fault is a buffer that begins in one page *)
(* and ends in the next, of which ProtectMemory makes one executable.      *)
OnlyStraddlingFaults ==
  /\ JitTypeOK
  /\ jitPhase = "fault" => offset \div PageSize # (offset + BufferSize - 1) \div PageSize
-----------------------------------------------------------------------------
(* What makes the properties above inductive: where the processor is says  *)
(* what the registers and the words on the stack are.                      *)

(* The words on the stack before an instruction of the trampoline, and of  *)
(* the code.                                                               *)
TrampolineDepth(ip) ==
  IF ip <= 2 THEN ip - 1
  ELSE IF ip <= 13 THEN ip - 2
  ELSE IF ip = 14 THEN 12
  ELSE IF ip <= 21 THEN 21
  ELSE 28 - ip

CodeDepth(p) ==
  IF p \in {0, 40} THEN 22
  ELSE IF p \in {1, 39} THEN 23
  ELSE IF p \in {2, 5, 9, 12, 34, 38} THEN 24
  ELSE IF p \in {15, 29, 33} THEN 25
  ELSE 26

(* Where the instructions of the code begin. *)
Points == {0, 1, 2, 5, 9, 12, 15, 18, 21, 25, 28, 29, 33, 34, 38, 39, 40}

Word(k) == mem[StackTop - 8 * k]

(* The registers the trampoline pushes that it has to restore. *)
PushedFirst == <<"rbp", "r12", "r13", "r14", "r15", "rbx">>

KeptUpTo(n) == \A k \in 1 .. 6 : k <= n => Word(k) = Callers[PushedFirst[k]]

Depth(n) == reg["rsp"] = StackTop - 8 * n

(* Each register holds the interpreter's value up to the instruction that  *)
(* overwrites it, and from the one on that follows its pop.                *)
TrampolineAt(ip) ==
  /\ ip \in 1 .. 28
  /\ Depth(TrampolineDepth(ip))
  /\ KeptUpTo(TrampolineDepth(ip))
  /\ ip \notin 3 .. 27  => reg["rbp"] = Callers["rbp"]
  /\ ip \notin 16 .. 26 => reg["r12"] = Callers["r12"]
  /\ ip \notin 17 .. 24 => reg["r14"] = Callers["r14"]
  /\ ip \notin 18 .. 23 => reg["r15"] = Callers["r15"]
  /\ ip \notin 19 .. 25 => reg["r13"] = Callers["r13"]
  /\ ip \notin 21 .. 22 => reg["rbx"] = Callers["rbx"]
  /\ ip <= 20 => reg["rdi"] = offset
  /\ ip <= 19 => reg["rsi"] = FrameAt
  /\ ip = 20 => reg["rbp"] = FrameAt

CodeAt(p, dest, src) ==
  /\ p \in Points
  /\ Depth(CodeDepth(p))
  /\ KeptUpTo(6)
  /\ Word(22) = 21
  /\ p >= 2 => Word(24) = FrameAt
  /\ p <= 34 => reg["rbp"] = FrameAt
  /\ p \in {5, 21} => reg["rbx"] = FrameAt
  /\ p = 9 => reg["rbx"] = FrameAt + localIdx2RbpOff(src)
  /\ p = 25 => reg["rbx"] = FrameAt + localIdx2RbpOff(dest)
  /\ p \in {12, 15} => reg["rax"] = BlockAt(src \in Consts)
  /\ p \in {28, 29, 33, 34} => reg["rax"] = BlockAt(FALSE)

(* The two words of the source, on their way to the destination. *)
Unmoved(dest, src) ==
  /\ \A a \in Data \ {toValue(dest), toValue(dest) + 8} : mem[a] = expected[a]
  /\ mem[toValue(src)] = expected[toValue(dest)]
  /\ mem[toValue(src) + 8] = expected[toValue(dest) + 8]

Moved == \A a \in Data : mem[a] = expected[a]

DataAt(p, dest, src) ==
  /\ p <= 29 => Unmoved(dest, src)
  /\ p \in {15, 18, 21, 25, 28, 29, 33} => Word(25) = expected[toValue(dest)]
  /\ p \in {18, 21, 25, 28} => Word(26) = expected[toValue(dest) + 8]
  /\ p = 29 => reg["rbx"] = expected[toValue(dest) + 8]
  /\ p \in {33, 34} => \A a \in Data \ {toValue(dest)} : mem[a] = expected[a]
  /\ p = 34 => reg["rbx"] = expected[toValue(dest)]
  /\ p >= 38 => Moved

(* The displacements of the operand's two words are below 128. *)
Near(id) == id % 64 < 8
AllNear  == \A id \in LocalIds \cup Consts : Near(id)

Holds(dest, src) ==
  \A k \in 0 .. Len(compiled(dest, src)) - 1 : buffer[k] = compiled(dest, src)[k + 1]

MoveRuns(dest, src) ==
  /\ offset \div PageSize \in pages
  /\ Holds(dest, src)
  /\ \/ /\ at.in = "trampoline" /\ TrampolineAt(at.ip)
        /\ AllNear => IF at.ip <= 20 THEN Unmoved(dest, src) ELSE Moved
     \/ /\ at.in = "buffer" /\ CodeAt(at.ip, dest, src)
        /\ AllNear => DataAt(at.ip, dest, src)

JitInv ==
  /\ OnlyStraddlingFaults
  /\ CalleeSaved
  /\ AllNear => MovesLikeInterpreter
  /\ jitPhase = "run" => \E dest \in LocalIds, src \in LocalIds \cup Consts : MoveRuns(dest, src)
=============================================================================
