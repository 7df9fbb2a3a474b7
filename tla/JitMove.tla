------------------------------ MODULE JitMove ------------------------------
(***************************************************************************)
(* The JIT of Move: the bytes `compile` emits into the one code buffer and *)
(* a processor that runs them, entered by the trampoline.  Memory is words *)
(* of 8 bytes; a value is two words, its data and its type.  Every Move of *)
(* a body overwrites the code of the last one.                             *)
(***************************************************************************)
EXTENDS Integers, Sequences

CONSTANTS
  LocalIds,  \* operands that name a local, below 128
  Consts,    \* operands that name an entry of constTable, from 128 on
  Offsets,   \* where jitedcode may begin in its page
  Callers,   \* what the interpreter has in its registers
  MaxMoves   \* bound: Moves that run

VARIABLES
  jitPhase,  \* "idle", "run", or "fault": the program dies of a signal
  moves,     \* Moves so far
  buffer,    \* jitedcode
  pages,     \* pages that may be executed
  offset,    \* where jitedcode begins
  reg, mem,  \* the processor's registers, the program's memory
  at,        \* the next instruction: in the trampoline, or in the buffer
  expected   \* the words that execute of Move would leave (auxiliary)

jitVars == <<jitPhase, moves, buffer, pages, offset, reg, mem, at, expected>>

PageSize   == 4096
BufferSize == 64

Saved == {"rbx", "rbp", "rsp", "r12", "r13", "r14", "r15"}
Register == Saved \cup {"rax", "rcx", "rdx", "rsi", "rdi", "r8", "r9"}

ASSUME JitMoveAssumption ==
  /\ LocalIds \subseteq 0 .. 127 /\ Consts \subseteq 128 .. 255
  /\ MaxMoves \in Nat /\ Offsets \subseteq Nat
  /\ Callers \in [Register -> Int]

(* Addresses.  Before the locals of the frame are those of its caller,     *)
(* before the constant table is some other block of the heap.              *)
StackTop == 4096
FrameAt  == 8192
BlockAt(const) == IF const THEN 16384 ELSE 12288

Words(const) == {BlockAt(const) + 8 * k : k \in -16 .. 127}
Data  == Words(FALSE) \cup Words(TRUE)
Stack == {StackTop - 8 * k : k \in 0 .. 32}

(* VarID::toValue. *)
toValue(id) == BlockAt(id \in Consts) + 16 * (id % 64)

(* The StackFrame's two pointers. *)
FramePointers == [a \in {FrameAt + 16, FrameAt + 24} |-> BlockAt(a = FrameAt + 24)]

JitInit ==
  /\ jitPhase = "idle" /\ moves = 0
  /\ buffer = [k \in 0 .. BufferSize - 1 |-> 0]
  /\ pages = {} /\ offset \in Offsets
  /\ reg = [r \in Register |-> IF r = "rsp" THEN StackTop ELSE Callers[r]]
  /\ mem = [a \in Data \cup Stack |-> IF a \in Data THEN -a ELSE 0]
  /\ at = [in |-> "interpreter", ip |-> 0]
  /\ expected = [a \in Data |-> -a]

----------------------------------------------------------------------------
(* The assembler.  A byte is what is left of the int it is given. *)

Byte(n) == n % 256

localIdx2RbpOff(idx)   == IF idx \div 128 # 0 THEN 24 ELSE 16
localIdx2ValueOff(idx) == (idx % 64) * 16

beginBuild == <<82, 85>>                              \* push rdx, rbp
endBuild   == <<93, 90, 195>>                         \* pop rbp, rdx, ret

address(idx) ==
  <<72, 137, 235,                                     \* mov rbx, rbp
    72, 131, 195, localIdx2RbpOff(idx),               \* add rbx, pointer
    72, 139, 3>>                                      \* mov rax, [rbx]

loadLocal(idx) == address(idx) \o
  <<255, 112, Byte(localIdx2ValueOff(idx)),           \* push [rax+value]
    255, 112, Byte(localIdx2ValueOff(idx) + 8)>>      \* push [rax+value+8]

(* Mutant of storeLocal: the words are popped in the order they were       *)
(* pushed.                                                                 *)
storeLocalSwapped(idx) == address(idx) \o
  <<91, 72, 137, 88, Byte(localIdx2ValueOff(idx)),
    91, 72, 137, 88, Byte(localIdx2ValueOff(idx) + 8)>>

storeLocal(idx) == address(idx) \o
  <<91, 72, 137, 88, Byte(localIdx2ValueOff(idx) + 8),  \* pop rbx, mov [rax+], rbx
    91, 72, 137, 88, Byte(localIdx2ValueOff(idx))>>

compiled(dest, src) == beginBuild \o loadLocal(src) \o storeLocal(dest) \o endBuild

(* Mutant of Protected: the address is not rounded to a page, so mprotect  *)
(* refuses.                                                                *)
ProtectedExact(o) == IF o % PageSize = 0 THEN {o \div PageSize} ELSE {}

(* ProtectMemory: one page, the one the buffer begins in. *)
Protected(o) == {o \div PageSize}

Callable == jitPhase = "idle" /\ moves < MaxMoves

(* compile, ProtectMemory, and the call of ctiTrampolinejjs. *)
Move(dest, src) ==
  /\ Callable
  /\ buffer' = [k \in DOMAIN buffer |->
       IF k < Len(compiled(dest, src)) THEN compiled(dest, src)[k + 1] ELSE buffer[k]]
  /\ pages' = pages \cup Protected(offset)
  /\ expected' = [expected EXCEPT ![toValue(dest)] = expected[toValue(src)],
                                  ![toValue(dest) + 8] = expected[toValue(src) + 8]]
  /\ reg' = [reg EXCEPT !["rdi"] = offset, !["rsi"] = FrameAt]
  /\ at' = [in |-> "trampoline", ip |-> 1]
  /\ jitPhase' = "run" /\ moves' = moves + 1
  /\ UNCHANGED <<offset, mem>>

----------------------------------------------------------------------------
(* The processor. *)

push(r)      == [op |-> "push", r |-> r, len |-> 1]
pop(r)       == [op |-> "pop", r |-> r, len |-> 1]
add(r, n)    == [op |-> "add", r |-> r, n |-> n, len |-> 4]
move(r, s)   == [op |-> "move", r |-> r, s |-> s, len |-> 3]
set(r, n)    == [op |-> "set", r |-> r, n |-> n, len |-> 1]
call(r)      == [op |-> "call", r |-> r, len |-> 1]
ret          == [op |-> "ret", len |-> 1]
load(r, s)   == [op |-> "load", r |-> r, s |-> s, len |-> 3]
pushAt(r, n) == [op |-> "pushAt", r |-> r, n |-> n, len |-> 3]
store(r, n, s) == [op |-> "store", r |-> r, n |-> n, s |-> s, len |-> 4]

(* Mutant of trampoline: one word too few is dropped. *)
trampolineShort ==
  << push("rbp"), move("rbp", "rsp"), push("r12"), push("r13"), push("r14"),
     push("r15"), push("rbx"), push("r9"), push("r8"), push("rcx"),
     push("rdx"), push("rsi"), push("rdi"), add("rsp", -72),
     set("r12", 512), set("r14", 0), set("r15", 2), move("r13", "rdx"),
     move("rbp", "rsi"), call("rdi"), add("rsp", 112), pop("rbx"),
     pop("r15"), pop("r14"), pop("r13"), pop("r12"), pop("rbp"), ret >>

(* The trampoline; r12, r14 and r15 get constants nobody uses. *)
trampoline ==
  << push("rbp"), move("rbp", "rsp"), push("r12"), push("r13"), push("r14"),
     push("r15"), push("rbx"), push("r9"), push("r8"), push("rcx"),
     push("rdx"), push("rsi"), push("rdi"), add("rsp", -72),
     set("r12", 512), set("r14", 0), set("r15", 2), move("r13", "rdx"),
     move("rbp", "rsi"), call("rdi"), add("rsp", 120), pop("rbx"),
     pop("r15"), pop("r14"), pop("r13"), pop("r12"), pop("rbp"), ret >>

(* A displacement of 8 bits is signed. *)
Signed(b) == IF b < 128 THEN b ELSE b - 256

(* The instruction at the byte p of the buffer. *)
Decode(p) == LET b(k) == buffer[p + k] IN
  CASE b(0) = 82  -> push("rdx")
    [] b(0) = 85  -> push("rbp")
    [] b(0) = 91  -> pop("rbx")
    [] b(0) = 93  -> pop("rbp")
    [] b(0) = 90  -> pop("rdx")
    [] b(0) = 195 -> ret
    [] b(0) = 255 /\ b(1) = 112 -> pushAt("rax", Signed(b(2)))
    [] b(0) = 72 /\ b(1) = 137 /\ b(2) = 235 -> move("rbx", "rbp")
    [] b(0) = 72 /\ b(1) = 131 /\ b(2) = 195 -> add("rbx", Signed(b(3)))
    [] b(0) = 72 /\ b(1) = 139 /\ b(2) = 3   -> load("rax", "rbx")
    [] b(0) = 72 /\ b(1) = 137 /\ b(2) = 88  -> store("rax", Signed(b(3)), "rbx")
    [] OTHER -> [op |-> "illegal", len |-> 1]

InBuffer == at.in = "buffer"

Instruction == IF InBuffer THEN Decode(at.ip) ELSE trampoline[at.ip]

(* The pages the instruction's bytes are on may be executed. *)
Fetchable ==
  InBuffer => \A k \in 0 .. Instruction.len - 1 :
                (offset + at.ip + k) \div PageSize \in pages

After == [at EXCEPT !.ip = @ + IF InBuffer THEN Instruction.len ELSE 1]
Rsp   == reg["rsp"]
Pushed(w) ==
  /\ mem' = [mem EXCEPT ![Rsp - 8] = w]
  /\ reg' = [reg EXCEPT !["rsp"] = Rsp - 8]

Registers(i) ==
  \/ /\ i.op = "pop"
     /\ reg' = [reg EXCEPT !["rsp"] = Rsp + 8, ![i.r] = mem[Rsp]]
  \/ i.op = "move" /\ reg' = [reg EXCEPT ![i.r] = reg[i.s]]
  \/ i.op = "add"  /\ reg' = [reg EXCEPT ![i.r] = @ + i.n]
  \/ i.op = "set"  /\ reg' = [reg EXCEPT ![i.r] = i.n]
  \/ i.op = "load" /\ reg' = [reg EXCEPT ![i.r] = FramePointers[reg[i.s]]]

Memory(i) ==
  \/ i.op = "push" /\ Pushed(reg[i.r])
  \/ i.op = "pushAt" /\ Pushed(mem[reg[i.r] + i.n])
  \/ /\ i.op = "store"
     /\ mem' = [mem EXCEPT ![reg[i.r] + i.n] = reg[i.s]]
     /\ UNCHANGED reg

Execute ==
  /\ jitPhase = "run" /\ Fetchable
  /\ \/ Registers(Instruction) /\ UNCHANGED mem
     \/ Memory(Instruction)
  /\ at' = After
  /\ UNCHANGED <<jitPhase, moves, buffer, pages, offset, expected>>

CallCode ==
  /\ jitPhase = "run" /\ Fetchable /\ Instruction.op = "call"
  /\ Pushed(After.ip)
  /\ at' = [in |-> "buffer", ip |-> 0]
  /\ UNCHANGED <<jitPhase, moves, buffer, pages, offset, expected>>

(* ret, from the buffer to the trampoline and from there to the            *)
(* interpreter.                                                            *)
ReturnBack ==
  /\ jitPhase = "run" /\ Fetchable /\ Instruction.op = "ret"
  /\ IF InBuffer
     THEN /\ at' = [in |-> "trampoline", ip |-> mem[Rsp]]
          /\ reg' = [reg EXCEPT !["rsp"] = Rsp + 8]
          /\ jitPhase' = "run"
     ELSE at' = [in |-> "interpreter", ip |-> 0] /\ jitPhase' = "idle" /\ UNCHANGED reg
  /\ UNCHANGED <<moves, buffer, pages, offset, mem, expected>>

(* The bytes cannot be executed. *)
Fault ==
  /\ jitPhase = "run"
  /\ Instruction.op = "illegal" \/ ~ Fetchable
  /\ jitPhase' = "fault"
  /\ UNCHANGED <<moves, buffer, pages, offset, reg, mem, at, expected>>

Done ==
  /\ \/ jitPhase = "fault"
     \/ jitPhase = "idle" /\ moves = MaxMoves
  /\ UNCHANGED jitVars

JitNext ==
  \/ \E dest \in LocalIds, src \in LocalIds \cup Consts : Move(dest, src)
  \/ Execute
  \/ CallCode
  \/ ReturnBack
  \/ Fault
  \/ Done

JitSpec == JitInit /\ [][JitNext]_jitVars
=============================================================================
