------------------------- MODULE BytecodeProperties -------------------------
(***************************************************************************)
(* What generated code promises.                                           *)
(***************************************************************************)
EXTENDS Bytecode

(* The variables have their types: instructions are words of four bytes,   *)
(* and the machine is inside the code.                                     *)
TypeOK ==
  /\ \A i \in DOMAIN func.codes :
       /\ Len(func.codes[i]) = 4 /\ func.codes[i][1] < Len(ByteCodeType)
       /\ \A k \in 1 .. 4 : func.codes[i][k] \in 0 .. 255
  /\ ip \in 0 .. Len(func.codes)
  /\ DOMAIN locals = Slots(func)
  /\ phase \in {"run", "done", "failed", "refused"}

(* The fields of an instruction that are operands. *)
VarIDs(op) ==
  IF op = "Jump" THEN {}
  ELSE IF op \in {"NewFunction", "TrueJump", "FalseJump"} THEN {1} ELSE DOMAIN Fields(op)

(* The operands an instruction names, and the slots of its window, of which *)
(* there is one at least.                                                   *)
Named(c) ==
  IF Op(c) \in {"Call", "NewArray"}
  THEN {Decode(c, 1), Decode(c, 2)} \cup {Decode(c, 2) + i : i \in 1 .. Decode(c, 3) - 1}
  ELSE {Decode(c, i) : i \in VarIDs(Op(c))}

(* A call is followed by an instruction of its own line: while the callee  *)
(* runs, the caller's ip is already there, and unwinding reports its line; *)
(* a call is never the last instruction.  Jumps stay in the body.          *)
CallsAreFollowed ==
  \A i \in DOMAIN func.codes : LET c == func.codes[i] IN
    /\ Op(c) = "Call" =>
         i < Len(func.codes) /\ func.ip2line[i + 1] = func.ip2line[i]
    /\ Op(c) = "Jump" => Decode(c, 1) <= Len(func.codes)
    /\ Op(c) \in {"TrueJump", "FalseJump"} => Decode(c, 2) <= Len(func.codes)

(* No ASSERT of the generator fails, and all temporaries are given back;   *)
(* every local and temporary the code names is one of the slots that are    *)
(* reserved for the body when it is called, argument windows included, or   *)
(* the first, which is there for the result; and the caller of a call can   *)
(* be resumed and blamed (CallsAreFollowed).                                *)
GeneratorBalanced ==
  /\ func.ok /\ func.cur = func.localCount
  /\ \A i \in DOMAIN func.codes : \A id \in Named(func.codes[i]) :
       id < 128 => index(id) \in 0 .. func.max - 1 \cup {0}
  /\ CallsAreFollowed
=============================================================================
