---------------------------- MODULE MCCallStack ----------------------------
(***************************************************************************)
(* Instances of CallStackProperties and JitMoveProperties for TLC, in runs *)
(* that take a part: the stack of the machine, of a script main, a function *)
(* fn of one parameter and a function leaf without locals or temporaries;  *)
(* or the machine code of Move, which reads and writes the slots of one    *)
(* frame. The parts share no state; the one that is not taken stays as it  *)
(* is.                                                                     *)
(***************************************************************************)
EXTENDS CallStackProperties, JitMoveProperties

CONSTANT Parts    \* the parts a run takes, of "stack" and "jit"

VARIABLE part

MCInit ==
  /\ part \in Parts
  /\ Init /\ JitInit
  /\ part = "stack" => offset = CHOOSE o \in Offsets : TRUE

MCNext ==
  \/ part = "stack" /\ Next /\ UNCHANGED <<part, jitVars>>
  \/ part = "jit" /\ JitNext /\ UNCHANGED <<part, vars>>

MCSpec == MCInit /\ [][MCNext]_<<part, vars, jitVars>>
-----------------------------------------------------------------------------
CONSTANTS main, fn, leaf

Code == [f \in Func |-> IF f = main THEN 3 ELSE 2]
(* The script's first call passes nothing, its second two arguments; a     *)
(* call in the function passes one.                                        *)
Passes == [f \in Func |-> [ip \in 0 .. Code[f] - 1 |-> IF f = main THEN 2 * ip ELSE 1]]
Space == [f \in Func |-> CASE f = main -> 3 [] f = fn -> 2 [] f = leaf -> 0]
Params == [f \in Func |-> IF f = fn THEN 1 ELSE 0]
-----------------------------------------------------------------------------
LocalsBelow8 == {0, 1, 7}
ConstsBelow8 == {128, 135}
LocalsUpTo8  == {0, 8}
SomeCallers  == [r \in Register |-> CASE r = "rbx" -> -1 [] r = "rbp" -> -2
                  [] r = "r12" -> -3 [] r = "r13" -> -4 [] r = "r14" -> -5
                  [] r = "r15" -> -6 [] OTHER -> -7]
Aligned32    == {32, 4064}
=============================================================================
