---------------------------- MODULE Activations ----------------------------
(***************************************************************************)
(* What calls promise, without a shared stack: every activation of a body  *)
(* has locals of its own.  A call keeps the caller's locals below its      *)
(* arguments; what lies above is the callee's to destroy.  The callee sees *)
(* its arguments, nil for the missing ones, and anything at all in its     *)
(* other locals.  The result is the callee's first local, or nil if it has *)
(* none.  A failure ends all activations; running out of memory ends the   *)
(* promise.                                                                *)
(***************************************************************************)
EXTENDS Integers, Sequences

CONSTANTS Func, Script, CodeLen, ArgsAt, LocalSpace, ArgCount, Value, Nil

VARIABLES
  acts,    \* the activations: function, next instruction, kept locals
  status

vars == <<acts, status>>

Locals(f) == [1 .. LocalSpace[f] -> Value]

Activation(f, locals) == [func |-> f, ip |-> 0, locals |-> locals]

Init == acts = <<>> /\ status = "idle"

Top   == acts[Len(acts)]
Below == SubSeq(acts, 1, Len(acts) - 1)

Running == status = "running" /\ Top.ip < CodeLen[Top.func]

Start ==
  /\ status = "idle"
  /\ \E locals \in Locals(Script) : acts' = <<Activation(Script, locals)>>
  /\ status' = "running"

(* One instruction: at most one local changes, and control goes anywhere   *)
(* in the body.                                                            *)
Step ==
  /\ Running
  /\ \E ip \in 0 .. CodeLen[Top.func] :
       \/ acts' = [acts EXCEPT ![Len(acts)].ip = ip]
       \/ \E d \in DOMAIN Top.locals, v \in Value :
            acts' = [acts EXCEPT ![Len(acts)].ip = ip,
                                 ![Len(acts)].locals[d] = v]
  /\ UNCHANGED status

(* A call, with locals from a on as arguments; how many is written in the  *)
(* instruction.                                                            *)
Passed == ArgsAt[Top.func][Top.ip]

Invoke ==
  /\ Running
  /\ \E f \in Func, a \in DOMAIN Top.locals : \E locals \in Locals(f) :
       /\ a + Passed - 1 <= Len(Top.locals)
       /\ \A i \in DOMAIN locals :
            /\ i <= Passed => locals[i] = Top.locals[a + i - 1]
            /\ Passed < i /\ i <= ArgCount[f] => locals[i] = Nil
       /\ acts' = Append(Append(Below, [Top EXCEPT !.ip = @ + 1,
                                          !.locals = SubSeq(@, 1, a - 1)]),
                         Activation(f, locals))
  /\ UNCHANGED status

AtEnd == status = "running" /\ Top.ip = CodeLen[Top.func]

Result == IF Top.locals = <<>> THEN Nil ELSE Top.locals[1]

Finish ==
  /\ AtEnd /\ Len(acts) > 1
  /\ LET caller == acts[Len(acts) - 1]
         kept == caller.locals IN
     \E locals \in Locals(caller.func) :
       /\ SubSeq(locals, 1, Len(kept) + 1) = Append(kept, Result)
       /\ acts' = [Below EXCEPT ![Len(acts) - 1].locals = locals]
  /\ UNCHANGED status

FinishScript == AtEnd /\ Len(acts) = 1 /\ acts' = <<>> /\ status' = "done"

Fail    == Running /\ acts' = <<>> /\ status' = "failed"
Exhaust == Running /\ acts' = <<>> /\ status' = "exhausted"

Next == Start \/ Step \/ Invoke \/ Finish \/ FinishScript \/ Fail \/ Exhaust

Spec == Init /\ [][Next]_vars
=============================================================================
