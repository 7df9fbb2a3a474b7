------------------------------ MODULE Bytecode ------------------------------
(***************************************************************************)
(* The bytecode machine: it runs the code generated for the body of one    *)
(* function, one instruction at a time.  What depends on the rest of the   *)
(* program - what a call returns, what a global is, how two numbers        *)
(* compare - is an event with an answer, and any answer may come.          *)
(***************************************************************************)
EXTENDS CodeGen

CONSTANTS
  Programs,    \* bodies: the number of locals, and the tree
  constTable,  \* from index to value
  Starts,      \* the values locals may have when the body begins
  Answers,     \* the values a call may return and a global may have
  MaxEvents    \* bound: events of a run

ASSUME BytecodeAssumption ==
  \A p \in Programs : p.localCount \in Nat /\ p.tree \in StmtsOf[MaxHeight][p.localCount]

VARIABLES
  program, func,  \* the body with its first locals, and what was generated for it
  locals, ip, arrays,
  events, phase

vars == <<program, func, locals, ip, arrays, events, phase>>

(* A value is its type and what tells it from others of the type. *)
Nil       == <<"Nil", "nil">>
Bool(b)   == <<"Boolean", b>>
Number(x) == <<"Number", x>>
Type(v)   == v[1]

(* What a slot shows after a call has used it for something else. *)
Junk == <<"Junk", "junk">>

getBoolean(v) == v # Nil /\ v # Bool(FALSE)

(* The result of arithmetic, by its operands. *)
Arith(op, l, r) == <<Type(l), <<op, l[2], r[2]>>>>

(* An operand's type, as the ASSERT of the handler wants it. *)
Typed(op, l, r) ==
  \/ Type(l) = "Number" /\ Type(r) = "Number"
  \/ op = "Add" /\ Type(l) = "String"

Comparisons == {"Less", "LessEq", "Greater", "GreaterEq", "Equal", "NEqual"}
Arithmetic  == Binary \ Comparisons

(* The element a number denotes: a literal <<"lit", i>>. *)
InArray(as, a, k) ==
  /\ Type(a) = "Array" /\ Type(k) = "Number"
  /\ k[2][1] = "lit" /\ k[2][2] + 1 \in DOMAIN as[a[2]]

Event(what, args, answer) == [what |-> what, args |-> args, answer |-> answer]

Init ==
  /\ \E p \in Programs : \E f \in [0 .. p.localCount - 1 -> Starts] :
       /\ program = [tree |-> p.tree, start |-> f]
       /\ func = emitCode(p.localCount, p.tree)
       /\ locals = [i \in Slots(func) |->
                     IF i \in DOMAIN f THEN f[i] ELSE Junk]
  /\ ip = 0 /\ arrays = <<>> /\ events = <<>>
  /\ phase = IF func.ok THEN "run" ELSE "refused"

----------------------------------------------------------------------------

code    == func.codes[ip + 1]
field(i) == Decode(code, i)
At(op)  == phase = "run" /\ ip < Len(func.codes) /\ Op(code) = op
AtAny(ops) == \E op \in ops : At(op)

(* VarID::toValue, of the i-th field. *)
toValue(i) == IF isConst(field(i)) THEN constTable[index(field(i))] ELSE locals[index(field(i))]

Put(i, v) == locals' = [locals EXCEPT ![index(field(i))] = v]

Go == ip' = ip + 1 /\ UNCHANGED <<program, func, phase>>

Ask(what, args, answer) ==
  /\ Len(events) < MaxEvents
  /\ events' = Append(events, Event(what, args, answer))

Move ==
  /\ At("Move") /\ Put(1, toValue(2)) /\ Go /\ UNCHANGED <<arrays, events>>

NewFunction ==
  /\ At("NewFunction") /\ Put(1, <<"Function", field(2)>>) /\ Go
  /\ UNCHANGED <<arrays, events>>

NewArray ==
  /\ At("NewArray")
  /\ arrays' = Append(arrays, [i \in 1 .. field(3) |-> locals[index(field(2)) + i - 1]])
  /\ Put(1, <<"Array", Len(arrays) + 1>>)
  /\ Go /\ UNCHANGED events

Not ==
  /\ At("Not") /\ Put(1, Bool(~ getBoolean(toValue(2)))) /\ Go
  /\ UNCHANGED <<arrays, events>>

Minus ==
  /\ At("Minus") /\ Type(toValue(2)) = "Number"
  /\ Put(1, Number(<<"Minus", toValue(2)[2]>>)) /\ Go /\ UNCHANGED <<arrays, events>>

Length ==
  /\ At("Len") /\ Type(toValue(2)) = "Array"
  /\ Put(1, Number(<<"lit", Len(arrays[toValue(2)[2]])>>)) /\ Go
  /\ UNCHANGED <<arrays, events>>

Calculate ==
  /\ AtAny(Arithmetic) /\ Typed(Op(code), toValue(2), toValue(3))
  /\ Put(1, Arith(Op(code), toValue(2), toValue(3))) /\ Go
  /\ UNCHANGED <<arrays, events>>

Compare(b) ==
  /\ AtAny(Comparisons) /\ Typed(Op(code), toValue(2), toValue(3))
  /\ Ask(Op(code), <<toValue(2), toValue(3)>>, Bool(b))
  /\ Put(1, Bool(b)) /\ Go /\ UNCHANGED arrays

GetGlobal(v) ==
  /\ At("GetGlobal") /\ Ask("GetGlobal", <<toValue(2)>>, v)
  /\ Put(1, v) /\ Go /\ UNCHANGED arrays

SetGlobal ==
  /\ At("SetGlobal") /\ Ask("SetGlobal", <<toValue(1), toValue(2)>>, Nil)
  /\ Go /\ UNCHANGED <<locals, arrays>>

SetArray ==
  /\ At("SetArray") /\ InArray(arrays, toValue(1), toValue(2))
  /\ arrays' = [arrays EXCEPT ![toValue(1)[2]][toValue(2)[2][2] + 1] = toValue(3)]
  /\ Go /\ UNCHANGED <<locals, events>>

GetArray ==
  /\ At("GetArray") /\ InArray(arrays, toValue(2), toValue(3))
  /\ Put(1, arrays[toValue(2)[2]][toValue(3)[2][2] + 1])
  /\ Go /\ UNCHANGED <<arrays, events>>

(* The callee's window begins at the first argument: afterwards that slot  *)
(* holds the result, and those above it anything.                          *)
Call(v) ==
  /\ At("Call") /\ Type(toValue(1)) = "Function"
  /\ Ask("Call", <<toValue(1)>> \o
         [i \in 1 .. field(3) |-> locals[index(field(2)) + i - 1]], v)
  /\ locals' = [i \in DOMAIN locals |->
       IF i < index(field(2)) THEN locals[i] ELSE IF i = index(field(2)) THEN v ELSE Junk]
  /\ Go /\ UNCHANGED arrays

(* Mutant of Jump: the handler does not subtract 1. *)
JumpPast ==
  /\ AtAny({"Jump", "TrueJump", "FalseJump"})
  /\ LET taken == \/ At("Jump")
                  \/ At("TrueJump") /\ getBoolean(toValue(1))
                  \/ At("FalseJump") /\ ~ getBoolean(toValue(1))
         target == IF At("Jump") THEN field(1) ELSE field(2)
     IN  ip' = IF taken THEN target + 1 ELSE ip + 1
  /\ UNCHANGED <<program, func, phase, locals, arrays, events>>

(* The handler subtracts 1 and the loop adds it again. *)
Jump ==
  /\ AtAny({"Jump", "TrueJump", "FalseJump"})
  /\ LET taken == \/ At("Jump")
                  \/ At("TrueJump") /\ getBoolean(toValue(1))
                  \/ At("FalseJump") /\ ~ getBoolean(toValue(1))
         target == IF At("Jump") THEN field(1) ELSE field(2)
     IN  ip' = IF taken THEN target ELSE ip + 1
  /\ UNCHANGED <<program, func, phase, locals, arrays, events>>

(* The handler's ASSERT fails. *)
Refused ==
  \/ AtAny(Binary) /\ ~ Typed(Op(code), toValue(2), toValue(3))
  \/ At("Minus") /\ Type(toValue(2)) # "Number"
  \/ At("Len") /\ Type(toValue(2)) # "Array"
  \/ At("SetArray") /\ ~ InArray(arrays, toValue(1), toValue(2))
  \/ At("GetArray") /\ ~ InArray(arrays, toValue(2), toValue(3))
  \/ At("Call") /\ Type(toValue(1)) # "Function"

Throw ==
  /\ Refused
  /\ phase' = "failed"
  /\ UNCHANGED <<program, func, locals, ip, arrays, events>>

Return ==
  /\ phase = "run" /\ ip = Len(func.codes)
  /\ phase' = "done"
  /\ UNCHANGED <<program, func, locals, ip, arrays, events>>

Stopped ==
  /\ phase \in {"done", "failed", "refused"} \/ Len(events) = MaxEvents
  /\ UNCHANGED vars

Next ==
  \/ Move \/ NewFunction \/ NewArray
  \/ Not \/ Minus \/ Length \/ Calculate
  \/ \E b \in BOOLEAN : Compare(b)
  \/ \E v \in Answers : GetGlobal(v) \/ Call(v)
  \/ SetGlobal \/ SetArray \/ GetArray
  \/ Jump \/ Throw \/ Return \/ Stopped

Spec == Init /\ [][Next]_vars
=============================================================================
