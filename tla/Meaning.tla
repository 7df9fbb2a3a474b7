------------------------------ MODULE Meaning -------------------------------
(***************************************************************************)
(* What a tree means, as JavaScript has it: the reference the generated    *)
(* code is compared with.  A run is a record of the locals, the arrays,    *)
(* the events so far, the answers still to come and how it goes on:        *)
(* "ok", by a jump, "fail" at a line, or "out" when no answer is left.     *)
(***************************************************************************)
EXTENDS Bytecode

Begin(start, answers) ==
  [locals |-> start, arrays |-> <<>>, events |-> <<>>, answers |-> answers,
   status |-> "ok", line |-> 0, result |-> Nil]

Ok(r) == r.status = "ok"
Fail(r, line) == [r EXCEPT !.status = "fail", !.line = line]

Ret(r, v) == [r |-> r, v |-> v]

(* An event, and its answer. *)
Happens(r, what, args) ==
  IF r.answers = <<>> THEN Ret([r EXCEPT !.status = "out"], Nil)
  ELSE Ret([r EXCEPT !.answers = Tail(@),
                     !.events = Append(@, Event(what, args, r.answers[1]))],
           r.answers[1])

RECURSIVE Value(_, _), Values(_, _, _)

(* The values of a list, from left to right, behind those had already. *)
Values(r, exprs, vs) ==
  IF exprs = <<>> \/ ~ Ok(r) THEN Ret(r, vs)
  ELSE LET x == Value(r, exprs[1]) IN Values(x.r, Tail(exprs), Append(vs, x.v))

(* The value of an expression whose operands have the values vs. *)
Apply(r, e, vs) ==
  CASE e.t = "Not" -> Ret(r, Bool(~ getBoolean(vs[1])))
    [] e.t = "Minus" /\ Type(vs[1]) = "Number" -> Ret(r, Number(<<"Minus", vs[1][2]>>))
    [] e.t = "Len" /\ Type(vs[1]) = "Array" ->
         Ret(r, Number(<<"lit", Len(r.arrays[vs[1][2]])>>))
    [] e.t \in Arithmetic /\ Typed(e.t, vs[1], vs[2]) -> Ret(r, Arith(e.t, vs[1], vs[2]))
    [] e.t \in Comparisons /\ Typed(e.t, vs[1], vs[2]) -> Happens(r, e.t, vs)
    [] e.t = "IndexOf" /\ InArray(r.arrays, vs[1], vs[2]) ->
         Ret(r, r.arrays[vs[1][2]][vs[2][2][2] + 1])
    [] e.t = "ArrayConstructor" ->
         Ret([r EXCEPT !.arrays = Append(@, vs)], <<"Array", Len(r.arrays) + 1>>)
    [] e.t = "CallE" /\ Type(vs[1]) = "Function" -> Happens(r, "Call", vs)
    [] OTHER -> Ret(Fail(r, e.line), Nil)

Value(r, e) ==
  CASE e.t = "Local"  -> Ret(r, r.locals[e.i])
    [] e.t = "Const"  -> Ret(r, constTable[e.i])
    [] e.t = "Global" -> Happens(r, "GetGlobal", <<constTable[e.i]>>)
    [] e.t = "Lambda" -> Ret(r, <<"Function", e.i>>)
    [] e.t \in {"And", "Or"} ->
         LET l == Value(r, e.l)
         IN  IF Ok(l.r) /\ (getBoolean(l.v) <=> e.t = "And") THEN Value(l.r, e.r) ELSE l
    [] OTHER -> LET xs == Values(r, Operands(e), <<>>)
                IN  IF Ok(xs.r) THEN Apply(xs.r, e, xs.v) ELSE Ret(xs.r, Nil)

Store(s, xs) ==
  LET r == xs.r  vs == xs.v IN
  CASE ~ Ok(r) -> r
    [] Ok(r) /\ s.left.t = "Local" -> [r EXCEPT !.locals[s.left.i] = vs[1]]
    [] Ok(r) /\ s.left.t = "Global" ->
         Happens(r, "SetGlobal", <<constTable[s.left.i], vs[1]>>).r
    [] Ok(r) /\ s.left.t = "IndexOf" ->
         IF InArray(r.arrays, vs[1], vs[2])
         THEN [r EXCEPT !.arrays[vs[1][2]][vs[2][2][2] + 1] = vs[3]]
         ELSE Fail(r, s.line)

RECURSIVE Run(_, _), RunAll(_, _), Loop(_, _)

RunAll(r, stmts) ==
  IF stmts = <<>> \/ ~ Ok(r) THEN r ELSE RunAll(Run(r, stmts[1]), Tail(stmts))

(* A loop, from its condition on. *)
Loop(r, s) ==
  LET test == Value(r, s.second)
      body == Run(test.r, s.body)
      next == IF body.status = "Continue" THEN [body EXCEPT !.status = "ok"] ELSE body
  IN  IF ~ Ok(r) THEN r
      ELSE IF ~ Ok(test.r) \/ ~ getBoolean(test.v) THEN test.r
      ELSE IF body.status = "Break" THEN [body EXCEPT !.status = "ok"]
      ELSE IF ~ Ok(next) THEN next
      ELSE Loop(Run(next, s.last), s)

Run(r, s) ==
  IF ~ Ok(r) THEN r
  ELSE
  CASE s.t = "Nothing" -> r
    [] s.t = "Assign" ->
         Store(s, Values(r, (IF s.left.t = "IndexOf" THEN <<s.left.array, s.left.index>>
                             ELSE <<>>) \o <<s.right>>, <<>>))
    [] s.t = "CallS" -> Value(r, s.callExpr).r
    [] s.t = "Block" -> RunAll(r, s.stmts)
    [] s.t = "If" ->
         LET test == Value(r, s.expr)
         IN  Run(test.r, IF getBoolean(test.v) THEN s.ifStmt ELSE s.elseStmt)
    [] s.t = "For" -> LET first == Run(r, s.first) IN IF Ok(first) THEN Loop(first, s) ELSE first
    [] s.t \in {"Break", "Continue"} -> [r EXCEPT !.status = s.t]
    [] s.t = "Return" ->
         IF s.expr = Nothing THEN [r EXCEPT !.status = "Return"]
         ELSE LET x == Value(r, s.expr)
              IN  IF Ok(x.r) THEN [x.r EXCEPT !.status = "Return", !.result = x.v] ELSE x.r

----------------------------------------------------------------------------
Reference ==
  Run(Begin(program.start, [i \in DOMAIN events |-> events[i].answer]), program.tree)

(* A body that has ended has done what its tree means: the same calls,     *)
(* reads and writes of globals and comparisons in the same order with the  *)
(* same operands, the same arrays, the same result; and where an operation *)
(* was refused, the line reported is that of the operation.                *)
CodeMeansTree ==
  phase \in {"done", "failed"} =>
    /\ Reference.events = events /\ Reference.arrays = arrays
    /\ phase = "done" => /\ Reference.status \in {"ok", "Return"}
                         /\ Reference.result = locals[0]
    /\ phase = "failed" => /\ Reference.status = "fail"
                           /\ Reference.line = func.ip2line[ip + 1]
=============================================================================
