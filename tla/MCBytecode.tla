----------------------------- MODULE MCBytecode -----------------------------
(***************************************************************************)
(* Bodies for TLC: the trees of expressions and of statements.             *)
(***************************************************************************)
EXTENDS BytecodeProperties, Meaning

MCConstTable ==
  [i \in 0 .. 2 |-> <<Nil, Number(<<"lit", 0>>), <<"String", "g">>>>[i + 1]]

Local(i) == ExprNode_Local(1, i)
Const(i) == ExprNode_Const(1, i)
Global   == ExprNode_Global(2, 2)
Lambda   == ExprNode_Lambda(2, 1)

AssignTo(l, r) == StmtNode_Assign(9, l, r)
Return1(e)     == StmtNode_Return(9, e)
IfOf(a, b)     == StmtNode_If(9, Global, a, b)
ForOf(body)    == StmtNode_For(9, Nothing, Global, AssignTo(Global, Const(1)), body)

Body(n, stmts) == [localCount |-> n, tree |-> StmtNode_Block(stmts)]

RECURSIVE Mentions(_, _), Spine(_, _)
Mentions(x, e) ==
  CASE e.t = "Local" -> e.i = x
    [] e.t \in {"Const", "Global", "Lambda"} -> FALSE
    [] e.t \in {"And", "Or"} -> Mentions(x, e.l) \/ Mentions(x, e.r)
    [] OTHER -> \E i \in DOMAIN Operands(e) : Mentions(x, Operands(e)[i])

(* A chain of && and || that reads x after an operand of it has been       *)
(* evaluated.                                                              *)
Spine(x, e) == e.t \in {"And", "Or"} /\ (Mentions(x, e.r) \/ Spine(x, e.l))

----------------------------------------------------------------------------
(* Expressions: every kind over locals and a number, then pairs of those.  *)

Leaves == {Local(0), Local(1), Const(1)}

Simple ==
  Leaves \cup {Global, Lambda, ExprNode_UnaryOp(3, "not", Local(0)), ExprNode_BinaryOp(3, "&&", Local(0), Local(1)),
    ExprNode_BinaryOp(3, "-", Local(0), Const(1)), ExprNode_BinaryOp(3, "<", Local(1), Const(1)),
    ExprNode_ArrayConstructor(3, <<>>), ExprNode_ArrayConstructor(3, <<Local(1), Local(0)>>), ExprNode_Call(3, Global, <<>>),
    ExprNode_Call(3, Local(0), <<Local(1)>>), ExprNode_IndexOf(3, ExprNode_ArrayConstructor(4, <<Local(1)>>), Const(1))}

Composed ==
  {ExprNode_UnaryOp(5, op, e) : op \in {"not", "-", "#"}, e \in Simple} \cup
  {ExprNode_BinaryOp(5, op, l, r) : op \in {"&&", "||", "+", "<"}, l, r \in Simple} \cup
  {ExprNode_ArrayConstructor(5, <<l, r>>) : l, r \in Simple} \cup
  {ExprNode_IndexOf(5, l, r) : l \in Simple, r \in {Const(1), Local(0), ExprNode_Call(6, Global, <<>>)}} \cup
  {ExprNode_Call(5, l, <<r>>) : l \in {Global, Local(0), ExprNode_Call(6, Global, <<>>)}, r \in Simple} \cup
  {ExprNode_Call(5, Global, <<l, r>>) : l, r \in {Local(1), ExprNode_Call(6, Global, <<Local(0)>>)}}

(* What a body leaves: both locals. *)
Both == Return1(ExprNode_ArrayConstructor(8, <<Local(0), Local(1)>>))

ExprPrograms ==
  {Body(2, <<AssignTo(Local(0), e), Both>>) : e \in {f \in Composed : ~ Spine(0, f)}} \cup
  {Body(2, <<Return1(e)>>) : e \in {f \in Simple : ~ Spine(0, f)}} \cup
  {Body(2, <<AssignTo(ExprNode_IndexOf(7, Local(0), k), e), Both>>) : k \in Leaves, e \in Simple} \cup
  {Body(2, <<AssignTo(Local(1), ExprNode_ArrayConstructor(7, <<Local(0), Local(0)>>)),
             AssignTo(ExprNode_IndexOf(7, Local(1), Const(1)), e), Both>>) : e \in Simple} \cup
  {Body(2, <<StmtNode_Call(9, e), Both>>) :
     e \in {ExprNode_Call(5, f, <<x>>) : f \in {Global, Local(1)}, x \in Simple}}

(* x = y && x. No run: as Programs it violates CodeMeansTree. *)
AndPrograms ==
  {Body(2, <<AssignTo(Local(0), ExprNode_BinaryOp(5, "&&", Local(1), Local(0))), Both>>)}

(* A body of 65 locals. No run: as Programs, with one value in Starts, it  *)
(* violates CodeMeansTree.                                                 *)
ManyLocals ==
  {Body(65, <<AssignTo(Local(0), Const(1)), AssignTo(Local(64), Const(0)), Return1(Local(0))>>)}

----------------------------------------------------------------------------
(* Statements: a loop around two parts, each an if or a loop of its own.   *)

Marker(i) == AssignTo([Global EXCEPT !.i = i], Const(1))
Jumps   == {StmtNode_Break(9), StmtNode_Continue(9), Return1(Const(1)),
            Return1(Nothing)}
Ifs     == {IfOf(j, Nothing) : j \in Jumps} \cup {IfOf(Marker(1), j) : j \in Jumps}
Loops   == {ForOf(s) : s \in Ifs} \cup {ForOf(StmtNode_Block(<<j, Marker(2)>>)) : j \in Ifs}

FlowPrograms ==
  {Body(1, <<ForOf(StmtNode_Block(<<l, s>>)), Marker(0)>>) : l \in Loops, s \in Ifs} \cup
  {Body(1, <<ForOf(StmtNode_Block(<<s, u, Marker(2)>>)), Marker(0)>>) : s, u \in Ifs} \cup
  {Body(1, <<l, m, Marker(0)>>) : l, m \in Loops}

(* A break or continue of a loop, then a loop inside it. *)
NestedPrograms ==
  {Body(1, <<ForOf(StmtNode_Block(<<IfOf(StmtNode_Break(9), Nothing), ForOf(Marker(1))>>)),
             Marker(0)>>)}

(* Bodies without a local. *)
EmptyPrograms ==
  {Body(0, <<>>), Body(0, <<Return1(Nothing)>>), Body(0, <<Return1(Const(1))>>),
   Body(0, <<StmtNode_Call(9, ExprNode_Call(5, Global, <<>>))>>)}

AllPrograms == ExprPrograms \cup FlowPrograms \cup EmptyPrograms

SomeValues == {Number(<<"lit", 0>>), <<"Function", 1>>, Bool(FALSE)}
=============================================================================
