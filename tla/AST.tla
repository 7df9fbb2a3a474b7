-------------------------------- MODULE AST ---------------------------------
(***************************************************************************)
(* The trees the parser's actions build and the code generator visits.  A  *)
(* node is a record: its kind t, its line, and its parts.  A part a        *)
(* statement does without is Nothing.                                      *)
(***************************************************************************)
EXTENDS Integers, Sequences

CONSTANT MaxIndex  \* bound of the model: the largest index of a constant or a meta

ASSUME ASTAssumption == MaxIndex \in Nat

Nothing == [t |-> "Nothing"]

ExprNode_Global(line, constIdx) == [t |-> "Global", line |-> line, i |-> constIdx]
ExprNode_Local(line, localIdx)  == [t |-> "Local", line |-> line, i |-> localIdx]
ExprNode_Const(line, constIdx)  == [t |-> "Const", line |-> line, i |-> constIdx]
ExprNode_Lambda(line, metaIdx)  == [t |-> "Lambda", line |-> line, i |-> metaIdx]

ExprNode_ArrayConstructor(line, exprs) ==
  [t |-> "ArrayConstructor", line |-> line, exprs |-> exprs]

ExprNode_IndexOf(line, array, index) ==
  [t |-> "IndexOf", line |-> line, array |-> array, index |-> index]

ExprNode_Call(line, func, params) ==
  [t |-> "CallE", line |-> line, func |-> func, params |-> params]

(* The operators by their texts; of any other text an ASSERT fails.  Pow is *)
(* an operator no text stands for.                                         *)
UnaryOp(opStr) ==
  CASE opStr = "not" -> "Not" [] opStr = "-" -> "Minus" [] opStr = "#" -> "Len"

BinaryOp(opStr) ==
  CASE opStr = "&&" -> "And"     [] opStr = "||" -> "Or"
    [] opStr = "<"  -> "Less"    [] opStr = "<=" -> "LessEq"
    [] opStr = ">"  -> "Greater" [] opStr = ">=" -> "GreaterEq"
    [] opStr = "==" -> "Equal"   [] opStr = "!=" -> "NEqual"
    [] opStr = "+"  -> "Add"     [] opStr = "-"  -> "Sub"
    [] opStr = "*"  -> "Mul"     [] opStr = "/"  -> "Div"
    [] opStr = "%"  -> "Mod"

ExprNode_UnaryOp(line, opStr, expr) == [t |-> UnaryOp(opStr), line |-> line, e |-> expr]

ExprNode_BinaryOp(line, opStr, lexpr, rexpr) ==
  [t |-> BinaryOp(opStr), line |-> line, l |-> lexpr, r |-> rexpr]

(* The subexpressions that are always evaluated, in their order. *)
Operands(e) ==
  CASE e.t \in {"Not", "Minus", "Len"} -> <<e.e>>
    [] e.t = "IndexOf" -> <<e.array, e.index>>
    [] e.t = "ArrayConstructor" -> e.exprs
    [] e.t = "CallE" -> <<e.func>> \o e.params
    [] OTHER -> <<e.l, e.r>>

----------------------------------------------------------------------------

StmtNode_Assign(line, left, right) == [t |-> "Assign", line |-> line, left |-> left, right |-> right]
StmtNode_Call(line, callExpr) == [t |-> "CallS", line |-> line, callExpr |-> callExpr]

(* A block has no line of its own. *)
StmtNode_Block(stmts) == [t |-> "Block", line |-> 0, stmts |-> stmts]

StmtNode_If(line, expr, ifStmt, elseStmt) ==
  [t |-> "If", line |-> line, expr |-> expr, ifStmt |-> ifStmt, elseStmt |-> elseStmt]

StmtNode_For(line, first, second, last, body) ==
  [t |-> "For", line |-> line, first |-> first, second |-> second, last |-> last, body |-> body]

StmtNode_Break(line)    == [t |-> "Break", line |-> line]
StmtNode_Continue(line) == [t |-> "Continue", line |-> line]
StmtNode_Return(line, expr) == [t |-> "Return", line |-> line, expr |-> expr]

----------------------------------------------------------------------------
(* The expressions of a body with so many locals, by height, and its       *)
(* statements over sets of expressions and of statements.                  *)
Variables(localCount) ==
  [t : {"Local"}, line : Nat, i : 0 .. localCount - 1] \cup [t : {"Global"}, line : Nat, i : 0 .. MaxIndex]

Elements(Part) == [t : {"IndexOf"}, line : Nat, array : Part, index : Part]

Unary  == {"Not", "Minus", "Len"}
Binary == {"Add", "Sub", "Mul", "Div", "Mod", "Pow", "Less", "LessEq",
           "Greater", "GreaterEq", "Equal", "NEqual"}

ExprsWith(localCount, Part) ==
  Variables(localCount) \cup Elements(Part)
  \cup [t : {"Const", "Lambda"}, line : Nat, i : 0 .. MaxIndex]
  \cup [t : Unary, line : Nat, e : Part]
  \cup [t : Binary \cup {"And", "Or"}, line : Nat, l : Part, r : Part]
  \cup [t : {"ArrayConstructor"}, line : Nat, exprs : Seq(Part)]
  \cup [t : {"CallE"}, line : Nat, func : Part, params : Seq(Part)]

ExprsOf[n \in Nat] ==
  IF n = 0 THEN [localCount \in Nat |-> {}]
  ELSE [localCount \in Nat |-> ExprsWith(localCount, ExprsOf[n - 1][localCount])]

StmtsWith(localCount, Expr, Part) ==
  LET Optional == Part \cup {Nothing} IN
  [t : {"Assign"}, line : Nat, left : Variables(localCount) \cup Elements(Expr), right : Expr]
  \cup [t : {"CallS"}, line : Nat, callExpr : Expr]
  \cup [t : {"Block"}, line : Nat, stmts : Seq(Part)]
  \cup [t : {"If"}, line : Nat, expr : Expr, ifStmt : Optional, elseStmt : Optional]
  \cup [t : {"For"}, line : Nat, first : Optional, second : Expr, last : Optional, body : Optional]
  \cup [t : {"Break", "Continue"}, line : Nat]
  \cup [t : {"Return"}, line : Nat, expr : Expr \cup {Nothing}]
=============================================================================
