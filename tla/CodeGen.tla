------------------------------ MODULE CodeGen ------------------------------
(***************************************************************************)
(* The code generator: a visitor of expressions and one of statements that *)
(* append instructions to a function's body.  Operators take the state of  *)
(* the generator and return the next; `ok` becomes FALSE when an ASSERT    *)
(* fails.  An instruction is a word of 32 bits, here its 4 bytes, the      *)
(* lowest first: the byte code and the fields its handler packs, of 8 or   *)
(* 16 bits.  An operand of 8 bits is a VarID.                              *)
(***************************************************************************)
EXTENDS AST

CONSTANTS
  NilConst,   \* where a body's constTable has nil
  MaxHeight   \* bound of the model: the height of a body's tree

ASSUME CodeGenAssumption == NilConst \in 0 .. MaxIndex /\ MaxHeight \in Nat

(* ByteCodeType, in the order of its values. *)
ByteCodeType ==
  << "NewFunction", "NewArray", "Move", "Not", "Minus", "Len", "SetGlobal",
     "GetGlobal", "Add", "Sub", "Mul", "Div", "Mod", "Pow", "Less", "LessEq",
     "Greater", "GreaterEq", "Equal", "NEqual", "SetArray", "GetArray",
     "Jump", "TrueJump", "FalseJump", "Call" >>

(* The widths of the fields of an instruction. *)
Fields(op) ==
  CASE op \in Binary \cup {"NewArray", "SetArray", "GetArray", "Call"} -> <<8, 8, 8>>
    [] op = "Jump" -> <<16>>
    [] op \in {"TrueJump", "FalseJump"} -> <<8, 16>>
    [] OTHER -> <<8, 8>>

(* What the ENCODE macros assert: no field is too large. *)
Largest(width) == IF width = 8 THEN 255 ELSE 65535
Fits(op, vals) == \A i \in DOMAIN vals : vals[i] <= Largest(Fields(op)[i])

ByteCode(op) == CHOOSE c \in 0 .. Len(ByteCodeType) - 1 : ByteCodeType[c + 1] = op

(* ENCODE_1, ENCODE_2 and ENCODE_3. *)
Encode(op, vals) ==
  CASE op = "Jump" -> <<ByteCode(op), vals[1] % 256, vals[1] \div 256, 0>>
    [] op \in {"TrueJump", "FalseJump"} ->
         <<ByteCode(op), vals[1], vals[2] % 256, vals[2] \div 256>>
    [] OTHER -> <<ByteCode(op), vals[1], vals[2], IF Len(vals) = 3 THEN vals[3] ELSE 0>>

Op(code) == ByteCodeType[code[1] + 1]

(* DECODE_1, DECODE_2 and DECODE_3: the i-th field. *)
Decode(code, i) ==
  LET f == Fields(Op(code))
      at == IF i = 3 THEN 4 ELSE i + 1
  IN  IF f[i] = 8 THEN code[at] ELSE code[at] + 256 * code[at + 1]

(* VarID::fromLocal and fromConst, and the index below 128 they assert. *)
fromLocal(localIdx) == localIdx
fromConst(constIdx) == 128 + constIdx
IsIndex(idx) == idx < 128

isConst(id) == id \div 128 = 1

(* Mutant of index: seven bits are kept. *)
indexWide(id) == id % 128

(* getLocal, getConst and toValue keep six bits. *)
index(id) == id % 64

----------------------------------------------------------------------------
New(localCount) ==
  [codes |-> <<>>, ip2line |-> <<>>, localCount |-> localCount,
   cur |-> localCount, max |-> localCount,
   Break |-> <<>>, Continue |-> <<>>, Return |-> <<>>, ok |-> TRUE]

Assert(g, holds) == [g EXCEPT !.ok = @ /\ holds]

(* Mutant of allocID: the maximum is not kept. *)
allocIDNoMax(g) ==
  Assert([g EXCEPT !.cur = @ + 1], IsIndex(g.cur))

(* LocalVarIDAllocator::allocID; the id is fromLocal(g.cur). *)
allocID(g) ==
  Assert([g EXCEPT !.cur = @ + 1, !.max = IF g.cur + 1 > @ THEN g.cur + 1 ELSE @],
         IsIndex(g.cur))

(* LocalVarIDAllocator::freeID. *)
freeID(g, id) == Assert([g EXCEPT !.cur = @ - 1], ~ isConst(id) /\ index(id) = g.cur - 1)

(* freeIDs of the n ids from the one of a slot on, the last one first. *)
freeIDs(g, slot, n) ==
  Assert([g EXCEPT !.cur = @ - n],
         \A i \in 1 .. n : LET id == fromLocal(slot + n - i)
                           IN  ~ isConst(id) /\ index(id) = g.cur - i)

(* CUR_CODE_OFF. *)
Off(g) == Len(g.codes)

EMIT(g, line, op, vals) ==
  Assert([g EXCEPT !.codes = Append(@, Encode(op, vals)), !.ip2line = Append(@, line)],
         Fits(op, vals))

PRE_EMIT(g, line) ==
  [g EXCEPT !.codes = Append(@, <<0, 0, 0, 0>>), !.ip2line = Append(@, line)]

POST_EMIT(g, off, op, vals) ==
  Assert([g EXCEPT !.codes[off + 1] = Encode(op, vals)], Fits(op, vals))

(* POST_EMIT_JUMPS: the jumps of a kind lead here, and the list is emptied. *)
POST_EMIT_JUMPS(g, jumps) ==
  Assert([g EXCEPT !.codes = [i \in DOMAIN @ |->
                      IF \E j \in DOMAIN g[jumps] : g[jumps][j] + 1 = i
                      THEN Encode("Jump", <<Off(g)>>) ELSE @[i]],
                   ![jumps] = <<>>],
         g[jumps] = <<>> \/ Fits("Jump", <<Off(g)>>))

----------------------------------------------------------------------------
(* ExprNodeVisitor_CodEmitor.  A visit is given the operand the value goes *)
(* to, or None, and returns the operand it is in; `alloc` tells whether    *)
(* the visitor's destructor frees it.                                      *)

None == -1

Visited(g, id, alloc) == [g |-> g, id |-> id, alloc |-> alloc]

(* The destructor. *)
Destroy(v) == IF v.alloc THEN freeID(v.g, v.id) ELSE v.g
DestroyIn(g, v) == Destroy([v EXCEPT !.g = g])

(* makesureValidVarID. *)
makesureValidVarID(g, dest) ==
  IF dest = None THEN Visited(allocID(g), fromLocal(g.cur), TRUE)
  ELSE Visited(g, dest, FALSE)

(* E visits the expressions of less height. *)
Visit(E, g, e, dest) == E[e][g][dest]

(* Values of a list in temporaries of their own, one after the other; at   *)
(* least one temporary.                                                    *)
Window(E, g, exprs) ==
  LET W[n \in 0 .. Len(exprs)] ==
        IF n = 0 THEN g
        ELSE Destroy(Visit(E, allocID(W[n - 1]), exprs[n], fromLocal(W[n - 1].cur)))
  IN  W[Len(exprs)]

WindowOrOne(E, g, exprs) == IF exprs = <<>> THEN allocID(g) ELSE Window(E, g, exprs)

FreeWindow(g, slot, exprs) ==
  freeIDs(g, slot, IF exprs = <<>> THEN 1 ELSE Len(exprs))

Leaf(g, e, dest, id) ==
  LET g0 == Assert(g, IsIndex(e.i)) IN
  IF dest = None THEN Visited(g0, id, FALSE)
  ELSE Visited(EMIT(g0, e.line, "Move", <<dest, id>>), dest, FALSE)

LogicalExpr(E, d, e) ==
  LET l == Destroy(Visit(E, d.g, e.l, d.id))
      r == Destroy(Visit(E, PRE_EMIT(l, e.line), e.r, d.id))
      jump == IF e.t = "And" THEN "FalseJump" ELSE "TrueJump"
  IN  [d EXCEPT !.g = POST_EMIT(r, Off(l), jump, <<d.id, Off(r)>>)]

(* Mutant of PairExpr: the left operand's temporary is free while the      *)
(* right one is computed.                                                  *)
PairExprEarly(E, d, line, op, left, right) ==
  LET l == Visit(E, d.g, left, None)
      r == Visit(E, Destroy(l), right, None)
  IN  [d EXCEPT !.g = EMIT(Destroy(r), line, op, <<d.id, l.id, r.id>>)]

(* Two operands; the left one is kept until the instruction is there. *)
PairExpr(E, d, line, op, left, right) ==
  LET l == Visit(E, d.g, left, None)
      r == Visit(E, l.g, right, None)
  IN  [d EXCEPT !.g = DestroyIn(EMIT(Destroy(r), line, op, <<d.id, l.id, r.id>>), l)]

CallExpr(E, d, e) ==
  LET f == Visit(E, d.g, e.func, None)
      args == fromLocal(f.g.cur)
      w == WindowOrOne(E, f.g, e.params)
      c == EMIT(w, e.line, "Call", <<f.id, args, Len(e.params)>>)
      m == EMIT(c, e.line, "Move", <<d.id, args>>)
  IN  [d EXCEPT !.g = DestroyIn(FreeWindow(m, f.g.cur, e.params), f)]

ArrayExpr(E, d, e) ==
  LET w == WindowOrOne(E, d.g, e.exprs)
      n == EMIT(w, e.line, "NewArray", <<d.id, fromLocal(d.g.cur), Len(e.exprs)>>)
  IN  [d EXCEPT !.g = FreeWindow(n, d.g.cur, e.exprs)]

Expr(E, g, e, dest) ==
  IF e.t \in {"Local", "Const"}
  THEN Leaf(g, e, dest, IF e.t = "Local" THEN fromLocal(e.i) ELSE fromConst(e.i))
  ELSE LET d == makesureValidVarID(g, dest) IN
  CASE e.t = "Global" ->
         [d EXCEPT !.g = EMIT(Assert(@, IsIndex(e.i)), e.line, "GetGlobal", <<d.id, fromConst(e.i)>>)]
    [] e.t = "Lambda" -> [d EXCEPT !.g = EMIT(@, e.line, "NewFunction", <<d.id, e.i>>)]
    [] e.t \in Unary ->
         LET x == Visit(E, d.g, e.e, None)
         IN  [d EXCEPT !.g = EMIT(Destroy(x), e.line, e.t, <<d.id, x.id>>)]
    [] e.t \in {"And", "Or"} -> LogicalExpr(E, d, e)
    [] e.t \in Binary -> PairExpr(E, d, e.line, e.t, e.l, e.r)
    [] e.t = "IndexOf" -> PairExpr(E, d, e.line, "GetArray", e.array, e.index)
    [] e.t = "ArrayConstructor" -> ArrayExpr(E, d, e)
    [] e.t = "CallE" -> CallExpr(E, d, e)

(* The state of a generator, what a visit returns, and the visitor of the  *)
(* expressions of each height.                                             *)
Generators ==
  [codes : Seq(Seq(Int)), ip2line : Seq(Nat), localCount : Nat, cur : Int, max : Int,
   Break : Seq(Nat), Continue : Seq(Nat), Return : Seq(Nat), ok : BOOLEAN]

ExprVisitor[n \in Nat] ==
  IF n = 0 THEN [localCount \in Nat |-> <<>>]
  ELSE [localCount \in Nat |->
          [e \in ExprsOf[n][localCount] |->
             [g \in Generators |->
                [dest \in Int |-> Expr(ExprVisitor[n - 1][localCount], g, e, dest)]]]]

----------------------------------------------------------------------------
(* StmtNodeVisitor_CodeEmitor. *)

Assign(E, g, s) ==
  CASE s.left.t = "Local" ->
         Destroy(Visit(E, Assert(g, IsIndex(s.left.i)), s.right, fromLocal(s.left.i)))
    [] s.left.t = "IndexOf" ->
         LET a == Visit(E, g, s.left.array, None)
             k == Visit(E, a.g, s.left.index, None)
             v == Visit(E, k.g, s.right, None)
             e == EMIT(Destroy(v), s.line, "SetArray", <<a.id, k.id, v.id>>)
         IN  DestroyIn(DestroyIn(e, k), a)
    [] s.left.t = "Global" ->
         LET v == Visit(E, g, s.right, None)
         IN  EMIT(Assert(Destroy(v), IsIndex(s.left.i)), s.line, "SetGlobal",
                  <<fromConst(s.left.i), v.id>>)

(* S visits the statements of less height, E all expressions. *)
VisitStmt(S, g, s) == IF s = Nothing THEN g ELSE S[s][g]

Block(S, g, stmts) ==
  LET B[n \in 0 .. Len(stmts)] == IF n = 0 THEN g ELSE VisitStmt(S, B[n - 1], stmts[n])
  IN  B[Len(stmts)]

IfStmt(E, S, g, s) ==
  LET x == Visit(E, g, s.expr, None)
      test == Destroy(x)
      else == VisitStmt(S, PRE_EMIT(test, s.line), s.elseStmt)
      jump == POST_EMIT(PRE_EMIT(else, s.line), Off(test), "TrueJump", <<x.id, Off(else) + 1>>)
      then == VisitStmt(S, jump, s.ifStmt)
  IN  POST_EMIT(then, Off(else), "Jump", <<Off(then)>>)

ForStmt(E, S, g, s) ==
  LET first == VisitStmt(S, g, s.first)
      x == Visit(E, first, s.second, None)
      test == Destroy(x)
      body == VisitStmt(S, PRE_EMIT(test, s.line), s.body)
      last == VisitStmt(S, POST_EMIT_JUMPS(body, "Continue"), s.last)
      loop == EMIT(last, s.line, "Jump", <<Off(first)>>)
      exit == POST_EMIT(loop, Off(test), "FalseJump", <<x.id, Off(loop)>>)
  IN  POST_EMIT_JUMPS(exit, "Break")

(* The result of a body is its first slot. *)
MoveNil(g, line) == EMIT(g, line, "Move", <<fromLocal(0), fromConst(NilConst)>>)

JumpStmt(g, s) == [PRE_EMIT(g, s.line) EXCEPT ![s.t] = Append(@, Off(g))]

Stmt(E, S, g, s) ==
  CASE s.t = "Assign" -> Assign(E, g, s)
    [] s.t = "CallS" -> Destroy(Visit(E, g, s.callExpr, None))
    [] s.t = "Block" -> Block(S, g, s.stmts)
    [] s.t = "If" -> IfStmt(E, S, g, s)
    [] s.t = "For" -> ForStmt(E, S, g, s)
    [] s.t \in {"Break", "Continue"} -> JumpStmt(g, s)
    [] s.t = "Return" ->
         JumpStmt(IF s.expr = Nothing THEN MoveNil(g, s.line)
                  ELSE Destroy(Visit(E, g, s.expr, fromLocal(0))), s)

StmtsOf[n \in Nat] ==
  IF n = 0 THEN [localCount \in Nat |-> {}]
  ELSE [localCount \in Nat |->
          StmtsWith(localCount, ExprsOf[MaxHeight][localCount], StmtsOf[n - 1][localCount])]

StmtVisitor[n \in Nat] ==
  IF n = 0 THEN [localCount \in Nat |-> <<>>]
  ELSE [localCount \in Nat |->
          [s \in StmtsOf[n][localCount] |->
             [g \in Generators |->
                Stmt(ExprVisitor[MaxHeight][localCount], StmtVisitor[n - 1][localCount], g, s)]]]

(* emitCode: the body of a function of so many locals. *)
emitCode(localCount, tree) ==
  LET S == StmtVisitor[MaxHeight][localCount]
  IN  POST_EMIT_JUMPS(MoveNil(VisitStmt(S, New(localCount), tree), tree.line), "Return")

(* getLocalSpace, with the tempCount that emitCode leaves. *)
LocalSpace(g) == g.localCount + g.max

(* The slots of a window: the first is always there, the caller's, who     *)
(* expects the result in it.                                               *)
Slots(g) == {0} \cup 0 .. LocalSpace(g) - 1
=============================================================================
