---------------------------- MODULE GeneratorProofs ----------------------------
(***************************************************************************)
(* Proofs about the code generator and the machine that runs its code.      *)
(***************************************************************************)
EXTENDS BytecodeProperties, SequenceTheorems, TLAPS

-----------------------------------------------------------------------------
(* Trees and visitors by height: each of the recursive definitions obeys    *)
(* its equation.                                                            *)

NoneOf == [localCount \in Nat |-> {}]
VisitsNone == [localCount \in Nat |-> <<>>]

TallerExprs(n, x) == [localCount \in Nat |-> ExprsWith(localCount, x[localCount])]
TallerStmts(n, x) ==
  [localCount \in Nat |-> StmtsWith(localCount, ExprsOf[MaxHeight][localCount], x[localCount])]
TallerVisitor(n, x) ==
  [localCount \in Nat |->
     [e \in ExprsOf[n][localCount] |->
        [g \in Generators |-> [dest \in Int |-> Expr(x[localCount], g, e, dest)]]]]
TallerStmtVisitor(n, x) ==
  [localCount \in Nat |->
     [s \in StmtsOf[n][localCount] |->
        [g \in Generators |-> Stmt(ExprVisitor[MaxHeight][localCount], x[localCount], g, s)]]]

Exprs    == INSTANCE Induction WITH Start <- NoneOf, Step <- TallerExprs
Stmts    == INSTANCE Induction WITH Start <- NoneOf, Step <- TallerStmts
Visitor  == INSTANCE Induction WITH Start <- VisitsNone, Step <- TallerVisitor
SVisitor == INSTANCE Induction WITH Start <- VisitsNone, Step <- TallerStmtVisitor

LEMMA ExprsByHeight ==
  ASSUME NEW L \in Nat
  PROVE  /\ ExprsOf[0][L] = {}
         /\ \A n \in Nat : ExprsOf[n + 1][L] = ExprsWith(L, ExprsOf[n][L])
<1>1. ExprsOf = Exprs!Along
  BY DEF ExprsOf, Exprs!Along, NoneOf, TallerExprs
<1> QED
  BY <1>1, Exprs!Unfolds DEF NoneOf, TallerExprs

LEMMA StmtsByHeight ==
  ASSUME NEW L \in Nat
  PROVE  /\ StmtsOf[0][L] = {}
         /\ \A n \in Nat : StmtsOf[n + 1][L] = StmtsWith(L, ExprsOf[MaxHeight][L], StmtsOf[n][L])
<1>1. StmtsOf = Stmts!Along
  BY DEF StmtsOf, Stmts!Along, NoneOf, TallerStmts
<1> QED
  BY <1>1, Stmts!Unfolds DEF NoneOf, TallerStmts

LEMMA VisitorByHeight ==
  ASSUME NEW L \in Nat, NEW n \in Nat, NEW e \in ExprsOf[n + 1][L],
         NEW g \in Generators, NEW dest \in Int
  PROVE  Visit(ExprVisitor[n + 1][L], g, e, dest) = Expr(ExprVisitor[n][L], g, e, dest)
<1>1. ExprVisitor = Visitor!Along
  BY DEF ExprVisitor, Visitor!Along, VisitsNone, TallerVisitor
<1>2. ExprVisitor[n + 1] = TallerVisitor(n + 1, ExprVisitor[n])
  BY <1>1, Visitor!Unfolds
<1> QED
  BY <1>2 DEF TallerVisitor, Visit

LEMMA StmtVisitorByHeight ==
  ASSUME NEW L \in Nat, NEW n \in Nat, NEW s \in StmtsOf[n + 1][L], NEW g \in Generators
  PROVE  StmtVisitor[n + 1][L][s][g] = Stmt(ExprVisitor[MaxHeight][L], StmtVisitor[n][L], g, s)
<1>1. StmtVisitor = SVisitor!Along
  BY DEF StmtVisitor, SVisitor!Along, VisitsNone, TallerStmtVisitor
<1>2. StmtVisitor[n + 1] = TallerStmtVisitor(n + 1, StmtVisitor[n])
  BY <1>1, SVisitor!Unfolds
<1> QED
  BY <1>2 DEF TallerStmtVisitor
-----------------------------------------------------------------------------
(* Instructions. *)

Plain == {"Move", "Not", "Minus", "Len", "SetGlobal", "GetGlobal"}
Three == Binary \cup {"NewArray", "SetArray", "GetArray", "Call"}
Tests == {"TrueJump", "FalseJump"}
Ops   == Plain \cup {"NewFunction", "Jump"} \cup Three \cup Tests

(* An operand that is a constant, or a slot below m. *)
Good(m, id) == id \in Nat /\ (id < 128 => id < m \/ id = 0)

(* A word with the fields of its byte code, whatever their size. *)
IsWord(c) == c \in Seq(Int) /\ Len(c) = 4 /\ c[1] \in 0 .. 25

(* An instruction that is right in a body of n instructions, with m slots. *)
InstrTrue(c, m, n) ==
  /\ \A k \in 1 .. 4 : c[k] \in 0 .. 255
  /\ \A id \in Named(c) : id < 128 => index(id) \in 0 .. m - 1 \cup {0}
  /\ Op(c) = "Jump" => Decode(c, 1) <= n
  /\ Op(c) \in Tests => Decode(c, 2) <= n

LEMMA ByteCodes ==
  ASSUME NEW op \in Ops
  PROVE  ByteCode(op) \in 0 .. 25 /\ ByteCodeType[ByteCode(op) + 1] = op
<1> DEFINE S == {c \in 0 .. 25 : ByteCodeType[c + 1] = op}
<1>1. S # {}
  <2>1. CASE op \in Plain
    <3>1. 2 \in S \/ 3 \in S \/ 4 \in S \/ 5 \in S \/ 6 \in S \/ 7 \in S
      BY <2>1 DEF ByteCodeType, Plain
    <3> QED
      BY <3>1
  <2>2. CASE op \in {"NewFunction", "Jump"} \cup Tests
    <3>1. 0 \in S \/ 22 \in S \/ 23 \in S \/ 24 \in S
      BY <2>2 DEF ByteCodeType, Tests
    <3> QED
      BY <3>1
  <2>3. CASE op \in {"Add", "Sub", "Mul", "Div", "Mod", "Pow", "Less", "LessEq"}
    <3>1. 8 \in S \/ 9 \in S \/ 10 \in S \/ 11 \in S \/ 12 \in S \/ 13 \in S \/ 14 \in S \/ 15 \in S
      BY <2>3 DEF ByteCodeType
    <3> QED
      BY <3>1
  <2>4. CASE op \in {"Greater", "GreaterEq", "Equal", "NEqual", "SetArray", "GetArray", "NewArray", "Call"}
    <3>1. 16 \in S \/ 17 \in S \/ 18 \in S \/ 19 \in S \/ 20 \in S \/ 21 \in S \/ 1 \in S \/ 25 \in S
      BY <2>4 DEF ByteCodeType
    <3> QED
      BY <3>1
  <2> QED
    BY <2>1, <2>2, <2>3, <2>4 DEF Ops, Three, Binary
<1>2. Len(ByteCodeType) - 1 = 25
  BY DEF ByteCodeType
<1>3. ByteCode(op) = CHOOSE c \in 0 .. 25 : ByteCodeType[c + 1] = op
  BY <1>2 DEF ByteCode
<1>4. \E c \in 0 .. 25 : ByteCodeType[c + 1] = op
  BY <1>1
<1> QED
  BY <1>3, <1>4

LEMMA Widths ==
  /\ \A op \in Plain \cup {"NewFunction"} : Fields(op) = <<8, 8>>
  /\ \A op \in Three : Fields(op) = <<8, 8, 8>>
  /\ Fields("Jump") = <<16>>
  /\ \A op \in Tests : Fields(op) = <<8, 16>>
<1>1. ASSUME NEW op \in Plain \cup {"NewFunction"} PROVE Fields(op) = <<8, 8>>
  <2>1. /\ op \notin Binary \cup {"NewArray", "SetArray", "GetArray", "Call"}
        /\ op # "Jump" /\ op \notin {"TrueJump", "FalseJump"}
    BY DEF Plain, Binary
  <2> QED
    BY <2>1, Zenon DEF Fields
<1>2. ASSUME NEW op \in Three PROVE Fields(op) = <<8, 8, 8>>
  <2>1. /\ op \in Binary \cup {"NewArray", "SetArray", "GetArray", "Call"}
        /\ op # "Jump" /\ op \notin {"TrueJump", "FalseJump"}
    BY DEF Three, Binary
  <2> QED
    BY <2>1, Zenon DEF Fields
<1>3. Fields("Jump") = <<16>>
  <2>1. "Jump" \notin Binary \cup {"NewArray", "SetArray", "GetArray", "Call"}
    BY DEF Binary
  <2> QED
    BY <2>1, Zenon DEF Fields
<1>4. ASSUME NEW op \in Tests PROVE Fields(op) = <<8, 16>>
  <2>1. /\ op \notin Binary \cup {"NewArray", "SetArray", "GetArray", "Call"}
        /\ op # "Jump" /\ op \in {"TrueJump", "FalseJump"}
    BY DEF Tests, Binary
  <2> QED
    BY <2>1, Zenon DEF Fields
<1> QED
  BY <1>1, <1>2, <1>3, <1>4

(* What fits. *)
LEMMA TwoFit ==
  ASSUME NEW op \in Plain \cup {"NewFunction"}, NEW x \in Int, NEW y \in Int
  PROVE  Fits(op, <<x, y>>) <=> x <= 255 /\ y <= 255
<1>1. Fields(op) = <<8, 8>>
  BY Widths
<1> QED
  BY <1>1 DEF Fits, Largest

LEMMA ThreeFit ==
  ASSUME NEW op \in Three, NEW x \in Int, NEW y \in Int, NEW z \in Int
  PROVE  Fits(op, <<x, y, z>>) <=> x <= 255 /\ y <= 255 /\ z <= 255
<1>1. Fields(op) = <<8, 8, 8>>
  BY Widths
<1> QED
  BY <1>1 DEF Fits, Largest

LEMMA JumpFits ==
  ASSUME NEW t \in Int
  PROVE  Fits("Jump", <<t>>) <=> t <= Largest(16)
<1>1. Fields("Jump") = <<16>>
  BY Widths
<1> QED
  BY <1>1 DEF Fits, Largest

LEMMA TestFits ==
  ASSUME NEW op \in Tests, NEW x \in Int, NEW t \in Int
  PROVE  Fits(op, <<x, t>>) <=> x <= 255 /\ t <= Largest(16)
<1>1. Fields(op) = <<8, 16>>
  BY Widths
<1> QED
  BY <1>1 DEF Fits, Largest

LEMMA TwoFields ==
  ASSUME NEW op \in Plain \cup {"NewFunction"}, NEW a \in Int, NEW b \in Int
  PROVE  LET c == Encode(op, <<a, b>>)
         IN  /\ c = <<ByteCode(op), a, b, 0>> /\ Op(c) = op /\ IsWord(c)
             /\ Decode(c, 1) = a /\ Decode(c, 2) = b /\ DOMAIN Fields(op) = 1 .. 2
<1> DEFINE c == Encode(op, <<a, b>>)
<1>1. op \in Ops /\ op \notin Three \cup Tests \cup {"Jump"}
  BY DEF Ops, Plain, Three, Tests, Binary
<1>2. c = <<ByteCode(op), a, b, 0>>
  BY <1>1 DEF Encode, Tests
<1>3. Op(c) = op /\ IsWord(c)
  <2>1. ByteCode(op) \in 0 .. 25 /\ ByteCodeType[ByteCode(op) + 1] = op
    BY <1>1, ByteCodes
  <2> HIDE DEF c
  <2>2. c[1] = ByteCode(op) /\ Len(c) = 4 /\ c \in Seq(Int)
    BY <1>2, <2>1
  <2> QED
    BY <2>1, <2>2 DEF Op, IsWord
<1>4. Fields(op) = <<8, 8>>
  BY <1>1 DEF Fields, Three, Tests
<1>5. Decode(c, 1) = a /\ Decode(c, 2) = b
  BY <1>2, <1>3, <1>4 DEF Decode
<1> QED
  BY <1>2, <1>3, <1>4, <1>5

LEMMA ThreeFields ==
  ASSUME NEW op \in Three, NEW x \in Int, NEW y \in Int, NEW z \in Int
  PROVE  LET c == Encode(op, <<x, y, z>>)
         IN  /\ c = <<ByteCode(op), x, y, z>> /\ Op(c) = op /\ IsWord(c)
             /\ Decode(c, 1) = x /\ Decode(c, 2) = y /\ Decode(c, 3) = z
             /\ DOMAIN Fields(op) = 1 .. 3
<1> DEFINE c == Encode(op, <<x, y, z>>)
<1>1. op \in Ops /\ op \notin Tests \cup {"Jump"}
  BY DEF Ops, Three, Tests, Binary
<1>2. c = <<ByteCode(op), x, y, z>>
  BY <1>1 DEF Encode, Tests
<1>3. Op(c) = op /\ IsWord(c)
  <2>1. ByteCode(op) \in 0 .. 25 /\ ByteCodeType[ByteCode(op) + 1] = op
    BY <1>1, ByteCodes
  <2> HIDE DEF c
  <2>2. c[1] = ByteCode(op) /\ Len(c) = 4 /\ c \in Seq(Int)
    BY <1>2, <2>1
  <2> QED
    BY <2>1, <2>2 DEF Op, IsWord
<1>4. Fields(op) = <<8, 8, 8>>
  <2>1. /\ op \in Binary \cup {"NewArray", "SetArray", "GetArray", "Call"}
        /\ op # "Jump" /\ op \notin {"TrueJump", "FalseJump"}
    BY <1>1 DEF Three, Tests
  <2> QED
    BY <2>1, Zenon DEF Fields
<1>5. Decode(c, 1) = x /\ Decode(c, 2) = y /\ Decode(c, 3) = z
  BY <1>2, <1>3, <1>4 DEF Decode
<1> QED
  BY <1>2, <1>3, <1>4, <1>5

LEMMA JumpField ==
  ASSUME NEW t \in Nat
  PROVE  LET c == Encode("Jump", <<t>>)
         IN  /\ c = <<ByteCode("Jump"), t % 256, t \div 256, 0>>
             /\ Op(c) = "Jump" /\ IsWord(c) /\ Decode(c, 1) = t
<1> DEFINE c == Encode("Jump", <<t>>)
<1>1. "Jump" \in Ops /\ "Jump" \notin Three
  BY DEF Ops, Three, Binary
<1>2. c = <<ByteCode("Jump"), t % 256, t \div 256, 0>>
  BY DEF Encode
<1>3. Op(c) = "Jump" /\ IsWord(c)
  <2>1. ByteCode("Jump") \in 0 .. 25 /\ ByteCodeType[ByteCode("Jump") + 1] = "Jump"
    BY <1>1, ByteCodes
  <2> HIDE DEF c
  <2>2. c[1] = ByteCode("Jump") /\ Len(c) = 4 /\ c \in Seq(Int)
    BY <1>2, <2>1
  <2> QED
    BY <2>1, <2>2 DEF Op, IsWord
<1>4. Fields("Jump") = <<16>>
  BY <1>1 DEF Fields, Three
<1>5. Decode(c, 1) = (t % 256) + 256 * (t \div 256)
  BY <1>2, <1>3, <1>4 DEF Decode
<1> QED
  BY <1>2, <1>3, <1>5

LEMMA TestFields ==
  ASSUME NEW op \in Tests, NEW x \in Int, NEW t \in Nat
  PROVE  LET c == Encode(op, <<x, t>>)
         IN  /\ c = <<ByteCode(op), x, t % 256, t \div 256>>
             /\ Op(c) = op /\ IsWord(c) /\ Decode(c, 1) = x /\ Decode(c, 2) = t
<1> DEFINE c == Encode(op, <<x, t>>)
<1>1. op \in Ops /\ op \notin Three /\ op # "Jump"
  BY DEF Ops, Three, Binary, Tests
<1>2. c = <<ByteCode(op), x, t % 256, t \div 256>>
  BY <1>1 DEF Encode, Tests
<1>3. Op(c) = op /\ IsWord(c)
  <2>1. ByteCode(op) \in 0 .. 25 /\ ByteCodeType[ByteCode(op) + 1] = op
    BY <1>1, ByteCodes
  <2> HIDE DEF c
  <2>2. c[1] = ByteCode(op) /\ Len(c) = 4 /\ c \in Seq(Int)
    BY <1>2, <2>1
  <2> QED
    BY <2>1, <2>2 DEF Op, IsWord
<1>4. Fields(op) = <<8, 16>>
  BY <1>1 DEF Fields, Three, Tests
<1>5. Decode(c, 1) = x /\ Decode(c, 2) = (t % 256) + 256 * (t \div 256)
  BY <1>2, <1>3, <1>4 DEF Decode
<1> QED
  BY <1>2, <1>3, <1>5

LEMMA Slot ==
  ASSUME NEW m \in Nat, NEW id, Good(m, id), id < 128
  PROVE  index(id) \in 0 .. m - 1 \cup {0}
<1>1. PICK x \in Nat : x = id
  BY DEF Good
<1>2. x % 64 \in Nat /\ x % 64 <= x
  OBVIOUS
<1>3. index(id) = x % 64
  BY <1>1 DEF index
<1>4. x < m \/ x = 0
  BY <1>1 DEF Good
<1>5. x % 64 = 0 \/ x % 64 \in 0 .. m - 1
  BY <1>2, <1>4
<1> QED
  BY <1>3, <1>5

LEMMA SlotsTrue ==
  ASSUME NEW m \in Nat, NEW ids, \A id \in ids : Good(m, id)
  PROVE  \A id \in ids : id < 128 => index(id) \in 0 .. m - 1 \cup {0}
BY Slot

(* One more at the end. *)
LEMMA Longer ==
  ASSUME NEW S, NEW s \in Seq(S), NEW x \in S, NEW t, t = Append(s, x), NEW n \in Nat, n = Len(s)
  PROVE  /\ t \in Seq(S) /\ Len(t) = n + 1 /\ t[n + 1] = x
         /\ \A i \in 1 .. n : t[i] = s[i]
OBVIOUS

LEMMA PlainTrue ==
  ASSUME NEW op \in Plain, NEW m \in Nat, NEW n \in Nat, NEW a \in 0 .. 255, NEW b \in 0 .. 255,
         Good(m, a), Good(m, b)
  PROVE  InstrTrue(Encode(op, <<a, b>>), m, n)
<1>1. PICK c : c = Encode(op, <<a, b>>)
  OBVIOUS
<1>2. /\ c = <<ByteCode(op), a, b, 0>> /\ Op(c) = op /\ ByteCode(op) \in 0 .. 25
      /\ Decode(c, 1) = a /\ Decode(c, 2) = b /\ DOMAIN Fields(op) = 1 .. 2
  BY <1>1, TwoFields, ByteCodes DEF Ops
<1>3. /\ op \notin Tests /\ op \notin {"TrueJump", "FalseJump"}
      /\ op # "Jump" /\ op # "Call" /\ op # "NewArray" /\ op # "NewFunction"
  BY DEF Plain, Tests
<1>4. Named(c) = {Decode(c, i) : i \in 1 .. 2}
  BY <1>2, <1>3 DEF Named, VarIDs
<1>5. Named(c) = {a, b}
  BY <1>2, <1>4
<1>6. \A k \in 1 .. 4 : c[k] \in 0 .. 255
  BY <1>2
<1> QED
  BY <1>1, <1>2, <1>3, <1>5, <1>6, Slot DEF InstrTrue

LEMMA FunctionTrue ==
  ASSUME NEW m \in Nat, NEW n \in Nat, NEW a \in 0 .. 255, NEW b \in 0 .. 255, Good(m, a)
  PROVE  InstrTrue(Encode("NewFunction", <<a, b>>), m, n)
<1>1. PICK c : c = Encode("NewFunction", <<a, b>>)
  OBVIOUS
<1>2. /\ c = <<ByteCode("NewFunction"), a, b, 0>> /\ Op(c) = "NewFunction"
      /\ ByteCode("NewFunction") \in 0 .. 25 /\ Decode(c, 1) = a
  BY <1>1, TwoFields, ByteCodes DEF Ops
<1>3. Named(c) = {a}
  BY <1>2 DEF Named, VarIDs
<1>4. \A k \in 1 .. 4 : c[k] \in 0 .. 255
  BY <1>2
<1> QED
  BY <1>1, <1>2, <1>3, <1>4, Slot DEF InstrTrue, Tests

LEMMA ThreeTrue ==
  ASSUME NEW op \in Binary \cup {"SetArray", "GetArray"}, NEW m \in Nat, NEW n \in Nat,
         NEW x \in 0 .. 255, NEW y \in 0 .. 255, NEW z \in 0 .. 255,
         Good(m, x), Good(m, y), Good(m, z)
  PROVE  InstrTrue(Encode(op, <<x, y, z>>), m, n)
<1>1. PICK c : c = Encode(op, <<x, y, z>>)
  OBVIOUS
<1>2. /\ c = <<ByteCode(op), x, y, z>> /\ Op(c) = op /\ ByteCode(op) \in 0 .. 25
      /\ Decode(c, 1) = x /\ Decode(c, 2) = y /\ Decode(c, 3) = z /\ DOMAIN Fields(op) = 1 .. 3
  BY <1>1, ThreeFields, ByteCodes DEF Ops, Three
<1>3. /\ op \notin Tests /\ op \notin {"TrueJump", "FalseJump"}
      /\ op # "Jump" /\ op # "Call" /\ op # "NewArray" /\ op # "NewFunction"
  BY DEF Binary, Tests
<1>4. Named(c) = {Decode(c, i) : i \in 1 .. 3}
  BY <1>2, <1>3 DEF Named, VarIDs
<1>5. Named(c) = {x, y, z}
  BY <1>2, <1>4
<1>6. \A k \in 1 .. 4 : c[k] \in 0 .. 255
  BY <1>2
<1>7. \A id \in Named(c) : id < 128 => index(id) \in 0 .. m - 1 \cup {0}
  <2>1. \A id \in {x, y, z} : Good(m, id)
    OBVIOUS
  <2> QED
    BY <1>5, <2>1, SlotsTrue
<1> QED
  BY <1>1, <1>2, <1>3, <1>6, <1>7 DEF InstrTrue

(* A call and an array name a window: k slots from the one of s on.         *)
LEMMA WindowTrue ==
  ASSUME NEW op \in {"Call", "NewArray"}, NEW m \in Nat, NEW n \in Nat,
         NEW x \in 0 .. 255, NEW s \in 0 .. 127, NEW k \in 0 .. 255,
         Good(m, x), s < m, s + k <= m
  PROVE  InstrTrue(Encode(op, <<x, s, k>>), m, n)
<1>1. PICK c : c = Encode(op, <<x, s, k>>)
  OBVIOUS
<1>2. /\ c = <<ByteCode(op), x, s, k>> /\ Op(c) = op /\ ByteCode(op) \in 0 .. 25
      /\ Decode(c, 1) = x /\ Decode(c, 2) = s /\ Decode(c, 3) = k
  <2>1. op \in Three /\ op \in Ops
    BY DEF Ops, Three
  <2> QED
    BY <1>1, <2>1, ThreeFields, ByteCodes
<1>3. ASSUME NEW id \in Named(c) PROVE id = x \/ \E i \in 0 .. k : id = s + i /\ (i = 0 \/ i < k)
  <2>1. id = x \/ id = s \/ \E i \in 1 .. k - 1 : id = s + i
    BY <1>2 DEF Named
  <2> QED
    BY <2>1
<1>4. ASSUME NEW id \in Named(c) PROVE Good(m, id)
  BY <1>3 DEF Good
<1>5. \A k1 \in 1 .. 4 : c[k1] \in 0 .. 255
  BY <1>2
<1>6. op \notin Tests /\ op # "Jump"
  BY DEF Tests
<1> QED
  BY <1>1, <1>2, <1>4, <1>5, <1>6, Slot DEF InstrTrue

LEMMA JumpTrue ==
  ASSUME NEW m \in Nat, NEW n \in Nat, NEW t \in 0 .. n, t <= Largest(16)
  PROVE  InstrTrue(Encode("Jump", <<t>>), m, n)
<1>1. PICK c : c = Encode("Jump", <<t>>)
  OBVIOUS
<1>2. /\ c = <<ByteCode("Jump"), t % 256, t \div 256, 0>>
      /\ Op(c) = "Jump" /\ ByteCode("Jump") \in 0 .. 25 /\ Decode(c, 1) = t
  BY <1>1, JumpField, ByteCodes DEF Ops
<1>3. Named(c) = {}
  BY <1>2 DEF Named, VarIDs
<1>4. t % 256 \in 0 .. 255 /\ t \div 256 \in 0 .. 255
  BY DEF Largest
<1>5. \A k \in 1 .. 4 : c[k] \in 0 .. 255
  BY <1>2, <1>4
<1> QED
  BY <1>1, <1>2, <1>3, <1>5 DEF InstrTrue, Tests

LEMMA BranchTrue ==
  ASSUME NEW op \in Tests, NEW m \in Nat, NEW n \in Nat, NEW x \in 0 .. 255, NEW t \in 0 .. n,
         Good(m, x), t <= Largest(16)
  PROVE  InstrTrue(Encode(op, <<x, t>>), m, n)
<1>1. PICK c : c = Encode(op, <<x, t>>)
  OBVIOUS
<1>2. /\ c = <<ByteCode(op), x, t % 256, t \div 256>>
      /\ Op(c) = op /\ ByteCode(op) \in 0 .. 25 /\ Decode(c, 1) = x /\ Decode(c, 2) = t
  BY <1>1, TestFields, ByteCodes DEF Ops
<1>3. Named(c) = {x}
  BY <1>2 DEF Named, VarIDs, Tests
<1>4. t % 256 \in 0 .. 255 /\ t \div 256 \in 0 .. 255
  BY DEF Largest
<1>5. \A k \in 1 .. 4 : c[k] \in 0 .. 255
  BY <1>2, <1>4
<1>6. op # "Jump"
  BY DEF Tests
<1> QED
  BY <1>1, <1>2, <1>3, <1>5, <1>6, Slot DEF InstrTrue

(* The word a place is kept with. *)
LEMMA ZeroTrue ==
  ASSUME NEW m \in Nat, NEW n \in Nat
  PROVE  InstrTrue(<<0, 0, 0, 0>>, m, n) /\ IsWord(<<0, 0, 0, 0>>) /\ Op(<<0, 0, 0, 0>>) = "NewFunction"
<1>1. PICK c : c = <<0, 0, 0, 0>>
  OBVIOUS
<1>2. Op(c) = "NewFunction"
  BY <1>1 DEF Op, ByteCodeType
<1>3. IsWord(c) /\ \A k \in 1 .. 4 : c[k] \in 0 .. 255
  BY <1>1 DEF IsWord
<1>4. Fields("NewFunction") = <<8, 8>>
  <2>1. "NewFunction" \notin Binary \cup {"NewArray", "SetArray", "GetArray", "Call"}
        /\ "NewFunction" \notin {"TrueJump", "FalseJump"}
    BY DEF Binary
  <2> QED
    BY <2>1, Zenon DEF Fields
<1>5. Decode(c, 1) = 0
  BY <1>1, <1>2, <1>4 DEF Decode
<1>6. Named(c) = {0}
  BY <1>2, <1>5 DEF Named, VarIDs
<1>7. \A id \in Named(c) : id < 128 => index(id) \in 0 .. m - 1 \cup {0}
  <2>1. \A id \in {0} : Good(m, id)
    BY DEF Good
  <2> QED
    BY <1>6, <2>1, SlotsTrue
<1>8. Op(c) # "Jump" /\ Op(c) \notin Tests
  BY <1>2 DEF Tests
<1>9. \A k \in 1 .. 4 : c[k] \in 0 .. 255
  BY <1>1, <1>2, <1>3
<1>10. InstrTrue(c, m, n)
  BY <1>7, <1>8, <1>9, Zenon DEF InstrTrue
<1> QED
  BY <1>1, <1>2, <1>3, <1>10

LEMMA InstrMore ==
  ASSUME NEW c, NEW m \in Nat, NEW n \in Nat, NEW m2 \in Nat, NEW n2 \in Nat,
         IsWord(c), InstrTrue(c, m, n), m <= m2, n <= n2
  PROVE  InstrTrue(c, m2, n2)
<1>1. \A k \in 1 .. 4 : c[k] \in Int
  <2>1. c \in Seq(Int) /\ Len(c) = 4
    BY DEF IsWord
  <2>2. \A k \in 1 .. Len(c) : c[k] \in Int
    BY <2>1, ElementOfSeq, Zenon
  <2> QED
    BY <2>1, <2>2
<1>2. Op(c) = "Jump" => Decode(c, 1) \in Int
  <2> SUFFICES ASSUME Op(c) = "Jump" PROVE Decode(c, 1) \in Int
    OBVIOUS
  <2>1. "Jump" \notin Binary \cup {"NewArray", "SetArray", "GetArray", "Call"}
    BY DEF Binary
  <2>2. Fields("Jump") = <<16>>
    BY <2>1, Zenon DEF Fields
  <2>3. Decode(c, 1) = c[2] + 256 * c[3]
    BY <2>2 DEF Decode
  <2> QED
    BY <1>1, <2>3
<1>3. Op(c) \in Tests => Decode(c, 2) \in Int
  <2> SUFFICES ASSUME NEW op \in Tests, Op(c) = op PROVE Decode(c, 2) \in Int
    OBVIOUS
  <2>1. /\ op \notin Binary \cup {"NewArray", "SetArray", "GetArray", "Call"}
        /\ op # "Jump" /\ op \in {"TrueJump", "FalseJump"}
    BY DEF Tests, Binary
  <2>2. Fields(op) = <<8, 16>>
    BY <2>1, Zenon DEF Fields
  <2>3. Decode(c, 2) = c[3] + 256 * c[4]
    BY <2>2 DEF Decode
  <2> QED
    BY <1>1, <2>3
<1> QED
  BY <1>2, <1>3 DEF InstrTrue

-----------------------------------------------------------------------------
(* What every operation leaves: words, a line for each, no slot in use that *)
(* was not counted; and, while no ASSERT has failed, right instructions.    *)
CodesTrue(codes, lines, m) ==
  \A i \in 1 .. Len(codes) :
    /\ InstrTrue(codes[i], m, Len(codes))
    /\ Op(codes[i]) = "Call" => i < Len(codes) /\ lines[i + 1] = lines[i]

Sound(L, g) ==
  /\ g \in Generators
  /\ \A i \in 1 .. Len(g.codes) : IsWord(g.codes[i])
  /\ Len(g.ip2line) = Len(g.codes)
  /\ g.localCount = L /\ L <= g.cur /\ g.cur <= g.max
  /\ g.ok => CodesTrue(g.codes, g.ip2line, g.max)

(* What does not fit: a slot that six bits do not name, an instruction that *)
(* 16 bits do not, or a tree with indexes that 7 bits do not.               *)
TooLarge(g) == MaxIndex >= 128 \/ g.max > 64 \/ Off(g) > Largest(16)

(* A later state of the generator: nothing is taken back but temporaries,   *)
(* and no ASSERT fails but for what does not fit.                           *)
Grows(L, g, h) ==
  /\ Sound(L, h)
  /\ g.max <= h.max /\ Off(g) <= Off(h) /\ (h.ok => g.ok)
  /\ g.ok => h.ok \/ TooLarge(h)

LEMMA Numbers ==
  ASSUME NEW L \in Nat, NEW g, Sound(L, g)
  PROVE  g.cur \in Nat /\ g.max \in Nat /\ Off(g) \in Nat /\ g.cur <= g.max /\ L <= g.cur
BY DEF Sound, Generators, Off

LEMMA Stays ==
  ASSUME NEW L \in Nat, NEW g, Sound(L, g)
  PROVE  Grows(L, g, g)
BY Numbers DEF Grows

LEMMA LargeStays ==
  ASSUME NEW L \in Nat, NEW g, NEW h, Sound(L, g), Sound(L, h),
         g.max <= h.max, Off(g) <= Off(h), TooLarge(g)
  PROVE  TooLarge(h)
<1>1. Largest(16) \in Nat
  BY DEF Largest
<1> QED
  BY <1>1, Numbers DEF TooLarge

LEMMA Further ==
  ASSUME NEW L \in Nat, NEW g, NEW h, NEW k, Sound(L, g), Grows(L, g, h), Grows(L, h, k)
  PROVE  Grows(L, g, k)
<1>1. Sound(L, h) /\ Sound(L, k) /\ h.max <= k.max /\ Off(h) <= Off(k)
  BY DEF Grows
<1>2. TooLarge(h) => TooLarge(k)
  BY <1>1, LargeStays
<1> QED
  BY <1>2, Numbers DEF Grows

LEMMA Parts ==
  ASSUME NEW g \in Generators
  PROVE  /\ g.codes \in Seq(Seq(Int)) /\ g.ip2line \in Seq(Nat)
         /\ g.localCount \in Nat /\ g.cur \in Int /\ g.max \in Int
         /\ g.Break \in Seq(Nat) /\ g.Continue \in Seq(Nat) /\ g.Return \in Seq(Nat)
         /\ g.ok \in BOOLEAN
BY DEF Generators

Updated(g, codes, ip2line, cur, max) ==
  [codes |-> codes, ip2line |-> ip2line, localCount |-> g.localCount, cur |-> cur, max |-> max,
   Break |-> g.Break, Continue |-> g.Continue, Return |-> g.Return, ok |-> g.ok]

LEMMA Updates ==
  ASSUME NEW g \in Generators, NEW codes \in Seq(Seq(Int)), NEW ip2line \in Seq(Nat),
         NEW cur \in Int, NEW max \in Int
  PROVE  LET k == Updated(g, codes, ip2line, cur, max)
         IN  /\ k \in Generators /\ k.codes = codes /\ k.ip2line = ip2line
             /\ k.localCount = g.localCount /\ k.cur = cur /\ k.max = max /\ k.ok = g.ok
BY Parts DEF Updated, Generators

LEMMA AssertOnly ==
  ASSUME NEW k \in Generators, NEW holds \in BOOLEAN
  PROVE  LET h == Assert(k, holds)
         IN  /\ h \in Generators
             /\ h.codes = k.codes /\ h.ip2line = k.ip2line /\ h.localCount = k.localCount
             /\ h.cur = k.cur /\ h.max = k.max /\ (h.ok <=> k.ok /\ holds)
BY DEF Generators, Assert

LEMMA Asserts ==
  ASSUME NEW L \in Nat, NEW g, Sound(L, g), NEW holds \in BOOLEAN, holds \/ TooLarge(g)
  PROVE  LET h == Assert(g, holds)
         IN  /\ Grows(L, g, h) /\ h.cur = g.cur /\ h.max = g.max /\ Off(h) = Off(g)
             /\ h.ok => holds
<1>1. PICK h : h = Assert(g, holds)
  OBVIOUS
<1>2. /\ h \in Generators
      /\ h.codes = g.codes /\ h.ip2line = g.ip2line /\ h.localCount = g.localCount
      /\ h.cur = g.cur /\ h.max = g.max
  BY <1>1 DEF Sound, Generators, Assert
<1>3. h.ok <=> g.ok /\ holds
  BY <1>1 DEF Sound, Generators, Assert
<1>4. g.ok => h.ok \/ TooLarge(h)
  BY <1>2, <1>3 DEF TooLarge, Off
<1> QED
  BY <1>1, <1>2, <1>3, <1>4, Numbers DEF Grows, Sound, Off

LEMMA Allocates ==
  ASSUME NEW L \in Nat, NEW g, Sound(L, g)
  PROVE  LET h == allocID(g)
         IN  /\ Grows(L, g, h) /\ h.cur = g.cur + 1 /\ Off(h) = Off(g)
             /\ h.ok => g.cur < 128
<1>1. PICK h : h = allocID(g)
  OBVIOUS
<1>0. PICK k : k = [g EXCEPT !.cur = @ + 1, !.max = IF g.cur + 1 > @ THEN g.cur + 1 ELSE @]
  OBVIOUS
<1>7. PICK m \in Int : m = (IF g.cur + 1 > g.max THEN g.cur + 1 ELSE g.max)
  BY Parts DEF Sound
<1>8. /\ k \in Generators
      /\ k.codes = g.codes /\ k.ip2line = g.ip2line /\ k.localCount = g.localCount
      /\ k.cur = g.cur + 1 /\ k.max = m
      /\ k.ok = g.ok
  <2>2. k = Updated(g, g.codes, g.ip2line, g.cur + 1, m)
    BY <1>0, <1>7 DEF Sound, Generators, Updated
  <2>3. g.cur + 1 \in Int /\ g \in Generators
    BY Parts DEF Sound
  <2> QED
    BY <2>2, <2>3, Parts, Updates
<1>9. PICK holds \in BOOLEAN : holds = (g.cur < 128)
  <2>1. (g.cur < 128) \in BOOLEAN
    OBVIOUS
  <2> QED
    BY <2>1, Zenon
<1>10. h = Assert(k, holds)
  BY <1>0, <1>1, <1>9 DEF allocID, IsIndex
<1>2. /\ h \in Generators
      /\ h.codes = g.codes /\ h.ip2line = g.ip2line /\ h.localCount = g.localCount
      /\ h.cur = g.cur + 1 /\ h.max = m
  BY <1>8, <1>10, AssertOnly
<1>3. h.ok <=> g.ok /\ g.cur < 128
  BY <1>8, <1>9, <1>10, AssertOnly
<1>4. g.max \in Nat /\ h.max \in Nat /\ g.max <= h.max /\ h.cur <= h.max /\ g.cur \in Nat
  BY <1>2, <1>7, Numbers
<1>5. h.ok => CodesTrue(h.codes, h.ip2line, h.max)
  <2> SUFFICES ASSUME g.ok, NEW i \in 1 .. Len(g.codes)
               PROVE  InstrTrue(g.codes[i], h.max, Len(g.codes))
    BY <1>2, <1>3 DEF CodesTrue, Sound
  <2>1. InstrTrue(g.codes[i], g.max, Len(g.codes)) /\ IsWord(g.codes[i]) /\ Len(g.codes) \in Nat
    BY DEF Sound, CodesTrue, Generators
  <2> QED
    BY <1>4, <2>1, InstrMore
<1>6. g.ok => h.ok \/ TooLarge(h)
  BY <1>2, <1>3, <1>4 DEF TooLarge
<1> QED
  BY <1>1, <1>2, <1>3, <1>4, <1>5, <1>6, Numbers DEF Grows, Sound, Off

(* What is given back: n temporaries. *)
LEMMA Frees ==
  ASSUME NEW L \in Nat, NEW g, Sound(L, g), NEW n \in Nat, L + n <= g.cur,
         NEW holds \in BOOLEAN, holds \/ TooLarge(g)
  PROVE  LET h == Assert([g EXCEPT !.cur = @ - n], holds)
         IN  Grows(L, g, h) /\ h.cur = g.cur - n /\ h.max = g.max /\ Off(h) = Off(g)
<1>1. PICK k : k = [g EXCEPT !.cur = @ - n]
  OBVIOUS
<1>2. PICK h : h = Assert(k, holds)
  OBVIOUS
<1>3. /\ k \in Generators
      /\ k.codes = g.codes /\ k.ip2line = g.ip2line /\ k.localCount = g.localCount
      /\ k.cur = g.cur - n /\ k.max = g.max /\ k.ok = g.ok
  <2>1. k = Updated(g, g.codes, g.ip2line, g.cur - n, g.max)
    BY <1>1 DEF Sound, Generators, Updated
  <2>2. g.cur - n \in Int /\ g \in Generators
    BY Parts DEF Sound
  <2> QED
    BY <2>1, <2>2, Parts, Updates
<1>4. /\ h \in Generators
      /\ h.codes = g.codes /\ h.ip2line = g.ip2line /\ h.localCount = g.localCount
      /\ h.cur = g.cur - n /\ h.max = g.max
  BY <1>2, <1>3, AssertOnly
<1>5. h.ok <=> g.ok /\ holds
  BY <1>2, <1>3, AssertOnly
<1>8. g.ok => h.ok \/ TooLarge(h)
  BY <1>4, <1>5 DEF TooLarge, Off
<1>6. L <= h.cur /\ h.cur <= h.max
  BY <1>4, Numbers
<1>7. Grows(L, g, h) /\ Off(h) = Off(g)
  BY <1>4, <1>5, <1>6, <1>8, Numbers DEF Grows, Sound, Off
<1> QED
  BY <1>1, <1>2, <1>4, <1>7

LEMMA FreesOne ==
  ASSUME NEW L \in Nat, NEW g, Sound(L, g), NEW id, L + 1 <= g.cur, id = g.cur - 1
  PROVE  LET h == freeID(g, id)
         IN  Grows(L, g, h) /\ h.cur = g.cur - 1 /\ h.max = g.max /\ Off(h) = Off(g)
<1>1. PICK holds \in BOOLEAN : holds = (~ isConst(id) /\ index(id) = g.cur - 1)
  OBVIOUS
<1>2. freeID(g, id) = Assert([g EXCEPT !.cur = @ - 1], holds)
  BY <1>1 DEF freeID
<1>3. g.cur \in Nat /\ g.max \in Nat /\ g.cur <= g.max /\ id \in Nat
  BY Numbers
<1>4. holds \/ TooLarge(g)
  <2>1. CASE g.max > 64
    BY <2>1 DEF TooLarge
  <2>2. CASE ~ g.max > 64
    <3>1. id \in 0 .. 63
      BY <1>3, <2>2
    <3>2. id \div 128 = 0 /\ id % 64 = id
      BY <3>1
    <3>3. ~ isConst(id) /\ index(id) = g.cur - 1
      BY <3>2 DEF isConst, index
    <3> QED
      BY <1>1, <3>3
  <2> QED
    BY <2>1, <2>2
<1> QED
  BY <1>2, <1>4, Frees

LEMMA FreesMany ==
  ASSUME NEW L \in Nat, NEW g, Sound(L, g), NEW slot \in Nat, NEW n \in Nat, L + n <= g.cur,
         slot + n = g.cur
  PROVE  LET h == freeIDs(g, slot, n)
         IN  Grows(L, g, h) /\ h.cur = g.cur - n /\ h.max = g.max /\ Off(h) = Off(g)
<1> DEFINE Given == \A i \in 1 .. n : LET id == fromLocal(slot + n - i)
                                       IN  ~ isConst(id) /\ index(id) = g.cur - i
<1>1. freeIDs(g, slot, n) = Assert([g EXCEPT !.cur = @ - n], Given)
  BY DEF freeIDs
<1>2. Given \in BOOLEAN
  OBVIOUS
<1>3. g.cur \in Nat /\ g.max \in Nat /\ g.cur <= g.max
  BY Numbers
<1>4. Given \/ TooLarge(g)
  <2>1. CASE g.max > 64
    BY <2>1 DEF TooLarge
  <2>2. CASE ~ g.max > 64
    <3>1. ASSUME NEW i \in 1 .. n
          PROVE  ~ isConst(fromLocal(slot + n - i)) /\ index(fromLocal(slot + n - i)) = g.cur - i
      <4>1. PICK id \in 0 .. 63 : id = slot + n - i /\ id = g.cur - i
        BY <1>3, <2>2, <3>1
      <4>2. id \div 128 = 0 /\ id % 64 = id
        OBVIOUS
      <4> QED
        BY <4>1, <4>2 DEF isConst, index, fromLocal
    <3> QED
      BY <3>1
  <2> QED
    BY <2>1, <2>2
<1> HIDE DEF Given
<1> QED
  BY <1>1, <1>2, <1>4, Frees

(* One more instruction. *)
Added(g, c, line, holds) ==
  Assert([g EXCEPT !.codes = Append(@, c), !.ip2line = Append(@, line)], holds)

AddsTo(g, c, line, holds, h) ==
  /\ h \in Generators
  /\ h.codes = Append(g.codes, c) /\ h.ip2line = Append(g.ip2line, line)
  /\ h.localCount = g.localCount /\ h.cur = g.cur /\ h.max = g.max
  /\ h.ok <=> g.ok /\ holds

LEMMA AddedOnly ==
  ASSUME NEW g \in Generators, NEW c, IsWord(c), NEW line \in Nat, NEW holds \in BOOLEAN
  PROVE  AddsTo(g, c, line, holds, Added(g, c, line, holds))
<1>0. PICK k : k = [g EXCEPT !.codes = Append(@, c), !.ip2line = Append(@, line)]
  OBVIOUS
<1>1. PICK h : h = Assert(k, holds)
  OBVIOUS
<1>8. /\ k \in Generators
      /\ k.codes = Append(g.codes, c) /\ k.ip2line = Append(g.ip2line, line)
      /\ k.localCount = g.localCount /\ k.cur = g.cur /\ k.max = g.max /\ k.ok = g.ok
  <2>1. g \in Generators /\ g.cur \in Int /\ g.max \in Int
    BY Parts
  <2>5. Append(g.codes, c) \in Seq(Seq(Int)) /\ Append(g.ip2line, line) \in Seq(Nat)
    BY Parts DEF IsWord
  <2>2. PICK codes \in Seq(Seq(Int)) : codes = Append(g.codes, c)
    BY <2>5, Zenon
  <2>3. PICK lines \in Seq(Nat) : lines = Append(g.ip2line, line)
    BY <2>5, Zenon
  <2>4. k = Updated(g, codes, lines, g.cur, g.max)
    BY <1>0, <2>2, <2>3 DEF Generators, Updated
  <2>6. /\ k \in Generators /\ k.codes = codes /\ k.ip2line = lines
        /\ k.localCount = g.localCount /\ k.cur = g.cur /\ k.max = g.max /\ k.ok = g.ok
    BY <2>1, <2>4, Updates
  <2> QED
    BY <2>2, <2>3, <2>6, Zenon
<1>2. /\ h \in Generators
      /\ h.codes = Append(g.codes, c) /\ h.ip2line = Append(g.ip2line, line)
      /\ h.localCount = g.localCount /\ h.cur = g.cur /\ h.max = g.max
  BY <1>1, <1>8, AssertOnly
<1>3. h.ok <=> g.ok /\ holds
  BY <1>1, <1>8, AssertOnly
<1>4. Added(g, c, line, holds) = h
  BY <1>0, <1>1 DEF Added
<1> QED
  BY <1>2, <1>3, <1>4 DEF AddsTo

LEMMA Appends ==
  ASSUME NEW L \in Nat, NEW g, Sound(L, g), NEW line \in Nat, NEW c, IsWord(c), NEW holds \in BOOLEAN,
         g.ok /\ holds => InstrTrue(c, g.max, Off(g) + 1), Op(c) # "Call", g.ok => holds \/ TooLarge(g)
  PROVE  LET h == Added(g, c, line, holds)
         IN  Grows(L, g, h) /\ h.cur = g.cur /\ h.max = g.max /\ Off(h) = Off(g) + 1
<1>1. PICK h : h = Added(g, c, line, holds)
  OBVIOUS
<1>0. AddsTo(g, c, line, holds, h)
  <2>1. g \in Generators
    BY DEF Sound
  <2> QED
    BY <1>1, <2>1, AddedOnly
<1>2. /\ h \in Generators
      /\ h.codes = Append(g.codes, c) /\ h.ip2line = Append(g.ip2line, line)
      /\ h.localCount = g.localCount /\ h.cur = g.cur /\ h.max = g.max
  BY <1>0 DEF AddsTo
<1>3. h.ok <=> g.ok /\ holds
  BY <1>0 DEF AddsTo
<1>4. /\ Len(h.codes) = Len(g.codes) + 1 /\ Len(h.ip2line) = Len(g.ip2line) + 1
      /\ Len(g.codes) \in Nat /\ Len(g.ip2line) = Len(g.codes)
      /\ \A i \in 1 .. Len(g.codes) : h.codes[i] = g.codes[i] /\ h.ip2line[i] = g.ip2line[i]
      /\ h.codes[Len(g.codes) + 1] = c
  <2>1. /\ g.codes \in Seq(Seq(Int)) /\ g.ip2line \in Seq(Nat) /\ Len(g.ip2line) = Len(g.codes)
        /\ c \in Seq(Int) /\ Len(g.codes) \in Nat
    BY Parts DEF Sound, IsWord
  <2>2. /\ Len(h.codes) = Len(g.codes) + 1 /\ h.codes[Len(g.codes) + 1] = c
        /\ \A i \in 1 .. Len(g.codes) : h.codes[i] = g.codes[i]
    BY <1>2, <2>1, Longer
  <2>3. /\ Len(h.ip2line) = Len(g.codes) + 1
        /\ \A i \in 1 .. Len(g.codes) : h.ip2line[i] = g.ip2line[i]
    BY <1>2, <2>1, Longer
  <2> QED
    BY <2>1, <2>2, <2>3
<1>5. \A i \in 1 .. Len(h.codes) : IsWord(h.codes[i])
  BY <1>4 DEF Sound
<1>6. ASSUME h.ok, NEW i \in 1 .. Len(h.codes)
      PROVE  /\ InstrTrue(h.codes[i], h.max, Len(h.codes))
             /\ Op(h.codes[i]) = "Call" => i < Len(h.codes) /\ h.ip2line[i + 1] = h.ip2line[i]
  <2>1. CASE i = Len(g.codes) + 1
    BY <1>2, <1>3, <1>4, <1>6, <2>1 DEF Off
  <2>2. CASE i \in 1 .. Len(g.codes)
    <3>1. /\ InstrTrue(g.codes[i], g.max, Len(g.codes)) /\ IsWord(g.codes[i])
          /\ Op(g.codes[i]) = "Call" => i < Len(g.codes) /\ g.ip2line[i + 1] = g.ip2line[i]
      BY <1>3, <1>6, <2>2 DEF Sound, CodesTrue
    <3>2. InstrTrue(g.codes[i], g.max, Len(g.codes) + 1)
      BY <1>4, <3>1, InstrMore, Numbers
    <3>3. Op(h.codes[i]) = "Call" => i < Len(h.codes) /\ h.ip2line[i + 1] = h.ip2line[i]
      <4> SUFFICES ASSUME Op(g.codes[i]) = "Call"
                   PROVE  i < Len(h.codes) /\ h.ip2line[i + 1] = h.ip2line[i]
        BY <1>4, <2>2
      <4>1. i + 1 \in 1 .. Len(g.codes) /\ g.ip2line[i + 1] = g.ip2line[i]
        BY <1>4, <2>2, <3>1
      <4> QED
        BY <1>4, <2>2, <4>1
    <3> QED
      BY <1>2, <1>4, <2>2, <3>2, <3>3
  <2> QED
    BY <1>4, <2>1, <2>2
<1>7. h.ok => CodesTrue(h.codes, h.ip2line, h.max)
  BY <1>6 DEF CodesTrue
<1>8. Sound(L, h) /\ Off(h) = Off(g) + 1
  BY <1>2, <1>4, <1>5, <1>7 DEF Sound, Off
<1>10. g.max <= h.max /\ Off(g) <= Off(h)
  BY <1>2, <1>8, Numbers
<1>11. g.ok => h.ok \/ TooLarge(h)
  BY <1>3, <1>8, <1>10, LargeStays
<1>9. Grows(L, g, h) /\ Off(h) = Off(g) + 1
  BY <1>3, <1>8, <1>10, <1>11 DEF Grows
<1> QED
  BY <1>1, <1>2, <1>9

(* An operand that is right where no ASSERT has failed, and 8 bits wide     *)
(* where all fits.                                                          *)
Usable(g, id) ==
  id \in Int /\ (g.ok => Good(g.max, id)) /\ (id <= 255 \/ id < g.max \/ MaxIndex >= 128)

LEMMA UsableFits ==
  ASSUME NEW L \in Nat, NEW g, Sound(L, g), NEW id, Usable(g, id)
  PROVE  id <= 255 \/ TooLarge(g)
BY Numbers DEF Usable, TooLarge

LEMMA StillUsable ==
  ASSUME NEW L \in Nat, NEW g, NEW h, NEW id, Sound(L, g), Grows(L, g, h), Usable(g, id)
  PROVE  Usable(h, id)
BY Numbers DEF Usable, Good, Grows

LEMMA FitsOrNot ==
  ASSUME NEW op, NEW vals
  PROVE  Fits(op, vals) \in BOOLEAN
BY DEF Fits

LEMMA EmitsPlain ==
  ASSUME NEW L \in Nat, NEW g, Sound(L, g), NEW line \in Nat, NEW op \in Plain,
         NEW a, NEW b, Usable(g, a), Usable(g, b)
  PROVE  LET h == EMIT(g, line, op, <<a, b>>)
         IN  Grows(L, g, h) /\ h.cur = g.cur /\ h.max = g.max /\ Off(h) = Off(g) + 1
<1>1. PICK c : c = Encode(op, <<a, b>>)
  OBVIOUS
<1>2. PICK holds \in BOOLEAN : holds = Fits(op, <<a, b>>)
  BY FitsOrNot
<1>3. a \in Int /\ b \in Int /\ op # "Call"
  BY DEF Usable, Plain
<1>4. IsWord(c) /\ Op(c) = op
  BY <1>1, <1>3, TwoFields
<1>5. g.ok /\ holds => InstrTrue(c, g.max, Off(g) + 1)
  <2> SUFFICES ASSUME g.ok, Fits(op, <<a, b>>) PROVE InstrTrue(c, g.max, Off(g) + 1)
    BY <1>2
  <2>1. a <= 255 /\ b <= 255
    BY <1>3, TwoFit
  <2>2. a \in 0 .. 255 /\ b \in 0 .. 255 /\ Good(g.max, a) /\ Good(g.max, b)
    BY <2>1 DEF Usable, Good
  <2>3. g.max \in Nat /\ Off(g) + 1 \in Nat
    BY Numbers
  <2> QED
    BY <1>1, <2>2, <2>3, PlainTrue
<1>6. EMIT(g, line, op, <<a, b>>) = Added(g, c, line, holds)
  BY <1>1, <1>2 DEF EMIT, Added
<1>7. holds \/ TooLarge(g)
  BY <1>2, <1>3, TwoFit, UsableFits
<1> QED
  BY <1>3, <1>4, <1>5, <1>6, <1>7, Appends

LEMMA EmitsFunction ==
  ASSUME NEW L \in Nat, NEW g, Sound(L, g), NEW line \in Nat, NEW a, Usable(g, a), NEW b \in Nat,
         b <= 255 \/ TooLarge(g)
  PROVE  LET h == EMIT(g, line, "NewFunction", <<a, b>>)
         IN  Grows(L, g, h) /\ h.cur = g.cur /\ h.max = g.max /\ Off(h) = Off(g) + 1
<1>1. PICK c : c = Encode("NewFunction", <<a, b>>)
  OBVIOUS
<1>2. PICK holds \in BOOLEAN : holds = Fits("NewFunction", <<a, b>>)
  BY FitsOrNot
<1>3. a \in Int /\ b \in Int
  BY DEF Usable
<1>4. IsWord(c) /\ Op(c) = "NewFunction"
  BY <1>1, <1>3, TwoFields
<1>5. g.ok /\ holds => InstrTrue(c, g.max, Off(g) + 1)
  <2> SUFFICES ASSUME g.ok, Fits("NewFunction", <<a, b>>) PROVE InstrTrue(c, g.max, Off(g) + 1)
    BY <1>2
  <2>1. a <= 255 /\ b <= 255
    BY <1>3, TwoFit
  <2>2. a \in 0 .. 255 /\ b \in 0 .. 255 /\ Good(g.max, a)
    BY <2>1 DEF Usable, Good
  <2>3. g.max \in Nat /\ Off(g) + 1 \in Nat
    BY Numbers
  <2> QED
    BY <1>1, <2>2, <2>3, FunctionTrue
<1>6. EMIT(g, line, "NewFunction", <<a, b>>)
        = Added(g, c, line, holds)
  BY <1>1, <1>2 DEF EMIT, Added
<1>7. holds \/ TooLarge(g)
  BY <1>2, <1>3, TwoFit, UsableFits
<1> QED
  BY <1>4, <1>5, <1>6, <1>7, Appends

LEMMA EmitsThree ==
  ASSUME NEW L \in Nat, NEW g, Sound(L, g), NEW line \in Nat, NEW op \in Binary \cup {"SetArray", "GetArray"},
         NEW x, NEW y, NEW z, Usable(g, x), Usable(g, y), Usable(g, z)
  PROVE  LET h == EMIT(g, line, op, <<x, y, z>>)
         IN  Grows(L, g, h) /\ h.cur = g.cur /\ h.max = g.max /\ Off(h) = Off(g) + 1
<1>1. PICK c : c = Encode(op, <<x, y, z>>)
  OBVIOUS
<1>2. PICK holds \in BOOLEAN : holds = Fits(op, <<x, y, z>>)
  BY FitsOrNot
<1>3. x \in Int /\ y \in Int /\ z \in Int /\ op # "Call" /\ op \in Three
  BY DEF Usable, Three, Binary
<1>4. IsWord(c) /\ Op(c) = op
  BY <1>1, <1>3, ThreeFields
<1>5. g.ok /\ holds => InstrTrue(c, g.max, Off(g) + 1)
  <2> SUFFICES ASSUME g.ok, Fits(op, <<x, y, z>>) PROVE InstrTrue(c, g.max, Off(g) + 1)
    BY <1>2
  <2>1. x <= 255 /\ y <= 255 /\ z <= 255
    BY <1>3, ThreeFit
  <2>2. /\ x \in 0 .. 255 /\ y \in 0 .. 255 /\ z \in 0 .. 255
        /\ Good(g.max, x) /\ Good(g.max, y) /\ Good(g.max, z)
    <3>1. Good(g.max, x) /\ Good(g.max, y) /\ Good(g.max, z)
      BY DEF Usable
    <3> QED
      BY <2>1, <3>1 DEF Good
  <2>3. g.max \in Nat /\ Off(g) + 1 \in Nat
    BY Numbers
  <2>4. InstrTrue(Encode(op, <<x, y, z>>), g.max, Off(g) + 1)
    <3>1. \A m \in Nat, n \in Nat :
            Good(m, x) /\ Good(m, y) /\ Good(m, z) => InstrTrue(Encode(op, <<x, y, z>>), m, n)
      BY <2>2, ThreeTrue
    <3> QED
      BY <2>2, <2>3, <3>1
  <2> QED
    BY <1>1, <2>4
<1>6. EMIT(g, line, op, <<x, y, z>>)
        = Added(g, c, line, holds)
  BY <1>1, <1>2 DEF EMIT, Added
<1>7. holds \/ TooLarge(g)
  BY <1>2, <1>3, ThreeFit, UsableFits
<1> QED
  BY <1>3, <1>4, <1>5, <1>6, <1>7, Appends

LEMMA EmitsArray ==
  ASSUME NEW L \in Nat, NEW g, Sound(L, g), NEW line \in Nat, NEW x, Usable(g, x),
         NEW s \in Nat, NEW k \in Nat, s < g.max, s + k <= g.max, g.ok => s < 128
  PROVE  LET h == EMIT(g, line, "NewArray", <<x, s, k>>)
         IN  Grows(L, g, h) /\ h.cur = g.cur /\ h.max = g.max /\ Off(h) = Off(g) + 1
<1>1. PICK c : c = Encode("NewArray", <<x, s, k>>)
  OBVIOUS
<1>2. PICK holds \in BOOLEAN : holds = Fits("NewArray", <<x, s, k>>)
  BY FitsOrNot
<1>3. x \in Int /\ "NewArray" \in Three
  BY DEF Usable, Three
<1>4. IsWord(c) /\ Op(c) = "NewArray"
  BY <1>1, <1>3, ThreeFields
<1>5. g.ok /\ holds => InstrTrue(c, g.max, Off(g) + 1)
  <2> SUFFICES ASSUME g.ok, Fits("NewArray", <<x, s, k>>) PROVE InstrTrue(c, g.max, Off(g) + 1)
    BY <1>2
  <2>1. x <= 255 /\ k <= 255
    BY <1>3, ThreeFit
  <2>2. x \in 0 .. 255 /\ s \in 0 .. 127 /\ k \in 0 .. 255 /\ Good(g.max, x)
    BY <2>1 DEF Usable, Good
  <2>3. g.max \in Nat /\ Off(g) + 1 \in Nat
    BY Numbers
  <2>4. InstrTrue(Encode("NewArray", <<x, s, k>>), g.max, Off(g) + 1)
    BY <2>2, <2>3, WindowTrue
  <2> QED
    BY <1>1, <2>4
<1>6. EMIT(g, line, "NewArray", <<x, s, k>>)
        = Added(g, c, line, holds)
  BY <1>1, <1>2 DEF EMIT, Added
<1>7. holds \/ TooLarge(g)
  <2>1. s <= 255 \/ TooLarge(g)
    BY Numbers DEF TooLarge
  <2>2. k <= 255 \/ TooLarge(g)
    BY Numbers DEF TooLarge
  <2> QED
    BY <1>2, <1>3, <2>1, <2>2, ThreeFit, UsableFits
<1> QED
  BY <1>4, <1>5, <1>6, <1>7, Appends

LEMMA EmitsJump ==
  ASSUME NEW L \in Nat, NEW g, Sound(L, g), NEW line \in Nat, NEW t \in 0 .. Off(g)
  PROVE  LET h == EMIT(g, line, "Jump", <<t>>)
         IN  Grows(L, g, h) /\ h.cur = g.cur /\ h.max = g.max /\ Off(h) = Off(g) + 1
<1>1. PICK c : c = Encode("Jump", <<t>>)
  OBVIOUS
<1>2. PICK holds \in BOOLEAN : holds = Fits("Jump", <<t>>)
  BY FitsOrNot
<1>3. t \in Nat /\ Off(g) \in Nat /\ t \in 0 .. Off(g) + 1
  BY Numbers
<1>4. IsWord(c) /\ Op(c) = "Jump"
  BY <1>1, <1>3, JumpField
<1>5. g.ok /\ holds => InstrTrue(c, g.max, Off(g) + 1)
  <2> SUFFICES ASSUME Fits("Jump", <<t>>) PROVE InstrTrue(c, g.max, Off(g) + 1)
    BY <1>2
  <2>1. t <= Largest(16)
    BY <1>3, JumpFits
  <2>2. g.max \in Nat /\ Off(g) + 1 \in Nat
    BY Numbers
  <2> QED
    BY <1>1, <1>3, <2>1, <2>2, JumpTrue
<1>6. EMIT(g, line, "Jump", <<t>>)
        = Added(g, c, line, holds)
  BY <1>1, <1>2 DEF EMIT, Added
<1>7. holds \/ TooLarge(g)
  <2>1. Largest(16) \in Nat
    BY DEF Largest
  <2>2. t <= Largest(16) \/ TooLarge(g)
    BY <1>3, <2>1 DEF TooLarge
  <2> QED
    BY <1>2, <1>3, <2>2, JumpFits
<1> QED
  BY <1>4, <1>5, <1>6, <1>7, Appends

LEMMA Reserves ==
  ASSUME NEW L \in Nat, NEW g, Sound(L, g), NEW line \in Nat
  PROVE  LET h == PRE_EMIT(g, line)
         IN  Grows(L, g, h) /\ h.cur = g.cur /\ h.max = g.max /\ Off(h) = Off(g) + 1
<1>1. PICK c : c = <<0, 0, 0, 0>>
  OBVIOUS
<1>2. IsWord(c) /\ Op(c) # "Call" /\ InstrTrue(c, g.max, Off(g) + 1)
  BY <1>1, ZeroTrue, Numbers
<1>3. Added(g, c, line, TRUE) = [g EXCEPT !.codes = Append(@, c), !.ip2line = Append(@, line)]
  BY DEF Added, Assert, Sound, Generators
<1>4. PICK holds \in BOOLEAN : holds = TRUE
  OBVIOUS
<1>5. PRE_EMIT(g, line) = Added(g, c, line, holds)
  BY <1>1, <1>3, <1>4 DEF PRE_EMIT
<1>6. g.ok => holds \/ TooLarge(g)
  BY <1>4
<1> QED
  BY <1>2, <1>5, <1>6, Appends

(* A call, and the move of its result on the same line. *)
LEMMA EmitsCall ==
  ASSUME NEW L \in Nat, NEW g, Sound(L, g), NEW line \in Nat, NEW f, Usable(g, f), NEW id, Usable(g, id),
         NEW s \in Nat, NEW k \in Nat, s < g.max, s + k <= g.max, g.ok => s < 128
  PROVE  LET h == EMIT(EMIT(g, line, "Call", <<f, s, k>>), line, "Move", <<id, s>>)
         IN  Grows(L, g, h) /\ h.cur = g.cur /\ h.max = g.max /\ Off(h) = Off(g) + 2
<1>1. PICK c, d : c = Encode("Call", <<f, s, k>>) /\ d = Encode("Move", <<id, s>>)
  OBVIOUS
<1>2. PICK fits \in BOOLEAN : fits = Fits("Call", <<f, s, k>>)
  BY FitsOrNot
<1>3. PICK moves \in BOOLEAN : moves = Fits("Move", <<id, s>>)
  BY FitsOrNot
<1>4. f \in Int /\ id \in Int /\ "Call" \in Three /\ "Move" \in Plain
  BY DEF Usable, Three, Plain
<1>5. IsWord(c) /\ IsWord(d) /\ Op(c) = "Call" /\ Op(d) = "Move"
  BY <1>1, <1>4, ThreeFields, TwoFields
<1>6. g.max \in Nat /\ Off(g) \in Nat /\ Off(g) + 2 \in Nat
  BY Numbers
<1>7. g.ok /\ fits => InstrTrue(c, g.max, Off(g) + 2)
  <2> SUFFICES ASSUME g.ok, Fits("Call", <<f, s, k>>) PROVE InstrTrue(c, g.max, Off(g) + 2)
    BY <1>2
  <2>1. f <= 255 /\ k <= 255
    BY <1>4, ThreeFit
  <2>2. f \in 0 .. 255 /\ s \in 0 .. 127 /\ k \in 0 .. 255 /\ Good(g.max, f)
    BY <2>1 DEF Usable, Good
  <2>3. InstrTrue(Encode("Call", <<f, s, k>>), g.max, Off(g) + 2)
    BY <1>6, <2>2, WindowTrue, Zenon
  <2> QED
    BY <1>1, <2>3
<1>8. g.ok /\ moves => InstrTrue(d, g.max, Off(g) + 2)
  <2> SUFFICES ASSUME g.ok, Fits("Move", <<id, s>>) PROVE InstrTrue(d, g.max, Off(g) + 2)
    BY <1>3
  <2>1. id <= 255
    BY <1>4, TwoFit
  <2>2. id \in 0 .. 255 /\ s \in 0 .. 255 /\ Good(g.max, id) /\ Good(g.max, s)
    BY <2>1 DEF Usable, Good
  <2> QED
    BY <1>1, <1>4, <1>6, <2>2, PlainTrue
<1>9. PICK a : a = EMIT(g, line, "Call", <<f, s, k>>)
  OBVIOUS
<1>10. PICK h : h = EMIT(a, line, "Move", <<id, s>>)
  OBVIOUS
<1>11. /\ a \in Generators /\ a.codes = Append(g.codes, c) /\ a.ip2line = Append(g.ip2line, line)
       /\ a.localCount = g.localCount /\ a.cur = g.cur /\ a.max = g.max /\ (a.ok <=> g.ok /\ fits)
  <2>1. a = Added(g, c, line, fits) /\ g \in Generators
    BY <1>1, <1>2, <1>9 DEF EMIT, Added, Sound
  <2> QED
    <3>1. AddsTo(g, c, line, fits, a)
      BY <1>5, <2>1, AddedOnly
    <3> QED
      BY <3>1 DEF AddsTo
<1>12. /\ h \in Generators /\ h.codes = Append(a.codes, d) /\ h.ip2line = Append(a.ip2line, line)
       /\ h.localCount = a.localCount /\ h.cur = a.cur /\ h.max = a.max /\ (h.ok <=> a.ok /\ moves)
  <2>1. h = Added(a, d, line, moves)
    BY <1>1, <1>3, <1>10 DEF EMIT, Added
  <2> QED
    <3>1. a \in Generators
      BY <1>11
    <3>2. AddsTo(a, d, line, moves, h)
      BY <1>5, <2>1, <3>1, AddedOnly
    <3> QED
      BY <3>2 DEF AddsTo
<1>13. PICK n \in Nat : n = Len(g.codes)
  BY Parts DEF Sound
<1>14. /\ Len(h.codes) = n + 2 /\ Len(h.ip2line) = n + 2
       /\ \A i \in 1 .. n : h.codes[i] = g.codes[i] /\ h.ip2line[i] = g.ip2line[i]
       /\ h.codes[n + 1] = c /\ h.codes[n + 2] = d
       /\ h.ip2line[n + 1] = line /\ h.ip2line[n + 2] = line
  <2>1. /\ g.codes \in Seq(Seq(Int)) /\ g.ip2line \in Seq(Nat) /\ Len(g.ip2line) = n
        /\ c \in Seq(Int) /\ d \in Seq(Int)
    BY <1>5, <1>13, Parts DEF Sound, IsWord
  <2>2. /\ Len(a.codes) = n + 1 /\ Len(a.ip2line) = n + 1
        /\ \A i \in 1 .. n : a.codes[i] = g.codes[i] /\ a.ip2line[i] = g.ip2line[i]
        /\ a.codes[n + 1] = c /\ a.ip2line[n + 1] = line
        /\ a.codes \in Seq(Seq(Int)) /\ a.ip2line \in Seq(Nat)
    <3>1. /\ Len(a.codes) = n + 1 /\ \A i \in 1 .. n : a.codes[i] = g.codes[i]
          /\ a.codes[n + 1] = c /\ a.codes \in Seq(Seq(Int))
      BY <1>11, <1>13, <2>1, Longer
    <3>2. /\ Len(a.ip2line) = n + 1 /\ \A i \in 1 .. n : a.ip2line[i] = g.ip2line[i]
          /\ a.ip2line[n + 1] = line /\ a.ip2line \in Seq(Nat)
      BY <1>11, <1>13, <2>1, Longer
    <3> QED
      BY <3>1, <3>2
  <2>3. /\ Len(h.codes) = n + 1 + 1 /\ Len(h.ip2line) = n + 1 + 1
        /\ \A i \in 1 .. n + 1 : h.codes[i] = a.codes[i] /\ h.ip2line[i] = a.ip2line[i]
        /\ h.codes[n + 1 + 1] = d /\ h.ip2line[n + 1 + 1] = line
    <3>1. n + 1 \in Nat /\ n + 1 = Len(a.codes) /\ n + 1 = Len(a.ip2line)
      BY <2>2
    <3>2. /\ Len(h.codes) = n + 1 + 1 /\ \A i \in 1 .. n + 1 : h.codes[i] = a.codes[i]
          /\ h.codes[n + 1 + 1] = d
      <4>1. a.codes \in Seq(Seq(Int)) /\ d \in Seq(Int) /\ h.codes = Append(a.codes, d)
        BY <1>12, <2>1, <2>2
      <4> QED
        BY <3>1, <4>1, Longer
    <3>3. /\ Len(h.ip2line) = n + 1 + 1 /\ \A i \in 1 .. n + 1 : h.ip2line[i] = a.ip2line[i]
          /\ h.ip2line[n + 1 + 1] = line
      <4>1. a.ip2line \in Seq(Nat) /\ h.ip2line = Append(a.ip2line, line)
        BY <1>12, <2>2
      <4> QED
        BY <3>1, <4>1, Longer
    <3> QED
      BY <3>2, <3>3
  <2>4. \A i \in 1 .. n : i \in 1 .. n + 1
    OBVIOUS
  <2>5. n + 1 \in 1 .. n + 1 /\ n + 1 + 1 = n + 2
    OBVIOUS
  <2> QED
    BY <2>2, <2>3, <2>4, <2>5
<1>15. \A i \in 1 .. n : IsWord(g.codes[i])
  BY <1>13 DEF Sound
<1>16. \A i \in 1 .. n + 2 : IsWord(h.codes[i])
  BY <1>5, <1>14, <1>15
<1>17. ASSUME h.ok, NEW i \in 1 .. n + 2
       PROVE  /\ InstrTrue(h.codes[i], g.max, n + 2)
              /\ Op(h.codes[i]) = "Call" => i < n + 2 /\ h.ip2line[i + 1] = h.ip2line[i]
  <2>1. g.ok /\ fits /\ moves
    BY <1>11, <1>12, <1>17
  <2>2. CASE i = n + 1
    BY <1>7, <1>13, <1>14, <2>1, <2>2 DEF Off
  <2>3. CASE i = n + 2
    BY <1>5, <1>8, <1>13, <1>14, <2>1, <2>3 DEF Off
  <2>4. CASE i \in 1 .. n
    <3>1. /\ InstrTrue(g.codes[i], g.max, n) /\ IsWord(g.codes[i])
          /\ Op(g.codes[i]) = "Call" => i < n /\ g.ip2line[i + 1] = g.ip2line[i]
      BY <1>13, <1>15, <2>1, <2>4 DEF Sound, CodesTrue
    <3>2. InstrTrue(g.codes[i], g.max, n + 2)
      BY <1>6, <3>1, InstrMore
    <3>3. ASSUME Op(g.codes[i]) = "Call" PROVE i < n + 2 /\ h.ip2line[i + 1] = h.ip2line[i]
      <4>1. i + 1 \in 1 .. n /\ g.ip2line[i + 1] = g.ip2line[i]
        BY <2>4, <3>1, <3>3
      <4> QED
        BY <1>14, <2>4, <4>1
    <3> QED
      BY <1>14, <2>4, <3>2, <3>3
  <2> QED
    BY <2>2, <2>3, <2>4
<1>18. h.ok => CodesTrue(h.codes, h.ip2line, h.max)
  <2>1. h.max = g.max /\ Len(h.codes) = n + 2
    BY <1>11, <1>12, <1>14
  <2> QED
    BY <1>17, <2>1 DEF CodesTrue
<1>19. h.localCount = L /\ h.cur = g.cur /\ h.max = g.max /\ (h.ok => g.ok)
  BY <1>11, <1>12 DEF Sound
<1>20. Sound(L, h)
  BY <1>12, <1>14, <1>16, <1>18, <1>19, Numbers DEF Sound
<1>21. Off(h) = Off(g) + 2
  BY <1>13, <1>14 DEF Off
<1>23. (fits /\ moves) \/ TooLarge(g)
  <2>1. s <= 255 \/ TooLarge(g)
    BY Numbers DEF TooLarge
  <2>2. k <= 255 \/ TooLarge(g)
    BY Numbers DEF TooLarge
  <2>3. fits \/ TooLarge(g)
    BY <1>2, <1>4, <2>1, <2>2, ThreeFit, UsableFits
  <2>4. moves \/ TooLarge(g)
    BY <1>3, <1>4, <2>1, TwoFit, UsableFits
  <2> QED
    BY <2>3, <2>4
<1>24. g.ok => h.ok \/ TooLarge(h)
  <2>1. g.max <= h.max /\ Off(g) <= Off(h)
    BY <1>6, <1>19, <1>21
  <2>2. TooLarge(g) => TooLarge(h)
    BY <1>20, <2>1, LargeStays
  <2> QED
    BY <1>11, <1>12, <1>23, <2>2
<1>22. Grows(L, g, h)
  BY <1>6, <1>19, <1>20, <1>21, <1>24 DEF Grows
<1> QED
  BY <1>9, <1>10, <1>19, <1>21, <1>22

(* Words replaced by a jump. *)
LEMMA Overwrites ==
  ASSUME NEW L \in Nat, NEW g, Sound(L, g), NEW h \in Generators, NEW c, IsWord(c), Op(c) # "Call",
         Len(h.codes) = Len(g.codes), h.ip2line = g.ip2line, h.localCount = g.localCount,
         h.cur = g.cur, h.max = g.max, h.ok => g.ok, g.ok => h.ok \/ TooLarge(g),
         \A i \in 1 .. Len(g.codes) :
           \/ h.codes[i] = g.codes[i]
           \/ h.codes[i] = c /\ (h.ok => InstrTrue(c, g.max, Off(g)))
  PROVE  Grows(L, g, h) /\ Off(h) = Off(g)
<1>1. PICK n \in Nat : n = Len(g.codes)
  BY Parts DEF Sound
<1>2. \A i \in 1 .. n : IsWord(h.codes[i])
  BY <1>1 DEF Sound
<1>3. ASSUME h.ok, NEW i \in 1 .. n
      PROVE  /\ InstrTrue(h.codes[i], h.max, n)
             /\ Op(h.codes[i]) = "Call" => i < n /\ h.ip2line[i + 1] = h.ip2line[i]
  <2>1. /\ InstrTrue(g.codes[i], g.max, n)
        /\ Op(g.codes[i]) = "Call" => i < n /\ g.ip2line[i + 1] = g.ip2line[i]
    BY <1>1, <1>3 DEF Sound, CodesTrue
  <2>2. CASE h.codes[i] = g.codes[i]
    BY <2>1, <2>2
  <2>3. CASE h.codes[i] = c /\ (h.ok => InstrTrue(c, g.max, Off(g)))
    BY <1>1, <1>3, <2>3 DEF Off
  <2> QED
    BY <1>1, <2>2, <2>3
<1>4. h.ok => CodesTrue(h.codes, h.ip2line, h.max)
  BY <1>1, <1>3 DEF CodesTrue
<1>5. Sound(L, h)
  BY <1>1, <1>2, <1>4 DEF Sound
<1>6. g.max \in Nat /\ Off(g) \in Nat /\ Off(h) = Off(g)
  BY <1>1, Numbers DEF Off
<1>7. TooLarge(g) => TooLarge(h)
  BY <1>6 DEF TooLarge
<1> QED
  BY <1>5, <1>6, <1>7 DEF Grows

Replaced(g, off, c, holds) == Assert([g EXCEPT !.codes[off + 1] = c], holds)

LEMMA Replaces ==
  ASSUME NEW L \in Nat, NEW g, Sound(L, g), NEW off \in Nat, off < Off(g), NEW c, IsWord(c), Op(c) # "Call",
         NEW holds \in BOOLEAN, g.ok /\ holds => InstrTrue(c, g.max, Off(g)),
         holds \/ TooLarge(g)
  PROVE  LET h == Replaced(g, off, c, holds)
         IN  Grows(L, g, h) /\ h.cur = g.cur /\ h.max = g.max /\ Off(h) = Off(g)
<1>1. g \in Generators /\ g.cur \in Int /\ g.max \in Int /\ g.ip2line \in Seq(Nat)
  BY Parts DEF Sound
<1>2. PICK n \in Nat : n = Len(g.codes)
  BY <1>1, Parts
<1>3. off + 1 \in 1 .. n /\ c \in Seq(Int) /\ g.codes \in Seq(Seq(Int))
  BY <1>1, <1>2, Parts DEF Off, IsWord
<1>4. PICK codes : codes = [g.codes EXCEPT ![off + 1] = c]
  OBVIOUS
<1>5. /\ codes \in Seq(Seq(Int)) /\ Len(codes) = n
      /\ \A i \in 1 .. n : codes[i] = IF i = off + 1 THEN c ELSE g.codes[i]
  BY <1>2, <1>3, <1>4
<1>6. PICK k : k = [g EXCEPT !.codes[off + 1] = c]
  OBVIOUS
<1>7. k = Updated(g, codes, g.ip2line, g.cur, g.max)
  BY <1>1, <1>4, <1>6 DEF Generators, Updated
<1>8. /\ k \in Generators /\ k.codes = codes /\ k.ip2line = g.ip2line
      /\ k.localCount = g.localCount /\ k.cur = g.cur /\ k.max = g.max /\ k.ok = g.ok
  BY <1>1, <1>5, <1>7, Updates
<1>9. PICK h : h = Assert(k, holds)
  OBVIOUS
<1>10. /\ h \in Generators /\ h.codes = codes /\ h.ip2line = g.ip2line
       /\ h.localCount = g.localCount /\ h.cur = g.cur /\ h.max = g.max /\ (h.ok <=> g.ok /\ holds)
  BY <1>8, <1>9, AssertOnly
<1>11. Grows(L, g, h) /\ Off(h) = Off(g)
  <2>1. \A i \in 1 .. Len(g.codes) :
          \/ h.codes[i] = g.codes[i]
          \/ h.codes[i] = c /\ (h.ok => InstrTrue(c, g.max, Off(g)))
    BY <1>2, <1>5, <1>10
  <2>2. Len(h.codes) = Len(g.codes) /\ (h.ok => g.ok) /\ (g.ok => h.ok \/ TooLarge(g))
    BY <1>2, <1>5, <1>10
  <2> QED
    BY <1>10, <2>1, <2>2, Overwrites
<1>12. h = Replaced(g, off, c, holds)
  BY <1>6, <1>9 DEF Replaced
<1> QED
  BY <1>10, <1>11, <1>12

LEMMA PatchesTest ==
  ASSUME NEW L \in Nat, NEW g, Sound(L, g), NEW off \in Nat, off < Off(g), NEW op \in Tests,
         NEW x, Usable(g, x), NEW t \in 0 .. Off(g)
  PROVE  LET h == POST_EMIT(g, off, op, <<x, t>>)
         IN  Grows(L, g, h) /\ h.cur = g.cur /\ h.max = g.max /\ Off(h) = Off(g)
<1>1. PICK c : c = Encode(op, <<x, t>>)
  OBVIOUS
<1>2. PICK holds \in BOOLEAN : holds = Fits(op, <<x, t>>)
  BY FitsOrNot
<1>3. x \in Int /\ t \in Nat /\ Off(g) \in Nat /\ g.max \in Nat /\ op # "Call"
  BY Numbers DEF Usable, Tests
<1>4. IsWord(c) /\ Op(c) = op
  BY <1>1, <1>3, TestFields
<1>5. g.ok /\ holds => InstrTrue(c, g.max, Off(g))
  <2> SUFFICES ASSUME g.ok, Fits(op, <<x, t>>) PROVE InstrTrue(c, g.max, Off(g))
    BY <1>2
  <2>1. x <= 255 /\ t <= Largest(16)
    BY <1>3, TestFits
  <2>2. x \in 0 .. 255 /\ Good(g.max, x)
    BY <2>1 DEF Usable, Good
  <2>3. PICK m \in Nat, n \in Nat : m = g.max /\ n = Off(g)
    BY <1>3
  <2>4. t \in 0 .. n /\ Good(m, x) /\ t <= Largest(16)
    BY <2>1, <2>2, <2>3
  <2>5. InstrTrue(Encode(op, <<x, t>>), m, n)
    BY <2>2, <2>3, <2>4, BranchTrue
  <2> QED
    BY <1>1, <2>3, <2>5
<1>6. POST_EMIT(g, off, op, <<x, t>>) = Replaced(g, off, c, holds)
  BY <1>1, <1>2 DEF POST_EMIT, Replaced
<1>7. holds \/ TooLarge(g)
  <2>1. Largest(16) \in Nat
    BY DEF Largest
  <2>2. t <= Largest(16) \/ TooLarge(g)
    BY <1>3, <2>1 DEF TooLarge
  <2> QED
    BY <1>2, <1>3, <2>2, TestFits, UsableFits
<1> QED
  BY <1>3, <1>4, <1>5, <1>6, <1>7, Replaces

LEMMA PatchesJump ==
  ASSUME NEW L \in Nat, NEW g, Sound(L, g), NEW off \in Nat, off < Off(g), NEW t \in 0 .. Off(g)
  PROVE  LET h == POST_EMIT(g, off, "Jump", <<t>>)
         IN  Grows(L, g, h) /\ h.cur = g.cur /\ h.max = g.max /\ Off(h) = Off(g)
<1>1. PICK c : c = Encode("Jump", <<t>>)
  OBVIOUS
<1>2. PICK holds \in BOOLEAN : holds = Fits("Jump", <<t>>)
  BY FitsOrNot
<1>3. t \in Nat /\ Off(g) \in Nat /\ g.max \in Nat
  BY Numbers
<1>4. IsWord(c) /\ Op(c) = "Jump"
  BY <1>1, <1>3, JumpField
<1>5. g.ok /\ holds => InstrTrue(c, g.max, Off(g))
  <2> SUFFICES ASSUME Fits("Jump", <<t>>) PROVE InstrTrue(c, g.max, Off(g))
    BY <1>2
  <2>1. t <= Largest(16)
    BY <1>3, JumpFits
  <2> QED
    BY <1>1, <1>3, <2>1, JumpTrue
<1>6. POST_EMIT(g, off, "Jump", <<t>>) = Replaced(g, off, c, holds)
  BY <1>1, <1>2 DEF POST_EMIT, Replaced
<1>7. holds \/ TooLarge(g)
  <2>1. Largest(16) \in Nat
    BY DEF Largest
  <2>2. t <= Largest(16) \/ TooLarge(g)
    BY <1>3, <2>1 DEF TooLarge
  <2> QED
    BY <1>2, <1>3, <2>2, JumpFits
<1> QED
  BY <1>4, <1>5, <1>6, <1>7, Replaces

(* The jumps of a kind. *)
Kinds == {"Break", "Continue", "Return"}

JumpsTo(g, jumps, c) ==
  [i \in 1 .. Len(g.codes) |-> IF \E j \in DOMAIN g[jumps] : g[jumps][j] + 1 = i THEN c ELSE g.codes[i]]

Emptied(g, jumps, c) ==
  [codes |-> JumpsTo(g, jumps, c), ip2line |-> g.ip2line, localCount |-> g.localCount,
   cur |-> g.cur, max |-> g.max,
   Break |-> IF jumps = "Break" THEN <<>> ELSE g.Break,
   Continue |-> IF jumps = "Continue" THEN <<>> ELSE g.Continue,
   Return |-> IF jumps = "Return" THEN <<>> ELSE g.Return, ok |-> g.ok]

LEMMA EmptiedIs ==
  ASSUME NEW g \in Generators, NEW jumps \in Kinds
  PROVE  POST_EMIT_JUMPS(g, jumps)
           = Assert(Emptied(g, jumps, Encode("Jump", <<Off(g)>>)), g[jumps] = <<>> \/ Fits("Jump", <<Off(g)>>))
<1>1. PICK c : c = Encode("Jump", <<Off(g)>>)
  OBVIOUS
<1>2. POST_EMIT_JUMPS(g, "Break")
        = Assert(Emptied(g, "Break", Encode("Jump", <<Off(g)>>)), g["Break"] = <<>> \/ Fits("Jump", <<Off(g)>>))
  <2>1. PICK codes : codes = JumpsTo(g, "Break", c)
    OBVIOUS
  <2>2. codes = [i \in DOMAIN g.codes |-> IF \E j \in DOMAIN g["Break"] : g["Break"][j] + 1 = i THEN c ELSE g.codes[i]]
    BY <2>1 DEF JumpsTo, Generators
  <2>3. PICK k : k = [g EXCEPT !.codes = codes, !["Break"] = <<>>]
    OBVIOUS
  <2>4. k = [codes |-> codes, ip2line |-> g.ip2line, localCount |-> g.localCount, cur |-> g.cur,
             max |-> g.max, Break |-> <<>>, Continue |-> g.Continue, Return |-> g.Return, ok |-> g.ok]
    BY <2>3 DEF Generators
  <2>5. Emptied(g, "Break", c) = k
    BY <2>1, <2>4, Zenon DEF Emptied
  <2> QED
    BY <1>1, <2>2, <2>3, <2>5 DEF POST_EMIT_JUMPS
<1>3. POST_EMIT_JUMPS(g, "Continue")
        = Assert(Emptied(g, "Continue", Encode("Jump", <<Off(g)>>)), g["Continue"] = <<>> \/ Fits("Jump", <<Off(g)>>))
  <2>1. PICK codes : codes = JumpsTo(g, "Continue", c)
    OBVIOUS
  <2>2. codes = [i \in DOMAIN g.codes |-> IF \E j \in DOMAIN g["Continue"] : g["Continue"][j] + 1 = i THEN c ELSE g.codes[i]]
    BY <2>1 DEF JumpsTo, Generators
  <2>3. PICK k : k = [g EXCEPT !.codes = codes, !["Continue"] = <<>>]
    OBVIOUS
  <2>4. k = [codes |-> codes, ip2line |-> g.ip2line, localCount |-> g.localCount, cur |-> g.cur,
             max |-> g.max, Break |-> g.Break, Continue |-> <<>>, Return |-> g.Return, ok |-> g.ok]
    BY <2>3 DEF Generators
  <2>5. Emptied(g, "Continue", c) = k
    BY <2>1, <2>4, Zenon DEF Emptied
  <2> QED
    BY <1>1, <2>2, <2>3, <2>5 DEF POST_EMIT_JUMPS
<1>4. POST_EMIT_JUMPS(g, "Return")
        = Assert(Emptied(g, "Return", Encode("Jump", <<Off(g)>>)), g["Return"] = <<>> \/ Fits("Jump", <<Off(g)>>))
  <2>1. PICK codes : codes = JumpsTo(g, "Return", c)
    OBVIOUS
  <2>2. codes = [i \in DOMAIN g.codes |-> IF \E j \in DOMAIN g["Return"] : g["Return"][j] + 1 = i THEN c ELSE g.codes[i]]
    BY <2>1 DEF JumpsTo, Generators
  <2>3. PICK k : k = [g EXCEPT !.codes = codes, !["Return"] = <<>>]
    OBVIOUS
  <2>4. k = [codes |-> codes, ip2line |-> g.ip2line, localCount |-> g.localCount, cur |-> g.cur,
             max |-> g.max, Break |-> g.Break, Continue |-> g.Continue, Return |-> <<>>, ok |-> g.ok]
    BY <2>3 DEF Generators
  <2>5. Emptied(g, "Return", c) = k
    BY <2>1, <2>4, Zenon DEF Emptied
  <2> QED
    BY <1>1, <2>2, <2>3, <2>5 DEF POST_EMIT_JUMPS
<1> QED
  BY <1>2, <1>3, <1>4 DEF Kinds

LEMMA Lands ==
  ASSUME NEW L \in Nat, NEW g, Sound(L, g), NEW jumps \in Kinds
  PROVE  LET h == POST_EMIT_JUMPS(g, jumps)
         IN  Grows(L, g, h) /\ h.cur = g.cur /\ h.max = g.max /\ Off(h) = Off(g)
<1>1. PICK c : c = Encode("Jump", <<Off(g)>>)
  OBVIOUS
<1>2. PICK holds \in BOOLEAN : holds = (g[jumps] = <<>> \/ Fits("Jump", <<Off(g)>>))
  BY Zenon
<1>3. g \in Generators /\ Off(g) \in Nat /\ g.max \in Nat /\ Off(g) \in 0 .. Off(g)
  BY Numbers DEF Sound
<1>4. IsWord(c) /\ Op(c) = "Jump"
  BY <1>1, <1>3, JumpField
<1>5. PICK k : k = Emptied(g, jumps, c)
  OBVIOUS
<1>6. PICK n \in Nat : n = Len(g.codes) /\ g.codes \in Seq(Seq(Int)) /\ c \in Seq(Int)
  BY <1>3, <1>4, Parts DEF IsWord
<1>7. PICK codes \in Seq(Seq(Int)) : codes = JumpsTo(g, jumps, c)
  <2>1. JumpsTo(g, jumps, c) \in [1 .. n -> Seq(Int)]
    BY <1>6 DEF JumpsTo
  <2> QED
    BY <2>1
<1>8. Len(codes) = n /\ \A i \in 1 .. n : codes[i] = g.codes[i] \/ codes[i] = c
  BY <1>6, <1>7 DEF JumpsTo
<1>9. g[jumps] = <<>> => \A i \in 1 .. n : codes[i] = g.codes[i]
  BY <1>6, <1>7 DEF JumpsTo
<1>10. /\ k \in Generators /\ k.codes = codes /\ k.ip2line = g.ip2line
       /\ k.localCount = g.localCount /\ k.cur = g.cur /\ k.max = g.max /\ k.ok = g.ok
  BY <1>3, <1>5, <1>7, Parts DEF Emptied, Generators
<1>11. PICK h : h = Assert(k, holds)
  OBVIOUS
<1>12. /\ h \in Generators /\ h.codes = codes /\ h.ip2line = g.ip2line
       /\ h.localCount = g.localCount /\ h.cur = g.cur /\ h.max = g.max /\ (h.ok <=> g.ok /\ holds)
  BY <1>10, <1>11, AssertOnly
<1>13. h.ok => g[jumps] = <<>> \/ InstrTrue(c, g.max, Off(g))
  <2> SUFFICES ASSUME Fits("Jump", <<Off(g)>>) PROVE InstrTrue(c, g.max, Off(g))
    BY <1>2, <1>12
  <2>1. Off(g) <= Largest(16)
    BY <1>3, JumpFits
  <2> QED
    BY <1>1, <1>3, <2>1, JumpTrue
<1>16. holds \/ TooLarge(g)
  <2>1. Largest(16) \in Nat
    BY DEF Largest
  <2>2. Off(g) <= Largest(16) \/ TooLarge(g)
    BY <1>3, <2>1 DEF TooLarge
  <2>3. Fits("Jump", <<Off(g)>>) \/ TooLarge(g)
    BY <1>3, <2>2, JumpFits
  <2> QED
    BY <1>2, <2>3
<1>14. Grows(L, g, h) /\ Off(h) = Off(g)
  <2>1. \A i \in 1 .. Len(g.codes) :
          \/ h.codes[i] = g.codes[i]
          \/ h.codes[i] = c /\ (h.ok => InstrTrue(c, g.max, Off(g)))
    BY <1>6, <1>8, <1>9, <1>12, <1>13
  <2>2. Len(h.codes) = Len(g.codes) /\ (h.ok => g.ok) /\ (g.ok => h.ok \/ TooLarge(g)) /\ Op(c) # "Call"
    BY <1>4, <1>6, <1>8, <1>12, <1>16
  <2> QED
    BY <1>4, <1>12, <2>1, <2>2, Overwrites
<1>15. h = POST_EMIT_JUMPS(g, jumps)
  BY <1>1, <1>2, <1>3, <1>5, <1>11, EmptiedIs
<1> QED
  BY <1>12, <1>14, <1>15

-----------------------------------------------------------------------------
(* Visits of expressions: what one returns, for the state it began with and *)
(* the operand the value goes to.                                           *)
Extra(v) == IF v.alloc THEN 1 ELSE 0

VisitTrue(L, g, dest, v) ==
  /\ v \in [g : Generators, id : Int, alloc : BOOLEAN]
  /\ Grows(L, g, v.g) /\ v.g.cur = g.cur + Extra(v) /\ Usable(v.g, v.id)
  /\ dest # None => Extra(v) = 0 /\ v.id = dest
  /\ v.alloc => v.id = g.cur

CanGo(g, dest) == dest = None \/ Usable(g, dest)

Contract(L, E, X) ==
  \A e \in X : \A g, dest :
    Sound(L, g) /\ CanGo(g, dest) => VisitTrue(L, g, dest, Visit(E, g, e, dest))

LEMMA Extras ==
  ASSUME NEW v
  PROVE  Extra(v) \in 0 .. 1
BY DEF Extra

LEMMA DestroysIn ==
  ASSUME NEW L \in Nat, NEW v \in [g : Generators, id : Int, alloc : BOOLEAN],
         NEW k, Sound(L, k), L + Extra(v) <= k.cur, v.alloc => v.id = k.cur - 1
  PROVE  LET h == DestroyIn(k, v)
         IN  Grows(L, k, h) /\ h.cur = k.cur - Extra(v) /\ h.max = k.max /\ Off(h) = Off(k)
<1>1. PICK w : w = [v EXCEPT !.g = k]
  OBVIOUS
<1>2. w.g = k /\ w.id = v.id /\ w.alloc = v.alloc
  BY <1>1
<1>3. DestroyIn(k, v) = IF v.alloc THEN freeID(k, v.id) ELSE k
  BY <1>1, <1>2 DEF DestroyIn, Destroy
<1>4. CASE v.alloc
  <2>1. Extra(v) = 1 /\ DestroyIn(k, v) = freeID(k, v.id) /\ v.id = k.cur - 1
    BY <1>3, <1>4 DEF Extra
  <2> QED
    BY <2>1, FreesOne
<1>5. CASE ~ v.alloc
  <2>1. Extra(v) = 0 /\ DestroyIn(k, v) = k
    BY <1>3, <1>5 DEF Extra
  <2> QED
    BY <2>1, Stays, Numbers
<1> QED
  BY <1>4, <1>5

LEMMA Destroys ==
  ASSUME NEW L \in Nat, NEW g, Sound(L, g), NEW dest, NEW v, VisitTrue(L, g, dest, v)
  PROVE  LET h == Destroy(v)
         IN  /\ Grows(L, g, h) /\ Grows(L, v.g, h)
             /\ h.cur = g.cur /\ h.max = v.g.max /\ Off(h) = Off(v.g)
<1>1. /\ v \in [g : Generators, id : Int, alloc : BOOLEAN]
      /\ Grows(L, g, v.g) /\ Sound(L, v.g) /\ v.g.cur = g.cur + Extra(v)
  BY DEF VisitTrue, Grows
<1>2. g.cur \in Nat /\ L <= g.cur /\ Extra(v) \in 0 .. 1
  BY Numbers, Extras
<1>3. L + Extra(v) <= v.g.cur /\ v.g.cur - Extra(v) = g.cur /\ (v.alloc => v.id = v.g.cur - 1)
  BY <1>1, <1>2 DEF VisitTrue, Extra
<1>4. Destroy(v) = DestroyIn(v.g, v)
  <2>1. [v EXCEPT !.g = v.g] = v
    BY <1>1
  <2> QED
    BY <2>1 DEF DestroyIn
<1>5. PICK h : h = Destroy(v)
  OBVIOUS
<1>6. Grows(L, v.g, h) /\ h.cur = g.cur /\ h.max = v.g.max /\ Off(h) = Off(v.g)
  BY <1>1, <1>3, <1>4, <1>5, DestroysIn
<1>7. Grows(L, g, h)
  BY <1>1, <1>6, Further
<1> QED
  BY <1>5, <1>6, <1>7

LEMMA Ensures ==
  ASSUME NEW L \in Nat, NEW g, Sound(L, g), NEW dest, CanGo(g, dest)
  PROVE  VisitTrue(L, g, dest, makesureValidVarID(g, dest))
<1>1. CASE dest = None
  <2>1. PICK h : h = allocID(g)
    OBVIOUS
  <2>2. Grows(L, g, h) /\ h.cur = g.cur + 1
    BY <2>1, Allocates
  <2>3. g.cur \in Nat /\ h.max \in Nat /\ h.cur <= h.max /\ h \in Generators
    BY <2>2, Numbers DEF Grows, Sound
  <2>4. PICK v : v = Visited(h, g.cur, TRUE)
    OBVIOUS
  <2>5. /\ v \in [g : Generators, id : Int, alloc : BOOLEAN]
        /\ v.g = h /\ v.id = g.cur /\ Extra(v) = 1
    BY <2>3, <2>4 DEF Visited, Extra
  <2>6. Usable(h, g.cur)
    BY <2>2, <2>3 DEF Usable, Good
  <2>7. makesureValidVarID(g, dest) = v
    BY <1>1, <2>1, <2>4 DEF makesureValidVarID, fromLocal
  <2> QED
    BY <1>1, <2>2, <2>5, <2>6, <2>7 DEF VisitTrue
<1>2. CASE dest # None
  <2>1. PICK v : v = Visited(g, dest, FALSE)
    OBVIOUS
  <2>2. g \in Generators /\ dest \in Int /\ Usable(g, dest)
    BY <1>2 DEF Sound, CanGo, Usable
  <2>3. /\ v \in [g : Generators, id : Int, alloc : BOOLEAN]
        /\ v.g = g /\ v.id = dest /\ Extra(v) = 0 /\ v.alloc = FALSE
    BY <2>1, <2>2 DEF Visited, Extra
  <2>4. makesureValidVarID(g, dest) = v
    BY <1>2, <2>1 DEF makesureValidVarID
  <2>5. Grows(L, g, g) /\ g.cur = g.cur + 0
    BY Stays, Numbers
  <2> QED
    BY <2>2, <2>3, <2>4, <2>5 DEF VisitTrue
<1> QED
  BY <1>1, <1>2

(* The instructions of a visit come after its operand has been made sure of.*)
LEMMA Finishes ==
  ASSUME NEW L \in Nat, NEW g, Sound(L, g), NEW dest, NEW d, VisitTrue(L, g, dest, d),
         NEW h, Grows(L, d.g, h), h.cur = d.g.cur
  PROVE  VisitTrue(L, g, dest, [d EXCEPT !.g = h])
<1>1. PICK v : v = [d EXCEPT !.g = h]
  OBVIOUS
<1>2. d \in [g : Generators, id : Int, alloc : BOOLEAN] /\ h \in Generators /\ Sound(L, d.g)
  BY DEF VisitTrue, Grows, Sound
<1>3. /\ v \in [g : Generators, id : Int, alloc : BOOLEAN]
      /\ v.g = h /\ v.id = d.id /\ Extra(v) = Extra(d) /\ v.alloc = d.alloc
  BY <1>1, <1>2 DEF Extra
<1>4. Grows(L, g, h)
  BY <1>2, Further DEF VisitTrue
<1>5. Usable(h, d.id)
  BY <1>2, StillUsable DEF VisitTrue
<1> QED
  BY <1>1, <1>3, <1>4, <1>5 DEF VisitTrue

(* The value of an operand that is a slot or a constant. *)
LEMMA LeafTrue ==
  ASSUME NEW L \in Nat, NEW g, Sound(L, g), NEW dest, CanGo(g, dest), NEW e, e.line \in Nat,
         NEW id \in Nat, \A m \in Nat : L <= m => Good(m, id),
         e.i < 128 \/ TooLarge(g), id <= 255 \/ id < L \/ MaxIndex >= 128
  PROVE  VisitTrue(L, g, dest, Leaf(g, e, dest, id))
<1>1. PICK k : k = Assert(g, IsIndex(e.i))
  OBVIOUS
<1>2. Grows(L, g, k) /\ k.cur = g.cur
  <2>1. IsIndex(e.i) \in BOOLEAN /\ (IsIndex(e.i) \/ TooLarge(g))
    BY DEF IsIndex
  <2> QED
    BY <1>1, <2>1, Asserts
<1>3. Sound(L, k) /\ k \in Generators /\ Usable(k, id)
  BY <1>2, Numbers DEF Usable, Grows, Sound
<1>4. CASE dest = None
  <2>1. PICK v : v = Visited(k, id, FALSE)
    OBVIOUS
  <2>2. /\ v \in [g : Generators, id : Int, alloc : BOOLEAN]
        /\ v.g = k /\ v.id = id /\ Extra(v) = 0 /\ v.alloc = FALSE
    BY <1>3, <2>1 DEF Visited, Extra
  <2>3. Leaf(g, e, dest, id) = v
    BY <1>1, <1>4, <2>1 DEF Leaf
  <2>4. k.cur = g.cur + 0
    BY <1>2, Numbers
  <2> QED
    BY <1>2, <1>3, <1>4, <2>2, <2>3, <2>4 DEF VisitTrue
<1>5. CASE dest # None
  <2>1. Usable(k, dest) /\ dest \in Int
    BY <1>2, <1>5, StillUsable DEF CanGo, Usable
  <2>2. PICK h : h = EMIT(k, e.line, "Move", <<dest, id>>)
    OBVIOUS
  <2>3. "Move" \in Plain
    BY DEF Plain
  <2>4. Grows(L, k, h) /\ h.cur = k.cur
    BY <1>3, <2>1, <2>2, <2>3, EmitsPlain
  <2>5. PICK v : v = Visited(h, dest, FALSE)
    OBVIOUS
  <2>6. h \in Generators
    BY <2>4 DEF Grows, Sound
  <2>7. /\ v \in [g : Generators, id : Int, alloc : BOOLEAN]
        /\ v.g = h /\ v.id = dest /\ Extra(v) = 0 /\ v.alloc = FALSE
    BY <2>1, <2>5, <2>6 DEF Visited, Extra
  <2>8. Leaf(g, e, dest, id) = v
    BY <1>1, <1>5, <2>2, <2>5 DEF Leaf
  <2>9. Grows(L, g, h) /\ h.cur = g.cur + 0
    BY <1>2, <2>4, Further, Numbers
  <2>10. Usable(h, dest)
    BY <1>3, <2>1, <2>4, StillUsable
  <2> QED
    BY <2>7, <2>8, <2>9, <2>10 DEF VisitTrue
<1> QED
  BY <1>4, <1>5

(* A visit without an operand for the value, and its end. *)
LEMMA Visiting ==
  ASSUME NEW L \in Nat, NEW E, NEW X, Contract(L, E, X), NEW e \in X, NEW g, Sound(L, g)
  PROVE  LET v == Visit(E, g, e, None)
         IN  /\ VisitTrue(L, g, None, v) /\ Usable(v.g, v.id) /\ Sound(L, v.g) /\ Grows(L, g, v.g)
             /\ v \in [g : Generators, id : Int, alloc : BOOLEAN]
             /\ v.g.cur = g.cur + Extra(v) /\ (v.alloc => v.id = g.cur)
             /\ Grows(L, g, Destroy(v)) /\ Sound(L, Destroy(v)) /\ Destroy(v).cur = g.cur
             /\ Usable(Destroy(v), v.id)
<1>1. PICK v : v = Visit(E, g, e, None)
  OBVIOUS
<1>2. VisitTrue(L, g, None, v)
  BY <1>1 DEF Contract, CanGo
<1>3. /\ Usable(v.g, v.id) /\ Sound(L, v.g) /\ Grows(L, g, v.g)
      /\ v \in [g : Generators, id : Int, alloc : BOOLEAN] /\ v.g.cur = g.cur + Extra(v)
      /\ v.alloc => v.id = g.cur
  BY <1>2 DEF VisitTrue, Grows
<1>4. PICK h : h = Destroy(v)
  OBVIOUS
<1>5. Grows(L, g, h) /\ Grows(L, v.g, h) /\ h.cur = g.cur
  BY <1>2, <1>4, Destroys
<1>6. Sound(L, h) /\ Usable(h, v.id)
  BY <1>3, <1>5, StillUsable DEF Grows
<1> QED
  BY <1>1, <1>2, <1>3, <1>4, <1>5, <1>6

(* A visit that is given an operand, and its end. *)
LEMMA VisitingInto ==
  ASSUME NEW L \in Nat, NEW E, NEW X, Contract(L, E, X), NEW e \in X, NEW g, Sound(L, g),
         NEW dest, Usable(g, dest)
  PROVE  LET h == Destroy(Visit(E, g, e, dest))
         IN  Grows(L, g, h) /\ Sound(L, h) /\ h.cur = g.cur /\ Usable(h, dest)
<1>1. PICK v : v = Visit(E, g, e, dest)
  OBVIOUS
<1>2. VisitTrue(L, g, dest, v)
  BY <1>1 DEF Contract, CanGo
<1>3. PICK h : h = Destroy(v)
  OBVIOUS
<1>4. Grows(L, g, h) /\ h.cur = g.cur
  BY <1>2, <1>3, Destroys
<1>5. Sound(L, h) /\ Usable(h, dest)
  BY <1>4, StillUsable DEF Grows
<1> QED
  BY <1>1, <1>3, <1>4, <1>5

LEMMA UnaryTrue ==
  ASSUME NEW L \in Nat, NEW E, NEW X, Contract(L, E, X), NEW line \in Nat, NEW op \in Unary, NEW a \in X,
         NEW g, Sound(L, g), NEW dest, NEW d, VisitTrue(L, g, dest, d)
  PROVE  LET x == Visit(E, d.g, a, None)
         IN  VisitTrue(L, g, dest, [d EXCEPT !.g = EMIT(Destroy(x), line, op, <<d.id, x.id>>)])
<1>1. Sound(L, d.g) /\ Usable(d.g, d.id)
  BY DEF VisitTrue, Grows
<1>2. PICK x : x = Visit(E, d.g, a, None)
  OBVIOUS
<1>3. PICK h : h = Destroy(x)
  OBVIOUS
<1>4. Grows(L, d.g, h) /\ Sound(L, h) /\ h.cur = d.g.cur /\ Usable(h, x.id)
  BY <1>1, <1>2, <1>3, Visiting
<1>5. Usable(h, d.id) /\ op \in Plain
  BY <1>1, <1>4, StillUsable DEF Unary, Plain
<1>6. PICK k : k = EMIT(h, line, op, <<d.id, x.id>>)
  OBVIOUS
<1>7. Grows(L, h, k) /\ k.cur = h.cur
  BY <1>4, <1>5, <1>6, EmitsPlain
<1>8. Grows(L, d.g, k) /\ k.cur = d.g.cur
  BY <1>1, <1>4, <1>7, Further
<1>9. VisitTrue(L, g, dest, [d EXCEPT !.g = k])
  BY <1>8, Finishes
<1> QED
  BY <1>2, <1>3, <1>6, <1>9

LEMMA PairTrue ==
  ASSUME NEW L \in Nat, NEW E, NEW X, Contract(L, E, X), NEW line \in Nat,
         NEW op \in Binary \cup {"GetArray"}, NEW left \in X, NEW right \in X,
         NEW g, Sound(L, g), NEW dest, NEW d, VisitTrue(L, g, dest, d)
  PROVE  VisitTrue(L, g, dest, PairExpr(E, d, line, op, left, right))
<1>1. Sound(L, d.g) /\ Usable(d.g, d.id)
  BY DEF VisitTrue, Grows
<1>2. PICK l : l = Visit(E, d.g, left, None)
  OBVIOUS
<1>3. /\ Usable(l.g, l.id) /\ Sound(L, l.g) /\ Grows(L, d.g, l.g)
      /\ l \in [g : Generators, id : Int, alloc : BOOLEAN] /\ l.g.cur = d.g.cur + Extra(l)
      /\ l.alloc => l.id = d.g.cur
  BY <1>1, <1>2, Visiting
<1>4. PICK r : r = Visit(E, l.g, right, None)
  OBVIOUS
<1>5. PICK h : h = Destroy(r)
  OBVIOUS
<1>6. Grows(L, l.g, h) /\ Sound(L, h) /\ h.cur = l.g.cur /\ Usable(h, r.id)
  BY <1>3, <1>4, <1>5, Visiting
<1>7. Usable(h, d.id) /\ Usable(h, l.id) /\ Grows(L, d.g, h)
  BY <1>1, <1>3, <1>6, StillUsable, Further
<1>8. PICK k : k = EMIT(h, line, op, <<d.id, l.id, r.id>>)
  OBVIOUS
<1>9. Grows(L, h, k) /\ k.cur = h.cur
  BY <1>6, <1>7, <1>8, EmitsThree
<1>10. Sound(L, k) /\ Grows(L, d.g, k) /\ k.cur = d.g.cur + Extra(l)
  BY <1>1, <1>3, <1>6, <1>7, <1>9, Further DEF Grows
<1>11. PICK m : m = DestroyIn(k, l)
  OBVIOUS
<1>12. d.g.cur \in Nat /\ L <= d.g.cur /\ Extra(l) \in 0 .. 1
  BY <1>1, Numbers, Extras
<1>13. L + Extra(l) <= k.cur /\ k.cur - Extra(l) = d.g.cur /\ (l.alloc => l.id = k.cur - 1)
  BY <1>3, <1>10, <1>12 DEF Extra
<1>14. Grows(L, k, m) /\ m.cur = d.g.cur
  BY <1>3, <1>10, <1>11, <1>13, DestroysIn
<1>15. Grows(L, d.g, m)
  BY <1>1, <1>10, <1>14, Further
<1>16. PairExpr(E, d, line, op, left, right) = [d EXCEPT !.g = m]
  BY <1>2, <1>4, <1>5, <1>8, <1>11 DEF PairExpr
<1> QED
  BY <1>14, <1>15, <1>16, Finishes

LEMMA LogicalTrue ==
  ASSUME NEW L \in Nat, NEW E, NEW X, Contract(L, E, X), NEW e, e.line \in Nat, e.l \in X, e.r \in X,
         NEW g, Sound(L, g), NEW dest, NEW d, VisitTrue(L, g, dest, d)
  PROVE  VisitTrue(L, g, dest, LogicalExpr(E, d, e))
<1>1. Sound(L, d.g) /\ Usable(d.g, d.id)
  BY DEF VisitTrue, Grows
<1>2. PICK l : l = Destroy(Visit(E, d.g, e.l, d.id))
  OBVIOUS
<1>3. Grows(L, d.g, l) /\ Sound(L, l) /\ l.cur = d.g.cur /\ Usable(l, d.id)
  BY <1>1, <1>2, VisitingInto
<1>4. PICK p : p = PRE_EMIT(l, e.line)
  OBVIOUS
<1>5. Grows(L, l, p) /\ Sound(L, p) /\ p.cur = l.cur /\ Off(p) = Off(l) + 1
  BY <1>3, <1>4, Reserves DEF Grows
<1>6. Usable(p, d.id)
  BY <1>3, <1>5, StillUsable
<1>7. PICK r : r = Destroy(Visit(E, p, e.r, d.id))
  OBVIOUS
<1>8. Grows(L, p, r) /\ Sound(L, r) /\ r.cur = p.cur /\ Usable(r, d.id)
  BY <1>5, <1>6, <1>7, VisitingInto
<1>9. PICK jump \in Tests : jump = IF e.t = "And" THEN "FalseJump" ELSE "TrueJump"
  BY DEF Tests
<1>10. Off(l) \in Nat /\ Off(r) \in Nat /\ Off(l) < Off(r) /\ Off(r) \in 0 .. Off(r)
  BY <1>3, <1>5, <1>8, Numbers DEF Grows
<1>11. PICK m : m = POST_EMIT(r, Off(l), jump, <<d.id, Off(r)>>)
  OBVIOUS
<1>12. Grows(L, r, m) /\ m.cur = r.cur
  BY <1>8, <1>9, <1>10, <1>11, PatchesTest
<1>13. Grows(L, d.g, m) /\ m.cur = d.g.cur
  <2>1. Grows(L, d.g, p)
    BY <1>1, <1>3, <1>5, Further
  <2>2. Grows(L, d.g, r)
    BY <1>1, <1>8, <2>1, Further
  <2> QED
    BY <1>1, <1>3, <1>5, <1>8, <1>12, <2>2, Further
<1>14. LogicalExpr(E, d, e) = [d EXCEPT !.g = m]
  BY <1>2, <1>4, <1>7, <1>9, <1>11 DEF LogicalExpr
<1> QED
  BY <1>13, <1>14, Finishes

-----------------------------------------------------------------------------
(* Windows: the values of a list in temporaries, one after the other.       *)
WindowStep(E, x, e) == Destroy(Visit(E, allocID(x), e, fromLocal(x.cur)))

(* The states of a generator that are sound. *)
Sounds(L) == {h \in Generators : Sound(L, h)}

LEMMA WindowStepTrue ==
  ASSUME NEW L \in Nat, NEW E, NEW X, Contract(L, E, X), NEW e \in X, NEW x, Sound(L, x)
  PROVE  LET h == WindowStep(E, x, e)
         IN  /\ Grows(L, x, h) /\ Sound(L, h) /\ h \in Sounds(L)
             /\ h.cur = x.cur + 1 /\ (h.ok => x.cur < 128)
<1>1. PICK a : a = allocID(x)
  OBVIOUS
<1>2. Grows(L, x, a) /\ a.cur = x.cur + 1 /\ (a.ok => x.cur < 128)
  BY <1>1, Allocates
<1>3. Sound(L, a) /\ x.cur \in Nat /\ a.max \in Nat /\ a.cur <= a.max
  BY <1>2, Numbers DEF Grows
<1>4. Usable(a, x.cur)
  BY <1>2, <1>3 DEF Usable, Good
<1>5. PICK h : h = Destroy(Visit(E, a, e, x.cur))
  OBVIOUS
<1>6. Grows(L, a, h) /\ Sound(L, h) /\ h.cur = a.cur
  BY <1>3, <1>4, <1>5, VisitingInto
<1>7. Grows(L, x, h) /\ (h.ok => a.ok) /\ h \in Sounds(L)
  BY <1>2, <1>6, Further DEF Grows, Sounds, Sound
<1>8. WindowStep(E, x, e) = h
  BY <1>1, <1>5 DEF WindowStep, fromLocal
<1> QED
  BY <1>2, <1>6, <1>7, <1>8

(* The states of a window, as its recursive definition gives them. *)
WindowStates(E, g, exprs, W) ==
  W = [n \in 0 .. Len(exprs) |-> IF n = 0 THEN g ELSE WindowStep(E, W[n - 1], exprs[n])]

LEMMA WindowExists ==
  ASSUME NEW L \in Nat, NEW E, NEW X, Contract(L, E, X), NEW exprs \in Seq(X), NEW g, Sound(L, g)
  PROVE  \E W : WindowStates(E, g, exprs, W)
<1>1. PICK N \in Nat : N = Len(exprs) /\ \A n \in 1 .. N : exprs[n] \in X
  OBVIOUS
<1>2. PICK G : G = [n \in Nat |-> [x \in Sounds(L) |->
                     IF n + 1 \in 1 .. N THEN WindowStep(E, x, exprs[n + 1]) ELSE x]]
  OBVIOUS
<1>3. G \in [Nat -> [Sounds(L) -> Sounds(L)]]
  <2>1. ASSUME NEW n \in Nat, NEW x \in Sounds(L), n + 1 \in 1 .. N
        PROVE  WindowStep(E, x, exprs[n + 1]) \in Sounds(L)
    <3>1. Sound(L, x) /\ exprs[n + 1] \in X
      BY <1>1, <2>1 DEF Sounds
    <3> QED
      BY <3>1, WindowStepTrue
  <2> QED
    BY <1>2, <2>1
<1>4. g \in Sounds(L)
  BY DEF Sounds, Sound
<1>5. PICK f : Exprs!Iterates(f, Sounds(L), g, G)
  BY <1>3, <1>4, Exprs!Iteration
<1>6. f \in [Nat -> Sounds(L)] /\ f[0] = g /\ \A n \in Nat : f[n + 1] = G[n][f[n]]
  BY <1>5 DEF Exprs!Iterates
<1>7. PICK W : W = [n \in 0 .. N |-> f[n]]
  OBVIOUS
<1>8. ASSUME NEW n \in 0 .. N PROVE W[n] = IF n = 0 THEN g ELSE WindowStep(E, W[n - 1], exprs[n])
  <2>1. CASE n = 0
    BY <1>6, <1>7, <2>1
  <2>2. CASE n # 0
    <3>1. n - 1 \in Nat /\ n - 1 \in 0 .. N /\ n - 1 + 1 = n /\ n \in 1 .. N
      BY <2>2
    <3>2. f[n] = G[n - 1][f[n - 1]] /\ f[n - 1] \in Sounds(L)
      BY <1>6, <3>1
    <3>3. G[n - 1][f[n - 1]] = WindowStep(E, f[n - 1], exprs[n])
      BY <1>2, <3>1, <3>2
    <3> QED
      BY <1>7, <2>2, <3>1, <3>2, <3>3
  <2> QED
    BY <2>1, <2>2
<1>9. W = [n \in 0 .. N |-> IF n = 0 THEN g ELSE WindowStep(E, W[n - 1], exprs[n])]
  BY <1>7, <1>8
<1> QED
  BY <1>1, <1>9 DEF WindowStates

LEMMA WindowIs ==
  ASSUME NEW L \in Nat, NEW E, NEW X, Contract(L, E, X), NEW exprs \in Seq(X), NEW g, Sound(L, g)
  PROVE  LET h == Window(E, g, exprs)
         IN  /\ Grows(L, g, h) /\ h.cur = g.cur + Len(exprs)
             /\ exprs # <<>> => (h.ok => g.cur < 128)
<1>1. PICK N \in Nat : N = Len(exprs) /\ \A n \in 1 .. N : exprs[n] \in X
  OBVIOUS
<1>2. PICK W : W = CHOOSE V : WindowStates(E, g, exprs, V)
  OBVIOUS
<1>3. WindowStates(E, g, exprs, W)
  BY <1>2, WindowExists
<1>4. Window(E, g, exprs) = W[N]
  BY <1>1, <1>2 DEF Window, WindowStates, WindowStep
<1>5. W[0] = g /\ \A n \in 1 .. N : W[n] = WindowStep(E, W[n - 1], exprs[n])
  <2>1. W = [n \in 0 .. N |-> IF n = 0 THEN g ELSE WindowStep(E, W[n - 1], exprs[n])]
    BY <1>1, <1>3 DEF WindowStates
  <2> QED
    BY <2>1
<1> DEFINE P(n) == /\ Grows(L, g, W[n]) /\ W[n].cur = g.cur + n
                   /\ n > 0 => (W[n].ok => g.cur < 128)
           Bad == {n \in 0 .. N : ~ P(n)}
<1>6. Bad = {}
  <2> SUFFICES ASSUME Bad # {} PROVE FALSE
    OBVIOUS
  <2>1. PICK m \in Bad : \A n \in Bad : m <= n
    <3>1. Bad \in SUBSET Nat
      OBVIOUS
    <3> HIDE DEF Bad
    <3> QED
      BY <3>1, Exprs!Least
  <2>2. g.cur \in Nat
    BY Numbers
  <2>3. m # 0
    <3>1. P(0)
      BY <1>5, <2>2, Stays
    <3> QED
      BY <2>1, <3>1
  <2>4. m \in 1 .. N /\ m - 1 \in 0 .. N /\ ~ (m <= m - 1)
    BY <2>1, <2>3
  <2>5. P(m - 1)
    BY <2>1, <2>4
  <2>6. PICK x : x = W[m - 1]
    OBVIOUS
  <2>7. Sound(L, x) /\ Grows(L, g, x) /\ x.cur = g.cur + m - 1 /\ exprs[m] \in X
    BY <1>1, <2>4, <2>2, <2>5, <2>6 DEF Grows
  <2>8. PICK h : h = WindowStep(E, x, exprs[m])
    OBVIOUS
  <2>9. Grows(L, x, h) /\ h.cur = x.cur + 1 /\ (h.ok => x.cur < 128)
    BY <2>7, <2>8, WindowStepTrue
  <2>10. Grows(L, g, h) /\ h = W[m]
    BY <1>5, <2>4, <2>6, <2>7, <2>8, <2>9, Further
  <2>11. h.cur = g.cur + m /\ (h.ok => g.cur < 128)
    BY <2>2, <2>4, <2>7, <2>9
  <2>12. P(m)
    BY <2>10, <2>11
  <2> QED
    BY <2>1, <2>12
<1>7. P(N)
  BY <1>6
<1>8. exprs # <<>> => N > 0
  BY <1>1
<1> HIDE DEF Bad
<1> QED
  BY <1>1, <1>4, <1>7, <1>8

(* A window of n slots for a list. *)
HasWindow(L, g, exprs, h, n) ==
  /\ Grows(L, g, h) /\ Sound(L, h) /\ h.cur = g.cur + n
  /\ n > 0 /\ n >= Len(exprs) /\ (h.ok => g.cur < 128)
  /\ \A k : FreeWindow(k, g.cur, exprs) = freeIDs(k, g.cur, n)

LEMMA WindowOrOneTrue ==
  ASSUME NEW L \in Nat, NEW E, NEW X, Contract(L, E, X), NEW exprs \in Seq(X), NEW g, Sound(L, g)
  PROVE  LET h == WindowOrOne(E, g, exprs)
         IN  \E n \in Nat : HasWindow(L, g, exprs, h, n)
<1>1. CASE exprs = <<>>
  <2>1. PICK h : h = allocID(g)
    OBVIOUS
  <2>2. Grows(L, g, h) /\ h.cur = g.cur + 1 /\ (h.ok => g.cur < 128) /\ Sound(L, h)
    BY <2>1, Allocates DEF Grows
  <2>3. WindowOrOne(E, g, exprs) = h /\ 1 >= Len(exprs)
    BY <1>1, <2>1 DEF WindowOrOne
  <2>4. \A k : FreeWindow(k, g.cur, exprs) = freeIDs(k, g.cur, 1)
    BY <1>1 DEF FreeWindow
  <2> QED
    BY <2>2, <2>3, <2>4 DEF HasWindow
<1>2. CASE exprs # <<>>
  <2>1. PICK h : h = Window(E, g, exprs)
    OBVIOUS
  <2>2. Grows(L, g, h) /\ h.cur = g.cur + Len(exprs) /\ (h.ok => g.cur < 128) /\ Sound(L, h)
    BY <1>2, <2>1, WindowIs DEF Grows
  <2>3. WindowOrOne(E, g, exprs) = h
    BY <1>2, <2>1 DEF WindowOrOne
  <2>4. \A k : FreeWindow(k, g.cur, exprs) = freeIDs(k, g.cur, Len(exprs))
    BY <1>2 DEF FreeWindow
  <2>5. Len(exprs) \in Nat /\ Len(exprs) > 0
    BY <1>2
  <2> QED
    BY <2>2, <2>3, <2>4, <2>5 DEF HasWindow
<1> QED
  BY <1>1, <1>2

LEMMA ArrayTrue ==
  ASSUME NEW L \in Nat, NEW E, NEW X, Contract(L, E, X), NEW e, e.line \in Nat, e.exprs \in Seq(X),
         NEW g, Sound(L, g), NEW dest, NEW d, VisitTrue(L, g, dest, d)
  PROVE  VisitTrue(L, g, dest, ArrayExpr(E, d, e))
<1>1. Sound(L, d.g) /\ Usable(d.g, d.id) /\ d.g.cur \in Nat
  BY Numbers DEF VisitTrue, Grows
<1>2. PICK w : w = WindowOrOne(E, d.g, e.exprs)
  OBVIOUS
<1>17. PICK n \in Nat : HasWindow(L, d.g, e.exprs, w, n)
  BY <1>1, <1>2, WindowOrOneTrue
<1>3. /\ Grows(L, d.g, w) /\ Sound(L, w) /\ w.cur = d.g.cur + n
      /\ n > 0 /\ n >= Len(e.exprs) /\ (w.ok => d.g.cur < 128)
      /\ \A k : FreeWindow(k, d.g.cur, e.exprs) = freeIDs(k, d.g.cur, n)
  BY <1>17 DEF HasWindow
<1>4. PICK s \in Nat, c \in Nat : s = d.g.cur /\ c = Len(e.exprs)
  BY <1>1
<1>5. Usable(w, d.id) /\ w.cur \in Nat /\ w.max \in Nat /\ w.cur <= w.max
  BY <1>1, <1>3, StillUsable, Numbers
<1>6. s < w.max /\ s + c <= w.max /\ (w.ok => s < 128)
  BY <1>3, <1>4, <1>5
<1>7. PICK a : a = EMIT(w, e.line, "NewArray", <<d.id, s, c>>)
  OBVIOUS
<1>8. Grows(L, w, a) /\ Sound(L, a) /\ a.cur = w.cur
  <2>1. Grows(L, w, a) /\ a.cur = w.cur
    BY <1>3, <1>5, <1>6, <1>7, EmitsArray
  <2> QED
    BY <2>1 DEF Grows
<1>9. PICK h : h = freeIDs(a, s, n)
  OBVIOUS
<1>10. L + n <= a.cur /\ a.cur - n = d.g.cur /\ s + n = a.cur
  BY <1>1, <1>3, <1>4, <1>8, Numbers
<1>11. Grows(L, a, h) /\ h.cur = d.g.cur
  BY <1>8, <1>9, <1>10, FreesMany
<1>12. Grows(L, d.g, h)
  <2>1. Grows(L, d.g, a)
    BY <1>1, <1>3, <1>8, Further
  <2> QED
    BY <1>1, <1>11, <2>1, Further
<1>13. ArrayExpr(E, d, e) = [d EXCEPT !.g = h]
  BY <1>2, <1>3, <1>4, <1>7, <1>9 DEF ArrayExpr, fromLocal
<1> QED
  BY <1>11, <1>12, <1>13, Finishes

LEMMA CallTrue ==
  ASSUME NEW L \in Nat, NEW E, NEW X, Contract(L, E, X),
         NEW e, e.line \in Nat, e.func \in X, e.params \in Seq(X),
         NEW g, Sound(L, g), NEW dest, NEW d, VisitTrue(L, g, dest, d)
  PROVE  VisitTrue(L, g, dest, CallExpr(E, d, e))
<1>1. Sound(L, d.g) /\ Usable(d.g, d.id) /\ d.g.cur \in Nat /\ L <= d.g.cur
  BY Numbers DEF VisitTrue, Grows
<1>0. PICK f : f = Visit(E, d.g, e.func, None)
  OBVIOUS
<1>20. /\ Usable(f.g, f.id) /\ Sound(L, f.g) /\ Grows(L, d.g, f.g)
       /\ f \in [g : Generators, id : Int, alloc : BOOLEAN] /\ f.g.cur = d.g.cur + Extra(f)
       /\ f.alloc => f.id = d.g.cur
  BY <1>0, <1>1, Visiting
<1>2. PICK w : w = WindowOrOne(E, f.g, e.params)
  OBVIOUS
<1>17. PICK n \in Nat : HasWindow(L, f.g, e.params, w, n)
  BY <1>2, <1>20, WindowOrOneTrue
<1>3. /\ Grows(L, f.g, w) /\ Sound(L, w) /\ w.cur = f.g.cur + n
      /\ n > 0 /\ n >= Len(e.params) /\ (w.ok => f.g.cur < 128)
      /\ \A k : FreeWindow(k, f.g.cur, e.params) = freeIDs(k, f.g.cur, n)
  BY <1>17 DEF HasWindow
<1>4. PICK s \in Nat, c \in Nat : s = f.g.cur /\ c = Len(e.params)
  <2>1. f.g.cur \in Nat
    BY <1>20, Numbers
  <2>2. Len(e.params) \in Nat
    OBVIOUS
  <2> QED
    BY <2>1, <2>2
<1>5. Usable(w, f.id) /\ w.cur \in Nat /\ w.max \in Nat /\ w.cur <= w.max
  BY <1>20, <1>3, StillUsable, Numbers
<1>21. Grows(L, d.g, w) /\ Usable(w, d.id)
  <2>1. Grows(L, d.g, w)
    BY <1>1, <1>20, <1>3, Further
  <2> QED
    BY <1>1, <2>1, StillUsable
<1>6. s < w.max /\ s + c <= w.max /\ (w.ok => s < 128)
  BY <1>3, <1>4, <1>5
<1>7. PICK a : a = EMIT(EMIT(w, e.line, "Call", <<f.id, s, c>>), e.line, "Move", <<d.id, s>>)
  OBVIOUS
<1>8. Grows(L, w, a) /\ Sound(L, a) /\ a.cur = w.cur
  <2>1. Grows(L, w, a) /\ a.cur = w.cur
    <3>1. w.ok => s < 128
      BY <1>6
    <3>2. \A x : x = EMIT(EMIT(w, e.line, "Call", <<f.id, s, c>>), e.line, "Move", <<d.id, s>>)
            => Grows(L, w, x) /\ x.cur = w.cur
      BY <1>3, <1>5, <1>6, <1>21, <3>1, EmitsCall
    <3> QED
      BY <1>7, <3>2
  <2> QED
    BY <2>1 DEF Grows
<1>9. PICK h : h = freeIDs(a, s, n)
  OBVIOUS
<1>22. Extra(f) \in 0 .. 1
  BY Extras
<1>10. /\ L + n <= a.cur /\ a.cur - n = s /\ s + n = a.cur /\ L + Extra(f) <= s
       /\ f.alloc => f.id = s - 1
  <2>1. PICK b \in Nat, x \in 0 .. 1 : b = d.g.cur /\ x = Extra(f) /\ s = b + x /\ L <= b
    BY <1>1, <1>4, <1>20, <1>22
  <2>2. a.cur = s + n
    BY <1>3, <1>4, <1>8
  <2>3. f.alloc => x = 1
    BY <2>1 DEF Extra
  <2>4. L + n <= s + n /\ s + n - n = s /\ L + x <= s
    BY <2>1
  <2>5. f.alloc => f.id = s - 1
    <3> SUFFICES ASSUME f.alloc PROVE f.id = s - 1
      OBVIOUS
    <3>1. s = b + 1 /\ f.id = b
      BY <1>20, <2>1, <2>3
    <3> QED
      BY <2>1, <3>1
  <2> QED
    BY <2>1, <2>2, <2>4, <2>5
<1>11. Grows(L, a, h) /\ Sound(L, h) /\ h.cur = s
  <2>1. Grows(L, a, h) /\ h.cur = s
    BY <1>8, <1>9, <1>10, FreesMany
  <2> QED
    BY <2>1 DEF Grows
<1>12. PICK m : m = DestroyIn(h, f)
  OBVIOUS
<1>13. Grows(L, h, m) /\ m.cur = h.cur - Extra(f)
  BY <1>10, <1>11, <1>12, <1>20, DestroysIn
<1>14. m.cur = d.g.cur
  BY <1>1, <1>4, <1>11, <1>13, <1>20, <1>22
<1>15. Grows(L, d.g, m)
  <2>1. Grows(L, d.g, a)
    BY <1>1, <1>8, <1>21, Further
  <2>2. Grows(L, d.g, h)
    BY <1>1, <1>11, <2>1, Further
  <2> QED
    BY <1>1, <1>13, <2>2, Further
<1>16. CallExpr(E, d, e) = [d EXCEPT !.g = m]
  <2>1. FreeWindow(a, f.g.cur, e.params) = freeIDs(a, f.g.cur, n)
    BY <1>3
  <2> QED
    BY <1>0, <1>2, <1>4, <1>7, <1>9, <1>12, <2>1 DEF CallExpr, fromLocal
<1> QED
  BY <1>14, <1>15, <1>16, Finishes

(* A global is named by a constant. *)
LEMMA GlobalTrue ==
  ASSUME NEW L \in Nat, NEW e, e.line \in Nat, e.i \in 0 .. MaxIndex,
         NEW g, Sound(L, g), NEW dest, NEW d, VisitTrue(L, g, dest, d)
  PROVE  VisitTrue(L, g, dest,
           [d EXCEPT !.g = EMIT(Assert(@, IsIndex(e.i)), e.line, "GetGlobal", <<d.id, fromConst(e.i)>>)])
<1>1. Sound(L, d.g) /\ Usable(d.g, d.id)
  BY DEF VisitTrue, Grows
<1>2. PICK a : a = Assert(d.g, IsIndex(e.i))
  OBVIOUS
<1>3. Grows(L, d.g, a) /\ Sound(L, a) /\ a.cur = d.g.cur
  <2>1. IsIndex(e.i) \in BOOLEAN /\ (IsIndex(e.i) \/ TooLarge(d.g))
    BY ASTAssumption DEF IsIndex, TooLarge
  <2>2. Grows(L, d.g, a) /\ a.cur = d.g.cur
    BY <1>1, <1>2, <2>1, Asserts
  <2> QED
    BY <2>2 DEF Grows
<1>4. Usable(a, d.id) /\ Usable(a, fromConst(e.i)) /\ "GetGlobal" \in Plain
  <2>1. Usable(a, d.id)
    BY <1>1, <1>3, StillUsable
  <2> QED
    BY <2>1, ASTAssumption DEF Usable, Good, fromConst, Plain
<1>5. PICK h : h = EMIT(a, e.line, "GetGlobal", <<d.id, fromConst(e.i)>>)
  OBVIOUS
<1>6. Grows(L, a, h) /\ h.cur = a.cur
  BY <1>3, <1>4, <1>5, EmitsPlain
<1>7. Grows(L, d.g, h) /\ h.cur = d.g.cur
  BY <1>1, <1>3, <1>6, Further
<1>8. VisitTrue(L, g, dest, [d EXCEPT !.g = h])
  BY <1>7, Finishes
<1>9. d \in [g : Generators, id : Int, alloc : BOOLEAN]
  BY DEF VisitTrue
<1> QED
  BY <1>2, <1>5, <1>8, <1>9

LEMMA LambdaTrue ==
  ASSUME NEW L \in Nat, NEW e, e.line \in Nat, e.i \in 0 .. MaxIndex,
         NEW g, Sound(L, g), NEW dest, NEW d, VisitTrue(L, g, dest, d)
  PROVE  VisitTrue(L, g, dest, [d EXCEPT !.g = EMIT(@, e.line, "NewFunction", <<d.id, e.i>>)])
<1>1. Sound(L, d.g) /\ Usable(d.g, d.id)
  BY DEF VisitTrue, Grows
<1>2. PICK h : h = EMIT(d.g, e.line, "NewFunction", <<d.id, e.i>>)
  OBVIOUS
<1>6. e.i \in Nat /\ (e.i <= 255 \/ TooLarge(d.g))
  BY ASTAssumption DEF TooLarge
<1>3. Grows(L, d.g, h) /\ h.cur = d.g.cur
  BY <1>1, <1>2, <1>6, EmitsFunction
<1>4. VisitTrue(L, g, dest, [d EXCEPT !.g = h])
  BY <1>3, Finishes
<1>5. d \in [g : Generators, id : Int, alloc : BOOLEAN]
  BY DEF VisitTrue
<1> QED
  BY <1>2, <1>4, <1>5

-----------------------------------------------------------------------------
(* Every kind of expression. *)

LEMMA ExprParts ==
  ASSUME NEW L \in Nat, NEW X, NEW e \in ExprsWith(L, X)
  PROVE  /\ e.line \in Nat
         /\ \/ e.t = "Local" /\ e.i \in 0 .. L - 1
            \/ e.t \in {"Const", "Global", "Lambda"} /\ e.i \in 0 .. MaxIndex
            \/ e.t \in Unary /\ e.e \in X
            \/ e.t \in {"And", "Or"} /\ e.l \in X /\ e.r \in X
            \/ e.t \in Binary /\ e.l \in X /\ e.r \in X
            \/ e.t = "IndexOf" /\ e.array \in X /\ e.index \in X
            \/ e.t = "ArrayConstructor" /\ e.exprs \in Seq(X)
            \/ e.t = "CallE" /\ e.func \in X /\ e.params \in Seq(X)
<1>1. CASE e \in [t : {"Local"}, line : Nat, i : 0 .. L - 1]
  BY <1>1
<1>2. CASE e \in [t : {"Global"}, line : Nat, i : 0 .. MaxIndex] \cup [t : {"Const", "Lambda"}, line : Nat, i : 0 .. MaxIndex]
  BY <1>2
<1>3. CASE e \in [t : {"IndexOf"}, line : Nat, array : X, index : X]
  BY <1>3
<1>4. CASE e \in [t : Unary, line : Nat, e : X]
  BY <1>4
<1>5. CASE e \in [t : Binary \cup {"And", "Or"}, line : Nat, l : X, r : X]
  BY <1>5
<1>6. CASE e \in [t : {"ArrayConstructor"}, line : Nat, exprs : Seq(X)]
  BY <1>6
<1>7. CASE e \in [t : {"CallE"}, line : Nat, func : X, params : Seq(X)]
  BY <1>7
<1> QED
  BY <1>1, <1>2, <1>3, <1>4, <1>5, <1>6, <1>7, Zenon DEF ExprsWith, Variables, Elements

LEMMA ExprTrue ==
  ASSUME NEW L \in Nat, NEW E, NEW X, Contract(L, E, X), NEW e \in ExprsWith(L, X),
         NEW g, Sound(L, g), NEW dest, CanGo(g, dest)
  PROVE  VisitTrue(L, g, dest, Expr(E, g, e, dest))
<1>1. e.line \in Nat
  BY ExprParts
<1>2. PICK d : d = makesureValidVarID(g, dest) /\ VisitTrue(L, g, dest, d)
  BY Ensures
<1>3. CASE e.t = "Local" /\ e.i \in 0 .. L - 1
  <2>1. PICK id \in Nat : id = e.i
    BY <1>3
  <2>2. \A m \in Nat : L <= m => Good(m, id)
    BY <1>3, <2>1 DEF Good
  <2>3. Expr(E, g, e, dest) = Leaf(g, e, dest, id)
    BY <1>3, <2>1 DEF Expr, fromLocal
  <2>4. (e.i < 128 \/ TooLarge(g)) /\ (id <= 255 \/ id < L \/ MaxIndex >= 128)
    BY <1>3, <2>1, Numbers DEF TooLarge
  <2> QED
    BY <1>1, <2>2, <2>3, <2>4, LeafTrue
<1>4. CASE e.t = "Const" /\ e.i \in 0 .. MaxIndex
  <2>1. PICK id \in Nat : id = 128 + e.i
    BY <1>4
  <2>2. \A m \in Nat : L <= m => Good(m, id)
    BY <1>4, <2>1 DEF Good
  <2>3. Expr(E, g, e, dest) = Leaf(g, e, dest, id)
    BY <1>4, <2>1 DEF Expr, fromConst
  <2>4. (e.i < 128 \/ TooLarge(g)) /\ (id <= 255 \/ id < L \/ MaxIndex >= 128)
    BY <1>4, <2>1, ASTAssumption DEF TooLarge
  <2> QED
    BY <1>1, <2>2, <2>3, <2>4, LeafTrue
<1>5. CASE e.t = "Global" /\ e.i \in 0 .. MaxIndex
  <2>1. Expr(E, g, e, dest)
          = [d EXCEPT !.g = EMIT(Assert(@, IsIndex(e.i)), e.line, "GetGlobal", <<d.id, fromConst(e.i)>>)]
    <3>1. /\ e.t \notin {"Local", "Const"} /\ e.t = "Global"
          /\ e.t # "Lambda" /\ e.t \notin Unary /\ e.t \notin {"And", "Or"}
          /\ e.t \notin Binary /\ e.t # "IndexOf" /\ e.t # "ArrayConstructor"
          /\ e.t # "CallE"
      BY <1>5 DEF Unary, Binary
    <3> QED
      BY <1>2, <3>1, Zenon DEF Expr
  <2> QED
    BY <1>1, <1>2, <1>5, <2>1, GlobalTrue
<1>6. CASE e.t = "Lambda" /\ e.i \in 0 .. MaxIndex
  <2>1. Expr(E, g, e, dest) = [d EXCEPT !.g = EMIT(@, e.line, "NewFunction", <<d.id, e.i>>)]
    <3>1. /\ e.t \notin {"Local", "Const"} /\ e.t = "Lambda"
          /\ e.t # "Global" /\ e.t \notin Unary /\ e.t \notin {"And", "Or"}
          /\ e.t \notin Binary /\ e.t # "IndexOf" /\ e.t # "ArrayConstructor"
          /\ e.t # "CallE"
      BY <1>6 DEF Unary, Binary
    <3> QED
      BY <1>2, <3>1, Zenon DEF Expr
  <2> QED
    BY <1>1, <1>2, <1>6, <2>1, LambdaTrue
<1>7. CASE e.t \in Unary /\ e.e \in X
  <2>1. Expr(E, g, e, dest)
          = [d EXCEPT !.g = EMIT(Destroy(Visit(E, d.g, e.e, None)), e.line, e.t, <<d.id, Visit(E, d.g, e.e, None).id>>)]
    <3>1. /\ e.t \notin {"Local", "Const"} /\ e.t \in Unary
          /\ e.t # "Global" /\ e.t # "Lambda" /\ e.t \notin {"And", "Or"}
          /\ e.t \notin Binary /\ e.t # "IndexOf" /\ e.t # "ArrayConstructor"
          /\ e.t # "CallE"
      BY <1>7 DEF Unary, Binary
    <3> QED
      BY <1>2, <3>1, Zenon DEF Expr
  <2> QED
    BY <1>1, <1>2, <1>7, <2>1, UnaryTrue
<1>8. CASE e.t \in {"And", "Or"} /\ e.l \in X /\ e.r \in X
  <2>1. Expr(E, g, e, dest) = LogicalExpr(E, d, e)
    <3>1. /\ e.t \notin {"Local", "Const"} /\ e.t \in {"And", "Or"}
          /\ e.t # "Global" /\ e.t # "Lambda" /\ e.t \notin Unary
          /\ e.t \notin Binary /\ e.t # "IndexOf" /\ e.t # "ArrayConstructor"
          /\ e.t # "CallE"
      BY <1>8 DEF Unary, Binary
    <3> QED
      BY <1>2, <3>1, Zenon DEF Expr
  <2> QED
    BY <1>1, <1>2, <1>8, <2>1, LogicalTrue
<1>9. CASE e.t \in Binary /\ e.l \in X /\ e.r \in X
  <2>1. Expr(E, g, e, dest) = PairExpr(E, d, e.line, e.t, e.l, e.r)
    <3>1. /\ e.t \notin {"Local", "Const"} /\ e.t \in Binary
          /\ e.t # "Global" /\ e.t # "Lambda" /\ e.t \notin Unary
          /\ e.t \notin {"And", "Or"} /\ e.t # "IndexOf" /\ e.t # "ArrayConstructor"
          /\ e.t # "CallE"
      BY <1>9 DEF Unary, Binary
    <3> QED
      BY <1>2, <3>1, Zenon DEF Expr
  <2>2. e.t \in Binary \cup {"GetArray"}
    BY <1>9
  <2> QED
    BY <1>1, <1>2, <1>9, <2>1, <2>2, PairTrue
<1>10. CASE e.t = "IndexOf" /\ e.array \in X /\ e.index \in X
  <2>1. Expr(E, g, e, dest) = PairExpr(E, d, e.line, "GetArray", e.array, e.index)
    <3>1. /\ e.t \notin {"Local", "Const"} /\ e.t = "IndexOf"
          /\ e.t # "Global" /\ e.t # "Lambda" /\ e.t \notin Unary
          /\ e.t \notin {"And", "Or"} /\ e.t \notin Binary /\ e.t # "ArrayConstructor"
          /\ e.t # "CallE"
      BY <1>10 DEF Unary, Binary
    <3> QED
      BY <1>2, <3>1, Zenon DEF Expr
  <2>2. "GetArray" \in Binary \cup {"GetArray"}
    OBVIOUS
  <2> QED
    BY <1>1, <1>2, <1>10, <2>1, <2>2, PairTrue
<1>11. CASE e.t = "ArrayConstructor" /\ e.exprs \in Seq(X)
  <2>1. Expr(E, g, e, dest) = ArrayExpr(E, d, e)
    <3>1. /\ e.t \notin {"Local", "Const"} /\ e.t = "ArrayConstructor"
          /\ e.t # "Global" /\ e.t # "Lambda" /\ e.t \notin Unary
          /\ e.t \notin {"And", "Or"} /\ e.t \notin Binary /\ e.t # "IndexOf"
          /\ e.t # "CallE"
      BY <1>11 DEF Unary, Binary
    <3> QED
      BY <1>2, <3>1, Zenon DEF Expr
  <2> QED
    BY <1>1, <1>2, <1>11, <2>1, ArrayTrue
<1>12. CASE e.t = "CallE" /\ e.func \in X /\ e.params \in Seq(X)
  <2>1. Expr(E, g, e, dest) = CallExpr(E, d, e)
    <3>1. /\ e.t \notin {"Local", "Const"} /\ e.t = "CallE"
          /\ e.t # "Global" /\ e.t # "Lambda" /\ e.t \notin Unary
          /\ e.t \notin {"And", "Or"} /\ e.t \notin Binary /\ e.t # "IndexOf"
          /\ e.t # "ArrayConstructor"
      BY <1>12 DEF Unary, Binary
    <3> QED
      BY <1>2, <3>1, Zenon DEF Expr
  <2> QED
    BY <1>1, <1>2, <1>12, <2>1, CallTrue
<1> QED
  BY <1>3, <1>4, <1>5, <1>6, <1>7, <1>8, <1>9, <1>10, <1>11, <1>12, ExprParts

(* Expressions of every height. *)
LEMMA ExprsTrue ==
  ASSUME NEW L \in Nat, NEW n \in Nat
  PROVE  Contract(L, ExprVisitor[n][L], ExprsOf[n][L])
<1> DEFINE Bad == {k \in Nat : ~ Contract(L, ExprVisitor[k][L], ExprsOf[k][L])}
<1>1. Bad = {}
  <2> SUFFICES ASSUME Bad # {} PROVE FALSE
    OBVIOUS
  <2>1. PICK m \in Bad : \A k \in Bad : m <= k
    <3>1. Bad \in SUBSET Nat
      OBVIOUS
    <3> HIDE DEF Bad
    <3> QED
      BY <3>1, Exprs!Least
  <2>2. m # 0
    <3>1. ExprsOf[0][L] = {}
      BY ExprsByHeight
    <3>2. Contract(L, ExprVisitor[0][L], ExprsOf[0][L])
      BY <3>1 DEF Contract
    <3> QED
      BY <2>1, <3>2
  <2>3. PICK k \in Nat : m = k + 1
    BY <2>1, <2>2
  <2>4. Contract(L, ExprVisitor[k][L], ExprsOf[k][L])
    <3>1. ~ (m <= k)
      BY <2>3
    <3> QED
      BY <2>1, <3>1
  <2>5. ASSUME NEW e \in ExprsOf[m][L], NEW g, NEW dest, Sound(L, g), CanGo(g, dest)
        PROVE  VisitTrue(L, g, dest, Visit(ExprVisitor[m][L], g, e, dest))
    <3>1. e \in ExprsOf[k + 1][L] /\ ExprsOf[k + 1][L] = ExprsWith(L, ExprsOf[k][L])
      BY <2>3, <2>5, ExprsByHeight
    <3>2. g \in Generators /\ dest \in Int
      BY <2>5 DEF Sound, CanGo, Usable, None
    <3>3. Visit(ExprVisitor[m][L], g, e, dest) = Expr(ExprVisitor[k][L], g, e, dest)
      BY <2>3, <3>1, <3>2, VisitorByHeight
    <3>4. e \in ExprsWith(L, ExprsOf[k][L])
      BY <3>1
    <3>5. VisitTrue(L, g, dest, Expr(ExprVisitor[k][L], g, e, dest))
      BY <2>4, <2>5, <3>4, ExprTrue
    <3> QED
      BY <3>3, <3>5
  <2>6. Contract(L, ExprVisitor[m][L], ExprsOf[m][L])
    BY <2>5 DEF Contract
  <2> QED
    BY <2>1, <2>6
<1> QED
  BY <1>1

-----------------------------------------------------------------------------
(* Statements: each gives its temporaries back. *)
Done(L, g, h) == Grows(L, g, h) /\ Sound(L, h) /\ h.cur = g.cur

SContract(L, S, Y) == \A s \in Y : \A g : Sound(L, g) => Done(L, g, S[s][g])

LEMMA GrowsDone ==
  ASSUME NEW L, NEW g, NEW h, Grows(L, g, h), h.cur = g.cur
  PROVE  Done(L, g, h)
BY DEF Grows, Done

LEMMA DoneThen ==
  ASSUME NEW L \in Nat, NEW g, NEW h, NEW k, Sound(L, g), Done(L, g, h), Done(L, h, k)
  PROVE  Done(L, g, k)
<1>1. Grows(L, g, h) /\ Grows(L, h, k) /\ Sound(L, k) /\ k.cur = g.cur
  BY DEF Done
<1>2. Grows(L, g, k)
  BY <1>1, Further
<1> QED
  BY <1>1, <1>2 DEF Done

LEMMA DoneGrows ==
  ASSUME NEW L \in Nat, NEW g, NEW h, Sound(L, g), Done(L, g, h)
  PROVE  Grows(L, g, h) /\ Sound(L, h) /\ h.cur = g.cur /\ Off(g) <= Off(h)
         /\ Off(g) \in Nat /\ Off(h) \in Nat
BY Numbers DEF Done, Grows

LEMMA OptionalTrue ==
  ASSUME NEW L \in Nat, NEW S, NEW Y, SContract(L, S, Y), NEW s \in Y \cup {Nothing}, NEW g, Sound(L, g)
  PROVE  Done(L, g, VisitStmt(S, g, s))
<1>1. CASE s = Nothing
  <2>1. Done(L, g, g)
    BY Stays DEF Done
  <2> QED
    BY <1>1, <2>1 DEF VisitStmt
<1>2. CASE s # Nothing
  <2>1. VisitStmt(S, g, s) = S[s][g] /\ s \in Y
    BY <1>2 DEF VisitStmt
  <2> QED
    BY <2>1 DEF SContract
<1> QED
  BY <1>1, <1>2

LEMMA MoveNilTrue ==
  ASSUME NEW L \in Nat, NEW g, Sound(L, g), NEW line \in Nat
  PROVE  Done(L, g, MoveNil(g, line))
<1>1. Usable(g, 0) /\ Usable(g, 128 + NilConst) /\ "Move" \in Plain
  BY CodeGenAssumption, ASTAssumption DEF Usable, Good, Plain
<1>2. PICK h : h = EMIT(g, line, "Move", <<0, 128 + NilConst>>)
  OBVIOUS
<1>3. Grows(L, g, h) /\ h.cur = g.cur
  BY <1>1, <1>2, EmitsPlain
<1>4. MoveNil(g, line) = h
  BY <1>2 DEF MoveNil, fromLocal, fromConst
<1> QED
  BY <1>3, <1>4, GrowsDone

(* A list of jumps is not part of what is sound. *)
Listed(g, breaks, continues, returns) ==
  [codes |-> g.codes, ip2line |-> g.ip2line, localCount |-> g.localCount, cur |-> g.cur, max |-> g.max,
   Break |-> breaks, Continue |-> continues, Return |-> returns, ok |-> g.ok]

LEMMA ListsOnly ==
  ASSUME NEW L \in Nat, NEW g, Sound(L, g),
         NEW breaks \in Seq(Nat), NEW continues \in Seq(Nat), NEW returns \in Seq(Nat)
  PROVE  Done(L, g, Listed(g, breaks, continues, returns))
<1>1. PICK h : h = Listed(g, breaks, continues, returns)
  OBVIOUS
<1>2. /\ h \in Generators /\ h.codes = g.codes /\ h.ip2line = g.ip2line /\ h.localCount = g.localCount
      /\ h.cur = g.cur /\ h.max = g.max /\ h.ok = g.ok
  <2>1. g \in Generators
    BY DEF Sound
  <2> QED
    BY <1>1, <2>1, Parts DEF Listed, Generators
<1>3. Sound(L, h)
  BY <1>2 DEF Sound
<1>4. Grows(L, g, h)
  BY <1>2, <1>3, Numbers DEF Grows, Off
<1> QED
  BY <1>1, <1>2, <1>4, GrowsDone

LEMMA JumpStmtTrue ==
  ASSUME NEW L \in Nat, NEW g, Sound(L, g), NEW s, s.line \in Nat, s.t \in Kinds
  PROVE  Done(L, g, JumpStmt(g, s))
<1>1. PICK p : p = PRE_EMIT(g, s.line)
  OBVIOUS
<1>2. Done(L, g, p) /\ Sound(L, p)
  <2>1. Grows(L, g, p) /\ p.cur = g.cur
    BY <1>1, Reserves
  <2> QED
    BY <2>1, GrowsDone DEF Done
<1>3. PICK off \in Nat : off = Off(g)
  BY Numbers
<1>4. p \in Generators /\ p.Break \in Seq(Nat) /\ p.Continue \in Seq(Nat) /\ p.Return \in Seq(Nat)
  BY <1>2, Parts DEF Sound
<1>5. CASE s.t = "Break"
  <2>1. PICK list \in Seq(Nat) : list = Append(p.Break, off)
    <3>1. Append(p.Break, off) \in Seq(Nat)
      BY <1>3, <1>4
    <3> QED
      BY <3>1, Zenon
  <2>2. PICK k : k = [p EXCEPT !.Break = list]
    OBVIOUS
  <2>3. k = Listed(p, list, p.Continue, p.Return)
    BY <1>4, <2>2 DEF Generators, Listed
  <2>4. Done(L, p, k)
    BY <1>2, <1>4, <2>1, <2>3, ListsOnly
  <2>5. JumpStmt(g, s) = k
    BY <1>1, <1>3, <1>4, <1>5, <2>1, <2>2 DEF JumpStmt, Generators
  <2> QED
    BY <1>2, <2>4, <2>5, DoneThen
<1>6. CASE s.t = "Continue"
  <2>1. PICK list \in Seq(Nat) : list = Append(p.Continue, off)
    <3>1. Append(p.Continue, off) \in Seq(Nat)
      BY <1>3, <1>4
    <3> QED
      BY <3>1, Zenon
  <2>2. PICK k : k = [p EXCEPT !.Continue = list]
    OBVIOUS
  <2>3. k = Listed(p, p.Break, list, p.Return)
    BY <1>4, <2>2 DEF Generators, Listed
  <2>4. Done(L, p, k)
    BY <1>2, <1>4, <2>1, <2>3, ListsOnly
  <2>5. JumpStmt(g, s) = k
    BY <1>1, <1>3, <1>4, <1>6, <2>1, <2>2 DEF JumpStmt, Generators
  <2> QED
    BY <1>2, <2>4, <2>5, DoneThen
<1>7. CASE s.t = "Return"
  <2>1. PICK list \in Seq(Nat) : list = Append(p.Return, off)
    <3>1. Append(p.Return, off) \in Seq(Nat)
      BY <1>3, <1>4
    <3> QED
      BY <3>1, Zenon
  <2>2. PICK k : k = [p EXCEPT !.Return = list]
    OBVIOUS
  <2>3. k = Listed(p, p.Break, p.Continue, list)
    BY <1>4, <2>2 DEF Generators, Listed
  <2>4. Done(L, p, k)
    BY <1>2, <1>4, <2>1, <2>3, ListsOnly
  <2>5. JumpStmt(g, s) = k
    BY <1>1, <1>3, <1>4, <1>7, <2>1, <2>2 DEF JumpStmt, Generators
  <2> QED
    BY <1>2, <2>4, <2>5, DoneThen
<1> QED
  BY <1>5, <1>6, <1>7 DEF Kinds

(* A test: what is in its operand, and its temporaries given back. *)
LEMMA TestTrue ==
  ASSUME NEW L \in Nat, NEW E, NEW X, Contract(L, E, X), NEW e \in X, NEW g, Sound(L, g)
  PROVE  LET x == Visit(E, g, e, None)
         IN  Done(L, g, Destroy(x)) /\ Usable(Destroy(x), x.id)
<1>1. PICK x : x = Visit(E, g, e, None)
  OBVIOUS
<1>2. PICK h : h = Destroy(x)
  OBVIOUS
<1>3. Grows(L, g, h) /\ h.cur = g.cur /\ Usable(h, x.id)
  BY <1>1, <1>2, Visiting
<1> QED
  BY <1>1, <1>2, <1>3, GrowsDone

LEMMA IfTrue ==
  ASSUME NEW L \in Nat, NEW E, NEW X, Contract(L, E, X), NEW S, NEW Y, SContract(L, S, Y),
         NEW s, s.line \in Nat, s.expr \in X, s.ifStmt \in Y \cup {Nothing}, s.elseStmt \in Y \cup {Nothing},
         NEW g, Sound(L, g)
  PROVE  Done(L, g, IfStmt(E, S, g, s))
<1>1. PICK x : x = Visit(E, g, s.expr, None)
  OBVIOUS
<1>2. PICK test : test = Destroy(x)
  OBVIOUS
<1>3. Done(L, g, test) /\ Sound(L, test) /\ Usable(test, x.id) /\ Off(test) \in Nat
  <2>1. Done(L, g, test) /\ Usable(test, x.id)
    BY <1>1, <1>2, TestTrue
  <2> QED
    BY <2>1, Numbers DEF Done
<1>4. PICK p : p = PRE_EMIT(test, s.line)
  OBVIOUS
<1>5. Done(L, test, p) /\ Sound(L, p) /\ Off(p) = Off(test) + 1
  <2>1. Grows(L, test, p) /\ p.cur = test.cur /\ Off(p) = Off(test) + 1
    BY <1>3, <1>4, Reserves
  <2> QED
    BY <2>1, GrowsDone DEF Done
<1>6. PICK else : else = VisitStmt(S, p, s.elseStmt)
  OBVIOUS
<1>7. Done(L, p, else) /\ Sound(L, else) /\ Off(p) <= Off(else) /\ Off(else) \in Nat
  <2>1. Done(L, p, else)
    BY <1>5, <1>6, OptionalTrue
  <2> QED
    BY <1>5, <2>1, DoneGrows
<1>8. PICK q : q = PRE_EMIT(else, s.line)
  OBVIOUS
<1>9. Done(L, else, q) /\ Sound(L, q) /\ Off(q) = Off(else) + 1
  <2>1. Grows(L, else, q) /\ q.cur = else.cur /\ Off(q) = Off(else) + 1
    BY <1>7, <1>8, Reserves
  <2> QED
    BY <2>1, GrowsDone DEF Done
<1>10. Done(L, test, q) /\ Done(L, g, q)
  <2>1. Done(L, test, else)
    BY <1>3, <1>5, <1>7, DoneThen
  <2>2. Done(L, test, q)
    BY <1>3, <1>9, <2>1, DoneThen
  <2> QED
    BY <1>3, <2>2, DoneThen
<1>11. Usable(q, x.id)
  <2>1. Grows(L, test, q)
    BY <1>10 DEF Done
  <2> QED
    BY <1>3, <2>1, StillUsable
<1>12. PICK jump : jump = POST_EMIT(q, Off(test), "TrueJump", <<x.id, Off(else) + 1>>)
  OBVIOUS
<1>13. Done(L, q, jump) /\ Sound(L, jump) /\ Off(jump) = Off(q)
  <2>1. Off(test) < Off(q) /\ Off(else) + 1 \in 0 .. Off(q) /\ "TrueJump" \in Tests
    BY <1>3, <1>5, <1>7, <1>9 DEF Tests
  <2>2. Grows(L, q, jump) /\ jump.cur = q.cur /\ Off(jump) = Off(q)
    BY <1>3, <1>9, <1>11, <1>12, <2>1, PatchesTest
  <2> QED
    BY <2>2, GrowsDone DEF Done
<1>14. PICK then : then = VisitStmt(S, jump, s.ifStmt)
  OBVIOUS
<1>15. Done(L, jump, then) /\ Sound(L, then) /\ Off(jump) <= Off(then) /\ Off(then) \in Nat
  <2>1. Done(L, jump, then)
    BY <1>13, <1>14, OptionalTrue
  <2> QED
    BY <1>13, <2>1, DoneGrows
<1>16. PICK h : h = POST_EMIT(then, Off(else), "Jump", <<Off(then)>>)
  OBVIOUS
<1>17. Done(L, then, h)
  <2>1. Off(else) < Off(then) /\ Off(then) \in 0 .. Off(then)
    BY <1>7, <1>9, <1>13, <1>15
  <2>2. Grows(L, then, h) /\ h.cur = then.cur
    BY <1>7, <1>15, <1>16, <2>1, PatchesJump
  <2> QED
    BY <2>2, GrowsDone
<1>18. Done(L, g, h)
  <2>1. Done(L, g, jump)
    BY <1>10, <1>13, DoneThen
  <2>2. Done(L, g, then)
    BY <1>15, <2>1, DoneThen
  <2> QED
    BY <1>17, <2>2, DoneThen
<1>19. IfStmt(E, S, g, s) = h
  BY <1>1, <1>2, <1>4, <1>6, <1>8, <1>12, <1>14, <1>16 DEF IfStmt
<1> QED
  BY <1>18, <1>19

LEMMA ForTrue ==
  ASSUME NEW L \in Nat, NEW E, NEW X, Contract(L, E, X), NEW S, NEW Y, SContract(L, S, Y),
         NEW s, s.line \in Nat, s.second \in X, s.first \in Y \cup {Nothing},
         s.last \in Y \cup {Nothing}, s.body \in Y \cup {Nothing},
         NEW g, Sound(L, g)
  PROVE  Done(L, g, ForStmt(E, S, g, s))
<1>1. PICK first : first = VisitStmt(S, g, s.first)
  OBVIOUS
<1>2. Done(L, g, first) /\ Sound(L, first) /\ Off(first) \in Nat
  <2>1. Done(L, g, first)
    BY <1>1, OptionalTrue
  <2> QED
    BY <2>1, DoneGrows
<1>3. PICK x : x = Visit(E, first, s.second, None)
  OBVIOUS
<1>4. PICK test : test = Destroy(x)
  OBVIOUS
<1>5. /\ Done(L, first, test) /\ Sound(L, test) /\ Usable(test, x.id)
      /\ Off(test) \in Nat /\ Off(first) <= Off(test)
  <2>1. Done(L, first, test) /\ Usable(test, x.id)
    BY <1>2, <1>3, <1>4, TestTrue
  <2> QED
    BY <1>2, <2>1, DoneGrows
<1>6. PICK p : p = PRE_EMIT(test, s.line)
  OBVIOUS
<1>7. Done(L, test, p) /\ Sound(L, p) /\ Off(p) = Off(test) + 1
  <2>1. Grows(L, test, p) /\ p.cur = test.cur /\ Off(p) = Off(test) + 1
    BY <1>5, <1>6, Reserves
  <2> QED
    BY <2>1, GrowsDone DEF Done
<1>8. PICK body : body = VisitStmt(S, p, s.body)
  OBVIOUS
<1>9. Done(L, p, body) /\ Sound(L, body)
  <2>1. Done(L, p, body)
    BY <1>7, <1>8, OptionalTrue
  <2> QED
    BY <2>1 DEF Done
<1>10. PICK c : c = POST_EMIT_JUMPS(body, "Continue")
  OBVIOUS
<1>11. Done(L, body, c) /\ Sound(L, c)
  <2>1. "Continue" \in Kinds
    BY DEF Kinds
  <2>2. Grows(L, body, c) /\ c.cur = body.cur
    BY <1>9, <1>10, <2>1, Lands
  <2> QED
    BY <2>2, GrowsDone DEF Done
<1>12. PICK last : last = VisitStmt(S, c, s.last)
  OBVIOUS
<1>13. Done(L, c, last) /\ Sound(L, last)
  <2>1. Done(L, c, last)
    BY <1>11, <1>12, OptionalTrue
  <2> QED
    BY <2>1 DEF Done
<1>14. Done(L, p, last) /\ Off(p) <= Off(last) /\ Off(last) \in Nat
  <2>1. Done(L, p, c)
    BY <1>7, <1>9, <1>11, DoneThen
  <2>2. Done(L, p, last)
    BY <1>7, <1>13, <2>1, DoneThen
  <2> QED
    BY <1>7, <2>2, DoneGrows
<1>15. PICK loop : loop = EMIT(last, s.line, "Jump", <<Off(first)>>)
  OBVIOUS
<1>16. Done(L, last, loop) /\ Sound(L, loop) /\ Off(loop) = Off(last) + 1
  <2>1. Off(first) \in 0 .. Off(last)
    BY <1>2, <1>5, <1>7, <1>14
  <2>2. Grows(L, last, loop) /\ loop.cur = last.cur /\ Off(loop) = Off(last) + 1
    BY <1>13, <1>15, <2>1, EmitsJump
  <2> QED
    BY <2>2, GrowsDone DEF Done
<1>17. Done(L, test, loop) /\ Usable(loop, x.id)
  <2>1. Done(L, test, last)
    BY <1>5, <1>7, <1>14, DoneThen
  <2>2. Done(L, test, loop)
    BY <1>5, <1>16, <2>1, DoneThen
  <2>3. Grows(L, test, loop)
    BY <2>2 DEF Done
  <2> QED
    BY <1>5, <2>2, <2>3, StillUsable
<1>18. PICK exit : exit = POST_EMIT(loop, Off(test), "FalseJump", <<x.id, Off(loop)>>)
  OBVIOUS
<1>19. Done(L, loop, exit) /\ Sound(L, exit)
  <2>1. Off(test) < Off(loop) /\ Off(loop) \in 0 .. Off(loop) /\ "FalseJump" \in Tests
    BY <1>5, <1>7, <1>14, <1>16 DEF Tests
  <2>2. Grows(L, loop, exit) /\ exit.cur = loop.cur
    BY <1>5, <1>16, <1>17, <1>18, <2>1, PatchesTest
  <2> QED
    BY <2>2, GrowsDone DEF Done
<1>20. PICK h : h = POST_EMIT_JUMPS(exit, "Break")
  OBVIOUS
<1>21. Done(L, exit, h)
  <2>1. "Break" \in Kinds
    BY DEF Kinds
  <2>2. Grows(L, exit, h) /\ h.cur = exit.cur
    BY <1>19, <1>20, <2>1, Lands
  <2> QED
    BY <2>2, GrowsDone
<1>22. Done(L, g, h)
  <2>1. Done(L, g, test)
    BY <1>2, <1>5, DoneThen
  <2>2. Done(L, g, loop)
    BY <1>17, <2>1, DoneThen
  <2>3. Done(L, g, exit)
    BY <1>19, <2>2, DoneThen
  <2> QED
    BY <1>21, <2>3, DoneThen
<1>23. ForStmt(E, S, g, s) = h
  BY <1>1, <1>3, <1>4, <1>6, <1>8, <1>10, <1>12, <1>15, <1>18, <1>20 DEF ForStmt
<1> QED
  BY <1>22, <1>23

LEMMA LocalAssigned ==
  ASSUME NEW L \in Nat, NEW E, NEW X, Contract(L, E, X), NEW s, s.line \in Nat, s.right \in X,
         s.left.t = "Local", s.left.i \in 0 .. L - 1, NEW g, Sound(L, g)
  PROVE  Done(L, g, Assign(E, g, s))
<1>1. PICK a : a = Assert(g, IsIndex(s.left.i))
  OBVIOUS
<1>2. Done(L, g, a) /\ Sound(L, a)
  <2>1. IsIndex(s.left.i) \in BOOLEAN /\ (IsIndex(s.left.i) \/ TooLarge(g))
    BY Numbers DEF IsIndex, TooLarge
  <2>2. Grows(L, g, a) /\ a.cur = g.cur
    BY <1>1, <2>1, Asserts
  <2> QED
    BY <2>2, GrowsDone DEF Done
<1>3. PICK id \in Nat : id = s.left.i
  OBVIOUS
<1>4. Usable(a, id)
  BY <1>2, <1>3, Numbers DEF Usable, Good
<1>5. PICK h : h = Destroy(Visit(E, a, s.right, id))
  OBVIOUS
<1>6. Done(L, a, h)
  <2>1. Grows(L, a, h) /\ h.cur = a.cur
    BY <1>2, <1>4, <1>5, VisitingInto
  <2> QED
    BY <2>1, GrowsDone
<1>7. Assign(E, g, s) = h
  BY <1>1, <1>3, <1>5 DEF Assign, fromLocal
<1> QED
  BY <1>2, <1>6, <1>7, DoneThen

LEMMA GlobalAssigned ==
  ASSUME NEW L \in Nat, NEW E, NEW X, Contract(L, E, X), NEW s, s.line \in Nat, s.right \in X,
         s.left.t = "Global", s.left.i \in 0 .. MaxIndex, NEW g, Sound(L, g)
  PROVE  Done(L, g, Assign(E, g, s))
<1>1. PICK v : v = Visit(E, g, s.right, None)
  OBVIOUS
<1>2. PICK k : k = Destroy(v)
  OBVIOUS
<1>3. Done(L, g, k) /\ Sound(L, k) /\ Usable(k, v.id)
  BY <1>1, <1>2, TestTrue DEF Done
<1>4. PICK a : a = Assert(k, IsIndex(s.left.i))
  OBVIOUS
<1>5. Done(L, k, a) /\ Sound(L, a) /\ Usable(a, v.id)
  <2>1. IsIndex(s.left.i) \in BOOLEAN /\ (IsIndex(s.left.i) \/ TooLarge(k))
    BY ASTAssumption DEF IsIndex, TooLarge
  <2>2. Grows(L, k, a) /\ a.cur = k.cur
    BY <1>3, <1>4, <2>1, Asserts
  <2>3. Usable(a, v.id)
    BY <1>3, <2>2, StillUsable
  <2> QED
    BY <2>2, <2>3, GrowsDone DEF Done
<1>6. PICK h : h = EMIT(a, s.line, "SetGlobal", <<fromConst(s.left.i), v.id>>)
  OBVIOUS
<1>7. Done(L, a, h)
  <2>1. Usable(a, fromConst(s.left.i)) /\ "SetGlobal" \in Plain
    BY ASTAssumption DEF Usable, Good, fromConst, Plain
  <2>2. Grows(L, a, h) /\ h.cur = a.cur
    BY <1>5, <1>6, <2>1, EmitsPlain
  <2> QED
    BY <2>2, GrowsDone
<1>8. Assign(E, g, s) = h
  BY <1>1, <1>2, <1>4, <1>6 DEF Assign
<1>9. Done(L, g, a)
  BY <1>3, <1>5, DoneThen
<1> QED
  BY <1>7, <1>8, <1>9, DoneThen

LEMMA ElementAssigned ==
  ASSUME NEW L \in Nat, NEW E, NEW X, Contract(L, E, X), NEW s, s.line \in Nat, s.right \in X,
         s.left.t = "IndexOf", s.left.array \in X, s.left.index \in X, NEW g, Sound(L, g)
  PROVE  Done(L, g, Assign(E, g, s))
<1>1. PICK a : a = Visit(E, g, s.left.array, None)
  OBVIOUS
<1>2. /\ Usable(a.g, a.id) /\ Sound(L, a.g) /\ Grows(L, g, a.g)
      /\ a \in [g : Generators, id : Int, alloc : BOOLEAN] /\ a.g.cur = g.cur + Extra(a)
      /\ a.alloc => a.id = g.cur
  BY <1>1, Visiting
<1>3. PICK k : k = Visit(E, a.g, s.left.index, None)
  OBVIOUS
<1>4. /\ Usable(k.g, k.id) /\ Sound(L, k.g) /\ Grows(L, a.g, k.g)
      /\ k \in [g : Generators, id : Int, alloc : BOOLEAN] /\ k.g.cur = a.g.cur + Extra(k)
      /\ k.alloc => k.id = a.g.cur
  BY <1>2, <1>3, Visiting
<1>5. PICK v : v = Visit(E, k.g, s.right, None)
  OBVIOUS
<1>6. PICK w : w = Destroy(v)
  OBVIOUS
<1>7. Grows(L, k.g, w) /\ Sound(L, w) /\ w.cur = k.g.cur /\ Usable(w, v.id)
  BY <1>4, <1>5, <1>6, Visiting
<1>8. Usable(w, a.id) /\ Usable(w, k.id) /\ Grows(L, g, w)
  <2>1. Grows(L, a.g, w)
    BY <1>2, <1>4, <1>7, Further
  <2> QED
    BY <1>2, <1>4, <1>7, <2>1, StillUsable, Further
<1>9. PICK e : e = EMIT(w, s.line, "SetArray", <<a.id, k.id, v.id>>)
  OBVIOUS
<1>10. Grows(L, w, e) /\ Sound(L, e) /\ e.cur = w.cur
  <2>2. PICK op \in Binary \cup {"SetArray", "GetArray"} : op = "SetArray"
    OBVIOUS
  <2>3. e = EMIT(w, s.line, op, <<a.id, k.id, v.id>>)
    BY <1>9, <2>2
  <2>1. Grows(L, w, e) /\ e.cur = w.cur
    BY <1>7, <1>8, <2>2, <2>3, EmitsThree
  <2> QED
    BY <2>1 DEF Grows
<1>11. Extra(a) \in 0 .. 1 /\ Extra(k) \in 0 .. 1 /\ g.cur \in Nat /\ L <= g.cur
  BY Extras, Numbers
<1>12. e.cur = g.cur + Extra(a) + Extra(k)
  BY <1>2, <1>4, <1>7, <1>10
<1>13. PICK m : m = DestroyIn(e, k)
  OBVIOUS
<1>14. Grows(L, e, m) /\ Sound(L, m) /\ m.cur = e.cur - Extra(k)
  <2>1. L + Extra(k) <= e.cur /\ (k.alloc => k.id = e.cur - 1)
    BY <1>2, <1>4, <1>11, <1>12 DEF Extra
  <2>2. Grows(L, e, m) /\ m.cur = e.cur - Extra(k)
    BY <1>4, <1>10, <1>13, <2>1, DestroysIn
  <2> QED
    BY <2>2 DEF Grows
<1>15. PICK h : h = DestroyIn(m, a)
  OBVIOUS
<1>16. Grows(L, m, h) /\ h.cur = m.cur - Extra(a)
  <2>1. L + Extra(a) <= m.cur /\ (a.alloc => a.id = m.cur - 1)
    BY <1>2, <1>11, <1>12, <1>14 DEF Extra
  <2> QED
    BY <1>2, <1>14, <1>15, <2>1, DestroysIn
<1>17. h.cur = g.cur
  BY <1>11, <1>12, <1>14, <1>16
<1>18. Grows(L, g, h)
  <2>1. Grows(L, g, e)
    BY <1>8, <1>10, Further
  <2>2. Grows(L, g, m)
    BY <1>14, <2>1, Further
  <2> QED
    BY <1>16, <2>2, Further
<1>19. Assign(E, g, s) = h
  BY <1>1, <1>3, <1>5, <1>6, <1>9, <1>13, <1>15 DEF Assign
<1> QED
  BY <1>17, <1>18, <1>19, GrowsDone

LEMMA AssignTrue ==
  ASSUME NEW L \in Nat, NEW E, NEW X, Contract(L, E, X), NEW s, s.line \in Nat, s.right \in X,
         s.left \in Variables(L) \cup Elements(X), NEW g, Sound(L, g)
  PROVE  Done(L, g, Assign(E, g, s))
<1>1. \/ s.left.t = "Local" /\ s.left.i \in 0 .. L - 1
      \/ s.left.t = "Global" /\ s.left.i \in 0 .. MaxIndex
      \/ s.left.t = "IndexOf" /\ s.left.array \in X /\ s.left.index \in X
  BY DEF Variables, Elements
<1> QED
  BY <1>1, LocalAssigned, GlobalAssigned, ElementAssigned

(* Blocks. *)
BlockStates(S, g, stmts, B) ==
  B = [n \in 0 .. Len(stmts) |-> IF n = 0 THEN g ELSE VisitStmt(S, B[n - 1], stmts[n])]

LEMMA BlockExists ==
  ASSUME NEW L \in Nat, NEW S, NEW Y, SContract(L, S, Y), NEW stmts \in Seq(Y), NEW g, Sound(L, g)
  PROVE  \E B : BlockStates(S, g, stmts, B)
<1>1. PICK N \in Nat : N = Len(stmts) /\ \A n \in 1 .. N : stmts[n] \in Y
  OBVIOUS
<1>2. PICK G : G = [n \in Nat |-> [x \in Sounds(L) |->
                     IF n + 1 \in 1 .. N THEN VisitStmt(S, x, stmts[n + 1]) ELSE x]]
  OBVIOUS
<1>3. G \in [Nat -> [Sounds(L) -> Sounds(L)]]
  <2>1. ASSUME NEW n \in Nat, NEW x \in Sounds(L), n + 1 \in 1 .. N
        PROVE  VisitStmt(S, x, stmts[n + 1]) \in Sounds(L)
    <3>1. Sound(L, x) /\ stmts[n + 1] \in Y \cup {Nothing}
      BY <1>1, <2>1 DEF Sounds
    <3>2. Done(L, x, VisitStmt(S, x, stmts[n + 1]))
      BY <3>1, OptionalTrue
    <3> QED
      BY <3>2 DEF Done, Sounds, Sound
  <2> QED
    BY <1>2, <2>1
<1>4. g \in Sounds(L)
  BY DEF Sounds, Sound
<1>5. PICK f : Exprs!Iterates(f, Sounds(L), g, G)
  BY <1>3, <1>4, Exprs!Iteration
<1>6. f \in [Nat -> Sounds(L)] /\ f[0] = g /\ \A n \in Nat : f[n + 1] = G[n][f[n]]
  BY <1>5 DEF Exprs!Iterates
<1>7. PICK B : B = [n \in 0 .. N |-> f[n]]
  OBVIOUS
<1>8. ASSUME NEW n \in 0 .. N PROVE B[n] = IF n = 0 THEN g ELSE VisitStmt(S, B[n - 1], stmts[n])
  <2>1. CASE n = 0
    BY <1>6, <1>7, <2>1
  <2>2. CASE n # 0
    <3>1. n - 1 \in Nat /\ n - 1 \in 0 .. N /\ n - 1 + 1 = n /\ n \in 1 .. N
      BY <2>2
    <3>2. f[n] = G[n - 1][f[n - 1]] /\ f[n - 1] \in Sounds(L)
      BY <1>6, <3>1
    <3>3. G[n - 1][f[n - 1]] = VisitStmt(S, f[n - 1], stmts[n])
      BY <1>2, <3>1, <3>2
    <3> QED
      BY <1>7, <2>2, <3>1, <3>2, <3>3
  <2> QED
    BY <2>1, <2>2
<1>9. B = [n \in 0 .. N |-> IF n = 0 THEN g ELSE VisitStmt(S, B[n - 1], stmts[n])]
  BY <1>7, <1>8
<1> QED
  BY <1>1, <1>9 DEF BlockStates

LEMMA BlockTrue ==
  ASSUME NEW L \in Nat, NEW S, NEW Y, SContract(L, S, Y), NEW stmts \in Seq(Y), NEW g, Sound(L, g)
  PROVE  Done(L, g, Block(S, g, stmts))
<1>1. PICK N \in Nat : N = Len(stmts) /\ \A n \in 1 .. N : stmts[n] \in Y
  OBVIOUS
<1>2. PICK B : B = CHOOSE V : BlockStates(S, g, stmts, V)
  OBVIOUS
<1>3. BlockStates(S, g, stmts, B)
  BY <1>2, BlockExists
<1>4. Block(S, g, stmts) = B[N]
  BY <1>1, <1>2 DEF Block, BlockStates
<1>5. B[0] = g /\ \A n \in 1 .. N : B[n] = VisitStmt(S, B[n - 1], stmts[n])
  <2>1. B = [n \in 0 .. N |-> IF n = 0 THEN g ELSE VisitStmt(S, B[n - 1], stmts[n])]
    BY <1>1, <1>3 DEF BlockStates
  <2> QED
    BY <2>1
<1> DEFINE Bad == {n \in 0 .. N : ~ Done(L, g, B[n])}
<1>6. Bad = {}
  <2> SUFFICES ASSUME Bad # {} PROVE FALSE
    OBVIOUS
  <2>1. PICK m \in Bad : \A n \in Bad : m <= n
    <3>1. Bad \in SUBSET Nat
      OBVIOUS
    <3> HIDE DEF Bad
    <3> QED
      BY <3>1, Exprs!Least
  <2>2. m # 0
    <3>1. Done(L, g, g)
      BY Stays DEF Done
    <3> QED
      BY <1>5, <2>1, <3>1
  <2>3. m \in 1 .. N /\ m - 1 \in 0 .. N /\ ~ (m <= m - 1)
    BY <2>1, <2>2
  <2>4. PICK x : x = B[m - 1]
    OBVIOUS
  <2>5. Done(L, g, x) /\ Sound(L, x) /\ stmts[m] \in Y \cup {Nothing}
    BY <1>1, <2>1, <2>3, <2>4 DEF Done
  <2>6. Done(L, x, VisitStmt(S, x, stmts[m]))
    BY <2>5, OptionalTrue
  <2>7. Done(L, g, B[m])
    BY <1>5, <2>3, <2>4, <2>5, <2>6, DoneThen
  <2> QED
    BY <2>1, <2>7
<1> QED
  BY <1>1, <1>4, <1>6

LEMMA StmtParts ==
  ASSUME NEW L \in Nat, NEW X, NEW Y, NEW s \in StmtsWith(L, X, Y)
  PROVE
    \/ s.t = "Assign" /\ s.line \in Nat /\ s.left \in Variables(L) \cup Elements(X) /\ s.right \in X
    \/ s.t = "CallS" /\ s.callExpr \in X
    \/ s.t = "Block" /\ s.stmts \in Seq(Y)
    \/ s.t = "If" /\ s.line \in Nat /\ s.expr \in X /\ s.ifStmt \in Y \cup {Nothing} /\ s.elseStmt \in Y \cup {Nothing}
    \/ s.t = "For" /\ s.line \in Nat /\ s.second \in X /\ s.first \in Y \cup {Nothing}
         /\ s.last \in Y \cup {Nothing} /\ s.body \in Y \cup {Nothing}
    \/ s.t \in {"Break", "Continue"} /\ s.line \in Nat
    \/ s.t = "Return" /\ s.line \in Nat /\ s.expr \in X \cup {Nothing}
<1>1. CASE s \in [t : {"Assign"}, line : Nat, left : Variables(L) \cup Elements(X), right : X]
  BY <1>1
<1>2. CASE s \in [t : {"CallS"}, line : Nat, callExpr : X]
  BY <1>2
<1>3. CASE s \in [t : {"Block"}, line : Nat, stmts : Seq(Y)]
  BY <1>3
<1>4. CASE s \in [t : {"If"}, line : Nat, expr : X, ifStmt : Y \cup {Nothing}, elseStmt : Y \cup {Nothing}]
  BY <1>4
<1>5. CASE s \in [t : {"For"}, line : Nat, first : Y \cup {Nothing}, second : X, last : Y \cup {Nothing}, body : Y \cup {Nothing}]
  BY <1>5
<1>6. CASE s \in [t : {"Break", "Continue"}, line : Nat]
  BY <1>6
<1>7. CASE s \in [t : {"Return"}, line : Nat, expr : X \cup {Nothing}]
  BY <1>7
<1> QED
  BY <1>1, <1>2, <1>3, <1>4, <1>5, <1>6, <1>7 DEF StmtsWith

LEMMA StmtTrue ==
  ASSUME NEW L \in Nat, NEW E, NEW X, Contract(L, E, X), NEW S, NEW Y, SContract(L, S, Y),
         NEW s \in StmtsWith(L, X, Y), NEW g, Sound(L, g)
  PROVE  Done(L, g, Stmt(E, S, g, s))
<1>1. CASE s.t = "Assign" /\ s.line \in Nat /\ s.left \in Variables(L) \cup Elements(X) /\ s.right \in X
  <2>1. Stmt(E, S, g, s) = Assign(E, g, s)
    <3>1. /\ s.t = "Assign"
          /\ s.t # "CallS" /\ s.t # "Block" /\ s.t # "If"
          /\ s.t # "For" /\ s.t \notin {"Break", "Continue"} /\ s.t # "Return"
      BY <1>1
    <3> QED
      BY <3>1, Zenon DEF Stmt
  <2> QED
    BY <1>1, <2>1, AssignTrue
<1>2. CASE s.t = "CallS" /\ s.callExpr \in X
  <2>1. Stmt(E, S, g, s) = Destroy(Visit(E, g, s.callExpr, None))
    <3>1. /\ s.t = "CallS"
          /\ s.t # "Assign" /\ s.t # "Block" /\ s.t # "If"
          /\ s.t # "For" /\ s.t \notin {"Break", "Continue"} /\ s.t # "Return"
      BY <1>2
    <3> QED
      BY <3>1, Zenon DEF Stmt
  <2>2. Done(L, g, Destroy(Visit(E, g, s.callExpr, None)))
    BY <1>2, TestTrue
  <2> QED
    BY <2>1, <2>2
<1>3. CASE s.t = "Block" /\ s.stmts \in Seq(Y)
  <2>1. Stmt(E, S, g, s) = Block(S, g, s.stmts)
    <3>1. /\ s.t = "Block"
          /\ s.t # "Assign" /\ s.t # "CallS" /\ s.t # "If"
          /\ s.t # "For" /\ s.t \notin {"Break", "Continue"} /\ s.t # "Return"
      BY <1>3
    <3> QED
      BY <3>1, Zenon DEF Stmt
  <2> QED
    BY <1>3, <2>1, BlockTrue
<1>4. CASE s.t = "If" /\ s.line \in Nat /\ s.expr \in X /\ s.ifStmt \in Y \cup {Nothing} /\ s.elseStmt \in Y \cup {Nothing}
  <2>1. Stmt(E, S, g, s) = IfStmt(E, S, g, s)
    <3>1. /\ s.t = "If"
          /\ s.t # "Assign" /\ s.t # "CallS" /\ s.t # "Block"
          /\ s.t # "For" /\ s.t \notin {"Break", "Continue"} /\ s.t # "Return"
      BY <1>4
    <3> QED
      BY <3>1, Zenon DEF Stmt
  <2> QED
    BY <1>4, <2>1, IfTrue
<1>5. CASE s.t = "For" /\ s.line \in Nat /\ s.second \in X /\ s.first \in Y \cup {Nothing}
         /\ s.last \in Y \cup {Nothing} /\ s.body \in Y \cup {Nothing}
  <2>1. Stmt(E, S, g, s) = ForStmt(E, S, g, s)
    <3>1. /\ s.t = "For"
          /\ s.t # "Assign" /\ s.t # "CallS" /\ s.t # "Block"
          /\ s.t # "If" /\ s.t \notin {"Break", "Continue"} /\ s.t # "Return"
      BY <1>5
    <3> QED
      BY <3>1, Zenon DEF Stmt
  <2> QED
    BY <1>5, <2>1, ForTrue
<1>6. CASE s.t \in {"Break", "Continue"} /\ s.line \in Nat
  <2>1. Stmt(E, S, g, s) = JumpStmt(g, s)
    <3>1. /\ s.t \in {"Break", "Continue"}
          /\ s.t # "Assign" /\ s.t # "CallS" /\ s.t # "Block"
          /\ s.t # "If" /\ s.t # "For" /\ s.t # "Return"
      BY <1>6
    <3> QED
      BY <3>1, Zenon DEF Stmt
  <2>2. s.t \in Kinds
    BY <1>6 DEF Kinds
  <2> QED
    BY <1>6, <2>1, <2>2, JumpStmtTrue
<1>7. CASE s.t = "Return" /\ s.line \in Nat /\ s.expr \in X \cup {Nothing}
  <2>1. Stmt(E, S, g, s) = JumpStmt(IF s.expr = Nothing THEN MoveNil(g, s.line)
              ELSE Destroy(Visit(E, g, s.expr, fromLocal(0))), s)
    <3>1. /\ s.t = "Return"
          /\ s.t # "Assign" /\ s.t # "CallS" /\ s.t # "Block"
          /\ s.t # "If" /\ s.t # "For" /\ s.t \notin {"Break", "Continue"}
      BY <1>7
    <3> QED
      BY <3>1, Zenon DEF Stmt
  <2>2. s.t \in Kinds
    BY <1>7 DEF Kinds
  <2>3. PICK h : h = IF s.expr = Nothing THEN MoveNil(g, s.line)
                     ELSE Destroy(Visit(E, g, s.expr, fromLocal(0)))
    OBVIOUS
  <2>4. Done(L, g, h) /\ Sound(L, h)
    <3>1. CASE s.expr = Nothing
      <4>1. Done(L, g, MoveNil(g, s.line)) /\ h = MoveNil(g, s.line)
        BY <1>7, <2>3, <3>1, MoveNilTrue
      <4> QED
        BY <4>1 DEF Done
    <3>2. CASE s.expr # Nothing
      <4>1. s.expr \in X /\ Usable(g, 0)
        BY <1>7, <3>2 DEF Usable, Good
      <4>2. h = Destroy(Visit(E, g, s.expr, 0))
        BY <2>3, <3>2 DEF fromLocal
      <4>3. Grows(L, g, h) /\ h.cur = g.cur
        BY <4>1, <4>2, VisitingInto
      <4> QED
        BY <4>3, GrowsDone DEF Done
    <3> QED
      BY <3>1, <3>2
  <2>5. Done(L, h, JumpStmt(h, s))
    BY <1>7, <2>2, <2>4, JumpStmtTrue
  <2> QED
    BY <2>1, <2>3, <2>4, <2>5, DoneThen
<1> QED
  BY <1>1, <1>2, <1>3, <1>4, <1>5, <1>6, <1>7, StmtParts

(* Statements of every height. *)
LEMMA StmtsTrue ==
  ASSUME NEW L \in Nat, NEW n \in Nat
  PROVE  SContract(L, StmtVisitor[n][L], StmtsOf[n][L])
<1> DEFINE Bad == {k \in Nat : ~ SContract(L, StmtVisitor[k][L], StmtsOf[k][L])}
<1>1. Bad = {}
  <2> SUFFICES ASSUME Bad # {} PROVE FALSE
    OBVIOUS
  <2>1. PICK m \in Bad : \A k \in Bad : m <= k
    <3>1. Bad \in SUBSET Nat
      OBVIOUS
    <3> HIDE DEF Bad
    <3> QED
      BY <3>1, Exprs!Least
  <2>2. m # 0
    <3>1. StmtsOf[0][L] = {}
      BY StmtsByHeight
    <3>2. SContract(L, StmtVisitor[0][L], StmtsOf[0][L])
      BY <3>1 DEF SContract
    <3> QED
      BY <2>1, <3>2
  <2>3. PICK k \in Nat : m = k + 1
    BY <2>1, <2>2
  <2>4. SContract(L, StmtVisitor[k][L], StmtsOf[k][L])
    <3>1. ~ (m <= k)
      BY <2>3
    <3> QED
      BY <2>1, <3>1
  <2>5. ASSUME NEW s \in StmtsOf[m][L], NEW g, Sound(L, g)
        PROVE  Done(L, g, StmtVisitor[m][L][s][g])
    <3>1. StmtsOf[m][L] = StmtsWith(L, ExprsOf[MaxHeight][L], StmtsOf[k][L])
      BY <2>3, StmtsByHeight
    <3>2. g \in Generators
      BY <2>5 DEF Sound
    <3>3. StmtVisitor[m][L][s][g]
            = Stmt(ExprVisitor[MaxHeight][L], StmtVisitor[k][L], g, s)
      BY <2>3, <2>5, <3>2, StmtVisitorByHeight
    <3>4. Contract(L, ExprVisitor[MaxHeight][L], ExprsOf[MaxHeight][L])
      BY ExprsTrue, CodeGenAssumption
    <3>5. s \in StmtsWith(L, ExprsOf[MaxHeight][L], StmtsOf[k][L])
      BY <2>5, <3>1
    <3>6. Done(L, g, Stmt(ExprVisitor[MaxHeight][L], StmtVisitor[k][L], g, s))
      BY <2>4, <2>5, <3>4, <3>5, StmtTrue
    <3> QED
      BY <3>3, <3>6
  <2>6. SContract(L, StmtVisitor[m][L], StmtsOf[m][L])
    BY <2>5 DEF SContract
  <2> QED
    BY <2>1, <2>6
<1> QED
  BY <1>1

(* A body: nothing but its locals is in use at its end. *)
LEMMA NewSound ==
  ASSUME NEW L \in Nat
  PROVE  Sound(L, New(L))
<1>1. PICK g : g = New(L)
  OBVIOUS
<1>2. /\ g \in Generators /\ g.codes = <<>> /\ g.ip2line = <<>> /\ g.localCount = L
      /\ g.cur = L /\ g.max = L
  BY <1>1 DEF New, Generators
<1>3. CodesTrue(g.codes, g.ip2line, g.max)
  BY <1>2 DEF CodesTrue
<1> QED
  BY <1>1, <1>2, <1>3 DEF Sound

LEMMA LinesTrue ==
  ASSUME NEW L \in Nat, NEW X, NEW Y, NEW s \in StmtsWith(L, X, Y)
  PROVE  s.line \in Nat
BY DEF StmtsWith

LEMMA TreeLine ==
  ASSUME NEW L \in Nat, NEW n \in Nat, NEW tree \in StmtsOf[n][L]
  PROVE  tree.line \in Nat
<1>1. n # 0
  BY StmtsByHeight
<1>2. PICK k \in Nat : n = k + 1
  <2>1. n - 1 \in Nat /\ n = n - 1 + 1
    BY <1>1
  <2> QED
    BY <2>1
<1>3. tree \in StmtsWith(L, ExprsOf[MaxHeight][L], StmtsOf[k][L])
  BY <1>2, StmtsByHeight
<1> QED
  BY <1>3, LinesTrue

LEMMA BodyTrue ==
  ASSUME NEW L \in Nat, NEW tree \in StmtsOf[MaxHeight][L]
  PROVE  LET f == emitCode(L, tree)
         IN  Sound(L, f) /\ f.cur = L /\ (f.ok \/ TooLarge(f))
<1>1. PICK g : g = New(L)
  OBVIOUS
<1>2. Sound(L, g) /\ g.cur = L /\ g.ok
  BY <1>1, NewSound DEF New
<1>3. PICK S : S = StmtVisitor[MaxHeight][L]
  OBVIOUS
<1>4. SContract(L, S, StmtsOf[MaxHeight][L]) /\ tree \in StmtsOf[MaxHeight][L] \cup {Nothing}
  BY <1>3, StmtsTrue, CodeGenAssumption
<1>5. PICK b : b = VisitStmt(S, g, tree)
  OBVIOUS
<1>6. Done(L, g, b) /\ Sound(L, b)
  BY <1>2, <1>4, <1>5, OptionalTrue DEF Done
<1>7. PICK m : m = MoveNil(b, tree.line)
  OBVIOUS
<1>8. Done(L, b, m) /\ Sound(L, m)
  <2>1. tree.line \in Nat
    BY TreeLine, CodeGenAssumption
  <2> QED
    BY <1>6, <1>7, <2>1, MoveNilTrue DEF Done
<1>9. PICK f : f = POST_EMIT_JUMPS(m, "Return")
  OBVIOUS
<1>10. Sound(L, f) /\ f.cur = m.cur /\ Done(L, m, f)
  <2>1. "Return" \in Kinds
    BY DEF Kinds
  <2>2. Grows(L, m, f) /\ f.cur = m.cur
    BY <1>8, <1>9, <2>1, Lands
  <2> QED
    BY <2>2, GrowsDone DEF Grows
<1>12. f.ok \/ TooLarge(f)
  <2>1. Done(L, g, m)
    BY <1>2, <1>6, <1>8, DoneThen
  <2>2. Done(L, g, f)
    BY <1>2, <1>10, <2>1, DoneThen
  <2> QED
    BY <1>2, <2>2 DEF Done, Grows
<1>11. emitCode(L, tree) = f
  BY <1>1, <1>3, <1>5, <1>7, <1>9 DEF emitCode
<1> QED
  BY <1>2, <1>6, <1>8, <1>10, <1>11, <1>12 DEF Done

-----------------------------------------------------------------------------
(* The machine stays inside the code, and its window is the one reserved.   *)

(* The code of the body is sound, no temporary is in use at its end, and no *)
(* ASSERT has failed if all fits.                                           *)
FuncTrue ==
  /\ Sound(func.localCount, func) /\ func.localCount \in Nat
  /\ func.cur = func.localCount /\ (func.ok \/ TooLarge(func))

Inside ==
  /\ ip \in 0 .. Len(func.codes) /\ DOMAIN locals = Slots(func)
  /\ phase \in {"run", "done", "failed", "refused"} /\ (phase = "run" => func.ok)

IInv == FuncTrue /\ Inside

LEMMA JumpTarget ==
  ASSUME NEW c, NEW m \in Nat, NEW n \in Nat, IsWord(c), InstrTrue(c, m, n)
  PROVE  /\ Op(c) = "Jump" => Decode(c, 1) \in 0 .. n
         /\ Op(c) \in Tests => Decode(c, 2) \in 0 .. n
<1>1. \A k \in 1 .. 4 : c[k] \in 0 .. 255
  BY DEF InstrTrue
<1>2. ASSUME Op(c) = "Jump" PROVE Decode(c, 1) \in 0 .. n
  <2>1. Fields("Jump") = <<16>>
    BY Widths
  <2>2. Decode(c, 1) = c[2] + 256 * c[3]
    BY <1>2, <2>1 DEF Decode
  <2>3. PICK a, b : a = c[2] /\ b = c[3] /\ a \in 0 .. 255 /\ b \in 0 .. 255
    <3>1. c[2] \in 0 .. 255 /\ c[3] \in 0 .. 255
      BY <1>1
    <3> QED
      BY <3>1
  <2>4. Decode(c, 1) \in Nat
    BY <2>2, <2>3
  <2>5. Decode(c, 1) <= n
    BY <1>2 DEF InstrTrue
  <2> QED
    BY <2>4, <2>5
<1>3. ASSUME Op(c) \in Tests PROVE Decode(c, 2) \in 0 .. n
  <2>1. Fields(Op(c)) = <<8, 16>>
    BY <1>3, Widths
  <2>2. Decode(c, 2) = c[3] + 256 * c[4]
    BY <2>1 DEF Decode
  <2>3. PICK a, b : a = c[3] /\ b = c[4] /\ a \in 0 .. 255 /\ b \in 0 .. 255
    <3>1. c[3] \in 0 .. 255 /\ c[4] \in 0 .. 255
      BY <1>1
    <3> QED
      BY <3>1
  <2>4. Decode(c, 2) \in Nat
    BY <2>2, <2>3
  <2>5. Decode(c, 2) <= n
    BY <1>3 DEF InstrTrue
  <2> QED
    BY <2>4, <2>5
<1> QED
  BY <1>2, <1>3

LEMMA CodeNow ==
  ASSUME FuncTrue, func.ok, ip \in Nat, ip < Len(func.codes)
  PROVE  /\ Len(func.codes) \in Nat /\ func.max \in Nat
         /\ IsWord(code) /\ InstrTrue(code, func.max, Len(func.codes))
<1>1. Len(func.codes) \in Nat /\ ip + 1 \in 1 .. Len(func.codes)
  BY DEF FuncTrue, Sound, Generators
<1>2. func.max \in Nat
  BY Numbers DEF FuncTrue
<1> QED
  BY <1>1, <1>2 DEF FuncTrue, Sound, CodesTrue, code

LEMMA InitTrue == Init => IInv
<1> SUFFICES ASSUME Init PROVE IInv
  OBVIOUS
<1>1. PICK p \in Programs : \E f \in [0 .. p.localCount - 1 -> Starts] :
        /\ func = emitCode(p.localCount, p.tree)
        /\ locals = [i \in Slots(func) |-> IF i \in DOMAIN f THEN f[i] ELSE Junk]
  BY DEF Init
<1>2. PICK L \in Nat : L = p.localCount /\ p.tree \in StmtsOf[MaxHeight][L]
  BY BytecodeAssumption
<1>3. Sound(L, func) /\ func.cur = L /\ (func.ok \/ TooLarge(func))
  BY <1>1, <1>2, BodyTrue
<1>4. FuncTrue
  BY <1>3 DEF FuncTrue, Sound
<1>5. DOMAIN locals = Slots(func)
  BY <1>1
<1>6. ip = 0 /\ phase = (IF func.ok THEN "run" ELSE "refused")
  BY DEF Init
<1>7. Len(func.codes) \in Nat
  BY <1>3 DEF Sound, Generators
<1> QED
  BY <1>4, <1>5, <1>6, <1>7 DEF IInv, Inside

(* A step to the next instruction. *)
LEMMA GoTrue ==
  ASSUME IInv, phase = "run", ip < Len(func.codes), Go, DOMAIN locals' = DOMAIN locals
  PROVE  IInv'
<1>1. func' = func /\ phase' = phase /\ ip' = ip + 1
  BY DEF Go
<1>2. FuncTrue' /\ Len(func.codes) \in Nat
  BY <1>1 DEF IInv, FuncTrue, Sound, Generators, TooLarge, Off
<1>3. Inside'
  BY <1>1, <1>2 DEF IInv, Inside
<1> QED
  BY <1>2, <1>3 DEF IInv

LEMMA JumpsTrue ==
  ASSUME IInv, Jump
  PROVE  IInv'
<1>1. func' = func /\ phase' = phase /\ locals' = locals /\ phase = "run" /\ ip < Len(func.codes)
  BY DEF Jump, AtAny, At
<1>2. Op(code) = "Jump" \/ Op(code) \in Tests
  BY DEF Jump, AtAny, At, Tests
<1>3. ip \in Nat /\ func.ok /\ FuncTrue
  BY <1>1 DEF IInv, Inside
<1>4. /\ Len(func.codes) \in Nat /\ func.max \in Nat
      /\ IsWord(code) /\ InstrTrue(code, func.max, Len(func.codes))
  BY <1>1, <1>3, CodeNow
<1>5. /\ Op(code) = "Jump" => field(1) \in 0 .. Len(func.codes)
      /\ Op(code) \in Tests => field(2) \in 0 .. Len(func.codes)
  BY <1>4, JumpTarget DEF field
<1>6. ip' = ip + 1 \/ ip' = (IF At("Jump") THEN field(1) ELSE field(2))
  BY DEF Jump
<1>7. ip' \in 0 .. Len(func.codes)
  <2>1. CASE Op(code) = "Jump"
    <3>1. At("Jump")
      BY <1>1, <2>1 DEF At
    <3> QED
      BY <1>1, <1>3, <1>4, <1>5, <1>6, <2>1, <3>1
  <2>2. CASE Op(code) \in Tests
    <3>1. ~ At("Jump")
      BY <2>2 DEF At, Tests
    <3> QED
      BY <1>1, <1>3, <1>4, <1>5, <1>6, <2>2, <3>1
  <2> QED
    BY <1>2, <2>1, <2>2
<1>8. FuncTrue'
  BY <1>1, <1>3 DEF FuncTrue, TooLarge, Off
<1>9. Inside'
  BY <1>1, <1>7 DEF IInv, Inside
<1> QED
  BY <1>8, <1>9 DEF IInv

LEMMA NextTrue == IInv /\ [Next]_vars => IInv'
<1> SUFFICES ASSUME IInv, [Next]_vars PROVE IInv'
  OBVIOUS
<1>1. ASSUME NEW i, NEW v, Put(i, v) PROVE DOMAIN locals' = DOMAIN locals
  BY <1>1 DEF Put
<1>2. CASE Move
  <2>1. phase = "run" /\ ip < Len(func.codes) /\ Go /\ Put(1, toValue(2))
    BY <1>2 DEF Move, At
  <2> QED
    BY <1>1, <2>1, GoTrue
<1>3. CASE NewFunction
  <2>1. phase = "run" /\ ip < Len(func.codes) /\ Go /\ Put(1, <<"Function", field(2)>>)
    BY <1>3 DEF NewFunction, At
  <2> QED
    BY <1>1, <2>1, GoTrue
<1>4. CASE NewArray
  <2>1. phase = "run" /\ ip < Len(func.codes) /\ Go /\ Put(1, <<"Array", Len(arrays) + 1>>)
    BY <1>4 DEF NewArray, At
  <2> QED
    BY <1>1, <2>1, GoTrue
<1>5. CASE Not
  <2>1. phase = "run" /\ ip < Len(func.codes) /\ Go /\ Put(1, Bool(~ getBoolean(toValue(2))))
    BY <1>5 DEF Not, At
  <2> QED
    BY <1>1, <2>1, GoTrue
<1>6. CASE Minus
  <2>1. phase = "run" /\ ip < Len(func.codes) /\ Go /\ Put(1, Number(<<"Minus", toValue(2)[2]>>))
    BY <1>6 DEF Minus, At
  <2> QED
    BY <1>1, <2>1, GoTrue
<1>7. CASE Length
  <2>1. phase = "run" /\ ip < Len(func.codes) /\ Go /\ Put(1, Number(<<"lit", Len(arrays[toValue(2)[2]])>>))
    BY <1>7 DEF Length, At
  <2> QED
    BY <1>1, <2>1, GoTrue
<1>8. CASE Calculate
  <2>1. phase = "run" /\ ip < Len(func.codes) /\ Go /\ Put(1, Arith(Op(code), toValue(2), toValue(3)))
    BY <1>8 DEF Calculate, AtAny, At
  <2> QED
    BY <1>1, <2>1, GoTrue
<1>9. ASSUME NEW b \in BOOLEAN, Compare(b) PROVE IInv'
  <2>1. phase = "run" /\ ip < Len(func.codes) /\ Go /\ Put(1, Bool(b))
    BY <1>9 DEF Compare, AtAny, At
  <2> QED
    BY <1>1, <2>1, GoTrue
<1>10. ASSUME NEW v \in Answers, GetGlobal(v) PROVE IInv'
  <2>1. phase = "run" /\ ip < Len(func.codes) /\ Go /\ Put(1, v)
    BY <1>10 DEF GetGlobal, At
  <2> QED
    BY <1>1, <2>1, GoTrue
<1>11. ASSUME NEW v \in Answers, Call(v) PROVE IInv'
  <2>1. phase = "run" /\ ip < Len(func.codes) /\ Go /\ DOMAIN locals' = DOMAIN locals
    BY <1>11 DEF Call, At
  <2> QED
    BY <2>1, GoTrue
<1>12. CASE SetGlobal \/ SetArray
  <2>1. phase = "run" /\ ip < Len(func.codes) /\ Go /\ locals' = locals
    BY <1>12 DEF SetGlobal, SetArray, At
  <2> QED
    BY <2>1, GoTrue
<1>13. CASE GetArray
  <2>1. phase = "run" /\ ip < Len(func.codes) /\ Go
        /\ Put(1, arrays[toValue(2)[2]][toValue(3)[2][2] + 1])
    BY <1>13 DEF GetArray, At
  <2> QED
    BY <1>1, <2>1, GoTrue
<1>14. CASE Jump
  BY <1>14, JumpsTrue
<1>15. CASE Throw \/ Return \/ Stopped \/ UNCHANGED vars
  <2>1. /\ func' = func /\ ip' = ip /\ locals' = locals
        /\ phase' = phase \/ phase' \in {"done", "failed"}
    BY <1>15 DEF Throw, Return, Stopped, vars
  <2>2. FuncTrue'
    BY <2>1 DEF IInv, FuncTrue, TooLarge, Off
  <2>3. Inside'
    BY <2>1 DEF IInv, Inside
  <2> QED
    BY <2>2, <2>3 DEF IInv
<1> QED
  BY <1>2, <1>3, <1>4, <1>5, <1>6, <1>7, <1>8, <1>9, <1>10, <1>11, <1>12, <1>13, <1>14, <1>15 DEF Next

(* The code of every body whose generation no ASSERT stopped is words of    *)
(* four bytes, and the machine that runs it stays inside it and has the     *)
(* window it was promised: emitCode and Interpreter::execute.               *)
THEOREM CodeHasItsType == Spec => [](func.ok => TypeOK)
<1>1. IInv => (func.ok => TypeOK)
  <2> SUFFICES ASSUME IInv, func.ok PROVE TypeOK
    OBVIOUS
  <2>1. Len(ByteCodeType) = 26
    BY DEF ByteCodeType
  <2>2. ASSUME NEW i \in DOMAIN func.codes
        PROVE  /\ Len(func.codes[i]) = 4 /\ func.codes[i][1] < Len(ByteCodeType)
               /\ \A k \in 1 .. 4 : func.codes[i][k] \in 0 .. 255
    <3>1. i \in 1 .. Len(func.codes)
      BY DEF IInv, FuncTrue, Sound, Generators
    <3>2. IsWord(func.codes[i]) /\ InstrTrue(func.codes[i], func.max, Len(func.codes))
      BY <3>1 DEF IInv, FuncTrue, Sound, CodesTrue
    <3>3. Len(func.codes[i]) = 4 /\ func.codes[i][1] < 26
      <4>1. Len(func.codes[i]) = 4 /\ func.codes[i][1] \in 0 .. 25
        BY <3>2, Zenon DEF IsWord
      <4>2. \A k \in 0 .. 25 : k < 26
        OBVIOUS
      <4> QED
        BY <4>1, <4>2, Zenon
    <3>4. \A k \in 1 .. 4 : func.codes[i][k] \in 0 .. 255
      BY <3>2 DEF InstrTrue
    <3> QED
      BY <2>1, <3>3, <3>4
  <2> QED
    BY <2>2 DEF TypeOK, IInv, Inside
<1> QED
  BY <1>1, InitTrue, NextTrue, PTL DEF Spec

(* In the code of every body whose generation no ASSERT stopped, of any     *)
(* number of locals and any height, all temporaries have been given back,   *)
(* every operand and every window is inside the slots reserved, every call  *)
(* is followed by an instruction of its line, and every jump lands in the   *)
(* code: emitCode and the visitors of ByteCode.cpp.                         *)
THEOREM CodeIsBalanced == Spec => [](func.ok => GeneratorBalanced)
<1>1. IInv => (func.ok => GeneratorBalanced)
  <2> SUFFICES ASSUME IInv, func.ok PROVE GeneratorBalanced
    OBVIOUS
  <2>1. ASSUME NEW i \in DOMAIN func.codes
        PROVE  /\ i \in 1 .. Len(func.codes)
               /\ InstrTrue(func.codes[i], func.max, Len(func.codes))
               /\ Op(func.codes[i]) = "Call" =>
                    i < Len(func.codes) /\ func.ip2line[i + 1] = func.ip2line[i]
    <3>1. i \in 1 .. Len(func.codes)
      BY DEF IInv, FuncTrue, Sound, Generators
    <3> QED
      BY <3>1 DEF IInv, FuncTrue, Sound, CodesTrue
  <2>2. CallsAreFollowed
    BY <2>1 DEF CallsAreFollowed, InstrTrue, Tests
  <2>3. \A i \in DOMAIN func.codes : \A id \in Named(func.codes[i]) :
          id < 128 => index(id) \in 0 .. func.max - 1 \cup {0}
    BY <2>1 DEF InstrTrue
  <2> QED
    BY <2>2, <2>3 DEF GeneratorBalanced, IInv, FuncTrue
<1> QED
  BY <1>1, InitTrue, NextTrue, PTL DEF Spec

(* No ASSERT of the generator fails for a body, of any number of locals and *)
(* any height, that fits: at most 64 slots, offsets of 16 bits, indexes of  *)
(* 7.  In particular temporaries are given back last first: allocID, freeID *)
(* and the ENCODE macros.                                                   *)
THEOREM CodeIsMade == Spec => [](~ TooLarge(func) => TypeOK /\ GeneratorBalanced)
<1>1. IInv => (~ TooLarge(func) => func.ok)
  BY DEF IInv, FuncTrue
<1>2. Spec => [](func.ok => TypeOK)
  BY CodeHasItsType
<1>3. Spec => [](func.ok => GeneratorBalanced)
  BY CodeIsBalanced
<1> QED
  BY <1>1, <1>2, <1>3, InitTrue, NextTrue, PTL DEF Spec
=============================================================================
