------------------------------- MODULE Grammar --------------------------------
(***************************************************************************)
(* The parser rules of JSMinus.g: what each matches and what its actions do *)
(* with the trees they build.  A rule is a sequence of items; an item says  *)
(* what is matched and, in acts, what the actions after it do:              *)
(*                                                                         *)
(*   pass        the value of the rule called becomes this rule's          *)
(*   need, may   it becomes part of the tree made next; a tree with NULL   *)
(*               where one is needed has a hole                            *)
(*   add         a statement that is not NULL joins the list               *)
(*   append      an expression, NULL or not, joins the list                *)
(*   line        value->line is read of the value of the rule called       *)
(*   ownLine     value->line is read of this rule's own value              *)
(*   operator    the operator matched is kept for the action of the rule   *)
(*   compound    unless the operator kept is '=', value->line is read of   *)
(*               the expression, and the operator must be one              *)
(*   call, ...   any other word: a tree of that kind is the value          *)
(*                                                                         *)
(* and the actions that keep the symbol tables and emit code.               *)
(***************************************************************************)
EXTENDS Naturals, Sequences

Item(op, arg, acts) == [op |-> op, arg |-> arg, acts |-> acts]
Tok(t)       == Item("tok", t, <<>>)          \* matchToken
TokDo(t, as) == Item("tok", t, as)
Set(S)       == Item("set", S, <<>>)          \* a set of tokens, matched inline
SetDo(S, as) == Item("set", S, as)
Ref(r, as)   == Item("ref", r, as)            \* the call of a rule
Opt(s)       == Item("opt", s, <<>>)
Star(s)      == Item("star", s, <<>>)
Pred(s)      == Item("pred", s, <<>>)         \* (s)=> s ?
Alts(s)      == Item("alts", s, <<>>)

Binary(rule, ops) ==      \* rule (op rule)*
  <<Ref(rule, <<"pass">>), Star(<<Set(ops), Ref(rule, <<"ownLine", "need", "tree">>)>>)>>

Steps == {"++", "--"}
AssignOps == {"=", "op="}
Constants == {"true", "false", "null", "NUMBER", "STRING"}

(* The alternatives of statement, in the order of the grammar.              *)
StatementAlts ==
  <<(* 1 *) <<Ref("assignment", <<"pass">>)>>,
    (* 2 *) <<Set(Steps), Ref("leftValue", <<"line", "need", "tree">>)>>,
    (* 3 *) <<Ref("funcDefine", <<"pass">>)>>,
    (* 4 *) <<Ref("varDefine", <<"pass">>)>>,
    (* 5 *) <<Ref("rtTypeAtom", <<"assertCall", "need", "tree">>)>>,
    (* 6 *) <<Ref("varDeclares", <<>>)>>,
    (* 7 *) <<TokDo("{", <<"tree", "pushBlock">>), Star(<<Ref("statement", <<"add">>)>>),
              TokDo("}", <<"popBlock">>)>>,
    (* 8 *) <<Tok("if"), Tok("("), Ref("expr", <<"need">>), Tok(")"),
              Ref("statement", <<"may">>),
              Opt(<<Tok("else"), Ref("statement", <<"may">>)>>), Item("do", "", <<"tree">>)>>,
    (* 9 *) <<TokDo("for", <<"pushBlock">>), Tok("("), Opt(<<Ref("forStart", <<"may">>)>>),
              Tok(";"), Opt(<<Ref("expr", <<"may">>)>>), Tok(";"),
              Opt(<<Ref("statement", <<"may">>)>>), Tok(")"),
              Ref("statement", <<"may", "popBlock", "tree">>)>>,
    (* 10 *) <<Tok("while"), Tok("("), Ref("expr", <<"need">>), Tok(")"),
               Ref("statement", <<"may", "tree">>)>>,
    (* 11 *) <<TokDo("break", <<"tree">>)>>,
    (* 12 *) <<TokDo("continue", <<"tree">>)>>,
    (* 13 *) <<Tok("return"), Pred(<<Ref("expr", <<"may">>)>>), Item("do", "", <<"tree">>)>>,
    (* 14 *) <<Tok(";")>> >>

(* Files, statements and functions. *)
StatementRules ==
  [program     |-> <<Star(<<Ref("statement", <<"add">>)>>), TokDo("EOF", <<"popTable", "emit">>)>>,
   statement   |-> <<Item("statement", StatementAlts, <<>>)>>,
   varDeclares |-> <<Tok("var"), Ref("idList", <<>>)>>,
   varDefine   |-> <<Tok("var"), Tok("ID"), Tok("="), Ref("expr", <<"need", "tree">>)>>,
   funcDefine  |-> <<Opt(<<Tok("var")>>), Tok("function"), Tok("ID"),
                     Ref("funcBody", <<"need", "tree">>)>>,
   forStart    |-> <<Alts(<< <<Ref("assignment", <<"pass">>)>>,
                             <<Ref("varDefine", <<"pass">>)>> >>)>>,
   idList      |-> <<Tok("ID"), Star(<<Tok(","), Tok("ID")>>)>>,
   assignment  |-> <<Ref("leftValue", <<"need">>), Ref("assignOp", <<"operator">>),
                     Ref("expr", <<"compound", "need", "tree">>)>>,
   funcBody    |-> <<Tok("("), Opt(<<Ref("idList", <<>>)>>), TokDo(")", <<"pushTable">>),
                     Tok("{"), Star(<<Ref("statement", <<"add">>)>>),
                     TokDo("}", <<"popTable", "emit", "tree">>)>>]

(* Expressions. *)
ExpressionRules ==
  [leftValue   |-> <<Ref("rtTypeAtom", <<"pass", "assertTarget">>)>>,
   arrayExpr   |-> <<Tok("["), Ref("exprList", <<"may">>), TokDo("]", <<"tree">>)>>,
   lambdaExpr  |-> <<Tok("function"), Ref("funcBody", <<"pass">>)>>,
   exprList    |-> <<Alts(<< <<Ref("expr", <<"append">>),
                               Star(<<Tok(","), Ref("expr", <<"append">>)>>)>>, <<>> >>)>>,
   expr        |-> <<Ref("logicExpr", <<"pass">>)>>,
   logicExpr   |-> Binary("relatExpr", {"&&", "||"}),
   relatExpr   |-> Binary("addExpr", {"<", "<=", ">", ">=", "==", "!="}),
   addExpr     |-> Binary("mulExpr", {"+", "-"}),
   mulExpr     |-> Binary("unaryExpr", {"*", "/", "%"}),
   unaryExpr   |-> <<Opt(<<SetDo({"not", "-", "#"}, <<"operator">>)>>),
                     Ref("atom", <<"unary">>)>>,
   atom        |-> <<Alts(<< <<Ref("literalAtom", <<"pass">>)>>, <<Ref("rtTypeAtom", <<"pass">>)>>,
                             <<Tok("("), Ref("expr", <<"pass">>), Tok(")")>> >>)>>,
   literalAtom |-> <<Alts(<< <<SetDo(Constants, <<"tree">>)>>, <<Ref("arrayExpr", <<"pass">>)>>,
                             <<Ref("lambdaExpr", <<"pass">>)>> >>)>>,
   rtTypeAtomHead |-> <<TokDo("ID", <<"name">>)>>,
   rtTypeAtom  |-> <<Ref("rtTypeAtomHead", <<"pass">>),
                     Star(<<Alts(<<
                       <<Tok("("), Ref("exprList", <<"may">>), TokDo(")", <<"call">>)>>,
                       <<Tok("["), Ref("expr", <<"need">>), TokDo("]", <<"index">>)>> >>)>>)>>,
   assignOp    |-> <<SetDo(AssignOps, <<"pass">>)>>]

Rules ==
  [r \in DOMAIN StatementRules \union DOMAIN ExpressionRules |->
     IF r \in DOMAIN StatementRules THEN StatementRules[r] ELSE ExpressionRules[r]]
===============================================================================
