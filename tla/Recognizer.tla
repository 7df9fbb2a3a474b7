------------------------------ MODULE Recognizer -------------------------------
(***************************************************************************)
(* What a generated parser decides and computes without moving: the tokens  *)
(* a rule can begin with, the follow sets it pushes, the alternative it     *)
(* predicts, how a mismatched token is repaired, where it resumes after an  *)
(* error (BaseRecognizer, antlr3baserecognizer.inl), and the actions of the *)
(* grammar.                                                                 *)
(***************************************************************************)
EXTENDS Grammar, Lexer

CONSTANTS
  First(_),      \* the tokens items can begin with, and EOR if they can match nothing
  Try(_, _, _)   \* items under backtracking: [ok, p], whether they match, and how far they get

ASSUME FirstAssumption ==
  "var" \in First(<<Tok("var")>>) /\ First(StatementAlts[13]) = {"return"}

EOR == "EOR"      \* EOR_TOKEN_TYPE: the end of the rule can follow

-------------------------------------------------------------------------------
(* The sets ANTLR lays down in the generated code.                          *)

ChoiceOps == {"alts", "statement"}

(* FOLLOW_..._in_...: what can come after an item within its rule. The end  *)
(* of the file has no bit in a set.                                         *)
LocalFollow(rest) == First(rest) \ {TOKEN_EOF}

-------------------------------------------------------------------------------
(* Predictions. A syntactic predicate runs the rule with backtracking on:   *)
(* no action, no repair; [ok, p] says whether it matched and how far it got.*)

(* An alternative is empty only in exprList; it needs what closes a list.   *)
LL1(alts, la) ==
  {i \in DOMAIN alts : IF alts[i] = <<>> THEN la \in {")", "]"} ELSE la \in First(alts[i])}

TargetAssigned  == <<Ref("leftValue", <<>>), Ref("assignOp", <<>>)>>         \* synpred1
FunctionStarts  == <<Opt(<<Tok("var")>>), Tok("function")>>                  \* synpred2
VariableDefined == <<Tok("var"), Tok("ID"), Tok("=")>>                       \* synpred3

(* Mutant of synpred: the next token decides. *)
synpredShort(tokens, p, items) == LTType(tokens, p, 1) \in First(items)
synpred(tokens, p, items) == Try(tokens, p, items).ok

(* The alternative to take, or 0.                                           *)
predict(tokens, p, alts) ==
  LET fits == LL1(alts, LTType(tokens, p, 1))
  IN IF fits = {} THEN 0 ELSE CHOOSE a \in fits : \A b \in fits : a <= b

(* That of statement, by what the predicates find ahead.                    *)
StatementBy(tokens, p, ahead(_)) ==
  CASE LTType(tokens, p, 1) = "ID"  -> IF ahead(TargetAssigned) THEN 1 ELSE 5
    [] LTType(tokens, p, 1) = "var" -> IF ahead(FunctionStarts) THEN 3
                                       ELSE IF ahead(VariableDefined) THEN 4 ELSE 6
    [] OTHER -> predict(tokens, p, StatementAlts)

predictStatement(tokens, p) == StatementBy(tokens, p, LAMBDA items : synpred(tokens, p, items))

-------------------------------------------------------------------------------
(* Repairs. following is what the open calls pushed: all that can come      *)
(* after the rules the parser is inside of.                                 *)

(* combineFollows, not exact: the union of all, EOR included.               *)
combineFollows(stack) == UNION {stack[i].follow : i \in DOMAIN stack}

mismatchIsUnwantedToken(tokens, p, t) == LTType(tokens, p, 2) = t

mismatchIsMissingToken(tokens, p, follow, stack) ==
  LET viable == IF EOR \in follow THEN (follow \ {EOR}) \union combineFollows(stack) ELSE follow
  IN LTType(tokens, p, 1) \in viable \/ EOR \in viable

(* recover: resume at the first token that can follow an open rule; one     *)
(* that has been the place of an error before is dropped first.             *)
resyncFrom(tokens, p, lastErrorIndex) ==
  IF lastErrorIndex = p THEN consumeToken(tokens, p) ELSE p

-------------------------------------------------------------------------------
(* Actions. A value is NULL or the kind of its tree; scopes is the stack of *)
(* symbol tables, each the number of its open blocks.                       *)

Null == [kind |-> "NULL", hole |-> FALSE]
Kinds == {"NULL", "list", "tree", "name", "index", "call"} \union AssignOps

(* The record of a rule that is running: what it has left to do, its value  *)
(* (hole: a node NULL where one is needed), the same of what joins its next *)
(* tree, the operator kept, and what can follow its call.                   *)
Frame(rule, follow) ==
  [rule |-> rule, todo |-> Rules[rule], operator |-> "", pending |-> FALSE, follow |-> follow,
   val |-> IF rule = "exprList" THEN [Null EXCEPT !.kind = "list"] ELSE Null]

Replaced(s, x) == [s EXCEPT ![Len(s)] = x]

(* One action: env is the frame, the scopes and the phase; ret the value of *)
(* the rule called, or the token matched.  An assignOp that failed starts   *)
(* at the token it did not match and stops at LT(-1), the one before, so    *)
(* that its text is empty, and string2op asserts.                           *)
Act(env, act, ret) ==
  LET f == env.frame
      kept(frame) == [env EXCEPT !.frame = frame]
      broken      == ret.kind = "NULL" \/ ret.hole
      made(kind)  == kept([f EXCEPT !.val = [kind |-> kind, hole |-> @.hole \/ f.pending],
                                    !.pending = FALSE])
      passed      == kept([f EXCEPT !.val = ret])
      stop(phase) == [env EXCEPT !.phase = phase]
      depth       == Last(env.scopes)
  IN CASE act = "pass"     -> passed
       [] act = "need"     -> kept([f EXCEPT !.pending = @ \/ broken])
       [] act = "may"      -> kept([f EXCEPT !.pending = @ \/ ret.hole])
       [] act = "add"      -> kept([f EXCEPT !.val.hole = @ \/ ret.hole])
       [] act = "append"   -> kept([f EXCEPT !.val.hole = @ \/ broken])
       [] act = "operator" -> kept([f EXCEPT !.operator = ret.kind])
       [] act = "unary"    -> IF f.operator = "" THEN passed
                              ELSE kept([f EXCEPT !.val = [kind |-> "tree", hole |-> broken]])
       [] act = "line"     -> IF ret.kind = "NULL" THEN stop("undefined") ELSE env
       [] act = "ownLine"  -> IF f.val.kind = "NULL" THEN stop("undefined") ELSE env
       [] act = "compound" -> IF f.operator = "=" THEN env
                              ELSE IF ret.kind = "NULL" THEN stop("undefined")
                              ELSE IF f.operator = "NULL" THEN stop("assertion")    \* string2op
                              ELSE env
       [] act = "assertCall"   -> IF ret.kind # "call" THEN stop("assertion") ELSE env
       [] act = "assertTarget" -> IF f.val.kind \notin {"name", "index"} THEN stop("assertion") ELSE env
       [] act = "pushTable" -> [env EXCEPT !.scopes = Append(@, 1)]
       [] act = "pushBlock" -> [env EXCEPT !.scopes = Replaced(@, depth + 1)]
       [] act = "popBlock"  -> IF depth = 0 THEN stop("undefined")
                               ELSE [env EXCEPT !.scopes = Replaced(@, depth - 1)]
       [] act = "popTable"  -> CASE depth = 0 -> stop("undefined")
                                 [] depth = 1 -> [env EXCEPT !.scopes = Front(@)]
                                 [] OTHER     -> stop("terminated")
       [] act = "emit" -> IF f.val.hole THEN stop("undefined") ELSE env
       [] act \in {"tree", "name", "index", "call"} -> made(act)

(* The actions after an item; the first to fail is the last.                *)
Acts(env, acts, ret) ==
  LET then(e, act) == IF e.phase = "parse" THEN Act(e, act, ret) ELSE e
      done[n \in 0..Len(acts)] == IF n = 0 THEN env ELSE then(done[n - 1], acts[n])
  IN done[Len(acts)]
===============================================================================
