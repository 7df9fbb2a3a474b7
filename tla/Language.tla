------------------------------- MODULE Language -------------------------------
(***************************************************************************)
(* The language of JSMinus.g: what the generated parser lays down of it -   *)
(* first sets, rules under backtracking - and the references it is judged   *)
(* by: what a lexeme is and which is longest, and which sequences of tokens *)
(* are programs.                                                            *)
(***************************************************************************)
EXTENDS FrontEndProperties

(* The sets of tokens items can begin with; EOR is in one when they can     *)
(* match nothing.                                                           *)
RECURSIVE FirstIn(_, _)
FirstIn(table, items) ==
  IF items = <<>> THEN {EOR}
  ELSE LET i == Head(items)
           first == CASE i.op = "tok" -> {i.arg}
                      [] i.op = "set" -> i.arg
                      [] i.op = "ref" -> table[i.arg]
                      [] i.op \in {"opt", "star", "pred"} -> FirstIn(table, i.arg) \union {EOR}
                      [] i.op \in ChoiceOps -> UNION {FirstIn(table, i.arg[a]) : a \in DOMAIN i.arg}
                      [] i.op = "do" -> {EOR}
       IN IF EOR \in first THEN (first \ {EOR}) \union FirstIn(table, Tail(items)) ELSE first

AtomFirst == Constants \union {"[", "function", "ID", "("}
ExprFirst == AtomFirst \union {"not", "-", "#"}
StatementFirst == Steps \union {"ID", "function", "var", "{", "if", "for", "while", "break",
                               "continue", "return", ";"}
FirstTable ==
  [program |-> StatementFirst \union {TOKEN_EOF}, statement |-> StatementFirst,
   varDeclares |-> {"var"}, varDefine |-> {"var"}, funcDefine |-> {"var", "function"},
   forStart |-> {"ID", "var"}, idList |-> {"ID"}, assignment |-> {"ID"}, funcBody |-> {"("},
   leftValue |-> {"ID"}, arrayExpr |-> {"["}, lambdaExpr |-> {"function"},
   exprList |-> ExprFirst \union {EOR}, expr |-> ExprFirst, logicExpr |-> ExprFirst,
   relatExpr |-> ExprFirst, addExpr |-> ExprFirst, mulExpr |-> ExprFirst,
   unaryExpr |-> ExprFirst, atom |-> AtomFirst, literalAtom |-> AtomFirst \ {"ID", "("},
   rtTypeAtomHead |-> {"ID"}, rtTypeAtom |-> {"ID"}, assignOp |-> AssignOps]

(* The table is what the rules say.                                         *)
ASSUME TableAssumption == \A r \in DOMAIN Rules : FirstTable[r] = FirstIn(FirstTable, Rules[r])

FirstOf(items) == FirstIn(FirstTable, items)

(* Rules under backtracking: no action, no repair.                          *)
RECURSIVE TryOf(_, _, _)
TryOf(ts, at, items) ==
  IF items = <<>> THEN [ok |-> TRUE, p |-> at]
  ELSE LET i    == Head(items)
           after == Tail(items)
           la   == LTType(ts, at, 1)
           take == TryOf(ts, consumeToken(ts, at), after)
           fail == [ok |-> FALSE, p |-> at]
           ahead(s) == TryOf(ts, at, s).ok
       IN CASE i.op = "tok"  -> IF la = i.arg THEN take ELSE fail
            [] i.op = "set"  -> IF la \in i.arg THEN take ELSE fail
            [] i.op = "ref"  -> TryOf(ts, at, Rules[i.arg] \o after)
            [] i.op = "do"   -> TryOf(ts, at, after)
            [] i.op = "opt"  -> TryOf(ts, at, IF la \in First(i.arg) THEN i.arg \o after ELSE after)
            [] i.op = "star" -> TryOf(ts, at, IF la \in First(i.arg) THEN i.arg \o items ELSE after)
            [] i.op = "pred" -> TryOf(ts, at, IF la \in First(i.arg) /\ ahead(i.arg)
                                               THEN i.arg \o after ELSE after)
            [] i.op \in ChoiceOps ->
                 LET a == IF i.op = "alts" THEN predict(ts, at, i.arg)
                          ELSE StatementBy(ts, at, ahead)
                 IN IF a = 0 THEN fail ELSE TryOf(ts, at, i.arg[a] \o after)

-------------------------------------------------------------------------------
(* The reference for the lexer: what a lexeme of each type is, and the      *)
(* longest one at each place.                                               *)

Word(s) == s # <<>> /\ s[1] \in Letters /\ ToSet(s) \subseteq Letters \union Digits
Number(s) ==
  \/ s # <<>> /\ ToSet(s) \subseteq Digits
  \/ \E dot \in 2..(Len(s) - 1) :
       s[dot] = "." /\ \A i \in DOMAIN s \ {dot} : s[i] \in Digits
Escaped(s, i) ==     \* an odd number of backslashes before it
  \E n \in 1..(i - 1) : /\ n % 2 = 1 /\ \A k \in 1..n : s[i - k] = Backslash
                        /\ s[i - n - 1] # Backslash
String(s) ==
  /\ Len(s) > 1 /\ s[1] = Quote /\ s[Len(s)] = Quote /\ ~Escaped(s, Len(s))
  /\ \A i \in 2..(Len(s) - 1) : s[i] = Quote => Escaped(s, i)
LineComment(s) ==
  Len(s) > 2 /\ s[1] = "/" /\ s[2] = "/" /\ {i \in DOMAIN s : s[i] = "\n"} = {Len(s)}
  /\ \A i \in DOMAIN s : s[i] = "\r" => i = Len(s) - 1
Comment(s) ==
  /\ Len(s) > 3 /\ s[1] = "/" /\ s[2] = "*"
  /\ {i \in 3..(Len(s) - 1) : s[i] = "*" /\ s[i + 1] = "/"} = {Len(s) - 1}

IsLexeme(type, s) ==
  CASE type = "ID"           -> Word(s) /\ \A k \in Keywords : Spelling[k] # s
    [] type = "NUMBER"       -> Number(s)
    [] type = "STRING"       -> String(s)
    [] type = "WS"           -> s # <<>> /\ ToSet(s) \subseteq Blanks
    [] type = "LINE_COMMENT" -> LineComment(s)
    [] type = "COMMENT"      -> Comment(s)
    [] type = "op="          -> Len(s) = 2 /\ s[2] = "=" /\ s[1] \in {"-", "+", "*", "/", "%"}
    [] OTHER                 -> s = Spelling[type]

Skipped == {"WS", "LINE_COMMENT", "COMMENT"}
Lexemes == {"ID", "NUMBER", "STRING", "op="} \union Skipped \union Keywords
           \union (Punctuation \ {"-=", "+=", "*=", "/=", "%=", "//", "/*"})

Begins(type) ==      \* the characters a lexeme can begin with
  CASE type = "ID" -> Letters       [] type = "NUMBER" -> Digits
    [] type = "STRING" -> {Quote}   [] type = "WS" -> Blanks
    [] type \in {"LINE_COMMENT", "COMMENT"} -> {"/"}
    [] type = "op=" -> {"-", "+", "*", "/", "%"}
    [] OTHER -> {Spelling[type][1]}

(* The longest lexeme from place i on, as {[type, stop]}: none or one. A    *)
(* comment that is opened is not two operators.                             *)
LongestAt(text, i) ==
  LET types == {t \in Lexemes : text[i] \in Begins(t)}
      all == {l \in [type : types, stop : i..Len(text)] : IsLexeme(l.type, SubSeq(text, i, l.stop))}
      opens == i < Len(text) /\ text[i] = "/" /\ text[i + 1] \in {"/", "*"}
  IN {l \in all : (\A m \in all : m.stop <= l.stop) /\ (opens => l.stop > i + 1)}

RECURSIVE Lexed(_, _)
Lexed(text, i) ==     \* [ok, tokens]
  IF i > Len(text) THEN [ok |-> TRUE, tokens |-> <<>>]
  ELSE LET l == LongestAt(text, i)
       IN IF l = {} THEN [ok |-> FALSE, tokens |-> <<>>]
          ELSE LET one  == CHOOSE x \in l : TRUE
                   more == Lexed(text, one.stop + 1)
               IN [ok |-> more.ok,
                   tokens |-> IF one.type \in Skipped THEN more.tokens
                              ELSE <<[type |-> one.type, start |-> i - 1, stop |-> one.stop - 1]>>
                                   \o more.tokens]

(* What a lexeme can begin with.                                            *)
BeginsLexeme(s) ==
  \/ s = <<>> \/ Word(s) \/ Number(s) \/ ToSet(s) \subseteq Blanks
  \/ \E w \in Keywords \union Punctuation : IsPrefix(s, Spelling[w])
  \/ Len(s) > 1 /\ Last(s) = "." /\ ToSet(Front(s)) \subseteq Digits
  \/ s[1] = Quote /\ \A i \in 2..(Len(s) - 1) : s[i] = Quote => Escaped(s, i)
  \/ LineComment(s \o <<Newline>>) \/ Comment(s \o <<"*", "/">>)

(* The lexer decides by one or two characters and then matches, and it must *)
(* still find the longest lexeme of the grammar at every place: a file that *)
(* is made of lexemes gives exactly their tokens, any other a lexer error.  *)
(* An error is at the first character no lexeme begun there can have, and   *)
(* is reported once: each round takes a character at least.                 *)
TokensAreLongest ==
  /\ phase = "lex" /\ AtEnd(input) =>
       LET ref == Lexed(input.text, 1)
       IN /\ ref.ok <=> lexErrors = {}
          /\ ref.ok => ref.tokens = [i \in DOMAIN tokens |->
               [type |-> tokens[i].type, start |-> tokens[i].start, stop |-> tokens[i].stop]]
  /\ phase = "lex" /\ ~AtEnd(input) => AfterRound(mTokens(input)).nextChar > input.nextChar
  /\ \A e \in lexErrors :
       /\ BeginsLexeme(SubSeq(input.text, e.start + 1, e.index))
       /\ e.index < Len(input.text) => ~BeginsLexeme(SubSeq(input.text, e.start + 1, e.index + 1))

-------------------------------------------------------------------------------
(* The reference for the parser: where the items, read as a context-free    *)
(* grammar, can end when they begin at q, after q of the types; Cut when    *)
(* they can go on behind the last. No lookahead, no predicate.              *)
Cut == -1

RECURSIVE Ends(_, _, _)
Ends(types, items, q) ==
  IF items = <<>> \/ q = Cut THEN {q}
  ELSE LET i     == Head(items)
           next(S) == IF q = Len(types) THEN {Cut} ELSE {r \in {q + 1} : types[r] \in S}
           within(arg) == Ends(types, arg, q)
           one == CASE i.op = "tok"  -> next({i.arg})
                    [] i.op = "set"  -> next(i.arg)
                    [] i.op = "ref"  -> within(Rules[i.arg])
                    [] i.op = "do"   -> {q}
                    [] i.op \in {"opt", "pred"} -> {q} \union within(i.arg)
                    [] i.op = "star" ->
                         {q} \union UNION {Ends(types, <<i>>, r) : r \in within(i.arg) \ {q}}
                    [] i.op \in ChoiceOps -> UNION {within(i.arg[a]) : a \in DOMAIN i.arg}
       IN UNION {Ends(types, Tail(items), r) : r \in one}

Types == [i \in DOMAIN tokens |-> tokens[i].type] \o <<TOKEN_EOF>>

CanBegin(types) == Ends(types, Rules["program"], 0) \intersect {Cut, Len(types)} # {}
IsProgram == CanBegin(Types)

(* return takes an expression when it can, so that a statement that begins  *)
(* with a name cannot follow a bare return.                                 *)
ReturnTakesName ==
  \E i \in 1..(Len(tokens) - 1) : tokens[i].type = "return" /\ tokens[i + 1].type = "ID"

(* The parser, with its predictions by one token and three predicates,      *)
(* reports an error exactly for what is not a program of the grammar, and   *)
(* without one has read the file to its end.                                *)
ErrorsAreReal ==
  phase = "done" =>
    /\ reports = <<>> => IsProgram /\ p = Len(tokens)
    /\ IsProgram /\ ~ReturnTakesName => reports = <<>>

(* The first error reported is at the first token no program can have there; *)
(* but a bad expression after return is given up where it begins, for it is *)
(* tried before it is parsed, and what begins with function is then read as *)
(* a definition. What is made up to go on, or follows a token that is       *)
(* dropped, can stand there.                                                *)
FirstErrorTrue ==
  Ended /\ reports # <<>> /\ ~ReturnTakesName =>
    LET r    == Head(reports)
        read == SubSeq(Types, 1, r.index)
        then(type) == CanBegin(Append(read, type))
    IN /\ CanBegin(read)
       /\ then(Types[r.index + 1]) =>
            ~IsProgram /\ \E i \in {r.index - 1, r.index} \intersect DOMAIN Types : Types[i] = "return"
       /\ r.type = "MISSING_TOKEN" => then(r.expected)
       /\ r.type = "UNWANTED_TOKEN" => then(Types[r.index + 2])
===============================================================================
