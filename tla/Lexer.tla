-------------------------------- MODULE Lexer ---------------------------------
(***************************************************************************)
(* The characters of one file as the lexer reads them, InputStream with     *)
(* the IntStream for 8-bit text (antlr3input.inl, antlr3intstream.inl), the *)
(* tokens as the parser reads them, CommonTokenStream and TokenIntStream    *)
(* (antlr3tokenstream.inl), and between them one round of                   *)
(* TokenSource::nextTokenStr: the lexer of JSMinus.g at the start of a      *)
(* token, matching it, skipping it or failing.                              *)
(*                                                                         *)
(* Pointers into the buffer are offsets from its start; a character is a    *)
(* string of one letter, and each stands for the characters the grammar     *)
(* treats alike.  The whole file is buffered before the first look at a     *)
(* token, all tokens are on the default channel, and positions count from   *)
(* 0 as m_p does.                                                           *)
(*                                                                         *)
(* A rule is an operator from the stream to [in, error, at]: where it left  *)
(* the stream, whether it raised an exception and where it then was. The    *)
(* generated lexer decides between rules by the shortest lookahead that     *)
(* tells them apart and then matches the chosen one, so that a rule may be  *)
(* chosen that does not match.                                              *)
(***************************************************************************)
EXTENDS Integers, Sequences, FiniteSets, SequencesExt

EndOfText == "<eof>"          \* ANTLR_CHARSTREAM_EOF
Newline   == "\n"             \* m_newlineChar

(* A stream just opened: reset, after the buffer was installed.            *)
NewInput(text) ==
  [text |-> text, nextChar |-> 0, line |-> 1, charPositionInLine |-> -1,
   currentLine |-> 0]

AtEnd(in) == in.nextChar >= Len(in.text)

LAChar(in, la) ==
  IF in.nextChar + la - 1 >= Len(in.text) THEN EndOfText ELSE in.text[in.nextChar + la]

(* Mutant of consumeChar: the newline does not restart the column. *)
consumeCharSameColumn(in, n) ==
  LET m == IF n < Len(in.text) - in.nextChar THEN n ELSE Len(in.text) - in.nextChar
  IN [in EXCEPT !.nextChar = @ + m, !.charPositionInLine = @ + m,
                !.line = @ + Cardinality({i \in 1..m : LAChar(in, i) = Newline})]

(* n characters on, or to the end: each newline starts the next line, at    *)
(* column 0.                                                                *)
consumeChar(in, n) ==
  LET m    == IF n < Len(in.text) - in.nextChar THEN n ELSE Len(in.text) - in.nextChar
      ends == {i \in 1..m : LAChar(in, i) = Newline}
  IN IF ends = {} THEN [in EXCEPT !.nextChar = @ + m, !.charPositionInLine = @ + m]
     ELSE LET last == CHOOSE i \in ends : \A j \in ends : i >= j
          IN [in EXCEPT !.nextChar = @ + m, !.line = @ + Cardinality(ends),
                        !.charPositionInLine = m - last,
                        !.currentLine = in.nextChar + last]
-------------------------------------------------------------------------------
TOKEN_EOF == "EOF"

(* emit: the token the lexer has just matched.  Its place is where the      *)
(* round began.                                                             *)
emit(type, from, to) ==
  [type |-> type, start |-> from.nextChar, stop |-> to.nextChar - 1,
   line |-> from.line, charPositionInLine |-> from.charPositionInLine]

(* LT of what is ahead: the token k places on, or the end of the file.      *)
LTType(tokens, p, k) ==
  IF p + k - 1 >= Len(tokens) THEN TOKEN_EOF ELSE tokens[p + k].type

consumeToken(tokens, p) == IF p < Len(tokens) THEN p + 1 ELSE p

(* consumeUntilSet, from p: the first place whose token is in the set, or   *)
(* the end of the file.                                                     *)
consumeUntilSet(tokens, p, set) ==
  CHOOSE q \in p..Len(tokens) :
    /\ q = Len(tokens) \/ tokens[q + 1].type \in set
    /\ \A r \in p..(q - 1) : tokens[r + 1].type \notin set
-------------------------------------------------------------------------------
Keywords == {"break", "continue", "else", "false", "for", "function", "if", "not",
             "null", "return", "true", "var", "while"}
Punctuation == {"!=", "#", "%", "&&", "(", ")", "*", "+", "++", ",", "-", "--", "/",
                ";", "<", "<=", "==", ">", ">=", "[", "]", "{", "||", "}",
                "=", "-=", "+=", "*=", "/=", "%=", "//", "/*"}

(* The characters of the words and operators the grammar spells out.        *)
Spelling ==
  [w \in Keywords \union Punctuation |->
     CASE w = "break" -> <<"b","r","e","a","k">>
       [] w = "continue" -> <<"c","o","n","t","i","n","u","e">>
       [] w = "else" -> <<"e","l","s","e">>      [] w = "false" -> <<"f","a","l","s","e">>
       [] w = "for" -> <<"f","o","r">>           [] w = "if" -> <<"i","f">>
       [] w = "function" -> <<"f","u","n","c","t","i","o","n">>
       [] w = "not" -> <<"n","o","t">>           [] w = "null" -> <<"n","u","l","l">>
       [] w = "return" -> <<"r","e","t","u","r","n">>
       [] w = "true" -> <<"t","r","u","e">>      [] w = "var" -> <<"v","a","r">>
       [] w = "while" -> <<"w","h","i","l","e">>
       [] w = "!=" -> <<"!","=">>   [] w = "&&" -> <<"&","&">>  [] w = "||" -> <<"|","|">>
       [] w = "++" -> <<"+","+">>   [] w = "--" -> <<"-","-">>  [] w = "==" -> <<"=","=">>
       [] w = "<=" -> <<"<","=">>   [] w = ">=" -> <<">","=">>  [] w = "-=" -> <<"-","=">>
       [] w = "+=" -> <<"+","=">>   [] w = "*=" -> <<"*","=">>  [] w = "/=" -> <<"/","=">>
       [] w = "%=" -> <<"%","=">>   [] w = "//" -> <<"/","/">>  [] w = "/*" -> <<"/","*">>
       [] OTHER -> <<w>>]

Digits  == {"0", "1"}
Letters == {"a", "b", "c", "e", "f", "h", "i", "k", "l", "n", "o", "r", "s", "t", "u", "v",
            "w", "x", "y", "_"}
Blanks  == {" ", "\n", "\r"}

Quote == "'"
Backslash == "\\"

-------------------------------------------------------------------------------
Fine(in)       == [in |-> in, error |-> FALSE, at |-> in]
Raised(in, at) == [in |-> in, error |-> TRUE, at |-> at]

(* How many characters are in S, up to the first that is not. *)
RunLength(in, S) ==
  CHOOSE n \in 0..Len(in.text) : LAChar(in, n + 1) \notin S /\ \A i \in 1..n : LAChar(in, i) \in S

ConsumeAll(in, S) == consumeChar(in, RunLength(in, S))

recover(in) == consumeChar(in, 1)

(* matchc, matchs: a mismatch raises an exception and skips one character;  *)
(* what matched before it is consumed.                                      *)
Agree(in, chars) ==
  CHOOSE n \in 0..Len(chars) : /\ n = Len(chars) \/ LAChar(in, n + 1) # chars[n + 1]
                               /\ \A i \in 1..n : LAChar(in, i) = chars[i]

matchs(in, chars) ==
  LET agreed == consumeChar(in, Agree(in, chars))
  IN IF Agree(in, chars) = Len(chars) THEN Fine(agreed) ELSE Raised(recover(agreed), agreed)
matchc(in, c) == matchs(in, <<c>>)

-------------------------------------------------------------------------------
(* The rules of JSMinus.g.                                                  *)

mID(in) == Fine(ConsumeAll(in, Letters \union Digits))

(* Mutant of mNUMBER_LITERAL: the fraction may be empty. *)
mNUMBER_LITERALDot(in) ==
  LET whole == ConsumeAll(in, Digits)
  IN IF LAChar(whole, 1) # "." THEN Fine(whole)
     ELSE Fine(ConsumeAll(consumeChar(whole, 1), Digits))

mNUMBER_LITERAL(in) ==
  LET whole == ConsumeAll(in, Digits)
      point == consumeChar(whole, 1)
  IN IF LAChar(whole, 1) # "." THEN Fine(whole)
     ELSE IF LAChar(point, 1) \notin Digits THEN Raised(point, point)
     ELSE Fine(ConsumeAll(point, Digits))

(* The first quote from the second character on that no backslash takes     *)
(* with it, or the end: a character or two at a time.                       *)
InString(in, i) ==
  CASE LAChar(in, i) \in {Quote, EndOfText} -> i
    [] LAChar(in, i) = Backslash            -> i + 2
    [] OTHER                                -> i + 1

EndQuote(in) ==
  LET at[n \in Nat] == IF n = 0 THEN 2 ELSE InString(in, at[n - 1])
  IN at[Len(in.text)]

mSTRING_LITERAL(in) == matchc(consumeChar(in, EndQuote(in) - 1), Quote)

mWS(in) == Fine(ConsumeAll(in, Blanks))

mLINE_COMMENT(in) ==
  LET line == consumeChar(in, RunLength(in, ToSet(in.text) \ {"\r", "\n"}))
  IN matchc(IF LAChar(line, 1) = "\r" THEN consumeChar(line, 1) ELSE line, "\n")

(* The place before the first end of a comment from the third character on, *)
(* or the last character.                                                   *)
EndComment(in) ==
  LET ends(i) == LAChar(in, i) = EndOfText \/ (LAChar(in, i) = "*" /\ LAChar(in, i + 1) = "/")
  IN CHOOSE n \in 2..(Len(in.text) + 2) : ends(n + 1) /\ \A i \in 3..n : ~ends(i)

mCOMMENT(in) == matchs(consumeChar(in, EndComment(in)), <<"*", "/">>)

-------------------------------------------------------------------------------
(* mTokens: the decision and the rule it picks, as [type, in, error, at, skip]. *)

Outcome(type, r) == [type |-> type, in |-> r.in, error |-> r.error, at |-> r.at,
                     skip |-> ~r.error /\ type \in {"WS", "LINE_COMMENT", "COMMENT"}]

(* A word: a keyword exactly when no letter or digit follows it.            *)
WordType(in) ==
  LET n == RunLength(in, Letters \union Digits)
      word == SubSeq(in.text, in.nextChar + 1, in.nextChar + n)
  IN IF \E k \in Keywords : Spelling[k] = word
     THEN CHOOSE k \in Keywords : Spelling[k] = word ELSE "ID"

(* An operator: one character decides where one operator starts with it,    *)
(* else the second does, and the short operator is what remains.            *)
Operators(c) == {w \in Punctuation : Spelling[w][1] = c}
OperatorAt(in) ==
  LET all  == Operators(LAChar(in, 1))
      long == {w \in all : Len(Spelling[w]) = 2 /\ Spelling[w][2] = LAChar(in, 2)}
  IN IF Cardinality(all) = 1 THEN CHOOSE w \in all : TRUE
     ELSE IF long # {} THEN CHOOSE w \in long : TRUE
     ELSE CHOOSE w \in all : Len(Spelling[w]) = 1

TypeOf(w) == CASE w \in {"-=", "+=", "*=", "/=", "%="} -> "op="
               [] w = "//" -> "LINE_COMMENT"
               [] w = "/*" -> "COMMENT"
               [] OTHER    -> w

mTokens(in) ==
  LET c == LAChar(in, 1)
  IN CASE c \in Letters -> LET t == WordType(in)
                           IN Outcome(t, mID(in))
       [] c \in Digits  -> Outcome("NUMBER", mNUMBER_LITERAL(in))
       [] c = Quote     -> Outcome("STRING", mSTRING_LITERAL(in))
       [] c \in Blanks  -> Outcome("WS", mWS(in))
       [] Operators(c) # {} ->
            LET w == OperatorAt(in)
            IN Outcome(TypeOf(w), CASE w = "//" -> mLINE_COMMENT(in)
                                    [] w = "/*" -> mCOMMENT(in)
                                    [] OTHER    -> matchs(in, Spelling[w]))
       [] OTHER -> Outcome("none", Raised(in, in))       \* NoViableAlt consumes nothing
===============================================================================
