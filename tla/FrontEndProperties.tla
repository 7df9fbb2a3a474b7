-------------------------- MODULE FrontEndProperties ---------------------------
(***************************************************************************)
(* What loading a file must do, whatever the file.                          *)
(***************************************************************************)
EXTENDS FrontEnd

Tokens == [type : Keywords \union Punctuation \union {"ID", "NUMBER", "STRING", "op="},
           start : Nat, stop : Nat, line : Nat, charPositionInLine : Int]

(* The state keeps its shape; every rule that waits waits for the rule      *)
(* above it, and only while characters are left is the lexer at work.       *)
TypeOK ==
  /\ input.nextChar \in 0..Len(input.text)
  /\ tokens \in Seq(Tokens)
  /\ phase \in Phases /\ p \in 0..Len(tokens) /\ lastErrorIndex \in -1..Len(tokens)
  /\ {exception, errorRecovery} \subseteq BOOLEAN
  /\ \A i \in DOMAIN stack : stack[i].val.kind \in Kinds
  /\ \A i \in 1..(Len(stack) - 1) : stack[i].todo[1].op = "ref" /\ stack[i].todo[1].arg = stack[i + 1].rule
  /\ scopes \in Seq(Nat)
  /\ exception => newest # NoException

-------------------------------------------------------------------------------
(* The line and the column of the character at a place: columns count from  *)
(* 0, on the first line from -1.                                            *)
IsPlaced(r, place) ==
  LET before == {k \in 1..place : input.text[k] = Newline}
  IN /\ r.line = Cardinality(before) + 1
     /\ r.charPositionInLine = place - 1 - (IF before = {} THEN 0 ELSE Max(before) - 1)

(* Each token carries the place of its first character, which the errors    *)
(* and the debug info of the code quote; each error the lexer reports has   *)
(* the place of the character, each of the parser that of the token it had  *)
(* come to, though tokens were dropped and made up before; one at the end   *)
(* of the file has its line. The state that says so keeps its shape.        *)
PlacesTrue ==
  /\ TypeOK
  /\ \A i \in DOMAIN tokens : IsPlaced(tokens[i], tokens[i].start)
  /\ \A e \in lexErrors : IsPlaced(e, e.index)
  /\ \A i \in DOMAIN reports :
       LET r == reports[i]
       IN IF r.index < Len(tokens)
          THEN IsPlaced(r, tokens[r.index + 1].start) /\ r.source = "file"
          ELSE r.line = Cardinality({k \in DOMAIN input.text : input.text[k] = Newline}) + 1

-------------------------------------------------------------------------------
(* A file the parser reports nothing of builds trees without holes: no NULL *)
(* is used and every table and block that was opened is closed.             *)
CleanWithoutErrors ==
  reports = <<>> =>
    /\ phase \notin {"undefined", "terminated"}
    /\ phase = "done" => scopes = <<>>

(* No token is reported twice: what follows an error is silent until a      *)
(* token matches.                                                           *)
ReportedOnce == \A i, j \in DOMAIN reports : i < j => reports[i].index < reports[j].index

(* Whatever the file, loading it ends.                                      *)
LoadEnds == <>Ended
===============================================================================
