------------------------------- MODULE FrontEnd -------------------------------
(***************************************************************************)
(* loadFile (jjs.cpp) up to the code: the lexer reads the file to its end,  *)
(* the parser runs the rules of the grammar over the tokens, repairs or     *)
(* skips what does not fit, and builds the trees whose code is emitted at   *)
(* the end of each function.                                                *)
(***************************************************************************)
EXTENDS Lexer, Recognizer

-------------------------------------------------------------------------------
(* The exceptions of the lexer and the parser (antlr3exception.inl): made   *)
(* where something does not fit, with the place the stream has then. The    *)
(* newest is the one a report is about; those before it are chained to it   *)
(* and only read to free them, with the recognizer.                         *)
Invalid == "<invalid>"     \* the name of token 0: m_expecting of an exception, until it is set
MadeUp  == "<missing "     \* the text of a token that getMissingSymbol made

(* A lexer error is reported at once: the round it was in, and its place.   *)
LexerError(start, at) ==
  [start |-> start, index |-> at.nextChar, line |-> at.line,
   charPositionInLine |-> at.charPositionInLine]

NoException == [type |-> "none"]

(* LT(1): the end of the file has the line the lexer ended on, and column 0. *)
CurrentToken(tokens, in, p) ==
  IF p < Len(tokens) THEN tokens[p + 1]
  ELSE [type |-> TOKEN_EOF, line |-> in.line, charPositionInLine |-> 0]

(* Mutant of ANTLR_Exception: it is made after the token was dropped. *)
ANTLR_ExceptionLate(type, tokens, in, p) ==
  LET q     == consumeToken(tokens, p)
      token == CurrentToken(tokens, in, q)
  IN [type |-> type, index |-> q, token |-> token.type, line |-> token.line,
      charPositionInLine |-> token.charPositionInLine, expecting |-> Invalid,
      streamName |-> IF token.type = TOKEN_EOF THEN "" ELSE "file"]

(* fillExceptionData of the parser.                                         *)
ANTLR_Exception(type, tokens, in, p) ==
  LET token == CurrentToken(tokens, in, p)
  IN [type |-> type, index |-> p, token |-> token.type, line |-> token.line,
      charPositionInLine |-> token.charPositionInLine, expecting |-> Invalid,
      streamName |-> IF token.type = TOKEN_EOF THEN "" ELSE "file"]

(* getMissingSymbol, and what the exception is told of it. Of an unwanted   *)
(* token mismatchIsUnwantedToken tells what is expected, but the exception  *)
(* before, for this one is not yet made.                                    *)
MissingSymbol(ex, ttype) == [ex EXCEPT !.token = MadeUp, !.expecting = ttype]

(* What was expected, as the message names it: only for a token that was    *)
(* dropped or made up (and for a set, see SetDisplayed of the front end).   *)
Expected(ex) == IF ex.type \in {"UNWANTED_TOKEN", "MISSING_TOKEN"} THEN ex.expecting ELSE ""

(* What the message says: which file, the place, what is there and what     *)
(* was expected.                                                            *)
displayRecognitionError(ex) ==
  [type |-> ex.type, index |-> ex.index, line |-> ex.line,
   charPositionInLine |-> ex.charPositionInLine, near |-> ex.token,
   source |-> CASE ex.streamName # ""     -> ex.streamName
                [] ex.token = TOKEN_EOF   -> "-end of input-"
                [] OTHER                  -> "-unknown source-",
   expected |-> Expected(ex)]

-------------------------------------------------------------------------------
CONSTANT Texts    \* the files, each a sequence of characters

ASSUME TextsAssumption == Texts \subseteq Seq(STRING \ {EndOfText})

VARIABLES
  input,           \* the character stream
  tokens,          \* m_tokens
  lexErrors,       \* the errors the lexer reported
  phase,
  p,               \* m_p
  stack,           \* the rules that are running, and m_following
  exception,       \* m_error: an exception is outstanding
  newest,          \* m_exception
  errorRecovery,   \* m_errorRecovery
  lastErrorIndex,  \* m_lastErrorIndex
  reports,         \* what the parser reported; m_errorCount is their number
  scopes           \* SymbolTable::s_tables, each by the number of its blocks

parserVars == <<p, stack, exception, newest, errorRecovery, lastErrorIndex, reports, scopes>>
vars == <<input, tokens, lexErrors, phase, parserVars>>

(* "assertion": an ASSERT of an action throws out of the parser;            *)
(* "terminated": it throws out of a destructor; "undefined": NULL or the    *)
(* back of an empty vector is used.                                         *)
Phases == {"lex", "parse", "done", "assertion", "terminated", "undefined"}

-------------------------------------------------------------------------------
Init ==
  /\ \E text \in Texts : input = NewInput(text)
  /\ tokens = <<>> /\ lexErrors = {}
  /\ phase = "lex"
  /\ p = 0 /\ stack = <<>> /\ exception = FALSE /\ newest = NoException
  /\ errorRecovery = FALSE /\ lastErrorIndex = -1 /\ reports = <<>> /\ scopes = <<>>

-------------------------------------------------------------------------------
(* fillBuffer, one round of nextTokenStr at a time. After an error of a rule *)
(* the lexer skips a character more.                                        *)
AfterRound(r) == IF r.error THEN recover(r.in) ELSE r.in

NextToken ==
  /\ phase = "lex" /\ ~AtEnd(input)
  /\ \E r \in {mTokens(input)} :
        /\ input' = AfterRound(r)
        /\ tokens' = IF r.error \/ r.skip THEN tokens
                     ELSE Append(tokens, emit(r.type, input, r.in))
        /\ lexErrors' = IF r.error THEN lexErrors \union {LexerError(input.nextChar, r.at)}
                        ELSE lexErrors
  /\ UNCHANGED <<phase, parserVars>>

(* program is called: its table is pushed before it looks at a token.       *)
StartProgram ==
  /\ phase = "lex" /\ AtEnd(input)
  /\ phase' = "parse"
  /\ stack' = <<Frame("program", {})>>
  /\ scopes' = <<1>>
  /\ UNCHANGED <<input, tokens, lexErrors, p, exception, newest, errorRecovery, lastErrorIndex,
                 reports>>

-------------------------------------------------------------------------------
frame == Last(stack)
item  == Head(frame.todo)
rest  == Tail(frame.todo)

Parsing  == phase = "parse" /\ ~exception
At(op)   == Parsing /\ frame.todo # <<>> /\ item.op = op

(* The running rule goes on with todo.                                      *)
Go(todo) == stack' = Replaced(stack, [frame EXCEPT !.todo = todo])

(* The actions after the item are run, on the frames below called ones.     *)
RunActs(frames, acts, ret) ==
  \E env \in {Acts([frame |-> Last(frames), scopes |-> scopes, phase |-> phase], acts, ret)} :
     /\ stack' = Replaced(frames, env.frame)
     /\ scopes' = env.scopes
     /\ phase' = env.phase

(* The item is over: what it stands for was matched, or made up.            *)
PassItem(ret) == RunActs(Replaced(stack, [frame EXCEPT !.todo = rest]), item.acts, ret)

TokenValue(type) == [kind |-> type, hole |-> FALSE]

(* Mutant of MatchToken: the token is looked at and not consumed. *)
MatchTokenUnread ==
  /\ At("tok") /\ LTType(tokens, p, 1) = item.arg
  /\ errorRecovery' = FALSE
  /\ PassItem(TokenValue(item.arg))
  /\ UNCHANGED <<input, tokens, lexErrors, p, exception, newest, lastErrorIndex, reports>>

(* match: the token is the one expected.                                    *)
MatchToken ==
  /\ At("tok") /\ LTType(tokens, p, 1) = item.arg
  /\ p' = consumeToken(tokens, p)
  /\ errorRecovery' = FALSE
  /\ PassItem(TokenValue(item.arg))
  /\ UNCHANGED <<input, tokens, lexErrors, exception, newest, lastErrorIndex, reports>>

(* Mutants of reportError: it does not count, or is never silent. *)
reportErrorUncounted(ex) == UNCHANGED reports /\ errorRecovery' = TRUE
reportErrorAlways(ex) ==
  reports' = Append(reports, displayRecognitionError(ex)) /\ errorRecovery' = TRUE

(* reportError: silent while recovering.                                    *)
reportError(ex) ==
  /\ reports' = IF errorRecovery THEN reports ELSE Append(reports, displayRecognitionError(ex))
  /\ errorRecovery' = TRUE

(* An exception about the next token.                                       *)
Unexpected(type) == ANTLR_Exception(type, tokens, input, p)

(* recoverFromMismatchedToken: the token is dropped for the next.           *)
DeleteToken ==
  /\ At("tok") /\ LTType(tokens, p, 1) # item.arg
  /\ mismatchIsUnwantedToken(tokens, p, item.arg)
  /\ newest' = Unexpected("UNWANTED_TOKEN") /\ reportError(newest')
  /\ p' = consumeToken(tokens, consumeToken(tokens, p))
  /\ PassItem(TokenValue(item.arg))
  /\ UNCHANGED <<input, tokens, lexErrors, exception, lastErrorIndex>>

(* Or the one expected is made up.                                          *)
InsertToken ==
  /\ At("tok") /\ LTType(tokens, p, 1) # item.arg
  /\ ~mismatchIsUnwantedToken(tokens, p, item.arg)
  /\ mismatchIsMissingToken(tokens, p, LocalFollow(rest), stack)
  /\ newest' = MissingSymbol(Unexpected("MISSING_TOKEN"), item.arg) /\ reportError(newest')
  /\ PassItem(TokenValue(item.arg))
  /\ UNCHANGED <<input, tokens, lexErrors, p, exception, lastErrorIndex>>

(* The rest of the rule is given up: goto ruleEx.                           *)
Raise(type) ==
  /\ exception' = TRUE
  /\ newest' = Unexpected(type)
  /\ UNCHANGED <<input, tokens, lexErrors, phase, p, stack, errorRecovery, lastErrorIndex,
                 reports, scopes>>

(* Or there is an exception.                                                *)
Mismatch ==
  /\ At("tok") /\ LTType(tokens, p, 1) # item.arg
  /\ ~mismatchIsUnwantedToken(tokens, p, item.arg)
  /\ ~mismatchIsMissingToken(tokens, p, LocalFollow(rest), stack)
  /\ Raise("RECOGNITION")

(* A set is matched inline and never repaired.                              *)
MatchSet ==
  /\ At("set") /\ LTType(tokens, p, 1) \in item.arg
  /\ p' = consumeToken(tokens, p)
  /\ errorRecovery' = FALSE
  /\ PassItem(TokenValue(LTType(tokens, p, 1)))
  /\ UNCHANGED <<input, tokens, lexErrors, exception, newest, lastErrorIndex, reports>>

MismatchSet ==
  /\ At("set") /\ LTType(tokens, p, 1) \notin item.arg
  /\ Raise("MISMATCHED_SET")

(* A rule is called: followPush. The item stays until it returns.           *)
CallRule ==
  /\ At("ref")
  /\ stack' = Append(stack, Frame(item.arg, LocalFollow(rest)))
  /\ UNCHANGED <<input, tokens, lexErrors, phase, p, exception, newest, errorRecovery,
                 lastErrorIndex, reports, scopes>>

(* Actions of their own.                                                    *)
RunAction ==
  /\ At("do")
  /\ PassItem(Null)
  /\ UNCHANGED <<input, tokens, lexErrors, p, exception, newest, errorRecovery, lastErrorIndex,
                 reports>>

(* A predicate that matched a token ends error recovery too.                *)
PredicateRan(items) ==
  errorRecovery' = (errorRecovery /\ Try(tokens, p, items).p = p)

(* ( )? and ( )*: in when the next token can begin it.                      *)
EnterOption ==
  /\ At("opt") \/ At("star")
  /\ Go(IF LTType(tokens, p, 1) \notin First(item.arg) THEN rest
        ELSE item.arg \o (IF item.op = "opt" THEN rest ELSE frame.todo))
  /\ UNCHANGED <<input, tokens, lexErrors, phase, p, exception, newest, errorRecovery,
                 lastErrorIndex, reports, scopes>>

(* (expr)=> expr, of return: where an expression can begin, the decision of *)
(* the generated parser is the predicate's, whatever the token.             *)
EnterPredicate ==
  /\ At("pred")
  /\ IF LTType(tokens, p, 1) \in First(item.arg)
     THEN Go(IF synpred(tokens, p, item.arg) THEN item.arg \o rest ELSE rest) /\ PredicateRan(item.arg)
     ELSE Go(rest) /\ UNCHANGED errorRecovery
  /\ UNCHANGED <<input, tokens, lexErrors, phase, p, exception, newest, lastErrorIndex,
                 reports, scopes>>

(* An alternative is taken.                                                 *)
Choose ==
  LET a == predict(tokens, p, item.arg)
  IN /\ At("alts") /\ a # 0
     /\ Go(item.arg[a] \o rest)
     /\ UNCHANGED <<input, tokens, lexErrors, phase, p, exception, newest, errorRecovery,
                 lastErrorIndex, reports, scopes>>

ChooseStatement ==
  LET a == predictStatement(tokens, p)
  IN /\ At("statement") /\ a # 0
     /\ Go(item.arg[a] \o rest)
     /\ CASE LTType(tokens, p, 1) = "ID"  -> PredicateRan(TargetAssigned)
          [] LTType(tokens, p, 1) = "var" -> errorRecovery' = FALSE
          [] OTHER -> UNCHANGED errorRecovery
     /\ UNCHANGED <<input, tokens, lexErrors, phase, p, exception, newest, lastErrorIndex,
                 reports, scopes>>

(* NoViableAlt.                                                             *)
NoViableAlt ==
  /\ \/ At("alts") /\ predict(tokens, p, item.arg) = 0
     \/ At("statement") /\ predictStatement(tokens, p) = 0
  /\ Raise("NO_VIABLE_ALT")

-------------------------------------------------------------------------------
(* The rule returns: followPop, and the actions after the call.             *)
Return ==
  IF Len(stack) = 1 THEN phase' = "done" /\ stack' = <<>> /\ UNCHANGED scopes
  ELSE LET caller == stack[Len(stack) - 1]
           call   == Head(caller.todo)
       IN RunActs(Replaced(Front(stack), [caller EXCEPT !.todo = Tail(@)]), call.acts, frame.val)

EndRule ==
  /\ Parsing /\ frame.todo = <<>>
  /\ Return
  /\ UNCHANGED <<input, tokens, lexErrors, p, exception, newest, errorRecovery, lastErrorIndex,
                 reports>>

(* The report of a mismatched set calls a member of m_expectingSet, which   *)
(* the generated code leaves NULL: the function tests this, and a compiler  *)
(* may drop the test.                                                       *)
SetDisplayed ==
  /\ newest.type = "MISMATCHED_SET" /\ ~errorRecovery
  /\ phase' = "undefined" /\ UNCHANGED <<stack, scopes>>

(* ruleEx with an exception: reportError, recover, return what there is.    *)
FailRule ==
  LET from == resyncFrom(tokens, p, lastErrorIndex)
  IN /\ phase = "parse" /\ exception
     /\ reportError(newest)
     /\ lastErrorIndex' = from
     /\ p' = consumeUntilSet(tokens, from, combineFollows(stack))
     /\ exception' = FALSE
     /\ Return \/ SetDisplayed
     /\ UNCHANGED <<input, tokens, lexErrors, newest>>

ParseStep ==
  \/ MatchToken \/ DeleteToken \/ InsertToken \/ Mismatch
  \/ MatchSet \/ MismatchSet \/ CallRule \/ RunAction
  \/ EnterOption \/ EnterPredicate \/ Choose \/ ChooseStatement \/ NoViableAlt
  \/ EndRule \/ FailRule

Ended   == phase \notin {"lex", "parse"}
Stopped == Ended /\ UNCHANGED vars

Step == NextToken \/ StartProgram \/ ParseStep

Spec == Init /\ [][Step \/ Stopped]_vars

(* The program runs until the load has ended. It is the weak fairness of    *)
(* Step, WF_vars(Step), written out for a Step that is enabled until then,  *)
(* for else there is a deadlock, and that changes the state: a round of     *)
(* the lexer takes a character at least.                                    *)
Running == []<>Ended \/ []<><<Step>>_vars

FairSpec == Spec /\ Running
===============================================================================
