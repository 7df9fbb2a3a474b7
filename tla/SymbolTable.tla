---------------------------- MODULE SymbolTable ----------------------------
(***************************************************************************)
(* Names and slots: the tables the parser keeps while it builds the trees  *)
(* of functions, one table for each function that is being parsed and in   *)
(* it one map for each open block.  The parser is the rules it is inside   *)
(* of; a syntax error ends a rule and skips the actions that are left in   *)
(* it, so tables and rules can come apart.                                 *)
(***************************************************************************)
EXTENDS Integers, Sequences, FiniteSets, SequencesExt

CONSTANTS
  Name,
  MaxTables,  \* bound: tables on s_tables
  MaxRules,   \* bound: rules the parser is inside of
  MaxErrors   \* bound: syntax errors

ASSUME SymbolTableAssumption == {MaxTables, MaxRules, MaxErrors} \subseteq Nat

VARIABLES
  s_tables,  \* SymbolTable::s_tables
  rules,     \* the open rules; a function's says how many slots its tree uses
  errors,    \* the kinds of the rules that ended by a syntax error
  phase

vars == <<s_tables, rules, errors, phase>>

Phase == {"idle", "parse", "failed", "assertion", "undefined"}

(* A block maps the names it declares to slots. *)
NewTable == [blocks |-> << <<>> >>, cur |-> 0, max |-> 0]

Rule(kind, params) == [kind |-> kind, params |-> params, used |-> 0]

Init ==
  /\ s_tables = <<>>
  /\ rules = <<>>
  /\ errors = <<>>
  /\ phase = "idle"

topTable  == s_tables[Len(s_tables)]
SetTop(t) == [s_tables EXCEPT ![Len(s_tables)] = t]
Inner(s)  == SubSeq(s, 1, Len(s) - 1)
Block(t)  == t.blocks[Len(t.blocks)]

Parsing   == phase = "parse"
In(kind)  == Parsing /\ rules[Len(rules)].kind = kind

(* topTable() and back() need a table and a block to return. *)
Usable == s_tables # <<>> /\ topTable.blocks # <<>>

pushBlock(t) == [t EXCEPT !.blocks = Append(@, <<>>)]

(* Mutant of popBlock: the slots are not given back. *)
popBlockKeep(t) == [t EXCEPT !.blocks = Inner(@)]

popBlock(t) ==
  [t EXCEPT !.blocks = Inner(@), !.cur = @ - Cardinality(DOMAIN Block(t))]

(* declareLocal of names that differ and that the block does not have. *)
Declarable(t, names) ==
  /\ \A i \in DOMAIN names : names[i] \notin DOMAIN Block(t)
  /\ \A i, j \in DOMAIN names : names[i] = names[j] => i = j

(* Mutant of declare: the maximum is taken before the last slot is. *)
declareEarly(t, names) ==
  [blocks |-> [t.blocks EXCEPT ![Len(t.blocks)] =
     [n \in DOMAIN @ \cup {names[i] : i \in DOMAIN names} |->
        IF n \in DOMAIN @ THEN @[n]
        ELSE t.cur + (CHOOSE i \in DOMAIN names : names[i] = n) - 1]],
   cur |-> t.cur + Len(names),
   max |-> IF t.max < t.cur + Len(names) - 1 THEN t.cur + Len(names) - 1 ELSE t.max]

(* declareLocal, of one name after the other. *)
declare(t, names) ==
  [blocks |-> [t.blocks EXCEPT ![Len(t.blocks)] =
     [n \in DOMAIN @ \cup {names[i] : i \in DOMAIN names} |->
        IF n \in DOMAIN @ THEN @[n]
        ELSE t.cur + (CHOOSE i \in DOMAIN names : names[i] = n) - 1]],
   cur |-> t.cur + Len(names),
   max |-> IF t.max < t.cur + Len(names) THEN t.cur + Len(names) ELSE t.max]

(* getLocalIdx: the slots the name denotes, at most one: that of the       *)
(* innermost block that has it.                                            *)
Slots(t, name) ==
  {t.blocks[i][name] : i \in
     {j \in DOMAIN t.blocks : /\ name \in DOMAIN t.blocks[j]
                              /\ \A k \in j + 1 .. Len(t.blocks) :
                                   name \notin DOMAIN t.blocks[k]}}

(* The rule of the function whose tree a name becomes part of. *)
Function ==
  CHOOSE i \in DOMAIN rules :
    /\ rules[i].kind # "block"
    /\ \A j \in i + 1 .. Len(rules) : rules[j].kind = "block"

(* The tree names a slot: the function needs all slots up to it. *)
Uses(table, name) ==
  rules' = [rules EXCEPT ![Function].used =
              CHOOSE n \in {@} \cup {s + 1 : s \in Slots(table, name)} :
                n >= @ /\ \A s \in Slots(table, name) : n > s]

----------------------------------------------------------------------------

(* program: a file begins. *)
BeginProgram ==
  /\ phase = "idle" /\ Len(s_tables) < MaxTables
  /\ s_tables' = Append(s_tables, NewTable)
  /\ rules' = <<Rule("program", <<>>)>>
  /\ phase' = "parse"
  /\ UNCHANGED errors

(* '{' of a block, and 'for'. *)
BeginBlock ==
  /\ Parsing /\ s_tables # <<>> /\ Len(rules) < MaxRules
  /\ s_tables' = SetTop(pushBlock(topTable))
  /\ rules' = Append(rules, Rule("block", <<>>))
  /\ UNCHANGED <<errors, phase>>

EndBlock ==
  /\ In("block") /\ Usable
  /\ s_tables' = SetTop(popBlock(topTable))
  /\ rules' = Inner(rules)
  /\ UNCHANGED <<errors, phase>>

(* Mutant of BeginBody: the parameters are declared from the last one on. *)
BeginBodyReverse(params) ==
  /\ Parsing /\ Len(rules) < MaxRules /\ Len(s_tables) < MaxTables
  /\ Declarable(NewTable, params)
  /\ s_tables' = Append(s_tables, declare(NewTable, Reverse(params)))
  /\ rules' = Append(rules, Rule("body", params))
  /\ UNCHANGED <<errors, phase>>

(* funcBody up to its '{'. *)
BeginBody(params) ==
  /\ Parsing /\ Len(rules) < MaxRules /\ Len(s_tables) < MaxTables
  /\ Declarable(NewTable, params)
  /\ s_tables' = Append(s_tables, declare(NewTable, params))
  /\ rules' = Append(rules, Rule("body", params))
  /\ UNCHANGED <<errors, phase>>

(* varDeclares. *)
VarDeclares(names) ==
  /\ Parsing /\ Usable /\ Declarable(topTable, names)
  /\ s_tables' = SetTop(declare(topTable, names))
  /\ UNCHANGED <<rules, errors, phase>>

(* varDefine, and funcDefine with 'var': what is assigned has been parsed  *)
(* before the name is declared.                                            *)
VarDefine(name) ==
  /\ Parsing /\ Usable /\ Declarable(topTable, <<name>>)
  /\ s_tables' = SetTop(declare(topTable, <<name>>))
  /\ Uses(declare(topTable, <<name>>), name)
  /\ UNCHANGED <<errors, phase>>

(* getExprNodeFromID; a name without a slot is a global. *)
Reference(name) ==
  /\ Parsing /\ s_tables # <<>>
  /\ Uses(topTable, name)
  /\ UNCHANGED <<s_tables, errors, phase>>

(* declareLocal fails an ASSERT; nothing catches it but main. *)
Redeclare(names) ==
  /\ Parsing
  /\ \/ Usable /\ ~ Declarable(topTable, names)
     \/ Len(names) > 1 /\ ~ Declarable(NewTable, names)
  /\ phase' = "failed"
  /\ UNCHANGED <<s_tables, rules, errors>>

(* What ~SymbolTable asserts after its popBlock. *)
Closes(t) == Len(t.blocks) = 1 /\ popBlock(t).cur = 0

(* The end of funcBody and of program: the maximum becomes the localCount  *)
(* of the body, the table is destroyed, and the body's code emitted.       *)
EndFunction ==
  /\ In("body") \/ In("program")
  /\ Usable /\ Closes(topTable)
  /\ s_tables' = Inner(s_tables)
  /\ rules' = Inner(rules)
  /\ phase' = IF Len(rules) = 1 THEN "idle" ELSE "parse"
  /\ UNCHANGED errors

EndFunctionOpen ==
  /\ In("body") \/ In("program")
  /\ Usable /\ ~ Closes(topTable)
  /\ phase' = "assertion"
  /\ UNCHANGED <<s_tables, rules, errors>>

(* A syntax error the innermost rule cannot mend: recover() resynchronises *)
(* and the parser goes on after the rule, whose last action is skipped.    *)
SyntaxError ==
  /\ Parsing /\ Len(errors) < MaxErrors
  /\ errors' = Append(errors, rules[Len(rules)].kind)
  /\ rules' = Inner(rules)
  /\ phase' = IF Len(rules) = 1 THEN "idle" ELSE "parse"
  /\ UNCHANGED s_tables

(* A block is asked of a table that has none left. *)
NoBlock ==
  /\ Parsing /\ s_tables # <<>> /\ topTable.blocks = <<>>
  /\ phase' = "undefined"
  /\ UNCHANGED <<s_tables, rules, errors>>

Full ==
  /\ \/ phase = "idle" /\ Len(s_tables) = MaxTables
     \/ Parsing /\ Len(errors) = MaxErrors
  /\ UNCHANGED vars

Stopped == phase \in {"failed", "assertion", "undefined"} /\ UNCHANGED vars

Next ==
  \/ BeginProgram
  \/ BeginBlock
  \/ EndBlock
  \/ \E x, y \in Name : \E names \in {<<>>, <<x>>, <<x, y>>} :
       \/ BeginBody(names)
       \/ names # <<>> /\ VarDeclares(names)
       \/ Redeclare(names)
  \/ \E name \in Name : VarDefine(name) \/ Reference(name)
  \/ EndFunction
  \/ EndFunctionOpen
  \/ SyntaxError
  \/ NoBlock
  \/ Full
  \/ Stopped

Spec == Init /\ [][Next]_vars
=============================================================================
