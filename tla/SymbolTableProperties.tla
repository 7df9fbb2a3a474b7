----------------------- MODULE SymbolTableProperties -----------------------
(***************************************************************************)
(* What the symbol table promises the code generator and the machine.      *)
(***************************************************************************)
EXTENDS SymbolTable

IsTable(t) ==
  /\ DOMAIN t = {"blocks", "cur", "max"}
  /\ t.cur \in Nat /\ t.max \in Nat
  /\ \A i \in DOMAIN t.blocks :
       /\ DOMAIN t.blocks[i] \subseteq Name
       /\ \A n \in DOMAIN t.blocks[i] : t.blocks[i][n] \in Nat

Rules  == [kind : {"program", "body", "block"}, params : Seq(Name),
           used : Nat]

(* The variables have their types, and rules are open while a file is      *)
(* parsed.                                                                 *)
TypeOK ==
  /\ \A k \in DOMAIN s_tables : IsTable(s_tables[k])
  /\ rules \in Seq(Rules)
  /\ errors \in Seq({"program", "body", "block"})
  /\ phase \in Phase
  /\ phase = "parse" => rules # <<>> /\ s_tables # <<>>

Live(t) == UNION {{<<i, n>> : n \in DOMAIN t.blocks[i]} : i \in DOMAIN t.blocks}

Functions == {i \in DOMAIN rules : rules[i].kind # "block"}

(* The table of the i-th rule, as long as no rule ended by an error. *)
TableOf(i) == s_tables[Cardinality({j \in Functions : j <= i})]

(* The declarations alive in a function have slots of their own, and they  *)
(* are the first cur slots, inner blocks above outer ones: popBlock counts *)
(* on it when it gives slots back.  The parameters have the first of them, *)
(* in their order: it is where callFromVM finds them.                      *)
SlotsDense ==
  /\ TypeOK
  /\ \A k \in DOMAIN s_tables : LET t == s_tables[k] IN
       /\ {t.blocks[p[1]][p[2]] : p \in Live(t)} = 0 .. t.cur - 1
       /\ Cardinality(Live(t)) = t.cur
       /\ \A p, q \in Live(t) :
            p[1] < q[1] => t.blocks[p[1]][p[2]] < t.blocks[q[1]][q[2]]
       /\ t.cur <= t.max
  /\ errors = <<>> =>
       \A i \in Functions : \A k \in DOMAIN rules[i].params :
         <<rules[i].params[k], k - 1>> \in
           {<<n, TableOf(i).blocks[1][n]>> : n \in DOMAIN TableOf(i).blocks[1]}

(* The assertion of ~SymbolTable fails, and a table runs out of blocks,    *)
(* only after a syntax error; the latter only if the error ended a         *)
(* function's body, so that blocks around it close in its table.           *)
AssertionsHold ==
  /\ phase = "assertion" => errors # <<>>
  /\ phase = "undefined" => \E i \in DOMAIN errors : errors[i] = "body"

(* When a function ends, every slot its tree names is below the maximum    *)
(* that becomes localCount, where the code generator begins to allocate    *)
(* temporaries; a body left by a syntax error can break that.              *)
LocalsFit ==
  /\ \A i \in DOMAIN errors : errors[i] # "body"
  /\ In("body") \/ In("program")
  /\ Usable /\ Closes(topTable)
  => rules[Len(rules)].used <= topTable.max
-----------------------------------------------------------------------------
(* What makes the properties above inductive.                              *)

(* The blocks outside the i-th hold the first n slots. *)
Outer(t, i, n) ==
  /\ \A j \in 1 .. i - 1 : \A x \in DOMAIN t.blocks[j] : t.blocks[j][x] < n
  /\ \A s \in 0 .. n - 1 :
       \E j \in 1 .. i - 1 : \E x \in DOMAIN t.blocks[j] : t.blocks[j][x] = s

(* No two declarations share a slot. *)
Apart(t) ==
  \A j, k \in DOMAIN t.blocks : \A x \in DOMAIN t.blocks[j], y \in DOMAIN t.blocks[k] :
    t.blocks[j][x] = t.blocks[k][y] => j = k /\ x = y

Packed(t) ==
  /\ Apart(t)
  /\ t.cur <= t.max
  /\ Outer(t, Len(t.blocks) + 1, t.cur)
  /\ \A i \in DOMAIN t.blocks : \E n \in 0 .. t.cur : Outer(t, i, n)

IsFunction(rs, i) == rs[i].kind # "block"

(* The rule j is that of the function the rule i is in. *)
Owns(rs, j, i) ==
  /\ j \in 1 .. i /\ IsFunction(rs, j)
  /\ \A k \in j + 1 .. i : ~ IsFunction(rs, k)

(* How many functions are begun up to the rule i, and which table is that  *)
(* of the rule: the innermost function has the last one.                   *)
Rank(rs, i)      == Cardinality({j \in DOMAIN rs : IsFunction(rs, j) /\ j <= i})
TableNo(rs, m, i) == m - Rank(rs, Len(rs)) + Rank(rs, i)

(* The innermost rule, or the last one before another function. *)
Innermost(rs, i) == i = Len(rs) \/ IsFunction(rs, i + 1)

(* A file begins with its program; every function begun has a table, and   *)
(* there may be tables left of bodies an error has ended.                  *)
RulesNest(rs, ts) ==
  /\ Rank(rs, Len(rs)) <= Len(ts)
  /\ \A i \in DOMAIN rs :
       /\ rs[i].kind = "program" <=> i = 1
       /\ \E j \in 1 .. i : Owns(rs, j, i)

(* As long as no error has ended a body, every function has its table,     *)
(* which has a block for each of the function's rules.  An error in a      *)
(* block leaves the table with a block too many.                           *)
Nested(rs, ts) ==
  \A i \in DOMAIN rs : LET t == ts[TableNo(rs, Len(ts), i)] IN
    /\ IsFunction(rs, i) => rs[i].used <= t.max
    /\ Innermost(rs, i) =>
         \A j \in 1 .. i : Owns(rs, j, i) => Len(t.blocks) >= i - j + 1

HasParams(rule, t) ==
  \A k \in DOMAIN rule.params :
    rule.params[k] \in DOMAIN t.blocks[1] /\ t.blocks[1][rule.params[k]] = k - 1

(* Without an error there are no other tables and no other blocks, and the *)
(* parameters are where their function's call puts the arguments.          *)
ExactAt(rs, t, i) ==
  /\ IsFunction(rs, i) => HasParams(rs[i], t)
  /\ Innermost(rs, i) =>
       \A j \in 1 .. i : Owns(rs, j, i) => Len(t.blocks) = i - j + 1

Exact(rs, ts) ==
  /\ Rank(rs, Len(rs)) = Len(ts)
  /\ \A i \in DOMAIN rs : ExactAt(rs, ts[TableNo(rs, Len(ts), i)], i)

IInv ==
  /\ TypeOK
  /\ phase = "idle" => rules = <<>>
  /\ \A k \in DOMAIN s_tables : Packed(s_tables[k])
  /\ RulesNest(rules, s_tables)
  /\ (\A i \in DOMAIN errors : errors[i] # "body") => Nested(rules, s_tables)
  /\ errors = <<>> => Exact(rules, s_tables)
  /\ AssertionsHold
=============================================================================
