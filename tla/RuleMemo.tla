------------------------------- MODULE RuleMemo --------------------------------
(***************************************************************************)
(* The memory of a backtracking recogniser (antlr3baserecognizer): for each *)
(* rule a trie from the place where the rule began to the place of the last *)
(* symbol it took, or to the mark of a failure, in a trie from rules to     *)
(* those tries.  A generated rule asks alreadyParsedRule first, and calls   *)
(* memoize when it has parsed.                                              *)
(*                                                                         *)
(* What a rule does at a place is a property of the input: ends[r][i] is    *)
(* the place where it ends, or Fails.                                       *)
(***************************************************************************)
EXTENDS IntTrie

CONSTANTS
  Inputs,      \* the inputs, each as its function ends; rules are numbered from 1
  RuleDepth,   \* the depth of the trie of rules: 15
  PlaceDepth   \* the depth of the tries of places: 63, here what the places need

(* Rules and places are keys of their tries, and no rule ends before it     *)
(* began.                                                                   *)
ASSUME MemoAssumption ==
  /\ RuleDepth \in Nat \ {0} /\ PlaceDepth \in Nat \ {0}
  /\ \A e \in Inputs :
       /\ DOMAIN e \subseteq KeysBelow(RuleDepth) \ {0}
       /\ \A r \in DOMAIN e :
            /\ DOMAIN e[r] \subseteq KeysBelow(PlaceDepth)
            /\ \A start \in DOMAIN e[r] :
                 e[r][start] = -2 \/ (e[r][start] \in Nat /\ e[r][start] >= start)

MEMO_RULE_FAILED  == -2
MEMO_RULE_UNKNOWN == -1
Fails == MEMO_RULE_FAILED

VARIABLES
  ends,
  ruleMemo,  \* the trie of rules; its data are names of lists
  lists,     \* the tries of places, by the rule they were made for
  last       \* the last rule that was called

memoVars == <<ends, ruleMemo, lists, last>>

(* getRuleMemoization, as the memory of it and the answer: a list is made   *)
(* for a rule that has none; a stop at place 0 is no answer.                *)
getRuleMemoization(m, r, start) ==
  IF get(m.rules, r) = NoData
  THEN [memo |-> [rules |-> add(m.rules, r, r),
                 lists |-> [q \in DOMAIN m.lists \cup {r} |->
                              IF q = r THEN NewTrie(PlaceDepth) ELSE m.lists[q]]],
        stop |-> MEMO_RULE_UNKNOWN]
  ELSE [memo |-> m,
        stop |-> LET stop == get(m.lists[get(m.rules, r)], start)
                 IN IF stop \in {NoData, 0} THEN MEMO_RULE_UNKNOWN ELSE stop]

(* Mutant of memoize: the place after the last symbol is kept. *)
memoizeAfter(m, r, start, failed, index) ==
  IF get(m.rules, r) = NoData THEN m
  ELSE [m EXCEPT !.lists[get(m.rules, r)] =
          add(@, start, IF failed THEN MEMO_RULE_FAILED ELSE index)]

memoize(m, r, start, failed, index) ==
  IF get(m.rules, r) = NoData THEN m
  ELSE [m EXCEPT !.lists[get(m.rules, r)] =
          add(@, start, IF failed THEN MEMO_RULE_FAILED ELSE index - 1)]

Memo == [rules |-> ruleMemo, lists |-> lists]
NoCall == [rule |-> 0, start |-> 0, parsed |-> FALSE, failed |-> FALSE, index |-> 0]
-------------------------------------------------------------------------------
MemoInit ==
  /\ ends \in Inputs /\ last = NoCall
  /\ ruleMemo = NewTrie(RuleDepth) /\ lists = <<>>

(* A rule is called at a place while the recogniser backtracks.  A memory   *)
(* of it fails the rule or moves the stream behind the last symbol;         *)
(* otherwise the rule parses, and remembers.  A rule that fails may leave   *)
(* the stream anywhere.                                                     *)
CallRule(r, start) ==
  LET asked == getRuleMemoization(Memo, r, start)
      after == IF asked.stop # MEMO_RULE_UNKNOWN THEN asked.memo
               ELSE memoize(asked.memo, r, start, ends[r][start] = Fails, ends[r][start])
  IN /\ last' = IF asked.stop = MEMO_RULE_UNKNOWN
                THEN [rule |-> r, start |-> start, parsed |-> TRUE,
                      failed |-> ends[r][start] = Fails,
                      index |-> IF ends[r][start] = Fails THEN start ELSE ends[r][start]]
                ELSE [rule |-> r, start |-> start, parsed |-> FALSE,
                      failed |-> asked.stop = MEMO_RULE_FAILED,
                      index |-> IF asked.stop = MEMO_RULE_FAILED THEN start ELSE asked.stop + 1]
     /\ ruleMemo' = after.rules /\ lists' = after.lists
     /\ UNCHANGED ends

(* reset, to parse another input: a new trie of rules.                      *)
ResetRecognizer ==
  /\ ends' \in Inputs /\ last' = NoCall
  /\ ruleMemo' = NewTrie(RuleDepth) /\ lists' = <<>>

MemoNext ==
  \/ \E r \in DOMAIN ends : \E start \in DOMAIN ends[r] : CallRule(r, start)
  \/ ResetRecognizer

MemoSpec == MemoInit /\ [][MemoNext]_memoVars
-------------------------------------------------------------------------------
(* A rule that is answered from the memory does what it would do: it fails  *)
(* where it fails and the stream stands where it ends, whatever else was    *)
(* remembered in between; and no rule parses twice from a place, except     *)
(* from place 0, which the trie cannot keep, or when no symbol after place  *)
(* 0 was taken.  The tries the memory is kept in lose and invent nothing:   *)
(* each finds a key from its root exactly if it has a node.                 *)
MemoTrue ==
  /\ \A t \in {ruleMemo} \cup {lists[r] : r \in DOMAIN lists} :
       /\ \A key \in DOMAIN t \ {0} : get(t, key) = t[key].buckets /\ get(t, key) # NoData
       /\ \A key \in KeysBelow(t[0].bitNum) \ DOMAIN t : get(t, key) = NoData
  /\ last # NoCall =>
       LET end == ends[last.rule][last.start]
       IN /\ last.failed <=> end = Fails
          /\ ~last.failed => last.index = end
          /\ last.start > 0 /\ end # 1 =>
               getRuleMemoization(Memo, last.rule, last.start).stop # MEMO_RULE_UNKNOWN
===============================================================================
