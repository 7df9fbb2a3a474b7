------------------------------ MODULE TrieDelete -------------------------------
(***************************************************************************)
(* The destructor of the integer trie (antlr3collections).                  *)
(***************************************************************************)
EXTENDS RuleMemo

(* Mutant of Delete: the right nodes stay. *)
RECURSIVE DeleteLeft(_, _, _)
DeleteLeft(t, n, d) ==
  LET c == t[n].leftN
      below == IF t[n].bitNum > t[c].bitNum THEN DeleteLeft(t, c, d) ELSE d
  IN [below EXCEPT !.freed = Append(@, n)]

(* The destructor of a node: d is [freed, stale], the nodes deleted so far, *)
(* and whether one was looked at after that.                                *)
RECURSIVE Delete(_, _, _)
Delete(t, n, d) ==
  LET Child(e, c) ==
        LET seen == [e EXCEPT !.stale = @ \/ c \in ToSet(e.freed)]
        IN IF t[n].bitNum > t[c].bitNum THEN Delete(t, c, seen) ELSE seen
      below == Child(Child(d, t[n].leftN), t[n].rightN)
  IN [below EXCEPT !.freed = Append(@, n)]

DeleteTrie(t) == Delete(t, 0, [freed |-> <<>>, stale |-> FALSE])
-------------------------------------------------------------------------------
(* Deleting a trie deletes every node once, though each is pointed to from  *)
(* above and from below, and looks at none after that.                      *)
TriesFreed ==
  \A t \in {ruleMemo} \cup {lists[r] : r \in DOMAIN lists} :
    /\ ~DeleteTrie(t).stale
    /\ Len(DeleteTrie(t).freed) = Cardinality(DOMAIN t)
    /\ ToSet(DeleteTrie(t).freed) = DOMAIN t
===============================================================================
