------------------------------ MODULE TokenSets ------------------------------
(***************************************************************************)
(* What the recognisers think a bit set is: a set of token types.          *)
(***************************************************************************)
CONSTANTS Name,   \* the sets at hand
          Bit,    \* the token types
          Loads   \* the sets the generated parser has tables of

VARIABLE members

Init == members = [n \in Name |-> {}]

(* What set n may become: one type more or less, a set of given types, a   *)
(* set or the union of two sets there are, a set with a table.             *)
Results(n) ==
  {members[n] \cup {b} : b \in Bit} \cup {members[n] \ {b} : b \in Bit}
    \cup {{b, c} : b, c \in Bit}
    \cup {members[m] \cup members[r] : m, r \in Name}
    \cup Loads

Next == \E n \in Name : members' \in {[members EXCEPT ![n] = S] : S \in Results(n)}

Spec == Init /\ [][Next]_members
=============================================================================
