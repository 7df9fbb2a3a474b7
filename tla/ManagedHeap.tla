---------------------------- MODULE ManagedHeap ----------------------------
(***************************************************************************)
(* What a garbage-collected heap promises, without saying how: a program   *)
(* changes its references as it likes, and a collection removes exactly    *)
(* the objects that no chain of references from a root reaches.            *)
(***************************************************************************)
CONSTANT Obj

VARIABLES
  objs,   \* the objects that exist
  roots,  \* references the program holds
  refs    \* refs[o] : references held by object o

vars == <<objs, roots, refs>>

TypeOK ==
  /\ objs \subseteq Obj
  /\ roots \subseteq Obj
  /\ refs \in [Obj -> SUBSET Obj]

(* The least set that holds the roots and follows every reference. *)
Closed(S)  == roots \subseteq S /\ \A o \in S : refs[o] \subseteq S
Reachable  == {o \in Obj : \A S \in SUBSET Obj : Closed(S) => o \in S}

Init == objs = {} /\ roots = {} /\ refs = [o \in Obj |-> {}]

(* The program allocates, and rewrites references to objects that exist.   *)
Mutate ==
  /\ objs \subseteq objs'
  /\ objs' \subseteq Obj
  /\ roots' \subseteq objs'
  /\ refs' \in [Obj -> SUBSET objs']
  /\ \A o \in Obj \ objs' : refs'[o] = {}

Collect ==
  /\ objs' = objs \cap Reachable
  /\ refs' = [o \in Obj |-> IF o \in objs' THEN refs[o] ELSE {}]
  /\ UNCHANGED roots

Next == Mutate \/ Collect

Spec == Init /\ [][Next]_vars

(* No reference the program can follow leads to an object that is gone. *)
ReachableExists == Reachable \subseteq objs
=============================================================================
