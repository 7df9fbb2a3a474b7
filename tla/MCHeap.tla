------------------------------- MODULE MCHeap -------------------------------
(***************************************************************************)
(* Instances of HeapProperties for TLC.  A file main with one function fn, *)
(* and a second file lib without functions; "gc" is the name of a builtin, *)
(* "lit" a literal of the program.                                         *)
(***************************************************************************)
EXTENDS HeapProperties

CONSTANTS main, lib, fn, gc, lit

OneScript == {main}
TwoScripts == {main, lib}
NoFuncs == [s \in Script |-> {}]
OneFuncOf == [s \in Script |-> IF s = main THEN {fn} ELSE {}]

(* Every string of the file also occurs in its function. *)
SharedLiterals == [m \in Meta |-> {gc}]
(* The literal occurs in top-level code only. *)
OwnLiterals == [m \in Meta |-> IF m = fn THEN {gc} ELSE {gc, lit}]

(* The literal occurs in the second file only. *)
LibLiterals == [m \in Meta |-> IF m = lib THEN {lit} ELSE {gc}]

NoArgs == <<>>
OneArg == <<gc>>

TwoSlots == [m \in Meta |-> 2]
OneSlot == [m \in Meta |-> 1]
OneSlotFn == [m \in Meta |-> IF m = fn THEN 1 ELSE 2]
NoParams == [m \in Meta |-> 0]
OneParam == [m \in Meta |-> IF m = fn THEN 1 ELSE 0]
=============================================================================
