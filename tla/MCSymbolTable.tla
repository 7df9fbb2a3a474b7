--------------------------- MODULE MCSymbolTable ---------------------------
(***************************************************************************)
(* Instance of SymbolTableProperties for TLC.                              *)
(***************************************************************************)
EXTENDS SymbolTableProperties, TLC

CONSTANTS a, b

Symmetric == Permutations(Name)
=============================================================================
