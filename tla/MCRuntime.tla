------------------------------- MODULE MCRuntime -------------------------------
(***************************************************************************)
(* The classes of the ANTLR runtime, which share no state, and the builtins *)
(* of text, in one run: it takes one of them, and the others stay as they   *)
(* are.                                                                     *)
(***************************************************************************)
EXTENDS Bitset, TrieDelete, Topo, CharInput, TokenBuffer, TokenSource, Builtins

VARIABLE part

vars == <<part, sets, memoVars, topoVars, charVars, tokenVars, sourceVars, builtinVars>>

Init ==
  /\ part \in {"bitset", "memo", "topo", "chars", "tokens", "source", "builtins"}
  /\ BitsetInit /\ MemoInit /\ TopoInit /\ CharInit /\ TokenInit /\ SourceInit /\ BuiltinInit

Next ==
  /\ UNCHANGED part
  /\ \/ part = "bitset" /\ BitsetNext
        /\ UNCHANGED <<memoVars, topoVars, charVars, tokenVars, sourceVars, builtinVars>>
     \/ part = "memo" /\ MemoNext
        /\ UNCHANGED <<sets, topoVars, charVars, tokenVars, sourceVars, builtinVars>>
     \/ part = "topo" /\ TopoNext
        /\ UNCHANGED <<sets, memoVars, charVars, tokenVars, sourceVars, builtinVars>>
     \/ part = "chars" /\ CharNext
        /\ UNCHANGED <<sets, memoVars, topoVars, tokenVars, sourceVars, builtinVars>>
     \/ part = "tokens" /\ TokenNext
        /\ UNCHANGED <<sets, memoVars, topoVars, charVars, sourceVars, builtinVars>>
     \/ part = "source" /\ SourceNext
        /\ UNCHANGED <<sets, memoVars, topoVars, charVars, tokenVars, builtinVars>>
     \/ part = "builtins" /\ BuiltinNext
        /\ UNCHANGED <<sets, memoVars, topoVars, charVars, tokenVars, sourceVars>>

Spec == Init /\ [][Next]_vars
-------------------------------------------------------------------------------
(* Bit sets of the word size of the runtime.  The bits lie in the first, the *)
(* eighth, the ninth and the sixteenth word; one table has one word, others  *)
(* more words than a new set.                                                *)
Table(words, S) == [length |-> words, bits |-> S]
SomeBits  == {0, 511, 512, 1023}
SomeLists == {Table(1, {0}), Table(9, {511, 512}), Table(16, {0, 1023})}

(* What the rules of two inputs do at the places from 0 on.                  *)
Places(seq) == [i \in 0..(Len(seq) - 1) |-> seq[i + 1]]
SomeInputs == {1 :> Places(<<1, 1, 5, Fails, 4, 7, 6, Fails>>),
               1 :> Places(<<Fails, 2, 3>>) @@ 2 :> Places(<<3, Fails, 2>>)
                 @@ 5 :> Places(<<1, 3, Fails>>)}

SomeNodes == 0..2

(* Characters of one to four bytes, lines, and a byte order mark as one      *)
(* character and as three.                                                   *)
SomeTexts == {<<97, 10, 98>>, <<97, 10, 233, 10>>, <<BOM, 10, 8364>>, <<128512, 97>>,
              <<239, 187, 191, 97>>}

Tok(type, channel) == [type |-> type, channel |-> channel]
Set(types, off, tok) == [discardSet |-> types, discardOffChannel |-> off, override |-> tok]
SomeSources ==
  {<<Tok(1, 0), Tok(2, 0), Tok(1, 0), Tok(3, 0)>>,
   <<Tok(2, 99), Tok(1, 0), Tok(2, 99), Tok(2, 99), Tok(3, 0), Tok(1, 0), Tok(2, 99)>>,
   <<Tok(1, 99), Tok(2, 99)>>, <<Tok(1, 0), Tok(2, 0)>>}
SomeSettings == {Set({}, FALSE, NoToken), Set({1}, FALSE, NoToken),
                 Set({}, TRUE, NoToken), Set({}, FALSE, Tok(2, 99))}

(* Files that include each other in the middle, at once, twice, as their    *)
(* last character, and without a token.                                     *)
SomeFiles ==
  "twice" :> <<"x", "inner", "y", "inner", "z">> @@ "inner" :> <<"space", "junk", "u", "v">> @@
  "deep" :> <<"middle", "x">> @@ "middle" :> <<"inner", "space">> @@
  "last" :> <<"x", "inner">> @@ "blank" :> <<"space">> @@
  "stuck" :> <<"blank", "x">> @@ "plain" :> <<"junk", "junk", "x", "space", "y", "junk">>

(* Numbers in halves: 1, 1.5, -0.5, 99.5, one whose text is as long as the  *)
(* buffer, one whose text is longer, and one no int can hold; numbers of a  *)
(* few ten-millionths, and one that little above 1.                         *)
Num(halves) == fromNumber(halves * (Unit \div 2))
Tiny(units) == fromNumber(units)
Text(s)  == fromString(s)
SomeWindows ==
  {<<>>, <<Num(2)>>, <<Num(3)>>, <<Num(-1)>>, <<Num(199)>>, <<Num(-21)>>, <<Num(-201)>>,
   <<Num(-400)>>, <<Tiny(1)>>, <<Tiny(2)>>,
   <<Tiny(-1)>>, <<Tiny(Unit + 1)>>, <<Tiny(Unit - 1)>>, <<Nil>>, <<fromBoolean(TRUE), Num(3)>>, <<fromArray("a1")>>,
   <<fromFunction("print")>>, <<fromFunction("outer")>>, <<Num(2), Text(<<"s">>)>>,
   <<Text(<<"s">>), Num(3)>>, <<Text(<<"s">>), Text(<<"x", "\n", "\n", "y">>)>>,
   <<Text(<<"s">>), Text(<<"x", "\n">>)>>, <<Text(<<"s">>), Text(<<>>)>>,
   <<Text(<<"t">>), Num(-21), Num(2)>>}

SomeFormats ==
  {<<>>, << <<"x">> >>, << <<"%", "d">>, <<"x">> >>, << <<"x">>, <<"%", "s">>, <<"%", "f">> >>,
   << <<"%", "2", "d">>, <<"%", "2", "s">>, <<"x">> >>, << <<"%", "%", "d">>, <<"%", "d">> >>,
   << <<"%", "s">>, <<"%", "d">> >>, << <<"%", "s">>, <<"%", "f">>, <<"y">>, <<"%", "d">> >>,
   << <<"x">>, <<"%">> >>}

Code(op, func) == [op |-> op, func |-> func]
SomeBodies ==
  "outer" :> <<Code("Move", ""), Code("NewFunction", "inner"), Code("NewFunction", "leaf"), Code("Jump", "")>> @@
  "inner" :> <<Code("NewFunction", "leaf"), Code("Move", "")>> @@ "leaf" :> <<Code("Move", "")>>
===============================================================================
