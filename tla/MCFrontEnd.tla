------------------------------ MODULE MCFrontEnd ------------------------------
EXTENDS Language

(* Sentences that use every rule, as token names.                           *)
Sentences ==
  {<<"ID", "=", "ID", "+", "1", "*", "not", "ID", "<", "-", "1", "&&", "true">>,
   <<"ID", "(", "ID", "[", "1", "]", ",", "'", ")", ";", "++", "ID">>,
   <<"ID", "[", "(", "1", ")", "]", "+=", "[", "1", ",", "null", "]">>,
   <<"var", "ID", ",", "ID", "var", "ID", "=", "#", "ID", ";">>,
   <<"if", "(", "ID", ")", "{", "ID", "(", ")", "}", "else", "return", "1">>,
   <<"for", "(", "var", "ID", "=", "1", ";", "ID", ";", "ID", "=", "1", ")", "break">>,
   <<"for", "(", "ID", "=", "1", ";", ";", ")", "continue">>,
   <<"while", "(", "false", ")", "{", "return", "}">>,
   <<"var", "function", "ID", "(", "ID", ",", "ID", ")", "{", "return", "ID", "}">>,
   <<"{", "function", "ID", "(", ")", "{", "{", ";", "}", "}", "}">>,
   <<"ID", "=", "function", "(", ")", "{", "return", "}", "ID", "(", ")">>,
   <<"ID", "[", "1", "]", "(", "ID", ")", "return", "ID", "=", "1">>,
   <<"return", "function", "ID", "(", ")", "{", "}">>}

Spell(t) == CASE t = "ID" -> <<"x">> [] t = "'" -> <<"'", "\\", "'", "'">>
              [] t = "1" -> <<"1", ".", "0">> [] OTHER -> Spelling[t]
TextOf(sentence) == FlattenSeq([i \in DOMAIN sentence |-> Spell(sentence[i]) \o <<" ">>])

(* One token is left out, replaced or put in between.                       *)
Others == {"ID", "1", "=", "&&", "(", ")", ";", "{", "}", "]", "var", "function", "else"}
Broken(s) ==
  {RemoveAt(s, i) : i \in DOMAIN s} \union
  {ReplaceAt(s, i, t) : i \in DOMAIN s, t \in Others} \union
  {InsertAt(s, i, t) : i \in DOMAIN s, t \in Others}

(* Short texts over the characters the lexer decides by.                    *)
Characters == {"x", "1", ".", "=", "/", "*", "&", "'", "\\", "\n", " "}
Short == UNION {[1..n -> Characters] : n \in 0..3}

Files == Short \union {TextOf(s) : s \in UNION {Broken(s) \union {s} : s \in Sentences}}
===============================================================================
