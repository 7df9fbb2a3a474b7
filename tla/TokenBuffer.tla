------------------------------ MODULE TokenBuffer ------------------------------
(***************************************************************************)
(* The token buffer of the ANTLR runtime: CommonTokenStream                 *)
(* (antlr3tokenstream) with TokenIntStream (antlr3intstream).  A buffer is  *)
(*                                                                         *)
(*   tokens, nissued, cachedSize   the tokens taken from the lexer          *)
(*   p          the place of the next token, -1 before the first fill       *)
(*   lastMarker                                                            *)
(*   discardSet, discardOffChannel, channelOverrides   what the client set  *)
(*                                                                         *)
(* and a token its type and its channel.  rest is what the lexer has not    *)
(* given yet; from then on it gives the end of the file.  With              *)
(* TOKENS_ACCESSED_FROM_OWNING_RULE tokens come in portions of              *)
(* TOKEN_FILL_BUFFER_INCREMENT; without it, as in this program, a fill      *)
(* takes all.  A rule under way remembers the index of the token it began   *)
(* with (RuleReturnValue_1, antlr3parser); when it ends, the tokens inside  *)
(* it are erased.                                                           *)
(***************************************************************************)
EXTENDS Integers, Sequences, FiniteSets, FiniteSetsExt, SequencesExt, TLC

CONSTANTS
  Sources,                        \* what lexers give: sequences of tokens
  Settings,                       \* discardSet, discardOffChannel, overrides set by clients
  TOKEN_FILL_BUFFER_INCREMENT,
  MaxTokenMarks,                  \* bounds of the model: marks held at once,
  MaxRules                        \* and rules under way

TOKEN_EOF == [type |-> 0, channel |-> 0]
NoToken == [type |-> -1, channel |-> 0]      \* NULL
Erased  == [type |-> -2, channel |-> 0]      \* TokenAccessException
TOKEN_DEFAULT_CHANNEL == 0

VARIABLES
  buffer,
  rest,
  source,      \* the lexer's tokens, from the first
  portions,    \* TOKENS_ACCESSED_FROM_OWNING_RULE
  taken,       \* how many tokens the parser has consumed
  tokenMarks,  \* marks: the marker and the number of tokens consumed
  rules,       \* rules under way: [start, atEnd, marks], the marks held when it began
  ranOut       \* a rule has ended that began at the end of the file

tokenVars == <<buffer, rest, source, portions, taken, tokenMarks, rules, ranOut>>

NewBuffer ==
  [tokens |-> <<>>, nissued |-> 0, cachedSize |-> 0, p |-> -1, lastMarker |-> 0,
   discardSet |-> {}, discardOffChannel |-> FALSE, channelOverrides |-> <<>>]

onChannel(tok) == tok.channel = TOKEN_DEFAULT_CHANNEL

(* setTokenTypeChannel: the type is the key.                                *)
setTokenTypeChannel(b, ttype, channel) ==
  [b EXCEPT !.channelOverrides = ttype :> channel + 1 @@ @]

(* fillBuffer, of one token: whether it is kept, and on which channel.  The *)
(* override is looked up under the type + 1.                                *)
discard(b, tok) == tok.type \in b.discardSet \/ (b.discardOffChannel /\ ~onChannel(tok))
overridden(b, tok) ==
  IF tok.type + 1 \in DOMAIN b.channelOverrides
  THEN [tok EXCEPT !.channel = b.channelOverrides[tok.type + 1] - 1] ELSE tok

Given(b, toks) ==
  LET kept == SelectSeq(toks, LAMBDA tok : ~discard(b, tok))
  IN [i \in DOMAIN kept |-> overridden(b, kept[i])]

(* How many of the lexer's tokens one fill takes: all, or up to the kept    *)
(* token that makes a portion full.                                         *)
Portion(b, toks) ==
  LET full == {n \in DOMAIN toks :
                 Len(Given(b, SubSeq(toks, 1, n))) >= TOKEN_FILL_BUFFER_INCREMENT}
  IN IF portions /\ full # {} THEN Min(full) ELSE Len(toks)

(* The first place from i on, or the last one before, that is on channel.   *)
skipOffTokenChannels(b, i) ==
  IF i >= b.cachedSize THEN i
  ELSE Min({b.cachedSize} \cup {k \in i..(b.cachedSize - 1) : onChannel(b.tokens[k + 1])})
skipOffTokenChannelsReverse(b, x) ==
  IF x < 0 THEN x ELSE Max({-1} \cup {k \in 0..x : onChannel(b.tokens[k + 1])})

(* Mutant of fillBuffer: the place is not moved to a token on channel. *)
fillBufferInPlace(f) ==
  LET n == Portion(f.b, f.rest)
      new == Given(f.b, SubSeq(f.rest, 1, n))
  IN [rest |-> SubSeq(f.rest, n + 1, Len(f.rest)),
      b |-> [f.b EXCEPT !.tokens = @ \o new, !.nissued = @ + Len(new),
                        !.cachedSize = f.b.nissued + Len(new), !.p = Max({0, @})]]

(* fillBuffer: f is [b, rest]. *)
fillBuffer(f) ==
  LET n    == Portion(f.b, f.rest)
      new  == Given(f.b, SubSeq(f.rest, 1, n))
      full == [f.b EXCEPT !.tokens = @ \o new, !.nissued = @ + Len(new),
                          !.cachedSize = f.b.nissued + Len(new)]
  IN [rest |-> SubSeq(f.rest, n + 1, Len(f.rest)),
      b |-> [full EXCEPT !.p = skipOffTokenChannels(full, Max({0, @}))]]

fullPortions(b) == b.cachedSize % TOKEN_FILL_BUFFER_INCREMENT = 0

(* LB, k > 0, of a buffer that is filled.                                   *)
RECURSIVE SkipTimes(_, _, _), SkipBack(_, _, _)
SkipTimes(b, i, n) == IF n = 0 THEN i ELSE SkipTimes(b, skipOffTokenChannels(b, i + 1), n - 1)
SkipBack(b, i, n) == IF n = 0 THEN i ELSE SkipBack(b, skipOffTokenChannelsReverse(b, i - 1), n - 1)

LB(f, k) ==
  LET g == IF f.b.p = -1 THEN fillBuffer(f) ELSE f
      i == SkipBack(g.b, g.b.p, k)
  IN IF k = 0 \/ g.b.p - k < 0 \/ i < 0 THEN [f |-> g, at |-> -1, token |-> NoToken]
     ELSE [f |-> g, at |-> i, token |-> g.b.tokens[i + 1]]

(* LT: the token k places on, its index, which of the end of the file is 0, *)
(* and what has been filled; less than 0 looks back.                        *)
LT(f, k) ==
  IF k < 0 THEN LB(f, -k)
  ELSE LET req_idx == f.b.p + k - 1
           g == IF f.b.p = -1 \/ (req_idx >= f.b.cachedSize /\ fullPortions(f.b))
                THEN fillBuffer(f) ELSE f
           i == SkipTimes(g.b, g.b.p, IF k > 1 THEN k - 1 ELSE 0)
           h == IF i >= g.b.cachedSize /\ fullPortions(g.b) THEN fillBuffer(g) ELSE g
       IN IF req_idx >= g.b.cachedSize THEN [f |-> g, at |-> 0, token |-> TOKEN_EOF]
          ELSE IF i >= h.b.cachedSize THEN [f |-> h, at |-> 0, token |-> TOKEN_EOF]
          ELSE [f |-> h, at |-> i, token |-> h.b.tokens[i + 1]]

(* consume, of the tokens that are buffered. *)
consumeToken(b) ==
  IF b.p < b.cachedSize THEN [b EXCEPT !.p = skipOffTokenChannels(b, @ + 1)] ELSE b

markToken(b) == [b EXCEPT !.lastMarker = b.p]
seekToken(b, index) == [b EXCEPT !.p = index]

(* discardTokens, of a map: both ends are erased.                           *)
discardTokens(b, start, stop) ==
  [b EXCEPT !.tokens = [i \in DOMAIN @ |-> IF i - 1 \in start..stop THEN Erased ELSE @[i]]]

Filled == [b |-> buffer, rest |-> rest]
-------------------------------------------------------------------------------
TokenInit ==
  /\ source = <<>> /\ rest = <<>> /\ portions = FALSE
  /\ buffer = NewBuffer /\ taken = 0 /\ tokenMarks = <<>>
  /\ rules = <<>> /\ ranOut = FALSE

(* A parser is set up on a lexer, with the settings made before it reads.   *)
OpenTokens(toks, s, owning) ==
  /\ source = <<>> /\ toks # <<>>
  /\ source' = toks /\ rest' = toks /\ portions' = owning
  /\ LET b == [NewBuffer EXCEPT !.discardSet = s.discardSet, !.discardOffChannel = s.discardOffChannel]
     IN buffer' = IF s.override = NoToken THEN b
                  ELSE setTokenTypeChannel(b, s.override.type, s.override.channel)
  /\ UNCHANGED <<taken, tokenMarks, rules, ranOut>>

Look(k) ==
  /\ LET l == LT(Filled, k) IN buffer' = l.f.b /\ rest' = l.f.rest
  /\ UNCHANGED <<source, portions, taken, tokenMarks, rules, ranOut>>

(* A parser consumes only what it has looked at: never before the first     *)
(* fill, and never at the end of what is buffered while the lexer has more. *)
Seen == buffer.p # -1 /\ (buffer.p < buffer.cachedSize \/ rest = <<>>)

ConsumeToken ==
  /\ Seen
  /\ buffer' = consumeToken(buffer)
  /\ taken' = IF buffer.p < buffer.cachedSize THEN taken + 1 ELSE taken
  /\ UNCHANGED <<rest, source, portions, tokenMarks, rules, ranOut>>

MarkToken ==
  /\ Seen /\ Len(tokenMarks) < MaxTokenMarks
  /\ buffer' = markToken(buffer)
  /\ tokenMarks' = Append(tokenMarks, [marker |-> buffer.p, taken |-> taken])
  /\ UNCHANGED <<rest, source, portions, taken, rules, ranOut>>

(* Rules begun after the mark have ended. *)
RewindToken(m) ==
  /\ \A i \in DOMAIN rules : rules[i].marks < m
  /\ buffer' = seekToken(buffer, tokenMarks[m].marker) /\ taken' = tokenMarks[m].taken
  /\ tokenMarks' = SubSeq(tokenMarks, 1, m - 1)
  /\ UNCHANGED <<rest, source, portions, rules, ranOut>>

(* The parser enters a rule.                                                *)
EnterRule ==
  /\ portions /\ source # <<>> /\ Len(rules) < MaxRules
  /\ LET l == LT(Filled, 1) IN
       /\ buffer' = l.f.b /\ rest' = l.f.rest
       /\ rules' = Append(rules, [start |-> l.at, atEnd |-> l.token = TOKEN_EOF,
                                  marks |-> Len(tokenMarks)])
  /\ UNCHANGED <<source, portions, taken, tokenMarks, ranOut>>

(* The token a rule began with has been erased: the rule reads its index    *)
(* from memory given back.                                                  *)
Dangling(r) == ~r.atEnd /\ buffer.tokens[r.start + 1] = Erased

(* The innermost rule ends, having noted its stop token or not.  While the  *)
(* parser backtracks nothing is erased.                                     *)
LeaveRule(noted) ==
  /\ rules # <<>> /\ Last(rules).marks = Len(tokenMarks)
  /\ LET r    == Last(rules)
         l    == LB(Filled, 1)
         stop == IF noted THEN l.at ELSE r.start
     IN /\ \E from \in IF Dangling(r) THEN 0..buffer.nissued ELSE {r.start + 1} :
             buffer' = IF tokenMarks = <<>> THEN discardTokens(l.f.b, from, stop - 1) ELSE l.f.b
        /\ ranOut' = (ranOut \/ r.atEnd)
  /\ rules' = Front(rules)
  /\ UNCHANGED <<rest, source, portions, taken, tokenMarks>>

TokenNext ==
  \/ \E toks \in Sources, s \in Settings, owning \in BOOLEAN : OpenTokens(toks, s, owning)
  \/ \E k \in {-1, 1, 2} : source # <<>> /\ Look(k)
  \/ ConsumeToken \/ MarkToken
  \/ \E m \in DOMAIN tokenMarks : RewindToken(m)
  \/ EnterRule \/ \E noted \in BOOLEAN : LeaveRule(noted)
-------------------------------------------------------------------------------
(* What the parser is to see, in the header's words: the tokens that are    *)
(* not discarded, on the channel that is set for their type if there is one, *)
(* and otherwise on their own; those on the stream's channel.               *)
Forced(tok) ==
  IF tok.type \in DOMAIN buffer.channelOverrides
  THEN [tok EXCEPT !.channel = buffer.channelOverrides[tok.type] - 1] ELSE tok
Visible ==
  LET kept == SelectSeq(source, LAMBDA tok : tok.type \notin buffer.discardSet)
  IN SelectSeq([i \in DOMAIN kept |-> Forced(kept[i])], onChannel)

(* With portions only: tokens off channel are left out of this, since the    *)
(* token after a full portion is not asked for its channel.                  *)
AllOnChannel == \A i \in DOMAIN Given(buffer, source) : onChannel(Given(buffer, source)[i])

SeesVisible ==
  LET ahead  == IF portions THEN TOKEN_FILL_BUFFER_INCREMENT ELSE Len(source) + 1
      behind == IF portions THEN 1 ELSE Len(source) + 1
      seen   == Visible
  IN source # <<>> /\ (portions => AllOnChannel) =>
       /\ \A k \in 1..ahead :
            LT(Filled, k).token = IF taken + k > Len(seen) THEN TOKEN_EOF ELSE seen[taken + k]
       /\ \A k \in 1..behind :
            LT(Filled, -k).token = IF k > taken THEN NoToken ELSE seen[taken - k + 1]
       /\ ranOut \/ \A i \in DOMAIN rules : ~Dangling(rules[i])

(* Wherever the parser has come by consuming, marking and rewinding, it     *)
(* sees the tokens on its channel, in their order and none twice or left    *)
(* out, ahead and behind, and the end of the file after them.  Where tokens *)
(* come in portions it looks no farther ahead than a portion and one token  *)
(* behind, whatever the rules that have ended have erased; the token a rule *)
(* under way began with is still there, unless a rule began at the end of   *)
(* the file: that one erases from index 1 on.  No channel has been set for  *)
(* a type: OverridesSeen is what the header says of that.                   *)
TokensTrue == buffer.channelOverrides = <<>> => SeesVisible

(* setTokenTypeChannel forces all tokens of a type to be on a channel        *)
(* (antlr3tokenstream.hpp:311).  The code forces those of the type before    *)
(* it: fillBuffer looks a token up under its type + 1.                       *)
OverridesSeen == buffer.channelOverrides # <<>> => SeesVisible
===============================================================================
