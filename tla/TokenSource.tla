------------------------------ MODULE TokenSource ------------------------------
(***************************************************************************)
(* The token source of the ANTLR runtime: TokenSource::nextToken            *)
(* (antlr3tokenstream) over a lexer with its stack of character streams     *)
(* (pushCharStream and popCharStream, antlr3lexer).  What the generated     *)
(* lexer makes of the next character is the kind of the character: a token, *)
(* a token that is skipped, the name of a file - a directive, skipped, that *)
(* pushes a stream on that file - or nothing any rule matches.              *)
(***************************************************************************)
EXTENDS Integers, Sequences, FiniteSets, SequencesExt

CONSTANTS
  Files,      \* from names to sequences of characters; none includes itself
  Skipped,    \* characters of skipped tokens
  Junk        \* characters no rule matches

VARIABLES
  streams,    \* the lexer's stack, the stream it reads last: [file, nextChar, markers]
  filtered,   \* IsFiltered, a choice of the generated lexer
  asked,      \* the stream nextTokenStr was called with, 0 outside it
  begun,      \* tokenStart of a filtered lexer
  given,      \* tokens given: [what, at, start], the place it was read and the place recorded
  atEOF       \* the end of the file has been given

sourceVars == <<streams, filtered, asked, begun, given, atEOF>>

NewCharStream(f) == [file |-> f, nextChar |-> 1, markers |-> <<>>]
AtEOF(s)  == s.nextChar > Len(Files[s.file])
LA1(s)    == Files[s.file][s.nextChar]
PlaceIn(s) == [file |-> s.file, nextChar |-> s.nextChar]

Reading == streams[Len(streams)]
LexerAt(kinds) == ~AtEOF(Reading) /\ LA1(Reading) \in kinds
Directives == DOMAIN Files

(* At the end nothing is consumed. *)
consumeIn(s)  == IF AtEOF(s) THEN s ELSE [s EXCEPT !.nextChar = @ + 1]
markIn(s)     == [s EXCEPT !.markers = Append(@, s.nextChar)]
rewindIn(s)   == [s EXCEPT !.nextChar = Last(s.markers), !.markers = Front(@)]
Advanced      == [streams EXCEPT ![Len(streams)] = consumeIn(@)]

pushCharStream(ss, f) == [ss EXCEPT ![Len(ss)] = markIn(@)] \o <<NewCharStream(f)>>

(* Mutant of popCharStream: the stream below has to begin anew. *)
popCharStreamReset(ss) == [Front(ss) EXCEPT ![Len(ss) - 1] = NewCharStream(@.file)]

popCharStream(ss) == [Front(ss) EXCEPT ![Len(ss) - 1] = rewindIn(@)]

Token(start) == [what |-> LA1(Reading), at |-> PlaceIn(Reading), start |-> start]
-------------------------------------------------------------------------------
SourceInit ==
  /\ streams = <<>> /\ filtered = FALSE /\ asked = 0 /\ atEOF = FALSE
  /\ begun = [file |-> "", nextChar |-> 0] /\ given = <<>>

OpenSource(f) ==
  /\ streams = <<>>
  /\ streams' = <<NewCharStream(f)>> /\ filtered' \in BOOLEAN
  /\ UNCHANGED <<asked, begun, given, atEOF>>

(* nextToken begins: the stream is looked up once.                          *)
NextToken ==
  /\ streams # <<>> /\ asked = 0 /\ ~atEOF
  /\ asked' = Len(streams) /\ begun' = PlaceIn(Reading)
  /\ UNCHANGED <<streams, filtered, given, atEOF>>

(* A round of nextTokenStr: the start of the token and the end of the file  *)
(* are looked for in the stream it was called with, and the lexer reads the *)
(* one that is the last by now.                                             *)
Round == asked # 0 /\ ~filtered /\ ~AtEOF(streams[asked])

GiveToken ==
  /\ Round /\ ~AtEOF(Reading) /\ ~LexerAt(Skipped \cup Junk \cup Directives)
  /\ given' = Append(given, Token(PlaceIn(streams[asked])))
  /\ streams' = Advanced /\ asked' = 0
  /\ UNCHANGED <<filtered, begun, atEOF>>

SkipToken ==
  /\ Round /\ LexerAt(Skipped)
  /\ streams' = Advanced
  /\ UNCHANGED <<filtered, asked, begun, given, atEOF>>

Include ==
  /\ Round /\ LexerAt(Directives)
  /\ streams' = pushCharStream(Advanced, LA1(Reading))
  /\ UNCHANGED <<filtered, asked, begun, given, atEOF>>

(* No rule matches; the error is reported and a character left out.         *)
Recover ==
  /\ Round /\ (AtEOF(Reading) \/ LexerAt(Junk))
  /\ streams' = Advanced
  /\ UNCHANGED <<filtered, asked, begun, given, atEOF>>

(* The stream nextTokenStr was called with is at its end: nextToken pops    *)
(* the last one and calls it again, or gives the end of the file.           *)
EndOfStream ==
  /\ asked # 0 /\ ~filtered /\ AtEOF(streams[asked])
  /\ IF Len(streams) > 1
     THEN streams' = popCharStream(streams) /\ asked' = Len(streams) - 1 /\ UNCHANGED atEOF
     ELSE asked' = 0 /\ atEOF' = TRUE /\ UNCHANGED streams
  /\ UNCHANGED <<filtered, begun, given>>

----------------------------------------------------------------------------
(* A filtered lexer passes over what no rule matches: every try marks the   *)
(* stream, and one that fails rewinds it.  What a rule skips is given too,  *)
(* a directive without its start, which a pushed stream takes away.         *)
FilterToken ==
  /\ asked # 0 /\ filtered /\ ~AtEOF(Reading) /\ ~LexerAt(Junk)
  /\ LET tried == [Advanced EXCEPT ![Len(streams)].markers = Append(@, Reading.nextChar)]
     IN streams' = IF LexerAt(Directives) THEN pushCharStream(tried, LA1(Reading)) ELSE tried
  /\ given' = Append(given, Token(IF LexerAt(Directives) THEN [begun EXCEPT !.nextChar = -1]
                                  ELSE begun))
  /\ asked' = 0
  /\ UNCHANGED <<filtered, begun, atEOF>>

FilterJunk ==
  /\ asked # 0 /\ filtered /\ LexerAt(Junk)
  /\ streams' = [streams EXCEPT ![Len(streams)] = consumeIn(rewindIn(markIn(@)))]
  /\ UNCHANGED <<filtered, asked, begun, given, atEOF>>

FilterEnd ==
  /\ asked # 0 /\ filtered /\ AtEOF(Reading)
  /\ asked' = 0 /\ atEOF' = TRUE
  /\ UNCHANGED <<streams, filtered, begun, given>>

SourceNext ==
  \/ \E f \in DOMAIN Files : OpenSource(f)
  \/ NextToken \/ GiveToken \/ SkipToken \/ Include \/ Recover \/ EndOfStream
  \/ FilterToken \/ FilterJunk \/ FilterEnd
-------------------------------------------------------------------------------
(* The characters of tokens in a file, with those of the files it includes. *)
RECURSIVE Inlined(_)
Inlined(f) ==
  FoldLeft(LAMBDA seen, c : IF c \in Directives THEN seen \o Inlined(c)
                            ELSE IF c \in Skipped \cup Junk THEN seen ELSE Append(seen, c),
           <<>>, Files[f])

RECURSIVE Including(_)
Including(f) == {f} \cup UNION {Including(g) : g \in ToSet(Files[f]) \cap Directives}

(* A directive that ends its file pushes a stream nothing is read from: the *)
(* end of the file is found in the stream before it.  And where a pushed    *)
(* file has no token, its end is not looked for.                            *)
Proper(f) ==
  \A g \in Including(f) :
    /\ Files[g] # <<>> => Last(Files[g]) \notin Directives
    /\ g # f => Inlined(g) # <<>>

What == [i \in DOMAIN given |-> given[i].what]

(* The parser sees a file with the files it includes in their places, each  *)
(* token once and in order, and the end only after the last of them; a      *)
(* token knows where it started, but for the first of an included file,     *)
(* which takes the place behind its directive.  A filtered lexer gives all  *)
(* that its rules match in a file without directives, and the junk before a *)
(* token counts as the token's.                                             *)
TokensInlined ==
  streams # <<>> =>
    LET f == streams[1].file IN
    /\ ~filtered /\ Proper(f) =>
         /\ IsPrefix(What, Inlined(f)) /\ (atEOF => What = Inlined(f))
         /\ asked # 0 => ~(AtEOF(Reading) /\ ~AtEOF(streams[asked]))
         /\ \A i \in DOMAIN given :
              given[i].start = given[i].at \/ given[i].start.file # given[i].at.file
    /\ filtered /\ Including(f) = {f} =>
         LET kept == SelectSeq(Files[f], LAMBDA c : c \notin Junk)
         IN /\ IsPrefix(What, kept) /\ (atEOF => What = kept)
            /\ \A i \in DOMAIN given :
                 \A k \in given[i].start.nextChar..given[i].at.nextChar - 1 : Files[f][k] \in Junk
===============================================================================
