------------------------------- MODULE CharInput -------------------------------
(***************************************************************************)
(* The character streams of the ANTLR runtime: InputStream (antlr3input)    *)
(* with IntStream for text of one byte a character and UTF8_IntStream       *)
(* (antlr3intstream).  These two are the classes a stream can be made of:   *)
(* with EBCDIC_IntStream, UTF16_IntStream or UTF32_IntStream the            *)
(* constructors of InputStream do not compile (setupIntStream has other     *)
(* parameters, the data other units), and UTF8_IntStream takes a compiler   *)
(* that lets a const pointer become another one (g++ -fpermissive).         *)
(* Pointers into the buffer are offsets from its start.  A stream is        *)
(*                                                                         *)
(*   class, encoding    what it was created with; a program chooses the     *)
(*                      class when it is compiled, the encoding later       *)
(*   data               the bytes                                           *)
(*   nextChar, line, charPositionInLine, currentLine    its place           *)
(*   markDepth, markers, lastMarker                     its marks           *)
(*   upperCase          lookahead is given in upper case                    *)
(*                                                                         *)
(* This program takes IntStream and text of 8 bits.                         *)
(***************************************************************************)
EXTENDS Integers, Sequences, FiniteSets, FiniteSetsExt, SequencesExt, TLC

CONSTANTS
  Texts,      \* the texts read, sequences of code points
  MaxMarks    \* bound of the model: marks open at once

ANTLR_CHARSTREAM_EOF == -1
NewlineChar == 10
BOM == 65279

VARIABLES
  stream,
  text,       \* the characters the data encode
  at,         \* how many of them have been read
  first,      \* how many of them were passed over when the stream was created
  sought,     \* a forward seek has passed a character of several bytes
  marks       \* the open marks: [marker, at], the place as a number of characters read

charVars == <<stream, text, at, first, sought, marks>>
-------------------------------------------------------------------------------
(* The classes and the encodings; the other encodings belong to classes     *)
(* that cannot be built.                                                    *)
Classes   == {"IntStream", "UTF8_IntStream"}
Encodings == {"8BIT", "UTF8"}

EncodeUTF8(c) ==
  CASE c < 128   -> <<c>>
    [] c < 2048  -> <<192 + c \div 64, 128 + (c % 64)>>
    [] c < 65536 -> <<224 + c \div 4096, 128 + ((c \div 64) % 64), 128 + (c % 64)>>
    [] OTHER     -> <<240 + c \div 262144, 128 + ((c \div 4096) % 64),
                      128 + ((c \div 64) % 64), 128 + (c % 64)>>

(* The bytes of a text.                                                     *)
Encoded(class, t) ==
  IF class = "IntStream" THEN t
  ELSE FoldLeft(LAMBDA bytes, c : bytes \o EncodeUTF8(c), <<>>, t)

(* trailingBytesForUTF8 and offsetsFromUTF8, up to the 3 trailing bytes of  *)
(* legal UTF-8.                                                             *)
TrailingBytesForUTF8(byte) ==
  CASE byte < 192 -> 0 [] byte < 224 -> 1 [] byte < 240 -> 2 [] byte < 248 -> 3
    [] byte < 252 -> 4 [] OTHER -> 5
OffsetsFromUTF8 == <<0, 12416, 925824, 63447168>>

AtEnd(in, p) == p >= Len(in.data)
Byte(in, p) == in.data[p + 1]

(* The bytes of a character shifted together, less the magic offset; none   *)
(* (end of file) where the data end before it does.                         *)
CharAt(in, p) ==
  LET extra == TrailingBytesForUTF8(Byte(in, p))
  IN IF AtEnd(in, p) \/ AtEnd(in, p + extra) THEN ANTLR_CHARSTREAM_EOF
     ELSE FoldLeft(LAMBDA ch, byte : ch * 64 + byte, 0, SubSeq(in.data, p + 1, p + 1 + extra))
            - OffsetsFromUTF8[extra + 1]

toupper(c) == IF c \in 97..122 THEN c - 32 ELSE c

-------------------------------------------------------------------------------
(* The operations of a stream. *)

(* reset: everything but lastMarker and upperCase.                          *)
reset(in) ==
  [in EXCEPT !.nextChar = 0, !.line = 1, !.charPositionInLine = -1, !.currentLine = 0,
             !.markDepth = 0, !.markers = <<>>]

genericSetup(class, encoding, data) ==
  reset([class |-> class, encoding |-> encoding, data |-> data, nextChar |-> 0, line |-> 1,
         charPositionInLine |-> -1, currentLine |-> 0, markDepth |-> 0, markers |-> <<>>,
         lastMarker |-> 0, upperCase |-> FALSE])

(* setupInputStream: a byte order mark is no part of UTF-8 text.            *)
setupInputStream(in) ==
  IF in.encoding = "UTF8" /\ IsPrefix(EncodeUTF8(BOM), in.data)
  THEN [in EXCEPT !.nextChar = @ + 3] ELSE in

NewStream(class, encoding, data) == setupInputStream(genericSetup(class, encoding, data))

(* reuse: the stream is set to new data, with the routines it has.          *)
reuse(in, data) == reset([in EXCEPT !.data = data])

(* What every consume does with a character c of n bytes.                   *)
Past(in, n, c) ==
  [in EXCEPT !.nextChar = @ + n,
             !.line = IF c = NewlineChar THEN @ + 1 ELSE @,
             !.charPositionInLine = IF c = NewlineChar THEN 0 ELSE @ + 1,
             !.currentLine = IF c = NewlineChar THEN in.nextChar + n ELSE @]

consume8Bit(in) == IF AtEnd(in, in.nextChar) THEN in ELSE Past(in, 1, Byte(in, in.nextChar))

(* A character that is cut off by the end of the data ends them.            *)
consumeUTF8(in) ==
  IF AtEnd(in, in.nextChar) THEN in
  ELSE LET extra == TrailingBytesForUTF8(Byte(in, in.nextChar))
       IN IF AtEnd(in, in.nextChar + extra)
          THEN [in EXCEPT !.charPositionInLine = @ + 1, !.nextChar = Len(in.data)]
          ELSE Past(in, extra + 1, CharAt(in, in.nextChar))

consume(in) == IF in.class = "UTF8_IntStream" THEN consumeUTF8(in) ELSE consume8Bit(in)

LA8Bit(in, la) ==
  LET p == in.nextChar + la - 1
  IN IF AtEnd(in, p) THEN ANTLR_CHARSTREAM_EOF
     ELSE IF in.upperCase THEN toupper(Byte(in, p)) ELSE Byte(in, p)

RECURSIVE Ahead(_, _, _), Back(_, _, _), Lead(_, _)
(* n characters on from p, or beyond the end.                               *)
Ahead(in, p, n) ==
  IF n = 0 \/ AtEnd(in, p) THEN p
  ELSE Ahead(in, p + TrailingBytesForUTF8(Byte(in, p)) + 1, n - 1)
(* From p back to a byte that begins a character.                           *)
Lead(in, p) == IF Byte(in, p) \in 128..191 THEN Lead(in, p - 1) ELSE p
(* n characters back from p, or to the start.                               *)
Back(in, p, n) == IF n = 0 \/ p = 0 THEN p ELSE Back(in, Lead(in, p - 1), n - 1)

(* LA of UTF-8 text; it knows no upper case, and looks one byte beyond the  *)
(* data at their end before it answers that they have ended.                *)
LAUTF8(in, la) ==
  LET p == IF la > 1 THEN Ahead(in, in.nextChar, la - 1)
           ELSE Back(in, in.nextChar, IF la < 0 THEN -la ELSE 0)
  IN IF AtEnd(in, p) THEN ANTLR_CHARSTREAM_EOF ELSE CharAt(in, p)

LA(in, la) == IF in.class = "UTF8_IntStream" THEN LAUTF8(in, la) ELSE LA8Bit(in, la)

(* Mutant of mark: a mark is always added at the end. *)
markAppend(in) ==
  [in EXCEPT !.markDepth = @ + 1, !.lastMarker = in.markDepth + 1,
             !.markers = Append(@, [nextChar |-> in.nextChar, line |-> in.line,
                charPositionInLine |-> in.charPositionInLine, currentLine |-> in.currentLine])]

(* mark: an entry that was released is used again.                          *)
mark(in) ==
  LET state == [nextChar |-> in.nextChar, line |-> in.line,
                charPositionInLine |-> in.charPositionInLine, currentLine |-> in.currentLine]
  IN [in EXCEPT !.markDepth = @ + 1, !.lastMarker = in.markDepth + 1,
                !.markers = IF in.markDepth + 1 > Len(@) THEN Append(@, state)
                            ELSE [@ EXCEPT ![in.markDepth + 1] = state]]

release(in, m) == [in EXCEPT !.markDepth = m - 1]

(* seek: back, the pointer is set; forward, the bytes between are consumed  *)
(* one by one, by the consume of 8-bit text: UTF-8 streams have no seek of   *)
(* their own.                                                               *)
seek(in, p) ==
  IF p <= in.nextChar THEN [in EXCEPT !.nextChar = p]
  ELSE FoldLeft(LAMBDA past, i : consume8Bit(past), in, [i \in 1..(p - in.nextChar) |-> i])

rewind(in, m) ==
  LET state == in.markers[m]
  IN [seek(release(in, m), state.nextChar) EXCEPT
        !.nextChar = state.nextChar, !.line = state.line,
        !.charPositionInLine = state.charPositionInLine, !.currentLine = state.currentLine]

(* rewindLast: of the last mark that was set, whether it is open or not.    *)
rewindLast(in) == rewind(in, in.lastMarker)
-------------------------------------------------------------------------------
(* The clients: a recogniser that marks and rewinds like a stack, and the   *)
(* memory of rules, which seeks forward to a place it knows.  at, text and  *)
(* marks follow what antlr3intstream.hpp says of the operations; where the   *)
(* code does otherwise, the client keeps away, as is said there.            *)

CharInit ==
  /\ text = <<>> /\ at = 0 /\ first = 0 /\ sought = FALSE /\ marks = <<>>
  /\ stream = NewStream("IntStream", "8BIT", <<>>)

Fits(class, t) == class = "IntStream" => \A i \in DOMAIN t : t[i] < 256

(* The byte order mark is one character, or three for those who see bytes.  *)
OrderMark(class) == IF class = "IntStream" THEN EncodeUTF8(BOM) ELSE <<BOM>>

OpenStream(class, encoding, t) ==
  /\ stream.data = <<>> /\ t # <<>> /\ Fits(class, t)
  /\ stream' = NewStream(class, encoding, Encoded(class, t))
  /\ first' = IF encoding = "UTF8" /\ IsPrefix(OrderMark(class), t) THEN Len(OrderMark(class)) ELSE 0
  /\ text' = t /\ marks' = <<>> /\ at' = first' /\ UNCHANGED sought

Consume ==
  /\ stream' = consume(stream) /\ at' = Min({at + 1, Len(text)})
  /\ UNCHANGED <<text, first, sought, marks>>

(* The code gives a mark that rewindLast has kept its number again: from    *)
(* then on the client does not use it.                                      *)
Mark ==
  /\ stream.markDepth < MaxMarks
  /\ stream' = mark(stream)
  /\ marks' = Append(SelectSeq(marks, LAMBDA m : m.marker # stream'.lastMarker),
                     [marker |-> stream'.lastMarker, at |-> at])
  /\ UNCHANGED <<text, first, sought, at>>

(* Back to the k-th open mark, which is released and those behind it.       *)
Rewind(k) ==
  /\ stream' = rewind(stream, marks[k].marker) /\ at' = marks[k].at
  /\ marks' = SubSeq(marks, 1, k - 1)
  /\ UNCHANGED <<text, first, sought>>

(* Back to the last mark, which stays.  The client asks for it only while   *)
(* the mark set last is open: the code takes no other.                      *)
RewindLast ==
  /\ marks # <<>> /\ stream.lastMarker = Last(marks).marker
  /\ stream' = rewindLast(stream) /\ at' = Last(marks).at
  /\ UNCHANGED <<text, first, sought, marks>>

Release(k) ==
  /\ stream' = release(stream, marks[k].marker) /\ marks' = SubSeq(marks, 1, k - 1)
  /\ UNCHANGED <<text, first, sought, at>>

Offset(n) == Len(Encoded(stream.class, SubSeq(text, 1, n)))

Seek(n) ==
  /\ stream' = seek(stream, Offset(n)) /\ at' = n
  /\ sought' = (sought \/ Offset(n) - Offset(at) > n - at)
  /\ UNCHANGED <<text, first, marks>>

(* reset and reuse pass over no byte order mark. *)
Reset ==
  /\ stream' = reset(stream) /\ at' = 0 /\ first' = 0 /\ sought' = FALSE /\ marks' = <<>>
  /\ UNCHANGED text

Reuse(t) ==
  /\ stream.data # <<>> /\ Fits(stream.class, t)
  /\ stream' = reuse(stream, Encoded(stream.class, t))
  /\ text' = t /\ at' = 0 /\ first' = 0 /\ sought' = FALSE /\ marks' = <<>>

setUcaseLA(flag) ==
  stream' = [stream EXCEPT !.upperCase = flag] /\ UNCHANGED <<text, at, first, sought, marks>>

CharNext ==
  \/ \E class \in Classes, encoding \in Encodings, t \in Texts : OpenStream(class, encoding, t)
  \/ Consume \/ Mark \/ RewindLast \/ Reset
  \/ \E flag \in BOOLEAN : setUcaseLA(flag)
  \/ \E k \in DOMAIN marks : Rewind(k) \/ Release(k)
  \/ \E n \in (at + 1)..Len(text) : Seek(n)
  \/ \E t \in Texts : Reuse(t)
-------------------------------------------------------------------------------
(* The place before the character n + 1 of the text. *)
Place(n) ==
  LET newlines == {i \in 1..n : text[i] = NewlineChar}
      start    == IF newlines = {} THEN 0 ELSE Max(newlines)
  IN [nextChar |-> Offset(n), line |-> Cardinality(newlines) + 1,
      currentLine |-> Offset(start),
      charPositionInLine |-> IF start = 0 THEN n - 1 - first ELSE n - start]

(* What a mark keeps of a stream; the column is lost when bytes are sought   *)
(* over.                                                                    *)
PlaceOf(in) == [nextChar |-> in.nextChar, line |-> in.line, currentLine |-> in.currentLine,
                charPositionInLine |-> in.charPositionInLine]
SamePlace(p, q) ==
  p = IF sought THEN [q EXCEPT !.charPositionInLine = p.charPositionInLine] ELSE q

(* Lookahead is in upper case if that is asked for: UTF-8 streams do not.    *)
Shown(c) == IF stream.upperCase THEN toupper(c) ELSE c
AsAsked  == stream.class = "IntStream" \/ ~stream.upperCase

(* After consuming, marking, rewinding to an open mark and seeking forward,  *)
(* the stream stands before the character the header's words lead to, with   *)
(* its line, its column and the start of the line, and every open mark keeps *)
(* its place: also after rewindLast, until the next mark takes its number    *)
(* (the header has no such limit).  Lookahead gives the characters that      *)
(* follow and at their end the end of file, and in UTF-8 text those before   *)
(* the place too, as far back as asked.  Not claimed: columns once a UTF-8   *)
(* character of several bytes has been sought over, which counts as many     *)
(* columns as bytes; upper case of UTF-8 text; what 8-bit streams give       *)
(* behind the place, one character farther than asked; and rewindLast when   *)
(* the mark set last is closed.                                              *)
CharsTrue ==
  /\ SamePlace(PlaceOf(stream), Place(at))
  /\ \A k \in DOMAIN marks : SamePlace(stream.markers[marks[k].marker], Place(marks[k].at))
  /\ AsAsked =>
       /\ \A n \in 1..(Len(text) + 1) :
            LA(stream, n) = IF at + n > Len(text) THEN ANTLR_CHARSTREAM_EOF ELSE Shown(text[at + n])
       /\ stream.class = "UTF8_IntStream" =>
            \A n \in 1..at : LA(stream, -n) = text[at - n + 1]
===============================================================================
