------------------------------- MODULE Builtins --------------------------------
(***************************************************************************)
(* The builtins that print, make text of values and files, and list code.   *)
(* A builtin is called with the values of its window; it returns how many   *)
(* results it has written to the window's first slot, none or one.  What    *)
(* the others do to the heap is in module Heap.                             *)
(***************************************************************************)
EXTENDS Integers, Sequences, SequencesExt, FiniteSetsExt, TLC

CONSTANTS
  MaxInt,      \* the largest int
  Windows,     \* the arguments builtins are called with
  Formats,     \* the formats, as lists of pieces
  BufferSize,  \* what the buffer of format holds at first: 256
  MaxBuffer,   \* bound of the model: the largest buffer
  Bodies,      \* the codes of functions, by function: NewFunction or another
  Top,         \* the function of the top frame
  JunkNum      \* what is found where no value was written

VARIABLES
  written,     \* the files, by name
  bufSize,     \* the size of the static buffer
  made         \* the call made last: [name, begin, results, status, printed, listing, pieces]

builtinVars == <<written, bufSize, made>>

-------------------------------------------------------------------------------
(* Values of a script and their texts.  A text is a sequence of characters; *)
(* a number is counted in ten-millionths, one decimal more than %lf prints: *)
(* there are numbers that are whole, that are not, that no int can hold,    *)
(* and numbers whose difference is not printed.                             *)
Unit == 10^7
Nil == [type |-> "nil"]
fromBoolean(b)    == [type |-> "boolean", b |-> b]
fromNumber(num)   == [type |-> "number", num |-> num]
fromString(text)  == [type |-> "string", str |-> text]
fromArray(array)  == [type |-> "array", array |-> array]
fromFunction(func) == [type |-> "function", func |-> func]

Abs(n) == IF n < 0 THEN -n ELSE n

(* (int)num: the fraction is dropped; what no int can hold becomes the      *)
(* least int, which is what the processor's conversion gives.               *)
int(num) ==
  LET whole == IF num < 0 THEN -((-num) \div Unit) ELSE num \div Unit
  IN IF whole \in (-MaxInt - 1)..MaxInt THEN whole ELSE -MaxInt - 1

RECURSIVE Digits(_)
Digits(n) ==
  LET digit == <<"0", "1", "2", "3", "4", "5", "6", "7", "8", "9">>[(n % 10) + 1]
  IN IF n < 10 THEN <<digit>> ELSE Append(Digits(n \div 10), digit)

Sign(n) == IF n < 0 THEN <<"-">> ELSE <<>>

(* What %d and %f print; %f rounds to six decimals, and no number of the    *)
(* model lies half-way between two of them.                                 *)
Decimal(n) == Sign(n) \o Digits(Abs(n))
Fixed(num) ==
  LET millionths == (Abs(num) + 5) \div 10
      decimals   == Tail(Digits(10^6 + (millionths % 10^6)))
  IN Sign(num) \o Digits(millionths \div 10^6) \o <<".">> \o decimals

-------------------------------------------------------------------------------
(* format: prints into a static buffer.  The text is cut to what the buffer *)
(* holds with its terminator; only a text exactly as long as the buffer     *)
(* makes it larger, and is then printed again with arguments that have been *)
(* used up: the text is anything.                                           *)
Anything == <<"anything">>

Printed(text, size) ==
  IF Len(text) = size THEN [text |-> Anything, size |-> (size * 3) \div 2]
  ELSE [text |-> IF Len(text) < size THEN text ELSE SubSeq(text, 1, size - 1), size |-> size]

toString(v, size) ==
  CASE v.type = "nil"      -> [text |-> <<"n", "i", "l">>, size |-> size]
    [] v.type = "boolean"  -> [text |-> IF v.b THEN <<"true">> ELSE <<"false">>, size |-> size]
    [] v.type = "number"   -> Printed(IF Unit * int(v.num) = v.num THEN Decimal(int(v.num))
                                      ELSE Fixed(v.num), size)
    [] v.type = "string"   -> [text |-> v.str, size |-> size]
    [] v.type = "array"    -> Printed(<<"[array ", v.array, "]">>, size)
    [] v.type = "function" -> Printed(<<"[function ", v.func, "]">>, size)

(* The texts of values that are printed one after the other.                *)
RECURSIVE toStrings(_, _)
toStrings(values, size) ==
  IF values = <<>> THEN [text |-> <<>>, size |-> size]
  ELSE LET one  == toString(values[1], size)
           rest == toStrings(Tail(values), one.size)
       IN [text |-> one.text \o <<"\t">> \o rest.text, size |-> rest.size]

-------------------------------------------------------------------------------
NoBuiltin == [name |-> "none", begin |-> <<>>, results |-> <<>>, status |-> "ok",
              printed |-> <<>>, listing |-> <<>>, pieces |-> <<>>]
Called(name, window) == [NoBuiltin EXCEPT !.name = name, !.begin = window]

(* An ASSERT of a builtin that does not hold throws, before it changes a    *)
(* thing.                                                                   *)
Asserted(name, window, holds, call) ==
  IF holds THEN call ELSE [Called(name, window) EXCEPT !.status = "thrown"]

IsType(window, i, type) == i \in DOMAIN window /\ window[i].type = type

-------------------------------------------------------------------------------
(* What vsnprintf makes of one conversion, with the double and the string   *)
(* in a value's union: %d and %f take the double, which is next to 0 where  *)
(* the union holds a pointer, and what was there before in nil or behind a  *)
(* boolean's byte.                                                          *)
Number(v, junk) ==
  CASE v.type = "number" -> v.num
    [] v.type \in {"string", "array", "function"} -> 0
    [] OTHER -> junk

Wide(spec, s) ==      \* the width, if there is one
  IF Len(spec) = 3 /\ Len(s) < 2 THEN <<" ">> \o s ELSE s

Converted(spec, v, junk) ==
  CASE Last(spec) = "d" -> Wide(spec, Decimal(int(Number(v, junk))))
    [] Last(spec) = "f" -> Wide(spec, Fixed(Number(v, junk)))
    [] Last(spec) = "s" -> Wide(spec, IF v.type = "string" THEN v.str ELSE Anything)

(* The loop of buildin_format over what is left of the format; `buf` is the *)
(* literal text since the last conversion, `i` the number of the next       *)
(* argument.  A conversion ends at the next d, s or f; when there is none   *)
(* the search ends at the format's terminator, and throws.                  *)
Start(fmt, size) ==
  [fmt |-> fmt, r |-> <<>>, buf |-> <<>>, i |-> 2, size |-> size, status |-> "ok"]

Literal(f) == [f EXCEPT !.fmt = Tail(@), !.buf = Append(@, f.fmt[1])]

SpecEnds(fmt) == {k \in 2..Len(fmt) : fmt[k] \in {"d", "s", "f"}}

(* Two percent signs are vsnprintf's own literal: no argument is printed.   *)
(* A string that is no string, or the text when the buffer was too short by *)
(* its terminator alone, is undefined behaviour: the text is anything, if   *)
(* the program goes on.                                                     *)
Conversion(f, window, junk) ==
  IF SpecEnds(f.fmt) = {} THEN [f EXCEPT !.fmt = <<>>, !.status = "thrown"]
  ELSE LET end  == Min(SpecEnds(f.fmt))
           spec == SubSeq(f.fmt, 1, end)
           v    == IF f.i \in DOMAIN window THEN window[f.i] ELSE Nil
           plain == spec[2] = "%"
           one  == IF plain THEN [text |-> Tail(spec), size |-> f.size]
                   ELSE Printed(Converted(spec, v, junk), f.size)
           undefined == ~plain /\ (one.size # f.size \/ (Last(spec) = "s" /\ v.type # "string"))
       IN [f EXCEPT !.fmt = SubSeq(@, end + 1, Len(@)), !.r = @ \o f.buf \o one.text,
                    !.buf = <<>>, !.i = @ + 1, !.size = one.size,
                    !.status = IF undefined THEN "undefined" ELSE @]

(* Mutant of Formatted: what follows the last conversion is forgotten.      *)
RECURSIVE FormattedToConversion(_, _, _)
FormattedToConversion(f, window, junk) ==
  IF f.fmt = <<>> THEN f
  ELSE FormattedToConversion(IF f.fmt[1] = "%" THEN Conversion(f, window, junk) ELSE Literal(f),
                             window, junk)

RECURSIVE Formatted(_, _, _)
Formatted(f, window, junk) ==
  IF f.fmt = <<>> THEN [f EXCEPT !.r = @ \o f.buf]
  ELSE Formatted(IF f.fmt[1] = "%" THEN Conversion(f, window, junk) ELSE Literal(f), window, junk)

(* A format is made of literals, conversions with their width, and of what  *)
(* no format should have: a percent sign of its own.                        *)
FormatOf(pieces) == FlattenSeq(pieces)

Format(pieces, window, junk) ==
  LET call == <<fromString(FormatOf(pieces))>> \o window
      f    == Formatted(Start(FormatOf(pieces), bufSize), call, junk)
  IN /\ f.size <= MaxBuffer
     /\ bufSize' = f.size
     /\ made' = [Called("format", call) EXCEPT
                   !.status = f.status, !.pieces = pieces,
                   !.results = IF f.status = "thrown" THEN <<>> ELSE <<fromString(f.r)>>]
     /\ UNCHANGED written

FormatRefused(window) ==
  /\ ~IsType(window, 1, "string")
  /\ made' = Asserted("format", window, FALSE, NoBuiltin)
  /\ UNCHANGED <<written, bufSize>>

-------------------------------------------------------------------------------
(* print and println; println ends the line also when there is no argument. *)
PrintValues(name, window) ==
  LET all == toStrings(window, bufSize)
  IN /\ all.size <= MaxBuffer
     /\ bufSize' = all.size
     /\ made' = [Called(name, window) EXCEPT
                   !.printed = IF name = "println" THEN Append(all.text, "\n") ELSE all.text]
     /\ UNCHANGED written

Tostring(window) ==
  LET one == IF window = <<>> THEN [text |-> <<>>, size |-> bufSize]
             ELSE toString(window[1], bufSize)
  IN /\ one.size <= MaxBuffer
     /\ bufSize' = one.size
     /\ made' = Asserted("tostring", window, window # <<>>,
                  [Called("tostring", window) EXCEPT !.results = <<fromString(one.text)>>])
     /\ UNCHANGED written

Type(window) ==
  /\ made' = Asserted("type", window, window # <<>>,
               [Called("type", window) EXCEPT !.results = <<fromString(<<window[1].type>>)>>])
  /\ UNCHANGED <<written, bufSize>>

(* clock, random and time give a number that was not foreseen, whatever the *)
(* arguments; srand asks for one.                                           *)
ReadNumber(name, window, num) ==
  /\ made' = [Called(name, window) EXCEPT !.results = <<fromNumber(num)>>]
  /\ UNCHANGED <<written, bufSize>>

Srand(window) ==
  /\ made' = Asserted("srand", window, IsType(window, 1, "number"), Called("srand", window))
  /\ UNCHANGED <<written, bufSize>>

-------------------------------------------------------------------------------
(* The lines getline finds: the text between newlines; after the last one   *)
(* there is a line only if there is text.                                   *)
RECURSIVE getlines(_)
getlines(text) ==
  IF text = <<>> THEN <<>>
  ELSE IF "\n" \notin ToSet(text) THEN <<text>>
  ELSE LET n == Min({k \in DOMAIN text : text[k] = "\n"})
       IN <<SubSeq(text, 1, n - 1)>> \o getlines(SubSeq(text, n + 1, Len(text)))

(* A file that cannot be opened has no lines.                               *)
Contents(name) == IF name \in DOMAIN written THEN written[name] ELSE <<>>

Readfile(window) ==
  /\ made' = Asserted("readfile", window, IsType(window, 1, "string"),
               [Called("readfile", window) EXCEPT !.results =
                 LET lines == getlines(Contents(window[1].str))
                 IN <<fromString(FlattenSeq([i \in DOMAIN lines |-> Append(lines[i], "\n")]))>>])
  /\ UNCHANGED <<written, bufSize>>

Writefile(window) ==
  LET holds == IsType(window, 1, "string") /\ IsType(window, 2, "string")
  IN /\ made' = Asserted("writefile", window, holds, Called("writefile", window))
     /\ written' = IF holds THEN (window[1].str :> window[2].str) @@ written ELSE written
     /\ UNCHANGED bufSize

-------------------------------------------------------------------------------
(* disassemble: a line for each instruction of a body, and below the line   *)
(* of a NewFunction those of the function it makes.                         *)
RECURSIVE disassemble(_, _)
disassemble(func, depth) ==
  LET codes == Bodies[func]
      line(i) == [depth |-> depth, number |-> i, code |-> codes[i]]
  IN FlattenSeq([i \in DOMAIN codes |->
       <<line(i)>> \o (IF codes[i].op = "NewFunction" THEN disassemble(codes[i].func, depth + 1)
                       ELSE <<>>)])

(* Without an argument it is the function of the top frame, the caller: a   *)
(* builtin has no frame.                                                    *)
Disassemble(window) ==
  LET func == IF window = <<>> THEN Top ELSE window[1].func
  IN /\ made' = Asserted("disassemble", window,
                  window = <<>> \/ (IsType(window, 1, "function") /\ window[1].func \in DOMAIN Bodies),
                  [Called("disassemble", window) EXCEPT
                     !.listing = disassemble(func, 0), !.results = <<fromString(Anything)>>])
     /\ UNCHANGED <<written, bufSize>>

-------------------------------------------------------------------------------
BuiltinInit ==
  /\ written = <<>>
  /\ bufSize = BufferSize
  /\ made = NoBuiltin

(* callFromVM: what the call leaves in the first slot of its window; nil    *)
(* when there is no result.  Then the interpreter goes on.                  *)
ReturnValue == IF made.results = <<>> THEN Nil ELSE made.results[1]

Returned ==
  /\ made # NoBuiltin
  /\ made' = NoBuiltin
  /\ UNCHANGED <<written, bufSize>>

BuiltinCalled ==
  \/ \E window \in Windows :
       \/ \E name \in {"print", "println"} : PrintValues(name, window)
       \/ Tostring(window)
       \/ Type(window)
       \/ \E name \in {"clock", "random", "time"} : ReadNumber(name, window, JunkNum)
       \/ Srand(window)
       \/ Readfile(window)
       \/ Writefile(window)
       \/ Disassemble(window)
       \/ FormatRefused(window)
  \/ \E pieces \in Formats, window \in Windows : Format(pieces, window, JunkNum)

BuiltinNext == (made = NoBuiltin /\ BuiltinCalled) \/ Returned
-------------------------------------------------------------------------------
IsConversion(piece) == piece[1] = "%"
WellFormed(piece) == IsConversion(piece) => Len(piece) > 1 /\ piece[2] # "%"

(* The argument the k-th piece prints, if it is a conversion; the first     *)
(* value of the call is the format.                                         *)
ArgumentOf(pieces, k) == 1 + Cardinality({j \in 1..k : IsConversion(pieces[j])})

(* What is meant: literals stand for themselves, a conversion for its       *)
(* argument, if that is there, of its type, and the buffer can hold it.     *)
Meant(pieces, call, k) ==
  LET v == call[ArgumentOf(pieces, k)]
  IN IF ~IsConversion(pieces[k]) THEN pieces[k]
     ELSE Wide(pieces[k], CASE Last(pieces[k]) = "d" -> Decimal(int(v.num))
                            [] Last(pieces[k]) = "f" -> Fixed(v.num)
                            [] Last(pieces[k]) = "s" -> v.str)

FormatTrue ==
  LET pieces == made.pieces IN
  /\ made.name = "format" /\ IsType(made.begin, 1, "string")
  /\ (\A k \in DOMAIN pieces : WellFormed(pieces[k]))
  /\ \A k \in DOMAIN pieces : IsConversion(pieces[k]) =>
       /\ IsType(made.begin, ArgumentOf(pieces, k),
                 IF Last(pieces[k]) = "s" THEN "string" ELSE "number")
       /\ Len(Meant(pieces, made.begin, k)) < BufferSize
  => ReturnValue = fromString(FlattenSeq([k \in DOMAIN pieces |-> Meant(pieces, made.begin, k)]))

(* Numbers with the same text, if the buffer can hold it, differ by less    *)
(* than the last decimal printed, and an int has a text of its own.         *)
IsInt(num) == Unit * int(num) = num
NumbersTold ==
  made.name = "tostring" /\ IsType(made.begin, 1, "number") =>
    \A window \in Windows : IsType(window, 1, "number") =>
      LET other == toString(window[1], bufSize).text
          m     == window[1].num
          n     == made.begin[1].num
      IN other = ReturnValue.str /\ other # Anything /\ Len(other) < bufSize - 1
         => m = n \/ (~IsInt(m) /\ ~IsInt(n) /\ Abs(m - n) < 10)

(* What was written is what is read, its last line ended.                   *)
ReadBack ==
  made.name = "readfile" /\ made.status = "ok" /\ made.begin[1].str \in DOMAIN written =>
    LET text == written[made.begin[1].str]
    IN ReturnValue.str = IF text = <<>> \/ Last(text) = "\n" THEN text ELSE Append(text, "\n")

(* A listing has all instructions of a body in their order, and behind each *)
(* NewFunction, deeper by one, the listing of what it makes.                *)
Listed ==
  LET lines == made.listing IN
  \A i \in DOMAIN lines :
    LET deeper == lines[i].code.op = "NewFunction"
        after  == {j \in DOMAIN lines : j > i /\ lines[j].depth <= lines[i].depth}
    IN /\ deeper => i < Len(lines) /\ lines[i + 1].depth = lines[i].depth + 1
                    /\ lines[i + 1].number = 1
                    /\ lines[i + 1].code = Bodies[lines[i].code.func][1]
       /\ after # {} =>
            LET next == lines[Min(after)]
            IN next.depth < lines[i].depth \/ next.number = lines[i].number + 1
       /\ ~deeper /\ i < Len(lines) => lines[i + 1].depth <= lines[i].depth

(* What the builtins make of values, files and code is what was meant: a    *)
(* format gives its literals and its arguments in their order, whatever the *)
(* earlier calls have done to the buffer they share; the text of a number   *)
(* tells it as far as it is printed, and ints from all others; a file is    *)
(* read as it was written; a listing has every instruction at its place.    *)
TextsTrue == FormatTrue /\ NumbersTold /\ ReadBack /\ Listed
===============================================================================
