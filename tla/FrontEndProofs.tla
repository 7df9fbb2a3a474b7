---------------------------- MODULE FrontEndProofs ----------------------------
(***************************************************************************)
(* Proofs about the lexer and the parser, for every file, every choice of   *)
(* first sets that FirstAssumption allows, and whatever the predicates say. *)
(***************************************************************************)
EXTENDS FrontEndProperties, FiniteSetTheorems, SequenceTheorems, TLAPS

Next2(n, x) == x
Scan == INSTANCE Induction WITH Start <- 0, Step <- Next2

-----------------------------------------------------------------------------
(* The character stream.                                                    *)

Chars == STRING \ {EndOfText}

NewlinesTo(text, place) == {k \in 1..place : text[k] = Newline}

(* IsPlaced, of any text.                                                   *)
Placed(text, r, place) ==
  /\ r.line = Cardinality(NewlinesTo(text, place)) + 1
  /\ r.charPositionInLine =
       place - 1 - (IF NewlinesTo(text, place) = {} THEN 0 ELSE Max(NewlinesTo(text, place)) - 1)

InputTrue(in) ==
  /\ in \in [text : Seq(Chars), nextChar : Nat, line : Nat, charPositionInLine : Int,
             currentLine : Int]
  /\ in.nextChar <= Len(in.text)
  /\ Placed(in.text, in, in.nextChar)

(* A stream that has come from another.                                     *)
Reached(in, new) == InputTrue(new) /\ new.text = in.text /\ new.nextChar >= in.nextChar

LEMMA MaxOf ==
  ASSUME NEW S \in SUBSET Nat, NEW m \in S, \A n \in S : n <= m
  PROVE  Max(S) = m
<1>1. \E x \in S : \A y \in S : x >= y
  OBVIOUS
<1>2. Max(S) \in S /\ \A y \in S : Max(S) >= y
  BY <1>1 DEF Max
<1>3. Max(S) \in Nat /\ m \in Nat /\ Max(S) <= m /\ m <= Max(S)
  BY <1>2
<1> QED
  BY <1>3

LEMMA NewlinesFinite ==
  ASSUME NEW text, NEW place \in Nat
  PROVE  /\ IsFiniteSet(NewlinesTo(text, place)) /\ Cardinality(NewlinesTo(text, place)) \in Nat
         /\ NewlinesTo(text, place) # {} =>
              /\ Max(NewlinesTo(text, place)) \in NewlinesTo(text, place)
              /\ \A k \in NewlinesTo(text, place) : k <= Max(NewlinesTo(text, place))
<1> DEFINE S == NewlinesTo(text, place)
<1>1. S \in SUBSET (1..place) /\ S \in SUBSET Nat /\ \A k \in S : k <= place
  BY DEF NewlinesTo
<1> HIDE DEF S
<1>2. IsFiniteSet(S) /\ Cardinality(S) \in Nat
  <2>1. IsFiniteSet(1..place)
    BY FS_Interval
  <2> QED
    BY <2>1, <1>1, FS_Subset, FS_CardinalityType
<1>3. ASSUME S # {} PROVE Max(S) \in S /\ \A k \in S : k <= Max(S)
  <2>1. PICK m \in S : \A n \in S : m >= n
    BY <1>1, <1>3, Scan!Greatest
  <2> QED
    BY <1>1, <2>1, MaxOf
<1> QED
  BY <1>2, <1>3 DEF S

(* A place after a newline, of a stream or a token. *)
LEMMA PlacedAfter ==
  ASSUME NEW text, NEW place, NEW all, all = NewlinesTo(text, place), all # {}, NEW r,
         r.line = Cardinality(all) + 1, r.charPositionInLine = place - 1 - (Max(all) - 1)
  PROVE  Placed(text, r, place)
BY DEF Placed

LEMMA NewInputTrue ==
  ASSUME NEW text \in Seq(Chars)
  PROVE  InputTrue(NewInput(text))
<1>1. NewlinesTo(text, 0) = {}
  BY DEF NewlinesTo
<1>2. Cardinality(NewlinesTo(text, 0)) = 0
  BY <1>1, FS_EmptySet
<1>3. Placed(text, NewInput(text), 0)
  BY <1>1, <1>2 DEF NewInput, Placed
<1> QED
  BY <1>3 DEF InputTrue, NewInput

(* As many of n characters as there are.                                    *)
Taken(in, n) == IF n < Len(in.text) - in.nextChar THEN n ELSE Len(in.text) - in.nextChar

(* The newlines among the next m characters are the new ones.               *)
LEMMA NewlinesAhead ==
  ASSUME NEW in, InputTrue(in), NEW m \in 0..(Len(in.text) - in.nextChar),
         NEW ends, ends = {i \in 1..m : LAChar(in, i) = Newline}
  PROVE  /\ NewlinesTo(in.text, in.nextChar + m) =
              NewlinesTo(in.text, in.nextChar) \union {in.nextChar + i : i \in ends}
         /\ IsFiniteSet(ends) /\ Cardinality(ends) \in Nat
         /\ Cardinality(NewlinesTo(in.text, in.nextChar + m)) =
              Cardinality(NewlinesTo(in.text, in.nextChar)) + Cardinality(ends)
<1> DEFINE at == in.nextChar
           old == NewlinesTo(in.text, at)
           new == {at + i : i \in ends}
           all == NewlinesTo(in.text, at + m)
<1>1. at \in Nat /\ Len(in.text) \in Nat /\ at + m <= Len(in.text) /\ m \in Nat
  BY DEF InputTrue
<1>2. ASSUME NEW i \in 1..m PROVE LAChar(in, i) = in.text[at + i]
  BY <1>1 DEF LAChar
<1>3. all = old \union new
  <2>1. ASSUME NEW k \in all PROVE k \in old \union new
    <3>1. k \in 1..(at + m) /\ in.text[k] = Newline
      BY DEF NewlinesTo
    <3>2. CASE k <= at
      BY <3>1, <3>2, <1>1 DEF NewlinesTo
    <3>3. CASE k > at
      <4>1. k - at \in 1..m /\ at + (k - at) = k
        BY <3>1, <3>3, <1>1
      <4>2. k - at \in ends
        BY <4>1, <3>1, <1>2
      <4> QED
        BY <4>1, <4>2
    <3> QED
      BY <3>1, <3>2, <3>3, <1>1
  <2>2. old \subseteq all
    BY <1>1 DEF NewlinesTo
  <2>3. ASSUME NEW i \in ends PROVE at + i \in all
    <3>1. i \in 1..m /\ in.text[at + i] = Newline
      BY <1>2
    <3> QED
      BY <3>1, <1>1 DEF NewlinesTo
  <2> HIDE DEF all, old
  <2> QED
    BY <2>1, <2>2, <2>3
<1>4. IsFiniteSet(ends) /\ Cardinality(ends) \in Nat
  <2>1. IsFiniteSet(1..m) /\ ends \in SUBSET (1..m)
    BY FS_Interval
  <2> QED
    BY <2>1, FS_Subset, FS_CardinalityType
<1>5. IsFiniteSet(new) /\ Cardinality(new) = Cardinality(ends)
  <2> DEFINE shift == [i \in ends |-> at + i]
  <2>1. shift \in Bijection(ends, new)
    BY <1>1 DEF Bijection, Injection, Surjection, IsInjective
  <2>2. ExistsBijection(ends, new)
    BY <2>1 DEF ExistsBijection
  <2> HIDE DEF new
  <2> QED
    BY <2>2, <1>4, FS_Bijection
<1>6. old \intersect new = {}
  BY <1>1 DEF NewlinesTo
<1>7. IsFiniteSet(old) /\ Cardinality(old) \in Nat
  BY <1>1, NewlinesFinite
<1>8. Cardinality(old \union new) = Cardinality(old) + Cardinality(new)
  <2> HIDE DEF old, new
  <2>1. Cardinality(old \union new)
          = Cardinality(old) + Cardinality(new) - Cardinality(old \intersect new)
    BY <1>5, <1>7, FS_Union
  <2>2. Cardinality(old \intersect new) = 0
    BY <1>6, FS_EmptySet
  <2>3. Cardinality(new) \in Nat /\ Cardinality(old) \in Nat
    BY <1>5, <1>7, FS_CardinalityType
  <2> QED
    BY <2>1, <2>2, <2>3
<1> QED
  BY <1>3, <1>4, <1>5, <1>8

(* consumeChar keeps the place true.                                        *)
LEMMA ConsumeTrue ==
  ASSUME NEW in, InputTrue(in), NEW n \in Nat
  PROVE  /\ Reached(in, consumeChar(in, n))
         /\ consumeChar(in, n).nextChar = in.nextChar + Taken(in, n)
         /\ n > 0 /\ ~AtEnd(in) => consumeChar(in, n).nextChar > in.nextChar
<1> DEFINE m == Taken(in, n)
           ends == {i \in 1..m : LAChar(in, i) = Newline}
           new == consumeChar(in, n)
           at == in.nextChar
           old == NewlinesTo(in.text, at)
           all == NewlinesTo(in.text, at + m)
<1>1. at \in Nat /\ Len(in.text) \in Nat /\ m \in 0..(Len(in.text) - at) /\ m \in Nat
      /\ (n > 0 /\ ~AtEnd(in) => m > 0)
  BY DEF InputTrue, Taken, AtEnd
<1>2. /\ all = old \union {at + i : i \in ends}
      /\ IsFiniteSet(ends) /\ Cardinality(ends) \in Nat
      /\ Cardinality(all) = Cardinality(old) + Cardinality(ends)
  <2> HIDE DEF m
  <2> QED
    BY <1>1, NewlinesAhead
<1>3. ends \in SUBSET (1..m) /\ ends \in SUBSET Nat /\ \A i \in ends : i <= m
  BY <1>1
<1>4. CASE ends = {}
  <2>1. new = [in EXCEPT !.nextChar = @ + m, !.charPositionInLine = @ + m]
    BY <1>4 DEF consumeChar, Taken
  <2>2. all = old
    BY <1>2, <1>4
  <2>3. /\ new.text = in.text /\ new.nextChar = at + m /\ new.line = in.line
        /\ new.charPositionInLine = in.charPositionInLine + m
        /\ new \in [text : Seq(Chars), nextChar : Nat, line : Nat, charPositionInLine : Int,
                    currentLine : Int]
    <3>1. in \in [text : Seq(Chars), nextChar : Nat, line : Nat, charPositionInLine : Int,
                  currentLine : Int]
      BY DEF InputTrue
    <3>2. new = [text |-> in.text, nextChar |-> at + m, line |-> in.line,
                 charPositionInLine |-> in.charPositionInLine + m, currentLine |-> in.currentLine]
      BY <2>1, <3>1
    <3>3. in.charPositionInLine + m \in Int /\ at + m \in Nat
      BY <1>1, <3>1
    <3> HIDE DEF m, new
    <3> QED
      BY <3>1, <3>2, <3>3
  <2> HIDE DEF new, m, ends
  <2>4. Placed(new.text, new, new.nextChar)
    <3>1. Placed(in.text, in, at)
      BY DEF InputTrue
    <3>2. (IF old = {} THEN 0 ELSE Max(old) - 1) \in Int
      <4>1. old # {} => Max(old) \in old
        BY <1>1, NewlinesFinite
      <4> QED
        BY <4>1 DEF NewlinesTo
    <3> QED
      BY <3>1, <3>2, <2>2, <2>3, <1>1 DEF Placed
  <2> QED
    BY <2>3, <2>4, <1>1 DEF Reached, InputTrue, new, m
<1>5. CASE ends # {}
  <2>1. PICK last \in ends : \A j \in ends : last >= j
    <3> HIDE DEF ends, m
    <3> QED
      BY <1>1, <1>3, <1>5, Scan!Greatest
  <2>2. (CHOOSE i \in ends : \A j \in ends : i >= j) = last
    BY <2>1, <1>3
  <2>3. new = [in EXCEPT !.nextChar = @ + m, !.line = @ + Cardinality(ends),
                         !.charPositionInLine = m - last, !.currentLine = in.nextChar + last]
    BY <1>5, <2>2 DEF consumeChar, Taken
  <2> HIDE DEF ends
  <2>4. last \in Nat /\ last <= m
    BY <2>1, <1>3
  <2>5. /\ new.text = in.text /\ new.nextChar = at + m
        /\ new.line = in.line + Cardinality(ends)
        /\ new.charPositionInLine = m - last
        /\ new \in [text : Seq(Chars), nextChar : Nat, line : Nat, charPositionInLine : Int,
                    currentLine : Int]
    <3>1. in \in [text : Seq(Chars), nextChar : Nat, line : Nat, charPositionInLine : Int,
                  currentLine : Int]
      BY DEF InputTrue
    <3>2. new = [text |-> in.text, nextChar |-> at + m, line |-> in.line + Cardinality(ends),
                 charPositionInLine |-> m - last, currentLine |-> at + last]
      BY <2>3, <3>1
    <3>3. /\ in.line + Cardinality(ends) \in Nat /\ at + m \in Nat /\ m - last \in Int
          /\ at + last \in Int
      <4>1. in.line \in Nat /\ Cardinality(ends) \in Nat /\ m \in Nat /\ last \in Nat /\ at \in Nat
        BY <1>1, <1>2, <2>4, <3>1
      <4> HIDE DEF m, at
      <4> QED
        BY <4>1
    <3> HIDE DEF m, new
    <3> QED
      BY <3>1, <3>2, <3>3
  <2>6. Max(all) = at + last
    <3>1. all \in SUBSET Nat
      BY DEF NewlinesTo
    <3>2. at + last \in all
      BY <1>2, <2>1
    <3>3. ASSUME NEW k \in all PROVE k <= at + last
      <4>1. CASE k \in old
        BY <4>1, <1>1, <2>4 DEF NewlinesTo
      <4>2. CASE k \notin old
        <5>1. PICK i \in ends : k = at + i
          BY <4>2, <1>2
        <5> QED
          BY <5>1, <2>1, <2>4, <1>1, <1>3
      <4> QED
        BY <4>1, <4>2
    <3> HIDE DEF all
    <3> QED
      BY <3>1, <3>2, <3>3, MaxOf
  <2>7. all # {}
    BY <1>2, <2>1
  <2> HIDE DEF new, m
  <2>8. Placed(new.text, new, new.nextChar)
    <3>1. Placed(in.text, in, at) /\ Cardinality(old) \in Nat
      BY <1>1, NewlinesFinite DEF InputTrue
    <3>2. new.line = Cardinality(all) + 1
      BY <3>1, <2>5, <1>2 DEF Placed
    <3>3. PICK place : place = new.nextChar
      OBVIOUS
    <3>4. place = at + m /\ all = NewlinesTo(new.text, place)
      BY <3>3, <2>5
    <3>5. new.charPositionInLine = place - 1 - (Max(all) - 1)
      BY <3>4, <2>4, <2>5, <2>6, <1>1
    <3> HIDE DEF all
    <3>6. Placed(new.text, new, place)
      BY <3>2, <3>4, <3>5, <2>7, PlacedAfter
    <3> QED
      BY <3>3, <3>6
  <2> QED
    BY <2>5, <2>8, <1>1 DEF Reached, InputTrue, new, m
<1> QED
  BY <1>1, <1>4, <1>5

LEMMA ReachedTrans ==
  ASSUME NEW a, NEW b, NEW c, InputTrue(a), Reached(a, b), Reached(b, c)
  PROVE  Reached(a, c)
BY DEF Reached, InputTrue

LEMMA ReachedSelf == ASSUME NEW a, InputTrue(a) PROVE Reached(a, a)
BY DEF Reached, InputTrue

LEMMA PastTrans ==
  ASSUME NEW a, NEW b, NEW c, InputTrue(a), Reached(a, b), Reached(b, c),
         b.nextChar > a.nextChar
  PROVE  Reached(a, c) /\ c.nextChar > a.nextChar
BY DEF Reached, InputTrue

(* A run of characters ends, with the text if not before.                   *)
LEMMA RunTrue ==
  ASSUME NEW in, InputTrue(in), NEW S, EndOfText \notin S
  PROVE  RunLength(in, S) \in Nat /\ (LAChar(in, 1) \in S => RunLength(in, S) > 0)
<1> DEFINE Off == {n \in Nat : LAChar(in, n + 1) \notin S}
           len == Len(in.text) - in.nextChar
<1>1. Len(in.text) \in Nat /\ in.nextChar \in Nat /\ len \in Nat /\ len <= Len(in.text)
  BY DEF InputTrue
<1>2. len \in Off
  BY <1>1 DEF LAChar
<1>3. PICK m \in Off : \A n \in Off : m <= n
  BY <1>2, Scan!Least
<1>4. m \in 0..Len(in.text) /\ LAChar(in, m + 1) \notin S
  BY <1>1, <1>2, <1>3
<1>5. ASSUME NEW i \in 1..m PROVE LAChar(in, i) \in S
  <2>1. i - 1 \in Nat /\ i - 1 + 1 = i /\ i - 1 < m
    BY <1>4
  <2>2. i - 1 \notin Off
    BY <1>3, <2>1
  <2> QED
    BY <2>1, <2>2
<1> DEFINE Ends(n) == LAChar(in, n + 1) \notin S /\ \A i \in 1..n : LAChar(in, i) \in S
<1>6. PICK n \in 0..Len(in.text) : n = RunLength(in, S) /\ Ends(n)
  <2>1. \E n \in 0..Len(in.text) : Ends(n)
    BY <1>4, <1>5
  <2> QED
    BY <2>1 DEF RunLength
<1>7. n = 0 => LAChar(in, 1) \notin S
  BY <1>6
<1> QED
  BY <1>1, <1>6, <1>7

LEMMA RunsTrue ==
  ASSUME NEW in, InputTrue(in), NEW S, EndOfText \notin S
  PROVE  /\ Reached(in, ConsumeAll(in, S))
         /\ LAChar(in, 1) \in S /\ ~AtEnd(in) => ConsumeAll(in, S).nextChar > in.nextChar
BY RunTrue, ConsumeTrue DEF ConsumeAll

LEMMA NotTheEnd ==
  /\ EndOfText \notin Letters /\ EndOfText \notin Digits /\ EndOfText \notin Blanks
  /\ EndOfText # Quote /\ EndOfText # "." /\ EndOfText \notin Letters \union Digits
BY DEF EndOfText, Letters, Digits, Blanks, Quote

(* What a rule leaves: the stream where it stopped and where it raised.     *)
ResultTrue(in, r) ==
  Reached(in, r.in) /\ Reached(in, r.at) /\ r.error \in BOOLEAN

LEMMA FineTrue ==
  ASSUME NEW in, NEW new, Reached(in, new)
  PROVE  ResultTrue(in, Fine(new)) /\ Fine(new).in = new /\ Fine(new).error = FALSE
BY DEF ResultTrue, Fine

LEMMA RaisedTrue ==
  ASSUME NEW in, NEW new, NEW at, Reached(in, new), Reached(in, at)
  PROVE  ResultTrue(in, Raised(new, at)) /\ Raised(new, at).error = TRUE
BY DEF ResultTrue, Raised

LEMMA RecoverTrue ==
  ASSUME NEW in, InputTrue(in)
  PROVE  Reached(in, recover(in)) /\ (~AtEnd(in) => recover(in).nextChar > in.nextChar)
BY ConsumeTrue DEF recover

LEMMA AgreeTrue ==
  ASSUME NEW in, NEW chars, Len(chars) \in Nat
  PROVE  Agree(in, chars) \in Nat
<1> DEFINE Off == {n \in Nat : n = Len(chars) \/ LAChar(in, n + 1) # chars[n + 1]}
           Fits(n) == /\ n = Len(chars) \/ LAChar(in, n + 1) # chars[n + 1]
                      /\ \A i \in 1..n : LAChar(in, i) = chars[i]
<1>1. PICK m \in Off : \A n \in Off : m <= n
  <2>1. Len(chars) \in Off
    OBVIOUS
  <2> QED
    BY <2>1, Scan!Least
<1>2. m \in 0..Len(chars)
  BY <1>1
<1>3. ASSUME NEW i \in 1..m PROVE LAChar(in, i) = chars[i]
  <2>1. i - 1 \in Nat /\ i - 1 + 1 = i /\ i - 1 < m
    BY <1>2
  <2>2. i - 1 \notin Off
    <3>1. ~(m <= i - 1)
      BY <1>2, <2>1
    <3> QED
      BY <1>1, <3>1
  <2> QED
    BY <2>1, <2>2
<1>4. \E n \in 0..Len(chars) : Fits(n)
  BY <1>1, <1>2, <1>3
<1>5. Agree(in, chars) \in 0..Len(chars)
  <2>1. Agree(in, chars) = CHOOSE n \in 0..Len(chars) : Fits(n)
    BY DEF Agree
  <2> HIDE DEF Fits
  <2> QED
    BY <1>4, <2>1
<1> QED
  BY <1>5

LEMMA MatchesTrue ==
  ASSUME NEW in, InputTrue(in), NEW chars, Len(chars) \in Nat
  PROVE  /\ ResultTrue(in, matchs(in, chars))
         /\ ~matchs(in, chars).error /\ Len(chars) > 0 /\ ~AtEnd(in) =>
              matchs(in, chars).in.nextChar > in.nextChar
<1> DEFINE n == Agree(in, chars)
           agreed == consumeChar(in, n)
<1>1. n \in Nat
  BY AgreeTrue
<1>2. Reached(in, agreed) /\ (n > 0 /\ ~AtEnd(in) => agreed.nextChar > in.nextChar)
  BY <1>1, ConsumeTrue
<1> HIDE DEF agreed, n
<1>3. CASE n = Len(chars)
  <2>1. matchs(in, chars) = Fine(agreed)
    BY <1>3 DEF matchs, agreed, n
  <2> QED
    BY <2>1, <1>2, <1>3, FineTrue
<1>4. CASE n # Len(chars)
  <2>1. matchs(in, chars) = Raised(recover(agreed), agreed)
    BY <1>4 DEF matchs, agreed, n
  <2>2. Reached(in, recover(agreed))
    BY <1>2, RecoverTrue, ReachedTrans DEF Reached
  <2> QED
    BY <2>1, <2>2, <1>2, RaisedTrue
<1> QED
  BY <1>3, <1>4

(* Matching on where the stream has come to.                                *)
LEMMA MatchesOn ==
  ASSUME NEW in, InputTrue(in), NEW new, Reached(in, new), NEW chars, Len(chars) \in Nat
  PROVE  /\ ResultTrue(in, matchs(new, chars))
         /\ new.nextChar > in.nextChar => matchs(new, chars).in.nextChar > in.nextChar
<1>1. InputTrue(new)
  BY DEF Reached
<1>2. ResultTrue(new, matchs(new, chars))
  BY <1>1, MatchesTrue
<1> QED
  BY <1>1, <1>2, ReachedTrans, PastTrans DEF ResultTrue

LEMMA NumberTrue ==
  ASSUME NEW in, InputTrue(in), ~AtEnd(in), LAChar(in, 1) \in Digits
  PROVE  /\ ResultTrue(in, mNUMBER_LITERAL(in))
         /\ ~mNUMBER_LITERAL(in).error => mNUMBER_LITERAL(in).in.nextChar > in.nextChar
<1> DEFINE whole == ConsumeAll(in, Digits)
           point == consumeChar(whole, 1)
           all   == ConsumeAll(point, Digits)
<1>1. Reached(in, whole) /\ whole.nextChar > in.nextChar
  BY RunsTrue, NotTheEnd
<1> HIDE DEF whole
<1>2. Reached(whole, point) /\ Reached(in, point) /\ point.nextChar > in.nextChar
  <2>1. Reached(whole, point)
    BY <1>1, ConsumeTrue DEF Reached
  <2> QED
    BY <2>1, <1>1, PastTrans
<1> HIDE DEF point
<1>3. Reached(in, all) /\ all.nextChar > in.nextChar
  <2>1. Reached(point, all)
    BY <1>2, RunsTrue, NotTheEnd DEF Reached
  <2> QED
    BY <2>1, <1>2, PastTrans
<1> HIDE DEF all
<1>4. CASE LAChar(whole, 1) # "."
  <2>1. mNUMBER_LITERAL(in) = Fine(whole)
    BY <1>4 DEF mNUMBER_LITERAL, whole
  <2> QED
    BY <2>1, <1>1, FineTrue
<1>5. CASE LAChar(whole, 1) = "." /\ LAChar(point, 1) \notin Digits
  <2>1. mNUMBER_LITERAL(in) = Raised(point, point)
    BY <1>5 DEF mNUMBER_LITERAL, whole, point
  <2> QED
    BY <2>1, <1>2, RaisedTrue
<1>6. CASE LAChar(whole, 1) = "." /\ LAChar(point, 1) \in Digits
  <2>1. mNUMBER_LITERAL(in) = Fine(all)
    BY <1>6 DEF mNUMBER_LITERAL, whole, point, all
  <2> QED
    BY <2>1, <1>3, FineTrue
<1> QED
  BY <1>4, <1>5, <1>6

(* Looking for the end of a string the scan goes forward.                   *)
LEMMA EndQuoteTrue ==
  ASSUME NEW in, InputTrue(in)
  PROVE  EndQuote(in) \in Nat /\ EndQuote(in) >= 2
<1> DEFINE V == {n \in Nat : n >= 2}
           G == [n \in Nat |-> [i \in V |-> InString(in, i)]]
           D(f) == [n \in Nat |-> IF n = 0 THEN 2 ELSE InString(in, f[n - 1])]
           at == CHOOSE f : f = D(f)
<1>1. ASSUME NEW i \in V PROVE InString(in, i) \in V
  <2>1. CASE LAChar(in, i) \in {Quote, EndOfText}
    BY <2>1 DEF InString
  <2>2. CASE LAChar(in, i) \notin {Quote, EndOfText} /\ LAChar(in, i) = Backslash
    <3>1. InString(in, i) = i + 2
      BY <2>2, Zenon DEF InString
    <3> QED
      BY <3>1
  <2>3. CASE LAChar(in, i) \notin {Quote, EndOfText} /\ LAChar(in, i) # Backslash
    <3>1. InString(in, i) = i + 1
      BY <2>3, Zenon DEF InString
    <3> QED
      BY <3>1
  <2> QED
    BY <2>1, <2>2, <2>3
<1>2. PICK f : Scan!Iterates(f, V, 2, G)
  <2>1. G \in [Nat -> [V -> V]] /\ 2 \in V
    BY <1>1
  <2> HIDE DEF G, V
  <2> QED
    BY <2>1, Scan!Iteration
<1>3. f \in [Nat -> V] /\ f[0] = 2 /\ \A n \in Nat : f[n + 1] = InString(in, f[n])
  <2>1. f \in [Nat -> V] /\ f[0] = 2 /\ \A n \in Nat : f[n + 1] = G[n][f[n]]
    BY <1>2 DEF Scan!Iterates
  <2>2. ASSUME NEW n \in Nat PROVE f[n + 1] = InString(in, f[n])
    <3>1. f[n] \in V
      BY <2>1
    <3> QED
      BY <2>1, <3>1
  <2> QED
    BY <2>1, <2>2
<1> HIDE DEF G, V
<1>4. f = D(f)
  <2>1. ASSUME NEW n \in Nat, n # 0 PROVE f[n] = InString(in, f[n - 1])
    <3>1. n - 1 \in Nat /\ n - 1 + 1 = n
      BY <2>1
    <3> QED
      BY <1>3, <3>1
  <2> QED
    BY <1>3, <2>1
<1>5. at = D(at)
  BY <1>4
<1>6. EndQuote(in) = at[Len(in.text)] /\ Len(in.text) \in Nat
  BY DEF EndQuote, InputTrue
<1> HIDE DEF at
<1>7. at[0] = 2 /\ \A n \in Nat : at[n + 1] = InString(in, at[n])
  BY <1>5
<1> HIDE DEF D
<1>8. \A n \in Nat : at[n] = f[n]
  <2> DEFINE Off == {n \in Nat : at[n] # f[n]}
  <2>1. ASSUME Off # {} PROVE FALSE
    <3>1. PICK n \in Off : \A i \in Off : n <= i
      <4>1. Off \in SUBSET Nat
        OBVIOUS
      <4> HIDE DEF Off
      <4> QED
        BY <2>1, <4>1, Scan!Least
    <3>2. n # 0
      BY <1>3, <1>7, <3>1
    <3>3. n - 1 \in Nat /\ n - 1 \notin Off /\ n - 1 + 1 = n
      BY <3>1, <3>2
    <3>4. at[n - 1] = f[n - 1]
      BY <3>3
    <3>5. at[n] = InString(in, at[n - 1]) /\ f[n] = InString(in, f[n - 1])
      BY <1>3, <1>7, <3>3
    <3> QED
      BY <3>1, <3>4, <3>5
  <2> QED
    BY <2>1
<1>9. at[Len(in.text)] \in V
  BY <1>3, <1>6, <1>8
<1> QED
  BY <1>6, <1>9 DEF V

LEMMA StringTrue ==
  ASSUME NEW in, InputTrue(in), ~AtEnd(in)
  PROVE  /\ ResultTrue(in, mSTRING_LITERAL(in))
         /\ ~mSTRING_LITERAL(in).error => mSTRING_LITERAL(in).in.nextChar > in.nextChar
<1> DEFINE quote == consumeChar(in, EndQuote(in) - 1)
<1>1. EndQuote(in) - 1 \in Nat /\ EndQuote(in) - 1 > 0
  BY EndQuoteTrue
<1>2. Reached(in, quote) /\ quote.nextChar > in.nextChar
  BY <1>1, ConsumeTrue
<1> HIDE DEF quote
<1>3. mSTRING_LITERAL(in) = matchs(quote, <<Quote>>)
  BY DEF mSTRING_LITERAL, matchc, quote
<1>4. Len(<<Quote>>) \in Nat
  OBVIOUS
<1> QED
  BY <1>2, <1>3, <1>4, MatchesOn

LEMMA LineCommentTrue ==
  ASSUME NEW in, InputTrue(in)
  PROVE  ResultTrue(in, mLINE_COMMENT(in))
<1> DEFINE S == ToSet(in.text) \ {"\r", "\n"}
           line == consumeChar(in, RunLength(in, S))
           end == IF LAChar(line, 1) = "\r" THEN consumeChar(line, 1) ELSE line
<1>1. EndOfText \notin S
  BY DEF InputTrue, Chars, ToSet
<1> HIDE DEF S
<1>2. Reached(in, line)
  BY <1>1, RunTrue, ConsumeTrue
<1> HIDE DEF line
<1>3. Reached(in, end)
  <2>1. Reached(line, consumeChar(line, 1))
    BY <1>2, ConsumeTrue DEF Reached
  <2> QED
    BY <1>2, <2>1, ReachedTrans
<1> HIDE DEF end
<1>4. mLINE_COMMENT(in) = matchs(end, <<"\n">>)
  BY DEF mLINE_COMMENT, matchc, end, line, S
<1>5. Len(<<"\n">>) \in Nat
  OBVIOUS
<1> QED
  BY <1>3, <1>4, <1>5, MatchesOn

LEMMA CommentTrue ==
  ASSUME NEW in, InputTrue(in)
  PROVE  ResultTrue(in, mCOMMENT(in))
<1> DEFINE ends(i) == LAChar(in, i) = EndOfText \/ (LAChar(in, i) = "*" /\ LAChar(in, i + 1) = "/")
           Off == {n \in Nat : n >= 2 /\ ends(n + 1)}
           Fits(n) == ends(n + 1) /\ \A i \in 3..n : ~ends(i)
           top == Len(in.text) + 2
<1>1. Len(in.text) \in Nat /\ in.nextChar \in Nat /\ top \in Nat
  BY DEF InputTrue
<1>2. top \in Off
  <2>1. ends(top + 1)
    BY <1>1 DEF LAChar
  <2> QED
    BY <1>1, <2>1
<1> HIDE DEF ends
<1>3. PICK m \in Off : \A n \in Off : m <= n
  BY <1>2, Scan!Least
<1>4. m \in 2..top
  <2>1. m <= top
    BY <1>2, <1>3
  <2>2. m \in Nat /\ m >= 2
    BY <1>3
  <2> QED
    BY <1>1, <2>1, <2>2
<1>5. ASSUME NEW i \in 3..m PROVE ~ends(i)
  <2>1. i - 1 \in Nat /\ i - 1 + 1 = i /\ i - 1 < m /\ i - 1 >= 2
    BY <1>4
  <2>2. i - 1 \notin Off
    BY <1>3, <1>4, <2>1
  <2> QED
    BY <2>1, <2>2
<1>6. \E n \in 2..top : Fits(n)
  BY <1>3, <1>4, <1>5
<1>7. EndComment(in) \in Nat
  <2>1. EndComment(in) = CHOOSE n \in 2..top : Fits(n)
    BY DEF EndComment, ends
  <2> HIDE DEF Fits
  <2>2. EndComment(in) \in 2..top
    BY <1>6, <2>1
  <2> QED
    BY <1>1, <2>2
<1>8. Reached(in, consumeChar(in, EndComment(in)))
  BY <1>7, ConsumeTrue
<1>9. Len(<<"*", "/">>) \in Nat
  OBVIOUS
<1> QED
  BY <1>8, <1>9, MatchesOn DEF mCOMMENT

(* The operators of one character, and of two.                              *)
Short == {"#", "%", "(", ")", "*", "+", ",", "-", "/", ";", "<", ">", "[", "]", "{", "}", "="}

LEMMA ShortSpelled == ASSUME NEW w \in Short PROVE w \in Punctuation /\ Spelling[w] = <<w>>
<1>1. w \in Punctuation /\ w \in Keywords \union Punctuation
  BY DEF Short, Punctuation
<1> QED
  BY <1>1, Zenon DEF Spelling, Short

LEMMA LongSpelled ==
  /\ Spelling["!="] = <<"!", "=">>
  /\ Spelling["&&"] = <<"&", "&">>
  /\ Spelling["||"] = <<"|", "|">>
  /\ Spelling["++"] = <<"+", "+">>
  /\ Spelling["--"] = <<"-", "-">>
  /\ Spelling["=="] = <<"=", "=">>
  /\ Spelling["<="] = <<"<", "=">>
  /\ Spelling[">="] = <<">", "=">>
  /\ Spelling["-="] = <<"-", "=">>
  /\ Spelling["+="] = <<"+", "=">>
  /\ Spelling["*="] = <<"*", "=">>
  /\ Spelling["/="] = <<"/", "=">>
  /\ Spelling["%="] = <<"%", "=">>
  /\ Spelling["//"] = <<"/", "/">>
  /\ Spelling["/*"] = <<"/", "*">>
<1>1. Spelling["!="] = <<"!", "=">>
  BY Zenon DEF Spelling, Punctuation
<1>2. Spelling["&&"] = <<"&", "&">>
  BY Zenon DEF Spelling, Punctuation
<1>3. Spelling["||"] = <<"|", "|">>
  BY Zenon DEF Spelling, Punctuation
<1>4. Spelling["++"] = <<"+", "+">>
  BY Zenon DEF Spelling, Punctuation
<1>5. Spelling["--"] = <<"-", "-">>
  BY Zenon DEF Spelling, Punctuation
<1>6. Spelling["=="] = <<"=", "=">>
  BY Zenon DEF Spelling, Punctuation
<1>7. Spelling["<="] = <<"<", "=">>
  BY Zenon DEF Spelling, Punctuation
<1>8. Spelling[">="] = <<">", "=">>
  BY Zenon DEF Spelling, Punctuation
<1>9. Spelling["-="] = <<"-", "=">>
  BY Zenon DEF Spelling, Punctuation
<1>10. Spelling["+="] = <<"+", "=">>
  BY Zenon DEF Spelling, Punctuation
<1>11. Spelling["*="] = <<"*", "=">>
  BY Zenon DEF Spelling, Punctuation
<1>12. Spelling["/="] = <<"/", "=">>
  BY Zenon DEF Spelling, Punctuation
<1>13. Spelling["%="] = <<"%", "=">>
  BY Zenon DEF Spelling, Punctuation
<1>14. Spelling["//"] = <<"/", "/">>
  BY Zenon DEF Spelling, Punctuation
<1>15. Spelling["/*"] = <<"/", "*">>
  BY Zenon DEF Spelling, Punctuation
<1> QED
  BY <1>1, <1>2, <1>3, <1>4, <1>5, <1>6, <1>7, <1>8, <1>9, <1>10, <1>11, <1>12, <1>13, <1>14, <1>15

LEMMA LongStarts ==
  /\ Spelling["!="][1] = "!" /\ Len(Spelling["!="]) = 2
  /\ Spelling["&&"][1] = "&" /\ Len(Spelling["&&"]) = 2
  /\ Spelling["||"][1] = "|" /\ Len(Spelling["||"]) = 2
  /\ Spelling["++"][1] = "+" /\ Len(Spelling["++"]) = 2
  /\ Spelling["--"][1] = "-" /\ Len(Spelling["--"]) = 2
  /\ Spelling["=="][1] = "=" /\ Len(Spelling["=="]) = 2
  /\ Spelling["<="][1] = "<" /\ Len(Spelling["<="]) = 2
  /\ Spelling[">="][1] = ">" /\ Len(Spelling[">="]) = 2
  /\ Spelling["-="][1] = "-" /\ Len(Spelling["-="]) = 2
  /\ Spelling["+="][1] = "+" /\ Len(Spelling["+="]) = 2
  /\ Spelling["*="][1] = "*" /\ Len(Spelling["*="]) = 2
  /\ Spelling["/="][1] = "/" /\ Len(Spelling["/="]) = 2
  /\ Spelling["%="][1] = "%" /\ Len(Spelling["%="]) = 2
  /\ Spelling["//"][1] = "/" /\ Len(Spelling["//"]) = 2
  /\ Spelling["/*"][1] = "/" /\ Len(Spelling["/*"]) = 2
<1>1. \A a, b : <<a, b>>[1] = a /\ Len(<<a, b>>) = 2
  OBVIOUS
<1> QED
  BY <1>1, LongSpelled

(* An operator is spelled with a character or two, and where no operator is *)
(* the first character alone there is only one that begins with it.         *)
LEMMA PunctuationSpelled ==
  ASSUME NEW w \in Punctuation
  PROVE  /\ Len(Spelling[w]) \in Nat /\ Len(Spelling[w]) > 0
         /\ Spelling[w][1] \in Short \/ w \in {"!=", "&&", "||"}
         /\ Spelling[w][1] \in Short \union {"!", "&", "|"}
<1>1. CASE w \in Short
  <2>1. Spelling[w] = <<w>>
    BY <1>1, ShortSpelled
  <2>2. Len(<<w>>) = 1 /\ <<w>>[1] = w
    OBVIOUS
  <2> QED
    BY <1>1, <2>1, <2>2
<1>2. CASE w \notin Short
  <2>1. w \in {"!=", "&&", "||", "++", "--", "==", "<=", ">=", "-=", "+=", "*=", "/=", "%=",
               "//", "/*"}
    BY <1>2 DEF Punctuation, Short
  <2>2. Len(Spelling[w]) = 2
    BY <2>1, LongStarts
  <2>3. w \notin {"!=", "&&", "||"} => Spelling[w][1] \in Short
    BY <2>1, LongStarts DEF Short
  <2>4. w \in {"!=", "&&", "||"} => Spelling[w][1] \in {"!", "&", "|"}
    BY LongStarts
  <2> QED
    BY <2>2, <2>3, <2>4
<1> QED
  BY <1>1, <1>2

LEMMA AloneSpelled ==
  ASSUME NEW w \in {"!=", "&&", "||"}, NEW v \in Punctuation, Spelling[v][1] = Spelling[w][1]
  PROVE  v = w
<1>1. Spelling[w][1] \in {"!", "&", "|"} /\ Spelling[w][1] \notin Short
  BY LongStarts DEF Short
<1>2. v \in {"!=", "&&", "||"}
  BY <1>1, PunctuationSpelled
<1> QED
  BY <1>2, LongStarts

LEMMA OperatorFound ==
  ASSUME NEW in, Operators(LAChar(in, 1)) # {}
  PROVE  OperatorAt(in) \in Punctuation
<1> DEFINE c == LAChar(in, 1)
           all == Operators(c)
           long == {w \in all : Len(Spelling[w]) = 2 /\ Spelling[w][2] = LAChar(in, 2)}
<1>1. all \subseteq Punctuation /\ all # {}
  BY DEF Operators
<1>2. CASE Cardinality(all) = 1
  BY <1>1, <1>2 DEF OperatorAt
<1>3. CASE Cardinality(all) # 1 /\ long # {}
  <2>1. OperatorAt(in) = CHOOSE w \in long : TRUE
    BY <1>3 DEF OperatorAt
  <2>2. long \subseteq Punctuation
    BY <1>1
  <2> HIDE DEF long
  <2> QED
    BY <1>3, <2>1, <2>2
<1>4. CASE Cardinality(all) # 1 /\ long = {}
  <2>1. OperatorAt(in) = CHOOSE w \in all : Len(Spelling[w]) = 1
    BY <1>4 DEF OperatorAt
  <2>2. PICK w \in all : w \in Punctuation /\ Spelling[w][1] = c
    BY <1>1 DEF Operators
  <2>3. w \notin {"!=", "&&", "||"}
    <3> SUFFICES ASSUME w \in {"!=", "&&", "||"} PROVE FALSE
      OBVIOUS
    <3>1. all = {w}
      BY <1>1, <2>2, AloneSpelled DEF Operators
    <3> QED
      BY <3>1, <1>4, FS_Singleton
  <2>4. c \in Short
    BY <2>2, <2>3, PunctuationSpelled
  <2>5. c \in Punctuation /\ Spelling[c] = <<c>>
    BY <2>4, ShortSpelled
  <2>6. Len(<<c>>) = 1 /\ <<c>>[1] = c
    OBVIOUS
  <2>7. c \in all /\ Len(Spelling[c]) = 1
    BY <2>5, <2>6 DEF Operators
  <2> HIDE DEF all, c
  <2>8. OperatorAt(in) \in all
    BY <2>1, <2>7
  <2> QED
    BY <1>1, <2>8
<1> QED
  BY <1>2, <1>3, <1>4

TokenTypes == Keywords \union Punctuation \union {"ID", "NUMBER", "STRING", "op="}

LEMMA WordFound == ASSUME NEW in PROVE WordType(in) \in TokenTypes
<1> DEFINE n == RunLength(in, Letters \union Digits)
           word == SubSeq(in.text, in.nextChar + 1, in.nextChar + n)
           Is(k) == Spelling[k] = word
<1>1. WordType(in) = IF \E k \in Keywords : Is(k) THEN CHOOSE k \in Keywords : Is(k) ELSE "ID"
  BY DEF WordType
<1> HIDE DEF Is
<1> QED
  BY <1>1 DEF TokenTypes

LEMMA TypeFound ==
  ASSUME NEW w \in Punctuation
  PROVE  TypeOf(w) \in TokenTypes \union {"LINE_COMMENT", "COMMENT"}
<1>1. CASE w \in {"-=", "+=", "*=", "/=", "%="}
  <2>1. TypeOf(w) = "op="
    BY <1>1, Zenon DEF TypeOf
  <2> QED
    BY <2>1 DEF TokenTypes
<1>2. CASE w = "//"
  <2>1. TypeOf(w) = "LINE_COMMENT"
    BY <1>2, Zenon DEF TypeOf
  <2> QED
    BY <2>1
<1>3. CASE w = "/*"
  <2>1. TypeOf(w) = "COMMENT"
    BY <1>3, Zenon DEF TypeOf
  <2> QED
    BY <2>1
<1>4. CASE w \notin {"-=", "+=", "*=", "/=", "%=", "//", "/*"}
  <2>1. TypeOf(w) = w
    <3>1. /\ w \notin {"-=", "+=", "*=", "/=", "%="} /\ w # "//" /\ w # "/*"
      BY <1>4
    <3> QED
      BY <3>1, Zenon DEF TypeOf
  <2> QED
    BY <2>1 DEF TokenTypes
<1> QED
  BY <1>1, <1>2, <1>3, <1>4

(* What a round gives: a stream to go on with and, unless the round failed  *)
(* or what it matched is skipped, a token with a character at least.        *)
RoundTrue(in, r) ==
  /\ Reached(in, r.in) /\ Reached(in, r.at) /\ r.error \in BOOLEAN
  /\ ~r.error /\ ~r.skip => r.type \in TokenTypes /\ r.in.nextChar > in.nextChar

LEMMA OutcomeTrue ==
  ASSUME NEW in, NEW r, ResultTrue(in, r),
         NEW type \in TokenTypes \union {"WS", "LINE_COMMENT", "COMMENT"},
         type \in TokenTypes /\ ~r.error => r.in.nextChar > in.nextChar
  PROVE  RoundTrue(in, Outcome(type, r))
BY DEF RoundTrue, ResultTrue, Outcome

LEMMA mTokensTrue ==
  ASSUME NEW in, InputTrue(in), ~AtEnd(in)
  PROVE  RoundTrue(in, mTokens(in))
<1> DEFINE c == LAChar(in, 1)
<1>0. /\ c \in Letters => c \notin Digits /\ c # Quote /\ c \notin Blanks
      /\ c \in Digits => c # Quote /\ c \notin Blanks
      /\ c = Quote => c \notin Blanks
      /\ c \in Letters \union Digits \union {Quote} \union Blanks => Operators(c) = {}
  <2>1. Operators(c) # {} => c \in Short \union {"!", "&", "|"}
    BY PunctuationSpelled DEF Operators
  <2> QED
    BY <2>1 DEF Letters, Digits, Quote, Blanks, Short
<1>1. CASE c \in Letters
  <2>1. mTokens(in) = Outcome(WordType(in), mID(in))
    <3>1. c \notin Digits /\ c # Quote /\ c \notin Blanks /\ Operators(c) = {}
      BY <1>0, <1>1
    <3> QED
      BY <1>1, <3>1, Zenon DEF mTokens
  <2>2. Reached(in, ConsumeAll(in, Letters \union Digits))
        /\ ConsumeAll(in, Letters \union Digits).nextChar > in.nextChar
    BY <1>1, RunsTrue, NotTheEnd
  <2> QED
    BY <2>1, <2>2, FineTrue, WordFound, OutcomeTrue DEF mID
<1>2. CASE c \notin Letters /\ c \in Digits
  <2>1. mTokens(in) = Outcome("NUMBER", mNUMBER_LITERAL(in))
    <3>1. c # Quote /\ c \notin Blanks /\ Operators(c) = {}
      BY <1>0, <1>2
    <3> QED
      BY <1>2, <3>1, Zenon DEF mTokens
  <2>2. "NUMBER" \in TokenTypes
    BY DEF TokenTypes
  <2> QED
    BY <2>1, <2>2, <1>2, NumberTrue, OutcomeTrue
<1>3. CASE c \notin Letters \union Digits /\ c = Quote
  <2>1. mTokens(in) = Outcome("STRING", mSTRING_LITERAL(in))
    <3>1. c \notin Letters /\ c \notin Digits /\ c \notin Blanks /\ Operators(c) = {}
      BY <1>0, <1>3
    <3> QED
      BY <1>3, <3>1, Zenon DEF mTokens
  <2>2. "STRING" \in TokenTypes
    BY DEF TokenTypes
  <2> QED
    BY <2>1, <2>2, StringTrue, OutcomeTrue
<1>4. CASE c \notin Letters \union Digits \union {Quote} /\ c \in Blanks
  <2>1. mTokens(in) = Outcome("WS", mWS(in))
    <3>1. c \notin Letters /\ c \notin Digits /\ c # Quote /\ Operators(c) = {}
      BY <1>0, <1>4
    <3> QED
      BY <1>4, <3>1, Zenon DEF mTokens
  <2>2. Reached(in, ConsumeAll(in, Blanks)) /\ ConsumeAll(in, Blanks).nextChar > in.nextChar
    BY <1>4, RunsTrue, NotTheEnd
  <2> QED
    BY <2>1, <2>2, FineTrue, OutcomeTrue DEF mWS
<1>5. CASE c \notin Letters \union Digits \union {Quote} \union Blanks /\ Operators(c) # {}
  <2> DEFINE w == OperatorAt(in)
             r == CASE w = "//" -> mLINE_COMMENT(in)
                    [] w = "/*" -> mCOMMENT(in)
                    [] OTHER    -> matchs(in, Spelling[w])
  <2>1. mTokens(in) = Outcome(TypeOf(w), r)
    <3>1. c \notin Letters /\ c \notin Digits /\ c # Quote /\ c \notin Blanks
      BY <1>5
    <3> QED
      BY <1>5, <3>1, Zenon DEF mTokens
  <2>2. w \in Punctuation
    BY <1>5, OperatorFound
  <2> HIDE DEF w
  <2>3. CASE w = "//"
    <3>1. r = mLINE_COMMENT(in)
      BY <2>3, Zenon
    <3>2. TypeOf(w) = "LINE_COMMENT"
      BY <2>3, Zenon DEF TypeOf
    <3>3. "LINE_COMMENT" \notin TokenTypes
      BY DEF TokenTypes, Keywords, Punctuation
    <3> HIDE DEF r
    <3> QED
      BY <2>1, <3>1, <3>2, <3>3, LineCommentTrue, OutcomeTrue
  <2>4. CASE w = "/*"
    <3>1. r = mCOMMENT(in)
      BY <2>4, Zenon
    <3>2. TypeOf(w) = "COMMENT"
      BY <2>4, Zenon DEF TypeOf
    <3>3. "COMMENT" \notin TokenTypes
      BY DEF TokenTypes, Keywords, Punctuation
    <3> HIDE DEF r
    <3> QED
      BY <2>1, <3>1, <3>2, <3>3, CommentTrue, OutcomeTrue
  <2>5. CASE w # "//" /\ w # "/*"
    <3>1. r = matchs(in, Spelling[w])
      BY <2>5, Zenon
    <3>2. ResultTrue(in, r) /\ (~r.error => r.in.nextChar > in.nextChar)
      BY <2>2, <3>1, PunctuationSpelled, MatchesTrue
    <3> HIDE DEF r
    <3> QED
      BY <2>1, <2>2, <3>2, TypeFound, OutcomeTrue
  <2> QED
    BY <2>3, <2>4, <2>5
<1>6. CASE c \notin Letters \union Digits \union {Quote} \union Blanks /\ Operators(c) = {}
  <2>1. mTokens(in) = Outcome("none", Raised(in, in))
    <3>1. c \notin Letters /\ c \notin Digits /\ c # Quote /\ c \notin Blanks
      BY <1>6
    <3> QED
      BY <1>6, <3>1, Zenon DEF mTokens
  <2>2. Reached(in, in)
    BY ReachedSelf
  <2> QED
    BY <2>1, <2>2 DEF RoundTrue, Outcome, Raised
<1> HIDE DEF c
<1> QED
  BY <1>1, <1>2, <1>3, <1>4, <1>5, <1>6

-----------------------------------------------------------------------------
(* The grammar: what a rule that runs can have left to do.                  *)

Plain == {"need", "may", "add", "append", "operator", "line", "ownLine", "compound",
          "assertCall", "assertTarget", "pushTable", "pushBlock", "popBlock", "popTable",
          "emit", "tree", "name", "index", "call"}
Acting == Plain \union {"pass", "unary"}      \* these take the value of what was matched

RuleNames == DOMAIN Rules
Callable  == RuleNames \ {"program"}

(* Items without items in them: only the end of program matches the end of  *)
(* the file, and no token becomes the value of a rule but an operator.      *)
Flats ==
  [op : {"tok"}, arg : TokenTypes, acts : Seq(Plain)]
  \union [op : {"set"}, arg : SUBSET TokenTypes, acts : Seq(Plain)]
  \union [op : {"set"}, arg : SUBSET AssignOps, acts : Seq(Acting)]
  \union [op : {"ref"}, arg : Callable, acts : Seq(Acting)]
  \union [op : {"do"}, arg : {""}, acts : Seq(Plain)]

Nest(S) == S \union [op : {"opt", "star"}, arg : Seq(S), acts : {<<>>}]
             \union [op : {"alts"}, arg : Seq(Seq(S)), acts : {<<>>}]

Legal == Nest(Nest(Flats))

StatementTodo == <<Item("statement", StatementAlts, <<>>)>>
ReturnTodo    == StatementAlts[13]
EndTodo       == <<TokDo("EOF", <<"popTable", "emit">>)>>
StatementsTodo == <<Star(<<Ref("statement", <<"add">>)>>), TokDo("EOF", <<"popTable", "emit">>)>>
StatementAheadTodo == <<Ref("statement", <<"add">>), StatementsTodo[1], StatementsTodo[2]>>

TodoTrue(todo) == todo \in Seq(Legal) \union {StatementTodo, ReturnTodo, Tail(ReturnTodo)}
ProgramTodo(todo) ==
  todo \in {<<>>, EndTodo, StatementsTodo, StatementAheadTodo}

(* Of the i-th rule on the stack.                                           *)
Good(i, todo) == IF i = 1 THEN ProgramTodo(todo) ELSE TodoTrue(todo)

LEMMA RulesAre ==
  /\ RuleNames = DOMAIN StatementRules \union DOMAIN ExpressionRules
  /\ \A r \in DOMAIN StatementRules : Rules[r] = StatementRules[r]
  /\ \A r \in DOMAIN ExpressionRules : Rules[r] = ExpressionRules[r]
<1>1. DOMAIN StatementRules \intersect DOMAIN ExpressionRules = {}
  BY DEF StatementRules, ExpressionRules
<1> QED
  BY <1>1 DEF Rules, RuleNames

LEMMA RuleNamesAre ==
  RuleNames = {"program", "statement", "varDeclares", "varDefine", "funcDefine", "forStart",
               "idList", "assignment", "funcBody", "leftValue", "arrayExpr", "lambdaExpr",
               "exprList", "expr", "logicExpr", "relatExpr", "addExpr", "mulExpr", "unaryExpr",
               "atom", "literalAtom", "rtTypeAtomHead", "rtTypeAtom", "assignOp"}
BY RulesAre DEF StatementRules, ExpressionRules

LEMMA FlatsLegal ==
  Flats \subseteq Nest(Flats) /\ Nest(Flats) \subseteq Legal /\ Flats \subseteq Legal
BY DEF Nest, Legal

LEMMA TokFlat ==
  ASSUME NEW t \in TokenTypes, NEW acts \in Seq(Plain)
  PROVE  TokDo(t, acts) \in Flats /\ Tok(t) \in Flats
BY DEF TokDo, Tok, Item, Flats

LEMMA SetFlat ==
  ASSUME NEW S \in SUBSET TokenTypes, NEW acts \in Seq(Plain)
  PROVE  SetDo(S, acts) \in Flats /\ Set(S) \in Flats
BY DEF SetDo, Set, Item, Flats

LEMMA RefFlat ==
  ASSUME NEW r \in Callable, NEW acts \in Seq(Acting)
  PROVE  Ref(r, acts) \in Flats
BY DEF Ref, Item, Flats

LEMMA DoFlat ==
  ASSUME NEW acts \in Seq(Plain)
  PROVE  Item("do", "", acts) \in Flats
BY DEF Item, Flats

LEMMA OptNested ==
  ASSUME NEW S, NEW s \in Seq(S)
  PROVE  Opt(s) \in Nest(S) /\ Star(s) \in Nest(S)
BY DEF Opt, Star, Item, Nest

LEMMA AltsNested ==
  ASSUME NEW S, NEW s \in Seq(Seq(S))
  PROVE  Alts(s) \in Nest(S)
BY DEF Alts, Item, Nest

LEMMA BinaryLegal ==
  ASSUME NEW r \in Callable, NEW S \in SUBSET TokenTypes
  PROVE  Binary(r, S) \in Seq(Legal)
<1>1. <<"pass">> \in Seq(Acting) /\ <<"ownLine", "need", "tree">> \in Seq(Acting)
      /\ <<>> \in Seq(Plain)
  BY DEF Acting, Plain
<1>2. Set(S) \in Flats /\ Ref(r, <<"ownLine", "need", "tree">>) \in Flats
  BY <1>1, SetFlat, RefFlat
<1>3. <<Set(S), Ref(r, <<"ownLine", "need", "tree">>)>> \in Seq(Flats)
  BY <1>2
<1>4. Star(<<Set(S), Ref(r, <<"ownLine", "need", "tree">>)>>) \in Legal
  BY <1>3, OptNested, FlatsLegal
<1>5. Ref(r, <<"pass">>) \in Legal
  BY <1>1, RefFlat, FlatsLegal
<1> QED
  BY <1>4, <1>5 DEF Binary

LEMMA ActionsAre ==
  /\ \A a \in Plain : <<a>> \in Seq(Plain) /\ <<a>> \in Seq(Acting)
  /\ \A a, b \in Plain : <<a, b>> \in Seq(Plain) /\ <<a, b>> \in Seq(Acting)
  /\ \A a, b, c \in Plain : <<a, b, c>> \in Seq(Plain) /\ <<a, b, c>> \in Seq(Acting)
  /\ <<"pass">> \in Seq(Acting) /\ <<"unary">> \in Seq(Acting)
  /\ <<"pass", "assertTarget">> \in Seq(Acting)
  /\ <<>> \in Seq(Plain) /\ <<>> \in Seq(Acting)
BY DEF Acting, Plain

LEMMA TypesAre ==
  /\ Steps \subseteq TokenTypes /\ AssignOps \subseteq TokenTypes /\ Constants \subseteq TokenTypes
  /\ {"not", "-", "#"} \subseteq TokenTypes /\ {"&&", "||"} \subseteq TokenTypes
  /\ {"<", "<=", ">", ">=", "==", "!="} \subseteq TokenTypes /\ {"+", "-"} \subseteq TokenTypes
  /\ {"*", "/", "%"} \subseteq TokenTypes
  /\ {"[", "]", "(", ")", "{", "}", ",", ";", "=", "ID", "var", "function", "if", "else", "for",
      "while", "break", "continue", "return"} \subseteq TokenTypes
BY DEF Steps, AssignOps, Constants, TokenTypes, Keywords, Punctuation

(* The items of the grammar.                                                *)
LEMMA ItemsLegal ==
  /\ \A t \in TokenTypes : Tok(t) \in Flats
  /\ \A t \in TokenTypes, a \in Plain : TokDo(t, <<a>>) \in Flats
  /\ \A t \in TokenTypes, a, b \in Plain : TokDo(t, <<a, b>>) \in Flats
  /\ \A t \in TokenTypes, a, b, c \in Plain : TokDo(t, <<a, b, c>>) \in Flats
  /\ \A r \in Callable, a \in Plain : Ref(r, <<a>>) \in Flats
  /\ \A r \in Callable, a, b \in Plain : Ref(r, <<a, b>>) \in Flats
  /\ \A r \in Callable, a, b, c \in Plain : Ref(r, <<a, b, c>>) \in Flats
  /\ \A r \in Callable : /\ Ref(r, <<>>) \in Flats /\ Ref(r, <<"pass">>) \in Flats
                         /\ Ref(r, <<"unary">>) \in Flats
                         /\ Ref(r, <<"pass", "assertTarget">>) \in Flats
  /\ \A S \in SUBSET TokenTypes : Set(S) \in Flats
  /\ \A S \in SUBSET TokenTypes, a \in Plain : SetDo(S, <<a>>) \in Flats
  /\ SetDo(AssignOps, <<"pass">>) \in Flats
  /\ Item("do", "", <<"tree">>) \in Flats
<1>1. SetDo(AssignOps, <<"pass">>) \in Flats
  BY ActionsAre DEF SetDo, Item, Flats
<1>2. "tree" \in Plain
  BY DEF Plain
<1>3. \A t \in TokenTypes : Tok(t) \in Flats
  BY ActionsAre, TokFlat
<1>4. \A S \in SUBSET TokenTypes : Set(S) \in Flats
  BY ActionsAre, SetFlat
<1> QED
  BY <1>1, <1>2, <1>3, <1>4, ActionsAre, TokFlat, SetFlat, RefFlat, DoFlat

(* A rule does not call program, and what it has to do can be nested.       *)
LEMMA CallableAre ==
  /\ Callable = RuleNames \ {"program"} /\ Callable \subseteq RuleNames
  /\ {"statement", "varDeclares", "varDefine", "funcDefine", "forStart", "idList", "assignment",
      "funcBody", "leftValue", "arrayExpr", "lambdaExpr", "exprList", "expr", "logicExpr",
      "relatExpr", "addExpr", "mulExpr", "unaryExpr", "atom", "literalAtom", "rtTypeAtomHead",
      "rtTypeAtom", "assignOp"} = Callable
BY RuleNamesAre DEF Callable

LEMMA ProgramRules ==
  Rules["program"] = StatementsTodo /\ Rules["statement"] = StatementTodo
<1>1. StatementRules["program"] = StatementsTodo /\ StatementRules["statement"] = StatementTodo
  BY DEF StatementRules, StatementTodo, StatementsTodo
<1>2. "program" \in DOMAIN StatementRules /\ "statement" \in DOMAIN StatementRules
  BY DEF StatementRules
<1> QED
  BY <1>1, <1>2, RulesAre

LEMMA TokItems ==
  /\ Tok("if") \in Flats
  /\ Tok("(") \in Flats
  /\ Tok(")") \in Flats
  /\ Tok("else") \in Flats
  /\ Tok(";") \in Flats
  /\ Tok("while") \in Flats
  /\ Tok("var") \in Flats
  /\ Tok("ID") \in Flats
  /\ Tok("=") \in Flats
  /\ Tok("function") \in Flats
  /\ Tok(",") \in Flats
  /\ Tok("{") \in Flats
  /\ Tok("[") \in Flats
BY ItemsLegal, TypesAre

LEMMA TokDoItems ==
  /\ TokDo("{", <<"tree", "pushBlock">>) \in Flats
  /\ TokDo("}", <<"popBlock">>) \in Flats
  /\ TokDo("for", <<"pushBlock">>) \in Flats
  /\ TokDo("break", <<"tree">>) \in Flats
  /\ TokDo("continue", <<"tree">>) \in Flats
  /\ TokDo(")", <<"pushTable">>) \in Flats
  /\ TokDo("}", <<"popTable", "emit", "tree">>) \in Flats
  /\ TokDo("]", <<"tree">>) \in Flats
  /\ TokDo("ID", <<"name">>) \in Flats
  /\ TokDo(")", <<"call">>) \in Flats
  /\ TokDo("]", <<"index">>) \in Flats
<1>1. "call" \in Plain /\ "emit" \in Plain /\ "index" \in Plain /\ "name" \in Plain /\ "popBlock"
        \in Plain /\ "popTable" \in Plain /\ "pushBlock" \in Plain /\ "pushTable" \in Plain /\
        "tree" \in Plain
  BY DEF Plain
<1>2. "{" \in TokenTypes /\ "}" \in TokenTypes /\ "for" \in TokenTypes /\ "break" \in TokenTypes
        /\ "continue" \in TokenTypes /\ ")" \in TokenTypes /\ "]" \in TokenTypes /\ "ID" \in
        TokenTypes
  BY TypesAre
<1>3. /\ TokDo("{", <<"tree", "pushBlock">>) \in Flats
  BY <1>1, <1>2, ItemsLegal
<1>4. /\ TokDo("}", <<"popBlock">>) \in Flats
      /\ TokDo("for", <<"pushBlock">>) \in Flats
      /\ TokDo("break", <<"tree">>) \in Flats
      /\ TokDo("continue", <<"tree">>) \in Flats
      /\ TokDo(")", <<"pushTable">>) \in Flats
      /\ TokDo("]", <<"tree">>) \in Flats
      /\ TokDo("ID", <<"name">>) \in Flats
      /\ TokDo(")", <<"call">>) \in Flats
      /\ TokDo("]", <<"index">>) \in Flats
  BY <1>1, <1>2, ItemsLegal
<1>5. /\ TokDo("}", <<"popTable", "emit", "tree">>) \in Flats
  BY <1>1, <1>2, ItemsLegal
<1> QED
  BY <1>3, <1>4, <1>5

LEMMA SetItems ==
  /\ Set(Steps) \in Flats
  /\ SetDo({"not", "-", "#"}, <<"operator">>) \in Flats
  /\ SetDo(Constants, <<"tree">>) \in Flats
  /\ SetDo(AssignOps, <<"pass">>) \in Flats
<1>1. "operator" \in Plain /\ "tree" \in Plain
  BY DEF Plain
<1> QED
  BY <1>1, ItemsLegal, TypesAre

LEMMA Tuples ==
  ASSUME NEW S
  PROVE  /\ <<>> \in Seq(S)
         /\ \A a \in S : <<a>> \in Seq(S)
         /\ \A a, b \in S : <<a, b>> \in Seq(S)
         /\ \A a, b, c \in S : <<a, b, c>> \in Seq(S)
         /\ \A a, b, c, d \in S : <<a, b, c, d>> \in Seq(S)
         /\ \A a, b, c, d, e \in S : <<a, b, c, d, e>> \in Seq(S)
         /\ \A a, b, c, d, e, f \in S : <<a, b, c, d, e, f>> \in Seq(S)
         /\ \A a, b, c, d, e, f, g \in S : <<a, b, c, d, e, f, g>> \in Seq(S)
         /\ \A a, b, c, d, e, f, g, h, i \in S : <<a, b, c, d, e, f, g, h, i>> \in Seq(S)
OBVIOUS

LEMMA DoItem == Item("do", "", <<"tree">>) \in Flats
BY ItemsLegal

LEMMA RefItems ==
  /\ Ref("assignment", <<"pass">>) \in Flats
  /\ Ref("leftValue", <<"line", "need", "tree">>) \in Flats
  /\ Ref("funcDefine", <<"pass">>) \in Flats
  /\ Ref("varDefine", <<"pass">>) \in Flats
  /\ Ref("rtTypeAtom", <<"assertCall", "need", "tree">>) \in Flats
  /\ Ref("varDeclares", <<>>) \in Flats
  /\ Ref("statement", <<"add">>) \in Flats
  /\ Ref("expr", <<"need">>) \in Flats
  /\ Ref("statement", <<"may">>) \in Flats
  /\ Ref("forStart", <<"may">>) \in Flats
  /\ Ref("expr", <<"may">>) \in Flats
  /\ Ref("statement", <<"may", "popBlock", "tree">>) \in Flats
  /\ Ref("statement", <<"may", "tree">>) \in Flats
  /\ Ref("idList", <<>>) \in Flats
  /\ Ref("expr", <<"need", "tree">>) \in Flats
  /\ Ref("funcBody", <<"need", "tree">>) \in Flats
  /\ Ref("leftValue", <<"need">>) \in Flats
  /\ Ref("assignOp", <<"operator">>) \in Flats
  /\ Ref("expr", <<"compound", "need", "tree">>) \in Flats
  /\ Ref("rtTypeAtom", <<"pass", "assertTarget">>) \in Flats
  /\ Ref("exprList", <<"may">>) \in Flats
  /\ Ref("funcBody", <<"pass">>) \in Flats
  /\ Ref("expr", <<"append">>) \in Flats
  /\ Ref("logicExpr", <<"pass">>) \in Flats
  /\ Ref("atom", <<"unary">>) \in Flats
  /\ Ref("literalAtom", <<"pass">>) \in Flats
  /\ Ref("rtTypeAtom", <<"pass">>) \in Flats
  /\ Ref("expr", <<"pass">>) \in Flats
  /\ Ref("arrayExpr", <<"pass">>) \in Flats
  /\ Ref("lambdaExpr", <<"pass">>) \in Flats
  /\ Ref("rtTypeAtomHead", <<"pass">>) \in Flats
<1>1. "add" \in Plain /\ "append" \in Plain /\ "assertCall" \in Plain /\ "assertTarget" \in Plain
        /\ "compound" \in Plain /\ "line" \in Plain /\ "may" \in Plain /\ "need" \in Plain /\
        "operator" \in Plain /\ "popBlock" \in Plain /\ "tree" \in Plain
  BY DEF Plain
<1>2. "assignment" \in Callable /\ "leftValue" \in Callable /\ "funcDefine" \in Callable /\
        "varDefine" \in Callable /\ "rtTypeAtom" \in Callable /\ "varDeclares" \in Callable /\
        "statement" \in Callable /\ "expr" \in Callable /\ "forStart" \in Callable /\ "idList" \in
        Callable /\ "funcBody" \in Callable /\ "assignOp" \in Callable /\ "exprList" \in Callable
        /\ "logicExpr" \in Callable /\ "atom" \in Callable /\ "literalAtom" \in Callable /\
        "arrayExpr" \in Callable /\ "lambdaExpr" \in Callable /\ "rtTypeAtomHead" \in Callable
  BY CallableAre
<1>3. /\ Ref("assignment", <<"pass">>) \in Flats
      /\ Ref("funcDefine", <<"pass">>) \in Flats
      /\ Ref("varDefine", <<"pass">>) \in Flats
      /\ Ref("varDeclares", <<>>) \in Flats
      /\ Ref("statement", <<"add">>) \in Flats
      /\ Ref("expr", <<"need">>) \in Flats
      /\ Ref("statement", <<"may">>) \in Flats
      /\ Ref("forStart", <<"may">>) \in Flats
      /\ Ref("expr", <<"may">>) \in Flats
      /\ Ref("idList", <<>>) \in Flats
      /\ Ref("leftValue", <<"need">>) \in Flats
      /\ Ref("assignOp", <<"operator">>) \in Flats
      /\ Ref("exprList", <<"may">>) \in Flats
      /\ Ref("funcBody", <<"pass">>) \in Flats
      /\ Ref("expr", <<"append">>) \in Flats
      /\ Ref("logicExpr", <<"pass">>) \in Flats
      /\ Ref("atom", <<"unary">>) \in Flats
      /\ Ref("literalAtom", <<"pass">>) \in Flats
      /\ Ref("rtTypeAtom", <<"pass">>) \in Flats
      /\ Ref("expr", <<"pass">>) \in Flats
      /\ Ref("arrayExpr", <<"pass">>) \in Flats
      /\ Ref("lambdaExpr", <<"pass">>) \in Flats
      /\ Ref("rtTypeAtomHead", <<"pass">>) \in Flats
  BY <1>1, <1>2, ItemsLegal
<1>4. /\ Ref("leftValue", <<"line", "need", "tree">>) \in Flats
      /\ Ref("rtTypeAtom", <<"assertCall", "need", "tree">>) \in Flats
      /\ Ref("statement", <<"may", "popBlock", "tree">>) \in Flats
      /\ Ref("expr", <<"compound", "need", "tree">>) \in Flats
  BY <1>1, <1>2, ItemsLegal
<1>5. /\ Ref("statement", <<"may", "tree">>) \in Flats
      /\ Ref("expr", <<"need", "tree">>) \in Flats
      /\ Ref("funcBody", <<"need", "tree">>) \in Flats
      /\ Ref("rtTypeAtom", <<"pass", "assertTarget">>) \in Flats
  BY <1>1, <1>2, ItemsLegal
<1> QED
  BY <1>3, <1>4, <1>5

(* Every rule but program and statement is made of such items.              *)
LEMMA RulesLegal == \A r \in Callable \ {"statement"} : Rules[r] \in Seq(Legal)
<1>1. StatementRules["varDeclares"] \in Seq(Legal)
  <2>1. StatementRules["varDeclares"] = <<Tok("var"), Ref("idList", <<>>)>>
    BY DEF StatementRules
  <2>2. Tok("var") \in Legal /\ Ref("idList", <<>>) \in Legal
    BY TokItems, RefItems, FlatsLegal
  <2>3. <<Tok("var"), Ref("idList", <<>>)>> \in Seq(Legal)
    BY <2>2, Tuples
  <2> QED
    BY <2>1, <2>3
<1>2. StatementRules["varDefine"] \in Seq(Legal)
  <2>1. StatementRules["varDefine"] = <<Tok("var"), Tok("ID"), Tok("="), Ref("expr", <<"need",
          "tree">>)>>
    BY DEF StatementRules
  <2>2. Tok("var") \in Legal /\ Tok("ID") \in Legal /\ Tok("=") \in Legal /\ Ref("expr", <<"need",
          "tree">>) \in Legal
    BY TokItems, RefItems, FlatsLegal
  <2>3. <<Tok("var"), Tok("ID"), Tok("="), Ref("expr", <<"need", "tree">>)>> \in Seq(Legal)
    BY <2>2, Tuples
  <2> QED
    BY <2>1, <2>3
<1>3. StatementRules["funcDefine"] \in Seq(Legal)
  <2>1. StatementRules["funcDefine"] = <<Opt(<<Tok("var")>>), Tok("function"), Tok("ID"),
          Ref("funcBody", <<"need", "tree">>)>>
    BY DEF StatementRules
  <2>2. <<Tok("var")>> \in Seq(Flats)
    BY TokItems, Tuples
  <2>3. Opt(<<Tok("var")>>) \in Nest(Flats)
    BY <2>2, OptNested
  <2>4. Opt(<<Tok("var")>>) \in Legal /\ Tok("function") \in Legal /\ Tok("ID") \in Legal /\
          Ref("funcBody", <<"need", "tree">>) \in Legal
    BY <2>3, TokItems, RefItems, FlatsLegal
  <2>5. <<Opt(<<Tok("var")>>), Tok("function"), Tok("ID"), Ref("funcBody", <<"need", "tree">>)>>
          \in Seq(Legal)
    BY <2>4, Tuples
  <2> QED
    BY <2>1, <2>5
<1>4. StatementRules["forStart"] \in Seq(Legal)
  <2>1. StatementRules["forStart"] = <<Alts(<<<<Ref("assignment", <<"pass">>)>>,
          <<Ref("varDefine", <<"pass">>)>>>>)>>
    BY DEF StatementRules
  <2>2. <<Ref("assignment", <<"pass">>)>> \in Seq(Flats) /\ <<Ref("varDefine", <<"pass">>)>> \in
          Seq(Flats)
    BY RefItems, FlatsLegal, Tuples
  <2>3. Alts(<<<<Ref("assignment", <<"pass">>)>>, <<Ref("varDefine", <<"pass">>)>>>>) \in
          Nest(Flats)
    BY <2>2, AltsNested, Tuples
  <2>4. Alts(<<<<Ref("assignment", <<"pass">>)>>, <<Ref("varDefine", <<"pass">>)>>>>) \in Legal
    BY <2>3, FlatsLegal
  <2>5. <<Alts(<<<<Ref("assignment", <<"pass">>)>>, <<Ref("varDefine", <<"pass">>)>>>>)>> \in
          Seq(Legal)
    BY <2>4, Tuples
  <2> QED
    BY <2>1, <2>5
<1>5. StatementRules["idList"] \in Seq(Legal)
  <2>1. StatementRules["idList"] = <<Tok("ID"), Star(<<Tok(","), Tok("ID")>>)>>
    BY DEF StatementRules
  <2>2. <<Tok(","), Tok("ID")>> \in Seq(Flats)
    BY TokItems, Tuples
  <2>3. Star(<<Tok(","), Tok("ID")>>) \in Nest(Flats)
    BY <2>2, OptNested
  <2>4. Tok("ID") \in Legal /\ Star(<<Tok(","), Tok("ID")>>) \in Legal
    BY <2>3, TokItems, FlatsLegal
  <2>5. <<Tok("ID"), Star(<<Tok(","), Tok("ID")>>)>> \in Seq(Legal)
    BY <2>4, Tuples
  <2> QED
    BY <2>1, <2>5
<1>6. StatementRules["assignment"] \in Seq(Legal)
  <2>1. StatementRules["assignment"] = <<Ref("leftValue", <<"need">>), Ref("assignOp",
          <<"operator">>), Ref("expr", <<"compound", "need", "tree">>)>>
    BY DEF StatementRules
  <2>2. Ref("leftValue", <<"need">>) \in Legal /\ Ref("assignOp", <<"operator">>) \in Legal /\
          Ref("expr", <<"compound", "need", "tree">>) \in Legal
    BY RefItems, FlatsLegal
  <2>3. <<Ref("leftValue", <<"need">>), Ref("assignOp", <<"operator">>), Ref("expr", <<"compound",
          "need", "tree">>)>> \in Seq(Legal)
    BY <2>2, Tuples
  <2> QED
    BY <2>1, <2>3
<1>7. StatementRules["funcBody"] \in Seq(Legal)
  <2>1. StatementRules["funcBody"] = <<Tok("("), Opt(<<Ref("idList", <<>>)>>), TokDo(")",
          <<"pushTable">>), Tok("{"), Star(<<Ref("statement", <<"add">>)>>), TokDo("}",
          <<"popTable", "emit", "tree">>)>>
    BY DEF StatementRules
  <2>2. <<Ref("idList", <<>>)>> \in Seq(Flats)
    BY RefItems, Tuples
  <2>3. Opt(<<Ref("idList", <<>>)>>) \in Nest(Flats)
    BY <2>2, OptNested
  <2>4. <<Ref("statement", <<"add">>)>> \in Seq(Flats)
    BY RefItems, Tuples
  <2>5. Star(<<Ref("statement", <<"add">>)>>) \in Nest(Flats)
    BY <2>4, OptNested
  <2>6. Tok("(") \in Legal /\ Opt(<<Ref("idList", <<>>)>>) \in Legal /\ TokDo(")",
          <<"pushTable">>) \in Legal /\ Tok("{") \in Legal /\ Star(<<Ref("statement",
          <<"add">>)>>) \in Legal /\ TokDo("}", <<"popTable", "emit", "tree">>) \in Legal
    BY <2>3, <2>5, TokItems, TokDoItems, FlatsLegal
  <2>7. <<Tok("("), Opt(<<Ref("idList", <<>>)>>), TokDo(")", <<"pushTable">>), Tok("{"),
          Star(<<Ref("statement", <<"add">>)>>), TokDo("}", <<"popTable", "emit", "tree">>)>> \in
          Seq(Legal)
    BY <2>6, Tuples
  <2> QED
    BY <2>1, <2>7
<1>8. ExpressionRules["leftValue"] \in Seq(Legal)
  <2>1. ExpressionRules["leftValue"] = <<Ref("rtTypeAtom", <<"pass", "assertTarget">>)>>
    BY DEF ExpressionRules
  <2>2. Ref("rtTypeAtom", <<"pass", "assertTarget">>) \in Legal
    BY RefItems, FlatsLegal
  <2>3. <<Ref("rtTypeAtom", <<"pass", "assertTarget">>)>> \in Seq(Legal)
    BY <2>2, Tuples
  <2> QED
    BY <2>1, <2>3
<1>9. ExpressionRules["arrayExpr"] \in Seq(Legal)
  <2>1. ExpressionRules["arrayExpr"] = <<Tok("["), Ref("exprList", <<"may">>), TokDo("]",
          <<"tree">>)>>
    BY DEF ExpressionRules
  <2>2. Tok("[") \in Legal /\ Ref("exprList", <<"may">>) \in Legal /\ TokDo("]", <<"tree">>) \in
          Legal
    BY TokItems, RefItems, TokDoItems, FlatsLegal
  <2>3. <<Tok("["), Ref("exprList", <<"may">>), TokDo("]", <<"tree">>)>> \in Seq(Legal)
    BY <2>2, Tuples
  <2> QED
    BY <2>1, <2>3
<1>10. ExpressionRules["lambdaExpr"] \in Seq(Legal)
  <2>1. ExpressionRules["lambdaExpr"] = <<Tok("function"), Ref("funcBody", <<"pass">>)>>
    BY DEF ExpressionRules
  <2>2. Tok("function") \in Legal /\ Ref("funcBody", <<"pass">>) \in Legal
    BY TokItems, RefItems, FlatsLegal
  <2>3. <<Tok("function"), Ref("funcBody", <<"pass">>)>> \in Seq(Legal)
    BY <2>2, Tuples
  <2> QED
    BY <2>1, <2>3
<1>11. ExpressionRules["exprList"] \in Seq(Legal)
  <2>1. ExpressionRules["exprList"] = <<Alts(<<<<Ref("expr", <<"append">>), Star(<<Tok(","),
          Ref("expr", <<"append">>)>>)>>, <<>>>>)>>
    BY DEF ExpressionRules
  <2>2. <<Tok(","), Ref("expr", <<"append">>)>> \in Seq(Flats)
    BY TokItems, RefItems, Tuples
  <2>3. Star(<<Tok(","), Ref("expr", <<"append">>)>>) \in Nest(Flats)
    BY <2>2, OptNested
  <2>4. <<Ref("expr", <<"append">>), Star(<<Tok(","), Ref("expr", <<"append">>)>>)>> \in
          Seq(Nest(Flats)) /\ <<>> \in Seq(Nest(Flats))
    BY <2>3, RefItems, FlatsLegal, Tuples
  <2>5. Alts(<<<<Ref("expr", <<"append">>), Star(<<Tok(","), Ref("expr", <<"append">>)>>)>>,
          <<>>>>) \in Legal
    BY <2>4, AltsNested, Tuples DEF Legal
  <2>6. Alts(<<<<Ref("expr", <<"append">>), Star(<<Tok(","), Ref("expr", <<"append">>)>>)>>,
          <<>>>>) \in Legal
    BY <2>5, FlatsLegal
  <2>7. <<Alts(<<<<Ref("expr", <<"append">>), Star(<<Tok(","), Ref("expr", <<"append">>)>>)>>,
          <<>>>>)>> \in Seq(Legal)
    BY <2>6, Tuples
  <2> QED
    BY <2>1, <2>7
<1>12. ExpressionRules["expr"] \in Seq(Legal)
  <2>1. ExpressionRules["expr"] = <<Ref("logicExpr", <<"pass">>)>>
    BY DEF ExpressionRules
  <2>2. Ref("logicExpr", <<"pass">>) \in Legal
    BY RefItems, FlatsLegal
  <2>3. <<Ref("logicExpr", <<"pass">>)>> \in Seq(Legal)
    BY <2>2, Tuples
  <2> QED
    BY <2>1, <2>3
<1>13. ExpressionRules["logicExpr"] \in Seq(Legal)
  <2>1. ExpressionRules["logicExpr"] = Binary("relatExpr", {"&&", "||"})
    BY DEF ExpressionRules
  <2>2. "relatExpr" \in Callable /\ {"&&", "||"} \in SUBSET TokenTypes
    BY CallableAre, TypesAre
  <2> QED
    BY <2>1, <2>2, BinaryLegal
<1>14. ExpressionRules["relatExpr"] \in Seq(Legal)
  <2>1. ExpressionRules["relatExpr"] = Binary("addExpr", {"<", "<=", ">", ">=", "==", "!="})
    BY DEF ExpressionRules
  <2>2. "addExpr" \in Callable /\ {"<", "<=", ">", ">=", "==", "!="} \in SUBSET TokenTypes
    BY CallableAre, TypesAre
  <2> QED
    BY <2>1, <2>2, BinaryLegal
<1>15. ExpressionRules["addExpr"] \in Seq(Legal)
  <2>1. ExpressionRules["addExpr"] = Binary("mulExpr", {"+", "-"})
    BY DEF ExpressionRules
  <2>2. "mulExpr" \in Callable /\ {"+", "-"} \in SUBSET TokenTypes
    BY CallableAre, TypesAre
  <2> QED
    BY <2>1, <2>2, BinaryLegal
<1>16. ExpressionRules["mulExpr"] \in Seq(Legal)
  <2>1. ExpressionRules["mulExpr"] = Binary("unaryExpr", {"*", "/", "%"})
    BY DEF ExpressionRules
  <2>2. "unaryExpr" \in Callable /\ {"*", "/", "%"} \in SUBSET TokenTypes
    BY CallableAre, TypesAre
  <2> QED
    BY <2>1, <2>2, BinaryLegal
<1>17. ExpressionRules["unaryExpr"] \in Seq(Legal)
  <2>1. ExpressionRules["unaryExpr"] = <<Opt(<<SetDo({"not", "-", "#"}, <<"operator">>)>>),
          Ref("atom", <<"unary">>)>>
    BY DEF ExpressionRules
  <2>2. <<SetDo({"not", "-", "#"}, <<"operator">>)>> \in Seq(Flats)
    BY SetItems, Tuples
  <2>3. Opt(<<SetDo({"not", "-", "#"}, <<"operator">>)>>) \in Nest(Flats)
    BY <2>2, OptNested
  <2>4. Opt(<<SetDo({"not", "-", "#"}, <<"operator">>)>>) \in Legal /\ Ref("atom", <<"unary">>)
          \in Legal
    BY <2>3, RefItems, FlatsLegal
  <2>5. <<Opt(<<SetDo({"not", "-", "#"}, <<"operator">>)>>), Ref("atom", <<"unary">>)>> \in
          Seq(Legal)
    BY <2>4, Tuples
  <2> QED
    BY <2>1, <2>5
<1>18. ExpressionRules["atom"] \in Seq(Legal)
  <2>1. ExpressionRules["atom"] = <<Alts(<<<<Ref("literalAtom", <<"pass">>)>>, <<Ref("rtTypeAtom",
          <<"pass">>)>>, <<Tok("("), Ref("expr", <<"pass">>), Tok(")")>>>>)>>
    BY DEF ExpressionRules
  <2>2. <<Ref("literalAtom", <<"pass">>)>> \in Seq(Flats) /\ <<Ref("rtTypeAtom", <<"pass">>)>> \in
          Seq(Flats) /\ <<Tok("("), Ref("expr", <<"pass">>), Tok(")")>> \in Seq(Flats)
    BY RefItems, TokItems, FlatsLegal, Tuples
  <2>3. Alts(<<<<Ref("literalAtom", <<"pass">>)>>, <<Ref("rtTypeAtom", <<"pass">>)>>, <<Tok("("),
          Ref("expr", <<"pass">>), Tok(")")>>>>) \in Nest(Flats)
    BY <2>2, AltsNested, Tuples
  <2>4. Alts(<<<<Ref("literalAtom", <<"pass">>)>>, <<Ref("rtTypeAtom", <<"pass">>)>>, <<Tok("("),
          Ref("expr", <<"pass">>), Tok(")")>>>>) \in Legal
    BY <2>3, FlatsLegal
  <2>5. <<Alts(<<<<Ref("literalAtom", <<"pass">>)>>, <<Ref("rtTypeAtom", <<"pass">>)>>,
          <<Tok("("), Ref("expr", <<"pass">>), Tok(")")>>>>)>> \in Seq(Legal)
    BY <2>4, Tuples
  <2> QED
    BY <2>1, <2>5
<1>19. ExpressionRules["literalAtom"] \in Seq(Legal)
  <2>1. ExpressionRules["literalAtom"] = <<Alts(<<<<SetDo(Constants, <<"tree">>)>>,
          <<Ref("arrayExpr", <<"pass">>)>>, <<Ref("lambdaExpr", <<"pass">>)>>>>)>>
    BY DEF ExpressionRules
  <2>2. <<SetDo(Constants, <<"tree">>)>> \in Seq(Flats) /\ <<Ref("arrayExpr", <<"pass">>)>> \in
          Seq(Flats) /\ <<Ref("lambdaExpr", <<"pass">>)>> \in Seq(Flats)
    BY SetItems, RefItems, FlatsLegal, Tuples
  <2>3. Alts(<<<<SetDo(Constants, <<"tree">>)>>, <<Ref("arrayExpr", <<"pass">>)>>,
          <<Ref("lambdaExpr", <<"pass">>)>>>>) \in Nest(Flats)
    BY <2>2, AltsNested, Tuples
  <2>4. Alts(<<<<SetDo(Constants, <<"tree">>)>>, <<Ref("arrayExpr", <<"pass">>)>>,
          <<Ref("lambdaExpr", <<"pass">>)>>>>) \in Legal
    BY <2>3, FlatsLegal
  <2>5. <<Alts(<<<<SetDo(Constants, <<"tree">>)>>, <<Ref("arrayExpr", <<"pass">>)>>,
          <<Ref("lambdaExpr", <<"pass">>)>>>>)>> \in Seq(Legal)
    BY <2>4, Tuples
  <2> QED
    BY <2>1, <2>5
<1>20. ExpressionRules["rtTypeAtomHead"] \in Seq(Legal)
  <2>1. ExpressionRules["rtTypeAtomHead"] = <<TokDo("ID", <<"name">>)>>
    BY DEF ExpressionRules
  <2>2. TokDo("ID", <<"name">>) \in Legal
    BY TokDoItems, FlatsLegal
  <2>3. <<TokDo("ID", <<"name">>)>> \in Seq(Legal)
    BY <2>2, Tuples
  <2> QED
    BY <2>1, <2>3
<1>21. ExpressionRules["rtTypeAtom"] \in Seq(Legal)
  <2>1. ExpressionRules["rtTypeAtom"] = <<Ref("rtTypeAtomHead", <<"pass">>),
          Star(<<Alts(<<<<Tok("("), Ref("exprList", <<"may">>), TokDo(")", <<"call">>)>>,
          <<Tok("["), Ref("expr", <<"need">>), TokDo("]", <<"index">>)>>>>)>>)>>
    BY DEF ExpressionRules
  <2>2. <<Tok("("), Ref("exprList", <<"may">>), TokDo(")", <<"call">>)>> \in Seq(Flats) /\
          <<Tok("["), Ref("expr", <<"need">>), TokDo("]", <<"index">>)>> \in Seq(Flats)
    BY TokItems, RefItems, TokDoItems, FlatsLegal, Tuples
  <2>3. Alts(<<<<Tok("("), Ref("exprList", <<"may">>), TokDo(")", <<"call">>)>>, <<Tok("["),
          Ref("expr", <<"need">>), TokDo("]", <<"index">>)>>>>) \in Nest(Flats)
    BY <2>2, AltsNested, Tuples
  <2>4. <<Alts(<<<<Tok("("), Ref("exprList", <<"may">>), TokDo(")", <<"call">>)>>, <<Tok("["),
          Ref("expr", <<"need">>), TokDo("]", <<"index">>)>>>>)>> \in Seq(Nest(Flats))
    BY <2>3, Tuples
  <2>5. Star(<<Alts(<<<<Tok("("), Ref("exprList", <<"may">>), TokDo(")", <<"call">>)>>,
          <<Tok("["), Ref("expr", <<"need">>), TokDo("]", <<"index">>)>>>>)>>) \in Legal
    BY <2>4, OptNested DEF Legal
  <2>6. Ref("rtTypeAtomHead", <<"pass">>) \in Legal /\ Star(<<Alts(<<<<Tok("("), Ref("exprList",
          <<"may">>), TokDo(")", <<"call">>)>>, <<Tok("["), Ref("expr", <<"need">>), TokDo("]",
          <<"index">>)>>>>)>>) \in Legal
    BY <2>5, RefItems, FlatsLegal
  <2>7. <<Ref("rtTypeAtomHead", <<"pass">>), Star(<<Alts(<<<<Tok("("), Ref("exprList", <<"may">>),
          TokDo(")", <<"call">>)>>, <<Tok("["), Ref("expr", <<"need">>), TokDo("]",
          <<"index">>)>>>>)>>)>> \in Seq(Legal)
    BY <2>6, Tuples
  <2> QED
    BY <2>1, <2>7
<1>22. ExpressionRules["assignOp"] \in Seq(Legal)
  <2>1. ExpressionRules["assignOp"] = <<SetDo(AssignOps, <<"pass">>)>>
    BY DEF ExpressionRules
  <2>2. SetDo(AssignOps, <<"pass">>) \in Legal
    BY SetItems, FlatsLegal
  <2>3. <<SetDo(AssignOps, <<"pass">>)>> \in Seq(Legal)
    BY <2>2, Tuples
  <2> QED
    BY <2>1, <2>3
<1>23. DOMAIN StatementRules \ {"program", "statement"} = {"varDeclares", "varDefine",
         "funcDefine", "forStart", "idList", "assignment", "funcBody"}
  BY DEF StatementRules
<1>24. DOMAIN ExpressionRules =
        {"leftValue", "arrayExpr", "lambdaExpr", "exprList", "expr", "logicExpr", "relatExpr",
          "addExpr", "mulExpr", "unaryExpr", "atom", "literalAtom", "rtTypeAtomHead",
          "rtTypeAtom", "assignOp"}
  BY DEF ExpressionRules
<1>25. \A r \in DOMAIN StatementRules \ {"program", "statement"} : StatementRules[r] \in
         Seq(Legal)
  BY <1>1, <1>2, <1>3, <1>4, <1>5, <1>6, <1>7, <1>23
<1>26. \A r \in DOMAIN ExpressionRules : ExpressionRules[r] \in Seq(Legal)
  BY <1>8, <1>9, <1>10, <1>11, <1>12, <1>13, <1>14, <1>15, <1>16, <1>17, <1>18, <1>19, <1>20,
    <1>21, <1>22, <1>24
<1> QED
  BY <1>25, <1>26, RulesAre DEF Callable

(* And so are the alternatives of statement, but for return.                *)
LEMMA AltsLegal ==
  /\ DOMAIN StatementAlts = 1..14
  /\ \A a \in 1..14 : a # 13 => StatementAlts[a] \in Seq(Legal)
<1>1. StatementAlts[1] \in Seq(Legal)
  <2>1. StatementAlts[1] = <<Ref("assignment", <<"pass">>)>>
    BY DEF StatementAlts
  <2>2. Ref("assignment", <<"pass">>) \in Legal
    BY RefItems, FlatsLegal
  <2>3. <<Ref("assignment", <<"pass">>)>> \in Seq(Legal)
    BY <2>2, Tuples
  <2> QED
    BY <2>1, <2>3
<1>2. StatementAlts[2] \in Seq(Legal)
  <2>1. StatementAlts[2] = <<Set(Steps), Ref("leftValue", <<"line", "need", "tree">>)>>
    BY DEF StatementAlts
  <2>2. Set(Steps) \in Legal /\ Ref("leftValue", <<"line", "need", "tree">>) \in Legal
    BY SetItems, RefItems, FlatsLegal
  <2>3. <<Set(Steps), Ref("leftValue", <<"line", "need", "tree">>)>> \in Seq(Legal)
    BY <2>2, Tuples
  <2> QED
    BY <2>1, <2>3
<1>3. StatementAlts[3] \in Seq(Legal)
  <2>1. StatementAlts[3] = <<Ref("funcDefine", <<"pass">>)>>
    BY DEF StatementAlts
  <2>2. Ref("funcDefine", <<"pass">>) \in Legal
    BY RefItems, FlatsLegal
  <2>3. <<Ref("funcDefine", <<"pass">>)>> \in Seq(Legal)
    BY <2>2, Tuples
  <2> QED
    BY <2>1, <2>3
<1>4. StatementAlts[4] \in Seq(Legal)
  <2>1. StatementAlts[4] = <<Ref("varDefine", <<"pass">>)>>
    BY DEF StatementAlts
  <2>2. Ref("varDefine", <<"pass">>) \in Legal
    BY RefItems, FlatsLegal
  <2>3. <<Ref("varDefine", <<"pass">>)>> \in Seq(Legal)
    BY <2>2, Tuples
  <2> QED
    BY <2>1, <2>3
<1>5. StatementAlts[5] \in Seq(Legal)
  <2>1. StatementAlts[5] = <<Ref("rtTypeAtom", <<"assertCall", "need", "tree">>)>>
    BY DEF StatementAlts
  <2>2. Ref("rtTypeAtom", <<"assertCall", "need", "tree">>) \in Legal
    BY RefItems, FlatsLegal
  <2>3. <<Ref("rtTypeAtom", <<"assertCall", "need", "tree">>)>> \in Seq(Legal)
    BY <2>2, Tuples
  <2> QED
    BY <2>1, <2>3
<1>6. StatementAlts[6] \in Seq(Legal)
  <2>1. StatementAlts[6] = <<Ref("varDeclares", <<>>)>>
    BY DEF StatementAlts
  <2>2. Ref("varDeclares", <<>>) \in Legal
    BY RefItems, FlatsLegal
  <2>3. <<Ref("varDeclares", <<>>)>> \in Seq(Legal)
    BY <2>2, Tuples
  <2> QED
    BY <2>1, <2>3
<1>7. StatementAlts[7] \in Seq(Legal)
  <2>1. StatementAlts[7] = <<TokDo("{", <<"tree", "pushBlock">>), Star(<<Ref("statement",
          <<"add">>)>>), TokDo("}", <<"popBlock">>)>>
    BY DEF StatementAlts
  <2>2. <<Ref("statement", <<"add">>)>> \in Seq(Flats)
    BY RefItems, Tuples
  <2>3. Star(<<Ref("statement", <<"add">>)>>) \in Nest(Flats)
    BY <2>2, OptNested
  <2>4. TokDo("{", <<"tree", "pushBlock">>) \in Legal /\ Star(<<Ref("statement", <<"add">>)>>) \in
          Legal /\ TokDo("}", <<"popBlock">>) \in Legal
    BY <2>3, TokDoItems, FlatsLegal
  <2>5. <<TokDo("{", <<"tree", "pushBlock">>), Star(<<Ref("statement", <<"add">>)>>), TokDo("}",
          <<"popBlock">>)>> \in Seq(Legal)
    BY <2>4, Tuples
  <2> QED
    BY <2>1, <2>5
<1>8. StatementAlts[8] \in Seq(Legal)
  <2>1. StatementAlts[8] = <<Tok("if"), Tok("("), Ref("expr", <<"need">>), Tok(")"),
          Ref("statement", <<"may">>), Opt(<<Tok("else"), Ref("statement", <<"may">>)>>),
          Item("do", "", <<"tree">>)>>
    BY DEF StatementAlts
  <2>2. <<Tok("else"), Ref("statement", <<"may">>)>> \in Seq(Flats)
    BY TokItems, RefItems, Tuples
  <2>3. Opt(<<Tok("else"), Ref("statement", <<"may">>)>>) \in Nest(Flats)
    BY <2>2, OptNested
  <2>4. Tok("if") \in Legal /\ Tok("(") \in Legal /\ Ref("expr", <<"need">>) \in Legal /\ Tok(")")
          \in Legal /\ Ref("statement", <<"may">>) \in Legal /\ Opt(<<Tok("else"),
          Ref("statement", <<"may">>)>>) \in Legal /\ Item("do", "", <<"tree">>) \in Legal
    BY <2>3, TokItems, RefItems, DoItem, FlatsLegal
  <2>5. <<Tok("if"), Tok("("), Ref("expr", <<"need">>), Tok(")"), Ref("statement", <<"may">>),
          Opt(<<Tok("else"), Ref("statement", <<"may">>)>>), Item("do", "", <<"tree">>)>> \in
          Seq(Legal)
    BY <2>4, Tuples
  <2> QED
    BY <2>1, <2>5
<1>9. StatementAlts[9] \in Seq(Legal)
  <2>1. StatementAlts[9] = <<TokDo("for", <<"pushBlock">>), Tok("("), Opt(<<Ref("forStart",
          <<"may">>)>>), Tok(";"), Opt(<<Ref("expr", <<"may">>)>>), Tok(";"),
          Opt(<<Ref("statement", <<"may">>)>>), Tok(")"), Ref("statement", <<"may", "popBlock",
          "tree">>)>>
    BY DEF StatementAlts
  <2>2. <<Ref("forStart", <<"may">>)>> \in Seq(Flats)
    BY RefItems, Tuples
  <2>3. Opt(<<Ref("forStart", <<"may">>)>>) \in Nest(Flats)
    BY <2>2, OptNested
  <2>4. <<Ref("expr", <<"may">>)>> \in Seq(Flats)
    BY RefItems, Tuples
  <2>5. Opt(<<Ref("expr", <<"may">>)>>) \in Nest(Flats)
    BY <2>4, OptNested
  <2>6. <<Ref("statement", <<"may">>)>> \in Seq(Flats)
    BY RefItems, Tuples
  <2>7. Opt(<<Ref("statement", <<"may">>)>>) \in Nest(Flats)
    BY <2>6, OptNested
  <2>8. TokDo("for", <<"pushBlock">>) \in Legal /\ Tok("(") \in Legal /\ Opt(<<Ref("forStart",
          <<"may">>)>>) \in Legal /\ Tok(";") \in Legal /\ Opt(<<Ref("expr", <<"may">>)>>) \in
          Legal /\ Opt(<<Ref("statement", <<"may">>)>>) \in Legal /\ Tok(")") \in Legal /\
          Ref("statement", <<"may", "popBlock", "tree">>) \in Legal
    BY <2>3, <2>5, <2>7, TokDoItems, TokItems, RefItems, FlatsLegal
  <2>9. <<TokDo("for", <<"pushBlock">>), Tok("("), Opt(<<Ref("forStart", <<"may">>)>>), Tok(";"),
          Opt(<<Ref("expr", <<"may">>)>>), Tok(";"), Opt(<<Ref("statement", <<"may">>)>>),
          Tok(")"), Ref("statement", <<"may", "popBlock", "tree">>)>> \in Seq(Legal)
    BY <2>8, Tuples
  <2> QED
    BY <2>1, <2>9
<1>10. StatementAlts[10] \in Seq(Legal)
  <2>1. StatementAlts[10] = <<Tok("while"), Tok("("), Ref("expr", <<"need">>), Tok(")"),
          Ref("statement", <<"may", "tree">>)>>
    BY DEF StatementAlts
  <2>2. Tok("while") \in Legal /\ Tok("(") \in Legal /\ Ref("expr", <<"need">>) \in Legal /\
          Tok(")") \in Legal /\ Ref("statement", <<"may", "tree">>) \in Legal
    BY TokItems, RefItems, FlatsLegal
  <2>3. <<Tok("while"), Tok("("), Ref("expr", <<"need">>), Tok(")"), Ref("statement", <<"may",
          "tree">>)>> \in Seq(Legal)
    BY <2>2, Tuples
  <2> QED
    BY <2>1, <2>3
<1>11. StatementAlts[11] \in Seq(Legal)
  <2>1. StatementAlts[11] = <<TokDo("break", <<"tree">>)>>
    BY DEF StatementAlts
  <2>2. TokDo("break", <<"tree">>) \in Legal
    BY TokDoItems, FlatsLegal
  <2>3. <<TokDo("break", <<"tree">>)>> \in Seq(Legal)
    BY <2>2, Tuples
  <2> QED
    BY <2>1, <2>3
<1>12. StatementAlts[12] \in Seq(Legal)
  <2>1. StatementAlts[12] = <<TokDo("continue", <<"tree">>)>>
    BY DEF StatementAlts
  <2>2. TokDo("continue", <<"tree">>) \in Legal
    BY TokDoItems, FlatsLegal
  <2>3. <<TokDo("continue", <<"tree">>)>> \in Seq(Legal)
    BY <2>2, Tuples
  <2> QED
    BY <2>1, <2>3
<1>13. StatementAlts[14] \in Seq(Legal)
  <2>1. StatementAlts[14] = <<Tok(";")>>
    BY DEF StatementAlts
  <2>2. Tok(";") \in Legal
    BY TokItems, FlatsLegal
  <2>3. <<Tok(";")>> \in Seq(Legal)
    BY <2>2, Tuples
  <2> QED
    BY <2>1, <2>3
<1>14. DOMAIN StatementAlts = 1..14
  BY DEF StatementAlts
<1>15. \A a \in 1..14 : a # 13 => a \in {1, 2, 3, 4, 5, 6, 7, 8, 9, 10, 11, 12, 14}
  OBVIOUS
<1> QED
  BY <1>1, <1>2, <1>3, <1>4, <1>5, <1>6, <1>7, <1>8, <1>9, <1>10, <1>11, <1>12, <1>13, <1>14,
    <1>15

LEMMA LegalOps ==
  ASSUME NEW i \in Legal
  PROVE  /\ i.op \in {"tok", "set", "ref", "do", "opt", "star", "alts"}
         /\ i.op = "tok" => i.arg \in TokenTypes /\ i.acts \in Seq(Plain)
         /\ i.op = "set" => /\ i.arg \subseteq TokenTypes /\ i.acts \in Seq(Acting)
                            /\ i.acts \in Seq(Plain) \/ i.arg \subseteq AssignOps
         /\ i.op = "ref" => i.arg \in Callable /\ i.acts \in Seq(Acting)
         /\ i.op = "do" => i.acts \in Seq(Plain)
         /\ i.op \in {"opt", "star"} => i.arg \in Seq(Legal)
         /\ i.op = "alts" => /\ DOMAIN i.arg \subseteq Nat
                             /\ \A a \in DOMAIN i.arg : i.arg[a] \in Seq(Legal)
<1>1. Seq(Plain) \subseteq Seq(Acting)
  BY SeqMonotonic DEF Acting
<1>2. AssignOps \subseteq TokenTypes
  BY TypesAre
<1>3. CASE i \in Flats
  BY <1>1, <1>2, <1>3 DEF Flats
<1>4. ASSUME NEW S, S \subseteq Legal,
             i \in [op : {"opt", "star"}, arg : Seq(S), acts : {<<>>}]
                     \union [op : {"alts"}, arg : Seq(Seq(S)), acts : {<<>>}]
      PROVE  /\ i.op \in {"opt", "star", "alts"}
             /\ i.op \in {"opt", "star"} => i.arg \in Seq(Legal)
             /\ i.op = "alts" => /\ DOMAIN i.arg \subseteq Nat
                                 /\ \A a \in DOMAIN i.arg : i.arg[a] \in Seq(Legal)
  <2>1. Seq(S) \subseteq Seq(Legal)
    BY <1>4, SeqMonotonic
  <2>2. i.op = "alts" => i.arg \in Seq(Seq(S))
    BY <1>4
  <2>3. i.op = "alts" => DOMAIN i.arg \subseteq Nat /\ \A a \in DOMAIN i.arg : i.arg[a] \in Seq(S)
    BY <2>2
  <2>4. i.op \in {"opt", "star"} => i.arg \in Seq(S)
    BY <1>4
  <2>5. i.op \in {"opt", "star", "alts"}
    BY <1>4
  <2> HIDE DEF Legal
  <2> QED
    BY <2>1, <2>3, <2>4, <2>5
<1>5. CASE i \in Nest(Flats) \ Flats
  <2>1. i \in [op : {"opt", "star"}, arg : Seq(Flats), acts : {<<>>}]
                \union [op : {"alts"}, arg : Seq(Seq(Flats)), acts : {<<>>}]
    BY <1>5 DEF Nest
  <2> QED
    BY <1>4, <2>1, FlatsLegal
<1>6. CASE i \notin Nest(Flats)
  <2>1. i \in [op : {"opt", "star"}, arg : Seq(Nest(Flats)), acts : {<<>>}]
                \union [op : {"alts"}, arg : Seq(Seq(Nest(Flats))), acts : {<<>>}]
    BY <1>6 DEF Nest, Legal
  <2> QED
    BY <1>4, <2>1, FlatsLegal
<1> QED
  BY <1>3, <1>5, <1>6

(* No predicate is next, and no return is ahead. *)
Calm(todo) == todo # <<>> => Head(todo).op # "pred" /\ todo # ReturnTodo

(* What is left of a rule after a step, at its place on the stack.          *)
Goes(i, todo) == Good(i, todo) /\ Calm(todo)

(* Short sequences.                                                         *)
LEMMA OneItem == ASSUME NEW a PROVE Head(<<a>>) = a /\ Tail(<<a>>) = <<>> /\ <<a>> # <<>>
OBVIOUS

LEMMA TwoItems ==
  ASSUME NEW a, NEW b
  PROVE  Head(<<a, b>>) = a /\ Tail(<<a, b>>) = <<b>> /\ <<a, b>> # <<>>
OBVIOUS

LEMMA ThreeItems ==
  ASSUME NEW a, NEW b, NEW c
  PROVE  Head(<<a, b, c>>) = a /\ Tail(<<a, b, c>>) = <<b, c>> /\ <<a, b, c>> # <<>>
OBVIOUS

LEMMA ItemBefore ==
  ASSUME NEW a, NEW b, NEW c
  PROVE  <<a>> \o <<b>> = <<a, b>> /\ <<a>> \o <<b, c>> = <<a, b, c>> /\ <<a>> \o <<>> = <<a>>
<1> DEFINE S == {a, b, c}
<1>1. /\ <<a>> \in Seq(S) /\ <<b>> \in Seq(S) /\ <<a, b>> \in Seq(S)
      /\ <<b, c>> \in Seq(S) /\ <<a, b, c>> \in Seq(S)
  BY Tuples
<1>2. <<a>> \o <<b>> = <<a, b>>
  <2>1. PICK s : s = <<a>> \o <<b>>
    OBVIOUS
  <2>2. /\ s \in Seq(S) /\ Len(s) = 2
        /\ \A i \in 1..2 : s[i] = IF i <= 1 THEN <<a>>[i] ELSE <<b>>[i - 1]
    BY <1>1, <2>1, ConcatProperties
  <2>3. s[1] = a /\ s[2] = b
    BY <2>2
  <2>4. s = <<a, b>>
    BY <2>2, <2>3
  <2> QED
    BY <2>1, <2>4
<1>3. <<a>> \o <<b, c>> = <<a, b, c>>
  <2>1. PICK s : s = <<a>> \o <<b, c>>
    OBVIOUS
  <2>2. /\ s \in Seq(S) /\ Len(s) = 3
        /\ \A i \in 1..3 : s[i] = IF i <= 1 THEN <<a>>[i] ELSE <<b, c>>[i - 1]
    BY <1>1, <2>1, ConcatProperties
  <2>3. s[1] = a /\ s[2] = b /\ s[3] = c
    BY <2>2
  <2>4. s = <<a, b, c>>
    BY <2>2, <2>3
  <2> QED
    BY <2>1, <2>4
<1>4. <<a>> \o <<>> = <<a>>
  BY <1>1, ConcatEmptySeq
<1> QED
  BY <1>2, <1>3, <1>4

LEMMA ThreeTails ==
  ASSUME NEW a, NEW b, NEW c, NEW x, x = <<a, b, c>>
  PROVE  /\ Tail(x) = <<b, c>> /\ Tail(Tail(x)) = <<c>> /\ Head(x) = a /\ Head(Tail(x)) = b
         /\ x # <<>> /\ Tail(x) # <<>>
BY TwoItems, ThreeItems

LEMMA ReturnIs ==
  /\ ReturnTodo = <<Tok("return"), Pred(<<Ref("expr", <<"may">>)>>), Item("do", "", <<"tree">>)>>
  /\ Tail(ReturnTodo) = <<Pred(<<Ref("expr", <<"may">>)>>), Item("do", "", <<"tree">>)>>
  /\ Tail(Tail(ReturnTodo)) = <<Item("do", "", <<"tree">>)>>
  /\ ReturnTodo # <<>> /\ Tail(ReturnTodo) # <<>>
  /\ Head(ReturnTodo) = Tok("return")
  /\ Head(Tail(ReturnTodo)) = Pred(<<Ref("expr", <<"may">>)>>)
  /\ Head(ReturnTodo).op = "tok" /\ Head(ReturnTodo).arg = "return"
  /\ ReturnTodo
       \in Seq({Tok("return"), Pred(<<Ref("expr", <<"may">>)>>), Item("do", "", <<"tree">>)})
<1> DEFINE first  == Tok("return")
           second == Pred(<<Ref("expr", <<"may">>)>>)
           third  == Item("do", "", <<"tree">>)
<1>1. ReturnTodo = <<first, second, third>>
  BY DEF ReturnTodo, StatementAlts
<1>2. first.op = "tok" /\ first.arg = "return"
  BY DEF Tok, Item
<1> HIDE DEF first, second, third
<1>3. /\ Tail(ReturnTodo) = <<second, third>> /\ Tail(Tail(ReturnTodo)) = <<third>>
      /\ Head(ReturnTodo) = first /\ Head(Tail(ReturnTodo)) = second
      /\ ReturnTodo # <<>> /\ Tail(ReturnTodo) # <<>>
  BY <1>1, ThreeTails
<1>4. first \in {first, second, third} /\ second \in {first, second, third}
      /\ third \in {first, second, third}
  OBVIOUS
<1>5. <<first, second, third>> \in Seq({first, second, third})
  BY <1>4, Tuples
<1> QED
  BY <1>1, <1>2, <1>3, <1>5 DEF first, second, third

LEMMA PredOp == ASSUME NEW s PROVE Pred(s).op = "pred" /\ Pred(s).arg = s
BY DEF Pred, Item

LEMMA LegalCalm ==
  ASSUME NEW todo \in Seq(Legal)
  PROVE  TodoTrue(todo) /\ Calm(todo)
<1>1. TodoTrue(todo)
  BY DEF TodoTrue
<1>2. ASSUME todo # <<>> PROVE Head(todo).op # "pred"
  <2>1. Head(todo) \in Legal
    BY <1>2, HeadTailProperties
  <2> QED
    BY <2>1, LegalOps
<1>3. todo # ReturnTodo
  <2> SUFFICES ASSUME todo = ReturnTodo PROVE FALSE
    OBVIOUS
  <2>1. \A a, b, c : Len(<<a, b, c>>) = 3 /\ <<a, b, c>>[2] = b
    OBVIOUS
  <2>2. Len(todo) = 3 /\ todo[2] = Pred(<<Ref("expr", <<"may">>)>>)
    BY <2>1, ReturnIs
  <2>3. todo[2] \in Legal
    BY <2>2, ElementOfSeq
  <2>4. Pred(<<Ref("expr", <<"may">>)>>).op = "pred"
    BY DEF Pred, Item
  <2> QED
    BY <2>2, <2>3, <2>4, LegalOps
<1> QED
  BY <1>1, <1>2, <1>3 DEF Calm

(* What is left after an item that is not the predicate, by what it is.     *)
LeadsOn(i, todo) ==
  LET it    == Head(todo)
      after == Tail(todo)
  IN /\ it.op \in {"tok", "set", "ref", "do", "opt", "star", "alts", "pred", "statement"}
     /\ Good(i, after) /\ (it.op # "tok" => Calm(after))
     /\ it.op = "tok" =>
          /\ it.arg \in TokenTypes \union {TOKEN_EOF} /\ it.acts \in Seq(Plain)
          /\ it.arg = TOKEN_EOF => i = 1 /\ after = <<>>
          /\ IF todo = ReturnTodo THEN it.arg = "return" ELSE Calm(after)
     /\ it.op = "set" => /\ it.arg \subseteq TokenTypes /\ it.acts \in Seq(Acting)
                         /\ it.acts \in Seq(Plain) \/ it.arg \subseteq AssignOps
     /\ it.op = "ref" => it.arg \in Callable /\ it.acts \in Seq(Acting)
     /\ it.op = "do" => it.acts \in Seq(Plain)
     /\ it.op = "opt" => Goes(i, it.arg \o after)
     /\ it.op = "star" => Goes(i, it.arg \o todo)
     /\ it.op = "pred" => Goes(i, it.arg \o after)
     /\ it.op = "alts" => /\ DOMAIN it.arg \subseteq Nat
                          /\ \A a \in DOMAIN it.arg : Goes(i, it.arg[a] \o after)
     /\ it.op = "statement" =>
          /\ it.arg = StatementAlts
          /\ \A a \in 1..14 : /\ Good(i, it.arg[a] \o after)
                              /\ it.arg[a] \o after = StatementAlts[a]
                              /\ a # 13 => Calm(it.arg[a] \o after)

LEMMA LegalLeadsOn ==
  ASSUME NEW i \in Nat, i > 1, NEW todo \in Seq(Legal), todo # <<>>
  PROVE  LeadsOn(i, todo)
<1> DEFINE it    == Head(todo)
           after == Tail(todo)
<1>1. it \in Legal /\ after \in Seq(Legal)
  BY HeadTailProperties
<1> HIDE DEF it, after
<1>2. \A s \in Seq(Legal) : Goes(i, s)
  BY LegalCalm DEF Goes, Good
<1>3. \A s, t \in Seq(Legal) : s \o t \in Seq(Legal)
  BY ConcatProperties
<1>4. TOKEN_EOF \notin TokenTypes
  BY DEF TOKEN_EOF, TokenTypes, Keywords, Punctuation
<1>5. todo # ReturnTodo
  BY LegalCalm DEF Calm
<1> QED
  BY <1>1, <1>2, <1>3, <1>4, <1>5, LegalOps DEF LeadsOn, Goes, it, after

LEMMA ProgramLeadsOn ==
  ASSUME NEW todo, ProgramTodo(todo), todo # <<>>
  PROVE  LeadsOn(1, todo)
<1> DEFINE each == Star(<<Ref("statement", <<"add">>)>>)
           call == Ref("statement", <<"add">>)
           end  == TokDo("EOF", <<"popTable", "emit">>)
<1>1. /\ each.op = "star" /\ each.arg = <<call>>
      /\ call.op = "ref" /\ call.arg = "statement" /\ call.acts = <<"add">>
      /\ end.op = "tok" /\ end.arg = TOKEN_EOF /\ end.acts = <<"popTable", "emit">>
  BY DEF Star, Ref, TokDo, Item, TOKEN_EOF
<1>2. /\ EndTodo = <<end>> /\ StatementsTodo = <<each, end>>
      /\ StatementAheadTodo = <<call, each, end>>
  <2>1. \A a, b : <<a, b>>[1] = a /\ <<a, b>>[2] = b
    OBVIOUS
  <2> QED
    BY <2>1 DEF EndTodo, StatementsTodo, StatementAheadTodo
<1>3. <<"add">> \in Seq(Acting) /\ <<"popTable", "emit">> \in Seq(Plain) /\ "statement" \in Callable
  BY ActionsAre, CallableAre DEF Plain
<1> HIDE DEF each, call, end
<1>4. Good(1, <<>>) /\ Good(1, EndTodo) /\ Good(1, StatementsTodo) /\ Good(1, StatementAheadTodo)
  BY DEF Good, ProgramTodo
<1>5. Head(ReturnTodo).op = "tok" /\ Head(ReturnTodo).arg # TOKEN_EOF
  BY ReturnIs DEF TOKEN_EOF
<1>6. Calm(<<>>) /\ Calm(EndTodo) /\ Calm(StatementsTodo) /\ Calm(StatementAheadTodo)
  BY <1>1, <1>2, <1>5, OneItem, TwoItems, ThreeItems DEF Calm
<1>7. CASE todo = EndTodo
  <2>1. Head(todo) = end /\ Tail(todo) = <<>> /\ todo # ReturnTodo
    BY <1>1, <1>2, <1>5, <1>7, OneItem
  <2> QED
    BY <2>1, <1>1, <1>3, <1>4, <1>6 DEF LeadsOn
<1>8. CASE todo = StatementsTodo
  <2>1. Head(todo) = each /\ Tail(todo) = EndTodo
    BY <1>2, <1>8, TwoItems
  <2>2. each.arg \o todo = StatementAheadTodo
    BY <1>1, <1>2, <1>8, ItemBefore
  <2> QED
    BY <2>1, <2>2, <1>1, <1>4, <1>6 DEF LeadsOn, Goes
<1>9. CASE todo = StatementAheadTodo
  <2>1. Head(todo) = call /\ Tail(todo) = StatementsTodo
    BY <1>2, <1>9, ThreeItems
  <2> QED
    BY <2>1, <1>1, <1>3, <1>4, <1>6 DEF LeadsOn
<1> QED
  BY <1>7, <1>8, <1>9 DEF ProgramTodo

LEMMA SpecialLeadsOn ==
  ASSUME NEW i \in Nat, i > 1, NEW todo \in {StatementTodo, ReturnTodo, Tail(ReturnTodo)}
  PROVE  LeadsOn(i, todo)
<1> DEFINE tree == Item("do", "", <<"tree">>)
           expr == Ref("expr", <<"may">>)
<1>1. tree \in Legal /\ expr \in Legal
  BY DoItem, RefItems, FlatsLegal
<1> HIDE DEF tree, expr
<1>2. \A s \in Seq(Legal) : Goes(i, s)
  BY LegalCalm DEF Goes, Good
<1>3. <<tree>> \in Seq(Legal) /\ <<expr, tree>> \in Seq(Legal) /\ <<>> \in Seq(Legal)
  BY <1>1, Tuples
<1>4. CASE todo = ReturnTodo
  <2>1. Head(todo) = Tok("return") /\ Tail(todo) = Tail(ReturnTodo)
    BY <1>4, ReturnIs
  <2>2. Good(i, Tail(ReturnTodo))
    BY DEF Good, TodoTrue
  <2>3. /\ Tok("return").op = "tok" /\ Tok("return").arg = "return" /\ Tok("return").acts = <<>>
        /\ "return" # TOKEN_EOF
    BY DEF Tok, Item, TOKEN_EOF
  <2>4. "return" \in TokenTypes /\ <<>> \in Seq(Plain)
    BY TypesAre, Tuples
  <2> QED
    BY <2>1, <2>2, <2>3, <2>4, <1>4 DEF LeadsOn
<1>5. CASE todo = Tail(ReturnTodo)
  <2>1. Head(todo) = Pred(<<expr>>) /\ Tail(todo) = <<tree>>
    BY <1>5, ReturnIs DEF tree, expr
  <2>2. Pred(<<expr>>).op = "pred" /\ Pred(<<expr>>).arg = <<expr>>
    BY DEF Pred, Item
  <2>3. <<expr>> \o <<tree>> = <<expr, tree>>
    BY ItemBefore
  <2> QED
    BY <2>1, <2>2, <2>3, <1>2, <1>3 DEF LeadsOn, Goes
<1>6. CASE todo = StatementTodo
  <2> DEFINE it == Item("statement", StatementAlts, <<>>)
  <2>1. it.op = "statement" /\ it.arg = StatementAlts
    BY DEF Item
  <2> HIDE DEF it
  <2>2. Head(todo) = it /\ Tail(todo) = <<>>
    BY <1>6, OneItem DEF StatementTodo, it
  <2>3. ASSUME NEW a \in 1..14
        PROVE  /\ Good(i, StatementAlts[a]) /\ StatementAlts[a] \o <<>> = StatementAlts[a]
               /\ a # 13 => Calm(StatementAlts[a])
    <3>1. CASE a = 13
      <4>1. StatementAlts[a] = ReturnTodo
        BY <3>1 DEF ReturnTodo
      <4>2. Good(i, ReturnTodo)
        BY DEF Good, TodoTrue
      <4>3. ReturnTodo \o <<>> = ReturnTodo
        BY ReturnIs, ConcatEmptySeq
      <4> QED
        BY <3>1, <4>1, <4>2, <4>3
    <3>2. CASE a # 13
      <4>1. StatementAlts[a] \in Seq(Legal)
        BY <3>2, AltsLegal
      <4> QED
        BY <4>1, <1>2, ConcatEmptySeq DEF Goes
    <3> QED
      BY <3>1, <3>2
  <2>4. Goes(i, <<>>)
    BY <1>2, <1>3
  <2> QED
    BY <2>1, <2>2, <2>3, <2>4 DEF LeadsOn, Goes
<1> QED
  BY <1>4, <1>5, <1>6

LEMMA AllLeadsOn ==
  ASSUME NEW i \in Nat, i > 0, NEW todo, Good(i, todo), todo # <<>>
  PROVE  LeadsOn(i, todo)
<1>1. CASE i = 1
  BY <1>1, ProgramLeadsOn DEF Good
<1>2. CASE i > 1
  <2>1. todo \in Seq(Legal) \/ todo \in {StatementTodo, ReturnTodo, Tail(ReturnTodo)}
    BY <1>2 DEF Good, TodoTrue
  <2> QED
    BY <2>1, <1>2, LegalLeadsOn, SpecialLeadsOn
<1> QED
  BY <1>1, <1>2

(* What a rule that is called has to do.                                    *)
LEMMA CalledTrue ==
  ASSUME NEW i \in Nat, i > 1, NEW r \in Callable
  PROVE  Goes(i, Rules[r])
<1>1. CASE r # "statement"
  <2>1. Rules[r] \in Seq(Legal)
    BY <1>1, RulesLegal
  <2> QED
    BY <2>1, LegalCalm DEF Goes, Good
<1>2. CASE r = "statement"
  <2>1. Rules[r] = StatementTodo
    BY <1>2, ProgramRules
  <2>2. Head(StatementTodo).op = "statement" /\ StatementTodo # <<>>
    BY OneItem DEF StatementTodo, Item
  <2>3. Head(ReturnTodo).op = "tok"
    BY ReturnIs
  <2> QED
    BY <2>1, <2>2, <2>3 DEF Goes, Good, TodoTrue, Calm
<1> QED
  BY <1>1, <1>2

-----------------------------------------------------------------------------
(* The lexer, as the specification runs it.                                 *)

LexTrue ==
  /\ InputTrue(input)
  /\ tokens \in Seq(Tokens)
  /\ \A i \in 1..Len(tokens) : Placed(input.text, tokens[i], tokens[i].start)
  /\ \A e \in lexErrors : Placed(input.text, e, e.index)
  /\ phase # "lex" => AtEnd(input)

LEMMA EmitTrue ==
  ASSUME NEW in, InputTrue(in), NEW to, Reached(in, to), to.nextChar > in.nextChar,
         NEW type \in TokenTypes
  PROVE  /\ emit(type, in, to) \in Tokens
         /\ Placed(in.text, emit(type, in, to), emit(type, in, to).start)
BY DEF InputTrue, Reached, emit, Tokens, TokenTypes, Placed

LEMMA NextTokenTrue ==
  ASSUME LexTrue, NextToken
  PROVE  LexTrue'
<1> DEFINE r == mTokens(input)
<1>1. InputTrue(input) /\ ~AtEnd(input) /\ RoundTrue(input, r)
  BY mTokensTrue DEF LexTrue, NextToken
<1>2. /\ input' = AfterRound(r) /\ phase' = "lex"
      /\ tokens' = IF r.error \/ r.skip THEN tokens ELSE Append(tokens, emit(r.type, input, r.in))
      /\ lexErrors' = IF r.error THEN lexErrors \union {LexerError(input.nextChar, r.at)}
                      ELSE lexErrors
  BY DEF NextToken
<1> HIDE DEF r
<1>3. Reached(input, input')
  <2>1. CASE r.error
    <3>1. Reached(input, r.in) /\ InputTrue(r.in)
      BY <1>1 DEF RoundTrue, Reached
    <3>2. Reached(r.in, recover(r.in))
      BY <3>1, RecoverTrue
    <3> QED
      BY <1>2, <2>1, <3>1, <3>2, <1>1, ReachedTrans DEF AfterRound
  <2>2. CASE ~r.error
    BY <2>2, <1>1, <1>2 DEF AfterRound, RoundTrue
  <2> QED
    BY <2>1, <2>2
<1>4. InputTrue(input') /\ input'.text = input.text
  BY <1>3 DEF Reached
<1>5. /\ tokens' \in Seq(Tokens)
      /\ \A i \in 1..Len(tokens') : Placed(input.text, tokens'[i], tokens'[i].start)
  <2>1. CASE r.error \/ r.skip
    BY <2>1, <1>2 DEF LexTrue
  <2>2. CASE ~(r.error \/ r.skip)
    <3>1. PICK t : t = emit(r.type, input, r.in)
      OBVIOUS
    <3>2. t \in Tokens /\ Placed(input.text, t, t.start)
      BY <3>1, <2>2, <1>1, EmitTrue DEF RoundTrue
    <3>3. tokens' = Append(tokens, t) /\ tokens \in Seq(Tokens)
      BY <3>1, <2>2, <1>2 DEF LexTrue
    <3>4. /\ tokens' \in Seq(Tokens) /\ Len(tokens') = Len(tokens) + 1
          /\ \A i \in 1..Len(tokens) : tokens'[i] = tokens[i]
          /\ tokens'[Len(tokens) + 1] = t
      BY <3>2, <3>3, AppendProperties
    <3> QED
      BY <3>2, <3>4 DEF LexTrue
  <2> QED
    BY <2>1, <2>2
<1>6. \A e \in lexErrors' : Placed(input.text, e, e.index)
  <2>1. CASE r.error
    <3>1. PICK e : e = LexerError(input.nextChar, r.at)
      OBVIOUS
    <3>2. Placed(input.text, e, e.index)
      BY <3>1, <1>1 DEF LexerError, RoundTrue, Reached, InputTrue, Placed
    <3> QED
      BY <3>1, <3>2, <2>1, <1>2 DEF LexTrue
  <2>2. CASE ~r.error
    BY <2>2, <1>2 DEF LexTrue
  <2> QED
    BY <2>1, <2>2
<1> QED
  BY <1>2, <1>4, <1>5, <1>6 DEF LexTrue

-----------------------------------------------------------------------------
(* The frames of the rules that run, and what the actions do to them.       *)

Values == [kind : Kinds, hole : BOOLEAN]
Kept   == TokenTypes \union Kinds \union {TOKEN_EOF, ""}     \* an operator, or none
Given  == [kind : Kept, hole : BOOLEAN]                       \* values, and tokens as values

Frames(rule, todo, follow) ==
  [rule : {rule}, todo : {todo}, operator : Kept, pending : BOOLEAN, follow : {follow},
   val : Values]

FrameTrue(f) == f \in Frames(f.rule, f.todo, f.follow)

(* The phases a step of a rule can end in. *)
Onward == {"parse", "assertion", "terminated", "undefined"}

Environments(rule, todo, follow) ==
  [frame : Frames(rule, todo, follow), scopes : Seq(Nat), phase : Onward]

LEMMA ReplacedNat ==
  ASSUME NEW s \in Seq(Nat), s # <<>>, NEW n \in Nat
  PROVE  Replaced(s, n) \in Seq(Nat)
<1>1. Len(s) \in 1..Len(s)
  OBVIOUS
<1> QED
  BY <1>1, ExceptSeq DEF Replaced

LEMMA FrontNat ==
  ASSUME NEW s \in Seq(Nat)
  PROVE  Front(s) \in Seq(Nat)
BY DEF Front

LEMMA DepthNat ==
  ASSUME NEW s \in Seq(Nat), s # <<>>
  PROVE  Last(s) \in Nat
BY DEF Last

(* A block the deeper, or the less, when there is a table at all.           *)
LEMMA BlockTrue ==
  ASSUME NEW s \in Seq(Nat)
  PROVE  /\ Replaced(s, Last(s) + 1) \in Seq(Nat)
         /\ Last(s) # 0 => Replaced(s, Last(s) - 1) \in Seq(Nat)
<1>1. CASE s = <<>>
  <2>1. \A x : Replaced(s, x) = s
    BY <1>1 DEF Replaced
  <2> QED
    BY <2>1
<1>2. CASE s # <<>>
  <2>1. PICK d \in Nat : d = Last(s)
    BY <1>2, DepthNat
  <2>2. d + 1 \in Nat /\ (d # 0 => d - 1 \in Nat)
    OBVIOUS
  <2> QED
    BY <2>1, <2>2, <1>2, ReplacedNat
<1> QED
  BY <1>1, <1>2

LEMMA FrameUpdates ==
  ASSUME NEW rule, NEW todo, NEW follow, NEW f \in Frames(rule, todo, follow)
  PROVE  /\ \A v \in Values : [f EXCEPT !.val = v] \in Frames(rule, todo, follow)
         /\ \A b \in BOOLEAN : [f EXCEPT !.pending = b] \in Frames(rule, todo, follow)
         /\ \A b \in BOOLEAN : [f EXCEPT !.val.hole = b] \in Frames(rule, todo, follow)
         /\ \A o \in Kept : [f EXCEPT !.operator = o] \in Frames(rule, todo, follow)
         /\ f.val \in Values /\ f.val.hole \in BOOLEAN /\ f.pending \in BOOLEAN
BY DEF Frames, Values

LEMMA TreeMade ==
  ASSUME NEW rule, NEW todo, NEW follow, NEW f \in Frames(rule, todo, follow), NEW kind \in Kinds
  PROVE  [f EXCEPT !.val = [kind |-> kind, hole |-> @.hole \/ f.pending], !.pending = FALSE]
           \in Frames(rule, todo, follow)
<1>1. PICK b \in BOOLEAN : b = (f.val.hole \/ f.pending)
  OBVIOUS
<1>2. [kind |-> kind, hole |-> b] \in Values
  BY DEF Values
<1>3. [f EXCEPT !.val = [kind |-> kind, hole |-> b], !.pending = FALSE]
        \in Frames(rule, todo, follow)
  BY <1>2 DEF Frames
<1> QED
  BY <1>1, <1>3

LEMMA EnvironmentUpdates ==
  ASSUME NEW rule, NEW todo, NEW follow, NEW env \in Environments(rule, todo, follow)
  PROVE  /\ \A f \in Frames(rule, todo, follow) :
              [env EXCEPT !.frame = f] \in Environments(rule, todo, follow)
         /\ \A s \in Seq(Nat) : [env EXCEPT !.scopes = s] \in Environments(rule, todo, follow)
         /\ \A phase1 \in Onward :
              [env EXCEPT !.phase = phase1] \in Environments(rule, todo, follow)
         /\ env.frame \in Frames(rule, todo, follow) /\ env.scopes \in Seq(Nat)
         /\ env.phase \in Onward
BY DEF Environments

(* One action keeps the shape of the frame, whose value is a tree or NULL.  *)
LEMMA ActTrue ==
  ASSUME NEW rule, NEW todo, NEW follow, NEW env \in Environments(rule, todo, follow),
         NEW act \in Acting, NEW ret \in Given, act \in Plain \/ ret \in Values
  PROVE  Act(env, act, ret) \in Environments(rule, todo, follow)
<1> DEFINE f == env.frame
           E == Environments(rule, todo, follow)
           F == Frames(rule, todo, follow)
           broken == ret.kind = "NULL" \/ ret.hole
<1>1. f \in F /\ env.scopes \in Seq(Nat) /\ env.phase \in Onward /\ env \in E
  BY EnvironmentUpdates
<1>2. /\ \A g \in F : [env EXCEPT !.frame = g] \in E
      /\ \A s \in Seq(Nat) : [env EXCEPT !.scopes = s] \in E
      /\ \A phase1 \in Onward : [env EXCEPT !.phase = phase1] \in E
  BY EnvironmentUpdates
<1>3. broken \in BOOLEAN /\ ret.hole \in BOOLEAN /\ ret.kind \in Kept
  BY DEF Given
<1>4. /\ f.val \in Values /\ f.val.hole \in BOOLEAN /\ f.pending \in BOOLEAN
      /\ \A v \in Values : [f EXCEPT !.val = v] \in F
      /\ \A b \in BOOLEAN : [f EXCEPT !.pending = b] \in F
      /\ \A b \in BOOLEAN : [f EXCEPT !.val.hole = b] \in F
      /\ \A o \in Kept : [f EXCEPT !.operator = o] \in F
  BY <1>1, FrameUpdates
<1>5. {"assertion", "undefined", "terminated"} \subseteq Onward
  BY DEF Onward
<1>6. /\ Append(env.scopes, 1) \in Seq(Nat) /\ Front(env.scopes) \in Seq(Nat)
      /\ Replaced(env.scopes, Last(env.scopes) + 1) \in Seq(Nat)
      /\ Last(env.scopes) # 0 => Replaced(env.scopes, Last(env.scopes) - 1) \in Seq(Nat)
  BY <1>1, FrontNat, BlockTrue, AppendProperties
<1>7. CASE act = "pass"
  <2>1. Act(env, act, ret) = [env EXCEPT !.frame = [env.frame EXCEPT !.val = ret]]
    BY <1>7, Zenon DEF Act
  <2>2. ret \in Values
    BY <1>7 DEF Plain
  <2>3. [f EXCEPT !.val = ret] \in F
    BY <2>2, <1>4
  <2> QED
    BY <2>1, <2>3, <1>2
<1>8. CASE act = "need"
  <2>1. Act(env, act, ret)
          = [env EXCEPT !.frame = [env.frame EXCEPT
                                     !.pending = @ \/ (ret.kind = "NULL" \/ ret.hole)]]
    BY <1>8, Zenon DEF Act
  <2>2. PICK b \in BOOLEAN : b = (env.frame.pending \/ (ret.kind = "NULL" \/ ret.hole))
    OBVIOUS
  <2>3. [f EXCEPT !.pending = b] \in F
    BY <1>4
  <2> QED
    BY <2>1, <2>2, <2>3, <1>2
<1>9. CASE act = "may"
  <2>1. Act(env, act, ret) = [env EXCEPT !.frame = [env.frame EXCEPT !.pending = @ \/ ret.hole]]
    BY <1>9, Zenon DEF Act
  <2>2. PICK b \in BOOLEAN : b = (env.frame.pending \/ ret.hole)
    OBVIOUS
  <2>3. [f EXCEPT !.pending = b] \in F
    BY <1>4
  <2> QED
    BY <2>1, <2>2, <2>3, <1>2
<1>10. CASE act = "add"
  <2>1. Act(env, act, ret) = [env EXCEPT !.frame = [env.frame EXCEPT !.val.hole = @ \/ ret.hole]]
    BY <1>10, Zenon DEF Act
  <2>2. PICK b \in BOOLEAN : b = (env.frame.val.hole \/ ret.hole)
    OBVIOUS
  <2>3. [f EXCEPT !.val.hole = b] \in F
    BY <1>4
  <2> QED
    BY <2>1, <2>2, <2>3, <1>2
<1>11. CASE act = "append"
  <2>1. Act(env, act, ret)
          = [env EXCEPT !.frame = [env.frame EXCEPT
                                     !.val.hole = @ \/ (ret.kind = "NULL" \/ ret.hole)]]
    BY <1>11, Zenon DEF Act
  <2>2. PICK b \in BOOLEAN : b = (env.frame.val.hole \/ (ret.kind = "NULL" \/ ret.hole))
    OBVIOUS
  <2>3. [f EXCEPT !.val.hole = b] \in F
    BY <1>4
  <2> QED
    BY <2>1, <2>2, <2>3, <1>2
<1>12. CASE act = "operator"
  <2>1. Act(env, act, ret) = [env EXCEPT !.frame = [env.frame EXCEPT !.operator = ret.kind]]
    BY <1>12, Zenon DEF Act
  <2>2. [env.frame EXCEPT !.operator = ret.kind] \in F
    BY <1>3, <1>4
  <2> QED
    BY <2>1, <2>2, <1>2
<1>13. CASE act = "unary"
  <2>1. Act(env, act, ret) =
          IF f.operator = "" THEN [env EXCEPT !.frame = [env.frame EXCEPT !.val = ret]]
          ELSE [env EXCEPT !.frame = [env.frame EXCEPT !.val =
                  [kind |-> "tree", hole |-> ret.kind = "NULL" \/ ret.hole]]]
    BY <1>13, Zenon DEF Act
  <2>2. ret \in Values
    BY <1>13 DEF Plain
  <2>3. PICK b \in BOOLEAN : b = broken
    BY <1>3
  <2>4. [kind |-> "tree", hole |-> b] \in Values
    BY DEF Values, Kinds
  <2>5. [f EXCEPT !.val = ret] \in F /\ [f EXCEPT !.val = [kind |-> "tree", hole |-> b]] \in F
    BY <2>2, <2>4, <1>4
  <2> QED
    BY <2>1, <2>3, <2>5, <1>2
<1>14. CASE act = "line"
  <2>1. Act(env, act, ret) \in {env, [env EXCEPT !.phase = "undefined"],
                               [env EXCEPT !.phase = "assertion"]}
    BY <1>14, Zenon DEF Act
  <2> QED
    BY <2>1, <1>1, <1>2, <1>5
<1>15. CASE act = "ownLine"
  <2>1. Act(env, act, ret) \in {env, [env EXCEPT !.phase = "undefined"],
                               [env EXCEPT !.phase = "assertion"]}
    BY <1>15, Zenon DEF Act
  <2> QED
    BY <2>1, <1>1, <1>2, <1>5
<1>16. CASE act = "compound"
  <2>1. Act(env, act, ret) \in {env, [env EXCEPT !.phase = "undefined"],
                               [env EXCEPT !.phase = "assertion"]}
    BY <1>16, Zenon DEF Act
  <2> QED
    BY <2>1, <1>1, <1>2, <1>5
<1>17. CASE act = "assertCall"
  <2>1. Act(env, act, ret) \in {env, [env EXCEPT !.phase = "undefined"],
                               [env EXCEPT !.phase = "assertion"]}
    BY <1>17, Zenon DEF Act
  <2> QED
    BY <2>1, <1>1, <1>2, <1>5
<1>18. CASE act = "assertTarget"
  <2>1. Act(env, act, ret) \in {env, [env EXCEPT !.phase = "undefined"],
                               [env EXCEPT !.phase = "assertion"]}
    BY <1>18, Zenon DEF Act
  <2> QED
    BY <2>1, <1>1, <1>2, <1>5
<1>19. CASE act = "emit"
  <2>1. Act(env, act, ret) \in {env, [env EXCEPT !.phase = "undefined"],
                               [env EXCEPT !.phase = "assertion"]}
    BY <1>19, Zenon DEF Act
  <2> QED
    BY <2>1, <1>1, <1>2, <1>5
<1>20. CASE act = "pushTable"
  <2>1. Act(env, act, ret) = [env EXCEPT !.scopes = Append(@, 1)]
    BY <1>20, Zenon DEF Act
  <2> QED
    BY <2>1, <1>2, <1>6
<1>21. CASE act = "pushBlock"
  <2>1. Act(env, act, ret) = [env EXCEPT !.scopes = Replaced(@, Last(env.scopes) + 1)]
    BY <1>21, Zenon DEF Act
  <2> QED
    BY <2>1, <1>2, <1>6
<1>22. CASE act = "popBlock"
  <2>1. Act(env, act, ret) =
          IF Last(env.scopes) = 0 THEN [env EXCEPT !.phase = "undefined"]
          ELSE [env EXCEPT !.scopes = Replaced(@, Last(env.scopes) - 1)]
    BY <1>22, Zenon DEF Act
  <2> QED
    BY <2>1, <1>2, <1>5, <1>6
<1>23. CASE act = "popTable"
  <2>1. Last(env.scopes) = 0 => Last(env.scopes) # 1
    OBVIOUS
  <2>2. Act(env, act, ret) \in {[env EXCEPT !.scopes = Front(@)],
                               [env EXCEPT !.phase = "undefined"],
                               [env EXCEPT !.phase = "terminated"]}
    BY <2>1, <1>23, Zenon DEF Act
  <2> QED
    BY <2>2, <1>2, <1>5, <1>6
<1>24. CASE act \in {"tree", "name", "index", "call"}
  <2>1. Act(env, act, ret) =
          [env EXCEPT !.frame = [env.frame EXCEPT
             !.val = [kind |-> act, hole |-> @.hole \/ env.frame.pending], !.pending = FALSE]]
    BY <1>24, Zenon DEF Act
  <2>2. act \in Kinds
    BY <1>24 DEF Kinds
  <2> QED
    BY <2>1, <2>2, <1>1, <1>2, TreeMade
<1> QED
  BY <1>7, <1>8, <1>9, <1>10, <1>11, <1>12, <1>13, <1>14, <1>15, <1>16,
     <1>17, <1>18, <1>19, <1>20, <1>21, <1>22, <1>23, <1>24 DEF Acting, Plain

(* The actions after an item keep it too.                                   *)
LEMMA ActsTrue ==
  ASSUME NEW rule, NEW todo, NEW follow, NEW env \in Environments(rule, todo, follow),
         NEW acts \in Seq(Acting), NEW ret \in Given, acts \in Seq(Plain) \/ ret \in Values
  PROVE  Acts(env, acts, ret) \in Environments(rule, todo, follow)
<1> DEFINE E == Environments(rule, todo, follow)
           m == Len(acts)
           Then(e, act) == IF e.phase = "parse" THEN Act(e, act, ret) ELSE e
           G == [n \in Nat |-> [e \in E |-> IF n < m THEN Then(e, acts[n + 1]) ELSE e]]
           D(f) == [n \in 0..m |-> IF n = 0 THEN env ELSE Then(f[n - 1], acts[n])]
           at == CHOOSE f : f = D(f)
<1>0. m \in Nat /\ env \in E
  OBVIOUS
<1>1. ASSUME NEW e \in E, NEW n \in Nat, n < m PROVE Then(e, acts[n + 1]) \in E
  <2>1. n + 1 \in 1..m
    BY <1>1
  <2>2. acts[n + 1] \in Acting /\ (acts[n + 1] \in Plain \/ ret \in Values)
    BY <2>1, ElementOfSeq
  <2>3. Act(e, acts[n + 1], ret) \in E
    BY <2>2, ActTrue
  <2> QED
    BY <2>3
<1> HIDE DEF m, E, Then
<1>2. PICK f : Scan!Iterates(f, E, env, G)
  <2>1. G \in [Nat -> [E -> E]]
    BY <1>1
  <2> HIDE DEF G
  <2> QED
    BY <1>0, <2>1, Scan!Iteration
<1>3. f \in [Nat -> E] /\ f[0] = env /\ \A n \in Nat : n < m => f[n + 1] = Then(f[n], acts[n + 1])
  <2>1. f \in [Nat -> E] /\ f[0] = env /\ \A n \in Nat : f[n + 1] = G[n][f[n]]
    BY <1>2 DEF Scan!Iterates
  <2>2. ASSUME NEW n \in Nat, n < m PROVE f[n + 1] = Then(f[n], acts[n + 1])
    <3>1. f[n] \in E
      BY <2>1
    <3>2. G[n] = [e \in E |-> Then(e, acts[n + 1])]
      BY <2>2
    <3>3. G[n][f[n]] = Then(f[n], acts[n + 1])
      BY <3>1, <3>2
    <3> HIDE DEF G
    <3> QED
      BY <2>1, <3>3
  <2> QED
    BY <2>1, <2>2
<1> HIDE DEF G
<1> DEFINE h == [n \in 0..m |-> f[n]]
<1>4. h = D(h)
  <2>1. ASSUME NEW n \in 0..m PROVE h[n] = IF n = 0 THEN env ELSE Then(h[n - 1], acts[n])
    <3>1. CASE n = 0
      BY <3>1, <1>0, <1>3
    <3>2. CASE n # 0
      <4>1. n - 1 \in Nat /\ n - 1 < m /\ n - 1 \in 0..m /\ n - 1 + 1 = n
        BY <3>2, <1>0
      <4>2. f[n] = Then(f[n - 1], acts[n])
        BY <4>1, <1>3
      <4> QED
        BY <3>2, <4>1, <4>2
    <3> QED
      BY <3>1, <3>2
  <2>2. h = [n \in 0..m |-> h[n]]
    OBVIOUS
  <2> HIDE DEF h
  <2>3. [n \in 0..m |-> h[n]] = D(h)
    BY <2>1
  <2> QED
    BY <2>2, <2>3
<1> HIDE DEF h
<1>5. at = D(at)
  BY <1>4
<1>6. Acts(env, acts, ret) = at[m]
  BY DEF Acts, m, Then
<1> HIDE DEF at
<1>7. \A n \in 0..m : at[n] = IF n = 0 THEN env ELSE Then(at[n - 1], acts[n])
  BY <1>5
<1> HIDE DEF D
<1>8. \A n \in 0..m : at[n] = f[n]
  <2> DEFINE Off == {n \in 0..m : at[n] # f[n]}
  <2>1. ASSUME Off # {} PROVE FALSE
    <3>1. PICK n \in Off : \A i \in Off : n <= i
      <4>1. Off \in SUBSET Nat
        BY <1>0
      <4> HIDE DEF Off
      <4> QED
        BY <2>1, <4>1, Scan!Least
    <3>2. n # 0
      BY <1>3, <1>7, <3>1
    <3>3. n - 1 \in Nat /\ n - 1 \in 0..m /\ n - 1 \notin Off /\ n - 1 + 1 = n /\ n - 1 < m
      BY <1>0, <3>1, <3>2
    <3>4. at[n - 1] = f[n - 1]
      BY <3>3
    <3>5. at[n] = Then(at[n - 1], acts[n])
      BY <1>7, <3>1, <3>2
    <3>6. f[n] = Then(f[n - 1], acts[n])
      BY <1>3, <3>3
    <3> QED
      BY <3>1, <3>4, <3>5, <3>6
  <2> QED
    BY <2>1
<1>9. at[m] \in E
  BY <1>0, <1>3, <1>8
<1> QED
  BY <1>6, <1>9 DEF E

-----------------------------------------------------------------------------
(* The stack of the rules that run.                                         *)

IsSeq(s) == \E S : s \in Seq(S)

LEMMA ReplacedSeq ==
  ASSUME NEW s, IsSeq(s), s # <<>>, NEW x
  PROVE  /\ IsSeq(Replaced(s, x)) /\ Len(Replaced(s, x)) = Len(s) /\ Len(s) \in Nat /\ Len(s) > 0
         /\ Replaced(s, x)[Len(s)] = x /\ \A i \in 1..(Len(s) - 1) : Replaced(s, x)[i] = s[i]
<1>1. PICK S : s \in Seq(S)
  BY DEF IsSeq
<1> DEFINE T == S \union {x}
<1>2. s \in Seq(T) /\ x \in T
  BY <1>1, SeqMonotonic
<1> HIDE DEF T
<1>3. Len(s) \in 1..Len(s)
  BY <1>1, EmptySeq
<1> QED
  BY <1>2, <1>3, ExceptSeq DEF Replaced, IsSeq

LEMMA AppendSeq ==
  ASSUME NEW s, IsSeq(s), NEW x
  PROVE  /\ IsSeq(Append(s, x)) /\ Len(Append(s, x)) = Len(s) + 1 /\ Len(s) \in Nat
         /\ Append(s, x)[Len(s) + 1] = x /\ \A i \in 1..Len(s) : Append(s, x)[i] = s[i]
         /\ Append(s, x) # <<>>
<1>1. PICK S : s \in Seq(S)
  BY DEF IsSeq
<1> DEFINE T == S \union {x}
<1>2. s \in Seq(T) /\ x \in T
  BY <1>1, SeqMonotonic
<1> HIDE DEF T
<1> QED
  BY <1>2, AppendProperties DEF IsSeq

LEMMA FrontSeq ==
  ASSUME NEW s, IsSeq(s), Len(s) > 1
  PROVE  /\ IsSeq(Front(s)) /\ Len(Front(s)) = Len(s) - 1 /\ Front(s) # <<>> /\ Len(s) \in Nat
         /\ \A i \in 1..(Len(s) - 1) : Front(s)[i] = s[i]
<1>1. PICK S : s \in Seq(S)
  BY DEF IsSeq
<1>2. Len(s) \in Nat /\ \A i \in 1..(Len(s) - 1) : s[i] \in S
  BY <1>1, ElementOfSeq
<1>3. /\ Front(s) \in Seq(S) /\ Len(Front(s)) = Len(s) - 1
      /\ \A i \in 1..(Len(s) - 1) : Front(s)[i] = s[i]
  BY <1>1, <1>2, SubSeqProperties DEF Front
<1> QED
  BY <1>1, <1>2, <1>3 DEF IsSeq

(* A rule that waits waits for the rule above it.                           *)
Waits(todo, rule) == todo # <<>> /\ Head(todo).op = "ref" /\ Head(todo).arg = rule

StackIs(s) ==
  /\ IsSeq(s)
  /\ \A i \in 1..Len(s) : FrameTrue(s[i]) /\ Good(i, s[i].todo)
  /\ \A i \in 1..(Len(s) - 1) : Waits(s[i].todo, s[i + 1].rule)

LEMMA TodoSet ==
  ASSUME NEW f, FrameTrue(f), NEW todo
  PROVE  /\ FrameTrue([f EXCEPT !.todo = todo]) /\ [f EXCEPT !.todo = todo].todo = todo
         /\ [f EXCEPT !.todo = todo].rule = f.rule /\ [f EXCEPT !.todo = todo].follow = f.follow
BY DEF FrameTrue, Frames

LEMMA NewFrame ==
  ASSUME NEW rule, NEW follow
  PROVE  /\ FrameTrue(Frame(rule, follow)) /\ Frame(rule, follow).todo = Rules[rule]
         /\ Frame(rule, follow).rule = rule
<1>1. Null \in Values /\ [Null EXCEPT !.kind = "list"] \in Values
  BY DEF Null, Values, Kinds
<1>2. "" \in Kept
  BY DEF Kept
<1> QED
  BY <1>1, <1>2 DEF Frame, FrameTrue, Frames

LEMMA StackGoes ==
  ASSUME NEW s, StackIs(s), s # <<>>, NEW f, FrameTrue(f), f.rule = Last(s).rule,
         Good(Len(s), f.todo)
  PROVE  /\ StackIs(Replaced(s, f)) /\ Last(Replaced(s, f)) = f
         /\ Len(Replaced(s, f)) = Len(s) /\ Replaced(s, f) # <<>>
<1>1. PICK t : t = Replaced(s, f)
  OBVIOUS
<1>2. /\ IsSeq(t) /\ Len(t) = Len(s) /\ Len(s) \in Nat /\ Len(s) > 0
      /\ t[Len(s)] = f /\ \A i \in 1..(Len(s) - 1) : t[i] = s[i]
  BY <1>1, ReplacedSeq DEF StackIs
<1>3. ASSUME NEW i \in 1..Len(t) PROVE FrameTrue(t[i]) /\ Good(i, t[i].todo)
  <2>1. i = Len(s) \/ i \in 1..(Len(s) - 1)
    BY <1>2
  <2> QED
    BY <1>2, <2>1 DEF StackIs
<1>4. ASSUME NEW i \in 1..(Len(t) - 1) PROVE Waits(t[i].todo, t[i + 1].rule)
  <2>1. i \in 1..(Len(s) - 1) /\ (i + 1 = Len(s) \/ i + 1 \in 1..(Len(s) - 1))
    BY <1>2
  <2>2. t[i] = s[i] /\ t[i + 1].rule = s[i + 1].rule
    BY <1>2, <2>1 DEF Last
  <2> QED
    BY <2>1, <2>2 DEF StackIs
<1>5. t # <<>>
  BY <1>2
<1> QED
  BY <1>1, <1>2, <1>3, <1>4, <1>5 DEF StackIs, Last

LEMMA StackCalls ==
  ASSUME NEW s, StackIs(s), s # <<>>, NEW f, FrameTrue(f), Waits(Last(s).todo, f.rule),
         Good(Len(s) + 1, f.todo)
  PROVE  /\ StackIs(Append(s, f)) /\ Last(Append(s, f)) = f
         /\ Len(Append(s, f)) = Len(s) + 1 /\ Append(s, f) # <<>>
<1>1. PICK t : t = Append(s, f)
  OBVIOUS
<1>2. /\ IsSeq(t) /\ Len(t) = Len(s) + 1 /\ Len(s) \in Nat /\ t # <<>>
      /\ t[Len(s) + 1] = f /\ \A i \in 1..Len(s) : t[i] = s[i]
  BY <1>1, AppendSeq DEF StackIs
<1>3. ASSUME NEW i \in 1..Len(t) PROVE FrameTrue(t[i]) /\ Good(i, t[i].todo)
  <2>1. i = Len(s) + 1 \/ i \in 1..Len(s)
    BY <1>2
  <2> QED
    BY <1>2, <2>1 DEF StackIs
<1>4. ASSUME NEW i \in 1..(Len(t) - 1) PROVE Waits(t[i].todo, t[i + 1].rule)
  <2>1. i \in 1..Len(s) /\ t[i] = s[i]
    BY <1>2
  <2>2. CASE i = Len(s)
    BY <1>2, <2>1, <2>2 DEF Last
  <2>3. CASE i # Len(s)
    <3>1. i \in 1..(Len(s) - 1) /\ i + 1 \in 1..Len(s)
      BY <1>2, <2>1, <2>3
    <3> QED
      BY <1>2, <2>1, <3>1 DEF StackIs
  <2> QED
    BY <2>2, <2>3
<1> QED
  BY <1>1, <1>2, <1>3, <1>4 DEF StackIs, Last

LEMMA StackReturns ==
  ASSUME NEW s, StackIs(s), Len(s) > 1
  PROVE  /\ StackIs(Front(s)) /\ Front(s) # <<>> /\ Len(Front(s)) = Len(s) - 1
         /\ Last(Front(s)) = s[Len(s) - 1] /\ Waits(s[Len(s) - 1].todo, Last(s).rule)
         /\ FrameTrue(s[Len(s) - 1]) /\ Good(Len(s) - 1, s[Len(s) - 1].todo)
<1>1. PICK t : t = Front(s)
  OBVIOUS
<1>2. /\ IsSeq(t) /\ Len(t) = Len(s) - 1 /\ t # <<>> /\ Len(s) \in Nat
      /\ \A i \in 1..(Len(s) - 1) : t[i] = s[i]
  BY <1>1, FrontSeq DEF StackIs
<1>3. ASSUME NEW i \in 1..Len(t) PROVE FrameTrue(t[i]) /\ Good(i, t[i].todo)
  BY <1>2 DEF StackIs
<1>4. ASSUME NEW i \in 1..(Len(t) - 1) PROVE Waits(t[i].todo, t[i + 1].rule)
  <2>1. i \in 1..(Len(s) - 1) /\ i + 1 \in 1..(Len(s) - 1)
    BY <1>2
  <2> QED
    BY <1>2, <2>1 DEF StackIs
<1>5. Len(s) - 1 \in 1..(Len(s) - 1) /\ Len(s) - 1 \in 1..Len(s) /\ Len(s) - 1 + 1 = Len(s)
  BY <1>2
<1>6. t[Len(t)] = s[Len(s) - 1]
  BY <1>2, <1>5
<1> QED
  BY <1>1, <1>2, <1>3, <1>4, <1>5, <1>6 DEF StackIs, Last

LEMMA RunActsTrue ==
  ASSUME NEW frames, StackIs(frames), frames # <<>>, phase = "parse", scopes \in Seq(Nat),
         NEW acts \in Seq(Acting), NEW ret \in Given, acts \in Seq(Plain) \/ ret \in Values,
         RunActs(frames, acts, ret)
  PROVE  /\ StackIs(stack') /\ stack' # <<>> /\ Len(stack') = Len(frames)
         /\ Last(stack').todo = Last(frames).todo
         /\ scopes' \in Seq(Nat) /\ phase' \in Onward
<1> DEFINE f == Last(frames)
           before == [frame |-> Last(frames), scopes |-> scopes, phase |-> phase]
<1>1. PICK env : /\ env = Acts(before, acts, ret)
                 /\ stack' = Replaced(frames, env.frame)
                 /\ scopes' = env.scopes /\ phase' = env.phase
  BY DEF RunActs
<1>2. Len(frames) \in 1..Len(frames)
  <2>1. Len(frames) \in Nat /\ Len(frames) > 0
    BY ReplacedSeq DEF StackIs
  <2> QED
    BY <2>1
<1>3. FrameTrue(f) /\ Good(Len(frames), f.todo)
  BY <1>2 DEF StackIs, Last
<1>4. before \in Environments(f.rule, f.todo, f.follow)
  BY <1>3 DEF FrameTrue, Environments, Onward
<1> HIDE DEF f, before
<1>5. env \in Environments(f.rule, f.todo, f.follow)
  BY <1>1, <1>4, ActsTrue
<1>6. /\ env.frame \in Frames(f.rule, f.todo, f.follow) /\ env.scopes \in Seq(Nat)
      /\ env.phase \in Onward
  BY <1>5, EnvironmentUpdates
<1>7. FrameTrue(env.frame) /\ env.frame.rule = f.rule /\ env.frame.todo = f.todo
  BY <1>6 DEF Frames, FrameTrue
<1>8. /\ StackIs(Replaced(frames, env.frame)) /\ Last(Replaced(frames, env.frame)) = env.frame
      /\ Len(Replaced(frames, env.frame)) = Len(frames) /\ Replaced(frames, env.frame) # <<>>
  BY <1>3, <1>7, StackGoes DEF f
<1> QED
  BY <1>1, <1>6, <1>7, <1>8 DEF f

LEMMA TopTrue ==
  ASSUME NEW s, StackIs(s), s # <<>>
  PROVE  /\ FrameTrue(Last(s)) /\ Good(Len(s), Last(s).todo) /\ Len(s) \in Nat /\ Len(s) > 0
         /\ Last(s).todo # <<>> => LeadsOn(Len(s), Last(s).todo)
<1>1. Len(s) \in Nat /\ Len(s) > 0
  BY ReplacedSeq DEF StackIs
<1>2. FrameTrue(Last(s)) /\ Good(Len(s), Last(s).todo)
  BY <1>1 DEF StackIs, Last
<1> QED
  BY <1>1, <1>2, AllLeadsOn

(* What is left of the rule on top after a step of its own.                 *)
LEMMA GoTrue ==
  ASSUME NEW s, StackIs(s), s # <<>>, NEW todo, Good(Len(s), todo),
         NEW t, t = Replaced(s, [Last(s) EXCEPT !.todo = todo])
  PROVE  StackIs(t) /\ t # <<>> /\ Len(t) = Len(s) /\ Last(t).todo = todo
<1>1. FrameTrue(Last(s))
  BY TopTrue
<1>2. PICK f : f = [Last(s) EXCEPT !.todo = todo]
  OBVIOUS
<1>3. FrameTrue(f) /\ f.todo = todo /\ f.rule = Last(s).rule
  BY <1>1, <1>2, TodoSet
<1> QED
  BY <1>2, <1>3, StackGoes

LEMMA PassItemTrue ==
  ASSUME StackIs(stack), stack # <<>>, phase = "parse", scopes \in Seq(Nat),
         Good(Len(stack), rest), item.acts \in Seq(Acting),
         NEW ret \in Given, item.acts \in Seq(Plain) \/ ret \in Values, PassItem(ret)
  PROVE  /\ StackIs(stack') /\ stack' # <<>> /\ Len(stack') = Len(stack)
         /\ Last(stack').todo = rest
         /\ scopes' \in Seq(Nat) /\ phase' \in Onward
<1>1. PICK s : s = Replaced(stack, [frame EXCEPT !.todo = rest])
  OBVIOUS
<1>2. StackIs(s) /\ s # <<>> /\ Len(s) = Len(stack) /\ Last(s).todo = rest
  BY <1>1, GoTrue DEF frame
<1>3. RunActs(s, item.acts, ret)
  BY <1>1 DEF PassItem
<1> QED
  BY <1>2, <1>3, RunActsTrue

LEMMA ReturnTrue ==
  ASSUME StackIs(stack), stack # <<>>, phase = "parse", scopes \in Seq(Nat), Return
  PROVE  /\ StackIs(stack') /\ scopes' \in Seq(Nat) /\ phase' \in Onward \union {"done"}
         /\ phase' # "done" => stack' # <<>> /\ Calm(Last(stack').todo)
<1>1. CASE Len(stack) = 1
  <2>1. phase' = "done" /\ stack' = <<>> /\ scopes' = scopes
    BY <1>1 DEF Return
  <2>2. StackIs(<<>>)
    <3>1. IsSeq(<<>>) /\ Len(<<>>) = 0
      BY EmptySeq DEF IsSeq
    <3> QED
      BY <3>1 DEF StackIs
  <2> QED
    BY <2>1, <2>2
<1>2. CASE Len(stack) # 1
  <2> DEFINE caller == stack[Len(stack) - 1]
             call   == Head(caller.todo)
  <2>0. Len(stack) > 1 /\ Len(stack) \in Nat /\ Len(stack) - 1 \in Nat /\ Len(stack) - 1 > 0
    <3>1. PICK n : n = Len(stack)
      OBVIOUS
    <3>2. n \in Nat /\ n > 0 /\ n # 1
      BY <3>1, <1>2, TopTrue
    <3>3. n > 1 /\ n - 1 \in Nat /\ n - 1 > 0
      BY <3>2
    <3> QED
      BY <3>1, <3>2, <3>3
  <2>1. /\ StackIs(Front(stack)) /\ Front(stack) # <<>> /\ Len(Front(stack)) = Len(stack) - 1
        /\ Last(Front(stack)) = caller /\ FrameTrue(caller) /\ Good(Len(stack) - 1, caller.todo)
        /\ caller.todo # <<>> /\ call.op = "ref"
    BY <2>0, StackReturns DEF Waits
  <2>2. RunActs(Replaced(Front(stack), [caller EXCEPT !.todo = Tail(@)]), call.acts, frame.val)
    BY <1>2 DEF Return
  <2>3. LeadsOn(Len(stack) - 1, caller.todo)
    BY <2>0, <2>1, AllLeadsOn
  <2>4. /\ Good(Len(stack) - 1, Tail(caller.todo)) /\ Calm(Tail(caller.todo))
        /\ call.acts \in Seq(Acting)
    BY <2>1, <2>3 DEF LeadsOn
  <2>5. PICK s : s = Replaced(Front(stack), [caller EXCEPT !.todo = Tail(@)])
    OBVIOUS
  <2>6. StackIs(s) /\ s # <<>> /\ Last(s).todo = Tail(caller.todo)
    <3>1. PICK left : left = Tail(caller.todo)
      OBVIOUS
    <3>2. s = Replaced(Front(stack), [Last(Front(stack)) EXCEPT !.todo = left])
      BY <3>1, <2>1, <2>5
    <3>3. Good(Len(Front(stack)), left)
      BY <3>1, <2>1, <2>4
    <3> HIDE DEF caller
    <3> QED
      BY <3>1, <3>2, <3>3, <2>1, GoTrue
  <2>7. frame.val \in Values /\ frame.val \in Given
    <3>1. frame.val \in Values
      BY TopTrue DEF frame, FrameTrue, Frames
    <3> QED
      BY <3>1 DEF Values, Given, Kept
  <2>8. RunActs(s, call.acts, frame.val)
    BY <2>2, <2>5
  <2> HIDE DEF caller, call
  <2>9. /\ StackIs(stack') /\ stack' # <<>> /\ Last(stack').todo = Tail(caller.todo)
        /\ scopes' \in Seq(Nat) /\ phase' \in Onward
    BY <2>4, <2>6, <2>7, <2>8, RunActsTrue
  <2> QED
    BY <2>4, <2>9
<1> QED
  BY <1>1, <1>2

-----------------------------------------------------------------------------
(* The inductive invariant: what the lexer has read is placed (LexTrue),    *)
(* and of the parser the shape of its state, what it has reported, what an  *)
(* exception says, and why the next report is of another token.             *)

ShapeTrue ==
  /\ phase \in Phases /\ p \in 0..Len(tokens) /\ lastErrorIndex \in -1..Len(tokens)
  /\ exception \in BOOLEAN /\ errorRecovery \in BOOLEAN
  /\ scopes \in Seq(Nat) /\ StackIs(stack)
  /\ phase = "lex" => stack = <<>> /\ p = 0 /\ ~exception /\ reports = <<>> /\ lastErrorIndex = -1
  /\ phase = "parse" => stack # <<>>

LastLine == Cardinality({k \in DOMAIN input.text : input.text[k] = Newline}) + 1

(* The place a report names. *)
ReportTrue(r) ==
  IF r.index < Len(tokens)
  THEN Placed(input.text, r, tokens[r.index + 1].start) /\ r.source = "file"
  ELSE r.line = LastLine

ReportsTrue ==
  /\ IsSeq(reports)
  /\ \A i \in 1..Len(reports) : reports[i].index \in 0..p /\ ReportTrue(reports[i])
  /\ ReportedOnce

(* No report is of the token the parser is at.                              *)
Fresh == \A i \in 1..Len(reports) : reports[i].index < p

ExceptionTrue ==
  exception =>
    /\ phase = "parse" /\ newest.index = p /\ newest.type # "none"
    /\ ReportTrue(displayRecognitionError(newest))
    /\ ~errorRecovery => Fresh

(* A predicate has matched the token, and what is chosen will match it.     *)
Committed ==
  /\ frame.todo # <<>>
  /\ \/ /\ LTType(tokens, p, 1) = "ID"
        /\ \/ /\ item.op = "ref"
              /\ item.arg \in {"assignment", "leftValue", "rtTypeAtom", "rtTypeAtomHead"}
           \/ item.op = "tok" /\ item.arg = "ID"
     \/ /\ LTType(tokens, p, 1) = "var"
        /\ \/ item.op = "ref" /\ item.arg \in {"funcDefine", "varDefine", "varDeclares"}
           \/ item.op = "tok" /\ item.arg = "var"
           \/ item = Opt(<<Tok("var")>>)

(* The end of the file was matched.                                         *)
EndsNow == Len(stack) = 1 /\ frame.todo = <<>>

RecoveryTrue ==
  phase = "parse" /\ ~exception =>
    /\ ~errorRecovery => Fresh \/ Committed \/ EndsNow
    /\ frame.todo = ReturnTodo => LTType(tokens, p, 1) = "return"
    /\ frame.todo # <<>> /\ item.op = "pred" => ~errorRecovery

FrontTrue == LexTrue /\ ShapeTrue /\ ReportsTrue /\ ExceptionTrue /\ RecoveryTrue

-----------------------------------------------------------------------------
(* What the steps of the parser have in common.                             *)

(* A token that matches is consumed; at the end of the file none is.        *)
LEMMA TokenConsumed ==
  ASSUME NEW ts \in Seq(Tokens), NEW q \in 0..Len(ts)
  PROVE  /\ consumeToken(ts, q) \in 0..Len(ts) /\ consumeToken(ts, q) >= q
         /\ q < Len(ts) => consumeToken(ts, q) > q
BY DEF consumeToken

LEMMA EofIsNoToken == TOKEN_EOF \notin TokenTypes /\ TOKEN_EOF = "EOF"
BY DEF TOKEN_EOF, TokenTypes, Keywords, Punctuation

LEMMA TokenAt ==
  ASSUME NEW ts \in Seq(Tokens), NEW q \in 0..Len(ts)
  PROVE  /\ q < Len(ts) => /\ LTType(ts, q, 1) = ts[q + 1].type /\ ts[q + 1].type \in TokenTypes
                           /\ ts[q + 1] \in Tokens
         /\ q = Len(ts) => LTType(ts, q, 1) = TOKEN_EOF
<1>1. CASE q < Len(ts)
  <2>1. q + 1 \in 1..Len(ts)
    BY <1>1
  <2>2. ts[q + 1] \in Tokens
    BY <2>1, ElementOfSeq
  <2>3. ts[q + 1].type \in TokenTypes
    BY <2>2 DEF Tokens, TokenTypes
  <2>4. q + 1 - 1 < Len(ts)
    BY <1>1
  <2> QED
    BY <1>1, <2>2, <2>3, <2>4 DEF LTType
<1>2. CASE q = Len(ts)
  BY <1>2 DEF LTType
<1> QED
  BY <1>1, <1>2

LEMMA NotAtTheEnd ==
  ASSUME NEW ts \in Seq(Tokens), NEW q \in 0..Len(ts), LTType(ts, q, 1) # TOKEN_EOF
  PROVE  q < Len(ts)
BY TokenAt

(* There is a token to resume at, or the end of the file.                   *)
LEMMA ResumesAhead ==
  ASSUME NEW ts \in Seq(Tokens), NEW q \in 0..Len(ts), NEW set
  PROVE  consumeUntilSet(ts, q, set) \in q..Len(ts)
<1> DEFINE S == {r \in q..Len(ts) : r = Len(ts) \/ ts[r + 1].type \in set}
<1>1. S \in SUBSET Nat /\ S # {}
  OBVIOUS
<1>2. PICK r \in S : \A k \in S : r <= k
  <2> HIDE DEF S
  <2> QED
    BY <1>1, Scan!Least
<1>3. r \in q..Len(ts) /\ (r = Len(ts) \/ ts[r + 1].type \in set)
  BY <1>2
<1>4. ASSUME NEW k \in q..(r - 1) PROVE ts[k + 1].type \notin set
  <2>1. k \in q..Len(ts) /\ k \notin S
    BY <1>2, <1>3
  <2> QED
    BY <2>1
<1>5. \E x \in q..Len(ts) : /\ x = Len(ts) \/ ts[x + 1].type \in set
                            /\ \A k \in q..(x - 1) : ts[k + 1].type \notin set
  BY <1>3, <1>4
<1> QED
  BY <1>5 DEF consumeUntilSet

(* The last line of the file is the one the lexer ended on.                 *)
LEMMA LastLineIs ==
  ASSUME LexTrue, phase # "lex"
  PROVE  input.line = LastLine
<1>1. /\ input.text \in Seq(Chars) /\ Len(input.text) \in Nat /\ input.nextChar = Len(input.text)
      /\ Placed(input.text, input, input.nextChar)
  BY DEF LexTrue, InputTrue, AtEnd
<1>2. DOMAIN input.text = 1..Len(input.text)
  BY <1>1
<1>3. {k \in DOMAIN input.text : input.text[k] = Newline} = NewlinesTo(input.text, Len(input.text))
  BY <1>2 DEF NewlinesTo
<1> QED
  BY <1>1, <1>3 DEF Placed, LastLine

ExceptionAt(ex, type, ts, in, q) ==
  /\ ex.index = q /\ ex.type = type /\ ex.line = CurrentToken(ts, in, q).line
  /\ ex.charPositionInLine = CurrentToken(ts, in, q).charPositionInLine
  /\ ex.streamName = (IF CurrentToken(ts, in, q).type = TOKEN_EOF THEN "" ELSE "file")
  /\ ex.token \in {CurrentToken(ts, in, q).type, MadeUp}

LEMMA ExceptionIs ==
  ASSUME NEW ts, NEW in, NEW q, NEW type, NEW ttype
  PROVE  /\ ExceptionAt(ANTLR_Exception(type, ts, in, q), type, ts, in, q)
         /\ ExceptionAt(MissingSymbol(ANTLR_Exception(type, ts, in, q), ttype), type, ts, in, q)
<1>1. PICK at, source : /\ at = CurrentToken(ts, in, q)
                        /\ source = IF at.type = TOKEN_EOF THEN "" ELSE "file"
  OBVIOUS
<1>2. PICK u : u = ANTLR_Exception(type, ts, in, q)
  OBVIOUS
<1>3. u = [type |-> type, index |-> q, token |-> at.type, line |-> at.line,
           charPositionInLine |-> at.charPositionInLine, expecting |-> Invalid,
           streamName |-> source]
  BY <1>1, <1>2 DEF ANTLR_Exception
<1>4. ExceptionAt(u, type, ts, in, q)
  BY <1>1, <1>3 DEF ExceptionAt
<1>5. ExceptionAt(MissingSymbol(u, ttype), type, ts, in, q)
  <2>1. PICK ex : ex = MissingSymbol(u, ttype)
    OBVIOUS
  <2>2. ex = [type |-> type, index |-> q, token |-> MadeUp, line |-> at.line,
              charPositionInLine |-> at.charPositionInLine, expecting |-> ttype,
              streamName |-> source]
    BY <1>3, <2>1 DEF MissingSymbol
  <2>3. ExceptionAt(ex, type, ts, in, q)
    BY <1>1, <2>2 DEF ExceptionAt
  <2> QED
    BY <2>1, <2>3
<1> QED
  BY <1>2, <1>4, <1>5

(* An exception has the place of the next token.                            *)
LEMMA ExceptionPlaced ==
  ASSUME LexTrue, phase # "lex", p \in 0..Len(tokens), NEW type, NEW ex,
         ExceptionAt(ex, type, tokens, input, p)
  PROVE  /\ ex.index = p /\ ex.type = type
         /\ ReportTrue(displayRecognitionError(ex))
         /\ displayRecognitionError(ex).index = p
<1> DEFINE r  == displayRecognitionError(ex)
           at == CurrentToken(tokens, input, p)
<1>1. tokens \in Seq(Tokens) /\ Len(tokens) \in Nat
  BY DEF LexTrue
<1>2. /\ ex.index = p /\ ex.type = type /\ ex.line = at.line
      /\ ex.charPositionInLine = at.charPositionInLine
      /\ ex.streamName = (IF at.type = TOKEN_EOF THEN "" ELSE "file")
      /\ ex.token \in {at.type, MadeUp}
  BY DEF ExceptionAt
<1>3. r.index = ex.index /\ r.line = ex.line /\ r.charPositionInLine = ex.charPositionInLine
  BY DEF displayRecognitionError
<1>4. CASE p < Len(tokens)
  <2>1. tokens[p + 1] \in Tokens /\ tokens[p + 1].type \in TokenTypes /\ at = tokens[p + 1]
    BY <1>1, <1>4, TokenAt DEF CurrentToken
  <2>2. at.type # TOKEN_EOF /\ MadeUp # TOKEN_EOF
    BY <2>1, EofIsNoToken DEF MadeUp
  <2>3. ex.token # TOKEN_EOF /\ ex.streamName = "file"
    BY <1>2, <2>2
  <2>4. r.source = "file"
    <3>1. r.source = CASE ex.streamName # ""   -> ex.streamName
                       [] ex.token = TOKEN_EOF -> "-end of input-"
                       [] OTHER                -> "-unknown source-"
      BY DEF displayRecognitionError
    <3>2. ex.streamName # ""
      BY <2>3
    <3>3. (CASE ex.streamName # ""   -> ex.streamName
             [] ex.token = TOKEN_EOF -> "-end of input-"
             [] OTHER                -> "-unknown source-") = ex.streamName
      BY <2>3, <3>2, Zenon
    <3> QED
      BY <2>3, <3>1, <3>3
  <2>5. Placed(input.text, tokens[p + 1], tokens[p + 1].start)
    BY <1>1, <1>4 DEF LexTrue
  <2> HIDE DEF r, at
  <2>6. Placed(input.text, r, tokens[p + 1].start)
    BY <2>1, <2>5, <1>2, <1>3 DEF Placed
  <2> QED
    BY <1>2, <1>3, <1>4, <2>4, <2>6 DEF ReportTrue, r
<1>5. CASE p = Len(tokens)
  <2>1. at.line = input.line
    BY <1>5 DEF CurrentToken
  <2> HIDE DEF r, at
  <2>2. r.line = LastLine /\ r.index = Len(tokens)
    BY <1>2, <1>3, <1>5, <2>1, LastLineIs
  <2>3. ~(r.index < Len(tokens))
    BY <1>1, <2>2
  <2>4. ReportTrue(r)
    BY <2>2, <2>3 DEF ReportTrue
  <2> QED
    BY <1>2, <1>3, <2>4 DEF r
<1> QED
  BY <1>1, <1>4, <1>5

LEMMA LexSame ==
  ASSUME LexTrue, phase # "lex", UNCHANGED <<input, tokens, lexErrors>>
  PROVE  LexTrue'
BY DEF LexTrue

LEMMA ReportsKept ==
  ASSUME ReportsTrue, UNCHANGED <<input, tokens, reports>>, p \in Nat, p' \in Nat, p' >= p
  PROVE  ReportsTrue'
<1>1. IsSeq(reports)' /\ ReportedOnce'
  BY DEF ReportsTrue, ReportedOnce
<1>2. LastLine' = LastLine
  BY DEF LastLine
<1>3. ASSUME NEW i \in 1..Len(reports) PROVE reports'[i].index \in 0..p' /\ ReportTrue(reports[i])'
  <2>1. reports[i].index \in 0..p /\ ReportTrue(reports[i])
    BY DEF ReportsTrue
  <2>2. ReportTrue(reports[i])'
    BY <2>1, <1>2 DEF ReportTrue
  <2> QED
    BY <2>1, <2>2
<1> QED
  BY <1>1, <1>3 DEF ReportsTrue

(* A report is of the next token, which none before it was of.              *)
LEMMA ReportsMade ==
  ASSUME ReportsTrue, errorRecovery \in BOOLEAN, NEW ex, ReportTrue(displayRecognitionError(ex)),
         displayRecognitionError(ex).index = p, ~errorRecovery => Fresh, reportError(ex),
         UNCHANGED <<input, tokens>>, p \in Nat, p' \in Nat, p' >= p
  PROVE  ReportsTrue' /\ errorRecovery'
<1>1. errorRecovery'
  BY DEF reportError
<1>2. CASE errorRecovery
  <2>1. reports' = reports
    BY <1>2 DEF reportError
  <2> QED
    BY <1>1, <2>1, ReportsKept
<1>3. CASE ~errorRecovery
  <2>1. PICK r : r = displayRecognitionError(ex)
    OBVIOUS
  <2>2. ReportTrue(r) /\ r.index = p /\ Fresh /\ reports' = Append(reports, r)
    BY <1>3, <2>1 DEF reportError
  <2>3. /\ IsSeq(reports') /\ Len(reports') = Len(reports) + 1 /\ Len(reports) \in Nat
        /\ reports'[Len(reports) + 1] = r /\ \A i \in 1..Len(reports) : reports'[i] = reports[i]
    BY <2>2, AppendSeq DEF ReportsTrue
  <2>4. LastLine' = LastLine
    BY DEF LastLine
  <2>5. DOMAIN reports = 1..Len(reports)
    BY DEF ReportsTrue, IsSeq
  <2>6. ASSUME NEW i \in 1..Len(reports')
        PROVE  reports'[i].index \in 0..p' /\ ReportTrue(reports[i])'
    <3>1. reports'[i].index \in 0..p /\ ReportTrue(reports'[i])
      <4>1. i = Len(reports) + 1 \/ i \in 1..Len(reports)
        BY <2>3
      <4> QED
        BY <4>1, <2>2, <2>3 DEF ReportsTrue
    <3>2. ReportTrue(reports[i])'
      BY <3>1, <2>4 DEF ReportTrue
    <3> QED
      BY <3>1, <3>2
  <2>7. ReportedOnce'
    <3>1. ASSUME NEW i \in 1..Len(reports'), NEW j \in 1..Len(reports'), i < j
          PROVE  reports'[i].index < reports'[j].index
      <4>1. i \in 1..Len(reports)
        BY <2>3, <3>1
      <4>2. CASE j = Len(reports) + 1
        BY <4>1, <4>2, <2>2, <2>3 DEF Fresh
      <4>3. CASE j # Len(reports) + 1
        <5>1. j \in 1..Len(reports)
          BY <2>3, <4>3
        <5>2. reports[i].index < reports[j].index
          BY <4>1, <5>1, <3>1, <2>5 DEF ReportsTrue, ReportedOnce
        <5> QED
          BY <4>1, <5>1, <5>2, <2>3
      <4> QED
        BY <4>2, <4>3
    <3>2. DOMAIN reports' = 1..Len(reports')
      BY <2>3 DEF IsSeq
    <3> QED
      BY <3>1, <3>2 DEF ReportedOnce
  <2> QED
    BY <1>1, <2>3, <2>6, <2>7 DEF ReportsTrue
<1> QED
  BY <1>2, <1>3

-----------------------------------------------------------------------------
(* A step that no exception holds up.                                       *)
LEMMA ParsingTrue ==
  ASSUME FrontTrue, Parsing
  PROVE  /\ phase = "parse" /\ ~exception /\ StackIs(stack) /\ stack # <<>> /\ Len(stack) \in Nat
         /\ Len(stack) > 0 /\ Good(Len(stack), frame.todo) /\ scopes \in Seq(Nat)
         /\ frame.todo # <<>> => LeadsOn(Len(stack), frame.todo)
         /\ tokens \in Seq(Tokens) /\ Len(tokens) \in Nat /\ p \in 0..Len(tokens) /\ p \in Nat
<1>1. /\ phase = "parse" /\ ~exception /\ StackIs(stack) /\ stack # <<>> /\ scopes \in Seq(Nat)
      /\ p \in 0..Len(tokens)
  BY DEF FrontTrue, ShapeTrue, Parsing
<1>2. tokens \in Seq(Tokens) /\ Len(tokens) \in Nat
  BY DEF FrontTrue, LexTrue
<1>3. /\ Good(Len(stack), frame.todo) /\ Len(stack) \in Nat /\ Len(stack) > 0
      /\ frame.todo # <<>> => LeadsOn(Len(stack), frame.todo)
  BY <1>1, TopTrue DEF frame
<1> QED
  BY <1>1, <1>2, <1>3

LEMMA FreshUnlessCommitted ==
  ASSUME FrontTrue, Parsing, frame.todo # <<>>, ~errorRecovery,
         \/ item.op \in {"set", "do", "star", "alts", "statement", "pred"}
         \/ item.op = "tok" /\ LTType(tokens, p, 1) # item.arg
  PROVE  Fresh
<1>1. Fresh \/ Committed \/ EndsNow
  BY DEF FrontTrue, RecoveryTrue, Parsing
<1>2. Opt(<<Tok("var")>>).op = "opt"
  BY DEF Opt, Item
<1>3. item # Opt(<<Tok("var")>>)
  BY <1>2
<1> QED
  BY <1>1, <1>3 DEF Committed, EndsNow

LEMMA CalmRecovers ==
  ASSUME Calm(Last(stack').todo),
         phase' = "parse" /\ ~exception' /\ ~errorRecovery' => Fresh' \/ Committed' \/ EndsNow'
  PROVE  RecoveryTrue'
<1>1. frame' = Last(stack') /\ item' = Head(Last(stack').todo)
  BY DEF frame, item
<1>2. ReturnTodo # <<>>
  BY ReturnIs
<1> QED
  BY <1>1, <1>2 DEF RecoveryTrue, Calm

LEMMA FreshKept ==
  ASSUME Fresh, ReportsTrue, reports' = reports, p \in Nat, p' \in Nat, p' >= p
  PROVE  Fresh'
<1>1. ASSUME NEW i \in 1..Len(reports) PROVE reports[i].index < p'
  <2>1. reports[i].index \in 0..p /\ reports[i].index < p
    BY DEF ReportsTrue, Fresh
  <2> QED
    BY <2>1
<1> QED
  BY <1>1 DEF Fresh

LEMMA FreshMoved ==
  ASSUME ReportsTrue, reports' = reports, p \in Nat, p' \in Nat, p' > p
  PROVE  Fresh'
<1>1. ASSUME NEW i \in 1..Len(reports) PROVE reports[i].index < p'
  <2>1. reports[i].index \in 0..p
    BY DEF ReportsTrue
  <2> QED
    BY <2>1
<1> QED
  BY <1>1 DEF Fresh

(* A token or an action is over: what is left is the rest of the rule.      *)
LEMMA PassTrue ==
  ASSUME FrontTrue, Parsing, frame.todo # <<>>, item.op \in {"tok", "set", "do"},
         NEW ret \in Given, item.acts \in Seq(Plain) \/ ret \in Values, PassItem(ret),
         p' \in p..Len(tokens), errorRecovery' \in BOOLEAN,
         UNCHANGED <<input, tokens, lexErrors, exception, lastErrorIndex>>
  PROVE  /\ LexTrue' /\ ShapeTrue' /\ ExceptionTrue'
         /\ Last(stack').todo = rest /\ Len(stack') = Len(stack) /\ p' \in Nat /\ p' >= p
<1>1. /\ phase = "parse" /\ ~exception /\ StackIs(stack) /\ stack # <<>> /\ scopes \in Seq(Nat)
      /\ LeadsOn(Len(stack), frame.todo) /\ p \in Nat /\ Len(tokens) \in Nat
  BY ParsingTrue
<1>2. Good(Len(stack), rest) /\ item.acts \in Seq(Acting)
  <2>1. Seq(Plain) \subseteq Seq(Acting)
    BY SeqMonotonic DEF Acting
  <2> QED
    BY <1>1, <2>1 DEF LeadsOn, item, rest
<1>3. /\ StackIs(stack') /\ stack' # <<>> /\ Len(stack') = Len(stack)
      /\ Last(stack').todo = rest /\ scopes' \in Seq(Nat) /\ phase' \in Onward
  BY <1>1, <1>2, PassItemTrue
<1>4. phase' \in Phases /\ phase' # "lex"
  BY <1>3 DEF Onward, Phases
<1>5. LexTrue'
  BY <1>1, LexSame DEF FrontTrue
<1>6. ~exception' /\ exception' \in BOOLEAN
  BY <1>1 DEF FrontTrue, ShapeTrue
<1>7. p' \in 0..Len(tokens') /\ p' \in Nat /\ p' >= p
  BY <1>1
<1>8. lastErrorIndex' \in -1..Len(tokens')
  BY DEF FrontTrue, ShapeTrue
<1>9. ShapeTrue'
  BY <1>3, <1>4, <1>6, <1>7, <1>8 DEF ShapeTrue
<1> QED
  BY <1>3, <1>5, <1>6, <1>7, <1>9 DEF ExceptionTrue

LEMMA TokenGiven ==
  ASSUME NEW type \in TokenTypes \union {TOKEN_EOF}
  PROVE  /\ TokenValue(type) \in Given
         /\ type \in AssignOps => TokenValue(type) \in Values
BY DEF TokenValue, Given, Kept, Values, Kinds

(* What is left after a token, but for the token return, is calm.           *)
LEMMA CalmAfter ==
  ASSUME FrontTrue, Parsing, frame.todo # <<>>, item.op = "tok" => frame.todo # ReturnTodo
  PROVE  Calm(rest)
BY ParsingTrue DEF LeadsOn, item, rest

LEMMA MatchTokenTrue ==
  ASSUME FrontTrue, MatchToken
  PROVE  FrontTrue'
<1>1. /\ Parsing /\ frame.todo # <<>> /\ item.op = "tok" /\ LTType(tokens, p, 1) = item.arg
      /\ p' = consumeToken(tokens, p) /\ errorRecovery' = FALSE /\ PassItem(TokenValue(item.arg))
      /\ UNCHANGED <<input, tokens, lexErrors, exception, newest, lastErrorIndex, reports>>
  BY DEF MatchToken, At
<1>2. /\ LeadsOn(Len(stack), frame.todo) /\ tokens \in Seq(Tokens) /\ Len(tokens) \in Nat
      /\ p \in 0..Len(tokens) /\ p \in Nat
  BY <1>1, ParsingTrue
<1>3. /\ item.arg \in TokenTypes \union {TOKEN_EOF} /\ item.acts \in Seq(Plain)
      /\ item.arg = TOKEN_EOF => Len(stack) = 1 /\ rest = <<>>
  BY <1>1, <1>2 DEF LeadsOn, item, rest
<1>4. p' \in p..Len(tokens) /\ (p < Len(tokens) => p' > p)
  BY <1>1, <1>2, TokenConsumed
<1>5. /\ LexTrue' /\ ShapeTrue' /\ ExceptionTrue'
      /\ Last(stack').todo = rest /\ Len(stack') = Len(stack) /\ p' \in Nat /\ p' >= p
  <2>1. TokenValue(item.arg) \in Given
    BY <1>3, TokenGiven
  <2> QED
    BY <1>1, <1>3, <1>4, <2>1, PassTrue
<1>6. ReportsTrue'
  BY <1>1, <1>2, <1>5, ReportsKept DEF FrontTrue
<1>7. Fresh' \/ EndsNow'
  <2>1. CASE p < Len(tokens)
    BY <2>1, <1>1, <1>2, <1>4, <1>5, FreshMoved DEF FrontTrue
  <2>2. CASE p = Len(tokens)
    <3>1. item.arg = TOKEN_EOF
      BY <2>2, <1>1, <1>2, TokenAt
    <3> QED
      BY <3>1, <1>3, <1>5 DEF EndsNow, frame
  <2> QED
    BY <1>2, <2>1, <2>2
<1>8. RecoveryTrue'
  <2>1. CASE frame.todo = ReturnTodo
    <3>1. Last(stack').todo = Tail(ReturnTodo)
      BY <2>1, <1>5 DEF rest
    <3>2. Tail(ReturnTodo) # ReturnTodo
      <4>1. Head(Tail(ReturnTodo)).op = "pred" /\ Head(ReturnTodo).op = "tok"
        BY ReturnIs, PredOp
      <4> QED
        BY <4>1
    <3>3. frame' = Last(stack')
      BY DEF frame
    <3> QED
      BY <3>1, <3>2, <3>3, <1>1, <1>7 DEF RecoveryTrue
  <2>2. CASE frame.todo # ReturnTodo
    <3>1. Calm(rest)
      BY <2>2, <1>1, CalmAfter
    <3> QED
      BY <3>1, <1>5, <1>7, CalmRecovers
  <2> QED
    BY <2>1, <2>2
<1> QED
  BY <1>5, <1>6, <1>8 DEF FrontTrue

LEMMA MatchSetTrue ==
  ASSUME FrontTrue, MatchSet
  PROVE  FrontTrue'
<1>1. /\ Parsing /\ frame.todo # <<>> /\ item.op = "set" /\ LTType(tokens, p, 1) \in item.arg
      /\ p' = consumeToken(tokens, p) /\ errorRecovery' = FALSE
      /\ PassItem(TokenValue(LTType(tokens, p, 1)))
      /\ UNCHANGED <<input, tokens, lexErrors, exception, newest, lastErrorIndex, reports>>
  BY DEF MatchSet, At
<1>2. /\ LeadsOn(Len(stack), frame.todo) /\ tokens \in Seq(Tokens) /\ Len(tokens) \in Nat
      /\ p \in 0..Len(tokens) /\ p \in Nat
  BY <1>1, ParsingTrue
<1>3. item.arg \subseteq TokenTypes /\ (item.acts \in Seq(Plain) \/ item.arg \subseteq AssignOps)
  BY <1>1, <1>2 DEF LeadsOn, item
<1>4. p' \in p..Len(tokens) /\ p' > p
  <2>1. LTType(tokens, p, 1) # TOKEN_EOF
    BY <1>1, <1>3, EofIsNoToken
  <2>2. p < Len(tokens)
    BY <2>1, <1>2, NotAtTheEnd
  <2> QED
    BY <2>2, <1>1, <1>2, TokenConsumed
<1>5. /\ LexTrue' /\ ShapeTrue' /\ ExceptionTrue'
      /\ Last(stack').todo = rest /\ p' \in Nat /\ p' >= p
  <2>1. PICK t : t = LTType(tokens, p, 1)
    OBVIOUS
  <2>2. t \in TokenTypes /\ (item.acts \in Seq(Plain) \/ t \in AssignOps)
    BY <2>1, <1>1, <1>3
  <2>3. TokenValue(t) \in Given /\ (item.acts \in Seq(Plain) \/ TokenValue(t) \in Values)
    BY <2>2, TokenGiven
  <2>4. PassItem(TokenValue(t))
    BY <2>1, <1>1
  <2> QED
    BY <1>1, <1>4, <2>3, <2>4, PassTrue
<1>6. ReportsTrue' /\ Fresh'
  BY <1>1, <1>2, <1>4, <1>5, ReportsKept, FreshMoved DEF FrontTrue
<1>7. Calm(rest)
  BY <1>1, CalmAfter
<1>8. RecoveryTrue'
  BY <1>5, <1>6, <1>7, CalmRecovers
<1> QED
  BY <1>5, <1>6, <1>8 DEF FrontTrue

LEMMA RunActionTrue ==
  ASSUME FrontTrue, RunAction
  PROVE  FrontTrue'
<1>1. /\ Parsing /\ frame.todo # <<>> /\ item.op = "do" /\ PassItem(Null)
      /\ UNCHANGED <<input, tokens, lexErrors, p, exception, newest, errorRecovery,
                     lastErrorIndex, reports>>
  BY DEF RunAction, At
<1>2. /\ LeadsOn(Len(stack), frame.todo) /\ tokens \in Seq(Tokens) /\ Len(tokens) \in Nat
      /\ p \in 0..Len(tokens) /\ p \in Nat
  BY <1>1, ParsingTrue
<1>3. item.acts \in Seq(Plain)
  BY <1>1, <1>2 DEF LeadsOn, item
<1>4. p' \in p..Len(tokens) /\ errorRecovery' \in BOOLEAN
  BY <1>1, <1>2 DEF FrontTrue, ShapeTrue
<1>5. /\ LexTrue' /\ ShapeTrue' /\ ExceptionTrue'
      /\ Last(stack').todo = rest /\ p' \in Nat /\ p' >= p
  <2>1. Null \in Given
    BY DEF Null, Given, Kept, Kinds
  <2> QED
    BY <1>1, <1>3, <1>4, <2>1, PassTrue
<1>6. ReportsTrue'
  BY <1>1, <1>2, <1>5, ReportsKept DEF FrontTrue
<1>7. ~errorRecovery' => Fresh'
  <2>1. ~errorRecovery => Fresh
    BY <1>1, FreshUnlessCommitted
  <2> QED
    BY <2>1, <1>1, <1>2, <1>5, FreshKept DEF FrontTrue
<1>8. Calm(rest)
  BY <1>1, CalmAfter
<1>9. RecoveryTrue'
  BY <1>5, <1>7, <1>8, CalmRecovers
<1> QED
  BY <1>5, <1>6, <1>9 DEF FrontTrue

(* A token is dropped, or made up: the report is of the one that is there.  *)
LEMMA RepairTrue ==
  ASSUME FrontTrue, Parsing, frame.todo # <<>>, item.op = "tok", LTType(tokens, p, 1) # item.arg,
         NEW type, ExceptionAt(newest', type, tokens, input, p), reportError(newest'),
         p' \in p..Len(tokens), PassItem(TokenValue(item.arg)),
         UNCHANGED <<input, tokens, lexErrors, exception, lastErrorIndex>>
  PROVE  FrontTrue'
<1>1. /\ LeadsOn(Len(stack), frame.todo) /\ tokens \in Seq(Tokens) /\ Len(tokens) \in Nat
      /\ p \in 0..Len(tokens) /\ p \in Nat /\ phase = "parse"
  BY ParsingTrue
<1>2. /\ item.arg \in TokenTypes \union {TOKEN_EOF} /\ item.acts \in Seq(Plain)
  BY <1>1 DEF LeadsOn, item
<1>3. errorRecovery'
  BY DEF reportError
<1>4. errorRecovery' \in BOOLEAN
  BY DEF reportError
<1>5. /\ LexTrue' /\ ShapeTrue' /\ ExceptionTrue'
      /\ Last(stack').todo = rest /\ p' \in Nat /\ p' >= p
  <2>1. TokenValue(item.arg) \in Given
    BY <1>2, TokenGiven
  <2> QED
    BY <1>2, <1>4, <2>1, PassTrue
<1>6. ReportsTrue'
  <2>1. PICK ex : ex = newest'
    OBVIOUS
  <2>2. /\ ReportTrue(displayRecognitionError(ex)) /\ displayRecognitionError(ex).index = p
    BY <2>1, <1>1, ExceptionPlaced DEF FrontTrue
  <2>3. ~errorRecovery => Fresh
    BY FreshUnlessCommitted
  <2>4. reportError(ex)
    BY <2>1
  <2> QED
    BY <2>2, <2>3, <2>4, <1>1, <1>5, ReportsMade DEF FrontTrue, ShapeTrue
<1>7. Calm(rest)
  <2>1. frame.todo # ReturnTodo
    BY ReturnIs DEF FrontTrue, RecoveryTrue, Parsing, item
  <2> QED
    BY <2>1, CalmAfter
<1>8. RecoveryTrue'
  BY <1>3, <1>5, <1>7, CalmRecovers
<1> QED
  BY <1>5, <1>6, <1>8 DEF FrontTrue

LEMMA DeleteTokenTrue ==
  ASSUME FrontTrue, DeleteToken
  PROVE  FrontTrue'
<1>1. /\ Parsing /\ frame.todo # <<>> /\ item.op = "tok" /\ LTType(tokens, p, 1) # item.arg
      /\ newest' = Unexpected("UNWANTED_TOKEN") /\ reportError(newest')
      /\ p' = consumeToken(tokens, consumeToken(tokens, p)) /\ PassItem(TokenValue(item.arg))
      /\ UNCHANGED <<input, tokens, lexErrors, exception, lastErrorIndex>>
  BY DEF DeleteToken, At
<1>2. tokens \in Seq(Tokens) /\ p \in 0..Len(tokens)
  BY <1>1, ParsingTrue
<1>3. p' \in p..Len(tokens)
  <2>1. consumeToken(tokens, p) \in 0..Len(tokens) /\ consumeToken(tokens, p) >= p
    BY <1>2, TokenConsumed
  <2>2. p' \in 0..Len(tokens) /\ p' >= consumeToken(tokens, p)
    BY <2>1, <1>1, <1>2, TokenConsumed
  <2> QED
    BY <2>1, <2>2, <1>2
<1>4. ExceptionAt(newest', "UNWANTED_TOKEN", tokens, input, p)
  BY <1>1, ExceptionIs DEF Unexpected
<1> QED
  BY <1>1, <1>3, <1>4, RepairTrue

LEMMA InsertTokenTrue ==
  ASSUME FrontTrue, InsertToken
  PROVE  FrontTrue'
<1>1. /\ Parsing /\ frame.todo # <<>> /\ item.op = "tok" /\ LTType(tokens, p, 1) # item.arg
      /\ newest' = MissingSymbol(Unexpected("MISSING_TOKEN"), item.arg) /\ reportError(newest')
      /\ p' = p /\ PassItem(TokenValue(item.arg))
      /\ UNCHANGED <<input, tokens, lexErrors, exception, lastErrorIndex>>
  BY DEF InsertToken, At
<1>2. tokens \in Seq(Tokens) /\ p \in 0..Len(tokens)
  BY <1>1, ParsingTrue
<1>3. p' \in p..Len(tokens)
  BY <1>1, <1>2
<1>4. ExceptionAt(newest', "MISSING_TOKEN", tokens, input, p)
  BY <1>1, ExceptionIs DEF Unexpected
<1> QED
  BY <1>1, <1>3, <1>4, RepairTrue

(* An exception is about the next token, of which nothing was reported.     *)
LEMMA RaiseTrue ==
  ASSUME FrontTrue, Parsing, frame.todo # <<>>, NEW type, type # "none", Raise(type),
         ~errorRecovery => Fresh
  PROVE  FrontTrue'
<1>1. /\ exception' = TRUE /\ newest' = Unexpected(type)
      /\ UNCHANGED <<input, tokens, lexErrors, phase, p, stack, errorRecovery, lastErrorIndex,
                     reports, scopes>>
  BY DEF Raise
<1>2. /\ phase = "parse" /\ tokens \in Seq(Tokens) /\ Len(tokens) \in Nat
      /\ p \in 0..Len(tokens) /\ p \in Nat
  BY ParsingTrue
<1>3. LexTrue'
  BY <1>1, <1>2, LexSame DEF FrontTrue
<1>4. ShapeTrue'
  BY <1>1, <1>2 DEF FrontTrue, ShapeTrue
<1>5. ReportsTrue'
  BY <1>1, <1>2, ReportsKept DEF FrontTrue
<1>6. ExceptionTrue'
  <2>1. PICK ex : ex = newest'
    OBVIOUS
  <2>2. ExceptionAt(ex, type, tokens, input, p)
    BY <2>1, <1>1, ExceptionIs DEF Unexpected
  <2>3. /\ ex.index = p /\ ex.type = type /\ ReportTrue(displayRecognitionError(ex))
    BY <2>2, <1>2, ExceptionPlaced DEF FrontTrue
  <2>4. PICK r : r = displayRecognitionError(ex)
    OBVIOUS
  <2>5. LastLine' = LastLine
    BY <1>1 DEF LastLine
  <2>6. ReportTrue(r)'
    BY <2>3, <2>4, <2>5, <1>1 DEF ReportTrue
  <2>7. ~errorRecovery' => Fresh'
    BY <1>1, <1>2, FreshKept DEF FrontTrue
  <2> QED
    BY <2>1, <2>3, <2>4, <2>6, <2>7, <1>1, <1>2 DEF ExceptionTrue
<1>7. RecoveryTrue'
  BY <1>1 DEF RecoveryTrue
<1> QED
  BY <1>3, <1>4, <1>5, <1>6, <1>7 DEF FrontTrue

LEMMA MismatchTrue ==
  ASSUME FrontTrue, Mismatch
  PROVE  FrontTrue'
<1>1. /\ Parsing /\ frame.todo # <<>> /\ item.op = "tok" /\ LTType(tokens, p, 1) # item.arg
      /\ Raise("RECOGNITION")
  BY DEF Mismatch, At
<1>2. ~errorRecovery => Fresh
  BY <1>1, FreshUnlessCommitted
<1> QED
  BY <1>1, <1>2, RaiseTrue

LEMMA MismatchSetTrue ==
  ASSUME FrontTrue, MismatchSet
  PROVE  FrontTrue'
<1>1. Parsing /\ frame.todo # <<>> /\ item.op = "set" /\ Raise("MISMATCHED_SET")
  BY DEF MismatchSet, At
<1>2. ~errorRecovery => Fresh
  BY <1>1, FreshUnlessCommitted
<1> QED
  BY <1>1, <1>2, RaiseTrue

LEMMA NoViableAltTrue ==
  ASSUME FrontTrue, NoViableAlt
  PROVE  FrontTrue'
<1>1. Parsing /\ frame.todo # <<>> /\ item.op \in {"alts", "statement"} /\ Raise("NO_VIABLE_ALT")
  BY DEF NoViableAlt, At
<1>2. ~errorRecovery => Fresh
  BY <1>1, FreshUnlessCommitted
<1> QED
  BY <1>1, <1>2, RaiseTrue

-----------------------------------------------------------------------------
(* A step that changes only what is left to do.                             *)
LEMMA MovedOn ==
  ASSUME FrontTrue, Parsing, StackIs(stack'), stack' # <<>>,
         UNCHANGED <<input, tokens, lexErrors, phase, p, exception, lastErrorIndex, reports,
                     scopes>>,
         errorRecovery' \in BOOLEAN
  PROVE  LexTrue' /\ ShapeTrue' /\ ReportsTrue' /\ ExceptionTrue' /\ (Fresh => Fresh')
<1>1. /\ phase = "parse" /\ ~exception /\ tokens \in Seq(Tokens) /\ Len(tokens) \in Nat
      /\ p \in 0..Len(tokens) /\ p \in Nat
  BY ParsingTrue
<1>2. LexTrue'
  BY <1>1, LexSame DEF FrontTrue
<1>3. ShapeTrue'
  BY <1>1 DEF FrontTrue, ShapeTrue
<1>4. ReportsTrue'
  BY <1>1, ReportsKept DEF FrontTrue
<1>5. ExceptionTrue'
  BY <1>1 DEF ExceptionTrue
<1>6. Fresh => Fresh'
  BY <1>1, FreshKept DEF FrontTrue
<1> QED
  BY <1>2, <1>3, <1>4, <1>5, <1>6

(* The item a rule begins with. *)
Begins(todo, first) == todo # <<>> /\ Head(todo) = first

LEMMA BeginsIs ==
  /\ \A a : Begins(<<a>>, a)
  /\ \A a, b : Begins(<<a, b>>, a)
  /\ \A a, b, c : Begins(<<a, b, c>>, a)
  /\ \A a, b, c, d : Begins(<<a, b, c, d>>, a)
BY DEF Begins

(* What the rules a statement can begin with begin with.                    *)
LEMMA Beginnings ==
  /\ Begins(Rules["assignment"], Ref("leftValue", <<"need">>))
  /\ Begins(Rules["leftValue"], Ref("rtTypeAtom", <<"pass", "assertTarget">>))
  /\ Begins(Rules["rtTypeAtom"], Ref("rtTypeAtomHead", <<"pass">>))
  /\ Begins(Rules["rtTypeAtomHead"], TokDo("ID", <<"name">>))
  /\ Begins(Rules["funcDefine"], Opt(<<Tok("var")>>))
  /\ Begins(Rules["varDefine"], Tok("var"))
  /\ Begins(Rules["varDeclares"], Tok("var"))
<1>1. Begins(Rules["assignment"], Ref("leftValue", <<"need">>))
  <2>1. StatementRules["assignment"]
          = <<Ref("leftValue", <<"need">>), Ref("assignOp", <<"operator">>),
              Ref("expr", <<"compound", "need", "tree">>)>>
    BY DEF StatementRules
  <2>2. "assignment" \in DOMAIN StatementRules
    BY DEF StatementRules
  <2>3. Rules["assignment"] = StatementRules["assignment"]
    BY <2>2, RulesAre
  <2> QED
    BY <2>1, <2>3, BeginsIs
<1>2. Begins(Rules["varDeclares"], Tok("var"))
  <2>1. StatementRules["varDeclares"] = <<Tok("var"), Ref("idList", <<>>)>>
    BY DEF StatementRules
  <2>2. "varDeclares" \in DOMAIN StatementRules
    BY DEF StatementRules
  <2>3. Rules["varDeclares"] = StatementRules["varDeclares"]
    BY <2>2, RulesAre
  <2> QED
    BY <2>1, <2>3, BeginsIs
<1>3. Begins(Rules["varDefine"], Tok("var"))
  <2>1. StatementRules["varDefine"]
          = <<Tok("var"), Tok("ID"), Tok("="), Ref("expr", <<"need", "tree">>)>>
    BY DEF StatementRules
  <2>2. "varDefine" \in DOMAIN StatementRules
    BY DEF StatementRules
  <2>3. Rules["varDefine"] = StatementRules["varDefine"]
    BY <2>2, RulesAre
  <2> QED
    BY <2>1, <2>3, BeginsIs
<1>4. Begins(Rules["funcDefine"], Opt(<<Tok("var")>>))
  <2>1. StatementRules["funcDefine"]
          = <<Opt(<<Tok("var")>>), Tok("function"), Tok("ID"), Ref("funcBody", <<"need", "tree">>)>>
    BY DEF StatementRules
  <2>2. "funcDefine" \in DOMAIN StatementRules
    BY DEF StatementRules
  <2>3. Rules["funcDefine"] = StatementRules["funcDefine"]
    BY <2>2, RulesAre
  <2> QED
    BY <2>1, <2>3, BeginsIs
<1>5. Begins(Rules["leftValue"], Ref("rtTypeAtom", <<"pass", "assertTarget">>))
  <2>1. ExpressionRules["leftValue"] = <<Ref("rtTypeAtom", <<"pass", "assertTarget">>)>>
    BY DEF ExpressionRules
  <2>2. "leftValue" \in DOMAIN ExpressionRules
    BY DEF ExpressionRules
  <2>3. Rules["leftValue"] = ExpressionRules["leftValue"]
    BY <2>2, RulesAre
  <2> QED
    BY <2>1, <2>3, BeginsIs
<1>6. Begins(Rules["rtTypeAtomHead"], TokDo("ID", <<"name">>))
  <2>1. ExpressionRules["rtTypeAtomHead"] = <<TokDo("ID", <<"name">>)>>
    BY DEF ExpressionRules
  <2>2. "rtTypeAtomHead" \in DOMAIN ExpressionRules
    BY DEF ExpressionRules
  <2>3. Rules["rtTypeAtomHead"] = ExpressionRules["rtTypeAtomHead"]
    BY <2>2, RulesAre
  <2> QED
    BY <2>1, <2>3, BeginsIs
<1>7. Begins(Rules["rtTypeAtom"], Ref("rtTypeAtomHead", <<"pass">>))
  <2> DEFINE first == Ref("rtTypeAtomHead", <<"pass">>)
             more  == Star(<<Alts(<<
                        <<Tok("("), Ref("exprList", <<"may">>), TokDo(")", <<"call">>)>>,
                        <<Tok("["), Ref("expr", <<"need">>), TokDo("]", <<"index">>)>> >>)>>)
  <2>1. ExpressionRules["rtTypeAtom"] = <<first, more>>
    BY DEF ExpressionRules
  <2>2. "rtTypeAtom" \in DOMAIN ExpressionRules
    BY DEF ExpressionRules
  <2>3. Rules["rtTypeAtom"] = ExpressionRules["rtTypeAtom"]
    BY <2>2, RulesAre
  <2> HIDE DEF first, more
  <2>4. Begins(Rules["rtTypeAtom"], first)
    BY <2>1, <2>3, BeginsIs
  <2> QED
    BY <2>4 DEF first
<1> QED
  BY <1>1, <1>2, <1>3, <1>4, <1>5, <1>6, <1>7

LEMMA StatementBeginnings ==
  /\ Begins(StatementAlts[1], Ref("assignment", <<"pass">>))
  /\ Begins(StatementAlts[5], Ref("rtTypeAtom", <<"assertCall", "need", "tree">>))
  /\ Begins(StatementAlts[3], Ref("funcDefine", <<"pass">>))
  /\ Begins(StatementAlts[4], Ref("varDefine", <<"pass">>))
  /\ Begins(StatementAlts[6], Ref("varDeclares", <<>>))
<1>1. StatementAlts[1] = <<Ref("assignment", <<"pass">>)>>
  BY DEF StatementAlts
<1>2. StatementAlts[5] = <<Ref("rtTypeAtom", <<"assertCall", "need", "tree">>)>>
  BY DEF StatementAlts
<1>3. StatementAlts[3] = <<Ref("funcDefine", <<"pass">>)>>
  BY DEF StatementAlts
<1>4. StatementAlts[4] = <<Ref("varDefine", <<"pass">>)>>
  BY DEF StatementAlts
<1>5. StatementAlts[6] = <<Ref("varDeclares", <<>>)>>
  BY DEF StatementAlts
<1> QED
  BY <1>1, <1>2, <1>3, <1>4, <1>5, BeginsIs

(* A rule is called: what was committed to stays so.                        *)
LEMMA CommittedCalls ==
  ASSUME FrontTrue, Committed, item.op = "ref", p' = p, tokens' = tokens,
         frame'.todo = Rules[item.arg]
  PROVE  Committed'
<1>1. item' = Head(Rules[item.arg])
  BY DEF item
<1>2. LTType(tokens, p, 1)' = LTType(tokens, p, 1)
  BY DEF LTType
<1>3. \A r, as : Ref(r, as).op = "ref" /\ Ref(r, as).arg = r
  BY DEF Ref, Item
<1>4. \A t, as : /\ TokDo(t, as).op = "tok" /\ TokDo(t, as).arg = t
                 /\ Tok(t).op = "tok" /\ Tok(t).arg = t
  BY DEF TokDo, Tok, Item
<1>5. Opt(<<Tok("var")>>).op = "opt"
  BY DEF Opt, Item
<1>6. \/ /\ LTType(tokens, p, 1) = "ID"
         /\ item.arg \in {"assignment", "leftValue", "rtTypeAtom", "rtTypeAtomHead"}
      \/ /\ LTType(tokens, p, 1) = "var"
         /\ item.arg \in {"funcDefine", "varDefine", "varDeclares"}
  BY <1>5 DEF Committed
<1>7. CASE item.arg = "assignment"
  <2>1. Begins(frame'.todo, Ref("leftValue", <<"need">>))
    BY <1>7, Beginnings
  <2>2. frame'.todo # <<>> /\ item'.op = "ref" /\ item'.arg = "leftValue"
    BY <2>1, <1>1, <1>3 DEF Begins
  <2>3. LTType(tokens, p, 1)' = "ID"
    BY <1>2, <1>6, <1>7
  <2> QED
    BY <2>2, <2>3 DEF Committed
<1>8. CASE item.arg = "leftValue"
  <2>1. Begins(frame'.todo, Ref("rtTypeAtom", <<"pass", "assertTarget">>))
    BY <1>8, Beginnings
  <2>2. frame'.todo # <<>> /\ item'.op = "ref" /\ item'.arg = "rtTypeAtom"
    BY <2>1, <1>1, <1>3 DEF Begins
  <2>3. LTType(tokens, p, 1)' = "ID"
    BY <1>2, <1>6, <1>8
  <2> QED
    BY <2>2, <2>3 DEF Committed
<1>9. CASE item.arg = "rtTypeAtom"
  <2>1. Begins(frame'.todo, Ref("rtTypeAtomHead", <<"pass">>))
    BY <1>9, Beginnings
  <2>2. frame'.todo # <<>> /\ item'.op = "ref" /\ item'.arg = "rtTypeAtomHead"
    BY <2>1, <1>1, <1>3 DEF Begins
  <2>3. LTType(tokens, p, 1)' = "ID"
    BY <1>2, <1>6, <1>9
  <2> QED
    BY <2>2, <2>3 DEF Committed
<1>10. CASE item.arg = "rtTypeAtomHead"
  <2>1. Begins(frame'.todo, TokDo("ID", <<"name">>))
    BY <1>10, Beginnings
  <2>2. frame'.todo # <<>> /\ item'.op = "tok" /\ item'.arg = "ID"
    BY <2>1, <1>1, <1>4 DEF Begins
  <2>3. LTType(tokens, p, 1)' = "ID"
    BY <1>2, <1>6, <1>10
  <2> QED
    BY <2>2, <2>3 DEF Committed
<1>11. CASE item.arg = "funcDefine"
  <2>1. Begins(frame'.todo, Opt(<<Tok("var")>>))
    BY <1>11, Beginnings
  <2>2. frame'.todo # <<>> /\ item' = Opt(<<Tok("var")>>)
    BY <2>1, <1>1 DEF Begins
  <2>3. LTType(tokens, p, 1)' = "var"
    BY <1>2, <1>6, <1>11
  <2> QED
    BY <2>2, <2>3 DEF Committed
<1>12. CASE item.arg \in {"varDefine", "varDeclares"}
  <2>1. Begins(frame'.todo, Tok("var"))
    BY <1>12, Beginnings
  <2>2. frame'.todo # <<>> /\ item'.op = "tok" /\ item'.arg = "var"
    BY <2>1, <1>1, <1>4 DEF Begins
  <2>3. LTType(tokens, p, 1)' = "var"
    BY <1>2, <1>6, <1>12
  <2> QED
    BY <2>2, <2>3 DEF Committed
<1> QED
  BY <1>6, <1>7, <1>8, <1>9, <1>10, <1>11, <1>12

LEMMA CallRuleTrue ==
  ASSUME FrontTrue, CallRule
  PROVE  FrontTrue'
<1>1. /\ Parsing /\ frame.todo # <<>> /\ item.op = "ref"
      /\ stack' = Append(stack, Frame(item.arg, LocalFollow(rest)))
      /\ UNCHANGED <<input, tokens, lexErrors, phase, p, exception, newest, errorRecovery,
                     lastErrorIndex, reports, scopes>>
  BY DEF CallRule, At
<1>2. /\ StackIs(stack) /\ stack # <<>> /\ Len(stack) \in Nat /\ Len(stack) > 0
      /\ LeadsOn(Len(stack), frame.todo)
  BY <1>1, ParsingTrue
<1>3. item.arg \in Callable
  BY <1>1, <1>2 DEF LeadsOn, item
<1>4. Goes(Len(stack) + 1, Rules[item.arg])
  <2>1. Len(stack) + 1 \in Nat /\ Len(stack) + 1 > 1
    BY <1>2
  <2> QED
    BY <2>1, <1>3, CalledTrue
<1>5. /\ StackIs(stack') /\ stack' # <<>> /\ Last(stack').todo = Rules[item.arg]
      /\ Len(stack') = Len(stack) + 1
  <2>1. PICK f : f = Frame(item.arg, LocalFollow(rest))
    OBVIOUS
  <2>2. FrameTrue(f) /\ f.todo = Rules[item.arg] /\ f.rule = item.arg
    BY <2>1, NewFrame
  <2>3. Waits(Last(stack).todo, f.rule)
    BY <2>2, <1>1 DEF Waits, frame, item
  <2>4. Good(Len(stack) + 1, f.todo)
    BY <2>2, <1>4 DEF Goes
  <2>5. stack' = Append(stack, f)
    BY <2>1, <1>1
  <2> QED
    BY <2>2, <2>3, <2>4, <2>5, <1>2, StackCalls
<1>6. LexTrue' /\ ShapeTrue' /\ ReportsTrue' /\ ExceptionTrue' /\ (Fresh => Fresh')
  <2>1. errorRecovery' \in BOOLEAN
    BY <1>1 DEF FrontTrue, ShapeTrue
  <2> QED
    BY <2>1, <1>1, <1>5, MovedOn
<1>7. ~errorRecovery' => Fresh' \/ Committed'
  <2> SUFFICES ASSUME ~errorRecovery PROVE Fresh' \/ Committed'
    BY <1>1
  <2>1. Fresh \/ Committed
    BY <1>1 DEF FrontTrue, RecoveryTrue, Parsing, EndsNow
  <2>2. frame'.todo = Rules[item.arg]
    BY <1>5 DEF frame
  <2> QED
    BY <2>1, <2>2, <1>1, <1>6, CommittedCalls
<1>8. Calm(Last(stack').todo)
  BY <1>4, <1>5 DEF Goes
<1>9. RecoveryTrue'
  BY <1>7, <1>8, CalmRecovers
<1> QED
  BY <1>6, <1>9 DEF FrontTrue

(* The running rule goes on with what a choice of its says.                 *)
LEMMA GoneOn ==
  ASSUME FrontTrue, Parsing, NEW todo, Good(Len(stack), todo), Go(todo),
         UNCHANGED <<input, tokens, lexErrors, phase, p, exception, lastErrorIndex, reports,
                     scopes>>,
         errorRecovery' \in BOOLEAN
  PROVE  /\ LexTrue' /\ ShapeTrue' /\ ReportsTrue' /\ ExceptionTrue' /\ (Fresh => Fresh')
         /\ Last(stack').todo = todo /\ frame'.todo = todo
<1>1. StackIs(stack) /\ stack # <<>>
  BY ParsingTrue
<1>2. stack' = Replaced(stack, [Last(stack) EXCEPT !.todo = todo])
  BY DEF Go, frame
<1>3. StackIs(stack') /\ stack' # <<>> /\ Last(stack').todo = todo
  BY <1>1, <1>2, GoTrue
<1> QED
  BY <1>3, MovedOn DEF frame

LEMMA SeqOfTodo ==
  ASSUME NEW i \in Nat, i > 0, NEW todo, Good(i, todo)
  PROVE  IsSeq(todo)
<1>1. CASE i = 1
  <2>1. \A a, b, c : IsSeq(<<>>) /\ IsSeq(<<a>>) /\ IsSeq(<<a, b>>) /\ IsSeq(<<a, b, c>>)
    <3>1. ASSUME NEW a, NEW b, NEW c
          PROVE  IsSeq(<<>>) /\ IsSeq(<<a>>) /\ IsSeq(<<a, b>>) /\ IsSeq(<<a, b, c>>)
      <4>1. a \in {a, b, c} /\ b \in {a, b, c} /\ c \in {a, b, c}
        OBVIOUS
      <4>2. /\ <<>> \in Seq({a, b, c}) /\ <<a>> \in Seq({a, b, c}) /\ <<a, b>> \in Seq({a, b, c})
            /\ <<a, b, c>> \in Seq({a, b, c})
        BY <4>1, Tuples
      <4> QED
        BY <4>2 DEF IsSeq
    <3> QED
      BY <3>1
  <2>2. IsSeq(<<>>) /\ IsSeq(EndTodo) /\ IsSeq(StatementsTodo) /\ IsSeq(StatementAheadTodo)
    BY <2>1 DEF EndTodo, StatementsTodo, StatementAheadTodo
  <2> QED
    BY <1>1, <2>2 DEF Good, ProgramTodo
<1>2. CASE i > 1
  <2>1. todo \in Seq(Legal) \/ todo \in {StatementTodo, ReturnTodo, Tail(ReturnTodo)}
    BY <1>2 DEF Good, TodoTrue
  <2>2. IsSeq(ReturnTodo) /\ IsSeq(Tail(ReturnTodo))
    BY ReturnIs, HeadTailProperties DEF IsSeq
  <2>3. IsSeq(StatementTodo)
    <3>1. PICK a : StatementTodo = <<a>>
      BY DEF StatementTodo
    <3>2. <<a>> \in Seq({a})
      BY Tuples
    <3> QED
      BY <3>1, <3>2 DEF IsSeq
  <2> QED
    BY <2>1, <2>2, <2>3 DEF IsSeq
<1> QED
  BY <1>1, <1>2

LEMMA HeadOfConcat ==
  ASSUME NEW a, NEW s, IsSeq(s)
  PROVE  <<a>> \o s # <<>> /\ Head(<<a>> \o s) = a
<1>1. PICK S : s \in Seq(S)
  BY DEF IsSeq
<1> DEFINE T == S \union {a}
<1>2. s \in Seq(T) /\ a \in T
  BY <1>1, SeqMonotonic
<1> HIDE DEF T
<1>3. <<a>> \in Seq(T) /\ Len(<<a>>) = 1 /\ <<a>>[1] = a
  BY <1>2
<1>4. PICK t : t = <<a>> \o s
  OBVIOUS
<1>5. t \in Seq(T) /\ Len(t) = 1 + Len(s) /\ Len(s) \in Nat /\ t[1] = a
  BY <1>2, <1>3, <1>4, ConcatProperties
<1>6. t # <<>> /\ Head(t) = t[1]
  BY <1>5
<1> QED
  BY <1>4, <1>5, <1>6

LEMMA EnterOptionTrue ==
  ASSUME FrontTrue, EnterOption
  PROVE  FrontTrue'
<1>1. /\ Parsing /\ frame.todo # <<>> /\ item.op \in {"opt", "star"}
      /\ Go(IF LTType(tokens, p, 1) \notin First(item.arg) THEN rest
            ELSE item.arg \o (IF item.op = "opt" THEN rest ELSE frame.todo))
      /\ UNCHANGED <<input, tokens, lexErrors, phase, p, exception, newest, errorRecovery,
                     lastErrorIndex, reports, scopes>>
  BY DEF EnterOption, At
<1>2. LeadsOn(Len(stack), frame.todo) /\ Len(stack) \in Nat /\ Len(stack) > 0
  BY <1>1, ParsingTrue
<1>3. PICK todo : todo = IF LTType(tokens, p, 1) \notin First(item.arg) THEN rest
                         ELSE item.arg \o (IF item.op = "opt" THEN rest ELSE frame.todo)
  OBVIOUS
<1>4. Good(Len(stack), rest) /\ Calm(rest)
  BY <1>1, <1>2 DEF LeadsOn, item, rest
<1>5. /\ item.op = "opt" => Goes(Len(stack), item.arg \o rest)
      /\ item.op = "star" => Goes(Len(stack), item.arg \o frame.todo)
  BY <1>2 DEF LeadsOn, item, rest
<1>6. Good(Len(stack), todo) /\ Calm(todo)
  BY <1>1, <1>3, <1>4, <1>5 DEF Goes
<1>7. /\ LexTrue' /\ ShapeTrue' /\ ReportsTrue' /\ ExceptionTrue' /\ (Fresh => Fresh')
      /\ Last(stack').todo = todo /\ frame'.todo = todo
  <2>1. Go(todo)
    BY <1>1, <1>3
  <2>2. errorRecovery' \in BOOLEAN
    BY <1>1 DEF FrontTrue, ShapeTrue
  <2> QED
    BY <2>1, <2>2, <1>1, <1>6, GoneOn
<1>8. ~errorRecovery' => Fresh' \/ Committed'
  <2> SUFFICES ASSUME ~errorRecovery PROVE Fresh' \/ Committed'
    BY <1>1
  <2>1. Fresh \/ Committed
    BY <1>1 DEF FrontTrue, RecoveryTrue, Parsing, EndsNow
  <2>2. CASE Fresh
    BY <2>2, <1>7
  <2>3. CASE Committed
    <3>1. LTType(tokens, p, 1) = "var" /\ item = Opt(<<Tok("var")>>)
      BY <2>3, <1>1 DEF Committed
    <3>2. item.op = "opt" /\ item.arg = <<Tok("var")>>
      BY <3>1 DEF Opt, Item
    <3>3. todo = <<Tok("var")>> \o rest
      BY <3>1, <3>2, <1>3, FirstAssumption
    <3>4. IsSeq(rest)
      BY <1>2, <1>4, SeqOfTodo
    <3>5. todo # <<>> /\ Head(todo) = Tok("var")
      BY <3>3, <3>4, HeadOfConcat
    <3>6. Tok("var").op = "tok" /\ Tok("var").arg = "var"
      BY DEF Tok, Item
    <3>7. frame'.todo # <<>> /\ item'.op = "tok" /\ item'.arg = "var"
      BY <3>5, <3>6, <1>7 DEF item
    <3>8. LTType(tokens, p, 1)' = "var"
      BY <3>1, <1>1 DEF LTType
    <3> QED
      BY <3>7, <3>8 DEF Committed
  <2> QED
    BY <2>1, <2>2, <2>3
<1>9. RecoveryTrue'
  <2>1. Calm(Last(stack').todo)
    BY <1>6, <1>7
  <2> QED
    BY <2>1, <1>8, CalmRecovers
<1> QED
  BY <1>7, <1>9 DEF FrontTrue

LEMMA EnterPredicateTrue ==
  ASSUME FrontTrue, EnterPredicate
  PROVE  FrontTrue'
<1>1. /\ Parsing /\ frame.todo # <<>> /\ item.op = "pred"
      /\ UNCHANGED <<input, tokens, lexErrors, phase, p, exception, newest, lastErrorIndex,
                     reports, scopes>>
  BY DEF EnterPredicate, At
<1>2. PICK todo \in {rest, item.arg \o rest} : Go(todo)
  BY DEF EnterPredicate
<1>3. LeadsOn(Len(stack), frame.todo)
  BY <1>1, ParsingTrue
<1>4. Good(Len(stack), todo) /\ Calm(todo)
  BY <1>1, <1>2, <1>3 DEF LeadsOn, Goes, item, rest
<1>5. ~errorRecovery
  BY <1>1 DEF FrontTrue, RecoveryTrue, Parsing
<1>6. ~errorRecovery' /\ errorRecovery' \in BOOLEAN
  BY <1>5 DEF EnterPredicate, PredicateRan, FrontTrue, ShapeTrue
<1>7. /\ LexTrue' /\ ShapeTrue' /\ ReportsTrue' /\ ExceptionTrue' /\ (Fresh => Fresh')
      /\ Last(stack').todo = todo
  BY <1>1, <1>2, <1>4, <1>6, GoneOn
<1>8. Fresh
  BY <1>1, <1>5, FreshUnlessCommitted
<1>9. RecoveryTrue'
  <2>1. Calm(Last(stack').todo)
    BY <1>4, <1>7
  <2> QED
    BY <2>1, <1>7, <1>8, CalmRecovers
<1> QED
  BY <1>7, <1>9 DEF FrontTrue

(* The alternative predicted is one that fits.                              *)
LEMMA PredictTrue ==
  ASSUME NEW ts, NEW q, NEW alts, DOMAIN alts \subseteq Nat, predict(ts, q, alts) # 0
  PROVE  predict(ts, q, alts) \in LL1(alts, LTType(ts, q, 1))
<1> DEFINE fits == LL1(alts, LTType(ts, q, 1))
<1>1. fits \in SUBSET Nat
  BY DEF LL1
<1>2. fits # {} /\ predict(ts, q, alts) = CHOOSE a \in fits : \A b \in fits : a <= b
  BY DEF predict
<1> HIDE DEF fits
<1>3. \E a \in fits : \A b \in fits : a <= b
  BY <1>1, <1>2, Scan!Least
<1>4. (CHOOSE a \in fits : \A b \in fits : a <= b) \in fits
  BY <1>3
<1> QED
  BY <1>2, <1>4 DEF fits

LEMMA ChooseTrue ==
  ASSUME FrontTrue, Choose
  PROVE  FrontTrue'
<1>1. PICK a : a = predict(tokens, p, item.arg)
  OBVIOUS
<1>2. /\ Parsing /\ frame.todo # <<>> /\ item.op = "alts" /\ a # 0 /\ Go(item.arg[a] \o rest)
      /\ UNCHANGED <<input, tokens, lexErrors, phase, p, exception, newest, errorRecovery,
                     lastErrorIndex, reports, scopes>>
  BY <1>1 DEF Choose, At
<1>3. LeadsOn(Len(stack), frame.todo)
  BY <1>2, ParsingTrue
<1>4. /\ DOMAIN item.arg \subseteq Nat
      /\ \A b \in DOMAIN item.arg : Goes(Len(stack), item.arg[b] \o rest)
  BY <1>2, <1>3 DEF LeadsOn, item, rest
<1>5. a \in DOMAIN item.arg
  <2>1. a \in LL1(item.arg, LTType(tokens, p, 1))
    BY <1>1, <1>2, <1>4, PredictTrue
  <2> QED
    BY <2>1 DEF LL1
<1>6. PICK todo : todo = item.arg[a] \o rest
  OBVIOUS
<1>7. Good(Len(stack), todo) /\ Calm(todo)
  BY <1>4, <1>5, <1>6 DEF Goes
<1>8. errorRecovery' \in BOOLEAN
  BY <1>2 DEF FrontTrue, ShapeTrue
<1>9. /\ LexTrue' /\ ShapeTrue' /\ ReportsTrue' /\ ExceptionTrue' /\ (Fresh => Fresh')
      /\ Last(stack').todo = todo
  <2>1. Go(todo)
    BY <1>2, <1>6
  <2> QED
    BY <2>1, <1>2, <1>7, <1>8, GoneOn
<1>10. ~errorRecovery' => Fresh'
  BY <1>2, <1>9, FreshUnlessCommitted
<1>11. RecoveryTrue'
  <2>1. Calm(Last(stack').todo)
    BY <1>7, <1>9
  <2> QED
    BY <2>1, <1>10, CalmRecovers
<1> QED
  BY <1>9, <1>11 DEF FrontTrue

LEMMA PredictStatementTrue ==
  ASSUME NEW ts, NEW q, predictStatement(ts, q) # 0
  PROVE  /\ predictStatement(ts, q) \in 1..14
         /\ LTType(ts, q, 1) = "ID" => predictStatement(ts, q) \in {1, 5}
         /\ LTType(ts, q, 1) = "var" => predictStatement(ts, q) \in {3, 4, 6}
         /\ predictStatement(ts, q) = 13 => LTType(ts, q, 1) = "return"
<1>1. CASE LTType(ts, q, 1) = "ID"
  <2>1. predictStatement(ts, q) = IF synpred(ts, q, TargetAssigned) THEN 1 ELSE 5
    BY <1>1, Zenon DEF predictStatement, StatementBy
  <2> QED
    BY <2>1, <1>1
<1>2. CASE LTType(ts, q, 1) = "var"
  <2>1. predictStatement(ts, q) = IF synpred(ts, q, FunctionStarts) THEN 3
                                  ELSE IF synpred(ts, q, VariableDefined) THEN 4 ELSE 6
    BY <1>2, Zenon DEF predictStatement, StatementBy
  <2> QED
    BY <2>1, <1>2
<1>3. CASE LTType(ts, q, 1) \notin {"ID", "var"}
  <2>1. predictStatement(ts, q) = predict(ts, q, StatementAlts)
    BY <1>3, Zenon DEF predictStatement, StatementBy
  <2>2. DOMAIN StatementAlts = 1..14 /\ StatementAlts[13] # <<>>
    <3>1. DOMAIN StatementAlts = 1..14
      BY DEF StatementAlts
    <3> QED
      BY <3>1, ReturnIs DEF ReturnTodo
  <2>3. predict(ts, q, StatementAlts) \in LL1(StatementAlts, LTType(ts, q, 1))
    <3>1. DOMAIN StatementAlts \subseteq Nat
      BY <2>2
    <3> QED
      BY <2>1, <3>1, PredictTrue
  <2>4. predict(ts, q, StatementAlts) \in 1..14
    BY <2>2, <2>3 DEF LL1
  <2>5. ASSUME predict(ts, q, StatementAlts) = 13 PROVE LTType(ts, q, 1) = "return"
    <3>1. 13 \in LL1(StatementAlts, LTType(ts, q, 1))
      BY <2>3, <2>5
    <3>2. LTType(ts, q, 1) \in First(StatementAlts[13])
      BY <3>1, <2>2 DEF LL1
    <3> QED
      BY <3>2, FirstAssumption
  <2> QED
    BY <2>1, <2>4, <2>5, <1>3
<1> QED
  BY <1>1, <1>2, <1>3

LEMMA ChooseStatementTrue ==
  ASSUME FrontTrue, ChooseStatement
  PROVE  FrontTrue'
<1> DEFINE la == LTType(tokens, p, 1)
<1>1. PICK a : a = predictStatement(tokens, p)
  OBVIOUS
<1>2. /\ Parsing /\ frame.todo # <<>> /\ item.op = "statement" /\ a # 0 /\ Go(item.arg[a] \o rest)
      /\ UNCHANGED <<input, tokens, lexErrors, phase, p, exception, newest, lastErrorIndex,
                     reports, scopes>>
  BY <1>1 DEF ChooseStatement, At
<1>3. (CASE la = "ID"  -> PredicateRan(TargetAssigned)
         [] la = "var" -> errorRecovery' = FALSE
         [] OTHER -> UNCHANGED errorRecovery)
  BY DEF ChooseStatement
<1>4. /\ la \notin {"ID", "var"} => errorRecovery' = errorRecovery
      /\ errorRecovery' \in BOOLEAN
  <2>1. errorRecovery \in BOOLEAN
    BY DEF FrontTrue, ShapeTrue
  <2>2. CASE la = "ID"
    <3>1. PredicateRan(TargetAssigned)
      BY <1>3, <2>2, Zenon
    <3> QED
      BY <3>1, <2>1, <2>2 DEF PredicateRan
  <2>3. CASE la = "var"
    <3>1. errorRecovery' = FALSE
      BY <1>3, <2>3, Zenon
    <3> QED
      BY <3>1, <2>3
  <2>4. CASE la # "ID" /\ la # "var"
    <3>1. UNCHANGED errorRecovery
      BY <1>3, <2>4, Zenon
    <3> QED
      BY <3>1, <2>1
  <2> QED
    BY <2>2, <2>3, <2>4
<1>5. /\ a \in 1..14 /\ (la = "ID" => a \in {1, 5}) /\ (la = "var" => a \in {3, 4, 6})
      /\ a = 13 => la = "return"
  BY <1>1, <1>2, PredictStatementTrue
<1>6. LeadsOn(Len(stack), frame.todo)
  BY <1>2, ParsingTrue
<1>7. /\ Good(Len(stack), item.arg[a] \o rest) /\ item.arg[a] \o rest = StatementAlts[a]
      /\ a # 13 => Calm(item.arg[a] \o rest)
  BY <1>2, <1>5, <1>6 DEF LeadsOn, item, rest
<1>8. PICK todo : todo = StatementAlts[a]
  OBVIOUS
<1>9. Good(Len(stack), todo) /\ (a # 13 => Calm(todo)) /\ Go(todo)
  BY <1>2, <1>7, <1>8
<1>10. /\ LexTrue' /\ ShapeTrue' /\ ReportsTrue' /\ ExceptionTrue' /\ (Fresh => Fresh')
       /\ Last(stack').todo = todo /\ frame'.todo = todo
  BY <1>2, <1>4, <1>9, GoneOn
<1>11. la' = la
  BY <1>2 DEF LTType
<1> HIDE DEF la
<1>12. ~errorRecovery' => Fresh' \/ Committed'
  <2>1. \A r, as : Ref(r, as).op = "ref" /\ Ref(r, as).arg = r
    BY DEF Ref, Item
  <2>2. item' = Head(todo)
    BY <1>10 DEF item
  <2>3. CASE la = "ID"
    <3>1. Begins(todo, Ref("assignment", <<"pass">>))
            \/ Begins(todo, Ref("rtTypeAtom", <<"assertCall", "need", "tree">>))
      BY <2>3, <1>5, <1>8, StatementBeginnings
    <3>2. frame'.todo # <<>> /\ item'.op = "ref" /\ item'.arg \in {"assignment", "rtTypeAtom"}
      BY <3>1, <2>1, <2>2, <1>10 DEF Begins
    <3>3. LTType(tokens, p, 1)' = "ID"
      BY <2>3, <1>11 DEF la
    <3> QED
      BY <3>2, <3>3 DEF Committed
  <2>4. CASE la = "var"
    <3>1. \/ Begins(todo, Ref("funcDefine", <<"pass">>))
          \/ Begins(todo, Ref("varDefine", <<"pass">>))
          \/ Begins(todo, Ref("varDeclares", <<>>))
      BY <2>4, <1>5, <1>8, StatementBeginnings
    <3>2. frame'.todo # <<>> /\ item'.op = "ref"
          /\ item'.arg \in {"funcDefine", "varDefine", "varDeclares"}
      BY <3>1, <2>1, <2>2, <1>10 DEF Begins
    <3>3. LTType(tokens, p, 1)' = "var"
      BY <2>4, <1>11 DEF la
    <3> QED
      BY <3>2, <3>3 DEF Committed
  <2>5. CASE la \notin {"ID", "var"}
    BY <2>5, <1>2, <1>4, <1>10, FreshUnlessCommitted
  <2> QED
    BY <2>3, <2>4, <2>5
<1>13. RecoveryTrue'
  <2>1. CASE a # 13
    <3>1. Calm(Last(stack').todo)
      BY <2>1, <1>9, <1>10
    <3> QED
      BY <3>1, <1>12, CalmRecovers
  <2>2. CASE a = 13
    <3>1. LTType(tokens, p, 1)' = "return"
      BY <2>2, <1>5, <1>11 DEF la
    <3>2. todo = ReturnTodo
      BY <2>2, <1>8 DEF ReturnTodo
    <3>3. item'.op = "tok"
      BY <3>2, <1>10, ReturnIs DEF item
    <3> QED
      BY <3>1, <3>3, <1>12 DEF RecoveryTrue
  <2> QED
    BY <2>1, <2>2
<1> QED
  BY <1>10, <1>13 DEF FrontTrue

(* A rule is over.                                                          *)
LEMMA EndRuleTrue ==
  ASSUME FrontTrue, EndRule
  PROVE  FrontTrue'
<1>1. /\ Parsing /\ frame.todo = <<>> /\ Return
      /\ UNCHANGED <<input, tokens, lexErrors, p, exception, newest, errorRecovery,
                     lastErrorIndex, reports>>
  BY DEF EndRule
<1>2. /\ phase = "parse" /\ ~exception /\ StackIs(stack) /\ stack # <<>> /\ scopes \in Seq(Nat)
      /\ p \in Nat
  BY <1>1, ParsingTrue
<1>3. /\ StackIs(stack') /\ scopes' \in Seq(Nat) /\ phase' \in Onward \union {"done"}
      /\ phase' # "done" => stack' # <<>> /\ Calm(Last(stack').todo)
  BY <1>1, <1>2, ReturnTrue
<1>4. phase' \in Phases /\ phase' # "lex"
  BY <1>3 DEF Onward, Phases
<1>5. LexTrue'
  BY <1>1, <1>2, LexSame DEF FrontTrue
<1>6. ShapeTrue'
  BY <1>1, <1>3, <1>4 DEF FrontTrue, ShapeTrue
<1>7. ReportsTrue'
  BY <1>1, <1>2, ReportsKept DEF FrontTrue
<1>8. ExceptionTrue'
  BY <1>1, <1>2 DEF ExceptionTrue
<1>9. RecoveryTrue'
  <2>1. CASE phase' = "done"
    BY <2>1 DEF RecoveryTrue
  <2>2. CASE phase' # "done"
    <3>1. Len(stack) # 1
      BY <2>2, <1>1 DEF Return
    <3>2. ~errorRecovery => Fresh
      BY <3>1, <1>1, <1>2 DEF FrontTrue, RecoveryTrue, Committed, EndsNow
    <3>3. ~errorRecovery' => Fresh'
      BY <3>2, <1>1, <1>2, FreshKept DEF FrontTrue
    <3> QED
      BY <2>2, <3>3, <1>3, CalmRecovers
  <2> QED
    BY <2>1, <2>2
<1> QED
  BY <1>5, <1>6, <1>7, <1>8, <1>9 DEF FrontTrue

(* A rule has failed: the exception is reported, and what cannot follow is  *)
(* skipped.                                                                 *)
LEMMA FailRuleTrue ==
  ASSUME FrontTrue, FailRule
  PROVE  FrontTrue'
<1> DEFINE from == resyncFrom(tokens, p, lastErrorIndex)
<1>1. /\ phase = "parse" /\ exception /\ reportError(newest) /\ lastErrorIndex' = from
      /\ p' = consumeUntilSet(tokens, from, combineFollows(stack)) /\ exception' = FALSE
      /\ Return \/ SetDisplayed
      /\ UNCHANGED <<input, tokens, lexErrors, newest>>
  BY DEF FailRule
<1>2. /\ StackIs(stack) /\ stack # <<>> /\ scopes \in Seq(Nat) /\ p \in 0..Len(tokens)
      /\ lastErrorIndex \in -1..Len(tokens) /\ errorRecovery \in BOOLEAN
  BY <1>1 DEF FrontTrue, ShapeTrue
<1>3. tokens \in Seq(Tokens) /\ Len(tokens) \in Nat
  BY DEF FrontTrue, LexTrue
<1>4. from \in p..Len(tokens)
  <2>1. consumeToken(tokens, p) \in p..Len(tokens)
    BY <1>2, <1>3, TokenConsumed
  <2> QED
    BY <2>1, <1>2, <1>3 DEF resyncFrom
<1> HIDE DEF from
<1>5. p' \in from..Len(tokens)
  <2>1. from \in 0..Len(tokens)
    BY <1>2, <1>3, <1>4
  <2> QED
    BY <2>1, <1>1, <1>3, ResumesAhead
<1>6. p' \in p..Len(tokens) /\ p \in Nat /\ p' \in Nat /\ p' >= p
  BY <1>2, <1>3, <1>4, <1>5
<1>7. LexTrue'
  BY <1>1, LexSame DEF FrontTrue
<1>8. ReportsTrue' /\ errorRecovery'
  <2>1. /\ ReportTrue(displayRecognitionError(newest)) /\ newest.index = p
        /\ ~errorRecovery => Fresh
    BY <1>1 DEF FrontTrue, ExceptionTrue
  <2>2. displayRecognitionError(newest).index = newest.index
    BY DEF displayRecognitionError
  <2> QED
    BY <2>1, <2>2, <1>1, <1>2, <1>6, ReportsMade DEF FrontTrue
<1>9. errorRecovery' = TRUE
  BY <1>1 DEF reportError
<1>10. /\ StackIs(stack') /\ scopes' \in Seq(Nat) /\ phase' \in Onward \union {"done"}
       /\ phase' = "parse" => stack' # <<>> /\ Calm(Last(stack').todo)
  <2>1. CASE Return
    BY <2>1, <1>1, <1>2, ReturnTrue
  <2>2. CASE SetDisplayed
    BY <2>2, <1>2 DEF SetDisplayed, Onward
  <2> QED
    BY <2>1, <2>2, <1>1
<1>11. phase' \in Phases /\ phase' # "lex"
  BY <1>10 DEF Onward, Phases
<1>12. ShapeTrue'
  <2>1. p' \in 0..Len(tokens') /\ lastErrorIndex' \in -1..Len(tokens')
    BY <1>1, <1>2, <1>3, <1>4, <1>6
  <2> QED
    BY <2>1, <1>1, <1>9, <1>10, <1>11 DEF ShapeTrue
<1>13. ExceptionTrue'
  BY <1>1 DEF ExceptionTrue
<1>14. RecoveryTrue'
  <2>1. CASE phase' = "parse"
    BY <2>1, <1>9, <1>10, CalmRecovers
  <2>2. CASE phase' # "parse"
    BY <2>2 DEF RecoveryTrue
  <2> QED
    BY <2>1, <2>2
<1> QED
  BY <1>7, <1>8, <1>12, <1>13, <1>14 DEF FrontTrue

-----------------------------------------------------------------------------
(* The lexer, and the steps between it and the parser.                      *)

LEMMA LexerTrue ==
  ASSUME FrontTrue, NextToken
  PROVE  FrontTrue'
<1>1. /\ phase = "lex"
      /\ UNCHANGED <<phase, p, stack, exception, newest, errorRecovery, lastErrorIndex, reports,
                     scopes>>
  BY DEF NextToken, parserVars
<1>2. LexTrue'
  BY NextTokenTrue DEF FrontTrue
<1>3. ShapeTrue'
  <2>1. 0 \in 0..Len(tokens') /\ -1 \in -1..Len(tokens')
    BY <1>2 DEF LexTrue
  <2> QED
    BY <2>1, <1>1 DEF FrontTrue, ShapeTrue
<1>4. reports' = <<>> /\ Len(reports') = 0 /\ DOMAIN reports' = {} /\ IsSeq(reports')
  <2>1. reports' = <<>>
    BY <1>1 DEF FrontTrue, ShapeTrue
  <2> QED
    BY <2>1, EmptySeq DEF IsSeq
<1>5. ReportsTrue'
  BY <1>4 DEF ReportsTrue, ReportedOnce
<1>6. ExceptionTrue' /\ RecoveryTrue'
  BY <1>1 DEF FrontTrue, ShapeTrue, ExceptionTrue, RecoveryTrue
<1> QED
  BY <1>2, <1>3, <1>5, <1>6 DEF FrontTrue

LEMMA StartProgramTrue ==
  ASSUME FrontTrue, StartProgram
  PROVE  FrontTrue'
<1> DEFINE f == Frame("program", {})
<1>1. /\ phase = "lex" /\ AtEnd(input) /\ phase' = "parse" /\ stack' = <<f>> /\ scopes' = <<1>>
      /\ UNCHANGED <<input, tokens, lexErrors, p, exception, newest, errorRecovery,
                     lastErrorIndex, reports>>
  BY DEF StartProgram
<1>2. FrameTrue(f) /\ f.todo = StatementsTodo
  BY NewFrame, ProgramRules
<1> HIDE DEF f
<1>3. IsSeq(<<f>>) /\ Len(<<f>>) = 1 /\ <<f>>[1] = f /\ <<f>> # <<>> /\ Last(<<f>>) = f
  <2>1. <<f>> \in Seq({f})
    OBVIOUS
  <2> QED
    BY <2>1 DEF IsSeq, Last
<1>4. StackIs(<<f>>)
  BY <1>2, <1>3 DEF StackIs, Good, ProgramTodo
<1>5. LexTrue'
  BY <1>1 DEF FrontTrue, LexTrue
<1>6. ShapeTrue'
  BY <1>1, <1>3, <1>4 DEF FrontTrue, ShapeTrue, Phases
<1>7. /\ reports' = <<>> /\ Len(reports') = 0 /\ DOMAIN reports' = {} /\ IsSeq(reports')
      /\ ~exception'
  <2>1. reports' = <<>> /\ ~exception'
    BY <1>1 DEF FrontTrue, ShapeTrue
  <2> QED
    BY <2>1, EmptySeq DEF IsSeq
<1>8. ReportsTrue' /\ Fresh'
  BY <1>7 DEF ReportsTrue, ReportedOnce, Fresh
<1>9. ExceptionTrue'
  BY <1>7 DEF ExceptionTrue
<1>10. RecoveryTrue'
  <2>1. StatementsTodo # <<>> /\ Head(StatementsTodo).op = "star"
    BY TwoItems DEF StatementsTodo, Star, Item
  <2>2. Head(ReturnTodo).op = "tok"
    BY ReturnIs
  <2>3. Calm(Last(stack').todo)
    BY <2>1, <2>2, <1>1, <1>2, <1>3 DEF Calm
  <2> QED
    BY <2>3, <1>8, CalmRecovers
<1> QED
  BY <1>5, <1>6, <1>8, <1>9, <1>10 DEF FrontTrue

LEMMA InitTrue ==
  ASSUME Init
  PROVE  FrontTrue
<1>1. PICK text \in Texts : input = NewInput(text)
  BY DEF Init
<1>2. text \in Seq(Chars)
  BY TextsAssumption DEF Chars
<1>3. /\ tokens = <<>> /\ lexErrors = {} /\ phase = "lex" /\ p = 0 /\ stack = <<>>
      /\ exception = FALSE /\ errorRecovery = FALSE /\ lastErrorIndex = -1 /\ reports = <<>>
      /\ scopes = <<>>
  BY DEF Init
<1>4. \A S : <<>> \in Seq(S)
  BY EmptySeq
<1>5. LexTrue
  BY <1>1, <1>2, <1>3, <1>4, NewInputTrue DEF LexTrue
<1>6. StackIs(<<>>) /\ IsSeq(<<>>)
  BY <1>4 DEF StackIs, IsSeq
<1>7. ShapeTrue
  <2>1. Len(tokens) = 0 /\ p \in 0..Len(tokens) /\ lastErrorIndex \in -1..Len(tokens)
    BY <1>3
  <2>2. scopes \in Seq(Nat) /\ StackIs(stack)
    BY <1>3, <1>4, <1>6
  <2>3. phase \in Phases /\ exception \in BOOLEAN /\ errorRecovery \in BOOLEAN
    BY <1>3 DEF Phases
  <2> QED
    BY <2>1, <2>2, <2>3, <1>3 DEF ShapeTrue
<1>8. ReportsTrue
  BY <1>3, <1>6 DEF ReportsTrue, ReportedOnce
<1> QED
  BY <1>3, <1>5, <1>7, <1>8 DEF FrontTrue, ExceptionTrue, RecoveryTrue

LEMMA NextTrue ==
  ASSUME FrontTrue, [Step \/ Stopped]_vars
  PROVE  FrontTrue'
<1>1. CASE NextToken
  BY <1>1, LexerTrue
<1>2. CASE StartProgram
  BY <1>2, StartProgramTrue
<1>3. CASE ParseStep
  BY <1>3, MatchTokenTrue, DeleteTokenTrue, InsertTokenTrue, MismatchTrue, MatchSetTrue,
     MismatchSetTrue, CallRuleTrue, RunActionTrue, EnterOptionTrue, EnterPredicateTrue,
     ChooseTrue, ChooseStatementTrue, NoViableAltTrue, EndRuleTrue, FailRuleTrue DEF ParseStep
<1>4. CASE UNCHANGED vars
  <2>1. UNCHANGED <<input, tokens, lexErrors, phase, p, stack, exception, newest, errorRecovery,
                    lastErrorIndex, reports, scopes>>
    BY <1>4 DEF vars, parserVars
  <2>2. frame' = frame /\ item' = item /\ LTType(tokens, p, 1)' = LTType(tokens, p, 1)
        /\ LastLine' = LastLine
    BY <2>1 DEF frame, item, LastLine
  <2>3. Committed' = Committed /\ EndsNow' = EndsNow /\ Fresh' = Fresh
    BY <2>1, <2>2 DEF Committed, EndsNow, Fresh, frame, item
  <2>4. LexTrue' = LexTrue /\ ShapeTrue' = ShapeTrue
    BY <2>1 DEF LexTrue, ShapeTrue
  <2>5. ReportsTrue' = ReportsTrue /\ ExceptionTrue' = ExceptionTrue
    BY <2>1, <2>2, <2>3 DEF ReportsTrue, ReportedOnce, ExceptionTrue, ReportTrue
  <2>6. RecoveryTrue' = RecoveryTrue
    BY <2>1, <2>2, <2>3 DEF RecoveryTrue, frame, item
  <2> QED
    BY <2>4, <2>5, <2>6 DEF FrontTrue
<1> QED
  BY <1>1, <1>2, <1>3, <1>4 DEF Step, Stopped

(* Loading keeps the inductive invariant.                                   *)
THEOREM FrontAlwaysTrue == Spec => []FrontTrue
<1>1. Init => FrontTrue
  BY InitTrue
<1>2. FrontTrue /\ [Step \/ Stopped]_vars => FrontTrue'
  BY NextTrue
<1> QED
  BY <1>1, <1>2, PTL DEF Spec

-----------------------------------------------------------------------------
(* What it shows.                                                           *)

LEMMA ShapeShows ==
  ASSUME FrontTrue
  PROVE  TypeOK
<1>1. /\ input.nextChar \in 0..Len(input.text) /\ tokens \in Seq(Tokens)
  BY DEF FrontTrue, LexTrue, InputTrue
<1>2. /\ phase \in Phases /\ p \in 0..Len(tokens) /\ lastErrorIndex \in -1..Len(tokens)
      /\ {exception, errorRecovery} \subseteq BOOLEAN /\ scopes \in Seq(Nat) /\ StackIs(stack)
  BY DEF FrontTrue, ShapeTrue
<1>3. DOMAIN stack = 1..Len(stack)
  BY <1>2 DEF StackIs, IsSeq
<1>4. ASSUME NEW i \in DOMAIN stack PROVE stack[i].val.kind \in Kinds
  <2>1. FrameTrue(stack[i])
    BY <1>2, <1>3 DEF StackIs
  <2>2. stack[i].val \in Values
    BY <2>1 DEF FrameTrue, Frames
  <2> QED
    BY <2>2 DEF Values
<1>5. ASSUME NEW i \in 1..(Len(stack) - 1)
      PROVE  stack[i].todo[1].op = "ref" /\ stack[i].todo[1].arg = stack[i + 1].rule
  <2>1. Waits(stack[i].todo, stack[i + 1].rule)
    BY <1>2 DEF StackIs
  <2> QED
    BY <2>1 DEF Waits
<1>6. exception => newest # NoException
  <2>1. exception => newest.type # "none"
    BY DEF FrontTrue, ExceptionTrue
  <2> QED
    BY <2>1 DEF NoException
<1> QED
  BY <1>1, <1>2, <1>4, <1>5, <1>6 DEF TypeOK

LEMMA PlacedShows ==
  ASSUME FrontTrue
  PROVE  PlacesTrue
<1>1. \A r, place : Placed(input.text, r, place) => IsPlaced(r, place)
  BY DEF Placed, IsPlaced, NewlinesTo
<1>2. tokens \in Seq(Tokens) /\ DOMAIN tokens = 1..Len(tokens)
  BY DEF FrontTrue, LexTrue
<1>3. \A i \in DOMAIN tokens : IsPlaced(tokens[i], tokens[i].start)
  BY <1>1, <1>2 DEF FrontTrue, LexTrue
<1>4. \A e \in lexErrors : IsPlaced(e, e.index)
  BY <1>1 DEF FrontTrue, LexTrue
<1>5. DOMAIN reports = 1..Len(reports)
  BY DEF FrontTrue, ReportsTrue, IsSeq
<1>6. ASSUME NEW i \in DOMAIN reports
      PROVE  IF reports[i].index < Len(tokens)
             THEN IsPlaced(reports[i], tokens[reports[i].index + 1].start)
                    /\ reports[i].source = "file"
             ELSE reports[i].line
                    = Cardinality({k \in DOMAIN input.text : input.text[k] = Newline}) + 1
  <2>1. ReportTrue(reports[i])
    BY <1>5 DEF FrontTrue, ReportsTrue
  <2> QED
    BY <2>1, <1>1 DEF ReportTrue, LastLine
<1> QED
  BY <1>3, <1>4, <1>6, ShapeShows DEF PlacesTrue

(* Whatever the file and whatever the parser predicts, the state keeps its  *)
(* shape: a rule that waits waits for the rule above it, the parser never   *)
(* passes the end of the tokens, and an exception that is outstanding was   *)
(* made (ruleEx of the generated rules, recover, the error index).          *)
THEOREM TypeCorrect == Spec => []TypeOK
<1>1. FrontTrue => TypeOK
  BY ShapeShows
<1> QED
  BY <1>1, FrontAlwaysTrue, PTL

(* Every token carries the place of its first character, every error of the *)
(* lexer its own, and every report the place of the token the parser had    *)
(* come to, whatever was dropped, made up or skipped before it (emit,       *)
(* fillExceptionData, displayRecognitionError).                             *)
THEOREM PlacesAlwaysTrue == Spec => []PlacesTrue
<1>1. FrontTrue => PlacesTrue
  BY PlacedShows
<1> QED
  BY <1>1, FrontAlwaysTrue, PTL

(* No two reports are of the same token, and each is of a later one than    *)
(* those before it: the errors that follow from an error are silent until a *)
(* token matches (m_errorRecovery of reportError and match).                *)
THEOREM NoTokenReportedTwice == Spec => []ReportedOnce
<1>1. FrontTrue => ReportedOnce
  BY DEF FrontTrue, ReportsTrue
<1> QED
  BY <1>1, FrontAlwaysTrue, PTL
===============================================================================
