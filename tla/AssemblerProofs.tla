----------------------------- MODULE AssemblerProofs ----------------------------
(***************************************************************************)
(* Proofs about Assembler, for any sources, tables of formats and sizes.     *)
(***************************************************************************)
EXTENDS Assembler, TLAPS, FiniteSetTheorems, WellFoundedInduction

\* The constants one by one.
LEMMA Sizes ==
  /\ ProgStart \in Nat /\ RomSize \in Nat /\ LabelCeiling \in Nat \ {0}
  /\ SymbolCeiling \in Nat /\ NibbleSize \in Nat \ {0} /\ ByteSize \in Nat \ {0}
  /\ AddrSize \in Nat \ {0} /\ ValueSize \in Nat \ {0} /\ ValueSize > 1
  BY AssemblerAssumption

\* Min and Max are what they are called.
LEMMA MinOf ==
  ASSUME NEW S \in SUBSET Nat, S # {}
  PROVE  Min(S) \in S /\ \A y \in S : Min(S) <= y
<1>1. PICK x \in S : \A y \in S : ~(<<y, x>> \in OpToRel(<, Nat))
  BY NatLessThanWellFounded, WFMin
<1>2. \A y \in S : x <= y
  <2> SUFFICES ASSUME NEW y \in S PROVE x <= y
    OBVIOUS
  <2>1. ~(y < x)
    BY <1>1 DEF OpToRel
  <2> QED
    BY <2>1
<1> QED
  BY <1>2 DEF Min

--------------------------------------------------------------------------------
\* The text shown at a line, and the words found in it.
LEMMA TextIsLine ==
  ASSUME IsSource(program), NEW i \in Lines, ~AfterBlank(i)
  PROVE  IsLine(Text(i))
<1> DEFINE ahead == {j \in i..Len(program) : program[j] # Blank}
<1>1. /\ program \in Seq(Range(program)) /\ Lines = 1..Len(program)
      /\ Len(program) \in Nat
  BY DEF IsSource, Lines
<1>2. CASE ahead = {}
  <2>1. Text(i) = <<>>
    BY <1>2 DEF Text
  <2>2. <<>> \in Seq(Range(<<>>)) /\ DOMAIN <<>> = {}
    OBVIOUS
  <2> QED
    BY <2>1, <2>2 DEF IsLine
<1>3. CASE ahead # {}
  <2>1. Text(i) = program[Min(ahead)]
    BY <1>3 DEF Text
  <2>2. ahead \in SUBSET Nat
    BY <1>1
  <2>3. Min(ahead) \in ahead
    BY <1>3, <2>2, MinOf
  <2>4. Min(ahead) \in Lines
    BY <1>1, <2>3
  <2> QED
    BY <2>1, <2>4 DEF IsSource, Lines
<1> QED
  BY <1>2, <1>3

\* Only the case of a word changes.
LEMMA Recased ==
  ASSUME NEW w, IsWord(w), NEW t
  PROVE  [w EXCEPT !.upper = t] = [is |-> w.is, of |-> w.of, upper |-> t]
<1>1. w \in [is : {w.is}, of : {w.of}, upper : {w.upper}]
  BY DEF IsWord
<1> QED
  BY <1>1

\* A word in capitals is a word, of the same kind.
LEMMA UpperIsWord ==
  ASSUME NEW w, IsWord(w)
  PROVE  IsWord(Upper(w)) /\ Upper(w).is = w.is /\ Upper(w).of = w.of
<1> DEFINE u == [is |-> w.is, of |-> w.of, upper |-> TRUE]
<1>2. Upper(w) = u
  BY Recased, Zenon DEF Upper
<1>3. u.is = w.is /\ u.of = w.of /\ u = [is |-> u.is, of |-> u.of, upper |-> u.upper]
  OBVIOUS
<1> HIDE DEF u
<1> QED
  BY <1>2, <1>3 DEF IsWord

\* The words c8_parse_line finds at a line with text are a line again, with one word at least.
LEMMA WordsAreLine ==
  ASSUME IsSource(program), NEW i \in Lines, Text(i) # <<>>
  PROVE  /\ IsLine(WordsOf(i)) /\ Len(WordsOf(i)) \in Nat \ {0}
         /\ DOMAIN WordsOf(i) = 1..Len(WordsOf(i))
<1>1. CASE ~AfterBlank(i)
  <2>1. WordsOf(i) = Text(i) /\ IsLine(Text(i))
    BY <1>1, TextIsLine DEF WordsOf
  <2>2. Text(i) \in Seq(Range(Text(i))) /\ Text(i) # <<>>
    BY <2>1 DEF IsLine
  <2>3. Len(Text(i)) \in Nat \ {0} /\ DOMAIN Text(i) = 1..Len(Text(i))
    BY <2>2
  <2> QED
    BY <2>1, <2>3
<1>2. CASE AfterBlank(i)
  <2> DEFINE w == IF Text(i)[1].is = "string" THEN Word("reserved", "ds") ELSE Text(i)[1]
  <2>1. WordsOf(i) = <<w>>
    BY <1>2 DEF WordsOf
  <2>2. IsWord(Text(i)[1])
    <3>1. CASE program[i] = Comment
      <4>1. Text(i) = <<Word("other", 0)>>
        BY <1>2, <3>1 DEF Text
      <4> QED
        BY <4>1 DEF IsWord, Word, WordKinds
    <3>2. CASE program[i] # Comment
      <4> DEFINE ahead == {j \in i..Len(program) : program[j] # Blank}
                 shown == IF ahead = {} THEN <<>> ELSE program[Min(ahead)]
      <4>1. Text(i) = [k \in DOMAIN shown |-> Upper(shown[k])]
        BY <1>2, <3>2 DEF Text
      <4>2. ahead # {}
        BY <4>1
      <4>3. shown = program[Min(ahead)]
        BY <4>2
      <4>4. Min(ahead) \in DOMAIN program
        <5>1. /\ program \in Seq(Range(program)) /\ DOMAIN program = 1..Len(program)
              /\ Len(program) \in Nat /\ i \in 1..Len(program)
          BY DEF IsSource, Lines
        <5>2. ahead \in SUBSET Nat
          BY <5>1
        <5>3. Min(ahead) \in ahead
          BY <4>2, <5>2, MinOf
        <5> QED
          BY <5>1, <5>3
      <4>5. IsLine(shown)
        BY <4>3, <4>4 DEF IsSource
      <4> HIDE DEF ahead, shown
      <4>6. shown \in Seq(Range(shown)) /\ DOMAIN shown = 1..Len(shown) /\ Len(shown) \in Nat
        BY <4>5 DEF IsLine
      <4>7. 1 \in DOMAIN shown
        <5>1. CASE Len(shown) = 0
          <6>1. Text(i) = [k \in {} |-> Upper(shown[k])]
            BY <4>1, <4>6, <5>1
          <6>2. Text(i) = <<>>
            BY <6>1
          <6> QED
            BY <6>2
        <5> QED
          BY <4>6, <5>1
      <4>8. Text(i)[1] = Upper(shown[1]) /\ IsWord(shown[1])
        BY <4>1, <4>5, <4>7 DEF IsLine
      <4> QED
        BY <4>8, UpperIsWord
    <3> QED
      BY <3>1, <3>2
  <2>3. IsWord(w) /\ w.is # "string"
    BY <2>2 DEF IsWord, Word, WordKinds, Reserved
  <2> HIDE DEF w
  <2>4. /\ <<w>> \in Seq(Range(<<w>>)) /\ Len(<<w>>) = 1 /\ DOMAIN <<w>> = 1..1
        /\ <<w>>[1] = w
    BY DEF Range
  <2> QED
    BY <2>1, <2>3, <2>4 DEF IsLine
<1> QED
  BY <1>1, <1>2

--------------------------------------------------------------------------------
\* The text of a label is that of a line, in capitals.
LabelTexts == {[k \in DOMAIN Text(i) |-> Upper(Text(i)[k])] : i \in Lines}

Labels  == [text : LabelTexts, byte : Nat]
Placed == [ln : Nat, at : Nat, size : {1, 2}, type : SymbolTypes, value : Nat,
           args : Seq(Symbols)]

\* The types of the variables, and what the passes rely on: every line has text once
\* the labels are found, and a symbol waits to be written while a line is parsed.
Typed ==
  /\ IsSource(program)
  /\ phase \in {"labels", "parse", "resolve", "write", "ended"}
  /\ line \in Nat \ {0} /\ word \in Nat
  /\ labels \in Seq(Labels)
  /\ symbols \in Seq(Symbols)
  /\ next \in Nat \ {0} /\ defined \in Nat /\ byte \in Nat
  /\ out \in Seq(Placed)
  /\ reported \in BOOLEAN
  /\ result \in {"running", "syntax", "undefined", "unresolved", "done"}
  /\ result = "running" <=> phase # "ended"
  /\ phase = "labels" => word = 0 /\ \A i \in 1..line - 1 : i \in Lines => Text(i) # <<>>
  /\ phase \in {"labels", "parse", "resolve"} => out = <<>>
  /\ phase \in {"parse", "resolve", "write"} => \A i \in Lines : Text(i) # <<>>
  /\ phase = "parse" /\ line \in Lines /\ word > 0 =>
       symbols # <<>> /\ WordsOf(line)[1].is # "string"

--------------------------------------------------------------------------------
\* Where c8_parse_line goes on after the word at place p, if that is valid.
Onward(ws, p) == p + Taken(ws[p], SubSeq(ws, p + 1, Len(ws)))

\* The places of the words on a line that are not valid.
Bad == {p \in DOMAIN WordsOf(line) : ~Valid(WordsOf(line)[p])}

\* From p on, whatever is skipped, c8_parse_line comes upon one of them.
Meets(ws, bad, p) ==
  \A S \in SUBSET Nat :
    p \in S /\ (\A q \in S : q \in DOMAIN ws => Onward(ws, q) \in S) => S \cap bad # {}

\* The word at p is skipped by whoever comes from two words before.
Skipped(ws, p) == p > 2 /\ Onward(ws, p - 2) = p - 1 /\ Onward(ws, p - 1) = p + 1

\* Going two words back from an invalid word leads to an invalid word again: to the
\* same one, or to one behind it that has been reported before.
ParseInv ==
  /\ reported => \/ phase = "ended" /\ result = "undefined"
                 \/ /\ phase = "parse" /\ line \in Lines /\ word > 0
                    /\ Meets(WordsOf(line), Bad, word)
  /\ phase = "parse" /\ line \in Lines /\ word \in Bad /\ Skipped(WordsOf(line), word)
       => Meets(WordsOf(line), Bad, word + 1)

\* The source does not change, nor what is seen of it.
LEMMA SameText ==
  ASSUME UNCHANGED program
  PROVE  /\ \A i : Text(i)' = Text(i) /\ WordsOf(i)' = WordsOf(i)
         /\ Lines' = Lines /\ LabelTexts' = LabelTexts /\ Labels' = Labels
<1>1. \A i : AfterBlank(i)' = AfterBlank(i)
  BY DEF AfterBlank
<1>2. \A i : Text(i)' = Text(i)
  BY <1>1 DEF Text
<1>3. Lines' = Lines
  BY DEF Lines
<1>4. \A i : WordsOf(i)' = WordsOf(i)
  BY <1>1, <1>2 DEF WordsOf
<1>5. LabelTexts' = LabelTexts
  BY <1>2, <1>3 DEF LabelTexts
<1> QED
  BY <1>2, <1>3, <1>4, <1>5 DEF Labels

\* A fresh symbol is one.
LEMMA FreshSymbols ==
  /\ Null \in Symbols
  /\ \A n : Fresh(n) \subseteq Symbols
  /\ \A t \in SymbolTypes, v \in Nat, l \in Nat : Symbol(t, v, l) \in Symbols
<1>1. \A t \in SymbolTypes, v \in Nat, l \in Nat : Symbol(t, v, l) \in Symbols
  BY DEF Symbol, Symbols
<1>2. Null \in Symbols
  BY <1>1 DEF Null, SymbolTypes
<1> QED
  BY <1>1, <1>2, SourceAssumption DEF Fresh

\* A list that one more symbol was taken for is one of symbols, and not empty.
LEMMA GrownByFresh ==
  ASSUME NEW q \in Seq(Symbols), NEW t, NEW n, NEW s \in Fresh(n), t = Append(q, s)
  PROVE  t \in Seq(Symbols) /\ t # <<>>
<1>1. s \in Symbols
  BY FreshSymbols
<1>2. Append(q, s) \in Seq(Symbols) /\ Len(Append(q, s)) = Len(q) + 1 /\ Len(q) \in Nat
  BY <1>1
<1> QED
  BY <1>2

\* c8_encode begins with everything in its type, whatever the source,
LEMMA StartTyped == IsSource(program) /\ Start => Typed
<1> SUFFICES ASSUME IsSource(program), Start PROVE Typed
  OBVIOUS
<1>1. labels \in Seq(Labels) /\ symbols \in Seq(Symbols) /\ out \in Seq(Placed)
  BY DEF Start
<1>2. /\ phase = "labels" /\ line = 1 /\ word = 0 /\ next = 1 /\ defined = 0 /\ byte = 0
      /\ out = <<>> /\ reported \in BOOLEAN /\ result = "running"
  BY DEF Start
<1>3. \A i \in 1..1 - 1 : FALSE
  OBVIOUS
<1> QED
  BY <1>1, <1>2, <1>3 DEF Typed

\* with one of the sources as well.
LEMMA InitTyped == Init => Typed
  BY StartTyped, SourceAssumption DEF Init

\* The types are kept while labels are found,
LEMMA TypedPopulate ==
  ASSUME Typed, NoValidLines \/ PopulateLine \/ Populated
  PROVE  Typed'
<1> USE DEF Typed
<1>1. /\ UNCHANGED program /\ Lines' = Lines /\ Labels' = Labels
      /\ \A i : Text(i)' = Text(i) /\ WordsOf(i)' = WordsOf(i)
  <2>1. UNCHANGED program
    BY DEF NoValidLines, PopulateLine, Populated
  <2> QED
    BY <2>1, SameText
<1>2. CASE NoValidLines
  BY <1>1, <1>2 DEF NoValidLines, Return
<1>3. CASE PopulateLine
  <2>1. labels' \in Seq(Labels)
    <3>1. ASSUME AddLabel(Text(line)) PROVE labels' \in Seq(Labels)
      <4>1. [text |-> [k \in DOMAIN Text(line) |-> Upper(Text(line)[k])], byte |-> 0]
              \in Labels
        BY <1>3 DEF PopulateLine, Labels, LabelTexts
      <4> QED
        BY <3>1, <4>1 DEF AddLabel
    <3> QED
      BY <1>3, <3>1 DEF PopulateLine
  <2>2. /\ phase = "labels" /\ result = "running"
        /\ \/ Return("undefined") \/ Return("syntax")
           \/ line' = line + 1 /\ Text(line) # <<>> /\ UNCHANGED <<phase, result>>
        /\ line' = line \/ line' = line + 1
        /\ UNCHANGED <<word, symbols, next, defined, byte, out, reported>>
    BY <1>3 DEF PopulateLine
  <2>3. CASE Return("undefined") \/ Return("syntax")
    BY <1>1, <2>1, <2>2, <2>3 DEF Return
  <2>4. CASE line' = line + 1 /\ Text(line) # <<>> /\ UNCHANGED <<phase, result>>
    <3>1. \A i \in 1..line' - 1 : i \in Lines => Text(i) # <<>>
      BY <2>2, <2>4
    <3> QED
      BY <1>1, <2>1, <2>2, <2>4, <3>1
  <2> QED
    BY <2>2, <2>3, <2>4
<1>4. CASE Populated
  <2>1. /\ phase = "labels" /\ phase' = "parse" /\ line' = 1 /\ line > Len(program)
        /\ UNCHANGED <<word, labels, symbols, next, defined, byte, out, reported, result>>
    BY <1>4 DEF Populated
  <2>2. Lines = 1..Len(program) /\ Len(program) \in Nat
    BY DEF IsSource, Lines
  <2>3. \A i \in Lines : Text(i) # <<>>
    BY <2>1, <2>2
  <2> QED
    BY <1>1, <2>1, <2>3
<1> QED
  BY <1>2, <1>3, <1>4

\* What becomes of a valid word is a symbol.
LEMMA ParsedIsSymbol ==
  ASSUME Typed, NEW w, IsWord(w), Valid(w), w.is # "string", NEW old \in Symbols,
         NEW ws, IsLine(ws), NEW p \in 1..Len(ws)
  PROVE  Parsed(w, SubSeq(ws, p + 1, Len(ws)), old) \in Symbols
<1> DEFINE following == SubSeq(ws, p + 1, Len(ws))
<1>1. w.is \in {"def", "instruction", "db", "dw", "register", "reserved", "number", "name"}
  BY DEF IsWord, WordKinds, Valid
<1>2. old.value \in Nat /\ line \in Nat
  BY DEF Symbols, Typed
<1>3. \A t \in SymbolTypes, v \in Nat : Symbol(t, v, line) \in Symbols
  BY <1>2, FreshSymbols
<1>4. /\ {"def", "instruction", "db", "dw", "v", "label"} \subseteq SymbolTypes
      /\ \A v : IntType(v) \in SymbolTypes
  BY DEF SymbolTypes, IntType
<1>5. w.is = "name" => Min(Named(w.of)) \in Nat
  <2> SUFFICES ASSUME w.is = "name" PROVE Min(Named(w.of)) \in Nat
    OBVIOUS
  <2>1. Named(w.of) # {}
    BY DEF Valid
  <2>2. labels \in Seq(Labels)
    BY DEF Typed
  <2>3. Named(w.of) \in SUBSET Nat
    BY <2>2 DEF Named
  <2> QED
    BY <2>1, <2>3, MinOf
<1>6. w.is \in {"number", "register", "instruction"} => w.of \in Nat
  BY DEF IsWord
<1>7. \A v \in Nat : v % ValueSize \in Nat
  BY Sizes
<1>8. \A u : IsWord(u) => IntOf(u) \in Nat
  <2> SUFFICES ASSUME NEW u, IsWord(u) PROVE IntOf(u) \in Nat
    OBVIOUS
  <2>1. (IF u.is \in {"number", "register"} THEN u.of ELSE ValueSize - 1) \in Nat
    BY Sizes DEF IsWord
  <2> QED
    BY <1>7, <2>1 DEF IntOf
<1>9. following # <<>> => IsWord(following[1])
  <2> SUFFICES ASSUME following # <<>> PROVE IsWord(following[1])
    OBVIOUS
  <2>1. ws \in Seq(Range(ws)) /\ DOMAIN ws = 1..Len(ws) /\ Len(ws) \in Nat
    BY DEF IsLine
  <2>2. p + 1 \in 1..Len(ws) /\ following[1] = ws[p + 1]
    BY <2>1
  <2> QED
    BY <2>1, <2>2 DEF IsLine
<1>10. w.is = "reserved" => w.of \in SymbolTypes
  BY DEF IsWord, Reserved, SymbolTypes
<1> HIDE DEF following
<1>11. CASE w.is = "def"
  BY <1>2, <1>3, <1>4, <1>11 DEF Parsed
<1>12. CASE w.is = "instruction"
  BY <1>3, <1>4, <1>6, <1>12 DEF Parsed
<1>13. CASE w.is \in {"db", "dw"} /\ following # <<>>
  BY <1>3, <1>4, <1>8, <1>9, <1>13 DEF Parsed, following
<1>14. CASE w.is \in {"db", "dw"} /\ following = <<>>
  BY <1>2, <1>3, <1>4, <1>14 DEF Parsed, following
<1>15. CASE w.is = "register"
  BY <1>3, <1>4, <1>6, <1>15 DEF Parsed
<1>16. CASE w.is = "reserved"
  BY <1>2, <1>3, <1>10, <1>16 DEF Parsed
<1>17. CASE w.is = "number"
  BY <1>3, <1>4, <1>6, <1>7, <1>17 DEF Parsed
<1>18. CASE w.is = "name"
  BY <1>3, <1>4, <1>5, <1>18 DEF Parsed
<1> QED
  BY <1>1, <1>11, <1>12, <1>13, <1>14, <1>15, <1>16, <1>17, <1>18 DEF following

\* A .DS line puts its characters in front of the symbol left over ...
LEMMA LineBegun ==
  ASSUME Typed, BeginLine
  PROVE  /\ phase = "parse" /\ line \in Lines /\ word = 0
         /\ \E q \in Seq(Symbols) :
              /\ Len(q) >= Len(symbols) /\ \A k \in 1..Len(symbols) : q[k] = symbols[k]
              /\ \A k \in Len(symbols) + 1..Len(q) : q[k] = Symbol("db", 1, line)
              /\ Len(q) > Len(symbols) => WordsOf(line)[1].is = "string"
              /\ \E s \in Fresh(Len(q) + 1) : symbols' = Append(q, s)
         /\ \/ WordsOf(line)[1].is = "string" /\ line' = line + 1 /\ word' = 0
            \/ WordsOf(line)[1].is # "string" /\ line' = line /\ word' = 1
         /\ UNCHANGED <<program, phase, labels, next, defined, byte, out, reported, result>>
<1> DEFINE w == WordsOf(line)[1]
           n == IF w.is = "string" THEN w.of ELSE 0
           Chars == [k \in 1..n |-> Symbol("db", 1, line)]
           q == symbols \o Chars
<1>1. symbols \in Seq(Symbols) /\ line \in Nat
  BY DEF Typed
<1>2. phase = "parse" /\ line \in Lines /\ word = 0 /\ Text(line) # <<>>
  BY DEF Typed, BeginLine
<1>3. IsWord(w)
  BY <1>2, WordsAreLine DEF Typed, IsLine
<1>4. n \in Nat /\ (n > 0 => w.is = "string")
  BY <1>3 DEF IsWord
<1>5. PICK s \in Fresh(Len(symbols) + n + 1) : symbols' = symbols \o Chars \o <<s>>
  BY DEF BeginLine
<1>6. Symbol("db", 1, line) \in Symbols
  BY <1>1, FreshSymbols DEF SymbolTypes
<1>7. /\ \/ w.is = "string" /\ line' = line + 1 /\ word' = 0
         \/ w.is # "string" /\ line' = line /\ word' = 1
      /\ UNCHANGED <<program, phase, labels, next, defined, byte, out, reported, result>>
  BY DEF BeginLine
<1> HIDE DEF n, w
<1>8. /\ Chars \in Seq(Symbols) /\ Len(Chars) = n
      /\ \A k \in 1..n : Chars[k] = Symbol("db", 1, line)
  BY <1>4, <1>6
<1> HIDE DEF Chars
<1>9. /\ q \in Seq(Symbols) /\ Len(q) = Len(symbols) + n
      /\ \A k \in 1..Len(symbols) : q[k] = symbols[k]
      /\ \A k \in Len(symbols) + 1..Len(q) : q[k] = Symbol("db", 1, line)
  BY <1>1, <1>4, <1>8
<1>10. symbols' = Append(q, s) /\ s \in Fresh(Len(q) + 1)
  BY <1>1, <1>4, <1>5, <1>8, <1>9
<1> HIDE DEF q
<1>11. Len(q) >= Len(symbols) /\ (Len(q) > Len(symbols) => w.is = "string")
  BY <1>1, <1>4, <1>9
<1>12. \E d \in Fresh(Len(q) + 1) : symbols' = Append(q, d)
  BY <1>10
<1> QED
  BY <1>2, <1>7, <1>9, <1>11, <1>12 DEF w

\* ... and a word is parsed into the symbol that waits, and leaves another.
LEMMA WordParsed ==
  ASSUME Typed, ParseWord
  PROVE  /\ phase = "parse" /\ line \in Lines /\ word \in DOMAIN WordsOf(line)
         /\ Valid(WordsOf(line)[word]) /\ symbols # <<>>
         /\ IsLine(WordsOf(line)) /\ IsWord(WordsOf(line)[word])
         /\ word \in Nat \ {0} /\ WordsOf(line)[word].is # "string"
         /\ \E q \in Seq(Symbols) :
              /\ Len(q) = Len(symbols)
              /\ \A k \in 1..Len(symbols) - 1 : q[k] = symbols[k]
              /\ q[Len(symbols)] =
                   Parsed(WordsOf(line)[word],
                          SubSeq(WordsOf(line), word + 1, Len(WordsOf(line))),
                          symbols[Len(symbols)])
              /\ \E s \in Fresh(Len(q) + 1) : symbols' = Append(q, s)
         /\ word' = word + Taken(WordsOf(line)[word],
                                 SubSeq(WordsOf(line), word + 1, Len(WordsOf(line))))
         /\ UNCHANGED <<program, phase, line, labels, next, defined, byte, out, reported,
                        result>>
<1> DEFINE ws == WordsOf(line)
           following == SubSeq(ws, word + 1, Len(ws))
           q == [symbols EXCEPT ![Len(symbols)] =
                   Parsed(ws[word], following, symbols[Len(symbols)])]
<1>1. /\ phase = "parse" /\ line \in Lines /\ Text(line) # <<>> /\ word \in DOMAIN ws
      /\ Valid(ws[word]) /\ word' = word + Taken(ws[word], following)
      /\ UNCHANGED <<program, phase, line, labels, next, defined, byte, out, reported, result>>
  BY DEF ParseWord, Typed
<1>2. IsLine(ws) /\ DOMAIN ws = 1..Len(ws) /\ Len(ws) \in Nat
  BY <1>1, WordsAreLine DEF Typed
<1>3. symbols # <<>> /\ ws[1].is # "string" /\ symbols \in Seq(Symbols)
  BY <1>1, <1>2 DEF Typed
<1>4. IsWord(ws[word]) /\ ws[word].is # "string"
  BY <1>1, <1>2, <1>3 DEF IsLine
<1>5. Len(symbols) \in DOMAIN symbols /\ symbols[Len(symbols)] \in Symbols
  BY <1>3
<1>6. Parsed(ws[word], following, symbols[Len(symbols)]) \in Symbols
  BY <1>1, <1>2, <1>4, <1>5, ParsedIsSymbol
<1>7. \E s \in Fresh(Len(symbols) + 1) : symbols' = Append(q, s)
  BY DEF ParseWord
<1> HIDE DEF ws, following
<1>8. /\ q \in Seq(Symbols) /\ Len(q) = Len(symbols)
      /\ \A k \in 1..Len(symbols) - 1 : q[k] = symbols[k]
      /\ q[Len(symbols)] = Parsed(ws[word], following, symbols[Len(symbols)])
  BY <1>3, <1>5, <1>6
<1> HIDE DEF q
<1>9. \E s \in Fresh(Len(q) + 1) : symbols' = Append(q, s)
  BY <1>7, <1>8
<1>10. word \in Nat \ {0}
  BY <1>1, <1>2
<1> QED
  BY <1>1, <1>2, <1>3, <1>4, <1>8, <1>9, <1>10 DEF ws, following

\* while lines are parsed,
LEMMA TypedParse ==
  ASSUME Typed, BeginLine \/ ParseWord \/ ParseInvalid \/ EndLine \/ ParsedAll
  PROVE  Typed'
<1> USE DEF Typed
<1>1. /\ UNCHANGED program /\ Lines' = Lines /\ Labels' = Labels
      /\ \A i : Text(i)' = Text(i) /\ WordsOf(i)' = WordsOf(i)
      /\ phase = "parse" /\ out = <<>>
      /\ UNCHANGED <<labels, out>>
  <2> DEFINE Kept == UNCHANGED <<program, labels, out>> /\ phase = "parse"
  <2>1. BeginLine => Kept
    BY DEF BeginLine
  <2>2. ParseWord => Kept
    BY DEF ParseWord
  <2>3. ParseInvalid => Kept
    BY DEF ParseInvalid
  <2>4. EndLine \/ ParsedAll => Kept
    BY DEF EndLine, ParsedAll
  <2> QED
    BY <2>1, <2>2, <2>3, <2>4, SameText
<1>2. labels' \in Seq(Labels') /\ out' \in Seq(Placed)
  BY <1>1
<1>3. CASE BeginLine
  <2>1. PICK q \in Seq(Symbols) : \E s \in Fresh(Len(q) + 1) : symbols' = Append(q, s)
    BY <1>3, LineBegun
  <2>2. symbols' \in Seq(Symbols) /\ symbols' # <<>>
    <3>1. PICK s \in Fresh(Len(q) + 1) : symbols' = Append(q, s)
      BY <2>1
    <3> QED
      BY <3>1, GrownByFresh
  <2>3. /\ line \in Lines /\ UNCHANGED <<phase, next, defined, byte, reported, result>>
        /\ \/ line' = line + 1 /\ word' = 0
           \/ WordsOf(line)[1].is # "string" /\ line' = line /\ word' = 1
    BY <1>3, LineBegun
  <2> QED
    BY <1>1, <1>2, <2>2, <2>3
<1>4. CASE ParseWord
  <2>1. PICK q \in Seq(Symbols) : \E s \in Fresh(Len(q) + 1) : symbols' = Append(q, s)
    BY <1>4, WordParsed
  <2>2. symbols' \in Seq(Symbols) /\ symbols' # <<>>
    <3>1. PICK s \in Fresh(Len(q) + 1) : symbols' = Append(q, s)
      BY <2>1
    <3> QED
      BY <3>1, GrownByFresh
  <2>3. /\ line \in Lines /\ word \in Nat \ {0}
        /\ UNCHANGED <<phase, line, next, defined, byte, reported, result>>
    <3>1. word \in Nat \ {0}
      BY <1>4, WordParsed
    <3> QED
      BY <1>4, <3>1 DEF ParseWord
  <2>4. word' \in Nat
    <3>1. \E n \in {1, 2} : word' = word + n
      BY <1>4 DEF ParseWord, Taken
    <3> QED
      BY <3>1
  <2> QED
    BY <1>1, <1>2, <2>2, <2>3, <2>4
<1>5. CASE ParseInvalid
  <2>1. /\ line \in Lines /\ reported' = TRUE /\ result = "running" /\ word > 0
        /\ UNCHANGED <<line, next, defined, byte>>
        /\ \/ /\ word' = AfterInvalid(word) /\ word' >= 1
              /\ \E s \in Fresh(Len(symbols) + 1) : symbols' = Append(symbols, s)
              /\ UNCHANGED <<phase, result>>
           \/ Return("undefined") /\ UNCHANGED <<word, symbols>>
    <3>1. word \in DOMAIN WordsOf(line) /\ line \in Lines /\ Text(line) # <<>>
      BY <1>5 DEF ParseInvalid
    <3>2. word > 0
      BY <3>1, WordsAreLine
    <3> QED
      BY <1>5, <3>2 DEF ParseInvalid
  <2>2. CASE Return("undefined") /\ UNCHANGED <<word, symbols>>
    BY <1>1, <1>2, <2>1, <2>2 DEF Return
  <2>3. CASE /\ word' = AfterInvalid(word) /\ word' >= 1
             /\ \E s \in Fresh(Len(symbols) + 1) : symbols' = Append(symbols, s)
             /\ UNCHANGED <<phase, result>>
    <3>1. word' \in Nat
      BY <2>3 DEF AfterInvalid
    <3>2. symbols' \in Seq(Symbols) /\ symbols' # <<>>
      BY <2>3, FreshSymbols
    <3> QED
      BY <1>1, <1>2, <2>1, <2>3, <3>1, <3>2
  <2> QED
    BY <2>1, <2>2, <2>3
<1>6. CASE EndLine
  BY <1>1, <1>2, <1>6 DEF EndLine
<1>7. CASE ParsedAll
  BY <1>1, <1>2, <1>7, Sizes DEF ParsedAll
<1> QED
  BY <1>3, <1>4, <1>5, <1>6, <1>7

\* The operands of an instruction: the symbols behind it up to the first that is none.
LEMMA ArgsAre ==
  ASSUME symbols \in Seq(Symbols), NEW k \in DOMAIN symbols
  PROVE  /\ Args(k) \in Seq(Symbols) /\ Len(Args(k)) \in Nat
         /\ k + Len(Args(k)) <= Len(symbols)
         /\ \A m \in k + 1..k + Len(Args(k)) : symbols[m].type \in Operands
         /\ k + Len(Args(k)) < Len(symbols) => symbols[k + Len(Args(k)) + 1].type \notin Operands
         /\ \A m \in 1..Len(Args(k)) : Args(k)[m] = symbols[k + m]
<1> DEFINE n == Len(symbols)
           ends == {m \in k + 1..n : \A l \in k + 1..m : symbols[l].type \in Operands}
           others == {m \in k + 1..n + 1 : m \notin ends}
           b == Min(others)
<1>1. n \in Nat /\ k \in 1..n
  OBVIOUS
<1> HIDE DEF n
<1>2. n + 1 \in others /\ others \in SUBSET Nat
  BY <1>1
<1>3. /\ b \in k + 1..n + 1 /\ b \notin ends
      /\ \A m \in k + 1..n + 1 : m < b => m \in ends
  <2> HIDE DEF ends
  <2>1. b \in others /\ \A y \in others : b <= y
    <3> HIDE DEF others
    <3> QED
      BY <1>2, MinOf DEF b
  <2> HIDE DEF b
  <2> QED
    BY <1>1, <2>1
<1> HIDE DEF b
<1>4. ends = k + 1..b - 1
  <2>1. ASSUME NEW m \in ends, m >= b PROVE FALSE
    <3>1. b \in k + 1..n
      BY <1>1, <1>3, <2>1
    <3>2. \A l \in k + 1..b : symbols[l].type \in Operands
      BY <1>1, <2>1, <3>1
    <3> QED
      BY <1>3, <3>1, <3>2
  <2>2. \A m \in ends : m \in k + 1..b - 1
    BY <1>1, <1>3, <2>1
  <2>3. \A m \in k + 1..b - 1 : m \in ends
    BY <1>1, <1>3
  <2> QED
    BY <2>2, <2>3
<1>5. Cardinality(ends) = b - 1 - k
  <2> HIDE DEF ends, others
  <2>1. k + 1 \in Int /\ b - 1 \in Int /\ (b - 1) - (k + 1) + 1 = b - 1 - k
    BY <1>1, <1>3
  <2>2. Cardinality(k + 1..b - 1) = IF k + 1 > b - 1 THEN 0 ELSE (b - 1) - (k + 1) + 1
    BY <2>1, FS_Interval
  <2> QED
    BY <1>1, <1>3, <1>4, <2>1, <2>2
<1>6. \A l \in k + 1..b - 1 : symbols[l].type \in Operands
  BY <1>1, <1>3, <1>4
<1>9. b <= n => symbols[b].type \notin Operands
  <2>1. ASSUME b <= n, symbols[b].type \in Operands PROVE b \in ends
    BY <1>1, <1>3, <1>6, <2>1
  <2> QED
    BY <1>3, <2>1
<1>7. Args(k) = SubSeq(symbols, k + 1, b - 1)
  <2>1. Args(k) = SubSeq(symbols, k + 1, k + Cardinality(ends))
    BY DEF Args, n
  <2>2. k + Cardinality(ends) = b - 1
    BY <1>1, <1>3, <1>5
  <2> QED
    BY <2>1, <2>2
<1> HIDE DEF ends, others
<1> DEFINE args == SubSeq(symbols, k + 1, b - 1)
<1>8. /\ args \in Seq(Symbols) /\ Len(args) = b - 1 - k
      /\ \A m \in 1..b - 1 - k : args[m] = symbols[k + m]
  BY <1>1, <1>3 DEF n
<1>12. Args(k) = args
  BY <1>7
<1> HIDE DEF args
<1>10. /\ Len(args) \in Nat /\ k + Len(args) = b - 1 /\ b - 1 <= n
       /\ k + Len(args) + 1 = b /\ (k + Len(args) < n => b <= n)
  <2>1. b \in Nat /\ k \in Nat /\ n \in Nat /\ k + 1 <= b /\ b <= n + 1
    BY <1>1, <1>3
  <2> DEFINE c == Len(args)
  <2>2. c = b - 1 - k
    BY <1>8
  <2> HIDE DEF c
  <2>3. c \in Nat /\ k + c = b - 1 /\ b - 1 <= n
    BY <2>1, <2>2
  <2>4. k + c + 1 = b
    BY <2>1, <2>3
  <2>5. k + c < n => b <= n
    BY <2>1, <2>3
  <2> QED
    BY <2>3, <2>4, <2>5 DEF c
<1>11. /\ \A m \in k + 1..k + Len(args) : symbols[m].type \in Operands
       /\ k + Len(args) < n => symbols[k + Len(args) + 1].type \notin Operands
       /\ \A m \in 1..Len(args) : args[m] = symbols[k + m]
  BY <1>6, <1>8, <1>9, <1>10
<1> QED
  BY <1>8, <1>10, <1>11, <1>12 DEF n

\* while labels are resolved,
LEMMA TypedResolve ==
  ASSUME Typed, ResolveSymbol \/ Unresolved \/ Substitute
  PROVE  Typed'
<1> USE DEF Typed
<1>1. /\ UNCHANGED <<program, line, word, out, reported>>
      /\ Lines' = Lines /\ Labels' = Labels
      /\ \A i : Text(i)' = Text(i) /\ WordsOf(i)' = WordsOf(i)
      /\ phase = "resolve" /\ out = <<>> /\ result = "running"
  <2> DEFINE Kept == UNCHANGED <<program, line, word, out, reported>> /\ phase = "resolve"
  <2>1. ResolveSymbol => Kept
    BY DEF ResolveSymbol
  <2>2. Unresolved \/ Substitute => Kept
    BY DEF Unresolved, Substitute
  <2> QED
    BY <2>1, <2>2, SameText
<1>2. CASE ResolveSymbol
  <2>1. /\ next' = next + 1 /\ byte' = byte + Size(symbols[next].type)
        /\ UNCHANGED <<phase, symbols, result>> /\ defined < Len(labels)
        /\ \/ UNCHANGED <<labels, defined>>
           \/ /\ labels' = [labels EXCEPT ![defined + 1].byte = byte]
              /\ defined' = defined + 1
    BY <1>2 DEF ResolveSymbol
  <2>2. byte' \in Nat
    <3>1. \A t : Size(t) \in Nat
      BY DEF Size
    <3> QED
      BY <2>1, <3>1
  <2>3. defined' \in Nat
    BY <2>1
  <2>4. labels' \in Seq(Labels)
    <3>1. \A l \in Labels : [l EXCEPT !.byte = byte] \in Labels
      BY DEF Labels
    <3>2. defined + 1 \in DOMAIN labels
      BY <2>1
    <3> QED
      BY <2>1, <3>1, <3>2
  <2> QED
    BY <1>1, <2>1, <2>2, <2>3, <2>4
<1>3. CASE Unresolved
  BY <1>1, <1>3 DEF Unresolved, Return
<1>4. CASE Substitute
  <2>1. UNCHANGED <<labels, defined>>
    BY <1>4 DEF Substitute
  <2>2. CASE \E k \in DOMAIN symbols : symbols[k].type = "label"
                                      /\ symbols[k].value \notin DOMAIN labels
    <3>1. Return("syntax") /\ UNCHANGED <<symbols, next, byte>>
      BY <1>4, <2>2 DEF Substitute
    <3> QED
      BY <1>1, <2>1, <3>1 DEF Return
  <2>3. CASE ~\E k \in DOMAIN symbols : symbols[k].type = "label"
                                       /\ symbols[k].value \notin DOMAIN labels
    <3> DEFINE After(k) ==
          IF symbols[k].type # "label" THEN symbols[k]
          ELSE Symbol("int12", labels[symbols[k].value].byte % ValueSize, symbols[k].ln)
    <3>1. /\ symbols' = [k \in DOMAIN symbols |-> After(k)]
          /\ phase' = "write" /\ next' = 1 /\ byte' = 0 /\ UNCHANGED result
      BY <1>4, <2>3 DEF Substitute
    <3>2. \A k \in DOMAIN symbols : After(k) \in Symbols
      <4> SUFFICES ASSUME NEW k \in DOMAIN symbols, symbols[k].type = "label"
                   PROVE  After(k) \in Symbols
        OBVIOUS
      <4>1. symbols[k].value \in DOMAIN labels /\ symbols[k].ln \in Nat
        <5>1. symbols[k] \in Symbols
          OBVIOUS
        <5> QED
          BY <2>3, <5>1 DEF Symbols
      <4>2. labels[symbols[k].value].byte \in Nat
        <5>1. labels[symbols[k].value] \in Labels
          BY <4>1
        <5> QED
          BY <5>1 DEF Labels
      <4>3. labels[symbols[k].value].byte % ValueSize \in Nat
        BY <4>2, Sizes
      <4> QED
        BY <4>1, <4>3, FreshSymbols DEF SymbolTypes
    <3> HIDE DEF After
    <3>3. symbols' \in Seq(Symbols)
      BY <3>1, <3>2
    <3> QED
      BY <1>1, <2>1, <3>1, <3>3
  <2> QED
    BY <2>2, <2>3
<1> QED
  BY <1>2, <1>3, <1>4

\* What c8_write does with a symbol: it gives up, writes one or two bytes, or goes on.
LEMMA Writes ==
  ASSUME Typed, WriteSymbol
  PROVE  /\ phase = "write" /\ next \in DOMAIN symbols /\ result = "running"
         /\ \/ Refuse("syntax") \/ Refuse("undefined")
            \/ Room(byte) /\ symbols[next].type = "instruction" /\ Put(2, Args(next))
            \/ Room(byte) /\ symbols[next].type = "db" /\ Put(1, <<>>)
            \/ Room(byte) /\ symbols[next].type = "dw" /\ Put(2, <<>>)
            \/ /\ Room(byte) /\ symbols[next].type \notin {"instruction", "db", "dw"}
               /\ next' = next + 1 /\ UNCHANGED <<byte, out, phase, result>>
         /\ UNCHANGED <<program, line, word, labels, symbols, defined, reported>>
<1>1. phase = "write" => result = "running"
  BY DEF Typed
<1> QED
  BY <1>1, Zenon DEF WriteSymbol

\* while the program is written,
LEMMA TypedWrite ==
  ASSUME Typed, WriteSymbol \/ Written
  PROVE  Typed'
<1> USE DEF Typed
<1>1. /\ UNCHANGED <<program, line, word, labels, symbols, defined, reported>>
      /\ phase = "write" /\ result = "running"
  BY Writes DEF Written
<1>2. /\ Lines' = Lines /\ Labels' = Labels
      /\ \A i : Text(i)' = Text(i) /\ WordsOf(i)' = WordsOf(i)
  BY <1>1, SameText
<1>3. labels' \in Seq(Labels')
  BY <1>1, <1>2
<1>4. CASE Written
  BY <1>1, <1>2, <1>3, <1>4 DEF Written, Return
<1>5. ASSUME NEW size \in {1, 2}, NEW args \in Seq(Symbols), Put(size, args),
             next \in DOMAIN symbols
      PROVE  Typed'
  <2> DEFINE e == [ln |-> symbols[next].ln, at |-> byte, size |-> size,
                   type |-> symbols[next].type, value |-> symbols[next].value,
                   args |-> args]
  <2>1. e \in Placed
    <3>1. symbols[next] \in Symbols
      BY <1>5
    <3>2. /\ symbols[next].ln \in Nat /\ symbols[next].type \in SymbolTypes
          /\ symbols[next].value \in Nat
      BY <3>1 DEF Symbols
    <3> QED
      BY <1>5, <3>2 DEF Placed
  <2>2. out' = Append(out, e) /\ byte' = byte + size /\ next' = next + 1 + Len(args)
        /\ UNCHANGED <<phase, result>>
    BY <1>5 DEF Put
  <2> HIDE DEF e
  <2>3. out' \in Seq(Placed) /\ byte' \in Nat /\ next' \in Nat \ {0}
    BY <2>1, <2>2
  <2> QED
    BY <1>1, <1>2, <1>3, <2>2, <2>3
<1>6. CASE WriteSymbol
  <2>1. CASE Refuse("syntax") \/ Refuse("undefined")
    BY <1>1, <1>2, <1>3, <2>1 DEF Refuse, Return
  <2>2. CASE next' = next + 1 /\ UNCHANGED <<byte, out, phase, result>>
    BY <1>1, <1>2, <1>3, <2>2
  <2>3. next \in DOMAIN symbols => Args(next) \in Seq(Symbols)
    BY ArgsAre
  <2>4. <<>> \in Seq(Symbols)
    OBVIOUS
  <2> HIDE DEF Typed
  <2> QED
    BY <1>5, <1>6, <2>1, <2>2, <2>3, <2>4, Writes
<1> QED
  BY <1>4, <1>6

\* and so by every step.
LEMMA TypedStep == Typed /\ [Next]_vars => Typed'
<1> SUFFICES ASSUME Typed, [Next]_vars PROVE Typed'
  OBVIOUS
<1>1. CASE UNCHANGED vars
  <2>1. UNCHANGED program
    BY <1>1 DEF vars
  <2> QED
    BY <1>1, <2>1, SameText DEF vars, Typed
<1> QED
  BY <1>1, TypedPopulate, TypedParse, TypedResolve, TypedWrite DEF Next

--------------------------------------------------------------------------------
\* c8_parse_line takes one word or two.
LEMMA OneOrTwo ==
  ASSUME NEW ws, IsLine(ws), NEW p \in DOMAIN ws
  PROVE  /\ Onward(ws, p) \in {p + 1, p + 2} /\ Onward(ws, p) <= Len(ws) + 1
         /\ ws[p].is \notin {"db", "dw"} => Onward(ws, p) = p + 1
         /\ DOMAIN ws = 1..Len(ws) /\ Len(ws) \in Nat
<1>1. DOMAIN ws = 1..Len(ws) /\ Len(ws) \in Nat /\ ws \in Seq(Range(ws))
  BY DEF IsLine
<1>2. p = Len(ws) => SubSeq(ws, p + 1, Len(ws)) = <<>>
  BY <1>1
<1> QED
  BY <1>1, <1>2 DEF Onward, Taken

\* Two words back from an invalid word, there is an invalid word ahead.
LEMMA BackMeets ==
  ASSUME NEW ws, IsLine(ws), NEW bad \in SUBSET DOMAIN ws,
         \A q \in bad : Onward(ws, q) = q + 1,
         NEW v \in bad, v > 2, Skipped(ws, v) => Meets(ws, bad, v + 1)
  PROVE  /\ Meets(ws, bad, v - 2)
         /\ v - 2 \in bad /\ Skipped(ws, v - 2) => Meets(ws, bad, v - 1)
<1>1. /\ DOMAIN ws = 1..Len(ws) /\ Len(ws) \in Nat /\ v \in 1..Len(ws)
      /\ v - 2 \in DOMAIN ws /\ v - 1 \in DOMAIN ws
  BY OneOrTwo
<1>2. /\ Onward(ws, v - 2) \in {v - 1, v} /\ Onward(ws, v - 1) \in {v, v + 1}
  <2>1. Onward(ws, v - 2) \in {(v - 2) + 1, (v - 2) + 2}
    BY <1>1, OneOrTwo
  <2>2. Onward(ws, v - 1) \in {(v - 1) + 1, (v - 1) + 2}
    BY <1>1, OneOrTwo
  <2> QED
    BY <1>1, <2>1, <2>2
\* Whoever comes to v - 1 comes to v, or skips it, and then comes upon another.
<1>3. ASSUME Onward(ws, v - 2) = v - 1 PROVE Meets(ws, bad, v - 1)
  <2> SUFFICES ASSUME NEW S \in SUBSET Nat, v - 1 \in S,
                      \A q \in S : q \in DOMAIN ws => Onward(ws, q) \in S
               PROVE  S \cap bad # {}
    BY DEF Meets
  <2>1. CASE Onward(ws, v - 1) = v
    BY <1>1, <2>1
  <2>2. CASE Onward(ws, v - 1) = v + 1
    <3>1. Meets(ws, bad, v + 1)
      BY <1>3, <2>2 DEF Skipped
    <3>2. v + 1 \in S
      BY <1>1, <2>2
    <3> QED
      BY <3>1, <3>2 DEF Meets
  <2> QED
    BY <1>2, <2>1, <2>2
<1>4. Meets(ws, bad, v - 2)
  <2> SUFFICES ASSUME NEW S \in SUBSET Nat, v - 2 \in S,
                      \A q \in S : q \in DOMAIN ws => Onward(ws, q) \in S
               PROVE  S \cap bad # {}
    BY DEF Meets
  <2>1. CASE Onward(ws, v - 2) = v
    BY <1>1, <2>1
  <2>2. CASE Onward(ws, v - 2) = v - 1
    <3>1. v - 1 \in S
      BY <1>1, <2>2
    <3> QED
      BY <1>3, <2>2, <3>1 DEF Meets
  <2> QED
    BY <1>2, <2>1, <2>2
<1>5. v - 2 \in bad => Onward(ws, v - 2) = v - 1
  BY <1>1
<1> QED
  BY <1>3, <1>4, <1>5

\* The words of a line, and which of them are valid, stay while it is parsed.
LEMMA SameLine ==
  ASSUME UNCHANGED <<program, line, labels>>
  PROVE  WordsOf(line)' = WordsOf(line) /\ Bad' = Bad
<1>1. WordsOf(line)' = WordsOf(line)
  BY SameText
<1>2. \A name : Named(name)' = Named(name)
  BY DEF Named
<1>3. \A w : Valid(w)' = Valid(w)
  BY <1>2 DEF Valid
<1> QED
  BY <1>1, <1>3 DEF Bad

\* Invalid words are taken one at a time.
LEMMA BadWords ==
  ASSUME Typed, phase = "parse", line \in Lines
  PROVE  /\ IsLine(WordsOf(line)) /\ Bad \in SUBSET DOMAIN WordsOf(line)
         /\ DOMAIN WordsOf(line) = 1..Len(WordsOf(line)) /\ Len(WordsOf(line)) \in Nat
         /\ \A q \in Bad : Onward(WordsOf(line), q) = q + 1
<1>1. /\ IsLine(WordsOf(line)) /\ Len(WordsOf(line)) \in Nat
      /\ DOMAIN WordsOf(line) = 1..Len(WordsOf(line))
  BY WordsAreLine DEF Typed
<1>2. \A q \in Bad : q \in DOMAIN WordsOf(line) /\ WordsOf(line)[q].is \notin {"db", "dw"}
  BY DEF Bad, Valid
<1>3. \A q \in Bad : Onward(WordsOf(line), q) = q + 1
  BY <1>1, <1>2, OneOrTwo
<1> QED
  BY <1>1, <1>2, <1>3

\* Every step keeps ParseInv.
LEMMA ParseStep == Typed /\ ParseInv /\ [Next]_vars => ParseInv'
<1> SUFFICES ASSUME Typed, ParseInv, [Next]_vars PROVE ParseInv'
  OBVIOUS
<1> DEFINE ws == WordsOf(line)
<1>t. word \in Nat /\ line \in Nat /\ reported \in BOOLEAN
  BY DEF Typed
<1>1. CASE NoValidLines \/ PopulateLine \/ Populated
  <2>1. phase = "labels" /\ reported' = reported /\ word' = word
    BY <1>1 DEF NoValidLines, PopulateLine, Populated
  <2>2. ~reported /\ word' = 0
    BY <2>1 DEF ParseInv, Typed
  <2> QED
    BY <2>1, <2>2 DEF ParseInv, Skipped
<1>2. CASE BeginLine
  <2>1. phase = "parse" /\ line \in Lines /\ word = 0 /\ reported' = reported /\ word' \in {0, 1}
    BY <1>2 DEF BeginLine
  <2>2. ~reported
    BY <2>1 DEF ParseInv
  <2> QED
    BY <2>1, <2>2 DEF ParseInv, Skipped
<1>3. CASE ParseWord
  <2>1. /\ phase = "parse" /\ line \in Lines /\ word \in DOMAIN ws /\ Valid(ws[word])
        /\ word' = Onward(ws, word)
        /\ UNCHANGED <<program, line, labels, phase, reported>>
    BY <1>3 DEF ParseWord, Onward
  <2>2. /\ ws' = ws /\ Bad' = Bad /\ Lines' = Lines
    BY <2>1, SameLine, SameText
  <2>3. IsLine(ws) /\ DOMAIN ws = 1..Len(ws) /\ Len(ws) \in Nat
    BY <2>1, BadWords
  <2>4. word' \in {word + 1, word + 2} /\ word \notin Bad
    BY <2>1, <2>3, OneOrTwo DEF Bad
  <2> HIDE DEF ws
  <2>5. Meets(ws, Bad, word) => Meets(ws, Bad, word')
    <3> SUFFICES ASSUME Meets(ws, Bad, word), NEW S \in SUBSET Nat, word' \in S,
                        \A q \in S : q \in DOMAIN ws => Onward(ws, q) \in S
                 PROVE  S \cap Bad # {}
      BY DEF Meets
    <3>1. word \in S \cup {word} /\ S \cup {word} \in SUBSET Nat
      BY <1>t
    <3>2. \A q \in S \cup {word} : q \in DOMAIN ws => Onward(ws, q) \in S \cup {word}
      BY <2>1
    <3>3. (S \cup {word}) \cap Bad # {}
      BY <3>1, <3>2 DEF Meets
    <3> QED
      BY <2>4, <3>3
  <2>6. ~Skipped(ws, word')
    <3> SUFFICES ASSUME Skipped(ws, word') PROVE FALSE
      OBVIOUS
    <3>1. /\ Onward(ws, word' - 1) = word' + 1 /\ Onward(ws, word' - 2) = word' - 1
      BY DEF Skipped
    <3>2. CASE word' = word + 1
      <4>1. word' - 1 = word
        BY <1>t, <3>2
      <4>2. Onward(ws, word) = word' + 1 /\ word' \in Nat
        BY <1>t, <3>1, <3>2, <4>1
      <4> QED
        BY <2>1, <4>2
    <3>3. CASE word' = word + 2
      <4>1. word' - 2 = word /\ word' - 1 # word'
        BY <1>t, <3>3
      <4>2. Onward(ws, word) = word' - 1 /\ word' \in Nat
        BY <1>t, <3>1, <3>3, <4>1
      <4> QED
        BY <2>1, <4>2
    <3> QED
      BY <2>4, <3>2, <3>3
  <2>7. word' > 0
    BY <1>t, <2>4
  <2>8. reported' => Meets(ws', Bad', word')
    BY <2>1, <2>2, <2>5 DEF ParseInv, ws, Typed
  <2>9. ~Skipped(ws', word')
    BY <2>2, <2>6
  <2> QED
    BY <2>1, <2>2, <2>7, <2>8, <2>9 DEF ParseInv, ws
<1>4. CASE ParseInvalid
  <2>1. /\ phase = "parse" /\ line \in Lines /\ word \in Bad
        /\ UNCHANGED <<program, line, labels>>
        /\ \/ Return("undefined") /\ UNCHANGED word
           \/ word > 2 /\ word' = word - 2 /\ UNCHANGED phase
    BY <1>4, <1>t DEF ParseInvalid, Bad, AfterInvalid
  <2>2. /\ ws' = ws /\ Bad' = Bad /\ Lines' = Lines
    BY <2>1, SameLine, SameText
  <2>3. CASE Return("undefined") /\ UNCHANGED word
    BY <2>3 DEF Return, ParseInv
  <2>4. CASE word > 2 /\ word' = word - 2 /\ UNCHANGED phase
    <3>1. Skipped(ws, word) => Meets(ws, Bad, word + 1)
      BY <2>1 DEF ParseInv
    <3>2. /\ Meets(ws, Bad, word - 2)
          /\ word - 2 \in Bad /\ Skipped(ws, word - 2) => Meets(ws, Bad, word - 1)
      <4> HIDE DEF ws
      <4>1. /\ IsLine(ws) /\ Bad \in SUBSET DOMAIN ws
            /\ \A q \in Bad : Onward(ws, q) = q + 1
        BY <2>1, BadWords DEF ws
      <4> QED
        BY <2>1, <2>4, <3>1, <4>1, BackMeets
    <3>3. word' + 1 = word - 1 /\ word' > 0
      BY <1>t, <2>4
    <3> HIDE DEF ws
    <3>4. /\ Meets(ws', Bad', word')
          /\ word' \in Bad' /\ Skipped(ws', word') => Meets(ws', Bad', word' + 1)
      BY <2>2, <2>4, <3>2, <3>3
    <3> QED
      BY <2>1, <2>2, <2>4, <3>3, <3>4 DEF ParseInv, ws
  <2> QED
    BY <2>1, <2>3, <2>4
<1>5. CASE EndLine
  <2>1. /\ phase = "parse" /\ line \in Lines /\ word > Len(ws) /\ word' = 0
        /\ reported' = reported
    BY <1>5 DEF EndLine
  <2>2. ~reported
    <3> SUFFICES ASSUME Meets(ws, Bad, word) PROVE FALSE
      BY <2>1 DEF ParseInv, Typed
    <3>1. Bad \in SUBSET DOMAIN ws /\ DOMAIN ws = 1..Len(ws) /\ Len(ws) \in Nat
      BY <2>1, BadWords
    <3> HIDE DEF ws
    <3>2. {word} \in SUBSET Nat /\ word \notin DOMAIN ws
      BY <1>t, <2>1, <3>1
    <3>3. {word} \cap Bad # {}
      BY <3>2 DEF Meets
    <3> QED
      BY <3>1, <3>2, <3>3
  <2> QED
    BY <2>1, <2>2 DEF ParseInv, Skipped
<1>6. CASE ParsedAll
  <2>1. /\ phase = "parse" /\ line > Len(program) /\ phase' = "resolve"
        /\ reported' = reported
    BY <1>6 DEF ParsedAll
  <2>2. line \notin Lines
    BY <1>t, <2>1 DEF Lines, Typed, IsSource
  <2> QED
    BY <2>1, <2>2 DEF ParseInv
<1>7. CASE ResolveSymbol \/ Unresolved \/ Substitute
  <2>1. /\ phase = "resolve" /\ reported' = reported /\ phase' # "parse"
    BY <1>7 DEF ResolveSymbol, Unresolved, Substitute, Return
  <2> QED
    BY <2>1 DEF ParseInv
<1>8. CASE WriteSymbol \/ Written
  <2>1. phase = "write" /\ reported' = reported /\ phase' # "parse"
    BY <1>8, Writes DEF Written, Refuse, Return, Put
  <2> QED
    BY <2>1 DEF ParseInv
<1>9. CASE UNCHANGED vars
  <2>1. UNCHANGED <<program, line, labels, phase, reported, result, word>>
    BY <1>9 DEF vars
  <2>2. ws' = ws /\ Bad' = Bad /\ Lines' = Lines
    BY <2>1, SameLine, SameText
  <2> QED
    BY <2>1, <2>2 DEF ParseInv
<1> QED
  BY <1>1, <1>2, <1>3, <1>4, <1>5, <1>6, <1>7, <1>8, <1>9 DEF Next

\* After an invalid word, the end is no program.
LEMMA ParseRefuses == Typed /\ ParseInv => InvalidNeverAssembles
  BY DEF ParseInv, Typed, InvalidNeverAssembles

\* However c8_parse_line goes on after an invalid word, whatever stands around it on its
\* line: the source that holds it never comes out as a program.
THEOREM InvalidIsRefused == Spec => []InvalidNeverAssembles
<1>1. Init => ParseInv
  BY DEF Init, Start, ParseInv, Skipped
<1> QED
  BY <1>1, ParseRefuses, InitTyped, TypedStep, ParseStep, PTL DEF Spec

--------------------------------------------------------------------------------
\* The inductive invariant behind OutputFits: the symbol at the end of the list is Null
\* unless it was enlarged, c8_write does not come to the end without asking for room at
\* that symbol, and what is written lies below byte.
FitsInv ==
  /\ phase = "labels" => symbols = <<>>
  /\ phase # "ended" /\ NotEnlarged /\ symbols # <<>> => symbols[Len(symbols)] = Null
  /\ \A k \in DOMAIN out : /\ out[k].at + out[k].size <= byte
                           /\ out[k].at + out[k].size <= RomSize + 1
  /\ phase = "write" /\ NotEnlarged /\ next > Len(symbols) => byte <= RomSize
  /\ result = "done" /\ NotEnlarged => byte <= RomSize

\* A symbol put behind the list.
LEMMA LastIsFresh ==
  ASSUME NEW q \in Seq(Symbols), NEW s \in Fresh(Len(q) + 1), symbols' = Append(q, s)
  PROVE  NotEnlarged' => symbols'[Len(symbols')] = Null
<1>1. Len(symbols') = Len(q) + 1 /\ symbols'[Len(symbols')] = s /\ Len(q) \in Nat
  BY FreshSymbols
<1> QED
  BY <1>1 DEF NotEnlarged, Fresh

\* Parsing puts nothing out, and leaves a fresh symbol at the end.
LEMMA FitsParse ==
  ASSUME Typed, FitsInv, BeginLine \/ ParseWord \/ ParseInvalid
  PROVE  FitsInv'
<1>1. /\ phase = "parse" /\ phase' \in {"parse", "ended"} /\ out' = <<>>
      /\ result' # "done"
      /\ phase' = "parse" => (NotEnlarged' => symbols'[Len(symbols')] = Null)
  <2>1. symbols \in Seq(Symbols) /\ (phase = "parse" => out = <<>> /\ result = "running")
    BY DEF Typed
  <2>2. CASE BeginLine
    BY <2>1, <2>2, LineBegun, LastIsFresh
  <2>3. CASE ParseWord
    BY <2>1, <2>3, WordParsed, LastIsFresh
  <2>4. CASE ParseInvalid
    <3>1. phase' = "parse" => \E s \in Fresh(Len(symbols) + 1) : symbols' = Append(symbols, s)
      BY <2>4 DEF ParseInvalid, Return
    <3>2. phase' = "parse" => (NotEnlarged' => symbols'[Len(symbols')] = Null)
      BY <2>1, <3>1, LastIsFresh
    <3> QED
      BY <2>1, <2>4, <3>2 DEF ParseInvalid, Return
  <2> QED
    BY <2>2, <2>3, <2>4
<1>2. \A k \in DOMAIN out' : FALSE
  BY <1>1
<1> QED
  BY <1>1, <1>2 DEF FitsInv

\* c8_write asks for room at the last symbol, so what it puts out lies below byte.
LEMMA FitsWrite ==
  ASSUME Typed, FitsInv, WriteSymbol
  PROVE  FitsInv'
<1>1. /\ phase = "write" /\ next \in DOMAIN symbols /\ result = "running"
      /\ UNCHANGED symbols
  BY Writes
<1>2. /\ symbols \in Seq(Symbols) /\ out \in Seq(Placed) /\ byte \in Nat /\ RomSize \in Nat
      /\ next \in 1..Len(symbols) /\ Len(symbols) \in Nat
  BY <1>1, Sizes DEF Typed
<1>3. NotEnlarged => symbols[Len(symbols)].type = "null" /\ "null" \notin Operands
  <2>1. NotEnlarged => symbols[Len(symbols)] = Null
    BY <1>1, <1>2 DEF FitsInv
  <2> QED
    BY <2>1 DEF Null, Symbol, Operands, Integers4To12
\* Something is put in front of the last symbol.
<1>4. ASSUME NEW size \in {1, 2}, NEW args \in Seq(Symbols), Put(size, args), Room(byte),
             symbols[next].type # "null", next + Len(args) <= Len(symbols),
             \A m \in next + 1..next + Len(args) : symbols[m].type \in Operands
      PROVE  FitsInv'
  <2> DEFINE e == [ln |-> symbols[next].ln, at |-> byte, size |-> size,
                   type |-> symbols[next].type, value |-> symbols[next].value,
                   args |-> args]
  <2>1. /\ out' = Append(out, e) /\ byte' = byte + size /\ next' = next + 1 + Len(args)
        /\ UNCHANGED <<phase, result>> /\ e.at = byte /\ e.size = size
    BY <1>4 DEF Put
  <2> HIDE DEF e
  <2>2. byte < RomSize
    BY <1>4 DEF Room
  <2>3. \A k \in DOMAIN out : /\ out[k].at + out[k].size <= byte'
                              /\ out[k].at + out[k].size <= RomSize + 1
    <3> SUFFICES ASSUME NEW k \in DOMAIN out
                 PROVE  /\ out[k].at + out[k].size <= byte'
                        /\ out[k].at + out[k].size <= RomSize + 1
      OBVIOUS
    <3>1. /\ out[k].at + out[k].size <= byte /\ out[k].at + out[k].size <= RomSize + 1
          /\ out[k] \in Placed
      BY <1>2 DEF FitsInv
    <3>2. out[k].at + out[k].size \in Nat
      BY <3>1 DEF Placed
    <3> QED
      BY <1>2, <2>1, <3>1, <3>2
  <2>4. e.at + e.size <= byte' /\ e.at + e.size <= RomSize + 1
    BY <1>2, <2>1, <2>2
  <2>5. \A k \in DOMAIN out' : out'[k] = e \/ (k \in DOMAIN out /\ out'[k] = out[k])
    BY <1>2, <2>1
  <2>6. NotEnlarged => next' <= Len(symbols)
    <3> SUFFICES ASSUME NotEnlarged, next + Len(args) = Len(symbols) PROVE FALSE
      BY <1>2, <1>4, <2>1
    <3>1. CASE Len(args) = 0
      BY <1>2, <1>3, <1>4, <3>1
    <3>2. CASE Len(args) > 0
      <4>1. Len(symbols) \in next + 1..next + Len(args)
        BY <1>2, <3>2
      <4> QED
        BY <1>3, <1>4, <4>1
    <3> QED
      BY <3>1, <3>2
  <2>7. next' \in Nat
    BY <1>2, <2>1
  <2>8. \A k \in DOMAIN out' : /\ out'[k].at + out'[k].size <= byte'
                               /\ out'[k].at + out'[k].size <= RomSize + 1
    BY <2>3, <2>4, <2>5
  <2>9. /\ phase' = "write" /\ result' = "running" /\ symbols' = symbols
        /\ NotEnlarged' = NotEnlarged
    BY <1>1, <2>1 DEF NotEnlarged
  <2>10. ~(NotEnlarged /\ next' > Len(symbols))
    BY <1>2, <2>6, <2>7
  <2>11. NotEnlarged /\ symbols # <<>> => symbols[Len(symbols)] = Null
    BY <1>1 DEF FitsInv
  <2> QED
    BY <2>8, <2>9, <2>10, <2>11 DEF FitsInv
<1>5. CASE Refuse("syntax") \/ Refuse("undefined")
  BY <1>1, <1>5 DEF Refuse, Return, FitsInv, NotEnlarged
<1>6. CASE Room(byte) /\ next' = next + 1 /\ UNCHANGED <<byte, out, phase, result>>
  BY <1>1, <1>2, <1>6 DEF Room, FitsInv, NotEnlarged
<1>7. CASE symbols[next].type = "instruction" /\ Room(byte) /\ Put(2, Args(next))
  BY <1>1, <1>2, <1>4, <1>7, ArgsAre
<1>8. CASE symbols[next].type \in {"db", "dw"} /\ Room(byte)
           /\ \E size \in {1, 2} : Put(size, <<>>)
  <2>1. <<>> \in Seq(Symbols) /\ Len(<<>>) = 0 /\ next + 0 = next
    BY <1>2
  <2>2. \A m \in next + 1..next + Len(<<>>) : symbols[m].type \in Operands
    BY <1>2, <2>1
  <2>3. next + Len(<<>>) <= Len(symbols) /\ symbols[next].type # "null"
    BY <1>2, <1>8, <2>1
  <2>4. PICK size \in {1, 2} : Put(size, <<>>)
    BY <1>8
  <2> QED
    BY <1>4, <1>8, <2>1, <2>2, <2>3, <2>4
<1> QED
  BY <1>5, <1>6, <1>7, <1>8, Writes

\* Every step keeps FitsInv.
LEMMA FitsStep == Typed /\ FitsInv /\ [Next]_vars => FitsInv'
<1> SUFFICES ASSUME Typed, FitsInv, [Next]_vars PROVE FitsInv'
  OBVIOUS
<1>1. CASE NoValidLines \/ PopulateLine \/ Populated
  <2>1. /\ phase = "labels" /\ symbols = <<>> /\ UNCHANGED <<symbols, out, byte>>
        /\ phase' \in {"labels", "parse", "ended"} /\ result' # "done"
    BY <1>1 DEF NoValidLines, PopulateLine, Populated, Return, FitsInv, Typed
  <2> QED
    BY <2>1 DEF FitsInv
<1>2. CASE BeginLine \/ ParseWord \/ ParseInvalid
  BY <1>2, FitsParse
<1>3. CASE EndLine \/ ParsedAll \/ ResolveSymbol \/ Unresolved
  <2>1. /\ phase \in {"parse", "resolve"} /\ phase' \in {"parse", "resolve", "ended"}
        /\ UNCHANGED <<symbols, out>> /\ result' # "done" /\ out = <<>>
    <3>1. CASE EndLine \/ ParsedAll
      BY <3>1 DEF EndLine, ParsedAll, Typed
    <3>2. CASE ResolveSymbol
      BY <3>2 DEF ResolveSymbol, Typed
    <3>3. CASE Unresolved
      BY <3>3 DEF Unresolved, Return, Typed
    <3> QED
      BY <1>3, <3>1, <3>2, <3>3
  <2>2. \A k \in DOMAIN out' : FALSE
    BY <2>1
  <2> QED
    BY <2>1, <2>2 DEF FitsInv, NotEnlarged
<1>4. CASE Substitute
  <2>1. /\ phase = "resolve" /\ out' = <<>> /\ result' # "done"
        /\ \/ phase' = "ended" /\ symbols' = symbols
           \/ /\ phase' = "write" /\ next' = 1 /\ byte' = 0
              /\ symbols' = [k \in DOMAIN symbols |->
                   IF symbols[k].type # "label" THEN symbols[k]
                   ELSE Symbol("int12", labels[symbols[k].value].byte % ValueSize,
                               symbols[k].ln)]
    BY <1>4 DEF Substitute, Return, Typed
  <2>2. \A k \in DOMAIN out' : FALSE
    BY <2>1
  <2>3. CASE phase' = "ended"
    BY <2>1, <2>2, <2>3 DEF FitsInv
  <2>4. CASE phase' # "ended"
    <3>1. symbols \in Seq(Symbols)
      BY DEF Typed
    <3>2. DOMAIN symbols' = DOMAIN symbols /\ Len(symbols') = Len(symbols)
      BY <2>1, <2>4, <3>1
    <3>3. symbols[Len(symbols)] = Null => symbols[Len(symbols)].type # "label"
      BY DEF Null, Symbol
    <3>4. NotEnlarged' => NotEnlarged
      BY <3>2 DEF NotEnlarged
    <3>5. NotEnlarged' /\ symbols' # <<>> => symbols'[Len(symbols')] = Null
      BY <2>1, <2>4, <3>1, <3>2, <3>3, <3>4 DEF FitsInv
    <3> QED
      BY <2>1, <2>2, <2>4, <3>5, Sizes DEF FitsInv
  <2> QED
    BY <2>3, <2>4
<1>5. CASE WriteSymbol
  BY <1>5, FitsWrite
<1>6. CASE Written
  BY <1>6 DEF Written, Return, FitsInv, NotEnlarged
<1>7. CASE UNCHANGED vars
  BY <1>7 DEF vars, FitsInv, NotEnlarged
<1> QED
  BY <1>1, <1>2, <1>3, <1>4, <1>5, <1>6, <1>7 DEF Next

\* What is written lies where byte has been, and byte within the output.
LEMMA FitsInside == Typed /\ FitsInv => OutputFits
<1> SUFFICES ASSUME Typed, FitsInv, NEW k \in DOMAIN out
             PROVE  out[k].at + out[k].size <= IF result = "done" /\ NotEnlarged
                                               THEN RomSize ELSE RomSize + 1
  BY DEF OutputFits
<1>1. out[k] \in Placed /\ byte \in Nat /\ RomSize \in Nat
  BY Sizes DEF Typed
<1>2. out[k].at + out[k].size \in Nat
  BY <1>1 DEF Placed
<1> QED
  BY <1>1, <1>2 DEF FitsInv

\* Whatever is assembled, at most the second byte of one word is written behind the
\* output, and nothing of a program that is accepted from a list that was not enlarged.
THEOREM OutputStaysInside == Spec => []OutputFits
<1>1. Init => FitsInv
  BY DEF Init, Start, FitsInv
<1> QED
  BY <1>1, FitsInside, InitTyped, TypedStep, FitsStep, PTL DEF Spec

--------------------------------------------------------------------------------
\* How many of the first n symbols are of these types, how many bytes the first n stand
\* for, and how many labels they define.
Of(syms, types, n) == {l \in 1..n : syms[l].type \in types}
Bytes(syms, n) == 2 * Cardinality(Of(syms, {"instruction", "dw"}, n))
                    + Cardinality(Of(syms, {"db"}, n))
Defs(syms, n)  == Cardinality(Of(syms, {"def"}, n))

\* The inductive invariant behind PassesAgree: each pass has counted the bytes before the
\* symbol it looks at, and a label stands where the symbols before its definition end.
AgreeInv ==
  /\ phase \in {"resolve", "write"} => next \in 1..Len(symbols) + 1
  /\ phase = "resolve" =>
       /\ byte = ProgStart + Bytes(symbols, next - 1)
       /\ defined = Defs(symbols, next - 1) /\ defined <= Len(labels)
       /\ \A l \in 1..next - 1 : symbols[l].type = "def" =>
            labels[Defs(symbols, l)].byte = ProgStart + Bytes(symbols, l)
  /\ phase = "write" => byte = Bytes(symbols, next - 1)
  /\ phase = "write" \/ result = "done" =>
       \A l \in 1..Len(symbols) :
         symbols[l].type = "def" /\ Defs(symbols, l) \in DOMAIN labels =>
           labels[Defs(symbols, l)].byte = ProgStart + Bytes(symbols, l)

\* One more number, one more that is in the set if it is.
LEMMA OneMoreIn ==
  ASSUME NEW S, NEW n \in Nat
  PROVE  /\ IsFiniteSet({l \in 1..n : l \in S}) /\ Cardinality({l \in 1..n : l \in S}) \in Nat
         /\ Cardinality({l \in 1..n + 1 : l \in S}) =
              Cardinality({l \in 1..n : l \in S}) + (IF n + 1 \in S THEN 1 ELSE 0)
<1> DEFINE A == {l \in 1..n : l \in S}
           B == {l \in 1..n + 1 : l \in S}
<1>1. IsFiniteSet(1..n) /\ A \subseteq 1..n
  BY FS_Interval
<1>2. IsFiniteSet(A) /\ Cardinality(A) \in Nat
  BY <1>1, FS_Subset, FS_CardinalityType
<1>3. CASE n + 1 \in S
  <2>1. B = A \cup {n + 1} /\ n + 1 \notin A
    BY <1>3
  <2> QED
    BY <1>2, <1>3, <2>1, FS_AddElement
<1>4. CASE n + 1 \notin S
  <2>1. B = A
    BY <1>4
  <2> QED
    BY <1>2, <1>4, <2>1
<1> QED
  BY <1>2, <1>3, <1>4

\* One more symbol, one more in the count if it is of the types.
LEMMA OneMore ==
  ASSUME NEW syms, NEW types, NEW n \in Nat
  PROVE  /\ IsFiniteSet(Of(syms, types, n)) /\ Cardinality(Of(syms, types, n)) \in Nat
         /\ Cardinality(Of(syms, types, n + 1)) =
              Cardinality(Of(syms, types, n)) + (IF syms[n + 1].type \in types THEN 1 ELSE 0)
<1> DEFINE S == {l \in Nat : syms[l].type \in types}
<1>1. /\ Of(syms, types, n) = {l \in 1..n : l \in S}
      /\ Of(syms, types, n + 1) = {l \in 1..n + 1 : l \in S}
  BY DEF Of
<1>2. n + 1 \in S <=> syms[n + 1].type \in types
  OBVIOUS
<1> HIDE DEF S
<1>3. /\ IsFiniteSet({l \in 1..n : l \in S}) /\ Cardinality({l \in 1..n : l \in S}) \in Nat
      /\ Cardinality({l \in 1..n + 1 : l \in S}) =
           Cardinality({l \in 1..n : l \in S}) + (IF n + 1 \in S THEN 1 ELSE 0)
  BY OneMoreIn
<1> QED
  BY <1>1, <1>2, <1>3

\* The counts grow by what the next symbol is.
LEMMA Counted ==
  ASSUME NEW syms, NEW n \in Nat
  PROVE  /\ Bytes(syms, n) \in Nat /\ Defs(syms, n) \in Nat
         /\ Bytes(syms, n + 1) = Bytes(syms, n) + Size(syms[n + 1].type)
         /\ Defs(syms, n + 1) = Defs(syms, n) + (IF syms[n + 1].type = "def" THEN 1 ELSE 0)
<1>1. \A types : /\ Cardinality(Of(syms, types, n)) \in Nat
                 /\ Cardinality(Of(syms, types, n + 1)) =
                      Cardinality(Of(syms, types, n))
                        + (IF syms[n + 1].type \in types THEN 1 ELSE 0)
  BY OneMore
<1> DEFINE t == syms[n + 1].type
<1>2. Size(t) = 2 * (IF t \in {"instruction", "dw"} THEN 1 ELSE 0)
                  + (IF t \in {"db"} THEN 1 ELSE 0)
  BY DEF Size
<1> HIDE DEF t
<1>3. Bytes(syms, n) \in Nat /\ Bytes(syms, n + 1) = Bytes(syms, n) + Size(t)
  BY <1>1, <1>2 DEF Bytes, t
<1>4. Defs(syms, n + 1) = Defs(syms, n) + (IF t \in {"def"} THEN 1 ELSE 0)
      /\ Defs(syms, n) \in Nat
  BY <1>1 DEF Defs, t
<1> QED
  BY <1>3, <1>4 DEF t

\* No bytes are counted for symbols that are operands.
LEMMA OperandsAreFree ==
  ASSUME NEW syms, NEW n \in Nat, NEW k \in Nat,
         \A m \in n + 1..n + k : syms[m].type \in Operands
  PROVE  Bytes(syms, n + k) = Bytes(syms, n)
<1>1. \A m \in n + 1..n + k : syms[m].type \notin {"instruction", "dw", "db"}
  BY DEF Operands, Integers4To12
<1>2. /\ Of(syms, {"instruction", "dw"}, n + k) = Of(syms, {"instruction", "dw"}, n)
      /\ Of(syms, {"db"}, n + k) = Of(syms, {"db"}, n)
  BY <1>1 DEF Of
<1> QED
  BY <1>2 DEF Bytes

\* Of more symbols, no fewer are definitions.
LEMMA DefsGrow ==
  ASSUME NEW syms, NEW n \in Nat, NEW m \in 0..n
  PROVE  Defs(syms, m) <= Defs(syms, n)
<1>1. Of(syms, {"def"}, m) \subseteq Of(syms, {"def"}, n)
  BY DEF Of
<1> QED
  BY <1>1, OneMore, FS_Subset DEF Defs

\* c8_resolve_labels counts the symbol and places the label it defines.
LEMMA AgreeResolve ==
  ASSUME Typed, AgreeInv, ResolveSymbol
  PROVE  AgreeInv'
<1> DEFINE n == next - 1
           t == symbols[next].type
<1>1. /\ phase = "resolve" /\ phase' = "resolve" /\ next' = next + 1 /\ UNCHANGED symbols
      /\ defined < Len(labels) /\ byte' = byte + Size(t)
      /\ t = "def" => /\ labels' = [labels EXCEPT ![defined + 1].byte = byte]
                      /\ defined' = defined + 1
      /\ t # "def" => UNCHANGED <<labels, defined>>
      /\ next \in DOMAIN symbols
  BY DEF ResolveSymbol
<1>2. /\ symbols \in Seq(Symbols) /\ labels \in Seq(Labels) /\ byte \in Nat
      /\ next \in 1..Len(symbols) /\ Len(symbols) \in Nat
      /\ n \in Nat /\ n + 1 = next /\ next' - 1 = next
  BY <1>1 DEF Typed
<1>3. /\ byte = ProgStart + Bytes(symbols, n) /\ defined = Defs(symbols, n)
      /\ \A l \in 1..n : symbols[l].type = "def" =>
           labels[Defs(symbols, l)].byte = ProgStart + Bytes(symbols, l)
  BY <1>1 DEF AgreeInv
<1>4. /\ Bytes(symbols, n) \in Nat /\ Defs(symbols, n) \in Nat /\ ProgStart \in Nat
      /\ Bytes(symbols, next) = Bytes(symbols, n) + Size(t)
      /\ Defs(symbols, next) = Defs(symbols, n) + (IF t = "def" THEN 1 ELSE 0)
      /\ t = "def" => Size(t) = 0
  <2>1. /\ Bytes(symbols, n) \in Nat /\ Defs(symbols, n) \in Nat
        /\ Bytes(symbols, n + 1) = Bytes(symbols, n) + Size(symbols[n + 1].type)
        /\ Defs(symbols, n + 1) =
             Defs(symbols, n) + (IF symbols[n + 1].type = "def" THEN 1 ELSE 0)
    BY <1>2, Counted
  <2>2. t = "def" => Size(t) = 0
    BY DEF Size
  <2> QED
    BY <1>2, <2>1, <2>2, Sizes
<1>5. Size(t) \in Nat
  BY DEF Size
<1> HIDE DEF n, t
<1>6. /\ byte' = ProgStart + Bytes(symbols, next)
      /\ defined' = Defs(symbols, next) /\ defined' <= Len(labels')
  <2>1. byte' = ProgStart + Bytes(symbols, next)
    BY <1>1, <1>3, <1>4, <1>5
  <2>2. CASE t = "def"
    BY <1>1, <1>2, <1>3, <1>4, <2>1, <2>2
  <2>3. CASE t # "def"
    BY <1>1, <1>2, <1>3, <1>4, <2>1, <2>3
  <2> QED
    BY <2>1, <2>2, <2>3
<1>7. ASSUME NEW l \in 1..next, symbols[l].type = "def"
      PROVE  labels'[Defs(symbols, l)].byte = ProgStart + Bytes(symbols, l)
  <2>1. CASE l \in 1..n
    <3>1. Defs(symbols, l) <= defined /\ Defs(symbols, l) \in Nat
      <4>1. n \in Nat /\ l \in Nat /\ l \in 0..n
        BY <1>2, <2>1
      <4>2. Defs(symbols, l) <= Defs(symbols, n) /\ Defs(symbols, l) \in Nat
        BY <4>1, DefsGrow, Counted
      <4> QED
        BY <1>3, <4>2
    <3>2. Defs(symbols, l) # defined + 1
      BY <1>3, <1>4, <3>1
    <3>3. labels'[Defs(symbols, l)] = labels[Defs(symbols, l)]
      <4>1. CASE t = "def"
        <5> DEFINE d == Defs(symbols, l)
        <5>1. labels' = [labels EXCEPT ![defined + 1].byte = byte]
          BY <1>1, <4>1
        <5>2. d # defined + 1
          BY <3>2
        <5> HIDE DEF d
        <5>3. labels'[d] = labels[d]
          <6>1. d \in DOMAIN labels
            <7>1. l - 1 \in Nat /\ l - 1 + 1 = l
              BY <1>2, <2>1
            <7>2. Defs(symbols, l) = Defs(symbols, l - 1) + 1 /\ Defs(symbols, l - 1) \in Nat
              BY <1>7, <7>1, Counted
            <7>3. Defs(symbols, l) >= 1
              BY <7>2
            <7>4. defined < Len(labels) /\ Len(labels) \in Nat
              BY <1>1, <1>2
            <7>5. defined \in Nat
              BY <1>3, <1>4
            <7>6. d \in 1..Len(labels)
              BY <3>1, <7>3, <7>4, <7>5 DEF d
            <7> QED
              BY <1>2, <7>6
          <6> QED
            BY <1>2, <5>1, <5>2, <6>1
        <5> QED
          BY <5>3 DEF d
      <4> QED
        BY <1>1, <4>1
    <3> QED
      BY <1>3, <1>7, <2>1, <3>3
  <2>2. CASE l = next
    <3>1. t = "def" /\ Defs(symbols, l) = defined + 1 /\ Bytes(symbols, l) = Bytes(symbols, n)
      BY <1>3, <1>4, <1>7, <2>2 DEF t
    <3>2. defined + 1 \in DOMAIN labels /\ labels[defined + 1] \in Labels
      BY <1>1, <1>2, <1>3, <1>4
    <3>3. labels'[defined + 1] = [labels[defined + 1] EXCEPT !.byte = byte]
      BY <1>1, <1>2, <3>1, <3>2
    <3>4. labels'[defined + 1].byte = byte
      BY <3>2, <3>3 DEF Labels
    <3> QED
      BY <1>3, <3>1, <3>4
  <2> QED
    BY <1>2, <2>1, <2>2
<1>8. next' \in 1..Len(symbols) + 1 /\ result' # "done"
  BY <1>1, <1>2 DEF ResolveSymbol, Typed
<1> QED
  BY <1>1, <1>2, <1>6, <1>7, <1>8 DEF AgreeInv

\* Numbers take the place of labels, which changes no count.
LEMMA AgreeSubstitute ==
  ASSUME Typed, AgreeInv, Substitute, phase' = "write"
  PROVE  AgreeInv'
<1> DEFINE After(k) ==
      IF symbols[k].type # "label" THEN symbols[k]
      ELSE Symbol("int12", labels[symbols[k].value].byte % ValueSize, symbols[k].ln)
<1>1. /\ phase = "resolve" /\ defined = Len(labels) /\ next' = 1 /\ byte' = 0
      /\ symbols' = [k \in DOMAIN symbols |-> After(k)] /\ UNCHANGED labels
  BY DEF Substitute, Return
<1>2. /\ symbols \in Seq(Symbols) /\ labels \in Seq(Labels) /\ Len(symbols) \in Nat
      /\ next \in 1..Len(symbols) + 1
  BY <1>1 DEF Typed, AgreeInv
<1>3. Len(symbols') = Len(symbols)
  BY <1>1, <1>2
<1>4. \A l \in 1..Len(symbols) :
        /\ symbols'[l].type \in {"instruction", "dw", "db", "def"} =>
             symbols'[l].type = symbols[l].type
        /\ symbols[l].type \in {"instruction", "dw", "db", "def"} =>
             symbols'[l].type = symbols[l].type
  BY <1>1, <1>2 DEF Symbol
<1>5. \A l \in 0..Len(symbols) :
        Bytes(symbols', l) = Bytes(symbols, l) /\ Defs(symbols', l) = Defs(symbols, l)
  <2> SUFFICES ASSUME NEW l \in 0..Len(symbols)
               PROVE  Bytes(symbols', l) = Bytes(symbols, l)
                      /\ Defs(symbols', l) = Defs(symbols, l)
    OBVIOUS
  <2>1. /\ Of(symbols', {"instruction", "dw"}, l) = Of(symbols, {"instruction", "dw"}, l)
        /\ Of(symbols', {"db"}, l) = Of(symbols, {"db"}, l)
        /\ Of(symbols', {"def"}, l) = Of(symbols, {"def"}, l)
    <3>1. \A k \in 1..l : k \in 1..Len(symbols)
      BY <1>2
    <3> HIDE DEF After
    <3> QED
      BY <1>4, <3>1 DEF Of
  <2> QED
    BY <2>1 DEF Bytes, Defs
<1> HIDE DEF After
<1>6. Bytes(symbols', 0) = 0
  <2>1. \A types : Of(symbols', types, 0) = {}
    BY DEF Of
  <2> QED
    BY <2>1, FS_EmptySet DEF Bytes
<1>7. ASSUME NEW l \in 1..Len(symbols), symbols[l].type = "def",
             Defs(symbols, l) \in DOMAIN labels
      PROVE  labels[Defs(symbols, l)].byte = ProgStart + Bytes(symbols, l)
  <2>1. CASE l <= next - 1
    <3>1. l \in 1..next - 1
      BY <1>2, <2>1
    <3> QED
      BY <1>1, <1>7, <3>1 DEF AgreeInv
  <2>2. CASE l > next - 1
    <3>1. /\ l - 1 \in Nat /\ l - 1 + 1 = l /\ next - 1 \in 0..l - 1
      BY <1>2, <2>2
    <3>2. Defs(symbols, l) = Defs(symbols, l - 1) + 1 /\ Defs(symbols, l - 1) \in Nat
      BY <1>7, <3>1, Counted
    <3>3. Defs(symbols, next - 1) <= Defs(symbols, l - 1) /\ Defs(symbols, next - 1) = Len(labels)
      BY <1>1, <3>1, DefsGrow DEF AgreeInv
    <3>4. Defs(symbols, l) <= Len(labels) /\ Len(labels) \in Nat
      BY <1>2, <1>7
    <3> QED
      BY <3>2, <3>3, <3>4
  <2> QED
    BY <1>2, <2>1, <2>2
<1>8. \A l \in 1..Len(symbols') :
        symbols'[l].type = "def" /\ Defs(symbols', l) \in DOMAIN labels' =>
          labels'[Defs(symbols', l)].byte = ProgStart + Bytes(symbols', l)
  <2> SUFFICES ASSUME NEW l \in 1..Len(symbols), symbols'[l].type = "def",
                      Defs(symbols', l) \in DOMAIN labels
               PROVE  labels[Defs(symbols', l)].byte = ProgStart + Bytes(symbols', l)
    BY <1>1, <1>3
  <2>1. /\ symbols[l].type = "def" /\ Defs(symbols', l) = Defs(symbols, l)
        /\ Bytes(symbols', l) = Bytes(symbols, l)
    BY <1>2, <1>4, <1>5
  <2> QED
    BY <1>7, <2>1
<1>9. next' \in 1..Len(symbols') + 1 /\ byte' = Bytes(symbols', next' - 1)
  BY <1>1, <1>2, <1>3, <1>6
<1> QED
  BY <1>8, <1>9 DEF AgreeInv

\* c8_write counts the symbol, and skips none that counts.
LEMMA AgreeWrite ==
  ASSUME Typed, AgreeInv, WriteSymbol
  PROVE  AgreeInv'
<1> DEFINE n == next - 1
           t == symbols[next].type
<1>1. /\ phase = "write" /\ next \in DOMAIN symbols /\ UNCHANGED <<symbols, labels>>
      /\ byte = Bytes(symbols, n)
      /\ \A l \in 1..Len(symbols) :
           symbols[l].type = "def" /\ Defs(symbols, l) \in DOMAIN labels =>
             labels[Defs(symbols, l)].byte = ProgStart + Bytes(symbols, l)
  BY Writes DEF AgreeInv
<1>2. /\ symbols \in Seq(Symbols) /\ next \in 1..Len(symbols) /\ Len(symbols) \in Nat
      /\ n \in Nat /\ n + 1 = next
  BY <1>1 DEF Typed
<1>3. Bytes(symbols, next) = byte + Size(t) /\ byte \in Nat
  BY <1>1, <1>2, Counted
<1> HIDE DEF n, t
\* Whatever is put stands for the symbol, and its operands for nothing.
<1>4. ASSUME NEW size, NEW args \in Seq(Symbols), Put(size, args), size = Size(t),
             next + Len(args) <= Len(symbols),
             \A m \in next + 1..next + Len(args) : symbols[m].type \in Operands
      PROVE  AgreeInv'
  <2>1. byte' = byte + size /\ next' = next + 1 + Len(args) /\ UNCHANGED phase
    BY <1>4 DEF Put
  <2>2. Len(args) \in Nat /\ next \in Nat
    BY <1>2, <1>4
  <2>3. Bytes(symbols, next + Len(args)) = Bytes(symbols, next)
    BY <1>4, <2>2, OperandsAreFree
  <2>4. next' - 1 = next + Len(args) /\ next' \in 1..Len(symbols) + 1
    BY <1>2, <1>4, <2>1, <2>2
  <2>5. byte' = Bytes(symbols, next' - 1)
    BY <1>3, <1>4, <2>1, <2>3, <2>4
  <2> QED
    BY <1>1, <2>1, <2>4, <2>5 DEF AgreeInv
<1>5. CASE Refuse("syntax") \/ Refuse("undefined")
  BY <1>5 DEF Refuse, Return, AgreeInv
<1>6. CASE /\ symbols[next].type \notin {"instruction", "db", "dw"}
           /\ next' = next + 1 /\ UNCHANGED <<byte, out, phase, result>>
  <2>1. Size(t) = 0
    BY <1>6 DEF Size, t
  <2>2. next' - 1 = next /\ next' \in 1..Len(symbols) + 1
    BY <1>2, <1>6
  <2>3. byte' = Bytes(symbols, next' - 1)
    BY <1>3, <1>6, <2>1, <2>2
  <2> QED
    BY <1>1, <1>6, <2>2, <2>3 DEF AgreeInv
<1>7. CASE symbols[next].type = "instruction" /\ Put(2, Args(next))
  <2>1. Size(t) = 2
    BY <1>7 DEF Size, t
  <2> QED
    BY <1>1, <1>2, <1>4, <1>7, <2>1, ArgsAre
<1>8. CASE /\ symbols[next].type \in {"db", "dw"}
           /\ Put(IF symbols[next].type = "db" THEN 1 ELSE 2, <<>>)
  <2>1. <<>> \in Seq(Symbols) /\ Len(<<>>) = 0 /\ next + 0 = next
    BY <1>2
  <2>2. \A m \in next + 1..next + Len(<<>>) : symbols[m].type \in Operands
    BY <1>2, <2>1
  <2>3. next + Len(<<>>) <= Len(symbols)
    BY <1>2, <2>1
  <2>4. Size(t) = IF symbols[next].type = "db" THEN 1 ELSE 2
    BY <1>8 DEF Size, t
  <2> QED
    BY <1>4, <1>8, <2>1, <2>2, <2>3, <2>4
<1> QED
  BY <1>5, <1>6, <1>7, <1>8, Writes

\* Every step keeps AgreeInv.
LEMMA AgreeStep == Typed /\ AgreeInv /\ [Next]_vars => AgreeInv'
<1> SUFFICES ASSUME Typed, AgreeInv, [Next]_vars PROVE AgreeInv'
  OBVIOUS
<1>1. CASE \/ NoValidLines \/ PopulateLine \/ Populated
           \/ BeginLine \/ ParseWord \/ ParseInvalid \/ EndLine
           \/ Unresolved
  <2>1. phase' \notin {"resolve", "write"} /\ result' # "done"
    <3>1. CASE NoValidLines \/ PopulateLine \/ Populated
      BY <3>1 DEF NoValidLines, PopulateLine, Populated, Return, Typed
    <3>2. CASE BeginLine \/ ParseWord \/ ParseInvalid \/ EndLine
      BY <3>2 DEF BeginLine, ParseWord, ParseInvalid, EndLine, Return, Typed
    <3>3. CASE Unresolved
      BY <3>3 DEF Unresolved, Return
    <3> QED
      BY <1>1, <3>1, <3>2, <3>3
  <2> QED
    BY <2>1 DEF AgreeInv
<1>2. CASE ParsedAll
  <2>1. /\ phase' = "resolve" /\ next' = 1 /\ defined' = 0 /\ byte' = ProgStart
        /\ UNCHANGED <<symbols, labels>> /\ next' - 1 = 0
    BY <1>2 DEF ParsedAll
  <2>2. Bytes(symbols, 0) = 0 /\ Defs(symbols, 0) = 0
    <3>1. \A types : Of(symbols, types, 0) = {}
      BY DEF Of
    <3> QED
      BY <3>1, FS_EmptySet DEF Bytes, Defs
  <2>3. Len(symbols) \in Nat /\ Len(labels) \in Nat /\ ProgStart \in Nat
    BY Sizes DEF Typed
  <2>4. next' \in 1..Len(symbols) + 1 /\ ProgStart + 0 = ProgStart /\ 0 <= Len(labels)
    BY <2>1, <2>3
  <2>5. \A l \in 1..next' - 1 : FALSE
    BY <2>1
  <2>6. result' # "done"
    BY <1>2 DEF ParsedAll, Typed
  <2> QED
    BY <2>1, <2>2, <2>4, <2>5, <2>6 DEF AgreeInv
<1>3. CASE ResolveSymbol
  BY <1>3, AgreeResolve
<1>4. CASE Substitute
  <2>1. phase' = "write" \/ (phase' = "ended" /\ result' # "done")
    BY <1>4 DEF Substitute, Return
  <2>2. CASE phase' = "ended" /\ result' # "done"
    BY <2>2 DEF AgreeInv
  <2> QED
    BY <1>4, <2>1, <2>2, AgreeSubstitute
<1>5. CASE WriteSymbol
  BY <1>5, AgreeWrite
<1>6. CASE Written
  BY <1>6 DEF Written, Return, AgreeInv
<1>7. CASE UNCHANGED vars
  BY <1>7 DEF vars, AgreeInv
<1> QED
  BY <1>1, <1>2, <1>3, <1>4, <1>5, <1>6, <1>7 DEF Next

\* The bytes before a definition have been counted twice, with the same result.
LEMMA AgreeWrites == Typed /\ AgreeInv => PassesAgree
<1> SUFFICES ASSUME Typed, AgreeInv, phase = "write", next \in DOMAIN symbols,
                    symbols[next].type = "def",
                    Defs(symbols, next) \in DOMAIN labels
             PROVE  labels[Defs(symbols, next)].byte = ProgStart + byte
  <2>1. Defs(symbols, next) = Cardinality({l \in 1..next : symbols[l].type = "def"})
    BY DEF Defs, Of
  <2> QED
    BY <2>1 DEF PassesAgree
<1>1. /\ next \in 1..Len(symbols) /\ next - 1 \in Nat /\ next - 1 + 1 = next
      /\ byte = Bytes(symbols, next - 1)
  BY DEF Typed, AgreeInv
<1>2. Bytes(symbols, next) = Bytes(symbols, next - 1) + 0
  BY <1>1, Counted DEF Size
<1>3. Bytes(symbols, next - 1) \in Nat
  BY <1>1, Counted
<1> QED
  BY <1>1, <1>2, <1>3 DEF AgreeInv

\* The two passes that compute addresses agree: at a definition, c8_write stands where
\* c8_resolve_labels put the label, whatever the symbols are made of.
THEOREM LabelsAreWritten == Spec => []PassesAgree
<1>1. Init => AgreeInv
  BY DEF Init, Start, AgreeInv
<1> QED
  BY <1>1, AgreeWrites, InitTyped, TypedStep, AgreeStep, PTL DEF Spec

--------------------------------------------------------------------------------
\* Of a plain source p: the lines that define a label, and how many do up to line i.
DefLine(p, i) == i \in DOMAIN p /\ p[i] # <<>> /\ IsDefinition(p[i][Len(p[i])])
Place(p, i)   == Cardinality({j \in 1..i : DefLine(p, j)})

\* What c8_populate_labels has found, up to line n: the labels are the definitions.
Found(p, found, n) ==
  /\ Len(found) = Place(p, n)
  /\ \A j \in 1..n : DefLine(p, j) => found[Place(p, j)].text = <<Upper(p[j][1])>>
  /\ \A k \in DOMAIN found : \E j \in 1..n : DefLine(p, j) /\ Place(p, j) = k

LabelInv ==
  /\ phase = "labels" => line \in 1..Len(program) + 1
  /\ PlainLines /\ (phase # "ended" \/ result = "done") =>
       Found(program, labels, IF phase = "labels" THEN line - 1 ELSE Len(program))

\* A symbol that c8_resolve_labels or c8_write does more with than to count it on.
Solid(s) == s.type \in {"instruction", "db", "dw", "def"}

\* Line i has been parsed, or with w > 1 words of line n dealt with, begun.
Past(i, n, w) == i < n \/ (i = n /\ w > 1)

\* The symbols of line after line: those of a definition are one.
Ordered(p, syms, n, w) ==
  /\ \A q \in DOMAIN syms : Solid(syms[q]) =>
       /\ syms[q].ln \in DOMAIN p /\ Past(syms[q].ln, n, w)
       /\ syms[q].type = "def" <=> DefLine(p, syms[q].ln)
       /\ Refers(p[syms[q].ln]) => syms[q].type = "instruction"
  /\ \A q, r \in DOMAIN syms : q < r /\ Solid(syms[q]) /\ Solid(syms[r]) =>
       /\ syms[q].ln <= syms[r].ln
       /\ syms[q].ln = syms[r].ln => syms[q].type # "def"

\* Every definition has its symbol, and it is the k-th if the line is.
Defined(p, syms, n, w) ==
  /\ Defs(syms, Len(syms)) = Place(p, IF w > 1 THEN n ELSE n - 1)
  /\ \A q \in DOMAIN syms : syms[q].type = "def" => Defs(syms, q) = Place(p, syms[q].ln)
  /\ \A j \in DOMAIN p : DefLine(p, j) /\ Past(j, n, w) =>
       \E q \in DOMAIN syms : syms[q].type = "def" /\ syms[q].ln = j

\* The labels that a name means.
NamedIn(found, name) == {k \in DOMAIN found : found[k].text = <<Word("def", name)>>}

\* Behind the command of a reference come its registers, the label and nothing: what is
\* there when it has had so many words.
Operand(text, found, s, m) ==
  IF m + 1 < Len(text) THEN s.type \in {"v", "i"}
  ELSE LET named == NamedIn(found, text[Len(text)].of)
       IN  s.type = "label" /\ named # {} /\ s.value = Min(named)
Behind(text, syms, found, q, had) ==
  /\ q + had <= Len(syms) /\ syms[q + had].type = "null"
  /\ \A m \in 1..had - 1 : Operand(text, found, syms[q + m], m)

Referred(p, syms, found, n, w) ==
  \A q \in DOMAIN syms : syms[q].type = "instruction" /\ Refers(p[syms[q].ln]) =>
    IF syms[q].ln = n
    THEN Behind(p[n], syms, found, q, w - 1) /\ q + (w - 1) = Len(syms)
    ELSE LET text == p[syms[q].ln]
         IN  Behind(text, syms, found, q, Len(text))
               /\ (w > 0 => q + Len(text) < Len(syms))

\* With labels substituted, its last operand is an address.
Addressed(p, syms, found) ==
  \A q \in DOMAIN syms : syms[q].type = "instruction" /\ Refers(p[syms[q].ln]) =>
    LET text == p[syms[q].ln]
        name == text[Len(text)].of
    IN  /\ q + Len(text) <= Len(syms) /\ syms[q + Len(text)].type = "null"
        /\ \A m \in 1..Len(text) - 1 : syms[q + m].type \in Operands
        /\ NamedIn(found, name) # {}
        /\ syms[q + Len(text) - 1].value = found[Min(NamedIn(found, name))].byte % ValueSize

\* The inductive invariant of parsing a plain source without invalid words.
SourceInv ==
  Plain /\ ~reported /\ (phase \in {"parse", "resolve", "write"} \/ result = "done") =>
    /\ line \in 1..Len(program) + 1
    /\ line \in Lines => phase = "parse" /\ word <= Len(program[line]) + 1
    /\ line \notin Lines => word = 0
    /\ Ordered(program, symbols, line, word) /\ Defined(program, symbols, line, word)
    /\ IF phase \in {"parse", "resolve"} THEN Referred(program, symbols, labels, line, word)
                                         ELSE Addressed(program, symbols, labels)

\* What was written for line ln or later begins at byte b.
Begins(b, ln) ==
  /\ b <= byte /\ \A k \in DOMAIN out : out[k].ln > ln => b <= out[k].at
  /\ b = byte \/ \E k \in DOMAIN out : out[k].ln > ln /\ out[k].at = b

\* The inductive invariant of writing it: what is written is the commands' with their
\* operands, and behind a definition begins where the symbols before it end.
PlacedInv ==
  Plain /\ ~reported /\ (phase = "write" \/ result = "done") =>
    /\ \A k \in DOMAIN out :
         \E q \in DOMAIN symbols :
           /\ q < next /\ Solid(symbols[q]) /\ symbols[q].ln = out[k].ln
           /\ symbols[q].type = "instruction" =>
                out[k].args = Args(q)
    /\ \A q \in DOMAIN symbols :
         q < next /\ symbols[q].type = "def" => Begins(Bytes(symbols, q), symbols[q].ln)
    /\ result = "done" => next > Len(symbols)

\* One more line, one more definition if it is one.
LEMMA OneMoreLine ==
  ASSUME NEW p, NEW n \in Nat
  PROVE  /\ Place(p, n) \in Nat
         /\ Place(p, n + 1) = Place(p, n) + (IF DefLine(p, n + 1) THEN 1 ELSE 0)
<1> DEFINE S == {j \in Nat : DefLine(p, j)}
<1>1. /\ {j \in 1..n : DefLine(p, j)} = {l \in 1..n : l \in S}
      /\ {j \in 1..n + 1 : DefLine(p, j)} = {l \in 1..n + 1 : l \in S}
  OBVIOUS
<1>2. n + 1 \in S <=> DefLine(p, n + 1)
  OBVIOUS
<1> HIDE DEF S
<1>3. /\ Cardinality({l \in 1..n : l \in S}) \in Nat
      /\ Cardinality({l \in 1..n + 1 : l \in S}) =
           Cardinality({l \in 1..n : l \in S}) + (IF n + 1 \in S THEN 1 ELSE 0)
  BY OneMoreIn
<1> QED
  BY <1>1, <1>2, <1>3 DEF Place

\* Of two lines, the later has no fewer definitions up to it, and more if it is one.
LEMMA PlacesGrow ==
  ASSUME NEW p, NEW n \in Nat, NEW m \in 0..n
  PROVE  /\ Place(p, m) <= Place(p, n) /\ Place(p, m) \in Nat /\ Place(p, n) \in Nat
         /\ m < n /\ DefLine(p, n) => Place(p, m) < Place(p, n)
<1>1. \A k \in Nat : \A l \in 0..k : Place(p, l) <= Place(p, k) /\ Place(p, l) \in Nat
  <2> SUFFICES ASSUME NEW k \in Nat, NEW l \in 0..k
               PROVE  Place(p, l) <= Place(p, k) /\ Place(p, l) \in Nat
    OBVIOUS
  <2> DEFINE A == {j \in 1..k : DefLine(p, j)}
             B == {j \in 1..l : DefLine(p, j)}
  <2>1. B \subseteq A /\ IsFiniteSet(1..k) /\ A \subseteq 1..k
    BY FS_Interval
  <2>2. IsFiniteSet(A)
    BY <2>1, FS_Subset
  <2>3. Cardinality(B) <= Cardinality(A)
    BY <2>1, <2>2, FS_Subset
  <2>4. Place(p, l) \in Nat
    BY OneMoreLine
  <2> QED
    BY <2>3, <2>4 DEF Place
<1>2. CASE m < n /\ DefLine(p, n)
  <2>1. n - 1 \in Nat /\ n - 1 + 1 = n /\ m \in 0..n - 1
    BY <1>2
  <2>2. Place(p, n) = Place(p, n - 1) + 1
    BY <1>2, <2>1, OneMoreLine
  <2>3. Place(p, m) <= Place(p, n - 1) /\ Place(p, m) \in Nat /\ Place(p, n - 1) \in Nat
    BY <1>1, <2>1
  <2> QED
    BY <1>1, <2>2, <2>3
<1> QED
  BY <1>1, <1>2

\* Of a plain source a line with text is shown as it is, and a definition is one word.
LEMMA PlainText ==
  ASSUME IsSource(program), PlainLines, NEW i \in Lines
  PROVE  /\ Text(i) = program[i] /\ WordsOf(i) = program[i] /\ IsLine(program[i])
         /\ program[i] # <<>> => Len(program[i]) \in Nat \ {0}
         /\ DefLine(program, i) <=> program[i] # <<>> /\ IsDefinition(program[i][Len(program[i])])
         /\ DefLine(program, i) => Len(program[i]) = 1
         /\ \A k \in DOMAIN program[i] : IsDefinition(program[i][k]) =>
              k = 1 /\ DefLine(program, i)
<1> DEFINE ahead == {j \in i..Len(program) : program[j] # Blank}
<1>1. /\ Lines = 1..Len(program) /\ Len(program) \in Nat /\ IsLine(program[i])
      /\ DOMAIN program = Lines
  BY DEF IsSource, Lines
<1>2. ~AfterBlank(i)
  <2>1. i > 1 => i - 1 \in Lines
    BY <1>1
  <2> QED
    BY <2>1 DEF AfterBlank, PlainLines
<1>3. ahead # {} /\ ahead \subseteq Nat /\ i \in ahead
  BY <1>1 DEF PlainLines
<1>4. Min(ahead) \in ahead /\ Min(ahead) <= i
  BY <1>3, MinOf
<1>5. Min(ahead) = i
  BY <1>1, <1>4
<1>6. Text(i) = program[i] /\ WordsOf(i) = program[i]
  <2>1. Text(i) = program[Min(ahead)]
    BY <1>2, <1>3 DEF Text
  <2> QED
    BY <1>2, <1>5, <2>1 DEF WordsOf
<1>7. /\ program[i] \in Seq(Range(program[i])) /\ Len(program[i]) \in Nat
      /\ DOMAIN program[i] = 1..Len(program[i])
  BY <1>1 DEF IsLine
<1>8. program[i] # <<>> => Len(program[i]) \in Nat \ {0}
  BY <1>7
<1>9. DefLine(program, i) <=> program[i] # <<>> /\ IsDefinition(program[i][Len(program[i])])
  BY <1>1 DEF DefLine
<1>10. DefLine(program, i) => Len(program[i]) = 1
  BY <1>1, <1>7, <1>8, <1>9 DEF PlainLines
<1>11. ASSUME NEW k \in DOMAIN program[i], IsDefinition(program[i][k])
       PROVE  k = 1 /\ DefLine(program, i)
  <2>1. Len(program[i]) = 1
    BY <1>11, <1>1 DEF PlainLines
  <2> QED
    BY <1>7, <1>9, <1>11, <2>1
<1> QED
  BY <1>1, <1>6, <1>8, <1>9, <1>10, <1>11

\* A line more is looked at, and its label found if it defines one.
LEMMA FoundMore ==
  ASSUME NEW p, NEW found \in Seq(Labels), NEW n \in Nat, Found(p, found, n), NEW l \in Labels
  PROVE  /\ ~DefLine(p, n + 1) => Found(p, found, n + 1)
         /\ DefLine(p, n + 1) /\ l.text = <<Upper(p[n + 1][1])>>
              => Found(p, Append(found, l), n + 1)
<1>1. /\ Len(found) = Place(p, n) /\ Place(p, n) \in Nat
      /\ \A j \in 1..n : DefLine(p, j) => found[Place(p, j)].text = <<Upper(p[j][1])>>
      /\ \A k \in DOMAIN found : \E j \in 1..n : DefLine(p, j) /\ Place(p, j) = k
  BY OneMoreLine DEF Found
<1>2. CASE ~DefLine(p, n + 1)
  <2>1. Place(p, n + 1) = Place(p, n)
    BY <1>1, <1>2, OneMoreLine
  <2>2. \A j \in 1..n + 1 : DefLine(p, j) => j \in 1..n
    BY <1>2
  <2>3. \A j \in 1..n : j \in 1..n + 1
    OBVIOUS
  <2> QED
    BY <1>1, <1>2, <2>1, <2>2, <2>3 DEF Found
<1>3. CASE DefLine(p, n + 1) /\ l.text = <<Upper(p[n + 1][1])>>
  <2> DEFINE more == Append(found, l)
  <2>1. Place(p, n + 1) = Len(found) + 1
    BY <1>1, <1>3, OneMoreLine
  <2>2. /\ Len(more) = Len(found) + 1 /\ DOMAIN more = 1..Len(found) + 1
        /\ more[Len(found) + 1] = l /\ \A k \in 1..Len(found) : more[k] = found[k]
    OBVIOUS
  <2> HIDE DEF more
  <2>3. ASSUME NEW j \in 1..n + 1, DefLine(p, j)
        PROVE  more[Place(p, j)].text = <<Upper(p[j][1])>>
    <3>1. CASE j = n + 1
      BY <1>3, <2>1, <2>2, <3>1
    <3>2. CASE j \in 1..n
      <4>1. j \in Nat /\ j \in 0..n /\ 0 \in 0..j /\ 0 < j
        BY <3>2
      <4>2. Place(p, j) <= Place(p, n) /\ Place(p, j) \in Nat
        BY <4>1, PlacesGrow
      <4>3. Place(p, 0) < Place(p, j) /\ Place(p, 0) \in Nat
        BY <2>3, <4>1, PlacesGrow
      <4>4. Place(p, j) \in 1..Len(found)
        BY <1>1, <4>2, <4>3
      <4> QED
        BY <1>1, <2>2, <2>3, <3>2, <4>4
    <3> QED
      BY <3>1, <3>2
  <2>4. ASSUME NEW k \in DOMAIN more
        PROVE  \E j \in 1..n + 1 : DefLine(p, j) /\ Place(p, j) = k
    <3>1. CASE k = Len(found) + 1
      BY <1>3, <2>1, <3>1
    <3>2. CASE k \in DOMAIN found
      BY <1>1, <3>2
    <3> QED
      BY <2>2, <3>1, <3>2
  <2> QED
    BY <1>3, <2>1, <2>2, <2>3, <2>4 DEF Found, more
<1> QED
  BY <1>2, <1>3

\* Every definition looked at has its label.
LEMMA FoundLabel ==
  ASSUME NEW p, NEW n \in Nat, NEW found, Found(p, found, n), NEW j \in 1..n, DefLine(p, j)
  PROVE  Place(p, j) \in 1..Len(found)
<1>1. j \in Nat /\ j \in 0..n /\ 0 \in 0..j /\ 0 < j /\ 0 \in Nat
  OBVIOUS
<1>2. Place(p, j) <= Place(p, n) /\ Place(p, j) \in Nat /\ Place(p, n) \in Nat
  BY <1>1, PlacesGrow
<1>3. Place(p, 0) < Place(p, j) /\ Place(p, 0) \in Nat
  BY <1>1, PlacesGrow
<1> QED
  BY <1>2, <1>3 DEF Found

\* What was found stays found when labels get their addresses.
LEMMA FoundStays ==
  ASSUME NEW p, NEW n \in Nat, NEW found, NEW placed, Found(p, found, n),
         Len(placed) = Len(found), DOMAIN found = 1..Len(found), DOMAIN placed = DOMAIN found,
         \A k \in DOMAIN found : placed[k].text = found[k].text
  PROVE  Found(p, placed, n)
<1>1. \A j \in 1..n : DefLine(p, j) => Place(p, j) \in 1..Len(found)
  BY FoundLabel
<1> QED
  BY <1>1 DEF Found

\* Every step finds the labels of the lines it has looked at.
LEMMA LabelStep == Typed /\ LabelInv /\ [Next]_vars => LabelInv'
<1> SUFFICES ASSUME Typed, LabelInv, [Next]_vars PROVE LabelInv'
  OBVIOUS
<1>1. /\ UNCHANGED program /\ (PlainLines' <=> PlainLines) /\ Len(program) \in Nat
      /\ Lines = 1..Len(program) /\ IsSource(program) /\ labels \in Seq(Labels)
      /\ line \in Nat \ {0}
  <2>1. UNCHANGED program
    BY DEF Next, vars, NoValidLines, PopulateLine, Populated, BeginLine, ParseWord, ParseInvalid,
           EndLine, ParsedAll, ResolveSymbol, Unresolved, Substitute, WriteSymbol, Written
  <2>2. PlainLines' <=> PlainLines
    BY <2>1 DEF PlainLines, Lines
  <2> QED
    BY <2>1, <2>2 DEF Typed, IsSource, Lines
<1> DEFINE Ended == phase' = "ended" /\ result' # "done"
           Kept == /\ phase # "labels" /\ phase' # "labels" /\ UNCHANGED labels
                   /\ (phase' # "ended" \/ result' = "done" => phase # "ended" \/ result = "done")
<1>2. CASE NoValidLines \/ Unresolved
  BY <1>2 DEF NoValidLines, Unresolved, Return, LabelInv
<1>3. CASE PopulateLine
  <2> DEFINE text == Text(line)
  <2>1. phase = "labels" /\ line \in Lines
    BY <1>3 DEF PopulateLine
  <2>2. CASE Return("undefined") \/ Return("syntax")
    BY <2>2 DEF Return, LabelInv
  <2>3. CASE /\ text # <<>> /\ ~IsDefinition(text[Len(text)])
             /\ line' = line + 1 /\ UNCHANGED <<labels, phase, result>>
    <3>1. line' - 1 = line - 1 + 1 /\ line - 1 \in Nat /\ line - 1 + 1 = line
          /\ line' \in 1..Len(program) + 1
      BY <1>1, <2>1, <2>3
    <3>2. ASSUME PlainLines PROVE Found(program, labels, line)
      <4>1. ~DefLine(program, line)
        BY <1>1, <2>1, <2>3, <3>2, PlainText
      <4>2. Found(program, labels, line - 1) /\ line - 1 \in Nat /\ line - 1 + 1 = line
        BY <2>1, <3>1, <3>2 DEF LabelInv
      <4>4. Place(program, line) = Place(program, line - 1)
        BY <4>1, <4>2, OneMoreLine
      <4>5. \A j \in 1..line : DefLine(program, j) => j \in 1..line - 1
        BY <1>1, <4>1, <4>2
      <4>6. \A j \in 1..line - 1 : j \in 1..line
        BY <1>1
      <4> QED
        BY <4>2, <4>4, <4>5, <4>6 DEF Found
    <3> QED
      BY <1>1, <2>1, <2>3, <3>1, <3>2 DEF LabelInv
  <2>4. CASE /\ text # <<>> /\ IsDefinition(text[Len(text)]) /\ AddLabel(text)
             /\ line' = line + 1 /\ UNCHANGED <<phase, result>>
    <3>1. line' - 1 = line - 1 + 1 /\ line - 1 \in Nat /\ line - 1 + 1 = line
          /\ line' \in 1..Len(program) + 1
      BY <1>1, <2>1, <2>4
    <3>2. ASSUME PlainLines PROVE Found(program, labels', line)
      <4> DEFINE l == [text |-> [k \in DOMAIN text |-> Upper(text[k])], byte |-> 0]
      <4>1. /\ DefLine(program, line) /\ text = program[line] /\ Len(program[line]) = 1
            /\ IsLine(program[line])
        BY <1>1, <2>1, <2>4, <3>2, PlainText
      <4>2. Found(program, labels, line - 1)
        BY <2>1, <3>1, <3>2 DEF LabelInv
      <4>3. labels' = Append(labels, l)
        BY <2>4 DEF AddLabel
      <4>4. l \in Labels
        BY <2>1 DEF Labels, LabelTexts
      <4>5. l.text = <<Upper(program[line][1])>>
        <5>1. DOMAIN program[line] = 1..1
          BY <4>1 DEF IsLine
        <5>2. l.text = [k \in 1..1 |-> Upper(program[line][k])]
          BY <4>1, <5>1
        <5> QED
          BY <5>2
      <4> HIDE DEF l
      <4> QED
        BY <1>1, <3>1, <4>1, <4>2, <4>3, <4>4, <4>5, FoundMore
    <3> QED
      BY <1>1, <2>1, <2>4, <3>1, <3>2 DEF LabelInv
  <2> QED
    BY <1>3, <2>2, <2>3, <2>4 DEF PopulateLine
<1>4. CASE Populated
  <2>1. phase = "labels" /\ line > Len(program) /\ phase' = "parse" /\ UNCHANGED labels
    BY <1>4 DEF Populated
  <2>2. line - 1 = Len(program)
    BY <1>1, <2>1 DEF LabelInv
  <2> QED
    BY <1>1, <2>1, <2>2 DEF LabelInv
<1>5. CASE BeginLine \/ ParseWord \/ ParseInvalid \/ EndLine \/ ParsedAll
  <2>1. Kept
    <3>1. CASE BeginLine \/ ParseWord
      BY <3>1 DEF BeginLine, ParseWord
    <3>2. CASE ParseInvalid
      BY <3>2 DEF ParseInvalid, Return
    <3>3. CASE EndLine \/ ParsedAll
      BY <3>3 DEF EndLine, ParsedAll
    <3> QED
      BY <1>5, <3>1, <3>2, <3>3
  <2> QED
    BY <1>1, <2>1 DEF LabelInv
<1>6. CASE ResolveSymbol
  <2>1. /\ phase = "resolve" /\ phase' = "resolve" /\ defined < Len(labels) /\ defined \in Nat
        /\ labels' = [labels EXCEPT ![defined + 1].byte = byte] \/ UNCHANGED labels
    BY <1>6 DEF ResolveSymbol, Typed
  <2>2. CASE labels' = [labels EXCEPT ![defined + 1].byte = byte]
    <3>1. Len(labels') = Len(labels) /\ DOMAIN labels' = DOMAIN labels
          /\ DOMAIN labels = 1..Len(labels)
      BY <1>1, <2>2
    <3>2. \A k \in DOMAIN labels : labels'[k].text = labels[k].text
      <4> SUFFICES ASSUME NEW k \in DOMAIN labels PROVE labels'[k].text = labels[k].text
        OBVIOUS
      <4>1. labels[k] \in Labels
        BY <1>1
      <4>2. labels'[k] = labels[k] \/ labels'[k] = [labels[k] EXCEPT !.byte = byte]
        BY <1>1, <2>2
      <4> QED
        BY <4>1, <4>2 DEF Labels
    <3> QED
      BY <1>1, <2>1, <3>1, <3>2, FoundStays DEF LabelInv
  <2> QED
    BY <1>1, <2>1, <2>2 DEF LabelInv
<1>7. CASE Substitute \/ WriteSymbol \/ Written
  <2>1. Kept
    <3>1. CASE Substitute \/ Written
      BY <3>1 DEF Substitute, Written, Return
    <3>2. CASE WriteSymbol
      BY <3>2, Writes DEF Put, Refuse, Return
    <3> QED
      BY <1>7, <3>1, <3>2
  <2> QED
    BY <1>1, <2>1 DEF LabelInv
<1>8. CASE UNCHANGED vars
  BY <1>8 DEF vars, LabelInv, PlainLines, Lines
<1> QED
  BY <1>2, <1>3, <1>4, <1>5, <1>6, <1>7, <1>8 DEF Next

--------------------------------------------------------------------------------
\* What is known of a list of symbols is known of one that has the same solid symbols at
\* the same places, and of one that has more symbols at its end.
LEMMA SameCounts ==
  ASSUME NEW syms, NEW more, NEW n \in Nat,
         \A l \in 1..n : more[l].type = "def" <=> syms[l].type = "def"
  PROVE  Defs(more, n) = Defs(syms, n)
<1>1. Of(more, {"def"}, n) = Of(syms, {"def"}, n)
  BY DEF Of
<1> QED
  BY <1>1 DEF Defs

\* A word of line n has been parsed into the symbol that waits: the new symbol is the last
\* but one, and nothing is known of it but whether it is solid.
WordAdded(p, syms, more, n, w, u) ==
  /\ syms \in Seq(Symbols) /\ more \in Seq(Symbols) /\ n \in Nat \ {0} /\ n \in DOMAIN p
  /\ w \in Nat \ {0} /\ u \in Nat /\ u > w
  /\ Len(syms) >= 1 /\ Len(more) = Len(syms) + 1
  /\ \A k \in 1..Len(syms) - 1 : more[k] = syms[k]
  /\ syms[Len(syms)].type = "null" /\ more[Len(more)].type = "null"
  /\ more[Len(syms)].ln = n
  /\ more[Len(syms)].type = "def" <=> DefLine(p, n)
  /\ Refers(p[n]) /\ Solid(more[Len(syms)]) => more[Len(syms)].type = "instruction"
  /\ DefLine(p, n) => w = 1

\* The new symbol belongs behind those before.
LEMMA OrderedWord ==
  ASSUME NEW p, NEW syms, NEW more, NEW n, NEW w, NEW u,
         WordAdded(p, syms, more, n, w, u), Ordered(p, syms, n, w)
  PROVE  Ordered(p, more, n, u)
<1> DEFINE N == Len(syms)
<1>1. /\ N \in Nat \ {0} /\ DOMAIN syms = 1..N /\ DOMAIN more = 1..N + 1 /\ n \in Nat
      /\ w \in Nat \ {0} /\ u \in Nat /\ u > w
      /\ \A k \in 1..N - 1 : more[k] = syms[k]
      /\ more[N + 1].type = "null" /\ more[N].ln = n
      /\ more[N].type = "def" <=> DefLine(p, n)
      /\ Refers(p[n]) /\ Solid(more[N]) => more[N].type = "instruction"
      /\ DefLine(p, n) => w = 1 /\ n \in DOMAIN p
  BY DEF WordAdded
<1> HIDE DEF N
<1>2. ~Solid(more[N + 1])
  BY <1>1 DEF Solid
<1>3. \A q \in DOMAIN more : Solid(more[q]) => q = N \/ q \in 1..N - 1
  BY <1>1, <1>2
<1>4. \A q \in 1..N - 1 : Solid(syms[q]) =>
        /\ syms[q].ln \in DOMAIN p /\ Past(syms[q].ln, n, w)
        /\ syms[q].type = "def" <=> DefLine(p, syms[q].ln)
        /\ Refers(p[syms[q].ln]) => syms[q].type = "instruction"
  BY <1>1 DEF Ordered
<1>5. \A i : Past(i, n, w) => Past(i, n, u)
  BY <1>1 DEF Past
<1>6. Past(n, n, u) /\ n \in DOMAIN p
  BY <1>1 DEF Past, WordAdded
<1>7. \A q \in DOMAIN more : Solid(more[q]) =>
        /\ more[q].ln \in DOMAIN p /\ Past(more[q].ln, n, u)
        /\ more[q].type = "def" <=> DefLine(p, more[q].ln)
        /\ Refers(p[more[q].ln]) => more[q].type = "instruction"
  <2> SUFFICES ASSUME NEW q \in DOMAIN more, Solid(more[q])
               PROVE  /\ more[q].ln \in DOMAIN p /\ Past(more[q].ln, n, u)
                      /\ more[q].type = "def" <=> DefLine(p, more[q].ln)
                      /\ Refers(p[more[q].ln]) => more[q].type = "instruction"
    OBVIOUS
  <2>1. CASE q = N
    BY <1>1, <1>6, <2>1
  <2>2. CASE q \in 1..N - 1
    BY <1>1, <1>4, <1>5, <2>2
  <2> QED
    BY <1>3, <2>1, <2>2
<1>8. ASSUME NEW q \in DOMAIN more, NEW r \in DOMAIN more, q < r, Solid(more[q]), Solid(more[r])
      PROVE  /\ more[q].ln <= more[r].ln
             /\ more[q].ln = more[r].ln => more[q].type # "def"
  <2>1. q \in 1..N - 1 /\ more[q] = syms[q]
    BY <1>1, <1>3, <1>8
  <2>2. CASE r \in 1..N - 1
    BY <1>1, <1>8, <2>1, <2>2 DEF Ordered
  <2>3. CASE r = N
    <3>1. Past(syms[q].ln, n, w) /\ (syms[q].type = "def" => DefLine(p, syms[q].ln))
      BY <1>4, <1>8, <2>1
    <3>2. more[r].ln = n
      BY <1>1, <2>3
    <3>3. syms[q].ln < n \/ (syms[q].ln = n /\ w > 1)
      BY <3>1 DEF Past
    <3>4. CASE syms[q].ln < n
      <4>1. syms[q] \in Symbols
        BY <1>1, <2>1 DEF WordAdded
      <4>2. syms[q].ln \in Nat
        BY <4>1 DEF Symbols
      <4> QED
        BY <1>1, <2>1, <3>2, <3>4, <4>2
    <3>5. CASE syms[q].ln = n /\ w > 1
      BY <1>1, <2>1, <3>1, <3>2, <3>5
    <3> QED
      BY <3>3, <3>4, <3>5
  <2> QED
    BY <1>3, <1>8, <2>2, <2>3
<1> QED
  BY <1>7, <1>8 DEF Ordered

\* If it is a definition, it is the next, as the line is.
LEMMA DefinedWord ==
  ASSUME NEW p, NEW syms, NEW more, NEW n, NEW w, NEW u,
         WordAdded(p, syms, more, n, w, u), Defined(p, syms, n, w)
  PROVE  Defined(p, more, n, u)
<1> DEFINE N == Len(syms)
<1>1. /\ N \in Nat \ {0} /\ DOMAIN syms = 1..N /\ DOMAIN more = 1..N + 1 /\ n \in Nat \ {0}
      /\ w \in Nat \ {0} /\ u \in Nat /\ u > w /\ Len(more) = N + 1
      /\ \A k \in 1..N - 1 : more[k] = syms[k]
      /\ syms[N].type = "null" /\ more[N + 1].type = "null" /\ more[N].ln = n
      /\ more[N].type = "def" <=> DefLine(p, n)
      /\ DefLine(p, n) => w = 1
  BY DEF WordAdded
<1>2. /\ Defs(syms, N) = Place(p, IF w > 1 THEN n ELSE n - 1)
      /\ \A q \in 1..N : syms[q].type = "def" => Defs(syms, q) = Place(p, syms[q].ln)
      /\ \A j \in DOMAIN p : DefLine(p, j) /\ Past(j, n, w) =>
           \E q \in 1..N : syms[q].type = "def" /\ syms[q].ln = j
  BY <1>1 DEF Defined
<1> HIDE DEF N
<1>3. \A m \in 0..N - 1 : Defs(more, m) = Defs(syms, m)
  <2> SUFFICES ASSUME NEW m \in 0..N - 1 PROVE Defs(more, m) = Defs(syms, m)
    OBVIOUS
  <2>1. m \in Nat /\ \A l \in 1..m : more[l].type = syms[l].type
    BY <1>1
  <2> QED
    BY <2>1, SameCounts
<1>4. /\ N - 1 \in Nat /\ N - 1 + 1 = N /\ N - 1 \in 0..N - 1 /\ N \in Nat
      /\ n - 1 \in Nat /\ n - 1 + 1 = n
  BY <1>1
<1>5. Defs(syms, N) = Defs(syms, N - 1) /\ Defs(syms, N - 1) \in Nat
  <2>1. /\ Defs(syms, N - 1 + 1) =
             Defs(syms, N - 1) + (IF syms[N - 1 + 1].type = "def" THEN 1 ELSE 0)
        /\ Defs(syms, N - 1) \in Nat
    BY <1>4, Counted
  <2> QED
    BY <1>1, <1>4, <2>1
<1>6. Defs(more, N) = Defs(syms, N) + (IF DefLine(p, n) THEN 1 ELSE 0)
  <2>1. Defs(more, N - 1 + 1) =
          Defs(more, N - 1) + (IF more[N - 1 + 1].type = "def" THEN 1 ELSE 0)
    BY <1>4, Counted
  <2> QED
    BY <1>1, <1>3, <1>4, <1>5, <2>1
<1>7. Defs(more, N + 1) = Defs(more, N) /\ Defs(more, N) \in Nat
  <2>1. /\ Defs(more, N + 1) = Defs(more, N) + (IF more[N + 1].type = "def" THEN 1 ELSE 0)
        /\ Defs(more, N) \in Nat
    BY <1>4, Counted
  <2> QED
    BY <1>1, <2>1
<1>8. Defs(more, N) = Place(p, n)
  <2>1. /\ Place(p, n) = Place(p, n - 1) + (IF DefLine(p, n) THEN 1 ELSE 0)
        /\ Place(p, n - 1) \in Nat
    BY <1>4, OneMoreLine
  <2>2. CASE w = 1
    BY <1>1, <1>2, <1>6, <2>1, <2>2
  <2>3. CASE w > 1
    <3>1. ~DefLine(p, n)
      BY <1>1, <2>3
    <3>2. Defs(more, N) = Defs(syms, N)
      BY <1>4, <1>5, <1>6, <3>1
    <3> QED
      BY <1>2, <2>3, <3>2
  <2> QED
    BY <1>1, <2>2, <2>3
<1>9. u > 1
  BY <1>1
<1>10. \A q \in DOMAIN more : more[q].type = "def" => Defs(more, q) = Place(p, more[q].ln)
  <2> SUFFICES ASSUME NEW q \in DOMAIN more, more[q].type = "def"
               PROVE  Defs(more, q) = Place(p, more[q].ln)
    OBVIOUS
  <2>1. CASE q = N
    BY <1>1, <1>8, <2>1
  <2>2. CASE q \in 1..N - 1
    BY <1>1, <1>2, <1>3, <2>2
  <2>3. q # N + 1
    BY <1>1
  <2> QED
    BY <1>1, <2>1, <2>2, <2>3
<1>11. ASSUME NEW j \in DOMAIN p, DefLine(p, j), Past(j, n, u)
       PROVE  \E q \in DOMAIN more : more[q].type = "def" /\ more[q].ln = j
  <2>1. CASE j = n
    BY <1>1, <1>11, <2>1
  <2>2. CASE j # n
    <3>1. Past(j, n, w)
      BY <1>11, <2>2 DEF Past
    <3>2. PICK q \in 1..N : syms[q].type = "def" /\ syms[q].ln = j
      BY <1>2, <1>11, <3>1
    <3>3. q \in 1..N - 1
      BY <1>1, <3>2
    <3> QED
      BY <1>1, <3>2, <3>3
  <2> QED
    BY <2>1, <2>2
<1> QED
  BY <1>1, <1>7, <1>8, <1>9, <1>10, <1>11 DEF Defined

\* What stands behind a command depends on the symbols that are looked at only.
LEMMA BehindStays ==
  ASSUME NEW text, NEW syms, NEW more, NEW found, NEW q \in Nat, NEW had \in Nat \ {0},
         Behind(text, syms, found, q, had),
         Len(syms) \in Nat, Len(more) \in Nat, Len(more) >= Len(syms),
         \A k \in q + 1..q + had : more[k] = syms[k]
  PROVE  Behind(text, more, found, q, had)
<1>1. \A m \in 1..had : more[q + m] = syms[q + m]
  OBVIOUS
<1>2. \A m \in 1..had - 1 : m \in 1..had
  OBVIOUS
<1> QED
  BY <1>1, <1>2 DEF Behind

\* If the line is a reference, it is its command, an operand, or the label.
LEMMA ReferredWord ==
  ASSUME NEW p, NEW syms, NEW more, NEW found, NEW n, NEW w, NEW u,
         WordAdded(p, syms, more, n, w, u), Ordered(p, syms, n, w),
         Referred(p, syms, found, n, w),
         \A i \in DOMAIN p : Len(p[i]) \in Nat /\ (Refers(p[i]) => Len(p[i]) > 0),
         Refers(p[n]) =>
           /\ u = w + 1 /\ (more[Len(syms)].type = "instruction" => w = 1)
           /\ w > 1 => Operand(p[n], found, more[Len(syms)], w - 1)
  PROVE  Referred(p, more, found, n, u)
<1> DEFINE N == Len(syms)
<1>1. /\ N \in Nat \ {0} /\ DOMAIN syms = 1..N /\ DOMAIN more = 1..N + 1 /\ n \in Nat \ {0}
      /\ w \in Nat \ {0} /\ u \in Nat /\ u > w /\ Len(more) = N + 1 /\ Len(syms) = N
      /\ \A k \in 1..N - 1 : more[k] = syms[k]
      /\ syms[N].type = "null" /\ more[N + 1].type = "null" /\ more[N].ln = n
  BY DEF WordAdded
<1>2. Refers(p[n]) => /\ u = w + 1 /\ (more[N].type = "instruction" => w = 1)
                      /\ w > 1 => Operand(p[n], found, more[N], w - 1)
  OBVIOUS
<1> HIDE DEF N
<1> SUFFICES ASSUME NEW q \in DOMAIN more, more[q].type = "instruction", Refers(p[more[q].ln])
             PROVE  IF more[q].ln = n
                    THEN Behind(p[n], more, found, q, u - 1) /\ q + (u - 1) = Len(more)
                    ELSE LET text == p[more[q].ln]
                         IN  Behind(text, more, found, q, Len(text))
                               /\ (u > 0 => q + Len(text) < Len(more))
  BY DEF Referred
<1>3. CASE q = N
  <2>1. more[q].ln = n /\ u - 1 = 1
    BY <1>1, <1>2, <1>3
  <2>2. q + 1 = N + 1 /\ \A m \in 1..1 - 1 : FALSE
    BY <1>1, <1>3
  <2>3. Behind(p[n], more, found, q, 1) /\ q + 1 = Len(more)
    BY <1>1, <2>2 DEF Behind
  <2> QED
    BY <2>1, <2>3
<1>4. CASE q \in 1..N - 1
  <2>1. more[q] = syms[q] /\ q \in DOMAIN syms /\ Solid(syms[q]) /\ q \in Nat
        /\ syms[q].type = "instruction" /\ Refers(p[syms[q].ln])
    BY <1>1, <1>4 DEF Solid
  <2>2. CASE more[q].ln = n
    <3>1. Behind(p[n], syms, found, q, w - 1) /\ q + (w - 1) = N /\ Refers(p[n])
      BY <1>1, <2>1, <2>2 DEF Referred
    <3>2. w > 1 /\ u = w + 1
      <4>1. Past(n, n, w)
        BY <2>1, <2>2 DEF Ordered
      <4> QED
        BY <1>1, <1>2, <3>1, <4>1 DEF Past
    <3>3. q + (u - 1) = N + 1 /\ u - 1 = w /\ w - 1 \in Nat
      <4>1. u - 1 = w /\ w - 1 \in Nat /\ w \in Nat
        BY <1>1, <3>2
      <4>2. q \in Nat /\ N \in Nat /\ q + (w - 1) = N
        BY <1>1, <1>4, <3>1
      <4>3. q + w = N + 1
        BY <4>1, <4>2
      <4> QED
        BY <4>1, <4>3
    <3>4. ASSUME NEW m \in 1..w - 1
          PROVE  Operand(p[n], found, more[q + m], m)
      <4>1. CASE m = w - 1
        BY <1>2, <3>1, <3>2, <4>1
      <4>2. CASE m # w - 1
        <5>1. m \in 1..(w - 1) - 1 /\ q + m \in 1..N - 1
          BY <1>1, <1>4, <3>1, <4>2
        <5>2. more[q + m] = syms[q + m]
          BY <1>1, <5>1
        <5> QED
          BY <3>1, <5>1, <5>2 DEF Behind
      <4> QED
        BY <4>1, <4>2
    <3>5. Behind(p[n], more, found, q, w)
      BY <1>1, <3>3, <3>4 DEF Behind
    <3> QED
      BY <1>1, <2>2, <3>3, <3>5
  <2>3. CASE more[q].ln # n
    <3> DEFINE text == p[more[q].ln]
    <3>1. Behind(text, syms, found, q, Len(text)) /\ q + Len(text) < N
      BY <1>1, <2>1, <2>3 DEF Referred
    <3>2. Len(text) \in Nat \ {0}
      <4>1. more[q].ln \in DOMAIN p
        BY <2>1 DEF Ordered
      <4> QED
        BY <4>1
    <3> HIDE DEF text
    <3>3. \A k \in q + 1..q + Len(text) : k \in 1..N - 1
      BY <1>1, <1>4, <3>1, <3>2
    <3>4. \A k \in q + 1..q + Len(text) : more[k] = syms[k]
      BY <1>1, <3>3
    <3>5. Behind(text, more, found, q, Len(text)) /\ q + Len(text) < N + 1
      BY <1>1, <2>1, <3>1, <3>2, <3>4, BehindStays
    <3> QED
      BY <1>1, <2>3, <3>5 DEF text
  <2> QED
    BY <2>2, <2>3
<1>5. q # N + 1
  BY <1>1
<1> QED
  BY <1>1, <1>3, <1>4, <1>5

\* Line n has been begun: nothing solid comes behind the symbols, or, if the line is a string
\* and done, its characters.
LineAdded(p, syms, more, n, m, w) ==
  /\ syms \in Seq(Symbols) /\ more \in Seq(Symbols) /\ n \in Nat \ {0} /\ n \in DOMAIN p
  /\ Len(more) > Len(syms)
  /\ \A k \in 1..Len(syms) : more[k] = syms[k]
  /\ \A k \in Len(syms) + 1..Len(more) - 1 : more[k].type = "db" /\ more[k].ln = n
  /\ more[Len(more)].type = "null"
  /\ \/ m = n /\ w = 1 /\ Len(more) = Len(syms) + 1
     \/ m = n + 1 /\ w = 0 /\ ~DefLine(p, n) /\ ~Refers(p[n])

\* They belong behind those before,
LEMMA OrderedLine ==
  ASSUME NEW p, NEW syms, NEW more, NEW n, NEW m, NEW w,
         LineAdded(p, syms, more, n, m, w), Ordered(p, syms, n, 0)
  PROVE  Ordered(p, more, m, w)
<1> DEFINE N == Len(syms)
           M == Len(more)
<1>1. /\ N \in Nat /\ M \in Nat /\ M > N /\ DOMAIN syms = 1..N /\ DOMAIN more = 1..M
      /\ n \in Nat \ {0} /\ n \in DOMAIN p
      /\ \A k \in 1..N : more[k] = syms[k]
      /\ \A k \in N + 1..M - 1 : more[k].type = "db" /\ more[k].ln = n
      /\ more[M].type = "null"
      /\ \/ m = n /\ w = 1 /\ M = N + 1
         \/ m = n + 1 /\ w = 0 /\ ~DefLine(p, n) /\ ~Refers(p[n])
  BY DEF LineAdded
<1>2. \A q \in 1..N : Solid(syms[q]) =>
        /\ syms[q].ln \in DOMAIN p /\ syms[q].ln < n /\ syms[q].ln \in Nat
        /\ syms[q].type = "def" <=> DefLine(p, syms[q].ln)
        /\ Refers(p[syms[q].ln]) => syms[q].type = "instruction"
  <2> SUFFICES ASSUME NEW q \in 1..N, Solid(syms[q])
               PROVE  /\ syms[q].ln \in DOMAIN p /\ syms[q].ln < n /\ syms[q].ln \in Nat
                      /\ syms[q].type = "def" <=> DefLine(p, syms[q].ln)
                      /\ Refers(p[syms[q].ln]) => syms[q].type = "instruction"
    OBVIOUS
  <2>1. syms \in Seq(Symbols) /\ q \in DOMAIN syms
    BY <1>1 DEF LineAdded
  <2>2. syms[q] \in Symbols
    BY <2>1
  <2>3. syms[q].ln \in Nat
    BY <2>2 DEF Symbols
  <2>4. /\ syms[q].ln \in DOMAIN p /\ Past(syms[q].ln, n, 0)
        /\ syms[q].type = "def" <=> DefLine(p, syms[q].ln)
        /\ Refers(p[syms[q].ln]) => syms[q].type = "instruction"
    BY <2>1 DEF Ordered
  <2>5. syms[q].ln < n
    BY <2>4 DEF Past
  <2> QED
    BY <2>3, <2>4, <2>5
<1> HIDE DEF N, M
<1>3. \A q \in DOMAIN more : Solid(more[q]) =>
        \/ q \in 1..N /\ more[q] = syms[q]
        \/ q \in N + 1..M - 1 /\ m = n + 1
  <2>1. ~Solid(more[M])
    BY <1>1 DEF Solid
  <2>2. M = N + 1 => \A q \in N + 1..M - 1 : FALSE
    BY <1>1
  <2> QED
    BY <1>1, <2>1, <2>2
<1>4. \A i \in Nat : i < n => Past(i, m, w)
  BY <1>1 DEF Past
<1>5. m = n + 1 => Past(n, m, w) /\ ~DefLine(p, n) /\ ~Refers(p[n])
  BY <1>1 DEF Past
<1>6. ASSUME NEW q \in DOMAIN more, Solid(more[q])
      PROVE  /\ more[q].ln \in DOMAIN p /\ Past(more[q].ln, m, w)
             /\ more[q].type = "def" <=> DefLine(p, more[q].ln)
             /\ Refers(p[more[q].ln]) => more[q].type = "instruction"
  <2>1. CASE q \in 1..N /\ more[q] = syms[q]
    BY <1>2, <1>4, <1>6, <2>1
  <2>2. CASE q \in N + 1..M - 1 /\ m = n + 1
    BY <1>1, <1>5, <2>2
  <2> QED
    BY <1>3, <1>6, <2>1, <2>2
<1>7. ASSUME NEW q \in DOMAIN more, NEW r \in DOMAIN more, q < r, Solid(more[q]), Solid(more[r])
      PROVE  /\ more[q].ln <= more[r].ln
             /\ more[q].ln = more[r].ln => more[q].type # "def"
  <2>1. CASE q \in 1..N /\ r \in 1..N
    BY <1>1, <1>7, <2>1 DEF Ordered
  <2>2. CASE q \in 1..N /\ r \in N + 1..M - 1
    BY <1>1, <1>2, <1>7, <2>2
  <2>3. CASE q \in N + 1..M - 1 /\ r \in N + 1..M - 1
    BY <1>1, <2>3
  <2>4. ~(q \in N + 1..M - 1 /\ r \in 1..N)
    BY <1>1, <1>7
  <2> QED
    BY <1>3, <1>7, <2>1, <2>2, <2>3, <2>4
<1> QED
  BY <1>6, <1>7 DEF Ordered

\* define nothing,
LEMMA DefinedLine ==
  ASSUME NEW p, NEW syms, NEW more, NEW n, NEW m, NEW w,
         DOMAIN p \subseteq Nat, LineAdded(p, syms, more, n, m, w), Defined(p, syms, n, 0)
  PROVE  Defined(p, more, m, w)
<1> DEFINE N == Len(syms)
           M == Len(more)
<1>1. /\ N \in Nat /\ M \in Nat /\ M > N /\ DOMAIN syms = 1..N /\ DOMAIN more = 1..M
      /\ n \in Nat \ {0} /\ n \in DOMAIN p
      /\ \A k \in 1..N : more[k] = syms[k]
      /\ \A k \in N + 1..M - 1 : more[k].type = "db" /\ more[k].ln = n
      /\ more[M].type = "null"
      /\ \/ m = n /\ w = 1 /\ M = N + 1
         \/ m = n + 1 /\ w = 0 /\ ~DefLine(p, n) /\ ~Refers(p[n])
  BY DEF LineAdded
<1>2. /\ Defs(syms, N) = Place(p, n - 1)
      /\ \A q \in 1..N : syms[q].type = "def" => Defs(syms, q) = Place(p, syms[q].ln)
      /\ \A j \in DOMAIN p : DefLine(p, j) /\ Past(j, n, 0) =>
           \E q \in 1..N : syms[q].type = "def" /\ syms[q].ln = j
  <2>1. (IF 0 > 1 THEN n ELSE n - 1) = n - 1
    OBVIOUS
  <2> QED
    BY <1>1, <2>1 DEF Defined
<1>3. Len(more) = M
  OBVIOUS
<1> HIDE DEF N, M
<1>4. \A q \in 1..M : more[q].type = "def" => q \in 1..N /\ more[q] = syms[q]
  <2> SUFFICES ASSUME NEW q \in 1..M, more[q].type = "def" PROVE q \in 1..N
    BY <1>1
  <2>1. q # M /\ q \notin N + 1..M - 1
    BY <1>1
  <2> QED
    BY <1>1, <2>1
<1>5. Defs(more, M) = Defs(syms, N)
  <2>1. Of(more, {"def"}, M) = Of(syms, {"def"}, N)
    <3>1. \A q \in 1..N : q \in 1..M /\ more[q] = syms[q]
      BY <1>1
    <3> QED
      BY <1>4, <3>1 DEF Of
  <2> QED
    BY <2>1 DEF Defs
<1>6. Place(p, IF w > 1 THEN m ELSE m - 1) = Place(p, n - 1)
  <2>1. n - 1 \in Nat /\ n - 1 + 1 = n
    BY <1>1
  <2>2. ~DefLine(p, n) => Place(p, n) = Place(p, n - 1)
    BY <2>1, OneMoreLine
  <2> QED
    BY <1>1, <2>2
<1>7. ASSUME NEW q \in DOMAIN more, more[q].type = "def"
      PROVE  Defs(more, q) = Place(p, more[q].ln)
  <2>1. q \in 1..N /\ more[q] = syms[q]
    BY <1>1, <1>4, <1>7
  <2>2. q \in Nat /\ \A l \in 1..q : more[l].type = syms[l].type
    BY <1>1, <2>1
  <2>3. Defs(more, q) = Defs(syms, q)
    BY <2>2, SameCounts
  <2> QED
    BY <1>2, <1>7, <2>1, <2>3
<1>8. ASSUME NEW j \in DOMAIN p, DefLine(p, j), Past(j, m, w)
      PROVE  \E q \in DOMAIN more : more[q].type = "def" /\ more[q].ln = j
  <2>4. j < n
    <3>1. j \in Nat /\ n \in Nat
      BY <1>1
    <3>2. m = n /\ w = 1 => j < n
      BY <1>8, <3>1 DEF Past
    <3>3. m = n + 1 /\ w = 0 /\ ~DefLine(p, n) => j < n
      BY <1>8, <3>1 DEF Past
    <3> QED
      BY <1>1, <3>2, <3>3
  <2>5. Past(j, n, 0)
    BY <2>4 DEF Past
  <2>2. PICK q \in 1..N : syms[q].type = "def" /\ syms[q].ln = j
    BY <1>2, <1>8, <2>5
  <2>3. q \in DOMAIN more /\ more[q] = syms[q]
    BY <1>1, <2>2
  <2> QED
    BY <2>2, <2>3
<1>9. Defs(more, Len(more)) = Place(p, IF w > 1 THEN m ELSE m - 1)
  BY <1>2, <1>3, <1>5, <1>6
<1> QED
  BY <1>7, <1>8, <1>9 DEF Defined

\* and are no part of a reference.
LEMMA ReferredLine ==
  ASSUME NEW p, NEW syms, NEW more, NEW found, NEW n, NEW m, NEW w,
         LineAdded(p, syms, more, n, m, w), Ordered(p, syms, n, 0),
         Referred(p, syms, found, n, 0),
         \A i \in DOMAIN p : Len(p[i]) \in Nat /\ (Refers(p[i]) => Len(p[i]) > 0)
  PROVE  Referred(p, more, found, m, w)
<1> DEFINE N == Len(syms)
           M == Len(more)
<1>1. /\ N \in Nat /\ M \in Nat /\ M > N /\ DOMAIN syms = 1..N /\ DOMAIN more = 1..M
      /\ n \in Nat \ {0} /\ n \in DOMAIN p /\ Len(more) = M /\ Len(syms) = N
      /\ \A k \in 1..N : more[k] = syms[k]
      /\ \A k \in N + 1..M - 1 : more[k].type = "db" /\ more[k].ln = n
      /\ more[M].type = "null"
      /\ m \in {n, n + 1}
  BY DEF LineAdded
<1> HIDE DEF N, M
<1> SUFFICES ASSUME NEW q \in DOMAIN more, more[q].type = "instruction", Refers(p[more[q].ln])
             PROVE  LET text == p[more[q].ln]
                    IN  /\ more[q].ln # m /\ Behind(text, more, found, q, Len(text))
                        /\ q + Len(text) < Len(more)
  BY DEF Referred
<1>2. q \in 1..N /\ more[q] = syms[q]
  BY <1>1
<1>3. Solid(syms[q]) /\ q \in DOMAIN syms /\ syms[q] \in Symbols
  BY <1>1, <1>2 DEF Solid, LineAdded
<1>4. more[q].ln \in Nat /\ more[q].ln < n /\ more[q].ln \in DOMAIN p
  <2>1. syms[q].ln \in Nat
    BY <1>3 DEF Symbols
  <2> QED
    BY <1>2, <1>3, <2>1 DEF Ordered, Past
<1> DEFINE text == p[more[q].ln]
<1>5. Behind(text, syms, found, q, Len(text))
  BY <1>1, <1>2, <1>3, <1>4 DEF Referred
<1>6. Len(text) \in Nat \ {0}
  BY <1>4
<1> HIDE DEF text
<1>7. q + Len(text) <= N
  BY <1>1, <1>5 DEF Behind
<1>8. \A k \in q + 1..q + Len(text) : more[k] = syms[k]
  BY <1>1, <1>2, <1>6, <1>7
<1>9. Behind(text, more, found, q, Len(text))
  BY <1>1, <1>2, <1>5, <1>6, <1>8, BehindStays
<1> QED
  BY <1>1, <1>2, <1>4, <1>6, <1>7, <1>9 DEF text

\* The line is done, and the next comes.
LEMMA LineEnded ==
  ASSUME NEW p, NEW syms \in Seq(Symbols), NEW found, NEW n \in Nat \ {0}, NEW w \in Nat, w > 1,
         DOMAIN p \subseteq Nat, w = Len(p[n]) + 1, Len(p[n]) \in Nat,
         Ordered(p, syms, n, w), Defined(p, syms, n, w), Referred(p, syms, found, n, w)
  PROVE  Ordered(p, syms, n + 1, 0) /\ Defined(p, syms, n + 1, 0) /\ Referred(p, syms, found, n + 1, 0)
<1>1. \A i \in Nat : Past(i, n, w) <=> Past(i, n + 1, 0)
  BY DEF Past
<1>2. Ordered(p, syms, n + 1, 0)
  BY <1>1 DEF Ordered
<1>3. Defined(p, syms, n + 1, 0)
  <2>1. (IF w > 1 THEN n ELSE n - 1) = (IF 0 > 1 THEN n + 1 ELSE n + 1 - 1)
    OBVIOUS
  <2> QED
    BY <1>1, <2>1 DEF Defined
<1>4. Referred(p, syms, found, n + 1, 0)
  <2> SUFFICES ASSUME NEW q \in DOMAIN syms, syms[q].type = "instruction", Refers(p[syms[q].ln])
               PROVE  LET text == p[syms[q].ln]
                      IN  syms[q].ln # n + 1 /\ Behind(text, syms, found, q, Len(text))
    BY DEF Referred
  <2>1. syms[q].ln \in Nat /\ Past(syms[q].ln, n, w)
    BY DEF Ordered, Solid
  <2>2. syms[q].ln # n + 1
    BY <2>1 DEF Past
  <2>3. CASE syms[q].ln = n
    <3>1. Behind(p[n], syms, found, q, w - 1) /\ w - 1 = Len(p[n])
      BY <2>3 DEF Referred
    <3> QED
      BY <2>2, <2>3, <3>1
  <2>4. CASE syms[q].ln # n
    BY <2>2, <2>4 DEF Referred
  <2> QED
    BY <2>3, <2>4
<1> QED
  BY <1>2, <1>3, <1>4

\* What a valid word is parsed into.
LEMMA ParsedKind ==
  ASSUME NEW w, IsWord(w), Valid(w), w.is # "string", NEW following, NEW old
  PROVE  /\ Parsed(w, following, old).ln = line
         /\ Parsed(w, following, old).type = "def" <=> IsDefinition(w)
         /\ Parsed(w, following, old).type = "instruction" <=> w.is = "instruction"
         /\ w.is = "register" => Parsed(w, following, old).type = "v"
         /\ w.is = "reserved" => Parsed(w, following, old).type = w.of
         /\ w.is = "name" => /\ Parsed(w, following, old).type = "label"
                             /\ Named(w.of) # {}
                             /\ Parsed(w, following, old).value = Min(Named(w.of))
         /\ w.is \notin {"db", "dw"} => Taken(w, following) = 1
<1> DEFINE s == Parsed(w, following, old)
<1>1. \A t, v, l : /\ Symbol(t, v, l).type = t /\ Symbol(t, v, l).value = v
                   /\ Symbol(t, v, l).ln = l
  BY DEF Symbol
<1>2. w.is \in WordKinds \ {"string", "space", "other"}
  BY DEF IsWord, Valid, WordKinds
<1>3. CASE w.is = "def"
  <2>1. s = Symbol("def", old.value, line)
    BY <1>3 DEF Parsed
  <2> QED
    BY <1>1, <1>3, <2>1 DEF IsDefinition, Taken
<1>4. CASE w.is = "instruction"
  <2>1. s = Symbol("instruction", w.of, line)
    BY <1>4 DEF Parsed
  <2> QED
    BY <1>1, <1>4, <2>1 DEF IsDefinition, Taken
<1>5. CASE w.is \in {"db", "dw"}
  <2>1. \E v : s = Symbol(w.is, v, line)
    BY <1>5 DEF Parsed
  <2> QED
    BY <1>1, <1>5, <2>1 DEF IsDefinition, Taken
<1>6. CASE w.is = "register"
  <2>1. s = Symbol("v", w.of, line)
    BY <1>6 DEF Parsed
  <2> QED
    BY <1>1, <1>6, <2>1 DEF IsDefinition, Taken
<1>7. CASE w.is = "reserved"
  <2>1. s = Symbol(w.of, old.value, line) /\ w.of \in Reserved
    BY <1>7 DEF Parsed, IsWord
  <2> QED
    BY <1>1, <1>7, <2>1 DEF IsDefinition, Taken, Reserved
<1>8. CASE w.is = "number"
  <2>1. s = Symbol(IntType(w.of), w.of % ValueSize, line)
    BY <1>8 DEF Parsed
  <2>2. IntType(w.of) \in {"int4", "int8", "int12", "int"}
    BY DEF IntType
  <2>3. s.type \in {"int4", "int8", "int12", "int"} /\ s.ln = line
    BY <1>1, <2>1, <2>2
  <2> QED
    BY <1>8, <2>3 DEF IsDefinition, Taken
<1>9. CASE w.is = "name"
  <2>1. s = Symbol("label", Min(Named(w.of)), line) /\ Named(w.of) # {}
    BY <1>9 DEF Parsed, Valid
  <2> QED
    BY <1>1, <1>9, <2>1 DEF IsDefinition, Taken
<1> QED
  BY <1>2, <1>3, <1>4, <1>5, <1>6, <1>7, <1>8, <1>9 DEF WordKinds

\* What the lines of a source are to the lemmas above.
LEMMA SourceLines ==
  ASSUME IsSource(program)
  PROVE  /\ DOMAIN program = 1..Len(program) /\ Len(program) \in Nat /\ DOMAIN program \subseteq Nat
         /\ Lines = DOMAIN program
         /\ \A i \in DOMAIN program :
              /\ IsLine(program[i]) /\ Len(program[i]) \in Nat
              /\ DOMAIN program[i] = 1..Len(program[i])
              /\ program[i] # <<>> => Len(program[i]) > 0
              /\ Refers(program[i]) => Len(program[i]) > 0
<1>1. /\ DOMAIN program = 1..Len(program) /\ Len(program) \in Nat
      /\ Lines = DOMAIN program
  BY DEF IsSource, Lines
<1>2. ASSUME NEW i \in DOMAIN program
      PROVE  /\ IsLine(program[i]) /\ Len(program[i]) \in Nat
             /\ DOMAIN program[i] = 1..Len(program[i])
             /\ program[i] # <<>> => Len(program[i]) > 0
  <2>1. IsLine(program[i]) /\ program[i] \in Seq(Range(program[i]))
    BY DEF IsSource, IsLine
  <2> QED
    BY <2>1
<1> QED
  BY <1>1, <1>2 DEF Refers

\* Beginning a line of a plain source keeps SourceInv,
LEMMA SourceBegin ==
  ASSUME Typed, SourceInv, BeginLine
  PROVE  SourceInv'
<1> SUFFICES ASSUME PlainLines', NotEnlarged', ~reported'
             PROVE  /\ line' \in 1..Len(program') + 1
                    /\ line' \in Lines' => phase' = "parse" /\ word' <= Len(program'[line']) + 1
                    /\ line' \notin Lines' => word' = 0
                    /\ Ordered(program', symbols', line', word')
                    /\ Defined(program', symbols', line', word')
                    /\ IF phase' \in {"parse", "resolve"}
                       THEN Referred(program', symbols', labels', line', word')
                       ELSE Addressed(program', symbols', labels')
  BY DEF SourceInv, Plain
<1>1. /\ phase = "parse" /\ line \in Lines /\ word = 0
      /\ UNCHANGED <<program, phase, labels, reported>>
      /\ \/ WordsOf(line)[1].is = "string" /\ line' = line + 1 /\ word' = 0
         \/ WordsOf(line)[1].is # "string" /\ line' = line /\ word' = 1
  BY LineBegun
<1>2. PICK q \in Seq(Symbols) :
        /\ Len(q) >= Len(symbols) /\ \A k \in 1..Len(symbols) : q[k] = symbols[k]
        /\ \A k \in Len(symbols) + 1..Len(q) : q[k] = Symbol("db", 1, line)
        /\ Len(q) > Len(symbols) => WordsOf(line)[1].is = "string"
        /\ \E s \in Fresh(Len(q) + 1) : symbols' = Append(q, s)
  BY LineBegun
<1>3. IsSource(program) /\ symbols \in Seq(Symbols) /\ line \in Nat \ {0}
  BY DEF Typed
<1>4. PlainLines /\ Lines' = Lines
  BY <1>1 DEF PlainLines, Lines
<1>5. /\ DOMAIN program = 1..Len(program) /\ Len(program) \in Nat
      /\ DOMAIN program \subseteq Nat /\ Lines = DOMAIN program
      /\ \A i \in DOMAIN program :
           Len(program[i]) \in Nat /\ (Refers(program[i]) => Len(program[i]) > 0)
  BY <1>3, SourceLines
<1>6. /\ symbols' \in Seq(Symbols) /\ Len(symbols') = Len(q) + 1 /\ symbols'[Len(symbols')] = Null
      /\ \A k \in 1..Len(q) : symbols'[k] = q[k]
  <2>1. PICK s \in Fresh(Len(q) + 1) : symbols' = Append(q, s)
    BY <1>2
  <2>2. s \in Symbols
    BY <2>1, FreshSymbols
  <2>3. symbols'[Len(symbols')] = Null
    BY <2>1, LastIsFresh
  <2> QED
    BY <2>1, <2>2, <2>3
<1>7. NotEnlarged
  BY <1>2, <1>3, <1>6, Sizes DEF NotEnlarged
<1>8. /\ Ordered(program, symbols, line, 0) /\ Defined(program, symbols, line, 0)
      /\ Referred(program, symbols, labels, line, 0)
  BY <1>1, <1>4, <1>7 DEF SourceInv, Plain
<1>9. WordsOf(line)[1].is = "string" => ~DefLine(program, line) /\ ~Refers(program[line])
  <2> SUFFICES ASSUME WordsOf(line)[1].is = "string"
               PROVE  ~DefLine(program, line) /\ ~Refers(program[line])
    OBVIOUS
  <2>1. /\ WordsOf(line) = program[line]
        /\ DefLine(program, line) =>
             Len(program[line]) = 1 /\ IsDefinition(program[line][Len(program[line])])
    BY <1>1, <1>3, <1>4, PlainText
  <2> QED
    BY <2>1 DEF IsDefinition, Refers
<1>10. LineAdded(program, symbols, symbols', line, line', word')
  <2>1. Len(symbols') > Len(symbols) /\ \A k \in 1..Len(symbols) : symbols'[k] = symbols[k]
    BY <1>2, <1>3, <1>6
  <2>2. \A k \in Len(symbols) + 1..Len(symbols') - 1 :
          symbols'[k].type = "db" /\ symbols'[k].ln = line
    BY <1>2, <1>3, <1>6 DEF Symbol
  <2>3. symbols'[Len(symbols')].type = "null"
    BY <1>6 DEF Null, Symbol
  <2>4. \/ line' = line /\ word' = 1 /\ Len(symbols') = Len(symbols) + 1
        \/ line' = line + 1 /\ word' = 0 /\ ~DefLine(program, line) /\ ~Refers(program[line])
    <3>1. Len(q) \in Nat /\ Len(symbols) \in Nat
      BY <1>3
    <3> QED
      BY <1>1, <1>2, <1>6, <1>9, <3>1
  <2> QED
    BY <1>1, <1>3, <1>5, <1>6, <2>1, <2>2, <2>3, <2>4 DEF LineAdded
<1>11. /\ Ordered(program, symbols', line', word') /\ Defined(program, symbols', line', word')
       /\ Referred(program, symbols', labels, line', word')
  BY <1>5, <1>8, <1>10, OrderedLine, DefinedLine, ReferredLine
<1>12. line' \in 1..Len(program) + 1 /\ (line' \in Lines => word' <= Len(program[line']) + 1)
       /\ (line' \notin Lines => word' = 0)
  BY <1>1, <1>5
<1> QED
  BY <1>1, <1>4, <1>11, <1>12

\* and so does a word of it,
LEMMA SourceWord ==
  ASSUME Typed, FitsInv, SourceInv, ParseWord
  PROVE  SourceInv'
<1> SUFFICES ASSUME PlainLines', NotEnlarged', ~reported'
             PROVE  /\ line' \in 1..Len(program') + 1
                    /\ line' \in Lines' => phase' = "parse" /\ word' <= Len(program'[line']) + 1
                    /\ line' \notin Lines' => word' = 0
                    /\ Ordered(program', symbols', line', word')
                    /\ Defined(program', symbols', line', word')
                    /\ IF phase' \in {"parse", "resolve"}
                       THEN Referred(program', symbols', labels', line', word')
                       ELSE Addressed(program', symbols', labels')
  BY DEF SourceInv, Plain
<1> DEFINE N         == Len(symbols)
           text      == program[line]
           following == SubSeq(WordsOf(line), word + 1, Len(WordsOf(line)))
           new       == Parsed(WordsOf(line)[word], following, symbols[N])
<1>1. /\ phase = "parse" /\ line \in Lines /\ word \in DOMAIN WordsOf(line)
      /\ Valid(WordsOf(line)[word]) /\ symbols # <<>>
      /\ IsLine(WordsOf(line)) /\ IsWord(WordsOf(line)[word])
      /\ word \in Nat \ {0} /\ WordsOf(line)[word].is # "string"
      /\ word' = word + Taken(WordsOf(line)[word], following)
      /\ UNCHANGED <<program, phase, line, labels, reported>>
  BY WordParsed
<1>2. PICK q \in Seq(Symbols) :
        /\ Len(q) = N /\ \A k \in 1..N - 1 : q[k] = symbols[k]
        /\ q[N] = new
        /\ \E s \in Fresh(Len(q) + 1) : symbols' = Append(q, s)
  BY WordParsed
<1>3. IsSource(program) /\ symbols \in Seq(Symbols) /\ line \in Nat \ {0} /\ N \in Nat \ {0}
  BY <1>1 DEF Typed
<1>4. PlainLines /\ Lines' = Lines
  BY <1>1 DEF PlainLines, Lines
<1>5. /\ DOMAIN program = 1..Len(program) /\ Len(program) \in Nat /\ Lines = DOMAIN program
      /\ \A i \in DOMAIN program :
           Len(program[i]) \in Nat /\ (Refers(program[i]) => Len(program[i]) > 0)
  BY <1>3, SourceLines
<1>6. WordsOf(line) = text /\ Len(text) \in Nat /\ word \in 1..Len(text)
  BY <1>1, <1>3, <1>4, PlainText, SourceLines
<1>7. /\ symbols' \in Seq(Symbols) /\ Len(symbols') = N + 1 /\ symbols'[N + 1] = Null
      /\ \A k \in 1..N : symbols'[k] = q[k]
  <2>1. PICK s \in Fresh(Len(q) + 1) : symbols' = Append(q, s)
    BY <1>2
  <2>2. s \in Symbols
    BY <2>1, FreshSymbols
  <2>3. symbols'[Len(symbols')] = Null
    BY <2>1, LastIsFresh
  <2> HIDE DEF N
  <2> QED
    BY <1>2, <2>1, <2>2, <2>3
<1>8. NotEnlarged /\ symbols[N] = Null
  <2>1. NotEnlarged
    BY <1>3, <1>7, Sizes DEF NotEnlarged
  <2> QED
    BY <1>1, <2>1 DEF FitsInv
<1>9. /\ Ordered(program, symbols, line, word) /\ Defined(program, symbols, line, word)
      /\ Referred(program, symbols, labels, line, word)
  BY <1>1, <1>4, <1>8 DEF SourceInv, Plain
<1>10. /\ new.ln = line
       /\ new.type = "def" <=> IsDefinition(text[word])
       /\ new.type = "instruction" <=> text[word].is = "instruction"
       /\ text[word].is = "register" => new.type = "v"
       /\ text[word].is = "reserved" => new.type = text[word].of
       /\ text[word].is = "name" => /\ new.type = "label" /\ Named(text[word].of) # {}
                                    /\ new.value = Min(Named(text[word].of))
       /\ text[word].is \notin {"db", "dw"} => word' = word + 1
  BY <1>1, <1>6, ParsedKind
<1>11. DefLine(program, line) => word = 1 /\ IsDefinition(text[word])
  BY <1>1, <1>3, <1>4, <1>6, PlainText
<1>12. IsDefinition(text[word]) => DefLine(program, line)
  BY <1>1, <1>3, <1>4, <1>6, PlainText
<1>13. word' > word /\ word' \in Nat /\ word' <= Len(text) + 1
  <2>1. Onward(WordsOf(line), word) \in {word + 1, word + 2}
        /\ Onward(WordsOf(line), word) <= Len(WordsOf(line)) + 1
    BY <1>1, OneOrTwo
  <2>2. word' = Onward(WordsOf(line), word)
    BY <1>1 DEF Onward
  <2> QED
    BY <1>1, <1>6, <2>1, <2>2
<1> HIDE DEF following, new, text, N
\* Of a reference, it is the command, a register or I, or the label.
<1>14. ASSUME Refers(text)
       PROVE  /\ word' = word + 1
              /\ new.type = "instruction" => word = 1
              /\ Solid(new) => new.type = "instruction"
              /\ word > 1 => Operand(text, labels, new, word - 1)
  <2>1. CASE word = 1
    BY <1>10, <1>14, <2>1 DEF Refers, Solid
  <2>2. CASE word > 1 /\ word < Len(text)
    <3>1. word \in 2..Len(text) - 1
      BY <1>6, <2>2
    <3>2. text[word].is = "register" \/ (text[word].is = "reserved" /\ text[word].of = "i")
      BY <1>14, <3>1 DEF Refers
    <3>3. new.type \in {"v", "i"} /\ word' = word + 1
      BY <1>10, <3>2
    <3>4. word - 1 + 1 < Len(text)
      BY <1>6, <2>2
    <3> QED
      BY <3>3, <3>4 DEF Solid, Operand
  <2>3. CASE word > 1 /\ word = Len(text)
    <3>1. text[word].is = "name"
      BY <1>14, <2>3 DEF Refers
    <3>2. Named(text[word].of) = NamedIn(labels, text[word].of)
      BY DEF Named, NamedIn
    <3>3. ~(word - 1 + 1 < Len(text))
      BY <1>6, <2>3
    <3> QED
      BY <1>10, <2>3, <3>1, <3>2, <3>3 DEF Solid, Operand
  <2> QED
    BY <1>6, <2>1, <2>2, <2>3
<1>15. symbols'[N] = new /\ \A k \in 1..N - 1 : symbols'[k] = symbols[k]
  BY <1>2, <1>3, <1>7
<1>16. WordAdded(program, symbols, symbols', line, word, word')
  <2>1. symbols[Len(symbols)].type = "null" /\ symbols'[Len(symbols')].type = "null"
    BY <1>7, <1>8 DEF Null, Symbol, N
  <2>2. Refers(program[line]) /\ Solid(symbols'[Len(symbols)]) =>
          symbols'[Len(symbols)].type = "instruction"
    BY <1>14, <1>15 DEF N, text
  <2> QED
    BY <1>1, <1>3, <1>5, <1>7, <1>10, <1>11, <1>12, <1>13, <1>15, <2>1, <2>2
       DEF WordAdded, N
<1>17. Refers(program[line]) =>
         /\ word' = word + 1 /\ (symbols'[Len(symbols)].type = "instruction" => word = 1)
         /\ word > 1 => Operand(program[line], labels, symbols'[Len(symbols)], word - 1)
  BY <1>14, <1>15 DEF N, text
<1>18. /\ Ordered(program, symbols', line, word') /\ Defined(program, symbols', line, word')
       /\ Referred(program, symbols', labels, line, word')
  BY <1>5, <1>9, <1>16, <1>17, OrderedWord, DefinedWord, ReferredWord
<1> QED
  BY <1>1, <1>4, <1>5, <1>13, <1>18 DEF text

\* and every step of parsing it.
LEMMA SourceParse ==
  ASSUME Typed, FitsInv, SourceInv, BeginLine \/ ParseWord \/ ParseInvalid \/ EndLine \/ ParsedAll
  PROVE  SourceInv'
<1>1. CASE BeginLine
  BY <1>1, SourceBegin
<1>2. CASE ParseWord
  BY <1>2, SourceWord
<1>3. CASE ParseInvalid
  BY <1>3 DEF ParseInvalid, SourceInv
<1>4. CASE EndLine
  <2> SUFFICES ASSUME Plain', ~reported'
               PROVE  /\ line' \in 1..Len(program') + 1
                      /\ line' \in Lines' => phase' = "parse" /\ word' <= Len(program'[line']) + 1
                      /\ line' \notin Lines' => word' = 0
                      /\ Ordered(program', symbols', line', word')
                      /\ Defined(program', symbols', line', word')
                      /\ phase' = "parse" /\ Referred(program', symbols', labels', line', word')
    BY DEF SourceInv
  <2>1. /\ phase = "parse" /\ line \in Lines /\ word > Len(WordsOf(line))
        /\ line' = line + 1 /\ word' = 0
        /\ UNCHANGED <<program, phase, labels, symbols, reported>>
    BY <1>4 DEF EndLine
  <2>2. /\ IsSource(program) /\ symbols \in Seq(Symbols) /\ line \in Nat \ {0} /\ word \in Nat
        /\ Text(line) # <<>>
    BY <2>1 DEF Typed
  <2>3. Plain /\ Lines' = Lines
    BY <2>1 DEF Plain, PlainLines, NotEnlarged, Lines
  <2>4. /\ Ordered(program, symbols, line, word) /\ Defined(program, symbols, line, word)
        /\ Referred(program, symbols, labels, line, word) /\ word <= Len(program[line]) + 1
    BY <2>1, <2>3 DEF SourceInv
  <2>5. /\ DOMAIN program = 1..Len(program) /\ Len(program) \in Nat
        /\ DOMAIN program \subseteq Nat /\ Lines = DOMAIN program
        /\ Len(program[line]) \in Nat
    BY <2>1, <2>2, SourceLines
  <2>6. WordsOf(line) = program[line] /\ Len(program[line]) > 0
    BY <2>1, <2>2, <2>3, PlainText DEF Plain
  <2>7. word = Len(program[line]) + 1 /\ word > 1
    BY <2>1, <2>2, <2>4, <2>5, <2>6
  <2>8. /\ Ordered(program, symbols, line + 1, 0) /\ Defined(program, symbols, line + 1, 0)
        /\ Referred(program, symbols, labels, line + 1, 0)
    BY <2>2, <2>4, <2>5, <2>7, LineEnded
  <2> QED
    BY <2>1, <2>3, <2>5, <2>8
<1>5. CASE ParsedAll
  <2>1. /\ phase = "parse" /\ phase' = "resolve" /\ line > Len(program)
        /\ UNCHANGED <<program, line, word, labels, symbols, reported, result>>
    BY <1>5 DEF ParsedAll
  <2>2. (Plain' <=> Plain) /\ Lines' = Lines /\ line \notin Lines
    <3>1. Lines = 1..Len(program)
      BY SourceLines DEF Typed
    <3> QED
      BY <2>1, <3>1 DEF Plain, PlainLines, NotEnlarged, Lines
  <2> QED
    BY <2>1, <2>2 DEF SourceInv
<1> QED
  BY <1>1, <1>2, <1>3, <1>4, <1>5

\* It holds when parsing begins,
LEMMA SourceStart ==
  ASSUME Typed, FitsInv, Populated
  PROVE  SourceInv'
<1>1. /\ UNCHANGED <<program, word, symbols>> /\ line' = 1 /\ word = 0 /\ symbols = <<>>
      /\ phase' = "parse"
  BY DEF Populated, Typed, FitsInv
<1>2. /\ DOMAIN program = 1..Len(program) /\ Len(program) \in Nat /\ Lines = DOMAIN program
      /\ \A i \in DOMAIN program : Len(program[i]) \in Nat
  BY SourceLines DEF Typed
<1>3. DOMAIN symbols = {} /\ Len(symbols) = 0
  BY <1>1
<1>4. Ordered(program, symbols, 1, 0) /\ Referred(program, symbols, labels', 1, 0)
  BY <1>3 DEF Ordered, Referred
<1>5. Defined(program, symbols, 1, 0)
  <2>1. Of(symbols, {"def"}, 0) = {} /\ {j \in 1..0 : DefLine(program, j)} = {}
    BY DEF Of
  <2>2. Defs(symbols, 0) = 0 /\ Place(program, 0) = 0
    BY <2>1, FS_EmptySet DEF Defs, Place
  <2>3. (IF 0 > 1 THEN 1 ELSE 1 - 1) = 0
    OBVIOUS
  <2>4. \A j \in DOMAIN program : ~Past(j, 1, 0)
    BY <1>2 DEF Past
  <2> QED
    BY <1>3, <2>2, <2>3, <2>4 DEF Defined
<1>6. Lines' = Lines
  BY <1>1 DEF Lines
<1>7. /\ line' \in 1..Len(program') + 1
      /\ line' \in Lines' => phase' = "parse" /\ word' <= Len(program'[line']) + 1
      /\ line' \notin Lines' => word' = 0
  BY <1>1, <1>2, <1>6
<1> QED
  BY <1>1, <1>4, <1>5, <1>7 DEF SourceInv

\* while labels get their addresses,
LEMMA SourceResolve ==
  ASSUME Typed, SourceInv, ResolveSymbol
  PROVE  SourceInv'
<1>1. /\ phase = "resolve" /\ phase' = "resolve" /\ defined < Len(labels) /\ defined \in Nat
      /\ labels' = [labels EXCEPT ![defined + 1].byte = byte] \/ UNCHANGED labels
      /\ UNCHANGED <<program, line, word, symbols, reported, result>>
  BY DEF ResolveSymbol, Typed
<1>2. labels \in Seq(Labels)
  BY DEF Typed
<1>3. DOMAIN labels' = DOMAIN labels /\ \A k \in DOMAIN labels : labels'[k].text = labels[k].text
  <2>1. CASE labels' = [labels EXCEPT ![defined + 1].byte = byte]
    <3> SUFFICES ASSUME NEW k \in DOMAIN labels PROVE labels'[k].text = labels[k].text
      BY <1>2, <2>1
    <3>1. labels[k] \in Labels
      BY <1>2
    <3>2. labels'[k] = labels[k] \/ labels'[k] = [labels[k] EXCEPT !.byte = byte]
      BY <1>2, <2>1
    <3> QED
      BY <3>1, <3>2 DEF Labels
  <2> QED
    BY <1>1, <2>1
<1>4. \A name : NamedIn(labels', name) = NamedIn(labels, name)
  BY <1>3 DEF NamedIn
<1>5. \A text, s, m : Operand(text, labels', s, m) <=> Operand(text, labels, s, m)
  BY <1>4 DEF Operand
<1>6. \A text, q, had : Behind(text, symbols, labels', q, had) <=> Behind(text, symbols, labels, q, had)
  BY <1>5 DEF Behind
<1>7. Referred(program, symbols, labels, line, word) => Referred(program, symbols, labels', line, word)
  BY <1>6 DEF Referred
<1>8. (Plain' <=> Plain) /\ Lines' = Lines
  BY <1>1 DEF Plain, PlainLines, NotEnlarged, Lines
<1> QED
  BY <1>1, <1>7, <1>8 DEF SourceInv

\* and when these take the labels' places,
LEMMA SourceSubstitute ==
  ASSUME Typed, SourceInv, Substitute, phase' = "write"
  PROVE  SourceInv'
<1> DEFINE After(k) ==
      IF symbols[k].type # "label" THEN symbols[k]
      ELSE Symbol("int12", labels[symbols[k].value].byte % ValueSize, symbols[k].ln)
<1>1. /\ phase = "resolve" /\ symbols' = [k \in DOMAIN symbols |-> After(k)]
      /\ UNCHANGED <<program, line, word, labels, reported, result>>
  BY DEF Substitute, Return
<1>2. symbols \in Seq(Symbols) /\ IsSource(program)
  BY DEF Typed
<1>3. DOMAIN symbols' = DOMAIN symbols /\ Len(symbols') = Len(symbols)
      /\ DOMAIN symbols = 1..Len(symbols) /\ Len(symbols) \in Nat
  BY <1>1, <1>2
<1>4. \A k \in DOMAIN symbols :
        /\ symbols[k].type # "label" => symbols'[k] = symbols[k]
        /\ symbols[k].type = "label" =>
             /\ symbols'[k].type = "int12"
             /\ symbols'[k].value = labels[symbols[k].value].byte % ValueSize
  BY <1>1 DEF Symbol
<1> HIDE DEF After
<1>5. (Plain' <=> Plain) /\ Lines' = Lines
  BY <1>1, <1>3 DEF Plain, PlainLines, NotEnlarged, Lines
<1> SUFFICES ASSUME Plain, ~reported
             PROVE  /\ Ordered(program, symbols', line, word) /\ Defined(program, symbols', line, word)
                    /\ Addressed(program, symbols', labels)
  BY <1>1, <1>5 DEF SourceInv
<1>6. /\ Ordered(program, symbols, line, word) /\ Defined(program, symbols, line, word)
      /\ Referred(program, symbols, labels, line, word) /\ line \notin Lines
  BY <1>1 DEF SourceInv
<1>7. \A k \in DOMAIN symbols : Solid(symbols'[k]) \/ Solid(symbols[k]) => symbols'[k] = symbols[k]
  BY <1>4 DEF Solid
<1>8. Ordered(program, symbols', line, word)
  BY <1>3, <1>6, <1>7 DEF Ordered
<1>9. \A k \in DOMAIN symbols : symbols'[k].type = "def" <=> symbols[k].type = "def"
  BY <1>4
<1>10. \A q \in 0..Len(symbols) : Defs(symbols', q) = Defs(symbols, q)
  <2> SUFFICES ASSUME NEW q \in 0..Len(symbols) PROVE Defs(symbols', q) = Defs(symbols, q)
    OBVIOUS
  <2>1. q \in Nat /\ \A l \in 1..q : symbols'[l].type = "def" <=> symbols[l].type = "def"
    BY <1>3, <1>9
  <2> QED
    BY <2>1, SameCounts
<1>11. Defined(program, symbols', line, word)
  <2>1. \A q \in DOMAIN symbols : symbols'[q].type = "def" => symbols'[q] = symbols[q]
    BY <1>7 DEF Solid
  <2>2. Len(symbols) \in 0..Len(symbols) /\ \A q \in DOMAIN symbols : q \in 0..Len(symbols)
    BY <1>3
  <2>3. Defs(symbols', Len(symbols')) = Defs(symbols, Len(symbols))
    BY <1>3, <1>10, <2>2
  <2>4. \A q \in DOMAIN symbols' :
          symbols'[q].type = "def" => Defs(symbols', q) = Place(program, symbols'[q].ln)
    BY <1>3, <1>6, <1>10, <2>1, <2>2 DEF Defined
  <2>5. \A j \in DOMAIN program : DefLine(program, j) /\ Past(j, line, word) =>
          \E q \in DOMAIN symbols' : symbols'[q].type = "def" /\ symbols'[q].ln = j
    BY <1>3, <1>4, <1>6 DEF Defined
  <2> QED
    BY <1>6, <2>3, <2>4, <2>5 DEF Defined
<1>12. Addressed(program, symbols', labels)
  <2> DEFINE text(q) == program[symbols[q].ln]
             name(q) == text(q)[Len(text(q))].of
  <2> SUFFICES ASSUME NEW q \in DOMAIN symbols, symbols[q].type = "instruction", Refers(text(q)),
                      symbols'[q] = symbols[q]
               PROVE  /\ q + Len(text(q)) <= Len(symbols')
                      /\ symbols'[q + Len(text(q))].type = "null"
                      /\ \A m \in 1..Len(text(q)) - 1 : symbols'[q + m].type \in Operands
                      /\ NamedIn(labels, name(q)) # {}
                      /\ symbols'[q + Len(text(q)) - 1].value =
                           labels[Min(NamedIn(labels, name(q)))].byte % ValueSize
    BY <1>3, <1>7 DEF Addressed, Solid
  <2>1. symbols[q].ln \in DOMAIN program /\ Solid(symbols[q])
    BY <1>6 DEF Ordered, Solid
  <2> DEFINE L == Len(text(q))
  <2>2. L \in Nat /\ L > 1 /\ q \in Nat
    <3>1. L \in Nat /\ L > 0
      BY <1>2, <2>1, SourceLines
    <3>2. L # 1
      BY DEF Refers
    <3>3. q \in Nat
      BY <1>3
    <3> HIDE DEF L
    <3> QED
      BY <3>1, <3>2, <3>3
  <2>3. Behind(text(q), symbols, labels, q, L)
    BY <1>2, <1>6, <2>1, SourceLines DEF Referred
  <2>4. /\ q + L <= Len(symbols) /\ symbols[q + L].type = "null"
        /\ \A m \in 1..L - 1 : Operand(text(q), labels, symbols[q + m], m)
    BY <2>3 DEF Behind
  <2> HIDE DEF L
  <2>5. q + L \in DOMAIN symbols /\ \A m \in 1..L - 1 : q + m \in DOMAIN symbols
    BY <1>3, <2>2, <2>4
  <2>6. symbols'[q + L].type = "null"
    BY <1>4, <2>4, <2>5
  <2>7. \A m \in 1..L - 1 : symbols'[q + m].type \in Operands
    <3>1. \A m \in 1..L - 1 : symbols[q + m].type \in {"v", "i", "label"}
      BY <2>4 DEF Operand
    <3> QED
      BY <1>4, <2>5, <3>1 DEF Operands, Integers4To12
  <2>8. /\ symbols[q + (L - 1)].type = "label" /\ NamedIn(labels, name(q)) # {}
        /\ symbols[q + (L - 1)].value = Min(NamedIn(labels, name(q)))
    <3>1. L - 1 \in 1..L - 1 /\ ~(L - 1 + 1 < L)
      BY <2>2
    <3>2. Operand(text(q), labels, symbols[q + (L - 1)], L - 1)
      BY <2>4, <3>1
    <3> QED
      BY <3>1, <3>2 DEF Operand, L
  <2>9. q + (L - 1) \in DOMAIN symbols /\ q + L - 1 = q + (L - 1)
    BY <1>3, <2>2, <2>4
  <2>10. symbols'[q + L - 1].value = labels[Min(NamedIn(labels, name(q)))].byte % ValueSize
    BY <1>4, <2>8, <2>9
  <2> QED
    BY <1>3, <2>4, <2>6, <2>7, <2>8, <2>10 DEF L
<1> QED
  BY <1>8, <1>11, <1>12

\* so that every step keeps it.
LEMMA SourceStep == Typed /\ FitsInv /\ SourceInv /\ [Next]_vars => SourceInv'
<1> SUFFICES ASSUME Typed, FitsInv, SourceInv, [Next]_vars PROVE SourceInv'
  OBVIOUS
<1>1. CASE NoValidLines \/ PopulateLine \/ Unresolved
  <2>1. phase' \in {"labels", "ended"} /\ result' # "done"
    BY <1>1 DEF NoValidLines, PopulateLine, Unresolved, Return, Typed
  <2> QED
    BY <2>1 DEF SourceInv
<1>2. CASE Populated
  BY <1>2, SourceStart
<1>3. CASE BeginLine \/ ParseWord \/ ParseInvalid \/ EndLine \/ ParsedAll
  BY <1>3, SourceParse
<1>4. CASE ResolveSymbol
  BY <1>4, SourceResolve
<1>5. CASE Substitute
  <2>1. phase' = "write" \/ (phase' = "ended" /\ result' # "done")
    BY <1>5 DEF Substitute, Return
  <2> QED
    BY <1>5, <2>1, SourceSubstitute DEF SourceInv
<1>6. CASE WriteSymbol \/ Written
  <2>1. /\ phase = "write" /\ phase' \in {"write", "ended"}
        /\ UNCHANGED <<program, line, word, labels, symbols, reported>>
    BY <1>6, Writes DEF Written, Put, Refuse, Return
  <2>2. (Plain' <=> Plain) /\ Lines' = Lines
    BY <2>1 DEF Plain, PlainLines, NotEnlarged, Lines
  <2> QED
    BY <2>1, <2>2 DEF SourceInv
<1>7. CASE UNCHANGED vars
  BY <1>7 DEF vars, SourceInv, Plain, PlainLines, NotEnlarged, Lines
<1> QED
  BY <1>1, <1>2, <1>3, <1>4, <1>5, <1>6, <1>7 DEF Next

--------------------------------------------------------------------------------
\* c8_write puts a symbol out, or skips a definition, behind all that came before it.
LEMMA PlacedWrite ==
  ASSUME Typed, SourceInv, AgreeInv, PlacedInv, WriteSymbol
  PROVE  PlacedInv'
<1>1. /\ phase = "write" /\ next \in DOMAIN symbols /\ result = "running"
      /\ UNCHANGED <<program, line, word, labels, symbols, reported>>
  BY Writes
<1>2. /\ symbols \in Seq(Symbols) /\ out \in Seq(Placed) /\ byte \in Nat /\ next \in Nat \ {0}
      /\ DOMAIN symbols \subseteq Nat
  BY <1>1 DEF Typed
<1>3. (Plain' <=> Plain) /\ \A q : Args(q)' = Args(q)
  BY <1>1 DEF Plain, PlainLines, NotEnlarged, Lines, Args
<1> SUFFICES ASSUME Plain, ~reported, phase' = "write" \/ result' = "done" PROVE PlacedInv'
  BY <1>1, <1>3 DEF PlacedInv
<1> DEFINE From(q, e) ==
      /\ q < next /\ Solid(symbols[q]) /\ symbols[q].ln = e.ln
      /\ symbols[q].type = "instruction" =>
           e.args = Args(q)
<1>4. /\ \A k \in DOMAIN out : \E q \in DOMAIN symbols : From(q, out[k])
      /\ \A q \in DOMAIN symbols :
           q < next /\ symbols[q].type = "def" => Begins(Bytes(symbols, q), symbols[q].ln)
  BY <1>1 DEF PlacedInv
<1>5. Ordered(program, symbols, line, word)
  BY <1>1 DEF SourceInv
<1>6. \A q \in DOMAIN symbols : symbols[q].ln \in Nat
  <2> SUFFICES ASSUME NEW q \in DOMAIN symbols PROVE symbols[q].ln \in Nat
    OBVIOUS
  <2>1. symbols[q] \in Symbols
    BY <1>2
  <2> QED
    BY <2>1 DEF Symbols
\* A command or data is put behind the definitions.
<1>7. ASSUME NEW size \in {1, 2}, NEW args \in Seq(Symbols), Put(size, args),
             symbols[next].type \in {"instruction", "db", "dw"},
             symbols[next].type = "instruction" => args = Args(next),
             \A m \in next + 1..next + Len(args) : symbols[m].type \in Operands
      PROVE  PlacedInv'
  <2> DEFINE e == [ln |-> symbols[next].ln, at |-> byte, size |-> size,
                   type |-> symbols[next].type, value |-> symbols[next].value,
                   args |-> args]
  <2>1. /\ out' = Append(out, e) /\ byte' = byte + size /\ next' = next + 1 + Len(args)
        /\ UNCHANGED <<phase, result>>
    BY <1>7 DEF Put
  <2>2. /\ e.ln = symbols[next].ln /\ e.at = byte
        /\ symbols[next].type = "instruction" =>
             e.args = Args(next)
    BY <1>7
  <2> HIDE DEF e
  <2>3. /\ DOMAIN out' = 1..Len(out) + 1 /\ DOMAIN out = 1..Len(out) /\ Len(out) \in Nat
        /\ out'[Len(out) + 1] = e /\ \A k \in DOMAIN out : out'[k] = out[k]
    BY <1>2, <2>1
  <2>4. next < next' /\ next' = next + (1 + Len(args)) /\ Len(args) \in Nat /\ next' \in Nat
    BY <1>2, <2>1
  <2>5. Solid(symbols[next])
    BY <1>7 DEF Solid
  <2>6. ASSUME NEW k \in DOMAIN out'
        PROVE  \E q \in DOMAIN symbols :
                 /\ q < next' /\ Solid(symbols[q]) /\ symbols[q].ln = out'[k].ln
                 /\ symbols[q].type = "instruction" =>
                      out'[k].args = Args(q)
    <3>1. CASE k \in DOMAIN out
      <4>1. PICK q \in DOMAIN symbols : From(q, out[k])
        BY <1>4, <3>1
      <4>2. q < next'
        BY <1>2, <2>4, <4>1
      <4> QED
        BY <2>3, <3>1, <4>1, <4>2
    <3>2. CASE k = Len(out) + 1
      BY <1>1, <2>2, <2>3, <2>4, <2>5, <3>2
    <3> QED
      BY <2>3, <3>1, <3>2
  <2>7. ASSUME NEW q \in DOMAIN symbols, q < next', symbols[q].type = "def"
        PROVE  Begins(Bytes(symbols, q), symbols[q].ln)'
    <3>1. q < next
      <4>1. ASSUME q > next PROVE FALSE
        <5>1. q \in next + 1..next + Len(args)
          BY <1>2, <2>4, <2>7, <4>1
        <5> QED
          BY <1>7, <2>7, <5>1 DEF Operands, Integers4To12
      <4>2. q # next
        BY <1>7, <2>7
      <4> QED
        BY <1>2, <4>1, <4>2
    <3> DEFINE b == Bytes(symbols, q)
    <3>2. Begins(b, symbols[q].ln) /\ b \in Nat
      BY <1>2, <1>4, <2>7, <3>1, Counted
    <3>3. symbols[q].ln < e.ln
      <4>1. symbols[q].ln <= symbols[next].ln /\ symbols[q].ln # symbols[next].ln
        BY <1>1, <1>5, <2>5, <2>7, <3>1 DEF Ordered, Solid
      <4> QED
        BY <1>1, <1>6, <2>2, <4>1
    <3>4. b <= byte /\ e.at = byte /\ b <= byte'
      BY <1>2, <2>1, <2>2, <3>2 DEF Begins
    <3>5. b' = b /\ symbols[q].ln' = symbols[q].ln
      BY <1>1 DEF Bytes, Of
    <3> HIDE DEF b
    <3>6. \A k \in DOMAIN out' : out'[k].ln > symbols[q].ln => b <= out'[k].at
      BY <2>3, <3>2, <3>4 DEF Begins
    <3>7. \E k \in DOMAIN out' : out'[k].ln > symbols[q].ln /\ out'[k].at = b
      <4>1. CASE b = byte
        <5>1. Len(out) + 1 \in DOMAIN out'
          BY <2>3
        <5>2. e.ln > symbols[q].ln
          BY <1>1, <1>6, <2>2, <3>3
        <5> QED
          BY <2>3, <3>4, <4>1, <5>1, <5>2
      <4>2. CASE \E k \in DOMAIN out : out[k].ln > symbols[q].ln /\ out[k].at = b
        <5>1. \A k \in DOMAIN out : k \in DOMAIN out'
          BY <2>3
        <5> QED
          BY <2>3, <4>2, <5>1
      <4> QED
        BY <3>2, <4>1, <4>2 DEF Begins
    <3> QED
      BY <3>4, <3>5, <3>6, <3>7 DEF Begins, b
  <2> QED
    BY <1>1, <1>3, <2>1, <2>6, <2>7 DEF PlacedInv
\* Nothing behind a definition has been put out when it is skipped.
<1>8. CASE /\ symbols[next].type \notin {"instruction", "db", "dw"}
           /\ next' = next + 1 /\ UNCHANGED <<byte, out, phase, result>>
  <2>1. \A k \in DOMAIN out' : \E q \in DOMAIN symbols : q < next' /\ From(q, out[k])
    <3> SUFFICES ASSUME NEW k \in DOMAIN out
                 PROVE  \E q \in DOMAIN symbols : q < next' /\ From(q, out[k])
      BY <1>8
    <3>1. PICK q \in DOMAIN symbols : From(q, out[k])
      BY <1>4
    <3> QED
      BY <1>2, <1>8, <3>1
  <2>2. ASSUME NEW q \in DOMAIN symbols, q < next', symbols[q].type = "def"
        PROVE  Begins(Bytes(symbols, q), symbols[q].ln)
    <3>1. CASE q < next
      BY <1>4, <2>2, <3>1
    <3>2. CASE q = next
      <4>1. next - 1 \in Nat /\ next - 1 + 1 = next
        BY <1>2
      <4>2. /\ Bytes(symbols, next - 1 + 1) =
                  Bytes(symbols, next - 1) + Size(symbols[next - 1 + 1].type)
            /\ Bytes(symbols, next - 1) \in Nat
        BY <4>1, Counted
      <4>3. byte = Bytes(symbols, next - 1) /\ Size("def") = 0
        BY <1>1 DEF AgreeInv, Size
      <4>4. Bytes(symbols, next) = byte
        BY <2>2, <3>2, <4>1, <4>2, <4>3
      <4>5. ASSUME NEW k \in DOMAIN out PROVE ~(out[k].ln > symbols[next].ln)
        <5>1. PICK r \in DOMAIN symbols : From(r, out[k])
          BY <1>4
        <5>2. symbols[r].ln <= symbols[next].ln
          BY <1>1, <1>5, <2>2, <3>2, <5>1 DEF Ordered, Solid
        <5> QED
          BY <1>1, <1>6, <5>1, <5>2
      <4> QED
        BY <1>2, <3>2, <4>4, <4>5 DEF Begins
    <3> QED
      BY <1>2, <1>8, <2>2, <3>1, <3>2
  <2>3. \A q \in DOMAIN symbols :
          q < next' /\ symbols[q].type = "def" => Begins(Bytes(symbols, q), symbols[q].ln)'
    <3>1. \A q : /\ Bytes(symbols, q)' = Bytes(symbols, q) /\ (symbols[q].ln)' = symbols[q].ln
      BY <1>1 DEF Bytes, Of
    <3>2. \A q : Begins(Bytes(symbols, q), symbols[q].ln)' <=> Begins(Bytes(symbols, q), symbols[q].ln)
      BY <1>8, <3>1 DEF Begins
    <3> QED
      BY <2>2, <3>2
  <2> QED
    BY <1>1, <1>3, <1>8, <2>1, <2>3 DEF PlacedInv
<1>9. CASE Refuse("syntax") \/ Refuse("undefined")
  BY <1>9 DEF Refuse, Return, PlacedInv
<1>10. CASE symbols[next].type = "instruction" /\ Put(2, Args(next))
  BY <1>1, <1>2, <1>7, <1>10, ArgsAre
<1>11. CASE symbols[next].type \in {"db", "dw"} /\ (Put(1, <<>>) \/ Put(2, <<>>))
  <2>1. <<>> \in Seq(Symbols) /\ Len(<<>>) = 0 /\ next + 0 = next
    BY <1>2
  <2>2. \A m \in next + 1..next + Len(<<>>) : symbols[m].type \in Operands
    BY <1>2, <2>1
  <2> QED
    BY <1>7, <1>11, <2>1, <2>2
<1> QED
  BY <1>8, <1>9, <1>10, <1>11, Writes

\* Every step keeps PlacedInv.
LEMMA PlacedStep == Typed /\ SourceInv /\ AgreeInv /\ PlacedInv /\ [Next]_vars => PlacedInv'
<1> SUFFICES ASSUME Typed, SourceInv, AgreeInv, PlacedInv, [Next]_vars PROVE PlacedInv'
  OBVIOUS
<1>1. CASE \/ NoValidLines \/ PopulateLine \/ Populated
           \/ BeginLine \/ ParseWord \/ ParseInvalid \/ EndLine \/ ParsedAll
           \/ ResolveSymbol \/ Unresolved
  <2>1. phase' # "write" /\ result' # "done"
    <3>1. CASE NoValidLines \/ PopulateLine \/ Populated
      BY <3>1 DEF NoValidLines, PopulateLine, Populated, Return, Typed
    <3>2. CASE BeginLine \/ ParseWord \/ ParseInvalid \/ EndLine \/ ParsedAll
      BY <3>2 DEF BeginLine, ParseWord, ParseInvalid, EndLine, ParsedAll, Return, Typed
    <3>3. CASE ResolveSymbol \/ Unresolved
      BY <3>3 DEF ResolveSymbol, Unresolved, Return, Typed
    <3> QED
      BY <1>1, <3>1, <3>2, <3>3
  <2> QED
    BY <2>1 DEF PlacedInv
<1>2. CASE Substitute
  <2>1. /\ phase = "resolve" /\ out' = <<>> /\ result' # "done"
        /\ phase' = "ended" \/ (phase' = "write" /\ next' = 1)
    BY <1>2 DEF Substitute, Return, Typed
  <2>2. DOMAIN symbols' \subseteq Nat \ {0}
    <3>1. symbols' \in Seq(Symbols)
      BY <1>2, TypedResolve DEF Typed
    <3> QED
      BY <3>1
  <2>3. \A k \in DOMAIN out' : FALSE
    BY <2>1
  <2>4. phase' = "write" => \A q \in DOMAIN symbols' : ~(q < next')
    BY <2>1, <2>2
  <2> QED
    BY <2>1, <2>3, <2>4 DEF PlacedInv
<1>3. CASE WriteSymbol
  BY <1>3, PlacedWrite
<1>4. ASSUME UNCHANGED <<program, symbols, next, out, byte, reported>>,
             phase' = "write" \/ result' = "done" => phase = "write" \/ result = "done",
             result' = "done" => result = "done" \/ next > Len(symbols)
      PROVE  PlacedInv'
  <2>1. /\ \A q : Args(q)' = Args(q) /\ (Plain' <=> Plain)
        /\ \A q : Bytes(symbols, q)' = Bytes(symbols, q)
        /\ \A b, ln : Begins(b, ln)' <=> Begins(b, ln)
    BY <1>4 DEF Args, Plain, PlainLines, NotEnlarged, Lines, Bytes, Of, Begins
  <2> QED
    BY <1>4, <2>1 DEF PlacedInv
<1>5. CASE Written
  BY <1>4, <1>5 DEF Written, Return
<1>6. CASE UNCHANGED vars
  BY <1>4, <1>6 DEF vars
<1> QED
  BY <1>1, <1>2, <1>3, <1>5, <1>6 DEF Next

\* In an assembled plain source the first label a name means is that of the first line
\* that defines the name.
LEMMA NamedWhereDefined ==
  ASSUME Typed, PlainLines, Found(program, labels, Len(program)), NEW name,
         NamedIn(labels, name) # {}
  PROVE  /\ DefinedAt(name) \in Lines /\ DefLine(program, DefinedAt(name))
         /\ Min(NamedIn(labels, name)) = Place(program, DefinedAt(name))
         /\ Min(NamedIn(labels, name)) \in DOMAIN labels
<1> DEFINE k0 == Min(NamedIn(labels, name))
           D  == {i \in Lines : \E k \in DOMAIN program[i] :
                    Upper(program[i][k]) = Word("def", name)}
<1>1. labels \in Seq(Labels) /\ IsSource(program)
  BY DEF Typed
<1>2. /\ Lines = 1..Len(program) /\ Len(program) \in Nat
      /\ \A i \in Lines : DOMAIN program[i] = 1..Len(program[i]) /\ IsLine(program[i])
  BY <1>1, SourceLines
<1>3. k0 \in NamedIn(labels, name) /\ \A k \in NamedIn(labels, name) : k0 <= k
  <2>1. NamedIn(labels, name) \in SUBSET Nat
    BY <1>1 DEF NamedIn
  <2> QED
    BY <2>1, MinOf
<1>4. k0 \in DOMAIN labels /\ labels[k0].text = <<Word("def", name)>>
  BY <1>3 DEF NamedIn
<1> HIDE DEF k0
<1>5. PICK j \in 1..Len(program) : DefLine(program, j) /\ Place(program, j) = k0
  BY <1>4 DEF Found
<1>6. j \in D
  <2>1. labels[k0].text = <<Upper(program[j][1])>>
    BY <1>5 DEF Found
  <2>2. Upper(program[j][1]) = Word("def", name)
    BY <1>4, <2>1
  <2>3. 1 \in DOMAIN program[j]
    BY <1>1, <1>2, <1>5, PlainText
  <2> QED
    BY <1>2, <2>2, <2>3
<1> DEFINE d == Min(D)
<1>7. d \in D /\ d <= j
  <2>1. D \in SUBSET Nat
    BY <1>2
  <2> HIDE DEF D
  <2> QED
    BY <1>6, <2>1, MinOf
<1> HIDE DEF d
<1>8. d \in Lines /\ DefLine(program, d) /\ Upper(program[d][1]) = Word("def", name)
  <2>1. PICK k \in DOMAIN program[d] : Upper(program[d][k]) = Word("def", name)
    BY <1>7
  <2>2. d \in Lines /\ IsWord(program[d][k])
    BY <1>2, <1>7 DEF IsLine
  <2>3. IsDefinition(program[d][k])
    <3>1. Upper(program[d][k]).is = program[d][k].is
      BY <2>2, UpperIsWord
    <3> QED
      BY <2>1, <3>1 DEF IsDefinition, Word
  <2>4. k = 1 /\ DefLine(program, d)
    BY <1>1, <2>2, <2>3, PlainText
  <2> QED
    BY <2>1, <2>2, <2>4
<1>9. Place(program, d) \in NamedIn(labels, name)
  <2>1. labels[Place(program, d)].text = <<Upper(program[d][1])>>
    BY <1>2, <1>8 DEF Found
  <2>2. Place(program, d) \in 1..Len(labels)
    BY <1>2, <1>8, FoundLabel
  <2> QED
    BY <1>1, <1>8, <2>1, <2>2 DEF NamedIn
<1>10. d = j
  <2>1. CASE d < j
    <3>1. j \in Nat /\ d \in 0..j
      BY <1>2, <1>8, <2>1
    <3>2. Place(program, d) < k0 /\ Place(program, d) \in Nat /\ k0 \in Nat
      BY <1>5, <2>1, <3>1, PlacesGrow
    <3>3. k0 <= Place(program, d)
      BY <1>3, <1>9
    <3> QED
      BY <3>2, <3>3
  <2> QED
    BY <1>2, <1>7, <1>8, <2>1
<1>11. DefinedAt(name) = d
  BY DEF DefinedAt, d
<1> QED
  BY <1>4, <1>5, <1>8, <1>10, <1>11 DEF k0

\* The operands of a reference are what its words say, and the last is the address.
LEMMA LastOperand ==
  ASSUME symbols \in Seq(Symbols), NEW q \in DOMAIN symbols, NEW L \in Nat, L > 1,
         q + L <= Len(symbols), symbols[q + L].type = "null",
         \A m \in 1..L - 1 : symbols[q + m].type \in Operands
  PROVE  Args(q)[Len(Args(q))].value = symbols[q + L - 1].value
<1> DEFINE c == Len(Args(q))
<1>1. /\ Args(q) \in Seq(Symbols) /\ c \in Nat /\ q + c <= Len(symbols)
      /\ \A m \in q + 1..q + c : symbols[m].type \in Operands
      /\ q + c < Len(symbols) => symbols[q + c + 1].type \notin Operands
      /\ \A m \in 1..c : Args(q)[m] = symbols[q + m]
  BY ArgsAre
<1>2. q \in Nat /\ Len(symbols) \in Nat
  OBVIOUS
<1> HIDE DEF c
<1>3. "null" \notin Operands
  BY DEF Operands, Integers4To12
<1>4. c = L - 1
  <2>1. ASSUME c < L - 1 PROVE FALSE
    <3>1. c + 1 \in 1..L - 1 /\ q + c < Len(symbols) /\ q + c + 1 = q + (c + 1)
      BY <1>1, <1>2, <2>1
    <3> QED
      BY <1>1, <3>1
  <2>2. ASSUME c > L - 1 PROVE FALSE
    <3>0. q \in Nat /\ c \in Nat /\ L \in Nat
      BY <1>1, <1>2
    <3>1. L \in 1..c
      BY <2>2, <3>0
    <3>2. \A m \in 1..c : q + m \in q + 1..q + c
      BY <3>0
    <3>3. symbols[q + L].type \in Operands
      BY <1>1, <3>1, <3>2
    <3> QED
      BY <1>3, <3>3
  <2>3. ~(c < L - 1) /\ ~(c > L - 1)
    BY <2>1, <2>2
  <2>4. c \in Int /\ L - 1 \in Int
    BY <1>1
  <2> QED
    BY <2>3, <2>4
<1>5. c \in 1..c /\ q + c = q + L - 1 /\ c # 0
  BY <1>2, <1>4
<1>6. Args(q)[c] = symbols[q + c]
  BY <1>1, <1>5
<1> QED
  BY <1>5, <1>6 DEF c

\* The inductive invariant behind LabelsReachTheirCode.
AssemblerInv == /\ Typed /\ ParseInv /\ FitsInv /\ AgreeInv
                /\ LabelInv /\ SourceInv /\ PlacedInv

\* It holds when c8_encode is called with any source,
LEMMA AssemblerStart == IsSource(program) /\ Start => AssemblerInv
<1> SUFFICES ASSUME IsSource(program), Start PROVE AssemblerInv
  OBVIOUS
<1>1. Typed
  BY StartTyped
<1>2. phase = "labels" /\ result = "running" /\ line = 1 /\ labels = <<>> /\ symbols = <<>>
      /\ ~reported /\ out = <<>>
  BY DEF Start
<1>3. ParseInv /\ FitsInv /\ AgreeInv /\ SourceInv /\ PlacedInv
  BY <1>2 DEF ParseInv, Skipped, FitsInv, AgreeInv, SourceInv, PlacedInv
<1>4. LabelInv
  <2>1. {j \in 1..0 : DefLine(program, j)} = {} /\ Len(program) \in Nat
    BY <1>1, SourceLines DEF Typed
  <2>2. Place(program, 0) = 0
    BY <2>1, FS_EmptySet DEF Place
  <2>3. Found(program, labels, 0)
    BY <1>2, <2>2 DEF Found
  <2>4. line - 1 = 0 /\ line \in 1..Len(program) + 1
    BY <1>2, <2>1
  <2> QED
    BY <1>2, <2>3, <2>4 DEF LabelInv
<1> QED
  BY <1>1, <1>3, <1>4 DEF AssemblerInv

\* is kept by every step,
LEMMA AssemblerStep == AssemblerInv /\ [Next]_vars => AssemblerInv'
<1> SUFFICES ASSUME AssemblerInv, [Next]_vars PROVE AssemblerInv'
  OBVIOUS
<1>1. Typed /\ ParseInv /\ FitsInv /\ AgreeInv /\ LabelInv /\ SourceInv /\ PlacedInv
  BY DEF AssemblerInv
<1>2. Typed' /\ ParseInv' /\ FitsInv' /\ AgreeInv' /\ LabelInv' /\ SourceInv' /\ PlacedInv'
  BY <1>1, TypedStep, ParseStep, FitsStep, AgreeStep, LabelStep, SourceStep, PlacedStep
<1> QED
  BY <1>2 DEF AssemblerInv

\* and says where the operands point.
LEMMA AssemblerReaches == AssemblerInv => LabelsReachTheirCode
<1> DEFINE text(k) == program[out[k].ln]
           name(k) == text(k)[Len(text(k))].of
<1> SUFFICES ASSUME Typed, ParseInv, FitsInv, AgreeInv, LabelInv, SourceInv, PlacedInv,
                    result = "done", Plain, NEW k \in DOMAIN out, Refers(text(k))
             PROVE  out[k].args[Len(out[k].args)].value = CodeAfter(DefinedAt(name(k)))
  BY DEF LabelsReachTheirCode, AssemblerInv
<1>1. phase = "ended" /\ ~reported
  BY DEF Typed, ParseInv
<1>2. /\ symbols \in Seq(Symbols) /\ labels \in Seq(Labels) /\ out \in Seq(Placed)
      /\ byte \in Nat /\ IsSource(program) /\ PlainLines /\ NotEnlarged
  BY DEF Typed, Plain
<1>3. PICK q \in DOMAIN symbols :
        /\ q < next /\ Solid(symbols[q]) /\ symbols[q].ln = out[k].ln
        /\ symbols[q].type = "instruction" =>
             out[k].args = Args(q)
  BY <1>1 DEF PlacedInv
<1>4. /\ Ordered(program, symbols, line, word) /\ Defined(program, symbols, line, word)
      /\ Addressed(program, symbols, labels)
      /\ line \in 1..Len(program) + 1 /\ line \notin Lines
  BY <1>1 DEF SourceInv
<1>5. symbols[q].type = "instruction" /\ out[k].ln \in DOMAIN program
  BY <1>3, <1>4 DEF Ordered
<1> DEFINE L  == Len(text(k))
           k0 == Min(NamedIn(labels, name(k)))
<1>6. L \in Nat /\ L > 1
  <2>1. L \in Nat /\ L > 0
    BY <1>2, <1>5, SourceLines
  <2>2. L # 1
    BY DEF Refers
  <2> HIDE DEF L
  <2> QED
    BY <2>1, <2>2
<1>7. /\ q + L <= Len(symbols) /\ symbols[q + L].type = "null"
      /\ \A m \in 1..L - 1 : symbols[q + m].type \in Operands
      /\ NamedIn(labels, name(k)) # {}
      /\ symbols[q + L - 1].value = labels[k0].byte % ValueSize
  BY <1>3, <1>4, <1>5 DEF Addressed
<1>8. out[k].args[Len(out[k].args)].value = labels[k0].byte % ValueSize
  <2>1. out[k].args = Args(q)
    BY <1>3, <1>5
  <2> HIDE DEF L, k0
  <2>2. Args(q)[Len(Args(q))].value = symbols[q + L - 1].value
    BY <1>2, <1>6, <1>7, LastOperand
  <2> QED
    BY <1>7, <2>1, <2>2
<1> DEFINE j == DefinedAt(name(k))
<1>9. /\ j \in Lines /\ DefLine(program, j) /\ k0 = Place(program, j) /\ k0 \in DOMAIN labels
  <2>1. Found(program, labels, Len(program))
    BY <1>1, <1>2 DEF LabelInv
  <2> HIDE DEF name
  <2> QED
    BY <1>2, <1>7, <2>1, NamedWhereDefined
<1> HIDE DEF j, k0, L, name, text
<1>10. PICK l \in DOMAIN symbols : symbols[l].type = "def" /\ symbols[l].ln = j
  <2>1. Lines = DOMAIN program /\ DOMAIN program = 1..Len(program) /\ Len(program) \in Nat
    BY <1>2, SourceLines
  <2>2. Past(j, line, word)
    BY <1>4, <1>9, <2>1 DEF Past
  <2> QED
    BY <1>4, <1>9, <2>1, <2>2 DEF Defined
<1>11. Defs(symbols, l) = k0
  BY <1>4, <1>9, <1>10 DEF Defined
<1> DEFINE b == Bytes(symbols, l)
<1>12. labels[k0].byte = ProgStart + b /\ b \in Nat
  <2>1. l \in 1..Len(symbols) /\ l \in Nat
    BY <1>2
  <2>2. labels[k0].byte = ProgStart + b
    BY <1>9, <1>10, <1>11, <2>1 DEF AgreeInv
  <2> QED
    BY <2>1, <2>2, Counted
<1>13. Begins(b, j)
  <2>1. next > Len(symbols) /\ next \in Nat
    BY <1>1 DEF PlacedInv, Typed
  <2>2. l < next
    BY <1>2, <2>1
  <2> QED
    BY <1>1, <1>10, <2>2 DEF PlacedInv
<1> HIDE DEF b
<1>14. CodeAfter(j) = ProgStart + b
  <2> DEFINE S == {byte} \cup {out[i].at : i \in {m \in DOMAIN out : out[m].ln > j}}
  <2>1. b \in S /\ \A y \in S : b <= y
    BY <1>13 DEF Begins
  <2>2. S \subseteq Nat
    <3>1. \A i \in DOMAIN out : out[i].at \in Nat
      <4> SUFFICES ASSUME NEW i \in DOMAIN out PROVE out[i].at \in Nat
        OBVIOUS
      <4>1. out[i] \in Placed
        BY <1>2
      <4> QED
        BY <4>1 DEF Placed
    <3> QED
      BY <1>2, <3>1
  <2>3. CodeAfter(j) = ProgStart + Min(S)
    BY DEF CodeAfter
  <2> HIDE DEF S
  <2>4. Min(S) \in S /\ Min(S) <= b
    BY <2>1, <2>2, MinOf
  <2>5. Min(S) \in Nat /\ b \in Nat /\ b <= Min(S)
    BY <1>12, <2>1, <2>2, <2>4
  <2>6. Min(S) = b
    BY <2>4, <2>5
  <2> QED
    BY <2>3, <2>6
<1>15. (ProgStart + b) % ValueSize = ProgStart + b
  <2>1. b <= byte /\ byte <= RomSize
    BY <1>2, <1>13 DEF Begins, FitsInv
  <2>2. ProgStart + b \in Nat /\ ProgStart + b < ValueSize
    BY <1>2, <1>12, <2>1, AssemblerAssumption
  <2> QED
    BY <2>2, Sizes
<1> QED
  BY <1>8, <1>12, <1>14, <1>15 DEF j

\* Where an assembled plain source refers to a label, whatever else it contains, the
\* operand is the address of what is written behind the label's first definition.
THEOREM ReferencesReachTheirCode == Spec => []LabelsReachTheirCode
<1>1. Init => AssemblerInv
  BY AssemblerStart, SourceAssumption DEF Init
<1> QED
  BY <1>1, AssemblerStep, AssemblerReaches, PTL DEF Spec

\* Whatever the source is, whether written by hand or not: assembling it has all four
\* properties above.
THEOREM AnySourceIsSafe ==
  (IsSource(program) /\ Start) /\ [][Next]_vars
    => [](InvalidNeverAssembles /\ OutputFits /\ PassesAgree /\ LabelsReachTheirCode)
<1>1. AssemblerInv => InvalidNeverAssembles /\ OutputFits /\ PassesAgree /\ LabelsReachTheirCode
  BY ParseRefuses, FitsInside, AgreeWrites, AssemblerReaches DEF AssemblerInv
<1> QED
  BY <1>1, AssemblerStart, AssemblerStep, PTL
================================================================================
