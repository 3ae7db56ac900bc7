------------------------------- MODULE Assembler -------------------------------
(***************************************************************************)
(* c8_encode: lines to labels, lines to symbols, label addresses, bytes.    *)
(* The source is a sequence of lines, and a line a sequence of words as      *)
(* strtok cuts it at spaces, with trailing comments and commas gone.  Two   *)
(* kinds of line need care.  A line with only a comment is emptied and its   *)
(* pointer set to NULL.  Of a line of white space c8_trim returns the address *)
(* one past its end, which is the next line: its text is taken twice.        *)
(*                                                                         *)
(* The symbol list grows by malloc, and every line leaves one symbol behind *)
(* that nothing is written to: up to C8_SYMBOL_CEILING it is zero, beyond it *)
(* is whatever the memory held.                                             *)
(***************************************************************************)
EXTENDS Integers, Sequences, FiniteSetsExt

CONSTANTS
  Programs,       \* the sources that are assembled, see Word
  Formats,        \* c8_formats: the commands with the kinds of their operands
  Garbage,        \* bound: the symbols that fresh memory may hold
  ProgStart,      \* C8_PROG_START
  RomSize,        \* C8_MEMSIZE - C8_PROG_START, the size of the output
  LabelCeiling,   \* C8_LABEL_CEILING
  SymbolCeiling,  \* C8_SYMBOL_CEILING
  NibbleSize, ByteSize, AddrSize, ValueSize,  \* 2^4, 2^8, 2^12 and 2^16
  MaxSymbols      \* bound: the length of the symbol list

ASSUME AssemblerAssumption ==
  /\ ProgStart \in Nat /\ RomSize \in Nat /\ LabelCeiling \in Nat \ {0}
  /\ SymbolCeiling \in Nat /\ MaxSymbols \in Nat
  /\ NibbleSize \in Nat \ {0} /\ ByteSize \in Nat /\ AddrSize \in Nat
  /\ ValueSize \in Nat
  /\ NibbleSize < ByteSize /\ ByteSize < AddrSize /\ AddrSize < ValueSize
  /\ ProgStart + RomSize <= AddrSize

VARIABLES
  program,   \* the source, a sequence of lines
  phase,     \* the pass c8_encode is in
  line,      \* the line that pass looks at
  word,      \* the word c8_parse_line looks at, 0 before the line is begun
  labels,    \* the label list, in the order the labels were found
  symbols,   \* the symbol list
  next,      \* the symbol that c8_resolve_labels or c8_write looks at
  defined,   \* labelIdx of c8_resolve_labels
  byte,      \* byte of c8_resolve_labels and c8_write
  out,       \* what c8_write has put into the output, with its place and its operands
  reported,  \* an invalid word has been reported (history)
  result     \* how c8_encode returned

vars == <<program, phase, line, word, labels, symbols, next, defined, byte, out,
          reported, result>>

--------------------------------------------------------------------------------
\* A word: what it is, of what (a name, a number, a command's place in
\* c8_instructionStrings), and whether it is written in capitals.  A "string" is a whole .DS line of so many characters.
Word(is, of) == [is |-> is, of |-> of, upper |-> TRUE]
Upper(w)     == [w EXCEPT !.upper = TRUE]
Comment      == <<>>
Blank        == <<Word("space", 0)>>

IsDefinition(w) == w.is = "def"

\* Line i is looked at for the second time, after a blank line.
AfterBlank(i) == i > 1 /\ program[i - 1] = Blank

\* c8_lines[i]: a blank line shows the next line that is not blank, and is empty
\* if there is none or that is a comment.  A comment behind a blank line has
\* lost its semicolon to it, and its text counts as code.  A definition is in
\* capitals once c8_populate_labels has seen it.
Text(i) ==
  LET ahead == {j \in i..Len(program) : program[j] # Blank}
      shown == IF ahead = {} THEN <<>> ELSE program[Min(ahead)]
  IN  IF ~AfterBlank(i) THEN shown
      ELSE IF program[i] = Comment THEN <<Word("other", 0)>>
      ELSE [k \in DOMAIN shown |-> Upper(shown[k])]

\* The words c8_parse_line finds.  A text that was parsed for a blank line
\* before is already cut by strtok, and only its first word is left.
WordsOf(i) ==
  IF AfterBlank(i)
  THEN <<IF Text(i)[1].is = "string" THEN Word("reserved", "ds") ELSE Text(i)[1]>>
  ELSE Text(i)

Lines == DOMAIN program

\* C8_Symbol; a symbol of the calloc'ed list is Null.
Symbol(type, value, ln) == [type |-> type, value |-> value, ln |-> ln]
Null == Symbol("null", 0, 0)

SymbolTypes == {"null", "dt", "st", "i", "ip", "k", "f", "b", "db", "dw", "ds", "hf", "r",
                "label", "int", "int4", "int8", "int12", "v", "instruction", "def"}
Symbols     == [type : SymbolTypes, value : Nat, ln : Nat]

\* What c8_encode can be given: lines of words, with a number or a type where the
\* word has one, and .DS lines as one word.
Reserved  == {"dt", "st", "i", "ip", "k", "f", "b", "ds", "hf", "r"}
WordKinds == {"def", "instruction", "db", "dw", "register", "reserved", "number",
              "name", "string", "space", "other"}
IsWord(w) ==
  /\ w = [is |-> w.is, of |-> w.of, upper |-> w.upper]
  /\ w.is \in WordKinds
  /\ w.is \in {"instruction", "register", "number", "string"} => w.of \in Nat
  /\ w.is = "reserved" => w.of \in Reserved
IsLine(l) ==
  /\ l \in Seq(Range(l))
  /\ \A k \in DOMAIN l : IsWord(l[k]) /\ (l[k].is = "string" => Len(l) = 1)
IsSource(p) == p \in Seq(Range(p)) /\ \A i \in DOMAIN p : IsLine(p[i])

ASSUME SourceAssumption ==
  (\A p \in Programs : IsSource(p)) /\ Garbage \subseteq Symbols

\* c8_next_symbol: a fresh symbol at place n of the list.
Fresh(n) == IF n <= SymbolCeiling THEN {Null} ELSE Garbage

\* c8_encode is called.
Start ==
  /\ phase = "labels" /\ line = 1 /\ word = 0
  /\ labels = <<>> /\ symbols = <<>>
  /\ next = 1 /\ defined = 0 /\ byte = 0 /\ out = <<>>
  /\ reported = FALSE
  /\ result = "running"

Init == program \in Programs /\ Start

Return(r) == /\ result' = r
             /\ phase' = "ended"

--------------------------------------------------------------------------------
\* c8_encode gives up on a source without code.
NoValidLines ==
  /\ phase = "labels" /\ line = 1
  /\ \A i \in Lines : Text(i) = <<>>
  /\ Return("syntax")
  /\ UNCHANGED <<program, line, word, labels, symbols, next, defined, byte, out,
                 reported>>

\* The definition is compared as it is written with names already in capitals.
Duplicate(text) == \E k \in DOMAIN labels : labels[k].text = text

AddLabel(text) ==
  labels' = Append(labels, [text |-> [k \in DOMAIN text |-> Upper(text[k])],
                            byte |-> 0])

\* c8_populate_labels, one line.  A line is a definition if it ends with one.
\* strlen of a NULL line is undefined.
PopulateLine ==
  /\ phase = "labels" /\ line \in Lines
  /\ \E i \in Lines : Text(i) # <<>>
  /\ LET text == Text(line)
     IN  \/ /\ text = <<>>
            /\ Return("undefined")
            /\ UNCHANGED <<line, labels>>
         \/ /\ text # <<>> /\ ~IsDefinition(text[Len(text)])
            /\ line' = line + 1
            /\ UNCHANGED <<labels, phase, result>>
         \/ /\ text # <<>> /\ IsDefinition(text[Len(text)])
            /\ IF Duplicate(text)
               THEN Return("syntax") /\ UNCHANGED <<line, labels>>
               ELSE /\ AddLabel(text)
                    /\ IF Len(labels') = LabelCeiling
                       THEN Return("syntax") /\ UNCHANGED line
                       ELSE line' = line + 1 /\ UNCHANGED <<phase, result>>
  /\ UNCHANGED <<program, word, symbols, next, defined, byte, out, reported>>

Populated ==
  /\ phase = "labels" /\ line > Len(program)
  /\ phase' = "parse" /\ line' = 1
  /\ UNCHANGED <<program, word, labels, symbols, next, defined, byte, out,
                 reported, result>>

--------------------------------------------------------------------------------
\* c8_parse_line begins with a fresh symbol; a .DS line is done at once, with
\* one symbol for each character and one left over.
BeginLine ==
  /\ phase = "parse" /\ line \in Lines /\ word = 0
  /\ LET w == WordsOf(line)[1]
         n == IF w.is = "string" THEN w.of ELSE 0
         Chars == [k \in 1..n |-> Symbol("db", 1, line)]
     IN  /\ \E s \in Fresh(Len(symbols) + n + 1) :
              symbols' = symbols \o Chars \o <<s>>
         /\ IF w.is = "string" THEN line' = line + 1 /\ word' = 0
                               ELSE word' = 1 /\ UNCHANGED line
  /\ UNCHANGED <<program, phase, labels, next, defined, byte, out, reported, result>>

EndLine ==
  /\ phase = "parse" /\ line \in Lines /\ word > Len(WordsOf(line))
  /\ line' = line + 1 /\ word' = 0
  /\ UNCHANGED <<program, phase, labels, symbols, next, defined, byte, out,
                 reported, result>>

IntType(v) == CASE v < NibbleSize                    -> "int4"
                [] v >= NibbleSize /\ v < ByteSize -> "int8"
                [] v >= ByteSize /\ v < AddrSize   -> "int12"
                [] OTHER                             -> "int"

\* The labels that a name means to c8_is_label: the first is taken.
Named(name) == {k \in DOMAIN labels : labels[k].text = <<Word("def", name)>>}

Valid(w) == w.is \notin {"other", "space"} /\ (w.is = "name" => Named(w.of) # {})

\* c8_parse_int, cut to the 16 bits of a symbol's value: -1 if it is no number.
IntOf(w) == (IF w.is \in {"number", "register"} THEN w.of ELSE ValueSize - 1)
              % ValueSize

\* What c8_parse_word makes of a valid word.  .DB and .DW take the next word,
\* and without one they are only reserved identifiers.  A reserved identifier
\* and a label definition leave the symbol's value alone.
Parsed(w, following, old) ==
  CASE w.is = "def"         -> Symbol("def", old.value, line)
    [] w.is = "instruction" -> Symbol("instruction", w.of, line)
    [] w.is \in {"db", "dw"} /\ following # <<>> ->
         Symbol(w.is, IntOf(following[1]), line)
    [] w.is \in {"db", "dw"} /\ following = <<>> -> Symbol(w.is, old.value, line)
    [] w.is = "register"    -> Symbol("v", w.of, line)
    [] w.is = "reserved"    -> Symbol(w.of, old.value, line)
    [] w.is = "number"      -> Symbol(IntType(w.of), w.of % ValueSize, line)
    [] w.is = "name"        -> Symbol("label", Min(Named(w.of)), line)

\* How many words c8_parse_word has dealt with.
Taken(w, following) == IF w.is \in {"db", "dw"} /\ following # <<>> THEN 2 ELSE 1

ParseWord ==
  /\ phase = "parse" /\ line \in Lines /\ word \in DOMAIN WordsOf(line)
  /\ Len(symbols) < MaxSymbols
  /\ LET words     == WordsOf(line)
         following == SubSeq(words, word + 1, Len(words))
         old       == symbols[Len(symbols)]
     IN  /\ Valid(words[word])
         /\ word' = word + Taken(words[word], following)
         /\ \E s \in Fresh(Len(symbols) + 1) :
              symbols' = Append([symbols EXCEPT ![Len(symbols)] =
                                   Parsed(words[word], following, old)], s)
  /\ UNCHANGED <<program, phase, line, labels, next, defined, byte, out, reported,
                 result>>

\* Mutant of AfterInvalid: the word is skipped.
AfterInvalidSkips(w) == w + 1

\* c8_parse_word returns -3 for an invalid word, and c8_parse_line adds that to
\* its index as a number of words to skip: it goes two words back.
AfterInvalid(w) == w - 2

ParseInvalid ==
  /\ phase = "parse" /\ line \in Lines /\ word \in DOMAIN WordsOf(line)
  /\ Len(symbols) < MaxSymbols
  /\ ~Valid(WordsOf(line)[word])
  /\ reported' = TRUE
  /\ IF AfterInvalid(word) >= 1
     THEN /\ word' = AfterInvalid(word)
          /\ \E s \in Fresh(Len(symbols) + 1) : symbols' = Append(symbols, s)
          /\ UNCHANGED <<phase, result>>
     ELSE /\ Return("undefined")
          /\ UNCHANGED <<word, symbols>>
  /\ UNCHANGED <<program, line, labels, next, defined, byte, out>>

ParsedAll ==
  /\ phase = "parse" /\ line > Len(program)
  /\ phase' = "resolve" /\ next' = 1 /\ defined' = 0 /\ byte' = ProgStart
  /\ UNCHANGED <<program, line, word, labels, symbols, out, reported, result>>

--------------------------------------------------------------------------------
\* Mutant of Size: a data word counts as one byte.
SizeOfByte(type) == CASE type = "instruction"   -> 2
                      [] type \in {"db", "dw"} -> 1
                      [] OTHER                  -> 0

\* Mutant of Size: a data byte is padded to a word.
SizePadded(type) == IF type \in {"instruction", "dw", "db"} THEN 2 ELSE 0

\* The bytes c8_resolve_labels counts for a symbol.
Size(type) == CASE type \in {"instruction", "dw"} -> 2
                [] type = "db"                     -> 1
                [] OTHER                           -> 0

\* c8_resolve_labels, one symbol: the k-th definition is the k-th label's.
ResolveSymbol ==
  /\ phase = "resolve" /\ defined < Len(labels) /\ next \in DOMAIN symbols
  /\ LET type == symbols[next].type
     IN  /\ byte' = byte + Size(type)
         /\ IF type = "def"
            THEN /\ labels' = [labels EXCEPT ![defined + 1].byte = byte]
                 /\ defined' = defined + 1
            ELSE UNCHANGED <<labels, defined>>
  /\ next' = next + 1
  /\ UNCHANGED <<program, phase, line, word, symbols, out, reported, result>>

\* With fewer definitions than labels it returns 1, and so does c8_encode, to
\* whose caller that is the length of the program.
Unresolved ==
  /\ phase = "resolve" /\ defined < Len(labels) /\ next > Len(symbols)
  /\ Return("unresolved")
  /\ UNCHANGED <<program, line, word, labels, symbols, next, defined, byte, out,
                 reported>>

\* c8_substitute_labels.
Substitute ==
  /\ phase = "resolve" /\ defined = Len(labels)
  /\ IF \E k \in DOMAIN symbols : symbols[k].type = "label"
                                 /\ symbols[k].value \notin DOMAIN labels
     THEN Return("syntax") /\ UNCHANGED <<symbols, next, byte>>
     ELSE /\ symbols' = [k \in DOMAIN symbols |->
               IF symbols[k].type # "label" THEN symbols[k]
               ELSE Symbol("int12", labels[symbols[k].value].byte % ValueSize,
                           symbols[k].ln)]
          /\ phase' = "write" /\ next' = 1 /\ byte' = 0
          /\ UNCHANGED result
  /\ UNCHANGED <<program, line, word, labels, defined, out, reported>>

--------------------------------------------------------------------------------
Integers4To12 == {"int4", "int8", "int12"}
Operands == Integers4To12 \cup {"v", "b", "dt", "f", "i", "ip", "k", "st", "hf", "r"}

\* get_instruction_args: the symbols behind k up to the first that cannot be an
\* operand, as many as there are.
Args(k) ==
  LET ends == {m \in k + 1..Len(symbols) :
                 \A l \in k + 1..m : symbols[l].type \in Operands}
  IN  SubSeq(symbols, k + 1, k + Cardinality(ends))

\* Its limit for a value is set by the first number or register, raised by the
\* first register or 12-bit number, and kept for the operands that follow.
Limit(args, m) ==
  LET seen == SubSeq(args, 1, m)
      Is(types) == {l \in DOMAIN seen : seen[l].type \in types}
  IN  IF Is({"v", "int12"}) # {} THEN AddrSize
      ELSE IF seen[Min(Is(Integers4To12))].type = "int8" THEN ByteSize
      ELSE NibbleSize

TooBig(args) ==
  \E m \in DOMAIN args : /\ args[m].type \in Integers4To12 \cup {"v"}
                         /\ args[m].value >= Limit(args, m)

\* validate_instruction: a number may take the place of a wider one.
Fits(arg, kind) ==
  \/ arg.type = kind
  \/ /\ arg.type \in Integers4To12
     /\ \/ kind = "int4"  /\ arg.value < NibbleSize
        \/ kind = "int8"  /\ arg.value < ByteSize
        \/ kind = "int12" /\ arg.value < AddrSize

Accepted(cmd, args) ==
  \E f \in Formats : /\ f.cmd = cmd
                     /\ Len(f.kinds) = Len(args)
                     /\ \A m \in DOMAIN args : Fits(args[m], f.kinds[m])

Put(size, args) ==
  /\ out' = Append(out, [ln |-> symbols[next].ln, at |-> byte, size |-> size,
                         type |-> symbols[next].type, value |-> symbols[next].value,
                         args |-> args])
  /\ byte' = byte + size
  /\ next' = next + 1 + Len(args)
  /\ UNCHANGED <<phase, result>>

Refuse(r) == Return(r) /\ UNCHANGED <<next, byte, out>>

\* Mutant of Room: whether there is room is not asked.
RoomAlways(b) == TRUE

\* Whether c8_write goes on: asked before every symbol, also one that puts
\* nothing or two bytes.
Room(b) == b < RomSize

\* c8_write, one symbol.  More than three operands overrun ins.p and ins.ptype.
WriteSymbol ==
  /\ phase = "write" /\ next \in DOMAIN symbols
  /\ LET s == symbols[next] args == Args(next)
     IN  \/ ~Room(byte) /\ Refuse("syntax")
         \/ /\ Room(byte) /\ s.type = "instruction"
            /\ IF Len(args) > 3 THEN Refuse("undefined")
               ELSE IF TooBig(args) \/ ~Accepted(s.value, args)
               THEN Refuse("syntax")
               ELSE Put(2, args)
         \/ /\ Room(byte) /\ s.type = "db"
            /\ IF s.value >= ByteSize THEN Refuse("syntax") ELSE Put(1, <<>>)
         \/ Room(byte) /\ s.type = "dw" /\ Put(2, <<>>)
         \/ /\ Room(byte) /\ s.type \notin {"instruction", "db", "dw"}
            /\ next' = next + 1
            /\ UNCHANGED <<byte, out, phase, result>>
  /\ UNCHANGED <<program, line, word, labels, symbols, defined, reported>>

Written ==
  /\ phase = "write" /\ next > Len(symbols)
  /\ Return("done")
  /\ UNCHANGED <<program, line, word, labels, symbols, next, defined, byte, out,
                 reported>>

Next ==
  \/ NoValidLines \/ PopulateLine \/ Populated
  \/ BeginLine \/ ParseWord \/ ParseInvalid \/ EndLine \/ ParsedAll
  \/ ResolveSymbol \/ Unresolved \/ Substitute
  \/ WriteSymbol \/ Written

Spec == Init /\ [][Next]_vars

--------------------------------------------------------------------------------
\* The symbols fit in the list as it was first allocated.
NotEnlarged == Len(symbols) <= SymbolCeiling

\* A source in which every label definition has a line of its own and no line is
\* blank, and a list of symbols that is not enlarged.
PlainLines ==
  \A i \in Lines : /\ program[i] # Blank
                   /\ \A k \in DOMAIN program[i] :
                        IsDefinition(program[i][k]) => Len(program[i]) = 1
Plain == PlainLines /\ NotEnlarged

\* A line that refers to a label: a command, registers or I, and the label's name.
Refers(text) ==
  /\ text # <<>> /\ text[1].is = "instruction" /\ text[Len(text)].is = "name"
  /\ \A m \in 2..Len(text) - 1 : \/ text[m].is = "register"
                                \/ (text[m].is = "reserved" /\ text[m].of = "i")

\* The line that defines a name first, in any case.
DefinedAt(name) ==
  Min({i \in Lines : \E k \in DOMAIN program[i] :
         Upper(program[i][k]) = Word("def", name)})

\* The address of the first thing written for a line behind i.
CodeAfter(i) ==
  ProgStart + Min({byte} \cup {out[k].at : k \in {l \in DOMAIN out : out[l].ln > i}})

\* Label support (docs/chip8as.md): where an assembled plain source refers to a
\* label, the operand is the address of what is written behind the label's
\* definition.  Resolving and writing compute addresses separately, one from all
\* symbols and one from those it does not skip.
LabelsReachTheirCode ==
  result = "done" /\ Plain =>
    \A k \in DOMAIN out :
      LET text == program[out[k].ln]
      IN  Refers(text) =>
            out[k].args[Len(out[k].args)].value = CodeAfter(DefinedAt(text[Len(text)].of))

\* In every source, also where symbols are made of garbage: when c8_write passes
\* the k-th definition it stands where c8_resolve_labels put the k-th label.
PassesAgree ==
  phase = "write" /\ next \in DOMAIN symbols /\ symbols[next].type = "def" =>
    LET k == Cardinality({l \in 1..next : symbols[l].type = "def"})
    IN  k \in DOMAIN labels => labels[k].byte = ProgStart + byte

\* c8_write's bound: an accepted program lies within the output, and of any
\* other at most one byte (the second of a word at the last place) lies behind.
\* The symbol that ends the last line is what refuses a program whose last word
\* crosses the end; in an enlarged list it may be anything.
OutputFits ==
  \A k \in DOMAIN out :
    out[k].at + out[k].size <= IF result = "done" /\ NotEnlarged THEN RomSize
                                                              ELSE RomSize + 1

\* However c8_parse_line goes on after an invalid word, the source that holds it
\* never comes out as a program.
InvalidNeverAssembles == reported => result # "done"
================================================================================
