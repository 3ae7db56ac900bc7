------------------------------ MODULE Disassembler ------------------------------
(***************************************************************************)
(* c8_decode with C8_DECODE_DEFINE_LABELS (src/c8/decode.c), and what        *)
(* becomes of its output when c8_encode assembles it again: the source that *)
(* module Assembler begins with is one written by hand or the disassembly of *)
(* a program.                                                                *)
(*                                                                         *)
(* The disassembler reads the program as big-endian words from ProgStart on. *)
(* A word that c8_jump takes for a jump to an address inside the program      *)
(* labels that address with a running number, kept in a byte.               *)
(***************************************************************************)
EXTENDS Assembler, SequencesExt

CONSTANTS
  Roms,       \* the programs that are disassembled, see Rom
  CountSize   \* 2^8, the size of count in c8_find_labels

ASSUME DisassemblerAssumption ==
  CountSize \in Nat \ {0} /\ ProgStart % 2 = 0

VARIABLES
  rom,       \* the program whose disassembly is assembled
  labelled   \* C8_DECODE_DEFINE_LABELS is given

romVars == <<rom, labelled>>

\* A word of a program: an instruction with operands, or data.  An operand is what it
\* is printed as, a word of a source, but for an address.  JP V0 is in c8_formats twice,
\* to decode and to encode; both are the same text, and one here.  A program may end in
\* half a word.
Code(cmd, args)  == [is |-> "code", cmd |-> cmd, args |-> args]
Raw(value)       == [is |-> "data", cmd |-> value, args |-> <<>>]
Rom(words, half) == [words |-> words, half |-> half]
NoRom            == Rom(<<>>, FALSE)

\* The operands of a kind that c8_decode_instruction finds in a word.
OperandsOf(kind) ==
  CASE kind = "v"     -> {Word("register", n) : n \in 0..NibbleSize - 1}
    [] kind = "int4"  -> {Word("number", n) : n \in 0..NibbleSize - 1}
    [] kind = "int8"  -> {Word("number", n) : n \in 0..ByteSize - 1}
    [] kind = "int12" -> {Word("address", a) : a \in 0..AddrSize - 1}
    [] OTHER          -> {Word("reserved", kind)}

IsRomWord(w) ==
  \/ w = Raw(w.cmd) /\ w.cmd \in 0..ValueSize - 1
  \/ /\ w = Code(w.cmd, w.args) /\ w.args \in Seq(Range(w.args))
     /\ \E f \in Formats :
          /\ f.cmd = w.cmd /\ Len(f.kinds) = Len(w.args)
          /\ \A m \in DOMAIN w.args : w.args[m] \in OperandsOf(f.kinds[m])
IsRom(r) ==
  /\ r = Rom(r.words, r.half) /\ r.half \in BOOLEAN
  /\ r.words \in Seq(Range(r.words)) /\ \A i \in DOMAIN r.words : IsRomWord(r.words[i])

\* An instruction of c8_formats has at most three operands, and a number is its last.
ASSUME RomAssumption ==
  /\ \A f \in Formats :
       /\ f.cmd \in Nat /\ f.kinds \in Seq(Operands) /\ Len(f.kinds) <= 3
       /\ \A m \in DOMAIN f.kinds : f.kinds[m] \in Integers4To12 => m = Len(f.kinds)
  /\ \A r \in Roms : IsRom(r)

Address(i) == ProgStart + 2 * (i - 1)
End(r)     == Address(Len(r.words) + 1) + (IF r.half THEN 1 ELSE 0)

--------------------------------------------------------------------------------
\* c8_jump: the address that an instruction ends with, or 0.
To(w) ==
  LET n == Len(w.args)
  IN  IF n > 0 /\ w.args[n].is = "address" THEN w.args[n].of ELSE 0

\* Mutant of Jumps: an address right behind the program is labelled.
JumpsBehind(r) ==
  {i \in DOMAIN r.words : ProgStart < To(r.words[i]) /\ To(r.words[i]) <= End(r)}

\* The words that c8_find_labels labels the target of.  The program's first
\* address gets no label.
Jumps(r) ==
  {i \in DOMAIN r.words : ProgStart < To(r.words[i]) /\ To(r.words[i]) < End(r)}

\* labelMap[a], 0 if there is none.  Every jump counts on, and the last to an
\* address has its number; after CountSize jumps the numbers begin again.
Label(r, a) ==
  LET to == {i \in Jumps(r) : To(r.words[i]) = a}
  IN  IF to = {} THEN 0
      ELSE Cardinality({i \in Jumps(r) : i <= Max(to)}) % CountSize

Shown(r, a) == labelled /\ Label(r, a) # 0

\* "label%d:", which c8_encode reads as a definition not in capitals.
LabelLine(r, a) ==
  IF Shown(r, a) THEN << <<[Word("def", Label(r, a)) EXCEPT !.upper = FALSE]>> >>
                 ELSE <<>>

Target(r, a) == IF Shown(r, a) THEN Word("name", Label(r, a)) ELSE Word("number", a)

Printed(r, arg) == IF arg.is = "address" THEN Target(r, arg.of) ELSE arg

\* c8_decode_instruction.
Instruction(r, w) ==
  CASE w.is = "code" -> <<Word("instruction", w.cmd)>>
                          \o [m \in DOMAIN w.args |-> Printed(r, w.args[m])]
    [] w.is = "data" -> <<Word("dw", 0), Word("number", w.cmd)>>

\* The lines for the i-th word: a label at its second byte is put in front of it
\* as well, as if it were at the first.
WordLines(r, i) ==
  LabelLine(r, Address(i)) \o LabelLine(r, Address(i) + 1) \o <<Instruction(r, r.words[i])>>

\* Half a word at the end is dropped, but for its label.
Disassembly(r) ==
  FlattenSeq([i \in DOMAIN r.words |-> WordLines(r, i)])
    \o (IF r.half THEN LabelLine(r, Address(Len(r.words) + 1)) ELSE <<>>)

--------------------------------------------------------------------------------
RoundInit ==
  /\ Start
  /\ \/ program \in Programs /\ rom = NoRom /\ labelled = FALSE
     \/ rom \in Roms /\ labelled \in BOOLEAN /\ program = Disassembly(rom)

RoundSpec == RoundInit /\ [][Next /\ UNCHANGED romVars]_<<vars, romVars>>

--------------------------------------------------------------------------------
\* The program was disassembled, and had no more jumps to label than there are
\* numbers.  The last number is 0, and its label is left out.
Distinct == rom # NoRom /\ (labelled => Cardinality(Jumps(rom)) <= CountSize)

\* It leaves a byte of memory free, and needs no more labels than there is room for.
Assemblable ==
  /\ rom.words # <<>> /\ 2 * Len(rom.words) < RomSize
  /\ Cardinality({i \in 1..Len(program) : IsDefinition(program[i][1])}) < LabelCeiling

\* What becomes of an operand: a label in the middle of a word moves, to the word's
\* beginning.
Value(arg) ==
  IF arg.is = "address" /\ Shown(rom, arg.of) THEN arg.of - (arg.of % 2) ELSE arg.of

\* A symbol that an operand has come back as: of its sort, and with its value.
CameBack(s, arg) ==
  /\ arg.is = "register" => s.type = "v"
  /\ arg.is \in {"number", "address"} => s.type \in Integers4To12
  /\ arg.is = "reserved" => s.type = arg.of
  /\ arg.is # "reserved" => s.value = Value(arg)

\* Assembling a disassembly gives the program back (test_encode_decode.c says so of
\* single words without labels): c8_encode takes it, if it fits, every word stands where
\* it stood, every datum and command is the same with the same operands, and every
\* address too, whether it was printed as a number or as a label.  Only a label in the
\* middle of a word moves.
RoundTrip ==
  phase = "ended" /\ Distinct /\ NotEnlarged =>
    /\ Assemblable => result = "done"
    /\ result = "done" =>
         /\ Len(out) = Len(rom.words)
         /\ \A i \in DOMAIN rom.words :
              LET w == rom.words[i]
              IN  /\ ProgStart + out[i].at = Address(i)
                  /\ out[i].type = (IF w.is = "code" THEN "instruction" ELSE "dw")
                  /\ out[i].size = 2 /\ out[i].value = w.cmd
                  /\ Len(out[i].args) = Len(w.args)
                  /\ \A m \in DOMAIN w.args : CameBack(out[i].args[m], w.args[m])
================================================================================
