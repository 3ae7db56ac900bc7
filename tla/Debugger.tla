-------------------------------- MODULE Debugger --------------------------------
(***************************************************************************)
(* The debugger's command lines (c8_debug_repl, c8_get_command, c8_parse_arg *)
(* and c8_run_command of src/c8/private/debug.c) on the machine of Transfer,  *)
(* with the breakpoints, the file of saveflags and loadflags and that of save  *)
(* and load.  The prompt may come up between any two instructions.             *)
(*                                                                          *)
(* What lines do to the fields that Transfer leaves out is in Simulate and,    *)
(* for key[], in Session.                                                    *)
(***************************************************************************)
EXTENDS Transfer, Integers, Sequences

CONSTANTS
  Lines,      \* the lines the user types, see Line
  Counters,   \* the values of pc when the prompt comes up
  Documented, \* the lines among them that are as docs/chip8.md has them
  StateFiles, \* the files of earlier sessions, one of which load may find
  Saves,      \* bound: the machines that are saved
  Cuts        \* bound: where a file that is not written to its end may stop

Files == {"load", "save", "loadflags", "saveflags"}

\* continue, next, help and quit look at no argument.
Verbs == Files \cup {"break", "rmbreak", "set", "print", "continue"}

\* A line is its first word, an argument, and a value if there is another word.
\* The argument is missing (""), a name of c8_args (a number's, VK, quirks or
\* a font's), stack, K (which docs/chip8.md has for VK), a plain number, V, R or $ with
\* the number behind it, or any other text, such as a path.  V, R and $ without a number
\* have -1 for it.
Fonts == {"sfont", "bfont"}
Named == {"I", "field", "V", "R", "$"} \cup Fonts
Arguments == {"", "VK", "K", "stack", "quirks", "number", "text"} \cup Named
Line == [verb : Verbs \cup {"unknown"}, arg : Arguments, n : Int,
         given : BOOLEAN, value : Int]

\* The attributes of docs/chip8.md.
Attribute(l) == \/ l.arg \in {"I", "field", "K", "stack"} \cup Fonts
                \/ l.arg = "V" /\ l.n \in Regs \cup {-1}
                \/ l.arg = "R" /\ l.n \in Flags \cup {-1}
                \/ l.arg = "$" /\ l.n \in Addresses \cup {-1}

\* The lines of docs/chip8.md.
IsDocumented(l) ==
  \/ /\ l.verb \in {"break", "rmbreak"}
     /\ l.arg \in {"", "number"} \/ (l.arg = "$" /\ l.n \in Addresses)
  \/ l.verb = "set" /\ Attribute(l) /\ l.given
  \/ l.verb = "print" /\ (l.arg = "" \/ Attribute(l))
  \/ l.verb \in Files /\ l.arg = "text"
  \/ l.verb = "continue" /\ l.arg = ""

\* Those of them that do something else: K is no word the debugger knows, a plain
\* number no address, $0 and $ are refused, and neither the stack nor all registers
\* can be set.
Failing(l) ==
  \/ l.arg \in {"K", "number"}
  \/ l.arg = "$" /\ l.n <= 0
  \/ l.verb = "set" /\ (l.arg = "stack" \/ (l.arg \in {"V", "R"} /\ l.n = -1))

VARIABLES
  breakpoints,  \* the addresses where breakpoints[] is set
  flagsFile,    \* the bytes in the file of flags; none if there is no file
  kept,         \* history: R as the file has it, zeros if it is not complete
  stateFile,    \* the machine save wrote, and how many bytes of it are in the file
  parity        \* history: of the lines run so far, so that each is a step

debugVars == <<breakpoints, flagsFile, kept, stateFile>>
allVars   == <<vars, debugVars, parity>>

\* The fields of struct C8 that are modelled, and with them their history.
Machine == [mem |-> mem, R |-> R, V |-> V, I |-> I, memoryQuirk |-> memoryQuirk,
            breakpoints |-> breakpoints, wide |-> wide]

\* Where those fields begin in it: mem is the first.  Two bytes are I's; of flags and
\* of each of breakpoints[], which are ints, one has all that is used.
AtR           == MemSize
AtV           == AtR + NumFlags
AtI           == AtV + NumRegs
AtFlags       == AtI + 2
AtBreakpoints == AtFlags + 1
Whole         == AtBreakpoints + MemSize

\* A machine that has run as this one does.
Machines == [mem : [Addresses -> Byte], R : [Flags -> Byte], V : [Regs -> Byte],
             I : Words, memoryQuirk : BOOLEAN, breakpoints : SUBSET Addresses,
             wide : BOOLEAN]
HasRun(m) == m \in Machines /\ (m.I \in Addresses \/ m.wide)

ASSUME DebuggerAssumption ==
  /\ Lines \subseteq Line
  /\ Counters \subseteq Words
  /\ Documented = {l \in Lines : IsDocumented(l)}
  /\ \A file \in StateFiles : /\ file = [machine |-> file.machine, size |-> file.size]
                              /\ HasRun(file.machine) /\ file.size \in 0..Whole
  /\ Cuts \subseteq 0..Whole

NoFlags == [f \in Flags |-> 0]

DebuggerInit == /\ Init
                /\ breakpoints = {}
                /\ flagsFile = <<>>
                /\ kept = NoFlags
                /\ stateFile \in StateFiles
                /\ parity = 0

--------------------------------------------------------------------------------
\* Mutant of Type: set returns before the registers also when it has a value.
TypeOfNames(l) ==
  CASE l.arg = "" -> "none"
    [] l.verb = "set" /\ l.arg \in {"V", "R", "$"} -> "none"
    [] l.verb = "set" /\ l.arg = "VK" -> "field"
    [] l.arg = "VK" -> "V"
    [] l.arg \in {"text", "K", "number"} -> "none"
    [] OTHER -> l.arg

\* c8_parse_arg: the type of the argument.  set without a value is not refused, but
\* its argument is then looked up among the names only.  Whatever else begins with V
\* is a V register, VK too.
Type(l) ==
  CASE l.arg = "" -> "none"
    [] l.verb = "set" /\ ~l.given /\ l.arg \in {"V", "R", "$"} -> "none"
    [] l.verb = "set" /\ ~l.given /\ l.arg = "VK" -> "field"
    [] l.arg = "VK" -> "V"
    [] l.arg \in {"text", "K", "number"} -> "none"
    [] OTHER -> l.arg

\* The union of the argument: an int, which is -1 where nothing sets it, or a string.
Number(l)   == IF l.arg # "VK" /\ Type(l) \in {"V", "R", "$"} THEN l.n ELSE -1
IsString(l) == IF l.verb \in Files THEN l.arg # ""
                                    ELSE l.arg \in {"quirks"} \cup Fonts /\ l.given

\* setValue.
NewValue(l) == IF l.verb = "set" /\ l.arg # "" /\ l.given THEN l.value ELSE -1

\* c8_get_command fails: "Invalid command".  The path of a file is any text.
Invalid(l) == \/ l.verb = "unknown"
              \/ l.arg = "$" /\ l.verb \notin Files /\ Type(l) = "$" /\ l.n <= 0

\* The line uses a string that is an int, or leaves an array.
Overrun == Undefined /\ UNCHANGED <<memoryQuirk, debugVars>>

Idle == UNCHANGED <<vars, debugVars>>

\* The address that break and rmbreak are about.
Marked(l, pc) == IF Type(l) = "none" THEN pc ELSE Number(l)

Break(l, pc) ==
  LET a == Marked(l, pc)
  IN  /\ l.verb \in {"break", "rmbreak"}
      /\ IF a \in Addresses
         THEN /\ breakpoints' = IF l.verb = "break" THEN breakpoints \cup {a}
                                                    ELSE breakpoints \ {a}
              /\ UNCHANGED <<vars, flagsFile, kept, stateFile>>
         ELSE Overrun

\* The digits of a font in memory, and memory with others there: c8_set_fonts.
Digit(arg) == IF arg = "sfont" THEN 0..Digits * SmallChar - 1
              ELSE HighFontStart..HighFontStart + Digits * BigChar - 1
WithFont(arg) == {m \in [Addresses -> Byte] :
                    \A a \in Addresses \ Digit(arg) : m[a] = mem[a]}

\* c8_set_value.  The value is cut to the field's width; quirks are flipped; the stack
\* is refused.
Set(l) ==
  /\ l.verb = "set"
  /\ LET type == Type(l) IN
     CASE type = "I" ->
            /\ I' = NewValue(l) % WordSize /\ wide' = TRUE
            /\ UNCHANGED <<V, R, mem, memoryQuirk, status, debugVars>>
       [] type = "V" /\ Number(l) \in Regs ->
            /\ V' = [V EXCEPT ![Number(l)] = NewValue(l) % ByteSize]
            /\ UNCHANGED <<R, I, mem, memoryQuirk, status, wide, debugVars>>
       [] type = "R" /\ Number(l) \in Flags ->
            /\ R' = [R EXCEPT ![Number(l)] = NewValue(l) % ByteSize]
            /\ UNCHANGED <<V, I, mem, memoryQuirk, status, wide, debugVars>>
       [] type = "$" /\ Number(l) \in Addresses ->
            /\ mem' = [mem EXCEPT ![Number(l)] = NewValue(l) % ByteSize]
            /\ UNCHANGED <<V, R, I, memoryQuirk, status, wide, debugVars>>
       [] type = "quirks" /\ IsString(l) ->
            /\ memoryQuirk' \in BOOLEAN
            /\ UNCHANGED <<V, R, I, mem, status, wide, debugVars>>
       [] type \in Fonts /\ IsString(l) ->
            /\ mem' \in WithFont(type)
            /\ UNCHANGED <<V, R, I, memoryQuirk, status, wide, debugVars>>
       [] type \in {"none", "field", "stack"} -> Idle
       [] OTHER -> Overrun

\* c8_print_value reads one place, or without an argument all and the word at pc.
PrintValue(l, pc) ==
  /\ l.verb = "print"
  /\ LET type == Type(l) IN
     CASE type = "none" -> IF pc + 1 \in Addresses THEN Idle ELSE Overrun
       [] type = "R"    -> IF Number(l) \in Flags \cup {-1} THEN Idle ELSE Overrun
       [] type = "V"    -> IF Number(l) \in Regs \cup {-1} THEN Idle ELSE Overrun
       [] type = "$"    -> IF Number(l) \in Addresses THEN Idle ELSE Overrun
       [] OTHER         -> Idle

\* c8_save_flags cannot open the file, or truncates it and may not get it written to
\* its end.
SaveFlags(l) ==
  /\ l.verb = "saveflags"
  /\ IF IsString(l)
     THEN \/ Idle
          \/ \E n \in 0..NumFlags :
               /\ flagsFile' = [k \in 1..n |-> R[k - 1]]
               /\ kept' = IF n = NumFlags THEN R ELSE NoFlags
               /\ UNCHANGED <<vars, breakpoints, stateFile>>
     ELSE Overrun

\* Mutant of Read: one byte less.
ReadLess(file, r) == [f \in Flags |-> IF f + 1 < Len(file) THEN file[f + 1] ELSE r[f]]

\* R after fread: of a short file, which is reported, the bytes it has.
Read(file, r) == [f \in Flags |-> IF f < Len(file) THEN file[f + 1] ELSE r[f]]

\* c8_load_flags, if it can open the file.
LoadFlags(l) ==
  /\ l.verb = "loadflags"
  /\ IF IsString(l)
     THEN /\ R' \in {R, Read(flagsFile, R)}
          /\ UNCHANGED <<V, I, mem, memoryQuirk, status, wide, debugVars>>
     ELSE Overrun

\* c8_save_state, to another file, likewise.
SaveState(l) ==
  /\ l.verb = "save"
  /\ IF IsString(l)
     THEN \/ Idle
          \/ /\ Machine \in Saves
             /\ \E n \in Cuts : stateFile' = [machine |-> Machine, size |-> n]
             /\ UNCHANGED <<vars, breakpoints, flagsFile, kept>>
     ELSE Overrun

\* An array of the machine at this place, with what the first n bytes of a file have.
Part(new, old, at, n) == [k \in DOMAIN old |-> IF at + k < n THEN new[k] ELSE old[k]]

\* fread of n bytes of machine m.  Of a file that ends inside I nothing is said of it.
ReadState(m, n) ==
  /\ mem' = Part(m.mem, mem, 0, n)
  /\ R' = Part(m.R, R, AtR, n)
  /\ V' = Part(m.V, V, AtV, n)
  /\ \/ n <= AtI /\ UNCHANGED <<I, wide>>
     \/ n = AtI + 1 /\ I' \in Words /\ wide' = TRUE
     \/ n > AtI + 1 /\ I' = m.I /\ wide' = m.wide
  /\ memoryQuirk' = IF n > AtFlags THEN m.memoryQuirk ELSE memoryQuirk
  /\ breakpoints' = {a \in Addresses :
                       a \in IF AtBreakpoints + a < n THEN m.breakpoints ELSE breakpoints}
  /\ UNCHANGED <<status, flagsFile, kept, stateFile>>

\* c8_load_state, if it can open the file.  One that is short is reported after it has
\* been read; c8_validate looks at none of these fields.
LoadState(l) ==
  /\ l.verb = "load"
  /\ IF IsString(l)
     THEN Idle \/ ReadState(stateFile.machine, stateFile.size)
     ELSE Overrun

\* The lines that look at pc, and the others.
AtPc(l, pc) == ~Invalid(l) /\ (Break(l, pc) \/ PrintValue(l, pc))

Elsewhere(l) ==
  IF Invalid(l) THEN Idle
  ELSE \/ Set(l) \/ SaveFlags(l) \/ LoadFlags(l) \/ SaveState(l) \/ LoadState(l)
       \/ l.verb = "continue" /\ Idle

\* One line at the prompt.  A blank line, and the end of a line of more than 63
\* characters, are whatever stands in the buffer: any line.
Command(l, pc) == AtPc(l, pc) \/ Elsewhere(l)

Prompt == \E l \in Lines : Elsewhere(l) \/ \E pc \in Counters : AtPc(l, pc)

DebuggerNext == \/ Next /\ UNCHANGED <<debugVars, parity>>
                \/ status = "ok" /\ Prompt /\ parity' = 1 - parity

DebuggerSpec == DebuggerInit /\ [][DebuggerNext]_allVars

--------------------------------------------------------------------------------
DebuggerTypeOK == /\ TypeOK
                  /\ breakpoints \subseteq Addresses
                  /\ flagsFile \in Seq(Byte) /\ Len(flagsFile) <= NumFlags
                  /\ kept \in [Flags -> Byte] /\ parity \in {0, 1}
                  /\ stateFile.machine \in Machines /\ stateFile.size \in 0..Whole

\* What such a line is to do to the machine, and nothing else, but for R after
\* loadflags.  Of a file that is not whole nothing is promised.
Asked(l, pc) ==
  LET address    == IF l.arg = "" THEN pc ELSE l.n
      SetTo(arg) == l.verb = "set" /\ l.arg = arg
  IN  /\ status' = "ok"
      /\ IF l.verb = "load"
         THEN stateFile.size = Whole => Machine' \in {Machine, stateFile.machine}
         ELSE /\ breakpoints' = CASE l.verb = "break"   -> breakpoints \cup {address}
                                  [] l.verb = "rmbreak" -> breakpoints \ {address}
                                  [] OTHER              -> breakpoints
              /\ V' = IF SetTo("V") THEN [V EXCEPT ![l.n] = l.value % ByteSize] ELSE V
              /\ I' = IF SetTo("I") THEN l.value % WordSize ELSE I
              /\ CASE SetTo("$") -> mem' = [mem EXCEPT ![l.n] = l.value % ByteSize]
                   [] SetTo("sfont") \/ SetTo("bfont") -> mem' \in WithFont(l.arg)
                   [] OTHER -> mem' = mem
              /\ memoryQuirk' = memoryQuirk
              /\ R' = CASE SetTo("R")           -> [R EXCEPT ![l.n] = l.value % ByteSize]
                        [] l.verb = "loadflags" -> R'
                        [] OTHER                -> R
      /\ l.verb = "save" \/ stateFile' = stateFile
      /\ stateFile' = stateFile \/ stateFile'.machine = Machine

Working == {l \in Documented : ~Failing(l)}
AtInstruction == {pc \in Counters : pc + 1 \in Addresses}

\* Every line that docs/chip8.md lists, but for those that Failing names, typed where pc
\* is at an instruction, does what is said there and nothing else, whatever
\* c8_get_command and c8_parse_arg make of the same words elsewhere, and leaves no
\* array.
DocumentedLinesWork ==
  [][parity' # parity =>
       \A l \in Working, pc \in AtInstruction : Command(l, pc) => Asked(l, pc)]_allVars

\* From a file that saveflags wrote to its end, loadflags gives R back as it was then,
\* whatever a program, set or a failed loadflags has done to it since.
FlagsComeBack == Len(flagsFile) = NumFlags => Read(flagsFile, R) = kept
================================================================================
