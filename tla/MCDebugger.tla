------------------------------ MODULE MCDebugger -------------------------------
(* Small values of the constants of Debugger. *)
EXTENDS Debugger

Typed(verb, arg, n) == [verb |-> verb, arg |-> arg, n |-> n, given |-> FALSE, value |-> 0]
SetTo(arg, n, value) ==
  [verb |-> "set", arg |-> arg, n |-> n, given |-> TRUE, value |-> value]

\* What docs/chip8.md lists, the lines that fail included.
MCDocumented ==
  {Typed("break", "", 0), Typed("break", "$", 1), Typed("break", "number", 1),
   Typed("rmbreak", "$", 1), Typed("print", "", 0), Typed("print", "$", -1),
   SetTo("I", 0, 1), SetTo("V", 0, -1), SetTo("V", -1, 1), SetTo("R", 0, 1),
   SetTo("$", 1, 3), SetTo("K", 0, 1), SetTo("stack", 0, 1), SetTo("sfont", 0, 0),
   Typed("saveflags", "text", 0), Typed("loadflags", "text", 0),
   Typed("save", "text", 0), Typed("load", "text", 0), Typed("continue", "", 0)}

\* Missing words, names where a number is meant and the other way round, and numbers
\* out of range.
MCLines == MCDocumented \cup
  {Typed("break", "field", 0), Typed("break", "V", 1), Typed("print", "VK", 0),
   Typed("set", "I", 0), Typed("set", "V", 0), SetTo("quirks", 0, 0),
   Typed("loadflags", "", 0), Typed("unknown", "", 0)}

\* An instruction, and beyond the end of memory.
MCCounters == {0, MemSize}

\* No file yet; and one machine to save, with I outside memory.
Away == [mem |-> [a \in Addresses |-> 1], R |-> [f \in Flags |-> 1],
          V |-> [r \in Regs |-> r], I |-> MemSize, memoryQuirk |-> TRUE,
          breakpoints |-> {1}, wide |-> TRUE]
MCStateFiles == {[machine |-> Away, size |-> 0]}
MCSaves == {Away}
MCCuts == {AtI + 1, Whole}
================================================================================
