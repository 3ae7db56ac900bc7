------------------------------- MODULE MCSimulate ------------------------------
(* Small values of the constants of Simulate. *)
EXTENDS Simulate

MCTargets == {0}
MCRegValues == {1}
MCLongTimer == {2}
Nothing == {}

\* A clock that moves by less and by more than a frame, and back.
JumpyClock == {-1, 1, 3}
SteadyClock == {0, 1}

\* A machine as save writes it, and one that a file may hold as well: waiting for
\* two things at once, unable to run, and with a stack pointer and a key register
\* out of range.  A short file takes the first fields of either.
Saved == [pc |-> 0, sp |-> 0, stack |-> [i \in 0..StackSize - 1 |-> 0],
          dt |-> 1, st |-> 0, VK |-> 0, waitingForKey |-> FALSE,
          waitingForDraw |-> FALSE, running |-> TRUE, mode |-> Chip8,
          vblank |-> TRUE, debug |-> TRUE, tickSpeed |-> 1, breakpoints |-> {}]
MCSavedStates ==
  {Saved,
   [Saved EXCEPT !.waitingForKey = TRUE, !.waitingForDraw = TRUE,
                 !.sp = StackSize, !.VK = NumRegs, !.tickSpeed = 0]}
\* A machine with a clock speed that c8_validate rejects.
MCBackwards == {[Saved EXCEPT !.tickSpeed = -1]}
MCSetCommands ==
  {[field |-> "PC", value |-> MemSize], [field |-> "SP", value |-> -1],
   [field |-> "quirks", value |-> 0]}
================================================================================
