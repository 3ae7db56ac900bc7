------------------------------- MODULE CallStack -------------------------------
(***************************************************************************)
(* What CALL and RET promise a CHIP-8 program, with no stack pointer and no *)
(* array: calls nest, a RET resumes right after the CALL it matches, a call *)
(* at full depth and a return at depth zero stop the machine with their own *)
(* exception, and a stopped machine never moves again.  Module Cpu          *)
(* implements it with stack[] and sp.                                       *)
(***************************************************************************)
EXTENDS Naturals, Sequences

CONSTANTS MaxDepth,   \* the deepest nesting of calls
          WordSize    \* addresses are counted modulo this, 2^16

VARIABLES here,    \* the address of the next instruction
          frames,  \* the addresses of the CALLs not yet returned from
          halt     \* why the machine has stopped, "no" while it runs

vars == <<here, frames, halt>>

Address == 0..WordSize - 1

Init == /\ here \in Address
        /\ frames = <<>>
        /\ halt = "no"

Call == /\ Len(frames) < MaxDepth
        /\ frames' = Append(frames, here)
        /\ here' \in Address
        /\ halt' = "no"

Return == /\ frames # <<>>
          /\ here' = (frames[Len(frames)] + 2) % WordSize
          /\ frames' = SubSeq(frames, 1, Len(frames) - 1)
          /\ halt' = "no"

\* Every other instruction: next, skip or jump.
Move == /\ here' \in Address
        /\ halt' = "no"
        /\ UNCHANGED frames

Overflow == /\ Len(frames) = MaxDepth
            /\ halt' = "overflow"
            /\ UNCHANGED <<here, frames>>

Underflow == /\ frames = <<>>
             /\ halt' = "underflow"
             /\ UNCHANGED <<here, frames>>

\* Any other way to stop: EXIT, quit, another exception.
Stop == /\ halt' = "stopped"
        /\ UNCHANGED <<here, frames>>

Next == /\ halt = "no"
        /\ Call \/ Return \/ Move \/ Overflow \/ Underflow \/ Stop

Spec == Init /\ [][Next]_vars
================================================================================
