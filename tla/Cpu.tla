---------------------------------- MODULE Cpu ----------------------------------
(***************************************************************************)
(* The control part of the interpreter (src/c8/private/instruction.c): how  *)
(* each instruction moves pc, sp, the stack, the timers and the two waiting *)
(* flags, and which exception it returns.  V, I, R, mem and the display are *)
(* abstract: a value read from them is any byte of RegValues, and any       *)
(* instruction may be found at any address, since a program may load and    *)
(* store anything.                                                          *)
(*                                                                          *)
(* The rest of c8_simulate is the environment here: frames, key releases    *)
(* and quitting come at any time.  Module Simulate says when they do.       *)
(***************************************************************************)
EXTENDS Isa

CONSTANTS
  MemSize,     \* C8_MEMSIZE, 0x1000
  WordSize,    \* 2^16: pc is a uint16_t
  ByteSize,    \* 2^8: registers, sp, dt and st are uint8_t
  StackSize,   \* C8_STACK_SIZE, 16
  ProgStart,   \* C8_PROG_START, 0x200
  NumRegs,     \* 16 V registers
  Targets,     \* the addresses nnn that programs jump to and call
  RegValues    \* the bytes that V registers hold

ASSUME CpuAssumption ==
  /\ WordSize \in Nat /\ ByteSize \in Nat /\ NumRegs \in Nat
  /\ MemSize \in 1..WordSize
  /\ ProgStart \in 0..MemSize - 1
  /\ NumRegs > 0
  /\ StackSize \in 1..ByteSize
  /\ Targets \subseteq 0..MemSize - 1
  /\ RegValues \subseteq 0..ByteSize - 1

VARIABLES
  pc,              \* program counter
  sp,              \* number of stack slots in use
  stack,           \* stack[], the addresses of the pending CALLs
  dt, st,          \* delay and sound timer
  sound,           \* whether the backend is playing
  VK,              \* the register a key release goes to
  waitingForKey,   \* set by LD Vx, K, cleared by a key release
  waitingForDraw,  \* set by DRW under the vblank quirk, cleared by a frame
  running,         \* cleared by EXIT and by quitting
  mode,            \* interpreter mode
  vblank,          \* C8_FLAG_QUIRK_VBLANK
  status           \* "ok", or what ended the run: see Outcomes

calls    == <<sp, stack>>
timers   == <<dt, st, sound>>
waits    == <<VK, waitingForKey, waitingForDraw>>
config   == <<mode, vblank>>
cpuVars  == <<pc, calls, timers, waits, running, config, status>>

Word == 0..WordSize - 1
Byte == 0..ByteSize - 1
Regs == 0..NumRegs - 1

\* The exceptions c8_simulate may return, and "undefined" for an access
\* outside mem[], V[] or stack[] after which C promises nothing: it may crash
\* or leave any byte of the machine changed.
Outcomes == {"ok", "syntax", "overflow", "underflow", "invalid_state",
             "graphics", "undefined"}

CpuInit ==
  /\ pc = ProgStart
  /\ sp = 0
  /\ stack = [i \in 0..StackSize - 1 |-> 0]
  /\ dt = 0 /\ st = 0 /\ sound = FALSE
  /\ VK = 0 /\ waitingForKey = FALSE /\ waitingForDraw = FALSE
  /\ running = TRUE
  /\ mode \in Modes
  /\ vblank \in BOOLEAN
  /\ status = "ok"

--------------------------------------------------------------------------------
\* Mutant of Advance: an int that does not wrap.
AdvanceUnwrapped(n) == pc' = pc + n

\* pc += n, in 16 bits.  Nothing compares pc with the size of memory.
Advance(n) == pc' = (pc + n) % WordSize

\* Return an exception and leave the machine as it was.
Fault(e) == /\ status' = e
            /\ UNCHANGED <<pc, calls, timers, waits, running, config>>

\* A word no function is dispatched for.
InvalidWord == Fault("syntax")

\* An instruction the mode refuses.
Refused == /\ \E i \in SchipExclusive \cup XochipExclusive : ~Permitted(i, mode)
           /\ Fault("invalid_state")

\* An instruction that touches data only.
StraightLine == /\ \E i \in Straight : Permitted(i, mode)
                /\ Advance(2)
                /\ UNCHANGED <<calls, timers, waits, running, config, status>>

\* SE, SNE, SKP, SKNP: over one word or over two.
Skip == /\ Advance(2) \/ Advance(4)
        /\ UNCHANGED <<calls, timers, waits, running, config, status>>

\* LD I, NNNN is four bytes long.
LdIWord == /\ Permitted("ld_i_word", mode)
           /\ Advance(4)
           /\ UNCHANGED <<calls, timers, waits, running, config, status>>

Exit == /\ Permitted("exit", mode)
        /\ running' = FALSE
        /\ UNCHANGED <<pc, calls, timers, waits, config, status>>

Jp(nnn) == /\ pc' = nnn
           /\ UNCHANGED <<calls, timers, waits, running, config, status>>

\* JP V0, nnn: V0, or Vx under the jumping quirk; the sum is not masked.
JpV0(nnn, v) == Jp((nnn + v) % WordSize)

\* Mutant of CallNnn: the bound compared with > instead of >=.
CallNnnOneTooMany(nnn) ==
  /\ sp <= StackSize - 1
  /\ stack' = [stack EXCEPT ![sp] = pc]
  /\ sp' = sp + 1
  /\ pc' = nnn
  /\ UNCHANGED <<timers, waits, running, config, status>>

\* CALL stores the address of the CALL itself; the last slot is never used.
CallNnn(nnn) ==
  /\ sp < StackSize - 1
  /\ stack' = [stack EXCEPT ![sp] = pc]
  /\ sp' = sp + 1
  /\ pc' = nnn
  /\ UNCHANGED <<timers, waits, running, config, status>>

CallOverflow == sp >= StackSize - 1 /\ Fault("overflow")

\* Mutant of Ret: back to the CALL, which is then run again.
RetToCall ==
  /\ sp # 0
  /\ sp' = sp - 1
  /\ IF sp - 1 \in DOMAIN stack THEN pc' = stack[sp - 1] ELSE pc' \in Word
  /\ UNCHANGED <<stack, timers, waits, running, config, status>>

\* RET goes back to the CALL and steps over it.  A slot outside stack[] holds
\* whatever lies there.
Ret == /\ sp # 0
       /\ sp' = sp - 1
       /\ IF sp - 1 \in DOMAIN stack THEN pc' = (stack[sp - 1] + 2) % WordSize
                                     ELSE pc' \in Word
       /\ UNCHANGED <<stack, timers, waits, running, config, status>>

RetUnderflow == sp = 0 /\ Fault("underflow")

\* DRW: under the vblank quirk the program is held until the next frame.
Drw == /\ waitingForDraw' = (waitingForDraw \/ vblank)
       /\ Advance(2)
       /\ UNCHANGED <<calls, timers, VK, waitingForKey, running, config, status>>

\* LD Vx, K: hold the program until a key is released.
LdVxK(x) == /\ VK' = x
            /\ waitingForKey' = TRUE
            /\ Advance(2)
            /\ UNCHANGED <<calls, timers, waitingForDraw, running, config, status>>

LdDtVx(v) == /\ dt' = v
             /\ Advance(2)
             /\ UNCHANGED <<calls, st, sound, waits, running, config, status>>

\* LD ST: a sound timer at zero first stops the sound; no instruction starts it.
LdStVx(v) == /\ sound' = (sound /\ st # 0)
             /\ st' = v
             /\ Advance(2)
             /\ UNCHANGED <<calls, dt, waits, running, config, status>>

\* A store or load through I (ld_b_vx, ld_ip_vx, ld_vx_ip, drw_vx_vy_b) or a
\* fetch through pc that leaves mem[]: neither I nor pc is ever masked.
OutOfMemory == Fault("undefined")

\* c8_parse_instruction followed by c8_simulate's pc += ret.
Instruction ==
  \/ InvalidWord \/ Refused \/ StraightLine \/ Skip \/ LdIWord \/ Exit
  \/ \E nnn \in Targets : Jp(nnn) \/ CallNnn(nnn)
  \/ \E nnn \in Targets, v \in RegValues : JpV0(nnn, v)
  \/ CallOverflow \/ Ret \/ RetUnderflow
  \/ Drw
  \/ \E x \in Regs : LdVxK(x)
  \/ \E v \in RegValues : LdDtVx(v) \/ LdStVx(v)
  \/ OutOfMemory

--------------------------------------------------------------------------------
\* Mutant of Countdown: the delay timer stands still while the program waits for a key.
CountdownUnlessHeld ==
  /\ dt' = IF dt > 0 /\ ~waitingForKey THEN dt - 1 ELSE dt
  /\ st' = IF st > 0 /\ ~waitingForKey THEN st - 1 ELSE st
  /\ sound' = (sound /\ st # 1)
  /\ UNCHANGED <<pc, calls, VK, waitingForKey, running, config>>

\* A new frame: both timers count down, the sound stops when st gets to zero ...
Countdown ==
  /\ dt' = IF dt > 0 THEN dt - 1 ELSE dt
  /\ st' = IF st > 0 THEN st - 1 ELSE st
  /\ sound' = (sound /\ st # 1)
  /\ UNCHANGED <<pc, calls, VK, waitingForKey, running, config>>

\* Mutant of Frame: the hold of DRW is not released.
FrameKeepsHold == Countdown /\ UNCHANGED <<waitingForDraw, status>>

\* ... and the display is rendered, which releases a program held by DRW ...
Frame == /\ Countdown
         /\ waitingForDraw' = FALSE
         /\ UNCHANGED status

\* ... or the backend fails to.
RenderFails == /\ Countdown
               /\ status' = "graphics"
               /\ UNCHANGED waitingForDraw

\* A key was released.  V[VK] is written, wherever VK points.
KeyReleased ==
  /\ waitingForKey
  /\ waitingForKey' = FALSE
  /\ status' = IF VK \in Regs THEN status ELSE "undefined"
  /\ UNCHANGED <<pc, calls, timers, VK, waitingForDraw, running, config>>

\* Mutant of Quit: -2 is taken for a key that is not there.
QuitIgnored == UNCHANGED cpuVars

Quit == /\ running' = FALSE
        /\ UNCHANGED <<pc, calls, timers, waits, config, status>>

\* c8_validate refuses to start.
Rejected == /\ pc = ProgStart /\ sp = 0
            /\ Fault("invalid_state")

Alive == running /\ status = "ok"

\* Instructions run only while neither flag holds the program.
CpuNext ==
  /\ Alive
  /\ \/ ~waitingForKey /\ ~waitingForDraw /\ Instruction
     \/ Frame \/ RenderFails \/ KeyReleased \/ Quit \/ Rejected

CpuSpec == CpuInit /\ [][CpuNext]_cpuVars

--------------------------------------------------------------------------------
CpuTypeOK ==
  /\ pc \in Word
  /\ sp \in Byte
  /\ stack \in [0..StackSize - 1 -> Word]
  /\ dt \in Byte /\ st \in Byte /\ sound \in BOOLEAN
  /\ VK \in Nat /\ waitingForKey \in BOOLEAN /\ waitingForDraw \in BOOLEAN
  /\ running \in BOOLEAN
  /\ mode \in Nat /\ vblank \in BOOLEAN
  /\ status \in Outcomes

\* stack[sp] and stack[sp - 1] are never outside the array: whatever the order
\* of calls, returns, overflows and underflows, c8_i_call_nnn and c8_i_ret keep
\* sp below C8_STACK_SIZE.
StackInBounds == sp < StackSize

\* A key release is stored in a V register (c8->V[c8->VK] = t).
KeyRegisterInBounds == VK \in Regs

\* The program is never held by DRW and by LD Vx, K at once.  If it were, a key
\* release would let it run on before the frame it waits for.
OneWaitAtATime == ~(waitingForKey /\ waitingForDraw)

\* c8->stack[0 .. sp - 1], most recent last.
Frames == [i \in 1..sp |-> stack[i - 1]]

Halt == IF status = "ok" THEN IF running THEN "no" ELSE "stopped"
        ELSE IF status \in {"overflow", "underflow"} THEN status ELSE "stopped"

\* stack[] and sp implement nested calls of depth StackSize - 1.
Calls == INSTANCE CallStack WITH MaxDepth <- StackSize - 1,
                                 here <- pc, frames <- Frames, halt <- Halt
CallsSpec == Calls!Spec
================================================================================
