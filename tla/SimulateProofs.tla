----------------------------- MODULE SimulateProofs ----------------------------
(***************************************************************************)
(* First Cpu by itself, for every size of memory, word, byte, stack and     *)
(* register file, and every program: the stack accesses of CALL and RET     *)
(* stay inside stack[], the two waiting flags are never set together, and   *)
(* stack[] and sp implement the nested calls of module CallStack.           *)
(*                                                                         *)
(* Then, for every refresh rate, clock, keyboard, program, and use of the   *)
(* debugger: c8_simulate keeps its types and its accounting of time; and    *)
(* until the debugger overwrites the machine it drives it as Cpu says,      *)
(* stops at the prompt only between frames and delivers only fresh keys.    *)
(***************************************************************************)
EXTENDS Simulate, SequenceTheorems, TLAPS

\* The inductive invariant.  StackInBounds needs the types (sp is a natural
\* number that CALL compares with StackSize); OneWaitAtATime needs nothing
\* else, since CpuNext runs no instruction while a flag is set.
CpuInv == CpuTypeOK /\ StackInBounds /\ KeyRegisterInBounds /\ OneWaitAtATime

\* An address computed modulo the word size is an address: what every
\* assignment to pc in instruction.c relies on.
LEMMA WordMod == \A n \in Nat : n % WordSize \in Word
  BY CpuAssumption DEF Word

\* c8_simulate starts in the invariant.
LEMMA CpuInitInv == CpuInit => CpuInv
<1> SUFFICES ASSUME CpuInit PROVE CpuInv
  OBVIOUS
<1>1. 0 \in Word /\ 0 \in Byte /\ 0 \in Regs /\ ProgStart \in Word
  BY CpuAssumption DEF Word, Byte, Regs
<1>2. mode \in Nat
  BY DEF CpuInit, Modes, Chip8, Schip, Xochip
<1>3. stack \in [0..StackSize - 1 -> Word]
  BY <1>1 DEF CpuInit
<1>4. StackInBounds /\ OneWaitAtATime
  BY CpuAssumption DEF CpuInit, StackInBounds, OneWaitAtATime
<1> QED
  BY <1>1, <1>2, <1>3, <1>4 DEF CpuInit, CpuInv, CpuTypeOK,
     KeyRegisterInBounds, Outcomes, Regs

\* An exception changes nothing but the status.
LEMMA FaultTypes ==
  ASSUME CpuTypeOK, NEW e \in Outcomes, Fault(e)
  PROVE  CpuTypeOK'
  BY DEF Fault, CpuTypeOK, calls, timers, waits, config

\* The instructions that move only pc.
LEMMA MoveTypes ==
  ASSUME CpuTypeOK, pc' \in Word,
         UNCHANGED <<calls, timers, waits, running, config, status>>
  PROVE  CpuTypeOK'
  BY DEF CpuTypeOK, calls, timers, waits, config

\* pc += n stays in 16 bits.
LEMMA AdvanceWord ==
  ASSUME pc \in Word, NEW n \in Nat, Advance(n)
  PROVE  pc' \in Word
  BY WordMod DEF Advance, Word

\* Every instruction keeps every field in its C type, from any state of the
\* machine: also one the debugger has written.
LEMMA InstructionTypes ==
  ASSUME CpuTypeOK, Instruction
  PROVE  CpuTypeOK'
<1> USE CpuAssumption
<1>w. pc \in Word
  BY DEF CpuTypeOK
<1>1. CASE InvalidWord \/ Refused \/ CallOverflow \/ RetUnderflow \/ OutOfMemory
  BY <1>1, FaultTypes DEF InvalidWord, Refused, CallOverflow, RetUnderflow,
     OutOfMemory, Outcomes
<1>2. CASE StraightLine \/ Skip \/ LdIWord
  BY <1>2, <1>w, AdvanceWord, MoveTypes DEF StraightLine, Skip, LdIWord
<1>3. CASE Exit
  BY <1>3 DEF Exit, CpuTypeOK, calls, timers, waits, config
<1>4. ASSUME NEW nnn \in Targets, Jp(nnn) PROVE CpuTypeOK'
  <2>1. nnn \in Word
    BY DEF Word
  <2> QED
    BY <1>4, <2>1, MoveTypes DEF Jp
<1>5. ASSUME NEW nnn \in Targets, CallNnn(nnn) PROVE CpuTypeOK'
  <2>1. nnn \in Word /\ sp + 1 \in Byte
    BY <1>5 DEF CallNnn, CpuTypeOK, Byte, Word
  <2>2. stack' \in [0..StackSize - 1 -> Word]
    BY <1>5, <1>w, <2>1 DEF CallNnn, CpuTypeOK
  <2> QED
    BY <1>5, <2>1, <2>2 DEF CallNnn, CpuTypeOK, timers, waits, config
<1>6. ASSUME NEW nnn \in Targets, NEW v \in RegValues, JpV0(nnn, v)
      PROVE  CpuTypeOK'
  <2>1. nnn + v \in Nat
    OBVIOUS
  <2> QED
    BY <1>6, <2>1, WordMod, MoveTypes DEF JpV0, Jp
<1>7. CASE Ret
  <2>1. sp' \in Byte
    BY <1>7 DEF Ret, CpuTypeOK, Byte
  <2>2. sp - 1 \in DOMAIN stack => stack[sp - 1] \in Word
    BY DEF CpuTypeOK
  <2>3. pc' \in Word
    BY <1>7, <2>2, WordMod DEF Ret, Word
  <2> QED
    BY <1>7, <2>1, <2>3 DEF Ret, CpuTypeOK, timers, waits, config
<1>8. CASE Drw
  BY <1>8, <1>w, AdvanceWord DEF Drw, CpuTypeOK, calls, timers, config
<1>9. ASSUME NEW x \in Regs, LdVxK(x) PROVE CpuTypeOK'
  BY <1>9, <1>w, AdvanceWord DEF LdVxK, CpuTypeOK, Regs, calls, timers, config
<1>10. ASSUME NEW v \in RegValues, LdDtVx(v) PROVE CpuTypeOK'
  BY <1>10, <1>w, AdvanceWord DEF LdDtVx, CpuTypeOK, Byte, calls, waits, config
<1>11. ASSUME NEW v \in RegValues, LdStVx(v) PROVE CpuTypeOK'
  BY <1>11, <1>w, AdvanceWord DEF LdStVx, CpuTypeOK, Byte, calls, waits, config
<1> QED
  BY <1>1, <1>2, <1>3, <1>4, <1>5, <1>6, <1>7, <1>8, <1>9, <1>10, <1>11
     DEF Instruction

\* Executed while the program is not held, an instruction keeps the rest of the
\* invariant too: only CALL and RET move sp, only DRW and LD Vx, K set a flag.
LEMMA InstructionInv ==
  ASSUME CpuInv, ~waitingForKey, ~waitingForDraw, Instruction
  PROVE  CpuInv'
<1>t. CpuTypeOK'
  BY InstructionTypes DEF CpuInv
<1> DEFINE Rest == StackInBounds /\ KeyRegisterInBounds /\ OneWaitAtATime
<1>r. Rest
  BY DEF CpuInv
<1> SUFFICES Rest'
  BY <1>t DEF CpuInv
<1>1. ASSUME UNCHANGED <<calls, waits>> PROVE Rest'
  BY <1>1, <1>r DEF StackInBounds, KeyRegisterInBounds, OneWaitAtATime, calls, waits
<1>2. ASSUME NEW e \in Outcomes, Fault(e) PROVE Rest'
  BY <1>2, <1>1 DEF Fault
<1>3. CASE InvalidWord \/ Refused \/ CallOverflow \/ RetUnderflow \/ OutOfMemory
  BY <1>3, <1>2 DEF InvalidWord, Refused, CallOverflow, RetUnderflow,
     OutOfMemory, Outcomes
<1>4. CASE StraightLine \/ Skip \/ LdIWord \/ Exit
  BY <1>4, <1>1 DEF StraightLine, Skip, LdIWord, Exit
<1>5. ASSUME NEW nnn \in Targets, NEW v \in RegValues,
             Jp(nnn) \/ JpV0(nnn, v) \/ LdDtVx(v) \/ LdStVx(v)
      PROVE  Rest'
  BY <1>5, <1>1 DEF Jp, JpV0, LdDtVx, LdStVx
<1>6. ASSUME NEW nnn \in Targets, CallNnn(nnn) PROVE Rest'
  <2>1. sp \in Nat /\ StackSize \in Nat
    BY CpuAssumption DEF CpuInv, CpuTypeOK, Byte
  <2> QED
    BY <1>6, <1>r, <2>1 DEF CallNnn, StackInBounds, KeyRegisterInBounds,
       OneWaitAtATime, waits
<1>7. CASE Ret
  <2>1. sp \in Nat /\ StackSize \in Nat
    BY CpuAssumption DEF CpuInv, CpuTypeOK, Byte
  <2> QED
    BY <1>7, <1>r, <2>1 DEF Ret, StackInBounds, KeyRegisterInBounds,
       OneWaitAtATime, waits
<1>8. CASE Drw
  BY <1>8, <1>r DEF Drw, StackInBounds, KeyRegisterInBounds, OneWaitAtATime, calls
<1>9. ASSUME NEW x \in Regs, LdVxK(x) PROVE Rest'
  BY <1>9, <1>r DEF LdVxK, StackInBounds, KeyRegisterInBounds, OneWaitAtATime, calls
<1>10. ASSUME NEW nnn \in Targets, Jp(nnn) PROVE Rest'
  BY <1>10, <1>1 DEF Jp
<1>11. ASSUME NEW v \in RegValues, LdDtVx(v) \/ LdStVx(v) PROVE Rest'
  BY <1>11, <1>1 DEF LdDtVx, LdStVx
<1> QED
  BY <1>3, <1>4, <1>5, <1>6, <1>7, <1>8, <1>9, <1>10, <1>11 DEF Instruction

\* The environment keeps the types as well.
LEMMA EnvironmentTypes ==
  ASSUME CpuTypeOK, Frame \/ RenderFails \/ KeyReleased \/ Quit \/ Rejected
  PROVE  CpuTypeOK'
<1>1. CASE Frame \/ RenderFails
  <2>1. dt' \in Byte /\ st' \in Byte
    BY <1>1, CpuAssumption DEF Frame, RenderFails, Countdown, CpuTypeOK, Byte
  <2>2. sound' \in BOOLEAN
    BY <1>1, Zenon DEF Frame, RenderFails, Countdown, CpuTypeOK
  <2> QED
    BY <1>1, <2>1, <2>2 DEF Frame, RenderFails, Countdown, CpuTypeOK, calls, config,
       Outcomes
<1>2. CASE KeyReleased
  BY <1>2 DEF KeyReleased, CpuTypeOK, calls, timers, config, Outcomes
<1>3. CASE Quit
  BY <1>3 DEF Quit, CpuTypeOK, calls, timers, waits, config
<1>4. CASE Rejected
  BY <1>4, FaultTypes DEF Rejected, Outcomes
<1> QED
  BY <1>1, <1>2, <1>3, <1>4

\* Every step preserves the invariant.
LEMMA CpuStepInv == CpuInv /\ [CpuNext]_cpuVars => CpuInv'
<1> SUFFICES ASSUME CpuInv, [CpuNext]_cpuVars PROVE CpuInv'
  OBVIOUS
<1>1. CASE ~waitingForKey /\ ~waitingForDraw /\ Instruction
  BY <1>1, InstructionInv
<1>2. CASE Frame \/ RenderFails \/ KeyReleased \/ Quit \/ Rejected
  <2>1. UNCHANGED sp /\ UNCHANGED VK
    BY <1>2 DEF Frame, RenderFails, Countdown, KeyReleased, Quit, Rejected,
       Fault, calls, waits
  <2>2. (waitingForKey' => waitingForKey) /\ (waitingForDraw' => waitingForDraw)
    BY <1>2 DEF Frame, RenderFails, Countdown, KeyReleased, Quit, Rejected,
       Fault, waits
  <2> QED
    BY <1>2, <2>1, <2>2, EnvironmentTypes DEF CpuInv, StackInBounds,
       KeyRegisterInBounds, OneWaitAtATime
<1>3. CASE UNCHANGED cpuVars
  BY <1>3 DEF cpuVars, CpuInv, CpuTypeOK, StackInBounds,
     KeyRegisterInBounds, OneWaitAtATime, calls, timers, waits, config
<1> QED
  BY <1>1, <1>2, <1>3 DEF CpuNext

\* The fields keep their C types through every instruction.
THEOREM CpuTypeCorrect == CpuSpec => []CpuTypeOK
<1>1. CpuInv => CpuTypeOK
  BY DEF CpuInv
<1> QED
  BY <1>1, CpuInitInv, CpuStepInv, PTL DEF CpuSpec

\* c8_i_call_nnn and c8_i_ret never index stack[] outside its bounds.
THEOREM StackSafe == CpuSpec => []StackInBounds
<1>1. CpuInv => StackInBounds
  BY DEF CpuInv
<1> QED
  BY <1>1, CpuInitInv, CpuStepInv, PTL DEF CpuSpec

\* DRW and LD Vx, K never hold the program together.
THEOREM WaitsAreExclusive == CpuSpec => []OneWaitAtATime
<1>1. CpuInv => OneWaitAtATime
  BY DEF CpuInv
<1> QED
  BY <1>1, CpuInitInv, CpuStepInv, PTL DEF CpuSpec

--------------------------------------------------------------------------------
(* stack[] and sp implement nested calls. *)

\* The used slots of stack[] are a sequence of addresses.
LEMMA FramesSeq ==
  ASSUME CpuInv
  PROVE  /\ Frames \in Seq(Word)
         /\ Len(Frames) = sp
         /\ \A i \in 1..sp : Frames[i] = stack[i - 1]
<1>1. sp \in Nat /\ sp < StackSize /\ stack \in [0..StackSize - 1 -> Word]
  BY DEF CpuInv, CpuTypeOK, StackInBounds, Byte
<1>2. \A i \in 1..sp : stack[i - 1] \in Word
  BY <1>1, CpuAssumption
<1> QED
  BY <1>1, <1>2 DEF Frames

\* The empty stack is the empty sequence.
LEMMA FramesEmpty == CpuInv => (sp = 0 <=> Frames = <<>>)
  BY FramesSeq, EmptySeq DEF Frames

\* The invariant after the step gives the same for the new stack.
LEMMA FramesSeqNext ==
  ASSUME CpuInv'
  PROVE  /\ Frames' \in Seq(Word)
         /\ Len(Frames)' = sp'
         /\ \A i \in 1..sp' : Frames'[i] = stack'[i - 1]
<1>1. sp' \in Nat /\ sp' < StackSize /\ stack' \in [0..StackSize - 1 -> Word]
  BY DEF CpuInv, CpuTypeOK, StackInBounds, Byte
<1>2. \A i \in 1..sp' : stack'[i - 1] \in Word
  BY <1>1, CpuAssumption
<1> QED
  BY <1>1, <1>2 DEF Frames

\* A step that leaves stack[] and sp alone leaves the frames alone.
LEMMA FramesUnchanged == UNCHANGED calls => UNCHANGED Frames
  BY DEF calls, Frames

\* CALL pushes the address of the CALL.
LEMMA CallPushes ==
  ASSUME CpuInv, CpuInv', NEW nnn \in Targets, CallNnn(nnn)
  PROVE  Frames' = Append(Frames, pc)
<1>1. sp \in Nat /\ sp' = sp + 1 /\ pc \in Word /\ sp \in DOMAIN stack
  BY CpuAssumption DEF CallNnn, CpuInv, CpuTypeOK, StackInBounds, Byte
<1>2. /\ Append(Frames, pc) \in Seq(Word)
      /\ Len(Append(Frames, pc)) = sp + 1
      /\ \A i \in 1..sp : Append(Frames, pc)[i] = Frames[i]
      /\ Append(Frames, pc)[sp + 1] = pc
  BY <1>1, FramesSeq, AppendProperties
<1>3. \A i \in 1..sp : stack'[i - 1] = stack[i - 1]
  BY <1>1 DEF CallNnn
<1>4. stack'[sp] = pc
  BY <1>1 DEF CallNnn
<1>5. \A i \in 1..sp + 1 : Frames'[i] = Append(Frames, pc)[i]
  <2> SUFFICES ASSUME NEW i \in 1..sp + 1
               PROVE  Frames'[i] = Append(Frames, pc)[i]
    OBVIOUS
  <2>1. CASE i \in 1..sp
    BY <2>1, <1>1, <1>2, <1>3, FramesSeq, FramesSeqNext
  <2>2. CASE i = sp + 1
    BY <2>2, <1>1, <1>2, <1>4, FramesSeqNext
  <2>3. i \in 1..sp \/ i = sp + 1
    <3>1. sp \in Nat
      BY <1>1
    <3> QED
      BY <3>1
  <2> QED
    BY <2>1, <2>2, <2>3
<1> QED
  BY <1>1, <1>2, <1>5, FramesSeqNext, SeqEqual

\* RET pops one frame and resumes after it.
LEMMA RetPops ==
  ASSUME CpuInv, CpuInv', Ret
  PROVE  /\ Frames # <<>>
         /\ Frames' = SubSeq(Frames, 1, Len(Frames) - 1)
         /\ pc' = (Frames[Len(Frames)] + 2) % WordSize
<1>1. /\ sp \in Nat \ {0} /\ sp' = sp - 1 /\ sp - 1 \in DOMAIN stack
      /\ stack' = stack
  BY CpuAssumption DEF Ret, CpuInv, CpuTypeOK, StackInBounds, Byte
<1>2. /\ SubSeq(Frames, 1, sp - 1) \in Seq(Word)
      /\ Len(SubSeq(Frames, 1, sp - 1)) = sp - 1
      /\ \A i \in 1..sp - 1 : SubSeq(Frames, 1, sp - 1)[i] = Frames[i]
  BY <1>1, FramesSeq
<1>3. \A i \in 1..sp - 1 : Frames'[i] = SubSeq(Frames, 1, sp - 1)[i]
  <2> SUFFICES ASSUME NEW i \in 1..sp - 1
               PROVE  Frames'[i] = SubSeq(Frames, 1, sp - 1)[i]
    OBVIOUS
  <2>1. i \in 1..sp /\ i \in 1..sp'
    BY <1>1
  <2>2. Frames'[i] = stack'[i - 1]
    BY <2>1, FramesSeqNext
  <2>3. Frames[i] = stack[i - 1]
    BY <2>1, FramesSeq
  <2> QED
    BY <1>1, <1>2, <2>2, <2>3
<1>4. Frames' = SubSeq(Frames, 1, sp - 1)
  BY <1>1, <1>2, <1>3, FramesSeqNext, SeqEqual
<1>5. Frames[sp] = stack[sp - 1]
  BY <1>1, FramesSeq
<1> QED
  BY <1>1, <1>4, <1>5, FramesSeq, FramesEmpty DEF Ret

\* The machine c8_simulate starts with has no frames.
LEMMA CallsInit == CpuInit => Calls!Init
<1> SUFFICES ASSUME CpuInit PROVE Calls!Init
  OBVIOUS
<1>1. ProgStart \in Calls!Address
  BY CpuAssumption DEF Calls!Address
<1>2. Frames = <<>>
  BY CpuInitInv, FramesEmpty DEF CpuInit
<1> QED
  BY <1>1, <1>2 DEF CpuInit, Calls!Init, Halt

\* Each instruction is a step of the abstract machine.
LEMMA InstructionCalls ==
  ASSUME CpuInv, CpuInv', Alive, Instruction
  PROVE  Calls!Next
<1> USE DEF Alive
<1>h. Halt = "no"
  BY DEF Halt
<1>a. pc \in Calls!Address /\ pc' \in Calls!Address
  BY DEF CpuInv, CpuTypeOK, Word, Calls!Address
<1>s. ASSUME NEW e \in {"syntax", "invalid_state", "undefined"}, Fault(e)
      PROVE  Calls!Next
  BY <1>s, <1>h, FramesUnchanged DEF Fault, Calls!Next, Calls!Stop, Halt
<1>m. ASSUME UNCHANGED <<calls, running, status>> PROVE Calls!Next
  BY <1>m, <1>h, <1>a, FramesUnchanged DEF Calls!Next, Calls!Move, Halt
<1>1. CASE InvalidWord \/ Refused \/ OutOfMemory
  BY <1>1, <1>s DEF InvalidWord, Refused, OutOfMemory
<1>2. CASE StraightLine \/ Skip \/ LdIWord \/ Drw
  BY <1>2, <1>m DEF StraightLine, Skip, LdIWord, Drw
<1>3. CASE Exit
  BY <1>3, <1>h, FramesUnchanged DEF Exit, Calls!Next, Calls!Stop, Halt
<1>4. ASSUME NEW nnn \in Targets, Jp(nnn) PROVE Calls!Next
  BY <1>4, <1>m DEF Jp
<1>5. ASSUME NEW nnn \in Targets, CallNnn(nnn) PROVE Calls!Next
  <2>1. Len(Frames) < StackSize - 1
    BY <1>5, FramesSeq DEF CallNnn
  <2>2. Halt' = "no"
    BY <1>5 DEF CallNnn, Halt
  <2> QED
    BY <1>5, <1>h, <1>a, <2>1, <2>2, CallPushes DEF Calls!Next, Calls!Call
<1>6. ASSUME NEW nnn \in Targets, NEW v \in RegValues, JpV0(nnn, v)
      PROVE  Calls!Next
  BY <1>6, <1>m DEF JpV0, Jp
<1>7. CASE CallOverflow
  <2>1. Len(Frames) = StackSize - 1
    BY <1>7, FramesSeq, CpuAssumption
       DEF CallOverflow, CpuInv, CpuTypeOK, StackInBounds, Byte
  <2> QED
    BY <1>7, <1>h, <2>1, FramesUnchanged
       DEF CallOverflow, Fault, Calls!Next, Calls!Overflow, Halt
<1>8. CASE Ret
  <2>1. Halt' = "no"
    BY <1>8 DEF Ret, Halt
  <2> QED
    BY <1>8, <1>h, <2>1, RetPops DEF Calls!Next, Calls!Return
<1>9. CASE RetUnderflow
  BY <1>9, <1>h, FramesUnchanged, FramesEmpty
     DEF RetUnderflow, Fault, Calls!Next, Calls!Underflow, Halt
<1>10. ASSUME NEW x \in Regs, LdVxK(x) PROVE Calls!Next
  BY <1>10, <1>m DEF LdVxK
<1>11. ASSUME NEW v \in RegValues, LdDtVx(v) \/ LdStVx(v) PROVE Calls!Next
  BY <1>11, <1>m DEF LdDtVx, LdStVx
<1> QED
  BY <1>1, <1>2, <1>3, <1>4, <1>5, <1>6, <1>7, <1>8, <1>9, <1>10, <1>11
     DEF Instruction

\* Frames, key releases, quitting and failures stop the abstract machine or
\* leave it as it is.
LEMMA EnvironmentCalls ==
  ASSUME CpuInv, Alive,
         Frame \/ RenderFails \/ KeyReleased \/ Quit \/ Rejected
  PROVE  [Calls!Next]_(Calls!vars)
<1> USE DEF Alive
<1>1. UNCHANGED <<pc, Frames>>
  BY FramesUnchanged DEF Frame, RenderFails, KeyReleased, Quit, Rejected,
     Countdown, Fault
<1>2. Halt = "no" /\ Halt' \in {"no", "stopped"}
  BY DEF Halt, Frame, RenderFails, KeyReleased, Quit, Rejected, Countdown, Fault
<1> QED
  BY <1>1, <1>2 DEF Calls!Next, Calls!Stop, Calls!vars

\* stack[] and sp, with the bounds checks of c8_i_call_nnn and c8_i_ret,
\* implement calls nested up to StackSize - 1 deep: every RET resumes after the
\* CALL it matches, and the two exceptions come exactly at full and at empty.
THEOREM CallsAreNested == CpuSpec => CallsSpec
<1>1. CpuInv /\ CpuInv' /\ [CpuNext]_cpuVars => [Calls!Next]_(Calls!vars)
  <2> SUFFICES ASSUME CpuInv, CpuInv', [CpuNext]_cpuVars
               PROVE  [Calls!Next]_(Calls!vars)
    OBVIOUS
  <2>1. CASE CpuNext
    BY <2>1, InstructionCalls, EnvironmentCalls DEF CpuNext
  <2>2. CASE UNCHANGED cpuVars
    BY <2>2 DEF cpuVars, calls, Calls!vars, Frames, Halt
  <2> QED
    BY <2>1, <2>2
<1> QED
  BY <1>1, CallsInit, CpuInitInv, CpuStepInv, PTL DEF CpuSpec, CallsSpec, Calls!Spec

--------------------------------------------------------------------------------
\* new_frame is set exactly from the clock to the rendering.  At the top of the
\* loop it is set only when the window has just been closed.
FrameInv ==
  /\ at = "frame" => newFrame
  /\ at \in {"start", "hotkeys", "prompt", "deliver", "execute"} => ~newFrame
  /\ at = "top" /\ running => ~newFrame

\* What each place of the loop knows of a machine nobody edited.
LoopInv ==
  /\ at = "start" => pc = ProgStart /\ sp = 0
  /\ at # "returned" => status = "ok"
  /\ at \notin {"top", "returned"} => running
  /\ at \notin {"start", "returned"} => tickSpeed > 0
  /\ at = "tick" /\ waitingForDraw => newFrame
  /\ at \in {"hotkeys", "prompt", "deliver", "execute"} => ~waitingForDraw
  /\ at \in {"frame", "hotkeys", "prompt", "deliver", "execute"} => heard

\* The inductive invariant.
SimInv ==
  /\ TypeOK
  /\ FrameInv
  /\ TimeIsConserved
  /\ edited \/ (LoopInv /\ CpuInv)

\* The parts of TypeOK that belong to the loop, the user and the history.
LoopTypes ==
  /\ at \in Places
  /\ acc \in Int /\ newFrame \in BOOLEAN
  /\ t \in Keys \cup {NoKey, ToldToQuit}
UserTypes ==
  /\ step \in BOOLEAN /\ debug \in BOOLEAN /\ closing \in BOOLEAN
  /\ breakpoints \subseteq Word
  /\ tickSpeed \in Int
HistoryTypes ==
  /\ owed \in Int
  /\ resumed \in BOOLEAN /\ heard \in BOOLEAN /\ edited \in BOOLEAN

\* The type invariant covers the fields of the machine.
LEMMA TypeParts ==
  /\ TypeOK <=> CpuTypeOK /\ LoopTypes /\ UserTypes /\ HistoryTypes
  /\ TypeOK' <=> CpuTypeOK' /\ LoopTypes' /\ UserTypes' /\ HistoryTypes'
  BY DEF TypeOK, LoopTypes, UserTypes, HistoryTypes

\* c8_simulate starts in the invariant.
LEMMA SimInitInv == Init => SimInv
<1> SUFFICES ASSUME Init PROVE SimInv
  OBVIOUS
<1>1. CpuInv
  BY CpuInitInv DEF Init
<1>2. TypeOK
  <2>1. tickSpeed \in Int
    BY SimulateAssumption DEF Init
  <2>2. breakpoints \subseteq Word
    BY DEF Init
  <2>3. at \in Places /\ acc \in Int /\ t \in Keys \cup {NoKey, ToldToQuit}
    BY DEF Init, Places
  <2>4. LoopTypes
    BY <2>3, Zenon DEF Init, LoopTypes
  <2>5. HistoryTypes
    <3>1. owed \in Int
      BY DEF Init
    <3> QED
      BY <3>1, Zenon DEF Init, HistoryTypes
  <2>6. UserTypes
    BY <2>1, <2>2, Zenon DEF Init, UserTypes
  <2> QED
    BY <1>1, <2>4, <2>5, <2>6, TypeParts DEF CpuInv
<1>3. FrameInv /\ TimeIsConserved /\ LoopInv
  BY DEF Init, CpuInit, FrameInv, TimeIsConserved, LoopInv
<1> QED
  BY <1>1, <1>2, <1>3 DEF SimInv

--------------------------------------------------------------------------------
(* Types *)

\* A step that leaves the machine alone keeps its types.
LEMMA CpuTypesUnchanged == CpuTypeOK /\ UNCHANGED cpuVars => CpuTypeOK'
  BY DEF CpuTypeOK, cpuVars, calls, timers, waits, config

\* Values given to set are cut to the width of a word or of a byte.
LEMMA CutTypes == \A n \in Int : n % WordSize \in Word /\ n % ByteSize \in Byte
<1> WordSize \in Nat \ {0} /\ ByteSize \in Nat \ {0}
  BY CpuAssumption
<1> QED
  BY DEF Word, Byte

\* set writes values of the fields' types.
LEMMA SetTypes ==
  ASSUME CpuTypeOK, NEW c \in SetCommands, SetValue(c)
  PROVE  CpuTypeOK'
<1>1. c.value \in Int
  BY SimulateAssumption
<1>2. /\ c.value % WordSize \in Word
      /\ c.value % ByteSize \in Byte
  BY <1>1, CutTypes
<1>3. pc' \in Word /\ sp' \in Byte /\ dt' \in Byte /\ st' \in Byte
  BY <1>2 DEF SetValue, CutTo, CpuTypeOK
<1>4. vblank' \in BOOLEAN
  BY Zenon DEF SetValue, CpuTypeOK
<1> QED
  BY <1>3, <1>4 DEF SetValue, CpuTypeOK, waits

\* A state file holds values of the fields' types, whatever they are.
LEMMA LoadTypes ==
  ASSUME TypeOK, NEW s \in SavedStates, NEW n \in 0..13, LoadState(s, n)
  PROVE  TypeOK'
<1>1. /\ s.pc \in Word /\ s.sp \in Byte /\ s.dt \in Byte /\ s.st \in Byte
      /\ s.stack \in [0..StackSize - 1 -> Word] /\ s.VK \in Nat
      /\ s.waitingForKey \in BOOLEAN /\ s.waitingForDraw \in BOOLEAN
      /\ s.running \in BOOLEAN /\ s.mode \in Nat /\ s.vblank \in BOOLEAN
      /\ s.debug \in BOOLEAN /\ s.tickSpeed \in Int /\ s.breakpoints \subseteq Word
  BY SimulateAssumption
<1>2. CpuTypeOK'
  BY <1>1 DEF LoadState, TypeOK, CpuTypeOK
<1>3. UserTypes'
  BY <1>1 DEF LoadState, TypeOK, UserTypes
<1>4. LoopTypes'
  BY DEF LoadState, TypeOK, LoopTypes, loopVars
<1>5. HistoryTypes'
  <2>1. heard' \in BOOLEAN
    BY Zenon DEF LoadState, TypeOK
  <2> QED
    BY <2>1 DEF LoadState, TypeOK, HistoryTypes
<1> QED
  BY <1>2, <1>3, <1>4, <1>5, TypeParts

\* The loop keeps the types.
LEMMA LoopStepTypes ==
  ASSUME TypeOK, Loop
  PROVE  TypeOK'
<1>t. CpuTypeOK /\ LoopTypes /\ UserTypes /\ HistoryTypes
  BY TypeParts
<1>1. CASE Validate
  <2>1. CpuTypeOK'
    BY <1>1, <1>t, CpuTypesUnchanged, EnvironmentTypes DEF Validate
  <2> QED
    BY <1>1, <1>t, <2>1, TypeParts
       DEF Validate, LoopTypes, UserTypes, HistoryTypes, userVars, history, Places
<1>2. CASE Stop
  BY <1>2, <1>t, CpuTypesUnchanged, TypeParts
     DEF Stop, LoopTypes, UserTypes, HistoryTypes, userVars, history, Places
<1>3. ASSUME NEW d \in Deltas, Clock(d) PROVE TypeOK'
  <2>1. d \in Int /\ Refresh \in Int
    BY SimulateAssumption
  <2>2. acc' \in Int /\ owed' \in Int /\ at' \in Places
    BY <1>3, <1>t, <2>1 DEF Clock, LoopTypes, HistoryTypes, Places
  <2>3. newFrame' \in BOOLEAN
    BY <1>3, Zenon DEF Clock
  <2>4. status' \in Outcomes
    BY <1>3, <1>t DEF Clock, CpuTypeOK, Outcomes
  <2>5. CpuTypeOK'
    BY <1>3, <1>t, <2>4 DEF Clock, CpuTypeOK, calls, timers, waits, config
  <2> QED
    BY <1>3, <1>t, <2>2, <2>3, <2>5, TypeParts
       DEF Clock, LoopTypes, UserTypes, HistoryTypes, userVars
<1>4. CASE Tick
  <2>1. CpuTypeOK'
    BY <1>4, <1>t, CpuTypesUnchanged, EnvironmentTypes DEF Tick
  <2>2. t' \in Keys \cup {NoKey, ToldToQuit} /\ at' \in Places
    BY <1>4 DEF Tick, Places
  <2>3. HistoryTypes'
    BY <1>4, <1>t, Zenon DEF Tick, HistoryTypes
  <2> QED
    BY <1>4, <1>t, <2>1, <2>2, <2>3, TypeParts
       DEF Tick, LoopTypes, UserTypes, userVars
<1>5. CASE Render
  <2>1. CpuTypeOK' /\ owed' \in Int /\ at' \in Places
    BY <1>5, <1>t, EnvironmentTypes, SimulateAssumption
       DEF Render, HistoryTypes, Places
  <2>2. newFrame' \in BOOLEAN
    BY <1>5, Zenon DEF Render
  <2> QED
    BY <1>5, <1>t, <2>1, <2>2, TypeParts
       DEF Render, LoopTypes, UserTypes, HistoryTypes, userVars
<1>6. CASE RenderError
  <2>1. CpuTypeOK'
    BY <1>6, <1>t, EnvironmentTypes DEF RenderError
  <2> QED
    BY <1>6, <1>t, <2>1, TypeParts
       DEF RenderError, LoopTypes, UserTypes, HistoryTypes, userVars, history, Places
<1>7. ASSUME NEW p \in BOOLEAN, NEW m \in BOOLEAN, HotKeys(p, m) PROVE TypeOK'
  <2>1. debug' \in BOOLEAN /\ step' \in BOOLEAN /\ resumed' \in BOOLEAN
    BY <1>7, <1>t, Zenon DEF HotKeys, UserTypes, HistoryTypes
  <2>2. at' \in Places
    BY <1>7 DEF HotKeys, Places
  <2>3. CpuTypeOK'
    BY <1>7, <1>t, CpuTypesUnchanged DEF HotKeys
  <2> QED
    BY <1>7, <1>t, <2>1, <2>2, <2>3, TypeParts
       DEF HotKeys, LoopTypes, UserTypes, HistoryTypes
<1>8. CASE Deliver
  <2>1. CpuTypeOK'
    BY <1>8, <1>t, CpuTypesUnchanged, EnvironmentTypes DEF Deliver
  <2>2. at' \in Places
    BY <1>8 DEF Deliver, Places
  <2> QED
    BY <1>8, <1>t, <2>1, <2>2, TypeParts
       DEF Deliver, LoopTypes, UserTypes, HistoryTypes, userVars, history
<1>9. CASE Execute
  <2>1. CpuTypeOK'
    BY <1>9, <1>t, CpuTypesUnchanged, InstructionTypes DEF Execute
  <2>2. at' \in Places
    BY <1>9 DEF Execute, Places
  <2>3. heard' \in BOOLEAN
    BY <1>9, Zenon DEF Execute
  <2> QED
    BY <1>9, <1>t, <2>1, <2>2, <2>3, TypeParts
       DEF Execute, LoopTypes, UserTypes, HistoryTypes, userVars
<1> QED
  BY <1>1, <1>2, <1>3, <1>4, <1>5, <1>6, <1>7, <1>8, <1>9 DEF Loop

\* The debugger's commands keep the types, also those that overwrite the machine.
LEMMA PromptStepTypes ==
  ASSUME TypeOK, Prompt
  PROVE  TypeOK'
<1>t. CpuTypeOK /\ LoopTypes /\ UserTypes /\ HistoryTypes
  BY TypeParts
<1>1. CASE NextCommand
  BY <1>1, <1>t, CpuTypesUnchanged, TypeParts
     DEF NextCommand, LoopTypes, UserTypes, HistoryTypes, Places
<1>2. CASE ContinueCommand
  BY <1>2, <1>t, CpuTypesUnchanged, TypeParts
     DEF ContinueCommand, LoopTypes, UserTypes, HistoryTypes, userVars, Places
<1>3. CASE QuitCommand
  BY <1>3, <1>t, EnvironmentTypes, TypeParts
     DEF QuitCommand, LoopTypes, UserTypes, HistoryTypes, userVars, history, Places
<1>4. ASSUME NEW a \in Breakpoints \cup {pc}, BreakCommand(a) PROVE TypeOK'
  <2>1. a \in Word
    BY <1>t, SimulateAssumption DEF CpuTypeOK
  <2>2. breakpoints' \subseteq Word
    BY <1>4, <1>t, <2>1 DEF BreakCommand, UserTypes
  <2>3. CpuTypeOK'
    BY <1>4, <1>t, CpuTypesUnchanged, FaultTypes DEF BreakCommand, Outcomes
  <2>4. at' \in Places /\ edited' \in BOOLEAN
    BY <1>4, <1>t DEF BreakCommand, Places, LoopTypes, HistoryTypes
  <2> QED
    BY <1>4, <1>t, <2>2, <2>3, <2>4, TypeParts
       DEF BreakCommand, LoopTypes, UserTypes, HistoryTypes
<1>5. ASSUME NEW c \in SetCommands, SetValue(c) PROVE TypeOK'
  <2>1. CpuTypeOK'
    BY <1>5, <1>t, SetTypes
  <2> QED
    BY <1>5, <1>t, <2>1, TypeParts
       DEF SetValue, LoopTypes, UserTypes, HistoryTypes, loopVars, userVars
<1>6. ASSUME NEW s \in SavedStates, NEW n \in 0..13, LoadState(s, n) PROVE TypeOK'
  BY <1>6, LoadTypes
<1> QED
  BY <1>1, <1>2, <1>3, <1>4, <1>5, <1>6 DEF Prompt

\* Every step keeps the types.
LEMMA StepTypes == TypeOK /\ [Next]_vars => TypeOK'
<1> SUFFICES ASSUME TypeOK, [Next]_vars PROVE TypeOK'
  OBVIOUS
<1>t. CpuTypeOK /\ LoopTypes /\ UserTypes /\ HistoryTypes
  BY TypeParts
<1>1. CASE CloseWindow
  BY <1>1, <1>t, CpuTypesUnchanged, TypeParts
     DEF CloseWindow, LoopTypes, UserTypes, HistoryTypes, loopVars, history
<1>2. CASE UNCHANGED vars
  BY <1>2, <1>t, CpuTypesUnchanged, TypeParts
     DEF vars, LoopTypes, UserTypes, HistoryTypes, loopVars, userVars, history
<1> QED
  BY <1>1, <1>2, LoopStepTypes, PromptStepTypes DEF Next

--------------------------------------------------------------------------------
(* Time *)

\* No step loses or invents time: only Clock and Render move acc, new_frame and
\* owed, and they find new_frame as FrameInv says.
LEMMA StepTime ==
  ASSUME TypeOK, FrameInv, TimeIsConserved, [Next]_vars
  PROVE  FrameInv' /\ TimeIsConserved'
<1> USE DEF FrameInv, TimeIsConserved
<1>i. acc \in Int /\ owed \in Int /\ Refresh \in Int /\ Deltas \subseteq Int
  BY SimulateAssumption DEF TypeOK
<1>1. CASE Validate
  BY <1>1 DEF Validate, history
<1>2. CASE Stop
  BY <1>2 DEF Stop, history
<1>3. ASSUME NEW d \in Deltas, Clock(d) PROVE FrameInv' /\ TimeIsConserved'
  <2>1. ~newFrame /\ owed = acc /\ d \in Int
    BY <1>3, <1>i DEF Clock
  <2>2. owed' = owed + d
    BY <1>3 DEF Clock
  <2>3. CASE acc + d >= Refresh
    <3>1. acc' = acc + d - Refresh /\ newFrame'
      BY <1>3, <2>3 DEF Clock
    <3>2. at' \in {"tick", "returned"}
      BY <1>3, <2>3 DEF Clock
    <3> QED
      BY <1>i, <2>1, <2>2, <3>1, <3>2
  <2>4. CASE ~(acc + d >= Refresh)
    <3>1. acc' = acc + d /\ ~newFrame'
      BY <1>3, <2>1, <2>4 DEF Clock
    <3>2. at' # "frame"
      BY <1>3 DEF Clock
    <3> QED
      BY <1>i, <2>1, <2>2, <3>1, <3>2
  <2> QED
    BY <2>3, <2>4
<1>4. CASE Tick
  BY <1>4 DEF Tick, Quit
<1>5. CASE Render
  BY <1>5, <1>i DEF Render
<1>6. CASE RenderError
  BY <1>6 DEF RenderError, history
<1>7. ASSUME NEW p \in BOOLEAN, NEW m \in BOOLEAN, HotKeys(p, m)
      PROVE  FrameInv' /\ TimeIsConserved'
  BY <1>7 DEF HotKeys
<1>8. CASE Deliver
  BY <1>8 DEF Deliver, history
<1>9. CASE Execute
  BY <1>9 DEF Execute
<1>10. CASE NextCommand \/ ContinueCommand \/ QuitCommand
  BY <1>10 DEF NextCommand, ContinueCommand, QuitCommand, history
<1>11. ASSUME NEW a \in Breakpoints \cup {pc}, BreakCommand(a)
       PROVE  FrameInv' /\ TimeIsConserved'
  BY <1>11 DEF BreakCommand
<1>12. ASSUME NEW c \in SetCommands, SetValue(c)
       PROVE  FrameInv' /\ TimeIsConserved'
  BY <1>12 DEF SetValue, loopVars
<1>13. ASSUME NEW s \in SavedStates, NEW n \in 0..13, LoadState(s, n)
       PROVE  FrameInv' /\ TimeIsConserved'
  BY <1>13 DEF LoadState, loopVars
<1>14. CASE CloseWindow
  BY <1>14 DEF CloseWindow, cpuVars, loopVars, history
<1>15. CASE UNCHANGED vars
  BY <1>15 DEF vars, cpuVars, loopVars, history
<1> QED
  BY <1>1, <1>2, <1>3, <1>4, <1>5, <1>6, <1>7, <1>8, <1>9, <1>10, <1>11,
     <1>12, <1>13, <1>14, <1>15 DEF Next, Loop, Prompt

--------------------------------------------------------------------------------
(* The machine nobody edited *)

\* A machine once edited stays so.
LEMMA EditedStays == [Next]_vars /\ ~edited' => ~edited
<1> SUFFICES ASSUME [Next]_vars, ~edited' PROVE ~edited
  OBVIOUS
<1> QED
  BY DEF Next, Loop, Prompt, vars, history, Validate, Stop, Clock, Tick, Render,
     RenderError, HotKeys, Deliver, Execute, NextCommand, ContinueCommand,
     QuitCommand, BreakCommand, SetValue, LoadState, CloseWindow

\* c8_simulate moves the machine as Cpu says.
LEMMA StepDrives ==
  ASSUME TypeOK, LoopInv, Next, ~edited'
  PROVE  [CpuNext]_cpuVars
<1> USE DEF LoopInv
<1>1. CASE Validate
  BY <1>1 DEF Validate, Rejected, CpuNext, Alive
<1>2. CASE Stop \/ CloseWindow \/ NextCommand \/ ContinueCommand
  BY <1>2 DEF Stop, CloseWindow, NextCommand, ContinueCommand
<1>3. ASSUME NEW d \in Deltas, Clock(d) PROVE [CpuNext]_cpuVars
  <2>1. tickSpeed # 0
    BY <1>3 DEF Clock, TypeOK
  <2>2. UNCHANGED status
    BY <1>3, <2>1 DEF Clock
  <2> QED
    BY <1>3, <2>2 DEF Clock, cpuVars
<1>4. CASE Tick
  BY <1>4 DEF Tick, CpuNext, Alive
<1>5. CASE Render \/ RenderError
  BY <1>5 DEF Render, RenderError, CpuNext, Alive
<1>6. ASSUME NEW p \in BOOLEAN, NEW m \in BOOLEAN, HotKeys(p, m)
      PROVE  [CpuNext]_cpuVars
  BY <1>6 DEF HotKeys
<1>7. CASE Deliver
  BY <1>7 DEF Deliver, CpuNext, Alive
<1>8. CASE Execute
  BY <1>8 DEF Execute, CpuNext, Alive
<1>9. CASE QuitCommand
  BY <1>9 DEF QuitCommand, CpuNext, Alive
<1>10. ASSUME NEW a \in Breakpoints \cup {pc}, BreakCommand(a)
       PROVE  [CpuNext]_cpuVars
  BY <1>10 DEF BreakCommand
<1>11. ASSUME NEW c \in SetCommands, SetValue(c) PROVE [CpuNext]_cpuVars
  BY <1>11 DEF SetValue
<1>12. ASSUME NEW s \in SavedStates, NEW n \in 0..13, LoadState(s, n)
       PROVE  [CpuNext]_cpuVars
  BY <1>12 DEF LoadState
<1> QED
  BY <1>1, <1>2, <1>3, <1>4, <1>5, <1>6, <1>7, <1>8, <1>9, <1>10, <1>11, <1>12
     DEF Next, Loop, Prompt

\* Each step leaves the next place of the loop with what that place knows.
LEMMA StepLoopInv ==
  ASSUME TypeOK, FrameInv, LoopInv, Next, ~edited'
  PROVE  LoopInv'
<1> USE DEF LoopInv
<1>1. CASE Validate
  BY <1>1 DEF Validate, Valid, Rejected, Fault, userVars, history, cpuVars, waits
<1>2. CASE Stop
  BY <1>2 DEF Stop
<1>3. ASSUME NEW d \in Deltas, Clock(d) PROVE LoopInv'
  <2>1. tickSpeed > 0 /\ tickSpeed # 0 /\ status = "ok"
    BY <1>3 DEF Clock, TypeOK
  <2>2. status' = "ok" /\ at' \in {"top", "tick"}
    BY <1>3, <2>1 DEF Clock
  <2>3. at' = "tick" /\ waitingForDraw' => newFrame'
    BY <1>3, <2>1 DEF Clock, waits
  <2> QED
    BY <1>3, <2>1, <2>2, <2>3 DEF Clock, userVars, waits
<1>4. CASE Tick
  BY <1>4 DEF Tick, Quit, userVars, cpuVars, waits
<1>5. CASE Render
  BY <1>5 DEF Render, Frame, Countdown, userVars
<1>6. CASE RenderError
  BY <1>6 DEF RenderError
<1>7. ASSUME NEW p \in BOOLEAN, NEW m \in BOOLEAN, HotKeys(p, m) PROVE LoopInv'
  BY <1>7 DEF HotKeys, cpuVars, waits
<1>8. CASE Deliver
  <2>1. UNCHANGED <<running, waitingForDraw>>
    BY <1>8 DEF Deliver, KeyReleased, cpuVars, waits
  <2>2. (at' = "execute" /\ status' = "ok") \/ at' = "returned"
    BY <1>8 DEF Deliver
  <2> QED
    BY <1>8, <2>1, <2>2 DEF Deliver, userVars, history
<1>9. CASE Execute
  <2>1. (at' = "top" /\ status' = "ok") \/ at' = "returned"
    BY <1>9 DEF Execute
  <2> QED
    BY <1>9, <2>1 DEF Execute, userVars
<1>10. CASE NextCommand \/ ContinueCommand
  BY <1>10 DEF NextCommand, ContinueCommand, userVars, cpuVars, waits
<1>11. CASE QuitCommand
  BY <1>11 DEF QuitCommand, Quit, userVars
<1>12. ASSUME NEW a \in Breakpoints \cup {pc}, BreakCommand(a) PROVE LoopInv'
  BY <1>12 DEF BreakCommand, cpuVars, waits
<1>13. ASSUME NEW c \in SetCommands, SetValue(c) PROVE LoopInv'
  BY <1>13 DEF SetValue
<1>14. ASSUME NEW s \in SavedStates, NEW n \in 0..13, LoadState(s, n) PROVE LoopInv'
  BY <1>14 DEF LoadState
<1>15. CASE CloseWindow
  BY <1>15 DEF CloseWindow, loopVars, history, cpuVars, calls, waits
<1> QED
  BY <1>1, <1>2, <1>3, <1>4, <1>5, <1>6, <1>7, <1>8, <1>9, <1>10, <1>11, <1>12,
     <1>13, <1>14, <1>15 DEF Next, Loop, Prompt

\* A stuttering step keeps all of it.
LEMMA StutterLoopInv ==
  ASSUME LoopInv, UNCHANGED vars
  PROVE  LoopInv'
  BY DEF LoopInv, vars, cpuVars, calls, waits, loopVars, userVars, history

\* Every step preserves the invariant.
LEMMA SimStepInv == SimInv /\ [Next]_vars => SimInv'
<1> SUFFICES ASSUME SimInv, [Next]_vars PROVE SimInv'
  OBVIOUS
<1>1. TypeOK' /\ FrameInv' /\ TimeIsConserved'
  BY StepTypes, StepTime DEF SimInv
<1>2. ASSUME ~edited' PROVE LoopInv' /\ CpuInv'
  <2>1. LoopInv /\ CpuInv
    BY <1>2, EditedStays DEF SimInv
  <2>2. LoopInv'
    BY <1>2, <2>1, StepLoopInv, StutterLoopInv DEF SimInv
  <2>3. [CpuNext]_cpuVars
    BY <1>2, <2>1, StepDrives DEF SimInv, vars
  <2> QED
    BY <2>1, <2>2, <2>3, CpuStepInv
<1> QED
  BY <1>1, <1>2 DEF SimInv

--------------------------------------------------------------------------------
\* Every variable keeps its type, whatever the debugger loads or sets.
THEOREM SimulateTypeCorrect == Spec => []TypeOK
<1>1. SimInv => TypeOK
  BY DEF SimInv
<1> QED
  BY <1>1, SimInitInv, SimStepInv, PTL DEF Spec

\* c8_simulate turns time into frames without losing or inventing any, also
\* when the clock is set back and while the debugger overwrites the machine.
THEOREM TimeConserved == Spec => []TimeIsConserved
<1>1. SimInv => TimeIsConserved
  BY DEF SimInv
<1> QED
  BY <1>1, SimInitInv, SimStepInv, PTL DEF Spec

\* The prompt comes between two instructions, with no frame owed.
THEOREM PromptBetweenFrames == Spec => []PromptIsBetweenFrames
<1>1. SimInv => PromptIsBetweenFrames
  BY DEF SimInv, FrameInv, LoopInv, PromptIsBetweenFrames
<1> QED
  BY <1>1, SimInitInv, SimStepInv, PTL DEF Spec

\* usleep's division is by a positive tickSpeed.
THEOREM SpeedValid == Spec => []SpeedStaysValid
<1>1. SimInv => SpeedStaysValid
  BY DEF SimInv, LoopInv, SpeedStaysValid
<1> QED
  BY <1>1, SimInitInv, SimStepInv, PTL DEF Spec

\* A program waiting for a key gets one released after it began to wait.
THEOREM KeysAreFresh == Spec => KeyIsFresh
<1>1. SimInv /\ [Next]_vars
        => [waitingForKey /\ ~waitingForKey' /\ ~edited' => heard]_vars
  <2> SUFFICES ASSUME SimInv, Next, waitingForKey, ~waitingForKey', ~edited'
               PROVE  heard
    OBVIOUS
  <2>1. LoopInv
    BY EditedStays DEF SimInv
  <2>2. at = "deliver"
    BY DEF Next, Loop, Prompt, Validate, Stop, Clock, Tick, Render, RenderError,
       Frame, RenderFails, Countdown, Rejected, Fault, Quit, HotKeys, Execute,
       Deliver, NextCommand, ContinueCommand, QuitCommand, BreakCommand,
       SetValue, LoadState, CloseWindow, cpuVars, waits
  <2> QED
    BY <2>1, <2>2 DEF LoopInv
<1> QED
  BY <1>1, SimInitInv, SimStepInv, PTL DEF Spec, KeyIsFresh

\* Until the debugger overwrites the machine, c8_simulate implements Cpu.
THEOREM LoopDrivesCpu == Spec => DrivesCpu
<1>1. Init => CpuInit
  BY DEF Init
<1>2. SimInv /\ [Next]_vars => [CpuNext \/ edited']_cpuVars
  <2> SUFFICES ASSUME SimInv, [Next]_vars, ~edited' PROVE [CpuNext]_cpuVars
    OBVIOUS
  <2>1. LoopInv
    BY EditedStays DEF SimInv
  <2> QED
    BY <2>1, StepDrives DEF SimInv, vars
<1> QED
  BY <1>1, <1>2, SimInitInv, SimStepInv, PTL DEF Spec, DrivesCpu
================================================================================
