-------------------------------- MODULE Simulate -------------------------------
(***************************************************************************)
(* The main loop, c8_simulate (src/c8/chip8.c), with the debugger prompt it *)
(* calls (c8_debug_repl, src/c8/private/debug.c).  One iteration reads the  *)
(* clock, perhaps waits for a frame, polls the keyboard, perhaps counts the *)
(* timers down and renders, perhaps stops at the prompt, delivers a key and *)
(* executes one instruction of Cpu.  Time, the user and the files the       *)
(* debugger loads are the environment.                                      *)
(*                                                                          *)
(* Time is counted in units of which Refresh make one frame; floating-point *)
(* rounding is left out.                                                    *)
(***************************************************************************)
EXTENDS Cpu, Integers

CONSTANTS
  Refresh,      \* clock units in 1/60 second
  Deltas,       \* how far the clock may move in one iteration; CLOCK_REALTIME
                \* may be set back, so a delta may be negative
  MaxLag,       \* bound: the time not yet rendered stays in -MaxLag .. MaxLag
  Keys,         \* the keys c8_tick may report
  Speeds,       \* the values of tickSpeed the command line may give
  Breakpoints,  \* bound: the addresses where the user sets breakpoints
  SavedStates,  \* the machines a state file may hold, see LoadState
  SetCommands   \* the values the user gives to set, see SetValue

ASSUME SimulateAssumption ==
  /\ Refresh \in Nat \ {0}
  /\ MaxLag \in Nat
  /\ Deltas \subseteq Int
  /\ Keys \subseteq Nat
  /\ Speeds \subseteq Int
  /\ Breakpoints \subseteq Word
  /\ SavedStates \subseteq
       [pc : Word, sp : Byte, stack : [0..StackSize - 1 -> Word], dt : Byte,
        st : Byte, VK : Nat, waitingForKey : BOOLEAN, waitingForDraw : BOOLEAN,
        running : BOOLEAN, mode : Nat, vblank : BOOLEAN, debug : BOOLEAN,
        tickSpeed : Int, breakpoints : SUBSET Word]
  /\ SetCommands \subseteq [field : {"PC", "SP", "DT", "ST", "quirks"}, value : Int]

VARIABLES
  at,           \* where in the loop the interpreter is, see Places
  acc,          \* acc: time passed and not yet turned into frames
  newFrame,     \* new_frame
  t,            \* t, the answer of the last c8_tick
  step,         \* step
  debug,        \* C8_FLAG_DEBUG
  breakpoints,  \* the addresses where breakpoints[] is set
  tickSpeed,    \* instructions per second
  closing       \* environment: the user has closed the window

\* History, read by the properties only.
VARIABLES
  owed,         \* time passed less the time of the frames rendered
  resumed,      \* the last prompt ended with continue, P not pressed since
  heard,        \* c8_tick has been called since the program began to wait
  edited        \* the debugger has overwritten the machine

loopVars == <<at, acc, newFrame, t>>
userVars == <<step, debug, breakpoints, tickSpeed, closing>>
history  == <<owed, resumed, heard, edited>>
vars     == <<cpuVars, loopVars, userVars, history>>

Places == {"start", "top", "tick", "frame", "hotkeys", "prompt", "deliver",
           "execute", "returned"}

NoKey == -1
ToldToQuit == -2

Init ==
  /\ CpuInit
  /\ at = "start"
  /\ acc = 0 /\ newFrame = FALSE /\ t = NoKey
  /\ step = TRUE
  /\ debug \in BOOLEAN
  /\ breakpoints = {}
  /\ tickSpeed \in Speeds
  /\ closing = FALSE
  /\ owed = 0 /\ resumed = FALSE /\ heard = FALSE /\ edited = FALSE

--------------------------------------------------------------------------------
\* c8_validate, of what it checks the fields that can be wrong at the start.
Valid == tickSpeed > 0

Validate ==
  /\ at = "start"
  /\ IF Valid THEN at' = "top" /\ UNCHANGED cpuVars
              ELSE at' = "returned" /\ Rejected
  /\ UNCHANGED <<acc, newFrame, t, userVars, history>>

\* while (c8->running)
Stop == /\ at = "top" /\ ~running
        /\ at' = "returned"
        /\ UNCHANGED <<cpuVars, acc, newFrame, t, userVars, history>>

\* The clock moved by d.  At most one frame is taken out of acc per iteration.
\* A program held by DRW goes round again without polling the keyboard.
\* usleep(1000000 / tickSpeed) divides by whatever tickSpeed is.
Clock(d) ==
  LET due  == acc + d >= Refresh
      spin == waitingForDraw /\ ~(newFrame \/ due)
  IN  /\ at = "top" /\ running
      /\ owed + d \in -MaxLag..MaxLag
      /\ owed' = owed + d
      /\ acc' = IF due THEN acc + d - Refresh ELSE acc + d
      /\ newFrame' = (newFrame \/ due)
      /\ CASE spin -> at' = "top" /\ UNCHANGED status
           [] ~spin /\ tickSpeed = 0 -> at' = "returned" /\ status' = "undefined"
           [] OTHER -> at' = "tick" /\ UNCHANGED status
      /\ UNCHANGED <<pc, calls, timers, waits, running, config, t, userVars,
                     resumed, heard, edited>>

\* c8_tick: -2 if the window was closed, else a released key or -1.
Tick ==
  /\ at = "tick"
  /\ IF closing
     THEN /\ t' = ToldToQuit
          /\ at' = "top"
          /\ Quit
     ELSE /\ t' \in Keys \cup {NoKey}
          /\ at' = IF newFrame THEN "frame" ELSE "hotkeys"
          /\ UNCHANGED cpuVars
  /\ heard' = TRUE
  /\ UNCHANGED <<acc, newFrame, userVars, owed, resumed, edited>>

\* Mutant of Render: new_frame stays set.
RenderAgain ==
  /\ at = "frame"
  /\ Frame
  /\ at' = "hotkeys"
  /\ owed' = owed - Refresh
  /\ UNCHANGED <<acc, newFrame, t, userVars, resumed, heard, edited>>

\* if (new_frame): count the timers down and render.
Render ==
  /\ at = "frame"
  /\ Frame
  /\ at' = "hotkeys"
  /\ newFrame' = FALSE
  /\ owed' = owed - Refresh
  /\ UNCHANGED <<acc, t, userVars, resumed, heard, edited>>

RenderError ==
  /\ at = "frame"
  /\ RenderFails
  /\ at' = "returned"
  /\ UNCHANGED <<acc, newFrame, t, userVars, history>>

\* key[16] and key[17], P and M, are looked at every iteration, in this order.
\* step is set to 1 here and by the prompt, and never to 0.  breakpoints[pc]
\* outside the array is whatever lies there.
HotKeys(p, m) ==
  /\ at = "hotkeys"
  /\ debug' = ((debug \/ p) /\ ~m)
  /\ step' = (step \/ p)
  /\ resumed' = (resumed /\ ~p)
  /\ \E hit \in IF pc < MemSize THEN {pc \in breakpoints} ELSE BOOLEAN :
       at' = IF debug' /\ (hit \/ step') THEN "prompt" ELSE "deliver"
  /\ UNCHANGED <<cpuVars, acc, newFrame, t, breakpoints, tickSpeed, closing,
                 owed, heard, edited>>

--------------------------------------------------------------------------------
\* The debugger's commands.  help, print, save and saveflags change nothing and
\* loadflags changes R only, which is abstract: they are left out.

\* next, and end of the prompt.
NextCommand ==
  /\ at = "prompt"
  /\ step' = TRUE
  /\ resumed' = FALSE
  /\ at' = "deliver"
  /\ UNCHANGED <<cpuVars, acc, newFrame, t, debug, breakpoints, tickSpeed,
                 closing, owed, heard, edited>>

ContinueCommand ==
  /\ at = "prompt"
  /\ resumed' = TRUE
  /\ at' = "deliver"
  /\ UNCHANGED <<cpuVars, acc, newFrame, t, userVars, owed, heard, edited>>

\* quit, or the end of standard input.
QuitCommand ==
  /\ at = "prompt"
  /\ Quit
  /\ at' = "top"
  /\ UNCHANGED <<acc, newFrame, t, userVars, history>>

\* break and rmbreak, at an address or at pc; outside the array they overwrite
\* what lies behind it.
BreakCommand(a) ==
  /\ at = "prompt"
  /\ IF a < MemSize
     THEN /\ \/ breakpoints' = breakpoints \cup {a}
             \/ breakpoints' = breakpoints \ {a}
          /\ UNCHANGED <<at, cpuVars, edited>>
     ELSE /\ at' = "returned"
          /\ Fault("undefined")
          /\ edited' = TRUE
          /\ UNCHANGED breakpoints
  /\ UNCHANGED <<acc, newFrame, t, step, debug, tickSpeed, closing, owed,
                 resumed, heard>>

\* An int assigned to an unsigned field.
CutTo(value, size) == value % size

\* c8_set_value, on the fields modelled here: the value is cut to the field's
\* width and not otherwise looked at.  set quirks flips the flags it is given.
\* "set VK" is parsed as a V register and never reaches VK.
SetValue(c) ==
  /\ at = "prompt"
  /\ pc' = IF c.field = "PC" THEN CutTo(c.value, WordSize) ELSE pc
  /\ sp' = IF c.field = "SP" THEN CutTo(c.value, ByteSize) ELSE sp
  /\ dt' = IF c.field = "DT" THEN CutTo(c.value, ByteSize) ELSE dt
  /\ st' = IF c.field = "ST" THEN CutTo(c.value, ByteSize) ELSE st
  /\ vblank' = (vblank # (c.field = "quirks"))
  /\ edited' = TRUE
  /\ UNCHANGED <<stack, sound, waits, running, mode, status, loopVars, userVars,
                 owed, resumed, heard>>

\* The order of the fields of struct C8 in a state file; flags holds both
\* vblank and debug.
Position ==
  [sp |-> 1, dt |-> 2, st |-> 3, stack |-> 4, pc |-> 5, VK |-> 6,
   tickSpeed |-> 7, waitingForKey |-> 8, waitingForDraw |-> 9, running |-> 10,
   vblank |-> 11, debug |-> 11, breakpoints |-> 12, mode |-> 13]

\* c8_load_state: fread overwrites the machine with the n fields the file has.
\* A short file and a state c8_validate rejects are reported as "Failed to load
\* state", and the bytes read stay in place either way.
LoadState(s, n) ==
  LET Read(field, old) == IF Position[field] <= n THEN s[field] ELSE old
  IN  /\ at = "prompt"
      /\ sp' = Read("sp", sp) /\ dt' = Read("dt", dt) /\ st' = Read("st", st)
      /\ stack' = Read("stack", stack) /\ pc' = Read("pc", pc)
      /\ VK' = Read("VK", VK) /\ tickSpeed' = Read("tickSpeed", tickSpeed)
      /\ waitingForKey' = Read("waitingForKey", waitingForKey)
      /\ waitingForDraw' = Read("waitingForDraw", waitingForDraw)
      /\ running' = Read("running", running)
      /\ vblank' = Read("vblank", vblank) /\ debug' = Read("debug", debug)
      /\ breakpoints' = Read("breakpoints", breakpoints)
      /\ mode' = Read("mode", mode)
      /\ edited' = TRUE
      /\ heard' = (heard /\ (waitingForKey' => waitingForKey))
      /\ UNCHANGED <<sound, status, loopVars, step, closing, owed, resumed>>

Prompt ==
  \/ NextCommand \/ ContinueCommand \/ QuitCommand
  \/ \E a \in Breakpoints \cup {pc} : BreakCommand(a)
  \/ \E c \in SetCommands : SetValue(c)
  \/ \E s \in SavedStates, n \in 0..13 : LoadState(s, n)

--------------------------------------------------------------------------------
\* A program held by LD Vx, K goes on when this iteration's c8_tick reported a
\* released key.
Deliver ==
  /\ at = "deliver"
  /\ IF waitingForKey /\ t >= 0 THEN KeyReleased ELSE UNCHANGED cpuVars
  /\ at' = IF status' = "ok" THEN "execute" ELSE "returned"
  /\ UNCHANGED <<acc, newFrame, t, userVars, history>>

\* Mutants of Execute: the key just polled answers the LD Vx, K that comes after
\* it, or the program is not held at all.
ExecuteThenDeliver ==
  /\ at = "execute"
  /\ IF waitingForKey THEN UNCHANGED cpuVars ELSE Instruction
  /\ at' = IF status' # "ok" THEN "returned"
           ELSE IF waitingForKey' /\ ~waitingForKey THEN "deliver" ELSE "top"
  /\ heard' = (heard /\ (waitingForKey' => waitingForKey))
  /\ UNCHANGED <<acc, newFrame, t, userVars, owed, resumed, edited>>
ExecuteWhileHeld ==
  /\ at = "execute"
  /\ Instruction
  /\ at' = IF status' = "ok" THEN "top" ELSE "returned"
  /\ heard' = (heard /\ (waitingForKey' => waitingForKey))
  /\ UNCHANGED <<acc, newFrame, t, userVars, owed, resumed, edited>>

\* One instruction, unless the program is still held; an exception ends the run.
Execute ==
  /\ at = "execute"
  /\ IF waitingForKey THEN UNCHANGED cpuVars ELSE Instruction
  /\ at' = IF status' = "ok" THEN "top" ELSE "returned"
  /\ heard' = (heard /\ (waitingForKey' => waitingForKey))
  /\ UNCHANGED <<acc, newFrame, t, userVars, owed, resumed, edited>>

CloseWindow ==
  /\ at # "returned" /\ ~closing
  /\ closing' = TRUE
  /\ UNCHANGED <<cpuVars, loopVars, step, debug, breakpoints, tickSpeed, history>>

Loop == \/ Validate \/ Stop \/ \E d \in Deltas : Clock(d)
        \/ Tick \/ Render \/ RenderError
        \/ \E p, m \in BOOLEAN : HotKeys(p, m)
        \/ Deliver \/ Execute

Next == Loop \/ Prompt \/ CloseWindow

Spec == Init /\ [][Next]_vars

\* The clock goes forward.
Forward == \E d \in Deltas : d > 0 /\ Clock(d)

\* The interpreter keeps running, except at the prompt, where it waits for the
\* user; and time passes.
FairSpec == Spec /\ WF_vars(Loop) /\ SF_vars(Forward)

--------------------------------------------------------------------------------
TypeOK ==
  /\ CpuTypeOK
  /\ at \in Places
  /\ acc \in Int /\ newFrame \in BOOLEAN
  /\ t \in Keys \cup {NoKey, ToldToQuit}
  /\ step \in BOOLEAN /\ debug \in BOOLEAN /\ closing \in BOOLEAN
  /\ breakpoints \subseteq Word
  /\ tickSpeed \in Int
  /\ owed \in Int
  /\ resumed \in BOOLEAN /\ heard \in BOOLEAN /\ edited \in BOOLEAN

\* No time is lost and none counted twice, whatever jumps the clock makes and
\* however long the prompt or a slow iteration holds the loop up: what has
\* passed and is not yet rendered is in acc or is the frame about to be drawn.
TimeIsConserved == owed = acc + (IF newFrame THEN Refresh ELSE 0)

\* The debugger shows, and save writes, a machine between two instructions that
\* is not held by DRW and owes no frame, so that a saved state can be resumed.
PromptIsBetweenFrames == at = "prompt" /\ ~edited => ~waitingForDraw /\ ~newFrame

\* usleep(1000000 / tickSpeed) never divides by zero, as long as the debugger
\* leaves the machine alone.
SpeedStaysValid == at = "top" /\ ~edited => tickSpeed > 0

\* The key a program waits for is one released after it began to wait, never
\* one left over in t from an earlier c8_tick.
KeyIsFresh == [][waitingForKey /\ ~waitingForKey' /\ ~edited' => heard]_vars

\* Until the debugger overwrites the machine, the loop drives it as Cpu says:
\* instructions only while neither flag holds the program, frames and keys in
\* between, and nothing once it has stopped.
DrivesCpu == CpuInit /\ [][CpuNext \/ edited']_cpuVars

\* A program held by DRW is released by a frame (or the run ends).
DrawHoldEnds == waitingForDraw ~> (~waitingForDraw \/ at = "returned")

\* Closing the window ends the run, unless the prompt is waiting for the user:
\* also while the program is held by DRW or by LD Vx, K.
CloseEndsRun == closing ~> at \in {"returned", "prompt"}

\* The delay timer runs out even while LD Vx, K holds the program.
TimerRunsWhileHeld ==
  waitingForKey /\ dt > 0
    ~> dt = 0 \/ ~waitingForKey \/ at \in {"returned", "prompt"}

--------------------------------------------------------------------------------
\* "continue: Exit debug mode until next breakpoint or completion": after it,
\* the prompt comes back only at a breakpoint, or when P is pressed.
ContinueRunsToBreakpoint ==
  [][at = "hotkeys" /\ at' = "prompt" /\ resumed' /\ pc < MemSize => pc \in breakpoints]_vars

\* "Clock speed cannot be less than or equal to zero": the loop never runs a
\* machine that c8_validate has just rejected for it.
RunsAtValidSpeed == at = "tick" => tickSpeed > 0
================================================================================
