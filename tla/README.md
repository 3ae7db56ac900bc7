# A verification model of libc8

libc8 is a CHIP-8 / SCHIP / XO-CHIP interpreter, assembler and disassembler in
C. This directory holds TLA+ modules of its core, the TLC runs that check them
on small instances, and TLAPS proofs of the most important results for every
value of the constants. `PROJECT.json` lists the runs, the properties, which
source lines each definition stands for (`map`), the hazards the properties are
for, and the theorems.

To repeat a check: `tlc -config Loop.cfg MCSimulate.tla`; to repeat a proof:
`tlapm AluProofs.tla`.

## 1. The system

Paths are below `src/c8/`; the tools are in `tools/`.

| component | state | operations | hard behaviour |
|---|---|---|---|
| dispatch (`private/instruction.c`) | none | `c8_parse_instruction` and four group functions select one of 48 functions by nibbles | two tables (dispatch, `c8_formats`) that must agree; the mode checks |
| interpreter (`private/instruction.c`, `chip8.h`) | `pc sp stack V I R mem dt st VK`, `waitingForKey`, `waitingForDraw`, `running`, `mode`, quirk flags | one `c8_i_*` function per instruction; each returns how far to move `pc` or an exception | widths and wraps, VF as operand and as flag, array bounds, order of calls and returns |
| main loop (`chip8.c`) | `acc`, `new_frame`, `t`, `step` | `c8_simulate`, `c8_validate` | order of clock, keyboard, frame, prompt, key and instruction; clock jumps; progress |
| debugger (`private/debug.c`) | `breakpoints`, `C8_FLAG_DEBUG`; writes every field of `C8` | `c8_debug_repl` and twelve commands | overwrites a running machine; failed loads; what a malformed line is taken for |
| keyboard (`private/graphics_sdl2.c`) | `key[18]`, SDL's event queue | `c8_tick` | several events in one call, unmapped keys, SDL_QUIT in the middle of the queue |
| ncurses backend (`private/graphics_ncurses.c`) | `key[18]`, the terminal's input, the X display and its repeat rate | `c8_tick`, opening and closing | releases are guessed from keys that are not typed again; a desktop setting to be given back |
| display (`instruction.c`, `graphics.c`) | `display.p`, `display.mode` | DRW, scrolls, CLS, LOW, HIGH, rendering | clipping and wrapping, two resolutions in one array, moves in place |
| construction (`chip8.c`, `font.c`) | `flags`, `colors`, `fonts`, `mem` | `c8_init`, `c8_load_rom`, palettes, quirks, fonts, the SIGINT handler | a bad option string is applied half-way; a signal at any point |
| assembler (`encode.c`, `private/symbol.c`) | symbol and label lists | parse, resolve, substitute, write | label addresses, errors counted as words, size bound |
| disassembler (`decode.c`) | label map | `c8_decode`, `c8_decode_instruction` | label numbers wrap at 256, labels into words and behind the end |
| tools (`tools/*.c`) | options | command lines | order of options, failures after others have succeeded |

How they interact: `c8_simulate` is one thread. It calls the keyboard
(`c8_tick`, which writes `key[]` and answers with a released key), the screen
(`c8_render`), the debugger (`c8_debug_repl`, which may overwrite the whole
machine) and the interpreter (`c8_parse_instruction`), in a fixed order, and
leaves when an exception is returned or `running` is 0. What is concurrent is
the world around it: the clock, the user at the keyboard and the window, SDL's
queue or the terminal, the files the debugger loads, SIGINT, and a program that
may do anything.

What makes each component correct:

- dispatch: the trace and the interpreter agree on every word; what one names
  the other accepts.
- interpreter: calls nest and never leave `stack[]`; one wait at a time; every
  field keeps its width; arithmetic obeys its laws also where VF is an operand;
  stores and loads agree; `I` leaves memory only by the two instructions that
  may give it any word.
- main loop: no time is lost or counted twice; a waiting program gets a fresh
  key; the loop drives the machine as the interpreter model says; a held program
  is released; closing the window ends the run.
- debugger: the prompt shows a machine between two instructions; `continue` goes
  on; a machine that was rejected does not run; a documented line does what its
  documentation says and nothing else; saved flags and a saved machine can be
  loaded again.
- assembler: a label stands for the address of the code behind it; a source with
  an error yields no program; the output is not overrun.
- disassembler: what it writes assembles to the program it read.
- display: nothing is written outside `p[]`, sprites and scrolled pixels end up
  where they belong, VF tells a collision, LOW does not disturb what HIGH shows.
- keyboard: `key[]` follows the keyboard; a reported key was released, and no more
  often than it was pressed; no key is lost and none stands for ever.
- tool: a program runs only with what was asked for and could be had; however the
  process ends, the terminal and the desktop are as before.

## 2. The modules

    Isa ----------- Trace                       dispatch against c8_formats
     |
     +--- Cpu ----- MCCpu                       control part of the interpreter
     |     |  \____ CallStack                   abstract: what CALL and RET promise
     |     |
     |     +------- Simulate ---- MCSimulate    main loop, prompt and debugger
     |
     +--- Display - MCDisplay                   pixels
     +--- Session - MCSession                   the chip8 tool, around two instances
           |  \____ KeyboardSdl                 c8_tick of the SDL2 backend
           \_______ KeyboardNcurses             c8_tick of the ncurses backend
    Alu                                         arithmetic on V
    Transfer ------ Debugger ---- MCDebugger    V, R, I and memory; the lines at the prompt
    Assembler ----- Disassembler - MCAssembler  c8_encode, and c8_decode before it
    SimulateProofs (Cpu as well), AluProofs, DisplayProofs, KeyboardProofs,
    SessionProofs, DebuggerProofs (Transfer as well), AssemblerProofs,
    DisassemblerProofs

**Isa** gives the dispatch as functions of the four nibbles (`Decode`, `Base`,
`Bitwise`, `Key`, `Misc`) to the name of the C function, and which functions a
mode refuses (`Permitted`). An instruction is named as its function without
`c8_i_`.

**Trace** adds `c8_formats` (`Formats`, same order) and
`c8_decode_instruction`'s search for the first match. One step prints and
executes one word, as the interpreter does under `C8_FLAG_VERBOSE`.

**Cpu** has the fields that control a program: `pc`, `sp`, `stack`, `dt`, `st`,
`sound`, `VK`, the two waiting flags, `running`, `mode`, the vblank quirk, and
`status`, the exception that ended the run. There is one action per instruction
that touches them; `StraightLine` stands for all that only move `pc` by 2, and
`Fault` for every early return with an exception. Register contents are any byte
of `RegValues` and any instruction may be at any address, since programs modify
themselves. A C access outside an array (`OutOfMemory`, a slot outside
`stack[]`, `V[VK]`) is `status = "undefined"`. `Frame`, `RenderFails`,
`KeyReleased`, `Quit` and `Rejected` are what `c8_simulate` does to these fields.

**CallStack** is the abstract machine: an address, a sequence of frames and the
reason it halted; no `sp`, no array. `Cpu` implements it under
`frames <- <<stack[0], ..., stack[sp - 1]>>`, `MaxDepth <- StackSize - 1`.

**Simulate** is one iteration of `c8_simulate` cut into its steps; `at` says
where the loop is:

| `at` | action | code |
|---|---|---|
| start | `Validate` | chip8.c:236-241 |
| top | `Clock`, `Stop` | the loop condition, the clock, the wait for a frame, usleep: 249-263 |
| tick | `Tick` | c8_tick and the quit: 265-271 |
| frame | `Render`, `RenderError` | 273-293 |
| hotkeys | `HotKeys` | P, M and whether to stop at the prompt: 295-308 |
| prompt | `Prompt`: `NextCommand`, `ContinueCommand`, `QuitCommand`, `BreakCommand`, `SetValue`, `LoadState` | debug.c:482-648, 187-201 |
| deliver | `Deliver` | 322-326 |
| execute | `Execute` | 328-337 |

It EXTENDS Cpu and every step is written with Cpu's actions, so what they change
is stated once. `LoadState(s, n)` overwrites the first `n` fields, in the order
of `struct C8` (`Position`): a short file, a complete one and one that
`c8_validate` rejects are all there. `owed`, `resumed`, `heard` and `edited` are
history variables, read by properties only.

**KeyboardSdl** has SDL's queue, the keys physically down, `key[]` and
`c8_tick`'s local `released`. Each event is polled in a step of its own, and the
user goes on typing in between. **KeyboardNcurses** is the same for a terminal,
which gives characters only: `current` is `current_keys[]`, and a key falls when
a call ends without having found it. A character found twice ends the call, with
the rest left for the next. Holding a key is typing it again and again. Both have
`LoadState`: between two calls the prompt's load overwrites `key[]`, as far as the file
goes, with keys that nobody holds down. The terminal has `GetChar` as well: the prompt
reads its lines from there (debug.c:75). `loaded` (the keys written by a load and without
an event since) and `taken` (the character the prompt took) are history.

**Session** is `main` of the chip8 tool with the backend it is linked with.
`at` says where `main` is and `todo` which calls of the graphics library it is
about to make; one step is one such call. While it is `"simulating"`, the user
and `c8_tick` take the steps of the keyboard's module (`Sdl`, `Ncurses`). At
`"prompt"`, which may come up after every `c8_tick` that was not told to quit, the user
goes on as well, `load` overwrites `key[]` and, at a terminal, lines are read from it.
What the program and the other lines do meanwhile is Simulate's and Debugger's matter:
`mode` and `quirks` are what `main` hands to `c8_simulate`, and leaving the loop is
possible after every `c8_tick` and from the prompt.

| `at` | action | code |
|---|---|---|
| options | `QuirksOption`, `SchipOption`, `BadOption`, `OptionsDone` | tools/chip8.c:27-73, chip8.c:81-183 |
| opening | `Open`, `OpenFails`, `Opened` | graphics_sdl2.c:110-156, graphics_ncurses.c:38-70 |
| fonts, rom | `Fonts`, `Rom` | font.c:183-259, chip8.c:193-221 |
| simulating | `User`, `Tick`, `EnterPrompt`, `Leave` | c8_tick; chip8.c:249-271, 308-310 |
| prompt | `User`, `LoadState`, `GetChar`, `LeavePrompt`, `Leave` | debug.c:68-98, 187-201; chip8.c:312-319 |
| undoing, closing | `CloseNext`, `ClosedAll` | the failure paths; graphics_sdl2.c:97, graphics_ncurses.c:95 |
| returned | `Exit` | tools/chip8.c:91-93 |
| anywhere | `Sigint` | chip8.c:399-402 |

`resource` says of each thing the library holds whether it is open; closing a
window, a renderer or a display again after it is gone, or X11's calls on a
display that is not open, is `status = "undefined"`.

**Display** has `display.p` (`p`), `display.mode` (`res`) and VF. A sprite is the
function of its bits, from a set of sprites; coordinates are any byte. Scrolls
move along the array as the code does. Where the code copies overlapping rows by
`memcpy`, both orders of copying are taken.

**Alu** and **Transfer** model the data that Cpu leaves out. In Alu an
instruction is a function from registers to registers; in Transfer the
instructions that use `I` are actions on `V`, `R`, `I` and `mem`. Which modes
accept an instruction is Isa's matter and left out there.

**Debugger** EXTENDS Transfer with the prompt, which may come up between any two
instructions: `breakpoints[]`, the file of saveflags and loadflags and that of save and
load are its state. A line is its command, an argument and a value; `Type`, `Number`,
`IsString` and `NewValue` are what `c8_parse_arg` makes of them, and one action
per command is what `c8_run_command` does; which digits `set sfont` copies into
memory is left open. The union of an argument is an int
(-1 unless it is set) or a string; a line that takes one for the other, or an
index out of an array, is `Overrun`. `kept` and `parity` are history: the flags
that the file should hold, and whether a line was run, so that a line that does
nothing is a step that is checked. `stateFile` is a machine (`Machine`: memory, `R`, `V`,
`I`, the quirk and `breakpoints[]`, in the order of `struct C8`) and the number of its
bytes that are in the file; `ReadState` overwrites as much of the machine, also of a short
file, which is reported only after that. A file is what an earlier session or `save` left,
perhaps not written to its end. What `set` and `load` do to the fields that control the
loop is Simulate's, and to `key[]` Session's.

`IsDocumented` has the lines of docs/chip8.md, one by one, and `Failing` those of them
that do something else: the attribute `K`, which is no name (debug.c:40); an address
without a `$`, so that `break 200` breaks at `pc`; `$0`, and `$` alone, which are refused
(300); `set stack` ("Invalid argument", 644); and `set V` and `set R` without a digit,
which leave the array. `DocumentedLinesWork` is about all others.

| command | action | code |
|---|---|---|
| break, rmbreak | `Break` | debug.c:484-497 |
| set | `Set` | 601-648 |
| print | `PrintValue` | 389-471 |
| saveflags, loadflags | `SaveFlags`, `LoadFlags` | 549-564, 164-177 |
| save | `SaveState` | 574-589 |
| load | `LoadState`; in Simulate for the loop, in Session for `key[]` | 187-201 |
| continue, next, quit | `ContinueCommand`, `NextCommand`, `QuitCommand` in Simulate | 498-501, 521 |

**Assembler** is `c8_encode`: `phase` says which of its passes runs, and a step
is one line (labels), one word (parsing) or one symbol (resolving, writing). A
word is what `c8_parse_word`'s tests make of it (a definition, a name, a command,
a register, a number, ...), so that the string functions are left out, but not
what they leave behind: text in capitals, lines cut by `strtok`, the line that
`c8_trim` finds behind a blank one. The symbol list is zero up to
`C8_SYMBOL_CEILING` and anything of `Garbage` behind it. `result` is how it
returns; `"undefined"` is an access outside an array or through NULL.

**Disassembler** adds what a source may also be: the disassembly of a program
(`Rom`), with `c8_find_labels`' map of numbered labels or without. A word of a
program is an instruction of the format table, with operands of the format's kinds
(`IsRomWord`), or data; bits are left out in both directions. The run assembles the
disassembly again, so that `RoundTrip` is about both: `out` keeps the type, the value
and the operands of each piece that c8_write writes, which are compared with the
program's words.

| pass | actions | code |
|---|---|---|
| labels | `NoValidLines`, `PopulateLine`, `Populated` | encode.c:84-114, symbol.c:283-331 |
| parse | `BeginLine`, `ParseWord`, `ParseInvalid`, `EndLine`, `ParsedAll` | encode.c:116-127, 228-343 |
| resolve | `ResolveSymbol`, `Unresolved`, `Substitute` | symbol.c:356-412 |
| write | `WriteSymbol`, `Written` | encode.c:400-445, symbol.c:104-117, 430-547 |

The MC modules hold only small constants. Definitions whose comment begins with
"Mutant of" are broken variants kept beside the original; `PROJECT.json` pairs
each with the property that must notice it.

## 3. The runs

| run | module, cfg | states | shows |
|---|---|---|---|
| assembler | MCAssembler | 729 k | a label's address is where the code behind it is written, both passes count the same bytes also over uninitialised symbols, the output is overrun by one byte at most, a source with an invalid word never becomes a program; a disassembly assembles to the program, with the commands, operands and addresses it had |
| trace | Trace | 393,216 | every word in every mode: whatever the trace prints as an instruction and the interpreter executes is the same one, and no named word is a syntax error |
| cpu | MCCpu | 1.1 M | `stack[]` is never left, every field keeps its width, `sp` and `stack[]` implement nested calls with the exceptions exactly at full and at empty |
| loop | MCSimulate, Loop.cfg | 2.9 M | time is conserved, the prompt is between frames, keys are fresh, and the loop takes only steps of Cpu, until `set` or `load` overwrites the machine; time is kept whatever is loaded |
| fair | MCSimulate, Fair.cfg | 84 k | DRW's hold ends, closing the window ends the run, the delay timer runs out during LD Vx, K |
| session | MCSession | 263 k | whoever ends the process, the library is closed and the repeat rate restored; SIGINT is safe from when the library is open until it is being closed; nothing refused is run; `key[]` with the events still queued is the SDL keyboard, but for a key that load has overwritten, until its next event; a reported key was released (SDL2) and uses up a stroke, or, at the terminal, a load that put it down; there every character typed shows, unless the prompt takes it, and every key falls |
| display | MCDisplay | 17 k | sprites and scrolled pixels end up where they belong, VF tells a loss, CHIP-8 stays low, LOW keeps what only HIGH shows |
| alu | Alu | 2,048 | SUB takes back ADD, shifts lose nothing, the flag wins over the result in VF |
| debugger | MCDebugger | 129 k | loads undo stores, stores under the memory quirk are adjacent, who may take `I` out of memory, under instructions and command lines in any order; documented lines but those of `Failing` do what they should, a load of a whole file included; loadflags gives back what saveflags wrote |

Three runs expect a violation; each is a finding (the code and a text of the
repository disagree):

| run | the text says | the code does |
|---|---|---|
| continue | "continue: Exit debug mode until next breakpoint or completion" (debug.h:127, docs/chip8.md:82) | `step` starts as 1 and is never reset, so the prompt comes back before the next instruction |
| valid_speed | "Clock speed cannot be less than or equal to zero" (chip8.c:364), "Failed to load state" (debug.c:504) | the rejected file has already replaced the machine, which runs on with it |
| first_release | "the key index of the first key released since the last call" (graphics.c:89-90) | the last release is returned, or -1 if the last was of an unmapped key |

The assembler has more: a line with only a comment (docs/chip8as.md allows it)
ends in `strlen(NULL)` (symbol.c:285), a line of spaces makes the next one be
parsed twice (encode.c:92), an invalid word is reported and then parsing goes on
two words before it, for ever or in front of the array (encode.c:267, against
226), a definition in small letters may be repeated, since it is compared with
names in capitals (symbol.c:298), a definition with code behind it on its line is
no label but takes the place of one (symbol.c:294, 369), a program that exactly
fills memory is too large, since the symbol ending its last line is asked for
room as well (encode.c:406), and labels that are not all found make `c8_encode`
return 1, which its caller takes for a length (symbol.c:379).

The debugger takes more lines for something than its documentation lists. `set PC`
(or any other name) without a value prints "Not enough arguments." and then sets
it to -1 (debug.c:252, 614); `set VK n` and `set V n` write `V[-1]`, since VK
begins with V (288), `break PC` writes `breakpoints[-1]` (488); `break 200` breaks
at `pc`, as an address needs a `$`; `$0` is refused (300); the documented attribute
`K` (docs/chip8.md) is not a name, and `print VK` prints all registers; `set quirks`
without letters and a file command without a name use the int -1 as a pointer (503,
639). A blank line runs whatever stands in the buffer, since `c8_trim` returns a
pointer behind the terminator, and of a line of more than 63 characters the rest is
run (90). `load` reads `I` and `key[]` like everything else and `c8_validate` looks at
neither (chip8.c:348-384): `I` may be out of memory afterwards without an instruction or a
`set`, a key of the file is down for SKP until its next event, and at a terminal the next
`c8_tick` reports it as released though nobody typed it.

Nothing calls `c8_sound_play` ("Full sound support", README.md:41).

A name that begins with V is a register wherever it is referred to, and one that
begins with X, $ or a digit a number, since c8_parse_int takes what it can
(util.c:55, symbol.c:219, before labels are looked up in encode.c:315-335):
`JP vector` is no jump to `vector:`.

The disassembler counts labels in a byte (decode.c:187). After 255 jumps numbers
repeat, where its comment wants them unique (decode.c:80), and reassembly does not
fail: definitions in small letters are not found to be duplicates, and jumps go to
the first. A label at an odd address is put in front of the word it points into
(decode.c:58). A file longer than memory is read past `labelMap`.

The tool: SIGINT while the library is being closed, or after, closes it twice; with
X11 it is handed a display that is NULL before it is open, and a repeat rate of
zero between XOpenDisplay and XkbGetAutoRepeatRate, whose result is not looked at
(graphics_ncurses.c:53); a failure to set the rate leaves the display open (59);
`argv[optind]` may be NULL (tools/chip8.c:85). The letters of `-q` listed at
chip8.c:145-150 are not those of the code.

The ncurses backend reports P and M as released keys 16 and 17
(graphics_ncurses.c:180-184); the SDL2 one does not (graphics_sdl2.c:258).

The display: under the clipping quirk a sprite whose origin is outside the display
still wraps to the other side, where docs/chip8.md:64 says clipping is "instead of
wrapping"; 16x16 sprites draw 8 columns from one byte a row (instruction.c:985-1020);
SCD and SCU copy overlapping rows with memcpy, which C leaves undefined (341, 367).

Other places where comments and code differ, seen while modelling and followed
as the code has them: SCU is accepted in SCHIP mode and PLN, SND, PIT in every
mode, though instruction.c:350, 1098, 1116 and 1276 require XO-CHIP; 5xy2 and
5xy3 are dispatched to SE (148-149) although functions for them exist (619, 643);
the stack overflow comes at `sp = 15` with a slot free (551); SUBN of equal
operands clears VF (865, against 856), SUB sets it; LD R, Vx and LD Vx, R leave
Rx and Vx out (1341, 1364, against 1327); LD HF does not mask Vx (1245, against
1232); `pc` is bounded only before the loop starts (chip8.c:354).

### Bounds

Every bound is a constant. Sizes are shrunk together so that their order is
kept: memory is smaller than the range of `pc` so that `pc` runs past memory and
wraps; a stack of 3 has an empty, a full and a middle state; a byte of 2 or 3
values still counts a timer down to zero; `Targets` holds 0 and the last address.
`MaxLag` bounds the time not yet rendered and `Deltas` the jumps of the clock:
-1, 1 and 3 with a frame of 2 units give less than a frame, more than one, and
a clock set back. One key, one breakpoint and one register are enough where the
properties compare nothing between several; the session has a pad key, a hot key
and an unmapped key. Its terminal has a queue of three, so that a character typed twice
and one behind it fit into one call; SDL's event queue holds two but is filled up again
while a call drains it, so that any number of events come in one call (`first_release` has
two pad keys and a queue of its own). A state file has any values for the keys and ends
before, between or behind them. Its quirk strings are one that takes back what it sets and one
refused after its first letter. The display of run display has 3 by 3 pixels, 2 by 3
of them shown in LOW, sprites of two rows (a dot, a bar and a corner), coordinates
inside both resolutions, at the edge of one and beyond both, and every picture that
drawing and scrolling can make.
Alu has all values of three registers (x, y and VF distinct, or two of them
equal) of 3 bits. The machine under the debugger has a memory of 3, two
registers and one flag register, which hold two stores in a row, of one and of
two registers; its 27 lines are nineteen documented ones, for each action and
each kind of place, five of which fail, and one for each way to get them wrong (a word
missing, a name for a number, an index beyond the end), at an instruction and with `pc`
beyond memory. Of the machines one is saved (`Saves`), with all fields other than at the
start and `I` outside memory; the file ends inside `I` or is whole (`Cuts`), or there is
none. The proofs have any.
The assembler's
sources hold every kind of line the passes tell apart, three in every order, and
four of those that assemble; an output of 8 bytes is filled, crossed and
exceeded by them, the fourth label is one too many, and a list of 13 symbols is
enlarged; `MaxSymbols` cuts off the parsing that never ends. Disassembled programs
have up to three words: jumps to every address in and around them, instructions with
operands of every sort or with none, and data; the count of labels begins again after
three. Deadlock is not
checked in the runs because the program ends: after an exception or `running = 0`
there is nothing left to do (and the keyboard's user may stop typing).

### Fairness

`FairSpec` has `WF_vars(Loop)`: `c8_simulate` is a plain loop that nothing
schedules away for ever. The prompt is not in `Loop`: it waits for a user who may
never answer, and the liveness properties allow for that.
`SF_vars(Forward)` says that a clock read infinitely often moves forward
infinitely often; without it time could stand still and no program held by DRW
would go on. Strong fairness is needed because `Clock` is enabled only at the top
of the loop. Nothing is assumed about keys or the window.

Session's `Spec` has `WF_vars(Tick)` (c8_simulate goes on calling c8_tick) and
`SF_vars` of a tick that finds nothing more to read: a user who types between any
two polls for ever would otherwise keep one call going, and the two liveness
properties about the terminal also take that as a premise (`RunsDry`). The rest
is not fair: main may stop anywhere, and the properties do not speak of it. Nor is
anything assumed of the prompt: a run that stays there for ever, or reads all that is
typed, does not meet the premise or has its characters `taken`.

## 4. The proofs

All constants are arbitrary under the named assumptions (`CpuAssumption`,
`SimulateAssumption`, `AluAssumption`, `TransferAssumption`, `DisplayAssumption`,
`DebuggerAssumption`, `SessionAssumption`, `AssemblerAssumption`, `SourceAssumption`, `DisassemblerAssumption`,
`RomAssumption`), which say that sizes are positive
naturals, the stack's size fits in a byte, programs and fonts lie in memory, the
assembler's output ends where addresses do (`C8_MEMSIZE` is 2^12), a source is
lines of words with a number where the word has one, programs begin at an even
address, an instruction of `c8_formats` has at most three operands, a number only as
its last, a program's words are instructions of `c8_formats` with operands of its
kinds or data, and the sets of inputs hold values of the fields' types; KeyboardProofs names what it needs of the keys in its
theorems.

Every safety property that a passing run checks is a theorem, but for those of Trace.
Each invariant below was checked by TLC before it was proved.

- **SimulateProofs.** First Cpu by itself. The inductive invariant `CpuInv` is the types, `sp < StackSize`,
  `VK` is a register, and one wait at a time. The last needs no more than the
  guard of `CpuNext`, but the bound of `sp` needs the type of `sp`, and
  `KeyReleased` needs `VK`. Theorems: `CpuTypeCorrect`, `StackSafe`,
  `WaitsAreExclusive`, and the refinement `CallsAreNested`, with one lemma for a
  push (`CallPushes`), one for a pop (`RetPops`) and one for steps that leave the
  stack alone. Then the loop: `SimInv` is the types, time conserved, that `newFrame` is
  set at `"frame"` and clear from `"hotkeys"` to `"execute"` (`FrameInv`), and,
  until the debugger overwrites the machine, `LoopInv` (a program past the wait
  is not held by DRW, it is heard, its speed is positive) and `CpuInv`. Types and
  time are proved for every edit; the rest is a disjunction with `edited`, since
  a loaded file may hold anything. Theorems: the types, one for each property of run
  loop, and `SpeedValid` (`tickSpeed` is positive where usleep divides by it);
  `LoopDrivesCpu` carries the theorems about Cpu over to the program.
- **AluProofs.** The invariant is the type invariant, and each law is proved for
  every register file, width and quirk from the arithmetic of `%` and `\div`.
- **DebuggerProofs.** First Transfer by itself: the types with the range of `I`, and
  the laws of stores and loads for every memory. `DebuggerInv` adds that the file,
  where it is complete, holds `kept`, the types of what the prompt keeps, and that the
  machine in the state file has run as this one does (`HasRun`); there is one lemma per
  command, and Transfer's for the instructions. `DocumentedDoTheirWork` follows a
  documented line that is not one of `Failing` through `Type` and `Number` to its action,
  for any registers, addresses and values; for `load` (`DocumentedLoad`) it shows that
  every field of a whole file is reached. `IndexStaysUnderDebugger` and
  `FlagsAlwaysComeBack` are for every order of lines and instructions. The first says that
  `I` is out of memory only by ADD I, LD I, NNNN, a `set`, or the load of a file where it
  was so already or that ends inside `I`; it assumes of the files of earlier sessions
  (`StateFiles`) that `save` wrote them.
- **DisplayProofs.** The invariant is the type invariant with `Chip8IsLow`. That
  DRW stays in `p[]` and XORs each pixel once rests on `PixelsDistinct`: two bits
  of a sprite that are drawn fall on different pixels, wrapped or not, if the
  sprite is no larger than the display; `SpritesStayWhole` turns that round, from
  the pixel to the one bit that set it. The scrolls are proved pixel by pixel from
  the rows and columns of an index.
- **KeyboardProofs.** Of KeyboardSdl, for queues of any length: the types,
  `KeysFollowKeyboard`, `AnswerWasReleased` and `UsesStroke`. The invariant of the
  second adds what `released` holds while a call is under way. A step of the user
  appends an event and one of c8_tick takes the oldest; that what is yet to come for
  a key (`Settled`) is changed by the first as the keyboard is, and not by the
  second, is the heart of it. A load may set any key, so a key
  counts only while no load has written it since its last event (`loaded`).
  `ReportsNeedPresses` counts releases: those queued, the one that is still to come if the
  key is held, and the one in `released`; a load adds none, since c8_tick does not look at
  `key[]`.
- **SessionProofs.** The invariant of KeyboardProofs holds in Session as long as the
  backend is SDL2, since both instances take the same steps, the prompt's load among them, and
  leaving forgets the keyboard; the terminal has its types (`CursesTyped`).
  `ReportsAreTyped` goes through the steps of both keyboards: at the terminal a load that
  puts a key down pays for the report that follows. `RunsAsAsked` needs `AskedInv`: nothing is refused before main gives up
  its options, and while the library is being opened, what is no longer in `todo` is
  live (`OpenedSoFar`). `NothingStaysHeld` and `SigintStaysSafe` need `HeldInv`: what
  is held at every place of main. While the library is opened, that is what the calls
  made so far name (`HalfOpen`); while it is closed, what is still live is among the
  calls to come, none of which comes twice (`HalfClosed`).
- **AssemblerProofs.** For sources of any length, tables of formats and sizes. The
  types (`Typed`) hold what the passes rely on: that every line has text once the
  labels are found, and that a symbol waits while a line is parsed.
  - `InvalidIsRefused` needs `ParseInv`. After an invalid word c8_parse_line goes two
    words back, and its steps forward are one word or two, so it might seem to step
    over the word the next time. It does not: from where it goes back, every way
    forward comes upon the same word or upon one that was reported before (`Meets`),
    which is kept for the word it would skip as well (`Skipped`).
  - `OutputStaysInside` needs `FitsInv`: a list that was not enlarged ends with a
    Null symbol, at which c8_write asks for room again.
  - `LabelsAreWritten` needs `AgreeInv`: each pass has counted the bytes of the
    symbols before the one it looks at (`Bytes`), and the k-th definition is the k-th
    label's. It holds for symbols made of garbage too, since c8_write skips only
    symbols that c8_resolve_labels counts as nothing (`OperandsAreFree`).
  - `ReferencesReachTheirCode` is about sources whose definitions are on lines of
    their own. `LabelInv`: the k-th label is the k-th line that is a definition.
    `SourceInv`: the symbols are in the order of the lines, each definition is one of
    them, the k-th if its line is, and behind the command of a reference stand its
    registers, the label and a Null that ends the operands; after
    c8_substitute_labels the label is an address. `PlacedInv`: what has been written
    for lines behind a definition begins where the symbols before it end. With
    `AgreeInv` the two addresses are the same; with `FitsInv` they are below 2^12.

  None of this depends on where the source comes from: `AnySourceIsSafe` states the
  four for every start with lines of words.
- **DisassemblerProofs.** `DisassemblyComesBack`: whatever the program, of any length,
  its disassembly with unambiguous labels is assembled to it. `RoundInv` is the
  assembler's invariant and, of a disassembly:
  - its lines are known by their place. `Flattened` gives what FlattenSeq's fold puts
    together, and `Ahead` and `Before` count the lines and symbols in front of a word;
  - `ListInv`: the symbols of each parsed line are what is made of it, a label's
    definition or a command with its operands and a Null;
  - operands that suit a format are taken (`TakesCode`), so that no word is refused;
  - a label's value is the address of the word it was put in front of, by `AgreeInv`,
    `LabelInv` and `SourceInv`, and numbers do not repeat (`Distinct`);
  - `OutInv`: for every word behind which writing has come, one piece has been
    written, at its place and the right one (`Right`).

  What holds word by word is proved by a least counterexample (`StepByStep`), since
  the library's induction theorems cannot be used. `DisassemblyIsSafe`: the four
  properties above hold of disassemblies too.

`LabelsReachTheirCode` is stated of lines that refer to a label: a command,
registers or I, and the name. A line with two commands, which c8_parse_line takes as
it takes any other, may end in a name that belongs to the second (`CLS JP A`).

The types of Alu, Transfer and Simulate, `SpeedStaysValid`, `UsesStroke` and
`OneWaitAtATime` (which `DrivesCpu` carries over to the loop) are proved and not
among the runs' properties. LD R, Vx never overruns R in run debugger, which has no
third register for it; the proofs cover it.

Only model-checked: liveness (the prover has neither fairness nor ENABLED), and Trace,
a table without constants whose every word TLC visits. Mutants and the three violations
are matters of TLC.

## 5. Not modelled

The wording of traces, messages and operands, and of what `print` prints. The
characters of a command line: a line is given as its words. What SDL and ncurses draw and
play, and c8_render's loop over the pixels. Colours and the tables of digits. The
mains of chip8as and chip8dis, which open two files around one call of the
library. `exception.c` and the string functions of `util.c`, but for what the
assembler does with them. SIGINT inside a call of a library.
A state file that `save` did not write is not loaded in Debugger (it is in Simulate and in
Session); a load's effect on all of struct C8 at once is in no one module.
What an access outside an array destroys: the models stop there. Floating point
in `acc`: time is an integer. The instruction
word's fetch from `mem`: Cpu lets any instruction be anywhere, so that no result
depends on one program. `LD I, NNNN` is four bytes and a skip passes two of them;
that follows from `Skip` and `LdIWord` and no property is about it.

## 6. Plan

1. A composition of Cpu with Transfer (`I`, `pc` and memory together), and its
   proofs.
2. One abstract `Keyboard` that both backends implement as far as they do.
