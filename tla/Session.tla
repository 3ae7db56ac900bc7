--------------------------------- MODULE Session --------------------------------
(***************************************************************************)
(* One run of the chip8 tool (src/tools/chip8.c): its options, the start of  *)
(* the graphics library, the program, and the way out.  The backend is one of *)
(* SDL2, ncurses, and ncurses with X11; while c8_simulate runs, the user types *)
(* and the backend's c8_tick reads (modules KeyboardSdl and KeyboardNcurses).  *)
(* Between two calls of c8_tick it may stop at the debugger's prompt, where     *)
(* load overwrites the machine, key[] included.                                *)
(*                                                                         *)
(* c8_init installs a handler for SIGINT that closes the graphics library and *)
(* exits.  The signal may come between any two calls of the library, also      *)
(* while it is being opened or closed.                                        *)
(***************************************************************************)
EXTENDS Isa, Integers, Sequences, FiniteSetsExt

CONSTANTS
  PadKeys, HotKeys,             \* as in the modules of the keyboards
  MaxEvents, MaxQueue,          \* bounds: waiting events (SDL2), characters (ncurses)
  Backends,                     \* among "sdl", "curses" and "x11"
  QuirkStrings                  \* the arguments of -q: sequences of letters

ASSUME SessionAssumption == /\ PadKeys \subseteq 0..15
                            /\ HotKeys \subseteq {16, 17}
                            /\ MaxEvents \in Nat /\ MaxQueue \in Nat
                            /\ Backends \subseteq {"sdl", "curses", "x11"}

VARIABLES
  backend,      \* which graphics_*.c is linked
  at,           \* where main is
  todo,         \* the calls of the graphics library it is about to make
  mode,         \* c8->mode, as main hands it to c8_simulate
  quirks,       \* the letters of the quirks set in c8->flags, likewise
  userQuirks,   \* userDefinedQuirks
  refused,      \* history: an option, a font or the ROM has been refused
  resource,     \* what the graphics library holds
  saved,        \* the keyboard's repeat rate has been read
  rate,         \* that rate, as the desktop uses it
  hit,          \* where main was when SIGINT came
  status,       \* "running", "exited", or "undefined"
  queue, key, answer, polling,   \* of the keyboard in use
  released, held, first, ups, loaded,  \* of the SDL2 keyboard
  current, taken                       \* of the ncurses keyboard

optionVars == <<mode, quirks, userQuirks>>
graphicsVars == <<resource, saved, rate>>
sdlVars == <<released, held, first, ups, loaded>>
cursesVars == <<current, taken>>
keyboardVars == <<queue, key, answer, polling, sdlVars, cursesVars>>
vars == <<backend, at, todo, optionVars, refused, graphicsVars, hit, status, keyboardVars>>

Sdl == INSTANCE KeyboardSdl WITH MaxQueue <- MaxEvents
Ncurses == INSTANCE KeyboardNcurses

Letters == {"v", "m", "c", "s", "j", "r"}
Resources == {"video", "window", "renderer", "audio", "curses", "display"}

NoUser == Sdl!Init /\ Ncurses!Init

Init == /\ backend \in Backends
        /\ at = "options"
        /\ todo = <<>>
        /\ mode = Chip8 /\ quirks = {} /\ userQuirks = FALSE
        /\ refused = FALSE
        /\ resource = [r \in Resources |-> "never"]
        /\ saved = FALSE
        /\ rate = "users"
        /\ hit = "nowhere"
        /\ status = "running"
        /\ NoUser

\* main goes on: no handler is running, for it does not return.
Main(place) == status = "running" /\ at = place

--------------------------------------------------------------------------------
\* c8_load_quirks toggles letter by letter, up to the first that is no quirk's.
Understood(s) == Max({n \in 0..Len(s) : \A i \in 1..n : s[i] \in Letters})
Toggled(s) ==
  {l \in Letters : Cardinality({i \in 1..Understood(s) : s[i] = l}) % 2 = 1}

\* An option is taken or refused; main gives up at the first that is refused.
Option(ok) == /\ Main("options")
              /\ at' = IF ok THEN "options" ELSE "returned"
              /\ refused' = ~ok
              /\ UNCHANGED <<backend, todo, graphicsVars, hit, status, keyboardVars>>

\* Mutant of QuirksOption: the string is taken as far as it is understood.
QuirksOptionLax == \E s \in QuirkStrings :
  /\ Main("options")
  /\ quirks' = SymDiff(quirks, Toggled(s))
  /\ userQuirks' = TRUE
  /\ refused' = (refused \/ Understood(s) < Len(s))
  /\ UNCHANGED <<mode, at, backend, todo, graphicsVars, hit, status, keyboardVars>>

QuirksOption == \E s \in QuirkStrings :
  /\ Option(Understood(s) = Len(s))
  /\ quirks' = SymDiff(quirks, Toggled(s))
  /\ userQuirks' = TRUE
  /\ UNCHANGED mode

SchipOption == Option(TRUE) /\ mode' = Schip /\ UNCHANGED <<quirks, userQuirks>>

\* A palette that is none, or an option that is.
BadOption == Option(FALSE) /\ UNCHANGED optionVars

DefaultQuirks(m) == IF m = Chip8 THEN {"v", "m", "c", "r"} ELSE {"c", "s", "j", "r"}

--------------------------------------------------------------------------------
\* Mutant of Closing: the display is closed before the rate is set on it.
ClosingDisplayFirst == [sdl    |-> <<"renderer", "window", "audio", "video">>,
                        curses |-> <<"curses">>,
                        x11    |-> <<"display", "rate", "curses">>]

\* The calls by which c8_init_graphics opens a backend, and those by which
\* c8_deinit_graphics closes it.
Opening == [sdl    |-> <<"video", "window", "renderer", "audio">>,
            curses |-> <<"curses">>,
            x11    |-> <<"curses", "display", "saved", "rate">>]
Closing == [sdl    |-> <<"renderer", "window", "audio", "video">>,
            curses |-> <<"curses">>,
            x11    |-> <<"rate", "display", "curses">>]

\* Mutant of Undoing: the terminal is not given back.
UndoingNothing == [video |-> <<>>, window |-> <<"video">>,
                   renderer |-> <<"window", "video">>,
                   audio |-> <<"renderer", "window", "video">>,
                   display |-> <<>>, rate |-> <<>>]

\* What c8_init_graphics closes when one of its calls fails.  The others it makes
\* do not fail, or are not asked whether they did.
Undoing == [video |-> <<>>, window |-> <<"video">>,
            renderer |-> <<"window", "video">>,
            audio |-> <<"renderer", "window", "video">>,
            display |-> <<"curses">>, rate |-> <<"curses">>]

OptionsDone ==
  /\ Main("options")
  /\ quirks' = IF userQuirks THEN quirks ELSE DefaultQuirks(mode)
  /\ at' = "opening" /\ todo' = Opening[backend]
  /\ UNCHANGED <<backend, mode, userQuirks, refused, graphicsVars, hit, status,
                 keyboardVars>>

\* XkbGetAutoRepeatRate is not asked whether it read the rate.
Open ==
  /\ Main("opening") /\ todo # <<>>
  /\ todo' = Tail(todo)
  /\ LET r == Head(todo)
     IN  \/ r \in Resources /\ resource' = [resource EXCEPT ![r] = "live"]
                            /\ UNCHANGED <<saved, rate>>
         \/ r = "saved" /\ saved' \in BOOLEAN /\ UNCHANGED <<resource, rate>>
         \/ r = "rate" /\ rate' = "fast" /\ UNCHANGED <<resource, saved>>
  /\ UNCHANGED <<backend, at, optionVars, refused, hit, status, keyboardVars>>

OpenFails ==
  /\ Main("opening") /\ todo # <<>> /\ Head(todo) \in DOMAIN Undoing
  /\ at' = "undoing" /\ todo' = Undoing[Head(todo)]
  /\ UNCHANGED <<backend, optionVars, refused, graphicsVars, hit, status, keyboardVars>>

Opened ==
  /\ Main("opening") /\ todo = <<>>
  /\ at' = "fonts"
  /\ UNCHANGED <<backend, todo, optionVars, refused, graphicsVars, hit, status,
                 keyboardVars>>

Close == at' = "closing" /\ todo' = Closing[backend]

\* c8_set_fonts_s: of a pair whose second name is refused the first has been set.
Fonts ==
  /\ Main("fonts")
  /\ \/ at' = "rom" /\ UNCHANGED <<todo, refused>>
     \/ refused' = TRUE /\ Close
  /\ UNCHANGED <<backend, optionVars, graphicsVars, hit, status, keyboardVars>>

\* c8_load_rom.  main does not ask whether a file was named.
Rom ==
  /\ Main("rom")
  /\ \/ at' = "simulating" /\ UNCHANGED <<todo, refused, status>>
     \/ refused' = TRUE /\ Close /\ UNCHANGED status
     \/ status' = "undefined" /\ UNCHANGED <<at, todo, refused>>
  /\ UNCHANGED <<backend, optionVars, graphicsVars, hit, keyboardVars>>

--------------------------------------------------------------------------------
mainVars == <<backend, at, todo, optionVars, refused, graphicsVars, hit, status>>

\* c8_simulate runs, or waits at its prompt.
Simulating == Main("simulating") \/ Main("prompt")

User == /\ Simulating
        /\ \/ backend = "sdl" /\ Sdl!User /\ UNCHANGED cursesVars
           \/ backend # "sdl" /\ Ncurses!User /\ UNCHANGED sdlVars
        /\ UNCHANGED mainVars

\* c8_simulate does not call c8_tick again once it has been told to quit.
Tick == /\ Main("simulating")
        /\ \/ /\ backend = "sdl" /\ (polling \/ answer # -2)
              /\ Sdl!Tick /\ UNCHANGED cursesVars
           \/ /\ backend # "sdl"
              /\ Ncurses!Tick /\ UNCHANGED sdlVars
        /\ UNCHANGED mainVars

--------------------------------------------------------------------------------
\* The prompt of c8_simulate comes up between two calls of c8_tick, if the last was
\* not told to quit.  Of its lines those that touch the keyboard are here; what the
\* others do to the machine is Simulate's and Debugger's.
Turn(place) == /\ at' = place
               /\ UNCHANGED <<backend, todo, optionVars, refused, graphicsVars, hit, status,
                              keyboardVars>>

EnterPrompt == Main("simulating") /\ ~polling /\ answer # -2 /\ Turn("prompt")

\* continue and next.
LeavePrompt == Main("prompt") /\ Turn("simulating")

\* load reads key[] from the file, as far as the file goes.
LoadState == /\ Main("prompt")
             /\ \/ backend = "sdl" /\ Sdl!LoadState /\ UNCHANGED cursesVars
                \/ backend # "sdl" /\ Ncurses!LoadState /\ UNCHANGED sdlVars
             /\ UNCHANGED mainVars

\* The line is read from the terminal, which is the keyboard of all but SDL2.
GetChar == /\ Main("prompt") /\ backend # "sdl"
           /\ Ncurses!GetChar /\ UNCHANGED sdlVars
           /\ UNCHANGED mainVars

\* c8_simulate returns, and main does not ask why.  The keyboard is not read
\* again; its state is forgotten here.
Forgotten == /\ queue' = <<>> /\ key' = Ncurses!NoKeys /\ current' = Ncurses!NoKeys
             /\ answer' = -1 /\ polling' = FALSE /\ released' = -1
             /\ held' = {} /\ first' = -1 /\ ups' = {} /\ loaded' = {}
             /\ taken' = Ncurses!Nothing

\* Told to quit, or for an exception, or by quit at the debugger's prompt.
Leave == /\ Simulating /\ ~polling
         /\ Close /\ Forgotten
         /\ UNCHANGED <<backend, optionVars, refused, graphicsVars, hit, status>>

--------------------------------------------------------------------------------
\* One call that closes something, on what the graphics library holds.  SDL's
\* pointers are not reset when what they point to is gone; X11 is handed the
\* display whether it was opened or not, and the rate whether it was read or not.
Closed(g, r) ==
  CASE ~g.ok -> g
    [] g.ok /\ r = "rate" ->
         IF g.resource["display"] = "live"
         THEN [g EXCEPT !.rate = IF saved THEN "users" ELSE "none"]
         ELSE [g EXCEPT !.ok = FALSE]
    [] g.ok /\ r \in {"window", "renderer", "display"} /\ g.resource[r] = "gone" ->
         [g EXCEPT !.ok = FALSE]
    [] OTHER -> IF g.resource[r] = "live" THEN [g EXCEPT !.resource[r] = "gone"] ELSE g

Held == [resource |-> resource, rate |-> rate, ok |-> TRUE]

CloseNext ==
  /\ status = "running" /\ at \in {"undoing", "closing"} /\ todo # <<>>
  /\ LET g == Closed(Held, Head(todo))
     IN  /\ resource' = g.resource /\ rate' = g.rate
         /\ status' = IF g.ok THEN "running" ELSE "undefined"
  /\ todo' = Tail(todo)
  /\ UNCHANGED <<backend, at, optionVars, refused, saved, hit, keyboardVars>>

ClosedAll ==
  /\ status = "running" /\ at \in {"undoing", "closing"} /\ todo = <<>>
  /\ at' = "returned"
  /\ UNCHANGED <<backend, todo, optionVars, refused, graphicsVars, hit, status,
                 keyboardVars>>

Exit ==
  /\ Main("returned")
  /\ status' = "exited"
  /\ UNCHANGED <<backend, at, todo, optionVars, refused, graphicsVars, hit, keyboardVars>>

\* c8_deinit_graphics to the end: of no backend does it make more than four calls.
ClosedBy(g, i) ==
  IF i \in DOMAIN Closing[backend] THEN Closed(g, Closing[backend][i]) ELSE g
ClosedOut == ClosedBy(ClosedBy(ClosedBy(ClosedBy(Held, 1), 2), 3), 4)

\* c8_handle_signal, to the end: main waits, and SIGINT is blocked meanwhile.
Sigint ==
  /\ status = "running"
  /\ hit' = at
  /\ LET g == ClosedOut
     IN  /\ resource' = g.resource /\ rate' = g.rate
         /\ status' = IF g.ok THEN "exited" ELSE "undefined"
  /\ Forgotten
  /\ UNCHANGED <<backend, at, todo, optionVars, refused, saved>>

Next == \/ QuirksOption \/ SchipOption \/ BadOption \/ OptionsDone
        \/ Open \/ OpenFails \/ Opened \/ Fonts \/ Rom
        \/ User \/ Tick \/ Leave
        \/ EnterPrompt \/ LoadState \/ GetChar \/ LeavePrompt
        \/ CloseNext \/ ClosedAll \/ Exit \/ Sigint

\* c8_simulate goes on calling c8_tick, which does not miss for ever that there is
\* nothing more to read.
Fairness == WF_vars(Tick) /\ SF_vars(Tick /\ polling /\ queue = <<>>)

Spec == Init /\ [][Next]_vars /\ Fairness

--------------------------------------------------------------------------------
TypeOK ==
  /\ backend \in Backends
  /\ at \in {"options", "opening", "undoing", "fonts", "rom", "simulating", "prompt",
             "closing", "returned"}
  /\ todo \in Seq(Resources \cup {"saved", "rate"})
  /\ mode \in {Chip8, Schip} /\ quirks \subseteq Letters
  /\ userQuirks \in BOOLEAN /\ refused \in BOOLEAN
  /\ resource \in [Resources -> {"never", "live", "gone"}]
  /\ saved \in BOOLEAN /\ rate \in {"users", "fast", "none"}
  /\ hit \in {"nowhere", "options", "opening", "undoing", "fonts", "rom", "simulating",
              "prompt", "closing", "returned"}
  /\ status \in {"running", "exited", "undefined"}
  /\ backend = "sdl" => Sdl!TypeOK
  /\ backend # "sdl" => /\ key \in [Ncurses!Mapped -> {0, 1}]
                        /\ answer \in Ncurses!Mapped \cup {-1}

\* However the process exits, by main, by a failure to open the graphics library
\* or by SIGINT anywhere, the library is closed: the terminal is given back, and
\* so is the desktop's repeat rate, if it was read.
NothingLeft ==
  status = "exited" =>
    /\ \A r \in Resources \ {"display"} : resource[r] # "live"
    /\ saved => rate = "users"

\* SIGINT is safe from when the graphics library is open, and while a program runs or
\* waits at the prompt.  It is not when the library is being closed or has been, since
\* that is then done twice; nor, with X11, before the display is open.
SigintIsSafe ==
  status = "undefined" =>
    \/ hit = "nowhere" /\ at = "rom"
    \/ hit \in {"undoing", "closing", "returned"}
    \/ backend = "x11" /\ resource["display"] = "never"

\* A program is run only with everything open that its backend needs; only if nothing
\* main was given was refused, for a string of quirks or a pair of fonts that is
\* refused half-way has changed the machine; and it is started, unless the user named
\* quirks, with those of its mode, wherever -s stood among the options.
RunsAsAsked ==
  Simulating =>
    /\ ~refused
    /\ userQuirks \/ quirks = DefaultQuirks(mode)
    /\ \A i \in DOMAIN Opening[backend] :
         Opening[backend][i] \in Resources => resource[Opening[backend][i]] = "live"

\* The SDL2 keyboard's two properties, while the rest of the tool goes on around it:
\* key[] is the keyboard, but for a key that load has overwritten at the prompt, which
\* is wrong until its next event; and a key that is reported was released.
SdlKeysAreTrue ==
  backend = "sdl" => Sdl!KeysFollowKeyboard /\ Sdl!AnswerWasReleased

\* A key is never reported released more often than it was pressed (SDL2), or typed
\* or put down by a load (ncurses), while c8_simulate goes on, at its prompt too.
ReportsUseStrokes ==
  [][Simulating' =>
       \A k \in Ncurses!Mapped :
         IF backend = "sdl" THEN Sdl!UsesStroke(k) ELSE Ncurses!UsesStroke(k)]_vars

\* c8_tick now and then finds that there is nothing more to read.
RunsDry == []<>(polling /\ queue = <<>>)

Waiting(k) == Simulating /\ \E i \in DOMAIN queue : queue[i] = k

\* A character typed at the terminal comes to stand in key[], unless the prompt takes
\* it, however many others were typed before it and however calls were cut short by one
\* typed twice; and no key stands for ever without being typed again, loaded or not.
TerminalKeysRiseAndFall ==
  RunsDry =>
    \A k \in Ncurses!Mapped :
      /\ (backend # "sdl" /\ Waiting(k)) ~> (key[k] = 1 \/ taken = k \/ ~Simulating)
      /\ []<>(backend = "sdl" \/ ~Simulating \/ key[k] = 0 \/ Waiting(k))
================================================================================
