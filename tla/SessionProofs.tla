------------------------------ MODULE SessionProofs -----------------------------
(***************************************************************************)
(* Proofs about Session, for any strings of quirks and any number of events:  *)
(* a program runs only as asked, and the theorems of KeyboardProofs hold of    *)
(* the SDL2 keyboard while the rest of the tool goes on around it, its prompt  *)
(* included.                                                                 *)
(***************************************************************************)
EXTENDS Session, TLAPS

SdlP == INSTANCE KeyboardProofs WITH MaxQueue <- MaxEvents

SdlInv == backend = "sdl" => SdlP!KeyboardInv

\* The keys of the session are keys of KeyboardSdl's proofs.
LEMMA Ranges == SdlP!KeyRanges
  BY SessionAssumption DEF SdlP!KeyRanges

\* Both instances of KeyboardSdl are the same.
LEMMA SameUser == Sdl!User => SdlP!User
  BY DEF Sdl!User, SdlP!User, Sdl!Press, SdlP!Press, Sdl!Release, SdlP!Release,
         Sdl!Close, SdlP!Close, Sdl!Post, SdlP!Post, Sdl!Mapped, SdlP!Mapped,
         Sdl!Unmapped, SdlP!Unmapped

\* Both instances of KeyboardSdl take the same steps.
LEMMA SameTick == Sdl!Tick => SdlP!Tick
  BY DEF Sdl!Tick, SdlP!Tick, Sdl!Call, SdlP!Call, Sdl!Poll, SdlP!Poll, Sdl!Return,
         SdlP!Return, Sdl!KeyDown, SdlP!KeyDown, Sdl!KeyUp, SdlP!KeyUp,
         Sdl!QuitEvent, SdlP!QuitEvent, Sdl!Mapped, SdlP!Mapped

\* At the prompt too.
LEMMA SameLoad == Sdl!LoadState => SdlP!LoadState
  BY DEF Sdl!LoadState, SdlP!LoadState, Sdl!Load, SdlP!Load, Sdl!Mapped, SdlP!Mapped

\* And they have the same properties.
LEMMA SameProperties ==
  /\ SdlP!KeysFollowKeyboard => Sdl!KeysFollowKeyboard
  /\ SdlP!AnswerWasReleased => Sdl!AnswerWasReleased
  BY DEF Sdl!KeysFollowKeyboard, SdlP!KeysFollowKeyboard, Sdl!Settled, SdlP!Settled,
         Sdl!Mapped, SdlP!Mapped, Sdl!AnswerWasReleased, SdlP!AnswerWasReleased

--------------------------------------------------------------------------------
\* The keyboard begins as KeyboardSdl does.
LEMMA InitSdl == Init => SdlInv
  BY Ranges, SdlP!InitKeyboard
     DEF Init, NoUser, SdlInv, Sdl!Init, SdlP!Init, Sdl!Mapped, SdlP!Mapped

\* The keyboard as it is when nothing has been read of it.
LEMMA ForgottenSdl == Forgotten => SdlP!KeyboardInv'
<1>1. Forgotten => SdlP!Init'
  BY DEF Forgotten, SdlP!Init, SdlP!Mapped, Ncurses!NoKeys, Ncurses!Mapped
<1>2. SdlP!Init => SdlP!KeyboardInv
  BY Ranges, SdlP!InitKeyboard
<1>3. SdlP!Init' => SdlP!KeyboardInv'
  BY <1>2, PTL
<1>4. QED
  BY <1>1, <1>3

\* Steps that leave the keyboard alone keep its invariant.
LEMMA UnchangedSdl == SdlInv /\ UNCHANGED <<backend, keyboardVars>> => SdlInv'
  BY DEF SdlInv, keyboardVars, sdlVars, SdlP!KeyboardInv, SdlP!TypeOK, SdlP!Events, SdlP!Mapped,
         SdlP!Unmapped, SdlP!KeysFollowKeyboard, SdlP!Settled, SdlP!ReleasedInv,
         SdlP!AnswerWasReleased

\* Every step of main, of the user and of c8_tick keeps it.
LEMMA SdlStep == SdlInv /\ [Next]_vars => SdlInv'
<1> SUFFICES ASSUME SdlInv, [Next]_vars PROVE SdlInv'
  OBVIOUS
<1>1. CASE User
  <2>1. CASE backend = "sdl" /\ Sdl!User
    BY <1>1, <2>1, Ranges, SameUser, SdlP!UserKeeps DEF User, mainVars, SdlInv
  <2>2. CASE backend # "sdl"
    BY <1>1, <2>2 DEF User, mainVars, SdlInv
  <2>3. QED
    BY <1>1, <2>1, <2>2 DEF User
<1>2. CASE Tick
  <2>1. CASE backend = "sdl" /\ Sdl!Tick
    BY <1>2, <2>1, Ranges, SameTick, SdlP!TickKeeps DEF Tick, mainVars, SdlInv
  <2>2. CASE backend # "sdl"
    BY <1>2, <2>2 DEF Tick, mainVars, SdlInv
  <2>3. QED
    BY <1>2, <2>1, <2>2 DEF Tick
<1>3. CASE Leave \/ Sigint
  BY <1>3, ForgottenSdl DEF Leave, Sigint, SdlInv
<1>4. CASE QuirksOption \/ SchipOption \/ BadOption \/ OptionsDone
  BY <1>4, UnchangedSdl DEF QuirksOption, SchipOption, BadOption, OptionsDone, Option
<1>5. CASE Open \/ OpenFails \/ Opened \/ Fonts \/ Rom
  BY <1>5, UnchangedSdl DEF Open, OpenFails, Opened, Fonts, Rom
<1>6. CASE CloseNext \/ ClosedAll \/ Exit
  BY <1>6, UnchangedSdl DEF CloseNext, ClosedAll, Exit
<1>7. CASE UNCHANGED vars
  BY <1>7, UnchangedSdl DEF vars
<1>8. CASE EnterPrompt \/ LeavePrompt
  BY <1>8, UnchangedSdl DEF EnterPrompt, LeavePrompt, Turn
<1>9. CASE LoadState
  <2>1. CASE backend = "sdl" /\ Sdl!LoadState
    BY <1>9, <2>1, Ranges, SameLoad, SdlP!LoadKeeps DEF LoadState, mainVars, SdlInv
  <2>2. CASE backend # "sdl"
    BY <1>9, <2>2 DEF LoadState, mainVars, SdlInv
  <2>3. QED
    BY <1>9, <2>1, <2>2 DEF LoadState
<1>10. CASE GetChar
  BY <1>10 DEF GetChar, mainVars, SdlInv
<1>11. QED
  BY <1>1, <1>2, <1>3, <1>4, <1>5, <1>6, <1>7, <1>8, <1>9, <1>10 DEF Next

\* key[] is the keyboard, but for the keys that load has written at the prompt and that
\* have had no event since; and reported keys were released.  It holds in the whole
\* tool: also when SIGINT, the prompt or the end of the program comes between two polls.
THEOREM SdlKeysStayTrue == Spec => []SdlKeysAreTrue
<1>1. SdlInv => SdlKeysAreTrue
  BY SameProperties DEF SdlInv, SdlP!KeyboardInv, SdlKeysAreTrue
<1>2. QED
  BY <1>1, InitSdl, SdlStep, PTL DEF Spec

--------------------------------------------------------------------------------
\* Nothing has been refused, and the quirks are as they should.
AsAsked == ~refused /\ (userQuirks \/ quirks = DefaultQuirks(mode))

\* What todo leaves of the calls that open the backend has been opened.
OpenedSoFar ==
  LET calls == Opening[backend]
      done  == Len(calls) - Len(todo)
  IN  /\ done >= 0
      /\ \A i \in 1..Len(todo) : todo[i] = calls[done + i]
      /\ \A i \in 1..done : calls[i] \in Resources => resource[calls[i]] = "live"

AllOpen == \A i \in DOMAIN Opening[backend] :
             Opening[backend][i] \in Resources => resource[Opening[backend][i]] = "live"

Calls == Resources \cup {"saved", "rate"}

AskedInv ==
  /\ backend \in {"sdl", "curses", "x11"}
  /\ Main("options") => ~refused /\ DOMAIN resource = Resources
  /\ Main("opening") => /\ AsAsked /\ DOMAIN resource = Resources
                       /\ todo \in Seq(Calls) /\ OpenedSoFar
  /\ Main("fonts") \/ Main("rom") \/ Simulating => AsAsked /\ AllOpen

\* The calls that open a backend are sequences.
LEMMA OpeningCalls ==
  \A b \in {"sdl", "curses", "x11"} :
    /\ Opening[b] \in Seq(Calls)
    /\ DOMAIN Opening[b] = 1..Len(Opening[b]) /\ Len(Opening[b]) \in Nat
<1>1. /\ <<"video", "window", "renderer", "audio">> \in Seq(Calls)
      /\ <<"curses">> \in Seq(Calls)
      /\ <<"curses", "display", "saved", "rate">> \in Seq(Calls)
  BY DEF Calls, Resources
<1>2. \A b \in {"sdl", "curses", "x11"} : Opening[b] \in Seq(Calls)
  <2>1. /\ Opening["sdl"] = <<"video", "window", "renderer", "audio">>
        /\ Opening["curses"] = <<"curses">>
        /\ Opening["x11"] = <<"curses", "display", "saved", "rate">>
    BY DEF Opening
  <2>2. QED
    BY <1>1, <2>1
<1>3. \A s \in Seq(Calls) : DOMAIN s = 1..Len(s) /\ Len(s) \in Nat
  OBVIOUS
<1>4. QED
  BY <1>2, <1>3

\* main begins with nothing refused.
LEMMA InitAsked == Init => AskedInv
  BY SessionAssumption DEF Init, AskedInv, Main, Simulating

\* A call that opens something makes it live.
LEMMA OpenAsked ==
  ASSUME AskedInv, Open
  PROVE  AskedInv'
<1> DEFINE calls == Opening[backend]
           done  == Len(calls) - Len(todo)
<1>1. /\ at = "opening" /\ at' = "opening" /\ backend' = backend /\ AsAsked'
      /\ todo \in Seq(Calls) /\ todo # <<>> /\ todo' = Tail(todo)
      /\ OpenedSoFar
  BY DEF Open, Main, AskedInv, AsAsked, optionVars
<1>2. /\ todo' \in Seq(Calls) /\ Len(todo') = Len(todo) - 1 /\ Len(todo) \in Nat \ {0}
      /\ Head(todo) = todo[1]
      /\ \A i \in 1..Len(todo') : todo'[i] = todo[i + 1]
  BY <1>1
<1>3. calls \in Seq(Calls) /\ Len(calls) \in Nat
  BY OpeningCalls DEF AskedInv
<1>4. Head(todo) = calls[done + 1]
  BY <1>1, <1>2, <1>3 DEF OpenedSoFar
<1>5. DOMAIN resource' = Resources
  BY DEF Open, Main, AskedInv
<1>6. Head(todo) \in Resources => resource'[Head(todo)] = "live"
  <2>1. "saved" \notin Resources /\ "rate" \notin Resources
    BY DEF Resources
  <2>2. QED
    BY <2>1 DEF Open, Main, AskedInv
<1>7. \A r \in Resources : resource[r] = "live" => resource'[r] = "live"
  BY DEF Open, Main, AskedInv
<1>8. OpenedSoFar'
  <2> DEFINE after == Len(calls) - Len(todo')
  <2>1. after = done + 1 /\ after >= 0 /\ done \in Nat
    BY <1>1, <1>2, <1>3 DEF OpenedSoFar
  <2>2. \A i \in 1..Len(todo') : todo'[i] = calls[after + i]
    <3> SUFFICES ASSUME NEW i \in 1..Len(todo') PROVE todo'[i] = calls[after + i]
      OBVIOUS
    <3>1. i + 1 \in 1..Len(todo) /\ todo'[i] = todo[i + 1]
      BY <1>2
    <3>2. todo[i + 1] = calls[done + (i + 1)]
      BY <1>1, <3>1 DEF OpenedSoFar
    <3>3. done + (i + 1) = after + i
      <4> i \in Nat
        BY <1>2
      <4> HIDE DEF done, after
      <4>1. QED
        BY <2>1
    <3>4. QED
      BY <3>1, <3>2, <3>3
  <2>3. \A i \in 1..after : calls[i] \in Resources => resource'[calls[i]] = "live"
    <3> SUFFICES ASSUME NEW i \in 1..after, calls[i] \in Resources
                 PROVE  resource'[calls[i]] = "live"
      OBVIOUS
    <3>1. CASE i = done + 1
      BY <1>4, <1>6, <3>1
    <3>2. CASE i # done + 1
      <4>1. i \in 1..done
        BY <2>1, <3>2
      <4>2. QED
        BY <1>1, <1>7, <4>1 DEF OpenedSoFar
    <3>3. QED
      BY <3>1, <3>2
  <2>4. QED
    BY <1>1, <2>1, <2>2, <2>3 DEF OpenedSoFar
<1>9. QED
  BY <1>1, <1>2, <1>5, <1>8 DEF AskedInv, Main, Simulating

\* Every step keeps what was asked for.
LEMMA AskedStep == AskedInv /\ [Next]_vars => AskedInv'
<1> SUFFICES ASSUME AskedInv, [Next]_vars PROVE AskedInv'
  OBVIOUS
<1> USE DEF Simulating
<1>1. CASE QuirksOption \/ SchipOption \/ BadOption
  BY <1>1 DEF QuirksOption, SchipOption, BadOption, Option, Main, AskedInv, graphicsVars
<1>2. CASE OptionsDone
  <2>1. AsAsked'
    BY <1>2 DEF OptionsDone, Main, AskedInv, AsAsked, DefaultQuirks
  <2>2. backend' = backend /\ resource' = resource /\ at' = "opening"
        /\ todo' = Opening[backend]
    BY <1>2 DEF OptionsDone, graphicsVars
  <2>3. OpenedSoFar' /\ todo' \in Seq(Calls)
    BY <2>2, OpeningCalls DEF OpenedSoFar, AskedInv
  <2>4. QED
    BY <1>2, <2>1, <2>2, <2>3 DEF AskedInv, Main, OptionsDone
<1>3. CASE Open
  BY <1>3, OpenAsked
<1>4. CASE OpenFails
  BY <1>4 DEF OpenFails, Main, AskedInv, graphicsVars
<1>5. CASE Opened
  <2>1. AllOpen'
    BY <1>5, OpeningCalls
       DEF Opened, Main, AskedInv, OpenedSoFar, AllOpen, graphicsVars
  <2>2. QED
    BY <1>5, <2>1 DEF Opened, Main, AskedInv, AsAsked, graphicsVars, optionVars
<1>6. CASE Fonts
  BY <1>6 DEF Fonts, Main, Close, AskedInv, AsAsked, AllOpen, graphicsVars, optionVars
<1>7. CASE Rom
  BY <1>7 DEF Rom, Main, Close, AskedInv, AsAsked, AllOpen, graphicsVars, optionVars
<1>8. CASE User \/ Tick \/ LoadState \/ GetChar
  BY <1>8 DEF User, Tick, LoadState, GetChar, Main, mainVars, AskedInv, AsAsked, AllOpen,
              OpenedSoFar, graphicsVars, optionVars
<1>9. CASE Leave
  BY <1>9 DEF Leave, Main, Close, AskedInv, graphicsVars
<1>10. CASE CloseNext \/ ClosedAll
  BY <1>10 DEF CloseNext, ClosedAll, Main, AskedInv
<1>11. CASE Exit
  BY <1>11 DEF Exit, Main, AskedInv, graphicsVars
<1>12. CASE Sigint
  BY <1>12 DEF Sigint, Main, AskedInv
<1>13. CASE UNCHANGED vars
  BY <1>13 DEF vars, Main, AskedInv, AsAsked, AllOpen, OpenedSoFar, graphicsVars, optionVars
<1>14. CASE EnterPrompt \/ LeavePrompt
  BY <1>14 DEF EnterPrompt, LeavePrompt, Turn, Main, AskedInv, AsAsked, AllOpen,
               graphicsVars, optionVars
<1>15. QED
  BY <1>1, <1>2, <1>3, <1>4, <1>5, <1>6, <1>7, <1>8, <1>9, <1>10, <1>11, <1>12, <1>13,
     <1>14 DEF Next

\* Whatever the user gives as quirks, in any order with -s, and whatever fails on the
\* way: a program runs with the library open, nothing refused, and its quirks.
THEOREM ProgramsRunAsAsked == Spec => []RunsAsAsked
<1>1. AskedInv => RunsAsAsked
  BY DEF AskedInv, AsAsked, AllOpen, RunsAsAsked
<1>2. QED
  BY <1>1, InitAsked, AskedStep, PTL DEF Spec

--------------------------------------------------------------------------------
\* What the graphics library of each backend can hold.
Own == [sdl    |-> {"video", "window", "renderer", "audio"},
        curses |-> {"curses"},
        x11    |-> {"curses", "display"}]

Lives == {"never", "live", "gone"}
Rates == {"users", "fast", "none"}
Places == {"options", "opening", "undoing", "fonts", "rom", "simulating", "prompt",
           "closing", "returned"}

\* Before it is opened, the calls made so far opened what they name and no more;
\* and once all of them have been made.
Untouched == (\A r \in Resources : resource[r] = "never") /\ ~saved /\ rate = "users"

Made == 1..Len(Opening[backend]) - Len(todo)

HalfOpen ==
  /\ \A r \in Resources :
       resource[r] = IF \E i \in Made : Opening[backend][i] = r THEN "live" ELSE "never"
  /\ saved => \E i \in Made : Opening[backend][i] = "saved"
  /\ rate # "users" => \E i \in Made : Opening[backend][i] = "rate"

AllHeld == \A r \in Resources : resource[r] = IF r \in Own[backend] THEN "live" ELSE "never"

\* While it is being closed: what is still open is among the calls to come, none of
\* them comes twice, and none is handed what is gone.
HalfClosed ==
  /\ \A i, j \in 1..Len(todo) : todo[i] = todo[j] => i = j
  /\ \A i \in 1..Len(todo) :
       /\ todo[i] # "saved"
       /\ todo[i] \in {"window", "renderer", "display"} => resource[todo[i]] = "live"
       /\ todo[i] = "rate" => i = 1 /\ resource["display"] = "live"
  /\ \A r \in Resources \ {"display"} :
       resource[r] = "live" => \E i \in 1..Len(todo) : todo[i] = r
  /\ saved /\ rate # "users" => \E i \in 1..Len(todo) : todo[i] = "rate"

GivenBack == /\ \A r \in Resources \ {"display"} : resource[r] # "live"
             /\ saved => rate = "users"

\* The inductive invariant: what is open, at every place main can be.
HeldInv ==
  /\ backend \in {"sdl", "curses", "x11"}
  /\ at \in Places
  /\ todo \in Seq(Calls)
  /\ resource \in [Resources -> Lives]
  /\ saved \in BOOLEAN /\ rate \in Rates
  /\ \A r \in Resources : resource[r] = "live" => r \in Own[backend]
  /\ saved \/ rate # "users" => backend = "x11"
  /\ status = "running" => hit = "nowhere"
  /\ Main("options") => Untouched
  /\ Main("opening") => HalfOpen
  /\ Main("fonts") \/ Main("rom") \/ Simulating => AllHeld
  /\ Main("undoing") \/ Main("closing") => HalfClosed
  /\ Main("returned") => GivenBack
  /\ NothingLeft
  /\ SigintIsSafe

\* What the graphics library holds, as the closing calls pass it on.
Holding == [resource : [Resources -> Lives], rate : Rates, ok : BOOLEAN]

\* What one call that closes makes of it: it is safe on whatever is not gone, and on
\* the rate while the display is open; it leaves alone what it does not name.
Closes(g, r, h) ==
  /\ ~g.ok => h = g
  /\ g.ok /\ (r = "rate" => g.resource["display"] = "live")
          /\ (r \in {"window", "renderer", "display"} => g.resource[r] # "gone")
       => h.ok
  /\ h.ok => g.ok /\ (r \in Resources => h.resource[r] # "live")
  /\ \A q \in Resources : /\ q # r => h.resource[q] = g.resource[q]
                          /\ h.resource[q] = "live" => g.resource[q] = "live"
                          /\ g.resource[q] = "never" => h.resource[q] = "never"
  /\ r # "rate" => h.rate = g.rate
  /\ r = "rate" /\ h.ok => h.rate = IF saved THEN "users" ELSE "none"

\* A call that closes something closes nothing else.
LEMMA ClosedCall ==
  ASSUME NEW g \in Holding, NEW r \in Resources \cup {"rate"}
  PROVE  Closed(g, r) \in Holding /\ Closes(g, r, Closed(g, r))
<1> USE DEF Closes
<1> "rate" \notin Resources
  BY DEF Resources
<1>1. CASE ~g.ok
  BY <1>1 DEF Closed, Holding
<1>2. CASE g.ok /\ r = "rate"
  BY <1>2 DEF Closed, Holding, Rates, Resources
<1>3. CASE g.ok /\ r \in {"window", "renderer", "display"} /\ g.resource[r] = "gone"
  BY <1>3 DEF Closed, Holding
<1>4. CASE g.ok /\ r # "rate" /\ ~(r \in {"window", "renderer", "display"} /\ g.resource[r] = "gone")
  <2>1. Closed(g, r) = IF g.resource[r] = "live" THEN [g EXCEPT !.resource[r] = "gone"] ELSE g
    BY <1>4 DEF Closed
  <2> QED
    BY <1>4, <2>1 DEF Holding, Lives
<1> QED
  BY <1>1, <1>2, <1>3, <1>4

\* The calls that close a backend, and those that undo its opening, are sequences of
\* calls that name no other backend's resources.
LEMMA ClosingCalls ==
  ASSUME backend \in {"sdl", "curses", "x11"}
  PROVE  Closing[backend] \in Seq(Calls)
<1>1. /\ <<"renderer", "window", "audio", "video">> \in Seq(Calls)
      /\ <<"curses">> \in Seq(Calls)
      /\ <<"rate", "display", "curses">> \in Seq(Calls)
  BY DEF Calls, Resources
<1>2. /\ Closing["sdl"] = <<"renderer", "window", "audio", "video">>
      /\ Closing["curses"] = <<"curses">>
      /\ Closing["x11"] = <<"rate", "display", "curses">>
  BY DEF Closing
<1> QED
  BY <1>1, <1>2

\* c8_deinit_graphics begins with all of the backend open.
LEMMA CloseBegins ==
  ASSUME HeldInv, AllHeld, Close, UNCHANGED graphicsVars
  PROVE  todo' \in Seq(Calls) /\ HalfClosed'
<1>1. todo' = Closing[backend] /\ resource' = resource /\ saved' = saved /\ rate' = rate
  BY DEF Close, graphicsVars
<1>2. backend \in {"sdl", "curses", "x11"}
  BY DEF HeldInv
<1>3. todo' \in Seq(Calls)
  BY <1>1, <1>2, ClosingCalls
<1>4. CASE backend = "sdl"
  <2>1. todo' = <<"renderer", "window", "audio", "video">>
    BY <1>1, <1>4 DEF Closing
  <2>2. \A r \in Resources : resource[r] = IF r \in Own["sdl"] THEN "live" ELSE "never"
    BY <1>4 DEF AllHeld
  <2>3. saved = FALSE /\ rate = "users"
    BY <1>4 DEF HeldInv
  <2>4. /\ Len(todo') = 4 /\ todo'[1] = "renderer" /\ todo'[2] = "window"
        /\ todo'[3] = "audio" /\ todo'[4] = "video"
    BY <2>1
  <2> QED
    BY <1>1, <1>3, <2>2, <2>3, <2>4 DEF HalfClosed, Resources, Own
<1>5. CASE backend = "curses"
  <2>1. todo' = <<"curses">>
    BY <1>1, <1>5 DEF Closing
  <2>2. \A r \in Resources : resource[r] = IF r \in Own["curses"] THEN "live" ELSE "never"
    BY <1>5 DEF AllHeld
  <2>3. saved = FALSE /\ rate = "users"
    BY <1>5 DEF HeldInv
  <2>4. Len(todo') = 1 /\ todo'[1] = "curses"
    BY <2>1
  <2> QED
    BY <1>1, <1>3, <2>2, <2>3, <2>4 DEF HalfClosed, Resources, Own
<1>6. CASE backend = "x11"
  <2>1. todo' = <<"rate", "display", "curses">>
    BY <1>1, <1>6 DEF Closing
  <2>2. \A r \in Resources : resource[r] = IF r \in Own["x11"] THEN "live" ELSE "never"
    BY <1>6 DEF AllHeld
  <2>4. /\ Len(todo') = 3 /\ todo'[1] = "rate" /\ todo'[2] = "display"
        /\ todo'[3] = "curses"
    BY <2>1
  <2> QED
    BY <1>1, <1>3, <2>2, <2>4 DEF HalfClosed, Resources, Own
<1> QED
  BY <1>2, <1>4, <1>5, <1>6

\* One more call that closes something: it does not meet anything that is gone.
LEMMA CloseNextHeld ==
  ASSUME HeldInv, CloseNext
  PROVE  HeldInv'
<1> DEFINE r == Head(todo)
           h == Closed(Held, r)
<1>1. /\ HalfClosed /\ status = "running" /\ todo # <<>> /\ at \in {"undoing", "closing"}
      /\ resource' = h.resource /\ rate' = h.rate
      /\ status' = IF h.ok THEN "running" ELSE "undefined"
      /\ todo' = Tail(todo) /\ UNCHANGED <<backend, at, saved, hit>>
  BY DEF CloseNext, HeldInv, Main
<1>2. /\ todo \in Seq(Calls) /\ Len(todo) \in Nat \ {0} /\ r = todo[1]
      /\ todo' \in Seq(Calls) /\ Len(todo') = Len(todo) - 1
      /\ \A i \in 1..Len(todo') : todo'[i] = todo[i + 1] /\ i + 1 \in 1..Len(todo)
      /\ \A i \in 2..Len(todo) : todo[i] = todo'[i - 1] /\ i - 1 \in 1..Len(todo')
      /\ 1 \in 1..Len(todo)
  BY <1>1 DEF HeldInv
<1>3. r \in Resources \cup {"rate"}
  BY <1>1, <1>2 DEF HalfClosed, Calls
<1>4. Held \in Holding /\ Held.ok /\ Held.resource = resource /\ Held.rate = rate
  BY DEF HeldInv, Held, Holding
<1> HIDE DEF r, h
<1>5. /\ h.ok
      /\ r \in Resources => h.resource[r] # "live"
      /\ \A q \in Resources : q # r => h.resource[q] = resource[q]
      /\ r # "rate" => h.rate = rate
      /\ r = "rate" => h.rate = IF saved THEN "users" ELSE "none"
      /\ h.resource \in [Resources -> Lives] /\ h.rate \in Rates
  <2>1. r = "rate" => resource["display"] = "live"
    BY <1>1, <1>2 DEF HalfClosed
  <2>2. r \in {"window", "renderer", "display"} => resource[r] # "gone"
    BY <1>1, <1>2 DEF HalfClosed
  <2>3. h \in Holding /\ Closes(Held, r, h)
    BY <1>3, <1>4, ClosedCall DEF h
  <2> QED
    BY <1>3, <1>4, <2>1, <2>2, <2>3 DEF Closes, Holding
<1>6. \A q \in Resources : resource'[q] = "live" => resource[q] = "live" /\ q # r
  BY <1>1, <1>5
<1>7. HalfClosed'
  <2>1. \A i, j \in 1..Len(todo') : todo'[i] = todo'[j] => i = j
    <3> SUFFICES ASSUME NEW i \in 1..Len(todo'), NEW j \in 1..Len(todo'), todo'[i] = todo'[j]
                 PROVE  i = j
      OBVIOUS
    <3>1. todo[i + 1] = todo[j + 1] /\ i + 1 \in 1..Len(todo) /\ j + 1 \in 1..Len(todo)
      BY <1>2
    <3>2. i + 1 = j + 1
      BY <1>1, <3>1 DEF HalfClosed
    <3> QED
      BY <3>2
  <2>2. ASSUME NEW i \in 1..Len(todo')
        PROVE  /\ todo'[i] # "saved" /\ todo'[i] # "rate"
               /\ todo'[i] \in {"window", "renderer", "display"} => resource'[todo'[i]] = "live"
    <3>1. todo'[i] = todo[i + 1] /\ i + 1 \in 1..Len(todo) /\ i + 1 # 1
      BY <1>2
    <3>2. todo[i + 1] # r
      BY <1>1, <1>2, <3>1 DEF HalfClosed
    <3>3. /\ todo[i + 1] # "saved" /\ todo[i + 1] # "rate"
          /\ todo[i + 1] \in {"window", "renderer", "display"} => resource[todo[i + 1]] = "live"
      BY <1>1, <3>1 DEF HalfClosed
    <3> QED
      BY <1>1, <1>5, <3>1, <3>2, <3>3 DEF Resources
  <2>3. ASSUME NEW q \in Resources \ {"display"}, resource'[q] = "live"
        PROVE  \E i \in 1..Len(todo') : todo'[i] = q
    <3>1. PICK i \in 1..Len(todo) : todo[i] = q
      BY <1>1, <1>6, <2>3 DEF HalfClosed
    <3>2. i \in 2..Len(todo)
      BY <1>2, <1>6, <2>3, <3>1
    <3> QED
      BY <1>2, <3>1, <3>2
  <2>4. ASSUME saved', rate' # "users" PROVE \E i \in 1..Len(todo') : todo'[i] = "rate"
    <3>1. r # "rate" /\ rate = rate'
      BY <1>1, <1>5, <2>4
    <3>2. PICK i \in 1..Len(todo) : todo[i] = "rate"
      BY <1>1, <2>4, <3>1 DEF HalfClosed
    <3>3. i \in 2..Len(todo)
      BY <1>2, <3>1, <3>2
    <3> QED
      BY <1>2, <3>2, <3>3
  <2> QED
    BY <2>1, <2>2, <2>3, <2>4 DEF HalfClosed
<1>8. \A q \in Resources : resource'[q] = "live" => q \in Own[backend']
  BY <1>1, <1>6 DEF HeldInv
<1>9. saved' \/ rate' # "users" => backend' = "x11"
  <2>1. r = "rate" => backend = "x11"
    <3>1. r = "rate" => resource["display"] = "live"
      BY <1>1, <1>2 DEF HalfClosed
    <3>2. r = "rate" => "display" \in Own[backend]
      BY <3>1 DEF HeldInv, Resources
    <3> QED
      BY <3>2 DEF HeldInv, Own
  <2> QED
    BY <1>1, <1>5, <2>1 DEF HeldInv
<1> QED
  BY <1>1, <1>2, <1>5, <1>7, <1>8, <1>9 DEF HeldInv, Main, Simulating, NothingLeft, SigintIsSafe

\* What the calls that open a backend name is that backend's.
LEMMA OpeningNames ==
  ASSUME NEW b \in {"sdl", "curses", "x11"}, NEW i \in 1..Len(Opening[b])
  PROVE  /\ Opening[b][i] \in Resources => Opening[b][i] \in Own[b]
         /\ Opening[b][i] \in {"saved", "rate"} => b = "x11"
<1>1. CASE b = "sdl"
  <2>1. Opening[b] = <<"video", "window", "renderer", "audio">>
    BY <1>1 DEF Opening
  <2>2. Own[b] = {"video", "window", "renderer", "audio"}
    BY <1>1 DEF Own
  <2>3. i \in 1..4
    BY <2>1
  <2> QED
    BY <2>1, <2>2, <2>3
<1>2. CASE b = "curses"
  <2>1. Opening[b] = <<"curses">> /\ Own[b] = {"curses"}
    BY <1>2 DEF Opening, Own
  <2>2. i = 1
    BY <2>1
  <2> QED
    BY <2>1, <2>2
<1>3. CASE b = "x11"
  <2>1. Opening[b] = <<"curses", "display", "saved", "rate">>
    BY <1>3 DEF Opening
  <2>2. Own[b] = {"curses", "display"}
    BY <1>3 DEF Own
  <2>3. i \in 1..4
    BY <2>1
  <2> QED
    BY <1>3, <2>1, <2>2, <2>3 DEF Resources
<1> QED
  BY <1>1, <1>2, <1>3

\* After all its calls a backend holds what is its own, and nothing else.
LEMMA AllOfThem ==
  ASSUME NEW b \in {"sdl", "curses", "x11"}, NEW q \in Resources
  PROVE  (\E i \in 1..Len(Opening[b]) : Opening[b][i] = q) <=> q \in Own[b]
<1>1. CASE b = "sdl"
  <2>1. Opening[b] = <<"video", "window", "renderer", "audio">>
    BY <1>1 DEF Opening
  <2>2. Own[b] = {"video", "window", "renderer", "audio"}
    BY <1>1 DEF Own
  <2> QED
    BY <2>1, <2>2
<1>2. CASE b = "curses"
  <2>1. Opening[b] = <<"curses">> /\ Own[b] = {"curses"}
    BY <1>2 DEF Opening, Own
  <2> QED
    BY <2>1
<1>3. CASE b = "x11"
  <2>1. Opening[b] = <<"curses", "display", "saved", "rate">>
    BY <1>3 DEF Opening
  <2>2. Own[b] = {"curses", "display"}
    BY <1>3 DEF Own
  <2> QED
    BY <2>1, <2>2 DEF Resources
<1> QED
  BY <1>1, <1>2, <1>3

\* A call that opens something, or reads or sets the rate.
LEMMA OpenHeld ==
  ASSUME HeldInv, AskedInv, Open
  PROVE  HeldInv'
<1> DEFINE calls == Opening[backend]
           n     == Len(calls) - Len(todo)
           r     == Head(todo)
<1>1. /\ HalfOpen /\ OpenedSoFar /\ status = "running" /\ at = "opening" /\ todo # <<>>
      /\ todo' = Tail(todo) /\ todo \in Seq(Calls) /\ hit = "nowhere"
      /\ UNCHANGED <<backend, at, status, hit>>
  BY DEF Open, HeldInv, AskedInv, Main
<1>2. calls \in Seq(Calls) /\ Len(calls) \in Nat /\ DOMAIN calls = 1..Len(calls)
  BY OpeningCalls DEF HeldInv
<1>3. /\ Len(todo) \in Nat \ {0} /\ r = todo[1] /\ r \in Calls
      /\ todo' \in Seq(Calls) /\ Len(todo') = Len(todo) - 1
  BY <1>1
<1>4. n \in Nat /\ r = calls[n + 1] /\ n + 1 \in 1..Len(calls)
  BY <1>1, <1>2, <1>3 DEF OpenedSoFar
<1>5. Made = 1..n /\ Made' = 1..(n + 1)
  BY <1>1, <1>2, <1>3 DEF Made
<1> HIDE DEF r, n, calls
<1>6. \/ /\ r \in Resources /\ resource' = [resource EXCEPT ![r] = "live"]
         /\ UNCHANGED <<saved, rate>>
      \/ r = "saved" /\ saved' \in BOOLEAN /\ UNCHANGED <<resource, rate>>
      \/ r = "rate" /\ rate' = "fast" /\ UNCHANGED <<resource, saved>>
  BY DEF Open, r
<1> DEFINE Was(q) == \E i \in 1..n : calls[i] = q
           Is(q)  == \E i \in 1..(n + 1) : calls[i] = q
<1>7. \A q : Is(q) <=> (q = r \/ Was(q))
  BY <1>4
<1>8. "saved" \notin Resources /\ "rate" \notin Resources
  BY DEF Resources
<1>9. HalfOpen'
  <2>1. /\ \A q \in Resources : resource[q] = IF Was(q) THEN "live" ELSE "never"
        /\ saved => Was("saved")
        /\ rate # "users" => Was("rate")
    BY <1>1, <1>5 DEF HalfOpen, calls
  <2>2. /\ \A q \in Resources : resource'[q] = IF Is(q) THEN "live" ELSE "never"
        /\ saved' => Is("saved")
        /\ rate' # "users" => Is("rate")
    <3> HIDE DEF Was, Is
    <3>1. resource \in [Resources -> Lives]
      BY DEF HeldInv
    <3>2. \A q \in Resources : resource'[q] = IF q = r THEN "live" ELSE resource[q]
      BY <1>6, <1>8, <3>1
    <3>3. \A q \in Resources : resource'[q] = IF Is(q) THEN "live" ELSE "never"
      BY <1>7, <2>1, <3>2
    <3>4. saved' => Is("saved")
      BY <1>6, <1>7, <2>1
    <3>5. rate' # "users" => Is("rate")
      BY <1>6, <1>7, <2>1
    <3> QED
      BY <3>3, <3>4, <3>5
  <2> QED
    BY <1>1, <1>5, <2>2 DEF HalfOpen, calls
<1>10. /\ r \in Resources => r \in Own[backend]
       /\ r \in {"saved", "rate"} => backend = "x11"
  <2>1. \E i \in 1..Len(Opening[backend]) : Opening[backend][i] = r
    BY <1>4 DEF calls
  <2> QED
    BY <2>1, OpeningNames DEF HeldInv
<1>11. /\ resource' \in [Resources -> Lives] /\ saved' \in BOOLEAN /\ rate' \in Rates
       /\ \A q \in Resources : resource'[q] = "live" => q \in Own[backend]
       /\ saved' \/ rate' # "users" => backend = "x11"
  BY <1>6, <1>10 DEF HeldInv, Lives, Rates
<1> QED
  BY <1>1, <1>3, <1>9, <1>11 DEF HeldInv, Main, Simulating, NothingLeft, SigintIsSafe

\* A call that fails is followed by those that close what was open before it.
LEMMA OpenFailsHeld ==
  ASSUME HeldInv, AskedInv, OpenFails
  PROVE  HeldInv'
<1> DEFINE calls == Opening[backend]
           n     == Len(calls) - Len(todo)
           r     == Head(todo)
<1>1. /\ HalfOpen /\ OpenedSoFar /\ status = "running" /\ at = "opening" /\ todo # <<>>
      /\ todo \in Seq(Calls) /\ hit = "nowhere" /\ backend \in {"sdl", "curses", "x11"}
      /\ r \in DOMAIN Undoing /\ at' = "undoing" /\ todo' = Undoing[r]
      /\ UNCHANGED <<backend, resource, saved, rate, status, hit>>
  BY DEF OpenFails, HeldInv, AskedInv, Main, graphicsVars
<1>2. calls \in Seq(Calls) /\ Len(calls) \in Nat
  BY <1>1, OpeningCalls
<1>3. Len(todo) \in Nat \ {0} /\ r = todo[1]
  BY <1>1
<1>4. n \in Nat /\ r = calls[n + 1] /\ n + 1 \in 1..Len(calls)
  BY <1>1, <1>2, <1>3 DEF OpenedSoFar
<1>5. /\ \A q \in Resources :
           resource[q] = IF \E i \in 1..n : calls[i] = q THEN "live" ELSE "never"
      /\ rate # "users" => \E i \in 1..n : calls[i] = "rate"
  BY <1>1 DEF HalfOpen, Made
<1> HIDE DEF n, r
<1>6. HalfClosed' /\ todo' \in Seq(Calls)
  <2>1. CASE backend = "sdl"
    <3>1. /\ calls = <<"video", "window", "renderer", "audio">>
          /\ saved = FALSE /\ rate = "users"
      BY <2>1 DEF Opening, HeldInv
    <3>2. n \in 0..3
      BY <1>4, <3>1
    <3>3. CASE n = 0
      <4>1. r = "video" /\ todo' = <<>>
        BY <1>1, <1>4, <3>1, <3>3 DEF Undoing
      <4>2. \A q \in Resources : resource[q] # "live"
        BY <1>5, <3>1, <3>3
      <4>3. /\ Len(todo') = 0
        BY <4>1
      <4>4. todo' \in Seq(Calls)
        BY <4>1 DEF Calls, Resources
      <4> QED
        BY <1>1, <3>1, <4>2, <4>3, <4>4 DEF HalfClosed, Resources
    <3>4. CASE n = 1
      <4>1. r = "window" /\ todo' = <<"video">>
        BY <1>1, <1>4, <3>1, <3>4 DEF Undoing
      <4>2. \A q \in Resources : resource[q] = IF q = "video" THEN "live" ELSE "never"
        BY <1>5, <3>1, <3>4
      <4>3. /\ Len(todo') = 1
            /\ todo'[1] = "video"
        BY <4>1
      <4>4. todo' \in Seq(Calls)
        BY <4>1 DEF Calls, Resources
      <4> QED
        BY <1>1, <3>1, <4>2, <4>3, <4>4 DEF HalfClosed, Resources
    <3>5. CASE n = 2
      <4>1. r = "renderer" /\ todo' = <<"window", "video">>
        BY <1>1, <1>4, <3>1, <3>5 DEF Undoing
      <4>2. \A q \in Resources :
              resource[q] = IF q \in {"video", "window"} THEN "live" ELSE "never"
        BY <1>5, <3>1, <3>5
      <4>3. /\ Len(todo') = 2
            /\ todo'[1] = "window" /\ todo'[2] = "video"
        BY <4>1
      <4>4. todo' \in Seq(Calls)
        BY <4>1 DEF Calls, Resources
      <4> QED
        BY <1>1, <3>1, <4>2, <4>3, <4>4 DEF HalfClosed, Resources
    <3>6. CASE n = 3
      <4>1. r = "audio" /\ todo' = <<"renderer", "window", "video">>
        BY <1>1, <1>4, <3>1, <3>6 DEF Undoing
      <4>2. \A q \in Resources :
              resource[q] = IF q \in {"video", "window", "renderer"} THEN "live" ELSE "never"
        BY <1>5, <3>1, <3>6
      <4>3. /\ Len(todo') = 3
            /\ todo'[1] = "renderer" /\ todo'[2] = "window" /\ todo'[3] = "video"
        BY <4>1
      <4>4. todo' \in Seq(Calls)
        BY <4>1 DEF Calls, Resources
      <4> QED
        BY <1>1, <3>1, <4>2, <4>3, <4>4 DEF HalfClosed, Resources
    <3> QED
      BY <3>2, <3>3, <3>4, <3>5, <3>6
  <2>2. CASE backend = "curses"
    <3>1. calls = <<"curses">>
      BY <2>2 DEF Opening
    <3>2. r = "curses"
      BY <1>4, <3>1
    <3> QED
      BY <1>1, <3>2 DEF Undoing
  <2>3. CASE backend = "x11"
    <3>1. calls = <<"curses", "display", "saved", "rate">>
      BY <2>3 DEF Opening
    <3>2. n = 1 \/ n = 3
      BY <1>1, <1>4, <3>1 DEF Undoing
    <3>3. r \in {"display", "rate"} /\ todo' = <<"curses">>
      BY <1>1, <1>4, <3>1, <3>2 DEF Undoing
    <3>4. rate = "users" /\ \A q \in Resources : resource[q] = "live" => q \in {"curses", "display"}
      BY <1>5, <3>1, <3>2 DEF Resources
    <3> QED
      BY <1>1, <3>3, <3>4 DEF HalfClosed, Calls, Resources
  <2> QED
    BY <1>1, <2>1, <2>2, <2>3
<1> QED
  BY <1>1, <1>6 DEF HeldInv, Places, Main, Simulating, NothingLeft, SigintIsSafe

\* c8_deinit_graphics to the end, by SIGINT: if it comes through, nothing is open and
\* the rate is given back; and it does, unless something is gone already or X11's
\* display was never there.
LEMMA ClosedOutHolds ==
  ASSUME HeldInv
  PROVE  /\ ClosedOut \in Holding
         /\ \A q \in Resources : ClosedOut.resource[q] = "live" => ~ClosedOut.ok
         /\ ClosedOut.ok /\ saved => ClosedOut.rate = "users"
         /\ ClosedOut.rate # "users" => backend = "x11"
         /\ \A q \in Resources : ClosedOut.resource[q] = "live" => resource[q] = "live"
         /\ resource["display"] = "never" => ClosedOut.resource["display"] = "never"
         /\ /\ \A q \in {"window", "renderer", "display"} : resource[q] # "gone"
            /\ backend = "x11" => resource["display"] = "live"
            => ClosedOut.ok
<1> DEFINE g1 == ClosedBy(Held, 1)
           g2 == ClosedBy(g1, 2)
           g3 == ClosedBy(g2, 3)
           g4 == ClosedBy(g3, 4)
           calls == Closing[backend]
<1>1. Held \in Holding /\ Held.ok /\ Held.resource = resource /\ Held.rate = rate
  BY DEF HeldInv, Held, Holding
<1>2. ClosedOut = g4
  BY DEF ClosedOut
<1> HIDE DEF g4
<1>3. CASE backend = "sdl"
  <2>1. calls = <<"renderer", "window", "audio", "video">>
    BY <1>3 DEF Closing
  <2>2. /\ g1 = Closed(Held, "renderer") /\ g2 = Closed(g1, "window")
        /\ g3 = Closed(g2, "audio") /\ g4 = Closed(g3, "video")
    BY <2>1 DEF ClosedBy, g4
  <2> HIDE DEF g1, g2, g3
  <2>3. {"renderer", "window", "audio", "video", "display"} \subseteq Resources
    BY DEF Resources
  <2>4. /\ g1 \in Holding /\ Closes(Held, "renderer", g1)
        /\ g2 \in Holding /\ Closes(g1, "window", g2)
        /\ g3 \in Holding /\ Closes(g2, "audio", g3)
        /\ g4 \in Holding /\ Closes(g3, "video", g4)
    BY <1>1, <2>2, <2>3, ClosedCall
  <2>5. /\ g4.ok => g1.ok /\ g2.ok /\ g3.ok
        /\ g1.rate = rate /\ g2.rate = rate /\ g3.rate = rate /\ g4.rate = rate
    BY <1>1, <2>3, <2>4 DEF Closes
  <2>6. \A q \in Resources :
          /\ g4.resource[q] = "live" => g3.resource[q] = "live"
          /\ g3.resource[q] = "live" => g2.resource[q] = "live"
          /\ g2.resource[q] = "live" => g1.resource[q] = "live"
          /\ g1.resource[q] = "live" => resource[q] = "live"
    BY <1>1, <2>3, <2>4 DEF Closes
  <2>7. g4.ok => /\ g1.resource["renderer"] # "live" /\ g2.resource["window"] # "live"
                 /\ g3.resource["audio"] # "live" /\ g4.resource["video"] # "live"
    BY <2>3, <2>4, <2>5 DEF Closes
  <2>8. \A q \in Resources : g4.resource[q] = "live" => ~g4.ok
    BY <1>3, <2>6, <2>7 DEF HeldInv, Own
  <2>9. /\ g1.resource["window"] = resource["window"]
        /\ resource["display"] = "never" => g4.resource["display"] = "never"
    BY <1>1, <2>3, <2>4 DEF Closes
  <2>10. (\A q \in {"window", "renderer", "display"} : resource[q] # "gone") => g4.ok
    <3> SUFFICES ASSUME \A q \in {"window", "renderer", "display"} : resource[q] # "gone"
                 PROVE  g4.ok
      OBVIOUS
    <3>1. g1.ok
      BY <1>1, <2>4 DEF Closes
    <3>2. g2.ok
      BY <2>4, <2>9, <3>1 DEF Closes
    <3>3. g3.ok
      BY <2>4, <3>2 DEF Closes
    <3> QED
      BY <2>4, <3>3 DEF Closes
  <2> QED
    BY <1>2, <1>3, <2>4, <2>5, <2>6, <2>8, <2>9, <2>10 DEF HeldInv
<1>4. CASE backend = "curses"
  <2>1. calls = <<"curses">>
    BY <1>4 DEF Closing
  <2>2. g4 = Closed(Held, "curses")
    BY <2>1 DEF ClosedBy, g4
  <2>3. {"curses", "display"} \subseteq Resources
    BY DEF Resources
  <2>4. /\ g4 \in Holding /\ g4.ok /\ g4.rate = rate /\ g4.resource["curses"] # "live"
        /\ \A q \in Resources : g4.resource[q] = "live" => resource[q] = "live"
        /\ resource["display"] = "never" => g4.resource["display"] = "never"
    BY <1>1, <2>2, <2>3, ClosedCall DEF Closes
  <2>5. \A q \in Resources : g4.resource[q] # "live"
    BY <1>4, <2>4 DEF HeldInv, Own
  <2> QED
    BY <1>2, <1>4, <2>4, <2>5 DEF HeldInv
<1>5. CASE backend = "x11"
  <2>1. calls = <<"rate", "display", "curses">>
    BY <1>5 DEF Closing
  <2>2. /\ g1 = Closed(Held, "rate") /\ g2 = Closed(g1, "display")
        /\ g4 = Closed(g2, "curses")
    BY <2>1 DEF ClosedBy, g4
  <2> HIDE DEF g1, g2
  <2>3. {"curses", "display"} \subseteq Resources /\ "rate" \notin Resources
    BY DEF Resources
  <2>4. /\ g1 \in Holding /\ Closes(Held, "rate", g1)
        /\ g2 \in Holding /\ Closes(g1, "display", g2)
        /\ g4 \in Holding /\ Closes(g2, "curses", g4)
    BY <1>1, <2>2, <2>3, ClosedCall
  <2>5. /\ g4.ok => g1.ok /\ g2.ok
        /\ g4.rate = g1.rate
        /\ g1.ok => g1.rate = IF saved THEN "users" ELSE "none"
    BY <1>1, <2>3, <2>4 DEF Closes
  <2>6. \A q \in Resources :
          /\ g4.resource[q] = "live" => g2.resource[q] = "live"
          /\ g2.resource[q] = "live" => g1.resource[q] = "live"
          /\ g1.resource[q] = "live" => resource[q] = "live"
    BY <1>1, <2>3, <2>4 DEF Closes
  <2>7. g4.ok => g2.resource["display"] # "live" /\ g4.resource["curses"] # "live"
    BY <2>3, <2>4, <2>5 DEF Closes
  <2>8. \A q \in Resources : g4.resource[q] = "live" => ~g4.ok
    BY <1>5, <2>6, <2>7 DEF HeldInv, Own
  <2>9. /\ g1.resource["display"] = resource["display"]
        /\ resource["display"] = "never" => g4.resource["display"] = "never"
    BY <1>1, <2>3, <2>4 DEF Closes
  <2>10. resource["display"] = "live" => g4.ok
    <3> SUFFICES ASSUME resource["display"] = "live" PROVE g4.ok
      OBVIOUS
    <3>1. g1.ok
      BY <1>1, <2>4 DEF Closes
    <3>2. g2.ok
      BY <2>4, <2>9, <3>1 DEF Closes
    <3> QED
      BY <2>4, <3>2 DEF Closes
  <2> QED
    BY <1>2, <1>5, <2>4, <2>5, <2>6, <2>8, <2>9, <2>10
<1> QED
  BY <1>3, <1>4, <1>5 DEF HeldInv

\* The process begins with nothing open.
LEMMA InitHeld == Init => HeldInv
<1> SUFFICES ASSUME Init PROVE HeldInv
  OBVIOUS
<1>1. backend \in {"sdl", "curses", "x11"} /\ todo \in Seq(Calls)
  BY SessionAssumption DEF Init
<1>2. resource \in [Resources -> Lives] /\ Untouched /\ saved \in BOOLEAN /\ rate \in Rates
  BY DEF Init, Lives, Rates, Untouched
<1> QED
  BY <1>1, <1>2 DEF Init, HeldInv, Places, Main, Simulating, NothingLeft, SigintIsSafe, Untouched

\* Nothing is opened or closed, and main goes where the same is asked of what is open.
LEMMA SameHeld ==
  ASSUME HeldInv, status = "running", UNCHANGED <<backend, graphicsVars, hit>>,
         at' \in Places, todo' \in Seq(Calls),
         \/ status' = "running"
         \/ status' = "undefined" /\ at' = "rom"
         \/ status' = "exited" /\ GivenBack,
         status' = "running" /\ at' = "options" => Untouched,
         status' = "running" /\ at' = "opening" => HalfOpen',
         status' = "running" /\ at' \in {"fonts", "rom", "simulating", "prompt"} => AllHeld,
         status' = "running" /\ at' \in {"undoing", "closing"} => HalfClosed',
         status' = "running" /\ at' = "returned" => GivenBack
  PROVE  HeldInv'
  BY DEF HeldInv, Main, Simulating, graphicsVars, Untouched, AllHeld, GivenBack, NothingLeft, SigintIsSafe

\* The handler closes everything and exits.
LEMMA SigintHeld ==
  ASSUME HeldInv, Sigint
  PROVE  HeldInv'
<1> DEFINE g == ClosedOut
<1>1. /\ status = "running" /\ hit = "nowhere" /\ hit' = at
      /\ resource' = g.resource /\ rate' = g.rate
      /\ status' = IF g.ok THEN "exited" ELSE "undefined"
      /\ UNCHANGED <<backend, at, todo, saved>>
  BY DEF Sigint, HeldInv
<1>2. /\ g \in Holding
      /\ \A q \in Resources : g.resource[q] = "live" => ~g.ok
      /\ g.ok /\ saved => g.rate = "users"
      /\ g.rate # "users" => backend = "x11"
      /\ \A q \in Resources : g.resource[q] = "live" => resource[q] = "live"
      /\ resource["display"] = "never" => g.resource["display"] = "never"
      /\ /\ \A q \in {"window", "renderer", "display"} : resource[q] # "gone"
         /\ backend = "x11" => resource["display"] = "live"
         => g.ok
  BY ClosedOutHolds
<1> HIDE DEF g
<1>3. NothingLeft'
  BY <1>1, <1>2 DEF NothingLeft
<1>4. SigintIsSafe'
  <2> SUFFICES ASSUME ~g.ok, at \notin {"undoing", "closing", "returned"}
               PROVE  backend = "x11" /\ g.resource["display"] = "never"
    BY <1>1 DEF SigintIsSafe
  <2>1. \A q \in Resources : resource[q] \in {"never", "live"}
    <3>1. Untouched \/ HalfOpen \/ AllHeld
      BY <1>1 DEF HeldInv, Places, Main, Simulating
    <3> QED
      BY <3>1 DEF Untouched, HalfOpen, AllHeld
  <2> QED
    BY <1>2, <2>1 DEF Resources
<1> QED
  BY <1>1, <1>2, <1>3, <1>4 DEF HeldInv, Holding, Main, Simulating

\* Every step keeps account of what is open.
LEMMA HeldStep == AskedInv /\ HeldInv /\ [Next]_vars => HeldInv'
<1> SUFFICES ASSUME AskedInv, HeldInv, [Next]_vars PROVE HeldInv'
  OBVIOUS
<1>1. CASE QuirksOption \/ SchipOption \/ BadOption
  <2>1. /\ status = "running" /\ Untouched /\ status' = "running"
        /\ at' \in {"options", "returned"}
        /\ UNCHANGED <<backend, todo, graphicsVars, hit>>
    BY <1>1 DEF QuirksOption, SchipOption, BadOption, Option, Main, HeldInv
  <2>2. GivenBack /\ at' \in Places /\ todo' \in Seq(Calls)
    BY <2>1 DEF Untouched, GivenBack, Places, HeldInv
  <2> QED
    BY <2>1, <2>2, SameHeld
<1>2. CASE OptionsDone
  <2>1. /\ status = "running" /\ Untouched /\ status' = "running" /\ at' = "opening"
        /\ todo' = Opening[backend] /\ UNCHANGED <<backend, graphicsVars, hit>>
    BY <1>2 DEF OptionsDone, Main, HeldInv
  <2>2. todo' \in Seq(Calls) /\ Made' = {}
    BY <2>1, OpeningCalls DEF HeldInv, Made
  <2>3. HalfOpen'
    BY <2>1, <2>2 DEF Untouched, HalfOpen, graphicsVars
  <2> QED
    BY <2>1, <2>2, <2>3, SameHeld DEF Places
<1>3. CASE Open
  BY <1>3, OpenHeld
<1>4. CASE OpenFails
  BY <1>4, OpenFailsHeld
<1>5. CASE Opened
  <2>1. /\ status = "running" /\ HalfOpen /\ status' = "running" /\ at' = "fonts"
        /\ todo = <<>> /\ UNCHANGED <<backend, todo, graphicsVars, hit>>
    BY <1>5 DEF Opened, Main, HeldInv
  <2>2. Made = 1..Len(Opening[backend]) /\ backend \in {"sdl", "curses", "x11"}
    BY <2>1, OpeningCalls DEF Made, HeldInv
  <2>3. AllHeld
    BY <2>1, <2>2, AllOfThem DEF HalfOpen, AllHeld
  <2> QED
    BY <2>1, <2>3, SameHeld DEF Places, HeldInv
<1>6. CASE Fonts \/ Rom \/ Leave \/ EnterPrompt \/ LeavePrompt
  <2>1. /\ status = "running" /\ AllHeld /\ UNCHANGED <<backend, graphicsVars, hit>>
        /\ \/ at' \in {"rom", "simulating", "prompt"} /\ status' = "running" /\ todo' = todo
           \/ at' = "rom" /\ status' = "undefined" /\ todo' = todo
           \/ Close /\ status' = "running"
    BY <1>6 DEF Fonts, Rom, Leave, EnterPrompt, LeavePrompt, Turn, Main, Simulating, HeldInv
  <2>2. CASE Close /\ status' = "running"
    <3>1. at' = "closing" /\ todo' \in Seq(Calls) /\ HalfClosed'
      BY <2>1, <2>2, CloseBegins DEF Close
    <3> QED
      BY <2>1, <2>2, <3>1, SameHeld DEF Places
  <2>3. CASE ~Close
    BY <2>1, <2>3, SameHeld DEF Places, HeldInv
  <2> QED
    BY <2>1, <2>2, <2>3, SameHeld DEF Places, HeldInv
<1>7. CASE User \/ Tick \/ LoadState \/ GetChar
  <2>1. /\ status = "running" /\ at \in {"simulating", "prompt"} /\ AllHeld
        /\ UNCHANGED <<backend, at, todo, graphicsVars, hit, status>>
    BY <1>7 DEF User, Tick, LoadState, GetChar, Main, Simulating, mainVars, HeldInv
  <2> QED
    BY <2>1, SameHeld DEF HeldInv
<1>8. CASE CloseNext
  BY <1>8, CloseNextHeld
<1>9. CASE ClosedAll
  <2>1. /\ status = "running" /\ HalfClosed /\ todo = <<>> /\ status' = "running"
        /\ at' = "returned" /\ UNCHANGED <<backend, todo, graphicsVars, hit>>
    BY <1>9 DEF ClosedAll, Main, HeldInv
  <2>2. GivenBack
    BY <2>1 DEF HalfClosed, GivenBack
  <2> QED
    BY <2>1, <2>2, SameHeld DEF Places, HeldInv
<1>10. CASE Exit
  <2>1. /\ status = "running" /\ GivenBack /\ status' = "exited"
        /\ UNCHANGED <<backend, at, todo, graphicsVars, hit>>
    BY <1>10 DEF Exit, Main, HeldInv
  <2> QED
    BY <2>1, SameHeld DEF HeldInv
<1>11. CASE Sigint
  BY <1>11, SigintHeld
<1>12. CASE UNCHANGED vars
  BY <1>12 DEF vars, graphicsVars, HeldInv, Main, Simulating, Untouched, HalfOpen, Made, AllHeld,
               HalfClosed, GivenBack, NothingLeft, SigintIsSafe
<1> QED
  BY <1>1, <1>2, <1>3, <1>4, <1>5, <1>6, <1>7, <1>8, <1>9, <1>10, <1>11, <1>12 DEF Next

\* However the process ends, whatever could not be opened and wherever SIGINT came, the
\* terminal, the windows and the desktop's repeat rate are given back.
THEOREM NothingStaysHeld == Spec => []NothingLeft
<1>1. HeldInv => NothingLeft
  BY DEF HeldInv
<1> QED
  BY <1>1, InitAsked, InitHeld, AskedStep, HeldStep, PTL DEF Spec

\* SIGINT is safe wherever the library is neither being closed nor, with X11, short of
\* its display: no call of c8_deinit_graphics meets what is gone.
THEOREM SigintStaysSafe == Spec => []SigintIsSafe
<1>1. HeldInv => SigintIsSafe
  BY DEF HeldInv
<1> QED
  BY <1>1, InitAsked, InitHeld, AskedStep, HeldStep, PTL DEF Spec

--------------------------------------------------------------------------------
\* Whatever set of keys is asked, one of them is the last.
LEMMA LastKey ==
  ASSUME NEW S \in SUBSET (0..17), S # {}
  PROVE  Ncurses!Max(S) \in S
<1>1. \E x \in S : \A y \in S : x >= y
  <2> SUFFICES ASSUME \A x \in S : \E y \in S : y > x PROVE FALSE
    OBVIOUS
  <2>1. \A n \in 0..17 : S \subseteq 0..n => S \subseteq 0..n - 1
    OBVIOUS
  <2>2. S \subseteq 0..12
    BY <2>1
  <2>3. S \subseteq 0..6
    BY <2>1, <2>2
  <2>4. S \subseteq 0..-1
    BY <2>1, <2>3
  <2>5. \A x \in S : x \notin 0..-1
    OBVIOUS
  <2>6. S = {}
    BY <2>4, <2>5
  <2> QED
    BY <2>6
<1> QED
  BY <1>1 DEF Ncurses!Max

\* The types of the ncurses keyboard's state.
CursesTyped ==
  backend # "sdl" =>
    /\ queue \in Seq(Ncurses!Mapped \cup {Ncurses!Unmapped})
    /\ key \in [Ncurses!Mapped -> {0, 1}]
    /\ current \in [Ncurses!Mapped -> {0, 1}]
    /\ polling \in BOOLEAN
    /\ answer \in Ncurses!Mapped \cup {-1}

\* A call that ends: what it found is what stands, and what it reports stood before.
LEMMA FinishReports ==
  ASSUME Ncurses!Finish
  PROVE  /\ answer' \in Ncurses!Mapped \cup {-1}
         /\ answer' \in Ncurses!Mapped => current[answer'] = 0 /\ key[answer'] = 1
         /\ polling' = FALSE /\ key' = current /\ current' = current
<1> DEFINE fallen == {k \in Ncurses!Mapped : current[k] = 0 /\ key[k] = 1}
<1>1. /\ polling' = FALSE /\ key' = current /\ current' = current
      /\ answer' = IF fallen = {} THEN -1 ELSE Ncurses!Max(fallen)
  BY DEF Ncurses!Finish
<1>2. Ncurses!Mapped \subseteq 0..17 /\ -1 \notin Ncurses!Mapped
  BY SessionAssumption DEF Ncurses!Mapped
<1>3. fallen # {} => Ncurses!Max(fallen) \in fallen
  BY <1>2, LastKey
<1> HIDE DEF fallen
<1>4. answer' = -1 \/ answer' \in fallen
  BY <1>1, <1>3
<1> QED
  BY <1>1, <1>2, <1>4 DEF fallen

\* A step of KeyboardNcurses keeps the types.
LEMMA NcursesTyped ==
  ASSUME CursesTyped, backend # "sdl", Ncurses!Next, UNCHANGED backend
  PROVE  CursesTyped'
<1> USE DEF CursesTyped
<1>1. CASE Ncurses!User
  <2>1. PICK k \in Ncurses!Mapped \cup {Ncurses!Unmapped} : Ncurses!Type(k)
    BY <1>1 DEF Ncurses!User
  <2> QED
    BY <2>1 DEF Ncurses!Type
<1>2. CASE Ncurses!Call
  BY <1>2 DEF Ncurses!Call, Ncurses!NoKeys
<1>3. CASE Ncurses!GetKey
  <2>1. /\ queue \in Seq(Ncurses!Mapped \cup {Ncurses!Unmapped}) /\ queue # <<>>
        /\ queue' = Tail(queue)
    BY <1>3 DEF Ncurses!GetKey
  <2>2. queue' \in Seq(Ncurses!Mapped \cup {Ncurses!Unmapped})
    BY <2>1
  <2>3. CASE Ncurses!Finish
    BY <2>2, <2>3, FinishReports
  <2>4. CASE ~Ncurses!Finish
    BY <1>3, <2>2, <2>4 DEF Ncurses!GetKey
  <2> QED
    BY <2>3, <2>4
<1>4. CASE Ncurses!NoMore
  BY <1>4, FinishReports DEF Ncurses!NoMore
<1>5. CASE Ncurses!GetChar
  <2>1. /\ queue \in Seq(Ncurses!Mapped \cup {Ncurses!Unmapped}) /\ queue # <<>>
        /\ queue' = Tail(queue) /\ UNCHANGED <<key, current, polling, answer>>
    BY <1>5 DEF Ncurses!GetChar
  <2>2. queue' \in Seq(Ncurses!Mapped \cup {Ncurses!Unmapped})
    BY <2>1
  <2> QED
    BY <2>1, <2>2
<1>6. CASE Ncurses!LoadState
  BY <1>6 DEF Ncurses!LoadState, Ncurses!Load
<1> QED
  BY <1>1, <1>2, <1>3, <1>4, <1>5, <1>6 DEF Ncurses!Next, Ncurses!Tick

\* Before the library is open the terminal is as KeyboardNcurses begins.
LEMMA NoCursesYet == Ncurses!Init => CursesTyped
<1> SUFFICES ASSUME Ncurses!Init PROVE CursesTyped
  OBVIOUS
<1>1. /\ queue = <<>> /\ key = Ncurses!NoKeys /\ current = Ncurses!NoKeys
      /\ polling = FALSE /\ answer = -1
  BY DEF Ncurses!Init
<1>2. Ncurses!NoKeys \in [Ncurses!Mapped -> {0, 1}]
  BY DEF Ncurses!NoKeys
<1>3. <<>> \in Seq(Ncurses!Mapped \cup {Ncurses!Unmapped})
  OBVIOUS
<1> QED
  BY <1>1, <1>2, <1>3 DEF CursesTyped

\* The keyboard that is not read yet, and the one that is forgotten.
LEMMA InitCurses == Init => CursesTyped
  BY NoCursesYet DEF Init, NoUser

\* And so it is when main has forgotten it.
LEMMA ForgottenCurses == Forgotten => CursesTyped'
<1>1. Forgotten => Ncurses!Init'
  BY DEF Forgotten, Ncurses!Init, Ncurses!NoKeys
<1>2. Ncurses!Init' => CursesTyped'
  BY NoCursesYet, PTL
<1> QED
  BY <1>1, <1>2

\* Every step of Session keeps the types of the terminal.
LEMMA CursesStep == CursesTyped /\ [Next]_vars => CursesTyped'
<1> SUFFICES ASSUME CursesTyped, [Next]_vars PROVE CursesTyped'
  OBVIOUS
<1>1. CASE User \/ Tick \/ LoadState \/ GetChar
  <2>1. backend' = backend
    BY <1>1 DEF User, Tick, LoadState, GetChar, mainVars
  <2>2. backend # "sdl" => Ncurses!Next
    BY <1>1 DEF User, Tick, LoadState, GetChar, Ncurses!Next
  <2> QED
    BY <2>1, <2>2, NcursesTyped DEF CursesTyped
<1>2. CASE Leave \/ Sigint
  BY <1>2, ForgottenCurses DEF Leave, Sigint
<1>3. CASE UNCHANGED <<backend, keyboardVars>>
  BY <1>3 DEF CursesTyped, keyboardVars, sdlVars, cursesVars
<1>4. CASE QuirksOption \/ SchipOption \/ BadOption \/ OptionsDone
  BY <1>3, <1>4 DEF QuirksOption, SchipOption, BadOption, OptionsDone, Option
<1>5. CASE Open \/ OpenFails \/ Opened \/ Fonts \/ Rom
  BY <1>3, <1>5 DEF Open, OpenFails, Opened, Fonts, Rom
<1>6. CASE CloseNext \/ ClosedAll \/ Exit
  BY <1>3, <1>6 DEF CloseNext, ClosedAll, Exit
<1>7. CASE UNCHANGED vars
  BY <1>3, <1>7 DEF vars
<1>8. CASE EnterPrompt \/ LeavePrompt
  BY <1>3, <1>8 DEF EnterPrompt, LeavePrompt, Turn
<1> QED
  BY <1>1, <1>2, <1>4, <1>5, <1>6, <1>7, <1>8 DEF Next

--------------------------------------------------------------------------------
\* What the ncurses c8_tick may still report of key k, counted.
LEMMA CursesPending ==
  ASSUME CursesTyped, backend # "sdl", NEW k \in Ncurses!Mapped
  PROVE  /\ Ncurses!Pending(k) = SdlP!Count(queue, k) + key[k]
                                   + (IF polling THEN current[k] ELSE 0)
         /\ SdlP!Count(queue, k) \in Nat
         /\ key[k] \in {0, 1} /\ current[k] \in {0, 1}
<1>1. Ncurses!Pending(k) = SdlP!Count(queue, k) + key[k]
                             + (IF polling THEN current[k] ELSE 0)
  BY DEF Ncurses!Pending, SdlP!Count, SdlP!Occurrences,
         Ncurses!Cardinality, SdlP!Cardinality
<1>2. SdlP!Count(queue, k) \in Nat
  BY SdlP!CountIsNat DEF CursesTyped
<1> QED
  BY <1>1, <1>2 DEF CursesTyped

\* A character found takes its stroke over to current[], from there it goes to key[],
\* and a report takes it from there; what is found twice is dropped.  The prompt takes
\* characters away, and its load may put a key down.
LEMMA CursesUse ==
  ASSUME CursesTyped, backend # "sdl", Ncurses!Next, NEW k \in Ncurses!Mapped
  PROVE  Ncurses!UsesStroke(k)
<1> DEFINE more == IF queue' = Append(queue, k) THEN 1 ELSE 0
           put == IF ~polling /\ key'[k] > key[k] THEN 1 ELSE 0
           report == IF polling /\ ~polling' /\ answer' = k THEN 1 ELSE 0
<1>1. /\ Ncurses!Pending(k) = SdlP!Count(queue, k) + key[k]
                                + (IF polling THEN current[k] ELSE 0)
      /\ SdlP!Count(queue, k) \in Nat
      /\ key[k] \in {0, 1} /\ current[k] \in {0, 1}
  BY CursesPending
<1>2. Ncurses!Pending(k)' = SdlP!Count(queue', k) + key'[k]
                              + (IF polling' THEN current'[k] ELSE 0)
  BY DEF Ncurses!Pending, SdlP!Count, SdlP!Occurrences,
         Ncurses!Cardinality, SdlP!Cardinality
<1>3. queue \in Seq(Ncurses!Mapped \cup {Ncurses!Unmapped}) /\ k # -1
  BY SessionAssumption DEF CursesTyped, Ncurses!Mapped
<1>4. SUFFICES Ncurses!Pending(k)' <= Ncurses!Pending(k) + more + put - report
  BY DEF Ncurses!UsesStroke
<1>5. CASE Ncurses!User
  <2>1. PICK d : queue' = Append(queue, d) /\ UNCHANGED <<key, current, polling, answer>>
    BY <1>5 DEF Ncurses!User, Ncurses!Type
  <2>2. SdlP!Count(queue', k) = SdlP!Count(queue, k) + (IF d = k THEN 1 ELSE 0)
    BY <1>3, <2>1, SdlP!CountAppend
  <2>3. d = k => more = 1
    BY <2>1
  <2>4. more \in {0, 1} /\ put \in {0, 1} /\ report = 0
    BY <2>1
  <2> HIDE DEF more, put, report
  <2> QED
    BY <1>1, <1>2, <2>1, <2>2, <2>3, <2>4
<1> HIDE DEF more, put
<1>6. more \in {0, 1} /\ put \in {0, 1}
  BY DEF more, put
\* The end of a call, with what it has taken from the queue.
<1>7. ASSUME Ncurses!Finish, polling, SdlP!Count(queue', k) \in Nat,
             SdlP!Count(queue', k) <= SdlP!Count(queue, k)
      PROVE  Ncurses!Pending(k)' <= Ncurses!Pending(k) + more + put - report
  <2>1. polling' = FALSE /\ key' = current
    BY <1>7, FinishReports
  <2>2. answer' = k => current[k] = 0 /\ key[k] = 1
    BY <1>7, FinishReports
  <2> QED
    BY <1>1, <1>2, <1>6, <1>7, <2>1, <2>2
<1>8. CASE Ncurses!Call
  <2>1. /\ UNCHANGED <<queue, key>> /\ ~polling /\ polling' /\ current'[k] = 0
    BY <1>8 DEF Ncurses!Call, Ncurses!NoKeys
  <2> QED
    BY <1>1, <1>2, <1>6, <2>1
<1>9. ASSUME queue' = Tail(queue), queue # <<>>
      PROVE  /\ SdlP!Count(queue', k) = SdlP!Count(queue, k)
                                          - (IF Head(queue) = k THEN 1 ELSE 0)
             /\ SdlP!Count(queue', k) \in Nat
  <2>1. Tail(queue) \in Seq(Ncurses!Mapped \cup {Ncurses!Unmapped})
    BY <1>3, <1>9
  <2> QED
    BY <1>3, <1>9, <2>1, SdlP!CountTail, SdlP!CountIsNat
<1>10. CASE Ncurses!GetKey
  <2>1. polling /\ queue' = Tail(queue) /\ queue # <<>>
    BY <1>10 DEF Ncurses!GetKey
  <2>2. /\ SdlP!Count(queue', k) = SdlP!Count(queue, k) - (IF Head(queue) = k THEN 1 ELSE 0)
        /\ SdlP!Count(queue', k) \in Nat
    BY <1>9, <2>1
  <2>3. CASE Ncurses!Finish
    BY <1>1, <1>7, <2>1, <2>2, <2>3
  <2>4. CASE Head(queue) \notin Ncurses!Mapped /\ UNCHANGED <<key, current, polling, answer>>
    BY <1>1, <1>2, <1>6, <2>1, <2>2, <2>4
  <2>5. CASE /\ Head(queue) \in Ncurses!Mapped /\ current[Head(queue)] = 0
             /\ current' = [current EXCEPT ![Head(queue)] = 1]
             /\ UNCHANGED <<key, polling, answer>>
    <3>1. current'[k] = IF Head(queue) = k THEN 1 ELSE current[k]
      BY <2>5 DEF CursesTyped
    <3> QED
      BY <1>1, <1>2, <1>6, <2>1, <2>2, <2>5, <3>1
  <2> QED
    BY <1>10, <2>3, <2>4, <2>5 DEF Ncurses!GetKey
<1>11. CASE Ncurses!NoMore
  BY <1>1, <1>7, <1>11 DEF Ncurses!NoMore
<1>12. CASE Ncurses!GetChar
  <2>1. queue' = Tail(queue) /\ queue # <<>> /\ ~polling
        /\ UNCHANGED <<key, current, polling>>
    BY <1>12 DEF Ncurses!GetChar
  <2>2. /\ SdlP!Count(queue', k) \in Nat /\ SdlP!Count(queue', k) <= SdlP!Count(queue, k)
        /\ report = 0
    BY <1>1, <1>9, <2>1
  <2> HIDE DEF report
  <2> QED
    BY <1>1, <1>2, <1>6, <2>1, <2>2
<1>13. CASE Ncurses!LoadState
  <2>1. ~polling /\ UNCHANGED <<queue, polling>> /\ key'[k] \in {0, 1} /\ report = 0
    BY <1>13 DEF Ncurses!LoadState, Ncurses!Load, CursesTyped
  <2>2. key'[k] <= key[k] + put
    BY <1>1, <2>1 DEF put
  <2> HIDE DEF report
  <2> QED
    BY <1>1, <1>2, <1>6, <2>1, <2>2
<1> QED
  BY <1>5, <1>8, <1>10, <1>11, <1>12, <1>13 DEF Ncurses!Next, Ncurses!Tick

--------------------------------------------------------------------------------
\* Both instances of KeyboardSdl count alike.
LEMMA SameStrokes ==
  ASSUME NEW k, SdlP!UsesStroke(k) PROVE Sdl!UsesStroke(k)
<1>1. Sdl!Pending(k) = SdlP!Pending(k)
  BY DEF Sdl!Pending, SdlP!Pending, Sdl!Cardinality, SdlP!Cardinality
<1>2. Sdl!Pending(k)' = SdlP!Pending(k)'
  BY DEF Sdl!Pending, SdlP!Pending, Sdl!Cardinality, SdlP!Cardinality
<1> QED
  BY <1>1, <1>2 DEF Sdl!UsesStroke, SdlP!UsesStroke

\* While c8_simulate runs, only the user, c8_tick and the prompt touch the keyboard.
LEMMA KeyboardAlone ==
  ASSUME Next, Simulating'
  PROVE  User \/ Tick \/ LoadState \/ GetChar \/ UNCHANGED <<backend, keyboardVars>>
<1> USE DEF Simulating, Main
<1>1. CASE Leave \/ Sigint
  BY <1>1 DEF Leave, Sigint, Close, ClosedOut
<1> QED
  BY <1>1 DEF Next, QuirksOption, SchipOption, BadOption, OptionsDone, Option, Open,
              OpenFails, Opened, Fonts, Rom, CloseNext, ClosedAll, Exit, EnterPrompt,
              LeavePrompt, Turn

\* A step that leaves the keyboard alone uses up nothing.
LEMMA NothingUsed ==
  ASSUME SdlInv, CursesTyped, UNCHANGED <<backend, keyboardVars>>, NEW k \in Ncurses!Mapped
  PROVE  IF backend = "sdl" THEN Sdl!UsesStroke(k) ELSE Ncurses!UsesStroke(k)
<1>1. UNCHANGED <<queue, key, answer, polling, released, held, current>>
  BY DEF keyboardVars, sdlVars, cursesVars
<1>2. CASE backend = "sdl"
  <2>1. SdlP!Pending(k)' = SdlP!Pending(k)
    BY <1>1 DEF SdlP!Pending
  <2>2. SdlP!Pending(k) \in Int
    <3>1. k \in SdlP!Mapped /\ SdlP!TypeOK
      BY <1>2 DEF SdlInv, SdlP!KeyboardInv, SdlP!Mapped, Ncurses!Mapped
    <3> QED
      BY <3>1, SdlP!PendingCounts
  <2>3. SdlP!UsesStroke(k)
    BY <1>1, <2>1, <2>2 DEF SdlP!UsesStroke
  <2> QED
    BY <1>2, <2>3, SameStrokes
<1>3. CASE backend # "sdl"
  <2>1. Ncurses!Pending(k)' = Ncurses!Pending(k)
    BY <1>1 DEF Ncurses!Pending
  <2>2. Ncurses!Pending(k) \in Int
    BY <1>3, CursesPending
  <2>3. Ncurses!UsesStroke(k)
    BY <1>1, <2>1, <2>2 DEF Ncurses!UsesStroke
  <2> QED
    BY <1>3, <2>3
<1> QED
  BY <1>2, <1>3

\* With either backend, while c8_simulate runs or waits at its prompt: every report of a
\* key uses up a press of its own (SDL2), or a character typed or a load that put the key
\* down (ncurses).
THEOREM ReportsAreTyped == Spec => ReportsUseStrokes
<1> DEFINE Step ==
      Simulating' =>
        \A k \in Ncurses!Mapped :
          IF backend = "sdl" THEN Sdl!UsesStroke(k) ELSE Ncurses!UsesStroke(k)
<1>1. SdlInv /\ CursesTyped /\ [Next]_vars => [Step]_vars
  <2> SUFFICES ASSUME SdlInv, CursesTyped, Next, Simulating',
                      NEW k \in Ncurses!Mapped
               PROVE  IF backend = "sdl" THEN Sdl!UsesStroke(k) ELSE Ncurses!UsesStroke(k)
    OBVIOUS
  <2>1. CASE UNCHANGED <<backend, keyboardVars>>
    BY <2>1, NothingUsed
  <2>2. CASE User \/ Tick \/ LoadState \/ GetChar
    <3>1. k \in SdlP!Mapped
      BY DEF SdlP!Mapped, Ncurses!Mapped
    <3>2. CASE backend = "sdl"
      <4>1. SdlP!KeyboardInv /\ (SdlP!User \/ SdlP!Tick \/ SdlP!LoadState)
        BY <2>2, <3>2, SameUser, SameTick, SameLoad
           DEF SdlInv, User, Tick, LoadState, GetChar
      <4> QED
        BY <3>1, <3>2, <4>1, Ranges, SdlP!UserUses, SdlP!TickUses, SdlP!LoadUses,
           SameStrokes
    <3>3. CASE backend # "sdl"
      <4>1. Ncurses!Next
        BY <2>2, <3>3 DEF User, Tick, LoadState, GetChar, Ncurses!Next
      <4> QED
        BY <3>3, <4>1, CursesUse
    <3> QED
      BY <3>2, <3>3
  <2> QED
    BY <2>1, <2>2, KeyboardAlone
<1> QED
  BY <1>1, InitSdl, SdlStep, InitCurses, CursesStep, PTL DEF Spec, ReportsUseStrokes

--------------------------------------------------------------------------------
\* The types of what the options, and SIGINT, leave behind.
OptionsTyped ==
  /\ backend \in Backends
  /\ mode \in {Chip8, Schip} /\ quirks \subseteq Letters
  /\ userQuirks \in BOOLEAN /\ refused \in BOOLEAN
  /\ hit \in Places \cup {"nowhere"}
  /\ status \in {"running", "exited", "undefined"}

\* Every step keeps the types of the options.
LEMMA OptionsStep ==
  ASSUME OptionsTyped, at \in Places, [Next]_vars
  PROVE  OptionsTyped'
<1> USE DEF OptionsTyped
<1>1. CASE QuirksOption
  <2>1. PICK s \in QuirkStrings : /\ Option(Understood(s) = Len(s))
                                  /\ quirks' = SymDiff(quirks, Toggled(s))
                                  /\ userQuirks' = TRUE
                                  /\ UNCHANGED mode
    BY <1>1 DEF QuirksOption
  <2>2. SymDiff(quirks, Toggled(s)) \subseteq Letters
    BY DEF SymDiff, Toggled
  <2>3. refused' \in BOOLEAN /\ UNCHANGED <<backend, hit, status>>
    BY <2>1 DEF Option
  <2> QED
    BY <2>1, <2>2, <2>3
<1>2. CASE SchipOption \/ BadOption
  BY <1>2 DEF SchipOption, BadOption, Option, optionVars
<1>3. CASE OptionsDone
  BY <1>3 DEF OptionsDone, DefaultQuirks, Letters
<1>4. CASE Open \/ OpenFails \/ Opened \/ Fonts \/ Rom
  BY <1>4 DEF Open, OpenFails, Opened, Fonts, Rom, optionVars
<1>5. CASE User \/ Tick \/ LoadState \/ GetChar
  BY <1>5 DEF User, Tick, LoadState, GetChar, mainVars, optionVars
<1>6. CASE Leave \/ CloseNext \/ ClosedAll \/ Exit
  BY <1>6 DEF Leave, CloseNext, ClosedAll, Exit, optionVars
<1>7. CASE Sigint
  BY <1>7 DEF Sigint, optionVars
<1>8. CASE UNCHANGED vars
  BY <1>8 DEF vars, optionVars
<1>9. CASE EnterPrompt \/ LeavePrompt
  BY <1>9 DEF EnterPrompt, LeavePrompt, Turn, optionVars
<1> QED
  BY <1>1, <1>2, <1>3, <1>4, <1>5, <1>6, <1>7, <1>8, <1>9 DEF Next

\* Every variable keeps its type, whatever the user gives, types or interrupts.
THEOREM SessionKeepsTypes == Spec => []TypeOK
<1>1. Init => OptionsTyped
  BY DEF Init, OptionsTyped
<1>2. HeldInv => at \in Places
  BY DEF HeldInv
<1>3. backend = "sdl" /\ SdlInv => Sdl!TypeOK
  BY DEF SdlInv, SdlP!KeyboardInv, SdlP!TypeOK, Sdl!TypeOK,
         SdlP!Events, Sdl!Events, SdlP!Mapped, Sdl!Mapped, SdlP!Unmapped, Sdl!Unmapped
<1>4. HeldInv /\ OptionsTyped /\ SdlInv /\ CursesTyped => TypeOK
  BY <1>3 DEF HeldInv, OptionsTyped, CursesTyped, TypeOK, Places, Lives, Rates, Calls
<1> QED
  BY <1>1, <1>2, <1>4, InitAsked, InitHeld, InitSdl, InitCurses,
     AskedStep, HeldStep, SdlStep, CursesStep, OptionsStep, PTL DEF Spec

================================================================================
