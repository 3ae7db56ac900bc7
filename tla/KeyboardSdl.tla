------------------------------ MODULE KeyboardSdl ------------------------------
(***************************************************************************)
(* c8_tick of the SDL2 backend (src/c8/private/graphics_sdl2.c) and the     *)
(* event queue it drains.  The user goes on pressing and releasing keys     *)
(* while it does: SDL_PollEvent takes one event at a time.                  *)
(*                                                                          *)
(* A key is its index in key[] as c8_keyMap gives it: 0..15 for the CHIP-8  *)
(* keys, 16 and 17 for P and M.  Unmapped stands for every other key.       *)
(*                                                                          *)
(* Between two calls c8_simulate may stop at the debugger's prompt, where load *)
(* overwrites key[]; any int but 0 is 1 here, as for those who read it.        *)
(***************************************************************************)
EXTENDS Integers, FiniteSets, Sequences

CONSTANTS PadKeys,  \* the CHIP-8 keys the user uses, among 0..15
          HotKeys,  \* 16 and 17
          MaxQueue  \* bound: events waiting in SDL's queue

\* The ranges of the keys.
KeyRanges == PadKeys \subseteq 0..15 /\ HotKeys \subseteq {16, 17}

Unmapped == -1
Mapped   == PadKeys \cup HotKeys
Events   == [type : {"down", "up"}, key : Mapped \cup {Unmapped}]
              \cup {[type |-> "quit", key |-> Unmapped]}

VARIABLES
  queue,     \* SDL's event queue, oldest first
  key,       \* key[], the array c8_simulate and SKP, SKNP read
  polling,   \* c8_tick is running
  released,  \* its local variable
  answer,    \* what the last call returned
  held,      \* the keys that are physically down
  first,     \* history: the first CHIP-8 key whose release this call has seen
  ups,       \* history: all of them
  loaded     \* history: the keys that load has written, and no event since

vars == <<queue, key, polling, released, answer, held, first, ups, loaded>>

Init == /\ queue = <<>>
        /\ key = [k \in Mapped |-> 0]
        /\ polling = FALSE
        /\ released = -1
        /\ answer = -1
        /\ held = {}
        /\ first = -1
        /\ ups = {}
        /\ loaded = {}

--------------------------------------------------------------------------------
\* SDL: an event enters the queue.
Post(type, k) == /\ Len(queue) < MaxQueue
                 /\ queue' = Append(queue, [type |-> type, key |-> k])
                 /\ UNCHANGED <<key, polling, released, answer, first, ups, loaded>>

\* A key goes down, or repeats while it is down.
Press(k) == Post("down", k) /\ held' = held \cup {k}

Release(k) == k \in held /\ Post("up", k) /\ held' = held \ {k}

Close == Post("quit", Unmapped) /\ UNCHANGED held

User == (\E k \in Mapped \cup {Unmapped} : Press(k) \/ Release(k)) \/ Close

--------------------------------------------------------------------------------
\* c8_simulate calls c8_tick.
Call == /\ ~polling
        /\ polling' = TRUE
        /\ released' = -1
        /\ first' = -1
        /\ ups' = {}
        /\ UNCHANGED <<queue, key, answer, held, loaded>>

\* Mutant of KeyDown: a key that repeats is toggled.
KeyToggles(e) == /\ e.type = "down"
                 /\ key' = IF e.key \in Mapped
                           THEN [key EXCEPT ![e.key] = 1 - @] ELSE key
                 /\ loaded' = loaded \ {e.key}
                 /\ UNCHANGED <<polling, released, answer, first, ups>>

\* SDL_KEYDOWN: key[pressed] = 1 for a mapped key.
KeyDown(e) == /\ e.type = "down"
              /\ key' = IF e.key \in Mapped THEN [key EXCEPT ![e.key] = 1] ELSE key
              /\ loaded' = loaded \ {e.key}
              /\ UNCHANGED <<polling, released, answer, first, ups>>

\* SDL_KEYUP: released is overwritten, with -1 by a key that is not mapped.
KeyUp(e) == /\ e.type = "up"
            /\ released' = e.key
            /\ key' = IF e.key \in Mapped THEN [key EXCEPT ![e.key] = 0] ELSE key
            /\ loaded' = loaded \ {e.key}
            /\ IF e.key \in PadKeys
               THEN /\ ups' = ups \cup {e.key}
                    /\ first' = IF ups = {} THEN e.key ELSE first
               ELSE UNCHANGED <<first, ups>>
            /\ UNCHANGED <<polling, answer>>

\* SDL_QUIT: the call returns at once and leaves the later events queued.
QuitEvent(e) == /\ e.type = "quit"
                /\ answer' = -2
                /\ polling' = FALSE
                /\ UNCHANGED <<key, released, first, ups, loaded>>

Poll == /\ polling /\ queue # <<>>
        /\ queue' = Tail(queue)
        /\ KeyDown(Head(queue)) \/ KeyUp(Head(queue)) \/ QuitEvent(Head(queue))
        /\ UNCHANGED held

\* Mutant of Return: P and M are reported.
ReturnAny == /\ polling /\ queue = <<>>
             /\ answer' = released
             /\ polling' = FALSE
             /\ UNCHANGED <<queue, key, released, held, first, ups, loaded>>

\* The queue is empty: P and M are not reported.
Return == /\ polling /\ queue = <<>>
          /\ answer' = IF released > 15 THEN -1 ELSE released
          /\ polling' = FALSE
          /\ UNCHANGED <<queue, key, released, held, first, ups, loaded>>

Tick == Call \/ Poll \/ Return

\* load at the prompt: key[] is read from a file as far as the file goes.  A short
\* file and one that c8_validate rejects have overwritten it as well.
Load(file, n) ==
  /\ ~polling
  /\ key' = [k \in Mapped |-> IF k < n THEN file[k] ELSE key[k]]
  /\ loaded' = loaded \cup {k \in Mapped : k < n}
  /\ UNCHANGED <<queue, polling, released, answer, held, first, ups>>

\* Of how much a short file has of key[] only the end matters, among the keys in use.
LoadState == \E file \in [Mapped -> {0, 1}], n \in {0} \cup {k + 1 : k \in Mapped} :
               Load(file, n)

Next == User \/ Tick \/ LoadState

Spec == Init /\ [][Next]_vars

--------------------------------------------------------------------------------
TypeOK == /\ queue \in Seq(Events)
          /\ key \in [Mapped -> {0, 1}]
          /\ polling \in BOOLEAN
          /\ released \in Mapped \cup {-1}
          /\ answer \in PadKeys \cup {-1, -2}
          /\ held \subseteq Mapped \cup {Unmapped}
          /\ first \in PadKeys \cup {-1}
          /\ ups \subseteq PadKeys
          /\ loaded \subseteq Mapped

\* Key k will be down once the waiting events are handled: the last of its events
\* is its going down, or it has none and key[k] stands.
Settled(k) ==
  \/ key[k] = 1 /\ \A i \in DOMAIN queue : queue[i].key # k
  \/ \E i \in DOMAIN queue : /\ queue[i].key = k /\ queue[i].type = "down"
                            /\ \A j \in DOMAIN queue : j > i => queue[j].key # k

\* key[] is the keyboard as of the events handled so far: with those still
\* queued it comes to the keys that are down, so no press or release is lost
\* or left standing across calls, early returns on SDL_QUIT included.  What load
\* makes of a key lasts until its next event, and no longer.
KeysFollowKeyboard ==
  \A k \in Mapped :
    k \notin loaded \/ (\E i \in DOMAIN queue : queue[i].key = k) =>
      (Settled(k) <=> k \in held)

\* A key index c8_tick returns, which LD Vx, K stores, is that of a CHIP-8 key
\* released since the last call.
AnswerWasReleased ==
  ~polling /\ answer >= 0 => answer \in ups

\* The releases of key k that c8_tick may still report, one of them yet to come if
\* the key is down.
Pending(k) ==
  Cardinality({i \in DOMAIN queue : queue[i] = [type |-> "up", key |-> k]})
    + (IF k \in held THEN 1 ELSE 0) + (IF polling /\ released = k THEN 1 ELSE 0)

\* A key is never reported released more often than it was pressed: every report
\* uses up a press, of which those that repeat are merged.  A key that only a loaded
\* file has down is never reported.
UsesStroke(k) ==
  Pending(k)' <= Pending(k)
                   + (IF queue' = Append(queue, [type |-> "down", key |-> k]) THEN 1 ELSE 0)
                   - (IF polling /\ ~polling' /\ answer' = k THEN 1 ELSE 0)

\* "-1 if no key was released, or the key index of the first key released since
\* the last call."
AnswerIsFirstRelease ==
  ~polling /\ answer # -2 => answer = first
================================================================================
