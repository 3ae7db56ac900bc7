----------------------------- MODULE KeyboardNcurses ----------------------------
(***************************************************************************)
(* c8_tick of the ncurses backend (src/c8/private/graphics_ncurses.c).  A     *)
(* terminal tells which characters were typed, and nothing of keys going up:  *)
(* a key held down is typed over and over, and counts as released when a call *)
(* does not find it among what was typed since the last one.                 *)
(*                                                                         *)
(* Between two calls c8_simulate may stop at the debugger's prompt, which reads *)
(* the same terminal and whose load overwrites key[]; any int but 0 is 1 here.  *)
(*                                                                         *)
(* Keys are named as in module KeyboardSdl.                                   *)
(***************************************************************************)
EXTENDS Integers, Sequences, FiniteSetsExt

CONSTANTS PadKeys,  \* the CHIP-8 keys the user uses, among 0..15
          HotKeys,  \* 16 and 17
          MaxQueue  \* bound: characters that wait to be read

Unmapped == -1
Mapped   == PadKeys \cup HotKeys

VARIABLES
  queue,    \* the characters typed, oldest first
  key,      \* key[], the array c8_simulate and SKP, SKNP read
  current,  \* current_keys[] of c8_tick
  polling,  \* c8_tick is running
  answer,   \* what the last call returned
  taken     \* history: the last character the prompt took since that call

vars == <<queue, key, current, polling, answer, taken>>

NoKeys == [k \in Mapped |-> 0]
Nothing == -2  \* no character

Init == /\ queue = <<>>
        /\ key = NoKeys
        /\ current = NoKeys
        /\ polling = FALSE
        /\ answer = -1
        /\ taken = Nothing

--------------------------------------------------------------------------------
\* A key is pressed, or repeats while it is down.
Type(k) == /\ Len(queue) < MaxQueue
           /\ queue' = Append(queue, k)
           /\ UNCHANGED <<key, current, polling, answer, taken>>

User == \E k \in Mapped \cup {Unmapped} : Type(k)

--------------------------------------------------------------------------------
\* c8_simulate calls c8_tick.
Call == /\ ~polling
        /\ polling' = TRUE
        /\ current' = NoKeys
        /\ taken' = Nothing
        /\ UNCHANGED <<queue, key, answer>>

\* Mutant of Finish: every call reports a key it found.
FinishReporting ==
  LET found == {k \in Mapped : current[k] = 1}
  IN  /\ polling' = FALSE
      /\ key' = current
      /\ answer' = IF found = {} THEN -1 ELSE Max(found)
      /\ UNCHANGED <<current, taken>>

\* The end of c8_tick: of the keys that were not typed again the last is reported,
\* P and M included.
Finish ==
  LET fallen == {k \in Mapped : current[k] = 0 /\ key[k] = 1}
  IN  /\ polling' = FALSE
      /\ key' = current
      /\ answer' = IF fallen = {} THEN -1 ELSE Max(fallen)
      /\ UNCHANGED <<current, taken>>

\* Mutant of GetKey: a character found twice makes the call return at once.
GetKeyReturns ==
  /\ polling /\ queue # <<>>
  /\ queue' = Tail(queue)
  /\ LET k == Head(queue)
     IN  /\ polling' = (k \notin Mapped \/ current[k] = 0)
         /\ current' = [j \in Mapped |-> IF j = k THEN 1 ELSE current[j]]
  /\ answer' = IF polling' THEN answer ELSE -1
  /\ UNCHANGED <<key, taken>>

\* getch() found a character: one that is no key is dropped, one found before in
\* this call is dropped as well, and ends it.
GetKey ==
  /\ polling /\ queue # <<>>
  /\ queue' = Tail(queue)
  /\ LET k == Head(queue)
     IN  \/ /\ k \notin Mapped
            /\ UNCHANGED <<key, current, polling, answer, taken>>
         \/ /\ k \in Mapped /\ current[k] = 0
            /\ current' = [current EXCEPT ![k] = 1]
            /\ UNCHANGED <<key, polling, answer, taken>>
         \/ k \in Mapped /\ current[k] = 1 /\ Finish

\* getch() returned ERR.
NoMore == polling /\ queue = <<>> /\ Finish /\ UNCHANGED queue

Tick == Call \/ GetKey \/ NoMore

--------------------------------------------------------------------------------
\* getchar() of the prompt takes the oldest character.
GetChar == /\ ~polling /\ queue # <<>>
           /\ queue' = Tail(queue)
           /\ taken' = Head(queue)
           /\ UNCHANGED <<key, current, polling, answer>>

\* load at the prompt: key[] is read from a file as far as the file goes.
Load(file, n) ==
  /\ ~polling
  /\ key' = [k \in Mapped |-> IF k < n THEN file[k] ELSE key[k]]
  /\ UNCHANGED <<queue, current, polling, answer, taken>>

\* Of how much a short file has of key[] only the end matters, among the keys in use.
LoadState == \E file \in [Mapped -> {0, 1}], n \in {0} \cup {k + 1 : k \in Mapped} :
               Load(file, n)

Next == User \/ Tick \/ GetChar \/ LoadState

Spec == Init /\ [][Next]_vars

--------------------------------------------------------------------------------
\* The characters of key k that c8_tick may still report the release of.
Pending(k) == Cardinality({i \in DOMAIN queue : queue[i] = k})
                + key[k] + (IF polling THEN current[k] ELSE 0)

\* Whatever is merged or dropped on the way, a key is never reported released more
\* often than it was typed, or put down by a load: every report uses up a character
\* of that key, or a loaded file that has it down.
UsesStroke(k) ==
  Pending(k)' <= Pending(k)
                   + (IF queue' = Append(queue, k) THEN 1 ELSE 0)
                   + (IF ~polling /\ key'[k] > key[k] THEN 1 ELSE 0)
                   - (IF polling /\ ~polling' /\ answer' = k THEN 1 ELSE 0)
================================================================================
