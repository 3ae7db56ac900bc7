----------------------------- MODULE KeyboardProofs -----------------------------
(***************************************************************************)
(* Proofs about KeyboardSdl: for any keys in their ranges and event queues of  *)
(* any length, key[] with the queue is the keyboard but for what load has just *)
(* written, and an answer is the key of a release that the call has seen.      *)
(***************************************************************************)
EXTENDS KeyboardSdl, TLAPS, FiniteSetTheorems

\* What released may hold, while c8_tick runs and after.
ReleasedInv == released \in PadKeys => released \in ups

KeyboardInv == TypeOK /\ KeysFollowKeyboard /\ ReleasedInv /\ AnswerWasReleased

\* Key -1 is no key of the map.
LEMMA KeyNumbers ==
  ASSUME KeyRanges
  PROVE  /\ PadKeys \subseteq Int /\ Unmapped \notin Mapped /\ -2 \notin Mapped
         /\ \A k \in Mapped : k <= 15 => k \in PadKeys
         /\ \A k \in PadKeys : k \in Mapped /\ k >= 0 /\ k <= 15
  BY DEF KeyRanges, Mapped, Unmapped

\* What an event is.
LEMMA EventFields ==
  ASSUME KeyRanges, NEW e \in Events
  PROVE  /\ e.type \in {"down", "up", "quit"} /\ e.key \in Mapped \cup {Unmapped}
         /\ e.type = "quit" => e.key = Unmapped
  BY DEF Events

\* The queue is empty and no key is down.
LEMMA InitKeyboard == ASSUME KeyRanges PROVE Init => KeyboardInv
<1> SUFFICES ASSUME Init PROVE KeyboardInv
  OBVIOUS
<1>1. TypeOK
  <2>1. <<>> \in Seq(Events)
    OBVIOUS
  <2>2. QED
    BY <2>1 DEF Init, TypeOK
<1>2. KeysFollowKeyboard
  BY DEF Init, KeysFollowKeyboard, Settled
<1>3. ReleasedInv /\ AnswerWasReleased
  BY KeyNumbers DEF Init, ReleasedInv, AnswerWasReleased
<1>4. QED
  BY <1>1, <1>2, <1>3 DEF KeyboardInv

--------------------------------------------------------------------------------
\* An event at the end of the queue decides how its key will settle, and no other.
LEMMA PostSettles ==
  ASSUME KeyRanges, TypeOK, KeysFollowKeyboard,
         NEW e \in Events, queue' = Append(queue, e), key' = key, loaded' = loaded,
         e.type = "down" => held' = held \cup {e.key},
         e.type = "up" => held' = held \ {e.key},
         e.type = "quit" => held' = held
  PROVE  KeysFollowKeyboard'
<1> SUFFICES ASSUME NEW k \in Mapped,
                    k \notin loaded' \/ \E i \in DOMAIN queue' : queue'[i].key = k
             PROVE  Settled(k)' <=> k \in held'
  BY DEF KeysFollowKeyboard
<1> DEFINE n == Len(queue) + 1
<1>1. /\ DOMAIN queue = 1..Len(queue) /\ DOMAIN queue' = 1..n
      /\ queue'[n] = e /\ \A i \in DOMAIN queue : queue'[i] = queue[i]
      /\ Len(queue) \in Nat
  BY DEF TypeOK
<1>3. CASE e.key = k
  <2>1. k # Unmapped
    BY KeyNumbers
  <2>2. e.type \in {"down", "up"}
    BY <1>3, <2>1, EventFields
  <2>3. Settled(k)' <=> e.type = "down"
    BY <1>1, <1>3 DEF Settled
  <2>4. QED
    BY <1>3, <2>2, <2>3
<1>4. CASE e.key # k
  <2>1. Settled(k)' <=> Settled(k)
    <3>1. ASSUME Settled(k) PROVE Settled(k)'
      BY <1>1, <1>4, <3>1 DEF Settled
    <3>2. ASSUME Settled(k)' PROVE Settled(k)
      BY <1>1, <1>4, <3>2 DEF Settled
    <3>3. QED
      BY <3>1, <3>2
  <2>2. k \in held' <=> k \in held
    BY <1>4, EventFields
  <2>3. k \notin loaded \/ \E i \in DOMAIN queue : queue[i].key = k
    BY <1>1, <1>4
  <2>4. Settled(k) <=> k \in held
    BY <2>3 DEF KeysFollowKeyboard
  <2>5. QED
    BY <2>1, <2>2, <2>4
<1>5. QED
  BY <1>3, <1>4

\* A step of the user.
LEMMA UserKeeps ==
  ASSUME KeyRanges, KeyboardInv, User
  PROVE  KeyboardInv'
<1> USE DEF KeyboardInv
<1>1. PICK e \in Events :
        /\ queue' = Append(queue, e)
        /\ UNCHANGED <<key, polling, released, answer, first, ups, loaded>>
        /\ e.type = "down" => held' = held \cup {e.key}
        /\ e.type = "up" => held' = held \ {e.key}
        /\ e.type = "quit" => held' = held
  <2>1. ASSUME NEW k \in Mapped \cup {Unmapped}, Press(k)
        PROVE  \E e \in Events :
                 /\ queue' = Append(queue, e)
                 /\ UNCHANGED <<key, polling, released, answer, first, ups, loaded>>
                 /\ e.type = "down" => held' = held \cup {e.key}
                 /\ e.type = "up" => held' = held \ {e.key}
                 /\ e.type = "quit" => held' = held
    <3> DEFINE e == [type |-> "down", key |-> k]
    <3>1. e \in Events /\ e.type = "down" /\ e.key = k
      BY DEF Events
    <3>2. QED
      BY <2>1, <3>1 DEF Press, Post
  <2>2. ASSUME NEW k \in Mapped \cup {Unmapped}, Release(k)
        PROVE  \E e \in Events :
                 /\ queue' = Append(queue, e)
                 /\ UNCHANGED <<key, polling, released, answer, first, ups, loaded>>
                 /\ e.type = "down" => held' = held \cup {e.key}
                 /\ e.type = "up" => held' = held \ {e.key}
                 /\ e.type = "quit" => held' = held
    <3> DEFINE e == [type |-> "up", key |-> k]
    <3>1. e \in Events /\ e.type = "up" /\ e.key = k
      BY DEF Events
    <3>2. QED
      BY <2>2, <3>1 DEF Release, Post
  <2>3. ASSUME Close
        PROVE  \E e \in Events :
                 /\ queue' = Append(queue, e)
                 /\ UNCHANGED <<key, polling, released, answer, first, ups, loaded>>
                 /\ e.type = "down" => held' = held \cup {e.key}
                 /\ e.type = "up" => held' = held \ {e.key}
                 /\ e.type = "quit" => held' = held
    <3> DEFINE e == [type |-> "quit", key |-> Unmapped]
    <3>1. e \in Events /\ e.type = "quit" /\ e.key = Unmapped
      BY DEF Events
    <3>2. QED
      BY <2>3, <3>1 DEF Close, Post
  <2>4. QED
    BY <2>1, <2>2, <2>3 DEF User
<1>2. TypeOK'
  <2>1. queue' \in Seq(Events)
    BY <1>1 DEF TypeOK
  <2>2. held' \subseteq Mapped \cup {Unmapped}
    BY <1>1, EventFields DEF TypeOK
  <2>3. QED
    BY <1>1, <2>1, <2>2 DEF TypeOK
<1>3. KeysFollowKeyboard'
  BY <1>1, PostSettles
<1>4. ReleasedInv' /\ AnswerWasReleased'
  BY <1>1 DEF ReleasedInv, AnswerWasReleased
<1>5. QED
  BY <1>2, <1>3, <1>4

--------------------------------------------------------------------------------
\* Handling the first event leaves the keys where they would have settled.
LEMMA PollSettles ==
  ASSUME KeyRanges, TypeOK, KeysFollowKeyboard, queue # <<>>,
         queue' = Tail(queue), held' = held, loaded' = loaded \ {Head(queue).key},
         Head(queue).key \in Mapped /\ Head(queue).type = "down" =>
           key' = [key EXCEPT ![Head(queue).key] = 1],
         Head(queue).key \in Mapped /\ Head(queue).type = "up" =>
           key' = [key EXCEPT ![Head(queue).key] = 0],
         Head(queue).key \notin Mapped => key' = key
  PROVE  KeysFollowKeyboard'
<1> SUFFICES ASSUME NEW k \in Mapped,
                    k \notin loaded' \/ \E i \in DOMAIN queue' : queue'[i].key = k
             PROVE  Settled(k)' <=> k \in held'
  BY DEF KeysFollowKeyboard
<1> DEFINE n == Len(queue)
           e == queue[1]
<1>1. /\ n \in Nat \ {0} /\ DOMAIN queue = 1..n /\ DOMAIN queue' = 1..(n - 1)
      /\ Head(queue) = e /\ e \in Events
      /\ \A i \in 1..(n - 1) : queue'[i] = queue[i + 1]
      /\ key \in [Mapped -> {0, 1}]
  BY DEF TypeOK
<1>2. Settled(k) <=> k \in held
  <2>1. k \notin loaded \/ \E i \in DOMAIN queue : queue[i].key = k
    BY <1>1
  <2>2. QED
    BY <2>1 DEF KeysFollowKeyboard
<1>3. \A i \in 2..n : i - 1 \in 1..(n - 1) /\ queue'[i - 1] = queue[i]
  BY <1>1
<1> HIDE DEF n, e
<1>4. CASE e.key = k
  <2>1. e.type \in {"down", "up"} /\ e.key \in Mapped
    BY <1>1, <1>4, EventFields, KeyNumbers
  <2>2. key'[k] = 1 <=> e.type = "down"
    BY <1>1, <1>4, <2>1
  <2>3. CASE \A i \in 2..n : queue[i].key # k
    <3>1. Settled(k) <=> e.type = "down"
      BY <1>1, <1>4, <2>3 DEF Settled, e
    <3>2. \A i \in DOMAIN queue' : queue'[i].key # k
      BY <1>1, <2>3
    <3>3. Settled(k)' <=> key'[k] = 1
      BY <3>2 DEF Settled
    <3>4. QED
      BY <1>2, <2>2, <3>1, <3>3
  <2>4. CASE \E i \in 2..n : queue[i].key = k
    <3>1. ASSUME Settled(k) PROVE Settled(k)'
      <4>1. PICK i \in 1..n : /\ queue[i].key = k /\ queue[i].type = "down"
                              /\ \A j \in 1..n : j > i => queue[j].key # k
        BY <1>1, <1>4, <3>1 DEF Settled, e
      <4>2. i \in 2..n
        BY <1>1, <2>4, <4>1
      <4>3. \A j \in 1..(n - 1) : j > i - 1 => queue'[j].key # k
        BY <1>1, <4>1, <4>2
      <4>4. QED
        BY <1>1, <1>3, <4>1, <4>2, <4>3 DEF Settled
    <3>2. ASSUME Settled(k)' PROVE Settled(k)
      <4>1. PICK i \in 2..n : queue[i].key = k
        BY <2>4
      <4>2. queue'[i - 1].key = k
        BY <1>3, <4>1
      <4>3. i - 1 \in DOMAIN queue' /\ queue'[i - 1].key = k
        BY <1>1, <1>3, <4>2
      <4>4. \E m \in DOMAIN queue' : /\ queue'[m].key = k /\ queue'[m].type = "down"
                                    /\ \A j \in DOMAIN queue' : j > m => queue'[j].key # k
        BY ONLY <3>2, <4>3 DEF Settled
      <4>5. PICK m \in 1..(n - 1) : /\ queue'[m].key = k /\ queue'[m].type = "down"
                                    /\ \A j \in 1..(n - 1) : j > m => queue'[j].key # k
        BY ONLY <1>1, <4>4
      <4>6. m + 1 \in 1..n /\ queue[m + 1] = queue'[m]
        BY <1>1
      <4>7. ASSUME NEW j \in 1..n, j > m + 1 PROVE queue[j].key # k
        <5>1. j \in 2..n /\ j - 1 \in 1..(n - 1) /\ j - 1 > m
          BY ONLY <1>1, <4>7
        <5>2. QED
          BY ONLY <1>3, <4>5, <5>1
      <4>8. QED
        BY <1>1, <4>5, <4>6, <4>7 DEF Settled
    <3>3. QED
      BY <1>2, <3>1, <3>2
  <2>5. QED
    BY <2>3, <2>4
<1>5. CASE e.key # k
  <2>1. key'[k] = key[k]
    BY <1>1, <1>5, EventFields, KeyNumbers
  <2>2. ASSUME Settled(k) PROVE Settled(k)'
    <3>1. CASE key[k] = 1 /\ \A i \in DOMAIN queue : queue[i].key # k
      BY <1>1, <2>1, <3>1 DEF Settled
    <3>2. CASE \E i \in DOMAIN queue : /\ queue[i].key = k /\ queue[i].type = "down"
                                       /\ \A j \in DOMAIN queue : j > i => queue[j].key # k
      <4>1. PICK i \in 1..n : /\ queue[i].key = k /\ queue[i].type = "down"
                              /\ \A j \in 1..n : j > i => queue[j].key # k
        BY <1>1, <3>2
      <4>2. i \in 2..n
        BY <1>1, <1>5, <4>1 DEF e
      <4>3. \A j \in 1..(n - 1) : j > i - 1 => queue'[j].key # k
        BY <1>1, <4>1, <4>2
      <4>4. QED
        BY <1>1, <1>3, <4>1, <4>2, <4>3 DEF Settled
    <3>3. QED
      BY <2>2, <3>1, <3>2 DEF Settled
  <2>3. ASSUME Settled(k)' PROVE Settled(k)
    <3>1. CASE key'[k] = 1 /\ \A i \in DOMAIN queue' : queue'[i].key # k
      <4>1. \A i \in 1..n : queue[i].key # k
        <5> SUFFICES ASSUME NEW i \in 1..n PROVE queue[i].key # k
          OBVIOUS
        <5>1. CASE i = 1
          BY <1>5, <5>1 DEF e
        <5>2. CASE i # 1
          <6>1. i \in 2..n
            BY <1>1, <5>2
          <6>2. i - 1 \in DOMAIN queue' /\ queue'[i - 1] = queue[i]
            BY <1>1, <1>3, <6>1
          <6>3. QED
            BY <3>1, <6>2
        <5>3. QED
          BY <5>1, <5>2
      <4>2. QED
        BY <1>1, <2>1, <3>1, <4>1 DEF Settled
    <3>2. CASE \E i \in DOMAIN queue' : /\ queue'[i].key = k /\ queue'[i].type = "down"
                                        /\ \A j \in DOMAIN queue' : j > i => queue'[j].key # k
      <4>1. PICK m \in 1..(n - 1) : /\ queue'[m].key = k /\ queue'[m].type = "down"
                                    /\ \A j \in 1..(n - 1) : j > m => queue'[j].key # k
        BY <1>1, <3>2
      <4>2. m + 1 \in 1..n /\ queue[m + 1] = queue'[m]
        BY <1>1
      <4>3. \A j \in 1..n : j > m + 1 => queue[j].key # k
        BY <1>1, <1>3, <4>1
      <4>4. QED
        BY <1>1, <4>1, <4>2, <4>3 DEF Settled
    <3>3. QED
      BY <2>3, <3>1, <3>2 DEF Settled
  <2>4. QED
    BY <1>2, <2>2, <2>3
<1>6. QED
  BY <1>4, <1>5

\* A step of c8_tick.
LEMMA TickKeeps ==
  ASSUME KeyRanges, KeyboardInv, Tick
  PROVE  KeyboardInv'
<1> USE DEF KeyboardInv
<1>1. CASE Call
  <2>1. TypeOK'
    BY <1>1 DEF Call, TypeOK
  <2>2. KeysFollowKeyboard'
    BY <1>1 DEF Call, KeysFollowKeyboard, Settled
  <2>3. ReleasedInv' /\ AnswerWasReleased'
    BY <1>1, KeyNumbers DEF Call, ReleasedInv, AnswerWasReleased
  <2>4. QED
    BY <2>1, <2>2, <2>3
<1>2. CASE Poll
  <2> DEFINE e == Head(queue)
  <2>1. e \in Events /\ Tail(queue) \in Seq(Events) /\ queue # <<>>
    BY <1>2 DEF Poll, TypeOK
  <2>2. /\ queue' = Tail(queue) /\ held' = held /\ polling
        /\ KeyDown(e) \/ KeyUp(e) \/ QuitEvent(e)
    BY <1>2 DEF Poll
  <2> HIDE DEF e
  <2>3. CASE KeyDown(e)
    <3>1. key' \in [Mapped -> {0, 1}]
      BY <2>3 DEF KeyDown, TypeOK
    <3>2. TypeOK'
      BY <2>1, <2>2, <2>3, <3>1 DEF KeyDown, TypeOK
    <3>3. ReleasedInv' /\ AnswerWasReleased'
      BY <2>2, <2>3 DEF KeyDown, ReleasedInv, AnswerWasReleased
    <3>4. KeysFollowKeyboard'
      BY <2>1, <2>2, <2>3, PollSettles DEF KeyDown, e
    <3>5. QED
      BY <3>2, <3>3, <3>4
  <2>4. CASE KeyUp(e)
    <3>1. key' \in [Mapped -> {0, 1}] /\ released' \in Mapped \cup {-1}
      BY <2>1, <2>4, EventFields DEF KeyUp, TypeOK, Unmapped
    <3>2. ups' \subseteq PadKeys /\ first' \in PadKeys \cup {-1}
      BY <2>4 DEF KeyUp, TypeOK
    <3>3. TypeOK'
      BY <2>1, <2>2, <2>4, <3>1, <3>2 DEF KeyUp, TypeOK
    <3>4. ReleasedInv' /\ AnswerWasReleased'
      BY <2>2, <2>4 DEF KeyUp, ReleasedInv, AnswerWasReleased
    <3>5. KeysFollowKeyboard'
      BY <2>1, <2>2, <2>4, PollSettles DEF KeyUp, e
    <3>6. QED
      BY <3>3, <3>4, <3>5
  <2>5. CASE QuitEvent(e)
    <3>1. TypeOK'
      BY <2>1, <2>2, <2>5 DEF QuitEvent, TypeOK
    <3>2. ReleasedInv' /\ AnswerWasReleased'
      BY <2>2, <2>5 DEF QuitEvent, ReleasedInv, AnswerWasReleased
    <3>3. KeysFollowKeyboard'
      <4>1. e.key \notin Mapped
        BY <2>1, <2>5, EventFields, KeyNumbers DEF QuitEvent
      <4>2. loaded' = loaded \ {e.key}
        BY <2>5, <4>1 DEF QuitEvent, TypeOK
      <4>3. QED
        BY <2>1, <2>2, <2>5, <4>1, <4>2, PollSettles DEF QuitEvent, e
    <3>4. QED
      BY <3>1, <3>2, <3>3
  <2>6. QED
    BY <2>2, <2>3, <2>4, <2>5
<1>3. CASE Return
  <2>1. answer' \in PadKeys \cup {-1} /\ (answer' >= 0 => answer' = released /\ answer' \in PadKeys)
    BY <1>3, KeyNumbers DEF Return, TypeOK
  <2>2. TypeOK'
    BY <1>3, <2>1 DEF Return, TypeOK
  <2>3. KeysFollowKeyboard'
    BY <1>3 DEF Return, KeysFollowKeyboard, Settled
  <2>4. ReleasedInv' /\ AnswerWasReleased'
    BY <1>3, <2>1 DEF Return, ReleasedInv, AnswerWasReleased
  <2>5. QED
    BY <2>2, <2>3, <2>4
<1>4. QED
  BY <1>1, <1>2, <1>3 DEF Tick

\* A load changes no key but those it counts as loaded.
LEMMA LoadKeeps ==
  ASSUME KeyRanges, KeyboardInv, LoadState
  PROVE  KeyboardInv'
<1>1. PICK file \in [Mapped -> {0, 1}], n \in {0} \cup {k + 1 : k \in Mapped} : Load(file, n)
  BY DEF LoadState
<1>2. /\ UNCHANGED <<queue, polling, released, answer, held, first, ups>>
      /\ loaded' = loaded \cup {k \in Mapped : k < n}
      /\ key' = [k \in Mapped |-> IF k < n THEN file[k] ELSE key[k]]
  BY <1>1 DEF Load
<1>3. TypeOK'
  BY <1>2 DEF KeyboardInv, TypeOK
<1>4. KeysFollowKeyboard'
  <2> SUFFICES ASSUME NEW k \in Mapped,
                      k \notin loaded' \/ \E i \in DOMAIN queue' : queue'[i].key = k
               PROVE  Settled(k)' <=> k \in held'
    BY DEF KeysFollowKeyboard
  <2>1. Settled(k) <=> k \in held
    BY <1>2 DEF KeyboardInv, KeysFollowKeyboard
  <2>2. key'[k] = key[k] \/ \E i \in DOMAIN queue : queue[i].key = k
    BY <1>2
  <2>3. QED
    BY <1>2, <2>1, <2>2 DEF Settled
<1>5. ReleasedInv' /\ AnswerWasReleased'
  BY <1>2 DEF KeyboardInv, ReleasedInv, AnswerWasReleased
<1>6. QED
  BY <1>3, <1>4, <1>5 DEF KeyboardInv

\* The invariant of KeyboardSdl is kept by the user, by c8_tick and by a load.
LEMMA KeyboardStep ==
  ASSUME KeyRanges, KeyboardInv, [Next]_vars
  PROVE  KeyboardInv'
<1>1. CASE Next
  BY <1>1, UserKeeps, TickKeeps, LoadKeeps DEF Next
<1>2. CASE UNCHANGED vars
  BY <1>2 DEF vars, KeyboardInv, TypeOK, KeysFollowKeyboard, Settled, ReleasedInv,
              AnswerWasReleased
<1>3. QED
  BY <1>1, <1>2

\* It holds of every run.
LEMMA KeyboardInvariant == ASSUME KeyRanges PROVE Spec => []KeyboardInv
<1>1. Init => KeyboardInv
  BY InitKeyboard
<1>2. KeyboardInv /\ [Next]_vars => KeyboardInv'
  BY KeyboardStep
<1>3. QED
  BY <1>1, <1>2, PTL DEF Spec

--------------------------------------------------------------------------------
\* c8_tick answers with a pad key, -1 or -2, whatever is pressed.
THEOREM KeyboardTypeCorrect == ASSUME KeyRanges PROVE Spec => []TypeOK
<1>1. KeyboardInv => TypeOK
  BY DEF KeyboardInv
<1>2. QED
  BY <1>1, KeyboardInvariant, PTL

\* Whatever is queued, polled and cut short by SDL_QUIT, key[] with the waiting
\* events is the keyboard, but for the keys that a load wrote last.
THEOREM KeysStayTrue == ASSUME KeyRanges PROVE Spec => []KeysFollowKeyboard
<1>1. KeyboardInv => KeysFollowKeyboard
  BY DEF KeyboardInv
<1>2. QED
  BY <1>1, KeyboardInvariant, PTL

\* A key that c8_tick reports was released while it ran.
THEOREM AnswersAreReleases == ASSUME KeyRanges PROVE Spec => []AnswerWasReleased
<1>1. KeyboardInv => AnswerWasReleased
  BY DEF KeyboardInv
<1>2. QED
  BY <1>1, KeyboardInvariant, PTL

--------------------------------------------------------------------------------
\* How often e stands in a queue.
Occurrences(q, e) == {i \in DOMAIN q : q[i] = e}
Count(q, e)  == Cardinality(Occurrences(q, e))

\* What is counted in a queue is a number.
LEMMA CountIsNat ==
  ASSUME NEW S, NEW q \in Seq(S), NEW e
  PROVE  IsFiniteSet(Occurrences(q, e)) /\ Count(q, e) \in Nat
<1>1. DOMAIN q = 1..Len(q) /\ 1 \in Int /\ Len(q) \in Int
  OBVIOUS
<1>2. IsFiniteSet(DOMAIN q)
  BY <1>1, FS_Interval
<1>3. Occurrences(q, e) \in SUBSET DOMAIN q
  BY DEF Occurrences
<1>4. IsFiniteSet(Occurrences(q, e))
  BY <1>2, <1>3, FS_Subset
<1>5. QED
  BY <1>4, FS_CardinalityType DEF Count

\* One more at the end counts if it is what is counted.
LEMMA CountAppend ==
  ASSUME NEW S, NEW q \in Seq(S), NEW d, NEW e
  PROVE  Count(Append(q, d), e) = Count(q, e) + (IF d = e THEN 1 ELSE 0)
<1> DEFINE n == Len(q) + 1
           p == Append(q, d)
<1>1. /\ n \in Nat /\ n \notin DOMAIN q /\ DOMAIN p = DOMAIN q \cup {n}
      /\ p[n] = d /\ \A i \in DOMAIN q : p[i] = q[i]
  OBVIOUS
<1> HIDE DEF n, p
<1>2. IsFiniteSet(Occurrences(q, e)) /\ Count(q, e) \in Nat
  BY CountIsNat
<1>3. CASE d = e
  <2>1. Occurrences(p, e) = Occurrences(q, e) \cup {n} /\ n \notin Occurrences(q, e)
    BY <1>1, <1>3 DEF Occurrences
  <2>2. QED
    BY <1>2, <1>3, <2>1, FS_AddElement DEF Count, p
<1>4. CASE d # e
  <2>1. Occurrences(p, e) = Occurrences(q, e)
    BY <1>1, <1>4 DEF Occurrences
  <2>2. QED
    BY <1>2, <1>4, <2>1 DEF Count, p
<1>5. QED
  BY <1>3, <1>4

\* One less at the front counts if it was what is counted.
LEMMA CountTail ==
  ASSUME NEW S, NEW q \in Seq(S), q # <<>>, NEW e
  PROVE  Count(Tail(q), e) = Count(q, e) - (IF Head(q) = e THEN 1 ELSE 0)
<1> DEFINE n == Len(q)
           p == Tail(q)
           later == Occurrences(q, e) \ {1}
           shift == [i \in Occurrences(p, e) |-> i + 1]
<1>1. /\ n \in Nat \ {0} /\ DOMAIN q = 1..n /\ DOMAIN p = 1..(n - 1) /\ Head(q) = q[1]
      /\ \A i \in 1..(n - 1) : p[i] = q[i + 1]
  OBVIOUS
<1>2. IsFiniteSet(Occurrences(q, e)) /\ Count(q, e) \in Nat
  BY CountIsNat
<1> HIDE DEF n, p
<1>3. shift \in Bijection(Occurrences(p, e), later)
  <2>1. Occurrences(p, e) \subseteq 1..(n - 1)
    BY <1>1 DEF Occurrences
  <2>2. \A i \in Occurrences(p, e) : i + 1 \in later
    BY <1>1 DEF Occurrences
  <2>3. \A j \in later : j - 1 \in Occurrences(p, e) /\ (j - 1) + 1 = j
    <3> SUFFICES ASSUME NEW j \in later PROVE j - 1 \in Occurrences(p, e) /\ (j - 1) + 1 = j
      OBVIOUS
    <3>1. j \in 2..n /\ q[j] = e
      BY <1>1 DEF Occurrences
    <3>2. j - 1 \in 1..(n - 1) /\ (j - 1) + 1 = j
      BY <1>1, <3>1
    <3>3. QED
      BY <1>1, <3>1, <3>2 DEF Occurrences
  <2> HIDE DEF later
  <2>4. shift \in [Occurrences(p, e) -> later]
    BY <2>2
  <2>5. \A i, j \in Occurrences(p, e) : shift[i] = shift[j] => i = j
    BY <2>1
  <2>6. \A j \in later : \E i \in Occurrences(p, e) : shift[i] = j
    BY <2>3
  <2> HIDE DEF shift
  <2>7. shift \in Injection(Occurrences(p, e), later)
    BY <2>4, <2>5 DEF Injection, IsInjective
  <2>8. shift \in Surjection(Occurrences(p, e), later)
    BY <2>4, <2>6 DEF Surjection
  <2>9. QED
    BY <2>7, <2>8 DEF Bijection
<1>4. IsFiniteSet(Occurrences(p, e))
  <2>1. p \in Seq(S)
    BY DEF p
  <2>2. QED
    BY <2>1, CountIsNat
<1>5. Cardinality(later) = Count(p, e)
  BY <1>3, <1>4, FS_Bijection DEF ExistsBijection, Count
<1>6. Cardinality(later) = IF 1 \in Occurrences(q, e) THEN Count(q, e) - 1 ELSE Count(q, e)
  BY <1>2, FS_RemoveElement DEF Count
<1>7. 1 \in Occurrences(q, e) <=> Head(q) = e
  BY <1>1 DEF Occurrences
<1>8. QED
  BY <1>2, <1>5, <1>6, <1>7 DEF p

--------------------------------------------------------------------------------
\* The event of key k going up.
UpOf(k) == [type |-> "up", key |-> k]

\* What c8_tick may still report of key k, counted.
LEMMA PendingCounts ==
  ASSUME TypeOK, NEW k \in Mapped
  PROVE  /\ Pending(k) = Count(queue, UpOf(k)) + (IF k \in held THEN 1 ELSE 0)
                           + (IF polling /\ released = k THEN 1 ELSE 0)
         /\ Count(queue, UpOf(k)) \in Nat
<1>1. Pending(k) = Count(queue, UpOf(k)) + (IF k \in held THEN 1 ELSE 0)
                     + (IF polling /\ released = k THEN 1 ELSE 0)
  BY DEF Pending, Count, Occurrences, UpOf
<1>2. QED
  BY <1>1, CountIsNat DEF TypeOK

\* And after a step.
LEMMA PendingAfter ==
  ASSUME NEW k
  PROVE  Pending(k)' = Count(queue', UpOf(k)) + (IF k \in held' THEN 1 ELSE 0)
                         + (IF polling' /\ released' = k THEN 1 ELSE 0)
  BY DEF Pending, Count, Occurrences, UpOf

\* A press adds a stroke, a release turns it into an event, and whatever else the user
\* does adds none.
LEMMA UserUses ==
  ASSUME KeyRanges, KeyboardInv, User, NEW k \in Mapped
  PROVE  UsesStroke(k)
<1> DEFINE up == UpOf(k)
           down == [type |-> "down", key |-> k]
<1>1. TypeOK /\ queue \in Seq(Events) /\ k # Unmapped
  BY KeyNumbers DEF KeyboardInv, TypeOK
<1>2. /\ Pending(k) = Count(queue, up) + (IF k \in held THEN 1 ELSE 0)
                        + (IF polling /\ released = k THEN 1 ELSE 0)
      /\ Count(queue, up) \in Nat
      /\ Pending(k)' = Count(queue', up) + (IF k \in held' THEN 1 ELSE 0)
                        + (IF polling' /\ released' = k THEN 1 ELSE 0)
  BY <1>1, PendingCounts, PendingAfter
<1> DEFINE Posts(e) == queue' = Append(queue, e) /\ UNCHANGED <<polling, released>>
<1>3. ASSUME NEW e, Posts(e)
      PROVE  Count(queue', up) = Count(queue, up) + (IF e = up THEN 1 ELSE 0)
  BY <1>1, <1>3, CountAppend
<1>4. ASSUME NEW j \in Mapped \cup {Unmapped}, Press(j)
      PROVE  UsesStroke(k)
  <2>1. Posts([type |-> "down", key |-> j]) /\ held' = held \cup {j}
    BY <1>4 DEF Press, Post
  <2>2. Count(queue', up) = Count(queue, up)
    BY <1>2, <1>3, <2>1 DEF UpOf
  <2>3. j = k => queue' = Append(queue, down)
    BY <2>1
  <2> HIDE DEF up
  <2>4. QED
    BY <1>2, <2>1, <2>2, <2>3 DEF UsesStroke
<1>5. ASSUME NEW j \in Mapped \cup {Unmapped}, Release(j)
      PROVE  UsesStroke(k)
  <2>1. Posts([type |-> "up", key |-> j]) /\ j \in held /\ held' = held \ {j}
    BY <1>5 DEF Release, Post
  <2>2. Count(queue', up) = Count(queue, up) + (IF j = k THEN 1 ELSE 0)
    BY <1>3, <2>1 DEF UpOf
  <2> HIDE DEF up
  <2>3. QED
    BY <1>2, <2>1, <2>2 DEF UsesStroke
<1>6. ASSUME Close PROVE UsesStroke(k)
  <2>1. Posts([type |-> "quit", key |-> Unmapped]) /\ held' = held
    BY <1>6 DEF Close, Post
  <2>2. Count(queue', up) = Count(queue, up)
    BY <1>2, <1>3, <2>1 DEF UpOf
  <2> HIDE DEF up
  <2>3. QED
    BY <1>2, <2>1, <2>2 DEF UsesStroke
<1>7. QED
  BY <1>4, <1>5, <1>6 DEF User

\* A release that is handled goes from the queue to released, and a report takes it
\* from there.
LEMMA TickUses ==
  ASSUME KeyRanges, KeyboardInv, Tick, NEW k \in Mapped
  PROVE  UsesStroke(k)
<1> DEFINE up == UpOf(k)
           report == IF polling /\ ~polling' /\ answer' = k THEN 1 ELSE 0
<1>1. TypeOK /\ queue \in Seq(Events) /\ k # -1 /\ k # -2
  BY KeyNumbers DEF KeyboardInv, TypeOK, Unmapped
<1>2. /\ Pending(k) = Count(queue, up) + (IF k \in held THEN 1 ELSE 0)
                        + (IF polling /\ released = k THEN 1 ELSE 0)
      /\ Count(queue, up) \in Nat
      /\ Pending(k)' = Count(queue', up) + (IF k \in held' THEN 1 ELSE 0)
                        + (IF polling' /\ released' = k THEN 1 ELSE 0)
  BY <1>1, PendingCounts, PendingAfter
<1>3. held' = held
  BY DEF Tick, Call, Poll, Return
<1> HIDE DEF up
<1>4. SUFFICES Pending(k)' <= Pending(k) - report /\ Pending(k) \in Nat
               /\ Pending(k)' \in Int
  BY DEF UsesStroke
<1>5. CASE Call
  BY <1>1, <1>2, <1>3, <1>5 DEF Call
<1>6. CASE Return
  BY <1>1, <1>2, <1>3, <1>6 DEF Return
<1>7. CASE Poll
  <2> DEFINE e == Head(queue)
  <2>1. /\ polling /\ queue' = Tail(queue) /\ queue # <<>> /\ e \in Events
        /\ KeyDown(e) \/ KeyUp(e) \/ QuitEvent(e)
    BY <1>1, <1>7 DEF Poll
  <2>2. Count(queue', up) = Count(queue, up) - (IF e = up THEN 1 ELSE 0)
    BY <1>1, <2>1, CountTail
  <2>3. e = up <=> e.type = "up" /\ e.key = k
    BY <2>1 DEF UpOf, Events, up
  <2>4. Count(queue', up) \in Nat
    <3>1. Tail(queue) \in Seq(Events)
      BY <1>1, <2>1
    <3>2. QED
      BY <2>1, <3>1, CountIsNat
  <2> HIDE DEF e
  <2>5. CASE KeyDown(e)
    BY <1>1, <1>2, <1>3, <2>1, <2>2, <2>3, <2>4, <2>5 DEF KeyDown
  <2>6. CASE KeyUp(e)
    BY <1>1, <1>2, <1>3, <2>1, <2>2, <2>3, <2>4, <2>6 DEF KeyUp
  <2>7. CASE QuitEvent(e)
    BY <1>1, <1>2, <1>3, <2>1, <2>2, <2>3, <2>4, <2>7 DEF QuitEvent
  <2>8. QED
    BY <2>1, <2>5, <2>6, <2>7
<1>8. QED
  BY <1>5, <1>6, <1>7 DEF Tick

\* A load gives c8_tick nothing to report: it does not look at key[].
LEMMA LoadUses ==
  ASSUME KeyRanges, KeyboardInv, LoadState, NEW k \in Mapped
  PROVE  UsesStroke(k)
<1>1. ~polling /\ UNCHANGED <<queue, polling, released, answer, held>>
  BY DEF LoadState, Load
<1>2. Pending(k)' = Pending(k)
  BY <1>1 DEF Pending
<1>3. Pending(k) \in Nat
  BY PendingCounts DEF KeyboardInv
<1>4. QED
  BY <1>1, <1>2, <1>3 DEF UsesStroke

\* Every report of c8_tick uses up a press of its own, however the presses repeat and
\* the calls fall, and whatever load makes of key[] in between.
THEOREM ReportsNeedPresses ==
  ASSUME KeyRanges, NEW k \in Mapped
  PROVE  Spec => [][UsesStroke(k)]_vars
<1>1. KeyboardInv /\ [Next]_vars => [UsesStroke(k)]_vars
  BY UserUses, TickUses, LoadUses DEF Next
<1>2. QED
  BY <1>1, KeyboardInvariant, PTL DEF Spec

================================================================================
