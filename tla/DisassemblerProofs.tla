--------------------------- MODULE DisassemblerProofs ---------------------------
(***************************************************************************)
(* Proofs about Disassembler, for any programs, tables of formats and sizes:  *)
(* what c8_decode writes with its labels, c8_encode reads back word by word. *)
(***************************************************************************)
EXTENDS Disassembler, AssemblerProofs, SequenceTheorems

\* What holds at a, and of a number more whenever of one below n, holds up to n.
LEMMA StepByStep ==
  ASSUME NEW a \in Nat, NEW n \in Nat, NEW S, a \in S, \A k \in a..n - 1 : k \in S => k + 1 \in S
  PROVE  \A k \in a..n : k \in S
<1> DEFINE Left == {k \in a..n : k \notin S}
<1> SUFFICES ASSUME Left # {} PROVE FALSE
  OBVIOUS
<1>1. Left \in SUBSET Nat
  OBVIOUS
<1>2. /\ Min(Left) \in Left /\ \A y \in Left : Min(Left) <= y
  BY <1>1, MinOf
<1> DEFINE k == Min(Left)
<1>3. k \in a..n /\ k \notin S /\ k # a /\ \A y \in Left : k <= y
  BY <1>2
<1> HIDE DEF k
<1>4. k - 1 \in a..n - 1 /\ k - 1 \notin Left /\ (k - 1) + 1 = k
  BY <1>3
<1> QED
  BY <1>3, <1>4

--------------------------------------------------------------------------------
\* How much comes before each of n things of these sizes.
Summed(n, w, f) ==
  /\ f \in [1..n + 1 -> Nat] /\ f[1] = 0
  /\ \A i \in 1..n : f[i + 1] = f[i] + w[i]
Sums(n, w) == CHOOSE f : Summed(n, w, f)

\* There is such a function,
LEMMA SumsAre ==
  ASSUME NEW n \in Nat, NEW w \in [1..n -> Nat]
  PROVE  Summed(n, w, Sums(n, w))
<1> DEFINE S == {k \in 0..n : \E f : Summed(k, w, f)}
<1>1. 0 \in S
  <2>1. Summed(0, w, [i \in 1..1 |-> 0])
    BY DEF Summed
  <2> QED
    BY <2>1
<1>2. ASSUME NEW k \in 0..n - 1, k \in S
      PROVE  k + 1 \in S
  <2>1. PICK f : Summed(k, w, f)
    BY <1>2
  <2> DEFINE g == [i \in 1..k + 2 |-> IF i = k + 2 THEN f[k + 1] + w[k + 1] ELSE f[i]]
  <2>2. /\ f \in [1..k + 1 -> Nat] /\ f[1] = 0
        /\ \A i \in 1..k : f[i + 1] = f[i] + w[i]
    BY <2>1 DEF Summed
  <2>3. f[k + 1] \in Nat /\ w[k + 1] \in Nat
    BY <2>2
  <2>4. g \in [1..(k + 1) + 1 -> Nat] /\ g[1] = 0
    BY <2>2, <2>3
  <2>5. \A i \in 1..k + 1 : g[i + 1] = g[i] + w[i]
    BY <2>2
  <2>6. Summed(k + 1, w, g)
    BY <2>4, <2>5 DEF Summed
  <2> HIDE DEF g
  <2> QED
    BY <2>6
<1> HIDE DEF S
<1>3. n \in S
  <2>1. n \in 0..n /\ 0 \in Nat
    OBVIOUS
  <2> QED
    BY <1>1, <1>2, <2>1, StepByStep, Zenon
<1>4. \E f : Summed(n, w, f)
  BY <1>3 DEF S
<1> QED
  BY <1>4 DEF Sums

\* and its values are numbers,
LEMMA SumsType ==
  ASSUME NEW n \in Nat, NEW w \in [1..n -> Nat], NEW f, Summed(n, w, f)
  PROVE  /\ f[1] = 0 /\ \A i \in 1..n + 1 : f[i] \in Nat
         /\ \A i \in 1..n : /\ f[i] \in Nat /\ w[i] \in Nat
                             /\ f[i + 1] \in Nat /\ f[i + 1] = f[i] + w[i]
<1>1. f \in [1..n + 1 -> Nat] /\ f[1] = 0 /\ \A i \in 1..n : f[i + 1] = f[i] + w[i]
  BY DEF Summed
<1>2. \A i \in 1..n + 1 : f[i] \in Nat
  BY <1>1
<1>3. \A i \in 1..n : w[i] \in Nat /\ i \in 1..n + 1 /\ i + 1 \in 1..n + 1
  OBVIOUS
<1> QED
  BY <1>1, <1>2, <1>3

\* which grow with what they sum,
LEMMA SumsGrow ==
  ASSUME NEW n \in Nat, NEW w \in [1..n -> Nat], NEW f, Summed(n, w, f),
         NEW i \in 1..n, NEW j \in 1..n + 1, i < j
  PROVE  f[i] + w[i] <= f[j]
<1> DEFINE S == {k \in i + 1..n + 1 : f[i] + w[i] <= f[k]}
<1>0. \A k \in 1..n : f[k + 1] = f[k] + w[k] /\ f[k] \in Nat /\ w[k] \in Nat
  BY SumsType
<1>1. i + 1 \in S
  <2>1. f[i + 1] = f[i] + w[i] /\ f[i] \in Nat /\ w[i] \in Nat
    BY <1>0
  <2> QED
    BY <2>1
<1>2. ASSUME NEW k \in i + 1..j - 1, k \in S
      PROVE  k + 1 \in S
  <2>1. k \in 1..n /\ k + 1 \in i + 1..n + 1
    OBVIOUS
  <2>2. f[k + 1] = f[k] + w[k] /\ f[k] \in Nat /\ w[k] \in Nat /\ f[i] \in Nat /\ w[i] \in Nat
    BY <1>0, <2>1
  <2> QED
    BY <1>2, <2>1, <2>2
<1> HIDE DEF S
<1>3. j \in S
  <2>1. j \in Nat /\ i + 1 \in Nat /\ j \in i + 1..j
    OBVIOUS
  <2> QED
    BY <1>1, <1>2, <2>1, StepByStep, Zenon
<1> QED
  BY <1>3 DEF S

\* and have a place for everything.
LEMMA SumsCover ==
  ASSUME NEW n \in Nat, NEW w \in [1..n -> Nat], NEW f, Summed(n, w, f), NEW x \in 1..f[n + 1]
  PROVE  \E i \in 1..n : \E m \in 1..w[i] : x = f[i] + m
<1> DEFINE Spot(k, y) == \E i \in 1..k : \E m \in 1..w[i] : y = f[i] + m
           S == {k \in 0..n : \A y \in 1..f[k + 1] : Spot(k, y)}
<1>0. f[1] = 0 /\ \A k \in 1..n : f[k + 1] = f[k] + w[k] /\ f[k] \in Nat /\ w[k] \in Nat
  BY SumsType
<1>1. 0 \in S
  BY <1>0
<1>2. ASSUME NEW k \in 0..n - 1, k \in S
      PROVE  k + 1 \in S
  <2>1. f[k + 2] = f[k + 1] + w[k + 1] /\ f[k + 1] \in Nat /\ w[k + 1] \in Nat
    <3>1. k + 1 \in 1..n /\ (k + 1) + 1 = k + 2
      OBVIOUS
    <3> QED
      BY <1>0, <3>1
  <2>2. ASSUME NEW y \in 1..f[k + 2]
        PROVE  Spot(k + 1, y)
    <3>1. CASE y <= f[k + 1]
      <4>1. y \in 1..f[k + 1]
        BY <2>1, <3>1
      <4>2. Spot(k, y)
        BY <1>2, <4>1
      <4> QED
        BY <4>2
    <3>2. CASE y > f[k + 1]
      <4>1. y - f[k + 1] \in 1..w[k + 1] /\ y = f[k + 1] + (y - f[k + 1]) /\ k + 1 \in 1..k + 1
        BY <2>1, <3>2
      <4> QED
        BY <4>1
    <3> QED
      BY <2>1, <3>1, <3>2
  <2>3. (k + 1) + 1 = k + 2 /\ k + 1 \in 0..n
    OBVIOUS
  <2> HIDE DEF Spot
  <2> QED
    BY <2>2, <2>3
<1> HIDE DEF S
<1>3. n \in S
  <2>1. n \in 0..n /\ 0 \in Nat
    OBVIOUS
  <2> QED
    BY <1>1, <1>2, <2>1, StepByStep, Zenon
<1> QED
  BY <1>3 DEF S

--------------------------------------------------------------------------------
\* The lengths of n sequences.
Lengths(n, ss) == [i \in 1..n |-> Len(ss[i])]

\* What FlattenSeq makes of them, by the definition of its function.
Joins(n, ss, g) == g = [i \in 1..n |-> IF i = 1 THEN ss[i] ELSE g[i - 1] \o ss[i]]

\* That definition is met by a function,
LEMMA JoinsExist ==
  ASSUME NEW n \in Nat \ {0}, NEW ss
  PROVE  \E g : Joins(n, ss, g)
<1> DEFINE S == {k \in 1..n : \E g : Joins(k, ss, g)}
<1>1. 1 \in S
  <2>1. Joins(1, ss, [i \in 1..1 |-> ss[i]])
    BY DEF Joins
  <2> QED
    BY <2>1
<1>2. ASSUME NEW k \in 1..n - 1, k \in S
      PROVE  k + 1 \in S
  <2>1. PICK g : Joins(k, ss, g)
    BY <1>2
  <2> DEFINE h == [i \in 1..k + 1 |-> IF i = k + 1 THEN g[k] \o ss[k + 1] ELSE g[i]]
  <2>2. \A i \in 1..k : g[i] = IF i = 1 THEN ss[i] ELSE g[i - 1] \o ss[i]
    BY <2>1 DEF Joins
  <2>3. ASSUME NEW i \in 1..k + 1
        PROVE  h[i] = IF i = 1 THEN ss[i] ELSE h[i - 1] \o ss[i]
    <3>1. CASE i = k + 1
      <4>1. i # 1 /\ i - 1 = k /\ k \in 1..k + 1 /\ k # k + 1
        BY <3>1
      <4> QED
        BY <3>1, <4>1
    <3>2. CASE i \in 1..k /\ i # 1
      <4>1. i - 1 \in 1..k /\ i - 1 \in 1..k + 1 /\ i - 1 # k + 1 /\ i # k + 1
        BY <3>2
      <4>2. h[i] = g[i] /\ h[i - 1] = g[i - 1]
        BY <4>1
      <4> QED
        BY <2>2, <3>2, <4>2
    <3>3. CASE i = 1
      <4>1. h[i] = g[i] /\ i \in 1..k
        BY <3>3
      <4> QED
        BY <2>2, <3>3, <4>1
    <3> QED
      BY <3>1, <3>2, <3>3
  <2>4. h = [i \in 1..k + 1 |-> IF i = 1 THEN ss[i] ELSE h[i - 1] \o ss[i]]
    BY <2>3
  <2> HIDE DEF h
  <2>5. Joins(k + 1, ss, h)
    BY <2>4 DEF Joins
  <2> QED
    BY <2>5
<1> HIDE DEF S
<1>3. n \in S
  <2>1. n \in Nat /\ 1 \in Nat /\ n \in 1..n
    OBVIOUS
  <2> QED
    BY <1>1, <1>2, <2>1, StepByStep, Zenon
<1> QED
  BY <1>3 DEF S

\* Two sequences in one: the elements of the second come behind the first.
LEMMA TwoInOne ==
  ASSUME NEW T, NEW s \in Seq(T), NEW t \in Seq(T)
  PROVE  /\ s \o t \in Seq(T) /\ Len(s \o t) = Len(s) + Len(t)
         /\ \A i \in 1..Len(s) : (s \o t)[i] = s[i]
         /\ \A i \in 1..Len(t) : (s \o t)[Len(s) + i] = t[i]
<1>1. /\ s \o t \in Seq(T) /\ Len(s \o t) = Len(s) + Len(t)
      /\ \A i \in 1..Len(s) + Len(t) : (s \o t)[i] = IF i <= Len(s) THEN s[i] ELSE t[i - Len(s)]
  BY ConcatProperties
<1>2. Len(s) \in Nat /\ Len(t) \in Nat
  OBVIOUS
<1> QED
  BY <1>1, <1>2

\* s is the n sequences joined: every element stands where the lengths before it add up to.
Joined(T, n, ss, f, s) ==
  /\ s \in Seq(T) /\ Len(s) = f[n + 1]
  /\ \A i \in 1..n : \A m \in 1..Len(ss[i]) : s[f[i] + m] = ss[i][m]

\* One sequence more is joined,
LEMMA JoinedMore ==
  ASSUME NEW T, NEW n \in Nat, NEW ss, \A i \in 1..n : ss[i] \in Seq(T),
         NEW f, Summed(n, Lengths(n, ss), f),
         NEW k \in 1..n - 1, NEW s, Joined(T, k, ss, f, s)
  PROVE  Joined(T, k + 1, ss, f, s \o ss[k + 1])
<1> DEFINE w == Lengths(n, ss)
<1>1. w \in [1..n -> Nat] /\ \A i \in 1..n : w[i] = Len(ss[i])
  BY DEF Lengths
<1> HIDE DEF w
<1>2. \A i \in 1..n : f[i] \in Nat /\ f[i + 1] \in Nat /\ f[i + 1] = f[i] + Len(ss[i])
  <2>1. \A i \in 1..n : f[i] \in Nat /\ f[i + 1] \in Nat /\ f[i + 1] = f[i] + w[i]
    BY <1>1, SumsType DEF w
  <2> QED
    BY <1>1, <2>1
<1>3. /\ s \in Seq(T) /\ Len(s) = f[k + 1]
      /\ \A i \in 1..k : \A m \in 1..Len(ss[i]) : s[f[i] + m] = ss[i][m]
  BY DEF Joined
<1>t. PICK t \in Seq(T) : t = ss[k + 1]
  <2>1. k + 1 \in 1..n
    OBVIOUS
  <2> QED
    BY <2>1
<1>4. t \in Seq(T) /\ f[(k + 1) + 1] = f[k + 1] + Len(t) /\ f[k + 1] \in Nat
  <2>1. k + 1 \in 1..n
    OBVIOUS
  <2> QED
    BY <1>2, <1>t, <2>1
<1>5. /\ s \o t \in Seq(T) /\ Len(s \o t) = f[(k + 1) + 1]
      /\ \A i \in 1..Len(s) : (s \o t)[i] = s[i]
      /\ \A i \in 1..Len(t) : (s \o t)[Len(s) + i] = t[i]
  <2>1. s \in Seq(T) /\ t \in Seq(T) /\ Len(s) = f[k + 1]
    BY <1>3, <1>4
  <2>2. s \o t \in Seq(T) /\ Len(s \o t) = Len(s) + Len(t)
    BY <2>1, TwoInOne
  <2>3. \A i \in 1..Len(s) : (s \o t)[i] = s[i]
    BY <2>1, TwoInOne
  <2>4. \A i \in 1..Len(t) : (s \o t)[Len(s) + i] = t[i]
    BY <2>1, TwoInOne
  <2>5. Len(s \o t) = f[(k + 1) + 1]
    BY <1>4, <2>1, <2>2
  <2> QED
    BY <2>2, <2>3, <2>4, <2>5
<1>6. ASSUME NEW i \in 1..k + 1, NEW m \in 1..Len(ss[i])
      PROVE  (s \o t)[f[i] + m] = ss[i][m]
  <2>1. CASE i = k + 1
    BY <1>3, <1>5, <1>t, <2>1
  <2>2. CASE i \in 1..k
    <3>1. f[i] + w[i] <= f[k + 1]
      <4>1. i \in 1..n /\ k + 1 \in 1..n + 1 /\ i < k + 1
        BY <2>2
      <4> QED
        BY <1>1, <4>1, SumsGrow DEF w
    <3>2. i \in 1..n
      BY <2>2
    <3>3. f[i] + m \in 1..f[k + 1]
      <4>1. f[i] \in Nat /\ w[i] = Len(ss[i]) /\ Len(ss[i]) \in Nat /\ f[k + 1] \in Nat
        BY <1>1, <1>2, <1>4, <3>2
      <4> QED
        BY <3>1, <4>1
    <3> QED
      BY <1>3, <1>5, <2>2, <3>3
  <2>3. i = k + 1 \/ i \in 1..k
    OBVIOUS
  <2> QED
    BY <2>1, <2>2, <2>3
<1> QED
  BY <1>5, <1>6, <1>t DEF Joined

\* and so are all of them by FlattenSeq.
LEMMA Flattened ==
  ASSUME NEW T, NEW n \in Nat, NEW ss, ss \in [1..n -> Seq(T)],
         NEW f, Summed(n, Lengths(n, ss), f)
  PROVE  Joined(T, n, ss, f, FlattenSeq(ss))
<1>1. /\ Len(ss) = n /\ \A i \in 1..n : ss[i] \in Seq(T)
  OBVIOUS
<1>2. /\ f[1] = 0
      /\ n # 0 => f[2] = Len(ss[1])
  <2> DEFINE w == Lengths(n, ss)
  <2>1. w \in [1..n -> Nat] /\ \A i \in 1..n : w[i] = Len(ss[i])
    BY <1>1 DEF Lengths
  <2> HIDE DEF w
  <2>2. /\ f[1] = 0
        /\ \A i \in 1..n : f[i] \in Nat /\ w[i] \in Nat /\ f[i + 1] = f[i] + w[i]
    BY <2>1, SumsType DEF w
  <2> QED
    BY <2>1, <2>2
<1>3. CASE n = 0
  <2>1. ss = <<>> /\ Len(ss) = 0
    BY <1>3
  <2>2. FlattenSeq(ss) = <<>>
    BY <2>1 DEF FlattenSeq
  <2>3. f[n + 1] = 0
    BY <1>2, <1>3
  <2> QED
    BY <1>3, <2>2, <2>3 DEF Joined
<1>4. CASE n # 0
  <2> DEFINE g == CHOOSE h : Joins(n, ss, h)
  <2>1. Joins(n, ss, g)
    BY <1>4, JoinsExist
  <2>2. FlattenSeq(ss) = g[n]
    BY <1>1, <1>4 DEF FlattenSeq, Joins
  <2> HIDE DEF g
  <2>3. g[1] = ss[1] /\ \A i \in 1..n - 1 : g[i + 1] = g[i] \o ss[i + 1]
    <3>1. \A i \in 1..n : g[i] = IF i = 1 THEN ss[i] ELSE g[i - 1] \o ss[i]
      BY <2>1 DEF Joins
    <3>2. 1 \in 1..n /\ \A i \in 1..n - 1 : i + 1 \in 1..n /\ i + 1 # 1 /\ (i + 1) - 1 = i
      BY <1>4
    <3> QED
      BY <3>1, <3>2
  <2> DEFINE S == {k \in 1..n : Joined(T, k, ss, f, g[k])}
  <2>4. 1 \in S
    <3>1. ss[1] \in Seq(T) /\ 1 \in 1..n
      BY <1>1, <1>4
    <3>2. ss[1] \in Seq(T) /\ Len(ss[1]) = f[1 + 1]
      BY <1>2, <1>4, <3>1
    <3>3. \A i \in 1..1 : \A m \in 1..Len(ss[i]) : f[i] + m = m
      BY <1>2
    <3>4. \A i \in 1..1 : \A m \in 1..Len(ss[i]) : ss[1][f[i] + m] = ss[i][m]
      BY <3>3
    <3>5. Joined(T, 1, ss, f, ss[1])
      BY <3>2, <3>4 DEF Joined
    <3> QED
      BY <2>3, <3>1, <3>5
  <2>5. ASSUME NEW k \in 1..n - 1, k \in S
        PROVE  k + 1 \in S
    <3>1. g[k + 1] = g[k] \o ss[k + 1]
      BY <2>3
    <3>2. Joined(T, k + 1, ss, f, g[k] \o ss[k + 1])
      BY <1>1, <2>5, JoinedMore
    <3>3. k + 1 \in 1..n
      OBVIOUS
    <3> QED
      BY <3>1, <3>2, <3>3
  <2> HIDE DEF S
  <2>6. n \in S
    <3>1. n \in Nat /\ 1 \in Nat /\ n \in 1..n
      BY <1>4
    <3> QED
      BY <2>4, <2>5, <3>1, StepByStep, Zenon
  <2> QED
    BY <2>2, <2>6 DEF S
<1> QED
  BY <1>3, <1>4
--------------------------------------------------------------------------------
\* The lines of a disassembly: those of a word, and how many lines come before.
N         == Len(rom.words)
Blocks    == [i \in 1..N |-> WordLines(rom, i)]
Ahead     == Sums(N, Lengths(N, Blocks))
Low(x)    == [Word("def", x) EXCEPT !.upper = FALSE]
CodeOf(i)   == Instruction(rom, rom.words[i])

\* The program in memory is taken apart.
Disassembled == rom \in Roms /\ program = Disassembly(rom)

\* Line j defines the label of address a: in front of word i, which is there or at it.
Leads(i, j, a) ==
  /\ Shown(rom, a)
  /\ \/ a = Address(i) /\ j = Ahead[i] + 1 /\ (i = N + 1 => rom.half)
     \/ a = Address(i) + 1 /\ i # N + 1 /\ j = Ahead[i] + Len(LabelLine(rom, Address(i))) + 1

\* The constants, and what they say of a program.
LEMMA Constants ==
  /\ ProgStart \in Nat /\ ProgStart % 2 = 0 /\ CountSize \in Nat \ {0}
  /\ rom \in Roms => /\ N \in Nat /\ DOMAIN rom.words = 1..N /\ rom.half \in BOOLEAN
                     /\ \A i \in 1..N : IsRomWord(rom.words[i])
<1>1. ProgStart \in Nat /\ ProgStart % 2 = 0 /\ CountSize \in Nat \ {0}
  BY AssemblerAssumption, DisassemblerAssumption
<1>2. ASSUME rom \in Roms
      PROVE  /\ N \in Nat /\ DOMAIN rom.words = 1..N /\ rom.half \in BOOLEAN
             /\ \A i \in 1..N : IsRomWord(rom.words[i])
  <2>1. IsRom(rom)
    BY <1>2, RomAssumption
  <2>2. rom.words \in Seq(Range(rom.words))
    BY <2>1 DEF IsRom
  <2>3. N \in Nat /\ DOMAIN rom.words = 1..N
    BY <2>2 DEF N
  <2> QED
    BY <2>1, <2>3 DEF IsRom
<1> QED
  BY <1>1, <1>2

\* Words are at even addresses, each at its own.
LEMMA Addresses ==
  ASSUME NEW i \in Nat \ {0}, NEW k \in Nat \ {0}
  PROVE  /\ Address(i) \in Nat /\ Address(i) % 2 = 0 /\ (Address(i) + 1) % 2 = 1
         /\ Address(i) = Address(k) => i = k
         /\ Address(i) # Address(k) + 1
         /\ Address(i) + 1 = Address(k) + 1 => i = k
<1>1. ProgStart \in Nat /\ ProgStart % 2 = 0
  BY Constants
<1>2. Address(i) = ProgStart + 2 * (i - 1) /\ Address(k) = ProgStart + 2 * (k - 1)
  BY DEF Address
<1> QED
  BY <1>1, <1>2

\* One element behind one, and behind two.
LEMMA Tuples ==
  ASSUME NEW l, NEW m, NEW c
  PROVE  /\ <<l>> \o <<c>> = <<l, c>> /\ <<l, m>> \o <<c>> = <<l, m, c>>
         /\ <<>> \o <<c>> = <<c>> /\ <<c>> \o <<>> = <<c>> /\ <<>> \o <<>> = <<>>
<1> DEFINE S == {l, m, c}
<1>1. /\ <<l>> \in Seq(S) /\ <<c>> \in Seq(S) /\ Len(<<l>>) = 1 /\ Len(<<c>>) = 1
      /\ <<l, m>> \in Seq(S) /\ Len(<<l, m>>) = 2
  OBVIOUS
<1>2. PICK x : x = <<l>> \o <<c>>
  OBVIOUS
<1>3. x \in Seq(S) /\ Len(x) = 2 /\ x[1] = l /\ x[2] = c
  BY <1>1, <1>2, ConcatProperties
<1>4. PICK y : y = <<l, m>> \o <<c>>
  OBVIOUS
<1>5. y \in Seq(S) /\ Len(y) = 3 /\ y[1] = l /\ y[2] = m /\ y[3] = c
  BY <1>1, <1>4, ConcatProperties
<1> HIDE DEF S
<1>6. x = <<x[1], x[2]>>
  BY <1>3
<1>7. y = <<y[1], y[2], y[3]>>
  BY <1>5
<1> QED
  BY <1>2, <1>3, <1>4, <1>5, <1>6, <1>7

\* A block is its labels and its code.
LEMMA BlockIs ==
  ASSUME rom \in Roms, NEW i \in 1..N
  PROVE  LET a == Address(i)
             p == IF Shown(rom, a) THEN 1 ELSE 0
             q == IF Shown(rom, a + 1) THEN 1 ELSE 0
             b == WordLines(rom, i)
         IN  /\ Len(LabelLine(rom, a)) = p
             /\ Len(b) = p + q + 1 /\ DOMAIN b = 1..p + q + 1
             /\ b[p + q + 1] = CodeOf(i)
             /\ p = 1 => b[1] = <<Low(Label(rom, a))>>
             /\ q = 1 => b[p + 1] = <<Low(Label(rom, a + 1))>>
<1> DEFINE a == Address(i)
           b == WordLines(rom, i)
           l == <<Low(Label(rom, a))>>
           m == <<Low(Label(rom, a + 1))>>
<1>1. LabelLine(rom, a) = IF Shown(rom, a) THEN <<l>> ELSE <<>>
  BY DEF LabelLine, Low
<1>2. LabelLine(rom, a + 1) = IF Shown(rom, a + 1) THEN <<m>> ELSE <<>>
  BY DEF LabelLine, Low
<1>3. b = (LabelLine(rom, a) \o LabelLine(rom, a + 1)) \o <<CodeOf(i)>>
  BY DEF WordLines, CodeOf
<1> HIDE DEF a, b, l, m
<1>4. CASE Shown(rom, a) /\ Shown(rom, a + 1)
  <2>0. <<l>> \o <<m>> = <<l, m>> /\ <<l, m>> \o <<CodeOf(i)>> = <<l, m, CodeOf(i)>>
    BY Tuples, Zenon
  <2>1. b = <<l, m, CodeOf(i)>>
    BY <1>1, <1>2, <1>3, <1>4, <2>0
  <2> QED
    BY <1>1, <1>4, <2>1 DEF a, b, l, m
<1>5. CASE Shown(rom, a) /\ ~Shown(rom, a + 1)
  <2>1. b = <<l, CodeOf(i)>>
    BY <1>1, <1>2, <1>3, <1>5, Tuples
  <2> QED
    BY <1>1, <1>5, <2>1 DEF a, b, l, m
<1>6. CASE ~Shown(rom, a) /\ Shown(rom, a + 1)
  <2>1. b = <<m, CodeOf(i)>>
    BY <1>1, <1>2, <1>3, <1>6, Tuples
  <2> QED
    BY <1>1, <1>6, <2>1 DEF a, b, l, m
<1>7. CASE ~Shown(rom, a) /\ ~Shown(rom, a + 1)
  <2>1. b = <<CodeOf(i)>>
    BY <1>1, <1>2, <1>3, <1>7, Tuples
  <2> QED
    BY <1>1, <1>7, <2>1 DEF a, b, l, m
<1> QED
  BY <1>4, <1>5, <1>6, <1>7

\* What a line can be.
LineSet == {<<Low(x)>> : x \in Nat} \cup {CodeOf(i) : i \in 1..N}

\* A label's number is one, and it is in its type.
LEMMA LabelNumber ==
  ASSUME rom \in Roms, NEW a
  PROVE  /\ Jumps(rom) \subseteq 1..N /\ IsFiniteSet(Jumps(rom)) /\ Cardinality(Jumps(rom)) \in Nat
         /\ Label(rom, a) \in 0..CountSize - 1
<1>1. N \in Nat /\ DOMAIN rom.words = 1..N /\ CountSize \in Nat \ {0}
  BY Constants
<1>2. Jumps(rom) \subseteq 1..N
  BY <1>1 DEF Jumps
<1>3. IsFiniteSet(Jumps(rom)) /\ Cardinality(Jumps(rom)) \in Nat
  <2>1. 1 \in Int /\ N \in Int
    BY <1>1
  <2>2. IsFiniteSet(1..N)
    BY <2>1, FS_Interval
  <2>3. IsFiniteSet(Jumps(rom))
    BY <1>2, <2>2, FS_Subset
  <2> QED
    BY <2>3, FS_CardinalityType
<1>4. ASSUME NEW M
      PROVE  Cardinality({i \in Jumps(rom) : i <= M}) % CountSize \in 0..CountSize - 1
  <2>1. {i \in Jumps(rom) : i <= M} \subseteq Jumps(rom)
    OBVIOUS
  <2>2. Cardinality({i \in Jumps(rom) : i <= M}) \in Nat
    BY <1>3, <2>1, FS_Subset, FS_CardinalityType
  <2> QED
    BY <1>1, <2>2
<1>5. 0 \in 0..CountSize - 1
  BY <1>1
<1> QED
  BY <1>2, <1>3, <1>4, <1>5 DEF Label

\* The blocks stand one behind the other, and the label of half a word behind them.
LEMMA ProgramIs ==
  ASSUME Disassembled
  PROVE  /\ Lengths(N, Blocks) \in [1..N -> Nat] /\ Summed(N, Lengths(N, Blocks), Ahead)
         /\ \A i \in 1..N : Lengths(N, Blocks)[i] = Len(Blocks[i])
         /\ program \in Seq(LineSet)
         /\ Len(program) = Ahead[N + 1] + (IF rom.half /\ Shown(rom, Address(N + 1)) THEN 1 ELSE 0)
         /\ \A i \in 1..N : \A m \in 1..Len(Blocks[i]) : program[Ahead[i] + m] = Blocks[i][m]
         /\ rom.half /\ Shown(rom, Address(N + 1)) =>
              program[Ahead[N + 1] + 1] = <<Low(Label(rom, Address(N + 1)))>>
<1>1. rom \in Roms /\ N \in Nat /\ DOMAIN rom.words = 1..N /\ rom.half \in BOOLEAN
  BY Constants DEF Disassembled
<1>2. \A a : Label(rom, a) \in Nat
  BY <1>1, LabelNumber, Constants
<1>3. \A a : LabelLine(rom, a) = IF Shown(rom, a) THEN << <<Low(Label(rom, a))>> >> ELSE <<>>
  BY DEF LabelLine, Low
<1>4. \A a : LabelLine(rom, a) \in Seq(LineSet)
  <2>1. \A x \in Nat : <<Low(x)>> \in LineSet
    BY DEF LineSet
  <2>2. \A x : x \in LineSet => <<x>> \in Seq(LineSet)
    OBVIOUS
  <2>3. <<>> \in Seq(LineSet)
    OBVIOUS
  <2> QED
    BY <1>2, <1>3, <2>1, <2>2, <2>3
<1>5. \A i \in 1..N : WordLines(rom, i) \in Seq(LineSet)
  <2> SUFFICES ASSUME NEW i \in 1..N
               PROVE  WordLines(rom, i) \in Seq(LineSet)
    OBVIOUS
  <2>1. CodeOf(i) \in LineSet
    BY DEF LineSet
  <2>2. <<CodeOf(i)>> \in Seq(LineSet)
    BY <2>1
  <2>3. LabelLine(rom, Address(i)) \o LabelLine(rom, Address(i) + 1) \in Seq(LineSet)
    BY <1>4, ConcatProperties
  <2>4. (LabelLine(rom, Address(i)) \o LabelLine(rom, Address(i) + 1)) \o <<CodeOf(i)>> \in Seq(LineSet)
    BY <2>2, <2>3, ConcatProperties
  <2> QED
    BY <2>4 DEF WordLines, CodeOf
<1>6. Blocks \in [1..N -> Seq(LineSet)]
  BY <1>5 DEF Blocks
<1>7. Lengths(N, Blocks) \in [1..N -> Nat] /\ \A i \in 1..N : Lengths(N, Blocks)[i] = Len(Blocks[i])
  BY <1>6 DEF Lengths
<1>8. Summed(N, Lengths(N, Blocks), Ahead)
  BY <1>1, <1>7, SumsAre DEF Ahead
<1>9. Joined(LineSet, N, Blocks, Ahead, FlattenSeq(Blocks))
  BY <1>1, <1>6, <1>8, Flattened
<1> DEFINE s == FlattenSeq(Blocks)
           t == IF rom.half THEN LabelLine(rom, Address(N + 1)) ELSE <<>>
<1>10. program = s \o t
  BY <1>1 DEF Disassembled, Disassembly, Blocks, N
<1>11. /\ s \in Seq(LineSet) /\ Len(s) = Ahead[N + 1]
       /\ \A i \in 1..N : \A m \in 1..Len(Blocks[i]) : s[Ahead[i] + m] = Blocks[i][m]
  BY <1>9 DEF Joined
<1> HIDE DEF s
<1>12. t \in Seq(LineSet)
  BY <1>4
<1>13. Len(t) = IF rom.half /\ Shown(rom, Address(N + 1)) THEN 1 ELSE 0
  <2>1. CASE rom.half /\ Shown(rom, Address(N + 1))
    <3>1. t = << <<Low(Label(rom, Address(N + 1)))>> >>
      BY <1>3, <2>1
    <3> QED
      BY <2>1, <3>1
  <2>2. CASE ~(rom.half /\ Shown(rom, Address(N + 1)))
    <3>1. t = <<>>
      BY <1>3, <2>2
    <3> QED
      BY <2>2, <3>1
  <2> QED
    BY <2>1, <2>2
<1>14. rom.half /\ Shown(rom, Address(N + 1)) => t[1] = <<Low(Label(rom, Address(N + 1)))>>
  BY <1>3
<1> HIDE DEF t
<1>15. /\ program \in Seq(LineSet) /\ Len(program) = Len(s) + Len(t)
       /\ \A i \in 1..Len(s) : program[i] = s[i]
       /\ \A i \in 1..Len(t) : program[Len(s) + i] = t[i]
  <2>1. s \o t \in Seq(LineSet) /\ Len(s \o t) = Len(s) + Len(t)
    BY <1>11, <1>12, TwoInOne
  <2>2. \A i \in 1..Len(s) : (s \o t)[i] = s[i]
    BY <1>11, <1>12, TwoInOne
  <2>3. \A i \in 1..Len(t) : (s \o t)[Len(s) + i] = t[i]
    BY <1>11, <1>12, TwoInOne
  <2> QED
    BY <1>10, <2>1, <2>2, <2>3
<1>16. ASSUME NEW i \in 1..N, NEW m \in 1..Len(Blocks[i])
       PROVE  program[Ahead[i] + m] = Blocks[i][m]
  <2>1. Ahead[i] + Len(Blocks[i]) <= Ahead[N + 1]
    <3>1. N + 1 \in 1..N + 1 /\ i < N + 1
      BY <1>1
    <3> QED
      BY <1>1, <1>7, <1>8, <3>1, SumsGrow
  <2>2. Ahead[i] \in Nat /\ Ahead[N + 1] \in Nat /\ Len(Blocks[i]) \in Nat
    <3>1. N + 1 \in 1..N + 1 /\ i \in 1..N + 1
      BY <1>1
    <3>2. Ahead[i] \in Nat /\ Ahead[N + 1] \in Nat
      BY <1>1, <1>7, <1>8, <3>1, SumsType
    <3>3. Len(Blocks[i]) \in Nat
      BY <1>7
    <3> QED
      BY <3>2, <3>3
  <2>3. Ahead[i] + m \in 1..Len(s)
    BY <1>11, <2>1, <2>2
  <2> QED
    BY <1>11, <1>15, <2>3
<1>17. rom.half /\ Shown(rom, Address(N + 1)) =>
         program[Ahead[N + 1] + 1] = <<Low(Label(rom, Address(N + 1)))>>
  BY <1>11, <1>13, <1>14, <1>15
<1> QED
  BY <1>7, <1>8, <1>11, <1>13, <1>15, <1>16, <1>17

--------------------------------------------------------------------------------
\* Line j is of word i, or behind all words.
InBlock(i, j) == i \in 1..N + 1 /\ Ahead[i] < j /\ (i # N + 1 => j <= Ahead[i + 1])

\* Line j is the code of word i, or defines a label in front of it.
CodeAt(i, j) == i # N + 1 /\ j = Ahead[i + 1] /\ program[j] = CodeOf(i)
LeadAt(i, j) == \E a : Leads(i, j, a) /\ program[j] = <<Low(Label(rom, a))>>

\* What the lines before a block are.
LEMMA AheadIs ==
  ASSUME Disassembled
  PROVE  /\ N \in Nat /\ Ahead[1] = 0 /\ Ahead[N + 1] \in Nat
         /\ \A i \in 1..N : /\ Ahead[i] \in Nat /\ Ahead[i + 1] \in Nat
                            /\ Len(WordLines(rom, i)) \in Nat \ {0}
                            /\ Ahead[i + 1] = Ahead[i] + Len(WordLines(rom, i))
                            /\ Ahead[i + 1] <= Ahead[N + 1]
         /\ \A i, k \in 1..N + 1 : i < k => Ahead[i + 1] <= Ahead[k]
         /\ program \in Seq(LineSet)
         /\ Len(program) = Ahead[N + 1] + (IF rom.half /\ Shown(rom, Address(N + 1)) THEN 1 ELSE 0)
<1>1. rom \in Roms /\ N \in Nat
  BY Constants DEF Disassembled
<1>2. PICK w \in [1..N -> Nat] : w = Lengths(N, Blocks)
  BY ProgramIs
<1>3. Summed(N, w, Ahead)
  BY <1>2, ProgramIs
<1>4. Ahead[1] = 0 /\ \A i \in 1..N + 1 : Ahead[i] \in Nat
  BY <1>1, <1>3, SumsType
<1>5. \A i \in 1..N : Ahead[i + 1] = Ahead[i] + w[i]
  BY <1>1, <1>3, SumsType
<1>6. \A i \in 1..N : w[i] = Len(WordLines(rom, i))
  <2>1. \A i \in 1..N : w[i] = Len(Blocks[i])
    BY <1>2 DEF Lengths
  <2> QED
    BY <2>1 DEF Blocks
<1>7. \A i \in 1..N : Len(WordLines(rom, i)) \in Nat \ {0}
  <2> SUFFICES ASSUME NEW i \in 1..N
               PROVE  Len(WordLines(rom, i)) \in Nat \ {0}
    OBVIOUS
  <2>1. \E p \in {0, 1} : \E q \in {0, 1} : Len(WordLines(rom, i)) = p + q + 1
    BY <1>1, BlockIs
  <2> QED
    BY <2>1
<1>8. \A i \in 1..N : \A k \in 1..N + 1 : i < k => Ahead[i] + w[i] <= Ahead[k]
  BY <1>1, <1>3, SumsGrow
<1>9. \A i \in 1..N : i \in 1..N + 1 /\ i + 1 \in 1..N + 1 /\ N + 1 \in 1..N + 1 /\ i < N + 1
  BY <1>1
<1>10. \A i \in 1..N : Ahead[i + 1] <= Ahead[N + 1]
  BY <1>5, <1>8, <1>9
<1>11. \A i, k \in 1..N + 1 : i < k => i \in 1..N
  BY <1>1
<1>12. \A i, k \in 1..N + 1 : i < k => Ahead[i + 1] <= Ahead[k]
  BY <1>5, <1>8, <1>11
<1>13. Ahead[N + 1] \in Nat
  BY <1>1, <1>4
<1>14. /\ program \in Seq(LineSet)
       /\ Len(program) = Ahead[N + 1] + (IF rom.half /\ Shown(rom, Address(N + 1)) THEN 1 ELSE 0)
  BY ProgramIs
<1> QED
  BY <1>1, <1>4, <1>5, <1>6, <1>7, <1>9, <1>10, <1>12, <1>13, <1>14

\* The code of a word is behind its labels.
LEMMA CodeIs ==
  ASSUME Disassembled, NEW i \in 1..N
  PROVE  CodeAt(i, Ahead[i + 1]) /\ Ahead[i + 1] \in 1..Len(program) /\ InBlock(i, Ahead[i + 1])
<1>1. /\ N \in Nat /\ Ahead[i] \in Nat /\ Ahead[i + 1] \in Nat /\ Len(WordLines(rom, i)) \in Nat \ {0}
      /\ Ahead[i + 1] = Ahead[i] + Len(WordLines(rom, i)) /\ Ahead[i + 1] <= Ahead[N + 1]
      /\ Ahead[N + 1] \in Nat /\ Ahead[N + 1] <= Len(program) /\ Len(program) \in Nat
  BY AheadIs
<1>2. WordLines(rom, i)[Len(WordLines(rom, i))] = CodeOf(i)
  BY BlockIs DEF Disassembled
<1>3. program[Ahead[i] + Len(WordLines(rom, i))] = WordLines(rom, i)[Len(WordLines(rom, i))]
  <2>1. \A m \in 1..Len(Blocks[i]) : program[Ahead[i] + m] = Blocks[i][m]
    BY ProgramIs
  <2>2. Blocks[i] = WordLines(rom, i)
    BY DEF Blocks
  <2> QED
    BY <1>1, <2>1, <2>2
<1>4. CodeAt(i, Ahead[i + 1])
  BY <1>1, <1>2, <1>3 DEF CodeAt
<1> QED
  BY <1>1, <1>4 DEF InBlock

\* A label shown is in front of its word.
LEMMA LeadIs ==
  ASSUME Disassembled, NEW i \in 1..N + 1, NEW j, NEW a, Leads(i, j, a)
  PROVE  /\ j \in 1..Len(program) /\ InBlock(i, j) /\ program[j] = <<Low(Label(rom, a))>>
         /\ i # N + 1 => j < Ahead[i + 1]
<1>1. /\ N \in Nat /\ Ahead[N + 1] \in Nat /\ Len(program) \in Nat
      /\ Len(program) = Ahead[N + 1] + (IF rom.half /\ Shown(rom, Address(N + 1)) THEN 1 ELSE 0)
  BY AheadIs
<1>2. CASE i = N + 1
  <2>1. a = Address(N + 1) /\ j = Ahead[N + 1] + 1 /\ rom.half /\ Shown(rom, Address(N + 1))
    BY <1>2 DEF Leads
  <2>2. program[Ahead[N + 1] + 1] = <<Low(Label(rom, Address(N + 1)))>>
    BY <2>1, ProgramIs
  <2> QED
    BY <1>1, <1>2, <2>1, <2>2 DEF InBlock
<1>3. CASE i # N + 1
  <2>1. i \in 1..N
    BY <1>1, <1>3
  <2>2. /\ Ahead[i] \in Nat /\ Ahead[i + 1] \in Nat
        /\ Ahead[i + 1] = Ahead[i] + Len(WordLines(rom, i)) /\ Ahead[i + 1] <= Ahead[N + 1]
    BY <2>1, AheadIs
  <2> DEFINE b == WordLines(rom, i)
             p == IF Shown(rom, Address(i)) THEN 1 ELSE 0
             q == IF Shown(rom, Address(i) + 1) THEN 1 ELSE 0
  <2>3. /\ Len(LabelLine(rom, Address(i))) = p /\ Len(b) = p + q + 1
        /\ p = 1 => b[1] = <<Low(Label(rom, Address(i)))>>
        /\ q = 1 => b[p + 1] = <<Low(Label(rom, Address(i) + 1))>>
    BY <2>1, BlockIs DEF Disassembled
  <2>4. \A m \in 1..Len(b) : program[Ahead[i] + m] = b[m]
    <3>1. \A m \in 1..Len(Blocks[i]) : program[Ahead[i] + m] = Blocks[i][m]
      BY <2>1, ProgramIs
    <3>2. Blocks[i] = b
      BY <2>1 DEF Blocks
    <3> QED
      BY <3>1, <3>2
  <2>5. \E m \in 1..p + q : j = Ahead[i] + m /\ b[m] = <<Low(Label(rom, a))>>
    <3>1. CASE a = Address(i) /\ j = Ahead[i] + 1
      <4>1. Shown(rom, Address(i))
        BY <3>1 DEF Leads
      <4>2. p = 1
        BY <4>1
      <4>3. 1 \in 1..p + q
        BY <4>2
      <4> QED
        BY <2>3, <3>1, <4>2, <4>3
    <3>2. CASE a = Address(i) + 1 /\ j = Ahead[i] + Len(LabelLine(rom, Address(i))) + 1
      <4>1. Shown(rom, Address(i) + 1)
        BY <3>2 DEF Leads
      <4>2. q = 1
        BY <4>1
      <4>3. p + 1 \in 1..p + q /\ j = Ahead[i] + (p + 1)
        BY <2>2, <2>3, <3>2, <4>2
      <4> QED
        BY <2>3, <3>2, <4>2, <4>3
    <3> QED
      BY <3>1, <3>2 DEF Leads
  <2>6. PICK m \in 1..p + q : j = Ahead[i] + m /\ b[m] = <<Low(Label(rom, a))>>
    BY <2>5
  <2>7. p + q \in Nat /\ m \in 1..Len(b) /\ m < Len(b)
    BY <2>3
  <2>8. program[j] = <<Low(Label(rom, a))>>
    BY <2>4, <2>6, <2>7
  <2>9. Ahead[i] < j /\ j < Ahead[i + 1] /\ Ahead[i + 1] <= Len(program) /\ j \in Nat
    BY <1>1, <2>2, <2>3, <2>6, <2>7
  <2> QED
    BY <1>1, <2>2, <2>8, <2>9 DEF InBlock
<1> QED
  BY <1>2, <1>3

\* Every line of a block is its code or a label.
LEMMA LineIs ==
  ASSUME Disassembled, NEW j \in 1..Len(program), NEW i, InBlock(i, j)
  PROVE  \/ CodeAt(i, j) /\ InBlock(i + 1, j + 1)
         \/ LeadAt(i, j) /\ InBlock(i, j + 1)
<1>1. /\ N \in Nat /\ Ahead[N + 1] \in Nat /\ Len(program) \in Nat /\ i \in 1..N + 1
      /\ Len(program) = Ahead[N + 1] + (IF rom.half /\ Shown(rom, Address(N + 1)) THEN 1 ELSE 0)
  BY AheadIs DEF InBlock
<1>2. CASE i = N + 1
  <2>1. Ahead[N + 1] < j
    BY <1>2 DEF InBlock
  <2>2. rom.half /\ Shown(rom, Address(N + 1)) /\ j = Ahead[N + 1] + 1
    BY <1>1, <2>1
  <2>3. Leads(i, j, Address(N + 1))
    BY <1>2, <2>2 DEF Leads
  <2>4. program[j] = <<Low(Label(rom, Address(N + 1)))>>
    BY <1>1, <2>3, LeadIs
  <2>5. LeadAt(i, j)
    BY <2>3, <2>4 DEF LeadAt
  <2>6. InBlock(i, j + 1)
    BY <1>1, <1>2, <2>1 DEF InBlock
  <2> QED
    BY <2>5, <2>6
<1>3. CASE i # N + 1
  <2>1. i \in 1..N
    BY <1>1, <1>3
  <2>2. /\ Ahead[i] \in Nat /\ Ahead[i + 1] \in Nat
        /\ Ahead[i + 1] = Ahead[i] + Len(WordLines(rom, i)) /\ Ahead[i] < j /\ j <= Ahead[i + 1]
    BY <1>3, <2>1, AheadIs DEF InBlock
  <2>3. CASE j = Ahead[i + 1]
    <3>1. CodeAt(i, j)
      BY <2>1, <2>3, CodeIs
    <3>2. InBlock(i + 1, j + 1)
      <4>1. i + 1 # N + 1 => i + 1 \in 1..N
        BY <1>1, <2>1
      <4>2. i + 1 # N + 1 => Ahead[(i + 1) + 1] = Ahead[i + 1] + Len(WordLines(rom, i + 1))
                             /\ Len(WordLines(rom, i + 1)) \in Nat \ {0}
        BY <4>1, AheadIs
      <4> QED
        BY <1>1, <2>1, <2>2, <2>3, <4>2 DEF InBlock
    <3> QED
      BY <3>1, <3>2
  <2>4. CASE j < Ahead[i + 1]
    <3> DEFINE p == IF Shown(rom, Address(i)) THEN 1 ELSE 0
               q == IF Shown(rom, Address(i) + 1) THEN 1 ELSE 0
    <3>1. Len(LabelLine(rom, Address(i))) = p /\ Len(WordLines(rom, i)) = p + q + 1
      BY <2>1, BlockIs DEF Disassembled
    <3>2. \E a : Leads(i, j, a)
      <4>1. CASE Shown(rom, Address(i)) /\ j = Ahead[i] + 1
        BY <1>3, <4>1 DEF Leads
      <4>2. CASE ~(Shown(rom, Address(i)) /\ j = Ahead[i] + 1)
        <5>1. Shown(rom, Address(i) + 1) /\ j = Ahead[i] + p + 1
          BY <2>2, <2>4, <3>1, <4>2
        <5> QED
          BY <1>3, <3>1, <5>1 DEF Leads
      <4> QED
        BY <4>1, <4>2
    <3>3. PICK a : Leads(i, j, a)
      BY <3>2
    <3>4. LeadAt(i, j)
      BY <1>1, <3>3, LeadIs DEF LeadAt
    <3>5. InBlock(i, j + 1)
      BY <1>1, <2>2, <2>4 DEF InBlock
    <3> QED
      BY <3>4, <3>5
  <2> QED
    BY <2>2, <2>3, <2>4
<1> QED
  BY <1>2, <1>3

\* Every line is of a block,
LEMMA SomeBlock ==
  ASSUME Disassembled, NEW j \in 1..Len(program) + 1
  PROVE  \E i : InBlock(i, j)
<1> DEFINE S == {k \in 1..Len(program) + 1 : \E i : InBlock(i, k)}
<1>1. Len(program) \in Nat /\ N \in Nat /\ Ahead[1] = 0
  BY AheadIs
<1>2. 1 \in S
  <2>1. N # 0 => Ahead[2] >= 1
    <3>1. N # 0 => 1 \in 1..N /\ 1 + 1 = 2
      BY <1>1
    <3>2. N # 0 => Ahead[2] = Ahead[1] + Len(WordLines(rom, 1)) /\ Len(WordLines(rom, 1)) \in Nat \ {0}
      BY <3>1, AheadIs
    <3> QED
      BY <1>1, <3>2
  <2>2. InBlock(1, 1)
    BY <1>1, <2>1 DEF InBlock
  <2> QED
    BY <1>1, <2>2
<1>3. ASSUME NEW k \in 1..j - 1, k \in S
      PROVE  k + 1 \in S
  <2>1. PICK i : InBlock(i, k)
    BY <1>3
  <2>2. k \in 1..Len(program) /\ k + 1 \in 1..Len(program) + 1
    BY <1>1
  <2>3. InBlock(i + 1, k + 1) \/ InBlock(i, k + 1)
    BY <2>1, <2>2, LineIs
  <2> QED
    BY <2>2, <2>3
<1> HIDE DEF S
<1>4. j \in S
  <2>1. j \in Nat /\ 1 \in Nat /\ j \in 1..j
    BY <1>1
  <2> QED
    BY <1>2, <1>3, <2>1, StepByStep, Zenon
<1> QED
  BY <1>4 DEF S

\* and of one only.
LEMMA OneBlock ==
  ASSUME Disassembled, NEW i, NEW k, NEW j \in Nat, InBlock(i, j), InBlock(k, j)
  PROVE  i = k
<1>1. /\ N \in Nat /\ i \in 1..N + 1 /\ k \in 1..N + 1 /\ Ahead[i] < j /\ Ahead[k] < j
      /\ i # N + 1 => j <= Ahead[i + 1]
      /\ k # N + 1 => j <= Ahead[k + 1]
  BY AheadIs DEF InBlock
<1>2. ASSUME i < k PROVE FALSE
  <2>1. Ahead[i + 1] <= Ahead[k] /\ i \in 1..N
    BY <1>1, <1>2, AheadIs
  <2>2. Ahead[i + 1] \in Nat /\ Ahead[k] \in Nat
    <3>1. k = N + 1 \/ k \in 1..N
      BY <1>1
    <3> QED
      BY <2>1, <3>1, AheadIs
  <2> QED
    BY <1>1, <2>1, <2>2
<1>3. ASSUME k < i PROVE FALSE
  <2>1. Ahead[k + 1] <= Ahead[i] /\ k \in 1..N
    BY <1>1, <1>3, AheadIs
  <2>2. Ahead[k + 1] \in Nat /\ Ahead[i] \in Nat
    <3>1. i = N + 1 \/ i \in 1..N
      BY <1>1
    <3> QED
      BY <2>1, <3>1, AheadIs
  <2> QED
    BY <1>1, <2>1, <2>2
<1> QED
  BY <1>1, <1>2, <1>3

--------------------------------------------------------------------------------
\* Max is what it is called.
LEMMA MaxOf ==
  ASSUME NEW n \in Nat, NEW S \in SUBSET (1..n), S # {}
  PROVE  Max(S) \in S /\ \A y \in S : Max(S) >= y
<1> DEFINE B == {m \in 1..n : \A y \in S : m >= y}
<1>1. B \in SUBSET Nat /\ n \in B
  <2>1. PICK y \in S : y \in 1..n
    OBVIOUS
  <2>2. n \in 1..n
    BY <2>1
  <2> QED
    BY <2>2
<1>2. Min(B) \in B /\ \A y \in B : Min(B) <= y
  BY <1>1, MinOf
<1>3. PICK m : m = Min(B)
  OBVIOUS
<1>4. m \in 1..n /\ (\A y \in S : m >= y) /\ \A y \in B : m <= y
  BY <1>2, <1>3
<1>5. m \in S
  <2> SUFFICES ASSUME m \notin S PROVE FALSE
    OBVIOUS
  <2>1. PICK y \in S : y \in 1..n
    OBVIOUS
  <2>2. m - 1 \in 1..n /\ \A z \in S : m - 1 >= z
    BY <1>4, <2>1
  <2>3. m - 1 \in B
    BY <2>2
  <2> QED
    BY <1>4, <2>3
<1>6. \E x \in S : \A y \in S : x >= y
  BY <1>4, <1>5
<1> QED
  BY <1>6 DEF Max

\* An operand and the kind it is of.
IsOperand(a, kind) ==
  \/ a = Word("register", a.of) /\ kind = "v" /\ a.of \in 0..NibbleSize - 1
  \/ /\ a = Word("number", a.of) /\ kind \in {"int4", "int8"} /\ a.of \in 0..ByteSize - 1
     /\ kind = "int4" => a.of < NibbleSize
  \/ a = Word("address", a.of) /\ kind = "int12" /\ a.of \in 0..AddrSize - 1
  \/ a = Word("reserved", kind) /\ kind \in Operands \ (Integers4To12 \cup {"v"})

\* The operands that are found are that,
LEMMA OperandIs ==
  ASSUME NEW kind \in Operands, NEW a \in OperandsOf(kind)
  PROVE  IsOperand(a, kind)
<1>1. \A t, x : Word(t, x).of = x
  BY DEF Word
<1>2. NibbleSize \in Nat /\ ByteSize \in Nat /\ NibbleSize < ByteSize
  BY AssemblerAssumption
<1>3. CASE kind = "v"
  <2>1. PICK n \in 0..NibbleSize - 1 : a = Word("register", n)
    BY <1>3 DEF OperandsOf
  <2> QED
    BY <1>1, <1>3, <2>1 DEF IsOperand
<1>4. CASE kind = "int4"
  <2>1. PICK n \in 0..NibbleSize - 1 : a = Word("number", n)
    BY <1>4 DEF OperandsOf
  <2>2. n \in 0..ByteSize - 1 /\ n < NibbleSize
    BY <1>2
  <2> QED
    BY <1>1, <1>4, <2>1, <2>2 DEF IsOperand
<1>5. CASE kind = "int8"
  <2>1. PICK n \in 0..ByteSize - 1 : a = Word("number", n)
    BY <1>5 DEF OperandsOf
  <2> QED
    BY <1>1, <1>5, <2>1 DEF IsOperand
<1>6. CASE kind = "int12"
  <2>1. PICK n \in 0..AddrSize - 1 : a = Word("address", n)
    BY <1>6 DEF OperandsOf
  <2> QED
    BY <1>1, <1>6, <2>1 DEF IsOperand
<1>7. CASE kind \notin Integers4To12 \cup {"v"}
  <2>1. a = Word("reserved", kind)
    BY <1>7 DEF OperandsOf, Integers4To12
  <2> QED
    BY <1>7, <2>1 DEF IsOperand
<1> QED
  BY <1>3, <1>4, <1>5, <1>6, <1>7 DEF Integers4To12

\* and they are printed as words of a source.
LEMMA OperandWord ==
  ASSUME rom \in Roms, NEW a, NEW kind, IsOperand(a, kind)
  PROVE  LET o == Printed(rom, a)
         IN  /\ IsWord(o) /\ o.is \in {"register", "number", "reserved", "name"}
             /\ o.is = "name" => Shown(rom, a.of) /\ o.of = Label(rom, a.of)
<1>1. \A t, x : Word(t, x).is = t /\ Word(t, x).of = x
  BY DEF Word
<1>2. /\ \A n \in Nat : IsWord(Word("register", n)) /\ IsWord(Word("number", n))
      /\ \A n : IsWord(Word("name", n))
      /\ \A k \in Reserved : IsWord(Word("reserved", k))
  BY DEF IsWord, Word, WordKinds
<1>3. 0..NibbleSize - 1 \subseteq Nat /\ 0..ByteSize - 1 \subseteq Nat /\ 0..AddrSize - 1 \subseteq Nat
  OBVIOUS
<1>4. CASE a = Word("register", a.of) /\ a.of \in 0..NibbleSize - 1
  <2>1. Printed(rom, a) = a
    BY <1>1, <1>4 DEF Printed
  <2> QED
    BY <1>1, <1>2, <1>3, <1>4, <2>1
<1>5. CASE a = Word("number", a.of) /\ a.of \in 0..ByteSize - 1
  <2>1. Printed(rom, a) = a
    BY <1>1, <1>5 DEF Printed
  <2> QED
    BY <1>1, <1>2, <1>3, <1>5, <2>1
<1>6. CASE a = Word("address", a.of) /\ a.of \in 0..AddrSize - 1
  <2>1. Printed(rom, a) = Target(rom, a.of)
    BY <1>1, <1>6 DEF Printed
  <2>2. CASE Shown(rom, a.of)
    BY <1>1, <1>2, <2>1, <2>2 DEF Target
  <2>3. CASE ~Shown(rom, a.of)
    <3>1. Printed(rom, a) = Word("number", a.of) /\ a.of \in Nat
      BY <1>3, <1>6, <2>1, <2>3 DEF Target
    <3> QED
      BY <1>1, <1>2, <3>1
  <2> QED
    BY <2>2, <2>3
<1>7. CASE a = Word("reserved", kind) /\ kind \in Operands \ (Integers4To12 \cup {"v"})
  <2>1. Printed(rom, a) = a
    BY <1>1, <1>7 DEF Printed
  <2>2. kind \in Reserved
    BY <1>7 DEF Operands, Reserved
  <2> QED
    BY <1>1, <1>2, <1>7, <2>1, <2>2
<1> QED
  BY <1>4, <1>5, <1>6, <1>7 DEF IsOperand

\* What the code of a word is: a data word, or a command with operands.
LEMMA CodeKinds ==
  ASSUME rom \in Roms, NEW i \in 1..N
  PROVE  LET w == rom.words[i]
             n == Len(w.args)
             l == CodeOf(i)
         IN  /\ w.is \in {"data", "code"} /\ w.cmd \in Nat
             /\ n \in 0..3 /\ DOMAIN w.args = 1..n
             /\ w.is = "data" => /\ n = 0 /\ w.cmd < ValueSize
                                 /\ l = <<Word("dw", 0), Word("number", w.cmd)>>
             /\ w.is = "code" =>
                  /\ Len(l) = n + 1 /\ DOMAIN l = 1..n + 1 /\ l \in Seq(Range(l))
                  /\ l[1] = Word("instruction", w.cmd)
                  /\ \A m \in 1..n : l[m + 1] = Printed(rom, w.args[m])
                  /\ \E f \in Formats :
                       /\ f.cmd = w.cmd /\ Len(f.kinds) = n
                       /\ \A m \in 1..n : /\ IsOperand(w.args[m], f.kinds[m])
                                          /\ f.kinds[m] \in Integers4To12 => m = n
<1>0. PICK w : w = rom.words[i]
  OBVIOUS
<1>1. IsRomWord(w)
  BY <1>0, Constants
<1>2. CodeOf(i) = Instruction(rom, w)
  BY <1>0 DEF CodeOf
<1>3. CASE w = Raw(w.cmd) /\ w.cmd \in 0..ValueSize - 1
  <2>1. w.is = "data" /\ w.args = <<>>
    BY <1>3 DEF Raw
  <2>2. Len(w.args) = 0 /\ DOMAIN w.args = 1..0 /\ 0 \in 0..3
    BY <2>1
  <2>3. CodeOf(i) = <<Word("dw", 0), Word("number", w.cmd)>>
    BY <1>2, <2>1 DEF Instruction
  <2>4. w.cmd \in Nat /\ w.cmd < ValueSize
    BY <1>3, Sizes
  <2> QED
    BY <1>0, <2>1, <2>2, <2>3, <2>4
<1>4. CASE w = Code(w.cmd, w.args)
  <2>1. w.is = "code" /\ w # Raw(w.cmd)
    BY <1>4 DEF Code, Raw
  <2>2. /\ w.args \in Seq(Range(w.args))
        /\ \E f \in Formats : /\ f.cmd = w.cmd /\ Len(f.kinds) = Len(w.args)
                              /\ \A m \in DOMAIN w.args : w.args[m] \in OperandsOf(f.kinds[m])
    BY <1>1, <2>1 DEF IsRomWord
  <2>3. PICK f \in Formats : /\ f.cmd = w.cmd /\ Len(f.kinds) = Len(w.args)
                             /\ \A m \in DOMAIN w.args : w.args[m] \in OperandsOf(f.kinds[m])
    BY <2>2
  <2>4. PICK k \in Seq(Operands) : k = f.kinds /\ Len(k) <= 3 /\ f.cmd \in Nat
                                   /\ \A m \in DOMAIN k : k[m] \in Integers4To12 => m = Len(k)
    BY RomAssumption
  <2>5. PICK n \in 0..3 : n = Len(w.args) /\ DOMAIN w.args = 1..n
    <3>1. PICK a : a = w.args
      OBVIOUS
    <3>2. Len(a) \in Nat /\ DOMAIN a = 1..Len(a)
      BY <2>2, <3>1, LenProperties
    <3>3. Len(a) = Len(k) /\ Len(k) \in 0..3
      <4>1. PICK z \in Nat : z = Len(k)
        BY LenProperties
      <4>2. z <= 3
        BY <2>4, <4>1
      <4>3. z \in 0..3
        BY <4>2
      <4>4. Len(f.kinds) = z
        BY <2>4, <4>1, Zenon
      <4>5. Len(a) = z
        BY <2>3, <3>1, <4>4, Zenon
      <4> QED
        BY <4>1, <4>3, <4>5, Zenon
    <3> QED
      BY <3>1, <3>2, <3>3
  <2>6. Len(k) = n /\ DOMAIN k = 1..n /\ \A m \in 1..n : k[m] \in Operands
    <3>1. Len(k) = n
      BY <2>3, <2>4, <2>5
    <3> QED
      BY <3>1, LenProperties, ElementOfSeq
  <2>7. \A m \in 1..n : IsOperand(w.args[m], k[m]) /\ (k[m] \in Integers4To12 => m = n)
    BY <2>3, <2>4, <2>5, <2>6, OperandIs
  <2> DEFINE c == Word("instruction", w.cmd)
             r == [m \in DOMAIN w.args |-> Printed(rom, w.args[m])]
             S == {c} \cup {Printed(rom, w.args[m]) : m \in DOMAIN w.args}
  <2>8. CodeOf(i) = <<c>> \o r
    BY <1>2, <2>1 DEF Instruction
  <2>9. <<c>> \in Seq(S) /\ Len(<<c>>) = 1
    OBVIOUS
  <2>10. r \in Seq(S) /\ Len(r) = n /\ \A m \in 1..n : r[m] = Printed(rom, w.args[m])
    <3>1. r \in [1..n -> S]
      BY <2>5
    <3> QED
      BY <2>5, <3>1
  <2> HIDE DEF c, r, S
  <2>11. PICK x : x = <<c>> \o r
    OBVIOUS
  <2>12. x \in Seq(S) /\ Len(x) = n + 1
    BY <2>9, <2>10, <2>11, TwoInOne
  <2>13. \A m \in 1..Len(<<c>>) : x[m] = <<c>>[m]
    BY <2>9, <2>10, <2>11, TwoInOne
  <2>14. \A m \in 1..Len(r) : x[Len(<<c>>) + m] = r[m]
    BY <2>9, <2>10, <2>11, TwoInOne
  <2>15. DOMAIN x = 1..n + 1 /\ x \in Seq(Range(x))
    <3>1. DOMAIN x = 1..n + 1 /\ x \in [1..n + 1 -> S]
      BY <2>12, LenProperties
    <3>2. x \in [1..n + 1 -> Range(x)] /\ n + 1 \in Nat
      BY <3>1 DEF Range
    <3> QED
      BY <3>1, <3>2
  <2>16. x[1] = c
    BY <2>9, <2>13
  <2>17. \A m \in 1..n : x[m + 1] = Printed(rom, w.args[m])
    <3> SUFFICES ASSUME NEW m \in 1..n
                 PROVE  x[m + 1] = Printed(rom, w.args[m])
      OBVIOUS
    <3>1. m \in 1..Len(r) /\ Len(<<c>>) + m = m + 1
      BY <2>9, <2>10
    <3> QED
      BY <2>10, <2>14, <3>1
  <2>18. \E g \in Formats : /\ g.cmd = w.cmd /\ Len(g.kinds) = n
                            /\ \A m \in 1..n : /\ IsOperand(w.args[m], g.kinds[m])
                                               /\ g.kinds[m] \in Integers4To12 => m = n
    BY <2>3, <2>4, <2>6, <2>7
  <2>19. w.cmd \in Nat
    BY <2>3, <2>4
  <2> QED
    BY <1>0, <2>1, <2>5, <2>8, <2>11, <2>12, <2>15, <2>16, <2>17, <2>18, <2>19 DEF c
<1> QED
  BY <1>1, <1>3, <1>4 DEF IsRomWord

\* The words of a word's code are words of a source, and none is a definition.
LEMMA CodeWords ==
  ASSUME rom \in Roms, NEW i \in 1..N
  PROVE  LET l == CodeOf(i)
         IN  /\ Len(l) \in Nat \ {0} /\ DOMAIN l = 1..Len(l) /\ l \in Seq(Range(l))
             /\ \A k \in 1..Len(l) :
                  /\ IsWord(l[k])
                  /\ l[k].is \in {"dw", "number", "instruction", "register", "reserved", "name"}
                  /\ l[k].is = "name" => \E a : Shown(rom, a) /\ l[k].of = Label(rom, a)
             /\ l[1].is = "dw" => Len(l) = 2 /\ l[2].is = "number"
             /\ l[1].is # "dw" => \A k \in 1..Len(l) : l[k].is # "dw"
<1>1. PICK w : w = rom.words[i]
  OBVIOUS
<1>2. PICK l : l = CodeOf(i)
  OBVIOUS
<1>3. \A t, x : Word(t, x).is = t /\ Word(t, x).of = x
  BY DEF Word
<1>4. \A n \in Nat : IsWord(Word("dw", n)) /\ IsWord(Word("number", n)) /\ IsWord(Word("instruction", n))
  BY DEF IsWord, Word, WordKinds
<1>5. w.is \in {"data", "code"} /\ w.cmd \in Nat
  BY <1>1, CodeKinds
<1>6. CASE w.is = "data"
  <2>1. l = <<Word("dw", 0), Word("number", w.cmd)>>
    BY <1>1, <1>2, <1>6, CodeKinds
  <2>2. /\ Len(l) = 2 /\ DOMAIN l = 1..2 /\ l \in Seq(Range(l))
        /\ l[1] = Word("dw", 0) /\ l[2] = Word("number", w.cmd)
    BY <2>1 DEF Range
  <2>3. IsWord(l[1]) /\ IsWord(l[2]) /\ l[1].is = "dw" /\ l[2].is = "number"
    BY <1>3, <1>4, <1>5, <2>2
  <2> QED
    BY <1>2, <2>2, <2>3
<1>7. CASE w.is = "code"
  <2>1. PICK n \in 0..3 : n = Len(w.args)
    BY <1>1, CodeKinds
  <2>2. /\ Len(l) = n + 1 /\ DOMAIN l = 1..n + 1 /\ l \in Seq(Range(l))
        /\ l[1] = Word("instruction", w.cmd)
        /\ \A m \in 1..n : l[m + 1] = Printed(rom, w.args[m])
    BY <1>1, <1>2, <1>7, <2>1, CodeKinds
  <2>3. \A m \in 1..n : \E kind : IsOperand(w.args[m], kind)
    BY <1>1, <1>7, <2>1, CodeKinds
  <2>4. ASSUME NEW m \in 1..n
        PROVE  /\ IsWord(l[m + 1]) /\ l[m + 1].is \in {"register", "number", "reserved", "name"}
               /\ l[m + 1].is = "name" => \E a : Shown(rom, a) /\ l[m + 1].of = Label(rom, a)
    <3>1. PICK kind : IsOperand(w.args[m], kind)
      BY <2>3
    <3> QED
      BY <2>2, <3>1, OperandWord
  <2>5. IsWord(l[1]) /\ l[1].is = "instruction"
    BY <1>3, <1>4, <1>5, <2>2
  <2>6. \A k \in 1..n + 1 : k = 1 \/ (k - 1 \in 1..n /\ (k - 1) + 1 = k)
    OBVIOUS
  <2>7. \A k \in 1..n + 1 :
          /\ IsWord(l[k]) /\ l[k].is \in {"instruction", "register", "number", "reserved", "name"}
          /\ l[k].is = "name" => \E a : Shown(rom, a) /\ l[k].of = Label(rom, a)
    BY <2>4, <2>5, <2>6
  <2> QED
    BY <1>2, <2>2, <2>5, <2>7
<1> QED
  BY <1>5, <1>6, <1>7

\* A label's definition is one word, not in capitals.
LEMMA LowIs ==
  ASSUME NEW x
  PROVE  /\ Low(x) = [is |-> "def", of |-> x, upper |-> FALSE]
         /\ Upper(Low(x)) = Word("def", x)
<1>1. PICK w : w = Word("def", x)
  OBVIOUS
<1>2. w = [is |-> "def", of |-> x, upper |-> TRUE]
  BY <1>1 DEF Word
<1>3. IsWord(w) /\ w.is = "def" /\ w.of = x
  BY <1>2 DEF IsWord, WordKinds
<1>4. [w EXCEPT !.upper = FALSE] = [is |-> "def", of |-> x, upper |-> FALSE]
  BY <1>3, Recased
<1>5. PICK v : v = Low(x)
  OBVIOUS
<1>6. v = [is |-> "def", of |-> x, upper |-> FALSE]
  BY <1>1, <1>4, <1>5 DEF Low
<1>7. IsWord(v) /\ v.is = "def" /\ v.of = x
  BY <1>6 DEF IsWord, WordKinds
<1>8. [v EXCEPT !.upper = TRUE] = [is |-> "def", of |-> x, upper |-> TRUE]
  BY <1>7, Recased
<1> QED
  BY <1>1, <1>2, <1>5, <1>6, <1>8 DEF Upper

\* The disassembly is a source,
LEMMA DisassemblyIsSource ==
  ASSUME Disassembled
  PROVE  IsSource(program)
<1>1. rom \in Roms /\ N \in Nat
  BY Constants DEF Disassembled
<1>2. program \in Seq(LineSet)
  BY ProgramIs
<1>3. program \in Seq(Range(program))
  <2>1. program \in [1..Len(program) -> LineSet] /\ Len(program) \in Nat
    BY <1>2
  <2> QED
    BY <2>1 DEF Range
<1>4. ASSUME NEW x
      PROVE  IsLine(<<Low(x)>>)
  <2>1. <<Low(x)>> \in Seq(Range(<<Low(x)>>))
    BY DEF Range
  <2>2. Low(x) = [is |-> "def", of |-> x, upper |-> FALSE]
    BY LowIs
  <2>3. IsWord(Low(x)) /\ Low(x).is # "string"
    BY <2>2 DEF IsWord, WordKinds
  <2> QED
    BY <2>1, <2>3 DEF IsLine
<1>5. ASSUME NEW i \in 1..N
      PROVE  IsLine(CodeOf(i))
  <2>1. PICK l : l = CodeOf(i)
    OBVIOUS
  <2>2. /\ DOMAIN l = 1..Len(l) /\ l \in Seq(Range(l))
        /\ \A k \in 1..Len(l) : IsWord(l[k]) /\ l[k].is # "string"
    BY <1>1, <2>1, CodeWords
  <2> QED
    BY <2>1, <2>2 DEF IsLine
<1>6. \A l \in LineSet : IsLine(l)
  BY <1>4, <1>5 DEF LineSet
<1>7. \A i \in DOMAIN program : program[i] \in LineSet
  BY <1>2
<1> QED
  BY <1>3, <1>6, <1>7 DEF IsSource

\* in which every definition has a line of its own, and no line is blank.
LEMMA DisassemblyIsPlain ==
  ASSUME Disassembled
  PROVE  /\ PlainLines
         /\ \A j \in 1..Len(program) : program[j] # <<>>
         /\ \A i : \A j \in 1..Len(program) : LeadAt(i, j) => DefLine(program, j) /\ ~Refers(program[j])
         /\ \A i : \A j \in 1..Len(program) : InBlock(i, j) /\ CodeAt(i, j) => ~DefLine(program, j)
<1>1. rom \in Roms /\ N \in Nat
  BY Constants DEF Disassembled
<1>2. Lines = 1..Len(program) /\ Len(program) \in Nat
  BY AheadIs DEF Lines
<1>3. ASSUME NEW i, NEW j \in 1..Len(program), LeadAt(i, j)
      PROVE  /\ program[j] # <<>> /\ program[j] # Blank
             /\ \A k \in DOMAIN program[j] : Len(program[j]) = 1
             /\ DefLine(program, j) /\ ~Refers(program[j])
  <2>1. PICK x : program[j] = <<Low(x)>>
    BY <1>3 DEF LeadAt
  <2>2. PICK d : d = Low(x)
    OBVIOUS
  <2>3. d.is = "def"
    BY <2>2, LowIs
  <2>4. PICK l : l = program[j]
    OBVIOUS
  <2>5. l = <<d>> /\ Len(l) = 1 /\ l[1] = d /\ l # <<>> /\ l[Len(l)] = d
    BY <2>1, <2>2, <2>4
  <2>6. l # Blank
    <3>1. Blank[1].is = "space"
      BY DEF Blank, Word
    <3> QED
      BY <2>3, <2>5, <3>1
  <2>7. DefLine(program, j)
    BY <1>2, <2>3, <2>4, <2>5 DEF DefLine, IsDefinition, Lines
  <2>8. ~Refers(l)
    BY <2>3, <2>5 DEF Refers
  <2> QED
    BY <2>4, <2>5, <2>6, <2>7, <2>8
<1>4. ASSUME NEW i, NEW j \in 1..Len(program), InBlock(i, j), CodeAt(i, j)
      PROVE  /\ program[j] # <<>> /\ program[j] # Blank
             /\ \A k \in DOMAIN program[j] : ~IsDefinition(program[j][k])
             /\ ~DefLine(program, j)
  <2>1. i \in 1..N /\ program[j] = CodeOf(i)
    BY <1>1, <1>4 DEF CodeAt, InBlock
  <2>2. PICK l : l = CodeOf(i)
    OBVIOUS
  <2>3. /\ Len(l) \in Nat \ {0} /\ DOMAIN l = 1..Len(l)
        /\ \A k \in 1..Len(l) : l[k].is \in {"dw", "number", "instruction", "register", "reserved", "name"}
    BY <1>1, <2>1, <2>2, CodeWords
  <2>4. l # <<>>
    BY <2>3
  <2>5. l # Blank
    <3>1. Blank[1].is = "space"
      BY DEF Blank, Word
    <3>2. 1 \in 1..Len(l)
      BY <2>3
    <3> QED
      BY <2>3, <3>1, <3>2
  <2>6. \A k \in 1..Len(l) : ~IsDefinition(l[k])
    BY <2>3 DEF IsDefinition
  <2>7. Len(l) \in 1..Len(l)
    BY <2>3
  <2>8. ~DefLine(program, j)
    BY <2>1, <2>2, <2>6, <2>7 DEF DefLine
  <2> QED
    BY <2>1, <2>2, <2>3, <2>4, <2>5, <2>6, <2>8
<1>5. \A j \in 1..Len(program) : \E i : InBlock(i, j) /\ (CodeAt(i, j) \/ LeadAt(i, j))
  <2> SUFFICES ASSUME NEW j \in 1..Len(program)
               PROVE  \E i : InBlock(i, j) /\ (CodeAt(i, j) \/ LeadAt(i, j))
    OBVIOUS
  <2>1. j \in 1..Len(program) + 1
    BY <1>2
  <2>2. PICK i : InBlock(i, j)
    BY <2>1, SomeBlock
  <2> QED
    BY <2>2, LineIs
<1>6. PlainLines
  BY <1>2, <1>3, <1>4, <1>5 DEF PlainLines
<1>7. \A j \in 1..Len(program) : program[j] # <<>>
  BY <1>3, <1>4, <1>5
<1> QED
  BY <1>3, <1>4, <1>6, <1>7

--------------------------------------------------------------------------------
\* If no number was given twice, a label is of one address.
LEMMA LabelOfOne ==
  ASSUME rom \in Roms, Cardinality(Jumps(rom)) <= CountSize,
         NEW a, NEW b, Label(rom, a) # 0, Label(rom, a) = Label(rom, b)
  PROVE  a = b
<1> DEFINE J == Jumps(rom)
           JumpsTo(x) == {i \in J : To(rom.words[i]) = x}
           UpTo(M) == {i \in J : i <= M}
<1>1. N \in Nat /\ J \subseteq 1..N /\ IsFiniteSet(J) /\ Cardinality(J) \in Nat /\ CountSize \in Nat \ {0}
  BY LabelNumber, Constants
<1>2. \A x : Label(rom, x) = IF JumpsTo(x) = {} THEN 0 ELSE Cardinality(UpTo(Max(JumpsTo(x)))) % CountSize
  BY DEF Label
<1>3. ASSUME NEW x, Label(rom, x) # 0
      PROVE  \E M \in J : To(rom.words[M]) = x /\ Label(rom, x) = Cardinality(UpTo(M))
  <2>1. JumpsTo(x) # {} /\ Label(rom, x) = Cardinality(UpTo(Max(JumpsTo(x)))) % CountSize
    BY <1>2, <1>3
  <2>2. JumpsTo(x) \in SUBSET (1..N)
    BY <1>1
  <2>3. PICK M : M = Max(JumpsTo(x))
    OBVIOUS
  <2>4. M \in JumpsTo(x)
    BY <1>1, <2>1, <2>2, <2>3, MaxOf
  <2>5. PICK c : c = Cardinality(UpTo(M))
    OBVIOUS
  <2>6. c \in Nat /\ c <= Cardinality(J)
    <3>1. UpTo(M) \subseteq J
      OBVIOUS
    <3> QED
      BY <1>1, <2>5, <3>1, FS_Subset, FS_CardinalityType
  <2>7. c % CountSize # 0 /\ Label(rom, x) = c % CountSize
    BY <1>3, <2>1, <2>3, <2>5
  <2>8. c <= CountSize
    BY <1>1, <2>6
  <2>9. c # CountSize
    <3>1. CountSize % CountSize = 0
      BY <1>1
    <3> QED
      BY <2>7, <3>1
  <2>10. c % CountSize = c
    BY <1>1, <2>6, <2>8, <2>9
  <2> QED
    BY <2>4, <2>5, <2>7, <2>10
<1>4. PICK K \in J : To(rom.words[K]) = a /\ Label(rom, a) = Cardinality(UpTo(K))
  BY <1>3
<1>5. PICK L \in J : To(rom.words[L]) = b /\ Label(rom, b) = Cardinality(UpTo(L))
  BY <1>3
<1>6. ASSUME NEW x \in J, NEW y \in J, x < y
      PROVE  Cardinality(UpTo(x)) # Cardinality(UpTo(y))
  <2>1. UpTo(x) \subseteq UpTo(y) /\ y \in UpTo(y) /\ y \notin UpTo(x)
    BY <1>1, <1>6
  <2>2. IsFiniteSet(UpTo(y))
    <3>1. UpTo(y) \subseteq J
      OBVIOUS
    <3> QED
      BY <1>1, <3>1, FS_Subset
  <2>3. UpTo(x) # UpTo(y)
    BY <2>1
  <2> HIDE DEF UpTo
  <2>4. Cardinality(UpTo(x)) = Cardinality(UpTo(y)) => UpTo(x) = UpTo(y)
    BY <2>1, <2>2, FS_Subset
  <2> QED
    BY <2>3, <2>4
<1>7. K \in Nat /\ L \in Nat
  BY <1>1
<1>8. K = L
  <2>1. Cardinality(UpTo(K)) = Cardinality(UpTo(L))
    BY <1>4, <1>5
  <2>2. ~(K < L) /\ ~(L < K)
    BY <1>6, <2>1
  <2> QED
    BY <1>7, <2>2
<1> QED
  BY <1>4, <1>5, <1>8

\* The target of a jump that is shown by its label is an address of the program, and the
\* line that defines the label is in front of the word there.
LEMMA TargetLeads ==
  ASSUME Disassembled, NEW a, Shown(rom, a)
  PROVE  \E i \in 1..N + 1 : \E j : Leads(i, j, a)
<1>1. /\ rom \in Roms /\ N \in Nat /\ ProgStart \in Nat /\ ProgStart % 2 = 0 /\ rom.half \in BOOLEAN
      /\ DOMAIN rom.words = 1..N /\ N = Len(rom.words)
  BY Constants DEF Disassembled, N
<1>2. Label(rom, a) # 0
  BY DEF Shown
<1>3. PICK k \in 1..N : To(rom.words[k]) = a /\ ProgStart < a /\ a < End(rom)
  <2>1. {k \in Jumps(rom) : To(rom.words[k]) = a} # {}
    BY <1>2 DEF Label
  <2> QED
    BY <1>1, <2>1 DEF Jumps
<1>4. a \in Int
  <2>1. PICK w : w = rom.words[k]
    OBVIOUS
  <2>2. PICK n \in 0..3 : n = Len(w.args)
    BY <1>1, <2>1, CodeKinds
  <2>3. a = 0 \/ (n > 0 /\ w.args[n].is = "address" /\ a = w.args[n].of)
    BY <1>3, <2>1, <2>2 DEF To
  <2>4. CASE n > 0 /\ w.args[n].is = "address" /\ a = w.args[n].of
    <3>1. w.is = "code" /\ n \in 1..n
      BY <1>1, <2>1, <2>2, <2>4, CodeKinds
    <3>2. PICK kind : IsOperand(w.args[n], kind)
      BY <1>1, <2>1, <2>2, <3>1, CodeKinds
    <3>3. a \in 0..AddrSize - 1
      BY <2>4, <3>2 DEF IsOperand, Word
    <3> QED
      BY <3>3, Sizes
  <2> QED
    BY <2>3, <2>4
<1>5. PICK h \in {0, 1} : h = IF rom.half THEN 1 ELSE 0
  OBVIOUS
<1>6. a < ProgStart + 2 * N + h
  <2>1. End(rom) = ProgStart + 2 * ((N + 1) - 1) + h
    BY <1>1, <1>5 DEF End, Address
  <2>2. 2 * ((N + 1) - 1) = 2 * N
    BY <1>1
  <2> QED
    BY <1>1, <1>3, <1>4, <2>1, <2>2
<1>d. PICK d \in Nat : a = ProgStart + d /\ d < 2 * N + h
  <2>1. a - ProgStart \in Nat /\ a = ProgStart + (a - ProgStart) /\ a - ProgStart < 2 * N + h
    BY <1>1, <1>3, <1>4, <1>6
  <2> QED
    BY <2>1
<1>7. PICK i \in Nat \ {0} : d = 2 * (i - 1) \/ d = 2 * (i - 1) + 1
  <2>1. d % 2 \in {0, 1} /\ d = 2 * (d \div 2) + (d % 2) /\ d \div 2 \in Nat
    OBVIOUS
  <2>2. PICK e \in Nat : e = d \div 2
    BY <2>1
  <2>3. PICK i \in Nat \ {0} : i = e + 1
    OBVIOUS
  <2>4. d = 2 * (i - 1) \/ d = 2 * (i - 1) + 1
    BY <2>1, <2>2, <2>3
  <2> QED
    BY <2>4
<1>8. i \in 1..N + 1 /\ (i = N + 1 => rom.half /\ d = 2 * (i - 1))
  <2>1. i <= N + 1 /\ (i = N + 1 => h = 1 /\ d = 2 * (i - 1))
    BY <1>1, <1>d, <1>7
  <2> QED
    BY <1>1, <1>5, <2>1
<1>9. a = Address(i) \/ (a = Address(i) + 1 /\ i # N + 1)
  BY <1>1, <1>d, <1>7, <1>8 DEF Address
<1>10. \E j : Leads(i, j, a)
  BY <1>8, <1>9 DEF Leads
<1> QED
  BY <1>8, <1>10

--------------------------------------------------------------------------------
\* The symbols of a line, the one left over among them, and those of the lines before.
Weight(l) == IF l[1].is = "dw" THEN 2 ELSE Len(l) + 1
Weights   == [j \in 1..Len(program) |-> Weight(program[j])]
Before    == Sums(Len(program), Weights)

\* What is made of the m-th word of line j with these labels.
Made(found, j, m) ==
  LET w == program[j][m]
  IN  IF m = Weight(program[j]) THEN Null
      ELSE CASE w.is = "def"         -> Symbol("def", 0, j)
             [] w.is = "dw"          -> Symbol("dw", program[j][2].of % ValueSize, j)
             [] w.is = "instruction" -> Symbol("instruction", w.of, j)
             [] w.is = "register"    -> Symbol("v", w.of, j)
             [] w.is = "reserved"    -> Symbol(w.of, 0, j)
             [] w.is = "number"      -> Symbol(IntType(w.of), w.of % ValueSize, j)
             [] w.is = "name"        -> Symbol("label", Min(NamedIn(found, w.of)), j)

\* What the command of a word is made into, or its datum, and what an operand is.
HeadOf(w, j) == IF w.is = "data" THEN Symbol("dw", w.cmd % ValueSize, j)
                               ELSE Symbol("instruction", w.cmd, j)

ArgMade(found, a, j) ==
  CASE a.is = "register" -> Symbol("v", a.of, j)
    [] a.is = "reserved" -> Symbol(a.of, 0, j)
    [] a.is = "number"   -> Symbol(IntType(a.of), a.of % ValueSize, j)
    [] a.is = "address"  ->
         IF Shown(rom, a.of) THEN Symbol("label", Min(NamedIn(found, Label(rom, a.of))), j)
                             ELSE Symbol(IntType(a.of), a.of % ValueSize, j)

\* What is made of a label's line: its definition.
LEMMA LeadMade ==
  ASSUME NEW i, NEW j, LeadAt(i, j), NEW found
  PROVE  /\ Weight(program[j]) = 2
         /\ Made(found, j, 1) = Symbol("def", 0, j) /\ Made(found, j, 2) = Null
<1>1. PICK x : program[j] = <<Low(x)>>
  BY DEF LeadAt
<1>2. PICK d : d = Low(x)
  OBVIOUS
<1>3. d.is = "def"
  BY <1>2, LowIs
<1>4. PICK l : l = program[j]
  OBVIOUS
<1>5. l[1] = d /\ Len(l) = 1
  BY <1>1, <1>2, <1>4
<1>6. Weight(l) = 2
  BY <1>3, <1>5 DEF Weight
<1> QED
  BY <1>3, <1>4, <1>5, <1>6 DEF Made

\* What is made of a word's code: its command and its operands.
LEMMA CodeMade ==
  ASSUME rom \in Roms, NEW i \in 1..N, NEW j, CodeAt(i, j), NEW found
  PROVE  LET w == rom.words[i]
             n == Len(w.args)
         IN  /\ n \in 0..3 /\ Weight(program[j]) = n + 2
             /\ Made(found, j, 1) = HeadOf(w, j) /\ Made(found, j, n + 2) = Null
             /\ \A m \in 1..n : Made(found, j, m + 1) = ArgMade(found, w.args[m], j)
<1>1. PICK w : w = rom.words[i]
  OBVIOUS
<1>2. PICK l : l = program[j]
  OBVIOUS
<1>3. l = CodeOf(i)
  BY <1>2 DEF CodeAt
<1>4. \A t, x : Word(t, x).is = t /\ Word(t, x).of = x
  BY DEF Word
<1>5. \A m : Made(found, j, m) =
        LET u == l[m]
        IN  IF m = Weight(l) THEN Null
            ELSE CASE u.is = "def"         -> Symbol("def", 0, j)
                   [] u.is = "dw"          -> Symbol("dw", l[2].of % ValueSize, j)
                   [] u.is = "instruction" -> Symbol("instruction", u.of, j)
                   [] u.is = "register"    -> Symbol("v", u.of, j)
                   [] u.is = "reserved"    -> Symbol(u.of, 0, j)
                   [] u.is = "number"      -> Symbol(IntType(u.of), u.of % ValueSize, j)
                   [] u.is = "name"        -> Symbol("label", Min(NamedIn(found, u.of)), j)
  BY <1>2 DEF Made
<1>6. CASE w.is = "data"
  <2>1. l = <<Word("dw", 0), Word("number", w.cmd)>> /\ Len(w.args) = 0
    BY <1>1, <1>3, <1>6, CodeKinds
  <2>2. Len(l) = 2 /\ l[1].is = "dw" /\ l[2].of = w.cmd
    BY <1>4, <2>1
  <2>3. Weight(l) = 2
    BY <2>2 DEF Weight
  <2>4. Made(found, j, 1) = HeadOf(w, j)
    BY <1>5, <1>6, <2>2, <2>3 DEF HeadOf
  <2>5. Made(found, j, 2) = Null
    BY <1>5, <2>3
  <2> QED
    BY <1>1, <1>2, <2>1, <2>3, <2>4, <2>5
<1>7. CASE w.is = "code"
  <2>1. PICK n \in 0..3 : n = Len(w.args)
    BY <1>1, CodeKinds
  <2>2. /\ Len(l) = n + 1 /\ l[1] = Word("instruction", w.cmd)
        /\ \A m \in 1..n : l[m + 1] = Printed(rom, w.args[m])
    BY <1>1, <1>3, <1>7, <2>1, CodeKinds
  <2>3. l[1].is = "instruction" /\ l[1].of = w.cmd
    BY <1>4, <2>2
  <2>4. Weight(l) = n + 2
    BY <2>2, <2>3 DEF Weight
  <2>5. Made(found, j, 1) = HeadOf(w, j)
    BY <1>5, <1>7, <2>3, <2>4 DEF HeadOf
  <2>6. Made(found, j, n + 2) = Null
    BY <1>5, <2>4
  <2>7. ASSUME NEW m \in 1..n
        PROVE  Made(found, j, m + 1) = ArgMade(found, w.args[m], j)
    <3>1. PICK a : a = w.args[m]
      OBVIOUS
    <3>2. PICK kind : IsOperand(a, kind)
      BY <1>1, <1>7, <2>1, <3>1, CodeKinds
    <3>3. PICK u : u = l[m + 1] /\ u = Printed(rom, a)
      BY <2>2, <3>1
    <3>4. Made(found, j, m + 1) =
            CASE u.is = "def"         -> Symbol("def", 0, j)
              [] u.is = "dw"          -> Symbol("dw", l[2].of % ValueSize, j)
              [] u.is = "instruction" -> Symbol("instruction", u.of, j)
              [] u.is = "register"    -> Symbol("v", u.of, j)
              [] u.is = "reserved"    -> Symbol(u.of, 0, j)
              [] u.is = "number"      -> Symbol(IntType(u.of), u.of % ValueSize, j)
              [] u.is = "name"        -> Symbol("label", Min(NamedIn(found, u.of)), j)
      <4>1. PICK x : x = m + 1
        OBVIOUS
      <4>2. x # Weight(l)
        BY <2>4, <4>1
      <4>3. u = l[x]
        BY <3>3, <4>1
      <4> QED
        BY <1>5, <4>1, <4>2, <4>3
    <3>5. a.is \in {"register", "reserved", "number", "address"}
      BY <1>4, <3>2 DEF IsOperand
    <3>6. CASE a.is # "address"
      <4>1. u = a
        BY <3>3, <3>6 DEF Printed
      <4> QED
        BY <3>1, <3>4, <3>5, <3>6, <4>1 DEF ArgMade
    <3>7. CASE a.is = "address" /\ Shown(rom, a.of)
      <4>1. u.is = "name" /\ u.of = Label(rom, a.of)
        BY <1>4, <3>3, <3>7 DEF Printed, Target
      <4> QED
        BY <3>1, <3>4, <3>7, <4>1 DEF ArgMade
    <3>8. CASE a.is = "address" /\ ~Shown(rom, a.of)
      <4>1. u.is = "number" /\ u.of = a.of
        BY <1>4, <3>3, <3>8 DEF Printed, Target
      <4> QED
        BY <3>1, <3>4, <3>8, <4>1 DEF ArgMade
    <3> QED
      BY <3>6, <3>7, <3>8
  <2> QED
    BY <1>1, <1>2, <2>1, <2>4, <2>5, <2>6, <2>7
<1> QED
  BY <1>1, <1>6, <1>7, CodeKinds

\* Every line has symbols, and their places follow each other.
LEMMA WeightsAre ==
  ASSUME Disassembled
  PROVE  /\ Len(program) \in Nat
         /\ Weights \in [1..Len(program) -> Nat]
         /\ Summed(Len(program), Weights, Before)
         /\ Before[1] = 0 /\ \A j \in 1..Len(program) + 1 : Before[j] \in Nat
         /\ \A j \in 1..Len(program) :
              /\ Weight(program[j]) \in Nat /\ Weight(program[j]) >= 2
              /\ Weights[j] = Weight(program[j])
              /\ Before[j + 1] = Before[j] + Weight(program[j])
<1>1. Len(program) \in Nat /\ rom \in Roms /\ N \in Nat
  BY AheadIs DEF Disassembled
<1>2. ASSUME NEW j \in 1..Len(program)
      PROVE  Weight(program[j]) \in Nat /\ Weight(program[j]) >= 2
  <2>1. PICK i : InBlock(i, j)
    <3>1. j \in 1..Len(program) + 1
      BY <1>1
    <3> QED
      BY <3>1, SomeBlock
  <2>2. CASE CodeAt(i, j)
    <3>1. i \in 1..N
      BY <1>1, <2>1, <2>2 DEF InBlock, CodeAt
    <3>2. PICK n : n = Len(rom.words[i].args)
      OBVIOUS
    <3>3. n \in 0..3 /\ Weight(program[j]) = n + 2
      BY <1>1, <2>2, <3>1, <3>2, CodeMade
    <3> QED
      BY <3>3
  <2>3. CASE LeadAt(i, j)
    BY <2>3, LeadMade
  <2> QED
    BY <2>1, <2>2, <2>3, LineIs
<1>3. PICK w : w = Weights
  OBVIOUS
<1>4. w \in [1..Len(program) -> Nat] /\ \A j \in 1..Len(program) : w[j] = Weight(program[j])
  BY <1>2, <1>3 DEF Weights
<1>5. Before = Sums(Len(program), w)
  BY <1>3 DEF Before
<1>6. Summed(Len(program), w, Before)
  BY <1>1, <1>4, <1>5, SumsAre
<1>7. Before[1] = 0 /\ \A j \in 1..Len(program) + 1 : Before[j] \in Nat
  BY <1>1, <1>4, <1>6, SumsType
<1>8. \A j \in 1..Len(program) : Before[j + 1] = Before[j] + w[j]
  BY <1>1, <1>4, <1>6, SumsType
<1> QED
  BY <1>1, <1>2, <1>3, <1>4, <1>6, <1>7, <1>8

\* The words of a line: data is a number, and a name is that of a label shown.
LEMMA WordsFit ==
  ASSUME Disassembled, NEW j \in 1..Len(program)
  PROVE  LET l == program[j]
         IN  /\ Len(l) \in Nat \ {0} /\ DOMAIN l = 1..Len(l)
             /\ \A k \in 1..Len(l) :
                  /\ l[k].is \in {"def", "dw", "number", "instruction", "register", "reserved", "name"}
                  /\ l[k].is = "name" => \E a : Shown(rom, a) /\ l[k].of = Label(rom, a)
                  /\ l[k].is = "reserved" => l[k].of \in Reserved
             /\ l[1].is = "dw" => Len(l) = 2 /\ l[2].is = "number" /\ Weight(l) = 2
             /\ l[1].is # "dw" => Weight(l) = Len(l) + 1 /\ \A k \in 1..Len(l) : l[k].is # "dw"
<1>1. rom \in Roms /\ N \in Nat /\ Len(program) \in Nat
  BY AheadIs DEF Disassembled
<1>2. PICK i : InBlock(i, j)
  <2>1. j \in 1..Len(program) + 1
    BY <1>1
  <2> QED
    BY <2>1, SomeBlock
<1>3. PICK l : l = program[j]
  OBVIOUS
<1>4. \A t, x : Word(t, x).is = t /\ Word(t, x).of = x
  BY DEF Word
<1>5. CASE LeadAt(i, j)
  <2>1. PICK x : l = <<Low(x)>>
    BY <1>3, <1>5 DEF LeadAt
  <2>2. PICK d : d = Low(x)
    OBVIOUS
  <2>3. d.is = "def"
    BY <2>2, LowIs
  <2>4. Len(l) = 1 /\ DOMAIN l = 1..1 /\ l[1] = d
    BY <2>1, <2>2
  <2>5. Weight(l) = 2
    BY <2>3, <2>4 DEF Weight
  <2> QED
    BY <1>3, <2>3, <2>4, <2>5
<1>6. CASE CodeAt(i, j)
  <2>1. i \in 1..N /\ l = CodeOf(i)
    BY <1>1, <1>2, <1>3, <1>6 DEF InBlock, CodeAt
  <2>2. /\ Len(l) \in Nat \ {0} /\ DOMAIN l = 1..Len(l)
        /\ \A k \in 1..Len(l) :
             /\ l[k].is \in {"dw", "number", "instruction", "register", "reserved", "name"}
             /\ l[k].is = "name" => \E a : Shown(rom, a) /\ l[k].of = Label(rom, a)
             /\ IsWord(l[k])
        /\ l[1].is = "dw" => Len(l) = 2 /\ l[2].is = "number"
        /\ l[1].is # "dw" => \A k \in 1..Len(l) : l[k].is # "dw"
    BY <1>1, <2>1, CodeWords
  <2>3. Weight(l) = IF l[1].is = "dw" THEN 2 ELSE Len(l) + 1
    BY DEF Weight
  <2>4. \A k \in 1..Len(l) : l[k].is = "reserved" => l[k].of \in Reserved
    BY <2>2 DEF IsWord
  <2> QED
    BY <1>3, <2>2, <2>3, <2>4
<1> QED
  BY <1>2, <1>5, <1>6, LineIs

--------------------------------------------------------------------------------
\* How many symbols line has, with words in front of word dealt with.
Had == IF word = 0 THEN 0 ELSE IF program[line][1].is = "dw" /\ word > 1 THEN 2 ELSE word

\* The symbols of the lines up to n are what is made of them.
Listed(syms, found, n) ==
  \A j \in 1..n : \A m \in 1..Weight(program[j]) : syms[Before[j] + m] = Made(found, j, m)

\* So far as it was parsed, those of the line are too, and its last is waiting.
Begun ==
  /\ line \in 1..Len(program) => /\ word \in 0..Len(program[line]) + 1
                                 /\ program[line][1].is = "dw" => word # 2
  /\ line \notin 1..Len(program) => word = 0
  /\ Len(symbols) = Before[line] + Had
  /\ \A m \in 1..Had :
       symbols[Before[line] + m] = IF m = Had THEN Null ELSE Made(labels, line, m)

\* A label's address takes its place.
Substituted(found, s) ==
  IF s.type # "label" THEN s
  ELSE Symbol("int12", found[s.value].byte % ValueSize, s.ln)
Resolved ==
  \A j \in 1..Len(program) : \A m \in 1..Weight(program[j]) :
    symbols[Before[j] + m] = Substituted(labels, Made(labels, j, m))

\* The inductive invariant of assembling a disassembly: which symbols there are.
ListInv ==
  Disassembled /\ NotEnlarged =>
    /\ ~reported
    /\ phase = "parse" =>
         line \in 1..Len(program) + 1 /\ Begun /\ Listed(symbols, labels, line - 1)
    /\ phase = "resolve" =>
         Len(symbols) = Before[Len(program) + 1] /\ Listed(symbols, labels, Len(program))
    /\ phase = "write" => Len(symbols) = Before[Len(program) + 1] /\ Resolved

\* A label that is shown has been found.
LEMMA NameFound ==
  ASSUME Typed, Found(program, labels, Len(program)), Disassembled, NEW a, Shown(rom, a)
  PROVE  NamedIn(labels, Label(rom, a)) # {}
<1>1. Len(program) \in Nat /\ DOMAIN labels = 1..Len(labels)
  BY AheadIs DEF Typed
<1>2. PICK x : x = Label(rom, a)
  OBVIOUS
<1>3. PICK i \in 1..N + 1 : \E j : Leads(i, j, a)
  BY TargetLeads
<1>h. PICK h : Leads(i, h, a)
  BY <1>3
<1>4. h \in 1..Len(program) /\ program[h] = <<Low(x)>> /\ LeadAt(i, h)
  BY <1>2, <1>h, LeadIs DEF LeadAt
<1>5. DefLine(program, h)
  BY <1>4, DisassemblyIsPlain
<1>6. PICK n : n = Place(program, h)
  OBVIOUS
<1>7. labels[n].text = <<Upper(program[h][1])>>
  BY <1>4, <1>5, <1>6 DEF Found
<1>8. n \in 1..Len(labels)
  BY <1>1, <1>4, <1>5, <1>6, FoundLabel
<1>9. program[h][1] = Low(x)
  BY <1>4
<1>10. Upper(Low(x)) = Word("def", x)
  BY LowIs
<1> QED
  BY <1>1, <1>2, <1>7, <1>8, <1>9, <1>10 DEF NamedIn

\* In a disassembly every word is valid.
LEMMA AllValid ==
  ASSUME Typed, LabelInv, Disassembled, phase = "parse", NEW j \in 1..Len(program),
         NEW k \in 1..Len(program[j])
  PROVE  Valid(program[j][k])
<1>1. Found(program, labels, Len(program))
  BY DisassemblyIsPlain DEF LabelInv
<1>2. PICK w : w = program[j][k]
  OBVIOUS
<1>3. /\ w.is \in {"def", "dw", "number", "instruction", "register", "reserved", "name"}
      /\ w.is = "name" => \E a : Shown(rom, a) /\ w.of = Label(rom, a)
  BY <1>2, WordsFit
<1>4. ASSUME w.is = "name"
      PROVE  Named(w.of) # {}
  BY <1>1, <1>3, <1>4, NameFound DEF NamedIn, Named
<1>5. Valid(w)
  BY <1>3, <1>4 DEF Valid
<1> QED
  BY <1>2, <1>5

\* What is parsed is what is made of the line.
LEMMA ParsedMade ==
  ASSUME Typed, LabelInv, Disassembled, phase = "parse", line \in 1..Len(program),
         word \in 1..Len(program[line]), program[line][1].is = "dw" => word # 2
  PROVE  LET l == program[line]
             following == SubSeq(l, word + 1, Len(l))
         IN  /\ Parsed(l[word], following, Null) = Made(labels, line, word)
             /\ l[1].is = "dw" => word = 1 /\ Taken(l[word], following) = 2
             /\ l[1].is # "dw" => Taken(l[word], following) = 1
             /\ word < Weight(l)
<1>1. PICK l : l = program[line]
  OBVIOUS
<1>2. PICK k : k = word
  OBVIOUS
<1>3. PICK f : f = SubSeq(l, k + 1, Len(l))
  OBVIOUS
<1>4. /\ Len(l) \in Nat \ {0} /\ k \in 1..Len(l) /\ (l[1].is = "dw" => k # 2)
      /\ l[k].is \in {"def", "dw", "number", "instruction", "register", "reserved", "name"}
      /\ l[1].is = "dw" => Len(l) = 2 /\ l[2].is = "number" /\ Weight(l) = 2
      /\ l[1].is # "dw" => Weight(l) = Len(l) + 1 /\ l[k].is # "dw"
  BY <1>1, <1>2, WordsFit
<1>5. Made(labels, line, k) =
        IF k = Weight(l) THEN Null
        ELSE CASE l[k].is = "def"         -> Symbol("def", 0, line)
               [] l[k].is = "dw"          -> Symbol("dw", l[2].of % ValueSize, line)
               [] l[k].is = "instruction" -> Symbol("instruction", l[k].of, line)
               [] l[k].is = "register"    -> Symbol("v", l[k].of, line)
               [] l[k].is = "reserved"    -> Symbol(l[k].of, 0, line)
               [] l[k].is = "number"      -> Symbol(IntType(l[k].of), l[k].of % ValueSize, line)
               [] l[k].is = "name"        -> Symbol("label", Min(NamedIn(labels, l[k].of)), line)
  BY <1>1 DEF Made
<1>6. k < Weight(l) /\ k # Weight(l)
  BY <1>4
<1>7. CASE l[1].is = "dw"
  <2>0. Len(l) = 2 /\ l[2].is = "number" /\ k # 2
    BY <1>4, <1>7
  <2>1. k = 1 /\ Len(l) = 2 /\ l[2].is = "number"
    <3>1. k \in 1..2
      BY <1>4, <2>0
    <3> QED
      BY <2>0, <3>1
  <2>2. f # <<>> /\ f[1] = l[2]
    <3> DEFINE S == {l[2]}
    <3>1. \A i \in 2..2 : l[i] \in S
      OBVIOUS
    <3>2. f = SubSeq(l, 2, 2)
      BY <1>3, <2>1
    <3>3. /\ SubSeq(l, 2, 2) \in Seq(S)
          /\ Len(SubSeq(l, 2, 2)) = IF 2 <= 2 THEN 2 - 2 + 1 ELSE 0
          /\ \A i \in 1..2 - 2 + 1 : SubSeq(l, 2, 2)[i] = l[2 + i - 1]
      <4>1. 2 \in Int
        OBVIOUS
      <4> HIDE DEF S
      <4> QED
        BY <3>1, <4>1, SubSeqProperties
    <3>4. Len(f) = 1 /\ f \in Seq(S) /\ f[1] = l[2]
      BY <3>2, <3>3
    <3> QED
      BY <3>4
  <2>3. l[k].is = "dw"
    BY <1>7, <2>1
  <2>4. IntOf(l[2]) = l[2].of % ValueSize
    BY <2>1 DEF IntOf
  <2>5. Parsed(l[k], f, Null) = Symbol("dw", IntOf(f[1]), line)
    BY <2>2, <2>3 DEF Parsed
  <2>6. Parsed(l[k], f, Null) = Made(labels, line, k)
    BY <1>5, <1>6, <2>2, <2>3, <2>4, <2>5
  <2>7. Taken(l[k], f) = 2
    BY <2>2, <2>3 DEF Taken
  <2> QED
    BY <1>1, <1>2, <1>3, <1>6, <1>7, <2>1, <2>6, <2>7
<1>8. CASE l[1].is # "dw"
  <2>1. l[k].is \in {"def", "number", "instruction", "register", "reserved", "name"}
    BY <1>4, <1>8
  <2>2. Taken(l[k], f) = 1
    BY <2>1 DEF Taken
  <2>3. Null.value = 0
    BY DEF Null, Symbol
  <2>4. Named(l[k].of) = NamedIn(labels, l[k].of)
    BY DEF Named, NamedIn
  <2>5. Parsed(l[k], f, Null) = Made(labels, line, k)
    BY <1>5, <1>6, <2>1, <2>3, <2>4 DEF Parsed
  <2> QED
    BY <1>1, <1>2, <1>3, <1>6, <1>8, <2>2, <2>5
<1> QED
  BY <1>7, <1>8

\* The program that is disassembled does not change, nor what follows from it.
LEMMA SameProgram ==
  ASSUME UNCHANGED program, UNCHANGED romVars
  PROVE  /\ Disassembled' <=> Disassembled
         /\ N' = N /\ Before' = Before /\ Weights' = Weights /\ Ahead' = Ahead
         /\ \A i, j : InBlock(i, j)' <=> InBlock(i, j)
         /\ \A found, j, m : Made(found, j, m)' = Made(found, j, m)
         /\ (Distinct' <=> Distinct) /\ (Assemblable' <=> Assemblable)
         /\ \A r, a : Shown(r, a)' <=> Shown(r, a)
<1>1. program' = program /\ rom' = rom /\ labelled' = labelled
  BY DEF romVars
<1>2. \A r, a : Shown(r, a)' <=> Shown(r, a)
  BY <1>1 DEF Shown
<1>3. \A r, a : LabelLine(r, a)' = LabelLine(r, a)
  BY <1>2 DEF LabelLine
<1>4. \A r, w : Instruction(r, w)' = Instruction(r, w)
  BY <1>2 DEF Instruction, Printed, Target
<1>5. \A r, i : WordLines(r, i)' = WordLines(r, i)
  BY <1>3, <1>4 DEF WordLines
<1>6. \A r : Disassembly(r)' = Disassembly(r)
  BY <1>3, <1>5 DEF Disassembly
<1>7. Disassembled' <=> Disassembled
  BY <1>1, <1>6 DEF Disassembled
<1>8. N' = N
  BY <1>1 DEF N
<1>9. Ahead' = Ahead
  BY <1>1, <1>5, <1>8 DEF Ahead, Blocks
<1>10. Weights' = Weights /\ Before' = Before
  BY <1>1 DEF Weights, Before
<1>11. \A i, j : InBlock(i, j)' <=> InBlock(i, j)
  BY <1>8, <1>9 DEF InBlock
<1>12. \A found, j, m : Made(found, j, m)' = Made(found, j, m)
  BY <1>1 DEF Made
<1>13. (Distinct' <=> Distinct) /\ (Assemblable' <=> Assemblable)
  BY <1>1 DEF Distinct, Assemblable
<1> QED
  BY <1>2, <1>7, <1>8, <1>9, <1>10, <1>11, <1>12, <1>13

\* Line by line
LEMMA ListBegin ==
  ASSUME Typed, ListInv, BeginLine, UNCHANGED romVars
  PROVE  ListInv'
<1> SUFFICES ASSUME Disassembled', NotEnlarged'
             PROVE  /\ ~reported'
                    /\ phase' = "parse" /\ line' \in 1..Len(program') + 1
                    /\ Begun' /\ Listed(symbols, labels, line - 1)'
  BY DEF ListInv
<1>1. /\ phase = "parse" /\ line \in Lines /\ word = 0
      /\ UNCHANGED <<program, phase, labels, next, defined, byte, out, reported, result>>
  BY LineBegun
<1>2. PICK q \in Seq(Symbols) :
              /\ Len(q) >= Len(symbols) /\ \A k \in 1..Len(symbols) : q[k] = symbols[k]
              /\ Len(q) > Len(symbols) => WordsOf(line)[1].is = "string"
              /\ \E s \in Fresh(Len(q) + 1) : symbols' = Append(q, s)
  BY LineBegun
<1>3. \/ WordsOf(line)[1].is = "string" /\ line' = line + 1 /\ word' = 0
      \/ WordsOf(line)[1].is # "string" /\ line' = line /\ word' = 1
  BY LineBegun
<1>4. Disassembled
  BY <1>1, SameProgram
<1>5. line \in 1..Len(program) /\ Len(program) \in Nat
  BY <1>1, <1>4, AheadIs DEF Lines
<1>6. WordsOf(line)[1].is # "string" /\ Len(program[line]) \in Nat \ {0}
  <2>1. WordsOf(line) = program[line]
    BY <1>1, <1>4, DisassemblyIsPlain, PlainText DEF Typed
  <2>2. /\ Len(program[line]) \in Nat \ {0}
        /\ \A k \in 1..Len(program[line]) : program[line][k].is # "string"
    BY <1>4, <1>5, WordsFit
  <2> QED
    BY <2>1, <2>2
<1>7. line' = line /\ word' = 1
  BY <1>3, <1>6
<1>8. PICK s \in Fresh(Len(q) + 1) : symbols' = Append(q, s)
  BY <1>2
<1>9. PICK n \in Nat : n = Len(symbols) /\ n = Len(q)
  BY <1>2, <1>6 DEF Typed
<1>10. /\ Len(symbols') = n + 1 /\ symbols'[n + 1] = s
       /\ \A k \in 1..n : symbols'[k] = symbols[k]
  <2>1. Len(Append(q, s)) = n + 1 /\ Append(q, s)[n + 1] = s
    BY <1>9
  <2>2. \A k \in 1..n : Append(q, s)[k] = q[k]
    BY <1>9
  <2> QED
    BY <1>2, <1>8, <1>9, <2>1, <2>2
<1>11. n + 1 <= SymbolCeiling /\ NotEnlarged
  BY <1>9, <1>10, Sizes DEF NotEnlarged
<1>12. s = Null
  BY <1>8, <1>9, <1>11 DEF Fresh
<1>13. /\ ~reported /\ Begun /\ Listed(symbols, labels, line - 1)
  BY <1>1, <1>4, <1>11 DEF ListInv
<1>14. n = Before[line]
  <2>1. Len(symbols) = Before[line] + Had /\ Had = 0
    BY <1>1, <1>13 DEF Begun, Had
  <2>2. PICK b \in Nat : b = Before[line]
    BY <1>4, <1>5, WeightsAre
  <2>3. n = b + 0
    BY <1>9, <2>1, <2>2
  <2>4. n = b
    BY <2>3
  <2> QED
    BY <2>2, <2>4
<1>15. Before' = Before /\ \A found, j, m : Made(found, j, m)' = Made(found, j, m)
  BY <1>1, SameProgram
<1>16. Had' = 1
  BY <1>7 DEF Had
<1>17. Begun'
  <2>1. Len(symbols') = Before[line] + 1 /\ symbols'[Before[line] + 1] = Null
    BY <1>10, <1>12, <1>14
  <2>2. \A m \in 1..1 : symbols'[Before[line] + m] = Null
    BY <2>1
  <2>3. /\ word' \in 0..Len(program[line]) + 1 /\ word' # 2
    BY <1>6, <1>7
  <2> QED
    BY <1>1, <1>5, <1>7, <1>15, <1>16, <2>1, <2>2, <2>3 DEF Begun
<1>18. Listed(symbols, labels, line - 1)'
  <2> SUFFICES ASSUME NEW j \in 1..line - 1, NEW m \in 1..Weight(program[j])
               PROVE  symbols'[Before[j] + m] = symbols[Before[j] + m]
    BY <1>1, <1>7, <1>13, <1>15 DEF Listed
  <2>1. j \in 1..Len(program) /\ line \in 1..Len(program) + 1 /\ j < line
    BY <1>5
  <2>2. Before[j] + m \in 1..n
    <3>1. Before[j] + Weights[j] <= Before[line]
      BY <1>4, <2>1, WeightsAre, SumsGrow
    <3>2. Before[j] \in Nat /\ Weights[j] = Weight(program[j]) /\ Weight(program[j]) \in Nat
      BY <1>4, <1>5, <2>1, WeightsAre
    <3> QED
      BY <1>14, <3>1, <3>2
  <2> QED
    BY <1>10, <2>2
<1> QED
  BY <1>1, <1>5, <1>7, <1>13, <1>17, <1>18

\* and word by word,
LEMMA ListWord ==
  ASSUME Typed, LabelInv, ListInv, ParseWord, UNCHANGED romVars
  PROVE  ListInv'
<1> SUFFICES ASSUME Disassembled', NotEnlarged'
             PROVE  /\ ~reported'
                    /\ phase' = "parse" /\ line' \in 1..Len(program') + 1
                    /\ Begun' /\ Listed(symbols, labels, line - 1)'
  BY DEF ListInv
<1>1. /\ phase = "parse" /\ line \in Lines /\ word \in DOMAIN WordsOf(line) /\ word \in Nat \ {0}
      /\ UNCHANGED <<program, phase, line, labels, next, defined, byte, out, reported, result>>
  BY WordParsed
<1>2. PICK q \in Seq(Symbols) :
              /\ Len(q) = Len(symbols)
              /\ \A k \in 1..Len(symbols) - 1 : q[k] = symbols[k]
              /\ q[Len(symbols)] =
                   Parsed(WordsOf(line)[word],
                          SubSeq(WordsOf(line), word + 1, Len(WordsOf(line))),
                          symbols[Len(symbols)])
              /\ \E s \in Fresh(Len(q) + 1) : symbols' = Append(q, s)
  BY WordParsed
<1>3. word' = word + Taken(WordsOf(line)[word], SubSeq(WordsOf(line), word + 1, Len(WordsOf(line))))
  BY WordParsed
<1>4. Disassembled
  BY <1>1, SameProgram
<1>5. line \in 1..Len(program) /\ Len(program) \in Nat
  BY <1>1, <1>4, AheadIs DEF Lines
<1>6. WordsOf(line) = program[line]
  BY <1>1, <1>4, DisassemblyIsPlain, PlainText DEF Typed
<1>7. PICK l : l = program[line]
  OBVIOUS
<1>8. Len(l) \in Nat \ {0} /\ word \in 1..Len(l)
  BY <1>1, <1>4, <1>5, <1>6, <1>7, WordsFit
<1>9. PICK s \in Fresh(Len(q) + 1) : symbols' = Append(q, s)
  BY <1>2
<1>10. PICK n \in Nat : n = Len(symbols) /\ n = Len(q)
  BY <1>2 DEF Typed
<1>11. /\ Len(symbols') = n + 1 /\ symbols'[n + 1] = s
       /\ \A k \in 1..n : symbols'[k] = q[k]
  <2>1. Len(Append(q, s)) = n + 1 /\ Append(q, s)[n + 1] = s
    BY <1>10
  <2>2. \A k \in 1..n : Append(q, s)[k] = q[k]
    BY <1>10
  <2> QED
    BY <1>9, <1>10, <2>1, <2>2
<1>12. n + 1 <= SymbolCeiling /\ NotEnlarged
  BY <1>10, <1>11, Sizes DEF NotEnlarged
<1>13. s = Null
  BY <1>9, <1>10, <1>12 DEF Fresh
<1>14. ~reported /\ Begun /\ Listed(symbols, labels, line - 1)
  BY <1>1, <1>4, <1>12 DEF ListInv
<1>15. l[1].is = "dw" => word # 2
  BY <1>5, <1>7, <1>14 DEF Begun
<1>16. /\ Parsed(l[word], SubSeq(l, word + 1, Len(l)), Null) = Made(labels, line, word)
       /\ l[1].is = "dw" => word = 1 /\ Taken(l[word], SubSeq(l, word + 1, Len(l))) = 2
       /\ l[1].is # "dw" => Taken(l[word], SubSeq(l, word + 1, Len(l))) = 1
       /\ word < Weight(l)
  BY <1>1, <1>4, <1>5, <1>7, <1>8, <1>15, ParsedMade
<1>17. Had = word
  BY <1>1, <1>7, <1>16 DEF Had
<1>18. PICK b \in Nat : b = Before[line]
  BY <1>4, <1>5, WeightsAre
<1>19. n = b + word
  BY <1>10, <1>14, <1>17, <1>18 DEF Begun
<1>20. Before' = Before /\ \A found, j, m : Made(found, j, m)' = Made(found, j, m)
  BY <1>1, SameProgram
<1>21. /\ word' = IF l[1].is = "dw" THEN 3 ELSE word + 1
       /\ Had' = word + 1
  <2>1. word' = word + Taken(l[word], SubSeq(l, word + 1, Len(l)))
    BY <1>3, <1>6, <1>7
  <2>2. CASE l[1].is = "dw"
    <3>1. word' = 3 /\ word = 1
      BY <1>16, <2>1, <2>2
    <3> QED
      BY <1>1, <1>7, <2>2, <3>1 DEF Had
  <2>3. CASE l[1].is # "dw"
    <3>1. word' = word + 1
      BY <1>16, <2>1, <2>3
    <3> QED
      BY <1>1, <1>7, <2>3, <3>1 DEF Had
  <2> QED
    BY <2>2, <2>3
<1>22. q[n] = Made(labels, line, word)
  <2>1. symbols[n] = Null
    <3>1. \A m \in 1..word : symbols[b + m] = IF m = word THEN Null ELSE Made(labels, line, m)
      BY <1>14, <1>17, <1>18 DEF Begun
    <3>2. word \in 1..word
      BY <1>1
    <3> QED
      BY <1>19, <3>1, <3>2
  <2> QED
    BY <1>2, <1>6, <1>7, <1>10, <1>16, <2>1
<1>23. ASSUME NEW m \in 1..word + 1
       PROVE  symbols'[b + m] = IF m = word + 1 THEN Null ELSE Made(labels, line, m)
  <2>1. CASE m = word + 1
    <3>1. b + m = n + 1
      BY <1>1, <1>19, <2>1
    <3> QED
      BY <1>11, <1>13, <2>1, <3>1
  <2>2. CASE m = word
    <3>1. b + m = n /\ m # word + 1 /\ n \in 1..n
      BY <1>1, <1>19, <2>2
    <3> QED
      BY <1>11, <1>22, <2>2, <3>1
  <2>3. CASE m < word
    <3>1. b + m \in 1..n /\ b + m \in 1..n - 1 /\ m # word /\ m # word + 1 /\ m \in 1..word
      BY <1>1, <1>19, <2>3
    <3>2. symbols'[b + m] = symbols[b + m]
      BY <1>2, <1>10, <1>11, <3>1
    <3>3. symbols[b + m] = Made(labels, line, m)
      BY <1>14, <1>17, <1>18, <3>1 DEF Begun
    <3> QED
      BY <3>1, <3>2, <3>3
  <2> QED
    BY <1>1, <2>1, <2>2, <2>3
<1>24. Begun'
  <2>1. Len(symbols') = b + (word + 1)
    BY <1>1, <1>11, <1>19
  <2>2. word' \in 0..Len(l) + 1 /\ (l[1].is = "dw" => word' # 2)
    <3>1. l[1].is = "dw" => Len(l) = 2
      BY <1>4, <1>5, <1>7, WordsFit
    <3>2. CASE l[1].is = "dw"
      <4>1. word' = 3
        BY <1>21, <3>2
      <4>2. Len(l) = 2
        BY <3>1, <3>2
      <4>3. 3 \in 0..2 + 1
        OBVIOUS
      <4> QED
        BY <4>1, <4>2, <4>3
    <3>3. CASE l[1].is # "dw"
      <4>1. word' = word + 1
        BY <1>21, <3>3
      <4> QED
        BY <1>8, <3>3, <4>1
    <3> QED
      BY <3>2, <3>3
  <2>3. program' = program /\ line' = line /\ labels' = labels
    BY <1>1
  <2> QED
    BY <1>5, <1>7, <1>18, <1>20, <1>21, <1>23, <2>1, <2>2, <2>3 DEF Begun
<1>25. Listed(symbols, labels, line - 1)'
  <2> SUFFICES ASSUME NEW j \in 1..line - 1, NEW m \in 1..Weight(program[j])
               PROVE  symbols'[Before[j] + m] = symbols[Before[j] + m]
    BY <1>1, <1>14, <1>20 DEF Listed
  <2>1. j \in 1..Len(program) /\ line \in 1..Len(program) + 1 /\ j < line
    BY <1>5
  <2>2. Before[j] + m \in 1..n /\ Before[j] + m \in 1..n - 1
    <3>1. Before[j] + Weights[j] <= Before[line]
      BY <1>4, <2>1, WeightsAre, SumsGrow
    <3>2. Before[j] \in Nat /\ Weights[j] = Weight(program[j]) /\ Weight(program[j]) \in Nat
      BY <1>4, <1>5, <2>1, WeightsAre
    <3>3. PICK x \in Nat, y \in Nat : x = Before[j] /\ y = Weight(program[j])
      BY <3>2
    <3>4. x + y <= b /\ m \in 1..y
      BY <1>18, <3>1, <3>2, <3>3
    <3>5. x + m \in 1..b
      BY <3>4
    <3>6. n > b
      BY <1>1, <1>19
    <3>7. x + m \in 1..n /\ x + m \in 1..n - 1
      BY <3>5, <3>6
    <3> QED
      BY <3>3, <3>7
  <2> QED
    BY <1>2, <1>10, <1>11, <2>2
<1> QED
  BY <1>1, <1>5, <1>14, <1>24, <1>25

\* until the line is done.
LEMMA ListEnd ==
  ASSUME Typed, ListInv, EndLine, UNCHANGED romVars
  PROVE  ListInv'
<1> SUFFICES ASSUME Disassembled', NotEnlarged'
             PROVE  /\ ~reported'
                    /\ phase' = "parse" /\ line' \in 1..Len(program') + 1
                    /\ Begun' /\ Listed(symbols, labels, line - 1)'
  BY DEF ListInv, EndLine
<1>1. /\ phase = "parse" /\ line \in Lines /\ word > Len(WordsOf(line))
      /\ line' = line + 1 /\ word' = 0
      /\ UNCHANGED <<program, phase, labels, symbols, reported>>
  BY DEF EndLine
<1>2. Disassembled
  BY <1>1, SameProgram
<1>3. line \in 1..Len(program) /\ Len(program) \in Nat /\ line + 1 \in 1..Len(program) + 1
  BY <1>1, <1>2, AheadIs DEF Lines
<1>4. WordsOf(line) = program[line]
  BY <1>1, <1>2, DisassemblyIsPlain, PlainText DEF Typed
<1>5. NotEnlarged
  BY <1>1 DEF NotEnlarged
<1>6. ~reported /\ Begun /\ Listed(symbols, labels, line - 1)
  BY <1>1, <1>2, <1>5 DEF ListInv
<1>7. PICK l : l = program[line]
  OBVIOUS
<1>8. /\ Len(l) \in Nat \ {0} /\ (l[1].is = "dw" => Len(l) = 2 /\ Weight(l) = 2)
      /\ l[1].is # "dw" => Weight(l) = Len(l) + 1
  BY <1>2, <1>3, <1>7, WordsFit
<1>9. word = Len(l) + 1
  <2>1. word \in 0..Len(l) + 1 /\ word > Len(l)
    BY <1>1, <1>3, <1>4, <1>6, <1>7 DEF Begun
  <2> QED
    BY <1>8, <2>1
<1>10. Had = Weight(l)
  BY <1>7, <1>8, <1>9 DEF Had
<1>11. Before[line + 1] = Before[line] + Weight(l) /\ Weight(l) \in Nat /\ Before[line] \in Nat
  BY <1>2, <1>3, <1>7, WeightsAre
<1>12. Before' = Before /\ \A found, j, m : Made(found, j, m)' = Made(found, j, m)
  BY <1>1, SameProgram
<1>13. Had' = 0
  BY <1>1 DEF Had
<1>14. Begun'
  <2>1. Len(symbols) = Before[line + 1] + 0
    BY <1>6, <1>10, <1>11 DEF Begun
  <2>2. \A m \in 1..0 : FALSE
    OBVIOUS
  <2>3. 0 \in 0..Len(program[line + 1]) + 1 \/ line + 1 \notin 1..Len(program)
    <3>1. line + 1 \in 1..Len(program) => Len(program[line + 1]) \in Nat
      BY <1>2, WordsFit
    <3> QED
      BY <3>1
  <2> QED
    BY <1>1, <1>12, <1>13, <2>1, <2>2, <2>3 DEF Begun
<1>15. Listed(symbols, labels, line - 1)'
  <2>1. \A m \in 1..Weight(l) : symbols[Before[line] + m] = Made(labels, line, m)
    <3>1. \A m : m = Weight(l) => Made(labels, line, m) = Null
      BY <1>7 DEF Made
    <3> QED
      BY <1>6, <1>10, <3>1 DEF Begun
  <2>2. \A j \in 1..line' - 1 : j = line \/ j \in 1..line - 1
    BY <1>1, <1>3
  <2>3. Listed(symbols, labels, line' - 1)
    BY <1>6, <1>7, <2>1, <2>2 DEF Listed
  <2> QED
    BY <1>1, <1>12, <2>3 DEF Listed
<1> QED
  BY <1>1, <1>3, <1>6, <1>14, <1>15

\* A label's address says nothing of what is made of its name.
LEMMA SameNames ==
  ASSUME NEW found, NEW placed, DOMAIN placed = DOMAIN found,
         \A k \in DOMAIN found : placed[k].text = found[k].text
  PROVE  \A j, m : Made(placed, j, m) = Made(found, j, m)
<1>1. \A x : NamedIn(placed, x) = NamedIn(found, x)
  BY DEF NamedIn
<1> QED
  BY <1>1 DEF Made

\* Every step keeps ListInv.
LEMMA ListStep ==
  Typed /\ FitsInv /\ LabelInv /\ ListInv /\ [Next]_vars /\ UNCHANGED romVars => ListInv'
<1> SUFFICES ASSUME Typed, FitsInv, LabelInv, ListInv, [Next]_vars, UNCHANGED romVars
             PROVE  ListInv'
  OBVIOUS
<1>1. CASE NoValidLines \/ Unresolved \/ Written
  <2>1. UNCHANGED <<program, symbols, reported>> /\ phase' = "ended"
    BY <1>1 DEF NoValidLines, Unresolved, Written, Return
  <2> QED
    BY <2>1, SameProgram DEF ListInv, NotEnlarged
<1>2. CASE PopulateLine
  <2>1. /\ UNCHANGED <<program, symbols, reported>>
        /\ phase' = "ended" \/ phase' = "labels"
    BY <1>2 DEF PopulateLine, Return
  <2> QED
    BY <2>1, SameProgram DEF ListInv, NotEnlarged
<1>3. CASE Populated
  <2>1. /\ UNCHANGED <<program, symbols, reported, word>> /\ symbols = <<>> /\ word = 0
        /\ phase' = "parse" /\ line' = 1
    BY <1>3 DEF Populated, FitsInv, Typed
  <2> SUFFICES ASSUME Disassembled', NotEnlarged'
               PROVE  ~reported' /\ line' \in 1..Len(program') + 1 /\ Begun'
                      /\ Listed(symbols, labels, line - 1)'
    BY <2>1 DEF ListInv
  <2>2. Disassembled /\ NotEnlarged
    BY <2>1, SameProgram DEF NotEnlarged
  <2>3. ~reported
    BY <2>2 DEF ListInv
  <2>4. Before[1] = 0 /\ Before' = Before /\ Len(program) \in Nat
    BY <2>1, <2>2, WeightsAre, SameProgram
  <2>5. Had' = 0
    BY <2>1 DEF Had
  <2>6. Begun'
    <3>1. 1 \in 1..Len(program) => 0 \in 0..Len(program[1]) + 1
      <4>1. 1 \in 1..Len(program) => Len(program[1]) \in Nat
        BY <2>2, WordsFit
      <4> QED
        BY <4>1
    <3>2. Len(<<>>) = 0 + 0 /\ \A m \in 1..0 : FALSE
      OBVIOUS
    <3> QED
      BY <2>1, <2>4, <2>5, <3>1, <3>2 DEF Begun
  <2>7. Listed(symbols, labels, line - 1)'
    <3>1. \A j \in 1..1 - 1 : FALSE
      OBVIOUS
    <3> QED
      BY <2>1, <3>1 DEF Listed
  <2> QED
    BY <2>1, <2>3, <2>4, <2>6, <2>7
<1>4. CASE BeginLine
  BY <1>4, ListBegin
<1>5. CASE ParseWord
  BY <1>5, ListWord
<1>6. CASE EndLine
  BY <1>6, ListEnd
<1>7. CASE ParseInvalid
  <2>1. /\ UNCHANGED program /\ phase = "parse" /\ line \in Lines /\ word \in DOMAIN WordsOf(line)
        /\ ~Valid(WordsOf(line)[word])
    BY <1>7 DEF ParseInvalid
  <2>2. ASSUME Disassembled PROVE FALSE
    <3>1. WordsOf(line) = program[line]
      BY <2>1, <2>2, DisassemblyIsPlain, PlainText DEF Typed
    <3>2. line \in 1..Len(program)
      BY <2>1, <2>2, AheadIs DEF Lines
    <3>3. word \in 1..Len(program[line])
      BY <2>1, <2>2, <3>1, <3>2, WordsFit
    <3> QED
      BY <2>1, <2>2, <3>1, <3>2, <3>3, AllValid
  <2> QED
    BY <2>1, <2>2, SameProgram DEF ListInv
<1>8. CASE ParsedAll
  <2>1. /\ UNCHANGED <<program, symbols, reported, labels, line, word>> /\ phase' = "resolve"
        /\ phase = "parse" /\ line > Len(program)
    BY <1>8 DEF ParsedAll
  <2> SUFFICES ASSUME Disassembled', NotEnlarged'
               PROVE  ~reported' /\ Len(symbols') = Before'[Len(program') + 1]
                      /\ Listed(symbols, labels, Len(program))'
    BY <2>1 DEF ListInv
  <2>2. Disassembled /\ NotEnlarged
    BY <2>1, SameProgram DEF NotEnlarged
  <2>3. ~reported /\ line \in 1..Len(program) + 1 /\ Begun /\ Listed(symbols, labels, line - 1)
    BY <2>1, <2>2 DEF ListInv
  <2>4. Len(program) \in Nat
    BY <2>2, AheadIs
  <2>5. line = Len(program) + 1 /\ line - 1 = Len(program) /\ line \notin 1..Len(program)
    BY <2>1, <2>3, <2>4
  <2>6. Had = 0 /\ Before[line] \in Nat
    BY <2>2, <2>3, <2>5, WeightsAre DEF Begun, Had
  <2>7. Len(symbols) = Before[line]
    BY <2>3, <2>6 DEF Begun
  <2>8. Before' = Before /\ \A found, j, m : Made(found, j, m)' = Made(found, j, m)
    BY <2>1, SameProgram
  <2>9. Listed(symbols, labels, Len(program))
    BY <2>3, <2>5
  <2> QED
    BY <2>1, <2>3, <2>5, <2>7, <2>8, <2>9 DEF Listed
<1>9. CASE ResolveSymbol
  <2>1. /\ UNCHANGED <<program, symbols, reported, phase>> /\ phase = "resolve"
        /\ defined < Len(labels)
        /\ labels' = labels \/ labels' = [labels EXCEPT ![defined + 1].byte = byte]
    BY <1>9 DEF ResolveSymbol
  <2> SUFFICES ASSUME Disassembled', NotEnlarged'
               PROVE  ~reported' /\ Len(symbols') = Before'[Len(program') + 1]
                      /\ Listed(symbols, labels, Len(program))'
    BY <2>1 DEF ListInv
  <2>2. Disassembled /\ NotEnlarged
    BY <2>1, SameProgram DEF NotEnlarged
  <2>3. /\ ~reported /\ Len(symbols) = Before[Len(program) + 1]
        /\ Listed(symbols, labels, Len(program))
    BY <2>1, <2>2 DEF ListInv
  <2>4. DOMAIN labels' = DOMAIN labels /\ \A k \in DOMAIN labels : labels'[k].text = labels[k].text
    <3>1. CASE labels' = labels
      BY <3>1
    <3>2. CASE labels' = [labels EXCEPT ![defined + 1].byte = byte]
      <4>1. labels \in [1..Len(labels) -> Labels]
        BY DEF Typed
      <4>2. \A k \in DOMAIN labels : labels[k] \in [text : LabelTexts, byte : Nat]
        BY <4>1 DEF Labels
      <4> QED
        BY <3>2, <4>1, <4>2
    <3> QED
      BY <2>1, <3>1, <3>2
  <2>5. \A j, m : Made(labels', j, m) = Made(labels, j, m)
    BY <2>4, SameNames
  <2>6. Before' = Before /\ \A found, j, m : Made(found, j, m)' = Made(found, j, m)
    BY <2>1, SameProgram
  <2>7. Listed(symbols, labels', Len(program))
    BY <2>3, <2>5 DEF Listed
  <2>8. Listed(symbols, labels, Len(program))'
    BY <2>1, <2>6, <2>7 DEF Listed
  <2> QED
    BY <2>1, <2>3, <2>6, <2>8
<1>10. CASE Substitute
  <2>1. /\ UNCHANGED <<program, reported, labels>> /\ phase = "resolve"
        /\ \/ phase' = "ended" /\ UNCHANGED symbols
           \/ /\ phase' = "write"
              /\ symbols' = [k \in DOMAIN symbols |->
                   IF symbols[k].type # "label" THEN symbols[k]
                   ELSE Symbol("int12", labels[symbols[k].value].byte % ValueSize, symbols[k].ln)]
    BY <1>10 DEF Substitute, Return
  <2>2. CASE phase' = "ended" /\ UNCHANGED symbols
    BY <2>1, <2>2, SameProgram DEF ListInv, NotEnlarged
  <2>3. CASE /\ phase' = "write"
             /\ symbols' = [k \in DOMAIN symbols |->
                   IF symbols[k].type # "label" THEN symbols[k]
                   ELSE Symbol("int12", labels[symbols[k].value].byte % ValueSize, symbols[k].ln)]
    <3> SUFFICES ASSUME Disassembled', NotEnlarged'
                 PROVE  ~reported' /\ Len(symbols') = Before'[Len(program') + 1] /\ Resolved'
      BY <2>3 DEF ListInv
    <3>1. PICK n \in Nat : n = Len(symbols) /\ DOMAIN symbols = 1..n
      BY DEF Typed
    <3>2. /\ DOMAIN symbols' = 1..n /\ Len(symbols') = n
          /\ \A k \in 1..n : symbols'[k] = Substituted(labels, symbols[k])
      <4>1. symbols' = [k \in 1..n |-> Substituted(labels, symbols[k])]
        BY <2>3, <3>1 DEF Substituted
      <4> QED
        BY <4>1
    <3>3. Disassembled /\ NotEnlarged
      BY <2>1, <3>1, <3>2, SameProgram DEF NotEnlarged
    <3>4. /\ ~reported /\ n = Before[Len(program) + 1]
          /\ Listed(symbols, labels, Len(program))
      BY <2>1, <3>1, <3>3 DEF ListInv
    <3>5. Before' = Before /\ \A found, j, m : Made(found, j, m)' = Made(found, j, m)
      BY <2>1, SameProgram
    <3>6. ASSUME NEW j \in 1..Len(program), NEW m \in 1..Weight(program[j])
          PROVE  symbols'[Before[j] + m] = Substituted(labels, Made(labels, j, m))
      <4>1. Before[j] + Weights[j] <= n
        <5>1. Len(program) \in Nat
          BY <3>3, AheadIs
        <5>2. Len(program) + 1 \in 1..Len(program) + 1 /\ j < Len(program) + 1
          BY <5>1
        <5> QED
          BY <3>3, <3>4, <5>1, <5>2, WeightsAre, SumsGrow
      <4>2. Before[j] \in Nat /\ Weights[j] = Weight(program[j]) /\ Weight(program[j]) \in Nat
        <5>1. j \in 1..Len(program) + 1
          BY <3>3, AheadIs
        <5> QED
          BY <3>3, <5>1, WeightsAre
      <4>3. Before[j] + m \in 1..n
        BY <4>1, <4>2
      <4>4. symbols[Before[j] + m] = Made(labels, j, m)
        BY <3>4 DEF Listed
      <4> QED
        BY <3>2, <4>3, <4>4
    <3>7. Resolved'
      BY <2>1, <3>5, <3>6 DEF Resolved, Substituted
    <3> QED
      BY <2>1, <3>2, <3>4, <3>5, <3>7
  <2> QED
    BY <2>1, <2>2, <2>3
<1>11. CASE WriteSymbol
  <2>1. /\ UNCHANGED <<program, symbols, labels, reported>> /\ phase = "write"
        /\ phase' = "write" \/ phase' = "ended"
    BY <1>11, Writes DEF Refuse, Return, Put
  <2>2. Before' = Before /\ \A found, j, m : Made(found, j, m)' = Made(found, j, m)
    BY <2>1, SameProgram
  <2>3. Resolved => Resolved'
    BY <2>1, <2>2 DEF Resolved, Substituted
  <2> QED
    BY <2>1, <2>2, <2>3, SameProgram DEF ListInv, NotEnlarged
<1>12. CASE UNCHANGED vars
  <2>1. UNCHANGED <<program, phase, line, word, labels, symbols, reported>>
    BY <1>12 DEF vars
  <2>2. Before' = Before /\ \A found, j, m : Made(found, j, m)' = Made(found, j, m)
    BY <2>1, SameProgram
  <2>3. Had' = Had
    BY <2>1 DEF Had
  <2>4. (Resolved => Resolved') /\ (Begun => Begun')
        /\ \A n : Listed(symbols, labels, n) => Listed(symbols, labels, n)'
    BY <2>1, <2>2, <2>3 DEF Resolved, Substituted, Begun, Listed
  <2> QED
    BY <2>1, <2>2, <2>4, SameProgram DEF ListInv, NotEnlarged
<1> QED
  BY <1>1, <1>2, <1>3, <1>4, <1>5, <1>6, <1>7, <1>8, <1>9, <1>10, <1>11, <1>12 DEF Next

--------------------------------------------------------------------------------
\* The type of a number's symbol is one of three.
LEMMA IntTypes ==
  ASSUME NEW v \in 0..AddrSize - 1
  PROVE  /\ v % ValueSize = v /\ IntType(v) \in Integers4To12
         /\ IntType(v) = "int4" => v < NibbleSize
         /\ IntType(v) = "int8" => v < ByteSize
<1>1. NibbleSize < ByteSize /\ ByteSize < AddrSize /\ AddrSize < ValueSize
  BY AssemblerAssumption
<1>2. v \in Nat /\ v < ValueSize
  BY <1>1, Sizes
<1>3. v % ValueSize = v
  BY <1>2, Sizes
<1>4. v < NibbleSize \/ (v >= NibbleSize /\ v < ByteSize) \/ (v >= ByteSize /\ v < AddrSize)
  BY <1>2, Sizes
<1>5. IntType(v) = "int4" => v < NibbleSize
  BY <1>2, <1>4, Sizes DEF IntType
<1>6. IntType(v) = "int8" => v < ByteSize
  BY <1>2, <1>4, Sizes DEF IntType
<1>7. IntType(v) \in Integers4To12
  BY <1>4 DEF IntType, Integers4To12
<1> QED
  BY <1>3, <1>5, <1>6, <1>7

\* With labels substituted, a label's line leaves its definition in the list.
LEMMA LeadSymbols ==
  ASSUME Disassembled, Resolved, NEW j \in 1..Len(program), NEW i, LeadAt(i, j)
  PROVE  symbols[Before[j] + 1] = Symbol("def", 0, j) /\ symbols[Before[j] + 2] = Null
<1>1. Weight(program[j]) = 2 /\ Made(labels, j, 1) = Symbol("def", 0, j) /\ Made(labels, j, 2) = Null
  BY LeadMade
<1>2. Symbol("def", 0, j).type # "label" /\ Null.type # "label"
  BY DEF Symbol, Null
<1>3. 1 \in 1..2 /\ 2 \in 1..2
  OBVIOUS
<1> QED
  BY <1>1, <1>2, <1>3 DEF Resolved, Substituted

\* What is in the list in an operand's place when labels are substituted,
ArgAt(a, j) ==
  CASE a.is = "register" -> Symbol("v", a.of, j)
    [] a.is = "reserved" -> Symbol(a.of, 0, j)
    [] a.is = "number"   -> Symbol(IntType(a.of), a.of, j)
    [] a.is = "address"  ->
         IF Shown(rom, a.of)
         THEN Symbol("int12", labels[Min(NamedIn(labels, Label(rom, a.of)))].byte % ValueSize, j)
         ELSE Symbol(IntType(a.of), a.of, j)

\* which is one that is an operand.
LEMMA ArgSymbol ==
  ASSUME NEW a, NEW kind, IsOperand(a, kind), NEW j
  PROVE  /\ Substituted(labels, ArgMade(labels, a, j)) = ArgAt(a, j)
         /\ ArgAt(a, j).type \in Operands
<1>1. \A t, v, l : /\ Symbol(t, v, l).type = t /\ Symbol(t, v, l).value = v
                   /\ Symbol(t, v, l).ln = l
  BY DEF Symbol
<1>2. \A t, x : Word(t, x).is = t /\ Word(t, x).of = x
  BY DEF Word
<1>3. NibbleSize < ByteSize /\ ByteSize < AddrSize
  BY AssemblerAssumption
<1>4. Integers4To12 \cup {"v"} \subseteq Operands /\ "label" \notin Operands
  BY DEF Operands, Integers4To12
<1>5. ASSUME NEW x \in 0..AddrSize - 1
      PROVE  /\ x % ValueSize = x /\ IntType(x) \in Integers4To12
             /\ Substituted(labels, Symbol(IntType(x), x % ValueSize, j)) = Symbol(IntType(x), x, j)
  <2>1. x % ValueSize = x /\ IntType(x) \in Integers4To12
    BY IntTypes
  <2>2. IntType(x) # "label"
    BY <1>4, <2>1
  <2> QED
    BY <1>1, <2>1, <2>2 DEF Substituted
<1>6. CASE a = Word("register", a.of)
  <2>1. a.is = "register"
    BY <1>2, <1>6
  <2>2. ArgMade(labels, a, j) = Symbol("v", a.of, j) /\ ArgAt(a, j) = Symbol("v", a.of, j)
    BY <2>1 DEF ArgMade, ArgAt
  <2>3. Substituted(labels, Symbol("v", a.of, j)) = Symbol("v", a.of, j)
    BY <1>1 DEF Substituted
  <2> QED
    BY <1>1, <1>4, <2>2, <2>3
<1>7. CASE a = Word("number", a.of) /\ a.of \in 0..ByteSize - 1
  <2>1. a.is = "number" /\ a.of \in 0..AddrSize - 1
    <3>1. a.of \in 0..AddrSize - 1
      BY <1>3, <1>7, Sizes
    <3> QED
      BY <1>2, <1>7, <3>1
  <2>2. /\ ArgMade(labels, a, j) = Symbol(IntType(a.of), a.of % ValueSize, j)
        /\ ArgAt(a, j) = Symbol(IntType(a.of), a.of, j)
    BY <2>1 DEF ArgMade, ArgAt
  <2> QED
    BY <1>1, <1>4, <1>5, <2>1, <2>2
<1>8. CASE a = Word("address", a.of) /\ a.of \in 0..AddrSize - 1
  <2>1. a.is = "address"
    BY <1>2, <1>8
  <2>2. CASE Shown(rom, a.of)
    <3>1. PICK k : k = Min(NamedIn(labels, Label(rom, a.of)))
      OBVIOUS
    <3>2. /\ ArgMade(labels, a, j) = Symbol("label", k, j)
          /\ ArgAt(a, j) = Symbol("int12", labels[k].byte % ValueSize, j)
      BY <2>1, <2>2, <3>1 DEF ArgMade, ArgAt
    <3>3. Substituted(labels, Symbol("label", k, j)) = Symbol("int12", labels[k].byte % ValueSize, j)
      BY <1>1 DEF Substituted
    <3>4. "int12" \in Operands
      BY DEF Operands, Integers4To12
    <3> QED
      BY <1>1, <3>2, <3>3, <3>4
  <2>3. CASE ~Shown(rom, a.of)
    <3>1. /\ ArgMade(labels, a, j) = Symbol(IntType(a.of), a.of % ValueSize, j)
          /\ ArgAt(a, j) = Symbol(IntType(a.of), a.of, j)
      BY <2>1, <2>3 DEF ArgMade, ArgAt
    <3> QED
      BY <1>1, <1>4, <1>5, <1>8, <3>1
  <2> QED
    BY <2>2, <2>3
<1>9. CASE a = Word("reserved", kind) /\ kind \in Operands
  <2>1. a.is = "reserved" /\ a.of = kind
    BY <1>2, <1>9
  <2>2. ArgMade(labels, a, j) = Symbol(kind, 0, j) /\ ArgAt(a, j) = Symbol(kind, 0, j)
    BY <2>1 DEF ArgMade, ArgAt
  <2>3. Substituted(labels, Symbol(kind, 0, j)) = Symbol(kind, 0, j)
    BY <1>1, <1>4, <1>9 DEF Substituted
  <2> QED
    BY <1>1, <1>9, <2>2, <2>3
<1> QED
  BY <1>6, <1>7, <1>8, <1>9 DEF IsOperand

\* A word's line leaves the command and its operands in the list.
LEMMA CodeSymbols ==
  ASSUME Disassembled, Resolved, NEW j \in 1..Len(program), NEW i \in 1..N, CodeAt(i, j)
  PROVE  LET w == rom.words[i]
             n == Len(w.args)
             b == Before[j] + 1
         IN  /\ n \in 0..3 /\ Weight(program[j]) = n + 2
             /\ symbols[b] = HeadOf(w, j) /\ symbols[b + (n + 1)] = Null
             /\ \A m \in 1..n : /\ symbols[b + m] = ArgAt(w.args[m], j)
                                /\ symbols[b + m].type \in Operands
<1>1. rom \in Roms
  BY DEF Disassembled
<1>2. PICK w : w = rom.words[i]
  OBVIOUS
<1>3. PICK n \in 0..3 : n = Len(w.args)
  BY <1>1, <1>2, CodeMade
<1>4. /\ Weight(program[j]) = n + 2
      /\ Made(labels, j, 1) = HeadOf(w, j) /\ Made(labels, j, n + 2) = Null
      /\ \A m \in 1..n : Made(labels, j, m + 1) = ArgMade(labels, w.args[m], j)
  BY <1>1, <1>2, <1>3, CodeMade
<1>5. PICK b \in Nat : b = Before[j]
  <2>1. j \in 1..Len(program) + 1
    BY AheadIs
  <2> QED
    BY <2>1, WeightsAre
<1>6. \A m \in 1..n + 2 : symbols[b + m] = Substituted(labels, Made(labels, j, m))
  BY <1>4, <1>5 DEF Resolved
<1>7. /\ \A t, v, l : Symbol(t, v, l).type = t /\ Symbol(t, v, l).value = v /\ Symbol(t, v, l).ln = l
      /\ Null.type = "null"
  BY DEF Symbol, Null
<1>8. symbols[b + 1] = HeadOf(w, j)
  <2>1. HeadOf(w, j).type # "label"
    BY <1>7 DEF HeadOf
  <2>2. 1 \in 1..n + 2
    OBVIOUS
  <2> QED
    BY <1>4, <1>6, <2>1, <2>2 DEF Substituted
<1>9. symbols[(b + 1) + (n + 1)] = Null
  <2>1. n + 2 \in 1..n + 2 /\ (b + 1) + (n + 1) = b + (n + 2)
    OBVIOUS
  <2> QED
    BY <1>4, <1>6, <1>7, <2>1 DEF Substituted
<1>10. ASSUME NEW m \in 1..n
       PROVE  /\ symbols[(b + 1) + m] = ArgAt(w.args[m], j)
              /\ symbols[(b + 1) + m].type \in Operands
  <2>1. m + 1 \in 1..n + 2 /\ (b + 1) + m = b + (m + 1)
    OBVIOUS
  <2>2. symbols[(b + 1) + m] = Substituted(labels, ArgMade(labels, w.args[m], j))
    BY <1>4, <1>6, <2>1
  <2>3. w.is = "code"
    <3>1. w.is \in {"data", "code"} /\ (w.is = "data" => n = 0)
      BY <1>1, <1>2, <1>3, CodeKinds
    <3> QED
      BY <3>1
  <2>4. PICK kind : IsOperand(w.args[m], kind)
    BY <1>1, <1>2, <1>3, <2>3, CodeKinds
  <2> QED
    BY <2>2, <2>4, ArgSymbol
<1> QED
  BY <1>2, <1>3, <1>4, <1>5, <1>8, <1>9, <1>10

\* The symbols before a line of word i stand for the bytes of the words before.
LEMMA BytesAre ==
  ASSUME Disassembled, Resolved, NEW i, NEW j \in 1..Len(program) + 1, InBlock(i, j)
  PROVE  Bytes(symbols, Before[j]) = 2 * (i - 1)
<1> DEFINE S == {k \in 1..Len(program) + 1 :
                   \E h : InBlock(h, k) /\ Bytes(symbols, Before[k]) = 2 * (h - 1)}
<1>1. Len(program) \in Nat /\ N \in Nat /\ rom \in Roms
  BY AheadIs DEF Disassembled
<1>2. 1 \in S
  <2>1. PICK h : InBlock(h, 1)
    <3>1. 1 \in 1..Len(program) + 1
      BY <1>1
    <3> QED
      BY <3>1, SomeBlock
  <2>2. h = 1
    <3>1. Ahead[1] = 0 /\ h \in 1..N + 1 /\ Ahead[h] < 1
      BY AheadIs, <2>1 DEF InBlock
    <3>2. ~(1 < h)
      <4> SUFFICES ASSUME 1 < h PROVE FALSE
        OBVIOUS
      <4>1. 1 \in 1..N + 1 /\ 1 \in 1..N /\ 1 + 1 = 2
        BY <1>1, <3>1
      <4>2. Ahead[2] <= Ahead[h]
        BY <3>1, <4>1, AheadIs
      <4>3. Ahead[2] = 0 + Len(WordLines(rom, 1)) /\ Len(WordLines(rom, 1)) \in Nat \ {0}
        BY <3>1, <4>1, AheadIs
      <4>4. Ahead[h] \in Nat
        <5>1. h = N + 1 \/ h \in 1..N
          BY <1>1, <3>1
        <5> QED
          BY <5>1, AheadIs
      <4> QED
        BY <3>1, <4>2, <4>3, <4>4
    <3> QED
      BY <1>1, <3>1, <3>2
  <2>3. Bytes(symbols, 0) = 0
    <3>1. \A types : Of(symbols, types, 0) = {}
      BY DEF Of
    <3>2. Cardinality({}) = 0
      BY FS_EmptySet
    <3>3. Of(symbols, {"instruction", "dw"}, 0) = {} /\ Of(symbols, {"db"}, 0) = {}
      BY <3>1
    <3>4. Bytes(symbols, 0) = 2 * Cardinality({}) + Cardinality({})
      BY <3>3, Zenon DEF Bytes
    <3> QED
      BY <3>2, <3>4
  <2>4. Before[1] = 0
    BY WeightsAre
  <2> QED
    BY <1>1, <2>1, <2>2, <2>3, <2>4
<1>3. ASSUME NEW k \in 1..j - 1, k \in S
      PROVE  k + 1 \in S
  <2>1. k \in 1..Len(program) /\ k + 1 \in 1..Len(program) + 1
    BY <1>1
  <2>2. PICK h : InBlock(h, k) /\ Bytes(symbols, Before[k]) = 2 * (h - 1)
    BY <1>3
  <2>3. PICK b \in Nat : b = Before[k]
    <3>1. k \in 1..Len(program) + 1
      BY <2>1
    <3> QED
      BY <3>1, WeightsAre
  <2>4. Before[k + 1] = b + Weight(program[k])
    BY <2>1, <2>3, WeightsAre
  <2>5. Size("null") = 0 /\ Size("def") = 0 /\ Size("dw") = 2 /\ Size("instruction") = 2
    BY DEF Size
  <2>6. /\ \A t, v, l : Symbol(t, v, l).type = t
        /\ Null.type = "null"
    BY DEF Symbol, Null
  <2>7. CASE LeadAt(h, k) /\ InBlock(h, k + 1)
    <3>1. symbols[b + 1].type = "def" /\ symbols[b + 2].type = "null" /\ Weight(program[k]) = 2
      BY <2>1, <2>3, <2>6, <2>7, LeadSymbols, LeadMade
    <3>2. Bytes(symbols, b + 1) = Bytes(symbols, b) + 0 /\ Bytes(symbols, b) \in Nat
      BY <2>5, <3>1, Counted
    <3>3. b + 1 \in Nat /\ (b + 1) + 1 = b + 2
      OBVIOUS
    <3>4. Bytes(symbols, (b + 1) + 1) = Bytes(symbols, b + 1) + Size(symbols[(b + 1) + 1].type)
      BY <3>3, Counted
    <3>5. Bytes(symbols, b + 2) = Bytes(symbols, b)
      BY <2>5, <3>1, <3>2, <3>3, <3>4
    <3> QED
      BY <2>1, <2>2, <2>3, <2>4, <2>7, <3>1, <3>5
  <2>8. CASE CodeAt(h, k) /\ InBlock(h + 1, k + 1)
    <3>1. h \in 1..N
      BY <1>1, <2>2, <2>8 DEF InBlock, CodeAt
    <3>2. PICK w : w = rom.words[h]
      OBVIOUS
    <3>3. PICK n \in 0..3 : n = Len(w.args)
      BY <2>1, <2>8, <3>1, <3>2, CodeSymbols
    <3>4. /\ Weight(program[k]) = n + 2
          /\ symbols[b + 1] = HeadOf(w, k) /\ symbols[(b + 1) + (n + 1)] = Null
          /\ \A m \in 1..n : symbols[(b + 1) + m].type \in Operands
      BY <2>1, <2>3, <2>8, <3>1, <3>2, <3>3, CodeSymbols
    <3>5. Size(symbols[b + 1].type) = 2
      BY <2>5, <2>6, <3>4 DEF HeadOf
    <3>6. Bytes(symbols, b + 1) = Bytes(symbols, b) + 2 /\ Bytes(symbols, b) \in Nat
      BY <3>5, Counted
    <3>7. Bytes(symbols, (b + 1) + n) = Bytes(symbols, b + 1)
      <4>1. \A m \in (b + 1) + 1..(b + 1) + n : symbols[m].type \in Operands
        <5> SUFFICES ASSUME NEW m \in (b + 1) + 1..(b + 1) + n
                     PROVE  symbols[m].type \in Operands
          OBVIOUS
        <5>1. m - (b + 1) \in 1..n /\ (b + 1) + (m - (b + 1)) = m
          OBVIOUS
        <5> QED
          BY <3>4, <5>1
      <4>2. b + 1 \in Nat /\ n \in Nat
        OBVIOUS
      <4> QED
        BY <4>1, <4>2, OperandsAreFree
    <3>8. PICK x \in Nat : x = (b + 1) + n
      OBVIOUS
    <3>9. x + 1 = (b + 1) + (n + 1) /\ x + 1 = b + (n + 2)
      BY <3>8
    <3>10. Bytes(symbols, x + 1) = Bytes(symbols, x) + Size(symbols[x + 1].type)
      BY Counted
    <3>11. symbols[x + 1].type = "null"
      BY <2>6, <3>4, <3>9
    <3>12. Bytes(symbols, x + 1) = Bytes(symbols, b) + 2
      BY <2>5, <3>6, <3>7, <3>8, <3>10, <3>11
    <3>13. Before[k + 1] = x + 1
      BY <2>4, <3>4, <3>9
    <3>14. Bytes(symbols, Before[k + 1]) = 2 * ((h + 1) - 1)
      BY <2>2, <2>3, <3>1, <3>12, <3>13
    <3> QED
      BY <2>1, <2>8, <3>14
  <2> QED
    BY <2>1, <2>2, <2>7, <2>8, LineIs
<1>4. j \in S
  <2> HIDE DEF S
  <2>1. j \in Nat /\ 1 \in Nat /\ j \in 1..j
    BY <1>1
  <2> QED
    BY <1>2, <1>3, <2>1, StepByStep, Zenon
<1>5. j \in Nat
  BY <1>1
<1> QED
  BY <1>4, <1>5, OneBlock

\* The address of a label that is shown is the address it was made for, or that of the word
\* it is in the middle of.
LEMMA LabelValue ==
  ASSUME Typed, AgreeInv, LabelInv, SourceInv, ListInv, Disassembled, Distinct, NotEnlarged,
         phase = "write", NEW a, Shown(rom, a), a \in 0..AddrSize - 1
  PROVE  LET k == Min(NamedIn(labels, Label(rom, a)))
         IN  labels[k].byte % ValueSize = a - (a % 2)
<1>1. rom \in Roms /\ N \in Nat /\ Len(program) \in Nat
  BY AheadIs DEF Disassembled
<1>2. /\ ~reported /\ Len(symbols) = Before[Len(program) + 1] /\ Resolved
      /\ PlainLines /\ Found(program, labels, Len(program))
  BY DisassemblyIsPlain DEF ListInv, LabelInv
<1>3. DOMAIN labels = 1..Len(labels) /\ Len(labels) \in Nat /\ DOMAIN symbols = 1..Len(symbols)
  BY DEF Typed
<1>4. PICK x : x = Label(rom, a)
  OBVIOUS
<1>5. x # 0 /\ labelled
  BY <1>4 DEF Shown
<1>6. NamedIn(labels, x) # {}
  BY <1>2, <1>4, NameFound
<1>7. PICK k : k = Min(NamedIn(labels, x))
  OBVIOUS
<1>8. k \in 1..Len(labels) /\ labels[k].text = <<Word("def", x)>>
  <2>1. NamedIn(labels, x) \in SUBSET Nat
    BY <1>3 DEF NamedIn
  <2>2. k \in NamedIn(labels, x)
    BY <1>6, <1>7, <2>1, MinOf
  <2> QED
    BY <1>3, <2>2 DEF NamedIn
<1>9. PICK j \in 1..Len(program) : DefLine(program, j) /\ Place(program, j) = k
  BY <1>2, <1>3, <1>8 DEF Found
<1>10. labels[k].text = <<Upper(program[j][1])>>
  BY <1>2, <1>9 DEF Found
<1>11. PICK i : InBlock(i, j)
  <2>1. j \in 1..Len(program) + 1
    BY <1>1
  <2> QED
    BY <2>1, SomeBlock
<1>12. LeadAt(i, j)
  BY <1>9, <1>11, LineIs, DisassemblyIsPlain
<1>13. PICK c : Leads(i, j, c) /\ program[j] = <<Low(Label(rom, c))>>
  BY <1>12 DEF LeadAt
<1>14. c = a
  <2>1. PICK y : y = Label(rom, c)
    OBVIOUS
  <2>2. Upper(program[j][1]) = Word("def", y)
    <3>1. program[j][1] = Low(y)
      BY <1>13, <2>1
    <3>2. Upper(Low(y)) = Word("def", y)
      BY LowIs
    <3> QED
      BY <3>1, <3>2
  <2>3. Word("def", x) = Word("def", y)
    BY <1>8, <1>10, <2>2
  <2>4. x = y
    <3>1. Word("def", x).of = x /\ Word("def", y).of = y
      BY DEF Word
    <3> QED
      BY <2>3, <3>1
  <2>5. Cardinality(Jumps(rom)) <= CountSize
    BY <1>5 DEF Distinct
  <2> QED
    BY <1>1, <1>4, <1>5, <2>1, <2>4, <2>5, LabelOfOne
<1>15. i \in Nat \ {0} /\ (a = Address(i) \/ a = Address(i) + 1)
  BY <1>1, <1>11, <1>13, <1>14 DEF Leads, InBlock
<1>16. Address(i) \in Nat /\ a - (a % 2) = Address(i)
  <2>1. Address(i) \in Nat /\ Address(i) % 2 = 0 /\ (Address(i) + 1) % 2 = 1
    BY <1>15, Addresses
  <2> QED
    BY <1>15, <2>1
<1>17. PICK b \in Nat : b = Before[j]
  <2>1. j \in 1..Len(program) + 1
    BY <1>1
  <2> QED
    BY <2>1, WeightsAre
<1>18. symbols[b + 1] = Symbol("def", 0, j)
  BY <1>2, <1>12, <1>17, LeadSymbols
<1>19. b + 1 \in 1..Len(symbols)
  <2>1. b + Weights[j] <= Before[Len(program) + 1]
    <3>1. Len(program) + 1 \in 1..Len(program) + 1 /\ j < Len(program) + 1
      BY <1>1
    <3> QED
      BY <1>1, <1>17, <3>1, WeightsAre, SumsGrow
  <2>2. Weights[j] \in Nat /\ Weights[j] >= 2 /\ Before[Len(program) + 1] \in Nat
    <3>1. Len(program) + 1 \in 1..Len(program) + 1
      BY <1>1
    <3> QED
      BY <3>1, WeightsAre
  <2> QED
    BY <1>2, <2>1, <2>2
<1>20. symbols[b + 1].type = "def" /\ symbols[b + 1].ln = j
  BY <1>18 DEF Symbol
<1>21. Defs(symbols, b + 1) = k
  <2>1. Defined(program, symbols, line, word)
    BY <1>2 DEF SourceInv, Plain
  <2>2. Defs(symbols, b + 1) = Place(program, symbols[b + 1].ln)
    BY <1>3, <1>19, <1>20, <2>1 DEF Defined
  <2> QED
    BY <1>9, <1>20, <2>2
<1>22. labels[k].byte = ProgStart + Bytes(symbols, b + 1)
  BY <1>3, <1>8, <1>19, <1>20, <1>21 DEF AgreeInv
<1>23. Bytes(symbols, b + 1) = 2 * (i - 1)
  <2>1. Bytes(symbols, b + 1) = Bytes(symbols, b) + Size(symbols[b + 1].type) /\ Bytes(symbols, b) \in Nat
    BY Counted
  <2>2. Size(symbols[b + 1].type) = 0
    BY <1>20 DEF Size
  <2>3. Bytes(symbols, b) = 2 * (i - 1)
    <3>1. j \in 1..Len(program) + 1
      BY <1>1
    <3> QED
      BY <1>2, <1>11, <1>17, <3>1, BytesAre
  <2> QED
    BY <2>1, <2>2, <2>3
<1>24. labels[k].byte = Address(i)
  BY <1>22, <1>23 DEF Address
<1>25. Address(i) % ValueSize = Address(i)
  <2>1. AddrSize < ValueSize /\ a < AddrSize /\ a \in Nat
    BY AssemblerAssumption, Sizes
  <2>2. Address(i) < ValueSize
    BY <1>15, <1>16, <2>1, Sizes
  <2> QED
    BY <1>16, <2>2, Sizes
<1> QED
  BY <1>4, <1>7, <1>16, <1>24, <1>25

--------------------------------------------------------------------------------
\* The operands of a command are those of its line.
LEMMA ArgsOf ==
  ASSUME symbols \in Seq(Symbols), NEW k \in Nat \ {0}, NEW n \in Nat, k + (n + 1) <= Len(symbols),
         \A m \in 1..n : symbols[k + m].type \in Operands, symbols[k + (n + 1)] = Null
  PROVE  /\ Args(k) \in Seq(Symbols) /\ Len(Args(k)) = n /\ DOMAIN Args(k) = 1..n
         /\ \A m \in 1..n : Args(k)[m] = symbols[k + m]
<1>1. PICK q : q = Args(k)
  OBVIOUS
<1>2. PICK z \in Nat : z = Len(symbols) /\ DOMAIN symbols = 1..z
  OBVIOUS
<1>3. k \in DOMAIN symbols /\ k + (n + 1) <= z
  BY <1>2
<1>4. /\ q \in Seq(Symbols) /\ Len(q) \in Nat /\ k + Len(q) <= z
      /\ \A m \in k + 1..k + Len(q) : symbols[m].type \in Operands
      /\ k + Len(q) < z => symbols[k + Len(q) + 1].type \notin Operands
      /\ \A m \in 1..Len(q) : q[m] = symbols[k + m]
  BY <1>1, <1>2, <1>3, ArgsAre
<1>5. PICK c \in Nat : c = Len(q)
  BY <1>4
<1>6. Null.type \notin Operands
  BY DEF Null, Symbol, Operands, Integers4To12
<1>7. ~(c < n)
  <2> SUFFICES ASSUME c < n PROVE FALSE
    OBVIOUS
  <2>1. c + 1 \in 1..n /\ k + (c + 1) = k + c + 1 /\ k + c < z
    BY <1>3
  <2> QED
    BY <1>4, <1>5, <2>1
<1>8. ~(c > n)
  <2> SUFFICES ASSUME c > n PROVE FALSE
    OBVIOUS
  <2>1. k + (n + 1) \in k + 1..k + c
    OBVIOUS
  <2> QED
    BY <1>4, <1>5, <1>6, <2>1
<1>9. c = n
  BY <1>7, <1>8
<1>10. DOMAIN q = 1..n
  <2>1. DOMAIN q = 1..Len(q)
    BY <1>4, LenProperties
  <2> QED
    BY <1>5, <1>9, <2>1
<1> QED
  BY <1>1, <1>4, <1>5, <1>9, <1>10

\* What may stand for an operand of a kind: a register, a number or an address that is not
\* too large, or the reserved word.
Suits(arg, kind) ==
  \/ arg.type = "v" /\ kind = "v" /\ arg.value \in 0..NibbleSize - 1
  \/ /\ arg.type \in {"int12", IntType(arg.value)} /\ arg.value \in 0..AddrSize - 1
     /\ kind \in Integers4To12
     /\ kind = "int4" => arg.value < NibbleSize
     /\ kind = "int8" => arg.value < ByteSize
  \/ arg.type = kind /\ kind \in Operands \ (Integers4To12 \cup {"v"})

\* Such operands are taken, when a number is only the last of them: its limit is that of an
\* address behind a register, or else a number's own.
LEMMA TakesCode ==
  ASSUME NEW n \in 0..3, NEW args \in Seq(Symbols), Len(args) = n, NEW cmd,
         NEW f \in Formats, f.cmd = cmd, Len(f.kinds) = n,
         \A m \in 1..n : Suits(args[m], f.kinds[m]) /\ (f.kinds[m] \in Integers4To12 => m = n)
  PROVE  ~TooBig(args) /\ Accepted(cmd, args)
<1>1. DOMAIN args = 1..n
  OBVIOUS
<1>2. NibbleSize < ByteSize /\ ByteSize < AddrSize
  BY AssemblerAssumption
<1>3. /\ Integers4To12 = {"int4", "int8", "int12"}
      /\ \A v \in 0..AddrSize - 1 : IntType(v) \in Integers4To12
  BY IntTypes DEF Integers4To12
<1>4. \A m \in 1..n : args[m].type \in Integers4To12 => f.kinds[m] \in Integers4To12 /\ m = n
  <2> SUFFICES ASSUME NEW m \in 1..n, args[m].type \in Integers4To12
               PROVE  f.kinds[m] \in Integers4To12
    OBVIOUS
  <2>1. Suits(args[m], f.kinds[m])
    OBVIOUS
  <2> QED
    BY <1>3, <2>1 DEF Suits
<1>5. ASSUME NEW m \in 1..n, args[m].type \in Integers4To12 \cup {"v"}
      PROVE  /\ args[m].type = "v" \/ args[m].type = "int12" => Limit(args, m) = AddrSize
             /\ args[m].type = "int8" => Limit(args, m) \in {ByteSize, AddrSize}
             /\ args[m].type = "int4" => Limit(args, m) \in {NibbleSize, AddrSize}
  <2> DEFINE seen == SubSeq(args, 1, m)
             Is(types) == {l \in DOMAIN seen : seen[l].type \in types}
  <2>1. DOMAIN seen = 1..m /\ \A l \in 1..m : seen[l] = args[l]
    <3>1. m \in Int /\ 1 \in Int /\ \A l \in 1..m : args[l] \in Symbols
      <4>1. \A l \in 1..m : l \in 1..Len(args)
        OBVIOUS
      <4> QED
        BY <4>1, ElementOfSeq
    <3>2. /\ seen \in Seq(Symbols) /\ Len(seen) = m
          /\ \A l \in 1..m : seen[l] = args[l]
      <4>1. /\ SubSeq(args, 1, m) \in Seq(Symbols)
            /\ Len(SubSeq(args, 1, m)) = IF 1 <= m THEN m - 1 + 1 ELSE 0
            /\ \A l \in 1..m - 1 + 1 : SubSeq(args, 1, m)[l] = args[1 + l - 1]
        BY <3>1, SubSeqProperties
      <4> QED
        BY <4>1
    <3> QED
      BY <3>2
  <2>2. Limit(args, m) = IF Is({"v", "int12"}) # {} THEN AddrSize
          ELSE IF seen[Min(Is(Integers4To12))].type = "int8" THEN ByteSize ELSE NibbleSize
    BY DEF Limit
  <2> HIDE DEF seen
  <2>3. m \in 1..m /\ seen[m] = args[m]
    BY <2>1
  <2>4. CASE args[m].type \in {"v", "int12"}
    <3>1. m \in Is({"v", "int12"})
      BY <2>1, <2>3, <2>4
    <3> QED
      BY <2>2, <2>4, <3>1
  <2>5. CASE args[m].type \in {"int4", "int8"}
    <3>1. m = n
      BY <1>3, <1>4, <2>5
    <3>2. Is(Integers4To12) = {m}
      <4>1. m \in Is(Integers4To12)
        BY <1>3, <2>1, <2>3, <2>5
      <4>2. ASSUME NEW l \in Is(Integers4To12)
            PROVE  l = m
        <5>1. l \in 1..m /\ args[l].type \in Integers4To12
          BY <2>1
        <5>2. l \in 1..n
          BY <5>1
        <5> QED
          BY <1>4, <3>1, <5>1, <5>2
      <4> QED
        BY <4>1, <4>2
    <3>3. Min({m}) = m
      <4>1. {m} \in SUBSET Nat /\ {m} # {}
        OBVIOUS
      <4>2. Min({m}) \in {m}
        BY <4>1, MinOf
      <4> QED
        BY <4>2
    <3>4. Limit(args, m) = IF Is({"v", "int12"}) # {} THEN AddrSize
            ELSE IF args[m].type = "int8" THEN ByteSize ELSE NibbleSize
      BY <2>2, <2>3, <3>2, <3>3
    <3> QED
      BY <2>5, <3>4
  <2> QED
    BY <1>3, <1>5, <2>4, <2>5
<1>6. ASSUME NEW m \in 1..n, args[m].type \in Integers4To12 \cup {"v"}
      PROVE  ~(args[m].value >= Limit(args, m))
  <2>0. Suits(args[m], f.kinds[m])
    OBVIOUS
  <2>1. PICK v : v = args[m].value
    OBVIOUS
  <2>2. CASE args[m].type = "v"
    <3>1. v \in 0..NibbleSize - 1
      BY <1>3, <2>0, <2>1, <2>2 DEF Suits
    <3>2. Limit(args, m) = AddrSize
      BY <1>5, <1>6, <2>2
    <3> QED
      BY <1>2, <2>1, <3>1, <3>2, Sizes
  <2>3. CASE args[m].type \in Integers4To12
    <3>1. v \in 0..AddrSize - 1 /\ args[m].type \in {"int12", IntType(v)}
      BY <1>3, <2>0, <2>1, <2>3 DEF Suits
    <3>2. /\ IntType(v) = "int4" => v < NibbleSize
          /\ IntType(v) = "int8" => v < ByteSize
      BY <3>1, IntTypes
    <3>3. CASE args[m].type = "int12"
      <4>1. Limit(args, m) = AddrSize
        BY <1>5, <1>6, <3>3
      <4> QED
        BY <2>1, <3>1, <4>1, Sizes
    <3>4. CASE args[m].type = "int8"
      <4>1. v < ByteSize /\ Limit(args, m) \in {ByteSize, AddrSize}
        BY <1>5, <1>6, <3>1, <3>2, <3>4
      <4> QED
        BY <2>1, <3>1, <4>1, Sizes
    <3>5. CASE args[m].type = "int4"
      <4>1. v < NibbleSize /\ Limit(args, m) \in {NibbleSize, AddrSize}
        BY <1>5, <1>6, <3>1, <3>2, <3>5
      <4> QED
        BY <2>1, <3>1, <4>1, Sizes
    <3> QED
      BY <1>3, <2>3, <3>3, <3>4, <3>5
  <2> QED
    BY <1>6, <2>2, <2>3
<1>7. ~TooBig(args)
  BY <1>1, <1>6 DEF TooBig
<1>8. \A m \in 1..n : Fits(args[m], f.kinds[m])
  <2> SUFFICES ASSUME NEW m \in 1..n
               PROVE  Fits(args[m], f.kinds[m])
    OBVIOUS
  <2>1. Suits(args[m], f.kinds[m])
    OBVIOUS
  <2>2. CASE args[m].type = f.kinds[m]
    BY <2>2 DEF Fits
  <2>3. CASE args[m].type # f.kinds[m]
    <3>1. PICK v : v = args[m].value
      OBVIOUS
    <3>2. /\ args[m].type \in {"int12", IntType(v)} /\ v \in 0..AddrSize - 1
          /\ f.kinds[m] \in Integers4To12
          /\ f.kinds[m] = "int4" => v < NibbleSize
          /\ f.kinds[m] = "int8" => v < ByteSize
      BY <2>1, <2>3, <3>1 DEF Suits
    <3>3. args[m].type \in Integers4To12 /\ v < AddrSize
      <4>1. v < AddrSize
        BY <3>2, Sizes
      <4> QED
        BY <1>3, <3>2, <4>1
    <3> QED
      BY <1>3, <3>1, <3>2, <3>3 DEF Fits
  <2> QED
    BY <2>2, <2>3
<1>9. Accepted(cmd, args)
  BY <1>1, <1>8 DEF Accepted
<1> QED
  BY <1>7, <1>9

--------------------------------------------------------------------------------
\* Of a word's operands, each one suits and comes back.
LEMMA ArgSuits ==
  ASSUME Typed, AgreeInv, LabelInv, SourceInv, ListInv, Disassembled, Distinct, NotEnlarged,
         phase = "write", NEW a, NEW kind, IsOperand(a, kind), NEW j
  PROVE  /\ Suits(ArgAt(a, j), kind)
         /\ CameBack(ArgAt(a, j), a)
<1>1. \A t, v, l : Symbol(t, v, l).type = t /\ Symbol(t, v, l).value = v
  BY DEF Symbol
<1>2. \A t, x : Word(t, x).is = t /\ Word(t, x).of = x
  BY DEF Word
<1>3. NibbleSize < ByteSize /\ ByteSize < AddrSize
  BY AssemblerAssumption
<1>4. Integers4To12 = {"int4", "int8", "int12"}
  BY DEF Integers4To12
<1>5. PICK s : s = ArgAt(a, j)
  OBVIOUS
<1>6. CASE a = Word("register", a.of) /\ kind = "v" /\ a.of \in 0..NibbleSize - 1
  <2>1. a.is = "register"
    BY <1>2, <1>6
  <2>2. s = Symbol("v", a.of, j) /\ Value(a) = a.of
    BY <1>5, <2>1 DEF ArgAt, Value
  <2>3. s.type = "v" /\ s.value = a.of
    BY <1>1, <2>2
  <2>4. Suits(s, kind) /\ CameBack(s, a)
    BY <1>6, <2>1, <2>2, <2>3 DEF Suits, CameBack
  <2> QED
    BY <1>5, <2>4
<1>7. CASE /\ a = Word("number", a.of) /\ kind \in {"int4", "int8"} /\ a.of \in 0..ByteSize - 1
           /\ kind = "int4" => a.of < NibbleSize
  <2>1. a.is = "number"
    BY <1>2, <1>7
  <2>2. s = Symbol(IntType(a.of), a.of, j) /\ Value(a) = a.of
    BY <1>5, <2>1 DEF ArgAt, Value
  <2>3. s.type = IntType(a.of) /\ s.value = a.of
    BY <1>1, <2>2
  <2>4. a.of \in 0..AddrSize - 1 /\ a.of < ByteSize
    BY <1>3, <1>7, Sizes
  <2>5. Suits(s, kind)
    BY <1>4, <1>7, <2>3, <2>4 DEF Suits
  <2>6. s.type \in Integers4To12
    BY <2>3, <2>4, IntTypes
  <2>7. CameBack(s, a)
    BY <2>1, <2>2, <2>3, <2>6 DEF CameBack
  <2> QED
    BY <1>5, <2>5, <2>7
<1>8. CASE a = Word("address", a.of) /\ kind = "int12" /\ a.of \in 0..AddrSize - 1
  <2>1. a.is = "address"
    BY <1>2, <1>8
  <2>2. PICK to \in 0..AddrSize - 1 : to = a.of
    BY <1>8
  <2>3. PICK v : v = Value(a)
    OBVIOUS
  <2>4. v = IF Shown(rom, to) THEN to - (to % 2) ELSE to
    BY <2>1, <2>2, <2>3 DEF Value
  <2>5. v \in 0..AddrSize - 1
    <3>1. to \in Nat /\ to % 2 \in 0..1 /\ to % 2 <= to
      BY Sizes
    <3> QED
      BY <2>4, <3>1, Sizes
  <2>6. s.value = v /\ s.type \in {"int12", IntType(v)}
    <3>1. CASE Shown(rom, to)
      <4>1. labels[Min(NamedIn(labels, Label(rom, to)))].byte % ValueSize = to - (to % 2)
        BY <3>1, LabelValue
      <4>2. s = Symbol("int12", v, j)
        BY <1>5, <2>1, <2>2, <2>4, <3>1, <4>1 DEF ArgAt
      <4> QED
        BY <1>1, <4>2
    <3>2. CASE ~Shown(rom, to)
      <4>1. s = Symbol(IntType(v), v, j)
        BY <1>5, <2>1, <2>2, <2>4, <3>2 DEF ArgAt
      <4> QED
        BY <1>1, <4>1
    <3> QED
      BY <3>1, <3>2
  <2>7. Suits(s, kind)
    BY <1>4, <1>8, <2>5, <2>6 DEF Suits
  <2>8. s.type \in Integers4To12
    <3>1. IntType(v) \in Integers4To12
      BY <2>5, IntTypes
    <3> QED
      BY <1>4, <2>6, <3>1
  <2>9. CameBack(s, a)
    BY <2>1, <2>3, <2>6, <2>8 DEF CameBack
  <2> QED
    BY <1>5, <2>7, <2>9
<1>9. CASE a = Word("reserved", kind) /\ kind \in Operands \ (Integers4To12 \cup {"v"})
  <2>1. a.is = "reserved" /\ a.of = kind
    BY <1>2, <1>9
  <2>2. s = Symbol(kind, 0, j)
    BY <1>5, <2>1 DEF ArgAt
  <2>3. Suits(s, kind)
    BY <1>1, <1>9, <2>2 DEF Suits
  <2>4. CameBack(s, a)
    BY <1>1, <2>1, <2>2 DEF CameBack
  <2> QED
    BY <1>5, <2>3, <2>4
<1> QED
  BY <1>6, <1>7, <1>8, <1>9 DEF IsOperand

\* What is written for a word is right: its command or datum, and its operands.
Right(v, w) ==
  /\ v.type = (IF w.is = "code" THEN "instruction" ELSE "dw")
  /\ v.size = 2 /\ v.value = w.cmd /\ Len(v.args) = Len(w.args)
  /\ \A m \in DOMAIN w.args : CameBack(v.args[m], w.args[m])

\* It is, for word i, and it has its place.
OutIs(i) == out[i].at = 2 * (i - 1) /\ Right(out[i], rom.words[i])

\* c8_write has come to line j, of word i, or to the symbol left over before it.
Reached(i, j) ==
  /\ InBlock(i, j) /\ j \in 1..Len(program) + 1
  /\ Len(out) = i - 1 /\ byte = 2 * (i - 1)
  /\ next > 0 /\ next \in {Before[j], Before[j] + 1}

\* The inductive invariant of writing a disassembly: one word for each of the program.
OutInv ==
  Disassembled /\ Distinct /\ NotEnlarged =>
    /\ phase = "write" => \E i, j : Reached(i, j)
    /\ result = "done" => Len(out) = N
    /\ \A i \in 1..Len(out) : i \in 1..N /\ OutIs(i)
    /\ Assemblable => result \in {"running", "done"}

\* The command of a word is one that c8_write takes, and its operands are the program's.
LEMMA CodeIsTaken ==
  ASSUME Typed, AgreeInv, LabelInv, SourceInv, ListInv, Disassembled, Distinct, NotEnlarged,
         phase = "write", NEW j \in 1..Len(program), NEW i \in 1..N, CodeAt(i, j),
         next = Before[j] + 1
  PROVE  LET w == rom.words[i]
             n == Len(w.args)
         IN  /\ next \in DOMAIN symbols /\ symbols[next].value = w.cmd
             /\ w.is \in {"data", "code"} /\ n \in 0..3 /\ DOMAIN w.args = 1..n
             /\ w.is = "data" => n = 0 /\ symbols[next].type = "dw" /\ Before[j + 1] = next + 1
             /\ w.is = "code" =>
                  /\ symbols[next].type = "instruction" /\ Before[j + 1] = next + 1 + n
                  /\ Len(Args(next)) = n /\ DOMAIN Args(next) = 1..n
                  /\ ~TooBig(Args(next)) /\ Accepted(w.cmd, Args(next))
                  /\ \A m \in 1..n : CameBack(Args(next)[m], w.args[m])
<1>1. /\ rom \in Roms /\ N \in Nat /\ Len(program) \in Nat /\ Resolved
      /\ Len(symbols) = Before[Len(program) + 1] /\ symbols \in Seq(Symbols)
  BY AheadIs DEF Disassembled, ListInv, Typed
<1>2. PICK w : w = rom.words[i]
  OBVIOUS
<1>3. PICK n \in 0..3 : n = Len(w.args) /\ DOMAIN w.args = 1..n
  BY <1>1, <1>2, CodeKinds
<1>4. PICK b \in Nat \ {0} : b = next
  BY DEF Typed
<1>5. /\ Weight(program[j]) = n + 2 /\ symbols[b] = HeadOf(w, j) /\ symbols[b + (n + 1)] = Null
      /\ \A m \in 1..n : symbols[b + m] = ArgAt(w.args[m], j) /\ symbols[b + m].type \in Operands
  BY <1>1, <1>2, <1>3, <1>4, CodeSymbols
<1>6. Before[j + 1] = b + (n + 1)
  <2>1. PICK x \in Nat : x = Before[j]
    <3>1. j \in 1..Len(program) + 1
      BY <1>1
    <3> QED
      BY <3>1, WeightsAre
  <2>2. Before[j + 1] = x + (n + 2) /\ b = x + 1
    BY <1>4, <1>5, <2>1, WeightsAre
  <2> QED
    BY <2>2
<1>7. b + (n + 1) <= Len(symbols)
  <2>1. CASE j = Len(program)
    <3>1. Before[j + 1] = Len(symbols) /\ Len(symbols) \in Nat
      BY <1>1, <2>1
    <3> QED
      BY <1>6, <3>1
  <2>2. CASE j # Len(program)
    <3>1. j + 1 \in 1..Len(program) /\ Len(program) + 1 \in 1..Len(program) + 1 /\ j + 1 < Len(program) + 1
      BY <1>1, <2>2
    <3>2. Before[j + 1] + Weights[j + 1] <= Before[Len(program) + 1]
      BY <1>1, <3>1, WeightsAre, SumsGrow
    <3>3. Weights[j + 1] \in Nat /\ Len(symbols) \in Nat
      BY <1>1, <3>1, WeightsAre
    <3> QED
      BY <1>1, <1>6, <3>2, <3>3
  <2> QED
    BY <2>1, <2>2
<1>8. b \in DOMAIN symbols
  <2>1. DOMAIN symbols = 1..Len(symbols) /\ Len(symbols) \in Nat
    BY <1>1
  <2> QED
    BY <1>7, <2>1
<1>9. PICK args :
        /\ args \in Seq(Symbols)
        /\ args = Args(b) /\ Len(args) = n /\ DOMAIN args = 1..n
        /\ \A m \in 1..n : args[m] = symbols[b + m]
  <2>1. PICK q : q = Args(b)
    OBVIOUS
  <2>2. /\ n \in Nat /\ b \in Nat \ {0} /\ b + (n + 1) <= Len(symbols)
        /\ symbols \in Seq(Symbols) /\ symbols[b + (n + 1)] = Null
        /\ \A m \in 1..n : symbols[b + m].type \in Operands
    <3>1. n \in Nat /\ b \in Nat \ {0}
      OBVIOUS
    <3>2. \A m \in 1..n : symbols[b + m].type \in Operands
      BY <1>5, Zenon
    <3> QED
      BY <1>1, <1>5, <1>7, <3>1, <3>2, Zenon
  <2>3. Args(b) \in Seq(Symbols)
    BY <2>2, ArgsOf
  <2>4. Len(Args(b)) = n
    BY <2>2, ArgsOf
  <2>5. DOMAIN Args(b) = 1..n
    BY <2>2, ArgsOf
  <2>6. \A m \in 1..n : Args(b)[m] = symbols[b + m]
    BY <2>2, ArgsOf
  <2> QED
    BY <2>1, <2>3, <2>4, <2>5, <2>6
<1>10. /\ \A t, v, l : Symbol(t, v, l).type = t /\ Symbol(t, v, l).value = v
  BY DEF Symbol
<1>11. w.is \in {"data", "code"} /\ w.cmd \in Nat
  BY <1>1, <1>2, CodeKinds
<1>12. CASE w.is = "data"
  <2>1. n = 0 /\ w.cmd < ValueSize
    BY <1>1, <1>2, <1>3, <1>12, CodeKinds
  <2>2. w.cmd % ValueSize = w.cmd
    BY <1>11, <2>1, Sizes
  <2>3. symbols[b].type = "dw" /\ symbols[b].value = w.cmd
    BY <1>5, <1>10, <1>12, <2>2 DEF HeadOf
  <2>4. Before[j + 1] = b + 1
    BY <1>6, <2>1
  <2> QED
    BY <1>2, <1>3, <1>4, <1>8, <1>12, <2>1, <2>3, <2>4
<1>13. CASE w.is = "code"
  <2>1. /\ symbols[b].type = "instruction" /\ symbols[b].value = w.cmd
        /\ Before[j + 1] = b + 1 + n
    BY <1>5, <1>6, <1>10, <1>13 DEF HeadOf
  <2>2. PICK f \in Formats :
          /\ f.cmd = w.cmd /\ Len(f.kinds) = n
          /\ \A m \in 1..n : /\ IsOperand(w.args[m], f.kinds[m])
                             /\ f.kinds[m] \in Integers4To12 => m = n
    BY <1>1, <1>2, <1>3, <1>13, CodeKinds
  <2>3. ASSUME NEW m \in 1..n
        PROVE  /\ Suits(args[m], f.kinds[m])
               /\ CameBack(args[m], w.args[m])
    <3>1. args[m] = ArgAt(w.args[m], j) /\ IsOperand(w.args[m], f.kinds[m])
      BY <1>5, <1>9, <2>2
    <3> QED
      BY <3>1, ArgSuits
  <2>4. \A m \in 1..n : Suits(args[m], f.kinds[m]) /\ (f.kinds[m] \in Integers4To12 => m = n)
    BY <2>2, <2>3
  <2>5. ~TooBig(args) /\ Accepted(w.cmd, args)
    BY <1>9, <2>2, <2>4, TakesCode
  <2> QED
    BY <1>2, <1>3, <1>4, <1>8, <1>9, <1>13, <2>1, <2>3, <2>5
<1> QED
  BY <1>11, <1>12, <1>13

--------------------------------------------------------------------------------
\* While labels are found nothing goes wrong with a disassembly that can be assembled.
LEMMA OutPopulate ==
  ASSUME Typed, LabelInv, OutInv, NoValidLines \/ PopulateLine, UNCHANGED romVars,
         Disassembled, Distinct, NotEnlarged, Assemblable
  PROVE  result' = "running"
<1>1. /\ rom \in Roms /\ N \in Nat \ {0} /\ Len(program) \in Nat /\ Lines = 1..Len(program)
      /\ IsSource(program) /\ PlainLines
  <2>1. N # 0
    <3>1. rom.words # <<>> /\ rom \in Roms
      BY DEF Assemblable, Disassembled
    <3>2. PICK T : rom.words \in Seq(T)
      BY <3>1, RomAssumption DEF IsRom
    <3> QED
      BY <3>1, <3>2, EmptySeq DEF N
  <2> QED
    BY <2>1, AheadIs, DisassemblyIsPlain DEF Disassembled, Typed, Lines
<1>2. \A j \in Lines : Text(j) = program[j] /\ program[j] # <<>>
  BY <1>1, PlainText, DisassemblyIsPlain
<1>3. phase = "labels" /\ result = "running"
  BY DEF NoValidLines, PopulateLine, Typed
<1>4. CASE NoValidLines
  <2>1. 1 \in 1..N /\ Ahead[1 + 1] \in 1..Len(program)
    <3>1. 1 \in 1..N
      BY <1>1
    <3> QED
      BY <3>1, CodeIs
  <2> QED
    BY <1>1, <1>2, <1>4, <2>1 DEF NoValidLines
<1>5. CASE PopulateLine
  <2>1. PICK text : text = Text(line)
    OBVIOUS
  <2>2. line \in 1..Len(program) /\ text = program[line] /\ text # <<>>
    BY <1>1, <1>2, <1>5, <2>1 DEF PopulateLine
  <2>3. CASE ~IsDefinition(text[Len(text)])
    BY <1>3, <1>5, <2>1, <2>2, <2>3 DEF PopulateLine
  <2>4. CASE IsDefinition(text[Len(text)])
    <3>1. DefLine(program, line)
      BY <1>1, <2>2, <2>4 DEF DefLine, Lines
    <3>2. Found(program, labels, line - 1)
      BY <1>1, <1>3 DEF LabelInv
    <3>3. PICK i : InBlock(i, line)
      <4>1. line \in 1..Len(program) + 1
        BY <1>1, <2>2
      <4> QED
        BY <4>1, SomeBlock
    <3>4. PICK a : program[line] = <<Low(Label(rom, a))>>
      BY <2>2, <3>1, <3>3, LineIs, DisassemblyIsPlain DEF LeadAt
    <3>5. PICK x : x = Label(rom, a)
      OBVIOUS
    <3>6. text = <<Low(x)>> /\ text[1] = Low(x) /\ ~text[1].upper
      <4>1. Low(x).upper = FALSE
        BY LowIs
      <4> QED
        BY <2>2, <3>4, <3>5, <4>1
    <3>7. ~Duplicate(text)
      <4> SUFFICES ASSUME NEW k \in DOMAIN labels, labels[k].text = text
                   PROVE  FALSE
        BY DEF Duplicate
      <4>1. PICK j \in 1..line - 1 : DefLine(program, j) /\ Place(program, j) = k
        BY <3>2 DEF Found
      <4>2. labels[k].text = <<Upper(program[j][1])>>
        BY <3>2, <4>1 DEF Found
      <4>3. j \in 1..Len(program)
        BY <1>1, <2>2, <4>1
      <4>4. IsWord(program[j][1])
        <5>1. IsLine(program[j]) /\ Len(program[j]) = 1
          BY <1>1, <4>1, <4>3, PlainText
        <5>2. DOMAIN program[j] = 1..Len(program[j])
          BY <1>1, <1>2, <4>3, WordsFit
        <5>3. 1 \in DOMAIN program[j]
          BY <5>1, <5>2
        <5> QED
          BY <5>1, <5>3 DEF IsLine
      <4>5. Upper(program[j][1]).upper = TRUE
        BY <4>4, Recased DEF Upper
      <4> QED
        BY <3>6, <4>2, <4>5
    <3>8. Len(labels) + 1 < LabelCeiling
      <4>1. Len(labels) = Place(program, line - 1)
        BY <3>2 DEF Found
      <4>2. Place(program, line) = Place(program, line - 1) + 1 /\ Place(program, line - 1) \in Nat
        <5>1. line - 1 \in Nat /\ (line - 1) + 1 = line
          BY <2>2
        <5> QED
          BY <3>1, <5>1, OneMoreLine
      <4>3. Place(program, line) <= Place(program, Len(program))
        <5>1. line \in 0..Len(program)
          BY <1>1, <2>2
        <5> QED
          BY <1>1, <5>1, PlacesGrow
      <4>4. \A j \in 1..Len(program) : DefLine(program, j) <=> IsDefinition(program[j][1])
        <5>1. ASSUME NEW j \in 1..Len(program)
              PROVE  DefLine(program, j) <=> IsDefinition(program[j][1])
          <6>1. 1 \in DOMAIN program[j]
            BY WordsFit
          <6>2. IsDefinition(program[j][1]) => DefLine(program, j)
            BY <1>1, <6>1, PlainText
          <6>3. DefLine(program, j) => Len(program[j]) = 1
            BY <1>1, PlainText
          <6> QED
            BY <6>2, <6>3 DEF DefLine
        <5> QED
          BY <5>1
      <4>5. Place(program, Len(program)) < LabelCeiling
        <5>1. {j \in 1..Len(program) : DefLine(program, j)}
                = {j \in 1..Len(program) : IsDefinition(program[j][1])}
          BY <4>4
        <5> QED
          BY <5>1 DEF Place, Assemblable
      <4>6. Place(program, Len(program)) \in Nat /\ LabelCeiling \in Nat
        BY <1>1, OneMoreLine, Sizes
      <4> QED
        BY <4>1, <4>2, <4>3, <4>5, <4>6
    <3>9. Len(labels') = Len(labels) + 1 \/ UNCHANGED labels
      <4>1. labels \in Seq(Labels) /\ \A l : Len(Append(labels, l)) = Len(labels) + 1
        BY DEF Typed
      <4> QED
        BY <1>5, <4>1 DEF PopulateLine, AddLabel
    <3> QED
      BY <1>3, <1>5, <2>1, <2>2, <2>4, <3>7, <3>8, <3>9, Sizes DEF PopulateLine, Return, AddLabel
  <2> QED
    BY <2>3, <2>4
<1> QED
  BY <1>4, <1>5

\* Every label that is used has its address.
LEMMA OutResolve ==
  ASSUME Typed, AgreeInv, LabelInv, SourceInv, ListInv, OutInv, UNCHANGED romVars,
         Unresolved \/ Substitute, Disassembled, Distinct, NotEnlarged
  PROVE  /\ ~Unresolved /\ phase' = "write" /\ result' = "running"
         /\ next' = 1 /\ byte' = 0 /\ out' = <<>> /\ UNCHANGED program
<1>1. /\ Len(program) \in Nat /\ Len(symbols) \in Nat /\ DOMAIN symbols = 1..Len(symbols)
      /\ DOMAIN labels = 1..Len(labels) /\ phase = "resolve" /\ result = "running" /\ out = <<>>
      /\ PlainLines /\ Found(program, labels, Len(program))
  BY AheadIs, DisassemblyIsPlain DEF Typed, Unresolved, Substitute, LabelInv
<1>2. ~reported /\ Len(symbols) = Before[Len(program) + 1] /\ Listed(symbols, labels, Len(program))
  BY <1>1 DEF ListInv
<1>3. ~Unresolved
  <2> SUFFICES ASSUME Unresolved PROVE FALSE
    OBVIOUS
  <2>1. defined < Len(labels) /\ next > Len(symbols)
    BY DEF Unresolved
  <2>2. next = Len(symbols) + 1 /\ next - 1 = Len(symbols) /\ defined = Defs(symbols, Len(symbols))
    BY <1>1, <2>1 DEF AgreeInv
  <2>3. /\ line \in 1..Len(program) + 1 /\ line \notin Lines /\ word = 0
        /\ Defined(program, symbols, line, word)
    BY <1>1, <1>2 DEF SourceInv, Plain
  <2>4. line - 1 = Len(program)
    BY <1>1, <2>3 DEF Lines, Typed, IsSource
  <2>5. Defs(symbols, Len(symbols)) = Place(program, Len(program))
    BY <2>3, <2>4 DEF Defined
  <2> QED
    BY <1>1, <2>1, <2>2, <2>5 DEF Found
<1>4. ASSUME NEW k \in DOMAIN symbols, symbols[k].type = "label"
      PROVE  symbols[k].value \in DOMAIN labels
  <2>1. PICK j \in 1..Len(program) : \E m \in 1..Weights[j] : k = Before[j] + m
    <3>1. k \in 1..Before[Len(program) + 1]
      BY <1>1, <1>2
    <3>2. Weights \in [1..Len(program) -> Nat] /\ Summed(Len(program), Weights, Before)
      BY WeightsAre
    <3> QED
      BY <1>1, <3>1, <3>2, SumsCover
  <2>2. PICK m \in 1..Weights[j] : k = Before[j] + m
    BY <2>1
  <2>3. m \in 1..Weight(program[j])
    BY WeightsAre
  <2>4. symbols[k] = Made(labels, j, m)
    BY <1>2, <2>2, <2>3 DEF Listed
  <2>5. PICK w : w = program[j][m]
    OBVIOUS
  <2>6. m # Weight(program[j])
    <3>1. Null.type = "null"
      BY DEF Null, Symbol
    <3> QED
      BY <1>4, <2>4, <3>1 DEF Made
  <2>7. m \in 1..Len(program[j])
    <3>1. PICK n : n = Weight(program[j])
      OBVIOUS
    <3>2. n \in {2, Len(program[j]) + 1} /\ Len(program[j]) \in Nat \ {0}
      BY <3>1, WordsFit DEF Weight
    <3> QED
      BY <2>3, <2>6, <3>1, <3>2
  <2>8. w.is \in {"def", "dw", "number", "instruction", "register", "reserved", "name"}
    BY <2>5, <2>7, WordsFit
  <2>9. \A t, v, l : Symbol(t, v, l).type = t /\ Symbol(t, v, l).value = v
    BY DEF Symbol
  <2>10. \A v : IntType(v) # "label"
    BY DEF IntType
  <2>11. w.is = "name"
    <3> SUFFICES ASSUME w.is # "name" PROVE FALSE
      OBVIOUS
    <3>1. w.is # "reserved"
      <4> SUFFICES ASSUME w.is = "reserved" PROVE FALSE
        OBVIOUS
      <4>1. w.of \in Reserved
        BY <2>5, <2>7, WordsFit
      <4>2. Made(labels, j, m) = Symbol(w.of, 0, j)
        BY <2>5, <2>6 DEF Made
      <4>3. w.of # "label"
        BY <4>1 DEF Reserved
      <4> QED
        BY <1>4, <2>4, <2>9, <4>2, <4>3
    <3>2. w.is \in {"def", "dw", "number", "instruction", "register"}
      BY <2>8, <3>1
    <3>3. PICK d : d = program[j][2].of % ValueSize
      OBVIOUS
    <3>4. PICK s : s = Made(labels, j, m)
      OBVIOUS
    <3>5. \/ s = Symbol("def", 0, j) \/ s = Symbol("dw", d, j) \/ s = Symbol("instruction", w.of, j)
          \/ s = Symbol("v", w.of, j) \/ s = Symbol(IntType(w.of), w.of % ValueSize, j)
      BY <2>5, <2>6, <3>2, <3>3, <3>4 DEF Made
    <3>6. s.type # "label"
      BY <2>9, <2>10, <3>5
    <3> QED
      BY <1>4, <2>4, <3>4, <3>6
  <2>12. symbols[k].value = Min(NamedIn(labels, w.of))
    BY <2>4, <2>5, <2>6, <2>9, <2>11 DEF Made
  <2>13. PICK a : Shown(rom, a) /\ w.of = Label(rom, a)
    BY <2>5, <2>7, <2>11, WordsFit
  <2>14. NamedIn(labels, w.of) # {}
    BY <1>1, <2>13, NameFound
  <2>15. NamedIn(labels, w.of) \in SUBSET Nat
    BY <1>1 DEF NamedIn
  <2>16. Min(NamedIn(labels, w.of)) \in NamedIn(labels, w.of)
    BY <2>14, <2>15, MinOf
  <2> QED
    BY <2>12, <2>16 DEF NamedIn
<1>5. Substitute
  BY <1>3
<1> QED
  BY <1>1, <1>3, <1>4, <1>5 DEF Substitute

\* The symbol over from the line before is skipped, the line's label is, or its word is put
\* out behind the words before.
LEMMA OutWrite ==
  ASSUME Typed, AgreeInv, LabelInv, SourceInv, ListInv, WriteSymbol,
         Disassembled, Distinct, NotEnlarged, NEW i, NEW j, Reached(i, j)
  PROVE  \/ /\ phase' = "ended" /\ result' = "syntax" /\ UNCHANGED out /\ ~Room(byte)
         \/ /\ UNCHANGED <<phase, result, out, byte>> /\ next' = Before[j] + 1 /\ next = Before[j]
         \/ /\ UNCHANGED <<phase, result, out, byte>> /\ next' = Before[j + 1]
            /\ InBlock(i, j + 1) /\ j \in 1..Len(program)
         \/ /\ UNCHANGED <<phase, result>> /\ next' = Before[j + 1]
            /\ InBlock(i + 1, j + 1) /\ j \in 1..Len(program) /\ i \in 1..N
            /\ \E v : /\ out' = Append(out, v) /\ v.at = byte /\ byte' = byte + 2
                      /\ Right(v, rom.words[i])
<1>1. /\ rom \in Roms /\ N \in Nat /\ Len(program) \in Nat /\ Resolved
      /\ Len(symbols) = Before[Len(program) + 1] /\ Len(symbols) \in Nat
      /\ phase = "write" /\ next \in 1..Len(symbols)
  <2>1. phase = "write" /\ next \in DOMAIN symbols /\ DOMAIN symbols = 1..Len(symbols)
    BY DEF WriteSymbol, Typed
  <2> QED
    BY <2>1, AheadIs DEF Disassembled, ListInv, Typed
<1>2. /\ InBlock(i, j) /\ j \in 1..Len(program) + 1 /\ Before[j] \in Nat
      /\ next = Before[j] \/ next = Before[j] + 1
  BY WeightsAre DEF Reached
<1>3. CASE ~Room(byte)
  <2>1. phase' = "ended" /\ result' = "syntax" /\ UNCHANGED out
    BY <1>3 DEF WriteSymbol, Refuse, Return
  <2> QED
    BY <1>3, <2>1
<1>4. CASE Room(byte) /\ next = Before[j]
  <2>1. j > 1
    BY <1>1, <1>2, <1>4, WeightsAre
  <2>2. PICK h : h = j - 1
    OBVIOUS
  <2>3. h \in 1..Len(program) /\ h + 1 = j
    BY <1>1, <1>2, <2>1, <2>2
  <2>4. PICK m : m = Weight(program[h])
    OBVIOUS
  <2>5. m \in 1..Weight(program[h]) /\ Before[j] = Before[h] + m
    BY <2>3, <2>4, WeightsAre
  <2>6. symbols[next] = Substituted(labels, Made(labels, h, m))
    BY <1>1, <1>4, <2>3, <2>5 DEF Resolved
  <2>7. symbols[next].type = "null"
    BY <2>4, <2>6 DEF Substituted, Made, Null, Symbol
  <2>8. next' = next + 1 /\ UNCHANGED <<byte, out, phase, result>>
    BY <1>4, <2>7 DEF WriteSymbol
  <2> QED
    BY <1>4, <2>8
<1>5. CASE Room(byte) /\ next = Before[j] + 1
  <2>1. j \in 1..Len(program)
    BY <1>1, <1>2, <1>5
  <2>2. CASE CodeAt(i, j) /\ InBlock(i + 1, j + 1)
    <3>1. i \in 1..N
      BY <1>1, <1>2, <2>2 DEF InBlock, CodeAt
    <3>2. PICK w : w = rom.words[i]
      OBVIOUS
    <3>3. PICK n : n = Len(w.args)
      OBVIOUS
    <3>4. /\ symbols[next].value = w.cmd /\ w.is \in {"data", "code"}
          /\ n \in 0..3 /\ DOMAIN w.args = 1..n
          /\ w.is = "data" => n = 0 /\ symbols[next].type = "dw" /\ Before[j + 1] = next + 1
          /\ w.is = "code" =>
               /\ symbols[next].type = "instruction" /\ Before[j + 1] = next + 1 + n
               /\ Len(Args(next)) = n /\ DOMAIN Args(next) = 1..n
               /\ ~TooBig(Args(next)) /\ Accepted(w.cmd, Args(next))
               /\ \A m \in 1..n : CameBack(Args(next)[m], w.args[m])
      BY <1>1, <1>5, <2>1, <2>2, <3>1, <3>2, <3>3, CodeIsTaken
    <3>5. PICK args : /\ w.is = "data" => args = <<>>
                      /\ w.is = "code" => args = Args(next)
      BY <3>4
    <3>6. /\ Len(args) = n /\ DOMAIN args = 1..n /\ Before[j + 1] = next + 1 + Len(args)
          /\ \A m \in 1..n : CameBack(args[m], w.args[m])
      <4>1. CASE w.is = "data"
        <5>1. args = <<>> /\ n = 0 /\ Before[j + 1] = next + 1 /\ next \in Nat
          BY <1>1, <3>4, <3>5, <4>1
        <5> QED
          BY <5>1
      <4>2. CASE w.is = "code"
        BY <3>4, <3>5, <4>2
      <4> QED
        BY <3>4, <4>1, <4>2
    <3>7. Put(2, args)
      <4>1. CASE w.is = "data"
        BY <1>5, <3>4, <3>5, <4>1 DEF WriteSymbol
      <4>2. CASE w.is = "code"
        <5>1. /\ ~(Len(args) > 3) /\ symbols[next].type = "instruction" /\ args = Args(next)
              /\ ~(TooBig(args) \/ ~Accepted(symbols[next].value, args))
          <6>1. PICK k \in 0..3 : k = Len(args)
            BY <3>4, <3>6
          <6>2. ~(Len(args) > 3)
            <7>1. ~(k > 3)
              OBVIOUS
            <7> QED
              BY <6>1, <7>1
          <6>3. args = Args(next)
            BY <3>5, <4>2
          <6> QED
            BY <3>4, <4>2, <6>2, <6>3, Zenon
        <5> QED
          BY <1>5, <5>1, Zenon DEF WriteSymbol
      <4> QED
        BY <3>4, <4>1, <4>2
    <3>8. UNCHANGED <<phase, result>> /\ next' = Before[j + 1]
      BY <3>6, <3>7 DEF Put
    <3>9. PICK v : /\ v = [ln |-> symbols[next].ln, at |-> byte, size |-> 2,
                           type |-> symbols[next].type, value |-> symbols[next].value,
                           args |-> args]
                   /\ out' = Append(out, v) /\ byte' = byte + 2
      BY <3>7 DEF Put
    <3>10. v.at = byte /\ Right(v, w)
      <4>1. v.at = byte /\ v.size = 2 /\ v.value = w.cmd /\ v.args = args
        BY <3>4, <3>9
      <4>2. v.type = (IF w.is = "code" THEN "instruction" ELSE "dw")
        BY <3>4, <3>9
      <4> QED
        BY <3>3, <3>4, <3>6, <4>1, <4>2 DEF Right
    <3>11. \E x : out' = Append(out, x) /\ x.at = byte /\ byte' = byte + 2 /\ Right(x, rom.words[i])
      BY <3>2, <3>9, <3>10, Zenon
    <3> QED
      BY <2>1, <2>2, <3>1, <3>8, <3>11, Zenon
  <2>3. CASE LeadAt(i, j) /\ InBlock(i, j + 1)
    <3>1. symbols[next] = Symbol("def", 0, j)
      BY <1>1, <1>5, <2>1, <2>3, LeadSymbols
    <3>2. next' = next + 1 /\ UNCHANGED <<byte, out, phase, result>>
      BY <1>5, <3>1 DEF WriteSymbol, Symbol
    <3>3. Weight(program[j]) = 2
      BY <2>3, LeadMade
    <3>4. Before[j + 1] = Before[j] + 2
      BY <2>1, <3>3, WeightsAre
    <3> QED
      BY <1>2, <1>5, <2>1, <2>3, <3>2, <3>4
  <2> QED
    BY <1>2, <2>1, <2>2, <2>3, LineIs
<1> QED
  BY <1>2, <1>3, <1>4, <1>5

\* One more word is put out as it should be.
LEMMA OutMore ==
  ASSUME NEW i \in 1..N, N \in Nat, out \in Seq(Placed), out' \in Seq(Placed), Len(out) = i - 1,
         UNCHANGED romVars,
         \A k \in 1..Len(out) : k \in 1..N /\ OutIs(k),
         NEW v, out' = Append(out, v), v.at = 2 * (i - 1), Right(v, rom.words[i])
  PROVE  Len(out') = i /\ \A k \in 1..Len(out') : k \in (1..N)' /\ OutIs(k)'
<1>1. Len(out') = i /\ out'[i] = v /\ \A k \in 1..i - 1 : out'[k] = out[k]
  <2>1. Len(out') = Len(out) + 1 /\ out'[Len(out) + 1] = v /\ \A k \in 1..Len(out) : out'[k] = out[k]
    OBVIOUS
  <2> QED
    BY <2>1
<1>2. \A r, a : Shown(r, a)' <=> Shown(r, a)
  BY DEF romVars, Shown, Label, Jumps, End, Address
<1>3. rom' = rom /\ N' = N
  BY DEF romVars, N
<1>0. \A x, w : Right(x, w)' <=> Right(x, w)
  BY <1>2, <1>3 DEF Right, CameBack, Value
<1>4. OutIs(i)'
  BY <1>0, <1>1, <1>3 DEF OutIs
<1>5. ASSUME NEW k \in 1..i - 1
      PROVE  OutIs(k)'
  <2>1. OutIs(k) /\ out'[k] = out[k]
    BY <1>1
  <2> QED
    BY <1>0, <1>3, <2>1 DEF OutIs
<1>6. \A k \in 1..i : k \in 1..N /\ (k = i \/ k \in 1..i - 1)
  OBVIOUS
<1> QED
  BY <1>1, <1>3, <1>4, <1>5, <1>6

\* Every step keeps OutInv.
LEMMA OutStep ==
  /\ Typed /\ AgreeInv /\ LabelInv /\ SourceInv /\ ListInv /\ OutInv
  /\ [Next]_vars /\ UNCHANGED romVars
  => OutInv'
<1> SUFFICES ASSUME Typed, AgreeInv, LabelInv, SourceInv, ListInv, OutInv, [Next]_vars,
                    UNCHANGED romVars, Disassembled', Distinct', NotEnlarged'
             PROVE  /\ phase' = "write" => \E i, j : Reached(i, j)'
                    /\ result' = "done" => Len(out') = N'
                    /\ \A i \in 1..Len(out') : i \in (1..N)' /\ OutIs(i)'
                    /\ Assemblable' => result' \in {"running", "done"}
  BY DEF OutInv
<1>1. Typed'
  BY TypedStep
<1>2. UNCHANGED program
  BY DEF Next, vars, NoValidLines, PopulateLine, Populated, BeginLine, ParseWord, ParseInvalid, EndLine,
     ParsedAll, ResolveSymbol, Unresolved, Substitute, WriteSymbol, Written
<1>3. /\ Disassembled /\ Distinct /\ (Assemblable' <=> Assemblable)
      /\ N' = N /\ Before' = Before /\ \A i, j : InBlock(i, j)' <=> InBlock(i, j)
  BY <1>2, SameProgram
<1>4. /\ rom \in Roms /\ N \in Nat /\ Len(program) \in Nat /\ UNCHANGED <<rom, labelled>>
  BY <1>3, AheadIs DEF Disassembled, romVars
<1>5. \A r, a : Shown(r, a)' <=> Shown(r, a)
  BY <1>4 DEF Shown, Label, Jumps, End, Address
<1>6. NotEnlarged
  <2>1. CASE UNCHANGED symbols
    BY <2>1 DEF NotEnlarged
  <2>2. CASE Len(symbols') >= Len(symbols)
    <3>1. Len(symbols) \in Nat /\ Len(symbols') \in Nat /\ SymbolCeiling \in Nat
      BY <1>1, Sizes DEF Typed
    <3> QED
      BY <2>2, <3>1 DEF NotEnlarged
  <2>3. UNCHANGED symbols \/ Len(symbols') >= Len(symbols)
    <3>1. symbols \in Seq(Symbols) /\ symbols' \in Seq(Symbols)
      BY <1>1 DEF Typed
    <3>2. CASE BeginLine
      <4>1. PICK q \in Seq(Symbols) :
              Len(q) >= Len(symbols) /\ \E s \in Fresh(Len(q) + 1) : symbols' = Append(q, s)
        BY <3>2, LineBegun
      <4>2. Len(symbols') = Len(q) + 1
        BY <4>1
      <4> QED
        BY <3>1, <4>1, <4>2
    <3>3. CASE ParseWord
      <4>1. PICK q \in Seq(Symbols) :
              Len(q) = Len(symbols) /\ \E s \in Fresh(Len(q) + 1) : symbols' = Append(q, s)
        BY <3>3, WordParsed
      <4>2. Len(symbols') = Len(q) + 1
        BY <4>1
      <4> QED
        BY <3>1, <4>1, <4>2
    <3>4. CASE ParseInvalid
      <4>1. UNCHANGED symbols \/ \E s : symbols' = Append(symbols, s)
        BY <3>4 DEF ParseInvalid
      <4>2. \A s : Len(Append(symbols, s)) = Len(symbols) + 1
        BY <3>1
      <4> QED
        BY <3>1, <4>1, <4>2
    <3>5. CASE Substitute
      <4>1. UNCHANGED symbols \/ DOMAIN symbols' = DOMAIN symbols
        BY <3>5 DEF Substitute
      <4> QED
        BY <3>1, <4>1
    <3> QED
      BY <3>2, <3>3, <3>4, <3>5 DEF Next, vars, NoValidLines, PopulateLine, Populated, EndLine,
         ParsedAll, ResolveSymbol, Unresolved, WriteSymbol, Written
  <2> QED
    BY <2>1, <2>2, <2>3
<1>7. /\ phase = "write" => \E i, j : Reached(i, j)
      /\ result = "done" => Len(out) = N
      /\ \A i \in 1..Len(out) : i \in 1..N /\ OutIs(i)
      /\ Assemblable => result \in {"running", "done"}
  BY <1>3, <1>6 DEF OutInv
<1>8. UNCHANGED out => \A i \in 1..Len(out') : i \in (1..N)' /\ OutIs(i)'
  BY <1>3, <1>4, <1>5, <1>7 DEF OutIs, Right, CameBack, Value
<1>9. CASE NoValidLines \/ PopulateLine
  <2>1. phase' # "write" /\ result' # "done" /\ UNCHANGED out
    BY <1>9 DEF NoValidLines, PopulateLine, Return, Typed
  <2>2. Assemblable => result' = "running"
    BY <1>3, <1>6, <1>9, OutPopulate
  <2> QED
    BY <1>3, <1>8, <2>1, <2>2
<1>10. CASE Populated \/ BeginLine \/ ParseWord \/ EndLine \/ ParsedAll \/ ResolveSymbol
  <2>1. phase' # "write" /\ result' # "done" /\ result' = "running" /\ UNCHANGED out
    BY <1>10 DEF Populated, BeginLine, ParseWord, EndLine, ParsedAll, ResolveSymbol, Typed
  <2> QED
    BY <1>8, <2>1
<1>11. CASE ParseInvalid
  <2>1. /\ phase = "parse" /\ line \in Lines /\ word \in DOMAIN WordsOf(line)
        /\ ~Valid(WordsOf(line)[word])
    BY <1>11 DEF ParseInvalid
  <2>2. WordsOf(line) = program[line]
    BY <1>3, <2>1, DisassemblyIsPlain, PlainText DEF Typed
  <2>3. line \in 1..Len(program)
    BY <1>3, <2>1, AheadIs DEF Lines
  <2>4. word \in 1..Len(program[line])
    BY <1>3, <2>1, <2>2, <2>3, WordsFit
  <2> QED
    BY <1>3, <2>1, <2>2, <2>3, <2>4, AllValid
<1>12. CASE Unresolved \/ Substitute
  <2>1. /\ phase' = "write" /\ result' = "running" /\ next' = 1 /\ byte' = 0 /\ out' = <<>>
    BY <1>3, <1>6, <1>12, OutResolve
  <2>2. InBlock(1, 1)
    <3>1. Ahead[1] = 0 /\ 1 \in 1..N + 1
      BY <1>3, <1>4, AheadIs
    <3>2. 1 # N + 1 => 1 <= Ahead[1 + 1]
      <4>1. ASSUME 1 # N + 1 PROVE 1 \in 1..N
        BY <1>4, <4>1
      <4>2. ASSUME 1 # N + 1 PROVE Ahead[1 + 1] \in 1..Len(program)
        BY <1>3, <4>1, <4>2, CodeIs
      <4> QED
        BY <1>4, <4>2
    <3> QED
      BY <3>1, <3>2 DEF InBlock
  <2>3. Reached(1, 1)'
    <3>1. Before'[1] = 0 /\ InBlock(1, 1)'
      BY <1>3, <2>2, WeightsAre
    <3>2. Len(out') = 1 - 1 /\ byte' = 2 * (1 - 1) /\ 1 \in 1..Len(program') + 1
      BY <1>2, <1>4, <2>1
    <3> QED
      BY <2>1, <3>1, <3>2 DEF Reached
  <2>4. \A i \in 1..Len(out') : FALSE
    BY <2>1
  <2> QED
    BY <2>1, <2>3, <2>4
<1>13. CASE WriteSymbol
  <2>1. phase = "write" /\ result = "running"
    BY <1>13, Writes
  <2>2. PICK i, j : Reached(i, j)
    BY <1>7, <2>1
  <2>3. /\ InBlock(i, j) /\ j \in 1..Len(program) + 1 /\ i \in 1..N + 1 /\ i \in Nat
        /\ Len(out) = i - 1 /\ byte = 2 * (i - 1) /\ Before[j] \in Nat
    BY <1>3, <1>4, <2>2, WeightsAre DEF Reached, InBlock
  <2>4. Assemblable => Room(byte)
    <3>1. Assemblable => 2 * N < RomSize
      BY DEF Assemblable, N
    <3> QED
      BY <1>4, <2>3, <3>1, Sizes DEF Room
  <2>5. CASE phase' = "ended" /\ result' = "syntax" /\ UNCHANGED out /\ ~Room(byte)
    BY <1>3, <1>8, <2>4, <2>5
  <2>6. CASE UNCHANGED <<phase, result, out, byte>> /\ next' = Before[j] + 1 /\ next = Before[j]
    <3>1. Reached(i, j)'
      BY <1>2, <1>3, <2>3, <2>6 DEF Reached
    <3> QED
      BY <1>8, <2>1, <2>6, <3>1
  <2>7. CASE /\ UNCHANGED <<phase, result, out, byte>> /\ next' = Before[j + 1]
             /\ InBlock(i, j + 1) /\ j \in 1..Len(program)
    <3>1. Before[j + 1] > 0 /\ j + 1 \in 1..Len(program) + 1
      BY <1>3, <1>4, <2>3, <2>7, WeightsAre
    <3>2. Reached(i, j + 1)'
      BY <1>2, <1>3, <2>3, <2>7, <3>1 DEF Reached
    <3> QED
      BY <1>8, <2>1, <2>7, <3>2
  <2>8. CASE /\ UNCHANGED <<phase, result>> /\ next' = Before[j + 1]
             /\ InBlock(i + 1, j + 1) /\ j \in 1..Len(program) /\ i \in 1..N
             /\ \E v : /\ out' = Append(out, v) /\ v.at = byte /\ byte' = byte + 2
                       /\ Right(v, rom.words[i])
    <3>1. PICK v : /\ out' = Append(out, v) /\ v.at = byte /\ byte' = byte + 2
                   /\ Right(v, rom.words[i])
      BY <2>8
    <3>2. out \in Seq(Placed) /\ out' \in Seq(Placed)
      BY <1>1 DEF Typed
    <3>3. Len(out') = i /\ \A k \in 1..Len(out') : k \in (1..N)' /\ OutIs(k)'
      BY <1>4, <1>7, <2>3, <2>8, <3>1, <3>2, OutMore
    <3>4. Before[j + 1] > 0 /\ j + 1 \in 1..Len(program) + 1
      BY <1>3, <1>4, <2>3, <2>8, WeightsAre
    <3>5. Len(out') = (i + 1) - 1 /\ byte' = 2 * ((i + 1) - 1)
      BY <2>3, <3>1, <3>3
    <3>6. Reached(i + 1, j + 1)'
      BY <1>2, <1>3, <2>8, <3>4, <3>5 DEF Reached
    <3> QED
      BY <2>1, <2>8, <3>3, <3>6
  <2> QED
    BY <1>3, <1>6, <1>13, <2>2, <2>5, <2>6, <2>7, <2>8, OutWrite
<1>14. CASE Written
  <2>1. /\ phase = "write" /\ next > Len(symbols) /\ result' = "done" /\ phase' = "ended" /\ UNCHANGED out
    BY <1>14 DEF Written, Return
  <2>2. PICK i, j : Reached(i, j)
    BY <1>7, <2>1
  <2>3. /\ i \in 1..N + 1 /\ Ahead[i] < j /\ (i # N + 1 => j <= Ahead[i + 1])
        /\ j \in 1..Len(program) + 1 /\ Len(out) = i - 1 /\ Before[j] \in Nat
        /\ next = Before[j] \/ next = Before[j] + 1
    BY <1>3, <2>2, WeightsAre DEF Reached, InBlock
  <2>4. Len(symbols) = Before[Len(program) + 1] /\ Len(symbols) \in Nat
    BY <1>3, <1>6, <2>1 DEF ListInv, Typed
  <2>5. j = Len(program) + 1
    <3> SUFFICES ASSUME j # Len(program) + 1 PROVE FALSE
      OBVIOUS
    <3>1. j \in 1..Len(program) /\ Len(program) + 1 \in 1..Len(program) + 1 /\ j < Len(program) + 1
      BY <1>4, <2>3
    <3>2. Before[j] + Weights[j] <= Before[Len(program) + 1]
      BY <1>3, <1>4, <3>1, WeightsAre, SumsGrow
    <3>3. Weights[j] \in Nat /\ Weights[j] >= 2
      BY <1>3, <3>1, WeightsAre
    <3> QED
      BY <2>1, <2>3, <2>4, <3>2, <3>3
  <2>6. i = N + 1
    <3> SUFFICES ASSUME i # N + 1 PROVE FALSE
      OBVIOUS
    <3>1. i \in 1..N
      BY <1>4, <2>3
    <3>2. Ahead[i + 1] \in 1..Len(program)
      BY <1>3, <3>1, CodeIs
    <3> QED
      BY <1>4, <2>3, <2>5, <3>2
  <2>7. Len(out') = N'
    BY <1>3, <1>4, <2>1, <2>3, <2>6
  <2> QED
    BY <1>8, <2>1, <2>7
<1>15. CASE UNCHANGED vars
  <2>1. UNCHANGED <<phase, result, out, byte, next, program>>
    BY <1>15 DEF vars
  <2>2. \A i, j : Reached(i, j) => Reached(i, j)'
    BY <1>3, <2>1 DEF Reached
  <2> QED
    BY <1>3, <1>7, <1>8, <2>1, <2>2
<1> QED
  BY <1>9, <1>10, <1>11, <1>12, <1>13, <1>14, <1>15 DEF Next

--------------------------------------------------------------------------------
\* The inductive invariant of assembling a source written by hand or a disassembly.
RoundInv == AssemblerInv /\ ListInv /\ OutInv /\ (rom = NoRom \/ Disassembled)

\* It holds when c8_encode is called,
LEMMA RoundStart == RoundInit => RoundInv
<1> SUFFICES ASSUME RoundInit PROVE RoundInv
  OBVIOUS
<1>1. rom = NoRom \/ Disassembled
  BY DEF RoundInit, Disassembled
<1>2. IsSource(program) /\ Start
  BY <1>1, SourceAssumption, DisassemblyIsSource DEF RoundInit, Disassembled
<1>3. AssemblerInv
  BY <1>2, AssemblerStart
<1>4. phase = "labels" /\ ~reported /\ result = "running" /\ out = <<>>
  BY <1>2 DEF Start
<1>5. ListInv
  BY <1>4 DEF ListInv
<1>6. OutInv
  <2>1. \A i \in 1..Len(out) : FALSE
    BY <1>4
  <2> QED
    BY <1>4, <2>1 DEF OutInv
<1> QED
  BY <1>1, <1>3, <1>5, <1>6 DEF RoundInv

\* every step keeps it,
LEMMA RoundStep == RoundInv /\ [Next /\ UNCHANGED romVars]_<<vars, romVars>> => RoundInv'
<1> SUFFICES ASSUME RoundInv, [Next /\ UNCHANGED romVars]_<<vars, romVars>> PROVE RoundInv'
  OBVIOUS
<1>1. [Next]_vars /\ UNCHANGED romVars
  BY DEF vars, romVars
<1>2. /\ Typed /\ FitsInv /\ AgreeInv /\ LabelInv /\ SourceInv /\ ListInv /\ OutInv
      /\ rom = NoRom \/ Disassembled
  BY DEF RoundInv, AssemblerInv
<1>3. AssemblerInv'
  BY <1>1, AssemblerStep DEF RoundInv
<1>4. ListInv'
  BY <1>1, <1>2, ListStep
<1>5. OutInv'
  BY <1>1, <1>2, OutStep
<1>6. (rom = NoRom \/ Disassembled)'
  <2>1. UNCHANGED program /\ UNCHANGED rom
    BY <1>1 DEF romVars, Next, vars, NoValidLines, PopulateLine, Populated, BeginLine, ParseWord,
       ParseInvalid, EndLine, ParsedAll, ResolveSymbol, Unresolved, Substitute, WriteSymbol, Written
  <2> QED
    BY <1>1, <1>2, <2>1, SameProgram
<1> QED
  BY <1>3, <1>4, <1>5, <1>6 DEF RoundInv

\* and at the end it says that the program came back.
LEMMA RoundEnds == RoundInv => RoundTrip
<1> SUFFICES ASSUME RoundInv, phase = "ended", Distinct, NotEnlarged
             PROVE  /\ Assemblable => result = "done"
                    /\ result = "done" =>
                         /\ Len(out) = Len(rom.words)
                         /\ \A i \in DOMAIN rom.words :
                              LET w == rom.words[i]
                              IN  /\ ProgStart + out[i].at = Address(i)
                                  /\ out[i].type = (IF w.is = "code" THEN "instruction" ELSE "dw")
                                  /\ out[i].size = 2 /\ out[i].value = w.cmd
                                  /\ Len(out[i].args) = Len(w.args)
                                  /\ \A m \in DOMAIN w.args : CameBack(out[i].args[m], w.args[m])
  BY DEF RoundTrip
<1>1. Disassembled /\ Typed /\ OutInv
  BY DEF RoundInv, AssemblerInv, Distinct
<1>2. rom \in Roms /\ DOMAIN rom.words = 1..N /\ N \in Nat /\ ProgStart \in Nat
  BY <1>1, Constants DEF Disassembled
<1>3. /\ result = "done" => Len(out) = N
      /\ \A i \in 1..Len(out) : i \in 1..N /\ OutIs(i)
      /\ Assemblable => result \in {"running", "done"}
  BY <1>1 DEF OutInv
<1>4. result # "running"
  BY <1>1 DEF Typed
<1>5. ASSUME result = "done", NEW i \in 1..N
      PROVE  ProgStart + out[i].at = Address(i) /\ Right(out[i], rom.words[i])
  <2>1. OutIs(i)
    BY <1>3, <1>5
  <2>2. ProgStart + out[i].at = Address(i)
    BY <1>2, <2>1 DEF OutIs, Address
  <2> QED
    BY <2>1, <2>2 DEF OutIs
<1> QED
  BY <1>2, <1>3, <1>4, <1>5 DEF N, Right

\* Assembling the disassembly of any program gives the program back.
THEOREM DisassemblyComesBack == RoundSpec => []RoundTrip
  BY RoundStart, RoundStep, RoundEnds, PTL DEF RoundSpec

\* What holds of assembling the sources written by hand holds of the disassemblies too.
THEOREM DisassemblyIsSafe ==
  RoundSpec => [](InvalidNeverAssembles /\ OutputFits /\ PassesAgree /\ LabelsReachTheirCode)
<1>1. RoundInv => InvalidNeverAssembles /\ OutputFits /\ PassesAgree /\ LabelsReachTheirCode
  BY ParseRefuses, FitsInside, AgreeWrites, AssemblerReaches DEF RoundInv, AssemblerInv
<1> QED
  BY <1>1, RoundStart, RoundStep, PTL DEF RoundSpec
================================================================================
