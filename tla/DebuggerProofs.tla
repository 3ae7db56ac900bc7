----------------------------- MODULE DebuggerProofs -----------------------------
(***************************************************************************)
(* Proofs about Transfer and Debugger, for every size of memory, fonts and   *)
(* register files, lines of any number, and files cut anywhere.  Of Transfer:  *)
(* only instructions that give I a word take it out of memory, loads undo      *)
(* stores, and stores under the memory quirk follow each other.  Under the     *)
(* debugger, what takes I out of memory is set, or a load of such a machine;   *)
(* the lines of docs/chip8.md do what it says but for those named in Failing,  *)
(* and saved flags can be loaded again.                                      *)
(***************************************************************************)
EXTENDS Debugger, TLAPS

\* A remainder is smaller than the divisor.
LEMMA Remainder == \A n \in Nat, k \in Nat \ {0} : n % k \in 0..k - 1
  OBVIOUS

\* The constants one by one.
LEMMA Constants ==
  /\ ByteSize \in Nat \ {0} /\ WordSize \in Nat \ {0} /\ MemSize \in Nat \ {0}
  /\ NumRegs \in Nat \ {0} /\ NumFlags \in Nat \ {0} /\ Digits \in Nat \ {0}
  /\ SmallChar \in Nat \ {0} /\ BigChar \in Nat \ {0} /\ HighFontStart \in Nat \ {0}
  BY TransferAssumption

\* The small font is inside memory.
LEMMA SmallFont ==
  ASSUME NEW v \in Nat
  PROVE  (v % Digits) * SmallChar \in Addresses
<1> DEFINE d == v % Digits
<1>1. d \in 0..Digits - 1
  BY Remainder, Constants
<1>2. Digits * SmallChar <= MemSize
  BY TransferAssumption
<1>3. \A a, b, c \in Nat : a + 1 <= b /\ c > 0 => a * c + c <= b * c
  OBVIOUS
<1>4. d * SmallChar + SmallChar <= Digits * SmallChar
  BY <1>1, <1>3, Constants
<1> QED
  BY <1>1, <1>2, <1>4, Constants DEF Addresses

\* So is what LD HF may reach, whatever Vx holds.
LEMMA HighFont ==
  ASSUME NEW v \in Byte
  PROVE  HighFontStart + v * BigChar \in Addresses
<1>1. \A a, b, c \in Nat : a <= b => a * c <= b * c
  OBVIOUS
<1>2. v * BigChar <= (ByteSize - 1) * BigChar
  BY <1>1, Constants DEF Byte
<1> QED
  BY <1>2, Constants, TransferAssumption DEF Addresses, Byte

\* The memory quirk leaves I in memory if it was there.
LEMMA MovedInMemory ==
  ASSUME NEW i \in Addresses, NEW x \in Regs
  PROVE  Moved(i, x) \in Addresses
  BY Remainder, Constants DEF Moved, Addresses, Regs

\* Both invariants together: a store moves I to a word because it was an address.
TransferInv == TypeOK /\ OnlyWordsLeaveMemory

\* I starts at an address.
LEMMA TransferInit == Init => TransferInv
<1> SUFFICES ASSUME Init PROVE TransferInv
  OBVIOUS
<1>1. 0 \in Byte /\ 0 \in Addresses /\ 0 \in Words
  BY Constants DEF Byte, Addresses, Words
<1>2. memoryQuirk \in BOOLEAN /\ wide \in BOOLEAN
  BY Zenon DEF Init
<1> QED
  BY <1>1, <1>2 DEF Init, TransferInv, TypeOK, OnlyWordsLeaveMemory

\* Addresses are words.
LEMMA AddressIsWord == Addresses \subseteq Words
  BY Constants, TransferAssumption DEF Addresses, Words

\* An access outside mem[] or R[] changes nothing that the model follows.
LEMMA UndefinedInv ==
  ASSUME TransferInv, Undefined, UNCHANGED memoryQuirk
  PROVE  TransferInv'
  BY DEF Undefined, TransferInv, TypeOK, OnlyWordsLeaveMemory

\* LD I, LD F and LD HF.
LEMMA SetIInv ==
  ASSUME TransferInv, NEW i \in Addresses, SetI(i), UNCHANGED memoryQuirk
  PROVE  TransferInv'
  BY AddressIsWord DEF SetI, TransferInv, TypeOK, OnlyWordsLeaveMemory

\* A digit of a byte is no larger than the byte.
LEMMA DigitIsByte ==
  ASSUME NEW b \in Byte
  PROVE  /\ (b \div 100) % 10 \in Byte
         /\ (b \div 10) % 10 \in Byte
         /\ b % 10 \in Byte
  BY Constants DEF Byte

\* What Stored puts at an address: register r at i + r ...
LEMMA StoredAt ==
  ASSUME NEW m, NEW v, NEW i \in Nat, NEW x \in Nat, NEW r \in 0..x,
         NEW a \in Addresses, a = i + r
  PROVE  Stored(m, v, i, x)[a] = v[r]
<1>1. a \in i..i + x /\ a - i = r
  OBVIOUS
<1> QED
  BY <1>1 DEF Stored

\* ... and what was there below i.
LEMMA StoredAbove ==
  ASSUME NEW m, NEW v, NEW i \in Nat, NEW x \in Nat, NEW a \in Addresses, a < i
  PROVE  Stored(m, v, i, x)[a] = m[a]
<1>1. a \notin i..i + x
  BY Constants DEF Addresses
<1> QED
  BY <1>1 DEF Stored

\* Every step preserves the invariant.
LEMMA TransferStep == TransferInv /\ [Next]_vars => TransferInv'
<1> SUFFICES ASSUME TransferInv, [Next]_vars PROVE TransferInv'
  OBVIOUS
<1> USE DEF TransferInv, TypeOK, OnlyWordsLeaveMemory, Words
<1>1. CASE UNCHANGED vars
  BY <1>1 DEF vars
<1>2. CASE Next
  <2>q. UNCHANGED memoryQuirk
    BY <1>2 DEF Next
  <2>a. ASSUME NEW nnn \in Addresses, LdI(nnn) PROVE TransferInv'
    BY <2>a, <2>q, SetIInv DEF LdI
  <2>b. ASSUME NEW nnnn \in Words, LdIWord(nnnn) PROVE TransferInv'
    BY <2>b, <2>q DEF LdIWord
  <2> SUFFICES ASSUME NEW x \in Regs,
                 \/ \E kk \in Byte : LdVx(x, kk)
                 \/ LdF(x) \/ LdHf(x) \/ AddI(x) \/ LdIpVx(x) \/ LdVxIp(x)
                 \/ LdB(x) \/ LdRVx(x) \/ LdVxR(x)
               PROVE  TransferInv'
    BY <1>2, <2>a, <2>b DEF Next
  <2>v. V[x] \in Byte /\ V[x] \in Nat /\ x \in Nat
    BY Constants DEF Byte, Regs
  <2>1. ASSUME NEW kk \in Byte, LdVx(x, kk) PROVE TransferInv'
    BY <2>1, <2>q DEF LdVx
  <2>3. CASE LdF(x)
    BY <2>3, <2>q, <2>v, SmallFont, SetIInv DEF LdF
  <2>4. CASE LdHf(x)
    BY <2>4, <2>q, <2>v, HighFont, SetIInv DEF LdHf
  <2>5. CASE AddI(x)
    <3>1. (I + V[x]) % WordSize \in Words
      <4>1. I \in Nat
        OBVIOUS
      <4>2. I + V[x] \in Nat
        BY <2>v, <4>1
      <4> QED
        BY <4>2, Remainder, Constants
    <3> QED
      BY <2>5, <2>q, <3>1 DEF AddI
  <2>6. ASSUME I + x \in Addresses PROVE I \in Addresses /\ Moved(I, x) \in Addresses
    <3>1. I \in Addresses
      BY <2>6, <2>v, Constants DEF Addresses
    <3> QED
      BY <3>1, MovedInMemory
  <2>7. CASE LdIpVx(x)
    <3>1. CASE I + x \in Addresses
      <4>1. \A a \in I..I + x : a - I \in Regs
        BY <2>v, Constants DEF Regs
      <4>2. Stored(mem, V, I, x) \in [Addresses -> Byte]
        BY <4>1 DEF Stored
      <4> QED
        BY <2>7, <2>q, <2>6, <3>1, <4>2, AddressIsWord DEF LdIpVx
    <3>2. CASE I + x \notin Addresses
      BY <2>7, <2>q, <3>2, UndefinedInv DEF LdIpVx
    <3> QED
      BY <3>1, <3>2
  <2>8. CASE LdVxIp(x)
    <3>1. CASE I + x \in Addresses
      <4>1. \A r \in Regs : r <= x => I + r \in Addresses
        BY <2>v, <3>1, Constants DEF Regs, Addresses
      <4>2. Loaded(mem, V, I, x) \in [Regs -> Byte]
        BY <4>1 DEF Loaded
      <4> QED
        BY <2>8, <2>q, <2>6, <3>1, <4>2, AddressIsWord DEF LdVxIp
    <3>2. CASE I + x \notin Addresses
      BY <2>8, <2>q, <3>2, UndefinedInv DEF LdVxIp
    <3> QED
      BY <3>1, <3>2
  <2>9. CASE LdB(x)
    <3>1. CASE I + 2 \in Addresses
      <4>1. mem' \in [Addresses -> Byte]
        BY <2>9, <2>v, <3>1, DigitIsByte DEF LdB
      <4> QED
        BY <2>9, <2>q, <3>1, <4>1 DEF LdB
    <3>2. CASE I + 2 \notin Addresses
      BY <2>9, <2>q, <3>2, UndefinedInv DEF LdB
    <3> QED
      BY <3>1, <3>2
  <2>10. CASE LdRVx(x)
    <3>1. CASE x <= NumFlags
      <4>1. \A f \in Flags : f < x => f \in Regs
        BY <2>v, Constants DEF Flags, Regs
      <4>2. Saved(R, V, x) \in [Flags -> Byte]
        BY <4>1 DEF Saved
      <4> QED
        BY <2>10, <2>q, <3>1, <4>2 DEF LdRVx
    <3>2. CASE ~(x <= NumFlags)
      BY <2>10, <2>q, <3>2, UndefinedInv DEF LdRVx
    <3> QED
      BY <3>1, <3>2
  <2>11. CASE LdVxR(x)
    <3>1. CASE x <= NumFlags
      <4>1. \A k \in Regs : k < x => k \in Flags
        BY <2>v, <3>1, Constants DEF Flags, Regs
      <4>2. Restored(R, V, x) \in [Regs -> Byte]
        BY <4>1 DEF Restored
      <4> QED
        BY <2>11, <2>q, <3>1, <4>2 DEF LdVxR
    <3>2. CASE ~(x <= NumFlags)
      BY <2>11, <2>q, <3>2, UndefinedInv DEF LdVxR
    <3> QED
      BY <3>1, <3>2
  <2> QED
    BY <2>1, <2>3, <2>4, <2>5, <2>7, <2>8, <2>9, <2>10, <2>11
<1> QED
  BY <1>1, <1>2

--------------------------------------------------------------------------------
\* Registers and memory hold bytes, and I a word, whatever a program does.
THEOREM TransferTypeCorrect == Spec => []TypeOK
<1>1. TransferInv => TypeOK
  BY DEF TransferInv
<1> QED
  BY <1>1, TransferInit, TransferStep, PTL DEF Spec

\* Only an instruction that gives I a whole word takes it out of memory.
THEOREM IndexStaysInMemory == Spec => []OnlyWordsLeaveMemory
<1>1. TransferInv => OnlyWordsLeaveMemory
  BY DEF TransferInv
<1> QED
  BY <1>1, TransferInit, TransferStep, PTL DEF Spec

\* LD Vx, [I] loads what LD [I], Vx stored.
THEOREM LoadInvertsStore == Spec => []LoadUndoesStore
<1>1. TypeOK => LoadUndoesStore
  <2> SUFFICES ASSUME TypeOK, NEW x \in Regs, NEW v \in [Regs -> Byte],
                      I + x \in Addresses
               PROVE  Loaded(Stored(mem, V, I, x), v, I, x)
                        = [r \in Regs |-> IF r <= x THEN V[r] ELSE v[r]]
    BY DEF LoadUndoesStore
  <2>1. I \in Nat /\ x \in Nat
    BY Constants DEF TypeOK, Regs, Words
  <2>2. ASSUME NEW r \in Regs, r <= x PROVE Stored(mem, V, I, x)[I + r] = V[r]
    <3>1. r \in 0..x /\ I + r \in Addresses
      BY <2>1, <2>2, Constants DEF Regs, Addresses
    <3> QED
      BY <2>1, <2>2, <3>1, StoredAt
  <2> QED
    BY <2>2 DEF Loaded
<1> QED
  BY <1>1, TransferTypeCorrect, PTL

\* Under the memory quirk stores follow each other in memory.
THEOREM StoresFollow == Spec => []StoresAreAdjacent
<1>1. TypeOK => StoresAreAdjacent
  <2> SUFFICES ASSUME TypeOK, NEW x \in Regs, NEW y \in Regs, memoryQuirk,
                      I + x + 1 + y \in Addresses, NEW r \in 0..x + y + 1
               PROVE  Stored(Stored(mem, V, I, x), V, Moved(I, x), y)[I + r]
                        = IF r <= x THEN V[r] ELSE V[r - x - 1]
    BY DEF StoresAreAdjacent
  <2>1. I \in Nat /\ x \in Nat /\ y \in Nat /\ r \in Nat /\ MemSize \in Nat \ {0}
    BY Constants DEF TypeOK, Regs, Words
  <2>2. I + x + 1 < MemSize
    BY <2>1 DEF Addresses
  <2>3. \A n \in Nat : n < MemSize => n % MemSize = n
    BY <2>1
  <2>4. Moved(I, x) = I + x + 1
    BY <2>1, <2>2, <2>3 DEF Moved
  <2>5. I + r \in Addresses
    BY <2>1 DEF Addresses
  <2> DEFINE one == Stored(mem, V, I, x)
             two == Stored(one, V, I + x + 1, y)
  <2>6. CASE r <= x
    <3>1. one[I + r] = V[r]
      <4>1. r \in 0..x
        BY <2>1, <2>6
      <4> QED
        BY <2>1, <2>5, <4>1, StoredAt
    <3>2. I + r < I + x + 1 /\ I + x + 1 \in Nat
      BY <2>1, <2>6
    <3>3. two[I + r] = one[I + r]
      <4> HIDE DEF one
      <4> QED
        BY <2>1, <2>5, <3>2, StoredAbove
    <3> QED
      BY <2>4, <2>6, <3>1, <3>3
  <2>7. CASE ~(r <= x)
    <3> DEFINE k    == r - x - 1
               next == I + x + 1
               a    == I + r
    <3>1. k \in 0..y /\ a = next + k /\ next \in Nat /\ a \in Addresses
      BY <2>1, <2>5, <2>7
    <3>2. Stored(one, V, next, y)[a] = V[k]
      <4> HIDE DEF one, k, next, a
      <4> QED
        BY <2>1, <3>1, StoredAt
    <3> QED
      BY <2>4, <2>7, <3>2
  <2> QED
    BY <2>6, <2>7
<1> QED
  BY <1>1, TransferTypeCorrect, PTL

--------------------------------------------------------------------------------
\* The files, and R as it was written.
FileInv ==
  /\ HasRun(stateFile.machine) /\ stateFile.size \in 0..Whole
  /\ flagsFile \in Seq(Byte)
  /\ kept \in [Flags -> Byte]
  /\ Len(flagsFile) = NumFlags => \A f \in Flags : flagsFile[f + 1] = kept[f]

DebuggerInv == /\ TransferInv
               /\ breakpoints \subseteq Addresses
               /\ FileInv
               /\ parity \in {0, 1}

\* An int cut to a field.
LEMMA Cut == \A v \in Int : v % ByteSize \in Byte /\ v % WordSize \in Words
  BY Constants DEF Byte, Words

\* What a line has for numbers.
LEMMA LineTypes ==
  ASSUME NEW l \in Lines
  PROVE  NewValue(l) \in Int /\ Number(l) \in Int /\ l \in Line
<1>1. l \in Line
  BY DebuggerAssumption
<1>2. l.n \in Int /\ l.value \in Int
  BY <1>1 DEF Line
<1>m. -1 \in Int
  OBVIOUS
<1>3. NewValue(l) \in Int
  BY <1>2, <1>m, Zenon DEF NewValue
<1>4. Number(l) \in Int
  BY <1>2 DEF Number
<1> QED
  BY <1>1, <1>3, <1>4

\* Zeros are bytes.
LEMMA NoFlagsAreBytes == NoFlags \in [Flags -> Byte]
  BY Constants DEF NoFlags, Byte

\* The prompt starts without breakpoints and without a file of flags.
LEMMA DebuggerStart == DebuggerInit => DebuggerInv
<1> SUFFICES ASSUME DebuggerInit PROVE DebuggerInv
  OBVIOUS
<1>1. TransferInv
  BY TransferInit DEF DebuggerInit
<1>2. kept \in [Flags -> Byte] /\ flagsFile = <<>> /\ NumFlags # 0
  BY NoFlagsAreBytes, Constants DEF DebuggerInit
<1>3. HasRun(stateFile.machine) /\ stateFile.size \in 0..Whole
  BY DebuggerAssumption DEF DebuggerInit
<1> QED
  BY <1>1, <1>2, <1>3 DEF DebuggerInit, DebuggerInv, FileInv

\* What the model follows is left alone by a line that leaves an array ...
LEMMA OverrunKeeps ==
  ASSUME DebuggerInv, Overrun
  PROVE  TransferInv' /\ FileInv' /\ breakpoints' = breakpoints
BY UndefinedInv DEF Overrun, DebuggerInv, FileInv, debugVars

\* ... and by one that does nothing.
LEMMA IdleKeeps ==
  ASSUME DebuggerInv, UNCHANGED <<vars, debugVars>>
  PROVE  TransferInv' /\ FileInv' /\ breakpoints' = breakpoints
BY DEF vars, debugVars, DebuggerInv, FileInv, TransferInv, TypeOK, OnlyWordsLeaveMemory

\* set, whatever it is given.
LEMMA SetKeeps ==
  ASSUME DebuggerInv, NEW l \in Lines, Set(l)
  PROVE  TransferInv' /\ FileInv' /\ breakpoints' = breakpoints
<1> DEFINE byte == NewValue(l) % ByteSize
           Keeps == TransferInv' /\ FileInv' /\ breakpoints' = breakpoints
<1>t. byte \in Byte /\ NewValue(l) % WordSize \in Words
  BY LineTypes, Cut
<1>u. TypeOK /\ OnlyWordsLeaveMemory /\ FileInv
  BY DEF DebuggerInv, TransferInv
<1>1. CASE Idle
  BY <1>1, IdleKeeps DEF Idle
<1>2. CASE Overrun
  BY <1>2, OverrunKeeps
<1> DEFINE SetsI == /\ I' = NewValue(l) % WordSize /\ wide' = TRUE
                    /\ UNCHANGED <<V, R, mem, memoryQuirk, status, debugVars>>
           SetsV == /\ V' = [V EXCEPT ![Number(l)] = byte]
                    /\ UNCHANGED <<R, I, mem, memoryQuirk, status, wide, debugVars>>
           SetsR == /\ R' = [R EXCEPT ![Number(l)] = byte]
                    /\ UNCHANGED <<V, I, mem, memoryQuirk, status, wide, debugVars>>
           SetsMem == /\ mem' = [mem EXCEPT ![Number(l)] = byte]
                      /\ UNCHANGED <<V, R, I, memoryQuirk, status, wide, debugVars>>
           SetsFont == /\ mem' \in WithFont(Type(l))
                       /\ UNCHANGED <<V, R, I, memoryQuirk, status, wide, debugVars>>
           SetsQuirks == /\ memoryQuirk' \in BOOLEAN
                         /\ UNCHANGED <<V, R, I, mem, status, wide, debugVars>>
<1>3. CASE SetsI
  BY <1>3, <1>t, <1>u DEF TransferInv, TypeOK, OnlyWordsLeaveMemory, FileInv, debugVars
<1>4. CASE SetsV
  BY <1>4, <1>t, <1>u DEF TransferInv, TypeOK, OnlyWordsLeaveMemory, FileInv, debugVars
<1>5. CASE SetsR
  BY <1>5, <1>t, <1>u DEF TransferInv, TypeOK, OnlyWordsLeaveMemory, FileInv, debugVars
<1>6. CASE SetsMem
  BY <1>6, <1>t, <1>u DEF TransferInv, TypeOK, OnlyWordsLeaveMemory, FileInv, debugVars
<1>7. CASE SetsQuirks
  BY <1>7, <1>u DEF TransferInv, TypeOK, OnlyWordsLeaveMemory, FileInv, debugVars
<1>f. CASE SetsFont
  <2>1. mem' \in [Addresses -> Byte]
    BY <1>f DEF WithFont
  <2> QED
    BY <1>f, <1>u, <2>1 DEF TransferInv, TypeOK, OnlyWordsLeaveMemory, FileInv, debugVars
<1>8. Idle \/ Overrun \/ SetsI \/ SetsV \/ SetsR \/ SetsMem \/ SetsFont
      \/ SetsQuirks
  BY DEF Set
<1> QED
  BY <1>1, <1>2, <1>3, <1>4, <1>5, <1>6, <1>f, <1>7, <1>8

\* break and rmbreak mark addresses only, or nothing.
LEMMA BreakKeeps ==
  ASSUME DebuggerInv, NEW l \in Lines, NEW pc, Break(l, pc)
  PROVE  TransferInv' /\ FileInv' /\ breakpoints' \subseteq Addresses
<1> DEFINE a == Marked(l, pc)
<1>1. CASE a \in Addresses
  <2>1. UNCHANGED <<vars, flagsFile, kept, stateFile>>
    BY <1>1 DEF Break
  <2>2. breakpoints' = breakpoints \cup {a} \/ breakpoints' = breakpoints \ {a}
    BY <1>1 DEF Break
  <2>3. TransferInv' /\ FileInv'
    BY <2>1 DEF vars, DebuggerInv, FileInv, TransferInv, TypeOK, OnlyWordsLeaveMemory
  <2> QED
    BY <1>1, <2>2, <2>3 DEF DebuggerInv
<1>2. CASE a \notin Addresses
  BY <1>2, OverrunKeeps DEF Break, DebuggerInv
<1> QED
  BY <1>1, <1>2

\* print changes nothing.
LEMMA PrintKeeps ==
  ASSUME DebuggerInv, NEW l \in Lines, NEW pc, PrintValue(l, pc)
  PROVE  TransferInv' /\ FileInv' /\ breakpoints' = breakpoints
<1>1. Idle \/ Overrun
  BY DEF PrintValue
<1> QED
  BY <1>1, IdleKeeps, OverrunKeeps DEF Idle

\* The machine that save writes.
LEMMA MachineHasRun == DebuggerInv => HasRun(Machine)
  BY DEF DebuggerInv, TransferInv, TypeOK, OnlyWordsLeaveMemory, HasRun, Machine, Machines

\* save, wherever the file is cut off.
LEMMA SaveStateKeeps ==
  ASSUME DebuggerInv, NEW l \in Lines, SaveState(l)
  PROVE  TransferInv' /\ FileInv' /\ breakpoints' = breakpoints
<1>1. CASE Overrun \/ Idle
  BY <1>1, OverrunKeeps, IdleKeeps DEF Idle
<1>2. ASSUME NEW n \in Cuts, stateFile' = [machine |-> Machine, size |-> n],
             UNCHANGED <<vars, breakpoints, flagsFile, kept>>
      PROVE  TransferInv' /\ FileInv' /\ breakpoints' = breakpoints
  <2>1. TransferInv'
    BY <1>2 DEF vars, DebuggerInv, TransferInv, TypeOK, OnlyWordsLeaveMemory
  <2>2. stateFile'.machine = Machine /\ stateFile'.size \in 0..Whole
    BY <1>2, DebuggerAssumption
  <2>3. HasRun(stateFile'.machine)
    BY <2>2, MachineHasRun
  <2>4. HasRun(stateFile.machine)'
    BY <2>3 DEF HasRun
  <2> QED
    BY <1>2, <2>1, <2>2, <2>4 DEF DebuggerInv, FileInv
<1> QED
  BY <1>1, <1>2 DEF SaveState

\* An array keeps its type, however much of it a file has.
LEMMA PartKeeps ==
  ASSUME NEW D, NEW S, NEW new \in [D -> S], NEW old \in [D -> S], NEW at, NEW n
  PROVE  Part(new, old, at, n) \in [D -> S]
  BY DEF Part

\* load, from a whole file, a short one or none.
LEMMA LoadStateKeeps ==
  ASSUME DebuggerInv, NEW l \in Lines, LoadState(l)
  PROVE  TransferInv' /\ FileInv' /\ breakpoints' \subseteq Addresses
<1> DEFINE m == stateFile.machine
           n == stateFile.size
<1>1. CASE Overrun \/ Idle
  BY <1>1, OverrunKeeps, IdleKeeps DEF Idle, DebuggerInv
<1>2. CASE ReadState(m, n)
  <2>1. /\ m.mem \in [Addresses -> Byte] /\ m.R \in [Flags -> Byte]
        /\ m.V \in [Regs -> Byte] /\ m.I \in Words /\ m.memoryQuirk \in BOOLEAN
        /\ m.wide \in BOOLEAN /\ (m.I \in Addresses \/ m.wide)
    BY DEF DebuggerInv, FileInv, HasRun, Machines
  <2>2. TypeOK /\ OnlyWordsLeaveMemory /\ FileInv
    BY DEF DebuggerInv, TransferInv
  <2>3. mem' \in [Addresses -> Byte] /\ R' \in [Flags -> Byte] /\ V' \in [Regs -> Byte]
    BY <1>2, <2>1, <2>2, PartKeeps DEF ReadState, TypeOK
  <2>4. I' \in Words /\ wide' \in BOOLEAN /\ (I' \in Addresses \/ wide')
    BY <1>2, <2>1, <2>2 DEF ReadState, TypeOK, OnlyWordsLeaveMemory
  <2>5. memoryQuirk' \in BOOLEAN /\ breakpoints' \subseteq Addresses
    BY <1>2, <2>1, <2>2 DEF ReadState, TypeOK
  <2>6. UNCHANGED <<status, flagsFile, kept, stateFile>>
    BY <1>2 DEF ReadState
  <2> QED
    BY <2>2, <2>3, <2>4, <2>5, <2>6
       DEF TransferInv, TypeOK, OnlyWordsLeaveMemory, FileInv
<1> QED
  BY <1>1, <1>2 DEF LoadState

\* saveflags, also where the file is cut off.
LEMMA SaveFlagsKeeps ==
  ASSUME DebuggerInv, NEW l \in Lines, SaveFlags(l)
  PROVE  TransferInv' /\ FileInv' /\ breakpoints' = breakpoints
<1>1. CASE Overrun \/ Idle
  BY <1>1, OverrunKeeps, IdleKeeps DEF Idle
<1>2. ASSUME NEW n \in 0..NumFlags,
             flagsFile' = [k \in 1..n |-> R[k - 1]],
             kept' = IF n = NumFlags THEN R ELSE NoFlags,
             UNCHANGED <<vars, breakpoints, stateFile>>
      PROVE  TransferInv' /\ FileInv' /\ breakpoints' = breakpoints
  <2>t. R \in [Flags -> Byte] /\ n \in Nat /\ NumFlags \in Nat
    BY Constants DEF DebuggerInv, TransferInv, TypeOK
  <2>1. TransferInv'
    BY <1>2 DEF vars, DebuggerInv, TransferInv, TypeOK, OnlyWordsLeaveMemory
  <2>2. \A k \in 1..n : R[k - 1] \in Byte
    BY <2>t DEF Flags
  <2>3. flagsFile' \in Seq(Byte) /\ Len(flagsFile') = n
    BY <1>2, <2>t, <2>2
  <2>4. kept' \in [Flags -> Byte]
    BY <1>2, <2>t, NoFlagsAreBytes
  <2>5. ASSUME n = NumFlags, NEW f \in Flags PROVE flagsFile'[f + 1] = kept'[f]
    <3>1. f + 1 \in 1..n /\ (f + 1) - 1 = f
      BY <2>t, <2>5 DEF Flags
    <3> QED
      BY <1>2, <2>5, <3>1
  <2> QED
    BY <1>2, <2>1, <2>3, <2>4, <2>5 DEF DebuggerInv, FileInv
<1> QED
  BY <1>1, <1>2 DEF SaveFlags

\* loadflags, also from a short file or none.
LEMMA LoadFlagsKeeps ==
  ASSUME DebuggerInv, NEW l \in Lines, LoadFlags(l)
  PROVE  TransferInv' /\ FileInv' /\ breakpoints' = breakpoints
<1>1. CASE Overrun
  BY <1>1, OverrunKeeps
<1>2. CASE /\ R' \in {R, Read(flagsFile, R)}
           /\ UNCHANGED <<V, I, mem, memoryQuirk, status, wide, debugVars>>
  <2>1. R \in [Flags -> Byte] /\ flagsFile \in Seq(Byte) /\ NumFlags \in Nat
    BY Constants DEF DebuggerInv, TransferInv, TypeOK, FileInv
  <2>2. ASSUME NEW f \in Flags, f < Len(flagsFile) PROVE flagsFile[f + 1] \in Byte
    <3>1. Len(flagsFile) \in Nat /\ f + 1 \in 1..Len(flagsFile)
      BY <2>1, <2>2 DEF Flags
    <3> QED
      BY <2>1, <3>1
  <2>3. R' \in [Flags -> Byte]
    BY <1>2, <2>1, <2>2 DEF Read
  <2> QED
    BY <1>2, <2>3 DEF debugVars, DebuggerInv, FileInv, TransferInv, TypeOK,
                      OnlyWordsLeaveMemory
<1> QED
  BY <1>1, <1>2 DEF LoadFlags

\* One line, whatever it is.
LEMMA CommandKeeps ==
  ASSUME DebuggerInv, NEW l \in Lines, NEW pc, Command(l, pc)
  PROVE  TransferInv' /\ FileInv' /\ breakpoints' \subseteq Addresses
<1>1. \/ Idle \/ Break(l, pc) \/ Set(l) \/ PrintValue(l, pc) \/ SaveState(l)
      \/ LoadState(l) \/ SaveFlags(l) \/ LoadFlags(l)
  BY DEF Command, AtPc, Elsewhere
<1>2. breakpoints \subseteq Addresses
  BY DEF DebuggerInv
<1> QED
  BY <1>1, <1>2, IdleKeeps, BreakKeeps, SetKeeps, PrintKeeps, SaveStateKeeps,
     LoadStateKeeps, SaveFlagsKeeps, LoadFlagsKeeps DEF Idle

\* Every instruction and every line preserves the invariant.
LEMMA DebuggerStep == DebuggerInv /\ [DebuggerNext]_allVars => DebuggerInv'
<1> SUFFICES ASSUME DebuggerInv, [DebuggerNext]_allVars PROVE DebuggerInv'
  OBVIOUS
<1>p. parity \in {0, 1}
  BY DEF DebuggerInv
<1>1. CASE UNCHANGED allVars
  BY <1>1, <1>p, IdleKeeps DEF allVars, DebuggerInv
<1>2. CASE Next /\ UNCHANGED <<debugVars, parity>>
  <2>1. TransferInv'
    BY <1>2, TransferStep DEF DebuggerInv
  <2>2. FileInv'
    BY <1>2 DEF DebuggerInv, FileInv, debugVars
  <2> QED
    BY <1>2, <1>p, <2>1, <2>2 DEF DebuggerInv, debugVars
<1>3. ASSUME NEW l \in Lines, NEW pc, Command(l, pc), parity' = 1 - parity
      PROVE  DebuggerInv'
  <2>1. parity' \in {0, 1}
    BY <1>3, <1>p
  <2> QED
    BY <1>3, <2>1, CommandKeeps DEF DebuggerInv
<1>4. CASE Prompt /\ parity' = 1 - parity
  <2>1. PICK l \in Lines : Elsewhere(l) \/ \E pc \in Counters : AtPc(l, pc)
    BY <1>4 DEF Prompt
  <2>2. \E pc : Command(l, pc)
    BY <2>1 DEF Command
  <2> QED
    BY <1>3, <1>4, <2>2
<1> QED
  BY <1>1, <1>2, <1>4 DEF DebuggerNext

\* Strings are looked at one by one in what follows.
LEMMA WorkingCases ==
  ASSUME NEW l \in Working
  PROVE  /\ l \in Lines
         /\ \/ l.verb \in {"break", "rmbreak"} /\ l.arg = ""
            \/ l.verb \in {"break", "rmbreak"} /\ l.arg = "$" /\ l.n \in Addresses \ {0}
            \/ /\ l.verb = "set" /\ l.given
               /\ \/ l.arg \in {"I", "field"} \cup Fonts
                  \/ l.arg = "V" /\ l.n \in Regs
                  \/ l.arg = "R" /\ l.n \in Flags
                  \/ l.arg = "$" /\ l.n \in Addresses \ {0}
            \/ /\ l.verb = "print"
               /\ \/ l.arg \in {"", "I", "field", "stack"} \cup Fonts
                  \/ l.arg = "V" /\ l.n \in Regs \cup {-1}
                  \/ l.arg = "R" /\ l.n \in Flags \cup {-1}
                  \/ l.arg = "$" /\ l.n \in Addresses \ {0}
            \/ l.verb \in Files /\ l.arg = "text"
            \/ l.verb = "continue" /\ l.arg = ""
<1>1. l \in Lines /\ IsDocumented(l) /\ ~Failing(l)
  BY DebuggerAssumption DEF Working
<1>2. l.arg = "$" => ~(l.n <= 0)
  BY <1>1 DEF Failing
<1>3. l.arg = "$" /\ l.n \in Addresses \cup {-1} => l.n \in Addresses \ {0}
  BY <1>2
<1>4. ASSUME Attribute(l), l.verb = "set"
      PROVE  \/ l.arg \in {"I", "field"} \cup Fonts
             \/ l.arg = "V" /\ l.n \in Regs
             \/ l.arg = "R" /\ l.n \in Flags
             \/ l.arg = "$" /\ l.n \in Addresses \ {0}
  BY <1>1, <1>3, <1>4 DEF Attribute, Failing
<1>5. ASSUME Attribute(l)
      PROVE  \/ l.arg \in {"I", "field", "stack"} \cup Fonts
             \/ l.arg = "V" /\ l.n \in Regs \cup {-1}
             \/ l.arg = "R" /\ l.n \in Flags \cup {-1}
             \/ l.arg = "$" /\ l.n \in Addresses \ {0}
  BY <1>1, <1>3, <1>5 DEF Attribute, Failing
<1>6. l.arg # "number"
  BY <1>1 DEF Failing
<1> QED
  BY <1>1, <1>3, <1>4, <1>5, <1>6 DEF IsDocumented

\* Addresses but 0 are positive.
LEMMA PositiveAddress == \A a \in Addresses \ {0} : ~(a <= 0)
  BY Constants DEF Addresses

\* break and rmbreak, of an address or of pc.
LEMMA DocumentedBreak ==
  ASSUME NEW l \in Working, NEW pc \in AtInstruction,
         l.verb \in {"break", "rmbreak"}, Command(l, pc)
  PROVE  /\ breakpoints' = IF l.verb = "break"
                           THEN breakpoints \cup {IF l.arg = "" THEN pc ELSE l.n}
                           ELSE breakpoints \ {IF l.arg = "" THEN pc ELSE l.n}
         /\ UNCHANGED <<vars, stateFile>>
<1> DEFINE address == IF l.arg = "" THEN pc ELSE l.n
<1>1. l.arg = "" \/ (l.arg = "$" /\ l.n \in Addresses \ {0})
  BY WorkingCases DEF Files
<1>2. pc \in Addresses
  BY DebuggerAssumption, Constants DEF AtInstruction, Words, Addresses
<1>3. Type(l) = (IF l.arg = "" THEN "none" ELSE "$")
  BY <1>1 DEF Type
<1>4. ~Invalid(l)
  BY <1>1, <1>3, PositiveAddress DEF Invalid
<1>5. Marked(l, pc) = address
  BY <1>1, <1>3 DEF Marked, Number
<1>6. Break(l, pc)
  BY <1>4 DEF Command, AtPc, Elsewhere, Set, PrintValue, SaveFlags, LoadFlags, SaveState,
              LoadState
<1>7. address \in Addresses
  BY <1>1, <1>2
<1> QED
  BY <1>5, <1>6, <1>7 DEF Break

\* set, of a place and with a value.
LEMMA DocumentedSet ==
  ASSUME NEW l \in Working, NEW pc, l.verb = "set", Command(l, pc)
  PROVE  /\ V' = IF l.arg = "V" THEN [V EXCEPT ![l.n] = l.value % ByteSize] ELSE V
         /\ I' = IF l.arg = "I" THEN l.value % WordSize ELSE I
         /\ CASE l.arg = "$" -> mem' = [mem EXCEPT ![l.n] = l.value % ByteSize]
              [] l.arg \in Fonts -> mem' \in WithFont(l.arg)
              [] OTHER -> mem' = mem
         /\ R' = IF l.arg = "R" THEN [R EXCEPT ![l.n] = l.value % ByteSize] ELSE R
         /\ UNCHANGED <<memoryQuirk, status, debugVars>>
<1>1. /\ l.given
      /\ \/ l.arg \in {"I", "field"} \cup Fonts
         \/ l.arg = "V" /\ l.n \in Regs
         \/ l.arg = "R" /\ l.n \in Flags
         \/ l.arg = "$" /\ l.n \in Addresses \ {0}
  BY WorkingCases DEF Files
<1>2. l.arg \in {"I", "field", "V", "R", "$"} \cup Fonts
  BY <1>1
<1>3. Type(l) = l.arg
  BY <1>1, <1>2 DEF Type, Fonts
<1>4. NewValue(l) = l.value
  BY <1>1, <1>2 DEF NewValue, Fonts
<1>5. l.arg \in {"V", "R", "$"} => Number(l) = l.n
  BY <1>3 DEF Number
<1>6. ~Invalid(l)
  BY <1>1, <1>2, PositiveAddress DEF Invalid, Fonts
<1>7. Set(l)
  BY <1>6 DEF Command, AtPc, Elsewhere, Break, PrintValue, SaveFlags, LoadFlags,
              SaveState, LoadState
<1>8. CASE l.arg = "I"
  BY <1>3, <1>4, <1>7, <1>8 DEF Set, Fonts
<1>9. CASE l.arg = "V"
  BY <1>1, <1>3, <1>4, <1>5, <1>7, <1>9 DEF Set, Fonts
<1>10. CASE l.arg = "R"
  BY <1>1, <1>3, <1>4, <1>5, <1>7, <1>10 DEF Set, Fonts
<1>11. CASE l.arg = "$"
  BY <1>1, <1>3, <1>4, <1>5, <1>7, <1>11 DEF Set, Fonts
<1>12. CASE l.arg = "field"
  BY <1>3, <1>7, <1>12 DEF Set, Idle, vars, Fonts
<1>13. CASE l.arg \in Fonts
  <2>1. IsString(l)
    BY <1>1, <1>7, <1>13 DEF IsString, Set, Files
  <2> QED
    BY <1>3, <1>7, <1>13, <2>1 DEF Set, Fonts
<1> QED
  BY <1>2, <1>8, <1>9, <1>10, <1>11, <1>12, <1>13 DEF Fonts

\* print finds its place in the machine.
LEMMA DocumentedPrint ==
  ASSUME NEW l \in Working, NEW pc \in AtInstruction, l.verb = "print", Command(l, pc)
  PROVE  Idle
<1>1. \/ l.arg \in {"", "I", "field", "stack"} \cup Fonts
      \/ l.arg = "V" /\ l.n \in Regs \cup {-1}
      \/ l.arg = "R" /\ l.n \in Flags \cup {-1}
      \/ l.arg = "$" /\ l.n \in Addresses \ {0}
  BY WorkingCases DEF Files
<1>2. l.arg \in {"", "I", "field", "stack", "V", "R", "$"} \cup Fonts
  BY <1>1
<1>3. Type(l) = IF l.arg = "" THEN "none" ELSE l.arg
  BY <1>2 DEF Type, Fonts
<1>4. l.arg \in {"V", "R", "$"} => Number(l) = l.n
  BY <1>3 DEF Number
<1>5. PrintValue(l, pc) \/ Idle
  BY DEF Command, AtPc, Elsewhere, Break, Set, SaveFlags, LoadFlags, SaveState, LoadState
<1> QED
  BY <1>1, <1>2, <1>3, <1>4, <1>5 DEF PrintValue, AtInstruction, Fonts

\* The lines with a file, but load; and continue.
LEMMA DocumentedFile ==
  ASSUME NEW l \in Working, NEW pc, l.verb \in (Files \ {"load"}) \cup {"continue"},
         Command(l, pc)
  PROVE  /\ UNCHANGED <<V, I, mem, memoryQuirk, status, breakpoints>>
         /\ l.verb # "loadflags" => R' = R
         /\ l.verb # "save" => stateFile' = stateFile
         /\ stateFile' = stateFile \/ stateFile'.machine = Machine
<1>1. l.verb \in Files => l.arg = "text"
  BY WorkingCases DEF Files
<1>2. l.verb \in Files => IsString(l)
  BY <1>1 DEF IsString
<1>3. Idle \/ SaveFlags(l) \/ LoadFlags(l) \/ SaveState(l)
  BY DEF Command, AtPc, Elsewhere, Break, Set, PrintValue, LoadState, Files
<1>4. CASE Idle
  BY <1>4 DEF Idle, vars, debugVars
<1>5. CASE SaveFlags(l)
  BY <1>2, <1>5 DEF SaveFlags, Files, Idle, vars, debugVars
<1>6. CASE LoadFlags(l)
  BY <1>2, <1>6 DEF LoadFlags, Files, debugVars
<1>7. CASE SaveState(l)
  BY <1>2, <1>4, <1>7 DEF SaveState, Files, vars
<1> QED
  BY <1>3, <1>4, <1>5, <1>6, <1>7

\* load of a whole file.
LEMMA DocumentedLoad ==
  ASSUME DebuggerInv, NEW l \in Working, NEW pc, l.verb = "load", Command(l, pc)
  PROVE  /\ UNCHANGED <<status, stateFile>>
         /\ stateFile.size = Whole => Machine' \in {Machine, stateFile.machine}
<1> DEFINE m == stateFile.machine
<1>1. IsString(l)
  BY WorkingCases DEF IsString, Files
<1>2. Idle \/ ReadState(m, stateFile.size)
  BY <1>1 DEF Command, AtPc, Elsewhere, Break, Set, PrintValue, SaveFlags, LoadFlags,
              SaveState, LoadState
<1>3. CASE Idle
  BY <1>3 DEF Idle, vars, debugVars, Machine
<1>4. CASE ReadState(m, stateFile.size)
  <2>1. UNCHANGED <<status, stateFile>>
    BY <1>4 DEF ReadState
  <2>2. ASSUME stateFile.size = Whole PROVE Machine' = m
    <3>1. TypeOK /\ m \in Machines
      BY DEF DebuggerInv, TransferInv, FileInv, HasRun
    <3>2. /\ \A a \in Addresses : 0 + a < Whole /\ AtBreakpoints + a < Whole
          /\ \A f \in Flags : AtR + f < Whole
          /\ \A k \in Regs : AtV + k < Whole
          /\ Whole > AtI + 1 /\ Whole > AtFlags
      BY Constants DEF Whole, AtBreakpoints, AtFlags, AtI, AtV, AtR, Addresses, Flags, Regs
    <3>3. Part(m.mem, mem, 0, Whole) = m.mem
      BY <3>1, <3>2 DEF Part, TypeOK, Machines
    <3>4. Part(m.R, R, AtR, Whole) = m.R
      BY <3>1, <3>2 DEF Part, TypeOK, Machines
    <3>5. Part(m.V, V, AtV, Whole) = m.V
      BY <3>1, <3>2 DEF Part, TypeOK, Machines
    <3>6. {a \in Addresses : a \in IF AtBreakpoints + a < Whole THEN m.breakpoints
                                                               ELSE breakpoints}
            = m.breakpoints
      BY <3>1, <3>2 DEF Machines
    <3>7. I' = m.I /\ wide' = m.wide
      <4>1. AtI \in Nat /\ Whole \in Nat
        BY Constants DEF Whole, AtBreakpoints, AtFlags, AtI, AtV, AtR
      <4>2. ~(Whole <= AtI) /\ Whole # AtI + 1
        BY <3>2, <4>1
      <4> HIDE DEF m
      <4>3. \/ Whole <= AtI
            \/ Whole = AtI + 1
            \/ I' = m.I /\ wide' = m.wide
        BY <1>4, <2>2 DEF ReadState
      <4> QED
        BY <4>2, <4>3
    <3>8. /\ mem' = m.mem /\ R' = m.R /\ V' = m.V /\ breakpoints' = m.breakpoints
          /\ memoryQuirk' = m.memoryQuirk
      BY <1>4, <2>2, <3>2, <3>3, <3>4, <3>5, <3>6 DEF ReadState
    <3> QED
      BY <3>1, <3>7, <3>8 DEF Machine, Machines
  <2> QED
    BY <2>1, <2>2
<1> QED
  BY <1>2, <1>3, <1>4

\* A documented line that is not one of the failing ones does what it says.
LEMMA AskedOfDocumented ==
  ASSUME DebuggerInv, status = "ok", NEW l \in Working, NEW pc \in AtInstruction,
         Command(l, pc)
  PROVE  Asked(l, pc)
<1>1. CASE l.verb \in {"break", "rmbreak"}
  BY <1>1, DocumentedBreak DEF Asked, vars
<1>2. CASE l.verb = "set"
  BY <1>2, DocumentedSet DEF Asked, debugVars, Fonts
<1>3. CASE l.verb = "print"
  BY <1>3, DocumentedPrint DEF Asked, Idle, vars, debugVars
<1>4. CASE l.verb \in (Files \ {"load"}) \cup {"continue"}
  BY <1>4, DocumentedFile DEF Asked, Files
<1>5. CASE l.verb = "load"
  BY <1>5, DocumentedLoad DEF Asked
<1> QED
  BY <1>1, <1>2, <1>3, <1>4, <1>5, WorkingCases DEF Files

--------------------------------------------------------------------------------
\* No program and no line, however malformed, gives a register, memory or a
\* breakpoint a value that it cannot have.
THEOREM DebuggerInvariant == DebuggerSpec => []DebuggerInv
  BY DebuggerStart, DebuggerStep, PTL DEF DebuggerSpec

\* Under the debugger, I is out of memory only if ADD I, LD I, NNNN or set put it there, or
\* a load of a machine of which that was true, or of a file that ends inside I.
THEOREM IndexStaysUnderDebugger == DebuggerSpec => []OnlyWordsLeaveMemory
<1>1. DebuggerInv => OnlyWordsLeaveMemory
  BY DEF DebuggerInv, TransferInv
<1> QED
  BY <1>1, DebuggerInvariant, PTL

\* loadflags gives back what saveflags wrote.
THEOREM FlagsAlwaysComeBack == DebuggerSpec => []FlagsComeBack
<1>1. DebuggerInv => FlagsComeBack
  <2> SUFFICES ASSUME DebuggerInv, Len(flagsFile) = NumFlags
               PROVE  Read(flagsFile, R) = kept
    BY DEF FlagsComeBack
  <2>1. kept \in [Flags -> Byte] /\ \A f \in Flags : flagsFile[f + 1] = kept[f]
    BY DEF DebuggerInv, FileInv
  <2>2. \A f \in Flags : f < Len(flagsFile)
    BY Constants DEF Flags
  <2>3. Read(flagsFile, R) = [f \in Flags |-> kept[f]]
    BY <2>1, <2>2 DEF Read
  <2> QED
    BY <2>1, <2>3
<1> QED
  BY <1>1, DebuggerInvariant, PTL

\* The lines of docs/chip8.md do what is said there, and nothing else; load of a whole file
\* gives back all of the machine that save wrote.  Failing names the lines that do not.
THEOREM DocumentedDoTheirWork == DebuggerSpec => DocumentedLinesWork
<1>1. DebuggerInv /\ [DebuggerNext]_allVars =>
        [parity' # parity =>
           \A l \in Working, pc \in AtInstruction :
             Command(l, pc) => Asked(l, pc)]_allVars
  <2> SUFFICES ASSUME DebuggerInv, [DebuggerNext]_allVars, parity' # parity,
                      NEW l \in Working, NEW pc \in AtInstruction, Command(l, pc)
               PROVE  Asked(l, pc)
    OBVIOUS
  <2>ok. status = "ok"
    BY DEF DebuggerNext, allVars
  <2> QED
    BY <2>ok, AskedOfDocumented
<1> QED
  BY <1>1, DebuggerInvariant, PTL DEF DebuggerSpec, DocumentedLinesWork
================================================================================
