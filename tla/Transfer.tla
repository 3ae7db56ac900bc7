-------------------------------- MODULE Transfer -------------------------------
(***************************************************************************)
(* The instructions of src/c8/private/instruction.c that move data between  *)
(* the V registers, the flag registers R and memory through I.  Nothing     *)
(* bounds I, and nothing compares x with the size of R.                     *)
(***************************************************************************)
EXTENDS Naturals

CONSTANTS
  ByteSize,       \* 2^8
  WordSize,       \* 2^16
  MemSize,        \* C8_MEMSIZE; also the mask 0xFFF of the memory quirk
  NumRegs,        \* 16
  NumFlags,       \* 8, the size of R
  Digits,         \* 16 characters in a font
  SmallChar,      \* 5 bytes each
  BigChar,        \* 10 bytes each
  HighFontStart   \* C8_HIGH_FONT_START; C8_FONT_START is 0

ASSUME TransferAssumption ==
  /\ {ByteSize, WordSize, MemSize, NumRegs, NumFlags, Digits, SmallChar, BigChar,
      HighFontStart} \subseteq Nat \ {0}
  /\ MemSize <= WordSize
  /\ Digits * SmallChar <= MemSize
  /\ HighFontStart + (ByteSize - 1) * BigChar < MemSize

VARIABLES
  V, R, I, mem,
  memoryQuirk,  \* C8_FLAG_QUIRK_MEMORY
  status,       \* "ok", or "undefined" after an access outside mem[] or R[]
  wide         \* history: I was last set by ADD I or LD I, NNNN, or moved from there;
               \* under the debugger also by set, or loaded where it was

vars == <<V, R, I, mem, memoryQuirk, status, wide>>

Byte      == 0..ByteSize - 1
Regs      == 0..NumRegs - 1
Flags     == 0..NumFlags - 1
Addresses == 0..MemSize - 1
Words     == 0..WordSize - 1

Init == /\ V = [r \in Regs |-> 0]
        /\ R = [f \in Flags |-> 0]
        /\ I = 0
        /\ mem = [a \in Addresses |-> 0]
        /\ memoryQuirk \in BOOLEAN
        /\ status = "ok"
        /\ wide = FALSE

--------------------------------------------------------------------------------
\* Mutant of Loaded: the loop stops before Vx.
LoadedBelow(m, v, i, x) == [r \in Regs |-> IF r < x THEN m[i + r] ELSE v[r]]

\* mem after V0..Vx are stored at i, and V after they are loaded from there.
Stored(m, v, i, x) == [a \in Addresses |-> IF a \in i..i + x THEN v[a - i] ELSE m[a]]
Loaded(m, v, i, x) == [r \in Regs |-> IF r <= x THEN m[i + r] ELSE v[r]]

\* Mutants of Moved: past x bytes instead of x + 1; without the mask.
MovedByX(i, x)      == IF memoryQuirk THEN (i + x) % MemSize ELSE i
MovedUnmasked(i, x) == IF memoryQuirk THEN i + x + 1 ELSE i

\* I after a store or load of V0..Vx, masked by the quirk and only by it.
Moved(i, x) == IF memoryQuirk THEN (i + x + 1) % MemSize ELSE i

Undefined == status' = "undefined" /\ UNCHANGED <<V, R, I, mem, wide>>

\* LD Vx, kk and every other instruction that gives Vx a byte.
LdVx(x, kk) == V' = [V EXCEPT ![x] = kk] /\ UNCHANGED <<R, I, mem, status, wide>>

\* I is set to an address by LD I, nnn; to a character by LD F and LD HF.
SetI(i) == I' = i /\ wide' = FALSE /\ UNCHANGED <<V, R, mem, status>>
LdI(nnn) == SetI(nnn)
LdF(x)   == SetI((V[x] % Digits) * SmallChar)
LdHf(x)  == SetI(HighFontStart + V[x] * BigChar)

\* LD I, NNNN of XO-CHIP: any word, unmasked.
LdIWord(nnnn) == I' = nnnn /\ wide' = TRUE /\ UNCHANGED <<V, R, mem, status>>

\* ADD I, Vx wraps at 16 bits only.
AddI(x) == /\ I' = (I + V[x]) % WordSize
           /\ wide' = TRUE
           /\ UNCHANGED <<V, R, mem, status>>

LdIpVx(x) == IF I + x \in Addresses
             THEN /\ mem' = Stored(mem, V, I, x)
                  /\ I' = Moved(I, x)
                  /\ UNCHANGED <<V, R, status, wide>>
             ELSE Undefined

LdVxIp(x) == IF I + x \in Addresses
             THEN /\ V' = Loaded(mem, V, I, x)
                  /\ I' = Moved(I, x)
                  /\ UNCHANGED <<R, mem, status, wide>>
             ELSE Undefined

\* LD B: three decimal digits.
LdB(x) == IF I + 2 \in Addresses
          THEN /\ mem' = [mem EXCEPT ![I]     = (V[x] \div 100) % 10,
                                     ![I + 1] = (V[x] \div 10) % 10,
                                     ![I + 2] = V[x] % 10]
               /\ UNCHANGED <<V, R, I, status, wide>>
          ELSE Undefined

\* R and V after x registers were copied: V0 up to, but without, Vx.
Saved(r, v, x)    == [f \in Flags |-> IF f < x THEN v[f] ELSE r[f]]
Restored(r, v, x) == [k \in Regs |-> IF k < x THEN r[k] ELSE v[k]]

LdRVx(x) == IF x <= NumFlags
            THEN R' = Saved(R, V, x) /\ UNCHANGED <<V, I, mem, status, wide>>
            ELSE Undefined

LdVxR(x) == IF x <= NumFlags
            THEN V' = Restored(R, V, x) /\ UNCHANGED <<R, I, mem, status, wide>>
            ELSE Undefined

Next == /\ status = "ok"
        /\ UNCHANGED memoryQuirk
        /\ \/ \E nnn \in Addresses : LdI(nnn)
           \/ \E nnnn \in Words : LdIWord(nnnn)
           \/ \E x \in Regs :
             \/ \E kk \in Byte : LdVx(x, kk)
             \/ LdF(x) \/ LdHf(x) \/ AddI(x) \/ LdIpVx(x) \/ LdVxIp(x) \/ LdB(x)
             \/ LdRVx(x) \/ LdVxR(x)

Spec == Init /\ [][Next]_vars

--------------------------------------------------------------------------------
TypeOK == /\ V \in [Regs -> Byte] /\ R \in [Flags -> Byte]
          /\ I \in Words
          /\ mem \in [Addresses -> Byte]
          /\ memoryQuirk \in BOOLEAN /\ wide \in BOOLEAN
          /\ status \in {"ok", "undefined"}

\* I leaves memory only by an instruction that gives it a whole word, ADD I or
\* LD I, NNNN: wherever the memory quirk, LD F and LD HF move it from an address,
\* it is an address.  Under the debugger set takes it out as well, and the load of a
\* file where it was out or that ends inside it: nothing validates a loaded I.
OnlyWordsLeaveMemory == I \in Addresses \/ wide

\* What LD [I], Vx stores LD Vx, [I] loads back, whatever V and mem hold.
LoadUndoesStore ==
  \A x \in Regs, v \in [Regs -> Byte] : I + x \in Addresses =>
    Loaded(Stored(mem, V, I, x), v, I, x) = [r \in Regs |-> IF r <= x THEN V[r] ELSE v[r]]

\* Two stores in a row under the memory quirk follow each other in memory: the
\* second neither overlaps the first nor leaves a gap.
StoresAreAdjacent ==
  \A x, y \in Regs :
    LET next == Moved(I, x)
        both == Stored(Stored(mem, V, I, x), V, next, y)
    IN  memoryQuirk /\ I + x + 1 + y \in Addresses =>
          \A r \in 0..x + y + 1 : both[I + r] = IF r <= x THEN V[r] ELSE V[r - x - 1]
================================================================================
