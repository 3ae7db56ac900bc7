---------------------------------- MODULE Alu ----------------------------------
(***************************************************************************)
(* The arithmetic of src/c8/private/instruction.c on the V registers and    *)
(* the flag register VF, which any instruction may also name as an operand. *)
(* An instruction is a function from V to V, and each action applies one.   *)
(***************************************************************************)
EXTENDS Integers

CONSTANTS ByteSize,  \* 2^8
          NumRegs    \* 16; VF is the last one

ASSUME AluAssumption == /\ ByteSize \in Nat \ {0} /\ ByteSize % 2 = 0
                        /\ NumRegs \in Nat \ {0}

VARIABLES V,         \* the registers
          vfReset,   \* C8_FLAG_QUIRK_VF_RESET
          shifting   \* C8_FLAG_QUIRK_SHIFTING

vars == <<V, vfReset, shifting>>

Byte == 0..ByteSize - 1
Regs == 0..NumRegs - 1
VF   == NumRegs - 1

Init == /\ V = [r \in Regs |-> 0]
        /\ vfReset \in BOOLEAN
        /\ shifting \in BOOLEAN

--------------------------------------------------------------------------------
\* Mutant of Put: the flag is written first, and lost when x is F.
PutFlagFirst(v, x, result, flag) == [v EXCEPT ![VF] = flag, ![x] = result]

\* The result to Vx, as a byte, and then the flag to VF: when x is F the flag
\* stays.
Put(v, x, result, flag) == [v EXCEPT ![x] = result, ![VF] = flag]

Add(v, x, y) == Put(v, x, (v[x] + v[y]) % ByteSize,
                    IF v[x] + v[y] > ByteSize - 1 THEN 1 ELSE 0)

\* Mutant of Sub: the borrow in VF.
SubBorrow(v, x, y) == Put(v, x, (v[x] - v[y]) % ByteSize, IF v[x] < v[y] THEN 1 ELSE 0)

\* No borrow if the wrapped result is at most Vx.
Sub(v, x, y) ==
  LET result == (v[x] - v[y]) % ByteSize
  IN  Put(v, x, result, IF result <= v[x] THEN 1 ELSE 0)

Subn(v, x, y) == Put(v, x, (v[y] - v[x]) % ByteSize, IF v[x] < v[y] THEN 1 ELSE 0)

\* The register a shift reads: Vy, or Vx itself under the quirk.
Shifted(x, y) == IF shifting THEN x ELSE y

\* Mutant of Shr: the flag is taken from the result.
ShrFlagOfResult(v, x, s) == Put(v, x, v[s] \div 2, (v[s] \div 2) % 2)

Shr(v, x, s) == Put(v, x, v[s] \div 2, v[s] % 2)
Shl(v, x, s) == Put(v, x, (2 * v[s]) % ByteSize, v[s] \div (ByteSize \div 2))

--------------------------------------------------------------------------------
\* V becomes v.
Becomes(v) == V' = v /\ UNCHANGED <<vfReset, shifting>>

\* LD Vx, kk; also LD Vx, Vy, RND, LD Vx, DT and the loads, for any byte.
LdVx(x, kk) == Becomes([V EXCEPT ![x] = kk])

\* ADD Vx, kk: no flag.
AddVxKk(x, kk) == Becomes([V EXCEPT ![x] = (@ + kk) % ByteSize])

\* OR, AND and XOR: some byte to Vx, and then VF is cleared under the quirk.
Logic(x, result) == Becomes(IF vfReset THEN Put(V, x, result, 0)
                                       ELSE [V EXCEPT ![x] = result])

\* DRW: VF says whether a pixel was turned off.
Collide(vf) == Becomes([V EXCEPT ![VF] = vf])

Arithmetic(x, y) ==
  \/ Becomes(Add(V, x, y)) \/ Becomes(Sub(V, x, y)) \/ Becomes(Subn(V, x, y))
  \/ Becomes(Shr(V, x, Shifted(x, y))) \/ Becomes(Shl(V, x, Shifted(x, y)))

Next == \/ \E x \in Regs, b \in Byte : LdVx(x, b) \/ AddVxKk(x, b) \/ Logic(x, b)
        \/ \E x, y \in Regs : Arithmetic(x, y)
        \/ \E vf \in {0, 1} : Collide(vf)

Spec == Init /\ [][Next]_vars

--------------------------------------------------------------------------------
TypeOK == /\ V \in [Regs -> Byte]
          /\ vfReset \in BOOLEAN /\ shifting \in BOOLEAN

\* SUB takes back what ADD did, and borrows exactly when ADD carried.  VF may be
\* Vy: SUB then reads the carry where ADD read a byte, so it is left out here.
SubUndoesAdd ==
  \A x \in Regs, y \in Regs \ {VF} : x \notin {y, VF} =>
    LET sum  == Add(V, x, y)
        back == Sub(sum, x, y)
    IN  back[x] = V[x] /\ back[VF] = 1 - sum[VF]

\* SHL then SHR: the two halves, VF and Vx, are those of twice Vy; shifting the
\* low half back and adding the carry at the top gives Vy.
ShiftsLoseNothing ==
  \A x \in Regs \ {VF}, s \in Regs :
    LET left  == Shl(V, x, s)
        right == Shr(left, x, x)
    IN  right[x] + left[VF] * (ByteSize \div 2) = V[s] /\ right[VF] = 0

\* Where the result and the flag meet in VF, the flag wins: after any of these
\* instructions with x = F, VF tells carry, borrow or the bit shifted out.
FlagOverResult ==
  \A y \in Regs :
    /\ Add(V, VF, y)[VF] = (V[VF] + V[y]) \div ByteSize
    /\ Sub(V, VF, y)[VF] = 1 <=> V[VF] >= V[y]
    /\ Shr(V, VF, y)[VF] = V[y] % 2
    /\ Shl(V, VF, y)[VF] = (2 * V[y]) \div ByteSize
================================================================================
