-------------------------------- MODULE AluProofs ------------------------------
(***************************************************************************)
(* For every even byte size and every number of registers, ADD and SUB are  *)
(* inverse to each other, flag included.                                    *)
(***************************************************************************)
EXTENDS Alu, TLAPS

\* What % does within one multiple of the byte size.
LEMMA Wrap ==
  ASSUME NEW n \in Int
  PROVE  /\ n \in Byte => n % ByteSize = n
         /\ n - ByteSize \in Byte => n % ByteSize = n - ByteSize
         /\ n + ByteSize \in Byte => n % ByteSize = n + ByteSize
  BY AluAssumption DEF Byte

\* Every sum, difference and double of bytes is a byte again once wrapped, and
\* so is every half.
LEMMA Bytes ==
  ASSUME NEW a \in Byte, NEW b \in Byte
  PROVE  /\ (a + b) % ByteSize \in Byte
         /\ (a - b) % ByteSize \in Byte
         /\ (2 * a) % ByteSize \in Byte
         /\ a \div 2 \in Byte
         /\ a % 2 \in Byte
  BY AluAssumption DEF Byte

\* The top bit of a byte.
LEMMA TopBit ==
  ASSUME NEW a \in Byte
  PROVE  /\ a \div (ByteSize \div 2) \in {0, 1}
         /\ a \div (ByteSize \div 2) = 1 <=> 2 * a >= ByteSize
<1> DEFINE half == ByteSize \div 2
<1>1. half \in Nat \ {0} /\ ByteSize = 2 * half
  BY AluAssumption
<1>2. CASE a < half
  BY <1>1, <1>2 DEF Byte
<1>3. CASE a >= half
  BY <1>1, <1>3 DEF Byte
<1> QED
  BY <1>1, <1>2, <1>3 DEF Byte

\* The flags 0 and 1 are bytes.
LEMMA BitIsByte == {0, 1} \subseteq Byte
  BY AluAssumption DEF Byte

\* A byte and a flag leave a register file of bytes.
LEMMA PutTypes ==
  ASSUME NEW v \in [Regs -> Byte], NEW x \in Regs,
         NEW result \in Byte, NEW flag \in Byte
  PROVE  Put(v, x, result, flag) \in [Regs -> Byte]
  BY DEF Put

\* Every instruction keeps the registers bytes.
LEMMA AluStep == TypeOK /\ [Next]_vars => TypeOK'
<1> SUFFICES ASSUME TypeOK, [Next]_vars PROVE TypeOK'
  OBVIOUS
<1> USE DEF TypeOK
<1>1. 0 \in Byte /\ 1 \in Byte /\ VF \in Regs
  BY AluAssumption, BitIsByte DEF VF, Regs
<1>2. ASSUME NEW v \in [Regs -> Byte], Becomes(v) PROVE TypeOK'
  BY <1>2 DEF Becomes
<1>3. ASSUME NEW x \in Regs, NEW b \in Byte, LdVx(x, b) \/ AddVxKk(x, b)
      PROVE  TypeOK'
  <2>1. (V[x] + b) % ByteSize \in Byte
    BY Bytes
  <2> QED
    BY <1>2, <1>3, <2>1 DEF LdVx, AddVxKk
<1>4. ASSUME NEW x \in Regs, NEW b \in Byte, Logic(x, b) PROVE TypeOK'
  BY <1>1, <1>2, <1>4, PutTypes DEF Logic
<1>5. ASSUME NEW x \in Regs, NEW y \in Regs, Arithmetic(x, y) PROVE TypeOK'
  <2>1. Shifted(x, y) \in Regs
    BY DEF Shifted
  <2>2. Add(V, x, y) \in [Regs -> Byte]
    BY <1>1, Bytes, PutTypes DEF Add
  <2>3. Sub(V, x, y) \in [Regs -> Byte]
    BY <1>1, Bytes, PutTypes DEF Sub
  <2>4. Subn(V, x, y) \in [Regs -> Byte]
    BY <1>1, Bytes, PutTypes DEF Subn
  <2>5. Shr(V, x, Shifted(x, y)) \in [Regs -> Byte]
    BY <2>1, Bytes, PutTypes DEF Shr
  <2>6. Shl(V, x, Shifted(x, y)) \in [Regs -> Byte]
    <3> DEFINE a == V[Shifted(x, y)]
    <3>1. a \in Byte
      BY <2>1
    <3>2. (2 * a) % ByteSize \in Byte /\ a \div (ByteSize \div 2) \in Byte
      BY <3>1, <1>1, Bytes, TopBit
    <3> QED
      BY <3>2, PutTypes DEF Shl
  <2> QED
    BY <1>2, <1>5, <2>2, <2>3, <2>4, <2>5, <2>6 DEF Arithmetic
<1>6. ASSUME NEW vf \in {0, 1}, Collide(vf) PROVE TypeOK'
  BY <1>1, <1>2, <1>6 DEF Collide
<1>7. CASE UNCHANGED vars
  BY <1>7 DEF vars
<1> QED
  BY <1>3, <1>4, <1>5, <1>6, <1>7 DEF Next

\* The registers start as bytes.
LEMMA AluInit == Init => TypeOK
  BY BitIsByte DEF Init, TypeOK

\* The registers stay bytes.
THEOREM AluTypeCorrect == Spec => []TypeOK
  BY AluInit, AluStep, PTL DEF Spec

\* SUB takes back what ADD did and borrows exactly when ADD carried.
THEOREM SubInvertsAdd == Spec => []SubUndoesAdd
<1>1. TypeOK => SubUndoesAdd
  <2> SUFFICES ASSUME TypeOK, NEW x \in Regs, NEW y \in Regs \ {VF}, x \notin {y, VF}
               PROVE  LET sum  == Add(V, x, y)
                          back == Sub(sum, x, y)
                      IN  back[x] = V[x] /\ back[VF] = 1 - sum[VF]
    BY DEF SubUndoesAdd
  <2> DEFINE sum  == Add(V, x, y)
             back == Sub(sum, x, y)
             a    == V[x]
             b    == V[y]
             s    == (a + b) % ByteSize
  <2>1. a \in Byte /\ b \in Byte /\ s \in Byte /\ VF \in Regs
    <3>1. a \in Byte /\ b \in Byte
      BY DEF TypeOK
    <3>2. VF \in Regs
      BY AluAssumption DEF VF, Regs
    <3>3. s \in Byte
      BY <3>1, Bytes
    <3> QED
      BY <3>1, <3>2, <3>3
  <2>2. /\ sum[x] = s /\ sum[y] = b
        /\ sum[VF] = IF a + b > ByteSize - 1 THEN 1 ELSE 0
    BY <2>1 DEF Add, Put, TypeOK
  <2>3. sum \in [Regs -> Byte]
    BY <2>1, BitIsByte, PutTypes DEF Add, TypeOK
  <2>4. /\ back[x] = (s - b) % ByteSize
        /\ back[VF] = IF (s - b) % ByteSize <= s THEN 1 ELSE 0
    BY <2>1, <2>2, <2>3 DEF Sub, Put
  <2>5. CASE a + b > ByteSize - 1
    <3>1. s = a + b - ByteSize /\ (s - b) % ByteSize = a
      BY <2>1, <2>5, Wrap, AluAssumption DEF Byte
    <3> QED
      BY <2>1, <2>2, <2>4, <2>5, <3>1, AluAssumption DEF Byte
  <2>6. CASE ~(a + b > ByteSize - 1)
    <3>1. s = a + b /\ (s - b) % ByteSize = a
      BY <2>1, <2>6, Wrap, AluAssumption DEF Byte
    <3> QED
      BY <2>1, <2>2, <2>4, <2>6, <3>1 DEF Byte
  <2> QED
    BY <2>5, <2>6
<1> QED
  BY <1>1, AluInit, AluStep, PTL DEF Spec

\* The carry of a sum of two bytes is what the sum has beyond a byte.
LEMMA Carry ==
  ASSUME NEW n \in Nat, n < 2 * ByteSize
  PROVE  n \div ByteSize = IF n > ByteSize - 1 THEN 1 ELSE 0
<1>1. CASE n > ByteSize - 1
  BY <1>1, AluAssumption
<1>2. CASE ~(n > ByteSize - 1)
  BY <1>2, AluAssumption
<1> QED
  BY <1>1, <1>2

\* A register named both as the result and as the flag ends up as the flag.
LEMMA PutFlag ==
  ASSUME NEW v \in [Regs -> Byte], NEW x \in Regs, NEW result, NEW flag
  PROVE  Put(v, x, result, flag)[VF] = flag
<1>1. VF \in Regs
  BY AluAssumption DEF VF, Regs
<1> QED
  BY <1>1 DEF Put

\* With x = F, VF tells carry, borrow or the bit shifted out.
THEOREM FlagWins == Spec => []FlagOverResult
<1>1. TypeOK => FlagOverResult
  <2> SUFFICES ASSUME TypeOK, NEW y \in Regs
               PROVE  /\ Add(V, VF, y)[VF] = (V[VF] + V[y]) \div ByteSize
                      /\ Sub(V, VF, y)[VF] = 1 <=> V[VF] >= V[y]
                      /\ Shr(V, VF, y)[VF] = V[y] % 2
                      /\ Shl(V, VF, y)[VF] = (2 * V[y]) \div ByteSize
    BY DEF FlagOverResult
  <2> DEFINE f == V[VF]
             b == V[y]
  <2>1. VF \in Regs /\ V \in [Regs -> Byte]
    BY AluAssumption DEF VF, Regs, TypeOK
  <2>2. f \in Byte /\ b \in Byte
    BY <2>1
  <2>3. Add(V, VF, y)[VF] = (f + b) \div ByteSize
    <3>1. f + b \in Nat /\ f + b < 2 * ByteSize
      BY <2>2, AluAssumption DEF Byte
    <3> QED
      BY <2>1, <3>1, Carry, PutFlag DEF Add
  <2>4. Sub(V, VF, y)[VF] = 1 <=> f >= b
    <3>1. (f - b) % ByteSize <= f <=> f >= b
      <4>1. CASE f >= b
        BY <2>2, <4>1, Wrap, AluAssumption DEF Byte
      <4>2. CASE ~(f >= b)
        BY <2>2, <4>2, Wrap, AluAssumption DEF Byte
      <4> QED
        BY <4>1, <4>2
    <3>2. Sub(V, VF, y)[VF] = IF (f - b) % ByteSize <= f THEN 1 ELSE 0
      BY <2>1, PutFlag DEF Sub
    <3> QED
      BY <3>1, <3>2
  <2>5. Shr(V, VF, y)[VF] = b % 2
    BY <2>1, PutFlag DEF Shr
  <2>6. Shl(V, VF, y)[VF] = (2 * b) \div ByteSize
    <3>1. 2 * b \in Nat /\ 2 * b < 2 * ByteSize
      BY <2>2, AluAssumption DEF Byte
    <3>2. (2 * b) \div ByteSize = b \div (ByteSize \div 2)
      <4>1. (2 * b) \div ByteSize = IF 2 * b > ByteSize - 1 THEN 1 ELSE 0
        BY <3>1, Carry
      <4>2. /\ b \div (ByteSize \div 2) \in {0, 1}
            /\ b \div (ByteSize \div 2) = 1 <=> 2 * b >= ByteSize
        BY <2>2, TopBit
      <4>3. 2 * b > ByteSize - 1 <=> 2 * b >= ByteSize
        BY <3>1, AluAssumption
      <4> QED
        BY <4>1, <4>2, <4>3
    <3> QED
      BY <2>1, <3>2, PutFlag DEF Shl
  <2> QED
    BY <2>3, <2>4, <2>5, <2>6
<1> QED
  BY <1>1, AluTypeCorrect, PTL

\* SHL splits twice a byte into VF and Vx, and SHR finds nothing below.
THEOREM ShiftsInvert == Spec => []ShiftsLoseNothing
<1>1. TypeOK => ShiftsLoseNothing
  <2> SUFFICES ASSUME TypeOK, NEW x \in Regs \ {VF}, NEW s \in Regs
               PROVE  LET left  == Shl(V, x, s)
                          right == Shr(left, x, x)
                      IN  /\ right[x] + left[VF] * (ByteSize \div 2) = V[s]
                          /\ right[VF] = 0
    BY DEF ShiftsLoseNothing
  <2> DEFINE half  == ByteSize \div 2
             b     == V[s]
             low   == (2 * b) % ByteSize
             top   == b \div half
             left  == Shl(V, x, s)
             right == Shr(left, x, x)
  <2>1. VF \in Regs /\ b \in Byte /\ half \in Nat \ {0} /\ ByteSize = 2 * half
    BY AluAssumption DEF VF, Regs, TypeOK
  <2>2. left[x] = low /\ left[VF] = top /\ left \in [Regs -> Byte]
    <3>1. low \in Byte /\ top \in Byte
      BY <2>1, Bytes, TopBit, BitIsByte
    <3>2. left \in [Regs -> Byte]
      BY <3>1, PutTypes DEF Shl, TypeOK
    <3> QED
      BY <2>1, <3>2 DEF Shl, Put, TypeOK
  <2>3. right[x] = low \div 2 /\ right[VF] = low % 2
    BY <2>1, <2>2 DEF Shr, Put
  <2>4. CASE b < half
    <3>1. top = 0 /\ low = 2 * b
      <4>1. 2 * b \in Byte /\ 2 * b \in Int
        BY <2>1, <2>4 DEF Byte
      <4> QED
        BY <2>1, <2>4, <4>1, Wrap, TopBit DEF Byte
    <3> QED
      BY <2>1, <2>2, <2>3, <3>1 DEF Byte
  <2>5. CASE ~(b < half)
    <3>1. top = 1 /\ low = 2 * b - ByteSize
      <4>1. 2 * b - ByteSize \in Byte /\ 2 * b \in Int
        BY <2>1, <2>5 DEF Byte
      <4> QED
        BY <2>1, <2>5, <4>1, Wrap, TopBit DEF Byte
    <3>2. low = 2 * (b - half) /\ b - half \in Nat
      BY <2>1, <2>5, <3>1 DEF Byte
    <3>3. low \div 2 = b - half /\ low % 2 = 0
      BY <2>1, <3>2
    <3>4. b - half + top * half = b
      BY <2>1, <3>1 DEF Byte
    <3> QED
      BY <2>1, <2>2, <2>3, <3>3, <3>4
  <2> QED
    BY <2>1, <2>4, <2>5
<1> QED
  BY <1>1, AluTypeCorrect, PTL
================================================================================
