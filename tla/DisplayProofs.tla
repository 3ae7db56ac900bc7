------------------------------ MODULE DisplayProofs -----------------------------
(***************************************************************************)
(* For displays, sprites and coordinates of any size: what the display      *)
(* instructions may touch, what VF tells, and where clipped sprites, scrolls *)
(* and wrapped sprites end up.                                              *)
(***************************************************************************)
EXTENDS Display, TLAPS, FiniteSetTheorems

--------------------------------------------------------------------------------
\* Rows and columns of an array.

\* A remainder is smaller than the divisor, and a small number its own.
LEMMA Remainder ==
  ASSUME NEW w \in Nat \ {0}, NEW n \in Nat
  PROVE  n % w \in 0..w - 1 /\ (n < w => n % w = n)
  OBVIOUS

\* A product of two numbers is at least as large as either.
LEMMA Multiple ==
  ASSUME NEW w \in Nat \ {0}, NEW k \in Int
  PROVE  /\ k >= 1 => w * k >= w
         /\ k <= -1 => w * k <= -w
  OBVIOUS

\* A number has one quotient and one remainder.
LEMMA OneQuotient ==
  ASSUME NEW w \in Nat \ {0}, NEW p \in Int, NEW q \in Int,
         NEW r \in 0..w - 1, NEW s \in 0..w - 1, p * w + r = q * w + s
  PROVE  p = q /\ r = s
<1>1. w * (p - q) = s - r
  OBVIOUS
<1>2. s - r < w /\ s - r > -w
  OBVIOUS
<1>3. ~(p - q >= 1) /\ ~(p - q <= -1)
  BY <1>1, <1>2, Multiple
<1>4. p = q
  BY <1>3
<1> QED
  BY <1>1, <1>4

\* The index of row y and column x splits into them again.
LEMMA Splits ==
  ASSUME NEW w \in Nat \ {0}, NEW y \in Nat, NEW x \in 0..w - 1
  PROVE  (y * w + x) % w = x /\ (y * w + x) \div w = y
<1> DEFINE n == y * w + x
<1>1. n \in Nat
  OBVIOUS
<1>2. n \div w \in Int /\ n % w \in 0..w - 1 /\ n = (n \div w) * w + (n % w)
  BY <1>1
<1> QED
  BY <1>2, OneQuotient

\* Every index is one of a row and a column.
LEMMA Joins ==
  ASSUME NEW w \in Nat \ {0}, NEW n \in Nat
  PROVE  n \div w \in Nat /\ n % w \in 0..w - 1 /\ n = (n \div w) * w + (n % w)
  OBVIOUS

\* The index of a row and a column inside the display is inside the array.
LEMMA Inside ==
  ASSUME NEW w \in Nat \ {0}, NEW h \in Nat \ {0}, NEW y \in 0..h - 1, NEW x \in 0..w - 1
  PROVE  y * w + x \in 0..w * h - 1
<1>1. w * (h - 1 - y) >= 0
  OBVIOUS
<1>2. y * w + x <= w * h - 1
  BY <1>1
<1> QED
  BY <1>2

--------------------------------------------------------------------------------
\* Either resolution lies in the array and is larger than a sprite.
LEMMA Geometry ==
  ASSUME hires \in BOOLEAN
  PROVE  /\ Width \in Nat \ {0} /\ Height \in Nat \ {0}
         /\ Shown \subseteq Cells
         /\ ~hires => Shown = LowCells
         /\ SpriteWidth \in 1..Width /\ MaxRows \in 1..Height - 1
         /\ hires => BigWidth \in 1..Width /\ BigRows \in 1..Height
<1>1. CASE hires
  BY <1>1, DisplayAssumption DEF Width, Height, Shown, Cells
<1>2. CASE ~hires
  <2>1. LowCells \subseteq Cells
    BY DisplayAssumption DEF LowCells, Cells
  <2> QED
    BY <1>2, <2>1, DisplayAssumption DEF Width, Height, Shown, LowCells
<1> QED
  BY <1>1, <1>2

\* A pixel's address once row and column are reduced, as DRW does.
LEMMA Wrapped ==
  ASSUME hires \in BOOLEAN, NEW x \in Nat, NEW y \in Nat
  PROVE  /\ Cell(x % Width, y % Height) = (y % Height) * Width + (x % Width)
         /\ Cell(x % Width, y % Height) \in Shown
         /\ Column(Cell(x % Width, y % Height)) = x % Width
         /\ Row(Cell(x % Width, y % Height)) = y % Height
<1> DEFINE c == x % Width
           r == y % Height
<1>1. Width \in Nat \ {0} /\ Height \in Nat \ {0}
  BY Geometry
<1>2. c \in 0..Width - 1 /\ r \in 0..Height - 1
  BY <1>1, Remainder
<1> HIDE DEF c, r
<1>3. c % Width = c
  BY <1>1, <1>2, Remainder
<1>4. r * Width + c \in Shown
  BY <1>1, <1>2, Inside DEF Shown
<1>5. (r * Width + c) % Width = c /\ (r * Width + c) \div Width = r
  BY <1>1, <1>2, Splits
<1> QED
  BY <1>3, <1>4, <1>5 DEF Cell, Column, Row, c, r

\* The rows and columns of a sprite are small numbers.
LEMMA BitsAreSmall ==
  ASSUME hires \in BOOLEAN, NEW b \in 0..MaxRows, NEW sprite, NEW d \in Bits(b, sprite)
  PROVE  d[1] \in 0..Height - 1 /\ d[2] \in 0..Width - 1
<1>1. Rows(b) \in 0..Height /\ Columns(b) \in 1..Width
  BY Geometry DEF Rows, Columns
<1> QED
  BY <1>1, Geometry DEF Bits

\* No pixel outside the resolution in use is touched by DRW.
LEMMA SpriteIsShown ==
  ASSUME hires \in BOOLEAN, NEW vx \in Coords, NEW vy \in Coords,
         NEW b \in 0..MaxRows, NEW sprite
  PROVE  Sprite(vx, vy, b, sprite) \subseteq Shown
<1> SUFFICES ASSUME NEW d \in Bits(b, sprite)
             PROVE  Cell((vx + d[2]) % Width, (vy + d[1]) % Height) \in Shown
  BY DEF Sprite
<1>1. d[1] \in Nat /\ d[2] \in Nat
  BY BitsAreSmall, Geometry
<1>2. vx \in Nat /\ vy \in Nat
  BY DisplayAssumption
<1>3. vx + d[2] \in Nat /\ vy + d[1] \in Nat
  BY <1>1, <1>2
<1> QED
  BY <1>3, Wrapped

\* The two ways of scrolling sideways, and whatever comes of the two ways of
\* scrolling up and down, keep to the resolution in use.
LEMMA ScrollsStay ==
  ASSUME NEW d, NEW b
  PROVE  /\ ScrolledRight(d) \ Shown = d \ Shown
         /\ ScrolledLeft(d) \ Shown = d \ Shown
         /\ \A e \in ScrolledDown(d, b) : e \ Shown = d \ Shown
         /\ \A e \in ScrolledUp(d, b) : e \ Shown = d \ Shown
<1>1. ScrolledRight(d) \ Shown = d \ Shown /\ ScrolledLeft(d) \ Shown = d \ Shown
  BY DEF ScrolledRight, ScrolledLeft, Rest
<1>2. \A e \in ScrolledDown(d, b) : e \ Shown = d \ Shown
  BY DEF ScrolledDown, Rest, CopiedDown, RepeatedDown
<1>3. \A e \in ScrolledUp(d, b) : e \ Shown = d \ Shown
  <2>1. RepeatedUp(d, Width * b) \subseteq Shown /\ CopiedUp(d, Width * b) \subseteq Shown
    BY DEF RepeatedUp, CopiedUp
  <2> QED
    BY <2>1 DEF ScrolledUp, Rest
<1> QED
  BY <1>1, <1>2, <1>3

--------------------------------------------------------------------------------
\* Every instruction keeps the flags' types, the mode and the quirk, and either
\* clears p[] or leaves alone what the resolution in use does not show.
LEMMA ShownOnly ==
  TypeOK /\ Next =>
    /\ lit' = {} \/ lit' \ Shown = lit \ Shown
    /\ hires' \in BOOLEAN /\ drawn' \in BOOLEAN /\ vf' \in {0, 1}
    /\ hires' = hires \/ Permitted("high", mode)
    /\ UNCHANGED <<mode, clipping>>
<1> DEFINE Kept == /\ lit' = {} \/ lit' \ Shown = lit \ Shown
                   /\ hires' \in BOOLEAN /\ drawn' \in BOOLEAN /\ vf' \in {0, 1}
                   /\ hires' = hires \/ Permitted("high", mode)
                   /\ UNCHANGED <<mode, clipping>>
<1> SUFFICES ASSUME TypeOK, Next PROVE Kept
  OBVIOUS
<1>1. ASSUME NEW d, d = {} \/ d \ Shown = lit \ Shown, Becomes(d) PROVE Kept
  BY <1>1 DEF Becomes, TypeOK
<1>2. ASSUME NEW vx \in Coords, NEW vy \in Coords, NEW b \in 0..MaxRows,
             NEW s \in Sprites, Drw(vx, vy, b, s)
      PROVE  Kept
  <2>1. Sprite(vx, vy, b, s) \subseteq Shown
    BY SpriteIsShown DEF TypeOK
  <2>2. lit' \ Shown = lit \ Shown
    BY <1>2, <2>1 DEF Drw
  <2> QED
    BY <1>2, <2>2 DEF Drw, TypeOK
<1>3. CASE Cls
  BY <1>1, <1>3 DEF Cls
<1>4. CASE Scr
  BY <1>1, <1>4, ScrollsStay DEF Scr
<1>5. CASE Scl
  BY <1>1, <1>5, ScrollsStay DEF Scl
<1>6. ASSUME NEW b \in 0..MaxRows, Scd(b) PROVE Kept
  BY <1>1, <1>6, ScrollsStay DEF Scd
<1>7. ASSUME NEW b \in 0..MaxRows, Scu(b) PROVE Kept
  BY <1>1, <1>7, ScrollsStay DEF Scu
<1>8. CASE Low
  BY <1>8 DEF Low, Resolution, Permitted, SchipExclusive, XochipExclusive, TypeOK
<1>9. CASE High
  BY <1>9 DEF High, Resolution, TypeOK
<1> QED
  BY <1>2, <1>3, <1>4, <1>5, <1>6, <1>7, <1>8, <1>9 DEF Next

\* p[], the resolution and VF keep their types.
LEMMA TypeStep == TypeOK /\ [Next]_vars => TypeOK'
<1> SUFFICES ASSUME TypeOK, [Next]_vars PROVE TypeOK'
  OBVIOUS
<1>1. CASE Next
  <2>1. lit' \subseteq Cells
    BY <1>1, ShownOnly, Geometry DEF TypeOK
  <2> QED
    BY <1>1, <2>1, ShownOnly DEF TypeOK
<1>2. CASE UNCHANGED vars
  BY <1>2 DEF TypeOK, vars
<1> QED
  BY <1>1, <1>2

\* The display begins dark and low.
LEMMA TypeInit == Init => TypeOK
  BY DEF Init, TypeOK

\* No instruction of any mode lights a byte outside p[].
THEOREM DisplayTypeCorrect == Spec => []TypeOK
  BY TypeInit, TypeStep, PTL DEF Spec

\* In CHIP-8 mode p[] is dark outside 64 x 32 and HIGH is refused.
THEOREM Chip8StaysLow == Spec => []Chip8IsLow
<1>1. Init => Chip8IsLow
  BY DEF Init, Chip8IsLow
<1>2. TypeOK /\ Chip8IsLow /\ [Next]_vars => Chip8IsLow'
  <2> SUFFICES ASSUME TypeOK, Chip8IsLow, Next, mode = Chip8
               PROVE  ~hires' /\ lit' \subseteq LowCells
    BY ShownOnly DEF Chip8IsLow, vars, LowCells
  <2>1. ~Permitted("high", mode)
    BY DEF Permitted, SchipExclusive
  <2>2. ~hires /\ lit \subseteq LowCells /\ Shown = LowCells
    BY Geometry DEF Chip8IsLow, TypeOK
  <2> QED
    BY <2>1, <2>2, ShownOnly
<1> QED
  BY <1>1, <1>2, DisplayTypeCorrect, PTL DEF Spec

\* In LOW only CLS reaches the part of p[] that HIGH alone shows.
THEOREM LowKeepsTheRest == Spec => LowKeepsRest
<1>1. TypeOK /\ Next /\ ~hires /\ lit' # {} => lit' \ LowCells = lit \ LowCells
  BY ShownOnly, Geometry DEF TypeOK
<1>2. TypeOK /\ [Next]_vars => [~hires /\ lit' # {} => lit' \ LowCells = lit \ LowCells]_vars
  BY <1>1
<1> QED
  BY <1>2, DisplayTypeCorrect, PTL DEF Spec, LowKeepsRest

\* VF is 1 exactly if DRW turned off a pixel that was on.
THEOREM CollisionMeansLoss == Spec => CollisionIsLoss
<1>1. Next => (drawn' => (vf' = 1 <=> lit \ lit' # {}))
  <2> SUFFICES ASSUME Next, drawn' PROVE vf' = 1 <=> lit \ lit' # {}
    OBVIOUS
  <2>1. PICK vx \in Coords, vy \in Coords, b \in 0..MaxRows, s \in Sprites :
          Drw(vx, vy, b, s)
    BY DEF Next, Cls, Scr, Scl, Scd, Scu, Becomes, Low, High, Resolution
  <2> DEFINE touched == Sprite(vx, vy, b, s)
  <2>2. /\ lit' = (lit \ touched) \cup (touched \ lit)
        /\ vf' = IF lit \cap touched = {} THEN 0 ELSE 1
    BY <2>1 DEF Drw
  <2> HIDE DEF touched
  <2>3. lit \ lit' = lit \cap touched
    BY <2>2
  <2> QED
    BY <2>2, <2>3
<1>2. [Next]_vars => [drawn' => (vf' = 1 <=> lit \ lit' # {})]_vars
  BY <1>1
<1> QED
  BY <1>2, PTL DEF Spec, CollisionIsLoss

--------------------------------------------------------------------------------
\* A clipped sprite lies right of its origin and below it.
THEOREM ClippedStaysAside == Spec => []SpriteIsClipped
<1>1. TypeOK => SpriteIsClipped
  <2> SUFFICES ASSUME TypeOK, NEW vx \in Coords, NEW vy \in Coords,
                      NEW b \in 0..MaxRows, NEW s \in Sprites,
                      clipping, vx < Width, vy < Height,
                      NEW d \in Bits(b, s), ~Clipped(vx, vy, d[1], d[2])
               PROVE  LET c == Cell((vx + d[2]) % Width, (vy + d[1]) % Height)
                      IN  Column(c) >= vx /\ Row(c) >= vy
    BY DEF SpriteIsClipped, Sprite
  <2>1. vx \in Nat /\ vy \in Nat
    BY DisplayAssumption
  <2>2. d[1] \in Nat /\ d[2] \in Nat /\ Width \in Nat \ {0} /\ Height \in Nat \ {0}
    BY BitsAreSmall, Geometry DEF TypeOK
  <2>3. vx + d[2] \in Nat /\ vy + d[1] \in Nat
    BY <2>1, <2>2
  <2>4. vx + d[2] < Width /\ vy + d[1] < Height
    BY <2>2, <2>3 DEF Clipped
  <2>5. (vx + d[2]) % Width = vx + d[2] /\ (vy + d[1]) % Height = vy + d[1]
    BY <2>2, <2>3, <2>4, Remainder
  <2>6. /\ Column(Cell((vx + d[2]) % Width, (vy + d[1]) % Height)) = vx + d[2]
        /\ Row(Cell((vx + d[2]) % Width, (vy + d[1]) % Height)) = vy + d[1]
    BY <2>3, <2>5, Wrapped DEF TypeOK
  <2> QED
    BY <2>1, <2>2, <2>6
<1> QED
  BY <1>1, DisplayTypeCorrect, PTL

\* Numbers less than w apart that leave the same remainder are equal.
LEMMA SameRemainder ==
  ASSUME NEW w \in Nat \ {0}, NEW n \in Nat, NEW j \in 0..w - 1, NEW k \in 0..w - 1,
         (n + j) % w = (n + k) % w
  PROVE  j = k
<1> DEFINE p == (n + j) \div w
           q == (n + k) \div w
           r == (n + j) % w
<1>0. n + j \in Nat /\ n + k \in Nat
  OBVIOUS
<1>1. /\ p \in Nat /\ q \in Nat /\ r \in 0..w - 1
      /\ n + j = p * w + r /\ n + k = q * w + r
  <2>1. p \in Nat /\ r \in 0..w - 1 /\ n + j = p * w + r
    BY <1>0, Joins
  <2>2. q \in Nat /\ n + k = q * w + ((n + k) % w)
    BY <1>0, Joins
  <2> QED
    BY <2>1, <2>2
<1> HIDE DEF p, q, r
<1>2. w * (p - q) = j - k
  BY <1>1
<1>3. ~(p - q >= 1) /\ ~(p - q <= -1)
  BY <1>1, <1>2, Multiple
<1> QED
  BY <1>1, <1>2, <1>3

\* No two bits of a sprite fall on the same pixel, wherever the sprite wraps: the
\* XOR of a whole sprite is the XOR of its bits in any order, and a bit's own
\* XOR cannot make it collide with another.
THEOREM PixelsDistinct ==
  ASSUME hires \in BOOLEAN, NEW vx \in Coords, NEW vy \in Coords,
         NEW b \in 0..MaxRows, NEW s \in Sprites,
         NEW d \in Bits(b, s), NEW e \in Bits(b, s),
         Cell((vx + d[2]) % Width, (vy + d[1]) % Height)
           = Cell((vx + e[2]) % Width, (vy + e[1]) % Height)
  PROVE  d = e
<1>1. vx \in Nat /\ vy \in Nat
  BY DisplayAssumption
<1>2. /\ d[1] \in 0..Height - 1 /\ d[2] \in 0..Width - 1
      /\ e[1] \in 0..Height - 1 /\ e[2] \in 0..Width - 1
  BY BitsAreSmall
<1>3. Width \in Nat \ {0} /\ Height \in Nat \ {0}
  BY Geometry
<1>4. /\ vx + d[2] \in Nat /\ vy + d[1] \in Nat
      /\ vx + e[2] \in Nat /\ vy + e[1] \in Nat
  <2>1. /\ d[1] \in Nat /\ d[2] \in Nat /\ e[1] \in Nat /\ e[2] \in Nat
    BY <1>2, <1>3
  <2> QED
    BY <1>1, <2>1
<1>5. /\ (vx + d[2]) % Width = (vx + e[2]) % Width
      /\ (vy + d[1]) % Height = (vy + e[1]) % Height
  BY <1>4, Wrapped
<1>6. d[1] = e[1] /\ d[2] = e[2]
  BY <1>1, <1>2, <1>3, <1>5, SameRemainder
<1> QED
  BY <1>6 DEF Bits

\* The set of a sprite's bits is finite.
LEMMA BitsAreFinite ==
  ASSUME hires \in BOOLEAN, NEW b \in 0..MaxRows, NEW sprite
  PROVE  IsFiniteSet(Bits(b, sprite))
<1> DEFINE rows    == 0..Rows(b) - 1
           columns == 0..Columns(b) - 1
<1>1. Rows(b) - 1 \in Int /\ Columns(b) - 1 \in Int
  BY DisplayAssumption DEF Rows, Columns
<1>2. IsFiniteSet(rows) /\ IsFiniteSet(columns)
  <2>1. \A n \in Int : IsFiniteSet(0..n)
    BY FS_Interval
  <2> QED
    BY <1>1, <2>1
<1>3. IsFiniteSet(rows \X columns)
  BY <1>2, FS_Product
<1>4. Bits(b, sprite) \in SUBSET (rows \X columns)
  BY DEF Bits
<1> QED
  BY <1>3, <1>4, FS_Subset

\* Without the clipping quirk no bit of a sprite is lost and no two meet: as many
\* pixels are touched as the sprite has bits, all of them on the display.
THEOREM SpritesStayWhole == Spec => []SpriteIsWhole
<1>1. TypeOK => SpriteIsWhole
  <2> SUFFICES ASSUME TypeOK, NEW vx \in Coords, NEW vy \in Coords,
                      NEW b \in 0..MaxRows, NEW s \in Sprites, ~clipping
               PROVE  /\ Cardinality(Sprite(vx, vy, b, s)) = Cardinality(Bits(b, s))
                      /\ Sprite(vx, vy, b, s) \subseteq Shown
    BY DEF SpriteIsWhole
  <2> DEFINE bits  == Bits(b, s)
             place == [d \in bits |-> Cell((vx + d[2]) % Width, (vy + d[1]) % Height)]
  <2>0. hires \in BOOLEAN
    BY DEF TypeOK
  <2>1. Sprite(vx, vy, b, s) = {place[d] : d \in bits}
    BY DEF Sprite, Clipped
  <2>2. \A d, e \in bits : place[d] = place[e] => d = e
    BY <2>0, PixelsDistinct
  <2> HIDE DEF bits, place
  <2>3. place \in Bijection(bits, Sprite(vx, vy, b, s))
    <3>1. place \in [bits -> Sprite(vx, vy, b, s)]
      BY <2>1 DEF place
    <3>2. place \in Injection(bits, Sprite(vx, vy, b, s))
      BY <2>2, <3>1 DEF Injection, IsInjective
    <3>3. place \in Surjection(bits, Sprite(vx, vy, b, s))
      BY <2>1, <3>1 DEF Surjection
    <3> QED
      BY <3>2, <3>3 DEF Bijection
  <2>4. Cardinality(Sprite(vx, vy, b, s)) = Cardinality(bits)
    <3>1. IsFiniteSet(bits)
      BY <2>0, BitsAreFinite DEF bits
    <3>2. ExistsBijection(bits, Sprite(vx, vy, b, s))
      BY <2>3 DEF ExistsBijection
    <3> QED
      BY <3>1, <3>2, FS_Bijection
  <2> QED
    BY <2>0, <2>4, SpriteIsShown DEF bits
<1> QED
  BY <1>1, DisplayTypeCorrect, PTL

--------------------------------------------------------------------------------
\* An index of at least b rows is in row b or below.
LEMMA BelowRows ==
  ASSUME NEW w \in Nat \ {0}, NEW b \in Nat, NEW c \in Nat
  PROVE  c >= w * b <=> c \div w >= b
<1> DEFINE q == c \div w
           r == c % w
<1>1. q \in Nat /\ r \in 0..w - 1 /\ c = q * w + r
  BY Joins
<1> HIDE DEF q, r
<1>2. ASSUME q >= b PROVE c >= w * b
  <2>1. w * (q - b) >= 0
    BY <1>1, <1>2
  <2> QED
    BY <1>1, <2>1
<1>3. ASSUME q < b PROVE c < w * b
  <2>1. w * (b - q) >= w
    BY <1>1, <1>3, Multiple
  <2> QED
    BY <1>1, <2>1
<1> QED
  BY <1>1, <1>2, <1>3 DEF q

\* Whatever memcpy leaves, the rows and columns that scroll in are cleared.
THEOREM ScrolledRowsAreDark == Spec => []ScrolledInIsDark
<1>1. TypeOK => ScrolledInIsDark
  <2>a. /\ \A c \in ScrolledRight(lit) \cap Shown : Column(c) >= Shift
        /\ \A c \in ScrolledLeft(lit) \cap Shown : Column(c) + Shift < Width
    BY DEF ScrolledRight, ScrolledLeft, Rest
  <2> SUFFICES ASSUME TypeOK, NEW b \in 0..MaxRows
               PROVE  /\ \A d \in ScrolledDown(lit, b) : \A c \in d \cap Shown : Row(c) >= b
                      /\ \A d \in ScrolledUp(lit, b) : \A c \in d \cap Shown : Row(c) < Height - b
    BY <2>a DEF ScrolledInIsDark
  <2>1. /\ Width \in Nat \ {0} /\ Height \in Nat \ {0} /\ Height - b \in Nat /\ b \in Nat
        /\ Shown \subseteq Nat
    BY Geometry DEF TypeOK, Shown
  <2>2. ASSUME NEW d \in ScrolledDown(lit, b), NEW c \in d \cap Shown PROVE Row(c) >= b
    <3>1. c >= Width * b
      BY DEF ScrolledDown, Rest
    <3> QED
      BY <2>1, <3>1, BelowRows DEF Row
  <2>3. ASSUME NEW d \in ScrolledUp(lit, b), NEW c \in d \cap Shown
        PROVE  Row(c) < Height - b
    <3>1. c < Width * (Height - b)
      BY DEF ScrolledUp, Rest
    <3>2. ~(c >= Width * (Height - b))
      <4> DEFINE h == Height - b
      <4>1. h \in Nat
        BY <2>1
      <4> HIDE DEF h
      <4>2. Width * h \in Nat
        <5>1. Width \in Nat
          BY <2>1
        <5> QED
          BY <4>1, <5>1
      <4>3. c \in Nat
        BY <2>1
      <4> QED
        BY <3>1, <4>2, <4>3 DEF h
    <3>3. ~(Row(c) >= Height - b) /\ Row(c) \in Nat
      BY <2>1, <3>2, BelowRows, Joins DEF Row
    <3> QED
      BY <2>1, <3>3
  <2> QED
    BY <2>2, <2>3
<1> QED
  BY <1>1, DisplayTypeCorrect, PTL

\* Within a row a pixel Shift columns on is Shift indices on.
LEMMA SameRow ==
  ASSUME hires \in BOOLEAN, NEW c \in Shown, Column(c) + Shift < Width
  PROVE  c + Shift \in Shown /\ Column(c + Shift) = Column(c) + Shift
<1> DEFINE w == Width
           h == Height
           q == c \div w
           r == c % w
<1>1. w \in Nat \ {0} /\ h \in Nat \ {0} /\ Shift \in Nat
  BY Geometry, DisplayAssumption
<1>2. c \in Nat /\ c < w * h
  BY <1>1 DEF Shown
<1>3. q \in Nat /\ r \in 0..w - 1 /\ c = q * w + r
  BY <1>1, <1>2, Joins
<1>4. q < h
  <2>1. ~(c >= w * h)
    BY <1>1, <1>2
  <2> QED
    BY <1>1, <1>2, <1>3, <2>1, BelowRows
<1>5. r + Shift < w /\ Column(c) = r
  BY DEF Column
<1> HIDE DEF w, h, q, r
<1>6. r + Shift \in 0..w - 1 /\ q \in 0..h - 1
  BY <1>1, <1>3, <1>4, <1>5
<1>7. c + Shift = q * w + (r + Shift)
  BY <1>1, <1>3
<1>8. c + Shift \in 0..w * h - 1 /\ (c + Shift) % w = r + Shift
  <2>1. q * w + (r + Shift) \in 0..w * h - 1
    BY <1>1, <1>6, Inside
  <2>2. (q * w + (r + Shift)) % w = r + Shift
    <3>1. q \in Nat
      BY <1>3
    <3> QED
      BY <1>1, <1>6, <3>1, Splits
  <2> QED
    BY <1>7, <2>1, <2>2
<1> QED
  BY <1>5, <1>8 DEF Shown, Column, w, h

\* SCL undoes SCR but for the columns that left the display.
THEOREM ScrollsInvert == Spec => []ScrollBack
<1>1. TypeOK => ScrollBack
  <2> SUFFICES ASSUME TypeOK, NEW c
               PROVE  c \in ScrolledLeft(ScrolledRight(lit))
                        <=> c \in lit /\ (c \in Shown => Column(c) + Shift < Width)
    BY DEF ScrollBack
  <2>1. CASE c \notin Shown
    <3>1. c \in ScrolledRight(lit) <=> c \in lit
      BY <2>1 DEF ScrolledRight, Rest
    <3> QED
      BY <2>1, <3>1 DEF ScrolledLeft, Rest
  <2>2. CASE c \in Shown /\ Column(c) + Shift < Width
    <3>1. c + Shift \in Shown /\ Column(c + Shift) = Column(c) + Shift
      BY <2>2, SameRow DEF TypeOK
    <3>2. Column(c) \in Nat /\ c \in Nat /\ Shift \in Nat
      <4>1. Width \in Nat \ {0} /\ Height \in Nat \ {0}
        BY Geometry DEF TypeOK
      <4>2. c \in Nat
        BY <2>2 DEF Shown
      <4>3. Column(c) \in Nat
        BY <4>1, <4>2, Remainder DEF Column
      <4>4. Shift \in Nat
        BY DisplayAssumption
      <4> QED
        BY <4>2, <4>3, <4>4
    <3>3. Column(c + Shift) >= Shift /\ (c + Shift) - Shift = c
      BY <3>1, <3>2
    <3>4. c + Shift \in ScrolledRight(lit) <=> c \in lit
      BY <3>1, <3>3 DEF ScrolledRight, Rest
    <3> QED
      BY <2>2, <3>4 DEF ScrolledLeft, Rest
  <2>3. CASE c \in Shown /\ ~(Column(c) + Shift < Width)
    BY <2>3 DEF ScrolledLeft, Rest
  <2> QED
    BY <2>1, <2>2, <2>3
<1> QED
  BY <1>1, DisplayTypeCorrect, PTL
================================================================================
