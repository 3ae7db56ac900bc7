--------------------------------- MODULE Display --------------------------------
(***************************************************************************)
(* The display instructions of src/c8/private/instruction.c on the pixels   *)
(* of C8_Display (src/c8/graphics.h).  p[] is one array of HighWidth *       *)
(* HighHeight bytes, 0 or 1; LOW and HIGH only choose by which width and    *)
(* height it is read, so that the same bytes are other pixels in the other  *)
(* resolution.  lit is the set of the indices that hold 1.                  *)
(***************************************************************************)
EXTENDS Isa, Integers, FiniteSets

CONSTANTS
  LowWidth, LowHeight,     \* 64 x 32
  HighWidth, HighHeight,   \* 128 x 64
  SpriteWidth,             \* 8, the bits of a sprite's row
  BigWidth, BigRows,       \* 16 x 16, what DRW Vx, Vy, 0 draws in HIGH
  MaxRows,                 \* 15, the largest b of an instruction
  Shift,                   \* 4, the columns SCR and SCL move by
  Coords,                  \* the bytes that Vx and Vy hold
  Sprites                  \* what memory holds from I on: rows of lit bits

ASSUME DisplayAssumption ==
  /\ {LowWidth, LowHeight, HighWidth, HighHeight, SpriteWidth, BigWidth, BigRows,
      MaxRows, Shift} \subseteq Nat \ {0}
  /\ LowWidth * LowHeight <= HighWidth * HighHeight
  /\ SpriteWidth <= LowWidth /\ SpriteWidth <= HighWidth /\ BigWidth <= HighWidth
  /\ MaxRows < LowHeight /\ MaxRows < HighHeight /\ BigRows <= HighHeight
  /\ MaxRows <= BigRows
  /\ Shift <= LowWidth /\ Shift <= HighWidth
  /\ Coords \subseteq Nat
  /\ Sprites \subseteq [0..BigRows - 1 -> SUBSET (0..SpriteWidth - 1)]

VARIABLES
  lit,       \* p[]
  hires,     \* display.mode is C8_DISPLAYMODE_HIGH
  vf,        \* V[0xF], as DRW leaves it
  mode,      \* interpreter mode
  clipping,  \* C8_FLAG_QUIRK_CLIPPING
  drawn      \* history: the last instruction was a DRW

vars == <<lit, hires, vf, mode, clipping, drawn>>

Cells    == 0..HighWidth * HighHeight - 1
LowCells == 0..LowWidth * LowHeight - 1

Width  == IF hires THEN HighWidth ELSE LowWidth
Height == IF hires THEN HighHeight ELSE LowHeight
Shown  == 0..Width * Height - 1

\* c8_get_pixel.
Cell(x, y) == y * Width + (x % Width)
Column(c)  == c % Width
Row(c)     == c \div Width

Init == /\ lit = {}
        /\ hires = FALSE
        /\ vf = 0
        /\ mode \in Modes
        /\ clipping \in BOOLEAN
        /\ drawn = FALSE

--------------------------------------------------------------------------------
\* DRW Vx, Vy, b.  In HIGH, b = 0 asks for a sprite of 16 x 16; a row of it is
\* still one byte, and the mask 0x80 >> j is zero from the ninth column on.
Rows(b)    == IF hires /\ b = 0 THEN BigRows ELSE b
Columns(b) == IF hires /\ b = 0 THEN BigWidth ELSE SpriteWidth

\* Mutant of Clipped: the columns are not looked at.
ClippedBelow(vx, vy, i, j) ==
  clipping /\ vy + i >= Height /\ vx < Width /\ vy < Height

\* Under the quirk a pixel beyond an edge is left out, unless the sprite's origin
\* is itself beyond one: then it wraps.
Clipped(vx, vy, i, j) ==
  /\ clipping
  /\ vx + j >= Width \/ vy + i >= Height
  /\ vx < Width /\ vy < Height

Bits(b, sprite) ==
  {ij \in (0..Rows(b) - 1) \X (0..Columns(b) - 1) : ij[2] \in sprite[ij[1]]}

\* Mutant of Sprite: the height and the width are swapped.
SpriteSwapped(vx, vy, b, sprite) ==
  {Cell((vx + ij[2]) % Height, (vy + ij[1]) % Width) :
     ij \in {d \in Bits(b, sprite) : ~Clipped(vx, vy, d[1], d[2])}}

\* Mutant of Sprite: the rows do not wrap.
SpriteBelow(vx, vy, b, sprite) ==
  {Cell((vx + ij[2]) % Width, vy + ij[1]) :
     ij \in {d \in Bits(b, sprite) : ~Clipped(vx, vy, d[1], d[2])}}

\* The pixels the sprite's bits fall on.  No two fall on the same one, since no
\* sprite is wider or higher than the display.
Sprite(vx, vy, b, sprite) ==
  {Cell((vx + ij[2]) % Width, (vy + ij[1]) % Height) :
     ij \in {d \in Bits(b, sprite) : ~Clipped(vx, vy, d[1], d[2])}}

\* Mutant of Drw: VF tells that a pixel was turned on.
DrwFlagOfNew(vx, vy, b, sprite) ==
  LET s == Sprite(vx, vy, b, sprite)
  IN  /\ lit' = (lit \ s) \cup (s \ lit)
      /\ vf' = IF s \subseteq lit THEN 0 ELSE 1
      /\ drawn' = TRUE
      /\ UNCHANGED <<hires, mode, clipping>>

\* XOR onto the display; VF tells whether a pixel was on before.
Drw(vx, vy, b, sprite) ==
  LET s == Sprite(vx, vy, b, sprite)
  IN  /\ lit' = (lit \ s) \cup (s \ lit)
      /\ vf' = IF lit \cap s = {} THEN 0 ELSE 1
      /\ drawn' = TRUE
      /\ UNCHANGED <<hires, mode, clipping>>

--------------------------------------------------------------------------------
Rest(d) == d \ Shown

\* Mutants of ScrolledRight: one column too many is cleared, or the pixels pushed
\* out of a row enter the next one.
ScrolledShort(d) ==
  Rest(d) \cup {c \in Shown : Column(c) > Shift /\ c - Shift \in d}

ScrolledFlat(d) ==
  Rest(d) \cup {c \in Shown : c - Shift \in d}

\* The display after SCR and SCL: row by row, the columns left free are cleared.
ScrolledRight(d) ==
  Rest(d) \cup {c \in Shown : Column(c) >= Shift /\ c - Shift \in d}
ScrolledLeft(d) ==
  Rest(d) \cup {c \in Shown : Column(c) + Shift < Width /\ c + Shift \in d}

\* SCD and SCU copy Width * Height - by bytes with memcpy to a place by = Width *
\* b away.  Where the two overlap C promises nothing: the bytes arrive as they
\* were, or those copied first are copied again, by steps of by.
Overlap(by) == 0 < by /\ 2 * by < Width * Height

CopiedDown(d, by) == {c \in Shown : c - by \in d /\ c >= by}
CopiedUp(d, by)   == {c \in Shown : c + by \in d /\ c + by \in Shown}

RepeatedDown(d, by) == {c \in Shown : c % by \in d}
RepeatedUp(d, by) ==
  LET last == Width * Height - 1
  IN  {c \in Shown : last - ((last - c) % by) \in d}

ScrolledDown(d, b) ==
  {Rest(d) \cup {c \in copy : c >= Width * b} :
     copy \in {CopiedDown(d, Width * b)}
                \cup (IF Overlap(Width * b) THEN {RepeatedDown(d, Width * b)} ELSE {})}

ScrolledUp(d, b) ==
  {Rest(d) \cup {c \in copy : c < Width * (Height - b)} :
     copy \in {CopiedUp(d, Width * b)}
                \cup (IF Overlap(Width * b) THEN {RepeatedUp(d, Width * b)} ELSE {})}

Becomes(d) == lit' = d /\ drawn' = FALSE /\ UNCHANGED <<hires, vf, mode, clipping>>

\* CLS clears all of p[], whichever part is shown.
Cls == Becomes({})

Scr    == Permitted("scr", mode) /\ Becomes(ScrolledRight(lit))
Scl    == Permitted("scl", mode) /\ Becomes(ScrolledLeft(lit))
Scd(b) == Permitted("scd_b", mode) /\ \E d \in ScrolledDown(lit, b) : Becomes(d)
Scu(b) == Permitted("scu_b", mode) /\ \E d \in ScrolledUp(lit, b) : Becomes(d)

\* LOW and HIGH leave p[] as it is.
Resolution(h) == /\ hires' = h
                 /\ drawn' = FALSE
                 /\ UNCHANGED <<lit, vf, mode, clipping>>
Low  == Permitted("low", mode) /\ Resolution(FALSE)

\* Mutant of High: the mode is not asked for.
HighAlways == Resolution(TRUE)

High == Permitted("high", mode) /\ Resolution(TRUE)

Next == \/ \E vx, vy \in Coords, b \in 0..MaxRows, s \in Sprites : Drw(vx, vy, b, s)
        \/ Cls \/ Scr \/ Scl \/ Low \/ High
        \/ \E b \in 0..MaxRows : Scd(b) \/ Scu(b)

Spec == Init /\ [][Next]_vars

--------------------------------------------------------------------------------
TypeOK == /\ lit \subseteq Cells
          /\ hires \in BOOLEAN /\ drawn \in BOOLEAN /\ clipping \in BOOLEAN
          /\ vf \in {0, 1}
          /\ mode \in Modes

\* In CHIP-8 mode the display stays 64 x 32, and no instruction reaches the part
\* of p[] that only HIGH shows.
Chip8IsLow == mode = Chip8 => ~hires /\ lit \subseteq LowCells

\* In LOW the part of p[] that only HIGH shows is left alone by every instruction
\* but CLS: a program that comes back to HIGH finds it again.
LowKeepsRest ==
  [][~hires /\ lit' # {} => lit' \ LowCells = lit \ LowCells]_vars

\* VF is 1 after DRW exactly if a pixel that was on is now off.
CollisionIsLoss == [][drawn' => (vf' = 1 <=> lit \ lit' # {})]_vars

\* Under the clipping quirk nothing of a sprite whose origin is on the display
\* appears left of it or above it, at the opposite edge.
SpriteIsClipped ==
  \A vx, vy \in Coords, b \in 0..MaxRows, s \in Sprites :
    clipping /\ vx < Width /\ vy < Height =>
      \A c \in Sprite(vx, vy, b, s) : Column(c) >= vx /\ Row(c) >= vy

\* Without it every bit of a sprite falls on a pixel of its own, wherever the
\* origin is.
SpriteIsWhole ==
  \A vx, vy \in Coords, b \in 0..MaxRows, s \in Sprites :
    ~clipping => /\ Cardinality(Sprite(vx, vy, b, s)) = Cardinality(Bits(b, s))
                 /\ Sprite(vx, vy, b, s) \subseteq Shown

\* SCL takes SCR back, but for the columns that left the display, and for nothing
\* else.
ScrollBack ==
  ScrolledLeft(ScrolledRight(lit)) = {c \in lit : c \in Shown => Column(c) + Shift < Width}

\* The columns and rows that a scroll brings in are dark: nothing comes in from
\* the next row or from outside the display, whatever memcpy does with a copy that
\* overlaps.
ScrolledInIsDark ==
  /\ \A c \in ScrolledRight(lit) \cap Shown : Column(c) >= Shift
  /\ \A c \in ScrolledLeft(lit) \cap Shown : Column(c) + Shift < Width
  /\ \A b \in 0..MaxRows :
       /\ \A d \in ScrolledDown(lit, b) : \A c \in d \cap Shown : Row(c) >= b
       /\ \A d \in ScrolledUp(lit, b) : \A c \in d \cap Shown : Row(c) < Height - b
================================================================================
