------------------------------- MODULE Screen -------------------------------
(***************************************************************************)
(* INT 10h of the BIOS (gen_bios.py): the cursor in the BIOS data area,    *)
(* the text buffer at B800:0000 reached by offsets, the teletype call and  *)
(* its scroll, AH=06 with its loop counters in a stack frame, and the mode *)
(* switch.  INT clears IF, so a service is one step for everything else.   *)
(* A buffer offset is counted in cells (two bytes each).                   *)
(***************************************************************************)
EXTENDS Integers, Sequences

CONSTANTS
  ROWS, COLS,  \* SCREEN_ROWS and SCREEN_COLS (25 and 80)
  CHARS,       \* characters other than the control characters and space
  ATTRS,       \* attributes; 7 is the normal one
  BYTE,        \* 256: the values of a byte, at least one more than ROWS, COLS
  BLS          \* what BL holds in a call of AH=06, which does not use it

ASSUME ScreenAssumptions ==
  /\ BYTE \in Nat /\ ROWS \in 1..BYTE - 1 /\ COLS \in 1..BYTE - 1
  /\ 7 \in ATTRS /\ BLS \subseteq 0..BYTE - 1

VARIABLES
  cells,  \* the text buffer
  col, row, \* 40:50 and 40:51
  crtc,   \* the cursor register of the CRTC, in cells
  mode,   \* 40:49
  gfxOn,  \* bit 1 of port 3D8
  gfx     \* what the graphics aperture holds: "zeros" or "drawing"

screenVars == <<cells, col, row, crtc, mode, gfxOn, gfx>>

Blank(a) == [ch |-> " ", at |-> a]
Cell == [ch : CHARS, at : ATTRS] \cup {Blank(a) : a \in ATTRS}
Extent == ROWS * COLS

(* Past the buffer there is memory the screen does not show. *)
Unseen == Blank(7)
Fetch(m, i) == IF i < Extent THEN m[i] ELSE Unseen
Fill(m, i, n, x) == [j \in DOMAIN m |-> IF j \in i..i + n - 1 THEN x ELSE m[j]]

(* cell_offset and sync_cursor *)
CellOffset(r, c) == r * COLS + c
SyncCursor == crtc' = CellOffset(row', col')

ScreenInit ==
  /\ cells = [i \in 0..Extent - 1 |-> Blank(7)]
  /\ col = 0 /\ row = 0 /\ crtc = 0
  /\ mode = "text" /\ gfxOn = FALSE /\ gfx = "zeros"

-----------------------------------------------------------------------------
(* scroll_up.  In its frame the current row is the byte at [BP+0], the     *)
(* rows remaining the byte at [BP+1] and the caller's BL the byte at       *)
(* [BP+2]; but CMP, INC and DEC of a memory operand are assembled as word  *)
(* instructions (asm86.py), so each touches the byte above its own too.    *)

WordInc(f) ==
  LET w == (f.cur + BYTE * f.rest + 1) % (BYTE * BYTE)
  IN [f EXCEPT !.cur = w % BYTE, !.rest = w \div BYTE]
WordDec(f) ==
  LET w == (f.rest + BYTE * f.bl + BYTE * BYTE - 1) % (BYTE * BYTE)
  IN [f EXCEPT !.rest = w % BYTE, !.bl = w \div BYTE]
WordZero(f) == f.rest + BYTE * f.bl = 0

RowStart(f, w) == CellOffset(f.cur, w.left)
Width(w) == (w.right - w.left + 1) % BYTE

CopyRow(m, f, w, n) ==
  LET d == RowStart(f, w)
  IN [i \in DOMAIN m |-> IF i \in d..d + Width(w) - 1
                         THEN Fetch(m, i + n * COLS) ELSE m[i]]

(* Both loops INC the row and DEC the count at the end of a turn, and end  *)
(* before the first turn that finds the count zero.  In BYTE turns the     *)
(* count falls by BYTE - 1 or more, so it comes within Turns.              *)
Turns == BYTE * (BYTE + 2)
Frame(f, n) ==
  LET turn[k \in 0..n] == IF k = 0 THEN f ELSE WordDec(WordInc(turn[k - 1]))
  IN turn[n]
Count(f) == CHOOSE k \in 0..Turns : /\ WordZero(Frame(f, k))
                                    /\ \A j \in 0..k - 1 : ~WordZero(Frame(f, j))

CopyPhase(m, f, w, n) ==
  LET turn[k \in 0..Count(f)] ==
        IF k = 0 THEN m ELSE CopyRow(turn[k - 1], Frame(f, k - 1), w, n)
  IN turn[Count(f)]

BlankRow(m, f, w, a) == Fill(m, RowStart(f, w), Width(w), Blank(a))
BlankPhase(m, f, w, a) ==
  LET turn[k \in 0..Count(f)] ==
        IF k = 0 THEN m ELSE BlankRow(turn[k - 1], Frame(f, k - 1), w, a)
  IN turn[Count(f)]

ScrollUp(m, w, al, bh, bl) ==
  LET rows == (w.bottom - w.top + 1) % BYTE
      n == IF al # 0 /\ al < rows THEN al ELSE rows
      start == [cur |-> w.top, rest |-> rows - n, bl |-> bl]
      copied == Frame(start, Count(start))
  IN BlankPhase(CopyPhase(m, start, w, n), [copied EXCEPT !.rest = n], w, bh)

WholeScreen == [top |-> 0, left |-> 0, bottom |-> ROWS - 1, right |-> COLS - 1]
ScrollScreen(m) == ScrollUp(m, WholeScreen, 1, 7, 0)

-----------------------------------------------------------------------------
(* put_char. *)

(* The cursor moves to the next row; below the last one, the screen moves. *)
NewLine(m) ==
  LET down == (row + 1) % BYTE
  IN IF down < ROWS THEN row' = down /\ cells' = m
     ELSE row' = ROWS - 1 /\ cells' = ScrollScreen(m)

TtyReturn == col' = 0 /\ UNCHANGED <<row, cells>>
TtyFeed == NewLine(cells) /\ UNCHANGED col
TtyBack == col' = (IF col = 0 THEN 0 ELSE col - 1) /\ UNCHANGED <<row, cells>>
TtyChar(c, a) ==
  LET m == Fill(cells, CellOffset(row, col), 1, [ch |-> c, at |-> a])
      right == (col + 1) % BYTE
  IN IF right < COLS THEN col' = right /\ cells' = m /\ UNCHANGED row
     ELSE col' = 0 /\ NewLine(m)

TeletypeUnsynced(act) == act /\ UNCHANGED <<crtc, mode, gfxOn, gfx>>

Teletype(act) == act /\ SyncCursor /\ UNCHANGED <<mode, gfxOn, gfx>>

(* The other services. *)
SetCursor(r, c) ==
  /\ row' = r /\ col' = c /\ SyncCursor
  /\ UNCHANGED <<cells, mode, gfxOn, gfx>>

WriteChar(c, a, cx) ==
  /\ cells' = Fill(cells, CellOffset(row, col), IF cx = 0 THEN 1 ELSE cx,
                   [ch |-> c, at |-> a])
  /\ UNCHANGED <<col, row, crtc, mode, gfxOn, gfx>>

ScrollCall(w, al, bh, bl) ==
  /\ cells' = ScrollUp(cells, w, al, bh, bl)
  /\ UNCHANGED <<col, row, crtc, mode, gfxOn, gfx>>

SetGraphics ==
  /\ mode' = "graphics" /\ gfxOn' = TRUE /\ gfx' = "zeros"
  /\ col' = 0 /\ row' = 0
  /\ UNCHANGED <<cells, crtc>>

SetText ==
  /\ gfxOn' = FALSE /\ cells' = Fill(cells, 0, Extent, Blank(7))
  /\ col' = 0 /\ row' = 0 /\ mode' = "text" /\ SyncCursor
  /\ UNCHANGED gfx

(* A program draws through the aperture at A000. *)
Draw == gfx' = "drawing"
        /\ UNCHANGED <<cells, col, row, crtc, mode, gfxOn>>

Windows == {w \in [top : 0..ROWS - 1, left : 0..COLS - 1,
                   bottom : 0..ROWS - 1, right : 0..COLS - 1] :
              w.top <= w.bottom /\ w.left <= w.right}

ScreenNext ==
  \/ Teletype(TtyReturn) \/ Teletype(TtyFeed) \/ Teletype(TtyBack)
  \/ \E c \in CHARS, a \in ATTRS : Teletype(TtyChar(c, a))
  \/ \E r \in 0..ROWS - 1, c \in 0..COLS - 1 : SetCursor(r, c)
  \/ \E c \in CHARS, a \in ATTRS, n \in 0..2 : WriteChar(c, a, n)
  \/ \E w \in Windows, n \in 0..ROWS + 1, a \in ATTRS, bl \in BLS :
       ScrollCall(w, n, a, bl)
  \/ SetGraphics \/ SetText \/ Draw

ScreenSpec == ScreenInit /\ [][ScreenNext]_screenVars

-----------------------------------------------------------------------------
T == INSTANCE Terminal WITH
       TROWS <- ROWS, TCOLS <- COLS, TCELLS <- Cell,
       TBLANKS <- {Blank(a) : a \in ATTRS},
       lines <- [r \in 1..ROWS |-> [c \in 1..COLS |->
                   cells[CellOffset(r - 1, c - 1)]]],
       at <- IF mode = "text" THEN <<(crtc \div COLS) + 1, (crtc % COLS) + 1>>
             ELSE <<row + 1, col + 1>>

(* Offsets, wrap-around, the scroll at the last row and the window loops   *)
(* together do what a terminal does: each call of INT 10h is one operation *)
(* of Terminal, or leaves screen and place alone.  The place is where the  *)
(* hardware cursor stands: in text mode it is where the next character     *)
(* goes, whichever calls came before (put_char leaves by one sync_cursor   *)
(* for all its paths; the graphics mode set does not sync).                *)
ImplementsTerminal == T!TSpec

(* AH=06 does what its header says, for any value of the registers it does *)
(* not list: "AL = lines to scroll, 0 = blank the window, BH = attribute,  *)
(* CH, CL = top row, left column, DH, DL = bottom row, right column".      *)
ScrollExact ==
  [][\A w \in Windows, n \in 0..ROWS + 1, a \in ATTRS, bl \in BLS :
       ScrollCall(w, n, a, bl) =>
         \A r \in 0..ROWS - 1, c \in 0..COLS - 1 :
           cells'[CellOffset(r, c)] =
             IF r \notin w.top..w.bottom \/ c \notin w.left..w.right
             THEN cells[CellOffset(r, c)]
             ELSE IF n # 0 /\ r + n <= w.bottom
                  THEN cells[CellOffset(r + n, c)] ELSE Blank(a)]_screenVars
=============================================================================
