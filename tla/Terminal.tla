------------------------------ MODULE Terminal ------------------------------
(***************************************************************************)
(* What the text services of INT 10h promise a program: a screen of lines, *)
(* a place where the next character goes, and operations on them that know *)
(* nothing of offsets, loops or stack frames.                              *)
(***************************************************************************)
EXTENDS Integers, Sequences

CONSTANTS
  TROWS, TCOLS,  \* lines of the screen and cells of a line
  TCELLS,        \* what a cell can hold
  TBLANKS        \* the cells that are blank, one for each attribute

VARIABLES lines, at   \* the screen, and the place of the next character

Rows == 1..TROWS
Cols == 1..TCOLS
Window == {w \in [top : Rows, left : Cols, bottom : Rows, right : Cols] :
             w.top <= w.bottom /\ w.left <= w.right}

BlankLine(b) == [c \in Cols |-> b]

(* One line feed: the place moves down, or the whole screen moves up. *)
LineFed(ls, b) ==
  IF at[1] < TROWS THEN ls ELSE Append(Tail(ls), BlankLine(b))
Lower == IF at[1] < TROWS THEN at[1] + 1 ELSE TROWS

(* The window moves up n lines and blank ones come in below; n = 0, or     *)
(* more lines than the window has, blanks all of it.                       *)
Scrolled(ls, w, n, b) ==
  LET k == IF n = 0 THEN w.bottom - w.top + 1 ELSE n
      In(r, c) == r \in w.top..w.bottom /\ c \in w.left..w.right
  IN [r \in Rows |-> [c \in Cols |->
        IF ~In(r, c) THEN ls[r][c]
        ELSE IF r + k <= w.bottom THEN ls[r + k][c] ELSE b]]

TInit == (\E b \in TBLANKS : lines = [r \in Rows |-> BlankLine(b)])
         /\ at = <<1, 1>>

Put(x, b) ==
  LET ls == [lines EXCEPT ![at[1]][at[2]] = x]
  IN IF at[2] < TCOLS
     THEN lines' = ls /\ at' = <<at[1], at[2] + 1>>
     ELSE lines' = LineFed(ls, b) /\ at' = <<Lower, 1>>
Return == at' = <<at[1], 1>> /\ UNCHANGED lines
Feed(b) == lines' = LineFed(lines, b) /\ at' = <<Lower, at[2]>>
Back == at[2] > 1 /\ at' = <<at[1], at[2] - 1>> /\ UNCHANGED lines
Go == at' \in Rows \X Cols /\ UNCHANGED lines
Clear(b) == lines' = [r \in Rows |-> BlankLine(b)] /\ at' = <<1, 1>>
Home == at' = <<1, 1>> /\ UNCHANGED lines
Scroll(w, n, b) == lines' = Scrolled(lines, w, n, b) /\ UNCHANGED at

(* n copies of one character from the place on, which stays. *)
Repeat(x, n) ==
  /\ lines' = [r \in Rows |-> [c \in Cols |->
       IF ((r - at[1]) * TCOLS + c - at[2]) \in 0..n - 1 THEN x
       ELSE lines[r][c]]]
  /\ UNCHANGED at

TNext ==
  \/ \E x \in TCELLS, b \in TBLANKS : Put(x, b)
  \/ Return \/ Back \/ Go \/ Home
  \/ \E b \in TBLANKS : Feed(b) \/ Clear(b)
  \/ \E w \in Window, n \in 0..TROWS + 1, b \in TBLANKS : Scroll(w, n, b)
  \/ \E x \in TCELLS, n \in 1..TROWS * TCOLS + 1 : Repeat(x, n)

TSpec == TInit /\ [][TNext]_<<lines, at>>
=============================================================================
