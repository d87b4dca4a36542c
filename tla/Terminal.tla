------------------------------ MODULE Terminal ------------------------------
(***************************************************************************)
(* The text screen (src/src/io/screen.c): a screen is the cursor and what  *)
(* stands in the cells, counted row by row as in terminal_buffer.  Colours *)
(* are left out.                                                           *)
(***************************************************************************)
EXTENDS Integers, Sequences, FiniteSets, SequencesExt, FiniteSetsExt

CONSTANTS
  Width, Height, \* VGA_WIDTH, VGA_HEIGHT
  Glyphs,        \* the characters that take a cell
  NewLine,       \* '\n'
  Blank          \* what an empty cell holds, 0

ASSUME TerminalAssumption ==
  /\ Width \in Nat \ {0, 1} /\ Height \in Nat \ {0, 1}
  /\ NewLine \notin Glyphs /\ Blank \notin Glyphs \cup {NewLine}

Cells == 0..Width * Height - 1
Screens == [row : 0..Height - 1, column : 0..Width - 1, cells : [Cells -> Glyphs \cup {Blank}]]

Cursor(s) == s.row * Width + s.column

Cleared == [row |-> 0, column |-> 0, cells |-> [i \in Cells |-> Blank]]   \* terminal_init

PutEntryAt(s, c, i) == [s EXCEPT !.cells[i] = c]

Scrolled(s) ==
  [s EXCEPT !.row = @ - 1,
            !.cells = [i \in Cells |-> IF i + Width \in Cells THEN s.cells[i + Width] ELSE Blank]]

(* The cursor goes to the start of the next line.                          *)
NextLineOffTheScreen(s) == [s EXCEPT !.row = @ + 1, !.column = 0]   \* mutant
NextLine(s) ==
  LET below == [s EXCEPT !.row = @ + 1, !.column = 0]
  IN IF below.row = Height THEN Scrolled(below) ELSE below

PutChar(s, c) ==
  IF c = NewLine THEN NextLine(s)
  ELSE LET put == PutEntryAt(s, c, Cursor(s))
       IN IF s.column + 1 = Width THEN NextLine(put) ELSE [put EXCEPT !.column = @ + 1]

TerminalWrite(s, data) ==
  LET after[i \in 0..Len(data)] == IF i = 0 THEN s ELSE PutChar(after[i - 1], data[i])
  IN after[Len(data)]

(* terminal_rem.  At the start of a line it goes back to the last cell     *)
(* before it that is not empty; columns are counted from 1 to Width while  *)
(* it does, so cell 0 is never looked at.  Without such a cell it does not *)
(* end.                                                                    *)
Above(s) == {i \in 1..Width * (IF s.row = 0 THEN 1 ELSE s.row) : s.cells[i] # Blank}
RemEnds(s) == s.column = 0 => Above(s) # {}

UpALineOnly(s) == [s EXCEPT !.row = @ - 1, !.column = Width]   \* mutant: without the loop
UpALine(s) ==
  LET last == Max(Above(s))
      row == (last - 1) \div Width
  IN [s EXCEPT !.row = row, !.column = last - Width * row]
TerminalRem(s) ==
  LET back == IF s.column = 0 THEN UpALine(s) ELSE [s EXCEPT !.column = @ - 1]
  IN PutEntryAt(back, Blank, Cursor(back))
=============================================================================
