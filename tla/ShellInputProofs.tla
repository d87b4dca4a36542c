-------------------------- MODULE ShellInputProofs --------------------------
(***************************************************************************)
(* The proofs about the shell's input and the terminal: for every size of  *)
(* screen, line and token array, the screen shows the line the shell has,  *)
(* and the command gets the words that were typed.                         *)
(***************************************************************************)
EXTENDS ShellInput, SequenceTheorems, FiniteSetTheorems, WellFoundedInduction, TLAPS

(* A set of numbers that has 0 and, with a number, the next one, has all.  *)
LEMMA Counting ==
  ASSUME NEW S, 0 \in S, \A n \in Nat : n \in S => n + 1 \in S
  PROVE  Nat \subseteq S
  <1> DEFINE Bad == Nat \ S
  <1> SUFFICES ASSUME Bad # {} PROVE FALSE
      OBVIOUS
  <1>1. IsWellFoundedOn(OpToRel(<, Nat), Nat)
        BY NatLessThanWellFounded
  <1>2. \E x \in Bad : \A y \in Bad : ~(<<y, x>> \in OpToRel(<, Nat))
        BY <1>1, WFMin, Zenon
  <1>3. PICK x \in Bad : \A y \in Bad : ~(<<y, x>> \in OpToRel(<, Nat))
        BY <1>2
  <1>4. \A y \in Bad : ~(y < x)
        BY <1>3 DEF OpToRel
  <1>5. x # 0
        OBVIOUS
  <1>6. x - 1 \in Nat /\ x - 1 < x /\ (x - 1) + 1 = x
        BY <1>5
  <1>7. x - 1 \notin S
        BY <1>6
  <1> QED BY <1>4, <1>6, <1>7

(* A set of numbers that is not empty has a least one.                     *)
LEMMA LeastIs ==
  ASSUME NEW S \in SUBSET Nat, S # {}
  PROVE  Min(S) \in S /\ \A y \in S : Min(S) <= y
  <1>1. IsWellFoundedOn(OpToRel(<, Nat), Nat)
        BY NatLessThanWellFounded
  <1>2. \E x \in S : \A y \in S : ~(<<y, x>> \in OpToRel(<, Nat))
        BY <1>1, WFMin, Zenon
  <1>3. PICK x \in S : \A y \in S : ~(<<y, x>> \in OpToRel(<, Nat))
        BY <1>2
  <1>4. ASSUME NEW y \in S PROVE x <= y
    <2>1. x \in Nat /\ y \in Nat
          OBVIOUS
    <2>2. ~(y < x)
          BY <1>3, <2>1 DEF OpToRel
    <2> QED BY <2>1, <2>2
  <1> QED BY <1>4 DEF Min

-----------------------------------------------------------------------------
(* The cells and the cursor.                                               *)
LEMMA Sizes ==
  /\ Width \in Nat /\ Width > 1 /\ Height \in Nat /\ Height > 1
  /\ NewLine \notin Glyphs /\ Blank \notin Glyphs /\ Blank # NewLine
  BY TerminalAssumption

(* The cells of a row lie on the screen, and the next row starts behind.   *)
LEMMA Rows ==
  ASSUME NEW r \in 0..Height - 1
  PROVE  /\ r * Width \in Nat
         /\ r * Width + Width <= Width * Height
         /\ (r + 1) * Width = r * Width + Width
         /\ (r - 1) * Width = r * Width - Width
         /\ r > 0 => r * Width - Width \in Nat
         /\ r = Height - 1 => r * Width + Width = Width * Height
  <1>1. Width \in Nat /\ Height \in Nat
        BY Sizes
  <1>2. /\ (r + 1) * Width = r * Width + Width
        /\ (r - 1) * Width = r * Width - Width
        BY <1>1
  <1>3. \A a, b \in Nat : a * b \in Nat
        OBVIOUS
  <1>4. r \in Nat /\ r * Width \in Nat
        BY <1>1, <1>3
  <1>5. Height - 1 - r \in Nat
        BY <1>1
  <1>6. (Height - 1 - r) * Width \in Nat
        BY <1>5, <1>1, <1>3
  <1>7. (Height - 1 - r) * Width = Width * Height - Width - r * Width
        BY <1>1, <1>4
  <1>8. Width * Height \in Nat
        BY <1>1, <1>3
  <1>9. r * Width + Width <= Width * Height
        BY <1>1, <1>4, <1>6, <1>7, <1>8
  <1>10. r > 0 => r * Width - Width \in Nat
    <2> SUFFICES ASSUME r > 0 PROVE r * Width - Width \in Nat
        OBVIOUS
    <2>1. r - 1 \in Nat
          OBVIOUS
    <2>2. (r - 1) * Width \in Nat
          BY <2>1, <1>1, <1>3
    <2> QED BY <2>2, <1>2
  <1>11. r = Height - 1 => r * Width + Width = Width * Height
        BY <1>1
  <1> QED BY <1>2, <1>4, <1>9, <1>10, <1>11

(* What holds of every screen: it is one, and from the cursor on it is     *)
(* empty.                                                                  *)
Fresh(s) ==
  /\ s \in Screens
  /\ \A i \in Cursor(s)..Width * Height - 1 : s.cells[i] = Blank

(* A text stands right before the cursor.                                  *)
EndsWith(s, text) ==
  /\ Len(text) <= Cursor(s)
  /\ \A i \in 1..Len(text) : s.cells[Cursor(s) - Len(text) + i - 1] = text[i]

LEMMA ScreenParts ==
  ASSUME NEW s \in Screens
  PROVE  /\ s.row \in 0..Height - 1
         /\ s.column \in 0..Width - 1
         /\ s.cells \in [Cells -> Glyphs \cup {Blank}]
         /\ s = [row |-> s.row, column |-> s.column, cells |-> s.cells]
         /\ Cursor(s) = s.row * Width + s.column
         /\ Cursor(s) \in Cells
         /\ Cursor(s) \in Nat
         /\ Width * Height \in Nat
  <1>1. /\ s.row \in 0..Height - 1
        /\ s.column \in 0..Width - 1
        /\ s.cells \in [Cells -> Glyphs \cup {Blank}]
        /\ s = [row |-> s.row, column |-> s.column, cells |-> s.cells]
        BY DEF Screens
  <1> DEFINE r == s.row * Width
             a == Width * Height
  <1>2. r \in Nat /\ r + Width <= a
        BY <1>1, Rows
  <1>3. Width \in Nat
        BY Sizes
  <1>4. \A x, y \in Nat : x * y \in Nat
        OBVIOUS
  <1>5. a \in Nat
        BY <1>4, Sizes
  <1> HIDE DEF r, a
  <1>6. r + s.column \in Nat /\ r + s.column \in 0..a - 1
        BY <1>1, <1>2, <1>3, <1>5
  <1> QED BY <1>1, <1>5, <1>6 DEF r, a, Cursor, Cells

LEMMA ScreenIs ==
  ASSUME NEW r \in 0..Height - 1, NEW c \in 0..Width - 1,
         NEW f \in [Cells -> Glyphs \cup {Blank}]
  PROVE  [row |-> r, column |-> c, cells |-> f] \in Screens
  BY DEF Screens

LEMMA NextRow ==
  ASSUME NEW r, NEW c, NEW f, NEW s, s = [row |-> r, column |-> c, cells |-> f]
  PROVE  [s EXCEPT !.row = @ + 1, !.column = 0] = [row |-> r + 1, column |-> 0, cells |-> f]
  <1>1. [[row |-> r + 1, column |-> c, cells |-> f] EXCEPT !.column = 0]
          = [row |-> r + 1, column |-> 0, cells |-> f]
        OBVIOUS
  <1>2. [s EXCEPT !.row = @ + 1] = [row |-> r + 1, column |-> c, cells |-> f]
        OBVIOUS
  <1>3. [s EXCEPT !.row = @ + 1, !.column = 0] = [[s EXCEPT !.row = @ + 1] EXCEPT !.column = 0]
        OBVIOUS
  <1> QED BY <1>1, <1>2, <1>3

Shifted(f) == [i \in Cells |-> IF i + Width \in Cells THEN f[i + Width] ELSE Blank]

LEMMA ScrolledIs ==
  ASSUME NEW r, NEW c, NEW f, NEW s, s = [row |-> r, column |-> c, cells |-> f]
  PROVE  Scrolled(s) = [row |-> r - 1, column |-> c, cells |-> Shifted(f)]
  <1> DEFINE g == [i \in Cells |-> IF i + Width \in Cells THEN s.cells[i + Width] ELSE Blank]
             h == [i \in Cells |-> IF i + Width \in Cells THEN f[i + Width] ELSE Blank]
  <1>1. Scrolled(s) = [s EXCEPT !.row = @ - 1, !.cells = g]
        BY DEF Scrolled
  <1>2. s.cells = f
        OBVIOUS
  <1>3. g = h
        BY <1>2
  <1> HIDE DEF g, h
  <1>4. [[row |-> r - 1, column |-> c, cells |-> f] EXCEPT !.cells = h]
          = [row |-> r - 1, column |-> c, cells |-> h]
        OBVIOUS
  <1>5. [s EXCEPT !.row = @ - 1] = [row |-> r - 1, column |-> c, cells |-> f]
        OBVIOUS
  <1>6. [s EXCEPT !.row = @ - 1, !.cells = h] = [[s EXCEPT !.row = @ - 1] EXCEPT !.cells = h]
        OBVIOUS
  <1>7. Scrolled(s) = [row |-> r - 1, column |-> c, cells |-> h]
        BY <1>1, <1>3, <1>4, <1>5, <1>6
  <1> QED BY <1>7 DEF h, Shifted

LEMMA NextLineIs ==
  ASSUME NEW r \in Int, NEW c, NEW f, NEW s, s = [row |-> r, column |-> c, cells |-> f]
  PROVE  NextLine(s) =
           IF r + 1 = Height
           THEN [row |-> r, column |-> 0, cells |-> Shifted(f)]
           ELSE [row |-> r + 1, column |-> 0, cells |-> f]
  <1> DEFINE below == [s EXCEPT !.row = @ + 1, !.column = 0]
             new == [row |-> r + 1, column |-> 0, cells |-> f]
  <1>1. below = new
        BY NextRow
  <1>2. NextLine(s) = IF new.row = Height THEN Scrolled(new) ELSE new
        BY <1>1 DEF NextLine
  <1>3. new.row = r + 1 /\ new = [row |-> r + 1, column |-> 0, cells |-> f]
        OBVIOUS
  <1> HIDE DEF below, new
  <1>4. Scrolled(new) = [row |-> r, column |-> 0, cells |-> Shifted(f)]
    <2> DEFINE up == r + 1
               zero == 0
    <2>1. new = [row |-> up, column |-> zero, cells |-> f]
          BY <1>3
    <2> HIDE DEF up, zero
    <2>2. Scrolled(new) = [row |-> up - 1, column |-> zero, cells |-> Shifted(f)]
          BY <2>1, ScrolledIs
    <2>3. up - 1 = r /\ zero = 0
          BY DEF up, zero
    <2> QED BY <2>2, <2>3
  <1>5. NextLine(s) = IF r + 1 = Height THEN Scrolled(new) ELSE new
        BY <1>2, <1>3
  <1> QED BY <1>3, <1>4, <1>5

(* The start of the next line: the screen scrolls by d, or d is 0.         *)
Moved(s, t, d) ==
  /\ Cursor(t) = s.row * Width + Width - d
  /\ d = 0 \/ (d = Width /\ Cursor(t) = Width * (Height - 1))
  /\ \A i \in Cells : i - d \in Cells => t.cells[i - d] = s.cells[i]

LEMMA NextLineMoves ==
  ASSUME NEW s \in Screens
  PROVE  /\ NextLine(s) \in Screens
         /\ (\A i \in s.row * Width + Width..Width * Height - 1 : s.cells[i] = Blank)
              => Fresh(NextLine(s))
         /\ \E d \in {0, Width} : Moved(s, NextLine(s), d)
  <1> DEFINE r == s.row
             f == s.cells
             k == r * Width
             a == Width * Height
             t == NextLine(s)
             g == Shifted(f)
  <1>1. r \in 0..Height - 1 /\ f \in [Cells -> Glyphs \cup {Blank}] /\ a \in Nat
        BY ScreenParts
  <1>2. /\ k \in Nat
        /\ k + Width <= a
        /\ (r + 1) * Width = k + Width
        /\ r = Height - 1 => k + Width = a
        BY <1>1, Rows
  <1>3. Width \in Nat /\ Width > 1 /\ Height \in Nat /\ Height > 1
        BY Sizes
  <1>4. 0 \in 0..Width - 1
        BY <1>3
  <1>5. CASE r + 1 = Height
    <2>1. t = [row |-> r, column |-> 0, cells |-> g]
      <3>1. s = [row |-> r, column |-> s.column, cells |-> f]
            BY ScreenParts
      <3>2. r + 1 - 1 = r
            BY <1>1
      <3> DEFINE col == s.column
      <3>3. s = [row |-> r, column |-> col, cells |-> f] /\ r \in Int
            BY <3>1, <1>1
      <3> HIDE DEF r, f, col
      <3> QED BY <3>3, <1>5, NextLineIs
    <2> HIDE DEF t
    <2>2. g \in [Cells -> Glyphs \cup {Blank}]
          BY <1>1 DEF Shifted
    <2>3. t \in Screens
          BY <1>1, <1>4, <2>1, <2>2, ScreenIs
    <2>4. r = Height - 1
          BY <1>5, <1>1, <1>3
    <2>5. t.row = r /\ t.column = 0 /\ t.cells = g
          BY <2>1
    <2>6. Cursor(t) = k
          BY <2>5, <1>2 DEF Cursor
    <2>7. ASSUME NEW i \in k..a - 1 PROVE t.cells[i] = Blank
      <3>1. k + Width = a
            BY <1>2, <2>4
      <3> HIDE DEF k, a
      <3>2. i \in 0..a - 1 /\ i + Width \notin 0..a - 1
            BY <1>1, <1>2, <1>3, <3>1
      <3>3. Cells = 0..a - 1
            BY DEF Cells, a
      <3> QED BY <3>2, <3>3, <2>5 DEF Shifted
    <2>8. Fresh(t)
          BY <2>3, <2>6, <2>7 DEF Fresh
    <2>9. Width * (Height - 1) = k
      <3>1. (Height - 1) * Width = Width * (Height - 1)
            BY <1>3
      <3> QED BY <2>4, <3>1
    <2>10. Moved(s, t, Width)
      <3>1. k + Width - Width = k
            BY <1>2, <1>3
      <3>2. ASSUME NEW i \in Cells, i - Width \in Cells PROVE t.cells[i - Width] = f[i]
        <4>1. i - Width + Width = i
              BY <1>3 DEF Cells
        <4> QED BY <2>5, <3>2, <4>1 DEF Shifted
      <3> QED BY <3>1, <3>2, <2>6, <2>9 DEF Moved
    <2> QED BY <2>3, <2>8, <2>10 DEF t
  <1>6. CASE r + 1 # Height
    <2>1. t = [row |-> r + 1, column |-> 0, cells |-> f]
      <3>1. s = [row |-> r, column |-> s.column, cells |-> f]
            BY ScreenParts
      <3> DEFINE col == s.column
      <3>3. s = [row |-> r, column |-> col, cells |-> f] /\ r \in Int
            BY <3>1, <1>1
      <3> HIDE DEF r, f, col
      <3> QED BY <3>3, <1>6, NextLineIs
    <2> HIDE DEF t
    <2>2. r + 1 \in 0..Height - 1
          BY <1>1, <1>3, <1>6
    <2>3. t \in Screens
          BY <1>1, <1>4, <2>1, <2>2, ScreenIs
    <2>4. t.row = r + 1 /\ t.column = 0 /\ t.cells = f
          BY <2>1
    <2>5. Cursor(t) = k + Width
          BY <2>4, <1>2, <1>3 DEF Cursor
    <2>6. (\A i \in k + Width..a - 1 : f[i] = Blank) => Fresh(t)
          BY <2>3, <2>4, <2>5 DEF Fresh
    <2>7. Moved(s, t, 0)
      <3>1. k + Width - 0 = k + Width
            BY <1>2, <1>3
      <3>2. \A i \in Cells : i - 0 = i
            BY DEF Cells
      <3> QED BY <3>1, <3>2, <2>4, <2>5 DEF Moved
    <2> QED BY <2>3, <2>6, <2>7 DEF t
  <1> QED BY <1>5, <1>6

(* A character that takes a cell is put at the cursor.                     *)
LEMMA PutIs ==
  ASSUME NEW s \in Screens, NEW c \in Glyphs \cup {Blank}
  PROVE  LET p == PutEntryAt(s, c, Cursor(s))
         IN /\ p \in Screens
            /\ p.row = s.row
            /\ p.column = s.column
            /\ p.cells = [s.cells EXCEPT ![Cursor(s)] = c]
  <1> DEFINE f == [s.cells EXCEPT ![Cursor(s)] = c]
  <1>1. /\ s.row \in 0..Height - 1
        /\ s.column \in 0..Width - 1
        /\ s.cells \in [Cells -> Glyphs \cup {Blank}]
        /\ s = [row |-> s.row, column |-> s.column, cells |-> s.cells]
        BY ScreenParts
  <1>2. f \in [Cells -> Glyphs \cup {Blank}]
        BY <1>1
  <1>3. PutEntryAt(s, c, Cursor(s)) = [row |-> s.row, column |-> s.column, cells |-> f]
        BY <1>1 DEF PutEntryAt
  <1> QED BY <1>1, <1>2, <1>3, ScreenIs

(* One character: it stays a screen, empty from the cursor on, and the     *)
(* text before the cursor gets the character.                              *)
Fits(text) == Len(text) <= Width * (Height - 1)

LEMMA RowsAbove ==
  Width * (Height - 1) \in Nat /\ Width * (Height - 1) + Width = Width * Height
  <1>1. Height - 1 \in 0..Height - 1
        BY Sizes
  <1>2. /\ (Height - 1) * Width \in Nat
        /\ (Height - 1) * Width + Width = Width * Height
        BY <1>1, Rows
  <1>3. (Height - 1) * Width = Width * (Height - 1)
        BY Sizes
  <1> QED BY <1>2, <1>3

LEMMA PutCharKeeps ==
  ASSUME NEW s, Fresh(s), NEW c \in Glyphs \cup {NewLine}
  PROVE  Fresh(PutChar(s, c))
  <1> DEFINE k == s.row * Width
             a == Width * Height
             u == Cursor(s)
  <1>1. s \in Screens /\ \A i \in u..a - 1 : s.cells[i] = Blank
        BY DEF Fresh
  <1>2. /\ s.row \in 0..Height - 1
        /\ s.column \in 0..Width - 1
        /\ s.cells \in [Cells -> Glyphs \cup {Blank}]
        /\ u = k + s.column
        /\ u \in Cells
        /\ a \in Nat
        BY <1>1, ScreenParts
  <1>3. k \in Nat /\ k + Width <= a
        BY <1>2, Rows
  <1>4. Width \in Nat /\ Width > 1
        BY Sizes
  <1>5. CASE c = NewLine
    <2>1. ASSUME NEW i \in k + Width..a - 1 PROVE s.cells[i] = Blank
      <3> HIDE DEF k, a, u
      <3>1. i \in u..a - 1
            BY <1>2, <1>3, <1>4
      <3> QED BY <3>1, <1>1
    <2>2. Fresh(NextLine(s))
          BY <2>1, <1>1, NextLineMoves
    <2> QED BY <2>2, <1>5 DEF PutChar
  <1>6. CASE c # NewLine
    <2> DEFINE p == PutEntryAt(s, c, u)
    <2>1. /\ p \in Screens
          /\ p.row = s.row
          /\ p.column = s.column
          /\ p.cells = [s.cells EXCEPT ![u] = c]
          BY <1>1, <1>6, PutIs
    <2> HIDE DEF p
    <2>2. ASSUME NEW i \in u + 1..a - 1 PROVE p.cells[i] = Blank
      <3>1. i \in u..a - 1 /\ i # u /\ i \in Cells
        <4> HIDE DEF k, u
        <4>1. i \in u..a - 1 /\ i # u /\ i \in 0..a - 1
              BY <1>2, <1>3
        <4> QED BY <4>1 DEF Cells
      <3> QED BY <3>1, <2>1, <1>1, <1>2
    <2>3. CASE s.column + 1 = Width
      <3>1. k + Width = u + 1
        <4> HIDE DEF k, u
        <4> QED BY <2>3, <1>2, <1>3, <1>4
      <3>2. Fresh(NextLine(p))
            BY <3>1, <2>1, <2>2, NextLineMoves
      <3> QED BY <3>2, <2>3, <1>6 DEF PutChar, p
    <2>4. CASE s.column + 1 # Width
      <3> DEFINE q == [p EXCEPT !.column = @ + 1]
      <3>1. p = [row |-> s.row, column |-> s.column, cells |-> p.cells]
            BY <2>1, ScreenParts
      <3>2. q = [row |-> s.row, column |-> s.column + 1, cells |-> p.cells]
            BY <3>1
      <3> HIDE DEF q
      <3>3. s.column + 1 \in 0..Width - 1
            BY <2>4, <1>2, <1>4
      <3>4. p.cells \in [Cells -> Glyphs \cup {Blank}]
            BY <2>1, ScreenParts
      <3>5. q \in Screens
            BY <3>2, <3>3, <3>4, <1>2, ScreenIs
      <3>6. Cursor(q) = u + 1
        <4>1. Cursor(q) = k + (s.column + 1)
              BY <3>2 DEF Cursor
        <4> HIDE DEF k, u
        <4> QED BY <4>1, <1>2, <1>3
      <3>7. Fresh(q)
            BY <3>2, <3>5, <3>6, <2>2 DEF Fresh
      <3>8. PutChar(s, c) = q
            BY <2>4, <1>6 DEF PutChar, p, q
      <3> QED BY <3>7, <3>8
    <2> QED BY <2>3, <2>4
  <1> QED BY <1>5, <1>6

LEMMA PutCharShows ==
  ASSUME NEW s, Fresh(s), NEW text \in Seq(Glyphs), EndsWith(s, text),
         NEW c \in Glyphs, Fits(Append(text, c))
  PROVE  EndsWith(PutChar(s, c), Append(text, c))
  <1> DEFINE k == s.row * Width
             a == Width * Height
             u == Cursor(s)
             n == Len(text)
             new == Append(text, c)
             p == PutEntryAt(s, c, u)
  <1>1. /\ s \in Screens
        /\ s.row \in 0..Height - 1
        /\ s.column \in 0..Width - 1
        /\ s.cells \in [Cells -> Glyphs \cup {Blank}]
        /\ u = k + s.column
        /\ u \in Cells /\ u \in Nat
        /\ a \in Nat
        BY ScreenParts DEF Fresh
  <1>2. k \in Nat /\ k + Width <= a
        BY <1>1, Rows
  <1>3. Width \in Nat /\ Width > 1
        BY Sizes
  <1>4. n \in Nat /\ n <= u /\ \A i \in 1..n : s.cells[u - n + i - 1] = text[i]
        BY DEF EndsWith
  <1>5. /\ Len(new) = n + 1
        /\ \A i \in 1..n : new[i] = text[i]
        /\ new[n + 1] = c
        OBVIOUS
  <1>6. c # NewLine
        BY Sizes
  <1>7. /\ p \in Screens
        /\ p.row = s.row
        /\ p.column = s.column
        /\ p.cells = [s.cells EXCEPT ![u] = c]
        BY <1>1, PutIs
  <1> HIDE DEF p
  <1>8. ASSUME NEW i \in 1..n + 1
        PROVE  u - n + i - 1 \in Cells /\ p.cells[u - n + i - 1] = new[i]
    <2>1. u - n + i - 1 \in Cells
      <3>1. u \in 0..a - 1
            BY <1>1 DEF Cells
      <3> HIDE DEF u, n, a
      <3>2. u - n + i - 1 \in 0..a - 1
            BY <3>1, <1>1, <1>4
      <3> QED BY <3>2 DEF Cells, a
    <2>2. CASE i = n + 1
      <3>1. u - n + i - 1 = u
        <4> HIDE DEF u, n
        <4> QED BY <2>2, <1>1, <1>4
      <3> QED BY <3>1, <2>1, <2>2, <1>1, <1>5, <1>7
    <2>3. CASE i # n + 1
      <3>1. i \in 1..n /\ u - n + i - 1 # u
        <4> HIDE DEF u, n
        <4> QED BY <2>3, <1>1, <1>4
      <3>2. p.cells[u - n + i - 1] = s.cells[u - n + i - 1]
            BY <3>1, <2>1, <1>1, <1>7
      <3> QED BY <3>1, <3>2, <2>1, <1>4, <1>5
    <2> QED BY <2>2, <2>3
  <1>9. CASE s.column + 1 = Width
    <2> DEFINE t == NextLine(p)
    <2>1. PICK d \in {0, Width} : Moved(p, t, d)
          BY <1>7, NextLineMoves
    <2>2. PutChar(s, c) = t
          BY <1>6, <1>9 DEF PutChar, p
    <2> HIDE DEF t
    <2>3. /\ Cursor(t) = k + Width - d
          /\ d = 0 \/ (d = Width /\ Cursor(t) = Width * (Height - 1))
          /\ \A i \in Cells : i - d \in Cells => t.cells[i - d] = p.cells[i]
          BY <2>1, <1>7 DEF Moved
    <2> HIDE DEF k, u, n, a, new
    <2>4. d \in Nat /\ Cursor(t) = u + 1 - d
      <3>1. d \in Nat
            BY <1>3
      <3>2. Cursor(t) = k + Width - d
            BY <2>3
      <3>3. /\ s.column + 1 = Width /\ s.column \in Nat /\ Width \in Nat
            /\ k \in Nat /\ u \in Nat /\ u = k + s.column
            BY <1>1, <1>2, <1>9
      <3>4. k + Width = u + 1
            BY <3>3
      <3>5. Cursor(t) = u + 1 - d
        <4>1. \A x, y, z, w \in Int : x + y = z + 1 => x + y - w = z + 1 - w
              OBVIOUS
        <4>2. k \in Int /\ Width \in Int /\ u \in Int /\ d \in Int
              BY <3>1, <3>3
        <4>3. k + Width - d = u + 1 - d
              BY <4>1, <4>2, <3>4
        <4> QED BY <4>3, <3>2, Zenon
      <3> QED BY <3>1, <3>5
    <2>5. n + 1 <= Width * (Height - 1)
          BY <1>5 DEF Fits, new
    <2>6. n + 1 <= Cursor(t) /\ Cursor(t) \in Nat
      <3>1. CASE d = 0
            BY <3>1, <2>4, <1>1, <1>4
      <3>2. CASE d # 0
        <4> DEFINE above == Width * (Height - 1)
        <4>1. Cursor(t) = above /\ n + 1 <= above /\ above \in Nat
              BY <3>2, <2>3, <2>5, RowsAbove
        <4> QED BY <4>1
      <3> QED BY <3>1, <3>2
    <2>7. ASSUME NEW i \in 1..n + 1 PROVE t.cells[Cursor(t) - (n + 1) + i - 1] = new[i]
      <3> DEFINE j == u - n + i - 1
      <3>1. j \in Cells /\ p.cells[j] = new[i]
            BY <1>8 DEF u, n, new, a
      <3>2. j - d = Cursor(t) - (n + 1) + i - 1 /\ j - d >= 0 /\ j - d <= j
        <4> DEFINE v == Cursor(t)
        <4>1. v = u + 1 - d /\ v \in Nat /\ n + 1 <= v /\ d \in Nat /\ u \in Nat /\ n \in Nat
              BY <2>4, <2>6, <1>1, <1>4
        <4> HIDE DEF v
        <4>2. j - d = v - (n + 1) + i - 1 /\ j - d >= 0 /\ j - d <= j
              BY <4>1
        <4> QED BY <4>2 DEF v
      <3> HIDE DEF j
      <3>4. j \in 0..a - 1
            BY <3>1 DEF Cells, a
      <3>5. j - d \in 0..a - 1
            BY <3>2, <3>4, <2>4, <1>1
      <3>3. j - d \in Cells
            BY <3>5 DEF Cells, a
      <3> QED BY <3>1, <3>2, <3>3, <2>3
    <2>8. EndsWith(t, new)
          BY <2>6, <2>7, <1>5 DEF EndsWith
    <2> QED BY <2>2, <2>8 DEF new
  <1>10. CASE s.column + 1 # Width
    <2> DEFINE q == [p EXCEPT !.column = @ + 1]
    <2>1. p = [row |-> s.row, column |-> s.column, cells |-> p.cells]
          BY <1>7, ScreenParts
    <2>2. q = [row |-> s.row, column |-> s.column + 1, cells |-> p.cells]
          BY <2>1
    <2>3. PutChar(s, c) = q
          BY <1>6, <1>10 DEF PutChar, p
    <2> HIDE DEF q
    <2>4. Cursor(q) = k + (s.column + 1)
          BY <2>2 DEF Cursor
    <2> HIDE DEF k, u, n, a, new
    <2>5. Cursor(q) = u + 1
          BY <2>4, <1>1, <1>2
    <2>6. n + 1 <= Cursor(q)
          BY <2>5, <1>1, <1>4
    <2>7. ASSUME NEW i \in 1..n + 1 PROVE q.cells[Cursor(q) - (n + 1) + i - 1] = new[i]
      <3>1. Cursor(q) - (n + 1) + i - 1 = u - n + i - 1
            BY <2>5, <1>1, <1>4
      <3>2. p.cells[u - n + i - 1] = new[i]
            BY <1>8 DEF u, n, new, a
      <3> QED BY <3>1, <3>2, <2>2
    <2>8. EndsWith(q, new)
          BY <2>6, <2>7, <1>5 DEF EndsWith
    <2> QED BY <2>3, <2>8 DEF new
  <1> QED BY <1>9, <1>10

-----------------------------------------------------------------------------
(* A function defined by recursion over 0..n exists: g gives the next      *)
(* value.                                                                  *)
Recurses(V, b, n, g) ==
  \E w \in [0..n -> V] : w[0] = b /\ \A i \in 1..n : w[i] = g[i][w[i - 1]]

LEMMA Recursion ==
  ASSUME NEW V, NEW b \in V, NEW n \in Nat, NEW g \in [1..n -> [V -> V]]
  PROVE  Recurses(V, b, n, g)
  <1> DEFINE Upto(k) == \E w \in [0..k -> V] :
                          w[0] = b /\ \A i \in 1..k : w[i] = g[i][w[i - 1]]
             S == {k \in Nat : k <= n => Upto(k)}
  <1>1. 0 \in S
    <2> DEFINE w == [i \in 0..0 |-> b]
    <2>1. w \in [0..0 -> V] /\ w[0] = b /\ \A i \in 1..0 : w[i] = g[i][w[i - 1]]
          OBVIOUS
    <2>2. Upto(0)
          BY <2>1
    <2> QED BY <2>2
  <1>2. ASSUME NEW k \in Nat, k \in S PROVE k + 1 \in S
    <2> SUFFICES ASSUME k + 1 <= n PROVE Upto(k + 1)
        OBVIOUS
    <2>1. PICK w \in [0..k -> V] : w[0] = b /\ \A i \in 1..k : w[i] = g[i][w[i - 1]]
          BY <1>2
    <2> DEFINE v == [i \in 0..k + 1 |-> IF i = k + 1 THEN g[k + 1][w[k]] ELSE w[i]]
    <2>2. k + 1 \in 1..n /\ w[k] \in V
          OBVIOUS
    <2>3. g[k + 1][w[k]] \in V
          BY <2>2
    <2>4. v \in [0..k + 1 -> V] /\ v[0] = b
          BY <2>1, <2>3
    <2>5. ASSUME NEW i \in 1..k + 1 PROVE v[i] = g[i][v[i - 1]]
      <3>1. CASE i = k + 1
            BY <3>1
      <3>2. CASE i # k + 1
        <4>1. i \in 1..k /\ i - 1 \in 0..k /\ i \in 0..k + 1 /\ i - 1 \in 0..k + 1 /\ i - 1 # k + 1
              BY <3>2
        <4>2. v[i] = w[i] /\ v[i - 1] = w[i - 1]
              BY <4>1, <3>2
        <4> QED BY <2>1, <4>1, <4>2
      <3> QED BY <3>1, <3>2
    <2> QED BY <2>4, <2>5
  <1> HIDE DEF Upto
  <1>3. Nat \subseteq S
        BY <1>1, <1>2, Counting
  <1> QED BY <1>3 DEF Upto, Recurses

(* Writing: one character after the other.                                 *)
Writes(s, data, w) ==
  /\ w[0] = s
  /\ \A i \in 1..Len(data) : w[i] = PutChar(w[i - 1], data[i])
  /\ \A i \in 0..Len(data) : Fresh(w[i])
  /\ TerminalWrite(s, data) = w[Len(data)]

LEMMA WritesAre ==
  ASSUME NEW s, Fresh(s), NEW data \in Seq(Glyphs \cup {NewLine})
  PROVE  \E w : Writes(s, data, w)
  <1> DEFINE V == {x \in Screens : Fresh(x)}
             n == Len(data)
             g == [i \in 1..n |-> [x \in V |-> PutChar(x, data[i])]]
             Again(f) == [i \in 0..n |-> IF i = 0 THEN s ELSE PutChar(f[i - 1], data[i])]
             f0 == CHOOSE f : f = Again(f)
  <1>1. n \in Nat /\ \A i \in 1..n : data[i] \in Glyphs \cup {NewLine}
        OBVIOUS
  <1>2. s \in V
        BY DEF Fresh
  <1>3. ASSUME NEW i \in 1..n, NEW x \in V PROVE PutChar(x, data[i]) \in V
    <2>1. Fresh(PutChar(x, data[i]))
          BY <1>1, PutCharKeeps
    <2> QED BY <2>1 DEF Fresh
  <1>4. g \in [1..n -> [V -> V]]
        BY <1>3
  <1>5. TerminalWrite(s, data) = f0[n]
        BY DEF TerminalWrite
  <1>6. \A i \in 1..n : \A x \in V : g[i][x] = PutChar(x, data[i])
        OBVIOUS
  <1>7. \A x \in V : Fresh(x)
        OBVIOUS
  <1> HIDE DEF n, g, V
  <1>8. PICK w \in [0..n -> V] : w[0] = s /\ \A i \in 1..n : w[i] = g[i][w[i - 1]]
    <2>1. Recurses(V, s, n, g)
          BY <1>1, <1>2, <1>4, Recursion
    <2> QED BY <2>1 DEF Recurses
  <1>9. \A i \in 1..n : w[i] = PutChar(w[i - 1], data[i])
    <2> SUFFICES ASSUME NEW i \in 1..n PROVE w[i] = PutChar(w[i - 1], data[i])
        OBVIOUS
    <2>1. i - 1 \in 0..n
          BY <1>1
    <2> QED BY <1>6, <1>8, <2>1
  <1>10. w = Again(w)
    <2>1. \A i \in 0..n : i # 0 => i \in 1..n
          BY <1>1
    <2>2. \A i \in 0..n : w[i] = IF i = 0 THEN s ELSE PutChar(w[i - 1], data[i])
          BY <1>8, <1>9, <2>1
    <2> QED BY <2>2
  <1>11. f0 = Again(f0)
         BY <1>10
  <1> HIDE DEF f0
  <1>12. /\ f0[0] = s
         /\ \A i \in 1..n : f0[i] = PutChar(f0[i - 1], data[i])
    <2>1. \A i \in 0..n : f0[i] = IF i = 0 THEN s ELSE PutChar(f0[i - 1], data[i])
          BY <1>11
    <2>2. 0 \in 0..n /\ \A i \in 1..n : i \in 0..n /\ i # 0
          BY <1>1
    <2> QED BY <2>1, <2>2
  <1>13. \A i \in 0..n : Fresh(f0[i])
    <2> DEFINE S == {i \in Nat : i \in 0..n => f0[i] \in V}
    <2>1. 0 \in S
          BY <1>2, <1>12
    <2>2. ASSUME NEW i \in Nat, i \in S PROVE i + 1 \in S
      <3> SUFFICES ASSUME i + 1 \in 0..n PROVE f0[i + 1] \in V
          OBVIOUS
      <3>1. i \in 0..n /\ i + 1 \in 1..n /\ i + 1 - 1 = i
            BY <1>1
      <3>2. f0[i] \in V
            BY <2>2, <3>1
      <3> QED BY <3>1, <3>2, <1>3, <1>12
    <2>3. Nat \subseteq S
          BY <2>1, <2>2, Counting
    <2>4. \A i \in 0..n : i \in Nat
          BY <1>1
    <2> QED BY <2>3, <2>4, <1>7
  <1>14. Writes(s, data, f0)
         BY <1>5, <1>12, <1>13 DEF Writes, n
  <1> QED BY <1>14

(* What is written to a screen leaves one that is empty from the cursor on.*)
LEMMA WriteKeeps ==
  ASSUME NEW s, Fresh(s), NEW data \in Seq(Glyphs \cup {NewLine})
  PROVE  Fresh(TerminalWrite(s, data))
  <1>1. PICK w : Writes(s, data, w)
        BY WritesAre
  <1>2. Len(data) \in 0..Len(data)
        OBVIOUS
  <1> QED BY <1>1, <1>2 DEF Writes

(* A text written at the start of a line stands before the cursor.         *)
LEMMA WriteShows ==
  ASSUME NEW s, Fresh(s), NEW text \in Seq(Glyphs), Fits(text)
  PROVE  EndsWith(TerminalWrite(s, <<NewLine>> \o text), text)
  <1> DEFINE data == <<NewLine>> \o text
             n == Len(text)
             part(i) == SubSeq(text, 1, i)
  <1>1. /\ data \in Seq(Glyphs \cup {NewLine})
        /\ n \in Nat /\ Len(data) = n + 1
        /\ \A i \in 1..n : data[i + 1] = text[i] /\ text[i] \in Glyphs
        OBVIOUS
  <1>2. part(0) = <<>> /\ part(n) = text
        BY <1>1
  <1>3. \A i \in 0..n : part(i) \in Seq(Glyphs) /\ Len(part(i)) = i
        BY <1>1
  <1>4. ASSUME NEW i \in 1..n PROVE part(i) = Append(part(i - 1), text[i])
        BY <1>1
  <1> HIDE DEF data, n, part
  <1>5. PICK w : Writes(s, data, w)
        BY <1>1, WritesAre
  <1>6. /\ \A i \in 1..n + 1 : w[i] = PutChar(w[i - 1], data[i])
        /\ \A i \in 0..n + 1 : Fresh(w[i])
        /\ TerminalWrite(s, data) = w[n + 1]
        BY <1>1, <1>5 DEF Writes
  <1> DEFINE S == {i \in Nat : i \in 0..n => EndsWith(w[i + 1], part(i))}
  <1>7. 0 \in S
    <2>1. 1 \in 0..n + 1
          BY <1>1
    <2>2. Fresh(w[1])
          BY <2>1, <1>6
    <2>3. Cursor(w[1]) \in Nat
          BY <2>2, ScreenParts DEF Fresh
    <2>4. EndsWith(w[1], <<>>)
          BY <2>3 DEF EndsWith
    <2> QED BY <2>4, <1>2
  <1>8. ASSUME NEW i \in Nat, i \in S PROVE i + 1 \in S
    <2> SUFFICES ASSUME i + 1 \in 0..n PROVE EndsWith(w[i + 1 + 1], part(i + 1))
        OBVIOUS
    <2>1. /\ i \in 0..n /\ i + 1 \in 1..n /\ i + 1 - 1 = i
          /\ i + 1 \in 0..n + 1 /\ i + 2 \in 1..n + 1 /\ i + 1 + 1 = i + 2 /\ i + 2 - 1 = i + 1
          BY <1>1
    <2>2. EndsWith(w[i + 1], part(i)) /\ Fresh(w[i + 1])
          BY <1>6, <1>8, <2>1
    <2>3. part(i + 1) = Append(part(i), text[i + 1]) /\ text[i + 1] \in Glyphs
          BY <1>1, <1>4, <2>1
    <2>4. w[i + 2] = PutChar(w[i + 1], text[i + 1])
          BY <1>1, <1>6, <2>1
    <2>5. part(i) \in Seq(Glyphs) /\ Len(part(i + 1)) = i + 1
          BY <1>3, <2>1
    <2>6. Fits(part(i + 1))
      <3> DEFINE above == Width * (Height - 1)
      <3>1. n <= above /\ above \in Nat
            BY RowsAbove DEF Fits, n
      <3>2. i + 1 <= above
            BY <3>1, <2>1, <1>1
      <3> QED BY <3>2, <2>5 DEF Fits
    <2>7. EndsWith(PutChar(w[i + 1], text[i + 1]), Append(part(i), text[i + 1]))
          BY <2>2, <2>3, <2>5, <2>6, PutCharShows
    <2> QED BY <2>1, <2>3, <2>4, <2>7
  <1>9. Nat \subseteq S
        BY <1>7, <1>8, Counting
  <1>10. EndsWith(w[n + 1], part(n))
    <2>1. n \in 0..n
          BY <1>1
    <2> QED BY <2>1, <1>9, <1>1
  <1> QED BY <1>2, <1>6, <1>10 DEF data

(* One glyph.                                                              *)
LEMMA WriteOne ==
  ASSUME NEW s, Fresh(s), NEW c \in Glyphs \cup {NewLine}
  PROVE  TerminalWrite(s, <<c>>) = PutChar(s, c)
  <1>1. <<c>> \in Seq(Glyphs \cup {NewLine}) /\ Len(<<c>>) = 1 /\ <<c>>[1] = c
        OBVIOUS
  <1>2. PICK w : Writes(s, <<c>>, w)
        BY <1>1, WritesAre
  <1>3. w[1] = PutChar(w[1 - 1], <<c>>[1]) /\ w[0] = s /\ TerminalWrite(s, <<c>>) = w[1]
        BY <1>1, <1>2 DEF Writes
  <1>4. 1 - 1 = 0
        OBVIOUS
  <1> QED BY <1>1, <1>3, <1>4

-----------------------------------------------------------------------------
(* Taking back the last character.                                         *)
LEMMA DivIs ==
  ASSUME NEW b \in Nat, b > 0, NEW q \in Nat, NEW m \in 0..b - 1
  PROVE  (q * b + m) \div b = q
  <1> DEFINE x == q * b + m
             d == x \div b
             r == x % b
  <1>1. q * b \in Nat
    <2>1. \A y, z \in Nat : y * z \in Nat
          OBVIOUS
    <2> QED BY <2>1
  <1>2. x \in Nat
        BY <1>1
  <1> HIDE DEF x
  <1>3. d \in Int /\ r \in 0..b - 1 /\ x = b * d + r
        BY <1>2
  <1> HIDE DEF d, r
  <1>4. b * d = d * b
        BY <1>3
  <1>5. x = q * b + m
        BY DEF x
  <1>6. (q - d) * b = r - m
    <2>1. (q - d) * b = q * b - d * b
          BY <1>3
    <2>2. d * b \in Int
          BY <1>3
    <2> QED BY <2>1, <2>2, <1>1, <1>3, <1>4, <1>5
  <1> DEFINE e == q - d
  <1>7. e \in Int /\ e * b = r - m /\ r - m < b /\ r - m > -b
        BY <1>3, <1>6
  <1> HIDE DEF e
  <1>8. ~(e >= 1)
    <2> SUFFICES ASSUME e >= 1 PROVE FALSE
        OBVIOUS
    <2>1. e - 1 \in Nat /\ (e - 1) * b = e * b - b
          BY <1>7
    <2>2. (e - 1) * b \in Nat
      <3>1. \A y, z \in Nat : y * z \in Nat
            OBVIOUS
      <3> QED BY <3>1, <2>1
    <2>3. e * b \in Int
          BY <1>7
    <2> QED BY <2>1, <2>2, <2>3, <1>3, <1>7
  <1>9. ~(e <= -1)
    <2> SUFFICES ASSUME e <= -1 PROVE FALSE
        OBVIOUS
    <2>1. -e - 1 \in Nat /\ (-e - 1) * b = -(e * b) - b
          BY <1>7
    <2>2. (-e - 1) * b \in Nat
      <3>1. \A y, z \in Nat : y * z \in Nat
            OBVIOUS
      <3> QED BY <3>1, <2>1
    <2>3. e * b \in Int
          BY <1>7
    <2> QED BY <2>1, <2>2, <2>3, <1>3, <1>7
  <1>10. e = 0
         BY <1>7, <1>8, <1>9
  <1>11. d = q
         BY <1>10, <1>3 DEF e
  <1> QED BY <1>11 DEF d, x

LEMMA GreatestIs ==
  ASSUME NEW S \in SUBSET Int, NEW m \in S, \A y \in S : y <= m
  PROVE  Max(S) = m
  <1>1. Max(S) \in S /\ \A y \in S : Max(S) >= y
    <2>1. \A y \in S : m >= y
          OBVIOUS
    <2> QED BY <2>1 DEF Max
  <1>2. Max(S) \in Int /\ m \in Int /\ Max(S) >= m /\ Max(S) <= m
        BY <1>1
  <1> QED BY <1>2

(* The cursor goes back one cell, up a line where it has to.               *)
Back(s) == IF s.column = 0 THEN UpALine(s) ELSE [s EXCEPT !.column = @ - 1]

LEMMA UpALineIs ==
  ASSUME NEW r, NEW c, NEW f, NEW s, s = [row |-> r, column |-> c, cells |-> f],
         NEW up, NEW at,
         (Max(Above(s)) - 1) \div Width = up, Max(Above(s)) - Width * up = at
  PROVE  UpALine(s) = [row |-> up, column |-> at, cells |-> f]
  <1>1. [s EXCEPT !.row = up] = [row |-> up, column |-> c, cells |-> f]
        OBVIOUS
  <1>2. [[row |-> up, column |-> c, cells |-> f] EXCEPT !.column = at]
          = [row |-> up, column |-> at, cells |-> f]
        OBVIOUS
  <1>3. [s EXCEPT !.row = up, !.column = at] = [[s EXCEPT !.row = up] EXCEPT !.column = at]
        OBVIOUS
  <1>4. UpALine(s) = [s EXCEPT !.row = up, !.column = at]
        BY DEF UpALine
  <1> QED BY <1>1, <1>2, <1>3, <1>4

LEMMA BackIs ==
  ASSUME NEW s, Fresh(s), Cursor(s) > 0, s.cells[Cursor(s) - 1] # Blank
  PROVE  /\ RemEnds(s)
         /\ Back(s) \in Screens
         /\ Cursor(Back(s)) = Cursor(s) - 1
         /\ Back(s).cells = s.cells
  <1> DEFINE r == s.row
             col == s.column
             f == s.cells
             k == r * Width
             a == Width * Height
             u == Cursor(s)
  <1>1. /\ s \in Screens
        /\ r \in 0..Height - 1
        /\ col \in 0..Width - 1
        /\ f \in [Cells -> Glyphs \cup {Blank}]
        /\ s = [row |-> r, column |-> col, cells |-> f]
        /\ u = k + col
        /\ u \in Cells /\ u \in Nat
        /\ a \in Nat
        BY ScreenParts DEF Fresh
  <1>2. /\ k \in Nat
        /\ k + Width <= a
        /\ (r - 1) * Width = k - Width
        /\ r > 0 => k - Width \in Nat
        BY <1>1, Rows
  <1>3. Width \in Nat /\ Width > 1
        BY Sizes
  <1>4. u > 0 /\ f[u - 1] # Blank /\ \A i \in u..a - 1 : f[i] = Blank
        BY DEF Fresh
  <1>5. CASE col # 0
    <2>1. RemEnds(s)
          BY <1>5 DEF RemEnds
    <2> DEFINE q == [s EXCEPT !.column = @ - 1]
    <2>2. Back(s) = q
          BY <1>5 DEF Back
    <2>3. q = [row |-> r, column |-> col - 1, cells |-> f]
          BY <1>1
    <2> HIDE DEF q
    <2>4. col - 1 \in 0..Width - 1
          BY <1>1, <1>3, <1>5
    <2>5. q \in Screens
          BY <2>3, <2>4, <1>1, ScreenIs
    <2>6. q.row = r /\ q.column = col - 1 /\ q.cells = f
          BY <2>3
    <2>7. Cursor(q) = k + (col - 1)
          BY <2>6 DEF Cursor
    <2>8. k + (col - 1) = u - 1
      <3> HIDE DEF k, u, r, col
      <3> QED BY <1>1, <1>2
    <2> QED BY <2>1, <2>2, <2>5, <2>6, <2>7, <2>8
  <1>6. CASE col = 0
    <2>1. r > 0 /\ r - 1 \in Nat /\ r # 0 /\ u = k
      <3>1. r # 0
        <4> SUFFICES ASSUME r = 0 PROVE FALSE
            OBVIOUS
        <4>1. 0 * Width = 0
              BY <1>3
        <4> QED BY <4>1, <1>1, <1>4, <1>6
      <3>2. u = k
        <4> HIDE DEF k, u
        <4> QED BY <1>1, <1>2, <1>6
      <3> QED BY <3>1, <3>2, <1>1
    <2>2. k - Width \in Nat /\ Width * r = k
      <3>1. Width * r = k
            BY <1>1, <1>3
      <3> QED BY <3>1, <2>1, <1>2
    <2>3. Above(s) = {i \in 1..u : f[i] # Blank}
          BY <2>1, <2>2 DEF Above
    <2>4. u - 1 \in Above(s) /\ \A y \in Above(s) : y \in Int /\ y <= u - 1
      <3>1. u \in 0..a - 1
            BY <1>1 DEF Cells
      <3> HIDE DEF u, k, a
      <3>2. u - 1 \in 1..u
            BY <1>1, <1>3, <2>1, <2>2
      <3>3. u - 1 \in Above(s)
            BY <3>2, <2>3, <1>4
      <3>4. f[u] = Blank
            BY <3>1, <1>1, <1>4
      <3>5. ASSUME NEW y \in Above(s) PROVE y \in Int /\ y <= u - 1
        <4>1. y \in 1..u /\ y # u
              BY <2>3, <3>4
        <4> QED BY <4>1, <1>1
      <3> QED BY <3>3, <3>5
    <2>5. RemEnds(s)
          BY <2>4 DEF RemEnds
    <2>6. Max(Above(s)) = u - 1
          BY <2>4, GreatestIs
    <2>7. u - 1 - 1 = (r - 1) * Width + (Width - 2) /\ Width - 2 \in 0..Width - 1
      <3> DEFINE h == (r - 1) * Width
      <3>1. h = k - Width
            BY <1>2
      <3> HIDE DEF h, k, u
      <3>2. u - 1 - 1 = h + (Width - 2) /\ Width - 2 \in 0..Width - 1
            BY <3>1, <1>2, <1>3, <2>1
      <3> QED BY <3>2 DEF h
    <2>8. (u - 1 - 1) \div Width = r - 1
      <3> DEFINE above == r - 1
                 rest == Width - 2
      <3>1. above \in Nat /\ rest \in 0..Width - 1 /\ Width > 0
            BY <2>1, <2>7, <1>3
      <3>2. u - 1 - 1 = above * Width + rest
            BY <2>7
      <3> HIDE DEF above, rest, u
      <3>3. (above * Width + rest) \div Width = above
            BY <3>1, <1>3, DivIs
      <3>4. (u - 1 - 1) \div Width = above
            BY <3>2, <3>3
      <3> QED BY <3>4 DEF above
    <2>9. u - 1 - Width * (r - 1) = Width - 1
      <3> DEFINE h == Width * (r - 1)
      <3>1. h = (r - 1) * Width
            BY <1>1, <1>3
      <3>2. h = k - Width
            BY <3>1, <1>2
      <3> HIDE DEF h, k, u
      <3>3. u - 1 - h = Width - 1
            BY <3>2, <1>2, <1>3, <2>1
      <3> QED BY <3>3 DEF h
    <2> DEFINE q == UpALine(s)
    <2>10. Back(s) = q
           BY <1>6 DEF Back
    <2>11. q = [row |-> r - 1, column |-> Width - 1, cells |-> f]
      <3> DEFINE up == r - 1
                 at == Width - 1
      <3>1. (Max(Above(s)) - 1) \div Width = up /\ Max(Above(s)) - Width * up = at
            BY <2>6, <2>8, <2>9
      <3>2. s = [row |-> r, column |-> col, cells |-> f]
            BY <1>1
      <3> HIDE DEF up, at, r, col, f
      <3>3. UpALine(s) = [row |-> up, column |-> at, cells |-> f]
            BY <3>1, <3>2, UpALineIs
      <3> QED BY <3>3 DEF up, at
    <2> HIDE DEF q
    <2>12. r - 1 \in 0..Height - 1 /\ Width - 1 \in 0..Width - 1
      <3>1. r \in 0..Height - 1 /\ r > 0
            BY <1>1, <2>1
      <3> HIDE DEF r
      <3> QED BY <3>1, Sizes
    <2>13. q \in Screens
           BY <2>11, <2>12, <1>1, ScreenIs
    <2>14. q.row = r - 1 /\ q.column = Width - 1 /\ q.cells = f
           BY <2>11
    <2>15. Cursor(q) = (r - 1) * Width + (Width - 1)
           BY <2>14 DEF Cursor
    <2>16. (r - 1) * Width + (Width - 1) = u - 1
      <3> DEFINE h == (r - 1) * Width
      <3>1. h = k - Width
            BY <1>2
      <3> HIDE DEF h, k, u
      <3>2. h + (Width - 1) = u - 1
            BY <3>1, <1>2, <1>3, <2>1
      <3> QED BY <3>2 DEF h
    <2> QED BY <2>5, <2>10, <2>13, <2>14, <2>15, <2>16
  <1> QED BY <1>5, <1>6

LEMMA RemTakesBack ==
  ASSUME NEW s, Fresh(s), NEW text \in Seq(Glyphs), NEW c \in Glyphs,
         EndsWith(s, Append(text, c))
  PROVE  /\ RemEnds(s)
         /\ Fresh(TerminalRem(s))
         /\ EndsWith(TerminalRem(s), text)
  <1> DEFINE u == Cursor(s)
             n == Len(text)
             old == Append(text, c)
             b == Back(s)
             t == PutEntryAt(b, Blank, Cursor(b))
             a == Width * Height
  <1>1. /\ Len(old) = n + 1 /\ n \in Nat
        /\ \A i \in 1..n : old[i] = text[i]
        /\ old[n + 1] = c
        OBVIOUS
  <1>2. /\ s \in Screens
        /\ u \in Cells /\ u \in Nat /\ a \in Nat
        /\ s.cells \in [Cells -> Glyphs \cup {Blank}]
        BY ScreenParts DEF Fresh
  <1>3. n + 1 <= u /\ \A i \in 1..n + 1 : s.cells[u - (n + 1) + i - 1] = old[i]
        BY <1>1 DEF EndsWith
  <1>4. u > 0 /\ s.cells[u - 1] = c
    <2> HIDE DEF u, n, old
    <2>1. n + 1 \in 1..n + 1 /\ u - (n + 1) + (n + 1) - 1 = u - 1
          BY <1>1, <1>2
    <2>2. s.cells[u - (n + 1) + (n + 1) - 1] = old[n + 1]
          BY <1>3, <2>1
    <2> QED BY <2>1, <2>2, <1>1, <1>2, <1>3
  <1>5. c # Blank
        BY Sizes
  <1>6. /\ RemEnds(s)
        /\ b \in Screens
        /\ Cursor(b) = u - 1
        /\ b.cells = s.cells
        BY <1>4, <1>5, BackIs
  <1> HIDE DEF b
  <1>7. TerminalRem(s) = t
        BY DEF TerminalRem, Back, b
  <1>8. /\ t \in Screens
        /\ t.row = b.row
        /\ t.column = b.column
        /\ t.cells = [s.cells EXCEPT ![u - 1] = Blank]
    <2>1. Blank \in Glyphs \cup {Blank}
          OBVIOUS
    <2>2. /\ t \in Screens
          /\ t.row = b.row
          /\ t.column = b.column
          /\ t.cells = [b.cells EXCEPT ![Cursor(b)] = Blank]
          BY <1>6, <2>1, PutIs
    <2> HIDE DEF t
    <2> QED BY <2>2, <1>6
  <1> HIDE DEF t
  <1>9. Cursor(t) = u - 1
        BY <1>6, <1>8 DEF Cursor
  <1>10. Cells = 0..a - 1
         BY DEF Cells
  <1>11. Fresh(t)
    <2> SUFFICES ASSUME NEW i \in u - 1..a - 1 PROVE t.cells[i] = Blank
        BY <1>8, <1>9 DEF Fresh
    <2> HIDE DEF u, a
    <2>1. i \in Cells
          BY <1>2, <1>4, <1>10
    <2>2. CASE i = u - 1
          BY <2>1, <2>2, <1>2, <1>8
    <2>3. CASE i # u - 1
      <3>1. i \in u..a - 1
            BY <2>3, <1>2
      <3>2. s.cells[i] = Blank
            BY <3>1 DEF Fresh, u, a
      <3> QED BY <3>2, <2>1, <2>3, <1>2, <1>8
    <2> QED BY <2>2, <2>3
  <1>12. EndsWith(t, text)
    <2>1. n <= u - 1
      <3> HIDE DEF u, n
      <3> QED BY <1>1, <1>2, <1>3
    <2>2. ASSUME NEW i \in 1..n PROVE t.cells[u - 1 - n + i - 1] = text[i]
      <3> DEFINE j == u - 1 - n + i - 1
      <3>1. i \in 1..n + 1 /\ u - (n + 1) + i - 1 = j /\ j \in 0..a - 1 /\ j # u - 1
        <4>1. u \in 0..a - 1
              BY <1>2, <1>10
        <4> HIDE DEF u, n, a
        <4> QED BY <4>1, <1>1, <1>2, <1>3
      <3>2. s.cells[j] = text[i]
            BY <3>1, <1>1, <1>3
      <3> HIDE DEF j
      <3>3. t.cells[j] = s.cells[j]
            BY <3>1, <1>2, <1>8, <1>10
      <3> QED BY <3>2, <3>3 DEF j
    <2> QED BY <2>1, <2>2, <1>9 DEF EndsWith
  <1> QED BY <1>6, <1>7, <1>11, <1>12

-----------------------------------------------------------------------------
(* The inductive invariant: what is typed stands right before the cursor,  *)
(* and the line that is split has an end that strtok does not pass.        *)
ReadInv ==
  step = "read" =>
    /\ line \in Seq(Glyphs) /\ Len(line) < InputBufferSize
    /\ EndsWith(screen, Prompt \o line)

StartInv ==
  step \in {"prompt", "read"} => next = 1 /\ tokens = <<>> /\ argc = 0

Ended(text) == text \in Seq(Glyphs \cup {Nul}) /\ text # <<>> /\ text[Len(text)] = Nul

SplitInv ==
  step \in {"split", "run"} =>
    /\ Ended(line)
    /\ next \in 1..Len(line)
    /\ tokens \in Seq(1..Len(line))
    /\ IF step = "split" THEN Len(tokens) < TokenBufferSize ELSE Len(tokens) <= TokenBufferSize

StepInv ==
  /\ step \in {"prompt", "read", "split", "run"}
  /\ step = "prompt" => line = <<>>
  /\ argc \in Nat /\ typed \in Seq(Glyphs) /\ full \in BOOLEAN

InputInv == Fresh(screen) /\ ReadInv /\ StartInv /\ SplitInv /\ StepInv

LEMMA SeqEntry ==
  ASSUME NEW S, NEW q \in Seq(S), NEW i \in 1..Len(q)
  PROVE  q[i] \in S
  OBVIOUS

LEMMA FrontAppend ==
  ASSUME NEW S, NEW q \in Seq(S), q # <<>>
  PROVE  /\ Front(q) \in Seq(S) /\ Len(Front(q)) = Len(q) - 1
         /\ q[Len(q)] \in S /\ q = Append(Front(q), q[Len(q)])
  <1> DEFINE n == Len(q)
             f == Front(q)
             b == Append(f, q[n])
  <1>1. n \in Nat /\ n > 0 /\ q[n] \in S /\ \A i \in 1..n : q[i] \in S
        OBVIOUS
  <1>2. f = SubSeq(q, 1, n - 1)
        BY DEF Front
  <1>3. f \in Seq(S) /\ Len(f) = n - 1 /\ \A i \in 1..n - 1 : f[i] = q[i]
    <2> DEFINE m == n - 1
    <2>1. m \in Nat /\ m - 1 + 1 = m /\ \A i \in 1..m : q[i] \in S /\ 1 + i - 1 = i
          BY <1>1
    <2> HIDE DEF m, n
    <2>2. /\ SubSeq(q, 1, m) \in Seq(S)
          /\ Len(SubSeq(q, 1, m)) = IF 1 <= m THEN m - 1 + 1 ELSE 0
          /\ \A i \in 1..m - 1 + 1 : SubSeq(q, 1, m)[i] = q[1 + i - 1]
          BY <2>1, SubSeqProperties
    <2>3. Len(SubSeq(q, 1, m)) = m
          BY <2>1, <2>2
    <2>4. \A i \in 1..m : SubSeq(q, 1, m)[i] = q[i]
          BY <2>1, <2>2
    <2> QED BY <2>2, <2>3, <2>4, <1>2 DEF m
  <1> HIDE DEF f
  <1>4. b \in Seq(S) /\ Len(b) = n
        BY <1>1, <1>3
  <1>5. \A i \in 1..n : b[i] = q[i]
    <2> SUFFICES ASSUME NEW i \in 1..n PROVE b[i] = q[i]
        OBVIOUS
    <2>1. CASE i = n
          BY <2>1, <1>1, <1>3
    <2>2. CASE i # n
      <3>1. i \in 1..n - 1
            BY <2>2, <1>1
      <3> QED BY <3>1, <1>3
    <2> QED BY <2>1, <2>2
  <1> HIDE DEF b
  <1>6. b = q
        BY <1>4, <1>5, SeqEqual
  <1> QED BY <1>1, <1>3, <1>6 DEF b, f

LEMMA Inputs ==
  /\ Space \in Glyphs /\ Nul \notin Glyphs /\ Nul # Space /\ Nul # NewLine
  /\ Prompt \in Seq(Glyphs) /\ Banner \in Seq(Glyphs \cup {NewLine})
  /\ InputBufferSize \in Nat /\ InputBufferSize > 0
  /\ TokenBufferSize \in Nat /\ TokenBufferSize > 0
  /\ \A o \in Outputs : o \in Seq(Glyphs \cup {NewLine})
  BY ShellInputAssumption

LEMMA PromptAppend ==
  ASSUME NEW q \in Seq(Glyphs), NEW c \in Glyphs
  PROVE  Prompt \o q \in Seq(Glyphs) /\ Append(Prompt \o q, c) = Prompt \o Append(q, c)
  <1>1. /\ Prompt \in Seq(Glyphs) /\ Prompt \o q \in Seq(Glyphs)
        /\ Append(q, c) \in Seq(Glyphs) /\ <<c>> \in Seq(Glyphs)
        BY Inputs
  <1>2. (Prompt \o q) \o <<c>> = Prompt \o (q \o <<c>>)
        BY <1>1, ConcatAssociative
  <1>3. Append(Prompt \o q, c) = (Prompt \o q) \o <<c>>
        BY <1>1, AppendIsConcat
  <1>4. Append(q, c) = q \o <<c>>
        BY <1>1, AppendIsConcat
  <1> QED BY <1>1, <1>2, <1>3, <1>4

(* A prompt and a line that fits its buffer fit above the last row.        *)
LEMMA LineFits ==
  ASSUME NEW text \in Seq(Glyphs), Len(text) <= InputBufferSize
  PROVE  Fits(Prompt \o text)
  <1> DEFINE above == Width * (Height - 1)
             n == Len(Prompt)
  <1>1. n + InputBufferSize <= above
        BY ShellInputAssumption
  <1>2. above \in Nat
        BY RowsAbove
  <1>3. Prompt \in Seq(Glyphs) /\ InputBufferSize \in Nat
        BY Inputs
  <1>4. n \in Nat /\ Len(text) \in Nat
        BY <1>3
  <1>5. Len(Prompt \o text) = n + Len(text)
        BY <1>3
  <1> HIDE DEF n, above
  <1>6. n + Len(text) <= above
        BY <1>1, <1>2, <1>3, <1>4
  <1> QED BY <1>5, <1>6 DEF Fits, above

(* strtok's searches end at the end of the line at the latest.             *)
LEMMA FirstIs ==
  ASSUME Ended(line), NEW from \in 1..Len(line), NEW chars, Nul \in chars
  PROVE  /\ First(from, chars) \in from..Len(line)
         /\ line[First(from, chars)] \in chars
         /\ \A i \in from..First(from, chars) - 1 : line[i] \notin chars
  <1> DEFINE S == {i \in from..Len(line) : line[i] \in chars}
             f == First(from, chars)
  <1>1. Len(line) \in Nat /\ line[Len(line)] = Nul
        BY DEF Ended
  <1>2. S \in SUBSET Nat
        BY <1>1
  <1>3. Len(line) \in S
        BY <1>1
  <1>4. f = Min(S)
        BY DEF First
  <1>5. f \in S /\ \A y \in S : f <= y
        BY <1>2, <1>3, <1>4, LeastIs
  <1> HIDE DEF f
  <1>6. f \in from..Len(line) /\ line[f] \in chars
        BY <1>5
  <1>7. ASSUME NEW i \in from..f - 1 PROVE line[i] \notin chars
    <2>1. i \in from..Len(line) /\ ~(f <= i)
          BY <1>1, <1>6
    <2> QED BY <2>1, <1>5
  <1> QED BY <1>6, <1>7 DEF f

LEMMA ClearedIs == Fresh(Cleared)
  <1> DEFINE f == [i \in Cells |-> Blank]
             zero == 0
  <1>1. f \in [Cells -> Glyphs \cup {Blank}]
        OBVIOUS
  <1>2. zero \in 0..Height - 1 /\ zero \in 0..Width - 1
        BY Sizes
  <1>3. Cleared = [row |-> zero, column |-> zero, cells |-> f]
        BY DEF Cleared
  <1> HIDE DEF zero, f
  <1>4. Cleared \in Screens
        BY <1>1, <1>2, <1>3, ScreenIs
  <1>5. Cleared.cells = f
        BY <1>3
  <1>6. Cursor(Cleared) \in Nat /\ Width * Height \in Nat
        BY <1>4, ScreenParts
  <1>7. ASSUME NEW i \in Cursor(Cleared)..Width * Height - 1 PROVE Cleared.cells[i] = Blank
    <2> DEFINE a == Width * Height
               u == Cursor(Cleared)
    <2>1. u \in Nat /\ a \in Nat /\ i \in u..a - 1
          BY <1>6
    <2> HIDE DEF a, u
    <2>2. i \in 0..a - 1
          BY <2>1
    <2>3. i \in Cells
          BY <2>2 DEF Cells, a
    <2> QED BY <2>3, <1>5 DEF f
  <1> QED BY <1>4, <1>7 DEF Fresh

-----------------------------------------------------------------------------
(* The invariant holds at first and after every action.                    *)
LEMMA InitInput == Init => InputInv
  <1> SUFFICES ASSUME Init PROVE InputInv
      OBVIOUS
  <1>1. screen = TerminalWrite(Cleared, Banner)
        BY DEF Init
  <1>2. Fresh(screen)
        BY <1>1, ClearedIs, Inputs, WriteKeeps
  <1>3. step = "prompt" /\ line = <<>> /\ next = 1 /\ tokens = <<>> /\ argc = 0
        /\ typed = <<>> /\ full = FALSE
        BY DEF Init
  <1>4. <<>> \in Seq(Glyphs) /\ 0 \in Nat
        OBVIOUS
  <1> QED BY <1>2, <1>3, <1>4 DEF InputInv, ReadInv, StartInv, SplitInv, StepInv

LEMMA OutputPromptInput ==
  ASSUME InputInv, OutputPrompt PROVE InputInv'
  <1> DEFINE t == TerminalWrite(screen, <<NewLine>> \o Prompt)
  <1>1. Fresh(screen) /\ Prompt \in Seq(Glyphs)
        BY Inputs DEF InputInv
  <1>2. <<NewLine>> \o Prompt \in Seq(Glyphs \cup {NewLine})
        BY <1>1
  <1>3. Fresh(t)
        BY <1>1, <1>2, WriteKeeps
  <1>4. Prompt \o <<>> = Prompt
        BY <1>1
  <1>5. Fits(Prompt)
    <2>1. <<>> \in Seq(Glyphs) /\ Len(<<>>) <= InputBufferSize
          BY Inputs
    <2> QED BY <2>1, <1>4, LineFits
  <1>6. EndsWith(t, Prompt)
        BY <1>1, <1>5, WriteShows
  <1>7. /\ screen' = t
        /\ step' = "read" /\ line' = <<>> /\ next' = 1 /\ tokens' = <<>> /\ argc' = 0
        /\ typed' = <<>> /\ full' = FALSE
        BY DEF OutputPrompt
  <1> HIDE DEF t
  <1>8. Fresh(screen)'
        BY <1>3, <1>7
  <1>9. EndsWith(screen, Prompt \o line)'
        BY <1>4, <1>6, <1>7
  <1>10. <<>> \in Seq(Glyphs) /\ Len(<<>>) < InputBufferSize
         BY Inputs
  <1> QED BY <1>7, <1>8, <1>9, <1>10 DEF InputInv, ReadInv, StartInv, SplitInv, StepInv

LEMMA PrintableInput ==
  ASSUME InputInv, NEW c \in Glyphs, Printable(c) PROVE InputInv'
  <1> DEFINE t == TerminalWrite(screen, <<c>>)
             new == Append(line, c)
  <1>1. /\ step = "read" /\ Fresh(screen)
        /\ line \in Seq(Glyphs) /\ Len(line) < InputBufferSize
        /\ EndsWith(screen, Prompt \o line)
        /\ next = 1 /\ tokens = <<>> /\ argc = 0
        /\ typed \in Seq(Glyphs) /\ full \in BOOLEAN
        BY DEF Printable, InputInv, ReadInv, StartInv, StepInv
  <1>2. t = PutChar(screen, c)
        BY <1>1, WriteOne
  <1>3. Fresh(t)
        BY <1>1, <1>2, PutCharKeeps
  <1>4. /\ new \in Seq(Glyphs) /\ Len(new) = Len(line) + 1
        /\ Len(line) \in Nat /\ InputBufferSize \in Nat
        BY <1>1, Inputs
  <1>5. Prompt \o line \in Seq(Glyphs) /\ Append(Prompt \o line, c) = Prompt \o new
    <2>1. line \in Seq(Glyphs)
          BY <1>1
    <2> QED BY <2>1, PromptAppend
  <1>6. Fits(Prompt \o new)
    <2>1. Len(new) <= InputBufferSize
          BY <1>1, <1>4
    <2> QED BY <2>1, <1>4, LineFits
  <1>7. EndsWith(t, Prompt \o new)
        BY <1>1, <1>2, <1>5, <1>6, PutCharShows
  <1>8. screen' = t /\ next' = 1 /\ tokens' = <<>> /\ argc' = 0
        BY <1>1 DEF Printable
  <1>9. Fresh(screen)'
        BY <1>3, <1>8
  <1>10. CASE Len(line) + 1 < InputBufferSize
    <2>1. line' = new /\ step' = "read" /\ typed' = typed /\ full' = full
          BY <1>1, <1>10 DEF Printable
    <2> HIDE DEF t, new
    <2>2. EndsWith(screen, Prompt \o line)'
          BY <2>1, <1>7, <1>8
    <2> QED BY <2>1, <2>2, <1>1, <1>4, <1>8, <1>9, <1>10
            DEF InputInv, ReadInv, StartInv, SplitInv, StepInv
  <1>11. CASE ~(Len(line) + 1 < InputBufferSize)
    <2>1. PICK b \in Behind : line' = new \o b \o <<Nul>>
          BY <1>11 DEF Printable
    <2>2. step' = "split" /\ typed' = new /\ full' = TRUE
          BY <1>11 DEF Printable, Return
    <2>3. b \in Seq(Glyphs)
          BY ShellInputAssumption
    <2> HIDE DEF t, new
    <2>4. new \o b \in Seq(Glyphs) /\ new \o b \in Seq(Glyphs \cup {Nul})
          BY <2>3, <1>4
    <2>5. Ended(line')
      <3> DEFINE m == new \o b
      <3>1. m \in Seq(Glyphs \cup {Nul}) /\ <<Nul>> \in Seq(Glyphs \cup {Nul})
            BY <2>4
      <3> HIDE DEF m
      <3>2. Ended(m \o <<Nul>>)
            BY <3>1 DEF Ended
      <3> QED BY <3>2, <2>1 DEF m
    <2>6. 1 \in 1..Len(line') /\ <<>> \in Seq(1..Len(line')) /\ Len(<<>>) < TokenBufferSize
          BY <2>5, Inputs DEF Ended
    <2>7. Ended(line)'
          BY <2>5 DEF Ended
    <2> QED BY <2>2, <2>6, <2>7, <1>4, <1>8, <1>9
            DEF InputInv, ReadInv, StartInv, SplitInv, StepInv
  <1> QED BY <1>10, <1>11

LEMMA BackspaceInput ==
  ASSUME InputInv, Backspace PROVE InputInv'
  <1> DEFINE t == TerminalRem(screen)
             n == Len(line)
             new == Front(line)
             c == line[n]
  <1>1. /\ step = "read" /\ Fresh(screen) /\ line # <<>>
        /\ line \in Seq(Glyphs) /\ n < InputBufferSize
        /\ EndsWith(screen, Prompt \o line)
        /\ next = 1 /\ tokens = <<>> /\ argc = 0
        /\ typed \in Seq(Glyphs) /\ full \in BOOLEAN
        BY DEF Backspace, InputInv, ReadInv, StartInv, StepInv
  <1>2. n \in Nat /\ n > 0 /\ InputBufferSize \in Nat
        BY <1>1, Inputs
  <1>3. new \in Seq(Glyphs) /\ Len(new) = n - 1 /\ c \in Glyphs /\ line = Append(new, c)
        BY <1>1, FrontAppend
  <1> HIDE DEF new, c
  <1>4. Prompt \o new \in Seq(Glyphs) /\ Append(Prompt \o new, c) = Prompt \o line
    <2>1. new \in Seq(Glyphs) /\ c \in Glyphs
          BY <1>3
    <2>2. Prompt \o new \in Seq(Glyphs) /\ Append(Prompt \o new, c) = Prompt \o Append(new, c)
          BY <2>1, PromptAppend
    <2>3. Append(new, c) = line
          BY <1>3
    <2> HIDE DEF n
    <2> QED BY <2>2, <2>3
  <1>5. Fresh(t) /\ EndsWith(t, Prompt \o new)
        BY <1>1, <1>3, <1>4, RemTakesBack
  <1>6. /\ screen' = t /\ line' = new /\ step' = "read"
        /\ next' = 1 /\ tokens' = <<>> /\ argc' = 0 /\ typed' = typed /\ full' = full
        BY <1>1 DEF Backspace, new
  <1> HIDE DEF t
  <1>7. Fresh(screen)'
        BY <1>5, <1>6
  <1>8. EndsWith(screen, Prompt \o line)'
        BY <1>5, <1>6
  <1>9. Len(new) < InputBufferSize
        BY <1>1, <1>2, <1>3
  <1> QED BY <1>1, <1>3, <1>6, <1>7, <1>8, <1>9
          DEF InputInv, ReadInv, StartInv, SplitInv, StepInv

LEMMA EnterInput ==
  ASSUME InputInv, Enter PROVE InputInv'
  <1>1. /\ step = "read" /\ Fresh(screen) /\ line \in Seq(Glyphs)
        /\ next = 1 /\ tokens = <<>> /\ argc = 0
        BY DEF Enter, InputInv, ReadInv, StartInv
  <1>2. /\ screen' = TerminalWrite(screen, <<NewLine>>) /\ line' = Append(line, Nul)
        /\ step' = "split" /\ typed' = line /\ full' = FALSE
        /\ next' = 1 /\ tokens' = <<>> /\ argc' = 0
        BY <1>1 DEF Enter, Return
  <1>3. <<NewLine>> \in Seq(Glyphs \cup {NewLine})
        OBVIOUS
  <1>4. Fresh(TerminalWrite(screen, <<NewLine>>))
        BY <1>1, <1>3, WriteKeeps
  <1>5. Fresh(screen)'
        BY <1>2, <1>4
  <1>6. Ended(Append(line, Nul))
    <2>1. line \in Seq(Glyphs \cup {Nul})
          BY <1>1
    <2> QED BY <2>1 DEF Ended
  <1>7. Ended(line)'
        BY <1>2, <1>6 DEF Ended
  <1>8. 1 \in 1..Len(line') /\ <<>> \in Seq(1..Len(line')) /\ Len(<<>>) < TokenBufferSize
        BY <1>7, Inputs DEF Ended
  <1> QED BY <1>1, <1>2, <1>5, <1>7, <1>8
          DEF InputInv, ReadInv, StartInv, SplitInv, StepInv

(* One call of strtok: the last one, or one that finds the word from s on, *)
(* which ends before e.                                                    *)
LastCall(s) ==
  /\ line[s] = Nul
  /\ next' = s /\ step' = "run" /\ argc' = Len(tokens)
  /\ line' = line /\ tokens' = tokens

WordCall(s, e) ==
  /\ \A i \in s..e - 1 : line[i] # Space /\ line[i] # Nul
  /\ line[e] \in {Space, Nul}
  /\ line' = [line EXCEPT ![e] = Nul]
  /\ next' = IF line[e] = Nul THEN e ELSE e + 1
  /\ tokens' = Append(tokens, s)
  /\ IF Len(tokens) + 1 >= TokenBufferSize THEN step' = "run" /\ argc' \in Nat
     ELSE step' = "split" /\ argc' = argc

LEMMA StrtokIs ==
  ASSUME InputInv, Strtok
  PROVE  /\ screen' = screen /\ typed' = typed /\ full' = full /\ step = "split"
         /\ \E s \in next..Len(line) :
              /\ \A i \in next..s - 1 : line[i] = Space
              /\ line[s] # Space
              /\ LastCall(s) \/ \E e \in s + 1..Len(line) : WordCall(s, e)
  <1> DEFINE n == Len(line)
             gap == (Glyphs \cup {Nul}) \ {Space}
             s == SpacesSkipped
             e == First(s, {Space, Nul})
  <1>1. /\ step = "split" /\ screen' = screen /\ typed' = typed /\ full' = full
        BY DEF Strtok
  <1>2. Ended(line) /\ next \in 1..n /\ tokens \in Seq(1..n)
        BY <1>1 DEF InputInv, SplitInv
  <1>3. n \in Nat /\ line[n] = Nul /\ \A i \in 1..n : line[i] \in Glyphs \cup {Nul}
        BY <1>2 DEF Ended
  <1>4. Nul \in gap /\ Nul # Space
        BY Inputs
  <1>5. s = First(next, gap)
        BY DEF SpacesSkipped
  <1>6. /\ s \in next..n
        /\ line[s] \in gap
        /\ \A i \in next..s - 1 : line[i] \notin gap
        BY <1>2, <1>4, <1>5, FirstIs
  <1>7. e = First(s, {Space, Nul})
        OBVIOUS
  <1> HIDE DEF s, e
  <1>8. s \in 1..n /\ line[s] # Space
        BY <1>2, <1>3, <1>6
  <1>9. \A i \in next..s - 1 : line[i] = Space
    <2> SUFFICES ASSUME NEW i \in next..s - 1 PROVE line[i] = Space
        OBVIOUS
    <2>1. i \in 1..n
          BY <1>2, <1>3, <1>8
    <2> QED BY <2>1, <1>3, <1>6
  <1>10. /\ e \in s..n
         /\ line[e] \in {Space, Nul}
         /\ \A i \in s..e - 1 : line[i] \notin {Space, Nul}
    <2>1. Nul \in {Space, Nul}
          OBVIOUS
    <2> QED BY <2>1, <1>2, <1>7, <1>8, FirstIs
  <1>11. CASE line[s] = Nul
    <2>1. next' = s /\ step' = "run" /\ argc' = Len(tokens) /\ line' = line /\ tokens' = tokens
          BY <1>11 DEF Strtok, s
    <2>2. LastCall(s)
          BY <2>1, <1>11 DEF LastCall
    <2> QED BY <2>2, <1>1, <1>6, <1>8, <1>9
  <1>12. CASE line[s] # Nul
    <2>1. /\ line' = [line EXCEPT ![e] = Nul]
          /\ next' = IF line[e] = Nul THEN e ELSE e + 1
          /\ tokens' = Append(tokens, s)
          /\ IF Len(tokens') >= TokenBufferSize
             THEN step' = "run" /\ argc' \in Counted(Len(tokens'))
             ELSE step' = step /\ argc' = argc
          BY <1>12 DEF Strtok, s, e
    <2>2. Len(tokens) \in Nat /\ Len(tokens') = Len(tokens) + 1
          BY <2>1, <1>2
    <2>3. Counted(Len(tokens) + 1) \subseteq Nat
      <3>1. ExtraTokens \subseteq Nat
            BY ShellInputAssumption
      <3>2. \A x \in ExtraTokens : Len(tokens) + 1 + x \in Nat
            BY <3>1, <2>2
      <3> QED BY <3>2, <2>2 DEF Counted
    <2>4. IF Len(tokens) + 1 >= TokenBufferSize THEN step' = "run" /\ argc' \in Nat
          ELSE step' = "split" /\ argc' = argc
          BY <2>1, <2>2, <2>3, <1>1
    <2>5. WordCall(s, e)
          BY <2>1, <2>4, <1>10 DEF WordCall
    <2>6. e # s
          BY <1>8, <1>10, <1>12
    <2>7. e \in s + 1..n
          BY <2>6, <1>3, <1>8, <1>10
    <2> QED BY <2>5, <2>7, <1>1, <1>6, <1>8, <1>9
  <1> QED BY <1>11, <1>12

LEMMA StrtokInput ==
  ASSUME InputInv, Strtok PROVE InputInv'
  <1> DEFINE n == Len(line)
             k == Len(tokens)
  <1>1. /\ screen' = screen /\ typed' = typed /\ full' = full /\ step = "split"
        BY StrtokIs
  <1>2. PICK s \in next..n :
           LastCall(s) \/ \E e \in s + 1..n : WordCall(s, e)
        BY StrtokIs
  <1>3. /\ Ended(line) /\ next \in 1..n /\ tokens \in Seq(1..n)
        /\ k < TokenBufferSize
        /\ typed \in Seq(Glyphs) /\ full \in BOOLEAN /\ argc \in Nat /\ Fresh(screen)
        BY <1>1 DEF InputInv, SplitInv, StepInv
  <1>4. n \in Nat /\ k \in Nat /\ s \in 1..n /\ TokenBufferSize \in Nat
        BY <1>3, Inputs DEF Ended
  <1>5. Fresh(screen)'
        BY <1>1, <1>3
  <1>6. CASE LastCall(s)
    <2>1. /\ next' = s /\ step' = "run" /\ argc' = k
          /\ line' = line /\ tokens' = tokens
          BY <1>6 DEF LastCall
    <2>2. Ended(line)'
          BY <2>1, <1>3 DEF Ended
    <2>3. k <= TokenBufferSize
          BY <1>3, <1>4
    <2> QED BY <2>1, <2>2, <2>3, <1>1, <1>3, <1>4, <1>5
            DEF InputInv, ReadInv, StartInv, SplitInv, StepInv
  <1>7. ASSUME NEW e \in s + 1..n, WordCall(s, e) PROVE InputInv'
    <2> DEFINE new == [line EXCEPT ![e] = Nul]
               more == Append(tokens, s)
    <2>1. /\ line[e] \in {Space, Nul}
          /\ line' = new
          /\ next' = IF line[e] = Nul THEN e ELSE e + 1
          /\ tokens' = more
          /\ IF k + 1 >= TokenBufferSize THEN step' = "run" /\ argc' \in Nat
             ELSE step' = "split" /\ argc' = argc
          BY <1>7 DEF WordCall
    <2>2. line \in Seq(Glyphs \cup {Nul}) /\ line[n] = Nul
          BY <1>3 DEF Ended
    <2>3. e \in 1..n
          BY <1>4
    <2>4. new \in Seq(Glyphs \cup {Nul}) /\ Len(new) = n /\ new[n] = Nul
          BY <2>2, <2>3, <1>4
    <2>5. more \in Seq(1..n) /\ Len(more) = k + 1
          BY <1>3, <1>4
    <2>6. next' \in 1..n
      <3>1. CASE line[e] = Nul
            BY <3>1, <2>1, <2>3
      <3>2. CASE line[e] # Nul
        <4>1. e # n
              BY <3>2, <2>2
        <4>2. e + 1 \in 1..n
              BY <4>1, <2>3, <1>4
        <4> QED BY <4>2, <3>2, <2>1
      <3> QED BY <3>1, <3>2
    <2> HIDE DEF new, more
    <2>7. Ended(new)
      <3>1. new # <<>>
            BY <2>3, <2>4, <1>4
      <3> QED BY <3>1, <2>4 DEF Ended
    <2>8. Ended(line)' /\ Len(line') = n
          BY <2>1, <2>4, <2>7 DEF Ended
    <2>9. IF step' = "split" THEN Len(tokens') < TokenBufferSize
          ELSE Len(tokens') <= TokenBufferSize
          BY <2>1, <2>5, <1>3, <1>4
    <2>10. tokens' \in Seq(1..Len(line'))
           BY <2>1, <2>5, <2>8
    <2>11. step' \in {"run", "split"} /\ argc' \in Nat
           BY <2>1, <1>3
    <2> QED BY <2>6, <2>8, <2>9, <2>10, <2>11, <1>1, <1>3, <1>5
            DEF InputInv, ReadInv, StartInv, SplitInv, StepInv
  <1> QED BY <1>2, <1>6, <1>7

LEMMA RunInput ==
  ASSUME InputInv, Run PROVE InputInv'
  <1>1. Fresh(screen)
        BY DEF InputInv
  <1>2. /\ step' = "prompt" /\ line' = <<>> /\ next' = 1 /\ tokens' = <<>> /\ argc' = 0
        /\ typed' = <<>> /\ full' = FALSE
        BY DEF Run
  <1>3. \/ screen' = screen \/ screen' = Cleared
        \/ \E o \in Outputs : screen' = TerminalWrite(screen, o)
        BY DEF Run
  <1>4. \A o \in Outputs : Fresh(TerminalWrite(screen, o))
        BY <1>1, Inputs, WriteKeeps
  <1>5. Fresh(screen')
        BY <1>1, <1>3, <1>4, ClearedIs
  <1>6. Fresh(screen)'
        BY <1>5
  <1>7. <<>> \in Seq(Glyphs) /\ 0 \in Nat
        OBVIOUS
  <1> QED BY <1>2, <1>6, <1>7 DEF InputInv, ReadInv, StartInv, SplitInv, StepInv

LEMMA StutterInput ==
  ASSUME InputInv, UNCHANGED vars PROVE InputInv'
  <1>1. /\ screen' = screen /\ step' = step /\ line' = line /\ next' = next
        /\ tokens' = tokens /\ argc' = argc /\ typed' = typed /\ full' = full
        BY DEF vars
  <1>2. Fresh(screen)'
        BY <1>1 DEF InputInv
  <1>3. EndsWith(screen, Prompt \o line)' <=> EndsWith(screen, Prompt \o line)
        BY <1>1
  <1>4. ReadInv'
        BY <1>1, <1>3 DEF InputInv, ReadInv
  <1>5. Ended(line)' <=> Ended(line)
        BY <1>1
  <1>6. StartInv' /\ SplitInv' /\ StepInv'
        BY <1>1, <1>5 DEF InputInv, StartInv, SplitInv, StepInv
  <1> QED BY <1>2, <1>4, <1>6 DEF InputInv

(* Between any two steps of the shell and of the screen, what is known of  *)
(* the screen, of the line being typed and of the words split off it holds *)
(* together: the screen is empty from the cursor on, the prompt and the    *)
(* line stand right before the cursor, and strtok's line is ended.         *)
THEOREM ShellInputInvariant == Spec => []InputInv
  <1>1. ASSUME InputInv, [Next]_vars PROVE InputInv'
    <2>1. CASE OutputPrompt
          BY <2>1, <1>1, OutputPromptInput
    <2>2. ASSUME NEW c \in Glyphs, Printable(c) PROVE InputInv'
          BY <2>2, <1>1, PrintableInput
    <2>3. CASE Backspace
          BY <2>3, <1>1, BackspaceInput
    <2>4. CASE Enter
          BY <2>4, <1>1, EnterInput
    <2>5. CASE Strtok
          BY <2>5, <1>1, StrtokInput
    <2>6. CASE Run
          BY <2>6, <1>1, RunInput
    <2>7. CASE UNCHANGED vars
          BY <2>7, <1>1, StutterInput
    <2> QED BY <1>1, <2>1, <2>2, <2>3, <2>4, <2>5, <2>6, <2>7 DEF Next
  <1> QED BY <1>1, InitInput, PTL DEF Spec

(* The line, its words and the screen always have their types.             *)
THEOREM ShellInputTypeCorrect == Spec => []TypeOK
  <1>1. ASSUME InputInv PROVE TypeOK
    <2>1. /\ screen \in Screens
          /\ step \in {"prompt", "read", "split", "run"}
          /\ argc \in Nat /\ typed \in Seq(Glyphs) /\ full \in BOOLEAN
          BY <1>1 DEF InputInv, StepInv, Fresh
    <2>2. TokenBufferSize \in Nat
          BY Inputs
    <2>3. CASE step \in {"prompt", "read"}
      <3>4. <<>> \in Seq(Glyphs)
            OBVIOUS
      <3>1. line \in Seq(Glyphs) /\ next = 1 /\ tokens = <<>>
            BY <2>3, <3>4, <1>1 DEF InputInv, ReadInv, StartInv, StepInv
      <3>2. line \in Seq(Glyphs \cup {Nul}) /\ next \in 1..Len(line) + 1
            BY <3>1
      <3>3. tokens \in Seq(DOMAIN line) /\ Len(tokens) <= TokenBufferSize
            BY <3>1, <2>2
      <3> QED BY <2>1, <3>2, <3>3 DEF TypeOK
    <2>4. CASE step \in {"split", "run"}
      <3>1. /\ line \in Seq(Glyphs \cup {Nul}) /\ next \in 1..Len(line)
            /\ tokens \in Seq(1..Len(line)) /\ Len(tokens) <= TokenBufferSize
            BY <2>2, <2>4, <1>1 DEF InputInv, SplitInv, Ended
      <3>2. DOMAIN line = 1..Len(line) /\ next \in 1..Len(line) + 1
            BY <3>1
      <3> QED BY <2>1, <3>1, <3>2 DEF TypeOK
    <2> QED BY <2>1, <2>3, <2>4
  <1> QED BY <1>1, ShellInputInvariant, PTL

(* What the user sees before the cursor is the prompt and the line the     *)
(* shell reads, and taking back the last character always ends.            *)
THEOREM ShellInputEcho == Spec => []EchoMatchesLine
  <1>1. ASSUME InputInv PROVE EchoMatchesLine
    <2> SUFFICES ASSUME step = "read" PROVE EchoMatchesLine
        BY DEF EchoMatchesLine
    <2> DEFINE shown == Prompt \o line
               u == Cursor(screen)
               n == Len(shown)
               start == u - n
    <2>1. Fresh(screen) /\ line \in Seq(Glyphs) /\ EndsWith(screen, shown)
          BY <1>1 DEF InputInv, ReadInv
    <2>2. shown \in Seq(Glyphs) /\ n \in Nat
          BY <2>1, Inputs
    <2>3. u \in Nat
          BY <2>1, ScreenParts DEF Fresh
    <2>4. n <= u /\ \A i \in 1..n : screen.cells[u - n + i - 1] = shown[i]
          BY <2>1 DEF EndsWith
    <2>5. start >= 0
      <3> HIDE DEF u, n
      <3> QED BY <2>2, <2>3, <2>4
    <2>6. \A i \in u..Width * Height - 1 : screen.cells[i] = Blank
          BY <2>1 DEF Fresh
    <2>7. line # <<>> => RemEnds(screen)
      <3> SUFFICES ASSUME line # <<>> PROVE RemEnds(screen)
          OBVIOUS
      <3> DEFINE rest == Front(line)
                 c == line[Len(line)]
      <3>1. rest \in Seq(Glyphs) /\ c \in Glyphs /\ line = Append(rest, c)
            BY <2>1, FrontAppend
      <3> HIDE DEF rest, c
      <3>2. Prompt \o rest \in Seq(Glyphs) /\ Append(Prompt \o rest, c) = shown
        <4>1. Append(Prompt \o rest, c) = Prompt \o Append(rest, c)
              BY <3>1, PromptAppend
        <4> QED BY <4>1, <3>1, PromptAppend
      <3> QED BY <3>1, <3>2, <2>1, RemTakesBack
    <2> QED BY <2>4, <2>5, <2>6, <2>7 DEF EchoMatchesLine
  <1> QED BY <1>1, ShellInputInvariant, PTL

-----------------------------------------------------------------------------
(* The words of a text, counted by those before them.                      *)
LEMMA StretchIs ==
  ASSUME NEW text \in Seq(Glyphs), NEW w \in Stretches(text)
  PROVE  /\ w = <<w[1], w[2]>>
         /\ w[1] \in 1..Len(text) /\ w[2] \in 1..Len(text) /\ w[1] <= w[2]
         /\ \A i \in w[1]..w[2] : text[i] # Space
         /\ w[1] = 1 \/ text[w[1] - 1] = Space
         /\ w[2] = Len(text) \/ text[w[2] + 1] = Space
  BY DEF Stretches

LEMMA SameStart ==
  ASSUME NEW text \in Seq(Glyphs), NEW v \in Stretches(text), NEW w \in Stretches(text),
         v[1] = w[1]
  PROVE  v = w
  <1> DEFINE n == Len(text)
             a == v[2]
             b == w[2]
             t == v[1]
  <1>1. /\ n \in Nat /\ t \in 1..n /\ a \in t..n /\ b \in t..n
        /\ \A i \in t..a : text[i] # Space
        /\ \A i \in t..b : text[i] # Space
        /\ a = n \/ text[a + 1] = Space
        /\ b = n \/ text[b + 1] = Space
        BY StretchIs
  <1>2. v = <<t, a>> /\ w = <<t, b>>
        BY StretchIs
  <1> HIDE DEF n, a, b, t
  <1>3. ~(a < b)
    <2> SUFFICES ASSUME a < b PROVE FALSE
        OBVIOUS
    <2>1. a # n /\ a + 1 \in t..b
          BY <1>1
    <2> QED BY <2>1, <1>1
  <1>4. ~(b < a)
    <2> SUFFICES ASSUME b < a PROVE FALSE
        OBVIOUS
    <2>1. b # n /\ b + 1 \in t..a
          BY <1>1
    <2> QED BY <2>1, <1>1
  <1>5. a = b
        BY <1>1, <1>3, <1>4
  <1> QED BY <1>2, <1>5

LEMMA StretchesFinite ==
  ASSUME NEW text \in Seq(Glyphs)
  PROVE  /\ IsFiniteSet(Stretches(text)) /\ Cardinality(Stretches(text)) \in Nat
         /\ \A w : /\ IsFiniteSet(Earlier(text, w))
                   /\ Earlier(text, w) \in SUBSET Stretches(text)
                   /\ Cardinality(Earlier(text, w)) \in Nat
  <1> DEFINE n == Len(text)
             S == Stretches(text)
  <1>1. n \in Nat
        OBVIOUS
  <1>2. IsFiniteSet(1..n)
        BY <1>1, FS_Interval
  <1>3. IsFiniteSet((1..n) \X (1..n))
        BY <1>2, FS_Product
  <1>4. S \in SUBSET ((1..n) \X (1..n))
        BY DEF Stretches
  <1>5. IsFiniteSet(S)
        BY <1>3, <1>4, FS_Subset
  <1> HIDE DEF S
  <1>6. ASSUME NEW w PROVE Earlier(text, w) \in SUBSET S
        BY DEF Earlier, S
  <1>7. ASSUME NEW w PROVE IsFiniteSet(Earlier(text, w))
        BY <1>5, <1>6, FS_Subset
  <1> QED BY <1>5, <1>6, <1>7, FS_CardinalityType DEF S

LEMMA EarlierFewer ==
  ASSUME NEW text \in Seq(Glyphs), NEW v \in Stretches(text), NEW w \in Stretches(text),
         v[1] < w[1]
  PROVE  Cardinality(Earlier(text, v)) < Cardinality(Earlier(text, w))
  <1> DEFINE A == Earlier(text, v)
             B == Earlier(text, w)
  <1>1. IsFiniteSet(B) /\ Cardinality(A) \in Nat /\ Cardinality(B) \in Nat
        BY StretchesFinite
  <1>2. A \in SUBSET B
    <2> SUFFICES ASSUME NEW x \in A PROVE x \in B
        OBVIOUS
    <2>1. x \in Stretches(text) /\ x[1] < v[1]
          BY DEF Earlier
    <2>2. x[1] \in Int /\ v[1] \in Int /\ w[1] \in Int
          BY <2>1, StretchIs
    <2>3. x[1] < w[1]
          BY <2>1, <2>2
    <2> QED BY <2>1, <2>3 DEF Earlier
  <1>3. v \in B /\ v \notin A
    <2>1. v[1] \in Int
          BY StretchIs
    <2> QED BY <2>1 DEF Earlier
  <1> HIDE DEF A, B
  <1>4. Cardinality(A) <= Cardinality(B) /\ Cardinality(A) # Cardinality(B)
        BY <1>1, <1>2, <1>3, FS_Subset
  <1>5. Cardinality(A) < Cardinality(B)
        BY <1>1, <1>4
  <1> QED BY <1>5 DEF A, B

LEMMA EarlierLess ==
  ASSUME NEW text \in Seq(Glyphs), NEW w \in Stretches(text)
  PROVE  Cardinality(Earlier(text, w)) < Cardinality(Stretches(text))
  <1> DEFINE A == Earlier(text, w)
             B == Stretches(text)
  <1>1. IsFiniteSet(B) /\ Cardinality(A) \in Nat /\ Cardinality(B) \in Nat /\ A \in SUBSET B
        BY StretchesFinite
  <1>2. w \in B /\ w \notin A
    <2>1. w[1] \in Int
          BY StretchIs
    <2> QED BY <2>1 DEF Earlier
  <1> HIDE DEF A, B
  <1>3. Cardinality(A) <= Cardinality(B) /\ Cardinality(A) # Cardinality(B)
        BY <1>1, <1>2, FS_Subset
  <1>4. Cardinality(A) < Cardinality(B)
        BY <1>1, <1>3
  <1> QED BY <1>4 DEF A, B

(* A set that is listed from 1 to k, with nothing listed twice, has k      *)
(* elements.                                                               *)
LEMMA ListedCount ==
  ASSUME NEW T, NEW k \in Nat, NEW f \in [1..k -> T],
         \A i, j \in 1..k : i # j => f[i] # f[j],
         \A x \in T : \E i \in 1..k : f[i] = x
  PROVE  Cardinality(T) = k
  <1>1. f \in Injection(1..k, T)
        BY DEF Injection, IsInjective
  <1>2. f \in Surjection(1..k, T)
        BY DEF Surjection
  <1>3. ExistsBijection(1..k, T)
        BY <1>1, <1>2 DEF ExistsBijection, Bijection
  <1> QED BY <1>3, FS_CountingElements

-----------------------------------------------------------------------------
(* What strtok has done to the line: where it has been it has written an   *)
(* end after every word, in place of a space, and the tokens are the words *)
(* before next.                                                            *)
Ends(w) == line[w[2] + 1] = Nul

LineLeft ==
  /\ Len(line) = Len(typed) + 1
  /\ \A i \in 1..Len(typed) :
       line[i] = typed[i] \/ (line[i] = Nul /\ typed[i] = Space /\ i < next)
  /\ next = 1 \/ next = Len(typed) + 1 \/ typed[next - 1] = Space

Increasing == \A i, j \in 1..Len(tokens) : i < j => tokens[i] < tokens[j]

TokensFound ==
  /\ \A i \in 1..Len(tokens) :
       /\ tokens[i] < next
       /\ \E w \in Stretches(typed) : w[1] = tokens[i] /\ Ends(w)
  /\ \A w \in Stretches(typed) :
       w[1] < next => \E i \in 1..Len(tokens) : tokens[i] = w[1]

AllFound ==
  \/ Len(tokens) = TokenBufferSize
  \/ /\ Len(tokens) < TokenBufferSize /\ argc = Len(tokens)
     /\ \A w \in Stretches(typed) : w[1] < next

WordsInv ==
  step \in {"split", "run"} /\ ~full =>
    LineLeft /\ Increasing /\ TokensFound /\ (step = "run" => AllFound)

LEMMA EnterWords ==
  ASSUME InputInv, Enter PROVE WordsInv'
  <1>1. step = "read" /\ line \in Seq(Glyphs) /\ next = 1 /\ tokens = <<>>
        BY DEF Enter, InputInv, ReadInv, StartInv
  <1>2. /\ line' = Append(line, Nul) /\ step' = "split" /\ typed' = line
        /\ next' = 1 /\ tokens' = <<>>
        BY <1>1 DEF Enter, Return
  <1>3. Len(line') = Len(typed') + 1 /\ \A i \in 1..Len(typed') : line'[i] = typed'[i]
        BY <1>1, <1>2
  <1>4. LineLeft'
        BY <1>2, <1>3 DEF LineLeft
  <1>5. Len(tokens') = 0
        BY <1>2
  <1>6. Increasing'
        BY <1>5 DEF Increasing
  <1>7. \A w \in Stretches(typed') : ~(w[1] < 1)
    <2> SUFFICES ASSUME NEW w \in Stretches(typed') PROVE ~(w[1] < 1)
        OBVIOUS
    <2>1. w[1] \in 1..Len(line)
          BY <1>1, <1>2, StretchIs
    <2> QED BY <2>1
  <1>8. TokensFound'
        BY <1>2, <1>5, <1>7 DEF TokensFound
  <1> QED BY <1>2, <1>4, <1>6, <1>8 DEF WordsInv

LEMMA LastCallWords ==
  ASSUME InputInv, WordsInv, ~full, step = "split",
         screen' = screen, typed' = typed, full' = full,
         NEW s \in next..Len(line), \A i \in next..s - 1 : line[i] = Space,
         LastCall(s)
  PROVE  WordsInv'
  <1> DEFINE n == Len(typed)
             k == Len(tokens)
  <1>1. /\ LineLeft /\ Increasing /\ TokensFound
        BY DEF WordsInv
  <1>2. /\ typed \in Seq(Glyphs) /\ next \in 1..Len(line) /\ tokens \in Seq(1..Len(line))
        /\ k < TokenBufferSize
        BY DEF InputInv, SplitInv, StepInv
  <1>3. /\ n \in Nat /\ k \in Nat /\ Len(line) = n + 1
        /\ \A i \in 1..n : typed[i] \in Glyphs
        /\ \A i \in 1..n :
             line[i] = typed[i] \/ (line[i] = Nul /\ typed[i] = Space /\ i < next)
        /\ next \in 1..n + 1 /\ s \in next..n + 1
        BY <1>1, <1>2 DEF LineLeft
  <1>4. /\ line[s] = Nul /\ next' = s /\ step' = "run" /\ argc' = k
        /\ line' = line /\ tokens' = tokens
        BY DEF LastCall
  <1> HIDE DEF n, k
  <1>5. s = n + 1
    <2> SUFFICES ASSUME s # n + 1 PROVE FALSE
        OBVIOUS
    <2>1. s \in 1..n /\ ~(s < next)
          BY <1>3
    <2>2. line[s] = typed[s] /\ typed[s] \in Glyphs
          BY <2>1, <1>3
    <2> QED BY <2>2, <1>4, Inputs
  <1>6. \A i \in 1..n : i < next => i < s
        BY <1>3
  <1>7. LineLeft'
    <2>1. \A i \in 1..n : line[i] = typed[i] \/ (line[i] = Nul /\ typed[i] = Space /\ i < s)
          BY <1>3, <1>6
    <2> QED BY <2>1, <1>3, <1>4, <1>5 DEF LineLeft, n
  <1>8. Increasing'
        BY <1>1, <1>4 DEF Increasing
  <1>9. \A w \in Stretches(typed) : w[1] < s => w[1] < next
    <2> SUFFICES ASSUME NEW w \in Stretches(typed), w[1] < s, ~(w[1] < next) PROVE FALSE
        OBVIOUS
    <2>1. w[1] \in 1..n /\ w[2] \in 1..n /\ w[1] <= w[2] /\ \A i \in w[1]..w[2] : typed[i] # Space
          BY <1>2, StretchIs DEF n
    <2>2. w[1] \in next..s - 1 /\ w[1] \in w[1]..w[2]
          BY <2>1, <1>3
    <2>3. line[w[1]] = Space /\ typed[w[1]] # Space
          BY <2>1, <2>2
    <2> QED BY <2>1, <2>3, <1>3
  <1>10. TokensFound'
    <2>1. ASSUME NEW i \in 1..k
          PROVE  /\ tokens[i] < s
                 /\ \E w \in Stretches(typed) : w[1] = tokens[i] /\ Ends(w)
      <3>1. tokens[i] < next /\ \E w \in Stretches(typed) : w[1] = tokens[i] /\ Ends(w)
            BY <1>1 DEF TokensFound, k
      <3>2. tokens[i] \in 1..n + 1
            BY <1>2, <1>3 DEF k
      <3>3. tokens[i] < s
            BY <3>1, <3>2, <1>3
      <3> QED BY <3>1, <3>3
    <2>2. \A w \in Stretches(typed) : w[1] < s => \E i \in 1..k : tokens[i] = w[1]
          BY <1>1, <1>9 DEF TokensFound, k
    <2>3. \A w : Ends(w)' <=> Ends(w)
          BY <1>4 DEF Ends
    <2> QED BY <2>1, <2>2, <2>3, <1>4 DEF TokensFound, k
  <1>11. \A w \in Stretches(typed) : w[1] < s
    <2> SUFFICES ASSUME NEW w \in Stretches(typed) PROVE w[1] < s
        OBVIOUS
    <2>1. w[1] \in 1..n
          BY <1>2, StretchIs DEF n
    <2> QED BY <2>1, <1>3, <1>5
  <1>12. AllFound'
         BY <1>2, <1>4, <1>11 DEF AllFound, k
  <1> QED BY <1>7, <1>8, <1>10, <1>12 DEF WordsInv

LEMMA WordCallWords ==
  ASSUME InputInv, WordsInv, ~full, step = "split",
         screen' = screen, typed' = typed, full' = full,
         NEW s \in next..Len(line), \A i \in next..s - 1 : line[i] = Space,
         line[s] # Space, NEW e \in s + 1..Len(line), WordCall(s, e)
  PROVE  WordsInv'
  <1> DEFINE n == Len(typed)
             k == Len(tokens)
             new == [line EXCEPT ![e] = Nul]
             more == Append(tokens, s)
             after == IF line[e] = Nul THEN e ELSE e + 1
             word == <<s, e - 1>>
  <1>1. /\ LineLeft /\ Increasing /\ TokensFound
        BY DEF WordsInv
  <1>2. /\ typed \in Seq(Glyphs) /\ next \in 1..Len(line) /\ tokens \in Seq(1..Len(line))
        /\ k < TokenBufferSize /\ Ended(line)
        BY DEF InputInv, SplitInv, StepInv
  <1>3. /\ n \in Nat /\ k \in Nat /\ Len(line) = n + 1
        /\ \A i \in 1..n : typed[i] \in Glyphs
        /\ \A i \in 1..n :
             line[i] = typed[i] \/ (line[i] = Nul /\ typed[i] = Space /\ i < next)
        /\ next = 1 \/ next = n + 1 \/ typed[next - 1] = Space
        /\ next \in 1..n + 1 /\ s \in next..n + 1 /\ e \in s + 1..n + 1
        /\ line[n + 1] = Nul
        BY <1>1, <1>2 DEF LineLeft, Ended
  <1>4. /\ \A i \in s..e - 1 : line[i] # Space /\ line[i] # Nul
        /\ line[e] \in {Space, Nul}
        /\ line' = new /\ next' = after /\ tokens' = more
        /\ step' = "run" => k + 1 >= TokenBufferSize
        /\ step' \in {"run", "split"}
        BY DEF WordCall
  <1>5. /\ Len(new) = n + 1
        /\ \A i \in 1..n + 1 : new[i] = IF i = e THEN Nul ELSE line[i]
    <2>1. line \in Seq(Glyphs \cup {Nul}) /\ e \in 1..Len(line)
          BY <1>2, <1>3 DEF Ended
    <2> HIDE DEF n, k
    <2> QED BY <2>1, <1>3
  <1>6. Len(more) = k + 1 /\ (\A i \in 1..k : more[i] = tokens[i]) /\ more[k + 1] = s
        BY <1>2
  <1> HIDE DEF n, k, new, more, after
  <1>7. \A i \in next..n : line[i] = typed[i]
    <2> SUFFICES ASSUME NEW i \in next..n PROVE line[i] = typed[i]
        OBVIOUS
    <2>1. i \in 1..n /\ ~(i < next)
          BY <1>3
    <2> QED BY <2>1, <1>3
  <1>8. \/ e = n + 1 /\ line[e] = Nul /\ after = n + 1
        \/ e \in next..n /\ line[e] = Space /\ typed[e] = Space /\ after = e + 1
    <2>1. CASE e = n + 1
          BY <2>1, <1>3 DEF after
    <2>2. CASE e # n + 1
      <3>1. e \in next..n /\ e \in 1..n
            BY <2>2, <1>3
      <3>2. line[e] = typed[e] /\ typed[e] \in Glyphs
            BY <3>1, <1>3, <1>7
      <3>3. line[e] = Space
            BY <3>2, <1>4, Inputs
      <3> QED BY <3>1, <3>2, <3>3, Inputs DEF after
    <2> QED BY <2>1, <2>2
  <1>9. after \in e..e + 1 /\ after \in 1..n + 1
        BY <1>3, <1>8
  <1>10. word \in Stretches(typed)
    <2>1. s \in 1..n /\ e - 1 \in 1..n /\ s <= e - 1
          BY <1>3
    <2>2. ASSUME NEW i \in s..e - 1 PROVE typed[i] # Space
      <3>1. i \in next..n
            BY <1>3
      <3> QED BY <3>1, <1>4, <1>7
    <2>3. s = 1 \/ typed[s - 1] = Space
      <3>1. CASE s = next
            BY <3>1, <2>1, <1>3
      <3>2. CASE s # next
        <4>1. s - 1 \in next..s - 1 /\ s - 1 \in next..n
              BY <3>2, <1>3
        <4> QED BY <4>1, <1>7
      <3> QED BY <3>1, <3>2
    <2>4. e - 1 = n \/ typed[e - 1 + 1] = Space
      <3>1. e - 1 + 1 = e
            BY <1>3
      <3> QED BY <3>1, <1>3, <1>8
    <2>5. word[1] = s /\ word[2] = e - 1
          OBVIOUS
    <2>6. word \in (1..n) \X (1..n)
          BY <2>1
    <2> HIDE DEF word
    <2> QED BY <2>1, <2>2, <2>3, <2>4, <2>5, <2>6 DEF Stretches, n
  <1>11. LineLeft'
    <2>1. ASSUME NEW i \in 1..n
          PROVE  new[i] = typed[i] \/ (new[i] = Nul /\ typed[i] = Space /\ i < after)
      <3>1. CASE i = e
        <4>1. new[i] = Nul /\ typed[i] = Space /\ i < after
              BY <3>1, <1>3, <1>5, <1>8
        <4> QED BY <4>1
      <3>2. CASE i # e
        <4>1. new[i] = line[i]
              BY <3>2, <1>3, <1>5
        <4>2. i < next => i < after
              BY <1>3, <1>9
        <4> QED BY <4>1, <4>2, <1>3
      <3> QED BY <3>1, <3>2
    <2>2. after = 1 \/ after = n + 1 \/ typed[after - 1] = Space
      <3>1. CASE e = n + 1
            BY <3>1, <1>3, <1>8
      <3>2. CASE e # n + 1
        <4>1. after - 1 = e /\ typed[e] = Space
              BY <3>2, <1>3, <1>8
        <4> QED BY <4>1
      <3> QED BY <3>1, <3>2
    <2> QED BY <2>1, <2>2, <1>4, <1>5 DEF LineLeft, n
  <1>12. ASSUME NEW i \in 1..k PROVE tokens[i] \in 1..n + 1 /\ tokens[i] < next
    <2>1. tokens[i] \in 1..n + 1
      <3>1. tokens \in Seq(1..n + 1)
            BY <1>2, <1>3
      <3>2. i \in 1..Len(tokens)
            BY DEF k
      <3> QED BY <3>1, <3>2, SeqEntry
    <2> QED BY <2>1, <1>1 DEF TokensFound, k
  <1>13. Increasing'
    <2>1. ASSUME NEW i \in 1..k + 1, NEW j \in 1..k + 1, i < j PROVE more[i] < more[j]
      <3>1. i \in 1..k
            BY <2>1, <1>3
      <3>2. more[i] = tokens[i]
            BY <3>1, <1>6
      <3>3. CASE j = k + 1
        <4>1. tokens[i] \in 1..n + 1 /\ tokens[i] < next
              BY <3>1, <1>12
        <4> QED BY <4>1, <3>2, <3>3, <1>3, <1>6
      <3>4. CASE j # k + 1
        <4>1. j \in 1..k
              BY <3>4, <1>3
        <4>2. tokens[i] < tokens[j]
              BY <4>1, <3>1, <2>1, <1>1 DEF Increasing, k
        <4> QED BY <4>1, <4>2, <3>2, <1>6
      <3> QED BY <3>3, <3>4
    <2> QED BY <2>1, <1>4, <1>6 DEF Increasing
  <1>14. ASSUME NEW w \in Stretches(typed), w[1] < after
         PROVE  w[1] < next \/ w[1] = s
    <2> SUFFICES ASSUME ~(w[1] < next), w[1] # s PROVE FALSE
        OBVIOUS
    <2>1. /\ w[1] \in 1..n /\ w[2] \in 1..n /\ w[1] <= w[2]
          /\ \A i \in w[1]..w[2] : typed[i] # Space
          /\ w[1] = 1 \/ typed[w[1] - 1] = Space
          BY <1>2, StretchIs DEF n
    <2> DEFINE x == w[1]
    <2>2. x \in 1..n /\ typed[x] # Space /\ (x = 1 \/ typed[x - 1] = Space) /\ x < after
          /\ ~(x < next) /\ x # s
          BY <1>14, <2>1
    <2> HIDE DEF x
    <2>3. CASE x < s
      <3>1. x \in next..s - 1 /\ x \in next..n
            BY <2>2, <2>3, <1>3
      <3>2. line[x] = Space /\ line[x] = typed[x]
            BY <3>1, <1>7
      <3> QED BY <3>2, <2>2
    <2>4. CASE ~(x < s)
      <3>1. x - 1 \in s..e - 1 /\ x - 1 \in next..n /\ x # 1
            BY <2>2, <2>4, <1>3, <1>9
      <3>2. line[x - 1] # Space /\ line[x - 1] = typed[x - 1]
            BY <3>1, <1>4, <1>7
      <3> QED BY <3>1, <3>2, <2>2
    <2> QED BY <2>3, <2>4
  <1>15. TokensFound'
    <2>1. ASSUME NEW w \in Stretches(typed), Ends(w) PROVE Ends(w)'
      <3>1. w[2] \in 1..n
            BY <1>2, StretchIs DEF n
      <3>2. w[2] + 1 \in 1..n + 1
            BY <3>1, <1>3
      <3>3. new[w[2] + 1] = Nul
            BY <3>2, <2>1, <1>5 DEF Ends
      <3> QED BY <3>3, <1>4 DEF Ends
    <2>2. Ends(word)'
      <3>1. word[2] + 1 = e /\ e \in 1..n + 1
            BY <1>3
      <3>2. new[e] = Nul
            BY <3>1, <1>5
      <3> HIDE DEF word
      <3>3. line'[word[2] + 1] = Nul
            BY <3>1, <3>2, <1>4
      <3> QED BY <3>3 DEF Ends, word
    <2>3. ASSUME NEW i \in 1..k + 1
          PROVE  /\ more[i] < after
                 /\ \E w \in Stretches(typed) : w[1] = more[i] /\ Ends(w)'
      <3>1. CASE i = k + 1
        <4>1. more[i] = s /\ s < after
              BY <3>1, <1>3, <1>6, <1>9
        <4>2. word[1] = s
              OBVIOUS
        <4> HIDE DEF word
        <4> QED BY <4>1, <4>2, <1>10, <2>2 DEF word
      <3>2. CASE i # k + 1
        <4>1. i \in 1..k
              BY <3>2, <1>3
        <4>2. more[i] = tokens[i] /\ tokens[i] \in 1..n + 1 /\ tokens[i] < next
              BY <4>1, <1>6, <1>12
        <4>3. PICK w \in Stretches(typed) : w[1] = tokens[i] /\ Ends(w)
              BY <4>1, <1>1 DEF TokensFound, k
        <4>4. more[i] < after
              BY <4>2, <1>3, <1>9
        <4> QED BY <4>2, <4>3, <4>4, <2>1
      <3> QED BY <3>1, <3>2
    <2>4. ASSUME NEW w \in Stretches(typed), w[1] < after
          PROVE  \E i \in 1..k + 1 : more[i] = w[1]
      <3>1. CASE w[1] = s
        <4>1. k + 1 \in 1..k + 1
              BY <1>3
        <4> QED BY <4>1, <3>1, <1>6
      <3>2. CASE w[1] < next
        <4>1. PICK i \in 1..k : tokens[i] = w[1]
              BY <3>2, <1>1 DEF TokensFound, k
        <4>2. i \in 1..k + 1 /\ more[i] = w[1]
              BY <4>1, <1>3, <1>6
        <4> QED BY <4>2
      <3> QED BY <3>1, <3>2, <2>4, <1>14
    <2>5. typed' = typed /\ next' = after /\ tokens' = more /\ Len(more) = k + 1
          BY <1>4, <1>6
    <2> QED BY <2>3, <2>4, <2>5 DEF TokensFound
  <1>16. step' = "run" => AllFound'
    <2> SUFFICES ASSUME step' = "run" PROVE AllFound'
        OBVIOUS
    <2>1. k + 1 = TokenBufferSize
          BY <1>2, <1>3, <1>4, Inputs DEF k
    <2> QED BY <2>1, <1>4, <1>6 DEF AllFound
  <1> QED BY <1>11, <1>13, <1>15, <1>16 DEF WordsInv

LEMMA StrtokWords ==
  ASSUME InputInv, WordsInv, Strtok PROVE WordsInv'
  <1>1. /\ screen' = screen /\ typed' = typed /\ full' = full /\ step = "split"
        BY StrtokIs
  <1>2. CASE full
        BY <1>1, <1>2 DEF WordsInv
  <1>3. CASE ~full
    <2>1. PICK s \in next..Len(line) :
             /\ \A i \in next..s - 1 : line[i] = Space
             /\ line[s] # Space
             /\ LastCall(s) \/ \E e \in s + 1..Len(line) : WordCall(s, e)
          BY StrtokIs
    <2>2. CASE LastCall(s)
          BY <2>1, <2>2, <1>1, <1>3, LastCallWords
    <2>3. ASSUME NEW e \in s + 1..Len(line), WordCall(s, e) PROVE WordsInv'
          BY <2>1, <2>3, <1>1, <1>3, WordCallWords
    <2> QED BY <2>1, <2>2, <2>3
  <1> QED BY <1>2, <1>3

LEMMA OtherWords ==
  ASSUME InputInv, WordsInv,
         \/ OutputPrompt \/ (\E c \in Glyphs : Printable(c)) \/ Backspace \/ Run
         \/ UNCHANGED vars
  PROVE  WordsInv'
  <1>1. CASE OutputPrompt
        BY <1>1 DEF OutputPrompt, WordsInv
  <1>2. ASSUME NEW c \in Glyphs, Printable(c) PROVE WordsInv'
    <2>1. step = "read"
          BY <1>2 DEF Printable
    <2>2. step' = "read" \/ full' = TRUE
          BY <1>2, <2>1 DEF Printable, Return
    <2> QED BY <2>2 DEF WordsInv
  <1>3. CASE Backspace
        BY <1>3 DEF Backspace, WordsInv
  <1>4. CASE Run
        BY <1>4 DEF Run, WordsInv
  <1>5. CASE UNCHANGED vars
    <2>1. /\ step' = step /\ line' = line /\ next' = next
          /\ tokens' = tokens /\ argc' = argc /\ typed' = typed /\ full' = full
          BY <1>5 DEF vars
    <2>2. LineLeft' <=> LineLeft
          BY <2>1 DEF LineLeft
    <2>3. Increasing' <=> Increasing
          BY <2>1 DEF Increasing
    <2>4. \A w : Ends(w)' <=> Ends(w)
          BY <2>1 DEF Ends
    <2>5. TokensFound' <=> TokensFound
          BY <2>1, <2>4 DEF TokensFound
    <2>6. AllFound' <=> AllFound
          BY <2>1 DEF AllFound
    <2> QED BY <2>1, <2>2, <2>3, <2>5, <2>6 DEF WordsInv
  <1> QED BY <1>1, <1>2, <1>3, <1>4, <1>5

(* At every step of the tokenizer, the words it has passed are the tokens  *)
(* it has stored, and the line from its position on is as it was typed.    *)
THEOREM ShellInputWordsInvariant == Spec => []WordsInv
  <1>1. Init => WordsInv
        BY DEF Init, WordsInv
  <1>2. ASSUME InputInv, WordsInv, [Next]_vars PROVE WordsInv'
    <2>1. CASE Enter
          BY <2>1, <1>2, EnterWords
    <2>2. CASE Strtok
          BY <2>2, <1>2, StrtokWords
    <2>3. CASE \/ OutputPrompt \/ (\E c \in Glyphs : Printable(c)) \/ Backspace \/ Run
               \/ UNCHANGED vars
          BY <2>3, <1>2, OtherWords
    <2> QED BY <1>2, <2>1, <2>2, <2>3 DEF Next
  <1> QED BY <1>1, <1>2, ShellInputInvariant, PTL DEF Spec

-----------------------------------------------------------------------------
(* The words at the call of the command.                                   *)
WordOf(i) == CHOOSE w \in Stretches(typed) : w[1] = tokens[i] /\ Ends(w)

LEMMA WordOfIs ==
  ASSUME TokensFound, NEW i \in 1..Len(tokens)
  PROVE  WordOf(i) \in Stretches(typed) /\ WordOf(i)[1] = tokens[i] /\ Ends(WordOf(i))
  <1>1. \E w \in Stretches(typed) : w[1] = tokens[i] /\ Ends(w)
        BY DEF TokensFound
  <1> QED BY <1>1 DEF WordOf

(* The i-th token points to the i-th word, unharmed in the line.           *)
LEMMA TokenReads ==
  ASSUME InputInv, LineLeft, TokensFound, step = "run", NEW i \in 1..Len(tokens)
  PROVE  /\ Word(tokens[i]) = SubSeq(typed, WordOf(i)[1], WordOf(i)[2])
         /\ Word(tokens[i]) \in Seq(Glyphs)
  <1> DEFINE n == Len(typed)
             w == WordOf(i)
             t == tokens[i]
             b == w[2]
             f == First(t, {Nul})
  <1>1. /\ typed \in Seq(Glyphs) /\ Ended(line) /\ tokens \in Seq(1..Len(line))
        BY DEF InputInv, SplitInv, StepInv
  <1>2. w \in Stretches(typed) /\ w[1] = t /\ Ends(w)
        BY WordOfIs
  <1>3. /\ n \in Nat /\ t \in 1..n /\ b \in 1..n /\ t <= b
        /\ \A j \in t..b : typed[j] # Space
        BY <1>1, <1>2, StretchIs
  <1>4. /\ Len(line) = n + 1
        /\ \A j \in 1..n : typed[j] \in Glyphs
        /\ \A j \in 1..n : line[j] = typed[j] \/ (line[j] = Nul /\ typed[j] = Space)
        BY <1>1 DEF LineLeft
  <1>5. line[b + 1] = Nul
        BY <1>2 DEF Ends
  <1>6. t \in 1..Len(line) /\ Nul \in {Nul}
        BY <1>3, <1>4
  <1>7. /\ f \in t..Len(line) /\ line[f] \in {Nul}
        /\ \A j \in t..f - 1 : line[j] \notin {Nul}
        BY <1>1, <1>6, FirstIs
  <1>8. Word(t) = SubSeq(line, t, f - 1)
        BY DEF Word
  <1> HIDE DEF n, w, t, b, f
  <1>9. ASSUME NEW j \in t..b PROVE line[j] = typed[j] /\ line[j] # Nul /\ typed[j] \in Glyphs
    <2>1. j \in 1..n /\ typed[j] # Space
          BY <1>3
    <2> QED BY <2>1, <1>4, Inputs
  <1>10. f = b + 1
    <2>1. f \in t..n + 1 /\ line[f] = Nul
          BY <1>4, <1>7
    <2>2. ~(f <= b)
      <3> SUFFICES ASSUME f <= b PROVE FALSE
          OBVIOUS
      <3>1. f \in t..b
            BY <2>1, <1>3
      <3> QED BY <3>1, <2>1, <1>9
    <2>3. ~(b + 1 < f)
      <3> SUFFICES ASSUME b + 1 < f PROVE FALSE
          OBVIOUS
      <3>1. b + 1 \in t..f - 1
            BY <2>1, <1>3
      <3> QED BY <3>1, <1>5, <1>7
    <2> QED BY <2>1, <2>2, <2>3, <1>3
  <1>11. f - 1 = b
         BY <1>3, <1>10
  <1> DEFINE p == SubSeq(line, t, b)
             q == SubSeq(typed, t, b)
  <1>12. /\ p \in Seq(Glyphs)
         /\ Len(p) = IF t <= b THEN b - t + 1 ELSE 0
         /\ \A j \in 1..b - t + 1 : p[j] = line[t + j - 1]
    <2>1. t \in Int /\ b \in Int /\ \A j \in t..b : line[j] \in Glyphs
          BY <1>3, <1>9
    <2> QED BY <2>1, SubSeqProperties
  <1>13. /\ q \in Seq(Glyphs)
         /\ Len(q) = IF t <= b THEN b - t + 1 ELSE 0
         /\ \A j \in 1..b - t + 1 : q[j] = typed[t + j - 1]
    <2>1. t \in Int /\ b \in Int /\ \A j \in t..b : typed[j] \in Glyphs
          BY <1>3, <1>9
    <2> QED BY <2>1, SubSeqProperties
  <1> HIDE DEF p, q
  <1>14. Len(p) = Len(q) /\ \A j \in 1..Len(p) : p[j] = q[j]
    <2>1. Len(p) = b - t + 1 /\ Len(q) = b - t + 1
          BY <1>3, <1>12, <1>13
    <2>2. ASSUME NEW j \in 1..b - t + 1 PROVE p[j] = q[j]
      <3>1. t + j - 1 \in t..b
            BY <1>3
      <3> QED BY <3>1, <1>9, <1>12, <1>13
    <2> QED BY <2>1, <2>2
  <1>15. p = q
         BY <1>12, <1>13, <1>14, SeqEqual
  <1> QED BY <1>2, <1>8, <1>11, <1>12, <1>15 DEF p, q, w, t, b

LEMMA TokenRank ==
  ASSUME InputInv, step = "run", Increasing, TokensFound, NEW i \in 1..Len(tokens)
  PROVE  Cardinality(Earlier(typed, WordOf(i))) = i - 1
  <1> DEFINE k == Len(tokens)
             T == Earlier(typed, WordOf(i))
             m == i - 1
             f == [j \in 1..m |-> WordOf(j)]
  <1>1. /\ typed \in Seq(Glyphs) /\ tokens \in Seq(1..Len(line))
        BY DEF InputInv, SplitInv, StepInv
  <1>2. k \in Nat /\ i \in 1..k /\ m \in Nat /\ (\A j \in 1..k : tokens[j] \in Int)
        /\ \A j \in 1..m : j \in 1..k /\ j < i
    <2>1. k \in Nat /\ \A j \in 1..k : tokens[j] \in 1..Len(line)
          BY <1>1
    <2>2. \A j \in 1..k : tokens[j] \in Int
          BY <2>1
    <2> HIDE DEF k
    <2> QED BY <2>1, <2>2 DEF k
  <1>3. \A j \in 1..k : WordOf(j) \in Stretches(typed) /\ WordOf(j)[1] = tokens[j]
        BY WordOfIs
  <1>4. next \in Int
        BY DEF InputInv, SplitInv
  <1>5. tokens[i] < next
        BY DEF TokensFound
  <1>6. \A x, y \in 1..k : x < y => tokens[x] < tokens[y]
        BY DEF Increasing
  <1> HIDE DEF k, m
  <1>7. f \in [1..m -> T]
    <2> SUFFICES ASSUME NEW j \in 1..m PROVE WordOf(j) \in T
        OBVIOUS
    <2>1. tokens[j] < tokens[i]
          BY <1>2, <1>6
    <2> QED BY <2>1, <1>2, <1>3 DEF Earlier
  <1>8. ASSUME NEW x \in 1..m, NEW y \in 1..m, x # y PROVE f[x] # f[y]
    <2>1. x \in 1..k /\ y \in 1..k /\ (x < y \/ y < x)
          BY <1>2, <1>8
    <2>2. tokens[x] # tokens[y]
          BY <2>1, <1>2, <1>6
    <2>3. WordOf(x)[1] # WordOf(y)[1]
          BY <2>1, <2>2, <1>3
    <2> QED BY <2>3
  <1>9. ASSUME NEW v \in T PROVE \E j \in 1..m : f[j] = v
    <2>1. v \in Stretches(typed) /\ v[1] < tokens[i]
          BY <1>2, <1>3 DEF Earlier
    <2>2. v[1] \in Int
          BY <2>1, <1>1, StretchIs
    <2>3. v[1] < next
          BY <2>1, <2>2, <1>2, <1>4, <1>5
    <2>4. PICK j \in 1..k : tokens[j] = v[1]
          BY <2>1, <2>3 DEF TokensFound, k
    <2>5. ~(i <= j)
      <3> SUFFICES ASSUME i <= j PROVE FALSE
          OBVIOUS
      <3>1. i = j \/ i < j
            BY <1>2
      <3>2. tokens[i] <= tokens[j]
            BY <3>1, <1>2, <1>6
      <3> QED BY <3>2, <2>1, <2>4, <1>2
    <2>6. j \in 1..m
          BY <2>5, <1>2 DEF m
    <2>7. WordOf(j) = v
          BY <2>1, <2>4, <1>1, <1>3, SameStart
    <2> QED BY <2>6, <2>7
  <1> HIDE DEF T, f
  <1>10. Cardinality(T) = m
         BY <1>2, <1>7, <1>8, <1>9, ListedCount
  <1> QED BY <1>10 DEF T, m

LEMMA NthIs ==
  ASSUME InputInv, step = "run", Increasing, TokensFound, NEW i \in 1..Len(tokens)
  PROVE  /\ i <= Cardinality(Stretches(typed))
         /\ WordOf(i) = CHOOSE w \in Stretches(typed) : Cardinality(Earlier(typed, w)) = i - 1
  <1> DEFINE S == Stretches(typed)
             c(w) == Cardinality(Earlier(typed, w))
             v == WordOf(i)
             u == CHOOSE w \in S : c(w) = i - 1
  <1>1. typed \in Seq(Glyphs) /\ i \in Int
    <2>1. typed \in Seq(Glyphs) /\ tokens \in Seq(1..Len(line))
          BY DEF InputInv, SplitInv, StepInv
    <2> QED BY <2>1
  <1>2. v \in S /\ c(v) = i - 1
        BY WordOfIs, TokenRank
  <1>3. u \in S /\ c(u) = i - 1
        BY <1>2
  <1>4. i <= Cardinality(S)
    <2>1. c(v) < Cardinality(S) /\ Cardinality(S) \in Nat
          BY <1>1, <1>2, EarlierLess, StretchesFinite
    <2> HIDE DEF c
    <2> QED BY <2>1, <1>1, <1>2
  <1> HIDE DEF u, v
  <1>5. u[1] \in Int /\ v[1] \in Int
        BY <1>1, <1>2, <1>3, StretchIs
  <1>6. ~(u[1] < v[1])
    <2> SUFFICES ASSUME u[1] < v[1] PROVE FALSE
        OBVIOUS
    <2>1. c(u) < c(v)
          BY <1>1, <1>2, <1>3, EarlierFewer
    <2> QED BY <2>1, <1>1, <1>2, <1>3
  <1>7. ~(v[1] < u[1])
    <2> SUFFICES ASSUME v[1] < u[1] PROVE FALSE
        OBVIOUS
    <2>1. c(v) < c(u)
          BY <1>1, <1>2, <1>3, EarlierFewer
    <2> QED BY <2>1, <1>1, <1>2, <1>3
  <1>8. u[1] = v[1]
        BY <1>5, <1>6, <1>7
  <1>9. u = v
        BY <1>1, <1>2, <1>3, <1>8, SameStart
  <1> QED BY <1>4, <1>9 DEF u, v

LEMMA FoundCount ==
  ASSUME InputInv, step = "run", Increasing, TokensFound,
         \A w \in Stretches(typed) : w[1] < next
  PROVE  Cardinality(Stretches(typed)) = Len(tokens)
  <1> DEFINE k == Len(tokens)
             T == Stretches(typed)
             f == [j \in 1..k |-> WordOf(j)]
  <1>1. /\ typed \in Seq(Glyphs) /\ tokens \in Seq(1..Len(line))
        BY DEF InputInv, SplitInv, StepInv
  <1>2. k \in Nat /\ \A j \in 1..k : tokens[j] \in Int
    <2>1. k \in Nat /\ \A j \in 1..k : tokens[j] \in 1..Len(line)
          BY <1>1
    <2> QED BY <2>1
  <1>3. \A j \in 1..k : WordOf(j) \in T /\ WordOf(j)[1] = tokens[j]
        BY WordOfIs
  <1>4. \A x, y \in 1..k : x < y => tokens[x] < tokens[y]
        BY DEF Increasing
  <1> HIDE DEF k
  <1>5. f \in [1..k -> T]
        BY <1>3
  <1>6. ASSUME NEW x \in 1..k, NEW y \in 1..k, x # y PROVE f[x] # f[y]
    <2>1. x < y \/ y < x
          BY <1>2, <1>6
    <2>2. tokens[x] # tokens[y]
          BY <2>1, <1>2, <1>4
    <2>3. WordOf(x)[1] # WordOf(y)[1]
          BY <2>2, <1>3
    <2> QED BY <2>3
  <1>7. ASSUME NEW v \in T PROVE \E j \in 1..k : f[j] = v
    <2>1. PICK j \in 1..k : tokens[j] = v[1]
          BY DEF TokensFound, k
    <2>2. WordOf(j) = v
          BY <2>1, <1>1, <1>3, SameStart
    <2> QED BY <2>2
  <1> HIDE DEF T, f
  <1>8. Cardinality(T) = k
        BY <1>2, <1>5, <1>6, <1>7, ListedCount
  <1> QED BY <1>8 DEF T, k

(* The command gets the words that were typed, as many as fit.             *)
THEOREM ShellInputTokensAreWords == Spec => []TokensAreWords
  <1>1. ASSUME InputInv, WordsInv PROVE TokensAreWords
    <2> SUFFICES ASSUME step = "run", ~full PROVE TokensAreWords
        BY DEF TokensAreWords
    <2> DEFINE S == Stretches(typed)
               N == Cardinality(S)
               k == Len(tokens)
               nth(i) == CHOOSE w \in S : Cardinality(Earlier(typed, w)) = i - 1
               words == Words(typed)
               read == [i \in DOMAIN tokens |-> Word(tokens[i])]
    <2>1. LineLeft /\ Increasing /\ TokensFound /\ AllFound
          BY <1>1 DEF WordsInv
    <2>2. /\ typed \in Seq(Glyphs) /\ tokens \in Seq(1..Len(line)) /\ k <= TokenBufferSize
          BY <1>1 DEF InputInv, SplitInv, StepInv
    <2>3. N \in Nat /\ k \in Nat /\ DOMAIN tokens = 1..k /\ TokenBufferSize \in Nat
          BY <2>2, StretchesFinite, Inputs
    <2>4. words = [i \in 1..N |-> SubSeq(typed, nth(i)[1], nth(i)[2])]
          BY DEF Words
    <2>5. ASSUME NEW i \in 1..k
          PROVE  i <= N /\ read[i] \in Seq(Glyphs) /\ words[i] = read[i]
      <3>1. i <= N /\ nth(i) = WordOf(i)
            BY <1>1, <2>1, NthIs
      <3>2. /\ Word(tokens[i]) = SubSeq(typed, WordOf(i)[1], WordOf(i)[2])
            /\ Word(tokens[i]) \in Seq(Glyphs)
            BY <1>1, <2>1, TokenReads
      <3>3. read[i] = Word(tokens[i])
            BY <2>3
      <3> HIDE DEF read, nth, S, k, N, words
      <3>4. i \in 1..N
            BY <3>1, <2>3
      <3>5. words[i] = SubSeq(typed, nth(i)[1], nth(i)[2])
            BY <3>4, <2>4
      <3> QED BY <3>1, <3>2, <3>3, <3>5
    <2>6. k <= N
      <3> HIDE DEF N, k
      <3>1. CASE k = 0
            BY <3>1, <2>3
      <3>2. CASE k # 0
        <4>1. k \in 1..k
              BY <3>2, <2>3
        <4> QED BY <4>1, <2>5
      <3> QED BY <3>1, <3>2
    <2>7. Len(words) = N
      <3> DEFINE V == {words[i] : i \in 1..N}
      <3>1. words \in [1..N -> V]
            BY <2>4
      <3> HIDE DEF N, words, V
      <3>2. words \in Seq(V) /\ Len(words) = N
            BY <3>1, <2>3
      <3> QED BY <3>2
    <2>8. Len(read) = k
      <3> DEFINE V == Seq(Glyphs)
      <3>1. read \in [1..k -> V]
            BY <2>3, <2>5
      <3> HIDE DEF k, read, V
      <3>2. read \in Seq(V) /\ Len(read) = k
            BY <3>1, <2>3
      <3> QED BY <3>2
    <2> HIDE DEF read, words, N, k, S
    <2>9. IsPrefix(read, words)
      <3> DEFINE V == Seq(Glyphs)
                 p == SubSeq(read, 1, k)
                 q == SubSeq(words, 1, k)
      <3>1. \A i \in 1..k : read[i] \in V /\ words[i] \in V /\ words[i] = read[i]
            BY <2>5
      <3> HIDE DEF V
      <3>2. /\ p \in Seq(V)
            /\ Len(p) = IF 1 <= k THEN k - 1 + 1 ELSE 0
            /\ \A i \in 1..k - 1 + 1 : p[i] = read[1 + i - 1]
            BY <2>3, <3>1, SubSeqProperties
      <3>3. /\ q \in Seq(V)
            /\ Len(q) = IF 1 <= k THEN k - 1 + 1 ELSE 0
            /\ \A i \in 1..k - 1 + 1 : q[i] = words[1 + i - 1]
            BY <2>3, <3>1, SubSeqProperties
      <3> HIDE DEF p, q
      <3>4. Len(p) = Len(q) /\ \A i \in 1..Len(p) : p[i] = q[i]
        <4>1. Len(p) = k /\ Len(q) = k
              BY <2>3, <3>2, <3>3
        <4>2. ASSUME NEW i \in 1..k PROVE p[i] = q[i]
          <5>1. i \in 1..k - 1 + 1 /\ 1 + i - 1 = i
                BY <2>3
          <5> QED BY <5>1, <3>1, <3>2, <3>3
        <4> QED BY <4>1, <4>2
      <3>5. p = q
            BY <3>2, <3>3, <3>4, SeqEqual
      <3> QED BY <3>5, <2>6, <2>7, <2>8 DEF IsPrefix, p, q
    <2>10. IF Len(words) < TokenBufferSize THEN argc = Len(words) /\ argc = k
           ELSE k = TokenBufferSize
      <3>1. CASE k = TokenBufferSize
        <4>1. ~(N < TokenBufferSize)
              BY <3>1, <2>3, <2>6
        <4> QED BY <4>1, <3>1, <2>7
      <3>2. CASE k # TokenBufferSize
        <4>1. /\ k < TokenBufferSize /\ argc = k
              /\ \A w \in S : w[1] < next
              BY <3>2, <2>1 DEF AllFound, k, S
        <4>2. N = k
              BY <4>1, <1>1, <2>1, FoundCount DEF N, k, S
        <4> QED BY <4>1, <4>2, <2>7
      <3> QED BY <3>1, <3>2
    <2> QED BY <2>9, <2>10 DEF TokensAreWords, read, words, k
  <1> QED BY <1>1, ShellInputInvariant, ShellInputWordsInvariant, PTL
=============================================================================
