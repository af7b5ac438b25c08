---------------------------- MODULE OutputProofs ----------------------------
(***************************************************************************)
(* Output: the console, and the formatting of what goes there.             *)
(*                                                                         *)
(* The screen is a window on a terminal's paper, for every size of screen, *)
(* every text and cursor the BIOS may leave and every output: no row is    *)
(* lost, moved or rewritten by the scroll of cga_putc.  Every character    *)
(* reaches the serial line.  vprintfmt stays inside its format and its     *)
(* buffer for every directive, argument and size, and prints what the      *)
(* directive means.                                                        *)
(***************************************************************************)
EXTENDS ConsoleOutput, Printfmt, SequenceTheorems, WellFoundedInduction,
        TLAPS

(* Whole rows have scrolled away.                                          *)
CInv == TypeOK /\ Len(above) % CRT_COLS = 0

(* The paper on which b is the last CRT_SIZE cells.                        *)
Sheet(a, b) == a \o [i \in 1 .. CRT_SIZE |-> b[i - 1]]

-----------------------------------------------------------------------------
(* The screen.                                                             *)

LEMMA LineStartBounds ==
  ASSUME NEW p \in Nat
  PROVE  LineStart(p) \in Nat /\ LineStart(p) <= p
  <1>1. p % CRT_COLS \in 0 .. CRT_COLS - 1
    BY CgaAssumption
  <1>2. p % CRT_COLS <= p
    BY CgaAssumption
  <1> QED
    BY <1>1, <1>2, CgaAssumption DEF LineStart

LEMMA ScreenRecord ==
  ASSUME NEW s \in Screens
  PROVE  /\ s = [buf |-> s.buf, pos |-> s.pos]
         /\ s.buf \in [Cells -> Glyphs]
         /\ s.pos \in Cells
  BY DEF Screens

LEMMA ScrollType ==
  ASSUME NEW b \in [Cells -> Glyphs], NEW p \in Nat, p < CRT_SIZE + CRT_COLS
  PROVE  Scroll([buf |-> b, pos |-> p]) \in Screens
  <1>1. Shifted(b) \in [Cells -> Glyphs]
    BY CgaAssumption DEF Shifted, Cells
  <1>2. CASE p < CRT_SIZE
    <2>1. p \in Cells
      BY <1>2, CgaAssumption DEF Cells
    <2> QED
      BY <1>2, <2>1 DEF Scroll, Screens
  <1>3. CASE ~(p < CRT_SIZE)
    <2>1. p - CRT_COLS \in Cells
      BY <1>3, CgaAssumption DEF Cells
    <2> QED
      BY <1>1, <1>3, <2>1 DEF Scroll, Screens
  <1> QED
    BY <1>2, <1>3

-----------------------------------------------------------------------------
(* Paper.                                                                  *)

LEMMA SheetCells ==
  ASSUME NEW a \in Seq(Glyphs), NEW b \in [Cells -> Glyphs]
  PROVE  /\ Sheet(a, b) \in Seq(Glyphs)
         /\ Len(Sheet(a, b)) = Len(a) + CRT_SIZE
         /\ \A i \in 1 .. Len(a) + CRT_SIZE :
              Sheet(a, b)[i] = IF i <= Len(a) THEN a[i] ELSE b[i - Len(a) - 1]
<1> DEFINE t == [i \in 1 .. CRT_SIZE |-> b[i - 1]]
<1>1. CRT_SIZE \in Nat
  BY CgaAssumption
<1>2. \A i \in 1 .. CRT_SIZE : i - 1 \in Cells /\ b[i - 1] \in Glyphs
  BY <1>1 DEF Cells
<1>3. t \in [1 .. CRT_SIZE -> Glyphs]
  BY <1>2
<1>4. t \in Seq(Glyphs) /\ Len(t) = CRT_SIZE
  BY <1>1, <1>3
<1>5. Len(a) \in Nat
  BY LenProperties
<1>6. \A i \in 1 .. Len(a) + CRT_SIZE :
        ~(i <= Len(a)) => t[i - Len(a)] = b[i - Len(a) - 1]
  <2> TAKE i \in 1 .. Len(a) + CRT_SIZE
  <2> HAVE ~(i <= Len(a))
  <2>1. i - Len(a) \in 1 .. CRT_SIZE
    BY <1>1, <1>5
  <2> QED BY <2>1
<1> HIDE DEF t
<1>7. /\ a \o t \in Seq(Glyphs) /\ Len(a \o t) = Len(a) + Len(t)
      /\ \A i \in 1 .. Len(a) + Len(t) :
           (a \o t)[i] = IF i <= Len(a) THEN a[i] ELSE t[i - Len(a)]
  BY <1>4, ConcatProperties
<1>8. Sheet(a, b) = a \o t
  BY DEF Sheet, t
<1> QED BY <1>4, <1>7, <1>6, <1>8

(* A cell of the screen changes as a cell of the paper.                    *)
LEMMA SheetExcept ==
  ASSUME NEW a \in Seq(Glyphs), NEW b \in [Cells -> Glyphs],
         NEW k \in Cells, NEW g \in Glyphs
  PROVE  [Sheet(a, b) EXCEPT ![Len(a) + k + 1] = g]
           = Sheet(a, [b EXCEPT ![k] = g])
<1> DEFINE c2 == [b EXCEPT ![k] = g]
           n == Len(a) + k + 1
           s == Sheet(a, b)
           t == Sheet(a, c2)
<1>1. Len(a) \in Nat /\ CRT_SIZE \in Nat /\ k \in Nat /\ k < CRT_SIZE
  BY LenProperties, CgaAssumption DEF Cells
<1>2. c2 \in [Cells -> Glyphs] /\ c2[k] = g
      /\ \A i \in Cells : i # k => c2[i] = b[i]
  OBVIOUS
<1> HIDE DEF c2
<1>3. /\ s \in Seq(Glyphs) /\ Len(s) = Len(a) + CRT_SIZE
      /\ \A i \in 1 .. Len(a) + CRT_SIZE :
           s[i] = IF i <= Len(a) THEN a[i] ELSE b[i - Len(a) - 1]
  BY SheetCells
<1>4. /\ t \in Seq(Glyphs) /\ Len(t) = Len(a) + CRT_SIZE
      /\ \A i \in 1 .. Len(a) + CRT_SIZE :
           t[i] = IF i <= Len(a) THEN a[i] ELSE c2[i - Len(a) - 1]
  BY <1>2, SheetCells
<1> HIDE DEF s, t
<1>5. n \in 1 .. Len(s)
  BY <1>1, <1>3
<1> DEFINE e == [s EXCEPT ![n] = g]
<1>6. /\ e \in Seq(Glyphs) /\ Len(e) = Len(s)
      /\ \A j \in 1 .. Len(s) : e[j] = IF j = n THEN g ELSE s[j]
  BY <1>3, <1>5, ExceptSeq
<1> HIDE DEF e
<1>7. ASSUME NEW i \in 1 .. Len(e)
      PROVE  e[i] = t[i]
  <2>1. i \in 1 .. Len(a) + CRT_SIZE /\ i \in Nat
    BY <1>3, <1>6
  <2>2. CASE i <= Len(a)
    <3>1. i # n
      BY <1>1, <2>1, <2>2
    <3>2. s[i] = a[i] /\ t[i] = a[i]
      BY <1>3, <1>4, <2>1, <2>2
    <3> QED BY <1>3, <1>6, <2>1, <3>1, <3>2
  <2>3. CASE i = n
    BY <1>1, <1>2, <1>4, <1>6, <2>1, <2>3
  <2>4. CASE ~(i <= Len(a)) /\ i # n
    <3>1. i - Len(a) - 1 \in Cells /\ i - Len(a) - 1 # k
      BY <1>1, <2>1, <2>4 DEF Cells
    <3> QED BY <1>2, <1>3, <1>4, <1>6, <2>1, <2>4, <3>1
  <2> QED BY <2>2, <2>3, <2>4
<1>8. e = t
  BY <1>3, <1>4, <1>6, <1>7, SeqEqual
<1> QED BY <1>8 DEF e, s, t, c2

(* What scrolls off the screen stays on the paper, which grows by a row.   *)
LEMMA SheetScroll ==
  ASSUME NEW a \in Seq(Glyphs), NEW b \in [Cells -> Glyphs]
  PROVE  LET row   == [i \in 1 .. CRT_COLS |-> b[i - 1]]
             blank == [i \in 1 .. CRT_COLS |-> Blank]
         IN  /\ a \o row \in Seq(Glyphs)
             /\ Len(a \o row) = Len(a) + CRT_COLS
             /\ Sheet(a \o row, Shifted(b)) = Sheet(a, b) \o blank
<1> DEFINE row   == [i \in 1 .. CRT_COLS |-> b[i - 1]]
           blank == [i \in 1 .. CRT_COLS |-> Blank]
           sh    == Shifted(b)
           s     == Sheet(a \o row, sh)
           t     == Sheet(a, b)
<1>1. /\ Len(a) \in Nat /\ CRT_SIZE \in Nat /\ CRT_COLS \in Nat
      /\ CRT_COLS <= CRT_SIZE /\ Blank \in Glyphs
  BY LenProperties, CgaAssumption
<1>2. \A i \in 1 .. CRT_COLS : i - 1 \in Cells
  BY <1>1 DEF Cells
<1>3. row \in Seq(Glyphs) /\ Len(row) = CRT_COLS
      /\ \A i \in 1 .. CRT_COLS : row[i] = b[i - 1]
  BY <1>1, <1>2
<1>4. blank \in Seq(Glyphs) /\ Len(blank) = CRT_COLS
      /\ \A i \in 1 .. CRT_COLS : blank[i] = Blank
  BY <1>1
<1>5. sh \in [Cells -> Glyphs]
      /\ \A i \in Cells : sh[i] = IF i < CRT_SIZE - CRT_COLS
                                  THEN b[i + CRT_COLS] ELSE Blank
  <2>1. \A i \in Cells : i < CRT_SIZE - CRT_COLS => i + CRT_COLS \in Cells
    BY <1>1 DEF Cells
  <2> QED BY <1>1, <2>1 DEF Shifted
<1> HIDE DEF row, blank, sh
<1>6. /\ a \o row \in Seq(Glyphs) /\ Len(a \o row) = Len(a) + CRT_COLS
      /\ \A i \in 1 .. Len(a) + CRT_COLS :
           (a \o row)[i] = IF i <= Len(a) THEN a[i] ELSE row[i - Len(a)]
  BY <1>3, ConcatProperties
<1> DEFINE ar == a \o row
<1>7. /\ s \in Seq(Glyphs) /\ Len(s) = Len(ar) + CRT_SIZE
      /\ \A i \in 1 .. Len(ar) + CRT_SIZE :
           s[i] = IF i <= Len(ar) THEN ar[i] ELSE sh[i - Len(ar) - 1]
  BY <1>5, <1>6, SheetCells
<1>8. /\ Len(ar) = Len(a) + CRT_COLS
      /\ \A i \in 1 .. Len(a) + CRT_COLS :
           ar[i] = IF i <= Len(a) THEN a[i] ELSE b[i - Len(a) - 1]
  <2> SUFFICES ASSUME NEW i \in 1 .. Len(a) + CRT_COLS, ~(i <= Len(a))
               PROVE  row[i - Len(a)] = b[i - Len(a) - 1]
    BY <1>6
  <2>1. i - Len(a) \in 1 .. CRT_COLS
    BY <1>1
  <2> QED BY <1>3, <2>1
<1>9. /\ t \in Seq(Glyphs) /\ Len(t) = Len(a) + CRT_SIZE
      /\ \A i \in 1 .. Len(a) + CRT_SIZE :
           t[i] = IF i <= Len(a) THEN a[i] ELSE b[i - Len(a) - 1]
  BY SheetCells
<1> HIDE DEF s, t, ar
<1>10. /\ t \o blank \in Seq(Glyphs) /\ Len(t \o blank) = Len(t) + Len(blank)
       /\ \A i \in 1 .. Len(t) + Len(blank) :
            (t \o blank)[i] = IF i <= Len(t) THEN t[i] ELSE blank[i - Len(t)]
  BY <1>4, <1>9, ConcatProperties
<1> DEFINE tb == t \o blank
<1>11. /\ tb \in Seq(Glyphs) /\ Len(tb) = Len(a) + CRT_SIZE + CRT_COLS
       /\ \A i \in 1 .. Len(a) + CRT_SIZE + CRT_COLS :
            tb[i] = IF i <= Len(a) + CRT_SIZE THEN t[i] ELSE Blank
  <2>1. Len(tb) = Len(a) + CRT_SIZE + CRT_COLS
    BY <1>4, <1>9, <1>10
  <2> SUFFICES ASSUME NEW i \in 1 .. Len(a) + CRT_SIZE + CRT_COLS
               PROVE  tb[i] = IF i <= Len(a) + CRT_SIZE THEN t[i] ELSE Blank
    BY <1>10, <2>1
  <2>2. tb[i] = IF i <= Len(t) THEN t[i] ELSE blank[i - Len(t)]
    BY <1>4, <1>9, <1>10
  <2>3. ~(i <= Len(t)) => i - Len(t) \in 1 .. CRT_COLS
    BY <1>1, <1>9
  <2> QED BY <1>4, <1>9, <2>2, <2>3
<1> HIDE DEF tb
<1>12. ASSUME NEW i \in 1 .. Len(s)
       PROVE  s[i] = tb[i]
  <2>1. i \in Nat /\ i >= 1 /\ i <= Len(a) + CRT_COLS + CRT_SIZE
    BY <1>1, <1>7, <1>8
  <2>2. tb[i] = IF i <= Len(a) + CRT_SIZE THEN t[i] ELSE Blank
    BY <1>1, <1>11, <2>1
  <2>3. s[i] = IF i <= Len(ar) THEN ar[i] ELSE sh[i - Len(ar) - 1]
    BY <1>7
  <2>4. CASE i <= Len(a) + CRT_COLS
    <3>1. s[i] = IF i <= Len(a) THEN a[i] ELSE b[i - Len(a) - 1]
      BY <1>1, <1>8, <2>1, <2>3, <2>4
    <3>2. i \in 1 .. Len(a) + CRT_SIZE
      BY <1>1, <2>1, <2>4
    <3> QED BY <1>9, <2>2, <3>1, <3>2
  <2>5. CASE ~(i <= Len(a) + CRT_COLS)
    <3>1. PICK k \in Cells : k = i - (Len(a) + CRT_COLS) - 1
      BY <1>1, <2>1, <2>5 DEF Cells
    <3>2. s[i] = IF k < CRT_SIZE - CRT_COLS THEN b[k + CRT_COLS] ELSE Blank
      BY <1>5, <1>8, <2>3, <2>5, <3>1
    <3>3. k + CRT_COLS = i - Len(a) - 1
      BY <1>1, <2>1, <3>1
    <3>4. k < CRT_SIZE - CRT_COLS <=> i <= Len(a) + CRT_SIZE
      BY <1>1, <2>1, <3>1
    <3>5. CASE i <= Len(a) + CRT_SIZE
      <4>1. i \in 1 .. Len(a) + CRT_SIZE /\ ~(i <= Len(a))
        BY <1>1, <2>1, <2>5, <3>5
      <4>2. t[i] = b[i - Len(a) - 1]
        BY <1>9, <4>1
      <4> QED BY <2>2, <3>2, <3>3, <3>4, <3>5, <4>2
    <3>6. CASE ~(i <= Len(a) + CRT_SIZE)
      BY <2>2, <3>2, <3>4, <3>6
    <3> QED BY <3>5, <3>6
  <2> QED BY <2>4, <2>5
<1>13. s = tb
  <2>1. Len(s) = Len(tb)
    BY <1>1, <1>7, <1>8, <1>11
  <2> QED BY <1>7, <1>11, <1>12, <2>1, SeqEqual
<1> QED BY <1>6, <1>13 DEF s, t, tb, row, blank, sh

-----------------------------------------------------------------------------
(* Rows.                                                                   *)

LEMMA RowQuotient ==
  ASSUME NEW q \in Nat, NEW r \in 0 .. CRT_COLS - 1
  PROVE  (q * CRT_COLS + r) % CRT_COLS = r
BY CgaAssumption

LEMMA RowDivision ==
  ASSUME NEW p \in Nat
  PROVE  \E q \in Nat, r \in 0 .. CRT_COLS - 1 :
           p % CRT_COLS = r /\ p = q * CRT_COLS + r
<1> DEFINE q == p \div CRT_COLS
           r == p % CRT_COLS
<1>1. CRT_COLS \in Nat \ {0}
  BY CgaAssumption
<1>2. r \in 0 .. CRT_COLS - 1 /\ q \in Nat
  BY <1>1
<1>3. p % CRT_COLS = p - CRT_COLS * (p \div CRT_COLS)
  BY <1>1
<1>4. r = p - CRT_COLS * q /\ r = p % CRT_COLS
  BY <1>3
<1> HIDE DEF q, r
<1>5. p = q * CRT_COLS + r
  BY <1>1, <1>2, <1>4
<1> QED BY <1>2, <1>4, <1>5

(* Whole rows do not change the column.                                    *)
LEMMA SameColumn ==
  ASSUME NEW n \in Nat, NEW p \in Nat, n % CRT_COLS = 0
  PROVE  (n + p) % CRT_COLS = p % CRT_COLS
<1>1. PICK q \in Nat, r \in 0 .. CRT_COLS - 1 :
        n % CRT_COLS = r /\ n = q * CRT_COLS + r
  BY RowDivision
<1>2. PICK u \in Nat, v \in 0 .. CRT_COLS - 1 :
        p % CRT_COLS = v /\ p = u * CRT_COLS + v
  BY RowDivision
<1>3. CRT_COLS \in Nat /\ q * CRT_COLS \in Nat /\ u * CRT_COLS \in Nat
  BY CgaAssumption
<1>4. n + p = (q + u) * CRT_COLS + v
  <2>1. (q + u) * CRT_COLS = q * CRT_COLS + u * CRT_COLS
    BY <1>3
  <2> QED BY <1>1, <1>2, <1>3, <2>1
<1>5. ((q + u) * CRT_COLS + v) % CRT_COLS = v
  BY RowQuotient
<1> QED BY <1>2, <1>4, <1>5

LEMMA WholeRows ==
  /\ 0 % CRT_COLS = 0 /\ CRT_COLS % CRT_COLS = 0 /\ CRT_SIZE % CRT_COLS = 0
<1>1. CRT_COLS \in Nat \ {0} /\ CRT_ROWS \in Nat
  BY CgaAssumption
<1>2. /\ (0 * CRT_COLS + 0) % CRT_COLS = 0
      /\ (1 * CRT_COLS + 0) % CRT_COLS = 0
      /\ (CRT_ROWS * CRT_COLS + 0) % CRT_COLS = 0
  BY <1>1, RowQuotient
<1>3. CRT_ROWS * CRT_COLS \in Nat
  BY <1>1
<1> QED BY <1>1, <1>2, <1>3 DEF CRT_SIZE

(* The start of a row, seen from the screen and from the paper.            *)
LEMMA RowStart ==
  ASSUME NEW n \in Nat, n % CRT_COLS = 0, NEW p \in Nat
  PROVE  /\ n + LineStart(p) = (n + p) - ((n + p) % CRT_COLS)
         /\ n + LineStart(p + CRT_COLS)
              = (n + p) + CRT_COLS - ((n + p) % CRT_COLS)
<1>1. (n + p) % CRT_COLS = p % CRT_COLS
  BY SameColumn
<1>2. (CRT_COLS + p) % CRT_COLS = p % CRT_COLS
  BY SameColumn, WholeRows, CgaAssumption
<1>3. CRT_COLS \in Nat /\ p % CRT_COLS \in Int
  BY CgaAssumption
<1>4. p + CRT_COLS = CRT_COLS + p
  BY <1>3
<1>5. PICK r \in Int : r = p % CRT_COLS
  BY <1>3
<1>6. LineStart(p) = p - r /\ LineStart(p + CRT_COLS) = p + CRT_COLS - r
  <2>1. (p + CRT_COLS) % CRT_COLS = r
    BY <1>2, <1>4, <1>5
  <2>2. LineStart(p) = p - r
    BY <1>5 DEF LineStart
  <2>3. LineStart(p + CRT_COLS) = p + CRT_COLS - r
    BY <1>3, <1>5, <2>1 DEF LineStart
  <2> QED BY <2>2, <2>3
<1>7. (n + p) % CRT_COLS = r
  BY <1>1, <1>5
<1>8. /\ n + (p - r) = (n + p) - r
      /\ n + (p + CRT_COLS - r) = (n + p) + CRT_COLS - r
  BY <1>3, <1>5
<1> QED BY <1>6, <1>7, <1>8

-----------------------------------------------------------------------------
(* The screen on the paper.                                                *)

PaperCells == Sheet(above, screen.buf)

LEMMA PaperIs ==
  /\ above \o Row(screen, CRT_SIZE) = PaperCells
BY DEF PaperCells, Sheet, Row

(* Whatever Write has made of the screen, with the cursor up to a row below*)
(* it, Show moves the terminal's cursor there.                             *)
LEMMA ShowMoves ==
  ASSUME CInv, NEW b \in [Cells -> Glyphs], NEW p \in Nat,
         p < CRT_SIZE + CRT_COLS, Show([buf |-> b, pos |-> p])
  PROVE  /\ screen' \in Screens
         /\ above' \in Seq(Glyphs) /\ Len(above') % CRT_COLS = 0
         /\ Paper!MoveTo(Len(above) + p, Sheet(above, b))
<1> DEFINE s == [buf |-> b, pos |-> p]
<1>1. /\ screen' = Scroll(s)
      /\ above' = IF p < CRT_SIZE THEN above ELSE above \o Row(s, CRT_COLS)
      /\ screen' \in Screens
  BY ScrollType DEF Show
<1>2. above \in Seq(Glyphs) /\ Len(above) \in Nat /\ Len(above) % CRT_COLS = 0
  BY LenProperties DEF CInv, TypeOK
<1>3. Len(Sheet(above, b)) = Len(above) + CRT_SIZE
  BY <1>2, SheetCells
<1>4. CRT_SIZE \in Nat /\ CRT_COLS \in Nat
  BY CgaAssumption
<1>5. (above \o Row(screen, CRT_SIZE))' = Sheet(above', screen'.buf)
  BY DEF Sheet, Row
<1>6. CASE p < CRT_SIZE
  <2>1. screen'.buf = b /\ screen'.pos = p /\ above' = above
    BY <1>1, <1>6 DEF Scroll
  <2>2. Len(above) + p < Len(Sheet(above, b))
    BY <1>2, <1>3, <1>4, <1>6
  <2> QED
    BY <1>1, <1>2, <1>5, <2>1, <2>2 DEF Paper!MoveTo
<1>7. CASE ~(p < CRT_SIZE)
  <2> DEFINE row == [i \in 1 .. CRT_COLS |-> b[i - 1]]
  <2>1. /\ screen'.buf = Shifted(b) /\ screen'.pos = p - CRT_COLS
        /\ above' = above \o row
    BY <1>1, <1>7 DEF Scroll, Row
  <2>2. /\ above \o row \in Seq(Glyphs)
        /\ Len(above \o row) = Len(above) + CRT_COLS
        /\ Sheet(above \o row, Shifted(b))
             = Sheet(above, b) \o [i \in 1 .. CRT_COLS |-> Blank]
    BY <1>2, SheetScroll
  <2> HIDE DEF row
  <2>3. ~(Len(above) + p < Len(Sheet(above, b)))
    BY <1>2, <1>3, <1>4, <1>7
  <2>4. Len(above') + screen'.pos = Len(above) + p
    BY <1>2, <1>4, <2>1, <2>2
  <2>5. (Len(above) + CRT_COLS) % CRT_COLS = 0
    BY <1>2, <1>4, SameColumn, WholeRows
  <2>6. (above \o Row(screen, CRT_SIZE))'
          = Sheet(above, b) \o [i \in 1 .. CRT_COLS |-> Blank]
    BY <1>5, <2>1, <2>2
  <2> QED
    BY <1>1, <2>1, <2>2, <2>3, <2>4, <2>5, <2>6
    DEF Paper!MoveTo, Paper!BlankRow
<1> QED BY <1>6, <1>7

LEMMA CharStep ==
  ASSUME CInv, cga_char
  PROVE  /\ screen' \in Screens
         /\ above' \in Seq(Glyphs) /\ Len(above') % CRT_COLS = 0
         /\ [Paper!Next]_(Paper!vars)
<1> DEFINE b == screen.buf
           p == screen.pos
           n == Len(above)
<1>1. /\ screen = [buf |-> b, pos |-> p]
      /\ b \in [Cells -> Glyphs] /\ p \in Cells
      /\ above \in Seq(Glyphs) /\ n \in Nat /\ n % CRT_COLS = 0
      /\ c \in Glyphs \cup Controls
  BY ScreenRecord, LenProperties DEF CInv, TypeOK, cga_char, Chars
<1>2. /\ CRT_SIZE \in Nat /\ CRT_COLS \in Nat \ {0} /\ Blank \in Glyphs
      /\ p \in Nat /\ p < CRT_SIZE
  BY <1>1, CgaAssumption DEF Cells
<1>3. Show(Write(screen, c))
  BY DEF cga_char
<1>4. above \o Row(screen, CRT_SIZE) = Sheet(above, b)
  BY PaperIs DEF PaperCells
<1>5. CASE c \in Glyphs
  <2> DEFINE d == [b EXCEPT ![p] = c]
  <2>1. c \notin {BS, NL, CR}
    BY <1>5, CgaAssumption DEF Controls
  <2>2. Write(screen, c) = [buf |-> d, pos |-> p + 1]
    BY <1>1, <2>1 DEF Write
  <2>3. d \in [Cells -> Glyphs] /\ p + 1 \in Nat /\ p + 1 < CRT_SIZE + CRT_COLS
    BY <1>1, <1>2, <1>5
  <2>4. [Sheet(above, b) EXCEPT ![n + p + 1] = c] = Sheet(above, d)
    BY <1>1, <1>5, SheetExcept
  <2> HIDE DEF d
  <2>5. /\ screen' \in Screens
        /\ above' \in Seq(Glyphs) /\ Len(above') % CRT_COLS = 0
        /\ Paper!MoveTo(Len(above) + (p + 1), Sheet(above, d))
    BY <1>3, <2>2, <2>3, ShowMoves
  <2>6. n + (p + 1) = n + p + 1
    BY <1>1, <1>2
  <2>7. Paper!Type(c)
    BY <1>4, <2>4, <2>5, <2>6 DEF Paper!Type
  <2> QED BY <1>5, <2>5, <2>7 DEF Paper!Next
<1>6. CASE c = BS /\ p > 0
  <2> DEFINE d == [b EXCEPT ![p - 1] = Blank]
  <2>1. Write(screen, c) = [buf |-> d, pos |-> p - 1]
    BY <1>1, <1>2, <1>6, ControlsDiffer DEF Write
  <2>2. d \in [Cells -> Glyphs] /\ p - 1 \in Cells
        /\ p - 1 \in Nat /\ p - 1 < CRT_SIZE + CRT_COLS
    BY <1>1, <1>2, <1>6 DEF Cells
  <2>3. [Sheet(above, b) EXCEPT ![n + (p - 1) + 1] = Blank] = Sheet(above, d)
    BY <1>1, <1>2, <2>2, SheetExcept
  <2> HIDE DEF d
  <2>4. /\ screen' \in Screens
        /\ above' \in Seq(Glyphs) /\ Len(above') % CRT_COLS = 0
        /\ Paper!MoveTo(Len(above) + (p - 1), Sheet(above, d))
    BY <1>3, <2>1, <2>2, ShowMoves
  <2>5. n + (p - 1) = (n + p) - 1 /\ n + (p - 1) + 1 = n + p /\ n + p > 0
    BY <1>1, <1>2, <1>6
  <2>6. [Sheet(above, b) EXCEPT ![n + p] = Blank] = Sheet(above, d)
    BY <2>3, <2>5
  <2>7. Paper!MoveTo((n + p) - 1, [Sheet(above, b) EXCEPT ![n + p] = Blank])
    BY <2>4, <2>5, <2>6
  <2>8. Paper!Erase
    BY <1>4, <2>5, <2>7 DEF Paper!Erase
  <2> QED BY <2>4, <2>8 DEF Paper!Next
<1>7. CASE c = BS /\ p = 0
  <2>1. Write(screen, c) = screen
    BY <1>7, ControlsDiffer DEF Write
  <2>2. screen' = screen /\ above' = above
    BY <1>2, <1>3, <2>1 DEF Show, Scroll
  <2> QED BY <1>1, <2>2 DEF CInv, TypeOK, Paper!vars, Row
<1>8. CASE c = NL
  <2> DEFINE q == LineStart(p + CRT_COLS)
  <2>1. Write(screen, c) = [buf |-> b, pos |-> q]
    BY <1>1, <1>8, ControlsDiffer DEF Write
  <2>2. q \in Nat /\ q <= p + CRT_COLS
    BY <1>2, LineStartBounds
  <2>3. n + q = (n + p) + CRT_COLS - ((n + p) % CRT_COLS)
    BY <1>1, <1>2, RowStart
  <2> HIDE DEF q
  <2>4. q < CRT_SIZE + CRT_COLS
    BY <1>2, <2>2
  <2>5. /\ screen' \in Screens
        /\ above' \in Seq(Glyphs) /\ Len(above') % CRT_COLS = 0
        /\ Paper!MoveTo(Len(above) + q, Sheet(above, b))
    BY <1>1, <1>3, <2>1, <2>2, <2>4, ShowMoves
  <2>6. Paper!NewLine
    BY <1>4, <2>3, <2>5 DEF Paper!NewLine
  <2> QED BY <2>5, <2>6 DEF Paper!Next
<1>9. CASE c = CR
  <2> DEFINE q == LineStart(p)
  <2>1. Write(screen, c) = [buf |-> b, pos |-> q]
    BY <1>1, <1>9, ControlsDiffer DEF Write
  <2>2. q \in Nat /\ q <= p
    BY <1>2, LineStartBounds
  <2>3. n + q = (n + p) - ((n + p) % CRT_COLS)
    BY <1>1, <1>2, RowStart
  <2> HIDE DEF q
  <2>4. q < CRT_SIZE + CRT_COLS
    BY <1>2, <2>2
  <2>5. /\ screen' \in Screens
        /\ above' \in Seq(Glyphs) /\ Len(above') % CRT_COLS = 0
        /\ Paper!MoveTo(Len(above) + q, Sheet(above, b))
    BY <1>1, <1>3, <2>1, <2>2, <2>4, ShowMoves
  <2>6. Paper!Return
    BY <1>4, <2>3, <2>5 DEF Paper!Return
  <2> QED BY <2>5, <2>6 DEF Paper!Next
<1> QED
  BY <1>1, <1>2, <1>5, <1>6, <1>7, <1>8, <1>9 DEF Controls

-----------------------------------------------------------------------------
(* The refinement.                                                         *)

LEMMA InitPaper == Init => CInv /\ Paper!Init
<1> SUFFICES ASSUME Init PROVE CInv /\ Paper!Init
  OBVIOUS
<1>1. /\ screen \in Screens /\ above = <<>> /\ Blank \in Chars
      /\ CRT_SIZE \in Nat /\ 0 \in 0 .. SpinLimit
  BY CgaAssumption, OutputAssumption DEF Init, Chars
<1>2. TypeOK
  <2>1. thr \in {Empty, Absent}
    BY OutputAssumption DEF Init
  <2>2. pc = "idle" /\ c = Blank /\ spins = 0 /\ spaces = 0
        /\ issued = <<>> /\ wire = <<>> /\ late = FALSE
        /\ lpt_ready \in BOOLEAN /\ printed = 0
    BY DEF Init
  <2>3. above \in Seq(Glyphs) /\ issued \in Seq(Chars) /\ wire \in Seq(Chars)
    BY <1>1, <2>2, EmptySeq
  <2>4. late \in BOOLEAN /\ lpt_ready \in BOOLEAN
    BY <2>2
  <2>5. printed \in 0 .. MaxChars
    <3>1. MaxChars \in Nat
      BY OutputAssumption
    <3> QED BY <2>2, <3>1
  <2>6. pc \in Locations /\ spins \in 0 .. SpinLimit /\ spaces \in 0 .. 5
    BY <1>1, <2>2 DEF Locations
  <2> QED BY <1>1, <2>1, <2>2, <2>3, <2>4, <2>6, <2>5 DEF TypeOK
<1>3. Len(above) = 0 /\ above \in Seq(Glyphs)
  BY <1>1
<1>4. screen.buf \in [Cells -> Glyphs] /\ screen.pos \in Cells
  BY <1>1, ScreenRecord
<1>5. /\ PaperCells \in Seq(Glyphs)
      /\ Len(PaperCells) = CRT_SIZE
  <2>1. /\ PaperCells \in Seq(Glyphs)
        /\ Len(PaperCells) = Len(above) + CRT_SIZE
    BY <1>3, <1>4, SheetCells DEF PaperCells
  <2> QED BY <1>1, <1>3, <2>1
<1>6. above \o Row(screen, CRT_SIZE) = PaperCells
  BY PaperIs
<1>7. Len(above) + screen.pos \in 0 .. CRT_SIZE - 1
  BY <1>1, <1>3, <1>4 DEF Cells
<1> QED
  BY <1>2, <1>3, <1>5, <1>6, <1>7, WholeRows DEF CInv, Paper!Init

(* The steps that leave the screen alone.                                  *)
LEMMA ScreenKept ==
  ASSUME CInv, TypeOK', UNCHANGED <<screen, above>>
  PROVE  CInv' /\ [Paper!Next]_(Paper!vars)
BY DEF CInv, Paper!vars, Row

LEMMA OnLineType ==
  ASSUME NEW chr \in Chars
  PROVE  OnLine(chr) \in Seq(Chars)
<1>1. TAB \in Chars /\ Blank \in Chars
  BY CgaAssumption DEF Chars
<1> QED BY <1>1 DEF OnLine

LEMMA TypeStep ==
  ASSUME TypeOK, [Next]_vars, screen' \in Screens, above' \in Seq(Glyphs)
  PROVE  TypeOK'
<1> USE DEF TypeOK
<1>1. SpinLimit \in Nat /\ Blank \in Chars
  BY OutputAssumption, CgaAssumption DEF Chars
<1>2. CASE UartSends
  BY <1>2 DEF UartSends
<1>3. CASE PrinterTurns
  BY <1>3 DEF PrinterTurns, history
<1>4. ASSUME NEW chr \in Chars, cputchar(chr)
      PROVE  TypeOK'
  <2>1. OnLine(chr) \in Seq(Chars)
    BY OnLineType
  <2>2. issued' \in Seq(Chars) /\ printed' \in 0 .. MaxChars
    BY <1>4, <2>1, ConcatProperties, OutputAssumption DEF cputchar
  <2> QED BY <1>4, <2>2 DEF cputchar, Locations
<1>5. CASE serial_wait \/ lpt_wait
  BY <1>1, <1>5 DEF serial_wait, lpt_wait, Spin, history
<1>6. CASE serial_out
  BY <1>1, <1>6 DEF serial_out, Locations
<1>7. CASE lpt_out
  BY <1>1, <1>7 DEF lpt_out, Locations, history
<1>8. CASE cga_char
  <2>1. spaces' \in 0 .. 5
    BY <1>8 DEF cga_char
  <2>2. pc' \in Locations
    BY <1>8 DEF cga_char, Locations
  <2>3. UNCHANGED <<thr, lpt_ready, c, spins, printed, issued, wire, late>>
    BY <1>8 DEF cga_char
  <2> QED BY <2>1, <2>2, <2>3
<1>9. CASE cga_tab
  BY <1>1, <1>9 DEF cga_tab, Locations, history
<1>10. CASE cga_tab_rest
  BY <1>10 DEF cga_tab_rest, Locations
<1>11. CASE UNCHANGED vars
  BY <1>11 DEF vars, history
<1> QED
  BY <1>2, <1>3, <1>4, <1>5, <1>6, <1>7, <1>8, <1>9, <1>10, <1>11
  DEF Next, Processor

LEMMA NextPaper ==
  ASSUME CInv, [Next]_vars
  PROVE  CInv' /\ [Paper!Next]_(Paper!vars)
<1>1. CASE cga_char
  <2>1. /\ screen' \in Screens
        /\ above' \in Seq(Glyphs) /\ Len(above') % CRT_COLS = 0
        /\ [Paper!Next]_(Paper!vars)
    BY <1>1, CharStep
  <2>2. TypeOK'
    BY <2>1, TypeStep DEF CInv
  <2> QED BY <2>1, <2>2 DEF CInv
<1>2. CASE ~cga_char
  <2>1. UNCHANGED <<screen, above>>
    <3>1. CASE cga_tab_rest
      <4>1. screen.pos < CRT_SIZE
        BY ScreenRecord, CgaAssumption DEF CInv, TypeOK, Cells
      <4> QED BY <3>1, <4>1 DEF cga_tab_rest, Show, Scroll
    <3>2. CASE ~cga_tab_rest
      BY <1>2, <3>2 DEF Next, Processor, UartSends, PrinterTurns, cputchar,
           serial_wait, serial_out, lpt_wait, lpt_out, Spin, cga_tab, vars,
           history
    <3> QED BY <3>1, <3>2
  <2>2. TypeOK'
    BY <2>1, TypeStep DEF CInv, TypeOK
  <2> QED BY <2>1, <2>2, ScreenKept
<1> QED BY <1>1, <1>2

(* What cga_putc makes of the frame buffer is what a terminal does on      *)
(* paper: every character is typed, erased or moves the cursor there, and  *)
(* the scroll is not seen.                                                 *)
THEOREM ConsoleRefinesTerminal == Spec => ImplementsTerminal
<1>1. Init => CInv /\ Paper!Init
  BY InitPaper
<1>2. CInv /\ [Next]_vars => CInv' /\ [Paper!Next]_(Paper!vars)
  BY NextPaper
<1> QED
  BY <1>1, <1>2, PTL DEF Spec, ImplementsTerminal, Paper!Spec

(* The cursor is on the screen after every character, and the polling      *)
(* loops keep to their limit.                                              *)
THEOREM OutputTypes == Spec => []TypeOK
<1>1. CInv => TypeOK
  BY DEF CInv
<1> QED
  BY InitPaper, NextPaper, <1>1, PTL DEF Spec

-----------------------------------------------------------------------------
(* The serial line.                                                        *)

Blanks(n) == [k \in 1 .. n |-> Blank]

(* What cons_putc has still to hand to the UART for the character that     *)
(* cputchar was given last.                                                *)
Owed ==
  IF pc = "serial" THEN IF spaces = 0 THEN OnLine(c) ELSE Blanks(spaces)
  ELSE IF pc = "lpt" \/ pc = "cga"
    THEN IF c = TAB THEN Blanks(5) ELSE Blanks(spaces - 1)
  ELSE <<>>

InUart == IF thr \in Chars THEN <<thr>> ELSE <<>>

(* The line, the UART and what is owed make up what was issued.            *)
LInv ==
  /\ TypeOK
  /\ spaces > 0 => c = Blank /\ pc \in {"serial", "lpt", "cga"}
  /\ ~late /\ thr # Absent => wire \o (InUart \o Owed) = issued

LEMMA Characters ==
  /\ TAB \in Chars /\ Blank \in Chars /\ TAB # Blank
  /\ Empty \notin Chars /\ Absent \notin Chars /\ Empty # Absent
BY CgaAssumption, OutputAssumption DEF Chars

LEMMA OneBlankLess ==
  ASSUME NEW n \in Nat \ {0}
  PROVE  <<Blank>> \o Blanks(n - 1) = Blanks(n)
<1> DEFINE t == <<Blank>> \o Blanks(n - 1)
<1>1. <<Blank>> \in Seq({Blank}) /\ Len(<<Blank>>) = 1 /\ <<Blank>>[1] = Blank
  OBVIOUS
<1>2. Blanks(n - 1) \in Seq({Blank}) /\ Len(Blanks(n - 1)) = n - 1
      /\ \A k \in 1 .. n - 1 : Blanks(n - 1)[k] = Blank
  BY DEF Blanks
<1>3. Blanks(n) \in Seq({Blank}) /\ Len(Blanks(n)) = n
      /\ \A k \in 1 .. n : Blanks(n)[k] = Blank
  BY DEF Blanks
<1>4. t \in Seq({Blank}) /\ Len(t) = n
  BY <1>1, <1>2, ConcatProperties
<1>5. \A k \in 1 .. n : t[k] = Blank
  BY <1>4
<1> HIDE DEF t
<1>6. t = Blanks(n)
  BY <1>3, <1>4, <1>5, SeqEqual
<1> QED BY <1>6 DEF t

LEMMA TabOnLine == <<TAB>> \o Blanks(5) = OnLine(TAB)
<1> DEFINE five == <<Blank, Blank, Blank, Blank, Blank>>
<1>1. five \in Seq(Chars) /\ Len(five) = 5
      /\ \A k \in 1 .. 5 : five[k] = Blank
  BY Characters
<1>2. Blanks(5) \in Seq(Chars) /\ Len(Blanks(5)) = 5
      /\ \A k \in 1 .. 5 : Blanks(5)[k] = Blank
  BY Characters DEF Blanks
<1> HIDE DEF five
<1>3. Blanks(5) = five
  BY <1>1, <1>2, SeqEqual
<1> DEFINE six == <<TAB, Blank, Blank, Blank, Blank, Blank>>
           sum == <<TAB>> \o five
<1>4. six \in Seq(Chars) /\ Len(six) = 6 /\ six[1] = TAB
      /\ \A k \in 2 .. 6 : six[k] = Blank
  BY Characters
<1>5. <<TAB>> \in Seq(Chars) /\ Len(<<TAB>>) = 1 /\ <<TAB>>[1] = TAB
  BY Characters
<1>6. /\ sum \in Seq(Chars) /\ Len(sum) = 6 /\ sum[1] = TAB
      /\ \A k \in 2 .. 6 : sum[k] = five[k - 1]
  <2> DEFINE one == <<TAB>>
  <2>1. one \in Seq(Chars) /\ Len(one) = 1 /\ one[1] = TAB
    BY <1>5
  <2>2. sum = one \o five
    OBVIOUS
  <2>3. five \in Seq(Chars)
    BY <1>1
  <2> HIDE DEF one, sum
  <2>4. /\ one \o five \in Seq(Chars)
        /\ Len(one \o five) = Len(one) + Len(five)
        /\ \A i \in 1 .. Len(one) + Len(five) : (one \o five)[i] =
              IF i <= Len(one) THEN one[i] ELSE five[i - Len(one)]
    BY <2>1, <2>3, ConcatProperties
  <2>5. /\ sum \in Seq(Chars) /\ Len(sum) = 6
        /\ \A i \in 1 .. 6 : sum[i] = IF i <= 1 THEN one[i] ELSE five[i - 1]
    BY <1>1, <2>1, <2>2, <2>4
  <2> QED BY <2>1, <2>5
<1>7. \A k \in 2 .. 6 : k - 1 \in 1 .. 5
  OBVIOUS
<1>8. \A k \in 1 .. 6 : k = 1 \/ k \in 2 .. 6
  OBVIOUS
<1> HIDE DEF six, sum
<1>9. \A k \in 1 .. 6 : sum[k] = six[k]
  BY <1>1, <1>4, <1>6, <1>7, <1>8
<1>10. sum = six
  BY <1>4, <1>6, <1>9, SeqEqual
<1> QED BY <1>3, <1>10 DEF OnLine, six, sum

LEMMA OwedType ==
  ASSUME TypeOK
  PROVE  Owed \in Seq(Chars) /\ InUart \in Seq(Chars)
<1>1. \A n \in Int : Blanks(n) \in Seq(Chars)
  <2> TAKE n \in Int
  <2>1. CASE n \in Nat
    BY <2>1, Characters DEF Blanks
  <2>2. CASE n \notin Nat
    <3>1. Blanks(n) = <<>>
      BY <2>2 DEF Blanks
    <3> QED BY <3>1
  <2> QED BY <2>1, <2>2
<1>2. spaces \in Int /\ spaces - 1 \in Int /\ 5 \in Int /\ c \in Chars
  BY DEF TypeOK
<1>3. InUart \in Seq(Chars)
  BY DEF InUart
<1>4. /\ OnLine(c) \in Seq(Chars)
      /\ Blanks(spaces) \in Seq(Chars) /\ Blanks(spaces - 1) \in Seq(Chars)
      /\ Blanks(5) \in Seq(Chars) /\ <<>> \in Seq(Chars)
  BY <1>1, <1>2, OnLineType
<1> QED BY <1>3, <1>4, Zenon DEF Owed

LEMMA InitLine == Init => LInv
<1> SUFFICES ASSUME Init PROVE LInv
  OBVIOUS
<1>1. TypeOK
  BY InitPaper DEF CInv
<1>2. thr \notin Chars /\ InUart = <<>> /\ Owed = <<>>
  BY Characters, OutputAssumption DEF Init, InUart, Owed
<1> QED BY <1>1, <1>2 DEF Init, LInv

(* The byte goes to an empty register, unless the loop has given up.       *)
LEMMA SerialStep ==
  ASSUME LInv, TypeOK', serial_out
  PROVE  LInv'
<1>1. /\ pc = "serial" /\ pc' = "lpt" /\ UNCHANGED <<c, spaces, issued, wire>>
      /\ thr' = IF thr = Absent THEN Absent ELSE c
      /\ late' = (late \/ thr \in Chars)
      /\ c \in Chars /\ spaces \in 0 .. 5
      /\ spaces > 0 => c = Blank
  BY DEF serial_out, LInv, TypeOK
<1>2. ASSUME ~late', thr' # Absent
      PROVE  wire' \o (InUart' \o Owed') = issued'
  <2>1. thr # Absent /\ ~late /\ thr \notin Chars /\ thr' = c
    BY <1>1, <1>2
  <2>2. InUart = <<>> /\ InUart' = <<c>>
    BY <1>1, <2>1 DEF InUart
  <2>3. <<c>> \o Owed' = Owed
    <3>1. CASE spaces > 0
      <4>1. Owed' = Blanks(spaces - 1) /\ Owed = Blanks(spaces) /\ c = Blank
        BY <1>1, <3>1, Characters DEF Owed
      <4>2. spaces \in Nat \ {0}
        BY <1>1, <3>1
      <4>3. <<Blank>> \o Blanks(spaces - 1) = Blanks(spaces)
        BY <4>2, OneBlankLess
      <4> QED BY <4>1, <4>3, Zenon
    <3>2. CASE spaces = 0 /\ c = TAB
      <4>1. Owed' = Blanks(5) /\ Owed = OnLine(TAB)
        BY <1>1, <3>2 DEF Owed
      <4> QED BY <3>2, <4>1, TabOnLine
    <3>3. CASE spaces = 0 /\ c # TAB
      <4>1. Owed' = Blanks(0 - 1) /\ Owed = <<c>>
        BY <1>1, <3>3 DEF Owed, OnLine
      <4>2. Blanks(0 - 1) = <<>>
        BY DEF Blanks
      <4>3. <<c>> \in Seq(Chars)
        BY <1>1
      <4>4. <<c>> \o <<>> = <<c>>
        BY <4>3, ConcatEmptySeq
      <4> QED BY <4>1, <4>2, <4>4, Zenon
    <3> QED BY <1>1, <3>1, <3>2, <3>3
  <2>4. wire \o (InUart \o Owed) = issued
    BY <2>1 DEF LInv
  <2>5. InUart \o Owed = Owed
    BY <2>2, OwedType, ConcatEmptySeq DEF LInv
  <2> QED BY <1>1, <2>2, <2>3, <2>4, <2>5
<1> QED BY <1>1, <1>2 DEF LInv

LEMMA LineStep == LInv /\ TypeOK' /\ [Next]_vars => LInv'
<1> SUFFICES ASSUME LInv, TypeOK', [Next]_vars PROVE LInv'
  OBVIOUS
<1>1. TypeOK /\ Owed \in Seq(Chars) /\ wire \in Seq(Chars)
  BY OwedType DEF LInv, TypeOK
<1>2. CASE UartSends
  <2>1. /\ thr \in Chars /\ thr' = Empty /\ wire' = Append(wire, thr)
        /\ Owed' = Owed
        /\ UNCHANGED <<c, spaces, pc, issued, late>>
    BY <1>2 DEF UartSends, Owed
  <2>2. InUart = <<thr>> /\ InUart' = <<>>
    BY <2>1, Characters DEF InUart
  <2>3. Append(wire, thr) \o (<<>> \o Owed) = wire \o (<<thr>> \o Owed)
    <3>1. Append(wire, thr) = wire \o <<thr>> /\ <<thr>> \in Seq(Chars)
      BY <1>1, <2>1, AppendIsConcat
    <3>2. <<>> \o Owed = Owed
      BY <1>1, ConcatEmptySeq
    <3> QED BY <1>1, <3>1, <3>2, ConcatAssociative
  <2>4. ~late /\ thr # Absent => wire' \o (InUart' \o Owed') = issued'
    BY <2>1, <2>2, <2>3 DEF LInv
  <2> QED BY <2>1, <2>4, Characters DEF LInv
<1>3. ASSUME NEW chr \in Chars, cputchar(chr)
      PROVE  LInv'
  <2>1. /\ pc = "idle" /\ pc' = "serial" /\ c' = chr /\ spaces' = spaces
        /\ spaces = 0
        /\ issued' = issued \o OnLine(chr)
        /\ UNCHANGED <<thr, wire, late>> /\ InUart' = InUart
    BY <1>3, <1>1 DEF cputchar, InUart, LInv, TypeOK
  <2>2. Owed = <<>> /\ Owed' = OnLine(chr)
    BY <2>1 DEF Owed
  <2>3. InUart \in Seq(Chars) /\ OnLine(chr) \in Seq(Chars)
    BY <1>1, OwedType, OnLineType
  <2>4. InUart \o Owed = InUart
    BY <2>2, <2>3, ConcatEmptySeq
  <2>5. wire \o (InUart \o OnLine(chr)) = (wire \o InUart) \o OnLine(chr)
    <3>1. wire \in Seq(Chars)
      BY <1>1
    <3> QED BY <2>3, <3>1, ConcatAssociative
  <2>6. ~late /\ thr # Absent => wire \o InUart = issued
    BY <2>4, Zenon DEF LInv
  <2>7. ~late' /\ thr' # Absent => wire' \o (InUart' \o Owed') = issued'
    BY <2>1, <2>2, <2>5, <2>6, Zenon
  <2>8. ~(spaces' > 0)
    BY <2>1
  <2> QED BY <2>7, <2>8 DEF LInv
<1>4. CASE serial_out
  BY <1>4, SerialStep
<1>5. CASE cga_char
  <2>1. /\ pc = "cga" /\ c # TAB
        /\ spaces' = IF spaces = 0 THEN 0 ELSE spaces - 1
        /\ pc' = CASE spaces = 0 -> "idle" [] spaces = 1 -> "cga_tab"
                   [] OTHER -> "serial"
        /\ UNCHANGED <<thr, c, issued, wire, late>> /\ InUart' = InUart
        /\ spaces \in 0 .. 5
    BY <1>5, <1>1 DEF cga_char, InUart, TypeOK
  <2>2. Blanks(0) = <<>> /\ Blanks(0 - 1) = <<>> /\ 1 - 1 = 0
    BY DEF Blanks
  <2>3. Owed = Blanks(spaces - 1)
    BY <2>1 DEF Owed
  <2>4. Owed' = Owed
    <3>1. CASE spaces = 0
      BY <2>1, <2>2, <2>3, <3>1 DEF Owed
    <3>2. CASE spaces = 1
      BY <2>1, <2>2, <2>3, <3>2 DEF Owed
    <3>3. CASE spaces > 1
      <4>1. pc' = "serial" /\ spaces' = spaces - 1 /\ spaces' # 0
        BY <2>1, <3>3
      <4> QED BY <2>3, <4>1 DEF Owed
    <3> QED BY <2>1, <3>1, <3>2, <3>3
  <2>5. spaces' > 0 => c' = Blank /\ pc' = "serial"
    BY <2>1 DEF LInv
  <2> QED BY <2>1, <2>4, <2>5 DEF LInv
<1>6. CASE cga_tab
  <2>1. /\ pc = "cga" /\ c = TAB /\ c' = Blank /\ spaces' = 5 /\ pc' = "serial"
        /\ UNCHANGED <<thr, issued, wire, late>> /\ InUart' = InUart
    BY <1>6 DEF cga_tab, InUart, history
  <2>2. Owed' = Owed
    BY <2>1 DEF Owed
  <2> QED BY <2>1, <2>2 DEF LInv
<1>7. CASE lpt_out
  <2>1. /\ pc = "lpt" /\ pc' = "cga"
        /\ UNCHANGED <<thr, c, spaces, issued, wire, late>>
    BY <1>7 DEF lpt_out, history
  <2>2. Owed' = Owed /\ InUart' = InUart
    BY <2>1 DEF Owed, InUart
  <2> QED BY <2>1, <2>2 DEF LInv
<1>8. CASE cga_tab_rest
  <2>1. /\ pc = "cga_tab" /\ pc' = "idle"
        /\ UNCHANGED <<thr, c, spaces, issued, wire, late>>
    BY <1>8 DEF cga_tab_rest
  <2>2. Owed' = Owed /\ InUart' = InUart
    BY <2>1 DEF Owed, InUart
  <2> QED BY <2>1, <2>2 DEF LInv
<1>9. CASE serial_wait \/ lpt_wait \/ PrinterTurns \/ UNCHANGED vars
  <2>1. UNCHANGED <<thr, c, spaces, pc, issued, wire, late>>
    BY <1>9 DEF serial_wait, lpt_wait, Spin, PrinterTurns, vars, history
  <2>2. Owed' = Owed /\ InUart' = InUart
    BY <2>1 DEF Owed, InUart
  <2> QED BY <2>1, <2>2 DEF LInv
<1> QED
  BY <1>2, <1>3, <1>4, <1>5, <1>6, <1>7, <1>8, <1>9 DEF Next, Processor

(* As long as no polling loop gave up, every character reaches the serial  *)
(* line in order, none twice, a tab with its five spaces.                  *)
THEOREM LineCorrect == Spec => []LineComplete
<1>1. LInv => LineComplete
  <2> SUFFICES ASSUME LInv PROVE LineComplete
    OBVIOUS
  <2>1. TypeOK /\ InUart \in Seq(Chars) /\ InUart \o <<>> = InUart
    BY OwedType, ConcatEmptySeq DEF LInv
  <2>2. ASSUME pc = "idle", ~late, thr # Absent
        PROVE  wire \o (IF thr = Empty THEN <<>> ELSE <<thr>>) = issued
    <3>1. Owed = <<>>
      BY <2>2 DEF Owed
    <3>2. wire \o InUart = issued
      BY <2>1, <2>2, <3>1 DEF LInv
    <3>3. InUart = IF thr = Empty THEN <<>> ELSE <<thr>>
      BY <2>1, <2>2, Characters DEF InUart, TypeOK
    <3> QED BY <3>2, <3>3
  <2> QED BY <2>1, <2>2 DEF LineComplete
<1> QED
  BY InitLine, LineStep, OutputTypes, <1>1, PTL DEF Spec

-----------------------------------------------------------------------------
(* Formatted output.                                                       *)

(* What putch may be given.                                                *)
Symbols ==
  {digits[k] : k \in 1 .. 16} \cup ArgChars \cup Conversions
    \cup {"%", "-", SPACE, "?", "#", ".", "*", "l", "z", TextAfter,
          "(null)", "message", "error"}

(* The buffer has the first characters of the output.                      *)
SinkOK ==
  /\ out \in Seq(Symbols) /\ buf \in Seq(Symbols)
  /\ cnt = Len(out)
  /\ size \in Nat \ {0} /\ Len(buf) <= size - 1 /\ Len(buf) <= Len(out)
  /\ \A i \in 1 .. Len(buf) : buf[i] = out[i]
  /\ Len(buf) < size - 1 => Len(buf) = Len(out)

InputOK ==
  /\ dir \in Directives /\ given \in ArgsOf(dir)
  /\ fmt = Render(dir) \o After(dir) \o <<NUL>>

NumberOK ==
  /\ num \in Nat /\ base \in {Octal, Decimal, Hex} /\ lower \in Seq(Symbols)

FlagsOK ==
  /\ padc \in {SPACE, "-", "0"}
  /\ width \in Int /\ precision \in Int
  /\ lflag \in Nat /\ altflag \in BOOLEAN

Behind == \A j \in at .. Len(fmt) : fmt[j] # "%"

StarRead == \E j \in 2 .. at - 1 : fmt[j] = "*"

(* Where vprintfmt is: before or behind the directive, or within it, with  *)
(* the conversion ahead and the arguments for it still to be taken.        *)
PlaceOK ==
  /\ at \in 1 .. Len(fmt)
  /\ fpc \in {"text", "reswitch", "width", "printnum", "back", "done"}
  /\ fpc = "text" => (at = 1 /\ ap = given) \/ Behind
  /\ fpc = "printnum" => Behind
  /\ fpc \in {"reswitch", "width"} =>
       /\ at > 1
       /\ \A j \in 2 .. at - 1 : fmt[j] \notin Conversions
       /\ ap = IF StarRead THEN Tail(given) ELSE given
  /\ fpc = "back" => at > 1 /\ \A j \in 2 .. Len(fmt) : fmt[j] # "%"

FInv == InputOK /\ FlagsOK /\ NumberOK /\ SinkOK /\ PlaceOK

-----------------------------------------------------------------------------
(* The characters of a format.                                             *)

(* The flags and digits in front of a conversion.                          *)
FlagChars == {"-", "0", "#"} \cup DigitChars

LEMMA DigitFacts ==
  /\ digits \in Seq(Symbols) /\ Len(digits) = 16
  /\ \A k \in 1 .. 16 : digits[k] \in Symbols
  /\ DigitChars = {"0", "1", "2", "3", "4", "5", "6", "7", "8", "9"}
<1>1. \A k \in 1 .. 16 : digits[k] \in Symbols
  BY DEF Symbols
<1>2. digits \in Seq(Symbols) /\ Len(digits) = 16
  <2>1. Len(digits) = 16 /\ digits \in Seq({digits[k] : k \in 1 .. 16})
    BY DEF digits
  <2>2. {digits[k] : k \in 1 .. 16} \subseteq Symbols
    BY <1>1
  <2> QED BY <2>1, <2>2, SeqMonotonic
<1>3. DigitChars = {"0", "1", "2", "3", "4", "5", "6", "7", "8", "9"}
  <2>1. 1 .. 10 = {1, 2, 3, 4, 5, 6, 7, 8, 9, 10}
    OBVIOUS
  <2>2. \A y : y \in DigitChars
                <=> \E k \in {1, 2, 3, 4, 5, 6, 7, 8, 9, 10} : y = digits[k]
    BY <2>1 DEF DigitChars
  <2>3. /\ digits[1] = "0" /\ digits[2] = "1" /\ digits[3] = "2"
        /\ digits[4] = "3" /\ digits[5] = "4" /\ digits[6] = "5"
        /\ digits[7] = "6" /\ digits[8] = "7" /\ digits[9] = "8"
        /\ digits[10] = "9"
    BY DEF digits
  <2>4. \A y : y \in DigitChars
                <=> y \in {"0", "1", "2", "3", "4", "5", "6", "7", "8", "9"}
    BY <2>2, <2>3
  <2> QED BY <2>4, SetExtensionality
<1> QED BY <1>1, <1>2, <1>3

LEMMA SymbolFacts ==
  /\ Conversions \subseteq Symbols /\ ArgChars \subseteq Symbols
  /\ "%" \in Symbols /\ "-" \in Symbols /\ SPACE \in Symbols /\ "?" \in Symbols
  /\ "#" \in Symbols /\ "." \in Symbols /\ "*" \in Symbols /\ "l" \in Symbols
  /\ "z" \in Symbols /\ TextAfter \in Symbols /\ "(null)" \in Symbols
  /\ "message" \in Symbols /\ "error" \in Symbols
  /\ "0" \in Symbols /\ "1" \in Symbols
<1>1. "0" \in Symbols
  BY DigitFacts DEF digits
<1>2. "1" \in Symbols
  BY DigitFacts DEF digits
<1> QED BY <1>1, <1>2 DEF Symbols

LEMMA DigitValue ==
  ASSUME NEW x \in DigitChars
  PROVE  DigitOf(x) \in 0 .. 9
<1>1. \E k \in 0 .. 9 : digits[k + 1] = x
  <2>1. PICK k \in 1 .. 10 : digits[k] = x
    BY DEF DigitChars
  <2> QED BY <2>1
<1> QED BY <1>1 DEF DigitOf

LEMMA TimesIs ==
  ASSUME NEW S, NEW x \in S, NEW k \in Int
  PROVE  /\ Times(x, k) \in Seq(S)
         /\ \A i \in 1 .. Len(Times(x, k)) : Times(x, k)[i] = x
<1>1. CASE k > 0
  <2>1. Times(x, k) = [i \in 1 .. k |-> x]
    BY <1>1 DEF Times
  <2>2. [i \in 1 .. k |-> x] \in Seq(S) /\ Len([i \in 1 .. k |-> x]) = k
    BY <1>1
  <2> QED BY <2>1, <2>2
<1>2. CASE ~(k > 0)
  BY <1>2 DEF Times
<1> QED BY <1>1, <1>2

(* A sequence whose first element is a %, and no other.                    *)
Opens(s, S) ==
  /\ s \in Seq(Symbols \cup {NUL}) /\ Len(s) >= 1 /\ s[1] = "%"
  /\ \A k \in 2 .. Len(s) : s[k] \in S

Made(s, S) ==
  /\ s \in Seq(Symbols \cup {NUL})
  /\ \A k \in 1 .. Len(s) : s[k] \in S

LEMMA OpensMore ==
  ASSUME NEW S, NEW s, NEW t, Opens(s, S), Made(t, S)
  PROVE  Opens(s \o t, S)
<1>1. /\ s \o t \in Seq(Symbols \cup {NUL})
      /\ Len(s \o t) = Len(s) + Len(t)
      /\ \A i \in 1 .. Len(s) + Len(t) :
           (s \o t)[i] = IF i <= Len(s) THEN s[i] ELSE t[i - Len(s)]
  BY ConcatProperties DEF Opens, Made
<1>2. Len(s) \in Nat /\ Len(t) \in Nat
  BY LenProperties DEF Opens, Made
<1> QED BY <1>1, <1>2 DEF Opens, Made

LEMMA MadeMore ==
  ASSUME NEW S, NEW s, NEW t, Made(s, S), Made(t, S)
  PROVE  Made(s \o t, S)
<1>1. /\ s \o t \in Seq(Symbols \cup {NUL})
      /\ Len(s \o t) = Len(s) + Len(t)
      /\ \A i \in 1 .. Len(s) + Len(t) :
           (s \o t)[i] = IF i <= Len(s) THEN s[i] ELSE t[i - Len(s)]
  BY ConcatProperties DEF Made
<1>2. Len(s) \in Nat /\ Len(t) \in Nat
  BY LenProperties DEF Made
<1> QED BY <1>1, <1>2 DEF Made

LEMMA Front ==
  ASSUME NEW x \in Directives
  PROVE  Opens(<<"%">> \o FlagsOf(x) \o WidthOf(x), FlagChars)
<1>1. /\ x.minus \in BOOLEAN /\ x.zero \in BOOLEAN /\ x.alt \in BOOLEAN
      /\ x.width \in 0 .. 99
  BY PrintfmtAssumption
<1>2. Made(FlagsOf(x), FlagChars)
  <2>1. /\ Made(<<>>, FlagChars) /\ Made(<<"-">>, FlagChars)
        /\ Made(<<"0">>, FlagChars) /\ Made(<<"#">>, FlagChars)
    <3>1. "0" \in Symbols
      BY DigitFacts DEF digits
    <3>2. {"-", "#"} \subseteq Symbols
      BY DEF Symbols
    <3> QED BY <3>1, <3>2 DEF Made, FlagChars
  <2>2. /\ Made(IF x.minus THEN <<"-">> ELSE <<>>, FlagChars)
        /\ Made(IF x.zero THEN <<"0">> ELSE <<>>, FlagChars)
        /\ Made(IF x.alt THEN <<"#">> ELSE <<>>, FlagChars)
    BY <2>1
  <2> QED BY <2>2, MadeMore DEF FlagsOf
<1>3. Made(WidthOf(x), FlagChars)
  <2>1. CASE x.width = 0
    BY <2>1 DEF WidthOf, Made
  <2>2. CASE x.width \in 1 .. 9
    <3> DEFINE e == digits[x.width + 1]
    <3>1. e \in DigitChars /\ e \in Symbols
      BY <2>2, DigitFacts DEF DigitChars
    <3>2. WidthOf(x) = <<e>>
      BY <2>2 DEF WidthOf
    <3> QED BY <3>1, <3>2 DEF Made, FlagChars
  <2>3. CASE x.width \notin 0 .. 9
    <3> DEFINE e == digits[(x.width \div 10) + 1]
               u == digits[(x.width % 10) + 1]
    <3>1. x.width \div 10 \in 0 .. 9 /\ x.width % 10 \in 0 .. 9
      BY <1>1, Z3
    <3>2. /\ e \in DigitChars /\ e \in Symbols
          /\ u \in DigitChars /\ u \in Symbols
      BY <3>1, DigitFacts DEF DigitChars
    <3>3. WidthOf(x) = <<e, u>>
      BY <2>3 DEF WidthOf
    <3> QED BY <3>2, <3>3 DEF Made, FlagChars
  <2> QED BY <1>1, <2>1, <2>2, <2>3
<1>4. Opens(<<"%">>, FlagChars)
  BY DEF Opens, Symbols
<1> QED BY <1>2, <1>3, <1>4, OpensMore

(* What is in front of a conversion.                                       *)
Ahead(x) ==
  <<"%">> \o FlagsOf(x) \o WidthOf(x) \o PrecisionOf(x) \o Times("l", x.longs)

AheadChars == FlagChars \cup {".", "*", "l"}

LEMMA AheadIs ==
  ASSUME NEW x \in Directives
  PROVE  /\ Opens(Ahead(x), AheadChars)
         /\ \A j, k \in 1 .. Len(Ahead(x)) :
              Ahead(x)[j] = "*" /\ Ahead(x)[k] = "*" => j = k
         /\ x.prec = "star" <=> \E k \in 2 .. Len(Ahead(x)) : Ahead(x)[k] = "*"
<1> DEFINE f == <<"%">> \o FlagsOf(x) \o WidthOf(x)
           p == PrecisionOf(x)
           l == Times("l", x.longs)
           S == Symbols \cup {NUL}
<1>1. x.prec \in {"none", "one", "star"} /\ x.longs \in 0 .. 2
  BY PrintfmtAssumption
<1>2. /\ f \in Seq(S) /\ Len(f) \in Nat /\ Len(f) >= 1 /\ f[1] = "%"
      /\ \A k \in 2 .. Len(f) : f[k] \in FlagChars
  BY Front, LenProperties DEF Opens
<1>3. /\ l \in Seq(S) /\ Len(l) \in Nat
      /\ \A k \in 1 .. Len(l) : l[k] = "l"
  <2>1. "l" \in S /\ x.longs \in Int
    <3>1. x.longs \in Int
      BY <1>1
    <3>2. "l" \in Symbols
      BY SymbolFacts
    <3>3. "l" \in S
      BY <3>2
    <3> QED BY <3>1, <3>3
  <2> HIDE DEF S
  <2>2. l \in Seq(S) /\ \A k \in 1 .. Len(l) : l[k] = "l"
    BY <2>1, TimesIs
  <2> HIDE DEF l
  <2> QED BY <2>2, LenProperties
<1>4. /\ p \in Seq(S) /\ Len(p) \in Nat /\ Len(p) <= 2
      /\ Len(p) > 0 => p[1] = "."
      /\ Len(p) > 1 => p[2] = IF x.prec = "star" THEN "*" ELSE "1"
      /\ x.prec = "star" => Len(p) >= 2
  <2>1. "." \in S /\ "1" \in S /\ "*" \in S
    BY SymbolFacts
  <2> HIDE DEF S
  <2>2. CASE x.prec = "none"
    BY <2>2 DEF PrecisionOf
  <2>3. CASE x.prec = "one"
    BY <2>1, <2>3 DEF PrecisionOf
  <2>4. CASE x.prec = "star"
    BY <2>1, <2>4 DEF PrecisionOf
  <2> QED BY <1>1, <2>2, <2>3, <2>4
<1>5. /\ "*" \notin FlagChars /\ "1" \in FlagChars
      /\ FlagChars \subseteq AheadChars /\ {".", "*", "l"} \subseteq AheadChars
  BY DigitFacts DEF FlagChars, AheadChars
<1>6. Ahead(x) = (f \o p) \o l
  BY DEF Ahead
<1> HIDE DEF f, p, l, S
<1>7. /\ f \o p \in Seq(S) /\ Len(f \o p) = Len(f) + Len(p)
      /\ \A i \in 1 .. Len(f) + Len(p) :
           (f \o p)[i] = IF i <= Len(f) THEN f[i] ELSE p[i - Len(f)]
  BY <1>2, <1>4, ConcatProperties
<1>8. /\ Ahead(x) \in Seq(S) /\ Len(Ahead(x)) = Len(f) + Len(p) + Len(l)
      /\ \A i \in 1 .. Len(f) + Len(p) + Len(l) :
           Ahead(x)[i] = IF i <= Len(f) + Len(p)
                         THEN (f \o p)[i] ELSE l[i - (Len(f) + Len(p))]
  BY <1>3, <1>6, <1>7, ConcatProperties
<1>9. /\ Len(f) \in Nat /\ Len(f) >= 1 /\ Len(p) \in Nat /\ Len(p) <= 2
      /\ Len(l) \in Nat
      /\ Len(Ahead(x)) = Len(f) + Len(p) + Len(l)
      /\ x.prec = "star" => Len(p) >= 2
  BY <1>2, <1>3, <1>4, <1>8
<1>10. \A i \in 1 .. Len(Ahead(x)) :
         i > Len(f) + Len(p) => Ahead(x)[i] = l[i - (Len(f) + Len(p))]
  BY <1>8, <1>9
<1>11. \A i \in 1 .. Len(Ahead(x)) :
         Ahead(x)[i] = IF i <= Len(f) THEN f[i]
                       ELSE IF i <= Len(f) + Len(p) THEN p[i - Len(f)] ELSE "l"
  <2> TAKE i \in 1 .. Len(Ahead(x))
  <2>1. i \in 1 .. Len(f) + Len(p) + Len(l)
    BY <1>8
  <2>2. CASE i <= Len(f) + Len(p)
    BY <1>2, <1>4, <1>7, <1>8, <2>1, <2>2
  <2>3. CASE i > Len(f) + Len(p)
    <3>1. i - (Len(f) + Len(p)) \in 1 .. Len(l)
      BY <1>9, <2>1, <2>3
    <3>2. Ahead(x)[i] = "l"
      BY <1>3, <1>10, <2>3, <3>1
    <3>3. ~(i <= Len(f)) /\ ~(i <= Len(f) + Len(p))
      BY <1>9, <2>1, <2>3
    <3> QED BY <3>2, <3>3
  <2> QED BY <1>9, <2>1, <2>2, <2>3
<1>12. \A i \in 1 .. Len(Ahead(x)) :
         Ahead(x)[i] = "*" <=> x.prec = "star" /\ i = Len(f) + 2
  <2> TAKE i \in 1 .. Len(Ahead(x))
  <2>1. CASE i <= Len(f)
    BY <1>2, <1>5, <1>11, <2>1
  <2>2. CASE i = Len(f) + 1 /\ Len(p) > 0
    BY <1>2, <1>4, <1>11, <2>2
  <2>3. CASE i = Len(f) + 2 /\ Len(p) > 1
    BY <1>2, <1>4, <1>11, <2>3
  <2>4. CASE i > Len(f) + Len(p)
    <3>1. ~(i <= Len(f)) /\ (x.prec = "star" => i # Len(f) + 2)
      BY <1>9, <2>4
    <3>2. Ahead(x)[i] = "l"
      BY <1>11, <1>9, <2>4, <3>1
    <3> QED BY <3>1, <3>2
  <2>5. CASE i > Len(f) /\ i <= Len(f) + Len(p)
    <3>1. CASE i <= Len(f) + 1
      <4>1. i = Len(f) + 1
        BY <1>9, <2>5, <3>1
      <4>2. Len(p) > 0
        BY <1>9, <2>5, <3>1
      <4> QED BY <2>2, <4>1, <4>2
    <3>2. CASE i > Len(f) + 1
      <4>1. Len(p) <= 2
        BY <1>9
      <4>2. i = Len(f) + 2
        BY <1>9, <2>5, <3>2, <4>1
      <4>3. Len(p) > 1
        BY <1>9, <2>5, <3>2
      <4> QED BY <2>3, <4>2, <4>3
    <3> QED BY <1>9, <3>1, <3>2
  <2> QED BY <1>9, <2>1, <2>4, <2>5
<1>13. \A i \in 2 .. Len(Ahead(x)) : Ahead(x)[i] \in AheadChars
  <2> TAKE i \in 2 .. Len(Ahead(x))
  <2>1. CASE i <= Len(f)
    BY <1>2, <1>5, <1>11, <2>1
  <2>2. CASE i = Len(f) + 1 /\ Len(p) > 0
    BY <1>2, <1>4, <1>5, <1>11, <2>2
  <2>3. CASE i = Len(f) + 2 /\ Len(p) > 1
    BY <1>2, <1>4, <1>5, <1>11, <2>3
  <2>4. CASE i > Len(f) + Len(p)
    <3>1. Ahead(x)[i] = "l"
      BY <1>11, <1>9, <2>4
    <3> QED BY <1>5, <3>1
  <2>5. CASE i > Len(f) /\ i <= Len(f) + Len(p)
    <3>1. CASE i <= Len(f) + 1
      <4>1. i = Len(f) + 1
        BY <1>9, <2>5, <3>1
      <4>2. Len(p) > 0
        BY <1>9, <2>5, <3>1
      <4> QED BY <2>2, <4>1, <4>2
    <3>2. CASE i > Len(f) + 1
      <4>1. Len(p) <= 2
        BY <1>9
      <4>2. i = Len(f) + 2
        BY <1>9, <2>5, <3>2, <4>1
      <4>3. Len(p) > 1
        BY <1>9, <2>5, <3>2
      <4> QED BY <2>3, <4>2, <4>3
    <3> QED BY <1>9, <3>1, <3>2
  <2> QED BY <1>9, <2>1, <2>4, <2>5
<1>14. Opens(Ahead(x), AheadChars)
  BY <1>2, <1>3, <1>4, <1>8, <1>11, <1>13 DEF Opens, S
<1>15. \A j, k \in 1 .. Len(Ahead(x)) :
         Ahead(x)[j] = "*" /\ Ahead(x)[k] = "*" => j = k
  BY <1>12
<1>16. x.prec = "star" <=> \E k \in 2 .. Len(Ahead(x)) : Ahead(x)[k] = "*"
  <2>1. x.prec = "star" => Len(f) + 2 \in 2 .. Len(Ahead(x))
    BY <1>9
  <2> QED BY <1>12, <2>1
<1> QED BY <1>14, <1>15, <1>16

LEMMA OneMore ==
  ASSUME NEW S, NEW s \in Seq(S), NEW e \in S
  PROVE  /\ s \o <<e>> \in Seq(S) /\ Len(s \o <<e>>) = Len(s) + 1
         /\ \A i \in 1 .. Len(s) : (s \o <<e>>)[i] = s[i]
         /\ (s \o <<e>>)[Len(s) + 1] = e
<1> DEFINE t == <<e>>
<1>1. t \in Seq(S) /\ Len(t) = 1 /\ t[1] = e
  OBVIOUS
<1>2. Len(s) \in Nat
  BY LenProperties
<1> HIDE DEF t
<1>3. /\ s \o t \in Seq(S) /\ Len(s \o t) = Len(s) + 1
      /\ \A i \in 1 .. Len(s) + 1 :
           (s \o t)[i] = IF i <= Len(s) THEN s[i] ELSE t[i - Len(s)]
  BY <1>1, ConcatProperties
<1>4. (s \o t)[Len(s) + 1] = t[1]
  <2>1. Len(s) + 1 \in 1 .. Len(s) + 1 /\ ~(Len(s) + 1 <= Len(s))
    BY <1>2
  <2>2. (Len(s) + 1) - Len(s) = 1
    BY <1>2
  <2> QED BY <1>3, <2>1, <2>2
<1>5. \A i \in 1 .. Len(s) : (s \o t)[i] = s[i]
  BY <1>2, <1>3
<1> QED BY <1>1, <1>3, <1>4, <1>5 DEF t

(* The format of a directive: the conversion is the only one, and the only *)
(* character that may be unknown; the * of the precision is before it.     *)
FormatIs(x, s) ==
  /\ s \in Seq(Symbols \cup {NUL}) /\ Len(s) \in Nat /\ Len(s) >= 2
  /\ s[1] = "%" /\ s[Len(s)] = NUL
  /\ \A k \in 1 .. Len(s) - 1 : s[k] # NUL
  /\ \A k \in 2 .. Len(s) : s[k] \in Conversions =>
       /\ s[k] = x.conv
       /\ \A j \in k + 1 .. Len(s) : s[j] \notin Conversions
       /\ x.prec = "star" => \E j \in 2 .. k - 1 : s[j] = "*"
  /\ \A k \in 2 .. Len(s) :
       s[k] \notin Known /\ (\A j \in 2 .. k - 1 : s[j] \notin Conversions)
         => \A j \in 2 .. Len(s) : s[j] # "%"
  /\ \A j, k \in 1 .. Len(s) :
       s[j] = "*" /\ s[k] = "*" => x.prec = "star" /\ j = k

LEMMA FormatShape ==
  ASSUME NEW x \in Directives
  PROVE  FormatIs(x, Render(x) \o After(x) \o <<NUL>>)
<1> DEFINE h == Ahead(x)
           v == IF x.conv = NUL THEN <<>> ELSE <<x.conv>>
           a == After(x)
           s == Render(x) \o After(x) \o <<NUL>>
           n == Len(h)
           S == Symbols \cup {NUL}
<1>1. x.conv \in Conversions \cup {"z", NUL}
  BY PrintfmtAssumption
<1>2. /\ h \in Seq(S) /\ n \in Nat /\ n >= 1 /\ h[1] = "%"
      /\ \A k \in 2 .. n : h[k] \in AheadChars
      /\ \A j, k \in 1 .. n : h[j] = "*" /\ h[k] = "*" => j = k
      /\ x.prec = "star" <=> \E k \in 2 .. n : h[k] = "*"
  BY AheadIs, LenProperties DEF Opens
<1>3. Render(x) = h \o v
  BY DEF Render, Ahead
<1>4. /\ AheadChars \subseteq Known
      /\ AheadChars \cap Conversions = {} /\ NUL \notin AheadChars
      /\ "%" \notin AheadChars
  BY DigitFacts DEF AheadChars, FlagChars, Known, Conversions, NUL
<1>5. /\ Conversions \subseteq Known /\ "%" \in Conversions
      /\ NUL \notin Conversions /\ "z" \notin Conversions /\ "z" # NUL
      /\ TextAfter \notin Conversions \cup {NUL}
      /\ "*" \notin Conversions /\ TextAfter # "*" /\ NUL # "*"
  BY DEF Conversions, Known, NUL, TextAfter
<1>6. {TextAfter, NUL} \subseteq S /\ Conversions \cup {"z", NUL} \subseteq S
  BY DEF Symbols
<1> HIDE DEF h, S
<1>7. CASE x.conv = NUL
  <2>1. s = h \o <<NUL>>
    BY <1>2, <1>3, <1>7, ConcatEmptySeq DEF After
  <2>2. /\ s \in Seq(S) /\ Len(s) = n + 1
        /\ \A i \in 1 .. n : s[i] = h[i]
        /\ s[n + 1] = NUL
    <3>1. NUL \in S
      BY <1>6
    <3>2. /\ h \o <<NUL>> \in Seq(S) /\ Len(h \o <<NUL>>) = Len(h) + 1
          /\ \A i \in 1 .. Len(h) : (h \o <<NUL>>)[i] = h[i]
          /\ (h \o <<NUL>>)[Len(h) + 1] = NUL
      BY <1>2, <3>1, OneMore
    <3> HIDE DEF s
    <3> QED BY <2>1, <3>2
  <2> HIDE DEF s
  <2>3. \A k \in 2 .. Len(s) : s[k] \notin Conversions
    <3> TAKE k \in 2 .. Len(s)
    <3>1. CASE k <= n
      BY <1>2, <1>4, <2>2, <3>1
    <3>2. CASE k > n
      <4>1. k = n + 1
        BY <1>2, <2>2, <3>2
      <4> QED BY <1>5, <2>2, <4>1
    <3> QED BY <1>2, <3>1, <3>2
  <2>4. \A k \in 1 .. Len(s) - 1 : s[k] # NUL
    <3> TAKE k \in 1 .. Len(s) - 1
    <3>1. k \in 1 .. n /\ (k = 1 \/ k \in 2 .. n)
      BY <1>2, <2>2
    <3> QED BY <1>2, <1>4, <2>2, <3>1 DEF NUL
  <2>5. \A j, k \in 1 .. Len(s) :
          s[j] = "*" /\ s[k] = "*" => x.prec = "star" /\ j = k
    <3> TAKE j, k \in 1 .. Len(s)
    <3> HAVE s[j] = "*" /\ s[k] = "*"
    <3>1. j \in 1 .. n /\ k \in 1 .. n
      BY <1>2, <1>5, <2>2
    <3>2. h[j] = "*" /\ h[k] = "*"
      BY <2>2, <3>1
    <3>3. j \in 2 .. n
      BY <1>2, <3>1, <3>2
    <3> QED BY <1>2, <3>1, <3>2, <3>3
  <2>6. /\ s \in Seq(S) /\ Len(s) \in Nat /\ Len(s) >= 2
        /\ s[1] = "%" /\ s[Len(s)] = NUL
    BY <1>2, <2>2
  <2>7. \A k \in 2 .. Len(s) : s[k] # "%"
    BY <1>5, <2>3
  <2>8. FormatIs(x, s)
    BY <2>3, <2>4, <2>5, <2>6, <2>7 DEF FormatIs, S
  <2> QED BY <2>8 DEF s
<1>8. CASE x.conv # NUL
  <2> DEFINE s1 == h \o <<x.conv>>
             s2 == s1 \o <<TextAfter>>
  <2>1. s = s2 \o <<NUL>>
    BY <1>3, <1>8 DEF After
  <2>2. x.conv \in S /\ TextAfter \in S /\ NUL \in S
    BY <1>1, <1>6
  <2>3. /\ s1 \in Seq(S) /\ Len(s1) = n + 1
        /\ \A i \in 1 .. n : s1[i] = h[i]
        /\ s1[n + 1] = x.conv
    BY <1>2, <2>2, OneMore
  <2> HIDE DEF s1
  <2>4. /\ s2 \in Seq(S) /\ Len(s2) = n + 2
        /\ \A i \in 1 .. n + 1 : s2[i] = s1[i]
        /\ s2[n + 2] = TextAfter
    <3>1. /\ s2 \in Seq(S) /\ Len(s2) = Len(s1) + 1
          /\ \A i \in 1 .. Len(s1) : s2[i] = s1[i]
          /\ s2[Len(s1) + 1] = TextAfter
      BY <2>2, <2>3, OneMore
    <3>2. (n + 1) + 1 = n + 2
      BY <1>2
    <3> HIDE DEF s2
    <3> QED BY <2>3, <3>1, <3>2
  <2> HIDE DEF s2
  <2>5. /\ s \in Seq(S) /\ Len(s) = n + 3
        /\ \A i \in 1 .. n + 2 : s[i] = s2[i]
        /\ s[n + 3] = NUL
    <3> HIDE DEF s
    <3>1. /\ s \in Seq(S) /\ Len(s) = Len(s2) + 1
          /\ \A i \in 1 .. Len(s2) : s[i] = s2[i]
          /\ s[Len(s2) + 1] = NUL
      BY <2>1, <2>2, <2>4, OneMore
    <3>2. (n + 2) + 1 = n + 3
      BY <1>2
    <3> QED BY <2>4, <3>1, <3>2
  <2> HIDE DEF s
  <2>6. /\ \A i \in 1 .. n : s[i] = h[i]
        /\ s[n + 1] = x.conv /\ s[n + 2] = TextAfter /\ s[n + 3] = NUL
    <3>1. n + 1 \in 1 .. n + 1 /\ n + 1 \in 1 .. n + 2 /\ n + 2 \in 1 .. n + 2
      BY <1>2
    <3>2. \A i \in 1 .. n : i \in 1 .. n + 1 /\ i \in 1 .. n + 2
      BY <1>2
    <3> QED BY <2>3, <2>4, <2>5, <3>1, <3>2
  <2>7. \A k \in 2 .. Len(s) :
          k \in 2 .. n \/ k = n + 1 \/ k = n + 2 \/ k = n + 3
    <3>1. \A k \in 2 .. n + 3 : k > n + 2 => k = n + 3
      BY <1>2
    <3>2. \A k \in 2 .. n + 2 : k > n + 1 => k = n + 2
      BY <1>2
    <3>3. \A k \in 2 .. n + 1 : k > n => k = n + 1
      BY <1>2
    <3>4. \A k \in 2 .. n + 3 : k \in 2 .. n \/ (k > n /\ k \in 2 .. n + 1)
            \/ (k > n + 1 /\ k \in 2 .. n + 2) \/ k > n + 2
      BY <1>2
    <3> QED BY <2>5, <3>1, <3>2, <3>3, <3>4
  <2>8. \A k \in 2 .. Len(s) :
          s[k] \in Conversions => k = n + 1 /\ s[k] = x.conv
    <3> TAKE k \in 2 .. Len(s)
    <3>1. CASE k \in 2 .. n
      BY <1>2, <1>4, <2>6, <3>1
    <3> QED BY <1>5, <2>6, <2>7, <3>1
  <2>9. x.prec = "star" => \E j \in 2 .. n : s[j] = "*"
    <3> HAVE x.prec = "star"
    <3>1. PICK j \in 2 .. n : h[j] = "*"
      BY <1>2
    <3>2. j \in 1 .. n
      BY <1>2
    <3> QED BY <2>6, <3>1, <3>2
  <2>10. \A k \in 2 .. Len(s) : s[k] \in Conversions =>
           /\ s[k] = x.conv
           /\ \A j \in k + 1 .. Len(s) : s[j] \notin Conversions
           /\ x.prec = "star" => \E j \in 2 .. k - 1 : s[j] = "*"
    <3> TAKE k \in 2 .. Len(s)
    <3> HAVE s[k] \in Conversions
    <3>1. k = n + 1 /\ s[k] = x.conv
      BY <2>8
    <3>2. k - 1 = n
      BY <1>2, <3>1
    <3>3. ASSUME NEW j \in k + 1 .. Len(s) PROVE s[j] \notin Conversions
      <4>1. j \in 2 .. Len(s) /\ j # n + 1
        BY <1>2, <2>5, <3>1
      <4> QED BY <2>8, <4>1
    <3> QED BY <2>9, <3>1, <3>2, <3>3
  <2>11. \A k \in 2 .. Len(s) :
           s[k] \notin Known /\ (\A j \in 2 .. k - 1 : s[j] \notin Conversions)
             => \A j \in 2 .. Len(s) : s[j] # "%"
    <3> TAKE k \in 2 .. Len(s)
    <3> HAVE /\ s[k] \notin Known
             /\ \A j \in 2 .. k - 1 : s[j] \notin Conversions
    <3>1. k \notin 2 .. n
      BY <1>4, <1>2, <2>6
    <3>2. CASE k = n + 1
      <4>1. x.conv \notin Conversions
        BY <1>5, <2>6, <3>2
      <4> QED BY <1>5, <2>8, <4>1
    <3>3. CASE k = n + 2 \/ k = n + 3
      <4>1. n + 1 \in 2 .. k - 1
        BY <1>2, <3>3
      <4>2. x.conv \notin Conversions
        BY <2>6, <4>1
      <4> QED BY <1>5, <2>8, <4>2
    <3> QED BY <2>7, <3>1, <3>2, <3>3
  <2>12. \A k \in 1 .. Len(s) - 1 : s[k] # NUL
    <3> TAKE k \in 1 .. Len(s) - 1
    <3>1. CASE k = 1
      BY <1>2, <2>6, <3>1 DEF NUL
    <3>2. CASE k # 1
      <4>1. k \in 2 .. Len(s) /\ k # n + 3
        BY <1>2, <2>5, <3>2
      <4>2. CASE k \in 2 .. n
        BY <1>2, <1>4, <2>6, <4>2
      <4> QED BY <1>5, <1>8, <2>6, <2>7, <4>1, <4>2
    <3> QED BY <3>1, <3>2
  <2>13. \A k \in 1 .. Len(s) : s[k] = "*" => k \in 2 .. n
    <3> TAKE k \in 1 .. Len(s)
    <3> HAVE s[k] = "*"
    <3>1. k # 1
      BY <1>2, <2>6
    <3>2. k \in 2 .. Len(s)
      BY <3>1, <2>5, <1>2
    <3>3. x.conv # "*"
      BY <1>1, <1>5
    <3> QED BY <1>5, <2>6, <2>7, <3>2, <3>3
  <2>14. \A j, k \in 1 .. Len(s) :
           s[j] = "*" /\ s[k] = "*" => x.prec = "star" /\ j = k
    <3> TAKE j, k \in 1 .. Len(s)
    <3> HAVE s[j] = "*" /\ s[k] = "*"
    <3>1. j \in 2 .. n /\ k \in 2 .. n
      BY <2>13
    <3>2. j \in 1 .. n /\ k \in 1 .. n
      BY <3>1
    <3>3. h[j] = "*" /\ h[k] = "*"
      BY <2>6, <3>2
    <3> QED BY <1>2, <3>1, <3>2, <3>3
  <2>15. /\ s \in Seq(S) /\ Len(s) \in Nat /\ Len(s) >= 2
         /\ s[1] = "%" /\ s[Len(s)] = NUL
    <3>1. n + 3 \in Nat /\ n + 3 >= 2 /\ 1 \in 1 .. n
      BY <1>2
    <3> QED BY <1>2, <2>5, <2>6, <3>1
  <2>16. FormatIs(x, s)
    BY <2>10, <2>11, <2>12, <2>14, <2>15 DEF FormatIs, S
  <2> QED BY <2>16 DEF s
<1> QED BY <1>7, <1>8

-----------------------------------------------------------------------------
(* The sink, and the steps.                                                *)

(* putch keeps as much as there is room for.                               *)
LEMMA PutKeepsSink ==
  ASSUME NEW s \in Seq(Symbols), SinkOK, putch(s), size' = size
  PROVE  SinkOK'
<1> DEFINE r == size - 1 - Len(buf)
           m == IF Len(s) <= r THEN Len(s) ELSE r
           t == [k \in Fitting(s) |-> s[k]]
<1>1. /\ out \in Seq(Symbols) /\ buf \in Seq(Symbols) /\ cnt = Len(out)
      /\ size \in Nat \ {0} /\ Len(buf) <= size - 1 /\ Len(buf) <= Len(out)
      /\ \A i \in 1 .. Len(buf) : buf[i] = out[i]
      /\ Len(buf) < size - 1 => Len(buf) = Len(out)
  BY DEF SinkOK
<1>2. /\ Len(buf) \in Nat /\ Len(out) \in Nat /\ Len(s) \in Nat
      /\ DOMAIN s = 1 .. Len(s)
  BY <1>1, LenProperties
<1>3. m \in Nat /\ m <= r /\ m <= Len(s)
  BY <1>1, <1>2
<1>4. Fitting(s) = 1 .. m
  BY <1>1, <1>2 DEF Fitting
<1>5. t \in Seq(Symbols) /\ Len(t) = m /\ \A i \in 1 .. m : t[i] = s[i]
  <2>1. \A i \in 1 .. m : s[i] \in Symbols
    BY <1>2, <1>3, ElementOfSeq
  <2> HIDE DEF m
  <2> QED BY <1>3, <1>4, <2>1
<1>6. buf' = buf \o t /\ out' = out \o s /\ cnt' = cnt + Len(s)
  BY DEF putch, sprintputch, cprintf_putch
<1> HIDE DEF t
<1>7. /\ buf' \in Seq(Symbols) /\ Len(buf') = Len(buf) + m
      /\ \A i \in 1 .. Len(buf) + m :
           buf'[i] = IF i <= Len(buf) THEN buf[i] ELSE t[i - Len(buf)]
  <2>1. buf \in Seq(Symbols) /\ t \in Seq(Symbols) /\ Len(t) = m
    BY <1>1, <1>5
  <2> HIDE DEF m
  <2>2. /\ buf \o t \in Seq(Symbols) /\ Len(buf \o t) = Len(buf) + Len(t)
        /\ \A i \in 1 .. Len(buf) + Len(t) :
             (buf \o t)[i] = IF i <= Len(buf) THEN buf[i] ELSE t[i - Len(buf)]
    BY <2>1, ConcatProperties
  <2> QED BY <1>6, <2>1, <2>2
<1>8. /\ out' \in Seq(Symbols) /\ Len(out') = Len(out) + Len(s)
      /\ \A i \in 1 .. Len(out) + Len(s) :
           out'[i] = IF i <= Len(out) THEN out[i] ELSE s[i - Len(out)]
  BY <1>1, <1>6, ConcatProperties
<1>9. Len(buf') <= size' - 1 /\ Len(buf') <= Len(out') /\ cnt' = Len(out')
  BY <1>1, <1>2, <1>3, <1>6, <1>7, <1>8
<1>10. Len(buf') < size' - 1 => Len(buf') = Len(out')
  BY <1>1, <1>2, <1>7, <1>8
<1>11. \A i \in 1 .. Len(buf') : buf'[i] = out'[i]
  <2> TAKE i \in 1 .. Len(buf')
  <2>1. CASE i <= Len(buf)
    BY <1>1, <1>2, <1>7, <1>8, <1>9, <2>1
  <2>2. CASE i > Len(buf)
    <3>1. Len(buf) = Len(out)
      BY <1>1, <1>2, <1>7, <2>2
    <3>2. i - Len(buf) \in 1 .. m
      BY <1>2, <1>3, <1>7, <2>2
    <3>3. buf'[i] = s[i - Len(buf)]
      BY <1>2, <1>3, <1>5, <1>7, <2>2, <3>2
    <3>4. out'[i] = s[i - Len(out)]
      BY <1>2, <1>3, <1>7, <1>8, <1>9, <2>2, <3>1
    <3> QED BY <3>1, <3>3, <3>4
  <2> QED BY <1>2, <1>7, <2>1, <2>2
<1> QED BY <1>1, <1>7, <1>8, <1>9, <1>10, <1>11 DEF SinkOK

(* The argument of the precision, if there is one, and the value.          *)
LEMMA Arguments ==
  ASSUME NEW x \in Directives, NEW g \in ArgsOf(x)
  PROVE  \E y \in ValuesOf(x) :
           IF x.prec = "star" THEN Head(g) \in Int /\ Tail(g) = <<y>>
                              ELSE g = <<y>>
<1>1. CASE x.prec = "star"
  <2>1. PICK k \in {0, 2}, y \in ValuesOf(x) : g = <<k, y>>
    BY <1>1 DEF ArgsOf
  <2>2. Head(g) = k /\ Tail(g) = <<y>>
    BY <2>1
  <2> QED BY <1>1, <2>1, <2>2
<1>2. CASE x.prec # "star"
  BY <1>2 DEF ArgsOf
<1> QED BY <1>1, <1>2

(* At the conversion its value is the next argument.                       *)
LEMMA AtConversion ==
  ASSUME InputOK, PlaceOK, Reads("reswitch", Conversions)
  PROVE  /\ ch = dir.conv
         /\ \E y \in ValuesOf(dir) : ap = <<y>>
         /\ at + 1 \in 1 .. Len(fmt)
         /\ \A j \in at + 1 .. Len(fmt) : fmt[j] # "%"
<1>1. FormatIs(dir, fmt)
  BY FormatShape DEF InputOK
<1>2. /\ fpc = "reswitch" /\ at \in 2 .. Len(fmt) /\ fmt[at] \in Conversions
      /\ ap = IF StarRead THEN Tail(given) ELSE given
  BY DEF Reads, PlaceOK, ch
<1>3. /\ fmt[at] = dir.conv
      /\ \A j \in at + 1 .. Len(fmt) : fmt[j] \notin Conversions
      /\ dir.prec = "star" => \E j \in 2 .. at - 1 : fmt[j] = "*"
      /\ Len(fmt) \in Nat /\ fmt[Len(fmt)] = NUL
  BY <1>1, <1>2 DEF FormatIs
<1>4. at # Len(fmt)
  BY <1>2, <1>3 DEF NUL, Conversions
<1>5. dir.prec = "star" <=> StarRead
  <2>1. StarRead => dir.prec = "star"
    <3> SUFFICES ASSUME StarRead PROVE dir.prec = "star"
      OBVIOUS
    <3>1. PICK j \in 2 .. at - 1 : fmt[j] = "*"
      BY DEF StarRead
    <3>2. j \in 1 .. Len(fmt)
      BY <1>2, <1>3
    <3> QED BY <1>1, <3>1, <3>2 DEF FormatIs
  <2> QED BY <1>3, <2>1 DEF StarRead
<1>6. \E y \in ValuesOf(dir) : ap = <<y>>
  BY <1>2, <1>5, Arguments DEF InputOK
<1>7. \A j \in at + 1 .. Len(fmt) : fmt[j] # "%"
  BY <1>3 DEF Conversions
<1>8. at + 1 \in 1 .. Len(fmt)
  BY <1>2, <1>3, <1>4
<1>9. ch = dir.conv
  BY <1>3 DEF ch
<1> QED BY <1>6, <1>7, <1>8, <1>9

(* Within a directive the end of the format is not passed.                 *)
LEMMA NotTheEnd ==
  ASSUME InputOK, at \in 1 .. Len(fmt), ch # NUL
  PROVE  at + 1 \in 1 .. Len(fmt) /\ at + 1 > 1
<1>1. FormatIs(dir, fmt)
  BY FormatShape DEF InputOK
<1>2. Len(fmt) \in Nat /\ fmt[Len(fmt)] = NUL
  BY <1>1 DEF FormatIs
<1> QED BY <1>2 DEF ch

LEMMA KnownChars ==
  /\ NUL \notin Known /\ Conversions \subseteq Known
  /\ Known = Conversions \cup {"-", "*", ".", "#", "l"} \cup DigitChars
  /\ ({"-", "*", ".", "#", "l"} \cup DigitChars) \cap Conversions = {}
  /\ "*" \notin DigitChars
BY DigitFacts DEF Known, Conversions, NUL

LEMMA InitFmt == FmtInit => FInv
<1> SUFFICES ASSUME FmtInit PROVE FInv
  OBVIOUS
<1>1. InputOK
  BY DEF FmtInit, InputOK
<1>2. FlagsOK
  <2>1. padc \in {SPACE, "-", "0"} /\ altflag \in BOOLEAN
    BY DEF FmtInit
  <2>2. width \in Int /\ precision \in Int /\ lflag \in Nat
    BY DEF FmtInit
  <2> QED BY <2>1, <2>2 DEF FlagsOK
<1>3. NumberOK
  BY PrintfmtAssumption, EmptySeq DEF FmtInit, NumberOK
<1>4. SinkOK
  <2>1. size \in Nat \ {0} /\ out = <<>> /\ buf = <<>> /\ cnt = 0
    BY PrintfmtAssumption DEF FmtInit
  <2> QED BY <2>1, EmptySeq DEF SinkOK
<1>5. PlaceOK
  <2>1. Len(fmt) \in Nat /\ Len(fmt) >= 2
    BY <1>1, FormatShape DEF InputOK, FormatIs
  <2> QED BY <2>1 DEF FmtInit, PlaceOK
<1> QED BY <1>1, <1>2, <1>3, <1>4, <1>5 DEF FInv

LEMMA SameInput ==
  ASSUME InputOK, UNCHANGED input
  PROVE  /\ InputOK' /\ fmt' = fmt /\ given' = given /\ size' = size
         /\ FormatIs(dir, fmt)
<1>1. dir' = dir /\ fmt' = fmt /\ given' = given /\ size' = size
  BY DEF input
<1> QED BY <1>1, FormatShape DEF InputOK

LEMMA SameSink ==
  ASSUME SinkOK, UNCHANGED <<input, sink>>
  PROVE  SinkOK'
<1>1. out' = out /\ buf' = buf /\ cnt' = cnt /\ size' = size
  BY DEF input, sink
<1> QED BY <1>1 DEF SinkOK

LEMMA SameNumber ==
  ASSUME NumberOK, UNCHANGED number
  PROVE  NumberOK'
BY DEF NumberOK, number

LEMMA SameFlags ==
  ASSUME FlagsOK, UNCHANGED flags
  PROVE  FlagsOK'
BY DEF FlagsOK, flags

(* A character of the directive before its conversion.                     *)
LEMMA FlagRead ==
  ASSUME FInv, fpc \in {"reswitch", "width"}, ch \in Known \ Conversions,
         at' = at + 1, fpc' \in {"reswitch", "width"},
         ap' = IF ch = "*" THEN Tail(ap) ELSE ap,
         FlagsOK', UNCHANGED <<input, sink, number>>
  PROVE  FInv'
<1>1. InputOK /\ PlaceOK /\ UNCHANGED input
  BY DEF FInv
<1>2. /\ InputOK' /\ fmt' = fmt /\ given' = given
      /\ FormatIs(dir, fmt)
  BY <1>1, SameInput
<1>3. at \in 2 .. Len(fmt) /\ Len(fmt) \in Nat /\ fmt[at] = ch
  BY <1>1, <1>2 DEF PlaceOK, FormatIs, ch
<1>4. at' \in 1 .. Len(fmt') /\ at' > 1
  <2>1. ch # NUL /\ at \in 1 .. Len(fmt)
    BY <1>3, KnownChars
  <2> QED BY <1>1, <1>2, <2>1, NotTheEnd
<1>5. \A j \in 2 .. at' - 1 : fmt'[j] \notin Conversions
  <2> SUFFICES ASSUME NEW j \in 2 .. at' - 1 PROVE fmt[j] \notin Conversions
    BY <1>2
  <2>1. j \in 2 .. at - 1 \/ j = at
    BY <1>3
  <2> QED BY <1>1, <1>3, <2>1 DEF PlaceOK
<1>6. ap' = IF StarRead' THEN Tail(given') ELSE given'
  <2>1. ap = IF StarRead THEN Tail(given) ELSE given
    BY <1>1 DEF PlaceOK
  <2>2. CASE ch = "*"
    <3>1. ~StarRead
      <4> SUFFICES ASSUME NEW j \in 2 .. at - 1, fmt[j] = "*" PROVE FALSE
        BY DEF StarRead
      <4>1. j \in 1 .. Len(fmt) /\ at \in 1 .. Len(fmt) /\ j # at
        BY <1>3
      <4> QED BY <1>2, <1>3, <2>2, <4>1 DEF FormatIs
    <3>2. StarRead'
      <4>1. at \in 2 .. at' - 1
        BY <1>3
      <4> QED BY <1>2, <1>3, <2>2, <4>1 DEF StarRead
    <3> QED BY <1>2, <2>1, <2>2, <3>1, <3>2
  <2>3. CASE ch # "*"
    <3>1. \A j \in 2 .. at : fmt[j] = "*" => j \in 2 .. at - 1
      BY <1>3, <2>3
    <3>2. StarRead' <=> StarRead
      BY <1>2, <1>3, <3>1 DEF StarRead
    <3> QED BY <1>2, <2>1, <2>3, <3>2
  <2> QED BY <2>2, <2>3
<1>7. PlaceOK'
  BY <1>4, <1>5, <1>6 DEF PlaceOK
<1> QED BY <1>2, <1>7, SameSink, SameNumber DEF FInv

(* A conversion: its value is of the type it expects, and what it prints   *)
(* goes to the sink.                                                       *)
LEMMA Converted ==
  ASSUME FInv, Reads("reswitch", Conversions),
         NEW s \in Seq(Symbols), putch(s),
         at' = at + 1, fpc' \in {"text", "printnum"},
         UNCHANGED input, FlagsOK', NumberOK'
  PROVE  FInv'
<1>1. InputOK /\ PlaceOK /\ SinkOK
  BY DEF FInv
<1>2. InputOK' /\ fmt' = fmt /\ size' = size
  BY <1>1, SameInput
<1>3. at' \in 1 .. Len(fmt') /\ Behind'
  BY <1>1, <1>2, AtConversion DEF Behind
<1>4. PlaceOK'
  BY <1>3 DEF PlaceOK
<1> QED BY <1>1, <1>2, <1>4, PutKeepsSink DEF FInv

LEMMA SymbolSeqs ==
  /\ <<>> \in Seq(Symbols) /\ <<"%">> \in Seq(Symbols)
  /\ <<"-">> \in Seq(Symbols) /\ <<"0", "x">> \in Seq(Symbols)
  /\ <<"error">> \in Seq(Symbols) /\ <<"error">> \o <<"-">> \in Seq(Symbols)
  /\ <<>> \o <<"-">> \in Seq(Symbols) /\ <<"(null)">> \in Seq(Symbols)
<1>1. "x" \in Symbols
  BY SymbolFacts DEF Conversions
<1>2. /\ <<>> \in Seq(Symbols) /\ <<"%">> \in Seq(Symbols)
      /\ <<"-">> \in Seq(Symbols) /\ <<"0", "x">> \in Seq(Symbols)
      /\ <<"error">> \in Seq(Symbols) /\ <<"(null)">> \in Seq(Symbols)
  BY <1>1, SymbolFacts
<1> QED BY <1>2, ConcatProperties

LEMMA DigitOfNumber ==
  ASSUME NEW v \in Nat, NEW b \in {Octal, Decimal, Hex}
  PROVE  /\ digits[(v % b) + 1] \in Symbols
         /\ v \div b \in Nat
<1>1. b \in Nat /\ b > 1 /\ b <= 16
  BY PrintfmtAssumption
<1>2. v % b \in 0 .. b - 1 /\ v \div b \in Nat
  BY <1>1
<1>3. (v % b) + 1 \in 1 .. 16
  BY <1>1, <1>2
<1> QED BY <1>2, <1>3, DigitFacts

LEMMA Unsigned ==
  ASSUME NEW v \in Int
  PROVE  v % Modulus(INT_MAX) \in Nat /\ v % Modulus(LLONG_MAX) \in Nat
<1>1. Modulus(INT_MAX) \in Nat \ {0} /\ Modulus(LLONG_MAX) \in Nat \ {0}
  BY PrintfmtAssumption DEF Modulus
<1> QED BY <1>1

LEMMA ValueTypes ==
  ASSUME NEW y \in ValuesOf(dir)
  PROVE  /\ dir.conv \in {"d", "u", "o", "x", "p", "e"} => y \in Int
         /\ dir.conv = "c" => y \in Symbols
         /\ dir.conv = "s" => y = NULL \/ y \in Seq(Symbols)
<1>1. Ints(INT_MAX) \subseteq Int /\ Ints(LLONG_MAX) \subseteq Int
  BY PrintfmtAssumption DEF Ints
<1>2. CASE dir.conv \in {"d", "u", "o", "x", "p"}
  BY <1>1, <1>2 DEF ValuesOf
<1>3. CASE dir.conv = "c"
  BY <1>3, SymbolFacts DEF ValuesOf
<1>4. CASE dir.conv = "e"
  BY <1>1, <1>4, PrintfmtAssumption DEF ValuesOf
<1>5. CASE dir.conv = "s"
  <2>1. y \in Strings
    BY <1>5 DEF ValuesOf
  <2>2. y # NULL => y \in Seq(ArgChars)
    BY <2>1, PrintfmtAssumption
  <2>3. y # NULL => y \in Seq(Symbols)
    BY <2>2, SymbolFacts, SeqMonotonic
  <2> QED BY <1>5, <2>3
<1> QED BY <1>2, <1>3, <1>4, <1>5

LEMMA TheValue ==
  ASSUME FInv, Reads("reswitch", Conversions)
  PROVE  /\ ch = dir.conv /\ Head(ap) \in ValuesOf(dir)
         /\ ch \in {"d", "u", "o", "x", "p", "e"} => Head(ap) \in Int
         /\ ch = "c" => Head(ap) \in Symbols
         /\ ch = "s" => Head(ap) = NULL \/ Head(ap) \in Seq(Symbols)
<1>1. ch = dir.conv /\ \E y \in ValuesOf(dir) : ap = <<y>>
  BY AtConversion DEF FInv
<1>2. Head(ap) \in ValuesOf(dir)
  BY <1>1
<1> QED BY <1>1, <1>2, ValueTypes

(* The conversion of a number.                                             *)
LEMMA NumberConverted ==
  ASSUME FInv, Reads("reswitch", Conversions),
         NEW s \in Seq(Symbols), NEW v \in Nat,
         NEW b \in {Octal, Decimal, Hex},
         ConvertNumber(s, v, b),
         padc' \in {SPACE, "-", "0"}, width' \in Int
  PROVE  FInv'
<1>1. putch(s) /\ at' = at + 1 /\ fpc' = "printnum" /\ UNCHANGED input
  BY DEF ConvertNumber
<1>2. NumberOK'
  BY EmptySeq DEF ConvertNumber, NumberOK
<1>3. FlagsOK'
  BY DEF ConvertNumber, FInv, FlagsOK
<1> QED BY <1>1, <1>2, <1>3, Converted

LEMMA SignedConverted ==
  ASSUME FInv, Reads("reswitch", Conversions),
         NEW s \in Seq(Symbols), s \o <<"-">> \in Seq(Symbols), NEW v \in Int,
         ConvertSigned(s, v),
         padc' \in {SPACE, "-", "0"}, width' \in Int
  PROVE  FInv'
<1>1. CASE v < 0
  <2>1. (-v) % Modulus(LLONG_MAX) \in Nat
    <3>1. -v \in Int
      OBVIOUS
    <3> HIDE DEF Modulus
    <3> QED BY <3>1, Unsigned
  <2>2. ConvertNumber(s \o <<"-">>, (-v) % Modulus(LLONG_MAX), Decimal)
    BY <1>1 DEF ConvertSigned
  <2> QED BY <2>1, <2>2, NumberConverted
<1>2. CASE ~(v < 0)
  <2>1. v \in Nat /\ ConvertNumber(s, v, Decimal)
    BY <1>2 DEF ConvertSigned
  <2> QED BY <2>1, NumberConverted
<1> QED BY <1>1, <1>2

LEMMA TextStep ==
  ASSUME FInv, Text
  PROVE  FInv'
<1>1. /\ InputOK /\ PlaceOK /\ SinkOK /\ FlagsOK /\ NumberOK
      /\ putch(<<ch>>) /\ at' = at + 1
      /\ UNCHANGED <<input, ap, flags, number, fpc>>
      /\ fpc = "text" /\ ch # "%" /\ ch # NUL
  BY DEF FInv, Text
<1>2. /\ InputOK' /\ fmt' = fmt /\ size' = size /\ given' = given
      /\ FormatIs(dir, fmt)
  BY <1>1, SameInput
<1>3. at \in 1 .. Len(fmt) /\ Len(fmt) \in Nat /\ fmt[at] = ch /\ fmt[1] = "%"
  BY <1>1, <1>2 DEF PlaceOK, FormatIs, ch
<1>4. <<ch>> \in Seq(Symbols)
  <2>1. ch \in Symbols \cup {NUL}
    BY <1>2, <1>3, ElementOfSeq DEF FormatIs
  <2> QED BY <1>1, <2>1
<1>5. SinkOK'
  BY <1>1, <1>2, <1>4, PutKeepsSink
<1>6. at' \in 1 .. Len(fmt')
  BY <1>1, <1>2, <1>3, NotTheEnd
<1>7. Behind'
  <2>1. Behind
    BY <1>1, <1>3 DEF PlaceOK
  <2>2. \A j \in at + 1 .. Len(fmt) : j \in at .. Len(fmt)
    BY <1>3
  <2> QED BY <1>1, <1>2, <2>1, <2>2 DEF Behind
<1>8. PlaceOK'
  BY <1>1, <1>6, <1>7 DEF PlaceOK
<1> QED BY <1>1, <1>2, <1>5, <1>8, SameFlags, SameNumber DEF FInv

LEMMA PercentStep ==
  ASSUME FInv, Percent
  PROVE  FInv'
<1>1. /\ InputOK /\ PlaceOK /\ SinkOK /\ FlagsOK /\ NumberOK
      /\ at' = at + 1 /\ fpc' = "reswitch" /\ ap' = ap
      /\ UNCHANGED <<input, ap, number, sink>>
      /\ fpc = "text" /\ ch = "%"
  BY DEF FInv, Percent, Reads
<1>2. InputOK' /\ fmt' = fmt /\ given' = given /\ FormatIs(dir, fmt)
  BY <1>1, SameInput
<1>3. at \in 1 .. Len(fmt) /\ Len(fmt) \in Nat /\ fmt[at] = "%"
  BY <1>1, <1>2 DEF PlaceOK, FormatIs, ch
<1>4. at = 1 /\ ap = given
  <2>1. ~Behind
    <3>1. at \in at .. Len(fmt)
      BY <1>3
    <3> QED BY <1>3, <3>1 DEF Behind
  <2> QED BY <1>1, <2>1 DEF PlaceOK
<1>5. at' \in 1 .. Len(fmt') /\ at' > 1
  <2>1. ch # NUL
    BY <1>1 DEF NUL
  <2> QED BY <1>1, <1>2, <1>3, <2>1, NotTheEnd
<1>6. 2 .. at' - 1 = {}
  BY <1>1, <1>4
<1>7. ~StarRead'
  BY <1>6 DEF StarRead
<1>8. PlaceOK'
  BY <1>1, <1>2, <1>4, <1>5, <1>6, <1>7 DEF PlaceOK
<1>9. FlagsOK'
  <2>1. padc' \in {SPACE, "-", "0"} /\ altflag' \in BOOLEAN
    BY DEF Percent
  <2>2. width' \in Int /\ precision' \in Int /\ lflag' \in Nat
    BY DEF Percent
  <2> QED BY <2>1, <2>2 DEF FlagsOK
<1> QED BY <1>1, <1>2, <1>8, <1>9, SameSink, SameNumber DEF FInv

LEMMA EndStep ==
  ASSUME FInv, EndOfFormat
  PROVE  FInv'
<1>1. /\ InputOK /\ PlaceOK /\ SinkOK /\ FlagsOK /\ NumberOK
      /\ fpc' = "done"
      /\ UNCHANGED <<input, at, ap, flags, number, sink>>
  BY DEF FInv, EndOfFormat
<1>2. InputOK' /\ fmt' = fmt
  BY <1>1, SameInput
<1>3. PlaceOK'
  BY <1>1, <1>2 DEF PlaceOK
<1> QED BY <1>1, <1>2, <1>3, SameFlags, SameNumber, SameSink DEF FInv

LEMMA NumberTypes ==
  ASSUME FlagsOK, NEW v \in Int, Number(v)
  PROVE  width' \in Int /\ precision' \in Int
<1>1. width \in Int /\ precision \in Int
  BY DEF FlagsOK
<1>2. CASE width < 0
  BY <1>1, <1>2 DEF Number
<1>3. CASE ~(width < 0)
  BY <1>1, <1>3 DEF Number
<1> QED BY <1>2, <1>3

LEMMA FlagSteps ==
  ASSUME FInv, PadFlag \/ WidthStart \/ WidthDigit \/ Dot \/ SharpOrLong
  PROVE  FInv'
<1>1. FlagsOK
  BY DEF FInv
<1>2. CASE PadFlag
  <2>1. /\ ch \in {"-", "0"} /\ padc' = ch /\ fpc = "reswitch"
        /\ at' = at + 1 /\ fpc' = "reswitch"
        /\ UNCHANGED <<ap, width, precision, lflag, altflag>>
        /\ UNCHANGED <<input, number, sink>>
    BY <1>2 DEF PadFlag, Reswitch, Reads
  <2>2. ch \in Known \ Conversions /\ ch # "*"
    BY <2>1, KnownChars, DigitFacts
  <2>3. FlagsOK'
    BY <1>1, <2>1 DEF FlagsOK
  <2> QED BY <2>1, <2>2, <2>3, FlagRead
<1>3. CASE WidthStart
  <2>1. /\ ch \in DigitChars /\ fpc = "reswitch"
        /\ precision' = DigitOf(ch) /\ at' = at + 1 /\ fpc' = "width"
        /\ UNCHANGED <<ap, padc, width, lflag, altflag>>
        /\ UNCHANGED <<input, number, sink>>
    BY <1>3 DEF WidthStart, Reads
  <2>2. ch \in Known \ Conversions /\ ch # "*"
    BY <2>1, KnownChars
  <2>3. precision' \in Int
    BY <2>1, DigitValue
  <2>4. FlagsOK'
    BY <1>1, <2>1, <2>3 DEF FlagsOK
  <2> QED BY <2>1, <2>2, <2>4, FlagRead
<1>4. CASE WidthDigit
  <2>1. /\ ch \in DigitChars /\ fpc = "width"
        /\ precision' = precision * 10 + DigitOf(ch)
        /\ at' = at + 1 /\ fpc' = "width"
        /\ UNCHANGED <<ap, padc, width, lflag, altflag>>
        /\ UNCHANGED <<input, number, sink>>
    BY <1>4 DEF WidthDigit, Reads
  <2>2. ch \in Known \ Conversions /\ ch # "*"
    BY <2>1, KnownChars
  <2>3. precision' \in Int
    <3>1. DigitOf(ch) \in Int /\ precision \in Int
      BY <1>1, <2>1, DigitValue DEF FlagsOK
    <3> QED BY <2>1, <3>1
  <2>4. FlagsOK'
    BY <1>1, <2>1, <2>3 DEF FlagsOK
  <2> QED BY <2>1, <2>2, <2>4, FlagRead
<1>5. CASE Dot
  <2>1. /\ ch = "." /\ fpc = "reswitch"
        /\ width' = IF width < 0 THEN 0 ELSE width
        /\ at' = at + 1 /\ fpc' = "reswitch"
        /\ UNCHANGED <<ap, padc, precision, lflag, altflag>>
        /\ UNCHANGED <<input, number, sink>>
    BY <1>5 DEF Dot, Reswitch, Reads
  <2>2. ch \in Known \ Conversions /\ ch # "*"
    BY <2>1, KnownChars
  <2>3. FlagsOK'
    BY <1>1, <2>1 DEF FlagsOK
  <2> QED BY <2>1, <2>2, <2>3, FlagRead
<1>6. CASE SharpOrLong
  <2>1. /\ ch \in {"#", "l"} /\ fpc = "reswitch"
        /\ altflag' = (altflag \/ ch = "#")
        /\ lflag' = IF ch = "l" THEN lflag + 1 ELSE lflag
        /\ at' = at + 1 /\ fpc' = "reswitch"
        /\ UNCHANGED <<ap, padc, width, precision>>
        /\ UNCHANGED <<input, number, sink>>
    BY <1>6 DEF SharpOrLong, Reswitch, Reads
  <2>2. ch \in Known \ Conversions /\ ch # "*"
    BY <2>1, KnownChars
  <2>3. lflag' \in Nat
    BY <1>1, <2>1 DEF FlagsOK
  <2>4. altflag' \in BOOLEAN
    BY <2>1
  <2>5. FlagsOK'
    BY <1>1, <2>1, <2>3, <2>4 DEF FlagsOK
  <2> QED BY <2>1, <2>2, <2>5, FlagRead
<1> QED BY <1>2, <1>3, <1>4, <1>5, <1>6

LEMMA WidthEndStep ==
  ASSUME FInv, WidthEnd
  PROVE  FInv'
<1>1. /\ InputOK /\ PlaceOK /\ SinkOK /\ FlagsOK /\ NumberOK
      /\ fpc = "width" /\ fpc' = "reswitch" /\ at' = at /\ ap' = ap
      /\ Number(precision)
      /\ UNCHANGED <<input, sink, number, padc, lflag, altflag>>
      /\ UNCHANGED <<input, sink>> /\ UNCHANGED number
  BY DEF FInv, WidthEnd
<1>2. InputOK' /\ fmt' = fmt /\ given' = given
  BY <1>1, SameInput
<1>3. FlagsOK'
  <2>1. precision \in Int
    BY <1>1 DEF FlagsOK
  <2>2. width' \in Int /\ precision' \in Int
    BY <1>1, <2>1, NumberTypes
  <2> QED BY <1>1, <2>2 DEF FlagsOK
<1>4. StarRead' <=> StarRead
  BY <1>1, <1>2 DEF StarRead
<1>5. PlaceOK'
  BY <1>1, <1>2, <1>4 DEF PlaceOK
<1> QED BY <1>1, <1>2, <1>3, <1>5, SameSink, SameNumber DEF FInv

LEMMA StarStep ==
  ASSUME FInv, Star
  PROVE  FInv'
<1>1. /\ InputOK /\ PlaceOK /\ FlagsOK
      /\ fpc = "reswitch" /\ ch = "*" /\ Number(Head(ap)) /\ ap' = Tail(ap)
      /\ at' = at + 1 /\ fpc' = "reswitch"
      /\ UNCHANGED <<padc, lflag, altflag>>
      /\ UNCHANGED <<input, number, sink>>
  BY DEF FInv, Star, Reswitch, Reads
<1>2. FormatIs(dir, fmt)
  BY <1>1, FormatShape DEF InputOK
<1>3. at \in 2 .. Len(fmt) /\ Len(fmt) \in Nat /\ fmt[at] = "*"
  BY <1>1, <1>2 DEF PlaceOK, FormatIs, ch
<1>4. ~StarRead
  <2> SUFFICES ASSUME NEW j \in 2 .. at - 1, fmt[j] = "*" PROVE FALSE
    BY DEF StarRead
  <2>1. j \in 1 .. Len(fmt) /\ at \in 1 .. Len(fmt) /\ j # at
    BY <1>3
  <2> QED BY <1>2, <1>3, <2>1 DEF FormatIs
<1>5. ap = given
  BY <1>1, <1>4 DEF PlaceOK
<1>6. dir.prec = "star"
  <2>1. at \in 1 .. Len(fmt)
    BY <1>3
  <2> QED BY <1>2, <1>3, <2>1 DEF FormatIs
<1>7. Head(ap) \in Int
  BY <1>1, <1>5, <1>6, Arguments DEF InputOK
<1>8. FlagsOK'
  <2>1. width' \in Int /\ precision' \in Int
    BY <1>1, <1>7, NumberTypes
  <2> QED BY <1>1, <2>1 DEF FlagsOK
<1>9. ch \in Known \ Conversions
  BY <1>1, KnownChars
<1> QED BY <1>1, <1>8, <1>9, FlagRead

LEMMA NumberSteps ==
  ASSUME FInv, SignedConv \/ UnsignedConv \/ PointerConv
  PROVE  FInv'
<1>1. FlagsOK
  BY DEF FInv
<1>2. CASE SignedConv
  <2>1. /\ Reads("reswitch", Conversions) /\ ch = "d"
        /\ ConvertSigned(<<>>, Head(ap)) /\ UNCHANGED <<padc, width>>
    BY <1>2 DEF SignedConv, Reads, Conversions
  <2>2. Head(ap) \in Int
    BY <2>1, TheValue
  <2>3. padc' \in {SPACE, "-", "0"} /\ width' \in Int
    BY <1>1, <2>1 DEF FlagsOK
  <2> QED BY <2>1, <2>2, <2>3, SymbolSeqs, SignedConverted
<1>3. CASE UnsignedConv
  <2> DEFINE b == CASE ch = "u" -> Decimal [] ch = "o" -> Octal
                    [] ch = "x" -> Hex
  <2>1. /\ Reads("reswitch", Conversions) /\ ch \in {"u", "o", "x"}
        /\ ConvertNumber(<<>>, getuint(Head(ap)), b)
        /\ UNCHANGED <<padc, width>>
    BY <1>3 DEF UnsignedConv, Reads, Conversions
  <2>2. Head(ap) \in Int
    BY <2>1, TheValue
  <2>3. getuint(Head(ap)) \in Nat
    <3> HIDE DEF Modulus
    <3>1. /\ Head(ap) % Modulus(INT_MAX) \in Nat
          /\ Head(ap) % Modulus(LLONG_MAX) \in Nat
      BY <2>2, Unsigned
    <3> QED BY <3>1 DEF getuint
  <2>4. b \in {Octal, Decimal, Hex}
    BY <2>1
  <2>5. padc' \in {SPACE, "-", "0"} /\ width' \in Int
    BY <1>1, <2>1 DEF FlagsOK
  <2> HIDE DEF b
  <2> QED BY <2>1, <2>3, <2>4, <2>5, SymbolSeqs, NumberConverted
<1>4. CASE PointerConv
  <2>1. /\ Reads("reswitch", Conversions) /\ ch = "p"
        /\ ConvertNumber(<<"0", "x">>, Head(ap) % Modulus(INT_MAX), Hex)
        /\ UNCHANGED <<padc, width>>
    BY <1>4 DEF PointerConv, Reads, Conversions
  <2>2. Head(ap) % Modulus(INT_MAX) \in Nat
    BY <2>1, TheValue, Unsigned
  <2>3. padc' \in {SPACE, "-", "0"} /\ width' \in Int
    BY <1>1, <2>1 DEF FlagsOK
  <2> QED BY <2>1, <2>2, <2>3, SymbolSeqs, NumberConverted
<1> QED BY <1>2, <1>3, <1>4

(* The conversions that print at once.                                     *)
LEMMA ConvertDone ==
  ASSUME FInv, Reads("reswitch", Conversions),
         NEW s \in Seq(Symbols), Convert(s)
  PROVE  FInv'
<1>1. /\ putch(s) /\ at' = at + 1 /\ fpc' = "text"
      /\ UNCHANGED input /\ UNCHANGED flags /\ UNCHANGED number
  BY DEF Convert
<1>2. FlagsOK' /\ NumberOK'
  BY <1>1, SameFlags, SameNumber DEF FInv
<1> QED BY <1>1, <1>2, Converted

LEMMA ErrorStep ==
  ASSUME FInv, ErrorConv
  PROVE  FInv'
<1> DEFINE err == IF Head(ap) < 0 /\ -Head(ap) \in Ints(INT_MAX)
                  THEN -Head(ap) ELSE Head(ap)
<1>1. /\ Reads("reswitch", Conversions) /\ ch = "e"
      /\ IF err \in 1 .. MAXERROR - 1
         THEN Convert(<<"message", digits[err + 1]>>)
         ELSE /\ ConvertSigned(<<"error">>, err)
              /\ padc' = SPACE /\ width' = -1
  BY DEF ErrorConv, Reads, Conversions
<1>2. err \in Int
  <2>1. Head(ap) \in Int
    BY <1>1, TheValue
  <2> QED BY <2>1
<1> HIDE DEF err
<1>3. CASE err \in 1 .. MAXERROR - 1
  <2>1. err + 1 \in 1 .. 16
    <3>1. MAXERROR \in Int /\ MAXERROR <= 16
      BY PrintfmtAssumption
    <3> QED BY <1>2, <1>3, <3>1
  <2>2. digits[err + 1] \in Symbols
    BY <2>1, DigitFacts
  <2>3. <<"message", digits[err + 1]>> \in Seq(Symbols)
    BY <2>2, SymbolFacts
  <2> QED BY <1>1, <1>3, <2>3, ConvertDone
<1>4. CASE err \notin 1 .. MAXERROR - 1
  <2>1. ConvertSigned(<<"error">>, err)
    BY <1>1, <1>4
  <2>2. padc' \in {SPACE, "-", "0"}
    BY <1>1, <1>4
  <2>3. width' \in Int
    BY <1>1, <1>4
  <2> QED BY <1>1, <1>2, <2>1, <2>2, <2>3, SymbolSeqs, SignedConverted
<1> QED BY <1>3, <1>4

LEMMA StringStep ==
  ASSUME FInv, StringConv
  PROVE  FInv'
<1> DEFINE p == IF Head(ap) = NULL THEN <<"(null)">> ELSE Head(ap)
           m == strnlen(p, precision)
           shown == SubSeq(p, 1, m)
           seen == Shown(shown)
           left == Times(padc, width - Len(shown)) \o seen
           right == seen \o Times(SPACE, width - Len(shown))
<1>1. /\ Reads("reswitch", Conversions) /\ ch = "s"
      /\ IF padc # "-" THEN Convert(left) ELSE Convert(right)
  BY DEF StringConv, Reads, Conversions
<1>2. p \in Seq(Symbols)
  <2>1. Head(ap) = NULL \/ Head(ap) \in Seq(Symbols)
    BY <1>1, TheValue
  <2> QED BY <2>1, SymbolSeqs
<1>3. width \in Int /\ precision \in Int /\ padc \in Symbols
  BY SymbolFacts DEF FInv, FlagsOK
<1> HIDE DEF p
<1>4. Len(p) \in Nat
  BY <1>2, LenProperties
<1>5. m \in Int /\ m <= Len(p)
  BY <1>3, <1>4 DEF strnlen
<1> HIDE DEF m
<1>6. shown \in Seq(Symbols) /\ Len(shown) \in Nat
  <2>1. \A i \in 1 .. m : p[i] \in Symbols
    <3>1. \A i \in 1 .. m : i \in 1 .. Len(p)
      BY <1>4, <1>5
    <3> QED BY <1>2, <3>1, ElementOfSeq
  <2>2. shown \in Seq(Symbols)
    BY <1>5, <2>1, SubSeqProperties
  <2> QED BY <2>2, LenProperties
<1> HIDE DEF shown
<1>7. seen \in Seq(Symbols)
  <2>1. /\ DOMAIN shown = 1 .. Len(shown)
        /\ \A k \in 1 .. Len(shown) : shown[k] \in Symbols
    BY <1>6, LenProperties, ElementOfSeq
  <2>2. seen = [k \in 1 .. Len(shown) |->
                 IF altflag /\ shown[k] = "ctl" THEN "?" ELSE shown[k]]
    BY <2>1 DEF Shown
  <2>3. \A k \in 1 .. Len(shown) :
          (IF altflag /\ shown[k] = "ctl" THEN "?" ELSE shown[k]) \in Symbols
    BY <2>1, SymbolFacts
  <2>4. seen \in [1 .. Len(shown) -> Symbols]
    BY <2>2, <2>3
  <2> HIDE DEF seen
  <2> QED BY <1>6, <2>4
<1> HIDE DEF seen
<1>8. width - Len(shown) \in Int
  BY <1>3, <1>6
<1>9. left \in Seq(Symbols) /\ right \in Seq(Symbols)
  <2>1. /\ Times(padc, width - Len(shown)) \in Seq(Symbols)
        /\ Times(SPACE, width - Len(shown)) \in Seq(Symbols)
    BY <1>3, <1>8, SymbolFacts, TimesIs
  <2> QED BY <1>7, <2>1, ConcatProperties
<1> HIDE DEF left, right
<1> QED BY <1>1, <1>9, ConvertDone

LEMMA OtherSteps ==
  ASSUME FInv, CharConv \/ EscapedPercent
  PROVE  FInv'
<1>1. CASE CharConv
  <2>1. Reads("reswitch", Conversions) /\ ch = "c" /\ Convert(<<Head(ap)>>)
    BY <1>1 DEF CharConv, Reads, Conversions
  <2>2. <<Head(ap)>> \in Seq(Symbols)
    BY <2>1, TheValue
  <2> QED BY <2>1, <2>2, ConvertDone
<1>2. CASE EscapedPercent
  <2>1. Reads("reswitch", Conversions) /\ Convert(<<"%">>)
    BY <1>2 DEF EscapedPercent, Reads, Conversions
  <2> QED BY <2>1, SymbolSeqs, ConvertDone
<1> QED BY <1>1, <1>2

LEMMA HigherStep ==
  ASSUME FInv, PrintHigher
  PROVE  FInv'
<1>1. /\ InputOK /\ PlaceOK /\ SinkOK /\ FlagsOK /\ NumberOK
      /\ fpc = "printnum" /\ num' = num \div base /\ width' = width - 1
      /\ lower' = <<digits[(num % base) + 1]>> \o lower
      /\ UNCHANGED <<input, sink>>
      /\ UNCHANGED <<at, ap, padc, precision, lflag, altflag, base, fpc>>
  BY DEF FInv, PrintHigher
<1>2. InputOK' /\ fmt' = fmt
  BY <1>1, SameInput
<1>3. num \in Nat /\ base \in {Octal, Decimal, Hex} /\ lower \in Seq(Symbols)
  BY <1>1 DEF NumberOK
<1>4. digits[(num % base) + 1] \in Symbols /\ num \div base \in Nat
  BY <1>3, DigitOfNumber
<1>5. lower' \in Seq(Symbols)
  <2> DEFINE e == digits[(num % base) + 1]
  <2>1. <<e>> \in Seq(Symbols)
    <3> HIDE DEF e
    <3>1. e \in Symbols
      BY <1>4 DEF e
    <3> QED BY <3>1
  <2> HIDE DEF e
  <2>2. <<e>> \o lower \in Seq(Symbols)
    BY <1>3, <2>1, ConcatProperties
  <2> QED BY <1>1, <2>2 DEF e
<1>6. NumberOK'
  BY <1>1, <1>3, <1>4, <1>5 DEF NumberOK
<1>7. FlagsOK'
  BY <1>1 DEF FlagsOK
<1>8. PlaceOK'
  BY <1>1, <1>2 DEF PlaceOK, Behind
<1> QED BY <1>1, <1>2, <1>6, <1>7, <1>8, SameSink DEF FInv

LEMMA DigitsStep ==
  ASSUME FInv, PrintDigits
  PROVE  FInv'
<1> DEFINE e == digits[(num % base) + 1]
           t == Times(padc, width - 1) \o <<e>> \o lower
<1>1. /\ InputOK /\ PlaceOK /\ SinkOK /\ FlagsOK /\ NumberOK
      /\ fpc = "printnum" /\ fpc' = "text" /\ putch(t)
      /\ UNCHANGED <<input, at, ap, flags, number>>
  BY DEF FInv, PrintDigits
<1>2. InputOK' /\ fmt' = fmt /\ size' = size
  BY <1>1, SameInput
<1>3. t \in Seq(Symbols)
  <2>1. e \in Symbols /\ lower \in Seq(Symbols)
    BY <1>1, DigitOfNumber DEF NumberOK
  <2>2. padc \in Symbols /\ width - 1 \in Int
    BY <1>1, SymbolFacts DEF FlagsOK
  <2> HIDE DEF e
  <2>3. Times(padc, width - 1) \in Seq(Symbols) /\ <<e>> \in Seq(Symbols)
    BY <2>1, <2>2, TimesIs
  <2>4. Times(padc, width - 1) \o <<e>> \in Seq(Symbols)
    BY <2>3, ConcatProperties
  <2> QED BY <2>1, <2>4, ConcatProperties
<1> HIDE DEF t
<1>4. SinkOK'
  BY <1>1, <1>2, <1>3, PutKeepsSink
<1>5. PlaceOK'
  BY <1>1, <1>2 DEF PlaceOK, Behind
<1> QED BY <1>1, <1>2, <1>4, <1>5, SameFlags, SameNumber DEF FInv

(* Back to the % of the directive, which is there.                         *)
LEMMA BackSteps ==
  ASSUME FInv, Unrecognized \/ BackOne \/ BackEnd
  PROVE  FInv'
<1>1. /\ InputOK /\ PlaceOK /\ SinkOK /\ FlagsOK /\ NumberOK
      /\ UNCHANGED input /\ UNCHANGED flags /\ UNCHANGED number
      /\ UNCHANGED ap
  BY DEF FInv, Unrecognized, BackOne, BackEnd
<1>2. InputOK' /\ fmt' = fmt /\ size' = size /\ FormatIs(dir, fmt)
  BY <1>1, SameInput
<1>3. at \in 1 .. Len(fmt) /\ Len(fmt) \in Nat /\ fmt[1] = "%"
  BY <1>1, <1>2 DEF PlaceOK, FormatIs
<1>4. CASE Unrecognized
  <2>1. /\ fpc = "reswitch" /\ fmt[at] \notin Known
        /\ putch(<<"%">>) /\ fpc' = "back" /\ at' = at
    BY <1>4 DEF Unrecognized, ch
  <2>2. at > 1 /\ \A j \in 2 .. at - 1 : fmt[j] \notin Conversions
    BY <1>1, <2>1 DEF PlaceOK
  <2>3. at \in 2 .. Len(fmt)
    BY <1>3, <2>2
  <2>4. \A j \in 2 .. Len(fmt) : fmt[j] # "%"
    BY <1>2, <2>1, <2>2, <2>3 DEF FormatIs
  <2>5. PlaceOK'
    BY <1>2, <1>3, <2>1, <2>2, <2>4 DEF PlaceOK
  <2>6. SinkOK'
    BY <1>1, <1>2, <2>1, SymbolSeqs, PutKeepsSink
  <2> QED BY <1>1, <1>2, <2>5, <2>6, SameFlags, SameNumber DEF FInv
<1>5. CASE BackOne
  <2>1. fpc = "back" /\ fmt[at - 1] # "%" /\ at' = at - 1 /\ fpc' = "back"
        /\ UNCHANGED <<input, sink>>
    BY <1>5 DEF BackOne
  <2>2. at > 1 /\ \A j \in 2 .. Len(fmt) : fmt[j] # "%"
    BY <1>1, <2>1 DEF PlaceOK
  <2>3. at - 1 # 1
    BY <1>3, <2>1
  <2>4. at' \in 1 .. Len(fmt') /\ at' > 1
    BY <1>2, <1>3, <2>1, <2>2, <2>3
  <2>5. PlaceOK'
    BY <1>2, <2>1, <2>2, <2>4 DEF PlaceOK
  <2> QED BY <1>1, <1>2, <2>1, <2>5, SameFlags, SameNumber, SameSink DEF FInv
<1>6. CASE BackEnd
  <2>1. fpc = "back" /\ at' = at /\ fpc' = "text" /\ UNCHANGED <<input, sink>>
    BY <1>6 DEF BackEnd
  <2>2. at > 1 /\ \A j \in 2 .. Len(fmt) : fmt[j] # "%"
    BY <1>1, <2>1 DEF PlaceOK
  <2>3. Behind'
    <3>1. \A j \in at .. Len(fmt) : j \in 2 .. Len(fmt)
      BY <1>3, <2>2
    <3> QED BY <1>2, <2>1, <2>2, <3>1 DEF Behind
  <2>4. PlaceOK'
    BY <1>2, <1>3, <2>1, <2>3 DEF PlaceOK
  <2> QED BY <1>1, <1>2, <2>1, <2>4, SameFlags, SameNumber, SameSink DEF FInv
<1> QED BY <1>4, <1>5, <1>6

LEMMA FmtStep == FInv /\ [FmtNext]_fvars => FInv'
<1> SUFFICES ASSUME FInv, [FmtNext]_fvars PROVE FInv'
  OBVIOUS
<1>1. CASE Text
  BY <1>1, TextStep
<1>2. CASE EndOfFormat
  BY <1>2, EndStep
<1>3. CASE Percent
  BY <1>3, PercentStep
<1>4. CASE PadFlag \/ WidthStart \/ WidthDigit \/ Dot \/ SharpOrLong
  BY <1>4, FlagSteps
<1>5. CASE WidthEnd
  BY <1>5, WidthEndStep
<1>6. CASE Star
  BY <1>6, StarStep
<1>7. CASE CharConv \/ EscapedPercent
  BY <1>7, OtherSteps
<1>8. CASE ErrorConv
  BY <1>8, ErrorStep
<1>9. CASE StringConv
  BY <1>9, StringStep
<1>10. CASE SignedConv \/ UnsignedConv \/ PointerConv
  BY <1>10, NumberSteps
<1>11. CASE PrintHigher
  BY <1>11, HigherStep
<1>12. CASE PrintDigits
  BY <1>12, DigitsStep
<1>13. CASE Unrecognized \/ BackOne \/ BackEnd
  BY <1>13, BackSteps
<1>14. CASE UNCHANGED fvars
  <2>1. /\ InputOK /\ PlaceOK /\ SinkOK /\ FlagsOK /\ NumberOK
        /\ UNCHANGED <<input, sink>> /\ UNCHANGED flags /\ UNCHANGED number
        /\ UNCHANGED <<at, ap, fpc>>
    BY <1>14 DEF FInv, fvars
  <2>2. InputOK' /\ fmt' = fmt /\ given' = given
    BY <2>1, SameInput
  <2>3. PlaceOK'
    BY <2>1, <2>2 DEF PlaceOK, Behind, StarRead
  <2> QED BY <2>1, <2>2, <2>3, SameFlags, SameNumber, SameSink DEF FInv
<1> QED BY <1>1, <1>2, <1>3, <1>4, <1>5, <1>6, <1>7, <1>8, <1>9, <1>10,
           <1>11, <1>12, <1>13, <1>14 DEF FmtNext

(* However wide the padding and however long the digits, the buffer is     *)
(* never written beyond its n bytes, and no directive, known or unknown,   *)
(* complete or cut off, takes the reading of the format out of it.         *)
THEOREM FormattingStaysInside == FmtSpec => []StaysInside
<1>1. FInv => StaysInside
  <2> SUFFICES ASSUME FInv PROVE StaysInside
    OBVIOUS
  <2>1. FmtTypeOK
    BY DEF FInv, FmtTypeOK, FlagsOK, NumberOK, PlaceOK
  <2>2. fpc = "back" => at > 1
    BY DEF FInv, PlaceOK
  <2>3. /\ out \in Seq(Symbols) /\ buf \in Seq(Symbols) /\ cnt = Len(out)
        /\ Len(buf) <= size - 1 /\ Len(buf) <= Len(out)
        /\ \A i \in 1 .. Len(buf) : buf[i] = out[i]
        /\ Len(buf) < size - 1 => Len(buf) = Len(out)
    BY DEF FInv, SinkOK
  <2>4. Len(buf) \in Nat /\ Len(out) \in Nat
    BY <2>3, LenProperties
  <2>5. buf = SubSeq(out, 1, Len(buf))
    <3> DEFINE u == SubSeq(out, 1, Len(buf))
    <3>1. \A i \in 1 .. Len(buf) : out[i] \in Symbols
      <4>1. \A i \in 1 .. Len(buf) : i \in 1 .. Len(out)
        BY <2>3, <2>4
      <4> QED BY <2>3, <4>1, ElementOfSeq
    <3>2. /\ u \in Seq(Symbols)
          /\ Len(u) = IF 1 <= Len(buf) THEN Len(buf) - 1 + 1 ELSE 0
          /\ \A i \in 1 .. Len(buf) - 1 + 1 : u[i] = out[1 + i - 1]
      BY <2>4, <3>1, SubSeqProperties
    <3> HIDE DEF u
    <3>3. Len(u) = Len(buf)
      BY <2>4, <3>2
    <3>4. \A i \in 1 .. Len(buf) : u[i] = buf[i]
      <4> TAKE i \in 1 .. Len(buf)
      <4>1. i \in 1 .. Len(buf) - 1 + 1 /\ 1 + i - 1 = i
        BY <2>4
      <4> QED BY <2>3, <3>2, <4>1
    <3>5. buf = u
      BY <2>3, <3>2, <3>3, <3>4, SeqEqual
    <3> QED BY <3>5 DEF u
  <2>6. Len(buf) < size - 1 => buf = out
    <3> HAVE Len(buf) < size - 1
    <3> QED BY <2>3, SeqEqual
  <2> QED BY <2>1, <2>2, <2>3, <2>5, <2>6 DEF StaysInside
<1> QED
  BY InitFmt, FmtStep, <1>1, PTL DEF FmtSpec

-----------------------------------------------------------------------------
(* Powers, and the digits of a number.                                     *)

(* A set of numbers that is not empty has a least element.                 *)
LEMMA Least ==
  ASSUME NEW S \in SUBSET Nat, S # {}
  PROVE  \E x \in S : \A y \in S : x <= y
<1> DEFINE R == {ss \in Nat \X Nat : ss[1] < ss[2]}
<1>1. IsWellFoundedOn(R, Nat)
  BY NatLessThanWellFounded DEF OpToRel
<1> HIDE DEF R
<1>2. PICK x \in S : \A y \in S : <<y, x>> \notin R
  BY <1>1, WFMin
<1>3. \A y \in S : x <= y
  <2> SUFFICES ASSUME NEW y \in S, ~(x <= y) PROVE FALSE
    OBVIOUS
  <2>1. <<y, x>> \in R
    BY DEF R
  <2> QED BY <1>2, <2>1
<1> QED BY <1>3

(* The powers of b up to the nth.                                          *)
PowersTo(b, n) ==
  {g \in [0 .. n -> Nat] :
     \A k \in 0 .. n : g[k] = IF k = 0 THEN 1 ELSE b * g[k - 1]}

(* The first n without powers up to it would have them from n - 1.         *)
LEMMA PowersToExist ==
  ASSUME NEW b \in Nat
  PROVE  \A n \in Nat : PowersTo(b, n) # {}
<1> DEFINE Bad == {n \in Nat : PowersTo(b, n) = {}}
<1> SUFFICES ASSUME Bad # {} PROVE FALSE
  OBVIOUS
<1>1. PICK n \in Bad : \A y \in Bad : n <= y
  BY Least
<1>2. CASE n = 0
  <2> DEFINE g == [k \in 0 .. n |-> 1]
  <2>1. g \in PowersTo(b, n)
    BY <1>2 DEF PowersTo
  <2> QED BY <1>1, <2>1
<1>3. CASE n # 0
  <2>1. n \in Nat /\ n - 1 \in Nat /\ n - 1 \notin Bad
    BY <1>1, <1>3
  <2>2. PICK g \in PowersTo(b, n - 1) : TRUE
    BY <2>1
  <2>3. /\ g \in [0 .. n - 1 -> Nat]
        /\ \A k \in 0 .. n - 1 : g[k] = IF k = 0 THEN 1 ELSE b * g[k - 1]
    BY <2>2 DEF PowersTo
  <2> DEFINE h == [k \in 0 .. n |-> IF k = n THEN b * g[n - 1] ELSE g[k]]
  <2>4. b * g[n - 1] \in Nat
    BY <2>1, <2>3
  <2>5. h \in [0 .. n -> Nat]
    BY <2>1, <2>3, <2>4
  <2>6. \A k \in 0 .. n : h[k] = IF k = 0 THEN 1 ELSE b * h[k - 1]
    <3> TAKE k \in 0 .. n
    <3>1. CASE k = n
      BY <1>3, <2>1, <3>1
    <3>2. CASE k # n
      <4>1. k \in 0 .. n - 1 /\ h[k] = g[k]
        BY <2>1, <3>2
      <4>2. k # 0 => k - 1 \in 0 .. n /\ k - 1 # n
        BY <2>1
      <4>3. k # 0 => h[k - 1] = g[k - 1]
        BY <4>2
      <4> QED BY <2>3, <4>1, <4>3
    <3> QED BY <3>1, <3>2
  <2>7. h \in PowersTo(b, n)
    BY <2>5, <2>6 DEF PowersTo
  <2> QED BY <1>1, <2>7
<1> QED BY <1>2, <1>3

(* Two of them agree as far as both go.                                    *)
LEMMA PowersToAgree ==
  ASSUME NEW b \in Nat, NEW n \in Nat, NEW m \in Nat,
         NEW g \in PowersTo(b, n), NEW h \in PowersTo(b, m)
  PROVE  \A k \in 0 .. n : k <= m => g[k] = h[k]
<1> DEFINE Bad == {k \in 0 .. n : k <= m /\ g[k] # h[k]}
<1> SUFFICES ASSUME Bad # {} PROVE FALSE
  OBVIOUS
<1>1. PICK k \in Bad : \A y \in Bad : k <= y
  <2>1. Bad \in SUBSET Nat
    OBVIOUS
  <2> QED BY <2>1, Least
<1>2. /\ g[k] = IF k = 0 THEN 1 ELSE b * g[k - 1]
      /\ h[k] = IF k = 0 THEN 1 ELSE b * h[k - 1]
  BY <1>1 DEF PowersTo
<1>3. k # 0
  BY <1>1, <1>2
<1>4. k - 1 \in 0 .. n /\ k - 1 <= m /\ k - 1 \notin Bad
  BY <1>1, <1>3
<1> QED BY <1>1, <1>2, <1>3, <1>4

(* So the recursive definition of Powers defines a function.               *)
LEMMA PowersUnfold ==
  ASSUME NEW b \in Nat
  PROVE  /\ Powers(b) \in [Nat -> Nat]
         /\ Powers(b)[0] = 1
         /\ \A k \in Nat : Powers(b)[k + 1] = b * Powers(b)[k]
<1> DEFINE Step(p) == [k \in Nat |-> IF k = 0 THEN 1 ELSE b * p[k - 1]]
           upto(k) == CHOOSE g : g \in PowersTo(b, k)
           power == [k \in Nat |-> upto(k)[k]]
<1>1. \A k \in Nat : upto(k) \in PowersTo(b, k)
  BY PowersToExist
<1> HIDE DEF upto
<1>2. \A k \in Nat : upto(k)[k] = IF k = 0 THEN 1 ELSE b * upto(k)[k - 1]
  <2> TAKE k \in Nat
  <2>1. k \in 0 .. k
    OBVIOUS
  <2> QED BY <1>1, <2>1 DEF PowersTo
<1>3. \A k \in Nat : k # 0 => upto(k)[k - 1] = upto(k - 1)[k - 1]
  <2> TAKE k \in Nat
  <2> HAVE k # 0
  <2>1. k - 1 \in Nat /\ k - 1 \in 0 .. k /\ k - 1 <= k - 1
    OBVIOUS
  <2> QED BY <1>1, <2>1, PowersToAgree
<1>4. power = Step(power)
  BY <1>2, <1>3
<1>5. Powers(b) = CHOOSE p : p = Step(p)
  BY DEF Powers
<1>6. Powers(b) = Step(Powers(b))
  <2> HIDE DEF power, Step
  <2> QED BY <1>4, <1>5
<1>7. \A k \in Nat : Powers(b)[k] = IF k = 0 THEN 1 ELSE b * Powers(b)[k - 1]
  BY <1>6
<1>8. \A k \in Nat : Powers(b)[k + 1] = b * Powers(b)[k]
  <2> TAKE k \in Nat
  <2>1. k + 1 \in Nat /\ k + 1 # 0 /\ (k + 1) - 1 = k
    OBVIOUS
  <2> QED BY <1>7, <2>1
<1>9. Powers(b) \in [Nat -> Nat]
  <2>1. \A k \in Nat : Powers(b)[k] \in Nat
    <3> DEFINE Bad == {k \in Nat : Powers(b)[k] \notin Nat}
    <3> SUFFICES ASSUME Bad # {} PROVE FALSE
      OBVIOUS
    <3>1. PICK k \in Bad : \A y \in Bad : k <= y
      BY Least
    <3>2. k # 0 => k - 1 \in Nat /\ k - 1 \notin Bad
      BY <3>1
    <3> QED BY <1>7, <3>1, <3>2
  <2>2. Powers(b) = [k \in Nat |-> Powers(b)[k]]
    BY <1>6
  <2> QED BY <2>1, <2>2
<1> QED BY <1>7, <1>8, <1>9

LEMMA Division ==
  ASSUME NEW v \in Nat, NEW d \in Nat, d > 0
  PROVE  /\ v \div d \in Nat
         /\ d * (v \div d) <= v /\ v < d * (v \div d) + d
OBVIOUS

LEMMA Quotient ==
  ASSUME NEW d \in Nat, d > 0, NEW x \in Nat, NEW v \in Nat,
         d * x <= v, v < d * x + d
  PROVE  v \div d = x
OBVIOUS

LEMMA Scaled ==
  ASSUME NEW d \in Nat, NEW x \in Nat, NEW y \in Nat, x <= y
  PROVE  d * x <= d * y
<1>1. PICK z \in Nat : y = x + z
  <2>1. y - x \in Nat /\ y = x + (y - x)
    OBVIOUS
  <2> QED BY <2>1
<1>2. d * y = d * x + d * z /\ d * z \in Nat
  BY <1>1
<1> QED BY <1>2

(* To divide by d and then by e is to divide by their product.             *)
LEMMA DivideTwice ==
  ASSUME NEW v \in Nat, NEW d \in Nat, d > 0, NEW e \in Nat, e > 0
  PROVE  (v \div d) \div e = v \div (e * d)
<1> DEFINE q == v \div d
           x == q \div e
<1>1. q \in Nat /\ d * q <= v /\ v < d * q + d
  BY Division
<1> HIDE DEF q
<1>2. x \in Nat /\ e * x <= q /\ q < e * x + e
  BY <1>1, Division
<1> HIDE DEF x
<1>3. e * x \in Nat /\ q + 1 <= e * x + e /\ e * d \in Nat /\ e * d > 0
  BY <1>1, <1>2
<1>4. d * (e * x) <= d * q /\ d * (q + 1) <= d * (e * x + e)
  BY <1>1, <1>2, <1>3, Scaled
<1>5. /\ d * (e * x) = (e * d) * x /\ d * (q + 1) = d * q + d
      /\ d * (e * x + e) = (e * d) * x + e * d
  BY <1>1, <1>2
<1>6. (e * d) * x <= v /\ v < (e * d) * x + e * d
  <2>1. /\ (e * d) * x \in Nat /\ e * d \in Nat /\ d * q \in Nat
        /\ (e * d) * x <= d * q /\ d * q + d <= (e * d) * x + e * d
    BY <1>1, <1>2, <1>3, <1>4, <1>5
  <2> QED BY <1>1, <2>1
<1>7. v \div (e * d) = x
  BY <1>2, <1>3, <1>6, Quotient
<1> QED BY <1>7 DEF x, q

LEMMA PowersGrow ==
  ASSUME NEW b \in Nat, b > 1
  PROVE  /\ \A k \in Nat : k < Powers(b)[k]
         /\ \A i, j \in Nat : i <= j => Powers(b)[i] <= Powers(b)[j]
<1> DEFINE p == Powers(b)
<1>1. p \in [Nat -> Nat] /\ p[0] = 1 /\ \A k \in Nat : p[k + 1] = b * p[k]
  BY PowersUnfold
<1> HIDE DEF p
<1>2. \A k \in Nat : p[k] + p[k] <= p[k + 1]
  <2> TAKE k \in Nat
  <2>1. p[k] \in Nat /\ p[k] * 2 <= p[k] * b
    BY <1>1, Scaled
  <2> QED BY <1>1, <2>1
<1>3. \A k \in Nat : k < p[k]
  <2> DEFINE Bad == {k \in Nat : ~(k < p[k])}
  <2> SUFFICES ASSUME Bad # {} PROVE FALSE
    OBVIOUS
  <2>1. PICK k \in Bad : \A y \in Bad : k <= y
    BY Least
  <2>2. k # 0
    BY <1>1, <2>1
  <2>3. k - 1 \in Nat /\ k - 1 \notin Bad /\ (k - 1) + 1 = k
    BY <2>1, <2>2
  <2>4. k - 1 < p[k - 1] /\ p[k - 1] + p[k - 1] <= p[k]
    BY <1>2, <2>3
  <2>5. p[k - 1] \in Nat /\ p[k] \in Nat
    BY <1>1, <2>1, <2>3
  <2> QED BY <2>1, <2>3, <2>4, <2>5
<1>4. ASSUME NEW i \in Nat, NEW j \in Nat, i <= j
      PROVE  p[i] <= p[j]
  <2> DEFINE Bad == {k \in Nat : i <= k /\ ~(p[i] <= p[k])}
  <2> SUFFICES ASSUME Bad # {} PROVE FALSE
    BY <1>4
  <2>1. PICK k \in Bad : \A y \in Bad : k <= y
    BY Least
  <2>2. k # i
    BY <1>1, <2>1
  <2>3. k - 1 \in Nat /\ i <= k - 1 /\ k - 1 \notin Bad /\ (k - 1) + 1 = k
    BY <2>1, <2>2
  <2>4. p[i] <= p[k - 1] /\ p[k - 1] + p[k - 1] <= p[k]
    BY <1>2, <2>3
  <2>5. p[k - 1] \in Nat /\ p[k] \in Nat /\ p[i] \in Nat
    BY <1>1, <2>1, <2>3
  <2> QED BY <2>1, <2>4, <2>5
<1> QED BY <1>3, <1>4 DEF p

(* The length of a numeral is where the powers pass the number.            *)
LEMMA LengthIs ==
  ASSUME NEW b \in Nat, b > 1, NEW v \in Nat, NEW j \in Nat,
         v < Powers(b)[j + 1], j = 0 \/ v >= Powers(b)[j]
  PROVE  Length(v, b) = j + 1
<1> DEFINE p == Powers(b)
           Fits(k) == v < p[k] /\ (k = 1 \/ v >= p[k - 1])
<1>1. /\ p \in [Nat -> Nat]
      /\ \A k \in Nat : k < p[k]
      /\ \A i, k \in Nat : i <= k => p[i] <= p[k]
  BY PowersUnfold, PowersGrow
<1>2. Length(v, b) = CHOOSE k \in 1 .. v + 1 : Fits(k)
  BY DEF Length
<1>3. v < p[j + 1] /\ (j = 0 \/ v >= p[j])
  OBVIOUS
<1> HIDE DEF p
<1>4. j + 1 \in 1 .. v + 1 /\ Fits(j + 1)
  <2>1. j <= v
    BY <1>1, <1>3
  <2>2. (j + 1) - 1 = j
    OBVIOUS
  <2> QED BY <1>3, <2>1, <2>2
<1>5. ASSUME NEW k \in 1 .. v + 1, Fits(k)
      PROVE  k = j + 1
  <2>1. CASE k < j + 1
    <3>1. k \in Nat /\ k <= j /\ j # 0 /\ v < p[k]
      BY <1>5, <2>1
    <3>2. p[k] <= p[j] /\ p[k] \in Nat /\ p[j] \in Nat
      BY <1>1, <3>1
    <3> QED BY <1>3, <3>1, <3>2
  <2>2. CASE k > j + 1
    <3>1. k - 1 \in Nat /\ j + 1 <= k - 1 /\ v >= p[k - 1]
      BY <1>5, <2>2
    <3>2. p[j + 1] <= p[k - 1] /\ p[j + 1] \in Nat /\ p[k - 1] \in Nat
      BY <1>1, <3>1
    <3> QED BY <1>3, <3>1, <3>2
  <2> QED BY <2>1, <2>2
<1> HIDE DEF Fits
<1> QED BY <1>2, <1>4, <1>5

(* A number some of whose last digits have been taken off.                 *)
Taken(v, b, rest, last) ==
  /\ rest = v \div Powers(b)[Len(last)]
  /\ Len(last) > 0 => rest > 0
  /\ \A k \in 1 .. Len(last) :
       last[k] = digits[((v \div Powers(b)[Len(last) - k]) % b) + 1]

LEMMA NothingTaken ==
  ASSUME NEW b \in Nat, b > 1, NEW v \in Nat
  PROVE  Taken(v, b, v, <<>>)
<1>1. Powers(b)[0] = 1
  BY PowersUnfold
<1>2. v \div 1 = v
  BY Quotient
<1> QED BY <1>1, <1>2 DEF Taken

(* printnum takes off one more digit before it calls itself.               *)
LEMMA OneTaken ==
  ASSUME NEW b \in Nat, b > 1, NEW v \in Nat, NEW rest \in Nat,
         NEW S, NEW last \in Seq(S), Taken(v, b, rest, last), rest >= b,
         digits[(rest % b) + 1] \in S
  PROVE  Taken(v, b, rest \div b, <<digits[(rest % b) + 1]>> \o last)
<1> DEFINE p == Powers(b)
           n == Len(last)
           d == <<digits[(rest % b) + 1]>>
           new == d \o last
<1>1. /\ p \in [Nat -> Nat] /\ \A k \in Nat : k < p[k]
      /\ \A k \in Nat : p[k + 1] = b * p[k]
  BY PowersUnfold, PowersGrow
<1>2. n \in Nat
  BY LenProperties
<1>3. /\ rest = v \div p[n]
      /\ \A k \in 1 .. n : last[k] = digits[((v \div p[n - k]) % b) + 1]
  BY DEF Taken
<1>4. d \in Seq(S) /\ Len(d) = 1 /\ d[1] = digits[(rest % b) + 1]
  OBVIOUS
<1> HIDE DEF p, n, d
<1>5. /\ Len(new) = n + 1
      /\ \A i \in 1 .. n + 1 : new[i] = IF i <= 1 THEN d[i] ELSE last[i - 1]
  <2>1. /\ Len(new) = 1 + n
        /\ \A i \in 1 .. 1 + n : new[i] = IF i <= 1 THEN d[i] ELSE last[i - 1]
    <3>1. /\ new \in Seq(S) /\ Len(new) = Len(d) + Len(last)
          /\ \A i \in 1 .. Len(d) + Len(last) :
               new[i] = IF i <= Len(d) THEN d[i] ELSE last[i - Len(d)]
      BY <1>4, ConcatProperties
    <3> HIDE DEF new
    <3> QED BY <1>4, <3>1 DEF n
  <2>2. 1 + n = n + 1
    BY <1>2
  <2> QED BY <2>1, <2>2, Zenon
<1> HIDE DEF new
<1>6. rest \div b = v \div p[n + 1]
  <2>1. p[n] \in Nat /\ p[n] > 0 /\ p[n + 1] = b * p[n]
    <3>1. p[n] \in Nat /\ n < p[n]
      BY <1>1, <1>2
    <3>2. p[n] > 0
      BY <1>2, <3>1
    <3>3. p[n + 1] = b * p[n]
      BY <1>1, <1>2
    <3> QED BY <3>1, <3>2, <3>3
  <2>2. (v \div p[n]) \div b = v \div (b * p[n])
    <3>1. p[n] \in Nat /\ p[n] > 0 /\ b > 0
      BY <2>1
    <3> QED BY <3>1, DivideTwice
  <2> QED BY <1>3, <2>1, <2>2
<1>7. rest \div b > 0
  <2>1. rest \div b \in Nat /\ rest < b * (rest \div b) + b
    BY Division
  <2>2. CASE rest \div b = 0
    BY <2>1, <2>2
  <2> QED BY <2>1, <2>2
<1>8. ASSUME NEW k \in 1 .. n + 1
      PROVE  new[k] = digits[((v \div p[(n + 1) - k]) % b) + 1]
  <2>1. CASE k = 1
    <3>1. (n + 1) - k = n
      BY <1>2, <2>1
    <3> QED BY <1>3, <1>4, <1>5, <2>1, <3>1
  <2>2. CASE k # 1
    <3>1. k - 1 \in 1 .. n /\ n - (k - 1) = (n + 1) - k /\ ~(k <= 1)
      BY <1>2, <2>2
    <3>2. new[k] = last[k - 1]
      BY <1>5, <3>1
    <3>3. last[k - 1] = digits[((v \div p[n - (k - 1)]) % b) + 1]
      BY <1>3, <3>1
    <3> QED BY <3>1, <3>2, <3>3
  <2> QED BY <2>1, <2>2
<1> QED BY <1>5, <1>6, <1>7, <1>8 DEF Taken, p, new, d

(* A sequence with the digits of a number is its numeral.                  *)
LEMMA NumeralFrom ==
  ASSUME NEW b, NEW v, NEW l \in Nat, Length(v, b) = l,
         NEW S, NEW s \in Seq(S), Len(s) = l,
         \A k \in 1 .. l : s[k] = digits[((v \div Powers(b)[l - k]) % b) + 1]
  PROVE  Numeral(v, b) = s
<1> DEFINE digit(k) == digits[((v \div Powers(b)[l - k]) % b) + 1]
<1>1. Numeral(v, b) = [k \in 1 .. l |-> digit(k)]
  BY Zenon DEF Numeral
<1>2. \A k \in 1 .. l : s[k] = digit(k)
  OBVIOUS
<1> HIDE DEF digit
<1>3. [k \in 1 .. l |-> digit(k)] = [k \in 1 .. l |-> s[k]]
  BY <1>2
<1>4. s = [k \in 1 .. l |-> s[k]]
  BY LenProperties
<1> QED BY <1>1, <1>3, <1>4

(* What is left is the first digit, and the numeral is complete.           *)
LEMMA AllTaken ==
  ASSUME NEW b \in Nat, b > 1, NEW v \in Nat, NEW rest \in Nat,
         NEW S, NEW last \in Seq(S), Taken(v, b, rest, last), rest < b,
         digits[(rest % b) + 1] \in S
  PROVE  /\ Len(Numeral(v, b)) = Len(last) + 1
         /\ Numeral(v, b) = <<digits[(rest % b) + 1]>> \o last
<1> DEFINE p == Powers(b)
           n == Len(last)
           d == <<digits[(rest % b) + 1]>>
           new == d \o last
<1>1. /\ p \in [Nat -> Nat] /\ \A k \in Nat : k < p[k]
      /\ \A k \in Nat : p[k + 1] = b * p[k]
  BY PowersUnfold, PowersGrow
<1>2. n \in Nat
  BY LenProperties
<1>3. /\ rest = v \div p[n] /\ (n > 0 => rest > 0)
      /\ \A k \in 1 .. n : last[k] = digits[((v \div p[n - k]) % b) + 1]
  BY DEF Taken
<1>4. d \in Seq(S) /\ Len(d) = 1 /\ d[1] = digits[(rest % b) + 1]
  OBVIOUS
<1>5. p = Powers(b)
  OBVIOUS
<1> HIDE DEF p, n, d
<1>6. /\ new \in Seq(S) /\ Len(new) = n + 1
      /\ \A i \in 1 .. n + 1 : new[i] = IF i <= 1 THEN d[i] ELSE last[i - 1]
  <2>1. /\ new \in Seq(S) /\ Len(new) = 1 + n
        /\ \A i \in 1 .. 1 + n : new[i] = IF i <= 1 THEN d[i] ELSE last[i - 1]
    <3>1. /\ new \in Seq(S) /\ Len(new) = Len(d) + Len(last)
          /\ \A i \in 1 .. Len(d) + Len(last) :
               new[i] = IF i <= Len(d) THEN d[i] ELSE last[i - Len(d)]
      BY <1>4, ConcatProperties
    <3> HIDE DEF new
    <3> QED BY <1>4, <3>1 DEF n
  <2>2. 1 + n = n + 1
    BY <1>2
  <2> QED BY <2>1, <2>2, Zenon
<1> HIDE DEF new
<1>7. Length(v, b) = n + 1
  <2>1. p[n] \in Nat /\ p[n] > 0 /\ p[n + 1] = b * p[n]
    <3>1. p[n] \in Nat /\ n < p[n]
      BY <1>1, <1>2
    <3>2. p[n] > 0
      BY <1>2, <3>1
    <3>3. p[n + 1] = b * p[n]
      BY <1>1, <1>2
    <3> QED BY <3>1, <3>2, <3>3
  <2>2. p[n] * rest <= v /\ v < p[n] * rest + p[n]
    BY <1>3, <2>1, Division
  <2>3. v < p[n + 1]
    <3>1. rest + 1 \in Nat /\ rest + 1 <= b
      OBVIOUS
    <3>2. p[n] * (rest + 1) <= p[n] * b
      <4>1. p[n] \in Nat
        BY <2>1
      <4> QED BY <3>1, <4>1, Scaled
    <3>3. p[n] * (rest + 1) = p[n] * rest + p[n] /\ p[n] * b = b * p[n]
      BY <2>1
    <3>4. p[n] * rest \in Nat /\ b * p[n] \in Nat
      BY <2>1
    <3> QED BY <2>1, <2>2, <3>2, <3>3, <3>4
  <2>4. n = 0 \/ v >= p[n]
    <3> SUFFICES ASSUME n # 0 PROVE v >= p[n]
      OBVIOUS
    <3>1. p[n] * 1 <= p[n] * rest /\ p[n] * rest \in Nat
      <4>1. p[n] \in Nat /\ 1 \in Nat /\ rest \in Nat /\ 1 <= rest
        BY <1>2, <1>3, <2>1
      <4>2. p[n] * 1 <= p[n] * rest
        BY <4>1, Scaled
      <4>3. p[n] * rest \in Nat
        BY <4>1
      <4> QED BY <4>2, <4>3
    <3> QED BY <2>1, <2>2, <3>1
  <2> QED BY <1>2, <2>3, <2>4, LengthIs DEF p
<1>8. ASSUME NEW k \in 1 .. n + 1
      PROVE  new[k] = digits[((v \div p[(n + 1) - k]) % b) + 1]
  <2>1. CASE k = 1
    <3>1. (n + 1) - k = n
      BY <1>2, <2>1
    <3> QED BY <1>3, <1>4, <1>6, <2>1, <3>1
  <2>2. CASE k # 1
    <3>1. k - 1 \in 1 .. n /\ n - (k - 1) = (n + 1) - k /\ ~(k <= 1)
      BY <1>2, <2>2
    <3>2. new[k] = last[k - 1]
      BY <1>6, <3>1
    <3>3. last[k - 1] = digits[((v \div p[n - (k - 1)]) % b) + 1]
      BY <1>3, <3>1
    <3> QED BY <3>1, <3>2, <3>3
  <2> QED BY <2>1, <2>2
<1>9. Numeral(v, b) = new
  <2>1. new \in Seq(S) /\ Len(new) = n + 1 /\ n + 1 \in Nat
    BY <1>2, <1>6
  <2>2. \A k \in 1 .. n + 1 :
          new[k] = digits[((v \div Powers(b)[(n + 1) - k]) % b) + 1]
    <3> TAKE k \in 1 .. n + 1
    <3>1. new[k] = digits[((v \div p[(n + 1) - k]) % b) + 1]
      BY <1>8
    <3> QED BY <1>5, <3>1, Zenon
  <2> QED BY <1>7, <2>1, <2>2, NumeralFrom
<1> QED BY <1>6, <1>9 DEF new, d, n

-----------------------------------------------------------------------------
(* Where the parts of a directive are in its format.                       *)

(* How many characters a flag takes.                                       *)
Bit(b) == IF b THEN 1 ELSE 0

(* The places behind the flags, the width and the precision, and that of   *)
(* the conversion.                                                         *)
FlagsEnd(x) == 2 + Bit(x.minus) + Bit(x.zero) + Bit(x.alt)
WidthEnds(x) ==
  FlagsEnd(x) + (IF x.width = 0 THEN 0 ELSE IF x.width < 10 THEN 1 ELSE 2)
PrecisionEnd(x) == WidthEnds(x) + (IF x.prec = "none" THEN 0 ELSE 2)
ConvAt(x) == PrecisionEnd(x) + x.longs

(* Every part of the directive x is at its place in s.                     *)
Layout(x, s) ==
  /\ Len(s) = ConvAt(x) + (IF x.conv = NUL THEN 0 ELSE 2)
  /\ x.minus => s[2] = "-"
  /\ x.zero => s[2 + Bit(x.minus)] = "0"
  /\ x.alt => s[FlagsEnd(x) - 1] = "#"
  /\ x.width \in 1 .. 9 => s[FlagsEnd(x)] = digits[x.width + 1]
  /\ x.width > 9 => /\ s[FlagsEnd(x)] = digits[(x.width \div 10) + 1]
                    /\ s[FlagsEnd(x) + 1] = digits[(x.width % 10) + 1]
  /\ x.prec # "none" =>
       /\ s[WidthEnds(x)] = "."
       /\ s[WidthEnds(x) + 1] = IF x.prec = "one" THEN "1" ELSE "*"
  /\ \A j \in PrecisionEnd(x) .. ConvAt(x) - 1 : s[j] = "l"
  /\ s[ConvAt(x)] = x.conv
  /\ x.conv # NUL => s[ConvAt(x) + 1] = TextAfter /\ s[ConvAt(x) + 2] = NUL

-----------------------------------------------------------------------------
(* What formats are made of.                                               *)
FmtChars == Symbols \cup {NUL}

(* t stands in s behind the kth place.                                     *)
Has(s, k, t) ==
  k + Len(t) <= Len(s) /\ \A i \in 1 .. Len(t) : s[k + i] = t[i]

(* A part stays where it is as more is put behind it.                      *)
LEMMA HasLast ==
  ASSUME NEW S, NEW s \in Seq(S), NEW t \in Seq(S)
  PROVE  /\ s \o t \in Seq(S) /\ Len(s \o t) = Len(s) + Len(t)
         /\ Has(s \o t, Len(s), t)
<1>1. /\ s \o t \in Seq(S) /\ Len(s \o t) = Len(s) + Len(t)
      /\ \A i \in 1 .. Len(s) + Len(t) :
           (s \o t)[i] = IF i <= Len(s) THEN s[i] ELSE t[i - Len(s)]
  BY ConcatProperties
<1>2. Len(s) \in Nat /\ Len(t) \in Nat
  BY LenProperties
<1>3. ASSUME NEW i \in 1 .. Len(t)
      PROVE  (s \o t)[Len(s) + i] = t[i]
  <2>1. Len(s) + i \in 1 .. Len(s) + Len(t) /\ ~(Len(s) + i <= Len(s))
    BY <1>2
  <2>2. (Len(s) + i) - Len(s) = i
    BY <1>2
  <2> QED BY <1>1, <2>1, <2>2
<1> QED BY <1>1, <1>2, <1>3 DEF Has

LEMMA HasStill ==
  ASSUME NEW S, NEW s \in Seq(S), NEW t \in Seq(S), NEW u \in Seq(S),
         NEW k \in Nat, Has(s, k, u)
  PROVE  Has(s \o t, k, u)
<1>1. /\ Len(s \o t) = Len(s) + Len(t)
      /\ \A i \in 1 .. Len(s) + Len(t) :
           (s \o t)[i] = IF i <= Len(s) THEN s[i] ELSE t[i - Len(s)]
  BY ConcatProperties
<1>2. Len(s) \in Nat /\ Len(t) \in Nat /\ Len(u) \in Nat
  BY LenProperties
<1>3. k + Len(u) <= Len(s) /\ \A i \in 1 .. Len(u) : s[k + i] = u[i]
  BY DEF Has
<1>4. ASSUME NEW i \in 1 .. Len(u)
      PROVE  (s \o t)[k + i] = u[i]
  <2>1. k + i \in 1 .. Len(s) + Len(t) /\ k + i <= Len(s)
    BY <1>2, <1>3
  <2> QED BY <1>1, <1>3, <2>1
<1>5. k + Len(u) <= Len(s \o t)
  BY <1>1, <1>2, <1>3
<1> QED BY <1>4, <1>5 DEF Has

LEMMA HasWithin ==
  ASSUME NEW S, NEW s \in Seq(S), NEW t \in Seq(S), NEW u \in Seq(S),
         NEW k \in Nat, NEW j \in Nat, Has(s, k, t), Has(t, j, u)
  PROVE  Has(s, k + j, u)
<1>1. Len(s) \in Nat /\ Len(t) \in Nat /\ Len(u) \in Nat
  BY LenProperties
<1>2. /\ k + Len(t) <= Len(s) /\ \A i \in 1 .. Len(t) : s[k + i] = t[i]
      /\ j + Len(u) <= Len(t) /\ \A i \in 1 .. Len(u) : t[j + i] = u[i]
  BY DEF Has
<1>3. ASSUME NEW i \in 1 .. Len(u)
      PROVE  s[(k + j) + i] = u[i]
  <2>1. j + i \in 1 .. Len(t) /\ k + (j + i) = (k + j) + i
    BY <1>1, <1>2
  <2>2. s[k + (j + i)] = t[j + i]
    BY <1>2, <2>1
  <2> QED BY <1>2, <2>1, <2>2
<1>4. (k + j) + Len(u) <= Len(s)
  BY <1>1, <1>2
<1> QED BY <1>3, <1>4 DEF Has

(* A character that is there only if b is.                                 *)
Maybe(b, y) == IF b THEN <<y>> ELSE <<>>

LEMMA MaybeIs ==
  ASSUME NEW b \in BOOLEAN, NEW S, NEW y \in S
  PROVE  /\ Maybe(b, y) \in Seq(S) /\ Len(Maybe(b, y)) = Bit(b)
         /\ b => Maybe(b, y)[1] = y
BY DEF Maybe, Bit

(* The parts of a directive, each by itself and then all of them.          *)
LEMMA FlagsLaidOut ==
  ASSUME NEW x \in Directives
  PROVE  /\ FlagsOf(x) \in Seq(FmtChars)
         /\ Len(FlagsOf(x)) = FlagsEnd(x) - 2
         /\ x.minus => FlagsOf(x)[1] = "-"
         /\ x.zero => FlagsOf(x)[1 + Bit(x.minus)] = "0"
         /\ x.alt => FlagsOf(x)[FlagsEnd(x) - 2] = "#"
<1> DEFINE m == Maybe(x.minus, "-")
           z == Maybe(x.zero, "0")
           a == Maybe(x.alt, "#")
           f == FlagsOf(x)
<1>1. /\ x.minus \in BOOLEAN /\ x.zero \in BOOLEAN /\ x.alt \in BOOLEAN
      /\ "-" \in FmtChars /\ "0" \in FmtChars /\ "#" \in FmtChars
  BY PrintfmtAssumption, SymbolFacts DEF FmtChars
<1>2. f = (m \o z) \o a
  BY DEF FlagsOf, Maybe
<1>3. /\ m \in Seq(FmtChars) /\ z \in Seq(FmtChars) /\ a \in Seq(FmtChars)
      /\ Len(m) = Bit(x.minus) /\ Len(z) = Bit(x.zero) /\ Len(a) = Bit(x.alt)
      /\ (x.minus => m[1] = "-") /\ (x.zero => z[1] = "0")
      /\ (x.alt => a[1] = "#")
  BY <1>1, MaybeIs
<1> HIDE DEF m, z, a, f
<1>4. /\ m \o z \in Seq(FmtChars) /\ Len(m \o z) = Len(m) + Len(z)
      /\ Has(m \o z, Len(m), z) /\ Has(m \o z, 0, m)
  <2>1. Has(m, 0, m)
    BY <1>3, LenProperties DEF Has
  <2> QED BY <1>3, <2>1, HasLast, HasStill
<1>5. /\ f \in Seq(FmtChars) /\ Len(f) = Len(m) + Len(z) + Len(a)
      /\ Has(f, Len(m) + Len(z), a) /\ Has(f, Len(m), z) /\ Has(f, 0, m)
  <2> DEFINE g == m \o z
  <2>1. g \in Seq(FmtChars) /\ Len(g) = Len(m) + Len(z) /\ Len(m) \in Nat
        /\ Has(g, Len(m), z) /\ Has(g, 0, m) /\ f = g \o a
    BY <1>2, <1>3, <1>4, LenProperties
  <2> HIDE DEF g
  <2>2. f \in Seq(FmtChars) /\ Len(f) = Len(g) + Len(a) /\ Has(f, Len(g), a)
    BY <1>3, <2>1, HasLast
  <2>3. Has(f, Len(m), z) /\ Has(f, 0, m)
    BY <1>3, <2>1, HasStill
  <2> QED BY <2>1, <2>2, <2>3
<1>6. /\ Len(f) = Bit(x.minus) + Bit(x.zero) + Bit(x.alt)
      /\ FlagsEnd(x) - 2 = Bit(x.minus) + Bit(x.zero) + Bit(x.alt)
  BY <1>1, <1>3, <1>5 DEF FlagsEnd, Bit
<1>7. x.minus => f[1] = "-"
  BY <1>1, <1>3, <1>5 DEF Has, Bit
<1>8. x.zero => f[1 + Bit(x.minus)] = "0"
  <2> HAVE x.zero
  <2>1. 1 \in 1 .. Len(z) /\ Len(m) + 1 = 1 + Bit(x.minus)
    BY <1>1, <1>3 DEF Bit
  <2> QED BY <1>3, <1>5, <2>1 DEF Has
<1>9. x.alt => f[FlagsEnd(x) - 2] = "#"
  <2> HAVE x.alt
  <2>1. 1 \in 1 .. Len(a) /\ (Len(m) + Len(z)) + 1 = FlagsEnd(x) - 2
    BY <1>1, <1>3, <1>6 DEF Bit
  <2> QED BY <1>3, <1>5, <2>1 DEF Has
<1> QED BY <1>5, <1>6, <1>7, <1>8, <1>9 DEF f

LEMMA WidthLaidOut ==
  ASSUME NEW x \in Directives
  PROVE  /\ WidthOf(x) \in Seq(FmtChars)
         /\ Len(WidthOf(x)) = WidthEnds(x) - FlagsEnd(x)
         /\ x.width \in 1 .. 9 => WidthOf(x)[1] = digits[x.width + 1]
         /\ x.width > 9 => /\ WidthOf(x)[1] = digits[(x.width \div 10) + 1]
                           /\ WidthOf(x)[2] = digits[(x.width % 10) + 1]
<1>1. x.width \in 0 .. 99 /\ FlagsEnd(x) \in Int
  BY PrintfmtAssumption DEF FlagsEnd, Bit
<1>2. CASE x.width = 0
  BY <1>1, <1>2 DEF WidthOf, WidthEnds
<1>3. CASE x.width \in 1 .. 9
  <2> DEFINE e == digits[x.width + 1]
  <2>1. e \in FmtChars
    BY <1>3, DigitFacts DEF FmtChars
  <2>2. WidthOf(x) = <<e>>
    BY <1>3 DEF WidthOf
  <2>3. WidthEnds(x) - FlagsEnd(x) = 1
    BY <1>1, <1>3 DEF WidthEnds
  <2>4. x.width \in 1 .. 9 /\ ~(x.width > 9)
    BY <1>3
  <2> HIDE DEF e
  <2>5. WidthOf(x) \in Seq(FmtChars) /\ Len(WidthOf(x)) = 1 /\ WidthOf(x)[1] = e
    BY <2>1, <2>2
  <2> QED BY <2>3, <2>4, <2>5 DEF e
<1>4. CASE x.width > 9
  <2> DEFINE e == digits[(x.width \div 10) + 1]
             u == digits[(x.width % 10) + 1]
  <2>1. x.width \div 10 \in 0 .. 9 /\ x.width % 10 \in 0 .. 9
    BY <1>1, Z3
  <2>2. e \in FmtChars /\ u \in FmtChars
    BY <2>1, DigitFacts DEF FmtChars
  <2>3. WidthOf(x) = <<e, u>>
    BY <1>1, <1>4 DEF WidthOf
  <2>4. WidthEnds(x) - FlagsEnd(x) = 2
    BY <1>1, <1>4 DEF WidthEnds
  <2>5. ~(x.width \in 1 .. 9)
    BY <1>4
  <2>6. /\ e = digits[(x.width \div 10) + 1]
        /\ u = digits[(x.width % 10) + 1]
    OBVIOUS
  <2> HIDE DEF e, u
  <2>7. /\ WidthOf(x) \in Seq(FmtChars) /\ Len(WidthOf(x)) = 2
        /\ WidthOf(x)[1] = e /\ WidthOf(x)[2] = u
    BY <2>2, <2>3
  <2>8. Len(WidthOf(x)) = WidthEnds(x) - FlagsEnd(x)
    BY <2>4, <2>7
  <2>9. WidthOf(x)[1] = e /\ WidthOf(x)[2] = u
    BY <2>7
  <2> QED BY <2>5, <2>7, <2>8, <2>9, <2>6
<1>5. x.width = 0 \/ x.width \in 1 .. 9 \/ x.width > 9
  BY <1>1
<1> QED BY <1>2, <1>3, <1>4, <1>5, Zenon

LEMMA PrecisionLaidOut ==
  ASSUME NEW x \in Directives
  PROVE  /\ PrecisionOf(x) \in Seq(FmtChars)
         /\ Len(PrecisionOf(x)) = PrecisionEnd(x) - WidthEnds(x)
         /\ x.prec # "none" =>
              /\ PrecisionOf(x)[1] = "."
              /\ PrecisionOf(x)[2] = IF x.prec = "one" THEN "1" ELSE "*"
<1>1. /\ x.prec \in {"none", "one", "star"} /\ WidthEnds(x) \in Int
      /\ "." \in FmtChars /\ "1" \in FmtChars /\ "*" \in FmtChars
  BY PrintfmtAssumption, SymbolFacts DEF FmtChars, WidthEnds, FlagsEnd, Bit
<1>2. CASE x.prec = "none"
  BY <1>1, <1>2 DEF PrecisionOf, PrecisionEnd
<1>3. CASE x.prec = "one"
  BY <1>1, <1>3 DEF PrecisionOf, PrecisionEnd
<1>4. CASE x.prec = "star"
  BY <1>1, <1>4 DEF PrecisionOf, PrecisionEnd
<1> QED BY <1>1, <1>2, <1>3, <1>4

(* The places as numbers.                                                  *)
LEMMA Positions ==
  ASSUME NEW x \in Directives
  PROVE  /\ FlagsEnd(x) \in 2 .. 5
         /\ FlagsEnd(x) = 2 + Bit(x.minus) + Bit(x.zero) + Bit(x.alt)
         /\ Bit(x.minus) \in 0 .. 1 /\ Bit(x.zero) \in 0 .. 1
         /\ Bit(x.alt) \in 0 .. 1
         /\ WidthEnds(x) \in FlagsEnd(x) .. FlagsEnd(x) + 2
         /\ x.width = 0 => WidthEnds(x) = FlagsEnd(x)
         /\ x.width \in 1 .. 9 => WidthEnds(x) = FlagsEnd(x) + 1
         /\ x.width > 9 => WidthEnds(x) = FlagsEnd(x) + 2
         /\ PrecisionEnd(x) = WidthEnds(x) + IF x.prec = "none" THEN 0 ELSE 2
         /\ ConvAt(x) = PrecisionEnd(x) + x.longs
         /\ x.longs \in 0 .. 2 /\ x.width \in 0 .. 99
         /\ x.prec \in {"none", "one", "star"}
         /\ x.minus \in BOOLEAN /\ x.zero \in BOOLEAN /\ x.alt \in BOOLEAN
         /\ PrecisionEnd(x) \in Int /\ ConvAt(x) \in Int
         /\ x.conv \in Conversions \cup {"z", NUL}
<1>1. /\ x.minus \in BOOLEAN /\ x.zero \in BOOLEAN /\ x.alt \in BOOLEAN
      /\ x.width \in 0 .. 99 /\ x.longs \in 0 .. 2
      /\ x.prec \in {"none", "one", "star"}
      /\ x.conv \in Conversions \cup {"z", NUL}
  BY PrintfmtAssumption
<1>2. /\ Bit(x.minus) \in 0 .. 1 /\ Bit(x.zero) \in 0 .. 1
      /\ Bit(x.alt) \in 0 .. 1
  BY DEF Bit
<1>3. /\ FlagsEnd(x) = 2 + Bit(x.minus) + Bit(x.zero) + Bit(x.alt)
      /\ FlagsEnd(x) \in 2 .. 5
  BY <1>2 DEF FlagsEnd
<1>4. /\ WidthEnds(x) \in FlagsEnd(x) .. FlagsEnd(x) + 2
      /\ x.width = 0 => WidthEnds(x) = FlagsEnd(x)
      /\ x.width \in 1 .. 9 => WidthEnds(x) = FlagsEnd(x) + 1
      /\ x.width > 9 => WidthEnds(x) = FlagsEnd(x) + 2
  BY <1>1, <1>3 DEF WidthEnds
<1>5. /\ PrecisionEnd(x) = WidthEnds(x) + IF x.prec = "none" THEN 0 ELSE 2
      /\ PrecisionEnd(x) \in Int
  BY <1>3, <1>4 DEF PrecisionEnd
<1>6. ConvAt(x) = PrecisionEnd(x) + x.longs /\ ConvAt(x) \in Int
  BY <1>1, <1>5 DEF ConvAt
<1> QED BY <1>1, <1>2, <1>3, <1>4, <1>5, <1>6

LEMMA TimesLength ==
  ASSUME NEW y, NEW k \in Nat
  PROVE  /\ Len(Times(y, k)) = k
         /\ \A i \in 1 .. k : Times(y, k)[i] = y
<1>1. CASE k > 0
  BY <1>1 DEF Times
<1>2. CASE k = 0
  BY <1>2 DEF Times
<1> QED BY <1>1, <1>2

LEMMA LaidOut ==
  ASSUME NEW x \in Directives
  PROVE  Layout(x, Render(x) \o After(x) \o <<NUL>>)
<1> DEFINE f == FlagsOf(x)
           w == WidthOf(x)
           p == PrecisionOf(x)
           l == Times("l", x.longs)
           z == IF x.conv = NUL THEN <<>> ELSE <<x.conv>>
           a == After(x)
           n == <<NUL>>
           o == <<"%">>
           s1 == o \o f
           s2 == s1 \o w
           s3 == s2 \o p
           s4 == s3 \o l
           s5 == s4 \o z
           s6 == s5 \o a
           s7 == s6 \o n
           S == FmtChars
<1>1. Render(x) \o After(x) \o <<NUL>> = s7
  BY DEF Render
<1>2. /\ f \in Seq(S) /\ Len(f) = FlagsEnd(x) - 2
      /\ x.minus => f[1] = "-"
      /\ x.zero => f[1 + Bit(x.minus)] = "0"
      /\ x.alt => f[FlagsEnd(x) - 2] = "#"
  BY FlagsLaidOut
<1>3. /\ w \in Seq(S) /\ Len(w) = WidthEnds(x) - FlagsEnd(x)
      /\ x.width \in 1 .. 9 => w[1] = digits[x.width + 1]
      /\ x.width > 9 => /\ w[1] = digits[(x.width \div 10) + 1]
                        /\ w[2] = digits[(x.width % 10) + 1]
  BY WidthLaidOut
<1>4. /\ p \in Seq(S) /\ Len(p) = PrecisionEnd(x) - WidthEnds(x)
      /\ x.prec # "none" =>
           p[1] = "." /\ p[2] = IF x.prec = "one" THEN "1" ELSE "*"
  BY PrecisionLaidOut
<1>5. /\ l \in Seq(S) /\ Len(l) = x.longs /\ \A i \in 1 .. x.longs : l[i] = "l"
  <2>1. x.longs \in Nat /\ x.longs \in Int /\ "l" \in S
    BY Positions, SymbolFacts DEF FmtChars
  <2> QED BY <2>1, TimesIs, TimesLength
<1>6. /\ z \in Seq(S) /\ Len(z) = (IF x.conv = NUL THEN 0 ELSE 1)
      /\ x.conv # NUL => z[1] = x.conv
  <2>1. x.conv \in S
    BY Positions, SymbolFacts DEF FmtChars
  <2> QED BY <2>1
<1>7. /\ a \in Seq(S) /\ Len(a) = (IF x.conv = NUL THEN 0 ELSE 1)
      /\ x.conv # NUL => a[1] = TextAfter
  <2>1. TextAfter \in S
    BY SymbolFacts DEF FmtChars
  <2> QED BY <2>1 DEF After
<1>8. n \in Seq(S) /\ Len(n) = 1 /\ n[1] = NUL /\ o \in Seq(S) /\ Len(o) = 1
  BY SymbolFacts DEF FmtChars
<1> HIDE DEF f, w, p, l, z, a, n, o, S
<1>9. /\ s1 \in Seq(S) /\ Len(s1) = 1 + Len(f) /\ Has(s1, 1, f)
  <2>1. /\ s1 \in Seq(S) /\ Len(s1) = Len(o) + Len(f) /\ Has(s1, Len(o), f)
    BY <1>2, <1>8, HasLast
  <2> QED BY <1>8, <2>1
<1> HIDE DEF s1
<1>10. s2 \in Seq(S) /\ Len(s2) = Len(s1) + Len(w) /\ Has(s2, Len(s1), w)
  BY <1>3, <1>9, HasLast
<1> HIDE DEF s2
<1>11. s3 \in Seq(S) /\ Len(s3) = Len(s2) + Len(p) /\ Has(s3, Len(s2), p)
  BY <1>4, <1>10, HasLast
<1> HIDE DEF s3
<1>12. s4 \in Seq(S) /\ Len(s4) = Len(s3) + Len(l) /\ Has(s4, Len(s3), l)
  BY <1>5, <1>11, HasLast
<1> HIDE DEF s4
<1>13. s5 \in Seq(S) /\ Len(s5) = Len(s4) + Len(z) /\ Has(s5, Len(s4), z)
  BY <1>6, <1>12, HasLast
<1> HIDE DEF s5
<1>14. s6 \in Seq(S) /\ Len(s6) = Len(s5) + Len(a) /\ Has(s6, Len(s5), a)
  BY <1>7, <1>13, HasLast
<1> HIDE DEF s6
<1>15. s7 \in Seq(S) /\ Len(s7) = Len(s6) + Len(n) /\ Has(s7, Len(s6), n)
  BY <1>8, <1>14, HasLast
<1>16. ASSUME NEW u \in Seq(S), NEW k \in Nat
       PROVE  /\ Has(s1, k, u) => Has(s2, k, u)
              /\ Has(s2, k, u) => Has(s3, k, u)
              /\ Has(s3, k, u) => Has(s4, k, u)
              /\ Has(s4, k, u) => Has(s5, k, u)
              /\ Has(s5, k, u) => Has(s6, k, u)
              /\ Has(s6, k, u) => Has(s7, k, u)
  <2>1. Has(s1, k, u) => Has(s2, k, u)
    BY <1>3, <1>9, HasStill DEF s2
  <2>2. Has(s2, k, u) => Has(s3, k, u)
    BY <1>4, <1>10, HasStill DEF s3
  <2>3. Has(s3, k, u) => Has(s4, k, u)
    BY <1>5, <1>11, HasStill DEF s4
  <2>4. Has(s4, k, u) => Has(s5, k, u)
    BY <1>6, <1>12, HasStill DEF s5
  <2>5. Has(s5, k, u) => Has(s6, k, u)
    BY <1>7, <1>13, HasStill DEF s6
  <2>6. Has(s6, k, u) => Has(s7, k, u)
    BY <1>8, <1>14, HasStill
  <2> QED BY <2>1, <2>2, <2>3, <2>4, <2>5, <2>6
<1> HIDE DEF s7
<1>17. /\ Len(s1) = FlagsEnd(x) - 1 /\ Len(s2) = WidthEnds(x) - 1
       /\ Len(s3) = PrecisionEnd(x) - 1 /\ Len(s4) = ConvAt(x) - 1
       /\ Len(s5) = ConvAt(x) - 1 + (IF x.conv = NUL THEN 0 ELSE 1)
       /\ Len(s6) = ConvAt(x) - 1 + (IF x.conv = NUL THEN 0 ELSE 2)
       /\ Len(s7) = ConvAt(x) + (IF x.conv = NUL THEN 0 ELSE 2)
  <2>1. /\ FlagsEnd(x) \in Int /\ WidthEnds(x) \in Int
        /\ PrecisionEnd(x) \in Int /\ ConvAt(x) = PrecisionEnd(x) + x.longs
        /\ x.longs \in Int
    BY Positions
  <2>2. Len(s1) = FlagsEnd(x) - 1
    BY <1>2, <1>9, <2>1
  <2>3. Len(s2) = WidthEnds(x) - 1
    BY <1>3, <1>10, <2>1, <2>2
  <2>4. Len(s3) = PrecisionEnd(x) - 1
    BY <1>4, <1>11, <2>1, <2>3
  <2>5. Len(s4) = ConvAt(x) - 1
    BY <1>5, <1>12, <2>1, <2>4
  <2>6. Len(s5) = ConvAt(x) - 1 + (IF x.conv = NUL THEN 0 ELSE 1)
    BY <1>6, <1>13, <2>1, <2>5
  <2>7. Len(s6) = ConvAt(x) - 1 + (IF x.conv = NUL THEN 0 ELSE 2)
    BY <1>7, <1>14, <2>1, <2>6
  <2>8. Len(s7) = ConvAt(x) + (IF x.conv = NUL THEN 0 ELSE 2)
    BY <1>8, <1>15, <2>1, <2>7
  <2> QED BY <2>2, <2>3, <2>4, <2>5, <2>6, <2>7, <2>8
<1>18. /\ Has(s7, 1, f) /\ Has(s7, FlagsEnd(x) - 1, w)
       /\ Has(s7, WidthEnds(x) - 1, p) /\ Has(s7, PrecisionEnd(x) - 1, l)
       /\ Has(s7, ConvAt(x) - 1, z)
       /\ Has(s7, ConvAt(x) - 1 + (IF x.conv = NUL THEN 0 ELSE 1), a)
       /\ Has(s7, ConvAt(x) - 1 + (IF x.conv = NUL THEN 0 ELSE 2), n)
  <2>1. /\ FlagsEnd(x) - 1 \in Nat /\ WidthEnds(x) - 1 \in Nat
        /\ PrecisionEnd(x) - 1 \in Nat /\ ConvAt(x) - 1 \in Nat
        /\ ConvAt(x) - 1 + (IF x.conv = NUL THEN 0 ELSE 1) \in Nat
    BY Positions
  <2>2. Has(s7, 1, f)
    BY <1>2, <1>9, <1>16
  <2>3. Has(s7, FlagsEnd(x) - 1, w)
    BY <1>3, <1>10, <1>16, <1>17, <2>1
  <2>4. Has(s7, WidthEnds(x) - 1, p)
    BY <1>4, <1>11, <1>16, <1>17, <2>1
  <2>5. Has(s7, PrecisionEnd(x) - 1, l)
    BY <1>5, <1>12, <1>16, <1>17, <2>1
  <2>6. Has(s7, ConvAt(x) - 1, z)
    BY <1>6, <1>13, <1>16, <1>17, <2>1
  <2>7. Has(s7, ConvAt(x) - 1 + (IF x.conv = NUL THEN 0 ELSE 1), a)
    BY <1>7, <1>14, <1>16, <1>17, <2>1
  <2> QED BY <1>15, <1>17, <2>2, <2>3, <2>4, <2>5, <2>6, <2>7
<1>19. /\ x.minus => s7[2] = "-"
       /\ x.zero => s7[2 + Bit(x.minus)] = "0"
       /\ x.alt => s7[FlagsEnd(x) - 1] = "#"
  <2>1. \A i \in 1 .. FlagsEnd(x) - 2 : s7[1 + i] = f[i]
    BY <1>2, <1>18 DEF Has
  <2>2. /\ x.minus => 1 \in 1 .. FlagsEnd(x) - 2
        /\ x.zero => 1 + Bit(x.minus) \in 1 .. FlagsEnd(x) - 2
        /\ x.alt => FlagsEnd(x) - 2 \in 1 .. FlagsEnd(x) - 2
        /\ 1 + 1 = 2 /\ 1 + (1 + Bit(x.minus)) = 2 + Bit(x.minus)
        /\ 1 + (FlagsEnd(x) - 2) = FlagsEnd(x) - 1
    BY Positions DEF Bit
  <2>3. x.minus => s7[2] = "-"
    BY <1>2, <2>1, <2>2
  <2>4. x.zero => s7[2 + Bit(x.minus)] = "0"
    BY <1>2, <2>1, <2>2
  <2>5. x.alt => s7[FlagsEnd(x) - 1] = "#"
    BY <1>2, <2>1, <2>2
  <2> QED BY <2>3, <2>4, <2>5
<1>20. /\ x.width \in 1 .. 9 => s7[FlagsEnd(x)] = digits[x.width + 1]
       /\ x.width > 9 => /\ s7[FlagsEnd(x)] = digits[(x.width \div 10) + 1]
                         /\ s7[FlagsEnd(x) + 1] = digits[(x.width % 10) + 1]
  <2>1. \A i \in 1 .. WidthEnds(x) - FlagsEnd(x) :
          s7[FlagsEnd(x) - 1 + i] = w[i]
    BY <1>3, <1>18 DEF Has
  <2>2. /\ FlagsEnd(x) - 1 + 1 = FlagsEnd(x)
        /\ FlagsEnd(x) - 1 + 2 = FlagsEnd(x) + 1
        /\ x.width \in 1 .. 9 => 1 \in 1 .. WidthEnds(x) - FlagsEnd(x)
        /\ x.width > 9 => /\ 1 \in 1 .. WidthEnds(x) - FlagsEnd(x)
                          /\ 2 \in 1 .. WidthEnds(x) - FlagsEnd(x)
    BY Positions
  <2>3. /\ x.width \in 1 .. 9 => s7[FlagsEnd(x)] = w[1]
        /\ x.width > 9 => s7[FlagsEnd(x)] = w[1] /\ s7[FlagsEnd(x) + 1] = w[2]
    BY <2>1, <2>2
  <2> QED BY <1>3, <2>3
<1>21. x.prec # "none" =>
         /\ s7[WidthEnds(x)] = "."
         /\ s7[WidthEnds(x) + 1] = IF x.prec = "one" THEN "1" ELSE "*"
  <2>1. \A i \in 1 .. PrecisionEnd(x) - WidthEnds(x) :
          s7[WidthEnds(x) - 1 + i] = p[i]
    BY <1>4, <1>18 DEF Has
  <2>2. /\ WidthEnds(x) - 1 + 1 = WidthEnds(x)
        /\ WidthEnds(x) - 1 + 2 = WidthEnds(x) + 1
        /\ x.prec # "none" => /\ 1 \in 1 .. PrecisionEnd(x) - WidthEnds(x)
                              /\ 2 \in 1 .. PrecisionEnd(x) - WidthEnds(x)
    BY Positions
  <2>3. x.prec # "none" =>
          s7[WidthEnds(x)] = p[1] /\ s7[WidthEnds(x) + 1] = p[2]
    BY <2>1, <2>2
  <2> QED BY <1>4, <2>3
<1>22. \A j \in PrecisionEnd(x) .. ConvAt(x) - 1 : s7[j] = "l"
  <2> TAKE j \in PrecisionEnd(x) .. ConvAt(x) - 1
  <2>1. /\ j - PrecisionEnd(x) + 1 \in 1 .. x.longs
        /\ PrecisionEnd(x) - 1 + (j - PrecisionEnd(x) + 1) = j
    BY Positions
  <2>2. \A i \in 1 .. x.longs : s7[PrecisionEnd(x) - 1 + i] = l[i] /\ l[i] = "l"
    BY <1>5, <1>18 DEF Has
  <2> QED BY <2>1, <2>2
<1>23. /\ x.conv # NUL => s7[ConvAt(x)] = x.conv
       /\ x.conv # NUL => s7[ConvAt(x) + 1] = TextAfter
  <2> SUFFICES ASSUME x.conv # NUL
               PROVE s7[ConvAt(x)] = x.conv /\ s7[ConvAt(x) + 1] = TextAfter
    OBVIOUS
  <2>1. ConvAt(x) - 1 + 1 = ConvAt(x) /\ ConvAt(x) \in Int
    BY Positions
  <2>2. 1 \in 1 .. Len(z) /\ 1 \in 1 .. Len(a)
    BY <1>6, <1>7
  <2>3. s7[ConvAt(x) - 1 + 1] = z[1]
    BY <1>18, <2>2 DEF Has
  <2>4. s7[ConvAt(x) - 1 + 1 + 1] = a[1]
    BY <1>18, <2>2 DEF Has
  <2> QED BY <1>6, <1>7, <2>1, <2>3, <2>4
<1>24. /\ x.conv = NUL => s7[ConvAt(x)] = NUL
       /\ x.conv # NUL => s7[ConvAt(x) + 2] = NUL
  <2>1. /\ ConvAt(x) - 1 + 0 + 1 = ConvAt(x)
        /\ ConvAt(x) - 1 + 2 + 1 = ConvAt(x) + 2
    BY Positions
  <2>2. 1 \in 1 .. Len(n)
    BY <1>8
  <2>3. s7[ConvAt(x) - 1 + (IF x.conv = NUL THEN 0 ELSE 2) + 1] = NUL
    BY <1>8, <1>18, <2>2 DEF Has
  <2> QED BY <2>1, <2>3
<1> QED BY <1>1, <1>17, <1>19, <1>20, <1>21, <1>22, <1>23, <1>24 DEF Layout

-----------------------------------------------------------------------------
(* What has been read of a directive, by the place in it.                  *)

(* The precision that the author wrote or passed.                          *)
Limit == IF dir.prec = "one" THEN 1 ELSE given[1]

(* What padc and width are, by the place in the directive.                 *)
PadRead ==
  IF dir.zero /\ at > 2 + Bit(dir.minus) THEN "0"
  ELSE IF dir.minus /\ at > 2 THEN "-" ELSE SPACE

WidthRead ==
  IF at >= WidthEnds(dir) /\ dir.width > 0 THEN dir.width
  ELSE IF dir.prec # "none" /\ at > WidthEnds(dir) THEN 0 ELSE -1

(* As much of the directive is known as has been read.  Within a number,   *)
(* precision holds what there is of it.                                    *)
ReadOK ==
  /\ fpc = "reswitch" =>
       /\ at \in 2 .. ConvAt(dir)
       /\ at <= FlagsEnd(dir) \/ at >= WidthEnds(dir)
       /\ padc = PadRead
       /\ altflag = (dir.alt /\ at >= FlagsEnd(dir))
       /\ width = WidthRead
       /\ precision = IF dir.prec # "none" /\ at >= PrecisionEnd(dir)
                      THEN Limit ELSE -1
       /\ lflag = IF at > PrecisionEnd(dir) THEN at - PrecisionEnd(dir) ELSE 0
       /\ ap = IF dir.prec = "star" /\ at >= PrecisionEnd(dir)
               THEN Tail(given) ELSE given
  /\ fpc = "width" =>
       /\ padc = PadRead /\ altflag = dir.alt /\ lflag = 0 /\ ap = given
       /\ \/ /\ dir.width > 0 /\ width = -1
             /\ at \in FlagsEnd(dir) + 1 .. WidthEnds(dir)
             /\ precision = IF at = WidthEnds(dir) THEN dir.width
                            ELSE dir.width \div 10
          \/ /\ dir.prec = "one" /\ at = PrecisionEnd(dir)
             /\ width = dir.width /\ precision = 1

(* A digit is read as what was written.                                    *)
LEMMA DigitBack ==
  ASSUME NEW k \in 0 .. 9
  PROVE  /\ digits[k + 1] \in DigitChars /\ DigitOf(digits[k + 1]) = k
         /\ k # 0 => digits[k + 1] # "0"
<1>1. digits[k + 1] \in DigitChars
  BY DEF DigitChars
<1>2. \A i \in 0 .. 9 : digits[i + 1] = digits[k + 1] => i = k
  BY DEF digits
<1>3. DigitOf(digits[k + 1]) = k
  BY <1>2 DEF DigitOf
<1>4. digits[1] = "0"
  BY DEF digits
<1>5. k # 0 => digits[k + 1] # "0"
  BY <1>2, <1>4
<1> QED BY <1>1, <1>3, <1>5

(* The format is that of the directive.                                    *)
LEMMA Directive ==
  ASSUME FInv
  PROVE  /\ dir \in Directives /\ Layout(dir, fmt) /\ given \in ArgsOf(dir)
         /\ at \in 1 .. Len(fmt)
<1>1. InputOK /\ at \in 1 .. Len(fmt)
  BY DEF FInv, PlaceOK
<1> QED BY <1>1, LaidOut DEF InputOK

(* The characters where the parts of the directive begin.                  *)
LEMMA Where ==
  ASSUME FInv, ReadOK, fpc = "reswitch"
  PROVE  \/ dir.minus /\ at = 2 /\ ch = "-"
         \/ dir.zero /\ at = 2 + Bit(dir.minus) /\ ch = "0"
         \/ dir.alt /\ at = FlagsEnd(dir) - 1 /\ ch = "#"
         \/ /\ dir.width > 0 /\ at = FlagsEnd(dir)
            /\ ch \in DigitChars \ {"0"}
            /\ DigitOf(ch) = IF at + 1 = WidthEnds(dir) THEN dir.width
                             ELSE dir.width \div 10
         \/ dir.prec # "none" /\ at = WidthEnds(dir) /\ ch = "."
         \/ dir.prec = "one" /\ at = WidthEnds(dir) + 1 /\ ch = "1"
         \/ dir.prec = "star" /\ at = WidthEnds(dir) + 1 /\ ch = "*"
         \/ at \in PrecisionEnd(dir) .. ConvAt(dir) - 1 /\ ch = "l"
         \/ at = ConvAt(dir) /\ ch = dir.conv
<1>1. dir \in Directives /\ Layout(dir, fmt) /\ at \in Int
  BY Directive
<1>2. /\ at \in 2 .. ConvAt(dir)
      /\ at <= FlagsEnd(dir) \/ at >= WidthEnds(dir)
  BY DEF ReadOK
<1>3. CASE at < FlagsEnd(dir)
  <2>1. \/ dir.minus /\ at = 2
        \/ dir.zero /\ at = 2 + Bit(dir.minus)
        \/ dir.alt /\ at = FlagsEnd(dir) - 1
    BY <1>1, <1>2, <1>3, Positions DEF Bit
  <2> QED BY <1>1, <2>1 DEF Layout, ch
<1>4. CASE at = FlagsEnd(dir) /\ dir.width \in 1 .. 9
  <2>1. ch = digits[dir.width + 1] /\ at + 1 = WidthEnds(dir)
    BY <1>1, <1>4, Positions DEF Layout, ch
  <2>2. ch \in DigitChars \ {"0"} /\ DigitOf(ch) = dir.width
    <3>1. dir.width \in 0 .. 9 /\ dir.width # 0
      BY <1>4
    <3> QED BY <2>1, <3>1, DigitBack
  <2>3. dir.width > 0
    BY <1>4
  <2> QED BY <1>4, <2>1, <2>2, <2>3
<1>5. CASE at = FlagsEnd(dir) /\ dir.width > 9
  <2>1. dir.width \in 0 .. 99 /\ WidthEnds(dir) = FlagsEnd(dir) + 2
        /\ FlagsEnd(dir) \in Int
    BY <1>1, <1>5, Positions
  <2>2. ch = digits[(dir.width \div 10) + 1] /\ at + 1 # WidthEnds(dir)
    BY <1>1, <1>5, <2>1 DEF Layout, ch
  <2>3. dir.width \div 10 \in 0 .. 9 /\ dir.width \div 10 # 0
    BY <1>5, <2>1, Z3
  <2>4. ch \in DigitChars \ {"0"} /\ DigitOf(ch) = dir.width \div 10
    BY <2>2, <2>3, DigitBack
  <2>5. dir.width > 0
    BY <1>5, <2>1
  <2> QED BY <1>5, <2>2, <2>4, <2>5
<1>6. CASE at >= WidthEnds(dir)
  <2>1. CASE at < PrecisionEnd(dir)
    <3>1. /\ dir.prec # "none"
          /\ at = WidthEnds(dir) \/ at = WidthEnds(dir) + 1
      BY <1>1, <1>6, <2>1, Positions
    <3>2. dir.prec \in {"one", "star"}
      BY <1>1, <3>1, Positions
    <3> QED BY <1>1, <3>1, <3>2 DEF Layout, ch
  <2>2. CASE at >= PrecisionEnd(dir)
    <3>1. at \in PrecisionEnd(dir) .. ConvAt(dir) - 1 \/ at = ConvAt(dir)
      BY <1>1, <1>2, <2>2, Positions
    <3> QED BY <1>1, <3>1 DEF Layout, ch
  <2> QED BY <1>1, <2>1, <2>2, Positions
<1>7. \/ at < FlagsEnd(dir)
      \/ at = FlagsEnd(dir) /\ dir.width \in 1 .. 9
      \/ at = FlagsEnd(dir) /\ dir.width > 9
      \/ at >= WidthEnds(dir)
  BY <1>1, <1>2, Positions
<1> QED BY <1>3, <1>4, <1>5, <1>6, <1>7

(* The marks of the parts, the digits and the conversions are different    *)
(* characters.                                                             *)
LEMMA Marks ==
  /\ dir.conv \in Conversions \cup {"z", NUL} =>
       dir.conv \notin {"-", "0", "#", ".", "1", "*", "l"} \cup DigitChars
  /\ "1" \in DigitChars \ {"0"} /\ DigitOf("1") = 1 /\ "0" \in DigitChars
  /\ {"-", "#", ".", "*", "l"} \cap DigitChars = {}
<1>1. digits[2] = "1" /\ DigitOf(digits[1 + 1]) = 1
  BY DigitBack DEF digits
<1> QED BY <1>1, DigitFacts DEF Conversions, NUL

(* What an unchanged input leaves as it is.                                *)
LEMMA SameDirective ==
  ASSUME UNCHANGED input
  PROVE  dir' = dir /\ given' = given /\ fmt' = fmt /\ size' = size
BY DEF input

(* One lemma for each character read.                                      *)
LEMMA PercentReads ==
  ASSUME FInv, Percent
  PROVE  ReadOK'
<1>1. /\ dir \in Directives /\ dir' = dir /\ given' = given
      /\ padc' = SPACE /\ width' = -1 /\ precision' = -1
      /\ lflag' = 0 /\ altflag' = FALSE /\ at' = at + 1 /\ fpc' = "reswitch"
      /\ ap' = ap
  BY Directive DEF Percent, input
<1>2. at = 1 /\ ap = given
  <2>1. at \in 1 .. Len(fmt) /\ fmt[at] = "%" /\ fpc = "text"
    BY Directive DEF Percent, Reads, ch
  <2>2. Len(fmt) \in Nat
    BY <2>1
  <2>3. ~Behind
    BY <2>1, <2>2 DEF Behind
  <2> QED BY <2>1, <2>3 DEF FInv, PlaceOK
<1>3. at' = 2 /\ ap' = given
  BY <1>1, <1>2
<1>4. at' \in 2 .. ConvAt(dir) /\ at' <= FlagsEnd(dir)
  BY <1>1, <1>3, Positions
<1>5. PadRead' = SPACE
  BY <1>1, <1>3, Positions DEF PadRead
<1>6. WidthRead' = -1
  BY <1>1, <1>3, Positions DEF WidthRead
<1>7. (dir.alt /\ at' >= FlagsEnd(dir)) = FALSE
  BY <1>1, <1>3, Positions DEF Bit
<1>8. /\ ~(dir.prec # "none" /\ at' >= PrecisionEnd(dir))
      /\ ~(at' > PrecisionEnd(dir))
      /\ ~(dir.prec = "star" /\ at' >= PrecisionEnd(dir))
  BY <1>1, <1>3, Positions
<1> QED BY <1>1, <1>3, <1>4, <1>5, <1>6, <1>7, <1>8 DEF ReadOK

(* Before the precision, and the width if there is one.                    *)
LEMMA Early ==
  ASSUME NEW x \in Directives, NEW i \in Int
  PROVE  /\ i <= FlagsEnd(x) =>
              /\ ~(x.prec # "none" /\ i >= PrecisionEnd(x))
              /\ ~(x.prec = "star" /\ i >= PrecisionEnd(x))
              /\ ~(i > PrecisionEnd(x))
              /\ ~(x.prec # "none" /\ i > WidthEnds(x))
              /\ x.width > 0 => ~(i >= WidthEnds(x))
         /\ i <= WidthEnds(x) =>
              /\ ~(x.prec # "none" /\ i >= PrecisionEnd(x))
              /\ ~(x.prec = "star" /\ i >= PrecisionEnd(x))
              /\ ~(i > PrecisionEnd(x))
              /\ ~(x.prec # "none" /\ i > WidthEnds(x))
         /\ i <= ConvAt(x) \/ i > FlagsEnd(x)
         /\ FlagsEnd(x) <= WidthEnds(x) /\ WidthEnds(x) <= PrecisionEnd(x)
         /\ PrecisionEnd(x) <= ConvAt(x)
BY Positions

LEMMA PadFlagReads ==
  ASSUME FInv, ReadOK, PadFlag
  PROVE  ReadOK'
<1>1. /\ fpc = "reswitch" /\ ch \in {"-", "0"} /\ padc' = ch
      /\ at' = at + 1 /\ fpc' = "reswitch" /\ UNCHANGED input
      /\ UNCHANGED <<ap, width, precision, lflag, altflag>>
  BY DEF PadFlag, Reads, Reswitch
<1>2. dir \in Directives /\ dir' = dir /\ given' = given /\ at \in Int
  BY <1>1, Directive, SameDirective
<1>3. \/ dir.minus /\ at = 2 /\ ch = "-"
      \/ dir.zero /\ at = 2 + Bit(dir.minus) /\ ch = "0"
  BY <1>1, <1>2, Where, Marks, Positions
<1>4. /\ at' \in Int /\ at' <= FlagsEnd(dir) /\ at' >= 2
      /\ at < FlagsEnd(dir) /\ (dir.alt => at' < FlagsEnd(dir))
  BY <1>1, <1>2, <1>3, Positions DEF Bit
<1>5. PadRead' = ch
  BY <1>1, <1>2, <1>3, Positions DEF PadRead, Bit
<1>6. altflag = FALSE /\ (dir.alt /\ at' >= FlagsEnd(dir)) = FALSE
  <2>1. altflag = (dir.alt /\ at >= FlagsEnd(dir))
    BY <1>1 DEF ReadOK
  <2>2. ~(dir.alt /\ at >= FlagsEnd(dir)) /\ ~(dir.alt /\ at' >= FlagsEnd(dir))
    BY <1>2, <1>4, Positions
  <2> QED BY <2>1, <2>2
<1>7. /\ width = -1 /\ precision = -1 /\ lflag = 0 /\ ap = given
  BY <1>1, <1>2, <1>4, Early, Positions DEF ReadOK, WidthRead
<1>8. WidthRead' = -1
  BY <1>2, <1>4, Early, Positions DEF WidthRead
<1>9. at' \in 2 .. ConvAt(dir)
  BY <1>2, <1>4, Early, Positions
<1> QED BY <1>1, <1>2, <1>4, <1>5, <1>6, <1>7, <1>8, <1>9, Early DEF ReadOK

LEMMA SharpReads ==
  ASSUME FInv, ReadOK, SharpOrLong, ch = "#"
  PROVE  ReadOK'
<1>1. /\ fpc = "reswitch" /\ lflag' = lflag
      /\ at' = at + 1 /\ fpc' = "reswitch" /\ UNCHANGED input
      /\ UNCHANGED <<ap, padc, width, precision>>
  BY DEF SharpOrLong, Reads, Reswitch
<1>2. altflag' = TRUE
  BY DEF SharpOrLong
<1>3. dir \in Directives /\ dir' = dir /\ given' = given /\ at \in Int
  BY <1>1, Directive, SameDirective
<1>4. dir.alt /\ at = FlagsEnd(dir) - 1
  BY <1>1, <1>3, Where, Marks, Positions
<1>5. /\ at' = FlagsEnd(dir) /\ at' \in Int /\ at' >= 2 /\ at <= FlagsEnd(dir)
      /\ at' <= ConvAt(dir)
  BY <1>1, <1>3, <1>4, Early, Positions
<1>6. padc = PadRead /\ PadRead' = PadRead
  BY <1>1, <1>3, <1>4, <1>5, Positions DEF PadRead, Bit, ReadOK
<1>7. /\ width = -1 /\ precision = -1 /\ lflag = 0 /\ ap = given
  BY <1>1, <1>3, <1>5, Early, Positions DEF ReadOK, WidthRead
<1>8. WidthRead' = -1
  BY <1>3, <1>5, Early, Positions DEF WidthRead
<1>9. (dir.alt /\ at' >= FlagsEnd(dir)) = TRUE
  BY <1>3, <1>4, <1>5
<1>10. at' \in 2 .. ConvAt(dir) /\ at' <= FlagsEnd(dir)
  BY <1>3, <1>5, Positions
<1> QED BY <1>1, <1>2, <1>3, <1>5, <1>6, <1>7, <1>8, <1>9, <1>10, Early
        DEF ReadOK

LEMMA LongReads ==
  ASSUME FInv, ReadOK, SharpOrLong, ch = "l"
  PROVE  ReadOK'
<1>1. /\ fpc = "reswitch" /\ lflag' = lflag + 1
      /\ at' = at + 1 /\ fpc' = "reswitch" /\ UNCHANGED input
      /\ UNCHANGED <<ap, padc, width, precision>>
  BY DEF SharpOrLong, Reads, Reswitch
<1>2. altflag' = altflag
  BY DEF SharpOrLong, FInv, FlagsOK
<1>3. dir \in Directives /\ dir' = dir /\ given' = given /\ at \in Int
  BY <1>1, Directive, SameDirective
<1>4. at \in PrecisionEnd(dir) .. ConvAt(dir) - 1
  BY <1>1, <1>3, Where, Marks, Positions
<1>5. /\ at' \in 2 .. ConvAt(dir) /\ at' >= WidthEnds(dir)
      /\ at >= FlagsEnd(dir) /\ at' >= FlagsEnd(dir)
      /\ at >= WidthEnds(dir) /\ at >= PrecisionEnd(dir)
      /\ at' > PrecisionEnd(dir)
  BY <1>1, <1>3, <1>4, Positions
<1>6. padc = PadRead /\ PadRead' = PadRead
  BY <1>1, <1>3, <1>5, Positions DEF PadRead, Bit, ReadOK
<1>7. width = WidthRead /\ WidthRead' = WidthRead
  <2>1. dir.prec # "none" => at > WidthEnds(dir) /\ at' > WidthEnds(dir)
    BY <1>3, <1>5, Positions
  <2> QED BY <1>1, <1>3, <1>5, <2>1 DEF WidthRead, ReadOK
<1>8. /\ altflag = (dir.alt /\ at' >= FlagsEnd(dir))
      /\ precision = IF dir.prec # "none" THEN Limit ELSE -1
      /\ ap = IF dir.prec = "star" THEN Tail(given) ELSE given
  BY <1>1, <1>3, <1>5 DEF ReadOK
<1>9. lflag' = at' - PrecisionEnd(dir)
  <2>1. lflag = IF at > PrecisionEnd(dir) THEN at - PrecisionEnd(dir) ELSE 0
    BY <1>1 DEF ReadOK
  <2>2. lflag = at - PrecisionEnd(dir) /\ PrecisionEnd(dir) \in Int
    BY <1>3, <1>5, <2>1, Positions
  <2> QED BY <1>1, <1>3, <2>2
<1>10. /\ at' >= PrecisionEnd(dir) /\ Limit' = Limit
  BY <1>3, <1>5, Positions DEF Limit
<1> QED BY <1>1, <1>2, <1>3, <1>5, <1>6, <1>7, <1>8, <1>9, <1>10 DEF ReadOK

LEMMA DotReads ==
  ASSUME FInv, ReadOK, Dot
  PROVE  ReadOK'
<1>1. /\ fpc = "reswitch" /\ ch = "." /\ width' = IF width < 0 THEN 0 ELSE width
      /\ at' = at + 1 /\ fpc' = "reswitch" /\ UNCHANGED input
      /\ UNCHANGED <<ap, padc, precision, lflag, altflag>>
  BY DEF Dot, Reads, Reswitch
<1>2. dir \in Directives /\ dir' = dir /\ given' = given /\ at \in Int
  BY <1>1, Directive, SameDirective
<1>3. dir.prec # "none" /\ at = WidthEnds(dir)
  BY <1>1, <1>2, Where, Marks, Positions
<1>4. /\ at' = WidthEnds(dir) + 1 /\ at' \in 2 .. ConvAt(dir)
      /\ at' >= WidthEnds(dir) /\ at' < PrecisionEnd(dir)
      /\ at >= FlagsEnd(dir) /\ at' >= FlagsEnd(dir) /\ at' > WidthEnds(dir)
      /\ at <= WidthEnds(dir) /\ at >= WidthEnds(dir)
      /\ PrecisionEnd(dir) \in Int /\ at' \in Int
  BY <1>1, <1>2, <1>3, Positions
<1>5. padc = PadRead /\ PadRead' = PadRead
  BY <1>1, <1>2, <1>4, Positions DEF PadRead, Bit, ReadOK
<1>6. width' = WidthRead'
  <2>1. width = WidthRead /\ dir.width \in 0 .. 99
    BY <1>1, <1>2, Positions DEF ReadOK
  <2>2. width = IF dir.width > 0 THEN dir.width ELSE -1
    BY <1>2, <1>3, <1>4, <2>1, Early DEF WidthRead
  <2>3. WidthRead' = IF dir.width > 0 THEN dir.width ELSE 0
    BY <1>2, <1>3, <1>4 DEF WidthRead
  <2> QED BY <1>1, <2>1, <2>2, <2>3
<1>7. /\ altflag = (dir.alt /\ at' >= FlagsEnd(dir))
      /\ precision = -1 /\ lflag = 0 /\ ap = given
  BY <1>1, <1>2, <1>4, Early DEF ReadOK
<1>8. /\ ~(at' >= PrecisionEnd(dir)) /\ ~(at' > PrecisionEnd(dir))
  BY <1>4
<1> QED BY <1>1, <1>2, <1>4, <1>5, <1>6, <1>7, <1>8 DEF ReadOK

LEMMA StarReads ==
  ASSUME FInv, ReadOK, Star
  PROVE  ReadOK'
<1>1. /\ fpc = "reswitch" /\ ch = "*" /\ Number(Head(ap)) /\ ap' = Tail(ap)
      /\ at' = at + 1 /\ fpc' = "reswitch" /\ UNCHANGED input
      /\ UNCHANGED <<padc, lflag, altflag>>
  BY DEF Star, Reads, Reswitch
<1>2. /\ dir \in Directives /\ dir' = dir /\ given' = given /\ at \in Int
      /\ given \in ArgsOf(dir)
  BY <1>1, Directive, SameDirective
<1>3. dir.prec = "star" /\ at = WidthEnds(dir) + 1
  BY <1>1, <1>2, Where, Marks, Positions
<1>4. /\ at' = PrecisionEnd(dir) /\ at' \in 2 .. ConvAt(dir)
      /\ at' >= WidthEnds(dir) /\ at < PrecisionEnd(dir)
      /\ at >= FlagsEnd(dir) /\ at' >= FlagsEnd(dir) /\ at' > WidthEnds(dir)
      /\ at >= WidthEnds(dir) /\ at > WidthEnds(dir)
      /\ PrecisionEnd(dir) \in Int /\ at' \in Int /\ dir.prec # "none"
  <2>1. /\ FlagsEnd(dir) \in 2 .. 5 /\ WidthEnds(dir) \in Int
        /\ WidthEnds(dir) >= FlagsEnd(dir)
        /\ PrecisionEnd(dir) = WidthEnds(dir) + 2
        /\ ConvAt(dir) \in Int /\ ConvAt(dir) >= PrecisionEnd(dir)
    BY <1>2, <1>3, Positions
  <2>2. at' = WidthEnds(dir) + 2
    BY <1>1, <1>3, <2>1
  <2> QED BY <1>3, <2>1, <2>2
<1>5. padc = PadRead /\ PadRead' = PadRead
  BY <1>1, <1>2, <1>4, Positions DEF PadRead, Bit, ReadOK
<1>6. width = WidthRead /\ WidthRead' = WidthRead /\ width >= 0
  <2>1. width = WidthRead /\ dir.width \in 0 .. 99
    BY <1>1, <1>2, Positions DEF ReadOK
  <2> QED BY <1>2, <1>4, <2>1 DEF WidthRead
<1>7. ap = given /\ lflag = 0 /\ altflag = (dir.alt /\ at' >= FlagsEnd(dir))
  BY <1>1, <1>2, <1>4 DEF ReadOK
<1>8. width \in Int
  BY DEF FInv, FlagsOK
<1>9. precision' = Limit' /\ width' = width
  <2>1. Head(given) = given[1]
    BY <1>2, <1>3 DEF ArgsOf
  <2>2. precision' = Head(given) /\ width' = width
    BY <1>1, <1>6, <1>7, <1>8 DEF Number
  <2> QED BY <1>2, <1>3, <2>1, <2>2 DEF Limit
<1>10. at' >= PrecisionEnd(dir) /\ ~(at' > PrecisionEnd(dir))
  BY <1>4
<1> QED BY <1>1, <1>2, <1>3, <1>4, <1>5, <1>6, <1>7, <1>9, <1>10 DEF ReadOK

LEMMA WidthStartReads ==
  ASSUME FInv, ReadOK, WidthStart
  PROVE  ReadOK'
<1>1. /\ fpc = "reswitch" /\ ch \in DigitChars \ {"0"}
      /\ precision' = DigitOf(ch)
      /\ at' = at + 1 /\ fpc' = "width" /\ UNCHANGED input
      /\ UNCHANGED <<ap, padc, width, lflag, altflag>>
  BY DEF WidthStart, Reads
<1>2. dir \in Directives /\ dir' = dir /\ given' = given /\ at \in Int
  BY <1>1, Directive, SameDirective
<1>3. \/ /\ dir.width > 0 /\ at = FlagsEnd(dir)
         /\ DigitOf(ch) = IF at + 1 = WidthEnds(dir) THEN dir.width
                          ELSE dir.width \div 10
      \/ dir.prec = "one" /\ at = WidthEnds(dir) + 1 /\ ch = "1"
  BY <1>1, <1>2, Where, Marks, Positions
<1>4. CASE /\ dir.width > 0 /\ at = FlagsEnd(dir)
           /\ DigitOf(ch) = IF at + 1 = WidthEnds(dir) THEN dir.width
                            ELSE dir.width \div 10
  <2>1. /\ at >= FlagsEnd(dir) /\ at <= FlagsEnd(dir)
        /\ at' \in FlagsEnd(dir) + 1 .. WidthEnds(dir)
        /\ at' \in Int /\ at' >= FlagsEnd(dir)
    BY <1>1, <1>2, <1>4, Positions
  <2>2. padc = PadRead /\ PadRead' = PadRead
    BY <1>1, <1>2, <2>1, Positions DEF PadRead, Bit, ReadOK
  <2>3. /\ width = -1 /\ lflag = 0 /\ ap = given
    BY <1>1, <1>2, <1>4, <2>1, Early DEF ReadOK, WidthRead
  <2>4. altflag = dir.alt
    <3>1. altflag = (dir.alt /\ at >= FlagsEnd(dir)) /\ dir.alt \in BOOLEAN
      BY <1>1, <1>2, Positions DEF ReadOK
    <3> QED BY <2>1, <3>1
  <2>5. precision' = IF at' = WidthEnds(dir) THEN dir.width
                     ELSE dir.width \div 10
    BY <1>1, <1>4
  <2> QED BY <1>1, <1>2, <1>4, <2>1, <2>2, <2>3, <2>4, <2>5 DEF ReadOK
<1>5. CASE dir.prec = "one" /\ at = WidthEnds(dir) + 1 /\ ch = "1"
  <2>1. /\ at >= FlagsEnd(dir) /\ at' = PrecisionEnd(dir)
        /\ at > WidthEnds(dir) /\ at >= WidthEnds(dir)
        /\ at < PrecisionEnd(dir) /\ PrecisionEnd(dir) \in Int
        /\ at' \in Int /\ at' >= FlagsEnd(dir) /\ dir.prec # "none"
    BY <1>1, <1>2, <1>5, Positions
  <2>2. padc = PadRead /\ PadRead' = PadRead
    BY <1>1, <1>2, <2>1, Positions DEF PadRead, Bit, ReadOK
  <2>3. lflag = 0 /\ ap = given
    BY <1>1, <1>2, <2>1 DEF ReadOK
  <2>4. altflag = dir.alt
    <3>1. altflag = (dir.alt /\ at >= FlagsEnd(dir)) /\ dir.alt \in BOOLEAN
      BY <1>1, <1>2, Positions DEF ReadOK
    <3> QED BY <2>1, <3>1
  <2>5. width = dir.width
    <3>1. width = WidthRead /\ dir.width \in 0 .. 99
      BY <1>1, <1>2, Positions DEF ReadOK
    <3> QED BY <1>2, <2>1, <3>1 DEF WidthRead
  <2>6. precision' = 1
    BY <1>1, <1>5, Marks
  <2> QED BY <1>1, <1>2, <1>5, <2>1, <2>2, <2>3, <2>4, <2>5, <2>6 DEF ReadOK
<1> QED BY <1>3, <1>4, <1>5

(* What may follow a width or a precision is not a digit.                  *)
LEMMA NoDigitBehind ==
  ASSUME FInv, at = WidthEnds(dir) \/ at = PrecisionEnd(dir)
  PROVE  ch \notin DigitChars
<1>1. dir \in Directives /\ Layout(dir, fmt) /\ at \in Int
  BY Directive
<1>2. \/ dir.prec # "none" /\ at = WidthEnds(dir)
      \/ at \in PrecisionEnd(dir) .. ConvAt(dir) - 1
      \/ at = ConvAt(dir)
  BY <1>1, Positions
<1>3. ch \in {".", "l", dir.conv}
  BY <1>1, <1>2 DEF Layout, ch
<1> QED BY <1>1, <1>3, Marks, Positions

(* Of two digits.                                                          *)
LEMMA TwoDigits ==
  ASSUME NEW w \in 0 .. 99
  PROVE  /\ w % 10 \in 0 .. 9 /\ w \div 10 \in 0 .. 9
         /\ (w \div 10) * 10 + (w % 10) = w
BY Z3

LEMMA WidthDigitReads ==
  ASSUME FInv, ReadOK, WidthDigit
  PROVE  ReadOK'
<1>1. /\ fpc = "width" /\ ch \in DigitChars
      /\ precision' = precision * 10 + DigitOf(ch)
      /\ at' = at + 1 /\ fpc' = "width" /\ UNCHANGED input
      /\ UNCHANGED <<ap, padc, width, lflag, altflag>>
  BY DEF WidthDigit, Reads
<1>2. /\ dir \in Directives /\ dir' = dir /\ given' = given /\ at \in Int
      /\ Layout(dir, fmt)
  BY <1>1, Directive, SameDirective
<1>3. /\ dir.width > 0 /\ width = -1
      /\ at \in FlagsEnd(dir) + 1 .. WidthEnds(dir) /\ at # WidthEnds(dir)
      /\ precision = dir.width \div 10
      /\ padc = PadRead /\ altflag = dir.alt /\ lflag = 0 /\ ap = given
  BY <1>1, NoDigitBehind DEF ReadOK
<1>4. /\ dir.width > 9 /\ at = FlagsEnd(dir) + 1 /\ at' = WidthEnds(dir)
      /\ at' \in FlagsEnd(dir) + 1 .. WidthEnds(dir) /\ dir.width \in 0 .. 99
  BY <1>1, <1>2, <1>3, Positions
<1>5. precision' = dir.width
  <2>1. ch = digits[(dir.width % 10) + 1]
    BY <1>2, <1>4 DEF Layout, ch
  <2>2. /\ dir.width % 10 \in 0 .. 9 /\ dir.width \div 10 \in 0 .. 9
        /\ (dir.width \div 10) * 10 + (dir.width % 10) = dir.width
    BY <1>4, TwoDigits
  <2>3. DigitOf(ch) = dir.width % 10
    BY <2>1, <2>2, DigitBack
  <2>4. precision' = (dir.width \div 10) * 10 + (dir.width % 10)
    BY <1>1, <1>3, <2>3, Zenon
  <2> QED BY <2>2, <2>4, Zenon
<1>6. PadRead' = PadRead
  BY <1>1, <1>2, <1>3, Positions DEF PadRead, Bit
<1> QED BY <1>1, <1>2, <1>3, <1>4, <1>5, <1>6 DEF ReadOK

LEMMA WidthEndReads ==
  ASSUME FInv, ReadOK, WidthEnd
  PROVE  ReadOK'
<1>1. /\ fpc = "width" /\ ch \notin DigitChars /\ Number(precision)
      /\ at' = at /\ fpc' = "reswitch" /\ UNCHANGED input
      /\ UNCHANGED <<ap, padc, lflag, altflag>>
  BY DEF WidthEnd
<1>2. /\ dir \in Directives /\ dir' = dir /\ given' = given /\ at \in Int
      /\ Layout(dir, fmt)
  BY <1>1, Directive, SameDirective
<1>3. /\ padc = PadRead /\ altflag = dir.alt /\ lflag = 0 /\ ap = given
      /\ PadRead' = PadRead /\ WidthRead' = WidthRead /\ Limit' = Limit
  BY <1>1, <1>2 DEF ReadOK, PadRead, WidthRead, Limit
<1>4. dir.width \in 0 .. 99 /\ dir.alt \in BOOLEAN
  BY <1>2, Positions
<1>5. CASE /\ dir.width > 0 /\ width = -1
           /\ at \in FlagsEnd(dir) + 1 .. WidthEnds(dir)
           /\ precision = IF at = WidthEnds(dir) THEN dir.width
                          ELSE dir.width \div 10
  <2>1. at = WidthEnds(dir)
    <3> SUFFICES ASSUME at # WidthEnds(dir) PROVE FALSE
      OBVIOUS
    <3>1. dir.width > 9 /\ at = FlagsEnd(dir) + 1
      BY <1>2, <1>4, <1>5, Positions
    <3>2. ch = digits[(dir.width % 10) + 1]
      BY <1>2, <3>1 DEF Layout, ch
    <3>3. dir.width % 10 \in 0 .. 9
      BY <1>4, Z3
    <3> QED BY <1>1, <3>2, <3>3, DigitBack
  <2>2. width' = dir.width /\ precision' = -1
    BY <1>1, <1>5, <2>1 DEF Number
  <2>3. WidthRead = dir.width
    BY <1>2, <1>5, <2>1, Positions DEF WidthRead
  <2>4. /\ at >= FlagsEnd(dir) /\ at \in 2 .. ConvAt(dir)
        /\ at >= WidthEnds(dir) /\ at <= WidthEnds(dir)
    BY <1>2, <2>1, Positions
  <2>5. altflag = (dir.alt /\ at >= FlagsEnd(dir))
    BY <1>3, <1>4, <2>4
  <2> QED BY <1>1, <1>2, <1>3, <2>2, <2>3, <2>4, <2>5, Early DEF ReadOK
<1>6. CASE /\ dir.prec = "one" /\ at = PrecisionEnd(dir)
           /\ width = dir.width /\ precision = 1
  <2>1. width' = dir.width /\ precision' = 1
    BY <1>1, <1>4, <1>6 DEF Number
  <2>2. /\ at >= FlagsEnd(dir) /\ at \in 2 .. ConvAt(dir)
        /\ at >= WidthEnds(dir) /\ at > WidthEnds(dir)
        /\ at >= PrecisionEnd(dir) /\ ~(at > PrecisionEnd(dir))
        /\ dir.prec # "none" /\ dir.prec # "star"
    BY <1>2, <1>6, Positions
  <2>3. WidthRead = dir.width
    BY <1>2, <1>4, <2>2 DEF WidthRead
  <2>4. altflag = (dir.alt /\ at >= FlagsEnd(dir))
    BY <1>3, <1>4, <2>2
  <2>5. Limit = 1
    BY <1>6 DEF Limit
  <2> QED BY <1>1, <1>2, <1>3, <2>1, <2>2, <2>3, <2>4, <2>5 DEF ReadOK
<1> QED BY <1>1, <1>5, <1>6 DEF ReadOK

-----------------------------------------------------------------------------
(* What has been printed.                                                  *)

(* What the conversion of a number comes to.                               *)
Value == given[Len(given)]

Magnitude ==
  CASE dir.conv \in {"d", "e"} -> IF Value < 0 THEN -Value ELSE Value
    [] dir.conv = "p" -> Value % Modulus(INT_MAX)
    [] OTHER -> Value % Modulus(IF dir.longs = 2 THEN LLONG_MAX ELSE INT_MAX)

Radix ==
  CASE dir.conv \in {"d", "u", "e"} -> Decimal
    [] dir.conv = "o" -> Octal
    [] OTHER -> Hex

Sign ==
  CASE dir.conv = "d" -> IF Value < 0 THEN <<"-">> ELSE <<>>
    [] dir.conv = "p" -> <<"0", "x">>
    [] dir.conv = "e" -> IF Magnitude \in Ints(INT_MAX) THEN <<"error">>
                         ELSE <<"error", "-">>
    [] OTHER -> <<>>

(* printnum has printed the sign, and some of the last digits are waiting. *)
NumberRight ==
  /\ dir.conv \in {"d", "u", "o", "x", "p", "e"}
  /\ base = Radix /\ Taken(Magnitude, Radix, num, lower)
  /\ out = Sign
  /\ IF dir.conv = "e"
     THEN padc = SPACE /\ width + Len(lower) < 0
          /\ Magnitude \notin 1 .. MAXERROR - 1
     ELSE /\ padc = PadOf(dir)
          /\ \/ width + Len(lower) = dir.width
             \/ width + Len(lower) < 0 /\ dir.width = 0

(* Unknown, or cut off by the end of the format.                           *)
Strange == dir.conv \in {"z", NUL}

(* What has been printed, by the place in the format: of an unknown        *)
(* directive all the characters so far, of a known one its meaning.        *)
OutRight ==
  /\ fpc \in {"reswitch", "width"} => out = <<>>
  /\ fpc = "printnum" => at = ConvAt(dir) + 1 /\ NumberRight
  /\ fpc = "back" => Strange /\ out = <<"%">>
  /\ fpc = "text" =>
       \/ at = 1 /\ out = <<>>
       \/ /\ Strange /\ at > 1
          /\ Len(out) = at - 1 /\ \A i \in 1 .. at - 1 : out[i] = fmt[i]
       \/ ~Strange /\ at = ConvAt(dir) + 1 /\ out = Meaning(dir, given)
       \/ /\ ~Strange /\ at = ConvAt(dir) + 2
          /\ out = Meaning(dir, given) \o After(dir)
  /\ fpc = "done" => out = Meaning(dir, given) \o After(dir)

(* The inductive invariant of FormatsRight.                                *)
RInv == FInv /\ ReadOK /\ (Sensible(dir) => OutRight)

-----------------------------------------------------------------------------

(* A conversion is reached with all that is in front of it read.           *)
LEMMA AllRead ==
  ASSUME FInv, ReadOK, Reads("reswitch", Conversions)
  PROVE  /\ dir \in Directives /\ ch = dir.conv /\ ~Strange
         /\ at = ConvAt(dir)
         /\ Head(ap) = Value /\ Value \in ValuesOf(dir)
         /\ padc = IF dir.zero THEN "0" ELSE IF dir.minus THEN "-" ELSE SPACE
         /\ altflag = dir.alt
         /\ width = dir.width \/ (width < 0 /\ dir.width = 0)
         /\ width \in Int /\ dir.width \in 0 .. 99
         /\ precision = IF dir.prec = "none" THEN -1 ELSE Limit
         /\ lflag >= 2 <=> dir.longs = 2
<1>1. /\ dir \in Directives /\ fpc = "reswitch" /\ at \in Int
      /\ given \in ArgsOf(dir) /\ ch = dir.conv /\ ch \in Conversions
  BY Directive, TheValue DEF Reads
<1>2. ~Strange
  BY <1>1 DEF Strange, Conversions, NUL
<1>3. at = ConvAt(dir)
  <2>1. ch \notin {"-", "0", "#", ".", "1", "*", "l"} \cup DigitChars
    BY <1>1, Marks
  <2> QED BY <1>1, <2>1, Where
<1>4. /\ at >= FlagsEnd(dir) /\ at >= WidthEnds(dir) /\ at >= PrecisionEnd(dir)
      /\ dir.prec # "none" => at > WidthEnds(dir)
      /\ dir.width \in 0 .. 99 /\ dir.alt \in BOOLEAN
  BY <1>1, <1>3, Positions
<1>5. Head(ap) = Value /\ Value \in ValuesOf(dir)
  <2>1. ap = IF dir.prec = "star" THEN Tail(given) ELSE given
    BY <1>1, <1>4 DEF ReadOK
  <2>2. CASE dir.prec = "star"
    <3>1. PICK k \in {0, 2}, v \in ValuesOf(dir) : given = <<k, v>>
      BY <1>1, <2>2 DEF ArgsOf
    <3>2. Tail(given) = <<v>> /\ Value = v
      BY <3>1 DEF Value
    <3>3. Head(<<v>>) = v
      OBVIOUS
    <3>4. ap = <<v>>
      BY <2>1, <2>2, <3>2
    <3> QED BY <3>1, <3>2, <3>3, <3>4
  <2>3. CASE dir.prec # "star"
    <3>1. PICK v \in ValuesOf(dir) : given = <<v>>
      BY <1>1, <2>3 DEF ArgsOf
    <3>2. Value = v
      BY <3>1 DEF Value
    <3> QED BY <2>1, <2>3, <3>1, <3>2
  <2> QED BY <2>2, <2>3
<1>6. padc = IF dir.zero THEN "0" ELSE IF dir.minus THEN "-" ELSE SPACE
  <2>1. /\ dir.zero => at > 2 + Bit(dir.minus)
        /\ dir.minus => at > 2
    BY <1>1, <1>4, Positions DEF Bit
  <2> QED BY <1>1, <2>1 DEF ReadOK, PadRead
<1>7. altflag = dir.alt
  <2>1. altflag = (dir.alt /\ at >= FlagsEnd(dir))
    BY <1>1 DEF ReadOK
  <2> QED BY <1>4, <2>1
<1>8. (width = dir.width \/ (width < 0 /\ dir.width = 0)) /\ width \in Int
  <2>1. width = WidthRead
    BY <1>1 DEF ReadOK
  <2>2. width = IF dir.width > 0 THEN dir.width
                ELSE IF dir.prec # "none" THEN 0 ELSE -1
    BY <1>4, <2>1 DEF WidthRead
  <2> QED BY <1>4, <2>2
<1>9. precision = IF dir.prec = "none" THEN -1 ELSE Limit
  BY <1>1, <1>4 DEF ReadOK
<1>10. lflag >= 2 <=> dir.longs = 2
  <2>1. lflag = IF at > PrecisionEnd(dir) THEN at - PrecisionEnd(dir) ELSE 0
    BY <1>1 DEF ReadOK
  <2>2. at = PrecisionEnd(dir) + dir.longs /\ dir.longs \in 0 .. 2
        /\ PrecisionEnd(dir) \in Int
    BY <1>1, <1>3, Positions
  <2> QED BY <2>1, <2>2
<1> QED BY <1>1, <1>2, <1>3, <1>4, <1>5, <1>6, <1>7, <1>8, <1>9, <1>10

(* Padding of no characters or of less is the same.                        *)
LEMMA SameTimes ==
  ASSUME NEW i \in Int, NEW j \in Int, i = j \/ (i <= 0 /\ j <= 0), NEW y
  PROVE  Times(y, i) = Times(y, j)
BY DEF Times

(* The values of numbers are within their types.                           *)
LEMMA NumberValue ==
  ASSUME FInv, dir.conv \in {"d", "u", "o", "x", "p", "e"},
         Value \in ValuesOf(dir)
  PROVE  /\ Value \in Ints(LLONG_MAX) /\ Magnitude \in Nat
         /\ dir.conv = "e" => Value \in Ints(INT_MAX)
         /\ Radix \in {Octal, Decimal, Hex} /\ Radix \in Nat /\ Radix > 1
<1>1. /\ INT_MAX \in Nat /\ LLONG_MAX \in Nat /\ INT_MAX < LLONG_MAX
      /\ ErrorArgs \subseteq Ints(INT_MAX)
  BY PrintfmtAssumption
<1>2. Ints(INT_MAX) \subseteq Ints(LLONG_MAX) /\ Ints(LLONG_MAX) \subseteq Int
  BY <1>1 DEF Ints
<1>3. /\ Value \in Ints(LLONG_MAX) /\ Value \in Int
      /\ dir.conv = "e" => Value \in Ints(INT_MAX)
  <2>1. CASE dir.conv = "e"
    BY <1>1, <1>2, <2>1 DEF ValuesOf
  <2>2. CASE dir.conv = "p"
    BY <1>2, <2>2 DEF ValuesOf
  <2>3. CASE dir.conv \in {"d", "u", "o", "x"}
    BY <1>2, <2>3 DEF ValuesOf
  <2> QED BY <2>1, <2>2, <2>3
<1>4. Magnitude \in Nat
  <2>1. /\ Value % Modulus(INT_MAX) \in Nat
        /\ Value % Modulus(IF dir.longs = 2 THEN LLONG_MAX ELSE INT_MAX) \in Nat
    BY <1>3, Unsigned
  <2> HIDE DEF Value, Modulus
  <2> QED BY <1>3, <2>1 DEF Magnitude
<1>5. Radix \in {Octal, Decimal, Hex} /\ Radix \in Nat /\ Radix > 1
  BY PrintfmtAssumption DEF Radix
<1> QED BY <1>3, <1>4, <1>5

(* What a number is to print is its sign and its padded numeral.           *)
LEMMA MeaningOfNumber ==
  ASSUME dir.conv \in {"d", "u", "o", "x", "p", "e"},
         dir.conv = "e" => Magnitude \notin 1 .. MAXERROR - 1,
         Numeral(Magnitude, Radix) \in Seq(Symbols),
         Times(PadOf(dir), dir.width - Len(Numeral(Magnitude, Radix)))
           \in Seq(Symbols)
  PROVE  Meaning(dir, given) =
           Sign \o (IF dir.conv = "e" THEN Numeral(Magnitude, Radix)
                    ELSE PadLeft(Numeral(Magnitude, Radix), dir.width,
                                 PadOf(dir)))
<1> DEFINE n == Numeral(Magnitude, Radix)
           t == PadLeft(n, dir.width, PadOf(dir))
<1>1. t \in Seq(Symbols)
  BY ConcatProperties DEF PadLeft
<1>2. <<>> \o t = t
  BY <1>1, ConcatEmptySeq
<1>3. CASE dir.conv = "d"
  BY <1>3, Zenon DEF Meaning, Sign, Magnitude, Radix, Value
<1>4. CASE dir.conv \in {"u", "o", "x"}
  BY <1>2, <1>4 DEF Meaning, Sign, Magnitude, Radix, Value
<1>5. CASE dir.conv = "p"
  BY <1>5 DEF Meaning, Sign, Magnitude, Radix, Value
<1>6. CASE dir.conv = "e"
  BY <1>6 DEF Meaning, Sign, Magnitude, Radix, Value
<1> QED BY <1>3, <1>4, <1>5, <1>6

-----------------------------------------------------------------------------

(* A conversion finds nothing printed, and prints its meaning.             *)
LEMMA NoneYet ==
  ASSUME FInv, ReadOK, OutRight, Reads("reswitch", Conversions),
         NEW s \in Seq(Symbols), putch(s), UNCHANGED input
  PROVE  out' = s /\ dir' = dir /\ given' = given /\ fmt' = fmt
<1>1. out = <<>> /\ out' = out \o s
  BY DEF OutRight, Reads, putch, cprintf_putch
<1>2. out' = s
  BY <1>1, ConcatEmptySeq
<1> QED BY <1>2, SameDirective

LEMMA ConvertRight ==
  ASSUME FInv, ReadOK, OutRight, Reads("reswitch", Conversions),
         NEW s \in Seq(Symbols), Convert(s), s = Meaning(dir, given)
  PROVE  OutRight'
<1>1. putch(s) /\ at' = at + 1 /\ fpc' = "text" /\ UNCHANGED input
  BY DEF Convert
<1>2. out' = s /\ dir' = dir /\ given' = given
  BY <1>1, NoneYet
<1>3. at = ConvAt(dir) /\ ~Strange
  BY AllRead
<1> QED BY <1>1, <1>2, <1>3 DEF OutRight, Strange

LEMMA CharRight ==
  ASSUME FInv, ReadOK, OutRight, CharConv \/ EscapedPercent
  PROVE  OutRight'
<1>1. CASE CharConv
  <2>1. Reads("reswitch", Conversions) /\ ch = "c" /\ Convert(<<Head(ap)>>)
    BY <1>1 DEF CharConv, Reads, Conversions
  <2>2. <<Head(ap)>> \in Seq(Symbols)
    BY <2>1, TheValue
  <2>3. Meaning(dir, given) = <<Head(ap)>>
    <3>1. dir.conv = "c" /\ Head(ap) = Value
      BY <2>1, AllRead
    <3> QED BY <3>1 DEF Meaning, Value
  <2> QED BY <2>1, <2>2, <2>3, ConvertRight
<1>2. CASE EscapedPercent
  <2>1. Reads("reswitch", Conversions) /\ ch = "%" /\ Convert(<<"%">>)
    BY <1>2 DEF EscapedPercent, Reads, Conversions
  <2>2. Meaning(dir, given) = <<"%">>
    <3>1. dir.conv = "%"
      BY <2>1, AllRead
    <3> QED BY <3>1 DEF Meaning
  <2> QED BY <2>1, <2>2, SymbolSeqs, ConvertRight
<1> QED BY <1>1, <1>2

(* Before its first digit is taken off a number is whole.                  *)
LEMMA NumberBegins ==
  ASSUME FInv, ReadOK, OutRight, Reads("reswitch", Conversions),
         dir.conv \in {"d", "u", "o", "x", "p", "e"},
         ConvertNumber(Sign, Magnitude, Radix), Sign \in Seq(Symbols),
         IF dir.conv = "e"
         THEN padc' = SPACE /\ width' = -1 /\ Magnitude \notin 1 .. MAXERROR - 1
         ELSE UNCHANGED <<padc, width>>,
         Sensible(dir)
  PROVE  OutRight'
<1>1. /\ putch(Sign) /\ at' = at + 1 /\ fpc' = "printnum" /\ UNCHANGED input
      /\ num' = Magnitude /\ base' = Radix /\ lower' = <<>>
  BY DEF ConvertNumber
<1>2. out' = Sign /\ dir' = dir /\ given' = given
  BY <1>1, NoneYet
<1>3. /\ dir \in Directives /\ at = ConvAt(dir)
      /\ Value \in ValuesOf(dir)
      /\ padc = IF dir.zero THEN "0" ELSE IF dir.minus THEN "-" ELSE SPACE
      /\ width = dir.width \/ (width < 0 /\ dir.width = 0)
      /\ width \in Int
  BY AllRead
<1>4. Sign' = Sign /\ Magnitude' = Magnitude /\ Radix' = Radix
  BY <1>2 DEF Sign, Magnitude, Radix, Value
<1>5. Taken(Magnitude, Radix, Magnitude, <<>>)
  BY <1>3, NumberValue, NothingTaken
<1>6. Len(lower') = 0
  BY <1>1
<1>7. CASE dir.conv = "e"
  BY <1>1, <1>2, <1>3, <1>4, <1>5, <1>6, <1>7 DEF OutRight, NumberRight
<1>8. CASE dir.conv # "e"
  <2>1. ~dir.minus
    BY <1>8 DEF Sensible
  <2>2. padc' = PadOf(dir) /\ width' = width
    BY <1>3, <1>8, <2>1 DEF PadOf
  <2>3. width' + Len(lower') = width
    BY <1>3, <1>6, <2>2
  <2>4. NumberRight'
    BY <1>1, <1>2, <1>3, <1>4, <1>5, <1>8, <2>2, <2>3 DEF NumberRight
  <2> QED BY <1>1, <1>2, <1>3, <2>4 DEF OutRight
<1> QED BY <1>7, <1>8

(* The absolute value of a long long fits its unsigned counterpart.        *)
LEMMA Negated ==
  ASSUME NEW v \in Ints(LLONG_MAX), v < 0
  PROVE  (-v) % Modulus(LLONG_MAX) = -v
<1>1. LLONG_MAX \in Nat
  BY PrintfmtAssumption
<1>2. -v \in Nat /\ -v < Modulus(LLONG_MAX) /\ Modulus(LLONG_MAX) \in Nat
  BY <1>1 DEF Ints, Modulus
<1> HIDE DEF Modulus
<1> QED BY <1>2

(* The sign is printed, and the magnitude handed to printnum.              *)
LEMMA NumbersRight ==
  ASSUME FInv, ReadOK, OutRight, Sensible(dir),
         SignedConv \/ UnsignedConv \/ PointerConv
  PROVE  OutRight'
<1>1. CASE SignedConv
  <2>1. /\ Reads("reswitch", Conversions) /\ ch = "d"
        /\ ConvertSigned(<<>>, Head(ap)) /\ UNCHANGED <<padc, width>>
    BY <1>1 DEF SignedConv, Reads, Conversions
  <2>2. dir.conv = "d" /\ Head(ap) = Value /\ Value \in ValuesOf(dir)
    BY <2>1, AllRead
  <2>3. Value \in Ints(LLONG_MAX)
    BY <2>2, NumberValue
  <2>4. Radix = Decimal
    BY <2>2 DEF Radix
  <2>5. CASE Value < 0
    <3>1. ConvertNumber(<<>> \o <<"-">>, (-Value) % Modulus(LLONG_MAX), Decimal)
      BY <2>1, <2>2, <2>5 DEF ConvertSigned
    <3>2. <<>> \o <<"-">> = <<"-">>
      BY SymbolSeqs, ConcatEmptySeq
    <3>3. Sign = <<"-">> /\ Magnitude = -Value
      BY <2>2, <2>5 DEF Sign, Magnitude
    <3>4. ConvertNumber(Sign, Magnitude, Radix)
      BY <2>3, <2>4, <2>5, <3>1, <3>2, <3>3, Negated, Zenon
    <3> QED BY <2>1, <2>2, <3>3, <3>4, SymbolSeqs, NumberBegins
  <2>6. CASE ~(Value < 0)
    <3>1. ConvertNumber(<<>>, Value, Decimal)
      BY <2>1, <2>2, <2>6 DEF ConvertSigned
    <3>2. Sign = <<>> /\ Magnitude = Value
      BY <2>2, <2>6 DEF Sign, Magnitude
    <3>3. ConvertNumber(Sign, Magnitude, Radix)
      BY <2>4, <3>1, <3>2, Zenon
    <3> QED BY <2>1, <2>2, <3>2, <3>3, SymbolSeqs, NumberBegins
  <2> QED BY <2>5, <2>6
<1>2. CASE UnsignedConv
  <2>1. /\ Reads("reswitch", Conversions) /\ ch \in {"u", "o", "x"}
        /\ ConvertNumber(<<>>, getuint(Head(ap)),
                         CASE ch = "u" -> Decimal [] ch = "o" -> Octal
                           [] ch = "x" -> Hex)
        /\ UNCHANGED <<padc, width>>
    BY <1>2 DEF UnsignedConv, Reads, Conversions
  <2>2. /\ dir.conv \in {"u", "o", "x"} /\ ch = dir.conv /\ Head(ap) = Value
        /\ (lflag >= 2 <=> dir.longs = 2)
    BY <2>1, AllRead
  <2>3. (CASE ch = "u" -> Decimal [] ch = "o" -> Octal
           [] ch = "x" -> Hex) = Radix
    BY <2>2 DEF Radix
  <2>4. getuint(Head(ap)) = Magnitude
    BY <2>2 DEF getuint, Magnitude
  <2>5. Sign = <<>>
    BY <2>2 DEF Sign
  <2>6. ConvertNumber(Sign, Magnitude, Radix)
    BY <2>1, <2>3, <2>4, <2>5, Zenon
  <2> QED BY <2>1, <2>2, <2>5, <2>6, SymbolSeqs, NumberBegins
<1>3. CASE PointerConv
  <2>1. /\ Reads("reswitch", Conversions) /\ ch = "p"
        /\ ConvertNumber(<<"0", "x">>, Head(ap) % Modulus(INT_MAX), Hex)
        /\ UNCHANGED <<padc, width>>
    BY <1>3 DEF PointerConv, Reads, Conversions
  <2>2. dir.conv = "p" /\ Head(ap) = Value
    BY <2>1, AllRead
  <2>3. /\ Sign = <<"0", "x">> /\ Radix = Hex
        /\ Magnitude = Value % Modulus(INT_MAX)
    BY <2>2 DEF Sign, Magnitude, Radix
  <2>4. ConvertNumber(Sign, Magnitude, Radix)
    BY <2>1, <2>2, <2>3, Zenon
  <2> QED BY <2>1, <2>2, <2>3, <2>4, SymbolSeqs, NumberBegins
<1> QED BY <1>1, <1>2, <1>3

(* Two characters, one behind the other.                                   *)
LEMMA Pair ==
  ASSUME NEW S, NEW x \in S, NEW y \in S
  PROVE  <<x>> \o <<y>> = <<x, y>>
<1> DEFINE s == <<x>>
           t == <<y>>
           u == <<x, y>>
<1>1. /\ s \in Seq(S) /\ Len(s) = 1 /\ s[1] = x
      /\ t \in Seq(S) /\ Len(t) = 1 /\ t[1] = y
      /\ u \in Seq(S) /\ Len(u) = 2 /\ u[1] = x /\ u[2] = y
  OBVIOUS
<1> HIDE DEF s, t, u
<1>2. /\ s \o t \in Seq(S) /\ Len(s \o t) = 2
      /\ \A i \in 1 .. 2 : (s \o t)[i] = IF i <= 1 THEN s[i] ELSE t[i - 1]
  <2>1. /\ s \o t \in Seq(S) /\ Len(s \o t) = Len(s) + Len(t)
        /\ \A i \in 1 .. Len(s) + Len(t) :
             (s \o t)[i] = IF i <= Len(s) THEN s[i] ELSE t[i - Len(s)]
    BY <1>1, ConcatProperties
  <2> QED BY <1>1, <2>1
<1>3. \A i \in 1 .. 2 : (s \o t)[i] = u[i]
  BY <1>1, <1>2
<1>4. s \o t = u
  BY <1>1, <1>2, <1>3, SeqEqual
<1> QED BY <1>4 DEF s, t, u

(* An error number has a message, or is printed without its sign, but for  *)
(* the least int.                                                          *)
LEMMA ErrorRight ==
  ASSUME FInv, ReadOK, OutRight, Sensible(dir), ErrorConv
  PROVE  OutRight'
<1> DEFINE err == IF Head(ap) < 0 /\ -Head(ap) \in Ints(INT_MAX)
                  THEN -Head(ap) ELSE Head(ap)
<1>1. /\ Reads("reswitch", Conversions) /\ ch = "e"
      /\ IF err \in 1 .. MAXERROR - 1
         THEN Convert(<<"message", digits[err + 1]>>)
         ELSE /\ ConvertSigned(<<"error">>, err)
              /\ padc' = SPACE /\ width' = -1
  BY DEF ErrorConv, Reads, Conversions
<1>2. dir.conv = "e" /\ Head(ap) = Value /\ Value \in ValuesOf(dir)
  BY <1>1, AllRead
<1>3. Value \in Ints(INT_MAX) /\ Value \in Ints(LLONG_MAX)
  BY <1>2, NumberValue
<1>4. /\ INT_MAX \in Nat /\ MAXERROR \in 0 .. INT_MAX /\ MAXERROR <= 16
  BY PrintfmtAssumption
<1>5. /\ err = IF Value < 0 /\ -Value \in Ints(INT_MAX) THEN -Value ELSE Value
      /\ Magnitude = IF Value < 0 THEN -Value ELSE Value
      /\ Radix = Decimal
  BY <1>2 DEF Magnitude, Radix
<1> HIDE DEF err
<1>6. \/ err = Magnitude /\ err >= 0 /\ err \in Ints(INT_MAX)
      \/ /\ err = Value /\ Value < 0 /\ Magnitude = -Value
         /\ Magnitude \notin Ints(INT_MAX) /\ Magnitude \notin 1 .. MAXERROR - 1
         /\ err \notin 1 .. MAXERROR - 1
  BY <1>3, <1>4, <1>5 DEF Ints
<1>7. CASE err \in 1 .. MAXERROR - 1
  <2>1. err = Magnitude
    BY <1>6, <1>7
  <2>2. err + 1 \in 1 .. 16
    BY <1>4, <1>7
  <2>3. <<"message", digits[err + 1]>> \in Seq(Symbols)
    BY <2>2, DigitFacts, SymbolFacts
  <2>4. Meaning(dir, given) = <<"message", digits[Magnitude + 1]>>
    <3>1. (IF Value < 0 THEN -Value ELSE Value) \in 1 .. MAXERROR - 1
      BY <1>5, <1>7, <2>1
    <3>2. Meaning(dir, given)
            = <<"message", digits[(IF Value < 0 THEN -Value ELSE Value) + 1]>>
      BY <1>2, <3>1 DEF Meaning, Value
    <3> QED BY <1>5, <3>2
  <2> QED BY <1>1, <1>7, <2>1, <2>3, <2>4, ConvertRight
<1>8. CASE err \notin 1 .. MAXERROR - 1
  <2>1. ConvertSigned(<<"error">>, err) /\ padc' = SPACE /\ width' = -1
    BY <1>1, <1>8
  <2>2. Magnitude \notin 1 .. MAXERROR - 1
    BY <1>6, <1>8
  <2>3. Sign = IF Magnitude \in Ints(INT_MAX) THEN <<"error">>
               ELSE <<"error", "-">>
    BY <1>2 DEF Sign
  <2>4. CASE err = Magnitude /\ err >= 0 /\ err \in Ints(INT_MAX)
    <3>1. Sign = <<"error">>
      BY <2>3, <2>4
    <3>2. ~(err < 0)
      BY <1>4, <2>4 DEF Ints
    <3>3. ConvertNumber(<<"error">>, err, Decimal)
      BY <2>1, <3>2 DEF ConvertSigned
    <3>4. ConvertNumber(Sign, Magnitude, Radix)
      BY <1>5, <2>4, <3>1, <3>3, Zenon
    <3> QED BY <1>1, <1>2, <2>1, <2>2, <3>1, <3>4, SymbolSeqs, NumberBegins
  <2>5. CASE /\ err = Value /\ Value < 0 /\ Magnitude = -Value
             /\ Magnitude \notin Ints(INT_MAX)
    <3>1. <<"error">> \o <<"-">> = <<"error", "-">>
      BY SymbolFacts, Pair
    <3>2. Sign = <<"error">> \o <<"-">>
      BY <2>3, <2>5, <3>1
    <3>3. ConvertNumber(<<"error">> \o <<"-">>, (-Value) % Modulus(LLONG_MAX),
                        Decimal)
      BY <2>1, <2>5 DEF ConvertSigned
    <3>4. (-Value) % Modulus(LLONG_MAX) = -Value
      BY <1>3, <2>5, Negated
    <3>5. ConvertNumber(Sign, Magnitude, Radix)
      BY <1>5, <2>5, <3>2, <3>3, <3>4, Zenon
    <3>6. Sign \in Seq(Symbols)
      BY <3>2, SymbolSeqs
    <3> QED BY <1>1, <1>2, <2>1, <2>2, <3>5, <3>6, NumberBegins
  <2> QED BY <1>6, <2>4, <2>5
<1> QED BY <1>7, <1>8

(* The characters of s within the limit, as %s shows them.                 *)
Cut(s, limit, alt) ==
  [k \in {i \in DOMAIN s : i <= limit} |->
     IF alt /\ s[k] = "ctl" THEN "?" ELSE s[k]]

(* The first m characters of s are those within the limit.                 *)
LEMMA CutIs ==
  ASSUME NEW s \in Seq(Symbols), NEW limit \in Nat,
         NEW m \in Nat, m = IF Len(s) < limit THEN Len(s) ELSE limit
  PROVE  /\ Shown(SubSeq(s, 1, m)) = Cut(s, limit, altflag)
         /\ Cut(s, limit, altflag) \in Seq(Symbols)
         /\ Len(Cut(s, limit, altflag)) = m
         /\ Len(SubSeq(s, 1, m)) = m
<1> DEFINE u == SubSeq(s, 1, m)
           z == Cut(s, limit, altflag)
<1>1. /\ Len(s) \in Nat /\ DOMAIN s = 1 .. Len(s)
      /\ \A k \in 1 .. Len(s) : s[k] \in Symbols
  BY LenProperties, ElementOfSeq
<1>2. m <= Len(s) /\ {i \in 1 .. Len(s) : i <= limit} = 1 .. m
  <2>1. Len(s) \in Nat
    BY <1>1
  <2>2. m <= Len(s) /\ (m = limit \/ (m = Len(s) /\ m <= limit)) /\ m <= limit
    BY <2>1
  <2>3. \A i : i \in {j \in 1 .. Len(s) : j <= limit} <=> i \in 1 .. m
    BY <2>1, <2>2
  <2> QED BY <2>2, <2>3, SetExtensionality
<1>3. /\ u \in Seq(Symbols) /\ Len(u) = m /\ DOMAIN u = 1 .. m
      /\ \A k \in 1 .. m : u[k] = s[k]
  <2>1. \A i \in 1 .. m : s[i] \in Symbols
    BY <1>1, <1>2
  <2>2. /\ u \in Seq(Symbols) /\ Len(u) = IF 1 <= m THEN m - 1 + 1 ELSE 0
        /\ \A i \in 1 .. m - 1 + 1 : u[i] = s[1 + i - 1]
    BY <2>1, SubSeqProperties
  <2> HIDE DEF u
  <2>3. Len(u) = m
    BY <2>2
  <2>4. \A k \in 1 .. m : u[k] = s[k]
    <3> TAKE k \in 1 .. m
    <3>1. k \in 1 .. m - 1 + 1 /\ 1 + k - 1 = k
      OBVIOUS
    <3> QED BY <2>2, <3>1
  <2>5. DOMAIN u = 1 .. m
    BY <2>2, <2>3, LenProperties
  <2> QED BY <2>2, <2>3, <2>4, <2>5
<1> HIDE DEF u
<1>4. z = [k \in 1 .. m |-> IF altflag /\ s[k] = "ctl" THEN "?" ELSE s[k]]
  BY <1>1, <1>2 DEF Cut
<1>5. Shown(u) = z
  BY <1>3, <1>4 DEF Shown
<1>6. z \in [1 .. m -> Symbols]
  <2>1. \A k \in 1 .. m :
          (IF altflag /\ s[k] = "ctl" THEN "?" ELSE s[k]) \in Symbols
    BY <1>1, <1>2, SymbolFacts
  <2> HIDE DEF z
  <2> QED BY <1>4, <2>1
<1> HIDE DEF z
<1>7. z \in Seq(Symbols) /\ Len(z) = m
  BY <1>6
<1> QED BY <1>3, <1>5, <1>7 DEF u, z

(* A precision is the most characters of a string to show.                 *)
LEMMA LimitIs ==
  ASSUME NEW g \in ArgsOf(dir), g = given, dir \in Directives,
         NEW s \in Seq(Symbols),
         precision = IF dir.prec = "none" THEN -1 ELSE Limit
  PROVE  LET limit == CASE dir.prec = "none" -> Len(s) [] dir.prec = "one" -> 1
                        [] dir.prec = "star" -> given[1]
             m == strnlen(s, precision)
         IN  /\ limit \in Nat /\ m \in Nat
             /\ m = IF Len(s) < limit THEN Len(s) ELSE limit
<1>1. dir.prec \in {"none", "one", "star"} /\ Len(s) \in Nat
  BY PrintfmtAssumption, LenProperties
<1>2. CASE dir.prec = "none"
  BY <1>1, <1>2 DEF strnlen
<1>3. CASE dir.prec = "one"
  BY <1>1, <1>3 DEF strnlen, Limit
<1>4. CASE dir.prec = "star"
  <2>1. PICK k \in {0, 2}, v \in ValuesOf(dir) : given = <<k, v>>
    BY <1>4 DEF ArgsOf
  <2>2. given[1] = k
    BY <2>1
  <2> QED BY <1>1, <1>4, <2>2 DEF strnlen, Limit
<1> QED BY <1>1, <1>2, <1>3, <1>4

(* A string is cut to its precision, then padded to the width.             *)
LEMMA StringRight ==
  ASSUME FInv, ReadOK, OutRight, Sensible(dir), StringConv
  PROVE  OutRight'
<1> DEFINE p == IF Value = NULL THEN <<"(null)">> ELSE Value
           m == strnlen(p, precision)
           shown == SubSeq(p, 1, m)
           seen == Shown(shown)
           left == Times(padc, width - Len(shown)) \o seen
           right == seen \o Times(SPACE, width - Len(shown))
           limit == CASE dir.prec = "none" -> Len(p) [] dir.prec = "one" -> 1
                      [] dir.prec = "star" -> given[1]
           cut == Cut(p, limit, dir.alt)
<1>1. Reads("reswitch", Conversions) /\ ch = "s"
  BY DEF StringConv, Reads, Conversions
<1>2. /\ dir \in Directives /\ dir.conv = "s"
      /\ Head(ap) = Value
      /\ padc = IF dir.zero THEN "0" ELSE IF dir.minus THEN "-" ELSE SPACE
      /\ altflag = dir.alt
      /\ width = dir.width \/ (width < 0 /\ dir.width = 0)
      /\ width \in Int /\ dir.width \in 0 .. 99
      /\ precision = IF dir.prec = "none" THEN -1 ELSE Limit
  BY <1>1, AllRead
<1>3. IF padc # "-" THEN Convert(left) ELSE Convert(right)
  BY <1>2 DEF StringConv
<1>4. p \in Seq(Symbols)
  <2>1. Value = NULL \/ Value \in Seq(Symbols)
    BY <1>1, <1>2, TheValue
  <2> QED BY <2>1, SymbolSeqs
<1>5. Meaning(dir, given)
        = IF dir.minus THEN PadRight(cut, dir.width)
                       ELSE PadLeft(cut, dir.width, PadOf(dir))
  BY <1>2 DEF Meaning, Value, Cut
<1> HIDE DEF p
<1>6. limit \in Nat /\ m \in Nat /\ m = IF Len(p) < limit THEN Len(p) ELSE limit
  BY <1>2, <1>4, Directive, LimitIs
<1> HIDE DEF m, limit
<1>7. seen = cut /\ cut \in Seq(Symbols) /\ Len(cut) = m /\ Len(shown) = m
  BY <1>2, <1>4, <1>6, CutIs
<1> HIDE DEF cut, seen, shown
<1>8. (padc # "-" <=> ~dir.minus) /\ (~dir.minus => padc = PadOf(dir))
  BY <1>2 DEF Sensible, PadOf, SPACE
<1>9. \A y : Times(y, width - Len(shown)) = Times(y, dir.width - Len(cut))
  <2>1. /\ m \in Nat /\ width \in Int /\ dir.width \in 0 .. 99
        /\ width = dir.width \/ (width < 0 /\ dir.width = 0)
    BY <1>2, <1>6, Zenon
  <2>2. /\ width - m \in Int /\ dir.width - m \in Int
        /\ width - m = dir.width - m \/ (width - m <= 0 /\ dir.width - m <= 0)
    BY <2>1
  <2> QED BY <1>7, <2>2, SameTimes
<1>10. \A y \in Symbols : Times(y, dir.width - Len(cut)) \in Seq(Symbols)
  <2>1. dir.width - Len(cut) \in Int
    BY <1>2, <1>6, <1>7
  <2> QED BY <2>1, TimesIs
<1>11. CASE dir.minus
  <2>1. Convert(right)
    BY <1>3, <1>8, <1>11
  <2>2. right = PadRight(cut, dir.width)
    BY <1>7, <1>9, Zenon DEF PadRight
  <2>3. right \in Seq(Symbols)
    BY <1>7, <1>10, <2>2, SymbolFacts, ConcatProperties DEF PadRight
  <2>4. right = Meaning(dir, given)
    BY <1>5, <1>11, <2>2
  <2> HIDE DEF right
  <2> QED BY <1>1, <2>1, <2>3, <2>4, SymbolFacts, ConvertRight
<1>12. CASE ~dir.minus
  <2>1. Convert(left)
    BY <1>3, <1>8, <1>12
  <2>2. left = PadLeft(cut, dir.width, PadOf(dir))
    BY <1>7, <1>8, <1>9, <1>12, Zenon DEF PadLeft
  <2>3. left \in Seq(Symbols)
    <3>1. PadOf(dir) \in Symbols
      BY SymbolFacts DEF PadOf
    <3> QED BY <1>7, <1>10, <2>2, <3>1, ConcatProperties DEF PadLeft
  <2>4. left = Meaning(dir, given)
    BY <1>5, <1>12, <2>2
  <2> HIDE DEF left
  <2> QED BY <1>1, <2>1, <2>3, <2>4, ConvertRight
<1> QED BY <1>11, <1>12

(* The value is the last argument.                                         *)
LEMMA ValueThere ==
  ASSUME FInv
  PROVE  Value \in ValuesOf(dir)
<1>1. given \in ArgsOf(dir)
  BY DEF FInv, InputOK
<1>2. CASE dir.prec = "star"
  <2>1. PICK k \in {0, 2}, v \in ValuesOf(dir) : given = <<k, v>>
    BY <1>1, <1>2 DEF ArgsOf
  <2> QED BY <2>1 DEF Value
<1>3. CASE dir.prec # "star"
  <2>1. PICK v \in ValuesOf(dir) : given = <<v>>
    BY <1>1, <1>3 DEF ArgsOf
  <2> QED BY <2>1 DEF Value
<1> QED BY <1>2, <1>3

(* A digit taken off makes the number shorter and the padding too.         *)
LEMMA HigherRight ==
  ASSUME FInv, OutRight, PrintHigher
  PROVE  OutRight'
<1> DEFINE e == digits[(num % base) + 1]
<1>1. /\ fpc = "printnum" /\ num >= base /\ num' = num \div base
      /\ width' = width - 1 /\ lower' = <<e>> \o lower
      /\ UNCHANGED <<at, padc, base, fpc>> /\ UNCHANGED out /\ UNCHANGED input
  BY DEF PrintHigher, sink
<1>2. at = ConvAt(dir) + 1 /\ NumberRight
  BY <1>1 DEF OutRight
<1>3. /\ dir.conv \in {"d", "u", "o", "x", "p", "e"}
      /\ base = Radix /\ Taken(Magnitude, Radix, num, lower) /\ out = Sign
      /\ IF dir.conv = "e"
         THEN padc = SPACE /\ width + Len(lower) < 0
              /\ Magnitude \notin 1 .. MAXERROR - 1
         ELSE /\ padc = PadOf(dir)
              /\ \/ width + Len(lower) = dir.width
                 \/ width + Len(lower) < 0 /\ dir.width = 0
  BY <1>2 DEF NumberRight
<1>4. /\ num \in Nat /\ base \in {Octal, Decimal, Hex} /\ lower \in Seq(Symbols)
      /\ width \in Int
  BY DEF FInv, NumberOK, FlagsOK
<1>5. e \in Symbols
  BY <1>4, DigitOfNumber
<1> HIDE DEF e
<1>6. dir' = dir /\ given' = given
  BY <1>1, SameDirective
<1>7. Sign' = Sign /\ Magnitude' = Magnitude /\ Radix' = Radix
  BY <1>6 DEF Sign, Magnitude, Radix, Value
<1>8. width' + Len(lower') = width + Len(lower)
  <2>1. Len(<<e>> \o lower) = Len(<<e>>) + Len(lower) /\ Len(<<e>>) = 1
    <3>1. <<e>> \in Seq(Symbols) /\ Len(<<e>>) = 1
      BY <1>5
    <3> QED BY <1>4, <3>1, ConcatProperties
  <2>2. Len(lower) \in Nat
    BY <1>4, LenProperties
  <2> QED BY <1>1, <1>4, <2>1, <2>2
<1>9. Taken(Magnitude, Radix, num', lower')
  <2>1. Magnitude \in Nat /\ Radix \in Nat /\ Radix > 1
    BY <1>3, ValueThere, NumberValue
  <2>2. /\ Taken(Magnitude, Radix, num, lower) /\ num >= Radix
        /\ digits[(num % Radix) + 1] \in Symbols
    BY <1>1, <1>3, <1>5 DEF e
  <2>3. Taken(Magnitude, Radix, num \div Radix,
              <<digits[(num % Radix) + 1]>> \o lower)
    BY <1>4, <2>1, <2>2, OneTaken
  <2> QED BY <1>1, <1>3, <2>3, Zenon DEF e
<1>10. NumberRight'
  <2>1. IF dir.conv = "e"
        THEN padc' = SPACE /\ width' + Len(lower') < 0
             /\ Magnitude \notin 1 .. MAXERROR - 1
        ELSE /\ padc' = PadOf(dir)
             /\ \/ width' + Len(lower') = dir.width
                \/ width' + Len(lower') < 0 /\ dir.width = 0
    BY <1>1, <1>3, <1>8
  <2>2. /\ base' = Radix' /\ Taken(Magnitude', Radix', num', lower')
        /\ out' = Sign'
    BY <1>1, <1>3, <1>7, <1>9
  <2> QED BY <1>3, <1>6, <1>7, <2>1, <2>2 DEF NumberRight
<1>11. at' = ConvAt(dir') + 1 /\ fpc' = "printnum"
  BY <1>1, <1>2, <1>6
<1> QED BY <1>10, <1>11 DEF OutRight

(* The first digit is printed with the padding, and the waiting ones.      *)
LEMMA DigitsRight ==
  ASSUME FInv, OutRight, PrintDigits
  PROVE  OutRight'
<1> DEFINE e == digits[(num % base) + 1]
           n == Numeral(Magnitude, Radix)
           pad == Times(padc, width - 1)
           t == pad \o <<e>> \o lower
<1>1. /\ fpc = "printnum" /\ fpc' = "text" /\ num < base
      /\ out' = out \o t
      /\ at' = at /\ UNCHANGED input
  BY DEF PrintDigits, putch, cprintf_putch
<1>2. at = ConvAt(dir) + 1 /\ NumberRight
  BY <1>1 DEF OutRight
<1>3. /\ dir.conv \in {"d", "u", "o", "x", "p", "e"}
      /\ base = Radix /\ Taken(Magnitude, Radix, num, lower) /\ out = Sign
      /\ IF dir.conv = "e"
         THEN padc = SPACE /\ width + Len(lower) < 0
              /\ Magnitude \notin 1 .. MAXERROR - 1
         ELSE /\ padc = PadOf(dir)
              /\ \/ width + Len(lower) = dir.width
                 \/ width + Len(lower) < 0 /\ dir.width = 0
  BY <1>2 DEF NumberRight
<1>4. /\ num \in Nat /\ base \in {Octal, Decimal, Hex} /\ lower \in Seq(Symbols)
      /\ width \in Int /\ padc \in Symbols /\ dir \in Directives
  BY SymbolFacts DEF FInv, NumberOK, FlagsOK, InputOK
<1>5. e \in Symbols /\ Len(lower) \in Nat
  BY <1>4, DigitOfNumber, LenProperties
<1>6. n = <<e>> \o lower /\ Len(n) = Len(lower) + 1
  <2>1. Magnitude \in Nat /\ Radix \in Nat /\ Radix > 1
    BY <1>3, ValueThere, NumberValue
  <2>2. /\ Taken(Magnitude, Radix, num, lower) /\ num < Radix
        /\ digits[(num % Radix) + 1] \in Symbols
    BY <1>1, <1>3, <1>5
  <2>3. /\ Len(n) = Len(lower) + 1
        /\ n = <<digits[(num % Radix) + 1]>> \o lower
    BY <1>4, <2>1, <2>2, AllTaken
  <2> QED BY <1>3, <2>3, Zenon
<1> HIDE DEF e, n
<1>7. pad \in Seq(Symbols) /\ <<e>> \in Seq(Symbols)
  BY <1>4, <1>5, TimesIs
<1>8. pad = Times(padc, width - 1)
  OBVIOUS
<1> HIDE DEF pad
<1>9. n \in Seq(Symbols) /\ t = pad \o n
  <2>1. n \in Seq(Symbols)
    BY <1>4, <1>6, <1>7, ConcatProperties
  <2>2. (pad \o <<e>>) \o lower = pad \o (<<e>> \o lower)
    BY <1>4, <1>7, ConcatAssociative
  <2> QED BY <1>6, <2>1, <2>2
<1> HIDE DEF t
<1>10. dir.width \in 0 .. 99
  BY <1>4, Positions
<1>11. Times(PadOf(dir), dir.width - Len(n)) \in Seq(Symbols)
  <2>1. PadOf(dir) \in Symbols
    BY SymbolFacts DEF PadOf
  <2>2. Len(n) \in Nat
    BY <1>9, LenProperties
  <2>3. dir.width - Len(n) \in Int
    <3>1. \A i \in 0 .. 99, j \in Nat : i - j \in Int
      OBVIOUS
    <3> QED BY <1>10, <2>2, <3>1, Zenon
  <2> QED BY <2>1, <2>3, TimesIs
<1>12. Meaning(dir, given)
         = Sign \o (IF dir.conv = "e" THEN n
                    ELSE PadLeft(n, dir.width, PadOf(dir)))
  BY <1>3, <1>9, <1>11, MeaningOfNumber DEF n
<1>13. t = IF dir.conv = "e" THEN n ELSE PadLeft(n, dir.width, PadOf(dir))
  <2>1. CASE dir.conv = "e"
    <3>1. width + Len(lower) < 0
      BY <1>3, <2>1
    <3>2. ~(width - 1 > 0)
      BY <1>4, <1>5, <3>1
    <3>3. pad = <<>>
      BY <1>8, <3>2 DEF Times
    <3> QED BY <1>9, <2>1, <3>3, ConcatEmptySeq
  <2>2. CASE dir.conv # "e"
    <3>1. /\ padc = PadOf(dir)
          /\ \/ width + Len(lower) = dir.width
             \/ width + Len(lower) < 0 /\ dir.width = 0
      BY <1>3, <2>2
    <3>2. /\ width - 1 \in Int /\ dir.width - Len(n) \in Int
          /\ \/ width - 1 = dir.width - Len(n)
             \/ width - 1 <= 0 /\ dir.width - Len(n) <= 0
      BY <1>4, <1>5, <1>6, <1>10, <3>1
    <3>3. Times(padc, width - 1) = Times(padc, dir.width - Len(n))
      BY <3>2, SameTimes
    <3> QED BY <1>8, <1>9, <2>2, <3>1, <3>3, Zenon DEF PadLeft
  <2> QED BY <2>1, <2>2
<1>14. out' = Meaning(dir, given)
  BY <1>1, <1>3, <1>12, <1>13, Zenon
<1>15. dir' = dir /\ given' = given
  BY <1>1, SameDirective
<1>16. ~Strange
  BY <1>3 DEF Strange, NUL
<1> QED BY <1>1, <1>2, <1>14, <1>15, <1>16 DEF OutRight, Strange

(* Where the text is, and what it says there.                              *)
LEMMA TextIs ==
  ASSUME FInv
  PROVE  /\ dir \in Directives /\ at \in 1 .. Len(fmt) /\ Len(fmt) \in Nat
         /\ fmt[1] = "%" /\ ConvAt(dir) \in Int /\ ConvAt(dir) >= 2
         /\ ch = NUL <=> at = Len(fmt)
         /\ ~Strange => /\ fmt[ConvAt(dir) + 1] = TextAfter
                        /\ fmt[ConvAt(dir) + 2] = NUL
                        /\ After(dir) = <<TextAfter>>
<1>1. /\ dir \in Directives /\ Layout(dir, fmt) /\ at \in 1 .. Len(fmt)
      /\ FormatIs(dir, fmt)
  BY Directive, FormatShape DEF FInv, InputOK
<1>2. /\ Len(fmt) \in Nat /\ fmt[1] = "%" /\ fmt[Len(fmt)] = NUL
      /\ \A k \in 1 .. Len(fmt) - 1 : fmt[k] # NUL
  BY <1>1 DEF FormatIs
<1>3. ConvAt(dir) \in Int /\ ConvAt(dir) >= 2
  BY <1>1, Positions
<1>4. ch = NUL <=> at = Len(fmt)
  BY <1>1, <1>2 DEF ch
<1>5. ~Strange => /\ fmt[ConvAt(dir) + 1] = TextAfter
                  /\ fmt[ConvAt(dir) + 2] = NUL
                  /\ After(dir) = <<TextAfter>>
  BY <1>1 DEF Layout, Strange, After
<1> QED BY <1>1, <1>2, <1>3, <1>4, <1>5

(* What was put out is a sequence.                                         *)
LEMMA OutIs ==
  ASSUME FInv
  PROVE  out \in Seq(Symbols) /\ Len(out) \in Nat
BY LenProperties DEF FInv, SinkOK

(* Text is printed as it stands, also that of an unknown directive.        *)
LEMMA TextRight ==
  ASSUME FInv, OutRight, Text
  PROVE  OutRight'
<1>1. /\ fpc = "text" /\ fpc' = "text" /\ ch # "%" /\ ch # NUL
      /\ at' = at + 1 /\ out' = out \o <<ch>> /\ UNCHANGED input
  BY DEF Text, putch, cprintf_putch
<1>2. dir' = dir /\ given' = given /\ fmt' = fmt
  BY <1>1, SameDirective
<1>3. out \in Seq(Symbols) /\ Len(out) \in Nat
  BY OutIs
<1>4. CASE at = 1 /\ out = <<>>
  <2>1. ch = "%"
    BY <1>4, TextIs DEF ch
  <2> QED BY <1>1, <2>1
<1>5. CASE /\ Strange /\ at > 1
           /\ Len(out) = at - 1 /\ \A i \in 1 .. at - 1 : out[i] = fmt[i]
  <2>1. ch \in Symbols
    <3>1. fmt \in Seq(Symbols \cup {NUL})
      BY FormatShape DEF FInv, InputOK, FormatIs
    <3>2. ch \in Symbols \cup {NUL}
      BY <3>1, TextIs, ElementOfSeq DEF ch
    <3> QED BY <1>1, <3>2
  <2>2. /\ Len(out') = Len(out) + 1
        /\ \A i \in 1 .. Len(out) : out'[i] = out[i]
        /\ out'[Len(out) + 1] = ch
    BY <1>1, <1>3, <2>1, OneMore
  <2>3. at \in Nat
    BY TextIs
  <2>4. \A i \in 1 .. at : out'[i] = fmt[i]
    <3> TAKE i \in 1 .. at
    <3>1. CASE i = at
      BY <1>5, <2>2, <2>3, <3>1 DEF ch
    <3>2. CASE i # at
      <4>1. i \in 1 .. at - 1 /\ i \in 1 .. Len(out)
        BY <1>5, <2>3, <3>2
      <4> QED BY <1>5, <2>2, <4>1
    <3> QED BY <3>1, <3>2
  <2>5. Len(out') = at' - 1 /\ at' > 1 /\ at' - 1 = at
    BY <1>1, <1>5, <2>2, <2>3
  <2> QED BY <1>1, <1>2, <1>5, <2>4, <2>5 DEF OutRight, Strange
<1>6. CASE ~Strange /\ at = ConvAt(dir) + 1 /\ out = Meaning(dir, given)
  <2>1. ch = TextAfter /\ After(dir) = <<TextAfter>>
    BY <1>6, TextIs DEF ch
  <2>2. out' = Meaning(dir, given) \o After(dir)
    BY <1>1, <1>6, <2>1, Zenon
  <2>3. at' = ConvAt(dir) + 2
    BY <1>1, <1>6, TextIs
  <2> QED BY <1>1, <1>2, <1>6, <2>2, <2>3 DEF OutRight, Strange
<1>7. CASE ~Strange /\ at = ConvAt(dir) + 2
  <2>1. ch = NUL
    BY <1>7, TextIs DEF ch
  <2> QED BY <1>1, <2>1
<1> QED BY <1>1, <1>4, <1>5, <1>6, <1>7 DEF OutRight

(* All of an unknown directive, and what is behind it.                     *)
LEMMA WholeFormat ==
  ASSUME FInv, Len(out) = Len(fmt) - 1,
         \A i \in 1 .. Len(fmt) - 1 : out[i] = fmt[i]
  PROVE  out = Render(dir) \o After(dir)
<1> DEFINE v == IF dir.conv = NUL THEN <<>> ELSE <<dir.conv>>
           h == Render(dir)
           a == After(dir)
           g == h \o a
<1>1. dir \in Directives /\ fmt = g \o <<NUL>>
  BY DEF FInv, InputOK
<1>2. Conversions \subseteq Symbols /\ "z" \in Symbols /\ TextAfter \in Symbols
  BY SymbolFacts
<1>3. v \in Seq(FmtChars) /\ a \in Seq(FmtChars)
  <2>1. dir.conv \in FmtChars
    <3>1. dir.conv \in Conversions \cup {"z", NUL}
      BY <1>1, Positions
    <3> QED BY <1>2, <3>1 DEF FmtChars
  <2>2. TextAfter \in FmtChars
    BY <1>2 DEF FmtChars
  <2> HIDE DEF FmtChars
  <2>3. v \in Seq(FmtChars)
    BY <2>1
  <2>4. a \in Seq(FmtChars)
    BY <2>2 DEF After
  <2> QED BY <2>3, <2>4
<1>4. h \in Seq(FmtChars)
  <2>1. Ahead(dir) \in Seq(FmtChars)
    BY <1>1, AheadIs DEF Opens, FmtChars
  <2>2. h = Ahead(dir) \o v
    BY DEF Render, Ahead
  <2> HIDE DEF v, h
  <2> QED BY <1>3, <2>1, <2>2, ConcatProperties
<1> HIDE DEF h, a
<1>5. g \in Seq(FmtChars) /\ Len(g) \in Nat
  BY <1>3, <1>4, ConcatProperties, LenProperties
<1> HIDE DEF g
<1>6. NUL \in FmtChars
  BY DEF FmtChars
<1>7. Len(fmt) = Len(g) + 1 /\ \A i \in 1 .. Len(g) : fmt[i] = g[i]
  BY <1>1, <1>5, <1>6, OneMore
<1>8. Len(out) = Len(g) /\ \A i \in 1 .. Len(g) : out[i] = g[i]
  <2>1. Len(fmt) - 1 = Len(g)
    BY <1>5, <1>7
  <2> QED BY <1>7, <2>1
<1>9. out \in Seq(FmtChars)
  <2>1. Symbols \subseteq FmtChars
    BY DEF FmtChars
  <2> QED BY <2>1, OutIs, SeqMonotonic
<1>10. out = g
  BY <1>5, <1>8, <1>9, SeqEqual
<1> QED BY <1>10 DEF g, h, a

(* The end of the format is the end of the text.                           *)
LEMMA EndRight ==
  ASSUME FInv, OutRight, EndOfFormat
  PROVE  OutRight'
<1>1. /\ fpc = "text" /\ fpc' = "done" /\ ch = NUL
      /\ at' = at /\ UNCHANGED out /\ UNCHANGED input
  BY DEF EndOfFormat, Reads, sink
<1>2. dir' = dir /\ given' = given
  BY <1>1, SameDirective
<1>3. at = Len(fmt) /\ at \in Nat
  BY <1>1, TextIs
<1>4. out = Meaning(dir, given) \o After(dir)
  <2>1. CASE at = 1 /\ out = <<>>
    <3>1. ch = "%" /\ "%" # NUL
      BY <2>1, TextIs DEF ch, NUL
    <3> QED BY <1>1, <3>1
  <2>2. CASE /\ Strange /\ at > 1
             /\ Len(out) = at - 1 /\ \A i \in 1 .. at - 1 : out[i] = fmt[i]
    <3>1. out = Render(dir) \o After(dir)
      BY <1>3, <2>2, WholeFormat
    <3>2. Meaning(dir, given) = Render(dir)
      BY <2>2 DEF Strange, Meaning, NUL
    <3> QED BY <3>1, <3>2
  <2>3. CASE ~Strange /\ at = ConvAt(dir) + 1
    <3>1. ch = TextAfter /\ TextAfter # NUL
      BY <2>3, TextIs DEF ch, NUL, TextAfter
    <3> QED BY <1>1, <3>1
  <2>4. CASE out = Meaning(dir, given) \o After(dir)
    BY <2>4
  <2> QED BY <1>1, <2>1, <2>2, <2>3, <2>4 DEF OutRight
<1>5. out' = Meaning(dir', given') \o After(dir')
  BY <1>1, <1>2, <1>4
<1> QED BY <1>1, <1>5 DEF OutRight

(* Nothing is printed while a directive is read.                           *)
LEMMA PercentOut ==
  ASSUME FInv, OutRight, Percent
  PROVE  OutRight'
<1>1. /\ fpc = "text" /\ fpc' = "reswitch" /\ ch = "%" /\ UNCHANGED out
  BY DEF Percent, Reads, sink
<1>2. at = 1
  <2>1. at \in 1 .. Len(fmt) /\ Len(fmt) \in Nat
    BY TextIs
  <2>2. ~Behind
    BY <1>1, <2>1 DEF Behind, ch
  <2> QED BY <1>1, <2>2 DEF FInv, PlaceOK
<1>3. ConvAt(dir) \in Int /\ ConvAt(dir) >= 2
  BY TextIs
<1>4. out = <<>>
  BY <1>1, <1>2, <1>3 DEF OutRight
<1> QED BY <1>1, <1>4 DEF OutRight

(* Nor by any other character of it.                                       *)
LEMMA FlagsOut ==
  ASSUME OutRight, PadFlag \/ WidthStart \/ WidthDigit \/ WidthEnd
                     \/ Star \/ Dot \/ SharpOrLong
  PROVE  OutRight'
<1>1. /\ fpc \in {"reswitch", "width"} /\ fpc' \in {"reswitch", "width"}
      /\ UNCHANGED out
  BY DEF PadFlag, WidthStart, WidthDigit, WidthEnd, Star, Dot, SharpOrLong,
         Reswitch, Reads, sink
<1>2. out' = <<>>
  BY <1>1 DEF OutRight
<1> QED BY <1>1, <1>2 DEF OutRight

(* What is unknown is the conversion, and it is read again from the first  *)
(* character behind the %.                                                 *)
LEMMA BackRight ==
  ASSUME FInv, ReadOK, OutRight, Unrecognized \/ BackOne \/ BackEnd
  PROVE  OutRight'
<1>1. CASE Unrecognized
  <2>1. /\ fpc = "reswitch" /\ fpc' = "back" /\ ch \notin Known
        /\ out' = out \o <<"%">> /\ UNCHANGED input
    BY <1>1 DEF Unrecognized, putch, cprintf_putch
  <2>2. dir' = dir
    BY <2>1, SameDirective
  <2>3. out' = <<"%">>
    <3>1. out = <<>>
      BY <2>1 DEF OutRight
    <3> QED BY <2>1, <3>1, SymbolSeqs, ConcatEmptySeq
  <2>4. ch = dir.conv
    BY <2>1, Where, KnownChars, Marks
  <2>5. dir.conv \in Conversions \cup {"z", NUL}
    BY TextIs, Positions
  <2>6. Strange
    BY <2>1, <2>4, <2>5, KnownChars DEF Strange
  <2> QED BY <2>1, <2>2, <2>3, <2>6 DEF OutRight, Strange
<1>2. CASE BackOne
  <2>1. fpc = "back" /\ fpc' = "back" /\ UNCHANGED out /\ UNCHANGED input
    BY <1>2 DEF BackOne, sink
  <2>2. dir' = dir
    BY <2>1, SameDirective
  <2> QED BY <2>1, <2>2 DEF OutRight, Strange
<1>3. CASE BackEnd
  <2>1. /\ fpc = "back" /\ fpc' = "text" /\ fmt[at - 1] = "%" /\ at' = at
        /\ UNCHANGED out /\ UNCHANGED input
    BY <1>3 DEF BackEnd, sink
  <2>2. dir' = dir /\ given' = given /\ fmt' = fmt
    BY <2>1, SameDirective
  <2>3. at = 2
    <3>1. at > 1 /\ \A j \in 2 .. Len(fmt) : fmt[j] # "%"
      BY <2>1 DEF FInv, PlaceOK
    <3>2. at \in 1 .. Len(fmt) /\ Len(fmt) \in Nat
      BY TextIs
    <3>3. ~(at - 1 \in 2 .. Len(fmt))
      BY <2>1, <3>1
    <3> QED BY <3>1, <3>2, <3>3
  <2>4. Strange /\ out = <<"%">>
    BY <2>1 DEF OutRight
  <2>5. Len(out) = 1 /\ out[1] = fmt[1]
    BY <2>4, TextIs
  <2> QED BY <2>1, <2>2, <2>3, <2>4, <2>5 DEF OutRight, Strange
<1> QED BY <1>1, <1>2, <1>3

-----------------------------------------------------------------------------

(* The directive is being read only between a % and its conversion.        *)
LEMMA ReadStep ==
  ASSUME FInv, ReadOK, [FmtNext]_fvars
  PROVE  ReadOK'
<1>1. CASE Percent
  BY <1>1, PercentReads
<1>2. CASE PadFlag
  BY <1>2, PadFlagReads
<1>3. CASE WidthStart
  BY <1>3, WidthStartReads
<1>4. CASE WidthDigit
  BY <1>4, WidthDigitReads
<1>5. CASE WidthEnd
  BY <1>5, WidthEndReads
<1>6. CASE Star
  BY <1>6, StarReads
<1>7. CASE Dot
  BY <1>7, DotReads
<1>8. CASE SharpOrLong
  <2>1. ch \in {"#", "l"}
    BY <1>8 DEF SharpOrLong, Reads
  <2> QED BY <1>8, <2>1, SharpReads, LongReads
<1>9. CASE Text \/ EndOfFormat \/ PrintHigher \/ PrintDigits
             \/ Unrecognized \/ BackOne \/ BackEnd
  <2>1. fpc' \notin {"reswitch", "width"}
    BY <1>9 DEF Text, EndOfFormat, PrintHigher, PrintDigits, Unrecognized,
                BackOne, BackEnd
  <2> QED BY <2>1 DEF ReadOK
<1>10. CASE CharConv \/ ErrorConv \/ StringConv \/ SignedConv \/ UnsignedConv
              \/ PointerConv \/ EscapedPercent
  <2>1. fpc' \in {"text", "printnum"}
    BY <1>10 DEF CharConv, ErrorConv, StringConv, SignedConv, UnsignedConv,
                 PointerConv, EscapedPercent, Convert, ConvertNumber,
                 ConvertSigned
  <2> QED BY <2>1 DEF ReadOK
<1>11. CASE UNCHANGED fvars
  <2>1. /\ UNCHANGED <<at, ap, fpc>> /\ UNCHANGED input
        /\ UNCHANGED <<padc, width, precision, lflag, altflag>>
    BY <1>11 DEF fvars, flags
  <2>2. dir' = dir /\ given' = given
    BY <2>1, SameDirective
  <2> QED BY <2>1, <2>2 DEF ReadOK, PadRead, WidthRead, Limit
<1> QED BY <1>1, <1>2, <1>3, <1>4, <1>5, <1>6, <1>7, <1>8, <1>9, <1>10, <1>11
        DEF FmtNext

(* What has been printed stays right, step by step.                        *)
LEMMA OutStep ==
  ASSUME FInv, ReadOK, OutRight, Sensible(dir), [FmtNext]_fvars
  PROVE  OutRight'
<1>1. CASE Text
  BY <1>1, TextRight
<1>2. CASE EndOfFormat
  BY <1>2, EndRight
<1>3. CASE Percent
  BY <1>3, PercentOut
<1>4. CASE PadFlag \/ WidthStart \/ WidthDigit \/ WidthEnd \/ Star \/ Dot
             \/ SharpOrLong
  BY <1>4, FlagsOut
<1>5. CASE CharConv \/ EscapedPercent
  BY <1>5, CharRight
<1>6. CASE ErrorConv
  BY <1>6, ErrorRight
<1>7. CASE StringConv
  BY <1>7, StringRight
<1>8. CASE SignedConv \/ UnsignedConv \/ PointerConv
  BY <1>8, NumbersRight
<1>9. CASE PrintHigher
  BY <1>9, HigherRight
<1>10. CASE PrintDigits
  BY <1>10, DigitsRight
<1>11. CASE Unrecognized \/ BackOne \/ BackEnd
  BY <1>11, BackRight
<1>12. CASE UNCHANGED fvars
  <2>1. /\ UNCHANGED <<at, fpc, padc, width, num, base, lower, out>>
        /\ UNCHANGED input
    BY <1>12 DEF fvars, flags, number, sink
  <2>2. dir' = dir /\ given' = given /\ fmt' = fmt
    BY <2>1, SameDirective
  <2>3. NumberRight => NumberRight'
    BY <2>1, <2>2 DEF NumberRight, Sign, Magnitude, Radix, Value
  <2> QED BY <2>1, <2>2, <2>3 DEF OutRight, Strange
<1> QED BY <1>1, <1>2, <1>3, <1>4, <1>5, <1>6, <1>7, <1>8, <1>9, <1>10, <1>11,
           <1>12 DEF FmtNext

(* No step changes the call.                                               *)
LEMMA SameInputs == [FmtNext]_fvars => UNCHANGED input
BY DEF FmtNext, fvars, Text, EndOfFormat, Percent, PadFlag, WidthStart,
       WidthDigit, WidthEnd, Star, Dot, SharpOrLong, Reswitch, CharConv,
       ErrorConv, StringConv, SignedConv, UnsignedConv, PointerConv, Convert,
       ConvertNumber, ConvertSigned, PrintHigher, PrintDigits, EscapedPercent,
       Unrecognized, BackOne, BackEnd

(* Whatever the flags, width, precision and length of a directive, and     *)
(* however wide the types: its author gets what it means.                  *)
THEOREM FormattingIsRight == FmtSpec => []FormatsRight
<1>1. FmtInit => RInv
  <2> SUFFICES ASSUME FmtInit PROVE RInv
    OBVIOUS
  <2>1. FInv
    BY InitFmt
  <2>2. fpc = "text" /\ at = 1 /\ out = <<>>
    BY DEF FmtInit
  <2> QED BY <2>1, <2>2 DEF RInv, ReadOK, OutRight
<1>2. RInv /\ [FmtNext]_fvars => RInv'
  <2> SUFFICES ASSUME RInv, [FmtNext]_fvars PROVE RInv'
    OBVIOUS
  <2>1. FInv /\ ReadOK /\ (Sensible(dir) => OutRight)
    BY DEF RInv
  <2>2. dir' = dir
    BY SameInputs, SameDirective
  <2>3. FInv' /\ ReadOK'
    BY <2>1, FmtStep, ReadStep
  <2>4. Sensible(dir') => OutRight'
    BY <2>1, <2>2, OutStep
  <2> QED BY <2>3, <2>4 DEF RInv
<1>3. RInv => FormatsRight
  BY DEF RInv, OutRight, FormatsRight
<1> QED
  BY <1>1, <1>2, <1>3, PTL DEF FmtSpec
=============================================================================
