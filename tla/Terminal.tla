------------------------------ MODULE Terminal ------------------------------
(***************************************************************************)
(* What a text terminal promises, without a frame buffer: characters go on *)
(* a roll of paper that grows by one blank row whenever the cursor leaves  *)
(* its last row, and no row is ever taken away or moved.  The only way to  *)
(* change a printed cell is to go back over it on purpose.                 *)
(***************************************************************************)
EXTENDS Integers, Sequences

CONSTANTS Cols, Glyphs, Blank

VARIABLES
  paper,  \* the cells of all rows, row after row
  cur     \* the cells before the cursor

vars == <<paper, cur>>

BlankRow == [i \in 1 .. Cols |-> Blank]

Init ==
  /\ paper \in Seq(Glyphs)
  /\ Len(paper) % Cols = 0
  /\ cur \in 0 .. Len(paper) - 1

(* The cursor arrives at p, on paper or just below its last row.           *)
MoveTo(p, sheet) ==
  /\ cur' = p
  /\ paper' = IF p < Len(sheet) THEN sheet ELSE sheet \o BlankRow

Type(g) == MoveTo(cur + 1, [paper EXCEPT ![cur + 1] = g])

Erase ==
  /\ cur > 0
  /\ MoveTo(cur - 1, [paper EXCEPT ![cur] = Blank])

NewLine == MoveTo(cur + Cols - (cur % Cols), paper)

Return == MoveTo(cur - (cur % Cols), paper)

Next ==
  \/ \E g \in Glyphs : Type(g)
  \/ Erase \/ NewLine \/ Return

Spec == Init /\ [][Next]_vars
=============================================================================
