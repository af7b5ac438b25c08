----------------------------- MODULE MCGrading -----------------------------
(* The tests of grade-lab2 under every choice of filters.                  *)
EXTENDS Grading
=============================================================================
