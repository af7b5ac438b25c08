------------------------------ MODULE Numbers -------------------------------
(* What the properties of printed and of read numbers share.               *)
EXTENDS Integers

(* The powers of b.  They are a recursive function, by whose equations the *)
(* proofs go.                                                              *)
Powers(b) ==
  LET power[k \in Nat] == IF k = 0 THEN 1 ELSE b * power[k - 1] IN power
=============================================================================
