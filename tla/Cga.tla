-------------------------------- MODULE Cga --------------------------------
(***************************************************************************)
(* The text screen of kern/console.c as a value: the CRT_SIZE cells of the *)
(* frame buffer and the cursor, with cga_putc as an operator on it.        *)
(*                                                                         *)
(* Abstracted: the attribute byte (the characters the console prints carry *)
(* the default one) and the two cursor registers, which repeat crt_pos.    *)
(***************************************************************************)
EXTENDS Integers

CONSTANTS
  CRT_COLS, CRT_ROWS,  \* 80 and 25 in the code
  Glyphs,              \* the characters that occupy a cell
  Blank,               \* ' '
  BS, NL, CR, TAB      \* '\b', '\n', '\r', '\t'

CRT_SIZE == CRT_ROWS * CRT_COLS

Controls == {BS, NL, CR}

ASSUME CgaAssumption ==
  /\ CRT_COLS \in Nat \ {0}
  /\ CRT_ROWS \in Nat \ {0}
  /\ CRT_SIZE \in Nat
  /\ CRT_SIZE >= CRT_COLS
  /\ Blank \in Glyphs
  /\ Glyphs \cap (Controls \cup {TAB}) = {}

ASSUME ControlsDiffer == BS # NL /\ BS # CR /\ NL # CR /\ TAB \notin Controls

Cells == 0 .. CRT_SIZE - 1

Screens == [buf : [Cells -> Glyphs], pos : Cells]

LineStart(p) == p - (p % CRT_COLS)

(* The switch of cga_putc, without the tab.                                *)
Write(s, c) ==
  CASE c = BS /\ s.pos > 0  -> [buf |-> [s.buf EXCEPT ![s.pos - 1] = Blank],
                                pos |-> s.pos - 1]
    [] c = BS /\ s.pos = 0  -> s
    [] c = NL               -> [s EXCEPT !.pos = LineStart(s.pos + CRT_COLS)]
    [] c = CR               -> [s EXCEPT !.pos = LineStart(s.pos)]
    [] OTHER                -> [buf |-> [s.buf EXCEPT ![s.pos] = c],
                                pos |-> s.pos + 1]

Shifted(b) ==
  [i \in Cells |-> IF i < CRT_SIZE - CRT_COLS THEN b[i + CRT_COLS] ELSE Blank]

Scroll_keeps_last_line(s) ==
  IF s.pos < CRT_SIZE THEN s
  ELSE [buf |-> [i \in Cells |-> IF i < CRT_SIZE - CRT_COLS
                                 THEN s.buf[i + CRT_COLS] ELSE s.buf[i]],
        pos |-> s.pos - CRT_COLS]

(* The block that asks "What is the purpose of this?".                     *)
Scroll(s) ==
  IF s.pos < CRT_SIZE THEN s
  ELSE [buf |-> Shifted(s.buf), pos |-> s.pos - CRT_COLS]

(* cga_putc of anything but a tab, which is five calls of cons_putc and    *)
(* then this with nothing to write.                                        *)
cga_putc(s, c) == Scroll(Write(s, c))
=============================================================================
