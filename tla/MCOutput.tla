------------------------------ MODULE MCOutput ------------------------------
(* What the kernel prints: vprintfmt makes characters, and the console      *)
(* takes them.  The two halves share no state, and the processor is in one  *)
(* of them at a time.  Every format is therefore checked without a console  *)
(* behind it, and every screen, cursor, port and pair of characters with    *)
(* the shortest format before it.                                           *)
(*                                                                          *)
(* The screen has a few cells; there is a UART or none.  Directives have at *)
(* most one of the flags, a width of no, one or two digits, a precision of  *)
(* strings, and lengths of numbers.                                         *)
EXTENDS ConsoleOutput, Printfmt

CONSTANTS x

MCGlyphs == {Blank, x}
MCUarts  == {Empty, Absent}

Plain ==
  [minus |-> FALSE, zero |-> FALSE, alt |-> FALSE, width |-> 0,
   prec |-> "none", longs |-> 0, conv |-> "d"]

MCNumbers ==
  {[Plain EXCEPT !.minus = m, !.zero = z, !.width = w, !.longs = k,
                 !.conv = s] :
     m \in BOOLEAN, z \in BOOLEAN, w \in {0, 3, 10}, k \in 0 .. 2,
     s \in {"d", "u", "o", "x"}}
  \cup {[Plain EXCEPT !.zero = z, !.width = w, !.conv = "p"] :
          z \in BOOLEAN, w \in {0, 3}}

MCOthers ==
  {[Plain EXCEPT !.minus = m, !.zero = z, !.alt = a, !.width = w,
                 !.prec = r, !.conv = s] :
     m \in BOOLEAN, z \in BOOLEAN, a \in BOOLEAN, w \in {0, 3},
     r \in {"none", "one", "star"}, s \in {"s", "z", NUL}}
  \cup {[Plain EXCEPT !.conv = s] : s \in {"c", "e", "%"}}

MCDirectives ==
  {d \in MCNumbers \cup MCOthers : ~(d.minus /\ d.zero)}

MCStrings == {NULL, <<>>, <<"b">>, <<"b", "ctl">>, <<"b", "ctl", "b", "b">>}

MCErrors == Ints(INT_MAX)

-----------------------------------------------------------------------------
Shortest == [Plain EXCEPT !.conv = "%"]

(* What is behind the formats whose characters are not followed further.   *)
BlankScreen == [buf |-> [i \in 0 .. CRT_SIZE - 1 |-> Blank], pos |-> 0]

MCInit ==
  /\ FmtInit
  /\ IF dir = Shortest THEN size = 1
       ELSE screen = BlankScreen /\ thr = Absent /\ lpt_ready = TRUE
  /\ Init

Formatting == fpc # "done" /\ FmtNext /\ UNCHANGED vars
Printing   == fpc = "done" /\ dir = Shortest /\ UNCHANGED fvars

MCNext == Formatting \/ (Next /\ Printing)

(* A plain function call, and then a kernel that prints without ever       *)
(* waiting for anything but its own loops.                                 *)
MCSpec ==
  /\ MCInit /\ [][MCNext]_<<vars, fvars>>
  /\ WF_<<vars, fvars>>(Formatting)
  /\ WF_<<vars, fvars>>(Processor /\ Printing)
=============================================================================
