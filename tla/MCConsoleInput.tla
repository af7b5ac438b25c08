--------------------------- MODULE MCConsoleInput ---------------------------
(* ConsoleInput on two characters and rings of four slots.                 *)
EXTENDS ConsoleInput

CONSTANTS a, b

MCChars == {a, b}
MCItems == {a, NUL, Mouse}
=============================================================================
