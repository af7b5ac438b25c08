----------------------------- MODULE MCMonitor -----------------------------
(* The monitor on a screen of eight cells, so that long lines scroll while    *)
(* they are edited, with two commands of which one is a prefix of the other *)
(* and room for two words.                                                  *)
EXTENDS Monitor

CONSTANTS x

MCGlyphs   == {Blank, x, DEL}
MCPrompt   == <<x>>
MCScreens  == {[buf |-> [n \in Cells |-> Blank], pos |-> q] : q \in Cells}
MCStacks   == {[j \in 0 .. MAXARGS - 1 |-> v] : v \in {Null, Wild, 1}}
MCcommands == << <<x, x>>, <<x>> >>
=============================================================================
