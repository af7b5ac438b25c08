---------------------------- MODULE MCStringLib -----------------------------
(* Six bytes are three words: two words that overlap in one, and a string  *)
(* on either side of another.  The largest character has its top bit set.  *)
(* strtol gets every string of up to four characters.                      *)
EXTENDS StringLib, TLC

MCMemories ==
  {m \in [Addrs -> {0, 1, ByteSize - 1}] : m[0] # 0 /\ m[5] # 1}
  \cup {[a \in Addrs |-> (a + 1) % ByteSize]}

(* Characters by number: 4 is "0", 5 to 12 are the digits and letters that *)
(* are the last or the first behind the last of a base.                    *)
MCDigits ==
  4 :> 0 @@ 5 :> 7 @@ 6 :> 8 @@ 7 :> 9 @@ 8 :> 10
    @@ 9 :> 15 @@ 10 :> 16 @@ 11 :> 33 @@ 12 :> 33

MCNumerals ==
  {[a \in Addrs |-> IF a < 4 THEN m[a] ELSE 0] : m \in [0 .. 3 -> 0 .. 12]}
=============================================================================
