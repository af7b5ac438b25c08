-------------------------- MODULE StringLibProofs ---------------------------
(***************************************************************************)
(* For every size of memory, word and byte and every call that C allows:   *)
(* what the functions of lib/string.c leave in memory and return.          *)
(***************************************************************************)
EXTENDS StringLib, WellFoundedInduction, SequenceTheorems, TLAPS

(* The call and the memory it was made on.                                 *)
InCall ==
  /\ fn \in Copies \cup Blocks \cup Scans \cup Compare \cup {"strtol"}
  /\ before \in [Addrs -> Bytes]
  /\ p0 \in Addrs /\ q0 \in Addrs /\ n0 \in 0 .. MemSize /\ c \in Int
  /\ Legal(before, fn, p0, q0, n0)

Fresh ==
  /\ mem = before /\ p = p0 /\ q = q0 /\ n = n0
  /\ unit = 1 /\ down = FALSE

(* rep stos: what lies between p0 and p is filled.                         *)
Filling ==
  /\ fn = "memset"
  /\ n * unit <= n0 /\ p = p0 + n0 - n * unit /\ q = q0
  /\ \A a \in Addrs : mem[a] = IF p0 <= a /\ a < p THEN FillByte ELSE before[a]

(* rep movs: upwards the part below p is moved, downwards the part above.  *)
Moving ==
  /\ fn \in Moves
  /\ n * unit <= n0
  /\ down = Backward(p0, q0)
  /\ LET lo == IF down THEN p0 + n * unit ELSE p0
         hi == IF down THEN p0 + n0 ELSE p0 + n0 - n * unit IN
     /\ p = IF down THEN lo - unit ELSE hi
     /\ q = q0 + (p - p0)
     /\ \A a \in Addrs :
          mem[a] = IF lo <= a /\ a < hi THEN before[q0 + (a - p0)] ELSE before[a]

(* Where the copy goes and how much of it is done.                         *)
Target == IF fn = "strcat" THEN p0 + Length(before, p0) ELSE p0
Done   == p - Target

Copied(k) ==
  IF k < Length(before, q0) THEN before[q0 + k] ELSE 0

Copying ==
  /\ fn \in Copies /\ unit = 1
  /\ Done \in Nat
  /\ q = q0 + (IF Done <= Length(before, q0) THEN Done ELSE Length(before, q0))
  /\ fn # "strncpy" => Done <= Length(before, q0)
  /\ fn \in {"strncpy", "strlcpy"} => n = n0 - Done
  /\ fn \in {"strcpy", "strcat"} => n = n0
  /\ fn = "strlcpy" => Done = 0 \/ Done <= n0 - 1
  /\ \A a \in Addrs :
       mem[a] = IF Target <= a /\ a < p THEN Copied(a - Target) ELSE before[a]

(* How far a search has gone, and what it has passed.                      *)
Limited == fn \in {"strnlen", "strncmp", "memcmp", "memfind"}

Scanning ==
  /\ fn \in Scans \cup Compare
  /\ mem = before /\ unit = 1 /\ p - p0 \in Nat
  /\ q = IF fn \in Compare THEN q0 + (p - p0) ELSE q0
  /\ Limited => n = n0 - (p - p0) /\ p - p0 <= n0
  /\ \A k \in 0 .. p - p0 - 1 :
       /\ fn \notin {"memcmp", "memfind"} => before[p0 + k] # 0
       /\ fn \in Compare => before[p0 + k] = before[q0 + k]
       /\ fn \in {"strchr", "strfind"} => before[p0 + k] # c
       /\ fn = "memfind" => before[p0 + k] # c % ByteSize

(* strtol never leaves the string.                                         *)
Parsing ==
  /\ fn = "strtol" /\ mem = before /\ unit = 1
  /\ p0 <= p /\ p <= p0 + Length(before, p0)

Phase ==
  /\ pc = "call" => Fresh
  /\ pc = "stos" => Filling
  /\ pc = "movs" => Moving
  /\ pc = "copy" => Copying
  /\ pc = "scan" => Scanning
  /\ pc \in {"sign", "prefix", "digits"} => Parsing

Results == BlocksRight /\ CopiesRight /\ ScansRight

SInv == TypeOK /\ InCall /\ Phase /\ Results

(* Where the numeral begins: only blanks are in front of a.                *)
SignAt(a) ==
  /\ a \in Addrs /\ before[a] \notin Blanks
  /\ \A k \in p0 .. a - 1 : before[k] \in Blanks

Start(a) == IF before[a] \in {Plus, Minus} THEN a + 1 ELSE a

(* The same long.                                                          *)
Congruent(v, w) == \E k \in Int : v - w = k * Modulus

(* What strtol has read: blanks, a sign, a prefix and digits up to p.  The *)
(* 0 that says that a numeral is octal is one of its digits.               *)
Reading ==
  fn = "strtol" =>
    /\ c \in 0 .. 36
    /\ pc \in {"call", "sign", "prefix"} => base = c /\ val = 0
    /\ pc = "sign" => \A k \in p0 .. p - 1 : before[k] \in Blanks
    /\ pc = "prefix" =>
         \E a \in p0 .. p :
           SignAt(a) /\ p = Start(a) /\ neg = (before[a] = Minus)
    /\ pc = "digits" =>
         \E a \in p0 .. p :
           LET m == Marked(Start(a), c) IN
           /\ SignAt(a) /\ neg = (before[a] = Minus)
           /\ base = m.base /\ m.digits \in p0 .. p
           /\ \A k \in m.digits .. p - 1 : IsDigit(before[k])
           /\ Congruent(val, Value(m.digits, p, base))

NInv == SInv /\ Reading /\ NumeralRight

-----------------------------------------------------------------------------
(* Numbers and strings.                                                    *)

LEMMA Least ==
  ASSUME NEW S \in SUBSET Nat, S # {}
  PROVE  \E x \in S : \A y \in S : x <= y
<1> DEFINE R == {ss \in Nat \X Nat : ss[1] < ss[2]}
<1>1. IsWellFoundedOn(R, Nat)
  BY NatLessThanWellFounded DEF OpToRel
<1> HIDE DEF R
<1>2. PICK x \in S : \A y \in S : <<y, x>> \notin R
  BY <1>1, WFMin
<1>3. \A y \in S : x <= y
  <2> SUFFICES ASSUME NEW y \in S, ~(x <= y) PROVE FALSE
    OBVIOUS
  <2>1. x \in Nat /\ y \in Nat /\ y < x
    OBVIOUS
  <2>2. <<y, x>> \in R
    BY <2>1 DEF R
  <2> QED BY <1>2, <2>2
<1> QED BY <1>3

(* The length of a string is the distance to its first NUL.                *)
LEMMA LengthFacts ==
  ASSUME NEW m \in [Addrs -> Bytes], NEW s \in Nat, Ends(m, s) # {}
  PROVE  /\ Length(m, s) \in 0 .. MemSize /\ s + Length(m, s) \in Addrs
         /\ m[s + Length(m, s)] = 0
         /\ \A k \in 0 .. Length(m, s) - 1 : m[s + k] # 0
<1> USE StringAssumption
<1> DEFINE S == {e - s : e \in Ends(m, s)}
           Fits(k) == /\ k \in 0 .. MemSize /\ s + k \in Ends(m, s)
                      /\ \A e \in Ends(m, s) : s + k <= e
<1>1. \A e \in Ends(m, s) : e \in Int /\ s <= e /\ e <= MemSize - 1 /\ m[e] = 0
  BY DEF Ends
<1>2. S \in SUBSET Nat /\ S # {}
  BY <1>1
<1> HIDE DEF S
<1>3. PICK k \in S : \A y \in S : k <= y
  BY <1>2, Least
<1>4. Fits(k)
  <2>1. PICK e \in Ends(m, s) : k = e - s
    BY <1>3 DEF S
  <2>2. k \in 0 .. MemSize /\ s + k = e
    BY <1>1, <2>1
  <2>3. ASSUME NEW d \in Ends(m, s) PROVE s + k <= d
    <3>1. d - s \in S
      BY DEF S
    <3> QED BY <1>1, <1>3, <2>2, <3>1
  <2> QED BY <2>2, <2>3
<1>5. Fits(Length(m, s))
  BY <1>4 DEF Length
<1>6. ASSUME NEW j \in 0 .. Length(m, s) - 1 PROVE m[s + j] # 0
  <2>1. s + j \notin Ends(m, s)
    BY <1>5
  <2> QED BY <1>1, <1>5, <2>1 DEF Ends
<1> QED BY <1>1, <1>5, <1>6 DEF Addrs

(* A NUL behind bytes that are none is the end of the string.              *)
LEMMA LengthIs ==
  ASSUME NEW m \in [Addrs -> Bytes], NEW s \in Nat, Ends(m, s) # {},
         NEW k \in Nat, m[s + k] = 0, s + k \in Addrs,
         \A j \in 0 .. k - 1 : m[s + j] # 0
  PROVE  Length(m, s) = k
<1>1. CASE Length(m, s) < k
  <2>1. Length(m, s) \in 0 .. k - 1
    BY <1>1, LengthFacts
  <2> QED BY <2>1, LengthFacts
<1>2. CASE k < Length(m, s)
  <2>1. k \in 0 .. Length(m, s) - 1
    BY <1>2, LengthFacts
  <2> QED BY <2>1, LengthFacts
<1> QED BY <1>1, <1>2, LengthFacts

(* How much is left of n elements of so many bytes.                        *)
LEMMA Remaining ==
  ASSUME NEW k \in Nat, NEW w \in Nat \ {0}
  PROVE  /\ k * w \in Nat /\ (k = 0 => k * w = 0)
         /\ k > 0 => (k - 1) * w = k * w - w /\ k * w >= w
<1>1. k * w \in Nat /\ (k = 0 => k * w = 0)
  OBVIOUS
<1>2. (k - 1) * w = k * w - w
  OBVIOUS
<1>3. ASSUME k > 0 PROVE k * w >= w
  <2>1. k - 1 \in Nat
    BY <1>3
  <2>2. (k - 1) * w \in Nat
    BY <2>1
  <2> QED BY <1>2, <2>2
<1> QED BY <1>1, <1>2, <1>3

LEMMA Divided ==
  ASSUME NEW k \in Nat, NEW w \in Nat \ {0}, w = 1 \/ k % w = 0
  PROVE  k \div w \in Nat /\ k \div w <= k /\ (k \div w) * w = k
<1>1. CASE w = 1
  BY <1>1
<1>2. CASE k % w = 0
  <2>1. k \div w \in Nat /\ k = w * (k \div w)
    BY <1>2
  <2>2. (k \div w) * w = k
    BY <2>1
  <2>3. k \div w <= (k \div w) * w
    <3>1. PICK j \in Nat : j = k \div w
      BY <2>1
    <3>2. j * w = j * (w - 1) + j /\ j * (w - 1) \in Nat
      OBVIOUS
    <3> QED BY <3>1, <3>2
  <2> QED BY <2>1, <2>2, <2>3
<1> QED BY <1>1, <1>2

-----------------------------------------------------------------------------
(* What every step leaves alone.                                           *)

LEMMA SameCall ==
  ASSUME InCall, UNCHANGED args
  PROVE  InCall'
BY DEF InCall, args

(* Before the end the results are still to come.                           *)
LEMMA NotYet ==
  ASSUME TypeOK', InCall', Phase', pc' # "done"
  PROVE  SInv'
BY DEF SInv, Results, BlocksRight, CopiesRight, ScansRight, Returned

LEMMA Sizes ==
  ASSUME InCall
  PROVE  /\ Word \in Nat \ {0} /\ ByteSize \in Nat \ {0} /\ MemSize \in Nat \ {0}
         /\ p0 \in Nat /\ q0 \in Nat /\ n0 \in Nat /\ FillByte \in Bytes
         /\ p0 < MemSize /\ q0 < MemSize /\ n0 <= MemSize
<1>1. Word \in Nat \ {0} /\ ByteSize \in Nat \ {0} /\ MemSize \in Nat \ {0}
  BY StringAssumption
<1>2. FillByte \in Bytes
  BY <1>1 DEF InCall, Bytes, FillByte
<1> QED BY <1>1, <1>2 DEF InCall, Addrs

-----------------------------------------------------------------------------
(* Before the call, and into the loops that need no arithmetic.            *)

LEMMA InitInv == Init => SInv
<1> SUFFICES ASSUME Init PROVE SInv
  OBVIOUS
<1> USE StringAssumption
<1>1. InCall
  <2>1. c \in Int /\ 0 \in Addrs
    <3>1. c \in Fills \cup Bases \cup {0}
      <4>1. CASE fn \in {"memset", "memfind"}
        BY <4>1 DEF Init
      <4>2. CASE fn \in {"strfind", "strchr"}
        BY <4>2 DEF Init
      <4>3. CASE fn = "strtol"
        BY <4>3 DEF Init
      <4>4. CASE ~ (\/ fn \in {"memset", "memfind"} \/ fn \in {"strfind", "strchr"}
                    \/ fn = "strtol")
        BY <4>4 DEF Init
      <4> QED BY <4>1, <4>2, <4>3, <4>4
    <3>2. Fills \subseteq Int /\ Bases \subseteq Int
      OBVIOUS
    <3>3. 0 \in Addrs
      BY DEF Addrs
    <3> QED BY ONLY <3>1, <3>2, <3>3
  <2>2. before \in [Addrs -> Bytes]
    BY DEF Init
  <2>3. p0 \in Addrs /\ q0 \in Addrs /\ n0 \in 0 .. MemSize
    BY <2>1 DEF Init
  <2> QED BY <2>1, <2>2, <2>3 DEF Init, InCall
<1>2. TypeOK
  <2>1. base \in 0 .. 36 /\ 0 \in Longs
    BY DEF Init, Longs
  <2>2. mem \in [Addrs -> Bytes]
    BY DEF Init
  <2>3. p \in -1 .. MemSize /\ q \in -1 .. MemSize /\ n \in 0 .. MemSize
    BY <1>1, Sizes DEF Init
  <2> QED BY <2>1, <2>2, <2>3 DEF Init, TypeOK
<1>3. pc = "call" /\ Fresh
  BY DEF Init, Fresh
<1> QED BY <1>1, <1>2, <1>3
        DEF SInv, Phase, Results, BlocksRight, CopiesRight, ScansRight, Returned

LEMMA StartsKeepInv ==
  ASSUME SInv, StartCopy \/ StartScan \/ strtol
  PROVE  SInv'
<1>0. pc = "call" /\ Fresh /\ TypeOK /\ InCall /\ InCall' /\ before' = before
      /\ UNCHANGED <<fn, p0, q0, n0, c>>
  BY SameCall DEF SInv, Phase, StartCopy, StartScan, strtol, others, args
<1>1. CASE StartCopy
  <2>1. fn = "strcat" => Length(before, p0) \in Nat /\ p0 + Length(before, p0) \in Addrs
    BY <1>0, Sizes, LengthFacts DEF InCall, Legal
  <2>2. p' = Target /\ Target \in 0 .. MemSize
    BY <1>0, <1>1, <2>1, Sizes DEF StartCopy, Target, Fresh, Addrs
  <2>3. TypeOK' /\ pc' = "copy"
    BY <1>0, <1>1, <2>2 DEF StartCopy, TypeOK, Fresh, flags, others, number
  <2>4. Length(before, q0) \in Nat
    BY <1>0, <1>1, Sizes, LengthFacts DEF InCall, Legal, StartCopy, Copies
  <2>5. Copying'
    <3>1. Target' = Target /\ Done' = 0
      BY <1>0, <2>2 DEF Target, Done
    <3> QED BY <1>0, <1>1, <2>2, <2>4, <3>1, Sizes
            DEF Copying, StartCopy, Fresh, flags, Addrs
  <2> QED BY <1>0, <2>3, <2>5, NotYet DEF Phase
<1>2. CASE StartScan
  <2>1. TypeOK' /\ pc' = "scan"
    BY <1>0, <1>2 DEF StartScan, TypeOK, flags, others, number
  <2>2. Scanning'
    BY <1>0, <1>2, Sizes DEF StartScan, Scanning, Fresh, flags, Limited
  <2> QED BY <1>0, <2>1, <2>2, NotYet DEF Phase
<1>3. CASE strtol
  <2>1. TypeOK' /\ pc' = "sign"
    BY <1>0, <1>3 DEF strtol, TypeOK, flags, others, number
  <2>2. Length(before, p0) \in Nat
    BY <1>0, <1>3, Sizes, LengthFacts DEF InCall, Legal, strtol
  <2>3. Parsing'
    BY <1>0, <1>3, <2>2, Sizes DEF strtol, Parsing, Fresh, flags
  <2> QED BY <1>0, <2>1, <2>3, NotYet DEF Phase
<1> QED BY <1>1, <1>2, <1>3

-----------------------------------------------------------------------------
(* memset, memmove and memcpy.                                             *)

LEMMA MemsetKeepsInv ==
  ASSUME SInv, memset
  PROVE  SInv'
<1>0. pc = "call" /\ Fresh /\ TypeOK /\ InCall /\ InCall'
      /\ UNCHANGED <<before, fn, p0, q0, n0, c>>
  BY SameCall DEF SInv, Phase, memset, others, args
<1>1. unit' \in {1, Word} /\ (unit' = 1 \/ n0 % unit' = 0) /\ n' = n0 \div unit'
  BY <1>0 DEF memset, Elements, Aligned, Fresh
<1>2. n' \in Nat /\ n' <= n0 /\ n' * unit' = n0
  <2>1. unit' \in Nat \ {0} /\ n0 \in Nat
    BY <1>0, <1>1, Sizes
  <2> QED BY <1>1, <2>1, Divided
<1>3. TypeOK' /\ pc' = "stos"
  <2>1. n' \in 0 .. MemSize /\ p' \in -unit' .. MemSize /\ q' \in -unit' .. MemSize
    BY <1>0, <1>1, <1>2, Sizes DEF memset, Fresh
  <2> QED BY <1>0, <1>1, <2>1 DEF memset, TypeOK, others, number
<1>4. Filling'
  BY <1>0, <1>2, Sizes DEF memset, Filling, Fresh, Addrs
<1> QED BY <1>0, <1>3, <1>4, NotYet DEF Phase

LEMMA StosKeepsInv ==
  ASSUME SInv, stos
  PROVE  SInv'
<1>0. pc = "stos" /\ Filling /\ TypeOK /\ InCall /\ InCall' /\ pc' = "stos"
      /\ UNCHANGED <<before, fn, p0, q0, n0, c, unit>>
  BY SameCall DEF SInv, Phase, stos, others, args, flags
<1>1. /\ n \in Nat /\ n > 0 /\ n' = n - 1 /\ unit \in Nat \ {0} /\ p' = p + unit
      /\ n <= MemSize
  BY <1>0, Sizes DEF TypeOK, stos
<1>2. /\ n * unit \in Nat /\ n' * unit' = n * unit - unit /\ n * unit >= unit
  BY <1>0, <1>1, Remaining
<1>3. /\ p' = p0 + n0 - n' * unit' /\ n' * unit' <= n0 /\ p \in Nat /\ p0 <= p
      /\ p' <= MemSize /\ FillByte' = FillByte
  <2>1. p0 + n0 <= MemSize
    BY <1>0 DEF InCall, Legal, Filling, Blocks
  <2> QED BY <1>0, <1>1, <1>2, <2>1, Sizes DEF Filling, FillByte
<1>4. mem' = [a \in Addrs |-> IF p <= a /\ a < p + unit THEN FillByte ELSE mem[a]]
  BY <1>1, <1>3 DEF stos, Addrs
<1>5. TypeOK'
  <2>1. mem' \in [Addrs -> Bytes]
    <3> DEFINE F(a) == IF p <= a /\ a < p + unit THEN FillByte ELSE mem[a]
    <3>1. \A a \in Addrs : F(a) \in Bytes
      BY <1>0, Sizes DEF TypeOK
    <3>2. mem' = [a \in Addrs |-> F(a)]
      BY <1>4
    <3> HIDE DEF F
    <3> QED BY <3>1, <3>2
  <2>2. n' \in 0 .. MemSize /\ p' \in -unit' .. MemSize /\ q' \in -unit' .. MemSize
    BY <1>0, <1>1, <1>3, Sizes DEF TypeOK, stos
  <2>3. UNCHANGED <<down, neg, val, base, ret>>
    BY DEF stos, others, number, flags
  <2> QED BY <1>0, <2>1, <2>2, <2>3 DEF TypeOK
<1>6. Filling'
  <2>1. ASSUME NEW a \in Addrs
        PROVE  mem'[a] = IF p0 <= a /\ a < p' THEN FillByte ELSE before[a]
    <3>1. a \in Int
      BY <1>0, Sizes DEF Addrs
    <3>2. mem[a] = IF p0 <= a /\ a < p THEN FillByte ELSE before[a]
      BY <1>0 DEF Filling
    <3> QED BY <1>0, <1>1, <1>3, <1>4, <3>1, <3>2, Sizes
  <2> QED BY <1>0, <1>3, <2>1 DEF Filling, stos
<1> QED BY <1>0, <1>5, <1>6, NotYet DEF Phase

LEMMA MemmoveKeepsInv ==
  ASSUME SInv, memmove
  PROVE  SInv'
<1>0. pc = "call" /\ Fresh /\ TypeOK /\ InCall /\ InCall'
      /\ UNCHANGED <<before, fn, p0, q0, n0, c>>
  BY SameCall DEF SInv, Phase, memmove, others, args
<1>1. unit' \in {1, Word} /\ (unit' = 1 \/ n0 % unit' = 0) /\ n' = n0 \div unit'
  BY <1>0 DEF memmove, Elements, Aligned, Fresh
<1>2. n' \in Nat /\ n' <= n0 /\ n' * unit' = n0 /\ unit' \in Nat \ {0}
  <2>1. unit' \in Nat \ {0} /\ n0 \in Nat
    BY <1>0, <1>1, Sizes
  <2> QED BY <1>1, <2>1, Divided
<1>3. /\ down' = Backward(p0, q0) /\ down' \in BOOLEAN
      /\ p' = IF down' THEN p0 + n0 - unit' ELSE p0
      /\ q' = IF down' THEN q0 + n0 - unit' ELSE q0
      /\ mem' = mem /\ pc' = "movs" /\ fn \in Moves /\ ret' = ret
  BY DEF memmove, Backward
<1>4. p0 + n0 <= MemSize /\ q0 + n0 <= MemSize
  BY <1>0, <1>3 DEF InCall, Legal, Blocks
<1>5. TypeOK'
  <2>1. n' \in 0 .. MemSize /\ p' \in -unit' .. MemSize /\ q' \in -unit' .. MemSize
    BY <1>2, <1>3, <1>4, <1>0, Sizes
  <2> QED BY <1>0, <1>1, <1>3, <2>1 DEF memmove, TypeOK, others, number
<1>6. Moving'
  <2>1. Backward(p0, q0)' = Backward(p0, q0)
    BY <1>0 DEF Backward
  <2>2. CASE down'
    BY <1>0, <1>2, <1>3, <2>1, <2>2, Sizes DEF Moving, Fresh, Addrs
  <2>3. CASE ~down'
    BY <1>0, <1>2, <1>3, <2>1, <2>3, Sizes DEF Moving, Fresh, Addrs
  <2> QED BY <1>3, <2>2, <2>3
<1> QED BY <1>0, <1>3, <1>5, <1>6, NotYet DEF Phase

(* The bytes that a step moves are still those of the call.                *)
LEMMA MovsKeepsInv ==
  ASSUME SInv, movs
  PROVE  SInv'
<1>0. pc = "movs" /\ Moving /\ TypeOK /\ InCall /\ InCall' /\ pc' = "movs"
      /\ UNCHANGED <<before, fn, p0, q0, n0, c, unit, down, ret, neg, val, base>>
  BY SameCall DEF SInv, Phase, movs, others, args, flags, number
<1>1. /\ n \in Nat /\ n > 0 /\ n' = n - 1 /\ unit \in Nat \ {0} /\ n <= MemSize
      /\ p' = (IF down THEN p - unit ELSE p + unit)
      /\ q' = (IF down THEN q - unit ELSE q + unit)
  BY <1>0, Sizes DEF TypeOK, movs
<1> DEFINE r == n * unit
<1>2. /\ r \in Nat /\ n' * unit' = r - unit /\ r >= unit /\ r <= n0
  BY <1>0, <1>1, Remaining DEF Moving
<1>3. p0 + n0 <= MemSize /\ q0 + n0 <= MemSize /\ down \in BOOLEAN /\ fn \in Moves
  BY <1>0 DEF InCall, Legal, Moving, Blocks, TypeOK
<1>4. down = Backward(p0, q0) /\ Backward(p0, q0)' = Backward(p0, q0)
  BY <1>0 DEF Moving, Backward
<1> DEFINE lo == IF down THEN p0 + r ELSE p0
           hi == IF down THEN p0 + n0 ELSE p0 + n0 - r
<1>5. /\ p = IF down THEN lo - unit ELSE hi
      /\ q = q0 + (p - p0)
      /\ \A a \in Addrs :
           mem[a] = IF lo <= a /\ a < hi THEN before[q0 + (a - p0)] ELSE before[a]
  BY <1>0 DEF Moving
<1> HIDE DEF r
<1>6. /\ p \in Int /\ q \in Int /\ p0 <= p /\ p + unit <= p0 + n0
      /\ q0 <= q /\ q + unit <= q0 + n0
  BY <1>0, <1>1, <1>2, <1>3, <1>5, Sizes
<1>7. mem' = [a \in Addrs |-> IF p <= a /\ a < p + unit THEN mem[q + (a - p)]
                                                        ELSE mem[a]]
  BY <1>1, <1>6, Sizes, <1>0 DEF movs, Addrs
<1>8. ASSUME NEW a \in Addrs, p <= a, a < p + unit
      PROVE  /\ q + (a - p) \in Addrs
             /\ mem[q + (a - p)] = before[q0 + (a - p0)]
  <2>1. a \in Int
    BY <1>0, Sizes DEF Addrs
  <2>2. q + (a - p) = q0 + (a - p0) /\ q + (a - p) \in Addrs
    BY <1>0, <1>1, <1>3, <1>5, <1>6, <1>8, <2>1, Sizes DEF Addrs
  <2>3. ~ (lo <= q + (a - p) /\ q + (a - p) < hi)
    <3>0. /\ q + (a - p) = q0 + (a - p0) /\ p0 \in Int /\ q0 \in Int /\ r \in Int
          /\ unit \in Int /\ p \in Int /\ n0 \in Int
      BY <1>0, <1>1, <1>2, <1>6, <2>2, Sizes
    <3>1. CASE down
      <4>1. q0 < p0 /\ p + unit = lo
        <5>1. q0 < p0
          BY <1>4, <3>1, Zenon DEF Backward
        <5> QED BY <1>5, <3>0, <3>1, <5>1
      <4> QED BY <1>8, <2>1, <3>0, <3>1, <4>1
    <3>2. CASE ~down
      <4>1. (q0 >= p0 \/ q0 + n0 <= p0) /\ p = hi /\ lo = p0
        <5>1. ~ (q0 < p0 /\ q0 + n0 > p0)
          BY <1>4, <3>2, Zenon DEF Backward
        <5> QED BY <1>5, <3>0, <3>2, <5>1
      <4>2. CASE q0 >= p0
        BY <1>8, <2>1, <3>0, <4>1, <4>2
      <4>3. CASE q0 + n0 <= p0
        BY <1>6, <1>8, <2>1, <3>0, <4>1, <4>3
      <4> QED BY <4>1, <4>2, <4>3
    <3> QED BY <1>3, <3>1, <3>2
  <2> HIDE DEF lo, hi
  <2> QED BY <1>5, <2>2, <2>3
<1>9. TypeOK'
  <2>1. mem' \in [Addrs -> Bytes]
    <3> DEFINE F(a) == IF p <= a /\ a < p + unit THEN mem[q + (a - p)] ELSE mem[a]
    <3>1. \A a \in Addrs : F(a) \in Bytes
      BY <1>0, <1>8 DEF TypeOK
    <3>2. mem' = [a \in Addrs |-> F(a)]
      BY <1>7
    <3> HIDE DEF F
    <3> QED BY <3>1, <3>2
  <2>2. n' \in 0 .. MemSize /\ p' \in -unit' .. MemSize /\ q' \in -unit' .. MemSize
    BY <1>0, <1>1, <1>3, <1>6, Sizes
  <2> QED BY <1>0, <2>1, <2>2 DEF TypeOK
<1>10. Moving'
  <2> DEFINE lo1 == IF down THEN p0 + (r - unit) ELSE p0
             hi1 == IF down THEN p0 + n0 ELSE p0 + n0 - (r - unit)
  <2>1. ASSUME NEW a \in Addrs
        PROVE  mem'[a] = IF lo1 <= a /\ a < hi1 THEN before[q0 + (a - p0)]
                                                ELSE before[a]
    <3>1. a \in Int
      BY <1>0, Sizes DEF Addrs
    <3>2. mem[a] = IF lo <= a /\ a < hi THEN before[q0 + (a - p0)] ELSE before[a]
      BY <1>5
    <3>3. CASE p <= a /\ a < p + unit
      <4>1. mem'[a] = before[q0 + (a - p0)]
        BY <1>7, <1>8, <3>3
      <4>2. lo1 <= a /\ a < hi1
        BY <1>0, <1>1, <1>2, <1>3, <1>5, <1>6, <3>1, <3>3, Sizes
      <4> QED BY <4>1, <4>2
    <3>4. CASE ~ (p <= a /\ a < p + unit)
      <4>1. mem'[a] = mem[a]
        BY <1>7, <3>4
      <4>2. (lo1 <= a /\ a < hi1) <=> (lo <= a /\ a < hi)
        BY <1>0, <1>1, <1>2, <1>3, <1>5, <1>6, <3>1, <3>4, Sizes
      <4> QED BY <3>2, <4>1, <4>2
    <3> QED BY <3>3, <3>4
  <2>2. p' = (IF down THEN lo1 - unit ELSE hi1) /\ q' = q0 + (p' - p0)
    BY <1>0, <1>1, <1>2, <1>3, <1>5, Sizes
  <2>3. r - unit <= n0
    BY <1>0, <1>1, <1>2, Sizes
  <2> QED BY <1>0, <1>2, <1>3, <1>4, <2>1, <2>2, <2>3 DEF Moving
<1> QED BY <1>0, <1>9, <1>10, NotYet DEF Phase

LEMMA BlockDoneKeepsInv ==
  ASSUME SInv, BlockDone
  PROVE  SInv'
<1>0. /\ TypeOK /\ InCall /\ InCall' /\ pc' = "done" /\ n = 0
      /\ UNCHANGED <<mem, before, fn, p0, q0, n0, c, unit>>
  BY SameCall DEF SInv, BlockDone, others, args, flags
<1>1. TypeOK'
  BY <1>0, Sizes DEF BlockDone, TypeOK, flags, others, number
<1>2. unit \in Nat \ {0} /\ n * unit = 0
  BY <1>0, Sizes, Remaining DEF TypeOK
<1>3. mem = [a \in Addrs |-> mem[a]]
  BY <1>0 DEF TypeOK
<1>4. \A a \in Addrs : a \in Int
  BY <1>0, Sizes DEF Addrs
<1>5. CASE pc = "stos"
  <2>1. fn = "memset" /\ \A a \in Addrs :
          mem[a] = IF a \in p0 .. p0 + n0 - 1 THEN c % ByteSize ELSE before[a]
    BY <1>0, <1>2, <1>4, <1>5, Sizes DEF SInv, Phase, Filling, FillByte
  <2>2. BlocksRight'
    BY <1>0, <1>3, <2>1 DEF BlocksRight, Becomes, Moves
  <2> QED BY <1>0, <1>1, <2>1, <2>2
          DEF SInv, Phase, Results, CopiesRight, ScansRight, Returned
<1>6. CASE pc = "movs"
  <2>1. fn \in Moves /\ \A a \in Addrs :
          mem[a] = IF a \in p0 .. p0 + n0 - 1 THEN before[q0 + (a - p0)]
                                              ELSE before[a]
    BY <1>0, <1>2, <1>4, <1>6, Sizes DEF SInv, Phase, Moving
  <2>2. BlocksRight'
    BY <1>0, <1>3, <2>1 DEF BlocksRight, Becomes, Moves, Returned
  <2> QED BY <1>0, <1>1, <2>1, <2>2
          DEF SInv, Phase, Results, CopiesRight, ScansRight, Returned, Moves
<1> QED BY <1>5, <1>6 DEF BlockDone

-----------------------------------------------------------------------------
(* The copies of strings.                                                  *)

(* Where a copy stands: its source is not overwritten before it is read.   *)
LEMMA CopyFacts ==
  ASSUME TypeOK, InCall, Copying, NEW len \in Int, len = Length(before, q0)
  PROVE  /\ len \in Nat /\ q0 + len \in Addrs /\ before[q0 + len] = 0
         /\ \A k \in 0 .. len - 1 : before[q0 + k] # 0
         /\ Target \in Nat /\ Done \in Nat /\ p = Target + Done
         /\ fn \in {"strcpy", "strcat"} => Target + len + 1 <= MemSize
         /\ fn \in {"strncpy", "strlcpy"} =>
              Target = p0 /\ Target + n0 <= MemSize /\ Done <= n0
         /\ q \in Addrs /\ mem[q] = before[q] /\ mem[q] = Copied(Done)
         /\ Done <= len => q = q0 + Done
         /\ mem[q] = 0 <=> Done >= len
<1>1. Ends(before, q0) # {}
  BY DEF InCall, Legal, Copying, Copies
<1>2. /\ len \in Nat /\ q0 + len \in Addrs /\ before[q0 + len] = 0
      /\ \A k \in 0 .. len - 1 : before[q0 + k] # 0
  BY <1>1, LengthFacts, Sizes DEF InCall
<1>3. fn = "strcat" => Length(before, p0) \in Nat
  BY LengthFacts, Sizes DEF InCall, Legal
<1>4. Target \in Nat /\ p0 <= Target /\ p = Target + Done /\ Done \in Nat
  BY <1>3, Sizes DEF Copying, Target, Done, TypeOK
<1>5. fn \in {"strcpy", "strcat"} =>
        /\ Target + len + 1 <= MemSize
        /\ Target + len + 1 <= q0 \/ q0 + len + 1 <= p0
  <2> SUFFICES ASSUME fn \in {"strcpy", "strcat"}
               PROVE  /\ Target + (len + 1) <= MemSize
                      /\ Apart(p0, Target + (len + 1) - p0, q0, len + 1)
    BY <1>2, <1>4, Sizes DEF Apart
  <2>1. CASE fn = "strcpy"
    BY <2>1 DEF InCall, Legal, Target
  <2>2. CASE fn = "strcat"
    BY <2>2 DEF InCall, Legal, Target
  <2> QED BY <2>1, <2>2
<1>6. fn \in {"strncpy", "strlcpy"} =>
        /\ Target = p0 /\ p0 + n0 <= MemSize /\ Done <= n0
        /\ p0 + n0 <= q0 \/ q0 + len + 1 <= p0
  <2> SUFFICES ASSUME fn \in {"strncpy", "strlcpy"}
               PROVE  /\ Target = p0 /\ p0 + n0 <= MemSize /\ Done <= n0
                      /\ p0 + n0 <= q0 \/ q0 + len + 1 <= p0
    OBVIOUS
  <2>1. Target = p0 /\ p0 + n0 <= MemSize /\ Apart(p0, n0, q0, len + 1)
    BY DEF InCall, Legal, Target
  <2>2. n = n0 - Done /\ n \in Nat
    BY Sizes DEF Copying, TypeOK
  <2> QED BY <1>2, <1>4, <2>1, <2>2, Sizes DEF Apart
<1>7. fn \in Copies /\ (fn # "strncpy" => Done <= len)
  BY DEF Copying
<1>8. q = q0 + (IF Done <= len THEN Done ELSE len)
  BY DEF Copying
<1>9. q \in Addrs /\ ~ (Target <= q /\ q < p)
  <2>1. q \in Addrs /\ q0 <= q /\ q <= q0 + len
    BY <1>2, <1>4, <1>8, Sizes DEF Addrs
  <2>2. CASE fn \in {"strcpy", "strcat"}
    BY <1>2, <1>4, <1>5, <1>7, <2>1, <2>2, Sizes DEF Addrs
  <2>3. CASE fn \in {"strncpy", "strlcpy"}
    BY <1>2, <1>4, <1>6, <2>1, <2>3, Sizes DEF Addrs
  <2> QED BY <1>7, <2>1, <2>2, <2>3 DEF Copies
<1>10. mem[q] = before[q]
  BY <1>9 DEF Copying
<1>11. mem[q] = 0 <=> Done >= len
  BY <1>2, <1>4, <1>8, <1>10, Sizes
<1>12. mem[q] = Copied(Done)
  BY <1>2, <1>4, <1>8, <1>10, Sizes DEF Copied
<1> QED BY <1>2, <1>4, <1>5, <1>6, <1>8, <1>9, <1>10, <1>11, <1>12, Sizes

(* One byte more is copied.                                                *)
LEMMA ByteCopied ==
  ASSUME TypeOK, InCall, Copying, p \in Addrs, CopyByte,
         UNCHANGED <<before, fn, p0, q0>>
  PROVE  /\ mem' \in [Addrs -> Bytes] /\ Target' = Target /\ Done' = Done + 1
         /\ \A a \in Addrs :
              mem'[a] = IF Target <= a /\ a < p' THEN Copied(a - Target)
                                                 ELSE before[a]
         /\ (\A a \in Addrs :
               mem[a] = IF Target <= a /\ a < p THEN Copied(a - Target)
                                                ELSE before[a])'
<1> DEFINE len == Length(before, q0)
<1>1. len \in Int
  BY LengthFacts, Sizes DEF InCall, Legal, Copying, Copies
<1>2. /\ Target \in Nat /\ Done \in Nat /\ p = Target + Done /\ q \in Addrs
      /\ mem[q] = Copied(Done)
  BY <1>1, CopyFacts
<1>3. mem' = [mem EXCEPT ![p] = mem[q]] /\ p' = p + 1
  BY DEF CopyByte
<1>4. mem' \in [Addrs -> Bytes]
  BY <1>2, <1>3 DEF TypeOK
<1>5. Target' = Target /\ Done' = Done + 1
  <2>1. Target' = Target
    BY DEF Target
  <2> QED BY <1>2, <1>3, <2>1 DEF Done
<1>6. ASSUME NEW a \in Addrs
      PROVE  mem'[a] = IF Target <= a /\ a < p' THEN Copied(a - Target) ELSE before[a]
  <2>1. a \in Int /\ p \in Int
    BY Sizes DEF Addrs
  <2>2. mem[a] = IF Target <= a /\ a < p THEN Copied(a - Target) ELSE before[a]
    BY DEF Copying
  <2>3. CASE a = p
    <3>1. mem'[a] = Copied(Done) /\ a - Target = Done
      BY <1>2, <1>3, <2>1, <2>3 DEF TypeOK
    <3> QED BY <1>2, <1>3, <2>1, <2>3, <3>1
  <2>4. CASE a # p
    <3>1. mem'[a] = mem[a]
      BY <1>3, <2>4 DEF TypeOK
    <3> QED BY <1>2, <1>3, <2>1, <2>2, <2>4, <3>1
  <2> QED BY <2>3, <2>4
<1>7. (\A a \in Addrs :
         mem[a] = IF Target <= a /\ a < p THEN Copied(a - Target) ELSE before[a])'
  <2> SUFFICES ASSUME NEW a \in Addrs
               PROVE  mem'[a] = IF Target' <= a /\ a < p' THEN Copied(a - Target)'
                                                           ELSE before'[a]
    OBVIOUS
  <2>1. Copied(a - Target)' = Copied(a - Target)
    BY <1>5 DEF Copied
  <2> QED BY <1>5, <1>6, <2>1
<1> QED BY <1>4, <1>5, <1>6, <1>7

LEMMA StrcpyKeepsInv ==
  ASSUME SInv, strcpy
  PROVE  SInv'
<1>0. /\ pc = "copy" /\ fn \in {"strcpy", "strcat"} /\ TypeOK /\ InCall /\ InCall'
      /\ Copying /\ CopyByte /\ q' = q + 1
      /\ UNCHANGED <<before, fn, p0, q0, n0, c, n, unit, down, neg, val, base>>
  BY SameCall DEF SInv, Phase, strcpy, others, args, flags, number
<1> DEFINE len == Length(before, q0)
<1>1. len \in Int
  BY <1>0, LengthFacts, Sizes DEF InCall, Legal
<1>2. /\ len \in Nat /\ q0 + len \in Addrs /\ before[q0 + len] = 0
      /\ Target \in Nat /\ Done \in Nat /\ p = Target + Done
      /\ Target + len + 1 <= MemSize /\ q = q0 + Done /\ Done <= len
      /\ q \in Addrs /\ (mem[q] = 0 <=> Done >= len)
  <2>1. Done <= len
    BY <1>0 DEF Copying
  <2> QED BY <1>0, <1>1, <2>1, CopyFacts
<1>3. p \in Addrs /\ p' = p + 1
  BY <1>0, <1>2, Sizes DEF Addrs, CopyByte
<1>4. /\ mem' \in [Addrs -> Bytes] /\ Target' = Target /\ Done' = Done + 1
      /\ \A a \in Addrs :
           mem'[a] = IF Target <= a /\ a < p' THEN Copied(a - Target) ELSE before[a]
      /\ (\A a \in Addrs :
            mem[a] = IF Target <= a /\ a < p THEN Copied(a - Target)
                                             ELSE before[a])'
  BY <1>0, <1>3, ByteCopied
<1> HIDE DEF len
<1>5. TypeOK'
  <2>1. unit' = 1 /\ n' \in 0 .. MemSize
    BY <1>0 DEF TypeOK, Copying
  <2>2. p' \in -unit' .. MemSize /\ q' \in -unit' .. MemSize
    BY <1>0, <1>2, <1>3, <2>1, Sizes DEF Addrs
  <2>3. ret' \in Int \cup {NULL} /\ pc' \in {"copy", "done"}
    BY <1>0, Sizes DEF strcpy, TypeOK
  <2> QED BY <1>0, <1>4, <2>1, <2>2, <2>3 DEF TypeOK
<1>6. CASE mem[q] # 0
  <2>1. pc' = "copy" /\ Done < len
    BY <1>0, <1>2, <1>6 DEF strcpy
  <2>2. Copying'
    <3>1. len' = len /\ q' = q0' + Done' /\ Done' \in Nat /\ Done' <= len'
      BY <1>0, <1>2, <1>4, <2>1, Sizes DEF len
    <3>2. fn' \in Copies /\ unit' = 1 /\ n' = n0' /\ fn' \notin {"strncpy", "strlcpy"}
      BY <1>0 DEF Copying, Copies
    <3> QED BY <1>4, <3>1, <3>2 DEF Copying, len
  <2> QED BY <1>0, <1>5, <2>1, <2>2, NotYet DEF Phase
<1>7. CASE mem[q] = 0
  <2>1. pc' = "done" /\ Done = len /\ p' = Target + (len + 1)
    BY <1>0, <1>2, <1>3, <1>7 DEF strcpy
  <2>2. ASSUME NEW a \in Addrs
        PROVE  mem'[a] = IF a \in Target .. Target + (len + 1) - 1
                           THEN before[q0 + (a - Target)] ELSE before[a]
    <3>1. a \in Int
      BY <1>0, Sizes DEF Addrs
    <3>2. CASE a \in Target .. Target + (len + 1) - 1
      <4>1. mem'[a] = Copied(a - Target)
        BY <1>2, <1>4, <2>1, <3>1, <3>2
      <4>2. CASE a - Target < len
        BY <3>2, <4>1, <4>2 DEF Copied, len
      <4>3. CASE a - Target = len
        BY <1>2, <3>2, <4>1, <4>3 DEF Copied, len
      <4> QED BY <1>2, <3>1, <3>2, <4>2, <4>3
    <3>3. CASE a \notin Target .. Target + (len + 1) - 1
      BY <1>2, <1>4, <2>1, <3>1, <3>3
    <3> QED BY <3>2, <3>3
  <2>3. mem' = [a \in Addrs |-> IF a \in Target .. Target + (len + 1) - 1
                                  THEN before'[q0' + (a - Target)] ELSE before'[a]]
    BY <1>0, <1>4, <2>2
  <2>4. CopiesRight'
    <3>1. CASE fn = "strcpy"
      BY <1>0, <2>3, <3>1 DEF CopiesRight, Returned, Becomes, Target, len
    <3>2. CASE fn = "strcat"
      BY <1>0, <2>3, <3>2 DEF CopiesRight, Returned, Becomes, Target, len
    <3> QED BY <1>0, <3>1, <3>2
  <2> QED BY <1>0, <1>5, <2>1, <2>4
          DEF SInv, Phase, Results, BlocksRight, ScansRight, Returned, Moves
<1> QED BY <1>6, <1>7

LEMMA StrncpyKeepsInv ==
  ASSUME SInv, strncpy
  PROVE  SInv'
<1>0. /\ pc = "copy" /\ fn = "strncpy" /\ TypeOK /\ InCall /\ InCall' /\ Copying
      /\ UNCHANGED <<before, fn, p0, q0, n0, c, unit, down, neg, val, base>>
  BY SameCall DEF SInv, Phase, strncpy, others, args, flags, number
<1> DEFINE len == Length(before, q0)
<1>1. len \in Int
  BY <1>0, LengthFacts, Sizes DEF InCall, Legal
<1>2. /\ len \in Nat /\ q0 + len \in Addrs /\ before[q0 + len] = 0
      /\ Target \in Nat /\ Done \in Nat /\ p = Target + Done
      /\ Target = p0 /\ p0 + n0 <= MemSize /\ Done <= n0
      /\ q \in Addrs /\ (mem[q] = 0 <=> Done >= len)
      /\ q = q0 + (IF Done <= len THEN Done ELSE len)
      /\ n = n0 - Done /\ n \in Nat /\ unit = 1
  <2>1. n = n0 - Done /\ unit = 1 /\ q = q0 + (IF Done <= len THEN Done ELSE len)
    BY <1>0 DEF Copying
  <2> HIDE DEF len
  <2>2. n \in Nat
    BY <1>0, Sizes DEF TypeOK
  <2>3. Target = p0 /\ Target + n0 <= MemSize /\ Done <= n0
    BY <1>0, <1>1, CopyFacts DEF len
  <2>4. /\ len \in Nat /\ q0 + len \in Addrs /\ before[q0 + len] = 0
        /\ Target \in Nat /\ Done \in Nat /\ p = Target + Done
        /\ q \in Addrs /\ (mem[q] = 0 <=> Done >= len)
    BY <1>0, <1>1, CopyFacts DEF len
  <2> QED BY <2>1, <2>2, <2>3, <2>4
<1> HIDE DEF len
<1>3. CASE n > 0
  <2>1. /\ CopyByte /\ q' = (IF mem[q] # 0 THEN q + 1 ELSE q) /\ n' = n - 1
        /\ ret' = ret /\ pc' = "copy"
    BY <1>0, <1>3 DEF strncpy
  <2>2. p \in Addrs /\ p' = p + 1
    BY <1>0, <1>2, <1>3, <2>1, Sizes DEF Addrs, CopyByte
  <2>3. /\ mem' \in [Addrs -> Bytes] /\ Target' = Target /\ Done' = Done + 1
        /\ (\A a \in Addrs :
              mem[a] = IF Target <= a /\ a < p THEN Copied(a - Target)
                                               ELSE before[a])'
    BY <1>0, <2>1, <2>2, ByteCopied
  <2>4. TypeOK'
    <3>1. unit' = 1 /\ n' \in 0 .. MemSize
      BY <1>0, <1>2, <1>3, <2>1, Sizes
    <3>2. p' \in -unit' .. MemSize /\ q' \in -unit' .. MemSize
      BY <1>0, <1>2, <2>1, <2>2, <3>1, Sizes DEF Addrs
    <3> QED BY <1>0, <2>1, <2>3, <3>1, <3>2 DEF TypeOK
  <2>5. Copying'
    <3>1. len' = len
      BY <1>0 DEF len
    <3>2. q' = q0' + (IF Done' <= len' THEN Done' ELSE len') /\ Done' \in Nat
      BY <1>0, <1>2, <2>1, <2>3, <3>1, Sizes
    <3>3. fn' = "strncpy" /\ unit' = 1 /\ n' = n0' - Done'
      BY <1>0, <1>2, <2>1, <2>3, Sizes
    <3> QED BY <2>3, <3>2, <3>3 DEF Copying, Copies, len
  <2> QED BY <1>0, <2>1, <2>4, <2>5, NotYet DEF Phase
<1>4. CASE ~ (n > 0)
  <2>1. ret' = p0 /\ pc' = "done" /\ UNCHANGED <<mem, p, q, n>>
    BY <1>0, <1>4 DEF strncpy
  <2>2. TypeOK'
    BY <1>0, <2>1, Sizes DEF TypeOK
  <2>3. Done = n0 /\ p = p0 + n0
    BY <1>2, <1>4, Sizes, <1>0
  <2>4. ASSUME NEW a \in Addrs
        PROVE  mem[a] = IF a \in p0 .. p0 + n0 - 1
                          THEN IF a - p0 <= len THEN before[q0 + (a - p0)] ELSE 0
                          ELSE before[a]
    <3>1. a \in Int /\ mem[a] = IF Target <= a /\ a < p THEN Copied(a - Target)
                                                        ELSE before[a]
      BY <1>0, Sizes DEF Addrs, Copying
    <3>2. Copied(a - p0) = IF a - p0 <= len THEN before[q0 + (a - p0)] ELSE 0
      <4>1. CASE a - p0 = len
        BY <1>2, <4>1 DEF Copied, len
      <4>2. CASE a - p0 # len
        <5>1. (a - p0 < len) <=> (a - p0 <= len)
          BY <1>2, <3>1, <4>2
        <5> QED BY <5>1 DEF Copied, len
      <4> QED BY <4>1, <4>2
    <3> QED BY <1>0, <1>2, <2>3, <3>1, <3>2, Sizes
  <2>5. mem' = [a \in Addrs |->
                  IF a \in p0 .. p0 + n0 - 1
                    THEN IF a - p0 <= len THEN before[q0 + (a - p0)] ELSE 0
                    ELSE before[a]]
    BY <2>1, <2>4, <1>0 DEF TypeOK
  <2>6. CopiesRight'
    BY <1>0, <2>5 DEF CopiesRight, Returned, Becomes, len
  <2> QED BY <1>0, <2>1, <2>2, <2>6
          DEF SInv, Phase, Results, BlocksRight, ScansRight, Returned, Moves
<1> QED BY <1>3, <1>4

LEMMA StrlcpyKeepsInv ==
  ASSUME SInv, strlcpy
  PROVE  SInv'
<1>0. /\ pc = "copy" /\ fn = "strlcpy" /\ TypeOK /\ InCall /\ InCall' /\ Copying
      /\ UNCHANGED <<before, fn, p0, q0, n0, c, unit, down, neg, val, base>>
  BY SameCall DEF SInv, Phase, strlcpy, others, args, flags, number
<1> DEFINE len == Length(before, q0)
<1>1. len \in Int
  BY <1>0, LengthFacts, Sizes DEF InCall, Legal
<1>2. /\ len \in Nat /\ q0 + len \in Addrs /\ before[q0 + len] = 0
      /\ Target \in Nat /\ Done \in Nat /\ p = Target + Done
      /\ Target = p0 /\ p0 + n0 <= MemSize /\ Done <= n0 /\ Done <= len
      /\ (Done = 0 \/ Done <= n0 - 1)
      /\ q \in Addrs /\ (mem[q] = 0 <=> Done >= len) /\ q = q0 + Done
      /\ n = n0 - Done /\ n \in Nat /\ unit = 1
  <2>1. n = n0 - Done /\ unit = 1 /\ Done <= len /\ (Done = 0 \/ Done <= n0 - 1)
    BY <1>0 DEF Copying
  <2> HIDE DEF len
  <2>2. n \in Nat
    BY <1>0, Sizes DEF TypeOK
  <2>3. Target = p0 /\ Target + n0 <= MemSize /\ Done <= n0
    BY <1>0, <1>1, CopyFacts DEF len
  <2>4. /\ len \in Nat /\ q0 + len \in Addrs /\ before[q0 + len] = 0
        /\ Target \in Nat /\ Done \in Nat /\ p = Target + Done
        /\ q \in Addrs /\ (mem[q] = 0 <=> Done >= len)
        /\ (Done <= len => q = q0 + Done)
    BY <1>0, <1>1, CopyFacts DEF len
  <2> QED BY <2>1, <2>2, <2>3, <2>4
<1> HIDE DEF len
<1>3. CASE n > 1 /\ mem[q] # 0
  <2>1. /\ CopyByte /\ q' = q + 1 /\ n' = n - 1
        /\ ret' = ret /\ pc' = "copy"
    BY <1>0, <1>3 DEF strlcpy, KeepsRoom
  <2>2. p \in Addrs /\ p' = p + 1
    BY <1>0, <1>2, <1>3, <2>1, Sizes DEF Addrs, CopyByte
  <2>3. /\ mem' \in [Addrs -> Bytes] /\ Target' = Target /\ Done' = Done + 1
        /\ (\A a \in Addrs :
              mem[a] = IF Target <= a /\ a < p THEN Copied(a - Target)
                                               ELSE before[a])'
    BY <1>0, <2>1, <2>2, ByteCopied
  <2>4. TypeOK'
    <3>1. unit' = 1 /\ n' \in 0 .. MemSize
      BY <1>0, <1>2, <1>3, <2>1, Sizes
    <3>2. p' \in -unit' .. MemSize /\ q' \in -unit' .. MemSize
      BY <1>0, <1>2, <2>1, <2>2, <3>1, Sizes DEF Addrs
    <3> QED BY <1>0, <2>1, <2>3, <3>1, <3>2 DEF TypeOK
  <2>5. Copying'
    <3>1. len' = len
      BY <1>0 DEF len
    <3>2. q' = q0' + Done' /\ Done' \in Nat /\ Done' <= len' /\ Done' <= n0' - 1
      BY <1>0, <1>2, <1>3, <2>1, <2>3, <3>1, Sizes
    <3>3. fn' = "strlcpy" /\ unit' = 1 /\ n' = n0' - Done'
      BY <1>0, <1>2, <2>1, <2>3, Sizes
    <3> QED BY <2>3, <3>2, <3>3 DEF Copying, Copies, len
  <2> QED BY <1>0, <2>1, <2>4, <2>5, NotYet DEF Phase
<1>4. CASE ~ (n > 1 /\ mem[q] # 0)
  <2>1. /\ mem' = (IF n0 > 0 THEN [mem EXCEPT ![p] = 0] ELSE mem)
        /\ ret' = Done /\ pc' = "done" /\ UNCHANGED <<p, q, n>>
    BY <1>0, <1>2, <1>4 DEF strlcpy, KeepsRoom, Done
  <2>2. mem' \in [Addrs -> Bytes]
    <3>1. 0 \in Bytes
      BY Sizes, <1>0 DEF Bytes
    <3> QED BY <1>0, <2>1, <3>1 DEF TypeOK
  <2>3. TypeOK'
    BY <1>0, <1>2, <2>1, <2>2 DEF TypeOK
  <2>4. n0 > 0 => /\ Done <= n0 - 1 /\ p \in Addrs
                  /\ Done = IF len < n0 - 1 THEN len ELSE n0 - 1
    BY <1>0, <1>2, <1>4, Sizes DEF Addrs
  <2>5. ASSUME n0 = 0 PROVE CopiesRight'
    <3>1. mem = [a \in Addrs |-> mem[a]] /\ before = [a \in Addrs |-> before[a]]
      BY <1>0 DEF TypeOK, InCall
    <3>2. Done = 0 /\ mem' = mem /\ p = p0
      BY <1>2, <2>1, <2>5, <1>0, Sizes
    <3>3. \A a \in Addrs : mem[a] = before[a]
      BY <1>0, <1>2, <3>2, Sizes DEF Copying, Addrs
    <3>4. mem' = before
      BY <3>1, <3>2, <3>3
    <3> QED BY <1>0, <2>1, <2>5, <3>2, <3>4 DEF CopiesRight, Returned
  <2>6. ASSUME n0 > 0 PROVE CopiesRight'
    <3>1. ASSUME NEW a \in Addrs
          PROVE  mem'[a] = IF a \in p0 .. p0 + (Done + 1) - 1
                             THEN IF a - p0 < n0 - 1 THEN before[q0 + (a - p0)] ELSE 0
                             ELSE before[a]
      <4>1. a \in Int /\ mem[a] = IF Target <= a /\ a < p THEN Copied(a - Target)
                                                          ELSE before[a]
        BY <1>0, Sizes DEF Addrs, Copying
      <4>2. mem'[a] = IF a = p THEN 0 ELSE mem[a]
        BY <1>0, <2>1, <2>4, <2>6 DEF TypeOK
      <4>3. CASE a = p
        <5>1. a - p0 = Done /\ a \in p0 .. p0 + (Done + 1) - 1
          BY <1>0, <1>2, <4>1, <4>3, Sizes
        <5>2. CASE Done < n0 - 1
          <6>1. Done = len
            BY <1>0, <1>2, <2>4, <2>6, <5>2, Sizes
          <6> QED BY <1>2, <4>2, <4>3, <5>1, <6>1
        <5>3. CASE ~ (Done < n0 - 1)
          BY <4>2, <4>3, <5>1, <5>3
        <5> QED BY <5>2, <5>3
      <4>4. CASE a # p /\ p0 <= a /\ a < p
        <5>1. a - p0 < n0 - 1 /\ a - p0 < len /\ a \in p0 .. p0 + (Done + 1) - 1
          BY <1>0, <1>2, <2>4, <2>6, <4>1, <4>4, Sizes
        <5>2. mem'[a] = before[q0 + (a - p0)]
          BY <1>2, <4>1, <4>2, <4>4, <5>1 DEF Copied, len
        <5> QED BY <5>1, <5>2
      <4>5. CASE a # p /\ ~ (p0 <= a /\ a < p)
        <5>1. a \notin p0 .. p0 + (Done + 1) - 1
          BY <1>0, <1>2, <4>1, <4>5, Sizes
        <5> QED BY <1>2, <4>1, <4>2, <4>5, <5>1
      <4> QED BY <4>3, <4>4, <4>5
    <3>2. mem' = [a \in Addrs |->
                    IF a \in p0 .. p0 + (Done + 1) - 1
                      THEN IF a - p0 < n0 - 1 THEN before[q0 + (a - p0)] ELSE 0
                      ELSE before[a]]
      BY <2>2, <3>1
    <3>3. n0 # 0 /\ Done = IF len < n0 - 1 THEN len ELSE n0 - 1
      BY <2>4, <2>6
    <3> DEFINE short == IF len < n0 - 1 THEN len ELSE n0 - 1
    <3>4. mem' = [a \in Addrs |->
                    IF a \in p0 .. p0 + (short + 1) - 1
                      THEN IF a - p0 < n0 - 1 THEN before[q0 + (a - p0)] ELSE 0
                      ELSE before[a]]
          /\ ret' = short
      BY <2>1, <3>2, <3>3
    <3> QED BY <1>0, <3>3, <3>4 DEF CopiesRight, Returned, Becomes, len
  <2>7. CopiesRight'
    BY <2>5, <2>6, <1>0, Sizes
  <2> QED BY <1>0, <2>1, <2>3, <2>7
          DEF SInv, Phase, Results, BlocksRight, ScansRight, Returned, Moves
<1> QED BY <1>3, <1>4

-----------------------------------------------------------------------------
(* Strings and blocks as sequences, and their order.                       *)

LEMMA StrFacts ==
  ASSUME NEW m \in [Addrs -> Bytes], NEW s \in Nat, Ends(m, s) # {},
         NEW l \in Nat, l = Length(m, s)
  PROVE  /\ Str(m, s) \in Seq(Int) /\ Len(Str(m, s)) = l
         /\ \A j \in 1 .. l : Str(m, s)[j] = m[s + j - 1]
<1>1. s + l \in Addrs
  BY LengthFacts
<1>2. \A j \in 1 .. l : m[s + j - 1] \in Int
  <2> SUFFICES ASSUME NEW j \in 1 .. l PROVE m[s + j - 1] \in Int
    OBVIOUS
  <2>1. MemSize \in Int /\ \A b \in Bytes : b \in Int
    BY StringAssumption DEF Bytes
  <2>2. s + j - 1 \in Addrs
    BY <1>1, <2>1 DEF Addrs
  <2> QED BY <2>1, <2>2
<1>3. Str(m, s) = [j \in 1 .. l |-> m[s + j - 1]]
  BY DEF Str
<1> HIDE DEF Str
<1> QED BY <1>2, <1>3

LEMMA BlockFacts ==
  ASSUME InCall, NEW s \in Nat, s + n0 <= MemSize
  PROVE  /\ Block(s, n0) \in Seq(Int) /\ Len(Block(s, n0)) = n0
         /\ \A j \in 1 .. n0 : Block(s, n0)[j] = before[s + j - 1]
<1>1. \A j \in 1 .. n0 : before[s + j - 1] \in Int
  <2> SUFFICES ASSUME NEW j \in 1 .. n0 PROVE before[s + j - 1] \in Int
    OBVIOUS
  <2>1. s + j - 1 \in Addrs /\ \A b \in Bytes : b \in Int
    BY Sizes DEF Addrs, Bytes
  <2> QED BY <2>1 DEF InCall
<1>2. Block(s, n0) = [j \in 1 .. n0 |-> before[s + j - 1]]
  BY DEF Block
<1> QED BY <1>1, <1>2, Sizes

LEMMA FirstFacts ==
  ASSUME NEW s \in Seq(Int), NEW k \in Nat,
         NEW l \in Nat, l = IF k < Len(s) THEN k ELSE Len(s)
  PROVE  /\ First(s, k) \in Seq(Int) /\ Len(First(s, k)) = l
         /\ \A j \in 1 .. l : First(s, k)[j] = s[j]
<1>1. First(s, k) = SubSeq(s, 1, l) /\ l <= Len(s)
  BY DEF First
<1> QED BY <1>1

LEMMA PlaceIs ==
  ASSUME NEW s \in Seq(Int), NEW ch, NEW k \in 1 .. Len(s) + 1,
         k <= Len(s) => s[k] = ch, \A j \in 1 .. k - 1 : s[j] # ch
  PROVE  Place(s, ch) = k
<1> DEFINE At(i) == (i <= Len(s) => s[i] = ch) /\ \A j \in 1 .. i - 1 : s[j] # ch
<1>1. ASSUME NEW i \in 1 .. Len(s) + 1, At(i) PROVE i = k
  <2>1. Len(s) \in Nat
    OBVIOUS
  <2>2. CASE i < k
    <3>1. i \in 1 .. k - 1 /\ i <= Len(s)
      BY <2>1, <2>2
    <3> QED BY <1>1, <3>1
  <2>3. CASE k < i
    <3>1. k \in 1 .. i - 1 /\ k <= Len(s)
      BY <2>1, <2>3
    <3> QED BY <1>1, <3>1
  <2> QED BY <2>1, <2>2, <2>3
<1>2. At(k)
  OBVIOUS
<1>3. Place(s, ch) = CHOOSE i \in 1 .. Len(s) + 1 : At(i)
  BY DEF Place
<1> HIDE DEF At
<1> QED BY <1>1, <1>2, <1>3

(* Where two sequences part decides their order, and nothing parts them    *)
(* that end together.                                                      *)
LEMMA Parting ==
  ASSUME NEW s \in Seq(Int), NEW t \in Seq(Int), NEW k \in Nat,
         k <= Len(s), k < Len(t), \A j \in 1 .. k : s[j] = t[j],
         k < Len(s) => s[k + 1] < t[k + 1]
  PROVE  Precedes(s, t) /\ ~Precedes(t, s)
<1>0. Len(s) \in Nat /\ Len(t) \in Nat
  OBVIOUS
<1>1. Precedes(s, t)
  <2>1. k + 1 \in 1 .. Len(t) /\ (k + 1) - 1 = k
    BY <1>0
  <2>2. k + 1 <= Len(s) => s[k + 1] < t[k + 1]
    BY <1>0
  <2> QED BY <2>1, <2>2 DEF Precedes
<1>2. ~Precedes(t, s)
  <2> SUFFICES ASSUME NEW i \in 1 .. Len(s), i - 1 <= Len(t),
                      \A j \in 1 .. i - 1 : t[j] = s[j], i <= Len(t) => t[i] < s[i]
               PROVE  FALSE
    BY DEF Precedes
  <2>0. \A j \in 1 .. Len(s) : s[j] \in Int
    OBVIOUS
  <2>1. \A j \in 1 .. Len(t) : t[j] \in Int
    OBVIOUS
  <2>2. CASE i <= k
    <3>1. i \in 1 .. k /\ i <= Len(t)
      BY <1>0, <2>2
    <3> QED BY <2>0, <2>1, <3>1
  <2>3. CASE i = k + 1
    <3>1. i <= Len(t) /\ k < Len(s)
      BY <1>0, <2>3
    <3> QED BY <1>0, <2>0, <2>1, <2>3, <3>1
  <2>4. CASE i > k + 1
    <3>1. k + 1 \in 1 .. i - 1 /\ k + 1 <= Len(t) /\ k + 1 <= Len(s) /\ k < Len(s)
      BY <1>0, <2>4
    <3>2. t[k + 1] = s[k + 1] /\ s[k + 1] < t[k + 1]
      BY <3>1
    <3> QED BY <1>0, <2>0, <3>1, <3>2
  <2> QED BY <1>0, <2>2, <2>3, <2>4
<1> QED BY <1>1, <1>2

LEMMA Together ==
  ASSUME NEW s \in Seq(Int), NEW t \in Seq(Int), Len(s) = Len(t),
         \A j \in 1 .. Len(s) : s[j] = t[j]
  PROVE  ~Precedes(s, t) /\ ~Precedes(t, s)
<1>1. \A j \in 1 .. Len(s) : s[j] \in Int /\ t[j] \in Int
  OBVIOUS
<1> QED BY <1>1 DEF Precedes

(* A result of the sign that the order of s and t asks for.                *)
Ranks(r, s, t) == (r < 0 <=> Precedes(s, t)) /\ (r > 0 <=> Precedes(t, s))

LEMMA Ranked ==
  ASSUME NEW s \in Seq(Int), NEW t \in Seq(Int), NEW k \in Nat,
         k <= Len(s), k <= Len(t), \A j \in 1 .. k : s[j] = t[j],
         NEW x \in Int, NEW y \in Int,
         k < Len(s) => s[k + 1] = x, k < Len(t) => t[k + 1] = y,
         x < y => k < Len(t), y < x => k < Len(s),
         x = y => Len(s) = k /\ Len(t) = k
  PROVE  Ranks(x - y, s, t)
<1>0. Len(s) \in Nat /\ Len(t) \in Nat
  OBVIOUS
<1>1. CASE x < y
  <2>1. Precedes(s, t) /\ ~Precedes(t, s)
    BY <1>1, Parting
  <2> QED BY <1>1, <2>1 DEF Ranks
<1>2. CASE y < x
  <2>1. Precedes(t, s) /\ ~Precedes(s, t)
    <3>1. \A j \in 1 .. k : t[j] = s[j]
      OBVIOUS
    <3> QED BY <1>2, <3>1, Parting
  <2> QED BY <1>2, <2>1 DEF Ranks
<1>3. CASE x = y
  <2>1. ~Precedes(s, t) /\ ~Precedes(t, s)
    BY <1>3, Together
  <2> QED BY <1>3, <2>1 DEF Ranks
<1> QED BY <1>1, <1>2, <1>3

-----------------------------------------------------------------------------
(* The searches and comparisons.                                           *)

Texts == {"strlen", "strnlen", "strfind", "strchr", "strcmp", "strncmp"}

(* A search stands within its string, its block and its limit.             *)
LEMMA ScanFacts ==
  ASSUME TypeOK, InCall, Scanning, NEW k, k = p - p0
  PROVE  /\ k \in Nat /\ p = p0 + k /\ mem = before /\ unit = 1
         /\ fn \in Compare => q = q0 + k
         /\ fn \notin Compare => q = q0
         /\ Limited => n = n0 - k /\ k <= n0 /\ n \in Nat
         /\ fn \in Texts =>
              /\ Length(before, p0) \in Nat /\ k <= Length(before, p0)
              /\ p0 + Length(before, p0) \in Addrs
              /\ before[p0 + Length(before, p0)] = 0
              /\ \A j \in 0 .. Length(before, p0) - 1 : before[p0 + j] # 0
              /\ p \in Addrs /\ (before[p] = 0 <=> k = Length(before, p0))
         /\ fn \in {"strcmp", "strncmp"} =>
              /\ Length(before, q0) \in Nat /\ k <= Length(before, q0)
              /\ q0 + Length(before, q0) \in Addrs
              /\ q \in Addrs /\ (before[q] = 0 <=> k = Length(before, q0))
         /\ fn = "memcmp" => p0 + n0 <= MemSize /\ q0 + n0 <= MemSize
         /\ fn = "memfind" => p0 + n0 <= MemSize
<1>1. /\ k \in Nat /\ p = p0 + k /\ mem = before /\ unit = 1 /\ n \in Nat
      /\ fn \in Compare => q = q0 + k
      /\ fn \notin Compare => q = q0
      /\ Limited => n = n0 - k /\ k <= n0
  BY Sizes DEF Scanning, TypeOK
<1>2. \A j \in 0 .. k - 1 :
        /\ fn \in Texts => before[p0 + j] # 0
        /\ fn \in Compare => before[p0 + j] = before[q0 + j]
  BY DEF Scanning, Texts
<1>3. ASSUME fn \in Texts
      PROVE  /\ Length(before, p0) \in Nat /\ k <= Length(before, p0)
             /\ p0 + Length(before, p0) \in Addrs
             /\ before[p0 + Length(before, p0)] = 0
             /\ \A j \in 0 .. Length(before, p0) - 1 : before[p0 + j] # 0
             /\ p \in Addrs /\ (before[p] = 0 <=> k = Length(before, p0))
  <2> DEFINE l == Length(before, p0)
  <2>1. Ends(before, p0) # {}
    BY <1>3 DEF InCall, Legal, Texts
  <2>2. /\ l \in Nat /\ p0 + l \in Addrs /\ before[p0 + l] = 0
        /\ \A j \in 0 .. l - 1 : before[p0 + j] # 0
    BY <2>1, LengthFacts, Sizes DEF InCall
  <2> HIDE DEF l
  <2>3. k <= l
    <3> SUFFICES ASSUME l < k PROVE FALSE
      BY <1>1, <2>2
    <3>1. l \in 0 .. k - 1
      BY <1>1, <2>2
    <3> QED BY <1>2, <1>3, <2>2, <3>1
  <2>4. p \in Addrs
    BY <1>1, <2>2, <2>3, Sizes DEF Addrs
  <2>5. before[p] = 0 <=> k = l
    <3>1. k < l => k \in 0 .. l - 1
      BY <1>1, <2>2
    <3> QED BY <1>1, <2>2, <2>3, <3>1
  <2> QED BY <2>2, <2>3, <2>4, <2>5 DEF l
<1>4. ASSUME fn \in {"strcmp", "strncmp"}
      PROVE  /\ Length(before, q0) \in Nat /\ k <= Length(before, q0)
             /\ q0 + Length(before, q0) \in Addrs
             /\ q \in Addrs /\ (before[q] = 0 <=> k = Length(before, q0))
  <2> DEFINE l == Length(before, q0)
  <2>0. fn \in Texts /\ fn \in Compare
    BY <1>4 DEF Texts, Compare
  <2>1. Ends(before, q0) # {}
    BY <1>4 DEF InCall, Legal
  <2>2. /\ l \in Nat /\ q0 + l \in Addrs /\ before[q0 + l] = 0
        /\ \A j \in 0 .. l - 1 : before[q0 + j] # 0
    BY <2>1, LengthFacts, Sizes DEF InCall
  <2> HIDE DEF l
  <2>3. k <= l
    <3> SUFFICES ASSUME l < k PROVE FALSE
      BY <1>1, <2>2
    <3>1. l \in 0 .. k - 1
      BY <1>1, <2>2
    <3> QED BY <1>2, <2>0, <2>2, <3>1
  <2>4. q \in Addrs
    BY <1>1, <2>0, <2>2, <2>3, Sizes DEF Addrs
  <2>5. before[q] = 0 <=> k = l
    <3>1. k < l => k \in 0 .. l - 1
      BY <1>1, <2>2
    <3> QED BY <1>1, <2>0, <2>2, <2>3, <3>1
  <2> QED BY <2>2, <2>3, <2>4, <2>5 DEF l
<1>5. /\ fn = "memcmp" => p0 + n0 <= MemSize /\ q0 + n0 <= MemSize
      /\ fn = "memfind" => p0 + n0 <= MemSize
  BY DEF InCall, Legal
<1> HIDE DEF Texts
<1> QED BY <1>1, <1>3, <1>4, <1>5

Passes ==
  /\ Limited => n > 0
  /\ fn \notin {"memcmp", "memfind"} => mem[p] # 0
  /\ fn \in Compare => mem[p] = mem[q]
  /\ fn \in {"strchr", "strfind"} => mem[p] # c
  /\ fn = "memfind" => mem[p] # c % ByteSize

LEMMA ScanGoesOn ==
  ASSUME SInv, pc = "scan", Passes, UNCHANGED <<mem, others, flags, ret, pc>>,
         p' = p + 1, q' = IF fn \in Compare THEN q + 1 ELSE q,
         n' = IF n > 0 THEN n - 1 ELSE n
  PROVE  SInv'
<1>0. /\ TypeOK /\ InCall /\ InCall' /\ Scanning
      /\ UNCHANGED <<mem, before, fn, p0, q0, n0, c, unit, down, neg, val, base,
                     ret, pc>>
  BY SameCall DEF SInv, Phase, others, args, flags, number
<1> DEFINE k == p - p0
<1>1. /\ k \in Nat /\ p = p0 + k /\ mem = before /\ unit = 1
      /\ fn \in Compare => q = q0 + k
      /\ fn \notin Compare => q = q0
      /\ Limited => n = n0 - k /\ k <= n0 /\ n \in Nat
  <2> HIDE DEF k
  <2>1. k = p - p0
    BY DEF k
  <2> QED BY <1>0, <2>1, ScanFacts
<1>2. fn \in Scans \cup Compare
  BY <1>0 DEF Scanning
<1>3. p + 1 <= MemSize
  <2>1. CASE fn \in Texts
    <3>1. p \in Addrs
      BY <1>0, <2>1, ScanFacts
    <3> QED BY <1>0, <3>1, Sizes DEF Addrs
  <2>2. CASE fn \in {"memcmp", "memfind"}
    <3>1. p0 + n0 <= MemSize
      BY <1>0, <2>2, ScanFacts
    <3>2. n > 0 /\ n = n0 - k /\ n \in Nat
      BY <1>1, <2>2 DEF Passes, Limited
    <3> QED BY <1>0, <1>1, <3>1, <3>2, Sizes
  <2> QED BY <1>2, <2>1, <2>2 DEF Texts, Scans, Compare
<1>4. fn \in Compare => q + 1 <= MemSize
  <2>1. CASE fn \in {"strcmp", "strncmp"}
    <3>1. q \in Addrs
      BY <1>0, <2>1, ScanFacts
    <3> QED BY <1>0, <3>1, Sizes DEF Addrs
  <2>2. CASE fn = "memcmp"
    <3>1. q0 + n0 <= MemSize
      BY <1>0, <2>2, ScanFacts
    <3>2. n > 0 /\ n = n0 - k /\ n \in Nat /\ q = q0 + k
      BY <1>1, <2>2 DEF Passes, Limited, Compare
    <3> QED BY <1>0, <1>1, <3>1, <3>2, Sizes
  <2> QED BY <2>1, <2>2 DEF Compare
<1>5. TypeOK'
  <2>1. n' \in 0 .. MemSize
    BY <1>0, Sizes DEF TypeOK
  <2>2. p' \in -unit' .. MemSize /\ q' \in -unit' .. MemSize
    BY <1>0, <1>1, <1>3, <1>4, Sizes
  <2> QED BY <1>0, <2>1, <2>2 DEF TypeOK
<1>6. Scanning'
  <2>1. p' - p0' = k + 1 /\ (p' - p0' \in Nat)
    BY <1>0, <1>1, Sizes
  <2>2. q' = IF fn' \in Compare THEN q0' + (p' - p0') ELSE q0'
    BY <1>0, <1>1, <2>1, Sizes
  <2>3. Limited' => n' = n0' - (p' - p0') /\ p' - p0' <= n0'
    <3> SUFFICES ASSUME Limited PROVE n' = n0 - (k + 1) /\ k + 1 <= n0
      BY <1>0, <2>1 DEF Limited
    <3>1. n > 0 /\ n = n0 - k /\ n \in Nat
      BY <1>1 DEF Passes
    <3> QED BY <1>0, <1>1, <3>1, Sizes
  <2>4. ASSUME NEW j \in 0 .. k
        PROVE  /\ fn \notin {"memcmp", "memfind"} => before[p0 + j] # 0
               /\ fn \in Compare => before[p0 + j] = before[q0 + j]
               /\ fn \in {"strchr", "strfind"} => before[p0 + j] # c
               /\ fn = "memfind" => before[p0 + j] # c % ByteSize
    <3>1. CASE j = k
      BY <1>1, <3>1 DEF Passes
    <3>2. CASE j # k
      <4>1. j \in 0 .. p - p0 - 1
        BY <1>1, <3>2
      <4> QED BY <1>0, <4>1 DEF Scanning
    <3> QED BY <3>1, <3>2
  <2>5. p' - p0' - 1 = k
    BY <1>1, <2>1
  <2> HIDE DEF k
  <2> QED BY <1>0, <1>1, <1>2, <2>1, <2>2, <2>3, <2>4, <2>5 DEF Scanning
<1> QED BY <1>0, <1>5, <1>6, NotYet DEF Phase

LEMMA ScanEnds ==
  ASSUME SInv, pc = "scan", UNCHANGED <<mem, others, p, q, n, flags>>, pc' = "done",
         ret' \in Int \cup {NULL}, TypeOK' => ScansRight'
  PROVE  SInv'
<1>0. /\ TypeOK /\ InCall /\ InCall' /\ Scanning
      /\ UNCHANGED <<mem, before, fn, p0, q0, n0, c, unit, down, neg, val, base>>
  BY SameCall DEF SInv, Phase, others, args, flags, number
<1>1. TypeOK'
  BY <1>0 DEF TypeOK
<1>2. fn \in Scans \cup Compare
  BY <1>0 DEF Scanning
<1>3. BlocksRight' /\ CopiesRight'
  BY <1>0, <1>2 DEF BlocksRight, CopiesRight, Returned, Moves, Scans, Compare
<1> QED BY <1>0, <1>1, <1>3 DEF SInv, Phase, Results

LEMMA ScanState ==
  ASSUME SInv, pc = "scan"
  PROVE  /\ TypeOK /\ InCall /\ Scanning /\ before \in [Addrs -> Bytes]
         /\ p - p0 \in Nat /\ mem = before
BY DEF SInv, Phase, InCall, Scanning

LEMMA StrlenKeepsInv ==
  ASSUME SInv, strlen
  PROVE  SInv'
<1>0. pc = "scan" /\ fn = "strlen"
  BY DEF strlen, Scan
<1>1. CASE mem[p] # 0
  <2>1. Passes
    BY <1>0, <1>1 DEF Passes, Limited, Compare
  <2> QED BY <1>0, <1>1, <2>1, ScanGoesOn DEF strlen, Scan
<1>2. CASE mem[p] = 0
  <2>1. ret' = p - p0 /\ pc' = "done" /\ UNCHANGED <<mem, others, p, q, n, flags>>
    BY <1>2 DEF strlen, Scan
  <2>2. p - p0 = Length(before, p0) /\ Length(before, p0) \in Nat
    BY <1>0, <1>2, ScanState, ScanFacts DEF Texts
  <2>3. Len(Str(before, p0)) = Length(before, p0)
    BY <1>0, <2>2, ScanState, StrFacts, Sizes DEF InCall, Legal
  <2>4. TypeOK' => ScansRight'
    BY <1>0, <2>1, <2>2, <2>3 DEF ScansRight, Returned, others, args
  <2> QED BY <1>0, <2>1, <2>2, <2>4, ScanEnds
<1> QED BY <1>1, <1>2

LEMMA StrnlenKeepsInv ==
  ASSUME SInv, strnlen
  PROVE  SInv'
<1>0. pc = "scan" /\ fn = "strnlen"
  BY DEF strnlen, Scan
<1>1. CASE n > 0 /\ mem[p] # 0
  <2>1. Passes
    BY <1>0, <1>1 DEF Passes, Limited, Compare
  <2> QED BY <1>0, <1>1, <2>1, ScanGoesOn DEF strnlen, Scan
<1>2. CASE ~ (n > 0 /\ mem[p] # 0)
  <2> DEFINE k == p - p0
             len == Length(before, p0)
             s == Str(before, p0)
  <2>1. ret' = k /\ pc' = "done" /\ UNCHANGED <<mem, others, p, q, n, flags>>
    BY <1>2 DEF strnlen, Scan
  <2>2. /\ k \in Nat /\ len \in Nat /\ k <= len /\ (before[p] = 0 <=> k = len)
        /\ n = n0 - k /\ k <= n0 /\ n \in Nat /\ mem = before
    BY <1>0, ScanState, ScanFacts DEF Texts, Limited
  <2>3. s \in Seq(Int) /\ Len(s) = len
    BY <1>0, <2>2, ScanState, StrFacts, Sizes DEF InCall, Legal
  <2>4. k = (IF n0 < len THEN n0 ELSE len) /\ n0 \in Nat
    <3> HIDE DEF k, len
    <3> QED BY <1>0, <1>2, <2>2, ScanState, Sizes
  <2>5. Len(First(s, n0)) = k
    <3> HIDE DEF k, len, s
    <3> QED BY <2>2, <2>3, <2>4, FirstFacts
  <2>6. TypeOK' => ScansRight'
    BY <1>0, <2>1, <2>5 DEF ScansRight, Returned, others, args
  <2> QED BY <1>0, <2>1, <2>2, <2>6, ScanEnds
<1> QED BY <1>1, <1>2

(* The place of c in the string, for strfind and strchr.                   *)
LEMMA PlaceInStr ==
  ASSUME SInv, pc = "scan", fn \in {"strfind", "strchr"},
         mem[p] = 0 \/ mem[p] = c
  PROVE  LET s == Str(before, p0) IN
         /\ p \in Nat /\ Len(s) \in Nat
         /\ p = p0 + Place(s, c) - 1
         /\ mem[p] = 0 <=> Place(s, c) > Len(s)
<1> DEFINE k == p - p0
           len == Length(before, p0)
           s == Str(before, p0)
<1>1. /\ k \in Nat /\ p = p0 + k /\ len \in Nat /\ k <= len
      /\ (before[p] = 0 <=> k = len) /\ mem = before
  BY ScanState, ScanFacts DEF Texts
<1>2. /\ s \in Seq(Int) /\ Len(s) = len
      /\ \A j \in 1 .. len : s[j] = before[p0 + j - 1]
  BY <1>1, ScanState, StrFacts, Sizes DEF InCall, Legal
<1>3. p0 \in Nat
  BY ScanState, Sizes
<1>4. \A j \in 1 .. k : s[j] # c
  <2> SUFFICES ASSUME NEW j \in 1 .. k PROVE s[j] # c
    OBVIOUS
  <2>1. j - 1 \in 0 .. p - p0 - 1 /\ p0 + (j - 1) = p0 + j - 1 /\ j \in 1 .. len
    BY <1>1, <1>3
  <2>2. before[p0 + (j - 1)] # c
    BY <2>1, ScanState DEF Scanning
  <2> QED BY <1>2, <2>1, <2>2
<1>5. k < len => s[k + 1] = c
  <2> SUFFICES ASSUME k < len PROVE s[k + 1] = c
    OBVIOUS
  <2>1. mem[p] = c
    BY <1>1
  <2>2. k + 1 \in 1 .. len /\ p0 + (k + 1) - 1 = p
    BY <1>1, <1>3
  <2> QED BY <1>1, <1>2, <2>1, <2>2
<1> HIDE DEF k, s, len
<1>6. Place(s, c) = k + 1
  <2>1. k + 1 \in 1 .. Len(s) + 1 /\ (k + 1 <= Len(s) => s[k + 1] = c) /\ (k + 1) - 1 = k
    BY <1>1, <1>2, <1>5
  <2>2. \A j \in 1 .. (k + 1) - 1 : s[j] # c
    BY <1>4, <2>1
  <2> QED BY <1>2, <2>1, <2>2, PlaceIs
<1>7. /\ p \in Nat /\ Len(s) \in Nat /\ p = p0 + Place(s, c) - 1
      /\ mem[p] = 0 <=> Place(s, c) > Len(s)
  BY <1>1, <1>2, <1>3, <1>6
<1> QED BY <1>7 DEF s

LEMMA StrfindKeepsInv ==
  ASSUME SInv, strfind
  PROVE  SInv'
<1>0. pc = "scan" /\ fn = "strfind"
  BY DEF strfind, Scan
<1>1. CASE mem[p] # 0 /\ mem[p] # c
  <2>1. Passes
    BY <1>0, <1>1 DEF Passes, Limited, Compare
  <2> QED BY <1>0, <1>1, <2>1, ScanGoesOn DEF strfind, Scan
<1>2. CASE ~ (mem[p] # 0 /\ mem[p] # c)
  <2>1. ret' = p /\ pc' = "done" /\ UNCHANGED <<mem, others, p, q, n, flags>>
    BY <1>2 DEF strfind, Scan
  <2>2. p \in Int /\ p = p0 + Place(Str(before, p0), c) - 1
    BY <1>0, <1>2, PlaceInStr
  <2>3. TypeOK' => ScansRight'
    BY <1>0, <2>1, <2>2 DEF ScansRight, Returned, others, args
  <2> QED BY <1>0, <2>1, <2>2, <2>3, ScanEnds
<1> QED BY <1>1, <1>2

LEMMA StrchrKeepsInv ==
  ASSUME SInv, strchr
  PROVE  SInv'
<1>0. pc = "scan" /\ fn = "strchr"
  BY DEF strchr, Scan
<1>1. CASE mem[p] # 0 /\ mem[p] # c
  <2>1. Passes
    BY <1>0, <1>1 DEF Passes, Limited, Compare
  <2> QED BY <1>0, <1>1, <2>1, ScanGoesOn DEF strchr, Scan
<1>2. CASE ~ (mem[p] # 0 /\ mem[p] # c)
  <2>1. /\ ret' = (IF mem[p] = 0 THEN NULL ELSE p)
        /\ pc' = "done" /\ UNCHANGED <<mem, others, p, q, n, flags>>
    BY <1>2 DEF strchr, Scan
  <2> DEFINE s == Str(before, p0)
  <2>2. /\ p \in Int /\ p = p0 + Place(s, c) - 1
        /\ mem[p] = 0 <=> Place(s, c) > Len(s)
    BY <1>0, <1>2, PlaceInStr
  <2>3. IF Place(s, c) > Len(s) THEN ret' = NULL ELSE ret' = p0 + Place(s, c) - 1
    BY <2>1, <2>2
  <2>4. TypeOK' => ScansRight'
    BY <1>0, <2>1, <2>3 DEF ScansRight, Returned, others, args
  <2> QED BY <1>0, <2>1, <2>2, <2>4, ScanEnds
<1> QED BY <1>1, <1>2

LEMMA MemfindKeepsInv ==
  ASSUME SInv, memfind
  PROVE  SInv'
<1>0. pc = "scan" /\ fn = "memfind"
  BY DEF memfind, Scan
<1> DEFINE ch == c % ByteSize
<1>1. CASE n > 0 /\ mem[p] # ch
  <2>1. Passes
    BY <1>0, <1>1 DEF Passes, Limited, Compare
  <2> QED BY <1>0, <1>1, <2>1, ScanGoesOn DEF memfind, Scan
<1>2. CASE ~ (n > 0 /\ mem[p] # ch)
  <2> DEFINE k == p - p0
             s == Block(p0, n0)
  <2>1. ret' = p /\ pc' = "done" /\ UNCHANGED <<mem, others, p, q, n, flags>>
    BY <1>2 DEF memfind, Scan
  <2>2. /\ k \in Nat /\ p = p0 + k /\ n = n0 - k /\ k <= n0 /\ n \in Nat
        /\ mem = before /\ p0 + n0 <= MemSize /\ p0 \in Nat
    BY <1>0, ScanState, ScanFacts, Sizes DEF Texts, Limited
  <2>3. /\ s \in Seq(Int) /\ Len(s) = n0
        /\ \A j \in 1 .. n0 : s[j] = before[p0 + j - 1]
    BY <1>0, <2>2, ScanState, BlockFacts
  <2>4. \A j \in 1 .. k : s[j] # ch
    <3> SUFFICES ASSUME NEW j \in 1 .. k PROVE s[j] # ch
      OBVIOUS
    <3>0. n0 \in Nat
      BY <1>0, ScanState, Sizes
    <3>1. j - 1 \in 0 .. p - p0 - 1 /\ p0 + (j - 1) = p0 + j - 1 /\ j \in 1 .. n0
      BY <2>2, <3>0
    <3>2. before[p0 + (j - 1)] # ch
      BY <1>0, <3>1, ScanState DEF Scanning
    <3> QED BY <2>3, <3>1, <3>2
  <2>5. k < n0 => s[k + 1] = ch
    <3> SUFFICES ASSUME k < n0 PROVE s[k + 1] = ch
      OBVIOUS
    <3>0. n0 \in Nat
      BY <1>0, ScanState, Sizes
    <3>1. mem[p] = ch
      BY <1>2, <2>2, <3>0
    <3>2. k + 1 \in 1 .. n0 /\ p0 + (k + 1) - 1 = p
      BY <2>2, <3>0
    <3> QED BY <2>2, <2>3, <3>1, <3>2
  <2> HIDE DEF k, s, ch
  <2>6. p \in Int
    BY <2>2
  <2>7. Place(s, ch) = k + 1
    <3>0. s \in Seq(Int) /\ k \in Nat
      BY <2>2, <2>3
    <3>1. /\ k + 1 \in 1 .. Len(s) + 1 /\ (k + 1) - 1 = k
          /\ (k + 1 <= Len(s) => s[k + 1] = ch)
      BY <2>2, <2>3, <2>5
    <3>2. \A j \in 1 .. (k + 1) - 1 : s[j] # ch
      BY <2>4, <3>1
    <3> QED BY <3>0, <3>1, <3>2, PlaceIs
  <2>8. ret' = p0 + Place(s, ch) - 1
    BY <2>1, <2>2, <2>7
  <2>9. TypeOK' => ScansRight'
    <3>1. ret' = p0 + Place(Block(p0, n0), c % ByteSize) - 1
      BY <2>8 DEF s, ch
    <3>2. UNCHANGED <<before, fn, p0, n0, c>>
      BY <2>1 DEF others, args
    <3>3. (ret = p0 + Place(Block(p0, n0), c % ByteSize) - 1)'
      <4>1. Block(p0, n0)' = Block(p0, n0)
        BY <3>2 DEF Block
      <4> QED BY <3>1, <3>2, <4>1, Zenon
    <3> QED BY <1>0, <3>2, <3>3, Zenon DEF ScansRight, Returned
  <2> QED BY <1>0, <2>1, <2>6, <2>9, ScanEnds
<1> QED BY <1>1, <1>2

(* The comparisons: where the loop stops, the bytes decide.                *)
LEMMA StrcmpKeepsInv ==
  ASSUME SInv, strcmp
  PROVE  SInv'
<1>0. pc = "scan" /\ fn = "strcmp"
  BY DEF strcmp, Scan
<1>1. CASE mem[p] # 0 /\ mem[p] = mem[q]
  <2>1. Passes
    BY <1>0, <1>1 DEF Passes, Limited
  <2> QED BY <1>0, <1>1, <2>1, ScanGoesOn DEF strcmp, Scan
<1>2. CASE ~ (mem[p] # 0 /\ mem[p] = mem[q])
  <2> DEFINE k == p - p0
             l == Length(before, p0)
             m == Length(before, q0)
             s == Str(before, p0)
             t == Str(before, q0)
  <2>1. /\ ret' = before[p] - before[q]
        /\ pc' = "done" /\ UNCHANGED <<mem, others, p, q, n, flags>>
    BY <1>0, <1>2, ScanState DEF strcmp, Scan, Diff
  <2>2. /\ k \in Nat /\ p = p0 + k /\ q = q0 + k /\ mem = before
        /\ l \in Nat /\ k <= l /\ p \in Addrs /\ (before[p] = 0 <=> k = l)
        /\ m \in Nat /\ k <= m /\ q \in Addrs /\ (before[q] = 0 <=> k = m)
    BY <1>0, ScanState, ScanFacts DEF Texts, Compare
  <2>3. /\ s \in Seq(Int) /\ Len(s) = l
        /\ \A j \in 1 .. l : s[j] = before[p0 + j - 1]
    BY <1>0, <2>2, ScanState, StrFacts, Sizes DEF InCall, Legal
  <2>4. /\ t \in Seq(Int) /\ Len(t) = m
        /\ \A j \in 1 .. m : t[j] = before[q0 + j - 1]
    BY <1>0, <2>2, ScanState, StrFacts, Sizes DEF InCall, Legal
  <2>5. p0 \in Nat /\ q0 \in Nat /\ before[p] \in Nat /\ before[q] \in Nat
    BY <1>0, <2>2, ScanState, Sizes DEF Bytes
  <2>6. \A j \in 1 .. k : s[j] = t[j]
    <3> SUFFICES ASSUME NEW j \in 1 .. k PROVE s[j] = t[j]
      OBVIOUS
    <3>1. /\ j - 1 \in 0 .. p - p0 - 1 /\ j \in 1 .. l /\ j \in 1 .. m
          /\ p0 + (j - 1) = p0 + j - 1 /\ q0 + (j - 1) = q0 + j - 1
      BY <2>2, <2>5
    <3>2. before[p0 + (j - 1)] = before[q0 + (j - 1)]
      BY <1>0, <3>1, ScanState DEF Scanning, Compare
    <3> QED BY <2>3, <2>4, <3>1, <3>2
  <2>7. /\ k < l => s[k + 1] = before[p]
        /\ k < m => t[k + 1] = before[q]
    <3>1. p0 + (k + 1) - 1 = p /\ q0 + (k + 1) - 1 = q
      BY <2>2, <2>5
    <3>2. (k < l => k + 1 \in 1 .. l) /\ (k < m => k + 1 \in 1 .. m)
      BY <2>2
    <3> HIDE DEF k, l, m, s, t
    <3> QED BY <2>3, <2>4, <3>1, <3>2
  <2> HIDE DEF k, l, m, s, t
  <2>8. /\ before[p] < before[q] => k < m
        /\ before[q] < before[p] => k < l
        /\ before[p] = before[q] => l = k /\ m = k
    BY <1>2, <2>2, <2>5
  <2>9. Ranks(before[p] - before[q], s, t)
    <3>1. k <= Len(s) /\ k <= Len(t)
      BY <2>2, <2>3, <2>4
    <3>2. (k < Len(s) => s[k + 1] = before[p]) /\ (k < Len(t) => t[k + 1] = before[q])
      BY <2>3, <2>4, <2>7
    <3>3. /\ before[p] < before[q] => k < Len(t)
          /\ before[q] < before[p] => k < Len(s)
          /\ before[p] = before[q] => Len(s) = k /\ Len(t) = k
      BY <2>3, <2>4, <2>8
    <3>4. /\ s \in Seq(Int) /\ t \in Seq(Int) /\ k \in Nat
          /\ before[p] \in Int /\ before[q] \in Int
      BY <2>2, <2>3, <2>4, <2>5
    <3> QED BY <2>6, <3>1, <3>2, <3>3, <3>4, Ranked
  <2>10. TypeOK' => ScansRight'
    BY <1>0, <2>1, <2>9 DEF ScansRight, Orders, Ranks, Returned, others, args, s, t
  <2>11. ret' \in Int
    BY <2>1, <2>5
  <2> QED BY <1>0, <2>1, <2>10, <2>11, ScanEnds
<1> QED BY <1>1, <1>2

LEMMA StrncmpKeepsInv ==
  ASSUME SInv, strncmp
  PROVE  SInv'
<1>0. pc = "scan" /\ fn = "strncmp"
  BY DEF strncmp, Scan
<1>1. CASE n > 0 /\ mem[p] # 0 /\ mem[p] = mem[q]
  <2>1. Passes
    BY <1>0, <1>1 DEF Passes
  <2> QED BY <1>0, <1>1, <2>1, ScanGoesOn DEF strncmp, Scan
<1>2. CASE ~ (n > 0 /\ mem[p] # 0 /\ mem[p] = mem[q])
  <2> DEFINE k == p - p0
             l == Length(before, p0)
             m == Length(before, q0)
             s == Str(before, p0)
             t == Str(before, q0)
             fs == First(s, n0)
             ft == First(t, n0)
             x == IF n = 0 THEN 0 ELSE before[p]
             y == IF n = 0 THEN 0 ELSE before[q]
  <2>1. /\ k \in Nat /\ p = p0 + k /\ q = q0 + k /\ mem = before
        /\ n = n0 - k /\ k <= n0 /\ n \in Nat
        /\ l \in Nat /\ k <= l /\ p \in Addrs /\ (before[p] = 0 <=> k = l)
        /\ m \in Nat /\ k <= m /\ q \in Addrs /\ (before[q] = 0 <=> k = m)
    BY <1>0, ScanState, ScanFacts DEF Texts, Compare, Limited
  <2>2. /\ p0 \in Nat /\ q0 \in Nat /\ n0 \in Nat
        /\ before[p] \in Nat /\ before[q] \in Nat
    BY <1>0, <2>1, ScanState, Sizes DEF Bytes
  <2>3. /\ ret' = x - y /\ x \in Nat /\ y \in Nat
        /\ pc' = "done" /\ UNCHANGED <<mem, others, p, q, n, flags>>
    BY <1>0, <1>2, <2>1, <2>2 DEF strncmp, Scan, Diff
  <2>4. /\ s \in Seq(Int) /\ Len(s) = l
        /\ \A j \in 1 .. l : s[j] = before[p0 + j - 1]
    BY <1>0, <2>1, ScanState, StrFacts, Sizes DEF InCall, Legal
  <2>5. /\ t \in Seq(Int) /\ Len(t) = m
        /\ \A j \in 1 .. m : t[j] = before[q0 + j - 1]
    BY <1>0, <2>1, ScanState, StrFacts, Sizes DEF InCall, Legal
  <2> DEFINE lf == IF n0 < l THEN n0 ELSE l
             mf == IF n0 < m THEN n0 ELSE m
  <2>6. /\ fs \in Seq(Int) /\ Len(fs) = lf /\ lf \in Nat
        /\ \A j \in 1 .. lf : fs[j] = before[p0 + j - 1]
    <3> HIDE DEF l, s
    <3>1. lf \in Nat /\ \A j \in 1 .. lf : j \in 1 .. l
      BY <2>1, <2>2
    <3>2. fs \in Seq(Int) /\ Len(fs) = lf /\ \A j \in 1 .. lf : fs[j] = s[j]
      BY <2>4, <2>2, <3>1, FirstFacts
    <3> QED BY <2>4, <3>1, <3>2
  <2>7. /\ ft \in Seq(Int) /\ Len(ft) = mf /\ mf \in Nat
        /\ \A j \in 1 .. mf : ft[j] = before[q0 + j - 1]
    <3> HIDE DEF m, t
    <3>1. mf \in Nat /\ \A j \in 1 .. mf : j \in 1 .. m
      BY <2>1, <2>2
    <3>2. ft \in Seq(Int) /\ Len(ft) = mf /\ \A j \in 1 .. mf : ft[j] = t[j]
      BY <2>5, <2>2, <3>1, FirstFacts
    <3> QED BY <2>5, <3>1, <3>2
  <2>8. k <= lf /\ k <= mf
    <3> HIDE DEF k, l, m
    <3> QED BY <2>1, <2>2
  <2> HIDE DEF s, t, fs, ft
  <2>9. \A j \in 1 .. k : fs[j] = ft[j]
    <3> SUFFICES ASSUME NEW j \in 1 .. k PROVE fs[j] = ft[j]
      OBVIOUS
    <3>1. /\ j - 1 \in 0 .. p - p0 - 1 /\ p0 + (j - 1) = p0 + j - 1
          /\ q0 + (j - 1) = q0 + j - 1
      BY <2>1, <2>2
    <3>2. before[p0 + (j - 1)] = before[q0 + (j - 1)]
      BY <1>0, <3>1, ScanState DEF Scanning, Compare
    <3> HIDE DEF k, lf, mf
    <3>3. j \in 1 .. lf /\ j \in 1 .. mf
      BY <2>1, <2>6, <2>7, <2>8
    <3> QED BY <2>6, <2>7, <3>1, <3>2, <3>3
  <2>10. /\ k < lf => fs[k + 1] = x
         /\ k < mf => ft[k + 1] = y
    <3>1. p0 + (k + 1) - 1 = p /\ q0 + (k + 1) - 1 = q
      BY <2>1, <2>2
    <3>2. (k < lf \/ k < mf) => n # 0
      <4> HIDE DEF k, l, m
      <4> QED BY <2>1, <2>2
    <3> HIDE DEF k, lf, mf
    <3>3. (k < lf => k + 1 \in 1 .. lf) /\ (k < mf => k + 1 \in 1 .. mf)
      BY <2>1, <2>6, <2>7
    <3> QED BY <2>6, <2>7, <3>1, <3>2, <3>3
  <2>11. /\ x < y => k < mf
         /\ y < x => k < lf
         /\ x = y => lf = k /\ mf = k
    <3> HIDE DEF k, l, m
    <3> QED BY <1>2, <2>1, <2>2
  <2> HIDE DEF k, lf, mf, x, y
  <2>12. Ranks(x - y, fs, ft)
    <3>1. k <= Len(fs) /\ k <= Len(ft)
      BY <2>6, <2>7, <2>8
    <3>2. (k < Len(fs) => fs[k + 1] = x) /\ (k < Len(ft) => ft[k + 1] = y)
      BY <2>6, <2>7, <2>10
    <3>3. /\ x < y => k < Len(ft)
          /\ y < x => k < Len(fs)
          /\ x = y => Len(fs) = k /\ Len(ft) = k
      BY <2>6, <2>7, <2>11
    <3>4. fs \in Seq(Int) /\ ft \in Seq(Int) /\ k \in Nat /\ x \in Int /\ y \in Int
      BY <2>3, <2>1, <2>6, <2>7
    <3> QED BY <2>9, <3>1, <3>2, <3>3, <3>4, Ranked
  <2>13. TypeOK' => ScansRight'
    BY <1>0, <2>3, <2>12
       DEF ScansRight, Orders, Ranks, Returned, others, args, s, t, fs, ft
  <2>14. ret' \in Int
    BY <2>3
  <2> QED BY <1>0, <2>3, <2>13, <2>14, ScanEnds
<1> QED BY <1>1, <1>2

LEMMA MemcmpKeepsInv ==
  ASSUME SInv, memcmp
  PROVE  SInv'
<1>0. pc = "scan" /\ fn = "memcmp"
  BY DEF memcmp, Scan
<1>1. CASE n > 0 /\ mem[p] = mem[q]
  <2>1. Passes
    BY <1>0, <1>1 DEF Passes
  <2> QED BY <1>0, <1>1, <2>1, ScanGoesOn DEF memcmp, Scan
<1>2. CASE ~ (n > 0 /\ mem[p] = mem[q])
  <2> DEFINE k == p - p0
             s == Block(p0, n0)
             t == Block(q0, n0)
             x == IF n = 0 THEN 0 ELSE before[p]
             y == IF n = 0 THEN 0 ELSE before[q]
  <2>1. /\ k \in Nat /\ p = p0 + k /\ q = q0 + k /\ mem = before
        /\ n = n0 - k /\ k <= n0 /\ n \in Nat
        /\ p0 + n0 <= MemSize /\ q0 + n0 <= MemSize
    BY <1>0, ScanState, ScanFacts DEF Compare, Limited
  <2>2. p0 \in Nat /\ q0 \in Nat /\ n0 \in Nat
    BY <1>0, ScanState, Sizes
  <2>3. n # 0 => before[p] \in Nat /\ before[q] \in Nat
    <3>1. n # 0 => p \in Addrs /\ q \in Addrs
      <4> HIDE DEF k
      <4> QED BY <1>0, <2>1, <2>2, ScanState, Sizes DEF Addrs
    <3> QED BY <1>0, <3>1, ScanState, Sizes DEF Bytes
  <2>4. /\ ret' = x - y /\ x \in Nat /\ y \in Nat
        /\ pc' = "done" /\ UNCHANGED <<mem, others, p, q, n, flags>>
    BY <1>0, <1>2, <2>1, <2>3 DEF memcmp, Scan, Diff
  <2>5. /\ s \in Seq(Int) /\ Len(s) = n0
        /\ \A j \in 1 .. n0 : s[j] = before[p0 + j - 1]
    BY <1>0, <2>1, <2>2, ScanState, BlockFacts
  <2>6. /\ t \in Seq(Int) /\ Len(t) = n0
        /\ \A j \in 1 .. n0 : t[j] = before[q0 + j - 1]
    BY <1>0, <2>1, <2>2, ScanState, BlockFacts
  <2> HIDE DEF s, t
  <2>7. \A j \in 1 .. k : s[j] = t[j]
    <3> SUFFICES ASSUME NEW j \in 1 .. k PROVE s[j] = t[j]
      OBVIOUS
    <3>1. /\ j - 1 \in 0 .. p - p0 - 1 /\ p0 + (j - 1) = p0 + j - 1
          /\ q0 + (j - 1) = q0 + j - 1 /\ j \in 1 .. n0
      BY <2>1, <2>2
    <3>2. before[p0 + (j - 1)] = before[q0 + (j - 1)]
      BY <1>0, <3>1, ScanState DEF Scanning, Compare
    <3> QED BY <2>5, <2>6, <3>1, <3>2
  <2>8. k < n0 => s[k + 1] = x /\ t[k + 1] = y
    <3>1. p0 + (k + 1) - 1 = p /\ q0 + (k + 1) - 1 = q
      BY <2>1, <2>2
    <3> HIDE DEF k
    <3>2. k < n0 => n # 0 /\ k + 1 \in 1 .. n0
      BY <2>1, <2>2
    <3> QED BY <2>5, <2>6, <3>1, <3>2
  <2>9. /\ (x < y \/ y < x) => k < n0
        /\ x = y => n0 = k
    <3> HIDE DEF k
    <3> QED BY <1>2, <2>1, <2>2, <2>3
  <2> HIDE DEF k, x, y
  <2>10. Ranks(x - y, s, t)
    <3>1. k <= Len(s) /\ k <= Len(t)
      BY <2>1, <2>5, <2>6
    <3>2. (k < Len(s) => s[k + 1] = x) /\ (k < Len(t) => t[k + 1] = y)
      BY <2>5, <2>6, <2>8
    <3>3. /\ x < y => k < Len(t)
          /\ y < x => k < Len(s)
          /\ x = y => Len(s) = k /\ Len(t) = k
      BY <2>5, <2>6, <2>9
    <3>4. s \in Seq(Int) /\ t \in Seq(Int) /\ k \in Nat /\ x \in Int /\ y \in Int
      BY <2>4, <2>1, <2>5, <2>6
    <3> QED BY <2>7, <3>1, <3>2, <3>3, <3>4, Ranked
  <2>11. TypeOK' => ScansRight'
    <3>1. UNCHANGED <<before, fn, p0, q0, n0>>
      BY <2>4 DEF others, args
    <3>2. Block(p0, n0)' = s /\ Block(q0, n0)' = t
      BY <3>1 DEF Block, s, t
    <3>3. Orders(Block(p0, n0), Block(q0, n0))'
      BY <2>4, <2>10, <3>2 DEF Orders, Ranks
    <3> QED BY <1>0, <3>1, <3>3 DEF ScansRight, Returned
  <2>12. ret' \in Int
    BY <2>4
  <2> QED BY <1>0, <2>4, <2>11, <2>12, ScanEnds
<1> QED BY <1>1, <1>2

-----------------------------------------------------------------------------
(* strtol.                                                                 *)

LEMMA WrapIsLong ==
  ASSUME NEW v \in Int
  PROVE  Wrap(v) \in Longs
<1>1. LONG_MAX \in Nat /\ Modulus \in Nat \ {0} /\ Modulus = 2 * LONG_MAX + 2
  BY StringAssumption DEF Modulus
<1> DEFINE low == v % Modulus
<1>2. low \in 0 .. Modulus - 1
  BY <1>1
<1> HIDE DEF low
<1>3. Wrap(v) = IF low \in Longs THEN low ELSE low - Modulus
  BY DEF Wrap, low
<1> QED BY <1>1, <1>2, <1>3 DEF Longs

(* A character that is not the NUL is not the last.                        *)
LEMMA NumeralFacts ==
  ASSUME SInv, pc \in {"sign", "prefix", "digits"}
  PROVE  /\ TypeOK /\ InCall /\ fn = "strtol" /\ mem = before /\ unit = 1
         /\ p0 \in Nat /\ p \in Nat /\ p0 <= p /\ Length(before, p0) \in Nat
         /\ p <= p0 + Length(before, p0) /\ p0 + Length(before, p0) < MemSize
         /\ mem[p] # 0 => p < p0 + Length(before, p0)
         /\ mem[p] # 0 /\ mem[p + 1] # 0 => p + 1 < p0 + Length(before, p0)
<1>1. TypeOK /\ InCall /\ Parsing
  BY DEF SInv, Phase
<1>2. fn = "strtol" /\ mem = before /\ unit = 1 /\ p0 <= p
      /\ p <= p0 + Length(before, p0) /\ Ends(before, p0) # {}
      /\ before \in [Addrs -> Bytes]
  BY <1>1 DEF Parsing, InCall, Legal
<1> DEFINE len == Length(before, p0)
<1>3. len \in Nat /\ p0 + len \in Addrs /\ before[p0 + len] = 0 /\ p0 \in Nat
  BY <1>1, <1>2, LengthFacts, Sizes
<1>4. p \in Int
  BY <1>1, <1>2 DEF TypeOK
<1> HIDE DEF len
<1>5. /\ mem[p] # 0 => p < p0 + len
      /\ mem[p] # 0 /\ mem[p + 1] # 0 => p + 1 < p0 + len
  <2>0. p <= p0 + len
    BY <1>2 DEF len
  <2>1. mem[p] # 0 => p # p0 + len
    BY <1>2, <1>3
  <2>2. mem[p + 1] # 0 => p + 1 # p0 + len
    BY <1>2, <1>3
  <2> QED BY <1>3, <1>4, <2>0, <2>1, <2>2
<1>6. p \in Nat /\ p0 + len < MemSize
  BY <1>1, <1>2, <1>3, <1>4, Sizes DEF Addrs
<1> QED BY <1>1, <1>2, <1>3, <1>5, <1>6 DEF len

LEMMA Characters ==
  0 \notin Blanks \cup {Plus, Minus} \cup DOMAIN DigitValue
    /\ Zero # 0 /\ LowerX # 0
BY StringAssumption

LEMMA StrtolKeepsInv ==
  ASSUME SInv, Gobble \/ Sign \/ Prefix \/ Digit
  PROVE  SInv'
<1>0. /\ pc \in {"sign", "prefix", "digits"} /\ pc' \in {"sign", "prefix", "digits"}
      /\ UNCHANGED <<mem, before, fn, p0, q0, n0, c, q, n, unit, down, ret>>
  BY DEF Gobble, Sign, Prefix, Digit, others, args, flags
<1> DEFINE len == Length(before, p0)
<1>1. /\ TypeOK /\ InCall /\ fn = "strtol" /\ mem = before /\ unit = 1
      /\ p0 \in Nat /\ p \in Nat /\ p0 <= p /\ len \in Nat
      /\ p <= p0 + len /\ p0 + len < MemSize
      /\ mem[p] # 0 => p < p0 + len
      /\ mem[p] # 0 /\ mem[p + 1] # 0 => p + 1 < p0 + len
  BY <1>0, NumeralFacts
<1>2. InCall'
  BY <1>0, <1>1, SameCall DEF args
<1> HIDE DEF len
<1>3. /\ p' \in {p, p + 1, p + 2}
      /\ p' = p + 1 => mem[p] # 0
      /\ p' = p + 2 => mem[p] # 0 /\ mem[p + 1] # 0
  <2>1. CASE Gobble
    BY <1>1, <2>1, Characters DEF Gobble
  <2>2. CASE Sign
    BY <1>1, <2>2, Characters DEF Sign
  <2>3. CASE Prefix
    BY <1>1, <2>3, Characters DEF Prefix
  <2>4. CASE Digit
    BY <1>1, <2>4, Characters DEF Digit, IsDigit
  <2> QED BY <2>1, <2>2, <2>3, <2>4
<1>4. p' \in Nat /\ p0 <= p' /\ p' <= p0 + len
  BY <1>1, <1>3
<1>5. neg' \in BOOLEAN /\ val' \in Longs /\ base' \in 0 .. 36
  <2>1. CASE Gobble
    BY <1>1, <2>1 DEF Gobble, TypeOK, others, number
  <2>2. CASE Sign
    BY <1>1, <2>2 DEF Sign, TypeOK
  <2>3. CASE Prefix
    BY <1>1, <2>3 DEF Prefix, TypeOK
  <2>4. CASE Digit
    <3>1. DigitValue[mem[p]] \in Int
      BY <2>4, StringAssumption DEF Digit, IsDigit
    <3>2. val \in Int /\ base \in Int
      BY <1>1, StringAssumption DEF TypeOK, Longs
    <3>3. val * base + DigitValue[mem[p]] \in Int
      BY <3>1, <3>2
    <3>4. val' \in Longs
      BY <2>4, <3>3, WrapIsLong DEF Digit
    <3> QED BY <1>1, <2>4, <3>4 DEF Digit, TypeOK
  <2> QED BY <2>1, <2>2, <2>3, <2>4
<1>6. TypeOK'
  <2>1. p' \in -unit' .. MemSize
    BY <1>0, <1>1, <1>4, Sizes
  <2> QED BY <1>0, <1>1, <1>5, <2>1 DEF TypeOK
<1>7. Parsing'
  BY <1>0, <1>1, <1>4 DEF Parsing, len
<1> QED BY <1>0, <1>2, <1>6, <1>7, NotYet DEF Phase

LEMMA EndOfNumeralKeepsInv ==
  ASSUME SInv, EndOfNumeral
  PROVE  SInv'
<1>0. /\ pc = "digits" /\ pc' = "done" /\ UNCHANGED <<mem, others, p, q, n, flags>>
      /\ ret' = IF neg THEN Wrap(-val) ELSE val
  BY DEF EndOfNumeral
<1>1. TypeOK /\ InCall /\ fn = "strtol"
  BY <1>0, NumeralFacts
<1>2. InCall' /\ fn' = "strtol"
  BY <1>0, <1>1, SameCall DEF others, args
<1>3. ret' \in Int
  <2>1. val \in Int /\ \A v \in Longs : v \in Int
    BY <1>1, StringAssumption DEF TypeOK, Longs
  <2>2. -val \in Int
    BY <2>1
  <2> QED BY <1>0, <2>1, <2>2, WrapIsLong
<1>4. TypeOK'
  BY <1>0, <1>1, <1>3 DEF TypeOK, others, number, flags
<1> QED BY <1>0, <1>2, <1>4
        DEF SInv, Phase, Results, BlocksRight, CopiesRight, ScansRight, Returned,
            Moves

-----------------------------------------------------------------------------
(* Recursion.                                                              *)

(* Beginnings of the function that starts with x and goes on by g, as far  *)
(* as i.                                                                   *)
UpTo(x, g, i) ==
  {r \in [0 .. i -> Int] :
     \A k \in 0 .. i : r[k] = IF k = 0 THEN x ELSE g[k - 1][r[k - 1]]}

(* The first i without one would have it from i - 1.                       *)
LEMMA UpToExists ==
  ASSUME NEW x \in Int, NEW g \in [Nat -> [Int -> Int]]
  PROVE  \A i \in Nat : UpTo(x, g, i) # {}
<1> DEFINE Bad == {i \in Nat : UpTo(x, g, i) = {}}
<1> SUFFICES ASSUME Bad # {} PROVE FALSE
  OBVIOUS
<1>1. PICK i \in Bad : \A y \in Bad : i <= y
  BY Least
<1>2. CASE i = 0
  <2> DEFINE r == [k \in 0 .. i |-> x]
  <2>1. r \in UpTo(x, g, i)
    BY <1>2 DEF UpTo
  <2> QED BY <1>1, <2>1
<1>3. CASE i # 0
  <2>1. i \in Nat /\ i - 1 \in Nat
    BY <1>1, <1>3
  <2>2. PICK r \in UpTo(x, g, i - 1) : TRUE
    <3>1. ~(i <= i - 1)
      BY <2>1
    <3>2. i - 1 \notin Bad
      BY <1>1, <3>1, Zenon
    <3> QED BY <2>1, <3>2
  <2>3. /\ r \in [0 .. i - 1 -> Int]
        /\ \A k \in 0 .. i - 1 : r[k] = IF k = 0 THEN x ELSE g[k - 1][r[k - 1]]
    BY <2>2 DEF UpTo
  <2> DEFINE h == [k \in 0 .. i |-> IF k = i THEN g[i - 1][r[i - 1]] ELSE r[k]]
  <2>4. g[i - 1][r[i - 1]] \in Int
    BY <2>1, <2>3
  <2>5. h \in [0 .. i -> Int]
    BY <2>1, <2>3, <2>4
  <2>6. \A k \in 0 .. i : h[k] = IF k = 0 THEN x ELSE g[k - 1][h[k - 1]]
    <3> TAKE k \in 0 .. i
    <3>1. CASE k = i
      BY <1>3, <2>1, <3>1
    <3>2. CASE k # i
      <4>1. k \in 0 .. i - 1 /\ h[k] = r[k]
        BY <2>1, <3>2
      <4>2. k # 0 => k - 1 \in 0 .. i /\ k - 1 # i
        BY <2>1
      <4>3. k # 0 => h[k - 1] = r[k - 1]
        BY <4>2
      <4> QED BY <2>3, <4>1, <4>3
    <3> QED BY <3>1, <3>2
  <2>7. h \in UpTo(x, g, i)
    BY <2>5, <2>6 DEF UpTo
  <2> QED BY <1>1, <2>7
<1> QED BY <1>2, <1>3

(* Two beginnings agree as far as both go.                                 *)
LEMMA UpToAgrees ==
  ASSUME NEW x, NEW g, NEW i \in Nat, NEW m \in Nat,
         NEW r \in UpTo(x, g, i), NEW h \in UpTo(x, g, m)
  PROVE  \A k \in 0 .. i : k <= m => r[k] = h[k]
<1> DEFINE Bad == {k \in 0 .. i : k <= m /\ r[k] # h[k]}
<1> SUFFICES ASSUME Bad # {} PROVE FALSE
  OBVIOUS
<1>1. PICK k \in Bad : \A y \in Bad : k <= y
  <2>1. Bad \in SUBSET Nat
    OBVIOUS
  <2> QED BY <2>1, Least
<1>2. /\ r[k] = IF k = 0 THEN x ELSE g[k - 1][r[k - 1]]
      /\ h[k] = IF k = 0 THEN x ELSE g[k - 1][h[k - 1]]
  <2>1. k \in 0 .. i /\ k \in 0 .. m
    BY <1>1
  <2> QED BY <2>1 DEF UpTo
<1>3. k # 0
  BY <1>1, <1>2
<1>4. k - 1 \in 0 .. i /\ k - 1 <= m /\ k - 1 \notin Bad
  BY <1>1, <1>3
<1> QED BY <1>1, <1>2, <1>3, <1>4

LEMMA Recursion ==
  ASSUME NEW x \in Int, NEW g \in [Nat -> [Int -> Int]]
  PROVE  \E r \in [Nat -> Int] :
           r[0] = x /\ \A k \in Nat : r[k + 1] = g[k][r[k]]
<1> DEFINE upto(k) == CHOOSE r : r \in UpTo(x, g, k)
           r == [k \in Nat |-> upto(k)[k]]
<1>1. \A k \in Nat : upto(k) \in UpTo(x, g, k)
  BY UpToExists
<1> HIDE DEF upto
<1>2. \A k \in Nat : upto(k)[k] \in Int
                     /\ upto(k)[k] = IF k = 0 THEN x
                                     ELSE g[k - 1][upto(k)[k - 1]]
  <2> TAKE k \in Nat
  <2>1. k \in 0 .. k
    OBVIOUS
  <2> QED BY <1>1, <2>1 DEF UpTo
<1>3. \A k \in Nat : upto(k + 1)[k] = upto(k)[k]
  <2> TAKE k \in Nat
  <2>1. k + 1 \in Nat /\ k \in 0 .. k /\ k <= k + 1
    OBVIOUS
  <2>2. upto(k) \in UpTo(x, g, k) /\ upto(k + 1) \in UpTo(x, g, k + 1)
    BY <1>1, <2>1
  <2>3. \A j \in 0 .. k : j <= k + 1 => upto(k)[j] = upto(k + 1)[j]
    BY <2>1, <2>2, UpToAgrees
  <2> QED BY <2>1, <2>3
<1>4. r \in [Nat -> Int] /\ r[0] = x
  BY <1>2
<1>5. \A k \in Nat : r[k + 1] = g[k][r[k]]
  <2> TAKE k \in Nat
  <2>1. k + 1 \in Nat /\ k + 1 # 0 /\ (k + 1) - 1 = k
    OBVIOUS
  <2>2. upto(k + 1)[k + 1] = g[k][upto(k + 1)[k]]
    BY <1>2, <2>1
  <2>3. r[k + 1] = upto(k + 1)[k + 1] /\ r[k] = upto(k + 1)[k]
    BY <1>3, <2>1
  <2> QED BY <2>2, <2>3, Zenon
<1> QED BY <1>4, <1>5

LEMMA PowersUnfold ==
  ASSUME NEW b \in Nat
  PROVE  /\ Powers(b) \in [Nat -> Nat]
         /\ Powers(b)[0] = 1
         /\ \A k \in Nat : Powers(b)[k + 1] = b * Powers(b)[k]
<1> DEFINE Step(s) == [k \in Nat |-> IF k = 0 THEN 1 ELSE b * s[k - 1]]
           g == [k \in Nat |-> [y \in Int |-> b * y]]
<1>1. g \in [Nat -> [Int -> Int]]
  OBVIOUS
<1>2. PICK r \in [Nat -> Int] :
        r[0] = 1 /\ \A k \in Nat : r[k + 1] = g[k][r[k]]
  <2> HIDE DEF g
  <2>1. 1 \in Int
    OBVIOUS
  <2>2. \E r \in [Nat -> Int] :
          r[0] = 1 /\ \A k \in Nat : r[k + 1] = g[k][r[k]]
    BY <1>1, <2>1, Recursion
  <2> QED BY <2>2
<1>3. \A k \in Nat : r[k + 1] = b * r[k]
  BY <1>2
<1>4. r = Step(r)
  <2>1. ASSUME NEW k \in Nat
        PROVE  r[k] = IF k = 0 THEN 1 ELSE b * r[k - 1]
    <3>1. CASE k # 0
      <4>1. k - 1 \in Nat /\ (k - 1) + 1 = k
        BY <3>1
      <4> QED BY <1>3, <3>1, <4>1
    <3> QED BY <1>2, <3>1
  <2> QED BY <2>1
<1>5. Powers(b) = CHOOSE s : s = Step(s)
  BY DEF Powers
<1>6. Powers(b) = Step(Powers(b))
  <2> HIDE DEF Step
  <2> QED BY <1>4, <1>5
<1>7. \A k \in Nat : Powers(b)[k] = IF k = 0 THEN 1 ELSE b * Powers(b)[k - 1]
  BY <1>6
<1>8. \A k \in Nat : Powers(b)[k + 1] = b * Powers(b)[k]
  <2> TAKE k \in Nat
  <2>1. k + 1 \in Nat /\ k + 1 # 0 /\ (k + 1) - 1 = k
    OBVIOUS
  <2> QED BY <1>7, <2>1
<1>9. Powers(b) \in [Nat -> Nat]
  <2>1. \A k \in Nat : Powers(b)[k] \in Nat
    <3> DEFINE Bad == {k \in Nat : Powers(b)[k] \notin Nat}
    <3> SUFFICES ASSUME Bad # {} PROVE FALSE
      OBVIOUS
    <3>1. PICK k \in Bad : \A y \in Bad : k <= y
      BY Least
    <3>2. k # 0 => k - 1 \in Nat /\ k - 1 \notin Bad
      BY <3>1
    <3> QED BY <1>7, <3>1, <3>2
  <2>2. Powers(b) = [k \in Nat |-> Powers(b)[k]]
    BY <1>6
  <2> QED BY <2>1, <2>2
<1> QED BY <1>7, <1>8, <1>9

(* The values of the last digits from a to e - 1, each with its weight.    *)
Weighs(low, a, e, b) ==
  /\ low[0] = 0 /\ Value(a, e, b) = low[e - a]
  /\ \A k \in 1 .. e - a :
       low[k] = low[k - 1] + DigitValue[before[e - k]] * Powers(b)[k - 1]

LEMMA ValueUnfolds ==
  ASSUME NEW a \in Nat, NEW e \in Nat, a <= e, NEW b \in Nat,
         \A k \in a .. e - 1 : DigitValue[before[k]] \in Nat
  PROVE  \E low \in [0 .. e - a -> Int] : Weighs(low, a, e, b)
<1> DEFINE i == e - a
           part(k) == DigitValue[before[e - k]] * Powers(b)[k - 1]
           Step(s) == [k \in 0 .. i |-> IF k = 0 THEN 0 ELSE s[k - 1] + part(k)]
           g == [k \in Nat |->
                   [y \in Int |-> IF k + 1 <= i THEN y + part(k + 1) ELSE y]]
           low == CHOOSE s : s = Step(s)
<1>1. i \in Nat
  OBVIOUS
<1>2. \A k \in 1 .. i : part(k) \in Int
  <2> TAKE k \in 1 .. i
  <2>1. e - k \in a .. e - 1 /\ k - 1 \in Nat
    OBVIOUS
  <2>2. DigitValue[before[e - k]] \in Nat /\ Powers(b)[k - 1] \in Nat
    BY <2>1, PowersUnfold
  <2> QED BY <2>2
<1>3. Value(a, e, b) = low[i]
  BY DEF Value
<1> HIDE DEF part, i
<1>4. g \in [Nat -> [Int -> Int]]
  <2>1. \A k \in Nat : k + 1 <= i => part(k + 1) \in Int
    BY <1>1, <1>2
  <2> QED BY <2>1
<1>5. \A k \in 1 .. i, y \in Int : g[k - 1][y] = y + part(k)
  <2> TAKE k \in 1 .. i, y \in Int
  <2>1. k - 1 \in Nat /\ (k - 1) + 1 = k /\ k <= i
    BY <1>1
  <2> QED BY <2>1
<1> HIDE DEF g
<1>6. PICK r \in UpTo(0, g, i) : TRUE
  <2>1. 0 \in Int
    OBVIOUS
  <2>2. UpTo(0, g, i) # {}
    BY <1>1, <1>4, <2>1, UpToExists
  <2> QED BY <2>2
<1>7. r = Step(r)
  <2>1. /\ r \in [0 .. i -> Int]
        /\ \A k \in 0 .. i : r[k] = IF k = 0 THEN 0 ELSE g[k - 1][r[k - 1]]
    BY <1>6 DEF UpTo
  <2>2. ASSUME NEW k \in 0 .. i, k # 0 PROVE r[k] = r[k - 1] + part(k)
    <3>1. k \in 1 .. i /\ k - 1 \in 0 .. i
      BY <1>1, <2>2
    <3>2. r[k - 1] \in Int
      BY <2>1, <3>1
    <3> QED BY <1>5, <2>1, <2>2, <3>1, <3>2
  <2> QED BY <2>1, <2>2
<1>8. low = Step(low)
  <2> HIDE DEF Step
  <2> QED BY <1>7
<1> HIDE DEF low
<1>9. \A k \in 0 .. i : low[k] = IF k = 0 THEN 0 ELSE low[k - 1] + part(k)
  BY <1>8
<1>10. \A k \in 0 .. i : low[k] \in Int
  <2> DEFINE Bad == {k \in 0 .. i : low[k] \notin Int}
  <2> SUFFICES ASSUME Bad # {} PROVE FALSE
    OBVIOUS
  <2>1. Bad \in SUBSET Nat
    OBVIOUS
  <2>2. PICK k \in Bad : \A y \in Bad : k <= y
    BY <2>1, Least
  <2>3. k # 0 => k - 1 \in 0 .. i /\ k - 1 \notin Bad /\ k \in 1 .. i
    BY <1>1, <2>2
  <2> QED BY <1>2, <1>9, <2>2, <2>3
<1>11. low \in [0 .. i -> Int]
  <2>1. low = [k \in 0 .. i |-> low[k]]
    BY <1>8
  <2> QED BY <1>10, <2>1
<1>12. low[0] = 0 /\ \A k \in 1 .. i : low[k] = low[k - 1] + part(k)
  BY <1>1, <1>9
<1> QED BY <1>3, <1>11, <1>12 DEF i, part, Weighs

(* One more digit.                                                         *)
LEMMA Horner ==
  ASSUME NEW a \in Nat, NEW e \in Nat, a <= e, NEW b \in Nat,
         \A k \in a .. e : DigitValue[before[k]] \in Nat
  PROVE  /\ Value(a, e, b) \in Int
         /\ Value(a, e + 1, b) = Value(a, e, b) * b + DigitValue[before[e]]
<1> DEFINE i == e - a
           d(k) == DigitValue[before[k]]
           w(k) == Powers(b)[k]
<1>1. i \in Nat /\ (e + 1) - a = i + 1 /\ e + 1 \in Nat /\ a <= e + 1
  OBVIOUS
<1>2. PICK f \in [0 .. i -> Int] :
        /\ f[0] = 0 /\ Value(a, e, b) = f[i]
        /\ \A k \in 1 .. i : f[k] = f[k - 1] + d(e - k) * w(k - 1)
  <2>1. \A k \in a .. e - 1 : DigitValue[before[k]] \in Nat
    OBVIOUS
  <2>2. \E f \in [0 .. e - a -> Int] : Weighs(f, a, e, b)
    BY <2>1, ValueUnfolds
  <2> QED BY <2>2 DEF Weighs
<1>3. PICK h \in [0 .. i + 1 -> Int] :
        /\ h[0] = 0 /\ Value(a, e + 1, b) = h[i + 1]
        /\ \A k \in 1 .. i + 1 : h[k] = h[k - 1] + d((e + 1) - k) * w(k - 1)
  <2>1. PICK j \in Nat : j = e + 1
    BY <1>1
  <2>2. a <= j /\ j - a = i + 1
        /\ \A k \in a .. j - 1 : DigitValue[before[k]] \in Nat
    BY <2>1
  <2>3. PICK h \in [0 .. j - a -> Int] : Weighs(h, a, j, b)
    BY <2>2, ValueUnfolds
  <2>4. /\ h[0] = 0 /\ Value(a, j, b) = h[j - a]
        /\ \A k \in 1 .. j - a : h[k] = h[k - 1] + d(j - k) * w(k - 1)
    BY <2>3 DEF Weighs
  <2> HIDE DEF i, d, w
  <2>5. h \in [0 .. i + 1 -> Int] /\ Value(a, e + 1, b) = h[i + 1]
    BY <2>1, <2>2, <2>3, <2>4
  <2>6. \A k \in 1 .. i + 1 : h[k] = h[k - 1] + d((e + 1) - k) * w(k - 1)
    BY <2>1, <2>2, <2>4
  <2> QED BY <2>4, <2>5, <2>6
<1>4. \A k \in a .. e : d(k) \in Int
  OBVIOUS
<1>5. w(0) = 1 /\ \A k \in Nat : w(k) \in Int /\ w(k + 1) = b * w(k)
  <2>1. Powers(b) \in [Nat -> Nat] /\ Powers(b)[0] = 1
        /\ \A k \in Nat : Powers(b)[k + 1] = b * Powers(b)[k]
    BY PowersUnfold
  <2>2. \A k \in Nat : w(k) \in Nat /\ w(k + 1) = b * w(k)
    BY <2>1
  <2>3. \A k \in Nat : k \in Int
    OBVIOUS
  <2> HIDE DEF w
  <2>4. w(0) = 1
    BY <2>1 DEF w
  <2> QED BY <2>2, <2>3, <2>4
<1>6. \A k \in 1 .. i : e - k \in a .. e /\ (e + 1) - (k + 1) = e - k
  BY <1>1
<1>7. e \in a .. e /\ (e + 1) - 1 = e /\ e \in Int
  OBVIOUS
<1> HIDE DEF i, d, w
<1>8. \A k \in 0 .. i : h[k + 1] = f[k] * b + d(e)
  <2> DEFINE Bad == {k \in 0 .. i : h[k + 1] # f[k] * b + d(e)}
  <2> SUFFICES ASSUME Bad # {} PROVE FALSE
    OBVIOUS
  <2>1. Bad \in SUBSET Nat
    OBVIOUS
  <2>2. PICK k \in Bad : \A y \in Bad : k <= y
    BY <2>1, Least
  <2>3. k # 0
    <3>1. h[1] = h[0] + d((e + 1) - 1) * w(1 - 1)
      <4>1. 1 \in 1 .. i + 1
        BY <1>1
      <4> QED BY <1>3, <4>1
    <3>2. h[1] = 0 + d(e) * 1
      BY <1>3, <1>5, <1>7, <3>1
    <3>4. d(e) \in Int
      BY <1>4, <1>7
    <3>5. h[1] = d(e)
      BY <3>2, <3>4
    <3>3. f[0] * b + d(e) = d(e)
      BY <1>2, <1>4, <1>7
    <3> QED BY <2>2, <3>3, <3>5
  <2>4. /\ k \in 1 .. i /\ k - 1 \in 0 .. i /\ k - 1 \notin Bad
        /\ (k - 1) + 1 = k /\ k + 1 \in 1 .. i + 1 /\ (k + 1) - 1 = k
        /\ k - 1 \in Nat /\ k \in 0 .. i + 1
    BY <1>1, <2>2, <2>3
  <2> DEFINE x == f[k - 1]
             y == d(e - k)
             z == w(k - 1)
  <2>5. x \in Int /\ y \in Int /\ z \in Int /\ d(e) \in Int
    BY <1>2, <1>4, <1>5, <1>6, <1>7, <2>4
  <2>6. h[k] = x * b + d(e)
    BY <2>4
  <2>7. h[k + 1] = h[k] + d((e + 1) - (k + 1)) * w((k + 1) - 1)
    BY <1>3, <2>4
  <2>8. h[k + 1] = h[k] + y * w(k)
    BY <1>6, <2>4, <2>7
  <2>9. w(k) = b * z
    BY <1>5, <2>4
  <2>10. f[k] = x + y * z
    BY <1>2, <2>4
  <2> HIDE DEF x, y, z
  <2>11. x * b + d(e) + y * (b * z) = (x + y * z) * b + d(e)
    BY <2>5
  <2> QED BY <2>2, <2>6, <2>8, <2>9, <2>10, <2>11
<1>9. i \in 0 .. i
  BY <1>1
<1> QED BY <1>2, <1>3, <1>8, <1>9 DEF d

(* Of no digits.                                                           *)
LEMMA ValueOfNone ==
  ASSUME NEW a \in Nat, NEW b \in Nat
  PROVE  Value(a, a, b) = 0
<1>1. a <= a /\ a - a = 0 /\ \A k \in a .. a - 1 : DigitValue[before[k]] \in Nat
  OBVIOUS
<1>2. \E low : low[0] = 0 /\ Value(a, a, b) = low[a - a]
  BY <1>1, ValueUnfolds DEF Weighs
<1> QED BY <1>1, <1>2

-----------------------------------------------------------------------------
(* Numbers that differ by a multiple of the number of longs.               *)
LEMMA ModulusFacts == Modulus \in Nat \ {0}
BY StringAssumption DEF Modulus

LEMMA WrapCongruent ==
  ASSUME NEW v \in Int
  PROVE  Congruent(Wrap(v), v)
<1>1. PICK r \in 0 .. Modulus - 1, k \in Int : r = v % Modulus /\ v = k * Modulus + r
  <2>1. v = (v \div Modulus) * Modulus + (v % Modulus)
    BY ModulusFacts
  <2> QED BY <2>1, ModulusFacts
<1>2. Wrap(v) = r \/ Wrap(v) = r - Modulus
  BY <1>1 DEF Wrap
<1>3. CASE Wrap(v) = r
  <2>1. r - v = (-k) * Modulus
    BY <1>1, ModulusFacts
  <2>2. -k \in Int
    OBVIOUS
  <2> QED BY <1>3, <2>1, <2>2 DEF Congruent
<1>4. CASE Wrap(v) = r - Modulus
  <2>1. r - Modulus - v = (-k - 1) * Modulus
    BY <1>1, ModulusFacts
  <2>2. -k - 1 \in Int
    OBVIOUS
  <2> QED BY <1>4, <2>1, <2>2 DEF Congruent
<1> QED BY <1>2, <1>3, <1>4

LEMMA CongruentStep ==
  ASSUME NEW u \in Int, NEW v \in Int, NEW w \in Int, NEW b \in Int, NEW d \in Int,
         Congruent(u, v * b + d), Congruent(v, w)
  PROVE  Congruent(u, w * b + d)
<1>1. PICK j \in Int : u - (v * b + d) = j * Modulus
  BY DEF Congruent
<1>2. PICK k \in Int : v - w = k * Modulus
  BY DEF Congruent
<1> DEFINE m == Modulus
<1>3. m \in Int /\ u - (v * b + d) = j * m /\ v - w = k * m
  BY <1>1, <1>2, ModulusFacts
<1> HIDE DEF m
<1>4. v * b - w * b = (k * b) * m
  <2>1. (v - w) * b = v * b - w * b
    OBVIOUS
  <2>2. (k * m) * b = (k * b) * m
    BY <1>3
  <2> QED BY <1>3, <2>1, <2>2
<1>5. u - (w * b + d) = (j + k * b) * m
  <2> DEFINE x == v * b
             y == w * b
             z == k * b
  <2>1. x \in Int /\ y \in Int /\ z \in Int
    OBVIOUS
  <2>2. (j + z) * m = j * m + z * m
    BY <1>3, <2>1
  <2>3. x - y = z * m /\ u - (x + d) = j * m
    BY <1>3, <1>4
  <2> HIDE DEF x, y, z
  <2>4. j * m \in Int /\ z * m \in Int
    BY <1>3, <2>1
  <2>5. u - (y + d) = (j + z) * m
    BY <2>1, <2>2, <2>3, <2>4
  <2> QED BY <2>5 DEF y, z
<1>6. j + k * b \in Int
  OBVIOUS
<1> QED BY <1>5, <1>6 DEF Congruent, m

LEMMA CongruentIs ==
  ASSUME NEW v \in Int, NEW w \in Int, Congruent(v, w)
  PROVE  (v - w) % Modulus = 0
<1>1. PICK k \in Int : v - w = k * Modulus
  BY DEF Congruent
<1> DEFINE x == v - w
           r == x % Modulus
           t == x \div Modulus
<1>2. r \in 0 .. Modulus - 1 /\ t \in Int /\ x = t * Modulus + r /\ x = k * Modulus
  <2>1. x \in Int /\ x = k * Modulus
    BY <1>1
  <2>2. \A y \in Int :
          /\ y % Modulus \in 0 .. Modulus - 1 /\ y \div Modulus \in Int
          /\ y = (y \div Modulus) * Modulus + (y % Modulus)
    BY ModulusFacts
  <2> HIDE DEF x
  <2> QED BY <2>1, <2>2
<1> HIDE DEF x, r, t
<1>3. r = (k - t) * Modulus
  <2> DEFINE m == Modulus
             y == k * m
             z == t * m
  <2>1. m \in Int /\ y \in Int /\ z \in Int
    BY <1>2, ModulusFacts
  <2>2. (k - t) * m = y - z
    BY <1>2, <2>1
  <2>3. x = z + r /\ x = y /\ r \in Int
    BY <1>2, <2>1
  <2> HIDE DEF y, z
  <2> QED BY <2>1, <2>2, <2>3
<1>4. ASSUME NEW j \in Int, j * Modulus \in 0 .. Modulus - 1
      PROVE  j * Modulus = 0
  <2>1. CASE j >= 1
    <3>1. j * Modulus >= Modulus
      BY <2>1, ModulusFacts
    <3> QED BY <1>4, <3>1, ModulusFacts
  <2>2. CASE j <= -1
    <3>1. j * Modulus < 0
      BY <2>2, ModulusFacts
    <3> QED BY <1>4, <3>1, ModulusFacts
  <2>3. CASE j = 0
    BY <2>3, ModulusFacts
  <2> QED BY <2>1, <2>2, <2>3
<1>5. k - t \in Int
  BY <1>2
<1>6. r = 0
  BY <1>2, <1>3, <1>4, <1>5
<1> QED BY <1>6 DEF r, x

-----------------------------------------------------------------------------
(* What strtol reads is the numeral.                                       *)

LEMMA ValueIsInt ==
  ASSUME NEW a \in Nat, NEW e \in Nat, a <= e, NEW b \in Nat,
         \A k \in a .. e - 1 : DigitValue[before[k]] \in Nat
  PROVE  Value(a, e, b) \in Int
<1>1. PICK low \in [0 .. e - a -> Int] : Value(a, e, b) = low[e - a]
  BY ValueUnfolds DEF Weighs
<1>2. e - a \in 0 .. e - a
  OBVIOUS
<1> QED BY <1>1, <1>2

(* The memory of the call stays, and with it what it denotes.              *)
LEMMA SameNumeral ==
  ASSUME before' = before
  PROVE  /\ \A a, e, b : Value(a, e, b)' = Value(a, e, b)
         /\ \A a, e, b : DigitRun(a, e, b)' = DigitRun(a, e, b)
         /\ \A a, b : Marked(a, b)' = Marked(a, b)
<1>1. \A a, e, b : Value(a, e, b)' = Value(a, e, b)
  BY DEF Value
<1>2. \A a, e, b : DigitRun(a, e, b)' = DigitRun(a, e, b)
  BY DEF DigitRun
<1>3. \A a, b : Marked(a, b)' = Marked(a, b)
  BY DEF Marked
<1> QED BY <1>1, <1>2, <1>3

LEMMA InitReads == Init => Reading /\ NumeralRight
<1> SUFFICES ASSUME Init PROVE Reading /\ NumeralRight
  OBVIOUS
<1>1. ASSUME fn = "strtol" PROVE c \in 0 .. 36 /\ base = c /\ val = 0
  <2>1. c \in Bases /\ base = c /\ val = 0
    BY <1>1 DEF Init
  <2>2. Bases \subseteq 0 .. 36
    BY StringAssumption
  <2> QED BY <2>1, <2>2
<1>2. pc = "call"
  BY DEF Init
<1> QED BY <1>1, <1>2 DEF Reading, NumeralRight, Returned

LEMMA StartReads ==
  ASSUME SInv, Reading, strtol
  PROVE  Reading' /\ NumeralRight'
<1>1. /\ pc = "call" /\ fn = "strtol" /\ pc' = "sign" /\ fn' = fn /\ p0' = p0
      /\ p' = p /\ before' = before /\ c' = c /\ base' = base /\ val' = val
  BY DEF strtol, others, args, number
<1>2. c \in 0 .. 36 /\ base = c /\ val = 0 /\ p = p0 /\ p0 \in Nat
  BY <1>1, Sizes DEF Reading, SInv, Phase, Fresh
<1>3. \A k \in p0 .. p - 1 : before[k] \in Blanks
  BY <1>2
<1>4. Reading'
  BY <1>1, <1>2, <1>3 DEF Reading
<1> QED BY <1>1, <1>4 DEF NumeralRight, Returned

LEMMA GobbleReads ==
  ASSUME SInv, Reading, Gobble
  PROVE  Reading' /\ NumeralRight'
<1>1. /\ pc = "sign" /\ pc' = pc /\ fn' = fn /\ p0' = p0 /\ before' = before
      /\ c' = c /\ base' = base /\ val' = val
      /\ p' = p + 1 /\ mem[p] \in Blanks
  BY DEF Gobble, others, args, number
<1>2. fn = "strtol" /\ mem = before /\ p \in Nat /\ p0 \in Nat
  BY <1>1, NumeralFacts
<1>3. /\ c \in 0 .. 36 /\ base = c /\ val = 0
      /\ \A k \in p0 .. p - 1 : before[k] \in Blanks
  BY <1>1, <1>2 DEF Reading
<1>4. \A k \in p0 .. p' - 1 : k \in p0 .. p - 1 \/ k = p
  BY <1>1, <1>2
<1>5. \A k \in p0 .. p' - 1 : before[k] \in Blanks
  BY <1>1, <1>2, <1>3, <1>4
<1>6. Reading'
  BY <1>1, <1>3, <1>5 DEF Reading
<1> QED BY <1>1, <1>6 DEF NumeralRight, Returned

LEMMA SignReads ==
  ASSUME SInv, Reading, Sign
  PROVE  Reading' /\ NumeralRight'
<1>1. /\ pc = "sign" /\ pc' = "prefix" /\ fn' = fn /\ p0' = p0 /\ before' = before
      /\ c' = c /\ base' = base /\ val' = val
      /\ mem[p] \notin Blanks /\ neg' = (mem[p] = Minus)
      /\ p' = IF mem[p] \in {Plus, Minus} THEN p + 1 ELSE p
  BY DEF Sign, args
<1>2. /\ fn = "strtol" /\ mem = before /\ p \in Nat /\ p0 \in Nat /\ p0 <= p
      /\ Length(before, p0) \in Nat
      /\ p <= p0 + Length(before, p0) /\ p0 + Length(before, p0) < MemSize
  BY <1>1, NumeralFacts
<1>3. /\ c \in 0 .. 36 /\ base = c /\ val = 0
      /\ \A k \in p0 .. p - 1 : before[k] \in Blanks
  BY <1>1, <1>2 DEF Reading
<1>4. PICK s \in Nat : s = p
  BY <1>2
<1>5. s \in Addrs /\ s \in p0 .. p'
  BY <1>1, <1>2, <1>4, StringAssumption DEF Addrs
<1>6. SignAt(s)' /\ p' = Start(s)' /\ neg' = (before'[s] = Minus)
  BY <1>1, <1>2, <1>3, <1>4, <1>5 DEF SignAt, Start
<1>7. \E a \in p0' .. p' : SignAt(a)' /\ p' = Start(a)' /\ neg' = (before'[a] = Minus)
  BY <1>1, <1>5, <1>6
<1>8. Reading'
  BY <1>1, <1>3, <1>7 DEF Reading
<1> QED BY <1>1, <1>8 DEF NumeralRight, Returned

(* The code and the definition find the same base and the same first digit *)
(* but for the 0 in front of an octal numeral, which the code has passed.  *)
LEMMA PrefixIs ==
  ASSUME Prefix, base = c, mem = before, p \in Nat
  PROVE  /\ base' = Marked(p, c).base
         /\ Marked(p, c).digits \in {p, p + 2}
         /\ \/ p' = Marked(p, c).digits
            \/ /\ p' = p + 1 /\ Marked(p, c).digits = p
               /\ before[p] = Zero /\ base' = 8
<1> DEFINE hex == base \in {0, 16} /\ before[p] = Zero /\ before[p + 1] = LowerX
           octal == base = 0 /\ before[p] = Zero /\ ~hex
<1>1. /\ base' = CASE hex -> 16 [] octal -> 8
                   [] ~hex /\ ~octal -> IF base = 0 THEN 10 ELSE base
      /\ p' = CASE hex -> p + 2 [] octal -> p + 1 [] OTHER -> p
  BY DEF Prefix
<1>2. CASE hex
  <2>1. Marked(p, c) = [base |-> 16, digits |-> p + 2]
    BY <1>2 DEF Marked
  <2>2. base' = 16 /\ p' = p + 2
    BY <1>1, <1>2
  <2> QED BY <2>1, <2>2
<1>3. CASE octal
  <2>1. Marked(p, c) = [base |-> 8, digits |-> p]
    BY <1>3 DEF Marked
  <2>2. base' = 8 /\ p' = p + 1
    BY <1>1, <1>3
  <2> QED BY <1>3, <2>1, <2>2
<1>4. CASE ~hex /\ ~octal /\ base = 0
  <2>1. Marked(p, c) = [base |-> 10, digits |-> p]
    BY <1>4 DEF Marked
  <2>2. base' = 10 /\ p' = p
    BY <1>1, <1>4
  <2> QED BY <2>1, <2>2
<1>5. CASE ~hex /\ ~octal /\ base # 0
  <2>1. Marked(p, c) = [base |-> c, digits |-> p]
    BY <1>5 DEF Marked
  <2>2. base' = base /\ p' = p
    BY <1>1, <1>5
  <2> QED BY <2>1, <2>2
<1> QED BY <1>2, <1>3, <1>4, <1>5

LEMMA PrefixReads ==
  ASSUME SInv, Reading, Prefix
  PROVE  Reading' /\ NumeralRight'
<1>1. /\ pc = "prefix" /\ pc' = "digits" /\ fn' = fn /\ p0' = p0
      /\ before' = before /\ c' = c /\ neg' = neg /\ val' = val
  BY DEF Prefix, args
<1>2. fn = "strtol" /\ mem = before /\ p \in Nat /\ p0 \in Nat /\ p0 <= p
  BY <1>1, NumeralFacts
<1>3. /\ c \in 0 .. 36 /\ base = c /\ val = 0
      /\ \E a \in p0 .. p : SignAt(a) /\ p = Start(a) /\ neg = (before[a] = Minus)
  BY <1>1, <1>2 DEF Reading
<1>4. PICK a \in p0 .. p : SignAt(a) /\ p = Start(a) /\ neg = (before[a] = Minus)
  BY <1>3
<1> DEFINE m == Marked(Start(a), c)
<1>5. /\ base' = m.base /\ m.digits \in {p, p + 2}
      /\ p' = m.digits \/ /\ p' = p + 1 /\ m.digits = p
                          /\ before[p] = Zero /\ base' = 8
  BY <1>2, <1>3, <1>4, PrefixIs
<1>6. m' = m
  BY <1>1 DEF Marked, Start
<1>7. SInv'
  BY StrtolKeepsInv
<1>8. base' \in Nat
  BY <1>7 DEF SInv, TypeOK
<1> DEFINE Read(d) ==
      /\ d \in p0 .. p'
      /\ \A k \in d .. p' - 1 : IsDigit(before[k])'
      /\ Congruent(0, Value(d, p', base'))
<1> HIDE DEF m
<1>9. Read(m.digits)
  <2>1. CASE p' = m.digits
    <3>1. p' \in Nat /\ p' \in p0 .. p' /\ \A k \in p' .. p' - 1 : FALSE
      BY <1>2, <1>5, <2>1
    <3>2. Value(p', p', base') = 0
      BY <1>8, <3>1, ValueOfNone
    <3>3. Congruent(0, 0)
      <4>1. 0 \in Int /\ 0 - 0 = 0 * Modulus
        BY ModulusFacts
      <4> QED BY <4>1 DEF Congruent
    <3> QED BY <2>1, <3>1, <3>2, <3>3
  <2>2. CASE p' = p + 1 /\ m.digits = p /\ before[p] = Zero /\ base' = 8
    <3>1. p \in p0 .. p' /\ \A k \in p .. p' - 1 : k = p
      BY <1>2, <2>2
    <3>2. DigitValue[before[p]] = 0 /\ before[p] \in DOMAIN DigitValue
      BY <2>2, StringAssumption
    <3>3. ASSUME NEW k \in p .. p' - 1 PROVE IsDigit(before[k])'
      <4>1. k = p
        BY <3>1
      <4> QED BY <1>1, <2>2, <3>2, <4>1 DEF IsDigit
    <3>4. Value(p, p', base') = 0
      <4>1. \A k \in p .. p : DigitValue[before[k]] \in Nat
        BY <1>2, <3>2
      <4>2. p <= p /\ 8 \in Nat
        BY <1>2
      <4>3. Value(p, p + 1, 8) = Value(p, p, 8) * 8 + DigitValue[before[p]]
        BY <1>2, <4>1, <4>2, Horner
      <4>4. Value(p, p, 8) = 0
        BY <1>2, <4>2, ValueOfNone
      <4> QED BY <2>2, <3>2, <4>3, <4>4
    <3>5. Congruent(0, 0)
      <4>1. 0 \in Int /\ 0 - 0 = 0 * Modulus
        BY ModulusFacts
      <4> QED BY <4>1 DEF Congruent
    <3> QED BY <2>2, <3>1, <3>3, <3>4, <3>5
  <2> QED BY <1>5, <2>1, <2>2
<1>10. /\ a \in p0 .. p' /\ SignAt(a)' /\ neg' = (before'[a] = Minus)
  <2>1. p' >= p
    BY <1>2, <1>5
  <2>2. p' \in Int
    BY <1>2, <1>5
  <2> QED BY <1>1, <1>2, <1>4, <2>1, <2>2 DEF SignAt
<1>11. /\ m'.digits \in p0' .. p' /\ base' = m'.base
       /\ \A k \in m'.digits .. p' - 1 : IsDigit(before[k])'
       /\ Congruent(val', Value(m'.digits, p', base'))
  BY <1>1, <1>3, <1>5, <1>6, <1>9
<1>12. Congruent(val', Value(m'.digits, p', base'))
         => Congruent(val, Value(m.digits, p, base))'
  BY <1>1, SameNumeral DEF Congruent
<1>13. Reading'
  BY <1>1, <1>3, <1>10, <1>11, <1>12 DEF Reading, m
<1> QED BY <1>1, <1>13 DEF NumeralRight, Returned

(* What Digit, and the end, find.                                          *)
LEMMA ReadSoFar ==
  ASSUME SInv, Reading, pc = "digits"
  PROVE  /\ fn = "strtol" /\ mem = before /\ p \in Nat /\ p0 \in Nat /\ p0 <= p
         /\ c \in 0 .. 36 /\ base \in Nat /\ val \in Int
         /\ \E a \in p0 .. p :
              LET m == Marked(Start(a), c) IN
              /\ SignAt(a) /\ neg = (before[a] = Minus)
              /\ base = m.base /\ m.digits \in p0 .. p
              /\ \A k \in m.digits .. p - 1 : IsDigit(before[k])
              /\ Congruent(val, Value(m.digits, p, base))
<1>1. fn = "strtol" /\ mem = before /\ p \in Nat /\ p0 \in Nat /\ p0 <= p /\ TypeOK
  BY NumeralFacts
<1>2. base \in Nat /\ val \in Int
  BY <1>1, StringAssumption DEF TypeOK, Longs
<1> QED BY <1>1, <1>2 DEF Reading

LEMMA DigitValues ==
  ASSUME NEW ch, IsDigit(ch)
  PROVE  DigitValue[ch] \in Nat
BY StringAssumption DEF IsDigit

LEMMA DigitReads ==
  ASSUME SInv, Reading, Digit
  PROVE  Reading' /\ NumeralRight'
<1>1. /\ pc = "digits" /\ pc' = pc /\ fn' = fn /\ p0' = p0
      /\ before' = before /\ c' = c /\ neg' = neg /\ base' = base
      /\ IsDigit(mem[p]) /\ p' = p + 1
      /\ val' = Wrap(val * base + DigitValue[mem[p]])
  BY DEF Digit, args
<1>2. /\ fn = "strtol" /\ mem = before /\ p \in Nat /\ p0 \in Nat /\ p0 <= p
      /\ c \in 0 .. 36 /\ base \in Nat /\ val \in Int
  BY <1>1, ReadSoFar
<1>3. PICK a \in p0 .. p :
        LET m == Marked(Start(a), c) IN
        /\ SignAt(a) /\ neg = (before[a] = Minus)
        /\ base = m.base /\ m.digits \in p0 .. p
        /\ \A k \in m.digits .. p - 1 : IsDigit(before[k])
        /\ Congruent(val, Value(m.digits, p, base))
  BY <1>1, ReadSoFar
<1> DEFINE m == Marked(Start(a), c)
<1>4. /\ SignAt(a) /\ neg = (before[a] = Minus)
      /\ base = m.base /\ m.digits \in p0 .. p
      /\ \A k \in m.digits .. p - 1 : IsDigit(before[k])
      /\ Congruent(val, Value(m.digits, p, base))
  BY <1>3
<1>5. m' = m
  BY <1>1 DEF Marked, Start
<1> HIDE DEF m
<1>6. PICK d \in p0 .. p : d = m.digits
  BY <1>4
<1>7. d \in Nat /\ d <= p /\ \A k \in d .. p : k \in d .. p - 1 \/ k = p
  BY <1>2, <1>6
<1>8. \A k \in d .. p : IsDigit(before[k])
  BY <1>1, <1>2, <1>4, <1>6, <1>7
<1>9. \A k \in d .. p : DigitValue[before[k]] \in Nat
  BY <1>8, DigitValues
<1> DEFINE v == Value(d, p, base)
           i == DigitValue[before[p]]
<1>10. v \in Int /\ Value(d, p + 1, base) = v * base + i
  BY <1>2, <1>7, <1>9, Horner
<1>11. i \in Int
  <2>1. p \in d .. p
    BY <1>2, <1>7
  <2> QED BY <1>9, <2>1
<1>12. Congruent(val', v * base + i)
  <2>1. Congruent(val, v)
    BY <1>4, <1>6
  <2> HIDE DEF v, i
  <2>2. val * base + i \in Int
    BY <1>2, <1>11
  <2>3. val' = Wrap(val * base + i)
    BY <1>1, <1>2 DEF i
  <2>4. Congruent(val', val * base + i) /\ val' \in Int
    <3>1. Wrap(val * base + i) \in Longs
      BY <2>2, WrapIsLong
    <3>2. \A w \in Longs : w \in Int
      BY StringAssumption DEF Longs
    <3> QED BY <2>2, <2>3, <3>1, <3>2, WrapCongruent
  <2>5. base \in Int
    BY <1>2
  <2> QED BY <1>2, <1>10, <1>11, <2>1, <2>4, <2>5, CongruentStep
<1>13. /\ a \in p0 .. p' /\ SignAt(a)' /\ neg' = (before'[a] = Minus)
  BY <1>1, <1>2, <1>4 DEF SignAt
<1>14. d \in p0 .. p' /\ \A k \in d .. p' - 1 : IsDigit(before[k])'
  <2>1. d \in p0 .. p' /\ \A k \in d .. p' - 1 : k \in d .. p
    BY <1>1, <1>2
  <2> QED BY <1>1, <1>8, <2>1 DEF IsDigit
<1>15. /\ m'.digits \in p0' .. p' /\ base' = m'.base
       /\ \A k \in m'.digits .. p' - 1 : IsDigit(before[k])'
       /\ Congruent(val', Value(m'.digits, p', base'))
  BY <1>1, <1>4, <1>5, <1>6, <1>10, <1>12, <1>14
<1>16. Congruent(val', Value(m'.digits, p', base'))
         => Congruent(val, Value(m.digits, p, base))'
  BY <1>1, SameNumeral DEF Congruent
<1>17. Reading'
  BY <1>1, <1>2, <1>13, <1>15, <1>16 DEF Reading, m
<1> QED BY <1>1, <1>17 DEF NumeralRight, Returned

LEMMA EndReads ==
  ASSUME SInv, Reading, EndOfNumeral
  PROVE  Reading' /\ NumeralRight'
<1>1. /\ pc = "digits" /\ pc' = "done" /\ fn' = fn /\ p0' = p0
      /\ before' = before /\ c' = c /\ p' = p /\ ~IsDigit(mem[p])
      /\ ret' = IF neg THEN Wrap(-val) ELSE val
  BY DEF EndOfNumeral, others, args
<1>2. /\ fn = "strtol" /\ mem = before /\ p \in Nat /\ p0 \in Nat /\ p0 <= p
      /\ c \in 0 .. 36 /\ base \in Nat /\ val \in Int
  BY <1>1, ReadSoFar
<1>3. PICK a \in p0 .. p :
        LET m == Marked(Start(a), c) IN
        /\ SignAt(a) /\ neg = (before[a] = Minus)
        /\ base = m.base /\ m.digits \in p0 .. p
        /\ \A k \in m.digits .. p - 1 : IsDigit(before[k])
        /\ Congruent(val, Value(m.digits, p, base))
  BY <1>1, ReadSoFar
<1> DEFINE m == Marked(Start(a), c)
<1>4. /\ SignAt(a) /\ neg = (before[a] = Minus)
      /\ base = m.base /\ m.digits \in p0 .. p
      /\ \A k \in m.digits .. p - 1 : IsDigit(before[k])
      /\ Congruent(val, Value(m.digits, p, base))
  BY <1>3
<1> HIDE DEF m
<1>5. PICK d \in p0 .. p : d = m.digits
  BY <1>4
<1>6. d \in Nat /\ d <= p
  BY <1>2
<1> DEFINE v == Value(d, p, base)
           signed == IF before[a] = Minus THEN -v ELSE v
<1>7. v \in Int
  <2>1. \A k \in d .. p - 1 : DigitValue[before[k]] \in Nat
    BY <1>4, <1>5, DigitValues
  <2> QED BY <1>2, <1>6, <2>1, ValueIsInt
<1>8. Congruent(val, v)
  BY <1>4, <1>5
<1>9. ret' \in Longs /\ \A w \in Longs : w \in Int
  <2>1. \A w \in Longs : w \in Int
    BY StringAssumption DEF Longs
  <2>2. -val \in Int
    BY <1>2
  <2>3. val \in Longs
    BY <1>1, NumeralFacts DEF TypeOK
  <2> QED BY <1>1, <2>1, <2>2, <2>3, WrapIsLong
<1>10. (ret' - signed) % Modulus = 0
  <2> HIDE DEF v
  <2>1. CASE before[a] = Minus
    <3>1. -val \in Int /\ -val = val * (-1) + 0 /\ -v \in Int /\ -v = v * (-1) + 0
          /\ -1 \in Int /\ 0 \in Int
      BY <1>2, <1>7
    <3>2. ret' = Wrap(-val) /\ ret' \in Int
      BY <1>1, <1>4, <1>9, <2>1
    <3>3. Congruent(ret', val * (-1) + 0)
      BY <3>1, <3>2, WrapCongruent
    <3>4. Congruent(ret', v * (-1) + 0)
      BY <1>2, <1>7, <1>8, <3>1, <3>2, <3>3, CongruentStep
    <3>5. Congruent(ret', -v)
      BY <3>1, <3>4
    <3> QED BY <2>1, <3>1, <3>2, <3>5, CongruentIs
  <2>2. CASE before[a] # Minus
    <3>1. ret' = val
      BY <1>1, <1>4, <2>2
    <3> QED BY <1>2, <1>7, <1>8, <2>2, <3>1, CongruentIs
  <2> QED BY <2>1, <2>2
<1>11. DigitRun(d, p, base)
  BY <1>1, <1>2, <1>4, <1>5 DEF DigitRun, IsDigit
<1>12. /\ \A k \in p0 .. a - 1 : before[k] \in Blanks
       /\ before[a] \notin Blanks
  BY <1>4 DEF SignAt
<1>13. Marked(IF before[a] \in {Plus, Minus} THEN a + 1 ELSE a, c) = m
  BY DEF m, Start
<1>14. /\ a \in p0 .. p /\ m.digits <= p /\ DigitRun(m.digits, p, m.base)
       /\ (ret' - (IF before[a] = Minus THEN -Value(m.digits, p, m.base)
                                        ELSE Value(m.digits, p, m.base)))
            % Modulus = 0
  BY <1>4, <1>5, <1>6, <1>10, <1>11
<1>15. NumeralRight'
  BY <1>1, <1>9, <1>12, <1>13, <1>14, SameNumeral DEF NumeralRight, Returned
<1>16. Reading'
  BY <1>1, <1>2, ReadSoFar DEF Reading
<1> QED BY <1>15, <1>16

(* The other functions are of no concern.                                  *)
LEMMA OthersRead ==
  ASSUME SInv,
         \/ memset \/ stos \/ memmove \/ movs \/ BlockDone
         \/ StartCopy \/ strcpy \/ strncpy \/ strlcpy
         \/ StartScan \/ strlen \/ strnlen \/ strcmp \/ strncmp
         \/ strchr \/ strfind \/ memcmp \/ memfind
  PROVE  Reading' /\ NumeralRight'
<1>1. fn' = fn
  BY DEF memset, stos, memmove, movs, BlockDone, StartCopy, strcpy, strncpy, strlcpy,
         StartScan, strlen, strnlen, strcmp, strncmp, strchr, strfind, memcmp,
         memfind, Scan, others, args
<1>2. \/ fn = "memset" \/ fn \in Moves \/ fn \in Copies \/ fn \in Scans \cup Compare
      \/ pc \in {"stos", "movs", "copy", "scan"}
  BY DEF memset, stos, memmove, movs, BlockDone, StartCopy, strcpy, strncpy, strlcpy,
         StartScan, strlen, strnlen, strcmp, strncmp, strchr, strfind, memcmp,
         memfind, Scan
<1>3. pc \in {"stos", "movs", "copy", "scan"} =>
        fn = "memset" \/ fn \in Moves \/ fn \in Copies \/ fn \in Scans \cup Compare
  BY DEF SInv, Phase, Filling, Moving, Copying, Scanning
<1>4. fn # "strtol"
  BY <1>2, <1>3 DEF Moves, Copies, Scans, Compare
<1> QED BY <1>1, <1>4 DEF Reading, NumeralRight, Returned

LEMMA StutterReads ==
  ASSUME Reading, NumeralRight, UNCHANGED vars
  PROVE  Reading' /\ NumeralRight'
<1>1. UNCHANGED <<before, fn, p0, c, p, neg, val, base, ret, pc>>
  BY DEF vars, others, args, number
<1>2. Reading'
  BY <1>1, SameNumeral DEF Reading, SignAt, Start, IsDigit, Congruent
<1>3. NumeralRight'
  BY <1>1, SameNumeral DEF NumeralRight, Returned
<1> QED BY <1>2, <1>3

-----------------------------------------------------------------------------
(* The theorems.                                                           *)

LEMMA StutterKeepsInv ==
  ASSUME SInv, UNCHANGED vars
  PROVE  SInv'
<1>1. /\ UNCHANGED <<mem, before, fn, p0, q0, n0, c, p, q, n, unit, down, neg, val,
                     base, ret, pc>>
  BY DEF vars, others, args, number, flags
<1>2. TypeOK' /\ InCall' /\ TypeOK /\ InCall
  BY <1>1, SameCall DEF SInv, TypeOK, args
<1>3. /\ Fresh => Fresh'
      /\ Filling => Filling'
      /\ Moving => Moving'
      /\ Scanning => Scanning'
      /\ Parsing => Parsing'
  BY <1>1 DEF Fresh, Filling, FillByte, Moving, Backward, Scanning, Limited, Parsing
<1>4. Copying => Copying'
  BY <1>1 DEF Copying, Copied, Done, Target
<1>5. Phase'
  BY <1>1, <1>3, <1>4 DEF SInv, Phase
<1>6. BlocksRight'
  BY <1>1 DEF SInv, Results, BlocksRight, Returned, Becomes
<1>7. CopiesRight'
  BY <1>1 DEF SInv, Results, CopiesRight, Returned, Becomes
<1>8. ScansRight'
  BY <1>1, <1>2 DEF SInv, Results, ScansRight, Returned, Orders, Block
<1> QED BY <1>2, <1>5, <1>6, <1>7, <1>8 DEF SInv, Results

LEMMA StepInv == SInv /\ [Next]_vars => SInv'
<1> SUFFICES ASSUME SInv, [Next]_vars PROVE SInv'
  OBVIOUS
<1>1. CASE memset \/ stos \/ memmove \/ movs \/ BlockDone
  BY <1>1, MemsetKeepsInv, StosKeepsInv, MemmoveKeepsInv, MovsKeepsInv,
     BlockDoneKeepsInv
<1>2. CASE StartCopy \/ StartScan \/ strtol
  BY <1>2, StartsKeepInv
<1>3. CASE strcpy \/ strncpy \/ strlcpy
  BY <1>3, StrcpyKeepsInv, StrncpyKeepsInv, StrlcpyKeepsInv
<1>4. CASE strlen \/ strnlen \/ strchr \/ strfind \/ memfind
  BY <1>4, StrlenKeepsInv, StrnlenKeepsInv, StrchrKeepsInv, StrfindKeepsInv,
     MemfindKeepsInv
<1>5. CASE strcmp \/ strncmp \/ memcmp
  BY <1>5, StrcmpKeepsInv, StrncmpKeepsInv, MemcmpKeepsInv
<1>6. CASE Gobble \/ Sign \/ Prefix \/ Digit
  BY <1>6, StrtolKeepsInv
<1>7. CASE EndOfNumeral
  BY <1>7, EndOfNumeralKeepsInv
<1>8. CASE UNCHANGED vars
  BY <1>8, StutterKeepsInv
<1> QED BY <1>1, <1>2, <1>3, <1>4, <1>5, <1>6, <1>7, <1>8 DEF Next

LEMMA InvAlways == Spec => []SInv
BY InitInv, StepInv, PTL DEF Spec

(* memmove copies what the source held when it was called, in whichever    *)
(* direction and width it goes; memcpy copies, and memset fills.           *)
THEOREM BlocksCorrect == Spec => []BlocksRight
<1>1. SInv => BlocksRight
  BY DEF SInv, Results
<1> QED BY <1>1, InvAlways, PTL

(* strcpy, strcat, strncpy and strlcpy leave the source, cut and padded as *)
(* each does, in exactly the bytes that are theirs.                        *)
THEOREM CopiesCorrect == Spec => []CopiesRight
<1>1. SInv => CopiesRight
  BY DEF SInv, Results
<1> QED BY <1>1, InvAlways, PTL

(* The searches return the first place, and the comparisons the order, of  *)
(* the strings and blocks as they are in memory.                           *)
THEOREM ScansCorrect == Spec => []ScansRight
<1>1. SInv => ScansRight
  BY DEF SInv, Results
<1> QED BY <1>1, InvAlways, PTL

LEMMA NumeralStep == NInv /\ [Next]_vars => NInv'
<1> SUFFICES ASSUME SInv, Reading, NumeralRight, [Next]_vars
             PROVE  Reading' /\ NumeralRight'
  BY StepInv DEF NInv
<1>1. CASE strtol \/ Gobble \/ Sign
  BY <1>1, StartReads, GobbleReads, SignReads
<1>2. CASE Prefix \/ Digit \/ EndOfNumeral
  BY <1>2, PrefixReads, DigitReads, EndReads
<1>3. CASE \/ memset \/ stos \/ memmove \/ movs \/ BlockDone
           \/ StartCopy \/ strcpy \/ strncpy \/ strlcpy
           \/ StartScan \/ strlen \/ strnlen \/ strcmp \/ strncmp
           \/ strchr \/ strfind \/ memcmp \/ memfind
  BY <1>3, OthersRead
<1>4. CASE UNCHANGED vars
  BY <1>4, StutterReads
<1> QED BY <1>1, <1>2, <1>3, <1>4 DEF Next

(* strtol reads the longest numeral at its argument, with the sign, prefix *)
(* and base that it has, and returns the number it denotes, or its low     *)
(* bits where a long does not hold it.                                     *)
THEOREM NumeralsCorrect == Spec => []NumeralRight
<1>1. Init => NInv
  BY InitInv, InitReads DEF NInv
<1>2. NInv => NumeralRight
  BY DEF NInv
<1> QED BY <1>1, <1>2, NumeralStep, PTL DEF Spec
=============================================================================
