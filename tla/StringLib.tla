----------------------------- MODULE StringLib ------------------------------
(***************************************************************************)
(* lib/string.c: its copying, filling, searching and comparing functions   *)
(* and strtol on one memory, one step per element.  A behaviour is one     *)
(* call with arguments that C allows: strings end, and only memmove's      *)
(* regions overlap.                                                        *)
(*                                                                         *)
(* ASM is 1: memset and memmove move words when all is aligned.            *)
(***************************************************************************)
EXTENDS Numbers, Sequences

CONSTANTS
  Word,      \* 4 bytes in the code
  ByteSize,  \* 256
  MemSize,
  Memories,  \* contents of memory before the call
  Fills,     \* ints given as a character; a char is one of them in Bytes
  LONG_MAX,  \* 2^31 - 1
  Bases,     \* the third argument of strtol
  Numerals,  \* contents of memory before a call of strtol
  Blanks, Plus, Minus, Zero, LowerX,  \* some characters of strtol
  DigitValue,  \* function: the digits and letters, with their values
  NULL

Addrs == 0 .. MemSize - 1
Bytes == 0 .. ByteSize - 1

ASSUME StringAssumption ==
  /\ Word \in Nat \ {0} /\ ByteSize \in Nat \ {0} /\ MemSize \in Nat \ {0}
  /\ Memories \subseteq [Addrs -> Bytes]
  /\ Fills \subseteq Int
  /\ LONG_MAX \in Nat
  /\ Bases \subseteq {0} \cup 2 .. 36 /\ Numerals \subseteq [Addrs -> Bytes]
  /\ 0 \notin Blanks \cup {Plus, Minus}
  /\ DigitValue \in [DOMAIN DigitValue -> 0 .. 35]
  /\ DOMAIN DigitValue \subseteq Bytes \ (Blanks \cup {0, Plus, Minus})
  /\ {Zero, LowerX} \subseteq DOMAIN DigitValue
  /\ DigitValue[Zero] = 0 /\ DigitValue[LowerX] = 33
  /\ NULL \notin Int

VARIABLES
  mem,
  before,        \* history: the memory at the call
  fn, p0, q0, n0, c,  \* the call: two pointers, a size, a character or base
  p, q, n,       \* the pointers and the count of the loop
  unit, down,    \* bytes per element, and the direction flag
  neg, val, base,  \* locals of strtol; its s is p
  ret, pc

args   == <<before, fn, p0, q0, n0, c>>
number == <<neg, val, base>>
others == <<args, number>>
flags  == <<unit, down>>
vars   == <<mem, others, p, q, n, flags, ret, pc>>

Copies  == {"strcpy", "strcat", "strncpy", "strlcpy"}
Moves   == {"memmove", "memcpy"}
Blocks  == {"memset"} \cup Moves
Scans   == {"strlen", "strnlen", "strfind", "strchr", "memfind"}
Compare == {"strcmp", "strncmp", "memcmp"}

Longs == -LONG_MAX - 1 .. LONG_MAX

(* The number of longs.                                                    *)
Modulus == 2 * (LONG_MAX + 1)

(* The pointers stay in or one past the memory, or one element below it    *)
(* after a move downwards.                                                 *)
TypeOK ==
  /\ mem \in [Addrs -> Bytes]
  /\ p \in -unit .. MemSize /\ q \in -unit .. MemSize
  /\ n \in 0 .. MemSize
  /\ unit \in {1, Word} /\ down \in BOOLEAN
  /\ ret \in Int \cup {NULL}
  /\ neg \in BOOLEAN /\ val \in Longs /\ base \in 0 .. 36
  /\ pc \in {"call", "stos", "movs", "copy", "scan",
             "sign", "prefix", "digits", "done"}

-----------------------------------------------------------------------------
(* Memory and strings.                                                     *)

Ends(m, s) == {e \in s .. MemSize - 1 : m[e] = 0}

(* The C string at s.                                                      *)
Length(m, s) == CHOOSE k \in 0 .. MemSize : s + k \in Ends(m, s)
                  /\ \A e \in Ends(m, s) : s + k <= e
Str(m, s) == [k \in 1 .. Length(m, s) |-> m[s + k - 1]]

Apart(s, k, t, l) == s + k <= t \/ t + l <= s

(* What each function may be called with.                                  *)
Legal(m, f, d, s, k) ==
  /\ f \in {"strcpy", "strcat", "strncpy", "strlcpy", "strcmp", "strncmp"}
       => Ends(m, s) # {}
  /\ f \in {"strcat", "strlen", "strnlen", "strfind", "strchr", "strcmp",
            "strncmp", "strtol"} => Ends(m, d) # {}
  /\ f \in Blocks \cup {"memfind", "memcmp", "strncpy", "strlcpy"}
       => d + k <= MemSize
  /\ f \in Moves \cup {"memcmp"} => s + k <= MemSize
  /\ f = "memcpy" => Apart(d, k, s, k)
  /\ f \in {"strncpy", "strlcpy"}
       => Apart(d, k, s, Length(m, s) + 1)
  /\ f \in {"strcpy", "strcat"} =>
       LET at == IF f = "strcpy" THEN d ELSE d + Length(m, d)
           size == Length(m, s) + 1 IN
       at + size <= MemSize /\ Apart(d, at + size - d, s, size)

(* Arguments a function does not have are 0.                               *)
Init ==
  /\ fn \in Copies \cup Blocks \cup Scans \cup Compare \cup {"strtol"}
  /\ mem \in IF fn = "strtol" THEN Numerals ELSE Memories
  /\ before = mem
  /\ p0 \in IF fn = "strtol" THEN {0} ELSE Addrs
  /\ q0 \in IF fn \in Scans \cup {"memset", "strtol"} THEN {0} ELSE Addrs
  /\ n0 \in IF fn \in {"strcpy", "strcat", "strlen", "strfind", "strchr",
                       "strcmp", "strtol"} THEN {0} ELSE 0 .. MemSize
  /\ c \in CASE fn \in {"memset", "memfind"} -> Fills
           [] fn \in {"strfind", "strchr"}   -> Fills \cap Bytes
           [] fn = "strtol"                  -> Bases
           [] OTHER                          -> {0}
  /\ Legal(mem, fn, p0, q0, n0)
  /\ p = p0 /\ q = q0 /\ n = n0
  /\ unit = 1 /\ down = FALSE
  /\ neg = FALSE /\ val = 0
  /\ base = IF fn = "strtol" THEN c ELSE 0
  /\ ret = NULL /\ pc = "call"

-----------------------------------------------------------------------------
(* memset and memmove.                                                     *)

Aligned(a) == a % Word = 0

Elements(wide) ==
  /\ unit' = IF wide THEN Word ELSE 1
  /\ n' = n \div unit'

memset ==
  /\ pc = "call" /\ fn = "memset"
  /\ Elements(Aligned(p0) /\ Aligned(n0))
  /\ pc' = "stos"
  /\ UNCHANGED <<mem, others, p, q, down, ret>>

(* The low byte of c, for stosb as it is, for stosl in every byte.         *)
FillByte == c % ByteSize

stos ==
  /\ pc = "stos" /\ n > 0
  /\ mem' = [a \in Addrs |->
               IF a \in p .. p + unit - 1 THEN FillByte ELSE mem[a]]
  /\ p' = p + unit /\ n' = n - 1
  /\ UNCHANGED <<others, q, flags, ret, pc>>

Backward_never(d, s) == FALSE

(* Overlapping with the source below: from the end down.                   *)
Backward(d, s) == s < d /\ s + n0 > d

(* memcpy calls memmove.                                                   *)
memmove ==
  /\ pc = "call" /\ fn \in Moves
  /\ down' = Backward(p0, q0)
  /\ LET start == IF down' THEN n0 ELSE 0 IN
     /\ Elements(Aligned(q0 + start) /\ Aligned(p0 + start) /\ Aligned(n0))
     /\ p' = IF down' THEN p0 + n0 - unit' ELSE p0
     /\ q' = IF down' THEN q0 + n0 - unit' ELSE q0
  /\ pc' = "movs"
  /\ UNCHANGED <<mem, others, ret>>

movs ==
  /\ pc = "movs" /\ n > 0
  /\ mem' = [a \in Addrs |->
               IF a \in p .. p + unit - 1 THEN mem[q + (a - p)] ELSE mem[a]]
  /\ p' = IF down THEN p - unit ELSE p + unit
  /\ q' = IF down THEN q - unit ELSE q + unit
  /\ n' = n - 1
  /\ UNCHANGED <<others, flags, ret, pc>>

BlockDone ==
  /\ pc \in {"stos", "movs"} /\ n = 0
  /\ ret' = p0 /\ pc' = "done"
  /\ UNCHANGED <<mem, others, p, q, n, flags>>

-----------------------------------------------------------------------------
(* Copies of strings.                                                      *)

StartCopy ==
  /\ pc = "call" /\ fn \in Copies
  /\ p' = IF fn = "strcat" THEN p0 + Length(mem, p0) ELSE p0
  /\ pc' = "copy"
  /\ UNCHANGED <<mem, others, q, n, flags, ret>>

CopyByte == mem' = [mem EXCEPT ![p] = mem[q]] /\ p' = p + 1

strcpy ==
  /\ pc = "copy" /\ fn \in {"strcpy", "strcat"}
  /\ CopyByte /\ q' = q + 1
  /\ IF mem[q] = 0 THEN ret' = p0 /\ pc' = "done" ELSE UNCHANGED <<ret, pc>>
  /\ UNCHANGED <<others, n, flags>>

(* The source is not passed beyond its NUL, which fills up the rest.       *)
strncpy ==
  /\ pc = "copy" /\ fn = "strncpy"
  /\ IF n > 0
       THEN /\ CopyByte /\ q' = IF mem[q] # 0 THEN q + 1 ELSE q
            /\ n' = n - 1
            /\ UNCHANGED <<ret, pc>>
       ELSE /\ ret' = p0 /\ pc' = "done"
            /\ UNCHANGED <<mem, p, q, n>>
  /\ UNCHANGED <<others, flags>>

KeepsRoom_none == n > 0

(* --size > 0: one byte is kept for the NUL.                               *)
KeepsRoom == n > 1

strlcpy ==
  /\ pc = "copy" /\ fn = "strlcpy"
  /\ IF KeepsRoom /\ mem[q] # 0
       THEN /\ CopyByte /\ q' = q + 1 /\ n' = n - 1
            /\ UNCHANGED <<ret, pc>>
       ELSE /\ mem' = IF n0 > 0 THEN [mem EXCEPT ![p] = 0] ELSE mem
            /\ ret' = p - p0 /\ pc' = "done"
            /\ UNCHANGED <<p, q, n>>
  /\ UNCHANGED <<others, flags>>

-----------------------------------------------------------------------------
(* Searches and comparisons: a loop that goes on under a condition, and a  *)
(* result.                                                                 *)

StartScan ==
  /\ pc = "call" /\ fn \in Scans \cup Compare
  /\ pc' = "scan"
  /\ UNCHANGED <<mem, others, p, q, n, flags, ret>>

Scan(f, going, result) ==
  /\ pc = "scan" /\ fn = f
  /\ IF going
       THEN /\ p' = p + 1
            /\ q' = IF f \in Compare THEN q + 1 ELSE q
            /\ n' = IF n > 0 THEN n - 1 ELSE n
            /\ UNCHANGED <<ret, pc>>
       ELSE /\ ret' = result /\ pc' = "done"
            /\ UNCHANGED <<p, q, n>>
  /\ UNCHANGED <<mem, others, flags>>

Signed(b) == IF b >= ByteSize \div 2 THEN b - ByteSize ELSE b

Diff_signed == Signed(mem[p]) - Signed(mem[q])

(* Both bytes as unsigned char.                                            *)
Diff == mem[p] - mem[q]

strlen  == Scan("strlen", mem[p] # 0, p - p0)
strnlen == Scan("strnlen", n > 0 /\ mem[p] # 0, p - p0)
strcmp  == Scan("strcmp", mem[p] # 0 /\ mem[p] = mem[q], Diff)
strncmp == Scan("strncmp", n > 0 /\ mem[p] # 0 /\ mem[p] = mem[q],
                IF n = 0 THEN 0 ELSE Diff)
strchr  == Scan("strchr", mem[p] # 0 /\ mem[p] # c,
                IF mem[p] = 0 THEN NULL ELSE p)
strfind == Scan("strfind", mem[p] # 0 /\ mem[p] # c, p)
memcmp  == Scan("memcmp", n > 0 /\ mem[p] = mem[q], IF n = 0 THEN 0 ELSE Diff)
memfind == Scan("memfind", n > 0 /\ mem[p] # c % ByteSize, p)

-----------------------------------------------------------------------------
(* strtol.                                                                 *)

strtol ==
  /\ pc = "call" /\ fn = "strtol"
  /\ pc' = "sign"
  /\ UNCHANGED <<mem, others, p, q, n, flags, ret>>

Gobble ==
  /\ pc = "sign" /\ mem[p] \in Blanks
  /\ p' = p + 1
  /\ UNCHANGED <<mem, others, q, n, flags, ret, pc>>

Sign ==
  /\ pc = "sign" /\ mem[p] \notin Blanks
  /\ neg' = (mem[p] = Minus)
  /\ p' = IF mem[p] \in {Plus, Minus} THEN p + 1 ELSE p
  /\ pc' = "prefix"
  /\ UNCHANGED <<mem, args, val, base, q, n, flags, ret>>

(* The character behind a 0 is looked at only if there is one.             *)
Prefix ==
  /\ pc = "prefix"
  /\ LET hex == base \in {0, 16} /\ mem[p] = Zero /\ mem[p + 1] = LowerX
         octal == base = 0 /\ mem[p] = Zero /\ ~hex IN
     /\ base' = CASE hex -> 16 [] octal -> 8
                  [] ~hex /\ ~octal -> IF base = 0 THEN 10 ELSE base
     /\ p' = CASE hex -> p + 2 [] octal -> p + 1 [] OTHER -> p
  /\ pc' = "digits"
  /\ UNCHANGED <<mem, args, neg, val, q, n, flags, ret>>

IsDigit_one_more(ch) ==
  ch \in DOMAIN DigitValue /\ DigitValue[ch] <= base

IsDigit(ch) == ch \in DOMAIN DigitValue /\ DigitValue[ch] < base

(* A long keeps its low bits.                                              *)
Wrap(v) ==
  LET low == v % Modulus IN
  IF low \in Longs THEN low ELSE low - Modulus

Digit ==
  /\ pc = "digits" /\ IsDigit(mem[p])
  /\ val' = Wrap(val * base + DigitValue[mem[p]])
  /\ p' = p + 1
  /\ UNCHANGED <<mem, args, neg, base, q, n, flags, ret, pc>>

EndOfNumeral ==
  /\ pc = "digits" /\ ~IsDigit(mem[p])
  /\ ret' = IF neg THEN Wrap(-val) ELSE val
  /\ pc' = "done"
  /\ UNCHANGED <<mem, others, p, q, n, flags>>

Next ==
  \/ memset \/ stos \/ memmove \/ movs \/ BlockDone
  \/ StartCopy \/ strcpy \/ strncpy \/ strlcpy
  \/ StartScan \/ strlen \/ strnlen \/ strcmp \/ strncmp
  \/ strchr \/ strfind \/ memcmp \/ memfind
  \/ strtol \/ Gobble \/ Sign \/ Prefix \/ Digit \/ EndOfNumeral

Spec == Init /\ [][Next]_vars

-----------------------------------------------------------------------------
(* Properties.                                                             *)

Returned(f) == pc = "done" /\ fn = f

(* The memory after the call is the one before but for k bytes at d, which *)
(* are as given.                                                           *)
Becomes(d, k, byte(_)) ==
  mem = [a \in Addrs |->
           IF a \in d .. d + k - 1 THEN byte(a - d) ELSE before[a]]

(* memmove copies what the source held at the call, however the regions    *)
(* overlap, memcpy too where they do not, and memset fills every byte,     *)
(* whether they go by bytes or words; nothing else is touched.             *)
BlocksRight ==
  /\ pc = "done" /\ fn \in Moves =>
       LET From(k) == before[q0 + k] IN Becomes(p0, n0, From)
  /\ Returned("memset") =>
       LET Fill(k) == c % ByteSize IN Becomes(p0, n0, Fill)

(* A copy holds the source, cut where the function cuts it, with its NUL,  *)
(* and writes nothing behind the size it was given.                        *)
CopiesRight ==
  LET len == Length(before, q0)
      Source(k) == before[q0 + k]
      Padded(k) == IF k <= len THEN before[q0 + k] ELSE 0
      Cut(k)    == IF k < n0 - 1 THEN before[q0 + k] ELSE 0
      shorter   == IF len < n0 - 1 THEN len ELSE n0 - 1
  IN /\ Returned("strcpy") => Becomes(p0, len + 1, Source)
     /\ Returned("strcat") =>
          Becomes(p0 + Length(before, p0), len + 1, Source)
     /\ Returned("strncpy") => Becomes(p0, n0, Padded)
     /\ Returned("strlcpy") =>
          IF n0 = 0 THEN mem = before /\ ret = 0
          ELSE Becomes(p0, shorter + 1, Cut) /\ ret = shorter

(* The order of a dictionary.                                              *)
Precedes(s, t) ==
  \E k \in 1 .. Len(t) :
    /\ k - 1 <= Len(s)
    /\ \A j \in 1 .. k - 1 : s[j] = t[j]
    /\ k <= Len(s) => s[k] < t[k]

First(s, k) == SubSeq(s, 1, IF k < Len(s) THEN k ELSE Len(s))

Block(s, k) == [j \in 1 .. k |-> before[s + j - 1]]

Orders(s, t) == (ret < 0 <=> Precedes(s, t)) /\ (ret > 0 <=> Precedes(t, s))

(* The first place of a character, the end if there is none.               *)
Place(s, ch) ==
  CHOOSE k \in 1 .. Len(s) + 1 :
    /\ k <= Len(s) => s[k] = ch
    /\ \A j \in 1 .. k - 1 : s[j] # ch

(* Lengths and places are those of the string, and never behind its NUL or *)
(* the size given; the comparisons give the order of the strings, or of    *)
(* what the size leaves of them, with bytes above 127 behind all others.   *)
ScansRight ==
  /\ TypeOK
  /\ Returned("strlen") => ret = Len(Str(before, p0))
  /\ Returned("strnlen") => ret = Len(First(Str(before, p0), n0))
  /\ Returned("strfind") => ret = p0 + Place(Str(before, p0), c) - 1
  /\ Returned("strchr") =>
       LET s == Str(before, p0) IN
       IF Place(s, c) > Len(s) THEN ret = NULL
                               ELSE ret = p0 + Place(s, c) - 1
  /\ Returned("memfind") =>
       ret = p0 + Place(Block(p0, n0), c % ByteSize) - 1
  /\ Returned("strcmp") => Orders(Str(before, p0), Str(before, q0))
  /\ Returned("strncmp") =>
       Orders(First(Str(before, p0), n0), First(Str(before, q0), n0))
  /\ Returned("memcmp") => Orders(Block(p0, n0), Block(q0, n0))

(* The number that the digits from a to e - 1 denote, by position: low[k]  *)
(* is that of the last k of them.                                          *)
Value(a, e, b) ==
  LET low[k \in 0 .. e - a] ==
        IF k = 0 THEN 0
        ELSE low[k - 1] + DigitValue[before[e - k]] * Powers(b)[k - 1]
  IN low[e - a]

(* From a to e - 1 there are digits of base b, and no more behind.         *)
DigitRun(a, e, b) ==
  LET digit(k) == /\ before[k] \in DOMAIN DigitValue
                  /\ DigitValue[before[k]] < b
  IN (\A k \in a .. e - 1 : digit(k)) /\ ~digit(e)

(* The base that the numeral at a has under the argument b, and where its  *)
(* digits begin.  An upper case X is no part of a prefix.                  *)
Marked(a, b) ==
  CASE b \in {0, 16} /\ before[a] = Zero /\ before[a + 1] = LowerX
         -> [base |-> 16, digits |-> a + 2]
    [] b = 0 /\ before[a] = Zero /\ before[a + 1] # LowerX
         -> [base |-> 8, digits |-> a]
    [] b = 0 /\ before[a] # Zero -> [base |-> 10, digits |-> a]
    [] OTHER -> [base |-> b, digits |-> a]

(* strtol skips blanks and one sign, finds the base, takes the longest run *)
(* of its digits and leaves *endptr behind it.  The result is the number   *)
(* these denote, or its low bits where a long does not hold it.            *)
NumeralRight ==
  Returned("strtol") =>
    \E a \in p0 .. p :
      /\ \A k \in p0 .. a - 1 : before[k] \in Blanks
      /\ before[a] \notin Blanks
      /\ LET signed == before[a] \in {Plus, Minus}
             m == Marked(IF signed THEN a + 1 ELSE a, c)
             v == Value(m.digits, p, m.base) IN
         /\ m.digits <= p /\ DigitRun(m.digits, p, m.base)
         /\ ret \in Longs
         /\ (ret - (IF before[a] = Minus THEN -v ELSE v)) % Modulus = 0
=============================================================================
