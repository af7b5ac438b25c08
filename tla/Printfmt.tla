------------------------------ MODULE Printfmt ------------------------------
(***************************************************************************)
(* vprintfmt() of lib/printfmt.c, one step per character of the format,    *)
(* per conversion and per call of printnum, with the two sinks it is used  *)
(* with: the counter of cprintf and the bounded buffer of snprintf.        *)
(*                                                                         *)
(* A format here is one directive between text.  It is chosen as a record, *)
(* what its author means; the code sees only its characters, and Meaning   *)
(* says what the author is to get.                                         *)
(***************************************************************************)
EXTENDS Numbers, Sequences

CONSTANTS
  INT_MAX, LLONG_MAX,     \* the largest int and long long; long is as int
  Octal, Decimal, Hex,    \* the three bases, 8, 10 and 16
  MAXERROR,               \* error numbers from 1 up to it have a text
  Directives,             \* the directives to format
  ArgChars,               \* arguments of %c, and what strings are made of
  Strings,                \* arguments of %s, NULL among them
  ErrorArgs,              \* arguments of %e
  BufSizes,               \* arguments n of snprintf, from 1 on
  NULL

NUL == "NUL"
SPACE == "SPACE"
TextAfter == "a"

Ints(max) == -max - 1 .. max

(* What unsigned arithmetic is modulo, for the same width.                 *)
Modulus(max) == 2 * max + 2

Conversions == {"c", "e", "s", "d", "u", "o", "p", "x", "%"}

ASSUME PrintfmtAssumption ==
  /\ INT_MAX \in Nat /\ LLONG_MAX \in Nat /\ INT_MAX < LLONG_MAX
  /\ Octal \in Nat /\ Decimal \in Nat /\ Hex \in Nat
  /\ 1 < Octal /\ Octal < Decimal /\ Decimal < Hex /\ Hex <= 16
  /\ MAXERROR \in 0 .. INT_MAX /\ MAXERROR <= 16
  /\ ErrorArgs \subseteq Ints(INT_MAX)
  /\ BufSizes \subseteq Nat \ {0}
  /\ Strings \ {NULL} \subseteq Seq(ArgChars)
  /\ Directives \subseteq
       [minus : BOOLEAN, zero : BOOLEAN, alt : BOOLEAN, width : 0 .. 99,
        prec : {"none", "one", "star"}, longs : 0 .. 2,
        conv : Conversions \cup {"z", NUL}]

digits == <<"0", "1", "2", "3", "4", "5", "6", "7", "8", "9",
            "a", "b", "c", "d", "e", "f">>

VARIABLES
  dir, given,   \* the directive, and its arguments
  fmt, at,      \* the format, ending in NUL, and the next character
  ap,           \* arguments not yet taken
  padc, width, precision, lflag, altflag,
  num, base,    \* the arguments of printnum
  lower,        \* the digits that the calls of printnum will print
  out,          \* every character given to putch
  size, buf, cnt,  \* snprintf: n, what is in the buffer, the count
  fpc           \* "text", "reswitch", "width", "printnum", "back", "done"

input  == <<dir, given, fmt, size>>
flags  == <<padc, width, precision, lflag, altflag>>
number == <<num, base, lower>>
sink   == <<out, buf, cnt>>
fvars  == <<input, at, ap, flags, number, sink, fpc>>

-----------------------------------------------------------------------------
(* The sink.                                                               *)

Fitting_to_the_brim(s) == {k \in DOMAIN s : Len(buf) + k <= size}

(* sprintputch keeps one place for the NUL, and counts what does not fit.  *)
(* vsnprintf does not come here without a buffer.                          *)
Fitting(s) == {k \in DOMAIN s : Len(buf) + k <= size - 1}

sprintputch(s) == buf' = buf \o [k \in Fitting(s) |-> s[k]]

(* The putch of cprintf shows everything, and counts it too.               *)
cprintf_putch(s) == out' = out \o s /\ cnt' = cnt + Len(s)

putch(s) == sprintputch(s) /\ cprintf_putch(s)

Times(c, k) == IF k > 0 THEN [i \in 1 .. k |-> c] ELSE <<>>

-----------------------------------------------------------------------------
(* Text, and the characters between % and the conversion.                  *)

ch == fmt[at]

Reads(state, chars) == fpc = state /\ at <= Len(fmt) /\ ch \in chars

Text ==
  /\ fpc = "text" /\ at <= Len(fmt) /\ ch \notin {"%", NUL}
  /\ putch(<<ch>>)
  /\ at' = at + 1
  /\ UNCHANGED <<input, ap, flags, number, fpc>>

EndOfFormat ==
  /\ Reads("text", {NUL})
  /\ fpc' = "done"
  /\ UNCHANGED <<input, at, ap, flags, number, sink>>

Percent ==
  /\ Reads("text", {"%"})
  /\ padc' = SPACE /\ width' = -1 /\ precision' = -1
  /\ lflag' = 0 /\ altflag' = FALSE
  /\ at' = at + 1 /\ fpc' = "reswitch"
  /\ UNCHANGED <<input, ap, number, sink>>

Reswitch ==
  /\ at' = at + 1 /\ fpc' = "reswitch"
  /\ UNCHANGED <<input, number, sink>>

PadFlag ==
  /\ Reads("reswitch", {"-", "0"})
  /\ padc' = ch
  /\ Reswitch
  /\ UNCHANGED <<ap, width, precision, lflag, altflag>>

(* process_precision: the first number is the width, the second the        *)
(* precision.                                                              *)
Number(v) ==
  IF width < 0 THEN width' = v /\ precision' = -1
               ELSE precision' = v /\ UNCHANGED width

DigitChars == {digits[k] : k \in 1 .. 10}

DigitOf(c) == CHOOSE k \in 0 .. 9 : digits[k + 1] = c

(* The loop over the digits of a number begins, takes a digit, and ends.   *)
WidthStart ==
  /\ Reads("reswitch", DigitChars \ {"0"})
  /\ precision' = DigitOf(ch)
  /\ at' = at + 1 /\ fpc' = "width"
  /\ UNCHANGED <<input, sink, number, ap, padc, width, lflag, altflag>>

WidthDigit ==
  /\ Reads("width", DigitChars)
  /\ precision' = precision * 10 + DigitOf(ch)
  /\ at' = at + 1
  /\ UNCHANGED <<input, sink, number, ap, padc, width, lflag, altflag, fpc>>

WidthEnd ==
  /\ fpc = "width" /\ at <= Len(fmt) /\ ch \notin DigitChars
  /\ Number(precision)
  /\ fpc' = "reswitch"
  /\ UNCHANGED <<input, sink, number, at, ap, padc, lflag, altflag>>

Star ==
  /\ Reads("reswitch", {"*"})
  /\ Number(Head(ap)) /\ ap' = Tail(ap)
  /\ Reswitch
  /\ UNCHANGED <<padc, lflag, altflag>>

Dot ==
  /\ Reads("reswitch", {"."})
  /\ width' = IF width < 0 THEN 0 ELSE width
  /\ Reswitch
  /\ UNCHANGED <<ap, padc, precision, lflag, altflag>>

SharpOrLong ==
  /\ Reads("reswitch", {"#", "l"})
  /\ altflag' = (altflag \/ ch = "#")
  /\ lflag' = IF ch = "l" THEN lflag + 1 ELSE lflag
  /\ Reswitch
  /\ UNCHANGED <<ap, padc, width, precision>>

-----------------------------------------------------------------------------
(* The conversions.                                                        *)

(* Prints s and goes on with the text.                                     *)
Convert(s) ==
  /\ putch(s)
  /\ at' = at + 1 /\ fpc' = "text"
  /\ UNCHANGED <<input, flags, number>>

CharConv ==
  /\ Reads("reswitch", {"c"})
  /\ Convert(<<Head(ap)>>) /\ ap' = Tail(ap)

(* Prints s and then the number v.                                         *)
ConvertNumber(s, v, b) ==
  /\ putch(s)
  /\ num' = v /\ base' = b /\ lower' = <<>>
  /\ at' = at + 1 /\ fpc' = "printnum"
  /\ UNCHANGED <<input, precision, lflag, altflag>>

getuint(v) == v % Modulus(IF lflag >= 2 THEN LLONG_MAX ELSE INT_MAX)

(* getint's value has the type the argument has.                           *)
ConvertSigned(s, v) ==
  IF v < 0
  THEN ConvertNumber(s \o <<"-">>, (-v) % Modulus(LLONG_MAX), Decimal)
  ELSE ConvertNumber(s, v, Decimal)

SignedConv ==
  /\ Reads("reswitch", {"d"})
  /\ ap' = Tail(ap)
  /\ ConvertSigned(<<>>, Head(ap))
  /\ UNCHANGED <<padc, width>>

UnsignedConv ==
  /\ Reads("reswitch", {"u", "o", "x"})
  /\ ap' = Tail(ap)
  /\ ConvertNumber(<<>>, getuint(Head(ap)),
                   CASE ch = "u" -> Decimal [] ch = "o" -> Octal
                     [] ch = "x" -> Hex)
  /\ UNCHANGED <<padc, width>>

PointerConv ==
  /\ Reads("reswitch", {"p"})
  /\ ap' = Tail(ap)
  /\ ConvertNumber(<<"0", "x">>, Head(ap) % Modulus(INT_MAX), Hex)
  /\ UNCHANGED <<padc, width>>

(* A call of printnum calls itself for the digits before its own ...       *)
PrintHigher ==
  /\ fpc = "printnum" /\ num >= base
  /\ num' = num \div base /\ width' = width - 1
  /\ lower' = <<digits[(num % base) + 1]>> \o lower
  /\ UNCHANGED <<input, at, ap, padc, precision, lflag, altflag, base, sink,
                 fpc>>

(* ... and the one for the first digit prints the padding.  Then each      *)
(* prints its digit and returns.                                           *)
PrintDigits ==
  /\ fpc = "printnum" /\ num < base
  /\ putch(Times(padc, width - 1) \o <<digits[(num % base) + 1]>> \o lower)
  /\ fpc' = "text"
  /\ UNCHANGED <<input, at, ap, flags, number>>

(* The least int is its own negation.  Compared with MAXERROR as unsigned  *)
(* it is large; as signed it goes on to index the table, where it scales   *)
(* to entry 0, which is NULL.  Either way the build prints the number.     *)
(* The inner vprintfmt starts with no width and no flags.                  *)
ErrorConv ==
  /\ Reads("reswitch", {"e"})
  /\ ap' = Tail(ap)
  /\ LET err == IF Head(ap) < 0 /\ -Head(ap) \in Ints(INT_MAX)
                THEN -Head(ap) ELSE Head(ap) IN
     IF err \in 1 .. MAXERROR - 1
     THEN Convert(<<"message", digits[err + 1]>>)
     ELSE /\ ConvertSigned(<<"error">>, err)
          /\ padc' = SPACE /\ width' = -1

(* The characters of a string, under # with ? for those that do not print. *)
Shown(s) ==
  [k \in DOMAIN s |-> IF altflag /\ s[k] = "ctl" THEN "?" ELSE s[k]]

strnlen(s, limit) == IF limit < 0 \/ Len(s) < limit THEN Len(s) ELSE limit

StringConv_whole_width ==
  /\ Reads("reswitch", {"s"})
  /\ ap' = Tail(ap)
  /\ LET p == IF Head(ap) = NULL THEN <<"(null)">> ELSE Head(ap)
         shown == SubSeq(p, 1, strnlen(p, precision)) IN
     IF padc # "-"
     THEN Convert(Times(padc, width - Len(p)) \o Shown(shown))
     ELSE Convert(Shown(shown) \o Times(SPACE, width - Len(shown)))

StringConv ==
  /\ Reads("reswitch", {"s"})
  /\ ap' = Tail(ap)
  /\ LET p == IF Head(ap) = NULL THEN <<"(null)">> ELSE Head(ap)
         shown == SubSeq(p, 1, strnlen(p, precision)) IN
     IF padc # "-"
     THEN Convert(Times(padc, width - Len(shown)) \o Shown(shown))
     ELSE Convert(Shown(shown) \o Times(SPACE, width - Len(shown)))

EscapedPercent ==
  /\ Reads("reswitch", {"%"})
  /\ Convert(<<"%">>) /\ UNCHANGED ap

Known == {"-", "*", ".", "#", "l"} \cup Conversions \cup DigitChars

(* Also the end of the format: a % is printed, and the loop goes back to   *)
(* the character behind the % of the format.                               *)
Unrecognized ==
  /\ fpc = "reswitch" /\ at <= Len(fmt) /\ ch \notin Known
  /\ putch(<<"%">>)
  /\ fpc' = "back"
  /\ UNCHANGED <<input, at, ap, flags, number>>

BackOne_lost ==
  /\ fpc = "back" /\ fmt[at - 1] # "%"
  /\ UNCHANGED fvars

BackOne ==
  /\ fpc = "back" /\ fmt[at - 1] # "%"
  /\ at' = at - 1
  /\ UNCHANGED <<input, ap, flags, number, sink, fpc>>

BackEnd ==
  /\ fpc = "back" /\ fmt[at - 1] = "%"
  /\ fpc' = "text"
  /\ UNCHANGED <<input, at, ap, flags, number, sink>>

-----------------------------------------------------------------------------
(* The author's side.                                                      *)

FlagsOf(x) ==
  (IF x.minus THEN <<"-">> ELSE <<>>) \o (IF x.zero THEN <<"0">> ELSE <<>>)
    \o (IF x.alt THEN <<"#">> ELSE <<>>)

WidthOf(x) ==
  CASE x.width = 0  -> <<>>
    [] x.width \in 1 .. 9 -> <<digits[x.width + 1]>>
    [] OTHER -> <<digits[(x.width \div 10) + 1],
                  digits[(x.width % 10) + 1]>>

PrecisionOf(x) ==
  CASE x.prec = "none" -> <<>>
    [] x.prec = "one"  -> <<".", "1">>
    [] x.prec = "star" -> <<".", "*">>

Render(x) ==
  <<"%">> \o FlagsOf(x) \o WidthOf(x) \o PrecisionOf(x)
    \o Times("l", x.longs) \o (IF x.conv = NUL THEN <<>> ELSE <<x.conv>>)

After(x) == IF x.conv = NUL THEN <<>> ELSE <<TextAfter>>

(* What the caller passes: the precision of .* and the value.              *)
ValuesOf(x) ==
  CASE x.conv \in {"d", "u", "o", "x"} ->
         Ints(IF x.longs = 2 THEN LLONG_MAX ELSE INT_MAX)
    [] x.conv = "p" -> Ints(INT_MAX)
    [] x.conv = "c" -> ArgChars
    [] x.conv = "e" -> ErrorArgs
    [] x.conv = "s" -> Strings
    [] OTHER -> {"unused"}

ArgsOf(x) ==
  IF x.prec = "star" THEN {<<k, v>> : k \in {0, 2}, v \in ValuesOf(x)}
                     ELSE {<<v>> : v \in ValuesOf(x)}

FmtInit ==
  /\ dir \in Directives
  /\ given \in ArgsOf(dir)
  /\ fmt = Render(dir) \o After(dir) \o <<NUL>>
  /\ at = 1 /\ ap = given
  /\ padc = SPACE /\ width = -1 /\ precision = -1
  /\ lflag = 0 /\ altflag = FALSE
  /\ num = 0 /\ base = Decimal /\ lower = <<>>
  /\ out = <<>> /\ size \in BufSizes /\ buf = <<>> /\ cnt = 0
  /\ fpc = "text"

FmtNext ==
  \/ Text \/ EndOfFormat \/ Percent
  \/ PadFlag \/ WidthStart \/ WidthDigit \/ WidthEnd
  \/ Star \/ Dot \/ SharpOrLong
  \/ CharConv \/ ErrorConv \/ StringConv
  \/ SignedConv \/ UnsignedConv \/ PointerConv
  \/ PrintHigher \/ PrintDigits
  \/ EscapedPercent \/ Unrecognized \/ BackOne \/ BackEnd

FmtSpec == FmtInit /\ [][FmtNext]_fvars

(* A plain function call.                                                  *)
FairFmtSpec == FmtSpec /\ WF_fvars(FmtNext)

-----------------------------------------------------------------------------
(* Properties.                                                             *)

FmtTypeOK ==
  /\ at \in 1 .. Len(fmt)
  /\ padc \in {SPACE, "-", "0"}
  /\ width \in Int /\ precision \in Int
  /\ lflag \in Nat /\ altflag \in BOOLEAN
  /\ num \in Nat /\ base \in {Octal, Decimal, Hex}
  /\ fpc \in {"text", "reswitch", "width", "printnum", "back", "done"}

(* The digits of a number without leading zeros, by position.              *)
Length(v, b) ==
  CHOOSE k \in 1 .. v + 1 :
    v < Powers(b)[k] /\ (k = 1 \/ v >= Powers(b)[k - 1])

Numeral(v, b) ==
  [k \in 1 .. Length(v, b) |->
     digits[((v \div Powers(b)[Length(v, b) - k]) % b) + 1]]

PadLeft(s, w, pad) == Times(pad, w - Len(s)) \o s
PadRight(s, w)     == s \o Times(SPACE, w - Len(s))

PadOf(x) == IF x.zero THEN "0" ELSE SPACE

(* What a directive is to print.  A sign comes before the padding and is   *)
(* not counted in the width; a precision does not change a number.  An     *)
(* error number is printed without its sign, but for the least int, which  *)
(* has no positive counterpart.                                            *)
Meaning(x, args) ==
  LET v == args[Len(args)]
      padded(u, b) == PadLeft(Numeral(u, b), x.width, PadOf(x))
      unsigned == v % Modulus(IF x.longs = 2 THEN LLONG_MAX ELSE INT_MAX)
      string == IF v = NULL THEN <<"(null)">> ELSE v
      limit == CASE x.prec = "none" -> Len(string) [] x.prec = "one" -> 1
                 [] x.prec = "star" -> args[1]
      cut == [k \in {i \in DOMAIN string : i <= limit} |->
                IF x.alt /\ string[k] = "ctl" THEN "?" ELSE string[k]]
      abs == IF v < 0 THEN -v ELSE v
  IN CASE x.conv = "c" -> <<v>>
       [] x.conv = "%" -> <<"%">>
       [] x.conv = "d" -> (IF v < 0 THEN <<"-">> ELSE <<>>)
                            \o padded(abs, Decimal)
       [] x.conv = "u" -> padded(unsigned, Decimal)
       [] x.conv = "o" -> padded(unsigned, Octal)
       [] x.conv = "x" -> padded(unsigned, Hex)
       [] x.conv = "p" -> <<"0", "x">>
                            \o padded(v % Modulus(INT_MAX), Hex)
       [] x.conv = "s" -> IF x.minus THEN PadRight(cut, x.width)
                                     ELSE PadLeft(cut, x.width, PadOf(x))
       [] x.conv = "e" -> IF abs \in 1 .. MAXERROR - 1
                          THEN <<"message", digits[abs + 1]>>
                          ELSE (IF abs \in Ints(INT_MAX) THEN <<"error">>
                                ELSE <<"error", "-">>)
                                 \o Numeral(abs, Decimal)
       [] OTHER -> Render(x)

(* Left alignment is not for numbers and does not go with zeros: vprintfmt *)
(* keeps one pad character for both flags, and would pad a number with "-" *)
(* on the left.                                                            *)
Sensible(x) ==
  x.minus => /\ x.conv \notin {"d", "u", "o", "x", "p"}
             /\ ~(x.conv = "s" /\ x.zero)

(* Flags, width, precision and length read from the characters come to     *)
(* what the author wrote, an unknown directive is printed as it stands,    *)
(* and the text behind is untouched.                                       *)
FormatsRight ==
  fpc = "done" /\ Sensible(dir) =>
    out = Meaning(dir, given) \o After(dir)

(* No call reads a character behind the NUL of its format, whichever       *)
(* character a directive stops at, nor one before its start on the way     *)
(* back to the %, nor writes beyond the n bytes of its buffer: snprintf    *)
(* keeps as much of the output as fits before the NUL and returns the      *)
(* length of all of it.                                                    *)
StaysInside ==
  /\ FmtTypeOK
  /\ fpc = "back" => at > 1
  /\ Len(buf) <= size - 1
  /\ buf = SubSeq(out, 1, Len(buf)) /\ cnt = Len(out)
  /\ Len(buf) < size - 1 => buf = out

(* The loops and jumps of vprintfmt come to an end.                        *)
Returns == <>(fpc = "done")
=============================================================================
