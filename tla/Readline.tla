------------------------------ MODULE Readline ------------------------------
(***************************************************************************)
(* readline() of lib/readline.c, the line editor of the kernel monitor, on *)
(* the screen of kern/console.c.  Every putchar is a step of its own: the  *)
(* characters of the prompt, the echo of every key, and whatever the       *)
(* monitor's commands print between two lines.                             *)
(*                                                                         *)
(* getchar() is the environment: any character may come.  It never answers *)
(* a negative number (cons_getc takes bytes out of a uint8_t array), so    *)
(* the "read error" branch is dead code and has no action.                 *)
(***************************************************************************)
EXTENDS Cga, Sequences

CONSTANTS
  BUFLEN,       \* 1024 in the code
  Prompt,       \* "K> " in the code
  DEL,          \* '\x7f', which the screen shows as a glyph
  CTL,          \* any other character below ' '
  NUL,          \* the end of a C string
  BiosScreens   \* the screens cga_init may find

ASSUME ReadlineAssumption ==
  /\ BUFLEN \in Nat \ {0}
  /\ Prompt \in Seq(Glyphs)
  /\ DEL \in Glyphs \ {Blank}
  /\ CTL \notin Glyphs \cup Controls
  /\ NUL \notin Glyphs
  /\ BiosScreens \subseteq Screens

(* A whole line and its prompt survive a scroll: 3 + 1023 <= 2000 - 80.    *)
ASSUME LineFitsScreen == Len(Prompt) + BUFLEN - 1 <= CRT_SIZE - CRT_COLS

VARIABLES
  screen,  \* crt_buf and crt_pos
  pc,      \* "monitor", "prompt" or "reading"
  shown,   \* characters of the prompt already printed
  i,       \* i of readline
  buf      \* the static buf of lib/readline.c

vars == <<screen, pc, shown, i, buf>>

Slots == 0 .. BUFLEN - 1

(* The index stays inside the line buffer and the cursor on the screen.    *)
TypeOK ==
  /\ screen \in Screens
  /\ pc \in {"monitor", "prompt", "reading"}
  /\ shown \in 0 .. Len(Prompt)
  /\ i \in Slots
  /\ buf \in [Slots -> Glyphs \cup {NUL}]

Init ==
  /\ screen \in BiosScreens
  /\ pc = "monitor"
  /\ shown = 0
  /\ i = 0
  /\ buf = [k \in Slots |-> NUL]

cputchar(c) == screen' = cga_putc(screen, c)

-----------------------------------------------------------------------------
(* The monitor between two calls of readline.                              *)

MonitorPrints ==
  /\ pc = "monitor"
  /\ \E c \in Glyphs \cup {NL} : cputchar(c)
  /\ UNCHANGED <<pc, shown, i, buf>>

(* runcmd cuts the line into words by writing NUL over its white space.    *)
runcmd_cuts ==
  /\ pc = "monitor"
  /\ \E k \in Slots : buf[k] = Blank /\ buf' = [buf EXCEPT ![k] = NUL]
  /\ UNCHANGED <<screen, pc, shown, i>>

readline ==
  /\ pc = "monitor"
  /\ pc' = "prompt"
  /\ shown' = 0
  /\ UNCHANGED <<screen, i, buf>>

-----------------------------------------------------------------------------
(* readline.                                                               *)

PrintPrompt ==
  /\ pc = "prompt" /\ shown < Len(Prompt)
  /\ cputchar(Prompt[shown + 1])
  /\ shown' = shown + 1
  /\ UNCHANGED <<pc, i, buf>>

StartLine ==
  /\ pc = "prompt" /\ shown = Len(Prompt)
  /\ pc' = "reading"
  /\ i' = 0
  /\ UNCHANGED <<screen, shown, buf>>

Rubout(c) ==
  /\ pc = "reading"
  /\ c \in {BS, DEL} /\ i > 0
  /\ cputchar(BS)
  /\ i' = i - 1
  /\ UNCHANGED <<pc, shown, buf>>

Insert_preincrement(c) ==
  /\ pc = "reading"
  /\ c \in Glyphs /\ ~(c = DEL /\ i > 0) /\ i < BUFLEN - 1
  /\ cputchar(c)
  /\ buf' = [buf EXCEPT ![i + 1] = c]
  /\ i' = i + 1
  /\ UNCHANGED <<pc, shown>>

(* A DEL on an empty line is no rubout but a character like any other.     *)
Insert(c) ==
  /\ pc = "reading"
  /\ c \in Glyphs /\ ~(c = DEL /\ i > 0) /\ i < BUFLEN - 1
  /\ cputchar(c)
  /\ buf' = [buf EXCEPT ![i] = c]
  /\ i' = i + 1
  /\ UNCHANGED <<pc, shown>>

Accept_unterminated(c) ==
  /\ pc = "reading"
  /\ c \in {NL, CR}
  /\ cputchar(NL)
  /\ pc' = "monitor"
  /\ UNCHANGED <<shown, i, buf>>

Accept(c) ==
  /\ pc = "reading"
  /\ c \in {NL, CR}
  /\ cputchar(NL)
  /\ buf' = [buf EXCEPT ![i] = NUL]
  /\ pc' = "monitor"
  /\ UNCHANGED <<shown, i>>

(* No branch applies: a control character, a BS with nothing to erase, or  *)
(* a character for which there is no room.                                 *)
Ignore(c) ==
  /\ pc = "reading"
  /\ c \notin {NL, CR}
  /\ c \in {BS, DEL} => i = 0
  /\ c \in Glyphs => i = BUFLEN - 1
  /\ UNCHANGED vars

Key(c) == Rubout(c) \/ Insert(c) \/ Accept(c) \/ Ignore(c)

Next ==
  \/ MonitorPrints \/ runcmd_cuts \/ readline
  \/ PrintPrompt \/ StartLine
  \/ \E c \in Glyphs \cup {BS, NL, CR, CTL} : Key(c)

Spec == Init /\ [][Next]_vars

-----------------------------------------------------------------------------
(* Properties.                                                             *)

(* The first cell of the prompt.                                           *)
Start == screen.pos - shown - i

(* The prompt is printed whole and never eaten by a backspace or a scroll. *)
PromptIntact ==
  pc # "monitor" =>
    /\ pc = "prompt" => screen.pos >= shown
    /\ pc = "reading" => Start >= 0 /\ shown = Len(Prompt)
    /\ \A k \in 1 .. shown :
         screen.buf[screen.pos - (IF pc = "reading" THEN i ELSE 0) - shown + k - 1]
           = Prompt[k]

(* Between the prompt and the cursor the screen shows buf[0 .. i-1],       *)
(* whatever was typed, erased and scrolled in the meantime.                *)
EchoMatches ==
  pc = "reading" =>
    \A k \in 0 .. i - 1 : screen.buf[screen.pos - i + k] = buf[k]

(* buf as a C string: up to its first NUL, which lies inside the array.    *)
IsCString(b, n) == b[n] = NUL /\ \A k \in 0 .. n - 1 : b[k] # NUL

(* The line readline returns is exactly the text on the screen between the *)
(* prompt and the cursor when return is pressed.                           *)
ReturnsWhatIsShown ==
  [][pc = "reading" /\ pc' = "monitor" =>
       \E n \in Slots :
         /\ IsCString(buf', n)
         /\ n <= screen.pos - Len(Prompt)
         /\ \A k \in 0 .. n - 1 : buf'[k] = screen.buf[screen.pos - n + k]
         /\ \A k \in 1 .. Len(Prompt) :
              Prompt[k] = screen.buf[screen.pos - n - Len(Prompt) + k - 1]]_vars
=============================================================================
