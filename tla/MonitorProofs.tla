--------------------------- MODULE MonitorProofs ---------------------------
(***************************************************************************)
(* The monitor, the line editor it calls and the screen, for every size of *)
(* screen, prompt, buffer, argument limit and alphabet such that a whole   *)
(* line and its prompt leave one row of the screen free.  First the screen *)
(* by itself, then the editor: the screen shows the prompt and the line    *)
(* buffer at all times, and readline returns what it shows.  Then the      *)
(* monitor: it is a fit environment of the editor, so all that is proved   *)
(* of the editor holds of both, and a command gets the words of the line.  *)
(***************************************************************************)
EXTENDS Monitor, SequenceTheorems, FiniteSetTheorems, TLAPS

(***************************************************************************)
(* The screen: the cursor stays on it, and seen from the cursor nothing    *)
(* moves.                                                                  *)
(***************************************************************************)

LEMMA LineStartBounds ==
  ASSUME NEW n \in Nat
  PROVE  LineStart(n) \in Nat /\ LineStart(n) <= n
  <1>1. n % CRT_COLS \in 0 .. CRT_COLS - 1
    BY CgaAssumption
  <1>2. n % CRT_COLS <= n
    BY CgaAssumption
  <1> QED
    BY <1>1, <1>2, CgaAssumption DEF LineStart

LEMMA ScreenRecord ==
  ASSUME NEW s \in Screens
  PROVE  /\ s = [buf |-> s.buf, pos |-> s.pos]
         /\ s.buf \in [Cells -> Glyphs]
         /\ s.pos \in Cells
  BY DEF Screens

LEMMA ScrollType ==
  ASSUME NEW b \in [Cells -> Glyphs], NEW n \in Nat, n < CRT_SIZE + CRT_COLS
  PROVE  Scroll([buf |-> b, pos |-> n]) \in Screens
  <1>1. Shifted(b) \in [Cells -> Glyphs]
    BY CgaAssumption DEF Shifted, Cells
  <1>2. CASE n < CRT_SIZE
    <2>1. n \in Cells
      BY <1>2, CgaAssumption DEF Cells
    <2> QED
      BY <1>2, <2>1 DEF Scroll, Screens
  <1>3. CASE ~(n < CRT_SIZE)
    <2>1. n - CRT_COLS \in Cells
      BY <1>3, CgaAssumption DEF Cells
    <2> QED
      BY <1>1, <1>3, <2>1 DEF Scroll, Screens
  <1> QED
    BY <1>2, <1>3

(* Writing a glyph puts it before the cursor and moves nothing relative to *)
(* the cursor; a scroll happens only from the last cell.                   *)
LEMMA PutGlyph ==
  ASSUME NEW s \in Screens, NEW c \in Glyphs,
         NEW t, t = cga_putc(s, c)
  PROVE  /\ t \in Screens
         /\ t.pos = s.pos + 1 \/ t.pos = CRT_SIZE - CRT_COLS
         /\ t.pos > 0 => t.buf[t.pos - 1] = c
         /\ \A k \in 1 .. t.pos - 1 : t.buf[t.pos - 1 - k] = s.buf[s.pos - k]
  <1> DEFINE b == [s.buf EXCEPT ![s.pos] = c]
  <1>1. c \notin {BS, NL, CR}
    BY CgaAssumption DEF Controls
  <1>2. Write(s, c) = [buf |-> b, pos |-> s.pos + 1]
    BY <1>1 DEF Write
  <1>3. b \in [Cells -> Glyphs] /\ s.pos \in Cells
    BY ScreenRecord
  <1>4. t = Scroll([buf |-> b, pos |-> s.pos + 1])
    BY <1>2 DEF cga_putc
  <1>5. t \in Screens
    BY <1>3, <1>4, ScrollType, CgaAssumption DEF Cells
  <1>6. b[s.pos] = c /\ \A k \in Cells : k # s.pos => b[k] = s.buf[k]
    BY ScreenRecord
  <1> HIDE DEF b
  <1>7. CASE s.pos + 1 < CRT_SIZE
    <2>1. t.buf = b /\ t.pos = s.pos + 1
      BY <1>4, <1>7 DEF Scroll
    <2> QED
      BY <1>3, <1>5, <1>6, <2>1, CgaAssumption DEF Cells
  <1>8. CASE s.pos + 1 = CRT_SIZE
    <2>1. t.buf = Shifted(b) /\ t.pos = CRT_SIZE - CRT_COLS
      BY <1>3, <1>4, <1>8, CgaAssumption DEF Scroll, Cells
    <2>2. \A k \in Cells : k < CRT_SIZE - CRT_COLS => t.buf[k] = b[k + CRT_COLS]
      BY <2>1 DEF Shifted
    <2> DEFINE top == CRT_SIZE - CRT_COLS
    <2>3. top \in Nat /\ CRT_COLS \in Nat /\ top + CRT_COLS = CRT_SIZE
      BY CgaAssumption
    <2>4. s.pos = top + CRT_COLS - 1
      BY <1>3, <1>8, <2>3 DEF Cells
    <2>5. \A k \in 0 .. top - 1 :
            /\ t.buf[k] = b[k + CRT_COLS]
            /\ k + CRT_COLS \in Cells
      <3> TAKE k \in 0 .. top - 1
      <3>1. k \in Cells /\ k + CRT_COLS \in Cells /\ k < CRT_SIZE - CRT_COLS
        BY <2>3 DEF Cells
      <3> QED
        BY <2>2, <3>1
    <2> HIDE DEF top
    <2>6. t.pos = top
      BY <2>1 DEF top
    <2>7. t.pos > 0 => t.buf[t.pos - 1] = c
      <3> SUFFICES ASSUME top > 0 PROVE t.buf[top - 1] = c
        BY <2>6
      <3>1. top - 1 \in 0 .. top - 1 /\ top - 1 + CRT_COLS = s.pos
        BY <2>3, <2>4
      <3> QED
        BY <1>6, <2>5, <3>1
    <2>8. \A k \in 1 .. t.pos - 1 : t.buf[t.pos - 1 - k] = s.buf[s.pos - k]
      <3> SUFFICES ASSUME NEW k \in 1 .. top - 1
                   PROVE  t.buf[top - 1 - k] = s.buf[s.pos - k]
        BY <2>6
      <3>1. /\ top - 1 - k \in 0 .. top - 1
            /\ top - 1 - k + CRT_COLS = s.pos - k
            /\ s.pos - k # s.pos
        BY <2>3, <2>4
      <3> QED
        BY <1>6, <2>5, <3>1
    <2> QED
      BY <1>5, <2>1, <2>7, <2>8
  <1> QED
    BY <1>3, <1>5, <1>7, <1>8, CgaAssumption DEF Cells

LEMMA PutBackspace ==
  ASSUME NEW s \in Screens, s.pos > 0,
         NEW t, t = cga_putc(s, BS)
  PROVE  /\ t \in Screens
         /\ t.pos = s.pos - 1
         /\ \A k \in 0 .. t.pos - 1 : t.buf[k] = s.buf[k]
  <1> DEFINE b == [s.buf EXCEPT ![s.pos - 1] = Blank]
  <1>1. Write(s, BS) = [buf |-> b, pos |-> s.pos - 1]
    <2>1. ~(s.pos = 0) /\ BS # NL /\ BS # CR
      BY ControlsDiffer
    <2> QED
      BY <2>1 DEF Write
  <1>2. s.pos \in Cells /\ s.pos - 1 \in Cells /\ s.pos - 1 < CRT_SIZE
    BY ScreenRecord, CgaAssumption DEF Cells
  <1>3. t = [buf |-> b, pos |-> s.pos - 1]
    BY <1>1, <1>2 DEF cga_putc, Scroll
  <1>4. b \in [Cells -> Glyphs]
    BY ScreenRecord, CgaAssumption
  <1>5. t \in Screens
    BY <1>2, <1>3, <1>4 DEF Screens
  <1>6. \A k \in Cells : k # s.pos - 1 => b[k] = s.buf[k]
    BY ScreenRecord
  <1> QED
    BY <1>2, <1>3, <1>5, <1>6, CgaAssumption DEF Cells

LEMMA PutNewline ==
  ASSUME NEW s \in Screens
  PROVE  cga_putc(s, NL) \in Screens
  <1> DEFINE n == LineStart(s.pos + CRT_COLS)
  <1>1. s.buf \in [Cells -> Glyphs] /\ s.pos \in Cells
    BY ScreenRecord
  <1>2. s.pos + CRT_COLS \in Nat /\ s.pos < CRT_SIZE
    BY <1>1, CgaAssumption DEF Cells
  <1>3. n \in Nat /\ n <= s.pos + CRT_COLS
    BY <1>2, LineStartBounds
  <1>4. n < CRT_SIZE + CRT_COLS
    BY <1>1, <1>2, <1>3, CgaAssumption DEF Cells
  <1>5. Write(s, NL) = [buf |-> s.buf, pos |-> n]
    BY ControlsDiffer, ScreenRecord DEF Write
  <1> QED
    BY <1>1, <1>3, <1>4, <1>5, ScrollType DEF cga_putc

-----------------------------------------------------------------------------
(***************************************************************************)
(* The line editor.                                                        *)
(***************************************************************************)

(* EchoMatches is inductive only with PromptIntact, which keeps the line   *)
(* clear of the top of the screen, where a backspace would be swallowed.   *)
IInv == TypeOK /\ PromptIntact /\ EchoMatches

-----------------------------------------------------------------------------
(* The invariant.                                                          *)

LEMMA Sizes ==
  /\ Len(Prompt) \in Nat
  /\ CRT_SIZE \in Nat /\ CRT_COLS \in Nat
  /\ BUFLEN \in Nat \ {0}
  /\ Cells = 0 .. CRT_SIZE - 1
  /\ Slots = 0 .. BUFLEN - 1
  /\ Len(Prompt) + BUFLEN - 1 <= CRT_SIZE - CRT_COLS
  BY CgaAssumption, ReadlineAssumption, LineFitsScreen, LenProperties
  DEF Cells, Slots

LEMMA InitInv == Init => IInv
  <1> SUFFICES ASSUME Init PROVE IInv
    OBVIOUS
  <1>1. TypeOK
    BY Sizes, ReadlineAssumption DEF Init, TypeOK
  <1> QED
    BY <1>1 DEF Init, IInv, PromptIntact, EchoMatches

(* While the monitor runs there is nothing to say but the types.           *)
LEMMA MonitorStep ==
  ASSUME IInv, MonitorPrints \/ runcmd_cuts \/ readline
  PROVE  IInv'
  <1>1. TypeOK'
    <2>1. CASE MonitorPrints
      <3>1. PICK c \in Glyphs \cup {NL} : screen' = cga_putc(screen, c)
        BY <2>1 DEF MonitorPrints, cputchar
      <3>2. screen \in Screens
        BY DEF IInv, TypeOK
      <3>3. screen' \in Screens
        BY <3>1, <3>2, PutGlyph, PutNewline
      <3> QED
        BY <2>1, <3>3 DEF MonitorPrints, IInv, TypeOK
    <2>2. CASE runcmd_cuts
      BY <2>2 DEF runcmd_cuts, IInv, TypeOK
    <2>3. CASE readline
      BY <2>3, Sizes DEF readline, IInv, TypeOK
    <2> QED
      BY <2>1, <2>2, <2>3
  <1>2. pc' # "reading" /\ (pc' = "monitor" \/ (shown' = 0 /\ screen' = screen))
    BY DEF MonitorPrints, runcmd_cuts, readline
  <1>3. screen'.pos >= 0
    BY <1>1, Sizes, ScreenRecord DEF TypeOK
  <1> QED
    BY <1>1, <1>2, <1>3 DEF IInv, PromptIntact, EchoMatches

LEMMA PromptStep ==
  ASSUME IInv, PrintPrompt
  PROVE  IInv'
  <1> DEFINE c == Prompt[shown + 1]
             s == screen
             t == screen'
  <1>1. /\ shown \in Nat /\ shown < Len(Prompt) /\ shown' = shown + 1
        /\ pc = "prompt" /\ pc' = "prompt" /\ UNCHANGED <<i, buf>>
    BY Sizes DEF PrintPrompt, IInv, TypeOK
  <1>2. c \in Glyphs
    BY <1>1, Sizes, ReadlineAssumption, ElementOfSeq
  <1>3. s \in Screens /\ t = cga_putc(s, c)
    BY DEF PrintPrompt, cputchar, IInv, TypeOK
  <1>4. /\ s.pos >= shown
        /\ \A k \in 1 .. shown : s.buf[s.pos - shown + k - 1] = Prompt[k]
    <2>1. s.pos \in Nat
      BY <1>3, Sizes, ScreenRecord
    <2> QED
      BY <1>1, <2>1 DEF IInv, PromptIntact
  <1>5. /\ t \in Screens
        /\ t.pos = s.pos + 1 \/ t.pos = CRT_SIZE - CRT_COLS
        /\ t.pos > 0 => t.buf[t.pos - 1] = c
        /\ \A k \in 1 .. t.pos - 1 : t.buf[t.pos - 1 - k] = s.buf[s.pos - k]
    BY <1>2, <1>3, PutGlyph
  <1>6. s.pos \in Nat /\ t.pos \in Nat
    BY <1>3, <1>5, Sizes, ScreenRecord
  <1> HIDE DEF c, s, t
  <1>7. t.pos >= shown + 1
    BY <1>1, <1>4, <1>5, <1>6, Sizes
  <1>8. ASSUME NEW k \in 1 .. shown + 1
        PROVE  t.buf[t.pos - (shown + 1) + k - 1] = Prompt[k]
    <2>1. CASE k = shown + 1
      <3>1. t.pos - (shown + 1) + k - 1 = t.pos - 1
        BY <1>1, <1>6, <2>1
      <3> QED
        BY <1>1, <1>5, <1>6, <1>7, <2>1, <3>1 DEF c
    <2>2. CASE k \in 1 .. shown
      <3>1. /\ shown + 1 - k \in 1 .. t.pos - 1
            /\ t.pos - (shown + 1) + k - 1 = t.pos - 1 - (shown + 1 - k)
            /\ s.pos - shown + k - 1 = s.pos - (shown + 1 - k)
        BY <1>1, <1>6, <1>7, <2>2
      <3> QED
        BY <1>4, <1>5, <2>2, <3>1
    <2> QED
      BY <1>1, <2>1, <2>2
  <1>9. TypeOK'
    BY <1>1, <1>5, Sizes DEF IInv, TypeOK, t
  <1>10. PromptIntact' /\ EchoMatches'
    BY <1>1, <1>6, <1>7, <1>8 DEF PromptIntact, EchoMatches, t
  <1> QED
    BY <1>9, <1>10 DEF IInv

(* The facts of IInv that the editing steps use, counted from the cursor.  *)
LEMMA Reading ==
  ASSUME IInv, pc = "reading"
  PROVE  /\ screen \in Screens /\ screen.pos \in Nat
         /\ i \in 0 .. BUFLEN - 1 /\ shown = Len(Prompt)
         /\ screen.pos >= i + Len(Prompt)
         /\ \A k \in 0 .. i - 1 : screen.buf[screen.pos - i + k] = buf[k]
         /\ \A k \in 1 .. Len(Prompt) :
              screen.buf[screen.pos - i - Len(Prompt) + k - 1] = Prompt[k]
         /\ buf \in [Slots -> Glyphs \cup {NUL}]
  <1>1. screen \in Screens /\ i \in 0 .. BUFLEN - 1
    BY Sizes DEF IInv, TypeOK
  <1>2. screen.pos \in Nat
    BY <1>1, Sizes, ScreenRecord
  <1>3. shown = Len(Prompt) /\ screen.pos - shown - i >= 0
    BY DEF IInv, PromptIntact, Start
  <1>4. \A k \in 1 .. shown : screen.buf[screen.pos - i - shown + k - 1] = Prompt[k]
    BY DEF IInv, PromptIntact
  <1> QED
    BY <1>1, <1>2, <1>3, <1>4, Sizes DEF IInv, EchoMatches, TypeOK

(* The converse, to re-establish the invariant after a step.               *)
LEMMA StillReading ==
  ASSUME TypeOK', pc' = "reading", shown' = Len(Prompt),
         screen'.pos >= i' + Len(Prompt),
         \A k \in 0 .. i' - 1 : screen'.buf[screen'.pos - i' + k] = buf'[k],
         \A k \in 1 .. Len(Prompt) :
              screen'.buf[screen'.pos - i' - Len(Prompt) + k - 1] = Prompt[k]
  PROVE  IInv'
  <1>1. screen'.pos \in Nat /\ i' \in Nat
    BY Sizes, ScreenRecord DEF TypeOK
  <1>2. Start' >= 0
    BY <1>1, Sizes DEF Start
  <1> QED
    BY <1>2 DEF IInv, PromptIntact, EchoMatches

LEMMA StartLineStep ==
  ASSUME IInv, StartLine
  PROVE  IInv'
  <1>1. /\ pc = "prompt" /\ pc' = "reading" /\ i' = 0
        /\ shown = Len(Prompt) /\ UNCHANGED <<screen, shown, buf>>
    BY DEF StartLine
  <1>2. TypeOK'
    BY <1>1, Sizes DEF IInv, TypeOK
  <1>3. screen.pos \in Nat
    BY Sizes, ScreenRecord DEF IInv, TypeOK
  <1>4. /\ screen.pos >= Len(Prompt)
        /\ \A k \in 1 .. Len(Prompt) :
             screen.buf[screen.pos - 0 - Len(Prompt) + k - 1] = Prompt[k]
    BY <1>1 DEF IInv, PromptIntact
  <1> QED
    BY <1>1, <1>2, <1>3, <1>4, Sizes, StillReading

LEMMA RuboutStep ==
  ASSUME IInv, NEW c, Rubout(c)
  PROVE  IInv'
  <1>1. /\ pc = "reading" /\ pc' = "reading" /\ i > 0 /\ i' = i - 1
        /\ UNCHANGED <<shown, buf>>
        /\ screen' = cga_putc(screen, BS)
    BY DEF Rubout, cputchar
  <1>2. /\ screen \in Screens /\ screen.pos \in Nat
        /\ i \in 0 .. BUFLEN - 1 /\ shown = Len(Prompt)
        /\ screen.pos >= i + Len(Prompt)
        /\ \A k \in 0 .. i - 1 : screen.buf[screen.pos - i + k] = buf[k]
        /\ \A k \in 1 .. Len(Prompt) :
             screen.buf[screen.pos - i - Len(Prompt) + k - 1] = Prompt[k]
    BY <1>1, Reading
  <1>3. screen.pos > 0
    BY <1>1, <1>2, Sizes
  <1>4. /\ screen' \in Screens
        /\ screen'.pos = screen.pos - 1
        /\ \A k \in 0 .. screen'.pos - 1 : screen'.buf[k] = screen.buf[k]
    BY <1>1, <1>2, <1>3, PutBackspace
  <1>n. Len(Prompt) \in Nat /\ i \in Nat /\ screen.pos \in Nat
    BY <1>2, Sizes
  <1>p. /\ screen'.pos = screen.pos - 1 /\ i' = i - 1 /\ i > 0
        /\ screen.pos >= i + Len(Prompt)
    BY <1>1, <1>2, <1>4
  <1>5. TypeOK'
    BY <1>1, <1>2, <1>4, Sizes DEF IInv, TypeOK
  <1>6. screen'.pos >= i' + Len(Prompt)
    BY <1>1, <1>2, <1>4, Sizes
  <1>7. ASSUME NEW k \in 0 .. i' - 1
        PROVE  screen'.buf[screen'.pos - i' + k] = buf'[k]
    <2>1. /\ screen'.pos - i' + k = screen.pos - i + k
          /\ screen.pos - i + k \in 0 .. screen'.pos - 1
          /\ k \in 0 .. i - 1
      BY <1>n, <1>p
    <2> QED
      BY <1>1, <1>2, <1>4, <2>1
  <1>8. ASSUME NEW k \in 1 .. Len(Prompt)
        PROVE  screen'.buf[screen'.pos - i' - Len(Prompt) + k - 1] = Prompt[k]
    <2>1. /\ screen'.pos - i' - Len(Prompt) + k - 1
               = screen.pos - i - Len(Prompt) + k - 1
          /\ screen.pos - i - Len(Prompt) + k - 1 \in 0 .. screen'.pos - 1
      BY <1>n, <1>p
    <2> QED
      BY <1>2, <1>4, <2>1
  <1> QED
    BY <1>1, <1>2, <1>5, <1>6, <1>7, <1>8, StillReading

LEMMA InsertStep ==
  ASSUME IInv, NEW c, Insert(c)
  PROVE  IInv'
  <1>1. /\ pc = "reading" /\ pc' = "reading" /\ i < BUFLEN - 1 /\ i' = i + 1
        /\ UNCHANGED shown /\ buf' = [buf EXCEPT ![i] = c]
        /\ screen' = cga_putc(screen, c) /\ c \in Glyphs
    BY DEF Insert, cputchar
  <1>2. /\ screen \in Screens /\ screen.pos \in Nat
        /\ i \in 0 .. BUFLEN - 1 /\ shown = Len(Prompt)
        /\ screen.pos >= i + Len(Prompt)
        /\ \A k \in 0 .. i - 1 : screen.buf[screen.pos - i + k] = buf[k]
        /\ \A k \in 1 .. Len(Prompt) :
             screen.buf[screen.pos - i - Len(Prompt) + k - 1] = Prompt[k]
        /\ buf \in [Slots -> Glyphs \cup {NUL}]
    BY <1>1, Reading
  <1>3. /\ screen' \in Screens
        /\ screen'.pos = screen.pos + 1 \/ screen'.pos = CRT_SIZE - CRT_COLS
        /\ screen'.pos > 0 => screen'.buf[screen'.pos - 1] = c
        /\ \A k \in 1 .. screen'.pos - 1 :
             screen'.buf[screen'.pos - 1 - k] = screen.buf[screen.pos - k]
    BY <1>1, <1>2, PutGlyph
  <1>4. screen'.pos \in Nat
    BY <1>3, Sizes, ScreenRecord
  <1>5. TypeOK'
    <2>1. i' \in Slots /\ i \in Slots
      BY <1>1, <1>2, Sizes
    <2>2. buf' \in [Slots -> Glyphs \cup {NUL}]
      BY <1>1, <1>2
    <2> QED
      BY <1>1, <1>3, <2>1, <2>2 DEF IInv, TypeOK
  <1>6. screen'.pos >= i' + Len(Prompt)
    BY <1>1, <1>2, <1>3, <1>4, Sizes
  <1>7. /\ i \in Nat /\ i' = i + 1 /\ Len(Prompt) \in Nat
        /\ screen.pos \in Nat /\ screen'.pos \in Nat
        /\ screen'.pos >= i + 1 + Len(Prompt)
    BY <1>1, <1>2, <1>4, <1>6, Sizes
  <1>8. ASSUME NEW k \in 0 .. i' - 1
        PROVE  screen'.buf[screen'.pos - i' + k] = buf'[k]
    <2>1. CASE k = i
      <3>1. screen'.pos - i' + k = screen'.pos - 1 /\ screen'.pos > 0
        BY <1>7, <2>1
      <3>2. buf'[i] = c
        BY <1>1, <1>2, Sizes
      <3> QED
        BY <1>3, <2>1, <3>1, <3>2
    <2>2. CASE k # i
      <3>1. k \in 0 .. i - 1
        BY <1>1, <1>2, <2>2
      <3> DEFINE d == i - k
      <3>2. k \in Int /\ d \in Int /\ d >= 1 /\ d <= i
        BY <1>7, <3>1
      <3>3. screen.pos - i + k = screen.pos - d
        BY <1>7, <3>2
      <3>4. screen'.pos - i' + k = screen'.pos - 1 - d
        BY <1>7, <3>2
      <3> HIDE DEF d
      <3>5. d \in 1 .. screen'.pos - 1
        BY <1>7, <3>2
      <3>6. buf'[k] = buf[k]
        BY <1>1, <1>2, <2>2, <3>1, Sizes
      <3> QED
        BY <1>2, <1>3, <3>1, <3>3, <3>4, <3>5, <3>6
    <2> QED
      BY <2>1, <2>2
  <1>9. ASSUME NEW k \in 1 .. Len(Prompt)
        PROVE  screen'.buf[screen'.pos - i' - Len(Prompt) + k - 1] = Prompt[k]
    <2> DEFINE d == i + Len(Prompt) - k + 1
    <2>1. k \in Int /\ d \in Int /\ d >= 1 /\ d <= i + Len(Prompt)
      BY <1>7
    <2>2. screen.pos - i - Len(Prompt) + k - 1 = screen.pos - d
      BY <1>7, <2>1
    <2>3. screen'.pos - i' - Len(Prompt) + k - 1 = screen'.pos - 1 - d
      BY <1>7, <2>1
    <2> HIDE DEF d
    <2>4. d \in 1 .. screen'.pos - 1
      BY <1>7, <2>1
    <2> QED
      BY <1>2, <1>3, <2>2, <2>3, <2>4
  <1> QED
    BY <1>1, <1>2, <1>5, <1>6, <1>8, <1>9, StillReading

LEMMA AcceptStep ==
  ASSUME IInv, NEW c, Accept(c)
  PROVE  IInv'
  <1>1. /\ pc' = "monitor" /\ UNCHANGED <<shown, i>>
        /\ buf' = [buf EXCEPT ![i] = NUL] /\ screen' = cga_putc(screen, NL)
    BY DEF Accept, cputchar
  <1>2. screen' \in Screens
    BY <1>1, PutNewline DEF IInv, TypeOK
  <1>3. TypeOK'
    BY <1>1, <1>2 DEF IInv, TypeOK
  <1> QED
    BY <1>1, <1>3 DEF IInv, PromptIntact, EchoMatches

LEMMA Stutter == IInv /\ UNCHANGED vars => IInv'
  BY DEF IInv, TypeOK, PromptIntact, EchoMatches, Start, vars

LEMMA StepInv == IInv /\ [Next]_vars => IInv'
  <1> SUFFICES ASSUME IInv, [Next]_vars PROVE IInv'
    OBVIOUS
  <1>1. ASSUME NEW c, Key(c) PROVE IInv'
    BY <1>1, RuboutStep, InsertStep, AcceptStep, Stutter DEF Key, Ignore
  <1> QED
    BY <1>1, MonitorStep, PromptStep, StartLineStep, Stutter DEF Next

(* The screen shows the prompt and the line buffer throughout the editing  *)
(* of a line, for every sequence of keys.                                  *)
THEOREM EchoCorrect == Spec => [](TypeOK /\ PromptIntact /\ EchoMatches)
  BY InitInv, StepInv, PTL DEF Spec, IInv

-----------------------------------------------------------------------------
(* The value of readline.                                                  *)

LEMMA AcceptReturnsShown ==
  ASSUME IInv, NEW c, Accept(c)
  PROVE  \E n \in Slots :
           /\ IsCString(buf', n)
           /\ n <= screen.pos - Len(Prompt)
           /\ \A k \in 0 .. n - 1 : buf'[k] = screen.buf[screen.pos - n + k]
           /\ \A k \in 1 .. Len(Prompt) :
                Prompt[k] = screen.buf[screen.pos - n - Len(Prompt) + k - 1]
  <1>1. pc = "reading" /\ buf' = [buf EXCEPT ![i] = NUL]
    BY DEF Accept
  <1>2. /\ screen \in Screens /\ screen.pos \in Nat
        /\ i \in 0 .. BUFLEN - 1
        /\ screen.pos >= i + Len(Prompt)
        /\ \A k \in 0 .. i - 1 : screen.buf[screen.pos - i + k] = buf[k]
        /\ \A k \in 1 .. Len(Prompt) :
             screen.buf[screen.pos - i - Len(Prompt) + k - 1] = Prompt[k]
        /\ buf \in [Slots -> Glyphs \cup {NUL}]
    BY <1>1, Reading
  <1>3. i \in Slots /\ i <= screen.pos - Len(Prompt)
    BY <1>2, Sizes
  <1>4. ASSUME NEW k \in 0 .. i - 1
        PROVE  buf'[k] = screen.buf[screen.pos - i + k] /\ buf'[k] # NUL
    <2>1. k \in Slots /\ k # i
      BY <1>2, Sizes
    <2>2. screen.pos - i + k \in Cells
      <3>1. screen.pos \in 0 .. CRT_SIZE - 1
        BY <1>2, Sizes, ScreenRecord
      <3>2. screen.pos - i >= 0
        BY <1>2, Sizes
      <3> QED
        BY <1>2, <3>1, <3>2, Sizes
    <2>3. screen.buf[screen.pos - i + k] \in Glyphs
      BY <1>2, <2>2, ScreenRecord
    <2> QED
      BY <1>1, <1>2, <2>1, <2>3, ReadlineAssumption
  <1>5. IsCString(buf', i)
    BY <1>1, <1>2, <1>3, <1>4 DEF IsCString
  <1> QED
    BY <1>2, <1>3, <1>4, <1>5

(* What readline hands to the monitor is the NUL-terminated text between   *)
(* the prompt and the cursor at the moment return is pressed.              *)
THEOREM ReturnCorrect == Spec => ReturnsWhatIsShown
  <1> DEFINE Shown(n) ==
        /\ IsCString(buf', n)
        /\ n <= screen.pos - Len(Prompt)
        /\ \A k \in 0 .. n - 1 : buf'[k] = screen.buf[screen.pos - n + k]
        /\ \A k \in 1 .. Len(Prompt) :
             Prompt[k] = screen.buf[screen.pos - n - Len(Prompt) + k - 1]
  <1>1. ASSUME IInv, [Next]_vars, pc = "reading", pc' = "monitor"
        PROVE  \E n \in Slots : Shown(n)
    <2>1. \E c : Accept(c)
      BY <1>1 DEF Next, MonitorPrints, runcmd_cuts, readline, PrintPrompt,
                  StartLine, Key, Rubout, Insert, Ignore, vars
    <2> QED
      BY <1>1, <2>1, AcceptReturnsShown
  <1>2. Spec => []IInv
    BY InitInv, StepInv, PTL DEF Spec
  <1> QED
    BY <1>1, <1>2, PTL DEF Spec, ReturnsWhatIsShown

-----------------------------------------------------------------------------
(***************************************************************************)
(* The monitor.                                                            *)
(***************************************************************************)

(* The unread part of the buffer is still the line, a NUL lies ahead.      *)
Unread ==
  /\ \A k \in p .. BUFLEN - 1 : buf[k] = line[k]
  /\ \E e \in p .. BUFLEN - 1 : line[e] = NUL

(* The part already read holds no NUL of the line; its letters are as      *)
(* typed and its blanks are now NUL.                                       *)
Cut ==
  \A k \in 0 .. p - 1 :
    /\ line[k] # NUL
    /\ line[k] \in Letters => buf[k] = line[k]
    /\ line[k] \notin Letters => buf[k] = NUL

(* The word that begins at slot s ends before slot e.                      *)
EndsAt(s, e) ==
  /\ s < e /\ line[e] \notin Letters
  /\ \A k \in s .. e - 1 : line[k] \in Letters

(* The words begun so far are those of argv, the last perhaps unfinished.  *)
Found ==
  /\ \A j \in 0 .. argc - 1 : argv[j] \in WordStarts(line)
  /\ \A j, k \in 0 .. argc - 1 : j < k => argv[j] < argv[k]
  /\ \A s \in WordStarts(line) : s < p => \E j \in 0 .. argc - 1 : argv[j] = s

Scanning ==
  /\ argc > 0
  /\ argv[argc - 1] <= p
  /\ argv[argc - 1] = p => line[p] \in Letters
  /\ \A k \in argv[argc - 1] .. p - 1 : line[k] \in Letters
  /\ \A j \in 0 .. argc - 2 : \E e \in 0 .. p - 1 : EndsAt(argv[j], e)

Between ==
  /\ \A j \in 0 .. argc - 1 : \E e \in 0 .. p : EndsAt(argv[j], e)
  /\ p > 0 /\ line[p] \in Letters => line[p - 1] \notin Letters

MInv ==
  /\ IInv
  /\ MonitorTypeOK
  /\ at \in {"gobble", "scan"} => Unread /\ Cut /\ Found
  /\ at = "scan" => Scanning
  /\ at = "gobble" => Between
  /\ ArgvIsWords

-----------------------------------------------------------------------------
(* The composition.                                                        *)

(* A step of the monitor is one of Readline's environment, or nothing.     *)
LEMMA StepRefines ==
  ASSUME MonitorTypeOK, [MonitorNext]_monitorVars
  PROVE  [Next]_vars
<1>1. CASE Editing
  BY <1>1 DEF Editing, Next, Key
<1>2. CASE GetLine
  BY <1>2 DEF GetLine, Next, Key
<1>3. CASE Gobble
  <2>1. pc = "monitor" /\ p \in Slots
    BY <1>3 DEF Gobble, MonitorTypeOK
  <2> QED BY <1>3, <2>1 DEF Gobble, Next, runcmd_cuts
<1>4. CASE EndOfLine \/ TooMany \/ SaveArg \/ Scan \/ ScanEnd \/ Lookup
  BY <1>4 DEF EndOfLine, TooMany, SaveArg, Scan, ScanEnd, Lookup, editor
<1>5. CASE Return \/ UNCHANGED monitorVars
  BY <1>5 DEF Return, monitorVars, editor
<1> QED
  BY <1>1, <1>2, <1>3, <1>4, <1>5 DEF MonitorNext, runcmd

-----------------------------------------------------------------------------
(* The invariant.                                                          *)

LEMMA InitMInv == MonitorInit => MInv
<1> USE ReadlineAssumption, MonitorAssumption
<1> SUFFICES ASSUME MonitorInit PROVE MInv
  OBVIOUS
<1>1. MonitorTypeOK
  BY DEF MonitorInit, Init, MonitorTypeOK, NoLine, NoArgs, Slots, Answers
<1>2. IInv
  BY InitInv DEF MonitorInit
<1> QED
  BY <1>1, <1>2 DEF MonitorInit, MInv, ArgvIsWords

(* A letter met between two words begins one, behind all of argv.          *)
LEMMA WordAhead ==
  ASSUME MInv, at = "gobble", line[p] \in Letters
  PROVE  /\ p \in WordStarts(line)
         /\ \A j \in 0 .. argc - 1 : argv[j] \in Slots /\ argv[j] < p
<1>1. p \in Slots /\ Unread /\ Cut /\ Found /\ Between
  BY DEF MInv, MonitorTypeOK
<1>2. InLine(line, p)
  BY <1>1, CgaAssumption, ReadlineAssumption DEF InLine, Cut, Slots, Letters
<1>3. p > 0 => line[p - 1] = Blank
  <2>1. p > 0 => p - 1 \in Slots /\ line[p - 1] # NUL
                   /\ line[p - 1] \notin Letters
    BY <1>1, ReadlineAssumption DEF Between, Cut, Slots
  <2> QED BY <2>1 DEF MInv, MonitorTypeOK, Letters
<1>4. p \in WordStarts(line)
  BY <1>1, <1>2, <1>3 DEF WordStarts
<1>5. \A j \in 0 .. argc - 1 : argv[j] \in Slots /\ argv[j] < p
  BY <1>1 DEF Between, EndsAt, Found, WordStarts, Slots
<1> QED BY <1>4, <1>5

(* Every step of the monitor keeps the scanning invariant.                 *)
LEMMA NextMInv == MInv /\ [MonitorNext]_monitorVars => MInv'
<1> USE MonitorAssumption
<1> SUFFICES ASSUME MInv, [MonitorNext]_monitorVars PROVE MInv'
  OBVIOUS
<1> USE DEF MInv
<1>0. IInv'
  BY StepRefines, StepInv
<1>t. /\ buf \in [Slots -> Letters \cup {Blank, NUL}] /\ i \in Slots
      /\ line \in [Slots -> Letters \cup {Blank, NUL}]
      /\ Blank \notin Letters /\ NUL \notin Letters /\ Blank # NUL
      /\ Glyphs \cup {NUL} = Letters \cup {Blank, NUL}
      /\ BUFLEN \in Nat \ {0}
  BY CgaAssumption, ReadlineAssumption DEF IInv, TypeOK, MonitorTypeOK, Letters
<1> USE <1>t DEF editor, vars
<1>a. CASE Editing
  <2>1. at = "readline" /\ at' = "readline" /\ UNCHANGED locals
    BY <1>a DEF Editing
  <2>2. MonitorTypeOK'
    BY <2>1 DEF MonitorTypeOK, locals
  <2> QED BY <1>0, <2>1, <2>2 DEF ArgvIsWords
<1>1. CASE GetLine
  <2>1. /\ i \in Slots /\ buf' = [buf EXCEPT ![i] = NUL] /\ pc' = "monitor"
        /\ line' = buf' /\ p' = 0 /\ argc' = 0
        /\ at' = "gobble" /\ UNCHANGED <<said, cmd>>
    BY <1>1 DEF GetLine, Accept
  <2>3. argv' \in [0 .. MAXARGS - 1 -> Slots \cup {Null, Wild}]
    <3>1. PICK stack \in Stacks : argv' = [stack EXCEPT ![0] = Null]
      BY <1>1 DEF GetLine
    <3>2. stack \in [0 .. MAXARGS - 1 -> Slots \cup {Null, Wild}]
      BY MonitorAssumption
    <3> QED BY <3>1, <3>2
  <2>2. line' \in [Slots -> Glyphs \cup {NUL}] /\ line'[i] = NUL
    BY <2>1
  <2>4. MonitorTypeOK'
    BY <2>1, <2>2, <2>3 DEF MonitorTypeOK, Slots
  <2>5. Unread'
    BY <2>1, <2>2 DEF Unread, Slots
  <2>6. Cut' /\ Between'
    BY <2>1 DEF Cut, Between
  <2>7. Found'
    <3>1. \A s \in WordStarts(line)' : s \in Nat
      BY DEF WordStarts, Slots
    <3>2. 0 .. argc' - 1 = {}
      BY <2>1
    <3>3. \A s \in WordStarts(line)' : ~(s < p')
      BY <2>1, <3>1
    <3> QED BY <3>2, <3>3 DEF Found
  <2> QED BY <1>0, <2>1, <2>4, <2>5, <2>6, <2>7 DEF ArgvIsWords
<1>2. CASE Gobble
  <2>1. /\ at = "gobble" /\ at' = "gobble" /\ p' = p + 1
        /\ buf' = [buf EXCEPT ![p] = NUL]
        /\ UNCHANGED <<screen, pc, shown, i, line, argv, argc, said, cmd>>
        /\ buf[p] = Blank /\ line[p] = Blank
    BY <1>2 DEF Gobble, Unread, MonitorTypeOK, Slots
  <2>2. p \in Slots /\ p + 1 \in Slots
    BY <2>1 DEF Unread, MonitorTypeOK, Slots
  <2>3. MonitorTypeOK'
    BY <2>1, <2>2 DEF MonitorTypeOK
  <2>4. Unread' /\ Cut'
    BY <2>1, <2>2 DEF MonitorTypeOK, Unread, Cut, Slots
  <2>5. Found'
    <3>1. p \notin WordStarts(line)
      BY <2>1 DEF WordStarts
    <3>2. \A s \in WordStarts(line) : s \in Nat
      BY DEF WordStarts, Slots
    <3>3. WordStarts(line)' = WordStarts(line)
      BY <2>1 DEF WordStarts, InLine
    <3>4. \A s \in WordStarts(line) : s < p + 1 => s < p
      BY <2>2, <3>1, <3>2 DEF Slots
    <3> QED BY <2>1, <3>3, <3>4 DEF Found
  <2>6. Between'
    <3>1. \A j \in 0 .. argc - 1 : \E e \in 0 .. p + 1 : EndsAt(argv[j], e)
      BY <2>1, <2>2 DEF Between, Slots
    <3>2. line[p' - 1] \notin Letters
      BY <2>1, <2>2 DEF Slots
    <3> QED BY <2>1, <3>1, <3>2 DEF Between, EndsAt
  <2> QED BY <1>0, <2>1, <2>3, <2>4, <2>5, <2>6 DEF ArgvIsWords
<1>3. CASE EndOfLine
  <2>1. /\ at = "gobble" /\ at' = "lookup" /\ buf[p] = NUL /\ line[p] = NUL
        /\ argv' = [argv EXCEPT ![argc] = Null]
        /\ UNCHANGED <<editor, line, p, argc, said, cmd>>
    BY <1>3 DEF EndOfLine, Unread, MonitorTypeOK, Slots
  <2>2. MonitorTypeOK'
    BY <2>1 DEF MonitorTypeOK
  <2>3. argv'[argc] = Null /\ \A j \in 0 .. argc - 1 : argv'[j] = argv[j]
    BY <2>1 DEF MonitorTypeOK
  <2>4. ASSUME NEW j \in 0 .. argc - 1
        PROVE  HoldsWord(argv[j])
    <3>1. PICK e \in 0 .. p : EndsAt(argv[j], e)
      BY <2>1 DEF Between
    <3>2. e \in Slots /\ argv[j] \in Slots /\ p \in Slots
      BY <2>1 DEF MonitorTypeOK, Slots, Found, WordStarts
    <3>3. buf[e] = NUL
      <4>1. CASE e = p
        BY <4>1, <2>1
      <4>2. CASE e # p
        BY <4>2, <3>1, <2>1, <3>2 DEF Cut, EndsAt, Slots
      <4> QED BY <4>1, <4>2
    <3>4. \A k \in argv[j] .. e - 1 : line[k] \in Letters /\ buf[k] = line[k]
      BY <3>1, <3>2, <2>1 DEF EndsAt, Cut, Slots
    <3> QED BY <3>1, <3>2, <3>3, <3>4 DEF HoldsWord, EndsAt, Slots
  <2>5. \A s \in WordStarts(line) : s < p
    BY <2>1 DEF WordStarts, InLine, MonitorTypeOK, Slots
  <2>6. ArgvIsWords'
    <3>1. \A j \in 0 .. argc - 1 : HoldsWord(argv[j])'
      BY <2>1, <2>3, <2>4 DEF HoldsWord
    <3>2. argc \in Nat
      BY DEF MonitorTypeOK
    <3>3. \A j, k \in 0 .. argc - 1 : j < k => argv'[j] < argv'[k]
      BY <2>1, <2>3, <3>2 DEF Found
    <3>4. WordStarts(line)' = WordStarts(line)
      BY <2>1 DEF WordStarts, InLine
    <3> QED BY <2>1, <2>3, <2>5, <3>1, <3>3, <3>4 DEF ArgvIsWords, Found
  <2> QED BY <1>0, <2>1, <2>2, <2>6
<1>4. CASE TooMany
  <2>1. MonitorTypeOK' /\ at' = "return"
    BY <1>4 DEF TooMany, MonitorTypeOK, Answers
  <2> QED BY <1>0, <2>1 DEF ArgvIsWords
<1>5. CASE SaveArg
  <2>1. /\ at = "gobble" /\ at' = "scan"
        /\ buf[p] \in Letters /\ line[p] \in Letters
        /\ argv' = [argv EXCEPT ![argc] = p] /\ argc' = argc + 1
        /\ UNCHANGED <<editor, line, p, said, cmd>>
        /\ p \in Slots /\ argc \in Nat
    BY <1>5 DEF SaveArg, Unread, MonitorTypeOK, Slots
  <2>2. argc' \in 0 .. MAXARGS - 1
    BY <1>5 DEF SaveArg, MonitorTypeOK
  <2>3. MonitorTypeOK'
    BY <2>1, <2>2 DEF MonitorTypeOK
  <2>4. argv'[argc] = p /\ \A j \in 0 .. argc - 1 : argv'[j] = argv[j]
    BY <2>1 DEF MonitorTypeOK
  <2>5. /\ p \in WordStarts(line)
        /\ \A j \in 0 .. argc - 1 : argv[j] \in Slots /\ argv[j] < p
    BY <2>1, WordAhead
  <2>7. Unread' /\ Cut'
    BY <2>1 DEF Unread, Cut
  <2>8. Found'
    <3>1. WordStarts(line)' = WordStarts(line)
      BY <2>1 DEF WordStarts, InLine
    <3>2. \A j \in 0 .. argc : argv'[j] \in WordStarts(line)
      BY <2>1, <2>4, <2>5 DEF Found
    <3>3. ASSUME NEW j \in 0 .. argc, NEW k \in 0 .. argc, j < k
          PROVE  argv'[j] < argv'[k]
      <4>1. argc \in Nat /\ j \in 0 .. argc - 1
        BY <3>3 DEF MonitorTypeOK
      <4>2. CASE k = argc
        BY <2>4, <2>5, <4>1, <4>2
      <4>3. CASE k \in 0 .. argc - 1
        BY <2>1, <2>4, <3>3, <4>1, <4>3 DEF Found
      <4> QED BY <4>1, <4>2, <4>3
    <3>4. \A s \in WordStarts(line) :
            s < p => \E j \in 0 .. argc : argv'[j] = s
      BY <2>1, <2>4 DEF Found
    <3> QED BY <2>1, <3>1, <3>2, <3>3, <3>4 DEF Found
  <2>9. Scanning'
    <3>1. ASSUME NEW j \in 0 .. argc - 1
          PROVE  \E e \in 0 .. p - 1 : EndsAt(argv'[j], e)
      <4>1. PICK e \in 0 .. p : EndsAt(argv[j], e)
        BY <2>1 DEF Between
      <4>2. e # p
        BY <2>1, <4>1 DEF EndsAt
      <4>3. e \in 0 .. p - 1
        BY <2>1, <4>1, <4>2 DEF Slots
      <4> QED BY <2>4, <4>1, <4>3
    <3> QED BY <2>1, <2>4, <3>1 DEF Scanning, EndsAt, Slots
  <2> QED BY <1>0, <2>1, <2>3, <2>7, <2>8, <2>9 DEF ArgvIsWords
<1>6. CASE Scan
  <2>1. /\ at = "scan" /\ at' = "scan" /\ p' = p + 1
        /\ UNCHANGED <<editor, line, argv, argc, said, cmd>>
        /\ buf[p] \in Letters /\ line[p] \in Letters
        /\ p \in Slots /\ argc \in Nat
    BY <1>6 DEF Scan, Unread, MonitorTypeOK, Slots
  <2>2. p + 1 \in Slots
    BY <2>1 DEF Unread, Slots
  <2>3. MonitorTypeOK'
    BY <2>1, <2>2 DEF MonitorTypeOK
  <2>4. Unread' /\ Cut'
    BY <2>1, <2>2 DEF Unread, Cut, Slots
  <2>5. Found'
    <3>1. p \in WordStarts(line) => argv[argc - 1] = p
      <4>1. SUFFICES ASSUME p \in WordStarts(line), argv[argc - 1] < p
                     PROVE  FALSE
        BY <2>1 DEF Scanning, Found, WordStarts, Slots
      <4>2. p - 1 \in argv[argc - 1] .. p - 1
        BY <2>1, <4>1 DEF Scanning, Found, WordStarts, Slots
      <4>3. line[p - 1] \in Letters
        BY <2>1, <4>2 DEF Scanning
      <4>4. p > 0
        BY <2>1, <4>1 DEF Scanning, Found, WordStarts, Slots
      <4> QED BY <4>1, <4>3, <4>4 DEF WordStarts
    <3>2. \A s \in WordStarts(line) : s \in Nat
      BY DEF WordStarts, Slots
    <3>3. WordStarts(line)' = WordStarts(line)
      BY <2>1 DEF WordStarts, InLine
    <3>4. argc - 1 \in 0 .. argc - 1
      BY <2>1 DEF Scanning
    <3>5. \A s \in WordStarts(line) :
            s < p + 1 => \E j \in 0 .. argc - 1 : argv[j] = s
      BY <2>1, <3>1, <3>2, <3>4 DEF Found, Slots
    <3> QED BY <2>1, <3>3, <3>5 DEF Found
  <2>6. Scanning'
    <3>1. argv[argc - 1] \in Nat /\ p \in Nat /\ argv[argc - 1] <= p
      BY <2>1 DEF Scanning, Found, WordStarts, Slots
    <3>2. /\ argv[argc - 1] <= p' /\ argv[argc - 1] # p'
      BY <2>1, <3>1
    <3>3. \A k \in argv[argc - 1] .. p' - 1 : line[k] \in Letters
      <4> SUFFICES ASSUME NEW k \in argv[argc - 1] .. p' - 1, k # p
                   PROVE  line[k] \in Letters
        BY <2>1
      <4>1. k \in argv[argc - 1] .. p - 1
        BY <2>1, <3>1
      <4> QED BY <2>1, <4>1 DEF Scanning
    <3>4. ASSUME NEW j \in 0 .. argc - 2
          PROVE  \E e \in 0 .. p' - 1 : EndsAt(argv[j], e)'
      <4>1. PICK e \in 0 .. p - 1 : EndsAt(argv[j], e)
        BY <2>1 DEF Scanning
      <4>2. e \in 0 .. p' - 1
        BY <2>1, <3>1
      <4> QED BY <2>1, <4>1, <4>2 DEF EndsAt
    <3> QED BY <2>1, <3>2, <3>3, <3>4 DEF Scanning, EndsAt
  <2> QED BY <1>0, <2>1, <2>3, <2>4, <2>5, <2>6 DEF ArgvIsWords
<1>7. CASE ScanEnd
  <2>1. /\ at = "scan" /\ at' = "gobble"
        /\ UNCHANGED <<editor, line, p, argv, argc, said, cmd>>
        /\ line[p] \notin Letters
        /\ p \in Slots /\ argc \in Nat
    BY <1>7 DEF ScanEnd, Unread, MonitorTypeOK, Slots
  <2>2. MonitorTypeOK' /\ Unread' /\ Cut'
    BY <2>1 DEF MonitorTypeOK, Unread, Cut
  <2>3. Found'
    BY <2>1 DEF Found, WordStarts, InLine
  <2>4. Between'
    <3>1. argv[argc - 1] \in Slots
      BY <2>1 DEF Scanning, Found, WordStarts
    <3>2. EndsAt(argv[argc - 1], p)
      BY <2>1, <3>1 DEF Scanning, EndsAt, Slots
    <3>3. \A j \in 0 .. argc - 1 : j = argc - 1 \/ j \in 0 .. argc - 2
      BY <2>1
    <3>4. \A j \in 0 .. argc - 1 : \E e \in 0 .. p : EndsAt(argv[j], e)
      <4>1. \A j \in 0 .. argc - 2 : \E e \in 0 .. p : EndsAt(argv[j], e)
        BY <2>1 DEF Scanning, Slots
      <4>2. p \in 0 .. p
        BY <2>1 DEF Slots
      <4> QED BY <3>2, <3>3, <4>1, <4>2
    <3> QED BY <2>1, <3>4 DEF Between, EndsAt
  <2> QED BY <1>0, <2>1, <2>2, <2>3, <2>4 DEF ArgvIsWords
<1>8. CASE Lookup
  <2>1. MonitorTypeOK' /\ at' = "return"
    BY <1>8 DEF Lookup, Invoke, MonitorTypeOK, Answers
  <2> QED BY <1>0, <2>1 DEF ArgvIsWords
<1>9. CASE Return
  <2>1. line' \in [Slots -> Glyphs \cup {NUL}]
    BY <1>9 DEF Return, NoLine
  <2>2. argv' \in [0 .. MAXARGS - 1 -> Slots \cup {Null, Wild}]
    BY <1>9 DEF Return, NoArgs
  <2>3. p' \in Slots /\ argc' \in 0 .. MAXARGS - 1
    BY <1>9 DEF Return, Slots
  <2>4. MonitorTypeOK' /\ at' = "readline"
    BY <1>9, <2>1, <2>2, <2>3 DEF Return, MonitorTypeOK, Answers
  <2> QED BY <1>0, <2>4 DEF ArgvIsWords
<1>10. CASE UNCHANGED monitorVars
  BY <1>0, <1>10 DEF monitorVars, editor, locals, vars, MonitorTypeOK, Unread, Cut, Found, Scanning, Between, EndsAt,
              ArgvIsWords, HoldsWord, WordStarts, InLine
<1> QED
  BY <1>a, <1>1, <1>2, <1>3, <1>4, <1>5, <1>6, <1>7, <1>8, <1>9, <1>10
  DEF MonitorNext, runcmd

(* The answer.                                                             *)

(* A word of argv is compared as it was typed.                             *)
LEMMA SameWord ==
  ASSUME MonitorTypeOK, NEW s \in Slots, HoldsWord(s),
         NEW w \in Seq(Letters)
  PROVE  strcmp_equal(buf, s, w) <=> WordIs(line, s, w)
<1>1. PICK e \in Slots :
        /\ e > s /\ line[e] \notin Letters /\ buf[e] = NUL
        /\ \A k \in s .. e - 1 : line[k] \in Letters /\ buf[k] = line[k]
  BY DEF HoldsWord
<1>2. NUL \notin Letters
  BY CgaAssumption, ReadlineAssumption DEF Letters
<1>3. Len(w) \in Nat /\ \A k \in 1 .. Len(w) : w[k] \in Letters
  OBVIOUS
<1>4. s \in Nat /\ e \in Nat /\ e < BUFLEN /\ BUFLEN \in Nat
  BY ReadlineAssumption DEF Slots
<1>5. ASSUME strcmp_equal(buf, s, w) \/ WordIs(line, s, w)
      PROVE  s + Len(w) = e
  <2>1. CASE s + Len(w) < e
    <3>1. s + Len(w) \in s .. e - 1
      BY <1>3, <1>4, <2>1
    <3>2. line[s + Len(w)] \in Letters /\ buf[s + Len(w)] # NUL
      BY <1>1, <1>2, <3>1
    <3> QED BY <1>5, <3>2 DEF strcmp_equal, WordIs
  <2>2. CASE e < s + Len(w)
    <3> DEFINE k == e - s + 1
    <3>1. k \in 1 .. Len(w) /\ s + k - 1 = e
      BY <1>1, <1>3, <1>4, <2>2
    <3>2. w[k] # NUL /\ w[k] \in Letters
      BY <1>2, <1>3, <3>1
    <3>3. w[k] = buf[e] \/ w[k] = line[e]
      BY <1>5, <3>1 DEF strcmp_equal, WordIs
    <3> QED BY <1>1, <3>2, <3>3
  <2> QED BY <1>3, <1>4, <2>1, <2>2
<1>6. ASSUME s + Len(w) = e
      PROVE  \A k \in 1 .. Len(w) : buf[s + k - 1] = line[s + k - 1]
  BY <1>1, <1>3, <1>4, <1>6
<1> QED
  BY <1>1, <1>4, <1>5, <1>6 DEF strcmp_equal, WordIs

LEMMA WordsFinite == IsFiniteSet(WordStarts(line))
<1>1. IsFiniteSet(0 .. BUFLEN - 1)
  BY ReadlineAssumption, FS_Interval
<1> QED
  BY <1>1, FS_Subset DEF WordStarts, Slots

(* At the lookup argc is the number of words, and argv[0] is the first.    *)
LEMMA LookupCounts ==
  ASSUME MonitorTypeOK, ArgvIsWords, at = "lookup"
  PROVE  /\ Cardinality(WordStarts(line)) < MAXARGS
         /\ argc = 0 => WordStarts(line) = {}
         /\ argc # 0 => /\ argv[0] \in WordStarts(line)
                        /\ HoldsWord(argv[0])
                        /\ \A t \in WordStarts(line) : argv[0] <= t
<1> DEFINE words == WordStarts(line)
           f == [j \in 0 .. argc - 1 |-> argv[j]]
<1>1. argc \in 0 .. MAXARGS - 1 /\ MAXARGS \in Nat
  BY MonitorAssumption DEF MonitorTypeOK
<1>2. /\ \A j \in 0 .. argc - 1 : argv[j] \in words
      /\ \A s \in words : \E j \in 0 .. argc - 1 : argv[j] = s
  BY DEF ArgvIsWords
<1>3. f \in Surjection(0 .. argc - 1, words)
  BY <1>2 DEF Surjection
<1>4. IsFiniteSet(0 .. argc - 1) /\ Cardinality(0 .. argc - 1) = argc
  BY <1>1, FS_Interval
<1>5. Cardinality(words) <= argc
  BY <1>3, <1>4, FS_Surjection
<1>6. Cardinality(words) < MAXARGS
  BY <1>1, <1>5, WordsFinite, FS_CardinalityType
<1>7. ASSUME argc # 0
      PROVE  /\ argv[0] \in words /\ HoldsWord(argv[0])
             /\ \A t \in words : argv[0] <= t
  <2>1. 0 \in 0 .. argc - 1
    BY <1>1, <1>7
  <2>2. \A j \in 0 .. argc - 1 : j = 0 \/ argv[0] < argv[j]
    BY <1>1, <2>1 DEF ArgvIsWords
  <2>3. \A t \in words : t \in Nat
    BY DEF WordStarts, Slots
  <2> QED BY <1>2, <2>1, <2>2, <2>3 DEF ArgvIsWords
<1> QED BY <1>1, <1>2, <1>6, <1>7

(* When there is no room for one more word in argv there are MAXARGS.      *)
LEMMA TooManyCounts ==
  ASSUME MInv, TooMany
  PROVE  Cardinality(WordStarts(line)) >= MAXARGS
<1> DEFINE words == WordStarts(line)
           f == [j \in 0 .. argc |-> IF j = argc THEN p ELSE argv[j]]
<1>0. at = "gobble" /\ buf[p] \in Letters /\ argc = MAXARGS - 1
  BY DEF TooMany
<1>t. MonitorTypeOK /\ Unread /\ Found
  BY <1>0 DEF MInv
<1>1. argc = MAXARGS - 1 /\ MAXARGS \in Nat \ {0} /\ p \in Nat
  BY <1>0, <1>t, MonitorAssumption DEF MonitorTypeOK, Slots
<1>2. line[p] \in Letters /\ Found
  BY <1>0, <1>t DEF Unread, MonitorTypeOK, Slots
<1>3. /\ p \in words
      /\ \A j \in 0 .. argc - 1 : argv[j] \in Slots /\ argv[j] < p
  BY <1>0, <1>2, WordAhead
<1>4. ASSUME NEW j \in 0 .. argc
      PROVE  f[j] \in words
  BY <1>1, <1>2, <1>3 DEF Found
<1>5. ASSUME NEW j \in 0 .. argc, NEW k \in 0 .. argc, j < k
      PROVE  f[j] # f[k]
  <2>1. j \in 0 .. argc - 1 /\ f[j] = argv[j] /\ argv[j] \in Nat
    BY <1>1, <1>3, <1>5 DEF Slots
  <2>2. CASE k = argc
    BY <1>1, <1>3, <2>1, <2>2
  <2>3. CASE k # argc
    <3>1. k \in 0 .. argc - 1 /\ f[k] = argv[k] /\ argv[k] \in Nat
      BY <1>1, <1>3, <2>3 DEF Slots
    <3> QED BY <1>2, <1>5, <2>1, <3>1 DEF Found
  <2> QED BY <2>2, <2>3
<1>6. \A j, k \in 0 .. argc : f[j] = f[k] => j = k
  BY <1>1, <1>5
<1>7. f \in [0 .. argc -> words]
  BY <1>4
<1> HIDE DEF f
<1>8. f \in Injection(0 .. argc, words)
  BY <1>6, <1>7 DEF Injection, IsInjective
<1>9. Cardinality(0 .. argc) = MAXARGS
  BY <1>1, FS_Interval
<1> QED
  BY <1>8, <1>9, WordsFinite, FS_Injection

LEMMA AnswerStep ==
  ASSUME MInv, AnswersLine, [MonitorNext]_monitorVars
  PROVE  AnswersLine'
<1>1. CASE TooMany
  <2>1. said' = "too many" /\ line' = line
    BY <1>1 DEF TooMany
  <2>2. Cardinality(WordStarts(line)') >= MAXARGS
    BY <1>1, <2>1, TooManyCounts DEF WordStarts, InLine
  <2> QED BY <2>1, <2>2 DEF AnswersLine
<1>2. CASE Lookup
  <2> DEFINE words == WordStarts(line)
  <2>1. MonitorTypeOK /\ ArgvIsWords /\ at = "lookup" /\ line' = line
    BY <1>2 DEF MInv, Lookup
  <2>2. /\ Cardinality(words) < MAXARGS
        /\ argc = 0 => words = {}
        /\ argc # 0 => /\ argv[0] \in words /\ HoldsWord(argv[0])
                       /\ \A t \in words : argv[0] <= t
    BY <2>1, LookupCounts
  <2>3. words' = words /\ words \subseteq Slots
    BY <2>1 DEF WordStarts, InLine
  <2>4. \A k \in DOMAIN commands : commands[k] \in Seq(Letters)
    BY MonitorAssumption
  <2>5. ASSUME argc # 0, NEW k \in DOMAIN commands
        PROVE  strcmp_equal(buf, argv[0], commands[k])
                 <=> WordIs(line, argv[0], commands[k])
    BY <2>1, <2>2, <2>3, <2>4, <2>5, SameWord
  <2>6. \A l, s, w : l = line => WordIs(l, s, w) = WordIs(line, s, w)
    OBVIOUS
  <2>7. CASE argc = 0 /\ said' = "nothing"
    BY <2>2, <2>3, <2>7 DEF AnswersLine
  <2>8. CASE argc # 0 /\ said' = "invoked" /\ cmd' \in DOMAIN commands
               /\ strcmp_equal(buf, argv[0], commands[cmd'])
    <3>1. WordIs(line, argv[0], commands[cmd'])
      BY <2>5, <2>8
    <3> QED BY <2>1, <2>2, <2>3, <2>8, <3>1 DEF AnswersLine, WordIs
  <2>9. CASE argc # 0 /\ said' = "unknown"
               /\ \A k \in DOMAIN commands :
                    ~strcmp_equal(buf, argv[0], commands[k])
    <3>1. \A k \in DOMAIN commands : ~WordIs(line, argv[0], commands[k])
      BY <2>5, <2>9
    <3>2. \A s \in words : (\A t \in words : s <= t) => s = argv[0]
      BY <2>2, <2>3, <2>9, ReadlineAssumption DEF Slots
    <3> QED BY <2>1, <2>2, <2>3, <2>9, <3>1, <3>2 DEF AnswersLine, WordIs
  <2> QED BY <1>2, <2>7, <2>8, <2>9 DEF Lookup, Invoke
<1>3. CASE UNCHANGED monitorVars
  BY <1>3 DEF monitorVars, locals, AnswersLine, WordStarts, InLine, WordIs
<1>4. CASE \/ Editing \/ GetLine \/ Return \/ Gobble \/ EndOfLine
           \/ SaveArg \/ Scan \/ ScanEnd
  <2>1. at' # "return"
    BY <1>4 DEF Editing, GetLine, Return, Gobble, EndOfLine, SaveArg, Scan,
                ScanEnd
  <2> QED BY <2>1 DEF AnswersLine
<1> QED
  BY <1>1, <1>2, <1>3, <1>4 DEF MonitorNext, runcmd

(* runcmd never reads or writes outside the line buffer or argv, and the   *)
(* command it calls gets the words of the line that was typed and a null   *)
(* pointer behind them, whatever runcmd's stack memory held.               *)
THEOREM ArgvCorrect == MonitorSpec => [](MonitorTypeOK /\ ArgvIsWords)
<1>1. MInv => MonitorTypeOK /\ ArgvIsWords
  BY DEF MInv
<1> QED
  BY InitMInv, NextMInv, <1>1, PTL DEF MonitorSpec

(* What the monitor answers depends on the words of the line alone, for    *)
(* any commands, limit of words and history of the buffer.                 *)
THEOREM AnswersCorrect == MonitorSpec => []AnswersLine
<1>1. MonitorInit => AnswersLine
  BY DEF MonitorInit, AnswersLine
<1>2. MInv /\ AnswersLine /\ [MonitorNext]_monitorVars => AnswersLine'
  BY AnswerStep
<1> QED
  BY InitMInv, NextMInv, <1>1, <1>2, PTL DEF MonitorSpec

(* The monitor does to the line editor what Readline's environment may do: *)
(* the composition is a behaviour of Readline.                             *)
THEOREM MonitorRefinesReadline == MonitorSpec => RefinesReadline
<1>1. MonitorInit => Init
  BY DEF MonitorInit
<1>2. MInv /\ [MonitorNext]_monitorVars => [Next]_vars
  BY StepRefines DEF MInv
<1> QED
  BY InitMInv, NextMInv, <1>1, <1>2, PTL DEF MonitorSpec, RefinesReadline, Spec

(* So the screen shows the prompt and the line also while runcmd cuts up   *)
(* the same buffer between two lines, and each line is what was shown.     *)
THEOREM MonitorShowsLine ==
  MonitorSpec => [](PromptIntact /\ EchoMatches) /\ ReturnsWhatIsShown
<1> QED
  BY MonitorRefinesReadline, EchoCorrect, ReturnCorrect, PTL DEF RefinesReadline
=============================================================================
