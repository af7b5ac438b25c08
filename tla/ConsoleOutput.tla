--------------------------- MODULE ConsoleOutput ---------------------------
(***************************************************************************)
(* The output half of kern/console.c: cputchar hands every character to    *)
(* the serial port, the parallel port and the screen, in this order.  Both *)
(* ports are polled, and after SpinLimit polls of a busy port the byte is  *)
(* written all the same.  A tab reaches the screen as five nested calls of *)
(* cons_putc, so the ports see the tab and then five spaces.               *)
(*                                                                         *)
(* above, printed, issued, wire and late are history variables.            *)
(***************************************************************************)
EXTENDS Cga, Sequences

CONSTANTS
  SpinLimit,  \* 12800 polls in the code
  MaxChars,   \* bound on the characters the kernel prints
  Empty,      \* the transmit holding register is empty (COM_LSR_TXRDY)
  Absent,     \* no UART: the line status reads 0xFF, which looks ready
  Uarts       \* the states the UART may be found in

Chars == Glyphs \cup Controls \cup {TAB}

ASSUME OutputAssumption ==
  /\ SpinLimit \in Nat
  /\ MaxChars \in Nat
  /\ Empty \notin Chars /\ Absent \notin Chars \cup {Empty}
  /\ Uarts \subseteq {Empty, Absent}

VARIABLES
  screen,     \* crt_buf and crt_pos
  thr,        \* the UART's transmit holding register
  lpt_ready,  \* bit 7 of the printer's status
  pc,         \* where cons_putc is
  c,          \* its argument
  spins,      \* i of the polling loop
  spaces,     \* calls of cons_putc(' ') that a tab still owes
  above,      \* the cells that scrolled off the screen
  printed,    \* how many characters were passed to cputchar
  issued,     \* those characters, as they belong on the serial line
  wire,       \* what the UART has put on the line
  late        \* a polling loop of the serial port has given up

history == <<above, printed, issued, wire, late>>
vars == <<screen, thr, lpt_ready, pc, c, spins, spaces, history>>

Locations == {"idle", "serial", "lpt", "cga", "cga_tab"}

(* The cursor is on the screen after every character.                      *)
TypeOK ==
  /\ screen \in Screens
  /\ thr \in Chars \cup {Empty, Absent}
  /\ lpt_ready \in BOOLEAN
  /\ pc \in Locations
  /\ c \in Chars
  /\ spins \in 0 .. SpinLimit
  /\ spaces \in 0 .. 5
  /\ above \in Seq(Glyphs)
  /\ printed \in 0 .. MaxChars
  /\ issued \in Seq(Chars) /\ wire \in Seq(Chars)
  /\ late \in BOOLEAN

(* cga_init finds the BIOS's text and cursor where they are.               *)
Init ==
  /\ screen \in Screens
  /\ thr \in Uarts
  /\ lpt_ready \in BOOLEAN
  /\ pc = "idle"
  /\ c = Blank
  /\ spins = 0
  /\ spaces = 0
  /\ above = <<>> /\ printed = 0 /\ issued = <<>> /\ wire = <<>>
  /\ late = FALSE

-----------------------------------------------------------------------------
(* The devices.                                                            *)

UartSends ==
  /\ thr \in Chars
  /\ wire' = Append(wire, thr)
  /\ thr' = Empty
  /\ UNCHANGED <<screen, lpt_ready, pc, c, spins, spaces, above, printed, issued,
                 late>>

PrinterTurns ==
  /\ lpt_ready' = ~lpt_ready
  /\ UNCHANGED <<screen, thr, pc, c, spins, spaces, history>>

-----------------------------------------------------------------------------
(* The processor.                                                          *)

(* What belongs on the serial line for a character.                        *)
OnLine(ch) == IF ch = TAB THEN <<TAB, Blank, Blank, Blank, Blank, Blank>>
              ELSE <<ch>>

cputchar(ch) ==
  /\ pc = "idle"
  /\ printed < MaxChars
  /\ printed' = printed + 1
  /\ issued' = issued \o OnLine(ch)
  /\ c' = ch
  /\ pc' = "serial"
  /\ UNCHANGED <<screen, thr, lpt_ready, spins, spaces, above, wire, late>>

(* One poll of a busy port.                                                *)
Spin_forever(busy) ==
  /\ busy
  /\ UNCHANGED vars

Spin(busy) ==
  /\ busy /\ spins < SpinLimit
  /\ spins' = spins + 1
  /\ UNCHANGED <<screen, thr, lpt_ready, pc, c, spaces, history>>

serial_wait == pc = "serial" /\ Spin(thr \in Chars)

serial_out_unpolled ==
  /\ pc = "serial"
  /\ thr' = IF thr = Absent THEN Absent ELSE c
  /\ spins' = 0
  /\ pc' = "lpt"
  /\ UNCHANGED <<screen, lpt_ready, c, spaces, above, printed, issued, wire, late>>

serial_out ==
  /\ pc = "serial"
  /\ thr \in Chars => spins = SpinLimit
  /\ thr' = IF thr = Absent THEN Absent ELSE c
  /\ late' = (late \/ thr \in Chars)
  /\ spins' = 0
  /\ pc' = "lpt"
  /\ UNCHANGED <<screen, lpt_ready, c, spaces, above, printed, issued, wire>>

lpt_wait == pc = "lpt" /\ Spin(~lpt_ready)

lpt_out ==
  /\ pc = "lpt"
  /\ lpt_ready \/ spins = SpinLimit
  /\ spins' = 0
  /\ pc' = "cga"
  /\ UNCHANGED <<screen, thr, lpt_ready, c, spaces, history>>

Row(s, n) == [i \in 1 .. n |-> s.buf[i - 1]]

(* The screen after Write, remembering the row that Scroll pushes out.     *)
Show(s) ==
  /\ screen' = Scroll(s)
  /\ above' = IF s.pos < CRT_SIZE THEN above ELSE above \o Row(s, CRT_COLS)

cga_char ==
  /\ pc = "cga" /\ c # TAB
  /\ Show(Write(screen, c))
  /\ spaces' = IF spaces = 0 THEN 0 ELSE spaces - 1
  /\ pc' = CASE spaces = 0 -> "idle"
             [] spaces = 1 -> "cga_tab"
             [] OTHER      -> "serial"
  /\ UNCHANGED <<thr, lpt_ready, c, spins, printed, issued, wire, late>>

cga_tab ==
  /\ pc = "cga" /\ c = TAB
  /\ c' = Blank
  /\ spaces' = 5
  /\ pc' = "serial"
  /\ UNCHANGED <<screen, thr, lpt_ready, spins, history>>

(* The rest of cga_putc('\t'), after the five nested calls.                *)
cga_tab_rest ==
  /\ pc = "cga_tab"
  /\ Show(screen)
  /\ pc' = "idle"
  /\ UNCHANGED <<thr, lpt_ready, c, spins, spaces, printed, issued, wire, late>>

Processor ==
  \/ \E ch \in Chars : cputchar(ch)
  \/ serial_wait \/ serial_out
  \/ lpt_wait \/ lpt_out
  \/ cga_char \/ cga_tab \/ cga_tab_rest

Next == Processor \/ UartSends \/ PrinterTurns

Spec == Init /\ [][Next]_vars

(* The kernel prints without ever waiting for anything but its own loops.  *)
FairSpec == Spec /\ WF_vars(Processor)

-----------------------------------------------------------------------------
(* Properties.                                                             *)

(* The rows scrolled away followed by the screen are the paper of a        *)
(* terminal: the scroll of cga_putc loses no row and rewrites none, and a  *)
(* backspace reaches back over line ends but not over scrolled rows.       *)
Paper == INSTANCE Terminal
           WITH Cols <- CRT_COLS, paper <- above \o Row(screen, CRT_SIZE),
                cur <- Len(above) + screen.pos
ImplementsTerminal == Paper!Spec

(* Unless a polling loop gave up, the line carries every character in      *)
(* order, none twice, a tab as a tab and five spaces.                      *)
LineComplete ==
  /\ TypeOK
  /\ pc = "idle" /\ ~late /\ thr # Absent =>
       wire \o (IF thr = Empty THEN <<>> ELSE <<thr>>) = issued

(* A dead printer or a jammed line never holds the kernel up for good.     *)
OutputReturns == []<>(pc = "idle")
=============================================================================
