---------------------------- MODULE ConsoleInput ----------------------------
(***************************************************************************)
(* The input half of kern/console.c: the serial port and the keyboard      *)
(* controller deliver bytes on their own, and getchar() polls both of them *)
(* through cons_getc, stashing what it finds in the circular buffer        *)
(* `cons'.  Interrupts stay off (boot/boot.S executes cli and nothing in   *)
(* this kernel executes sti), so the poll is the only caller of cons_intr; *)
(* the concurrency is between the processor and the two devices, which may *)
(* deliver between any two port reads.                                     *)
(*                                                                         *)
(* Abstracted: a byte from the keyboard controller stands for the value    *)
(* kbd_proc_data makes of it (NUL for a prefix, a release or a modifier);  *)
(* module Keyboard models that translation.                                *)
(***************************************************************************)
EXTENDS Naturals, Sequences

CONSTANTS
  Chars,        \* non-zero characters the devices produce
  NUL,          \* the value 0
  Mouse,        \* a controller byte whose status has KBS_TERR set
  NoData,       \* the UART holds no received byte (COM_LSR_DATA clear)
  Absent,       \* there is no UART: every port read gives 0xFF
  CONSBUFSIZE,  \* 512 in the code
  KbdDepth,     \* bytes the keyboard controller can hold back
  KbdItems      \* what the keyboard controller may deliver

Bytes == Chars \cup {NUL}

ASSUME ConsoleAssumption ==
  /\ CONSBUFSIZE \in Nat /\ CONSBUFSIZE >= 2
  /\ KbdDepth \in Nat
  /\ KbdItems \subseteq Bytes \cup {Mouse}
  /\ NUL \notin Chars
  /\ Mouse \notin Bytes
  /\ NoData \notin Bytes \cup {Absent}
  /\ Absent \notin Bytes

VARIABLES
  uart,           \* the UART's receive holding register
  kbc,            \* the keyboard controller's output, oldest byte first
  serial_exists,  \* static bool serial_exists
  buf,            \* cons.buf
  rpos, wpos,     \* cons.rpos, cons.wpos
  pc,             \* where the processor is
  ret             \* what cons_getc returned last

devices == <<uart, kbc>>
cons    == <<buf, rpos, wpos>>
vars    == <<uart, kbc, serial_exists, buf, rpos, wpos, pc, ret>>

Slots == 0 .. CONSBUFSIZE - 1

Locations ==
  {"cons_init", "running", "serial_lsr", "serial_rx", "kbd_stat", "kbd_data",
   "grab"}

(* Both indices of the ring stay below CONSBUFSIZE, and its slots hold     *)
(* characters.                                                             *)
TypeOK ==
  /\ uart \in Bytes \cup {NoData, Absent}
  /\ kbc \in Seq(Bytes \cup {Mouse})
  /\ serial_exists \in BOOLEAN
  /\ buf \in [Slots -> Bytes]
  /\ rpos \in Slots
  /\ wpos \in Slots
  /\ pc \in Locations
  /\ ret \in Bytes

(* i386_init has just cleared the BSS; the devices may already hold input. *)
Init ==
  /\ uart \in Bytes \cup {NoData, Absent}
  /\ kbc = <<>>
  /\ serial_exists = FALSE
  /\ buf = [i \in Slots |-> NUL]
  /\ rpos = 0
  /\ wpos = 0
  /\ pc = "cons_init"
  /\ ret = NUL

-----------------------------------------------------------------------------
(* The devices.                                                            *)

(* With the FIFO off the receiver has one holding register: a byte that    *)
(* arrives before the last one was read replaces it.                       *)
SerialArrive(b) ==
  /\ uart # Absent
  /\ uart' = b
  /\ UNCHANGED <<kbc, serial_exists, cons, pc, ret>>

KbdArrive(b) ==
  /\ Len(kbc) < KbdDepth
  /\ kbc' = Append(kbc, b)
  /\ UNCHANGED <<uart, serial_exists, cons, pc, ret>>

Arrive ==
  \/ \E b \in Bytes : SerialArrive(b)
  \/ \E b \in KbdItems : KbdArrive(b)

-----------------------------------------------------------------------------
(* The processor.                                                          *)

(* serial_init: probe the line status register and discard what the        *)
(* receiver already holds.                                                 *)
serial_init ==
  /\ pc = "cons_init"
  /\ serial_exists' = (uart # Absent)
  /\ uart' = IF uart = Absent THEN Absent ELSE NoData
  /\ pc' = "running"
  /\ UNCHANGED <<kbc, cons, ret>>

(* cons_getc first calls serial_intr, which does nothing without a port.   *)
Poll_blindly == "serial_lsr"

Poll == IF serial_exists THEN "serial_lsr" ELSE "kbd_stat"

getchar ==
  /\ pc = "running"
  /\ pc' = Poll
  /\ UNCHANGED <<devices, serial_exists, cons, ret>>

Advance(pos) == IF pos + 1 = CONSBUFSIZE THEN 0 ELSE pos + 1

(* The body of cons_intr's loop: zero is skipped, anything else is stored  *)
(* at wpos whether or not the slot still holds an unread character.        *)
cons_intr_preincrement(c) ==
  IF c = NUL THEN UNCHANGED cons
  ELSE /\ wpos' = Advance(wpos)
       /\ buf' = [buf EXCEPT ![Advance(wpos)] = c]
       /\ UNCHANGED rpos

cons_intr(c) ==
  \/ /\ c = NUL
     /\ UNCHANGED cons
  \/ /\ c # NUL
     /\ buf' = [buf EXCEPT ![wpos] = c]
     /\ wpos' = Advance(wpos)
     /\ UNCHANGED rpos

(* serial_proc_data reads the line status; -1 ends cons_intr's loop.       *)
serial_status ==
  /\ pc = "serial_lsr"
  /\ pc' = IF uart = NoData THEN "kbd_stat" ELSE "serial_rx"
  /\ UNCHANGED <<devices, serial_exists, cons, ret>>

serial_receive ==
  /\ pc = "serial_rx"
  /\ cons_intr(uart)
  /\ uart' = NoData
  /\ pc' = "serial_lsr"
  /\ UNCHANGED <<kbc, serial_exists, ret>>

(* kbd_proc_data reads the controller's status: no data, or data from the  *)
(* mouse, is -1 and ends cons_intr's loop with the byte left where it is.  *)
kbd_status ==
  /\ pc = "kbd_stat"
  /\ pc' = IF kbc = <<>> \/ kbc[1] = Mouse THEN "grab" ELSE "kbd_data"
  /\ UNCHANGED <<devices, serial_exists, cons, ret>>

kbd_receive ==
  /\ pc = "kbd_data"
  /\ cons_intr(Head(kbc))
  /\ kbc' = Tail(kbc)
  /\ pc' = "kbd_stat"
  /\ UNCHANGED <<uart, serial_exists, ret>>

(* The tail of cons_getc, and getchar's loop around it: a character other  *)
(* than zero goes to the caller, zero means polling again.                 *)
cons_getc_ordered ==
  /\ pc = "grab"
  /\ IF rpos < wpos THEN ret' = buf[rpos] /\ rpos' = Advance(rpos)
                    ELSE ret' = NUL /\ UNCHANGED rpos
  /\ pc' = IF ret' = NUL THEN Poll ELSE "running"
  /\ UNCHANGED <<devices, serial_exists, buf, wpos>>

cons_getc ==
  /\ pc = "grab"
  /\ \/ /\ rpos # wpos
        /\ ret' = buf[rpos]
        /\ rpos' = Advance(rpos)
     \/ /\ rpos = wpos
        /\ ret' = NUL
        /\ UNCHANGED rpos
  /\ pc' = IF ret' = NUL THEN Poll ELSE "running"
  /\ UNCHANGED <<devices, serial_exists, buf, wpos>>

Processor ==
  \/ serial_init \/ getchar
  \/ serial_status \/ serial_receive
  \/ kbd_status \/ kbd_receive
  \/ cons_getc

Next == Processor \/ Arrive

Spec == Init /\ [][Next]_vars

(* The processor always runs the next instruction: the monitor's loop      *)
(* calls readline again, and readline calls getchar.  Nothing is assumed   *)
(* of the devices.                                                         *)
FairSpec == Spec /\ WF_vars(Processor)

-----------------------------------------------------------------------------
(* Properties.                                                             *)

Count == IF wpos >= rpos THEN wpos - rpos ELSE wpos + CONSBUFSIZE - rpos

Wrap(i) == IF i >= CONSBUFSIZE THEN i - CONSBUFSIZE ELSE i

(* The characters waiting in the ring, oldest first.                       *)
Waiting == [i \in 1 .. Count |-> buf[Wrap(rpos + i - 1)]]

Queue == INSTANCE InputQueue WITH queue <- Waiting, Capacity <- CONSBUFSIZE

(* What the processor knows of the devices between a status read and the   *)
(* data read that follows it: the port is polled only if it exists, the    *)
(* byte whose status was seen is still there, and no device takes it back. *)
PortsReady ==
  /\ serial_exists => uart # Absent
  /\ pc \in {"serial_lsr", "serial_rx"} => serial_exists
  /\ pc = "serial_rx" => uart \in Bytes
  /\ pc = "kbd_data" => kbc # <<>> /\ Head(kbc) # Mouse

(* cons_intr and cons_getc together are a first-in first-out queue that    *)
(* forgets its backlog when the CONSBUFSIZE-th character is stashed, and   *)
(* does nothing else: no reordering, no duplicate, no stale slot is read,  *)
(* and NUL is the answer exactly when the queue is empty.                  *)
ImplementsQueue == Queue!Spec

(* Once the devices fall silent, the polling loops end and getchar's       *)
(* callers, who keep calling, get every character there was: nothing stays *)
(* behind in the ring or in the receiver, and in the controller only a     *)
(* byte of the mouse and what is behind it: no key is left at the head.    *)
BacklogDrained ==
  <>[][~Arrive]_vars =>
    <>[](/\ rpos = wpos
         /\ uart \in {NoData, Absent}
         /\ kbc = <<>> \/ Head(kbc) = Mouse)
=============================================================================
