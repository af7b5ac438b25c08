----------------------------- MODULE InputQueue -----------------------------
(***************************************************************************)
(* What the console input buffer of kern/console.c promises to getchar():  *)
(* the characters the devices produced come back in the order they were    *)
(* stashed, and cons_getc answers NUL only when none is waiting.           *)
(*                                                                         *)
(* The promise the ring buffer can keep is not quite that: a character     *)
(* stashed while Capacity - 1 characters already wait wipes out the whole  *)
(* backlog, because the write position then meets the read position again. *)
(***************************************************************************)
EXTENDS Naturals, Sequences

CONSTANTS
  Chars,     \* the characters a device can produce, NUL not among them
  NUL,       \* the answer of cons_getc when no character is waiting
  Capacity   \* CONSBUFSIZE

VARIABLES
  queue,     \* the characters waiting, oldest first
  ret        \* what cons_getc returned last

vars == <<queue, ret>>

Init == queue = <<>> /\ ret = NUL

Stash(c) ==
  /\ queue' = Append(queue, c)
  /\ UNCHANGED ret

Overrun ==
  /\ Len(queue) = Capacity - 1
  /\ queue' = <<>>
  /\ UNCHANGED ret

Fetch ==
  /\ queue # <<>>
  /\ ret' = Head(queue)
  /\ queue' = Tail(queue)

NoneWaiting ==
  /\ queue = <<>>
  /\ ret' = NUL
  /\ UNCHANGED queue

Next ==
  \/ Len(queue) < Capacity - 1 /\ \E c \in Chars : Stash(c)
  \/ Overrun
  \/ Fetch
  \/ NoneWaiting

Spec == Init /\ [][Next]_vars
=============================================================================
