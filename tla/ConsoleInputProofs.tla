------------------------- MODULE ConsoleInputProofs -------------------------
(***************************************************************************)
(* For every CONSBUFSIZE >= 2, every set of characters and every depth of  *)
(* the keyboard controller: the ring of kern/console.c stays well typed    *)
(* and implements the queue of module InputQueue.  For every keyboard and  *)
(* however many bytes it holds back: kbd_proc_data makes of each stroke    *)
(* what the user meant, and leaves no modifier stuck.                      *)
(***************************************************************************)
EXTENDS ConsoleInput, Keyboard, SequenceTheorems, FiniteSetTheorems, TLAPS

(* TypeOK alone is not inductive: that cons_intr stores a byte, and not a  *)
(* missing one, rests on what the last status read has shown.              *)
IInv == TypeOK /\ PortsReady

-----------------------------------------------------------------------------
(* Facts about the ring arithmetic.                                        *)

LEMMA AdvanceType == \A pos \in Slots : Advance(pos) \in Slots
  BY ConsoleAssumption DEF Advance, Slots

(* One step of cons_intr's body keeps the buffer typed.                    *)
LEMMA StoreType ==
  ASSUME TypeOK, NEW ch \in Bytes, cons_intr(ch)
  PROVE  /\ buf' \in [Slots -> Bytes]
         /\ rpos' \in Slots
         /\ wpos' \in Slots
  BY AdvanceType DEF TypeOK, cons_intr, cons

-----------------------------------------------------------------------------
(* The invariant holds initially and every action preserves it.            *)

LEMMA InitInv == Init => IInv
  <1> SUFFICES ASSUME Init PROVE IInv
    OBVIOUS
  <1>1. 0 \in Slots
    BY ConsoleAssumption DEF Slots
  <1>2. <<>> \in Seq(Bytes \cup {Mouse})
    BY EmptySeq
  <1>3. TypeOK
    BY <1>1, <1>2 DEF Init, TypeOK, Bytes, Locations
  <1>4. PortsReady
    BY DEF Init, PortsReady
  <1> QED
    BY <1>3, <1>4 DEF IInv

LEMMA StepInv == IInv /\ [Next]_vars => IInv'
  <1> SUFFICES ASSUME IInv, [Next]_vars PROVE IInv'
    OBVIOUS
  <1> USE DEF IInv
  <1>1. ASSUME NEW b \in Bytes, SerialArrive(b) PROVE IInv'
    BY <1>1, ConsoleAssumption DEF SerialArrive, TypeOK, PortsReady, cons
  <1>2. ASSUME NEW b \in KbdItems, KbdArrive(b) PROVE IInv'
    <2> DEFINE Items == Bytes \cup {Mouse}
    <2>1. b \in Items
      BY <1>2, ConsoleAssumption
    <2>2. kbc \in Seq(Items)
      BY DEF TypeOK
    <2>3. kbc' = Append(kbc, b)
      BY <1>2 DEF KbdArrive
    <2>4. kbc' \in Seq(Items) /\ kbc' # <<>>
      BY <2>1, <2>2, <2>3, AppendProperties
    <2>5. kbc # <<>> => Head(kbc') = Head(kbc)
      BY <2>1, <2>2, <2>3, HeadTailAppend
    <2> QED
      BY <1>2, <2>4, <2>5 DEF KbdArrive, TypeOK, PortsReady, cons
  <1>3. ASSUME serial_init PROVE IInv'
    BY <1>3, ConsoleAssumption
    DEF serial_init, TypeOK, PortsReady, cons, Locations
  <1>4. ASSUME getchar PROVE IInv'
    BY <1>4 DEF getchar, Poll, TypeOK, PortsReady, cons, devices, Locations
  <1>5. ASSUME serial_status PROVE IInv'
    BY <1>5 DEF serial_status, TypeOK, PortsReady, cons, devices, Locations
  <1>6. ASSUME serial_receive PROVE IInv'
    <2>1. uart \in Bytes /\ serial_exists
      BY <1>6 DEF serial_receive, PortsReady
    <2>2. /\ buf' \in [Slots -> Bytes]
          /\ rpos' \in Slots
          /\ wpos' \in Slots
      BY <1>6, <2>1, StoreType DEF serial_receive
    <2> QED
      BY <1>6, <2>1, <2>2, ConsoleAssumption
      DEF serial_receive, TypeOK, PortsReady, Locations
  <1>7. ASSUME kbd_status PROVE IInv'
    <2>1. kbc # <<>> => Head(kbc) = kbc[1]
      BY DEF TypeOK
    <2> QED
      BY <1>7, <2>1
      DEF kbd_status, TypeOK, PortsReady, cons, devices, Locations
  <1>8. ASSUME kbd_receive PROVE IInv'
    <2> DEFINE Items == Bytes \cup {Mouse}
    <2>1. kbc \in Seq(Items) /\ kbc # <<>> /\ Head(kbc) # Mouse
      BY <1>8 DEF kbd_receive, PortsReady, TypeOK
    <2>2. Head(kbc) \in Items /\ Tail(kbc) \in Seq(Items)
      BY <2>1, HeadTailProperties
    <2>3. Head(kbc) \in Bytes
      BY <2>1, <2>2
    <2>4. /\ buf' \in [Slots -> Bytes]
          /\ rpos' \in Slots
          /\ wpos' \in Slots
      BY <1>8, <2>3, StoreType DEF kbd_receive
    <2> QED
      BY <1>8, <2>2, <2>4 DEF kbd_receive, TypeOK, PortsReady, Locations
  <1>9. ASSUME cons_getc PROVE IInv'
    <2>1. ret' \in Bytes
      BY <1>9 DEF cons_getc, TypeOK, Bytes
    <2>2. rpos' \in Slots
      BY <1>9, AdvanceType DEF cons_getc, TypeOK
    <2> QED
      BY <1>9, <2>1, <2>2
      DEF cons_getc, Poll, TypeOK, PortsReady, devices, Locations
  <1>10. CASE UNCHANGED vars
    BY <1>10 DEF vars, TypeOK, PortsReady
  <1> QED
    BY <1>1, <1>2, <1>3, <1>4, <1>5, <1>6, <1>7, <1>8, <1>9, <1>10
    DEF Next, Processor, Arrive

(* TypeOK and PortsReady hold in every reachable state, whatever the       *)
(* devices do between two port reads of the processor.                     *)
THEOREM ConsoleSafe == Spec => [](TypeOK /\ PortsReady)
  BY InitInv, StepInv, PTL DEF Spec, IInv

-----------------------------------------------------------------------------
(* The ring seen as a sequence.                                            *)

LEMMA WaitingType ==
  ASSUME TypeOK
  PROVE  /\ Count \in 0 .. CONSBUFSIZE - 1
         /\ \A i \in 1 .. Count : Wrap(rpos + i - 1) \in Slots
         /\ Waiting \in Seq(Bytes)
         /\ Len(Waiting) = Count
         /\ Waiting = <<>> <=> rpos = wpos
  <1>1. Count \in 0 .. CONSBUFSIZE - 1
    BY ConsoleAssumption DEF TypeOK, Count, Slots
  <1>2. \A i \in 1 .. Count : Wrap(rpos + i - 1) \in Slots
    BY <1>1, ConsoleAssumption DEF TypeOK, Wrap, Slots
  <1>3. Waiting \in [1 .. Count -> Bytes]
    BY <1>2 DEF TypeOK, Waiting
  <1>4. Waiting \in Seq(Bytes) /\ Len(Waiting) = Count
    BY <1>1, <1>3
  <1>5. Count = 0 <=> rpos = wpos
    BY ConsoleAssumption DEF TypeOK, Count, Slots
  <1>6. Waiting = <<>> <=> Count = 0
    BY <1>4, EmptySeq
  <1> QED
    BY <1>1, <1>2, <1>4, <1>5, <1>6

(* A character stored while fewer than CONSBUFSIZE - 1 wait is appended;   *)
(* the one stored while CONSBUFSIZE - 1 wait leaves the ring empty.        *)
LEMMA StoreAppends ==
  ASSUME TypeOK, NEW ch \in Bytes, ch # NUL, cons_intr(ch)
  PROVE  \/ Count < CONSBUFSIZE - 1 /\ Waiting' = Append(Waiting, ch)
         \/ Count = CONSBUFSIZE - 1 /\ Waiting' = <<>>
  <1>1. Count \in 0 .. CONSBUFSIZE - 1
    BY WaitingType
  <1>2. /\ buf' = [buf EXCEPT ![wpos] = ch]
        /\ wpos' = Advance(wpos)
        /\ rpos' = rpos
    BY DEF cons_intr
  <1>3. CASE Count = CONSBUFSIZE - 1
    <2>1. wpos' = rpos'
      BY <1>2, <1>3, ConsoleAssumption
      DEF TypeOK, Slots, Count, Advance
    <2>2. Count' = 0
      BY <2>1, <1>2, ConsoleAssumption DEF TypeOK, Slots, Count
    <2>3. Waiting' = [i \in 1 .. 0 |-> buf'[Wrap(rpos' + i - 1)]]
      BY <2>2 DEF Waiting, Wrap
    <2> QED
      BY <1>3, <2>3
  <1>4. CASE Count < CONSBUFSIZE - 1
    <2>1. Count' = Count + 1
      BY <1>1, <1>2, <1>4, ConsoleAssumption
      DEF TypeOK, Slots, Count, Advance
    <2>2. Wrap(rpos + Count) = wpos
      BY ConsoleAssumption DEF TypeOK, Slots, Count, Wrap
    <2>3. \A i \in 1 .. Count : /\ Wrap(rpos + i - 1) # wpos
                                /\ Wrap(rpos + i - 1) \in Slots
      BY <1>1, <1>4, ConsoleAssumption DEF TypeOK, Slots, Count, Wrap
    <2>4. Waiting' = [i \in 1 .. Count + 1 |-> buf'[Wrap(rpos + i - 1)]]
      BY <1>2, <2>1 DEF Waiting, Wrap
    <2>5. \A i \in 1 .. Count : buf'[Wrap(rpos + i - 1)] = Waiting[i]
      BY <1>2, <2>3 DEF TypeOK, Waiting
    <2>6. buf'[Wrap(rpos + Count)] = ch
      BY <1>2, <2>2 DEF TypeOK
    <2>7. /\ Append(Waiting, ch) \in Seq(Bytes)
          /\ Len(Append(Waiting, ch)) = Count + 1
          /\ \A i \in 1 .. Count : Append(Waiting, ch)[i] = Waiting[i]
          /\ Append(Waiting, ch)[Count + 1] = ch
      BY WaitingType, AppendProperties
    <2>8. Waiting' \in [1 .. Count + 1 -> Bytes]
      <3>1. \A i \in 1 .. Count + 1 : Wrap(rpos + i - 1) \in Slots
        BY <1>1, <1>4, ConsoleAssumption DEF TypeOK, Slots, Count, Wrap
      <3>2. buf' \in [Slots -> Bytes]
        BY StoreType
      <3> QED
        BY <2>4, <3>1, <3>2
    <2>9. \A i \in 1 .. Count + 1 : Waiting'[i] = Append(Waiting, ch)[i]
      <3> TAKE i \in 1 .. Count + 1
      <3>1. CASE i = Count + 1
        <4>1. rpos + i - 1 = rpos + Count
          BY <1>1, <3>1, ConsoleAssumption DEF TypeOK, Slots
        <4> QED
          BY <3>1, <4>1, <2>4, <2>6, <2>7
      <3>2. CASE i \in 1 .. Count
        BY <3>2, <2>4, <2>5, <2>7
      <3>3. i = Count + 1 \/ i \in 1 .. Count
        BY <1>1, ConsoleAssumption
      <3> QED
        BY <3>1, <3>2, <3>3
    <2>10. Waiting' \in Seq(Bytes) /\ Len(Waiting') = Count + 1
      BY <1>1, <2>8
    <2>11. Waiting' = Append(Waiting, ch)
      BY <2>7, <2>9, <2>10, SeqEqual
    <2> QED
      BY <1>4, <2>11
  <1> QED
    BY <1>1, <1>3, <1>4, ConsoleAssumption

(* Reading the slot at rpos takes the oldest character out.                *)
LEMMA FetchTakesHead ==
  ASSUME TypeOK, rpos # wpos, rpos' = Advance(rpos),
         UNCHANGED <<buf, wpos>>
  PROVE  /\ buf[rpos] = Head(Waiting)
         /\ Waiting' = Tail(Waiting)
  <1>1. Count \in 1 .. CONSBUFSIZE - 1
    BY ConsoleAssumption DEF TypeOK, Slots, Count
  <1>2. Waiting \in Seq(Bytes) /\ Len(Waiting) = Count /\ Waiting # <<>>
    BY WaitingType
  <1>3. Count' = Count - 1
    BY ConsoleAssumption DEF TypeOK, Slots, Count, Advance
  <1>4. \A i \in 1 .. Count - 1 : Wrap(rpos' + i - 1) = Wrap(rpos + (i + 1) - 1)
    BY <1>1, ConsoleAssumption DEF TypeOK, Slots, Wrap, Advance
  <1>5. Waiting' = [i \in 1 .. Count - 1 |-> buf[Wrap(rpos' + i - 1)]]
    BY <1>3 DEF Waiting, Wrap
  <1>6. /\ Tail(Waiting) \in Seq(Bytes)
        /\ Len(Tail(Waiting)) = Count - 1
        /\ \A i \in 1 .. Count - 1 : Tail(Waiting)[i] = Waiting[i + 1]
    BY <1>2, HeadTailProperties
  <1>7. \A i \in 1 .. Count - 1 : Waiting[i + 1] = buf[Wrap(rpos' + i - 1)]
    BY <1>1, <1>4 DEF Waiting
  <1>8. Tail(Waiting) \in [1 .. Count - 1 -> Bytes]
    BY <1>6, LenProperties
  <1>9. Waiting' = Tail(Waiting)
    BY <1>5, <1>6, <1>7, <1>8
  <1>10. Waiting[1] = buf[rpos]
    <2>1. Wrap(rpos + 1 - 1) = rpos
      BY ConsoleAssumption DEF TypeOK, Slots, Wrap
    <2> QED
      BY <1>1, <2>1 DEF Waiting
  <1> QED
    BY <1>2, <1>9, <1>10

-----------------------------------------------------------------------------
(* Every step is a step of the queue or leaves it alone.                   *)

LEMMA InitRefines == Init => Queue!Init
  <1> SUFFICES ASSUME Init PROVE Queue!Init
    OBVIOUS
  <1>1. TypeOK
    BY InitInv DEF IInv
  <1> QED
    BY <1>1, WaitingType DEF Init, Queue!Init

(* What a device handler does to the queue, whichever byte it brings.      *)
LEMMA ReceiveRefines ==
  ASSUME TypeOK, NEW ch \in Bytes, cons_intr(ch), ret' = ret
  PROVE  [Queue!Next]_(Queue!vars)
  <1>1. CASE ch = NUL
    BY <1>1 DEF cons_intr, cons, Waiting, Count, Wrap, Queue!vars
  <1>2. CASE ch # NUL
    <2>1. ch \in Chars
      BY <1>2 DEF Bytes
    <2>2. Len(Waiting) = Count
      BY WaitingType
    <2>3. CASE Count < CONSBUFSIZE - 1 /\ Waiting' = Append(Waiting, ch)
      BY <2>1, <2>2, <2>3 DEF Queue!Next, Queue!Stash
    <2>4. CASE Count = CONSBUFSIZE - 1 /\ Waiting' = <<>>
      BY <2>2, <2>4 DEF Queue!Next, Queue!Overrun
    <2> QED
      BY <1>2, <2>3, <2>4, StoreAppends
  <1> QED
    BY <1>1, <1>2

LEMMA StepRefines == IInv /\ [Next]_vars => [Queue!Next]_(Queue!vars)
  <1> SUFFICES ASSUME IInv, [Next]_vars PROVE [Queue!Next]_(Queue!vars)
    OBVIOUS
  <1>1. TypeOK /\ PortsReady
    BY DEF IInv
  <1>2. CASE UNCHANGED <<cons, ret>>
    BY <1>2 DEF cons, Waiting, Count, Wrap, Queue!vars
  <1>3. CASE serial_receive
    <2>1. uart \in Bytes /\ cons_intr(uart) /\ ret' = ret
      BY <1>1, <1>3 DEF serial_receive, PortsReady
    <2> QED
      BY <1>1, <2>1, ReceiveRefines
  <1>4. CASE kbd_receive
    <2>1. kbc # <<>> /\ Head(kbc) # Mouse /\ cons_intr(Head(kbc)) /\ ret' = ret
      BY <1>1, <1>4 DEF kbd_receive, PortsReady
    <2>2. Head(kbc) \in Bytes
      BY <1>1, <2>1, HeadTailProperties DEF TypeOK
    <2> QED
      BY <1>1, <2>1, <2>2, ReceiveRefines
  <1>5. CASE cons_getc
    <2>1. CASE rpos # wpos
      <3>1. ret' = buf[rpos] /\ rpos' = Advance(rpos) /\ UNCHANGED <<buf, wpos>>
        BY <1>5, <2>1 DEF cons_getc
      <3>2. ret' = Head(Waiting) /\ Waiting' = Tail(Waiting) /\ Waiting # <<>>
        BY <1>1, <2>1, <3>1, FetchTakesHead, WaitingType
      <3> QED
        BY <3>2 DEF Queue!Next, Queue!Fetch
    <2>2. CASE rpos = wpos
      <3>1. ret' = NUL /\ UNCHANGED <<buf, rpos, wpos>> /\ Waiting = <<>>
        BY <1>1, <1>5, <2>2, WaitingType DEF cons_getc
      <3>2. Waiting' = Waiting
        BY <3>1 DEF Waiting, Count, Wrap
      <3> QED
        BY <3>1, <3>2 DEF Queue!Next, Queue!NoneWaiting
    <2> QED
      BY <2>1, <2>2
  <1>6. \/ UNCHANGED <<cons, ret>>
        \/ serial_receive \/ kbd_receive \/ cons_getc
    BY DEF Next, Processor, Arrive, SerialArrive, KbdArrive, serial_init,
           getchar, serial_status, kbd_status, vars, cons
  <1> QED
    BY <1>2, <1>3, <1>4, <1>5, <1>6

(* The ring buffer implements the queue that forgets its backlog when the  *)
(* CONSBUFSIZE-th character is stashed, and does nothing else to the       *)
(* characters: ImplementsQueue, for every value of the constants.          *)
THEOREM ConsoleRefinesQueue == Spec => ImplementsQueue
  <1>1. Init => Queue!Init
    BY InitRefines
  <1>2. IInv /\ [Next]_vars => [Queue!Next]_(Queue!vars)
    BY StepRefines
  <1>3. Spec => []IInv
    BY InitInv, StepInv, PTL DEF Spec
  <1> QED
    BY <1>1, <1>2, <1>3, PTL DEF Spec, ImplementsQueue, Queue!Spec
-----------------------------------------------------------------------------
(***************************************************************************)
(* The keyboard.                                                           *)
(***************************************************************************)

(* What kbd_proc_data makes of one byte: the shift word it leaves and the  *)
(* character it returns.                                                   *)
DownCode(s, data) == IF "E0ESC" \in s THEN data + 128 ELSE data
UpCode(s, data)   == IF "E0ESC" \in s THEN data ELSE data - 128

DownShift(s, data) ==
  SymmetricDifference((s \ {"E0ESC"}) \cup shiftcode(DownCode(s, data)),
                      togglecode(DownCode(s, data)))

DownChar(s, data) ==
  IF /\ {"CTL", "ALT"} \subseteq DownShift(s, data)
     /\ charcode(DownShift(s, data), DownCode(s, data)) = "KEY_DEL"
  THEN "reboot" ELSE charcode(DownShift(s, data), DownCode(s, data))

After(s, data) ==
  IF data = 224 THEN s \cup {"E0ESC"}
  ELSE IF data >= 128 THEN s \ (shiftcode(UpCode(s, data)) \cup {"E0ESC"})
  ELSE DownShift(s, data)

Char(s, data) == IF data >= 128 THEN NO ELSE DownChar(s, data)

(* Reading w takes the shift word from s to t, and every byte of it gives  *)
(* the character that was meant.                                           *)
Reads(w, s, t) ==
  \E st \in [0 .. Len(w) -> SUBSET Flags] :
    /\ st[0] = s /\ st[Len(w)] = t
    /\ \A n \in 1 .. Len(w) : /\ st[n] = After(st[n - 1], w[n].byte)
                              /\ Char(st[n - 1], w[n].byte) = w[n].meant

(* The bytes of a stroke, whose last one means `what'.                     *)
Stroke(bytes, what) ==
  [n \in DOMAIN bytes |->
     [byte  |-> bytes[n],
      meant |-> IF n = Len(bytes) THEN what ELSE NO]]

Means(bytes, what, s, t) ==
  /\ bytes \in Seq(0 .. 255)
  /\ Reads(Stroke(bytes, what), s, t)

(* The shift word when everything typed has been read.                     *)
Locked(m, lock) == m \cup (IF lock THEN {"CAPSLOCK"} ELSE {})

KbdInv ==
  /\ KbdTypeOK /\ IsFiniteSet(held) /\ DecodedAsMeant
  /\ Reads(wire, shift, Locked(mods, caps))
  /\ \A f \in mods : \E k \in held : Side(k) = {f}

WireByte == [byte : 0 .. 255, meant : Meanings]

LEMMA ReadsNothing ==
  ASSUME NEW s, NEW t, Reads(<<>>, s, t)
  PROVE  s = t
BY DEF Reads

LEMMA ReadsNone ==
  ASSUME NEW s \in SUBSET Flags
  PROVE  Reads(<<>>, s, s)
<1> DEFINE st == [n \in 0 .. 0 |-> s]
<1>1. st \in [0 .. 0 -> SUBSET Flags] /\ st[0] = s
  OBVIOUS
<1>2. Len(<<>>) = 0 /\ 1 .. 0 = {}
  OBVIOUS
<1> HIDE DEF st
<1> QED BY <1>1, <1>2 DEF Reads

(* One part after the other.                                               *)
LEMMA ReadsBoth ==
  ASSUME NEW T, NEW v \in Seq(T), NEW w \in Seq(T),
         NEW s, NEW m, NEW t, Reads(v, s, m), Reads(w, m, t)
  PROVE  Reads(v \o w, s, t)
<1> DEFINE a == Len(v)
           b == Len(w)
<1>1. a \in Nat /\ b \in Nat /\ Len(v \o w) = a + b
  OBVIOUS
<1>2. PICK f \in [0 .. a -> SUBSET Flags] :
        /\ f[0] = s /\ f[a] = m
        /\ \A n \in 1 .. a : /\ f[n] = After(f[n - 1], v[n].byte)
                             /\ Char(f[n - 1], v[n].byte) = v[n].meant
  BY DEF Reads
<1>3. PICK g \in [0 .. b -> SUBSET Flags] :
        /\ g[0] = m /\ g[b] = t
        /\ \A n \in 1 .. b : /\ g[n] = After(g[n - 1], w[n].byte)
                             /\ Char(g[n - 1], w[n].byte) = w[n].meant
  BY DEF Reads
<1>4. \A n \in 1 .. a + b : (v \o w)[n] = IF n <= a THEN v[n] ELSE w[n - a]
  BY <1>1
<1> HIDE DEF a, b
<1> DEFINE h == [n \in 0 .. a + b |-> IF n <= a THEN f[n] ELSE g[n - a]]
<1>5. h \in [0 .. a + b -> SUBSET Flags]
  <2>1. \A n \in 0 .. a + b :
          (IF n <= a THEN f[n] ELSE g[n - a]) \in SUBSET Flags
    <3>1. SUFFICES ASSUME NEW n \in 0 .. a + b
                   PROVE  /\ n <= a => f[n] \in SUBSET Flags
                          /\ ~(n <= a) => g[n - a] \in SUBSET Flags
      OBVIOUS
    <3>2. CASE n <= a
      <4>1. n \in 0 .. a
        BY <1>1, <3>2
      <4> QED BY <3>2, <4>1
    <3>3. CASE ~(n <= a)
      <4>1. n - a \in 0 .. b
        BY <1>1, <3>3
      <4> QED BY <3>3, <4>1
    <3> QED BY <3>2, <3>3
  <2> QED BY <2>1
<1>6. /\ \A n \in 0 .. a : h[n] = f[n]
      /\ \A n \in a .. a + b : h[n] = g[n - a]
  <2>1. \A n \in 0 .. a : n \in 0 .. a + b /\ n <= a
    BY <1>1
  <2>2. \A n \in a .. a + b : n \in 0 .. a + b /\ (n <= a => n = a)
    BY <1>1
  <2>3. a - a = 0
    BY <1>1
  <2> QED BY <1>2, <1>3, <2>1, <2>2, <2>3
<1> HIDE DEF h
<1>7. h[0] = s /\ h[a + b] = t
  <2>1. 0 \in 0 .. a /\ a + b \in a .. a + b /\ a + b - a = b
    BY <1>1
  <2>2. h[0] = f[0]
    BY <1>6, <2>1
  <2>3. PICK n : n = a + b
    OBVIOUS
  <2>4. n \in a .. a + b /\ n - a = b
    BY <1>1, <2>3
  <2>5. h[n] = g[n - a]
    BY <1>6, <2>4
  <2> QED BY <1>2, <1>3, <2>2, <2>3, <2>4, <2>5
<1>8. ASSUME NEW n \in 1 .. a + b
      PROVE  /\ h[n] = After(h[n - 1], (v \o w)[n].byte)
             /\ Char(h[n - 1], (v \o w)[n].byte) = (v \o w)[n].meant
  <2>1. CASE n <= a
    <3>1. n \in 1 .. a /\ n \in 0 .. a /\ n - 1 \in 0 .. a
      BY <1>1, <2>1
    <3> QED BY <1>2, <1>4, <1>6, <2>1, <3>1
  <2>2. CASE ~(n <= a)
    <3>1. /\ n - a \in 1 .. b /\ n \in a .. a + b /\ n - 1 \in a .. a + b
          /\ n - 1 - a = n - a - 1
      BY <1>1, <2>2
    <3>2. (v \o w)[n] = w[n - a] /\ h[n] = g[n - a] /\ h[n - 1] = g[n - a - 1]
      BY <1>4, <1>6, <2>2, <3>1
    <3> QED BY <1>3, <3>1, <3>2
  <2> QED BY <2>1, <2>2
<1> QED BY <1>1, <1>5, <1>7, <1>8 DEF Reads

(* Reading the first byte.                                                 *)
LEMMA ReadsHead ==
  ASSUME NEW T, NEW w \in Seq(T), w # <<>>, NEW s, NEW t, Reads(w, s, t)
  PROVE  /\ Reads(Tail(w), After(s, Head(w).byte), t)
         /\ Char(s, Head(w).byte) = Head(w).meant
         /\ After(s, Head(w).byte) \in SUBSET Flags
<1> DEFINE a == Len(w)
<1>1. /\ a \in Nat /\ a >= 1 /\ Tail(w) \in Seq(T) /\ Len(Tail(w)) = a - 1
      /\ Head(w) = w[1] /\ \A n \in 1 .. a - 1 : Tail(w)[n] = w[n + 1]
  OBVIOUS
<1>2. PICK f \in [0 .. a -> SUBSET Flags] :
        /\ f[0] = s /\ f[a] = t
        /\ \A n \in 1 .. a : /\ f[n] = After(f[n - 1], w[n].byte)
                             /\ Char(f[n - 1], w[n].byte) = w[n].meant
  BY DEF Reads
<1> HIDE DEF a
<1>3. /\ f[1] = After(s, Head(w).byte) /\ Char(s, Head(w).byte) = Head(w).meant
      /\ f[1] \in SUBSET Flags
  <2>1. 1 \in 1 .. a /\ 1 \in 0 .. a /\ 1 - 1 = 0
    BY <1>1
  <2> QED BY <1>1, <1>2, <2>1
<1> DEFINE g == [n \in 0 .. a - 1 |-> f[n + 1]]
<1>4. g \in [0 .. a - 1 -> SUBSET Flags]
  <2>1. \A n \in 0 .. a - 1 : n + 1 \in 0 .. a
    BY <1>1
  <2> QED BY <2>1
<1>5. g[0] = f[1] /\ g[a - 1] = t
  <2>1. 0 \in 0 .. a - 1 /\ a - 1 \in 0 .. a - 1 /\ a - 1 + 1 = a /\ 0 + 1 = 1
    BY <1>1
  <2> QED BY <1>2, <2>1
<1>6. ASSUME NEW n \in 1 .. a - 1
      PROVE  /\ g[n] = After(g[n - 1], Tail(w)[n].byte)
             /\ Char(g[n - 1], Tail(w)[n].byte) = Tail(w)[n].meant
  <2>1. /\ n \in 0 .. a - 1 /\ n - 1 \in 0 .. a - 1 /\ n + 1 \in 1 .. a
        /\ n - 1 + 1 = n /\ n + 1 - 1 = n
    BY <1>1
  <2>2. g[n] = f[n + 1]
    BY <2>1
  <2>3. g[n - 1] = f[n - 1 + 1]
    BY <2>1
  <2>4. g[n - 1] = f[n]
    BY <2>1, <2>3
  <2>5. Tail(w)[n] = w[n + 1]
    BY <1>1
  <2>6. /\ f[n + 1] = After(f[n + 1 - 1], w[n + 1].byte)
        /\ Char(f[n + 1 - 1], w[n + 1].byte) = w[n + 1].meant
    BY <1>2, <2>1
  <2>7. f[n + 1 - 1] = f[n]
    BY <2>1
  <2> HIDE DEF g
  <2> QED BY <2>2, <2>4, <2>5, <2>6, <2>7
<1> HIDE DEF g
<1> QED BY <1>1, <1>3, <1>4, <1>5, <1>6 DEF Reads

(* The strokes: of no byte, of one and of one part after the other.        *)
LEMMA StrokeType ==
  ASSUME NEW bytes \in Seq(0 .. 255), NEW what \in Meanings
  PROVE  /\ Stroke(bytes, what) \in Seq(WireByte)
         /\ Len(Stroke(bytes, what)) = Len(bytes)
<1> DEFINE a == Len(bytes)
<1>1. /\ a \in Nat /\ DOMAIN bytes = 1 .. a
      /\ \A n \in 1 .. a : bytes[n] \in 0 .. 255
  <2>1. a \in Nat /\ bytes \in [1 .. a -> 0 .. 255]
    BY LenProperties
  <2> HIDE DEF a
  <2> QED BY <2>1
<1>2. \A n \in 1 .. a : Stroke(bytes, what)[n] \in WireByte
  BY <1>1 DEF Stroke, WireByte, Meanings, NO
<1>3. DOMAIN Stroke(bytes, what) = 1 .. a /\ Stroke(bytes, what)
        = [n \in 1 .. a |-> Stroke(bytes, what)[n]]
  BY <1>1 DEF Stroke
<1> HIDE DEF a
<1>4. [n \in 1 .. a |-> Stroke(bytes, what)[n]] \in [1 .. a -> WireByte]
  BY <1>2
<1>5. Stroke(bytes, what) \in Seq(WireByte)
  BY <1>1, <1>3, <1>4, SeqDef
<1>6. Len(Stroke(bytes, what)) = a
  BY <1>1, <1>3, <1>5, LenProperties
<1> QED BY <1>5, <1>6 DEF a

LEMMA NoBytes ==
  ASSUME NEW s \in SUBSET Flags
  PROVE  Means(<<>>, NO, s, s)
<1>1. Stroke(<<>>, NO) = <<>>
  BY NO \in Meanings, <<>> \in Seq(0 .. 255), StrokeType, EmptySeq DEF Meanings
<1> QED BY <1>1, ReadsNone DEF Means

LEMMA OneByte ==
  ASSUME NEW b \in 0 .. 255, NEW what, NEW s \in SUBSET Flags,
         After(s, b) \in SUBSET Flags, Char(s, b) = what
  PROVE  Means(<<b>>, what, s, After(s, b))
<1> DEFINE st == [n \in 0 .. 1 |-> IF n = 0 THEN s ELSE After(s, b)]
           w  == Stroke(<<b>>, what)
<1>1. /\ st \in [0 .. 1 -> SUBSET Flags] /\ st[0] = s /\ st[1] = After(s, b)
  OBVIOUS
<1>2. w = <<[byte |-> b, meant |-> what]>>
  BY DEF Stroke
<1>3. Len(w) = 1 /\ w[1].byte = b /\ w[1].meant = what
  BY <1>2
<1>4. <<b>> \in Seq(0 .. 255)
  OBVIOUS
<1> HIDE DEF st, w
<1>5. ASSUME NEW n \in 1 .. 1
      PROVE  /\ st[n] = After(st[n - 1], w[n].byte)
             /\ Char(st[n - 1], w[n].byte) = w[n].meant
  <2>1. n = 1 /\ n - 1 = 0
    OBVIOUS
  <2> QED BY <1>1, <1>3, <2>1
<1>6. Reads(w, s, After(s, b))
  BY <1>1, <1>3, <1>5 DEF Reads
<1> QED BY <1>4, <1>6 DEF Means, w

LEMMA BytesThenBytes ==
  ASSUME NEW v, NEW w, NEW what \in Meanings,
         NEW s, NEW m, NEW t, Means(v, NO, s, m), Means(w, what, m, t),
         w # <<>> \/ what = NO
  PROVE  Means(v \o w, what, s, t)
<1> DEFINE a == Len(v)
           b == Len(w)
<1>1. v \in Seq(0 .. 255) /\ w \in Seq(0 .. 255) /\ v \o w \in Seq(0 .. 255)
  BY DEF Means
<1>2. a \in Nat /\ b \in Nat /\ Len(v \o w) = a + b /\ (b = 0 => what = NO)
  BY <1>1
<1>3. NO \in Meanings
  BY DEF Meanings
<1>4. /\ Stroke(v, NO) \in Seq(WireByte) /\ Len(Stroke(v, NO)) = a
      /\ Stroke(w, what) \in Seq(WireByte) /\ Len(Stroke(w, what)) = b
      /\ Stroke(v \o w, what) \in Seq(WireByte)
      /\ Len(Stroke(v \o w, what)) = a + b
  BY <1>1, <1>2, <1>3, StrokeType
<1>5. ASSUME NEW n \in 1 .. a + b
      PROVE  Stroke(v \o w, what)[n] = (Stroke(v, NO) \o Stroke(w, what))[n]
  <2>1. /\ Stroke(v \o w, what)[n] = [byte |-> (v \o w)[n],
               meant |-> IF n = a + b THEN what ELSE NO]
    BY <1>1, <1>2 DEF Stroke
  <2>2. CASE n <= a
    <3>1. (v \o w)[n] = v[n] /\ (n = a + b => what = NO) /\ n \in DOMAIN v
      BY <1>1, <1>2, <2>2
    <3>2. (Stroke(v, NO) \o Stroke(w, what))[n] = Stroke(v, NO)[n]
      BY <1>4, <2>2
    <3>3. Stroke(v, NO)[n] = [byte |-> v[n], meant |-> NO]
      BY <3>1 DEF Stroke
    <3> QED BY <2>1, <3>1, <3>2, <3>3
  <2>3. CASE ~(n <= a)
    <3>1. /\ (v \o w)[n] = w[n - a] /\ (n = a + b <=> n - a = b)
          /\ n - a \in DOMAIN w
      BY <1>1, <1>2, <2>3
    <3>2. (Stroke(v, NO) \o Stroke(w, what))[n] = Stroke(w, what)[n - a]
      BY <1>2, <1>4, <2>3
    <3>3. Stroke(w, what)[n - a]
            = [byte |-> w[n - a], meant |-> IF n - a = b THEN what ELSE NO]
      BY <3>1 DEF Stroke
    <3> QED BY <2>1, <3>1, <3>2, <3>3
  <2> QED BY <2>2, <2>3
<1>6. Stroke(v \o w, what) = Stroke(v, NO) \o Stroke(w, what)
  <2> DEFINE p == Stroke(v, NO)
             q == Stroke(w, what)
             all == Stroke(v \o w, what)
  <2>1. /\ p \in Seq(WireByte) /\ q \in Seq(WireByte) /\ all \in Seq(WireByte)
        /\ Len(p) = a /\ Len(q) = b /\ Len(all) = a + b
        /\ \A n \in 1 .. a + b : all[n] = (p \o q)[n]
    BY <1>4, <1>5
  <2> HIDE DEF a, b, p, q, all
  <2>2. p \o q \in Seq(WireByte) /\ Len(p \o q) = a + b
    BY <2>1, ConcatProperties
  <2>3. all = p \o q
    BY <2>1, <2>2, SeqEqual
  <2> QED BY <2>3 DEF p, q, all
<1> QED BY <1>1, <1>4, <1>6, ReadsBoth DEF Means

LEMMA TwoBytes ==
  ASSUME NEW b \in 0 .. 255, NEW d \in 0 .. 255, NEW what \in Meanings,
         NEW s \in SUBSET Flags, NEW m \in SUBSET Flags, NEW t \in SUBSET Flags,
         After(s, b) = m, Char(s, b) = NO, After(m, d) = t, Char(m, d) = what
  PROVE  Means(<<b, d>>, what, s, t)
<1>1. Means(<<b>>, NO, s, m) /\ Means(<<d>>, what, m, t)
  BY OneByte
<1>2. <<b, d>> = <<b>> \o <<d>> /\ <<d>> # <<>>
  <2> DEFINE v == <<b>> \o <<d>>
  <2>1. <<b, d>> \in Seq(0 .. 255) /\ v \in Seq(0 .. 255)
    OBVIOUS
  <2>2. Len(<<b, d>>) = 2 /\ Len(v) = 2 /\ v[1] = b /\ v[2] = d
    OBVIOUS
  <2>3. \A i \in 1 .. 2 : <<b, d>>[i] = v[i]
    BY <2>2
  <2> HIDE DEF v
  <2>4. <<b, d>> = v
    BY <2>1, <2>2, <2>3, SeqEqual
  <2> QED BY <2>4 DEF v
<1>3. Means(<<b>> \o <<d>>, what, s, t)
  BY <1>1, <1>2, BytesThenBytes
<1> QED BY <1>2, <1>3

(* The shift word of modifiers and a lock, and the prefix.                 *)
LEMMA LockedFlags ==
  ASSUME NEW m \in SUBSET Modifiers, NEW lock \in BOOLEAN
  PROVE  /\ Locked(m, lock) \in SUBSET Flags
         /\ "E0ESC" \notin Locked(m, lock)
         /\ "CAPSLOCK" \in Locked(m, lock) <=> lock
         /\ Locked(m, lock) \cap Modifiers = m
BY DEF Locked, Modifiers, Flags

LEMMA Escape ==
  ASSUME NEW s \in SUBSET Flags
  PROVE  /\ After(s, 224) = s \cup {"E0ESC"} /\ Char(s, 224) = NO
         /\ s \cup {"E0ESC"} \in SUBSET Flags
BY DEF After, Char, Flags

LEMMA Prefixed ==
  ASSUME NEW d \in 0 .. 255, NEW what \in Meanings,
         NEW s \in SUBSET Flags, NEW t \in SUBSET Flags,
         After(s \cup {"E0ESC"}, d) = t, Char(s \cup {"E0ESC"}, d) = what
  PROVE  Means(<<224, d>>, what, s, t)
<1> DEFINE e == s \cup {"E0ESC"}
<1>1. PICK b : b = 224
  OBVIOUS
<1>2. b \in 0 .. 255
  BY <1>1
<1>3. e \in SUBSET Flags /\ After(s, b) = e /\ Char(s, b) = NO
  BY <1>1, Escape
<1>4. After(e, d) = t /\ Char(e, d) = what
  OBVIOUS
<1> HIDE DEF e
<1>5. Means(<<b, d>>, what, s, t)
  BY <1>2, <1>3, <1>4, TwoBytes, Zenon
<1> QED BY <1>1, <1>5

(* The code of a key in the tables, whose upper half has the keys with E0. *)
Entry(k) == ScanCode[k] + (IF k \in Gray THEN 128 ELSE 0)

LEMMA Tables ==
  ASSUME NEW k \in DOMAIN ScanCode
  PROVE  /\ ScanCode[k] \in 1 .. 83
         /\ shiftcode(Entry(k)) = Side(k)
         /\ togglecode(Entry(k)) = IF k = "Caps" THEN {"CAPSLOCK"} ELSE {}
         /\ normalmap(Entry(k)) =
              CASE k = "A" -> "a" [] k = "One" -> "1" [] k = "KpDot" -> "."
                [] k = "Del" -> "KEY_DEL" [] k = "Up" -> "KEY_UP"
                [] k = "Home" -> "KEY_HOME" [] OTHER -> NO
         /\ shiftmap(Entry(k)) =
              CASE k = "A" -> "A" [] k = "One" -> "!" [] k = "KpDot" -> "."
                [] k = "Del" -> "KEY_DEL" [] k = "Up" -> "KEY_UP"
                [] k = "Home" -> "KEY_HOME" [] OTHER -> NO
         /\ ctlmap(Entry(k)) =
              CASE k = "A" -> "^A"
                [] k = "Del" -> "KEY_DEL" [] k = "Up" -> "KEY_UP" [] OTHER -> NO
<1>1. k \in {"LShift", "RShift", "LCtrl", "RCtrl", "LAlt", "RAlt", "Caps", "A",
             "One", "Del", "KpDot", "Up", "Home"}
  BY DEF ScanCode
<1> USE DEF ScanCode, Entry, Gray, Side, shiftcode, togglecode, normalmap,
            shiftmap, ctlmap
<1>2. CASE k = "LShift" BY <1>2
<1>3. CASE k = "RShift" BY <1>3
<1>4. CASE k = "LCtrl" BY <1>4
<1>5. CASE k = "RCtrl" BY <1>5
<1>6. CASE k = "LAlt" BY <1>6
<1>7. CASE k = "RAlt" BY <1>7
<1>8. CASE k = "Caps" BY <1>8
<1>9. CASE k = "A" BY <1>9
<1>10. CASE k = "One" BY <1>10
<1>11. CASE k = "Del" BY <1>11
<1>12. CASE k = "KpDot" BY <1>12
<1>13. CASE k = "Up" BY <1>13
<1>14. CASE k = "Home" BY <1>14
<1> QED BY <1>1, <1>2, <1>3, <1>4, <1>5, <1>6, <1>7, <1>8, <1>9, <1>10, <1>11,
           <1>12, <1>13, <1>14

(* The last byte of a press, before and after an E0, and of a release.     *)
LEMMA LastOfPress ==
  ASSUME NEW k \in DOMAIN ScanCode, NEW m \in SUBSET Modifiers,
         NEW lock \in BOOLEAN, NEW s \in SUBSET Flags,
         s = Locked(m, lock) \cup (IF k \in Gray THEN {"E0ESC"} ELSE {}),
         NEW next \in BOOLEAN, next = (IF k = "Caps" THEN ~lock ELSE lock)
  PROVE  /\ After(s, ScanCode[k]) = Locked(m \cup Side(k), next)
         /\ Char(s, ScanCode[k]) = Meaning(k, m \cup Side(k), next)
<1> DEFINE all == m \cup Side(k)
<1>1. all \in SUBSET Modifiers /\ "CAPSLOCK" \notin Side(k)
  BY DEF Side, Modifiers
<1>2. /\ DownCode(s, ScanCode[k]) = Entry(k)
      /\ ScanCode[k] < 128 /\ ScanCode[k] \in Int
  BY LockedFlags, Tables DEF DownCode, Entry
<1>3. s \ {"E0ESC"} = Locked(m, lock)
  BY LockedFlags
<1>4. DownShift(s, ScanCode[k])
        = SymmetricDifference(Locked(m, lock) \cup Side(k),
                              IF k = "Caps" THEN {"CAPSLOCK"} ELSE {})
  BY <1>2, <1>3, Tables DEF DownShift
<1>5. DownShift(s, ScanCode[k]) = Locked(all, next)
  <2>1. CASE k = "Caps"
    <3>1. Side(k) = {}
      BY <2>1 DEF Side
    <3> QED BY <1>4, <2>1, <3>1 DEF SymmetricDifference, Locked, Modifiers
  <2>2. CASE k # "Caps"
    BY <1>4, <2>2 DEF SymmetricDifference, Locked
  <2> QED BY <2>1, <2>2
<1>6. After(s, ScanCode[k]) = Locked(all, next)
  BY <1>2, <1>5 DEF After
<1> DEFINE L == Locked(all, next)
<1>7. /\ "CTL" \in L <=> "CTL" \in all
      /\ "SHIFT" \in L <=> "SHIFT" \in all
      /\ "ALT" \in L <=> "ALT" \in all
      /\ "CAPSLOCK" \in L <=> next
  BY <1>1, LockedFlags DEF Modifiers
<1>8. Char(s, ScanCode[k])
        = IF {"CTL", "ALT"} \subseteq L /\ charcode(L, Entry(k)) = "KEY_DEL"
          THEN "reboot" ELSE charcode(L, Entry(k))
  BY <1>2, <1>5 DEF Char, DownChar
<1> HIDE DEF L, all
<1>9. Char(s, ScanCode[k]) = Meaning(k, all, next)
  BY <1>7, <1>8, Tables DEF charcode, Meaning, NO
<1> QED BY <1>6, <1>9 DEF all

LEMMA LastOfRelease ==
  ASSUME NEW k \in DOMAIN ScanCode, NEW m \in SUBSET Modifiers,
         NEW lock \in BOOLEAN, NEW s \in SUBSET Flags,
         s = Locked(m, lock) \cup (IF k \in Gray THEN {"E0ESC"} ELSE {})
  PROVE  /\ After(s, ScanCode[k] + 128) = Locked(m \ Side(k), lock)
         /\ Char(s, ScanCode[k] + 128) = NO
<1>1. "CAPSLOCK" \notin Side(k)
  BY DEF Side
<1>2. /\ ScanCode[k] \in 1 .. 83
      /\ ScanCode[k] + 128 >= 128 /\ ScanCode[k] + 128 # 224
  BY Tables
<1>3. UpCode(s, ScanCode[k] + 128) = Entry(k)
  BY <1>2, LockedFlags DEF UpCode, Entry
<1>4. s \ {"E0ESC"} = Locked(m, lock)
  BY LockedFlags
<1>5. After(s, ScanCode[k] + 128) = s \ (Side(k) \cup {"E0ESC"})
  BY <1>2, <1>3, Tables DEF After
<1>6. After(s, ScanCode[k] + 128) = Locked(m, lock) \ Side(k)
  BY <1>4, <1>5
<1> QED BY <1>1, <1>2, <1>6 DEF Locked, Char

(* The code of a press, of a release, and the shifts a gray key fakes.     *)
LEMMA PressMeans ==
  ASSUME NEW k \in DOMAIN ScanCode, NEW m \in SUBSET Modifiers,
         NEW lock \in BOOLEAN,
         NEW next \in BOOLEAN, next = (IF k = "Caps" THEN ~lock ELSE lock)
  PROVE  Means(Code(k, 0), Meaning(k, m \cup Side(k), next),
               Locked(m, lock), Locked(m \cup Side(k), next))
<1> DEFINE s == Locked(m, lock)
           t == Locked(m \cup Side(k), next)
           what == Meaning(k, m \cup Side(k), next)
           data == ScanCode[k]
<1>1. m \cup Side(k) \in SUBSET Modifiers
  BY DEF Side, Modifiers
<1>2. s \in SUBSET Flags /\ t \in SUBSET Flags
  BY <1>1, LockedFlags
<1>3. what \in Meanings
  BY DEF Meaning, Meanings
<1>4. data \in 0 .. 255 /\ data + 0 = data
  BY Tables
<1>5. CASE k \in Gray
  <2> DEFINE e == s \cup {"E0ESC"}
  <2>1. e \in SUBSET Flags /\ e = s \cup (IF k \in Gray THEN {"E0ESC"} ELSE {})
    BY <1>2, <1>5, Escape
  <2>2. After(e, data) = t /\ Char(e, data) = what
    BY <2>1, LastOfPress
  <2>3. Code(k, 0) = <<224, data>>
    BY <1>4, <1>5 DEF Code
  <2> HIDE DEF s, t, data, what
  <2>4. Means(<<224, data>>, what, s, t)
    BY <1>2, <1>3, <1>4, <2>2, Prefixed, Zenon
  <2> QED BY <2>3, <2>4 DEF s, t, what
<1>6. CASE k \notin Gray
  <2>1. s = s \cup (IF k \in Gray THEN {"E0ESC"} ELSE {})
    BY <1>6
  <2>2. After(s, data) = t /\ Char(s, data) = what
    BY <1>2, <2>1, LastOfPress
  <2>3. Code(k, 0) = <<data>>
    BY <1>4, <1>6 DEF Code
  <2> HIDE DEF s, t, data, what
  <2>4. Means(<<data>>, what, s, t)
    BY <1>2, <1>4, <2>2, OneByte
  <2> QED BY <2>3, <2>4 DEF s, t, what
<1> QED BY <1>5, <1>6

LEMMA ReleaseMeans ==
  ASSUME NEW k \in DOMAIN ScanCode, NEW m \in SUBSET Modifiers,
         NEW lock \in BOOLEAN
  PROVE  Means(Code(k, 128), NO, Locked(m, lock), Locked(m \ Side(k), lock))
<1> DEFINE s == Locked(m, lock)
           t == Locked(m \ Side(k), lock)
           data == ScanCode[k] + 128
<1>1. m \ Side(k) \in SUBSET Modifiers /\ NO \in Meanings
  BY DEF Meanings
<1>2. s \in SUBSET Flags /\ t \in SUBSET Flags
  BY <1>1, LockedFlags
<1>3. data \in 0 .. 255
  BY Tables
<1>4. CASE k \in Gray
  <2> DEFINE e == s \cup {"E0ESC"}
  <2>1. e \in SUBSET Flags /\ e = s \cup (IF k \in Gray THEN {"E0ESC"} ELSE {})
    BY <1>2, <1>4, Escape
  <2>2. After(e, data) = t /\ Char(e, data) = NO
    BY <2>1, LastOfRelease
  <2>3. Code(k, 128) = <<224, data>>
    BY <1>4 DEF Code
  <2> HIDE DEF s, t, data
  <2>4. Means(<<224, data>>, NO, s, t)
    BY <1>1, <1>2, <1>3, <2>2, Prefixed, Zenon
  <2> QED BY <2>3, <2>4 DEF s, t
<1>5. CASE k \notin Gray
  <2>1. s = s \cup (IF k \in Gray THEN {"E0ESC"} ELSE {})
    BY <1>5
  <2>2. After(s, data) = t /\ Char(s, data) = NO
    BY <1>2, <2>1, LastOfRelease
  <2>3. Code(k, 128) = <<data>>
    BY <1>5 DEF Code
  <2> HIDE DEF s, t, data
  <2>4. Means(Code(k, 128), NO, s, t)
    BY <1>1, <1>2, <1>3, <2>2, <2>3, OneByte
  <2> QED BY <2>4 DEF s, t
<1> QED BY <1>4, <1>5

LEMMA FakeShiftMeans ==
  ASSUME NEW k, NEW up \in {0, 128}, NEW s \in SUBSET Flags, "E0ESC" \notin s
  PROVE  Means(FakeShift(k, up), NO, s, s)
<1> DEFINE e == s \cup {"E0ESC"}
<1>1. /\ e \in SUBSET Flags /\ After(s, 224) = e /\ Char(s, 224) = NO
      /\ NO \in Meanings
  BY Escape DEF Meanings
<1>2. ASSUME NEW code \in {42, 54}
      PROVE  Means(<<224, code + up>>, NO, s, s)
  <2>1. code + up \in {42, 54, 170, 182}
    OBVIOUS
  <2>2. After(e, code + up) = s /\ Char(e, code + up) = NO
    <3>1. CASE up = 0
      <4> DEFINE d == code + up + 128
      <4>1. /\ DownCode(e, code + up) = d /\ code + up < 128
            /\ d \in {170, 182}
        BY <3>1 DEF DownCode
      <4>2. /\ shiftcode(d) = {} /\ togglecode(d) = {} /\ normalmap(d) = NO
            /\ shiftmap(d) = NO /\ ctlmap(d) = NO
        BY <4>1 DEF shiftcode, togglecode, normalmap, shiftmap, ctlmap
      <4> HIDE DEF d
      <4>3. DownShift(e, code + up) = s
        BY <4>1, <4>2 DEF DownShift, SymmetricDifference
      <4>4. charcode(s, d) = NO
        BY <4>2 DEF charcode, NO
      <4>5. DownChar(e, code + up) = NO
        BY <4>1, <4>3, <4>4 DEF DownChar, NO
      <4> QED BY <2>1, <4>1, <4>3, <4>5 DEF After, Char
    <3>2. CASE up = 128
      <4>1. /\ UpCode(e, code + up) = code + up /\ code + up \in {170, 182}
        BY <3>2 DEF UpCode
      <4>2. shiftcode(code + up) = {}
        BY <4>1 DEF shiftcode
      <4> QED BY <4>1, <4>2 DEF After, Char
    <3> QED BY <3>1, <3>2
  <2>3. code + up \in 0 .. 255
    BY <2>1
  <2> QED BY <1>1, <2>2, <2>3, Prefixed, Zenon
<1>3. Means(<<>>, NO, s, s)
  BY NoBytes
<1> DEFINE left  == IF "LShift" \in held THEN <<224, 42 + up>> ELSE <<>>
           right == IF "RShift" \in held THEN <<224, 54 + up>> ELSE <<>>
<1>4. Means(left, NO, s, s) /\ Means(right, NO, s, s)
  BY <1>2, <1>3
<1>5. FakeShift(k, up) = <<>> \/ FakeShift(k, up) = left \o right
  BY DEF FakeShift
<1> HIDE DEF left, right
<1>6. Means(left \o right, NO, s, s)
  BY <1>1, <1>4, BytesThenBytes
<1> QED BY <1>3, <1>5, <1>6

(* A stroke put on the wire is read after what already waits there.        *)
LEMMA Sent ==
  ASSUME NEW bytes, NEW what \in Meanings, NEW s, NEW t,
         wire \in Seq(WireByte), Reads(wire, shift, s),
         Means(bytes, what, s, t), Sends(bytes, what)
  PROVE  wire' \in Seq(WireByte) /\ Reads(wire', shift', t)
<1>1. Stroke(bytes, what) \in Seq(WireByte)
  BY StrokeType DEF Means
<1>2. wire' = wire \o Stroke(bytes, what) /\ shift' = shift
  BY DEF Sends, Stroke
<1>3. Reads(wire \o Stroke(bytes, what), shift, t)
  BY <1>1, ReadsBoth DEF Means
<1>4. wire \o Stroke(bytes, what) \in Seq(WireByte)
  BY <1>1
<1> QED BY <1>2, <1>3, <1>4

(* kbd_proc_data leaves the shift word and returns the character of the    *)
(* first byte.                                                             *)
LEMMA OneRead ==
  ASSUME wire \in Seq(WireByte), kbd_proc_data
  PROVE  /\ shift' = After(shift, Head(wire).byte)
         /\ c' = Char(shift, Head(wire).byte)
<1> DEFINE data == Head(wire).byte
<1>1. data \in 0 .. 255
  <2>1. Head(wire) \in WireByte
    BY HeadTailProperties DEF kbd_proc_data
  <2> QED BY <2>1 DEF WireByte
<1>2. Prefix(data) \/ KeyUp(data) \/ KeyDown(data)
  BY DEF kbd_proc_data
<1> HIDE DEF data
<1>3. shift' = After(shift, data) /\ c' = Char(shift, data)
  <2>1. CASE Prefix(data)
    BY <2>1 DEF Prefix, After, Char
  <2>2. CASE KeyUp(data)
    BY <1>1, <2>2 DEF KeyUp, After, Char, UpCode
  <2>3. CASE KeyDown(data)
    <3>1. data < 128 /\ data # 224 /\ ~(data >= 128)
      BY <1>1, <2>3 DEF KeyDown
    <3>2. shift' = DownShift(shift, data) /\ c' = DownChar(shift, data)
      BY <2>3 DEF KeyDown, DownShift, DownChar, DownCode
    <3> QED BY <3>1, <3>2 DEF After, Char
  <2> QED BY <1>2, <2>1, <2>2, <2>3
<1> QED BY <1>3 DEF data

LEMMA KbdInitInv ==
  ASSUME KbdInit
  PROVE  KbdInv
<1>1. KbdTypeOK
  <2>1. Cardinality({}) = 0 /\ 0 <= MaxHeld
    BY FS_EmptySet, KeyboardAssumption
  <2>2. <<>> \in Seq([byte : 0 .. 255, meant : Meanings])
    OBVIOUS
  <2> QED BY <2>1, <2>2 DEF KbdInit, KbdTypeOK, Meanings, NO
<1>2. Locked({}, FALSE) = {} /\ {} \in SUBSET Flags
  BY DEF Locked
<1>3. Reads(wire, shift, Locked(mods, caps))
  BY <1>2, ReadsNone DEF KbdInit
<1> QED BY <1>1, <1>3, FS_EmptySet DEF KbdInit, KbdInv, DecodedAsMeant

LEMMA PressKeepsInv ==
  ASSUME KbdInv, NEW k \in Keys, Press(k)
  PROVE  KbdInv'
<1> DEFINE what == Meaning(k, mods', caps')
           s == Locked(mods, caps)
           t == Locked(mods', caps')
<1>1. /\ k \in DOMAIN ScanCode /\ mods \in SUBSET Modifiers /\ caps \in BOOLEAN
      /\ wire \in Seq(WireByte)
      /\ mods' = mods \cup Side(k)
      /\ caps' = (IF k = "Caps" THEN ~caps ELSE caps) /\ caps' \in BOOLEAN
  BY KeyboardAssumption DEF KbdInv, KbdTypeOK, Press, WireByte
<1>2. mods' \in SUBSET Modifiers
  BY <1>1 DEF Side, Modifiers
<1>3. what \in Meanings
  BY DEF Meaning, Meanings
<1>4. Means(Code(k, 0), what, s, t)
  BY <1>1, PressMeans
<1>5. Means(FakeShift(k, 128), NO, s, s)
  BY <1>1, LockedFlags, FakeShiftMeans
<1>6. Code(k, 0) # <<>>
  BY DEF Code
<1>7. Sends(Make(k), what)
  BY DEF Press
<1> HIDE DEF what, s, t
<1>8. Means(Make(k), what, s, t)
  BY <1>3, <1>4, <1>5, <1>6, BytesThenBytes DEF Make
<1>9. Reads(wire, shift, s)
  BY DEF KbdInv, s
<1>10. wire' \in Seq(WireByte) /\ Reads(wire', shift', t)
  BY <1>1, <1>3, <1>7, <1>8, <1>9, Sent
<1>11. UNCHANGED <<shift, c, meant, rebooted>>
  BY <1>7 DEF Sends
<1>12. IsFiniteSet(held') /\ held' = held \cup {k} /\ repeats' = k
       /\ Cardinality(held') <= MaxHeld
  BY FS_AddElement DEF KbdInv, Press
<1>13. KbdTypeOK'
  BY <1>1, <1>2, <1>10, <1>11, <1>12 DEF KbdInv, KbdTypeOK, WireByte
<1>14. \A f \in mods' : \E j \in held' : Side(j) = {f}
  <2>1. SUFFICES ASSUME NEW f \in mods'
                 PROVE  \E j \in held' : Side(j) = {f}
    OBVIOUS
  <2>2. CASE f \in mods
    BY <1>12, <2>2 DEF KbdInv
  <2>3. CASE f \in Side(k)
    <3>1. Side(k) = {f}
      BY <2>3 DEF Side
    <3> QED BY <1>12, <3>1
  <2> QED BY <1>1, <2>2, <2>3
<1> QED BY <1>10, <1>11, <1>12, <1>13, <1>14 DEF KbdInv, DecodedAsMeant, t

LEMMA ReleaseKeepsInv ==
  ASSUME KbdInv, NEW k \in Keys, Release(k)
  PROVE  KbdInv'
<1> DEFINE s == Locked(mods, caps)
           t == Locked(mods', caps')
<1>1. /\ k \in DOMAIN ScanCode /\ mods \in SUBSET Modifiers /\ caps \in BOOLEAN
      /\ wire \in Seq(WireByte)
      /\ mods' = mods \ Side(k) /\ caps' = caps
  BY KeyboardAssumption DEF KbdInv, KbdTypeOK, Release, WireByte
<1>2. mods' \in SUBSET Modifiers
  BY <1>1
<1>3. NO \in Meanings
  BY DEF Meanings
<1>4. Means(Code(k, 128), NO, s, t)
  BY <1>1, ReleaseMeans
<1>5. Means(FakeShift(k, 0), NO, t, t)
  BY <1>1, <1>2, LockedFlags, FakeShiftMeans
<1>6. Sends(Break(k), NO)
  BY DEF Release
<1> HIDE DEF s, t
<1>7. Means(Break(k), NO, s, t)
  BY <1>3, <1>4, <1>5, BytesThenBytes DEF Break
<1>8. Reads(wire, shift, s)
  BY DEF KbdInv, s
<1>9. wire' \in Seq(WireByte) /\ Reads(wire', shift', t)
  BY <1>1, <1>3, <1>6, <1>7, <1>8, Sent
<1>10. UNCHANGED <<shift, c, meant, rebooted>>
  BY <1>6 DEF Sends
<1>11. IsFiniteSet(held') /\ held' = held \ {k} /\ Cardinality(held') <= MaxHeld
  <2>1. held' = held \ {k} /\ IsFiniteSet(held) /\ k \in held
        /\ Cardinality(held) <= MaxHeld
    BY DEF KbdInv, KbdTypeOK, Release
  <2>2. /\ IsFiniteSet(held \ {k})
        /\ Cardinality(held \ {k}) = Cardinality(held) - 1
    BY <2>1, FS_RemoveElement
  <2> QED BY <2>1, <2>2, FS_CardinalityType, KeyboardAssumption
<1>12. repeats' \in Keys \cup {NO}
  BY DEF KbdInv, KbdTypeOK, Release
<1>13. KbdTypeOK'
  BY <1>1, <1>2, <1>9, <1>10, <1>11, <1>12 DEF KbdInv, KbdTypeOK, WireByte
<1>14. \A f \in mods' : \E j \in held' : Side(j) = {f}
  <2>1. SUFFICES ASSUME NEW f \in mods'
                 PROVE  \E j \in held' : Side(j) = {f}
    OBVIOUS
  <2>2. PICK j \in held : Side(j) = {f}
    BY <1>1 DEF KbdInv
  <2>3. j # k
    BY <1>1, <2>2
  <2> QED BY <1>11, <2>2, <2>3
<1> QED BY <1>9, <1>10, <1>11, <1>13, <1>14 DEF KbdInv, DecodedAsMeant, t

LEMMA ReadKeepsInv ==
  ASSUME KbdInv, kbd_proc_data
  PROVE  KbdInv'
<1> DEFINE data == Head(wire).byte
           t == Locked(mods, caps)
<1>1. wire \in Seq(WireByte) /\ wire # <<>> /\ Reads(wire, shift, t)
  BY DEF KbdInv, KbdTypeOK, WireByte, kbd_proc_data
<1>2. /\ Reads(Tail(wire), After(shift, data), t)
      /\ Char(shift, data) = Head(wire).meant
      /\ After(shift, data) \in SUBSET Flags
  BY <1>1, ReadsHead
<1>3. shift' = After(shift, data) /\ c' = Char(shift, data)
  BY <1>1, OneRead
<1>4. /\ UNCHANGED <<held, repeats, mods, caps>> /\ wire' = Tail(wire)
      /\ meant' = Head(wire).meant
  BY DEF kbd_proc_data, keyboard
<1>5. wire' \in Seq(WireByte) /\ meant' \in Meanings
  <2>1. Head(wire) \in WireByte /\ Tail(wire) \in Seq(WireByte)
    BY <1>1, HeadTailProperties
  <2> QED BY <1>4, <2>1 DEF WireByte
<1>6. rebooted' \in BOOLEAN
  BY DEF kbd_proc_data, Prefix, KeyUp, KeyDown, KbdInv, KbdTypeOK
<1>7. KbdTypeOK'
  BY <1>2, <1>3, <1>4, <1>5, <1>6 DEF KbdInv, KbdTypeOK, WireByte
<1>8. DecodedAsMeant'
  BY <1>2, <1>3, <1>4 DEF DecodedAsMeant
<1>9. Reads(wire', shift', Locked(mods', caps'))
  BY <1>2, <1>3, <1>4
<1> QED BY <1>4, <1>7, <1>8, <1>9 DEF KbdInv

LEMMA KbdKeepsInv ==
  ASSUME KbdInv, [KbdNext]_kbdvars
  PROVE  KbdInv'
<1>1. CASE UNCHANGED kbdvars
  BY <1>1 DEF KbdInv, KbdTypeOK, DecodedAsMeant, kbdvars, keyboard
<1> QED BY <1>1, PressKeepsInv, ReleaseKeepsInv, ReadKeepsInv DEF KbdNext

LEMMA KbdInvAlways == KbdSpec => []KbdInv
BY KbdInitInv, KbdKeepsInv, PTL DEF KbdSpec

(* kern/console.c, kbd_proc_data: however long a stroke waits in the       *)
(* controller, the character the code makes of it is what the user meant   *)
(* when it was made.                                                       *)
THEOREM DecodedCorrect == KbdSpec => []DecodedAsMeant
<1>1. KbdInv => DecodedAsMeant
  BY DEF KbdInv
<1> QED BY <1>1, KbdInvAlways, PTL

(* kern/console.c, kbd_proc_data: when everything typed has been read, no  *)
(* modifier is on without a key of its own being down, no prefix is        *)
(* pending and the lock has the parity of its strokes.                     *)
THEOREM StuckNever == KbdSpec => []NothingStuck
<1>1. ASSUME KbdInv
      PROVE  NothingStuck
  <2>1. mods \in SUBSET Modifiers /\ caps \in BOOLEAN
    BY <1>1 DEF KbdInv, KbdTypeOK
  <2>2. CASE wire = <<>>
    <3>1. shift = Locked(mods, caps)
      BY <1>1, <2>2, ReadsNothing DEF KbdInv
    <3>2. \A f \in shift \cap Modifiers : \E k \in held : Side(k) = {f}
      BY <1>1, <2>1, <3>1, LockedFlags DEF KbdInv
    <3> QED BY <1>1, <2>1, <3>1, <3>2, LockedFlags DEF KbdInv, NothingStuck
  <2> QED BY <1>1, <2>2 DEF KbdInv, NothingStuck
<1> QED BY <1>1, KbdInvAlways, PTL
=============================================================================
