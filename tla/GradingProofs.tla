--------------------------- MODULE GradingProofs ---------------------------
(***************************************************************************)
(* Theorems about Grading, the grading of lab 2: what run_qemu does with   *)
(* the pipe, the GDB socket and the port in every run, whose output a test *)
(* is judged by, and what the score adds up to.                            *)
(***************************************************************************)
EXTENDS Grading, FiniteSetTheorems, SequenceTheorems, TLAPS

(* The T05 of the breakpoint is on its way: x is still to come from the    *)
(* socket after g, and the answer to the script's own packet before it.    *)
StopComing(g, x) ==
  \/ /\ g = <<>> /\ Len(x) \in 2 .. 3
     /\ x[Len(x) - 1] = "T05_head" /\ x[Len(x)] = "T05_tail"
     /\ Len(x) = 3 => x[1] = "other"
  \/ g = <<"T05_head">> /\ Len(x) = 1 /\ x[1] = "T05_tail"

AnswerComing(g, x) ==
  /\ g = <<>> /\ Len(x) \in 0 .. 1
  /\ Len(x) = 1 => x[1] = "other"

NothingComing(g, x) == g = <<>> /\ Len(x) = 0

(* The stub answers once, and sends one stop packet when the guest stops.  *)
Packets ==
  /\ machine # "stopped" => AnswerComing(gbuf, inbox)
  /\ machine = "stopped" =>
       NothingComing(gbuf, inbox) \/ StopComing(gbuf, inbox)
  /\ pc \in {"new", "start", "monitors"} =>
       machine = "held" /\ NothingComing(gbuf, inbox)
  /\ pc = "run" /\ machine = "stopped" /\ gdb = "open" =>
       StopComing(gbuf, inbox)

(* Who holds what at each point of run_qemu.                               *)
Handles ==
  /\ pc = "new" => proc = "none"
  /\ at = "connect" => ready = {}
  /\ pc \in {"close", "reap"} => at = "top"
  /\ pc \in {"reap", "returned", "raised"} => gdb = "closed"
  /\ pc \notin {"new", "exited"} /\ ~child => proc = "dead"
  /\ pc \in {"returned", "raised"} => ~child
  /\ pc \notin {"new", "exited", "returned", "raised"} /\ ~child => pipe = <<>>

(* A run that ends without a timeout or an exception has drained the pipe. *)
Drained ==
  /\ pc = "returned" => ~raising
  /\ ~timedOut /\ ~raising =>
       /\ pc \in {"kill", "shutdown"} =>
            \/ gdb # "open"
            \/ machine = "stopped" /\ NothingComing(gbuf, inbox)
       /\ pc \in {"close", "reap", "returned"} => pipe = <<>> /\ proc = "dead"

RunInv == TypeOK /\ ReadsOpenReactors /\ Packets /\ Handles /\ Drained

(* What the client reads, data, and what it leaves on the socket, rest.    *)
LEMMA PacketRead ==
  ASSUME TypeOK, NEW k \in 1 .. Len(inbox),
         NEW data, data = gbuf \o SubSeq(inbox, 1, k),
         NEW rest, rest = SubSeq(inbox, k + 1, Len(inbox))
  PROVE  /\ rest \in Seq(Parts) /\ Len(rest) \in Nat
         /\ Cut(data) \in {<<>>, <<"T05_head">>}
         /\ AnswerComing(gbuf, inbox) =>
              ~HasStop(data) /\ NothingComing(Cut(data), rest)
         /\ StopComing(gbuf, inbox) =>
              IF HasStop(data) THEN NothingComing(Cut(data), rest)
              ELSE StopComing(Cut(data), rest)
<1> DEFINE g == Len(gbuf)  n == Len(inbox)
<1>1. /\ gbuf \in Seq(Parts) /\ inbox \in Seq(Parts)
      /\ n \in Nat /\ k \in Int /\ 1 \in Int /\ k + 1 \in Int /\ n \in Int
      /\ 1 <= k /\ k <= n
      /\ \/ gbuf = <<>> /\ g = 0
         \/ gbuf # <<>> /\ g = 1 /\ gbuf[1] = "T05_head"
  <2>1. gbuf = <<>> \/ gbuf = <<"T05_head">>
    BY DEF TypeOK
  <2>2. inbox \in Seq(Parts) /\ n \in Nat /\ "T05_head" \in Parts
    BY DEF TypeOK, Parts
  <2>3. CASE gbuf = <<>>
    BY <2>2, <2>3
  <2>4. CASE gbuf = <<"T05_head">>
    BY <2>2, <2>4
  <2> QED BY <2>1, <2>3, <2>4
<1>2. /\ SubSeq(inbox, 1, k) \in Seq(Parts)
      /\ Len(SubSeq(inbox, 1, k)) = k
      /\ \A j \in 1 .. k : SubSeq(inbox, 1, k)[j] = inbox[j]
  <2>1. \A j \in 1 .. k : inbox[j] \in Parts
    BY <1>1, ElementOfSeq
  <2> QED BY <1>1, <2>1, SubSeqProperties
<1>3. /\ rest \in Seq(Parts)
      /\ Len(rest) = n - k
      /\ \A j \in 1 .. n - k : rest[j] = inbox[k + j]
  <2>1. \A j \in k + 1 .. n : inbox[j] \in Parts
    BY <1>1, ElementOfSeq
  <2> QED BY <1>1, <2>1, SubSeqProperties
<1>4. /\ data \in Seq(Parts)
      /\ Len(data) = g + k
      /\ \A j \in 1 .. g + k : data[j] = IF j <= g THEN gbuf[j] ELSE inbox[j - g]
  BY <1>1, <1>2, ConcatProperties
<1>5. Cut(data) = IF data[g + k] = "T05_head" THEN <<"T05_head">> ELSE <<>>
  <2>1. data \in Seq(Parts) /\ Len(data) = g + k /\ Len(data) # 0
    BY <1>1, <1>4
  <2>2. data # <<>>
    BY <2>1, EmptySeq
  <2> QED BY <2>1, <2>2 DEF Cut
<1> HIDE DEF g, n
<1>6. HasStop(data) <=>
        \E j \in 2 .. g + k : data[j - 1] = "T05_head" /\ data[j] = "T05_tail"
  BY <1>4 DEF HasStop
<1>7. ASSUME AnswerComing(gbuf, inbox)
      PROVE  ~HasStop(data) /\ NothingComing(Cut(data), rest)
  <2>0. g = 0 /\ n \in 0 .. 1 /\ (n = 1 => inbox[1] = "other")
    BY <1>1, <1>7 DEF AnswerComing, n
  <2>1. n = 1 /\ k = 1 /\ inbox[1] = "other" /\ g = 0
    BY <1>1, <2>0
  <2>2. data[1] = "other" /\ Len(rest) = 0
    BY <1>3, <1>4, <2>1
  <2> QED BY <1>5, <1>6, <2>1, <2>2 DEF NothingComing
<1>8. ASSUME StopComing(gbuf, inbox)
      PROVE  IF HasStop(data) THEN NothingComing(Cut(data), rest)
             ELSE StopComing(Cut(data), rest)
  <2>1. CASE g = 1
    <3>0. gbuf # <<>> /\ gbuf[1] = "T05_head"
      BY <1>1, <2>1
    <3>1. n = 1 /\ k = 1 /\ inbox[1] = "T05_tail" /\ gbuf[1] = "T05_head"
      <4>1. n = 1 /\ inbox[1] = "T05_tail"
        BY <1>8, <3>0 DEF StopComing, n
      <4> QED BY <1>1, <3>0, <4>1
    <3>2. data[1] = "T05_head" /\ data[2] = "T05_tail" /\ Len(rest) = 0
      BY <1>3, <1>4, <2>1, <3>1
    <3> QED BY <1>5, <1>6, <2>1, <3>1, <3>2 DEF NothingComing
  <2>2. CASE g = 0
    <3>1. /\ n \in 2 .. 3
          /\ inbox[n - 1] = "T05_head" /\ inbox[n] = "T05_tail"
          /\ n = 3 => inbox[1] = "other"
      <4>1. gbuf = <<>>
        BY <1>1, <2>2
      <4>2. gbuf # <<"T05_head">>
        BY <4>1
      <4> QED BY <1>8, <4>2 DEF StopComing, n
    <3>2. \A j \in 1 .. k : data[j] = inbox[j]
      BY <1>1, <1>4, <2>2
    <3>3. CASE k = n
      <4>0. n \in 2 .. 3 /\ n - 1 \in 1 .. k /\ n \in 1 .. k /\ n - k = 0
        BY <3>1, <3>3
      <4>1. data[n - 1] = "T05_head" /\ data[n] = "T05_tail" /\ Len(rest) = 0
        BY <1>3, <3>1, <3>2, <4>0
      <4>2. n \in 2 .. g + k /\ g + k = n
        BY <2>2, <3>1, <3>3
      <4>3. HasStop(data)
        BY <1>6, <4>1, <4>2
      <4>4. Cut(data) = <<>>
        BY <1>5, <4>1, <4>2
      <4> QED BY <4>1, <4>3, <4>4 DEF NothingComing
    <3>4. CASE k = n - 1
      <4>1. data[k] = "T05_head" /\ Len(rest) = 1 /\ rest[1] = "T05_tail"
        BY <1>3, <3>1, <3>2, <3>4
      <4>2. \A j \in 1 .. k : data[j] # "T05_tail"
        BY <3>1, <3>2, <3>4
      <4>3. ~HasStop(data)
        BY <1>6, <2>2, <3>1, <3>4, <4>2
      <4> QED BY <1>5, <2>2, <3>1, <3>4, <4>1, <4>3 DEF StopComing
    <3>5. CASE k = 1 /\ n = 3
      <4>1. /\ data[1] = "other" /\ Len(rest) = 2
            /\ rest[1] = "T05_head" /\ rest[2] = "T05_tail"
        BY <1>3, <3>1, <3>2, <3>5
      <4>2. ~HasStop(data)
        BY <1>6, <2>2, <3>5
      <4>3. Cut(data) = <<>>
        BY <1>5, <2>2, <3>5, <4>1
      <4>4. Len(rest) \in 2 .. 3 /\ Len(rest) # 3 /\ Len(rest) - 1 = 1
        <5>1. Len(rest) = 2
          BY <4>1
        <5> QED BY <5>1
      <4>5. /\ rest[Len(rest) - 1] = "T05_head"
            /\ rest[Len(rest)] = "T05_tail"
        BY <4>1, <4>4, Zenon
      <4> QED BY <4>2, <4>3, <4>4, <4>5, Zenon DEF StopComing
    <3> QED BY <1>1, <3>1, <3>3, <3>4, <3>5
  <2> QED BY <1>1, <2>1, <2>2
<1> QED BY <1>1, <1>3, <1>5, <1>7, <1>8

(* The child and the clock.                                                *)

LEMMA RunChild ==
  ASSUME RunInv, Child
  PROVE  RunInv'
<1> USE DEF RunInv
<1>1. CASE Prints
  <2>1. /\ proc = "up" /\ UNCHANGED <<proc, port, inbox, machine>>
        /\ UNCHANGED <<killed, child, gdb, gbuf, pc, at, ready, expired>>
        /\ UNCHANGED <<timedOut, raising>>
        /\ pipe' # <<>> /\ pipe' \in Seq(Chunks) /\ Len(pipe') <= PipeSize
        /\ pipe \in Seq(Chunks)
    BY <1>1, RunnerAssumption
    DEF Prints, client, react, outcome, TypeOK
  <2>2. TypeOK'
    BY <2>1 DEF TypeOK
  <2>3. ReadsOpenReactors'
    BY <2>1 DEF ReadsOpenReactors, Readable
  <2>4. Packets'
    BY <2>1 DEF Packets
  <2>5. Handles'
    BY <2>1 DEF Handles
  <2>6. Drained'
    BY <2>1 DEF Drained
  <2> QED BY <2>2, <2>3, <2>4, <2>5, <2>6
<1>2. CASE OpensPort
  <2>1. /\ proc = "up" /\ port' \in BOOLEAN
        /\ UNCHANGED <<proc, pipe, inbox, machine, killed, child, gdb, gbuf>>
        /\ UNCHANGED <<pc, at, ready, expired, timedOut, raising>>
    BY <1>2 DEF OpensPort, client, react, outcome
  <2> QED BY <2>1
      DEF TypeOK, ReadsOpenReactors, Readable, Packets, Handles, Drained
<1>3. CASE HitsBreakpoint
  <2>1. /\ proc = "up" /\ machine = "running" /\ machine' = "stopped"
        /\ inbox' = inbox \o <<"T05_head", "T05_tail">>
        /\ UNCHANGED <<proc, port, pipe, killed, child, gdb, gbuf>>
        /\ UNCHANGED <<pc, at, ready, expired, timedOut, raising>>
    BY <1>3 DEF HitsBreakpoint, client, react, outcome
  <2>2. /\ AnswerComing(gbuf, inbox) /\ pc \notin {"new", "start", "monitors"}
        /\ inbox \in Seq(Parts)
    BY <2>1 DEF Packets, TypeOK
  <2>3. inbox' \in Seq(Parts) /\ inbox' # <<>> /\ StopComing(gbuf, inbox')
    <3> DEFINE stop == <<"T05_head", "T05_tail">>
    <3>1. /\ stop \in Seq(Parts) /\ Len(stop) = 2
          /\ stop[1] = "T05_head" /\ stop[2] = "T05_tail"
      BY DEF Parts
    <3>2. inbox' = inbox \o stop
      BY <2>1
    <3> HIDE DEF stop
    <3>0. inbox \in Seq(Parts) /\ stop \in Seq(Parts) /\ Len(stop) = 2
      BY <2>2, <3>1
    <3>3. /\ inbox' \in Seq(Parts) /\ Len(inbox') = Len(inbox) + 2
          /\ \A j \in 1 .. Len(inbox) + 2 : inbox'[j] =
               IF j <= Len(inbox) THEN inbox[j] ELSE stop[j - Len(inbox)]
      <4>1. /\ inbox \o stop \in Seq(Parts)
            /\ Len(inbox \o stop) = Len(inbox) + Len(stop)
            /\ \A j \in 1 .. Len(inbox) + Len(stop) : (inbox \o stop)[j] =
                 IF j <= Len(inbox) THEN inbox[j] ELSE stop[j - Len(inbox)]
        BY <3>0, ConcatProperties
      <4> QED BY <3>0, <3>2, <4>1
    <3>4. /\ gbuf = <<>> /\ Len(inbox) \in 0 .. 1
          /\ Len(inbox) = 1 => inbox[1] = "other"
      BY <2>2 DEF AnswerComing
    <3>5. CASE Len(inbox) = 0
      <4>1. Len(inbox') = 2 /\ inbox'[1] = "T05_head" /\ inbox'[2] = "T05_tail"
        BY <3>1, <3>3, <3>5
      <4> QED BY <3>3, <3>4, <4>1 DEF StopComing
    <3>6. CASE Len(inbox) = 1
      <4>1. /\ Len(inbox') = 3 /\ inbox'[1] = "other"
            /\ inbox'[2] = "T05_head" /\ inbox'[3] = "T05_tail"
        BY <3>1, <3>3, <3>4, <3>6
      <4>2. Len(inbox') \in 2 .. 3 /\ Len(inbox') - 1 = 2 /\ gbuf = <<>>
        BY <3>4, <4>1
      <4>3. inbox'[Len(inbox') - 1] = "T05_head" /\ inbox'[Len(inbox')] = "T05_tail"
        BY <4>1, <4>2, Zenon
      <4> QED BY <3>3, <4>1, <4>2, <4>3 DEF StopComing
    <3> QED BY <3>4, <3>5, <3>6
  <2>4. TypeOK'
    BY <2>1, <2>3 DEF TypeOK
  <2>5. ReadsOpenReactors'
    BY <2>1, <2>3 DEF ReadsOpenReactors, Readable
  <2>6. Packets'
    BY <2>1, <2>2, <2>3 DEF Packets
  <2>7. Handles'
    <3>1. UNCHANGED <<proc, pipe, child, gdb, pc, at, ready>>
      BY <2>1
    <3> QED BY <3>1 DEF Handles
  <2>8. Drained'
    <3>1. /\ machine # "stopped" /\ proc' = proc /\ pipe' = pipe /\ gdb' = gdb
          /\ pc' = pc /\ timedOut' = timedOut /\ raising' = raising
      BY <2>1
    <3> QED BY <3>1, Zenon DEF Drained
  <2> QED BY <2>4, <2>5, <2>6, <2>7, <2>8
<1>4. CASE Dies
  <2>1. /\ proc = "up" /\ proc' = "dead" /\ port' \in BOOLEAN
        /\ UNCHANGED <<pipe, inbox, machine, killed, child, gdb, gbuf>>
        /\ UNCHANGED <<pc, at, ready, expired, timedOut, raising>>
    BY <1>4 DEF Dies, client, react, outcome
  <2>2. TypeOK'
    BY <2>1 DEF TypeOK
  <2>3. ReadsOpenReactors'
    BY <2>1 DEF ReadsOpenReactors, Readable
  <2>4. Packets'
    BY <2>1 DEF Packets
  <2>5. Handles' /\ Drained'
    BY <2>1 DEF Handles, Drained
  <2> QED BY <2>2, <2>3, <2>4, <2>5
<1> QED BY <1>1, <1>2, <1>3, <1>4 DEF Child

LEMMA RunExpires ==
  ASSUME RunInv, Expires
  PROVE  RunInv'
<1>1. /\ expired' = TRUE /\ UNCHANGED <<proc, port, pipe, inbox, machine>>
      /\ UNCHANGED <<killed, child, gdb, gbuf, pc, at, ready, timedOut, raising>>
  BY DEF Expires, guest, client, outcome
<1> QED BY <1>1
    DEF RunInv, TypeOK, ReadsOpenReactors, Readable, Packets, Handles, Drained

-----------------------------------------------------------------------------
(* The reaction.                                                           *)

(* Leaving __react, whatever the reason.                                   *)
LEMMA ReactLeft ==
  ASSUME RunInv, pc \in ReactPhases, LeaveReact,
         proc' = proc, port' = port, pipe' = pipe, machine' = machine,
         killed' = killed, child' = child, raising' = raising,
         inbox' \in Seq(Parts), gbuf' \in {<<>>, <<"T05_head">>},
         gdb' \in {"none", "open", "closed"}, timedOut' \in BOOLEAN,
         machine # "stopped" => AnswerComing(gbuf', inbox'),
         machine = "stopped" =>
           NothingComing(gbuf', inbox') \/ StopComing(gbuf', inbox'),
         pc = "start" => NothingComing(gbuf', inbox'),
         pc = "run" /\ ~timedOut' /\ ~raising =>
           \/ gdb' # "open"
           \/ machine = "stopped" /\ NothingComing(gbuf', inbox'),
         pc = "shutdown" /\ ~timedOut' /\ ~raising =>
           pipe = <<>> /\ proc = "dead"
  PROVE  RunInv'
<1>1. /\ at' = "top" /\ ready' = {} /\ expired' = expired
      /\ pc = "start" => pc' \in {"exited", "monitors"}
      /\ pc = "run" => pc' = "kill"
      /\ pc = "shutdown" => pc' = "close"
      /\ pc \in {"start", "run", "shutdown"}
  BY DEF LeaveReact, After, ReactPhases
<1>2. pc' \in {"exited", "monitors", "kill", "close"}
      /\ (pc' = "kill" => pc = "run") /\ (pc' = "close" => pc = "shutdown")
      /\ (pc' = "monitors" => pc = "start")
  BY <1>1
<1>3. TypeOK'
  BY <1>1, <1>2 DEF RunInv, TypeOK, ReactPhases, Finals
<1>4. ReadsOpenReactors'
  BY <1>1 DEF ReadsOpenReactors
<1>5. Packets'
  BY <1>1, <1>2 DEF RunInv, Packets
<1>6. Handles'
  BY <1>1, <1>2 DEF RunInv, Handles
<1>7. Drained'
  BY <1>1, <1>2 DEF RunInv, Drained
<1> QED BY <1>3, <1>4, <1>5, <1>6, <1>7 DEF RunInv

(* The packets that are on their way stay as they are.                     *)
LEMMA PacketsStay ==
  ASSUME RunInv, inbox' = inbox, gbuf' = gbuf
  PROVE  /\ inbox' \in Seq(Parts) /\ gbuf' \in {<<>>, <<"T05_head">>}
         /\ machine # "stopped" => AnswerComing(gbuf', inbox')
         /\ machine = "stopped" =>
              NothingComing(gbuf', inbox') \/ StopComing(gbuf', inbox')
         /\ pc = "start" => NothingComing(gbuf', inbox')
BY DEF RunInv, TypeOK, Packets

LEMMA RunReactTop ==
  ASSUME RunInv, ReactTop
  PROVE  RunInv'
<1>1. /\ proc' = proc /\ port' = port /\ pipe' = pipe /\ machine' = machine
      /\ killed' = killed /\ child' = child /\ raising' = raising
      /\ inbox' = inbox /\ gbuf' = gbuf /\ gdb' = gdb
      /\ pc \in ReactPhases /\ at = "top"
  BY DEF ReactTop, guest, client, LeaveReact
<1>2. gdb' \in {"none", "open", "closed"}
  BY <1>1 DEF RunInv, TypeOK
<1>3. CASE timedOut' = TRUE /\ LeaveReact
  BY <1>1, <1>2, <1>3, PacketsStay, ReactLeft
<1>4. CASE OpenReactors = {} /\ timedOut' = timedOut /\ LeaveReact
  <2>1. /\ ~child
        /\ pc # "start" => gdb # "open"
    BY <1>4, <1>1 DEF OpenReactors, Reactors
  <2>2. pipe = <<>> /\ proc = "dead"
    BY <1>1, <2>1 DEF RunInv, Handles, ReactPhases
  <2>3. timedOut' \in BOOLEAN
    BY <1>4 DEF RunInv, TypeOK
  <2> QED BY <1>1, <1>2, <1>4, <2>1, <2>2, <2>3, PacketsStay, ReactLeft
<1>5. CASE /\ at' = "select" /\ pc' = pc /\ ready' = ready
           /\ expired' = expired /\ timedOut' = timedOut
  <2>1. pc \notin {"close", "reap", "new", "returned", "raised"}
    BY <1>1 DEF ReactPhases
  <2>2. TypeOK'
    BY <1>1, <1>5 DEF RunInv, TypeOK
  <2>3. ReadsOpenReactors' /\ Handles'
    BY <1>1, <1>5, <2>1 DEF RunInv, ReadsOpenReactors, Handles
  <2>4. Packets' /\ Drained'
    BY <1>1, <1>5 DEF RunInv, Packets, Drained
  <2> QED BY <2>2, <2>3, <2>4 DEF RunInv
<1> QED BY <1>3, <1>4, <1>5 DEF ReactTop

(* Staying in __react.                                                     *)
LEMMA ReactStays ==
  ASSUME RunInv, pc \in ReactPhases, pc' = pc,
         proc' = proc, port' = port, machine' = machine, killed' = killed,
         timedOut' = timedOut, raising' = raising, expired' = expired,
         at' \in {"top", "select", "handle", "connect"},
         ready' \subseteq {"qemu", "gdb"}, at' = "connect" => ready' = {},
         ReadsOpenReactors',
         pipe' \in Seq(Chunks), Len(pipe') <= PipeSize,
         child' \in BOOLEAN, ~child' => proc = "dead" /\ pipe' = <<>>,
         gdb' \in {"none", "open", "closed"}, gdb' = "open" => gdb = "open",
         inbox' \in Seq(Parts), gbuf' \in {<<>>, <<"T05_head">>},
         machine # "stopped" => AnswerComing(gbuf', inbox'),
         NothingComing(gbuf, inbox) => NothingComing(gbuf', inbox'),
         StopComing(gbuf, inbox) => StopComing(gbuf', inbox')
  PROVE  RunInv'
<1>1. TypeOK'
  BY DEF RunInv, TypeOK
<1>2. Packets'
  BY DEF RunInv, Packets
<1>3. Handles'
  BY DEF RunInv, Handles, ReactPhases
<1>4. Drained'
  BY DEF RunInv, Drained, ReactPhases
<1> QED BY <1>1, <1>2, <1>3, <1>4 DEF RunInv

LEMMA RunSelect ==
  ASSUME RunInv, Select \/ AllHandled \/ ConnectFails
  PROVE  RunInv'
<1>1. /\ proc' = proc /\ port' = port /\ machine' = machine
      /\ killed' = killed /\ pipe' = pipe /\ child' = child /\ gdb' = gdb
      /\ timedOut' = timedOut /\ raising' = raising /\ expired' = expired
      /\ inbox' = inbox /\ gbuf' = gbuf /\ pc \in ReactPhases /\ pc' = pc
  BY DEF Select, AllHandled, ConnectFails, guest, client, outcome, ReactPhases
<1>2. /\ at' \in {"top", "handle"}
      /\ ready' \subseteq {"qemu", "gdb"}
      /\ ReadsOpenReactors'
  <2>1. CASE Select
    <3>1. /\ at' = "handle"
          /\ \A x \in ready' :
               /\ x \in {"qemu", "gdb"} /\ Readable(x)
               /\ x = "qemu" => child
               /\ x = "gdb" => gdb = "open"
      BY <2>1 DEF Select, OpenReactors, Reactors
    <3>2. ready' \subseteq {"qemu", "gdb"}
      BY <3>1
    <3>3. /\ "qemu" \in ready' => child' /\ Readable("qemu")'
          /\ "gdb" \in ready' => gdb' = "open" /\ Readable("gdb")'
      BY <1>1, <3>1 DEF Readable
    <3> QED BY <3>1, <3>2, <3>3 DEF ReadsOpenReactors
  <2>2. CASE AllHandled \/ ConnectFails
    <3>1. at' \in {"top", "handle"} /\ ready' = {}
      BY <2>2 DEF AllHandled, ConnectFails, RunInv, Handles
    <3> QED BY <3>1 DEF ReadsOpenReactors
  <2> QED BY <2>1, <2>2
<1>3. /\ pipe \in Seq(Chunks) /\ Len(pipe) <= PipeSize /\ child \in BOOLEAN
      /\ gdb \in {"none", "open", "closed"}
  BY DEF RunInv, TypeOK
<1>4. ~child' => proc = "dead" /\ pipe' = <<>>
  BY <1>1 DEF RunInv, Handles, ReactPhases
<1> QED BY <1>1, <1>2, <1>3, <1>4, PacketsStay, ReactStays

LEMMA RunQemuOutput ==
  ASSUME RunInv, QemuOutput
  PROVE  RunInv'
<1>1. /\ proc' = proc /\ port' = port /\ machine' = machine
      /\ killed' = killed /\ child' = child /\ gdb' = gdb
      /\ timedOut' = timedOut /\ raising' = raising /\ expired' = expired
      /\ inbox' = inbox /\ gbuf' = gbuf /\ pc \in ReactPhases /\ pc' = pc
      /\ at = "handle" /\ "qemu" \in ready
  BY DEF QemuOutput, client, outcome
<1>2. PICK k \in 1 .. Len(pipe) :
        /\ pipe' = SubSeq(pipe, k + 1, Len(pipe))
        /\ \/ at' = "connect" /\ ready' = {}
           \/ at' = at /\ ready' = ready \ {"qemu"}
  BY DEF QemuOutput
<1>3. /\ pipe \in Seq(Chunks) /\ Len(pipe) <= PipeSize /\ Len(pipe) \in Nat
      /\ ready \subseteq {"qemu", "gdb"}
      /\ gdb \in {"none", "open", "closed"} /\ child \in BOOLEAN
  BY DEF RunInv, TypeOK
<1>4. pipe' \in Seq(Chunks) /\ Len(pipe') <= PipeSize
  <2>1. \A j \in k + 1 .. Len(pipe) : pipe[j] \in Chunks
    BY <1>3, ElementOfSeq
  <2>2. /\ pipe' \in Seq(Chunks)
        /\ Len(pipe') = IF k + 1 <= Len(pipe) THEN Len(pipe) - (k + 1) + 1
                        ELSE 0
    BY <1>2, <1>3, <2>1, SubSeqProperties
  <2> QED BY <1>3, <2>2, RunnerAssumption
<1>5. child /\ ("gdb" \in ready => gdb = "open" /\ Readable("gdb"))
  BY <1>1 DEF RunInv, ReadsOpenReactors
<1>6. ReadsOpenReactors'
  BY <1>1, <1>2, <1>5 DEF ReadsOpenReactors, Readable
<1>7. /\ at' \in {"top", "select", "handle", "connect"}
      /\ ready' \subseteq {"qemu", "gdb"} /\ (at' = "connect" => ready' = {})
  BY <1>1, <1>2, <1>3
<1>8. child' \in BOOLEAN /\ child'
  BY <1>1, <1>3, <1>5
<1> QED BY <1>1, <1>3, <1>4, <1>6, <1>7, <1>8, PacketsStay, ReactStays

LEMMA RunQemuEnds ==
  ASSUME RunInv, QemuEnds
  PROVE  RunInv'
<1>1. /\ proc' = proc /\ port' = port /\ machine' = machine
      /\ killed' = killed /\ pipe' = pipe /\ inbox' = inbox
      /\ timedOut' = timedOut /\ raising' = raising
      /\ gdb' = gdb /\ gbuf' = gbuf /\ pc \in ReactPhases
      /\ at = "handle" /\ "qemu" \in ready /\ proc = "dead" /\ pipe = <<>>
  BY DEF QemuEnds, guest, client, outcome
<1>2. /\ pipe \in Seq(Chunks) /\ Len(pipe) <= PipeSize
      /\ ready \subseteq {"qemu", "gdb"} /\ timedOut \in BOOLEAN
      /\ gdb \in {"none", "open", "closed"} /\ child \in BOOLEAN
  BY DEF RunInv, TypeOK
<1>3. CASE pc = "start" /\ UNCHANGED client /\ LeaveReact
  <2>1. child' = child
    BY <1>3 DEF client
  <2> QED BY <1>1, <1>2, <1>3, <2>1, PacketsStay, ReactLeft
<1>4. CASE /\ child' = FALSE /\ ready' = ready \ {"qemu"}
           /\ pc' = pc /\ at' = at /\ expired' = expired
  <2>1. ReadsOpenReactors'
    BY <1>1, <1>4 DEF RunInv, ReadsOpenReactors, Readable
  <2> QED BY <1>1, <1>2, <1>4, <2>1, PacketsStay, ReactStays
<1> QED BY <1>3, <1>4 DEF QemuEnds

LEMMA RunConnects ==
  ASSUME RunInv, Connects
  PROVE  RunInv'
<1>1. /\ proc' = proc /\ port' = port /\ machine' = machine
      /\ killed' = killed /\ pipe' = pipe /\ inbox' = inbox
      /\ timedOut' = timedOut /\ raising' = raising
      /\ gdb' = "open" /\ gbuf' = gbuf /\ child' = child
      /\ pc = "start" /\ pc \in ReactPhases /\ LeaveReact
  BY DEF Connects, guest, outcome, ReactPhases
<1>2. timedOut' \in BOOLEAN
  BY <1>1 DEF RunInv, TypeOK
<1> QED BY <1>1, <1>2, PacketsStay, ReactLeft

LEMMA RunGdbPacket ==
  ASSUME RunInv, GdbPacket
  PROVE  RunInv'
<1>1. /\ proc' = proc /\ port' = port /\ machine' = machine
      /\ killed' = killed /\ child' = child /\ gdb' = gdb /\ pipe' = pipe
      /\ timedOut' = timedOut /\ raising' = raising
      /\ pc \in ReactPhases /\ at = "handle" /\ "gdb" \in ready
      /\ "qemu" \notin ready
  BY DEF GdbPacket, outcome
<1>2. PICK k \in 1 .. Len(inbox) :
        LET data == gbuf \o SubSeq(inbox, 1, k) IN
        /\ inbox' = SubSeq(inbox, k + 1, Len(inbox))
        /\ gbuf' = Cut(data)
        /\ \/ HasStop(data) /\ LeaveReact
           \/ /\ ~HasStop(data)
              /\ ready' = ready \ {"gdb"} /\ pc' = pc /\ at' = at
              /\ expired' = expired
  BY DEF GdbPacket
<1> DEFINE data == gbuf \o SubSeq(inbox, 1, k)
<1>3. /\ inbox' \in Seq(Parts) /\ gbuf' \in {<<>>, <<"T05_head">>}
      /\ AnswerComing(gbuf, inbox) =>
           ~HasStop(data) /\ NothingComing(gbuf', inbox')
      /\ StopComing(gbuf, inbox) =>
           IF HasStop(data) THEN NothingComing(gbuf', inbox')
           ELSE StopComing(gbuf', inbox')
  BY <1>2, PacketRead DEF RunInv
<1>4. gdb = "open" /\ Len(inbox) # 0
  <2>1. gdb = "open"
    BY <1>1 DEF RunInv, ReadsOpenReactors
  <2>2. inbox \in Seq(Parts) /\ k \in 1 .. Len(inbox)
    BY DEF RunInv, TypeOK
  <2>3. Len(inbox) \in Nat
    BY <2>2
  <2> QED BY <2>1, <2>2, <2>3
<1>5. ~NothingComing(gbuf, inbox) /\ pc # "start"
  BY <1>4 DEF NothingComing, RunInv, Packets
<1>6. /\ pipe \in Seq(Chunks) /\ Len(pipe) <= PipeSize
      /\ ready \subseteq {"qemu", "gdb"} /\ timedOut \in BOOLEAN
      /\ gdb \in {"none", "open", "closed"} /\ child \in BOOLEAN
  BY DEF RunInv, TypeOK
<1>7. /\ machine # "stopped" => AnswerComing(gbuf, inbox)
      /\ machine = "stopped" => StopComing(gbuf, inbox)
  BY <1>5 DEF RunInv, Packets
<1>8. NothingComing(gbuf', inbox') => AnswerComing(gbuf', inbox')
  BY DEF NothingComing, AnswerComing
<1>9. ~child => proc = "dead" /\ pipe = <<>>
  BY <1>1 DEF RunInv, Handles, ReactPhases
<1>10. CASE HasStop(data) /\ LeaveReact
  <2>1. machine = "stopped" /\ NothingComing(gbuf', inbox')
    BY <1>3, <1>7, <1>10
  <2>2. pc = "shutdown" => timedOut \/ raising
    BY <1>4, <1>5 DEF RunInv, Drained
  <2> HIDE DEF data
  <2> QED BY <1>1, <1>3, <1>5, <1>6, <1>10, <2>1, <2>2, ReactLeft
<1>11. CASE /\ ~HasStop(data)
            /\ ready' = ready \ {"gdb"} /\ pc' = pc /\ at' = at
            /\ expired' = expired
  <2>1. /\ machine # "stopped" => AnswerComing(gbuf', inbox')
        /\ StopComing(gbuf, inbox) => StopComing(gbuf', inbox')
    BY <1>3, <1>7, <1>8, <1>11
  <2> HIDE DEF data
  <2>2. ready' = {}
    BY <1>1, <1>6, <1>11
  <2>3. ReadsOpenReactors'
    BY <2>2 DEF ReadsOpenReactors
  <2>4. at' \in {"top", "select", "handle", "connect"}
    BY <1>1, <1>11
  <2> QED
    BY <1>1, <1>3, <1>5, <1>6, <1>9, <1>11, <2>1, <2>2, <2>3, <2>4, ReactStays
<1> QED BY <1>2, <1>10, <1>11

LEMMA RunGdbEnds ==
  ASSUME RunInv, GdbEnds
  PROVE  RunInv'
<1>1. /\ proc' = proc /\ port' = port /\ machine' = machine
      /\ killed' = killed /\ child' = child /\ gdb' = "closed" /\ pipe' = pipe
      /\ timedOut' = timedOut /\ raising' = raising /\ expired' = expired
      /\ pc \in ReactPhases /\ pc' = pc /\ at = "handle" /\ at' = at
      /\ ready' = ready \ {"gdb"} /\ "qemu" \notin ready
      /\ inbox' = inbox /\ gbuf' = gbuf
  BY DEF GdbEnds, guest, outcome
<1>2. /\ pipe \in Seq(Chunks) /\ Len(pipe) <= PipeSize
      /\ ready \subseteq {"qemu", "gdb"} /\ child \in BOOLEAN
  BY DEF RunInv, TypeOK
<1>3. ready' = {}
  BY <1>1, <1>2
<1>4. ReadsOpenReactors'
  BY <1>3 DEF ReadsOpenReactors
<1>5. ~child' => proc = "dead" /\ pipe' = <<>>
  BY <1>1 DEF RunInv, Handles, ReactPhases
<1> QED BY <1>1, <1>2, <1>3, <1>4, <1>5, PacketsStay, ReactStays

-----------------------------------------------------------------------------
(* The rest of run_qemu.                                                   *)

LEMMA RunRest ==
  ASSUME RunInv,
         \/ AlreadyRunning \/ StartsQEMU \/ StartsMonitoring \/ MonitorFails
         \/ Kill \/ ClosesGdb \/ Reaps
  PROVE  RunInv'
<1> USE DEF RunInv
<1>1. CASE AlreadyRunning
  <2>1. /\ pc = "new" /\ pc' = "exited"
        /\ UNCHANGED <<proc, port, pipe, inbox, machine, killed, child, gdb>>
        /\ UNCHANGED <<gbuf, at, ready, expired, timedOut, raising>>
    BY <1>1 DEF AlreadyRunning, guest, client, outcome
  <2>2. TypeOK'
    BY <2>1 DEF TypeOK, Finals
  <2>3. ReadsOpenReactors'
    BY <2>1 DEF ReadsOpenReactors, Readable
  <2>4. Packets' /\ Handles' /\ Drained'
    BY <2>1 DEF Packets, Handles, Drained
  <2> QED BY <2>2, <2>3, <2>4
<1>2. CASE StartsQEMU
  <2>1. /\ pc = "new" /\ pc' = "start" /\ at' = "top" /\ ready' = {}
        /\ expired' \in BOOLEAN
        /\ proc' = "up" /\ child' \in BOOLEAN /\ child'
        /\ UNCHANGED <<port, pipe, inbox, machine, killed, gdb, gbuf>>
        /\ UNCHANGED <<timedOut, raising>>
    BY <1>2 DEF StartsQEMU, EnterReact, outcome
  <2>2. TypeOK'
    BY <2>1 DEF TypeOK, ReactPhases
  <2>3. ReadsOpenReactors'
    BY <2>1 DEF ReadsOpenReactors
  <2>4. Packets' /\ Handles' /\ Drained'
    BY <2>1 DEF Packets, Handles, Drained
  <2> QED BY <2>2, <2>3, <2>4
<1>3. CASE StartsMonitoring
  <2>1. /\ pc = "monitors" /\ pc' = "run" /\ at' = "top" /\ ready' = {}
        /\ expired' \in BOOLEAN
        /\ UNCHANGED <<proc, port, pipe, killed, child, gdb, gbuf>>
        /\ UNCHANGED <<timedOut, raising>>
        /\ \/ machine' = "running" /\ inbox' = Append(inbox, "other")
           \/ machine' = machine /\ inbox' = inbox
    BY <1>3 DEF StartsMonitoring, EnterReact, client, outcome
  <2>2. machine = "held" /\ NothingComing(gbuf, inbox) /\ inbox \in Seq(Parts)
    BY <2>1 DEF Packets, TypeOK
  <2>3. /\ inbox' \in Seq(Parts) /\ machine' \in {"held", "running"}
        /\ AnswerComing(gbuf, inbox')
    <3>1. CASE machine' = "running" /\ inbox' = Append(inbox, "other")
      <4>1. "other" \in Parts /\ Len(inbox) = 0
        BY <2>2 DEF Parts, NothingComing
      <4>2. /\ inbox' \in Seq(Parts) /\ Len(inbox') = 1
            /\ inbox'[1] = "other"
        BY <2>2, <3>1, <4>1
      <4> QED BY <2>2, <3>1, <4>2 DEF NothingComing, AnswerComing
    <3>2. CASE machine' = machine /\ inbox' = inbox
      BY <2>2, <3>2 DEF NothingComing, AnswerComing
    <3> QED BY <2>1, <3>1, <3>2
  <2>4. TypeOK'
    BY <2>1, <2>3 DEF TypeOK, ReactPhases
  <2>5. ReadsOpenReactors'
    BY <2>1 DEF ReadsOpenReactors
  <2>6. Packets'
    BY <2>1, <2>3 DEF Packets
  <2>7. Handles' /\ Drained'
    BY <2>1 DEF Handles, Drained
  <2> QED BY <2>4, <2>5, <2>6, <2>7
<1>4. CASE MonitorFails
  <2>1. /\ pc = "monitors" /\ pc' = "kill" /\ raising' \in BOOLEAN /\ raising'
        /\ UNCHANGED <<proc, port, pipe, inbox, machine, killed, child, gdb>>
        /\ UNCHANGED <<gbuf, at, ready, expired, timedOut>>
    BY <1>4 DEF MonitorFails, guest, client
  <2>2. TypeOK'
    BY <2>1 DEF TypeOK
  <2>3. ReadsOpenReactors'
    BY <2>1 DEF ReadsOpenReactors, Readable
  <2>4. Packets' /\ Handles' /\ Drained'
    BY <2>1 DEF Packets, Handles, Drained
  <2> QED BY <2>2, <2>3, <2>4
<1>5. CASE Kill
  <2>1. /\ pc = "kill" /\ pc' = "shutdown" /\ at' = "top" /\ ready' = {}
        /\ expired' \in BOOLEAN /\ killed' = (killed \/ child)
        /\ UNCHANGED <<proc, port, pipe, inbox, machine, child, gdb, gbuf>>
        /\ UNCHANGED <<timedOut, raising>>
    BY <1>5 DEF Kill, EnterReact, guest, client, outcome
  <2>2. TypeOK'
    <3>1. killed' \in BOOLEAN
      BY <2>1
    <3> QED BY <2>1, <3>1 DEF TypeOK, ReactPhases
  <2>3. ReadsOpenReactors'
    BY <2>1 DEF ReadsOpenReactors
  <2>4. Packets' /\ Handles' /\ Drained'
    BY <2>1 DEF Packets, Handles, Drained
  <2> QED BY <2>2, <2>3, <2>4
<1>6. CASE ClosesGdb
  <2>1. /\ pc = "close" /\ pc' = "reap" /\ gdb' = "closed"
        /\ UNCHANGED <<proc, port, pipe, inbox, machine, killed, child, gbuf>>
        /\ UNCHANGED <<at, ready, expired, timedOut, raising>>
    BY <1>6 DEF ClosesGdb, guest, outcome
  <2>2. TypeOK'
    BY <2>1 DEF TypeOK
  <2>3. ReadsOpenReactors'
    BY <2>1 DEF ReadsOpenReactors, Handles
  <2>4. Packets' /\ Handles' /\ Drained'
    BY <2>1 DEF Packets, Handles, Drained
  <2> QED BY <2>2, <2>3, <2>4
<1>7. CASE Reaps
  <2>1. /\ pc = "reap" /\ (child => proc = "dead")
        /\ child' \in BOOLEAN /\ ~child'
        /\ pc' \in {"raised", "returned"} /\ (pc' = "returned" => ~raising)
        /\ UNCHANGED <<proc, port, pipe, inbox, machine, killed, gdb, gbuf>>
        /\ UNCHANGED <<at, ready, expired, timedOut, raising>>
    BY <1>7 DEF Reaps, guest, outcome
  <2>2. proc = "dead" /\ gdb = "closed" /\ at = "top"
    BY <2>1 DEF Handles
  <2>3. TypeOK'
    BY <2>1 DEF TypeOK, Finals
  <2>4. ReadsOpenReactors'
    BY <2>1, <2>2 DEF ReadsOpenReactors
  <2>5. Packets' /\ Handles' /\ Drained'
    BY <2>1, <2>2 DEF Packets, Handles, Drained
  <2> QED BY <2>3, <2>4, <2>5
<1> QED BY <1>1, <1>2, <1>3, <1>4, <1>5, <1>6, <1>7

LEMMA RunScript == RunInv /\ Script => RunInv'
BY RunReactTop, RunSelect, RunQemuOutput, RunQemuEnds, RunConnects,
   RunGdbPacket, RunGdbEnds, RunRest
DEF Script, React

LEMMA RunInit == Init => RunInv
<1> SUFFICES ASSUME Init PROVE RunInv
  OBVIOUS
<1>1. TypeOK
  <2>1. PipeSize \in Nat /\ Len(<<>>) = 0
    BY RunnerAssumption
  <2>2. /\ port \in BOOLEAN /\ killed \in BOOLEAN /\ child \in BOOLEAN
        /\ expired \in BOOLEAN /\ timedOut \in BOOLEAN /\ raising \in BOOLEAN
    BY DEF Init
  <2>3. /\ proc = "none" /\ pipe = <<>> /\ inbox = <<>> /\ machine = "held"
        /\ gdb = "none" /\ gbuf = <<>> /\ pc = "new" /\ at = "top"
        /\ ready = {}
    BY DEF Init
  <2> QED BY <2>1, <2>2, <2>3 DEF TypeOK
<1>2. AnswerComing(gbuf, inbox) /\ NothingComing(gbuf, inbox)
  BY DEF Init, AnswerComing, NothingComing
<1>3. ReadsOpenReactors /\ Packets /\ Handles /\ Drained
  BY <1>2 DEF Init, ReadsOpenReactors, Packets, Handles, Drained
<1> QED BY <1>1, <1>3 DEF RunInv

LEMMA RunKept == RunInv /\ UNCHANGED vars => RunInv'
<1> SUFFICES ASSUME RunInv, UNCHANGED vars PROVE RunInv'
  OBVIOUS
<1>1. /\ UNCHANGED <<proc, port, pipe, inbox, machine, killed, child, gdb>>
      /\ UNCHANGED <<gbuf, pc, at, ready, expired, timedOut, raising>>
  BY DEF vars
<1> QED BY <1>1
    DEF RunInv, TypeOK, ReadsOpenReactors, Readable, Packets, Handles, Drained

(* Ctrl-C, and the next call.                                              *)
LEMMA RunInterrupt ==
  ASSUME RunInv, InterruptedRun \/ InterruptedShutdown \/ CallsRunQemu
  PROVE  RunInv'
<1> USE DEF RunInv
<1>1. CASE InterruptedRun
  <2>1. /\ pc \in {"start", "monitors", "run"} /\ pc' \in {"exited", "kill"}
        /\ raising' \in BOOLEAN /\ raising'
        /\ UNCHANGED <<proc, port, pipe, inbox, machine, killed, child, gdb>>
        /\ UNCHANGED <<gbuf, at, ready, expired, timedOut>>
    BY <1>1 DEF InterruptedRun, guest, client
  <2>2. TypeOK'
    BY <2>1 DEF TypeOK, Finals
  <2>3. ReadsOpenReactors'
    BY <2>1 DEF ReadsOpenReactors, Readable
  <2>4. Packets' /\ Handles' /\ Drained'
    BY <2>1 DEF Packets, Handles, Drained
  <2> QED BY <2>2, <2>3, <2>4
<1>2. CASE InterruptedShutdown
  <2>1. /\ pc' = "exited"
        /\ UNCHANGED <<proc, port, pipe, inbox, machine, killed, child, gdb>>
        /\ UNCHANGED <<gbuf, at, ready, expired, timedOut, raising>>
    BY <1>2 DEF InterruptedShutdown, guest, client, outcome
  <2>2. TypeOK'
    BY <2>1 DEF TypeOK, Finals
  <2>3. ReadsOpenReactors'
    BY <2>1 DEF ReadsOpenReactors, Readable
  <2>4. Packets' /\ Handles' /\ Drained'
    BY <2>1 DEF Packets, Handles, Drained
  <2> QED BY <2>2, <2>3, <2>4
<1>3. CASE CallsRunQemu
  <2>1. /\ proc' = "none" /\ pipe' = <<>> /\ inbox' = <<>> /\ machine' = "held"
        /\ gdb' = "none" /\ gbuf' = <<>> /\ pc' = "new" /\ at' = "top"
        /\ ready' = {} /\ port' = port
        /\ killed' \in BOOLEAN /\ child' \in BOOLEAN /\ expired' \in BOOLEAN
        /\ timedOut' \in BOOLEAN /\ raising' \in BOOLEAN
    BY <1>3 DEF CallsRunQemu
  <2>2. TypeOK'
    <3>1. PipeSize \in Nat /\ Len(<<>>) = 0
      BY RunnerAssumption
    <3> QED BY <2>1, <3>1 DEF TypeOK
  <2>3. AnswerComing(gbuf', inbox') /\ NothingComing(gbuf', inbox')
    BY <2>1 DEF AnswerComing, NothingComing
  <2>4. ReadsOpenReactors' /\ Packets' /\ Handles' /\ Drained'
    BY <2>1, <2>3 DEF ReadsOpenReactors, Packets, Handles, Drained
  <2> QED BY <2>2, <2>4
<1> QED BY <1>1, <1>2, <1>3

(* Every step of the grading keeps the invariant of the run.               *)
LEMMA RunStep == RunInv /\ [GradeNext]_allvars => RunInv'
<1> SUFFICES ASSUME RunInv, [GradeNext]_allvars PROVE RunInv'
  OBVIOUS
<1>1. CASE UNCHANGED vars
  BY <1>1, RunKept
<1>2. CASE Script
  BY <1>2, RunScript
<1>3. CASE Child \/ Expires
  BY <1>3, RunChild, RunExpires
<1>4. CASE InterruptedRun \/ InterruptedShutdown \/ CallsRunQemu
  BY <1>4, RunInterrupt
<1> QED
  BY <1>1, <1>2, <1>3, <1>4
  DEF GradeNext, Grade, Interrupt, World, allvars, Builds, Calling,
      AlreadyComplete, Enters, StartsBody, Skips, Matches, Runs, Returned,
      Raised, Exited, Displays, Finishes, Scores, InterruptEnds, Interrupted

(* The reactor is told to read only what is open and has something to      *)
(* say, in every run of every test, interrupted or not.                    *)
THEOREM ReadsCorrect == GradeSpec => []ReadsOpenReactors
<1>1. RunInv => ReadsOpenReactors
  BY DEF RunInv
<1>2. GradeInit => RunInv
  BY RunInit DEF GradeInit
<1> QED BY RunStep, <1>1, <1>2, PTL DEF GradeSpec

(* The stop of the guest is not lost on its way through the socket and     *)
(* the client's buffer, however the packet is split.                       *)
THEOREM StopCorrect == GradeSpec => []StopHeard
<1>1. RunInv => StopHeard
  <2> SUFFICES ASSUME RunInv, pc = "run", machine = "stopped", gdb = "open"
               PROVE  HasStop(gbuf \o inbox)
    BY DEF StopHeard
  <2>1. StopComing(gbuf, inbox) /\ inbox \in Seq(Parts)
    BY DEF RunInv, Packets, TypeOK
  <2> DEFINE w == gbuf \o inbox
  <2>2. ASSUME gbuf = <<>>
        PROVE  HasStop(w)
    <3>1. w = inbox
      BY <2>1, <2>2, ConcatEmptySeq
    <3>2. /\ Len(inbox) \in 2 .. 3
          /\ inbox[Len(inbox) - 1] = "T05_head"
          /\ inbox[Len(inbox)] = "T05_tail"
      BY <2>1, <2>2 DEF StopComing
    <3>3. Len(inbox) \in 2 .. Len(inbox)
      BY <3>2
    <3> QED BY <3>1, <3>2, <3>3 DEF HasStop
  <2>3. ASSUME gbuf = <<"T05_head">>
        PROVE  HasStop(w)
    <3>1. Len(inbox) = 1 /\ inbox[1] = "T05_tail"
      BY <2>1, <2>3 DEF StopComing
    <3>2. gbuf \in Seq(Parts) /\ Len(gbuf) = 1 /\ gbuf[1] = "T05_head"
      BY <2>3 DEF Parts
    <3>3. Len(w) = 2 /\ w[1] = "T05_head" /\ w[2] = "T05_tail"
      BY <2>1, <3>1, <3>2, ConcatProperties
    <3> HIDE DEF w
    <3>4. 2 \in 2 .. Len(w) /\ 2 - 1 = 1
      BY <3>3
    <3> QED BY <3>3, <3>4 DEF HasStop
  <2> QED BY <2>1, <2>2, <2>3 DEF StopComing
<1>2. GradeInit => RunInv
  BY RunInit DEF GradeInit
<1> QED BY RunStep, <1>1, <1>2, PTL DEF GradeSpec

(* A run that ends by its breakpoint or by itself has read everything.     *)
THEOREM OutputCorrect == GradeSpec => []OutputComplete
<1>1. RunInv => OutputComplete
  BY DEF RunInv, Drained, OutputComplete
<1>2. GradeInit => RunInv
  BY RunInit DEF GradeInit
<1> QED BY RunStep, <1>1, <1>2, PTL DEF GradeSpec

-----------------------------------------------------------------------------
Unjudged == {"start", "body", "run", "match"}
Judgable == {"display", "callbacks"}

(* A parent runs inside its child's run_test, before the child's body.     *)
Nesting ==
  /\ stack # <<>> => i > 1 /\ stack[1].test = TESTS[i - 1]
  /\ Len(stack) = 2 =>
       /\ stack[1].phase = "start" /\ stack[1].test # "jos"
       /\ stack[1].test \in complete
       /\ stack[2].test = "jos"
  /\ stack # <<>> => (Top.phase # "enter" => Top.test \in complete)
  /\ "pse" \in complete => i = Len(TESTS) + 1
  /\ stack # <<>> /\ Top.phase = "run" => Top.test \in RunsQemu
  /\ stack # <<>> /\ Top.phase = "match" => Top.test = "pse"

(* The verdicts.                                                           *)
Verdicts ==
  /\ \A t \in Names \ complete : verdict[t] = None
  /\ \A k \in 1 .. Len(stack) :
       stack[k].phase \in Unjudged => verdict[stack[k].test] = None
  /\ stack # <<>> /\ Top.phase \in Judgable => verdict[Top.test] # None
  /\ "jos" \in complete =>
       \/ verdict["jos"] # None
       \/ stack # <<>> /\ Top.test = "jos" /\ Top.phase \in Unjudged
  /\ stack # <<>> /\ Len(stack) = 1 /\ stack[1].test # "jos"
       /\ stack[1].phase # "enter" => verdict["jos"] # None

(* Whose run r.qemu is.                                                    *)
Ownership ==
  /\ stack # <<>> /\ Top.phase = "run" /\ pc \notin {"new", "exited"} =>
       qemu = Top.test
  /\ stack # <<>> /\ Top.phase \in {"match"} \cup Judgable
       /\ Top.test \in RunsQemu /\ verdict[Top.test] # "SKIPPED" =>
       qemu = Top.test
  /\ verdict["jos"] # None /\ "pse" \notin complete => qemu = "jos"
  /\ stack # <<>> /\ Top.phase \notin {"enter", "start"} =>
       CURRENT_TEST = Top.test
  /\ on_finish \subseteq RunsQemu \cap complete
  /\ \A k \in 1 .. Len(stack) :
       stack[k].phase \in {"start", "body"} => stack[k].test \notin on_finish
  /\ stack # <<>> /\ Top.phase \in Judgable /\ verdict[Top.test] = "SKIPPED" =>
       Top.test \notin on_finish

(* Who may be listening on the port.                                       *)
Listening ==
  /\ proc = "dead" => ~port
  /\ qemu # None /\ proc = "none" => ~port
  /\ qemu # None /\ ~InRun => proc = "dead"
  /\ ~InRun => pc \in {"new", "returned", "raised"}

(* The scores, but for the test that has its verdict and is not displayed. *)
Pending(V) ==
  IF stack # <<>> /\ Top.phase = "display" /\ verdict[Top.test] \in V
    THEN points(Top.test) ELSE 0
Sums ==
  /\ TOTAL + Pending({"OK"}) = Cardinality(Scoring({"OK"}))
  /\ POSSIBLE + Pending({"OK", "FAIL"}) = Cardinality(Scoring({"OK", "FAIL"}))

GInv ==
  /\ RunInv /\ GradeTypeOK
  /\ Nesting /\ Verdicts /\ Ownership /\ Listening /\ Sums

LEMMA TestNames ==
  /\ Len(TESTS) = 6 /\ DOMAIN TESTS = 1 .. 6
  /\ TESTS[1] = "jos" /\ TESTS[6] = "pse"
  /\ \A n \in 1 .. 6 : TESTS[n] \in Names /\ (TESTS[n] = "pse" => n = 6)
  /\ "jos" \in Names /\ "pse" \in Names /\ RunsQemu \subseteq Names
  /\ None \notin Names
  /\ None # "OK" /\ None # "FAIL" /\ None # "SKIPPED"
<1>1. /\ Len(TESTS) = 6 /\ DOMAIN TESTS = 1 .. 6
      /\ TESTS[1] = "jos" /\ TESTS[6] = "pse"
      /\ TESTS[2] # "pse" /\ TESTS[3] # "pse" /\ TESTS[4] # "pse"
      /\ TESTS[5] # "pse" /\ TESTS[1] # "pse"
  BY DEF TESTS
<1>2. \A n \in 1 .. 6 : TESTS[n] \in Names
  BY <1>1 DEF Names
<1>3. \A n \in 1 .. 6 : n = 1 \/ n = 2 \/ n = 3 \/ n = 4 \/ n = 5 \/ n = 6
  OBVIOUS
<1>4. \A n \in 1 .. 6 : TESTS[n] = "pse" => n = 6
  BY <1>1, <1>3
<1>5. "jos" \in Names /\ "pse" \in Names
  BY <1>1, <1>2
<1>6. None \notin Names /\ None # "OK" /\ None # "FAIL" /\ None # "SKIPPED"
  BY GradingAssumption
<1> QED BY <1>1, <1>2, <1>4, <1>5, <1>6 DEF RunsQemu

(* The stack and what Goto, Pop and a further call make of it.             *)
LEMMA StackFacts ==
  ASSUME GradeTypeOK
  PROVE  /\ stack \in Seq(Calls) /\ Len(stack) \in 0 .. 2
         /\ stack = <<>> <=> Len(stack) = 0
         /\ \A k \in 1 .. Len(stack) :
              /\ stack[k] \in Calls
              /\ stack[k].test \in Names /\ stack[k].phase \in Phases
<1>1. stack \in Seq(Calls) /\ Len(stack) \in Nat /\ Len(stack) <= 2
  BY DEF GradeTypeOK
<1>2. \A k \in 1 .. Len(stack) : stack[k] \in Calls
  BY <1>1, ElementOfSeq
<1>3. stack = <<>> <=> Len(stack) = 0
  BY <1>1, EmptySeq
<1>4. \A e \in Calls : e.test \in Names /\ e.phase \in Phases
  BY DEF Calls
<1>5. Len(stack) \in 0 .. 2
  <2> DEFINE n == Len(stack)
  <2>1. n \in Nat /\ n <= 2
    BY <1>1
  <2> HIDE DEF n
  <2>2. n \in 0 .. 2
    BY <2>1
  <2> QED BY <2>2 DEF n
<1>6. \A k \in 1 .. Len(stack) :
        stack[k].test \in Names /\ stack[k].phase \in Phases
  BY <1>2, <1>4
<1> QED BY <1>1, <1>2, <1>3, <1>5, <1>6

LEMMA GotoSeq ==
  ASSUME GradeTypeOK, stack # <<>>, NEW ph \in Phases, NEW s, s = Goto(ph)
  PROVE  /\ s \in Seq(Calls) /\ Len(s) = Len(stack) /\ Len(stack) \in 1 .. 2
         /\ \A k \in 1 .. Len(stack) : s[k] =
              IF k = Len(stack) THEN [test |-> Top.test, phase |-> ph] ELSE stack[k]
         /\ Top.test \in Names
<1> DEFINE n == Len(stack)
           e == [stack[n] EXCEPT !.phase = ph]
<1>1. /\ stack \in Seq(Calls) /\ n \in 1 .. 2
      /\ stack[n] \in Calls /\ stack[n].test \in Names
  BY StackFacts
<1>2. /\ e \in Calls /\ e = [test |-> Top.test, phase |-> ph]
  BY <1>1 DEF Calls, Top
<1>3. s = [stack EXCEPT ![n] = e]
  BY DEF Goto
<1> HIDE DEF e
<1>4. /\ s \in Seq(Calls) /\ Len(s) = n
      /\ \A k \in 1 .. n : s[k] = IF k = n THEN e ELSE stack[k]
  BY <1>1, <1>2, <1>3, ExceptSeq
<1> QED BY <1>1, <1>2, <1>4 DEF Top

LEMMA GotoIs ==
  ASSUME GradeTypeOK, stack # <<>>, NEW ph \in Phases, stack' = Goto(ph)
  PROVE  /\ stack' \in Seq(Calls) /\ Len(stack') = Len(stack) /\ stack' # <<>>
         /\ Len(stack) \in 1 .. 2
         /\ Top' = [test |-> Top.test, phase |-> ph]
         /\ \A k \in 1 .. Len(stack) : stack'[k].test = stack[k].test
         /\ \A k \in 1 .. Len(stack) :
              k # Len(stack) => stack'[k].phase = stack[k].phase
         /\ stack'[Len(stack)].phase = ph
         /\ Top.test \in Names
<1> DEFINE n == Len(stack)  e == [test |-> Top.test, phase |-> ph]
<1>1. /\ stack' \in Seq(Calls) /\ Len(stack') = n /\ n \in 1 .. 2
      /\ \A k \in 1 .. n : stack'[k] = IF k = n THEN e ELSE stack[k]
      /\ Top.test \in Names
  BY GotoSeq
<1>2. e.test = stack[n].test /\ e.phase = ph
  BY DEF Top
<1> HIDE DEF e
<1>3. stack' # <<>>
  BY <1>1
<1>4. Top' = e
  BY <1>1 DEF Top
<1>5. /\ \A k \in 1 .. n : stack'[k].test = stack[k].test
      /\ \A k \in 1 .. n : k # n => stack'[k].phase = stack[k].phase
      /\ stack'[n].phase = ph
  BY <1>1, <1>2
<1> QED BY <1>1, <1>3, <1>4, <1>5 DEF e

LEMMA PopIs ==
  ASSUME GradeTypeOK, stack # <<>>, stack' = Pop
  PROVE  /\ stack' \in Seq(Calls) /\ Len(stack') = Len(stack) - 1
         /\ Len(stack) \in 1 .. 2
         /\ stack' = <<>> <=> Len(stack) = 1
         /\ Len(stack) = 2 => stack'[1] = stack[1] /\ Top' = stack[1]
<1> DEFINE n == Len(stack)
<1>1. /\ stack \in Seq(Calls) /\ n \in 1 .. 2
      /\ \A k \in 1 .. n : stack[k] \in Calls
  BY StackFacts
<1>2. /\ stack' \in Seq(Calls)
      /\ Len(stack') = IF 1 <= n - 1 THEN (n - 1) - 1 + 1 ELSE 0
      /\ \A k \in 1 .. (n - 1) - 1 + 1 : stack'[k] = stack[1 + k - 1]
  <2>1. \A k \in 1 .. n - 1 : stack[k] \in Calls
    BY <1>1
  <2>2. 1 \in Int /\ n - 1 \in Int /\ stack' = SubSeq(stack, 1, n - 1)
    BY <1>1 DEF Pop
  <2> QED BY <2>1, <2>2, SubSeqProperties
<1>3. Len(stack') = n - 1
  <2> HIDE DEF n
  <2>1. n = 1 \/ n = 2
    BY <1>1
  <2> QED BY <1>2, <2>1
<1>4. n = 2 => stack'[1] = stack[1]
  BY <1>2
<1>5. stack' = <<>> <=> Len(stack') = 0
  BY <1>2, EmptySeq
<1>6. n = 2 => Top' = stack'[1]
  BY <1>3 DEF Top
<1> QED BY <1>1, <1>2, <1>3, <1>4, <1>5, <1>6

(* What a verdict adds to the tests that score.                            *)
LEMMA NamesFinite == IsFiniteSet(Names) /\ Cardinality(Names) <= 6
<1>1. TESTS \in Surjection(1 .. 6, Names)
  <2>1. TESTS \in [1 .. 6 -> Names]
    <3>1. TESTS \in Seq({"jos", "page_alloc", "page", "kern_pgdir",
                        "installed_pgdir", "pse"})
      BY DEF TESTS
    <3>2. TESTS = [n \in DOMAIN TESTS |-> TESTS[n]]
      BY <3>1
    <3> QED BY <3>2, TestNames
  <2>2. \A t \in Names : \E n \in 1 .. 6 : TESTS[n] = t
    BY TestNames DEF Names
  <2> QED BY <2>1, <2>2 DEF Surjection
<1>2. IsFiniteSet(1 .. 6) /\ Cardinality(1 .. 6) = 6
  <2>1. /\ IsFiniteSet(1 .. 6)
        /\ Cardinality(1 .. 6) = IF 1 > 6 THEN 0 ELSE 6 - 1 + 1
    <3>1. 1 \in Int /\ 6 \in Int
      OBVIOUS
    <3> QED BY <3>1, FS_Interval, Zenon
  <2>2. ~(1 > 6) /\ 6 - 1 + 1 = 6
    OBVIOUS
  <2> QED BY <2>1, <2>2
<1> QED BY <1>1, <1>2, FS_Surjection

LEMMA ScoringFinite ==
  ASSUME NEW V
  PROVE  /\ IsFiniteSet(Scoring(V)) /\ Cardinality(Scoring(V)) \in 0 .. 6
<1>1. Scoring(V) \subseteq Names
  BY DEF Scoring
<1>2. IsFiniteSet(Scoring(V)) /\ Cardinality(Scoring(V)) <= Cardinality(Names)
  BY <1>1, NamesFinite, FS_Subset
<1>3. Cardinality(Scoring(V)) \in Nat /\ Cardinality(Names) \in Nat
  BY <1>2, NamesFinite, FS_CardinalityType
<1> QED BY <1>2, <1>3, NamesFinite

LEMMA ScoringAdds ==
  ASSUME NEW CONSTANT V, None \notin V, NEW t \in Names, NEW v,
         DOMAIN verdict = Names, verdict[t] = None,
         verdict' = [verdict EXCEPT ![t] = v]
  PROVE  Cardinality(Scoring(V)') =
           Cardinality(Scoring(V)) + (IF v \in V THEN points(t) ELSE 0)
<1>1. IsFiniteSet(Scoring(V)) /\ Cardinality(Scoring(V)) \in Nat
  BY ScoringFinite
<1>2. t \notin Scoring(V)
  BY DEF Scoring
<1>3. points(t) \in {0, 1}
  BY DEF points
<1>4. CASE v \in V /\ points(t) = 1
  <2>1. Scoring(V)' = Scoring(V) \cup {t}
    BY <1>4 DEF Scoring
  <2> QED BY <1>1, <1>2, <1>4, <2>1, FS_AddElement
<1>5. CASE ~(v \in V /\ points(t) = 1)
  <2>1. Scoring(V)' = Scoring(V)
    BY <1>5 DEF Scoring
  <2> QED BY <1>1, <1>3, <1>5, <2>1
<1> QED BY <1>4, <1>5

LEMMA JudgedStep ==
  ASSUME GInv, RunInv', NEW v \in {"OK", "FAIL", "SKIPPED"}, Judged(v),
         UNCHANGED <<vars, limit, i, complete, CURRENT_TEST, qemu, on_finish>>,
         UNCHANGED <<TOTAL, POSSIBLE, status>>,
         stack # <<>>, Top.phase \in {"body", "run", "match"},
         v = "SKIPPED" => Top.test = "pse" /\ Top.phase = "body",
         v # "SKIPPED" /\ Top.test \in RunsQemu => qemu = Top.test,
         Top.phase = "run" => pc \in {"returned", "raised"}
  PROVE  GInv'
<1> DEFINE n == Len(stack)  t == Top.test
<1>1. /\ stack' = Goto("display") /\ verdict' = [verdict EXCEPT ![t] = v]
      /\ "display" \in Phases
  BY DEF Judged, Phases
<1>2. /\ stack' \in Seq(Calls) /\ Len(stack') = n /\ stack' # <<>>
      /\ n \in 1 .. 2
      /\ Top'.test = t /\ Top'.phase = "display"
      /\ \A k \in 1 .. n : stack'[k].test = stack[k].test
      /\ \A k \in 1 .. n : k # n => stack'[k].phase = stack[k].phase
      /\ stack'[n].phase = "display" /\ stack[n] = Top
      /\ t \in Names
  <2>1. stack[n] = Top
    BY DEF Top
  <2>2. /\ GradeTypeOK /\ Top' = [test |-> t, phase |-> "display"]
        /\ stack' \in Seq(Calls) /\ Len(stack') = n /\ stack' # <<>>
        /\ n \in 1 .. 2
        /\ \A k \in 1 .. n : stack'[k].test = stack[k].test
        /\ \A k \in 1 .. n : k # n => stack'[k].phase = stack[k].phase
        /\ stack'[n].phase = "display" /\ t \in Names
    BY <1>1, GotoIs DEF GInv
  <2>3. Top'.test = t /\ Top'.phase = "display"
    BY <2>2
  <2> QED BY <2>1, <2>2, <2>3
<1>3. /\ verdict \in [Names -> {None, "OK", "FAIL", "SKIPPED"}]
      /\ verdict[t] = None
      /\ v # None
  BY <1>2, TestNames DEF GInv, GradeTypeOK, Verdicts, Unjudged
<1>4. /\ verdict' \in [Names -> {None, "OK", "FAIL", "SKIPPED"}]
      /\ verdict'[t] = v
      /\ \A u \in Names : u # t => verdict'[u] = verdict[u]
  BY <1>1, <1>2, <1>3
<1>5. GradeTypeOK'
  BY <1>2, <1>4 DEF GInv, RunInv, GradeTypeOK
<1> HIDE DEF n, t
<1>n. n = Len(stack) /\ t = Top.test
  BY DEF n, t
<1>6. Nesting'
  BY <1>2, <1>n DEF GInv, Nesting
<1>7. Verdicts'
  <2>1. t \in complete
    BY <1>n DEF GInv, Nesting
  <2>2. \A u \in Names \ complete' : verdict'[u] = None
    BY <1>4, <2>1 DEF GInv, Verdicts
  <2>3. \A k \in 1 .. n : stack'[k].phase \in Unjudged =>
          verdict'[stack'[k].test] = None
    <3> SUFFICES ASSUME NEW k \in 1 .. n, stack'[k].phase \in Unjudged
                 PROVE  verdict'[stack'[k].test] = None
      OBVIOUS
    <3>1. k # n
      BY <1>2 DEF Unjudged
    <3>2. n = 2 /\ k = 1
      BY <1>2, <3>1
    <3>3. stack[1].test # "jos" /\ stack[2].test = "jos" /\ stack[2].test = t
          /\ stack[1].phase \in Unjudged
      BY <1>2, <1>n, <3>2 DEF GInv, Nesting
    <3>4. verdict[stack[1].test] = None /\ stack[1].test \in Names
      BY <1>n, <3>2, <3>3, StackFacts DEF GInv, Verdicts
    <3> QED BY <1>2, <1>4, <3>2, <3>3, <3>4
  <2>4. stack' # <<>> /\ Top'.phase \in Judgable => verdict'[Top'.test] # None
    BY <1>2, <1>3, <1>4
  <2>5. "jos" \in complete => verdict'["jos"] # None
    BY <1>3, <1>4, <1>n, TestNames DEF GInv, Verdicts
  <2>6. n = 1 /\ stack'[1].test # "jos" => verdict'["jos"] # None
    <3> SUFFICES ASSUME n = 1, stack'[1].test # "jos"
                 PROVE  verdict'["jos"] # None
      OBVIOUS
    <3>1. stack[1].test # "jos" /\ stack[1].phase # "enter" /\ t = stack[1].test
      BY <1>2, <1>n
    <3>2. verdict["jos"] # None
      BY <1>n, <3>1 DEF GInv, Verdicts
    <3> QED BY <1>4, <3>1, <3>2, TestNames
  <2> QED BY <1>2, <2>2, <2>3, <2>4, <2>5, <2>6 DEF Verdicts
<1>8. Ownership'
  <2>1. v = "SKIPPED" => t \notin on_finish
    BY <1>2, <1>n DEF GInv, Ownership
  <2>2. verdict'["jos"] # None /\ "pse" \notin complete => qemu = "jos"
    BY <1>4, <1>n, TestNames DEF GInv, Ownership, RunsQemu
  <2>3. CURRENT_TEST = t /\ on_finish \subseteq RunsQemu \cap complete
    BY <1>n DEF GInv, Ownership
  <2>4. \A k \in 1 .. n :
          stack'[k].phase \in {"start", "body"} => stack'[k].test \notin on_finish
    BY <1>2, <1>n DEF GInv, Ownership
  <2>5. t \in RunsQemu /\ v # "SKIPPED" => qemu = t
    BY <1>n
  <2> QED BY <1>2, <1>4, <2>1, <2>2, <2>3, <2>4, <2>5 DEF Ownership, Judgable
<1>9. Listening'
  <2>1. /\ proc' = proc /\ port' = port /\ pc' = pc /\ qemu' = qemu
        /\ ~InRun'
    BY <1>2 DEF vars, InRun
  <2>2. CASE Top.phase = "run"
    <3>1. pc \in {"returned", "raised"} /\ proc = "dead"
      BY <2>2 DEF GInv, RunInv, Handles
    <3> QED BY <2>1, <3>1 DEF GInv, Listening
  <2>3. CASE Top.phase # "run"
    <3>1. ~InRun
      BY <2>3 DEF InRun
    <3> QED BY <2>1, <3>1 DEF GInv, Listening
  <2> QED BY <2>2, <2>3
<1>10. Sums'
  <2> DEFINE W1 == {"OK"}  W2 == {"OK", "FAIL"}
  <2>1. None \notin W1 /\ None \notin W2
    BY TestNames
  <2>2. DOMAIN verdict = Names /\ verdict' = [verdict EXCEPT ![t] = v]
    BY <1>1, <1>3, <1>n
  <2> HIDE DEF W1, W2
  <2>3. /\ Cardinality(Scoring(W1)') =
             Cardinality(Scoring(W1)) + (IF v \in W1 THEN points(t) ELSE 0)
        /\ Cardinality(Scoring(W2)') =
             Cardinality(Scoring(W2)) + (IF v \in W2 THEN points(t) ELSE 0)
    BY <1>2, <1>3, <2>1, <2>2, ScoringAdds
  <2>4. Pending(W1) = 0 /\ Pending(W2) = 0
    BY DEF Pending
  <2>5. /\ Pending(W1)' = (IF v \in W1 THEN points(t) ELSE 0)
        /\ Pending(W2)' = (IF v \in W2 THEN points(t) ELSE 0)
    BY <1>2, <1>4 DEF Pending
  <2>6. TOTAL = Cardinality(Scoring(W1)) /\ POSSIBLE = Cardinality(Scoring(W2))
    <3>1. TOTAL \in Nat /\ POSSIBLE \in Nat
      BY TestNames DEF GInv, GradeTypeOK
    <3> QED BY <2>4, <3>1 DEF GInv, Sums, W1, W2
  <2>7. /\ TOTAL' + Pending(W1)' = Cardinality(Scoring(W1)')
        /\ POSSIBLE' + Pending(W2)' = Cardinality(Scoring(W2)')
    BY <2>3, <2>5, <2>6
  <2> QED BY <2>7 DEF Sums, W1, W2
<1> QED BY <1>5, <1>6, <1>7, <1>8, <1>9, <1>10 DEF GInv

(* The steps that leave the tests where they are: the runs, the world and  *)
(* the ways out.                                                           *)
LEMMA StructureKept ==
  ASSUME GInv, RunInv', UNCHANGED <<structure, scores>>, Listening',
         status' \in {"building", "running", "interrupted", "exit_0", "exit_1"},
         \/ on_finish' = on_finish
         \/ InRun /\ on_finish' = on_finish \cup {Top.test},
         \/ /\ qemu' = qemu
            /\ InRun /\ pc' \notin {"new", "exited"} => pc \notin {"new", "exited"}
         \/ InRun /\ qemu' = Top.test
  PROVE  GInv'
<1>1. /\ limit' = limit /\ i' = i /\ stack' = stack /\ complete' = complete
      /\ CURRENT_TEST' = CURRENT_TEST
      /\ verdict' = verdict /\ TOTAL' = TOTAL /\ POSSIBLE' = POSSIBLE
      /\ Top' = Top
  BY DEF structure, scores, Top
<1>2. InRun => Top.test \in RunsQemu
  BY DEF InRun, GInv, Nesting
<1>f. /\ on_finish' \subseteq RunsQemu \cap complete
      /\ \A k \in 1 .. Len(stack) : stack[k].phase \in {"start", "body"} =>
           stack[k].test \notin on_finish'
      /\ stack # <<>> /\ Top.phase # "run" => on_finish' = on_finish
  <2>1. /\ on_finish \subseteq RunsQemu \cap complete
        /\ \A k \in 1 .. Len(stack) : stack[k].phase \in {"start", "body"} =>
             stack[k].test \notin on_finish
    BY DEF GInv, Ownership
  <2>2. CASE on_finish' = on_finish
    BY <2>1, <2>2
  <2>3. CASE InRun /\ on_finish' = on_finish \cup {Top.test}
    <3>1. /\ Top.test \in complete /\ Top.test \in RunsQemu
          /\ Top.phase = "run" /\ stack # <<>>
      BY <1>2, <2>3 DEF InRun, GInv, Nesting
    <3>2. ASSUME NEW k \in 1 .. Len(stack), stack[k].phase \in {"start", "body"}
          PROVE  stack[k].test # Top.test
      <4>1. Len(stack) \in 1 .. 2 /\ k # Len(stack)
        BY <3>1, <3>2, StackFacts DEF GInv, Top
      <4>2. Len(stack) = 2 /\ k = 1
        <5> DEFINE n == Len(stack)
        <5>1. n \in 1 .. 2 /\ k # n /\ k \in 1 .. n
          BY <4>1
        <5> HIDE DEF n
        <5>2. n = 2 /\ k = 1
          BY <5>1
        <5> QED BY <5>2 DEF n
      <4> QED BY <4>2 DEF GInv, Nesting, Top
    <3> QED BY <2>1, <2>3, <3>1, <3>2
  <2> QED BY <2>2, <2>3
<1>3. GradeTypeOK'
  <2>1. on_finish' \subseteq Names /\ qemu' \in RunsQemu \cup {None}
    BY <1>2, <1>f, TestNames DEF GInv, GradeTypeOK
  <2> QED BY <1>1, <2>1 DEF GInv, RunInv, GradeTypeOK
<1>4. Nesting' /\ Verdicts'
  BY <1>1 DEF GInv, Nesting, Verdicts
<1>5. Ownership'
  <2>1. CASE /\ qemu' = qemu
             /\ InRun /\ pc' \notin {"new", "exited"} => pc \notin {"new", "exited"}
    BY <1>1, <1>f, <2>1 DEF GInv, Ownership, InRun, Judgable
  <2>2. CASE InRun /\ qemu' = Top.test
    <3>1. Top.phase = "run" /\ stack # <<>> /\ Top.test \in RunsQemu
      BY <1>2, <2>2 DEF InRun
    <3>2. verdict["jos"] # None /\ "pse" \notin complete => qemu' = "jos"
      <4>1. Top.test \in complete
        BY <3>1 DEF GInv, Nesting
      <4> QED BY <2>2, <3>1, <4>1 DEF RunsQemu
    <3>3. CURRENT_TEST = Top.test
      BY <3>1 DEF GInv, Ownership
    <3> QED BY <1>1, <1>f, <2>2, <3>1, <3>2, <3>3 DEF Ownership, Judgable
  <2> QED BY <2>1, <2>2
<1>6. Sums'
  BY <1>1 DEF GInv, Sums, Pending, Scoring
<1> QED BY <1>3, <1>4, <1>5, <1>6 DEF GInv

LEMMA WorldStep ==
  ASSUME GInv, RunInv', World
  PROVE  GInv'
<1>1. /\ UNCHANGED <<structure, on_finish, scores>> /\ status' = status
      /\ qemu' = qemu /\ stack' = stack /\ InRun' = InRun
      /\ pc' = pc
  BY DEF World, gradevars, structure, runner, scores, Child, Prints, OpensPort,
         HitsBreakpoint, Dies, Expires, react, InRun, Top
<1>2. \/ proc' = proc /\ port' = port
      \/ proc = "up" /\ proc' = "up"
      \/ proc' = "dead" /\ ~port'
  BY DEF World, Child, Prints, OpensPort, HitsBreakpoint, Dies, Expires, guest
<1>3. Listening'
  BY <1>1, <1>2 DEF GInv, Listening
<1>4. status \in {"building", "running", "interrupted", "exit_0", "exit_1"}
  BY DEF GInv, GradeTypeOK
<1> QED BY <1>1, <1>3, <1>4, StructureKept

LEMMA WaysOut ==
  ASSUME GInv, RunInv',
         \/ Builds \/ Exited \/ Scores \/ InterruptEnds \/ Interrupted
         \/ InterruptedRun \/ InterruptedShutdown
         \/ UNCHANGED allvars
  PROVE  GInv'
<1>1. /\ UNCHANGED <<structure, on_finish, scores>>
      /\ qemu' = qemu /\ proc' = proc /\ port' = port /\ InRun' = InRun
  BY DEF Builds, Exited, Scores, InterruptEnds, Interrupted, InterruptedRun,
         InterruptedShutdown, allvars, gradevars, vars, structure, runner, scores,
         guest, InRun, Top
<1>2. status' \in {"building", "running", "interrupted", "exit_0", "exit_1"}
  BY DEF Builds, Exited, Scores, InterruptEnds, Interrupted, InterruptedRun,
         InterruptedShutdown, ExitStatus, allvars, gradevars, GInv, GradeTypeOK
<1>3. \/ pc' = pc
      \/ InRun /\ (pc' \notin {"new", "exited"} => pc \notin {"new", "exited"})
  BY DEF Builds, Exited, Scores, InterruptEnds, Interrupted, InterruptedRun,
         InterruptedShutdown, allvars, vars, InRun, AtPhase
<1>4. Listening'
  BY <1>1, <1>3 DEF GInv, Listening
<1> QED BY <1>1, <1>2, <1>3, <1>4, StructureKept

LEMMA RunsStep ==
  ASSUME GInv, RunInv', Runs
  PROVE  GInv'
<1>1. /\ InRun /\ Script /\ stack' = stack /\ status' = status
      /\ UNCHANGED <<structure, scores>> /\ InRun' = InRun
  BY DEF Runs, InRun, Top, structure
<1>2. Top.test \in RunsQemu /\ Top.test \in complete /\ CURRENT_TEST = Top.test
      /\ Top.phase = "run" /\ stack # <<>>
  BY <1>1 DEF InRun, GInv, Nesting, Ownership
<1>3. /\ port' = port
      /\ \/ pc = "new" /\ pc' = "start" /\ proc' = "up"
         \/ proc' = proc /\ (pc' \notin {"new", "exited"} =>
                               pc \notin {"new", "exited"})
  BY <1>1
  DEF Script, React, AlreadyRunning, StartsQEMU, StartsMonitoring, MonitorFails,
      Kill, ClosesGdb, Reaps, ReactTop, Select, AllHandled, QemuOutput, QemuEnds,
      Connects, ConnectFails, GdbPacket, GdbEnds, guest, EnterReact, ReactPhases
<1>4. qemu' = IF pc = "new" /\ pc' = "start" THEN Top.test ELSE qemu
  BY DEF Runs
<1>5. Top.test # None
  BY <1>2, TestNames
<1>6. Listening'
  BY <1>1, <1>3, <1>4 DEF GInv, Listening
<1>7. \/ on_finish' = on_finish
      \/ on_finish' = on_finish \cup {Top.test}
  BY <1>2 DEF Runs, save
<1>8. status \in {"building", "running", "interrupted", "exit_0", "exit_1"}
  BY DEF GInv, GradeTypeOK
<1>9. \/ qemu' = qemu /\ (pc' \notin {"new", "exited"} =>
                            pc \notin {"new", "exited"})
      \/ qemu' = Top.test
  BY <1>3, <1>4
<1> QED BY <1>1, <1>6, <1>7, <1>8, <1>9, StructureKept

(* Nothing but the stack moves: a further call, a return, the next phase.  *)
LEMMA CallingStep ==
  ASSUME GInv, RunInv', Calling
  PROVE  GInv'
<1>1. /\ stack = <<>> /\ i <= Len(TESTS) /\ i' = i + 1
      /\ stack' = <<>> \/ stack' = <<Call(TESTS[i])>>
      /\ UNCHANGED <<vars, limit, complete, CURRENT_TEST, qemu, on_finish>>
      /\ UNCHANGED <<verdict, TOTAL, POSSIBLE, status>>
  BY DEF Calling, runner, scores
<1>2. /\ i \in 1 .. 7 /\ i \in 1 .. 6 /\ i' \in 2 .. 7 /\ i' - 1 = i
      /\ TESTS[i] \in Names
  BY <1>1, TestNames DEF GInv, GradeTypeOK
<1>3. stack' # <<>> =>
        /\ stack' \in Seq(Calls) /\ Len(stack') = 1 /\ stack'[1] = Top'
        /\ Top'.test = TESTS[i] /\ Top'.phase = "enter"
  <2> SUFFICES ASSUME stack' = <<Call(TESTS[i])>>
               PROVE  /\ stack' \in Seq(Calls) /\ Len(stack') = 1
                      /\ stack'[1] = Top'
                      /\ Top'.test = TESTS[i] /\ Top'.phase = "enter"
    BY <1>1
  <2> DEFINE e == Call(TESTS[i])
  <2>1. e \in Calls /\ e.test = TESTS[i] /\ e.phase = "enter"
    BY <1>2 DEF Call, Calls, Phases
  <2>2. stack' = <<e>>
    OBVIOUS
  <2> HIDE DEF e
  <2>3. stack' \in Seq(Calls) /\ Len(stack') = 1 /\ stack'[1] = e
    BY <2>1, <2>2
  <2> QED BY <2>1, <2>3 DEF Top
<1>4. /\ stack' \in Seq(Calls) /\ Len(stack') \in {0, 1}
      /\ stack' = <<>> <=> Len(stack') = 0
      /\ Len(stack') = 1 => /\ stack'[1] = Top' /\ Top'.test = TESTS[i]
                            /\ Top'.phase = "enter"
  <2>1. CASE stack' = <<>>
    BY <2>1
  <2>2. CASE stack' # <<>>
    <3>1. /\ stack' \in Seq(Calls) /\ Len(stack') = 1 /\ stack'[1] = Top'
          /\ Top'.test = TESTS[i] /\ Top'.phase = "enter"
      BY <1>3, <2>2, Zenon
    <3> QED BY <2>2, <3>1
  <2> QED BY <2>1, <2>2
<1> DEFINE m == Len(stack')
<1> HIDE DEF m
<1>m. /\ m \in {0, 1} /\ (stack' = <<>> <=> m = 0) /\ m = Len(stack')
      /\ m = 1 => /\ stack'[1] = Top' /\ Top'.test = TESTS[i]
                  /\ Top'.phase = "enter"
  BY <1>4 DEF m
<1>5. GradeTypeOK'
  <2>1. stack' \in Seq(Calls) /\ Len(stack') <= 2
    <3>1. m <= 2
      BY <1>m
    <3> QED BY <1>4, <3>1 DEF m
  <2>2. i' \in 1 .. Len(TESTS) + 1
    BY <1>2, TestNames
  <2> QED BY <1>1, <2>1, <2>2 DEF GInv, RunInv, GradeTypeOK
<1>6. Nesting'
  <2>1. "pse" \notin complete
    BY <1>2, TestNames DEF GInv, Nesting
  <2>2. m # 2
    BY <1>m
  <2>3. m = 1 => i' > 1 /\ stack'[1].test = TESTS[i' - 1]
    <3>1. i' > 1
      BY <1>2
    <3>2. m = 1 => stack'[1].test = TESTS[i]
      BY <1>m
    <3> QED BY <1>2, <3>1, <3>2, Zenon
  <2> QED BY <1>1, <1>m, <2>1, <2>2, <2>3 DEF Nesting
<1>7. \A k \in 1 .. Len(stack') :
        stack'[k].phase \notin Unjudged /\ stack'[k].phase # "start"
        /\ stack'[k].phase # "body"
  <2>1. \A k \in 1 .. m : m = 1 /\ k = 1
    BY <1>m
  <2> QED BY <1>m, <2>1 DEF Unjudged
<1>8. Verdicts'
  BY <1>1, <1>3, <1>7 DEF GInv, Verdicts, Unjudged, Judgable
<1>9. Ownership'
  BY <1>1, <1>3, <1>7 DEF GInv, Ownership, Judgable
<1>10. Listening'
  <2>1. ~InRun /\ ~InRun' /\ proc' = proc /\ port' = port /\ pc' = pc
    BY <1>1, <1>3 DEF InRun, vars
  <2> QED BY <1>1, <2>1 DEF GInv, Listening
<1>11. Sums'
  BY <1>1, <1>3 DEF GInv, Sums, Pending, Scoring
<1> QED BY <1>5, <1>6, <1>8, <1>9, <1>10, <1>11 DEF GInv

LEMMA ReturnStep ==
  ASSUME GInv, RunInv', AlreadyComplete \/ Finishes
  PROVE  GInv'
<1>1. /\ stack # <<>> /\ stack' = Pop
      /\ \/ Top.phase = "enter" /\ Top.test \in complete
            /\ CURRENT_TEST' = CURRENT_TEST
         \/ Top.phase = "callbacks" /\ CURRENT_TEST' = None
      /\ UNCHANGED <<vars, limit, i, complete, qemu, on_finish>>
      /\ UNCHANGED <<verdict, TOTAL, POSSIBLE, status>>
  BY DEF AlreadyComplete, Finishes, AtPhase, runner, scores
<1>2. /\ stack' \in Seq(Calls) /\ Len(stack') = Len(stack) - 1
      /\ Len(stack) \in 1 .. 2
      /\ stack' = <<>> <=> Len(stack) = 1
      /\ Len(stack) = 2 => stack'[1] = stack[1] /\ Top' = stack[1]
  BY <1>1, PopIs DEF GInv
<1> DEFINE n == Len(stack)
<1>3. /\ n = 1 \/ n = 2
      /\ n = 1 => stack' = <<>> /\ Len(stack') = 0
      /\ n = 2 => /\ stack' # <<>> /\ Len(stack') = 1
                  /\ stack'[1] = stack[1] /\ Top' = stack[1]
                  /\ stack[1].phase = "start" /\ stack[1].test # "jos"
                  /\ stack[1].test \in complete /\ stack[1].test \in Names
                  /\ stack[2].test = "jos" /\ Top.test = "jos"
                  /\ verdict[stack[1].test] = None
                  /\ stack[1].test \notin on_finish
                  /\ stack[1].test = TESTS[i - 1] /\ i > 1
  <2> HIDE DEF n
  <2>n. n = Len(stack)
    BY DEF n
  <2>1. n \in 1 .. 2
    BY <1>2, <2>n
  <2>2. n = 1 \/ n = 2
    BY <2>1
  <2>3. ASSUME n = 2
        PROVE  /\ stack[1].phase = "start" /\ stack[1].test # "jos"
               /\ stack[1].test \in complete /\ stack[1].test \in Names
               /\ stack[2].test = "jos" /\ Top.test = "jos"
               /\ verdict[stack[1].test] = None
               /\ stack[1].test \notin on_finish
               /\ stack[1].test = TESTS[i - 1] /\ i > 1
    <3>1. /\ stack[1].phase = "start" /\ stack[1].test # "jos"
          /\ stack[1].test \in complete /\ stack[2].test = "jos"
          /\ stack[1].test = TESTS[i - 1] /\ i > 1
      BY <1>1, <2>n, <2>3 DEF GInv, Nesting
    <3>2. Top = stack[2] /\ 1 \in 1 .. Len(stack)
      BY <2>n, <2>3 DEF Top
    <3>3. stack[1].test \in Names
      BY <3>2, StackFacts DEF GInv
    <3>4. verdict[stack[1].test] = None /\ stack[1].test \notin on_finish
      BY <3>1, <3>2 DEF GInv, Verdicts, Ownership, Unjudged
    <3> QED BY <3>1, <3>2, <3>3, <3>4
  <2>4. n = 1 => stack' = <<>> /\ Len(stack') = 0
    BY <1>2, <2>n
  <2>5. n = 2 => Len(stack') = 1 /\ stack' # <<>>
    BY <1>2, <2>n
  <2> QED BY <1>2, <2>n, <2>2, <2>3, <2>4, <2>5
<1> HIDE DEF n
<1>4. GradeTypeOK'
  <2>1. stack' \in Seq(Calls) /\ Len(stack') <= 2
    BY <1>2, <1>3
  <2>2. CURRENT_TEST' \in Names \cup {None}
    BY <1>1 DEF GInv, GradeTypeOK
  <2> QED BY <1>1, <2>1, <2>2 DEF GInv, RunInv, GradeTypeOK
<1>5. Nesting'
  BY <1>1, <1>3 DEF GInv, Nesting
<1>6. n = 2 => verdict["jos"] # None
  <2> SUFFICES ASSUME n = 2 PROVE verdict["jos"] # None
    OBVIOUS
  <2>1. Top.test = "jos"
    BY <1>3
  <2>2. CASE Top.phase = "callbacks"
    BY <1>1, <2>1, <2>2 DEF GInv, Verdicts, Judgable
  <2>3. CASE Top.phase = "enter" /\ Top.test \in complete
    BY <2>1, <2>3 DEF GInv, Verdicts, Unjudged
  <2> QED BY <1>1, <2>2, <2>3
<1>7. Verdicts'
  <2>1. ~(stack # <<>> /\ Top.test = "jos" /\ Top.phase \in Unjudged)
    BY <1>1 DEF Unjudged
  <2>2. "jos" \in complete => verdict["jos"] # None
    BY <2>1 DEF GInv, Verdicts
  <2>3. \A k \in 1 .. Len(stack') : n = 2 /\ stack'[k] = stack[1]
    BY <1>3
  <2> QED BY <1>1, <1>3, <1>6, <2>2, <2>3 DEF GInv, Verdicts, Judgable
<1>8. Ownership'
  <2>1. \A k \in 1 .. Len(stack') : stack'[k].test \notin on_finish
    BY <1>3
  <2> QED BY <1>1, <1>3, <2>1 DEF GInv, Ownership, Judgable
<1>9. Listening'
  <2>1. ~InRun /\ ~InRun' /\ proc' = proc /\ port' = port /\ pc' = pc
    BY <1>1, <1>3 DEF InRun, vars
  <2> QED BY <1>1, <2>1 DEF GInv, Listening
<1>10. Sums'
  BY <1>1, <1>3 DEF GInv, Sums, Pending, Scoring
<1> QED BY <1>4, <1>5, <1>7, <1>8, <1>9, <1>10 DEF GInv

(* The phases that a test goes through without a verdict.                  *)
LEMMA GotoStep ==
  ASSUME GInv, RunInv', NEW ph \in {"body", "run", "match"}, stack' = Goto(ph),
         UNCHANGED <<limit, i, complete, qemu, on_finish>>,
         UNCHANGED <<verdict, TOTAL, POSSIBLE, status>>,
         stack # <<>>, Top.phase \in {"start", "body", "run"},
         CURRENT_TEST' = Top.test, Listening',
         ph = "body" => Top.phase = "start",
         ph = "run" => Top.phase = "body" /\ Top.test \in RunsQemu
                       /\ pc' \in {"new", "exited"},
         ph = "match" => Top.phase = "run" /\ Top.test = "pse"
                         /\ qemu = Top.test
  PROVE  GInv'
<1> DEFINE n == Len(stack)  t == Top.test
<1>1. /\ stack' \in Seq(Calls) /\ Len(stack') = n /\ stack' # <<>>
      /\ n \in 1 .. 2
      /\ Top'.test = t /\ Top'.phase = ph
      /\ \A k \in 1 .. n : stack'[k].test = stack[k].test
      /\ \A k \in 1 .. n : k # n => stack'[k].phase = stack[k].phase
      /\ stack'[n].phase = ph /\ stack[n] = Top
      /\ t \in Names
  <2>1. stack[n] = Top /\ ph \in Phases
    BY DEF Top, Phases
  <2>2. /\ GradeTypeOK /\ Top' = [test |-> t, phase |-> ph]
        /\ stack' \in Seq(Calls) /\ Len(stack') = n /\ stack' # <<>>
        /\ n \in 1 .. 2
        /\ \A k \in 1 .. n : stack'[k].test = stack[k].test
        /\ \A k \in 1 .. n : k # n => stack'[k].phase = stack[k].phase
        /\ stack'[n].phase = ph /\ t \in Names
    BY <2>1, GotoIs DEF GInv
  <2>3. Top'.test = t /\ Top'.phase = ph
    BY <2>2
  <2> QED BY <2>1, <2>2, <2>3
<1> HIDE DEF n, t
<1>n. n = Len(stack) /\ t = Top.test
  BY DEF n, t
<1>2. GradeTypeOK'
  BY <1>1, <1>n DEF GInv, RunInv, GradeTypeOK
<1>3. Nesting'
  <2>1. ASSUME n = 2
        PROVE  /\ stack'[1].phase = "start" /\ stack'[1].test # "jos"
               /\ stack'[1].test \in complete /\ stack'[2].test = "jos"
    BY <1>1, <1>n, <2>1 DEF GInv, Nesting
  <2>2. i > 1 /\ stack'[1].test = TESTS[i - 1]
    BY <1>1, <1>n DEF GInv, Nesting
  <2>3. t \in complete /\ ("pse" \in complete => i = Len(TESTS) + 1)
    BY <1>n DEF GInv, Nesting
  <2> QED BY <1>1, <1>n, <2>1, <2>2, <2>3 DEF Nesting
<1>4. Verdicts'
  <2>1. \A k \in 1 .. n : stack'[k].phase \in Unjudged =>
          verdict[stack'[k].test] = None
    <3> SUFFICES ASSUME NEW k \in 1 .. n, stack'[k].phase \in Unjudged
                 PROVE  verdict[stack'[k].test] = None
      OBVIOUS
    <3>1. stack[k].phase \in Unjudged
      BY <1>1 DEF Unjudged
    <3> QED BY <1>1, <1>n, <3>1 DEF GInv, Verdicts
  <2>2. "jos" \in complete =>
          verdict["jos"] # None \/ (t = "jos" /\ ph \in Unjudged)
    BY <1>n DEF GInv, Verdicts, Unjudged
  <2>3. n = 1 /\ stack'[1].test # "jos" => verdict["jos"] # None
    BY <1>1, <1>n DEF GInv, Verdicts
  <2>4. \A u \in Names \ complete : verdict[u] = None
    BY DEF GInv, Verdicts
  <2>5. ph \notin Judgable
    BY DEF Judgable
  <2> QED BY <1>1, <2>1, <2>2, <2>3, <2>4, <2>5 DEF Verdicts
<1>5. Ownership'
  <2>1. \A k \in 1 .. n : stack'[k].phase \in {"start", "body"} =>
          stack'[k].test \notin on_finish
    <3> SUFFICES ASSUME NEW k \in 1 .. n, stack'[k].phase \in {"start", "body"}
                 PROVE  stack'[k].test \notin on_finish
      OBVIOUS
    <3>1. stack[k].phase \in {"start", "body"}
      BY <1>1
    <3> QED BY <1>1, <1>n, <3>1 DEF GInv, Ownership
  <2>2. /\ verdict["jos"] # None /\ "pse" \notin complete => qemu = "jos"
        /\ on_finish \subseteq RunsQemu \cap complete
    BY DEF GInv, Ownership
  <2>3. CURRENT_TEST' = t /\ (ph = "match" => qemu = t)
        /\ (ph = "run" => pc' \in {"new", "exited"})
    BY <1>n
  <2>4. ph \notin Judgable
    BY DEF Judgable
  <2> QED BY <1>1, <2>1, <2>2, <2>3, <2>4 DEF Ownership
<1>6. Sums'
  <2>1. \A V : Pending(V) = 0 /\ Pending(V)' = 0
    BY <1>1 DEF Pending
  <2> QED BY <2>1 DEF GInv, Sums, Scoring
<1> QED BY <1>2, <1>3, <1>4, <1>5, <1>6 DEF GInv

LEMMA PhaseStep ==
  ASSUME GInv, RunInv',
         StartsBody \/ CallsRunQemu \/ Returned \/ Skips \/ Matches \/ Raised
  PROVE  GInv'
<1>c. stack # <<>> /\ Top.phase \notin {"enter", "start"} => CURRENT_TEST = Top.test
  BY DEF GInv, Ownership
<1>1. CASE StartsBody
  <2>1. /\ stack' = Goto("body") /\ stack # <<>> /\ Top.phase = "start"
        /\ UNCHANGED <<limit, i, complete, qemu, on_finish>>
        /\ UNCHANGED <<verdict, TOTAL, POSSIBLE, status>>
        /\ CURRENT_TEST' = Top.test /\ UNCHANGED vars
    BY <1>1 DEF StartsBody, AtPhase, runner, scores
  <2>2. Listening'
    <3>1. Top'.phase = "body"
      BY <2>1, GotoIs DEF GInv, Phases
    <3>2. ~InRun /\ ~InRun' /\ proc' = proc /\ port' = port /\ pc' = pc
      BY <2>1, <3>1 DEF InRun, vars
    <3> QED BY <2>1, <3>2 DEF GInv, Listening
  <2> QED BY <2>1, <2>2, GotoStep
<1>2. CASE CallsRunQemu
  <2>1. /\ stack' = Goto("run") /\ stack # <<>> /\ Top.phase = "body"
        /\ Top.test \in RunsQemu /\ pc' = "new" /\ proc' = "none" /\ port' = port
        /\ UNCHANGED <<limit, i, complete, CURRENT_TEST, qemu, on_finish>>
        /\ UNCHANGED <<verdict, TOTAL, POSSIBLE, status>>
    BY <1>2 DEF CallsRunQemu, AtPhase, runner, scores
  <2>2. Listening'
    <3>1. Top'.phase = "run" /\ stack' # <<>>
      BY <2>1, GotoIs DEF GInv, Phases
    <3>2. ~InRun /\ InRun'
      BY <2>1, <3>1 DEF InRun
    <3> QED BY <2>1, <3>2 DEF GInv, Listening
  <2> QED BY <1>c, <2>1, <2>2, GotoStep
<1>3. CASE Returned
  <2>1. /\ stack # <<>> /\ Top.phase = "run" /\ pc = "returned"
        /\ UNCHANGED <<vars, limit, i, complete, CURRENT_TEST, qemu, on_finish>>
        /\ UNCHANGED <<TOTAL, POSSIBLE, status>>
    BY <1>3 DEF Returned, AtPhase, runner
  <2>2. qemu = Top.test /\ Top.test \in RunsQemu
    BY <2>1 DEF GInv, Ownership, Nesting
  <2>3. CASE Top.test \in Matching /\ stack' = Goto("match") /\ verdict' = verdict
    <3>1. Top.test = "pse"
      BY <2>2, <2>3 DEF Matching, RunsQemu
    <3>2. Listening'
      <4>1. Top'.phase = "match"
        BY <2>1, <2>3, GotoIs DEF GInv, Phases
      <4>2. ~InRun' /\ proc' = proc /\ port' = port /\ pc' = pc
        BY <4>1, <2>1 DEF InRun, vars
      <4>3. proc = "dead"
        BY <2>1 DEF GInv, RunInv, Handles
      <4> QED BY <2>1, <4>2, <4>3 DEF GInv, Listening
    <3> QED BY <1>c, <2>1, <2>2, <2>3, <3>1, <3>2, GotoStep
  <2>4. CASE Judged("OK")
    BY <2>1, <2>2, <2>4, JudgedStep
  <2> QED BY <1>3, <2>3, <2>4 DEF Returned
<1>4. CASE Skips
  <2>1. /\ stack # <<>> /\ Top.phase = "body" /\ Top.test = "pse"
        /\ Judged("SKIPPED")
        /\ UNCHANGED <<vars, limit, i, complete, CURRENT_TEST, qemu, on_finish>>
        /\ UNCHANGED <<TOTAL, POSSIBLE, status>>
    BY <1>4 DEF Skips, AtPhase, MaySkip, runner
  <2> QED BY <2>1, JudgedStep
<1>5. CASE Matches
  <2>1. /\ stack # <<>>
        /\ \/ Top.phase = "body" /\ Top.test \notin RunsQemu
           \/ Top.phase = "match"
        /\ \E v \in {"OK", "FAIL"} : Judged(v)
        /\ UNCHANGED <<vars, limit, i, complete, CURRENT_TEST, qemu, on_finish>>
        /\ UNCHANGED <<TOTAL, POSSIBLE, status>>
    BY <1>5 DEF Matches, AtPhase, runner, assert_lines_match
  <2>2. PICK v \in {"OK", "FAIL"} : Judged(v)
    BY <2>1
  <2>3. Top.phase = "match" =>
          (Top.test \in RunsQemu => qemu = Top.test)
    <3>1. Top.phase = "match" => verdict[Top.test] = None
      <4>1. Len(stack) \in 1 .. Len(stack) /\ Top = stack[Len(stack)]
        BY <2>1, StackFacts DEF GInv, Top
      <4> QED BY <4>1 DEF GInv, Verdicts, Unjudged
    <3> QED BY <2>1, <3>1, TestNames DEF GInv, Ownership
  <2> QED BY <2>1, <2>2, <2>3, JudgedStep
<1>6. CASE Raised
  <2>1. /\ stack # <<>> /\ Top.phase = "run" /\ pc = "raised"
        /\ UNCHANGED <<vars, limit, i, complete, CURRENT_TEST, qemu, on_finish>>
        /\ UNCHANGED <<TOTAL, POSSIBLE>>
    BY <1>6 DEF Raised, AtPhase, runner
  <2>2. CASE Judged("FAIL") /\ status' = status
    <3>1. qemu = Top.test
      BY <2>1 DEF GInv, Ownership
    <3> QED BY <2>1, <2>2, <3>1, JudgedStep
  <2>3. CASE status' = "exit_1" /\ stack' = stack /\ verdict' = verdict
    <3>1. /\ proc' = proc /\ port' = port /\ pc' = pc /\ InRun' = InRun
          /\ UNCHANGED <<structure, scores>>
      BY <2>1, <2>3 DEF vars, InRun, Top, structure, scores
    <3>2. Listening'
      BY <2>1, <3>1 DEF GInv, Listening
    <3> QED BY <2>1, <2>3, <3>1, <3>2, StructureKept
  <2> QED BY <1>6, <2>2, <2>3 DEF Raised
<1> QED BY <1>1, <1>2, <1>3, <1>4, <1>5, <1>6

(* A test begins: jos by itself, every other after a call of jos.          *)
LEMMA EntersStep ==
  ASSUME GInv, RunInv', Enters
  PROVE  GInv'
<1> DEFINE t == Top.test  m == Len(stack')
<1>1. /\ stack # <<>> /\ Top.phase = "enter" /\ t \notin complete
      /\ complete' = complete \cup {t}
      /\ UNCHANGED <<vars, limit, i, CURRENT_TEST, qemu, on_finish>>
      /\ UNCHANGED <<verdict, TOTAL, POSSIBLE, status>>
  BY DEF Enters, AtPhase, runner, scores
<1>2. t \in Names /\ Len(stack) \in 1 .. 2 /\ t # None
  BY <1>1, GotoSeq, TestNames DEF GInv, Phases
<1>3. verdict[t] = None /\ t \notin on_finish
  BY <1>1, <1>2 DEF GInv, Verdicts, Ownership
<1>4. Len(stack) = 2 => t = "jos"
  BY <1>1 DEF GInv, Nesting, Top
<1>5. /\ stack' \in Seq(Calls) /\ m \in {1, 2} /\ stack' # <<>>
      /\ stack'[1].test = stack[1].test
      /\ m = 1 => t = "jos" /\ stack[1].test = "jos"
      /\ m = 2 => /\ stack'[1].phase = "start" /\ stack'[1].test # "jos"
                  /\ stack'[1].test \in complete'
                  /\ verdict[stack'[1].test] = None
                  /\ stack'[1].test \notin on_finish
                  /\ stack'[2].test = "jos"
      /\ Top' = stack'[m] /\ Top'.test = "jos"
      /\ IF t = "jos" THEN Top'.phase = "start" ELSE Top'.phase = "enter"
  <2>1. CASE t = "jos"
    <3>1. stack' = Goto("start") /\ "start" \in Phases
      BY <1>1, <2>1 DEF Enters, parent, Phases
    <3>2. /\ stack' \in Seq(Calls) /\ m = Len(stack) /\ stack' # <<>>
          /\ Top' = [test |-> "jos", phase |-> "start"]
          /\ \A k \in 1 .. Len(stack) : stack'[k].test = stack[k].test
          /\ \A k \in 1 .. Len(stack) :
               k # Len(stack) => stack'[k].phase = stack[k].phase
      BY <1>1, <2>1, <3>1, GotoIs DEF GInv
    <3>3. Top' = stack'[m] /\ Top = stack[Len(stack)]
      BY DEF Top
    <3>4. CASE Len(stack) = 1
      <4> QED BY <2>1, <3>2, <3>3, <3>4
    <3>5. CASE Len(stack) = 2
      <4>1. /\ stack[1].phase = "start" /\ stack[1].test # "jos"
            /\ stack[1].test \in complete /\ stack[2].test = "jos"
        BY <1>1, <3>5 DEF GInv, Nesting
      <4>2. verdict[stack[1].test] = None /\ stack[1].test \notin on_finish
        <5>1. 1 \in 1 .. Len(stack)
          BY <3>5
        <5> QED BY <4>1, <5>1 DEF GInv, Verdicts, Ownership, Unjudged
      <4>3. /\ stack'[1].test = stack[1].test /\ stack'[1].phase = "start"
            /\ stack'[2].test = stack[2].test
        BY <3>2, <3>5, <4>1
      <4> QED BY <1>1, <2>1, <3>2, <3>3, <3>5, <4>1, <4>2, <4>3
    <3> QED
      <4> DEFINE l == Len(stack)
      <4>1. l \in 1 .. 2
        BY <1>2
      <4> HIDE DEF l
      <4>2. l = 1 \/ l = 2
        BY <4>1
      <4> QED BY <3>4, <3>5, <4>2 DEF l
  <2>2. CASE t # "jos"
    <3>1. Len(stack) = 1
      <4> DEFINE l == Len(stack)
      <4>1. l \in 1 .. 2 /\ l # 2
        BY <1>2, <1>4, <2>2
      <4> HIDE DEF l
      <4>2. l = 1
        BY <4>1
      <4> QED BY <4>2 DEF l
    <3> DEFINE g == Goto("start")  e == Call("jos")
    <3>2. stack' = Append(g, e) /\ "start" \in Phases
      BY <1>1, <2>2, TestNames DEF Enters, parent, Phases
    <3>3. /\ g \in Seq(Calls) /\ Len(g) = 1
          /\ g[1] = [test |-> t, phase |-> "start"]
      BY <1>1, <3>1, <3>2, GotoSeq DEF GInv
    <3>4. e \in Calls /\ e.test = "jos" /\ e.phase = "enter"
      BY TestNames DEF Call, Calls, Phases
    <3> HIDE DEF g, e
    <3>5. /\ stack' \in Seq(Calls) /\ m = 2 /\ stack'[1] = g[1] /\ stack'[2] = e
      <4>0. g \in Seq(Calls) /\ e \in Calls
        BY <3>3, <3>4
      <4>1. /\ Append(g, e) \in Seq(Calls) /\ Len(Append(g, e)) = Len(g) + 1
            /\ \A k \in 1 .. Len(g) : Append(g, e)[k] = g[k]
            /\ Append(g, e)[Len(g) + 1] = e
        BY <4>0, AppendProperties
      <4>2. Len(g) + 1 = 2 /\ 1 \in 1 .. Len(g)
        BY <3>3
      <4> QED BY <3>2, <4>1, <4>2
    <3>6. stack[1] = Top
      BY <3>1 DEF Top
    <3>7. stack' # <<>> /\ Top' = stack'[2]
      BY <3>5 DEF Top
    <3>8. stack'[1].test = t /\ stack'[1].phase = "start"
      BY <3>3, <3>5
    <3> QED BY <1>1, <1>3, <2>2, <3>4, <3>5, <3>6, <3>7, <3>8
  <2> QED BY <2>1, <2>2
<1> HIDE DEF t, m
<1>m. m = Len(stack') /\ t = Top.test
  BY DEF m, t
<1>6. GradeTypeOK'
  <2>1. Len(stack') <= 2
    <3>1. m <= 2
      BY <1>5
    <3> QED BY <3>1 DEF m
  <2> QED BY <1>1, <1>2, <1>5, <2>1 DEF GInv, RunInv, GradeTypeOK
<1>7. Nesting'
  <2>1. i > 1 /\ stack[1].test = TESTS[i - 1]
    BY <1>1 DEF GInv, Nesting
  <2>2. "pse" \in complete' => i = Len(TESTS) + 1
    <3> SUFFICES ASSUME t = "pse" PROVE i = Len(TESTS) + 1
      BY <1>1 DEF GInv, Nesting
    <3>1. stack[1] = Top
      <4>1. Len(stack) = 1
        <5> DEFINE l == Len(stack)
        <5>1. l \in 1 .. 2 /\ l # 2
          BY <1>2, <1>4
        <5> HIDE DEF l
        <5>2. l = 1
          BY <5>1
        <5> QED BY <5>2 DEF l
      <4> QED BY <4>1 DEF Top
    <3>2. TESTS[i - 1] = "pse"
      BY <1>m, <2>1, <3>1
    <3>3. i \in 1 .. 7 /\ i - 1 \in 1 .. 6
      BY <2>1, TestNames DEF GInv, GradeTypeOK
    <3>4. i - 1 = 6
      BY <3>2, <3>3, TestNames, Zenon
    <3>5. i = 6 + 1
      BY <3>3, <3>4
    <3> QED BY <3>5, TestNames
  <2>3. Top'.phase # "run" /\ Top'.phase # "match"
    BY <1>5
  <2>4. Top'.phase # "enter" => Top'.test \in complete'
    BY <1>1, <1>5
  <2> QED BY <1>1, <1>5, <1>m, <2>1, <2>2, <2>3, <2>4 DEF Nesting
<1>8. Verdicts'
  <2>1. \A k \in 1 .. m : stack'[k].phase \in Unjudged =>
          verdict[stack'[k].test] = None
    <3>1. \A k \in 1 .. m : k = m \/ (m = 2 /\ k = 1)
      BY <1>5
    <3>2. Top'.phase \in Unjudged => verdict[Top'.test] = None
      BY <1>3, <1>5 DEF Unjudged
    <3> QED BY <1>5, <3>1, <3>2
  <2>2. \A u \in Names \ complete' : verdict[u] = None
    BY <1>1 DEF GInv, Verdicts
  <2>3. Top'.phase \notin Judgable
    BY <1>5 DEF Judgable
  <2>4. "jos" \in complete' =>
          verdict["jos"] # None \/ (Top'.test = "jos" /\ Top'.phase \in Unjudged)
    <3>1. CASE t = "jos"
      BY <1>5, <3>1 DEF Unjudged
    <3>2. CASE t # "jos"
      <4>1. "jos" \in complete => verdict["jos"] # None
        <5>1. "jos" \in complete =>
                verdict["jos"] # None \/ Top.test = "jos"
          BY DEF GInv, Verdicts
        <5> QED BY <1>m, <3>2, <5>1
      <4> QED BY <1>1, <3>2, <4>1
    <3> QED BY <3>1, <3>2
  <2>5. m = 1 => stack'[1].test = "jos"
    BY <1>5
  <2> QED BY <1>1, <1>5, <1>m, <2>1, <2>2, <2>3, <2>4, <2>5 DEF Verdicts
<1>9. Ownership'
  <2>1. \A k \in 1 .. m : stack'[k].phase \in {"start", "body"} =>
          stack'[k].test \notin on_finish
    <3>1. \A k \in 1 .. m : k = m \/ (m = 2 /\ k = 1)
      BY <1>5
    <3>2. Top'.phase = "start" => Top'.test \notin on_finish
      BY <1>3, <1>5
    <3> QED BY <1>5, <3>1, <3>2
  <2>2. /\ verdict["jos"] # None /\ "pse" \notin complete' => qemu = "jos"
        /\ on_finish \subseteq RunsQemu \cap complete'
    BY <1>1 DEF GInv, Ownership
  <2>3. Top'.phase \in {"enter", "start"} /\ Top'.phase \notin Judgable
        /\ Top'.phase # "match" /\ Top'.phase # "run"
    BY <1>5 DEF Judgable
  <2> QED BY <1>1, <1>m, <2>1, <2>2, <2>3 DEF Ownership
<1>10. Listening'
  <2>1. ~InRun /\ ~InRun' /\ proc' = proc /\ port' = port /\ pc' = pc
    BY <1>1, <1>5 DEF InRun, vars
  <2> QED BY <1>1, <2>1 DEF GInv, Listening
<1>11. Sums'
  <2>1. \A V : Pending(V) = 0 /\ Pending(V)' = 0
    BY <1>1, <1>5 DEF Pending
  <2> QED BY <1>1, <2>1 DEF GInv, Sums, Scoring
<1> QED BY <1>6, <1>7, <1>8, <1>9, <1>10, <1>11 DEF GInv

(* A test's points are counted as it is displayed.                         *)
LEMMA DisplaysStep ==
  ASSUME GInv, RunInv', Displays
  PROVE  GInv'
<1> DEFINE n == Len(stack)  t == Top.test
<1>1. /\ stack # <<>> /\ Top.phase = "display" /\ stack' = Goto("callbacks")
      /\ POSSIBLE' = POSSIBLE + Worth(t)
      /\ TOTAL' = IF verdict[t] = "FAIL" THEN TOTAL ELSE TOTAL + Worth(t)
      /\ UNCHANGED <<vars, limit, i, complete, CURRENT_TEST, qemu, on_finish>>
      /\ verdict' = verdict /\ status' = status
  BY DEF Displays, AtPhase, runner
<1>2. /\ stack' \in Seq(Calls) /\ Len(stack') = n /\ stack' # <<>>
      /\ n \in 1 .. 2
      /\ Top'.test = t /\ Top'.phase = "callbacks"
      /\ \A k \in 1 .. n : stack'[k].test = stack[k].test
      /\ \A k \in 1 .. n : k # n => stack'[k].phase = stack[k].phase
      /\ stack'[n].phase = "callbacks" /\ stack[n] = Top
      /\ t \in Names
  <2>1. stack[n] = Top /\ "callbacks" \in Phases
    BY DEF Top, Phases
  <2>2. /\ GradeTypeOK /\ Top' = [test |-> t, phase |-> "callbacks"]
        /\ stack' \in Seq(Calls) /\ Len(stack') = n /\ stack' # <<>>
        /\ n \in 1 .. 2
        /\ \A k \in 1 .. n : stack'[k].test = stack[k].test
        /\ \A k \in 1 .. n : k # n => stack'[k].phase = stack[k].phase
        /\ stack'[n].phase = "callbacks" /\ t \in Names
    BY <1>1, <2>1, GotoIs DEF GInv
  <2>3. Top'.test = t /\ Top'.phase = "callbacks"
    BY <2>2
  <2> QED BY <2>1, <2>2, <2>3
<1> HIDE DEF n, t
<1>n. n = Len(stack) /\ t = Top.test
  BY DEF n, t
<1>3. verdict[t] \in {"OK", "FAIL", "SKIPPED"} /\ t \in complete
  <2>1. verdict[t] # None /\ t \in complete
    BY <1>1, <1>n DEF GInv, Verdicts, Nesting, Judgable
  <2> QED BY <1>2, <2>1 DEF GInv, GradeTypeOK
<1>4. Sums' /\ TOTAL' \in 0 .. 6 /\ POSSIBLE' \in 0 .. 6
  <2> DEFINE W1 == {"OK"}  W2 == {"OK", "FAIL"}
             c1 == Cardinality(Scoring(W1))  c2 == Cardinality(Scoring(W2))
  <2>1. TOTAL \in Nat /\ POSSIBLE \in Nat /\ points(t) \in {0, 1}
    BY TestNames DEF GInv, GradeTypeOK, points
  <2>2. /\ Pending(W1) = (IF verdict[t] = "OK" THEN points(t) ELSE 0)
        /\ Pending(W2) = Worth(t)
    BY <1>1, <1>3, <1>n DEF Pending, Worth
  <2>3. c1 \in 0 .. 6 /\ c2 \in 0 .. 6
    BY ScoringFinite
  <2>4. TOTAL + Pending(W1) = c1 /\ POSSIBLE + Pending(W2) = c2
    BY DEF GInv, Sums
  <2>5. Pending(W1)' = 0 /\ Pending(W2)' = 0
    BY <1>2 DEF Pending
  <2>6. c1' = c1 /\ c2' = c2
    BY <1>1 DEF Scoring
  <2> HIDE DEF c1, c2
  <2>7. TOTAL' = c1 /\ POSSIBLE' = c2
    <3>1. POSSIBLE' = c2
      BY <1>1, <2>2, <2>4
    <3>2. CASE verdict[t] = "OK"
      <4>1. Worth(t) = points(t)
        BY <3>2 DEF Worth
      <4> QED BY <1>1, <2>2, <2>4, <3>1, <3>2, <4>1
    <3>3. CASE verdict[t] = "FAIL"
      BY <1>1, <2>1, <2>2, <2>4, <3>1, <3>3
    <3>4. CASE verdict[t] = "SKIPPED"
      <4>1. Worth(t) = 0
        BY <3>4 DEF Worth
      <4> QED BY <1>1, <2>1, <2>2, <2>4, <3>1, <3>4, <4>1
    <3> QED BY <1>3, <3>2, <3>3, <3>4
  <2>8. /\ TOTAL' + Pending(W1)' = c1' /\ POSSIBLE' + Pending(W2)' = c2'
    BY <2>3, <2>5, <2>6, <2>7
  <2> QED BY <2>3, <2>7, <2>8 DEF Sums, c1, c2
<1>5. GradeTypeOK'
  BY <1>1, <1>2, <1>4, <1>n, TestNames DEF GInv, RunInv, GradeTypeOK
<1>6. Nesting'
  BY <1>1, <1>2, <1>3, <1>n DEF GInv, Nesting
<1>7. Verdicts'
  <2>1. \A k \in 1 .. n : stack'[k].phase \in Unjudged =>
          verdict[stack'[k].test] = None
    BY <1>2, <1>n DEF GInv, Verdicts, Unjudged
  <2>2. verdict[t] # None
    BY <1>3, TestNames
  <2>3. "jos" \in complete => verdict["jos"] # None
    BY <1>1 DEF GInv, Verdicts, Unjudged
  <2>4. n = 1 /\ stack'[1].test # "jos" => verdict["jos"] # None
    <3> SUFFICES ASSUME n = 1, stack'[1].test # "jos"
                 PROVE  verdict["jos"] # None
      OBVIOUS
    <3>1. stack[1].test # "jos" /\ stack[1].phase # "enter"
      BY <1>1, <1>2, <1>n
    <3> QED BY <1>1, <1>n, <3>1 DEF GInv, Verdicts
  <2>5. \A u \in Names \ complete : verdict[u] = None
    BY DEF GInv, Verdicts
  <2> QED BY <1>1, <1>2, <1>n, <2>1, <2>2, <2>3, <2>4, <2>5 DEF Verdicts
<1>8. Ownership'
  <2>1. \A k \in 1 .. n : stack'[k].phase \in {"start", "body"} =>
          stack'[k].test \notin on_finish
    BY <1>2, <1>n DEF GInv, Ownership
  <2>2. /\ t \in RunsQemu /\ verdict[t] # "SKIPPED" => qemu = t
        /\ CURRENT_TEST = t
        /\ verdict[t] = "SKIPPED" => t \notin on_finish
        /\ verdict["jos"] # None /\ "pse" \notin complete => qemu = "jos"
        /\ on_finish \subseteq RunsQemu \cap complete
    BY <1>1, <1>n DEF GInv, Ownership, Judgable
  <2> QED BY <1>1, <1>2, <1>n, <2>1, <2>2 DEF Ownership, Judgable
<1>9. Listening'
  <2>1. ~InRun /\ ~InRun' /\ proc' = proc /\ port' = port /\ pc' = pc
    BY <1>1, <1>2 DEF InRun, vars
  <2> QED BY <1>1, <2>1 DEF GInv, Listening
<1> QED BY <1>4, <1>5, <1>6, <1>7, <1>8, <1>9 DEF GInv

-----------------------------------------------------------------------------
(* The theorems about the tests.                                           *)

LEMMA GradeStart == GradeInit => GInv
<1> SUFFICES ASSUME GradeInit PROVE GInv
  OBVIOUS
<1>1. /\ Init /\ limit \in Limits /\ i = 1 /\ stack = <<>> /\ complete = {}
      /\ CURRENT_TEST = None /\ qemu = None /\ on_finish = {}
      /\ verdict = [t \in Names |-> None] /\ TOTAL = 0 /\ POSSIBLE = 0
      /\ status = "building"
  BY DEF GradeInit
<1>2. RunInv
  BY <1>1, RunInit
<1>3. stack \in Seq(Calls) /\ Len(stack) = 0
  BY <1>1
<1>4. GradeTypeOK
  <2>1. i \in 1 .. Len(TESTS) + 1 /\ TOTAL \in 0 .. Len(TESTS)
        /\ POSSIBLE \in 0 .. Len(TESTS) /\ Len(stack) <= 2
    BY <1>1, <1>3, TestNames
  <2>2. verdict \in [Names -> {None, "OK", "FAIL", "SKIPPED"}]
    BY <1>1
  <2> QED BY <1>1, <1>2, <1>3, <2>1, <2>2 DEF GradeTypeOK, RunInv
<1>5. Nesting /\ Verdicts
  BY <1>1, <1>3, TestNames DEF Nesting, Verdicts
<1>6. Ownership
  BY <1>1, <1>3, TestNames DEF Ownership
<1>7. Listening
  BY <1>1 DEF Listening, InRun, Init
<1>8. Sums
  <2>1. \A V : Pending(V) = 0
    BY <1>1 DEF Pending
  <2>2. Scoring({"OK"}) = {} /\ Scoring({"OK", "FAIL"}) = {}
    BY <1>1, TestNames DEF Scoring
  <2> QED BY <1>1, <2>1, <2>2, FS_EmptySet DEF Sums
<1> QED BY <1>2, <1>4, <1>5, <1>6, <1>7, <1>8 DEF GInv

LEMMA GradeStep == GInv /\ [GradeNext]_allvars => GInv'
<1> SUFFICES ASSUME GInv, [GradeNext]_allvars PROVE GInv'
  OBVIOUS
<1>1. RunInv'
  BY RunStep DEF GInv
<1>2. CASE \/ Builds \/ Exited \/ Scores \/ InterruptEnds \/ Interrupt
           \/ UNCHANGED allvars
  BY <1>1, <1>2, WaysOut DEF Interrupt
<1>3. CASE World
  BY <1>1, <1>3, WorldStep
<1>4. CASE Calling \/ AlreadyComplete \/ Finishes
  BY <1>1, <1>4, CallingStep, ReturnStep
<1>5. CASE StartsBody \/ CallsRunQemu \/ Returned \/ Skips \/ Matches \/ Raised
  BY <1>1, <1>5, PhaseStep
<1>6. CASE Enters \/ Displays \/ Runs
  BY <1>1, <1>6, EntersStep, DisplaysStep, RunsStep
<1> QED BY <1>2, <1>3, <1>4, <1>5, <1>6 DEF GradeNext, Grade

(* A test is judged by the output of its own run or of its parent's, and   *)
(* save() files the log of a run under the test that made it.              *)
THEOREM JudgedByOwnRun == GradeSpec => []JudgesOwnRun
<1>1. GInv => JudgesOwnRun
  <2> SUFFICES ASSUME GInv PROVE JudgesOwnRun
    OBVIOUS
  <2>1. ASSUME AtPhase("display"), verdict[Top.test] # "SKIPPED"
        PROVE  qemu = IF Top.test \in RunsQemu THEN Top.test
                      ELSE parent(Top.test)
    <3>1. stack # <<>> /\ Top.phase = "display"
      BY <2>1 DEF AtPhase
    <3>2. CASE Top.test \in RunsQemu
      BY <2>1, <3>1, <3>2 DEF GInv, Ownership, Judgable
    <3>3. CASE Top.test \notin RunsQemu
      <4> DEFINE n == Len(stack)
      <4>1. n \in 1 .. 2 /\ Top = stack[n] /\ Top.test # "jos"
        BY <3>1, <3>3, StackFacts DEF GInv, Top, RunsQemu
      <4>2. n = 2 => Top.test = "jos"
        BY <3>1, <4>1 DEF GInv, Nesting
      <4> HIDE DEF n
      <4>3. n = 1 /\ Top = stack[1]
        BY <4>1, <4>2
      <4>4. verdict["jos"] # None
        BY <3>1, <4>1, <4>3 DEF n, GInv, Verdicts
      <4>5. "pse" \notin complete
        <5>1. i - 1 \in 1 .. 6 /\ stack[1].test = TESTS[i - 1]
          BY <3>1, TestNames DEF GInv, Nesting, GradeTypeOK
        <5>2. TESTS[i - 1] # "pse"
          BY <3>3, <4>3, <5>1 DEF RunsQemu
        <5>3. i - 1 # 6
          BY <5>2, TestNames
        <5>4. i # 6 + 1
          BY <5>1, <5>3
        <5> QED BY <5>4, TestNames DEF GInv, Nesting
      <4> QED BY <3>3, <4>1, <4>4, <4>5 DEF GInv, Ownership, parent
    <3> QED BY <3>2, <3>3
  <2>2. ASSUME NEW ph \in {"body", "run", "match", "display", "callbacks"},
               AtPhase(ph)
        PROVE  CURRENT_TEST = Top.test
    BY <2>2 DEF AtPhase, GInv, Ownership
  <2>3. on_finish \subseteq RunsQemu
    BY DEF GInv, Ownership
  <2>4. ASSUME AtPhase("callbacks"), Top.test \in on_finish
        PROVE  qemu = Top.test
    <3>1. stack # <<>> /\ Top.phase = "callbacks"
      BY <2>4 DEF AtPhase
    <3> QED BY <2>3, <2>4, <3>1 DEF GInv, Ownership, Judgable
  <2>5. GradeTypeOK
    BY DEF GInv
  <2> QED BY <2>1, <2>2, <2>3, <2>4, <2>5 DEF JudgesOwnRun
<1> QED BY GradeStart, GradeStep, <1>1, PTL DEF GradeSpec

(* A run that got a connection leaves QEMU dead and reaped, and the next   *)
(* one finds the GDB port free.                                            *)
THEOREM PortIsFree == GradeSpec => []PortFree
<1>1. GInv => PortFree
  <2> SUFFICES ASSUME GInv PROVE PortFree
    OBVIOUS
  <2>1. pc \in {"returned", "raised"} =>
          proc = "dead" /\ ~child /\ gdb = "closed"
    BY DEF GInv, RunInv, Handles
  <2>2. AtPhase("run") /\ pc = "new" /\ qemu # None => ~port
    BY DEF GInv, Listening, RunInv, Handles
  <2> QED BY <2>1, <2>2 DEF PortFree
<1> QED BY GradeStart, GradeStep, <1>1, PTL DEF GradeSpec

(* The score counts every test that was run exactly once.                  *)
THEOREM ScoreCorrect == GradeSpec => []ScoreIsSum
<1>1. GInv => ScoreIsSum
  <2> SUFFICES ASSUME GInv, stack = <<>>
               PROVE  /\ TOTAL = Cardinality(Scoring({"OK"}))
                      /\ POSSIBLE = Cardinality(Scoring({"OK", "FAIL"}))
    BY DEF ScoreIsSum
  <2>1. Pending({"OK"}) = 0 /\ Pending({"OK", "FAIL"}) = 0
    BY DEF Pending
  <2>2. TOTAL \in Nat /\ POSSIBLE \in Nat
    BY TestNames DEF GInv, GradeTypeOK
  <2> QED BY <2>1, <2>2 DEF GInv, Sums
<1> QED BY GradeStart, GradeStep, <1>1, PTL DEF GradeSpec
=============================================================================
