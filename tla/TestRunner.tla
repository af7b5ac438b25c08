----------------------------- MODULE TestRunner -----------------------------
(***************************************************************************)
(* Runner.run_qemu of gradelib.py: one run of the kernel under QEMU, as    *)
(* grade-lab1 and grade-lab2 make it, with the monitors save and           *)
(* stop_breakpoint.  Three parties act on their own: the script, the child *)
(* process (make, then QEMU with its GDB stub) and the clock.  The script  *)
(* reacts to the child's output pipe and to the GDB socket through select; *)
(* a breakpoint, the end of the child or a deadline ends the reaction, and *)
(* the script shuts QEMU down.                                             *)
(*                                                                         *)
(* Abstracted: the child is one process, its death closes pipe and socket; *)
(* output is a sequence of chunks; the only packet the stub sends on its   *)
(* own is the T05 of a breakpoint, which may arrive in two parts.          *)
(***************************************************************************)
EXTENDS Naturals, Sequences

CONSTANT
  PipeSize  \* chunks the pipe holds before its writer blocks

ASSUME RunnerAssumption == PipeSize \in Nat \ {0}

(* Output that ends a line, and output that does not.                      *)
Chunks == {"part", "line"}

VARIABLES
  proc,     \* the child process: "none", "up" or "dead"
  port,     \* somebody listens on the GDB port
  pipe,     \* output written and not yet read
  inbox,    \* parts of packets sent by the stub and not yet received
  machine,  \* the guest: "held", "running" or "stopped"
  killed,   \* SIGTERM has been sent to the child
  child,    \* self.qemu.proc is not None
  gdb,      \* self.gdb: "none", "open", or "closed" when its sock is None
  gbuf,     \* __buf of the GDBClient
  pc,       \* where run_qemu is
  at,       \* where __react is
  ready,    \* the reactors select returned and handle_read has not seen
  expired,  \* the deadline of __react has passed
  timedOut, \* "Timeout! " has been printed
  raising   \* the finally block was entered by an exception

guest == <<proc, port, pipe, inbox, machine>>
client == <<child, gdb, gbuf>>
react == <<pc, at, ready, expired>>
outcome == <<timedOut, raising>>
vars == <<proc, port, pipe, inbox, machine, killed, child, gdb, gbuf,
          pc, at, ready, expired, timedOut, raising>>

ReactPhases == {"start", "run", "shutdown"}
Finals      == {"returned", "raised", "exited"}
Parts       == {"other", "T05_head", "T05_tail"}

(* The GDB client keeps back at most the beginning of one packet.          *)
TypeOK ==
  /\ proc \in {"none", "up", "dead"}
  /\ port \in BOOLEAN
  /\ pipe \in Seq(Chunks) /\ Len(pipe) <= PipeSize
  /\ inbox \in Seq(Parts)
  /\ machine \in {"held", "running", "stopped"}
  /\ killed \in BOOLEAN
  /\ child \in BOOLEAN
  /\ gdb \in {"none", "open", "closed"}
  /\ gbuf \in {<<>>, <<"T05_head">>}
  /\ pc \in ReactPhases \cup Finals
            \cup {"new", "monitors", "kill", "close", "reap"}
  /\ at \in {"top", "select", "handle", "connect"}
  /\ ready \subseteq {"qemu", "gdb"}
  /\ expired \in BOOLEAN
  /\ timedOut \in BOOLEAN
  /\ raising \in BOOLEAN

(* Another QEMU may be running already.                                    *)
Init ==
  /\ proc = "none" /\ port \in BOOLEAN
  /\ pipe = <<>> /\ inbox = <<>>
  /\ machine = "held" /\ killed = FALSE
  /\ child = FALSE /\ gdb = "none" /\ gbuf = <<>>
  /\ pc = "new" /\ at = "top" /\ ready = {}
  /\ expired = FALSE /\ timedOut = FALSE /\ raising = FALSE

-----------------------------------------------------------------------------
(* The child process and the clock.                                        *)

(* make writes before QEMU opens its port, the guest while it runs.        *)
Prints ==
  /\ proc = "up" /\ Len(pipe) < PipeSize
  /\ port => machine = "running"
  /\ \E c \in Chunks : pipe' = Append(pipe, c)
  /\ UNCHANGED <<proc, port, inbox, machine, killed, client, react, outcome>>

OpensPort ==
  /\ proc = "up" /\ ~port
  /\ port' = TRUE
  /\ UNCHANGED <<proc, pipe, inbox, machine, killed, client, react, outcome>>

HitsBreakpoint ==
  /\ proc = "up" /\ machine = "running"
  /\ machine' = "stopped"
  /\ inbox' = inbox \o <<"T05_head", "T05_tail">>
  /\ UNCHANGED <<proc, port, pipe, killed, client, react, outcome>>

(* A failed make, a guest that powers off, or SIGTERM.                     *)
Dies ==
  /\ proc = "up"
  /\ proc' = "dead" /\ port' = FALSE
  /\ UNCHANGED <<pipe, inbox, machine, killed, client, react, outcome>>

Expires ==
  /\ pc \in ReactPhases /\ ~expired
  /\ expired' = TRUE
  /\ UNCHANGED <<guest, killed, client, pc, at, ready, outcome>>

-----------------------------------------------------------------------------
(* run_qemu up to its first __react, and the reaction itself.              *)

EnterReact(phase) ==
  pc' = phase /\ at' = "top" /\ ready' = {} /\ expired' = FALSE

AlreadyRunning ==
  /\ pc = "new" /\ port
  /\ pc' = "exited"
  /\ UNCHANGED <<guest, killed, client, at, ready, expired, outcome>>

StartsQEMU ==
  /\ pc = "new" /\ ~port
  /\ proc' = "up" /\ child' = TRUE
  /\ EnterReact("start")
  /\ UNCHANGED <<port, pipe, inbox, machine, killed, gdb, gbuf, outcome>>

(* Without the reaction in the finally block.                              *)
After_no_drain(phase, g) ==
  CASE phase = "start"    -> IF g = "none" THEN "exited" ELSE "monitors"
    [] phase = "run"      -> "close"
    [] phase = "shutdown" -> "close"

(* Where run_qemu goes on after __react, if self.gdb is as g.  Without a   *)
(* connection both the body and the finally block call sys.exit.           *)
After(phase, g) ==
  CASE phase = "start"    -> IF g = "none" THEN "exited" ELSE "monitors"
    [] phase = "run"      -> "kill"
    [] phase = "shutdown" -> "close"

(* TerminateTest, or __react returning.                                    *)
LeaveReact ==
  /\ pc' = After(pc, gdb') /\ at' = "top" /\ ready' = {}
  /\ UNCHANGED expired

Reactors == IF pc = "start" THEN {"qemu"} ELSE {"qemu", "gdb"}

(* Those whose fileno() is not None.                                       *)
OpenReactors_all == Reactors

OpenReactors ==
  {r \in Reactors : IF r = "qemu" THEN child ELSE gdb = "open"}

ReactTop ==
  /\ pc \in ReactPhases /\ at = "top"
  /\ \/ /\ expired
        /\ timedOut' = TRUE
        /\ UNCHANGED client /\ LeaveReact
     \/ /\ ~expired /\ OpenReactors = {}
        /\ UNCHANGED <<client, timedOut>> /\ LeaveReact
     \/ /\ ~expired /\ OpenReactors # {}
        /\ at' = "select"
        /\ UNCHANGED <<client, pc, ready, expired, timedOut>>
  /\ UNCHANGED <<guest, killed, raising>>

Readable(r) ==
  \/ proc = "dead"
  \/ r = "qemu" /\ pipe # <<>>
  \/ r = "gdb" /\ inbox # <<>>

Select ==
  /\ pc \in ReactPhases /\ at = "select"
  /\ ready' = {r \in OpenReactors : Readable(r)}
  /\ ready' # {} \/ expired
  /\ at' = "handle"
  /\ UNCHANGED <<guest, killed, client, pc, expired, outcome>>

AllHandled ==
  /\ pc \in ReactPhases /\ at = "handle" /\ ready = {}
  /\ at' = "top"
  /\ UNCHANGED <<guest, killed, client, pc, ready, expired, outcome>>

-----------------------------------------------------------------------------
(* QEMU.handle_read with the callbacks on_output; the list of reactors has *)
(* qemu before gdb.                                                        *)

QemuOutput ==
  /\ pc \in ReactPhases /\ at = "handle" /\ "qemu" \in ready
  /\ \E k \in 1 .. Len(pipe) :
       /\ pipe' = SubSeq(pipe, k + 1, Len(pipe))
       /\ IF pc = "start" /\ \E n \in 1 .. k : pipe[n] = "line"
            THEN at' = "connect" /\ ready' = {}
            ELSE at' = at /\ ready' = ready \ {"qemu"}
  /\ UNCHANGED <<proc, port, inbox, machine, killed, client, pc, expired,
                 outcome>>

(* End of file: in the start phase the callback raises before wait().      *)
QemuEnds ==
  /\ pc \in ReactPhases /\ at = "handle" /\ "qemu" \in ready
  /\ pipe = <<>> /\ proc = "dead"
  /\ \/ /\ pc = "start"
        /\ UNCHANGED client /\ LeaveReact
     \/ /\ pc # "start"
        /\ child' = FALSE /\ ready' = ready \ {"qemu"}
        /\ UNCHANGED <<gdb, gbuf, pc, at, expired>>
  /\ UNCHANGED <<guest, killed, outcome>>

(* __monitor_start makes a GDBClient, which tries for two seconds.         *)
Connects ==
  /\ pc = "start" /\ at = "connect" /\ port
  /\ gdb' = "open" /\ LeaveReact
  /\ UNCHANGED <<guest, killed, child, gbuf, outcome>>

ConnectFails ==
  /\ pc = "start" /\ at = "connect" /\ ~port
  /\ at' = "handle"
  /\ UNCHANGED <<guest, killed, client, pc, ready, expired, outcome>>

-----------------------------------------------------------------------------
(* GDBClient.handle_read.                                                  *)

HasStop(data) ==
  \E k \in 2 .. Len(data) : data[k - 1] = "T05_head" /\ data[k] = "T05_tail"

(* What stays in __buf once the complete packets are cut off.              *)
Cut_everything(data) == <<>>

Cut(data) ==
  IF data # <<>> /\ data[Len(data)] = "T05_head" THEN <<"T05_head">> ELSE <<>>

GdbPacket ==
  /\ pc \in ReactPhases /\ at = "handle" /\ "gdb" \in ready
  /\ "qemu" \notin ready
  /\ \E k \in 1 .. Len(inbox) :
       LET data == gbuf \o SubSeq(inbox, 1, k) IN
       /\ inbox' = SubSeq(inbox, k + 1, Len(inbox))
       /\ gbuf' = Cut(data)
       /\ UNCHANGED gdb
       /\ \/ /\ HasStop(data)
             /\ LeaveReact
          \/ /\ ~HasStop(data)
             /\ ready' = ready \ {"gdb"}
             /\ UNCHANGED <<pc, at, expired>>
  /\ UNCHANGED <<proc, port, pipe, machine, killed, child, outcome>>

GdbEnds ==
  /\ pc \in ReactPhases /\ at = "handle" /\ "gdb" \in ready
  /\ "qemu" \notin ready
  /\ inbox = <<>> /\ proc = "dead"
  /\ gdb' = "closed" /\ ready' = ready \ {"gdb"}
  /\ UNCHANGED <<guest, killed, child, gbuf, pc, at, expired, outcome>>

-----------------------------------------------------------------------------
(* The rest of run_qemu.                                                   *)

(* The monitors set the breakpoint, cont() lets the guest run.             *)
StartsMonitoring ==
  /\ pc = "monitors"
  /\ IF proc = "up"
       THEN machine' = "running" /\ inbox' = Append(inbox, "other")
       ELSE UNCHANGED <<machine, inbox>>
  /\ EnterReact("run")
  /\ UNCHANGED <<proc, port, pipe, killed, client, outcome>>

(* A symbol that is not found, or a write to a dead child.                 *)
MonitorFails ==
  /\ pc = "monitors"
  /\ pc' = "kill" /\ raising' = TRUE
  /\ UNCHANGED <<guest, killed, client, at, ready, expired, timedOut>>

Kill_forgotten ==
  /\ pc = "kill"
  /\ EnterReact("shutdown")
  /\ UNCHANGED <<guest, killed, client, outcome>>

Kill ==
  /\ pc = "kill"
  /\ killed' = (killed \/ child)
  /\ EnterReact("shutdown")
  /\ UNCHANGED <<guest, client, outcome>>

ClosesGdb ==
  /\ pc = "close"
  /\ gdb' = "closed"
  /\ pc' = "reap"
  /\ UNCHANGED <<guest, killed, child, gbuf, at, ready, expired, outcome>>

(* self.qemu.wait() blocks until the child is dead.                        *)
Reaps_at_once ==
  /\ pc = "reap"
  /\ child' = FALSE
  /\ pc' = IF raising THEN "raised" ELSE "returned"
  /\ UNCHANGED <<guest, killed, gdb, gbuf, at, ready, expired, outcome>>

Reaps ==
  /\ pc = "reap" /\ (child => proc = "dead")
  /\ child' = FALSE
  /\ pc' = IF raising THEN "raised" ELSE "returned"
  /\ UNCHANGED <<guest, killed, gdb, gbuf, at, ready, expired, outcome>>

-----------------------------------------------------------------------------
Child == Prints \/ OpensPort \/ HitsBreakpoint \/ Dies

React ==
  \/ ReactTop \/ Select \/ AllHandled
  \/ QemuOutput \/ QemuEnds \/ Connects \/ ConnectFails
  \/ GdbPacket \/ GdbEnds

Script ==
  \/ AlreadyRunning \/ StartsQEMU \/ StartsMonitoring \/ MonitorFails
  \/ Kill \/ ClosesGdb \/ Reaps
  \/ React

Next == Child \/ Expires \/ Script

(* One call of run_qemu; module Grading has the calls the tests make.      *)
Spec == Init /\ [][Next]_vars

-----------------------------------------------------------------------------
(* Properties.                                                             *)

(* handle_read, whose first act is to use the pipe or the socket, is only  *)
(* called on a reactor that is still open and has something to say.        *)
ReadsOpenReactors ==
  at = "handle" =>
    /\ "qemu" \in ready => child /\ Readable("qemu")
    /\ "gdb" \in ready => gdb = "open" /\ Readable("gdb")

(* A breakpoint is never lost between the socket and the exception: as     *)
(* long as the script still waits for the stop of a guest that has         *)
(* stopped, the rest of the packet is on its way.                          *)
StopHeard ==
  pc = "run" /\ machine = "stopped" /\ gdb = "open" => HasStop(gbuf \o inbox)

(* A run that was stopped by its breakpoint or ended by itself, with no    *)
(* Timeout, has read everything the guest wrote: what a test then matches  *)
(* with Runner.match is complete.                                          *)
OutputComplete == pc = "returned" /\ ~timedOut => pipe = <<>>
=============================================================================
