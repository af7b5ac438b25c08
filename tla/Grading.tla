------------------------------ MODULE Grading ------------------------------
(***************************************************************************)
(* The test structure of gradelib.py (the decorator test and run_tests)    *)
(* with the tests of grade-lab2: which tests run, in which order, how they *)
(* score, and which QEMU run the text belongs to that a test looks at.     *)
(* The calls of run_qemu are runs of TestRunner, one after another, on the *)
(* GDB port they share.                                                    *)
(*                                                                         *)
(* All tests share one Runner, hence one r.qemu, and the global            *)
(* CURRENT_TEST.  Ctrl-C may arrive once, at any time.                     *)
(***************************************************************************)
EXTENDS TestRunner, FiniteSets

CONSTANT None

(* grade-lab2, in the order in which the decorator registers the tests.    *)
TESTS == <<"jos", "page_alloc", "page", "kern_pgdir", "installed_pgdir",
           "pse">>

Names     == {TESTS[k] : k \in DOMAIN TESTS}
parent(t) == IF t = "jos" THEN None ELSE "jos"
points(t) == IF t = "jos" THEN 0 ELSE 1
RunsQemu  == {"jos", "pse"}
MaySkip   == {"pse"}
Matching  == Names \ {"jos"}

ASSUME GradingAssumption ==
  None \notin Names \cup {"OK", "FAIL", "SKIPPED"}

(* What a filter can match: "Page management" is part of the title         *)
(* "Page management 2".                                                    *)
Limits ==
  {lim \in SUBSET Names : "page" \in lim => "installed_pgdir" \in lim}

VARIABLES
  limit,         \* the tests the command line asks for; {} is all of them
  i,             \* the test run_tests is at, an index of TESTS
  stack,         \* calls of run_test in progress, innermost last
  complete,      \* the tests whose run_test.complete is set
  CURRENT_TEST,
  qemu,          \* the test whose run_qemu made r.qemu
  on_finish,     \* the tests with a callback of save() to run at the end
  verdict,       \* of every test: None, "OK", "FAIL" or "SKIPPED"
  TOTAL, POSSIBLE,
  status         \* "building", "running", "interrupted" or the exit code

scores == <<verdict, TOTAL, POSSIBLE>>
structure == <<limit, i, stack, complete, CURRENT_TEST>>
runner == <<qemu, on_finish>>
gradevars == <<structure, runner, scores, status>>
allvars == <<vars, gradevars>>

Phases == {"enter", "start", "body", "run", "match", "display", "callbacks"}
Calls  == [test : Names, phase : Phases]

(* run_test calls itself for a parent only, and no test is counted twice.  *)
GradeTypeOK ==
  /\ TypeOK
  /\ limit \in Limits
  /\ i \in 1 .. Len(TESTS) + 1
  /\ stack \in Seq(Calls) /\ Len(stack) <= 2
  /\ complete \subseteq Names
  /\ CURRENT_TEST \in Names \cup {None}
  /\ qemu \in RunsQemu \cup {None}
  /\ on_finish \subseteq Names
  /\ verdict \in [Names -> {None, "OK", "FAIL", "SKIPPED"}]
  /\ TOTAL \in 0 .. Len(TESTS) /\ POSSIBLE \in 0 .. Len(TESTS)
  /\ status \in {"building", "running", "interrupted", "exit_0", "exit_1"}

GradeInit ==
  /\ Init
  /\ limit \in Limits
  /\ i = 1 /\ stack = <<>> /\ complete = {}
  /\ CURRENT_TEST = None /\ qemu = None /\ on_finish = {}
  /\ verdict = [t \in Names |-> None]
  /\ TOTAL = 0 /\ POSSIBLE = 0
  /\ status = "building"

-----------------------------------------------------------------------------
(* run_tests and the decorator's run_test.                                 *)

Top         == stack[Len(stack)]
AtPhase(ph) == status = "running" /\ stack # <<>> /\ Top.phase = ph
Call(t)     == [test |-> t, phase |-> "enter"]
Goto(ph)    == [stack EXCEPT ![Len(stack)].phase = ph]
Pop         == SubSeq(stack, 1, Len(stack) - 1)

(* make(): no test runs on a kernel that did not build.                    *)
Builds ==
  /\ status = "building"
  /\ status' \in {"running", "exit_1"}
  /\ UNCHANGED <<vars, structure, runner, scores>>

Calling ==
  /\ status = "running" /\ stack = <<>> /\ i <= Len(TESTS)
  /\ IF limit = {} \/ TESTS[i] \in limit
       THEN stack' = <<Call(TESTS[i])>> ELSE UNCHANGED stack
  /\ i' = i + 1
  /\ UNCHANGED <<vars, limit, complete, CURRENT_TEST, runner, scores, status>>

(* run_test: mark, run the parent, and only then become the current test.  *)
AlreadyComplete ==
  /\ AtPhase("enter") /\ Top.test \in complete
  /\ stack' = Pop
  /\ UNCHANGED <<vars, limit, i, complete, CURRENT_TEST, runner, scores,
                 status>>

Enters_current_first ==
  /\ AtPhase("enter") /\ Top.test \notin complete
  /\ complete' = complete \cup {Top.test}
  /\ CURRENT_TEST' = Top.test
  /\ stack' = IF parent(Top.test) = None THEN Goto("body")
              ELSE Append(Goto("body"), Call(parent(Top.test)))
  /\ UNCHANGED <<vars, limit, i, runner, scores, status>>

Enters ==
  /\ AtPhase("enter") /\ Top.test \notin complete
  /\ complete' = complete \cup {Top.test}
  /\ stack' = IF parent(Top.test) = None THEN Goto("start")
              ELSE Append(Goto("start"), Call(parent(Top.test)))
  /\ UNCHANGED <<vars, limit, i, CURRENT_TEST, runner, scores, status>>

StartsBody ==
  /\ AtPhase("start")
  /\ CURRENT_TEST' = Top.test
  /\ stack' = Goto("body")
  /\ UNCHANGED <<vars, limit, i, complete, runner, scores, status>>

(* fn() ends with a verdict for the test.                                  *)
Judged(v) ==
  /\ verdict' = [verdict EXCEPT ![Top.test] = v]
  /\ stack' = Goto("display")

Skips ==
  /\ AtPhase("body") /\ Top.test \in MaySkip
  /\ Judged("SKIPPED")
  /\ UNCHANGED <<vars, limit, i, complete, CURRENT_TEST, runner, TOTAL,
                 POSSIBLE, status>>

(* Whether the lines looked for are in the text is the guest's doing.      *)
assert_lines_match == {"OK", "FAIL"}

(* r.match on the most recent output.                                      *)
Matches ==
  /\ \/ AtPhase("body") /\ Top.test \notin RunsQemu
     \/ AtPhase("match")
  /\ \E v \in assert_lines_match : Judged(v)
  /\ UNCHANGED <<vars, limit, i, complete, CURRENT_TEST, runner, TOTAL,
                 POSSIBLE, status>>

-----------------------------------------------------------------------------
(* The calls of run_qemu.                                                  *)

(* A new QEMU object and a new process; the port is the machine's.         *)
CallsRunQemu ==
  /\ AtPhase("body") /\ Top.test \in RunsQemu
  /\ proc' = "none" /\ pipe' = <<>> /\ inbox' = <<>>
  /\ machine' = "held" /\ killed' = FALSE
  /\ child' = FALSE /\ gdb' = "none" /\ gbuf' = <<>>
  /\ pc' = "new" /\ at' = "top" /\ ready' = {}
  /\ expired' = FALSE /\ timedOut' = FALSE /\ raising' = FALSE
  /\ stack' = Goto("run")
  /\ UNCHANGED <<port, limit, i, complete, CURRENT_TEST, runner, scores,
                 status>>

InRun == stack # <<>> /\ Top.phase = "run"

(* The monitor save empties the log, of which there is one, and leaves a   *)
(* callback with the current test, which keeps a copy or removes an old    *)
(* one.  It is the first monitor and cannot fail.                          *)
save == on_finish \cup {CURRENT_TEST}

Runs ==
  /\ InRun /\ status \in {"running", "interrupted"}
  /\ Script
  /\ on_finish' = IF pc = "monitors" THEN save ELSE on_finish
  /\ qemu' = IF pc = "new" /\ pc' = "start" THEN Top.test ELSE qemu
  /\ UNCHANGED <<structure, scores, status>>

Returned ==
  /\ AtPhase("run") /\ pc = "returned"
  /\ IF Top.test \in Matching
       THEN stack' = Goto("match") /\ UNCHANGED verdict
       ELSE Judged("OK")
  /\ UNCHANGED <<vars, limit, i, complete, CURRENT_TEST, runner, TOTAL,
                 POSSIBLE, status>>

(* A symbol that is not found is an AssertionError, a failed test; any     *)
(* other exception ends the script, and so does sys.exit.                  *)
Raised ==
  /\ AtPhase("run") /\ pc = "raised"
  /\ \/ Judged("FAIL") /\ UNCHANGED status
     \/ status' = "exit_1" /\ UNCHANGED <<stack, verdict>>
  /\ UNCHANGED <<vars, limit, i, complete, CURRENT_TEST, runner, TOTAL,
                 POSSIBLE>>

Exited ==
  /\ InRun /\ status \in {"running", "interrupted"} /\ pc = "exited"
  /\ status' = "exit_1"
  /\ UNCHANGED <<vars, structure, runner, scores>>

-----------------------------------------------------------------------------
(* A skipped test is worth nothing.                                        *)
Worth_full(t) == points(t)

Worth(t) == IF verdict[t] = "SKIPPED" THEN 0 ELSE points(t)

(* An interrupt between the two sums is left out.                          *)
Displays ==
  /\ AtPhase("display")
  /\ POSSIBLE' = POSSIBLE + Worth(Top.test)
  /\ TOTAL' = IF verdict[Top.test] = "FAIL" THEN TOTAL
              ELSE TOTAL + Worth(Top.test)
  /\ stack' = Goto("callbacks")
  /\ UNCHANGED <<vars, limit, i, complete, CURRENT_TEST, runner, verdict,
                 status>>

Finishes ==
  /\ AtPhase("callbacks")
  /\ CURRENT_TEST' = None
  /\ stack' = Pop
  /\ UNCHANGED <<vars, limit, i, complete, runner, scores, status>>

ExitStatus == IF TOTAL < POSSIBLE THEN "exit_1" ELSE "exit_0"

Scores ==
  /\ status = "running" /\ stack = <<>> /\ i > Len(TESTS)
  /\ status' = ExitStatus
  /\ UNCHANGED <<vars, structure, runner, scores>>

-----------------------------------------------------------------------------
(* KeyboardInterrupt leaves the loop of run_tests, through the finally     *)
(* block of run_qemu if that has not begun; during make nobody catches it. *)
Interrupted ==
  /\ status \in {"building", "running"} /\ ~InRun
  /\ status' = IF status = "building" THEN "exit_1" ELSE ExitStatus
  /\ UNCHANGED <<vars, structure, runner, scores>>

InterruptedRun ==
  /\ AtPhase("run") /\ pc \in {"start", "monitors", "run"}
  /\ raising' = TRUE
  /\ pc' = IF gdb = "none" THEN "exited" ELSE "kill"
  /\ status' = "interrupted"
  /\ UNCHANGED <<guest, killed, client, at, ready, expired, timedOut,
                 structure, runner, scores>>

InterruptEnds ==
  /\ status = "interrupted" /\ pc = "raised"
  /\ status' = ExitStatus
  /\ UNCHANGED <<vars, structure, runner, scores>>

(* In the finally block it is raised on, and the rest of it skipped.       *)
InterruptedShutdown ==
  /\ AtPhase("run") /\ pc \in {"kill", "shutdown", "close", "reap"}
  /\ pc' = "exited"
  /\ status' = ExitStatus
  /\ UNCHANGED <<guest, killed, client, at, ready, expired, outcome,
                 structure, runner, scores>>

-----------------------------------------------------------------------------
Grade ==
  \/ Builds \/ Calling \/ AlreadyComplete \/ Enters \/ StartsBody
  \/ Skips \/ Matches \/ CallsRunQemu
  \/ Runs \/ Returned \/ Raised \/ Exited
  \/ Displays \/ Finishes \/ Scores
  \/ InterruptEnds

Interrupt == Interrupted \/ InterruptedRun \/ InterruptedShutdown

World == (Child \/ Expires) /\ UNCHANGED gradevars

GradeNext == Grade \/ Interrupt \/ World

GradeSpec == GradeInit /\ [][GradeNext]_allvars

(* The script runs, time passes, and SIGTERM kills make and QEMU.  Nothing *)
(* is assumed of a guest that is left alone.                               *)
GradeFairSpec ==
  /\ GradeSpec
  /\ WF_allvars(Grade)
  /\ WF_allvars(Expires /\ UNCHANGED gradevars)
  /\ WF_allvars(killed /\ Dies /\ UNCHANGED gradevars)

-----------------------------------------------------------------------------
(* Properties.                                                             *)

(* A test is judged by the output of its own run or of its parent's, never *)
(* of another test's left in the shared r.qemu, whatever the filters and   *)
(* however earlier runs ended.  And while it or its callbacks run,         *)
(* get_current_test() is that test, in spite of the parents that run       *)
(* inside its run_test: save() registers with a test that runs QEMU and,   *)
(* when that ends, names after it a log that holds its own run, although   *)
(* every run writes to the same file.                                      *)
JudgesOwnRun ==
  /\ GradeTypeOK
  /\ AtPhase("display") /\ verdict[Top.test] # "SKIPPED" =>
       qemu = IF Top.test \in RunsQemu THEN Top.test ELSE parent(Top.test)
  /\ \A ph \in {"body", "run", "match", "display", "callbacks"} :
       AtPhase(ph) => CURRENT_TEST = Top.test
  /\ on_finish \subseteq RunsQemu
  /\ AtPhase("callbacks") /\ Top.test \in on_finish => qemu = Top.test

(* The script never takes a QEMU of its own for one that was already       *)
(* running: a run that got a connection, however it ends, leaves QEMU dead *)
(* and reaped and the socket closed, and when a test starts the next QEMU, *)
(* the last one has let go of the GDB port.                                *)
PortFree ==
  /\ pc \in {"returned", "raised"} => proc = "dead" /\ ~child /\ gdb = "closed"
  /\ AtPhase("run") /\ pc = "new" /\ qemu # None => ~port

(* The tests worth a point whose verdict is one of V.                      *)
Scoring(V) == {t \in Names : points(t) = 1 /\ verdict[t] \in V}

(* The score counts every test that was run once, and the skipped not at   *)
(* all, however tests and parents were reached.                            *)
ScoreIsSum ==
  stack = <<>> =>
    /\ TOTAL = Cardinality(Scoring({"OK"}))
    /\ POSSIBLE = Cardinality(Scoring({"OK", "FAIL"}))

(* The script ends, whatever the guests do.                                *)
ScriptEnds == <>(status \in {"exit_0", "exit_1"})
=============================================================================
