------------------------------ MODULE Monitor ------------------------------
(***************************************************************************)
(* The kernel monitor of kern/monitor.c on the line editor of module       *)
(* Readline: the loop of monitor(), and the tokenizer and command lookup   *)
(* of runcmd(), which work in place on the static buffer that readline()   *)
(* returns and types into again.                                           *)
(***************************************************************************)
EXTENDS Readline, FiniteSets

CONSTANTS
  MAXARGS,   \* 16 in the code
  Null,      \* the null pointer
  Wild,      \* a pointer left in memory, neither null nor into the buffer
  Stacks,    \* what runcmd may find in the stack memory that argv gets
  commands   \* the names of the commands, a sequence of sequences

(* The space is the only member of WHITESPACE that readline lets through.  *)
Letters == Glyphs \ {Blank}

ASSUME MonitorAssumption ==
  /\ MAXARGS \in Nat /\ MAXARGS >= 1
  /\ Null \notin Nat /\ Wild \notin Nat
  /\ Stacks \subseteq [0 .. MAXARGS - 1 -> Slots \cup {Null, Wild}]
  /\ commands \in Seq(Seq(Letters))

VARIABLES
  line,   \* history: the buffer as readline returned it
  p,      \* runcmd's parameter buf, the scanning pointer
  argv, argc,  \* all Wild between two calls of runcmd
  at,     \* "readline", "gobble", "scan", "lookup" or "return"
  said,   \* how the call of runcmd ended
  cmd     \* the command it invoked, an index of commands

locals      == <<line, p, argv, argc, said, cmd>>
editor      == vars
monitorVars == <<editor, locals, at>>

Answers == {"nothing", "too many", "unknown", "invoked"}

(* The scan stays inside the line buffer and argc inside argv; the editor  *)
(* runs only while the monitor waits for a line.                           *)
MonitorTypeOK ==
  /\ line \in [Slots -> Glyphs \cup {NUL}]
  /\ p \in Slots
  /\ argc \in 0 .. MAXARGS - 1
  /\ argv \in [0 .. MAXARGS - 1 -> Slots \cup {Null, Wild}]
  /\ at \in {"readline", "gobble", "scan", "lookup", "return"}
  /\ at # "readline" => pc = "monitor"
  /\ said \in Answers
  /\ cmd \in DOMAIN commands \cup {0}

NoLine == [k \in Slots |-> NUL]
NoArgs == [j \in 0 .. MAXARGS - 1 |-> Wild]

MonitorInit ==
  /\ Init
  /\ line = NoLine /\ argv = NoArgs
  /\ p = 0 /\ argc = 0 /\ cmd = 0
  /\ said = "nothing" /\ at = "readline"

-----------------------------------------------------------------------------
(* The loop of monitor().                                                  *)

(* What runcmd and its commands have to print comes here too, between two  *)
(* lines.                                                                  *)
Editing ==
  /\ at = "readline"
  /\ \/ MonitorPrints \/ readline
     \/ PrintPrompt \/ StartLine
     \/ \E c \in Glyphs \cup {BS, NL, CR, CTL} :
          Rubout(c) \/ Insert(c) \/ Ignore(c)
  /\ UNCHANGED <<locals, at>>

(* readline returns, and runcmd begins with the line.  Its argv is an      *)
(* array on the stack that nothing initialises but for the first entry.    *)
GetLine ==
  /\ at = "readline"
  /\ \E c \in {NL, CR} : Accept(c)
  /\ line' = buf'
  /\ p' = 0 /\ argc' = 0
  /\ \E stack \in Stacks : argv' = [stack EXCEPT ![0] = Null]
  /\ at' = "gobble"
  /\ UNCHANGED <<said, cmd>>

(* runcmd returned 0, as it always does, and its locals are gone.          *)
Return ==
  /\ at = "return"
  /\ at' = "readline"
  /\ line' = NoLine /\ argv' = NoArgs
  /\ p' = 0 /\ argc' = 0 /\ cmd' = 0
  /\ said' = "nothing"
  /\ UNCHANGED editor

-----------------------------------------------------------------------------
(* runcmd, one character at a time.                                        *)

Gobble_keeps_blank ==
  /\ at = "gobble" /\ buf[p] = Blank
  /\ p' = p + 1
  /\ UNCHANGED <<editor, line, argv, argc, at, said, cmd>>

Gobble_cuts_next ==
  /\ at = "gobble" /\ buf[p] = Blank
  /\ buf' = [buf EXCEPT ![p + 1] = NUL]
  /\ p' = p + 1
  /\ UNCHANGED <<screen, pc, shown, i, line, argv, argc, at, said, cmd>>

Gobble ==
  /\ at = "gobble" /\ buf[p] = Blank
  /\ buf' = [buf EXCEPT ![p] = NUL]
  /\ p' = p + 1
  /\ UNCHANGED <<screen, pc, shown, i, line, argv, argc, at, said, cmd>>

EndOfLine_unterminated ==
  /\ at = "gobble" /\ buf[p] = NUL
  /\ at' = "lookup"
  /\ UNCHANGED <<editor, line, p, argv, argc, said, cmd>>

EndOfLine ==
  /\ at = "gobble" /\ buf[p] = NUL
  /\ argv' = [argv EXCEPT ![argc] = Null]
  /\ at' = "lookup"
  /\ UNCHANGED <<editor, line, p, argc, said, cmd>>

TooMany ==
  /\ at = "gobble" /\ buf[p] \in Letters
  /\ argc = MAXARGS - 1
  /\ said' = "too many"
  /\ at' = "return"
  /\ UNCHANGED <<editor, line, p, argv, argc, cmd>>

SaveArg ==
  /\ at = "gobble" /\ buf[p] \in Letters
  /\ argc # MAXARGS - 1
  /\ argv' = [argv EXCEPT ![argc] = p]
  /\ argc' = argc + 1
  /\ at' = "scan"
  /\ UNCHANGED <<editor, line, p, said, cmd>>

Scan ==
  /\ at = "scan" /\ buf[p] \in Letters
  /\ p' = p + 1
  /\ UNCHANGED <<editor, line, argv, argc, at, said, cmd>>

ScanEnd ==
  /\ at = "scan" /\ buf[p] \notin Letters
  /\ at' = "gobble"
  /\ UNCHANGED <<editor, line, p, argv, argc, said, cmd>>

(* strcmp(s, name) = 0 for the C string that starts at slot s of b.        *)
strcmp_prefix(b, s, name) ==
  /\ s + Len(name) < BUFLEN
  /\ \A k \in 1 .. Len(name) : b[s + k - 1] = name[k]

strcmp_equal(b, s, name) ==
  /\ s + Len(name) < BUFLEN
  /\ \A k \in 1 .. Len(name) : b[s + k - 1] = name[k]
  /\ b[s + Len(name)] = NUL

(* mon_help, mon_kerninfo and mon_backtrace print or do nothing, change    *)
(* nothing and return 0, so monitor() never leaves its loop.               *)
Invoke(k) ==
  /\ said' = "invoked"
  /\ cmd' = k

Lookup ==
  /\ at = "lookup"
  /\ \/ /\ argc = 0
        /\ said' = "nothing"
        /\ UNCHANGED cmd
     \/ /\ argc # 0
        /\ \E k \in DOMAIN commands :
             /\ strcmp_equal(buf, argv[0], commands[k])
             /\ \A j \in 1 .. k - 1 : ~strcmp_equal(buf, argv[0], commands[j])
             /\ Invoke(k)
     \/ /\ argc # 0
        /\ \A k \in DOMAIN commands : ~strcmp_equal(buf, argv[0], commands[k])
        /\ said' = "unknown"
        /\ UNCHANGED cmd
  /\ at' = "return"
  /\ UNCHANGED <<editor, line, p, argv, argc>>

runcmd ==
  \/ Gobble \/ EndOfLine \/ TooMany \/ SaveArg
  \/ Scan \/ ScanEnd \/ Lookup

MonitorNext == Editing \/ GetLine \/ runcmd \/ Return

MonitorSpec == MonitorInit /\ [][MonitorNext]_monitorVars

-----------------------------------------------------------------------------
(* Properties.                                                             *)

(* To the line editor the monitor is what Readline assumes of it: between  *)
(* two calls it prints, and writes NUL over blanks of the line buffer.     *)
RefinesReadline == Spec

InLine(l, k) == \A u \in 0 .. k : l[u] # NUL

(* The slots where the words of a line begin.                              *)
WordStarts(l) ==
  {k \in Slots : InLine(l, k) /\ l[k] \in Letters
                 /\ (k > 0 => l[k - 1] = Blank)}

(* The C string at slot s of buf is the word that begins there in line.    *)
HoldsWord(s) ==
  \E e \in Slots :
    /\ e > s /\ line[e] \notin Letters /\ buf[e] = NUL
    /\ \A k \in s .. e - 1 : line[k] \in Letters /\ buf[k] = line[k]

(* A command is handed the words of the line as they were typed, in order  *)
(* and each cut off from the next, with a null pointer after the last,     *)
(* whatever an earlier line or an erased one left in the buffer and        *)
(* earlier calls left where argv is on the stack.                          *)
ArgvIsWords ==
  at = "lookup" =>
    /\ \A j \in 0 .. argc - 1 :
         argv[j] \in WordStarts(line) /\ HoldsWord(argv[j])
    /\ \A j, k \in 0 .. argc - 1 : j < k => argv[j] < argv[k]
    /\ \A s \in WordStarts(line) : \E j \in 0 .. argc - 1 : argv[j] = s
    /\ argv[argc] = Null

(* The word at slot s of a line, as a sequence.                            *)
WordIs(l, s, w) ==
  /\ s + Len(w) < BUFLEN
  /\ \A k \in 1 .. Len(w) : l[s + k - 1] = w[k]
  /\ l[s + Len(w)] \notin Letters

(* What the monitor answers depends on the words of the line alone: none,  *)
(* too many, or a first word that is or is not the name of a command.      *)
AnswersLine ==
  at = "return" =>
    LET words == WordStarts(line)
        first(s) == s \in words /\ \A t \in words : s <= t
    IN CASE said = "nothing"  -> words = {}
         [] said = "too many" -> Cardinality(words) >= MAXARGS
         [] said = "unknown"  ->
              /\ words # {} /\ Cardinality(words) < MAXARGS
              /\ \A s \in words, k \in DOMAIN commands :
                   first(s) => ~WordIs(line, s, commands[k])
         [] said = "invoked" ->
              /\ Cardinality(words) < MAXARGS
              /\ \E s \in words : first(s) /\ WordIs(line, s, commands[cmd])
=============================================================================
