------------------------------ MODULE Keyboard ------------------------------
(***************************************************************************)
(* kbd_proc_data() of kern/console.c, the state machine that turns the     *)
(* scan codes of the keyboard into characters, against a keyboard that a   *)
(* user plays on while its bytes wait in the controller.                   *)
(*                                                                         *)
(* The keyboard sends, for every byte that ends a key stroke, the meaning  *)
(* the stroke had when the user made it; `meant' carries it along and the  *)
(* code never looks at it.  The maps are cut down to the keys of Keys, one *)
(* of every kind the code tells apart: a letter, a digit, a gray key with  *)
(* an E0 prefix, its keypad twin without, modifiers on both sides, a lock. *)
(***************************************************************************)
EXTENDS Naturals, Sequences, FiniteSets

CONSTANTS
  Keys,      \* the keys of this keyboard
  WireMax,   \* bytes held back of strokes, when of more than one
  MaxHeld    \* keys held down at once

(* The scan code of a key and whether E0 precedes it.                      *)
ScanCode ==
  [LShift |-> 42, RShift |-> 54, LCtrl |-> 29, RCtrl |-> 29,
   LAlt |-> 56, RAlt |-> 56, Caps |-> 58, A |-> 30, One |-> 2,
   Del |-> 83, KpDot |-> 83, Up |-> 72, Home |-> 71]

Gray == {"RCtrl", "RAlt", "Del", "Up", "Home"}

ASSUME KeyboardAssumption ==
  /\ Keys \subseteq DOMAIN ScanCode
  /\ WireMax \in Nat
  /\ MaxHeld \in Nat

NO == "none"

Side(k) ==
  CASE k \in {"LShift", "RShift"} -> {"SHIFT"}
    [] k \in {"LCtrl", "RCtrl"}   -> {"CTL"}
    [] k \in {"LAlt", "RAlt"}     -> {"ALT"}
    [] OTHER                      -> {}

VARIABLES
  held,     \* the keys that are down
  repeats,  \* the key that auto-repeats: the last one pressed
  mods,     \* of each kind of modifier, was the last event a press?
  caps,     \* is the number of Caps strokes odd?
  wire,     \* bytes waiting, each with what the user meant by it
  shift,    \* the static variable of kbd_proc_data, as a set of flags
  c,        \* what kbd_proc_data returned last
  meant,    \* what the user meant by the byte it consumed last
  rebooted  \* the reset port has been written

keyboard == <<held, repeats, mods, caps>>
kbdvars == <<keyboard, wire, shift, c, meant, rebooted>>

Modifiers == {"SHIFT", "CTL", "ALT"}

Flags == Modifiers \cup {"CAPSLOCK", "E0ESC"}

Meanings == {NO, "a", "A", "^A", "1", "!", ".", "KEY_UP", "KEY_HOME", "KEY_DEL",
             "reboot"}

(* The shift word has the known flags only and every byte has a meaning.   *)
KbdTypeOK ==
  /\ held \subseteq Keys /\ Cardinality(held) <= MaxHeld
  /\ repeats \in Keys \cup {NO}
  /\ mods \subseteq Modifiers
  /\ caps \in BOOLEAN
  /\ wire \in Seq([byte : 0 .. 255, meant : Meanings])
  /\ shift \subseteq Flags
  /\ c \in Meanings
  /\ meant \in Meanings
  /\ rebooted \in BOOLEAN

KbdInit ==
  /\ held = {} /\ repeats = NO
  /\ mods = {}
  /\ caps = FALSE
  /\ wire = <<>>
  /\ shift = {}
  /\ c = NO /\ meant = NO
  /\ rebooted = FALSE

-----------------------------------------------------------------------------
(* The keyboard.                                                           *)

(* What a user means by pressing k with the modifiers m and the lock on.   *)
(* Control and Home is no character of this keyboard: see ctlmap.          *)
Meaning(k, m, lock) ==
  CASE k = "A" -> IF "CTL" \in m THEN "^A"
                  ELSE IF ("SHIFT" \in m) # lock THEN "A" ELSE "a"
    [] k = "One" /\ "CTL" \notin m -> IF "SHIFT" \in m THEN "!" ELSE "1"
    [] k = "KpDot" /\ "CTL" \notin m -> "."
    [] k = "Del" -> IF {"CTL", "ALT"} \subseteq m THEN "reboot" ELSE "KEY_DEL"
    [] k = "Up" -> "KEY_UP"
    [] k = "Home" /\ "CTL" \notin m -> "KEY_HOME"
    [] OTHER -> NO

(* A gray key disowns the shifts that are down: it is wrapped in E0 codes  *)
(* that look like a release and a press of each of them.                   *)
FakeShift(k, up) ==
  IF k \notin {"Del", "Up", "Home"} THEN <<>>
  ELSE (IF "LShift" \in held THEN <<224, 42 + up>> ELSE <<>>) \o
       (IF "RShift" \in held THEN <<224, 54 + up>> ELSE <<>>)

Code(k, up) ==
  IF k \in Gray THEN <<224, ScanCode[k] + up>> ELSE <<ScanCode[k] + up>>

Make(k)  == FakeShift(k, 128) \o Code(k, 0)
Break(k) == Code(k, 128) \o FakeShift(k, 0)

Sends(bytes, what) ==
  /\ wire = <<>> \/ Len(wire) + Len(bytes) <= WireMax
  /\ wire' = wire \o [n \in DOMAIN bytes |->
                        [byte  |-> bytes[n],
                         meant |-> IF n = Len(bytes) THEN what ELSE NO]]
  /\ UNCHANGED <<shift, c, meant, rebooted>>

Press(k) ==
  /\ k \notin held \/ k = repeats
  /\ Cardinality(held \cup {k}) <= MaxHeld
  /\ held' = held \cup {k}
  /\ repeats' = k
  /\ mods' = mods \cup Side(k)
  /\ caps' = IF k = "Caps" THEN ~caps ELSE caps
  /\ Sends(Make(k), Meaning(k, mods', caps'))

Release(k) ==
  /\ k \in held
  /\ held' = held \ {k}
  /\ repeats' = IF repeats = k THEN NO ELSE repeats
  /\ mods' = mods \ Side(k)
  /\ UNCHANGED caps
  /\ Sends(Break(k), NO)

-----------------------------------------------------------------------------
(* kbd_proc_data.                                                          *)

shiftcode(data) ==
  CASE data \in {29, 157} -> {"CTL"}
    [] data \in {42, 54}  -> {"SHIFT"}
    [] data \in {56, 184} -> {"ALT"}
    [] OTHER              -> {}

togglecode(data) == IF data = 58 THEN {"CAPSLOCK"} ELSE {}

normalmap(data) ==
  CASE data = 2 -> "1"   [] data = 30 -> "a"       [] data = 83 -> "."
    [] data = 199 -> "KEY_HOME" [] data = 200 -> "KEY_UP"
    [] data = 211 -> "KEY_DEL" [] OTHER -> NO

shiftmap(data) ==
  CASE data = 2 -> "!" [] data = 30 -> "A" [] OTHER -> normalmap(data)

(* KEY_HOME is at 0x97, which no key sends, and Home's 0xC7 has no entry.  *)
ctlmap(data) ==
  CASE data = 30 -> "^A"
    [] data = 151 -> "KEY_HOME"
    [] data \in {200, 211} -> normalmap(data)
    [] OTHER -> NO

(* charcode[shift & (CTL | SHIFT)][data], then CAPSLOCK on the letters.    *)
charcode(sh, data) ==
  LET ch == IF "CTL" \in sh THEN ctlmap(data)
            ELSE IF "SHIFT" \in sh THEN shiftmap(data) ELSE normalmap(data)
  IN IF "CAPSLOCK" \notin sh THEN ch
     ELSE CASE ch = "a" -> "A" [] ch = "A" -> "a" [] OTHER -> ch

Prefix(data) ==
  /\ data = 224
  /\ shift' = shift \cup {"E0ESC"}
  /\ c' = NO
  /\ UNCHANGED rebooted

KeyUp_always_masked(data) ==
  /\ data # 224 /\ data >= 128
  /\ shift' = shift \ (shiftcode(data - 128) \cup {"E0ESC"})
  /\ c' = NO
  /\ UNCHANGED rebooted

KeyUp_keeps_prefix(data) ==
  LET code == IF "E0ESC" \in shift THEN data ELSE data - 128 IN
  /\ data # 224 /\ data >= 128
  /\ shift' = shift \ shiftcode(code)
  /\ c' = NO
  /\ UNCHANGED rebooted

KeyUp(data) ==
  LET code == IF "E0ESC" \in shift THEN data ELSE data - 128 IN
  /\ data # 224 /\ data >= 128
  /\ shift' = shift \ (shiftcode(code) \cup {"E0ESC"})
  /\ c' = NO
  /\ UNCHANGED rebooted

SymmetricDifference(S, T) == (S \ T) \cup (T \ S)

(* A key goes down: its code has the high bit set after an E0 prefix.  The *)
(* write to the reset port leaves nobody to return KEY_DEL to: "reboot".   *)
KeyDown(data) ==
  LET code == IF "E0ESC" \in shift THEN data + 128 ELSE data
      sh == SymmetricDifference((shift \ {"E0ESC"}) \cup shiftcode(code),
                                togglecode(code))
      ch == charcode(sh, code) IN
  /\ data < 128
  /\ shift' = sh
  /\ rebooted' = ({"CTL", "ALT"} \subseteq sh /\ ch = "KEY_DEL")
  /\ c' = IF rebooted' THEN "reboot" ELSE ch

kbd_proc_data ==
  /\ ~rebooted
  /\ wire # <<>>
  /\ LET data == Head(wire).byte IN Prefix(data) \/ KeyUp(data) \/ KeyDown(data)
  /\ meant' = Head(wire).meant
  /\ wire' = Tail(wire)
  /\ UNCHANGED keyboard

KbdNext ==
  \/ \E k \in Keys : Press(k) \/ Release(k)
  \/ kbd_proc_data

KbdSpec == KbdInit /\ [][KbdNext]_kbdvars

-----------------------------------------------------------------------------
(* Properties.                                                             *)

(* However long a stroke waits in the controller, the code makes of it     *)
(* what the user meant at the time, no character out of a prefix, a        *)
(* release or a fake shift, and it resets the machine only for Ctrl-Alt-   *)
(* Delete, never for the keypad's key of the same scan code.               *)
DecodedAsMeant == c = meant

(* When everything typed has been read, no modifier is on without one of   *)
(* its keys being down, no prefix is pending and the lock has the parity   *)
(* of its strokes.  (A modifier may be off with a key down: the two sides  *)
(* share one flag, and the first release clears it.)                       *)
NothingStuck ==
  /\ KbdTypeOK
  /\ wire = <<>> =>
       /\ \A f \in shift \cap Modifiers : \E k \in held : Side(k) = {f}
       /\ "E0ESC" \notin shift
       /\ ("CAPSLOCK" \in shift) <=> caps
=============================================================================
