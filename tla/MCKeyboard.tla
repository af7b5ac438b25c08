----------------------------- MODULE MCKeyboard -----------------------------
(* A small keyboard: both shifts, control and alternate keys, the lock, a  *)
(* letter, two gray keys and the keypad key that shares a code with one.   *)
EXTENDS Keyboard

MCKeys ==
  {"LShift", "RShift", "LCtrl", "RCtrl", "LAlt", "RAlt", "Caps", "A", "Home",
   "Del", "KpDot"}
=============================================================================
