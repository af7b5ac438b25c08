\* Letters, shifts, the lock, gray keys, Ctrl-Alt-Delete and what is not it.
SPECIFICATION KbdSpec
CONSTANTS
  Keys <- MCKeys
  WireMax = 4
  MaxHeld = 3
INVARIANTS DecodedAsMeant NothingStuck
\* A key combination may reset the machine, and then nothing more is read.
CHECK_DEADLOCK FALSE
