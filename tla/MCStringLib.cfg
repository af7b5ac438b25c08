\* Every legal call on every memory.
\* A behaviour is one call.
SPECIFICATION Spec
CONSTANTS
  Word = 2
  ByteSize = 16
  MemSize = 6
  Memories <- MCMemories
  Fills = {0, 1, 31}
  LONG_MAX = 127
  Bases = {0, 8, 10, 16, 36}
  Numerals <- MCNumerals
  Blanks = {1}
  Plus = 2
  Minus = 3
  Zero = 4
  LowerX = 11
  DigitValue <- MCDigits
  NULL = NULL
INVARIANTS BlocksRight CopiesRight ScansRight NumeralRight
CHECK_DEADLOCK FALSE
