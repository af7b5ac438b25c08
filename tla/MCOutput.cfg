\* The screen is a window on a terminal's paper, the serial line gets every
\* character unless a polling loop gave up, and printing always ends.
\* Every directive on every argument, into buffers of three sizes, is
\* formatted as meant.
\* The call of a format without a console behind it returns, and nothing
\* follows.
SPECIFICATION MCSpec
CONSTANTS
  CRT_COLS = 3
  CRT_ROWS = 2
  x = x
  Blank = Blank
  BS = BS
  NL = NL
  CR = CR
  TAB = TAB
  Glyphs <- MCGlyphs
  SpinLimit = 1
  MaxChars = 2
  Empty = Empty
  Absent = Absent
  Uarts <- MCUarts
  INT_MAX = 3
  LLONG_MAX = 7
  Octal = 2
  Decimal = 3
  Hex = 4
  MAXERROR = 3
  Directives <- MCDirectives
  ArgChars = {"b", "ctl"}
  Strings <- MCStrings
  ErrorArgs <- MCErrors
  NULL = NULL
  BufSizes = {1, 3, 20}
INVARIANTS LineComplete StaysInside FormatsRight
PROPERTIES ImplementsTerminal OutputReturns Returns
CHECK_DEADLOCK FALSE
