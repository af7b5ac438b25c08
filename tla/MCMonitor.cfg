\* Lines of up to five characters after any earlier line, typed, run, answered.
SPECIFICATION MonitorSpec
CONSTANTS
  CRT_COLS = 2
  CRT_ROWS = 4
  BUFLEN = 6
  MAXARGS = 3
  x = x
  Blank = Blank
  BS = BS
  NL = NL
  CR = CR
  TAB = TAB
  DEL = DEL
  CTL = CTL
  NUL = NUL
  Null = Null
  Wild = Wild
  Stacks <- MCStacks
  Glyphs <- MCGlyphs
  Prompt <- MCPrompt
  BiosScreens <- MCScreens
  commands <- MCcommands
INVARIANTS EchoMatches ArgvIsWords AnswersLine
PROPERTIES ReturnsWhatIsShown RefinesReadline
