\* The ring is a queue that forgets its backlog on the CONSBUFSIZE-th
\* character, and nothing stays behind once the devices fall silent.
SPECIFICATION FairSpec
CONSTANTS
  a = a
  b = b
  NUL = NUL
  Mouse = Mouse
  NoData = NoData
  Absent = Absent
  Chars <- MCChars
  CONSBUFSIZE = 4
  KbdDepth = 2
  KbdItems <- MCItems
INVARIANT PortsReady
PROPERTIES ImplementsQueue BacklogDrained
