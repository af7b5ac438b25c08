\* Every address looked up in every table.
\* The call returns, and nothing follows.
SPECIFICATION InfoFairSpec
CONSTANTS
  N = 15
  MaxAddr = 17
  ULIM = 2
  Types <- StabTypes
  StabTables <- MCTables
INVARIANTS FindsRegion CallsInOrder AnswersRight
PROPERTY Returns
CHECK_DEADLOCK FALSE
