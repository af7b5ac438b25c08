\* The comment does not exempt stabs one byte apart.
SPECIFICATION Spec
CONSTANTS
  N = 4
  MaxAddr = 3
  Types <- MCTypes
  StabTables <- MCTables
INVARIANT FindsSingleStab
CHECK_DEADLOCK FALSE
