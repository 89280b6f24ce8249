\* The operands of an operator that does not assign.
SPECIFICATION FairSpec
CONSTANTS
  Types <- MCTypes
  Arguments <- MCArguments
  Elements <- MCElements
  Operands <- MCOperands
  MaxCount = 6
INVARIANTS
  OperandsKept
CHECK_DEADLOCK FALSE
