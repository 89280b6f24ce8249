SPECIFICATION FairSpec
CONSTANTS
  Types <- MCTypes
  Arguments <- MCArguments
  Elements <- MCElements
  Operands <- MCOperands
  MaxCount = 6
INVARIANTS
  TypeOK
  FunctionsRight
  OperatorsMean
PROPERTIES
  CallEnds
CHECK_DEADLOCK FALSE
