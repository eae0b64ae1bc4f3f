CONSTANTS
  Sources <- Modules
  MaxDepth = 6
SPECIFICATION ContractFairSpec
CHECK_DEADLOCK FALSE
INVARIANTS
  ContractTypeOK
  StepsInScope
  ErrorsAreTold
  ShapesUnfold
PROPERTIES
  ScanEnds
