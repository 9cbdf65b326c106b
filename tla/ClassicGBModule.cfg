SPECIFICATION Spec
CONSTANTS
  Vars = {1, 2}
  MaxExp = 1
  Components = {1, 2}
  OrderRank <- MCOrderRank
  Degree <- TotalDegree
  MaxIndex = 3
  TermCount <- NotPreferred
  NoMono = NoMono
  GroupSize = 1
  UseAutoTopReduction = TRUE
  BreakAfter = 0
  UseCallback = FALSE
  InputSize = 2
  Inputs <- MCInputs
INVARIANT
  EliminatedPairsNeedNoReduction
