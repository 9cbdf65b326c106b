SPECIFICATION Spec
CONSTANTS
  Vars = {1, 2}
  MaxExp = 2
  Components = {1}
  OrderRank <- MCOrderRank
  Degree <- TotalDegree
  MaxIndex = 4
  TermCount <- NotPreferred
  NoMono = NoMono
  GroupSize = 2
  UseAutoTopReduction = FALSE
  BreakAfter = 3
  UseCallback = TRUE
  InputSize = 3
  Inputs <- MCInputs
INVARIANTS
  TypeOK
  SyzygiesGenerated
  BookkeepingAccurate
