SPECIFICATION Spec
CONSTANTS
  Modulus = 5
  Right = 4
  SparsePercent = 70
  QuadMatrices <- MCQuadMatrices
INVARIANTS
  RowSpaceKept
  PivotsClaimedOnce
  SumsFit
  EchelonReduced
PROPERTY ReductionEnds
