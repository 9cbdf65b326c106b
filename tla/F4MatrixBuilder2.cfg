SPECIFICATION Spec
CONSTANTS
  Threads = {t1, t2}
  NoThread = NoThread
  p1 = p1
  p2 = p2
  p3 = p3
  p4 = p4
  q1 = q1
  q2 = q2
  Polys = {p1, p2, p3, p4, q1, q2}
  NoPoly = NoPoly
  NoLead = NoLead
  NoKey = NoKey
  Terms <- MCTerms
  Monos <- MCMonos
  Reducers <- MCReducers
  InitialBucketCount = 2
  Inputs <- MCInputs
INVARIANTS
  ColumnsInStep
  MatrixIsSound
  RowSpaceKept
PROPERTY BuildEnds
