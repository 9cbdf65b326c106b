CONSTANTS
  P <- MCP
  Degree <- MCDegree
  Basis <- MCBasis
  Calls <- MCAllCalls
  NoMono = NoMono
SPECIFICATION MCSpec
INVARIANTS
  SignaturesAreTrue
  FinalSignatureBasis
  EntriesAreSound
  SyzygiesGenerated
  GroupIsSound
  FastTestsMatchSlow
  LiveLeadsMinimal
PROPERTIES
  SignaturesAscend
  ComputationEnds
  ImplementsDivision
  ReductionsEnd
  Termination
  QueriesReturn
  InsertsReturn
