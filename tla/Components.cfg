SPECIFICATION Spec
CONSTANTS
  NoLead = NoLead
  Threads = {1, 2}
INVARIANTS
  MonomialsAreRight
  LibraryKeepsItsWord
  MatricesKeepRows
  CoefficientsAreExact
  SignaturesInOrder
  LookupsFindAll
  MatricesAreAsAsked
  AnswersFitText
  TextKeepsDocument
CHECK_DEADLOCK FALSE
