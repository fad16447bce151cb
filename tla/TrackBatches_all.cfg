SPECIFICATION ListSpec
CONSTANTS
  BatchSize = 2
  Permits = 2
  MaxIds = 5
  Faults = TRUE
  Ids = {i1, i2, i3, i4}
  TurnSize = 2
  PageSize = 2
  MaxChanges = 1
SYMMETRY Symmetry
INVARIANTS
  NoneAfterClose
  SendsNeverBlock
  AnswerExact
  ListExact
