CONSTANTS
  Typed = {0, 1, 2, 3}
  MaximumAxisBound = 2
  MaxIds = 4
  MaxEdits = 2
  MaxDays = 1
  NoDocument = NoDocument
  Unreadable = Unreadable
  Bad = Bad
  Missing = Missing
  Foreign <- MCForeign
  LegacyLabel <- MCLegacyLabel
  Garbled = Garbled
  Closed = Closed
SPECIFICATION Spec
INVARIANTS
  ChartsCurrent
  VisitExact
  RestartRestores
PROPERTY HeardInOrder
