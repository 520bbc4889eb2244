CONSTANTS
  None = None
  NonFinite = NonFinite
  MaximumExpressionDepth = 4
  MaximumExpressionNodes = 7
  Unnameable = {""}
  MaximumHiddenLeadingPoints = 1
  MaximumId = 100
  NoDocument = NoDocument
  Unreadable = Unreadable
  LegacyDisabled = {"scoreTotal", "accuracy", "kills"}
  Documents <- MCDocuments
  Names = {"typed", ""}
  ForeignTexts <- MCForeignTexts
  Edited = {1, 2, 3}
  EditKinds = {"primitive", "subtract", "runningSum"}
  Typed <- MCTyped
  MaxEdits = 2
  MaxNodes = 4
SPECIFICATION Spec
INVARIANTS
  EditorSound
PROPERTY EditsKeepTheRest
