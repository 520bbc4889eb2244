SPECIFICATION Spec
CONSTANTS
  Ids = {1, 2}
  NewIds = {2}
  Names = {"plain", ""}
  Blank = ""
  Hashes = {"h1", "h2"}
  Catalogues <- NoneOneTwo
  NoHash = "none"
  Slots = {1, 2}
  Authored <- AuthoredFirst
  Drafts <- DraftsBoth
  Broken = Broken
  Absent = Absent
  Unread = Unread
  None = None
  Faults = TRUE
  Racing = FALSE
INVARIANTS
  ShownIsCurrent
  MappedOrReported
PROPERTIES
  LeaseProtects
  EditsKept
  Settles
