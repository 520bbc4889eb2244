CONSTANTS
  NameKey <- MCNameKey
  Blank = ""
  NonFinite = NonFinite
  Null = Null
  Malformed = Malformed
  Seeds <- MCSeeds
  Playlists <- MCPlaylists
  Names <- MCNames
  NewNames <- MCNewNames
  Texts <- MCTexts
  ScoreOf <- MCScoreOf
  Clips <- MCClips
  Catalogues <- MCCatalogues
  MaxEdits = 2
  MaxClicks = 1
  MaxSelected = 2
  MaxId = 8
  None = None
SPECIFICATION Spec
INVARIANTS
  RememberedSound
  UndoLeadsBack
  TableExact
PROPERTY WorkKept
