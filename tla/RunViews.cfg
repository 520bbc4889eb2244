CONSTANTS
  s1 = s1
  s2 = s2
  a = a
  b = b
  c = c
  NoSource = NoSource
  Plays = {a, b, c}
  Data <- MCData
  Catalogue <- MCCatalogue
  NameRank <- MCNameRank
  Stores <- MCStores
  Searches <- MCSearches
  RunSorts <- MCRunSorts
  ScenarioSorts <- MCScenarioSorts
  Ranges <- MCRanges
  DayLength = 10
  Window = 1
  RecentRuns = 2
  LastDay = 2
SPECIFICATION Spec
INVARIANT ViewsTrue
