CONSTANTS
  perf1 = perf1
  perf2 = perf2
  csv1 = csv1
  Scenarios = {s1, s2}
  s1 = s1
  s2 = s2
  NoSource = NoSource
  Sources = {perf1, perf2, csv1}
  Incoming <- MCIncoming
  MaxRuns = 3
SPECIFICATION Spec
INVARIANT CachesExact
INVARIANT TimesExact
PROPERTY SourcesKept
