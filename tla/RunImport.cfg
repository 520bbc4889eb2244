CONSTANTS
  pA = pA
  cA = cA
  pB = pB
  cB = cB
  cC = cC
  s1 = s1
  s2 = s2
  night = night
  other = other
  stray = stray
  Scenarios = {s1, s2}
  NoSource = NoSource
  NoStart = NoStart
  Junk = Junk
  Played <- MCPlayed
  Leftovers <- MCLeftovers
  Files = {pA, cA, pB, cB, cC}
  Infos <- Sets
SPECIFICATION Spec
INVARIANT RunsExact
INVARIANT Accounted
INVARIANT AliasesResolve
INVARIANT CountsExact
INVARIANT PlayedAsTold
PROPERTY CurrentFollowed
