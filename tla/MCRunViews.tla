----------------------------- MODULE MCRunViews -----------------------------
(* Model values for RunViews: three plays of two scenarios.                 *)
EXTENDS RunViews

CONSTANTS s1, s2, a, b, c

Told(start, length, score, accuracy) ==
  [start |-> start, length |-> length, score |-> score, accuracy |-> accuracy]
Play(s, perf, csv) == [scenario |-> s, perf |-> perf, csv |-> csv]

\* a: the CSV tells the start of the performance; b: another one, after c's, and
\* the score of a.
MCData ==
  [play \in Plays |->
     CASE play = a -> Play(s1, Told(12, 2, 3, 1), Told(12, 2, 3, 1))
       [] play = b -> Play(s1, Told(21, 3, 2, 2), Told(26, 2, 3, 2))
       [] play = c -> Play(s2, Told(24, 2, 2, 1), Told(25, 2, 1, 3))]

MCNameRank == [s \in Scenarios |-> IF s = s1 THEN 2 ELSE 1]
Store(x, y, z) == [play \in Plays |-> CASE play = a -> x [] play = b -> y [] play = c -> z]
MCStores == {Store({}, {}, {}), Store({"perf"}, {"csv"}, {})}
MCSearches == {Scenarios, {s2}}
Sort(field, ascending) == [field |-> field, ascending |-> ascending]
MCRunSorts == {Sort("start", FALSE), Sort("score", TRUE)}
MCScenarioSorts == {Sort("last", FALSE), Sort("name", TRUE)}
MCRanges == {[kind |-> "recentDays", anchor |-> FALSE, days |-> 1],
             [kind |-> "latestRuns", anchor |-> FALSE, count |-> 1]}
MCCatalogue == <<s1, s2>>
=============================================================================
