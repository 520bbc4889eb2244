-------------------------- MODULE MCBenchmarkTracking --------------------------
(* Values for BenchmarkTracking: the directories, the runs that come in and *)
(* the ranges of the charts.                                               *)
EXTENDS BenchmarkTracking

Scenario(id, name, hashes, scores) ==
  [id |-> id, name |-> name, hashes |-> hashes,
   thresholds |-> [i \in DOMAIN scores |-> [tier |-> i, score |-> scores[i]]]]
Tiers == <<[id |-> 1, name |-> 1], [id |-> 2, name |-> 2]>>
File(file, id, content) ==
  [file |-> file, id |-> id, content |-> content, name |-> IF content = Broken THEN Blank ELSE content.name]

\* Ranked by an uncategorized scenario and a category of two subcategories; the first scenario is
\* mapped to two hashes, the last is mapped when it is known.
Ranked ==
  [name |-> 1, tiers |-> Tiers,
   uncategorized |-> <<Scenario(3, 1, <<1, 4>>, <<0, 2>>)>>,
   categories |-> <<[id |-> 6, name |-> 1, scenarios |-> <<>>,
                     subs |-> <<[id |-> 7, name |-> 1, scenarios |-> <<Scenario(4, 2, <<2>>, <<2, 4>>)>>],
                                [id |-> 8, name |-> 2, scenarios |-> <<Scenario(5, 3, <<>>, <<1, 2>>)>>]>>]>>]
\* The same without a name, and without a threshold, which no longer ranks.
Unranked == [Ranked EXCEPT !.name = Blank, !.uncategorized[1].thresholds = <<[tier |-> 2, score |-> 2]>>]
\* One category of two scenarios, one of which has to be enough.
Single ==
  [name |-> 2, tiers |-> Tiers, uncategorized |-> <<>>,
   categories |-> <<[id |-> 6, name |-> 1, subs |-> <<>>,
                     scenarios |-> <<Scenario(3, 1, <<1>>, <<1, 3>>), Scenario(4, 3, <<3>>, <<2, 3>>)>>]>>]

MCLibraries == {<<File(11, 1, Ranked), File(12, 2, Single)>>,
                <<File(11, 1, Unranked), File(12, 1, Single)>>,
                <<File(11, 1, Unranked), File(12, NoId, Broken)>>}

Run(name, hash, time, score) == [name |-> name, hash |-> hash, time |-> time, score |-> score, seconds |-> 60]
MCRecorded == <<Run(1, 1, 2, 1), Run(2, 2, 4, 3), Run(4, 4, 8, 3)>>
\* The first is of a scenario the benchmarks spell differently.
MCNewRuns == {Run(13, 3, 5, 2), Run(2, 2, 6, 4)}
MCNameKey(n) == n % 10
MCRanges == {[kind |-> "allHistory", anchor |-> FALSE], [kind |-> "allHistory", anchor |-> TRUE],
             [kind |-> "recentDays", anchor |-> FALSE, days |-> 1],
             [kind |-> "customDates", anchor |-> TRUE, start |-> 2, end |-> 4]}
MCWindows == {1, 2}
=============================================================================
