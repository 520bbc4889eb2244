---------------------------- MODULE MCUserProfile ----------------------------
(* Model values for UserProfile: every combination of a run's sources.      *)
EXTENDS UserProfile

CONSTANTS s1, s2, perf1, perf2, csv1

Kinds == {[length |-> 1, perf |-> NoSource, csv |-> csv1],
          [length |-> 2, perf |-> perf1, csv |-> NoSource],
          [length |-> 2, perf |-> perf1, csv |-> csv1],
          [length |-> 3, perf |-> perf2, csv |-> csv1]}

MCIncoming ==
  {[scenario |-> s, start |-> t, length |-> k.length, perf |-> k.perf, csv |-> k.csv] :
     s \in Scenarios, t \in 1 .. 3, k \in Kinds}

=============================================================================
