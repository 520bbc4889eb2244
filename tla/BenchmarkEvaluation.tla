------------------------- MODULE BenchmarkEvaluation -------------------------
(***************************************************************************)
(* What the profile's runs make of a benchmark: the evaluation of its      *)
(* scenarios and ranks (domain/benchmarks/benchmark_evaluator), the        *)
(* history of the average rank (rank_history) and the bars that show a     *)
(* score on its ladder (benchmark_progress_grid_model).                    *)
(*                                                                         *)
(* A tier is its place on the ladder from 1, 0 for none.  Unit stands for  *)
(* one tier on a bar, so that the fractions of a small instance are whole; *)
(* a mean over the scenarios of a benchmark is kept as their sum.  Runs    *)
(* are in the order of the profile's run facts.                            *)
(***************************************************************************)
EXTENDS BenchmarkDefinition

CONSTANTS
  Unit,      \* the length of one tier on a bar
  DayLength, \* seconds of a day
  None       \* no score, no point, no interval

ASSUME UnitAssumption == Unit \in Nat \ {0} /\ DayLength \in Nat \ {0}

DayOf(run) == run.time \div DayLength
Clamp(n) == Max({0, Min({n, Unit})})
SumOf(f) == FoldFunction(+, 0, f)
Highest(S) == Max(S \cup {0})
-----------------------------------------------------------------------------
(* The ladder of one entry.                                                *)

\* The score set for a tier, when there is exactly one that can be used.
Threshold(e, tier) ==
  LET set == ThresholdsFor(e, tier)
  IN IF Len(set) # 1 THEN None
     ELSE IF set[1].score = NonFinite THEN None
     ELSE IF set[1].score < 0 THEN None ELSE set[1].score
Thresholds(b, e) == [k \in DOMAIN b.tiers |-> Threshold(e, b.tiers[k].id)]

\* All of them in increasing order, or no ladder at all.
Ladder(b, e) ==
  LET s == Thresholds(b, e)
  IN IF None \in ToSet(s) \/ \E k \in 2..Len(s) : s[k] <= s[k - 1] THEN <<>> ELSE s

Reached(ladder, score) == Highest({k \in DOMAIN ladder : ladder[k] <= score})

NormalizedFromLadder(ladder, score) ==
  LET k == IF score = None THEN 0 ELSE Reached(ladder, score)
      lower == IF k = 0 THEN 0 ELSE ladder[k]
  IN IF score = None \/ ladder = <<>> THEN 0
     ELSE k * Unit + (IF k = Len(ladder) THEN 0
                      ELSE ((score - lower) * Unit) \div (ladder[k + 1] - lower))
-----------------------------------------------------------------------------
(* One scenario: its runs under every hash it is mapped to.                *)

Earlier(r, s) == r.time < s.time \/ (r.time = s.time /\ r.hash < s.hash)
HistoryOf(hashes, facts) ==
  LET mine == SelectSeq(facts, LAMBDA r : r.hash \in ToSet(hashes))
  IN IF Len(hashes) > 1 THEN SortSeq(mine, Earlier) ELSE mine

Better(r, s) == r.score > s.score \/ (r.score = s.score /\ r.time < s.time)
RecentRuns == 5

Projection(e, resolution, history, ladder) ==
  LET best == CHOOSE i \in DOMAIN history :
                /\ \A j \in DOMAIN history : ~Better(history[j], history[i])
                /\ \A j \in 1..(i - 1) : Better(history[i], history[j])
      score == IF history = <<>> THEN None ELSE history[best].score
      recent == SubSeq(history, Len(history) - Min({RecentRuns, Len(history)}) + 1, Len(history))
  IN [entry |-> e.id, match |-> resolution.state, runs |-> Len(history),
      best |-> score,
      bestTime |-> IF history = <<>> THEN None ELSE history[best].time,
      recentSum |-> SumOf([i \in DOMAIN recent |-> recent[i].score]), sample |-> Len(recent),
      playtime |-> SumOf([i \in DOMAIN history |-> history[i].seconds]),
      attained |-> IF score = None THEN 0 ELSE Reached(ladder, score),
      next |-> IF ladder = <<>> THEN 0
               ELSE IF score = None THEN 1
               ELSE (Reached(ladder, score) + 1) % (Len(ladder) + 1),
      rank |-> NormalizedFromLadder(ladder, score)]
ProjectScenario(b, e, resolution, facts) ==
  Projection(e, resolution,
             IF resolution.state = "resolved" THEN HistoryOf(resolution.hashes, facts) ELSE <<>>, Ladder(b, e))
-----------------------------------------------------------------------------
(* The ranks of a benchmark, from the best score of each of its entries.   *)

Attains(b, best, e, k) == best[e.id] # None /\ k <= Reached(Ladder(b, e), best[e.id])
AnyAttains(b, best, s, k) == \E i \in DOMAIN s : Attains(b, best, s[i], k)
AllAttain(b, best, s, k) == \A i \in DOMAIN s : Attains(b, best, s[i], k)

\* A category with subcategories needs every one of them.
CategorySatisfied(b, best, c, k) ==
  IF c.subs # <<>> THEN \A s \in DOMAIN c.subs : AnyAttains(b, best, c.subs[s].scenarios, k)
  ELSE AnyAttains(b, best, c.scenarios, k)

AttainedAtTier(b, best, k) ==
  /\ AllAttain(b, best, b.uncategorized, k)
  /\ \A c \in DOMAIN b.categories : CategorySatisfied(b, best, b.categories[c], k)

AttainedRank(b, best) == Highest({k \in DOMAIN b.tiers : AttainedAtTier(b, best, k)})
CompletedRank(b, best) == Highest({k \in DOMAIN b.tiers : AllAttain(b, best, Entries(b), k)})
GroupRank(b, best, c) == Highest({k \in DOMAIN b.tiers : CategorySatisfied(b, best, c, k)})
SubgroupRank(b, best, s) == Highest({k \in DOMAIN b.tiers : AnyAttains(b, best, s.scenarios, k)})

CollectBlockers(b, best, s, group, k) ==
  {[entry |-> s[i].id, group |-> group, current |-> best[s[i].id],
    required |-> IF k \in DOMAIN Ladder(b, s[i]) THEN Ladder(b, s[i])[k] ELSE 0] :
     i \in {j \in DOMAIN s : ~Attains(b, best, s[j], k)}}

\* Mutant: a category counts as satisfied when its scenarios are, whatever it is divided into.
NextTierBlockers_Undivided(b, best, k) ==
  CollectBlockers(b, best, b.uncategorized, NoGroup, k)
    \cup UNION {CollectBlockers(b, best, b.categories[c].scenarios, b.categories[c].id, k) :
                  c \in {d \in DOMAIN b.categories : ~CategorySatisfied(b, best, b.categories[d], k)}}

\* What stands between the benchmark and a tier: whatever is uncategorized, and the scenarios of
\* each group that is not satisfied.
NextTierBlockers(b, best, k) ==
  CollectBlockers(b, best, b.uncategorized, NoGroup, k)
    \cup UNION {IF b.categories[c].subs = <<>>
                THEN CollectBlockers(b, best, b.categories[c].scenarios, b.categories[c].id, k)
                ELSE UNION {IF AnyAttains(b, best, s.scenarios, k) THEN {}
                            ELSE CollectBlockers(b, best, s.scenarios, s.id, k) :
                              s \in ToSet(b.categories[c].subs)} :
                  c \in {d \in DOMAIN b.categories : ~CategorySatisfied(b, best, b.categories[d], k)}}

-----------------------------------------------------------------------------
(* The average rank day by day: a running sum, changed by each run that    *)
(* beats what an entry had.                                                *)

\* The entries a hash counts for.
EntriesOf(resolutions, hash) ==
  {resolutions[i].entry : i \in {j \in DOMAIN resolutions :
     resolutions[j].state = "resolved" /\ hash \in ToSet(resolutions[j].hashes)}}

NotBeaten(swept, run, e) == IF swept.best[e] = None THEN TRUE ELSE run.score > swept.best[e]

Sweep(b, resolutions, swept, run) ==
  LET improved == {e \in EntriesOf(resolutions, run.hash) : NotBeaten(swept, run, e)}
      sum == swept.sum + SumOf([e \in improved |->
               LET ladder == Ladder(b, EntryOf(b, e))
               IN NormalizedFromLadder(ladder, run.score) - NormalizedFromLadder(ladder, swept.best[e])])
      points == swept.points
      earlier == IF points # <<>> /\ points[Len(points)].day = DayOf(run) THEN Front(points) ELSE points
  IN IF improved = {} THEN swept
     ELSE [best |-> [e \in DOMAIN swept.best |-> IF e \in improved THEN run.score ELSE swept.best[e]],
           sum |-> sum,
           points |-> Append(earlier, [day |-> DayOf(run), sum |-> sum])]

AverageRankHistory(b, resolutions, facts) ==
  LET nothing == [best |-> [e \in EntryIds(b) |-> None], sum |-> 0, points |-> <<>>]
  IN FoldLeft(LAMBDA swept, run : Sweep(b, resolutions, swept, run), nothing, facts).points

\* The rank held when a window opens, and the improvements within it.
RankHistoryWindow(points, first, last) ==
  LET before == SelectSeq(points, LAMBDA p : p.day < first)
  IN [established |-> IF before = <<>> THEN None ELSE before[Len(before)],
      improvements |-> SelectSeq(points, LAMBDA p : p.day \in first..last)]
-----------------------------------------------------------------------------
(* The whole evaluation.  Ranks are for a trackable benchmark only.        *)

ResolutionOf(resolutions, e) ==
  IF \E i \in DOMAIN resolutions : resolutions[i].entry = e.id
  THEN SelectSeq(resolutions, LAMBDA r : r.entry = e.id)[1]
  ELSE [entry |-> e.id, state |-> "unresolved", hashes |-> <<>>]
ProjectScenarios(b, resolutions, facts) ==
  [i \in DOMAIN Entries(b) |-> ProjectScenario(b, Entries(b)[i], ResolutionOf(resolutions, Entries(b)[i]), facts)]
BestScores(b, scenarios) == [e \in EntryIds(b) |-> scenarios[PositionOf(Entries(b), e)].best]

RankScenarios(b, resolutions, facts, scenarios, best, attained) ==
  LET ranked == Trackable(b) /\ scenarios # <<>>
      next == IF ranked /\ attained < Len(b.tiers) THEN attained + 1 ELSE 0
      counted == SelectSeq(facts, LAMBDA r : EntriesOf(resolutions, r.hash) # {})
  IN [trackable |-> Trackable(b),
      scenarios |-> scenarios,
      totalPlaytime |-> SumOf([i \in DOMAIN counted |-> counted[i].seconds]),
      attained |-> IF ranked THEN attained ELSE 0,
      completed |-> IF ranked THEN CompletedRank(b, best) ELSE 0,
      groups |-> IF ~ranked THEN <<>>
                 ELSE [c \in DOMAIN b.categories |->
                        [rank |-> GroupRank(b, best, b.categories[c]),
                         subs |-> [s \in DOMAIN b.categories[c].subs |->
                                     SubgroupRank(b, best, b.categories[c].subs[s])]]],
      next |-> next,
      atNext |-> IF next = 0 THEN 0
                 ELSE Cardinality({i \in DOMAIN Entries(b) : Attains(b, best, Entries(b)[i], next)}),
      blockers |-> IF next = 0 THEN {} ELSE NextTierBlockers(b, best, next),
      rankSum |-> IF ranked THEN SumOf([i \in DOMAIN scenarios |-> scenarios[i].rank]) ELSE None,
      history |-> IF ranked THEN AverageRankHistory(b, resolutions, facts) ELSE <<>>]

RankBest(b, resolutions, facts, scenarios, best) ==
  RankScenarios(b, resolutions, facts, scenarios, best, AttainedRank(b, best))
EvaluateScenarios(b, resolutions, facts, scenarios) ==
  RankBest(b, resolutions, facts, scenarios, BestScores(b, scenarios))
EvaluateBenchmark(b, resolutions, facts) ==
  EvaluateScenarios(b, resolutions, facts, ProjectScenarios(b, resolutions, facts))
-----------------------------------------------------------------------------
(* Bars of one chunk per tier.                                             *)

\* The chunks whose bounds cannot be used: a threshold is missing, or is out of order with a
\* neighbour, and which of the two is wrong is unknowable.
MissingThresholdChunks(b, e) ==
  LET s == Thresholds(b, e)
      OutOfOrder(k) == \/ k > 1 /\ s[k - 1] # None /\ s[k] <= s[k - 1]
                       \/ k < Len(s) /\ s[k + 1] # None /\ s[k + 1] <= s[k]
      usable == {k \in DOMAIN s : s[k] # None /\ ~OutOfOrder(k)}
  IN {k \in DOMAIN s : k \notin usable \/ (k > 1 /\ k - 1 \notin usable)}

\* Mutant: a first threshold of zero is an empty span like any other.
ScenarioChunkFills_ZeroSpan(b, e, score) ==
  LET s == Thresholds(b, e)
      Lower(k) == IF k = 1 THEN 0 ELSE s[k - 1]
      Fill(k) == IF s[k] - Lower(k) > 0 THEN Clamp(((score - Lower(k)) * Unit) \div (s[k] - Lower(k)))
                 ELSE 0
  IN [k \in DOMAIN s |-> IF score = None \/ k \in MissingThresholdChunks(b, e) THEN 0 ELSE Fill(k)]

ScenarioChunkFills(b, e, score) ==
  LET s == Thresholds(b, e)
      Lower(k) == IF k = 1 THEN 0 ELSE s[k - 1]
      Fill(k) == IF s[k] - Lower(k) > 0 THEN Clamp(((score - Lower(k)) * Unit) \div (s[k] - Lower(k)))
                 ELSE IF k = 1 /\ s[k] = 0 THEN Unit ELSE 0
  IN [k \in DOMAIN s |-> IF score = None \/ k \in MissingThresholdChunks(b, e) THEN 0 ELSE Fill(k)]

\* The summary's bar: the mean over n scenarios, kept as their sum.
RankChunkFills(sum, n, tiers) ==
  [k \in 1..tiers |-> Max({0, Min({sum - (k - 1) * n * Unit, n * Unit})})]

\* Where a score is on the ladder, in words: the tier it has, and how far it is to the next.
StopsAt(s, score, k) ==
  IF s[k] = None THEN TRUE
  ELSE IF score < s[k] THEN TRUE
  ELSE IF k = 1 THEN FALSE ELSE s[k - 1] # None /\ s[k] <= s[k - 1]
DescribeStop(s, score, k) ==
  LET floor == IF k = 1 THEN 0 ELSE s[k - 1]
      span == IF floor = None THEN 0 ELSE s[k] - floor
  IN IF k > Len(s) THEN [says |-> "top"]
     ELSE IF s[k] = None THEN [says |-> "noThreshold", from |-> k - 1]
     ELSE IF k > 1 /\ span <= 0 THEN [says |-> "notAbove", from |-> k - 1]
     ELSE [says |-> "onTheWay", from |-> k - 1,
           percent |-> IF span > 0 THEN (100 * Clamp(((score - floor) * Unit) \div span)) \div Unit ELSE 0]
DescribeScore(s, score) == DescribeStop(s, score, Min({k \in DOMAIN s : StopsAt(s, score, k)} \cup {Len(s) + 1}))
ProgressDescription(b, e, score) ==
  IF score = None THEN [says |-> "unplayed"] ELSE DescribeScore(Thresholds(b, e), score)

\* What a row says about the tier its personal best has not reached.
EdgeState(b, e, p) ==
  LET fills == ScenarioChunkFills(b, e, p.best)
      top == IF b.tiers = <<>> THEN None ELSE Threshold(e, b.tiers[Len(b.tiers)].id)
  IN CASE p.match \in {"unresolved", "ambiguous", "autoMappable"} -> "unmatched"
       [] p.match \in {"resolved", "mappedUnavailable"} /\ p.best = None -> "unplayed"
       [] p.match \in {"resolved", "mappedUnavailable"} /\ p.best # None ->
            IF top = None THEN ""
            ELSE IF fills[Len(fills)] = Unit /\ p.best > top THEN "aboveTop" ELSE ""

\* A group's cell: its first row, how many rows it has and the tier it satisfies.
GridGroups(b, p) ==
  LET before(c) == Len(b.uncategorized)
        + SumOf([d \in 1..(c - 1) |-> Len(EntriesIn(CategoryLists(b.categories[d])))])
      subBefore(c, s) == before(c) + Len(b.categories[c].scenarios)
        + SumOf([t \in 1..(s - 1) |-> Len(b.categories[c].subs[t].scenarios)])
      chip(rank) == IF p.trackable THEN rank ELSE None
      cell(column, id, start, span, rank) ==
        [column |-> column, id |-> id, start |-> start, span |-> span, rank |-> chip(rank)]
      ranks(c) == IF p.groups = <<>> THEN [rank |-> 0, subs |-> [s \in DOMAIN b.categories[c].subs |-> 0]]
                  ELSE p.groups[c]
  IN {g \in {[cell("category", NoGroup, 0, Len(b.uncategorized), 0) EXCEPT !.rank = None]}
        \cup {cell("category", b.categories[c].id, before(c),
                   Len(EntriesIn(CategoryLists(b.categories[c]))), ranks(c).rank) : c \in DOMAIN b.categories}
        \cup UNION {{cell("subcategory", b.categories[c].subs[s].id, subBefore(c, s),
                          Len(b.categories[c].subs[s].scenarios), ranks(c).subs[s]) :
                       s \in DOMAIN b.categories[c].subs} : c \in DOMAIN b.categories} : g.span > 0}

\* A row of the grid.
GridRow(b, e, p, blockers) ==
  [entry |-> e.id,
   fills |-> ScenarioChunkFills(b, e, p.best),
   missing |-> MissingThresholdChunks(b, e),
   described |-> ProgressDescription(b, e, p.best),
   recent |-> IF p.sample = 0 \/ Ladder(b, e) = <<>> THEN None
              ELSE NormalizedFromLadder(Ladder(b, e), p.recentSum \div p.sample),
   edge |-> EdgeState(b, e, p),
   blocks |-> {x.required : x \in {y \in blockers : y.entry = e.id}}]
=============================================================================
