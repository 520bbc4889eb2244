-------------------------- MODULE BenchmarkTracking --------------------------
(***************************************************************************)
(* The tracking of one selected benchmark                                  *)
(* (app/usecases/benchmark_tracking_use_case), the list of benchmarks      *)
(* viewed lately (recent_benchmarks) and the charts and lists that show it *)
(* (ui/presentation/benchmarks/tracking).                                  *)
(*                                                                         *)
(* Evaluations are cached; a change of the library, the profile or the     *)
(* resolutions drops them, a change of a range or of the day redraws one   *)
(* chart.  Everything runs on the GUI thread, and each call of a listener  *)
(* is a step: the resolutions are joined anew before the tracking is told, *)
(* and joining may write mappings into the library, which tells everybody  *)
(* again from within.                                                      *)
(*                                                                         *)
(* Files and names are numbers of one order, Blank the smallest.  The day  *)
(* of a run is one of few.  An axis without an extent shows the present    *)
(* moment and is None.                                                     *)
(***************************************************************************)
EXTENDS BenchmarkEvaluation, BenchmarkResolution

CONSTANTS
  Libraries,  \* bound: what the benchmark directory may hold
  Recorded,   \* bound: the runs the profile has at first
  NewRuns,    \* bound: the runs it may gain
  Ranges,     \* bound: the ranges of a chart
  Windows,    \* bound: the averaging windows
  Broken,     \* a file that is no benchmark of this version
  NoId,       \* the id of such a file, and no selection
  MaxChanges, \* bound: changes from outside
  MaxDays     \* bound: days that pass

VARIABLES
  library,  \* the accepted snapshot of the benchmark directory and its revision
  runs,     \* the profile's runs, by start, then as they arrived
  resolved, \* the resolutions of each benchmark (BenchmarkResolutionUseCase::m_snapshot)
  config,   \* the committed ranges of the two charts, and the window
  today,    \* the day the day source has announced
  recents,  \* m_ids: benchmarks viewed, the latest first
  calls,    \* the listeners still to be called
  tracking, \* the use case
  view,     \* the view model
  changes   \* changes so far

vars == <<library, runs, resolved, config, today, recents, calls, tracking, view, changes>>

NoInterval == None
Ids == {l[f].id : l \in Libraries, f \in 1..2} \ {NoId}

ASSUME LibrariesAssumption ==
  \A l \in Libraries : \A f \in DOMAIN l : l[f].content = Broken \/ l[f].id # NoId
\* An averaging window is a number of days, which is more than none.
ASSUME WindowsAssumption == 0 \notin Windows
ASSUME RangesAssumption ==
  \A r \in Ranges : r.kind \in {"recentDays", "customDates", "allHistory"} /\ r.anchor \in BOOLEAN
ASSUME BoundsAssumption == MaxChanges \in Nat /\ MaxDays \in Nat
-----------------------------------------------------------------------------
(* The profile: facts of runs, the catalogue of scenarios and the playtime *)
(* averaged over a window, on every day from the first run to the last.    *)

RunFacts(all, hashes) == SelectSeq(all, LAMBDA r : r.hash \in hashes)
Catalogue == [n \in {runs[i].name : i \in DOMAIN runs} |->
                {runs[i].hash : i \in {j \in DOMAIN runs : runs[j].name = n}}]

Dated(facts) == SelectSeq(facts, LAMBDA r : r.time > 0)
RunDays(facts) == {DayOf(Dated(facts)[i]) : i \in DOMAIN Dated(facts)}
RollingPlaytime(facts, window) ==
  LET days == RunDays(facts)
      dated == Dated(facts)
  IN [d \in (IF days = {} THEN {} ELSE Min(days)..Max(days)) |->
       [seconds |-> SumOf([i \in DOMAIN dated |->
                             IF DayOf(dated[i]) \in (d - window + 1)..d THEN dated[i].seconds ELSE 0]),
        over |-> Min({window, d - Min(days) + 1})]]
-----------------------------------------------------------------------------
(* Ranges.                                                                 *)

Interval(first, last) == [first |-> first, last |-> last]
FollowsToday(range) == range.kind = "recentDays" /\ ~range.anchor

\* What a range comes to: nothing, everything or an interval of days.
ResolveRange(range, day, latest) ==
  LET end == IF range.anchor THEN latest ELSE day
  IN CASE range.kind = "recentDays" /\ end = None -> [kind |-> "nothing"]
       [] range.kind = "recentDays" /\ end # None ->
            [kind |-> "interval", interval |-> Interval(end - range.days + 1, end)]
       [] range.kind = "customDates" -> [kind |-> "interval", interval |-> Interval(range.start, range.end)]
       [] range.kind = "allHistory" -> [kind |-> "everything"]

\* The rank has no point after its last improvement, so that is what its range is anchored at, and
\* dates that run past it are cut back.
RankRange(evaluation, cfg, day) ==
  LET points == evaluation.projection.history
      latest == IF points = <<>> THEN None ELSE points[Len(points)].day
      r == ResolveRange(cfg.rank, day, latest)
      end == IF cfg.rank.anchor THEN latest ELSE None
      cut == end # None /\ r.kind = "interval" /\ r.interval.first <= end /\ end < r.interval.last
  IN [anchoredEnd |-> end,
      interval |-> IF r.kind # "interval" THEN NoInterval
                   ELSE IF cut THEN [r.interval EXCEPT !.last = end] ELSE r.interval,
      noHistory |-> r.kind = "nothing"]

PlaytimeRange(evaluation, full, cfg, day) ==
  LET r == ResolveRange(cfg.playtime, day, evaluation.latestRunDay)
      shown == CASE r.kind = "nothing" -> {}
                 [] r.kind = "everything" -> DOMAIN full
                 [] r.kind = "interval" -> DOMAIN full \cap (r.interval.first..r.interval.last)
  IN [window |-> cfg.window,
      interval |-> IF r.kind = "interval" THEN r.interval ELSE NoInterval,
      extent |-> IF DOMAIN full = {} THEN NoInterval ELSE Interval(Min(DOMAIN full), Max(DOMAIN full)),
      points |-> [d \in shown |-> full[d]]]
-----------------------------------------------------------------------------
(* The use case.                                                           *)

NotFound == [file |-> 0, id |-> NoId, content |-> Broken]

\* Two files that claim one id are neither of them available.
FindLoaded(entries, id) ==
  LET found == SelectSeq(entries, LAMBDA e : e.content # Broken /\ e.id = id)
  IN IF Len(found) = 1 THEN found[1] ELSE NotFound

Recency(id, rec) == Highest({i \in DOMAIN rec : rec[i] = id})  \* 0 when never viewed
ChoiceFor(e, rec) ==
  [file |-> e.file, id |-> e.id,
   name |-> IF e.name = Blank THEN e.file ELSE e.name,
   selectable |-> e.content # Broken,
   trackable |-> IF e.content = Broken THEN FALSE ELSE Trackable(e.content),
   recency |-> IF e.id = NoId THEN 0 ELSE Recency(e.id, rec)]

\* A benchmark nothing was joined for yet has no resolutions.
Resolved(id) == IF id \in DOMAIN resolved THEN resolved[id] ELSE <<>>
HashesOf(resolutions) == UNION {ToSet(resolutions[i].hashes) : i \in DOMAIN resolutions}
EvaluateFacts(content, resolutions, facts) ==
  [projection |-> EvaluateBenchmark(content, resolutions, facts),
   facts |-> facts,
   latestRunDay |-> IF RunDays(facts) = {} THEN None ELSE Max(RunDays(facts)),
   window |-> 0, full |-> [d \in {} |-> 0]]
Evaluate(entry) ==
  EvaluateFacts(entry.content, Resolved(entry.id), RunFacts(runs, HashesOf(Resolved(entry.id))))

NothingShown == [choices |-> <<>>, selected |-> NoId, name |-> Blank, state |-> "noSelection",
                 loaded |-> Broken, projection |-> None, rank |-> None, playtime |-> None]
NoEvaluations == [id \in {} |-> 0]

\* The full series is kept for the window it was averaged over.
WithWindow(evaluation, cfg) ==
  IF evaluation.window = cfg.window THEN evaluation
  ELSE [evaluation EXCEPT !.window = cfg.window, !.full = RollingPlaytime(evaluation.facts, cfg.window)]

ShowPlaytime(t, evaluation, cfg, day) ==
  [t EXCEPT !.cache[t.selected] = evaluation,
            !.snapshot.playtime = PlaytimeRange(evaluation, evaluation.full, cfg, day)]
ApplyPlaytimeView(t, cfg, day) == ShowPlaytime(t, WithWindow(t.cache[t.selected], cfg), cfg, day)
ApplyRankRange(t, cfg, day) ==
  [t EXCEPT !.snapshot.rank = RankRange(t.cache[t.selected], cfg, day)]

\* Every benchmark selected is evaluated once, until the cache is dropped.
Held(t, loaded) ==
  IF t.selected \in DOMAIN t.cache \/ loaded = NotFound THEN t.cache
  ELSE [id \in DOMAIN t.cache \cup {t.selected} |->
          IF id = t.selected THEN Evaluate(loaded) ELSE t.cache[id]]

\* The selected benchmark from the cache; one that cannot be found keeps its last name.
Present(t, loaded, empty) ==
  LET shown == [empty EXCEPT !.name = t.name, !.state = "ready", !.loaded = loaded.content,
                             !.projection = t.cache[t.selected].projection]
  IN IF t.selected \in DOMAIN t.cache
     THEN ApplyRankRange(ApplyPlaytimeView([t EXCEPT !.snapshot = shown], config, today), config, today)
     ELSE [t EXCEPT !.snapshot = [empty EXCEPT !.name = t.name, !.state = "unavailable"]]

Claims(choices, id) == SelectSeq(choices, LAMBDA c : c.id = id)

\* The snapshot anew: the choices, and the selected benchmark from the cache or evaluated.
RefreshWith(t, copy, choices, loaded) ==
  LET claims == Claims(choices, t.selected)
      name == IF claims = <<>> THEN t.name ELSE claims[1].name
      empty == [NothingShown EXCEPT !.choices = choices, !.selected = t.selected]
  IN IF t.selected = NoId THEN [t EXCEPT !.copy = copy, !.snapshot = empty]
     ELSE Present([t EXCEPT !.copy = copy, !.cache = Held(t, loaded), !.name = name], loaded, empty)
RefreshFrom(t, copy, rec) ==
  RefreshWith(t, copy, [f \in DOMAIN copy.entries |-> ChoiceFor(copy.entries[f], rec)],
              FindLoaded(copy.entries, t.selected))
Refresh(t, rec) == RefreshFrom(t, IF t.copy.revision = library.revision THEN t.copy ELSE library, rec)
Dropped(t) == [t EXCEPT !.cache = NoEvaluations]
-----------------------------------------------------------------------------
(* The view model.                                                         *)

Widened(extent, other) ==
  CASE extent = NoInterval -> other
    [] extent # NoInterval /\ other = NoInterval -> extent
    [] extent # NoInterval /\ other # NoInterval ->
         Interval(Min({extent.first, other.first}), Max({extent.last, other.last}))

RankPresent(s) == IF s.projection = None THEN FALSE ELSE s.projection.trackable
Points(s) == IF RankPresent(s) THEN s.projection.history ELSE <<>>
RankExtent(s) ==
  IF Points(s) = <<>> THEN NoInterval ELSE Interval(Points(s)[1].day, Points(s)[Len(Points(s))].day)
PlaytimeExtent(s) == IF s.projection = None THEN NoInterval ELSE s.playtime.extent
UnionExtent(s) == Widened(RankExtent(s), PlaytimeExtent(s))

Axis(union, interval) == IF interval # NoInterval THEN interval ELSE union
RankAxis(s, union) ==
  IF s.rank = None THEN union
  ELSE IF s.rank.interval = NoInterval /\ s.rank.anchoredEnd # None /\ union # NoInterval
  THEN Interval(union.first, Max({union.first, Min({union.last, s.rank.anchoredEnd})}))
  ELSE Axis(union, s.rank.interval)
PlaytimeAxis(s, union) == IF s.playtime = None THEN union ELSE Axis(union, s.playtime.interval)

Point(day, sum) == [day |-> day, sum |-> sum]
NoLine == [available |-> FALSE, points |-> <<>>, leading |-> None, trailing |-> None, shown |-> 0]

\* Mutant: the rank held when the range opens is not carried in.
RankLine_NoCarry(s, axis) ==
  LET all == Points(s)
      within == s.rank.interval # NoInterval
      window == RankHistoryWindow(all, s.rank.interval.first, s.rank.interval.last)
      points == IF within THEN window.improvements ELSE all
      right == IF within THEN s.rank.interval.last ELSE axis.last
  IN IF all = <<>> \/ s.rank.noHistory THEN NoLine
     ELSE [available |-> TRUE, points |-> points, leading |-> None,
           trailing |-> IF points = <<>> THEN None
                        ELSE IF points[Len(points)].day >= right THEN None
                        ELSE Point(right, points[Len(points)].sum), shown |-> 1]

\* The rank never lapses: what was reached before a range opens is carried in at its left edge,
\* what was reached last is held to its right edge.
RankLine(s, axis) ==
  LET all == Points(s)
      within == s.rank.interval # NoInterval
      window == RankHistoryWindow(all, s.rank.interval.first, s.rank.interval.last)
      points == IF within THEN window.improvements ELSE all
      leading == IF ~within THEN None
                 ELSE IF window.established = None THEN None
                 ELSE IF points # <<>> /\ points[1].day <= s.rank.interval.first THEN None
                 ELSE Point(s.rank.interval.first, window.established.sum)
      held == CASE points # <<>> -> points[Len(points)].sum
                [] points = <<>> /\ leading # None -> leading.sum
                [] OTHER -> None
      right == IF within THEN s.rank.interval.last ELSE axis.last
      whole == Len(Entries(s.loaded)) * Unit
  IN IF all = <<>> \/ s.rank.noHistory THEN NoLine
     ELSE [available |-> TRUE, points |-> points, leading |-> leading,
           trailing |-> IF held = None \/ (points # <<>> /\ points[Len(points)].day >= right) THEN None
                        ELSE Point(right, held),
           shown |-> Min({Len(s.loaded.tiers), Max({all[i].sum : i \in DOMAIN all}) \div whole + 1})]

\* The picker's list: benchmarks viewed lately, the others by name, then files with a problem.
SelectorOrder(c, d) ==
  CASE c.selectable # d.selectable -> c.selectable
    [] ~c.selectable /\ ~d.selectable -> c.file < d.file
    [] c.selectable /\ d.selectable ->
         IF c.recency # d.recency THEN d.recency = 0 \/ (c.recency # 0 /\ c.recency < d.recency)
         ELSE c.name < d.name \/ (c.name = d.name /\ c.file < d.file)
SelectorEntries(choices) == SortSeq(choices, SelectorOrder)

DeriveState(s) ==
  CASE s.state = "noSelection" ->
         IF \E i \in DOMAIN s.choices : s.choices[i].selectable THEN "noSelection" ELSE "emptyLibrary"
    [] s.state = "unavailable" -> "unavailable"
    [] s.state = "ready" -> IF s.projection.trackable THEN "trackable" ELSE "incomplete"

Grid(s) ==
  IF s.projection = None \/ s.loaded = Broken THEN [rows |-> <<>>, groups |-> {}]
  ELSE [rows |-> [i \in DOMAIN Entries(s.loaded) |->
                    GridRow(s.loaded, Entries(s.loaded)[i], s.projection.scenarios[i], s.projection.blockers)],
        groups |-> GridGroups(s.loaded, s.projection)]

\* A definition is shown by its own name, which may be blank; without one, the last name known.
SelectedName(s) == IF s.loaded = Broken THEN s.name ELSE s.loaded.name

RebuildOn(s, union, axis) ==
     [state |-> DeriveState(s), name |-> SelectedName(s), entries |-> SelectorEntries(s.choices),
      summary |-> s.projection, grid |-> Grid(s),
      averageFills |-> IF ~RankPresent(s) THEN <<>>
                       ELSE RankChunkFills(s.projection.rankSum, Len(Entries(s.loaded)), Len(s.loaded.tiers)),
      union |-> union, rankAxis |-> axis, playtimeAxis |-> PlaytimeAxis(s, union),
      rankLine |-> IF RankPresent(s) THEN RankLine(s, axis) ELSE NoLine,
      playtime |-> s.playtime]
Rebuild(s) == RebuildOn(s, UnionExtent(s), RankAxis(s, UnionExtent(s)))

RebuildRank(v, s) ==
  [v EXCEPT !.rankAxis = RankAxis(s, v.union),
            !.rankLine = IF RankPresent(s) THEN RankLine(s, RankAxis(s, v.union)) ELSE NoLine]

\* The rank's axis, and its line held to the edge, depend on the extent the charts share.
RebuildPlaytime(v, s) ==
  IF UnionExtent(s) # v.union THEN Rebuild(s)
  ELSE [v EXCEPT !.playtimeAxis = PlaytimeAxis(s, v.union), !.playtime = s.playtime]

-----------------------------------------------------------------------------
(* What redraws.  A chart is only redrawn of a benchmark that is ready.    *)

State == [tracking |-> tracking, view |-> view]
Drawn(t) == [tracking |-> t, view |-> Rebuild(t.snapshot)]
Ready(t) == t.snapshot.state = "ready" /\ t.selected \in DOMAIN t.cache

RankRedrawn(t, v) == [tracking |-> t, view |-> RebuildRank(v, t.snapshot)]
RefreshRankOnly(x, cfg, day) ==
  IF Ready(x.tracking) THEN RankRedrawn(ApplyRankRange(x.tracking, cfg, day), x.view) ELSE x
PlaytimeRedrawn(t, v) == [tracking |-> t, view |-> RebuildPlaytime(v, t.snapshot)]
RefreshPlaytimeOnly(x, cfg, day) ==
  IF Ready(x.tracking) THEN PlaytimeRedrawn(ApplyPlaytimeView(x.tracking, cfg, day), x.view) ELSE x

Becomes(x) == tracking' = x.tracking /\ view' = x.view
-----------------------------------------------------------------------------
(* Listeners.                                                              *)

\* The last file of an id is the one whose resolutions are kept.
Loaded(entries) == {f \in DOMAIN entries : entries[f].content # Broken}
Joined(entries) ==
  [id \in {entries[f].id : f \in Loaded(entries)} |->
     Resolve(Catalogue, entries[Max({f \in Loaded(entries) : entries[f].id = id})].content)]

Mapped(entries) ==
  [f \in DOMAIN entries |-> IF entries[f].content = Broken THEN entries[f]
                            ELSE [entries[f] EXCEPT !.content = AutoMapped(Catalogue, @)]]

\* One pass of joining.  Mappings that are written tell everybody of the library, which asks for
\* another pass; only the last pass tells who listens to the resolutions.  A write may fail.
Reconcile ==
  /\ calls # <<>> /\ Head(calls) = "reconcile"
  /\ resolved' = Joined(library.entries)
  /\ \/ /\ Mapped(library.entries) # library.entries
        /\ library' = [entries |-> Mapped(library.entries), revision |-> library.revision + 1]
        /\ calls' = <<"reevaluate", "reconcile">> \o Tail(calls)
     \/ /\ library' = library
        /\ calls' = <<"reevaluate">> \o Tail(calls)
  /\ UNCHANGED <<runs, config, today, recents, tracking, view, changes>>

\* Mutant: only a change of the selected benchmark's file drops its evaluation.
Reevaluate_Kept ==
  /\ calls # <<>> /\ Head(calls) = "reevaluate"
  /\ calls' = Tail(calls)
  /\ Becomes(Drawn(Refresh(IF tracking.copy = library THEN tracking ELSE Dropped(tracking), recents)))
  /\ UNCHANGED <<library, runs, resolved, config, today, recents, changes>>

Reevaluate ==
  /\ calls # <<>> /\ Head(calls) = "reevaluate"
  /\ calls' = Tail(calls)
  /\ Becomes(Drawn(Refresh(Dropped(tracking), recents)))
  /\ UNCHANGED <<library, runs, resolved, config, today, recents, changes>>

\* Nothing else happens on the thread until all have been called.
Quiet == calls = <<>>
Outside == Quiet /\ changes < MaxChanges /\ changes' = changes + 1
Told == calls' = <<"reconcile", "reevaluate">>

LibraryChanged ==
  /\ Outside /\ Told
  /\ \E l \in Libraries :
       /\ l # library.entries
       /\ library' = [entries |-> l, revision |-> library.revision + 1]
  /\ UNCHANGED <<runs, resolved, config, today, recents, tracking, view>>

RunRecorded ==
  /\ Outside /\ Told
  /\ \E r \in NewRuns :
       LET before == Cardinality({i \in DOMAIN runs : runs[i].time <= r.time})
       IN /\ ~\E i \in DOMAIN runs : runs[i].hash = r.hash /\ runs[i].time = r.time
          /\ runs' = InsertAt(runs, before + 1, r)
  /\ UNCHANGED <<library, resolved, config, today, recents, tracking, view>>

ProfileCleared ==
  /\ Outside /\ Told
  /\ runs # <<>> /\ runs' = <<>>
  /\ UNCHANGED <<library, resolved, config, today, recents, tracking, view>>

\* A publication of the configuration: the rank first, then the playtime.
ConfigurationChanged ==
  /\ Outside
  /\ \E rank \in Ranges, playtime \in Ranges, window \in Windows :
       LET cfg == [rank |-> rank, playtime |-> playtime, window |-> window]
           ranked == IF cfg.rank # config.rank THEN RefreshRankOnly(State, cfg, today) ELSE State
       IN /\ cfg # config
          /\ cfg.rank = config.rank \/ cfg.window = config.window
          /\ config' = cfg
          /\ Becomes(IF cfg.playtime # config.playtime \/ cfg.window # config.window
                     THEN RefreshPlaytimeOnly(ranked, cfg, today) ELSE ranked)
  /\ UNCHANGED <<library, runs, resolved, today, recents, calls>>

DayChanged ==
  /\ Quiet /\ today < MaxDays /\ today' = today + 1
  /\ LET ranked == IF FollowsToday(config.rank) THEN RefreshRankOnly(State, config, today') ELSE State
     IN Becomes(IF FollowsToday(config.playtime) THEN RefreshPlaytimeOnly(ranked, config, today') ELSE ranked)
  /\ UNCHANGED <<library, runs, resolved, config, recents, calls, changes>>
-----------------------------------------------------------------------------
(* The user.                                                               *)

MarkViewed(id) == <<id>> \o SelectSeq(recents, LAMBDA r : r # id)

Selected(id) ==
  /\ recents' = MarkViewed(id)
  /\ Becomes(Drawn(Refresh([tracking EXCEPT !.selected = id, !.name = Blank], recents')))

Select ==
  /\ Quiet
  /\ \E id \in Ids : id # tracking.selected /\ Selected(id)
  /\ UNCHANGED <<library, runs, resolved, config, today, calls, changes>>

ClearSelection ==
  /\ Quiet /\ tracking.selected # NoId
  /\ Becomes(Drawn(Refresh([tracking EXCEPT !.selected = NoId, !.name = Blank], recents)))
  /\ UNCHANGED <<library, runs, resolved, config, today, recents, calls, changes>>

\* The benchmark viewed last that is still there, else the only one.
SelectDefault ==
  /\ Quiet /\ tracking.selected = NoId
  /\ LET able == SelectSeq(tracking.snapshot.choices, LAMBDA c : c.selectable)
         viewed == SelectSeq(recents, LAMBDA id : \E i \in DOMAIN able : able[i].id = id)
     IN /\ viewed # <<>> \/ Len(able) = 1
        /\ Selected(IF viewed # <<>> THEN viewed[1] ELSE able[1].id)
  /\ UNCHANGED <<library, runs, resolved, config, today, calls, changes>>

\* A benchmark that was created comes after the one being viewed.
MarkCreated ==
  /\ Quiet
  /\ \E id \in Ids \ ToSet(recents) :
       recents' = IF recents = <<>> THEN <<id>> ELSE InsertAt(recents, 2, id)
  /\ Becomes(Drawn(Refresh(tracking, recents')))
  /\ UNCHANGED <<library, runs, resolved, config, today, calls, changes>>
-----------------------------------------------------------------------------
Init ==
  /\ runs = Recorded
  /\ library \in {[entries |-> Mapped(l), revision |-> 1] : l \in Libraries}
  /\ recents = <<>> /\ today = 1 /\ changes = 0 /\ calls = <<>>
  /\ resolved = Joined(library.entries)
  /\ config \in [rank : {[kind |-> "allHistory", anchor |-> FALSE]},
                 playtime : {[kind |-> "allHistory", anchor |-> FALSE]}, window : Windows]
  /\ tracking = Refresh([copy |-> [entries |-> <<>>, revision |-> 0], selected |-> NoId, name |-> Blank,
                         cache |-> NoEvaluations, snapshot |-> NothingShown], recents)
  /\ view = Rebuild(tracking.snapshot)

Next ==
  \/ Reconcile
  \/ Reevaluate
  \/ LibraryChanged \/ RunRecorded \/ ProfileCleared \/ ConfigurationChanged \/ DayChanged
  \/ Select \/ ClearSelection \/ SelectDefault \/ MarkCreated

Spec == Init /\ [][Next]_vars
-----------------------------------------------------------------------------
(* Properties.                                                             *)

\* Once every listener has been called, what is shown is what would be drawn of the library, the
\* profile, the ranges and the day of now with nothing kept: no evaluation in the cache is of
\* another definition, profile or resolution, no averaged series of another window, and a chart
\* redrawn alone is as in a full rebuild (BenchmarkTrackingUseCase::reevaluate, refreshRankOnly,
\* refreshPlaytimeOnly; BenchmarkTrackingViewModel::rebuildRank, rebuildPlaytime).
ShowsNow(snapshot) == tracking.snapshot = snapshot /\ view = Rebuild(snapshot)
ProgressIsCurrent ==
  Quiet =>
    /\ resolved = Joined(library.entries)
    /\ ShowsNow(Refresh([tracking EXCEPT !.copy.revision = 0, !.cache = NoEvaluations], recents).snapshot)

Shown == tracking.snapshot.projection
Of == tracking.snapshot.loaded
Ranking == Quiet /\ RankPresent(tracking.snapshot)
BestOf(e) == Shown.scenarios[PositionOf(Entries(Of), e)].best
\* Raised to what they need, the blockers a set of groups has.
Raised(groups) ==
  [e \in EntryIds(Of) |->
     LET need == {x.required : x \in {y \in Shown.blockers : y.entry = e /\ y.group \in groups}}
     IN IF need = {} THEN BestOf(e) ELSE Max(need)]

\* A trackable benchmark ranks every scenario; a rank that is completed is attained.  The blockers
\* are exactly what stands between the benchmark and its next tier: the scores they ask for would
\* reach it, and leaving out those of any one group would not (benchmark_evaluator, collectBlockers;
\* the progress grid marks these rows).
BlockersExplain ==
  Ranking =>
    LET groups == {x.group : x \in Shown.blockers}
    IN /\ \A i \in DOMAIN Entries(Of) : Ladder(Of, Entries(Of)[i]) # <<>>
       /\ Shown.completed <= Shown.attained
       /\ (Shown.next = 0) = (Shown.attained = Len(Of.tiers))
       /\ Shown.next # 0 =>
            /\ AttainedRank(Of, Raised(groups)) >= Shown.next
            /\ \A g \in groups : AttainedRank(Of, Raised(groups \ {g})) = Shown.attained
            /\ \A x \in Shown.blockers : x.current # None => x.current < x.required

\* The average rank that the runs up to a day give.
RankSumOf(scenarios) ==
  IF \A i \in DOMAIN scenarios : scenarios[i].best = None THEN None
  ELSE SumOf([i \in DOMAIN scenarios |-> scenarios[i].rank])
RankOn(day) ==
  RankSumOf(ProjectScenarios(Of, resolved[tracking.selected], SelectSeq(runs, LAMBDA r : DayOf(r) <= day)))

\* The line of the average rank is true on every day it has a point, and has one wherever the rank
\* changes within its range and at both edges, once there is a rank: an improvement before the range
\* is carried in, the last is held to the end (updateRankHistory).  The last point is the rank the
\* summary shows.
DrawsRank(axis, drawn, rank) ==
  /\ \A p \in drawn : p.day \in axis.first..axis.last /\ p.sum = rank[p.day]
  /\ \A d \in axis.first..axis.last :
       rank[d] # None /\ (d \in {axis.first, axis.last} \/ rank[d] # rank[d - 1]) => \E p \in drawn : p.day = d
LineIsTrue ==
  Ranking /\ view.rankLine.available =>
    LET line == view.rankLine
        axis == view.rankAxis
    IN /\ Last(Shown.history).sum = Shown.rankSum
       /\ DrawsRank(axis, ToSet(line.points) \cup ({line.leading, line.trailing} \ {None}),
                    [d \in (axis.first - 1)..axis.last |-> RankOn(d)])

\* A scenario's bar, the rank of its score and the words that describe it say the same: the chunks
\* add up to the rank, the full ones are the tiers reached, the next is filled as far as is said.
\* Where the ladder cannot be used, no chunk is filled from a bound the bar marks as missing.  The
\* summary's bar adds up to the average, of which the completed tiers are full.
BarsAgree ==
  Quiet /\ tracking.snapshot.state = "ready" =>
    /\ \A i \in DOMAIN view.grid.rows :
         LET row == view.grid.rows[i]
             e == Entries(Of)[i]
             p == Shown.scenarios[i]
             full == {k \in DOMAIN row.fills : row.fills[k] = Unit}
         IN /\ Ladder(Of, e) # <<>> => SumOf(row.fills) = p.rank /\ row.missing = {}
            /\ Ladder(Of, e) # <<>> /\ p.best # None =>
                 /\ full = 1..p.attained
                 /\ IF p.next = 0 THEN row.described = [says |-> "top"]
                    ELSE /\ row.described.says = "onTheWay" /\ row.described.from = p.attained
                         /\ row.described.percent = (100 * row.fills[p.next]) \div Unit
            /\ \A k \in row.missing : row.fills[k] = 0
            /\ row.edge = "aboveTop" => p.best > ScoreFor(e, Of.tiers[Len(Of.tiers)].id)
    /\ Shown.trackable =>
         LET whole == Len(Entries(Of)) * Unit
         IN /\ SumOf(view.averageFills) = Shown.rankSum
            /\ \A k \in 1..Shown.completed : view.averageFills[k] = whole
            /\ \A g \in view.grid.groups : g.column = "category" /\ g.id # NoGroup => g.rank >= Shown.attained

\* What the window draws of a benchmark is what the evaluation says of it, and the
\* blockers it lists are what keeps the benchmark from its next tier.
PictureTrue == LineIsTrue /\ BarsAgree /\ BlockersExplain
=============================================================================
