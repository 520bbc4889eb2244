------------------------------ MODULE RunViews ------------------------------
(***************************************************************************)
(* The views of the runs: the session's current run, the graph of that     *)
(* run, the history of its scenario and the browser's lists.  They are     *)
(* kept by four listeners of currentRunChanged and two of profileChanged,  *)
(* called in the order in which App connects them (app/app.cpp); every     *)
(* action is one event of the GUI thread with all the calls it causes.     *)
(*                                                                         *)
(* The profile and its merges are UserProfile's; ProfileImport says when   *)
(* an import is accepted and whether the selection then follows the latest *)
(* run (here the parameter "latest").                                      *)
(***************************************************************************)
EXTENDS Integers, Sequences, FiniteSets, SequencesExt, FiniteSetsExt

CONSTANTS
  Plays,      \* what was played, each recorded by a performance, a CSV or both
  Data,       \* what the two files of a play say, see DataAssumption
  NoSource,   \* a run without a performance, or without a CSV
  Catalogue,  \* the scenarios in the order the profile's hash map lists them
  NameRank,   \* the place of a scenario's name in the alphabet
  Stores,     \* bound: the recordings in the stores and directories to choose from
  Searches,   \* bound: the scenarios a search text matches; all of them for no text
  RunSorts,      \* bound: the orders of the run list, [field, ascending]
  ScenarioSorts, \* bound: the orders of the list of scenarios
  Ranges,     \* bound: the ranges of the history that are committed
  DayLength,  \* seconds in a day
  Window,     \* runs in the rolling average, 10 in the code
  RecentRuns, \* kRecentRunsCount
  LastDay     \* bound: today

Halves == {"perf", "csv"}
Scenarios == ToSet(Catalogue)

ASSUME DataAssumption == \A play \in Plays :
  /\ Data[play].scenario \in Scenarios
  /\ \A half \in Halves : /\ Data[play][half].start \in Nat \ {0}
                          /\ Data[play][half].length \in Nat \ {0}
                          /\ Data[play][half].score \in Nat /\ Data[play][half].accuracy \in Nat
ASSUME StoresAssumption == Stores \subseteq [Plays -> SUBSET Halves]
ASSUME BoundsAssumption == Window \in Nat \ {0} /\ RecentRuns \in Nat /\ DayLength \in Nat \ {0}

VARIABLES
  profile,  \* the accepted profile
  current,  \* m_current_run: a copy of the run, or NoRun
  range,    \* the committed range of the history
  today,    \* the day of the day source
  graph,    \* GraphViewModel and the buckets GraphUseCase remembers
  history,  \* CompletionHistoryViewModel and its use case
  browser,  \* ScenarioBrowserViewModel
  names,    \* SessionViewModel's list of scenarios
  unlisted, \* history variable: whether the current run's scenario was missing from the
            \* profile after some event since it was last active
  altered   \* history variable: whether the current run gained or lost its performance
            \* while its identity stayed

vars == <<profile, current, range, today, graph, history, browser, names, unlisted, altered>>
settings == <<range, today>>

P == INSTANCE UserProfile
       WITH Sources <- Plays, Incoming <- {}, MaxRuns <- 0, merge <- "None"

NoRun == [scenario |-> "None", start |-> 0, length |-> 0, perf |-> NoSource, csv |-> NoSource]

\* The run made of these halves of a play: a performance sets start and length.
RunOf(play, halves) ==
  LET told == Data[play][IF "perf" \in halves THEN "perf" ELSE "csv"] IN
  [scenario |-> Data[play].scenario, start |-> told.start, length |-> told.length,
   perf |-> IF "perf" \in halves THEN play ELSE NoSource,
   csv |-> IF "csv" \in halves THEN play ELSE NoSource]

\* The totals are the CSV's once there is one.
Totals(run) == IF run.csv # NoSource THEN Data[run.csv].csv ELSE Data[run.perf].perf

-----------------------------------------------------------------------------
(* What the profile answers.                                                *)

ScenarioList(p) == SelectSeq(Catalogue, LAMBDA s : p.history[s] # <<>>)
LatestRun(p) == IF p.latest = P!None THEN NoRun ELSE p.runs[p.latest]
RunWithId(p, id) == IF id \in DOMAIN p.index THEN p.runs[p.index[id]] ELSE NoRun
RunsForScenario(p, s) == [k \in DOMAIN p.history[s] |-> p.runs[p.history[s][k]]]
\* SessionViewModel::updateScenarioHashMap: the names offered for a choice of scenario.
Names(p) == ToSet(ScenarioList(p))
CompletionHistory(p, s) == IF s \in Scenarios THEN RunsForScenario(p, s) ELSE <<>>
MostRecentRuns(p, s, n) ==
  LET all == RunsForScenario(p, s) IN SubSeq(all, Len(all) - Min({n, Len(all)}) + 1, Len(all))
MostRecentRun(p, s) == Last(RunsForScenario(p, s))

\* std::stable_sort of records by one of their fields.
StableSort(rows, field, ascending) ==
  LET Before(i, j) ==
        \/ IF ascending THEN rows[i][field] < rows[j][field] ELSE rows[i][field] > rows[j][field]
        \/ rows[i][field] = rows[j][field] /\ i < j
      order == SetToSortSeq(DOMAIN rows, Before)
  IN [k \in DOMAIN rows |-> rows[order[k]]]

\* The code's sort leaves the order of equal starts open.
LatestRuns(p, n) == LET sorted == StableSort(p.runs, "start", FALSE) IN
                    SubSeq(sorted, 1, Min({n, Len(sorted)}))

-----------------------------------------------------------------------------
(* The graph of the current run.                                            *)

\* bucketRun: a point for every second of a performance, none without one.
Buckets(run) == IF run.perf = NoSource THEN 0 ELSE run.length

\* Mutant: the identity of what is remembered is not compared.
Remembered_Kept(cached, run) ==
  [id |-> P!Id(run), times |-> IF cached.id = P!NoId THEN Buckets(run) ELSE cached.times]

\* referenceBuckets: the buckets remembered for a run's identity.
Remembered(cached, run) ==
  IF cached.id = P!Id(run) THEN cached ELSE [id |-> P!Id(run), times |-> Buckets(run)]

ContentState(run) ==
  CASE run = NoRun -> "NoRunSelected"
    [] run # NoRun /\ run.perf # NoSource -> "HasData"
    [] OTHER -> "NoPerformanceData"

\* GraphViewModel::fetchData and recomputeBounds: the values are computed from the
\* run, the x of the points and the duration from the remembered buckets.
FetchData(cached, run) ==
  LET buckets == Remembered(cached, run) IN
  [title |-> P!Id(run), state |-> ContentState(run), cached |-> buckets,
   points |-> Min({buckets.times, Buckets(run)}),
   bound |-> IF buckets.times > 0 THEN buckets.times ELSE 60]

-----------------------------------------------------------------------------
(* The history of the current run's scenario.                               *)

DayOf(start) == start \div DayLength

\* resolveRange and selectRows.
Visible(days, r, day) ==
  LET anchor == IF r.anchor THEN Max(ToSet(days)) ELSE day IN
  CASE days = <<>> -> {}
    [] days # <<>> /\ r.kind = "all" -> DOMAIN days
    [] days # <<>> /\ r.kind = "recentDays" ->
         {k \in DOMAIN days : days[k] \in anchor - r.days + 1 .. anchor}
    [] days # <<>> /\ r.kind = "customDates" ->
         {k \in DOMAIN days : days[k] \in r.start .. r.end}
    [] days # <<>> /\ r.kind = "latestRuns" ->
         Len(days) - Min({r.count, Len(days)}) + 1 .. Len(days)

FollowsToday(r) == r.kind = "recentDays" /\ ~r.anchor

\* Mutant: what leaves the window of the average is not taken away.
WindowSums_Growing(runs) ==
  FoldLeft(LAMBDA sums, k : Append(sums, (IF k = 1 THEN 0 ELSE sums[k - 1]) + Totals(runs[k]).score),
           <<>>, [k \in DOMAIN runs |-> k])

\* get_history: the sum is carried on, less the run that leaves the window.
WindowSums(runs) ==
  FoldLeft(LAMBDA sums, k :
             Append(sums, (IF k = 1 THEN 0 ELSE sums[k - 1]) + Totals(runs[k]).score
                          - (IF k > Window THEN Totals(runs[k - Window]).score ELSE 0)),
           <<>>, [k \in DOMAIN runs |-> k])

GetHistory(p, run, r, day) ==
  LET runs == CompletionHistory(p, run.scenario)
      sums == WindowSums(runs)
      visible == Visible([k \in DOMAIN runs |-> DayOf(runs[k].start)], r, day)
  IN [title |-> run.scenario, count |-> Len(runs),
      rows |-> [k \in 1 .. Cardinality(visible) |->
                  LET i == SetToSortSeq(visible, <)[k] IN
                  [index |-> i, score |-> Totals(runs[i]).score,
                   sum |-> sums[i], of |-> Min({i, Window})]]]

SelectedIndex(p, run) ==
  LET runs == CompletionHistory(p, run.scenario)
      found == {k \in DOMAIN runs : P!Id(runs[k]) = P!Id(run)}
  IN IF found = {} THEN -1 ELSE Min(found)

VisibleRuns(h) == {h.rows[k].index : k \in DOMAIN h.rows}

RefreshSelection(h, p, run) ==
  [h EXCEPT !.selected = SelectedIndex(p, run),
            !.marked = SelectedIndex(p, run) \in VisibleRuns(h)]

\* CompletionHistoryViewModel::refresh; the axis spans the visible runs.
DrawHistory(h, p, run, r, day) ==
  LET now == GetHistory(p, run, r, day)
      first == IF now.rows = <<>> THEN 1 ELSE now.rows[1].index
      last == IF now.rows = <<>> THEN Max({1, now.count}) ELSE Last(now.rows).index
  IN RefreshSelection([h EXCEPT !.title = now.title, !.count = now.count, !.rows = now.rows,
                                !.axis = <<first, last>>], p, run)

RefreshHistory(h, p, run) == DrawHistory(h, p, run, range, today)

\* Mutant: the scenario that is shown is not remembered.
ScenarioTold_Forgets(h, p, run) ==
  IF run.scenario = h.last THEN h ELSE RefreshHistory(h, p, run)

\* onCurrentScenarioChanged: another current run of the same scenario draws nothing again.
ScenarioTold(h, p, run) ==
  IF run.scenario = h.last THEN h ELSE [RefreshHistory(h, p, run) EXCEPT !.last = run.scenario]

ProfileTold(h, p, run) == [RefreshHistory(h, p, run) EXCEPT !.last = run.scenario]

-----------------------------------------------------------------------------
(* The scenario browser.                                                    *)

Row(run, best) ==
  [id |-> P!Id(run), start |-> run.start, score |-> Totals(run).score,
   accuracy |-> Totals(run).accuracy, best |-> best]

\* withPersonalBest: the highest score so far is carried along.
WithPersonalBest(runs) ==
  FoldLeft(LAMBDA acc, run :
             LET best == Totals(run).score > acc.highest IN
             [rows |-> Append(acc.rows, Row(run, best)),
              highest |-> IF best THEN Totals(run).score ELSE acc.highest],
           [rows |-> <<>>, highest |-> -1], runs).rows

\* Mutant: a score that was reached before counts as a best.
IsPersonalBest_Equalled(runs, target) ==
  LET k == CHOOSE i \in DOMAIN runs : P!Id(runs[i]) = P!Id(target) IN
  \A j \in 1 .. k - 1 : Totals(target).score >= Totals(runs[j]).score

IsPersonalBest(runs, target) ==
  LET k == CHOOSE i \in DOMAIN runs : P!Id(runs[i]) = P!Id(target) IN
  \A j \in 1 .. k - 1 : Totals(target).score > Totals(runs[j]).score

Summary(p, s) ==
  [scenario |-> s, name |-> NameRank[s], count |-> p.count[s], time |-> p.time[s],
   last |-> MostRecentRun(p, s).start]

Summaries(p) == [k \in DOMAIN ScenarioList(p) |-> Summary(p, ScenarioList(p)[k])]

GetRunsForScenario(p, s) == Reverse(WithPersonalBest(MostRecentRuns(p, s, p.count[s])))

RecentRows(p) ==
  LET runs == LatestRuns(p, RecentRuns) IN
  [k \in DOMAIN runs |-> Row(runs[k], IsPersonalBest(RunsForScenario(p, runs[k].scenario), runs[k]))]

RefreshRuns(b, p) ==
  [b EXCEPT !.runs = IF b.active = "None" THEN <<>>
                     ELSE StableSort(GetRunsForScenario(p, b.active),
                                     b.runSort.field, b.runSort.ascending)]

SetActive(b, p, s) == IF b.active = s THEN b ELSE RefreshRuns([b EXCEPT !.active = s], p)

\* Mutant: the scenario of another current run is not activated.
RefreshCurrentRun_OnlyNotes(b, p, run) == [b EXCEPT !.run = P!Id(run)]

\* Only another current run moves the active scenario.
RefreshCurrentRun(b, p, run) ==
  LET moved == [b EXCEPT !.run = P!Id(run)] IN
  IF b.run = P!Id(run) THEN b
  ELSE IF run = NoRun THEN moved
  ELSE SetActive(moved, p, run.scenario)

ApplyFilter(b) == [b EXCEPT !.shown = SelectSeq(b.all, LAMBDA x : x.scenario \in b.search)]

\* Mutant: a scenario that is gone stays active.
RefreshScenarios_KeepsGone(b, p) ==
  ApplyFilter([b EXCEPT !.all = StableSort(Summaries(p), b.scenarioSort.field,
                                           b.scenarioSort.ascending)])

\* A scenario that is gone is no longer active.
RefreshScenarios(b, p) ==
  LET all == StableSort(Summaries(p), b.scenarioSort.field, b.scenarioSort.ascending)
      listed == ApplyFilter([b EXCEPT !.all = all])
  IN IF \E k \in DOMAIN all : all[k].scenario = b.active THEN listed
     ELSE SetActive(listed, p, "None")

RefreshBrowser(b, p, run) ==
  LET listed == RefreshScenarios(RefreshCurrentRun(b, p, run), p) IN
  [RefreshRuns(listed, p) EXCEPT !.recent = RecentRows(p)]

-----------------------------------------------------------------------------
(* The session: emissions and what they call.                               *)

\* Everything is built from the profile that was loaded first.
NewHistory == [title |-> "None", count |-> 0, rows |-> <<>>, axis |-> <<1, 1>>,
               selected |-> -1, marked |-> FALSE, last |-> "None"]
NewBrowser == [run |-> P!NoId, active |-> "None", search |-> Scenarios, all |-> <<>>,
               shown |-> <<>>, runs |-> <<>>, recent |-> <<>>,
               runSort |-> [field |-> "start", ascending |-> FALSE],
               scenarioSort |-> [field |-> "last", ascending |-> FALSE]]

\* The profile of the recordings in a store or directory.
ProfileOf(store) ==
  LET Merge(p, play) ==
        IF store[play] = {} THEN p ELSE P!MergeImportedRun(p, RunOf(play, store[play]), P!NoId)
  IN FoldLeft(Merge, P!EmptyProfile, SetToSeq(Plays))

\* currentRunChanged: the graph, the two listeners of the history, the browser.
CurrentRunChanged(p, run, b) ==
  /\ current' = run
  /\ graph' = FetchData(graph.cached, run)
  /\ history' = RefreshSelection(ScenarioTold(history, p, run), p, run)
  /\ browser' = RefreshBrowser(b, p, run)

\* setCurrentRun: a run with the identity of the current one changes nothing.
SetCurrentRun(run, b) ==
  /\ UNCHANGED <<profile, settings, names>>
  /\ IF P!Id(run) = P!Id(current) THEN browser' = b /\ UNCHANGED <<current, graph, history>>
     ELSE CurrentRunChanged(profile, run, b)

\* setCurrentRun(run_id): an identity the profile does not have is ignored.
SelectRun(id) == id \in DOMAIN profile.index /\ SetCurrentRun(RunWithId(profile, id), browser)

\* currentRunChanged if "told", then profileChanged.
ProfileChanged(p, run, told) ==
  /\ profile' = p
  /\ current' = run
  /\ graph' = IF told THEN FetchData(graph.cached, run) ELSE graph
  /\ history' = ProfileTold(history, p, run)
  /\ names' = Names(p)
  /\ browser' = RefreshBrowser(browser, p, run)
  /\ UNCHANGED settings

\* SessionController::refreshCurrentRun after an accepted import; it tells the
\* listeners also when the identity is the same.
Accept(p, rekeyed, latest) ==
  LET id == IF P!Id(current) \in DOMAIN rekeyed THEN rekeyed[P!Id(current)] ELSE P!Id(current)
      follow == latest \/ current = NoRun
      selected == IF follow THEN LatestRun(p) ELSE RunWithId(p, id)
      found == follow \/ id \in DOMAIN p.index
  IN ProfileChanged(p, IF found THEN selected ELSE current, found)

Init ==
  /\ profile \in {ProfileOf(store) : store \in Stores}
  /\ current = LatestRun(profile)
  /\ range \in Ranges /\ today \in 1 .. LastDay
  /\ graph = FetchData([id |-> P!NoId, times |-> 0], current)
  /\ history = ProfileTold(NewHistory, profile, current)
  /\ browser = RefreshBrowser(NewBrowser, profile, current)
  /\ names = Names(profile)
  /\ unlisted = (current.scenario \notin ToSet(ScenarioList(profile))) /\ altered = FALSE

-----------------------------------------------------------------------------
(* What the user and the importer do.                                       *)

KnownHalves(play) ==
  {h \in Halves : \E i \in DOMAIN profile.runs : profile.runs[i][h] = play}
KnownId(play) ==
  IF KnownHalves(play) = {} THEN P!NoId
  ELSE P!Id(CHOOSE run \in ToSet(profile.runs) : play \in {run.perf, run.csv})

\* A refresh found files of a play; those of a known play join its run.
RefreshAccepted(play, halves, latest) ==
  LET run == RunOf(play, KnownHalves(play) \cup halves) IN
  /\ P!MergeResult(profile, run, KnownId(play)) \in {"Added", "Enriched"}
  /\ Accept(P!MergeImportedRun(profile, run, KnownId(play)),
            IF KnownId(play) \in {P!NoId, P!Id(run)} THEN <<>>
            ELSE [id \in {KnownId(play)} |-> P!Id(run)], latest)

\* A rebuild found these recordings and no others.
RebuildAccepted(store) == Accept(ProfileOf(store), <<>>, TRUE)

\* Another store was selected: setCurrentRunToLatest, then profileChanged.
ProfileLoaded(store) ==
  LET p == ProfileOf(store)
      told == P!Id(LatestRun(p)) # P!Id(current)
  IN ProfileChanged(p, IF told THEN LatestRun(p) ELSE current, told)

\* A performance is opened from its file, known to the profile or not.
OpenPerf(play) == SetCurrentRun(RunOf(play, {"perf"}), browser)

LoadLatest == SetCurrentRun(LatestRun(profile), browser)

\* A scenario of the list is activated; its latest run becomes current unless the
\* current run is one of it already.
ActivateScenario(s) ==
  LET active == SetActive(browser, profile, s) IN
  /\ \E k \in DOMAIN browser.shown : browser.shown[k].scenario = s
  /\ IF current.scenario = s
     THEN browser' = active /\ UNCHANGED <<profile, current, settings, graph, history, names>>
     ELSE SetCurrentRun(MostRecentRun(profile, s), active)

BrowserRowClicked ==
  \E row \in ToSet(browser.runs) \cup ToSet(browser.recent) : SelectRun(row.id)

\* A point of the history is clicked: its number is looked up in the whole history.
HistoryPointClicked(index) ==
  /\ index \in VisibleRuns(history)
  /\ current # NoRun
  /\ index <= Len(CompletionHistory(profile, current.scenario))
  /\ SelectRun(P!Id(CompletionHistory(profile, current.scenario)[index]))

BrowserSet(b) == browser' = b /\ UNCHANGED <<profile, current, settings, graph, history, names>>

SetSearch(matching) == BrowserSet(ApplyFilter([browser EXCEPT !.search = matching]))
SetRunSort(sort) == BrowserSet(RefreshRuns([browser EXCEPT !.runSort = sort], profile))
SetScenarioSort(sort) == BrowserSet(RefreshScenarios([browser EXCEPT !.scenarioSort = sort], profile))

HistoryDrawn(h) == history' = h /\ UNCHANGED <<profile, current, graph, browser, names>>

\* Mutant: the day does not matter to the history.
DayChanged_NotTold == today < LastDay /\ today' = today + 1 /\ UNCHANGED range /\ HistoryDrawn(history)

RangeCommitted(r) ==
  /\ range' = r /\ UNCHANGED today
  /\ HistoryDrawn(IF r = range THEN history ELSE DrawHistory(history, profile, current, r, today))

DayChanged ==
  /\ today < LastDay /\ today' = today + 1 /\ UNCHANGED range
  /\ HistoryDrawn(IF FollowsToday(range)
                  THEN DrawHistory(history, profile, current, range, today + 1) ELSE history)

Event ==
  \/ \E play \in Plays, halves \in (SUBSET Halves) \ {{}}, latest \in BOOLEAN :
       RefreshAccepted(play, halves, latest)
  \/ \E store \in Stores : RebuildAccepted(store) \/ ProfileLoaded(store)
  \/ \E play \in Plays : OpenPerf(play)
  \/ LoadLatest
  \/ \E s \in Scenarios : ActivateScenario(s)
  \/ BrowserRowClicked
  \/ \E index \in VisibleRuns(history) : HistoryPointClicked(index)
  \/ \E matching \in Searches : SetSearch(matching)
  \/ \E sort \in RunSorts : SetRunSort(sort)
  \/ \E sort \in ScenarioSorts : SetScenarioSort(sort)
  \/ \E r \in Ranges : RangeCommitted(r)
  \/ DayChanged

\* What the history variables remember of an event.
SameRun == P!Id(current') = P!Id(current)
Remember ==
  /\ unlisted' = \/ current'.scenario \notin ToSet(ScenarioList(profile'))
                 \/ unlisted /\ SameRun /\ browser'.active # current'.scenario
  /\ altered' = (SameRun /\ (altered \/ current'.perf # current.perf))

Next == Event /\ Remember

Spec == Init /\ [][Next]_vars

-----------------------------------------------------------------------------
(* Properties.                                                              *)

\* The graph is drawn as one opened now would draw it, with one exception: while a run is current
\* that gained or lost its performance under its identity, what was remembered of it before is not
\* dropped, so that the points, if there are any, and the axis may be those of its other form.
DrawnFrom(run) == FetchData([id |-> P!Id(current), times |-> Buckets(run)], current)
OtherForms == {run \in {RunOf(play, halves) : play \in Plays, halves \in (SUBSET Halves) \ {{}}} :
                 P!Id(run) = P!Id(current)}
GraphTrue ==
  \/ graph = DrawnFrom(current)
  \/ altered /\ \E run \in OtherForms : graph = DrawnFrom(run)

\* The history is the one a window opened now would draw; a score's average is that
\* of the last runs up to it, visible or not; the marked run is the current one.
HistoryTrue ==
  LET runs == CompletionHistory(profile, current.scenario) IN
  /\ history = ProfileTold(NewHistory, profile, current)
  /\ \A k \in DOMAIN history.rows :
       LET row == history.rows[k]
           window == Max({1, row.index - Window + 1}) .. row.index
           ScoreOf(i) == Totals(runs[i]).score
       IN row.of = Cardinality(window) /\ row.sum = MapThenSumSet(ScoreOf, window)
  /\ history.marked => \E k \in DOMAIN history.rows :
       P!Id(runs[history.rows[k].index]) = P!Id(current)

\* A row is in the profile, and a personal best if no earlier run of its scenario
\* scored as much.
RowTrue(row) ==
  LET runs == RunsForScenario(profile, row.id.scenario) IN
  \E i \in DOMAIN runs :
    /\ P!Id(runs[i]) = row.id /\ row.score = Totals(runs[i]).score
    /\ row.best <=> \A j \in 1 .. i - 1 : Totals(runs[j]).score < row.score

Ordered(rows, sort) ==
  \A j, k \in DOMAIN rows :
    j < k => IF sort.ascending THEN rows[j][sort.field] <= rows[k][sort.field]
             ELSE rows[j][sort.field] >= rows[k][sort.field]

\* The browser's lists hold what they should, in the order asked for: the scenarios
\* that match, all runs of the active one, the latest runs of all.
BrowserTrue ==
  LET runs == IF browser.active = "None" THEN <<>> ELSE RunsForScenario(profile, browser.active)
      listed == {browser.shown[k].scenario : k \in DOMAIN browser.shown}
  IN
  /\ listed = ToSet(ScenarioList(profile)) \cap browser.search
  /\ \A k \in DOMAIN browser.shown :
       browser.shown[k] = Summary(profile, browser.shown[k].scenario)
  /\ Ordered(browser.shown, browser.scenarioSort) /\ Ordered(browser.runs, browser.runSort)
  /\ Len(browser.runs) = Len(runs)
  /\ {row.id : row \in ToSet(browser.runs)} = {P!Id(run) : run \in ToSet(runs)}
  /\ \A row \in ToSet(browser.runs) \cup ToSet(browser.recent) : RowTrue(row)
  /\ Len(browser.recent) = Min({RecentRuns, Len(profile.runs)})
  /\ \A run \in ToSet(profile.runs) :
       \/ P!Id(run) \in {row.id : row \in ToSet(browser.recent)}
       \/ \A row \in ToSet(browser.recent) : run.start <= row.start

\* The browser lists the runs of the scenario the graphs show, with one exception: it lists none
\* after the scenario was missing from the profile, until it is activated or another run is
\* current.  A scenario that is gone is never active.
ActiveIsCurrents ==
  /\ browser.active # "None" => browser.active \in ToSet(ScenarioList(profile))
  /\ browser.active \in {current.scenario, "None"}
  /\ ~unlisted => browser.active = current.scenario

\* After every event each view shows what the same view opened now would show, but for the two
\* exceptions of GraphTrue and ActiveIsCurrents, whichever of the two signals brought the event and
\* whether it brought one at all (graph_vm.cpp, completion_history_vm.cpp, scenario_browser_vm.cpp,
\* session_vm.cpp).
ViewsTrue ==
  /\ GraphTrue /\ HistoryTrue /\ BrowserTrue /\ ActiveIsCurrents
  /\ names = ToSet(ScenarioList(profile))

\* Not kept by the code.  graph_use_case.h:118: "Keyed by run id; a run is immutable under its id, so an id
\* match is a valid hit."
CacheHitIsValid == graph.cached.id = P!Id(current) => graph.cached.times = Buckets(current)

\* Not kept by the code.  scenario_browser_vm.h:26: the active scenario "follows the current run", and a
\* current run of another scenario "(picked from Recent, loaded from a file, or a fresh
\* import) activates that scenario".
ActiveFollowsCurrent ==
  current.scenario \in ToSet(ScenarioList(profile)) => browser.active = current.scenario

=============================================================================
