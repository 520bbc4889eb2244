----------------------------- MODULE UserProfile -----------------------------
(***************************************************************************)
(* A profile in memory (domain/user_profile.cpp): the runs, and the        *)
(* indices, sums and the most recent run that are kept beside them.        *)
(*                                                                         *)
(* AddRun and MergeImportedRun are operators on a profile value, so that   *)
(* the importer can be modelled on its private candidate (RunImport); Spec *)
(* applies them in any order to any runs of Incoming.                      *)
(*                                                                         *)
(* A run's totals and statistics come with its CSV, or with its            *)
(* performance while it has no CSV; a run therefore carries its sources    *)
(* and its length, which both kinds of source set.  A scenario is its      *)
(* hash: ScenarioId compares nothing else.                                 *)
(***************************************************************************)
EXTENDS Naturals, Sequences, FiniteSets, FiniteSetsExt, SequencesExt

CONSTANTS
  Scenarios,
  Sources,   \* source files
  NoSource,  \* a run without a performance file, or without a CSV
  Incoming,  \* the runs the importer may hand over
  MaxRuns    \* bound: runs in the profile

Runs == [scenario : Scenarios, start : Nat, length : Nat,
         perf : Sources \cup {NoSource}, csv : Sources \cup {NoSource}]

ASSUME IncomingAssumption == Incoming \subseteq Runs

VARIABLES
  profile,  \* the profile value, see EmptyProfile
  merge     \* what the last addRun or mergeImportedRun returned

vars == <<profile, merge>>

Id(run) == [scenario |-> run.scenario, start |-> run.start]
None == 0
NoId == [scenario |-> "None", start |-> 0]

EmptyProfile ==
  [runs     |-> <<>>,                              \* m_runs, append-only
   index    |-> [id \in {} |-> None],              \* m_run_index: id to position
   history  |-> [s \in Scenarios |-> <<>>],        \* m_scenario_index: positions by start
   time     |-> [s \in Scenarios |-> 0],           \* m_scenario_aggregate
   count    |-> [s \in Scenarios |-> 0],
   total    |-> 0,                                 \* m_total_time_all_scenarios
   latest   |-> None]                              \* m_most_recent_index

-----------------------------------------------------------------------------
(* The scenario lists.                                                      *)

\* std::ranges::upper_bound: the place after every run that started no later.
UpperBound(runs, list, start) ==
  CHOOSE k \in 1 .. Len(list) + 1 :
    /\ \A j \in 1 .. k - 1 : runs[list[j]].start <= start
    /\ \A j \in k .. Len(list) : runs[list[j]].start > start

\* std::vector::insert at the upper bound.
Insert(runs, list, i) == InsertAt(list, UpperBound(runs, list, runs[i].start), i)

\* Take a re-keyed run out of its list and put it where its new start belongs.
Reinsert(runs, list, i) == Insert(runs, RemoveFirst(list, i), i)

\* max_element over all runs: the first of those that started last.
FirstLatest(runs) ==
  CHOOSE i \in DOMAIN runs :
    /\ \A j \in DOMAIN runs : runs[j].start <= runs[i].start
    /\ \A j \in 1 .. i - 1 : runs[j].start < runs[i].start

-----------------------------------------------------------------------------
(* addRun and mergeImportedRun.                                             *)

AddRun(p, run) ==
  LET i == Len(p.runs) + 1
      runs == Append(p.runs, run) IN
  [runs    |-> runs,
   index   |-> [id \in DOMAIN p.index \cup {Id(run)} |->
                  IF id = Id(run) THEN i ELSE p.index[id]],
   history |-> [p.history EXCEPT ![run.scenario] = Insert(runs, @, i)],
   time    |-> [p.time EXCEPT ![run.scenario] = @ + run.length],
   count   |-> [p.count EXCEPT ![run.scenario] = @ + 1],
   total   |-> p.total + run.length,
   latest  |-> IF p.latest = None \/ run.start > p.runs[p.latest].start
               THEN i ELSE p.latest]

TakesPerf(old, incoming) == old.perf = NoSource /\ incoming.perf # NoSource
TakesCsv(old, incoming) == old.csv = NoSource /\ incoming.csv # NoSource

\* Mutant: a source that is already there is replaced.
Merged_Replaces(old, incoming) ==
  [scenario |-> old.scenario,
   start    |-> IF TakesPerf(old, incoming) THEN incoming.start ELSE old.start,
   length   |-> incoming.length,
   perf     |-> IF incoming.perf # NoSource THEN incoming.perf ELSE old.perf,
   csv      |-> IF incoming.csv # NoSource THEN incoming.csv ELSE old.csv]

\* A performance brings its own start and length; a CSV brings its length only to
\* a run that has no performance.
Merged(old, incoming) ==
  [scenario |-> old.scenario,
   start    |-> IF TakesPerf(old, incoming) THEN incoming.start ELSE old.start,
   length   |-> IF \/ TakesPerf(old, incoming)
                   \/ TakesCsv(old, incoming) /\ old.perf = NoSource
                THEN incoming.length ELSE old.length,
   perf     |-> IF TakesPerf(old, incoming) THEN incoming.perf ELSE old.perf,
   csv      |-> IF TakesCsv(old, incoming) THEN incoming.csv ELSE old.csv]

\* Mutant: a changed length does not reach the sums.
Enriched_TimesUnchanged(p, i, run) ==
  [p EXCEPT !.runs = [p.runs EXCEPT ![i] = run]]

\* Run i becomes "run" under the same identity; only its length matters to the sums.
Enriched(p, i, run) ==
  [p EXCEPT !.runs = [p.runs EXCEPT ![i] = run],
            !.time[run.scenario] = @ + run.length - p.runs[i].length,
            !.total = @ + run.length - p.runs[i].length]

\* Mutant: the most recent run is not looked for again.
Rekeyed_KeepsLatest(p, i, oldId) ==
  LET newId == Id(p.runs[i]) IN
  [p EXCEPT !.index = [id \in (DOMAIN p.index \ {oldId}) \cup {newId} |->
                         IF id = newId THEN i ELSE p.index[id]],
            !.history[newId.scenario] = Reinsert(p.runs, @, i)]

\* Run i changed its identity from oldId.
Rekeyed(p, i, oldId) ==
  LET newId == Id(p.runs[i]) IN
  [p EXCEPT !.index = [id \in (DOMAIN p.index \ {oldId}) \cup {newId} |->
                         IF id = newId THEN i ELSE p.index[id]],
            !.history[newId.scenario] = Reinsert(p.runs, @, i),
            !.latest = FirstLatest(p.runs)]

\* previous_id.value_or(incoming.run_id): where the run is looked for.
Key(incoming, previous) == IF previous = NoId THEN Id(incoming) ELSE previous

MergeResult(p, incoming, previous) ==
  IF Key(incoming, previous) \notin DOMAIN p.index
  THEN IF previous = NoId THEN "Added" ELSE "Conflict"
  ELSE LET old == p.runs[p.index[Key(incoming, previous)]] IN
       IF \/ old.scenario # incoming.scenario
          \/ Id(old) # Id(incoming) /\ Id(incoming) \in DOMAIN p.index
       THEN "Conflict"
       ELSE IF TakesPerf(old, incoming) \/ TakesCsv(old, incoming) THEN "Enriched"
       ELSE "Unchanged"

MergedInto(p, incoming, known) ==
  LET i == p.index[known]
      run == Merged(p.runs[i], incoming)
      enriched == Enriched(p, i, run) IN
  IF Id(run) = known THEN enriched ELSE Rekeyed(enriched, i, known)

\* mergeImportedRun: the profile after it.
MergeImportedRun(p, incoming, previous) ==
  LET result == MergeResult(p, incoming, previous) IN
  CASE result = "Added" -> AddRun(p, incoming)
    [] result = "Enriched" -> MergedInto(p, incoming, Key(incoming, previous))
    [] OTHER -> p

-----------------------------------------------------------------------------
(* The specification: a profile under any sequence of calls.                *)

Init == profile = EmptyProfile /\ merge = "None"

\* addRun with an identity the profile holds is refused.
RunAdded(run) ==
  IF Id(run) \in DOMAIN profile.index
  THEN merge' = "Refused" /\ UNCHANGED profile
  ELSE /\ Len(profile.runs) < MaxRuns
       /\ merge' = "Added"
       /\ profile' = AddRun(profile, run)

RunImported(run, previous) ==
  /\ Len(profile.runs) < MaxRuns \/ MergeResult(profile, run, previous) # "Added"
  /\ merge' = MergeResult(profile, run, previous)
  /\ profile' = MergeImportedRun(profile, run, previous)

Next ==
  \E run \in Incoming :
    \/ RunAdded(run)
    \/ \E previous \in DOMAIN profile.index \cup {Id(run), NoId} : RunImported(run, previous)

Spec == Init /\ [][Next]_vars

-----------------------------------------------------------------------------
(* Properties.                                                              *)

Positions(p) == 1 .. Len(p.runs)

\* The index leads from every identity to the one run that has it.
IndexExactIn(p) ==
  /\ DOMAIN p.index = {Id(p.runs[i]) : i \in Positions(p)}
  /\ \A i \in Positions(p) : p.index[Id(p.runs[i])] = i

\* A scenario's list holds each of its runs once.
HistoryCompleteIn(p) ==
  \A s \in Scenarios :
    LET list == p.history[s] IN
    /\ {list[k] : k \in DOMAIN list} = {i \in Positions(p) : p.runs[i].scenario = s}
    /\ \A j, k \in DOMAIN list : list[j] = list[k] => j = k

\* A scenario's list is in order of start, so its last entry is the latest run.
HistoryInOrderIn(p) ==
  \A s \in Scenarios :
    LET list == p.history[s] IN
    \A j, k \in DOMAIN list : j <= k => p.runs[list[j]].start <= p.runs[list[k]].start

\* The sums are those of the runs.
TimesExactIn(p) ==
  LET LengthOf(i) == p.runs[i].length IN
  /\ p.total = MapThenSumSet(LengthOf, Positions(p))
  /\ \A s \in Scenarios :
       LET mine == {i \in Positions(p) : p.runs[i].scenario = s} IN
       p.count[s] = Cardinality(mine) /\ p.time[s] = MapThenSumSet(LengthOf, mine)

\* The most recent run is one that no run started after.
LatestExactIn(p) ==
  IF p.runs = <<>> THEN p.latest = None
  ELSE p.latest \in Positions(p) /\ \A i \in Positions(p) : p.runs[i].start <= p.runs[p.latest].start

\* After any sequence of additions, enrichments and re-keyings, looking a run up by
\* its identity finds that run and no other, and no identity of the past remains.
IndexExact == IndexExactIn(profile)

\* The completion history of a scenario is complete, free of repetitions and in
\* order of time also after a late performance moved a run's start.
HistoryExact == HistoryCompleteIn(profile) /\ HistoryInOrderIn(profile)

\* The playtime shown for a scenario and for all of them is the sum over the runs,
\* although it is only ever corrected by differences.
TimesExact == TimesExactIn(profile)

\* getLatestRun returns a run that started last, although re-keying moves starts.
LatestExact == LatestExactIn(profile)

\* What the profile remembers beside its runs agrees with them, whatever was added,
\* enriched and re-keyed before (m_run_index, m_scenario_index, m_most_recent_index).
CachesExact == IndexExact /\ HistoryExact /\ LatestExact

Kept(old, new) ==
  /\ new.scenario = old.scenario
  /\ old.perf # NoSource => new.perf = old.perf /\ Id(new) = Id(old)
  /\ old.csv # NoSource => new.csv = old.csv

RunsKept(old, new) ==
  /\ Positions(old) \subseteq Positions(new)
  /\ \A i \in Positions(old) : Kept(old.runs[i], new.runs[i])

\* No call drops a run, replaces a source it had, lets go of its scenario, or changes
\* the identity of a run that has a performance.
SourcesKept == [][RunsKept(profile, profile')]_vars

=============================================================================
