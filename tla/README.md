# KovaaK's Statistics Viewer: verification project

TLA+ models of the program in `src/`, the TLC configurations that check them on
small instances, and proofs of their main properties that TLAPS checks for every
value of the constants. `PROJECT.json` is the index: the components, the runs, the
line of source each definition stands for (`map`), the hazards and which property
covers which, the mutations that each property detects, and the theorems.

Contents: [the system](#the-system) · [modules](#the-modules) ·
[runs and bounds](#runs-and-bounds) · [fairness](#fairness) ·
[what is proved](#what-is-proved) · [findings](#findings) ·
[not modelled](#not-modelled) · [plan](#plan)

## The system

The program reads what the game KovaaK's leaves on disk (a `.perf` recording and a
`.csv` of every run played), keeps the runs in one *profile*, saves the profile in
one *store* file, and shows statistics, graphs and user-authored benchmarks on top
of it. The layers are QML and view models (`src/src/ui`), use cases and the session
controller (`app`), data services (`data`), Qt adapters for files, watchers and
settings (`qt_data`) and the domain (`domain`); `app/app.cpp` composes them.

There are two threads. Everything the user sees, every service and every write to a
file runs on the GUI thread; only the import itself (scan, parse, merge into a
private candidate) runs on a worker thread, and its answer comes back as a queued
call. So most of the concurrency is of three other kinds: callbacks that call back
into the code that published, requests that arrive while an import runs, and other
programs (the game, the user's editor, a sync tool) that change files between any
two file-system calls.

### Components

| Component | State | Operations | Interacts with | Correct when |
|---|---|---|---|---|
| Session controller (`app/session_controller`) | the import slot, the active request, two request flags and their reason, the backoff timer and its attempt, the current run | start, refresh, rebuild, retry timeout, import finished, select a run | calls the profile service; the watcher, the settings and the window call it | no request is forgotten or served by a weaker import; retries end; the current run exists |
| Profile service (`data/profile_service`) | accepted profile, token of the running import, aliases of the session, store path | load, begin / finish / accept an import, change of store or directories | worker, serializer, watcher; publishes to the controller and to every consumer | memory is what the store holds; only current results are applied |
| File watcher (`qt_data/file_service`) | files last seen with size and time, debounce timer, acknowledged imports | watch, list, acknowledge, directories changed | reports arrivals to the controller | no arrival is overlooked |
| Profile importer (`data/profile_importer`, `run_ingestor`) | the candidate, aliases, failures, counters | scan, skip, pair, merge, re-key | runs on the worker over a snapshot | a run tells what its own files tell and holds both halves of it, whichever came first; nothing refused is forgotten |
| Run files (`data/formats/csv`, `/perf`) | none | parse, derive a start time from a name | read by the importer | a run has the start and length at which it was played |
| User profile (`domain/user_profile`) | runs, identity index, list of every scenario, playtime sums, most recent run | add, merge, re-key | copied as candidate, then published | all indices and sums agree with the runs |
| Profile store file (`data/formats/protobuf/profile_serializer`, migrator) | the store file, its temporary file, files set aside | load, migrate, set aside, save | called by the profile service | no crash or failing call loses runs or identity |
| Application settings (`qt_data/app_settings`) | store path, directories and plain preferences | setters with callbacks | profile service, controller | |
| Benchmark library (`qt_data/benchmark_store`, `data/benchmarks_service`) | accepted snapshot of the benchmark files, revision | scan, replace, remove behind a digest token | resolution, manager, tracking | nobody else's edit is overwritten |
| Benchmark resolution (`app/usecases/benchmark_resolution_use_case`) | resolutions, write failures, edit lease, pass flags | passes of automatic mapping, lease, publish | profile and library callbacks | every benchmark is mapped, or reported; the loop ends |
| Benchmark manager (`benchmark_manager_use_case`, `_vm`, `benchmark_table_model`) | composed state, working copy with baseline and token, undo history, text of cells that is no score, selection, table | open, new, edit, paste, undo, save, delete, close | library, resolution | the window is current; a save never takes a stale token; no retained text hides a score; undo leads back |
| Benchmark editor, validation | none: operations on a benchmark | structural edits, issues | manager, store | unique ids, no mixed content, nothing lost by a move |
| Benchmark evaluation | none | best scores, ranks, blockers, rank history | tracking | what is shown as missing is what is missing |
| Benchmark tracking (`benchmark_tracking_use_case`, `recent_benchmarks`, view models) | caches of evaluation, history and playtime, selection, benchmarks viewed lately, what is drawn | select, hear of library, profile, resolutions, ranges and days | library, resolution, profile, graph configuration, day source | no cache is ever shown stale |
| Graph configuration (`data/graph_configuration_service`) | committed preferences, document, queue of unpublished changes | replace, load, publish | every graph | listeners hear changes in order; nothing is overwritten unread |
| Settings window (`ui/.../settings_vm`) | a visit's baseline, working copy, raw texts, issues | edit, save, revert, quick settings | graph configuration | what is shown as unsaved or invalid is exactly that |
| Graphs, axes | cached series per window, buckets of the current run, marked run | project, average, bucket, tick | profile, configuration, day source, session controller | what is drawn is of the current run and its scenario |
| Expression language (`expression_dsl`, `ui/presentation/expression`) | a tree of owned nodes with parent pointers, a selection, a clipboard shared with other programs | wrap, delete, replace, copy, paste, accept; print, parse, validate | settings window | no node is leaked or freed while shown; what is accepted can be stored and reads back |
| Scenario browser (`scenario_browser_use_case`, `_vm`), session view model | active scenario, noted current run, search, orders, three lists; scenario names | refresh on each signal, activate, select, search, sort | session controller, profile | every list is what a browser opened now would list (see [findings](#findings) for what it is not) |
| Day source, playlist reader | small or none | | | |
| Composition root (`app/app.cpp`) | ownership and the order of subscription | launch | everything | |
| Canvas, QML, build runner, developer tools | outside the program's own logic | | | |

### What is hard here

* **Requests against a busy slot.** User, watcher, settings and the backoff timer ask
  for imports of different strength while one runs; two flags and one reason have to
  stand for all of them.
* **Stale results.** The worker computes from a snapshot while the store path, the
  directories or the selection change on the GUI thread.
* **Files in motion.** A recording is seen by the scan, the watcher's list and the
  acknowledgement at three different moments; its CSV arrives before or after it.
* **Re-keying.** A run is known by the CSV's derived start until its recording brings
  the exact one; groups, aliases, counters, indices and the selection still use the
  old identity.
* **Crashes and failing calls** between the calls of a load, a migration, a quarantine
  and a save.
* **Re-entrant callbacks.** A background mapping writes a file, whose acceptance calls
  back into the loop that is still collecting the results.
* **One thing kept in two places.** Text that is no score beside the draft it stands in
  for, a table beside the draft it shows, an evaluation beside the library, the runs and
  the resolutions it was made from: each survives edits, undo and callbacks only if
  every operation updates both.
* **Optimistic tokens.** Benchmark files have no watcher; only a digest tells whether
  the file is still the one that was read.

The complete list, at its lines, is `hazards` in `PROJECT.json`.

## The modules

| Module | Models | State and actions against the code |
|---|---|---|
| `ImportPromise` | the abstract import slot: what anyone who asks for an import is owed | a strength owed and a strength running; no code of its own |
| `SessionController` | `app/session_controller.cpp`, one action per handler | `inFlight`, `active`, `rebuildRequested`, `refreshRequested`, `pendingReason`, `retryArmed`, `retryAttempt` are the members of the same names; `retryOwed` and `unserved` are history variables that no guard reads; `unserved` is the strongest request made that no import has served, taken from the calls. `RefreshProfile`, `StartBuild`, `OnBuildFinished`, `RetryTimeout`, `SetCurrentRun` are the functions; what the service answers is an input. Implements `ImportPromise` |
| `ProfileImport` (EXTENDS `SessionController`) | service, worker, watcher, store files and directories around the controller | each action conjoins the controller's handler with what the service and the watcher do in the same call. The worker has one step for the scan and one for each read, and everything else may happen between them |
| `UserProfile` | `domain/user_profile.cpp` | a profile is a record of runs, `index`, `histories`, `times` and `latest`; `AddRun` and `MergeImportedRun` are operators on such a value |
| `RunImport` (INSTANCE `UserProfile`) | one import over source files: `profile_importer.cpp`, `run_ingestor.cpp`, the session's aliases and the selection | `Scan` builds the groups, `ImportGroup` is one turn of the loop over groups, `Accept` and `Abandon` are the service's two answers |
| `RunFiles` (EXTENDS `RunImport`) | what the files tell: `run_filename.cpp`, `stats_csv_parser.cpp`, the halves of `run_ingestor.cpp` | operators: the footer, the time of day, the stamp of a name, and the start and length concluded from them; `MCRunImport` makes its files with them |
| `BenchmarkLibrary` | store, service, resolution use case and manager use case of benchmarks, and the window's working copy | `phase` is the place in the synchronous call; `Pass`, `CheckJob`, `CommitJob`, `BatchDone`, `Publish`, `CommandDone` its steps; `External` is any other program, between any two of them |
| `StorePromise` | the abstract store: what is in memory is what the store holds, and the store changes as a whole | no code of its own |
| `ProfileStoreFile` | `profile_serializer.cpp`, the version 3 migrator, and the two calls of `profile_service.cpp` on them | one step for each file-system call: it succeeds, fails, or the program ends after it. Implements `StorePromise` |
| `GraphSettings` | graph configuration service and document, the playtime graph, the scenario history and the lines of a run, the settings window | `Replace` and `Commit` are the service's `replace`; each turn of the loop of `publish` is a `Deliver`, so that a quick change can happen between two listeners. `charts` is what each graph drew last, with the playtime graph's cache; `visit` is the window's baseline, working copy, kept texts and issue lists, and each of its slots is an action |
| `BenchmarkDefinition` | `benchmark.h`, `benchmark_validation.cpp`, and what `benchmark_store.cpp` demands of a file | operators on a benchmark: lists, ids, issues, integrity |
| `BenchmarkEditor` (EXTENDS it) | `benchmark_editor.cpp` | each edit is the set of benchmarks it may lead to, empty where the code answers with an error |
| `BenchmarkResolution` (EXTENDS it) | the join of one entry with the catalogue, `benchmark_resolution_use_case.cpp` | operators; names are compared by `NameKey`, which stands for `scenarioNameKey` (trimmed, lower case), and a mapping made automatically gives the entry the catalogue's spelling |
| `BenchmarkFile` (EXTENDS `BenchmarkDefinition`) | the JSON documents of `benchmark_store.cpp` | what is written (`Encode`), and what reading accepts (`ClassifyBytes`), for both versions of the format |
| `ClipboardMatrix` | `benchmark_clipboard_matrix.cpp`: how the text a spreadsheet copies becomes rows of cells | operators; `ParseClipboard` is the parser. What a spreadsheet copies is read back as its cells (`CopyAssumption` of `MCBenchmarkDraft`) |
| `BenchmarkDraft` (EXTENDS these) | the working copy of the benchmark window: `benchmark_manager_vm.cpp`, `benchmark_table_model.cpp`, `benchmark_cell_input.cpp` | `draft`, `baseline`, `inputs`, `history`, `selected`, `cell`, `dirty`, `issues` are the members `m_...`; `table` is what the table model holds. One action per slot of the window; each ends with what the code does after every edit (history, issues, selection, table) |
| `BenchmarkEvaluation` (EXTENDS `BenchmarkDefinition`) | `benchmark_evaluator.cpp`, `rank_history.h`, the bars of `benchmark_progress_grid_model.cpp` | operators over runs in the order of the profile |
| `BenchmarkTracking` (EXTENDS `BenchmarkEvaluation` and `BenchmarkResolution`) | `benchmark_tracking_use_case.cpp`, `recent_benchmarks.cpp`, the two view models, the profile's run facts and rolling playtime | `calls` are the listeners still to be called, in the order of subscription; each call is an action, and joining the resolutions anew may write into the library and call everybody again. `tracking` and `view` hold the caches and what is drawn |
| `RunViews` (INSTANCE `UserProfile`) | what `currentRunChanged` and `profileChanged` reach: `graph_use_case.h` and `graph_vm.cpp`, the scenario history, `scenario_browser_use_case.h` and `_vm.cpp`, the names of `session_vm.cpp`; the queries of profile and profile service | `current` is the controller's copy of a run; `graph`, `history`, `browser` are the members of the view models. `CurrentRunChanged` and `ProfileChanged` are the two signals with all their listeners in the order in which `app.cpp` connects them; every action is an event that sends one or both. `unlisted` and `altered` are history variables that say when one of the two disagreements under [findings](#findings) is open |
| `SeriesExpression` | `expression_dsl.cpp`, the expressions of `series_config.cpp` and of stored objects | operators: print, parse, decode, validate |
| `SeriesLines` (EXTENDS it) | the run-series document: defaults, rules and edits (`series_config.cpp`, `run_series_editing.cpp`), stored forms of versions 1 to 6 (`series_config_codec.cpp`, `graph_configuration_codec.cpp`) | operators |
| `SeriesTree` (EXTENDS `SeriesExpression`) | `editable_expression_node.cpp`, `series_expression_editor_model.cpp` | a heap of nodes with slots and parent pointers, the root and the selection; each editor operation is an operator on it |
| `SeriesEditor` (EXTENDS both) | the lines page of the settings window and its modal expression dialog | `document` is the working copy, `committed` and `stored` what the service and the settings hold, `tree` the dialog's, `clipboard` the system's |
| `MC*` | values of the constants for TLC | |
| `*Proofs` | the theorems about the module whose name they extend | |

What the abstractions leave out, and why it does not matter to the properties:

* Files in `ProfileImport` have three states (absent, partial, complete); these stand
  for size and modification time, which the code compares for equality only. A file is
  one run and its number its start. What two files of one run do to each other is
  `RunImport`'s subject.
* A recording, its CSV and their copies in `RunImport` are records with the fields the
  code pairs and merges by: group name, scenario, start, data identity. `RunFiles` says
  where they come from: a CSV is a sequence of lines, a line a key, whether a colon ends
  it, and a value; times are milliseconds, without the night in which clocks change and
  without the rounding of the length to a `float` (below a millisecond up to four hours).
* A benchmark has an id, a name and two scenario entries that either have no hash or a
  hash. The catalogue of played scenarios is the set of hashes known under the one
  name. This keeps all the cases of automatic mapping: none, exactly one, several.
* The digest of a file is its content: two contents never share a digest.
* Formats of the store: current, torn (readable header, broken body), legacy
  (version 3), foreign (another version), garbled.
* `GraphSettings` has daily playtime, which has a cache and an averaging window, the
  scenario history, which has a count of latest runs, and the lines of the run graph.
  The two charts of a benchmark are `BenchmarkTracking`'s. A count, width or date is a small number, 0 standing for all that its limits
  refuse; an axis bound is refused above `MaximumAxisBound`. A graph's value axis and its line style stand for all of them; colours,
  markers and the order of lines are left out. What a line is, and its expression, is
  `SeriesEditor`'s subject. The profile is known by the day of its
  latest run, which is what ranges depend on.
* A benchmark in `BenchmarkDraft` is the whole structure: tiers, categories,
  subcategories, entries with thresholds and hashes; ids are small numbers in place of
  UUIDs, and a text is blank, a number, or anything else. Tokens, leases and files are
  `BenchmarkLibrary`'s, which in turn knows only whether a draft is clean.
* A document of `BenchmarkFile` is a record or a sequence; `Null` and `Malformed` stand for
  every value of a type that is not expected, and a number that JSON has no form for is
  written as `Null`, as Qt does. A name stands for the name and the colour. The name and id
  that a refused file is listed under are left out.
* A text on the clipboard is the sequence of its delimiters, quotes and what is between.
* `BenchmarkTracking` keeps a mean as the sum it is made from, and a bar in parts of a
  tier, so that fractions are whole numbers. A day is `DayLength` seconds of 2.
* An expression's text is the sequence of its words and numbers; letter case and white
  space, which the parser drops, are left out. A width counts half pixels.
* The GUI thread runs one handler at a time, so a handler is one action; where a
  handler touches files that other programs also touch (`BenchmarkLibrary`), calls
  listeners that call back (`GraphSettings`), or can be cut by the end of the program
  (`ProfileStoreFile`), it is several.

## Runs and bounds

Passing runs. States are distinct states.

| Run | States | Question | Bounds, and why they are enough |
|---|---|---|---|
| `session_controller` | 360 | Does the slot implement `ImportPromise`: is every request served, and by no weaker import? What is owed is taken from the calls, so a request that is noted nowhere is a violation | None but `MaxRetries = 3`, the code's own limit. The answers are arbitrary, so this is the whole controller |
| `import_settings` | 2 522 441 | With store switches, directory changes, restarts, failed saves and user requests around a running import: is memory durable, are only current results applied, is the selected run known, is a file overlooked? | Two files in two directories and two stores, so that a change of either can hide one run and keep the other; file 2 grows while it is read; `MaxMoves = 2` setting changes or restarts (a switch away and back), one failing save or throwing worker, one request by the user. Stores are symmetric; the run has no temporal property under fairness. `MaxReadFaults = 0`: with one, `NothingOverlooked` is violated by the first point under [findings](#findings), a file that changes between a failed read and its acknowledgement |
| `import_rest` | 637 931 | Is a re-read that the backoff owes ever skipped by a live arrival? Do imports and retries come to rest with failing reads, saves and workers? Does a run played while the application is open end up in the profile? | Three failing reads (as many as there are retries), one failing save or worker, a growing file, one request, one move |
| `user_profile` | 39 830 | Do the index, the lists, the sums and the latest run stay those of the runs? | Up to three runs of two scenarios, starts 1 to 3, the four kinds of sources: equal starts, re-keying before and after a neighbour and onto a taken identity all occur |
| `run_import` | 1 094 331 | Does each run tell what its performance, or else its CSV, tells, whichever came first, and are the files of a group in one run? Are refused files recorded, aliases, counts and selection carried along? Does a lone CSV lead to the start and length that were played? | Three sets of four files: a recording and its copy under a second root; two recordings that claim one identity and a pair whose halves name different scenarios; a CSV without a time. Each file may appear complete or partial, in any order, with imports of every kind between. Three pairs at once add no new clash: a merge involves one pair and one run |
| `library_faults` | 573 812 | Is the window current at rest, is everything mapped or reported, are foreign edits kept (but for a file a create finds unreadable), does the reconcile loop end? | Two files and two ids, of which the user creates one; two hashes, so a scenario is unplayed, unique or ambiguous; failing reads and writes at every call, also of the file whose digest is checked; edits by others between any two calls, except between the digest check and the commit (`Racing = FALSE`, see [findings](#findings)) |
| `benchmark_draft` | 175 075 | Is what the draft, and everything undo leads to, is saved as read back as it? Does retained text ever hide a score? Does undo lead back to what was saved? Does an edit lose or change what it does not name? Does a save change anything but unmapped entries, and these other than into the one scenario that bears their name up to spelling? Does the table show the draft? | One benchmark with a tier, an uncategorized scenario, and a category that was stored with a scenario of its own beside a subcategory, so that the content of a category is mixed; two edits (one that retains a text or moves an entry, and one that could forget it), one click; typed text is blank, a number or junk, pasted blocks are larger and smaller than the table; the seeds are read from files, and eleven damaged ones and files of the first version are read beside them; a scenario that becomes known while it is edited, under another spelling of the name, and maps to a hash |
| `benchmark_tracking` | 78 160 | Once every listener was called, does the window show what a fresh evaluation of the library, the runs, the ranges and the day would show? Are the blockers exactly what is missing, is the line of the average rank true on every day, does a bar say what its row says? | Three directories (a benchmark that ranks, one that no longer does, one under the id of another file, a broken file), three recorded and two new runs, of which one arrives before others in time and one is mapped on arrival; four ranges, two windows, two changes and two days: a change between the drop of a cache and its use, and a second one that the first leaves stale |
| `run_views` | 63 808 | After every event, do graph, history and browser show what views opened now would show, whichever of the two signals brought the event? Two exceptions are part of the properties and are described under [findings](#findings): the graph of a run that was changed under its identity, until another run is current (`altered`), and the lists of runs while the current run's scenario was missing from the profile, until it is activated or another run is current (`unlisted`) | Three plays of two scenarios, of which one's CSV tells another start than its performance, so that an import re-keys the current run, completes it, or replaces the latest; two of them reach one score; a profile that a rebuild empties; two orders of each list, one search, a range that moves with the day and one of the latest run; an average over `Window = 1` run, so that a second run leaves it |
| `series_editor` | 109 272 | Does wrapping, deleting, pasting or cancelling leak a node or free one that is shown? Does an edit of the tree keep the rest of it? Can every document that is shown be stored, and does it read back? | Documents of versions 1, 2 and 4, one with kinds of a later version, one with a line on a missing axis, one that uses an id twice; two edits of lines and trees, trees of up to four nodes with a binary, a unary and a leaf kind, both slots of a binary node, depth limit 4 and node limit 7 within reach, three clipboard texts of other programs. Depth and size limits are the code's with smaller numbers |
| `store_faults` | 369 145 | Do memory and store agree, are runs kept, does an undisturbed launch end with a profile? | Any initial file, two runs, two failing calls (one in a load and one in the save it causes), two launches, each of which may end between any two calls |
| `graph_settings` | 144 400 | Does every graph draw what is committed after a publication, also when a listener commits in the middle of one? Do listeners hear every revision in order? Does a visit show as invalid and as unsaved exactly what is? Does a restart restore what was committed, whatever the document held? | Two edits or quick changes, of which one may hide the field the other filled, or one may interrupt the other's publication; typed numbers 0 to 3 with `MaximumAxisBound = 2`, so a count and an axis bound are outside their limits, and a pair of dates or bounds is equal or reversed; one new day and one new run, since a cache can be stale by one; lines and axes up to 3 (`MaxIds = 4`), so an identifier is removed and another follows; documents of version 3, damaged ones and of other programs |

`CHECK_DEADLOCK FALSE` is set where nothing more needs to happen: a `ProfileImport`
session whose budgets of moves, requests and failures are used up and that is at rest, a
`BenchmarkTracking` window when changes and days are used up, and a `ProfileStoreFile`
whose launches are used up.

Each property is shown to be sensitive to the code by a mutation of a mapped
definition (`mutants` in `PROJECT.json`): a dropped guard, a missing reset, a step in
the wrong order, after which TLC finds the property violated.

## Fairness

Only what the program's scheduling guarantees is assumed; nothing is assumed of users,
other programs, files or failing calls.

| Module | Weak fairness of | Why |
|---|---|---|
| `SessionController` | an answer to the running import; `RetryTimeout` | the worker answers every request, by a result or by `failed`, over a queued connection; an armed `QTimer` fires |
| `ProfileImport` | `WorkerStep`, `OnBuildFinished`, `RetryTimeout`, `DebounceTimeout` | the worker thread loops over a finite list; its answer is a queued call; armed timers fire |
| `BenchmarkLibrary` | `Steps` | one synchronous call on the GUI thread, which goes on until it returns |
| `ProfileStoreFile` | `Load \/ SaveStep \/ ImportFinishes` | as above; the end of the program is always possible and never fair |
| `BenchmarkDraft`, `BenchmarkTracking`, `RunViews`, `SeriesEditor`, `GraphSettings`, `RunImport`, `UserProfile` | none | their properties are safety; what has to be called is called before the next event, and the properties speak of the states where nothing is left to call |
| `ImportPromise` | a running import ends and an owed one begins | what the refinement has to show |

Weak fairness is enough throughout: none of these steps is disabled by another actor
before it is taken, other than by an action that makes it unnecessary (a restart, or a
request that takes the retry's place).

## What is proved

`tlapm` checks every theorem for every value of the constants, from the named
assumptions of the modules (`...Assumption`) and nothing else.

**The import slot** (`ProfileImportProofs`, last sections; `MaxRetries \in Nat`). Theorems
about `SessionController` by itself are stated of the instance `session` that `ProfileImport`
makes of it, whose variables have the same names. The inductive invariant `SlotInv`
joins the type invariant, `NothingStranded`, `RetryOnlyWhenIdle`,
`ArrivalPromotedInWindow` and "an owed re-read in a free slot is armed". None of them
is inductive alone: that no request is stranded needs to know that a timer is never
armed beside a running import, and the re-read that is owed is only found again
because the timer that carries it is still armed. From it: `TypeCorrect`,
`NeverStranded`, `TimerOnlyWhenIdle`, `RereadHonoured`, and `SlotKeepsPromise`, the
safety part of the refinement (`Spec => Promise!Spec`), step by step over the
handlers. What the mapping calls owed is `unserved`, which every call raises by what was asked
and only an import that begins lowers; that the controller's own flags remember as much is the
invariant `ServedInv`, so a handler that noted nothing would break the proof. The type invariant, `ArrivalPromotedInWindow` and `OwedRereadIsArmed` are
proved only, and so are `NothingStranded` and `RetryOnlyWhenIdle`; no run lists them.
`SlotStaysSoundInProgram` carries this over to the program: every step of `ProfileImport`
is a step of the controller for some answer, a stutter of it, or a restart (`StepOfSlot`),
so what was proved for any caller holds when the service, the worker, the watcher and the
user are the callers.

**The accepted profile** (`ProfileImportProofs`; any finite set of files, any directories, stores and
bounds). `ProfileIsDurable` needs `DurableInv`: while there is a profile its origin is
the current path, and the store there holds it. `SlotAgreesWithWork`,
`StaleHasSuccessor` and `CommitsAreCurrent` share `TokenInv`, which ties the
controller's slot, the service's token, the worker's phase and the snapshot the job
was given: a job whose token is still accepted was queued with the present profile,
path and directories. Staleness is what breaks the tie, and the invariant says that it
is then either still running or has a request noted behind it.

`RunsAreNeverLost` and `SelectedRunIsKnown` add that a selected store that loads is the
one in memory and that a closed program has nothing under way (`HeldInv`), with the types
of jobs and stores (`DataTyped`, from `NoProfile \notin Profiles`): a refresh adds to the
very profile its store holds. That the latest run is a run of the profile needs that a
finite set of numbers has a greatest one, proved from the well-foundedness of `Nat`.

`NothingIsOverlooked` is proved for `MaxReadFaults = 0`, as the run checks it. `CoverInv`
says where each file is on its way: what is there is listed or the debounce runs; what is
listed is on record, or the import in the slot has scanned it, or a request waits; what
the scan saw is known, kept, read or still to read; and what counts as imported (the
service's aliases) is in the profile. With failing reads the last part is what breaks: a
rebuild that cannot read a file keeps its alias (see the findings).

**`UserProfileProofs`** (any runs; `Incoming \subseteq Runs`). `ProfileInv` has the index, the
completeness of each scenario's list, its order, and the latest run in one invariant
because they use each other: re-inserting a run into its list is only correct if the
list without it is still ordered and complete, and re-keying only if the index leads
to the run and to no other. Lemmas state what the binary search, an insertion and a
removal do to an ordered list. `CachesStayExact` is the invariant without its
strengthening. `TimesStayExact` compares sums that the code corrects by differences with a
fold over all runs. `FoldSet` is defined by a CHOOSE of a function, so nothing can be said
of it before one is shown to exist; `FoldExists` does that for the positions of a list by
taking least counterexamples, and `SumMore` and `SumChanged` then say what one more and
one changed run add.

**`RunImportProofs`** (any files and whatever they hold). `NothingFoundIsForgotten` follows
one file through an import: in each turn of the loop what the scan has seen was known
before, is reported as failed, was found, or belongs to a pair still to be read. Known
files stay in a run because a merge drops no run and replaces no source, which
`UserProfileProofs` proves of `mergeImportedRun` and which is cited from there through
INSTANCE, with the importer's profile as a parameter; the same lemmas give
`AcceptedIsWellFormed`.

`RunsStayExact` (a run tells what its own sources tell, and the files of a group are in one
run; not that the runs are the same in every order of arrival, which they are not: see
[findings](#findings)), `CountsStayExact` and `SelectionFollowsRun` need a second invariant,
`Links`, of what leads to a run. A file `Tells` an identity if its own start, or that of the
performance of its recording, says so; every known group, alias and found file leads to an
identity it tells, and to the run it is in (`KnownLeads`, `KnownTells`, `FoundLeads`). When
a performance gives a run another identity, whatever told the old one tells the new one
(`TellsShifts`), so a pair that comes later still finds its run. The list of re-keyings
leads from each run of the baseline to where it is (`RunsFollowed`), by its first entry and
by applying all of them in turn: a run is re-keyed at most once, since it has a performance
afterwards. `Turned` says what a turn of the loop does to the runs, `Booked` what it writes
down, and one lemma for each part of `Links` puts the two together.

`RunsTellWhatWasPlayed` adds what the files themselves tell. Three lemmas say that a stamp
is the second it was made of (`StampTells`), that a time of day survives its three digits
(`TimeOfDayTells`), and that the two together lead back to the day on which a challenge of
less than a day began (`TimingTells`): the second in which it ended lies on that day or on
the next, and only in the second case is the start's time of day later by more than the
second that the name leaves out. With `Links`, by which a run without a performance has the
start and length its CSV tells, that is a property of every profile. Assumed is that the
game writes names and footers as it does (`CsvAssumption`) and that a challenge takes less
than a day (`PlayedAssumption`).

Assumed are the types of what files hold (`InfosAssumption`), that the marks for "no
source", "no start" and "no run" are no file, time or scenario, and, for `Links` only, that
nobody plays two runs at a time (`OneAtATimeAssumption`): where two files of a scenario
tell the same start, their recordings started at the same time. What the code does without
that is described under [findings](#findings).

**`ProfileStoreFileProofs`** (any runs, failing calls and launches). `StoreKeepsPromise` is the
refinement to `StorePromise`; `IInv` says what each phase of a load or save knows of
the store, the temporary file and the profile in memory. `RunsAreKept` and
`IdentityIsKept` follow from the same invariant; the latter is proved only.

**`GraphSettingsProofs`** (any bounds, typed numbers and documents). `QueueStaysOrdered`
is the inductive invariant `QueueInv`: the queue holds consecutive revisions up to the
committed one; the listeners before `hears` have heard of its head, the others of the
revision before. `EveryoneHearsInOrder` follows: the change a listener is called with
is always the successor of the one it heard last, however many commits were queued
meanwhile. `ChartsStayCurrent` needs two more parts (`SettingsInv`): whatever is loaded,
edited or stored has the fields the graphs read (`ShapeInv`, from
`DocumentAssumption`), and each part a graph draws is the committed one or `Awaits` a
queued change that its listener has not heard (`ChartInv`). A commit queues every part
in which it differs (`DiffCovers`); a call takes from the waiting listener only what it
draws; at rest the queue is empty, so everything is current.

The same module goes on to the window. `WindowInv` has two parts. `CommittedInv`: the committed configuration is sound,
nothing in it is refused, and loading the document gives it back. `VisitInv`: baseline
and working copy are sound, each kept text belongs to a field that is shown, and the
lists of issues and of pending changes say what the working copy is. "Sound" has to be
kept through every edit (a mode switch brings and drops fields, removing a line can leave
a label of it), because a label that no line answers to would be reconciled away on the
next launch, and a text for a hidden field would refuse a save where the user cannot see
it. Loading an encoded configuration is then the identity (`LoadEncoded`), whatever is
loaded from another document loads again once it is written back (`EstablishedLoads`),
and a comparison that finds no difference means equality (`NoDiff`).
`RestartAlwaysRestores` and `VisitStaysExact` are its consequences. The assumptions are
what decoding delivers (`DocumentAssumption`) and that the marks for "missing",
"unreadable" and the like are none of the values they stand in for (`MarksAssumption`).

**`BenchmarkLibraryProofs`** (any finite set of files, any ids, names, hashes, catalogues). `EditsStayKept` has a small
invariant of its own, under `Racing = FALSE`: between the check and the commit of a
job the file still holds what was checked, or could not be opened when it was. `LeaseStaysProtected` and
`BaselineStaysAdmitted` need `IInv`, which follows one working copy through the passes
its command causes: its token, the accepted entry, the lease and the adoption that is
pending agree at every phase. `BackgroundKeepsAdding` adds to both that the jobs of a
batch are automatic mappings of entries that a scan admitted.

`ShownStaysCurrent` and `MappedStaysReported` need what the four classes know of one
another between two callbacks (`Display`): the manager has seen the snapshot unless the
service has just written a file, and in that case another pass follows or the revision
counts as unseen (`Seen`); what a pass published is exact until a job changes the
snapshot (`Resolved`); each mapping that is due is under way, has failed, or is reported
(`Reported`); and the window's stale mark and entry states are those of the published
state (`Window`). That a revision stands for its snapshot is then why comparing the
rest by value is enough. A directory holds finitely many files (`IdsAssumption`), so that
of two files with one id there is a last one.

**`BenchmarkDraftProofs`** (any seeds, texts, clipboards, catalogues and bounds). For
`UndoLeadsBackAlways` the property is inductive once it is known that the history is a
sequence (`IInv`): an edit appends what was there before it, so the first step stays the
first; undo drops the last one; a save makes the draft the baseline and forgets the
history; and nothing else touches the four. What the editor's operations do to a
benchmark is not needed, because the window commits every edit in one place.

`CachesStayCurrent` follows what is kept beside the draft, with one invariant (`Sound`). The
issues, the rows and the columns of the table are those of the present draft, text and
profile, because every path that gives the window another draft ends in the same
recomputation or adoption and a publication projects anew; the focus comes from a column of
the table, so the tier it names is one of the draft (`FocusCurrent`). `TextsStayPlaced` adds
that a retained text lies in a cell of its own draft: the commit prunes after the edit and
the history takes both as they were (`PrunedPlaced`, `CommitPlaced`).

`RememberedAlwaysSound` is about the benchmarks themselves: whatever the window holds, edits
or remembers for undo is structurally sound, its retained texts lie in cells that have no
score, and its ids are below the next fresh one. The code checks soundness of the flat lists
of ids, scores and references (`HasStructuralIntegrity`), which is no form to argue about an
edit in. `Good` says the same part by part in the tree, with the cells that hold a retained
text banned from having a score, and the two are equivalent (`IntegrityIsPartByPart`: a
flattened list has no duplicate when no part has one and no two parts share one). Then each
operation of the editor has one lemma, and `EditsKeepIntegrity` collects them: adding and
removing entries, groups, tiers and scores, moving, dividing and dissolving groups,
replacing scenarios, detaching. Ids made by an edit are fresh (`FreshIdsAreFresh`). A paste is the longest
of them: the clipboard's rows have fields (`PastedRowsHaveFields`), the list grows by sound
entries (`GrownKeeps`), each field is written by an operation that keeps soundness
(`WriteAll`), and what does not read as a number stays as text in a cell that is cleared of
its score (`PasteKeeps`). `SessionStaysSafe` is the inductive invariant (`SessionSafe`):
draft, baseline and every step of the history are `Safe`, what is known is a catalogue, and
of the table two facts are kept: its map of rows is the one its rows give (`TableShown`), and
the focus is on an entry of the draft (`FocusShown`).
`SoundBenchmarksAreReadBack` says what soundness is for: a sound benchmark that is written
to a file is read back as itself, and not refused.

`TableStaysExact` needs all of that. The map of rows is rebuilt only when the entries or the
columns change, so that it fits the rows is part of the invariant (`RecomputeShows`,
`ProjectionShows`), and so is that a focus restored after an edit is on a row that is there
(`RestoredFocus`). The rest holds of the rows of any sound draft: they lie list after list in
the order of the view (`RowsArePlaced`), the lists of a category lie side by side with its own
first (`ListsTogether`), so the range a row tells ends where its list does
(`RowInfoExact`, which is why the model names the end of the direct rows, `DirectEnd`); each row is of one
entry and of the list that holds it (`EntryOfRow`); and a cell is reported missing exactly
when it has neither a score nor a text (`CellReports`).

Its assumptions are the shapes of what comes from outside: the benchmarks that a session
starts from (`SeedsAssumption`), playlists, catalogues, typed values and clipboards
(`PlaylistsAssumption`, `CataloguesAssumption`, `ValuesAssumption`, `ClipsAssumption`; the last because a text is
put together from pieces by a fold, of which the prover has no definition). TLC evaluates
them. `SoundBenchmarksAreReadBack`, and with it `RememberedAlwaysSound`, has one hypothesis of its
own, `JsonValuesApart`: null and malformed JSON are no arrays and no objects.

**`BenchmarkTrackingProofs`** (any libraries, runs, ranges, windows and number of changes; a
window is not 0 days, `WindowsAssumption`, and a range is of one of the three kinds,
`RangesAssumption`). `TrackingStaysCurrent` states `ProgressIsCurrent`: what is shown once
every listener has been called is what would be drawn with nothing kept. What the use case
shows is written as one function of the library, the runs, the resolutions, the recent
benchmarks, the selection and the two ranges (`Drawing`), in which an evaluation is only a
name: that a fold computes it does not matter, only that an evaluation that is kept equals
one made now (`Keeps`, `CacheSound`). From there: a refresh shows `Drawing`, whatever sound
cache it starts from (`RefreshShows`); redrawing one chart alone gives the view of a full
rebuild, since the fields it leaves alone do not depend on that range (`RankRedraws`,
`PlaytimeRedraws`); and a range that does not follow today comes to the same on another day
(`ChartsStay`). The inductive invariant `IInv` says that of the state when no listener is
left (`NothingStale`), that each joining of the resolutions still has a redraw behind it in
`calls` (`CallsInOrder`), that the resolutions are joined anew by the time only redraws are
left (`JoinedAtLast`), and that the copy of the library the use case holds is of the
revision it names (`CopyInv`). It is not inductive without the order of the calls: between
a change and its last listener the cache is stale, and nothing but that order brings the
drop of the cache after the joining.

Out of the prover's reach, and checked by TLC only:

* liveness (`PromiseKept`'s fairness, `ComesToRest`, `ArrivalsImported`, `Settles`,
  `LaunchEstablishes`): TLAPS has no `ENABLED`;
* the properties of `SeriesEditor`: expressions and trees are recursive, and its modules
  use `RECURSIVE` operators;
* `PictureTrue` of `BenchmarkTracking` and `ViewsTrue` of `RunViews`: they compare what folds
  over lists of lists compute;
* `WorkKept` of `BenchmarkDraft`: the arrangement of the entries that stay is computed with
  `SelectSeq`, of which the prover has no definition;
* `AliasesResolve` of `RunImport`, of which `AliasesStayLeading` proves the first part: a file of
  a run is known by the run's identity. The second part speaks of copies of a recording and is
  not true of all files: see the notes below.

## Findings

Four statements of the documentation are defined beside the model of the code they are
about, and the code does not keep them: TLC refutes each when it is given as an invariant
or property of the module's instance. No run states them.

* **`NoCrossStoreWrite`** of `ProfileImport` (`profile_service.cpp:105`).
  `profile-lifecycle.md:241` says that after a store switch "the old in-memory profile is
  never written to the newly selected file". After a switch to a path that has no store,
  the profile of the old store stays in memory until the rebuild is accepted. If a
  directory change makes that rebuild stale, only a refresh follows, whose baseline is the
  old store's profile, and the new store receives the old runs.
* **`CacheHitIsValid`** of `RunViews` (`graph_use_case.h:123`). The buckets of the current
  run are remembered by its identity; line 118 says that "a run is immutable under its id,
  so an id match is a valid hit". An import that adds the performance to a run known from
  its CSV, with the same start, keeps the identity: the graph says that there is data and
  draws none of it until another run was current. The other way round, a performance is
  opened from its file, and an import then adds its CSV alone under the same identity: the
  axis of the performance stays.
* **`ActiveFollowsCurrent`** of `RunViews` (`scenario_browser_vm.cpp:129`).
  `scenario_browser_vm.h:26` says that a current run of another scenario, "loaded from a
  file, or a fresh import", activates that scenario. A `.perf` file is opened whose
  scenario is not in the profile: the current run activates the scenario and the refresh of
  the list clears it again. When an import brings the scenario in, the current run is the
  one that was noted, so nothing activates it and the browser lists no runs beside a graph
  that shows one.

* **`CreateFindsNoFile`** of `BenchmarkLibrary` (`benchmark_store.cpp:292`, `:340`). The comment
  at `benchmark_store.cpp:336` says that "a create must find no existing file", and
  `design.md:256` (benchmarks) that nothing overwrites "bytes that have not passed through
  refresh". `currentDigest` has no digest for a file that exists but cannot be opened, a
  create takes that for no file, and `QSaveFile`, which renames over it, replaces it.
  `EditsKept` and the theorem name this as their one exception.

One more expectation, which no document states, is defined and not kept:

* **`OneRunPerRecording`** of `RunImport`: one recording is one run, whatever order its files
  come in. A CSV imported alone makes a run with the start that its name tells. If the
  performance and CSV of a copy below another root are imported next, they make a second run
  with the exact start, since pairs are formed within a root. When the performance beside the
  first CSV comes, it would re-key the first run onto the second's identity, and the merge is
  refused: two runs of one recording. Had it come with its CSV, there would be one.

Observed while modelling:

* A run that has a performance is not re-keyed by a merge (`user_profile.cpp:62`), yet the
  importer records the pair's identity for its group and among the re-keyings
  (`profile_importer.cpp:155`). The two differ only if a lone CSV told the very start that
  another recording of the scenario has; two recordings cannot start at once, so the model
  assumes that no files say so.
* `ParsedStatsCsv::pause_duration` has no initial value (`i_stats_csv_parser.h:17`) and
  `parseFile` leaves it alone when a file has no such row, which is allowed
  (`stats_csv_parser.cpp:131`: "older CSV variants without every field stay ingestible").
  The length of a run made of such a file is then reduced by whatever was on the stack
  (`run_ingestor.cpp:76`); `Pauses` of `RunFiles` is a choice over `Leftovers`, and
  `PlayedAsTold` says nothing of that length.
* The acknowledgement of an import (`file_service.cpp:139`) records the size and time that
  a file has then, not those the failed read saw. A file that was completed in between is
  not retried although it changed (`RELEASE_NOTES.md:76`).
* A rebuild keeps the session's aliases (`profile_service.cpp:106`), so a file imported
  earlier in the session that the rebuild could not read counts as known: the next refresh
  neither reads it nor keeps its failure record (`CHANGELOG.md:148`).
* A version 3 store whose migrated form cannot be saved is not set aside
  (`profile_serializer.cpp:251`), and the rebuild that follows replaces it
  (`CHANGELOG.md:409`, `profile-lifecycle.md:63`).
* Accepting the expression dialog while the tree is incomplete passes an empty text and
  blanks the line without a word (`series_expression_editor_model.cpp`); `CHANGELOG.md:67`
  says that nested expressions with a missing input are still rejected. An expression that
  is too deep or asks for too much is refused when the line takes it, but the dialog
  ignores the answer and closes. Pasting an empty clipboard clears the tree.
* A cell that begins with a quote is copied without quoting. If a later cell ends in a
  quote, the paste takes both and what is between for one cell
  (`benchmark_clipboard_matrix.cpp:53`, `StrayAssumption` of `MCBenchmarkDraft`); a comment at
  `benchmark_clipboard_matrix_test.cpp:38` says that "such a quote must never swallow later
  cells".
* A document whose array order differs from its display positions is accepted, though
  lines are removed and reordered by their index in the array.
* Removing the line or axis that holds the last id, 2^64 - 1, leaves a document whose
  allocator has run out and no longer holds that id, which the rules then refuse; a comment
  at `graph_configuration.cpp:291` says that the id "must then still be in use". Only a
  document made by hand gets there, so `MaximumId` is out of reach in the run.
* Two files that bear one benchmark id are both loaded (`benchmark_store.cpp:312`).
  `design.md:109` says that both become conflicting invalid entries. The run
  `library_faults` includes such files.
* A comment at `settings_vm.cpp:648` says that the list of a refused save is only worth
  showing while something it named is still wrong; the code keeps it while anything at
  all is wrong.
* `updateScenarioHashMap` emits `scenario_list_changed` before it stores the new list
  (`session_vm.cpp:51`), so a binding that reads the list when it is told reads the old one;
  no QML file binds it.
* `docs/architecture/views/runtime/profile-lifecycle.md` (lines 146, 244-249,
  267-274) describes publication before persistence, a directory change that starts no
  refresh, and an arrival queue. The code saves first, refreshes after a directory change, and has no
  queue.
* A manual refresh or rebuild that a directory change overtakes is followed only by a
  refresh that skips recorded failures.
* `BenchmarkLibrary` with `Racing = TRUE` violates `EditsKept`: `commit`
  (`benchmark_store.cpp:335-347`) compares the digest and then replaces the file, so an
  edit between the two is lost. `design.md:246` says "never overwrites". The passing
  run and the theorem therefore assume `Racing = FALSE`, and say so.
* A rebuild may drop a run while an alias still names it; `AliasesResolve` therefore speaks of
  files whose recording is in the profile. Even so it rests on the files of the instance: a CSV
  that was imported before a performance of another scenario appeared under its name is refused
  by a rebuild and keeps its alias, and if a copy of its recording has a run, the alias names
  another run, or none.
* With copies of one recording below two roots, which copy a run names as its source
  depends on the order of import too; `RunsCanonical` is about the start and the length that
  its own sources tell.
* A store whose header cannot be read for a moment is set aside although it is good,
  and a save at such a moment gives the store a new time of creation. A quarantine
  whose rename fails is followed by an overwrite. Files are not synced, so a power failure is beyond the
  models.
* A failed save of an automatic rebuild is not repeated before the next launch or
  request.
* `requirements.md:75` (benchmarks) makes Refresh unavailable while edits are unsaved;
  only the QML guards it (`BenchmarkLibraryPane.qml:84`). The models allow the call.
* The graph requirements (STATE-08) speak of a three-day window and the whole history;
  the code's defaults are 7 days, the recent 30 and 90 days and the latest 100 runs.

## Not modelled

* **Canvas, QML, axes, the points of a run's lines**: painting, layout and floating-point
  arithmetic. There is no state to interleave and TLC has no reals.
* **CSV, perf and JSON text**: the parsers are functions from text. Of a CSV `RunFiles` has
  the lines, its footer and the times, of a benchmark `BenchmarkFile` the document; of everything else the models take what a parser
  says (readable or not, which fields) as data. The text of an expression is modelled word
  by word.
* **Rarely used queries of the profile**: modelled are the ones that tracking, the graphs
  and the views read. The averaged series spans the first to the last day of runs, so the
  branch of the playtime chart that widens it beyond is never taken and is not modelled.
* **Benchmark window**: the menus of groups and assignment targets and the wording of
  issues. **Lines**: colours, and `deleteAxis`, which the window does not offer.
* **Playlist reader**: a function from a file to a list. **Session view model**: the
  scenario list is modelled, the texts of its other properties are not.
* **Build runner, documentation and window tools, tests**: not part of the shipped
  program.
* **Watch installation of nested directories, missing network drives**: `QFileSystemWatcher`
  is external; the model lets it report a change at any time or late, which covers
  a watch installed late.
* **Power loss, a full disk that truncates without an error, two running instances**:
  the code does not handle them.

`components` in `PROJECT.json` lists every part with its status and its note.

## Plan

Built, in this order: `SessionController` with `ImportPromise`; `ProfileImport` around
it; `UserProfile`; `RunImport` and `RunFiles` over it; `BenchmarkLibrary`; `StorePromise` and
`ProfileStoreFile`; `GraphSettings`; `BenchmarkDefinition`, `BenchmarkEditor`,
`BenchmarkFile`, `ClipboardMatrix` and `BenchmarkDraft`; `BenchmarkEvaluation`, `BenchmarkResolution` and `BenchmarkTracking`;
`SeriesExpression`, `SeriesLines`, `SeriesTree` and `SeriesEditor`; `RunViews` over
`UserProfile`; and eight modules of proofs.

What would come next:

1. **`WorkKept`** as a theorem: the order of the entries that stay written as a function of
   positions, and one lemma for each operation that moves entries.
2. **The build runner's** lock and time limits, if worthwhile.
