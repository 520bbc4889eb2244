------------------------------ MODULE RunImport ------------------------------
(***************************************************************************)
(* What one import does to the runs (data/profile_importer.cpp,            *)
(* data/run_ingestor.cpp): it scans the source files, leaves out those it  *)
(* knows, pairs the rest, and merges one pair after the other into its     *)
(* candidate, which becomes the profile when the import is accepted.       *)
(*                                                                         *)
(* A run is played once but arrives as two files, a performance (exact     *)
(* start) and a CSV (start derived from its name), in either order, one of *)
(* them perhaps unreadable for a while, and perhaps again as a copy below  *)
(* a second root.  ProfileImport models when imports run, fail, are stale  *)
(* or are saved; here an import is accepted or abandoned.                  *)
(***************************************************************************)
EXTENDS Naturals, Sequences, FiniteSets, Functions, SequencesExt

CONSTANTS
  Scenarios,
  Files,      \* source files
  Infos,      \* bound: what the files may hold, see InfosAssumption
  NoSource,   \* no file
  NoStart     \* the start of a CSV whose name has no time in it

Halves == {"perf", "csv"}

ASSUME InfosAssumption == \A info \in Infos :
  /\ DOMAIN info \subseteq Files
  /\ \A f \in DOMAIN info :
       /\ info[f].group \in Nat /\ info[f].half \in Halves
       /\ info[f].scenario \in Scenarios /\ info[f].length \in Nat
       /\ info[f].start \in IF info[f].half = "perf" THEN Nat ELSE Nat \cup {NoStart}
  /\ \A f, g \in DOMAIN info :
       info[f].group = info[g].group /\ info[f].half = info[g].half => f = g
ASSUME NoSourceAssumption == NoSource \notin Files
ASSUME NoStartAssumption == NoStart \notin Nat
ASSUME ScenariosAssumption == "None" \notin Scenarios

\* Nobody plays two runs at a time: where two files tell the same start of a scenario,
\* their recordings started at the same time.
ASSUME OneAtATimeAssumption == \A info \in Infos :
  LET Mates(f) == {h \in DOMAIN info : /\ info[h].group = info[f].group
                                       /\ info[h].scenario = info[f].scenario
                                       /\ info[h].half = "perf"} IN
  \A f, g \in DOMAIN info :
    info[f].scenario = info[g].scenario /\ info[f].start = info[g].start /\ info[f].start # NoStart
      => \A h \in Mates(f), k \in Mates(g) : info[h].start = info[k].start

VARIABLES
  info,      \* what each file holds, once it is complete
  disk,      \* Absent, Partial (cannot be imported yet) or Complete
  profile,   \* the accepted profile
  failed,    \* its FailedSources: file to the state it was seen in, or None
  aliases,   \* m_aliases: files known to be in a run, in this session
  current,   \* the identity of the run the user looks at
  job,       \* the import on the worker, see Scan
  offered    \* history: the files the last accepted import of this session found

vars == <<info, disk, profile, failed, aliases, current, job, offered>>

\* A group is a root and a pairing stem; its number is its place in the map's order.
Group(f) == info[f].group

\* The profile's operators; its own specification plays no part here.
P == INSTANCE UserProfile
       WITH Scenarios <- Scenarios, Sources <- Files,
            Incoming <- {}, MaxRuns <- 0, merge <- "None"

NoRun == [scenario |-> "None", start |-> 0, length |-> 0, perf |-> NoSource, csv |-> NoSource]
NoJob == [mode |-> "None"]
NoAliases == [f \in {} |-> P!NoId]

Latest(p) == IF p.latest = P!None THEN P!NoId ELSE P!Id(p.runs[p.latest])

-----------------------------------------------------------------------------
(* Reading a pair: ingestRun and ingestSibling.                             *)

\* A performance of another scenario than the run is refused; else it sets
\* everything but the CSV.
PerfTaken(run, f) ==
  IF \/ f = NoSource \/ disk[f] # "Complete"
     \/ run # NoRun /\ run.scenario # info[f].scenario
  THEN run
  ELSE [scenario |-> info[f].scenario, start |-> info[f].start, length |-> info[f].length,
        perf |-> f, csv |-> run.csv]

\* A CSV joins the run; without one it makes a run if its name tells the time.
CsvTaken(run, f) ==
  IF \/ f = NoSource \/ disk[f] # "Complete"
     \/ run # NoRun /\ run.scenario # info[f].scenario
     \/ run = NoRun /\ info[f].start = NoStart
  THEN run
  ELSE IF run = NoRun
       THEN [scenario |-> info[f].scenario, start |-> info[f].start, length |-> info[f].length,
             perf |-> NoSource, csv |-> f]
       ELSE [run EXCEPT !.csv = f]

Ingested(existing, pair) == CsvTaken(PerfTaken(existing, pair.perf), pair.csv)

FilesOf(pair) == {pair.perf, pair.csv} \ {NoSource}
SourcesOf(run) == {run.perf, run.csv} \ {NoSource}

\* Two different recordings under one identity.
Conflicting(run, same) ==
  \/ /\ run.csv # NoSource /\ same.csv # NoSource
     /\ info[run.csv].data # info[same.csv].data
  \/ /\ run.perf # NoSource /\ same.perf # NoSource
     /\ run.length # same.length \/ info[run.perf].data # info[same.perf].data

-----------------------------------------------------------------------------
(* The import.                                                              *)

Base(mode) == IF mode = "Rebuild" THEN P!EmptyProfile ELSE profile

Positions(p) == P!Positions(p)

\* Known paths lead to a run's identity: the baseline's sources, then the aliases.
KnownPaths(mode) ==
  IF mode = "Rebuild" THEN NoAliases
  ELSE LET Sourced == UNION {SourcesOf(profile.runs[i]) : i \in Positions(profile)} IN
       [f \in DOMAIN aliases \cup Sourced |->
          IF f \in DOMAIN aliases THEN aliases[f]
          ELSE P!Id(profile.runs[CHOOSE i \in Positions(profile) : f \in SourcesOf(profile.runs[i])])]

\* The identity a group is known by; where its halves differ, either may have been last.
GroupIds(paths) ==
  {ids \in [{Group(f) : f \in DOMAIN paths} -> Range(paths)] :
     \A g \in DOMAIN ids : \E f \in DOMAIN paths : Group(f) = g /\ paths[f] = ids[g]}

\* A live import leaves a recorded failure alone while the file is as it was.
Skipped(mode, f) == mode = "Live" /\ failed[f] # "None" /\ failed[f] = disk[f]

Member(admitted, g, half) ==
  LET mine == {f \in admitted : Group(f) = g /\ info[f].half = half} IN
  IF mine = {} THEN NoSource ELSE CHOOSE f \in mine : TRUE

\* ProfileImporter::run up to its loop.
Scan(mode) ==
  LET paths == KnownPaths(mode)
      present == {f \in Files : disk[f] # "Absent"}
      kept == {f \in present \ DOMAIN paths : mode # "Rebuild" /\ Skipped(mode, f)}
      admitted == present \ (DOMAIN paths \cup kept) IN
  /\ job = NoJob
  /\ \E ids \in GroupIds(paths) :
       job' = [mode     |-> mode,
               scanned  |-> disk,
               issues   |-> kept,
               pairs    |-> [g \in {Group(f) : f \in admitted} |->
                               [perf |-> Member(admitted, g, "perf"),
                                csv  |-> Member(admitted, g, "csv")]],
               left     |-> {Group(f) : f \in admitted},
               known    |-> ids,
               cand     |-> Base(mode),
               added    |-> {},
               enriched |-> {},
               rekeyed  |-> <<>>,
               found    |-> NoAliases]
  /\ UNCHANGED <<disk, profile, failed, aliases, current, offered>>

\* Mutant: a late half is not brought together with the run of its group.
Existing_None(g) == NoRun

\* The run a group is known by, in the candidate.
Existing(g) ==
  IF g \in DOMAIN job.known /\ job.known[g] \in DOMAIN job.cand.index
  THEN job.cand.runs[job.cand.index[job.known[g]]]
  ELSE NoRun

\* added and enriched follow a run to its new identity.
Counted(ids, old, new) == IF old \in ids THEN (ids \ {old}) \cup {new} ELSE ids

\* Mutant: a run that is added and then enriched counts twice.
CountedOnce_Twice(enriched, added) == enriched

\* What this import added is not also reported as enriched.
CountedOnce(enriched, added) == enriched \ added

\* known_groups and successful_aliases follow it too.
Followed(ids, old, new) == [x \in DOMAIN ids |-> IF ids[x] = old THEN new ELSE ids[x]]

Merge(run, existing, same) ==
  IF existing = NoRun /\ same # NoRun /\ Conflicting(run, same) THEN "Conflict"
  ELSE P!MergeResult(job.cand, run, IF existing = NoRun THEN P!NoId ELSE P!Id(existing))

\* Mutant: only the performance of a refused pair is recorded as failed.
Refused_PerfOnly(pair) ==
  job' = [job EXCEPT !.left = @ \ {Group(f) : f \in FilesOf(pair)},
                     !.issues = @ \cup ({pair.perf} \ {NoSource})]

\* A conflicting pair is reported, both halves of it.
Refused(pair) ==
  job' = [job EXCEPT !.left = @ \ {Group(f) : f \in FilesOf(pair)},
                     !.issues = @ \cup FilesOf(pair)]

\* What was read becomes part of the candidate and is remembered under the run's
\* identity, which the merge may have changed.
Joined(g, pair, existing, run, merge) ==
  LET id == P!Id(run)
      old == P!Id(existing)
      rekeyed == existing # NoRun /\ old # id
      added == (IF rekeyed THEN Counted(job.added, old, id) ELSE job.added)
                 \cup (IF merge = "Added" THEN {id} ELSE {})
      enriched == (IF rekeyed THEN Counted(job.enriched, old, id) ELSE job.enriched)
                    \cup (IF merge = "Enriched" THEN {id} ELSE {})
      known == IF rekeyed THEN Followed(job.known, old, id) ELSE job.known
      found == IF rekeyed THEN Followed(job.found, old, id) ELSE job.found
      requested == FilesOf(pair) \cap SourcesOf(run) IN
  job' = [job EXCEPT
            !.left = @ \ {g},
            !.issues = @ \cup (FilesOf(pair) \ SourcesOf(run)),
            !.cand = P!MergeImportedRun(@, run, IF existing = NoRun THEN P!NoId ELSE old),
            !.added = added,
            !.enriched = CountedOnce(enriched, added),
            !.rekeyed = IF rekeyed THEN Append(@, <<old, id>>) ELSE @,
            !.known = [h \in DOMAIN known \cup {g} |-> IF h = g THEN id ELSE known[h]],
            !.found = [f \in DOMAIN found \cup requested |->
                         IF f \in requested THEN id ELSE found[f]]]

\* One turn of the loop: the first group that is left.
ImportGroup ==
  /\ job # NoJob
  /\ job.left # {}
  /\ LET g == CHOOSE h \in job.left : \A k \in job.left : h <= k
         pair == job.pairs[g]
         existing == Existing(g)
         run == Ingested(existing, pair)
         same == IF P!Id(run) \in DOMAIN job.cand.index
                 THEN job.cand.runs[job.cand.index[P!Id(run)]] ELSE NoRun
         merge == Merge(run, existing, same) IN
     IF run = NoRun
     THEN job' = [job EXCEPT !.left = @ \ {g}, !.issues = @ \cup FilesOf(pair)]
     ELSE IF merge = "Conflict" THEN Refused(pair)
          ELSE Joined(g, pair, existing, run, merge)
  /\ UNCHANGED <<disk, profile, failed, aliases, current, offered>>

-----------------------------------------------------------------------------
(* Acceptance: acceptImport, acceptAliases, refreshCurrentRun.              *)

\* Mutant: the session's aliases keep the identity they were recorded with.
Rekeyed_Forgotten(rekeyed, id) == id

\* rekeys.emplace keeps the first entry of an identity.
Rekeyed(rekeyed, id) ==
  LET mine == {k \in DOMAIN rekeyed : rekeyed[k][1] = id} IN
  IF mine = {} THEN id ELSE rekeyed[CHOOSE k \in mine : \A j \in mine : k <= j][2]

AcceptAliases ==
  aliases' = [f \in DOMAIN aliases \cup DOMAIN job.found |->
                IF f \in DOMAIN job.found THEN job.found[f] ELSE Rekeyed(job.rekeyed, aliases[f])]

\* Mutant: the selected run is looked for under its old identity.
Selected_OldId(id, rekeyed) == id

\* for (old, new : rekeyed_runs) if (id == old) id = new.
Selected(id, rekeyed) ==
  FoldLeft(LAMBDA now, pair : IF now = pair[1] THEN pair[2] ELSE now, id, rekeyed)

\* result.changed: a rebuild always is, a refresh when a merge added or enriched.
Changed == job.mode = "Rebuild" \/ job.cand # profile

RefreshCurrentRun ==
  LET id == IF job.mode \in {"Rebuild", "Live"} \/ current = P!NoId THEN Latest(job.cand)
            ELSE Selected(current, job.rekeyed) IN
  current' = IF Changed /\ id \in DOMAIN job.cand.index THEN id ELSE current

Accept ==
  /\ job # NoJob
  /\ job.left = {}
  /\ profile' = job.cand
  /\ failed' = [f \in Files |-> IF f \in job.issues THEN job.scanned[f] ELSE "None"]
  /\ AcceptAliases
  /\ RefreshCurrentRun
  /\ offered' = {f \in Files : job.scanned[f] # "Absent"}
  /\ job' = NoJob
  /\ UNCHANGED disk

\* The import threw, its save failed or it was stale.
Abandon ==
  /\ job # NoJob
  /\ job' = NoJob
  /\ UNCHANGED <<disk, profile, failed, aliases, current, offered>>

SelectRun(id) ==
  /\ current' = id
  /\ UNCHANGED <<disk, profile, failed, aliases, job, offered>>

\* The store holds the profile and its failures, the session its aliases.
Restart ==
  /\ job = NoJob
  /\ aliases' = NoAliases
  /\ current' = Latest(profile)
  /\ offered' = {}
  /\ UNCHANGED <<disk, profile, failed, job>>

\* The game writes a file, at once or over a while.
FileAppears(f, state) ==
  /\ f \in DOMAIN info /\ disk[f] = "Absent"
  /\ disk' = [disk EXCEPT ![f] = state]
  /\ UNCHANGED <<profile, failed, aliases, current, job, offered>>

FileCompletes(f) ==
  /\ disk[f] = "Partial"
  /\ disk' = [disk EXCEPT ![f] = "Complete"]
  /\ UNCHANGED <<profile, failed, aliases, current, job, offered>>

Init ==
  /\ info \in Infos
  /\ disk = [f \in Files |-> "Absent"]
  /\ profile = P!EmptyProfile
  /\ failed = [f \in Files |-> "None"]
  /\ aliases = NoAliases
  /\ current = P!NoId
  /\ job = NoJob
  /\ offered = {}

Next ==
  /\ UNCHANGED info
  /\ \/ \E mode \in {"Manual", "Live", "Rebuild"} : Scan(mode)
     \/ ImportGroup
     \/ Accept
     \/ Abandon
     \/ \E id \in DOMAIN profile.index : SelectRun(id)
     \/ Restart
     \/ \E f \in Files : \E state \in {"Partial", "Complete"} : FileAppears(f, state)
     \/ \E f \in Files : FileCompletes(f)

Spec == Init /\ [][Next]_vars

-----------------------------------------------------------------------------
(* Properties.                                                              *)

\* A run tells what its own sources tell: the performance, once there is one, gives identity
\* and length, although the CSV may have come before it; a lone CSV gives its own.
CanonicalRun(run) ==
  LET origin == info[IF run.perf # NoSource THEN run.perf ELSE run.csv] IN
  run.start = origin.start /\ run.length = origin.length

RunsCanonical ==
  \A i \in Positions(profile) :
    SourcesOf(profile.runs[i]) # {} /\ CanonicalRun(profile.runs[i])

\* The files of one group, a root and a pairing stem, never end up in two runs, so no file
\* does; of a copy below another root it says nothing, see OneRunPerRecording.
PairTogether ==
  \A i, j \in Positions(profile) :
    (\E f \in SourcesOf(profile.runs[i]), h \in SourcesOf(profile.runs[j]) : Group(f) = Group(h))
      => i = j

\* Late halves and re-keys leave every run what its sources tell, and every group in one run.
RunsExact == RunsCanonical /\ PairTogether

\* One recording is one run, whatever order its files come in.  Not kept: a lone CSV tells
\* another start than the performances.  A run of it stays beside the run which a copy below
\* another root has made, since its own performance then re-keys it onto a taken identity
\* and is refused; had the performance come with it, there would be one run.
OneRunPerRecording ==
  \A i, j \in Positions(profile) :
    (\E f \in SourcesOf(profile.runs[i]), h \in SourcesOf(profile.runs[j]) :
       info[f].data = info[h].data) => i = j

\* Nothing the last import found is forgotten: it is in a run, known to be in one, or
\* recorded as failed so that it is shown and tried again.
Accounted ==
  \A f \in offered :
    \/ f \in DOMAIN aliases
    \/ failed[f] # "None"
    \/ \E i \in Positions(profile) : f \in SourcesOf(profile.runs[i])

\* A file of a run is known by the identity that the run has now.
AliasesLead ==
  \A f \in DOMAIN aliases : \A i \in Positions(profile) :
    f \in SourcesOf(profile.runs[i]) => aliases[f] = P!Id(profile.runs[i])

\* A file known to be in a run, itself or as a copy, leads to a run of its recording, as long as
\* there is one.
Recorded(f) == \E i \in Positions(profile), h \in Files :
                 h \in SourcesOf(profile.runs[i]) /\ info[h].data = info[f].data

AliasesResolve ==
  /\ AliasesLead
  /\ \A f \in DOMAIN aliases : Recorded(f) =>
       /\ aliases[f] \in DOMAIN profile.index
       /\ LET run == profile.runs[profile.index[aliases[f]]] IN
          \E h \in SourcesOf(run) : info[h].data = info[f].data

\* The numbers reported of an import: the runs that are new, and the older runs that
\* gained something, each counted once, although a run may be re-keyed in the middle of it.
CountsExact ==
  job # NoJob =>
    LET before == Base(job.mode).runs
        after == job.cand.runs IN
    /\ Cardinality(job.added) = Len(after) - Len(before)
    /\ job.enriched = {P!Id(after[i]) : i \in {i \in DOMAIN before : after[i] # before[i]}}

\* A refresh by the user leaves the run the user looks at on the screen, although a
\* performance that came late gave it another identity.
CurrentFollowed ==
  [][(Accept /\ job.mode = "Manual" /\ current \in DOMAIN profile.index) =>
       /\ current' \in DOMAIN profile'.index
       /\ profile'.index[current'] = profile.index[current]]_vars

=============================================================================
