---------------------------- MODULE RunImportProofs ----------------------------
(***************************************************************************)
(* Proofs about RunImport, for any files and whatever they hold: what an   *)
(* accepted import has found is in a run, known to be in one, or recorded  *)
(* as failed; and what each run tells, the counts and the selection are    *)
(* right in whatever order the files of a group come.                      *)
(*                                                                         *)
(* Every file a scan has seen is on its way there at each turn of the      *)
(* loop: it was known before, is reported, was found, or its pair is still *)
(* to be read.  That a known file stays in a run rests on what             *)
(* UserProfileProofs says of mergeImportedRun: no run is dropped, no       *)
(* source replaced.                                                        *)
(*                                                                         *)
(* The second half says what leads to a run: by what its files tell of its *)
(* start (Tells), a pair finds the run its other half is in, although that *)
(* run may have been re-keyed, in this import or by the pair itself; and   *)
(* the list of re-keyings, the counts and the aliases follow (Links).      *)
(* What a CSV tells is itself concluded of its name and its footer, and it *)
(* is what was played.                                                     *)
(***************************************************************************)
EXTENDS RunFiles, FiniteSetTheorems, WellFoundedInduction, TLAPS

\* The profile's theorems, about the operators the importer uses.
Lemmas == INSTANCE UserProfileProofs
            WITH Scenarios <- Scenarios, Sources <- Files,
                 Incoming <- {}, MaxRuns <- 0, merge <- "None"

LEMMA SameOperators ==
  /\ P!EmptyProfile = Lemmas!EmptyProfile
  /\ \A run : P!Id(run) = Lemmas!Id(run)
  /\ \A p : P!Positions(p) = Lemmas!Positions(p)
<1>1. P!EmptyProfile = Lemmas!EmptyProfile
  BY DEF P!EmptyProfile, Lemmas!EmptyProfile, P!None, Lemmas!None
<1>2. \A run : P!Id(run) = Lemmas!Id(run) BY DEF P!Id, Lemmas!Id
<1>3. \A p : P!Positions(p) = Lemmas!Positions(p) BY DEF P!Positions, Lemmas!Positions
<1>4. QED BY <1>1, <1>2, <1>3

LEMMA SameInsert ==
  ASSUME NEW runs, NEW list, NEW i
  PROVE  /\ P!Insert(runs, list, i) = Lemmas!Insert(runs, list, i)
         /\ P!Reinsert(runs, list, i) = Lemmas!Reinsert(runs, list, i)
<1>1. \A l, s : P!UpperBound(runs, l, s) = Lemmas!UpperBound(runs, l, s)
  BY Zenon DEF P!UpperBound, Lemmas!UpperBound
<1>2. \A l, k : P!InsertAt(l, k, i) = Lemmas!InsertAt(l, k, i)
  BY Zenon DEF P!InsertAt, Lemmas!InsertAt
<1>3. P!RemoveFirst(list, i) = Lemmas!RemoveFirst(list, i)
  BY Zenon DEF P!RemoveFirst, Lemmas!RemoveFirst, P!RemoveAt, Lemmas!RemoveAt,
               P!SelectInSeq, Lemmas!SelectInSeq, P!Min, Lemmas!Min
<1>4. \A l : P!Insert(runs, l, i) = Lemmas!Insert(runs, l, i)
  BY <1>1, <1>2, Zenon DEF P!Insert, Lemmas!Insert
<1>5. QED BY <1>3, <1>4, Zenon DEF P!Reinsert, Lemmas!Reinsert

LEMMA SameMerge ==
  ASSUME NEW p, NEW run, NEW previous
  PROVE  /\ P!MergeImportedRun(p, run, previous) = Lemmas!MergeImportedRun(p, run, previous)
         /\ P!MergeResult(p, run, previous) = Lemmas!MergeResult(p, run, previous)
<1>1. \A r : P!Id(r) = Lemmas!Id(r) BY SameOperators
<1>2. P!Key(run, previous) = Lemmas!Key(run, previous)
  BY <1>1, Zenon DEF P!Key, Lemmas!Key, P!NoId, Lemmas!NoId
<1>3. \A a, b : /\ P!TakesPerf(a, b) = Lemmas!TakesPerf(a, b)
                /\ P!TakesCsv(a, b) = Lemmas!TakesCsv(a, b)
                /\ P!Merged(a, b) = Lemmas!Merged(a, b)
  BY Zenon DEF P!TakesPerf, Lemmas!TakesPerf, P!TakesCsv, Lemmas!TakesCsv, P!Merged, Lemmas!Merged
<1>4. P!AddRun(p, run) = Lemmas!AddRun(p, run)
  BY <1>1, SameInsert, Zenon DEF P!AddRun, Lemmas!AddRun, P!None, Lemmas!None
<1>5. \A i, r : P!Enriched(p, i, r) = Lemmas!Enriched(p, i, r)
  BY Zenon DEF P!Enriched, Lemmas!Enriched
<1>6. \A q, i, id : P!Rekeyed(q, i, id) = Lemmas!Rekeyed(q, i, id)
  <2>1. \A runs : P!FirstLatest(runs) = Lemmas!FirstLatest(runs)
    BY Zenon DEF P!FirstLatest, Lemmas!FirstLatest
  <2>2. \A runs, list, i : P!Reinsert(runs, list, i) = Lemmas!Reinsert(runs, list, i)
    BY SameInsert
  <2>3. TAKE q, i, id
  <2>4. P!Rekeyed(q, i, id)
          = [q EXCEPT !.index = [x \in (DOMAIN q.index \ {id}) \cup {Lemmas!Id(q.runs[i])} |->
                                   IF x = Lemmas!Id(q.runs[i]) THEN i ELSE q.index[x]],
                      !.history = [q.history EXCEPT ![Lemmas!Id(q.runs[i]).scenario] =
                                     Lemmas!Reinsert(q.runs, @, i)],
                      !.latest = Lemmas!FirstLatest(q.runs)]
    BY <1>1, <2>1, <2>2 DEF P!Rekeyed
  <2>5. QED BY <2>4 DEF Lemmas!Rekeyed
<1>7. \A id : P!MergedInto(p, run, id) = Lemmas!MergedInto(p, run, id)
  BY <1>1, <1>3, <1>5, <1>6, Zenon DEF P!MergedInto, Lemmas!MergedInto
<1>8. P!MergeResult(p, run, previous) = Lemmas!MergeResult(p, run, previous)
  BY <1>1, <1>2, <1>3, Zenon DEF P!MergeResult, Lemmas!MergeResult, P!NoId, Lemmas!NoId
<1>9. QED
  BY <1>2, <1>4, <1>7, <1>8, Zenon DEF P!MergeImportedRun, Lemmas!MergeImportedRun
-----------------------------------------------------------------------------
(* The invariant.                                                           *)

InRun(p, f) == \E i \in Positions(p) : f \in SourcesOf(p.runs[i])

DiskStates == {"Absent", "Partial", "Complete"}

World ==
  /\ info \in Infos
  /\ disk \in [Files -> DiskStates]
  /\ \A f \in Files : disk[f] # "Absent" => f \in DOMAIN info
  /\ Lemmas!ProfileInv(profile)

\* The halves of a pair are of its group.
PairOK(g, pair) ==
  /\ FilesOf(pair) \subseteq {f \in DOMAIN info : Group(f) = g}
  /\ pair.perf # NoSource => info[pair.perf].half = "perf"
  /\ pair.csv # NoSource => info[pair.csv].half = "csv"

\* Where a file that was there when the import scanned has got to.
OnItsWay(f) ==
  \/ f \in job.issues
  \/ f \in DOMAIN job.found
  \/ job.mode # "Rebuild" /\ (f \in DOMAIN aliases \/ InRun(profile, f))
  \/ \E g \in job.left : f \in FilesOf(job.pairs[g])

JobOK ==
  /\ job = [mode |-> job.mode, scanned |-> job.scanned, issues |-> job.issues,
            pairs |-> job.pairs, left |-> job.left, known |-> job.known, cand |-> job.cand,
            added |-> job.added, enriched |-> job.enriched, rekeyed |-> job.rekeyed,
            found |-> job.found]
  /\ job.scanned \in [Files -> DiskStates]
  /\ Lemmas!ProfileInv(job.cand)
  /\ job.left \subseteq Nat
  /\ \A g \in job.left : PairOK(g, job.pairs[g])
  /\ job.mode # "Rebuild" => \A f \in Files : InRun(profile, f) => InRun(job.cand, f)
  /\ \A f \in Files : job.scanned[f] # "Absent" => OnItsWay(f)

IInv ==
  /\ World
  /\ job # NoJob => JobOK
  /\ offered \subseteq Files /\ Accounted

-----------------------------------------------------------------------------
(* What the scan and the reading of a pair deliver.                         *)

\* What is known of a file that is there.
LEMMA FileTyped ==
  ASSUME info \in Infos, NEW f \in DOMAIN info
  PROVE  /\ f \in Files /\ f # NoSource
         /\ Group(f) \in Nat /\ info[f].half \in Halves /\ info[f].length \in Nat
         /\ info[f].scenario \in Scenarios
         /\ info[f].half = "perf" => info[f].start \in Nat
         /\ info[f].start # NoStart => info[f].start \in Nat
<1>1. f \in Files /\ f # NoSource BY InfosAssumption, NoSourceAssumption
<1>2. /\ info[f].group \in Nat /\ info[f].half \in Halves
      /\ info[f].scenario \in Scenarios /\ info[f].length \in Nat
      /\ info[f].start \in IF info[f].half = "perf" THEN Nat ELSE Nat \cup {NoStart}
  BY InfosAssumption
<1>3. QED BY <1>1, <1>2 DEF Group

LEMMA MemberIs ==
  ASSUME info \in Infos, NEW admitted, admitted \subseteq DOMAIN info, NEW g, NEW half
  PROVE  LET m == Member(admitted, g, half) IN
         /\ m = NoSource \/ (m \in admitted /\ Group(m) = g /\ info[m].half = half)
         /\ \A f \in admitted : Group(f) = g /\ info[f].half = half => m = f
<1> DEFINE mine == {f \in admitted : Group(f) = g /\ info[f].half = half}
<1>1. CASE mine = {} BY <1>1 DEF Member
<1>2. CASE mine # {}
  <2>1. Member(admitted, g, half) = CHOOSE f \in mine : TRUE BY <1>2 DEF Member
  <2>2. Member(admitted, g, half) \in mine BY <1>2, <2>1
  <2>3. \A f \in mine : f = Member(admitted, g, half)
    BY <2>2, InfosAssumption DEF Group
  <2>4. QED BY <2>2, <2>3
<1>3. QED BY <1>1, <1>2

\* A run that is read from a pair is one the profile can hold.
LEMMA IngestedTyped ==
  ASSUME info \in Infos, NEW existing, existing = NoRun \/ existing \in Lemmas!Runs,
         NEW g, NEW pair, PairOK(g, pair)
  PROVE  LET run == Ingested(existing, pair) IN run = NoRun \/ run \in Lemmas!Runs
<1> DEFINE Fine(run) == run = NoRun \/ run \in Lemmas!Runs
<1>1. ASSUME NEW f, f = pair.perf \/ f = pair.csv, f # NoSource
      PROVE  f \in DOMAIN info
  BY <1>1 DEF PairOK, FilesOf
<1>2. \A run \in Lemmas!Runs : run.csv \in Files \cup {NoSource}
  BY DEF Lemmas!Runs
<1>3. NoRun.csv = NoSource /\ NoRun.perf = NoSource BY DEF NoRun
<1>4. Fine(PerfTaken(existing, pair.perf))
  <2>1. CASE PerfTaken(existing, pair.perf) = existing BY <2>1
  <2>2. CASE PerfTaken(existing, pair.perf) # existing
    <3> DEFINE f == pair.perf
    <3>1. f # NoSource BY <2>2 DEF PerfTaken
    <3>2. f \in DOMAIN info /\ info[f].half = "perf" BY <1>1, <3>1 DEF PairOK
    <3>3. /\ f \in Files /\ info[f].scenario \in Scenarios /\ info[f].start \in Nat
          /\ info[f].length \in Nat
      BY <3>2, FileTyped
    <3>4. existing.csv \in Files \cup {NoSource} BY <1>2, <1>3
    <3>5. PerfTaken(existing, f)
            = [scenario |-> info[f].scenario, start |-> info[f].start,
               length |-> info[f].length, perf |-> f, csv |-> existing.csv]
      BY <2>2 DEF PerfTaken
    <3>6. QED BY <3>3, <3>4, <3>5 DEF Lemmas!Runs
  <2>3. QED BY <2>1, <2>2
<1>5. ASSUME NEW r, Fine(r) PROVE Fine(CsvTaken(r, pair.csv))
  <2>1. CASE CsvTaken(r, pair.csv) = r BY <1>5, <2>1
  <2>2. CASE CsvTaken(r, pair.csv) # r
    <3> DEFINE f == pair.csv
    <3>1. f # NoSource BY <2>2 DEF CsvTaken
    <3>2. f \in DOMAIN info BY <1>1, <3>1
    <3>3. /\ f \in Files /\ info[f].scenario \in Scenarios /\ info[f].length \in Nat
          /\ info[f].start # NoStart => info[f].start \in Nat
      BY <3>2, FileTyped
    <3>4. CASE r = NoRun
      <4>1. info[f].start # NoStart BY <2>2, <3>4 DEF CsvTaken
      <4>2. CsvTaken(r, f)
              = [scenario |-> info[f].scenario, start |-> info[f].start,
                 length |-> info[f].length, perf |-> NoSource, csv |-> f]
        BY <2>2, <3>4 DEF CsvTaken
      <4>3. QED BY <3>3, <4>1, <4>2 DEF Lemmas!Runs
    <3>5. CASE r # NoRun
      <4>1. CsvTaken(r, f) = [r EXCEPT !.csv = f] BY <2>2, <3>5 DEF CsvTaken
      <4>2. QED BY <1>5, <3>3, <3>5, <4>1 DEF Lemmas!Runs
    <3>6. QED BY <3>4, <3>5
  <2>3. QED BY <2>1, <2>2
<1>6. QED BY <1>4, <1>5 DEF Ingested

LEMMA LeastExists ==
  ASSUME NEW T, T \subseteq Nat, T # {}
  PROVE  (CHOOSE h \in T : \A k \in T : h <= k) \in T
<1>1. PICK m \in T : \A k \in T : ~(<<k, m>> \in OpToRel(<, Nat))
  BY WFMin, NatLessThanWellFounded, Zenon
<1>2. \A k \in T : ~(k < m)
  BY <1>1 DEF OpToRel
<1>3. m \in T /\ \A k \in T : m <= k
  BY <1>2
<1>4. QED BY <1>3

\* The merge keeps the candidate well-formed, and every file of a run in one.
LEMMA MergeKeepsFiles ==
  ASSUME NEW p, Lemmas!ProfileInv(p), NEW run \in Lemmas!Runs, NEW previous
  PROVE  /\ Lemmas!ProfileInv(P!MergeImportedRun(p, run, previous))
         /\ \A f \in Files : InRun(p, f) => InRun(P!MergeImportedRun(p, run, previous), f)
<1> DEFINE q == P!MergeImportedRun(p, run, previous)
<1>1. q = Lemmas!MergeImportedRun(p, run, previous) BY SameMerge
<1>2. Lemmas!ProfileInv(q) BY <1>1, Lemmas!ImportKeeps
<1>3. Lemmas!RunsKept(p, q) BY <1>1, Lemmas!ImportKeepsSources
<1> HIDE DEF q
<1>4. \A r : Positions(r) = Lemmas!Positions(r) BY SameOperators DEF Positions
<1>5. \A f \in Files : InRun(p, f) => InRun(q, f)
  BY <1>3, <1>4, NoSourceAssumption
     DEF InRun, SourcesOf, Lemmas!RunsKept, Lemmas!Kept
<1>6. QED BY <1>2, <1>5 DEF q

-----------------------------------------------------------------------------
(* The invariant holds at first, and each action keeps it.                  *)

LEMMA InvInit == Init => IInv
<1> SUFFICES ASSUME Init PROVE IInv
  OBVIOUS
<1>1. Lemmas!ProfileInv(profile) BY SameOperators, Lemmas!EmptyKeeps DEF Init
<1>2. World BY <1>1 DEF Init, World, DiskStates
<1>3. QED BY <1>2 DEF Init, IInv, Accounted

\* Steps that leave the import and what it is judged by alone.
LEMMA OutsideKeeps ==
  ASSUME IInv, World', UNCHANGED <<info, profile, failed, aliases, job, offered>>
  PROVE  IInv'
<1>1. Accounted' BY DEF IInv, Accounted
<1>2. JobOK => JobOK' BY DEF JobOK, PairOK, OnItsWay, Group
<1>3. QED BY <1>1, <1>2 DEF IInv

LEMMA FilesKeep ==
  ASSUME IInv, UNCHANGED info,
         \/ \E f \in Files : \E state \in {"Partial", "Complete"} : FileAppears(f, state)
         \/ \E f \in Files : FileCompletes(f)
  PROVE  IInv'
<1>1. /\ UNCHANGED <<info, profile, failed, aliases, job, offered>>
      /\ \E f \in Files, state \in DiskStates :
           disk' = [disk EXCEPT ![f] = state] /\ f \in DOMAIN info
  BY DEF FileAppears, FileCompletes, IInv, World, DiskStates
<1>2. World' BY <1>1 DEF IInv, World
<1>3. QED BY <1>1, <1>2, OutsideKeeps

LEMMA ScanKeeps ==
  ASSUME IInv, UNCHANGED info, NEW mode, Scan(mode)
  PROVE  IInv'
<1> DEFINE paths == KnownPaths(mode)
           present == {f \in Files : disk[f] # "Absent"}
           kept == {f \in present \ DOMAIN paths : mode # "Rebuild" /\ Skipped(mode, f)}
           admitted == present \ (DOMAIN paths \cup kept)
<1>1. PICK ids \in GroupIds(paths) :
        job' = [mode     |-> mode,
                scanned  |-> disk,
                issues   |-> kept,
                pairs    |-> [g \in {Group(f) : f \in admitted} |->
                                [perf |-> Member(admitted, g, "perf"),
                                 csv  |-> Member(admitted, g, "csv")]],
                left     |-> {Group(f) : f \in admitted},
                known    |-> ids,
                cand     |-> Base(mode),
                added    |-> {},
                enriched |-> {},
                rekeyed  |-> <<>>,
                found    |-> NoAliases]
  BY DEF Scan
<1>2. UNCHANGED <<disk, profile, failed, aliases, current, offered>> BY DEF Scan
<1>3. present \subseteq DOMAIN info /\ info \in Infos BY DEF IInv, World
<1>4. \A f \in present : f \in DOMAIN paths =>
        mode # "Rebuild" /\ (f \in DOMAIN aliases \/ InRun(profile, f))
  BY DEF KnownPaths, NoAliases, InRun
<1> HIDE DEF paths, kept
<1>5. admitted \subseteq DOMAIN info BY <1>3
<1>6. \A f \in admitted : Group(f) \in Nat /\ info[f].half \in Halves
  BY <1>3, <1>5, FileTyped
<1> DEFINE pairs == [g \in {Group(f) : f \in admitted} |->
                       [perf |-> Member(admitted, g, "perf"), csv |-> Member(admitted, g, "csv")]]
<1>7. \A g \in {Group(f) : f \in admitted} : PairOK(g, pairs[g])
  <2>1. TAKE g \in {Group(f) : f \in admitted}
  <2>2. \A half : LET m == Member(admitted, g, half) IN
          m = NoSource \/ (m \in admitted /\ Group(m) = g /\ info[m].half = half)
    BY <1>3, <1>5, MemberIs
  <2> HIDE DEF admitted
  <2>3. QED BY <1>5, <2>2 DEF PairOK, FilesOf
<1>8. \A f \in admitted : f \in FilesOf(pairs[Group(f)])
  <2>1. TAKE f \in admitted
  <2>2. info[f].half \in {"perf", "csv"} BY <1>6 DEF Halves
  <2>3. Member(admitted, Group(f), info[f].half) = f BY <1>3, <1>5, MemberIs
  <2>4. f # NoSource BY NoSourceAssumption
  <2> HIDE DEF admitted
  <2>5. QED BY <2>2, <2>3, <2>4 DEF FilesOf
<1>9. Lemmas!ProfileInv(Base(mode))
  BY SameOperators, Lemmas!EmptyKeeps DEF Base, IInv, World
<1>10. mode # "Rebuild" => Base(mode) = profile BY DEF Base
<1>11. job' = [mode |-> mode, scanned |-> disk, issues |-> kept, pairs |-> pairs,
               left |-> {Group(f) : f \in admitted}, known |-> ids, cand |-> Base(mode),
               added |-> {}, enriched |-> {}, rekeyed |-> <<>>, found |-> NoAliases]
  BY <1>1
<1> HIDE DEF pairs
<1>12. \A f \in present : f \in DOMAIN paths \/ f \in kept \/ f \in admitted OBVIOUS
<1>13. \A f \in Files : job'.scanned[f] # "Absent" => OnItsWay(f)'
  <2>1. TAKE f \in Files
  <2>2. HAVE job'.scanned[f] # "Absent"
  <2>3. f \in present BY <1>11, <2>2
  <2>4. CASE f \in DOMAIN paths BY <1>2, <1>4, <1>11, <2>3, <2>4 DEF OnItsWay
  <2>5. CASE f \in kept BY <1>11, <2>5 DEF OnItsWay
  <2>6. CASE f \in admitted
    <3>1. Group(f) \in job'.left /\ f \in FilesOf(job'.pairs[Group(f)])
      BY <1>8, <1>11, <2>6
    <3>2. QED BY <3>1 DEF OnItsWay
  <2>7. QED BY <1>12, <2>3, <2>4, <2>5, <2>6
<1>14. \A g \in job'.left : PairOK(g, job.pairs[g])'
  <2>1. job'.left = {Group(f) : f \in admitted} /\ job'.pairs = pairs BY <1>11
  <2> HIDE DEF admitted
  <2>2. QED BY <1>7, <2>1 DEF PairOK, Group
<1>15. job'.left \subseteq Nat BY <1>6, <1>11
<1> HIDE DEF present, admitted
<1>16. JobOK'
  <2>1. job'.scanned \in [Files -> DiskStates] BY <1>11 DEF IInv, World
  <2>2. Lemmas!ProfileInv(job'.cand) BY <1>9, <1>11
  <2>3. job'.mode # "Rebuild" => \A f \in Files : InRun(profile', f) => InRun(job'.cand, f)
    BY <1>2, <1>10, <1>11
  <2>4. QED BY <1>11, <1>13, <1>14, <1>15, <2>1, <2>2, <2>3 DEF JobOK
<1>17. World' BY <1>2 DEF IInv, World
<1>18. Accounted' BY <1>2 DEF IInv, Accounted
<1>19. QED BY <1>2, <1>16, <1>17, <1>18 DEF IInv

\* A turn of the loop that accounts for both halves of its pair.
LEMMA TurnKeeps ==
  ASSUME IInv, job # NoJob, NEW g \in job.left,
         UNCHANGED <<info, disk, profile, failed, aliases, offered>>,
         job' = [mode |-> job.mode, scanned |-> job.scanned, issues |-> job'.issues,
                 pairs |-> job.pairs, left |-> job'.left, known |-> job'.known,
                 cand |-> job'.cand, added |-> job'.added, enriched |-> job'.enriched,
                 rekeyed |-> job'.rekeyed, found |-> job'.found],
         job'.left \subseteq job.left, job.left \ {g} \subseteq job'.left,
         job.issues \subseteq job'.issues, DOMAIN job.found \subseteq DOMAIN job'.found,
         FilesOf(job.pairs[g]) \subseteq job'.issues \cup DOMAIN job'.found,
         Lemmas!ProfileInv(job'.cand),
         \A f \in Files : InRun(job.cand, f) => InRun(job'.cand, f)
  PROVE  IInv'
<1>1. JobOK BY DEF IInv
<1>2. job'.mode = job.mode /\ job'.scanned = job.scanned /\ job'.pairs = job.pairs
  OBVIOUS
<1>3. ASSUME NEW f \in Files, OnItsWay(f) PROVE OnItsWay(f)'
  <2>1. CASE f \in job.issues \/ f \in DOMAIN job.found BY <2>1 DEF OnItsWay
  <2>2. CASE job.mode # "Rebuild" /\ (f \in DOMAIN aliases \/ InRun(profile, f))
    BY <1>2, <2>2 DEF OnItsWay
  <2>3. CASE f \in FilesOf(job.pairs[g]) BY <2>3 DEF OnItsWay
  <2>4. CASE \E h \in job.left \ {g} : f \in FilesOf(job.pairs[h])
    BY <1>2, <2>4 DEF OnItsWay
  <2>5. QED BY <1>3, <2>1, <2>2, <2>3, <2>4 DEF OnItsWay
<1>4. \A h \in job'.left : PairOK(h, job.pairs[h])'
  BY <1>1, <1>2 DEF JobOK, PairOK, Group
<1>5. JobOK'
  <2>1. job'.mode # "Rebuild" => \A f \in Files : InRun(profile', f) => InRun(job'.cand, f)
    BY <1>1, <1>2 DEF JobOK
  <2>2. \A f \in Files : job'.scanned[f] # "Absent" => OnItsWay(f)'
    BY <1>1, <1>2, <1>3 DEF JobOK
  <2>3. job'.left \subseteq Nat /\ job'.scanned \in [Files -> DiskStates]
    BY <1>1, <1>2 DEF JobOK
  <2>4. job' = [mode |-> job'.mode, scanned |-> job'.scanned, issues |-> job'.issues,
                pairs |-> job'.pairs, left |-> job'.left, known |-> job'.known,
                cand |-> job'.cand, added |-> job'.added, enriched |-> job'.enriched,
                rekeyed |-> job'.rekeyed, found |-> job'.found]
    OBVIOUS
  <2>5. QED BY <1>4, <2>1, <2>2, <2>3, <2>4 DEF JobOK
<1>6. World' /\ Accounted' BY DEF IInv, World, Accounted
<1>7. QED BY <1>5, <1>6 DEF IInv

\* The run a group is known by is one of the candidate's.
LEMMA ExistingTyped ==
  ASSUME JobOK, NEW g
  PROVE  Existing(g) = NoRun \/ Existing(g) \in Lemmas!Runs
<1>1. CASE g \in DOMAIN job.known /\ job.known[g] \in DOMAIN job.cand.index
  <2> DEFINE p == job.cand
             i == p.index[job.known[g]]
  <2>1. Lemmas!IndexExactIn(p) /\ Lemmas!Shaped(p) BY DEF JobOK, Lemmas!ProfileInv
  <2>2. i \in Lemmas!Positions(p) BY <1>1, <2>1 DEF Lemmas!IndexExactIn
  <2>3. p.runs[i] \in Lemmas!Runs BY <2>1, <2>2, Lemmas!RunsTyped
  <2>4. QED BY <1>1, <2>3 DEF Existing
<1>2. QED BY <1>1 DEF Existing

LEMMA ImportGroupKeeps ==
  ASSUME IInv, UNCHANGED info, ImportGroup
  PROVE  IInv'
<1> DEFINE g == CHOOSE h \in job.left : \A k \in job.left : h <= k
           pair == job.pairs[g]
           existing == Existing(g)
           run == Ingested(existing, pair)
           same == IF P!Id(run) \in DOMAIN job.cand.index
                   THEN job.cand.runs[job.cand.index[P!Id(run)]] ELSE NoRun
           merge == Merge(run, existing, same)
<1>1. /\ job # NoJob /\ job.left # {}
      /\ UNCHANGED <<disk, profile, failed, aliases, current, offered>>
      /\ \/ /\ run = NoRun
            /\ job' = [job EXCEPT !.left = @ \ {g}, !.issues = @ \cup FilesOf(pair)]
         \/ run # NoRun /\ Refused(pair)
         \/ run # NoRun /\ Joined(g, pair, existing, run, merge)
  BY DEF ImportGroup
<1>2. JobOK BY <1>1 DEF IInv
<1>3. g \in job.left BY <1>1, <1>2, LeastExists DEF JobOK
<1> HIDE DEF g
<1>4. PairOK(g, pair) BY <1>2, <1>3 DEF JobOK
<1>5. run = NoRun \/ run \in Lemmas!Runs
  <2>1. info \in Infos BY DEF IInv, World
  <2>2. existing = NoRun \/ existing \in Lemmas!Runs BY <1>2, ExistingTyped
  <2> HIDE DEF existing, pair
  <2>3. QED BY <1>4, <2>1, <2>2, IngestedTyped
<1>6. Lemmas!ProfileInv(job.cand) BY <1>2 DEF JobOK
<1> HIDE DEF pair, existing, run, merge
<1>7. pair = job.pairs[g] BY DEF pair
<1>8. ASSUME NEW left, NEW issues,
             job' = [job EXCEPT !.left = left, !.issues = issues],
             left \subseteq job.left, job.left \ {g} \subseteq left,
             job.issues \cup FilesOf(pair) \subseteq issues
      PROVE  IInv'
  <2>1. /\ job' = [mode |-> job.mode, scanned |-> job.scanned, issues |-> job'.issues,
                   pairs |-> job.pairs, left |-> job'.left, known |-> job'.known,
                   cand |-> job'.cand, added |-> job'.added, enriched |-> job'.enriched,
                   rekeyed |-> job'.rekeyed, found |-> job'.found]
        /\ job'.left = left /\ job'.issues = issues
        /\ job'.cand = job.cand /\ job'.found = job.found
    BY <1>2, <1>8 DEF JobOK
  <2>2. QED BY <1>1, <1>3, <1>6, <1>7, <1>8, <2>1, TurnKeeps
<1>9. CASE job' = [job EXCEPT !.left = @ \ {g}, !.issues = @ \cup FilesOf(pair)]
  BY <1>8, <1>9
<1>10. CASE Refused(pair)
  <2>1. {Group(f) : f \in FilesOf(pair)} \subseteq {g} BY <1>4 DEF PairOK
  <2> DEFINE left == job.left \ {Group(f) : f \in FilesOf(pair)}
             issues == job.issues \cup FilesOf(pair)
  <2>2. job' = [job EXCEPT !.left = left, !.issues = issues] BY <1>10 DEF Refused
  <2>3. left \subseteq job.left /\ job.left \ {g} \subseteq left BY <2>1
  <2> HIDE DEF left
  <2>4. QED BY <1>8, <2>2, <2>3
<1>11. CASE run # NoRun /\ Joined(g, pair, existing, run, merge)
  <2> DEFINE requested == FilesOf(pair) \cap SourcesOf(run)
             previous == IF existing = NoRun THEN P!NoId ELSE P!Id(existing)
             rekeyed == existing # NoRun /\ P!Id(existing) # P!Id(run)
             found == IF rekeyed THEN Followed(job.found, P!Id(existing), P!Id(run)) ELSE job.found
  <2>1. /\ job' = [mode |-> job.mode, scanned |-> job.scanned, issues |-> job'.issues,
                   pairs |-> job.pairs, left |-> job'.left, known |-> job'.known,
                   cand |-> job'.cand, added |-> job'.added, enriched |-> job'.enriched,
                   rekeyed |-> job'.rekeyed, found |-> job'.found]
        /\ job'.left = job.left \ {g}
        /\ job'.issues = job.issues \cup (FilesOf(pair) \ SourcesOf(run))
        /\ job'.cand = P!MergeImportedRun(job.cand, run, previous)
        /\ job'.found = [f \in DOMAIN found \cup requested |->
                           IF f \in requested THEN P!Id(run) ELSE found[f]]
    BY <1>2, <1>11 DEF Joined, JobOK
  <2>2. DOMAIN found = DOMAIN job.found BY DEF Followed
  <2> HIDE DEF requested, previous, found
  <2>3. DOMAIN job'.found = DOMAIN job.found \cup requested BY <2>1, <2>2
  <2>4. /\ Lemmas!ProfileInv(job'.cand)
        /\ \A f \in Files : InRun(job.cand, f) => InRun(job'.cand, f)
    BY <1>5, <1>6, <1>11, <2>1, MergeKeepsFiles
  <2>5. FilesOf(pair) \subseteq job'.issues \cup DOMAIN job'.found
    BY <2>1, <2>3 DEF requested
  <2>6. QED BY <1>1, <1>3, <1>7, <2>1, <2>3, <2>4, <2>5, TurnKeeps
<1>12. QED BY <1>1, <1>9, <1>10, <1>11

LEMMA AcceptKeeps ==
  ASSUME IInv, UNCHANGED info, Accept
  PROVE  IInv'
<1>1. /\ job # NoJob /\ job.left = {} /\ job' = NoJob /\ UNCHANGED disk
      /\ profile' = job.cand
      /\ failed' = [f \in Files |-> IF f \in job.issues THEN job.scanned[f] ELSE "None"]
      /\ offered' = {f \in Files : job.scanned[f] # "Absent"}
      /\ DOMAIN aliases' = DOMAIN aliases \cup DOMAIN job.found
  BY DEF Accept, AcceptAliases
<1>2. JobOK BY <1>1 DEF IInv
<1>3. World' BY <1>1, <1>2 DEF IInv, World, JobOK
<1>4. Accounted'
  <2> SUFFICES ASSUME NEW f \in Files, job.scanned[f] # "Absent"
               PROVE  \/ f \in DOMAIN aliases'
                      \/ failed'[f] # "None"
                      \/ \E i \in Positions(profile') : f \in SourcesOf(profile'.runs[i])
    BY <1>1 DEF Accounted
  <2>1. OnItsWay(f) BY <1>2 DEF JobOK
  <2>2. CASE f \in job.issues
    <3>1. job.scanned[f] \in DiskStates BY <1>2 DEF JobOK
    <3>2. QED BY <1>1, <2>2, <3>1 DEF DiskStates
  <2>3. CASE f \in DOMAIN job.found \/ f \in DOMAIN aliases BY <1>1, <2>3
  <2>4. CASE job.mode # "Rebuild" /\ InRun(profile, f)
    <3>1. InRun(job.cand, f) BY <1>2, <2>4 DEF JobOK
    <3>2. QED BY <1>1, <3>1 DEF InRun
  <2>5. QED BY <1>1, <2>1, <2>2, <2>3, <2>4 DEF OnItsWay
<1>5. QED BY <1>1, <1>3, <1>4 DEF IInv

LEMMA InvStep == IInv /\ [Next]_vars => IInv'
<1> SUFFICES ASSUME IInv, [Next]_vars PROVE IInv'
  OBVIOUS
<1>1. CASE UNCHANGED vars
  <2>1. World' BY <1>1 DEF IInv, World, vars
  <2>2. QED BY <1>1, <2>1, OutsideKeeps DEF vars
<1>2. ASSUME NEW mode, Scan(mode), UNCHANGED info PROVE IInv' BY <1>2, ScanKeeps
<1>3. CASE UNCHANGED info /\ ImportGroup BY <1>3, ImportGroupKeeps
<1>4. CASE UNCHANGED info /\ Accept BY <1>4, AcceptKeeps
<1>5. CASE UNCHANGED info /\ Abandon
  <2>1. World' /\ Accounted' BY <1>5 DEF Abandon, IInv, World, Accounted
  <2>2. QED BY <1>5, <2>1 DEF Abandon, IInv
<1>6. ASSUME NEW id, SelectRun(id), UNCHANGED info PROVE IInv'
  <2>1. World' BY <1>6 DEF SelectRun, IInv, World
  <2>2. QED BY <1>6, <2>1, OutsideKeeps DEF SelectRun
<1>7. CASE UNCHANGED info /\ Restart
  <2>1. World' /\ Accounted' BY <1>7 DEF Restart, IInv, World, Accounted
  <2>2. QED BY <1>7, <2>1 DEF Restart, IInv
<1>8. CASE /\ UNCHANGED info
           /\ \/ \E f \in Files : \E state \in {"Partial", "Complete"} : FileAppears(f, state)
              \/ \E f \in Files : FileCompletes(f)
  BY <1>8, FilesKeep
<1>9. QED BY <1>1, <1>2, <1>3, <1>4, <1>5, <1>6, <1>7, <1>8 DEF Next

\* Nothing an accepted import has found is forgotten, in whatever order files came, pairs were
\* refused, runs were re-keyed and imports were abandoned (ProfileImporter::run, acceptImport).
THEOREM NothingFoundIsForgotten == Spec => []Accounted
<1>1. IInv => Accounted BY DEF IInv
<1>2. QED BY <1>1, InvInit, InvStep, PTL DEF Spec

\* The profile an import accepts is well-formed: its index, its histories and its latest run are
\* those of its runs, although the importer merges into a copy of its own.
THEOREM AcceptedIsWellFormed ==
  Spec => [](P!IndexExactIn(profile) /\ P!LatestExactIn(profile))
<1>1. IInv => P!IndexExactIn(profile) /\ P!LatestExactIn(profile)
  <2> SUFFICES ASSUME IInv PROVE P!IndexExactIn(profile) /\ P!LatestExactIn(profile)
    OBVIOUS
  <2>1. Lemmas!IndexExactIn(profile) /\ Lemmas!LatestExactIn(profile)
    BY DEF IInv, World, Lemmas!ProfileInv
  <2>2. P!Positions(profile) = Lemmas!Positions(profile) /\ \A run : P!Id(run) = Lemmas!Id(run)
    BY SameOperators
  <2>3. P!IndexExactIn(profile) BY <2>1, <2>2 DEF P!IndexExactIn, Lemmas!IndexExactIn
  <2>4. P!LatestExactIn(profile)
    BY <2>1, <2>2, Zenon DEF P!LatestExactIn, Lemmas!LatestExactIn, P!None, Lemmas!None
  <2>5. QED BY <2>3, <2>4
<1>2. QED BY <1>1, InvInit, InvStep, PTL DEF Spec

-----------------------------------------------------------------------------
(* What ties a file to a run: the halves of a recording are brought         *)
(* together by what they tell of its start.                                 *)

\* The performance of a file's recording.
Mates(f) == {h \in DOMAIN info : /\ info[h].group = info[f].group
                                 /\ info[h].scenario = info[f].scenario
                                 /\ info[h].half = "perf"}

\* A file tells an identity: its own start says so, or its performance does.
Tells(f, id) ==
  /\ info[f].scenario = id.scenario
  /\ info[f].start = id.start \/ \A h \in Mates(f) : info[h].start = id.start

\* A run has the identity its performance gives it, or else its CSV.
RunOK(run) ==
  /\ run.perf # NoSource =>
       /\ run.perf \in DOMAIN info /\ info[run.perf].half = "perf"
       /\ info[run.perf].scenario = run.scenario
       /\ info[run.perf].start = run.start /\ info[run.perf].length = run.length
  /\ run.csv # NoSource =>
       /\ run.csv \in DOMAIN info /\ info[run.csv].half = "csv"
       /\ Tells(run.csv, P!Id(run))
  /\ run.perf = NoSource =>
       /\ run.csv # NoSource /\ info[run.csv].start # NoStart
       /\ info[run.csv].start = run.start /\ info[run.csv].length = run.length

RunsOK(p) == \A i \in Positions(p) : RunOK(p.runs[i])

\* The halves of a group are in one run.
Together(p) == \A i, j \in Positions(p) :
  (\E f \in SourcesOf(p.runs[i]), h \in SourcesOf(p.runs[j]) : Group(f) = Group(h)) => i = j

LEMMA IdFields ==
  ASSUME NEW run
  PROVE  P!Id(run).scenario = run.scenario /\ P!Id(run).start = run.start
BY DEF P!Id

LEMMA IdsEqual ==
  ASSUME NEW a, NEW b
  PROVE  P!Id(a) = P!Id(b) <=> a.scenario = b.scenario /\ a.start = b.start
BY DEF P!Id

LEMMA TwoHalves ==
  ASSUME info \in Infos, NEW f \in DOMAIN info, NEW h \in DOMAIN info,
         Group(f) = Group(h), info[f].half = info[h].half
  PROVE  f = h
BY InfosAssumption DEF Group

\* Two files that tell the same start of a scenario are of recordings that started together.
LEMMA OneStart ==
  ASSUME info \in Infos, NEW f \in DOMAIN info, NEW h \in DOMAIN info,
         info[f].scenario = info[h].scenario, info[f].start = info[h].start,
         info[f].start # NoStart, NEW a \in Mates(f), NEW b \in Mates(h)
  PROVE  info[a].start = info[b].start
BY OneAtATimeAssumption DEF Mates

LEMMA OwnMate ==
  ASSUME NEW f \in DOMAIN info, info[f].half = "perf"
  PROVE  f \in Mates(f)
BY DEF Mates

\* The one performance a CSV can have.
LEMMA OnlyMate ==
  ASSUME info \in Infos, NEW f \in DOMAIN info, NEW k \in DOMAIN info,
         Group(k) = Group(f), info[k].half = "perf"
  PROVE  \A h \in Mates(f) : h = k
BY TwoHalves DEF Mates, Group

\* A run whose CSV told another start than its performance: every file that led to the old
\* identity leads to the new one.
LEMMA TellsShifts ==
  ASSUME info \in Infos, NEW id, NEW f \in DOMAIN info, Tells(f, id), id.start # NoStart,
         NEW k \in Mates(f), info[k].start # id.start,
         NEW new, new.scenario = id.scenario, new.start = info[k].start,
         NEW h \in DOMAIN info, Tells(h, id)
  PROVE  Tells(h, new)
<1>1. info[f].start = id.start /\ info[f].scenario = id.scenario BY DEF Tells
<1>2. info[h].scenario = id.scenario BY DEF Tells
<1>3. CASE info[h].start = id.start
  <2>1. \A b \in Mates(h) : info[k].start = info[b].start BY <1>1, <1>2, <1>3, OneStart
  <2>2. QED BY <1>2, <2>1 DEF Tells
<1>4. CASE info[h].start # id.start
  <2>1. \A b \in Mates(h) : info[b].start = id.start BY <1>4 DEF Tells
  <2>2. ASSUME NEW b \in Mates(h) PROVE FALSE
    <3>1. b \in DOMAIN info /\ info[b].half = "perf" /\ info[b].scenario = id.scenario
      BY <1>2 DEF Mates
    <3>2. b \in Mates(b) BY <3>1, OwnMate
    <3>3. info[f].start = info[b].start /\ info[f].start # NoStart /\ info[f].scenario = info[b].scenario
      BY <1>1, <2>1, <3>1
    <3>4. info[k].start = info[b].start BY <3>1, <3>2, <3>3, OneStart
    <3>5. QED BY <2>1, <3>4
  <2>3. QED BY <1>2, <2>2 DEF Tells
<1>5. QED BY <1>3, <1>4

\* A CSV and the performance it comes with tell the same.
LEMMA PairTells ==
  ASSUME info \in Infos, NEW c \in DOMAIN info, NEW k \in DOMAIN info,
         Group(k) = Group(c), info[k].half = "perf",
         NEW id, info[c].scenario = id.scenario, info[k].start = id.start
  PROVE  Tells(c, id)
BY OnlyMate DEF Tells

\* What a run becomes when a pair is read into it.
Took(existing, pair, run) ==
  /\ run.scenario = existing.scenario
  /\ \/ run.perf = existing.perf /\ run.start = existing.start /\ run.length = existing.length
     \/ /\ pair.perf # NoSource /\ run.perf = pair.perf
        /\ info[pair.perf].scenario = run.scenario
        /\ run.start = info[pair.perf].start /\ run.length = info[pair.perf].length
  /\ \/ run.csv = existing.csv
     \/ pair.csv # NoSource /\ run.csv = pair.csv /\ info[pair.csv].scenario = run.scenario

LEMMA PairFiles ==
  ASSUME NEW g, NEW pair, PairOK(g, pair)
  PROVE  /\ pair.perf # NoSource => /\ pair.perf \in DOMAIN info /\ Group(pair.perf) = g
                                    /\ info[pair.perf].half = "perf" /\ pair.perf \in FilesOf(pair)
         /\ pair.csv # NoSource => /\ pair.csv \in DOMAIN info /\ Group(pair.csv) = g
                                   /\ info[pair.csv].half = "csv" /\ pair.csv \in FilesOf(pair)
BY DEF PairOK, FilesOf

LEMMA IngestedMore ==
  ASSUME info \in Infos, NEW existing \in Lemmas!Runs, NEW g, NEW pair, PairOK(g, pair)
  PROVE  Took(existing, pair, Ingested(existing, pair))
<1>1. \A f \in DOMAIN info : info[f].scenario # "None"
  BY FileTyped, ScenariosAssumption
<1>2. existing # NoRun
  BY ScenariosAssumption DEF Lemmas!Runs, NoRun
<1> DEFINE r == PerfTaken(existing, pair.perf)
<1>3. \/ r = existing
      \/ /\ pair.perf # NoSource /\ info[pair.perf].scenario = existing.scenario
         /\ r = [scenario |-> info[pair.perf].scenario, start |-> info[pair.perf].start,
                 length |-> info[pair.perf].length, perf |-> pair.perf, csv |-> existing.csv]
  BY <1>2 DEF PerfTaken
<1>4. r # NoRun
  <2>1. pair.perf # NoSource => info[pair.perf].scenario # "None" BY <1>1, PairFiles
  <2>2. NoRun.scenario = "None" BY DEF NoRun
  <2>3. QED BY <1>2, <1>3, <2>1, <2>2
<1>5. /\ r.scenario = existing.scenario /\ r.csv = existing.csv
      /\ r = [scenario |-> r.scenario, start |-> r.start, length |-> r.length,
              perf |-> r.perf, csv |-> r.csv]
      /\ \/ r.perf = existing.perf /\ r.start = existing.start /\ r.length = existing.length
         \/ /\ pair.perf # NoSource /\ r.perf = pair.perf /\ info[pair.perf].scenario = r.scenario
            /\ r.start = info[pair.perf].start /\ r.length = info[pair.perf].length
  BY <1>3 DEF Lemmas!Runs
<1> HIDE DEF r
<1> DEFINE run == CsvTaken(r, pair.csv)
<1>6. \/ run = r
      \/ /\ pair.csv # NoSource /\ info[pair.csv].scenario = r.scenario
         /\ run = [r EXCEPT !.csv = pair.csv]
  BY <1>4 DEF CsvTaken
<1>7. Ingested(existing, pair) = run BY DEF Ingested, r
<1> HIDE DEF run
<1>8. Took(existing, pair, run)
  <2>1. CASE run = r BY <1>5, <2>1 DEF Took
  <2>2. CASE run # r
    <3>1. /\ run.scenario = r.scenario /\ run.start = r.start /\ run.length = r.length
          /\ run.perf = r.perf /\ run.csv = pair.csv
      BY <1>5, <1>6, <2>2
    <3>2. QED BY <1>5, <1>6, <2>2, <3>1 DEF Took
  <2>3. QED BY <2>1, <2>2
<1>9. QED BY <1>7, <1>8

LEMMA IngestedNew ==
  ASSUME info \in Infos, NEW g, NEW pair, PairOK(g, pair), Ingested(NoRun, pair) # NoRun
  PROVE  LET run == Ingested(NoRun, pair) IN
         /\ RunOK(run) /\ SourcesOf(run) \subseteq FilesOf(pair)
         /\ \A f \in SourcesOf(run) : Tells(f, P!Id(run))
<1> DEFINE r == PerfTaken(NoRun, pair.perf)
           run == CsvTaken(r, pair.csv)
           p == pair.perf
           c == pair.csv
<1>0. /\ \A f \in DOMAIN info : info[f].scenario # "None"
      /\ NoRun.scenario = "None" /\ NoRun.perf = NoSource /\ NoRun.csv = NoSource
  BY FileTyped, ScenariosAssumption DEF NoRun
<1>1. \/ r = NoRun
      \/ /\ p # NoSource
         /\ r = [scenario |-> info[p].scenario, start |-> info[p].start,
                 length |-> info[p].length, perf |-> p, csv |-> NoSource]
  BY <1>0 DEF PerfTaken
<1>2. Ingested(NoRun, pair) = run /\ run # NoRun BY DEF Ingested
<1>3. CASE r = NoRun
  <2>1. /\ c # NoSource /\ info[c].start # NoStart
        /\ run = [scenario |-> info[c].scenario, start |-> info[c].start,
                  length |-> info[c].length, perf |-> NoSource, csv |-> c]
    BY <1>2, <1>3 DEF CsvTaken
  <2>2. c \in DOMAIN info /\ info[c].half = "csv" /\ c \in FilesOf(pair) BY <2>1, PairFiles
  <2> HIDE DEF run, r, p, c
  <2>3. /\ run.scenario = info[c].scenario /\ run.start = info[c].start
        /\ run.length = info[c].length /\ run.perf = NoSource /\ run.csv = c
    BY <2>1
  <2>4. Tells(c, P!Id(run)) BY <2>3, IdFields DEF Tells
  <2>5. RunOK(run) BY <2>1, <2>2, <2>3, <2>4 DEF RunOK
  <2>6. SourcesOf(run) = {c} BY <2>1, <2>3 DEF SourcesOf
  <2>7. QED BY <1>2, <2>2, <2>4, <2>5, <2>6
<1>4. CASE r # NoRun
  <2>1. /\ p # NoSource
        /\ r = [scenario |-> info[p].scenario, start |-> info[p].start,
                length |-> info[p].length, perf |-> p, csv |-> NoSource]
    BY <1>1, <1>4
  <2>2. /\ p \in DOMAIN info /\ info[p].half = "perf" /\ p \in FilesOf(pair) /\ Group(p) = g
    BY <2>1, PairFiles
  <2> HIDE DEF r
  <2>3. \/ run = r
        \/ c # NoSource /\ info[c].scenario = r.scenario /\ run = [r EXCEPT !.csv = c]
    BY <1>4 DEF CsvTaken
  <2> HIDE DEF run, p, c
  <2>4. /\ run.scenario = info[p].scenario /\ run.start = info[p].start
        /\ run.length = info[p].length /\ run.perf = p
        /\ run.csv = NoSource \/ (run.csv = c /\ c # NoSource /\ info[c].scenario = run.scenario)
    BY <2>1, <2>3
  <2>5. Tells(p, P!Id(run)) BY <2>4, IdFields DEF Tells
  <2>6. run.csv # NoSource => /\ c \in DOMAIN info /\ info[c].half = "csv" /\ c \in FilesOf(pair)
                              /\ Tells(c, P!Id(run))
    <3>1. HAVE run.csv # NoSource
    <3>2. c \in DOMAIN info /\ info[c].half = "csv" /\ c \in FilesOf(pair) /\ Group(c) = g
      BY <2>4, <3>1, PairFiles DEF c
    <3>3. info[c].scenario = P!Id(run).scenario /\ info[p].start = P!Id(run).start
      BY <2>4, <3>1, IdFields
    <3>4. QED BY <2>2, <3>2, <3>3, PairTells
  <2>7. RunOK(run) BY <2>1, <2>2, <2>4, <2>6 DEF RunOK
  <2>8. SourcesOf(run) \subseteq {p, c} \ {NoSource} /\ (c \in SourcesOf(run) => run.csv # NoSource \/ c = p)
    BY <2>1, <2>4 DEF SourcesOf
  <2>9. \A f \in SourcesOf(run) : f \in FilesOf(pair) /\ Tells(f, P!Id(run))
    <3>1. TAKE f \in SourcesOf(run)
    <3>2. CASE f = p BY <2>2, <2>5, <3>2
    <3>3. CASE f # p BY <2>6, <2>8, <3>3
    <3>4. QED BY <3>2, <3>3
  <2>10. QED BY <1>2, <2>7, <2>9
<1>5. QED BY <1>3, <1>4

\* The run a group is known by, if the candidate has it.
LEMMA ExistingIs ==
  ASSUME JobOK, NEW g
  PROVE  \/ /\ Existing(g) = NoRun
            /\ ~(g \in DOMAIN job.known /\ job.known[g] \in DOMAIN job.cand.index)
         \/ \E e \in Positions(job.cand) :
              /\ Existing(g) = job.cand.runs[e] /\ Existing(g) \in Lemmas!Runs
              /\ Existing(g) # NoRun
              /\ g \in DOMAIN job.known /\ job.known[g] = P!Id(job.cand.runs[e])
<1>1. CASE g \in DOMAIN job.known /\ job.known[g] \in DOMAIN job.cand.index
  <2> DEFINE p == job.cand
             i == p.index[job.known[g]]
  <2>1. Lemmas!IndexExactIn(p) /\ Lemmas!Shaped(p) BY DEF JobOK, Lemmas!ProfileInv
  <2>2. /\ DOMAIN p.index = {P!Id(p.runs[j]) : j \in Positions(p)}
        /\ \A j \in Positions(p) : p.index[P!Id(p.runs[j])] = j
    BY <2>1, SameOperators DEF Lemmas!IndexExactIn, Positions
  <2>3. i \in Positions(p) /\ job.known[g] = P!Id(p.runs[i]) BY <1>1, <2>2
  <2>4. p.runs[i] \in Lemmas!Runs
    BY <2>1, <2>3, Lemmas!RunsTyped, SameOperators DEF Positions
  <2>5. \A run \in Lemmas!Runs : run # NoRun
    BY ScenariosAssumption DEF Lemmas!Runs, NoRun
  <2>6. QED BY <1>1, <2>3, <2>4, <2>5 DEF Existing
<1>2. CASE ~(g \in DOMAIN job.known /\ job.known[g] \in DOMAIN job.cand.index)
  BY <1>2 DEF Existing
<1>3. QED BY <1>1, <1>2

\* A merge brings the halves an old run lacks; a performance brings its identity.
TakesHalf(old, run) ==
  \/ old.perf = NoSource /\ run.perf # NoSource
  \/ old.csv = NoSource /\ run.csv # NoSource

Grown(old, run, new) ==
  /\ new.scenario = old.scenario
  /\ IF old.perf = NoSource /\ run.perf # NoSource
     THEN new.perf = run.perf /\ new.start = run.start /\ new.length = run.length
     ELSE /\ new.perf = old.perf /\ new.start = old.start
          /\ old.perf # NoSource \/ old.csv # NoSource => new.length = old.length
  /\ new.csv = IF old.csv = NoSource /\ run.csv # NoSource THEN run.csv ELSE old.csv

\* One position of a profile has become "new"; the others are as they were.
Replaced(p, q, i, new) ==
  /\ Positions(q) = Positions(p) \cup {i}
  /\ q.runs[i] = new
  /\ \A j \in Positions(p) : j # i => q.runs[j] = p.runs[j]

LEMMA MergeGrows ==
  ASSUME NEW p, Lemmas!ProfileInv(p), NEW run \in Lemmas!Runs, NEW previous,
         P!MergeResult(p, run, previous) # "Conflict"
  PROVE  LET result == P!MergeResult(p, run, previous)
             q == P!MergeImportedRun(p, run, previous) IN
         \E i, new :
           /\ Replaced(p, q, i, new)
           /\ \/ /\ result = "Added" /\ previous = P!NoId
                 /\ i \notin Positions(p) /\ new = run
              \/ /\ i \in Positions(p) /\ result # "Added"
                 /\ P!Id(p.runs[i]) = IF previous = P!NoId THEN P!Id(run) ELSE previous
                 /\ p.runs[i].scenario = run.scenario
                 /\ (result = "Enriched") <=> TakesHalf(p.runs[i], run)
                 /\ IF result = "Enriched" THEN Grown(p.runs[i], run, new) ELSE new = p.runs[i]
<1> DEFINE result == P!MergeResult(p, run, previous)
           q == P!MergeImportedRun(p, run, previous)
           key == Lemmas!Key(run, previous)
<1>1. result = Lemmas!MergeResult(p, run, previous) /\ q = Lemmas!MergeImportedRun(p, run, previous)
  BY SameMerge
<1>2. /\ result \in {"Added", "Enriched", "Unchanged", "Conflict"}
      /\ result = "Added" => previous = Lemmas!NoId /\ q.runs = Append(p.runs, run)
      /\ result \in {"Enriched", "Unchanged"} =>
           \E i \in Lemmas!Positions(p) :
             /\ Lemmas!Id(p.runs[i]) = key /\ p.runs[i].scenario = run.scenario
             /\ (result = "Enriched") <=>
                  Lemmas!TakesPerf(p.runs[i], run) \/ Lemmas!TakesCsv(p.runs[i], run)
             /\ result = "Enriched" =>
                  q.runs = [p.runs EXCEPT ![i] = Lemmas!Merged(p.runs[i], run)]
      /\ result \in {"Unchanged", "Conflict"} => q = p
  BY <1>1, Lemmas!ImportRuns
<1>3. /\ Positions(p) = Lemmas!Positions(p) /\ Positions(q) = 1 .. Len(q.runs)
      /\ Positions(p) = 1 .. Len(p.runs) /\ Len(p.runs) \in Nat /\ DOMAIN p.runs = Positions(p)
      /\ p.runs \in Seq(Lemmas!Runs)
  <2>1. Lemmas!Shaped(p) BY DEF Lemmas!ProfileInv
  <2>2. /\ Len(p.runs) \in Nat /\ DOMAIN p.runs = Lemmas!Positions(p)
        /\ p.runs \in Seq(Lemmas!Runs)
    BY <2>1, Lemmas!RunsTyped DEF Lemmas!Shaped
  <2>3. Positions(p) = Lemmas!Positions(p) BY SameOperators DEF Positions
  <2>4. \A r : Positions(r) = 1 .. Len(r.runs) BY DEF Positions, P!Positions
  <2>5. QED BY <2>2, <2>3, <2>4
<1>4. P!NoId = Lemmas!NoId /\ \A r : P!Id(r) = Lemmas!Id(r)
  BY SameOperators DEF P!NoId, Lemmas!NoId
<1> HIDE DEF result, q, key
<1>5. CASE result = "Added"
  <2>1. q.runs = Append(p.runs, run) /\ previous = P!NoId BY <1>2, <1>4, <1>5
  <2> DEFINE i == Len(p.runs) + 1
  <2>2. /\ Len(q.runs) = i /\ q.runs[i] = run
        /\ \A j \in 1 .. Len(p.runs) : q.runs[j] = p.runs[j]
    BY <1>3, <2>1
  <2>3. 1 .. i = 1 .. Len(p.runs) \cup {i} /\ i \notin 1 .. Len(p.runs) BY <1>3
  <2>4. Replaced(p, q, i, run) BY <1>3, <2>2, <2>3 DEF Replaced
  <2>5. i \notin Positions(p) BY <1>3, <2>3
  <2> HIDE DEF i
  <2>6. QED BY <1>5, <2>1, <2>4, <2>5 DEF result, q
<1>6. CASE result = "Enriched"
  <2>1. PICK i \in Positions(p) :
          /\ Lemmas!Id(p.runs[i]) = key /\ p.runs[i].scenario = run.scenario
          /\ Lemmas!TakesPerf(p.runs[i], run) \/ Lemmas!TakesCsv(p.runs[i], run)
          /\ q.runs = [p.runs EXCEPT ![i] = Lemmas!Merged(p.runs[i], run)]
    BY <1>2, <1>3, <1>6
  <2> DEFINE old == p.runs[i]
             new == Lemmas!Merged(old, run)
  <2>2. Grown(old, run, new)
    BY DEF Grown, Lemmas!Merged, Lemmas!TakesPerf, Lemmas!TakesCsv
  <2>3. TakesHalf(old, run) BY <2>1 DEF TakesHalf, Lemmas!TakesPerf, Lemmas!TakesCsv
  <2>4. P!Id(old) = IF previous = P!NoId THEN P!Id(run) ELSE previous
    BY <1>4, <2>1 DEF key, Lemmas!Key
  <2>5. old.scenario = run.scenario BY <2>1
  <2> HIDE DEF new
  <2>6. /\ Len(q.runs) = Len(p.runs) /\ q.runs[i] = new
        /\ \A j \in Positions(p) : j # i => q.runs[j] = p.runs[j]
    BY <1>3, <2>1 DEF new
  <2>7. Replaced(p, q, i, new) BY <1>3, <2>6 DEF Replaced
  <2> HIDE DEF old
  <2>8. QED BY <1>6, <2>2, <2>3, <2>4, <2>5, <2>7 DEF result, q, old
<1>7. CASE result = "Unchanged"
  <2>1. PICK i \in Positions(p) :
          /\ Lemmas!Id(p.runs[i]) = key /\ p.runs[i].scenario = run.scenario
          /\ ~ (Lemmas!TakesPerf(p.runs[i], run) \/ Lemmas!TakesCsv(p.runs[i], run))
    BY <1>2, <1>3, <1>7
  <2>2. ~TakesHalf(p.runs[i], run) BY <2>1 DEF TakesHalf, Lemmas!TakesPerf, Lemmas!TakesCsv
  <2>3. P!Id(p.runs[i]) = IF previous = P!NoId THEN P!Id(run) ELSE previous
    BY <1>4, <2>1 DEF key, Lemmas!Key
  <2>4. q = p BY <1>2, <1>7
  <2>5. Replaced(p, q, i, p.runs[i]) BY <2>4 DEF Replaced
  <2>6. QED BY <1>7, <2>1, <2>2, <2>3, <2>5 DEF result, q
<1>8. QED BY <1>2, <1>5, <1>6, <1>7 DEF result

-----------------------------------------------------------------------------
(* The second invariant: what leads to a run, and what was said of it.      *)

\* A file that is in a run is known by the run's identity (AliasesLead); any other by one it tells.
AliasesTell == \A f \in DOMAIN aliases : f \in DOMAIN info /\ Tells(f, aliases[f])

Baseline == Base(job.mode)

\* A group that is left is known by the run it has a file in, through a file that is not
\* about to be read; and nothing of what is about to be read is in a run.
KnownLeads == \A g \in job.left : \A i \in Positions(job.cand) :
  (\E f \in SourcesOf(job.cand.runs[i]) : Group(f) = g)
    => g \in DOMAIN job.known /\ job.known[g] = P!Id(job.cand.runs[i])
KnownTells == \A g \in job.left \cap DOMAIN job.known :
  \E f \in DOMAIN info : /\ f \notin FilesOf(job.pairs[g])
                         /\ Group(f) = g /\ Tells(f, job.known[g])
PairsNew == \A g \in job.left : \A i \in Positions(job.cand) :
  FilesOf(job.pairs[g]) \cap SourcesOf(job.cand.runs[i]) = {}

\* What this import found leads to the run it is in, and only that has changed the runs.
FoundLeads == \A f \in DOMAIN job.found :
  /\ f \in DOMAIN info /\ Tells(f, job.found[f])
  /\ \A i \in Positions(job.cand) :
       f \in SourcesOf(job.cand.runs[i]) => job.found[f] = P!Id(job.cand.runs[i])
FoundOrOld == \A i \in Positions(job.cand) : \A f \in SourcesOf(job.cand.runs[i]) :
  f \in DOMAIN job.found \/ (i \in Positions(Baseline) /\ f \in SourcesOf(Baseline.runs[i]))

Ids == [scenario : Scenarios, start : Nat]

\* The re-keyings, applied to what was known before, lead to the runs as they are.
RekeysTell == \A k \in DOMAIN job.rekeyed :
  /\ job.rekeyed[k][1] # job.rekeyed[k][2]
  /\ \A f \in DOMAIN info : Tells(f, job.rekeyed[k][1]) => Tells(f, job.rekeyed[k][2])
RunsFollowed == \A i \in Positions(Baseline) :
  LET old == Baseline.runs[i]
      new == job.cand.runs[i] IN
  /\ i \in Positions(job.cand)
  /\ Rekeyed(job.rekeyed, P!Id(old)) = P!Id(new)
  /\ Selected(P!Id(old), job.rekeyed) = P!Id(new)
  /\ P!Id(new) # P!Id(old) => new.perf # NoSource
  /\ old.perf # NoSource => new.perf # NoSource
  /\ old.csv # NoSource => new.csv # NoSource

\* What is counted are the runs that are new and those that have changed.
Counts ==
  /\ job.added = {P!Id(job.cand.runs[i]) : i \in Positions(job.cand) \ Positions(Baseline)}
  /\ job.enriched = {P!Id(job.cand.runs[i]) :
                       i \in {i \in Positions(Baseline) : job.cand.runs[i] # Baseline.runs[i]}}

JobLinks ==
  /\ RunsOK(job.cand) /\ Together(job.cand)
  /\ KnownLeads /\ KnownTells /\ PairsNew
  /\ FoundLeads /\ FoundOrOld
  /\ job.rekeyed \in Seq(Ids \X Ids) /\ RekeysTell /\ RunsFollowed
  /\ Counts

Links ==
  /\ RunsOK(profile) /\ Together(profile) /\ AliasesLead /\ AliasesTell
  /\ job # NoJob => JobLinks

\* What one turn of the loop does to the runs: run i becomes "new" under the identity that
\* was read; no other run has a file of the group.
Turned(g, pair, existing, run, merge, q, i, new) ==
  LET id == P!Id(run)
      old == job.cand.runs[i]
      requested == FilesOf(pair) \cap SourcesOf(run) IN
  /\ Replaced(job.cand, q, i, new)
  /\ RunOK(new) /\ P!Id(new) = id
  /\ \A f \in SourcesOf(new) : f \in requested \/ (i \in Positions(job.cand) /\ f \in SourcesOf(old))
  /\ \A j \in Positions(job.cand) : j # i => \A f \in SourcesOf(job.cand.runs[j]) : Group(f) # g
  /\ \A f \in requested : f \in DOMAIN info /\ Group(f) = g /\ Tells(f, id)
  /\ (merge = "Added") <=> i \notin Positions(job.cand)
  /\ i \in Positions(job.cand) =>
       /\ (merge = "Enriched") <=> new # old
       /\ new # old => \/ old.perf = NoSource /\ new.perf # NoSource
                       \/ old.csv = NoSource /\ new.csv # NoSource
       /\ old.perf # NoSource => new.perf # NoSource
       /\ old.csv # NoSource => new.csv # NoSource
  /\ IF existing # NoRun /\ P!Id(existing) # id
     THEN /\ i \in Positions(job.cand) /\ P!Id(existing) = P!Id(old)
          /\ old.perf = NoSource /\ new.perf # NoSource
          /\ \A h \in DOMAIN info : Tells(h, P!Id(old)) => Tells(h, id)
     ELSE i \in Positions(job.cand) => P!Id(old) = id

LEMMA GrownChanges ==
  ASSUME NEW old, NEW run, NEW new, Grown(old, run, new), TakesHalf(old, run)
  PROVE  /\ new # old
         /\ \/ old.perf = NoSource /\ new.perf # NoSource
            \/ old.csv = NoSource /\ new.csv # NoSource
         /\ old.perf # NoSource => new.perf # NoSource
         /\ old.csv # NoSource => new.csv # NoSource
BY DEF Grown, TakesHalf

\* The candidate's identities are one run's each.
LEMMA CandIds ==
  ASSUME NEW p, Lemmas!ProfileInv(p)
  PROVE  /\ DOMAIN p.index = {P!Id(p.runs[i]) : i \in Positions(p)}
         /\ \A i \in Positions(p) : p.index[P!Id(p.runs[i])] = i
         /\ \A i, j \in Positions(p) : P!Id(p.runs[i]) = P!Id(p.runs[j]) => i = j
         /\ \A i \in Positions(p) : p.runs[i] \in Lemmas!Runs
<1>1. Lemmas!IndexExactIn(p) /\ Lemmas!Shaped(p) BY DEF Lemmas!ProfileInv
<1>2. /\ DOMAIN p.index = {P!Id(p.runs[j]) : j \in Positions(p)}
      /\ \A j \in Positions(p) : p.index[P!Id(p.runs[j])] = j
  BY <1>1, SameOperators DEF Lemmas!IndexExactIn, Positions
<1>3. \A i \in Positions(p) : p.runs[i] \in Lemmas!Runs
  BY <1>1, Lemmas!RunsTyped, SameOperators DEF Positions
<1>4. \A i, j \in Positions(p) : P!Id(p.runs[i]) = P!Id(p.runs[j]) => i = j BY <1>2
<1>5. QED BY <1>2, <1>3, <1>4

\* A pair that belongs to no run of the candidate yet.
LEMMA TurnOfNew ==
  ASSUME IInv, JobOK, JobLinks, NEW g \in job.left, NEW pair, pair = job.pairs[g],
         Existing(g) = NoRun, ~(g \in DOMAIN job.known /\ job.known[g] \in DOMAIN job.cand.index),
         NEW run, run = Ingested(NoRun, pair), run # NoRun,
         NEW merge, merge = P!MergeResult(job.cand, run, P!NoId), merge # "Conflict"
  PROVE  \E i, new :
           Turned(g, pair, NoRun, run, merge, P!MergeImportedRun(job.cand, run, P!NoId), i, new)
<1> DEFINE id == P!Id(run)
           q == P!MergeImportedRun(job.cand, run, P!NoId)
<1>1. info \in Infos /\ Lemmas!ProfileInv(job.cand) /\ PairOK(g, pair)
  BY DEF IInv, World, JobOK
<1>2. /\ RunOK(run) /\ SourcesOf(run) \subseteq FilesOf(pair)
      /\ \A f \in SourcesOf(run) : Tells(f, P!Id(run))
  BY <1>1, IngestedNew
<1>3. run \in Lemmas!Runs BY <1>1, IngestedTyped
<1>4. \A j \in Positions(job.cand) : \A f \in SourcesOf(job.cand.runs[j]) : Group(f) # g
  <2>1. DOMAIN job.cand.index = {P!Id(job.cand.runs[i]) : i \in Positions(job.cand)}
    BY <1>1, CandIds
  <2>2. QED BY <2>1 DEF JobLinks, KnownLeads
<1>5. \A f \in FilesOf(pair) : f \in DOMAIN info /\ Group(f) = g BY <1>1 DEF PairOK
<1>6. PICK i, new :
        /\ Replaced(job.cand, q, i, new)
        /\ \/ merge = "Added" /\ i \notin Positions(job.cand) /\ new = run
           \/ /\ i \in Positions(job.cand) /\ merge # "Added"
              /\ P!Id(job.cand.runs[i]) = id
              /\ (merge = "Enriched") <=> TakesHalf(job.cand.runs[i], run)
              /\ IF merge = "Enriched" THEN Grown(job.cand.runs[i], run, new)
                 ELSE new = job.cand.runs[i]
  BY <1>1, <1>3, MergeGrows
<1> DEFINE old == job.cand.runs[i]
           requested == FilesOf(pair) \cap SourcesOf(run)
<1>7. \A f \in requested : f \in DOMAIN info /\ Group(f) = g /\ Tells(f, id)
  BY <1>2, <1>5
<1>8. CASE i \notin Positions(job.cand)
  <2>1. RunOK(new) /\ P!Id(new) = id /\ \A f \in SourcesOf(new) : f \in requested
    BY <1>2, <1>6, <1>8
  <2>2. merge = "Added" BY <1>6, <1>8
  <2> HIDE DEF id, q, requested, old
  <2>3. QED BY <1>4, <1>6, <1>7, <1>8, <2>1, <2>2 DEF Turned, id, q, requested
<1>9. CASE i \in Positions(job.cand)
  <2>1. /\ merge # "Added" /\ P!Id(old) = id
        /\ (merge = "Enriched") <=> TakesHalf(old, run)
        /\ IF merge = "Enriched" THEN Grown(old, run, new) ELSE new = old
    BY <1>6, <1>9
  <2>2. RunOK(old) BY <1>9 DEF JobLinks, RunsOK
  <2> HIDE DEF old
  <2>3. old.scenario = run.scenario /\ old.start = run.start BY <2>1, IdsEqual
  <2>4. RunOK(new) /\ P!Id(new) = id /\ \A f \in SourcesOf(new) : f \in requested \/ f \in SourcesOf(old)
    <3>1. CASE merge # "Enriched" BY <2>1, <2>2, <3>1
    <3>2. CASE merge = "Enriched"
      <4>1. Grown(old, run, new) /\ TakesHalf(old, run) BY <2>1, <3>2
      <4>2. new.scenario = run.scenario /\ new.start = run.start BY <2>3, <4>1 DEF Grown
      <4>3. P!Id(new) = id /\ P!Id(old) = P!Id(new) BY <2>1, <4>2, IdsEqual
      <4>4. RunOK(new)
        BY <1>2, <2>2, <2>3, <4>1, <4>2, <4>3 DEF RunOK, Grown, TakesHalf
      <4>5. \A f \in SourcesOf(new) : f \in SourcesOf(run) \/ f \in SourcesOf(old)
        BY <4>1 DEF Grown, SourcesOf
      <4>6. QED BY <1>2, <4>3, <4>4, <4>5
    <3>3. QED BY <3>1, <3>2
  <2>5. /\ (merge = "Enriched") <=> new # old
        /\ new # old => \/ old.perf = NoSource /\ new.perf # NoSource
                        \/ old.csv = NoSource /\ new.csv # NoSource
        /\ old.perf # NoSource => new.perf # NoSource
        /\ old.csv # NoSource => new.csv # NoSource
    BY <2>1, GrownChanges
  <2> HIDE DEF id, q, requested
  <2>6. QED BY <1>4, <1>6, <1>7, <1>9, <2>1, <2>4, <2>5 DEF Turned, id, q, requested, old
<1>10. QED BY <1>8, <1>9

\* A pair whose other half is in a run of the candidate, or known to be in one.
LEMMA TurnOfOld ==
  ASSUME IInv, JobOK, JobLinks, NEW g \in job.left, NEW pair, pair = job.pairs[g],
         NEW e \in Positions(job.cand), NEW existing, existing = job.cand.runs[e],
         existing # NoRun, g \in DOMAIN job.known, job.known[g] = P!Id(existing),
         NEW run, run = Ingested(existing, pair),
         NEW merge, merge = P!MergeResult(job.cand, run, P!Id(existing)), merge # "Conflict"
  PROVE  \E i, new : Turned(g, pair, existing, run, merge,
                            P!MergeImportedRun(job.cand, run, P!Id(existing)), i, new)
<1> DEFINE id == P!Id(run)
           q == P!MergeImportedRun(job.cand, run, P!Id(existing))
           requested == FilesOf(pair) \cap SourcesOf(run)
           p == pair.perf
           c == pair.csv
<1>1. info \in Infos /\ Lemmas!ProfileInv(job.cand) /\ PairOK(g, pair)
  BY DEF IInv, World, JobOK
<1>2. existing \in Lemmas!Runs /\ RunOK(existing)
  BY <1>1, CandIds DEF JobLinks, RunsOK
<1>3. /\ existing.scenario # "None" /\ existing.start \in Nat /\ existing.start # NoStart
      /\ P!Id(existing) # P!NoId
  BY <1>2, ScenariosAssumption, NoStartAssumption DEF Lemmas!Runs, P!Id, P!NoId
<1>4. run \in Lemmas!Runs
  <2>1. run = NoRun \/ run \in Lemmas!Runs BY <1>1, <1>2, IngestedTyped
  <2>2. Took(existing, pair, run) BY <1>1, <1>2, IngestedMore
  <2>3. run.scenario # "None" BY <1>3, <2>2 DEF Took
  <2>4. QED BY <2>1, <2>3 DEF NoRun
<1>5. Took(existing, pair, run) BY <1>1, <1>2, IngestedMore
<1>6. FilesOf(pair) \cap SourcesOf(existing) = {} BY DEF JobLinks, PairsNew
<1>7. /\ p # NoSource => /\ p \in DOMAIN info /\ Group(p) = g /\ info[p].half = "perf"
                         /\ p \in FilesOf(pair)
      /\ c # NoSource => /\ c \in DOMAIN info /\ Group(c) = g /\ info[c].half = "csv"
                         /\ c \in FilesOf(pair)
      /\ \A f \in FilesOf(pair) : f = p \/ f = c
  BY <1>1, PairFiles DEF FilesOf
<1>8. PICK f \in DOMAIN info : f \notin FilesOf(pair) /\ Group(f) = g /\ Tells(f, P!Id(existing))
  BY DEF JobLinks, KnownTells
<1>9. info[f].scenario = existing.scenario BY <1>8, IdFields DEF Tells
<1>10. \A j \in Positions(job.cand) : j # e => \A h \in SourcesOf(job.cand.runs[j]) : Group(h) # g
  <2>1. \A j \in Positions(job.cand) :
          (\E h \in SourcesOf(job.cand.runs[j]) : Group(h) = g)
            => P!Id(job.cand.runs[j]) = P!Id(existing)
    BY DEF JobLinks, KnownLeads
  <2>2. \A i, j \in Positions(job.cand) : P!Id(job.cand.runs[i]) = P!Id(job.cand.runs[j]) => i = j
    BY <1>1, CandIds
  <2>3. QED BY <2>1, <2>2
<1> HIDE DEF p, c
<1> DEFINE tookPerf == /\ p # NoSource /\ run.perf = p /\ info[p].scenario = run.scenario
                       /\ run.start = info[p].start /\ run.length = info[p].length
           keptPerf == /\ run.perf = existing.perf /\ run.start = existing.start
                       /\ run.length = existing.length
           tookCsv == c # NoSource /\ run.csv = c /\ info[c].scenario = run.scenario
<1>11. /\ run.scenario = existing.scenario
       /\ keptPerf \/ tookPerf
       /\ run.csv = existing.csv \/ tookCsv
  BY <1>5 DEF Took, p, c
\* The file the group is known by is the other half of what is read.
<1>12. ASSUME tookPerf PROVE /\ info[f].half = "csv" /\ p \in Mates(f) /\ c = NoSource
                             /\ p \in DOMAIN info /\ Group(p) = g /\ info[p].half = "perf"
  <2>1. p \in DOMAIN info /\ info[p].half = "perf" /\ Group(p) = g /\ p \in FilesOf(pair)
    BY <1>7, <1>12
  <2>2. f # p BY <1>8, <2>1
  <2>3. info[f].half # "perf" BY <1>1, <1>8, <2>1, <2>2, TwoHalves
  <2>4. info[f].half = "csv" BY <1>1, <2>3, FileTyped DEF Halves
  <2>5. c = NoSource
    <3>1. SUFFICES ASSUME c # NoSource PROVE FALSE OBVIOUS
    <3>2. c \in DOMAIN info /\ info[c].half = "csv" /\ Group(c) = g /\ c \in FilesOf(pair)
      BY <1>7, <3>1
    <3>3. f = c BY <1>1, <1>8, <2>4, <3>2, TwoHalves
    <3>4. QED BY <1>8, <3>2, <3>3
  <2>6. p \in Mates(f) BY <1>8, <1>9, <1>11, <1>12, <2>1 DEF Mates, Group
  <2>7. QED BY <2>1, <2>4, <2>5, <2>6
\* A performance re-keys only a run that has none.
<1>13. ASSUME tookPerf, run.start # existing.start PROVE existing.perf = NoSource
  <2>1. SUFFICES ASSUME existing.perf # NoSource PROVE FALSE OBVIOUS
  <2> DEFINE k == existing.perf
  <2>2. /\ k \in DOMAIN info /\ info[k].half = "perf" /\ info[k].scenario = existing.scenario
        /\ info[k].start = existing.start
    BY <1>2, <2>1 DEF RunOK
  <2>3. info[p].start # existing.start /\ p \in Mates(f) BY <1>12, <1>13
  <2>4. info[f].start = existing.start BY <1>8, <2>3, IdFields DEF Tells
  <2>5. k \in Mates(k) BY <2>2, OwnMate
  <2> HIDE DEF k
  <2>6. info[p].start = info[k].start BY <1>1, <1>3, <1>9, <2>2, <2>3, <2>4, <2>5, OneStart
  <2>7. QED BY <2>2, <2>3, <2>6
<1>14. ASSUME tookPerf, run.start # existing.start, NEW h \in DOMAIN info, Tells(h, P!Id(existing))
       PROVE  Tells(h, id)
  <2>1. p \in Mates(f) /\ info[p].start # P!Id(existing).start BY <1>12, <1>13, <1>14, IdFields
  <2>2. /\ id.scenario = P!Id(existing).scenario /\ id.start = info[p].start
        /\ P!Id(existing).start # NoStart
    BY <1>3, <1>11, <1>14, IdFields
  <2> HIDE DEF id
  <2>3. QED BY <1>1, <1>8, <1>14, <2>1, <2>2, TellsShifts
\* A CSV that is read tells the run's identity.
<1>15. ASSUME tookCsv PROVE Tells(c, id) /\ c \in DOMAIN info /\ info[c].half = "csv"
  <2>1. c \in DOMAIN info /\ info[c].half = "csv" /\ Group(c) = g /\ c \in FilesOf(pair)
    BY <1>7, <1>15
  <2>2. ~tookPerf BY <1>12, <1>15
  <2>3. run.start = existing.start BY <1>11, <2>2
  <2>4. f # c BY <1>8, <2>1
  <2>5. info[f].half # "csv" BY <1>1, <1>8, <2>1, <2>4, TwoHalves
  <2>6. info[f].half = "perf" BY <1>1, <2>5, FileTyped DEF Halves
  <2>7. f \in Mates(f) BY <2>6, OwnMate
  <2>8. info[f].start = existing.start BY <1>8, <2>7, IdFields DEF Tells
  <2>9. id.scenario = info[c].scenario /\ id.start = info[f].start
    BY <1>15, <2>3, <2>8, IdFields
  <2> HIDE DEF id
  <2>10. Tells(c, id) BY <1>1, <1>8, <2>1, <2>6, <2>9, PairTells
  <2>11. QED BY <2>1, <2>10
<1>16. \A h \in requested : h \in DOMAIN info /\ Group(h) = g /\ Tells(h, id)
  <2>1. TAKE h \in requested
  <2>2. h \in DOMAIN info /\ Group(h) = g BY <1>1 DEF PairOK
  <2>3. h \notin SourcesOf(existing) /\ h # NoSource /\ (h = run.perf \/ h = run.csv)
    BY <1>6 DEF SourcesOf
  <2>4. CASE h = run.perf
    <3>1. tookPerf BY <1>11, <2>3, <2>4 DEF SourcesOf
    <3>2. info[h].scenario = id.scenario /\ info[h].start = id.start
      BY <2>4, <3>1, IdFields
    <3>3. QED BY <2>2, <3>2 DEF Tells
  <2>5. CASE h = run.csv
    <3>1. tookCsv BY <1>11, <2>3, <2>5 DEF SourcesOf
    <3>2. QED BY <1>15, <2>2, <2>5, <3>1
  <2>6. QED BY <2>3, <2>4, <2>5
<1> HIDE DEF tookPerf, keptPerf, tookCsv
<1>17. PICK i, new :
        /\ Replaced(job.cand, q, i, new)
        /\ i \in Positions(job.cand) /\ merge # "Added"
        /\ P!Id(job.cand.runs[i]) = P!Id(existing)
        /\ (merge = "Enriched") <=> TakesHalf(job.cand.runs[i], run)
        /\ IF merge = "Enriched" THEN Grown(job.cand.runs[i], run, new)
           ELSE new = job.cand.runs[i]
  BY <1>1, <1>3, <1>4, MergeGrows
<1>18. i = e /\ job.cand.runs[i] = existing BY <1>1, <1>17, CandIds
<1>19. /\ (merge = "Enriched") <=> TakesHalf(existing, run)
       /\ IF merge = "Enriched" THEN Grown(existing, run, new) ELSE new = existing
  BY <1>17, <1>18
<1>20. /\ (merge = "Enriched") <=> new # existing
       /\ new # existing => \/ existing.perf = NoSource /\ new.perf # NoSource
                            \/ existing.csv = NoSource /\ new.csv # NoSource
       /\ existing.perf # NoSource => new.perf # NoSource
       /\ existing.csv # NoSource => new.csv # NoSource
  BY <1>19, GrownChanges
<1>21. run.start # existing.start =>
         /\ tookPerf /\ existing.perf = NoSource /\ merge = "Enriched" /\ new.perf # NoSource
  <2>1. HAVE run.start # existing.start
  <2>2. tookPerf BY <1>11, <2>1 DEF keptPerf
  <2>3. existing.perf = NoSource BY <1>13, <2>1, <2>2
  <2>4. TakesHalf(existing, run) /\ run.perf # NoSource BY <2>2, <2>3 DEF tookPerf, TakesHalf
  <2>5. QED BY <1>19, <2>2, <2>3, <2>4 DEF Grown
<1>22. new.scenario = run.scenario /\ new.start = run.start
  <2>1. new.scenario = existing.scenario BY <1>19 DEF Grown
  <2>2. CASE run.start = existing.start BY <1>11, <1>19, <2>1, <2>2 DEF Grown
  <2>3. CASE run.start # existing.start
    <3>1. Grown(existing, run, new) /\ existing.perf = NoSource /\ run.perf # NoSource
      BY <1>19, <1>21, <2>3 DEF tookPerf
    <3>2. QED BY <1>11, <2>1, <3>1 DEF Grown
  <2>4. QED BY <2>2, <2>3
<1>23. P!Id(new) = id BY <1>22, IdsEqual
<1>24. \A h \in DOMAIN info : Tells(h, P!Id(existing)) => Tells(h, id)
  <2>1. CASE run.start = existing.start
    <3>1. P!Id(existing) = id BY <1>11, <2>1, IdsEqual
    <3>2. QED BY <3>1
  <2>2. CASE run.start # existing.start BY <1>14, <1>21, <2>2
  <2>3. QED BY <2>1, <2>2
<1>25. RunOK(new)
  <2>1. CASE merge # "Enriched" BY <1>2, <1>19, <2>1
  <2>2. CASE merge = "Enriched"
    <3>1. Grown(existing, run, new) /\ TakesHalf(existing, run) BY <1>19, <2>2
    <3> HIDE DEF id
    <3>2. new.csv # NoSource =>
            new.csv \in DOMAIN info /\ info[new.csv].half = "csv" /\ Tells(new.csv, P!Id(new))
      <4>1. HAVE new.csv # NoSource
      <4>2. CASE new.csv = existing.csv BY <1>2, <1>23, <1>24, <4>1, <4>2 DEF RunOK
      <4>3. CASE new.csv # existing.csv
        <5>1. new.csv = run.csv /\ run.csv # existing.csv BY <3>1, <4>3 DEF Grown
        <5>2. tookCsv BY <1>11, <5>1
        <5>3. new.csv = c BY <5>1, <5>2 DEF tookCsv
        <5>4. QED BY <1>15, <1>23, <5>2, <5>3
      <4>4. QED BY <4>2, <4>3
    <3>3. CASE existing.perf = NoSource /\ run.perf # NoSource
      <4>1. tookPerf BY <1>11, <3>3 DEF keptPerf
      <4>2. p # NoSource /\ p \in DOMAIN info /\ info[p].half = "perf" BY <1>12, <4>1 DEF tookPerf
      <4>3. /\ new.perf = p /\ info[p].scenario = new.scenario /\ info[p].start = new.start
            /\ info[p].length = new.length
        BY <1>22, <3>1, <3>3, <4>1 DEF Grown, tookPerf
      <4>4. QED BY <3>2, <4>2, <4>3 DEF RunOK
    <3>4. CASE ~(existing.perf = NoSource /\ run.perf # NoSource)
      <4>1. /\ new.perf = existing.perf /\ new.start = existing.start
            /\ new.scenario = existing.scenario
            /\ existing.perf # NoSource \/ existing.csv # NoSource => new.length = existing.length
        BY <3>1, <3>4 DEF Grown
      <4>2. existing.perf # NoSource BY <1>2, <3>1, <3>4 DEF TakesHalf, RunOK
      <4>3. QED BY <1>2, <3>2, <4>1, <4>2 DEF RunOK
    <3>5. QED BY <3>3, <3>4
  <2>3. QED BY <2>1, <2>2
<1>26. \A h \in SourcesOf(new) : h \in requested \/ h \in SourcesOf(existing)
  <2>1. TAKE h \in SourcesOf(new)
  <2>2. h # NoSource /\ (h = new.perf \/ h = new.csv) BY DEF SourcesOf
  <2>3. h = run.perf \/ h = run.csv \/ h \in SourcesOf(existing)
    BY <1>19, <2>2 DEF Grown, SourcesOf
  <2>4. h \in SourcesOf(run) \/ h \in SourcesOf(existing) BY <2>2, <2>3 DEF SourcesOf
  <2>5. \A l \in SourcesOf(run) : l \in FilesOf(pair) \/ l \in SourcesOf(existing)
    BY <1>7, <1>11 DEF SourcesOf, tookPerf, keptPerf, tookCsv
  <2>6. QED BY <2>4, <2>5
<1>27. P!Id(existing) # id =>
         /\ existing.perf = NoSource /\ new.perf # NoSource
  <2>1. HAVE P!Id(existing) # id
  <2>2. run.start # existing.start BY <1>11, <2>1, IdsEqual
  <2>3. QED BY <1>21, <2>2
<1> HIDE DEF id, q, requested
<1>28. Turned(g, pair, existing, run, merge, q, i, new)
  BY <1>10, <1>16, <1>17, <1>18, <1>20, <1>23, <1>24, <1>25, <1>26, <1>27
     DEF Turned, id, requested
<1>29. QED BY <1>28 DEF q

-----------------------------------------------------------------------------
(* Following the re-keyings.                                                *)

LEMMA RekeyedFirst ==
  ASSUME NEW X, NEW rk \in Seq(X), NEW id, NEW m \in DOMAIN rk, rk[m][1] = id,
         \A j \in DOMAIN rk : rk[j][1] = id => m <= j
  PROVE  Rekeyed(rk, id) = rk[m][2]
<1> DEFINE mine == {k \in DOMAIN rk : rk[k][1] = id}
<1>1. DOMAIN rk \subseteq Nat OBVIOUS
<1>2. m \in mine /\ \A j \in mine : m <= j OBVIOUS
<1>3. \A k \in mine : (\A j \in mine : k <= j) => k = m BY <1>1, <1>2
<1>4. mine # {} /\ (CHOOSE k \in mine : \A j \in mine : k <= j) = m BY <1>2, <1>3
<1>5. QED BY <1>4 DEF Rekeyed

LEMMA RekeyedLeast ==
  ASSUME NEW X, NEW rk \in Seq(X), NEW id, NEW k \in DOMAIN rk, rk[k][1] = id
  PROVE  \E m \in DOMAIN rk : /\ rk[m][1] = id /\ Rekeyed(rk, id) = rk[m][2]
                              /\ \A j \in DOMAIN rk : rk[j][1] = id => m <= j
<1> DEFINE mine == {j \in DOMAIN rk : rk[j][1] = id}
           m == CHOOSE h \in mine : \A j \in mine : h <= j
<1>1. mine \subseteq Nat /\ mine # {} OBVIOUS
<1>2. PICK l \in mine : \A j \in mine : ~(<<j, l>> \in OpToRel(<, Nat))
  <2> HIDE DEF mine
  <2>1. QED BY <1>1, WFMin, NatLessThanWellFounded, Zenon
<1>3. \A j \in mine : l <= j
  <2>1. \A j \in mine : ~(j < l) BY <1>1, <1>2 DEF OpToRel
  <2>2. QED BY <1>1, <2>1
<1>4. l \in DOMAIN rk /\ rk[l][1] = id /\ \A j \in DOMAIN rk : rk[j][1] = id => l <= j
  BY <1>2, <1>3
<1>5. QED BY <1>4, RekeyedFirst

LEMMA RekeyedNone ==
  ASSUME NEW rk, NEW id, \A k \in DOMAIN rk : rk[k][1] # id
  PROVE  Rekeyed(rk, id) = id
BY DEF Rekeyed

\* A re-keying is of use to an identity that had none before.
LEMMA RekeyedAppend ==
  ASSUME NEW X, NEW rk \in Seq(X), NEW pair \in X, NEW id
  PROVE  Rekeyed(Append(rk, pair), id)
           = IF \E k \in DOMAIN rk : rk[k][1] = id THEN Rekeyed(rk, id)
             ELSE IF pair[1] = id THEN pair[2] ELSE id
<1> DEFINE n == Len(rk)
           more == Append(rk, pair)
<1>1. /\ n \in Nat /\ DOMAIN rk = 1 .. n /\ DOMAIN more = 1 .. n + 1 /\ more \in Seq(X)
      /\ more[n + 1] = pair /\ \A k \in 1 .. n : more[k] = rk[k]
  OBVIOUS
<1> HIDE DEF n, more
<1>2. CASE \E k \in DOMAIN rk : rk[k][1] = id
  <2>1. PICK m \in DOMAIN rk : /\ rk[m][1] = id /\ Rekeyed(rk, id) = rk[m][2]
                               /\ \A j \in DOMAIN rk : rk[j][1] = id => m <= j
    BY <1>2, RekeyedLeast
  <2>2. m \in DOMAIN more /\ more[m] = rk[m] /\ \A j \in DOMAIN more : more[j][1] = id => m <= j
    BY <1>1, <2>1
  <2>3. Rekeyed(more, id) = more[m][2] BY <1>1, <2>1, <2>2, RekeyedFirst
  <2>4. QED BY <1>2, <2>1, <2>2, <2>3 DEF more
<1>3. CASE ~(\E k \in DOMAIN rk : rk[k][1] = id) /\ pair[1] = id
  <2>1. n + 1 \in DOMAIN more /\ \A j \in DOMAIN more : more[j][1] = id => n + 1 <= j
    BY <1>1, <1>3
  <2>2. Rekeyed(more, id) = more[n + 1][2] BY <1>1, <1>3, <2>1, RekeyedFirst
  <2>3. QED BY <1>1, <1>3, <2>2 DEF more
<1>4. CASE ~(\E k \in DOMAIN rk : rk[k][1] = id) /\ pair[1] # id
  <2>1. \A k \in DOMAIN more : more[k][1] # id BY <1>1, <1>4
  <2>2. QED BY <1>4, <2>1, RekeyedNone DEF more
<1>5. QED BY <1>2, <1>3, <1>4

\* The selection after each re-keying in turn, as Selected folds it.
Follows(iter, id, rk) ==
  \A s \in SUBSET DOMAIN rk :
    iter[s] = IF s = {} THEN id
              ELSE IF iter[s \ {Max(s)}] = rk[Max(s)][1] THEN rk[Max(s)][2]
                   ELSE iter[s \ {Max(s)}]

LEMMA LastIs ==
  ASSUME NEW n \in Nat, NEW s, s \subseteq 1 .. n, s # {}
  PROVE  Max(s) \in s /\ \A y \in s : Max(s) >= y
<1>1. Max(s) = Lemmas!Max(s) BY Zenon DEF Max, Lemmas!Max
<1>2. Lemmas!Bounded(s) BY DEF Lemmas!Bounded
<1>3. QED BY <1>1, <1>2, Lemmas!MaxIs

LEMMA SelectedFollows ==
  ASSUME NEW X, NEW rk \in Seq(X), NEW id
  PROVE  \E iter : Follows(iter, id, rk) /\ Selected(id, rk) = iter[DOMAIN rk]
<1> DEFINE n == Len(rk)
           V == {id} \cup {rk[k][2] : k \in 1 .. n}
           pick == [s \in SUBSET (1 .. n) |-> Max(s)]
           step == [k \in 1 .. n |-> [v \in V |-> IF v = rk[k][1] THEN rk[k][2] ELSE v]]
           eqn(iter) == [s \in SUBSET DOMAIN rk |->
              IF s = {} THEN id
              ELSE IF iter[s \ {Max(s)}] = rk[Max(s)][1] THEN rk[Max(s)][2] ELSE iter[s \ {Max(s)}]]
           it == CHOOSE iter : iter = eqn(iter)
<1>1. n \in Nat /\ DOMAIN rk = 1 .. n OBVIOUS
<1>2. Selected(id, rk) = it[DOMAIN rk]
  BY DEF Selected, FoldLeft, MapThenFoldSet
<1>3. \A s \in SUBSET (1 .. n) : s # {} => pick[s] \in s BY <1>1, LastIs
<1>4. \A k \in 1 .. n, v \in V : step[k][v] \in V OBVIOUS
<1>5. id \in V OBVIOUS
<1> HIDE DEF n, pick, step, V
<1>6. PICK iter \in [SUBSET (1 .. n) -> V] : Lemmas!Folds(iter, 1 .. n, id, pick, step)
  <2>1. Lemmas!Bounded(1 .. n) BY <1>1 DEF Lemmas!Bounded
  <2> DEFINE S == 1 .. n
  <2> HIDE DEF S
  <2>2. \E iter \in [SUBSET S -> V] : Lemmas!Folds(iter, S, id, pick, step)
    BY <1>3, <1>4, <1>5, <2>1, Lemmas!FoldExists DEF S
  <2>3. QED BY <2>2 DEF S
<1>7. iter = eqn(iter)
  <2>1. ASSUME NEW s \in SUBSET (1 .. n), s # {}
        PROVE  iter[s] = IF iter[s \ {Max(s)}] = rk[Max(s)][1] THEN rk[Max(s)][2] ELSE iter[s \ {Max(s)}]
    <3>1. iter[s] = step[pick[s]][iter[s \ {pick[s]}]] BY <1>6, <2>1 DEF Lemmas!Folds
    <3>2. pick[s] = Max(s) /\ Max(s) \in 1 .. n BY <1>3, <2>1 DEF pick
    <3>3. iter[s \ {Max(s)}] \in V OBVIOUS
    <3>4. step[Max(s)] = [v \in V |-> IF v = rk[Max(s)][1] THEN rk[Max(s)][2] ELSE v]
      BY <3>2 DEF step
    <3>5. QED BY <3>1, <3>2, <3>3, <3>4
  <2>2. iter[{}] = id BY <1>6 DEF Lemmas!Folds
  <2>3. QED BY <1>1, <2>1, <2>2
<1>8. it = eqn(it) BY <1>7
<1> HIDE DEF it
<1>9. \A s \in SUBSET DOMAIN rk : it[s] = eqn(it)[s] BY <1>8
<1>10. Follows(it, id, rk) BY <1>9 DEF Follows
<1>11. QED BY <1>2, <1>10

LEMMA SelectedEmpty == ASSUME NEW id PROVE Selected(id, <<>>) = id
<1> DEFINE rk == <<>>
<1>1. rk \in Seq({}) /\ DOMAIN rk = {} OBVIOUS
<1> HIDE DEF rk
<1>2. PICK iter : Follows(iter, id, rk) /\ Selected(id, rk) = iter[DOMAIN rk]
  BY <1>1, SelectedFollows
<1>3. QED BY <1>1, <1>2 DEF Follows, rk

LEMMA SelectedAppend ==
  ASSUME NEW X, NEW rk \in Seq(X), NEW pair \in X, NEW id
  PROVE  Selected(id, Append(rk, pair))
           = IF Selected(id, rk) = pair[1] THEN pair[2] ELSE Selected(id, rk)
<1> DEFINE n == Len(rk)
           more == Append(rk, pair)
<1>1. /\ n \in Nat /\ DOMAIN rk = 1 .. n /\ DOMAIN more = 1 .. n + 1 /\ more \in Seq(X)
      /\ more[n + 1] = pair /\ \A k \in 1 .. n : more[k] = rk[k]
  OBVIOUS
<1> HIDE DEF n, more
<1>2. PICK f : Follows(f, id, rk) /\ Selected(id, rk) = f[DOMAIN rk] BY SelectedFollows
<1>3. PICK h : Follows(h, id, more) /\ Selected(id, more) = h[DOMAIN more]
  BY <1>1, SelectedFollows
<1>4. \A s \in SUBSET (1 .. n) : f[s] = h[s]
  <2> DEFINE Bad == {s \in SUBSET (1 .. n) : f[s] # h[s]}
  <2>1. SUFFICES ASSUME Bad # {} PROVE FALSE OBVIOUS
  <2>2. PICK s \in Bad : \A t \in Bad : t \subseteq s => t = s
    <3> DEFINE S == 1 .. n
    <3>1. Bad \subseteq SUBSET S /\ Lemmas!Bounded(S) BY <1>1 DEF Lemmas!Bounded
    <3> HIDE DEF Bad, S
    <3>2. QED BY <2>1, <3>1, Lemmas!SmallestSet
  <2>3. s \in SUBSET DOMAIN rk /\ s \in SUBSET DOMAIN more BY <1>1
  <2>4. CASE s = {} BY <1>2, <1>3, <2>3, <2>4 DEF Follows
  <2>5. CASE s # {}
    <3>1. Max(s) \in s BY <1>1, <2>5, LastIs
    <3>2. f[s \ {Max(s)}] = h[s \ {Max(s)}] BY <2>2, <3>1
    <3>3. more[Max(s)] = rk[Max(s)] BY <1>1, <3>1
    <3>4. f[s] = IF f[s \ {Max(s)}] = rk[Max(s)][1] THEN rk[Max(s)][2] ELSE f[s \ {Max(s)}]
      BY <1>2, <2>3, <2>5 DEF Follows
    <3>5. h[s] = IF h[s \ {Max(s)}] = more[Max(s)][1] THEN more[Max(s)][2] ELSE h[s \ {Max(s)}]
      BY <1>3, <2>3, <2>5 DEF Follows
    <3>6. QED BY <3>2, <3>3, <3>4, <3>5
  <2>6. QED BY <2>4, <2>5
<1>5. 1 .. n + 1 # {} /\ Max(1 .. n + 1) = n + 1 /\ (1 .. n + 1) \ {n + 1} = 1 .. n
  <2>1. n + 1 \in Nat /\ n + 1 \in 1 .. n + 1 BY <1>1
  <2>2. Max(1 .. n + 1) \in 1 .. n + 1 /\ \A y \in 1 .. n + 1 : Max(1 .. n + 1) >= y
    BY <2>1, LastIs
  <2>3. QED BY <1>1, <2>1, <2>2
<1>6. h[1 .. n + 1] = IF h[1 .. n] = more[n + 1][1] THEN more[n + 1][2] ELSE h[1 .. n]
  <2> DEFINE S == 1 .. n + 1
  <2>1. S \in SUBSET DOMAIN more /\ S # {} BY <1>1, <1>5
  <2>2. Max(S) = n + 1 /\ S \ {n + 1} = 1 .. n BY <1>5
  <2> HIDE DEF S
  <2>3. h[S] = IF h[S \ {Max(S)}] = more[Max(S)][1] THEN more[Max(S)][2] ELSE h[S \ {Max(S)}]
    BY <1>3, <2>1 DEF Follows
  <2>4. h[S] = IF h[1 .. n] = more[n + 1][1] THEN more[n + 1][2] ELSE h[1 .. n]
    BY <2>2, <2>3
  <2>5. QED BY <2>4 DEF S
<1>7. QED BY <1>1, <1>2, <1>3, <1>4, <1>6 DEF more

-----------------------------------------------------------------------------
(* A turn that reads a pair into a run keeps the second invariant.          *)

\* Where an identity has gone when "old" became "id".
Shift(rekeyed, old, id, x) == IF rekeyed /\ x = old THEN id ELSE x

\* What a turn writes down: the fields of Joined that it changes.
Booked(g, requested, rekeyed, old, id, merge, q) ==
  /\ job'.mode = job.mode /\ job'.pairs = job.pairs /\ job'.left = job.left \ {g}
  /\ job'.cand = q
  /\ job'.rekeyed = IF rekeyed THEN Append(job.rekeyed, <<old, id>>) ELSE job.rekeyed
  /\ DOMAIN job'.known = DOMAIN job.known \cup {g}
  /\ \A h \in DOMAIN job.known : h # g => job'.known[h] = Shift(rekeyed, old, id, job.known[h])
  /\ DOMAIN job'.found = DOMAIN job.found \cup requested
  /\ \A f \in requested : job'.found[f] = id
  /\ \A f \in DOMAIN job.found : f \notin requested =>
       job'.found[f] = Shift(rekeyed, old, id, job.found[f])
  /\ job'.added = {Shift(rekeyed, old, id, x) : x \in job.added}
                    \cup (IF merge = "Added" THEN {id} ELSE {})
  /\ job'.enriched = ({Shift(rekeyed, old, id, x) : x \in job.enriched}
                        \cup (IF merge = "Enriched" THEN {id} ELSE {})) \ job'.added

LEMMA CountedShifts ==
  ASSUME NEW ids, NEW old, NEW id
  PROVE  Counted(ids, old, id) = {Shift(TRUE, old, id, x) : x \in ids}
<1>1. CASE old \in ids
  <2>1. \A y : y \in (ids \ {old}) \cup {id} <=> \E x \in ids : y = IF x = old THEN id ELSE x
    BY <1>1
  <2>2. QED BY <1>1, <2>1 DEF Counted, Shift
<1>2. CASE old \notin ids
  <2>1. \A x \in ids : Shift(TRUE, old, id, x) = x BY <1>2 DEF Shift
  <2>2. QED BY <1>2, <2>1 DEF Counted
<1>3. QED BY <1>1, <1>2

LEMMA JoinedBooks ==
  ASSUME JobOK, NEW g, NEW pair, NEW existing, NEW run, NEW merge,
         Joined(g, pair, existing, run, merge)
  PROVE  Booked(g, FilesOf(pair) \cap SourcesOf(run),
                existing # NoRun /\ P!Id(existing) # P!Id(run), P!Id(existing), P!Id(run), merge,
                P!MergeImportedRun(job.cand, run,
                                   IF existing = NoRun THEN P!NoId ELSE P!Id(existing)))
<1> DEFINE id == P!Id(run)
           old == P!Id(existing)
           rekeyed == existing # NoRun /\ old # id
           requested == FilesOf(pair) \cap SourcesOf(run)
           q == P!MergeImportedRun(job.cand, run, IF existing = NoRun THEN P!NoId ELSE old)
           added == (IF rekeyed THEN Counted(job.added, old, id) ELSE job.added)
                      \cup (IF merge = "Added" THEN {id} ELSE {})
           enriched == (IF rekeyed THEN Counted(job.enriched, old, id) ELSE job.enriched)
                         \cup (IF merge = "Enriched" THEN {id} ELSE {})
           known == IF rekeyed THEN Followed(job.known, old, id) ELSE job.known
           found == IF rekeyed THEN Followed(job.found, old, id) ELSE job.found
<1>1. /\ job'.mode = job.mode /\ job'.pairs = job.pairs /\ job'.left = job.left \ {g}
      /\ job'.cand = q
      /\ job'.added = added
      /\ job'.enriched = CountedOnce(enriched, added)
      /\ job'.rekeyed = IF rekeyed THEN Append(job.rekeyed, <<old, id>>) ELSE job.rekeyed
      /\ job'.known = [h \in DOMAIN known \cup {g} |-> IF h = g THEN id ELSE known[h]]
      /\ job'.found = [f \in DOMAIN found \cup requested |->
                         IF f \in requested THEN id ELSE found[f]]
  BY DEF Joined, JobOK
<1>2. /\ DOMAIN known = DOMAIN job.known
      /\ \A h \in DOMAIN job.known : known[h] = Shift(rekeyed, old, id, job.known[h])
  BY DEF Followed, Shift
<1>3. /\ DOMAIN found = DOMAIN job.found
      /\ \A f \in DOMAIN job.found : found[f] = Shift(rekeyed, old, id, job.found[f])
  BY DEF Followed, Shift
<1>4. ASSUME NEW ids
      PROVE  (IF rekeyed THEN Counted(ids, old, id) ELSE ids)
               = {Shift(rekeyed, old, id, x) : x \in ids}
  <2> HIDE DEF old, id, rekeyed
  <2>1. CASE rekeyed
    <3>1. rekeyed = TRUE BY <2>1 DEF rekeyed
    <3>2. QED BY <3>1, CountedShifts
  <2>2. CASE ~rekeyed
    <3>1. \A x \in ids : Shift(rekeyed, old, id, x) = x BY <2>2 DEF Shift
    <3>2. {Shift(rekeyed, old, id, x) : x \in ids} = ids BY <3>1
    <3>3. QED BY <2>2, <3>2
  <2>3. QED BY <2>1, <2>2
<1>5. job'.added = {Shift(rekeyed, old, id, x) : x \in job.added}
                     \cup (IF merge = "Added" THEN {id} ELSE {})
  BY <1>1, <1>4
<1>6. job'.enriched = ({Shift(rekeyed, old, id, x) : x \in job.enriched}
                         \cup (IF merge = "Enriched" THEN {id} ELSE {})) \ job'.added
  BY <1>1, <1>4 DEF CountedOnce
<1> HIDE DEF id, old, rekeyed, requested, q, added, enriched, known, found
<1>7. /\ DOMAIN job'.known = DOMAIN job.known \cup {g}
      /\ \A h \in DOMAIN job.known : h # g => job'.known[h] = Shift(rekeyed, old, id, job.known[h])
  BY <1>1, <1>2
<1>8. /\ DOMAIN job'.found = DOMAIN job.found \cup requested
      /\ \A f \in requested : job'.found[f] = id
      /\ \A f \in DOMAIN job.found : f \notin requested =>
           job'.found[f] = Shift(rekeyed, old, id, job.found[f])
  BY <1>1, <1>3
<1>9. Booked(g, requested, rekeyed, old, id, merge, q)
  BY <1>1, <1>5, <1>6, <1>7, <1>8 DEF Booked
<1>10. QED BY <1>9 DEF id, old, rekeyed, requested, q

\* Where the runs of the candidate have gone.
LEMMA TurnMoves ==
  ASSUME Lemmas!ProfileInv(job.cand), NEW g, NEW pair, NEW existing, NEW run, NEW merge, NEW q,
         NEW i, NEW new, Turned(g, pair, existing, run, merge, q, i, new),
         NEW rekeyed, rekeyed = (existing # NoRun /\ P!Id(existing) # P!Id(run))
  PROVE  \A j \in Positions(job.cand) :
           P!Id(q.runs[j]) = Shift(rekeyed, P!Id(existing), P!Id(run), P!Id(job.cand.runs[j]))
<1> DEFINE id == P!Id(run)
           old == P!Id(existing)
<1>1. /\ q.runs[i] = new /\ P!Id(new) = id
      /\ \A j \in Positions(job.cand) : j # i => q.runs[j] = job.cand.runs[j]
      /\ i \in Positions(job.cand) => P!Id(job.cand.runs[i]) = IF rekeyed THEN old ELSE id
      /\ rekeyed => i \in Positions(job.cand)
  BY DEF Turned, Replaced
<1>2. \A j, k \in Positions(job.cand) : P!Id(job.cand.runs[j]) = P!Id(job.cand.runs[k]) => j = k
  BY CandIds
<1> HIDE DEF id, old
<1>3. ASSUME NEW j \in Positions(job.cand)
      PROVE  P!Id(q.runs[j]) = Shift(rekeyed, old, id, P!Id(job.cand.runs[j]))
  <2>1. CASE j = i BY <1>1, <1>3, <2>1 DEF Shift
  <2>2. CASE j # i
    <3>1. q.runs[j] = job.cand.runs[j] BY <1>1, <1>3, <2>2
    <3>2. rekeyed => P!Id(job.cand.runs[j]) # old BY <1>1, <1>2, <1>3, <2>2
    <3>3. QED BY <3>1, <3>2 DEF Shift
  <2>3. QED BY <2>1, <2>2
<1>4. QED BY <1>3 DEF id, old

\* What a turn of the loop is: the pair of a group that is left has been read into run i.
Turn(g, pair, existing, run, merge, rekeyed, requested, i, new) ==
  /\ g \in job.left /\ pair = job.pairs[g]
  /\ rekeyed = (existing # NoRun /\ P!Id(existing) # P!Id(run))
  /\ requested = FilesOf(pair) \cap SourcesOf(run)
  /\ Turned(g, pair, existing, run, merge, job'.cand, i, new)
  /\ Booked(g, requested, rekeyed, P!Id(existing), P!Id(run), merge, job'.cand)
  /\ Lemmas!ProfileInv(job'.cand)
  /\ UNCHANGED <<info, profile>>

\* The facts of a turn that the lemmas below work with.
LEMMA TurnFacts ==
  ASSUME IInv, JobOK, JobLinks, NEW g, NEW pair, NEW existing, NEW run, NEW merge,
         NEW rekeyed, NEW requested, NEW i, NEW new,
         Turn(g, pair, existing, run, merge, rekeyed, requested, i, new)
  PROVE  /\ Positions(job'.cand) = Positions(job.cand) \cup {i}
         /\ job'.cand.runs[i] = new /\ P!Id(new) = P!Id(run)
         /\ \A j \in Positions(job.cand) :
              /\ j # i => job'.cand.runs[j] = job.cand.runs[j]
              /\ P!Id(job'.cand.runs[j])
                   = Shift(rekeyed, P!Id(existing), P!Id(run), P!Id(job.cand.runs[j]))
         /\ \A j \in Positions(job'.cand) : \A f \in SourcesOf(job'.cand.runs[j]) :
              \/ f \in requested /\ j = i
              \/ j \in Positions(job.cand) /\ f \in SourcesOf(job.cand.runs[j])
         /\ \A f \in requested : f \in DOMAIN info /\ Group(f) = g /\ Tells(f, P!Id(run))
         /\ \A j \in Positions(job.cand) : j # i =>
              \A f \in SourcesOf(job.cand.runs[j]) : Group(f) # g
         /\ \A f \in DOMAIN info : \A x :
              Tells(f, x) => Tells(f, Shift(rekeyed, P!Id(existing), P!Id(run), x))
<1>1. Turned(g, pair, existing, run, merge, job'.cand, i, new) BY DEF Turn
<1>2. /\ Positions(job'.cand) = Positions(job.cand) \cup {i}
      /\ job'.cand.runs[i] = new /\ P!Id(new) = P!Id(run)
      /\ \A j \in Positions(job.cand) : j # i => job'.cand.runs[j] = job.cand.runs[j]
  BY <1>1 DEF Turned, Replaced
<1>3. \A j \in Positions(job.cand) :
        P!Id(job'.cand.runs[j])
          = Shift(rekeyed, P!Id(existing), P!Id(run), P!Id(job.cand.runs[j]))
  <2>1. rekeyed = (existing # NoRun /\ P!Id(existing) # P!Id(run)) BY DEF Turn
  <2>2. Lemmas!ProfileInv(job.cand) BY DEF JobOK
  <2>3. QED BY <1>1, <2>1, <2>2, TurnMoves
<1>4. /\ \A f \in SourcesOf(new) :
           f \in requested \/ (i \in Positions(job.cand) /\ f \in SourcesOf(job.cand.runs[i]))
      /\ \A f \in requested : f \in DOMAIN info /\ Group(f) = g /\ Tells(f, P!Id(run))
      /\ \A j \in Positions(job.cand) : j # i =>
           \A f \in SourcesOf(job.cand.runs[j]) : Group(f) # g
  BY DEF Turn, Turned
<1>5. \A f \in DOMAIN info : \A x :
        Tells(f, x) => Tells(f, Shift(rekeyed, P!Id(existing), P!Id(run), x))
  <2>1. rekeyed => \A f \in DOMAIN info : Tells(f, P!Id(existing)) => Tells(f, P!Id(run))
    BY DEF Turn, Turned
  <2>2. QED BY <2>1 DEF Shift
<1>6. \A j \in Positions(job'.cand) : \A f \in SourcesOf(job'.cand.runs[j]) :
        \/ f \in requested /\ j = i
        \/ j \in Positions(job.cand) /\ f \in SourcesOf(job.cand.runs[j])
  BY <1>2, <1>4
<1>7. QED BY <1>2, <1>3, <1>4, <1>5, <1>6

LEMMA TurnRuns ==
  ASSUME IInv, JobOK, JobLinks, NEW g, NEW pair, NEW existing, NEW run, NEW merge,
         NEW rekeyed, NEW requested, NEW i, NEW new,
         Turn(g, pair, existing, run, merge, rekeyed, requested, i, new)
  PROVE  RunsOK(job'.cand) /\ Together(job'.cand)
<1>1. /\ Positions(job'.cand) = Positions(job.cand) \cup {i} /\ job'.cand.runs[i] = new
      /\ \A j \in Positions(job.cand) : j # i => job'.cand.runs[j] = job.cand.runs[j]
      /\ \A j \in Positions(job'.cand) : \A f \in SourcesOf(job'.cand.runs[j]) :
           \/ f \in requested /\ j = i
           \/ j \in Positions(job.cand) /\ f \in SourcesOf(job.cand.runs[j])
      /\ \A f \in requested : Group(f) = g
      /\ \A j \in Positions(job.cand) : j # i =>
           \A f \in SourcesOf(job.cand.runs[j]) : Group(f) # g
  BY TurnFacts
<1>2. RunOK(new) BY DEF Turn, Turned
<1>3. RunsOK(job'.cand) BY <1>1, <1>2 DEF JobLinks, RunsOK
<1>4. ASSUME NEW j \in Positions(job'.cand), NEW k \in Positions(job'.cand),
             NEW f \in SourcesOf(job'.cand.runs[j]), NEW h \in SourcesOf(job'.cand.runs[k]),
             Group(f) = Group(h)
      PROVE  j = k
  <2>1. CASE f \in requested /\ j = i BY <1>1, <1>4, <2>1
  <2>2. CASE h \in requested /\ k = i BY <1>1, <1>4, <2>2
  <2>3. CASE /\ j \in Positions(job.cand) /\ f \in SourcesOf(job.cand.runs[j])
             /\ k \in Positions(job.cand) /\ h \in SourcesOf(job.cand.runs[k])
    BY <1>4, <2>3 DEF JobLinks, Together
  <2>4. QED BY <1>1, <2>1, <2>2, <2>3
<1>5. Together(job'.cand) BY <1>4 DEF Together
<1>6. QED BY <1>3, <1>5

LEMMA TurnKnown ==
  ASSUME IInv, JobOK, JobLinks, NEW g, NEW pair, NEW existing, NEW run, NEW merge,
         NEW rekeyed, NEW requested, NEW i, NEW new,
         Turn(g, pair, existing, run, merge, rekeyed, requested, i, new)
  PROVE  KnownLeads' /\ KnownTells' /\ PairsNew'
<1> DEFINE old == P!Id(existing)
           id == P!Id(run)
<1>1. /\ \A j \in Positions(job.cand) :
           P!Id(job'.cand.runs[j]) = Shift(rekeyed, old, id, P!Id(job.cand.runs[j]))
      /\ \A j \in Positions(job'.cand) : \A f \in SourcesOf(job'.cand.runs[j]) :
           \/ f \in requested /\ j = i
           \/ j \in Positions(job.cand) /\ f \in SourcesOf(job.cand.runs[j])
      /\ \A f \in requested : Group(f) = g
      /\ \A f \in DOMAIN info : \A x : Tells(f, x) => Tells(f, Shift(rekeyed, old, id, x))
  BY TurnFacts
<1> HIDE DEF old, id
<1>2. /\ job'.pairs = job.pairs /\ job'.left = job.left \ {g}
      /\ DOMAIN job'.known = DOMAIN job.known \cup {g}
      /\ \A h \in DOMAIN job.known : h # g => job'.known[h] = Shift(rekeyed, old, id, job.known[h])
      /\ info' = info
  BY DEF Turn, Booked, old, id
<1>3. ASSUME NEW h \in job'.left, NEW j \in Positions(job'.cand),
             NEW f \in SourcesOf(job'.cand.runs[j]), Group(f) = h
      PROVE  h \in DOMAIN job'.known /\ job'.known[h] = P!Id(job'.cand.runs[j])
  <2>1. h \in job.left /\ h # g BY <1>2, <1>3
  <2>2. j \in Positions(job.cand) /\ f \in SourcesOf(job.cand.runs[j]) BY <1>1, <1>3, <2>1
  <2>3. h \in DOMAIN job.known /\ job.known[h] = P!Id(job.cand.runs[j])
    BY <1>3, <2>1, <2>2 DEF JobLinks, KnownLeads
  <2>4. QED BY <1>1, <1>2, <2>1, <2>2, <2>3
<1>4. ASSUME NEW h \in job'.left \cap DOMAIN job'.known
      PROVE  \E f \in DOMAIN info : /\ f \notin FilesOf(job'.pairs[h])
                                    /\ Group(f) = h /\ Tells(f, job'.known[h])
  <2>1. h \in job.left \cap DOMAIN job.known /\ h # g BY <1>2, <1>4
  <2>2. PICK f \in DOMAIN info : f \notin FilesOf(job.pairs[h]) /\ Group(f) = h
                                 /\ Tells(f, job.known[h])
    BY <2>1 DEF JobLinks, KnownTells
  <2>3. QED BY <1>1, <1>2, <2>1, <2>2
<1>5. ASSUME NEW h \in job'.left, NEW j \in Positions(job'.cand)
      PROVE  FilesOf(job'.pairs[h]) \cap SourcesOf(job'.cand.runs[j]) = {}
  <2>1. h \in job.left /\ h # g BY <1>2, <1>5
  <2>2. \A f \in FilesOf(job.pairs[h]) : Group(f) = h BY <2>1 DEF JobOK, PairOK
  <2>3. \A k \in Positions(job.cand) :
          FilesOf(job.pairs[h]) \cap SourcesOf(job.cand.runs[k]) = {}
    BY <2>1 DEF JobLinks, PairsNew
  <2>4. QED BY <1>1, <1>2, <1>5, <2>1, <2>2, <2>3
<1>6. KnownLeads' BY <1>2, <1>3 DEF KnownLeads, SourcesOf, Group, Positions, P!Positions, P!Id
<1>7. KnownTells' BY <1>2, <1>4 DEF KnownTells, FilesOf, Group, Tells, Mates
<1>8. PairsNew' BY <1>5 DEF PairsNew, FilesOf, SourcesOf, Positions, P!Positions
<1>9. QED BY <1>6, <1>7, <1>8

LEMMA TurnFound ==
  ASSUME IInv, JobOK, JobLinks, NEW g, NEW pair, NEW existing, NEW run, NEW merge,
         NEW rekeyed, NEW requested, NEW i, NEW new,
         Turn(g, pair, existing, run, merge, rekeyed, requested, i, new)
  PROVE  FoundLeads' /\ FoundOrOld'
<1> DEFINE old == P!Id(existing)
           id == P!Id(run)
<1>1. /\ Positions(job'.cand) = Positions(job.cand) \cup {i}
      /\ job'.cand.runs[i] = new /\ P!Id(new) = id
      /\ \A j \in Positions(job.cand) :
           /\ j # i => job'.cand.runs[j] = job.cand.runs[j]
           /\ P!Id(job'.cand.runs[j]) = Shift(rekeyed, old, id, P!Id(job.cand.runs[j]))
      /\ \A j \in Positions(job'.cand) : \A f \in SourcesOf(job'.cand.runs[j]) :
           \/ f \in requested /\ j = i
           \/ j \in Positions(job.cand) /\ f \in SourcesOf(job.cand.runs[j])
      /\ \A f \in requested : f \in DOMAIN info /\ Group(f) = g /\ Tells(f, id)
      /\ \A j \in Positions(job.cand) : j # i =>
           \A f \in SourcesOf(job.cand.runs[j]) : Group(f) # g
      /\ \A f \in DOMAIN info : \A x : Tells(f, x) => Tells(f, Shift(rekeyed, old, id, x))
  BY TurnFacts
<1> HIDE DEF old, id
<1>2. /\ job'.mode = job.mode
      /\ DOMAIN job'.found = DOMAIN job.found \cup requested
      /\ \A f \in requested : job'.found[f] = id
      /\ \A f \in DOMAIN job.found : f \notin requested =>
           job'.found[f] = Shift(rekeyed, old, id, job.found[f])
      /\ info' = info /\ profile' = profile
  BY DEF Turn, Booked, old, id
<1>3. ASSUME NEW f \in DOMAIN job'.found
      PROVE  /\ f \in DOMAIN info /\ Tells(f, job'.found[f])
             /\ \A j \in Positions(job'.cand) :
                  f \in SourcesOf(job'.cand.runs[j]) => job'.found[f] = P!Id(job'.cand.runs[j])
  <2>1. CASE f \in requested
    <3>1. ASSUME NEW j \in Positions(job'.cand), f \in SourcesOf(job'.cand.runs[j])
          PROVE  j = i
      BY <1>1, <2>1, <3>1
    <3>2. QED BY <1>1, <1>2, <2>1, <3>1
  <2>2. CASE f \notin requested
    <3>1. /\ f \in DOMAIN job.found /\ f \in DOMAIN info /\ Tells(f, job.found[f])
          /\ \A j \in Positions(job.cand) :
               f \in SourcesOf(job.cand.runs[j]) => job.found[f] = P!Id(job.cand.runs[j])
      BY <1>2, <1>3, <2>2 DEF JobLinks, FoundLeads
    <3>2. ASSUME NEW j \in Positions(job'.cand), f \in SourcesOf(job'.cand.runs[j])
          PROVE  job'.found[f] = P!Id(job'.cand.runs[j])
      <4>1. j \in Positions(job.cand) /\ f \in SourcesOf(job.cand.runs[j]) BY <1>1, <2>2, <3>2
      <4>2. QED BY <1>1, <1>2, <2>2, <3>1, <4>1
    <3>3. QED BY <1>1, <1>2, <2>2, <3>1, <3>2
  <2>3. QED BY <2>1, <2>2
<1>4. ASSUME NEW j \in Positions(job'.cand), NEW f \in SourcesOf(job'.cand.runs[j])
      PROVE  \/ f \in DOMAIN job'.found
             \/ j \in Positions(Baseline) /\ f \in SourcesOf(Baseline.runs[j])
  <2>1. CASE f \in requested BY <1>2, <2>1
  <2>2. CASE j \in Positions(job.cand) /\ f \in SourcesOf(job.cand.runs[j])
    BY <1>2, <2>2 DEF JobLinks, FoundOrOld
  <2>3. QED BY <1>1, <1>4, <2>1, <2>2
<1>5. Baseline' = Baseline BY <1>2 DEF Baseline, Base, P!EmptyProfile, P!None
<1>6. FoundLeads'
  BY <1>2, <1>3 DEF FoundLeads, SourcesOf, Positions, P!Positions, P!Id, Tells, Mates
<1>7. FoundOrOld' BY <1>4, <1>5 DEF FoundOrOld, SourcesOf, Positions, P!Positions
<1>8. QED BY <1>6, <1>7

LEMMA IdTyped ==
  ASSUME NEW run \in Lemmas!Runs
  PROVE  P!Id(run) \in Ids
BY DEF Lemmas!Runs, P!Id, Ids

LEMMA TurnRekeys ==
  ASSUME IInv, JobOK, JobLinks, NEW g, NEW pair, NEW existing, NEW run, NEW merge,
         NEW rekeyed, NEW requested, NEW i, NEW new,
         Turn(g, pair, existing, run, merge, rekeyed, requested, i, new)
  PROVE  job'.rekeyed \in Seq(Ids \X Ids) /\ RekeysTell'
<1> DEFINE old == P!Id(existing)
           id == P!Id(run)
           rk == job.rekeyed
<1>1. CASE ~rekeyed
  <2>1. job'.rekeyed = rk /\ info' = info BY <1>1 DEF Turn, Booked
  <2>2. QED BY <2>1 DEF JobLinks, RekeysTell, Tells, Mates
<1>2. CASE rekeyed
  <2>1. /\ job'.rekeyed = Append(rk, <<old, id>>) /\ info' = info
        /\ rekeyed = (existing # NoRun /\ old # id)
    BY <1>2 DEF Turn, Booked
  <2>2. /\ i \in Positions(job.cand) /\ old = P!Id(job.cand.runs[i])
        /\ \A h \in DOMAIN info : Tells(h, old) => Tells(h, id)
    BY <1>2 DEF Turn, Turned
  <2>3. i \in Positions(job'.cand) /\ P!Id(job'.cand.runs[i]) = id BY TurnFacts
  <2>4. old \in Ids /\ id \in Ids
    <3>1. Lemmas!ProfileInv(job.cand) /\ Lemmas!ProfileInv(job'.cand) BY DEF JobOK, Turn
    <3>2. job.cand.runs[i] \in Lemmas!Runs /\ job'.cand.runs[i] \in Lemmas!Runs
      BY <2>2, <2>3, <3>1, CandIds
    <3>3. QED BY <2>2, <2>3, <3>2, IdTyped
  <2> HIDE DEF old, id
  <2>5. rk \in Seq(Ids \X Ids) BY DEF JobLinks
  <2>6. <<old, id>> \in Ids \X Ids BY <2>4
  <2>7. job'.rekeyed \in Seq(Ids \X Ids) BY <2>1, <2>5, <2>6
  <2>8. /\ DOMAIN job'.rekeyed = DOMAIN rk \cup {Len(rk) + 1}
        /\ \A k \in DOMAIN rk : job'.rekeyed[k] = rk[k]
        /\ job'.rekeyed[Len(rk) + 1] = <<old, id>>
    BY <2>1, <2>5
  <2>9. old # id BY <1>2, <2>1
  <2>10. ASSUME NEW k \in DOMAIN job'.rekeyed
         PROVE  /\ job'.rekeyed[k][1] # job'.rekeyed[k][2]
                /\ \A f \in DOMAIN info :
                     Tells(f, job'.rekeyed[k][1]) => Tells(f, job'.rekeyed[k][2])
    <3>1. CASE k \in DOMAIN rk BY <2>8, <3>1 DEF JobLinks, RekeysTell
    <3>2. CASE k = Len(rk) + 1
      <4>1. job'.rekeyed[k][1] = old /\ job'.rekeyed[k][2] = id BY <2>8, <3>2
      <4>2. QED BY <2>2, <2>9, <4>1
    <3>3. QED BY <2>8, <3>1, <3>2
  <2>11. RekeysTell' BY <2>1, <2>10 DEF RekeysTell, Tells, Mates
  <2>12. QED BY <2>7, <2>11
<1>3. QED BY <1>1, <1>2

\* A run that a turn gives another identity has none of its re-keyings behind it.
LEMMA TurnFollows ==
  ASSUME IInv, JobOK, JobLinks, NEW g, NEW pair, NEW existing, NEW run, NEW merge,
         NEW rekeyed, NEW requested, NEW i, NEW new,
         Turn(g, pair, existing, run, merge, rekeyed, requested, i, new),
         NEW j \in Positions(Baseline)
  PROVE  /\ j \in Positions(job'.cand)
         /\ Rekeyed(job'.rekeyed, P!Id(Baseline.runs[j])) = P!Id(job'.cand.runs[j])
         /\ Selected(P!Id(Baseline.runs[j]), job'.rekeyed) = P!Id(job'.cand.runs[j])
         /\ P!Id(job'.cand.runs[j]) # P!Id(Baseline.runs[j]) => job'.cand.runs[j].perf # NoSource
         /\ Baseline.runs[j].perf # NoSource => job'.cand.runs[j].perf # NoSource
         /\ Baseline.runs[j].csv # NoSource => job'.cand.runs[j].csv # NoSource
<1> DEFINE old == P!Id(existing)
           id == P!Id(run)
           rk == job.rekeyed
           b == Baseline.runs[j]
           c == job.cand.runs[j]
           n == job'.cand.runs[j]
<1>1. /\ j \in Positions(job.cand)
      /\ Rekeyed(rk, P!Id(b)) = P!Id(c) /\ Selected(P!Id(b), rk) = P!Id(c)
      /\ P!Id(c) # P!Id(b) => c.perf # NoSource
      /\ b.perf # NoSource => c.perf # NoSource
      /\ b.csv # NoSource => c.csv # NoSource
      /\ rk \in Seq(Ids \X Ids)
      /\ \A k \in DOMAIN rk : rk[k][1] # rk[k][2]
  BY DEF JobLinks, RunsFollowed, RekeysTell
<1>2. /\ j \in Positions(job'.cand)
      /\ P!Id(n) = Shift(rekeyed, old, id, P!Id(c))
      /\ j # i => n = c
      /\ j = i => n = new
  BY <1>1, TurnFacts
<1>3. j = i => /\ c.perf # NoSource => new.perf # NoSource
               /\ c.csv # NoSource => new.csv # NoSource
               /\ rekeyed => c.perf = NoSource /\ new.perf # NoSource
  BY <1>1 DEF Turn, Turned
<1>4. job'.rekeyed = IF rekeyed THEN Append(rk, <<old, id>>) ELSE rk BY DEF Turn, Booked
<1>5. rekeyed => /\ i \in Positions(job.cand) /\ old = P!Id(job.cand.runs[i])
                 /\ old \in Ids /\ id \in Ids
  <2>1. rekeyed => i \in Positions(job.cand) /\ old = P!Id(job.cand.runs[i])
    BY DEF Turn, Turned
  <2>2. i \in Positions(job'.cand) /\ P!Id(job'.cand.runs[i]) = id BY TurnFacts
  <2>3. Lemmas!ProfileInv(job.cand) /\ Lemmas!ProfileInv(job'.cand) BY DEF JobOK, Turn
  <2>4. rekeyed => job.cand.runs[i] \in Lemmas!Runs /\ job'.cand.runs[i] \in Lemmas!Runs
    BY <2>1, <2>2, <2>3, CandIds
  <2>5. QED BY <2>1, <2>2, <2>4, IdTyped
<1>6. rekeyed /\ P!Id(c) = old => j = i
  <2>1. Lemmas!ProfileInv(job.cand) BY DEF JobOK
  <2>2. QED BY <1>1, <1>5, <2>1, CandIds
<1> HIDE DEF old, id, rk, b, c, n
<1>7. CASE ~rekeyed
  <2>1. job'.rekeyed = rk /\ P!Id(n) = P!Id(c) BY <1>2, <1>4, <1>7 DEF Shift
  <2>2. /\ c.perf # NoSource => n.perf # NoSource
        /\ c.csv # NoSource => n.csv # NoSource
    BY <1>2, <1>3
  <2>3. QED BY <1>1, <1>2, <2>1, <2>2 DEF b, n
<1>8. CASE rekeyed
  <2>1. job'.rekeyed = Append(rk, <<old, id>>) /\ <<old, id>> \in Ids \X Ids
    BY <1>4, <1>5, <1>8
  <2>2. Selected(P!Id(b), job'.rekeyed) = P!Id(n)
    <3>1. Selected(P!Id(b), job'.rekeyed) = IF P!Id(c) = old THEN id ELSE P!Id(c)
      BY <1>1, <2>1, SelectedAppend
    <3>2. QED BY <1>2, <1>8, <3>1 DEF Shift
  <2>3. P!Id(n) = IF P!Id(c) = old THEN id ELSE P!Id(c) BY <1>2, <1>8 DEF Shift
  <2>4. Rekeyed(job'.rekeyed, P!Id(b))
          = IF \E k \in DOMAIN rk : rk[k][1] = P!Id(b) THEN P!Id(c)
            ELSE IF old = P!Id(b) THEN id ELSE P!Id(b)
    BY <1>1, <2>1, RekeyedAppend
  <2>5. Rekeyed(job'.rekeyed, P!Id(b)) = P!Id(n)
    <3>1. CASE \E k \in DOMAIN rk : rk[k][1] = P!Id(b)
      <4>1. PICK m \in DOMAIN rk : rk[m][1] = P!Id(b) /\ Rekeyed(rk, P!Id(b)) = rk[m][2]
        BY <1>1, <3>1, RekeyedLeast
      <4>2. P!Id(c) # P!Id(b) BY <1>1, <4>1
      <4>3. P!Id(c) # old BY <1>1, <1>3, <1>6, <1>8, <4>2
      <4>4. QED BY <2>3, <2>4, <3>1, <4>3
    <3>2. CASE ~\E k \in DOMAIN rk : rk[k][1] = P!Id(b)
      <4>1. P!Id(c) = P!Id(b) BY <1>1, <3>2, RekeyedNone
      <4>2. QED BY <2>3, <2>4, <3>2, <4>1
    <3>3. QED BY <3>1, <3>2
  <2>6. /\ P!Id(n) # P!Id(b) => n.perf # NoSource
        /\ c.perf # NoSource => n.perf # NoSource
        /\ c.csv # NoSource => n.csv # NoSource
    BY <1>1, <1>2, <1>3, <1>6, <1>8, <2>3
  <2>7. QED BY <1>1, <1>2, <2>2, <2>5, <2>6 DEF b, n
<1>9. QED BY <1>7, <1>8

LEMMA TurnCounts ==
  ASSUME IInv, JobOK, JobLinks, NEW g, NEW pair, NEW existing, NEW run, NEW merge,
         NEW rekeyed, NEW requested, NEW i, NEW new,
         Turn(g, pair, existing, run, merge, rekeyed, requested, i, new)
  PROVE  /\ job'.added = {P!Id(job'.cand.runs[j]) :
                            j \in Positions(job'.cand) \ Positions(Baseline)}
         /\ job'.enriched = {P!Id(job'.cand.runs[j]) :
              j \in {k \in Positions(Baseline) : job'.cand.runs[k] # Baseline.runs[k]}}
<1> DEFINE old == P!Id(existing)
           id == P!Id(run)
           B == Positions(Baseline)
           C == Positions(job.cand)
           D == Positions(job'.cand)
           moved(x) == Shift(rekeyed, old, id, x)
<1>1. /\ D = C \cup {i} /\ job'.cand.runs[i] = new /\ P!Id(new) = id
      /\ \A j \in C : j # i => job'.cand.runs[j] = job.cand.runs[j]
      /\ \A j \in C : P!Id(job'.cand.runs[j]) = moved(P!Id(job.cand.runs[j]))
  BY TurnFacts
<1>2. /\ B \subseteq C
      /\ \A j \in B : /\ Baseline.runs[j].perf # NoSource => job.cand.runs[j].perf # NoSource
                      /\ Baseline.runs[j].csv # NoSource => job.cand.runs[j].csv # NoSource
  BY DEF JobLinks, RunsFollowed
<1>3. /\ job.added = {P!Id(job.cand.runs[j]) : j \in C \ B}
      /\ job.enriched = {P!Id(job.cand.runs[j]) :
                           j \in {k \in B : job.cand.runs[k] # Baseline.runs[k]}}
  BY DEF JobLinks, Counts
<1>4. /\ (merge = "Added") <=> i \notin C
      /\ i \in C =>
           /\ (merge = "Enriched") <=> new # job.cand.runs[i]
           /\ new # job.cand.runs[i] => \/ job.cand.runs[i].perf = NoSource /\ new.perf # NoSource
                                        \/ job.cand.runs[i].csv = NoSource /\ new.csv # NoSource
  BY DEF Turn, Turned
<1>5. /\ job'.added = {moved(x) : x \in job.added} \cup (IF merge = "Added" THEN {id} ELSE {})
      /\ job'.enriched = ({moved(x) : x \in job.enriched}
                            \cup (IF merge = "Enriched" THEN {id} ELSE {})) \ job'.added
  BY DEF Turn, Booked
<1>6. \A j, k \in D : P!Id(job'.cand.runs[j]) = P!Id(job'.cand.runs[k]) => j = k
  <2>1. Lemmas!ProfileInv(job'.cand) BY DEF Turn
  <2>2. QED BY <2>1, CandIds
<1> HIDE DEF old, id, B, C, D, moved
<1>7. {moved(x) : x \in job.added} = {P!Id(job'.cand.runs[j]) : j \in C \ B}
  BY <1>1, <1>3
<1>8. job'.added = {P!Id(job'.cand.runs[j]) : j \in D \ B}
  <2>1. CASE i \in C
    <3>1. D = C /\ merge # "Added" BY <1>1, <1>4, <2>1
    <3>2. QED BY <1>5, <1>7, <3>1
  <2>2. CASE i \notin C
    <3>1. D \ B = (C \ B) \cup {i} /\ merge = "Added" BY <1>1, <1>2, <1>4, <2>2
    <3>2. P!Id(job'.cand.runs[i]) = id BY <1>1
    <3>3. QED BY <1>5, <1>7, <3>1, <3>2
  <2>3. QED BY <2>1, <2>2
<1>9. {moved(x) : x \in job.enriched}
        = {P!Id(job'.cand.runs[j]) : j \in {k \in B : job.cand.runs[k] # Baseline.runs[k]}}
  BY <1>1, <1>2, <1>3
<1>10. merge = "Enriched" => i \in C
  BY <1>4
<1>11. ASSUME NEW k \in B
       PROVE  (job'.cand.runs[k] # Baseline.runs[k])
                <=> (job.cand.runs[k] # Baseline.runs[k] \/ (k = i /\ merge = "Enriched"))
  <2>1. CASE k # i BY <1>1, <1>2, <1>11, <2>1
  <2>2. CASE k = i
    <3>1. k \in C BY <1>2, <1>11
    <3>2. CASE merge = "Enriched"
      <4>1. \/ job.cand.runs[k].perf = NoSource /\ new.perf # NoSource
            \/ job.cand.runs[k].csv = NoSource /\ new.csv # NoSource
        BY <1>4, <2>2, <3>1, <3>2
      <4>2. job'.cand.runs[k] # Baseline.runs[k] BY <1>1, <1>2, <1>11, <2>2, <4>1
      <4>3. QED BY <2>2, <3>2, <4>2
    <3>3. CASE merge # "Enriched"
      <4>1. job'.cand.runs[k] = job.cand.runs[k] BY <1>1, <1>4, <2>2, <3>1, <3>3
      <4>2. QED BY <3>3, <4>1
    <3>4. QED BY <3>2, <3>3
  <2>3. QED BY <2>1, <2>2
<1> DEFINE E == {k \in B : job.cand.runs[k] # Baseline.runs[k]}
           F == {k \in B : job'.cand.runs[k] # Baseline.runs[k]}
           more == IF merge = "Enriched" THEN {i} ELSE {}
<1>12. F = E \cup (more \cap B) BY <1>11
<1>13. job'.enriched = {P!Id(job'.cand.runs[j]) : j \in E \cup more} \ job'.added
  <2>1. P!Id(job'.cand.runs[i]) = id BY <1>1
  <2>2. CASE merge = "Enriched"
    <3>1. {P!Id(job'.cand.runs[j]) : j \in E \cup more}
            = {P!Id(job'.cand.runs[j]) : j \in E} \cup {id}
      BY <2>1, <2>2
    <3>2. QED BY <1>5, <1>9, <2>2, <3>1
  <2>3. CASE merge # "Enriched" BY <1>5, <1>9, <2>3
  <2>4. QED BY <2>2, <2>3
<1>14. E \cup more \subseteq D /\ F \subseteq E \cup more /\ F \cap (D \ B) = {}
       /\ E \cup more \subseteq F \cup (D \ B)
  BY <1>1, <1>2, <1>10, <1>12
<1> HIDE DEF E, F, more
<1>15. job'.enriched = {P!Id(job'.cand.runs[j]) : j \in F}
  <2>1. ASSUME NEW j \in E \cup more, P!Id(job'.cand.runs[j]) \notin job'.added
        PROVE  j \in F
    BY <1>8, <1>14, <2>1
  <2>2. ASSUME NEW j \in F
        PROVE  j \in E \cup more /\ P!Id(job'.cand.runs[j]) \notin job'.added
    BY <1>6, <1>8, <1>14, <2>2
  <2>3. QED BY <1>13, <2>1, <2>2
<1>16. QED BY <1>8, <1>15 DEF B, C, D, F

LEMMA TurnLinks ==
  ASSUME IInv, JobOK, JobLinks, NEW g, NEW pair, NEW existing, NEW run, NEW merge,
         NEW rekeyed, NEW requested, NEW i, NEW new,
         Turn(g, pair, existing, run, merge, rekeyed, requested, i, new)
  PROVE  JobLinks'
<1>1. info' = info /\ profile' = profile /\ job'.mode = job.mode BY DEF Turn, Booked
<1>2. RunsOK(job'.cand) /\ Together(job'.cand) BY TurnRuns
<1>3. KnownLeads' /\ KnownTells' /\ PairsNew' BY TurnKnown
<1>4. FoundLeads' /\ FoundOrOld' BY TurnFound
<1>5. job'.rekeyed \in Seq(Ids \X Ids) /\ RekeysTell' BY TurnRekeys
<1>6. \A j \in Positions(Baseline) :
        /\ j \in Positions(job'.cand)
        /\ Rekeyed(job'.rekeyed, P!Id(Baseline.runs[j])) = P!Id(job'.cand.runs[j])
        /\ Selected(P!Id(Baseline.runs[j]), job'.rekeyed) = P!Id(job'.cand.runs[j])
        /\ P!Id(job'.cand.runs[j]) # P!Id(Baseline.runs[j]) => job'.cand.runs[j].perf # NoSource
        /\ Baseline.runs[j].perf # NoSource => job'.cand.runs[j].perf # NoSource
        /\ Baseline.runs[j].csv # NoSource => job'.cand.runs[j].csv # NoSource
  BY TurnFollows
<1>7. /\ job'.added = {P!Id(job'.cand.runs[j]) :
                         j \in Positions(job'.cand) \ Positions(Baseline)}
      /\ job'.enriched = {P!Id(job'.cand.runs[j]) :
           j \in {k \in Positions(Baseline) : job'.cand.runs[k] # Baseline.runs[k]}}
  BY TurnCounts
<1>8. Baseline' = Baseline BY <1>1 DEF Baseline, Base, P!EmptyProfile, P!None
<1>9. RunsFollowed' BY <1>6, <1>8 DEF RunsFollowed, Positions, P!Positions, P!Id
<1>10. Counts' BY <1>7, <1>8 DEF Counts, Positions, P!Positions, P!Id
<1>11. RunsOK(job.cand)'
  BY <1>1, <1>2 DEF RunsOK, RunOK, Tells, Mates, Positions, P!Positions, P!Id
<1>12. Together(job.cand)'
  BY <1>1, <1>2 DEF Together, Group, SourcesOf, Positions, P!Positions
<1>13. (job.rekeyed \in Seq(Ids \X Ids))' BY <1>1, <1>5 DEF Ids
<1>14. QED BY <1>3, <1>4, <1>5, <1>9, <1>10, <1>11, <1>12, <1>13 DEF JobLinks

\* A turn that leaves the candidate as it was.
LEMMA SkipLinks ==
  ASSUME JobLinks, UNCHANGED <<info, profile>>,
         job'.mode = job.mode, job'.pairs = job.pairs, job'.left \subseteq job.left,
         job'.cand = job.cand, job'.known = job.known, job'.found = job.found,
         job'.rekeyed = job.rekeyed, job'.added = job.added, job'.enriched = job.enriched
  PROVE  JobLinks'
<1>1. Baseline' = Baseline BY DEF Baseline, Base, P!EmptyProfile, P!None
<1>2. RunsOK(job.cand)'
  BY SMTT(30) DEF JobLinks, RunsOK, RunOK, Tells, Mates, Positions, P!Positions, P!Id
<1>3. Together(job.cand)'
  BY DEF JobLinks, Together, Group, SourcesOf, Positions, P!Positions
<1>4. KnownLeads' BY DEF JobLinks, KnownLeads, SourcesOf, Group, Positions, P!Positions, P!Id
<1>5. KnownTells' BY DEF JobLinks, KnownTells, FilesOf, Group, Tells, Mates
<1>6. PairsNew' BY DEF JobLinks, PairsNew, FilesOf, SourcesOf, Positions, P!Positions
<1>7. FoundLeads'
  BY DEF JobLinks, FoundLeads, SourcesOf, Positions, P!Positions, P!Id, Tells, Mates
<1>8. FoundOrOld' BY <1>1 DEF JobLinks, FoundOrOld, SourcesOf, Positions, P!Positions
<1>9. RekeysTell' BY DEF JobLinks, RekeysTell, Tells, Mates
<1>10. RunsFollowed'
  BY <1>1 DEF JobLinks, RunsFollowed, Positions, P!Positions, P!Id
<1>11. Counts' BY <1>1 DEF JobLinks, Counts, Positions, P!Positions, P!Id
<1>12. (job.rekeyed \in Seq(Ids \X Ids))' BY DEF JobLinks, Ids
<1>13. QED
  BY <1>2, <1>3, <1>4, <1>5, <1>6, <1>7, <1>8, <1>9, <1>10, <1>11, <1>12 DEF JobLinks

LEMMA ImportGroupLinks ==
  ASSUME IInv, IInv', job # NoJob, JobLinks, UNCHANGED info, ImportGroup
  PROVE  JobLinks'
<1> DEFINE g == CHOOSE h \in job.left : \A k \in job.left : h <= k
           pair == job.pairs[g]
           existing == Existing(g)
           run == Ingested(existing, pair)
           same == IF P!Id(run) \in DOMAIN job.cand.index
                   THEN job.cand.runs[job.cand.index[P!Id(run)]] ELSE NoRun
           merge == Merge(run, existing, same)
           previous == IF existing = NoRun THEN P!NoId ELSE P!Id(existing)
<1>1. /\ job.left # {}
      /\ UNCHANGED <<disk, profile, failed, aliases, current, offered>>
      /\ \/ /\ run = NoRun
            /\ job' = [job EXCEPT !.left = @ \ {g}, !.issues = @ \cup FilesOf(pair)]
         \/ Refused(pair)
         \/ run # NoRun /\ merge # "Conflict" /\ Joined(g, pair, existing, run, merge)
  BY DEF ImportGroup
<1>2. JobOK BY DEF IInv
<1>3. g \in job.left BY <1>1, <1>2, LeastExists DEF JobOK
<1> HIDE DEF g
<1>4. ASSUME NEW left, left \subseteq job.left, NEW issues,
             job' = [job EXCEPT !.left = left, !.issues = issues]
      PROVE  JobLinks'
  <2>1. /\ job'.mode = job.mode /\ job'.pairs = job.pairs /\ job'.left = left
        /\ job'.cand = job.cand /\ job'.known = job.known /\ job'.found = job.found
        /\ job'.rekeyed = job.rekeyed /\ job'.added = job.added /\ job'.enriched = job.enriched
    BY <1>2, <1>4 DEF JobOK
  <2>2. QED BY <1>1, <1>4, <2>1, SkipLinks
<1>5. CASE run # NoRun /\ merge # "Conflict" /\ Joined(g, pair, existing, run, merge)
  <2> DEFINE rekeyed == existing # NoRun /\ P!Id(existing) # P!Id(run)
             requested == FilesOf(pair) \cap SourcesOf(run)
  <2>1. merge = P!MergeResult(job.cand, run, previous) BY <1>5 DEF Merge
  <2>2. Booked(g, requested, rekeyed, P!Id(existing), P!Id(run), merge,
               P!MergeImportedRun(job.cand, run, previous))
    <3> HIDE DEF pair, existing, run, merge
    <3>1. QED BY <1>2, <1>5, JoinedBooks
  <2>3. job'.cand = P!MergeImportedRun(job.cand, run, previous) BY <2>2 DEF Booked
  <2>4. \E i, new : Turned(g, pair, existing, run, merge,
                           P!MergeImportedRun(job.cand, run, previous), i, new)
    <3>1. CASE existing = NoRun
      <4>1. ~(g \in DOMAIN job.known /\ job.known[g] \in DOMAIN job.cand.index)
        <5>1. \A e \in Positions(job.cand) :
                Existing(g) = job.cand.runs[e] => Existing(g) # NoRun
          <6>1. Lemmas!ProfileInv(job.cand) BY <1>2 DEF JobOK
          <6>2. \A e \in Positions(job.cand) : job.cand.runs[e] \in Lemmas!Runs
            BY <6>1, CandIds
          <6>3. NoRun \notin Lemmas!Runs BY ScenariosAssumption DEF Lemmas!Runs, NoRun
          <6>4. QED BY <6>2, <6>3
        <5>2. QED BY <1>2, <3>1, <5>1, ExistingIs
      <4>2. /\ Existing(g) = NoRun /\ previous = P!NoId
            /\ run = Ingested(NoRun, pair) /\ existing = NoRun
        BY <3>1
      <4> HIDE DEF existing, run, merge, previous
      <4>3. \E i, new : Turned(g, pair, NoRun, run, merge,
                               P!MergeImportedRun(job.cand, run, P!NoId), i, new)
        BY <1>2, <1>3, <1>5, <2>1, <4>1, <4>2, TurnOfNew
      <4>4. QED BY <4>2, <4>3
    <3>2. CASE existing # NoRun
      <4>1. PICK e \in Positions(job.cand) :
              /\ existing = job.cand.runs[e]
              /\ g \in DOMAIN job.known /\ job.known[g] = P!Id(job.cand.runs[e])
        BY <1>2, <3>2, ExistingIs
      <4>2. previous = P!Id(existing) /\ run = Ingested(existing, pair) BY <3>2
      <4> HIDE DEF existing, run, merge, previous
      <4>3. \E i, new : Turned(g, pair, existing, run, merge,
                               P!MergeImportedRun(job.cand, run, P!Id(existing)), i, new)
        BY <1>2, <1>3, <1>5, <2>1, <3>2, <4>1, <4>2, TurnOfOld
      <4>4. QED BY <4>2, <4>3
    <3>3. QED BY <3>1, <3>2
  <2>5. job' # NoJob
    BY <1>2, <1>5 DEF Joined, JobOK, NoJob
  <2>6. Lemmas!ProfileInv(job'.cand) BY <2>5 DEF IInv, JobOK
  <2> HIDE DEF existing, run, merge, previous
  <2>7. PICK i, new : Turned(g, pair, existing, run, merge, job'.cand, i, new)
    BY <2>3, <2>4
  <2>8. Turn(g, pair, existing, run, merge, rekeyed, requested, i, new)
    BY <1>1, <1>3, <2>2, <2>3, <2>6, <2>7 DEF Turn
  <2> HIDE DEF rekeyed, requested, pair
  <2>9. QED BY <1>2, <2>8, TurnLinks
<1>6. CASE Refused(pair)
  <2>1. job' = [job EXCEPT !.left = job.left \ {Group(f) : f \in FilesOf(pair)},
                           !.issues = job.issues \cup FilesOf(pair)]
    BY <1>6 DEF Refused
  <2> HIDE DEF pair
  <2>2. QED BY <1>4, <2>1
<1>7. CASE job' = [job EXCEPT !.left = @ \ {g}, !.issues = @ \cup FilesOf(pair)]
  <2>1. job' = [job EXCEPT !.left = job.left \ {g}, !.issues = job.issues \cup FilesOf(pair)]
    BY <1>7
  <2> HIDE DEF pair
  <2>2. QED BY <1>4, <2>1
<1>8. QED BY <1>1, <1>5, <1>6, <1>7

-----------------------------------------------------------------------------
(* The scan, the acceptance and the rest keep the second invariant.         *)

LEMMA SourceTells ==
  ASSUME NEW run, RunOK(run), NEW f \in SourcesOf(run)
  PROVE  f \in DOMAIN info /\ Tells(f, P!Id(run))
<1>1. (f = run.perf \/ f = run.csv) /\ f # NoSource BY DEF SourcesOf
<1>2. CASE f = run.perf BY <1>1, <1>2, IdFields DEF RunOK, Tells
<1>3. CASE f = run.csv BY <1>1, <1>3 DEF RunOK
<1>4. QED BY <1>1, <1>2, <1>3

\* What the scan knows a file by is what the file tells, and the run it is in.
LEMMA PathsLead ==
  ASSUME info \in Infos, Links, NEW mode, NEW f \in DOMAIN KnownPaths(mode)
  PROVE  /\ f \in DOMAIN info /\ Tells(f, KnownPaths(mode)[f])
         /\ \A i \in Positions(Base(mode)) :
              f \in SourcesOf(Base(mode).runs[i])
                => KnownPaths(mode)[f] = P!Id(Base(mode).runs[i])
<1> DEFINE Sourced == UNION {SourcesOf(profile.runs[i]) : i \in Positions(profile)}
           k == CHOOSE i \in Positions(profile) : f \in SourcesOf(profile.runs[i])
<1>1. mode # "Rebuild" BY DEF KnownPaths, NoAliases
<1>2. Base(mode) = profile BY <1>1 DEF Base
<1>3. /\ f \in DOMAIN aliases \/ f \in Sourced
      /\ KnownPaths(mode)[f] = IF f \in DOMAIN aliases THEN aliases[f] ELSE P!Id(profile.runs[k])
  BY <1>1 DEF KnownPaths
<1>4. CASE f \in DOMAIN aliases
  BY <1>2, <1>3, <1>4 DEF Links, AliasesLead, AliasesTell
<1>5. CASE f \notin DOMAIN aliases
  <2>1. k \in Positions(profile) /\ f \in SourcesOf(profile.runs[k]) BY <1>3, <1>5
  <2>2. RunOK(profile.runs[k]) BY <2>1 DEF Links, RunsOK
  <2>3. f \in DOMAIN info /\ Tells(f, P!Id(profile.runs[k])) BY <2>1, <2>2, SourceTells
  <2>4. \A i \in Positions(profile) : f \in SourcesOf(profile.runs[i]) => i = k
    BY <2>1 DEF Links, Together
  <2> HIDE DEF k
  <2>5. QED BY <1>2, <1>3, <1>5, <2>3, <2>4
<1>6. QED BY <1>4, <1>5

LEMMA BaseLinks ==
  ASSUME Links, NEW mode
  PROVE  /\ RunsOK(Base(mode)) /\ Together(Base(mode))
         /\ mode = "Rebuild" => Positions(Base(mode)) = {}
         /\ \A i \in Positions(Base(mode)) :
              SourcesOf(Base(mode).runs[i]) \subseteq DOMAIN KnownPaths(mode)
<1>1. CASE mode = "Rebuild"
  <2>1. Positions(Base(mode)) = {}
    BY <1>1 DEF Base, P!EmptyProfile, Positions, P!Positions
  <2>2. QED BY <2>1 DEF RunsOK, Together
<1>2. CASE mode # "Rebuild"
  <2>1. Base(mode) = profile BY <1>2 DEF Base
  <2>2. QED BY <1>2, <2>1 DEF Links, KnownPaths
<1>3. QED BY <1>1, <1>2

LEMMA ScanLinks ==
  ASSUME IInv, Links, UNCHANGED info, NEW mode, Scan(mode)
  PROVE  JobLinks'
<1> DEFINE paths == KnownPaths(mode)
           present == {f \in Files : disk[f] # "Absent"}
           kept == {f \in present \ DOMAIN paths : mode # "Rebuild" /\ Skipped(mode, f)}
           admitted == present \ (DOMAIN paths \cup kept)
           base == Base(mode)
<1>1. PICK ids \in GroupIds(paths) :
        job' = [mode     |-> mode,
                scanned  |-> disk,
                issues   |-> kept,
                pairs    |-> [g \in {Group(f) : f \in admitted} |->
                                [perf |-> Member(admitted, g, "perf"),
                                 csv  |-> Member(admitted, g, "csv")]],
                left     |-> {Group(f) : f \in admitted},
                known    |-> ids,
                cand     |-> base,
                added    |-> {},
                enriched |-> {},
                rekeyed  |-> <<>>,
                found    |-> NoAliases]
  BY DEF Scan
<1>2. UNCHANGED <<info, profile, aliases>> BY DEF Scan
<1>3. info \in Infos /\ admitted \subseteq DOMAIN info /\ admitted \cap DOMAIN paths = {}
  BY DEF IInv, World
<1>4. \A f \in DOMAIN paths :
        /\ f \in DOMAIN info /\ Tells(f, paths[f])
        /\ \A i \in Positions(base) : f \in SourcesOf(base.runs[i]) => paths[f] = P!Id(base.runs[i])
  BY <1>3, PathsLead
<1>5. /\ RunsOK(base) /\ Together(base)
      /\ \A i \in Positions(base) : SourcesOf(base.runs[i]) \subseteq DOMAIN paths
  BY BaseLinks
<1>6. /\ DOMAIN ids = {Group(f) : f \in DOMAIN paths}
      /\ \A g \in DOMAIN ids : \E f \in DOMAIN paths : Group(f) = g /\ paths[f] = ids[g]
  BY DEF GroupIds
<1>7. /\ job'.mode = mode /\ job'.cand = base /\ job'.known = ids
      /\ job'.left = {Group(f) : f \in admitted}
      /\ job'.added = {} /\ job'.enriched = {} /\ job'.rekeyed = <<>> /\ job'.found = NoAliases
      /\ \A g \in {Group(f) : f \in admitted} :
           job'.pairs[g] = [perf |-> Member(admitted, g, "perf"), csv |-> Member(admitted, g, "csv")]
  BY <1>1
<1> HIDE DEF paths, present, kept, admitted, base
<1>8. \A g \in job'.left : FilesOf(job'.pairs[g]) \subseteq admitted
  <2>1. TAKE g \in job'.left
  <2>2. \A half : Member(admitted, g, half) = NoSource \/ Member(admitted, g, half) \in admitted
    BY <1>3, MemberIs
  <2>3. job'.pairs[g] = [perf |-> Member(admitted, g, "perf"), csv |-> Member(admitted, g, "csv")]
    BY <1>7
  <2>4. QED BY <2>2, <2>3 DEF FilesOf
\* What is left of a group that is known has the other half of what is known.
<1>9. ASSUME NEW g \in job'.left, NEW f \in DOMAIN paths, NEW h \in DOMAIN paths,
             Group(f) = g, Group(h) = g
      PROVE  f = h
  <2>1. PICK a \in admitted : Group(a) = g BY <1>7, <1>9
  <2>2. a # f /\ a # h BY <1>3, <1>9, <2>1
  <2>3. a \in DOMAIN info /\ f \in DOMAIN info /\ h \in DOMAIN info BY <1>3, <1>4, <1>9, <2>1
  <2>4. info[f].half \in Halves /\ info[h].half \in Halves /\ info[a].half \in Halves
    BY <1>3, <2>3, FileTyped
  <2>5. info[a].half # info[f].half /\ info[a].half # info[h].half
    BY <1>3, <1>9, <2>1, <2>2, <2>3, TwoHalves
  <2>6. info[f].half = info[h].half BY <2>4, <2>5 DEF Halves
  <2>7. QED BY <1>3, <1>9, <2>3, <2>6, TwoHalves
<1>10. ASSUME NEW g \in job'.left, NEW i \in Positions(base),
              NEW f \in SourcesOf(base.runs[i]), Group(f) = g
       PROVE  g \in DOMAIN ids /\ ids[g] = P!Id(base.runs[i])
  <2>1. f \in DOMAIN paths BY <1>5, <1>10
  <2>2. g \in DOMAIN ids BY <1>6, <1>10, <2>1
  <2>3. PICK h \in DOMAIN paths : Group(h) = g /\ paths[h] = ids[g] BY <1>6, <2>2
  <2>4. h = f BY <1>9, <1>10, <2>1, <2>3
  <2>5. QED BY <1>4, <1>10, <2>1, <2>2, <2>3, <2>4
<1>11. KnownLeads'
  BY <1>2, <1>7, <1>10 DEF KnownLeads, SourcesOf, Group, Positions, P!Positions, P!Id
<1>12. ASSUME NEW g \in job'.left \cap DOMAIN ids
       PROVE  \E f \in DOMAIN info : f \notin FilesOf(job'.pairs[g]) /\ Group(f) = g /\ Tells(f, ids[g])
  <2>1. PICK h \in DOMAIN paths : Group(h) = g /\ paths[h] = ids[g] BY <1>6, <1>12
  <2>2. h \in DOMAIN info /\ Tells(h, ids[g]) BY <1>4, <2>1
  <2>3. h \notin FilesOf(job'.pairs[g]) BY <1>3, <1>8, <1>12, <2>1
  <2>4. QED BY <2>1, <2>2, <2>3
<1>13. KnownTells' BY <1>2, <1>7, <1>12 DEF KnownTells, FilesOf, Group, Tells, Mates
<1>14. ASSUME NEW g \in job'.left, NEW i \in Positions(base)
       PROVE  FilesOf(job'.pairs[g]) \cap SourcesOf(base.runs[i]) = {}
  BY <1>3, <1>5, <1>8, <1>14
<1>15. PairsNew' BY <1>7, <1>14 DEF PairsNew, FilesOf, SourcesOf, Positions, P!Positions
<1>16. Baseline' = base
  BY <1>2, <1>7 DEF Baseline, base, Base, P!EmptyProfile, P!None
<1>17. FoundLeads' /\ FoundOrOld'
  <2>1. FoundLeads' BY <1>7 DEF FoundLeads, NoAliases
  <2>2. FoundOrOld' BY <1>7, <1>16 DEF FoundOrOld, SourcesOf, Positions, P!Positions
  <2>3. QED BY <2>1, <2>2
<1>18. RekeysTell' /\ (job.rekeyed \in Seq(Ids \X Ids))'
  <2>1. DOMAIN job'.rekeyed = {} BY <1>7
  <2>2. RekeysTell' BY <2>1 DEF RekeysTell
  <2>3. (job.rekeyed \in Seq(Ids \X Ids))' BY <1>7
  <2>4. QED BY <2>2, <2>3
<1>19. RunsFollowed'
  <2>1. \A id : Rekeyed(<<>>, id) = id BY RekeyedNone
  <2>2. \A id : Selected(id, <<>>) = id BY SelectedEmpty
  <2>3. QED BY <1>7, <1>16, <2>1, <2>2 DEF RunsFollowed, Positions, P!Positions, P!Id
<1>20. Counts' BY <1>7, <1>16 DEF Counts, Positions, P!Positions
<1>21. RunsOK(job.cand)'
  BY <1>2, <1>5, <1>7 DEF RunsOK, RunOK, Tells, Mates, Positions, P!Positions, P!Id
<1>22. Together(job.cand)'
  BY <1>2, <1>5, <1>7 DEF Together, Group, SourcesOf, Positions, P!Positions
<1>23. QED
  BY <1>11, <1>13, <1>15, <1>17, <1>18, <1>19, <1>20, <1>21, <1>22 DEF JobLinks

LEMMA AcceptLinks ==
  ASSUME IInv, Links, UNCHANGED info, Accept
  PROVE  RunsOK(profile)' /\ Together(profile)' /\ AliasesLead' /\ AliasesTell'
<1>1. /\ job # NoJob /\ profile' = job.cand
      /\ aliases' = [f \in DOMAIN aliases \cup DOMAIN job.found |->
                       IF f \in DOMAIN job.found THEN job.found[f]
                       ELSE Rekeyed(job.rekeyed, aliases[f])]
  BY DEF Accept, AcceptAliases
<1>2. JobLinks BY <1>1 DEF Links
<1>3. ASSUME NEW f \in DOMAIN aliases', NEW i \in Positions(job.cand),
             f \in SourcesOf(job.cand.runs[i])
      PROVE  aliases'[f] = P!Id(job.cand.runs[i])
  <2>1. CASE f \in DOMAIN job.found BY <1>1, <1>2, <1>3, <2>1 DEF JobLinks, FoundLeads
  <2>2. CASE f \notin DOMAIN job.found
    <3>1. i \in Positions(Baseline) /\ f \in SourcesOf(Baseline.runs[i])
      BY <1>2, <1>3, <2>2 DEF JobLinks, FoundOrOld
    <3>2. job.mode # "Rebuild" BY <3>1, BaseLinks DEF Baseline
    <3>3. Baseline = profile BY <3>2 DEF Baseline, Base
    <3>4. f \in DOMAIN aliases /\ aliases'[f] = Rekeyed(job.rekeyed, aliases[f])
      BY <1>1, <1>3, <2>2
    <3>5. aliases[f] = P!Id(profile.runs[i]) BY <3>1, <3>3, <3>4 DEF Links, AliasesLead
    <3>6. Rekeyed(job.rekeyed, P!Id(profile.runs[i])) = P!Id(job.cand.runs[i])
      BY <1>2, <3>1, <3>3 DEF JobLinks, RunsFollowed
    <3>7. QED BY <3>4, <3>5, <3>6
  <2>3. QED BY <2>1, <2>2
<1>4. ASSUME NEW f \in DOMAIN aliases'
      PROVE  f \in DOMAIN info /\ Tells(f, aliases'[f])
  <2>1. CASE f \in DOMAIN job.found BY <1>1, <1>2, <2>1 DEF JobLinks, FoundLeads
  <2>2. CASE f \notin DOMAIN job.found
    <3>1. f \in DOMAIN aliases /\ aliases'[f] = Rekeyed(job.rekeyed, aliases[f])
      BY <1>1, <1>4, <2>2
    <3>2. f \in DOMAIN info /\ Tells(f, aliases[f]) BY <3>1 DEF Links, AliasesTell
    <3>3. CASE \E k \in DOMAIN job.rekeyed : job.rekeyed[k][1] = aliases[f]
      <4>1. job.rekeyed \in Seq(Ids \X Ids) BY <1>2 DEF JobLinks
      <4>2. PICK m \in DOMAIN job.rekeyed :
              job.rekeyed[m][1] = aliases[f] /\ Rekeyed(job.rekeyed, aliases[f]) = job.rekeyed[m][2]
        BY <3>3, <4>1, RekeyedLeast
      <4>3. Tells(f, job.rekeyed[m][2]) BY <1>2, <3>2, <4>2 DEF JobLinks, RekeysTell
      <4>4. QED BY <3>1, <3>2, <4>2, <4>3
    <3>4. CASE ~\E k \in DOMAIN job.rekeyed : job.rekeyed[k][1] = aliases[f]
      BY <3>1, <3>2, <3>4, RekeyedNone
    <3>5. QED BY <3>3, <3>4
  <2>3. QED BY <2>1, <2>2
<1>5. AliasesLead'
  <2>1. profile' = job.cand BY <1>1
  <2>2. QED BY <1>3, <2>1 DEF AliasesLead, SourcesOf, Positions, P!Positions, P!Id
<1>6. AliasesTell' BY <1>4 DEF AliasesTell, Tells, Mates
<1>7. RunsOK(profile)'
  BY <1>1, <1>2, SMTT(30) DEF JobLinks, RunsOK, RunOK, Tells, Mates, Positions, P!Positions, P!Id
<1>8. Together(profile)'
  BY <1>1, <1>2 DEF JobLinks, Together, Group, SourcesOf, Positions, P!Positions
<1>9. QED BY <1>5, <1>6, <1>7, <1>8

LEMMA OutsideLinks ==
  ASSUME Links, UNCHANGED <<info, profile>>, aliases' = aliases \/ aliases' = NoAliases
  PROVE  RunsOK(profile)' /\ Together(profile)' /\ AliasesLead' /\ AliasesTell'
<1>1. RunsOK(profile)'
  BY DEF Links, RunsOK, RunOK, Tells, Mates, Positions, P!Positions, P!Id
<1>2. Together(profile)' BY DEF Links, Together, Group, SourcesOf, Positions, P!Positions
<1>3. AliasesLead'
  BY DEF Links, AliasesLead, SourcesOf, Positions, P!Positions, P!Id, NoAliases
<1>4. AliasesTell' BY DEF Links, AliasesTell, Tells, Mates, NoAliases
<1>5. QED BY <1>1, <1>2, <1>3, <1>4

LEMMA LinksInit == Init => Links
<1> SUFFICES ASSUME Init PROVE Links
  OBVIOUS
<1>1. Positions(profile) = {} BY DEF Init, P!EmptyProfile, Positions, P!Positions
<1>2. DOMAIN aliases = {} /\ job = NoJob BY DEF Init, NoAliases
<1>3. QED BY <1>1, <1>2 DEF Links, RunsOK, Together, AliasesLead, AliasesTell

LEMMA LinksStep == IInv /\ IInv' /\ Links /\ [Next]_vars => Links'
<1> SUFFICES ASSUME IInv, IInv', Links, [Next]_vars PROVE Links'
  OBVIOUS
<1>1. ASSUME UNCHANGED <<info, profile, aliases, job>> PROVE Links'
  <2>1. RunsOK(profile)' /\ Together(profile)' /\ AliasesLead' /\ AliasesTell'
    BY <1>1, OutsideLinks
  <2>2. JobLinks => JobLinks'
    BY <1>1, SkipLinks
  <2>3. QED BY <1>1, <2>1, <2>2 DEF Links
<1>2. ASSUME NEW mode, Scan(mode), UNCHANGED info PROVE Links'
  <2>1. JobLinks' BY <1>2, ScanLinks
  <2>2. UNCHANGED <<info, profile, aliases>> BY <1>2 DEF Scan
  <2>3. QED BY <2>1, <2>2, OutsideLinks DEF Links
<1>3. CASE UNCHANGED info /\ ImportGroup
  <2>1. job # NoJob /\ JobLinks BY <1>3 DEF ImportGroup, Links
  <2>2. JobLinks' BY <1>3, <2>1, ImportGroupLinks
  <2>3. UNCHANGED <<info, profile, aliases>> BY <1>3 DEF ImportGroup
  <2>4. QED BY <2>2, <2>3, OutsideLinks DEF Links
<1>4. CASE UNCHANGED info /\ Accept
  <2>1. job' = NoJob BY <1>4 DEF Accept
  <2>2. QED BY <1>4, <2>1, AcceptLinks DEF Links
<1>5. CASE UNCHANGED info /\ Abandon
  <2>1. job' = NoJob /\ UNCHANGED <<info, profile, aliases>> BY <1>5 DEF Abandon
  <2>2. QED BY <2>1, OutsideLinks DEF Links
<1>6. CASE UNCHANGED info /\ Restart
  <2>1. job = NoJob /\ job' = job /\ UNCHANGED <<info, profile>> /\ aliases' = NoAliases
    BY <1>6 DEF Restart
  <2>2. QED BY <2>1, OutsideLinks DEF Links
<1>7. ASSUME NEW id, SelectRun(id), UNCHANGED info PROVE Links'
  BY <1>1, <1>7 DEF SelectRun
<1>8. CASE /\ UNCHANGED info
           /\ \/ \E f \in Files : \E state \in {"Partial", "Complete"} : FileAppears(f, state)
              \/ \E f \in Files : FileCompletes(f)
  BY <1>1, <1>8 DEF FileAppears, FileCompletes
<1>9. CASE UNCHANGED vars BY <1>1, <1>9 DEF vars
<1>10. QED BY <1>2, <1>3, <1>4, <1>5, <1>6, <1>7, <1>8, <1>9 DEF Next

LEMMA LinksAlways == Spec => [](IInv /\ Links)
<1>1. Init => IInv /\ Links BY InvInit, LinksInit
<1>2. IInv /\ Links /\ [Next]_vars => IInv' /\ Links' BY InvStep, LinksStep
<1>3. QED BY <1>1, <1>2, PTL DEF Spec

\* A file of a run is remembered under the identity the run has now, in whatever import and by
\* whatever file it was re-keyed (PreparedProfileImport::rekeyed_runs, ProfileService::acceptAliases).
THEOREM AliasesStayLeading == Spec => []AliasesLead
<1>1. Links => AliasesLead BY DEF Links
<1>2. QED BY <1>1, LinksAlways, PTL

\* Whichever of its files came first, a run tells what its performance, or else its CSV, says,
\* and no two runs hold files of one group (RunIngestor::ingestRun,
\* UserProfile::mergeImportedRun).
THEOREM RunsStayExact == Spec => []RunsExact
<1>1. Links => RunsExact
  <2> SUFFICES ASSUME Links PROVE RunsExact
    OBVIOUS
  <2>1. ASSUME NEW i \in Positions(profile)
        PROVE  SourcesOf(profile.runs[i]) # {} /\ CanonicalRun(profile.runs[i])
    <3> DEFINE run == profile.runs[i]
    <3>1. RunOK(run) BY <2>1 DEF Links, RunsOK
    <3> HIDE DEF run
    <3>2. CASE run.perf # NoSource BY <3>1, <3>2 DEF RunOK, SourcesOf, CanonicalRun, run
    <3>3. CASE run.perf = NoSource BY <3>1, <3>3 DEF RunOK, SourcesOf, CanonicalRun, run
    <3>4. QED BY <3>2, <3>3
  <2>2. PairTogether BY DEF Links, Together, PairTogether
  <2>3. QED BY <2>1, <2>2 DEF RunsExact, RunsCanonical
<1>2. QED BY <1>1, LinksAlways, PTL

-----------------------------------------------------------------------------
(* What the files tell: times of day, stamps and what is concluded of them. *)

\* Hours, minutes and seconds are the digits of a number of seconds.
LEMMA Clock ==
  ASSUME NEW n \in Nat
  PROVE  /\ n \div (24 * 60 * 60) \in Nat
         /\ (n \div (60 * 60)) % 24 \in 0 .. 23 /\ (n \div 60) % 60 \in 0 .. 59 /\ n % 60 \in 0 .. 59
         /\ (((n \div (24 * 60 * 60)) * 24 + ((n \div (60 * 60)) % 24)) * 60
               + ((n \div 60) % 60)) * 60 + (n % 60) = n
<1>1. /\ n \div (24 * 60 * 60) \in Nat
      /\ (n \div (60 * 60)) % 24 \in 0 .. 23 /\ (n \div 60) % 60 \in 0 .. 59 /\ n % 60 \in 0 .. 59
  BY SMT
<1>2. (n \div (24 * 60 * 60)) * 24 + ((n \div (60 * 60)) % 24) = n \div (60 * 60)
  BY SMT
<1>3. (n \div (60 * 60)) * 60 + ((n \div 60) % 60) = n \div 60
  BY SMT
<1>4. (n \div 60) * 60 + (n % 60) = n
  BY SMT
<1>5. QED BY <1>1, <1>2, <1>3, <1>4, SMT

LEMMA StampTells ==
  ASSUME NEW play, play.end \in Nat
  PROVE  /\ play.end \div 1000 \in Nat
         /\ MkTime(Stamp(play)) = (play.end \div 1000) * 1000
         /\ Stamp(play) # NoStamp
<1> DEFINE n == play.end \div 1000
<1>1. n \in Nat
  BY SMT
<1>2. Stamp(play) = [day |-> n \div (24 * 60 * 60), hour |-> (n \div (60 * 60)) % 24,
                     minute |-> (n \div 60) % 60, second |-> n % 60]
  BY SMT DEF Stamp, Second
<1> HIDE DEF n
<1>3. MkTime(Stamp(play)) = n * 1000
  BY <1>1, <1>2, Clock, SMT DEF MkTime, Second
<1>4. Stamp(play).second # -1
  BY <1>1, <1>2, Clock, SMT
<1>5. Stamp(play) # NoStamp
  BY <1>4, SMT DEF NoStamp
<1>6. QED BY <1>1, <1>3, <1>5 DEF n

\* The time of day survives being written with three digits and read again.
LEMMA TimeOfDayTells ==
  ASSUME NEW t \in Nat
  PROVE  ParseTimeOfDay(TimeOfDay(t)) = t % 86400000
<1> DEFINE c == t % 86400000
           n == c \div 1000
           r == t % 1000
<1>1. c \in Nat /\ n \in Nat /\ r \in Nat /\ r < 1000 /\ c < 86400000 /\ c = n * 1000 + r
  BY SMT
<1>2. TimeOfDay(t) = [hour |-> n \div (60 * 60), minute |-> (n \div 60) % 60, second |-> n % 60,
                      digits |-> <<r \div 100, (r \div 10) % 10, r % 10>>]
  BY SMT DEF TimeOfDay, Day, Second
<1> HIDE DEF c, n, r
<1>3. ((n \div (60 * 60)) * 60 + ((n \div 60) % 60)) * 60 + (n % 60) = n
  BY <1>1, SMT
<1>4. 100 * (r \div 100) + 10 * ((r \div 10) % 10) + (r % 10) = r
  BY <1>1, SMT
<1>5. Milliseconds(<<r \div 100, (r \div 10) % 10, r % 10>>)
        = 100 * (r \div 100) + 10 * ((r \div 10) % 10) + (r % 10)
  BY SMT DEF Milliseconds
<1>6. ParseTimeOfDay(TimeOfDay(t)) = n * 1000 + r
  BY <1>1, <1>2, <1>3, <1>4, <1>5, SMT DEF ParseTimeOfDay, Second
<1>7. QED BY <1>1, <1>6, SMT DEF c

\* Within a day's time the day on which a challenge began is found again.
LEMMA TimingTells ==
  ASSUME NEW play, NEW b \in Nat, NEW e \in Nat, play.end = e, b <= e, e - b < 86399000
  PROVE  LET timing == DeriveCsvTiming(Stamp(play), b % 86400000) IN
         /\ timing.start \in Int /\ timing.start <= b /\ b < timing.start + 1000
         /\ timing.length \in Nat /\ timing.length <= e - b /\ e - b < timing.length + 1000
<1> DEFINE k == e \div 1000
           t == MkTime(Stamp(play))
           c == t % 86400000
           s == b % 86400000
<1>1. k \in Nat /\ t = k * 1000 /\ t <= e /\ e - t < 1000
  BY StampTells, SMT
<1>3. DeriveCsvTiming(Stamp(play), b % 86400000) = [start |-> t - Span(s, c), length |-> Span(s, c)]
  BY SMT DEF DeriveCsvTiming, Day, Second
<1> HIDE DEF t, k
<1> DEFINE i == b \div 86400000
           j == t \div 86400000
<1>4. i \in Nat /\ j \in Nat /\ b = i * 86400000 + s /\ t = j * 86400000 + c
      /\ s \in Nat /\ c \in Nat /\ s < 86400000 /\ c < 86400000
  BY <1>1, SMT
<1> HIDE DEF i, j, c, s
\* The second in which it ended does not lie before the day on which it began.
<1>5. i * 86400 <= k
  BY <1>1, <1>4, SMT
<1>6. j = i \/ j = i + 1
  BY <1>1, <1>4, <1>5, SMT
<1>7. CASE j = i
  <2>1. s <= c + 1000 BY <1>1, <1>4, <1>7, SMT
  <2>2. Span(s, c) = IF c < s THEN 0 ELSE c - s
    BY <1>4, <2>1, SMT DEF Span, CrossedMidnight, Second
  <2>3. t - b = c - s BY <1>4, <1>7, SMT
  <2>4. CASE c < s BY <1>1, <1>3, <1>4, <2>2, <2>3, <2>4, SMT
  <2>5. CASE c >= s BY <1>1, <1>3, <1>4, <2>2, <2>3, <2>5, SMT
  <2>6. QED BY <1>4, <2>4, <2>5, SMT
<1>8. CASE j = i + 1
  <2>1. s > c + 1000 BY <1>1, <1>4, <1>8, SMT
  <2>2. Span(s, c) = c + 86400000 - s
    BY <1>4, <2>1, SMT DEF Span, CrossedMidnight, Second, Day
  <2>3. QED BY <1>1, <1>3, <1>4, <1>8, <2>2, SMT
<1>9. QED BY <1>6, <1>7, <1>8

\* Its length, without its pauses, too.
LEMMA UnpausedTells ==
  ASSUME NEW length \in Nat, NEW pause \in Nat, NEW true \in Nat,
         pause <= true, length <= true, true < length + 1000
  PROVE  /\ Unpaused(length, pause) \in Nat
         /\ Unpaused(length, pause) <= true - pause /\ true - pause < Unpaused(length, pause) + 1000
BY SMT DEF Unpaused

LEMMA Within ==
  ASSUME NEW n \in Nat, NEW x \in Int, 0 <= x, x < n
  PROVE  x \in 0 .. n - 1
BY SMT

\* What a CSV tells of a recording.
LEMMA CsvTells ==
  ASSUME info \in Infos, NEW f \in DOMAIN info, info[f].half = "csv", info[f].start # NoStart
  PROVE  LET play == Played[info[f].data] IN
         /\ play.begin - info[f].start \in 0 .. Second - 1
         /\ play.old \/ play.end - play.begin - play.paused - info[f].length \in 0 .. Second - 1
<1> DEFINE play == Played[info[f].data]
           timing == DeriveCsvTiming(Stamp(play), play.begin % 86400000)
<1>1. info[f].data \in DOMAIN Played
  BY CsvAssumption
<1>2. /\ play.begin \in Nat /\ play.end \in Nat /\ play.paused \in Nat /\ play.old \in BOOLEAN
      /\ play.begin + play.paused <= play.end
      /\ play.end - play.begin < 86399000
  BY <1>1, PlayedAssumption, SMT DEF Day, Second
<1>3. PICK stamp \in {NoStamp, Stamp(play)} :
        \E pause \in IF play.old THEN Leftovers ELSE {play.paused} :
          info[f] = CsvInfo(info[f].group, info[f].scenario, stamp, TimeOfDay(play.begin),
                            info[f].data, pause)
  BY CsvAssumption
<1>4. PICK pause \in IF play.old THEN Leftovers ELSE {play.paused} :
        info[f] = CsvInfo(info[f].group, info[f].scenario, stamp, TimeOfDay(play.begin),
                          info[f].data, pause)
  BY <1>3
<1> HIDE DEF play
<1>5. ParseTimeOfDay(TimeOfDay(play.begin)) = play.begin % 86400000
  BY <1>2, TimeOfDayTells
<1>6. stamp = Stamp(play) /\ stamp # NoStamp
  <2>1. stamp # NoStamp BY <1>4 DEF CsvInfo
  <2>2. QED BY <1>3, <2>1
<1>7. info[f].start = timing.start /\ info[f].length = Unpaused(timing.length, pause)
  BY <1>4, <1>5, <1>6 DEF CsvInfo
<1>8. /\ timing.start \in Int /\ timing.start <= play.begin /\ play.begin < timing.start + 1000
      /\ timing.length \in Nat /\ timing.length <= play.end - play.begin
      /\ play.end - play.begin < timing.length + 1000
  BY <1>2, TimingTells, SMT
<1> HIDE DEF timing
<1>9. Second = 1000 BY DEF Second
<1>10. play.begin - info[f].start \in 0 .. Second - 1
  <2> DEFINE x == play.begin - info[f].start
  <2>1. Second \in Nat /\ x \in Int /\ 0 <= x /\ x < Second BY <1>2, <1>7, <1>8, <1>9, SMT
  <2> HIDE DEF x
  <2>2. x \in 0 .. Second - 1 BY <2>1, Within
  <2>3. QED BY <2>2 DEF x
<1>11. ASSUME ~ play.old
       PROVE  play.end - play.begin - play.paused - info[f].length \in 0 .. Second - 1
  <2> DEFINE true == play.end - play.begin
  <2>1. pause = play.paused BY <1>4, <1>11
  <2>2. true \in Nat /\ play.paused <= true BY <1>2, SMT
  <2> HIDE DEF true
  <2>3. /\ info[f].length \in Nat /\ info[f].length <= true - pause
        /\ true - pause < info[f].length + 1000
    BY <1>2, <1>7, <1>8, <2>1, <2>2, UnpausedTells, SMT DEF true
  <2> DEFINE x == true - play.paused - info[f].length
  <2>4. Second \in Nat /\ x \in Int /\ 0 <= x /\ x < Second
    BY <1>2, <1>9, <2>1, <2>2, <2>3, SMT
  <2> HIDE DEF x
  <2>5. x \in 0 .. Second - 1 BY <2>4, Within
  <2>6. QED BY <2>5 DEF x, true
<1>12. QED BY <1>10, <1>11 DEF play

\* A recording of which only the CSV has arrived is in the profile with the start and the
\* length at which it was played, to the second, whatever lies between, midnight included
\* (deriveCsvTiming, StatsCsvParser::parseFile, RunIngestor::ingestSibling).
THEOREM RunsTellWhatWasPlayed == Spec => []PlayedAsTold
<1>1. IInv /\ Links => PlayedAsTold
  <2> SUFFICES ASSUME IInv, Links, NEW i \in Positions(profile), profile.runs[i].perf = NoSource
               PROVE  LET run == profile.runs[i]
                          play == Played[info[run.csv].data] IN
                      /\ play.begin - run.start \in 0 .. Second - 1
                      /\ \/ play.old
                         \/ play.end - play.begin - play.paused - run.length \in 0 .. Second - 1
    BY DEF PlayedAsTold
  <2>1. info \in Infos BY DEF IInv, World
  <2> DEFINE f == profile.runs[i].csv
  <2>2. RunOK(profile.runs[i]) BY DEF Links, RunsOK
  <2>3. /\ f \in DOMAIN info /\ info[f].half = "csv" /\ info[f].start # NoStart
        /\ info[f].start = profile.runs[i].start /\ info[f].length = profile.runs[i].length
    BY <2>2 DEF RunOK
  <2> HIDE DEF f
  <2>4. QED BY <2>1, <2>3, CsvTells DEF f
<1>2. QED BY <1>1, LinksAlways, PTL

-----------------------------------------------------------------------------
(* Counts and the selection.                                                *)

\* There are as many identities of later runs as there are later runs.
LEMMA LaterRuns ==
  ASSUME NEW p, Lemmas!ProfileInv(p), NEW m \in Nat, m <= Len(p.runs)
  PROVE  Cardinality({P!Id(p.runs[i]) : i \in Positions(p) \ (1 .. m)}) = Len(p.runs) - m
<1> DEFINE n == Len(p.runs)
           S == m + 1 .. n
           T == {P!Id(p.runs[i]) : i \in S}
           f == [i \in S |-> P!Id(p.runs[i])]
<1>1. n \in Nat /\ Positions(p) = 1 .. n
  <2>1. p.runs \in Seq(Lemmas!Runs) BY DEF Lemmas!ProfileInv, Lemmas!Shaped
  <2>2. QED BY <2>1 DEF Positions, P!Positions
<1>2. Positions(p) \ (1 .. m) = S BY <1>1
<1>3. IsFiniteSet(S) /\ Cardinality(S) = n - m
  <2>1. m + 1 \in Int /\ n \in Int BY <1>1
  <2>2. /\ IsFiniteSet(m + 1 .. n)
        /\ Cardinality(m + 1 .. n) = IF m + 1 > n THEN 0 ELSE n - (m + 1) + 1
    BY <2>1, FS_Interval
  <2>3. QED BY <1>1, <2>2
<1>4. \A i, j \in S : f[i] = f[j] => i = j
  <2>1. S \subseteq Positions(p) BY <1>1
  <2>2. \A i, j \in Positions(p) : P!Id(p.runs[i]) = P!Id(p.runs[j]) => i = j BY CandIds
  <2> HIDE DEF S
  <2>3. QED BY <2>1, <2>2
<1> HIDE DEF S
<1>5. f \in Bijection(S, T)
  <2>1. f \in [S -> T] /\ \A t \in T : \E i \in S : f[i] = t OBVIOUS
  <2> HIDE DEF f, T
  <2>2. f \in Injection(S, T) BY <1>4, <2>1 DEF Injection, IsInjective
  <2>3. f \in Surjection(S, T) BY <2>1 DEF Surjection
  <2>4. QED BY <2>2, <2>3 DEF Bijection
<1>6. ExistsBijection(S, T)
  <2> HIDE DEF f, T
  <2>1. QED BY <1>5 DEF ExistsBijection
<1>7. Cardinality(T) = Cardinality(S)
  <2> HIDE DEF T
  <2>1. QED BY <1>3, <1>6, FS_Bijection
<1>8. QED BY <1>2, <1>3, <1>7

\* What an import reports are the runs that are new, and the older runs that gained something,
\* each counted once and under the identity it has in the end (ProfileImporter::run).
THEOREM CountsStayExact == Spec => []CountsExact
<1>1. IInv /\ Links => CountsExact
  <2> SUFFICES ASSUME IInv, Links, job # NoJob PROVE CountsExact
    BY DEF CountsExact
  <2> DEFINE before == Base(job.mode)
             after == job.cand
  <2>1. Lemmas!ProfileInv(after) /\ JobLinks BY DEF IInv, JobOK, Links
  <2>2. Lemmas!ProfileInv(before)
    BY SameOperators, Lemmas!EmptyKeeps DEF Base, IInv, World
  <2>3. /\ before.runs \in Seq(Lemmas!Runs) /\ after.runs \in Seq(Lemmas!Runs)
        /\ Positions(before) = 1 .. Len(before.runs) /\ DOMAIN before.runs = Positions(before)
        /\ Positions(after) = 1 .. Len(after.runs)
    BY <2>1, <2>2 DEF Lemmas!ProfileInv, Lemmas!Shaped, Positions, P!Positions
  <2>4. /\ job.added = {P!Id(after.runs[i]) : i \in Positions(after) \ Positions(before)}
        /\ job.enriched = {P!Id(after.runs[i]) :
                             i \in {i \in Positions(before) : after.runs[i] # before.runs[i]}}
    BY <2>1 DEF JobLinks, Counts, Baseline
  <2>5. Positions(before) \subseteq Positions(after)
    BY <2>1 DEF JobLinks, RunsFollowed, Baseline
  <2> HIDE DEF before, after
  <2>6. Len(before.runs) \in Nat /\ Len(after.runs) \in Nat BY <2>3
  <2>7. Len(before.runs) <= Len(after.runs)
    <3>1. CASE Len(before.runs) = 0 BY <2>6, <3>1
    <3>2. CASE Len(before.runs) # 0
      <4>1. Len(before.runs) \in Positions(before) BY <2>3, <2>6, <3>2
      <4>2. Len(before.runs) \in 1 .. Len(after.runs) BY <2>3, <2>5, <4>1
      <4>3. QED BY <2>6, <4>2
    <3>3. QED BY <3>1, <3>2
  <2>8. Cardinality(job.added) = Len(after.runs) - Len(before.runs)
    <3>1. Cardinality({P!Id(after.runs[i]) : i \in Positions(after) \ (1 .. Len(before.runs))})
            = Len(after.runs) - Len(before.runs)
      BY <2>1, <2>6, <2>7, LaterRuns
    <3>2. QED BY <2>3, <2>4, <3>1
  <2>9. job.enriched = {P!Id(after.runs[i]) :
                          i \in {i \in DOMAIN before.runs : after.runs[i] # before.runs[i]}}
    BY <2>3, <2>4
  <2>10. QED BY <2>8, <2>9 DEF CountsExact, before, after
<1>2. QED BY <1>1, LinksAlways, PTL

\* A refresh by the user leaves the run the user looks at selected, under whatever identity the
\* import has given it (SessionController::refreshCurrentRun).
THEOREM SelectionFollowsRun == Spec => CurrentFollowed
<1>1. ASSUME IInv, Links, Accept, job.mode = "Manual", current \in DOMAIN profile.index
      PROVE  /\ current' \in DOMAIN profile'.index
             /\ profile'.index[current'] = profile.index[current]
  <2>1. job # NoJob /\ profile' = job.cand BY <1>1 DEF Accept
  <2>2. JobLinks /\ Lemmas!ProfileInv(job.cand) /\ Lemmas!ProfileInv(profile)
    BY <1>1, <2>1 DEF Links, IInv, JobOK, World
  <2>3. /\ DOMAIN profile.index = {P!Id(profile.runs[i]) : i \in Positions(profile)}
        /\ \A i \in Positions(profile) :
             profile.index[P!Id(profile.runs[i])] = i /\ profile.runs[i] \in Lemmas!Runs
    BY <2>2, CandIds
  <2>4. PICK p \in Positions(profile) : current = P!Id(profile.runs[p]) BY <1>1, <2>3
  <2>5. profile.index[current] = p BY <2>3, <2>4
  <2>6. current # P!NoId
    <3>1. profile.runs[p].scenario \in Scenarios BY <2>3, <2>4 DEF Lemmas!Runs
    <3>2. QED BY <2>4, <3>1, ScenariosAssumption DEF P!Id, P!NoId
  <2>7. Baseline = profile BY <1>1 DEF Baseline, Base
  <2>8. /\ p \in Positions(job.cand)
        /\ Selected(current, job.rekeyed) = P!Id(job.cand.runs[p])
    BY <2>2, <2>4, <2>7 DEF JobLinks, RunsFollowed
  <2>9. /\ P!Id(job.cand.runs[p]) \in DOMAIN job.cand.index
        /\ job.cand.index[P!Id(job.cand.runs[p])] = p
    BY <2>2, <2>8, CandIds
  <2>10. current' = IF Changed /\ P!Id(job.cand.runs[p]) \in DOMAIN job.cand.index
                    THEN P!Id(job.cand.runs[p]) ELSE current
    <3>1. RefreshCurrentRun BY <1>1 DEF Accept
    <3>2. QED BY <1>1, <2>6, <2>8, <3>1 DEF RefreshCurrentRun
  <2>11. CASE Changed BY <2>1, <2>5, <2>9, <2>10, <2>11
  <2>12. CASE ~Changed
    <3>1. profile' = profile /\ current' = current BY <2>1, <2>10, <2>12 DEF Changed
    <3>2. QED BY <1>1, <3>1
  <2>13. QED BY <2>11, <2>12
<1>2. IInv /\ Links /\ [Next]_vars =>
        [(Accept /\ job.mode = "Manual" /\ current \in DOMAIN profile.index) =>
           /\ current' \in DOMAIN profile'.index
           /\ profile'.index[current'] = profile.index[current]]_vars
  BY <1>1
<1>3. QED BY <1>2, LinksAlways, PTL DEF Spec, CurrentFollowed

=============================================================================
