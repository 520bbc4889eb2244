---------------------------- MODULE ProfileImport ----------------------------
(***************************************************************************)
(* The life of the accepted profile: how source files on disk become runs, *)
(* and how the runs become the profile in memory and the store on disk.    *)
(*                                                                         *)
(* Composes the session controller (SessionController, whose actions are   *)
(* conjoined with the ones below) with                                     *)
(*   - the profile service  (data/profile_service.cpp),                    *)
(*   - the import worker    (app/profile_build_worker.cpp and              *)
(*                           data/profile_importer.cpp), on its own thread,*)
(*   - the source watcher   (qt_data/file_service.cpp),                    *)
(*   - the store files      (data/formats/protobuf/profile_serializer.cpp).*)
(*                                                                         *)
(* One source file holds one run here, and a file's number orders the runs *)
(* in time; pairing a performance with its CSV and merging runs is         *)
(* UserProfile's and RunImport's matter.                                   *)
(***************************************************************************)
EXTENDS Naturals, FiniteSets, FiniteSetsExt

CONSTANTS
  Files,         \* source files, a finite set of positive numbers in order of start time
  Roots,         \* source directories the user may configure
  RootOf,        \* the directory a file appears in
  ProfilePaths,  \* store files the user may select
  NoProfile,     \* no store, or a store that does not load; no profile in memory
  MaxRetries,
  SlowFiles,     \* files whose writer may let them appear before they are complete
  MaxReadFaults, \* bound: reads of a complete file that fail
  MaxFailures,   \* bound: saves and importer runs that fail
  MaxAsks,       \* bound: refreshes, rebuilds and selections by the user
  MaxMoves       \* bound: settings changes and restarts

ASSUME FilesAssumption == IsFiniteSet(Files) /\ Files \subseteq Nat \ {0}
ASSUME RootOfAssumption == RootOf \in [Files -> Roots]
ASSUME RetriesAssumption == MaxRetries \in Nat

VARIABLES
  \* SessionController
  inFlight, active, rebuildRequested, refreshRequested, pendingReason,
  retryArmed, retryAttempt, selectionMoved, retryOwed, unserved,
  outcome,       \* m_import_state.outcome, set when the slot becomes free
  currentRun,    \* m_current_run: a file's run, or NoRun
  handOpened,    \* history: currentRun was opened from a file, not from the profile
  \* ProfileService
  profile,       \* m_profile, or NoProfile
  filepath,      \* m_filepath
  activeImport,  \* m_active_import holds the token of the import in the slot
  aliases,       \* the paths in m_aliases: files imported since the last invalidation
  origin,        \* history: the store the profile in memory was read from or saved to
  \* the worker
  job,           \* the import in the slot: the request and what was read so far
  \* FileService
  listing,       \* m_listing
  pending,       \* m_pending_fingerprints of the files in m_pending_sources, else Absent
  debouncing,    \* m_debounce.isActive()
  \* outside the process
  open,          \* the application runs
  dirs,          \* the configured source directories
  disk,          \* what each source file holds
  stores,        \* the profile each store file holds
  readFaults, failures, asks, moves

session == INSTANCE SessionController

controlVars == <<inFlight, active, rebuildRequested, refreshRequested, pendingReason,
                 retryArmed, retryAttempt, selectionMoved, retryOwed, unserved>>
userVars    == <<outcome, currentRun, handOpened>>
serviceVars == <<profile, filepath, activeImport, aliases, origin>>
watchVars   == <<listing, pending, debouncing>>
outsideVars == <<open, dirs, disk, stores>>
budgetVars  == <<readFaults, failures, asks, moves>>
vars == <<controlVars, userVars, serviceVars, job, watchVars, outsideVars, budgetVars>>

\* What a file holds stands for its fingerprint (size and modification time) too.
Absent == 0
Partial == 1
Complete == 2
Contents == {Absent, Partial, Complete}

NoRun == 0
Outcomes == {"None", "Succeeded", "Partial", "Stale", "Failed"}

\* A profile: the imported runs, and the fingerprint of each recorded failure.
Profiles == [runs : SUBSET Files, failed : [Files -> Contents]]
EmptyProfile == [runs |-> {}, failed |-> [f \in Files |-> Absent]]

ASSUME NoProfileAssumption == NoProfile \notin Profiles

\* getLatestRun: the run that started last, an empty run when there is none.
Latest(p) == IF p = NoProfile \/ p.runs = {} THEN NoRun ELSE Max(p.runs)

Present(roots) == {f \in Files : RootOf[f] \in roots /\ disk[f] # Absent}

-----------------------------------------------------------------------------
(* The import slot: beginImport, the worker's scan and its reads.           *)

\* phase: none, queued (posted to the worker), reading.  "scan" holds the
\* fingerprints the scan saw, "todo" the admitted files not read yet, "read" and
\* "bad" those read so far, "kept" the recorded failures left unread.
NoJob == [phase |-> "none", roots |-> {}, baseline |-> NoProfile, path |-> filepath,
          aliases |-> {}, scan |-> [f \in Files |-> Absent], todo |-> {}, read |-> {}, bad |-> {},
          kept |-> {}, failed |-> FALSE]

\* beginImport reads the profile, path and roots as the calling handler leaves them.
QueuedJob == [NoJob EXCEPT !.phase = "queued", !.roots = dirs', !.baseline = profile',
                           !.path = filepath', !.aliases = aliases']

\* Mutant: an invalidation leaves the token of the import in flight valid.
ImportRequested_KeepsToken(invalidates) ==
  /\ aliases' = IF invalidates THEN {} ELSE aliases
  /\ IF inFlight
     THEN UNCHANGED <<job, activeImport>>
     ELSE job' = QueuedJob /\ activeImport' = TRUE

\* The service's part of a startImport call, in a handler that has just called
\* invalidateImports or not.
ImportRequested(invalidates) ==
  /\ aliases' = IF invalidates THEN {} ELSE aliases
  /\ IF inFlight
     THEN UNCHANGED job /\ activeImport' = (activeImport /\ ~invalidates)
     ELSE job' = QueuedJob /\ activeImport' = TRUE

\* ProfileImporter::run up to the groups.  A rebuild knows no file and no failure.
WorkerScan ==
  LET usesBaseline == active.mode = "Refresh" /\ job.baseline # NoProfile
      scan == [f \in Files |-> IF f \in Present(job.roots) THEN disk[f] ELSE Absent]
      known == IF usesBaseline THEN job.baseline.runs \cup job.aliases ELSE {}
      kept == IF usesBaseline /\ session!SkipsFailures(active)
              THEN {f \in Present(job.roots) \ known : job.baseline.failed[f] = scan[f]}
              ELSE {} IN
  /\ job.phase = "queued"
  /\ job' = [job EXCEPT !.phase = "reading", !.scan = scan, !.kept = kept,
                        !.todo = Present(job.roots) \ (known \cup kept)]
  /\ UNCHANGED <<controlVars, userVars, serviceVars, watchVars, outsideVars, budgetVars>>

\* One file group at a time, in order, each read when its turn comes: a file
\* may have grown since the scan.
WorkerRead ==
  LET f == Min(job.todo) IN
  /\ job.phase = "reading"
  /\ job.todo # {}
  /\ \/ /\ disk[f] = Complete
        /\ job' = [job EXCEPT !.todo = @ \ {f}, !.read = @ \cup {f}]
        /\ UNCHANGED readFaults
     \/ /\ disk[f] # Complete
        /\ job' = [job EXCEPT !.todo = @ \ {f}, !.bad = @ \cup {f}]
        /\ UNCHANGED readFaults
     \/ /\ disk[f] = Complete  \* unreadable for now: locked by its writer, a read error
        /\ readFaults < MaxReadFaults
        /\ job' = [job EXCEPT !.todo = @ \ {f}, !.bad = @ \cup {f}]
        /\ readFaults' = readFaults + 1
  /\ UNCHANGED <<controlVars, userVars, serviceVars, watchVars, outsideVars,
                 failures, asks, moves>>

\* An exception that is not about one file ends the run with nothing to apply.
WorkerThrows ==
  /\ job.phase = "reading"
  /\ ~job.failed
  /\ failures < MaxFailures
  /\ job' = [job EXCEPT !.todo = {}, !.failed = TRUE]
  /\ failures' = failures + 1
  /\ UNCHANGED <<controlVars, userVars, serviceVars, watchVars, outsideVars,
                 readFaults, asks, moves>>

\* Mutant: a refresh builds its candidate from an empty profile.
Base_Empty == EmptyProfile

\* The result the worker posts.
Base == IF active.mode = "Refresh" /\ job.baseline # NoProfile THEN job.baseline ELSE EmptyProfile

Failures ==
  [f \in Files |-> IF f \in job.bad THEN job.scan[f]
                   ELSE IF f \in job.kept THEN job.baseline.failed[f] ELSE Absent]

Candidate == [runs |-> Base.runs \cup job.read, failed |-> Failures]

Changed == active.mode = "Rebuild" \/ job.read # {}
FailuresChanged == job.baseline # NoProfile /\ Failures # job.baseline.failed

ImportDone == job.phase = "reading" /\ job.todo = {}

-----------------------------------------------------------------------------
(* onBuildFinished: the profile service applies the result or rejects it,   *)
(* and the controller frees the slot or passes it on.                       *)

\* Mutant: a rebuild keeps the selected run like any explicit refresh.
FollowsLatest_NotOnRebuild ==
  \/ active.reason \in session!LiveReasons
  \/ active.reason = "Startup" /\ ~selectionMoved
  \/ currentRun = NoRun

\* refreshCurrentRun, on a changed profile.  Runs keep their identity here.
FollowsLatest ==
  \/ active.mode = "Rebuild"
  \/ active.reason \in session!LiveReasons
  \/ active.reason = "Startup" /\ ~selectionMoved
  \/ currentRun = NoRun

RefreshCurrentRun ==
  IF Changed /\ FollowsLatest
  THEN currentRun' = Latest(profile') /\ handOpened' = FALSE
  ELSE UNCHANGED <<currentRun, handOpened>>

\* acknowledgeImport: files read are no longer watched; a file to re-read is, from
\* what it holds now on.
AcknowledgeImport ==
  pending' = [f \in Files |-> IF f \in job.read THEN Absent
                              ELSE IF f \in job.bad THEN disk[f] ELSE pending[f]]

Apply ==
  /\ activeImport
  /\ ~job.failed
  /\ IF Changed \/ FailuresChanged
     THEN /\ stores' = [stores EXCEPT ![filepath] = Candidate]
          /\ profile' = Candidate
          /\ origin' = filepath
     ELSE UNCHANGED <<stores, profile, origin>>
  /\ aliases' = aliases \cup job.read
  /\ AcknowledgeImport
  /\ RefreshCurrentRun
  /\ UNCHANGED failures

Reject ==
  /\ ~activeImport \/ job.failed
  /\ UNCHANGED <<stores, profile, aliases, origin, pending, currentRun, handOpened, failures>>

\* Mutant: the profile is published before it is saved.
SaveFails_AfterPublishing ==
  /\ activeImport
  /\ ~job.failed
  /\ Changed \/ FailuresChanged
  /\ failures < MaxFailures
  /\ failures' = failures + 1
  /\ profile' = Candidate
  /\ origin' = filepath
  /\ UNCHANGED <<stores, aliases, pending, currentRun, handOpened>>

\* save() writes a temporary file and renames it: a failed save leaves the store alone.
SaveFails ==
  /\ activeImport
  /\ ~job.failed
  /\ Changed \/ FailuresChanged
  /\ failures < MaxFailures
  /\ failures' = failures + 1
  /\ UNCHANGED <<stores, profile, aliases, origin, pending, currentRun, handOpened>>

\* The slot goes to the next request, which begins from the profile just left.
PassSlotOn(result) ==
  /\ activeImport' = inFlight'
  /\ IF inFlight' THEN job' = QueuedJob /\ UNCHANGED outcome
     ELSE job' = NoJob /\ outcome' = result

OnBuildFinished ==
  /\ ImportDone
  /\ UNCHANGED <<filepath, dirs>>
  /\ \/ /\ Apply
        /\ session!OnBuildFinished(TRUE, job.bad # {})
        /\ PassSlotOn(IF job.bad \cup job.kept = {} THEN "Succeeded" ELSE "Partial")
     \/ /\ Reject
        /\ session!OnBuildFinished(FALSE, job.bad # {})
        /\ PassSlotOn(IF activeImport THEN "Failed" ELSE "Stale")
     \/ /\ SaveFails
        /\ session!OnBuildFinished(FALSE, job.bad # {})
        /\ PassSlotOn("Failed")
  /\ UNCHANGED <<listing, debouncing, open, disk, readFaults, asks, moves>>

RetryTimeout ==
  /\ session!RetryTimeout
  /\ UNCHANGED <<profile, filepath, origin, userVars, watchVars, outsideVars, budgetVars>>
  /\ ImportRequested(FALSE)

-----------------------------------------------------------------------------
(* Requests by the user.                                                    *)

RefreshAsked ==
  /\ open /\ asks < MaxAsks /\ asks' = asks + 1
  /\ UNCHANGED <<profile, filepath, origin, userVars, watchVars, outsideVars, readFaults, failures, moves>>
  /\ session!RefreshProfile("Manual", FALSE)
  /\ ImportRequested(FALSE)

RebuildAsked ==
  /\ open /\ asks < MaxAsks /\ asks' = asks + 1
  /\ UNCHANGED <<profile, filepath, origin, userVars, watchVars, outsideVars, readFaults, failures, moves>>
  /\ session!StartBuild
  /\ ImportRequested(FALSE)

SelectRun(f) ==
  /\ open /\ asks < MaxAsks /\ asks' = asks + 1
  /\ profile # NoProfile /\ f \in profile.runs
  /\ currentRun' = f
  /\ handOpened' = (handOpened /\ currentRun = f)
  /\ session!SetCurrentRun
  /\ UNCHANGED <<outcome, serviceVars, job, watchVars, outsideVars, readFaults, failures, moves>>

\* setCurrentPerf: a performance file opened from anywhere.
OpenPerf(f) ==
  /\ open /\ asks < MaxAsks /\ asks' = asks + 1
  /\ disk[f] = Complete
  /\ currentRun' = f
  /\ handOpened' = (handOpened \/ currentRun # f)
  /\ session!SetCurrentRun
  /\ UNCHANGED <<outcome, serviceVars, job, watchVars, outsideVars, readFaults, failures, moves>>

-----------------------------------------------------------------------------
(* Loading a store, settings changes, restarts.                             *)

\* loadProfile on a path: a store that loads replaces the profile and is caught
\* up; any other path asks for a rebuild and leaves the profile in memory.
LoadProfile(path) ==
  \/ /\ stores[path] # NoProfile
     /\ profile' = stores[path]
     /\ origin' = path
     /\ currentRun' = Latest(profile')
     /\ handOpened' = FALSE
     /\ session!StoreLoaded
     /\ ImportRequested(TRUE)
  \/ /\ stores[path] = NoProfile
     /\ UNCHANGED <<profile, origin, currentRun, handOpened>>
     /\ session!StartBuild
     /\ ImportRequested(TRUE)

SetProfilePath(path) ==
  /\ path # filepath
  /\ open /\ moves < MaxMoves /\ moves' = moves + 1
  /\ filepath' = path
  /\ UNCHANGED dirs
  /\ LoadProfile(path)
  /\ UNCHANGED <<outcome, watchVars, open, disk, stores, readFaults, failures, asks>>

\* The watcher is repointed first, then the service invalidates and refreshes.
SetKovaaksDirs(roots) ==
  /\ roots # dirs
  /\ open /\ moves < MaxMoves /\ moves' = moves + 1
  /\ dirs' = roots
  /\ listing' = Present(roots)
  /\ pending' = [f \in Files |-> Absent]
  /\ debouncing' = FALSE
  /\ UNCHANGED <<profile, filepath, origin, userVars, open, disk, stores,
                 readFaults, failures, asks>>
  /\ session!RefreshProfile("SourceSettingsChanged", FALSE)
  /\ ImportRequested(TRUE)

\* The process ends at any moment; a result the worker still holds is lost with it.
Quit ==
  /\ open /\ moves < MaxMoves /\ moves' = moves + 1
  /\ open' = FALSE
  /\ session!Restarted
  /\ outcome' = "None" /\ currentRun' = NoRun /\ handOpened' = FALSE
  /\ profile' = NoProfile /\ activeImport' = FALSE /\ aliases' = {}
  /\ job' = NoJob
  /\ listing' = {} /\ pending' = [f \in Files |-> Absent] /\ debouncing' = FALSE
  /\ UNCHANGED <<filepath, origin, dirs, disk, stores, readFaults, failures, asks>>

\* FileService's constructor, then loadProfile.
Launch ==
  /\ ~open
  /\ open' = TRUE
  /\ listing' = Present(dirs)
  /\ UNCHANGED <<filepath, dirs>>
  /\ LoadProfile(filepath)
  /\ UNCHANGED <<outcome, pending, debouncing, disk, stores, budgetVars>>

-----------------------------------------------------------------------------
(* The source files and their watcher.                                      *)

\* A file appears in a watched directory, or grows while it is watched itself.
FileAppears(f) ==
  /\ disk[f] = Absent
  /\ \E content \in IF f \in SlowFiles THEN {Partial, Complete} ELSE {Complete} :
       disk' = [disk EXCEPT ![f] = content]
  /\ debouncing' = (debouncing \/ (open /\ RootOf[f] \in dirs))
  /\ UNCHANGED <<controlVars, userVars, serviceVars, job, listing, pending,
                 open, dirs, stores, budgetVars>>

FileCompletes(f) ==
  /\ disk[f] = Partial
  /\ disk' = [disk EXCEPT ![f] = Complete]
  /\ debouncing' = (debouncing \/ pending[f] # Absent)
  /\ UNCHANGED <<controlVars, userVars, serviceVars, job, listing, pending,
                 open, dirs, stores, budgetVars>>

\* refreshWatches(true): arrivals become pending, and a live refresh is asked for
\* when the listing or the fingerprint of a pending file has changed.
Watched == {f \in Present(dirs) : pending[f] # Absent \/ f \notin listing}

\* Mutant: only growth of a pending file is reported, not a new one.
SourcesChanged_GrowthOnly == \E f \in Watched : pending[f] \notin {Absent, disk[f]}

SourcesChanged ==
  \/ listing # Present(dirs)
  \/ \E f \in Watched : pending[f] \notin {Absent, disk[f]}

DebounceTimeout ==
  /\ debouncing
  /\ debouncing' = FALSE
  /\ listing' = Present(dirs)
  /\ pending' = [f \in Files |-> IF f \in Watched THEN disk[f] ELSE Absent]
  /\ UNCHANGED <<profile, filepath, origin, userVars, outsideVars, budgetVars>>
  /\ \/ /\ SourcesChanged
        /\ session!RefreshProfile("Live", FALSE)
        /\ ImportRequested(FALSE)
     \/ /\ ~SourcesChanged
        /\ UNCHANGED <<controlVars, job, activeImport, aliases>>

-----------------------------------------------------------------------------
(* The specification.                                                       *)

Init ==
  /\ session!Init
  /\ outcome = "None" /\ currentRun = NoRun /\ handOpened = FALSE
  /\ profile = NoProfile /\ activeImport = FALSE /\ aliases = {}
  /\ filepath \in ProfilePaths /\ origin = filepath
  /\ job = NoJob
  /\ listing = {} /\ pending = [f \in Files |-> Absent] /\ debouncing = FALSE
  /\ open = FALSE
  /\ dirs \in (SUBSET Roots) \ {{}}
  /\ disk = [f \in Files |-> Absent]  \* files also appear while the application is closed
  /\ stores = [p \in ProfilePaths |-> NoProfile]
  /\ readFaults = 0 /\ failures = 0 /\ asks = 0 /\ moves = 0

WorkerStep == WorkerScan \/ WorkerRead

UserStep ==
  \/ RefreshAsked
  \/ RebuildAsked
  \/ \E f \in Files : SelectRun(f)
  \/ \E f \in Files : OpenPerf(f)
  \/ \E path \in ProfilePaths : SetProfilePath(path)
  \/ \E roots \in (SUBSET Roots) \ {{}} : SetKovaaksDirs(roots)
  \/ Quit
  \/ Launch

FileStep == \E f \in Files : FileAppears(f) \/ FileCompletes(f)

Next ==
  \/ WorkerStep
  \/ WorkerThrows
  \/ OnBuildFinished
  \/ RetryTimeout
  \/ DebounceTimeout
  \/ UserStep
  \/ FileStep

Spec == Init /\ [][Next]_vars

\* The worker thread keeps working, its answer is delivered, armed timers fire.
Fairness ==
  /\ WF_vars(WorkerStep)
  /\ WF_vars(OnBuildFinished)
  /\ WF_vars(RetryTimeout)
  /\ WF_vars(DebounceTimeout)

FairSpec == Spec /\ Fairness

-----------------------------------------------------------------------------
(* Properties.                                                              *)

TypeOK ==
  /\ session!TypeOK
  /\ outcome \in Outcomes /\ currentRun \in Files \cup {NoRun} /\ handOpened \in BOOLEAN
  /\ profile \in Profiles \cup {NoProfile}
  /\ filepath \in ProfilePaths /\ origin \in ProfilePaths /\ activeImport \in BOOLEAN
  /\ aliases \in SUBSET Files
  /\ job \in [phase : {"none", "queued", "reading"}, roots : SUBSET Roots,
              baseline : Profiles \cup {NoProfile}, path : ProfilePaths, aliases : SUBSET Files,
              scan : [Files -> Contents], todo : SUBSET Files, read : SUBSET Files,
              bad : SUBSET Files, kept : SUBSET Files, failed : BOOLEAN]
  /\ listing \in SUBSET Files /\ pending \in [Files -> Contents] /\ debouncing \in BOOLEAN
  /\ open \in BOOLEAN /\ dirs \in SUBSET Roots /\ disk \in [Files -> Contents]
  /\ stores \in [ProfilePaths -> Profiles \cup {NoProfile}]
  /\ readFaults \in 0 .. MaxReadFaults /\ failures \in 0 .. MaxFailures
  /\ asks \in 0 .. MaxAsks /\ moves \in 0 .. MaxMoves

\* The controller's slot, the worker and the service's token agree: an import is in
\* flight exactly while the worker holds one, and only that one can be applied.
SlotMatchesWork ==
  /\ inFlight <=> job.phase # "none"
  /\ activeImport => inFlight

\* The profile the user sees is always the one on disk (acceptImport saves before
\* it publishes): a process that ends at any moment loses nothing it had shown.
AcceptedIsDurable == profile # NoProfile => stores[origin] = profile

\* The current run is a run of the accepted profile, across rebuilds that drop
\* runs, store switches and late results, unless it was opened by hand.
CurrentRunKnown ==
  currentRun # NoRun /\ ~handOpened => profile # NoProfile /\ currentRun \in profile.runs

\* An import that an invalidation made stale is followed by another one before
\* the slot becomes free: nobody is left with a rejected import as the last word.
StaleIsFollowedUp == ~inFlight => outcome # "Stale"

\* Nothing is about to happen inside the application.
AtRest == open /\ ~inFlight /\ ~retryArmed /\ ~debouncing

\* When all is quiet after an import that was applied, every source file in the
\* configured directories is imported or on record as failed: no arrival is
\* lost between the watcher's listing, the worker's scan and the coalesced requests.
NothingOverlooked ==
  AtRest /\ outcome \in {"Succeeded", "Partial"} /\ profile # NoProfile =>
    \A f \in Present(dirs) : f \in profile.runs \/ profile.failed[f] # Absent

\* A file that a live import left to be read again is not skipped by the import that the next
\* arrival asks for, whoever asks for imports meanwhile (the comment in refreshProfile).
OwedRereadNotSkipped == session!OwedRereadNotSkipped

\* A result is only ever applied to what it was computed from: the same profile
\* in memory, the same store, the same source directories (acceptImport's token).
CommitIsCurrent ==
  [][stores' # stores => /\ job.baseline = profile
                         /\ job.path = filepath
                         /\ job.roots = dirs]_vars

\* Only a rebuild drops runs from a store.
RunsNeverLost ==
  [][\A p \in ProfilePaths :
       stores[p] # NoProfile =>
         /\ stores'[p] # NoProfile
         /\ active.mode = "Rebuild" \/ stores[p].runs \subseteq stores'[p].runs]_vars

\* However often files fail, retries end: the application does not import for ever.
ComesToRest == <>[](~inFlight /\ ~retryArmed /\ ~debouncing)

\* A run written after the application came to rest ends up in the profile, also
\* when reads of its file fail at first: the backoff re-reads it (the retry window).
\* Requests, moves, failed saves and half-written files use up the same retries, so
\* it is said of sessions without them.
Imported(f) == profile # NoProfile /\ f \in profile.runs
Undisturbed == asks + moves + failures = 0 /\ \A f \in Files : disk[f] # Partial

ArrivalsImported ==
  []Undisturbed => \A f \in Files :
    [](AtRest /\ RootOf[f] \in dirs /\ disk[f] = Absent
         => [](disk[f] = Complete => <>Imported(f)))

\* Not kept by the code.  Switching stores never writes the profile in memory
\* into the newly selected file (profile-lifecycle.md).
NoCrossStoreWrite ==
  [][\A p \in ProfilePaths :
       stores'[p] # stores[p] /\ active.mode = "Refresh" /\ job.baseline # NoProfile
         => origin = p]_vars

=============================================================================
