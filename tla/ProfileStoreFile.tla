--------------------------- MODULE ProfileStoreFile ---------------------------
(***************************************************************************)
(* The profile store on disk: one file at the profile path, its temporary  *)
(* sibling and the files set aside next to it, as ProfileSerializer        *)
(* (data/formats/protobuf/profile_serializer.cpp) and the version 3        *)
(* migrator use them, with the two calls ProfileService makes: a load when *)
(* the program starts and a save when it accepts an import.                *)
(*                                                                         *)
(* Every file-system call is a step of its own: it may fail, and the       *)
(* program may end before the next one.  What an import reads from the     *)
(* source files is arbitrary here; ProfileImport models how it comes about.*)
(***************************************************************************)
EXTENDS Naturals

CONSTANTS
  Runs,         \* the runs that can be played
  NoFile,       \* no file of that name
  NoProfile,    \* m_profile is null
  MaxFaults,    \* bound: file-system calls that fail
  MaxLaunches   \* bound: starts of the program

ASSUME AbsenceAssumption ==
  \A runs \in SUBSET Runs : NoProfile # runs

ASSUME BoundsAssumption == MaxFaults \in Nat /\ MaxLaunches \in Nat

\* What load can make of a file: a version 4 store, one whose body is damaged, a
\* version 3 store, a version it has no migration for, a header it cannot parse.
Formats == {"current", "torn", "legacy", "foreign", "garbled"}
Contents == [format : Formats, created : Nat, runs : SUBSET Runs]

ASSUME NoFileAssumption == NoFile \notin Contents

VARIABLES
  store,     \* the file at m_filepath
  temp,      \* the file at m_filepath + ".tmp"
  kept,      \* the contents of the files quarantineRejectedFile has renamed
  sources,   \* the runs whose source files are on disk
  phase,     \* the next file-system call of the running program, or "down"
  saving,    \* the profile being saved, for whom, and the identity it gets
  profile,   \* ProfileService::m_profile
  request,   \* the import asked for and not finished
  left,      \* history: whether the last load refused the store and left it in place
  faults, launches

fileVars == <<store, temp, kept>>
serviceVars == <<profile, request, left>>
vars == <<fileVars, sources, phase, saving, serviceVars, faults, launches>>

Phases == {"down", "load", "parse", "quarantine", "save", "write", "replace", "idle"}
Requests == {"None", "Refresh", "Rebuild", "AskedRebuild"}

\* The times of creation: 0 is a header without one, 1 an earlier program's.
Now == 1 + launches

\* "header" is history: whether the header of the store being replaced was read.
Saving(whom, runs) == [for |-> whom, runs |-> runs, created |-> 0, header |-> "Read"]
NothingSaved == Saving("None", {})

HeaderReadable(file) == file # NoFile /\ file.format # "garbled"

Half == [format |-> "garbled", created |-> 0, runs |-> {}]
Whole == [format |-> "current", created |-> saving.created, runs |-> saving.runs]

\* The profile a load of the store gives when nothing fails.
Legible == store # NoFile /\ store.format \in {"current", "legacy"}
StoredRuns == IF Legible THEN store.runs ELSE NoProfile

Init ==
  /\ store \in {NoFile} \cup [format : Formats, created : {0, 1}, runs : SUBSET Runs]
  /\ temp \in {NoFile, Half}
  /\ kept = {}
  /\ sources \in SUBSET Runs
  /\ phase = "down"
  /\ saving = NothingSaved
  /\ profile = NoProfile
  /\ request = "None"
  /\ left = "Nothing"
  /\ faults = 0
  /\ launches = 0

-----------------------------------------------------------------------------
(* Loading.                                                                 *)

Fault == faults < MaxFaults /\ faults' = faults + 1
NoFault == UNCHANGED faults

Launch ==
  /\ phase = "down" /\ launches < MaxLaunches
  /\ launches' = launches + 1
  /\ phase' = "load"
  /\ left' = "Nothing"
  /\ UNCHANGED <<fileVars, sources, saving, profile, request, faults>>

\* Mutant: a refused store is not rebuilt.
RequestRebuild_Forgotten == phase' = "idle" /\ UNCHANGED request

\* loadProfile got no store: it asks for a rebuild.
RequestRebuild == request' = "Rebuild" /\ phase' = "idle"

\* loadProfile got one: it is published and caught up with the sources.
AcceptStore(runs) == profile' = runs /\ request' = "Refresh" /\ phase' = "idle"

LoadFindsNothing ==
  /\ phase = "load" /\ store = NoFile
  /\ RequestRebuild
  /\ UNCHANGED <<fileVars, sources, saving, profile, left, faults, launches>>

\* readHeader, the version check, and for a version 3 store the migration.
LoadReadsHeader ==
  /\ phase = "load" /\ store # NoFile
  /\ \/ /\ store.format \in {"current", "torn"} /\ NoFault
        /\ phase' = "parse"
        /\ UNCHANGED saving
     \/ /\ store.format = "legacy" /\ NoFault
        /\ phase' = "save"
        /\ saving' = Saving("Load", store.runs)
     \/ /\ \/ store.format \in {"foreign", "garbled"} /\ NoFault
           \/ Fault
        /\ phase' = "quarantine"
        /\ UNCHANGED saving
  /\ UNCHANGED <<fileVars, sources, serviceVars, launches>>

LoadParsesBody ==
  /\ phase = "parse"
  /\ \/ /\ store.format = "current" /\ NoFault
        /\ AcceptStore(store.runs)
     \/ /\ \/ store.format = "torn" /\ NoFault
           \/ Fault
        /\ phase' = "quarantine"
        /\ UNCHANGED <<profile, request>>
  /\ UNCHANGED <<fileVars, sources, saving, left, launches>>

\* quarantineRejectedFile; the outcome of its rename is not looked at.
Quarantine ==
  /\ phase = "quarantine"
  /\ \/ NoFault /\ kept' = kept \cup {store} /\ store' = NoFile /\ UNCHANGED left
     \/ Fault /\ left' = "Refused" /\ UNCHANGED <<store, kept>>
  /\ RequestRebuild
  /\ UNCHANGED <<temp, sources, saving, profile, launches>>

-----------------------------------------------------------------------------
(* Saving.                                                                  *)

\* A save that failed removes its temporary file if it can.  load then answers
\* VersionMismatch and leaves the store; acceptImport leaves the profile.
SaveFails ==
  /\ Fault
  /\ temp' \in {temp, NoFile}
  /\ saving' = NothingSaved
  /\ \/ /\ saving.for = "Load"
        /\ left' = "Refused"
        /\ RequestRebuild
     \/ /\ saving.for # "Load"
        /\ phase' = "idle"
        /\ UNCHANGED <<request, left>>
  /\ UNCHANGED <<store, profile>>

\* The identity of the store being replaced, when its header has one.
Identity == IF HeaderReadable(store) /\ store.created # 0 THEN store.created ELSE Now

\* save reads the header of the store it replaces (a failing read is no error)
\* and opens the temporary file.
SaveOpens ==
  /\ phase = "save"
  /\ \/ /\ phase' = "write"
        /\ temp' = Half
        /\ \/ NoFault /\ saving' = [saving EXCEPT !.created = Identity]
           \/ Fault /\ saving' = [saving EXCEPT !.created = Now, !.header = "Missed"]
        /\ UNCHANGED <<store, serviceVars>>
     \/ SaveFails
  /\ UNCHANGED <<kept, sources, launches>>

\* Mutant: the store is written in place.
SaveWrites_InPlace ==
  /\ phase = "write"
  /\ \/ /\ NoFault /\ phase' = "replace"
        /\ temp' = Whole /\ store' = Half
        /\ UNCHANGED <<saving, serviceVars>>
     \/ SaveFails
  /\ UNCHANGED <<kept, sources, launches>>

SaveWrites ==
  /\ phase = "write"
  /\ \/ /\ NoFault /\ phase' = "replace"
        /\ temp' = Whole
        /\ UNCHANGED <<store, saving, serviceVars>>
     \/ SaveFails
  /\ UNCHANGED <<kept, sources, launches>>

\* The rename that makes it the store; load or acceptImport then publish it.
SaveReplaces ==
  /\ phase = "replace"
  /\ \/ /\ NoFault
        /\ store' = temp /\ temp' = NoFile
        /\ saving' = NothingSaved
        /\ profile' = saving.runs
        /\ request' = IF saving.for = "Load" THEN "Refresh" ELSE request
        /\ phase' = "idle"
        /\ left' = "Nothing"
     \/ SaveFails
  /\ UNCHANGED <<kept, sources, launches>>

-----------------------------------------------------------------------------
(* Imports, and the outside.                                                *)

\* Mutant: a refresh starts from nothing, like a rebuild.
Base_Empty == {}

Base == IF request = "Refresh" /\ profile # NoProfile THEN profile ELSE {}

Save(runs) ==
  /\ phase' = "save"
  /\ saving' = Saving(request, runs)

\* A finished import brings some of the runs on disk.  acceptImport saves it when
\* it is a rebuild, brings something new, or changes the recorded failures.
ImportFinishes ==
  /\ phase = "idle" /\ request # "None"
  /\ \E read \in SUBSET sources, failuresChanged \in BOOLEAN :
       LET changed == request # "Refresh" \/ ~(read \subseteq Base)
       IN  \/ /\ changed \/ (failuresChanged /\ profile # NoProfile)
              /\ Save(Base \cup read)
           \/ /\ ~changed /\ ~failuresChanged
              /\ UNCHANGED <<phase, saving>>
  /\ request' = "None"
  /\ UNCHANGED <<fileVars, sources, profile, left, faults, launches>>

ImportFails ==
  /\ phase = "idle" /\ request # "None"
  /\ Fault
  /\ request' = "None"
  /\ UNCHANGED <<fileVars, sources, phase, saving, profile, left, launches>>

Ask(kind) ==
  /\ phase = "idle" /\ request = "None"
  /\ request' = kind
  /\ UNCHANGED <<fileVars, sources, phase, saving, profile, left, faults, launches>>

\* Closing the window or the end of the process, between any two calls.
Quit ==
  /\ phase # "down"
  /\ phase' = "down"
  /\ saving' = NothingSaved
  /\ profile' = NoProfile
  /\ request' = "None"
  /\ UNCHANGED <<fileVars, sources, left, faults, launches>>

Play(r) ==
  /\ r \notin sources
  /\ sources' = sources \cup {r}
  /\ UNCHANGED <<fileVars, phase, saving, serviceVars, faults, launches>>

Load == LoadFindsNothing \/ LoadReadsHeader \/ LoadParsesBody \/ Quarantine
SaveStep == SaveOpens \/ SaveWrites \/ SaveReplaces

Next ==
  \/ Launch \/ Load \/ SaveStep \/ ImportFinishes \/ ImportFails \/ Quit
  \/ \E kind \in {"Refresh", "AskedRebuild"} : Ask(kind)
  \/ \E r \in Runs : Play(r)

Spec == Init /\ [][Next]_vars

\* The GUI thread makes its next call and the worker ends its import; nobody has
\* to start or end the program, ask for an import or play a run.
FairSpec == Spec /\ WF_vars(Load \/ SaveStep \/ ImportFinishes)

-----------------------------------------------------------------------------
(* Properties.                                                              *)

\* What save writes is a current store with a time of creation.
Written == {file \in Contents : file.format = "current" /\ file.created # 0}

\* The types; a whole temporary file is always one that save wrote.
TypeOK ==
  /\ store \in Contents \cup {NoFile}
  /\ temp \in {NoFile, Half} \cup Written
  /\ kept \subseteq Contents
  /\ sources \subseteq Runs
  /\ phase \in Phases
  /\ saving \in [for : Requests \cup {"Load"}, runs : SUBSET Runs, created : Nat, header : {"Read", "Missed"}]
  /\ profile \in (SUBSET Runs) \cup {NoProfile}
  /\ request \in Requests
  /\ left \in {"Nothing", "Refused"}
  /\ faults \in 0 .. MaxFaults
  /\ launches \in 0 .. MaxLaunches

\* Whatever call fails and wherever the program ends, the profile in memory is the
\* one the store holds, and the store is replaced as a whole or not at all.
Promise == INSTANCE StorePromise
             WITH Profiles <- SUBSET Runs, None <- NoProfile,
                  durable <- StoredRuns, accepted <- profile
KeepsPromise == Promise!Spec

\* No step destroys the last copy of a run a file held, be it in a store the program
\* cannot read: it stays in the store or in a file set aside.  The exceptions are a
\* rebuild the user asked for and a refused store that could not be moved.
Copies(file) == IF file = NoFile THEN {} ELSE file.runs
RunsSurvive ==
  [][\A r \in Copies(store) :
       \/ r \in Copies(store')
       \/ \E file \in kept' : r \in file.runs
       \/ left = "Refused"
       \/ saving.for = "AskedRebuild"]_vars

\* A store that replaces another keeps the time of creation of the store it
\* replaces, through migrations, failed saves and restarts; only a header that the
\* save failed to read makes it a new store.
IdentityKept ==
  [][store # NoFile /\ store' \notin {NoFile, store} /\ HeaderReadable(store)
       /\ store.created # 0 /\ saving.header = "Read"
     => store'.created = store.created]_vars

\* A launch in which no call fails ends with an accepted profile, whatever file it
\* found: a refused store is rebuilt without anybody asking.
LaunchEstablishes ==
  (phase = "load" /\ faults = MaxFaults) ~> (profile # NoProfile \/ phase = "down")

=============================================================================
