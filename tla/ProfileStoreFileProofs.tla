------------------------ MODULE ProfileStoreFileProofs ------------------------
(***************************************************************************)
(* What TLAPS proves of ProfileStoreFile, for any runs and any number of   *)
(* failing calls and launches: it implements StorePromise, no step         *)
(* destroys the last copy of a run outside the named exceptions, and a     *)
(* store keeps its identity.                                               *)
(*                                                                         *)
(* The inductive invariant says what the thread knows at each call: a load *)
(* runs before there is a profile, a profile in memory is the one stored,  *)
(* a save carries what it was started for, and without a profile the path  *)
(* is empty unless a refused store was left there.                         *)
(***************************************************************************)
EXTENDS ProfileStoreFile, TLAPS

Saves == {"save", "write", "replace"}
Loads == {"load", "parse", "quarantine"}

MemoryIsStored ==
  profile # NoProfile =>
    store # NoFile /\ store.format = "current" /\ store.runs = profile

LoadingKnows ==
  /\ phase \in Loads \cup {"down"} => profile = NoProfile /\ request = "None"
  /\ phase \in {"parse", "quarantine"} => store # NoFile
  /\ request = "Rebuild" => profile = NoProfile

\* A migrated profile, a refreshed one and an unasked rebuild.
SavingKnows ==
  phase \in Saves =>
    /\ saving.for # "None" /\ request = "None"
    /\ saving.for = "Load" =>
         store # NoFile /\ store.format = "legacy" /\ saving.runs = store.runs
           /\ profile = NoProfile
    /\ saving.for = "Refresh" /\ profile # NoProfile => profile \subseteq saving.runs
    /\ saving.for = "Rebuild" => profile = NoProfile

EmptyUnlessLeft ==
  phase \in Saves \cup {"idle"} /\ profile = NoProfile /\ left = "Nothing" =>
    store = NoFile \/ (phase \in Saves /\ saving.for = "Load")

TempKnows ==
  /\ phase \in {"write", "replace"} =>
       /\ saving.created # 0
       /\ HeaderReadable(store) /\ store.created # 0 /\ saving.header = "Read"
            => saving.created = store.created
  /\ phase = "replace" => temp = Whole

IInv ==
  /\ TypeOK
  /\ MemoryIsStored
  /\ LoadingKnows
  /\ SavingKnows
  /\ EmptyUnlessLeft
  /\ TempKnows

USE AbsenceAssumption, BoundsAssumption

\* What the types say of a file.
LEMMA FileShape ==
  ASSUME NEW file \in Contents
  PROVE  /\ file.format \in Formats
         /\ file.created \in Nat
         /\ file.runs \in SUBSET Runs
         /\ file # NoFile
  BY NoFileAssumption DEF Contents

LEMMA HalfIsContent == Half \in Contents
  BY DEF Half, Contents, Formats

\* What SaveWrites writes is a store as TypeOK describes them.
LEMMA WholeIsWritten ==
  ASSUME saving.created \in Nat \ {0}, saving.runs \in SUBSET Runs
  PROVE  /\ Whole \in Written
         /\ Whole.format = "current"
         /\ Whole.created = saving.created
         /\ Whole.runs = saving.runs
  BY DEF Whole, Written, Contents, Formats

\* A save always has a time of creation to write.
LEMMA IdentityIsTime == TypeOK => Identity \in Nat \ {0} /\ Now \in Nat \ {0}
<1> SUFFICES ASSUME TypeOK PROVE Identity \in Nat \ {0} /\ Now \in Nat \ {0}
  OBVIOUS
<1>1. Now \in Nat \ {0}
  BY DEF TypeOK, Now
<1>2. HeaderReadable(store) => store.created \in Nat
  BY FileShape DEF TypeOK, HeaderReadable
<1> QED
  BY <1>1, <1>2 DEF Identity

\* The invariant holds when the program is first started, whatever is on disk.
LEMMA Initially == Init => IInv
<1> SUFFICES ASSUME Init PROVE IInv
  OBVIOUS
<1>1. store \in Contents \cup {NoFile}
  BY DEF Init, Contents
<1>2. TypeOK
  BY <1>1 DEF Init, TypeOK, Phases, Requests, NothingSaved, Saving
<1> QED
  BY <1>2 DEF Init, IInv, MemoryIsStored, LoadingKnows, SavingKnows, EmptyUnlessLeft, TempKnows,
     Saves, Loads

\* Every step keeps the types, as long as a whole temporary file is one SaveWrites wrote.
LEMMA TypesStep == IInv /\ [Next]_vars => TypeOK'
<1> SUFFICES ASSUME TypeOK, TempKnows, LoadingKnows, [Next]_vars PROVE TypeOK'
  BY DEF IInv
<1> USE DEF TypeOK, Phases, Requests, fileVars, serviceVars, Fault, NoFault, NothingSaved, Saving
<1>1. CASE Launch
  BY <1>1 DEF Launch
<1>2. CASE LoadFindsNothing
  BY <1>2 DEF LoadFindsNothing, RequestRebuild
<1>3. CASE LoadReadsHeader
  BY <1>3, FileShape DEF LoadReadsHeader
<1>4. CASE LoadParsesBody
  BY <1>4, FileShape DEF LoadParsesBody, AcceptStore, LoadingKnows
<1>5. CASE Quarantine
  BY <1>5 DEF Quarantine, RequestRebuild, LoadingKnows
<1>6. CASE SaveOpens
  <2>1. CASE SaveFails
    BY <1>6, <2>1 DEF SaveOpens, SaveFails, RequestRebuild
  <2>2. CASE ~SaveFails
    <3>1. saving' \in [for : Requests \cup {"Load"}, runs : SUBSET Runs, created : Nat,
                       header : {"Read", "Missed"}]
      BY <1>6, <2>2, IdentityIsTime DEF SaveOpens
    <3> QED
      BY <1>6, <2>2, <3>1 DEF SaveOpens
  <2> QED
    BY <2>1, <2>2
<1>7. CASE SaveWrites
  BY <1>7, WholeIsWritten DEF SaveWrites, SaveFails, RequestRebuild, TempKnows
<1>8. CASE SaveReplaces
  BY <1>8, WholeIsWritten DEF SaveReplaces, SaveFails, RequestRebuild, Written, TempKnows
<1>9. CASE ImportFinishes
  BY <1>9 DEF ImportFinishes, Save, Base
<1>10. CASE ImportFails
  BY <1>10 DEF ImportFails
<1>11. ASSUME NEW kind \in {"Refresh", "AskedRebuild"}, Ask(kind) PROVE TypeOK'
  BY <1>11 DEF Ask
<1>12. CASE Quit
  BY <1>12 DEF Quit
<1>13. ASSUME NEW r \in Runs, Play(r) PROVE TypeOK'
  BY <1>13 DEF Play
<1>14. CASE UNCHANGED vars
  BY <1>14 DEF vars
<1> QED
  BY <1>1, <1>2, <1>3, <1>4, <1>5, <1>6, <1>7, <1>8, <1>9, <1>10, <1>11, <1>12, <1>13, <1>14
     DEF Next, Load, SaveStep

\* A save that fails leaves the store and the profile, and whatever the invariant
\* says of them.
LEMMA FailedSaveKeeps ==
  ASSUME IInv, SaveFails, phase \in Saves, TypeOK'
  PROVE  IInv'
<1>1. MemoryIsStored'
  BY DEF IInv, MemoryIsStored, SaveFails
<1>2. LoadingKnows'
  BY DEF IInv, LoadingKnows, SavingKnows, SaveFails, RequestRebuild, Saves, Loads
<1>3. SavingKnows' /\ TempKnows'
  BY DEF SavingKnows, TempKnows, SaveFails, RequestRebuild, Saves
<1>4. EmptyUnlessLeft'
  BY DEF IInv, EmptyUnlessLeft, SaveFails, RequestRebuild, Saves
<1> QED
  BY <1>1, <1>2, <1>3, <1>4 DEF IInv

\* Every step keeps the invariant.
LEMMA InvariantStep == IInv /\ [Next]_vars => IInv'
<1> SUFFICES ASSUME IInv, [Next]_vars PROVE IInv'
  OBVIOUS
<1>0. TypeOK'
  BY TypesStep
<1> USE <1>0 DEF IInv, MemoryIsStored, LoadingKnows, SavingKnows, EmptyUnlessLeft, TempKnows, Saves, Loads,
                 fileVars, serviceVars, Fault, NoFault, NothingSaved, Saving, Whole
<1>1. CASE Launch
  BY <1>1 DEF Launch
<1>2. CASE LoadFindsNothing
  BY <1>2 DEF LoadFindsNothing, RequestRebuild
<1>3. CASE LoadReadsHeader
  BY <1>3 DEF LoadReadsHeader
<1>4. CASE LoadParsesBody
  BY <1>4, FileShape DEF LoadParsesBody, AcceptStore, TypeOK
<1>5. CASE Quarantine
  BY <1>5 DEF Quarantine, RequestRebuild
<1>6. CASE SaveOpens
  <2>1. CASE SaveFails
    BY <1>6, <2>1, FailedSaveKeeps DEF SaveOpens
  <2>2. CASE ~SaveFails
    <3>1. /\ phase = "save" /\ phase' = "write" /\ UNCHANGED <<store, profile, request, left>>
          /\ \/ saving' = [saving EXCEPT !.created = Identity]
             \/ saving' = [saving EXCEPT !.created = Now, !.header = "Missed"]
      BY <1>6, <2>2 DEF SaveOpens
    <3>2. /\ saving'.for = saving.for /\ saving'.runs = saving.runs
          /\ saving'.created # 0
          /\ saving'.header = "Missed" \/ saving'.created = Identity
      BY <3>1, IdentityIsTime DEF TypeOK
    <3> QED
      BY <3>1, <3>2 DEF Identity
  <2> QED
    BY <2>1, <2>2
<1>7. CASE SaveWrites
  BY <1>7, FailedSaveKeeps DEF SaveWrites, Whole
<1>8. CASE SaveReplaces
  <2>1. CASE SaveFails
    BY <1>8, <2>1, FailedSaveKeeps DEF SaveReplaces
  <2>2. CASE ~SaveFails
    <3>1. store' # NoFile /\ store'.format = "current" /\ store'.runs = profile' /\ profile' # NoProfile
      BY <1>8, <2>2, WholeIsWritten, FileShape DEF SaveReplaces, TypeOK, Written
    <3> QED
      BY <1>8, <2>2, <3>1 DEF SaveReplaces
  <2> QED
    BY <2>1, <2>2
<1>9. CASE ImportFinishes
  <2>1. CASE phase' = "idle"
    BY <1>9, <2>1 DEF ImportFinishes, Save
  <2>2. CASE phase' # "idle"
    <3>1. PICK read \in SUBSET sources : phase' = "save" /\ saving' = Saving(request, Base \cup read)
      BY <1>9, <2>2 DEF ImportFinishes, Save
    <3>2. /\ phase = "idle" /\ request # "None" /\ request' = "None"
          /\ UNCHANGED <<store, temp, profile, left>>
      BY <1>9 DEF ImportFinishes
    <3>3. /\ phase' = "save" /\ saving'.for = request /\ saving'.for # "Load"
          /\ request = "Refresh" /\ profile # NoProfile => profile \subseteq saving'.runs
      BY <3>1 DEF Base, TypeOK, Requests
    <3> QED
      BY <3>2, <3>3
  <2> QED
    BY <2>1, <2>2
<1>10. CASE ImportFails
  BY <1>10 DEF ImportFails
<1>11. ASSUME NEW kind \in {"Refresh", "AskedRebuild"}, Ask(kind) PROVE IInv'
  BY <1>11 DEF Ask
<1>12. CASE Quit
  BY <1>12 DEF Quit
<1>13. ASSUME NEW r \in Runs, Play(r) PROVE IInv'
  BY <1>13 DEF Play
<1>14. CASE UNCHANGED vars
  BY <1>14 DEF vars
<1> QED
  BY <1>1, <1>2, <1>3, <1>4, <1>5, <1>6, <1>7, <1>8, <1>9, <1>10, <1>11, <1>12, <1>13, <1>14
     DEF Next, Load, SaveStep

THEOREM InvariantHolds == Spec => []IInv
<1>1. IInv /\ UNCHANGED vars => IInv'
  BY InvariantStep
<1> QED
  BY Initially, InvariantStep, PTL DEF Spec

\* TypeOK holds for any runs and any bounds.
THEOREM TypeCorrect == Spec => []TypeOK
  BY InvariantHolds, PTL DEF IInv

-----------------------------------------------------------------------------
(* The promise.                                                             *)

LEMMA PromiseInit == Init => Promise!Init
  BY DEF Init, Promise!Init, StoredRuns, Legible

\* A step maps to the promise's step of the same kind; every call before the rename,
\* and every one that fails, maps to none.
LEMMA PromiseStep == IInv /\ IInv' /\ [Next]_vars => [Promise!Next]_Promise!promiseVars
<1> SUFFICES ASSUME IInv, IInv', [Next]_vars
             PROVE  Promise!Next \/ UNCHANGED <<StoredRuns, profile>>
  BY DEF Promise!promiseVars
<1> USE DEF fileVars, serviceVars, StoredRuns, Legible
<1>1. CASE Launch
  BY <1>1 DEF Launch
<1>2. CASE LoadFindsNothing
  BY <1>2 DEF LoadFindsNothing
<1>3. CASE LoadReadsHeader
  BY <1>3 DEF LoadReadsHeader
<1>4. CASE LoadParsesBody
  <2>1. store # NoFile => store.runs # NoProfile
    BY FileShape DEF IInv, TypeOK
  <2>2. store # NoFile
    BY <1>4 DEF LoadParsesBody, IInv, LoadingKnows
  <2> QED
    BY <1>4, <2>1, <2>2 DEF LoadParsesBody, AcceptStore, Promise!Next, Promise!Open
<1>5. CASE Quarantine
  BY <1>5 DEF Quarantine, IInv, LoadingKnows, Loads, Promise!Next, Promise!SetAside
<1>6. CASE SaveOpens
  BY <1>6 DEF SaveOpens, SaveFails
<1>7. CASE SaveWrites
  BY <1>7 DEF SaveWrites, SaveFails
<1>8. CASE SaveReplaces
  <2>1. CASE SaveFails
    BY <1>8, <2>1 DEF SaveFails
  <2>2. CASE ~SaveFails
    <3>1. /\ store' # NoFile /\ store'.format = "current" /\ store'.runs = profile'
          /\ profile' \in SUBSET Runs /\ profile' # NoProfile
      BY <1>8, <2>2, WholeIsWritten, FileShape DEF SaveReplaces, IInv, TypeOK, TempKnows, Written
    <3> QED
      BY <3>1 DEF Promise!Next, Promise!Commit
  <2> QED
    BY <2>1, <2>2
<1>9. CASE ImportFinishes
  BY <1>9 DEF ImportFinishes
<1>10. CASE ImportFails
  BY <1>10 DEF ImportFails
<1>11. ASSUME NEW kind \in {"Refresh", "AskedRebuild"}, Ask(kind)
       PROVE  UNCHANGED <<StoredRuns, profile>>
  BY <1>11 DEF Ask
<1>12. CASE Quit
  BY <1>12 DEF Quit, Promise!Next, Promise!Forget
<1>13. ASSUME NEW r \in Runs, Play(r) PROVE UNCHANGED <<StoredRuns, profile>>
  BY <1>13 DEF Play
<1>14. CASE UNCHANGED vars
  BY <1>14 DEF vars
<1> QED
  BY <1>1, <1>2, <1>3, <1>4, <1>5, <1>6, <1>7, <1>8, <1>9, <1>10, <1>11, <1>12, <1>13, <1>14
     DEF Next, Load, SaveStep

\* The store file implements StorePromise: the profile in memory is the stored one
\* whatever call fails and wherever the program ends.
THEOREM StoreKeepsPromise == Spec => KeepsPromise
<1> QED
  BY InvariantHolds, PromiseInit, PromiseStep, PTL DEF Spec, KeepsPromise, Promise!Spec

-----------------------------------------------------------------------------
(* Runs and identity.                                                       *)

\* Only two steps change the file at the path: the renames of Quarantine and of
\* SaveReplaces.
LEMMA StoreChanges ==
  ASSUME [Next]_vars, store' # store
  PROVE  \/ store' = NoFile /\ kept' = kept \cup {store}
         \/ phase = "replace" /\ store' = temp
<1> USE DEF fileVars
<1> QED
  BY DEF Next, Load, SaveStep, Launch, LoadFindsNothing, LoadReadsHeader, LoadParsesBody, Quarantine,
     SaveOpens, SaveWrites, SaveReplaces, SaveFails, ImportFinishes, ImportFails, Ask, Quit, Play, vars

LEMMA KeptGrows == [Next]_vars => kept \subseteq kept'
  BY DEF Next, Load, SaveStep, Launch, LoadFindsNothing, LoadReadsHeader, LoadParsesBody, Quarantine,
     SaveOpens, SaveWrites, SaveReplaces, SaveFails, ImportFinishes, ImportFails, Ask, Quit, Play, vars,
     fileVars

\* The rename of a save takes every run of the old store along, unless the save is
\* a rebuild the user asked for or the old store is a refused one.
LEMMA ReplacementCovers ==
  ASSUME IInv, phase = "replace", store # NoFile, left = "Nothing", saving.for # "AskedRebuild"
  PROVE  store.runs \subseteq saving.runs
<1>1. saving.for \in {"Load", "Refresh", "Rebuild"}
  BY DEF IInv, TypeOK, SavingKnows, Saves, Requests
<1>2. profile = NoProfile => saving.for = "Load"
  BY DEF IInv, EmptyUnlessLeft, Saves
<1> QED
  BY <1>1, <1>2 DEF IInv, SavingKnows, MemoryIsStored, Saves

\* No step destroys the last copy of a run, outside the exceptions RunsSurvive names.
THEOREM RunsAreKept == Spec => RunsSurvive
<1> DEFINE Survives(r) == \/ r \in Copies(store')
                          \/ \E file \in kept' : r \in file.runs
                          \/ left = "Refused"
                          \/ saving.for = "AskedRebuild"
<1>1. ASSUME IInv, [Next]_vars, NEW r \in Copies(store) PROVE Survives(r)
  <2>1. CASE store' = store
    BY <1>1, <2>1
  <2>2. CASE store' # store /\ store' = NoFile /\ kept' = kept \cup {store}
    BY <1>1, <2>2 DEF Copies
  <2>3. CASE store' # store /\ phase = "replace" /\ store' = temp
    <3>1. store' = Whole /\ store' # NoFile /\ store'.runs = saving.runs
      BY <1>1, <2>3, WholeIsWritten, FileShape DEF IInv, TypeOK, TempKnows, Written
    <3> QED
      BY <1>1, <3>1, <2>3, ReplacementCovers DEF Copies, IInv, TypeOK
  <2> QED
    BY <1>1, <2>1, <2>2, <2>3, StoreChanges
<1>2. IInv /\ [Next]_vars => [\A r \in Copies(store) : Survives(r)]_vars
  BY <1>1
<1> QED
  BY <1>2, InvariantHolds, PTL DEF Spec, RunsSurvive

\* A replaced store hands its time of creation on to the store that replaces it.
THEOREM IdentityIsKept == Spec => IdentityKept
<1> DEFINE Kept == store # NoFile /\ store' \notin {NoFile, store} /\ HeaderReadable(store)
                     /\ store.created # 0 /\ saving.header = "Read"
                   => store'.created = store.created
<1>1. ASSUME IInv, [Next]_vars PROVE Kept
  BY <1>1, StoreChanges DEF IInv, TempKnows, Whole
<1>2. IInv /\ [Next]_vars => [Kept]_vars
  BY <1>1
<1> QED
  BY <1>2, InvariantHolds, PTL DEF Spec, IdentityKept
=============================================================================
