------------------------- MODULE ProfileImportProofs -------------------------
(***************************************************************************)
(* Proofs about the accepted profile, for every set of files, directories  *)
(* and stores and every bound.                                             *)
(*                                                                         *)
(* Inductive invariants:                                                   *)
(*   DurableInv  what is in memory is what its store holds;                *)
(*   TokenInv    the slot, the worker and the service's token agree, a     *)
(*               valid token means that nothing the import was computed    *)
(*               from has changed, and an invalid one that a request waits;*)
(*   DataTyped   runs, jobs and stores are what they look like;            *)
(*   HeldInv     a selected store that loads is the one in memory, and a   *)
(*               program that is closed has nothing under way;             *)
(*   CoverInv    a file that is there is listed or about to be, and what   *)
(*               is listed is on record or will be seen by an import;      *)
(*   SlotInv     the import slot strands no request and skips no re-read.  *)
(* The second gives that a result is only ever applied to what it was      *)
(* computed from (CommitIsCurrent) and that a stale one has a successor,   *)
(* the first four that runs and the selection survive, the fifth that      *)
(* nothing is overlooked, the last that the slot keeps its promise.        *)
(***************************************************************************)
EXTENDS ProfileImport, FiniteSetTheorems, WellFoundedInduction, TLAPS

-----------------------------------------------------------------------------
(* What is in memory is what its store holds.                               *)

StoreShape == stores = [p \in ProfilePaths |-> stores[p]] /\ filepath \in ProfilePaths

DurableInv == StoreShape /\ AcceptedIsDurable

\* Loading a path takes the profile over from the store, or leaves it alone.
LEMMA LoadIsDurable ==
  ASSUME DurableInv, NEW path \in ProfilePaths, LoadProfile(path), filepath' = path,
         UNCHANGED stores
  PROVE  DurableInv'
<1>1. CASE stores[path] # NoProfile
  <2>1. profile' = stores[path] /\ origin' = path
    BY <1>1, Zenon DEF LoadProfile
  <2>2. QED BY <2>1 DEF DurableInv, StoreShape, AcceptedIsDurable
<1>2. CASE stores[path] = NoProfile
  <2>1. UNCHANGED <<profile, origin>>
    BY <1>2, Zenon DEF LoadProfile
  <2>2. QED BY <2>1 DEF DurableInv, StoreShape, AcceptedIsDurable
<1>3. QED BY <1>1, <1>2

\* Every step keeps memory and store together.
LEMMA NextDurable == DurableInv /\ [Next]_vars => DurableInv'
<1> SUFFICES ASSUME DurableInv, [Next]_vars PROVE DurableInv'
  OBVIOUS
<1>1. ASSUME UNCHANGED <<profile, origin, filepath, stores>> PROVE DurableInv'
  BY <1>1 DEF DurableInv, StoreShape, AcceptedIsDurable
<1>2. CASE OnBuildFinished
  <2>1. UNCHANGED filepath /\ (Apply \/ Reject \/ SaveFails)
    BY <1>2, Zenon DEF OnBuildFinished
  <2>2. CASE Apply
    <3>1. CASE Changed \/ FailuresChanged
      <4>1. /\ stores' = [stores EXCEPT ![filepath] = Candidate]
            /\ profile' = Candidate
            /\ origin' = filepath
        BY <2>2, <3>1, Zenon DEF Apply
      <4>2. QED BY <2>1, <4>1 DEF DurableInv, StoreShape, AcceptedIsDurable
    <3>2. CASE ~(Changed \/ FailuresChanged)
      <4>1. UNCHANGED <<stores, profile, origin>>
        BY <2>2, <3>2, Zenon DEF Apply
      <4>2. QED BY <1>1, <2>1, <4>1
    <3>3. QED BY <3>1, <3>2
  <2>3. CASE Reject \/ SaveFails
    <3>1. UNCHANGED <<stores, profile, origin>>
      BY <2>3, Zenon DEF Reject, SaveFails
    <3>2. QED BY <1>1, <2>1, <3>1
  <2>4. QED BY <2>1, <2>2, <2>3
<1>3. CASE \E path \in ProfilePaths : SetProfilePath(path)
  <2>1. PICK path \in ProfilePaths : SetProfilePath(path)
    BY <1>3
  <2>2. LoadProfile(path) /\ filepath' = path /\ UNCHANGED stores
    BY <2>1, Zenon DEF SetProfilePath
  <2>3. QED BY <2>2, LoadIsDurable
<1>4. CASE Launch
  <2>1. LoadProfile(filepath) /\ filepath' = filepath /\ UNCHANGED stores
    BY <1>4, Zenon DEF Launch
  <2>2. filepath \in ProfilePaths
    BY DEF DurableInv, StoreShape
  <2>3. QED BY <2>1, <2>2, LoadIsDurable
<1>5. CASE Quit
  <2>1. profile' = NoProfile /\ UNCHANGED <<filepath, stores>>
    BY <1>5, Zenon DEF Quit
  <2>2. QED BY <2>1 DEF DurableInv, StoreShape, AcceptedIsDurable
<1>6. CASE WorkerStep \/ WorkerThrows
  <2>1. UNCHANGED <<serviceVars, outsideVars>>
    BY <1>6, Zenon DEF WorkerStep, WorkerScan, WorkerRead, WorkerThrows
  <2>2. QED BY <1>1, <2>1 DEF serviceVars, outsideVars
<1>7. CASE RetryTimeout \/ RefreshAsked \/ RebuildAsked \/ DebounceTimeout
  <2>1. UNCHANGED <<profile, filepath, origin, outsideVars>>
    BY <1>7, Zenon DEF RetryTimeout, RefreshAsked, RebuildAsked, DebounceTimeout
  <2>2. QED BY <1>1, <2>1 DEF outsideVars
<1>8. CASE \E f \in Files : SelectRun(f) \/ OpenPerf(f)
  <2>1. UNCHANGED <<serviceVars, outsideVars>>
    BY <1>8, Zenon DEF SelectRun, OpenPerf
  <2>2. QED BY <1>1, <2>1 DEF serviceVars, outsideVars
<1>9. CASE \E roots \in (SUBSET Roots) \ {{}} : SetKovaaksDirs(roots)
  <2>1. UNCHANGED <<profile, filepath, origin, stores>>
    BY <1>9, Zenon DEF SetKovaaksDirs
  <2>2. QED BY <1>1, <2>1
<1>10. CASE FileStep
  <2>1. UNCHANGED <<serviceVars, stores>>
    BY <1>10, Zenon DEF FileStep, FileAppears, FileCompletes
  <2>2. QED BY <1>1, <2>1 DEF serviceVars
<1>11. CASE UNCHANGED vars
  <2>1. UNCHANGED <<profile, origin, filepath, stores>>
    BY <1>11 DEF vars, serviceVars, outsideVars
  <2>2. QED BY <1>1, <2>1
<1>12. QED
  BY <1>2, <1>3, <1>4, <1>5, <1>6, <1>7, <1>8, <1>9, <1>10, <1>11 DEF Next, UserStep

\* The profile the user sees is always the one its store holds, so a process that
\* ends at any moment loses nothing it had shown (acceptImport saves, then publishes).
THEOREM ProfileIsDurable == Spec => []AcceptedIsDurable
<1>1. Init => DurableInv
  BY DEF Init, DurableInv, StoreShape, AcceptedIsDurable
<1>2. DurableInv => AcceptedIsDurable
  BY DEF DurableInv
<1>3. QED BY <1>1, <1>2, NextDurable, PTL DEF Spec

-----------------------------------------------------------------------------
(* The slot, the worker and the token.                                      *)

JobShape ==
  job = [phase |-> job.phase, roots |-> job.roots, baseline |-> job.baseline,
         path |-> job.path, aliases |-> job.aliases, scan |-> job.scan, todo |-> job.todo, read |-> job.read,
         bad |-> job.bad, kept |-> job.kept, failed |-> job.failed]

TokenValid == job.baseline = profile /\ job.path = filepath /\ job.roots = dirs

SlotBusy == inFlight /\ job.phase # "none"

TokenInv ==
  /\ inFlight \in BOOLEAN /\ activeImport \in BOOLEAN
  /\ JobShape
  /\ SlotMatchesWork
  /\ activeImport => TokenValid
  /\ inFlight /\ ~activeImport => rebuildRequested \/ refreshRequested
  /\ StaleIsFollowedUp

\* A job just queued is of the right shape and computed from what is current.
LEMMA QueuedJobIsCurrent ==
  ASSUME job' = QueuedJob
  PROVE  JobShape' /\ job'.phase = "queued" /\ TokenValid'
BY DEF QueuedJob, NoJob, JobShape, TokenValid

\* A request keeps the invariant, whether or not it finds an import in the slot
\* and makes it stale, as long as it makes it stale when it moves what it started from.
LEMMA RequestKeepsToken ==
  ASSUME TokenInv, NEW invalidates \in BOOLEAN, ImportRequested(invalidates),
         inFlight' = TRUE, inFlight => rebuildRequested' \/ refreshRequested',
         invalidates \/ UNCHANGED <<profile, filepath, dirs>>
  PROVE  TokenInv'
<1>1. CASE inFlight
  <2>1. UNCHANGED job /\ activeImport' = (activeImport /\ ~invalidates)
    BY <1>1, Zenon DEF ImportRequested
  <2>2. JobShape' /\ job'.phase # "none"
    BY <1>1, <2>1 DEF TokenInv, JobShape, SlotMatchesWork
  <2>3. activeImport' => TokenValid'
    <3>1. SUFFICES ASSUME activeImport' PROVE TokenValid'
      OBVIOUS
    <3>2. activeImport /\ ~invalidates
      BY <2>1, <3>1, Zenon
    <3>3. QED BY <2>1, <3>2 DEF TokenInv, TokenValid
  <2>4. activeImport' \in BOOLEAN
    BY <2>1, Zenon
  <2>5. QED
    BY <1>1, <2>2, <2>3, <2>4, Zenon DEF TokenInv, SlotMatchesWork, StaleIsFollowedUp
<1>2. CASE ~inFlight
  <2>1. job' = QueuedJob /\ activeImport' = TRUE
    BY <1>2, Zenon DEF ImportRequested
  <2>2. JobShape' /\ job'.phase # "none" /\ TokenValid'
    BY <2>1, QueuedJobIsCurrent
  <2>3. QED
    BY <2>1, <2>2, Zenon DEF TokenInv, SlotMatchesWork, StaleIsFollowedUp
<1>3. QED BY <1>1, <1>2

\* The four ways a handler asks for an import.
LEMMA RefreshKeepsToken ==
  ASSUME TokenInv, NEW reason, NEW invalidates \in BOOLEAN,
         session!RefreshProfile(reason, FALSE) \/ session!StartBuild
           \/ session!RetryTimeout \/ session!StoreLoaded,
         ImportRequested(invalidates),
         invalidates \/ UNCHANGED <<profile, filepath, dirs>>
  PROVE  TokenInv'
<1>1. \E mode, why, moved : session!StartImport(mode, why, moved)
  BY Zenon DEF session!RefreshProfile, session!StartBuild, session!RetryTimeout,
               session!StoreLoaded
<1>2. inFlight' = TRUE /\ (inFlight => rebuildRequested' \/ refreshRequested')
  <2>1. PICK mode, why, moved : session!StartImport(mode, why, moved)
    BY <1>1
  <2>2. CASE ~inFlight
    BY <2>1, <2>2, Zenon DEF session!StartImport, session!Begin
  <2>3. CASE inFlight
    BY <2>1, <2>3, Zenon DEF session!StartImport, session!NoteRebuild, session!NoteRefresh
  <2>4. QED BY <2>2, <2>3
<1>3. QED BY <1>2, RequestKeepsToken

\* Loading a path invalidates the import in the slot.
LEMMA LoadKeepsToken ==
  ASSUME TokenInv, NEW path, LoadProfile(path)
  PROVE  TokenInv'
<1>1. ImportRequested(TRUE) /\ (session!StoreLoaded \/ session!StartBuild)
  BY Zenon DEF LoadProfile
<1>2. QED BY <1>1, RefreshKeepsToken

\* An import that ends passes the slot on, or frees it; a stale one always passes it on.
LEMMA FinishKeepsToken ==
  ASSUME TokenInv, OnBuildFinished
  PROVE  TokenInv'
<1>1. UNCHANGED <<filepath, dirs>>
  BY Zenon DEF OnBuildFinished
<1>2. PICK accepted \in BOOLEAN, result \in Outcomes :
        /\ session!OnBuildFinished(accepted, job.bad # {})
        /\ PassSlotOn(result)
        /\ result = "Stale" => ~activeImport
  <2>1. /\ "Failed" \in Outcomes /\ "Stale" \in Outcomes
        /\ (IF job.bad \cup job.kept = {} THEN "Succeeded" ELSE "Partial") \in Outcomes
        /\ (IF job.bad \cup job.kept = {} THEN "Succeeded" ELSE "Partial") # "Stale"
        /\ (IF activeImport THEN "Failed" ELSE "Stale") \in Outcomes
        /\ (IF activeImport THEN "Failed" ELSE "Stale") = "Stale" => ~activeImport
        /\ "Failed" # "Stale"
    BY DEF Outcomes
  <2>2. QED BY <2>1, Zenon DEF OnBuildFinished
<1>3. inFlight
  BY <1>2, Zenon DEF session!OnBuildFinished
<1>4. \/ inFlight' = TRUE
      \/ inFlight' = FALSE /\ ~rebuildRequested /\ ~refreshRequested
  BY <1>2, Zenon DEF session!OnBuildFinished, session!PassOnRebuild, session!PassOnRefresh,
                     session!FreeSlot, session!Begin
<1>5. CASE inFlight' = TRUE
  <2>1. job' = QueuedJob /\ activeImport' = TRUE
    BY <1>2, <1>5, Zenon DEF PassSlotOn
  <2>2. JobShape' /\ job'.phase # "none" /\ TokenValid'
    BY <2>1, QueuedJobIsCurrent
  <2>3. QED BY <1>5, <2>1, <2>2, Zenon DEF TokenInv, SlotMatchesWork, StaleIsFollowedUp
<1>6. CASE inFlight' = FALSE /\ ~rebuildRequested /\ ~refreshRequested
  <2>1. job' = NoJob /\ activeImport' = FALSE /\ outcome' = result
    BY <1>2, <1>6, Zenon DEF PassSlotOn
  <2>2. outcome' # "Stale"
    BY <1>2, <1>3, <1>6, <2>1, Zenon DEF TokenInv
  <2>3. JobShape' /\ job'.phase = "none"
    BY <2>1 DEF NoJob, JobShape
  <2>4. QED BY <1>6, <2>1, <2>2, <2>3, Zenon DEF TokenInv, SlotMatchesWork, StaleIsFollowedUp
<1>7. QED BY <1>4, <1>5, <1>6

\* Every step keeps the slot, the worker and the token in agreement.
LEMMA NextKeepsToken == TokenInv /\ [Next]_vars => TokenInv'
<1> SUFFICES ASSUME TokenInv, [Next]_vars PROVE TokenInv'
  OBVIOUS
<1>1. ASSUME UNCHANGED <<inFlight, rebuildRequested, refreshRequested, outcome, activeImport,
                         profile, filepath, dirs, job>>
      PROVE  TokenInv'
  BY <1>1 DEF TokenInv, JobShape, SlotMatchesWork, TokenValid, StaleIsFollowedUp
<1>2. CASE OnBuildFinished
  BY <1>2, FinishKeepsToken
<1>3. CASE WorkerStep \/ WorkerThrows
  <2>1. job.phase # "none" /\ UNCHANGED <<controlVars, userVars, serviceVars, outsideVars>>
    BY <1>3 DEF WorkerStep, WorkerScan, WorkerRead, WorkerThrows
  <2>2. \/ job' = [job EXCEPT !.phase = job'.phase, !.scan = job'.scan, !.kept = job'.kept,
                              !.todo = job'.todo]
        \/ job' = [job EXCEPT !.todo = job'.todo, !.read = job'.read]
        \/ job' = [job EXCEPT !.todo = job'.todo, !.bad = job'.bad]
        \/ job' = [job EXCEPT !.todo = job'.todo, !.failed = job'.failed]
    BY <1>3 DEF WorkerStep, WorkerScan, WorkerRead, WorkerThrows, TokenInv, JobShape
  <2>3. job'.phase # "none"
    BY <1>3, <2>1 DEF WorkerStep, WorkerScan, WorkerRead, WorkerThrows, TokenInv, JobShape
  <2>4. /\ JobShape'
        /\ job'.baseline = job.baseline /\ job'.path = job.path /\ job'.roots = job.roots
    BY <2>2 DEF TokenInv, JobShape
  <2>5. UNCHANGED <<inFlight, rebuildRequested, refreshRequested, outcome, activeImport,
                    profile, filepath, dirs>>
    BY <2>1 DEF controlVars, userVars, serviceVars, outsideVars
  <2>6. activeImport' => TokenValid'
    BY <2>4, <2>5 DEF TokenInv, TokenValid
  <2>7. QED
    BY <2>1, <2>3, <2>4, <2>5, <2>6 DEF TokenInv, SlotMatchesWork, StaleIsFollowedUp
<1>4. CASE RetryTimeout
  <2>1. /\ session!RetryTimeout /\ ImportRequested(FALSE)
        /\ UNCHANGED <<profile, filepath, dirs>>
    BY <1>4 DEF RetryTimeout, outsideVars
  <2>2. QED BY <2>1, RefreshKeepsToken
<1>5. CASE RefreshAsked \/ RebuildAsked
  <2>1. /\ session!RefreshProfile("Manual", FALSE) \/ session!StartBuild
        /\ ImportRequested(FALSE)
        /\ UNCHANGED <<profile, filepath, dirs>>
    BY <1>5 DEF RefreshAsked, RebuildAsked, outsideVars
  <2>2. QED BY <2>1, RefreshKeepsToken
<1>6. CASE DebounceTimeout
  <2>1. UNCHANGED <<profile, filepath, dirs, outcome>>
    BY <1>6 DEF DebounceTimeout, outsideVars, userVars
  <2>2. CASE session!RefreshProfile("Live", FALSE) /\ ImportRequested(FALSE)
    BY <2>1, <2>2, RefreshKeepsToken
  <2>3. CASE UNCHANGED <<controlVars, job, activeImport>>
    BY <1>1, <2>1, <2>3 DEF controlVars
  <2>4. QED BY <1>6, <2>2, <2>3, Zenon DEF DebounceTimeout
<1>7. CASE \E f \in Files : SelectRun(f) \/ OpenPerf(f)
  <2>1. UNCHANGED <<outcome, serviceVars, job, outsideVars>> /\ session!SetCurrentRun
    BY <1>7, Zenon DEF SelectRun, OpenPerf
  <2>2. UNCHANGED <<inFlight, rebuildRequested, refreshRequested>>
    BY <2>1 DEF session!SetCurrentRun
  <2>3. QED BY <1>1, <2>1, <2>2 DEF serviceVars, outsideVars
<1>8. CASE \E path \in ProfilePaths : SetProfilePath(path)
  BY <1>8, LoadKeepsToken, Zenon DEF SetProfilePath
<1>9. CASE \E roots \in (SUBSET Roots) \ {{}} : SetKovaaksDirs(roots)
  BY <1>9, RefreshKeepsToken, Zenon DEF SetKovaaksDirs
<1>10. CASE Quit
  <2>1. /\ inFlight' = FALSE /\ activeImport' = FALSE /\ outcome' = "None"
        /\ job' = NoJob
    BY <1>10 DEF Quit, session!Restarted
  <2>2. JobShape' /\ job'.phase = "none"
    BY <2>1 DEF NoJob, JobShape
  <2>3. QED BY <2>1, <2>2 DEF TokenInv, SlotMatchesWork, StaleIsFollowedUp
<1>11. CASE Launch
  BY <1>11, LoadKeepsToken, Zenon DEF Launch
<1>12. CASE FileStep
  <2>1. UNCHANGED <<controlVars, userVars, serviceVars, job, dirs>>
    BY <1>12, Zenon DEF FileStep, FileAppears, FileCompletes
  <2>2. QED BY <1>1, <2>1 DEF controlVars, userVars, serviceVars
<1>13. CASE UNCHANGED vars
  <2>1. UNCHANGED <<controlVars, userVars, serviceVars, job, outsideVars>>
    BY <1>13 DEF vars
  <2>2. QED BY <1>1, <2>1 DEF controlVars, userVars, serviceVars, outsideVars
<1>14. QED
  BY <1>2, <1>3, <1>4, <1>5, <1>6, <1>7, <1>8, <1>9, <1>10, <1>11, <1>12, <1>13
     DEF Next, UserStep

\* Nothing is in the slot when the application starts.
LEMMA InitToken == Init => TokenInv
<1> SUFFICES ASSUME Init PROVE TokenInv
  OBVIOUS
<1>1. inFlight = FALSE /\ activeImport = FALSE /\ outcome = "None" /\ job = NoJob
  BY DEF Init, session!Init
<1>2. JobShape /\ job.phase = "none"
  BY <1>1 DEF NoJob, JobShape
<1>3. QED BY <1>1, <1>2 DEF TokenInv, SlotMatchesWork, StaleIsFollowedUp

LEMMA TokenInvariant == Spec => []TokenInv
BY InitToken, NextKeepsToken, PTL DEF Spec

\* The controller's slot, the worker and the service's token always agree.
THEOREM SlotAgreesWithWork == Spec => []SlotMatchesWork
<1>1. TokenInv => SlotMatchesWork BY DEF TokenInv
<1>2. QED BY <1>1, TokenInvariant, PTL

\* An import made stale by a store switch or a directory change is never the last
\* word: the slot becomes free only after another import.
THEOREM StaleHasSuccessor == Spec => []StaleIsFollowedUp
<1>1. TokenInv => StaleIsFollowedUp BY DEF TokenInv
<1>2. QED BY <1>1, TokenInvariant, PTL

\* Only the end of an import writes a store.
LEMMA StoresChange ==
  ASSUME [Next]_vars, stores' # stores
  PROVE  OnBuildFinished
<1>1. ASSUME UNCHANGED stores PROVE FALSE
  BY <1>1
<1>2. CASE WorkerStep \/ WorkerThrows
  BY <1>1, <1>2 DEF WorkerStep, WorkerScan, WorkerRead, WorkerThrows, outsideVars
<1>3. CASE RetryTimeout \/ DebounceTimeout \/ RefreshAsked \/ RebuildAsked
  BY <1>1, <1>3 DEF RetryTimeout, DebounceTimeout, RefreshAsked, RebuildAsked, outsideVars
<1>4. CASE \E f \in Files : SelectRun(f) \/ OpenPerf(f)
  BY <1>1, <1>4 DEF SelectRun, OpenPerf, outsideVars
<1>5. CASE \/ \E path \in ProfilePaths : SetProfilePath(path)
           \/ \E roots \in (SUBSET Roots) \ {{}} : SetKovaaksDirs(roots)
  BY <1>1, <1>5, Zenon DEF SetProfilePath, SetKovaaksDirs
<1>6. CASE Quit \/ Launch \/ FileStep
  BY <1>1, <1>6, Zenon DEF Quit, Launch, FileStep, FileAppears, FileCompletes
<1>7. CASE UNCHANGED vars
  BY <1>1, <1>7 DEF vars, outsideVars
<1>8. QED BY <1>2, <1>3, <1>4, <1>5, <1>6, <1>7 DEF Next, UserStep

\* A result is only applied to the profile, store and directories it was computed
\* from: a valid token says that none of them has changed since (acceptImport).
THEOREM CommitsAreCurrent == Spec => CommitIsCurrent
<1> DEFINE Current == stores' # stores => job.baseline = profile /\ job.path = filepath
                                          /\ job.roots = dirs
<1>1. TokenInv /\ [Next]_vars => [Current]_vars
  <2> SUFFICES ASSUME TokenInv, [Next]_vars, stores' # stores PROVE Current
    OBVIOUS
  <2>1. OnBuildFinished
    BY StoresChange
  <2>2. activeImport
    BY <2>1, Zenon DEF OnBuildFinished, Apply, Reject, SaveFails
  <2>3. QED BY <2>2 DEF TokenInv, TokenValid
<1>2. QED BY <1>1, TokenInvariant, PTL DEF Spec, CommitIsCurrent

-----------------------------------------------------------------------------
(* Least and greatest numbers of a set.                                    *)

\* A set of natural numbers has a least one.
LEMMA LeastNumber ==
  ASSUME NEW T, T \subseteq Nat, T # {}
  PROVE  \E m \in T : \A k \in T : m <= k
<1> DEFINE R == {ss \in Nat \X Nat : ss[1] < ss[2]}
<1>1. IsWellFoundedOn(R, Nat)
  BY NatLessThanWellFounded DEF OpToRel
<1>2. ASSUME NEW x \in Nat, NEW y \in Nat PROVE <<y, x>> \in R \/ x <= y
  OBVIOUS
<1> HIDE DEF R
<1>3. PICK m \in T : \A y \in T : ~ (<<y, m>> \in R)
  BY <1>1, WFMin
<1>4. \A k \in T : m <= k
  BY <1>2, <1>3
<1>5. QED BY <1>4

\* A finite set of them has a greatest one: otherwise a smallest set without one, less any of
\* its members, would have one.
LEMMA MaxMember ==
  ASSUME NEW S, IsFiniteSet(S), S \subseteq Nat, S # {}
  PROVE  Max(S) \in S
<1> DEFINE HasMax(U) == \E m \in U : \A k \in U : m >= k
           Lacking == {U \in SUBSET S : U # {} /\ ~HasMax(U)}
           Sizes == {Cardinality(U) : U \in Lacking}
<1>1. Lacking = {}
  <2> SUFFICES ASSUME Lacking # {} PROVE FALSE
    OBVIOUS
  <2>1. \A U \in Lacking : IsFiniteSet(U) /\ Cardinality(U) \in Nat
    BY FS_Subset, FS_CardinalityType
  <2>2. Sizes \subseteq Nat /\ Sizes # {}
    BY <2>1
  <2>3. PICK n \in Sizes : \A k \in Sizes : n <= k
    <3> HIDE DEF Sizes
    <3>1. QED BY <2>2, LeastNumber
  <2>4. PICK U \in Lacking : n = Cardinality(U)
    BY <2>3
  <2>5. PICK x \in U : TRUE
    OBVIOUS
  <2>6. Cardinality(U \ {x}) = Cardinality(U) - 1 /\ Cardinality(U) \in Nat
    BY <2>1, <2>5, FS_RemoveElement
  <2>7. U \ {x} \notin Lacking
    <3>1. ASSUME U \ {x} \in Lacking PROVE FALSE
      <4>1. Cardinality(U \ {x}) \in Sizes
        BY <3>1
      <4>2. n <= Cardinality(U \ {x})
        BY <2>3, <4>1
      <4>3. QED BY <2>4, <2>6, <4>2
    <3>2. QED BY <3>1
  <2>8. U \ {x} # {} => HasMax(U \ {x})
    BY <2>7
  <2>9. HasMax(U)
    <3>1. U \subseteq Nat
      OBVIOUS
    <3>2. CASE U \ {x} = {}
      BY <2>5, <3>1, <3>2
    <3>3. CASE HasMax(U \ {x})
      <4>1. PICK m \in U \ {x} : \A k \in U \ {x} : m >= k
        BY <3>3
      <4>2. CASE m >= x
        BY <3>1, <4>1, <4>2
      <4>3. CASE x > m
        <5>1. \A k \in U : x >= k
          BY <2>5, <3>1, <4>1, <4>3
        <5>2. QED BY <2>5, <5>1
      <4>4. QED BY <2>5, <3>1, <4>1, <4>2, <4>3
    <3>4. QED BY <2>8, <3>2, <3>3
  <2>10. QED BY <2>4, <2>9
<1>2. HasMax(S)
  BY <1>1
<1>3. QED
  <2> HIDE DEF Lacking
  <2>1. QED BY <1>2 DEF Max

LEMMA MinMember ==
  ASSUME NEW S, S \subseteq Nat, S # {}
  PROVE  Min(S) \in S
BY LeastNumber DEF Min

\* The latest run of a profile is one of its runs.
LEMMA LatestIsARun ==
  ASSUME NEW p \in Profiles, Latest(p) # NoRun
  PROVE  Latest(p) \in p.runs
<1>1. p.runs # {} /\ Latest(p) = Max(p.runs)
  BY DEF Latest
<1>2. p.runs \subseteq Nat /\ IsFiniteSet(p.runs)
  BY FilesAssumption, FS_Subset DEF Profiles
<1>3. QED BY <1>1, <1>2, MaxMember

-----------------------------------------------------------------------------
(* What a job and a candidate are made of.                                 *)

JobTyped ==
  /\ job.baseline \in Profiles \cup {NoProfile}
  /\ job.aliases \in SUBSET Files /\ job.scan \in [Files -> Contents]
  /\ job.todo \in SUBSET Files /\ job.read \in SUBSET Files
  /\ job.bad \in SUBSET Files /\ job.kept \in SUBSET Files
  /\ job.kept # {} => job.baseline # NoProfile

DataTyped ==
  /\ profile \in Profiles \cup {NoProfile}
  /\ stores \in [ProfilePaths -> Profiles \cup {NoProfile}] /\ filepath \in ProfilePaths
  /\ aliases \in SUBSET Files /\ disk \in [Files -> Contents]
  /\ JobShape /\ JobTyped

LEMMA CandidateTyped == JobTyped => Candidate \in Profiles
<1> SUFFICES ASSUME JobTyped PROVE Candidate \in Profiles
  OBVIOUS
<1>1. Base \in Profiles
  BY DEF Base, JobTyped, EmptyProfile, Profiles, Contents
<1>2. Failures \in [Files -> Contents]
  <2>1. ASSUME NEW f \in Files
        PROVE  (IF f \in job.bad THEN job.scan[f]
                ELSE IF f \in job.kept THEN job.baseline.failed[f] ELSE Absent) \in Contents
    <3>1. job.baseline # NoProfile => job.baseline.failed[f] \in Contents
      BY DEF JobTyped, Profiles
    <3>2. QED BY <3>1 DEF JobTyped, Contents
  <2>2. QED BY <2>1 DEF Failures
<1>3. Base.runs \in SUBSET Files
  BY <1>1 DEF Profiles
<1>4. QED BY <1>2, <1>3 DEF Candidate, JobTyped, Profiles

LEMMA QueuedJobTyped ==
  ASSUME job' = QueuedJob, profile' \in Profiles \cup {NoProfile}, aliases' \in SUBSET Files
  PROVE  JobShape' /\ JobTyped'
<1>1. Absent \in Contents
  BY DEF Contents
<1>2. QED BY <1>1 DEF QueuedJob, NoJob, JobShape, JobTyped

LEMMA RequestTyped ==
  ASSUME DataTyped, NEW invalidates \in BOOLEAN, ImportRequested(invalidates),
         profile' \in Profiles \cup {NoProfile}
  PROVE  aliases' \in SUBSET Files /\ JobShape' /\ JobTyped'
<1>1. aliases' \in SUBSET Files
  <2>1. aliases' = IF invalidates THEN {} ELSE aliases
    BY Zenon DEF ImportRequested
  <2>2. QED BY <2>1 DEF DataTyped
<1>2. job' = QueuedJob \/ UNCHANGED job
  BY Zenon DEF ImportRequested
<1>3. QED BY <1>1, <1>2, QueuedJobTyped DEF DataTyped, JobShape, JobTyped

LEMMA LoadTyped ==
  ASSUME DataTyped, NEW path \in ProfilePaths, LoadProfile(path)
  PROVE  /\ profile' \in Profiles \cup {NoProfile}
         /\ aliases' \in SUBSET Files /\ JobShape' /\ JobTyped'
<1>1. ImportRequested(TRUE) /\ (profile' = stores[path] \/ UNCHANGED profile)
  BY Zenon DEF LoadProfile
<1>2. profile' \in Profiles \cup {NoProfile}
  BY <1>1 DEF DataTyped
<1>3. QED BY <1>1, <1>2, RequestTyped

\* A worker's step changes the job only.
LEMMA WorkerTyped ==
  ASSUME DataTyped, WorkerStep \/ WorkerThrows
  PROVE  JobShape' /\ JobTyped'
<1>1. CASE WorkerScan
  <2> DEFINE usesBaseline == active.mode = "Refresh" /\ job.baseline # NoProfile
             scan == [f \in Files |-> IF f \in Present(job.roots) THEN disk[f] ELSE Absent]
             known == IF usesBaseline THEN job.baseline.runs \cup job.aliases ELSE {}
             kept == IF usesBaseline /\ session!SkipsFailures(active)
                     THEN {f \in Present(job.roots) \ known : job.baseline.failed[f] = scan[f]}
                     ELSE {}
             todo == Present(job.roots) \ (known \cup kept)
  <2>1. job' = [job EXCEPT !.phase = "reading", !.scan = scan, !.kept = kept, !.todo = todo]
    BY <1>1, Zenon DEF WorkerScan
  <2>2. scan \in [Files -> Contents]
    BY DEF DataTyped, Contents
  <2>3. kept \in SUBSET Files /\ todo \in SUBSET Files
    BY DEF Present
  <2>4. kept # {} => job.baseline # NoProfile
    OBVIOUS
  <2> HIDE DEF scan, kept, todo
  <2>5. QED BY <2>1, <2>2, <2>3, <2>4 DEF DataTyped, JobShape, JobTyped
<1>2. CASE WorkerRead
  <2> DEFINE f == Min(job.todo)
  <2>1. f \in Files
    BY <1>2, MinMember, FilesAssumption DEF WorkerRead, DataTyped, JobTyped
  <2>2. \/ job' = [job EXCEPT !.todo = @ \ {f}, !.read = @ \cup {f}]
        \/ job' = [job EXCEPT !.todo = @ \ {f}, !.bad = @ \cup {f}]
    BY <1>2, Zenon DEF WorkerRead
  <2> HIDE DEF f
  <2>3. CASE job' = [job EXCEPT !.todo = @ \ {f}, !.read = @ \cup {f}]
    BY <2>1, <2>3 DEF DataTyped, JobShape, JobTyped
  <2>4. CASE job' = [job EXCEPT !.todo = @ \ {f}, !.bad = @ \cup {f}]
    BY <2>1, <2>4 DEF DataTyped, JobShape, JobTyped
  <2>5. QED BY <2>2, <2>3, <2>4
<1>3. CASE WorkerThrows
  BY <1>3 DEF WorkerThrows, DataTyped, JobShape, JobTyped
<1>4. QED BY <1>1, <1>2, <1>3 DEF WorkerStep

LEMMA FinishTyped ==
  ASSUME DataTyped, OnBuildFinished
  PROVE  DataTyped'
<1>1. UNCHANGED <<filepath, disk>> /\ (Apply \/ Reject \/ SaveFails)
  BY Zenon DEF OnBuildFinished
<1>2. Candidate \in Profiles
  BY CandidateTyped DEF DataTyped
<1>3. /\ profile' \in Profiles \cup {NoProfile}
      /\ stores' \in [ProfilePaths -> Profiles \cup {NoProfile}]
      /\ aliases' \in SUBSET Files
  <2>1. CASE Apply
    <3>1. aliases' = aliases \cup job.read
      BY <2>1 DEF Apply
    <3>2. \/ stores' = [stores EXCEPT ![filepath] = Candidate] /\ profile' = Candidate
          \/ UNCHANGED <<stores, profile>>
      BY <2>1, Zenon DEF Apply
    <3>3. QED BY <1>2, <3>1, <3>2 DEF DataTyped, JobTyped
  <2>2. CASE Reject \/ SaveFails
    <3>1. UNCHANGED <<stores, profile, aliases>>
      BY <2>2, Zenon DEF Reject, SaveFails
    <3>2. QED BY <3>1 DEF DataTyped
  <2>3. QED BY <1>1, <2>1, <2>2
<1>4. job' = QueuedJob \/ job' = NoJob
  BY Zenon DEF OnBuildFinished, PassSlotOn
<1>5. JobShape' /\ JobTyped'
  <2>1. CASE job' = QueuedJob
    BY <1>3, <2>1, QueuedJobTyped
  <2>2. CASE job' = NoJob
    <3>1. Absent \in Contents
      BY DEF Contents
    <3>2. QED BY <2>2, <3>1 DEF NoJob, JobShape, JobTyped
  <2>3. QED BY <1>4, <2>1, <2>2
<1>6. QED BY <1>1, <1>3, <1>5 DEF DataTyped

LEMMA NextTyped == DataTyped /\ [Next]_vars => DataTyped'
<1> SUFFICES ASSUME DataTyped, [Next]_vars PROVE DataTyped'
  OBVIOUS
<1>1. CASE WorkerStep \/ WorkerThrows
  <2>1. UNCHANGED <<serviceVars, outsideVars>>
    BY <1>1, Zenon DEF WorkerStep, WorkerScan, WorkerRead, WorkerThrows
  <2>2. UNCHANGED <<profile, filepath, aliases, disk, stores>>
    BY <2>1 DEF serviceVars, outsideVars
  <2>3. QED BY <1>1, <2>2, WorkerTyped DEF DataTyped
<1>2. CASE OnBuildFinished
  BY <1>2, FinishTyped
<1>3. CASE RetryTimeout \/ RefreshAsked \/ RebuildAsked \/ DebounceTimeout
  <2>1. UNCHANGED <<profile, filepath, outsideVars>>
    BY <1>3, Zenon DEF RetryTimeout, RefreshAsked, RebuildAsked, DebounceTimeout
  <2>2. UNCHANGED <<profile, filepath, stores, disk>>
    BY <2>1 DEF outsideVars
  <2>3. ImportRequested(FALSE) \/ UNCHANGED <<job, aliases>>
    BY <1>3, Zenon DEF RetryTimeout, RefreshAsked, RebuildAsked, DebounceTimeout
  <2>4. aliases' \in SUBSET Files /\ JobShape' /\ JobTyped'
    <3>1. CASE ImportRequested(FALSE)
      <4>1. profile' \in Profiles \cup {NoProfile}
        BY <2>2 DEF DataTyped
      <4>2. QED BY <3>1, <4>1, RequestTyped
    <3>2. CASE UNCHANGED <<job, aliases>>
      BY <3>2 DEF DataTyped, JobShape, JobTyped
    <3>3. QED BY <2>3, <3>1, <3>2
  <2>5. QED BY <2>2, <2>4 DEF DataTyped
<1>4. CASE \E f \in Files : SelectRun(f) \/ OpenPerf(f)
  <2>1. UNCHANGED <<serviceVars, job, outsideVars>>
    BY <1>4, Zenon DEF SelectRun, OpenPerf
  <2>2. QED BY <2>1 DEF serviceVars, outsideVars, DataTyped, JobShape, JobTyped
<1>5. CASE \E path \in ProfilePaths : SetProfilePath(path)
  <2>1. PICK path \in ProfilePaths : SetProfilePath(path)
    BY <1>5
  <2>2. LoadProfile(path) /\ filepath' = path /\ UNCHANGED <<disk, stores>>
    BY <2>1, Zenon DEF SetProfilePath
  <2>3. QED BY <2>2, LoadTyped DEF DataTyped
<1>6. CASE \E roots \in (SUBSET Roots) \ {{}} : SetKovaaksDirs(roots)
  <2>1. ImportRequested(TRUE) /\ UNCHANGED <<profile, filepath, disk, stores>>
    BY <1>6, Zenon DEF SetKovaaksDirs
  <2>2. profile' \in Profiles \cup {NoProfile}
    BY <2>1 DEF DataTyped
  <2>3. QED BY <2>1, <2>2, RequestTyped DEF DataTyped
<1>7. CASE Quit
  <2>1. /\ profile' = NoProfile /\ aliases' = {} /\ job' = NoJob
        /\ UNCHANGED <<filepath, disk, stores>>
    BY <1>7, Zenon DEF Quit
  <2>2. JobShape' /\ JobTyped'
    BY <2>1 DEF NoJob, JobShape, JobTyped, Contents
  <2>3. QED BY <2>1, <2>2 DEF DataTyped
<1>8. CASE Launch
  <2>1. LoadProfile(filepath) /\ UNCHANGED <<filepath, disk, stores>>
    BY <1>8, Zenon DEF Launch
  <2>2. filepath \in ProfilePaths
    BY DEF DataTyped
  <2>3. QED BY <2>1, <2>2, LoadTyped DEF DataTyped
<1>9. CASE FileStep
  <2>1. UNCHANGED <<serviceVars, job, stores>>
    BY <1>9, Zenon DEF FileStep, FileAppears, FileCompletes
  <2>2. disk' \in [Files -> Contents]
    <3>1. \E f \in Files, content \in Contents : disk' = [disk EXCEPT ![f] = content]
      BY <1>9 DEF FileStep, FileAppears, FileCompletes, Contents
    <3>2. QED BY <3>1 DEF DataTyped
  <2>3. QED BY <2>1, <2>2 DEF serviceVars, DataTyped, JobShape, JobTyped
<1>10. CASE UNCHANGED vars
  BY <1>10 DEF vars, serviceVars, outsideVars, DataTyped, JobShape, JobTyped
<1>11. QED
  BY <1>1, <1>2, <1>3, <1>4, <1>5, <1>6, <1>7, <1>8, <1>9, <1>10 DEF Next, UserStep

LEMMA InitTyped == Init => DataTyped
<1> SUFFICES ASSUME Init PROVE DataTyped
  OBVIOUS
<1>1. JobShape /\ JobTyped
  BY DEF Init, NoJob, JobShape, JobTyped, Contents
<1>2. QED BY <1>1 DEF Init, DataTyped, Contents

-----------------------------------------------------------------------------
(* What is true of the store that is selected, and while the program is    *)
(* closed.                                                                 *)

HeldInv ==
  /\ active.mode \in session!Modes
  /\ ~open => ~inFlight /\ ~retryArmed /\ ~debouncing /\ \A f \in Files : pending[f] = Absent
  /\ open /\ stores[filepath] # NoProfile => profile # NoProfile /\ origin = filepath

\* What becomes of the slot when a handler asks for an import.
LEMMA RequestEffect ==
  ASSUME NEW reason, NEW moved, NEW invalidates,
         session!RefreshProfile(reason, moved) \/ session!StartBuild \/ session!RetryTimeout,
         ImportRequested(invalidates)
  PROVE  /\ inFlight' = TRUE /\ retryArmed' = FALSE
         /\ ~inFlight => active'.mode \in session!Modes /\ job' = QueuedJob
         /\ inFlight => UNCHANGED <<active, job>> /\ (rebuildRequested' \/ refreshRequested')
<1>1. retryArmed' = FALSE
  BY Zenon DEF session!RefreshProfile, session!StartBuild, session!RetryTimeout, session!StopRetry
<1>2. PICK mode, why, selected : mode \in session!Modes /\ session!StartImport(mode, why, selected)
  <2>1. "Rebuild" \in session!Modes /\ "Refresh" \in session!Modes
    BY DEF session!Modes
  <2>2. QED
    BY <2>1, Zenon DEF session!RefreshProfile, session!StartBuild, session!RetryTimeout
<1>3. CASE inFlight
  <2>1. /\ inFlight' = inFlight /\ UNCHANGED active
        /\ rebuildRequested' = TRUE \/ refreshRequested' = TRUE
    BY <1>2, <1>3, Zenon DEF session!StartImport, session!NoteRebuild, session!NoteRefresh
  <2>2. UNCHANGED job
    BY <1>3, Zenon DEF ImportRequested
  <2>3. QED BY <1>1, <1>3, <2>1, <2>2
<1>4. CASE ~inFlight
  <2>1. inFlight' = TRUE /\ active' = [mode |-> mode, reason |-> why]
    BY <1>2, <1>4, Zenon DEF session!StartImport, session!Begin
  <2>2. job' = QueuedJob
    BY <1>4, Zenon DEF ImportRequested
  <2>3. QED BY <1>1, <1>2, <1>4, <2>1, <2>2
<1>5. QED BY <1>3, <1>4

LEMMA LoadHolds ==
  ASSUME HeldInv, DataTyped, NEW path \in ProfilePaths, LoadProfile(path), filepath' = path,
         open', UNCHANGED stores
  PROVE  HeldInv'
<1>1. ImportRequested(TRUE) /\ (session!RefreshProfile("Startup", TRUE) \/ session!StartBuild)
  BY Zenon DEF LoadProfile, session!StoreLoaded
<1>2. active'.mode \in session!Modes
  <2>1. CASE inFlight
    BY <1>1, <2>1, RequestEffect DEF HeldInv
  <2>2. CASE ~inFlight
    BY <1>1, <2>2, RequestEffect
  <2>3. QED BY <2>1, <2>2
<1>3. stores[path] # NoProfile => profile' = stores[path] /\ origin' = path
  BY Zenon DEF LoadProfile
<1>4. QED BY <1>2, <1>3 DEF HeldInv

LEMMA NextHolds == HeldInv /\ DataTyped /\ TokenInv /\ [Next]_vars => HeldInv'
<1> SUFFICES ASSUME HeldInv, DataTyped, TokenInv, [Next]_vars PROVE HeldInv'
  OBVIOUS
<1> USE DEF SlotMatchesWork
<1>1. CASE WorkerStep \/ WorkerThrows
  <2>1. UNCHANGED <<controlVars, serviceVars, watchVars, outsideVars>>
    BY <1>1, Zenon DEF WorkerStep, WorkerScan, WorkerRead, WorkerThrows
  <2>2. QED BY <2>1 DEF controlVars, serviceVars, watchVars, outsideVars, HeldInv
<1>2. CASE OnBuildFinished
  <2>1. /\ \E accepted \in BOOLEAN : session!OnBuildFinished(accepted, job.bad # {})
        /\ Apply \/ Reject \/ SaveFails
        /\ UNCHANGED <<filepath, open>>
    BY <1>2, Zenon DEF OnBuildFinished
  <2>2. inFlight
    BY <2>1, Zenon DEF session!OnBuildFinished
  <2>3. active'.mode \in session!Modes
    <3>1. UNCHANGED active \/ \E mode, why : mode \in session!Modes /\ session!Begin(mode, why)
      <4>1. "Rebuild" \in session!Modes /\ "Refresh" \in session!Modes
        BY DEF session!Modes
      <4>2. QED
        BY <2>1, <4>1, Zenon DEF session!OnBuildFinished, session!PassOnRebuild,
                                 session!PassOnRefresh, session!FreeSlot
    <3>2. QED BY <3>1 DEF session!Begin, HeldInv
  <2>4. stores'[filepath] # NoProfile => profile' # NoProfile /\ origin' = filepath
    <3>1. Candidate \in Profiles
      BY CandidateTyped DEF DataTyped
    <3>2. \/ stores' = [stores EXCEPT ![filepath] = Candidate] /\ profile' = Candidate /\ origin' = filepath
          \/ UNCHANGED <<stores, profile, origin>>
      BY <2>1, Zenon DEF Apply, Reject, SaveFails
    <3>3. open
      BY <2>2 DEF HeldInv
    <3>4. QED BY <3>1, <3>2, <3>3, NoProfileAssumption DEF HeldInv, DataTyped
  <2>5. QED BY <2>1, <2>2, <2>3, <2>4 DEF HeldInv
<1>3. CASE RetryTimeout \/ RefreshAsked \/ RebuildAsked \/ DebounceTimeout
  <2>1. UNCHANGED <<profile, filepath, origin, open, stores>>
    BY <1>3 DEF RetryTimeout, RefreshAsked, RebuildAsked, DebounceTimeout, outsideVars
  <2>2. open
    BY <1>3 DEF RetryTimeout, RefreshAsked, RebuildAsked, DebounceTimeout, session!RetryTimeout, HeldInv
  <2>3. \/ /\ ImportRequested(FALSE)
           /\ \/ \E reason : session!RefreshProfile(reason, FALSE)
              \/ session!StartBuild \/ session!RetryTimeout
        \/ UNCHANGED controlVars
    BY <1>3, Zenon DEF RetryTimeout, RefreshAsked, RebuildAsked, DebounceTimeout
  <2>4. active'.mode \in session!Modes
    <3>1. CASE UNCHANGED controlVars
      BY <3>1 DEF controlVars, HeldInv
    <3>2. CASE ~ UNCHANGED controlVars
      <4>1. (inFlight => UNCHANGED active) /\ (~inFlight => active'.mode \in session!Modes)
        BY <2>3, <3>2, RequestEffect
      <4>2. QED BY <4>1 DEF HeldInv
    <3>3. QED BY <3>1, <3>2
  <2>5. QED BY <2>1, <2>2, <2>4 DEF HeldInv
<1>4. CASE \E f \in Files : SelectRun(f) \/ OpenPerf(f)
  <2>1. UNCHANGED <<serviceVars, watchVars, outsideVars>> /\ session!SetCurrentRun
    BY <1>4, Zenon DEF SelectRun, OpenPerf
  <2>2. QED
    BY <2>1 DEF serviceVars, watchVars, outsideVars, session!SetCurrentRun, HeldInv
<1>5. CASE \E path \in ProfilePaths : SetProfilePath(path)
  <2>1. PICK path \in ProfilePaths : SetProfilePath(path)
    BY <1>5
  <2>2. LoadProfile(path) /\ filepath' = path /\ UNCHANGED <<open, stores>> /\ open
    BY <2>1, Zenon DEF SetProfilePath
  <2>3. QED BY <2>2, LoadHolds
<1>6. CASE \E roots \in (SUBSET Roots) \ {{}} : SetKovaaksDirs(roots)
  <2>1. /\ ImportRequested(TRUE) /\ session!RefreshProfile("SourceSettingsChanged", FALSE)
        /\ UNCHANGED <<profile, filepath, origin, open, stores>> /\ open
    BY <1>6, Zenon DEF SetKovaaksDirs
  <2>2. (inFlight => UNCHANGED active) /\ (~inFlight => active'.mode \in session!Modes)
    BY <2>1, RequestEffect
  <2>3. QED BY <2>1, <2>2 DEF HeldInv
<1>7. CASE Quit
  BY <1>7 DEF Quit, session!Restarted, session!Modes, HeldInv
<1>8. CASE Launch
  <2>1. LoadProfile(filepath) /\ UNCHANGED <<filepath, stores>> /\ open' = TRUE
    BY <1>8, Zenon DEF Launch
  <2>2. filepath \in ProfilePaths
    BY DEF DataTyped
  <2>3. QED BY <2>1, <2>2, LoadHolds
<1>9. CASE FileStep
  <2>1. UNCHANGED <<controlVars, serviceVars, pending, open, stores>>
    BY <1>9, Zenon DEF FileStep, FileAppears, FileCompletes
  <2>2. ~open => ~debouncing'
    BY <1>9 DEF FileStep, FileAppears, FileCompletes, HeldInv
  <2>3. QED BY <2>1, <2>2 DEF controlVars, serviceVars, HeldInv
<1>10. CASE UNCHANGED vars
  BY <1>10 DEF vars, controlVars, serviceVars, watchVars, outsideVars, HeldInv
<1>11. QED
  BY <1>1, <1>2, <1>3, <1>4, <1>5, <1>6, <1>7, <1>8, <1>9, <1>10 DEF Next, UserStep

LEMMA ImportInvariant == Spec => [](DataTyped /\ DurableInv /\ TokenInv /\ HeldInv)
<1>1. Init => DurableInv
  BY DEF Init, DurableInv, StoreShape, AcceptedIsDurable
<1>2. Init => HeldInv
  BY DEF Init, session!Init, session!Modes, HeldInv
<1>3. QED
  BY <1>1, <1>2, InitTyped, InitToken, NextTyped, NextDurable, NextKeepsToken, NextHolds, PTL
     DEF Spec

-----------------------------------------------------------------------------
(* What is imported stays, and what is selected is there.                  *)

\* A refresh adds to the profile it was computed from.
LEMMA RefreshAdds ==
  ASSUME DataTyped, TokenInv, activeImport, active.mode = "Refresh", profile # NoProfile
  PROVE  profile.runs \subseteq Candidate.runs
<1>1. job.baseline = profile
  BY DEF TokenInv, TokenValid
<1>2. QED BY <1>1 DEF Candidate, Base

\* Only a rebuild drops runs from a store (ProfileService::acceptImport): what an import
\* saves over a store holds every run of that store, whose profile is the one in memory.
THEOREM RunsAreNeverLost == Spec => RunsNeverLost
<1> DEFINE Kept == \A p \in ProfilePaths :
                     stores[p] # NoProfile =>
                       /\ stores'[p] # NoProfile
                       /\ active.mode = "Rebuild" \/ stores[p].runs \subseteq stores'[p].runs
<1>1. DataTyped /\ DurableInv /\ TokenInv /\ HeldInv /\ [Next]_vars => [Kept]_vars
  <2> SUFFICES ASSUME DataTyped, DurableInv, TokenInv, HeldInv, [Next]_vars, stores' # stores
      PROVE  Kept
    OBVIOUS
  <2>1. OnBuildFinished
    BY StoresChange
  <2>2. /\ activeImport /\ stores' = [stores EXCEPT ![filepath] = Candidate]
    BY <2>1, Zenon DEF OnBuildFinished, Apply, Reject, SaveFails
  <2>3. Candidate \in Profiles /\ Candidate # NoProfile
    BY CandidateTyped, NoProfileAssumption DEF DataTyped
  <2>4. open
    BY <2>2 DEF TokenInv, SlotMatchesWork, HeldInv
  <2>5. ASSUME stores[filepath] # NoProfile, active.mode # "Rebuild"
        PROVE  stores[filepath].runs \subseteq Candidate.runs
    <3>1. profile # NoProfile /\ origin = filepath
      BY <2>4, <2>5 DEF HeldInv
    <3>2. stores[filepath] = profile
      BY <3>1 DEF DurableInv, AcceptedIsDurable
    <3>3. active.mode = "Refresh"
      BY <2>5 DEF HeldInv, session!Modes
    <3>4. QED BY <2>2, <3>1, <3>2, <3>3, RefreshAdds
  <2>6. ASSUME NEW p \in ProfilePaths, stores[p] # NoProfile
        PROVE  /\ stores'[p] # NoProfile
               /\ active.mode = "Rebuild" \/ stores[p].runs \subseteq stores'[p].runs
    BY <2>2, <2>3, <2>5, <2>6 DEF DataTyped
  <2>7. QED BY <2>6
<1>2. QED BY <1>1, ImportInvariant, PTL DEF Spec, RunsNeverLost

LEMMA LoadSelects ==
  ASSUME CurrentRunKnown, DataTyped, NEW path \in ProfilePaths, LoadProfile(path)
  PROVE  CurrentRunKnown'
<1>1. CASE stores[path] # NoProfile
  <2>1. profile' = stores[path] /\ currentRun' = Latest(profile')
    BY <1>1, Zenon DEF LoadProfile
  <2>2. profile' \in Profiles /\ profile' # NoProfile
    BY <1>1, <2>1 DEF DataTyped
  <2>3. currentRun' # NoRun => currentRun' \in profile'.runs
    BY <2>1, <2>2, LatestIsARun
  <2>4. QED BY <2>2, <2>3 DEF CurrentRunKnown
<1>2. CASE stores[path] = NoProfile
  <2>1. UNCHANGED <<profile, currentRun, handOpened>>
    BY <1>2, Zenon DEF LoadProfile
  <2>2. QED BY <2>1 DEF CurrentRunKnown
<1>3. QED BY <1>1, <1>2

\* An accepted result selects the latest run, or adds to the profile that has the selected one.
LEMMA ApplySelects ==
  ASSUME CurrentRunKnown, DataTyped, TokenInv, HeldInv, Apply
  PROVE  CurrentRunKnown'
<1>1. Candidate \in Profiles /\ Candidate # NoProfile
  BY CandidateTyped, NoProfileAssumption DEF DataTyped
<1>2. activeImport /\ RefreshCurrentRun
  BY Zenon DEF Apply
<1>3. job.baseline = profile
  BY <1>2 DEF TokenInv, TokenValid
<1>4. CASE Changed /\ FollowsLatest
  <2>1. profile' = Candidate /\ currentRun' = Latest(profile')
    BY <1>2, <1>4, Zenon DEF Apply, RefreshCurrentRun
  <2>2. QED BY <1>1, <2>1, LatestIsARun DEF CurrentRunKnown
<1>5. CASE ~(Changed /\ FollowsLatest)
  <2>1. UNCHANGED <<currentRun, handOpened>>
    BY <1>2, <1>5, Zenon DEF RefreshCurrentRun
  <2>2. CASE ~(Changed \/ FailuresChanged)
    <3>1. UNCHANGED profile
      BY <2>2, Zenon DEF Apply
    <3>2. QED BY <2>1, <3>1 DEF CurrentRunKnown
  <2>3. CASE Changed \/ FailuresChanged
    <3>1. profile' = Candidate
      BY <2>3, Zenon DEF Apply
    <3>2. ASSUME currentRun' # NoRun, ~handOpened'
          PROVE  currentRun' \in Candidate.runs
      <4>1. profile # NoProfile /\ currentRun \in profile.runs
        BY <2>1, <3>2 DEF CurrentRunKnown
      <4>2. active.mode = "Refresh"
        <5>1. active.mode # "Rebuild"
          BY <1>5 DEF Changed, FollowsLatest
        <5>2. QED BY <5>1 DEF HeldInv, session!Modes
      <4>3. QED BY <1>2, <2>1, <4>1, <4>2, RefreshAdds
    <3>3. QED BY <1>1, <3>1, <3>2 DEF CurrentRunKnown
  <2>4. QED BY <2>2, <2>3
<1>6. QED BY <1>4, <1>5

\* The current run is a run of the accepted profile unless it was opened by hand
\* (SessionController::refreshCurrentRun), across rebuilds, store switches and stale results.
THEOREM SelectedRunIsKnown == Spec => []CurrentRunKnown
<1>1. Init => CurrentRunKnown
  BY DEF Init, CurrentRunKnown
<1>2. CurrentRunKnown /\ DataTyped /\ TokenInv /\ HeldInv /\ [Next]_vars => CurrentRunKnown'
  <2> SUFFICES ASSUME CurrentRunKnown, DataTyped, TokenInv, HeldInv, [Next]_vars
      PROVE  CurrentRunKnown'
    OBVIOUS
  <2>1. ASSUME UNCHANGED <<profile, currentRun, handOpened>> PROVE CurrentRunKnown'
    BY <2>1 DEF CurrentRunKnown
  <2>2. CASE OnBuildFinished
    <3>1. Apply \/ Reject \/ SaveFails
      BY <2>2, Zenon DEF OnBuildFinished
    <3>2. CASE Reject \/ SaveFails
      BY <2>1, <3>2 DEF Reject, SaveFails
    <3>3. QED BY <3>1, <3>2, ApplySelects
  <2>3. CASE WorkerStep \/ WorkerThrows
    <3>1. UNCHANGED <<userVars, serviceVars>>
      BY <2>3, Zenon DEF WorkerStep, WorkerScan, WorkerRead, WorkerThrows
    <3>2. QED BY <2>1, <3>1 DEF userVars, serviceVars
  <2>4. CASE RetryTimeout \/ RefreshAsked \/ RebuildAsked \/ DebounceTimeout
    <3>1. UNCHANGED <<profile, userVars>>
      BY <2>4, Zenon DEF RetryTimeout, RefreshAsked, RebuildAsked, DebounceTimeout
    <3>2. QED BY <2>1, <3>1 DEF userVars
  <2>5. CASE \E f \in Files : SelectRun(f)
    BY <2>5 DEF SelectRun, serviceVars, CurrentRunKnown
  <2>6. CASE \E f \in Files : OpenPerf(f)
    <3>1. PICK f \in Files : OpenPerf(f)
      BY <2>6
    <3>2. /\ UNCHANGED serviceVars /\ currentRun' = f
          /\ handOpened' = (handOpened \/ currentRun # f)
      BY <3>1, Zenon DEF OpenPerf
    <3>3. ~handOpened' => ~handOpened /\ currentRun = f
      BY <3>2, Zenon
    <3>4. QED BY <3>2, <3>3 DEF serviceVars, CurrentRunKnown
  <2>7. CASE \/ \E path \in ProfilePaths : SetProfilePath(path)
             \/ Launch
    <3>1. filepath \in ProfilePaths
      BY DEF DataTyped
    <3>2. \E path \in ProfilePaths : LoadProfile(path)
      BY <2>7, <3>1, Zenon DEF SetProfilePath, Launch
    <3>3. QED BY <3>2, LoadSelects
  <2>8. CASE \E roots \in (SUBSET Roots) \ {{}} : SetKovaaksDirs(roots)
    <3>1. UNCHANGED <<profile, userVars>>
      BY <2>8, Zenon DEF SetKovaaksDirs
    <3>2. QED BY <2>1, <3>1 DEF userVars
  <2>9. CASE Quit
    BY <2>9 DEF Quit, CurrentRunKnown
  <2>10. CASE FileStep
    <3>1. UNCHANGED <<userVars, serviceVars>>
      BY <2>10, Zenon DEF FileStep, FileAppears, FileCompletes
    <3>2. QED BY <2>1, <3>1 DEF userVars, serviceVars
  <2>11. CASE UNCHANGED vars
    BY <2>1, <2>11 DEF vars, userVars, serviceVars
  <2>12. QED
    BY <2>2, <2>3, <2>4, <2>5, <2>6, <2>7, <2>8, <2>9, <2>10, <2>11 DEF Next, UserStep
<1>3. QED BY <1>1, <1>2, ImportInvariant, PTL DEF Spec

-----------------------------------------------------------------------------
(* Nothing is overlooked, when a file that is complete can be read.         *)

\* What is listed is there, and what is there is listed or about to be.
WatchInv == open => listing \subseteq Present(dirs) /\ (~debouncing => listing = Present(dirs))

\* A path that counts as imported is one of a run in memory.
AliasInv ==
  /\ aliases # {} => profile # NoProfile /\ aliases \subseteq profile.runs
  /\ \A f \in aliases : disk[f] = Complete /\ RootOf[f] \in dirs
  /\ activeImport => job.aliases \subseteq aliases

\* Every file the scan saw is known, kept or read, and a rebuild reads what counts as imported.
Known(f) == active.mode = "Refresh" /\ job.baseline # NoProfile /\ f \in job.baseline.runs \cup job.aliases

ReadInv ==
  job.phase = "reading" /\ activeImport /\ ~job.failed =>
    /\ \A f \in Files : job.scan[f] # Absent =>
         f \in job.todo \cup job.read \cup job.bad \cup job.kept \/ Known(f)
    /\ \A f \in job.kept : job.baseline.failed[f] # Absent
    /\ \A f \in job.todo \cup job.bad : job.scan[f] # Absent
    /\ \A f \in job.todo \cup job.read : RootOf[f] \in job.roots
    /\ \A f \in job.read : disk[f] = Complete
    /\ active.mode = "Rebuild" => aliases \subseteq job.todo \cup job.read

FreshInv == job.phase = "queued" => job.read = {} /\ job.bad = {}

\* What was listed after the scan waits for another import.
SeenInv ==
  /\ open /\ inFlight /\ activeImport /\ job.phase = "reading"
  /\ ~rebuildRequested /\ ~refreshRequested
  => \A f \in listing : job.scan[f] # Absent

OnRecord(f) == f \in profile.runs \/ profile.failed[f] # Absent

CoveredInv ==
  open /\ ~inFlight /\ outcome \in {"Succeeded", "Partial"} /\ profile # NoProfile =>
    \A f \in listing : OnRecord(f)

CoverInv ==
  readFaults \in Nat /\ WatchInv /\ AliasInv /\ FreshInv /\ ReadInv /\ SeenInv /\ CoveredInv

\* An import that has just been queued has seen nothing, so it has overlooked nothing.
LEMMA QueuedCovers ==
  ASSUME job' = QueuedJob, inFlight' = TRUE
  PROVE  FreshInv' /\ ReadInv' /\ SeenInv' /\ CoveredInv' /\ job'.aliases = aliases'
<1>1. /\ job'.phase = "queued" /\ job'.aliases = aliases'
      /\ job'.read = {} /\ job'.bad = {}
  BY DEF QueuedJob, NoJob
<1>2. QED BY <1>1 DEF FreshInv, ReadInv, SeenInv, CoveredInv

LEMMA RequestCovers ==
  ASSUME CoverInv, TokenInv, NEW reason, NEW moved, NEW invalidates \in BOOLEAN,
         session!RefreshProfile(reason, moved) \/ session!StartBuild \/ session!RetryTimeout,
         ImportRequested(invalidates), WatchInv', UNCHANGED <<disk, readFaults>>,
         invalidates \/ UNCHANGED <<profile, dirs>>
  PROVE  CoverInv'
<1>1. aliases' = IF invalidates THEN {} ELSE aliases
  BY Zenon DEF ImportRequested
<1>2. /\ aliases' # {} => profile' # NoProfile /\ aliases' \subseteq profile'.runs
      /\ \A f \in aliases' : disk'[f] = Complete /\ RootOf[f] \in dirs'
  BY <1>1 DEF CoverInv, AliasInv
<1>3. CASE inFlight
  <2>1. /\ inFlight' = TRUE /\ UNCHANGED <<active, job>>
        /\ rebuildRequested' \/ refreshRequested'
    BY <1>3, RequestEffect
  <2>2. activeImport' = (activeImport /\ ~invalidates)
    BY <1>3, Zenon DEF ImportRequested
  <2>3. activeImport' => activeImport /\ ~invalidates
    BY <2>2, Zenon
  <2>4. activeImport' => aliases' = aliases
    BY <1>1, <2>3
  <2>5. AliasInv'
    BY <1>2, <2>1, <2>3, <2>4 DEF CoverInv, AliasInv
  <2>6. ReadInv'
    BY <2>1, <2>3, <2>4 DEF CoverInv, ReadInv, Known
  <2>7. FreshInv' /\ SeenInv' /\ CoveredInv'
    BY <2>1 DEF CoverInv, FreshInv, SeenInv, CoveredInv
  <2>8. QED BY <2>5, <2>6, <2>7 DEF CoverInv
<1>4. CASE ~inFlight
  <2>1. inFlight' = TRUE /\ job' = QueuedJob
    BY <1>4, RequestEffect
  <2>2. QED BY <1>2, <2>1, QueuedCovers DEF CoverInv, AliasInv
<1>5. QED BY <1>3, <1>4

LEMMA LoadCovers ==
  ASSUME CoverInv, TokenInv, NEW path, LoadProfile(path), WatchInv', UNCHANGED <<disk, readFaults>>
  PROVE  CoverInv'
<1>1. ImportRequested(TRUE) /\ (session!RefreshProfile("Startup", TRUE) \/ session!StartBuild)
  BY Zenon DEF LoadProfile, session!StoreLoaded
<1>2. QED BY <1>1, RequestCovers

LEMMA ScanCovers ==
  ASSUME CoverInv, DataTyped, TokenInv, HeldInv, WorkerScan
  PROVE  CoverInv'
<1> DEFINE usesBaseline == active.mode = "Refresh" /\ job.baseline # NoProfile
           scan == [f \in Files |-> IF f \in Present(job.roots) THEN disk[f] ELSE Absent]
           known == IF usesBaseline THEN job.baseline.runs \cup job.aliases ELSE {}
           kept == IF usesBaseline /\ session!SkipsFailures(active)
                   THEN {f \in Present(job.roots) \ known : job.baseline.failed[f] = scan[f]}
                   ELSE {}
           todo == Present(job.roots) \ (known \cup kept)
<1>1. /\ job' = [job EXCEPT !.phase = "reading", !.scan = scan, !.kept = kept, !.todo = todo]
      /\ UNCHANGED <<controlVars, userVars, serviceVars, watchVars, outsideVars, budgetVars>>
      /\ job.phase = "queued"
  BY Zenon DEF WorkerScan
<1>2. UNCHANGED <<inFlight, active, rebuildRequested, refreshRequested, outcome, profile,
                  activeImport, aliases, listing, debouncing, open, dirs, disk, readFaults>>
  BY <1>1 DEF controlVars, userVars, serviceVars, watchVars, outsideVars, budgetVars
<1>3. \A f \in Files : scan[f] # Absent <=> f \in Present(job.roots)
  BY DEF Present
<1>4. /\ \A f \in Files : scan[f] # Absent => f \in todo \cup kept \/ Known(f)
      /\ \A f \in kept : job.baseline.failed[f] # Absent
      /\ \A f \in todo : scan[f] # Absent /\ RootOf[f] \in job.roots
  BY <1>3 DEF Present, Known
<1>5. activeImport /\ active.mode = "Rebuild" => aliases \subseteq todo
  <2>1. SUFFICES ASSUME activeImport, active.mode = "Rebuild" PROVE aliases \subseteq todo
    OBVIOUS
  <2>2. todo = Present(job.roots) /\ job.roots = dirs
    BY <2>1 DEF TokenInv, TokenValid
  <2>3. \A f \in aliases : f \in Files /\ disk[f] # Absent /\ RootOf[f] \in dirs
    BY DEF CoverInv, AliasInv, DataTyped, Complete, Absent
  <2>4. QED BY <2>2, <2>3 DEF Present
<1>6. activeImport /\ open => \A f \in listing : scan[f] # Absent
  <2>1. activeImport => job.roots = dirs
    BY DEF TokenInv, TokenValid
  <2>2. QED BY <1>3, <2>1 DEF CoverInv, WatchInv, Present
<1> HIDE DEF scan, kept, todo
<1>7. /\ job'.scan = scan /\ job'.kept = kept /\ job'.todo = todo
      /\ job'.roots = job.roots /\ job'.baseline = job.baseline /\ job'.aliases = job.aliases
      /\ job'.read = job.read /\ job'.bad = job.bad
  BY <1>1 DEF DataTyped, JobShape
<1>8. job.read = {} /\ job.bad = {}
  BY <1>1 DEF CoverInv, FreshInv
<1>9. WatchInv' /\ AliasInv' /\ SeenInv' /\ CoveredInv'
  BY <1>2, <1>6, <1>7 DEF CoverInv, WatchInv, AliasInv, SeenInv, CoveredInv, Present, OnRecord
<1>10. ReadInv'
  BY <1>2, <1>4, <1>5, <1>7, <1>8 DEF ReadInv, Known
<1>11. FreshInv'
  <2>1. job'.phase = "reading"
    BY <1>1 DEF DataTyped, JobShape
  <2>2. QED BY <2>1 DEF FreshInv
<1>12. QED BY <1>2, <1>9, <1>10, <1>11 DEF CoverInv

LEMMA ReadCovers ==
  ASSUME CoverInv, DataTyped, MaxReadFaults = 0, WorkerRead
  PROVE  CoverInv'
<1> DEFINE f == Min(job.todo)
<1>1. f \in job.todo
  BY MinMember, FilesAssumption DEF WorkerRead, DataTyped, JobTyped
<1>2. ~(readFaults < MaxReadFaults)
  BY DEF CoverInv
<1>3. /\ \/ disk[f] = Complete /\ job' = [job EXCEPT !.todo = @ \ {f}, !.read = @ \cup {f}]
         \/ disk[f] # Complete /\ job' = [job EXCEPT !.todo = @ \ {f}, !.bad = @ \cup {f}]
      /\ UNCHANGED <<controlVars, userVars, serviceVars, watchVars, outsideVars, readFaults>>
      /\ job.phase = "reading"
  BY <1>2, Zenon DEF WorkerRead
<1>4. UNCHANGED <<inFlight, active, rebuildRequested, refreshRequested, outcome, profile,
                  activeImport, aliases, listing, debouncing, open, dirs, disk, readFaults>>
  BY <1>3 DEF controlVars, userVars, serviceVars, watchVars, outsideVars
<1> HIDE DEF f
<1>5. /\ job'.phase = "reading" /\ job'.todo = job.todo \ {f}
      /\ job'.scan = job.scan /\ job'.kept = job.kept /\ job'.roots = job.roots
      /\ job'.baseline = job.baseline /\ job'.aliases = job.aliases /\ job'.failed = job.failed
      /\ \/ disk[f] = Complete /\ job'.read = job.read \cup {f} /\ job'.bad = job.bad
         \/ disk[f] # Complete /\ job'.read = job.read /\ job'.bad = job.bad \cup {f}
  <2>1. CASE disk[f] = Complete /\ job' = [job EXCEPT !.todo = @ \ {f}, !.read = @ \cup {f}]
    BY <1>3, <2>1 DEF DataTyped, JobShape
  <2>2. CASE disk[f] # Complete /\ job' = [job EXCEPT !.todo = @ \ {f}, !.bad = @ \cup {f}]
    BY <1>3, <2>2 DEF DataTyped, JobShape
  <2>3. QED BY <1>3, <2>1, <2>2
<1>6. ReadInv'
  <2>1. SUFFICES ASSUME activeImport, ~job.failed
        PROVE  ReadInv'
    BY <1>4, <1>5 DEF ReadInv
  <2>2. aliases \subseteq job.todo \cup job.read => aliases \subseteq job'.todo \cup job'.read
    BY <1>5 DEF CoverInv, AliasInv
  <2>3. QED BY <1>1, <1>3, <1>4, <1>5, <2>1, <2>2 DEF CoverInv, ReadInv, Known
<1>7. WatchInv' /\ AliasInv' /\ FreshInv' /\ SeenInv' /\ CoveredInv'
  BY <1>3, <1>4, <1>5
     DEF CoverInv, WatchInv, AliasInv, FreshInv, SeenInv, CoveredInv, Present, OnRecord
<1>8. QED BY <1>4, <1>6, <1>7 DEF CoverInv

\* An accepted result has every file its scan saw on record.
LEMMA ApplyCovers ==
  ASSUME CoverInv, DataTyped, TokenInv, Apply, ImportDone, profile' # NoProfile,
         NEW f \in Files, job.scan[f] # Absent
  PROVE  OnRecord(f)'
<1>1. activeImport /\ ~job.failed
  BY Zenon DEF Apply
<1>2. job.phase = "reading" /\ job.todo = {} /\ job.baseline = profile
  BY <1>1 DEF ImportDone, TokenInv, TokenValid
<1>3. /\ f \in job.read \cup job.bad \cup job.kept \/ Known(f)
      /\ f \in job.kept => job.baseline.failed[f] # Absent
  BY <1>1, <1>2 DEF CoverInv, ReadInv
<1>4. Known(f) => f \in profile.runs
  BY <1>1, <1>2 DEF Known, CoverInv, AliasInv
<1>5. f \in job.bad \cup job.kept => Failures[f] # Absent
  BY <1>3 DEF Failures
<1>6. CASE Changed \/ FailuresChanged
  <2>1. profile' = Candidate
    BY <1>6, Zenon DEF Apply
  <2>2. Known(f) => f \in Base.runs
    BY <1>2, <1>4 DEF Known, Base
  <2>3. Candidate.runs = Base.runs \cup job.read /\ Candidate.failed = Failures
    BY DEF Candidate
  <2>4. QED BY <1>3, <1>5, <2>1, <2>2, <2>3 DEF OnRecord
<1>7. CASE ~(Changed \/ FailuresChanged)
  <2>1. UNCHANGED profile
    BY <1>7, Zenon DEF Apply
  <2>2. job.read = {} /\ Failures = profile.failed
    BY <1>2, <1>7, <2>1 DEF Changed, FailuresChanged
  <2>3. QED BY <1>3, <1>4, <1>5, <2>1, <2>2 DEF OnRecord
<1>8. QED BY <1>6, <1>7

\* What counts as imported stays in the profile, also when a rebuild replaces it.
LEMMA ApplyKeepsAliases ==
  ASSUME CoverInv, DataTyped, TokenInv, HeldInv, Apply, ImportDone
  PROVE  /\ aliases' # {} => profile' # NoProfile /\ aliases' \subseteq profile'.runs
         /\ \A f \in aliases' : disk[f] = Complete /\ RootOf[f] \in dirs
<1>1. activeImport /\ ~job.failed /\ aliases' = aliases \cup job.read
  BY Zenon DEF Apply
<1>2. /\ job.phase = "reading" /\ job.todo = {}
      /\ job.baseline = profile /\ job.roots = dirs
  BY <1>1 DEF ImportDone, TokenInv, TokenValid
<1>3. \A f \in job.read : disk[f] = Complete /\ RootOf[f] \in dirs
  BY <1>1, <1>2 DEF CoverInv, ReadInv
<1>4. aliases' # {} => profile' # NoProfile /\ aliases' \subseteq profile'.runs
  <2>1. CASE Changed \/ FailuresChanged
    <3>1. profile' = Candidate /\ Candidate # NoProfile
      BY <2>1, CandidateTyped, NoProfileAssumption, Zenon DEF Apply, DataTyped
    <3>2. aliases \subseteq Candidate.runs
      <4>1. CASE active.mode = "Rebuild"
        BY <1>1, <1>2, <4>1 DEF CoverInv, ReadInv, Candidate
      <4>2. CASE active.mode = "Refresh" /\ profile # NoProfile
        BY <1>1, <4>2, RefreshAdds DEF CoverInv, AliasInv
      <4>3. CASE profile = NoProfile
        BY <4>3 DEF CoverInv, AliasInv
      <4>4. QED BY <4>1, <4>2, <4>3 DEF HeldInv, session!Modes
    <3>3. job.read \subseteq Candidate.runs
      BY DEF Candidate
    <3>4. QED BY <1>1, <3>1, <3>2, <3>3
  <2>2. CASE ~(Changed \/ FailuresChanged)
    <3>1. UNCHANGED profile
      BY <2>2, Zenon DEF Apply
    <3>2. job.read = {}
      BY <2>2 DEF Changed
    <3>3. QED BY <1>1, <3>1, <3>2 DEF CoverInv, AliasInv
  <2>3. QED BY <2>1, <2>2
<1>5. QED BY <1>1, <1>3, <1>4 DEF CoverInv, AliasInv

LEMMA FinishCovers ==
  ASSUME CoverInv, DataTyped, TokenInv, HeldInv, OnBuildFinished
  PROVE  CoverInv'
<1>1. /\ ImportDone
      /\ Apply \/ Reject \/ SaveFails
      /\ UNCHANGED <<filepath, dirs, listing, debouncing, open, disk, readFaults>>
  BY Zenon DEF OnBuildFinished
<1>2. PICK accepted \in BOOLEAN, result \in Outcomes :
        /\ session!OnBuildFinished(accepted, job.bad # {})
        /\ PassSlotOn(result)
        /\ result \in {"Succeeded", "Partial"} => Apply
  <2>1. /\ "Failed" \in Outcomes \ {"Succeeded", "Partial"}
        /\ (IF job.bad \cup job.kept = {} THEN "Succeeded" ELSE "Partial") \in Outcomes
        /\ (IF activeImport THEN "Failed" ELSE "Stale") \in Outcomes \ {"Succeeded", "Partial"}
    BY DEF Outcomes
  <2>2. QED BY <2>1, Zenon DEF OnBuildFinished
<1>3. inFlight /\ open
  BY <1>2, Zenon DEF session!OnBuildFinished, HeldInv
<1>4. WatchInv'
  BY <1>1 DEF CoverInv, WatchInv, Present
<1>5. /\ aliases' # {} => profile' # NoProfile /\ aliases' \subseteq profile'.runs
      /\ \A f \in aliases' : disk[f] = Complete /\ RootOf[f] \in dirs
  <2>1. CASE Apply
    BY <1>1, <2>1, ApplyKeepsAliases
  <2>2. CASE Reject \/ SaveFails
    <3>1. UNCHANGED <<profile, aliases>>
      BY <2>2, Zenon DEF Reject, SaveFails
    <3>2. QED BY <3>1 DEF CoverInv, AliasInv
  <2>3. QED BY <1>1, <2>1, <2>2
<1>6. \/ inFlight' = TRUE
      \/ inFlight' = FALSE /\ ~rebuildRequested /\ ~refreshRequested
  BY <1>2, Zenon DEF session!OnBuildFinished, session!PassOnRebuild, session!PassOnRefresh,
                     session!FreeSlot, session!Begin
<1>7. CASE inFlight' = TRUE
  <2>1. job' = QueuedJob
    BY <1>2, <1>7, Zenon DEF PassSlotOn
  <2>2. QED BY <1>1, <1>4, <1>5, <1>7, <2>1, QueuedCovers DEF CoverInv, AliasInv
<1>8. CASE inFlight' = FALSE /\ ~rebuildRequested /\ ~refreshRequested
  <2>1. job' = NoJob /\ activeImport' = FALSE /\ outcome' = result
    BY <1>2, <1>8, Zenon DEF PassSlotOn
  <2>2. job'.phase = "none"
    BY <2>1 DEF NoJob
  <2>3. AliasInv' /\ FreshInv' /\ ReadInv' /\ SeenInv'
    BY <1>1, <1>5, <1>8, <2>1, <2>2 DEF AliasInv, FreshInv, ReadInv, SeenInv
  <2>4. CoveredInv'
    <3>1. SUFFICES ASSUME outcome' \in {"Succeeded", "Partial"}, profile' # NoProfile,
                          NEW f \in listing
          PROVE  OnRecord(f)'
      BY <1>1 DEF CoveredInv
    <3>2. Apply
      BY <1>2, <2>1, <3>1
    <3>3. activeImport
      BY <3>2, Zenon DEF Apply
    <3>4. f \in Files /\ job.scan[f] # Absent
      BY <1>1, <1>3, <1>8, <3>3 DEF CoverInv, WatchInv, SeenInv, ImportDone, Present
    <3>5. QED BY <1>1, <3>1, <3>2, <3>4, ApplyCovers
  <2>5. QED BY <1>1, <1>4, <2>3, <2>4 DEF CoverInv
<1>9. QED BY <1>6, <1>7, <1>8

LEMMA DebounceCovers ==
  ASSUME CoverInv, TokenInv, HeldInv, DebounceTimeout
  PROVE  CoverInv'
<1>1. /\ debouncing /\ listing' = Present(dirs)
      /\ UNCHANGED <<profile, filepath, origin, userVars, outsideVars, budgetVars>>
  BY Zenon DEF DebounceTimeout
<1>2. UNCHANGED <<profile, outcome, open, dirs, disk, readFaults>>
  BY <1>1 DEF userVars, outsideVars, budgetVars
<1>3. WatchInv'
  BY <1>1, <1>2 DEF WatchInv, Present
<1>4. CASE SourcesChanged
  <2>1. session!RefreshProfile("Live", FALSE) /\ ImportRequested(FALSE)
    BY <1>4, Zenon DEF DebounceTimeout
  <2>2. QED BY <1>2, <1>3, <2>1, RequestCovers
<1>5. CASE ~SourcesChanged
  <2>1. UNCHANGED <<controlVars, job, activeImport, aliases>>
    BY <1>5, Zenon DEF DebounceTimeout
  <2>2. listing' = listing
    BY <1>1, <1>5 DEF SourcesChanged
  <2>3. QED
    BY <1>2, <1>3, <2>1, <2>2
       DEF controlVars, CoverInv, AliasInv, FreshInv, ReadInv, SeenInv, CoveredInv, Known, OnRecord
<1>6. QED BY <1>4, <1>5

LEMMA FileCovers ==
  ASSUME CoverInv, DataTyped, FileStep
  PROVE  CoverInv'
<1>1. UNCHANGED <<controlVars, userVars, serviceVars, job, listing, open, dirs, readFaults>>
  BY Zenon DEF FileStep, FileAppears, FileCompletes, budgetVars
<1>2. UNCHANGED <<inFlight, active, rebuildRequested, refreshRequested, outcome, profile,
                  activeImport, aliases>>
  BY <1>1 DEF controlVars, userVars, serviceVars
<1>3. PICK f \in Files : FileAppears(f) \/ FileCompletes(f)
  BY DEF FileStep
<1>4. /\ \A g \in Files : disk[g] # Absent => disk'[g] # Absent
      /\ \A g \in Files : disk[g] = Complete => disk'[g] = Complete
      /\ \A g \in Files \ {f} : disk'[g] = disk[g]
  BY <1>3 DEF FileAppears, FileCompletes, DataTyped, Complete, Partial, Absent
<1>5. WatchInv'
  <2>1. listing \subseteq Present(dirs) => listing \subseteq Present(dirs)'
    BY <1>1, <1>4 DEF Present
  <2>2. open /\ ~debouncing' => ~debouncing /\ Present(dirs)' = Present(dirs)
    <3>1. CASE FileAppears(f)
      <4>1. debouncing' = (debouncing \/ (open /\ RootOf[f] \in dirs))
        BY <3>1, Zenon DEF FileAppears
      <4>2. open /\ ~debouncing' => ~debouncing /\ RootOf[f] \notin dirs
        BY <4>1, Zenon
      <4>3. QED BY <1>1, <1>4, <4>2 DEF Present
    <3>2. CASE FileCompletes(f)
      <4>1. debouncing' = (debouncing \/ pending[f] # Absent) /\ disk[f] = Partial
        BY <3>2, Zenon DEF FileCompletes
      <4>2. ~debouncing' => ~debouncing
        BY <4>1, Zenon
      <4>3. disk[f] # Absent
        BY <4>1 DEF Partial, Absent
      <4>4. QED BY <1>1, <1>4, <4>2, <4>3 DEF Present
    <3>3. QED BY <1>3, <3>1, <3>2
  <2>3. QED BY <1>1, <2>1, <2>2 DEF CoverInv, WatchInv
<1>6. AliasInv'
  BY <1>1, <1>2, <1>4 DEF CoverInv, AliasInv, DataTyped
<1>7. ReadInv'
  BY <1>1, <1>2, <1>4 DEF CoverInv, ReadInv, Known, DataTyped, JobTyped
<1>8. FreshInv' /\ SeenInv' /\ CoveredInv'
  BY <1>1, <1>2 DEF CoverInv, FreshInv, SeenInv, CoveredInv, OnRecord
<1>9. QED BY <1>1, <1>5, <1>6, <1>7, <1>8 DEF CoverInv

LEMMA NextCovers ==
  ASSUME MaxReadFaults = 0
  PROVE  CoverInv /\ DataTyped /\ TokenInv /\ HeldInv /\ [Next]_vars => CoverInv'
<1> SUFFICES ASSUME CoverInv, DataTyped, TokenInv, HeldInv, [Next]_vars PROVE CoverInv'
  OBVIOUS
<1>1. CASE WorkerThrows
  <2>1. /\ job' = [job EXCEPT !.todo = {}, !.failed = TRUE] /\ job.phase = "reading"
        /\ UNCHANGED <<controlVars, userVars, serviceVars, watchVars, outsideVars, readFaults>>
    BY <1>1, Zenon DEF WorkerThrows
  <2>2. /\ job'.failed = TRUE /\ job'.phase = job.phase
        /\ job'.scan = job.scan /\ job'.aliases = job.aliases
    BY <2>1 DEF DataTyped, JobShape
  <2>3. QED
    BY <2>1, <2>2 DEF controlVars, userVars, serviceVars, watchVars, outsideVars, CoverInv, WatchInv,
                      AliasInv, FreshInv, ReadInv, SeenInv, CoveredInv, Present, OnRecord
<1>2. CASE RetryTimeout \/ RefreshAsked \/ RebuildAsked
  <2>1. UNCHANGED <<profile, watchVars, outsideVars, readFaults>>
    BY <1>2 DEF RetryTimeout, RefreshAsked, RebuildAsked, budgetVars
  <2>2. UNCHANGED <<profile, listing, debouncing, open, dirs, disk, readFaults>>
    BY <2>1 DEF watchVars, outsideVars
  <2>3. WatchInv'
    BY <2>2 DEF CoverInv, WatchInv, Present
  <2>4. /\ ImportRequested(FALSE)
        /\ \/ session!RefreshProfile("Manual", FALSE)
           \/ session!StartBuild \/ session!RetryTimeout
    BY <1>2, Zenon DEF RetryTimeout, RefreshAsked, RebuildAsked
  <2>5. QED BY <2>2, <2>3, <2>4, RequestCovers
<1>3. CASE \E path \in ProfilePaths : SetProfilePath(path)
  <2>1. PICK path \in ProfilePaths : SetProfilePath(path)
    BY <1>3
  <2>2. LoadProfile(path) /\ UNCHANGED <<watchVars, open, dirs, disk, readFaults>>
    BY <2>1, Zenon DEF SetProfilePath
  <2>3. WatchInv'
    BY <2>2 DEF watchVars, CoverInv, WatchInv, Present
  <2>4. QED BY <2>2, <2>3, LoadCovers
<1>4. CASE \E roots \in (SUBSET Roots) \ {{}} : SetKovaaksDirs(roots)
  <2>1. PICK roots \in (SUBSET Roots) \ {{}} : SetKovaaksDirs(roots)
    BY <1>4
  <2>2. /\ ImportRequested(TRUE) /\ session!RefreshProfile("SourceSettingsChanged", FALSE)
        /\ dirs' = roots /\ listing' = Present(roots) /\ UNCHANGED <<disk, readFaults>>
    BY <2>1, Zenon DEF SetKovaaksDirs
  <2>3. WatchInv'
    BY <2>2 DEF WatchInv, Present
  <2>4. QED BY <2>2, <2>3, RequestCovers
<1>5. CASE Launch
  <2>1. /\ LoadProfile(filepath) /\ listing' = Present(dirs)
        /\ UNCHANGED <<dirs, debouncing, disk, budgetVars>>
    BY <1>5, Zenon DEF Launch
  <2>2. WatchInv' /\ UNCHANGED readFaults
    BY <2>1 DEF WatchInv, Present, budgetVars
  <2>3. QED BY <2>1, <2>2, LoadCovers
<1>6. CASE Quit
  <2>1. /\ open' = FALSE /\ aliases' = {} /\ activeImport' = FALSE /\ job' = NoJob
        /\ UNCHANGED readFaults
    BY <1>6, Zenon DEF Quit
  <2>2. QED
    BY <2>1 DEF NoJob, CoverInv, WatchInv, AliasInv, FreshInv, ReadInv, SeenInv, CoveredInv
<1>7. CASE \E f \in Files : SelectRun(f) \/ OpenPerf(f)
  <2>1. /\ session!SetCurrentRun
        /\ UNCHANGED <<outcome, serviceVars, job, watchVars, outsideVars, readFaults>>
    BY <1>7, Zenon DEF SelectRun, OpenPerf
  <2>2. QED
    BY <2>1 DEF session!SetCurrentRun, serviceVars, watchVars, outsideVars, CoverInv, WatchInv,
                AliasInv, FreshInv, ReadInv, SeenInv, CoveredInv, Present, Known, OnRecord
<1>8. CASE UNCHANGED vars
  BY <1>8 DEF vars, controlVars, userVars, serviceVars, watchVars, outsideVars, budgetVars, CoverInv,
              WatchInv, AliasInv, FreshInv, ReadInv, SeenInv, CoveredInv, Present, Known, OnRecord
<1>9. QED
  BY <1>1, <1>2, <1>3, <1>4, <1>5, <1>6, <1>7, <1>8, ScanCovers, ReadCovers, FinishCovers,
     DebounceCovers, FileCovers
     DEF Next, UserStep, WorkerStep

\* When all is quiet after an import that was applied, every file in the configured directories is
\* imported or on record as failed, if a complete file can be read: whatever appears or grows
\* between the worker's scan, the watcher's listing (FileService::refreshWatches) and the requests
\* the controller coalesces.
THEOREM NothingIsOverlooked ==
  ASSUME MaxReadFaults = 0
  PROVE  Spec => []NothingOverlooked
<1>1. Init => CoverInv
  BY DEF Init, session!Init, NoJob, CoverInv, WatchInv, AliasInv, FreshInv, ReadInv, SeenInv, CoveredInv
<1>2. CoverInv /\ DataTyped /\ TokenInv /\ HeldInv /\ [Next]_vars => CoverInv'
  BY NextCovers
<1>3. CoverInv => NothingOverlooked
  BY DEF CoverInv, WatchInv, CoveredInv, OnRecord, NothingOverlooked, AtRest
<1>4. QED BY <1>1, <1>2, <1>3, ImportInvariant, PTL DEF Spec

-----------------------------------------------------------------------------
(* The slot by itself, for any caller, any answer and every retry limit.    *)
(*                                                                          *)
(* SlotInv is inductive.  Its parts lean on each other: an owed re-read is  *)
(* not skipped because a live request that waits behind a live import was   *)
(* promoted (ArrivalPromotedInWindow), and the backoff timer cannot fire    *)
(* into an import because it is armed only when the slot is freed, which in *)
(* turn strands nothing (NothingStranded).                                  *)

SlotInv ==
  /\ session!TypeOK
  /\ session!NothingStranded
  /\ session!RetryOnlyWhenIdle
  /\ session!ArrivalPromotedInWindow
  /\ retryOwed => ~inFlight /\ retryArmed

\* The initial state satisfies the invariant.
LEMMA InitSlotInv == session!Init => SlotInv
<1> SUFFICES ASSUME session!Init PROVE SlotInv
  OBVIOUS
<1>1. retryAttempt \in 0 .. MaxRetries
  BY RetriesAssumption DEF session!Init
<1>2. active \in [mode : session!Modes, reason : session!Reasons]
  BY DEF session!Init, session!Modes, session!Reasons
<1>3. pendingReason \in session!Reasons
  BY DEF session!Init, session!Reasons
<1>4. unserved \in 0 .. 3
  BY DEF session!Init
<1>5. session!TypeOK
  BY <1>1, <1>2, <1>3, <1>4, Zenon DEF session!Init, session!TypeOK
<1>6. QED
  BY <1>5, Zenon
    DEF session!Init, SlotInv, session!NothingStranded, session!RetryOnlyWhenIdle,
        session!ArrivalPromotedInWindow

\* A request that asks for an import, of either mode, keeps the part of the
\* invariant that is about the slot and what waits for it.
LEMMA StartImportSlot ==
  ASSUME SlotInv, NEW mode \in session!Modes, NEW reason \in session!Reasons, NEW moved \in BOOLEAN,
         session!StartImport(mode, reason, moved),
         reason = "Live" => ~session!InRetryWindow
  PROVE  /\ inFlight' = TRUE
         /\ active' \in [mode : session!Modes, reason : session!Reasons]
         /\ rebuildRequested' \in BOOLEAN
         /\ refreshRequested' \in BOOLEAN
         /\ pendingReason' \in session!Reasons
         /\ selectionMoved' \in BOOLEAN
         /\ session!ArrivalPromotedInWindow'
         /\ ~inFlight => active' = [mode |-> mode, reason |-> reason]
         /\ inFlight => UNCHANGED active
<1>1. CASE ~inFlight
  <2>1. /\ inFlight' = TRUE
        /\ active' = [mode |-> mode, reason |-> reason]
        /\ selectionMoved' = FALSE
        /\ UNCHANGED <<rebuildRequested, refreshRequested, pendingReason>>
    BY <1>1 DEF session!StartImport, session!Begin
  <2>2. active' \in [mode : session!Modes, reason : session!Reasons]
    BY <2>1
  <2>3. ~refreshRequested'
    BY <1>1, <2>1 DEF SlotInv, session!NothingStranded
  <2>4. QED
    BY <1>1, <2>1, <2>2, <2>3, Zenon DEF SlotInv, session!TypeOK, session!ArrivalPromotedInWindow
<1>2. CASE inFlight
  <2>1. CASE mode = "Rebuild"
    BY <1>2, <2>1
      DEF session!StartImport, session!NoteRebuild, SlotInv, session!TypeOK, session!ArrivalPromotedInWindow
  <2>2. CASE mode # "Rebuild"
    BY <1>2, <2>2
      DEF session!StartImport, session!NoteRefresh, SlotInv, session!TypeOK, session!ArrivalPromotedInWindow,
                      session!InRetryWindow, session!LiveReasons
  <2>3. QED BY <2>1, <2>2
<1>3. QED BY <1>1, <1>2 DEF SlotInv, session!TypeOK

\* What is unserved is a strength or nothing.
LEMMA UnservedTyped ==
  ASSUME session!TypeOK, [session!Next]_(session!sessionVars)
  PROVE  unserved' \in 0 .. 3
<1>1. \A r : session!StrengthOf(r) \in 1 .. 3
  BY DEF session!StrengthOf
<1>2. unserved \in 0 .. 3
  BY DEF session!TypeOK
<1>3. ASSUME NEW due \in 0 .. 3, NEW begins, session!Serve(due, begins) PROVE unserved' \in 0 .. 3
  BY <1>3 DEF session!Serve
<1>4. ASSUME NEW r, session!Asked(r) PROVE unserved' \in 0 .. 3
  <2> DEFINE due == IF unserved < session!StrengthOf(r) THEN session!StrengthOf(r) ELSE unserved
  <2>1. due \in 0 .. 3
    BY <1>1, <1>2
  <2>2. session!Serve(due, ~inFlight /\ inFlight')
    BY <1>4, Zenon DEF session!Asked
  <2> QED
    BY <1>3, <2>1, <2>2
<1>5. CASE UNCHANGED session!sessionVars \/ session!SetCurrentRun
  BY <1>2, <1>5 DEF session!sessionVars, session!SetCurrentRun
<1>6. CASE \E accepted, retryable \in BOOLEAN : session!OnBuildFinished(accepted, retryable)
  BY <1>2, <1>3, <1>6 DEF session!OnBuildFinished
<1> QED
  BY <1>4, <1>5, <1>6, Zenon
  DEF session!Next, session!StartBuild, session!StoreLoaded, session!RefreshProfile, session!RetryTimeout

\* Every step of the controller keeps the invariant.
LEMMA NextSlotInv == SlotInv /\ [session!Next]_(session!sessionVars) => SlotInv'
<1> SUFFICES ASSUME SlotInv, [session!Next]_(session!sessionVars) PROVE SlotInv'
  OBVIOUS
<1> USE RetriesAssumption
<1>0. unserved' \in 0 .. 3
  BY UnservedTyped DEF SlotInv
<1>1. CASE session!StartBuild
  <2>1. /\ inFlight' = TRUE
        /\ active' \in [mode : session!Modes, reason : session!Reasons]
        /\ rebuildRequested' \in BOOLEAN /\ refreshRequested' \in BOOLEAN
        /\ pendingReason' \in session!Reasons /\ selectionMoved' \in BOOLEAN
        /\ session!ArrivalPromotedInWindow'
        /\ ~inFlight => active' = [mode |-> "Rebuild", reason |-> "Manual"]
        /\ inFlight => UNCHANGED active
    BY <1>1, StartImportSlot DEF session!StartBuild, session!Modes, session!Reasons
  <2>2. ~retryOwed'
    <3>1. CASE inFlight
      BY <1>1, <3>1, Zenon DEF session!StartBuild, session!KeepOwed, SlotInv
    <3>2. CASE ~inFlight
      <4>1. active'.reason # "Live" BY <2>1, <3>2
      <4>2. QED BY <1>1, <2>1, <4>1, Zenon DEF session!StartBuild, session!KeepOwed
    <3>3. QED BY <3>1, <3>2
  <2>3. retryAttempt' \in 0 .. MaxRetries
    BY <1>1 DEF session!StartBuild
  <2>4. retryOwed' \in BOOLEAN /\ retryArmed' = FALSE
    BY <1>1, <2>2, Zenon DEF session!StartBuild, session!KeepOwed, session!StopRetry
  <2>5. QED
    BY <1>0, <2>1, <2>2, <2>3, <2>4, Zenon
      DEF SlotInv, session!TypeOK, session!NothingStranded, session!RetryOnlyWhenIdle
<1>2. ASSUME NEW reason \in {"Live", "Manual", "SourceSettingsChanged", "Startup"},
             NEW moved \in BOOLEAN, session!RefreshProfile(reason, moved)
      PROVE  SlotInv'
  <2> DEFINE promoted == reason = "Live" /\ session!InRetryWindow
  <2> DEFINE asked == IF promoted THEN "Retry" ELSE reason
  <2>1. /\ asked \in session!Reasons
        /\ asked = "Live" => ~session!InRetryWindow
        /\ session!StartImport("Refresh", asked, moved)
        /\ session!StopRetry
        /\ retryAttempt' \in 0 .. MaxRetries
        /\ session!KeepOwed(retryOwed)
    BY <1>2 DEF session!RefreshProfile, session!Reasons, SlotInv, session!TypeOK
  <2> HIDE DEF asked
  <2>2. /\ inFlight' = TRUE
        /\ active' \in [mode : session!Modes, reason : session!Reasons]
        /\ rebuildRequested' \in BOOLEAN /\ refreshRequested' \in BOOLEAN
        /\ pendingReason' \in session!Reasons /\ selectionMoved' \in BOOLEAN
        /\ session!ArrivalPromotedInWindow'
        /\ ~inFlight => active' = [mode |-> "Refresh", reason |-> asked]
        /\ inFlight => UNCHANGED active
    BY <2>1, StartImportSlot DEF session!Modes
  <2>3. ~retryOwed'
    <3>1. CASE inFlight \/ ~retryOwed
      BY <2>1, <3>1, Zenon DEF session!KeepOwed, SlotInv
    <3>2. CASE ~inFlight /\ retryOwed
      <4>1. session!InRetryWindow BY <3>2, Zenon DEF SlotInv, session!InRetryWindow
      <4>2. active'.reason # "Live" BY <2>1, <2>2, <3>2, <4>1
      <4>3. QED BY <2>1, <2>2, <4>2, Zenon DEF session!KeepOwed
    <3>3. QED BY <3>1, <3>2, Zenon
  <2>4. retryOwed' \in BOOLEAN /\ retryArmed' = FALSE
    BY <2>1, <2>3, Zenon DEF session!KeepOwed, session!StopRetry
  <2>5. QED
    BY <1>0, <2>1, <2>2, <2>3, <2>4, Zenon
      DEF SlotInv, session!TypeOK, session!NothingStranded, session!RetryOnlyWhenIdle
<1>3. CASE session!StoreLoaded
  BY <1>2, <1>3 DEF session!StoreLoaded
<1>4. CASE \E reason \in {"Live", "Manual", "SourceSettingsChanged"} :
             session!RefreshProfile(reason, FALSE)
  BY <1>2, <1>4
<1>5. CASE session!RetryTimeout
  <2>1. ~inFlight
    BY <1>5 DEF session!RetryTimeout, SlotInv, session!RetryOnlyWhenIdle
  <2>2. /\ inFlight' = TRUE
        /\ active' = [mode |-> "Refresh", reason |-> "Retry"]
        /\ selectionMoved' = FALSE
        /\ retryArmed' = FALSE
        /\ UNCHANGED <<rebuildRequested, refreshRequested, pendingReason, retryAttempt>>
    BY <1>5, <2>1 DEF session!RetryTimeout, session!StartImport, session!Begin
  <2>3. active' \in [mode : session!Modes, reason : session!Reasons] /\ active'.reason # "Live"
    BY <2>2 DEF session!Modes, session!Reasons
  <2>4. retryOwed' = FALSE
    BY <1>5, <2>2, <2>3, Zenon DEF session!RetryTimeout, session!KeepOwed
  <2>5. retryAttempt' \in 0 .. MaxRetries
    BY <2>2 DEF SlotInv, session!TypeOK
  <2>6. QED
    BY <1>0, <2>1, <2>2, <2>3, <2>4, <2>5, Zenon
    DEF SlotInv, session!TypeOK, session!NothingStranded, session!RetryOnlyWhenIdle,
        session!ArrivalPromotedInWindow
<1>6. ASSUME NEW accepted \in BOOLEAN, NEW retryable \in BOOLEAN,
             session!OnBuildFinished(accepted, retryable)
      PROVE  SlotInv'
  <2>1. CASE session!PassOnRebuild
    BY <1>0, <1>6, <2>1
      DEF session!OnBuildFinished, session!PassOnRebuild, session!Begin, session!KeepOwed, SlotInv,
          session!TypeOK, session!Modes,
                      session!Reasons, session!NothingStranded, session!RetryOnlyWhenIdle, session!ArrivalPromotedInWindow,
                      session!LiveReasons
  <2>2. CASE session!PassOnRefresh
    <3>1. ~retryOwed'
      BY <1>6, <2>2
        DEF session!OnBuildFinished, session!PassOnRefresh, session!Begin, session!KeepOwed,
            session!MayRetry, SlotInv,
                        session!ArrivalPromotedInWindow
    <3>2. /\ active' \in [mode : session!Modes, reason : session!Reasons]
          /\ pendingReason' \in session!Reasons
          /\ retryAttempt' \in 0 .. MaxRetries
      BY <2>2
        DEF session!PassOnRefresh, session!Begin, SlotInv, session!TypeOK, session!Modes, session!Reasons
    <3>3. /\ inFlight' = TRUE /\ selectionMoved' = FALSE /\ refreshRequested' = FALSE
          /\ UNCHANGED <<rebuildRequested, retryArmed>>
      BY <2>2 DEF session!PassOnRefresh, session!Begin
    <3>4. ~retryArmed /\ retryOwed' \in BOOLEAN
      BY <1>6, Zenon DEF session!OnBuildFinished, SlotInv, session!RetryOnlyWhenIdle, session!KeepOwed
    <3>5. QED
      BY <1>0, <3>1, <3>2, <3>3, <3>4, Zenon
      DEF SlotInv, session!TypeOK, session!NothingStranded, session!RetryOnlyWhenIdle,
          session!ArrivalPromotedInWindow
  <2>3. CASE session!FreeSlot(session!MayRetry(accepted, retryable))
    <3> DEFINE mayRetry == session!MayRetry(accepted, retryable)
    <3>1. mayRetry \in BOOLEAN /\ (mayRetry => retryAttempt < MaxRetries)
      BY Zenon DEF session!MayRetry
    <3>2. /\ ~rebuildRequested /\ ~refreshRequested
          /\ inFlight' = FALSE
          /\ retryArmed' = (retryArmed \/ mayRetry)
          /\ retryAttempt' = IF mayRetry THEN retryAttempt + 1 ELSE retryAttempt
          /\ UNCHANGED <<active, rebuildRequested, refreshRequested, pendingReason, selectionMoved>>
      BY <2>3 DEF session!FreeSlot
    <3>3. retryOwed' = mayRetry
      BY <1>6, <3>1, <3>2, Zenon DEF session!OnBuildFinished, session!KeepOwed
    <3> HIDE DEF mayRetry
    <3>4. ~retryArmed
      BY <1>6, Zenon DEF session!OnBuildFinished, SlotInv, session!RetryOnlyWhenIdle
    <3>5. retryAttempt' \in 0 .. MaxRetries /\ (mayRetry => retryAttempt' \in 1 .. MaxRetries)
      BY <3>1, <3>2 DEF SlotInv, session!TypeOK
    <3>6. retryArmed' = mayRetry
      BY <3>1, <3>2, <3>4, Zenon
    <3>7. QED
      BY <1>0, <3>1, <3>2, <3>3, <3>5, <3>6, Zenon
      DEF SlotInv, session!TypeOK, session!NothingStranded, session!RetryOnlyWhenIdle,
          session!ArrivalPromotedInWindow
  <2>4. QED BY <1>6, <2>1, <2>2, <2>3 DEF session!OnBuildFinished
<1>7. CASE session!SetCurrentRun
  BY <1>0, <1>7
    DEF session!SetCurrentRun, SlotInv, session!TypeOK, session!NothingStranded, session!RetryOnlyWhenIdle,
              session!ArrivalPromotedInWindow
<1>8. CASE UNCHANGED session!sessionVars
  BY <1>0, <1>8
    DEF session!sessionVars, SlotInv, session!TypeOK, session!NothingStranded, session!RetryOnlyWhenIdle,
              session!ArrivalPromotedInWindow
<1>9. QED BY <1>1, <1>3, <1>4, <1>5, <1>6, <1>7, <1>8 DEF session!Next

\* The slot is sound whatever its callers ask and the service answers.
THEOREM SlotInvariant == session!Spec => []SlotInv
<1>1. QED BY InitSlotInv, NextSlotInv, PTL DEF session!Spec

\* Type correctness of the controller's state.
THEOREM TypeCorrect == session!Spec => []session!TypeOK
<1>1. SlotInv => session!TypeOK BY DEF SlotInv
<1>2. QED BY <1>1, SlotInvariant, PTL

\* No request that was noted while an import ran is left behind in a free slot.
THEOREM NeverStranded == session!Spec => []session!NothingStranded
<1>1. SlotInv => session!NothingStranded BY DEF SlotInv
<1>2. QED BY <1>1, SlotInvariant, PTL

\* The backoff timer never runs beside an import, and never past its limit.
THEOREM TimerOnlyWhenIdle == session!Spec => []session!RetryOnlyWhenIdle
<1>1. SlotInv => session!RetryOnlyWhenIdle BY DEF SlotInv
<1>2. QED BY <1>1, SlotInvariant, PTL

\* A live import that left a file to re-read is followed by its re-read, not by
\* an import that skips the file, and the re-read stays armed until then.
THEOREM RereadHonoured ==
  session!Spec =>
    [](session!OwedRereadNotSkipped /\ session!OwedRereadIsArmed /\ session!ArrivalPromotedInWindow)
<1>1. SlotInv => session!OwedRereadNotSkipped /\ session!OwedRereadIsArmed /\ session!ArrivalPromotedInWindow
  BY Zenon DEF SlotInv, session!OwedRereadNotSkipped, session!OwedRereadIsArmed
<1>2. QED BY <1>1, SlotInvariant, PTL

-----------------------------------------------------------------------------
(* The slot implements ImportPromise: every step asks, continues, rests or  *)
(* leaves the promise's state alone.  What the callers are owed is taken    *)
(* from their calls; that it is served is because the flags stand for at    *)
(* least as much (ServedInv).                                               *)

\* What the two flags and the reason that waits stand for.
Noted ==
  IF rebuildRequested THEN 3
  ELSE IF ~refreshRequested THEN 0
  ELSE IF pendingReason = "Manual" THEN 2 ELSE 1

ServedInv == unserved <= Noted

LEMMA Strengths ==
  ASSUME SlotInv
  PROVE  /\ \A r : session!StrengthOf(r) \in 1 .. 3
         /\ Noted \in 0 .. 3 /\ unserved \in 0 .. 3
         /\ ~inFlight => Noted = 0
  BY DEF SlotInv, session!TypeOK, session!NothingStranded, session!StrengthOf, Noted

\* A call that asks for k is an Ask(k) step of the promise, and what it asks is noted.
LEMMA StartImportAsks ==
  ASSUME SlotInv, ServedInv,
         NEW mode \in session!Modes, NEW reason \in session!Reasons, NEW moved \in BOOLEAN,
         session!StartImport(mode, reason, moved),
         NEW request, session!Asked(request),
         \/ session!StrengthOf([mode |-> mode, reason |-> reason]) = session!StrengthOf(request)
         \/ session!StrengthOf(request) = 1,
         reason = "Retry" => ~inFlight \/ session!StrengthOf(request) = 1
  PROVE  /\ \/ session!Promise!AskFree(session!StrengthOf(request))
            \/ session!Promise!AskBusy(session!StrengthOf(request))
         /\ ServedInv'
<1> DEFINE k == session!StrengthOf(request)
<1>0. k \in 1 .. 3 /\ unserved \in 0 .. 3 /\ Noted \in 0 .. 3
  BY Strengths
<1>1. CASE ~inFlight
  <2>1. /\ inFlight' = TRUE
        /\ active' = [mode |-> mode, reason |-> reason]
        /\ UNCHANGED <<rebuildRequested, refreshRequested, pendingReason>>
    BY <1>1 DEF session!StartImport, session!Begin
  <2>2. unserved = 0
    BY <1>0, <1>1, Strengths DEF ServedInv
  <2>3. session!StrengthOf(active') \in k .. 3
    BY <1>0, <2>1, Strengths
  <2>4. unserved' = 0
    <3>1. (IF unserved < k THEN k ELSE unserved) = k
      BY <1>0, <2>2
    <3>2. (~inFlight /\ inFlight') = TRUE
      BY <1>1, <2>1
    <3>3. session!Serve(IF unserved < k THEN k ELSE unserved, ~inFlight /\ inFlight')
      BY Zenon DEF session!Asked
    <3>4. session!Serve(k, TRUE)
      BY <3>1, <3>2, <3>3, Zenon
    <3>5. session!StrengthOf(active') >= k
      BY <1>0, <2>3
    <3> QED
      BY <3>4, <3>5, Zenon DEF session!Serve
  <2>5. session!Promise!AskFree(k)
    BY <1>1, <2>1, <2>3, <2>4 DEF session!Promise!AskFree
  <2>6. ServedInv'
    BY <1>1, <2>1, <2>4, Strengths DEF ServedInv, Noted
  <2> QED
    BY <2>5, <2>6
<1>2. CASE inFlight
  <2>1. UNCHANGED <<inFlight, active>>
    BY <1>2 DEF session!StartImport
  <2>2. session!StrengthOf(active) # 0
    BY Strengths
  <2>3. unserved' = session!Promise!Stronger(unserved, k)
    BY <1>2, Zenon DEF session!Asked, session!Serve, session!Promise!Stronger
  <2>4. session!Promise!AskBusy(k)
    BY <1>2, <2>1, <2>2, <2>3 DEF session!Promise!AskBusy
  <2>5. ServedInv'
    <3>1. CASE mode = "Rebuild"
      <4>1. Noted' = 3
        BY <1>2, <3>1 DEF session!StartImport, session!NoteRebuild, Noted
      <4> QED
        BY <1>0, <2>3, <4>1 DEF ServedInv, session!Promise!Stronger
    <3>2. CASE mode # "Rebuild"
      <4>1. session!NoteRefresh(reason)
        BY <1>2, <3>2 DEF session!StartImport
      <4>2. k = 1 \/ (k = 2 /\ reason = "Manual")
        BY <1>0, <1>2, <3>2 DEF session!StrengthOf, session!SkipsFailures, session!SkippingReasons,
                                session!Reasons, session!Modes
      <4>3. Noted' >= Noted /\ Noted' >= k
        BY <4>1, <4>2 DEF session!NoteRefresh, Noted
      <4>4. Noted' \in 0 .. 3
        BY DEF Noted
      <4> QED
        BY <1>0, <2>3, <4>3, <4>4 DEF ServedInv, session!Promise!Stronger
    <3> QED
      BY <3>1, <3>2
  <2> QED
    BY <2>4, <2>5
<1> QED
  BY <1>1, <1>2

\* Every step of the controller is a step of the promise, or leaves it alone.
LEMMA NextKeepsPromise ==
  ASSUME SlotInv, ServedInv, [session!Next]_(session!sessionVars)
  PROVE  [session!Promise!Next]_(session!Promise!promiseVars) /\ ServedInv'
<1> DEFINE Kept == [session!Promise!Next]_(session!Promise!promiseVars) /\ ServedInv'
<1>0. ASSUME NEW k \in 1 .. 3, session!Promise!AskFree(k) \/ session!Promise!AskBusy(k)
      PROVE  session!Promise!Next
  BY <1>0 DEF session!Promise!Next, session!Promise!Strength
<1>1. CASE session!StartBuild
  <2>1. /\ session!StartImport("Rebuild", "Manual", FALSE)
        /\ session!Asked([mode |-> "Rebuild", reason |-> "Manual"])
    BY <1>1 DEF session!StartBuild
  <2>2. "Rebuild" \in session!Modes /\ "Manual" \in session!Reasons /\ FALSE \in BOOLEAN
    BY DEF session!Modes, session!Reasons
  <2> QED
    BY <1>0, <2>1, <2>2, StartImportAsks, Strengths
<1>2. ASSUME NEW reason \in {"Live", "Manual", "SourceSettingsChanged", "Startup"},
             NEW moved \in BOOLEAN, session!RefreshProfile(reason, moved)
      PROVE  Kept
  <2> DEFINE noted == IF reason = "Live" /\ session!InRetryWindow THEN "Retry" ELSE reason
             request == [mode |-> "Refresh", reason |-> reason]
  <2>1. session!StartImport("Refresh", noted, moved) /\ session!Asked(request)
    BY <1>2 DEF session!RefreshProfile
  <2>2. /\ noted \in session!Reasons /\ "Refresh" \in session!Modes
        /\ noted # reason => session!StrengthOf(request) = 1
        /\ noted = "Retry" => session!StrengthOf(request) = 1
    BY DEF session!Reasons, session!Modes, session!StrengthOf, session!SkipsFailures,
           session!SkippingReasons
  <2>3. noted = reason => session!StrengthOf([mode |-> "Refresh", reason |-> noted])
                            = session!StrengthOf(request)
    OBVIOUS
  <2> HIDE DEF noted, request
  <2> QED
    BY <1>0, <2>1, <2>2, <2>3, StartImportAsks, Strengths
<1>3. CASE session!StoreLoaded
  BY <1>2, <1>3 DEF session!StoreLoaded
<1>4. CASE \E reason \in {"Live", "Manual", "SourceSettingsChanged"} :
             session!RefreshProfile(reason, FALSE)
  BY <1>2, <1>4
<1>5. CASE session!RetryTimeout
  <2>1. /\ ~inFlight /\ session!StartImport("Refresh", "Retry", FALSE)
        /\ session!Asked([mode |-> "Refresh", reason |-> "Retry"])
    BY <1>5, Zenon DEF session!RetryTimeout, SlotInv, session!RetryOnlyWhenIdle
  <2>2. "Refresh" \in session!Modes /\ "Retry" \in session!Reasons /\ FALSE \in BOOLEAN
    BY DEF session!Modes, session!Reasons
  <2> QED
    BY <1>0, <2>1, <2>2, StartImportAsks, Strengths
<1>6. ASSUME NEW accepted \in BOOLEAN, NEW retryable \in BOOLEAN,
             session!OnBuildFinished(accepted, retryable)
      PROVE  Kept
  <2>1. /\ inFlight /\ session!StrengthOf(active) # 0
        /\ session!Serve(unserved, inFlight') /\ unserved \in 0 .. 3
    BY <1>6, Strengths DEF session!OnBuildFinished
  <2>2. ASSUME inFlight' = TRUE, session!StrengthOf(active') >= unserved
        PROVE  session!Promise!Continue /\ unserved' = 0
    <3>1. unserved' = 0
      BY <2>1, <2>2 DEF session!Serve
    <3>2. session!StrengthOf(active') \in session!Promise!Stronger(unserved, 1) .. 3
      BY <2>1, <2>2, Strengths DEF session!Promise!Stronger
    <3> QED
      BY <2>1, <2>2, <3>1, <3>2 DEF session!Promise!Continue
  <2>3. ASSUME unserved' = 0 PROVE ServedInv'
    BY <2>3 DEF ServedInv, Noted
  <2>4. CASE session!PassOnRebuild
    <3>1. inFlight' = TRUE /\ session!StrengthOf(active') = 3
      BY <2>4 DEF session!PassOnRebuild, session!Begin, session!StrengthOf
    <3> QED
      BY <2>1, <2>2, <2>3, <3>1 DEF session!Promise!Next
  <2>5. CASE session!PassOnRefresh
    <3>1. inFlight' = TRUE /\ active' = [mode |-> "Refresh", reason |-> pendingReason]
      BY <2>5 DEF session!PassOnRefresh, session!Begin
    <3>2. session!StrengthOf(active') >= Noted
      BY <2>5, <3>1 DEF session!PassOnRefresh, session!StrengthOf, session!SkipsFailures,
                        session!SkippingReasons, Noted
    <3>3. session!StrengthOf(active') >= unserved
      BY <2>1, <3>2, Strengths DEF ServedInv
    <3> QED
      BY <2>2, <2>3, <3>1, <3>3 DEF session!Promise!Next
  <2>6. CASE session!FreeSlot(session!MayRetry(accepted, retryable))
    <3>1. inFlight' = FALSE /\ Noted = 0
      BY <2>6 DEF session!FreeSlot, Noted
    <3>2. unserved = 0 /\ unserved' = 0
      BY <2>1, <3>1 DEF ServedInv, session!Serve
    <3>3. session!Promise!Rest
      BY <2>1, <3>1, <3>2 DEF session!Promise!Rest
    <3> QED
      BY <2>3, <3>2, <3>3 DEF session!Promise!Next
  <2> QED
    BY <1>6, <2>4, <2>5, <2>6 DEF session!OnBuildFinished
<1>7. CASE session!SetCurrentRun
  BY <1>7 DEF session!SetCurrentRun, session!Promise!promiseVars, ServedInv, Noted
<1>8. CASE UNCHANGED session!sessionVars
  BY <1>8 DEF session!sessionVars, session!Promise!promiseVars, ServedInv, Noted
<1> QED
  BY <1>1, <1>3, <1>4, <1>5, <1>6, <1>7, <1>8 DEF session!Next

\* The import slot keeps its promise to every caller: each call is followed by an import
\* that begins after it and is at least as thorough as what the call asked for, at once or
\* when the running import ends (startImport, onBuildFinished).
THEOREM SlotKeepsPromise == session!Spec => session!Promise!Spec
<1>1. session!Init => session!Promise!Init /\ ServedInv
  BY DEF session!Init, session!Promise!Init, ServedInv, Noted
<1>2. SlotInv /\ ServedInv /\ [session!Next]_(session!sessionVars)
        => [session!Promise!Next]_(session!Promise!promiseVars) /\ ServedInv'
  BY NextKeepsPromise
<1> QED
  BY <1>1, <1>2, SlotInvariant, PTL DEF session!Spec, session!Promise!Spec

-----------------------------------------------------------------------------
(* The slot in the program: what the profile service, the worker, the       *)
(* watcher and the user do to it is one of the steps above, or a restart.   *)

LEMMA LoadIsSlotStep == ASSUME NEW path, LoadProfile(path) PROVE session!Next
BY Zenon DEF LoadProfile, session!Next

LEMMA StepOfSlot ==
  ASSUME [Next]_vars
  PROVE  [session!Next]_(session!sessionVars) \/ session!Restarted
<1>1. CASE UNCHANGED controlVars
  BY <1>1 DEF controlVars, session!sessionVars
<1>2. CASE WorkerStep \/ WorkerThrows
  <2>1. UNCHANGED controlVars
    BY <1>2, Zenon DEF WorkerStep, WorkerScan, WorkerRead, WorkerThrows
  <2> QED
    BY <1>1, <2>1
<1>3. CASE OnBuildFinished
  <2>1. PICK accepted \in BOOLEAN : session!OnBuildFinished(accepted, job.bad # {})
    BY <1>3, Zenon DEF OnBuildFinished
  <2>2. (job.bad # {}) \in BOOLEAN
    OBVIOUS
  <2> QED
    BY <2>1, <2>2, Zenon DEF session!Next
<1>4. CASE RetryTimeout
  BY <1>4, Zenon DEF RetryTimeout, session!Next
<1>5. CASE DebounceTimeout
  <2>1. CASE session!RefreshProfile("Live", FALSE)
    BY <2>1, Zenon DEF session!Next
  <2> QED
    BY <1>1, <1>5, <2>1, Zenon DEF DebounceTimeout
<1>6. CASE RefreshAsked \/ RebuildAsked
  BY <1>6, Zenon DEF RefreshAsked, RebuildAsked, session!Next
<1>7. CASE \E f \in Files : SelectRun(f) \/ OpenPerf(f)
  BY <1>7, Zenon DEF SelectRun, OpenPerf, session!Next
<1>8. CASE \E path \in ProfilePaths : SetProfilePath(path)
  BY <1>8, LoadIsSlotStep, Zenon DEF SetProfilePath
<1>9. CASE \E roots \in (SUBSET Roots) \ {{}} : SetKovaaksDirs(roots)
  BY <1>9, Zenon DEF SetKovaaksDirs, session!Next
<1>10. CASE Quit
  BY <1>10, Zenon DEF Quit
<1>11. CASE Launch
  BY <1>11, LoadIsSlotStep, Zenon DEF Launch
<1>12. CASE FileStep
  <2>1. UNCHANGED controlVars
    BY <1>12, Zenon DEF FileStep, FileAppears, FileCompletes
  <2> QED
    BY <1>1, <2>1
<1>13. CASE UNCHANGED vars
  BY <1>1, <1>13 DEF vars
<1> QED
  BY <1>2, <1>3, <1>4, <1>5, <1>6, <1>7, <1>8, <1>9, <1>10, <1>11, <1>12, <1>13 DEF Next, UserStep

LEMMA RestartKeepsSlot == session!Restarted => SlotInv' /\ ServedInv'
<1> SUFFICES ASSUME session!Restarted PROVE SlotInv' /\ ServedInv'
  OBVIOUS
<1>1. /\ inFlight' = FALSE /\ active' = [mode |-> "Refresh", reason |-> "Manual"]
      /\ rebuildRequested' = FALSE /\ refreshRequested' = FALSE /\ pendingReason' = "Live"
      /\ retryArmed' = FALSE /\ retryAttempt' = 0 /\ selectionMoved' = FALSE /\ retryOwed' = FALSE
      /\ unserved' = 0
  BY DEF session!Restarted
<1>2. retryAttempt' \in 0 .. MaxRetries
  BY <1>1, RetriesAssumption
<1>3. active' \in [mode : session!Modes, reason : session!Reasons] /\ pendingReason' \in session!Reasons
  BY <1>1 DEF session!Modes, session!Reasons
<1>4. unserved' \in 0 .. 3 /\ ServedInv'
  BY <1>1 DEF ServedInv, Noted
<1> QED
  BY <1>1, <1>2, <1>3, <1>4, Zenon
  DEF SlotInv, session!TypeOK, session!NothingStranded, session!RetryOnlyWhenIdle, session!ArrivalPromotedInWindow

\* What was proved of the slot for any caller holds of the program: whatever the watcher, the worker,
\* the profile service and the user do, and however often it is restarted, a request that no import
\* has served waits for the end of one that runs, the backoff timer never runs beside an import, and
\* a re-read that is owed is armed and not skipped (session_controller.cpp as main.cpp wires it).
THEOREM SlotStaysSoundInProgram ==
  Spec => [](/\ session!NothingForgotten /\ session!NothingStranded /\ session!RetryOnlyWhenIdle
             /\ OwedRereadNotSkipped /\ session!OwedRereadIsArmed)
<1>1. Init => SlotInv /\ ServedInv
  BY InitSlotInv DEF Init, session!Init, ServedInv, Noted
<1>2. SlotInv /\ ServedInv /\ [Next]_vars => SlotInv' /\ ServedInv'
  BY StepOfSlot, NextSlotInv, NextKeepsPromise, RestartKeepsSlot
<1>3. SlotInv => /\ session!NothingStranded /\ session!RetryOnlyWhenIdle
                 /\ OwedRereadNotSkipped /\ session!OwedRereadIsArmed
  BY Zenon DEF SlotInv, OwedRereadNotSkipped, session!OwedRereadNotSkipped, session!OwedRereadIsArmed
<1>4. SlotInv /\ ServedInv => session!NothingForgotten
  BY Strengths DEF ServedInv, session!NothingForgotten
<1> QED
  BY <1>1, <1>2, <1>3, <1>4, PTL DEF Spec
=============================================================================
