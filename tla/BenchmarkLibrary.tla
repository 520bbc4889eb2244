--------------------------- MODULE BenchmarkLibrary ---------------------------
(***************************************************************************)
(* The managed library of benchmark files: the store that reads and writes *)
(* them (qt_data/benchmark_store), the service that owns the accepted      *)
(* snapshot (data/benchmarks_service), the use case that joins benchmarks  *)
(* with the profile's scenarios and writes the mappings nobody has to      *)
(* choose (app/usecases/benchmark_resolution_use_case), the use case that  *)
(* composes both for the window (benchmark_manager_use_case), and the      *)
(* working copy of the window (benchmark_manager_vm).                      *)
(*                                                                         *)
(* All of it runs on one thread, but in many steps: a callback starts a    *)
(* pass, a pass writes files one at a time, a successful write calls back  *)
(* into the loop that made it.  Between any two of these steps somebody    *)
(* else may edit a file: there is no watcher, only the digest a token      *)
(* carries.  The data is small: a benchmark has an id, a name and a few    *)
(* scenario entries, which all bear one scenario name, so that the         *)
(* catalogue is the set of hashes recorded under that name (how names are  *)
(* compared, and the spelling that a mapping brings along, are modelled in *)
(* BenchmarkResolution).  The digest of a file is its content.  An id      *)
(* doubles as the name of the file a new benchmark of that id is saved to, *)
(* and ids are ordered as file names.                                      *)
(***************************************************************************)
EXTENDS Naturals, FiniteSets

CONSTANTS
  Ids,        \* ids of benchmarks; id i is saved to the file i.json
  NewIds,     \* the ids a new benchmark may be given
  Names,      \* display names
  Blank,      \* the name that cannot be saved
  Hashes,     \* hashes of scenarios
  Catalogues, \* bound: the sets of hashes the profile may know
  NoHash,     \* an entry that is not mapped
  Slots,      \* the scenario entries of a benchmark, in draft order
  Authored,   \* bound: what somebody else may write into a file
  Drafts,     \* bound: what the user may edit a working copy into
  Broken,     \* bytes that are no benchmark (invalid or unsupported)
  Absent,     \* no file
  Unread,     \* the digest of a file that could not be read
  None,       \* no snapshot, lease, draft, token
  Faults,     \* whether the file system may fail
  Racing      \* whether a file may change between a check and its commit

Benchmark == [id : Ids, name : Names, hashes : [Slots -> Hashes \cup {NoHash}]]

ASSUME IdsAssumption == IsFiniteSet(Ids) /\ Ids \subseteq Nat /\ NewIds \subseteq Ids
ASSUME SlotsAssumption == Slots \subseteq Nat
ASSUME DataAssumption == /\ Authored \subseteq Benchmark \cup {Broken} /\ Drafts \subseteq Benchmark
                         /\ NoHash \notin Hashes /\ Blank \in Names
                         /\ Broken \notin Benchmark /\ Absent \notin Benchmark
                         /\ None \notin Benchmark \cup Ids
                         /\ Absent # Broken /\ Unread # Absent
                         /\ Unread \notin Benchmark \cup {Broken}
ASSUME CataloguesAssumption == IsFiniteSet(Hashes) /\ Catalogues \subseteq SUBSET Hashes
ASSUME FlagsAssumption == Faults \in BOOLEAN /\ Racing \in BOOLEAN

VARIABLES
  disk,       \* the managed directory: file -> content
  library,    \* BenchmarksService: accepted snapshot, and whether the last refresh failed
  catalogue,  \* hashes the profile knows under the scenario name
  lease,      \* m_editLease
  resolution, \* what the resolution use case publishes
  manager,    \* what the manager use case publishes, and whether it has seen the last revision
  editor,     \* the window's working copy
  phase,      \* where the thread is
  work        \* the file operations under way and what follows them

vars == <<disk, library, catalogue, lease, resolution, manager, editor, phase, work>>

Token == [id : Ids, file : Ids, digest : Benchmark \cup {Broken}]
Entry == [digest : Benchmark \cup {Broken, Unread}, content : Benchmark \cup {Broken}]
Errors == {"EmptyName", "StaleToken", "UnknownTarget", "Conflict", "WriteFailed"}
Job == [what : Benchmark \cup {Absent}, token : Token \cup {None}]
\* What a command leaves for the window to adopt.
Adoption == [draft : Benchmark \cup {None}, baseline : Benchmark \cup {None},
             token : Token \cup {None}]

ASSUME NoneAssumption == /\ None \notin Token \cup Adoption
                         /\ \A F \in SUBSET Ids : None \notin [F -> Entry]
-----------------------------------------------------------------------------
(* Mapping scenario entries to hashes.                                     *)

Least(S) == CHOOSE x \in S : \A y \in S : x <= y
Greatest(S) == CHOOSE x \in S : \A y \in S : y <= x

Unmapped(b) == {e \in Slots : b.hashes[e] = NoHash}

\* The first unmapped entry takes the only candidate, unless an entry already has it.
AutoMapped(b) ==
  IF /\ Cardinality(catalogue) = 1
     /\ Unmapped(b) # {}
     /\ \A e \in Slots : b.hashes[e] \notin catalogue
  THEN [b EXCEPT !.hashes[Least(Unmapped(b))] = CHOOSE h \in catalogue : TRUE]
  ELSE b

Resolve(b) ==
  [e \in Slots |->
     IF b.hashes[e] # NoHash
     THEN IF b.hashes[e] \in catalogue THEN "Resolved" ELSE "MappedUnavailable"
     ELSE CASE Cardinality(catalogue) = 0 -> "Unresolved"
            [] Cardinality(catalogue) = 1 -> "AutoMappable"
            [] OTHER -> "Ambiguous"]
-----------------------------------------------------------------------------
(* The accepted snapshot.                                                  *)

Known(snapshot) == IF snapshot = None THEN {} ELSE DOMAIN snapshot
Loaded(snapshot) == {f \in Known(snapshot) : snapshot[f].content # Broken}
Holders(snapshot, i) == {f \in Loaded(snapshot) : snapshot[f].content.id = i}
TokenOf(snapshot, f) ==
  [id |-> snapshot[f].content.id, file |-> f, digest |-> snapshot[f].digest]

\* acceptedEntry: the snapshot still holds what the token was admitted for.
Accepted(snapshot, token) ==
  /\ token.file \in Loaded(snapshot)
  /\ snapshot[token.file].digest = token.digest
  /\ snapshot[token.file].content.id = token.id

Upserted(snapshot, f, b) ==
  [g \in Known(snapshot) \cup {f} |->
     IF g = f THEN [digest |-> b, content |-> b] ELSE snapshot[g]]
Erased(snapshot, f) == [g \in Known(snapshot) \ {f} |-> snapshot[g]]

\* scan: every file that is there; one that cannot be read is a problem entry.
Scanned(unread) ==
  [f \in {g \in Ids : disk[g] # Absent} |->
     IF f \in unread THEN [digest |-> Unread, content |-> Broken]
                     ELSE [digest |-> disk[f], content |-> disk[f]]]
-----------------------------------------------------------------------------
(* What the use cases and the window derive.                               *)

Built(lib, res) ==
  [library |-> lib.snapshot, failed |-> lib.failed, catalogue |-> res.catalogue,
   resolutions |-> res.resolutions, failures |-> res.failures]

\* Mutant: the revision is not compared.
SameState_NoRevision(next, fresh) ==
  /\ (next.library = None) <=> (manager.state.library = None)
  /\ [next EXCEPT !.library = None] = [manager.state EXCEPT !.library = None]

\* sameState: the revision stands for the snapshot, the rest is compared by value.
SameState(next, fresh) ==
  /\ fresh
  /\ (next.library = None) <=> (manager.state.library = None)
  /\ [next EXCEPT !.library = None] = [manager.state EXCEPT !.library = None]

\* adaptState: the token is stale unless the published library still holds its digest.
Stale(token, snapshot) ==
  /\ token # None
  /\ ~ /\ token.file \in Loaded(snapshot)
       /\ snapshot[token.file].digest = token.digest

\* What the window shows of a working copy under a published library.
Shown(draft, baseline, token, snapshot) ==
  [draft |-> draft, baseline |-> baseline, token |-> token,
   stale |-> Stale(token, snapshot),
   states |-> IF draft = None THEN None ELSE Resolve(draft)]
Adapted(ed, snapshot) == Shown(ed.draft, ed.baseline, ed.token, snapshot)
Closed(snapshot) == Shown(None, None, None, snapshot)

\* rebuildAndNotify, and the window's handler.
Rebuild(res, fresh) ==
  LET next == Built(library, res)
  IN  IF SameState(next, fresh)
      THEN manager' = [manager EXCEPT !.fresh = fresh] /\ UNCHANGED editor
      ELSE /\ manager' = [state |-> next, fresh |-> TRUE]
           /\ editor' = Adapted(editor, next.library)

Dirty == editor.draft # None /\ editor.draft # editor.baseline
-----------------------------------------------------------------------------
NoErrors == [i \in {} |-> "Conflict"]
NoWork == [origin |-> "batch", jobs |-> {}, errors |-> NoErrors, changed |-> FALSE,
           unread |-> FALSE, pending |-> None]

\* The thread is back in the event loop.
AtRest == phase = "idle"

\* App::App: the service scans, the resolution use case makes its first pass, the manager follows.
Init ==
  /\ disk \in [Ids -> Authored \cup {Absent}]
  /\ catalogue \in Catalogues
  /\ \/ library = [snapshot |-> Scanned({}), failed |-> FALSE]
     \/ Faults /\ library = [snapshot |-> None, failed |-> TRUE]
  /\ lease = None
  /\ resolution = [catalogue |-> {}, resolutions |-> NoErrors, failures |-> NoErrors]
  /\ manager = [state |-> Built(library, resolution), fresh |-> FALSE]
  /\ editor = Closed(library.snapshot)
  /\ phase = "pass"
  /\ work = NoWork

-----------------------------------------------------------------------------
(* The surroundings.                                                       *)

\* Somebody else writes or removes a file.
External(f, c) ==
  /\ phase = "commit" => Racing
  /\ disk[f] # c
  /\ disk' = [disk EXCEPT ![f] = c]
  /\ UNCHANGED <<library, catalogue, lease, resolution, manager, editor, phase, work>>

\* An import was accepted: the resolution use case is called back.
ProfileChanged(known) ==
  /\ AtRest
  /\ known # catalogue
  /\ catalogue' = known
  /\ phase' = "pass"
  /\ UNCHANGED <<disk, library, lease, resolution, manager, editor, work>>
-----------------------------------------------------------------------------
(* The window's commands.                                                  *)

Refresh(unread) ==
  /\ AtRest
  /\ phase' = "pass"
  /\ \/ /\ library' = [snapshot |-> Scanned(unread), failed |-> FALSE]
        /\ manager' = [manager EXCEPT !.fresh = FALSE]
     \/ /\ Faults
        /\ library' = [library EXCEPT !.failed = TRUE]
        /\ UNCHANGED manager
  /\ UNCHANGED <<disk, catalogue, lease, resolution, editor, work>>

\* setEditLease, and the window adopting what the command returns.
Lease(i, seed) ==
  /\ lease' = i
  /\ IF lease = i
     THEN /\ editor' = Shown(seed.draft, seed.baseline, seed.token, manager.state.library)
          /\ UNCHANGED <<phase, work>>
     ELSE /\ phase' = "pass"
          /\ work' = [work EXCEPT !.pending = seed]
          /\ UNCHANGED editor
  /\ UNCHANGED <<disk, library, catalogue, resolution, manager>>

\* openBenchmark: the first loaded entry of that id; an unsaved draft is settled first.
Open(i) ==
  /\ AtRest /\ ~Dirty
  /\ Holders(library.snapshot, i) # {}
  /\ LET f == Least(Holders(library.snapshot, i))
         b == library.snapshot[f].content
     IN  Lease(i, [draft |-> b, baseline |-> b, token |-> TokenOf(library.snapshot, f)])

\* beginNewBenchmark and importPlaylistSeed: an id nobody has, and no token.
New(i, b) ==
  /\ AtRest /\ ~Dirty
  /\ b.id = i
  /\ \A f \in Ids : disk[f] \in Benchmark => disk[f].id # i
  /\ disk[i] = Absent
  /\ Holders(library.snapshot, i) = {} /\ i \notin Known(library.snapshot)
  /\ lease # i
  /\ Lease(i, [draft |-> b, baseline |-> None, token |-> None])

\* discard: the lease is released before the working copy is cleared.
Close ==
  /\ AtRest
  /\ editor.draft # None
  /\ Lease(None, [draft |-> None, baseline |-> None, token |-> None])

\* applySessionEdit: a new name, or another hash for one entry.
Edit(b) ==
  /\ AtRest
  /\ editor.draft # None
  /\ b # editor.draft
  /\ \/ \E n \in Names : b = [editor.draft EXCEPT !.name = n]
     \/ \E e \in Slots, h \in Hashes \cup {NoHash} : b = [editor.draft EXCEPT !.hashes[e] = h]
  /\ editor' = Shown(b, editor.baseline, editor.token, manager.state.library)
  /\ UNCHANGED <<disk, library, catalogue, lease, resolution, manager, phase, work>>

\* save: the candidate is linked here, because the lease keeps the background off it.
Candidate == AutoMapped(editor.draft)
SavedAs ==
  [draft |-> Candidate, baseline |-> Candidate,
   token |-> [id |-> Candidate.id, digest |-> Candidate,
              file |-> IF editor.token = None THEN Candidate.id ELSE editor.token.file]]
Save ==
  /\ AtRest
  /\ editor.draft # None
  /\ phase' = "jobs"
  /\ work' = [NoWork EXCEPT !.origin = "save",
                !.jobs = {[what |-> Candidate, token |-> editor.token]}, !.pending = SavedAs]
  /\ UNCHANGED <<disk, library, catalogue, lease, resolution, manager, editor>>

\* deleteBenchmark: with the working copy's token, else with the published library's.
Delete(i) ==
  /\ AtRest
  /\ editor.draft # None /\ editor.draft.id = i => ~Dirty
  /\ LET own == editor.token # None /\ editor.token.id = i
         published == manager.state.library
     IN  /\ own \/ Holders(published, i) # {}
         /\ work' = [NoWork EXCEPT !.origin = "delete",
                       !.jobs = {[what |-> Absent,
                                  token |-> IF own THEN editor.token
                                            ELSE TokenOf(published, Least(Holders(published, i)))]}]
  /\ phase' = "jobs"
  /\ UNCHANGED <<disk, library, catalogue, lease, resolution, manager, editor>>
-----------------------------------------------------------------------------
(* The service's file operations (writeAccepted, remove), one at a time.   *)

FileOf(job) == IF job.token = None THEN job.what.id ELSE job.token.file
Expected(job) == IF job.token = None THEN Absent ELSE job.token.digest
Owner(job) == IF job.token = None THEN job.what.id ELSE job.token.id
Current == CHOOSE job \in work.jobs : \A other \in work.jobs : FileOf(job) <= FileOf(other)

\* What the service refuses without looking at the disk.
Refusals(job) ==
  IF job.what # Absent /\ job.what.name = Blank THEN {"EmptyName"}
  ELSE IF job.token = None \/ Accepted(library.snapshot, job.token) THEN {}
  ELSE IF job.token.file \in Known(library.snapshot) THEN {"StaleToken"} ELSE {"UnknownTarget"}

\* currentDigest: none if there is no file, and none if it cannot be opened.
OnDisk(f, unread) == IF unread THEN Absent ELSE disk[f]

\* Mutant: the store only looks whether there is a digest.
Matches_Exists(job, unread) ==
  (OnDisk(FileOf(job), unread) = Absent) <=> (Expected(job) = Absent)

\* What the store refuses after reading the file again.
Matches(job, unread) == OnDisk(FileOf(job), unread) = Expected(job)
Objections(job, unread) ==
  (IF Matches(job, unread) THEN {} ELSE {"Conflict"})
    \cup (IF Faults THEN {"WriteFailed"} ELSE {})

Extended(errors, i, error) ==
  [j \in DOMAIN errors \cup {i} |-> IF j = i THEN error ELSE errors[j]]

Failed(error) ==
  /\ phase' = "jobs"
  /\ work' = [work EXCEPT !.jobs = @ \ {Current}, !.unread = FALSE,
                          !.errors = Extended(@, Owner(Current), error)]
  /\ UNCHANGED <<disk, library>>

CheckJob ==
  /\ phase = "jobs" /\ work.jobs # {}
  /\ \/ \E error \in Refusals(Current) : Failed(error)
     \/ /\ Refusals(Current) = {}
        /\ \E unread \in BOOLEAN :
             /\ unread => Faults /\ disk[FileOf(Current)] # Absent
             /\ \/ \E error \in Objections(Current, unread) : Failed(error)
                \/ /\ Matches(Current, unread)
                   /\ phase' = "commit"
                   /\ work' = [work EXCEPT !.unread = unread]
                   /\ UNCHANGED <<disk, library>>
  /\ UNCHANGED <<catalogue, lease, resolution, manager, editor>>

\* QSaveFile::commit or QFile::remove, and the entry in the accepted snapshot.
CommitJob ==
  /\ phase = "commit"
  /\ \/ Faults /\ Failed("WriteFailed")
     \/ LET f == FileOf(Current)
        IN  /\ disk' = [disk EXCEPT ![f] = Current.what]
            /\ library' = [library EXCEPT !.snapshot =
                             IF Current.what = Absent THEN Erased(@, f)
                             ELSE Upserted(@, f, Current.what)]
            /\ phase' = "jobs"
            /\ work' = [work EXCEPT !.jobs = @ \ {Current}, !.unread = FALSE, !.changed = TRUE]
  /\ UNCHANGED <<catalogue, lease, resolution, manager, editor>>
-----------------------------------------------------------------------------
(* The reconcile loop.                                                     *)

\* Mutant: the lease is not looked at.
Requests_Leased ==
  {[what |-> AutoMapped(library.snapshot[f].content), token |-> TokenOf(library.snapshot, f)] :
     f \in {g \in Loaded(library.snapshot) :
              AutoMapped(library.snapshot[g].content) # library.snapshot[g].content}}

Requests ==
  {[what |-> AutoMapped(library.snapshot[f].content), token |-> TokenOf(library.snapshot, f)] :
     f \in {g \in Loaded(library.snapshot) :
              /\ lease # library.snapshot[g].content.id
              /\ AutoMapped(library.snapshot[g].content) # library.snapshot[g].content}}

\* Mutant: the failures of the pass before are kept.
Pass_KeepsFailures ==
  /\ phase = "pass"
  /\ resolution' =
       [catalogue |-> catalogue,
        resolutions |-> [i \in {j \in Ids : Holders(library.snapshot, j) # {}} |->
                           Resolve(library.snapshot[Greatest(Holders(library.snapshot, i))].content)],
        failures |-> resolution.failures]
  /\ phase' = "jobs"
  /\ work' = [NoWork EXCEPT !.jobs = Requests, !.pending = work.pending]
  /\ UNCHANGED <<disk, library, catalogue, lease, manager, editor>>

\* runReconcilePass up to replaceBatch: of two files with one id the last is resolved.
Pass ==
  /\ phase = "pass"
  /\ resolution' =
       [catalogue |-> catalogue,
        resolutions |-> [i \in {j \in Ids : Holders(library.snapshot, j) # {}} |->
                           Resolve(library.snapshot[Greatest(Holders(library.snapshot, i))].content)],
        failures |-> NoErrors]
  /\ phase' = "jobs"
  /\ work' = [NoWork EXCEPT !.jobs = Requests, !.pending = work.pending]
  /\ UNCHANGED <<disk, library, catalogue, lease, manager, editor>>

\* Mutant: a pass that failed is repeated at once.
Again_AfterFailure == work.changed \/ work.errors # NoErrors
\* m_reconcileAgain
Again == work.changed

\* replaceBatch returns: one publication for all its writes.  The loop's own callback only
\* notes that another pass is due, the manager's is served; then the failures are recorded.
BatchDone ==
  /\ phase = "jobs" /\ work.jobs = {} /\ work.origin = "batch"
  /\ IF work.changed THEN Rebuild(resolution, FALSE) ELSE UNCHANGED <<manager, editor>>
  /\ resolution' = [resolution EXCEPT !.failures =
                      [i \in DOMAIN @ \cup DOMAIN work.errors |->
                         IF i \notin DOMAIN work.errors THEN @[i]
                         ELSE IF work.errors[i] = "Conflict" THEN "Conflict" ELSE "WriteFailed"]]
  /\ phase' = IF Again THEN "pass" ELSE "publish"
  /\ UNCHANGED <<disk, library, catalogue, lease, work>>

\* The loop ends: the manager follows, and the command that started it all returns.
Publish ==
  /\ phase = "publish"
  /\ LET next == Built(library, resolution)
         same == SameState(next, manager.fresh)
         state == IF same THEN manager.state ELSE next
     IN  /\ manager' = [state |-> state, fresh |-> TRUE]
         /\ editor' = CASE work.pending # None ->
                             Shown(work.pending.draft, work.pending.baseline,
                                   work.pending.token, state.library)
                        [] work.pending = None /\ same -> editor
                        [] OTHER -> Adapted(editor, state.library)
  /\ phase' = "idle"
  /\ work' = NoWork
  /\ UNCHANGED <<disk, library, catalogue, lease, resolution>>

\* save or remove returns: the service notifies, or the error goes back to the window.
CommandDone ==
  /\ phase = "jobs" /\ work.jobs = {} /\ work.origin \in {"save", "delete"}
  /\ IF work.changed
     THEN /\ manager' = [manager EXCEPT !.fresh = FALSE]
          /\ phase' = "pass"
          /\ UNCHANGED work
     ELSE /\ phase' = "idle"
          /\ work' = NoWork
          /\ UNCHANGED manager
  /\ UNCHANGED <<disk, library, catalogue, lease, resolution, editor>>

Steps == Pass \/ CheckJob \/ CommitJob \/ BatchDone \/ Publish \/ CommandDone

\* What a new benchmark is seeded with: empty, or the unmapped entries of a playlist.
Seeds == {b \in Benchmark : b.hashes = [e \in Slots |-> NoHash]}
Unreadable == IF Faults THEN {{}} \cup {{f} : f \in Ids} ELSE {{}}

Next ==
  \/ \E f \in Ids, c \in Authored \cup {Absent} : External(f, c)
  \/ \E known \in Catalogues : ProfileChanged(known)
  \/ \E unread \in Unreadable : Refresh(unread)
  \/ \E i \in Ids : Open(i)
  \/ \E i \in NewIds, b \in Seeds : New(i, b)
  \/ Close
  \/ \E b \in Drafts : Edit(b)
  \/ Save
  \/ \E i \in Ids : Delete(i)
  \/ Steps

Spec == Init /\ [][Next]_vars /\ WF_vars(Steps)
-----------------------------------------------------------------------------
(* Properties.                                                             *)

\* A snapshot has an entry for some of the files.
SnapshotOK(s) == Known(s) \subseteq Ids /\ \A f \in Known(s) : s[f] \in Entry

\* Whenever the thread is back in the event loop, the window shows the accepted library: the
\* manager's state is what it would build now, the resolutions are those of the accepted
\* benchmarks under the current catalogue, and the working copy is marked stale exactly when a
\* save with its token would be refused.  Four classes hand this on through nested callbacks.
ShownIsCurrent ==
  AtRest =>
    /\ manager.state = Built(library, resolution)
    /\ resolution.catalogue = catalogue
    /\ DOMAIN resolution.resolutions =
         {library.snapshot[f].content.id : f \in Loaded(library.snapshot)}
    /\ \A i \in DOMAIN resolution.resolutions : \E f \in Holders(library.snapshot, i) :
         resolution.resolutions[i] = Resolve(library.snapshot[f].content)
    /\ editor.token # None => (editor.stale <=> ~Accepted(library.snapshot, editor.token))
    /\ editor.draft # None => editor.states = Resolve(editor.draft)

\* At rest, every accepted benchmark nobody edits has all the mappings that need no choice, or is
\* reported as a failed write, and nothing else is reported: a write that failed or met a foreign
\* edit is neither dropped silently nor reported after it was made good.
MappedOrReported ==
  AtRest =>
    DOMAIN resolution.failures =
      {library.snapshot[f].content.id :
         f \in {g \in Loaded(library.snapshot) :
                  /\ library.snapshot[g].content.id # lease
                  /\ AutoMapped(library.snapshot[g].content) # library.snapshot[g].content}}

\* The working copy is never rebased under the user's hands: while its token is accepted, the
\* accepted benchmark is the baseline the window compares with, and the lease is on it.
BaselineIsAdmitted ==
  AtRest /\ editor.token # None /\ Accepted(library.snapshot, editor.token) =>
    /\ library.snapshot[editor.token.file].content = editor.baseline
    /\ lease = editor.token.id

\* Background mapping never makes the leased working copy's token stale, and a token the window
\* adopts, from opening or from saving, is still accepted after the passes its command caused.
LeaseProtects ==
  [][ /\ (phase = "commit" /\ work.origin = "batch" /\ editor.token # None
            /\ lease = editor.token.id /\ Accepted(library.snapshot, editor.token))
           => Accepted(library'.snapshot, editor.token)
      /\ (phase = "publish" /\ phase' = "idle" /\ work.pending # None
            /\ work.pending.token # None)
           => Accepted(library.snapshot, work.pending.token) ]_vars

\* The program replaces or removes a file only while it holds the bytes that were admitted by a
\* scan or written by the program: what somebody else wrote since then is kept.  The one file it
\* replaces without knowing what it holds is that of a new benchmark, and only if the file was
\* there and could not be opened when it was checked.
EditsKept ==
  [][phase = "commit" /\ phase' = "jobs" => \A f \in Ids :
       disk'[f] # disk[f] =>
         \/ disk[f] \in {Absent}
              \cup {library.snapshot[g].digest : g \in Known(library.snapshot) \cap {f}}
         \/ Current.token = None /\ f = FileOf(Current) /\ work.unread
    ]_vars

\* Not kept by the code: that last case.  The comment in BenchmarkStore::write says that "a create
\* must find no existing file", but a file that cannot be opened has no digest either, and
\* QSaveFile replaces it.
CreateFindsNoFile ==
  phase = "commit" /\ Current.token = None => disk[FileOf(Current)] = Absent

\* Automatic mapping does not guess and overwrites no mapping: of the file it changes it keeps the
\* id, the name and every hash, and what it adds is the only candidate, once.
BackgroundOnlyAdds ==
  [][phase = "commit" /\ phase' = "jobs" /\ work.origin = "batch" => \A f \in Ids :
       disk'[f] # disk[f] =>
         LET old == disk[f] new == disk'[f]
         IN  /\ old \in Benchmark /\ new \in Benchmark
             /\ new.id = old.id /\ new.name = old.name
             /\ \A e \in Slots : new.hashes[e] # old.hashes[e] =>
                  /\ old.hashes[e] = NoHash /\ {new.hashes[e]} = catalogue
                  /\ \A d \in Slots \ {e} : new.hashes[d] # new.hashes[e] ]_vars

\* The loop settles: whatever changes on disk and whichever writes fail, the passes a callback
\* starts come to an end and the window is served again.
Settles == phase # "idle" ~> phase = "idle"
=============================================================================
