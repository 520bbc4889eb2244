------------------------ MODULE BenchmarkLibraryProofs ------------------------
(***************************************************************************)
(* What TLAPS proves of BenchmarkLibrary, for any benchmarks, files,       *)
(* catalogues and bounds: background mapping keeps off the leased working  *)
(* copy, the working copy is compared with what its token was admitted     *)
(* for, at rest the window shows the accepted library and reports what     *)
(* could not be mapped, and, when no edit falls between a check and its    *)
(* commit, the edits of others are kept and automatic mapping only adds.   *)
(*                                                                         *)
(* The inductive invariant follows one working copy through the passes a   *)
(* command causes: Target is the copy the lease is for, which is the one   *)
(* the window still shows, or the one it is about to adopt.                *)
(***************************************************************************)
EXTENDS BenchmarkLibrary, FiniteSetTheorems, WellFoundedInduction, TLAPS

\* Shapes of the records that the actions update by EXCEPT.
Shapes ==
  /\ disk \in [Ids -> Benchmark \cup {Broken, Absent}]
  /\ catalogue \subseteq Hashes
  /\ library = [snapshot |-> library.snapshot, failed |-> library.failed]
  /\ manager = [state |-> manager.state, fresh |-> manager.fresh]
  /\ work = [origin |-> work.origin, jobs |-> work.jobs, errors |-> work.errors,
             changed |-> work.changed, unread |-> work.unread, pending |-> work.pending]

\* A loaded entry's digest is that of its content.
Honest(snapshot) ==
  /\ SnapshotOK(snapshot)
  /\ \A f \in Loaded(snapshot) : snapshot[f].digest = snapshot[f].content

Libraries == Honest(library.snapshot) /\ Honest(manager.state.library)

\* A token belongs to the draft's id and was admitted for the baseline.
CopyOK(copy) ==
  /\ copy.draft \in Benchmark \cup {None} /\ copy.baseline \in Benchmark \cup {None}
  /\ copy.token \in Token \cup {None}
  /\ copy.token # None => /\ copy.draft # None
                          /\ copy.token.id = copy.draft.id
                          /\ copy.token.digest = copy.baseline

Copies == CopyOK(editor) /\ (work.pending # None => CopyOK(work.pending))

Target == IF work.pending = None \/ work.origin # "batch" THEN editor ELSE work.pending
Leased == lease = IF Target.draft = None THEN None ELSE Target.draft.id

JobsOK ==
  /\ work.jobs \subseteq Job
  /\ \A job \in work.jobs : job.what = Absent => job.token # None
  /\ work.origin = "batch" => \A job \in work.jobs :
       job.what # Absent /\ job.token # None /\ job.token.id # lease
  /\ work.origin = "save" =>
       /\ work.pending # None /\ work.pending.token # None /\ work.pending.draft.id = lease
       /\ work.pending.token.digest = work.pending.draft
       /\ \A job \in work.jobs : /\ job.what = work.pending.draft
                                 /\ FileOf(job) = work.pending.token.file
  /\ work.origin = "delete" => work.pending = None

\* The token the window is about to adopt is accepted, once a save has been written.
Kept ==
  (work.pending # None /\ work.pending.token # None /\ (work.origin = "batch" \/ work.changed))
    => Accepted(library.snapshot, work.pending.token)

Phases ==
  /\ phase \in {"idle", "pass", "jobs", "commit", "publish"}
  /\ work.origin \in {"batch", "save", "delete"}
  /\ phase = "idle" => work = NoWork
  /\ phase = "pass" => work.origin = "batch" \/ work.changed
  /\ phase = "publish" => work.origin = "batch"
  /\ phase = "commit" => work.jobs # {} /\ Refusals(Current) = {}

IInv == Shapes /\ Libraries /\ Copies /\ Leased /\ JobsOK /\ Kept /\ Phases
-----------------------------------------------------------------------------
(* The operators the actions are built from.                               *)

LEMMA LeastExists ==
  ASSUME NEW T, T \subseteq Nat, T # {}
  PROVE  Least(T) \in T /\ \A k \in T : Least(T) <= k
<1>1. PICK m \in T : \A k \in T : ~(<<k, m>> \in OpToRel(<, Nat))
  BY WFMin, NatLessThanWellFounded, Zenon
<1>2. \A k \in T : ~(k < m)
  BY <1>1 DEF OpToRel
<1>3. m \in T /\ \A k \in T : m <= k
  BY <1>2
<1>4. QED BY <1>3 DEF Least

\* The job under way is one of the jobs: their files are numbers, so one comes first.
LEMMA CurrentIsJob ==
  ASSUME work.jobs # {}, work.jobs \subseteq Job,
         \A job \in work.jobs : job.what = Absent => job.token # None
  PROVE  Current \in work.jobs
<1> DEFINE T == {FileOf(job) : job \in work.jobs}
<1>1. T # {} OBVIOUS
<1>2. \A job \in work.jobs : FileOf(job) \in Nat
  BY IdsAssumption DEF FileOf, Job, Token, Benchmark
<1>3. T \subseteq Nat BY <1>2
<1>4. Least(T) \in T /\ \A k \in T : Least(T) <= k
  <2> HIDE DEF T
  <2>1. QED BY <1>1, <1>3, LeastExists
<1>5. PICK job \in work.jobs : FileOf(job) = Least(T)
  BY <1>4
<1>6. \A other \in work.jobs : FileOf(job) <= FileOf(other)
  BY <1>4, <1>5
<1>7. QED BY <1>6 DEF Current

\* Automatic mapping keeps the id.
LEMMA AutoMappedTyped ==
  ASSUME NEW b \in Benchmark, catalogue \subseteq Hashes
  PROVE  AutoMapped(b) \in Benchmark /\ AutoMapped(b).id = b.id
<1>1. CASE AutoMapped(b) = b BY <1>1
<1>2. CASE AutoMapped(b) # b
  <2>1. Cardinality(catalogue) = 1 BY <1>2 DEF AutoMapped
  <2>2. catalogue # {} BY <2>1, FS_EmptySet
  <2>3. PICK h \in Hashes : AutoMapped(b) = [b EXCEPT !.hashes[Least(Unmapped(b))] = h]
    BY <1>2, <2>2 DEF AutoMapped
  <2>4. QED BY <2>3 DEF Benchmark
<1>3. QED BY <1>1, <1>2

LEMMA HonestUpserted ==
  ASSUME NEW s, Honest(s), NEW f \in Ids, NEW b \in Benchmark
  PROVE  /\ Honest(Upserted(s, f, b))
         /\ Known(Upserted(s, f, b)) = Known(s) \cup {f}
         /\ Accepted(Upserted(s, f, b), [id |-> b.id, file |-> f, digest |-> b])
<1> DEFINE u == Upserted(s, f, b)
<1>1. /\ DOMAIN u = Known(s) \cup {f} /\ DOMAIN u \subseteq Ids
      /\ u[f] = [digest |-> b, content |-> b]
      /\ \A g \in Known(s) : g # f => u[g] = s[g]
  BY DEF Upserted, Honest, SnapshotOK
<1>2. \A g \in DOMAIN u : u[g] \in Entry
  BY <1>1 DEF Honest, SnapshotOK, Entry
<1>3. u # None
  <2>1. u \in [DOMAIN u -> Entry] BY <1>2 DEF Upserted
  <2>2. QED BY <1>1, <2>1, NoneAssumption
<1> HIDE DEF u
<1>4. Known(u) = DOMAIN u BY <1>3 DEF Known
<1>5. \A g \in Loaded(u) : u[g].digest = u[g].content
  BY <1>1, <1>4 DEF Loaded, Honest
<1>6. f \in Loaded(u) BY <1>1, <1>4, DataAssumption DEF Loaded
<1>7. QED BY <1>1, <1>2, <1>4, <1>5, <1>6 DEF Honest, SnapshotOK, Accepted, u

LEMMA HonestErased ==
  ASSUME NEW s, Honest(s), NEW f
  PROVE  Honest(Erased(s, f))
<1> DEFINE e == Erased(s, f)
<1>1. DOMAIN e = Known(s) \ {f} /\ \A g \in DOMAIN e : e[g] = s[g]
  BY DEF Erased
<1> HIDE DEF e
<1>2. Known(e) \subseteq Known(s) /\ \A g \in Known(e) : e[g] = s[g]
  BY <1>1 DEF Known
<1>3. QED BY <1>2 DEF Honest, SnapshotOK, Loaded, e

LEMMA HonestScanned ==
  ASSUME NEW unread, disk \in [Ids -> Benchmark \cup {Broken, Absent}]
  PROVE  Honest(Scanned(unread))
<1> DEFINE s == Scanned(unread)
<1>1. /\ DOMAIN s = {g \in Ids : disk[g] # Absent}
      /\ \A f \in DOMAIN s : s[f] \in {[digest |-> Unread, content |-> Broken],
                                       [digest |-> disk[f], content |-> disk[f]]}
  BY DEF Scanned
<1> HIDE DEF s
<1>2. \A f \in Known(s) : f \in Ids /\ s[f] \in Entry
  BY <1>1 DEF Known, Entry
<1>3. \A f \in Known(s) : s[f].content # Broken => s[f].digest = s[f].content
  BY <1>1 DEF Known
<1>4. QED BY <1>2, <1>3 DEF Honest, SnapshotOK, Loaded, s

\* A token outlives what is written to or removed from another file.
LEMMA AcceptedElsewhere ==
  ASSUME NEW s, Honest(s), NEW token, Accepted(s, token), NEW f \in Ids, token.file # f
  PROVE  \A b \in Benchmark : Accepted(Upserted(s, f, b), token)
<1>1. TAKE b \in Benchmark
<1>2. Known(Upserted(s, f, b)) = Known(s) \cup {f} BY HonestUpserted
<1>3. token.file \in Known(s) /\ s[token.file].content # Broken BY DEF Accepted, Loaded
<1>4. Upserted(s, f, b)[token.file] = s[token.file] BY <1>3 DEF Upserted
<1>5. QED BY <1>2, <1>3, <1>4 DEF Accepted, Loaded

LEMMA EntryLoaded ==
  ASSUME NEW s, Honest(s), NEW f \in Loaded(s)
  PROVE  /\ f \in Ids /\ s[f].content \in Benchmark /\ s[f].digest = s[f].content
         /\ TokenOf(s, f) \in Token /\ TokenOf(s, f).id = s[f].content.id
         /\ TokenOf(s, f).file = f /\ TokenOf(s, f).digest = s[f].content
         /\ Accepted(s, TokenOf(s, f))
<1>1. f \in Ids /\ s[f] \in Entry BY DEF Honest, SnapshotOK, Loaded
<1>2. s[f].content \in Benchmark /\ s[f].digest = s[f].content
  BY <1>1 DEF Honest, Loaded, Entry
<1>3. s[f].content.id \in Ids BY <1>2 DEF Benchmark
<1>4. QED BY <1>1, <1>2, <1>3 DEF TokenOf, Token, Accepted
-----------------------------------------------------------------------------
(* The invariant holds at first, and each action keeps it.                 *)

LEMMA InvInit == Init => IInv
<1> SUFFICES ASSUME Init PROVE IInv
  OBVIOUS
<1>1. disk \in [Ids -> Benchmark \cup {Broken, Absent}] BY DataAssumption DEF Init
<1>2. Honest(library.snapshot)
  <2>1. CASE library = [snapshot |-> Scanned({}), failed |-> FALSE]
    BY <1>1, <2>1, HonestScanned
  <2>2. CASE library = [snapshot |-> None, failed |-> TRUE]
    BY <2>2 DEF Honest, SnapshotOK, Loaded, Known
  <2>3. QED BY <2>1, <2>2 DEF Init
<1>3. manager.state.library = library.snapshot BY DEF Init, Built
<1>4. Shapes
  <2>1. library = [snapshot |-> library.snapshot, failed |-> library.failed] BY DEF Init
  <2>2. work = [origin |-> work.origin, jobs |-> work.jobs, errors |-> work.errors,
                changed |-> work.changed, unread |-> work.unread, pending |-> work.pending]
    BY DEF Init, NoWork
  <2>3. manager = [state |-> manager.state, fresh |-> manager.fresh] BY DEF Init
  <2>4. catalogue \subseteq Hashes BY CataloguesAssumption DEF Init
  <2>5. QED BY <1>1, <2>1, <2>2, <2>3, <2>4 DEF Shapes
<1>5. /\ work.origin = "batch" /\ work.jobs = {} /\ work.pending = None /\ work.changed = FALSE
      /\ phase = "pass" /\ lease = None
      /\ editor.draft = None /\ editor.baseline = None /\ editor.token = None
  BY DEF Init, NoWork, Closed, Shown
<1>6. Copies /\ Leased BY <1>5 DEF Copies, CopyOK, Leased, Target
<1>7. JobsOK /\ Kept /\ Phases BY <1>5 DEF JobsOK, Kept, Phases
<1>8. Libraries BY <1>2, <1>3 DEF Libraries
<1>9. QED BY <1>4, <1>6, <1>7, <1>8 DEF IInv

\* Steps that leave the snapshot, the lease, the working copy's token and the work alone.
SameCopy ==
  /\ editor'.draft = editor.draft /\ editor'.baseline = editor.baseline
  /\ editor'.token = editor.token

LEMMA QuietStep ==
  ASSUME IInv, Shapes', Libraries', Phases', SameCopy,
         UNCHANGED <<lease, work.origin, work.jobs, work.changed, work.pending>>,
         UNCHANGED library \/ work.pending = None
  PROVE  IInv'
<1>1. Copies' BY DEF IInv, Copies, CopyOK, SameCopy
<1>2. Target'.draft = Target.draft BY DEF Target, SameCopy
<1>3. Leased' BY <1>2 DEF IInv, Leased
<1>4. JobsOK' BY DEF IInv, JobsOK, FileOf
<1>5. Kept' BY DEF IInv, Kept, Accepted, Loaded, Known
<1>6. QED BY <1>1, <1>3, <1>4, <1>5 DEF IInv

LEMMA UnchangedKeeps == IInv /\ UNCHANGED vars => IInv'
<1> SUFFICES ASSUME IInv, UNCHANGED vars PROVE IInv'
  OBVIOUS
<1>1. Shapes' BY DEF IInv, Shapes, SnapshotOK, Known, vars
<1>2. Libraries' BY DEF IInv, Libraries, Honest, SnapshotOK, Known, Loaded, vars
<1>3. (Refusals(Current) = {})' = (Refusals(Current) = {})
  BY DEF vars, Refusals, Current, FileOf, Accepted, Loaded, Known
<1>4. Phases' BY <1>3 DEF IInv, Phases, vars
<1>5. QED BY <1>1, <1>2, <1>4, QuietStep DEF vars, SameCopy

LEMMA ExternalKeeps ==
  ASSUME IInv, NEW f \in Ids, NEW c \in Authored \cup {Absent}, External(f, c)
  PROVE  IInv'
<1>1. disk' \in [Ids -> Benchmark \cup {Broken, Absent}]
  BY DataAssumption DEF External, IInv, Shapes
<1>2. Shapes' BY <1>1 DEF External, IInv, Shapes, SnapshotOK, Known
<1>3. Libraries' BY DEF External, IInv, Libraries, Honest, SnapshotOK, Known, Loaded
<1>4. (Refusals(Current) = {})' = (Refusals(Current) = {})
  BY DEF External, Refusals, Current, FileOf, Accepted, Loaded, Known
<1>5. Phases' BY <1>4 DEF External, IInv, Phases
<1>6. QED BY <1>2, <1>3, <1>5, QuietStep DEF External, SameCopy

LEMMA ProfileChangedKeeps ==
  ASSUME IInv, NEW known \in Catalogues, ProfileChanged(known)
  PROVE  IInv'
<1>1. catalogue' \subseteq Hashes BY CataloguesAssumption DEF ProfileChanged
<1>2. Shapes' BY <1>1 DEF ProfileChanged, IInv, Shapes, SnapshotOK, Known
<1>3. Libraries' BY DEF ProfileChanged, IInv, Libraries, Honest, SnapshotOK, Known, Loaded
<1>4. Phases' BY DEF ProfileChanged, AtRest, IInv, Phases, NoWork
<1>5. QED BY <1>2, <1>3, <1>4, QuietStep DEF ProfileChanged, SameCopy

LEMMA RefreshKeeps ==
  ASSUME IInv, NEW unread, Refresh(unread)
  PROVE  IInv'
<1>1. work = NoWork BY DEF Refresh, AtRest, IInv, Phases
<1>2. Honest(library'.snapshot)
  <2>1. CASE library' = [snapshot |-> Scanned(unread), failed |-> FALSE]
    <3>1. Honest(Scanned(unread)) BY HonestScanned DEF IInv, Shapes
    <3>2. QED BY <2>1, <3>1
  <2>2. CASE library' = [library EXCEPT !.failed = TRUE]
    <3>1. library'.snapshot = library.snapshot BY <2>2 DEF IInv, Shapes
    <3>2. QED BY <3>1 DEF IInv, Libraries
  <2>3. QED BY <2>1, <2>2 DEF Refresh
<1>3. Libraries' /\ Shapes'
  <2>1. library' = [snapshot |-> library'.snapshot, failed |-> library'.failed]
    BY DEF Refresh, IInv, Shapes
  <2>2. /\ manager' = [state |-> manager'.state, fresh |-> manager'.fresh]
        /\ manager'.state = manager.state
    BY DEF Refresh, IInv, Shapes
  <2>3. Libraries' BY <1>2, <2>2 DEF IInv, Libraries, Honest, SnapshotOK, Known, Loaded
  <2>4. QED BY <2>1, <2>2, <2>3 DEF Refresh, IInv, Shapes
<1>4. Phases' BY <1>1 DEF Refresh, IInv, Phases, NoWork
<1>5. QED BY <1>1, <1>3, <1>4, QuietStep DEF Refresh, SameCopy, NoWork

\* What the lease and adopting a working copy do, whichever command it was.
LEMMA LeaseKeeps ==
  ASSUME IInv, AtRest, NEW i, NEW seed \in Adoption, CopyOK(seed),
         i = IF seed.draft = None THEN None ELSE seed.draft.id,
         seed.token # None => Accepted(library.snapshot, seed.token),
         Lease(i, seed)
  PROVE  IInv'
<1>1. work = NoWork /\ seed # None BY NoneAssumption DEF AtRest, IInv, Phases
<1>2. Libraries' BY DEF Lease, IInv, Libraries, Honest, SnapshotOK, Known, Loaded
<1>3. Shapes' BY DEF Lease, IInv, Shapes, SnapshotOK, Known
<1>4. CASE lease = i
  <2>1. /\ editor'.draft = seed.draft /\ editor'.baseline = seed.baseline
        /\ editor'.token = seed.token /\ UNCHANGED <<phase, work>> /\ lease' = i
    BY <1>4 DEF Lease, Shown
  <2>2. work'.pending = None BY <1>1, <2>1 DEF NoWork
  <2>3. Copies' BY <2>1, <2>2 DEF Copies, CopyOK
  <2>4. Leased' BY <2>1, <2>2 DEF Leased, Target
  <2>5. JobsOK' /\ Kept' BY <1>1, <2>1 DEF JobsOK, Kept, NoWork
  <2>6. Phases' BY <2>1 DEF IInv, Phases, AtRest
  <2>7. QED BY <1>2, <1>3, <2>3, <2>4, <2>5, <2>6 DEF IInv
<1>5. CASE lease # i
  <2>1. /\ phase' = "pass" /\ UNCHANGED <<editor, library>> /\ lease' = i
        /\ work' = [NoWork EXCEPT !.pending = seed]
    BY <1>1, <1>5 DEF Lease
  <2>2. /\ work'.pending = seed /\ work'.origin = "batch" /\ work'.jobs = {}
        /\ work'.changed = FALSE
    BY <2>1 DEF NoWork
  <2>3. Copies' BY <2>1, <2>2 DEF IInv, Copies, CopyOK
  <2>4. Leased' BY <1>1, <2>1, <2>2 DEF Leased, Target
  <2>5. JobsOK' BY <2>2 DEF JobsOK
  <2>6. Kept' BY <2>1, <2>2 DEF Kept, Accepted, Loaded, Known
  <2>7. Phases' BY <2>1, <2>2 DEF Phases
  <2>8. Shapes' BY <1>3
  <2>9. QED BY <1>2, <2>3, <2>4, <2>5, <2>6, <2>7, <2>8 DEF IInv
<1>6. QED BY <1>4, <1>5

LEMMA OpenKeeps ==
  ASSUME IInv, NEW i \in Ids, Open(i)
  PROVE  IInv'
<1> DEFINE f == Least(Holders(library.snapshot, i))
           b == library.snapshot[f].content
           seed == [draft |-> b, baseline |-> b, token |-> TokenOf(library.snapshot, f)]
<1>1. f \in Holders(library.snapshot, i)
  <2>1. Holders(library.snapshot, i) \subseteq Nat /\ Holders(library.snapshot, i) # {}
    BY IdsAssumption DEF Open, IInv, Libraries, Honest, SnapshotOK, Holders, Loaded
  <2>2. QED BY <2>1, LeastExists
<1>2. AtRest /\ Lease(i, seed) BY DEF Open
<1> HIDE DEF f
<1>3. f \in Loaded(library.snapshot) /\ b.id = i BY <1>1 DEF Holders
<1>4. /\ b \in Benchmark /\ TokenOf(library.snapshot, f) \in Token
      /\ TokenOf(library.snapshot, f).id = b.id /\ TokenOf(library.snapshot, f).digest = b
      /\ Accepted(library.snapshot, TokenOf(library.snapshot, f))
  BY <1>3, EntryLoaded DEF IInv, Libraries
<1> HIDE DEF b
<1>5. seed \in Adoption BY <1>4 DEF Adoption
<1>6. CopyOK(seed) BY <1>4, DataAssumption DEF CopyOK
<1>7. i = IF seed.draft = None THEN None ELSE seed.draft.id BY <1>3, <1>4, DataAssumption
<1>8. seed.token # None => Accepted(library.snapshot, seed.token) BY <1>4
<1> HIDE DEF seed
<1>9. QED BY <1>2, <1>5, <1>6, <1>7, <1>8, LeaseKeeps

LEMMA NewKeeps ==
  ASSUME IInv, NEW i \in NewIds, NEW b \in Seeds, New(i, b)
  PROVE  IInv'
<1> DEFINE seed == [draft |-> b, baseline |-> None, token |-> None]
<1>1. AtRest /\ b.id = i /\ Lease(i, seed) BY DEF New
<1>2. b \in Benchmark BY DEF Seeds
<1>3. seed \in Adoption /\ seed.token = None BY <1>2 DEF Adoption
<1>4. CopyOK(seed) BY <1>2, DataAssumption DEF CopyOK
<1>5. i = IF seed.draft = None THEN None ELSE seed.draft.id BY <1>1, <1>2, DataAssumption
<1> HIDE DEF seed
<1>6. QED BY <1>1, <1>3, <1>4, <1>5, LeaseKeeps

LEMMA CloseKeeps == IInv /\ Close => IInv'
<1> SUFFICES ASSUME IInv, Close PROVE IInv'
  OBVIOUS
<1> DEFINE seed == [draft |-> None, baseline |-> None, token |-> None]
<1>1. AtRest /\ Lease(None, seed) BY DEF Close
<1>2. seed \in Adoption /\ seed.token = None /\ seed.draft = None BY DEF Adoption
<1>3. CopyOK(seed) BY DEF CopyOK
<1> HIDE DEF seed
<1>4. QED BY <1>1, <1>2, <1>3, LeaseKeeps

LEMMA EditKeeps ==
  ASSUME IInv, NEW b \in Drafts, Edit(b)
  PROVE  IInv'
<1>1. /\ editor'.draft = b /\ editor'.baseline = editor.baseline /\ editor'.token = editor.token
      /\ UNCHANGED <<disk, library, catalogue, lease, resolution, manager, phase, work>>
  BY DEF Edit, Shown
<1>2. b \in Benchmark /\ editor.draft \in Benchmark /\ b.id = editor.draft.id
  <2>1. b \in Benchmark BY DataAssumption
  <2>2. editor.draft \in Benchmark BY DEF Edit, IInv, Copies, CopyOK
  <2>3. b.id = editor.draft.id BY <2>2 DEF Edit, Benchmark
  <2>4. QED BY <2>1, <2>2, <2>3
<1>3. work = NoWork BY DEF Edit, AtRest, IInv, Phases
<1>4. b # None /\ editor.draft # None BY <1>2, DataAssumption
<1>5. Copies' BY <1>1, <1>2, <1>3, <1>4 DEF IInv, Copies, CopyOK, NoWork
<1>6. Leased' BY <1>1, <1>2, <1>3, <1>4 DEF IInv, Leased, Target, NoWork
<1>7. JobsOK' /\ Kept' BY <1>1, <1>3 DEF JobsOK, Kept, NoWork
<1>8. Phases' BY <1>1 DEF Edit, AtRest, IInv, Phases
<1>9. Shapes' BY <1>1 DEF IInv, Shapes, SnapshotOK, Known
<1>10. Libraries' BY <1>1 DEF IInv, Libraries, Honest, SnapshotOK, Known, Loaded
<1>11. QED BY <1>5, <1>6, <1>7, <1>8, <1>9, <1>10 DEF IInv

LEMMA SaveKeeps == IInv /\ Save => IInv'
<1> SUFFICES ASSUME IInv, Save PROVE IInv'
  OBVIOUS
<1> DEFINE job == [what |-> Candidate, token |-> editor.token]
<1>1. /\ UNCHANGED <<disk, library, catalogue, lease, resolution, manager, editor>>
      /\ phase' = "jobs" /\ work'.origin = "save" /\ work'.jobs = {job}
      /\ work'.pending = SavedAs /\ work'.changed = FALSE
  BY DEF Save, NoWork
<1>2. editor.draft \in Benchmark /\ work = NoWork
  BY DEF Save, AtRest, IInv, Phases, Copies, CopyOK
<1>3. Candidate \in Benchmark /\ Candidate.id = editor.draft.id
  BY <1>2, AutoMappedTyped DEF Candidate, IInv, Shapes
<1>4. Candidate # Absent /\ Candidate # None /\ editor.draft # None
  BY <1>2, <1>3, DataAssumption
<1>5. lease = Candidate.id BY <1>2, <1>3, <1>4 DEF IInv, Leased, Target, NoWork
<1>6. editor.token \in Token \cup {None} BY DEF IInv, Copies, CopyOK
<1>7. SavedAs.token \in Token BY <1>3, <1>6 DEF SavedAs, Token, Benchmark
<1>8. SavedAs \in Adoption BY <1>3, <1>7 DEF SavedAs, Adoption
<1>9. SavedAs # None /\ SavedAs.token # None BY <1>7, <1>8, NoneAssumption
<1>10. /\ SavedAs.draft = Candidate /\ SavedAs.token.digest = Candidate
       /\ SavedAs.token.id = Candidate.id /\ FileOf(job) = SavedAs.token.file
       /\ SavedAs.baseline = Candidate
  BY DEF SavedAs, FileOf
<1>11. job \in Job /\ job.what = Candidate BY <1>3, <1>6 DEF Job
<1> HIDE DEF job
<1>12. CopyOK(SavedAs) BY <1>3, <1>4, <1>7, <1>10 DEF CopyOK
<1>13. Copies'
  <2>1. CopyOK(editor)' BY <1>1 DEF IInv, Copies, CopyOK
  <2>2. CopyOK(work'.pending) BY <1>1, <1>12
  <2>3. QED BY <2>1, <2>2 DEF Copies, CopyOK
<1>14. Leased' BY <1>1, <1>2 DEF IInv, Leased, Target, NoWork
<1>15. JobsOK'
  <2>1. work'.jobs \subseteq Job BY <1>1, <1>11
  <2>2. \A j \in work'.jobs : j = job BY <1>1
  <2>3. \A j \in work'.jobs : j.what = Absent => j.token # None BY <1>4, <1>11, <2>2
  <2>4. \A j \in work'.jobs : /\ j.what = work'.pending.draft
                              /\ FileOf(j) = work'.pending.token.file
    BY <1>1, <1>10, <1>11, <2>2
  <2>5. QED BY <1>1, <1>5, <1>9, <1>10, <2>1, <2>3, <2>4 DEF JobsOK, FileOf
<1>16. Kept' BY <1>1 DEF Kept
<1>17. Phases' BY <1>1 DEF Phases
<1>18. Shapes'
  <2>1. work' = [origin |-> work'.origin, jobs |-> work'.jobs, errors |-> work'.errors,
                 changed |-> work'.changed, unread |-> work'.unread,
                 pending |-> work'.pending]
    BY DEF Save, NoWork
  <2>2. QED BY <1>1, <2>1 DEF IInv, Shapes, SnapshotOK, Known
<1>19. Libraries' BY <1>1 DEF IInv, Libraries, Honest, SnapshotOK, Known, Loaded
<1>20. QED BY <1>13, <1>14, <1>15, <1>16, <1>17, <1>18, <1>19 DEF IInv

LEMMA DeleteKeeps ==
  ASSUME IInv, NEW i \in Ids, Delete(i)
  PROVE  IInv'
<1> DEFINE own == editor.token # None /\ editor.token.id = i
           published == manager.state.library
           token == IF own THEN editor.token
                    ELSE TokenOf(published, Least(Holders(published, i)))
           job == [what |-> Absent, token |-> token]
<1>1. /\ UNCHANGED <<disk, library, catalogue, lease, resolution, manager, editor>>
      /\ own \/ Holders(published, i) # {}
      /\ phase' = "jobs"
      /\ work' = [NoWork EXCEPT !.origin = "delete", !.jobs = {job}]
  BY DEF Delete
<1>2. work = NoWork BY DEF Delete, AtRest, IInv, Phases
<1>3. token \in Token
  <2>1. CASE own BY <2>1 DEF IInv, Copies, CopyOK
  <2>2. CASE ~own
    <3> DEFINE f == Least(Holders(published, i))
    <3>1. Holders(published, i) \subseteq Nat
      BY IdsAssumption DEF IInv, Libraries, Honest, SnapshotOK, Holders, Loaded
    <3>2. f \in Holders(published, i) BY <1>1, <2>2, <3>1, LeastExists
    <3> HIDE DEF f
    <3>3. TokenOf(published, f) \in Token
      BY <3>2, EntryLoaded DEF Holders, IInv, Libraries
    <3>4. QED BY <2>2, <3>3 DEF f
  <2>3. QED BY <2>1, <2>2
<1>4. token # None BY <1>3, NoneAssumption
<1> HIDE DEF token
<1>5. job \in Job /\ job.token # None BY <1>3, <1>4 DEF Job
<1> HIDE DEF job
<1>6. /\ work'.origin = "delete" /\ work'.jobs = {job} /\ work'.pending = None
      /\ work'.changed = FALSE
      /\ work' = [origin |-> work'.origin, jobs |-> work'.jobs, errors |-> work'.errors,
                  changed |-> work'.changed, unread |-> work'.unread,
                 pending |-> work'.pending]
  BY <1>1 DEF NoWork
<1>7. Copies' BY <1>1, <1>6 DEF IInv, Copies, CopyOK
<1>8. Leased' BY <1>1, <1>2, <1>6 DEF IInv, Leased, Target, NoWork
<1>9. JobsOK' BY <1>5, <1>6 DEF JobsOK
<1>10. Kept' BY <1>6 DEF Kept
<1>11. Phases' BY <1>1, <1>6 DEF Phases
<1>12. Shapes' BY <1>1, <1>6 DEF IInv, Shapes, SnapshotOK, Known
<1>13. Libraries' BY <1>1 DEF IInv, Libraries, Honest, SnapshotOK, Known, Loaded
<1>14. QED BY <1>7, <1>8, <1>9, <1>10, <1>11, <1>12, <1>13 DEF IInv
-----------------------------------------------------------------------------
(* The steps of the thread.                                                *)

LEMMA PassKeeps == IInv /\ Pass => IInv'
<1> SUFFICES ASSUME IInv, Pass PROVE IInv'
  OBVIOUS
<1>1. /\ UNCHANGED <<disk, library, catalogue, lease, manager, editor>>
      /\ phase = "pass" /\ phase' = "jobs" /\ work'.origin = "batch"
      /\ work'.jobs = Requests /\ work'.pending = work.pending
      /\ work'.changed = FALSE
      /\ work' = [origin |-> work'.origin, jobs |-> work'.jobs, errors |-> work'.errors,
                  changed |-> work'.changed, unread |-> work'.unread,
                 pending |-> work'.pending]
  BY DEF Pass, NoWork
<1>2. \A job \in Requests : /\ job \in Job /\ job.what # Absent
                            /\ job.token # None /\ job.token.id # lease
  <2>1. TAKE job \in Requests
  <2>2. PICK f \in Loaded(library.snapshot) :
          /\ lease # library.snapshot[f].content.id
          /\ job = [what |-> AutoMapped(library.snapshot[f].content),
                    token |-> TokenOf(library.snapshot, f)]
    BY DEF Requests
  <2>3. /\ library.snapshot[f].content \in Benchmark /\ TokenOf(library.snapshot, f) \in Token
        /\ TokenOf(library.snapshot, f).id = library.snapshot[f].content.id
    BY EntryLoaded DEF IInv, Libraries
  <2>4. AutoMapped(library.snapshot[f].content) \in Benchmark
    BY <2>3, AutoMappedTyped DEF IInv, Shapes
  <2>5. QED BY <2>2, <2>3, <2>4, NoneAssumption, DataAssumption DEF Job
<1>3. Copies' BY <1>1 DEF IInv, Copies, CopyOK
<1>4. Leased'
  <2>1. CASE work.pending = None \/ work.origin = "batch"
    BY <1>1, <2>1 DEF IInv, Leased, Target
  <2>2. CASE work.pending # None /\ work.origin = "save"
    BY <1>1, <2>2 DEF IInv, Leased, Target, JobsOK, Copies, CopyOK
  <2>3. QED BY <2>1, <2>2 DEF IInv, Phases, JobsOK
<1>5. JobsOK' BY <1>1, <1>2 DEF JobsOK
<1>6. Kept' BY <1>1 DEF IInv, Kept, Phases, Accepted, Loaded, Known
<1>7. Phases' BY <1>1 DEF Phases
<1>8. Shapes' BY <1>1 DEF IInv, Shapes
<1>9. Libraries' BY <1>1 DEF IInv, Libraries, Honest, SnapshotOK, Known, Loaded
<1>10. QED BY <1>3, <1>4, <1>5, <1>6, <1>7, <1>8, <1>9 DEF IInv

\* A file operation that fails leaves one job less.
LEMMA FailedKeeps ==
  ASSUME IInv, NEW error, Failed(error),
         UNCHANGED <<catalogue, lease, resolution, manager, editor>>
  PROVE  IInv'
<1>1. /\ UNCHANGED <<disk, library, catalogue, lease, manager, editor>>
      /\ phase' = "jobs" /\ work'.origin = work.origin /\ work'.jobs \subseteq work.jobs
      /\ work'.pending = work.pending /\ work'.changed = work.changed
      /\ work' = [origin |-> work'.origin, jobs |-> work'.jobs, errors |-> work'.errors,
                  changed |-> work'.changed, unread |-> work'.unread,
                 pending |-> work'.pending]
  BY DEF Failed, IInv, Shapes
<1>2. Copies' BY <1>1 DEF IInv, Copies, CopyOK
<1>3. Leased' BY <1>1 DEF IInv, Leased, Target
<1>4. JobsOK' BY <1>1 DEF IInv, JobsOK, FileOf
<1>5. Kept' BY <1>1 DEF IInv, Kept, Accepted, Loaded, Known
<1>6. Phases' BY <1>1 DEF IInv, Phases
<1>7. Shapes' BY <1>1 DEF IInv, Shapes
<1>8. Libraries' BY <1>1 DEF IInv, Libraries, Honest, SnapshotOK, Known, Loaded
<1>9. QED BY <1>2, <1>3, <1>4, <1>5, <1>6, <1>7, <1>8 DEF IInv

LEMMA CheckJobKeeps == IInv /\ CheckJob => IInv'
<1> SUFFICES ASSUME IInv, CheckJob PROVE IInv'
  OBVIOUS
<1>1. UNCHANGED <<catalogue, lease, resolution, manager, editor>> BY DEF CheckJob
<1>2. CASE \E error : Failed(error) BY <1>1, <1>2, FailedKeeps
<1>3. CASE \E unread \in BOOLEAN :
             /\ Refusals(Current) = {} /\ phase' = "commit"
             /\ work' = [work EXCEPT !.unread = unread] /\ UNCHANGED <<disk, library>>
  <2>0. /\ work'.origin = work.origin /\ work'.jobs = work.jobs /\ work'.pending = work.pending
        /\ work'.changed = work.changed
    BY <1>3 DEF IInv, Shapes
  <2>1. Libraries' BY <1>1, <1>3 DEF IInv, Libraries, Honest, SnapshotOK, Known, Loaded
  <2>2. Shapes' BY <1>1, <1>3 DEF IInv, Shapes
  <2>3. (Refusals(Current) = {})' = (Refusals(Current) = {})
    BY <1>3, <2>0 DEF Refusals, Current, FileOf, Accepted, Loaded, Known
  <2>4. work.jobs # {} BY DEF CheckJob
  <2>5. Phases' BY <1>3, <2>0, <2>3, <2>4 DEF IInv, Phases
  <2>6. QED BY <1>1, <1>3, <2>0, <2>1, <2>2, <2>5, QuietStep DEF SameCopy
<1>4. QED BY <1>2, <1>3 DEF CheckJob

\* A token of another benchmark survives a write the service has admitted: the file written holds
\* the benchmark of the job, so it is another file.
LEMMA WriteSparesOthers ==
  ASSUME IInv, phase = "commit", work.origin = "batch",
         NEW token, Accepted(library.snapshot, token), token.id = lease
  PROVE  /\ FileOf(Current) \in Ids /\ Current.what \in Benchmark
         /\ Accepted(Upserted(library.snapshot, FileOf(Current), Current.what), token)
<1>1. Current \in work.jobs BY CurrentIsJob DEF IInv, JobsOK, Phases
<1>2. /\ Current \in Job /\ Current.what # Absent /\ Current.token # None
      /\ Current.token.id # lease
  BY <1>1 DEF IInv, JobsOK
<1>3. Accepted(library.snapshot, Current.token) BY <1>2 DEF IInv, Phases, Refusals
<1>4. Current.token.file # token.file BY <1>2, <1>3 DEF Accepted
<1>5. /\ FileOf(Current) = Current.token.file /\ Current.token.file \in Ids
      /\ Current.what \in Benchmark
  BY <1>2 DEF FileOf, Job, Token
<1>6. Honest(library.snapshot) BY DEF IInv, Libraries
<1>7. QED BY <1>4, <1>5, <1>6, AcceptedElsewhere

LEMMA CommitJobKeeps == IInv /\ CommitJob => IInv'
<1> SUFFICES ASSUME IInv, CommitJob PROVE IInv'
  OBVIOUS
<1>1. UNCHANGED <<catalogue, lease, resolution, manager, editor>> /\ phase = "commit"
  BY DEF CommitJob
<1>2. CASE Failed("WriteFailed") BY <1>1, <1>2, FailedKeeps
<1>3. CASE ~Failed("WriteFailed")
  <2> DEFINE f == FileOf(Current)
             b == Current.what
  <2>1. /\ disk' = [disk EXCEPT ![f] = b]
        /\ library' = [library EXCEPT !.snapshot = IF b = Absent THEN Erased(@, f)
                                                                 ELSE Upserted(@, f, b)]
        /\ phase' = "jobs"
        /\ work' = [work EXCEPT !.jobs = @ \ {Current}, !.unread = FALSE, !.changed = TRUE]
    BY <1>3 DEF CommitJob
  <2>2. Current \in work.jobs BY <1>1, CurrentIsJob DEF IInv, JobsOK, Phases
  <2>3. Current \in Job /\ (b = Absent => Current.token # None) BY <2>2 DEF IInv, JobsOK
  <2>4. b \in Benchmark \cup {Absent} BY <2>3 DEF Job
  <2>5. f \in Ids BY <2>3, <2>4 DEF FileOf, Job, Token, Benchmark
  <2>6. Honest(library.snapshot) /\ Honest(manager.state.library) BY DEF IInv, Libraries
  <2>7. /\ library'.snapshot = IF b = Absent THEN Erased(library.snapshot, f)
                                             ELSE Upserted(library.snapshot, f, b)
        /\ library' = [snapshot |-> library'.snapshot, failed |-> library'.failed]
    BY <2>1 DEF IInv, Shapes
  <2>8. /\ work'.origin = work.origin /\ work'.jobs \subseteq work.jobs
        /\ work'.pending = work.pending /\ work'.changed = TRUE
        /\ work' = [origin |-> work'.origin, jobs |-> work'.jobs, errors |-> work'.errors,
                    changed |-> work'.changed, unread |-> work'.unread,
                 pending |-> work'.pending]
    BY <2>1 DEF IInv, Shapes
  <2>9. disk' \in [Ids -> Benchmark \cup {Broken, Absent}] BY <2>1, <2>4 DEF IInv, Shapes
  <2> HIDE DEF f, b
  <2>10. Honest(library'.snapshot)
    <3>1. CASE b = Absent BY <2>6, <2>7, <3>1, HonestErased
    <3>2. CASE b # Absent
      <4>1. b \in Benchmark BY <2>4, <3>2
      <4>2. Honest(Upserted(library.snapshot, f, b)) BY <2>5, <2>6, <4>1, HonestUpserted
      <4>3. QED BY <2>7, <3>2, <4>2
    <3>3. QED BY <3>1, <3>2
  <2>11. Libraries' BY <1>1, <2>6, <2>10 DEF Libraries, Honest, SnapshotOK, Known, Loaded
  <2>12. Shapes' BY <1>1, <2>7, <2>8, <2>9 DEF IInv, Shapes
  <2>13. Copies' BY <1>1, <2>8 DEF IInv, Copies, CopyOK
  <2>14. Leased' BY <1>1, <2>8 DEF IInv, Leased, Target
  <2>15. JobsOK' BY <1>1, <2>8 DEF IInv, JobsOK, FileOf
  <2>16. Phases' BY <2>1, <2>8 DEF IInv, Phases
  <2>17. Kept'
    <3> SUFFICES ASSUME work.pending # None, work.pending.token # None
                 PROVE  Accepted(library'.snapshot, work.pending.token)
      BY <2>8 DEF Kept, Accepted, Loaded, Known
    <3> DEFINE token == work.pending.token
    <3>1. CASE work.origin = "batch"
      <4>1. Accepted(library.snapshot, token) BY <3>1 DEF IInv, Kept
      <4>2. token.id = lease BY <3>1 DEF IInv, Leased, Target, Copies, CopyOK
      <4>3. /\ b \in Benchmark /\ Accepted(Upserted(library.snapshot, f, b), token)
        <5> HIDE DEF token
        <5>1. QED BY <1>1, <3>1, <4>1, <4>2, WriteSparesOthers DEF f, b
      <4>4. QED BY <2>7, <4>3, DataAssumption
    <3>2. CASE work.origin = "save"
      <4>1. /\ b = work.pending.draft /\ f = token.file /\ token.digest = b
            /\ token.id = work.pending.draft.id /\ token \in Token /\ b \in Benchmark
        BY <2>2, <3>2 DEF IInv, JobsOK, Copies, CopyOK, f, b
      <4>2. token = [id |-> b.id, file |-> f, digest |-> b] BY <4>1 DEF Token
      <4> HIDE DEF token
      <4>3. Accepted(Upserted(library.snapshot, f, b), token)
        BY <2>5, <2>6, <4>1, <4>2, HonestUpserted
      <4>4. QED BY <2>7, <4>1, <4>3, DataAssumption DEF token
    <3>3. QED BY <3>1, <3>2 DEF IInv, Phases, JobsOK
  <2>18. QED BY <2>11, <2>12, <2>13, <2>14, <2>15, <2>16, <2>17 DEF IInv
<1>4. QED BY <1>2, <1>3

LEMMA BatchDoneKeeps == IInv /\ BatchDone => IInv'
<1> SUFFICES ASSUME IInv, BatchDone PROVE IInv'
  OBVIOUS
<1>1. /\ UNCHANGED <<disk, library, catalogue, lease, work>> /\ work.origin = "batch"
      /\ phase' \in {"pass", "publish"}
  BY DEF BatchDone
<1>2. /\ SameCopy /\ manager' = [state |-> manager'.state, fresh |-> manager'.fresh]
      /\ Honest(manager'.state.library)
  <2>1. CASE /\ UNCHANGED manager \/ manager' = [manager EXCEPT !.fresh = FALSE]
             /\ UNCHANGED editor
    <3>1. /\ manager'.state = manager.state /\ UNCHANGED editor
          /\ manager' = [state |-> manager'.state, fresh |-> manager'.fresh]
      BY <2>1 DEF IInv, Shapes
    <3>2. QED BY <3>1 DEF IInv, Libraries, SameCopy
  <2>2. CASE /\ manager' = [state |-> Built(library, resolution), fresh |-> TRUE]
             /\ editor' = Adapted(editor, Built(library, resolution).library)
    <3>1. manager'.state.library = library.snapshot BY <2>2 DEF Built
    <3>2. SameCopy BY <2>2 DEF SameCopy, Adapted, Shown
    <3>3. QED BY <2>2, <3>1, <3>2 DEF IInv, Libraries
  <2>3. QED BY <2>1, <2>2 DEF BatchDone, Rebuild
<1>3. Libraries' BY <1>1, <1>2 DEF IInv, Libraries, Honest, SnapshotOK, Known, Loaded
<1>4. Shapes' BY <1>1, <1>2 DEF IInv, Shapes
<1>5. Phases' BY <1>1 DEF IInv, Phases
<1>6. QED BY <1>1, <1>2, <1>3, <1>4, <1>5, QuietStep

LEMMA PublishKeeps == IInv /\ Publish => IInv'
<1> SUFFICES ASSUME IInv, Publish PROVE IInv'
  OBVIOUS
<1>1. /\ UNCHANGED <<disk, library, catalogue, lease, resolution>>
      /\ phase = "publish" /\ phase' = "idle" /\ work' = NoWork
      /\ work.origin = "batch"
  BY DEF Publish, IInv, Phases
<1>2. /\ manager' = [state |-> manager'.state, fresh |-> manager'.fresh]
      /\ manager'.state.library \in {manager.state.library, library.snapshot}
  BY DEF Publish, Built
<1>3. /\ editor'.draft = Target.draft /\ editor'.baseline = Target.baseline
      /\ editor'.token = Target.token
  <2>1. CASE work.pending # None BY <1>1, <2>1 DEF Publish, Target, Shown
  <2>2. CASE work.pending = None BY <1>1, <2>2 DEF Publish, Target, Adapted, Shown
  <2>3. QED BY <2>1, <2>2
<1>4. CopyOK(Target) BY DEF IInv, Copies, Target
<1>5. Copies' BY <1>1, <1>3, <1>4 DEF Copies, CopyOK, NoWork
<1>6. Leased' BY <1>1, <1>3 DEF IInv, Leased, Target, NoWork
<1>7. JobsOK' /\ Kept' /\ Phases' BY <1>1 DEF JobsOK, Kept, Phases, NoWork
<1>8. Shapes' BY <1>1, <1>2 DEF IInv, Shapes, NoWork
<1>9. Libraries' BY <1>1, <1>2 DEF IInv, Libraries, Honest, SnapshotOK, Known, Loaded
<1>10. QED BY <1>5, <1>6, <1>7, <1>8, <1>9 DEF IInv

LEMMA CommandDoneKeeps == IInv /\ CommandDone => IInv'
<1> SUFFICES ASSUME IInv, CommandDone PROVE IInv'
  OBVIOUS
<1>1. /\ UNCHANGED <<disk, library, catalogue, lease, resolution, editor>>
      /\ work.origin \in {"save", "delete"} /\ work.jobs = {}
      /\ manager' = [state |-> manager'.state, fresh |-> manager'.fresh]
      /\ manager'.state = manager.state
  BY DEF CommandDone, IInv, Shapes
<1>2. Libraries' BY <1>1 DEF IInv, Libraries, Honest, SnapshotOK, Known, Loaded
<1>3. CASE work.changed
  <2>1. phase' = "pass" /\ UNCHANGED work BY <1>3 DEF CommandDone
  <2>2. Shapes' BY <1>1, <2>1 DEF IInv, Shapes
  <2>3. Phases' BY <1>3, <2>1 DEF IInv, Phases
  <2>4. QED BY <1>1, <1>2, <2>1, <2>2, <2>3, QuietStep DEF SameCopy
<1>4. CASE ~work.changed
  <2>1. phase' = "idle" /\ work' = NoWork BY <1>4 DEF CommandDone
  <2>2. Shapes' BY <1>1, <2>1 DEF IInv, Shapes, NoWork
  <2>3. Copies' BY <1>1, <2>1 DEF IInv, Copies, CopyOK, NoWork
  <2>4. Leased' BY <1>1, <2>1 DEF IInv, Leased, Target, NoWork
  <2>5. JobsOK' /\ Kept' /\ Phases' BY <2>1 DEF JobsOK, Kept, Phases, NoWork
  <2>6. QED BY <1>2, <2>2, <2>3, <2>4, <2>5 DEF IInv
<1>5. QED BY <1>3, <1>4

LEMMA InvStep == IInv /\ [Next]_vars => IInv'
<1> SUFFICES ASSUME IInv, [Next]_vars PROVE IInv'
  OBVIOUS
<1>1. CASE \E f \in Ids, c \in Authored \cup {Absent} : External(f, c)
  BY <1>1, ExternalKeeps
<1>2. CASE \E known \in Catalogues : ProfileChanged(known) BY <1>2, ProfileChangedKeeps
<1>3. CASE \E unread \in Unreadable : Refresh(unread) BY <1>3, RefreshKeeps
<1>4. CASE \E i \in Ids : Open(i) BY <1>4, OpenKeeps
<1>5. CASE \E i \in NewIds, b \in Seeds : New(i, b) BY <1>5, NewKeeps
<1>6. CASE Close BY <1>6, CloseKeeps
<1>7. CASE \E b \in Drafts : Edit(b) BY <1>7, EditKeeps
<1>8. CASE Save BY <1>8, SaveKeeps
<1>9. CASE \E i \in Ids : Delete(i) BY <1>9, DeleteKeeps
<1>10. CASE Steps
  BY <1>10, PassKeeps, CheckJobKeeps, CommitJobKeeps, BatchDoneKeeps, PublishKeeps,
     CommandDoneKeeps DEF Steps
<1>11. CASE UNCHANGED vars BY <1>11, UnchangedKeeps
<1>12. QED
  BY <1>1, <1>2, <1>3, <1>4, <1>5, <1>6, <1>7, <1>8, <1>9, <1>10, <1>11 DEF Next
-----------------------------------------------------------------------------
\* Background mapping never makes the leased working copy's token stale, and a token the window
\* adopts from opening or saving is still accepted after the passes its command caused.
THEOREM LeaseStaysProtected == Spec => LeaseProtects
<1> DEFINE Background == /\ phase = "commit" /\ work.origin = "batch" /\ editor.token # None
                         /\ lease = editor.token.id /\ Accepted(library.snapshot, editor.token)
           Adopts == /\ phase = "publish" /\ phase' = "idle" /\ work.pending # None
                     /\ work.pending.token # None
           Kind == /\ (phase = "commit" /\ work.origin = "batch" /\ editor.token # None
                         /\ lease = editor.token.id /\ Accepted(library.snapshot, editor.token))
                        => Accepted(library'.snapshot, editor.token)
                   /\ (phase = "publish" /\ phase' = "idle" /\ work.pending # None
                         /\ work.pending.token # None)
                        => Accepted(library.snapshot, work.pending.token)
<1>1. IInv /\ [Next]_vars => Kind
  <2> SUFFICES ASSUME IInv, [Next]_vars PROVE Kind
    OBVIOUS
  <2>1. ASSUME Background PROVE Accepted(library'.snapshot, editor.token)
    <3>1. CommitJob \/ UNCHANGED library
      BY <2>1 DEF Next, Steps, External, ProfileChanged, Refresh, Open, New, Close, Lease, AtRest,
         Edit, Save, Delete, Pass, CheckJob, BatchDone, Publish, CommandDone, vars
    <3>2. CASE UNCHANGED library BY <2>1, <3>2
    <3>3. CASE CommitJob
      <4>1. /\ Current.what \in Benchmark
            /\ Accepted(Upserted(library.snapshot, FileOf(Current), Current.what), editor.token)
        BY <2>1, WriteSparesOthers
      <4>2. library'.snapshot \in {library.snapshot,
              Upserted(library.snapshot, FileOf(Current), Current.what)}
        BY <3>3, <4>1, DataAssumption DEF CommitJob, Failed, IInv, Shapes
      <4>3. QED BY <2>1, <4>1, <4>2
    <3>4. QED BY <3>1, <3>2, <3>3
  <2>2. ASSUME Adopts PROVE Accepted(library.snapshot, work.pending.token)
    BY <2>2 DEF IInv, Kept, Phases
  <2>3. QED BY <2>1, <2>2
<1>2. Spec => [][Kind]_vars
  <2> HIDE DEF Kind
  <2>1. QED BY <1>1, InvInit, InvStep, PTL DEF Spec
<1>3. QED BY <1>2 DEF LeaseProtects

\* While the working copy's token is accepted, the accepted benchmark is the baseline the window
\* compares with, and the lease is on it.
THEOREM BaselineStaysAdmitted == Spec => []BaselineIsAdmitted
<1>1. IInv => BaselineIsAdmitted
  <2> SUFFICES ASSUME IInv, AtRest, editor.token # None, Accepted(library.snapshot, editor.token)
               PROVE  /\ library.snapshot[editor.token.file].content = editor.baseline
                      /\ lease = editor.token.id
    BY DEF BaselineIsAdmitted
  <2>1. editor.token.digest = editor.baseline /\ editor.token.id = editor.draft.id
        /\ editor.draft # None
    BY DEF IInv, Copies, CopyOK
  <2>2. library.snapshot[editor.token.file].content = editor.token.digest
    BY DEF IInv, Libraries, Honest, Accepted
  <2>3. work.pending = None BY DEF IInv, Phases, AtRest, NoWork
  <2>4. lease = editor.draft.id BY <2>1, <2>3 DEF IInv, Leased, Target
  <2>5. QED BY <2>1, <2>2, <2>4
<1>2. QED BY <1>1, InvInit, InvStep, PTL DEF Spec
-----------------------------------------------------------------------------
\* What the store saw when it read the file again is still there when it commits.
Unraced ==
  phase = "commit" => Matches(Current, work.unread) /\ Refusals(Current) = {}

\* Only the check leads to a commit, and nobody edits in between.
LEMMA UnracedStep ==
  ASSUME Racing = FALSE, IInv, Unraced, [Next]_vars
  PROVE  Unraced'
<1> SUFFICES ASSUME phase' = "commit" PROVE Unraced'
  BY DEF Unraced
<1>1. CASE UNCHANGED vars
  BY <1>1 DEF vars, Unraced, Matches, OnDisk, Refusals, Current, FileOf, Expected, Accepted, Loaded, Known
<1>2. CASE \E f \in Ids, c \in Authored \cup {Absent} : External(f, c)
  BY <1>2 DEF External
<1>3. CASE CheckJob
  <2>1. PICK unread \in BOOLEAN :
          /\ Refusals(Current) = {} /\ Matches(Current, unread)
          /\ work' = [work EXCEPT !.unread = unread] /\ UNCHANGED <<disk, library>>
    BY <1>3 DEF CheckJob, Failed
  <2>2. work'.unread = unread /\ work'.jobs = work.jobs
    BY <2>1 DEF IInv, Shapes
  <2>3. Current' = Current BY <2>2 DEF Current, FileOf
  <2>4. Refusals(Current)' = {}
    BY <2>1, <2>3 DEF Refusals, Accepted, Loaded, Known
  <2>5. Matches(Current, work.unread)'
    BY <2>1, <2>2, <2>3 DEF Matches, OnDisk, FileOf, Expected
  <2>6. QED BY <2>4, <2>5 DEF Unraced
<1>4. QED
  BY <1>1, <1>2, <1>3 DEF Next, Steps, ProfileChanged, Refresh, Open, New, Close, Lease,
     AtRest, Edit, Save, Delete, Pass, CommitJob, Failed, BatchDone, Publish, CommandDone

LEMMA UnracedInit == Init => Unraced
BY DEF Init, Unraced

\* A commit changes the file of its job only, which holds what the store saw unless the store could
\* not open it.
LEMMA CommitChanges ==
  ASSUME IInv, Unraced, [Next]_vars, phase = "commit", phase' = "jobs",
         NEW f \in Ids, disk'[f] # disk[f]
  PROVE  /\ f = FileOf(Current) /\ disk'[f] = Current.what
         /\ work.unread \/ disk[f] = Expected(Current)
         /\ Current.token # None => disk[f] = Current.token.digest
<1>1. CommitJob
  BY DEF Next, Steps, External, ProfileChanged, Refresh, Open, New, Close, Lease, AtRest, Edit,
     Save, Delete, Pass, CheckJob, BatchDone, Publish, CommandDone, vars
<1>2. f = FileOf(Current) /\ disk'[f] = Current.what
  BY <1>1 DEF CommitJob, Failed, IInv, Shapes
<1>3. OnDisk(f, work.unread) = Expected(Current) BY <1>2 DEF Unraced, Matches
<1>4. work.unread \/ disk[f] = Expected(Current) BY <1>3 DEF OnDisk
<1>5. ASSUME Current.token # None PROVE disk[f] = Current.token.digest
  <2>1. Current \in work.jobs BY CurrentIsJob DEF IInv, JobsOK, Phases
  <2>2. Current.token \in Token BY <1>5, <2>1 DEF IInv, JobsOK, Job
  <2>3. Expected(Current) = Current.token.digest /\ Current.token.digest # Absent
    BY <1>5, <2>2, DataAssumption DEF Expected, Token
  <2>4. QED BY <1>3, <2>3 DEF OnDisk
<1>6. QED BY <1>2, <1>4, <1>5

\* When no edit falls between a check and its commit, the program replaces or removes a file only
\* while it holds what a scan admitted or the program wrote, or, for a new benchmark, a file that
\* could not be opened.
THEOREM EditsStayKept ==
  ASSUME Racing = FALSE
  PROVE  Spec => EditsKept
<1> DEFINE Admitted(f) ==
             {Absent} \cup {library.snapshot[g].digest : g \in Known(library.snapshot) \cap {f}}
           Kind == phase = "commit" /\ phase' = "jobs" => \A f \in Ids :
              disk'[f] # disk[f] =>
                \/ disk[f] \in Admitted(f)
                \/ Current.token = None /\ f = FileOf(Current) /\ work.unread
<1>1. IInv /\ Unraced /\ [Next]_vars => Kind
  <2> SUFFICES ASSUME IInv, Unraced, [Next]_vars, phase = "commit", phase' = "jobs",
                      NEW f \in Ids, disk'[f] # disk[f]
               PROVE  \/ disk[f] \in Admitted(f)
                      \/ Current.token = None /\ f = FileOf(Current) /\ work.unread
    OBVIOUS
  <2>1. /\ f = FileOf(Current)
        /\ work.unread \/ disk[f] = Expected(Current)
        /\ Current.token # None => disk[f] = Current.token.digest
    BY CommitChanges
  <2>2. CASE Current.token = None
    <3>1. Expected(Current) = Absent BY <2>2 DEF Expected
    <3>2. QED BY <2>1, <2>2, <3>1
  <2>3. CASE Current.token # None
    <3>1. Accepted(library.snapshot, Current.token) BY <2>3 DEF Unraced, Refusals
    <3>2. f = Current.token.file BY <2>1, <2>3 DEF FileOf
    <3>3. f \in Known(library.snapshot) /\ library.snapshot[f].digest = disk[f]
      BY <2>1, <2>3, <3>1, <3>2 DEF Accepted, Loaded
    <3>4. QED BY <3>3
  <2>4. QED BY <2>2, <2>3
<1>2. Spec => [][Kind]_vars
  <2> HIDE DEF Kind
  <2>1. QED BY <1>1, InvInit, InvStep, UnracedInit, UnracedStep, PTL DEF Spec
<1>3. QED BY <1>2 DEF EditsKept
-----------------------------------------------------------------------------
\* A background job writes what automatic mapping makes of what the token was admitted for.
Mapped ==
  work.origin = "batch" => \A job \in work.jobs :
    /\ job.token # None /\ job.token.digest \in Benchmark
    /\ job.what = AutoMapped(job.token.digest)

LEMMA MappedStep ==
  ASSUME IInv, Mapped, [Next]_vars
  PROVE  Mapped'
<1>1. ASSUME UNCHANGED catalogue, work'.origin = "batch" => work.origin = "batch",
             work'.jobs \subseteq work.jobs
      PROVE  Mapped'
  BY <1>1 DEF Mapped, AutoMapped, Unmapped
<1>2. ASSUME work'.jobs = {} \/ work'.origin # "batch" PROVE Mapped'
  BY <1>2 DEF Mapped
<1>3. CASE Pass
  <2>1. work'.jobs = Requests /\ UNCHANGED catalogue BY <1>3 DEF Pass, NoWork
  <2>2. \A job \in Requests : /\ job.token # None /\ job.token.digest \in Benchmark
                              /\ job.what = AutoMapped(job.token.digest)
    <3>1. TAKE job \in Requests
    <3>2. PICK f \in Loaded(library.snapshot) :
            job = [what |-> AutoMapped(library.snapshot[f].content),
                   token |-> TokenOf(library.snapshot, f)]
      BY DEF Requests
    <3>3. /\ TokenOf(library.snapshot, f).digest = library.snapshot[f].content
          /\ library.snapshot[f].content \in Benchmark /\ TokenOf(library.snapshot, f) \in Token
      BY EntryLoaded DEF IInv, Libraries
    <3>4. QED BY <3>2, <3>3, NoneAssumption
  <2>3. QED BY <2>1, <2>2 DEF Mapped, AutoMapped, Unmapped
<1>4. CASE CheckJob \/ CommitJob
  BY <1>1, <1>4 DEF CheckJob, CommitJob, Failed, IInv, Shapes
<1>5. CASE BatchDone \/ UNCHANGED vars \/ \E f \in Ids, c \in Authored \cup {Absent} : External(f, c)
  BY <1>1, <1>5 DEF BatchDone, vars, External
<1>6. CASE Publish \/ CommandDone BY <1>2, <1>6 DEF Publish, CommandDone, NoWork
<1>7. CASE Save \/ \E i \in Ids : Delete(i)
  BY <1>2, <1>7 DEF Save, Delete, NoWork
<1>8. ASSUME AtRest, work' = work \/ \E seed : work' = [work EXCEPT !.pending = seed]
      PROVE  Mapped'
  BY <1>2, <1>8 DEF AtRest, IInv, Phases, NoWork
<1>9. CASE \/ \E known \in Catalogues : ProfileChanged(known)
           \/ \E unread \in Unreadable : Refresh(unread)
           \/ \E b \in Drafts : Edit(b)
  BY <1>8, <1>9 DEF ProfileChanged, Refresh, Edit
<1>10. CASE \/ \E i \in Ids : Open(i)
            \/ \E i \in NewIds, b \in Seeds : New(i, b)
            \/ Close
  BY <1>8, <1>10 DEF Open, New, Close, Lease
<1>11. QED
  BY <1>3, <1>4, <1>5, <1>6, <1>7, <1>9, <1>10 DEF Next, Steps

\* What automatic mapping may do to a benchmark.
OnlyAdds(old, new) ==
  /\ old \in Benchmark /\ new \in Benchmark
  /\ new.id = old.id /\ new.name = old.name
  /\ \A e \in Slots : new.hashes[e] # old.hashes[e] =>
       /\ old.hashes[e] = NoHash /\ {new.hashes[e]} = catalogue
       /\ \A d \in Slots \ {e} : new.hashes[d] # new.hashes[e]

LEMMA AutoMappedOnlyAdds ==
  ASSUME NEW b \in Benchmark, catalogue \subseteq Hashes
  PROVE  OnlyAdds(b, AutoMapped(b))
<1>1. CASE AutoMapped(b) = b BY <1>1 DEF OnlyAdds
<1>2. CASE AutoMapped(b) # b
  <2> DEFINE h == CHOOSE x \in catalogue : TRUE
             e == Least(Unmapped(b))
  <2>1. /\ Cardinality(catalogue) = 1 /\ Unmapped(b) # {}
        /\ \A d \in Slots : b.hashes[d] \notin catalogue
        /\ AutoMapped(b) = [b EXCEPT !.hashes[e] = h]
    BY <1>2 DEF AutoMapped
  <2>2. PICK x : catalogue = {x}
    <3>1. IsFiniteSet(catalogue) BY CataloguesAssumption, FS_Subset
    <3>2. QED BY <2>1, <3>1, FS_Singleton
  <2>3. h \in catalogue /\ catalogue = {h} /\ h \in Hashes BY <2>2
  <2>4. e \in Slots /\ b.hashes[e] = NoHash
    <3>1. Unmapped(b) \subseteq Nat BY SlotsAssumption DEF Unmapped
    <3>2. e \in Unmapped(b) BY <2>1, <3>1, LeastExists
    <3>3. QED BY <3>2 DEF Unmapped
  <2> HIDE DEF h, e
  <2>5. /\ AutoMapped(b).hashes[e] = h
        /\ \A d \in Slots \ {e} : AutoMapped(b).hashes[d] = b.hashes[d]
        /\ AutoMapped(b).name = b.name
    BY <2>1, <2>4 DEF Benchmark
  <2>6. AutoMapped(b) \in Benchmark /\ AutoMapped(b).id = b.id BY AutoMappedTyped
  <2>7. QED BY <2>1, <2>3, <2>4, <2>5, <2>6 DEF OnlyAdds
<1>3. QED BY <1>1, <1>2

\* Automatic mapping keeps the id, the name and every hash of the file it changes, and what it adds
\* is the only candidate, once; again when no edit falls between a check and its commit.
THEOREM BackgroundKeepsAdding ==
  ASSUME Racing = FALSE
  PROVE  Spec => BackgroundOnlyAdds
<1> DEFINE Kind == phase = "commit" /\ phase' = "jobs" /\ work.origin = "batch" => \A f \in Ids :
              disk'[f] # disk[f] =>
                LET old == disk[f] new == disk'[f]
                IN  /\ old \in Benchmark /\ new \in Benchmark
                    /\ new.id = old.id /\ new.name = old.name
                    /\ \A e \in Slots : new.hashes[e] # old.hashes[e] =>
                         /\ old.hashes[e] = NoHash /\ {new.hashes[e]} = catalogue
                         /\ \A d \in Slots \ {e} : new.hashes[d] # new.hashes[e]
<1>1. IInv /\ Mapped /\ Unraced /\ [Next]_vars => Kind
  <2> SUFFICES ASSUME IInv, Mapped, Unraced, [Next]_vars, phase = "commit", phase' = "jobs",
                      work.origin = "batch", NEW f \in Ids, disk'[f] # disk[f]
               PROVE  OnlyAdds(disk[f], disk'[f])
    BY DEF OnlyAdds
  <2>2. /\ f = FileOf(Current) /\ disk'[f] = Current.what
        /\ Current.token # None => disk[f] = Current.token.digest
    BY CommitChanges
  <2>3. Current \in work.jobs BY CurrentIsJob DEF IInv, JobsOK, Phases
  <2>4. /\ Current.token # None /\ Current.token.digest \in Benchmark
        /\ Current.what = AutoMapped(Current.token.digest)
    BY <2>3 DEF Mapped
  <2>5. disk[f] = Current.token.digest BY <2>2, <2>4
  <2>6. QED BY <2>2, <2>4, <2>5, AutoMappedOnlyAdds DEF IInv, Shapes
<1>2. Init => Mapped BY DEF Init, NoWork, Mapped
<1>3. Spec => [][Kind]_vars
  <2> HIDE DEF Kind
  <2>1. QED BY <1>1, <1>2, InvInit, InvStep, MappedStep, UnracedInit, UnracedStep, PTL DEF Spec
<1>4. QED BY <1>3 DEF BackgroundOnlyAdds
-----------------------------------------------------------------------------
(* What is published, and what the window shows of it.                     *)

\* A finite set of numbers has a greatest one: otherwise a smallest set without one, less any of
\* its members, would have one.
LEMMA GreatestExists ==
  ASSUME NEW T, IsFiniteSet(T), T \subseteq Nat, T # {}
  PROVE  Greatest(T) \in T
<1> DEFINE HasTop(U) == \E m \in U : \A k \in U : k <= m
           Lacking == {U \in SUBSET T : U # {} /\ ~HasTop(U)}
           Sizes == {Cardinality(U) : U \in Lacking}
<1>1. Lacking = {}
  <2> SUFFICES ASSUME Lacking # {} PROVE FALSE
    OBVIOUS
  <2>1. \A U \in Lacking : IsFiniteSet(U) /\ Cardinality(U) \in Nat
    BY FS_Subset, FS_CardinalityType
  <2>2. Sizes \subseteq Nat /\ Sizes # {} BY <2>1
  <2>3. Least(Sizes) \in Sizes /\ \A k \in Sizes : Least(Sizes) <= k
    <3> HIDE DEF Sizes
    <3>1. QED BY <2>2, LeastExists
  <2>4. PICK U \in Lacking : \A V \in Lacking : Cardinality(U) <= Cardinality(V)
    BY <2>3
  <2>5. PICK x \in U : TRUE OBVIOUS
  <2>6. Cardinality(U \ {x}) = Cardinality(U) - 1 /\ Cardinality(U) \in Nat
    BY <2>1, <2>5, FS_RemoveElement
  <2>7. U \ {x} \notin Lacking
    <3>1. ASSUME U \ {x} \in Lacking PROVE FALSE
      <4>1. Cardinality(U) <= Cardinality(U \ {x}) BY <2>4, <3>1
      <4>2. QED BY <2>6, <4>1
    <3>2. QED BY <3>1
  <2>8. U \ {x} # {} => HasTop(U \ {x}) BY <2>7
  <2>9. U \subseteq Nat OBVIOUS
  <2>10. CASE U = {x} BY <2>9, <2>10
  <2>11. CASE HasTop(U \ {x})
    <3>1. PICK m \in U \ {x} : \A k \in U \ {x} : k <= m BY <2>11
    <3>2. CASE x <= m BY <2>9, <3>1, <3>2
    <3>3. CASE m < x
      <4>1. \A k \in U : k <= x BY <2>5, <2>9, <3>1, <3>3
      <4>2. QED BY <2>5, <4>1
    <3>4. QED BY <2>5, <2>9, <3>1, <3>2, <3>3
  <2>12. QED BY <2>5, <2>8, <2>10, <2>11
<1>2. HasTop(T) BY <1>1
<1>3. QED
  <2> HIDE DEF Lacking
  <2>1. QED BY <1>2 DEF Greatest

\* At rest, and while a command has written nothing yet, nothing that is published has changed.
Rested == phase = "idle" \/ (work.origin \in {"save", "delete"} /\ ~work.changed)

\* What Pass publishes of the accepted benchmarks.
Exact ==
  /\ DOMAIN resolution.resolutions =
       {library.snapshot[f].content.id : f \in Loaded(library.snapshot)}
  /\ \A i \in DOMAIN resolution.resolutions : \E f \in Holders(library.snapshot, i) :
       resolution.resolutions[i] = Resolve(library.snapshot[f].content)

\* The accepted benchmarks automatic mapping has still to write.
Due ==
  {library.snapshot[f].content.id :
     f \in {g \in Loaded(library.snapshot) :
              /\ library.snapshot[g].content.id # lease
              /\ AutoMapped(library.snapshot[g].content) # library.snapshot[g].content}}

Records ==
  /\ manager.state = [library |-> manager.state.library, failed |-> manager.state.failed,
                      catalogue |-> manager.state.catalogue,
                      resolutions |-> manager.state.resolutions,
                      failures |-> manager.state.failures]
  /\ resolution = [catalogue |-> resolution.catalogue, resolutions |-> resolution.resolutions,
                   failures |-> resolution.failures]

\* The manager has seen the accepted snapshot, unless the service has just written a file.
Seen ==
  manager.fresh /\ (phase = "pass" \/ ~work.changed) => manager.state.library = library.snapshot

\* How far the loop has come.
Resolved ==
  /\ phase # "pass" => resolution.catalogue = catalogue
  /\ phase # "pass" /\ ~work.changed => Exact
  /\ Rested => manager.state = Built(library, resolution)
  /\ phase = "publish" => ~work.changed

\* What is due is under way, has failed, or is reported.
Reported ==
  /\ phase \in {"jobs", "commit"} /\ work.origin = "batch" => DOMAIN resolution.failures = {}
  /\ phase \in {"jobs", "commit"} /\ work.origin = "batch" /\ ~work.changed =>
       {Owner(job) : job \in work.jobs} \cup DOMAIN work.errors = Due
  /\ phase = "publish" \/ Rested => DOMAIN resolution.failures = Due

\* What the window shows is what it would derive now.
Window ==
  /\ editor.stale = Stale(editor.token, manager.state.library)
  /\ editor.draft # None /\ manager.state.catalogue = catalogue
       => editor.states = Resolve(editor.draft)

\* A token bears the id of the benchmark it was admitted for.
TokensOwn ==
  /\ editor.token # None => editor.token.id = editor.token.digest.id
  /\ work.pending # None /\ work.pending.token # None
       => work.pending.token.id = work.pending.token.digest.id

Display == Records /\ Seen /\ Resolved /\ Reported /\ Window /\ TokensOwn

LEMMA DisplayInit == Init => Display
<1> SUFFICES ASSUME Init PROVE Display
  OBVIOUS
<1>1. /\ phase = "pass" /\ work.origin = "batch" /\ work.changed = FALSE /\ work.pending = None
      /\ manager.state = Built(library, resolution) /\ manager.fresh = FALSE
      /\ editor = Closed(library.snapshot)
  BY DEF Init, NoWork
<1>2. Records BY <1>1 DEF Records, Init, Built
<1>3. Window BY <1>1 DEF Window, Closed, Shown, Built
<1>4. Seen /\ Resolved /\ Reported /\ TokensOwn
  BY <1>1 DEF Seen, Resolved, Reported, Rested, TokensOwn, Closed, Shown
<1>5. QED BY <1>2, <1>3, <1>4 DEF Display

\* Nothing the definitions read has changed.
LEMMA SameSnapshot ==
  ASSUME library'.snapshot = library.snapshot, UNCHANGED catalogue
  PROVE  /\ resolution'.resolutions = resolution.resolutions => (Exact' <=> Exact)
         /\ UNCHANGED lease => Due' = Due
<1>1. ASSUME resolution'.resolutions = resolution.resolutions PROVE Exact' <=> Exact
  BY <1>1 DEF Exact, Loaded, Known, Holders, Resolve
<1>2. ASSUME UNCHANGED lease PROVE Due' = Due
  BY <1>2 DEF Due, Loaded, Known, AutoMapped, Unmapped
<1>3. QED BY <1>1, <1>2

LEMMA SameWindow ==
  ASSUME Window, UNCHANGED <<editor, catalogue>>, manager'.state = manager.state
  PROVE  Window'
<1>1. Stale(editor.token, manager.state.library)' = Stale(editor.token, manager.state.library)
  BY DEF Stale, Loaded, Known
<1>2. Resolve(editor.draft)' = Resolve(editor.draft) BY DEF Resolve
<1>3. QED BY <1>1, <1>2 DEF Window

\* A callback leads into another pass: what it publishes is yet to come.
LEMMA IntoPass ==
  ASSUME phase' = "pass", work'.origin = "batch" \/ work'.changed,
         work'.origin \in {"batch", "save", "delete"},
         Records', Seen', Window', TokensOwn'
  PROVE  Display'
BY DEF Display, Resolved, Reported, Rested

\* Steps at rest, and those of a command that has written nothing.
LEMMA StaysRested ==
  ASSUME IInv, Display, Rested, Rested', phase' \notin {"pass", "publish"},
         phase' = "idle" => work' = NoWork,
         phase' # "idle" => work'.origin \in {"save", "delete"},
         UNCHANGED <<library, catalogue, lease, resolution, manager>>,
         Window', TokensOwn'
  PROVE  Display'
<1>1. phase # "pass" /\ ~work.changed /\ ~work'.changed
  BY DEF Rested, IInv, Phases, NoWork
<1>2. Records' BY DEF Display, Records
<1>3. Seen' BY <1>1 DEF Display, Seen
<1>4. Exact' /\ Due' = Due BY <1>1, SameSnapshot DEF Display, Resolved
<1>5. manager'.state = Built(library', resolution')
  BY DEF Display, Resolved, Built
<1>6. Resolved' BY <1>1, <1>4, <1>5 DEF Display, Resolved
<1>7. work'.origin = "batch" => phase' = "idle" BY DEF NoWork
<1>8. Reported' BY <1>4, <1>7 DEF Display, Reported
<1>9. QED BY <1>2, <1>3, <1>6, <1>8 DEF Display

\* Edits by others, and stuttering.
LEMMA UnseenDisplay ==
  ASSUME Display, UNCHANGED <<library, catalogue, lease, resolution, manager, editor, phase, work>>
  PROVE  Display'
<1>1. (Exact' <=> Exact) /\ Due' = Due BY SameSnapshot
<1>2. Window' BY SameWindow DEF Display
<1>3. Built(library, resolution)' = Built(library, resolution) BY DEF Built
<1>4. {Owner(job) : job \in work.jobs}' = {Owner(job) : job \in work.jobs} BY DEF Owner
<1>5. Resolved' /\ Reported' BY <1>1, <1>3, <1>4 DEF Display, Resolved, Reported, Rested
<1>6. Records' /\ Seen' /\ TokensOwn' BY DEF Display, Records, Seen, TokensOwn
<1>7. QED BY <1>2, <1>5, <1>6 DEF Display

LEMMA ProfileChangedDisplay ==
  ASSUME IInv, Display, NEW known, ProfileChanged(known)
  PROVE  Display'
<1>1. /\ UNCHANGED <<library, resolution, manager, editor, work>>
      /\ phase = "idle" /\ phase' = "pass" /\ work = NoWork /\ catalogue' # catalogue
  BY DEF ProfileChanged, AtRest, IInv, Phases
<1>2. manager.state.catalogue = catalogue
  BY <1>1 DEF Display, Resolved, Rested, Built
<1>3. Window' BY <1>1, <1>2 DEF Display, Window, Stale, Loaded, Known
<1>4. Records' /\ Seen' /\ TokensOwn' BY <1>1 DEF Display, Records, Seen, TokensOwn, NoWork
<1>5. QED BY <1>1, <1>3, <1>4, IntoPass DEF NoWork

LEMMA RefreshDisplay ==
  ASSUME IInv, Display, NEW unread, Refresh(unread)
  PROVE  Display'
<1>1. /\ UNCHANGED <<catalogue, resolution, editor, work>>
      /\ phase = "idle" /\ phase' = "pass" /\ work = NoWork /\ manager'.state = manager.state
      /\ manager'.fresh => manager.fresh /\ library'.snapshot = library.snapshot
  BY DEF Refresh, AtRest, IInv, Phases, Shapes
<1>2. Window' BY <1>1, SameWindow DEF Display
<1>3. Records' /\ Seen' /\ TokensOwn' BY <1>1 DEF Display, Records, Seen, TokensOwn, NoWork
<1>4. QED BY <1>1, <1>2, <1>3, IntoPass DEF NoWork

LEMMA ShownWindow ==
  ASSUME NEW draft, NEW baseline, NEW token,
         editor' = Shown(draft, baseline, token, manager'.state.library), UNCHANGED catalogue
  PROVE  Window' /\ editor'.token = token
BY DEF Window, Shown, Stale, Loaded, Known, Resolve

LEMMA LeaseDisplay ==
  ASSUME IInv, Display, AtRest, NEW i, NEW seed \in Adoption,
         seed.token # None => seed.token.id = seed.token.digest.id,
         Lease(i, seed)
  PROVE  Display'
<1>1. work = NoWork /\ phase = "idle" BY DEF AtRest, IInv, Phases
<1>2. CASE lease = i
  <2>1. /\ editor' = Shown(seed.draft, seed.baseline, seed.token, manager'.state.library)
        /\ UNCHANGED <<library, catalogue, lease, resolution, manager, phase, work>>
    BY <1>2 DEF Lease
  <2>2. Window' /\ editor'.token = seed.token BY <2>1, ShownWindow
  <2>3. TokensOwn' BY <1>1, <2>1, <2>2 DEF TokensOwn, NoWork
  <2>4. QED BY <1>1, <2>1, <2>2, <2>3, StaysRested DEF Rested
<1>3. CASE lease # i
  <2>1. /\ UNCHANGED <<library, catalogue, resolution, manager, editor>>
        /\ phase' = "pass" /\ work' = [NoWork EXCEPT !.pending = seed]
    BY <1>1, <1>3 DEF Lease
  <2>2. work'.origin = "batch" /\ work'.changed = FALSE /\ work'.pending = seed
    BY <2>1 DEF NoWork
  <2>3. Window' BY <2>1, SameWindow DEF Display
  <2>4. Records' /\ TokensOwn' BY <2>1, <2>2 DEF Display, Records, TokensOwn
  <2>5. Seen' BY <1>1, <2>1, <2>2 DEF Display, Seen, NoWork
  <2>6. QED BY <2>1, <2>2, <2>3, <2>4, <2>5, IntoPass
<1>4. QED BY <1>2, <1>3

LEMMA CommandsDisplay ==
  ASSUME IInv, Display,
         \/ \E i \in Ids : Open(i)
         \/ \E i \in NewIds, b \in Seeds : New(i, b)
         \/ Close
  PROVE  Display'
<1>1. ASSUME NEW i \in Ids, Open(i) PROVE Display'
  <2> DEFINE f == Least(Holders(library.snapshot, i))
             b == library.snapshot[f].content
             seed == [draft |-> b, baseline |-> b, token |-> TokenOf(library.snapshot, f)]
  <2>1. f \in Holders(library.snapshot, i)
    <3>1. Holders(library.snapshot, i) \subseteq Nat /\ Holders(library.snapshot, i) # {}
      BY <1>1, IdsAssumption DEF Open, IInv, Libraries, Honest, SnapshotOK, Holders, Loaded
    <3>2. QED BY <3>1, LeastExists
  <2>2. AtRest /\ Lease(i, seed) BY <1>1 DEF Open
  <2> HIDE DEF f
  <2>3. f \in Loaded(library.snapshot) BY <2>1 DEF Holders
  <2>4. /\ b \in Benchmark /\ TokenOf(library.snapshot, f) \in Token
        /\ TokenOf(library.snapshot, f).id = b.id /\ TokenOf(library.snapshot, f).digest = b
    BY <2>3, EntryLoaded DEF IInv, Libraries
  <2> HIDE DEF b
  <2>5. seed \in Adoption /\ seed.token.id = seed.token.digest.id BY <2>4 DEF Adoption
  <2> HIDE DEF seed
  <2>6. QED BY <2>2, <2>5, LeaseDisplay
<1>2. ASSUME NEW i \in NewIds, NEW b \in Seeds, New(i, b) PROVE Display'
  <2> DEFINE seed == [draft |-> b, baseline |-> None, token |-> None]
  <2>1. AtRest /\ Lease(i, seed) BY <1>2 DEF New
  <2>2. seed \in Adoption /\ seed.token = None BY DEF Seeds, Adoption
  <2> HIDE DEF seed
  <2>3. QED BY <2>1, <2>2, LeaseDisplay
<1>3. ASSUME Close PROVE Display'
  <2> DEFINE seed == [draft |-> None, baseline |-> None, token |-> None]
  <2>1. AtRest /\ Lease(None, seed) BY <1>3 DEF Close
  <2>2. seed \in Adoption /\ seed.token = None BY DEF Adoption
  <2> HIDE DEF seed
  <2>3. QED BY <2>1, <2>2, LeaseDisplay
<1>4. QED BY <1>1, <1>2, <1>3

LEMMA EditDisplay ==
  ASSUME IInv, Display, NEW b, Edit(b)
  PROVE  Display'
<1>1. /\ editor' = Shown(b, editor.baseline, editor.token, manager'.state.library)
      /\ UNCHANGED <<library, catalogue, lease, resolution, manager, phase, work>>
      /\ phase = "idle" /\ work = NoWork
  BY DEF Edit, AtRest, IInv, Phases
<1>2. Window' /\ editor'.token = editor.token BY <1>1, ShownWindow
<1>3. TokensOwn' BY <1>1, <1>2 DEF Display, TokensOwn
<1>4. QED BY <1>1, <1>2, <1>3, StaysRested DEF Rested

LEMMA SaveDeleteDisplay ==
  ASSUME IInv, Display, Save \/ \E i \in Ids : Delete(i)
  PROVE  Display'
<1>1. /\ UNCHANGED <<library, catalogue, lease, resolution, manager, editor>>
      /\ phase = "idle" /\ phase' = "jobs"
      /\ work'.origin \in {"save", "delete"} /\ work'.changed = FALSE
      /\ work'.pending = None \/ work'.pending = SavedAs
  BY DEF Save, Delete, AtRest, NoWork
<1>2. SavedAs.token.id = SavedAs.token.digest.id BY DEF SavedAs
<1>3. TokensOwn' BY <1>1, <1>2 DEF Display, TokensOwn
<1>4. Window' BY <1>1, SameWindow DEF Display
<1>5. QED BY <1>1, <1>3, <1>4, StaysRested DEF Rested

\* What a pass publishes is exact, and its jobs are what is due.
LEMMA PassDisplay ==
  ASSUME IInv, Display, Pass
  PROVE  Display'
<1>1. /\ UNCHANGED <<library, catalogue, lease, manager, editor>>
      /\ phase = "pass" /\ phase' = "jobs" /\ work'.origin = "batch" /\ work'.changed = FALSE
      /\ work'.jobs = Requests /\ DOMAIN work'.errors = {} /\ work'.pending = work.pending
      /\ DOMAIN resolution'.failures = {} /\ resolution'.catalogue = catalogue
  BY DEF Pass, NoWork, NoErrors
<1>2. \A f \in Loaded(library.snapshot) :
         f \in Ids /\ library.snapshot[f].content \in Benchmark
  BY EntryLoaded DEF IInv, Libraries
<1>3. Exact'
  <2>1. resolution'.resolutions =
          [i \in {j \in Ids : Holders(library.snapshot, j) # {}} |->
             Resolve(library.snapshot[Greatest(Holders(library.snapshot, i))].content)]
    BY DEF Pass
  <2>2. {j \in Ids : Holders(library.snapshot, j) # {}}
          = {library.snapshot[f].content.id : f \in Loaded(library.snapshot)}
    BY <1>2 DEF Holders, Benchmark
  <2>3. ASSUME NEW i \in Ids, Holders(library.snapshot, i) # {}
        PROVE  Greatest(Holders(library.snapshot, i)) \in Holders(library.snapshot, i)
    <3>1. Holders(library.snapshot, i) \subseteq Ids BY <1>2 DEF Holders
    <3>2. IsFiniteSet(Holders(library.snapshot, i)) BY <3>1, IdsAssumption, FS_Subset
    <3>3. Holders(library.snapshot, i) \subseteq Nat BY <3>1, IdsAssumption
    <3>4. QED BY <2>3, <3>2, <3>3, GreatestExists
  <2>4. /\ DOMAIN resolution'.resolutions
             = {library.snapshot[f].content.id : f \in Loaded(library.snapshot)}
        /\ \A i \in DOMAIN resolution'.resolutions : \E f \in Holders(library.snapshot, i) :
             resolution'.resolutions[i] = Resolve(library.snapshot[f].content)
    BY <2>1, <2>2, <2>3
  <2>5. QED BY <1>1, <2>4, SMTT(30) DEF Exact, Loaded, Known, Holders, Resolve
<1>4. {Owner(job) : job \in Requests} = Due
  <2>1. \A f \in Loaded(library.snapshot) :
          /\ TokenOf(library.snapshot, f) # None
          /\ TokenOf(library.snapshot, f).id = library.snapshot[f].content.id
    BY EntryLoaded, NoneAssumption DEF IInv, Libraries
  <2> DEFINE Stock == {f \in Loaded(library.snapshot) :
                         /\ library.snapshot[f].content.id # lease
                         /\ AutoMapped(library.snapshot[f].content) # library.snapshot[f].content}
             Request(f) == [what |-> AutoMapped(library.snapshot[f].content),
                            token |-> TokenOf(library.snapshot, f)]
  <2>2. Requests = {Request(f) : f \in Stock} BY DEF Requests
  <2>3. Due = {library.snapshot[f].content.id : f \in Stock} BY DEF Due
  <2>4. \A f \in Stock : Owner(Request(f)) = library.snapshot[f].content.id
    BY <2>1 DEF Owner
  <2> HIDE DEF Stock, Request
  <2>5. QED BY <2>2, <2>3, <2>4
<1>5. Due' = Due BY <1>1, SameSnapshot
<1>6. {Owner(job) : job \in work.jobs}' = {Owner(job) : job \in Requests} BY <1>1 DEF Owner
<1>7. Window' BY <1>1, SameWindow DEF Display
<1>8. Records' BY <1>1 DEF Display, Records, Pass
<1>9. Seen' /\ TokensOwn' BY <1>1 DEF Display, Seen, TokensOwn
<1>10. Resolved' BY <1>1, <1>3 DEF Resolved, Rested
<1>11. Reported' BY <1>1, <1>4, <1>5, <1>6 DEF Reported, Rested
<1>12. QED BY <1>7, <1>8, <1>9, <1>10, <1>11 DEF Display

\* A file operation that fails turns its job into an error of the benchmark's.
LEMMA FailedDisplay ==
  ASSUME IInv, Display, phase \in {"jobs", "commit"}, work.jobs # {}, NEW error, Failed(error),
         UNCHANGED <<catalogue, lease, resolution, manager, editor>>
  PROVE  Display'
<1>1. /\ UNCHANGED library /\ phase' = "jobs" /\ work'.origin = work.origin
      /\ work'.changed = work.changed /\ work'.pending = work.pending
      /\ work'.jobs = work.jobs \ {Current}
      /\ DOMAIN work'.errors = DOMAIN work.errors \cup {Owner(Current)}
  BY DEF Failed, Extended, IInv, Shapes
<1>2. Current \in work.jobs BY CurrentIsJob DEF IInv, JobsOK
<1>3. {Owner(job) : job \in work.jobs}' \cup DOMAIN work'.errors
        = {Owner(job) : job \in work.jobs} \cup DOMAIN work.errors
  BY <1>1, <1>2 DEF Owner
<1>4. (Exact' <=> Exact) /\ Due' = Due BY <1>1, SameSnapshot
<1>5. Window' BY SameWindow DEF Display
<1>6. Built(library, resolution)' = Built(library, resolution) BY <1>1 DEF Built
<1>7. Rested' => Rested BY <1>1 DEF Rested
<1>8. Resolved' BY <1>1, <1>4, <1>6, <1>7 DEF Display, Resolved
<1>9. Reported' BY <1>1, <1>3, <1>4, <1>7 DEF Display, Reported
<1>10. Records' /\ Seen' /\ TokensOwn' BY <1>1 DEF Display, Records, Seen, TokensOwn
<1>11. QED BY <1>5, <1>8, <1>9, <1>10 DEF Display

LEMMA CheckJobDisplay ==
  ASSUME IInv, Display, CheckJob
  PROVE  Display'
<1>1. /\ UNCHANGED <<catalogue, lease, resolution, manager, editor>>
      /\ phase = "jobs" /\ work.jobs # {}
  BY DEF CheckJob
<1>2. CASE \E error : Failed(error) BY <1>1, <1>2, FailedDisplay
<1>3. CASE /\ phase' = "commit" /\ UNCHANGED library
           /\ \E unread \in BOOLEAN : work' = [work EXCEPT !.unread = unread]
  <2>0. UNCHANGED <<work.origin, work.jobs, work.errors, work.changed, work.pending>>
    BY <1>3 DEF IInv, Shapes
  <2>1. (Exact' <=> Exact) /\ Due' = Due BY <1>1, <1>3, SameSnapshot
  <2>2. Window' BY <1>1, SameWindow DEF Display
  <2>3. Built(library, resolution)' = Built(library, resolution) BY <1>1, <1>3 DEF Built
  <2>4. {Owner(job) : job \in work.jobs}' = {Owner(job) : job \in work.jobs}
    BY <2>0 DEF Owner
  <2>5. Rested' => Rested BY <1>3, <2>0 DEF Rested
  <2>6. Resolved' BY <1>1, <1>3, <2>0, <2>1, <2>3, <2>5 DEF Display, Resolved
  <2>7. Reported' BY <1>1, <1>3, <2>0, <2>1, <2>4, <2>5 DEF Display, Reported
  <2>8. Records' /\ Seen' /\ TokensOwn' BY <1>1, <1>3, <2>0 DEF Display, Records, Seen, TokensOwn
  <2>9. QED BY <2>2, <2>6, <2>7, <2>8 DEF Display
<1>4. QED BY <1>2, <1>3 DEF CheckJob

\* A file operation that succeeds makes another pass due.
LEMMA CommitJobDisplay ==
  ASSUME IInv, Display, CommitJob
  PROVE  Display'
<1>1. /\ UNCHANGED <<catalogue, lease, resolution, manager, editor>>
      /\ phase = "commit" /\ work.jobs # {}
  BY DEF CommitJob, IInv, Phases
<1>2. CASE Failed("WriteFailed") BY <1>1, <1>2, FailedDisplay
<1>3. CASE ~Failed("WriteFailed")
  <2>1. /\ phase' = "jobs" /\ work'.changed = TRUE /\ work'.origin = work.origin
        /\ work'.pending = work.pending
    BY <1>3 DEF CommitJob, IInv, Shapes
  <2>2. Window' BY <1>1, SameWindow DEF Display
  <2>3. ~Rested' BY <2>1 DEF Rested
  <2>4. Resolved' BY <1>1, <2>1, <2>3 DEF Display, Resolved
  <2>5. Reported' BY <1>1, <2>1, <2>3 DEF Display, Reported
  <2>6. Records' /\ Seen' /\ TokensOwn' BY <1>1, <2>1 DEF Display, Records, Seen, TokensOwn
  <2>7. QED BY <2>2, <2>4, <2>5, <2>6 DEF Display
<1>4. QED BY <1>2, <1>3

LEMMA BatchDoneDisplay ==
  ASSUME IInv, Display, BatchDone
  PROVE  Display'
<1>1. /\ UNCHANGED <<library, catalogue, lease, work>>
      /\ phase = "jobs" /\ work.jobs = {} /\ work.origin = "batch"
      /\ resolution'.catalogue = resolution.catalogue
      /\ resolution'.resolutions = resolution.resolutions
      /\ resolution' = [catalogue |-> resolution'.catalogue,
                        resolutions |-> resolution'.resolutions,
                        failures |-> resolution'.failures]
      /\ DOMAIN resolution'.failures = DOMAIN resolution.failures \cup DOMAIN work.errors
  BY DEF BatchDone, Display, Records
<1>2. CASE work.changed
  <2>1. /\ manager' = [state |-> Built(library, resolution), fresh |-> TRUE]
        /\ editor' = Adapted(editor, Built(library, resolution).library)
        /\ phase' = "pass"
    BY <1>2 DEF BatchDone, Rebuild, SameState, Again
  <2>2. manager'.state.library = library.snapshot /\ Built(library, resolution).library = library.snapshot
    BY <2>1 DEF Built
  <2>3. editor' = Shown(editor.draft, editor.baseline, editor.token, manager'.state.library)
    BY <2>1, <2>2 DEF Adapted
  <2>4. Window' /\ editor'.token = editor.token BY <1>1, <2>3, ShownWindow
  <2>5. Records' BY <1>1, <2>1 DEF Records, Built
  <2>6. Seen' /\ TokensOwn' BY <1>1, <2>2, <2>4 DEF Display, Seen, TokensOwn
  <2>7. QED BY <1>1, <1>2, <2>1, <2>4, <2>5, <2>6, IntoPass
<1>3. CASE ~work.changed
  <2>1. UNCHANGED <<manager, editor>> /\ phase' = "publish"
    BY <1>3 DEF BatchDone, Again
  <2>2. DOMAIN resolution'.failures = Due
    BY <1>1, <1>3 DEF Display, Reported
  <2>3. (Exact' <=> Exact) /\ Due' = Due BY <1>1, SameSnapshot
  <2>4. Window' BY <1>1, <2>1, SameWindow DEF Display
  <2>5. ~Rested' BY <1>1, <2>1 DEF Rested
  <2>6. Resolved' BY <1>1, <1>3, <2>1, <2>3, <2>5 DEF Display, Resolved
  <2>7. Reported' BY <2>1, <2>2, <2>3, <2>5 DEF Reported
  <2>8. Records' /\ Seen' /\ TokensOwn'
    BY <1>1, <1>3, <2>1 DEF Display, Records, Seen, TokensOwn
  <2>9. QED BY <2>4, <2>6, <2>7, <2>8 DEF Display
<1>4. QED BY <1>2, <1>3

\* A revision that has been seen stands for the snapshot: what compares equal is equal.
LEMMA PublishDisplay ==
  ASSUME IInv, Display, Publish
  PROVE  Display'
<1> DEFINE next == Built(library, resolution)
           same == SameState(next, manager.fresh)
<1>1. /\ UNCHANGED <<library, catalogue, lease, resolution>>
      /\ phase = "publish" /\ phase' = "idle" /\ work' = NoWork /\ ~work.changed
  BY DEF Publish, Display, Resolved
<1>2. same => manager.state = next
  <2>1. SUFFICES ASSUME same PROVE manager.state = next
    OBVIOUS
  <2>2. manager.state.library = library.snapshot BY <1>1, <2>1 DEF SameState, Display, Seen
  <2>3. [next EXCEPT !.library = None] = [manager.state EXCEPT !.library = None]
    BY <2>1 DEF SameState
  <2>4. /\ next = [library |-> library.snapshot, failed |-> next.failed,
                   catalogue |-> next.catalogue, resolutions |-> next.resolutions,
                   failures |-> next.failures]
        /\ manager.state = [library |-> manager.state.library, failed |-> manager.state.failed,
                            catalogue |-> manager.state.catalogue,
                            resolutions |-> manager.state.resolutions,
                            failures |-> manager.state.failures]
    BY DEF Built, Display, Records
  <2> HIDE DEF next
  <2>5. /\ next.failed = manager.state.failed /\ next.catalogue = manager.state.catalogue
        /\ next.resolutions = manager.state.resolutions /\ next.failures = manager.state.failures
    BY <2>3, <2>4
  <2>6. QED BY <2>2, <2>4, <2>5
<1>3. manager' = [state |-> next, fresh |-> TRUE]
  <2>1. manager' = [state |-> IF same THEN manager.state ELSE next, fresh |-> TRUE]
    BY DEF Publish
  <2> HIDE DEF next, same
  <2>2. QED BY <1>2, <2>1
<1>4. next.library = library.snapshot BY DEF Built
<1>5. \/ /\ work.pending # None
         /\ editor' = Shown(work.pending.draft, work.pending.baseline, work.pending.token,
                            manager'.state.library)
      \/ same /\ UNCHANGED editor
      \/ editor' = Adapted(editor, manager'.state.library)
  BY DEF Publish
<1> HIDE DEF next, same
<1>6. Window' /\ TokensOwn'
  <2>1. work'.pending = None BY <1>1 DEF NoWork
  <2>2. CASE /\ work.pending # None
             /\ editor' = Shown(work.pending.draft, work.pending.baseline, work.pending.token,
                                manager'.state.library)
    <3>1. Window' /\ editor'.token = work.pending.token BY <1>1, <2>2, ShownWindow
    <3>2. QED BY <2>1, <2>2, <3>1 DEF Display, TokensOwn
  <2>3. CASE same /\ UNCHANGED editor
    <3>1. manager'.state = manager.state BY <1>2, <1>3, <2>3
    <3>2. Window' BY <1>1, <2>3, <3>1, SameWindow DEF Display
    <3>3. QED BY <2>1, <2>3, <3>2 DEF Display, TokensOwn
  <2>4. CASE editor' = Adapted(editor, manager'.state.library)
    <3>1. Window' /\ editor'.token = editor.token BY <1>1, <2>4, ShownWindow DEF Adapted
    <3>2. QED BY <2>1, <3>1 DEF Display, TokensOwn
  <2>5. QED BY <1>5, <2>2, <2>3, <2>4
<1>7. (Exact' <=> Exact) /\ Due' = Due BY <1>1, SameSnapshot
<1>8. manager'.state = Built(library', resolution') BY <1>1, <1>3 DEF next, Built
<1>9. Resolved' BY <1>1, <1>7, <1>8 DEF Display, Resolved, NoWork
<1>10. Reported' BY <1>1, <1>7 DEF Display, Reported, NoWork
<1>11. Records' BY <1>1, <1>8 DEF Display, Records, Built
<1>12. Seen' BY <1>1, <1>3, <1>4 DEF Seen
<1>13. QED BY <1>6, <1>9, <1>10, <1>11, <1>12 DEF Display

LEMMA CommandDoneDisplay ==
  ASSUME IInv, Display, CommandDone
  PROVE  Display'
<1>1. /\ UNCHANGED <<library, catalogue, lease, resolution, editor>>
      /\ phase = "jobs" /\ work.origin \in {"save", "delete"}
  BY DEF CommandDone
<1>2. CASE work.changed
  <2>1. /\ phase' = "pass" /\ UNCHANGED work
        /\ manager'.fresh = FALSE /\ manager'.state = manager.state
    BY <1>2 DEF CommandDone, IInv, Shapes
  <2>2. Window' BY <1>1, <2>1, SameWindow DEF Display
  <2>3. Records' /\ Seen' /\ TokensOwn' BY <1>1, <2>1 DEF Display, Records, Seen, TokensOwn
  <2>4. QED BY <1>1, <1>2, <2>1, <2>2, <2>3, IntoPass
<1>3. CASE ~work.changed
  <2>1. phase' = "idle" /\ work' = NoWork /\ UNCHANGED manager BY <1>3 DEF CommandDone
  <2>2. Window' BY <1>1, <2>1, SameWindow DEF Display
  <2>3. TokensOwn' BY <1>1, <2>1 DEF Display, TokensOwn, NoWork
  <2>4. QED BY <1>1, <1>3, <2>1, <2>2, <2>3, StaysRested DEF Rested
<1>4. QED BY <1>2, <1>3

LEMMA DisplayStep == IInv /\ Display /\ [Next]_vars => Display'
<1> SUFFICES ASSUME IInv, Display, [Next]_vars PROVE Display'
  OBVIOUS
<1>1. CASE UNCHANGED vars \/ \E f \in Ids, c \in Authored \cup {Absent} : External(f, c)
  BY <1>1, UnseenDisplay DEF vars, External
<1>2. CASE \E known \in Catalogues : ProfileChanged(known) BY <1>2, ProfileChangedDisplay
<1>3. CASE \E unread \in Unreadable : Refresh(unread) BY <1>3, RefreshDisplay
<1>4. CASE \/ \E i \in Ids : Open(i)
           \/ \E i \in NewIds, b \in Seeds : New(i, b)
           \/ Close
  BY <1>4, CommandsDisplay
<1>5. CASE \E b \in Drafts : Edit(b) BY <1>5, EditDisplay
<1>6. CASE Save \/ \E i \in Ids : Delete(i) BY <1>6, SaveDeleteDisplay
<1>7. CASE Steps
  BY <1>7, PassDisplay, CheckJobDisplay, CommitJobDisplay, BatchDoneDisplay, PublishDisplay,
     CommandDoneDisplay DEF Steps
<1>8. QED BY <1>1, <1>2, <1>3, <1>4, <1>5, <1>6, <1>7 DEF Next

\* At rest the window shows the accepted library: the manager's state is what it would build now,
\* the resolutions are those of the accepted benchmarks under the current catalogue, and the
\* working copy is marked stale exactly when a save with its token would be refused.
THEOREM ShownStaysCurrent == Spec => []ShownIsCurrent
<1>1. IInv /\ Display => ShownIsCurrent
  <2> SUFFICES ASSUME IInv, Display, AtRest PROVE ShownIsCurrent
    BY DEF ShownIsCurrent
  <2>1. phase = "idle" /\ ~work.changed BY DEF AtRest, IInv, Phases, NoWork
  <2>2. /\ manager.state = Built(library, resolution) /\ resolution.catalogue = catalogue
        /\ Exact
    BY <2>1 DEF Display, Resolved, Rested
  <2>3. manager.state.library = library.snapshot /\ manager.state.catalogue = catalogue
    BY <2>2 DEF Built
  <2>4. editor.token # None => (editor.stale <=> ~Accepted(library.snapshot, editor.token))
    <3> SUFFICES ASSUME editor.token # None
                 PROVE  editor.stale <=> ~Accepted(library.snapshot, editor.token)
      OBVIOUS
    <3>1. editor.stale = Stale(editor.token, library.snapshot)
      BY <2>3 DEF Display, Window
    <3>2. \A f \in Loaded(library.snapshot) :
             library.snapshot[f].digest = library.snapshot[f].content
      BY DEF IInv, Libraries, Honest
    <3>3. editor.token.id = editor.token.digest.id BY DEF Display, TokensOwn
    <3>4. Stale(editor.token, library.snapshot) <=> ~Accepted(library.snapshot, editor.token)
      BY <3>2, <3>3 DEF Stale, Accepted
    <3>5. QED BY <3>1, <3>4
  <2>5. editor.draft # None => editor.states = Resolve(editor.draft)
    BY <2>3 DEF Display, Window
  <2>6. QED BY <2>2, <2>4, <2>5 DEF ShownIsCurrent, Exact
<1>2. QED BY <1>1, InvInit, InvStep, DisplayInit, DisplayStep, PTL DEF Spec

\* At rest every accepted benchmark nobody edits has all the mappings that need no choice, or is
\* reported as a failed write, and nothing else is.
THEOREM MappedStaysReported == Spec => []MappedOrReported
<1>1. Display => MappedOrReported
  BY DEF Display, Reported, Rested, AtRest, MappedOrReported, Due
<1>2. QED BY <1>1, InvInit, InvStep, DisplayInit, DisplayStep, PTL DEF Spec
=============================================================================
