------------------------- MODULE BenchmarkDefinition -------------------------
(***************************************************************************)
(* A benchmark (domain/benchmarks/benchmark.h): an ordered ladder of       *)
(* tiers, and scenario entries in lists, one uncategorized list and one    *)
(* for every category and subcategory.  What validation reports about it   *)
(* (benchmark_validation) and what a file must satisfy to be loaded        *)
(* (benchmark_store, hasStructuralIntegrity).                              *)
(*                                                                         *)
(* Ids are positive numbers from one space, as UUIDs are; a name stands    *)
(* for the name and the colour.  Thresholds are kept as decoded, so a tier *)
(* may occur twice in an entry; hashes are the mapped ones, without        *)
(* repetition (mappedScenarioHashes).                                      *)
(***************************************************************************)
EXTENDS Integers, Sequences, FiniteSets, SequencesExt

CONSTANTS
  Blank,     \* the empty name or text
  NonFinite  \* a score that is no finite number

NoGroup == 0  \* the empty group id: Uncategorized

\* The lists that hold scenarios, each with its group and the category it belongs to.
CategoryLists(c) ==
  <<[group |-> c.id, category |-> c.id, scenarios |-> c.scenarios]>>
    \o [s \in DOMAIN c.subs |->
          [group |-> c.subs[s].id, category |-> c.id, scenarios |-> c.subs[s].scenarios]]
Uncategorized(b) == <<[group |-> NoGroup, category |-> NoGroup, scenarios |-> b.uncategorized]>>
Grouped(b) == FlattenSeq([c \in DOMAIN b.categories |-> CategoryLists(b.categories[c])])

\* Edits visit the uncategorized list first; the rows of the table end with it.
Lists(b) == Uncategorized(b) \o Grouped(b)
ListsInView(b) == Grouped(b) \o Uncategorized(b)

EntriesIn(lists) == FlattenSeq([l \in DOMAIN lists |-> lists[l].scenarios])
Entries(b) == EntriesIn(Lists(b))
VisibleOrder(b) == EntriesIn(ListsInView(b))

IdsOf(s) == {s[i].id : i \in DOMAIN s}
EntryIds(b) == IdsOf(Entries(b))
TierIds(b) == IdsOf(b.tiers)
CategoryIds(b) == IdsOf(b.categories)
SubIds(b) == UNION {IdsOf(b.categories[c].subs) : c \in DOMAIN b.categories}
AllIds(b) == EntryIds(b) \cup TierIds(b) \cup CategoryIds(b) \cup SubIds(b)

PositionOf(s, id) == CHOOSE i \in DOMAIN s : s[i].id = id
WithId(s, id) == s[PositionOf(s, id)]
EntryOf(b, id) == WithId(Entries(b), id)
CategoryOf(b, id) == WithId(b.categories, id)
ListOf(b, group) ==
  LET lists == Lists(b) IN lists[CHOOSE l \in DOMAIN lists : lists[l].group = group].scenarios
HomeOf(b, id) ==
  LET lists == Lists(b) IN lists[CHOOSE l \in DOMAIN lists : id \in IdsOf(lists[l].scenarios)]

Hashes(b) == UNION {ToSet(Entries(b)[i].hashes) : i \in DOMAIN Entries(b)}

\* The elements at some of the positions, in their order.
At(s, positions) ==
  [k \in 1..Cardinality(positions) |->
     s[CHOOSE i \in positions : Cardinality({j \in positions : j < i}) = k - 1]]

\* The thresholds an entry has for a tier; the first is the one that counts.
ThresholdsFor(e, tier) == SelectSeq(e.thresholds, LAMBDA t : t.tier = tier)
HasThreshold(e, tier) == \E i \in DOMAIN e.thresholds : e.thresholds[i].tier = tier
ScoreFor(e, tier) == ThresholdsFor(e, tier)[1].score
-----------------------------------------------------------------------------
(* What a file must satisfy to be loaded at all.                           *)

Distinct(s) == \A i, j \in DOMAIN s : s[i].id = s[j].id => i = j

HasStructuralIntegrity(b) ==
  LET subs == FlattenSeq([c \in DOMAIN b.categories |-> b.categories[c].subs])
  IN /\ Distinct(b.tiers \o b.categories \o subs \o Entries(b))
     /\ \A i \in DOMAIN Entries(b) :
          \A k \in DOMAIN Entries(b)[i].thresholds : Entries(b)[i].thresholds[k].tier \in TierIds(b)
-----------------------------------------------------------------------------
(* What validation reports, each issue with the element it is about; an    *)
(* issue about the whole benchmark has no element.                         *)

Issue(code, on, tier) == [code |-> code, on |-> on, tier |-> tier]

\* A later one repeats an earlier one that is not blank.
Repeats(s, i) == s[i].name # Blank /\ \E j \in 1..(i - 1) : s[j].name = s[i].name

TierIssues(b) ==
  {Issue("MissingTierName", b.tiers[i].id, 0) : i \in {j \in DOMAIN b.tiers : b.tiers[j].name = Blank}}
  \cup {Issue("DuplicateTierName", b.tiers[i].id, 0) : i \in {j \in DOMAIN b.tiers : Repeats(b.tiers, j)}}

GroupIssues(c) ==
  {Issue("MissingGroupName", x, 0) :
     x \in {g.id : g \in {h \in {c} \cup ToSet(c.subs) : h.name = Blank}}}
  \cup (IF c.scenarios # <<>> /\ c.subs # <<>> THEN {Issue("MixedCategoryContent", c.id, 0)} ELSE {})
  \cup (IF c.scenarios = <<>> /\ c.subs = <<>> THEN {Issue("EmptyCategory", c.id, 0)} ELSE {})
  \cup {Issue("EmptySubcategory", s.id, 0) : s \in {r \in ToSet(c.subs) : r.scenarios = <<>>}}

\* The tiers whose score does not exceed the last finite one before it on the ladder.
FiniteAt(e, b) == {k \in DOMAIN b.tiers :
                     HasThreshold(e, b.tiers[k].id) /\ ScoreFor(e, b.tiers[k].id) # NonFinite}
NotIncreasing(e, b) ==
  {b.tiers[k].id : k \in {j \in FiniteAt(e, b) :
     \E i \in FiniteAt(e, b) :
       /\ i < j /\ ~\E m \in FiniteAt(e, b) : i < m /\ m < j
       /\ ScoreFor(e, b.tiers[j].id) <= ScoreFor(e, b.tiers[i].id)}}

ThresholdIssues(e, b) ==
  {Issue("DuplicateThreshold", e.id, t) : t \in {x \in TierIds(b) : Len(ThresholdsFor(e, x)) > 1}}
  \cup {Issue(IF t.score = NonFinite THEN "NonFiniteThreshold" ELSE "NegativeThreshold", e.id, t.tier) :
          t \in {x \in ToSet(e.thresholds) : IF x.score = NonFinite THEN TRUE ELSE x.score < 0}}
  \cup {Issue("MissingThreshold", e.id, t) : t \in {x \in TierIds(b) : ~HasThreshold(e, x)}}
  \cup {Issue("NonIncreasingThreshold", e.id, t) : t \in NotIncreasing(e, b)}

EntryIssues(b, i) ==
  LET all == Entries(b)
      e == all[i]
      earlier == UNION {ToSet(all[j].hashes) : j \in 1..(i - 1)}
  IN (IF e.name = Blank THEN {Issue("MissingScenarioName", e.id, 0)} ELSE {})
     \cup (IF Repeats(all, i) THEN {Issue("DuplicateScenarioMembership", e.id, 0)} ELSE {})
     \cup (IF ToSet(e.hashes) \cap earlier # {} THEN {Issue("DuplicateResolvedHash", e.id, 0)} ELSE {})
     \cup (IF b.tiers # <<>> THEN ThresholdIssues(e, b) ELSE {})

ValidateBenchmark(b) ==
  (IF b.name = Blank THEN {Issue("MissingName", 0, 0)} ELSE {})
  \cup (IF b.tiers = <<>> THEN {Issue("NoTiers", 0, 0)} ELSE {})
  \cup TierIssues(b)
  \cup (UNION {GroupIssues(b.categories[c]) : c \in DOMAIN b.categories})
  \cup (IF Entries(b) = <<>> THEN {Issue("NoScenarios", 0, 0)} ELSE {})
  \cup (UNION {EntryIssues(b, i) : i \in DOMAIN Entries(b)})

Trackable(b) == ValidateBenchmark(b) = {}
=============================================================================
