--------------------------- MODULE BenchmarkEditor ---------------------------
(***************************************************************************)
(* The operations on a benchmark (domain/benchmarks/benchmark_editor).     *)
(* Each yields the set of benchmarks it may lead to: one, or none when the *)
(* code answers with an error and leaves the benchmark alone.  An          *)
(* operation that creates something is given the fresh id.  Positions      *)
(* count from 0, as in the code.                                           *)
(***************************************************************************)
EXTENDS BenchmarkDefinition

When(condition, b) == IF condition THEN {b} ELSE {}

\* The same change in every list of scenarios, or to every entry.
MapLists(b, F(_, _)) ==
  LET Sub(s) == [id |-> s.id, name |-> s.name, scenarios |-> F(s.id, s.scenarios)]
      Category(c) == [id |-> c.id, name |-> c.name, scenarios |-> F(c.id, c.scenarios),
                      subs |-> [s \in DOMAIN c.subs |-> Sub(c.subs[s])]]
  IN [name |-> b.name, tiers |-> b.tiers, uncategorized |-> F(NoGroup, b.uncategorized),
      categories |-> [c \in DOMAIN b.categories |-> Category(b.categories[c])]]
OnList(b, group, F(_)) == MapLists(b, LAMBDA g, l : IF g = group THEN F(l) ELSE l)
MapEntries(b, F(_)) == MapLists(b, LAMBDA g, l : [i \in DOMAIN l |-> F(l[i])])
OnEntry(b, id, F(_)) == MapEntries(b, LAMBDA e : IF e.id = id THEN F(e) ELSE e)
Detached(b, ids) == MapLists(b, LAMBDA g, l : At(l, {i \in DOMAIN l : l[i].id \notin ids}))
Appended(b, group, new) == OnList(b, group, LAMBDA l : l \o new)

Renamed(s, id, name) == [i \in DOMAIN s |-> IF s[i].id = id THEN [s[i] EXCEPT !.name = name] ELSE s[i]]
Without(s, id) == At(s, {i \in DOMAIN s : s[i].id # id})
Moved(s, id, position) == InsertAt(Without(s, id), position + 1, WithId(s, id))

RenameBenchmark(b, name) == {[b EXCEPT !.name = name]}
-----------------------------------------------------------------------------
(* The ladder.                                                             *)

AddTier(b, id, name) == {[b EXCEPT !.tiers = Append(@, [id |-> id, name |-> name])]}

RenameTier(b, id, name) == When(id \in TierIds(b), [b EXCEPT !.tiers = Renamed(@, id, name)])

ReorderTier(b, id, position) ==
  When(id \in TierIds(b) /\ position < Len(b.tiers), [b EXCEPT !.tiers = Moved(@, id, position)])

Cleared(e, tier) == [e EXCEPT !.thresholds = At(@, {i \in DOMAIN @ : @[i].tier # tier})]

RemoveTier(b, id) ==
  When(id \in TierIds(b),
       MapEntries([b EXCEPT !.tiers = Without(@, id)], LAMBDA e : Cleared(e, id)))
-----------------------------------------------------------------------------
(* Scenario entries.                                                       *)

NewEntry(id, name, hashes) == [id |-> id, name |-> name, hashes |-> hashes, thresholds |-> <<>>]

AddScenario(b, id, name, hashes) ==
  When(\A i \in DOMAIN Entries(b) : Entries(b)[i].name # name,
       Appended(b, NoGroup, <<NewEntry(id, name, hashes)>>))

AppendUnnamedScenarios(b, ids) == Appended(b, NoGroup, [i \in DOMAIN ids |-> NewEntry(ids[i], Blank, <<>>)])

RenameScenario(b, id, name) ==
  When(id \in EntryIds(b), OnEntry(b, id, LAMBDA e : [e EXCEPT !.name = name]))

SetScenarioHashes(b, id, hashes) ==
  When(id \in EntryIds(b), OnEntry(b, id, LAMBDA e : [e EXCEPT !.hashes = hashes]))

RemoveScenarios(b, ids) == When(ids \subseteq EntryIds(b), Detached(b, ids))

Typed(e, tier, score) ==
  IF HasThreshold(e, tier)
  THEN LET first == SelectInSeq(e.thresholds, LAMBDA t : t.tier = tier)
       IN [e EXCEPT !.thresholds[first].score = score]
  ELSE [e EXCEPT !.thresholds = Append(@, [tier |-> tier, score |-> score])]

SetThreshold(b, id, tier, score) ==
  When(tier \in TierIds(b) /\ id \in EntryIds(b), OnEntry(b, id, LAMBDA e : Typed(e, tier, score)))

ClearThreshold(b, id, tier) ==
  When(tier \in TierIds(b) /\ id \in EntryIds(b), OnEntry(b, id, LAMBDA e : Cleared(e, tier)))
-----------------------------------------------------------------------------
(* Groups.                                                                 *)

AddCategory(b, id, name) ==
  {[b EXCEPT !.categories = Append(@, [id |-> id, name |-> name, scenarios |-> <<>>, subs |-> <<>>])]}

OnSubs(b, F(_)) ==
  [b EXCEPT !.categories = [c \in DOMAIN b.categories |->
                             [b.categories[c] EXCEPT !.subs = F(b.categories[c].subs)]]]

RenameGroup(b, id, name) ==
  IF id \in CategoryIds(b) THEN {[b EXCEPT !.categories = Renamed(@, id, name)]}
  ELSE When(id \in SubIds(b),
            OnSubs(b, LAMBDA subs : Renamed(subs, id, name)))

ReorderCategory(b, id, position) ==
  When(id \in CategoryIds(b) /\ position < Len(b.categories),
       [b EXCEPT !.categories = Moved(@, id, position)])

\* Its entries go to the end of the uncategorized list, direct ones first.
RemoveCategory(b, id) ==
  IF id \in CategoryIds(b)
  THEN {Appended([b EXCEPT !.categories = Without(@, id)], NoGroup,
                 EntriesIn(CategoryLists(CategoryOf(b, id))))}
  ELSE When(id \in SubIds(b),
            Appended(OnSubs(b, LAMBDA subs : Without(subs, id)), NoGroup, ListOf(b, id)))

\* The direct scenarios of the category go into the new subcategory or to the uncategorized list.
Divided(c, new) == [id |-> c.id, name |-> c.name, scenarios |-> <<>>, subs |-> Append(c.subs, new)]
AddSubcategoryRelocating(b, category, id, name, intoNew) ==
  When(category \in CategoryIds(b),
       LET direct == CategoryOf(b, category).scenarios
           new == [id |-> id, name |-> name, scenarios |-> IF intoNew THEN direct ELSE <<>>]
           divided == [b EXCEPT !.categories = [c \in DOMAIN @ |->
                         IF @[c].id = category THEN Divided(@[c], new) ELSE @[c]]]
       IN IF intoNew THEN divided ELSE Appended(divided, NoGroup, direct))

AddSubcategory(b, category, id, name) ==
  IF category \in CategoryIds(b) /\ CategoryOf(b, category).scenarios # <<>> THEN {}
  ELSE AddSubcategoryRelocating(b, category, id, name, FALSE)

ReorderSubcategory(b, id, position) ==
  When(\E c \in DOMAIN b.categories : /\ id \in IdsOf(b.categories[c].subs)
                                      /\ position < Len(b.categories[c].subs),
       OnSubs(b, LAMBDA subs : IF id \in IdsOf(subs) THEN Moved(subs, id, position) ELSE subs))

ReorderScenario(b, id, position) ==
  When(id \in EntryIds(b) /\ position < Len(HomeOf(b, id).scenarios),
       OnList(b, HomeOf(b, id).group, LAMBDA l : Moved(l, id, position)))

GroupAccepts(b, group) ==
  group = NoGroup \/ group \in SubIds(b)
    \/ (group \in CategoryIds(b) /\ CategoryOf(b, group).subs = <<>>)

\* Mutant: an entry that moves is made anew from its id, name and hashes.
AssignScenarios_Anew(b, ids, group, before) ==
  LET moving == ToSet(ids)
      block == [i \in DOMAIN ids |->
                  NewEntry(ids[i], EntryOf(b, ids[i]).name, EntryOf(b, ids[i]).hashes)]
  IN When(GroupAccepts(b, group) /\ moving \subseteq EntryIds(b),
          Appended(Detached(b, moving), group, block))

\* The entries, in the given order, are put before the first one at or after `before` that does
\* not move itself, or at the end.
AssignScenarios(b, ids, group, before) ==
  LET moving == ToSet(ids)
      list == ListOf(b, group)
      stays == {i \in DOMAIN list : i >= PositionOf(list, before) /\ list[i].id \notin moving}
      anchor == IF before = NoGroup \/ stays = {} THEN NoGroup ELSE list[Min(stays)].id
      block == [i \in DOMAIN ids |-> EntryOf(b, ids[i])]
      Inserted(l) ==
        LET at == IF anchor = NoGroup THEN Len(l) + 1 ELSE PositionOf(l, anchor)
        IN SubSeq(l, 1, at - 1) \o block \o SubSeq(l, at, Len(l))
  IN IF GroupAccepts(b, group) /\ moving \subseteq EntryIds(b)
     THEN When(before = NoGroup \/ before \in IdsOf(list), OnList(Detached(b, moving), group, Inserted))
     ELSE {}
=============================================================================
