---------------------------- MODULE BenchmarkDraft ----------------------------
(***************************************************************************)
(* The working copy of the benchmark window                                *)
(* (ui/presentation/benchmarks/manager/benchmark_manager_vm) and the table *)
(* that shows it (benchmark_table_model): editing on copies, undo, the     *)
(* text of cells that is no score and is kept beside the draft, selection  *)
(* and focus by id, saving.                                                *)
(*                                                                         *)
(* Which file is open, leases, tokens and deletion are BenchmarkLibrary's; *)
(* here a benchmark that is opened is one of Seeds.  A text is a member of *)
(* a small set: Blank, the ones ScoreOf gives a score, anything else.  A   *)
(* refused operation changes nothing and is no step, nor is a failed save. *)
(***************************************************************************)
EXTENDS BenchmarkResolution, BenchmarkFile, ClipboardMatrix

CONSTANTS
  Seeds,       \* the benchmarks of the library that may be opened
  Playlists,   \* the playlists that may be imported: a name and the names of scenarios
  Names,       \* bound: the names that may be typed over another
  NewNames,    \* bound: the names that may be given to what is created
  Texts,       \* bound: the texts that may be typed into a cell
  ScoreOf,     \* the texts that are numbers, and the score of each
  Clips,       \* bound: the texts the clipboard may hold
  Catalogues,  \* bound: for a name, the hashes the profile knows under it
  MaxEdits,    \* bound: edits of a working copy
  MaxClicks,   \* bound: changes of selection, focus or what the profile knows
  MaxSelected, \* bound: how many rows are selected at once
  MaxId,       \* bound: ids in use at a time
  None         \* no draft, no baseline

VARIABLES
  draft,     \* m_draft
  baseline,  \* m_baseline: what it was seeded from or last saved as; None when never saved
  inputs,    \* m_cellInputs: <<entry, tier>> -> text that is no score
  history,   \* m_history
  selected,  \* m_selectedEntryIds
  cell,      \* m_currentCell
  dirty,     \* m_draftDirty
  issues,    \* m_draftCompleteness
  table,     \* the projection the table model holds, and its map from entry to row
  known,     \* what the profile knows (IBenchmarkManagerUseCase::resolve)
  edits,     \* how many edits were made, and
  clicks     \* how many clicks (bounds of the model)

vars == <<draft, baseline, inputs, history, selected, cell, dirty, issues, table, known, edits, clicks>>

NoInputs == [k \in {} |-> Blank]
NoCell == [entry |-> 0, tier |-> 0, column |-> "none"]
NothingKnown == [n \in {} |-> {}]
NoTable == [rows |-> <<>>, tiers |-> <<>>, rowOf |-> [e \in {} |-> 0]]

\* A new id is in use nowhere: neither in the draft nor in what undo or the baseline can bring back.
InUse == UNION {AllIds(b) : b \in ({draft, baseline} \cup {history[i].draft : i \in DOMAIN history}) \ {None}}
FreshIds(n) ==
  LET free == (1..(MaxId + n)) \ InUse
  IN [k \in 1..n |-> CHOOSE id \in free : Cardinality({f \in free : f < id}) = k - 1]
Fresh == FreshIds(1)[1]

ASSUME BoundsAssumption == MaxEdits \in Nat /\ MaxClicks \in Nat /\ MaxId \in Nat
ASSUME SeedsAssumption ==
  /\ None \notin Seeds
  /\ \A b \in Seeds : IsBenchmark(b) /\ HasStructuralIntegrity(b) /\ AllIds(b) \subseteq 1..MaxId

\* A playlist names its scenarios, and there are ids for them.
ASSUME PlaylistsAssumption ==
  \A p \in Playlists : /\ IsExpected(p.name) /\ IsArray(p.scenarios) /\ Len(p.scenarios) <= MaxId
                       /\ \A name \in ToSet(p.scenarios) : IsExpected(name)

\* What the profile knows: names, and for each the hashes recorded under it, which are not blank.
IsCatalogue(k) ==
  LET hashes == UNION {k[n] : n \in DOMAIN k}
  IN /\ \A n \in DOMAIN k : IsExpected(n)
     /\ IsFiniteSet(hashes) /\ \A h \in hashes : IsExpected(h) /\ h # Blank
ASSUME CataloguesAssumption == \A k \in Catalogues : IsCatalogue(k)

\* Ids and texts are no null, and a text that is a number is a finite one.
ASSUME ValuesAssumption ==
  /\ \A n \in {SchemaVersion, Self} \cup 1..MaxId : IsExpected(n)
  /\ \A name \in {Blank} \cup Names \cup NewNames : IsExpected(name)
  /\ \A text \in DOMAIN ScoreOf : IsExpected(ScoreOf[text]) /\ ScoreOf[text] # NonFinite
-----------------------------------------------------------------------------
(* What the table shows.                                                   *)

Codes(found, on, tier) == {i.code : i \in {x \in found : x.on = on /\ x.tier = tier}}

\* Retained text replaces both the score and the report that it is missing.
TableCell(e, tier, found, in) ==
  LET codes == Codes(found, e.id, tier)
  IN IF <<e.id, tier>> \in DOMAIN in
     THEN [shown |-> <<"text", in[<<e.id, tier>>]>>, issues |-> (codes \ {"MissingThreshold"}) \cup {"NotANumber"}]
     ELSE [shown |-> IF HasThreshold(e, tier) THEN <<"score", ScoreFor(e, tier)>> ELSE <<"empty">>,
           issues |-> codes]

\* The rows of one list: a row knows where its category and its subcategory begin and end, told by
\* how many rows there are when a list is placed.
RowsOf(view, l, b, found, in, k) ==
  LET category == {m \in DOMAIN view : view[m].category = view[l].category}
      placed(m) == Len(EntriesIn(SubSeq(view, 1, m)))
      first == placed(Min(category) - 1)
      before == placed(l - 1)
      divided == view[l].group # view[l].category
  IN [i \in DOMAIN view[l].scenarios |->
       LET e == view[l].scenarios[i]
       IN [entry |-> e.id,
           category |-> view[l].category,
           start |-> first,
           length |-> placed(Max(category)) - first,
           sub |-> IF divided THEN view[l].group ELSE NoGroup,
           subStart |-> IF divided THEN before ELSE before + i - 1,
           subLength |-> IF divided THEN Len(view[l].scenarios) ELSE 0,
           mapping |-> Mapping(k, e),
           issues |-> Codes(found, e.id, 0),
           cells |-> [t \in DOMAIN b.tiers |-> TableCell(e, b.tiers[t].id, found, in)]]]

Projection(b, found, in, k) ==
  LET view == ListsInView(b)
  IN [rows |-> FlattenSeq([l \in DOMAIN view |-> RowsOf(view, l, b, found, in, k)]),
      tiers |-> [t \in DOMAIN b.tiers |-> b.tiers[t].id]]

\* Mutant: as many rows and columns is shape enough.
SameShape_Counts(t, p) == Len(t.tiers) = Len(p.tiers) /\ Len(t.rows) = Len(p.rows)

SameShape(t, p) ==
  /\ t.tiers = p.tiers /\ Len(t.rows) = Len(p.rows)
  /\ \A i \in DOMAIN p.rows : t.rows[i].entry = p.rows[i].entry

\* Rows count from 0; the map is built anew only when rows or columns are others.
SetProjection(p) ==
  [rows |-> p.rows, tiers |-> p.tiers,
   rowOf |-> IF SameShape(table, p) THEN table.rowOf
             ELSE [e \in {p.rows[i].entry : i \in DOMAIN p.rows} |->
                     (CHOOSE i \in DOMAIN p.rows : p.rows[i].entry = e) - 1]]

RowFor(id) == IF id \in DOMAIN table.rowOf THEN table.rowOf[id] ELSE -1

\* The rows after start, up to end, that are in no subcategory come first: where they stop.
DirectEnd(rows, start, end) ==
  CHOOSE n \in start..end :
    /\ \A m \in (start + 1)..n : rows[m].sub = NoGroup
    /\ n < end => rows[n + 1].sub # NoGroup

\* What the row offers for moving: its place in the list that holds it.
RowInfo(t, i) ==
  LET row == t.rows[i]
      end == Min({row.start + row.length, Len(t.rows)})
  IN IF row.sub # NoGroup THEN [position |-> i - 1 - row.subStart, size |-> row.subLength]
     ELSE [position |-> i - 1 - row.start, size |-> DirectEnd(t.rows, row.start, end) - row.start]
-----------------------------------------------------------------------------
(* Selection and focus.                                                    *)

\* Ids that are gone leave the selection; a lost focus falls back to the row now at that place, a
\* lost tier to the scenario column.
Restored(b, ids, at, fallback) ==
  LET order == VisibleOrder(b)
      near == Min({Max({fallback, 0}), Len(order) - 1})
      onRow == IF order = <<>> THEN NoCell
               ELSE IF at.entry = 0 \/ at.entry \in EntryIds(b) THEN at
               ELSE [at EXCEPT !.entry = order[near + 1].id]
  IN [selected |-> ids \cap EntryIds(b),
      cell |-> IF onRow.tier = 0 \/ onRow.tier \in TierIds(b) THEN onRow
               ELSE [onRow EXCEPT !.tier = 0, !.column = "scenario"]]

Select ==
  /\ draft # None /\ clicks < MaxClicks
  /\ \E ids \in kSubset(MaxSelected, EntryIds(draft)) : ids # selected /\ selected' = ids
  /\ clicks' = clicks + 1
  /\ UNCHANGED <<draft, baseline, inputs, history, cell, dirty, issues, table, known, edits>>

\* The table gives the anchor of the cell that is focused.
Anchors ==
  {NoCell}
  \cup {[entry |-> table.rows[i].entry, tier |-> 0, column |-> "scenario"] : i \in DOMAIN table.rows}
  \cup {[entry |-> table.rows[i].entry, tier |-> t, column |-> "threshold"] :
          i \in DOMAIN table.rows, t \in ToSet(table.tiers)}

Focus ==
  /\ draft # None /\ clicks < MaxClicks
  /\ \E at \in Anchors : at # cell /\ cell' = at
  /\ clicks' = clicks + 1
  /\ UNCHANGED <<draft, baseline, inputs, history, selected, dirty, issues, table, known, edits>>
-----------------------------------------------------------------------------
(* The edit session.                                                       *)

Pruned(b, in) ==
  LET kept == {k \in DOMAIN in : k[1] \in EntryIds(b) /\ k[2] \in TierIds(b)}
  IN [k \in kept |-> in[k]]

\* The row that had the focus is looked up in the table as it was before the change.
Recompute(b, base, in, ids, at) ==
  LET focus == Restored(b, ids, at, RowFor(at.entry))
      kept == Pruned(b, in)
      found == ValidateBenchmark(b)
  IN /\ draft' = b /\ baseline' = base /\ inputs' = kept
     /\ selected' = focus.selected /\ cell' = focus.cell
     /\ issues' = found
     /\ dirty' = (base = None \/ b # base \/ kept # NoInputs)
     /\ table' = SetProjection(Projection(b, found, kept, known))

\* An edit that changes nothing is no step of the history.
Commit(b, in) ==
  /\ edits < MaxEdits /\ AllIds(b) \subseteq 1..MaxId
  /\ b # draft \/ in # inputs
  /\ history' = Append(history, [draft |-> draft, inputs |-> inputs, selected |-> selected, cell |-> cell])
  /\ Recompute(b, baseline, in, selected, cell)
  /\ edits' = edits + 1
  /\ UNCHANGED <<known, clicks>>

MayEdit == draft # None /\ edits < MaxEdits
Edit(results) == MayEdit /\ \E b \in results : Commit(b, inputs)

Undo ==
  /\ draft # None /\ history # <<>>
  /\ LET previous == history[Len(history)]
         anchor == IF previous.cell = NoCell THEN cell ELSE previous.cell
         focus == Restored(previous.draft, previous.selected, anchor, RowFor(anchor.entry))
     IN Recompute(previous.draft, baseline, previous.inputs, focus.selected, focus.cell)
  /\ history' = SubSeq(history, 1, Len(history) - 1)
  /\ UNCHANGED <<known, edits, clicks>>

\* Unsaved work is saved or discarded first: the window asks before it opens another draft.
Adopt(b, base) ==
  /\ ~dirty
  /\ draft' = b /\ baseline' = base /\ dirty' = (base = None)
  /\ inputs' = NoInputs /\ history' = <<>> /\ selected' = {} /\ cell' = NoCell
  /\ issues' = ValidateBenchmark(b)
  /\ table' = SetProjection(Projection(b, ValidateBenchmark(b), NoInputs, known))
  /\ edits' = 0 /\ clicks' = 0
  /\ UNCHANGED known

OpenBenchmark == \E b \in Seeds : Adopt(b, b)

Empty(name, entries) == [name |-> name, tiers |-> <<>>, uncategorized |-> entries, categories |-> <<>>]
BeginNewBenchmark == Adopt(Empty(Blank, <<>>), None)
ImportPlaylist ==
  \E p \in Playlists :
    Adopt(Empty(p.name, [i \in DOMAIN p.scenarios |-> NewEntry(i, p.scenarios[i], <<>>)]), None)

Discard ==
  /\ draft # None
  /\ draft' = None /\ baseline' = None /\ dirty' = FALSE
  /\ inputs' = NoInputs /\ history' = <<>> /\ selected' = {} /\ cell' = NoCell
  /\ issues' = {} /\ table' = NoTable /\ edits' = 0 /\ clicks' = 0
  /\ UNCHANGED known

\* Retained text is saved as a missing threshold.
Normalized ==
  MapEntries(draft, LAMBDA e :
    [e EXCEPT !.thresholds = At(@, {i \in DOMAIN @ : <<e.id, @[i].tier>> \notin DOMAIN inputs})])

\* Mutant: the steps before a save can still be undone.
Save_History ==
  /\ draft # None /\ draft.name # Blank
  /\ LET candidate == AutoMapped(known, Normalized)
     IN Recompute(candidate, candidate, NoInputs, selected, cell)
  /\ UNCHANGED <<history, known, edits, clicks>>

Save ==
  /\ draft # None /\ draft.name # Blank
  /\ LET candidate == AutoMapped(known, Normalized)
     IN Recompute(candidate, candidate, NoInputs, selected, cell)
  /\ history' = <<>>
  /\ UNCHANGED <<known, edits, clicks>>

\* What the profile or the library knows changed: the open draft is resolved again.
Publication ==
  /\ clicks < MaxClicks
  /\ \E k \in Catalogues \cup {NothingKnown} : k # known /\ known' = k
  /\ clicks' = clicks + 1
  /\ table' = IF draft = None THEN table ELSE SetProjection(Projection(draft, issues, inputs, known'))
  /\ UNCHANGED <<draft, baseline, inputs, history, selected, cell, dirty, issues, edits>>
-----------------------------------------------------------------------------
(* What is typed or pasted into cells.                                     *)

\* Mutant: a score that is typed leaves the text that was there.
Typing_Kept(s, key, text) ==
  IF text \in DOMAIN ScoreOf
  THEN {[s EXCEPT !.draft = b] : b \in SetThreshold(s.draft, key[1], key[2], ScoreOf[text])}
  ELSE {[draft |-> b, inputs |-> IF text = Blank THEN [k \in DOMAIN s.inputs \ {key} |-> s.inputs[k]]
                                 ELSE (key :> text) @@ s.inputs] :
          b \in ClearThreshold(s.draft, key[1], key[2])}

\* A score becomes typed, blank clears, anything else is kept as text with no score.
Typing(s, key, text) ==
  LET edited == IF text \in DOMAIN ScoreOf
                THEN SetThreshold(s.draft, key[1], key[2], ScoreOf[text])
                ELSE ClearThreshold(s.draft, key[1], key[2])
      cells == IF text = Blank \/ text \in DOMAIN ScoreOf THEN DOMAIN s.inputs \ {key}
               ELSE DOMAIN s.inputs \cup {key}
  IN {[draft |-> b, inputs |-> [k \in cells |-> IF k = key THEN text ELSE s.inputs[k]]] : b \in edited}

Session == [draft |-> draft, inputs |-> inputs]

EditThresholdText ==
  /\ MayEdit
  /\ \E key \in EntryIds(draft) \X TierIds(draft), text \in Texts :
       \E s \in Typing(Session, key, text) : Commit(s.draft, s.inputs)

\* The fields of a text as texts of cells.
Text(field) == FoldLeft(LAMBDA was, piece : was \o piece, Blank, field)
Matrix(clip) ==
  LET rows == ParseClipboard(clip)
  IN [r \in DOMAIN rows |-> [c \in DOMAIN rows[r] |-> Text(rows[r][c])]]

\* An empty text is pasted by doing nothing.
Matrices == {Matrix(clip) : clip \in Clips} \ {<<>>}

\* A clip is a sequence of pieces, and what its fields hold are texts.
ASSUME ClipsAssumption ==
  /\ \A clip \in Clips : IsArray(clip)
  /\ \A matrix \in Matrices : \A row \in ToSet(matrix) : \A text \in ToSet(row) : IsExpected(text)

\* One field: the text of a cell, or without a tier the name of the row.
WriteField(was, f) ==
  IF f.tier = 0 THEN [draft |-> CHOOSE b \in RenameScenario(was.draft, f.entry, f.text) : TRUE, inputs |-> was.inputs]
  ELSE CHOOSE w \in Typing(was, <<f.entry, f.tier>>, f.text) : TRUE

\* The fields are written one after the other.
WriteFields(s, fields) ==
  LET after[k \in 0..Len(fields)] == IF k = 0 THEN s ELSE WriteField(after[k - 1], fields[k])
  IN after[Len(fields)]

\* Where the fields of a matrix go, names into the scenario column.
Fields(rows, tiers, startRow, startTier, namesFirst, matrix) ==
  LET tier(c) == IF ~namesFirst THEN tiers[startTier + c - 1]
                 ELSE IF c = 1 THEN 0 ELSE tiers[startTier + c - 2]
  IN FlattenSeq([r \in DOMAIN matrix |->
       [c \in DOMAIN matrix[r] |-> [entry |-> rows[startRow + r - 1], tier |-> tier(c), text |-> matrix[r][c]]]])

\* Rows and tiers that are not there are created, unnamed.
PasteRows(startRow, startTier, namesFirst, matrix) ==
  LET order == VisibleOrder(draft)
      width == Width(matrix) - (IF namesFirst THEN 1 ELSE 0)
      missingRows == Max({0, startRow - 1 + Len(matrix) - Len(order)})
      missingTiers == Max({0, startTier - 1 + width - Len(draft.tiers)})
      new == FreshIds(missingRows + missingTiers)
      newRows == SubSeq(new, 1, missingRows)
      newTiers == SubSeq(new, missingRows + 1, missingRows + missingTiers)
      grown == [AppendUnnamedScenarios(draft, newRows) EXCEPT
                  !.tiers = @ \o [i \in DOMAIN newTiers |-> [id |-> newTiers[i], name |-> Blank]]]
  IN WriteFields([draft |-> grown, inputs |-> inputs],
                 Fields([i \in DOMAIN order |-> order[i].id] \o newRows,
                        [i \in DOMAIN grown.tiers |-> grown.tiers[i].id], startRow, startTier, namesFirst, matrix))

PasteText ==
  /\ MayEdit
  /\ \E matrix \in Matrices :
       \/ \E row \in 1..(Len(VisibleOrder(draft)) + 1) :
            LET s == PasteRows(row, 1, TRUE, matrix) IN Commit(s.draft, s.inputs)
       \/ \E row \in DOMAIN VisibleOrder(draft), tier \in DOMAIN draft.tiers :
            LET s == PasteRows(row, tier, FALSE, matrix) IN Commit(s.draft, s.inputs)

\* One row of names goes into the header.
PasteHeader ==
  /\ MayEdit
  /\ \E matrix \in Matrices, start \in 1..(Len(draft.tiers) + 1) :
       LET names == matrix[1]
           missing == Max({0, start - 1 + Len(names) - Len(draft.tiers)})
           new == FreshIds(missing)
           grown == draft.tiers \o [i \in 1..missing |-> [id |-> new[i], name |-> Blank]]
       IN /\ Len(matrix) = 1
          /\ Commit([draft EXCEPT !.tiers = [i \in DOMAIN grown |->
                        IF i \in start..(start + Len(names) - 1)
                        THEN [grown[i] EXCEPT !.name = names[i - start + 1]] ELSE grown[i]]], inputs)
-----------------------------------------------------------------------------
(* The operations the window offers on an open draft.                      *)

Tiers == IF MayEdit THEN TierIds(draft) ELSE {}
Rows == IF MayEdit THEN EntryIds(draft) ELSE {}
Categories == IF MayEdit THEN CategoryIds(draft) ELSE {}
Subcategories == IF MayEdit THEN SubIds(draft) ELSE {}
Positions == 0..MaxId
KnownHashes == UNION {known[n] : n \in DOMAIN known}

SetBenchmarkName == \E name \in NewNames : Edit(RenameBenchmark(draft, name))

DoAddTier == \E name \in NewNames : Edit(AddTier(draft, Fresh, name))
DoRenameTier == \E id \in Tiers, name \in Names : Edit(RenameTier(draft, id, name))
DoReorderTier == \E id \in Tiers, position \in Positions : Edit(ReorderTier(draft, id, position))
DoRemoveTier == \E id \in Tiers : Edit(RemoveTier(draft, id))

AddUnplayedScenario == \E name \in NewNames : Edit(AddScenario(draft, Fresh, name, <<>>))
AddKnownScenario ==
  \E name \in DOMAIN known : \E h \in known[name] : Edit(AddScenario(draft, Fresh, name, <<h>>))
DoRenameScenario == \E id \in Rows, name \in Names : Edit(RenameScenario(draft, id, name))
SetScenarioIdentity ==
  \E id \in Rows, name \in DOMAIN known : \E h \in known[name] :
    Edit(UNION {SetScenarioHashes(b, id, <<h>>) : b \in RenameScenario(draft, id, name)})
DoSetScenarioHashes ==
  \E id \in Rows, hashes \in SUBSET KnownHashes : Edit(SetScenarioHashes(draft, id, SetToSeq(hashes)))
DoRemoveScenarios == \E ids \in {selected} \cup {{id} : id \in Rows} : Edit(RemoveScenarios(draft, ids))

DoAddCategory == \E name \in NewNames : Edit(AddCategory(draft, Fresh, name))
DoRenameGroup ==
  \E id \in Categories \cup Subcategories, name \in Names : Edit(RenameGroup(draft, id, name))
DoReorderCategory == \E id \in Categories, position \in Positions : Edit(ReorderCategory(draft, id, position))
DoRemoveCategory == \E id \in Categories \cup Subcategories : Edit(RemoveCategory(draft, id))
DoAddSubcategory == \E id \in Categories, name \in NewNames : Edit(AddSubcategory(draft, id, Fresh, name))
AddSubcategoryMovingScenarios ==
  \E id \in Categories, name \in NewNames, intoNew \in BOOLEAN :
    Edit(AddSubcategoryRelocating(draft, id, Fresh, name, intoNew))
DoReorderSubcategory ==
  \E id \in Subcategories, position \in Positions : Edit(ReorderSubcategory(draft, id, position))

\* The rows go in the order in which they are seen.
Assign ==
  \E ids \in {selected} \cup {{id} : id \in Rows},
     group \in {NoGroup} \cup Categories \cup Subcategories, before \in {NoGroup} \cup Rows :
    Edit(AssignScenarios(draft,
           LET rows == [i \in DOMAIN VisibleOrder(draft) |-> VisibleOrder(draft)[i].id]
           IN At(rows, {i \in DOMAIN rows : rows[i] \in ids}), group, before))
DoReorderScenario == \E id \in Rows, position \in Positions : Edit(ReorderScenario(draft, id, position))

EditTiers == DoAddTier \/ DoRenameTier \/ DoReorderTier \/ DoRemoveTier
EditScenarios == \/ AddUnplayedScenario \/ AddKnownScenario \/ DoRenameScenario \/ SetScenarioIdentity
                 \/ DoSetScenarioHashes \/ DoRemoveScenarios
EditGroups == \/ DoAddCategory \/ DoRenameGroup \/ DoReorderCategory \/ DoRemoveCategory
              \/ DoAddSubcategory \/ AddSubcategoryMovingScenarios \/ DoReorderSubcategory
              \/ Assign \/ DoReorderScenario
EditCells == EditThresholdText \/ PasteText \/ PasteHeader

Init ==
  /\ draft = None /\ baseline = None /\ inputs = NoInputs /\ history = <<>>
  /\ selected = {} /\ cell = NoCell /\ dirty = FALSE /\ issues = {} /\ table = NoTable
  /\ known = NothingKnown /\ edits = 0 /\ clicks = 0

Next ==
  \/ OpenBenchmark \/ BeginNewBenchmark \/ ImportPlaylist \/ Discard
  \/ SetBenchmarkName \/ EditTiers \/ EditScenarios \/ EditGroups \/ EditCells
  \/ Select \/ Focus \/ Undo \/ Save \/ Publication

Spec == Init /\ [][Next]_vars
-----------------------------------------------------------------------------
(* Properties.                                                             *)

Remembered == {[draft |-> draft, inputs |-> inputs]}
                \cup {[draft |-> history[i].draft, inputs |-> history[i].inputs] : i \in DOMAIN history}

\* A text that is retained, with the draft or with a step undo can go back to, belongs to a cell
\* that exists there (benchmark_manager_vm.cpp, pruneCellInputs).
RetainedPlaced ==
  \A s \in Remembered : \A key \in DOMAIN s.inputs :
    key[1] \in EntryIds(s.draft) /\ key[2] \in TierIds(s.draft)

\* Whatever is edited, undone or pasted, the draft, every step undo can go back to and the baseline
\* are benchmarks that a file gives back as they were (benchmark_store.cpp:152: no id twice, no
\* threshold of a tier that is not there, no score that JSON has no form for), and a text retained
\* with one of them belongs to a cell that exists there and has no score typed.
RememberedSound ==
  draft # None =>
    /\ \A b \in ({s.draft : s \in Remembered} \cup {baseline}) \ {None} : ClassifyBytes(Encode(b)).loaded = {b}
    /\ RetainedPlaced
    /\ \A s \in Remembered : \A key \in DOMAIN s.inputs : ~HasThreshold(EntryOf(s.draft, key[1]), key[2])

\* Undoing everything leads back to what was opened or last saved, with no retained text; and the
\* draft is clean exactly when it is that.
UndoLeadsBack ==
  /\ draft # None => dirty = (baseline = None \/ draft # baseline \/ inputs # NoInputs)
  /\ baseline # None =>
       LET first == IF history = <<>> THEN [draft |-> draft, inputs |-> inputs]
                    ELSE [draft |-> history[1].draft, inputs |-> history[1].inputs]
       IN first = [draft |-> baseline, inputs |-> NoInputs]

\* Where the entries are: for each list its group and the ids in it.
Arrangement(b, ids) ==
  [l \in DOMAIN Lists(b) |->
     LET kept == SelectSeq(Lists(b)[l].scenarios, LAMBDA e : e.id \in ids)
     IN <<Lists(b)[l].group, [i \in DOMAIN kept |-> kept[i].id]>>]
Common == EntryIds(draft) \cap EntryIds(draft')

\* What saving may make of an entry: one without a hash gets one, and with it the name under which
\* the profile knows that hash, another spelling of its own; all else about it stays.
LinkedTo(e, f) ==
  /\ e.hashes = <<>>
  /\ \E n \in DOMAIN known : \E h \in known[n] :
       NameKey(n) = NameKey(e.name) /\ f = [e EXCEPT !.hashes = <<h>>, !.name = n]

\* An edit that loses entries removes them and does nothing else; one that moves entries, alone or
\* with their group, changes nothing in any of them; and saving changes only entries that had no
\* hash, and in them only what a mapping brings along, and gives none a hash another entry has.
WorkKept ==
  [][/\ Len(history') > Len(history) =>
          LET lost == EntryIds(draft) \ EntryIds(draft')
          IN /\ lost # {} => draft' = Detached(draft, lost)
             /\ Arrangement(draft, Common) # Arrangement(draft', Common) =>
                  \A id \in Common : EntryOf(draft', id) = EntryOf(draft, id)
     /\ draft # None /\ baseline' # baseline /\ edits' > 0 =>
          LET changed == {id \in EntryIds(draft) : EntryOf(draft', id) # EntryOf(draft, id)}
          IN /\ draft = MapEntries(draft', LAMBDA e : EntryOf(draft, e.id))
             /\ \A id \in changed : LinkedTo(EntryOf(draft, id), EntryOf(draft', id))
             /\ \A id \in changed : \A other \in EntryIds(draft) \ {id} :
                  ToSet(EntryOf(draft', other).hashes) \cap ToSet(EntryOf(draft', id).hashes) = {}
  ]_vars

\* What is kept beside the draft is what the draft, the retained text and the profile give now, and
\* not what an earlier one gave: the issues, the rows of the table and its columns; and the selection
\* and the focused tier exist (benchmark_manager_vm.cpp, recomputeAfterLocalEdit).
CachesCurrent ==
  draft # None =>
    LET now == Projection(draft, ValidateBenchmark(draft), inputs, known)
    IN /\ issues = ValidateBenchmark(draft)
       /\ table.rows = now.rows /\ table.tiers = now.tiers
       /\ selected \subseteq EntryIds(draft) /\ cell.tier \in TierIds(draft) \cup {0}

\* The table shows the draft: a row for every entry in view order, at the place the map gives, with
\* the place it has in its own list, every cell with its score, its retained text or the report that
\* it is missing; and the focus and the selection name rows and tiers that are there.
TableExact ==
  draft # None =>
    /\ CachesCurrent
    /\ [i \in DOMAIN table.rows |-> table.rows[i].entry]
         = [i \in DOMAIN VisibleOrder(draft) |-> VisibleOrder(draft)[i].id]
    /\ \A i \in DOMAIN table.rows :
         LET id == table.rows[i].entry
             home == HomeOf(draft, id)
         IN /\ RowFor(id) = i - 1
            /\ table.rows[i].category = home.category
            /\ RowInfo(table, i) = [position |-> PositionOf(home.scenarios, id) - 1, size |-> Len(home.scenarios)]
            /\ table.rows[i].mapping = Mapping(known, EntryOf(draft, id))
            /\ \A t \in DOMAIN table.tiers :
                 LET c == table.rows[i].cells[t]
                 IN ("MissingThreshold" \in c.issues) = (c.shown = <<"empty">>)
    /\ cell.entry \in EntryIds(draft) \cup {0}
=============================================================================
