------------------------- MODULE BenchmarkDraftProofs -------------------------
(***************************************************************************)
(* For any library, profile and bounds.  Undo leads back to what was       *)
(* opened or last saved, and the draft is clean exactly when it is that;   *)
(* what is kept beside the draft is never that of an earlier one: of these *)
(* the arguments do not look into the editing operations, for whatever an  *)
(* edit makes of the draft, the session commits it in one place.           *)
(*                                                                         *)
(* That every benchmark the session remembers is sound, and is read back   *)
(* from its file, rests on every operation: a benchmark is sound when no   *)
(* id is twice in its tree, when every score is of a tier that is there,   *)
(* and when no cell holds both a score and a retained text.                *)
(***************************************************************************)
EXTENDS BenchmarkDraft, SequenceTheorems, FiniteSetTheorems, NaturalsInduction, WellFoundedInduction, TLAPS

\* The history is a sequence, of whatever its steps are.
HistoryIsSequence == \E S : history \in Seq(S)

IInv == HistoryIsSequence /\ UndoLeadsBack

First == IF history = <<>> THEN [draft |-> draft, inputs |-> inputs]
         ELSE [draft |-> history[1].draft, inputs |-> history[1].inputs]

\* Where there is no retained text there is none to prune.
LEMMA NothingToPrune == ASSUME NEW b PROVE Pruned(b, NoInputs) = NoInputs
BY DEF Pruned, NoInputs

\* One more step leaves the first one where it is; the first step is the session before it.
LEMMA AppendKeepsFirst ==
  ASSUME NEW h, NEW x, \E S : h \in Seq(S)
  PROVE  /\ \E S : Append(h, x) \in Seq(S)
         /\ Append(h, x) # <<>>
         /\ Append(h, x)[1] = IF h = <<>> THEN x ELSE h[1]
<1>1. PICK S : h \in Seq(S)
  OBVIOUS
<1>2. h \in Seq(S \cup {x})
  BY <1>1
<1>3. Append(h, x) \in Seq(S \cup {x}) /\ Len(Append(h, x)) = Len(h) + 1
  BY <1>2
<1>4. Append(h, x)[1] = IF h = <<>> THEN x ELSE h[1]
  BY <1>2
<1>5. Len(h) \in Nat
  BY <1>1
<1>6. Append(h, x) # <<>>
  <2> SUFFICES ASSUME Append(h, x) = <<>> PROVE FALSE
    OBVIOUS
  <2> QED
    BY <1>3, <1>5
<1>7. \E T : Append(h, x) \in Seq(T)
  BY <1>3
<1> QED
  BY <1>4, <1>6, <1>7

\* Without its last step a history starts as before, or is empty.
LEMMA FrontKeepsFirst ==
  ASSUME NEW h, h # <<>>, \E S : h \in Seq(S)
  PROVE  LET front == SubSeq(h, 1, Len(h) - 1)
         IN /\ \E S : front \in Seq(S)
            /\ IF Len(h) = 1 THEN front = <<>> ELSE front # <<>> /\ front[1] = h[1]
<1>1. PICK S : h \in Seq(S)
  OBVIOUS
<1>2. Len(h) \in Nat \ {0}
  BY <1>1
<1> DEFINE front == SubSeq(h, 1, Len(h) - 1)
<1>3. /\ front \in Seq(S) /\ Len(front) = Len(h) - 1
      /\ \A i \in 1..(Len(h) - 1) : front[i] = h[i]
  <2>1. \A i \in 1..(Len(h) - 1) : h[i] \in S
    BY <1>1, <1>2
  <2>2. front = [i \in 1..(Len(h) - 1) |-> h[i]]
    BY <1>1, <1>2
  <2>3. front \in Seq(S)
    BY <1>2, <2>1, <2>2
  <2>4. Len(front) = Len(h) - 1
    <3>1. DOMAIN front = 1..(Len(h) - 1) /\ Len(h) - 1 \in Nat
      BY <1>2, <2>2
    <3>2. DOMAIN front = 1..Len(front) /\ Len(front) \in Nat
      BY <2>3
    <3> HIDE DEF front
    <3> QED
      BY <3>1, <3>2
  <2> QED
    BY <2>2, <2>3, <2>4
<1> HIDE DEF front
<1>4. \E T : front \in Seq(T)
  BY <1>3
<1>5. ASSUME Len(h) = 1 PROVE front = <<>>
  BY <1>3, <1>5
<1>6. ASSUME Len(h) # 1 PROVE front # <<>> /\ front[1] = h[1]
  BY <1>2, <1>3, <1>6
<1> QED
  BY <1>4, <1>5, <1>6 DEF front

\* A recomputed session is as dirty as it differs from its baseline.
LEMMA RecomputeDirty ==
  ASSUME NEW b, NEW base, NEW in, NEW ids, NEW at, Recompute(b, base, in, ids, at)
  PROVE  /\ draft' = b /\ baseline' = base /\ inputs' = Pruned(b, in)
         /\ dirty' = (baseline' = None \/ draft' # baseline' \/ inputs' # NoInputs)
BY DEF Recompute

LEMMA CommitKeeps == ASSUME NEW b, NEW in, IInv, Commit(b, in) PROVE IInv'
<1> DEFINE step == [draft |-> draft, inputs |-> inputs, selected |-> selected, cell |-> cell]
<1>1. /\ history' = Append(history, step)
      /\ Recompute(b, baseline, in, selected, cell)
  BY DEF Commit
<1>2. /\ baseline' = baseline
      /\ dirty' = (baseline' = None \/ draft' # baseline' \/ inputs' # NoInputs)
  BY <1>1, RecomputeDirty
<1>3. /\ HistoryIsSequence'
      /\ history' # <<>> /\ history'[1] = IF history = <<>> THEN step ELSE history[1]
  BY <1>1, AppendKeepsFirst DEF IInv, HistoryIsSequence
<1>4. step.draft = draft /\ step.inputs = inputs
  OBVIOUS
<1> HIDE DEF step
<1>5. First' = First
  BY <1>3, <1>4 DEF First
<1>6. ASSUME baseline' # None PROVE First' = [draft |-> baseline', inputs |-> NoInputs]
  BY <1>2, <1>5, <1>6 DEF IInv, UndoLeadsBack, First
<1> QED
  BY <1>2, <1>3, <1>6 DEF IInv, UndoLeadsBack, First

LEMMA UndoKeeps == ASSUME IInv, Undo PROVE IInv'
<1> DEFINE previous == history[Len(history)]
           anchor == IF previous.cell = NoCell THEN cell ELSE previous.cell
           focus == Restored(previous.draft, previous.selected, anchor, RowFor(anchor.entry))
<1>1. /\ history # <<>>
      /\ Recompute(previous.draft, baseline, previous.inputs, focus.selected, focus.cell)
      /\ history' = SubSeq(history, 1, Len(history) - 1)
  BY DEF Undo
<1>2. /\ draft' = previous.draft /\ inputs' = Pruned(previous.draft, previous.inputs)
      /\ baseline' = baseline
      /\ dirty' = (baseline' = None \/ draft' # baseline' \/ inputs' # NoInputs)
  BY <1>1, RecomputeDirty
<1>3. /\ HistoryIsSequence'
      /\ IF Len(history) = 1 THEN history' = <<>> ELSE history' # <<>> /\ history'[1] = history[1]
  BY <1>1, FrontKeepsFirst DEF IInv, HistoryIsSequence
<1>4. ASSUME baseline' # None PROVE First' = [draft |-> baseline', inputs |-> NoInputs]
  <2>1. /\ [draft |-> history[1].draft, inputs |-> history[1].inputs]
             = [draft |-> baseline, inputs |-> NoInputs]
    BY <1>1, <1>2, <1>4 DEF IInv, UndoLeadsBack
  <2>2. history[1].draft = baseline /\ history[1].inputs = NoInputs
    BY <2>1
  <2>3. CASE Len(history) = 1
    BY <1>2, <2>2, <2>3, NothingToPrune, <1>3 DEF First
  <2>4. CASE Len(history) # 1
    BY <1>2, <1>3, <2>2, <2>4 DEF First
  <2> QED
    BY <2>3, <2>4
<1> QED
  BY <1>2, <1>3, <1>4 DEF IInv, UndoLeadsBack, First

LEMMA AdoptKeeps == ASSUME NEW b, NEW base, base = None \/ base = b, Adopt(b, base) PROVE IInv'
<1>1. /\ draft' = b /\ baseline' = base /\ inputs' = NoInputs /\ history' = <<>>
      /\ dirty' = (base = None)
  BY DEF Adopt
<1>2. HistoryIsSequence'
  BY <1>1 DEF HistoryIsSequence
<1> QED
  BY <1>1, <1>2 DEF IInv, UndoLeadsBack

LEMMA SaveKeeps == ASSUME Save PROVE IInv'
<1> DEFINE candidate == AutoMapped(known, Normalized)
<1>1. Recompute(candidate, candidate, NoInputs, selected, cell) /\ history' = <<>>
  BY DEF Save
<1> HIDE DEF candidate
<1>2. /\ draft' = candidate /\ baseline' = candidate /\ inputs' = NoInputs
      /\ dirty' = (baseline' = None \/ draft' # baseline' \/ inputs' # NoInputs)
  BY <1>1, RecomputeDirty, NothingToPrune
<1>3. HistoryIsSequence'
  BY <1>1 DEF HistoryIsSequence
<1> QED
  BY <1>1, <1>2, <1>3 DEF IInv, UndoLeadsBack

\* What does not touch draft, baseline, retained text, history and dirtiness keeps all of it.
LEMMA OthersKeep ==
  ASSUME IInv, UNCHANGED <<draft, baseline, inputs, history, dirty>>
  PROVE  IInv'
BY DEF IInv, HistoryIsSequence, UndoLeadsBack

LEMMA EditKeeps == ASSUME NEW results, IInv, Edit(results) PROVE IInv'
BY CommitKeeps DEF Edit, MayEdit

LEMMA Initially == Init => IInv
<1> SUFFICES ASSUME Init PROVE IInv
  OBVIOUS
<1>1. HistoryIsSequence
  BY DEF Init, HistoryIsSequence
<1> QED
  BY <1>1 DEF Init, IInv, UndoLeadsBack

LEMMA Inductive == IInv /\ [Next]_vars => IInv'
<1> SUFFICES ASSUME IInv, [Next]_vars PROVE IInv'
  OBVIOUS
<1>1. CASE OpenBenchmark
  BY <1>1, AdoptKeeps DEF OpenBenchmark
<1>2. CASE BeginNewBenchmark
  BY <1>2, AdoptKeeps DEF BeginNewBenchmark
<1>3. CASE ImportPlaylist
  BY <1>3, AdoptKeeps DEF ImportPlaylist
<1>4. CASE Discard
  BY <1>4 DEF Discard, IInv, HistoryIsSequence, UndoLeadsBack
<1>5. CASE SetBenchmarkName
  BY <1>5, EditKeeps DEF SetBenchmarkName
<1>6. CASE EditTiers
  BY <1>6, EditKeeps DEF EditTiers, DoAddTier, DoRenameTier, DoReorderTier, DoRemoveTier
<1>7. CASE EditScenarios
  BY <1>7, EditKeeps
  DEF EditScenarios, AddUnplayedScenario, AddKnownScenario, DoRenameScenario, SetScenarioIdentity,
      DoSetScenarioHashes, DoRemoveScenarios
<1>8. CASE EditGroups
  BY <1>8, EditKeeps
  DEF EditGroups, DoAddCategory, DoRenameGroup, DoReorderCategory, DoRemoveCategory, DoAddSubcategory,
      AddSubcategoryMovingScenarios, DoReorderSubcategory, Assign, DoReorderScenario
<1>9. CASE EditCells
  <2>1. CASE EditThresholdText
    BY <2>1, CommitKeeps DEF EditThresholdText, MayEdit
  <2>2. CASE PasteText
    BY <2>2, CommitKeeps DEF PasteText, MayEdit
  <2>3. CASE PasteHeader
    BY <2>3, CommitKeeps DEF PasteHeader, MayEdit
  <2> QED
    BY <1>9, <2>1, <2>2, <2>3 DEF EditCells
<1>10. CASE Select \/ Focus \/ Publication
  BY <1>10, OthersKeep DEF Select, Focus, Publication
<1>11. CASE Undo
  BY <1>11, UndoKeeps
<1>12. CASE Save
  BY <1>12, SaveKeeps
<1>13. CASE UNCHANGED vars
  BY <1>13, OthersKeep DEF vars
<1> QED
  BY <1>1, <1>2, <1>3, <1>4, <1>5, <1>6, <1>7, <1>8, <1>9, <1>10, <1>11, <1>12, <1>13 DEF Next

\* Undoing everything leads back to what was opened or last saved, with no retained text, and the
\* draft is clean exactly when it is that (benchmark_manager_vm: applySessionEdit, undo, save,
\* adoptSeed and the dirty flag of recomputeAfterLocalEdit).
THEOREM UndoLeadsBackAlways == Spec => []UndoLeadsBack
<1>1. IInv => UndoLeadsBack
  BY DEF IInv
<1> QED
  BY Initially, Inductive, <1>1, PTL DEF Spec

-----------------------------------------------------------------------------
(* Retained text.                                                           *)

Placed(b, in) == \A key \in DOMAIN in : key[1] \in EntryIds(b) /\ key[2] \in TierIds(b)

LEMMA NothingMisplaced == ASSUME NEW b PROVE Placed(b, NoInputs)
BY DEF Placed, NoInputs

LEMMA PrunedPlaced == ASSUME NEW b, NEW in PROVE Placed(b, Pruned(b, in))
BY DEF Placed, Pruned

LEMMA RetainedParts ==
  RetainedPlaced <=> /\ Placed(draft, inputs)
                     /\ \A i \in DOMAIN history : Placed(history[i].draft, history[i].inputs)
<1>1. RetainedPlaced <=> \A s \in Remembered : Placed(s.draft, s.inputs)
  BY DEF RetainedPlaced, Placed
<1> DEFINE Step(i) == [draft |-> history[i].draft, inputs |-> history[i].inputs]
<1>2. /\ [draft |-> draft, inputs |-> inputs].draft = draft
      /\ [draft |-> draft, inputs |-> inputs].inputs = inputs
      /\ \A i : Step(i).draft = history[i].draft /\ Step(i).inputs = history[i].inputs
  OBVIOUS
<1>3. \A s : s \in Remembered <=> \/ s = [draft |-> draft, inputs |-> inputs]
                                 \/ \E i \in DOMAIN history : s = Step(i)
  BY Zenon DEF Remembered
<1> HIDE DEF Step
<1>4. /\ (\A s \in Remembered : Placed(s.draft, s.inputs))
          => /\ Placed([draft |-> draft, inputs |-> inputs].draft, [draft |-> draft, inputs |-> inputs].inputs)
             /\ \A i \in DOMAIN history : Placed(Step(i).draft, Step(i).inputs)
      /\ \A s \in Remembered : s = [draft |-> draft, inputs |-> inputs] \/ \E i \in DOMAIN history : s = Step(i)
  BY <1>3, Zenon
<1> QED
  BY <1>1, <1>2, <1>4, Zenon

\* What is appended to a history is its new last step; the others are as before.
LEMMA AppendSteps ==
  ASSUME NEW h, NEW x, \E S : h \in Seq(S)
  PROVE  /\ \E S : Append(h, x) \in Seq(S)
         /\ \A i \in DOMAIN Append(h, x) :
              Append(h, x)[i] = x \/ (i \in DOMAIN h /\ Append(h, x)[i] = h[i])
<1>1. PICK S : h \in Seq(S)
  OBVIOUS
<1>2. h \in Seq(S \cup {x})
  BY <1>1
<1> QED
  BY <1>2

\* Without its last step a history has the others as they were.
LEMMA FrontSteps ==
  ASSUME NEW h, h # <<>>, \E S : h \in Seq(S)
  PROVE  /\ Len(h) \in DOMAIN h
         /\ \E S : SubSeq(h, 1, Len(h) - 1) \in Seq(S)
         /\ \A i \in DOMAIN SubSeq(h, 1, Len(h) - 1) :
              i \in DOMAIN h /\ SubSeq(h, 1, Len(h) - 1)[i] = h[i]
<1>1. PICK S : h \in Seq(S)
  OBVIOUS
<1>2. Len(h) \in Nat \ {0} /\ DOMAIN h = 1..Len(h)
  BY <1>1
<1>3. \A i \in 1..(Len(h) - 1) : h[i] \in S
  BY <1>1, <1>2
<1>4. SubSeq(h, 1, Len(h) - 1) = [i \in 1..(Len(h) - 1) |-> h[i]]
  BY <1>1, <1>2
<1>5. SubSeq(h, 1, Len(h) - 1) \in Seq(S)
  BY <1>2, <1>3, <1>4
<1> QED
  BY <1>2, <1>4, <1>5

LEMMA CommitPlaced ==
  ASSUME NEW b, NEW in, HistoryIsSequence, RetainedPlaced, Commit(b, in)
  PROVE  RetainedPlaced'
<1> DEFINE step == [draft |-> draft, inputs |-> inputs, selected |-> selected, cell |-> cell]
<1>1. /\ history' = Append(history, step)
      /\ draft' = b /\ inputs' = Pruned(b, in)
  BY RecomputeDirty DEF Commit
<1>2. Placed(draft', inputs')
  BY <1>1, PrunedPlaced
<1>3. /\ Placed(draft, inputs)
      /\ \A i \in DOMAIN history : Placed(history[i].draft, history[i].inputs)
  BY RetainedParts
<1>4. step.draft = draft /\ step.inputs = inputs
  OBVIOUS
<1> HIDE DEF step
<1>5. \A i \in DOMAIN history' : history'[i] = step \/ (i \in DOMAIN history /\ history'[i] = history[i])
  BY <1>1, AppendSteps DEF HistoryIsSequence
<1>6. \A i \in DOMAIN history' : Placed(history'[i].draft, history'[i].inputs)
  BY <1>3, <1>4, <1>5
<1> QED
  BY <1>2, <1>6 DEF RetainedPlaced, Remembered, Placed

LEMMA UndoPlaced == ASSUME HistoryIsSequence, RetainedPlaced, Undo PROVE RetainedPlaced'
<1> DEFINE previous == history[Len(history)]
<1>1. /\ history # <<>> /\ history' = SubSeq(history, 1, Len(history) - 1)
      /\ draft' = previous.draft /\ inputs' = Pruned(previous.draft, previous.inputs)
  BY RecomputeDirty DEF Undo
<1>2. Placed(draft', inputs')
  BY <1>1, PrunedPlaced
<1>3. \A i \in DOMAIN history' : i \in DOMAIN history /\ history'[i] = history[i]
  BY <1>1, FrontSteps DEF HistoryIsSequence
<1>4. \A i \in DOMAIN history' : Placed(history'[i].draft, history'[i].inputs)
  BY <1>3, RetainedParts
<1> QED
  BY <1>2, <1>4 DEF RetainedPlaced, Remembered, Placed

\* A session that begins, ends or was saved has no retained text.
LEMMA FreshPlaced == ASSUME inputs' = NoInputs, history' = <<>> PROVE RetainedPlaced'
BY NothingMisplaced DEF RetainedPlaced, Remembered, Placed

-----------------------------------------------------------------------------
(* What is kept beside the draft.                                           *)

LEMMA RestoredExists ==
  ASSUME NEW b, NEW ids, NEW at, NEW fallback
  PROVE  LET focus == Restored(b, ids, at, fallback)
         IN focus.selected \subseteq EntryIds(b) /\ focus.cell.tier \in TierIds(b) \cup {0}
<1> DEFINE order == VisibleOrder(b)
           near == Min({Max({fallback, 0}), Len(order) - 1})
           onRow == IF order = <<>> THEN NoCell
                    ELSE IF at.entry = 0 \/ at.entry \in EntryIds(b) THEN at
                    ELSE [at EXCEPT !.entry = order[near + 1].id]
           focused == IF onRow.tier = 0 \/ onRow.tier \in TierIds(b) THEN onRow
                      ELSE [onRow EXCEPT !.tier = 0, !.column = "scenario"]
<1>1. Restored(b, ids, at, fallback) = [selected |-> ids \cap EntryIds(b), cell |-> focused]
  BY DEF Restored
<1> HIDE DEF onRow
<1>2. focused.tier \in TierIds(b) \cup {0}
  OBVIOUS
<1> QED
  BY <1>1, <1>2

\* A recomputation makes everything of the draft that is committed.
LEMMA RecomputeCurrent ==
  ASSUME NEW b, NEW base, NEW in, NEW ids, NEW at, Recompute(b, base, in, ids, at), known' = known
  PROVE  CachesCurrent'
<1> DEFINE focus == Restored(b, ids, at, RowFor(at.entry))
           kept == Pruned(b, in)
           now == Projection(b, ValidateBenchmark(b), kept, known)
<1>1. /\ draft' = b /\ inputs' = kept /\ issues' = ValidateBenchmark(b)
      /\ selected' = focus.selected /\ cell' = focus.cell
      /\ table' = SetProjection(now)
  BY DEF Recompute
<1>2. table'.rows = now.rows /\ table'.tiers = now.tiers
  BY <1>1 DEF SetProjection
<1>3. selected' \subseteq EntryIds(b) /\ cell'.tier \in TierIds(b) \cup {0}
  BY <1>1, RestoredExists
<1> QED
  BY <1>1, <1>2, <1>3 DEF CachesCurrent

LEMMA CommitCurrent == ASSUME NEW b, NEW in, Commit(b, in) PROVE CachesCurrent'
BY RecomputeCurrent DEF Commit

LEMMA UndoCurrent == ASSUME Undo PROVE CachesCurrent'
BY RecomputeCurrent DEF Undo

LEMMA SaveCurrent == ASSUME Save PROVE CachesCurrent'
BY RecomputeCurrent DEF Save

LEMMA AdoptCurrent == ASSUME NEW b, NEW base, Adopt(b, base) PROVE CachesCurrent'
<1> DEFINE now == Projection(b, ValidateBenchmark(b), NoInputs, known)
<1>1. /\ draft' = b /\ inputs' = NoInputs /\ issues' = ValidateBenchmark(b) /\ known' = known
      /\ selected' = {} /\ cell' = NoCell /\ table' = SetProjection(now)
  BY DEF Adopt
<1>2. table'.rows = now.rows /\ table'.tiers = now.tiers /\ cell'.tier = 0
  BY <1>1 DEF SetProjection, NoCell
<1> QED
  BY <1>1, <1>2 DEF CachesCurrent

\* The columns of the table are the tiers of the draft, so a focus comes from a tier that exists.
LEMMA FocusCurrent == ASSUME CachesCurrent, Focus PROVE CachesCurrent'
<1>1. /\ draft # None /\ cell' \in Anchors
      /\ UNCHANGED <<draft, inputs, selected, issues, table, known>>
  BY DEF Focus
<1>2. table.tiers = [t \in DOMAIN draft.tiers |-> draft.tiers[t].id]
  BY <1>1 DEF CachesCurrent, Projection
<1>3. ToSet(table.tiers) = TierIds(draft)
  BY <1>2 DEF ToSet, TierIds, IdsOf
<1>4. \A at \in Anchors : at.tier \in TierIds(draft) \cup {0}
  BY <1>3 DEF Anchors, NoCell
<1> QED
  BY <1>1, <1>4 DEF CachesCurrent

LEMMA SelectCurrent == ASSUME CachesCurrent, Select PROVE CachesCurrent'
<1>1. /\ selected' \in kSubset(MaxSelected, EntryIds(draft))
      /\ UNCHANGED <<draft, inputs, cell, issues, table, known>>
  BY DEF Select
<1>2. selected' \subseteq EntryIds(draft)
  BY <1>1 DEF kSubset
<1> QED
  BY <1>1, <1>2 DEF CachesCurrent

LEMMA PublicationCurrent == ASSUME CachesCurrent, Publication PROVE CachesCurrent'
<1>1. /\ UNCHANGED <<draft, inputs, selected, cell, issues>>
      /\ draft # None => table' = SetProjection(Projection(draft, issues, inputs, known'))
  BY DEF Publication
<1>2. ASSUME draft # None
      PROVE  LET now == Projection(draft, issues, inputs, known')
             IN table'.rows = now.rows /\ table'.tiers = now.tiers
  BY <1>1, <1>2 DEF SetProjection
<1> QED
  BY <1>1, <1>2 DEF CachesCurrent

-----------------------------------------------------------------------------
(* Every action, with what a commit, an adoption and a recomputation do.    *)

Sound == HistoryIsSequence /\ RetainedPlaced /\ CachesCurrent

LEMMA CommitSound == ASSUME NEW b, NEW in, HistoryIsSequence, RetainedPlaced, Commit(b, in) PROVE Sound'
BY CommitCurrent, CommitPlaced, AppendKeepsFirst DEF Sound, HistoryIsSequence, Commit

LEMMA EditSound == ASSUME NEW results, Sound, Edit(results) PROVE Sound'
BY CommitSound DEF Edit, Sound

LEMMA AdoptSound == ASSUME NEW b, NEW base, Adopt(b, base) PROVE Sound'
<1>1. inputs' = NoInputs /\ history' = <<>>
  BY DEF Adopt
<1> QED
  BY <1>1, AdoptCurrent, FreshPlaced DEF Sound, HistoryIsSequence

LEMMA UndoSound == ASSUME Sound, Undo PROVE Sound'
<1>1. history # <<>> /\ history' = SubSeq(history, 1, Len(history) - 1)
  BY DEF Undo
<1>2. HistoryIsSequence'
  BY <1>1, FrontKeepsFirst DEF Sound, HistoryIsSequence
<1> QED
  BY <1>2, UndoCurrent, UndoPlaced DEF Sound

LEMMA SaveSound == ASSUME Save PROVE Sound'
<1> DEFINE candidate == AutoMapped(known, Normalized)
<1>1. Recompute(candidate, candidate, NoInputs, selected, cell) /\ history' = <<>>
  BY DEF Save
<1> HIDE DEF candidate
<1>2. inputs' = NoInputs
  BY <1>1, RecomputeDirty, NothingToPrune
<1> QED
  BY <1>1, <1>2, SaveCurrent, FreshPlaced DEF Sound, HistoryIsSequence

LEMMA ClicksSound == ASSUME Sound, Select \/ Focus \/ Publication PROVE Sound'
<1>1. UNCHANGED <<draft, inputs, history>>
  BY DEF Select, Focus, Publication
<1>2. HistoryIsSequence' /\ RetainedPlaced'
  BY <1>1 DEF Sound, HistoryIsSequence, RetainedPlaced, Remembered
<1> QED
  BY <1>2, SelectCurrent, FocusCurrent, PublicationCurrent DEF Sound

LEMMA DiscardSound == ASSUME Discard PROVE Sound'
<1>1. draft' = None /\ inputs' = NoInputs /\ history' = <<>>
  BY DEF Discard
<1> QED
  BY <1>1, FreshPlaced DEF Sound, HistoryIsSequence, CachesCurrent

LEMMA InitSound == Init => Sound
<1> SUFFICES ASSUME Init PROVE Sound
  OBVIOUS
<1>1. draft = None /\ inputs = NoInputs /\ history = <<>>
  BY DEF Init
<1> QED
  BY <1>1, NothingMisplaced DEF Sound, HistoryIsSequence, CachesCurrent, RetainedPlaced, Remembered, Placed

LEMMA StepSound == Sound /\ [Next]_vars => Sound'
<1> SUFFICES ASSUME Sound, [Next]_vars PROVE Sound'
  OBVIOUS
<1>1. CASE OpenBenchmark
  BY <1>1, AdoptSound DEF OpenBenchmark
<1>2. CASE BeginNewBenchmark
  BY <1>2, AdoptSound DEF BeginNewBenchmark
<1>3. CASE ImportPlaylist
  BY <1>3, AdoptSound DEF ImportPlaylist
<1>4. CASE Discard
  BY <1>4, DiscardSound
<1>5. CASE SetBenchmarkName
  BY <1>5, EditSound DEF SetBenchmarkName
<1>6. CASE EditTiers
  BY <1>6, EditSound DEF EditTiers, DoAddTier, DoRenameTier, DoReorderTier, DoRemoveTier
<1>7. CASE EditScenarios
  BY <1>7, EditSound
  DEF EditScenarios, AddUnplayedScenario, AddKnownScenario, DoRenameScenario, SetScenarioIdentity,
      DoSetScenarioHashes, DoRemoveScenarios
<1>8. CASE EditGroups
  BY <1>8, EditSound
  DEF EditGroups, DoAddCategory, DoRenameGroup, DoReorderCategory, DoRemoveCategory, DoAddSubcategory,
      AddSubcategoryMovingScenarios, DoReorderSubcategory, Assign, DoReorderScenario
<1>9. CASE EditCells
  BY <1>9, CommitSound DEF EditCells, EditThresholdText, PasteText, PasteHeader, Sound
<1>10. CASE Select \/ Focus \/ Publication
  BY <1>10, ClicksSound
<1>11. CASE Undo
  BY <1>11, UndoSound
<1>12. CASE Save
  BY <1>12, SaveSound
<1>13. CASE UNCHANGED vars
  BY <1>13 DEF vars, Sound, HistoryIsSequence, RetainedPlaced, Remembered, CachesCurrent
<1> QED
  BY <1>1, <1>2, <1>3, <1>4, <1>5, <1>6, <1>7, <1>8, <1>9, <1>10, <1>11, <1>12, <1>13 DEF Next

\* Whatever is edited, undone or pasted, and whatever the profile learns meanwhile, the issues, the
\* rows and the columns are those of the present draft, and the selection and the focused tier exist
\* in it: no path of the window leaves one of them as an earlier draft had it
\* (benchmark_manager_vm: recomputeAfterLocalEdit, adoptSeed, the publications; benchmark_table_model).
THEOREM CachesStayCurrent == Spec => []CachesCurrent
<1>1. Sound => CachesCurrent
  BY DEF Sound
<1> QED
  BY InitSound, StepSound, <1>1, PTL DEF Spec

\* A text retained with the draft, or with any step that can be undone, belongs to a cell that exists
\* there, whatever removed rows and tiers meanwhile (benchmark_manager_vm: pruneCellInputs, undo).
THEOREM TextsStayPlaced == Spec => []RetainedPlaced
<1>1. Sound => RetainedPlaced
  BY DEF Sound
<1> QED
  BY InitSound, StepSound, <1>1, PTL DEF Spec

-----------------------------------------------------------------------------
(* Arrays: joining, selecting, flattening.                                 *)

\* An array is a function on its positions.
LEMMA ArrayIs ==
  ASSUME NEW s
  PROVE  IsArray(s) <=> Len(s) \in Nat /\ s = [i \in 1..Len(s) |-> s[i]]
<1>1. ASSUME IsArray(s) PROVE Len(s) \in Nat /\ s = [i \in 1..Len(s) |-> s[i]]
  BY <1>1 DEF IsArray
<1>2. ASSUME Len(s) \in Nat, s = [i \in 1..Len(s) |-> s[i]] PROVE IsArray(s)
  BY <1>2 DEF ToSet, IsArray
<1> QED
  BY <1>1, <1>2

\* What an array is defined on.
LEMMA ArrayParts == ASSUME NEW s, IsArray(s) PROVE Len(s) \in Nat /\ DOMAIN s = 1..Len(s)
BY DEF IsArray

\* A function on 1..n is an array of length n.
LEMMA ArrayOfLength ==
  ASSUME NEW n \in Nat, NEW f, f = [i \in 1..n |-> f[i]]
  PROVE  IsArray(f) /\ Len(f) = n /\ DOMAIN f = 1..n
<1>1. DOMAIN f = 1..n
  OBVIOUS
<1>2. f \in Seq(ToSet(f))
  BY <1>1 DEF ToSet
<1>3. Len(f) \in Nat /\ DOMAIN f = 1..Len(f)
  BY <1>2
<1> QED
  BY <1>1, <1>2, <1>3 DEF IsArray

\* Arrays that agree at every position are the same.
LEMMA SameArrays ==
  ASSUME NEW s, NEW t, IsArray(s), IsArray(t), Len(s) = Len(t), \A i \in 1..Len(s) : s[i] = t[i]
  PROVE  s = t
BY ArrayIs

\* Two arrays joined: the elements of the first, then those of the second.
LEMMA JoinedArrays ==
  ASSUME NEW s, NEW t, IsArray(s), IsArray(t)
  PROVE  /\ IsArray(s \o t) /\ Len(s \o t) = Len(s) + Len(t)
         /\ \A i \in 1..Len(s) : (s \o t)[i] = s[i]
         /\ \A i \in 1..Len(t) : (s \o t)[Len(s) + i] = t[i]
         /\ ToSet(s \o t) = ToSet(s) \cup ToSet(t)
<1> DEFINE S == ToSet(s) \cup ToSet(t)
           m == Len(s)
           n == Len(t)
           u == s \o t
<1>1. s \in Seq(S) /\ t \in Seq(S) /\ m \in Nat /\ n \in Nat /\ DOMAIN s = 1..m /\ DOMAIN t = 1..n
  BY DEF IsArray
<1>2. /\ u \in Seq(S) /\ Len(u) = m + n
      /\ \A i \in 1..m : u[i] = s[i]
      /\ \A i \in 1..n : u[m + i] = t[i]
      /\ DOMAIN u = 1..(m + n)
  BY <1>1
<1> HIDE DEF u, m, n
<1>3. \A i \in 1..(m + n) : i \in 1..m \/ (i - m \in 1..n /\ i = m + (i - m))
  BY <1>1
<1>4. \A i \in 1..m : i \in 1..(m + n)
  BY <1>1
<1>5. \A i \in 1..n : m + i \in 1..(m + n)
  BY <1>1
<1>6. \A i \in 1..(m + n) : u[i] \in S
  BY <1>1, <1>2, <1>3 DEF ToSet
<1>7. ToSet(u) = S
  <2>1. ToSet(u) \subseteq S
    BY <1>2, <1>6 DEF ToSet
  <2>2. ASSUME NEW x \in ToSet(s) PROVE x \in ToSet(u)
    BY <1>1, <1>2, <1>4 DEF ToSet
  <2>3. ASSUME NEW x \in ToSet(t) PROVE x \in ToSet(u)
    BY <1>1, <1>2, <1>5 DEF ToSet
  <2> QED
    BY <2>1, <2>2, <2>3
<1> QED
  BY <1>2, <1>7 DEF IsArray, u, m, n

\* The ids of a sequence are those of its elements.
LEMMA IdsOfSet == \A s : IdsOf(s) = {x.id : x \in ToSet(s)}
BY DEF IdsOf, ToSet

\* No id is twice in what is joined, when none is twice in either and none in both.
LEMMA JoinedDistinct ==
  ASSUME NEW s, NEW t, IsArray(s), IsArray(t)
  PROVE  Distinct(s \o t) <=> Distinct(s) /\ Distinct(t) /\ IdsOf(s) \cap IdsOf(t) = {}
<1> DEFINE m == Len(s)
           n == Len(t)
           u == s \o t
<1>1. m \in Nat /\ n \in Nat /\ DOMAIN s = 1..m /\ DOMAIN t = 1..n
  BY ArrayParts
<1>2. /\ DOMAIN u = 1..(m + n)
      /\ \A i \in 1..m : u[i] = s[i]
      /\ \A i \in 1..n : u[m + i] = t[i]
  BY JoinedArrays, ArrayParts
<1> HIDE DEF u, m, n
<1>3. ASSUME Distinct(u) PROVE Distinct(s) /\ Distinct(t) /\ IdsOf(s) \cap IdsOf(t) = {}
  <2>1. Distinct(s)
    <3>1. ASSUME NEW i \in 1..m, NEW j \in 1..m, s[i].id = s[j].id PROVE i = j
      <4>1. i \in 1..(m + n) /\ j \in 1..(m + n) /\ u[i] = s[i] /\ u[j] = s[j]
        BY <1>1, <1>2
      <4> QED
        BY <1>2, <1>3, <3>1, <4>1 DEF Distinct
    <3> QED
      BY <1>1, <3>1 DEF Distinct
  <2>2. Distinct(t)
    <3>1. ASSUME NEW i \in 1..n, NEW j \in 1..n, t[i].id = t[j].id PROVE i = j
      <4>1. m + i \in 1..(m + n) /\ m + j \in 1..(m + n) /\ u[m + i] = t[i] /\ u[m + j] = t[j]
        BY <1>1, <1>2
      <4>2. m + i = m + j
        BY <1>2, <1>3, <3>1, <4>1 DEF Distinct
      <4> QED
        BY <1>1, <4>2
    <3> QED
      BY <1>1, <3>1 DEF Distinct
  <2>3. ASSUME NEW i \in 1..m, NEW j \in 1..n, s[i].id = t[j].id PROVE FALSE
    <3>1. i \in 1..(m + n) /\ m + j \in 1..(m + n) /\ u[i] = s[i] /\ u[m + j] = t[j]
      BY <1>1, <1>2
    <3>2. i = m + j
      BY <1>2, <1>3, <2>3, <3>1 DEF Distinct
    <3> QED
      BY <1>1, <3>2
  <2> QED
    BY <1>1, <2>1, <2>2, <2>3 DEF IdsOf
<1>4. ASSUME Distinct(s), Distinct(t), IdsOf(s) \cap IdsOf(t) = {} PROVE Distinct(u)
  <2>1. \A i \in 1..m, j \in 1..n : s[i].id # t[j].id
    BY <1>1, <1>4 DEF IdsOf
  <2>2. \A i, j \in 1..m : s[i].id = s[j].id => i = j
    BY <1>1, <1>4 DEF Distinct
  <2>3. \A i, j \in 1..n : t[i].id = t[j].id => i = j
    BY <1>1, <1>4 DEF Distinct
  <2>4. \A i \in 1..(m + n) : \/ i \in 1..m /\ u[i] = s[i]
                              \/ i - m \in 1..n /\ u[i] = t[i - m]
    BY <1>1, <1>2
  <2>5. ASSUME NEW i \in 1..(m + n), NEW j \in 1..(m + n), u[i].id = u[j].id PROVE i = j
    <3>1. CASE i \in 1..m /\ u[i] = s[i]
      BY <2>1, <2>2, <2>4, <2>5, <3>1
    <3>2. CASE i - m \in 1..n /\ u[i] = t[i - m]
      <4>1. CASE j \in 1..m /\ u[j] = s[j]
        BY <2>1, <2>5, <3>2, <4>1
      <4>2. CASE j - m \in 1..n /\ u[j] = t[j - m]
        BY <2>3, <2>5, <3>2, <4>2, <1>1
      <4> QED
        BY <2>4, <4>1, <4>2
    <3> QED
      BY <2>4, <3>1, <3>2
  <2> QED
    BY <1>2, <2>5 DEF Distinct
<1> QED
  BY <1>3, <1>4 DEF u

\* Some numbers have a least one.
LEMMA LeastExists ==
  ASSUME NEW T, T \subseteq Nat, T # {}
  PROVE  \E h \in T : \A k \in T : h <= k
<1>1. PICK m \in T : \A k \in T : ~(<<k, m>> \in OpToRel(<, Nat))
  BY WFMin, NatLessThanWellFounded, Zenon
<1>2. \A k \in T : ~(k < m)
  BY <1>1 DEF OpToRel
<1> QED
  BY <1>2

\* How many of the numbers in P are below i.
Below(P, i) == Cardinality({j \in P : j < i})

\* In a finite set of numbers each has another number of them below it, and every such rank is taken.
LEMMA Ranks ==
  ASSUME NEW P, P \subseteq Nat, IsFiniteSet(P)
  PROVE  /\ Cardinality(P) \in Nat
         /\ \A i, k \in P : i < k => Below(P, i) < Below(P, k)
         /\ \A k \in 1..Cardinality(P) : \E i \in P : Below(P, i) = k - 1
         /\ \A i \in P : Below(P, i) + 1 \in 1..Cardinality(P)
<1> DEFINE n == Cardinality(P)
           B(i) == {j \in P : j < i}
<1>1. n \in Nat
  BY FS_CardinalityType
<1>2. ASSUME NEW i \in P PROVE IsFiniteSet(B(i)) /\ Below(P, i) = Cardinality(B(i)) /\ Below(P, i) \in Nat
  BY FS_Subset, FS_CardinalityType DEF Below
<1>3. ASSUME NEW i \in P PROVE Below(P, i) + 1 \in 1..n
  <2>1. IsFiniteSet(P \ {i}) /\ Cardinality(P \ {i}) = n - 1
    BY FS_RemoveElement
  <2>2. B(i) \in SUBSET (P \ {i})
    OBVIOUS
  <2>3. Cardinality(B(i)) <= n - 1
    BY <2>1, <2>2, FS_Subset
  <2> QED
    BY <1>1, <1>2, <2>3
<1>4. ASSUME NEW i \in P, NEW k \in P, i < k PROVE Below(P, i) < Below(P, k)
  <2>1. Cardinality(B(i) \cup {i}) = Cardinality(B(i)) + 1
    <3>1. i \notin B(i)
      OBVIOUS
    <3> HIDE DEF B
    <3> QED
      BY <1>2, <3>1, FS_AddElement
  <2>2. B(i) \cup {i} \in SUBSET B(k)
    <3>1. i \in Nat /\ k \in Nat /\ i < k
      BY <1>4
    <3>2. ASSUME NEW x \in P, x < i PROVE x < k
      BY <3>1, <3>2
    <3> QED
      BY <3>1, <3>2
  <2>3. Cardinality(B(i) \cup {i}) <= Cardinality(B(k))
    BY <1>2, <2>2, FS_Subset
  <2> QED
    BY <1>2, <2>1, <2>3
<1> HIDE DEF n, B
<1> DEFINE f == [i \in P |-> Below(P, i) + 1]
<1>5. f \in Injection(P, 1..n)
  <2>1. f \in [P -> 1..n]
    BY <1>3
  <2>2. ASSUME NEW i \in P, NEW k \in P, f[i] = f[k] PROVE i = k
    BY <1>2, <2>2, <1>4
  <2> QED
    BY <2>1, <2>2 DEF Injection, IsInjective
<1>6. IsFiniteSet(1..n) /\ Cardinality(1..n) = n
  BY <1>1, FS_Interval
<1>7. f \in Surjection(P, 1..n)
  <2> DEFINE T == 1..n
  <2>1. f \in Injection(P, T) /\ IsFiniteSet(T) /\ Cardinality(P) = Cardinality(T)
    BY <1>5, <1>6 DEF n
  <2> HIDE DEF f, T
  <2>2. f \in Surjection(P, T)
    BY <2>1, FS_Injection
  <2> QED
    BY <2>2 DEF T
<1>8. \A k \in 1..n : \E i \in P : f[i] = k
  BY <1>7 DEF Surjection
<1>9. ASSUME NEW k \in 1..n PROVE \E i \in P : Below(P, i) = k - 1
  <2>1. PICK i \in P : Below(P, i) + 1 = k
    BY <1>8
  <2> QED
    BY <1>2, <2>1
<1> QED
  BY <1>1, <1>3, <1>4, <1>9 DEF n

\* A selection takes every one of the positions once, in their order.
Takes(p, P) == /\ p \in [1..Cardinality(P) -> P]
               /\ \A i \in P : \E k \in 1..Cardinality(P) : p[k] = i
               /\ \A k, m \in 1..Cardinality(P) : k < m => p[k] < p[m]

\* The numbers of a finite set in their order, as At and FreshIds choose them.
LEMMA RankedTakes ==
  ASSUME NEW P, P \subseteq Nat, IsFiniteSet(P)
  PROVE  Takes([k \in 1..Cardinality(P) |-> CHOOSE i \in P : Cardinality({j \in P : j < i}) = k - 1], P)
<1> DEFINE n == Cardinality(P)
           q(k) == CHOOSE i \in P : Below(P, i) = k - 1
           p == [k \in 1..n |-> q(k)]
<1>1. /\ n \in Nat
      /\ \A k \in 1..n : \E i \in P : Below(P, i) = k - 1
      /\ \A i \in P : Below(P, i) + 1 \in 1..n
  BY Ranks
<1>0. \A i, k \in P : i < k => Below(P, i) < Below(P, k)
  BY Ranks
<1>2. \A i \in P : Below(P, i) \in Nat
  BY FS_Subset, FS_CardinalityType DEF Below
<1>3. ASSUME NEW k \in 1..n PROVE q(k) \in P /\ Below(P, q(k)) = k - 1
  BY <1>1
<1> HIDE DEF n, q
<1>4. ASSUME NEW k \in 1..n PROVE p[k] \in P /\ Below(P, p[k]) = k - 1
  BY <1>3
<1>5. p \in [1..n -> P]
  BY <1>4
<1> HIDE DEF p
<1>6. ASSUME NEW i \in P, NEW k \in P, ~(i < k) PROVE i = k \/ Below(P, k) < Below(P, i)
  BY <1>6, <1>0
<1>7. ASSUME NEW i \in P, NEW k \in P, Below(P, i) = Below(P, k) PROVE i = k
  BY <1>2, <1>7, <1>0, <1>6
<1>9. ASSUME NEW i \in P PROVE \E k \in 1..n : p[k] = i
  <2>1. PICK k \in 1..n : k = Below(P, i) + 1
    BY <1>1
  <2>2. p[k] \in P /\ Below(P, p[k]) = Below(P, i)
    BY <1>1, <1>2, <1>4, <2>1
  <2> QED
    BY <1>7, <2>2
<1>10. ASSUME NEW k \in 1..n, NEW m \in 1..n, k < m PROVE p[k] < p[m]
  <2>1. /\ p[k] \in P /\ p[m] \in P /\ Below(P, p[k]) = k - 1 /\ Below(P, p[m]) = m - 1
    BY <1>4
  <2>2. ~(m - 1 < k - 1) /\ k - 1 # m - 1
    BY <1>1, <1>10
  <2> QED
    BY <1>6, <2>1, <2>2
<1>8. Takes(p, P)
  BY <1>5, <1>9, <1>10 DEF Takes, n
<1> QED
  BY <1>8 DEF p, q, n, Below

\* The elements at some positions are an array: those positions in their order.
LEMMA Selection ==
  ASSUME NEW s, IsArray(s), NEW P, P \subseteq DOMAIN s
  PROVE  /\ IsArray(At(s, P)) /\ Len(At(s, P)) = Cardinality(P) /\ IsFiniteSet(P) /\ Cardinality(P) \in Nat
         /\ \E p : Takes(p, P) /\ \A k \in 1..Cardinality(P) : At(s, P)[k] = s[p[k]]
<1> DEFINE n == Cardinality(P)
           p == [k \in 1..n |-> CHOOSE i \in P : Cardinality({j \in P : j < i}) = k - 1]
<1>1. P \subseteq Nat /\ IsFiniteSet(P)
  <2>1. Len(s) \in Nat /\ DOMAIN s = 1..Len(s)
    BY ArrayParts
  <2>2. IsFiniteSet(1..Len(s))
    BY <2>1, FS_Interval
  <2> QED
    BY <2>1, <2>2, FS_Subset
<1>2. n \in Nat
  BY <1>1, FS_CardinalityType
<1>3. Takes(p, P)
  BY <1>1, RankedTakes
<1>4. At(s, P) = [k \in 1..n |-> s[p[k]]]
  BY DEF At
<1> HIDE DEF p
<1>5. IsArray(At(s, P)) /\ Len(At(s, P)) = n
  <2>1. At(s, P) = [k \in 1..n |-> At(s, P)[k]]
    BY <1>4
  <2> HIDE DEF n
  <2> QED
    BY <1>2, <2>1, ArrayOfLength
<1>6. \A k \in 1..n : At(s, P)[k] = s[p[k]]
  BY <1>4
<1> QED
  BY <1>1, <1>2, <1>3, <1>5, <1>6

\* A selection has the elements at its positions, and repeats nothing that was not repeated.
LEMMA SelectionKeeps ==
  ASSUME NEW s, IsArray(s), NEW P, P \subseteq DOMAIN s
  PROVE  /\ ToSet(At(s, P)) = {s[i] : i \in P}
         /\ Distinct(s) => Distinct(At(s, P))
         /\ IsInjective(s) => IsInjective(At(s, P))
<1> DEFINE n == Cardinality(P)
           t == At(s, P)
<1>1. n \in Nat /\ IsArray(t) /\ Len(t) = n /\ DOMAIN t = 1..n
  BY Selection, ArrayParts
<1>2. PICK p : Takes(p, P) /\ \A k \in 1..n : t[k] = s[p[k]]
  BY Selection
<1> HIDE DEF t, n
<1>3. \A k \in 1..n : p[k] \in P /\ p[k] \in DOMAIN s
  BY <1>2 DEF Takes, n
<1>4. P \subseteq Int
  BY ArrayParts
<1>5. \A k, m \in 1..n : p[k] = p[m] => k = m
  <2>1. ASSUME NEW k \in 1..n, NEW m \in 1..n, p[k] = p[m] PROVE k = m
    BY <1>3, <1>4, <2>1, <1>2, <1>1 DEF Takes, n
  <2> QED
    BY <2>1
<1>6. ToSet(t) = {s[i] : i \in P}
  <2>1. ASSUME NEW i \in P PROVE s[i] \in ToSet(t)
    <3>1. PICK k \in 1..n : p[k] = i
      BY <1>2 DEF Takes, n
    <3> QED
      BY <1>1, <1>2, <3>1 DEF ToSet
  <2>2. ASSUME NEW x \in ToSet(t) PROVE x \in {s[i] : i \in P}
    BY <1>1, <1>2, <1>3, <2>2 DEF ToSet
  <2> QED
    BY <2>1, <2>2
<1>7. ASSUME Distinct(s) PROVE Distinct(t)
  BY <1>1, <1>2, <1>3, <1>5, <1>7 DEF Distinct
<1>8. ASSUME IsInjective(s) PROVE IsInjective(t)
  BY <1>1, <1>2, <1>3, <1>5, <1>8 DEF IsInjective
<1> QED
  BY <1>6, <1>7, <1>8 DEF t

\* A sequence is its first k elements and the others.
LEMMA Pieces ==
  ASSUME NEW s, IsArray(s), NEW k \in 0..Len(s)
  PROVE  /\ IsArray(SubSeq(s, 1, k)) /\ IsArray(SubSeq(s, k + 1, Len(s)))
         /\ Len(SubSeq(s, 1, k)) = k /\ Len(SubSeq(s, k + 1, Len(s))) = Len(s) - k
         /\ s = SubSeq(s, 1, k) \o SubSeq(s, k + 1, Len(s))
         /\ \A i \in 1..k : SubSeq(s, 1, k)[i] = s[i]
         /\ \A i \in 1..(Len(s) - k) : SubSeq(s, k + 1, Len(s))[i] = s[k + i]
<1> DEFINE n == Len(s)
           S == ToSet(s)
           u == SubSeq(s, 1, k)
           v == SubSeq(s, k + 1, n)
<1>1. n \in Nat /\ s \in Seq(S) /\ DOMAIN s = 1..n /\ k \in Nat /\ k <= n
  BY ArrayParts DEF IsArray
<1>2. u = [i \in 1..k |-> s[i]]
  BY <1>1
<1>3. v = [i \in 1..(n - k) |-> s[k + i]]
  BY <1>1
<1> HIDE DEF u, v, n
<1>4. IsArray(u) /\ Len(u) = k
  BY <1>2, <1>1, ArrayOfLength
<1>5. IsArray(v) /\ Len(v) = n - k
  BY <1>1, <1>3, ArrayOfLength
<1>6. s = u \o v
  BY <1>1, <1>2, <1>3, <1>4, <1>5, JoinedArrays, SameArrays DEF n
<1> QED
  BY <1>1, <1>2, <1>3, <1>4, <1>5, <1>6 DEF u, v, n

Follows(f, s, m) == f = [i \in 1..m |-> IF i = 1 THEN s[i] ELSE f[i - 1] \o s[i]]

\* Joining one after the other can be recorded.
LEMMA FollowsExists ==
  ASSUME NEW s, NEW n \in Nat \ {0}
  PROVE  \E f : Follows(f, s, n)
<1> DEFINE Bad == {m \in 1..n : ~\E f : Follows(f, s, m)}
<1>1. SUFFICES Bad = {}
  OBVIOUS
<1>2. SUFFICES ASSUME Bad # {} PROVE FALSE
  OBVIOUS
<1>3. PICK m \in Bad : \A k \in Bad : m <= k
  <2>1. Bad \subseteq Nat
    OBVIOUS
  <2> HIDE DEF Bad
  <2> QED
    BY <1>2, <2>1, LeastExists
<1>4. m \in 1..n /\ ~\E f : Follows(f, s, m)
  OBVIOUS
<1>5. m # 1
  <2> DEFINE g == [i \in 1..1 |-> s[i]]
  <2>1. g = [i \in 1..1 |-> IF i = 1 THEN s[i] ELSE g[i - 1] \o s[i]]
    OBVIOUS
  <2>2. Follows(g, s, 1)
    BY <2>1 DEF Follows
  <2> QED
    BY <1>4, <2>2
<1>6. m - 1 \in 1..n /\ m - 1 \notin Bad
  BY <1>4, <1>5, <1>3
<1>7. PICK f : Follows(f, s, m - 1)
  BY <1>6
<1> HIDE DEF Bad
<1> DEFINE g == [i \in 1..m |-> IF i = m THEN f[m - 1] \o s[m] ELSE f[i]]
<1>8. f = [i \in 1..(m - 1) |-> IF i = 1 THEN s[i] ELSE f[i - 1] \o s[i]]
  BY <1>7 DEF Follows
<1>9. \A i \in 1..m : g[i] = IF i = 1 THEN s[i] ELSE g[i - 1] \o s[i]
  <2> TAKE i \in 1..m
  <2>1. CASE i = m
    <3>1. m - 1 \in 1..m /\ m - 1 # m /\ m \in 1..m
      BY <1>4, <1>5
    <3>2. g[m] = f[m - 1] \o s[m]
      BY <3>1
    <3>4. g[m - 1] = f[m - 1]
      BY <3>1
    <3> HIDE DEF g
    <3> QED
      BY <1>5, <2>1, <3>2, <3>4
  <2>2. CASE i # m
    <3>1. i \in 1..(m - 1) /\ (i # 1 => i - 1 \in 1..m /\ i - 1 # m)
      BY <1>4, <2>2
    <3>2. g[i] = f[i] /\ (i # 1 => g[i - 1] = f[i - 1])
      BY <2>2, <3>1
    <3>3. f[i] = IF i = 1 THEN s[i] ELSE f[i - 1] \o s[i]
      BY <1>8, <3>1
    <3> HIDE DEF g
    <3> QED
      BY <3>2, <3>3
  <2> QED
    BY <2>1, <2>2
<1>10. g = [i \in 1..m |-> g[i]]
  OBVIOUS
<1> HIDE DEF g
<1>11. Follows(g, s, m)
  BY <1>9, <1>10 DEF Follows
<1> QED
  BY <1>4, <1>11

\* Flattening is joining one after the other.
LEMMA FlattenFollows ==
  ASSUME NEW s, IsArray(s), Len(s) # 0
  PROVE  \E f : Follows(f, s, Len(s)) /\ FlattenSeq(s) = f[Len(s)]
<1> DEFINE n == Len(s)
           it == CHOOSE f : f = [i \in 1..n |-> IF i = 1 THEN s[i] ELSE f[i - 1] \o s[i]]
<1>1. n \in Nat \ {0}
  BY ArrayParts
<1>2. FlattenSeq(s) = it[n]
  BY <1>1 DEF FlattenSeq
<1>3. it = [i \in 1..n |-> IF i = 1 THEN s[i] ELSE it[i - 1] \o s[i]]
  <2>1. \E f : f = [i \in 1..n |-> IF i = 1 THEN s[i] ELSE f[i - 1] \o s[i]]
    <3> HIDE DEF n
    <3> QED
      BY <1>1, FollowsExists DEF Follows
  <2> QED
    BY <2>1
<1> HIDE DEF it
<1> QED
  BY <1>2, <1>3 DEF Follows

\* Where the first m of the sequences lie in what they are joined to.
Laid(off, s, m, F) ==
  /\ \A k \in 1..m : off[k] \in Nat /\ off[k] + Len(s[k]) <= Len(F)
  /\ \A k \in 1..m : \A i \in 1..Len(s[k]) : off[k] + i \in 1..Len(F) /\ F[off[k] + i] = s[k][i]
  /\ \A k, l \in 1..m : k < l => off[k] + Len(s[k]) <= off[l]
  /\ \A p \in 1..Len(F) : \E k \in 1..m : p - off[k] \in 1..Len(s[k])

\* One sequence more lies behind those that were joined.
LEMMA LaidMore ==
  ASSUME NEW s, NEW m \in Nat \ {0}, \A k \in 1..m : IsArray(s[k]), NEW F, IsArray(F),
         NEW off, Laid(off, s, m - 1, F), off[m] = Len(F)
  PROVE  Laid(off, s, m, F \o s[m])
<1> DEFINE L == Len(F)
           G == F \o s[m]
<1>1. L \in Nat /\ m \in 1..m /\ off[m] = L /\ \A k \in 1..m : Len(s[k]) \in Nat
  BY ArrayParts
<1>2. /\ Len(G) = L + Len(s[m])
      /\ \A i \in 1..L : G[i] = F[i]
      /\ \A i \in 1..Len(s[m]) : G[L + i] = s[m][i]
  BY <1>1, JoinedArrays
<1>3. \A k \in 1..m : k = m \/ k \in 1..(m - 1)
  OBVIOUS
<1>4. /\ \A k \in 1..(m - 1) : off[k] \in Nat /\ off[k] + Len(s[k]) <= L
      /\ \A k \in 1..(m - 1) : \A i \in 1..Len(s[k]) : off[k] + i \in 1..L /\ F[off[k] + i] = s[k][i]
      /\ \A k, l \in 1..(m - 1) : k < l => off[k] + Len(s[k]) <= off[l]
      /\ \A p \in 1..L : \E k \in 1..(m - 1) : p - off[k] \in 1..Len(s[k])
  BY DEF Laid
<1> HIDE DEF G, L
<1>5. 1..L \subseteq 1..Len(G)
  BY <1>1, <1>2
<1>6. ASSUME NEW k \in 1..m PROVE off[k] \in Nat /\ off[k] + Len(s[k]) <= Len(G)
  BY <1>1, <1>2, <1>3, <1>4
<1>7. ASSUME NEW k \in 1..m, NEW i \in 1..Len(s[k])
      PROVE  off[k] + i \in 1..Len(G) /\ G[off[k] + i] = s[k][i]
  <2>1. CASE k = m
    BY <1>1, <1>2, <2>1
  <2>2. CASE k \in 1..(m - 1)
    BY <1>2, <1>4, <1>5, <2>2
  <2> QED
    BY <1>3, <2>1, <2>2
<1>8. ASSUME NEW k \in 1..m, NEW l \in 1..m, k < l PROVE off[k] + Len(s[k]) <= off[l]
  BY <1>3, <1>8, <1>1, <1>4
<1>9. ASSUME NEW p \in 1..Len(G) PROVE \E k \in 1..m : p - off[k] \in 1..Len(s[k])
  <2>1. CASE p \in 1..L
    BY <1>4, <2>1
  <2>2. CASE p \notin 1..L
    <3>1. p - L \in 1..Len(s[m])
      BY <1>1, <1>2, <2>2
    <3> QED
      BY <1>1, <3>1
  <2> QED
    BY <2>1, <2>2
<1> QED
  BY <1>6, <1>7, <1>8, <1>9 DEF Laid, G

\* Induction up to a number, for a set.
LEMMA UpTo ==
  ASSUME NEW n \in Nat, NEW S, 0 \in S, \A m \in 1..n : m - 1 \in S => m \in S
  PROVE  \A m \in 0..n : m \in S
<1> DEFINE Bad == {m \in 0..n : m \notin S}
<1>1. SUFFICES ASSUME Bad # {} PROVE FALSE
  OBVIOUS
<1>2. PICK m \in Bad : \A k \in Bad : m <= k
  <2>1. Bad \subseteq Nat
    OBVIOUS
  <2> HIDE DEF Bad
  <2> QED
    BY <1>1, <2>1, LeastExists
<1>3. m \in 1..n /\ m - 1 \in 0..n /\ ~(m <= m - 1)
  OBVIOUS
<1> QED
  BY <1>2, <1>3

\* The first m of the sequences joined, and where each begins.
Prefix(s, m) == FlattenSeq(SubSeq(s, 1, m))
Starts(s) == [k \in 1..Len(s) |-> Len(Prefix(s, k - 1))]

\* One sequence more is joined to those before it.
LEMMA FlattenMore ==
  ASSUME NEW s, IsArray(s), \A k \in DOMAIN s : IsArray(s[k])
  PROVE  /\ IsArray(Prefix(s, 0)) /\ Len(Prefix(s, 0)) = 0 /\ Prefix(s, Len(s)) = FlattenSeq(s)
         /\ \A m \in 1..Len(s) : Prefix(s, m) = Prefix(s, m - 1) \o s[m]
<1> DEFINE n == Len(s)
<1>1. n \in Nat /\ DOMAIN s = 1..n
  BY ArrayParts
<1>2. \A m \in 0..n : LET u == SubSeq(s, 1, m)
                      IN IsArray(u) /\ Len(u) = m /\ \A i \in 1..m : u[i] = s[i]
  BY Pieces
<1>3. IsArray(Prefix(s, 0)) /\ Len(Prefix(s, 0)) = 0
  BY <1>1, <1>2 DEF Prefix, FlattenSeq
<1>4. Prefix(s, n) = FlattenSeq(s)
  <2> DEFINE u == SubSeq(s, 1, n)
  <2>1. IsArray(u) /\ Len(u) = n /\ \A i \in 1..n : u[i] = s[i]
    BY <1>1, <1>2
  <2> HIDE DEF u
  <2>2. u = s
    BY <2>1, SameArrays
  <2> QED
    BY <2>2 DEF u, Prefix
<1> HIDE DEF n
<1>6. ASSUME NEW m \in 1..n
      PROVE  \E f : Prefix(s, m) = f[m] /\ \A i \in 1..m : f[i] = IF i = 1 THEN s[i] ELSE f[i - 1] \o s[i]
  <2> DEFINE u == SubSeq(s, 1, m)
  <2>1. m \in 0..n /\ m # 0
    BY <1>1
  <2>2. IsArray(u) /\ Len(u) = m /\ \A i \in 1..m : u[i] = s[i]
    BY <1>2, <2>1
  <2>3. Prefix(s, m) = FlattenSeq(u)
    BY DEF Prefix
  <2> HIDE DEF u
  <2>4. PICK f : Follows(f, u, m) /\ FlattenSeq(u) = f[m]
    BY <2>1, <2>2, FlattenFollows
  <2>5. \A i \in 1..m : f[i] = IF i = 1 THEN s[i] ELSE f[i - 1] \o s[i]
    BY <2>2, <2>4 DEF Follows
  <2> QED
    BY <2>3, <2>4, <2>5
<1>5. ASSUME NEW m \in 1..n PROVE Prefix(s, m) = Prefix(s, m - 1) \o s[m]
  <2>1. PICK f : Prefix(s, m) = f[m] /\ \A i \in 1..m : f[i] = IF i = 1 THEN s[i] ELSE f[i - 1] \o s[i]
    BY <1>6
  <2>2. \A i \in 1..m : f[i] = IF i = 1 THEN s[i] ELSE f[i - 1] \o s[i]
    BY <2>1
  <2>3. CASE m = 1
    <3>1. IsArray(s[1]) /\ f[1] = s[1] /\ Len(s[1]) \in Nat
      BY <1>1, <2>2, <2>3, ArrayParts
    <3>2. /\ IsArray(Prefix(s, 0) \o s[1]) /\ Len(Prefix(s, 0) \o s[1]) = 0 + Len(s[1])
          /\ \A i \in 1..Len(s[1]) : (Prefix(s, 0) \o s[1])[0 + i] = s[1][i]
      BY <1>3, <3>1, JoinedArrays
    <3>3. Prefix(s, 0) \o s[1] = s[1]
      <4> DEFINE t == Prefix(s, 0) \o s[1]
      <4>1. Len(t) = Len(s[1]) /\ IsArray(t)
        BY <3>1, <3>2
      <4>2. ASSUME NEW i \in 1..Len(s[1]) PROVE t[i] = s[1][i]
        <5>1. t[0 + i] = s[1][i] /\ i \in Nat
          BY <3>1, <3>2
        <5> HIDE DEF t
        <5>2. 0 + i = i
          BY <5>1
        <5> QED
          BY <5>1, <5>2
      <4> HIDE DEF t
      <4> QED
        BY <3>1, <4>1, <4>2, SameArrays DEF t
    <3> QED
      BY <2>1, <2>3, <3>1, <3>3
  <2>4. CASE m # 1
    <3>1. m - 1 \in 1..n /\ m - 1 \in 0..n /\ m \in 1..m
      BY <1>1, <2>4
    <3>2. PICK g : /\ Prefix(s, m - 1) = g[m - 1]
                   /\ \A i \in 1..(m - 1) : g[i] = IF i = 1 THEN s[i] ELSE g[i - 1] \o s[i]
      BY <1>6, <3>1
    <3>3. \A i \in 1..(m - 1) : g[i] = IF i = 1 THEN s[i] ELSE g[i - 1] \o s[i]
      BY <3>2
    <3> DEFINE S == {0} \cup {i \in 1..(m - 1) : f[i] = g[i]}
    <3>4. \A i \in 1..(m - 1) : i - 1 \in S => i \in S
      <4> TAKE i \in 1..(m - 1)
      <4>1. i \in 1..m
        BY <1>1
      <4> QED
        BY <2>2, <3>3, <4>1
    <3>5. f[m - 1] = g[m - 1]
      <4>1. 0 \in S /\ m - 1 \in Nat /\ m - 1 # 0 /\ m - 1 \in 0..(m - 1)
        BY <1>1, <3>1
      <4>2. S = S
        OBVIOUS
      <4> HIDE DEF S
      <4>3. m - 1 \in S
        BY <3>4, <4>1, UpTo
      <4> QED
        BY <4>1, <4>3 DEF S
    <3> QED
      BY <2>1, <2>2, <2>4, <3>1, <3>2, <3>5
  <2> QED
    BY <2>3, <2>4
<1> QED
  BY <1>3, <1>4, <1>5 DEF n

\* Each of the sequences that are flattened has its place in the result, behind those before it.
LEMMA FlattenLaid ==
  ASSUME NEW s, IsArray(s), \A k \in DOMAIN s : IsArray(s[k])
  PROVE  /\ IsArray(FlattenSeq(s)) /\ Laid(Starts(s), s, Len(s), FlattenSeq(s))
         /\ \A m \in 0..Len(s) : Len(Prefix(s, m)) \in Nat
         /\ \A m \in 1..Len(s) : /\ Starts(s)[m] = Len(Prefix(s, m - 1))
                                 /\ Len(Prefix(s, m)) = Len(Prefix(s, m - 1)) + Len(s[m])
<1> DEFINE n == Len(s)
           S == {m \in 0..n : IsArray(Prefix(s, m)) /\ Laid(Starts(s), s, m, Prefix(s, m))}
<1>1. n \in Nat /\ DOMAIN s = 1..n
  BY ArrayParts
<1>2. \A m \in 1..n : Starts(s)[m] = Len(Prefix(s, m - 1))
  BY DEF Starts
<1> HIDE DEF n
<1>3. IsArray(Prefix(s, 0)) /\ Len(Prefix(s, 0)) = 0 /\ Prefix(s, n) = FlattenSeq(s)
  BY FlattenMore DEF n
<1>4. \A m \in 1..n : Prefix(s, m) = Prefix(s, m - 1) \o s[m]
  BY FlattenMore DEF n
<1>5. 0 \in S
  BY <1>1, <1>3 DEF Laid
<1>6. ASSUME NEW m \in 1..n, m - 1 \in S PROVE m \in S
  <2>1. /\ m \in Nat \ {0} /\ m \in 0..n /\ \A k \in 1..m : IsArray(s[k])
        /\ IsArray(Prefix(s, m - 1)) /\ Laid(Starts(s), s, m - 1, Prefix(s, m - 1)) /\ IsArray(s[m])
    BY <1>1, <1>6
  <2>2. Laid(Starts(s), s, m, Prefix(s, m - 1) \o s[m]) /\ IsArray(Prefix(s, m - 1) \o s[m])
    BY <1>2, <2>1, LaidMore, JoinedArrays
  <2> QED
    BY <1>4, <2>1, <2>2
<1>7. \A m \in 0..n : IsArray(Prefix(s, m)) /\ Laid(Starts(s), s, m, Prefix(s, m))
  <2>1. \A m \in 0..n : m \in S
    <3> HIDE DEF S
    <3> QED
      BY <1>1, <1>5, <1>6, UpTo
  <2> QED
    BY <2>1
<1>8. \A m \in 1..n : Len(Prefix(s, m)) = Len(Prefix(s, m - 1)) + Len(s[m])
  <2> TAKE m \in 1..n
  <2>1. IsArray(s[m]) /\ m - 1 \in 0..n
    BY <1>1
  <2>2. IsArray(Prefix(s, m - 1))
    BY <1>7, <2>1
  <2>3. Prefix(s, m) = Prefix(s, m - 1) \o s[m]
    BY <1>4
  <2> QED
    BY <2>1, <2>2, <2>3, JoinedArrays
<1>9. n \in 0..n
  BY <1>1
<1> QED
  BY <1>2, <1>3, <1>7, <1>8, <1>9, ArrayParts DEF n

\* Every place of the joined sequence F is one place of one of the sequences.
Onto(K, I, F, s) ==
  /\ \A p \in DOMAIN F : K[p] \in DOMAIN s /\ I[p] \in DOMAIN s[K[p]] /\ F[p] = s[K[p]][I[p]]
  /\ \A p, q \in DOMAIN F : K[p] = K[q] /\ I[p] = I[q] => p = q
  /\ \A k \in DOMAIN s : \A i \in DOMAIN s[k] : \E p \in DOMAIN F : K[p] = k /\ I[p] = i

\* Every position of the result is one position of one of the sequences.
LEMMA FlattenPlaces ==
  ASSUME NEW s, IsArray(s), \A k \in DOMAIN s : IsArray(s[k])
  PROVE  IsArray(FlattenSeq(s)) /\ \E K, I : Onto(K, I, FlattenSeq(s), s)
<1> DEFINE n == Len(s)
           F == FlattenSeq(s)
<1>1. n \in Nat /\ DOMAIN s = 1..n
  BY ArrayParts
<1>2. IsArray(F) /\ Len(F) \in Nat /\ DOMAIN F = 1..Len(F)
  BY FlattenLaid, ArrayParts
<1>3. PICK off : Laid(off, s, n, F)
  BY FlattenLaid
<1> HIDE DEF n, F
<1>4. \A k \in 1..n : DOMAIN s[k] = 1..Len(s[k]) /\ Len(s[k]) \in Nat
  BY <1>1, ArrayParts
<1>5. /\ \A k \in 1..n : off[k] \in Nat /\ off[k] + Len(s[k]) <= Len(F)
      /\ \A k \in 1..n : \A i \in 1..Len(s[k]) : off[k] + i \in 1..Len(F) /\ F[off[k] + i] = s[k][i]
  BY <1>3 DEF Laid
<1>6. \A k, l \in 1..n : k < l => off[k] + Len(s[k]) <= off[l]
  BY <1>3 DEF Laid
<1>7. \A p \in 1..Len(F) : \E k \in 1..n : p - off[k] \in 1..Len(s[k])
  BY <1>3 DEF Laid
<1>8. \A p \in 1..Len(F) : \E k \in 1..n : \E i \in 1..Len(s[k]) : p = off[k] + i /\ F[p] = s[k][i]
  <2> TAKE p \in 1..Len(F)
  <2>1. PICK k \in 1..n : p - off[k] \in 1..Len(s[k])
    BY <1>7
  <2>2. p = off[k] + (p - off[k])
    BY <1>5, <2>1
  <2> QED
    BY <1>5, <2>1, <2>2
<1>9. ASSUME NEW k \in 1..n, NEW l \in 1..n, NEW i \in 1..Len(s[k]), NEW j \in 1..Len(s[l]),
             off[k] + i = off[l] + j
      PROVE  k = l /\ i = j
  <2>0. /\ off[k] \in Nat /\ off[l] \in Nat /\ Len(s[k]) \in Nat /\ Len(s[l]) \in Nat
        /\ i \in Nat /\ j \in Nat /\ i <= Len(s[k]) /\ j <= Len(s[l]) /\ 0 < i /\ 0 < j
    BY <1>4, <1>5
  <2>1. ~(k < l)
    <3>1. ASSUME k < l PROVE FALSE
      BY <1>6, <3>1, <1>9, <2>0
    <3> QED
      BY <3>1
  <2>2. ~(l < k)
    <3>1. ASSUME l < k PROVE FALSE
      BY <1>6, <3>1, <1>9, <2>0
    <3> QED
      BY <3>1
  <2>3. k = l
    BY <1>1, <2>1, <2>2
  <2> QED
    BY <1>9, <2>0, <2>3
<1> DEFINE K == [p \in 1..Len(F) |-> CHOOSE k \in 1..n : p - off[k] \in 1..Len(s[k])]
           I == [p \in 1..Len(F) |-> p - off[K[p]]]
<1>10. ASSUME NEW p \in 1..Len(F)
       PROVE  K[p] \in 1..n /\ p - off[K[p]] \in 1..Len(s[K[p]]) /\ I[p] = p - off[K[p]]
  BY <1>7
<1> HIDE DEF K, I
<1>11. ASSUME NEW p \in 1..Len(F)
       PROVE  K[p] \in 1..n /\ I[p] \in 1..Len(s[K[p]]) /\ p = off[K[p]] + I[p] /\ F[p] = s[K[p]][I[p]]
  BY <1>10, <1>5, SMTT(30)
<1>12. ASSUME NEW k \in 1..n, NEW i \in 1..Len(s[k]) PROVE \E p \in 1..Len(F) : K[p] = k /\ I[p] = i
  <2>1. off[k] + i \in 1..Len(F)
    BY <1>5
  <2> DEFINE p == off[k] + i
  <2>2. p \in 1..Len(F) /\ p = off[k] + i
    BY <2>1
  <2> HIDE DEF p
  <2>3. K[p] \in 1..n /\ I[p] \in 1..Len(s[K[p]]) /\ off[k] + i = off[K[p]] + I[p]
    BY <1>11, <2>2
  <2>4. k = K[p] /\ i = I[p]
    BY <1>9, <2>3
  <2> QED
    BY <2>2, <2>4
<1>13. Onto(K, I, F, s)
  <2>1. \A p \in DOMAIN F : K[p] \in DOMAIN s /\ I[p] \in DOMAIN s[K[p]] /\ F[p] = s[K[p]][I[p]]
    BY <1>1, <1>2, <1>4, <1>11
  <2>2. ASSUME NEW p \in DOMAIN F, NEW q \in DOMAIN F, K[p] = K[q], I[p] = I[q] PROVE p = q
    BY <1>2, <1>11, <2>2
  <2>3. ASSUME NEW k \in DOMAIN s, NEW i \in DOMAIN s[k] PROVE \E p \in DOMAIN F : K[p] = k /\ I[p] = i
    <3>1. k \in 1..n /\ i \in 1..Len(s[k])
      BY <1>1, <1>4
    <3>2. PICK p \in 1..Len(F) : K[p] = k /\ I[p] = i
      BY <1>12, <3>1
    <3> QED
      BY <1>2, <3>2
  <2> QED
    BY <2>1, <2>2, <2>3 DEF Onto
<1> QED
  BY <1>2, <1>13 DEF F

\* What is flattened holds what its parts hold, and no id twice when none of the parts shares one.
LEMMA FlattenParts ==
  ASSUME NEW s, IsArray(s), \A k \in DOMAIN s : IsArray(s[k])
  PROVE  /\ IsArray(FlattenSeq(s))
         /\ \A x : x \in ToSet(FlattenSeq(s)) <=> \E k \in DOMAIN s : x \in ToSet(s[k])
         /\ Distinct(FlattenSeq(s)) <=>
              /\ \A k \in DOMAIN s : Distinct(s[k])
              /\ \A k, l \in DOMAIN s : k # l => IdsOf(s[k]) \cap IdsOf(s[l]) = {}
<1> DEFINE F == FlattenSeq(s)
<1>1. IsArray(F)
  BY FlattenPlaces
<1>2. PICK K, I : Onto(K, I, F, s)
  BY FlattenPlaces
<1> HIDE DEF F
<1>5. ASSUME NEW x PROVE x \in ToSet(F) <=> \E k \in DOMAIN s : x \in ToSet(s[k])
  <2>1. ASSUME NEW p \in DOMAIN F, x = F[p] PROVE \E k \in DOMAIN s : x \in ToSet(s[k])
    BY <1>2, <2>1 DEF Onto, ToSet
  <2>2. ASSUME NEW k \in DOMAIN s, NEW i \in DOMAIN s[k], x = s[k][i] PROVE x \in ToSet(F)
    <3>1. PICK p \in DOMAIN F : K[p] = k /\ I[p] = i
      BY <1>2 DEF Onto
    <3> QED
      BY <1>2, <2>2, <3>1 DEF Onto, ToSet
  <2> QED
    BY <2>1, <2>2 DEF ToSet
<1>6. ASSUME Distinct(F), NEW k \in DOMAIN s, NEW l \in DOMAIN s, NEW i \in DOMAIN s[k], NEW j \in DOMAIN s[l],
             s[k][i].id = s[l][j].id
      PROVE  k = l /\ i = j
  <2>1. PICK p \in DOMAIN F : K[p] = k /\ I[p] = i
    BY <1>2 DEF Onto
  <2>2. PICK q \in DOMAIN F : K[q] = l /\ I[q] = j
    BY <1>2 DEF Onto
  <2>3. F[p] = s[k][i] /\ F[q] = s[l][j]
    BY <1>2, <2>1, <2>2 DEF Onto
  <2>4. p = q
    BY <1>6, <2>3 DEF Distinct
  <2> QED
    BY <2>1, <2>2, <2>4
<1>7. ASSUME Distinct(F)
      PROVE  /\ \A k \in DOMAIN s : Distinct(s[k])
             /\ \A k, l \in DOMAIN s : k # l => IdsOf(s[k]) \cap IdsOf(s[l]) = {}
  <2>1. \A k \in DOMAIN s : Distinct(s[k])
    BY <1>6, <1>7 DEF Distinct
  <2>2. ASSUME NEW k \in DOMAIN s, NEW l \in DOMAIN s, k # l PROVE IdsOf(s[k]) \cap IdsOf(s[l]) = {}
    BY <1>6, <1>7, <2>2 DEF IdsOf
  <2> QED
    BY <2>1, <2>2
<1>8. ASSUME \A k \in DOMAIN s : Distinct(s[k]),
             \A k, l \in DOMAIN s : k # l => IdsOf(s[k]) \cap IdsOf(s[l]) = {}
      PROVE  Distinct(F)
  <2> SUFFICES ASSUME NEW p \in DOMAIN F, NEW q \in DOMAIN F, F[p].id = F[q].id PROVE p = q
    BY DEF Distinct
  <2> DEFINE k == K[p]
             i == I[p]
             l == K[q]
             j == I[q]
  <2>1. /\ k \in DOMAIN s /\ i \in DOMAIN s[k] /\ F[p] = s[k][i]
        /\ l \in DOMAIN s /\ j \in DOMAIN s[l] /\ F[q] = s[l][j]
        /\ k = l /\ i = j => p = q
    BY <1>2 DEF Onto
  <2> HIDE DEF k, i, l, j
  <2>2. s[k][i].id \in IdsOf(s[k]) /\ s[k][i].id \in IdsOf(s[l])
    BY <2>1 DEF IdsOf
  <2>3. k = l
    BY <1>8, <2>1, <2>2
  <2>4. i = j
    BY <1>8, <2>1, <2>3 DEF Distinct
  <2> QED
    BY <2>1, <2>3, <2>4
<1> QED
  BY <1>1, <1>5, <1>7, <1>8 DEF F

-----------------------------------------------------------------------------
(* Sound in every part: no id twice in the tree, and no score in a banned cell. *)

\* A head, a list and any number of parts that have no element in common.
Apart(H, L, n, f) ==
  /\ H \cap L = {}
  /\ \A i \in 1..n : f[i] \cap H = {} /\ f[i] \cap L = {}
  /\ \A i, j \in 1..n : i # j => f[i] \cap f[j] = {}

\* What each of them becomes holds what was there and, in one of them, the new elements X.
Grows(H2, L2, f2, H, L, n, f, w, X) ==
  /\ X \cap H = {} /\ X \cap L = {} /\ \A i \in 1..n : X \cap f[i] = {}
  /\ \A x \in H2 : x \in H \/ (w = -1 /\ x \in X)
  /\ \A x \in L2 : x \in L \/ (w = 0 /\ x \in X)
  /\ \A i \in 1..n : \A x \in f2[i] : x \in f[i] \/ (w = i /\ x \in X)

\* Parts that were apart stay so, when one of them gets new elements.
LEMMA ApartGrown ==
  ASSUME NEW H, NEW L, NEW n, NEW f, Apart(H, L, n, f),
         NEW H2, NEW L2, NEW f2, NEW X, NEW w, Grows(H2, L2, f2, H, L, n, f, w, X)
  PROVE  Apart(H2, L2, n, f2)
<1>1. H2 \cap L2 = {}
  BY DEF Apart, Grows
<1>2. ASSUME NEW i \in 1..n PROVE f2[i] \cap H2 = {}
  <2> SUFFICES ASSUME NEW x, x \in f2[i], x \in H2 PROVE FALSE
    OBVIOUS
  <2>1. (x \in f[i] \/ (w = i /\ x \in X)) /\ (x \in H \/ (w = -1 /\ x \in X))
    BY DEF Grows
  <2>2. i # -1
    OBVIOUS
  <2> QED
    BY <2>1, <2>2 DEF Apart, Grows
<1>3. ASSUME NEW i \in 1..n PROVE f2[i] \cap L2 = {}
  <2> SUFFICES ASSUME NEW x, x \in f2[i], x \in L2 PROVE FALSE
    OBVIOUS
  <2>1. (x \in f[i] \/ (w = i /\ x \in X)) /\ (x \in L \/ (w = 0 /\ x \in X))
    BY DEF Grows
  <2>2. i # 0
    OBVIOUS
  <2> QED
    BY <2>1, <2>2 DEF Apart, Grows
<1>4. ASSUME NEW i \in 1..n, NEW j \in 1..n, i # j PROVE f2[i] \cap f2[j] = {}
  <2> SUFFICES ASSUME NEW x, x \in f2[i], x \in f2[j] PROVE FALSE
    OBVIOUS
  <2>1. (x \in f[i] \/ (w = i /\ x \in X)) /\ (x \in f[j] \/ (w = j /\ x \in X))
    BY DEF Grows
  <2>2. ~(x \in f[i] /\ x \in f[j])
    BY <1>4 DEF Apart
  <2>3. ~(w = i /\ w = j) /\ (x \in X => x \notin f[i] /\ x \notin f[j])
    BY <1>4 DEF Grows
  <2> QED
    BY <2>1, <2>2, <2>3
<1> QED
  BY <1>1, <1>2, <1>3, <1>4 DEF Apart

\* Some of the parts, each once and in any order, are apart as well.
LEMMA ApartDrawn ==
  ASSUME NEW H, NEW L, NEW n, NEW f, Apart(H, L, n, f), NEW m, NEW p, NEW f2,
         \A k \in 1..m : p[k] \in 1..n /\ f2[k] = f[p[k]],
         \A k, l \in 1..m : p[k] = p[l] => k = l
  PROVE  Apart(H, L, m, f2)
<1>1. ASSUME NEW i \in 1..m, NEW j \in 1..m, i # j PROVE f2[i] \cap f2[j] = {}
  BY <1>1 DEF Apart
<1>2. \A i \in 1..m : f2[i] \cap H = {} /\ f2[i] \cap L = {}
  BY DEF Apart
<1> QED
  BY <1>1, <1>2 DEF Apart

\* One part more that has nothing in common with the others.
LEMMA ApartMore ==
  ASSUME NEW H, NEW L, NEW n \in Nat, NEW f, Apart(H, L, n, f), NEW f2,
         \A i \in 1..n : f2[i] = f[i],
         f2[n + 1] \cap H = {}, f2[n + 1] \cap L = {}, \A i \in 1..n : f2[n + 1] \cap f[i] = {}
  PROVE  Apart(H, L, n + 1, f2)
<1>1. \A i \in 1..(n + 1) : i \in 1..n \/ i = n + 1
  OBVIOUS
<1>2. \A i \in 1..(n + 1) : f2[i] \cap H = {} /\ f2[i] \cap L = {}
  BY <1>1 DEF Apart
<1>3. ASSUME NEW i \in 1..(n + 1), NEW j \in 1..(n + 1), i # j PROVE f2[i] \cap f2[j] = {}
  BY <1>3, <1>1 DEF Apart
<1>4. H \cap L = {}
  BY DEF Apart
<1> QED
  BY <1>2, <1>3, <1>4 DEF Apart
\* Whose thresholds are of known tiers and not of banned cells.
Tied(e, T, B) == \A t \in ToSet(e.thresholds) : t.tier \in T /\ <<e.id, t.tier>> \notin B
GoodEntry(e, T, B) == IsEntry(e) /\ Tied(e, T, B)
GoodList(l, T, B) == IsArray(l) /\ Distinct(l) /\ \A i \in DOMAIN l : GoodEntry(l[i], T, B)

SubAll(s) == {s.id} \cup IdsOf(s.scenarios)
GoodSub(s, T, B) ==
  /\ s = [id |-> s.id, name |-> s.name, scenarios |-> s.scenarios] /\ IsExpected(s.name)
  /\ GoodList(s.scenarios, T, B) /\ s.id \notin IdsOf(s.scenarios)

CatAll(c) == {c.id} \cup IdsOf(c.scenarios) \cup UNION {SubAll(c.subs[s]) : s \in DOMAIN c.subs}
SubParts(subs) == [s \in DOMAIN subs |-> SubAll(subs[s])]
GoodCategory(c, T, B) ==
  /\ c = [id |-> c.id, name |-> c.name, scenarios |-> c.scenarios, subs |-> c.subs]
  /\ IsExpected(c.name) /\ GoodList(c.scenarios, T, B)
  /\ IsArray(c.subs) /\ \A s \in DOMAIN c.subs : GoodSub(c.subs[s], T, B)
  /\ Apart({c.id}, IdsOf(c.scenarios), Len(c.subs), SubParts(c.subs))

CatParts(cs) == [c \in DOMAIN cs |-> CatAll(cs[c])]
GoodBody(u, cs, T, B) ==
  /\ GoodList(u, T, B)
  /\ IsArray(cs) /\ \A c \in DOMAIN cs : GoodCategory(cs[c], T, B)
  /\ Apart(T, IdsOf(u), Len(cs), CatParts(cs))

GoodTiers(tiers) == IsArray(tiers) /\ Distinct(tiers) /\ \A t \in DOMAIN tiers : IsTier(tiers[t])

\* Sound in every part, with no threshold in a banned cell.
Good(b, B) ==
  /\ b = [name |-> b.name, tiers |-> b.tiers, uncategorized |-> b.uncategorized, categories |-> b.categories]
  /\ IsExpected(b.name) /\ GoodTiers(b.tiers) /\ GoodBody(b.uncategorized, b.categories, IdsOf(b.tiers), B)

Held(u, cs) == IdsOf(u) \cup UNION {CatAll(cs[c]) : c \in DOMAIN cs}
Ids(b) == IdsOf(b.tiers) \cup Held(b.uncategorized, b.categories)

\* What is sound in every part has the shape of a benchmark.
LEMMA GoodIsBenchmark == ASSUME NEW b, NEW B, Good(b, B) PROVE IsBenchmark(b)
<1>1. ASSUME NEW l, GoodList(l, IdsOf(b.tiers), B) PROVE IsList(l)
  BY <1>1 DEF GoodList, GoodEntry, IsList
<1>2. ASSUME NEW s, GoodSub(s, IdsOf(b.tiers), B) PROVE IsSubcategory(s)
  BY <1>1, <1>2 DEF GoodSub, IsSubcategory
<1>3. ASSUME NEW c, GoodCategory(c, IdsOf(b.tiers), B) PROVE IsCategory(c)
  BY <1>1, <1>2, <1>3 DEF GoodCategory, IsCategory
<1> QED
  BY <1>1, <1>3 DEF Good, GoodBody, GoodTiers, IsBenchmark

\* The parts of subcategories and of categories, by their positions.
LEMMA PartsOf ==
  ASSUME NEW subs, IsArray(subs)
  PROVE  /\ DOMAIN subs = 1..Len(subs) /\ Len(subs) \in Nat
         /\ \A i \in 1..Len(subs) : SubParts(subs)[i] = SubAll(subs[i])
         /\ \A i \in 1..Len(subs) : CatParts(subs)[i] = CatAll(subs[i])
BY ArrayParts DEF SubParts, CatParts

\* A category whose lists were replaced: they hold what they held, and the new ids X in one of them.
LEMMA CategoryRelisted ==
  ASSUME NEW c, NEW T, NEW B, GoodCategory(c, T, B), NEW c2, NEW T2, NEW B2, NEW group, NEW X,
         c2 = [id |-> c2.id, name |-> c2.name, scenarios |-> c2.scenarios, subs |-> c2.subs],
         c2.id = c.id, IsExpected(c2.name), GoodList(c2.scenarios, T2, B2),
         \A x \in IdsOf(c2.scenarios) : x \in IdsOf(c.scenarios) \/ (c.id = group /\ x \in X),
         IsArray(c2.subs), Len(c2.subs) = Len(c.subs),
         \A s \in 1..Len(c.subs) : GoodSub(c2.subs[s], T2, B2) /\ c2.subs[s].id = c.subs[s].id,
         \A s \in 1..Len(c.subs) : \A x \in SubAll(c2.subs[s]) :
            x \in SubAll(c.subs[s]) \/ (c.subs[s].id = group /\ x \in X),
         X \cap CatAll(c) = {}
  PROVE  /\ GoodCategory(c2, T2, B2)
         /\ \A x \in CatAll(c2) : x \in CatAll(c) \/ (group \in CatAll(c) /\ x \in X)
<1> DEFINE n == Len(c.subs)
           H == {c.id}
           L == IdsOf(c.scenarios)
           f == SubParts(c.subs)
           f2 == SubParts(c2.subs)
<1>1. /\ n \in Nat /\ DOMAIN c.subs = 1..n /\ DOMAIN c2.subs = 1..n
      /\ \A i \in 1..n : f[i] = SubAll(c.subs[i])
      /\ \A i \in 1..n : f2[i] = SubAll(c2.subs[i])
  BY PartsOf DEF GoodCategory
<1>2. Apart(H, L, n, f)
  BY DEF GoodCategory
<1> HIDE DEF f, f2, n
<1>3. X \cap H = {} /\ X \cap L = {} /\ \A i \in 1..n : X \cap f[i] = {}
  BY <1>1 DEF CatAll
<1>4. \A i \in 1..n : c.subs[i].id \in f[i]
  BY <1>1 DEF SubAll
<1>5. \E w : /\ w # -1 /\ (c.id = group => w = 0)
             /\ \A i \in 1..n : c.subs[i].id = group => w = i
  <2>1. CASE c.id = group
    BY <1>2, <1>4, <2>1 DEF Apart
  <2>2. CASE c.id # group /\ \E i \in 1..n : c.subs[i].id = group
    <3>1. PICK i \in 1..n : c.subs[i].id = group
      BY <2>2
    <3>2. ASSUME NEW j \in 1..n, c.subs[j].id = group PROVE i = j
      BY <1>2, <1>4, <3>1, <3>2 DEF Apart
    <3>3. i # -1
      OBVIOUS
    <3> QED
      BY <2>2, <3>2, <3>3
  <2>3. CASE c.id # group /\ \A i \in 1..n : c.subs[i].id # group
    <3>1. 0 # -1 /\ (c.id = group => 0 = 0) /\ \A i \in 1..n : c.subs[i].id = group => 0 = i
      BY <2>3
    <3> QED
      BY <3>1
  <2> QED
    BY <2>1, <2>2, <2>3
<1>6. PICK w : w # -1 /\ (c.id = group => w = 0) /\ \A i \in 1..n : c.subs[i].id = group => w = i
  BY <1>5
<1>7. \A x \in IdsOf(c2.scenarios) : x \in L \/ (w = 0 /\ x \in X)
  BY <1>6
<1>8. \A i \in 1..n : \A x \in f2[i] : x \in f[i] \/ (w = i /\ x \in X)
  BY <1>1, <1>6 DEF n
<1>9. Apart(H, IdsOf(c2.scenarios), n, f2)
  <2>1. Grows(H, IdsOf(c2.scenarios), f2, H, L, n, f, w, X)
    BY <1>3, <1>7, <1>8 DEF Grows
  <2> HIDE DEF H, L
  <2> QED
    BY <1>2, <2>1, ApartGrown
<1>10. GoodCategory(c2, T2, B2)
  BY <1>1, <1>9 DEF GoodCategory, n, f2
<1>11. ASSUME NEW x \in CatAll(c2) PROVE x \in CatAll(c) \/ (group \in CatAll(c) /\ x \in X)
  <2>1. CASE x = c2.id
    BY <2>1 DEF CatAll
  <2>2. CASE x \in IdsOf(c2.scenarios)
    BY <2>2 DEF CatAll
  <2>3. CASE \E i \in 1..n : x \in SubAll(c2.subs[i])
    <3>1. PICK i \in 1..n : x \in SubAll(c2.subs[i])
      BY <2>3
    <3>2. x \in SubAll(c.subs[i]) \/ (c.subs[i].id = group /\ x \in X)
      BY <3>1 DEF n
    <3>3. SubAll(c.subs[i]) \subseteq CatAll(c) /\ c.subs[i].id \in SubAll(c.subs[i])
      BY <1>1 DEF CatAll, SubAll
    <3> QED
      BY <3>2, <3>3
  <2>4. x = c2.id \/ x \in IdsOf(c2.scenarios) \/ \E i \in 1..n : x \in SubAll(c2.subs[i])
    BY <1>1 DEF CatAll
  <2> QED
    BY <2>1, <2>2, <2>3, <2>4
<1> QED
  BY <1>10, <1>11

\* The same of the lists of a whole benchmark.
BodyChanges(u2, cs2, T2, B2, u, cs, T, group, X) ==
  /\ T2 \subseteq T /\ GoodList(u2, T2, B2)
  /\ \A x \in IdsOf(u2) : x \in IdsOf(u) \/ (NoGroup = group /\ x \in X)
  /\ IsArray(cs2) /\ Len(cs2) = Len(cs)
  /\ \A c \in 1..Len(cs) : GoodCategory(cs2[c], T2, B2)
  /\ \A c \in 1..Len(cs) : \A x \in CatAll(cs2[c]) : x \in CatAll(cs[c]) \/ (group \in CatAll(cs[c]) /\ x \in X)
  /\ X \cap T = {} /\ X \cap Held(u, cs) = {} /\ NoGroup \notin Held(u, cs)

\* Lists and categories stay sound, and apart, when what is new goes into one group.
LEMMA BodyRelisted ==
  ASSUME NEW u, NEW cs, NEW T, NEW B, GoodBody(u, cs, T, B), NEW u2, NEW cs2, NEW T2, NEW B2, NEW group, NEW X,
         BodyChanges(u2, cs2, T2, B2, u, cs, T, group, X)
  PROVE  /\ GoodBody(u2, cs2, T2, B2)
         /\ \A x \in Held(u2, cs2) : x \in Held(u, cs) \/ x \in X
<1> DEFINE n == Len(cs)
           L == IdsOf(u)
           f == CatParts(cs)
           f2 == CatParts(cs2)
<1>1. /\ n \in Nat /\ DOMAIN cs = 1..n /\ DOMAIN cs2 = 1..n
      /\ \A i \in 1..n : f[i] = CatAll(cs[i])
      /\ \A i \in 1..n : f2[i] = CatAll(cs2[i])
  BY PartsOf DEF GoodBody, BodyChanges
<1>2. Apart(T, L, n, f)
  BY DEF GoodBody
<1> HIDE DEF f, f2, n
<1>3. /\ X \cap L = {} /\ \A i \in 1..n : X \cap f[i] = {}
      /\ \A i \in 1..n : NoGroup \notin f[i]
  BY <1>1 DEF Held, BodyChanges
<1>5. \E w : /\ w # -1 /\ (NoGroup = group => w = 0)
             /\ \A i \in 1..n : group \in f[i] => w = i
  <2>1. CASE NoGroup = group
    BY <1>3, <2>1
  <2>2. CASE NoGroup # group /\ \E i \in 1..n : group \in f[i]
    <3>1. PICK i \in 1..n : group \in f[i]
      BY <2>2
    <3>2. ASSUME NEW j \in 1..n, group \in f[j] PROVE i = j
      BY <1>2, <3>1, <3>2 DEF Apart
    <3>3. i # -1
      OBVIOUS
    <3> QED
      BY <2>2, <3>2, <3>3
  <2>3. CASE NoGroup # group /\ \A i \in 1..n : group \notin f[i]
    BY <2>3
  <2> QED
    BY <2>1, <2>2, <2>3
<1>6. PICK w : w # -1 /\ (NoGroup = group => w = 0) /\ \A i \in 1..n : group \in f[i] => w = i
  BY <1>5
<1>7. \A x \in IdsOf(u2) : x \in L \/ (w = 0 /\ x \in X)
  BY <1>6 DEF BodyChanges
<1>8. \A i \in 1..n : \A x \in f2[i] : x \in f[i] \/ (w = i /\ x \in X)
  BY <1>1, <1>6 DEF n, BodyChanges
<1>9. Apart(T2, IdsOf(u2), n, f2)
  <2>1. Grows(T2, IdsOf(u2), f2, T, L, n, f, w, X)
    BY <1>3, <1>7, <1>8 DEF Grows, BodyChanges
  <2> HIDE DEF L
  <2> QED
    BY <1>2, <2>1, ApartGrown
<1>10. GoodBody(u2, cs2, T2, B2)
  BY <1>1, <1>9 DEF GoodBody, n, f2, BodyChanges
<1>11. ASSUME NEW x \in Held(u2, cs2) PROVE x \in Held(u, cs) \/ x \in X
  <2>1. CASE x \in IdsOf(u2)
    BY <2>1 DEF Held, BodyChanges
  <2>2. CASE \E i \in 1..n : x \in CatAll(cs2[i])
    <3>1. PICK i \in 1..n : x \in CatAll(cs2[i])
      BY <2>2
    <3>2. x \in CatAll(cs[i]) \/ x \in X
      BY <3>1 DEF n, BodyChanges
    <3>3. CatAll(cs[i]) \subseteq Held(u, cs)
      BY <1>1 DEF Held
    <3> QED
      BY <3>2, <3>3
  <2> QED
    BY <1>1, <2>1, <2>2 DEF Held
<1> QED
  BY <1>10, <1>11

\* b2 is b with other tiers and other lists, of the same groups.
Relists(b, b2) ==
  /\ b2 = [name |-> b2.name, tiers |-> b2.tiers, uncategorized |-> b2.uncategorized, categories |-> b2.categories]
  /\ b2.name = b.name
  /\ b2.categories = [c \in DOMAIN b.categories |-> b2.categories[c]]
  /\ \A c \in DOMAIN b.categories :
       LET was == b.categories[c]
           is == b2.categories[c]
       IN /\ is = [id |-> was.id, name |-> was.name, scenarios |-> is.scenarios, subs |-> is.subs]
          /\ is.subs = [s \in DOMAIN was.subs |-> is.subs[s]]
          /\ \A s \in DOMAIN was.subs :
               is.subs[s] = [id |-> was.subs[s].id, name |-> was.subs[s].name, scenarios |-> is.subs[s].scenarios]

\* What may become of a list of a group, when X goes into one of them.
Fits(l2, l, g, T2, B2, group, X) ==
  GoodList(l2, T2, B2) /\ \A x \in IdsOf(l2) : x \in IdsOf(l) \/ (g = group /\ x \in X)

Relisting(b2, b, B2, group, X) ==
  /\ Relists(b, b2) /\ GoodTiers(b2.tiers) /\ IdsOf(b2.tiers) \subseteq IdsOf(b.tiers)
  /\ Fits(b2.uncategorized, b.uncategorized, NoGroup, IdsOf(b2.tiers), B2, group, X)
  /\ \A c \in DOMAIN b.categories :
       Fits(b2.categories[c].scenarios, b.categories[c].scenarios, b.categories[c].id, IdsOf(b2.tiers), B2, group, X)
  /\ \A c \in DOMAIN b.categories : \A s \in DOMAIN b.categories[c].subs :
       Fits(b2.categories[c].subs[s].scenarios, b.categories[c].subs[s].scenarios, b.categories[c].subs[s].id,
            IdsOf(b2.tiers), B2, group, X)
  /\ X \cap Ids(b) = {} /\ NoGroup \notin Ids(b)

\* A benchmark stays sound when its lists are replaced and what is new in them goes into one group.
LEMMA Relisted ==
  ASSUME NEW b, NEW B, Good(b, B), NEW b2, NEW B2, NEW group, NEW X, Relisting(b2, b, B2, group, X)
  PROVE  Good(b2, B2) /\ \A x \in Ids(b2) : x \in Ids(b) \/ x \in X
<1> DEFINE T == IdsOf(b.tiers)
           T2 == IdsOf(b2.tiers)
           cs == b.categories
           cs2 == b2.categories
           n == Len(cs)
<1>1. /\ GoodBody(b.uncategorized, cs, T, B) /\ IsArray(cs) /\ n \in Nat /\ DOMAIN cs = 1..n
      /\ \A c \in 1..n : GoodCategory(cs[c], T, B)
  BY ArrayParts DEF Good, GoodBody
<1>2. X \cap T = {} /\ X \cap Held(b.uncategorized, cs) = {} /\ NoGroup \notin Held(b.uncategorized, cs)
  BY DEF Ids, Relisting
<1>3. \A c \in 1..n : X \cap CatAll(cs[c]) = {}
  BY <1>1, <1>2 DEF Held
<1>4. IsArray(cs2) /\ Len(cs2) = n
  BY <1>1, ArrayOfLength DEF Relists, Relisting
<1>5. ASSUME NEW c \in 1..n
      PROVE  /\ GoodCategory(cs2[c], T2, B2)
             /\ \A x \in CatAll(cs2[c]) : x \in CatAll(cs[c]) \/ (group \in CatAll(cs[c]) /\ x \in X)
  <2> DEFINE was == cs[c]
             is == cs2[c]
             m == Len(was.subs)
  <2>1. GoodCategory(was, T, B)
    BY <1>1
  <2>2. /\ IsArray(was.subs) /\ m \in Nat /\ DOMAIN was.subs = 1..m /\ IsExpected(was.name)
        /\ \A s \in 1..m : GoodSub(was.subs[s], T, B)
    BY <2>1, ArrayParts DEF GoodCategory
  <2>3. /\ is = [id |-> was.id, name |-> was.name, scenarios |-> is.scenarios, subs |-> is.subs]
        /\ is.subs = [s \in 1..m |-> is.subs[s]]
    BY <1>1, <2>2 DEF Relists, Relisting
  <2>4. \A s \in 1..m :
          is.subs[s] = [id |-> was.subs[s].id, name |-> was.subs[s].name, scenarios |-> is.subs[s].scenarios]
    BY <1>1, <2>2 DEF Relists, Relisting
  <2>5. Fits(is.scenarios, was.scenarios, was.id, T2, B2, group, X)
    BY <1>1 DEF Relisting
  <2>6. \A s \in 1..m : Fits(is.subs[s].scenarios, was.subs[s].scenarios, was.subs[s].id, T2, B2, group, X)
    BY <1>1, <2>2 DEF Relisting
  <2>7. X \cap CatAll(was) = {}
    BY <1>3
  <2> HIDE DEF cs, cs2, T, T2, m, was, is, n
  <2>8. IsArray(is.subs) /\ Len(is.subs) = m
    BY <2>2, <2>3, ArrayOfLength
  <2>9. ASSUME NEW s \in 1..m
        PROVE  /\ GoodSub(is.subs[s], T2, B2) /\ is.subs[s].id = was.subs[s].id
               /\ \A x \in SubAll(is.subs[s]) : x \in SubAll(was.subs[s]) \/ (was.subs[s].id = group /\ x \in X)
    <3> DEFINE old == was.subs[s]
               new == is.subs[s]
    <3>1. new = [id |-> old.id, name |-> old.name, scenarios |-> new.scenarios]
      BY <2>4
    <3>2. GoodSub(old, T, B)
      BY <2>2
    <3>3. GoodList(new.scenarios, T2, B2)
          /\ \A x \in IdsOf(new.scenarios) : x \in IdsOf(old.scenarios) \/ (old.id = group /\ x \in X)
      BY <2>6 DEF Fits
    <3>4. X \cap SubAll(old) = {}
      BY <2>2, <2>7 DEF CatAll
    <3> HIDE DEF old, new
    <3>5. new.id = old.id /\ new.name = old.name
      BY <3>1
    <3>6. \A x \in SubAll(new) : x \in SubAll(old) \/ (old.id = group /\ x \in X)
      BY <3>3, <3>5 DEF SubAll
    <3>7. new.id \notin IdsOf(new.scenarios)
      BY <3>2, <3>3, <3>4, <3>5 DEF GoodSub, SubAll
    <3>8. GoodSub(new, T2, B2)
      BY <3>1, <3>2, <3>3, <3>5, <3>7 DEF GoodSub
    <3> QED
      BY <3>5, <3>6, <3>8 DEF old, new
  <2>10. is = [id |-> is.id, name |-> is.name, scenarios |-> is.scenarios, subs |-> is.subs]
         /\ is.id = was.id /\ is.name = was.name
    BY <2>3
  <2>11. GoodList(is.scenarios, T2, B2)
         /\ \A x \in IdsOf(is.scenarios) : x \in IdsOf(was.scenarios) \/ (was.id = group /\ x \in X)
    BY <2>5 DEF Fits
  <2>12. \A s \in 1..Len(was.subs) : GoodSub(is.subs[s], T2, B2) /\ is.subs[s].id = was.subs[s].id
    BY <2>9 DEF m
  <2>13. \A s \in 1..Len(was.subs) : \A x \in SubAll(is.subs[s]) :
            x \in SubAll(was.subs[s]) \/ (was.subs[s].id = group /\ x \in X)
    BY <2>9 DEF m
  <2>14. Len(is.subs) = Len(was.subs) /\ IsExpected(is.name)
    BY <2>2, <2>8, <2>10 DEF m
  <2>15. GoodCategory(is, T2, B2) /\ \A x \in CatAll(is) : x \in CatAll(was) \/ (group \in CatAll(was) /\ x \in X)
    BY <2>1, <2>7, <2>8, <2>10, <2>11, <2>12, <2>13, <2>14, CategoryRelisted
  <2> QED
    BY <2>15 DEF was, is
<1>6. /\ T2 \subseteq T /\ GoodList(b2.uncategorized, T2, B2)
      /\ \A x \in IdsOf(b2.uncategorized) : x \in IdsOf(b.uncategorized) \/ (NoGroup = group /\ x \in X)
  BY DEF Fits, Relisting
<1>7. \A c \in 1..Len(cs) : GoodCategory(cs2[c], T2, B2)
  BY <1>5
<1>8. \A c \in 1..Len(cs) : \A x \in CatAll(cs2[c]) : x \in CatAll(cs[c]) \/ (group \in CatAll(cs[c]) /\ x \in X)
  BY <1>5
<1>9. /\ GoodBody(b2.uncategorized, cs2, T2, B2)
      /\ \A x \in Held(b2.uncategorized, cs2) : x \in Held(b.uncategorized, cs) \/ x \in X
  <2>1. BodyChanges(b2.uncategorized, cs2, T2, B2, b.uncategorized, cs, T, group, X)
    BY <1>1, <1>2, <1>4, <1>6, <1>7, <1>8 DEF BodyChanges
  <2> HIDE DEF cs, cs2, T, T2
  <2> QED
    BY <1>1, <2>1, BodyRelisted
<1>10. Good(b2, B2)
  BY <1>9 DEF Relists, Relisting, Good
<1> QED
  BY <1>9, <1>10 DEF Ids, Relisting

\* Some of the elements of a sequence, each once.
Drawn(s2, s) == IsArray(s2) /\ Distinct(s2) /\ ToSet(s2) \subseteq ToSet(s)

\* The elements at some positions are some of the elements.
LEMMA WithoutDrawn ==
  ASSUME NEW s, IsArray(s), Distinct(s), NEW P, P \subseteq DOMAIN s
  PROVE  Drawn(At(s, P), s) /\ ToSet(At(s, P)) = {s[i] : i \in P}
<1>1. IsArray(At(s, P)) /\ Distinct(At(s, P)) /\ ToSet(At(s, P)) = {s[i] : i \in P}
  BY Selection, SelectionKeeps
<1>2. {s[i] : i \in P} \subseteq ToSet(s)
  BY DEF ToSet
<1> QED
  BY <1>1, <1>2 DEF Drawn

\* An id that is there has a position and an element.
LEMMA HasPosition ==
  ASSUME NEW s, NEW id, id \in IdsOf(s)
  PROVE  PositionOf(s, id) \in DOMAIN s /\ s[PositionOf(s, id)].id = id
         /\ WithId(s, id) \in ToSet(s) /\ WithId(s, id).id = id
<1>1. \E i \in DOMAIN s : s[i].id = id
  BY DEF IdsOf
<1>2. PositionOf(s, id) \in DOMAIN s /\ s[PositionOf(s, id)].id = id
  BY <1>1 DEF PositionOf
<1> QED
  BY <1>2 DEF WithId, ToSet

\* A sequence of one element.
LEMMA OneArray == ASSUME NEW x PROVE IsArray(<<x>>) /\ Distinct(<<x>>) /\ ToSet(<<x>>) = {x} /\ IdsOf(<<x>>) = {x.id} /\ Len(<<x>>) = 1
<1>1. <<x>> = [i \in 1..1 |-> x] /\ DOMAIN <<x>> = 1..1 /\ <<x>>[1] = x /\ 1..1 = {1}
  OBVIOUS
<1>2. ToSet(<<x>>) = {x} /\ IdsOf(<<x>>) = {x.id}
  BY <1>1 DEF ToSet, IdsOf
<1>3. Distinct(<<x>>)
  BY <1>1 DEF Distinct
<1>4. IsArray(<<x>>)
  BY <1>2 DEF IsArray
<1> QED
  BY <1>2, <1>3, <1>4

\* The empty sequence.
LEMMA EmptyArray == IsArray(<<>>) /\ Distinct(<<>>) /\ IsInjective(<<>>) /\ ToSet(<<>>) = {} /\ IdsOf(<<>>) = {} /\ Len(<<>>) = 0
BY DEF IsArray, Distinct, IsInjective, ToSet, IdsOf

\* What a sequence becomes when a piece is put in before a position.
LEMMA Inserted ==
  ASSUME NEW s, IsArray(s), Distinct(s), NEW k \in 0..Len(s), NEW t, IsArray(t), Distinct(t),
         IdsOf(s) \cap IdsOf(t) = {}
  PROVE  LET r == SubSeq(s, 1, k) \o t \o SubSeq(s, k + 1, Len(s))
         IN IsArray(r) /\ Distinct(r) /\ ToSet(r) = ToSet(s) \cup ToSet(t)
            /\ Len(r) = Len(s) + Len(t)
<1> DEFINE u == SubSeq(s, 1, k)
           v == SubSeq(s, k + 1, Len(s))
           r == (u \o t) \o v
<1>1. IsArray(u) /\ IsArray(v) /\ s = u \o v /\ Len(u) = k /\ Len(v) = Len(s) - k /\ Len(s) \in Nat /\ Len(t) \in Nat
  BY Pieces, ArrayParts
<1> HIDE DEF u, v
<1>2. Distinct(u) /\ Distinct(v) /\ IdsOf(u) \cap IdsOf(v) = {}
  BY <1>1, JoinedDistinct
<1>3. ToSet(s) = ToSet(u) \cup ToSet(v)
  BY <1>1, JoinedArrays
<1>4. IdsOf(u) \cap IdsOf(t) = {} /\ IdsOf(v) \cap IdsOf(t) = {}
  BY <1>3, IdsOfSet
<1>5. IsArray(u \o t) /\ ToSet(u \o t) = ToSet(u) \cup ToSet(t) /\ Len(u \o t) = k + Len(t)
  BY <1>1, JoinedArrays
<1>6. Distinct(u \o t)
  BY <1>1, <1>2, <1>4, JoinedDistinct
<1>7. IdsOf(u \o t) \cap IdsOf(v) = {}
  BY <1>5, IdsOfSet, <1>2, <1>4
<1>8. IsArray(r) /\ ToSet(r) = ToSet(u \o t) \cup ToSet(v) /\ Len(r) = Len(u \o t) + Len(v)
  BY <1>1, <1>5, JoinedArrays
<1>9. Distinct(r)
  BY <1>1, <1>2, <1>5, <1>6, <1>7, JoinedDistinct
<1>10. ToSet(r) = ToSet(s) \cup ToSet(t) /\ Len(r) = Len(s) + Len(t)
  BY <1>1, <1>3, <1>5, <1>8
<1> QED
  BY <1>8, <1>9, <1>10 DEF u, v

\* Without one id: all the others, and one element less.
LEMMA WithoutOne ==
  ASSUME NEW s, IsArray(s), Distinct(s), NEW id, id \in IdsOf(s)
  PROVE  /\ Drawn(Without(s, id), s) /\ Len(Without(s, id)) = Len(s) - 1
         /\ ToSet(s) = ToSet(Without(s, id)) \cup {WithId(s, id)}
         /\ id \notin IdsOf(Without(s, id))
         /\ \A x \in IdsOf(s) : x # id => x \in IdsOf(Without(s, id))
<1> DEFINE k == PositionOf(s, id)
           P == {i \in DOMAIN s : s[i].id # id}
           n == Len(s)
<1>1. k \in DOMAIN s /\ s[k].id = id /\ WithId(s, id) = s[k]
  BY HasPosition DEF WithId
<1>2. n \in Nat /\ DOMAIN s = 1..n
  BY ArrayParts
<1>3. P = (1..n) \ {k}
  BY <1>1, <1>2 DEF Distinct
<1>4. Cardinality(P) = n - 1
  <2>1. k \in 1..n
    BY <1>1, <1>2
  <2> HIDE DEF P, k, n
  <2>2. IsFiniteSet(1..n) /\ Cardinality(1..n) = n
    BY <1>2, FS_Interval
  <2> QED
    BY <1>3, <2>1, <2>2, FS_RemoveElement
<1>5. Without(s, id) = At(s, P)
  BY DEF Without
<1>6. Drawn(At(s, P), s) /\ ToSet(At(s, P)) = {s[i] : i \in P}
  BY WithoutDrawn
<1>7. Len(At(s, P)) = n - 1
  BY <1>4, Selection
<1> HIDE DEF P, k
<1>8. \A x : x \in ToSet(s) <=> x = s[k] \/ x \in ToSet(At(s, P))
  BY <1>2, <1>3, <1>1, <1>6 DEF ToSet
<1>9. \A x \in ToSet(At(s, P)) : x.id # id
  BY <1>6 DEF P
<1>10. ToSet(s) = ToSet(At(s, P)) \cup {s[k]}
  BY <1>8
<1>11. id \notin IdsOf(At(s, P))
  BY <1>9, IdsOfSet
<1>12. \A x \in IdsOf(s) : x # id => x \in IdsOf(At(s, P))
  BY <1>1, <1>8, IdsOfSet
<1> QED
  BY <1>1, <1>5, <1>6, <1>7, <1>10, <1>11, <1>12

\* An element that is moved: the same elements in another order.
LEMMA MovedDrawn ==
  ASSUME NEW s, IsArray(s), Distinct(s), NEW id, id \in IdsOf(s), NEW position \in Nat, position < Len(s)
  PROVE  Drawn(Moved(s, id, position), s) /\ ToSet(Moved(s, id, position)) = ToSet(s)
         /\ Len(Moved(s, id, position)) = Len(s)
<1> DEFINE w == Without(s, id)
           x == WithId(s, id)
<1>1. IsArray(w) /\ Distinct(w) /\ Len(w) = Len(s) - 1 /\ ToSet(s) = ToSet(w) \cup {x} /\ id \notin IdsOf(w)
  BY WithoutOne DEF Drawn
<1>2. x.id = id
  BY HasPosition
<1>3. Len(s) \in Nat
  BY ArrayParts
<1> HIDE DEF w, x
<1>4. position \in 0..Len(w)
  BY <1>1, <1>3
<1>5. IsArray(<<x>>) /\ Distinct(<<x>>) /\ ToSet(<<x>>) = {x} /\ IdsOf(<<x>>) = {x.id} /\ Len(<<x>>) = 1
  BY OneArray
<1>6. Moved(s, id, position) = SubSeq(w, 1, position) \o <<x>> \o SubSeq(w, position + 1, Len(w))
  <2> DEFINE j == (position + 1) - 1
  <2>1. j = position
    OBVIOUS
  <2>2. Moved(s, id, position) = SubSeq(w, 1, j) \o <<x>> \o SubSeq(w, position + 1, Len(w))
    BY DEF Moved, InsertAt, w, x
  <2> HIDE DEF j
  <2> QED
    BY <2>1, <2>2
<1> DEFINE r == SubSeq(w, 1, position) \o <<x>> \o SubSeq(w, position + 1, Len(w))
<1>7. IdsOf(w) \cap IdsOf(<<x>>) = {}
  BY <1>1, <1>2, <1>5
<1>8. IsArray(r) /\ Distinct(r) /\ ToSet(r) = ToSet(w) \cup ToSet(<<x>>) /\ Len(r) = Len(w) + Len(<<x>>)
  BY <1>1, <1>4, <1>5, <1>7, Inserted
<1> HIDE DEF r
<1>9. ToSet(r) = ToSet(s) /\ Len(r) = Len(s)
  BY <1>1, <1>3, <1>5, <1>8
<1> QED
  BY <1>6, <1>8, <1>9 DEF Drawn, r

-----------------------------------------------------------------------------
(* The places of a benchmark's lists: structural integrity is what is apart in the tree. *)

\* The places of lists: (0, 0) the uncategorized one, (c, 0) that of a category, (c, s) of a subcategory.
IsSpot(b, c, s) == \/ c = 0 /\ s = 0
                   \/ c \in DOMAIN b.categories /\ (s = 0 \/ s \in DOMAIN b.categories[c].subs)
SpotList(b, c, s) == IF c = 0 THEN b.uncategorized
                     ELSE IF s = 0 THEN b.categories[c].scenarios ELSE b.categories[c].subs[s].scenarios
SpotGroup(b, c, s) == IF c = 0 THEN NoGroup
                      ELSE IF s = 0 THEN b.categories[c].id ELSE b.categories[c].subs[s].id

Spots(C, S, b) ==
  /\ \A l \in DOMAIN Lists(b) :
       /\ IsSpot(b, C[l], S[l])
       /\ Lists(b)[l].scenarios = SpotList(b, C[l], S[l])
       /\ Lists(b)[l].group = SpotGroup(b, C[l], S[l])
  /\ \A l, m \in DOMAIN Lists(b) : C[l] = C[m] /\ S[l] = S[m] => l = m
  /\ \A c, s : IsSpot(b, c, s) => \E l \in DOMAIN Lists(b) : C[l] = c /\ S[l] = s

\* A category's lists: its own and those of its subcategories.
LEMMA CategoryPlaces ==
  ASSUME NEW c, IsArray(c.subs)
  PROVE  /\ IsArray(CategoryLists(c)) /\ DOMAIN CategoryLists(c) = 1..(1 + Len(c.subs)) /\ Len(c.subs) \in Nat
         /\ DOMAIN c.subs = 1..Len(c.subs)
         /\ CategoryLists(c)[1].scenarios = c.scenarios /\ CategoryLists(c)[1].group = c.id
         /\ CategoryLists(c)[1].category = c.id
         /\ \A s \in 1..Len(c.subs) : /\ CategoryLists(c)[1 + s].scenarios = c.subs[s].scenarios
                                      /\ CategoryLists(c)[1 + s].group = c.subs[s].id
                                      /\ CategoryLists(c)[1 + s].category = c.id
<1> DEFINE x == [group |-> c.id, category |-> c.id, scenarios |-> c.scenarios]
           t == [s \in DOMAIN c.subs |->
                   [group |-> c.subs[s].id, category |-> c.id, scenarios |-> c.subs[s].scenarios]]
           n == Len(c.subs)
<1>1. n \in Nat /\ DOMAIN c.subs = 1..n
  BY ArrayParts
<1>2. IsArray(t) /\ Len(t) = n
  <2>1. t = [s \in 1..n |-> t[s]]
    BY <1>1
  <2> HIDE DEF t, n
  <2> QED
    BY <1>1, <2>1, ArrayOfLength
<1>3. IsArray(<<x>>) /\ Len(<<x>>) = 1 /\ <<x>>[1] = x
  BY OneArray
<1>4. CategoryLists(c) = <<x>> \o t
  BY DEF CategoryLists
<1>5. \A s \in 1..n : t[s].scenarios = c.subs[s].scenarios /\ t[s].group = c.subs[s].id /\ t[s].category = c.id
  BY <1>1
<1>6. x.scenarios = c.scenarios /\ x.group = c.id /\ x.category = c.id
  OBVIOUS
<1> HIDE DEF x, t, n
<1>7. /\ IsArray(<<x>> \o t) /\ Len(<<x>> \o t) = 1 + n
      /\ \A i \in 1..1 : (<<x>> \o t)[i] = <<x>>[i]
      /\ \A i \in 1..n : (<<x>> \o t)[1 + i] = t[i]
  BY <1>2, <1>3, JoinedArrays
<1>8. DOMAIN (<<x>> \o t) = 1..(1 + n)
  BY <1>7, ArrayParts
<1>9. (<<x>> \o t)[1] = x
  BY <1>3, <1>7
<1> QED
  BY <1>1, <1>4, <1>5, <1>6, <1>7, <1>8, <1>9 DEF n

\* The lists of a benchmark are the lists at its places, each once.
LEMMA ListPlaces ==
  ASSUME NEW b, IsBenchmark(b)
  PROVE  IsArray(Lists(b)) /\ \E C, S : Spots(C, S, b)
<1> DEFINE cs == b.categories
           n == Len(cs)
           q == [c \in DOMAIN cs |-> CategoryLists(cs[c])]
           u == [group |-> NoGroup, category |-> NoGroup, scenarios |-> b.uncategorized]
           G == Grouped(b)
<1>1. n \in Nat /\ DOMAIN cs = 1..n /\ \A c \in 1..n : IsArray(cs[c].subs)
  BY ArrayParts DEF IsBenchmark, IsCategory
<1>2. IsArray(q) /\ DOMAIN q = 1..n
  <2>1. q = [c \in 1..n |-> q[c]]
    BY <1>1
  <2> HIDE DEF q, n
  <2> QED
    BY <1>1, <2>1, ArrayOfLength
<1>3. \A c \in 1..n : q[c] = CategoryLists(cs[c])
  BY <1>1
<1>4. G = FlattenSeq(q)
  BY DEF Grouped
<1> HIDE DEF q, G
<1>5. ASSUME NEW c \in 1..n
      PROVE  /\ IsArray(q[c]) /\ DOMAIN q[c] = 1..(1 + Len(cs[c].subs)) /\ Len(cs[c].subs) \in Nat
             /\ DOMAIN cs[c].subs = 1..Len(cs[c].subs)
             /\ q[c][1].scenarios = cs[c].scenarios /\ q[c][1].group = cs[c].id
             /\ \A s \in 1..Len(cs[c].subs) : /\ q[c][1 + s].scenarios = cs[c].subs[s].scenarios
                                              /\ q[c][1 + s].group = cs[c].subs[s].id
  <2> DEFINE e == cs[c]
  <2>1. q[c] = CategoryLists(e) /\ IsArray(e.subs)
    BY <1>1, <1>3
  <2> HIDE DEF e
  <2>2. q[c] = CategoryLists(e) /\ IsArray(e.subs) /\ DOMAIN e.subs = 1..Len(e.subs) /\ Len(e.subs) \in Nat
    BY <2>1, CategoryPlaces
  <2> QED
    BY <2>1, <2>2, CategoryPlaces DEF e
<1>6. \A c \in DOMAIN q : IsArray(q[c])
  BY <1>2, <1>5
<1>7. IsArray(G)
  BY <1>2, <1>4, <1>6, FlattenPlaces
<1>8. PICK K, I : Onto(K, I, G, q)
  BY <1>2, <1>4, <1>6, FlattenPlaces
<1>9. IsArray(<<u>>) /\ Len(<<u>>) = 1 /\ <<u>>[1] = u /\ u.scenarios = b.uncategorized /\ u.group = NoGroup
  BY OneArray
<1>10. Lists(b) = <<u>> \o G
  BY DEF Lists, Uncategorized, G
<1> HIDE DEF u
<1> DEFINE m == Len(G)
           F == <<u>> \o G
<1>11. /\ m \in Nat /\ DOMAIN G = 1..m /\ IsArray(F) /\ DOMAIN F = 1..(1 + m)
       /\ F[1] = u /\ \A p \in 1..m : F[1 + p] = G[p]
  BY <1>7, ArrayParts, <1>9, JoinedArrays
<1> HIDE DEF m, F
<1>12. ASSUME NEW p \in 1..m
       PROVE  /\ K[p] \in 1..n /\ I[p] \in 1..(1 + Len(cs[K[p]].subs)) /\ G[p] = q[K[p]][I[p]]
              /\ I[p] = 1 \/ I[p] - 1 \in 1..Len(cs[K[p]].subs)
  <2>1. K[p] \in 1..n /\ I[p] \in DOMAIN q[K[p]] /\ G[p] = q[K[p]][I[p]]
    BY <1>2, <1>8, <1>11 DEF Onto
  <2>2. DOMAIN q[K[p]] = 1..(1 + Len(cs[K[p]].subs)) /\ Len(cs[K[p]].subs) \in Nat
    BY <1>5, <2>1
  <2> QED
    BY <2>1, <2>2
<1> DEFINE C == [l \in 1..(1 + m) |-> IF l = 1 THEN 0 ELSE K[l - 1]]
           S == [l \in 1..(1 + m) |-> IF l = 1 THEN 0 ELSE I[l - 1] - 1]
<1>13. C[1] = 0 /\ S[1] = 0 /\ \A p \in 1..m : C[1 + p] = K[p] /\ S[1 + p] = I[p] - 1
  BY <1>11
<1>14. \A l \in 1..(1 + m) : l = 1 \/ \E p \in 1..m : l = 1 + p
  <2> TAKE l \in 1..(1 + m)
  <2>1. l = 1 \/ (l - 1 \in 1..m /\ l = 1 + (l - 1))
    BY <1>11
  <2> QED
    BY <2>1
<1> HIDE DEF C, S
<1>15. ASSUME NEW l \in 1..(1 + m)
       PROVE  /\ IsSpot(b, C[l], S[l]) /\ F[l].scenarios = SpotList(b, C[l], S[l])
              /\ F[l].group = SpotGroup(b, C[l], S[l])
  <2>1. CASE l = 1
    BY <1>9, <1>11, <1>13, <2>1 DEF IsSpot, SpotList, SpotGroup
  <2>2. CASE \E p \in 1..m : l = 1 + p
    <3>1. PICK p \in 1..m : l = 1 + p
      BY <2>2
    <3>2. C[l] = K[p] /\ S[l] = I[p] - 1 /\ F[l] = G[p]
      BY <1>11, <1>13, <3>1
    <3>3. K[p] \in 1..n /\ K[p] # 0 /\ G[p] = q[K[p]][I[p]]
      BY <1>1, <1>12
    <3>4. CASE I[p] = 1
      BY <1>1, <3>2, <3>3, <3>4, <1>5 DEF IsSpot, SpotList, SpotGroup
    <3>5. CASE I[p] - 1 \in 1..Len(cs[K[p]].subs)
      <4> DEFINE s == I[p] - 1
      <4>1. s \in 1..Len(cs[K[p]].subs) /\ I[p] = 1 + s /\ s # 0
        BY <1>5, <1>12, <3>5
      <4>4. S[l] = s /\ C[l] # 0 /\ C[l] \in DOMAIN cs
        BY <1>1, <3>2, <3>3
      <4> HIDE DEF s
      <4>2. S[l] = s /\ C[l] # 0 /\ C[l] \in DOMAIN cs /\ s \in DOMAIN cs[K[p]].subs
        BY <1>5, <3>3, <4>1, <4>4
      <4>3. F[l].scenarios = cs[K[p]].subs[s].scenarios /\ F[l].group = cs[K[p]].subs[s].id
        <5>1. \A j \in 1..Len(cs[K[p]].subs) : /\ q[K[p]][1 + j].scenarios = cs[K[p]].subs[j].scenarios
                                               /\ q[K[p]][1 + j].group = cs[K[p]].subs[j].id
          BY <1>5, <3>3
        <5>2. F[l] = q[K[p]][1 + s]
          BY <3>2, <3>3, <4>1
        <5> QED
          BY <4>1, <5>1, <5>2
      <4> QED
        BY <3>2, <4>1, <4>2, <4>3 DEF IsSpot, SpotList, SpotGroup
    <3> QED
      BY <1>12, <3>4, <3>5
  <2> QED
    BY <1>14, <2>1, <2>2
<1>16. ASSUME NEW l \in 1..(1 + m), NEW k \in 1..(1 + m), C[l] = C[k], S[l] = S[k] PROVE l = k
  <2>1. CASE l = 1 /\ k = 1
    BY <2>1
  <2>2. ASSUME NEW p \in 1..m PROVE C[1 + p] # 0
    BY <1>1, <1>12, <1>13
  <2>3. CASE \E p, r \in 1..m : l = 1 + p /\ k = 1 + r
    <3>1. PICK p, r \in 1..m : l = 1 + p /\ k = 1 + r
      BY <2>3
    <3>2. K[p] = K[r] /\ I[p] - 1 = I[r] - 1
      BY <1>13, <1>16, <3>1
    <3>3. I[p] \in Int /\ I[r] \in Int
      BY <1>12
    <3>4. I[p] = I[r]
      BY <3>2, <3>3
    <3>5. p = r
      BY <1>8, <1>11, <3>2, <3>4 DEF Onto
    <3> QED
      BY <3>1, <3>5
  <2> QED
    BY <1>13, <1>14, <1>16, <2>1, <2>2, <2>3
<1>17. ASSUME NEW c, NEW s, IsSpot(b, c, s) PROVE \E l \in 1..(1 + m) : C[l] = c /\ S[l] = s
  <2>1. CASE c = 0 /\ s = 0
    BY <1>11, <1>13, <2>1
  <2>2. ASSUME c \in 1..n, NEW i \in 1..(1 + Len(cs[c].subs)), s = i - 1 PROVE \E l \in 1..(1 + m) : C[l] = c /\ S[l] = s
    <3>3. c \in DOMAIN q /\ i \in DOMAIN q[c]
      BY <1>2, <1>5, <2>2
    <3>1. PICK p \in 1..m : K[p] = c /\ I[p] = i
      BY <1>8, <1>11, <3>3 DEF Onto
    <3>2. C[1 + p] = c /\ S[1 + p] = s /\ 1 + p \in 1..(1 + m)
      BY <1>11, <1>13, <2>2, <3>1
    <3> QED
      BY <3>2
  <2>3. CASE c \in DOMAIN b.categories /\ (s = 0 \/ s \in DOMAIN b.categories[c].subs)
    <3>1. c \in 1..n /\ Len(cs[c].subs) \in Nat /\ (s = 0 \/ s \in 1..Len(cs[c].subs))
      BY <1>1, <1>5, <2>3
    <3> DEFINE k == Len(cs[c].subs)
    <3>2. k \in Nat /\ (s = 0 \/ s \in 1..k)
      BY <3>1
    <3> HIDE DEF k
    <3>3. s + 1 \in 1..(1 + k) /\ s = (s + 1) - 1
      BY <3>2
    <3> DEFINE j == s + 1
    <3>4. j \in 1..(1 + Len(cs[c].subs)) /\ s = j - 1
      BY <3>3 DEF k
    <3> HIDE DEF j
    <3> QED
      BY <2>2, <3>1, <3>4
  <2> QED
    BY <1>17, <2>1, <2>3 DEF IsSpot
<1>18. Spots(C, S, b)
  <2>1. Lists(b) = F /\ DOMAIN F = 1..(1 + m)
    BY <1>10, <1>11 DEF F
  <2> QED
    BY <1>15, <1>16, <1>17, <2>1 DEF Spots
<1> QED
  BY <1>10, <1>11, <1>18 DEF F

SpotsApart(b) ==
  /\ \A c, s : IsSpot(b, c, s) => Distinct(SpotList(b, c, s))
  /\ \A c, s, d, t : IsSpot(b, c, s) /\ IsSpot(b, d, t) /\ (c # d \/ s # t)
                        => IdsOf(SpotList(b, c, s)) \cap IdsOf(SpotList(b, d, t)) = {}

\* There is a list of scenarios at every place.
LEMMA SpotIsList == ASSUME NEW b, IsBenchmark(b), NEW c, NEW s, IsSpot(b, c, s) PROVE IsList(SpotList(b, c, s))
<1>1. CASE c = 0
  BY <1>1 DEF SpotList, IsBenchmark
<1>2. CASE c # 0
  BY <1>2 DEF IsSpot, IsBenchmark, SpotList, IsCategory, IsSubcategory
<1> QED
  BY <1>1, <1>2

\* The scenarios are those at the places, and no id is twice when the places share none.
LEMMA EntriesFlat ==
  ASSUME NEW b, IsBenchmark(b)
  PROVE  /\ IsArray(Entries(b))
         /\ \A x : x \in ToSet(Entries(b)) <=> \E c, s : IsSpot(b, c, s) /\ x \in ToSet(SpotList(b, c, s))
         /\ Distinct(Entries(b)) <=> SpotsApart(b)
<1> DEFINE L == Lists(b)
           q == [l \in DOMAIN L |-> L[l].scenarios]
           n == Len(L)
<1>1. IsArray(L) /\ n \in Nat /\ DOMAIN L = 1..n
  BY ListPlaces, ArrayParts
<1>2. PICK C, S : Spots(C, S, b)
  BY ListPlaces
<1>3. /\ \A l \in 1..n : IsSpot(b, C[l], S[l]) /\ L[l].scenarios = SpotList(b, C[l], S[l])
      /\ \A l, m \in 1..n : C[l] = C[m] /\ S[l] = S[m] => l = m
      /\ \A c, s : IsSpot(b, c, s) => \E l \in 1..n : C[l] = c /\ S[l] = s
  BY <1>1, <1>2 DEF Spots
<1>4. Entries(b) = FlattenSeq(q)
  BY DEF Entries, EntriesIn
<1>5. IsArray(q) /\ DOMAIN q = 1..n
  <2>1. q = [l \in 1..n |-> q[l]]
    BY <1>1
  <2> HIDE DEF q, n
  <2> QED
    BY <1>1, <2>1, ArrayOfLength
<1>6. \A l \in 1..n : q[l] = SpotList(b, C[l], S[l]) /\ IsSpot(b, C[l], S[l])
  BY <1>1, <1>3
<1> HIDE DEF q, n, L
<1>7. \A l \in DOMAIN q : IsArray(q[l])
  BY <1>5, <1>6, SpotIsList DEF IsList
<1>8. /\ IsArray(FlattenSeq(q))
      /\ \A x : x \in ToSet(FlattenSeq(q)) <=> \E k \in 1..n : x \in ToSet(q[k])
      /\ Distinct(FlattenSeq(q)) <=>
           /\ \A k \in 1..n : Distinct(q[k])
           /\ \A k, l \in 1..n : k # l => IdsOf(q[k]) \cap IdsOf(q[l]) = {}
  BY <1>5, <1>7, FlattenParts
<1>9. ASSUME NEW x
      PROVE  x \in ToSet(Entries(b)) <=> \E c, s : IsSpot(b, c, s) /\ x \in ToSet(SpotList(b, c, s))
  <2>1. ASSUME NEW k \in 1..n, x \in ToSet(q[k])
        PROVE  \E c, s : IsSpot(b, c, s) /\ x \in ToSet(SpotList(b, c, s))
    BY <1>6, <2>1
  <2>2. ASSUME NEW c, NEW s, IsSpot(b, c, s), x \in ToSet(SpotList(b, c, s))
        PROVE  \E k \in 1..n : x \in ToSet(q[k])
    <3>1. PICK l \in 1..n : C[l] = c /\ S[l] = s
      BY <1>3, <2>2
    <3>2. q[l] = SpotList(b, c, s)
      BY <1>6, <3>1
    <3> QED
      BY <2>2, <3>2
  <2>3. x \in ToSet(Entries(b)) <=> \E k \in 1..n : x \in ToSet(q[k])
    BY <1>4, <1>8
  <2> QED
    BY <2>1, <2>2, <2>3
<1>10. ASSUME Distinct(Entries(b)) PROVE SpotsApart(b)
  <2>1. /\ \A k \in 1..n : Distinct(q[k])
        /\ \A k, l \in 1..n : k # l => IdsOf(q[k]) \cap IdsOf(q[l]) = {}
    BY <1>4, <1>8, <1>10
  <2>2. ASSUME NEW c, NEW s, IsSpot(b, c, s) PROVE Distinct(SpotList(b, c, s))
    <3>1. PICK l \in 1..n : C[l] = c /\ S[l] = s
      BY <1>3, <2>2
    <3> QED
      BY <1>6, <2>1, <3>1
  <2>3. ASSUME NEW c, NEW s, NEW d, NEW t, IsSpot(b, c, s), IsSpot(b, d, t), c # d \/ s # t
        PROVE  IdsOf(SpotList(b, c, s)) \cap IdsOf(SpotList(b, d, t)) = {}
    <3>1. PICK l \in 1..n : C[l] = c /\ S[l] = s
      BY <1>3, <2>3
    <3>2. PICK k \in 1..n : C[k] = d /\ S[k] = t
      BY <1>3, <2>3
    <3>3. k # l
      BY <2>3, <3>1, <3>2
    <3>4. IdsOf(q[k]) \cap IdsOf(q[l]) = {}
      BY <2>1, <3>3
    <3> QED
      BY <1>6, <3>1, <3>2, <3>4
  <2> QED
    BY <2>2, <2>3 DEF SpotsApart
<1>11. ASSUME SpotsApart(b) PROVE Distinct(Entries(b))
  <2>1. \A k \in 1..n : Distinct(q[k])
    BY <1>6, <1>11 DEF SpotsApart
  <2>2. ASSUME NEW k \in 1..n, NEW l \in 1..n, k # l PROVE IdsOf(q[k]) \cap IdsOf(q[l]) = {}
    BY <1>3, <2>2, <1>6, <1>11 DEF SpotsApart
  <2> QED
    BY <1>4, <1>8, <2>1, <2>2
<1>12. IsArray(Entries(b))
  BY <1>4, <1>8
<1> QED
  BY <1>9, <1>10, <1>11, <1>12

AllSubs(b) == FlattenSeq([c \in DOMAIN b.categories |-> b.categories[c].subs])

\* The subcategories of all categories.
LEMMA SubsFlat ==
  ASSUME NEW b, IsBenchmark(b)
  PROVE  /\ IsArray(AllSubs(b)) /\ IdsOf(AllSubs(b)) = SubIds(b)
         /\ Distinct(AllSubs(b)) <=>
              /\ \A c \in DOMAIN b.categories : Distinct(b.categories[c].subs)
              /\ \A c, d \in DOMAIN b.categories :
                   c # d => IdsOf(b.categories[c].subs) \cap IdsOf(b.categories[d].subs) = {}
<1> DEFINE cs == b.categories
           q == [c \in DOMAIN cs |-> cs[c].subs]
           n == Len(cs)
<1>1. n \in Nat /\ DOMAIN cs = 1..n /\ \A c \in 1..n : IsArray(cs[c].subs)
  BY ArrayParts DEF IsBenchmark, IsCategory
<1>2. IsArray(q) /\ DOMAIN q = 1..n
  <2>1. q = [c \in 1..n |-> q[c]]
    BY <1>1
  <2> HIDE DEF q, n
  <2> QED
    BY <1>1, <2>1, ArrayOfLength
<1>3. \A c \in 1..n : q[c] = cs[c].subs
  BY <1>1
<1>4. AllSubs(b) = FlattenSeq(q)
  BY DEF AllSubs
<1> HIDE DEF q, n
<1>5. \A c \in DOMAIN q : IsArray(q[c])
  BY <1>1, <1>2, <1>3
<1>6. /\ IsArray(FlattenSeq(q))
      /\ \A x : x \in ToSet(FlattenSeq(q)) <=> \E k \in DOMAIN q : x \in ToSet(q[k])
      /\ Distinct(FlattenSeq(q)) <=>
           /\ \A k \in DOMAIN q : Distinct(q[k])
           /\ \A k, l \in DOMAIN q : k # l => IdsOf(q[k]) \cap IdsOf(q[l]) = {}
  BY <1>2, <1>5, FlattenParts
<1>7. ASSUME NEW x PROVE x \in IdsOf(AllSubs(b)) <=> x \in SubIds(b)
  BY <1>4, IdsOfSet, <1>1, <1>3, <1>2, <1>6 DEF SubIds
<1>8. IdsOf(AllSubs(b)) = SubIds(b)
  BY <1>7
<1> QED
  BY <1>1, <1>2, <1>3, <1>4, <1>6, <1>8

\* Integrity, part by part.
FlatApart(b) ==
  /\ Distinct(b.tiers) /\ Distinct(b.categories) /\ SpotsApart(b)
  /\ \A c \in DOMAIN b.categories : Distinct(b.categories[c].subs)
  /\ \A c, d \in DOMAIN b.categories :
       c # d => IdsOf(b.categories[c].subs) \cap IdsOf(b.categories[d].subs) = {}
  /\ TierIds(b) \cap CategoryIds(b) = {} /\ TierIds(b) \cap SubIds(b) = {} /\ CategoryIds(b) \cap SubIds(b) = {}
  /\ TierIds(b) \cap EntryIds(b) = {} /\ CategoryIds(b) \cap EntryIds(b) = {} /\ SubIds(b) \cap EntryIds(b) = {}

\* Structural integrity, in terms of the places.
LEMMA FlatIntegrity ==
  ASSUME NEW b, IsBenchmark(b)
  PROVE  HasStructuralIntegrity(b) <=>
           /\ FlatApart(b)
           /\ \A e \in ToSet(Entries(b)) : \A t \in ToSet(e.thresholds) : t.tier \in TierIds(b)
<1> DEFINE t == b.tiers
           c == b.categories
           s == AllSubs(b)
           e == Entries(b)
<1>1. IsArray(t) /\ IsArray(c) /\ IsArray(s) /\ IsArray(e)
  BY EntriesFlat, SubsFlat DEF IsBenchmark
<1>2. /\ IdsOf(t) = TierIds(b) /\ IdsOf(c) = CategoryIds(b) /\ IdsOf(e) = EntryIds(b) /\ IdsOf(s) = SubIds(b)
  BY SubsFlat DEF TierIds, CategoryIds, EntryIds
<1>3. HasStructuralIntegrity(b) <=>
        /\ Distinct(((t \o c) \o s) \o e)
        /\ \A i \in DOMAIN e : \A k \in DOMAIN e[i].thresholds : e[i].thresholds[k].tier \in TierIds(b)
  BY DEF HasStructuralIntegrity, AllSubs
<1>4. Distinct(e) <=> SpotsApart(b)
  BY EntriesFlat
<1>5. Distinct(s) <=>
        /\ \A i \in DOMAIN b.categories : Distinct(b.categories[i].subs)
        /\ \A i, d \in DOMAIN b.categories :
              i # d => IdsOf(b.categories[i].subs) \cap IdsOf(b.categories[d].subs) = {}
  BY SubsFlat
<1>6. (\A i \in DOMAIN e : \A k \in DOMAIN e[i].thresholds : e[i].thresholds[k].tier \in TierIds(b))
        <=> \A x \in ToSet(e) : \A y \in ToSet(x.thresholds) : y.tier \in TierIds(b)
  BY DEF ToSet
<1> HIDE DEF t, c, s, e
<1>7. /\ IsArray(t \o c) /\ IsArray((t \o c) \o s)
      /\ ToSet(t \o c) = ToSet(t) \cup ToSet(c) /\ ToSet((t \o c) \o s) = ToSet(t \o c) \cup ToSet(s)
  BY <1>1, JoinedArrays
<1>8. IdsOf(t \o c) = IdsOf(t) \cup IdsOf(c) /\ IdsOf((t \o c) \o s) = IdsOf(t \o c) \cup IdsOf(s)
  BY <1>7, IdsOfSet
<1>9. Distinct(((t \o c) \o s) \o e) <=>
         Distinct((t \o c) \o s) /\ Distinct(e) /\ IdsOf((t \o c) \o s) \cap IdsOf(e) = {}
  BY <1>1, <1>7, JoinedDistinct
<1>10. Distinct((t \o c) \o s) <=> Distinct(t \o c) /\ Distinct(s) /\ IdsOf(t \o c) \cap IdsOf(s) = {}
  BY <1>1, <1>7, JoinedDistinct
<1>11. Distinct(t \o c) <=> Distinct(t) /\ Distinct(c) /\ IdsOf(t) \cap IdsOf(c) = {}
  BY <1>1, JoinedDistinct
<1>12. Distinct(((t \o c) \o s) \o e) <=>
         /\ Distinct(t) /\ Distinct(c) /\ Distinct(s) /\ Distinct(e)
         /\ IdsOf(t) \cap IdsOf(c) = {} /\ IdsOf(t) \cap IdsOf(s) = {} /\ IdsOf(c) \cap IdsOf(s) = {}
         /\ IdsOf(t) \cap IdsOf(e) = {} /\ IdsOf(c) \cap IdsOf(e) = {} /\ IdsOf(s) \cap IdsOf(e) = {}
  <2> DEFINE T == IdsOf(t)
             C == IdsOf(c)
             S == IdsOf(s)
             E == IdsOf(e)
  <2>1. /\ ((T \cup C) \cup S) \cap E = {} <=> T \cap E = {} /\ C \cap E = {} /\ S \cap E = {}
        /\ (T \cup C) \cap S = {} <=> T \cap S = {} /\ C \cap S = {}
    OBVIOUS
  <2> QED
    BY <1>8, <1>9, <1>10, <1>11, <2>1
<1>13. Distinct(((t \o c) \o s) \o e) <=> FlatApart(b)
  BY <1>2, <1>4, <1>5, <1>12 DEF FlatApart, t, c
<1> QED
  BY <1>3, <1>6, <1>13 DEF e

\* A scenario's id is the id of a scenario at a place.
LEMMA EntryIdsAt ==
  ASSUME NEW b, IsBenchmark(b)
  PROVE  \A x : x \in EntryIds(b) <=> \E c, s : IsSpot(b, c, s) /\ x \in IdsOf(SpotList(b, c, s))
<1> TAKE x
<1>1. x \in EntryIds(b) <=> \E e \in ToSet(Entries(b)) : x = e.id
  BY IdsOfSet DEF EntryIds
<1>2. \A c, s : x \in IdsOf(SpotList(b, c, s)) <=> \E e \in ToSet(SpotList(b, c, s)) : x = e.id
  BY IdsOfSet
<1>3. \A e : e \in ToSet(Entries(b)) <=> \E c, s : IsSpot(b, c, s) /\ e \in ToSet(SpotList(b, c, s))
  BY EntriesFlat
<1>4. ASSUME NEW e \in ToSet(Entries(b)), x = e.id PROVE \E c, s : IsSpot(b, c, s) /\ x \in IdsOf(SpotList(b, c, s))
  <2>1. PICK c, s : IsSpot(b, c, s) /\ e \in ToSet(SpotList(b, c, s))
    BY <1>3
  <2> QED
    BY <1>2, <1>4, <2>1
<1>5. ASSUME NEW c, NEW s, IsSpot(b, c, s), x \in IdsOf(SpotList(b, c, s)) PROVE \E e \in ToSet(Entries(b)) : x = e.id
  <2>1. PICK e \in ToSet(SpotList(b, c, s)) : x = e.id
    BY <1>2, <1>5
  <2> QED
    BY <1>3, <1>5, <2>1
<1> QED
  BY <1>1, <1>4, <1>5

\* The ids at the places of a category are its own.
LEMMA SpotIdsHeld ==
  ASSUME NEW b, NEW c \in DOMAIN b.categories, NEW s, IsSpot(b, c, s), c # 0
  PROVE  IdsOf(SpotList(b, c, s)) \subseteq CatAll(b.categories[c])
<1>1. CASE s = 0
  BY <1>1 DEF SpotList, CatAll
<1>2. CASE s # 0
  BY <1>2 DEF IsSpot, CatAll, SpotList, SubAll
<1> QED
  BY <1>1, <1>2

CatList(c, s) == IF s = 0 THEN c.scenarios ELSE c.subs[s].scenarios
CatSpots(c) == {0} \cup DOMAIN c.subs

\* What is apart within a category.
CategoryApart(c) ==
  /\ \A s \in CatSpots(c) : Distinct(CatList(c, s)) /\ c.id \notin IdsOf(CatList(c, s))
  /\ \A s, t \in CatSpots(c) : s # t => IdsOf(CatList(c, s)) \cap IdsOf(CatList(c, t)) = {}
  /\ \A s \in CatSpots(c) : IdsOf(c.subs) \cap IdsOf(CatList(c, s)) = {}
  /\ Distinct(c.subs) /\ c.id \notin IdsOf(c.subs)

\* What is apart as a tree is apart as a list of places: a category.
LEMMA CategoryFlat == ASSUME NEW c, NEW T, NEW B, GoodCategory(c, T, B) PROVE CategoryApart(c)
<1> DEFINE n == Len(c.subs)
           f == SubParts(c.subs)
           L == IdsOf(c.scenarios)
<1>1. IsArray(c.subs) /\ DOMAIN c.subs = 1..n /\ n \in Nat /\ \A i \in 1..n : f[i] = SubAll(c.subs[i])
  BY PartsOf DEF GoodCategory
<1>2. /\ {c.id} \cap L = {}
      /\ \A i \in 1..n : f[i] \cap {c.id} = {} /\ f[i] \cap L = {}
      /\ \A i, j \in 1..n : i # j => f[i] \cap f[j] = {}
  BY DEF GoodCategory, Apart
<1>3. \A i \in 1..n : /\ Distinct(c.subs[i].scenarios) /\ c.subs[i].id \notin IdsOf(c.subs[i].scenarios)
  BY <1>1 DEF GoodCategory, GoodSub, GoodList
<1>4. Distinct(c.scenarios)
  BY DEF GoodCategory, GoodList
<1> HIDE DEF f, n, L
<1>5. \A i \in 1..n : IdsOf(c.subs[i].scenarios) \subseteq f[i] /\ c.subs[i].id \in f[i]
  BY <1>1 DEF SubAll
<1>6. \A s \in CatSpots(c) : s = 0 \/ s \in 1..n
  BY <1>1 DEF CatSpots
<1>7. CatList(c, 0) = c.scenarios /\ \A s \in 1..n : CatList(c, s) = c.subs[s].scenarios
  BY DEF CatList
<1>8. \A s \in CatSpots(c) : Distinct(CatList(c, s)) /\ c.id \notin IdsOf(CatList(c, s))
  BY <1>2, <1>3, <1>4, <1>5, <1>6, <1>7 DEF L
<1>9. ASSUME NEW s \in CatSpots(c), NEW t \in CatSpots(c), s # t
      PROVE  IdsOf(CatList(c, s)) \cap IdsOf(CatList(c, t)) = {}
  <2>1. CASE s = 0 /\ t \in 1..n
    BY <1>2, <1>5, <1>7, <2>1 DEF L
  <2>2. CASE t = 0 /\ s \in 1..n
    BY <1>2, <1>5, <1>7, <2>2 DEF L
  <2>3. CASE s \in 1..n /\ t \in 1..n
    BY <1>2, <1>9, <2>3, <1>5, <1>7
  <2> QED
    BY <1>6, <1>9, <2>1, <2>2, <2>3
<1>10. \A x \in IdsOf(c.subs) : \E i \in 1..n : x = c.subs[i].id
  BY <1>1 DEF IdsOf
<1>11. ASSUME NEW s \in CatSpots(c), NEW i \in 1..n PROVE c.subs[i].id \notin IdsOf(CatList(c, s))
  <2>1. CASE s = 0
    BY <1>2, <1>5, <1>7, <2>1 DEF L
  <2>2. CASE s \in 1..n /\ s = i
    BY <1>3, <1>7, <2>2
  <2>3. CASE s \in 1..n /\ s # i
    BY <1>2, <2>3, <1>5, <1>7
  <2> QED
    BY <1>6, <2>1, <2>2, <2>3
<1>12. Distinct(c.subs) /\ c.id \notin IdsOf(c.subs)
  <2>1. ASSUME NEW i \in 1..n, NEW j \in 1..n, c.subs[i].id = c.subs[j].id PROVE i = j
    BY <1>2, <1>5, <2>1
  <2> QED
    BY <1>1, <1>2, <1>5, <1>10, <2>1 DEF Distinct
<1> QED
  BY <1>8, <1>9, <1>10, <1>11, <1>12 DEF CategoryApart

\* And the other way round.
LEMMA CategoryHier ==
  ASSUME NEW c, NEW T, NEW B, IsCategory(c), CategoryApart(c),
         \A s \in CatSpots(c) : \A i \in DOMAIN CatList(c, s) : Tied(CatList(c, s)[i], T, B)
  PROVE  GoodCategory(c, T, B)
<1> DEFINE n == Len(c.subs)
           f == SubParts(c.subs)
           L == IdsOf(c.scenarios)
<1>1. IsArray(c.subs) /\ DOMAIN c.subs = 1..n /\ n \in Nat /\ \A i \in 1..n : f[i] = SubAll(c.subs[i])
  BY PartsOf DEF IsCategory
<1>2. 0 \in CatSpots(c) /\ \A s \in 1..n : s # 0 /\ s \in CatSpots(c)
  BY <1>1 DEF CatSpots
<1>3. CatList(c, 0) = c.scenarios /\ \A s \in 1..n : CatList(c, s) = c.subs[s].scenarios
  BY <1>2 DEF CatList
<1>4. GoodList(c.scenarios, T, B)
  BY <1>2, <1>3 DEF GoodList, GoodEntry, IsCategory, IsList, CategoryApart
<1>5. \A i \in 1..n : c.subs[i].id \in IdsOf(c.subs)
  BY <1>1 DEF IdsOf
<1>6. ASSUME NEW s \in 1..n PROVE GoodSub(c.subs[s], T, B)
  <2>1. IsSubcategory(c.subs[s])
    BY <1>1 DEF IsCategory
  <2>2. Distinct(c.subs[s].scenarios) /\ c.subs[s].id \notin IdsOf(c.subs[s].scenarios)
    BY <1>2, <1>3, <1>5 DEF CategoryApart
  <2>3. \A i \in DOMAIN c.subs[s].scenarios : Tied(c.subs[s].scenarios[i], T, B)
    BY <1>2, <1>3
  <2> QED
    BY <2>1, <2>2, <2>3 DEF GoodSub, GoodList, GoodEntry, IsSubcategory, IsList
<1>7. {c.id} \cap L = {}
  BY <1>2, <1>3 DEF CategoryApart
<1>8. ASSUME NEW i \in 1..n PROVE f[i] \cap {c.id} = {} /\ f[i] \cap L = {}
  BY <1>2, <1>5, <1>1, <1>3 DEF CategoryApart, SubAll
<1>9. ASSUME NEW i \in 1..n, NEW j \in 1..n, i # j PROVE f[i] \cap f[j] = {}
  BY <1>2, <1>9, <1>5, <1>1, <1>3 DEF CategoryApart, Distinct, SubAll
<1>10. Apart({c.id}, IdsOf(c.scenarios), Len(c.subs), SubParts(c.subs))
  BY <1>7, <1>8, <1>9 DEF Apart
<1> QED
  BY <1>1, <1>4, <1>6, <1>10 DEF GoodCategory, IsCategory

\* The places of a benchmark are the uncategorized one and those of its categories.
LEMMA SpotsOfCategories ==
  ASSUME NEW b, IsBenchmark(b)
  PROVE  /\ IsSpot(b, 0, 0) /\ SpotList(b, 0, 0) = b.uncategorized
         /\ \A c \in DOMAIN b.categories : c # 0
         /\ \A c \in DOMAIN b.categories : \A s \in CatSpots(b.categories[c]) :
              IsSpot(b, c, s) /\ SpotList(b, c, s) = CatList(b.categories[c], s)
         /\ \A c, s : IsSpot(b, c, s) =>
              (c = 0 /\ s = 0) \/ (c \in DOMAIN b.categories /\ s \in CatSpots(b.categories[c]))
<1>1. \A c \in DOMAIN b.categories : c # 0
  BY ArrayParts DEF IsBenchmark
<1> QED
  BY <1>1 DEF IsSpot, SpotList, CatSpots, CatList

\* All ids of a category: its own, its subcategories' and those of its lists.
LEMMA CatAllParts ==
  ASSUME NEW c, IsArray(c.subs)
  PROVE  /\ c.id \in CatAll(c) /\ IdsOf(c.subs) \subseteq CatAll(c)
         /\ \A s \in CatSpots(c) : IdsOf(CatList(c, s)) \subseteq CatAll(c)
         /\ \A x \in CatAll(c) : x = c.id \/ x \in IdsOf(c.subs) \/ \E s \in CatSpots(c) : x \in IdsOf(CatList(c, s))
<1>1. \A s \in DOMAIN c.subs : SubAll(c.subs[s]) \subseteq CatAll(c)
  BY DEF CatAll
<1>2. \A s \in DOMAIN c.subs : c.subs[s].id \in SubAll(c.subs[s]) /\ IdsOf(c.subs[s].scenarios) \subseteq SubAll(c.subs[s])
  BY DEF SubAll
<1>3. IdsOf(c.subs) \subseteq CatAll(c)
  BY <1>1, <1>2 DEF IdsOf
<1>4. c.id \in CatAll(c) /\ IdsOf(c.scenarios) \subseteq CatAll(c)
  BY DEF CatAll
<1>5. ASSUME NEW s \in CatSpots(c) PROVE IdsOf(CatList(c, s)) \subseteq CatAll(c)
  BY <1>4, <1>1, <1>2 DEF CatList, CatSpots
<1>6. ASSUME NEW x \in CatAll(c), x # c.id, x \notin IdsOf(c.subs) PROVE \E s \in CatSpots(c) : x \in IdsOf(CatList(c, s))
  <2>1. CASE x \in IdsOf(c.scenarios)
    BY <2>1 DEF CatSpots, CatList
  <2>2. CASE \E s \in DOMAIN c.subs : x \in SubAll(c.subs[s])
    <3>1. PICK s \in DOMAIN c.subs : x \in SubAll(c.subs[s])
      BY <2>2
    <3>2. x \in IdsOf(c.subs[s].scenarios)
      BY <1>6, <3>1 DEF SubAll, IdsOf
    <3>3. s # 0
      BY ArrayParts
    <3> QED
      BY <3>2, <3>3 DEF CatSpots, CatList
  <2> QED
    BY <1>6, <2>1, <2>2 DEF CatAll
<1> QED
  BY <1>3, <1>4, <1>5, <1>6

\* The ids in use are the ids of the parts.
LEMMA IdsAgree == ASSUME NEW b, IsBenchmark(b) PROVE AllIds(b) = Ids(b)
<1> DEFINE cs == b.categories
<1>1. \A c \in DOMAIN cs : IsArray(cs[c].subs)
  BY DEF IsBenchmark, IsCategory
<1>2. ASSUME NEW x \in AllIds(b) PROVE x \in Ids(b)
  <2>1. CASE x \in TierIds(b)
    BY <2>1 DEF TierIds, Ids
  <2>2. ASSUME NEW c \in DOMAIN cs, x \in CatAll(cs[c]) PROVE x \in Ids(b)
    BY <2>2 DEF Ids, Held
  <2>3. CASE x \in CategoryIds(b)
    <3>1. PICK c \in DOMAIN cs : x = cs[c].id
      BY <2>3 DEF CategoryIds, IdsOf
    <3> QED
      BY <1>1, <2>2, <3>1, CatAllParts
  <2>4. CASE x \in SubIds(b)
    <3>1. PICK c \in DOMAIN cs : x \in IdsOf(cs[c].subs)
      BY <2>4 DEF SubIds
    <3> QED
      BY <1>1, <2>2, <3>1, CatAllParts
  <2>5. CASE x \in EntryIds(b)
    <3>1. PICK c, s : IsSpot(b, c, s) /\ x \in IdsOf(SpotList(b, c, s))
      BY <2>5, EntryIdsAt
    <3>2. CASE c = 0 /\ s = 0
      BY <3>1, <3>2 DEF SpotList, Ids, Held
    <3>3. CASE c \in DOMAIN cs /\ c # 0
      BY <2>2, <3>1, <3>3, SpotIdsHeld
    <3> QED
      BY <3>1, <3>2, <3>3, SpotsOfCategories
  <2> QED
    BY <1>2, <2>1, <2>3, <2>4, <2>5 DEF AllIds
<1>3. ASSUME NEW x \in Ids(b) PROVE x \in AllIds(b)
  <2>1. CASE x \in IdsOf(b.tiers)
    BY <2>1 DEF TierIds, AllIds
  <2>2. CASE x \in IdsOf(b.uncategorized)
    BY <2>2, SpotsOfCategories, EntryIdsAt DEF AllIds
  <2>3. CASE \E c \in DOMAIN cs : x \in CatAll(cs[c])
    <3>1. PICK c \in DOMAIN cs : x \in CatAll(cs[c])
      BY <2>3
    <3>2. x = cs[c].id \/ x \in IdsOf(cs[c].subs) \/ \E s \in CatSpots(cs[c]) : x \in IdsOf(CatList(cs[c], s))
      BY <1>1, <3>1, CatAllParts
    <3>3. CASE x = cs[c].id
      BY <3>3 DEF CategoryIds, IdsOf, AllIds
    <3>4. CASE x \in IdsOf(cs[c].subs)
      BY <3>4 DEF SubIds, AllIds
    <3>5. CASE \E s \in CatSpots(cs[c]) : x \in IdsOf(CatList(cs[c], s))
      <4>1. PICK s \in CatSpots(cs[c]) : x \in IdsOf(CatList(cs[c], s))
        BY <3>5
      <4>2. IsSpot(b, c, s) /\ x \in IdsOf(SpotList(b, c, s))
        BY <4>1, SpotsOfCategories
      <4>3. x \in EntryIds(b)
        BY <4>2, EntryIdsAt
      <4> QED
        BY <4>3 DEF AllIds
    <3> QED
      BY <3>2, <3>3, <3>4, <3>5
  <2> QED
    BY <1>3, <2>1, <2>2, <2>3 DEF Ids, Held
<1> QED
  BY <1>2, <1>3

\* Sound in every part means no id twice, and no threshold of a tier that is not there.
LEMMA GoodIsFlat ==
  ASSUME NEW b, NEW B, Good(b, B)
  PROVE  FlatApart(b)
<1> DEFINE cs == b.categories
           n == Len(cs)
           T == IdsOf(b.tiers)
           U == IdsOf(b.uncategorized)
<1>0. IsBenchmark(b)
  BY GoodIsBenchmark
<1>1. IsArray(cs) /\ DOMAIN cs = 1..n /\ n \in Nat /\ \A c \in 1..n : CatParts(cs)[c] = CatAll(cs[c])
  BY PartsOf DEF Good, GoodBody
<1>2. \A c \in 1..n : GoodCategory(cs[c], T, B) /\ IsArray(cs[c].subs)
  BY <1>1 DEF Good, GoodBody, GoodCategory
<1>3. /\ T \cap U = {}
      /\ \A c \in 1..n : CatAll(cs[c]) \cap T = {} /\ CatAll(cs[c]) \cap U = {}
      /\ \A c, d \in 1..n : c # d => CatAll(cs[c]) \cap CatAll(cs[d]) = {}
  BY <1>1 DEF Good, GoodBody, Apart
<1>4. \A c \in 1..n : CategoryApart(cs[c])
  BY <1>2, CategoryFlat
<1>5. \A c \in 1..n : cs[c].id \in CatAll(cs[c]) /\ IdsOf(cs[c].subs) \subseteq CatAll(cs[c])
  BY <1>2, CatAllParts
<1>6. \A c \in 1..n : \A s \in CatSpots(cs[c]) :
         IdsOf(CatList(cs[c], s)) \subseteq CatAll(cs[c])
  BY <1>2, CatAllParts
<1>7. IsSpot(b, 0, 0) /\ SpotList(b, 0, 0) = b.uncategorized
  BY <1>0, SpotsOfCategories
<1>8. \A c \in 1..n : c # 0 /\ \A s \in CatSpots(cs[c]) : IsSpot(b, c, s) /\ SpotList(b, c, s) = CatList(cs[c], s)
  BY <1>0, <1>1, SpotsOfCategories
<1>9. ASSUME NEW c, NEW s, IsSpot(b, c, s)
      PROVE  (c = 0 /\ s = 0) \/ (c \in 1..n /\ s \in CatSpots(cs[c]))
  BY <1>0, <1>1, <1>9, SpotsOfCategories
<1>10. Distinct(b.tiers) /\ Distinct(b.uncategorized)
  BY DEF Good, GoodTiers, GoodBody, GoodList
<1>11. \A x \in CategoryIds(b) : \E c \in 1..n : x = cs[c].id
  BY <1>1 DEF CategoryIds, IdsOf
<1>12. \A x \in SubIds(b) : \E c \in 1..n : x \in IdsOf(cs[c].subs)
  BY <1>1 DEF SubIds
<1>13. ASSUME NEW x \in EntryIds(b) PROVE x \in U \/ \E c \in 1..n : \E s \in CatSpots(cs[c]) : x \in IdsOf(CatList(cs[c], s))
  <2>1. PICK c, s : IsSpot(b, c, s) /\ x \in IdsOf(SpotList(b, c, s))
    BY <1>0, EntryIdsAt
  <2> QED
    BY <1>7, <1>8, <1>9, <2>1
<1>14. T = TierIds(b)
  BY DEF TierIds
<1> HIDE DEF cs, n, T, U
<1>15. Distinct(b.categories)
  <2>1. ASSUME NEW c \in 1..n, NEW d \in 1..n, cs[c].id = cs[d].id PROVE c = d
    BY <1>3, <1>5, <2>1
  <2> QED
    BY <1>1, <2>1 DEF Distinct, cs
<1>16. SpotsApart(b)
  <2>1. ASSUME NEW c, NEW s, IsSpot(b, c, s) PROVE Distinct(SpotList(b, c, s))
    BY <1>4, <1>7, <1>8, <1>9, <1>10, <2>1 DEF CategoryApart
  <2>2. ASSUME NEW c, NEW s, NEW d, NEW t, IsSpot(b, c, s), IsSpot(b, d, t), c # d \/ s # t
        PROVE  IdsOf(SpotList(b, c, s)) \cap IdsOf(SpotList(b, d, t)) = {}
    <3>1. CASE c = 0 /\ s = 0 /\ d \in 1..n /\ t \in CatSpots(cs[d])
      BY <1>3, <1>6, <3>1, <1>7, <1>8 DEF U
    <3>2. CASE d = 0 /\ t = 0 /\ c \in 1..n /\ s \in CatSpots(cs[c])
      BY <1>3, <1>6, <3>2, <1>7, <1>8 DEF U
    <3>3. CASE c \in 1..n /\ s \in CatSpots(cs[c]) /\ d \in 1..n /\ t \in CatSpots(cs[d]) /\ c # d
      BY <1>6, <3>3, <1>3, <1>8
    <3>4. CASE c \in 1..n /\ s \in CatSpots(cs[c]) /\ d = c /\ t \in CatSpots(cs[c]) /\ s # t
      BY <1>4, <3>4, <1>8 DEF CategoryApart
    <3>5. (c = 0 /\ s = 0) \/ (c \in 1..n /\ s \in CatSpots(cs[c]))
      BY <1>9, <2>2
    <3>6. (d = 0 /\ t = 0) \/ (d \in 1..n /\ t \in CatSpots(cs[d]))
      BY <1>9, <2>2
    <3> QED
      BY <2>2, <3>1, <3>2, <3>3, <3>4, <3>5, <3>6
  <2> QED
    BY <2>1, <2>2 DEF SpotsApart
<1>17. \A c \in 1..n : Distinct(cs[c].subs)
  BY <1>4 DEF CategoryApart
<1>18. \A c, d \in 1..n : c # d => IdsOf(cs[c].subs) \cap IdsOf(cs[d].subs) = {}
  BY <1>3, <1>5
<1>19. T \cap CategoryIds(b) = {} /\ T \cap SubIds(b) = {}
  BY <1>3, <1>5, <1>11, <1>12
<1>20. CategoryIds(b) \cap SubIds(b) = {}
  <2>1. ASSUME NEW c \in 1..n, NEW d \in 1..n PROVE cs[c].id \notin IdsOf(cs[d].subs)
    BY <1>4, <1>3, <1>5 DEF CategoryApart
  <2> QED
    BY <1>11, <1>12, <2>1
<1>21. ASSUME NEW d \in 1..n, NEW s \in CatSpots(cs[d])
       PROVE  /\ T \cap IdsOf(CatList(cs[d], s)) = {}
              /\ \A c \in 1..n : /\ cs[c].id \notin IdsOf(CatList(cs[d], s))
                                 /\ IdsOf(cs[c].subs) \cap IdsOf(CatList(cs[d], s)) = {}
  <2>1. IdsOf(CatList(cs[d], s)) \subseteq CatAll(cs[d])
    BY <1>6
  <2>2. T \cap IdsOf(CatList(cs[d], s)) = {}
    BY <1>3, <2>1
  <2>3. ASSUME NEW c \in 1..n
        PROVE  cs[c].id \notin IdsOf(CatList(cs[d], s)) /\ IdsOf(cs[c].subs) \cap IdsOf(CatList(cs[d], s)) = {}
    <3>1. CASE c = d
      BY <1>4, <3>1 DEF CategoryApart
    <3>2. CASE c # d
      BY <1>3, <3>2, <1>5, <2>1
    <3> QED
      BY <3>1, <3>2
  <2> QED
    BY <2>2, <2>3
<1>22. ASSUME NEW x \in EntryIds(b) PROVE x \notin T /\ x \notin CategoryIds(b) /\ x \notin SubIds(b)
  <2>1. CASE x \in U
    BY <1>3, <1>5, <1>11, <1>12, <2>1
  <2>2. CASE \E c \in 1..n : \E s \in CatSpots(cs[c]) : x \in IdsOf(CatList(cs[c], s))
    <3>1. PICK d \in 1..n : \E s \in CatSpots(cs[d]) : x \in IdsOf(CatList(cs[d], s))
      BY <2>2
    <3>2. PICK s \in CatSpots(cs[d]) : x \in IdsOf(CatList(cs[d], s))
      BY <3>1
    <3>3. /\ T \cap IdsOf(CatList(cs[d], s)) = {}
          /\ \A c \in 1..n : /\ cs[c].id \notin IdsOf(CatList(cs[d], s))
                             /\ IdsOf(cs[c].subs) \cap IdsOf(CatList(cs[d], s)) = {}
      BY <1>21
    <3> QED
      BY <1>11, <1>12, <3>2, <3>3
  <2> QED
    BY <1>13, <2>1, <2>2
<1> QED
  BY <1>1, <1>10, <1>14, <1>15, <1>16, <1>17, <1>18, <1>19, <1>20, <1>22 DEF FlatApart, cs

\* Every scenario of a sound benchmark is sound.
LEMMA GoodEntries ==
  ASSUME NEW b, NEW B, Good(b, B)
  PROVE  \A e \in ToSet(Entries(b)) : GoodEntry(e, TierIds(b), B)
<1> TAKE e \in ToSet(Entries(b))
<1>0. IsBenchmark(b)
  BY GoodIsBenchmark
<1>1. PICK c, s : IsSpot(b, c, s) /\ e \in ToSet(SpotList(b, c, s))
  BY <1>0, EntriesFlat
<1>2. GoodList(SpotList(b, c, s), TierIds(b), B)
  <2>1. CASE c = 0
    BY <2>1 DEF SpotList, Good, GoodBody, TierIds
  <2>2. CASE c # 0
    <3>1. c \in DOMAIN b.categories /\ (s = 0 \/ s \in DOMAIN b.categories[c].subs)
      BY <1>1, <2>2 DEF IsSpot
    <3>2. GoodCategory(b.categories[c], TierIds(b), B)
      BY <3>1 DEF Good, GoodBody, TierIds
    <3> QED
      BY <2>2, <3>1, <3>2 DEF SpotList, GoodCategory, GoodSub
  <2> QED
    BY <2>1, <2>2
<1> QED
  BY <1>1, <1>2 DEF GoodList, ToSet

\* What is sound in every part has structural integrity.
LEMMA GoodIsSound ==
  ASSUME NEW b, NEW B, Good(b, B)
  PROVE  /\ IsBenchmark(b) /\ HasStructuralIntegrity(b) /\ AllIds(b) = Ids(b)
         /\ EntryIds(b) \cap (TierIds(b) \cup CategoryIds(b) \cup SubIds(b)) = {}
<1>1. IsBenchmark(b) /\ FlatApart(b)
  BY GoodIsBenchmark, GoodIsFlat
<1>2. \A e \in ToSet(Entries(b)) : \A t \in ToSet(e.thresholds) : t.tier \in TierIds(b)
  BY GoodEntries DEF GoodEntry, Tied
<1> QED
  BY <1>1, <1>2, FlatIntegrity, IdsAgree DEF FlatApart

\* A benchmark with structural integrity is sound in every part.
LEMMA SoundIsGood ==
  ASSUME NEW b, IsBenchmark(b), HasStructuralIntegrity(b)
  PROVE  Good(b, {})
<1> DEFINE cs == b.categories
           n == Len(cs)
           T == IdsOf(b.tiers)
           U == IdsOf(b.uncategorized)
<1>1. IsArray(cs) /\ DOMAIN cs = 1..n /\ n \in Nat /\ \A c \in 1..n : CatParts(cs)[c] = CatAll(cs[c])
  BY PartsOf DEF IsBenchmark
<1>2. \A c \in 1..n : IsCategory(cs[c]) /\ IsArray(cs[c].subs)
  BY <1>1 DEF IsBenchmark, IsCategory
<1>3. FlatApart(b) /\ \A e \in ToSet(Entries(b)) : \A t \in ToSet(e.thresholds) : t.tier \in TierIds(b)
  BY FlatIntegrity
<1>4. SpotsApart(b)
  BY <1>3 DEF FlatApart
<1>5. IsSpot(b, 0, 0) /\ SpotList(b, 0, 0) = b.uncategorized
  BY SpotsOfCategories
<1>6. \A c \in 1..n : c # 0 /\ \A s \in CatSpots(cs[c]) : IsSpot(b, c, s) /\ SpotList(b, c, s) = CatList(cs[c], s)
  BY <1>1, SpotsOfCategories
<1>7. T = TierIds(b)
  BY DEF TierIds
<1>8. ASSUME NEW c, NEW s, IsSpot(b, c, s)
      PROVE  /\ \A i \in DOMAIN SpotList(b, c, s) : Tied(SpotList(b, c, s)[i], T, {})
             /\ IdsOf(SpotList(b, c, s)) \subseteq EntryIds(b)
  <2>1. \A e \in ToSet(SpotList(b, c, s)) : e \in ToSet(Entries(b))
    BY <1>8, EntriesFlat
  <2>2. \A e \in ToSet(SpotList(b, c, s)) : Tied(e, T, {})
    BY <1>3, <1>7, <2>1 DEF Tied
  <2>3. IdsOf(SpotList(b, c, s)) \subseteq EntryIds(b)
    BY <1>8, EntryIdsAt
  <2> QED
    BY <2>2, <2>3 DEF ToSet
<1>9. \A c \in 1..n : cs[c].id \in CategoryIds(b) /\ IdsOf(cs[c].subs) \subseteq SubIds(b)
  BY <1>1 DEF CategoryIds, SubIds, IdsOf
<1>10. GoodList(b.uncategorized, T, {})
  BY <1>4, <1>5, <1>8 DEF GoodList, GoodEntry, SpotsApart, IsBenchmark, IsList
<1>11. /\ T \cap CategoryIds(b) = {} /\ T \cap SubIds(b) = {} /\ CategoryIds(b) \cap SubIds(b) = {}
       /\ T \cap EntryIds(b) = {} /\ CategoryIds(b) \cap EntryIds(b) = {} /\ SubIds(b) \cap EntryIds(b) = {}
  BY <1>3, <1>7 DEF FlatApart
<1>12. \A c \in 1..n : Distinct(cs[c].subs)
  BY <1>1, <1>3 DEF FlatApart
<1>13. \A c, d \in 1..n : c # d => IdsOf(cs[c].subs) \cap IdsOf(cs[d].subs) = {} /\ cs[c].id # cs[d].id
  BY <1>1, <1>3 DEF FlatApart, Distinct
<1>14. Distinct(b.tiers)
  BY <1>3 DEF FlatApart
<1> HIDE DEF cs, n, T, U
<1>15. ASSUME NEW c \in 1..n, NEW s \in CatSpots(cs[c])
       PROVE  IsSpot(b, c, s) /\ SpotList(b, c, s) = CatList(cs[c], s) /\ IdsOf(CatList(cs[c], s)) \subseteq EntryIds(b)
  BY <1>6, <1>8
<1>16. ASSUME NEW c \in 1..n PROVE CategoryApart(cs[c])
  <2>1. \A s \in CatSpots(cs[c]) : Distinct(CatList(cs[c], s))
    BY <1>4, <1>15 DEF SpotsApart
  <2>2. ASSUME NEW s \in CatSpots(cs[c])
        PROVE  cs[c].id \notin IdsOf(CatList(cs[c], s)) /\ IdsOf(cs[c].subs) \cap IdsOf(CatList(cs[c], s)) = {}
    BY <1>9, <1>11, <1>15
  <2>3. ASSUME NEW s \in CatSpots(cs[c]), NEW t \in CatSpots(cs[c]), s # t
        PROVE  IdsOf(CatList(cs[c], s)) \cap IdsOf(CatList(cs[c], t)) = {}
    BY <1>15, <1>4, <2>3 DEF SpotsApart
  <2>4. cs[c].id \notin IdsOf(cs[c].subs)
    BY <1>9, <1>11
  <2> QED
    BY <1>12, <2>1, <2>2, <2>3, <2>4 DEF CategoryApart
<1>17. ASSUME NEW c \in 1..n PROVE GoodCategory(cs[c], T, {})
  BY <1>8, <1>15, <1>2, <1>16, CategoryHier
<1>18. ASSUME NEW c \in 1..n, NEW x \in CatAll(cs[c])
       PROVE  x = cs[c].id \/ x \in IdsOf(cs[c].subs) \/ \E s \in CatSpots(cs[c]) : x \in IdsOf(CatList(cs[c], s))
  BY <1>2, CatAllParts
<1>19. U = IdsOf(SpotList(b, 0, 0)) /\ U \subseteq EntryIds(b) /\ IsSpot(b, 0, 0)
  BY <1>5, <1>8 DEF U
<1>20. ASSUME NEW c \in 1..n, NEW s \in CatSpots(cs[c]) PROVE IdsOf(CatList(cs[c], s)) \cap U = {}
  BY <1>6, <1>15, <1>4, <1>19 DEF SpotsApart
<1>21. ASSUME NEW c \in 1..n PROVE CatAll(cs[c]) \cap T = {} /\ CatAll(cs[c]) \cap U = {}
  <2> SUFFICES ASSUME NEW x \in CatAll(cs[c]) PROVE x \notin T /\ x \notin U
    OBVIOUS
  <2>1. CASE x = cs[c].id
    BY <1>9, <1>11, <1>19, <2>1
  <2>2. CASE x \in IdsOf(cs[c].subs)
    BY <1>9, <1>11, <1>19, <2>2
  <2>3. CASE \E s \in CatSpots(cs[c]) : x \in IdsOf(CatList(cs[c], s))
    <3>1. PICK s \in CatSpots(cs[c]) : x \in IdsOf(CatList(cs[c], s))
      BY <2>3
    <3> QED
      BY <1>11, <1>15, <1>20, <3>1
  <2> QED
    BY <1>18, <2>1, <2>2, <2>3
<1>22. ASSUME NEW c \in 1..n, NEW d \in 1..n, c # d PROVE CatAll(cs[c]) \cap CatAll(cs[d]) = {}
  <2> SUFFICES ASSUME NEW x \in CatAll(cs[c]), x \in CatAll(cs[d]) PROVE FALSE
    OBVIOUS
  <2>1. ASSUME NEW k \in 1..n, NEW s \in CatSpots(cs[k]), x \in IdsOf(CatList(cs[k], s))
        PROVE  x \in EntryIds(b)
    BY <1>15, <2>1
  <2>2. x = cs[c].id \/ x \in IdsOf(cs[c].subs) \/ \E s \in CatSpots(cs[c]) : x \in IdsOf(CatList(cs[c], s))
    BY <1>18
  <2>3. x = cs[d].id \/ x \in IdsOf(cs[d].subs) \/ \E s \in CatSpots(cs[d]) : x \in IdsOf(CatList(cs[d], s))
    BY <1>18
  <2>4. CASE x = cs[c].id
    BY <1>9, <1>11, <1>13, <1>22, <2>1, <2>3, <2>4
  <2>5. CASE x \in IdsOf(cs[c].subs)
    BY <1>9, <1>11, <1>13, <1>22, <2>1, <2>3, <2>5
  <2>6. CASE \E s \in CatSpots(cs[c]) : x \in IdsOf(CatList(cs[c], s))
    <3>1. PICK s \in CatSpots(cs[c]) : x \in IdsOf(CatList(cs[c], s))
      BY <2>6
    <3>2. x \in EntryIds(b)
      BY <2>1, <3>1
    <3>3. \E t \in CatSpots(cs[d]) : x \in IdsOf(CatList(cs[d], t))
      BY <1>9, <1>11, <2>3, <3>2
    <3>4. PICK t \in CatSpots(cs[d]) : x \in IdsOf(CatList(cs[d], t))
      BY <3>3
    <3>5. IsSpot(b, c, s) /\ SpotList(b, c, s) = CatList(cs[c], s)
      BY <1>15
    <3>6. IsSpot(b, d, t) /\ SpotList(b, d, t) = CatList(cs[d], t)
      BY <1>15
    <3>7. IdsOf(SpotList(b, c, s)) \cap IdsOf(SpotList(b, d, t)) = {}
      BY <1>4, <1>22, <3>5, <3>6 DEF SpotsApart
    <3> QED
      BY <3>1, <3>4, <3>5, <3>6, <3>7
  <2> QED
    BY <2>2, <2>4, <2>5, <2>6
<1>23. Apart(T, U, n, CatParts(cs))
  BY <1>11, <1>19, <1>1, <1>21, <1>22 DEF Apart, n, cs
<1>24. GoodBody(b.uncategorized, b.categories, T, {})
  BY <1>1, <1>10, <1>17, <1>23 DEF GoodBody, cs, n, U
<1> QED
  BY <1>14, <1>24 DEF Good, GoodTiers, IsBenchmark, T

-----------------------------------------------------------------------------
(* The edits of scenarios and of the ladder (benchmark_editor.cpp).        *)

\* A scenario stays sound when there are more tiers and fewer banned cells.
LEMMA EntryGrows ==
  ASSUME NEW e, NEW T, NEW B, GoodEntry(e, T, B), NEW T2, T \subseteq T2, NEW B2, B2 \subseteq B
  PROVE  GoodEntry(e, T2, B2)
BY DEF GoodEntry, Tied

\* So does a list.
LEMMA ListGrows ==
  ASSUME NEW l, NEW T, NEW B, GoodList(l, T, B), NEW T2, T \subseteq T2, NEW B2, B2 \subseteq B
  PROVE  GoodList(l, T2, B2)
<1>1. \A i \in DOMAIN l : GoodEntry(l[i], T, B)
  BY DEF GoodList
<1>2. \A i \in DOMAIN l : GoodEntry(l[i], T2, B2)
  BY <1>1, EntryGrows
<1> QED
  BY <1>2 DEF GoodList

\* A scenario that is renamed.
LEMMA EntryRenamed ==
  ASSUME NEW e, NEW T, NEW B, GoodEntry(e, T, B), NEW name, IsExpected(name)
  PROVE  LET x == [e EXCEPT !.name = name] IN GoodEntry(x, T, B) /\ x.id = e.id
<1> DEFINE x == [e EXCEPT !.name = name]
<1>1. e = [id |-> e.id, name |-> e.name, hashes |-> e.hashes, thresholds |-> e.thresholds]
  BY DEF GoodEntry, IsEntry
<1>2. x = [id |-> e.id, name |-> name, hashes |-> e.hashes, thresholds |-> e.thresholds]
  BY <1>1
<1> HIDE DEF x
<1> QED
  BY <1>2 DEF GoodEntry, IsEntry, Tied, x

IsHashes(h) == IsArray(h) /\ IsInjective(h) /\ \A x \in ToSet(h) : IsExpected(x) /\ x # Blank

\* A scenario that is mapped to other hashes.
LEMMA EntryRehashed ==
  ASSUME NEW e, NEW T, NEW B, GoodEntry(e, T, B), NEW hashes, IsHashes(hashes)
  PROVE  LET x == [e EXCEPT !.hashes = hashes] IN GoodEntry(x, T, B) /\ x.id = e.id
<1> DEFINE x == [e EXCEPT !.hashes = hashes]
<1>1. e = [id |-> e.id, name |-> e.name, hashes |-> e.hashes, thresholds |-> e.thresholds]
  BY DEF GoodEntry, IsEntry
<1>2. x = [id |-> e.id, name |-> e.name, hashes |-> hashes, thresholds |-> e.thresholds]
  BY <1>1
<1> HIDE DEF x
<1> QED
  BY <1>2 DEF GoodEntry, IsEntry, Tied, x, IsHashes

\* An entry with other thresholds.
LEMMA EntryRethresholded ==
  ASSUME NEW e, NEW T, NEW B, GoodEntry(e, T, B), NEW th, NEW T2, NEW B2, IsArray(th),
         \A t \in ToSet(th) : IsThreshold(t) /\ t.tier \in T2 /\ <<e.id, t.tier>> \notin B2
  PROVE  LET x == [e EXCEPT !.thresholds = th] IN GoodEntry(x, T2, B2) /\ x.id = e.id
<1> DEFINE x == [e EXCEPT !.thresholds = th]
<1>1. e = [id |-> e.id, name |-> e.name, hashes |-> e.hashes, thresholds |-> e.thresholds]
  BY DEF GoodEntry, IsEntry
<1>2. x = [id |-> e.id, name |-> e.name, hashes |-> e.hashes, thresholds |-> th]
  BY <1>1
<1> HIDE DEF x
<1> QED
  BY <1>2 DEF GoodEntry, IsEntry, Tied, x

\* Of the thresholds only some are left.
LEMMA EntryLosing ==
  ASSUME NEW e, NEW T, NEW B, GoodEntry(e, T, B), NEW P, P \subseteq DOMAIN e.thresholds, NEW T2, NEW B2,
         \A i \in P : e.thresholds[i].tier \in T2 /\ <<e.id, e.thresholds[i].tier>> \notin B2
  PROVE  LET x == [e EXCEPT !.thresholds = At(e.thresholds, P)] IN GoodEntry(x, T2, B2) /\ x.id = e.id
<1> DEFINE th == At(e.thresholds, P)
<1>1. IsArray(e.thresholds) /\ \A t \in ToSet(e.thresholds) : IsThreshold(t)
  BY DEF GoodEntry, IsEntry
<1>2. IsArray(th) /\ ToSet(th) = {e.thresholds[i] : i \in P}
  BY <1>1, Selection, SelectionKeeps
<1>3. \A i \in P : e.thresholds[i] \in ToSet(e.thresholds)
  BY DEF ToSet
<1> HIDE DEF th
<1>4. \A t \in ToSet(th) : IsThreshold(t) /\ t.tier \in T2 /\ <<e.id, t.tier>> \notin B2
  BY <1>1, <1>2, <1>3
<1> QED
  BY <1>2, <1>4, EntryRethresholded DEF th

\* Without its threshold of a tier a scenario is sound even where that tier is gone, or the cell banned.
LEMMA EntryCleared ==
  ASSUME NEW e, NEW T, NEW B, GoodEntry(e, T, B), NEW tier
  PROVE  /\ GoodEntry(Cleared(e, tier), T \ {tier}, B) /\ GoodEntry(Cleared(e, tier), T, B \cup {<<e.id, tier>>})
         /\ Cleared(e, tier).id = e.id
<1> DEFINE th == e.thresholds
           P == {i \in DOMAIN th : th[i].tier # tier}
<1>1. Cleared(e, tier) = [e EXCEPT !.thresholds = At(th, P)]
  BY DEF Cleared
<1>2. \A i \in P : th[i].tier \in T /\ th[i].tier # tier /\ <<e.id, th[i].tier>> \notin B
  BY DEF GoodEntry, Tied, ToSet
<1>3. P \subseteq DOMAIN e.thresholds
  OBVIOUS
<1>4. \A i \in P : th[i].tier \in T \ {tier} /\ <<e.id, th[i].tier>> \notin B
  BY <1>2
<1>5. \A i \in P : th[i].tier \in T /\ <<e.id, th[i].tier>> \notin B \cup {<<e.id, tier>>}
  BY <1>2
<1> DEFINE x == [e EXCEPT !.thresholds = At(e.thresholds, P)]
<1> HIDE DEF P
<1>6. GoodEntry(x, T \ {tier}, B) /\ x.id = e.id
  BY <1>3, <1>4, EntryLosing
<1>7. GoodEntry(x, T, B \cup {<<e.id, tier>>})
  <2> DEFINE B2 == B \cup {<<e.id, tier>>}
  <2>1. \A i \in P : e.thresholds[i].tier \in T /\ <<e.id, e.thresholds[i].tier>> \notin B2
    BY <1>5
  <2> HIDE DEF B2
  <2>2. GoodEntry(x, T, B2)
    BY <1>3, <2>1, EntryLosing
  <2> QED
    BY <2>2 DEF B2
<1> QED
  BY <1>1, <1>6, <1>7

\* A score may be put into a cell that was banned.
LEMMA EntryTyped ==
  ASSUME NEW e, NEW T, NEW B, GoodEntry(e, T, B), NEW tier \in T, NEW score, IsExpected(score), score # NonFinite
  PROVE  GoodEntry(Typed(e, tier, score), T, B \ {<<e.id, tier>>}) /\ Typed(e, tier, score).id = e.id
<1> DEFINE th == e.thresholds
           B2 == B \ {<<e.id, tier>>}
           new == [tier |-> tier, score |-> score]
<1>1. IsArray(th) /\ \A t \in ToSet(th) : IsThreshold(t) /\ t.tier \in T /\ <<e.id, t.tier>> \notin B2
  BY DEF GoodEntry, IsEntry, Tied
<1>2. Len(th) \in Nat /\ DOMAIN th = 1..Len(th)
  BY <1>1, ArrayParts
<1>3. IsThreshold(new) /\ new.tier = tier /\ <<e.id, new.tier>> \notin B2
  BY DEF IsThreshold
<1>4. CASE HasThreshold(e, tier)
  <2> DEFINE hits == {i \in 1..Len(th) : th[i].tier = tier}
             first == Min(hits)
             th2 == [th EXCEPT ![first] = [@ EXCEPT !.score = score]]
  <2>1. hits # {} /\ hits \subseteq Nat
    BY <1>2, <1>4 DEF HasThreshold
  <2>2. first \in hits
    <3>1. \E h \in hits : \A k \in hits : h <= k
      <4> HIDE DEF hits
      <4> QED
        BY <2>1, LeastExists
    <3> HIDE DEF hits
    <3> QED
      BY <3>1 DEF Min
  <2>3. Typed(e, tier, score) = [e EXCEPT !.thresholds = th2]
    BY <1>4, <2>1 DEF Typed, SelectInSeq
  <2>4. first \in DOMAIN th /\ th[first].tier = tier
    BY <1>2, <2>2
  <2> HIDE DEF first, hits
  <2>5. th2 = [i \in 1..Len(th) |-> IF i = first THEN [th[first] EXCEPT !.score = score] ELSE th[i]]
    BY <1>2
  <2>6. [th[first] EXCEPT !.score = score] = new
    <3>1. th[first] = [tier |-> th[first].tier, score |-> th[first].score]
      BY <1>1, <2>4 DEF IsThreshold, ToSet
    <3> QED
      BY <2>4, <3>1
  <2>7. \A i \in 1..Len(th) : th2[i] = IF i = first THEN new ELSE th[i]
    BY <2>5, <2>6
  <2>8. IsArray(th2) /\ DOMAIN th2 = 1..Len(th)
    <3>1. th2 = [i \in 1..Len(th) |-> th2[i]]
      BY <2>5
    <3> HIDE DEF th2, th
    <3> QED
      BY <1>2, <3>1, ArrayOfLength
  <2>9. \A t \in ToSet(th2) : t = new \/ t \in ToSet(th)
    BY <1>2, <2>7, <2>8 DEF ToSet
  <2>10. \A t \in ToSet(th2) : IsThreshold(t) /\ t.tier \in T /\ <<e.id, t.tier>> \notin B2
    BY <1>1, <1>3, <2>9
  <2> HIDE DEF th2, B2
  <2>11. LET x == [e EXCEPT !.thresholds = th2] IN GoodEntry(x, T, B2) /\ x.id = e.id
    BY <2>8, <2>10, EntryRethresholded
  <2> QED
    BY <2>3, <2>11 DEF B2
<1>5. CASE ~HasThreshold(e, tier)
  <2> DEFINE th2 == th \o <<new>>
  <2>1. Typed(e, tier, score) = [e EXCEPT !.thresholds = Append(th, new)]
    BY <1>5 DEF Typed
  <2>2. IsArray(<<new>>) /\ ToSet(<<new>>) = {new}
    BY OneArray
  <2>3. Append(th, new) = th2
    BY <1>1 DEF IsArray
  <2> HIDE DEF new, th
  <2>4. IsArray(th2) /\ ToSet(th2) = ToSet(th) \cup {new}
    BY <1>1, <2>2, JoinedArrays
  <2> HIDE DEF th2, B2
  <2>5. \A t \in ToSet(th2) : IsThreshold(t) /\ t.tier \in T /\ <<e.id, t.tier>> \notin B2
    BY <1>1, <1>3, <2>4
  <2>6. LET x == [e EXCEPT !.thresholds = th2] IN GoodEntry(x, T, B2) /\ x.id = e.id
    BY <2>4, <2>5, EntryRethresholded
  <2> QED
    BY <2>1, <2>3, <2>6 DEF B2, new, th
<1> QED
  BY <1>4, <1>5

\* The lists of a sound benchmark.
LEMMA GoodParts ==
  ASSUME NEW b, NEW B, Good(b, B)
  PROVE  /\ GoodTiers(b.tiers) /\ GoodList(b.uncategorized, IdsOf(b.tiers), B)
         /\ IsArray(b.categories)
         /\ \A c \in DOMAIN b.categories : GoodCategory(b.categories[c], IdsOf(b.tiers), B)
         /\ \A c \in DOMAIN b.categories : GoodList(b.categories[c].scenarios, IdsOf(b.tiers), B)
         /\ \A c \in DOMAIN b.categories : \A s \in DOMAIN b.categories[c].subs :
              GoodSub(b.categories[c].subs[s], IdsOf(b.tiers), B)
         /\ \A c \in DOMAIN b.categories : \A s \in DOMAIN b.categories[c].subs :
              GoodList(b.categories[c].subs[s].scenarios, IdsOf(b.tiers), B)
<1>1. /\ GoodTiers(b.tiers) /\ GoodList(b.uncategorized, IdsOf(b.tiers), B)
      /\ IsArray(b.categories)
      /\ \A c \in DOMAIN b.categories : GoodCategory(b.categories[c], IdsOf(b.tiers), B)
  BY DEF Good, GoodBody
<1>2. \A c \in DOMAIN b.categories : GoodList(b.categories[c].scenarios, IdsOf(b.tiers), B)
  BY <1>1 DEF GoodCategory
<1>3. \A c \in DOMAIN b.categories : \A s \in DOMAIN b.categories[c].subs :
         GoodSub(b.categories[c].subs[s], IdsOf(b.tiers), B)
  BY <1>1 DEF GoodCategory
<1>4. \A c \in DOMAIN b.categories : \A s \in DOMAIN b.categories[c].subs :
         GoodList(b.categories[c].subs[s].scenarios, IdsOf(b.tiers), B)
  BY <1>3 DEF GoodSub
<1> QED
  BY <1>1, <1>2, <1>3, <1>4

\* What may become of a list: it stays,
LEMMA FitsSame ==
  ASSUME NEW l, NEW T, NEW B, GoodList(l, T, B), NEW g, NEW group, NEW X
  PROVE  Fits(l, l, g, T, B, group, X)
BY DEF Fits

\* its entries change and keep their ids,
Mapped(l2, l, T2, B2) ==
  /\ l2 = [i \in DOMAIN l |-> l2[i]]
  /\ \A i \in DOMAIN l : GoodEntry(l2[i], T2, B2) /\ l2[i].id = l[i].id

\* A list each of whose scenarios became another with the same id.
LEMMA FitsMapped ==
  ASSUME NEW l, NEW T, NEW B, GoodList(l, T, B), NEW l2, NEW T2, NEW B2, Mapped(l2, l, T2, B2),
         NEW g, NEW group, NEW X
  PROVE  Fits(l2, l, g, T2, B2, group, X)
<1>1. IsArray(l) /\ Distinct(l) /\ Len(l) \in Nat /\ DOMAIN l = 1..Len(l)
  BY ArrayParts DEF GoodList
<1>2. IsArray(l2) /\ DOMAIN l2 = DOMAIN l
  BY <1>1, ArrayOfLength DEF Mapped
<1>3. \A i \in DOMAIN l : GoodEntry(l2[i], T2, B2) /\ l2[i].id = l[i].id
  BY DEF Mapped
<1>4. Distinct(l2)
  BY <1>1, <1>2, <1>3 DEF Distinct
<1>5. \A x \in IdsOf(l2) : x \in IdsOf(l)
  BY <1>2, <1>3 DEF IdsOf
<1> QED
  BY <1>2, <1>3, <1>4, <1>5 DEF Fits, GoodList

\* some of its entries remain, in any order,
LEMMA FitsDrawn ==
  ASSUME NEW l, NEW T, NEW B, GoodList(l, T, B), NEW l2, Drawn(l2, l), NEW g, NEW group, NEW X
  PROVE  Fits(l2, l, g, T, B, group, X)
<1>1. \A i \in DOMAIN l : GoodEntry(l[i], T, B)
  BY DEF GoodList
<1>2. \A i \in DOMAIN l2 : \E j \in DOMAIN l : l2[i] = l[j]
  BY DEF Drawn, ToSet
<1>3. \A i \in DOMAIN l2 : GoodEntry(l2[i], T, B)
  BY <1>1, <1>2
<1>4. \A x \in IdsOf(l2) : x \in IdsOf(l)
  BY <1>2 DEF IdsOf
<1> QED
  BY <1>3, <1>4 DEF Fits, GoodList, Drawn

\* or it gets new ones.
LEMMA ListMade ==
  ASSUME NEW r, IsArray(r), Distinct(r), NEW l, NEW new, ToSet(r) = ToSet(l) \cup ToSet(new),
         NEW T, NEW B, GoodList(l, T, B), GoodList(new, T, B), NEW g, NEW X, IdsOf(new) \subseteq X
  PROVE  Fits(r, l, g, T, B, g, X)
<1>1. \A x \in ToSet(l) : GoodEntry(x, T, B)
  BY DEF GoodList, ToSet
<1>2. \A x \in ToSet(new) : GoodEntry(x, T, B)
  BY DEF GoodList, ToSet
<1>3. \A i \in DOMAIN r : r[i] \in ToSet(r)
  BY DEF ToSet
<1>4. \A i \in DOMAIN r : GoodEntry(r[i], T, B)
  BY <1>1, <1>2, <1>3
<1>5. \A x \in IdsOf(r) : x \in IdsOf(l) \/ x \in X
  BY IdsOfSet
<1> QED
  BY <1>4, <1>5 DEF Fits, GoodList

\* A list behind which new scenarios are put.
LEMMA FitsJoined ==
  ASSUME NEW l, NEW T, NEW B, GoodList(l, T, B), NEW new, GoodList(new, T, B),
         IdsOf(l) \cap IdsOf(new) = {}, NEW g, NEW X, IdsOf(new) \subseteq X
  PROVE  Fits(l \o new, l, g, T, B, g, X)
<1>1. IsArray(l) /\ IsArray(new) /\ Distinct(l) /\ Distinct(new)
  BY DEF GoodList
<1>2. IsArray(l \o new) /\ ToSet(l \o new) = ToSet(l) \cup ToSet(new) /\ Distinct(l \o new)
  BY <1>1, JoinedArrays, JoinedDistinct
<1> QED
  BY <1>2, ListMade
\* The same of every list of a benchmark.
Rewrites(b2, b, B2) ==
  /\ Relists(b, b2) /\ GoodTiers(b2.tiers) /\ IdsOf(b2.tiers) \subseteq IdsOf(b.tiers)
  /\ Mapped(b2.uncategorized, b.uncategorized, IdsOf(b2.tiers), B2)
  /\ \A c \in DOMAIN b.categories :
       Mapped(b2.categories[c].scenarios, b.categories[c].scenarios, IdsOf(b2.tiers), B2)
  /\ \A c \in DOMAIN b.categories : \A s \in DOMAIN b.categories[c].subs :
       Mapped(b2.categories[c].subs[s].scenarios, b.categories[c].subs[s].scenarios, IdsOf(b2.tiers), B2)

\* A benchmark each of whose scenarios was rewritten in its place.
LEMMA Rewritten ==
  ASSUME NEW b, NEW B, Good(b, B), NoGroup \notin Ids(b), NEW b2, NEW B2, Rewrites(b2, b, B2)
  PROVE  Good(b2, B2) /\ Ids(b2) \subseteq Ids(b) /\ EntryIds(b2) = EntryIds(b)
<1> DEFINE T == IdsOf(b.tiers)
           T2 == IdsOf(b2.tiers)
<1>1. /\ GoodList(b.uncategorized, T, B)
      /\ \A c \in DOMAIN b.categories : GoodList(b.categories[c].scenarios, T, B)
      /\ \A c \in DOMAIN b.categories : \A s \in DOMAIN b.categories[c].subs :
           GoodList(b.categories[c].subs[s].scenarios, T, B)
  BY GoodParts
<1>2. /\ Mapped(b2.uncategorized, b.uncategorized, T2, B2)
      /\ \A c \in DOMAIN b.categories : Mapped(b2.categories[c].scenarios, b.categories[c].scenarios, T2, B2)
      /\ \A c \in DOMAIN b.categories : \A s \in DOMAIN b.categories[c].subs :
           Mapped(b2.categories[c].subs[s].scenarios, b.categories[c].subs[s].scenarios, T2, B2)
  BY DEF Rewrites
<1> HIDE DEF T, T2
<1>3. Fits(b2.uncategorized, b.uncategorized, NoGroup, T2, B2, NoGroup, {})
  BY <1>1, <1>2, FitsMapped
<1>4. \A c \in DOMAIN b.categories :
        Fits(b2.categories[c].scenarios, b.categories[c].scenarios, b.categories[c].id, T2, B2, NoGroup, {})
  BY <1>1, <1>2, FitsMapped
<1>5. \A c \in DOMAIN b.categories : \A s \in DOMAIN b.categories[c].subs :
        Fits(b2.categories[c].subs[s].scenarios, b.categories[c].subs[s].scenarios, b.categories[c].subs[s].id,
             T2, B2, NoGroup, {})
  BY <1>1, <1>2, FitsMapped
<1>6. Relisting(b2, b, B2, NoGroup, {})
  BY <1>3, <1>4, <1>5 DEF Relisting, Rewrites, T2
<1>7. Good(b2, B2) /\ Ids(b2) \subseteq Ids(b)
  BY <1>6, Relisted
<1>8. \A l2, l : Mapped(l2, l, T2, B2) => IdsOf(l2) = IdsOf(l)
  <2> SUFFICES ASSUME NEW l2, NEW l, Mapped(l2, l, T2, B2) PROVE IdsOf(l2) = IdsOf(l)
    OBVIOUS
  <2>1. DOMAIN l2 = DOMAIN l /\ \A i \in DOMAIN l : l2[i].id = l[i].id
    BY DEF Mapped
  <2> QED
    BY <2>1 DEF IdsOf
<1>9. Relists(b, b2)
  BY DEF Rewrites
<1>10. \A c, s : IsSpot(b2, c, s) <=> IsSpot(b, c, s)
  BY <1>9 DEF Relists, IsSpot
<1>11. \A c, s : IsSpot(b, c, s) => IdsOf(SpotList(b2, c, s)) = IdsOf(SpotList(b, c, s))
  BY <1>2, <1>8 DEF IsSpot, SpotList
<1>12. EntryIds(b2) = EntryIds(b)
  <2>1. IsBenchmark(b) /\ IsBenchmark(b2)
    BY <1>7, GoodIsSound
  <2>2. /\ \A x : x \in EntryIds(b) <=> \E c, s : IsSpot(b, c, s) /\ x \in IdsOf(SpotList(b, c, s))
        /\ \A x : x \in EntryIds(b2) <=> \E c, s : IsSpot(b2, c, s) /\ x \in IdsOf(SpotList(b2, c, s))
    BY <2>1, EntryIdsAt
  <2>3. \A x : x \in EntryIds(b) <=> x \in EntryIds(b2)
    <3>1. ASSUME NEW x, x \in EntryIds(b) PROVE x \in EntryIds(b2)
      <4>1. PICK c, s : IsSpot(b, c, s) /\ x \in IdsOf(SpotList(b, c, s))
        BY <2>2, <3>1
      <4>2. IsSpot(b2, c, s) /\ x \in IdsOf(SpotList(b2, c, s))
        BY <1>10, <1>11, <4>1
      <4> QED
        BY <2>2, <4>2
    <3>2. ASSUME NEW x, x \in EntryIds(b2) PROVE x \in EntryIds(b)
      <4>1. PICK c, s : IsSpot(b2, c, s) /\ x \in IdsOf(SpotList(b2, c, s))
        BY <2>2, <3>2
      <4>2. IsSpot(b, c, s) /\ x \in IdsOf(SpotList(b, c, s))
        BY <1>10, <1>11, <4>1
      <4> QED
        BY <2>2, <4>2
    <3> QED
      BY <3>1, <3>2
  <2> QED
    BY <2>3
<1> QED
  BY <1>7, <1>12

\* The ladder without one tier.
LEMMA TiersWithout ==
  ASSUME NEW tiers, GoodTiers(tiers), NEW id, id \in IdsOf(tiers)
  PROVE  GoodTiers(Without(tiers, id)) /\ IdsOf(Without(tiers, id)) = IdsOf(tiers) \ {id}
<1> DEFINE w == Without(tiers, id)
<1>1. Drawn(w, tiers) /\ id \notin IdsOf(w) /\ \A x \in IdsOf(tiers) : x # id => x \in IdsOf(w)
  BY WithoutOne DEF GoodTiers
<1> HIDE DEF w
<1>2. \A i \in DOMAIN w : w[i] \in ToSet(tiers)
  BY <1>1 DEF Drawn, ToSet
<1>3. \A t \in ToSet(tiers) : IsTier(t)
  BY DEF GoodTiers, ToSet
<1>4. GoodTiers(w)
  BY <1>1, <1>2, <1>3 DEF GoodTiers, Drawn
<1>5. \A x \in IdsOf(w) : x \in IdsOf(tiers)
  BY <1>1, IdsOfSet DEF Drawn
<1> QED
  BY <1>1, <1>4, <1>5 DEF w

\* The hashes of a set that is finite, listed.
LEMMA ListedHashes ==
  ASSUME NEW S, IsFiniteSet(S), \A h \in S : IsExpected(h) /\ h # Blank
  PROVE  IsHashes(SetToSeq(S))
<1> DEFINE n == Cardinality(S)
           f == SetToSeq(S)
<1>1. n \in Nat /\ \E g : g \in Bijection(1..n, S)
  BY FS_CardinalityType DEF ExistsBijection
<1>2. \E g \in [1..n -> S] : IsInjective(g)
  <2>1. PICK g : g \in Bijection(1..n, S)
    BY <1>1
  <2>2. g \in [1..n -> S] /\ \A x, y \in 1..n : g[x] = g[y] => x = y
    BY <2>1 DEF Bijection, Injection, IsInjective
  <2> HIDE DEF n
  <2> QED
    BY <2>2 DEF IsInjective
<1>3. f \in [1..n -> S] /\ IsInjective(f)
  BY <1>2 DEF SetToSeq
<1> HIDE DEF f, n
<1>4. f = [i \in 1..n |-> f[i]]
  BY <1>3
<1>5. IsArray(f) /\ DOMAIN f = 1..n
  BY <1>1, <1>4, ArrayOfLength
<1>6. \A h \in ToSet(f) : h \in S
  BY <1>3, <1>5 DEF ToSet
<1> QED
  BY <1>3, <1>5, <1>6 DEF IsHashes, f

\* What is mapped automatically is a hash and a name.
LEMMA OnlyIsKnown ==
  ASSUME NEW k, IsCatalogue(k), NEW e, Settled(k, e)
  PROVE  IsHashes(<<Only(k, e).hash>>) /\ IsExpected(Only(k, e).name)
<1>1. Candidates(k, e) # {}
  BY FS_EmptySet DEF Settled
<1>2. Only(k, e) \in Candidates(k, e)
  BY <1>1 DEF Only
<1>3. PICK n \in DOMAIN k : \E h \in k[n] : Only(k, e) = [hash |-> h, name |-> n]
  BY <1>2 DEF Candidates
<1>4. PICK h \in k[n] : Only(k, e) = [hash |-> h, name |-> n]
  BY <1>3
<1>5. IsExpected(n) /\ IsExpected(h) /\ h # Blank
  BY DEF IsCatalogue
<1>6. IsHashes(<<h>>)
  BY <1>5 DEF IsHashes, IsArray, IsInjective, ToSet
<1> QED
  BY <1>4, <1>5, <1>6

\* Renaming a scenario keeps the benchmark sound (renameScenario).
LEMMA RenameScenarioKeeps ==
  ASSUME NEW b, NEW B, Good(b, B), NoGroup \notin Ids(b), NEW id, NEW name, IsExpected(name),
         NEW b2 \in RenameScenario(b, id, name)
  PROVE  Good(b2, B) /\ Ids(b2) \subseteq Ids(b)
         /\ EntryIds(b2) = EntryIds(b) /\ b2.tiers = b.tiers
<1> DEFINE F(e) == IF e.id = id THEN [e EXCEPT !.name = name] ELSE e
           G(l) == [i \in DOMAIN l |-> F(l[i])]
           T == IdsOf(b.tiers)
           Sub(s) == [id |-> s.id, name |-> s.name, scenarios |-> G(s.scenarios)]
           Category(c) == [id |-> c.id, name |-> c.name, scenarios |-> G(c.scenarios),
                           subs |-> [s \in DOMAIN c.subs |-> Sub(c.subs[s])]]
<1>1. b2 = [name |-> b.name, tiers |-> b.tiers, uncategorized |-> G(b.uncategorized),
            categories |-> [c \in DOMAIN b.categories |-> Category(b.categories[c])]]
  BY DEF RenameScenario, When, OnEntry, MapEntries, MapLists
<1>2. \A e : GoodEntry(e, T, B) => GoodEntry(F(e), T, B) /\ F(e).id = e.id
  <2> HIDE DEF T
  <2> QED
    BY EntryRenamed
<1>3. /\ GoodList(b.uncategorized, T, B) /\ GoodTiers(b.tiers)
      /\ \A c \in DOMAIN b.categories : GoodList(b.categories[c].scenarios, T, B)
      /\ \A c \in DOMAIN b.categories : \A s \in DOMAIN b.categories[c].subs :
           GoodList(b.categories[c].subs[s].scenarios, T, B)
  BY GoodParts
<1> HIDE DEF T, F
<1>5. ASSUME NEW l, GoodList(l, T, B) PROVE Mapped(G(l), l, T, B)
  BY <1>2, <1>5 DEF Mapped, GoodList
<1> HIDE DEF G
<1>6. /\ Relists(b, b2) /\ b2.tiers = b.tiers /\ b2.uncategorized = G(b.uncategorized)
      /\ \A c \in DOMAIN b.categories : b2.categories[c].scenarios = G(b.categories[c].scenarios)
      /\ \A c \in DOMAIN b.categories : \A s \in DOMAIN b.categories[c].subs :
            b2.categories[c].subs[s].scenarios = G(b.categories[c].subs[s].scenarios)
  BY <1>1 DEF Relists
<1>7. Rewrites(b2, b, B)
  BY <1>3, <1>5, <1>6 DEF Rewrites, T
<1>8. b2.tiers = b.tiers
  BY <1>6
<1>9. Good(b2, B) /\ Ids(b2) \subseteq Ids(b) /\ EntryIds(b2) = EntryIds(b)
  BY <1>7, Rewritten
<1> QED
  BY <1>8, <1>9

\* So does mapping it to other hashes (setScenarioHashes),
LEMMA SetScenarioHashesKeeps ==
  ASSUME NEW b, NEW B, Good(b, B), NoGroup \notin Ids(b), NEW id, NEW hashes, IsHashes(hashes),
         NEW b2 \in SetScenarioHashes(b, id, hashes)
  PROVE  Good(b2, B) /\ Ids(b2) \subseteq Ids(b)
         /\ EntryIds(b2) = EntryIds(b) /\ b2.tiers = b.tiers
<1> DEFINE F(e) == IF e.id = id THEN [e EXCEPT !.hashes = hashes] ELSE e
           G(l) == [i \in DOMAIN l |-> F(l[i])]
           T == IdsOf(b.tiers)
           Sub(s) == [id |-> s.id, name |-> s.name, scenarios |-> G(s.scenarios)]
           Category(c) == [id |-> c.id, name |-> c.name, scenarios |-> G(c.scenarios),
                           subs |-> [s \in DOMAIN c.subs |-> Sub(c.subs[s])]]
<1>1. b2 = [name |-> b.name, tiers |-> b.tiers, uncategorized |-> G(b.uncategorized),
            categories |-> [c \in DOMAIN b.categories |-> Category(b.categories[c])]]
  BY DEF SetScenarioHashes, When, OnEntry, MapEntries, MapLists
<1>2. \A e : GoodEntry(e, T, B) => GoodEntry(F(e), T, B) /\ F(e).id = e.id
  <2> HIDE DEF T
  <2> QED
    BY EntryRehashed
<1>3. /\ GoodList(b.uncategorized, T, B) /\ GoodTiers(b.tiers)
      /\ \A c \in DOMAIN b.categories : GoodList(b.categories[c].scenarios, T, B)
      /\ \A c \in DOMAIN b.categories : \A s \in DOMAIN b.categories[c].subs :
           GoodList(b.categories[c].subs[s].scenarios, T, B)
  BY GoodParts
<1> HIDE DEF T, F
<1>5. ASSUME NEW l, GoodList(l, T, B) PROVE Mapped(G(l), l, T, B)
  BY <1>2, <1>5 DEF Mapped, GoodList
<1> HIDE DEF G
<1>6. /\ Relists(b, b2) /\ b2.tiers = b.tiers /\ b2.uncategorized = G(b.uncategorized)
      /\ \A c \in DOMAIN b.categories : b2.categories[c].scenarios = G(b.categories[c].scenarios)
      /\ \A c \in DOMAIN b.categories : \A s \in DOMAIN b.categories[c].subs :
            b2.categories[c].subs[s].scenarios = G(b.categories[c].subs[s].scenarios)
  BY <1>1 DEF Relists
<1>7. Rewrites(b2, b, B)
  BY <1>3, <1>5, <1>6 DEF Rewrites, T
<1>8. b2.tiers = b.tiers
  BY <1>6
<1>9. Good(b2, B) /\ Ids(b2) \subseteq Ids(b) /\ EntryIds(b2) = EntryIds(b)
  BY <1>7, Rewritten
<1> QED
  BY <1>8, <1>9

\* entering a score, which makes its cell no banned one (setThreshold),
LEMMA SetThresholdKeeps ==
  ASSUME NEW b, NEW B, Good(b, B), NoGroup \notin Ids(b), NEW id, NEW tier, NEW score, IsExpected(score),
         score # NonFinite, NEW b2 \in SetThreshold(b, id, tier, score)
  PROVE  Good(b2, B \ {<<id, tier>>}) /\ Ids(b2) \subseteq Ids(b)
         /\ EntryIds(b2) = EntryIds(b) /\ b2.tiers = b.tiers
<1> DEFINE F(e) == IF e.id = id THEN Typed(e, tier, score) ELSE e
           G(l) == [i \in DOMAIN l |-> F(l[i])]
           T == IdsOf(b.tiers)
           Sub(s) == [id |-> s.id, name |-> s.name, scenarios |-> G(s.scenarios)]
           Category(c) == [id |-> c.id, name |-> c.name, scenarios |-> G(c.scenarios),
                           subs |-> [s \in DOMAIN c.subs |-> Sub(c.subs[s])]]
<1>1. b2 = [name |-> b.name, tiers |-> b.tiers, uncategorized |-> G(b.uncategorized),
            categories |-> [c \in DOMAIN b.categories |-> Category(b.categories[c])]] /\ tier \in T
  BY DEF SetThreshold, When, TierIds, OnEntry, MapEntries, MapLists
<1>2. \A e : GoodEntry(e, T, B) => GoodEntry(F(e), T, B \ {<<id, tier>>}) /\ F(e).id = e.id
  <2> SUFFICES ASSUME NEW e, GoodEntry(e, T, B)
               PROVE  GoodEntry(F(e), T, B \ {<<id, tier>>}) /\ F(e).id = e.id
    OBVIOUS
  <2> HIDE DEF T
  <2>1. CASE e.id = id
    BY <1>1, <2>1, EntryTyped
  <2>2. CASE e.id # id
    BY <2>2, EntryGrows
  <2> QED
    BY <2>1, <2>2
<1>3. /\ GoodList(b.uncategorized, T, B) /\ GoodTiers(b.tiers)
      /\ \A c \in DOMAIN b.categories : GoodList(b.categories[c].scenarios, T, B)
      /\ \A c \in DOMAIN b.categories : \A s \in DOMAIN b.categories[c].subs :
           GoodList(b.categories[c].subs[s].scenarios, T, B)
  BY GoodParts
<1> HIDE DEF T, F
<1>5. ASSUME NEW l, GoodList(l, T, B) PROVE Mapped(G(l), l, T, B \ {<<id, tier>>})
  BY <1>2, <1>5 DEF Mapped, GoodList
<1> HIDE DEF G
<1>6. /\ Relists(b, b2) /\ b2.tiers = b.tiers /\ b2.uncategorized = G(b.uncategorized)
      /\ \A c \in DOMAIN b.categories : b2.categories[c].scenarios = G(b.categories[c].scenarios)
      /\ \A c \in DOMAIN b.categories : \A s \in DOMAIN b.categories[c].subs :
            b2.categories[c].subs[s].scenarios = G(b.categories[c].subs[s].scenarios)
  BY <1>1 DEF Relists
<1>7. Rewrites(b2, b, B \ {<<id, tier>>})
  BY <1>3, <1>5, <1>6 DEF Rewrites, T
<1>8. b2.tiers = b.tiers
  BY <1>6
<1>9. Good(b2, B \ {<<id, tier>>}) /\ Ids(b2) \subseteq Ids(b) /\ EntryIds(b2) = EntryIds(b)
  BY <1>7, Rewritten
<1> QED
  BY <1>8, <1>9

\* clearing a score, after which its cell may be banned (clearThreshold),
LEMMA ClearThresholdKeeps ==
  ASSUME NEW b, NEW B, Good(b, B), NoGroup \notin Ids(b), NEW id, NEW tier,
         NEW b2 \in ClearThreshold(b, id, tier)
  PROVE  Good(b2, B \cup {<<id, tier>>}) /\ Ids(b2) \subseteq Ids(b)
         /\ EntryIds(b2) = EntryIds(b) /\ b2.tiers = b.tiers
<1> DEFINE F(e) == IF e.id = id THEN Cleared(e, tier) ELSE e
           G(l) == [i \in DOMAIN l |-> F(l[i])]
           T == IdsOf(b.tiers)
           Sub(s) == [id |-> s.id, name |-> s.name, scenarios |-> G(s.scenarios)]
           Category(c) == [id |-> c.id, name |-> c.name, scenarios |-> G(c.scenarios),
                           subs |-> [s \in DOMAIN c.subs |-> Sub(c.subs[s])]]
<1>1. b2 = [name |-> b.name, tiers |-> b.tiers, uncategorized |-> G(b.uncategorized),
            categories |-> [c \in DOMAIN b.categories |-> Category(b.categories[c])]]
  BY DEF ClearThreshold, When, OnEntry, MapEntries, MapLists
<1>2. \A e : GoodEntry(e, T, B) => GoodEntry(F(e), T, B \cup {<<id, tier>>}) /\ F(e).id = e.id
  <2> SUFFICES ASSUME NEW e, GoodEntry(e, T, B)
               PROVE  GoodEntry(F(e), T, B \cup {<<id, tier>>}) /\ F(e).id = e.id
    OBVIOUS
  <2> HIDE DEF T
  <2>1. CASE e.id = id
    BY <2>1, EntryCleared
  <2>2. CASE e.id # id
    BY <2>2 DEF GoodEntry, Tied
  <2> QED
    BY <2>1, <2>2
<1>3. /\ GoodList(b.uncategorized, T, B) /\ GoodTiers(b.tiers)
      /\ \A c \in DOMAIN b.categories : GoodList(b.categories[c].scenarios, T, B)
      /\ \A c \in DOMAIN b.categories : \A s \in DOMAIN b.categories[c].subs :
           GoodList(b.categories[c].subs[s].scenarios, T, B)
  BY GoodParts
<1> HIDE DEF T, F
<1>5. ASSUME NEW l, GoodList(l, T, B) PROVE Mapped(G(l), l, T, B \cup {<<id, tier>>})
  BY <1>2, <1>5 DEF Mapped, GoodList
<1> HIDE DEF G
<1>6. /\ Relists(b, b2) /\ b2.tiers = b.tiers /\ b2.uncategorized = G(b.uncategorized)
      /\ \A c \in DOMAIN b.categories : b2.categories[c].scenarios = G(b.categories[c].scenarios)
      /\ \A c \in DOMAIN b.categories : \A s \in DOMAIN b.categories[c].subs :
            b2.categories[c].subs[s].scenarios = G(b.categories[c].subs[s].scenarios)
  BY <1>1 DEF Relists
<1>7. Rewrites(b2, b, B \cup {<<id, tier>>})
  BY <1>3, <1>5, <1>6 DEF Rewrites, T
<1>8. b2.tiers = b.tiers
  BY <1>6
<1>9. Good(b2, B \cup {<<id, tier>>}) /\ Ids(b2) \subseteq Ids(b) /\ EntryIds(b2) = EntryIds(b)
  BY <1>7, Rewritten
<1> QED
  BY <1>8, <1>9

\* and removing a tier, with the thresholds of it (removeTier).
LEMMA RemoveTierKeeps ==
  ASSUME NEW b, NEW B, Good(b, B), NoGroup \notin Ids(b), NEW id, NEW b2 \in RemoveTier(b, id)
  PROVE  Good(b2, B) /\ Ids(b2) \subseteq Ids(b)
         /\ EntryIds(b2) = EntryIds(b) /\ b2.tiers = Without(b.tiers, id)
<1> DEFINE F(e) == Cleared(e, id)
           G(l) == [i \in DOMAIN l |-> F(l[i])]
           T == IdsOf(b.tiers)
           Sub(s) == [id |-> s.id, name |-> s.name, scenarios |-> G(s.scenarios)]
           Category(c) == [id |-> c.id, name |-> c.name, scenarios |-> G(c.scenarios),
                           subs |-> [s \in DOMAIN c.subs |-> Sub(c.subs[s])]]
<1>1. b2 = [name |-> b.name, tiers |-> Without(b.tiers, id), uncategorized |-> G(b.uncategorized),
            categories |-> [c \in DOMAIN b.categories |-> Category(b.categories[c])]] /\ id \in T
  BY DEF RemoveTier, When, TierIds, MapEntries, MapLists
<1>2. \A e : GoodEntry(e, T, B) => GoodEntry(F(e), T \ {id}, B) /\ F(e).id = e.id
  <2> HIDE DEF T
  <2> QED
    BY EntryCleared
<1>3. /\ GoodList(b.uncategorized, T, B) /\ GoodTiers(b.tiers)
      /\ \A c \in DOMAIN b.categories : GoodList(b.categories[c].scenarios, T, B)
      /\ \A c \in DOMAIN b.categories : \A s \in DOMAIN b.categories[c].subs :
           GoodList(b.categories[c].subs[s].scenarios, T, B)
  BY GoodParts
<1>4. GoodTiers(Without(b.tiers, id)) /\ IdsOf(Without(b.tiers, id)) = T \ {id}
  BY <1>1, <1>3, TiersWithout
<1> HIDE DEF T, F
<1>5. ASSUME NEW l, GoodList(l, T, B) PROVE Mapped(G(l), l, T \ {id}, B)
  BY <1>2, <1>5 DEF Mapped, GoodList
<1> HIDE DEF G
<1>6. /\ Relists(b, b2) /\ b2.tiers = Without(b.tiers, id) /\ b2.uncategorized = G(b.uncategorized)
      /\ \A c \in DOMAIN b.categories : b2.categories[c].scenarios = G(b.categories[c].scenarios)
      /\ \A c \in DOMAIN b.categories : \A s \in DOMAIN b.categories[c].subs :
            b2.categories[c].subs[s].scenarios = G(b.categories[c].subs[s].scenarios)
  BY <1>1 DEF Relists
<1>7. Rewrites(b2, b, B)
  BY <1>4, <1>3, <1>5, <1>6 DEF Rewrites, T
<1>8. b2.tiers = Without(b.tiers, id)
  BY <1>6
<1>9. Good(b2, B) /\ Ids(b2) \subseteq Ids(b) /\ EntryIds(b2) = EntryIds(b)
  BY <1>7, Rewritten
<1> QED
  BY <1>8, <1>9

\* Before saving, the cells whose text is retained are cleared (benchmark_manager_vm: save).
LEMMA NormalizedKeeps ==
  ASSUME NEW B, Good(draft, B), NoGroup \notin Ids(draft)
  PROVE  Good(Normalized, DOMAIN inputs) /\ Ids(Normalized) \subseteq Ids(draft)
         /\ EntryIds(Normalized) = EntryIds(draft) /\ Normalized.tiers = draft.tiers
<1> DEFINE F(e) == [e EXCEPT !.thresholds = At(@, {i \in DOMAIN @ : <<e.id, @[i].tier>> \notin DOMAIN inputs})]
           G(l) == [i \in DOMAIN l |-> F(l[i])]
           T == IdsOf(draft.tiers)
           Sub(s) == [id |-> s.id, name |-> s.name, scenarios |-> G(s.scenarios)]
           Category(c) == [id |-> c.id, name |-> c.name, scenarios |-> G(c.scenarios),
                           subs |-> [s \in DOMAIN c.subs |-> Sub(c.subs[s])]]
<1>1. Normalized = [name |-> draft.name, tiers |-> draft.tiers, uncategorized |-> G(draft.uncategorized),
            categories |-> [c \in DOMAIN draft.categories |-> Category(draft.categories[c])]]
  BY DEF Normalized, MapEntries, MapLists
<1>2. \A e : GoodEntry(e, T, B) => GoodEntry(F(e), T, DOMAIN inputs) /\ F(e).id = e.id
  <2> SUFFICES ASSUME NEW e, GoodEntry(e, T, B)
               PROVE  GoodEntry(F(e), T, DOMAIN inputs) /\ F(e).id = e.id
    OBVIOUS
  <2> DEFINE P == {i \in DOMAIN e.thresholds : <<e.id, e.thresholds[i].tier>> \notin DOMAIN inputs}
             x == [e EXCEPT !.thresholds = At(e.thresholds, P)]
  <2>1. \A i \in P : e.thresholds[i].tier \in T /\ <<e.id, e.thresholds[i].tier>> \notin DOMAIN inputs
    BY DEF GoodEntry, Tied, ToSet
  <2>2. F(e) = x /\ P \subseteq DOMAIN e.thresholds
    OBVIOUS
  <2> HIDE DEF T, P, F
  <2>3. GoodEntry(x, T, DOMAIN inputs) /\ x.id = e.id
    BY <2>1, <2>2, EntryLosing
  <2> QED
    BY <2>2, <2>3
<1>3. /\ GoodList(draft.uncategorized, T, B) /\ GoodTiers(draft.tiers)
      /\ \A c \in DOMAIN draft.categories : GoodList(draft.categories[c].scenarios, T, B)
      /\ \A c \in DOMAIN draft.categories : \A s \in DOMAIN draft.categories[c].subs :
           GoodList(draft.categories[c].subs[s].scenarios, T, B)
  BY GoodParts
<1> HIDE DEF T, F
<1>5. ASSUME NEW l, GoodList(l, T, B) PROVE Mapped(G(l), l, T, DOMAIN inputs)
  BY <1>2, <1>5 DEF Mapped, GoodList
<1> HIDE DEF G
<1>6. /\ Relists(draft, Normalized) /\ Normalized.tiers = draft.tiers /\ Normalized.uncategorized = G(draft.uncategorized)
      /\ \A c \in DOMAIN draft.categories : Normalized.categories[c].scenarios = G(draft.categories[c].scenarios)
      /\ \A c \in DOMAIN draft.categories : \A s \in DOMAIN draft.categories[c].subs :
            Normalized.categories[c].subs[s].scenarios = G(draft.categories[c].subs[s].scenarios)
  BY <1>1 DEF Relists
<1>7. Rewrites(Normalized, draft, DOMAIN inputs)
  BY <1>3, <1>5, <1>6 DEF Rewrites, T
<1>8. Normalized.tiers = draft.tiers
  BY <1>6
<1>9. Good(Normalized, DOMAIN inputs) /\ Ids(Normalized) \subseteq Ids(draft) /\ EntryIds(Normalized) = EntryIds(draft)
  BY <1>7, Rewritten
<1> QED
  BY <1>8, <1>9

\* Mapping what the profile knows keeps the benchmark sound (autoMap).
LEMMA AutoMappedKeeps ==
  ASSUME NEW b, NEW B, Good(b, B), NoGroup \notin Ids(b), NEW k, IsCatalogue(k)
  PROVE  Good(AutoMapped(k, b), B) /\ Ids(AutoMapped(k, b)) \subseteq Ids(b)
         /\ EntryIds(AutoMapped(k, b)) = EntryIds(b) /\ AutoMapped(k, b).tiers = b.tiers
<1> DEFINE b2 == AutoMapped(k, b)
           F(e) == 
    IF /\ Settled(k, e) /\ Only(k, e).hash \notin Hashes(b)
       /\ \A i \in 1..(PositionOf(Entries(b), e.id) - 1) :
            Settled(k, Entries(b)[i]) => Only(k, Entries(b)[i]).hash # Only(k, e).hash
    THEN Linked(k, e) ELSE e
           G(l) == [i \in DOMAIN l |-> F(l[i])]
           T == IdsOf(b.tiers)
           Sub(s) == [id |-> s.id, name |-> s.name, scenarios |-> G(s.scenarios)]
           Category(c) == [id |-> c.id, name |-> c.name, scenarios |-> G(c.scenarios),
                           subs |-> [s \in DOMAIN c.subs |-> Sub(c.subs[s])]]
<1>1. b2 = [name |-> b.name, tiers |-> b.tiers, uncategorized |-> G(b.uncategorized),
            categories |-> [c \in DOMAIN b.categories |-> Category(b.categories[c])]]
  BY DEF AutoMapped, MapEntries, MapLists
<1>2. \A e : GoodEntry(e, T, B) => GoodEntry(F(e), T, B) /\ F(e).id = e.id
  <2> SUFFICES ASSUME NEW e, GoodEntry(e, T, B)
               PROVE  GoodEntry(F(e), T, B) /\ F(e).id = e.id
    OBVIOUS
  <2>1. F(e) = e \/ (Settled(k, e) /\ F(e) = Linked(k, e))
    OBVIOUS
  <2> HIDE DEF T, F
  <2>2. ASSUME Settled(k, e) PROVE GoodEntry(Linked(k, e), T, B) /\ Linked(k, e).id = e.id
    <3> DEFINE y == [e EXCEPT !.hashes = <<Only(k, e).hash>>]
    <3>1. IsHashes(<<Only(k, e).hash>>) /\ IsExpected(Only(k, e).name)
      BY <2>2, OnlyIsKnown
    <3>2. GoodEntry(y, T, B) /\ y.id = e.id
      BY <3>1, EntryRehashed
    <3>3. Linked(k, e) = [y EXCEPT !.name = Only(k, e).name]
      BY DEF Linked
    <3> HIDE DEF y
    <3>4. GoodEntry([y EXCEPT !.name = Only(k, e).name], T, B) /\ [y EXCEPT !.name = Only(k, e).name].id = y.id
      BY <3>1, <3>2, EntryRenamed
    <3> QED
      BY <3>2, <3>3, <3>4
  <2> QED
    BY <2>1, <2>2
<1>3. /\ GoodList(b.uncategorized, T, B) /\ GoodTiers(b.tiers)
      /\ \A c \in DOMAIN b.categories : GoodList(b.categories[c].scenarios, T, B)
      /\ \A c \in DOMAIN b.categories : \A s \in DOMAIN b.categories[c].subs :
           GoodList(b.categories[c].subs[s].scenarios, T, B)
  BY GoodParts
<1> HIDE DEF T, F, b2
<1>5. ASSUME NEW l, GoodList(l, T, B) PROVE Mapped(G(l), l, T, B)
  BY <1>2, <1>5 DEF Mapped, GoodList
<1> HIDE DEF G
<1>6. /\ Relists(b, b2) /\ b2.tiers = b.tiers /\ b2.uncategorized = G(b.uncategorized)
      /\ \A c \in DOMAIN b.categories : b2.categories[c].scenarios = G(b.categories[c].scenarios)
      /\ \A c \in DOMAIN b.categories : \A s \in DOMAIN b.categories[c].subs :
            b2.categories[c].subs[s].scenarios = G(b.categories[c].subs[s].scenarios)
  BY <1>1 DEF Relists
<1>7. Rewrites(b2, b, B)
  BY <1>3, <1>5, <1>6 DEF Rewrites, T
<1>8. b2.tiers = b.tiers
  BY <1>6
<1>9. Good(b2, B) /\ Ids(b2) \subseteq Ids(b) /\ EntryIds(b2) = EntryIds(b)
  BY <1>7, Rewritten
<1> QED
  BY <1>8, <1>9 DEF b2

\* The ids in the lists are ids of the benchmark.
LEMMA ListIds ==
  ASSUME NEW b
  PROVE  /\ IdsOf(b.tiers) \subseteq Ids(b) /\ IdsOf(b.uncategorized) \subseteq Ids(b)
         /\ \A c \in DOMAIN b.categories : b.categories[c].id \in Ids(b) /\ CatAll(b.categories[c]) \subseteq Ids(b)
         /\ \A c \in DOMAIN b.categories : IdsOf(b.categories[c].scenarios) \subseteq Ids(b)
         /\ \A c \in DOMAIN b.categories : \A s \in DOMAIN b.categories[c].subs :
              /\ SubAll(b.categories[c].subs[s]) \subseteq Ids(b) /\ b.categories[c].subs[s].id \in Ids(b)
              /\ IdsOf(b.categories[c].subs[s].scenarios) \subseteq Ids(b)
<1>1. IdsOf(b.tiers) \subseteq Ids(b) /\ IdsOf(b.uncategorized) \subseteq Ids(b)
  BY DEF Ids, Held
<1>2. \A c \in DOMAIN b.categories : CatAll(b.categories[c]) \subseteq Ids(b)
  BY DEF Ids, Held
<1>3. \A c \in DOMAIN b.categories :
        b.categories[c].id \in CatAll(b.categories[c]) /\ IdsOf(b.categories[c].scenarios) \subseteq CatAll(b.categories[c])
  BY DEF CatAll
<1>4. \A c \in DOMAIN b.categories : \A s \in DOMAIN b.categories[c].subs :
        SubAll(b.categories[c].subs[s]) \subseteq CatAll(b.categories[c])
  BY DEF CatAll
<1>5. \A s : s.id \in SubAll(s) /\ IdsOf(s.scenarios) \subseteq SubAll(s)
  BY DEF SubAll
<1> QED
  BY <1>1, <1>2, <1>3, <1>4, <1>5

\* Entries that are new go to the end of a list.
LEMMA AppendedKeeps ==
  ASSUME NEW b, NEW B, Good(b, B), NoGroup \notin Ids(b), NEW group, NEW new,
         GoodList(new, IdsOf(b.tiers), B), IdsOf(new) \cap Ids(b) = {}
  PROVE  /\ Good(Appended(b, group, new), B)
         /\ \A x \in Ids(Appended(b, group, new)) : x \in Ids(b) \/ x \in IdsOf(new)
<1> DEFINE b2 == Appended(b, group, new)
           X == IdsOf(new)
           T == IdsOf(b.tiers)
           G(g, l) == IF g = group THEN l \o new ELSE l
           Sub(s) == [id |-> s.id, name |-> s.name, scenarios |-> G(s.id, s.scenarios)]
           Category(c) == [id |-> c.id, name |-> c.name, scenarios |-> G(c.id, c.scenarios),
                           subs |-> [s \in DOMAIN c.subs |-> Sub(c.subs[s])]]
<1>1. b2 = [name |-> b.name, tiers |-> b.tiers, uncategorized |-> G(NoGroup, b.uncategorized),
            categories |-> [c \in DOMAIN b.categories |-> Category(b.categories[c])]]
  BY DEF Appended, OnList, MapLists
<1>2. ASSUME NEW g, NEW l, GoodList(l, T, B), IdsOf(l) \cap X = {} PROVE Fits(G(g, l), l, g, T, B, group, X)
  <2>1. CASE g = group
    <3> HIDE DEF T, X
    <3>1. IdsOf(new) \subseteq X /\ GoodList(new, T, B) /\ IdsOf(l) \cap IdsOf(new) = {}
      BY <1>2 DEF X, T
    <3>2. Fits(l \o new, l, group, T, B, group, X)
      BY <1>2, <3>1, FitsJoined
    <3> QED
      BY <2>1, <3>2
  <2>2. CASE g # group
    <3> HIDE DEF T, X
    <3> QED
      BY <1>2, <2>2, FitsSame
  <2> QED
    BY <2>1, <2>2
<1> HIDE DEF G, b2
<1>3. /\ GoodList(b.uncategorized, T, B) /\ GoodTiers(b.tiers)
      /\ \A c \in DOMAIN b.categories : GoodList(b.categories[c].scenarios, T, B)
      /\ \A c \in DOMAIN b.categories : \A s \in DOMAIN b.categories[c].subs :
           GoodList(b.categories[c].subs[s].scenarios, T, B)
  BY GoodParts
<1>4. /\ IdsOf(b.uncategorized) \cap X = {}
      /\ \A c \in DOMAIN b.categories : IdsOf(b.categories[c].scenarios) \cap X = {}
      /\ \A c \in DOMAIN b.categories : \A s \in DOMAIN b.categories[c].subs :
           IdsOf(b.categories[c].subs[s].scenarios) \cap X = {}
  BY ListIds
<1>5. /\ Relists(b, b2) /\ b2.tiers = b.tiers /\ b2.uncategorized = G(NoGroup, b.uncategorized)
      /\ \A c \in DOMAIN b.categories : b2.categories[c].scenarios = G(b.categories[c].id, b.categories[c].scenarios)
      /\ \A c \in DOMAIN b.categories : \A s \in DOMAIN b.categories[c].subs :
            b2.categories[c].subs[s].scenarios = G(b.categories[c].subs[s].id, b.categories[c].subs[s].scenarios)
  BY <1>1 DEF Relists
<1> HIDE DEF T, X
<1>6. /\ Fits(b2.uncategorized, b.uncategorized, NoGroup, T, B, group, X)
      /\ \A c \in DOMAIN b.categories :
           Fits(b2.categories[c].scenarios, b.categories[c].scenarios, b.categories[c].id, T, B, group, X)
      /\ \A c \in DOMAIN b.categories : \A s \in DOMAIN b.categories[c].subs :
           Fits(b2.categories[c].subs[s].scenarios, b.categories[c].subs[s].scenarios, b.categories[c].subs[s].id,
                T, B, group, X)
  BY <1>2, <1>3, <1>4, <1>5
<1>7. Relisting(b2, b, B, group, X)
  BY <1>3, <1>5, <1>6 DEF Relisting, T, X
<1> QED
  BY <1>7, Relisted DEF b2, X

\* The entries with some ids are taken out; of those nothing is left.
LEMMA DetachedKeeps ==
  ASSUME NEW b, NEW B, Good(b, B), NoGroup \notin Ids(b), NEW ids
  PROVE  /\ Good(Detached(b, ids), B) /\ Ids(Detached(b, ids)) \subseteq Ids(b)
         /\ Detached(b, ids).tiers = b.tiers /\ Relists(b, Detached(b, ids))
         /\ ids \subseteq EntryIds(b) => ids \cap Ids(Detached(b, ids)) = {}
<1> DEFINE b2 == Detached(b, ids)
           T == IdsOf(b.tiers)
           G(l) == At(l, {i \in DOMAIN l : l[i].id \notin ids})
           Sub(s) == [id |-> s.id, name |-> s.name, scenarios |-> G(s.scenarios)]
           Category(c) == [id |-> c.id, name |-> c.name, scenarios |-> G(c.scenarios),
                           subs |-> [s \in DOMAIN c.subs |-> Sub(c.subs[s])]]
<1>1. b2 = [name |-> b.name, tiers |-> b.tiers, uncategorized |-> G(b.uncategorized),
            categories |-> [c \in DOMAIN b.categories |-> Category(b.categories[c])]]
  BY DEF Detached, MapLists
<1>2. ASSUME NEW l, GoodList(l, T, B) PROVE Drawn(G(l), l) /\ IdsOf(G(l)) \cap ids = {}
  <2> DEFINE P == {i \in DOMAIN l : l[i].id \notin ids}
  <2>1. IsArray(l) /\ Distinct(l)
    BY <1>2 DEF GoodList
  <2>2. P \subseteq DOMAIN l /\ \A i \in P : l[i].id \notin ids
    OBVIOUS
  <2> HIDE DEF P
  <2>3. Drawn(At(l, P), l) /\ ToSet(At(l, P)) = {l[i] : i \in P}
    BY <2>1, <2>2, WithoutDrawn
  <2>4. \A x \in IdsOf(At(l, P)) : x \notin ids
    BY <2>2, <2>3, IdsOfSet
  <2> QED
    BY <2>3, <2>4 DEF P
<1> HIDE DEF G, b2
<1>3. /\ GoodList(b.uncategorized, T, B) /\ GoodTiers(b.tiers)
      /\ \A c \in DOMAIN b.categories : GoodList(b.categories[c].scenarios, T, B)
      /\ \A c \in DOMAIN b.categories : \A s \in DOMAIN b.categories[c].subs :
           GoodList(b.categories[c].subs[s].scenarios, T, B)
  BY GoodParts
<1>5. /\ Relists(b, b2) /\ b2.tiers = b.tiers /\ b2.uncategorized = G(b.uncategorized)
      /\ \A c \in DOMAIN b.categories : b2.categories[c].scenarios = G(b.categories[c].scenarios)
      /\ \A c \in DOMAIN b.categories : \A s \in DOMAIN b.categories[c].subs :
            b2.categories[c].subs[s].scenarios = G(b.categories[c].subs[s].scenarios)
  BY <1>1 DEF Relists
<1> HIDE DEF T
<1>6. \A l, g : GoodList(l, T, B) => Fits(G(l), l, g, T, B, NoGroup, {})
  BY <1>2, FitsDrawn
<1>7. /\ Fits(b2.uncategorized, b.uncategorized, NoGroup, T, B, NoGroup, {})
      /\ \A c \in DOMAIN b.categories :
           Fits(b2.categories[c].scenarios, b.categories[c].scenarios, b.categories[c].id, T, B, NoGroup, {})
      /\ \A c \in DOMAIN b.categories : \A s \in DOMAIN b.categories[c].subs :
           Fits(b2.categories[c].subs[s].scenarios, b.categories[c].subs[s].scenarios, b.categories[c].subs[s].id,
                T, B, NoGroup, {})
  BY <1>3, <1>5, <1>6
<1>8. Relisting(b2, b, B, NoGroup, {})
  BY <1>3, <1>5, <1>7 DEF Relisting, T
<1>9. Good(b2, B) /\ Ids(b2) \subseteq Ids(b)
  BY <1>8, Relisted
<1>10. ASSUME ids \subseteq EntryIds(b), NEW x \in ids, x \in Ids(b2) PROVE FALSE
  <2>1. x \notin TierIds(b) /\ x \notin CategoryIds(b) /\ x \notin SubIds(b)
    BY <1>10, GoodIsSound
  <2>2. x \notin IdsOf(b2.tiers)
    BY <1>5, <2>1 DEF TierIds
  <2>3. x \notin IdsOf(b2.uncategorized)
    BY <1>2, <1>3, <1>5, <1>10
  <2>4. PICK c \in DOMAIN b2.categories : x \in CatAll(b2.categories[c])
    BY <1>10, <2>2, <2>3 DEF Ids, Held
  <2>5. c \in DOMAIN b.categories
    BY <1>5 DEF Relists
  <2>6. /\ b2.categories[c].id = b.categories[c].id
        /\ DOMAIN b2.categories[c].subs = DOMAIN b.categories[c].subs
        /\ \A s \in DOMAIN b.categories[c].subs : b2.categories[c].subs[s].id = b.categories[c].subs[s].id
    <3> DEFINE was == b.categories[c]
               is == b2.categories[c]
    <3>1. /\ is = [id |-> was.id, name |-> was.name, scenarios |-> is.scenarios, subs |-> is.subs]
          /\ is.subs = [s \in DOMAIN was.subs |-> is.subs[s]]
          /\ \A s \in DOMAIN was.subs :
               is.subs[s] = [id |-> was.subs[s].id, name |-> was.subs[s].name, scenarios |-> is.subs[s].scenarios]
      BY <1>5, <2>5 DEF Relists
    <3> HIDE DEF was, is
    <3>2. is.id = was.id
      BY <3>1
    <3>4. ASSUME NEW s \in DOMAIN was.subs PROVE is.subs[s].id = was.subs[s].id
      <4>1. is.subs[s] = [id |-> was.subs[s].id, name |-> was.subs[s].name, scenarios |-> is.subs[s].scenarios]
        BY <3>1
      <4> QED
        BY <4>1
    <3>3. DOMAIN is.subs = DOMAIN was.subs
      BY <3>1
    <3> QED
      BY <3>2, <3>3, <3>4 DEF was, is
  <2>7. x # b2.categories[c].id
    BY <2>1, <2>5, <2>6 DEF CategoryIds, IdsOf
  <2>8. x \notin IdsOf(b2.categories[c].scenarios)
    BY <1>2, <1>3, <1>5, <1>10, <2>5
  <2>9. PICK s \in DOMAIN b2.categories[c].subs : x \in SubAll(b2.categories[c].subs[s])
    BY <2>4, <2>7, <2>8 DEF CatAll
  <2>10. x # b2.categories[c].subs[s].id
    BY <2>1, <2>5, <2>6, <2>9 DEF SubIds, IdsOf
  <2>11. x \notin IdsOf(b2.categories[c].subs[s].scenarios)
    BY <1>2, <1>3, <1>5, <1>10, <2>5, <2>6, <2>9
  <2> QED
    BY <2>9, <2>10, <2>11 DEF SubAll
<1> QED
  BY <1>5, <1>9, <1>10 DEF b2

\* So does removing scenarios (removeScenarios).
LEMMA RemoveScenariosKeeps ==
  ASSUME NEW b, NEW B, Good(b, B), NoGroup \notin Ids(b), NEW ids, NEW b2 \in RemoveScenarios(b, ids)
  PROVE  Good(b2, B) /\ Ids(b2) \subseteq Ids(b)
BY DetachedKeeps DEF RemoveScenarios, When

\* Entries that are made anew, without hashes and with ids of their own.
Unplayed(n, ids, names) == [i \in 1..n |-> NewEntry(ids[i], names[i], <<>>)]
MayBeMade(n, ids, names) ==
  n \in Nat /\ (\A i, j \in 1..n : ids[i] = ids[j] => i = j) /\ \A i \in 1..n : IsExpected(names[i])

\* Scenarios that are made anew are sound.
LEMMA UnplayedAreGood ==
  ASSUME NEW n, NEW ids, NEW names, MayBeMade(n, ids, names), NEW T, NEW B
  PROVE  /\ GoodList(Unplayed(n, ids, names), T, B)
         /\ \A x \in IdsOf(Unplayed(n, ids, names)) : \E i \in 1..n : x = ids[i]
<1> DEFINE new == Unplayed(n, ids, names)
<1>1. IsArray(new) /\ DOMAIN new = 1..n /\ \A i \in 1..n : new[i] = NewEntry(ids[i], names[i], <<>>)
  <2>1. n \in Nat
    BY DEF MayBeMade
  <2>2. new = [i \in 1..n |-> new[i]] /\ \A i \in 1..n : new[i] = NewEntry(ids[i], names[i], <<>>)
    BY DEF Unplayed
  <2> HIDE DEF new
  <2> QED
    BY <2>1, <2>2, ArrayOfLength
<1> HIDE DEF new
<1>2. ASSUME NEW i \in 1..n PROVE GoodEntry(new[i], T, B) /\ new[i].id = ids[i]
  <2>1. new[i] = [id |-> ids[i], name |-> names[i], hashes |-> <<>>, thresholds |-> <<>>]
    BY <1>1 DEF NewEntry
  <2>2. IsExpected(names[i])
    BY DEF MayBeMade
  <2>3. /\ new[i].id = ids[i] /\ new[i].name = names[i] /\ new[i].hashes = <<>> /\ new[i].thresholds = <<>>
        /\ new[i] = [id |-> new[i].id, name |-> new[i].name, hashes |-> new[i].hashes, thresholds |-> new[i].thresholds]
    BY <2>1
  <2> QED
    BY <2>2, <2>3, EmptyArray DEF GoodEntry, IsEntry, Tied
<1>3. Distinct(new)
  BY <1>1, <1>2 DEF Distinct, MayBeMade
<1>4. \A x \in IdsOf(new) : \E i \in 1..n : x = ids[i]
  BY <1>1, <1>2 DEF IdsOf
<1> QED
  BY <1>1, <1>2, <1>3, <1>4 DEF GoodList, new

\* A benchmark stays sound with a scenario that has a new id (addScenario),
LEMMA AddScenarioKeeps ==
  ASSUME NEW b, NEW B, Good(b, B), NoGroup \notin Ids(b), NEW id, id \notin Ids(b), NEW name, IsExpected(name),
         NEW hashes, IsHashes(hashes), NEW b2 \in AddScenario(b, id, name, hashes)
  PROVE  Good(b2, B) /\ \A x \in Ids(b2) : x \in Ids(b) \/ x = id
<1> DEFINE e == NewEntry(id, name, hashes)
           new == <<e>>
           T == IdsOf(b.tiers)
<1>1. b2 = Appended(b, NoGroup, new)
  BY DEF AddScenario, When
<1>2. GoodEntry(e, T, B) /\ e.id = id
  <2>1. e = [id |-> id, name |-> name, hashes |-> hashes, thresholds |-> <<>>]
    BY DEF NewEntry
  <2> HIDE DEF e
  <2>2. /\ e.id = id /\ e.name = name /\ e.hashes = hashes /\ e.thresholds = <<>>
        /\ e = [id |-> e.id, name |-> e.name, hashes |-> e.hashes, thresholds |-> e.thresholds]
    BY <2>1
  <2> QED
    BY <2>2, EmptyArray DEF GoodEntry, IsEntry, Tied, IsHashes
<1> HIDE DEF e
<1>3. IsArray(new) /\ Distinct(new) /\ ToSet(new) = {e} /\ IdsOf(new) = {e.id}
  BY OneArray
<1> HIDE DEF new
<1>4. \A i \in DOMAIN new : new[i] = e
  BY <1>3 DEF ToSet
<1>5. GoodList(new, T, B) /\ IdsOf(new) = {id}
  BY <1>2, <1>3, <1>4 DEF GoodList
<1> HIDE DEF T
<1>6. IdsOf(new) \cap Ids(b) = {}
  BY <1>5
<1>7. Good(Appended(b, NoGroup, new), B) /\ \A x \in Ids(Appended(b, NoGroup, new)) : x \in Ids(b) \/ x \in IdsOf(new)
  BY <1>5, <1>6, AppendedKeeps DEF T
<1> QED
  BY <1>1, <1>5, <1>7

\* and with any number of them (appendUnnamedScenarios).
LEMMA AppendUnnamedKeeps ==
  ASSUME NEW b, NEW B, Good(b, B), NoGroup \notin Ids(b), NEW ids, IsArray(ids), IsInjective(ids),
         ToSet(ids) \cap Ids(b) = {}, IsExpected(Blank)
  PROVE  LET b2 == AppendUnnamedScenarios(b, ids)
         IN Good(b2, B) /\ \A x \in Ids(b2) : x \in Ids(b) \/ x \in ToSet(ids)
<1> DEFINE n == Len(ids)
           names == [i \in 1..n |-> Blank]
           T == IdsOf(b.tiers)
           new == Unplayed(n, ids, names)
<1>1. n \in Nat /\ DOMAIN ids = 1..n
  BY ArrayParts
<1>2. MayBeMade(n, ids, names)
  BY <1>1 DEF IsInjective, MayBeMade
<1>3. AppendUnnamedScenarios(b, ids) = Appended(b, NoGroup, new)
  <2>1. new = [i \in DOMAIN ids |-> NewEntry(ids[i], Blank, <<>>)]
    BY <1>1 DEF Unplayed
  <2> HIDE DEF new
  <2> QED
    BY <2>1 DEF AppendUnnamedScenarios
<1> HIDE DEF n, names, T
<1>4. GoodList(new, T, B) /\ \A x \in IdsOf(new) : \E i \in 1..n : x = ids[i]
  BY <1>2, UnplayedAreGood
<1> HIDE DEF new
<1>5. IdsOf(new) \subseteq ToSet(ids)
  BY <1>1, <1>4 DEF ToSet
<1>6. IdsOf(new) \cap Ids(b) = {}
  BY <1>5
<1>7. Good(Appended(b, NoGroup, new), B) /\ \A x \in Ids(Appended(b, NoGroup, new)) : x \in Ids(b) \/ x \in IdsOf(new)
  BY <1>4, <1>6, AppendedKeeps DEF T
<1> QED
  BY <1>3, <1>5, <1>7
\* The ladder may grow and be put in another order.
LEMMA CategoryGrows ==
  ASSUME NEW c, NEW T, NEW B, GoodCategory(c, T, B), NEW T2, T \subseteq T2
  PROVE  GoodCategory(c, T2, B)
<1>1. \A l : GoodList(l, T, B) => GoodList(l, T2, B)
  BY ListGrows
<1>2. \A s : GoodSub(s, T, B) => GoodSub(s, T2, B)
  BY <1>1 DEF GoodSub
<1> QED
  BY <1>1, <1>2 DEF GoodCategory

\* A benchmark whose ladder keeps its tiers and gets new ones.
LEMMA TiersKeep ==
  ASSUME NEW b, NEW B, Good(b, B), NEW tiers, GoodTiers(tiers), IdsOf(b.tiers) \subseteq IdsOf(tiers),
         NEW X, \A x \in IdsOf(tiers) : x \in IdsOf(b.tiers) \/ x \in X, X \cap Ids(b) = {}
  PROVE  LET b2 == [b EXCEPT !.tiers = tiers]
         IN Good(b2, B) /\ \A x \in Ids(b2) : x \in Ids(b) \/ x \in X
<1> DEFINE b2 == [b EXCEPT !.tiers = tiers]
           u == b.uncategorized
           cs == b.categories
           n == Len(cs)
           T == IdsOf(b.tiers)
           T2 == IdsOf(tiers)
           f == CatParts(cs)
<1>1. b2 = [name |-> b.name, tiers |-> tiers, uncategorized |-> u, categories |-> cs]
  BY DEF Good
<1>2. /\ GoodList(u, T, B) /\ IsArray(cs) /\ \A c \in DOMAIN cs : GoodCategory(cs[c], T, B)
      /\ Apart(T, IdsOf(u), n, f)
  BY DEF Good, GoodBody
<1>3. /\ n \in Nat /\ DOMAIN cs = 1..n /\ \A i \in 1..n : f[i] = CatAll(cs[i])
  BY <1>2, PartsOf, ArrayParts
<1>4. GoodList(u, T2, B) /\ \A c \in DOMAIN cs : GoodCategory(cs[c], T2, B)
  <2> HIDE DEF T, T2
  <2>1. T \subseteq T2
    BY DEF T, T2
  <2> QED
    BY <1>2, <2>1, ListGrows, CategoryGrows
<1>5. X \cap T = {} /\ X \cap IdsOf(u) = {} /\ \A c \in DOMAIN cs : X \cap CatAll(cs[c]) = {}
  BY ListIds
<1>6. Apart(T2, IdsOf(u), n, f)
  <2> DEFINE L == IdsOf(u)
             w == -1
  <2>1. Grows(T2, L, f, T, L, n, f, w, X)
    <3>1. \A x \in T2 : x \in T \/ (w = -1 /\ x \in X)
      OBVIOUS
    <3> HIDE DEF w, T, T2, f, n, cs
    <3> QED
      BY <1>3, <1>5, <3>1 DEF Grows
  <2> HIDE DEF w, T, T2, f, n, cs, L
  <2>2. Apart(T, L, n, f)
    BY <1>2 DEF L
  <2>3. Apart(T2, L, n, f)
    BY <2>1, <2>2, ApartGrown
  <2> QED
    BY <2>3 DEF L
<1>7. GoodBody(u, cs, T2, B)
  BY <1>2, <1>4, <1>6 DEF GoodBody
<1>8. IsExpected(b.name)
  BY DEF Good
<1> HIDE DEF b2, u, cs, T, T2
<1>9. /\ b2.name = b.name /\ b2.tiers = tiers /\ b2.uncategorized = u /\ b2.categories = cs
      /\ b2 = [name |-> b2.name, tiers |-> b2.tiers, uncategorized |-> b2.uncategorized, categories |-> b2.categories]
  BY <1>1
<1>10. Good(b2, B)
  BY <1>7, <1>8, <1>9 DEF Good, T2
<1>11. \A x \in Ids(b2) : x \in Ids(b) \/ x \in X
  BY <1>9 DEF Ids, T, T2, u, cs
<1> QED
  BY <1>10, <1>11 DEF b2

\* Renaming the benchmark (renameBenchmark).
LEMMA RenameBenchmarkKeeps ==
  ASSUME NEW b, NEW B, Good(b, B), NEW name, IsExpected(name), NEW b2 \in RenameBenchmark(b, name)
  PROVE  Good(b2, B) /\ Ids(b2) = Ids(b)
<1>1. b2 = [b EXCEPT !.name = name]
  BY DEF RenameBenchmark
<1>2. b = [name |-> b.name, tiers |-> b.tiers, uncategorized |-> b.uncategorized, categories |-> b.categories]
  BY DEF Good
<1>3. b2 = [name |-> name, tiers |-> b.tiers, uncategorized |-> b.uncategorized, categories |-> b.categories]
  BY <1>1, <1>2
<1>4. /\ b2.name = name /\ b2.tiers = b.tiers /\ b2.uncategorized = b.uncategorized /\ b2.categories = b.categories
      /\ b2 = [name |-> b2.name, tiers |-> b2.tiers, uncategorized |-> b2.uncategorized, categories |-> b2.categories]
  BY <1>3
<1> QED
  BY <1>4 DEF Good, Ids

\* Tiers that only change their names.
TiersRenamed(t2, t) == t2 = [i \in DOMAIN t |-> t2[i]] /\ \A i \in DOMAIN t : IsTier(t2[i]) /\ t2[i].id = t[i].id

\* Renamed tiers are the same tiers.
LEMMA RenamedTiers ==
  ASSUME NEW t, GoodTiers(t), NEW t2, TiersRenamed(t2, t)
  PROVE  GoodTiers(t2) /\ IdsOf(t2) = IdsOf(t)
<1>1. Len(t) \in Nat /\ DOMAIN t = 1..Len(t)
  BY ArrayParts DEF GoodTiers
<1>2. t2 = [i \in 1..Len(t) |-> t2[i]] /\ \A i \in DOMAIN t : IsTier(t2[i]) /\ t2[i].id = t[i].id
  BY <1>1 DEF TiersRenamed
<1>3. IsArray(t2) /\ DOMAIN t2 = DOMAIN t
  BY <1>1, <1>2, ArrayOfLength
<1>4. Distinct(t2)
  BY <1>2, <1>3 DEF Distinct, GoodTiers
<1>5. IdsOf(t2) = IdsOf(t)
  BY <1>2, <1>3 DEF IdsOf
<1> QED
  BY <1>2, <1>3, <1>4, <1>5 DEF GoodTiers

\* New tiers come to the end.
LEMMA JoinedTiers ==
  ASSUME NEW t, GoodTiers(t), NEW new, GoodTiers(new), IdsOf(t) \cap IdsOf(new) = {}
  PROVE  GoodTiers(t \o new) /\ IdsOf(t \o new) = IdsOf(t) \cup IdsOf(new)
<1>1. IsArray(t) /\ IsArray(new) /\ Distinct(t) /\ Distinct(new)
  BY DEF GoodTiers
<1>2. IsArray(t \o new) /\ ToSet(t \o new) = ToSet(t) \cup ToSet(new) /\ Distinct(t \o new)
  BY <1>1, JoinedArrays, JoinedDistinct
<1>3. \A x \in ToSet(t) \cup ToSet(new) : IsTier(x)
  BY DEF GoodTiers, ToSet
<1>4. \A i \in DOMAIN (t \o new) : (t \o new)[i] \in ToSet(t \o new)
  BY DEF ToSet
<1>5. \A i \in DOMAIN (t \o new) : IsTier((t \o new)[i])
  BY <1>2, <1>3, <1>4
<1>6. IdsOf(t \o new) = IdsOf(t) \cup IdsOf(new)
  <2> DEFINE r == t \o new
             A == ToSet(t)
             C == ToSet(new)
  <2>1. IdsOf(r) = {x.id : x \in ToSet(r)} /\ IdsOf(t) = {x.id : x \in A} /\ IdsOf(new) = {x.id : x \in C}
    BY IdsOfSet
  <2>2. ToSet(r) = A \cup C
    BY <1>2
  <2> HIDE DEF r, A, C
  <2>3. IdsOf(r) = IdsOf(t) \cup IdsOf(new)
    BY <2>1, <2>2
  <2> QED
    BY <2>3 DEF r
<1> QED
  BY <1>2, <1>5, <1>6 DEF GoodTiers

\* A tier with a new id (addTier).
LEMMA AddTierKeeps ==
  ASSUME NEW b, NEW B, Good(b, B), NEW id, id \notin Ids(b), NEW name, IsExpected(name), NEW b2 \in AddTier(b, id, name)
  PROVE  Good(b2, B) /\ \A x \in Ids(b2) : x \in Ids(b) \/ x = id
<1> DEFINE tier == [id |-> id, name |-> name]
           new == <<tier>>
           tiers == b.tiers \o new
           X == {id}
<1>1. GoodTiers(b.tiers) /\ IsArray(b.tiers)
  BY GoodParts DEF GoodTiers
<1>2. b2 = [b EXCEPT !.tiers = Append(b.tiers, tier)]
  BY DEF AddTier, Good
<1>3. IsTier(tier) /\ tier.id = id
  BY DEF IsTier
<1> HIDE DEF tier
<1>4. Append(b.tiers, tier) = tiers
  BY <1>1 DEF IsArray
<1>5. IsArray(new) /\ Distinct(new) /\ ToSet(new) = {tier} /\ IdsOf(new) = {tier.id}
  BY OneArray
<1> HIDE DEF new
<1>6. GoodTiers(new) /\ IdsOf(new) = X
  BY <1>3, <1>5 DEF GoodTiers, ToSet
<1>7. IdsOf(b.tiers) \cap IdsOf(new) = {} /\ X \cap Ids(b) = {}
  BY <1>6, ListIds
<1>8. GoodTiers(tiers) /\ IdsOf(tiers) = IdsOf(b.tiers) \cup X
  BY <1>1, <1>6, <1>7, JoinedTiers
<1> HIDE DEF tiers, X
<1>9. \A x \in IdsOf(tiers) : x \in IdsOf(b.tiers) \/ x \in X
  BY <1>8
<1>10. b2 = [b EXCEPT !.tiers = tiers]
  BY <1>2, <1>4
<1>11. Good(b2, B) /\ \A x \in Ids(b2) : x \in Ids(b) \/ x \in X
  BY <1>7, <1>8, <1>9, <1>10, TiersKeep
<1> QED
  BY <1>11 DEF X

\* Renaming a tier (renameTier).
LEMMA RenameTierKeeps ==
  ASSUME NEW b, NEW B, Good(b, B), NEW id, NEW name, IsExpected(name), NEW b2 \in RenameTier(b, id, name)
  PROVE  Good(b2, B) /\ Ids(b2) \subseteq Ids(b)
<1> DEFINE t == b.tiers
           t2 == Renamed(t, id, name)
<1>1. GoodTiers(t)
  BY GoodParts
<1>2. b2 = [b EXCEPT !.tiers = t2]
  BY DEF RenameTier, When, Good
<1>3. t2 = [i \in DOMAIN t |-> IF t[i].id = id THEN [t[i] EXCEPT !.name = name] ELSE t[i]]
  BY DEF Renamed
<1> HIDE DEF t, t2
<1>4. ASSUME NEW i \in DOMAIN t PROVE IsTier(t2[i]) /\ t2[i].id = t[i].id
  BY <1>1, <1>3 DEF GoodTiers, IsTier
<1>5. TiersRenamed(t2, t)
  BY <1>3, <1>4 DEF TiersRenamed
<1>6. GoodTiers(t2) /\ IdsOf(t2) = IdsOf(t)
  BY <1>1, <1>5, RenamedTiers
<1> DEFINE X == {}
<1>7. X \cap Ids(b) = {} /\ \A x \in IdsOf(t2) : x \in IdsOf(b.tiers) \/ x \in X
  BY <1>6 DEF t
<1>8. Good(b2, B) /\ \A x \in Ids(b2) : x \in Ids(b) \/ x \in X
  <2> HIDE DEF X
  <2> QED
    BY <1>2, <1>6, <1>7, TiersKeep DEF t
<1> QED
  BY <1>8

\* Moving a tier (reorderTier).
LEMMA ReorderTierKeeps ==
  ASSUME NEW b, NEW B, Good(b, B), NEW id, NEW position \in Nat, NEW b2 \in ReorderTier(b, id, position)
  PROVE  Good(b2, B) /\ Ids(b2) \subseteq Ids(b)
<1> DEFINE t == b.tiers
           t2 == Moved(t, id, position)
<1>1. GoodTiers(t) /\ IsArray(t) /\ Distinct(t)
  BY GoodParts DEF GoodTiers
<1>2. b2 = [b EXCEPT !.tiers = t2] /\ id \in IdsOf(t) /\ position < Len(t)
  BY DEF ReorderTier, When, Good, TierIds
<1>3. Drawn(t2, t) /\ ToSet(t2) = ToSet(t)
  BY <1>1, <1>2, MovedDrawn
<1> HIDE DEF t, t2
<1>4. \A i \in DOMAIN t2 : t2[i] \in ToSet(t)
  BY <1>3 DEF ToSet
<1>5. \A x \in ToSet(t) : IsTier(x)
  BY <1>1 DEF GoodTiers, ToSet
<1>6. GoodTiers(t2) /\ IdsOf(t2) = IdsOf(t)
  BY <1>3, <1>4, <1>5, IdsOfSet DEF GoodTiers, Drawn
<1> DEFINE X == {}
<1>7. X \cap Ids(b) = {} /\ \A x \in IdsOf(t2) : x \in IdsOf(b.tiers) \/ x \in X
  BY <1>6 DEF t
<1>8. Good(b2, B) /\ \A x \in Ids(b2) : x \in Ids(b) \/ x \in X
  <2> HIDE DEF X
  <2> QED
    BY <1>2, <1>6, <1>7, TiersKeep DEF t
<1> QED
  BY <1>8

-----------------------------------------------------------------------------
(* The edits of categories and subcategories, and moving scenarios (benchmark_editor.cpp). *)

\* A benchmark with other categories.
LEMMA OtherCategories ==
  ASSUME NEW b, NEW B, Good(b, B), NEW cs, GoodBody(b.uncategorized, cs, IdsOf(b.tiers), B)
  PROVE  LET b2 == [b EXCEPT !.categories = cs]
         IN /\ Good(b2, B) /\ Ids(b2) = IdsOf(b.tiers) \cup Held(b.uncategorized, cs)
            /\ b2.tiers = b.tiers /\ b2.uncategorized = b.uncategorized /\ b2.categories = cs
<1> DEFINE b2 == [b EXCEPT !.categories = cs]
<1>1. b = [name |-> b.name, tiers |-> b.tiers, uncategorized |-> b.uncategorized, categories |-> b.categories]
  BY DEF Good
<1>2. b2 = [name |-> b.name, tiers |-> b.tiers, uncategorized |-> b.uncategorized, categories |-> cs]
  BY <1>1
<1> HIDE DEF b2
<1>3. /\ b2.name = b.name /\ b2.tiers = b.tiers /\ b2.uncategorized = b.uncategorized /\ b2.categories = cs
      /\ b2 = [name |-> b2.name, tiers |-> b2.tiers, uncategorized |-> b2.uncategorized, categories |-> b2.categories]
  BY <1>2
<1>4. Good(b2, B)
  BY <1>3 DEF Good
<1>5. Ids(b2) = IdsOf(b.tiers) \cup Held(b.uncategorized, cs)
  BY <1>3 DEF Ids
<1> QED
  BY <1>3, <1>4, <1>5 DEF b2

\* Each category becomes another one; the new ids X go into the one that holds the group.
CategoriesChange(cs2, b, B, group, X) ==
  /\ cs2 = [c \in DOMAIN b.categories |-> cs2[c]]
  /\ \A c \in DOMAIN b.categories : GoodCategory(cs2[c], IdsOf(b.tiers), B)
  /\ \A c \in DOMAIN b.categories : \A x \in CatAll(cs2[c]) :
       x \in CatAll(b.categories[c]) \/ (group \in CatAll(b.categories[c]) /\ x \in X)
  /\ X \cap Ids(b) = {}

\* A benchmark stays sound when its categories change and what is new goes into one of them.
LEMMA CategoriesChanged ==
  ASSUME NEW b, NEW B, Good(b, B), NoGroup \notin Ids(b), NEW cs2, NEW group, group # NoGroup, NEW X,
         CategoriesChange(cs2, b, B, group, X)
  PROVE  LET b2 == [b EXCEPT !.categories = cs2]
         IN Good(b2, B) /\ \A x \in Ids(b2) : x \in Ids(b) \/ x \in X
<1> DEFINE u == b.uncategorized
           cs == b.categories
           T == IdsOf(b.tiers)
<1>1. GoodBody(u, cs, T, B) /\ GoodList(u, T, B) /\ IsArray(cs)
  BY DEF Good, GoodBody
<1>2. Len(cs) \in Nat /\ DOMAIN cs = 1..Len(cs)
  BY <1>1, ArrayParts
<1>3. IsArray(cs2) /\ Len(cs2) = Len(cs)
  <2>1. cs2 = [c \in 1..Len(cs) |-> cs2[c]]
    BY <1>2 DEF CategoriesChange
  <2> HIDE DEF cs
  <2> QED
    BY <1>2, <2>1, ArrayOfLength
<1>4. X \cap T = {} /\ X \cap Held(u, cs) = {} /\ NoGroup \notin Held(u, cs)
  BY DEF Ids, CategoriesChange
<1>5. /\ \A c \in 1..Len(cs) : GoodCategory(cs2[c], T, B)
      /\ \A c \in 1..Len(cs) : \A x \in CatAll(cs2[c]) : x \in CatAll(cs[c]) \/ (group \in CatAll(cs[c]) /\ x \in X)
  BY <1>2 DEF CategoriesChange
<1>6. BodyChanges(u, cs2, T, B, u, cs, T, group, X)
  <2> HIDE DEF u, cs, T
  <2> QED
    BY <1>1, <1>3, <1>4, <1>5 DEF BodyChanges
<1>7. GoodBody(u, cs2, T, B) /\ \A x \in Held(u, cs2) : x \in Held(u, cs) \/ x \in X
  <2> HIDE DEF u, cs, T
  <2> QED
    BY <1>1, <1>6, BodyRelisted
<1> DEFINE b2 == [b EXCEPT !.categories = cs2]
<1>8. Good(b2, B) /\ Ids(b2) = T \cup Held(u, cs2)
  BY <1>7, OtherCategories
<1>9. \A x \in Ids(b2) : x \in Ids(b) \/ x \in X
  BY <1>7, <1>8 DEF Ids
<1> QED
  BY <1>8, <1>9

\* Some of the categories, in any order.
LEMMA CategoriesDrawn ==
  ASSUME NEW b, NEW B, Good(b, B), NEW cs2, Drawn(cs2, b.categories)
  PROVE  LET b2 == [b EXCEPT !.categories = cs2]
         IN /\ Good(b2, B) /\ Ids(b2) \subseteq Ids(b)
            /\ b2.tiers = b.tiers /\ b2.uncategorized = b.uncategorized /\ b2.categories = cs2
<1> DEFINE u == b.uncategorized
           cs == b.categories
           T == IdsOf(b.tiers)
           n == Len(cs)
           m == Len(cs2)
           f == CatParts(cs)
           f2 == CatParts(cs2)
           p == [k \in 1..m |-> CHOOSE i \in 1..n : cs[i] = cs2[k]]
<1>1. /\ GoodList(u, T, B) /\ IsArray(cs) /\ \A c \in DOMAIN cs : GoodCategory(cs[c], T, B)
      /\ Apart(T, IdsOf(u), n, f)
  BY DEF Good, GoodBody
<1>2. /\ n \in Nat /\ DOMAIN cs = 1..n /\ \A i \in 1..n : f[i] = CatAll(cs[i])
  BY <1>1, PartsOf, ArrayParts
<1>3. IsArray(cs2) /\ Distinct(cs2) /\ m \in Nat /\ DOMAIN cs2 = 1..m /\ \A i \in 1..m : f2[i] = CatAll(cs2[i])
  BY PartsOf DEF Drawn
<1>4. \A k \in 1..m : \E i \in 1..n : cs[i] = cs2[k]
  BY <1>2, <1>3 DEF Drawn, ToSet
<1>5. \A k \in 1..m : p[k] \in 1..n /\ cs[p[k]] = cs2[k]
  BY <1>4
<1> HIDE DEF p, n, m, f, f2
<1>6. \A k \in 1..m : p[k] \in 1..n /\ f2[k] = f[p[k]]
  BY <1>2, <1>3, <1>5
<1>7. \A k, l \in 1..m : p[k] = p[l] => k = l
  BY <1>3, <1>5 DEF Distinct
<1>8. Apart(T, IdsOf(u), m, f2)
  <2> DEFINE L == IdsOf(u)
  <2> HIDE DEF T, u, cs
  <2>1. Apart(T, L, n, f)
    BY <1>1
  <2> HIDE DEF L
  <2>2. Apart(T, L, m, f2)
    BY <1>6, <1>7, <2>1, ApartDrawn
  <2> QED
    BY <2>2 DEF L
<1>9. \A c \in DOMAIN cs2 : GoodCategory(cs2[c], T, B)
  BY <1>1, <1>2, <1>3, <1>5
<1>10. GoodBody(u, cs2, T, B)
  BY <1>1, <1>3, <1>8, <1>9 DEF GoodBody, m, f2
<1>11. \A x \in Held(u, cs2) : x \in Held(u, cs)
  BY <1>2, <1>3, <1>5 DEF Held
<1> DEFINE b2 == [b EXCEPT !.categories = cs2]
<1>12. /\ Good(b2, B) /\ Ids(b2) = T \cup Held(u, cs2)
       /\ b2.tiers = b.tiers /\ b2.uncategorized = b.uncategorized /\ b2.categories = cs2
  BY <1>10, OtherCategories
<1>13. Ids(b2) \subseteq Ids(b)
  BY <1>11, <1>12 DEF Ids
<1> QED
  BY <1>12, <1>13

\* One category more.
LEMMA CategoryAdded ==
  ASSUME NEW b, NEW B, Good(b, B), NEW c, GoodCategory(c, IdsOf(b.tiers), B), CatAll(c) \cap Ids(b) = {}
  PROVE  LET b2 == [b EXCEPT !.categories = b.categories \o <<c>>]
         IN Good(b2, B) /\ \A x \in Ids(b2) : x \in Ids(b) \/ x \in CatAll(c)
<1> DEFINE u == b.uncategorized
           cs == b.categories
           cs2 == cs \o <<c>>
           T == IdsOf(b.tiers)
           L == IdsOf(u)
           n == Len(cs)
           f == CatParts(cs)
           f2 == CatParts(cs2)
<1>1. /\ GoodList(u, T, B) /\ IsArray(cs) /\ \A i \in DOMAIN cs : GoodCategory(cs[i], T, B)
      /\ Apart(T, L, n, f)
  BY DEF Good, GoodBody
<1>2. /\ n \in Nat /\ DOMAIN cs = 1..n /\ \A i \in 1..n : f[i] = CatAll(cs[i])
  BY <1>1, PartsOf, ArrayParts
<1>3. IsArray(cs2) /\ Len(cs2) = n + 1 /\ cs2[n + 1] = c /\ \A i \in 1..n : cs2[i] = cs[i]
  BY OneArray, <1>1, JoinedArrays
<1> HIDE DEF cs2
<1>4. DOMAIN cs2 = 1..(n + 1) /\ \A i \in 1..(n + 1) : f2[i] = CatAll(cs2[i])
  BY <1>3, PartsOf
<1>5. CatAll(c) \cap T = {} /\ CatAll(c) \cap L = {} /\ \A i \in DOMAIN cs : CatAll(c) \cap CatAll(cs[i]) = {}
  BY ListIds
<1> HIDE DEF f, f2, n, cs, T, L
<1>6. \A i \in 1..(n + 1) : i \in 1..n \/ i = n + 1
  BY <1>2
<1>7. /\ \A i \in 1..n : i \in 1..(n + 1)
      /\ n + 1 \in 1..(n + 1)
  BY <1>2
<1>8. /\ \A i \in 1..n : f2[i] = f[i]
      /\ f2[n + 1] = CatAll(c)
  BY <1>2, <1>3, <1>4, <1>7
<1>9. f2[n + 1] \cap T = {} /\ f2[n + 1] \cap L = {} /\ \A i \in 1..n : f2[n + 1] \cap f[i] = {}
  BY <1>2, <1>5, <1>8
<1>10. Apart(T, L, n + 1, f2)
  BY <1>1, <1>2, <1>8, <1>9, ApartMore
<1>11. \A i \in DOMAIN cs2 : GoodCategory(cs2[i], T, B)
  BY <1>1, <1>2, <1>3, <1>4, <1>6 DEF T
<1>12. GoodBody(u, cs2, T, B)
  BY <1>1, <1>3, <1>10, <1>11 DEF GoodBody, f2, L
<1>13. \A x \in Held(u, cs2) : x \in Held(u, cs) \/ x \in CatAll(c)
  BY <1>2, <1>3, <1>4, <1>6 DEF Held
<1> DEFINE b2 == [b EXCEPT !.categories = cs2]
<1>14. Good(b2, B) /\ Ids(b2) = T \cup Held(u, cs2)
  BY <1>12, OtherCategories DEF T
<1>15. \A x \in Ids(b2) : x \in Ids(b) \/ x \in CatAll(c)
  BY <1>13, <1>14 DEF Ids, T, cs
<1> QED
  BY <1>14, <1>15 DEF cs2, cs

\* A category that is renamed.
LEMMA CategoryRenamed ==
  ASSUME NEW c, NEW T, NEW B, GoodCategory(c, T, B), NEW name, IsExpected(name)
  PROVE  LET c2 == [c EXCEPT !.name = name] IN GoodCategory(c2, T, B) /\ CatAll(c2) = CatAll(c)
<1> DEFINE c2 == [c EXCEPT !.name = name]
<1>1. c = [id |-> c.id, name |-> c.name, scenarios |-> c.scenarios, subs |-> c.subs]
  BY DEF GoodCategory
<1>2. c2 = [id |-> c.id, name |-> name, scenarios |-> c.scenarios, subs |-> c.subs]
  BY <1>1
<1> HIDE DEF c2
<1>3. /\ c2.id = c.id /\ c2.name = name /\ c2.scenarios = c.scenarios /\ c2.subs = c.subs
      /\ c2 = [id |-> c2.id, name |-> c2.name, scenarios |-> c2.scenarios, subs |-> c2.subs]
  BY <1>2
<1> QED
  BY <1>3 DEF GoodCategory, CatAll, c2

\* A category with other subcategories.
GoodSubs(c, scenarios, subs, T, B) ==
  /\ GoodList(scenarios, T, B) /\ IsArray(subs) /\ \A s \in DOMAIN subs : GoodSub(subs[s], T, B)
  /\ Apart({c.id}, IdsOf(scenarios), Len(subs), SubParts(subs))

\* A category with other scenarios and subcategories that are apart.
LEMMA OtherSubs ==
  ASSUME NEW c, NEW T, NEW B, GoodCategory(c, T, B), NEW c2, NEW scenarios, NEW subs,
         c2 = [id |-> c.id, name |-> c.name, scenarios |-> scenarios, subs |-> subs], GoodSubs(c, scenarios, subs, T, B)
  PROVE  /\ GoodCategory(c2, T, B)
         /\ CatAll(c2) = {c.id} \cup IdsOf(scenarios) \cup UNION {SubAll(subs[s]) : s \in DOMAIN subs}
<1>1. /\ c2.id = c.id /\ c2.name = c.name /\ c2.scenarios = scenarios /\ c2.subs = subs
      /\ c2 = [id |-> c2.id, name |-> c2.name, scenarios |-> c2.scenarios, subs |-> c2.subs]
  OBVIOUS
<1>2. IsExpected(c.name)
  BY DEF GoodCategory
<1> QED
  BY <1>1, <1>2 DEF GoodCategory, CatAll, GoodSubs

\* Some of the subcategories, in any order.
LEMMA SubsDrawn ==
  ASSUME NEW c, NEW T, NEW B, GoodCategory(c, T, B), NEW subs, Drawn(subs, c.subs)
  PROVE  LET c2 == [c EXCEPT !.subs = subs]
         IN GoodCategory(c2, T, B) /\ CatAll(c2) \subseteq CatAll(c) /\ c2.subs = subs
<1> DEFINE old == c.subs
           n == Len(old)
           m == Len(subs)
           L == IdsOf(c.scenarios)
           H == {c.id}
           f == SubParts(old)
           f2 == SubParts(subs)
           p == [k \in 1..m |-> CHOOSE i \in 1..n : old[i] = subs[k]]
<1>1. /\ GoodList(c.scenarios, T, B) /\ IsArray(old) /\ \A s \in DOMAIN old : GoodSub(old[s], T, B)
      /\ Apart(H, L, n, f)
  BY DEF GoodCategory
<1>2. /\ n \in Nat /\ DOMAIN old = 1..n /\ \A i \in 1..n : f[i] = SubAll(old[i])
  BY <1>1, PartsOf, ArrayParts
<1>3. IsArray(subs) /\ Distinct(subs) /\ m \in Nat /\ DOMAIN subs = 1..m /\ \A i \in 1..m : f2[i] = SubAll(subs[i])
  BY PartsOf DEF Drawn
<1>4. \A k \in 1..m : \E i \in 1..n : old[i] = subs[k]
  BY <1>2, <1>3 DEF Drawn, ToSet
<1>5. \A k \in 1..m : p[k] \in 1..n /\ old[p[k]] = subs[k]
  BY <1>4
<1> HIDE DEF p, n, m, f, f2
<1>6. \A k \in 1..m : p[k] \in 1..n /\ f2[k] = f[p[k]]
  BY <1>2, <1>3, <1>5
<1>7. \A k, l \in 1..m : p[k] = p[l] => k = l
  BY <1>3, <1>5 DEF Distinct
<1>8. Apart(H, L, m, f2)
  <2> HIDE DEF H, L, old
  <2> QED
    BY <1>1, <1>6, <1>7, ApartDrawn
<1>9. \A s \in DOMAIN subs : GoodSub(subs[s], T, B)
  BY <1>1, <1>2, <1>3, <1>5
<1>10. GoodSubs(c, c.scenarios, subs, T, B)
  BY <1>1, <1>3, <1>8, <1>9 DEF GoodSubs, m, f2
<1> DEFINE c2 == [c EXCEPT !.subs = subs]
<1>11. c2 = [id |-> c.id, name |-> c.name, scenarios |-> c.scenarios, subs |-> subs]
  BY DEF GoodCategory
<1> HIDE DEF c2
<1>12. GoodCategory(c2, T, B) /\ CatAll(c2) = {c.id} \cup IdsOf(c.scenarios) \cup UNION {SubAll(subs[s]) : s \in DOMAIN subs}
  BY <1>10, <1>11, OtherSubs
<1>13. \A s \in DOMAIN subs : \E i \in DOMAIN old : SubAll(subs[s]) = SubAll(old[i])
  BY <1>2, <1>3, <1>5
<1>14. CatAll(c2) \subseteq CatAll(c)
  BY <1>12, <1>13 DEF CatAll
<1>15. c2.subs = subs
  BY <1>11
<1> QED
  BY <1>12, <1>14, <1>15 DEF c2

\* Subcategories that only change their names.
SubsRenamed(s2, subs) ==
  s2 = [s \in DOMAIN subs |-> s2[s]] /\ \A s \in DOMAIN subs : \E name : IsExpected(name) /\ s2[s] = [subs[s] EXCEPT !.name = name]

\* A category whose subcategories are renamed.
LEMMA RenamedSubs ==
  ASSUME NEW c, NEW T, NEW B, GoodCategory(c, T, B), NEW subs, SubsRenamed(subs, c.subs)
  PROVE  LET c2 == [c EXCEPT !.subs = subs] IN GoodCategory(c2, T, B) /\ CatAll(c2) \subseteq CatAll(c)
<1> DEFINE old == c.subs
           n == Len(old)
           L == IdsOf(c.scenarios)
           H == {c.id}
           f == SubParts(old)
           f2 == SubParts(subs)
<1>1. /\ GoodList(c.scenarios, T, B) /\ IsArray(old) /\ \A s \in DOMAIN old : GoodSub(old[s], T, B)
      /\ Apart(H, L, n, f)
  BY DEF GoodCategory
<1>2. /\ n \in Nat /\ DOMAIN old = 1..n /\ \A i \in 1..n : f[i] = SubAll(old[i])
  BY <1>1, PartsOf, ArrayParts
<1>3. IsArray(subs) /\ Len(subs) = n /\ DOMAIN subs = 1..n /\ \A i \in 1..n : f2[i] = SubAll(subs[i])
  <2>1. subs = [s \in 1..n |-> subs[s]]
    BY <1>2 DEF SubsRenamed
  <2> HIDE DEF n
  <2>2. IsArray(subs) /\ Len(subs) = n /\ DOMAIN subs = 1..n
    BY <1>2, <2>1, ArrayOfLength
  <2> QED
    BY <2>2, PartsOf
<1>4. ASSUME NEW s \in DOMAIN old PROVE GoodSub(subs[s], T, B) /\ SubAll(subs[s]) = SubAll(old[s])
  <2>1. PICK name : IsExpected(name) /\ subs[s] = [old[s] EXCEPT !.name = name]
    BY DEF SubsRenamed
  <2>2. old[s] = [id |-> old[s].id, name |-> old[s].name, scenarios |-> old[s].scenarios] /\ GoodSub(old[s], T, B)
    BY <1>1 DEF GoodSub
  <2> HIDE DEF old
  <2>3. subs[s] = [id |-> old[s].id, name |-> name, scenarios |-> old[s].scenarios]
    BY <2>1, <2>2
  <2>4. /\ subs[s].id = old[s].id /\ subs[s].name = name /\ subs[s].scenarios = old[s].scenarios
        /\ subs[s] = [id |-> subs[s].id, name |-> subs[s].name, scenarios |-> subs[s].scenarios]
    BY <2>3
  <2> QED
    BY <2>1, <2>2, <2>4 DEF GoodSub, SubAll
<1> DEFINE p == [k \in 1..n |-> k]
<1>5. \A k \in 1..n : p[k] \in 1..n /\ f2[k] = f[p[k]]
  BY <1>2, <1>3, <1>4
<1>6. \A k, l \in 1..n : p[k] = p[l] => k = l
  OBVIOUS
<1> HIDE DEF p, f, f2, n
<1>7. Apart(H, L, n, f2)
  <2> HIDE DEF H, L, old
  <2> QED
    BY <1>1, <1>5, <1>6, ApartDrawn
<1>8. GoodSubs(c, c.scenarios, subs, T, B)
  BY <1>1, <1>2, <1>3, <1>4, <1>7 DEF GoodSubs, f2
<1> DEFINE c2 == [c EXCEPT !.subs = subs]
<1>9. c2 = [id |-> c.id, name |-> c.name, scenarios |-> c.scenarios, subs |-> subs]
  BY DEF GoodCategory
<1> HIDE DEF c2
<1>10. GoodCategory(c2, T, B) /\ CatAll(c2) = {c.id} \cup IdsOf(c.scenarios) \cup UNION {SubAll(subs[s]) : s \in DOMAIN subs}
  BY <1>8, <1>9, OtherSubs
<1>11. CatAll(c2) \subseteq CatAll(c)
  BY <1>2, <1>3, <1>4, <1>10 DEF CatAll
<1> QED
  BY <1>10, <1>11 DEF c2

\* A category without scenarios of its own and with one subcategory more.
LEMMA DividedKeeps ==
  ASSUME NEW c, NEW T, NEW B, GoodCategory(c, T, B), NEW id, id \notin CatAll(c), NEW name, IsExpected(name),
         NEW list, list = c.scenarios \/ list = <<>>
  PROVE  LET c2 == Divided(c, [id |-> id, name |-> name, scenarios |-> list])
         IN /\ GoodCategory(c2, T, B)
            /\ \A x \in CatAll(c2) : x \in CatAll(c) \/ x = id
            /\ list = <<>> => CatAll(c2) \cap IdsOf(c.scenarios) = {}
<1> DEFINE new == [id |-> id, name |-> name, scenarios |-> list]
           c2 == Divided(c, new)
           old == c.subs
           subs == old \o <<new>>
           n == Len(old)
           H == {c.id}
           L == IdsOf(c.scenarios)
           f == SubParts(old)
           f2 == SubParts(subs)
<1>1. /\ GoodList(c.scenarios, T, B) /\ IsArray(old) /\ \A s \in DOMAIN old : GoodSub(old[s], T, B)
      /\ Apart(H, L, n, f)
  BY DEF GoodCategory
<1>2. /\ n \in Nat /\ DOMAIN old = 1..n /\ \A i \in 1..n : f[i] = SubAll(old[i])
  BY <1>1, PartsOf, ArrayParts
<1>3. /\ new.id = id /\ new.name = name /\ new.scenarios = list
      /\ new = [id |-> new.id, name |-> new.name, scenarios |-> new.scenarios]
  OBVIOUS
<1>4. Append(old, new) = subs
  BY <1>1 DEF IsArray
<1> HIDE DEF new
<1>5. GoodList(list, T, B) /\ IdsOf(list) \subseteq L
  BY EmptyArray, <1>1 DEF GoodList
<1>6. L \subseteq CatAll(c) /\ H \subseteq CatAll(c) /\ \A i \in 1..n : f[i] \subseteq CatAll(c)
  BY <1>2 DEF CatAll
<1>7. id \notin L /\ id # c.id /\ \A i \in 1..n : id \notin f[i]
  BY <1>6
<1>8. GoodSub(new, T, B) /\ SubAll(new) = {id} \cup IdsOf(list)
  BY <1>5, <1>7, <1>3 DEF GoodSub, SubAll
<1>9. IsArray(subs) /\ Len(subs) = n + 1 /\ subs[n + 1] = new /\ \A i \in 1..n : subs[i] = old[i]
  BY OneArray, <1>1, JoinedArrays
<1> HIDE DEF subs
<1>10. DOMAIN subs = 1..(n + 1) /\ \A i \in 1..(n + 1) : f2[i] = SubAll(subs[i])
  BY <1>9, PartsOf
<1> HIDE DEF f, f2, n, H, L, old
<1>11. \A i \in 1..(n + 1) : i \in 1..n \/ i = n + 1
  BY <1>2
<1>12. /\ \A i \in 1..n : i \in 1..(n + 1)
       /\ n + 1 \in 1..(n + 1)
  BY <1>2
<1>13. /\ \A i \in 1..n : f2[i] = f[i]
       /\ f2[n + 1] = {id} \cup IdsOf(list)
  BY <1>2, <1>8, <1>9, <1>10, <1>12
<1> DEFINE E == IdsOf(<<>>)
<1>14. E = {} /\ GoodList(<<>>, T, B)
  BY EmptyArray DEF GoodList
<1>15. Apart(H, E, n, f)
  BY <1>1, <1>14 DEF Apart
<1>16. f2[n + 1] \cap H = {} /\ f2[n + 1] \cap E = {} /\ \A i \in 1..n : f2[n + 1] \cap f[i] = {}
  BY <1>1, <1>7, <1>5, <1>13, <1>14 DEF Apart, H
<1> HIDE DEF E
<1>17. Apart(H, E, n + 1, f2)
  BY <1>2, <1>13, <1>15, <1>16, ApartMore
<1>18. \A s \in DOMAIN subs : GoodSub(subs[s], T, B)
  BY <1>1, <1>2, <1>8, <1>9, <1>10, <1>11
<1> DEFINE none == <<>>
<1>19. GoodSubs(c, none, subs, T, B)
  BY <1>9, <1>14, <1>17, <1>18 DEF GoodSubs, f2, H, E
<1>20. c2 = [id |-> c.id, name |-> c.name, scenarios |-> none, subs |-> subs]
  BY <1>4 DEF Divided, old
<1> HIDE DEF c2
<1>21. /\ GoodCategory(c2, T, B)
       /\ CatAll(c2) = {c.id} \cup IdsOf(none) \cup UNION {SubAll(subs[s]) : s \in DOMAIN subs}
  <2> HIDE DEF none
  <2> QED
    BY <1>19, <1>20, OtherSubs
<1>22. ASSUME NEW x \in CatAll(c2)
       PROVE  x \in H \/ x = id \/ x \in IdsOf(list) \/ \E i \in 1..n : x \in f[i]
  BY <1>14, <1>21, <1>10, <1>11, <1>13 DEF H, E
<1>23. \A x \in CatAll(c2) : x \in CatAll(c) \/ x = id
  BY <1>5, <1>6, <1>22
<1>24. ASSUME list = <<>>, NEW x \in CatAll(c2), x \in L PROVE FALSE
  BY <1>24, EmptyArray, <1>1, <1>7, <1>22 DEF Apart
<1> QED
  BY <1>21, <1>23, <1>24 DEF c2, new, L
\* A category with a new id (addCategory).
LEMMA AddCategoryKeeps ==
  ASSUME NEW b, NEW B, Good(b, B), NEW id, id \notin Ids(b), NEW name, IsExpected(name),
         NEW b2 \in AddCategory(b, id, name)
  PROVE  Good(b2, B) /\ \A x \in Ids(b2) : x \in Ids(b) \/ x = id
<1> DEFINE c == [id |-> id, name |-> name, scenarios |-> <<>>, subs |-> <<>>]
           T == IdsOf(b.tiers)
<1>1. b2 = [b EXCEPT !.categories = Append(b.categories, c)]
  BY DEF AddCategory, Good
<1>2. /\ c.id = id /\ c.name = name /\ c.scenarios = <<>> /\ c.subs = <<>>
      /\ c = [id |-> c.id, name |-> c.name, scenarios |-> c.scenarios, subs |-> c.subs]
  OBVIOUS
<1> HIDE DEF c
<1>3. GoodCategory(c, T, B) /\ CatAll(c) = {id}
  BY EmptyArray, <1>2 DEF GoodList, Apart, GoodCategory, CatAll
<1>4. CatAll(c) \cap Ids(b) = {}
  BY <1>3
<1>5. Append(b.categories, c) = b.categories \o <<c>>
  BY GoodParts DEF IsArray
<1>6. b2 = [b EXCEPT !.categories = b.categories \o <<c>>]
  BY <1>1, <1>5
<1>7. Good(b2, B) /\ \A x \in Ids(b2) : x \in Ids(b) \/ x \in CatAll(c)
  BY <1>3, <1>4, <1>6, CategoryAdded
<1> QED
  BY <1>3, <1>7

\* Moving a category (reorderCategory).
LEMMA ReorderCategoryKeeps ==
  ASSUME NEW b, NEW B, Good(b, B), NEW id, NEW position \in Nat, NEW b2 \in ReorderCategory(b, id, position)
  PROVE  Good(b2, B) /\ Ids(b2) \subseteq Ids(b)
<1> DEFINE cs == b.categories
           cs2 == Moved(cs, id, position)
<1>1. b2 = [b EXCEPT !.categories = cs2] /\ id \in IdsOf(cs) /\ position < Len(cs)
  BY DEF ReorderCategory, When, Good, CategoryIds
<1>2. IsArray(cs) /\ Distinct(cs)
  BY GoodParts, GoodIsFlat DEF FlatApart
<1>3. Drawn(cs2, cs)
  BY <1>1, <1>2, MovedDrawn
<1> HIDE DEF cs2
<1> QED
  BY <1>1, <1>3, CategoriesDrawn

\* Each category becomes another one, and none gets a new id.
CategoriesShrink(cs2, b, B) ==
  /\ cs2 = [c \in DOMAIN b.categories |-> cs2[c]]
  /\ \A c \in DOMAIN b.categories :
       GoodCategory(cs2[c], IdsOf(b.tiers), B) /\ CatAll(cs2[c]) \subseteq CatAll(b.categories[c])

\* A benchmark stays sound when its categories lose something.
LEMMA CategoriesShrunk ==
  ASSUME NEW b, NEW B, Good(b, B), NoGroup \notin Ids(b), NEW cs2, CategoriesShrink(cs2, b, B)
  PROVE  LET b2 == [b EXCEPT !.categories = cs2] IN Good(b2, B) /\ Ids(b2) \subseteq Ids(b)
<1> DEFINE X == {}
           group == 1
           b2 == [b EXCEPT !.categories = cs2]
<1>1. CategoriesChange(cs2, b, B, group, X)
  BY DEF CategoriesShrink, CategoriesChange
<1>2. group # NoGroup
  BY DEF NoGroup
<1> HIDE DEF X, group
<1>3. Good(b2, B) /\ \A x \in Ids(b2) : x \in Ids(b) \/ x \in X
  BY <1>1, <1>2, CategoriesChanged
<1> QED
  BY <1>3 DEF X

\* Renaming a category or a subcategory (renameCategory).
LEMMA RenameGroupKeeps ==
  ASSUME NEW b, NEW B, Good(b, B), NoGroup \notin Ids(b), NEW id, NEW name, IsExpected(name),
         NEW b2 \in RenameGroup(b, id, name)
  PROVE  Good(b2, B) /\ Ids(b2) \subseteq Ids(b)
<1> DEFINE cs == b.categories
           T == IdsOf(b.tiers)
<1>1. \A c \in DOMAIN cs : GoodCategory(cs[c], T, B)
  BY GoodParts
<1>2. CASE id \in CategoryIds(b)
  <2> DEFINE cs2 == Renamed(cs, id, name)
  <2>1. b2 = [b EXCEPT !.categories = cs2]
    BY <1>2 DEF RenameGroup, Good
  <2>2. cs2 = [c \in DOMAIN cs |-> cs2[c]]
        /\ \A c \in DOMAIN cs : cs2[c] = cs[c] \/ cs2[c] = [cs[c] EXCEPT !.name = name]
    BY DEF Renamed
  <2> HIDE DEF cs2, T
  <2>3. ASSUME NEW c \in DOMAIN cs PROVE GoodCategory(cs2[c], T, B) /\ CatAll(cs2[c]) \subseteq CatAll(cs[c])
    <3> DEFINE x == [cs[c] EXCEPT !.name = name]
    <3>1. GoodCategory(x, T, B) /\ CatAll(x) = CatAll(cs[c])
      BY <1>1, CategoryRenamed
    <3>2. cs2[c] = cs[c] \/ cs2[c] = x
      BY <2>2
    <3> HIDE DEF x
    <3> QED
      BY <1>1, <3>1, <3>2
  <2>4. CategoriesShrink(cs2, b, B)
    BY <2>2, <2>3 DEF CategoriesShrink, T
  <2> QED
    BY <2>1, <2>4, CategoriesShrunk
<1>3. CASE id \notin CategoryIds(b)
  <2> DEFINE S(c) == Renamed(c.subs, id, name)
             cs2 == [c \in DOMAIN cs |-> [cs[c] EXCEPT !.subs = S(cs[c])]]
  <2>1. b2 = [b EXCEPT !.categories = cs2]
    BY <1>3 DEF RenameGroup, When, Good, OnSubs
  <2>2. \A c : S(c) = [s \in DOMAIN c.subs |-> S(c)[s]]
          /\ \A s \in DOMAIN c.subs : S(c)[s] = c.subs[s] \/ S(c)[s] = [c.subs[s] EXCEPT !.name = name]
    BY DEF Renamed
  <2> HIDE DEF S
  <2>3. ASSUME NEW c \in DOMAIN cs PROVE SubsRenamed(S(cs[c]), cs[c].subs)
    <3> DEFINE subs == cs[c].subs
               s2 == S(cs[c])
    <3>1. \A s \in DOMAIN subs : s2[s] = subs[s] \/ s2[s] = [subs[s] EXCEPT !.name = name]
      BY <2>2
    <3>2. \A s \in DOMAIN subs : GoodSub(subs[s], T, B)
      BY <1>1, <2>3 DEF GoodCategory
    <3>3. s2 = [s \in DOMAIN subs |-> s2[s]]
      BY <2>2
    <3> HIDE DEF subs, s2, T
    <3>4. \A s \in DOMAIN subs : subs[s] = [subs[s] EXCEPT !.name = subs[s].name] /\ IsExpected(subs[s].name)
      <4> SUFFICES ASSUME NEW s \in DOMAIN subs
                   PROVE  subs[s] = [subs[s] EXCEPT !.name = subs[s].name] /\ IsExpected(subs[s].name)
        OBVIOUS
      <4>1. subs[s] = [id |-> subs[s].id, name |-> subs[s].name, scenarios |-> subs[s].scenarios]
            /\ IsExpected(subs[s].name)
        BY <3>2 DEF GoodSub
      <4> QED
        BY <4>1
    <3>5. \A s \in DOMAIN subs : \E x : IsExpected(x) /\ s2[s] = [subs[s] EXCEPT !.name = x]
      BY <3>1, <3>4
    <3>6. SubsRenamed(s2, subs)
      BY <3>3, <3>5 DEF SubsRenamed
    <3> QED
      BY <3>6 DEF subs, s2
  <2>4. \A c \in DOMAIN cs : cs2[c] = [cs[c] EXCEPT !.subs = S(cs[c])]
    OBVIOUS
  <2>5. cs2 = [c \in DOMAIN cs |-> cs2[c]]
    OBVIOUS
  <2> HIDE DEF cs2, T
  <2>6. ASSUME NEW c \in DOMAIN cs PROVE GoodCategory(cs2[c], T, B) /\ CatAll(cs2[c]) \subseteq CatAll(cs[c])
    <3> DEFINE x == [cs[c] EXCEPT !.subs = S(cs[c])]
    <3>1. GoodCategory(x, T, B) /\ CatAll(x) \subseteq CatAll(cs[c])
      BY <1>1, <2>3, RenamedSubs
    <3>2. cs2[c] = x
      BY <2>4
    <3> HIDE DEF x
    <3> QED
      BY <3>1, <3>2
  <2>7. CategoriesShrink(cs2, b, B)
    BY <2>5, <2>6 DEF CategoriesShrink, T
  <2> QED
    BY <2>1, <2>7, CategoriesShrunk
<1> QED
  BY <1>2, <1>3

\* Moving a subcategory within its category (reorderSubcategory).
LEMMA ReorderSubcategoryKeeps ==
  ASSUME NEW b, NEW B, Good(b, B), NoGroup \notin Ids(b), NEW id, NEW position \in Nat,
         NEW b2 \in ReorderSubcategory(b, id, position)
  PROVE  Good(b2, B) /\ Ids(b2) \subseteq Ids(b)
<1> DEFINE cs == b.categories
           T == IdsOf(b.tiers)
           F(subs) == IF id \in IdsOf(subs) THEN Moved(subs, id, position) ELSE subs
           cs2 == [c \in DOMAIN cs |-> [cs[c] EXCEPT !.subs = F(cs[c].subs)]]
<1>1. \A c \in DOMAIN cs : GoodCategory(cs[c], T, B) /\ IsArray(cs[c].subs)
  BY GoodParts DEF GoodCategory
<1>2. b2 = [b EXCEPT !.categories = cs2]
      /\ \E d \in DOMAIN cs : id \in IdsOf(cs[d].subs) /\ position < Len(cs[d].subs)
  BY DEF ReorderSubcategory, When, Good, OnSubs
<1>3. PICK d \in DOMAIN cs : id \in IdsOf(cs[d].subs) /\ position < Len(cs[d].subs)
  BY <1>2
<1>4. /\ \A c \in DOMAIN cs : Distinct(cs[c].subs)
      /\ \A c \in DOMAIN cs : id \in IdsOf(cs[c].subs) => c = d
  BY <1>3, GoodIsFlat DEF FlatApart
<1>5. cs2 = [c \in DOMAIN cs |-> cs2[c]] /\ \A c \in DOMAIN cs : cs2[c] = [cs[c] EXCEPT !.subs = F(cs[c].subs)]
  OBVIOUS
<1>6. ASSUME NEW c \in DOMAIN cs PROVE Drawn(F(cs[c].subs), cs[c].subs)
  <2>1. CASE id \in IdsOf(cs[c].subs)
    BY <1>3, <1>4, <2>1, <1>1, MovedDrawn
  <2>2. CASE id \notin IdsOf(cs[c].subs)
    BY <1>1, <1>4, <2>2 DEF Drawn
  <2> QED
    BY <2>1, <2>2
<1> HIDE DEF F, cs2, T
<1>7. ASSUME NEW c \in DOMAIN cs PROVE GoodCategory(cs2[c], T, B) /\ CatAll(cs2[c]) \subseteq CatAll(cs[c])
  <2> DEFINE subs == F(cs[c].subs)
             x == [cs[c] EXCEPT !.subs = subs]
  <2>1. cs2[c] = x /\ Drawn(subs, cs[c].subs)
    BY <1>5, <1>6
  <2> HIDE DEF subs
  <2>2. GoodCategory(x, T, B) /\ CatAll(x) \subseteq CatAll(cs[c])
    BY <1>1, <2>1, SubsDrawn
  <2> QED
    BY <2>1, <2>2
<1>8. CategoriesShrink(cs2, b, B)
  BY <1>5, <1>7 DEF CategoriesShrink, T
<1> QED
  BY <1>2, <1>8, CategoriesShrunk

\* The categories of a sound benchmark share nothing with each other, the ladder or the uncategorized list.
LEMMA CategoriesApart ==
  ASSUME NEW b, NEW B, Good(b, B)
  PROVE  /\ \A c \in DOMAIN b.categories :
              /\ CatAll(b.categories[c]) \cap IdsOf(b.tiers) = {}
              /\ CatAll(b.categories[c]) \cap IdsOf(b.uncategorized) = {}
         /\ \A c, d \in DOMAIN b.categories : c # d => CatAll(b.categories[c]) \cap CatAll(b.categories[d]) = {}
<1> DEFINE cs == b.categories
           f == CatParts(cs)
           T == IdsOf(b.tiers)
           U == IdsOf(b.uncategorized)
<1>1. IsArray(cs) /\ Apart(T, U, Len(cs), f)
  BY DEF Good, GoodBody
<1>2. DOMAIN cs = 1..Len(cs) /\ \A c \in 1..Len(cs) : f[c] = CatAll(cs[c])
  BY <1>1, PartsOf
<1> HIDE DEF f, T, U, cs
<1>3. /\ \A c \in DOMAIN cs : f[c] \cap T = {} /\ f[c] \cap U = {}
      /\ \A c, d \in DOMAIN cs : c # d => f[c] \cap f[d] = {}
  BY <1>1, <1>2 DEF Apart
<1>4. \A c \in DOMAIN cs : f[c] = CatAll(cs[c])
  BY <1>2
<1> QED
  BY <1>3, <1>4 DEF cs, T, U

\* The scenarios of a category go into a new subcategory of it or to the uncategorized list.
LEMMA AddSubcategoryRelocatingKeeps ==
  ASSUME NEW b, NEW B, Good(b, B), NoGroup \notin Ids(b), NEW category, NEW id, id \notin Ids(b), id # NoGroup,
         NEW name, IsExpected(name), NEW intoNew, NEW b2 \in AddSubcategoryRelocating(b, category, id, name, intoNew)
  PROVE  Good(b2, B) /\ \A x \in Ids(b2) : x \in Ids(b) \/ x = id
<1> DEFINE cs == b.categories
           T == IdsOf(b.tiers)
           direct == CategoryOf(b, category).scenarios
           list == IF intoNew THEN direct ELSE <<>>
           new == [id |-> id, name |-> name, scenarios |-> list]
           cs2 == [c \in DOMAIN cs |-> IF cs[c].id = category THEN Divided(cs[c], new) ELSE cs[c]]
           mid == [b EXCEPT !.categories = cs2]
           X == {id}
<1>1. /\ category \in IdsOf(cs)
      /\ b2 = IF intoNew THEN mid ELSE Appended(mid, NoGroup, direct)
  BY DEF AddSubcategoryRelocating, When, Good, CategoryIds
<1>2. /\ \A c \in DOMAIN cs : GoodCategory(cs[c], T, B)
      /\ \A c \in DOMAIN cs : GoodList(cs[c].scenarios, T, B)
  BY GoodParts
<1>3. Distinct(cs)
  BY GoodIsFlat DEF FlatApart
<1>4. PICK d \in DOMAIN cs : cs[d].id = category /\ CategoryOf(b, category) = cs[d]
  BY <1>1, HasPosition DEF CategoryOf, WithId
<1>5. \A c \in DOMAIN cs : cs[c].id = category => c = d
  BY <1>3, <1>4 DEF Distinct
<1>6. direct = cs[d].scenarios
  BY <1>4
<1>7. /\ cs2 = [c \in DOMAIN cs |-> cs2[c]] /\ cs2[d] = Divided(cs[d], new)
      /\ \A c \in DOMAIN cs : c # d => cs2[c] = cs[c]
  BY <1>4, <1>5
<1>8. id \notin CatAll(cs[d])
  BY ListIds
<1>9. list = cs[d].scenarios \/ list = <<>>
  BY <1>6
<1> DEFINE c2 == Divided(cs[d], new)
<1>10. /\ GoodCategory(c2, T, B)
       /\ \A x \in CatAll(c2) : x \in CatAll(cs[d]) \/ x = id
       /\ list = <<>> => CatAll(c2) \cap IdsOf(cs[d].scenarios) = {}
  <2> HIDE DEF list, T
  <2> QED
    BY <1>2, <1>8, <1>9, DividedKeeps
<1> HIDE DEF cs2, c2, new
<1>11. cs2[d] = c2
  BY <1>7 DEF c2
<1>12. category \in CatAll(cs[d])
  BY <1>4 DEF CatAll
<1>13. \A c \in DOMAIN cs : GoodCategory(cs2[c], T, B)
  BY <1>2, <1>7, <1>10, <1>11
<1>14. \A c \in DOMAIN cs : \A x \in CatAll(cs2[c]) : x \in CatAll(cs[c]) \/ (category \in CatAll(cs[c]) /\ x \in X)
  BY <1>7, <1>10, <1>11, <1>12
<1>15. CategoriesChange(cs2, b, B, category, X)
  BY <1>7, <1>13, <1>14 DEF CategoriesChange
<1>16. category # NoGroup
  BY <1>4, ListIds
<1>17. Good(mid, B) /\ \A x \in Ids(mid) : x \in Ids(b) \/ x \in X
  <2> HIDE DEF X
  <2> QED
    BY <1>15, <1>16, CategoriesChanged
<1>18. CASE intoNew
  BY <1>1, <1>17, <1>18
<1>19. CASE ~intoNew
  <2>1. list = <<>>
    BY <1>19
  <2>2. CatAll(c2) \cap IdsOf(direct) = {}
    BY <1>6, <1>10, <2>1
  <2>3. IsArray(cs) /\ Good(b, B)
    BY GoodParts
  <2>4. mid = [name |-> b.name, tiers |-> b.tiers, uncategorized |-> b.uncategorized, categories |-> cs2]
    BY DEF Good
  <2>5. mid.tiers = b.tiers /\ mid.uncategorized = b.uncategorized /\ mid.categories = cs2
    BY <2>4
  <2> HIDE DEF mid
  <2>6. IdsOf(direct) \subseteq CatAll(cs[d])
    BY <1>6 DEF CatAll
  <2>7. ASSUME NEW x \in IdsOf(direct), x \in Ids(mid) PROVE FALSE
    <3>1. x \notin T /\ x \notin IdsOf(b.uncategorized) /\ \A c \in DOMAIN cs : c # d => x \notin CatAll(cs[c])
      BY <2>6, <2>7, CategoriesApart
    <3>2. PICK c \in DOMAIN cs2 : x \in CatAll(cs2[c])
      BY <2>5, <2>7, <3>1 DEF Ids, Held
    <3>3. c \in DOMAIN cs
      BY <1>7
    <3>4. c = d
      BY <1>7, <3>1, <3>2, <3>3
    <3> QED
      BY <1>11, <2>2, <2>7, <3>2, <3>4
  <2>8. NoGroup \notin Ids(mid)
    BY <1>17
  <2>9. GoodList(direct, T, B)
    BY <1>2, <1>6
  <2> HIDE DEF direct
  <2>10. /\ Good(Appended(mid, NoGroup, direct), B)
         /\ \A x \in Ids(Appended(mid, NoGroup, direct)) : x \in Ids(mid) \/ x \in IdsOf(direct)
    BY <1>17, <2>5, <2>7, <2>8, <2>9, AppendedKeeps
  <2>11. IdsOf(direct) \subseteq Ids(b)
    BY <2>6, ListIds
  <2> QED
    BY <1>1, <1>17, <1>19, <2>10, <2>11
<1> QED
  BY <1>18, <1>19

\* A subcategory with a new id; the first one may take over its category's scenarios (addSubcategory).
LEMMA AddSubcategoryKeeps ==
  ASSUME NEW b, NEW B, Good(b, B), NoGroup \notin Ids(b), NEW category, NEW id, id \notin Ids(b), id # NoGroup,
         NEW name, IsExpected(name), NEW b2 \in AddSubcategory(b, category, id, name)
  PROVE  Good(b2, B) /\ \A x \in Ids(b2) : x \in Ids(b) \/ x = id
<1>1. b2 \in AddSubcategoryRelocating(b, category, id, name, FALSE)
  BY DEF AddSubcategory
<1> QED
  BY <1>1, AddSubcategoryRelocatingKeeps

\* Different places are those of different groups.
LEMMA SpotGroups ==
  ASSUME NEW b, NEW B, Good(b, B), NoGroup \notin Ids(b), NEW c, NEW s, IsSpot(b, c, s),
         NEW d, NEW t, IsSpot(b, d, t), SpotGroup(b, c, s) = SpotGroup(b, d, t)
  PROVE  c = d /\ s = t
<1> DEFINE cs == b.categories
<1>1. FlatApart(b) /\ IsBenchmark(b)
  BY GoodIsFlat, GoodIsSound
<1>2. /\ \A x \in DOMAIN cs : x # 0 /\ cs[x].id # NoGroup /\ cs[x].id \in CategoryIds(b)
      /\ \A x \in DOMAIN cs : \A y \in DOMAIN cs[x].subs :
           y # 0 /\ cs[x].subs[y].id # NoGroup /\ cs[x].subs[y].id \in IdsOf(cs[x].subs) /\ cs[x].subs[y].id \in SubIds(b)
  <2>1. \A x \in DOMAIN cs : x # 0 /\ cs[x].id # NoGroup /\ cs[x].id \in CategoryIds(b)
    BY <1>1, SpotsOfCategories, ListIds DEF CategoryIds, IdsOf
  <2>2. \A x \in DOMAIN cs : \A y \in DOMAIN cs[x].subs : cs[x].subs[y].id # NoGroup
    BY ListIds
  <2>3. \A x \in DOMAIN cs : \A y \in DOMAIN cs[x].subs : y # 0
    BY <1>1, ArrayParts DEF IsBenchmark, IsCategory
  <2>4. \A x \in DOMAIN cs : \A y \in DOMAIN cs[x].subs : cs[x].subs[y].id \in IdsOf(cs[x].subs)
    BY DEF IdsOf
  <2>5. \A x \in DOMAIN cs : IdsOf(cs[x].subs) \subseteq SubIds(b)
    BY DEF SubIds
  <2> QED
    BY <2>1, <2>2, <2>3, <2>4, <2>5
<1>3. /\ Distinct(cs) /\ \A x \in DOMAIN cs : Distinct(cs[x].subs)
      /\ \A x, y \in DOMAIN cs : x # y => IdsOf(cs[x].subs) \cap IdsOf(cs[y].subs) = {}
      /\ CategoryIds(b) \cap SubIds(b) = {}
  BY <1>1 DEF FlatApart
<1>4. (c = 0 /\ s = 0) \/ (c \in DOMAIN cs /\ (s = 0 \/ s \in DOMAIN cs[c].subs))
  BY DEF IsSpot
<1>5. (d = 0 /\ t = 0) \/ (d \in DOMAIN cs /\ (t = 0 \/ t \in DOMAIN cs[d].subs))
  BY DEF IsSpot
<1> HIDE DEF cs
<1>6. ASSUME NEW x, NEW y
      PROVE  /\ SpotGroup(b, 0, y) = NoGroup
             /\ x # 0 => SpotGroup(b, x, 0) = cs[x].id
             /\ x # 0 /\ y # 0 => SpotGroup(b, x, y) = cs[x].subs[y].id
  BY DEF SpotGroup, cs
<1>7. CASE c = 0 /\ s = 0
  BY <1>2, <1>5, <1>6, <1>7
<1>8. CASE c \in DOMAIN cs /\ s = 0
  <2>1. SpotGroup(b, c, s) = cs[c].id /\ cs[c].id # NoGroup
    BY <1>2, <1>6, <1>8
  <2>2. CASE d = 0
    BY <1>6, <2>1, <2>2
  <2>3. CASE d \in DOMAIN cs /\ t = 0
    <3>1. cs[d].id = cs[c].id
      BY <1>2, <1>6, <2>1, <2>3
    <3> QED
      BY <1>3, <1>8, <2>3, <3>1 DEF Distinct
  <2>4. CASE d \in DOMAIN cs /\ t \in DOMAIN cs[d].subs
    BY <1>2, <1>6, <2>4, <1>3, <1>8, <2>1
  <2> QED
    BY <1>5, <2>2, <2>3, <2>4
<1>9. CASE c \in DOMAIN cs /\ s \in DOMAIN cs[c].subs
  <2>1. /\ SpotGroup(b, c, s) = cs[c].subs[s].id /\ cs[c].subs[s].id # NoGroup /\ cs[c].subs[s].id \in IdsOf(cs[c].subs)
        /\ cs[c].subs[s].id \in SubIds(b)
    BY <1>2, <1>6, <1>9
  <2>2. CASE d = 0
    BY <1>6, <2>1, <2>2
  <2>3. CASE d \in DOMAIN cs /\ t = 0
    BY <1>2, <1>6, <2>3, <1>3, <2>1
  <2>4. CASE d \in DOMAIN cs /\ t \in DOMAIN cs[d].subs
    <3>1. SpotGroup(b, d, t) = cs[d].subs[t].id /\ cs[d].subs[t].id \in IdsOf(cs[d].subs)
      BY <1>2, <1>6, <2>4
    <3>2. c = d
      BY <1>3, <1>9, <2>1, <2>4, <3>1
    <3>3. Distinct(cs[c].subs)
      BY <1>3, <1>9
    <3> QED
      BY <1>9, <2>1, <2>4, <3>1, <3>2, <3>3 DEF Distinct
  <2> QED
    BY <1>5, <2>2, <2>3, <2>4
<1> QED
  BY <1>4, <1>7, <1>8, <1>9

\* The list of a group is the one at its place.
LEMMA ListAtSpot ==
  ASSUME NEW b, NEW B, Good(b, B), NoGroup \notin Ids(b), NEW c, NEW s, IsSpot(b, c, s)
  PROVE  ListOf(b, SpotGroup(b, c, s)) = SpotList(b, c, s)
<1> DEFINE g == SpotGroup(b, c, s)
           L == Lists(b)
           l == CHOOSE k \in DOMAIN L : L[k].group = g
<1>1. PICK C, S : Spots(C, S, b)
  BY GoodIsSound, ListPlaces
<1>2. PICK k \in DOMAIN L : C[k] = c /\ S[k] = s
  BY <1>1 DEF Spots
<1>3. L[k].group = g
  BY <1>1, <1>2 DEF Spots
<1>4. l \in DOMAIN L /\ L[l].group = g
  BY <1>3
<1>5. ListOf(b, g) = L[l].scenarios
  BY DEF ListOf
<1> HIDE DEF l, L, g
<1>6. IsSpot(b, C[l], S[l]) /\ L[l].scenarios = SpotList(b, C[l], S[l]) /\ g = SpotGroup(b, C[l], S[l])
  BY <1>1, <1>4 DEF Spots, L
<1>7. C[l] = c /\ S[l] = s
  BY <1>6, SpotGroups DEF g
<1> QED
  BY <1>5, <1>6, <1>7 DEF g

\* The home of an entry is a place whose list holds it.
LEMMA HomeAtSpot ==
  ASSUME NEW b, IsBenchmark(b), NEW id \in EntryIds(b)
  PROVE  \E c, s : /\ IsSpot(b, c, s) /\ id \in IdsOf(SpotList(b, c, s))
                   /\ HomeOf(b, id).scenarios = SpotList(b, c, s) /\ HomeOf(b, id).group = SpotGroup(b, c, s)
<1> DEFINE L == Lists(b)
           l == CHOOSE k \in DOMAIN L : id \in IdsOf(L[k].scenarios)
<1>1. PICK C, S : Spots(C, S, b)
  BY ListPlaces
<1>2. PICK c, s : IsSpot(b, c, s) /\ id \in IdsOf(SpotList(b, c, s))
  BY EntryIdsAt
<1>3. PICK k \in DOMAIN L : C[k] = c /\ S[k] = s
  BY <1>1, <1>2 DEF Spots
<1>4. id \in IdsOf(L[k].scenarios)
  BY <1>1, <1>2, <1>3 DEF Spots
<1>5. l \in DOMAIN L /\ id \in IdsOf(L[l].scenarios)
  BY <1>4
<1>6. HomeOf(b, id) = L[l]
  BY DEF HomeOf
<1> HIDE DEF l, L
<1>7. IsSpot(b, C[l], S[l]) /\ L[l].scenarios = SpotList(b, C[l], S[l]) /\ L[l].group = SpotGroup(b, C[l], S[l])
  BY <1>1, <1>5 DEF Spots, L
<1> QED
  BY <1>5, <1>6, <1>7

\* The entries of a category, its own before those of its subcategories.
LEMMA CategoryEntries ==
  ASSUME NEW c, NEW T, NEW B, GoodCategory(c, T, B)
  PROVE  LET l == EntriesIn(CategoryLists(c)) IN GoodList(l, T, B) /\ IdsOf(l) \subseteq CatAll(c)
<1> DEFINE L == CategoryLists(c)
           n == Len(c.subs)
           q == [k \in DOMAIN L |-> L[k].scenarios]
           l == FlattenSeq(q)
<1>1. IsArray(c.subs) /\ CategoryApart(c)
  BY CategoryFlat DEF GoodCategory
<1>2. /\ DOMAIN L = 1..(1 + n) /\ n \in Nat /\ DOMAIN c.subs = 1..n
      /\ L[1].scenarios = c.scenarios /\ \A s \in 1..n : L[1 + s].scenarios = c.subs[s].scenarios
  BY <1>1, CategoryPlaces
<1>3. EntriesIn(L) = l
  BY DEF EntriesIn
<1>4. IsArray(q) /\ DOMAIN q = 1..(1 + n)
  <2>1. q = [k \in 1..(1 + n) |-> q[k]] /\ 1 + n \in Nat
    BY <1>2
  <2> DEFINE m == 1 + n
  <2>2. q = [k \in 1..m |-> q[k]] /\ m \in Nat
    BY <2>1
  <2> HIDE DEF q, n, m
  <2>3. IsArray(q) /\ DOMAIN q = 1..m
    BY <2>2, ArrayOfLength
  <2> QED
    BY <2>3 DEF m
<1>5. \A k \in 1..(1 + n) : q[k] = CatList(c, k - 1) /\ k - 1 \in CatSpots(c)
  <2>1. q[1] = CatList(c, 0)
    BY <1>2 DEF CatList
  <2>2. ASSUME NEW s \in 1..n PROVE q[1 + s] = CatList(c, s)
    BY <1>2 DEF CatList
  <2>3. ASSUME NEW k \in 1..(1 + n) PROVE k = 1 \/ (k - 1 \in 1..n /\ k = 1 + (k - 1))
    BY <1>2
  <2> HIDE DEF q, n, L
  <2>4. \A k \in 1..(1 + n) : q[k] = CatList(c, k - 1)
    BY <2>1, <2>2, <2>3
  <2>5. \A k \in 1..(1 + n) : k - 1 = 0 \/ k - 1 \in 1..n
    BY <2>3
  <2> QED
    BY <1>2, <2>4, <2>5 DEF CatSpots
<1>6. \A s \in CatSpots(c) : GoodList(CatList(c, s), T, B)
  BY DEF GoodCategory, GoodSub, CatSpots, CatList
<1> HIDE DEF q, L
<1>7. \A k \in DOMAIN q : GoodList(q[k], T, B) /\ IsArray(q[k]) /\ Distinct(q[k]) /\ IdsOf(q[k]) \subseteq CatAll(c)
  BY <1>1, CatAllParts, <1>4, <1>5, <1>6 DEF GoodList
<1>8. \A k, m \in DOMAIN q : k # m => IdsOf(q[k]) \cap IdsOf(q[m]) = {}
  <2> SUFFICES ASSUME NEW k \in DOMAIN q, NEW m \in DOMAIN q, k # m PROVE IdsOf(q[k]) \cap IdsOf(q[m]) = {}
    OBVIOUS
  <2>1. k - 1 # m - 1 /\ k \in 1..(1 + n) /\ m \in 1..(1 + n)
    BY <1>4
  <2> DEFINE x == k - 1
             y == m - 1
  <2>2. x # y /\ x \in CatSpots(c) /\ y \in CatSpots(c) /\ q[k] = CatList(c, x) /\ q[m] = CatList(c, y)
    BY <1>5, <2>1
  <2> HIDE DEF x, y
  <2> QED
    BY <1>1, <2>2 DEF CategoryApart
<1>9. /\ IsArray(l) /\ Distinct(l)
      /\ \A x : x \in ToSet(l) <=> \E k \in DOMAIN q : x \in ToSet(q[k])
  BY <1>4, <1>7, <1>8, FlattenParts
<1> HIDE DEF l
<1>10. ASSUME NEW i \in DOMAIN l PROVE GoodEntry(l[i], T, B)
  <2>1. l[i] \in ToSet(l)
    BY DEF ToSet
  <2>2. PICK k \in DOMAIN q : l[i] \in ToSet(q[k])
    BY <1>9, <2>1
  <2> QED
    BY <1>7, <2>2 DEF GoodList, ToSet
<1>11. ASSUME NEW x \in IdsOf(l) PROVE x \in CatAll(c)
  <2>1. PICK e \in ToSet(l) : x = e.id
    BY IdsOfSet
  <2>2. PICK k \in DOMAIN q : e \in ToSet(q[k])
    BY <1>9
  <2>3. x \in IdsOf(q[k])
    BY <2>1, <2>2, IdsOfSet
  <2> QED
    BY <1>7, <2>3
<1> QED
  BY <1>3, <1>9, <1>10, <1>11 DEF GoodList, L

\* A benchmark without something that its entries were in, which go to another list.
LEMMA LeftAppended ==
  ASSUME NEW b, NEW B, Good(b, B), NoGroup \notin Ids(b), NEW mid, Good(mid, B), Ids(mid) \subseteq Ids(b),
         mid.tiers = b.tiers, NEW l, GoodList(l, IdsOf(b.tiers), B), IdsOf(l) \subseteq Ids(b), IdsOf(l) \cap Ids(mid) = {},
         NEW group
  PROVE  LET b2 == Appended(mid, group, l) IN Good(b2, B) /\ Ids(b2) \subseteq Ids(b)
<1> DEFINE b2 == Appended(mid, group, l)
<1>1. Good(b2, B) /\ \A x \in Ids(b2) : x \in Ids(mid) \/ x \in IdsOf(l)
  BY AppendedKeeps
<1> HIDE DEF b2
<1> QED
  BY <1>1 DEF b2

\* Removing a category: all its scenarios become uncategorized,
LEMMA RemovedCategoryKeeps ==
  ASSUME NEW b, NEW B, Good(b, B), NoGroup \notin Ids(b), NEW id, id \in CategoryIds(b),
         NEW b2 \in RemoveCategory(b, id)
  PROVE  Good(b2, B) /\ Ids(b2) \subseteq Ids(b)
<1> DEFINE cs == b.categories
           T == IdsOf(b.tiers)
           rest == Without(cs, id)
           mid == [b EXCEPT !.categories = rest]
           l == EntriesIn(CategoryLists(CategoryOf(b, id)))
<1>1. b2 = Appended(mid, NoGroup, l)
  BY DEF RemoveCategory, Good
<1>2. IsArray(cs) /\ Distinct(cs) /\ id \in IdsOf(cs) /\ \A c \in DOMAIN cs : GoodCategory(cs[c], T, B)
  BY GoodParts, GoodIsFlat DEF FlatApart, CategoryIds
<1>3. PICK d \in DOMAIN cs : cs[d].id = id /\ CategoryOf(b, id) = cs[d]
  BY <1>2, HasPosition DEF CategoryOf, WithId
<1>4. GoodList(l, T, B) /\ IdsOf(l) \subseteq CatAll(cs[d])
  <2> HIDE DEF T
  <2>1. GoodCategory(cs[d], T, B)
    BY <1>2
  <2> QED
    BY <1>3, <2>1, CategoryEntries
<1>5. Drawn(rest, cs) /\ id \notin IdsOf(rest)
  BY <1>2, WithoutOne
<1> HIDE DEF rest
<1>6. /\ Good(mid, B) /\ Ids(mid) \subseteq Ids(b)
      /\ mid.tiers = b.tiers /\ mid.uncategorized = b.uncategorized /\ mid.categories = rest
  BY <1>5, CategoriesDrawn
<1> HIDE DEF mid, l
<1>7. CatAll(cs[d]) \subseteq Ids(b)
  BY ListIds
<1>8. ASSUME NEW x \in IdsOf(l), x \in Ids(mid) PROVE FALSE
  <2>1. /\ x \notin IdsOf(b.tiers) /\ x \notin IdsOf(b.uncategorized)
        /\ \A c \in DOMAIN cs : c # d => x \notin CatAll(cs[c])
    BY <1>4, <1>8, CategoriesApart
  <2>2. PICK k \in DOMAIN rest : x \in CatAll(rest[k])
    BY <1>6, <1>8, <2>1 DEF Ids, Held
  <2>3. rest[k] \in ToSet(cs)
    BY <1>5 DEF Drawn, ToSet
  <2>4. PICK c \in DOMAIN cs : rest[k] = cs[c]
    BY <2>3 DEF ToSet
  <2>5. c = d
    BY <2>1, <2>2, <2>4
  <2>6. rest[k].id = id
    BY <1>3, <2>4, <2>5
  <2> QED
    BY <1>5, <2>6 DEF IdsOf
<1>9. IdsOf(l) \subseteq Ids(b) /\ IdsOf(l) \cap Ids(mid) = {}
  BY <1>4, <1>7, <1>8
<1> QED
  BY <1>1, <1>4, <1>6, <1>9, LeftAppended

\* or a subcategory,
LEMMA RemovedSubcategoryKeeps ==
  ASSUME NEW b, NEW B, Good(b, B), NoGroup \notin Ids(b), NEW id, id \notin CategoryIds(b),
         NEW b2 \in RemoveCategory(b, id)
  PROVE  Good(b2, B) /\ Ids(b2) \subseteq Ids(b)
<1> DEFINE cs == b.categories
           T == IdsOf(b.tiers)
           S(c) == Without(c.subs, id)
           cs2 == [c \in DOMAIN cs |-> [cs[c] EXCEPT !.subs = S(cs[c])]]
           mid == [b EXCEPT !.categories = cs2]
           l == ListOf(b, id)
<1>1. b2 = Appended(mid, NoGroup, l) /\ id \in SubIds(b)
  BY DEF RemoveCategory, When, OnSubs, Good
<1>2. /\ \A c \in DOMAIN cs : GoodCategory(cs[c], T, B) /\ IsArray(cs[c].subs) /\ Distinct(cs[c].subs)
      /\ \A x, y \in DOMAIN cs : x # y => IdsOf(cs[x].subs) \cap IdsOf(cs[y].subs) = {}
  BY GoodParts, GoodIsFlat DEF FlatApart, GoodCategory
<1>3. PICK d \in DOMAIN cs : id \in IdsOf(cs[d].subs)
  BY <1>1 DEF SubIds
<1>4. PICK t \in DOMAIN cs[d].subs : cs[d].subs[t].id = id
  BY <1>3 DEF IdsOf
<1>5. l = cs[d].subs[t].scenarios
  <2>1. d # 0 /\ t # 0
    BY GoodIsSound, SpotsOfCategories, <1>2, ArrayParts
  <2>2. IsSpot(b, d, t) /\ SpotGroup(b, d, t) = id /\ SpotList(b, d, t) = cs[d].subs[t].scenarios
    BY <1>4, <2>1 DEF IsSpot, SpotGroup, SpotList
  <2> QED
    BY <2>2, ListAtSpot
<1>6. GoodList(l, T, B) /\ IdsOf(l) \subseteq Ids(b) /\ IdsOf(l) \subseteq CatAll(cs[d]) /\ id \notin IdsOf(l)
  <2>1. GoodSub(cs[d].subs[t], T, B)
    BY GoodParts
  <2>2. IdsOf(l) \subseteq SubAll(cs[d].subs[t])
    BY <1>5 DEF SubAll
  <2>3. SubAll(cs[d].subs[t]) \subseteq CatAll(cs[d]) /\ SubAll(cs[d].subs[t]) \subseteq Ids(b)
    BY ListIds DEF CatAll
  <2> QED
    BY <1>4, <1>5, <2>1, <2>2, <2>3 DEF GoodSub
<1>7. cs2 = [c \in DOMAIN cs |-> cs2[c]] /\ \A c \in DOMAIN cs : cs2[c] = [cs[c] EXCEPT !.subs = S(cs[c])]
  OBVIOUS
<1>8. ASSUME NEW c \in DOMAIN cs
      PROVE  /\ Drawn(S(cs[c]), cs[c].subs)
             /\ \A k \in DOMAIN S(cs[c]) : S(cs[c])[k].id # id /\ S(cs[c])[k] \in ToSet(cs[c].subs)
  <2> DEFINE s == cs[c].subs
             P == {i \in DOMAIN s : s[i].id # id}
  <2>1. IsArray(s) /\ Distinct(s) /\ P \subseteq DOMAIN s /\ \A i \in P : s[i].id # id
    BY <1>2
  <2>2. S(cs[c]) = At(s, P)
    BY DEF Without
  <2> HIDE DEF P, s, S
  <2>3. Drawn(At(s, P), s) /\ ToSet(At(s, P)) = {s[i] : i \in P}
    BY <2>1, WithoutDrawn
  <2>4. \A k \in DOMAIN At(s, P) : At(s, P)[k].id # id /\ At(s, P)[k] \in ToSet(s)
    BY <2>1, <2>3 DEF ToSet
  <2> QED
    BY <2>2, <2>3, <2>4 DEF s
<1> HIDE DEF S, cs2, T
<1>9. ASSUME NEW c \in DOMAIN cs
      PROVE  GoodCategory(cs2[c], T, B) /\ CatAll(cs2[c]) \subseteq CatAll(cs[c]) /\ cs2[c].subs = S(cs[c])
  <2> DEFINE subs == S(cs[c])
             x == [cs[c] EXCEPT !.subs = subs]
  <2>1. cs2[c] = x /\ Drawn(subs, cs[c].subs)
    BY <1>7, <1>8
  <2> HIDE DEF subs
  <2>2. GoodCategory(x, T, B) /\ CatAll(x) \subseteq CatAll(cs[c]) /\ x.subs = subs
    BY <1>2, <2>1, SubsDrawn
  <2> QED
    BY <2>1, <2>2 DEF subs
<1>10. CategoriesShrink(cs2, b, B)
  BY <1>7, <1>9 DEF CategoriesShrink, T
<1>11. Good(mid, B) /\ Ids(mid) \subseteq Ids(b)
  BY <1>10, CategoriesShrunk
<1>12. mid.tiers = b.tiers /\ mid.uncategorized = b.uncategorized /\ mid.categories = cs2
  BY DEF Good
<1> HIDE DEF mid, l
<1>13. ASSUME NEW x \in IdsOf(l), x \in Ids(mid) PROVE FALSE
  <2>1. /\ x \notin IdsOf(b.tiers) /\ x \notin IdsOf(b.uncategorized)
        /\ \A c \in DOMAIN cs : c # d => x \notin CatAll(cs[c])
    BY <1>6, <1>13, CategoriesApart
  <2>2. PICK c \in DOMAIN cs2 : x \in CatAll(cs2[c])
    BY <1>12, <1>13, <2>1 DEF Ids, Held
  <2>3. c = d
    BY <1>7, <1>9, <2>1, <2>2
  <2>4. cs2[d] = [cs[d] EXCEPT !.subs = S(cs[d])] /\ cs[d] = [id |-> cs[d].id, name |-> cs[d].name, scenarios |-> cs[d].scenarios, subs |-> cs[d].subs]
    BY <1>2, <1>7 DEF GoodCategory
  <2>5. cs2[d].id = cs[d].id /\ cs2[d].scenarios = cs[d].scenarios /\ cs2[d].subs = S(cs[d])
    BY <2>4
  <2>6. \A y \in 1..Len(cs[d].subs) : SubParts(cs[d].subs)[y] = SubAll(cs[d].subs[y])
    BY <1>2, PartsOf
  <2>7. DOMAIN cs[d].subs = 1..Len(cs[d].subs)
    BY <1>2, ArrayParts
  <2>8. x \in SubAll(cs[d].subs[t])
    BY <1>5, <1>13 DEF SubAll
  <2>9. Apart({cs[d].id}, IdsOf(cs[d].scenarios), Len(cs[d].subs), SubParts(cs[d].subs))
    BY <1>2 DEF GoodCategory
  <2>10. /\ x \notin {cs[d].id} /\ x \notin IdsOf(cs[d].scenarios)
         /\ \A y \in DOMAIN cs[d].subs : y # t => x \notin SubAll(cs[d].subs[y])
    BY <2>6, <2>7, <2>8, <2>9 DEF Apart
  <2>11. PICK k \in DOMAIN S(cs[d]) : x \in SubAll(S(cs[d])[k])
    BY <2>2, <2>3, <2>5, <2>10 DEF CatAll
  <2>12. S(cs[d])[k].id # id /\ S(cs[d])[k] \in ToSet(cs[d].subs)
    BY <1>8
  <2>13. PICK y \in DOMAIN cs[d].subs : S(cs[d])[k] = cs[d].subs[y]
    BY <2>12 DEF ToSet
  <2>14. y = t
    BY <2>10, <2>11, <2>13
  <2> QED
    BY <1>4, <2>12, <2>13, <2>14
<1>14. IdsOf(l) \cap Ids(mid) = {}
  BY <1>13
<1> QED
  BY <1>1, <1>6, <1>11, <1>12, <1>14, LeftAppended DEF T

\* keeps the benchmark sound (removeCategory).
LEMMA RemoveCategoryKeeps ==
  ASSUME NEW b, NEW B, Good(b, B), NoGroup \notin Ids(b), NEW id, NEW b2 \in RemoveCategory(b, id)
  PROVE  Good(b2, B) /\ Ids(b2) \subseteq Ids(b)
BY RemovedCategoryKeeps, RemovedSubcategoryKeeps

\* b2 is b with another list in one group.
Replaces(b2, b, group, new) ==
  /\ Relists(b, b2) /\ b2.tiers = b.tiers
  /\ b2.uncategorized = IF NoGroup = group THEN new ELSE b.uncategorized
  /\ \A c \in DOMAIN b.categories :
       b2.categories[c].scenarios = IF b.categories[c].id = group THEN new ELSE b.categories[c].scenarios
  /\ \A c \in DOMAIN b.categories : \A s \in DOMAIN b.categories[c].subs :
       b2.categories[c].subs[s].scenarios
         = IF b.categories[c].subs[s].id = group THEN new ELSE b.categories[c].subs[s].scenarios

\* The group at a place is at no other.
LEMMA GroupAt ==
  ASSUME NEW b, NEW B, Good(b, B), NoGroup \notin Ids(b), NEW d, NEW t, IsSpot(b, d, t)
  PROVE  /\ NoGroup = SpotGroup(b, d, t) => SpotList(b, d, t) = b.uncategorized
         /\ \A c \in DOMAIN b.categories :
              b.categories[c].id = SpotGroup(b, d, t) => SpotList(b, d, t) = b.categories[c].scenarios
         /\ \A c \in DOMAIN b.categories : \A s \in DOMAIN b.categories[c].subs :
              b.categories[c].subs[s].id = SpotGroup(b, d, t) => SpotList(b, d, t) = b.categories[c].subs[s].scenarios
<1> DEFINE cs == b.categories
<1>1. \A c \in DOMAIN cs : c # 0 /\ IsArray(cs[c].subs)
  BY GoodIsSound, GoodParts, SpotsOfCategories DEF GoodCategory
<1>2. ASSUME NEW c \in DOMAIN cs, NEW s \in DOMAIN cs[c].subs PROVE s # 0
  BY <1>1, ArrayParts
<1>3. NoGroup = SpotGroup(b, d, t) => SpotList(b, d, t) = b.uncategorized
  BY SpotGroups DEF IsSpot, SpotGroup, SpotList
<1>4. ASSUME NEW c \in DOMAIN cs, cs[c].id = SpotGroup(b, d, t) PROVE SpotList(b, d, t) = cs[c].scenarios
  <2>1. IsSpot(b, c, 0) /\ SpotGroup(b, c, 0) = cs[c].id /\ SpotList(b, c, 0) = cs[c].scenarios
    BY <1>1 DEF IsSpot, SpotGroup, SpotList
  <2>2. c = d /\ 0 = t
    BY <1>4, <2>1, SpotGroups
  <2> QED
    BY <2>1, <2>2
<1>5. ASSUME NEW c \in DOMAIN cs, NEW s \in DOMAIN cs[c].subs, cs[c].subs[s].id = SpotGroup(b, d, t)
      PROVE  SpotList(b, d, t) = cs[c].subs[s].scenarios
  BY <1>1, <1>2, <1>5, SpotGroups DEF IsSpot, SpotGroup, SpotList
<1> QED
  BY <1>3, <1>4, <1>5

\* A benchmark stays sound with another list in one group.
LEMMA ReplacedKeeps ==
  ASSUME NEW b, NEW B, Good(b, B), NoGroup \notin Ids(b), NEW d, NEW t, IsSpot(b, d, t), NEW new, NEW X,
         LET g == SpotGroup(b, d, t) IN Fits(new, SpotList(b, d, t), g, IdsOf(b.tiers), B, g, X),
         X \cap Ids(b) = {}, NEW b2, Replaces(b2, b, SpotGroup(b, d, t), new)
  PROVE  Good(b2, B) /\ \A x \in Ids(b2) : x \in Ids(b) \/ x \in X
<1> DEFINE T == IdsOf(b.tiers)
           g == SpotGroup(b, d, t)
           l == SpotList(b, d, t)
<1>1. /\ GoodList(b.uncategorized, T, B) /\ GoodTiers(b.tiers)
      /\ \A c \in DOMAIN b.categories : GoodList(b.categories[c].scenarios, T, B)
      /\ \A c \in DOMAIN b.categories : \A s \in DOMAIN b.categories[c].subs :
           GoodList(b.categories[c].subs[s].scenarios, T, B)
  BY GoodParts
<1>2. Fits(new, l, g, T, B, g, X) /\ Replaces(b2, b, g, new)
  OBVIOUS
<1>3. /\ NoGroup = g => l = b.uncategorized
      /\ \A c \in DOMAIN b.categories : b.categories[c].id = g => l = b.categories[c].scenarios
      /\ \A c \in DOMAIN b.categories : \A s \in DOMAIN b.categories[c].subs :
              b.categories[c].subs[s].id = g => l = b.categories[c].subs[s].scenarios
  BY GroupAt
<1> HIDE DEF T, g, l
<1>4. ASSUME NEW l2, NEW was, NEW h, GoodList(was, T, B), h = g => l = was, l2 = IF h = g THEN new ELSE was
      PROVE  Fits(l2, was, h, T, B, g, X)
  BY <1>2, <1>4, FitsSame
<1>5. Fits(b2.uncategorized, b.uncategorized, NoGroup, T, B, g, X)
  BY <1>1, <1>2, <1>3, <1>4 DEF Replaces
<1>6. \A c \in DOMAIN b.categories :
        Fits(b2.categories[c].scenarios, b.categories[c].scenarios, b.categories[c].id, T, B, g, X)
  BY <1>1, <1>2, <1>3, <1>4 DEF Replaces
<1>7. \A c \in DOMAIN b.categories : \A s \in DOMAIN b.categories[c].subs :
        Fits(b2.categories[c].subs[s].scenarios, b.categories[c].subs[s].scenarios, b.categories[c].subs[s].id,
             T, B, g, X)
  BY <1>1, <1>2, <1>3, <1>4 DEF Replaces
<1>8. Relisting(b2, b, B, g, X)
  BY <1>1, <1>2, <1>5, <1>6, <1>7 DEF Relisting, Replaces, T
<1> QED
  BY <1>8, Relisted

\* Moving a scenario within its list (reorderScenario).
LEMMA ReorderScenarioKeeps ==
  ASSUME NEW b, NEW B, Good(b, B), NoGroup \notin Ids(b), NEW id, NEW position \in Nat,
         NEW b2 \in ReorderScenario(b, id, position)
  PROVE  Good(b2, B) /\ Ids(b2) \subseteq Ids(b)
<1> DEFINE g == HomeOf(b, id).group
           F(l) == Moved(l, id, position)
           G(h, l) == IF h = g THEN F(l) ELSE l
           Sub(s) == [id |-> s.id, name |-> s.name, scenarios |-> G(s.id, s.scenarios)]
           Category(c) == [id |-> c.id, name |-> c.name, scenarios |-> G(c.id, c.scenarios),
                           subs |-> [s \in DOMAIN c.subs |-> Sub(c.subs[s])]]
<1>1. /\ id \in EntryIds(b) /\ position < Len(HomeOf(b, id).scenarios)
      /\ b2 = [name |-> b.name, tiers |-> b.tiers, uncategorized |-> G(NoGroup, b.uncategorized),
               categories |-> [c \in DOMAIN b.categories |-> Category(b.categories[c])]]
  BY DEF ReorderScenario, When, OnList, MapLists
<1> HIDE DEF G
<1>2. /\ Relists(b, b2) /\ b2.tiers = b.tiers /\ b2.uncategorized = G(NoGroup, b.uncategorized)
      /\ \A c \in DOMAIN b.categories : b2.categories[c].scenarios = G(b.categories[c].id, b.categories[c].scenarios)
      /\ \A c \in DOMAIN b.categories : \A s \in DOMAIN b.categories[c].subs :
            b2.categories[c].subs[s].scenarios = G(b.categories[c].subs[s].id, b.categories[c].subs[s].scenarios)
  BY <1>1 DEF Relists
<1>3. PICK d, t : /\ IsSpot(b, d, t) /\ id \in IdsOf(SpotList(b, d, t))
                  /\ HomeOf(b, id).scenarios = SpotList(b, d, t) /\ g = SpotGroup(b, d, t)
  BY <1>1, GoodIsSound, HomeAtSpot
<1> DEFINE l == SpotList(b, d, t)
           new == Moved(l, id, position)
           T == IdsOf(b.tiers)
<1>4. /\ NoGroup = g => l = b.uncategorized
      /\ \A c \in DOMAIN b.categories : b.categories[c].id = g => l = b.categories[c].scenarios
      /\ \A c \in DOMAIN b.categories : \A s \in DOMAIN b.categories[c].subs :
              b.categories[c].subs[s].id = g => l = b.categories[c].subs[s].scenarios
  BY <1>3, GroupAt
<1>5. GoodList(l, T, B)
  BY <1>3, GoodParts DEF IsSpot, SpotList
<1>6. id \in IdsOf(l) /\ position < Len(l)
  BY <1>1, <1>3
<1> HIDE DEF l, T
<1>7. Fits(new, l, g, T, B, g, {})
  <2>1. Drawn(new, l)
    BY <1>5, <1>6, MovedDrawn DEF GoodList
  <2> HIDE DEF new, g
  <2> QED
    BY <1>5, <2>1, FitsDrawn
<1>8. \A h, was : G(h, was) = IF h = g THEN Moved(was, id, position) ELSE was
  BY DEF G
<1> HIDE DEF g
<1>9. \A h, was : (h = g => l = was) => G(h, was) = IF h = g THEN new ELSE was
  BY <1>8
<1> HIDE DEF new
<1>10. Replaces(b2, b, g, new)
  BY <1>2, <1>4, <1>9 DEF Replaces
<1>11. Good(b2, B) /\ \A x \in Ids(b2) : x \in Ids(b) \/ x \in {}
  <2> DEFINE X == {}
  <2>1. X \cap Ids(b) = {} /\ Fits(new, l, g, T, B, g, X)
    BY <1>7
  <2> HIDE DEF X
  <2>2. Good(b2, B) /\ \A x \in Ids(b2) : x \in Ids(b) \/ x \in X
    BY <1>3, <1>10, <2>1, ReplacedKeeps DEF T, l
  <2> QED
    BY <2>2 DEF X
<1> QED
  BY <1>11

\* What is left of the list at a place when entries are taken out.
LEMMA DetachedList ==
  ASSUME NEW b, NEW B, Good(b, B), NoGroup \notin Ids(b), NEW ids, NEW d, NEW t, IsSpot(b, d, t)
  PROVE  LET mid == Detached(b, ids)
         IN /\ IsSpot(mid, d, t) /\ SpotGroup(mid, d, t) = SpotGroup(b, d, t)
            /\ \A x \in IdsOf(SpotList(b, d, t)) : x \notin ids => x \in IdsOf(SpotList(mid, d, t))
<1> DEFINE mid == Detached(b, ids)
           G(l) == At(l, {i \in DOMAIN l : l[i].id \notin ids})
           Sub(s) == [id |-> s.id, name |-> s.name, scenarios |-> G(s.scenarios)]
           Category(c) == [id |-> c.id, name |-> c.name, scenarios |-> G(c.scenarios),
                           subs |-> [s \in DOMAIN c.subs |-> Sub(c.subs[s])]]
           T == IdsOf(b.tiers)
<1>1. mid = [name |-> b.name, tiers |-> b.tiers, uncategorized |-> G(b.uncategorized),
             categories |-> [c \in DOMAIN b.categories |-> Category(b.categories[c])]]
  BY DEF Detached, MapLists
<1>2. ASSUME NEW l, GoodList(l, T, B), NEW x \in IdsOf(l), x \notin ids PROVE x \in IdsOf(G(l))
  <2> DEFINE P == {i \in DOMAIN l : l[i].id \notin ids}
  <2>1. IsArray(l) /\ Distinct(l)
    BY <1>2 DEF GoodList
  <2>2. PICK i \in DOMAIN l : l[i].id = x
    BY <1>2 DEF IdsOf
  <2>3. i \in P /\ P \subseteq DOMAIN l
    BY <1>2, <2>2
  <2> HIDE DEF P
  <2>4. ToSet(At(l, P)) = {l[j] : j \in P}
    BY <2>1, <2>3, WithoutDrawn
  <2>5. l[i] \in ToSet(At(l, P))
    BY <2>3, <2>4
  <2>6. x \in IdsOf(At(l, P))
    BY <2>2, <2>5, IdsOfSet
  <2> QED
    BY <2>6 DEF P
<1> HIDE DEF G, mid, T
<1>3. IsSpot(mid, d, t) /\ SpotGroup(mid, d, t) = SpotGroup(b, d, t)
  BY <1>1 DEF IsSpot, SpotGroup
<1>4. SpotList(mid, d, t) = G(SpotList(b, d, t))
  BY <1>1 DEF IsSpot, SpotList
<1>5. GoodList(SpotList(b, d, t), T, B)
  BY GoodParts DEF IsSpot, SpotList, T
<1>6. \A x \in IdsOf(SpotList(b, d, t)) : x \notin ids => x \in IdsOf(SpotList(mid, d, t))
  BY <1>2, <1>4, <1>5
<1> QED
  BY <1>3, <1>6 DEF mid

\* The entries of a benchmark that have the given ids, in the given order.
Block(b, ids) == [i \in DOMAIN ids |-> EntryOf(b, ids[i])]

\* The scenarios with the given ids, in the given order, are sound.
LEMMA BlockIsGood ==
  ASSUME NEW b, NEW B, Good(b, B), NEW ids, IsArray(ids), IsInjective(ids), ToSet(ids) \subseteq EntryIds(b)
  PROVE  GoodList(Block(b, ids), IdsOf(b.tiers), B) /\ IdsOf(Block(b, ids)) \subseteq ToSet(ids)
<1> DEFINE block == Block(b, ids)
           n == Len(ids)
<1>1. n \in Nat /\ DOMAIN ids = 1..n
  BY ArrayParts
<1>2. ASSUME NEW i \in 1..n
      PROVE  block[i] = EntryOf(b, ids[i]) /\ block[i] \in ToSet(Entries(b)) /\ block[i].id = ids[i] /\ ids[i] \in ToSet(ids)
  BY <1>1, HasPosition DEF ToSet, EntryIds, EntryOf, Block
<1>3. IsArray(block) /\ DOMAIN block = 1..n
  <2>1. block = [i \in 1..n |-> block[i]]
    BY <1>1 DEF Block
  <2> HIDE DEF block, n
  <2> QED
    BY <1>1, <2>1, ArrayOfLength
<1> HIDE DEF block, n
<1>4. Distinct(block)
  BY <1>1, <1>2, <1>3 DEF Distinct, IsInjective
<1>5. \A i \in DOMAIN block : GoodEntry(block[i], TierIds(b), B)
  BY <1>2, <1>3, GoodEntries
<1>6. IdsOf(block) \subseteq ToSet(ids)
  BY <1>2, <1>3 DEF IdsOf
<1> QED
  BY <1>3, <1>4, <1>5, <1>6 DEF GoodList, TierIds, block

\* The least of some numbers is one of them.
LEMMA LeastIn == ASSUME NEW P, P \subseteq Nat, P # {} PROVE Min(P) \in P
BY LeastExists DEF Min

\* Moving scenarios into a group, before a scenario of it or to its end (assignScenarios).
LEMMA AssignScenariosKeeps ==
  ASSUME NEW b, NEW B, Good(b, B), NoGroup \notin Ids(b), NEW ids, IsArray(ids), IsInjective(ids),
         NEW group, NEW before, NEW b2 \in AssignScenarios(b, ids, group, before)
  PROVE  Good(b2, B) /\ Ids(b2) \subseteq Ids(b)
<1> DEFINE moving == ToSet(ids)
           list == ListOf(b, group)
           stays == {i \in DOMAIN list : i >= PositionOf(list, before) /\ list[i].id \notin moving}
           anchor == IF before = NoGroup \/ stays = {} THEN NoGroup ELSE list[Min(stays)].id
           block == [i \in DOMAIN ids |-> EntryOf(b, ids[i])]
           mid == Detached(b, moving)
           at(l) == IF anchor = NoGroup THEN Len(l) + 1 ELSE PositionOf(l, anchor)
           F(l) == SubSeq(l, 1, at(l) - 1) \o block \o SubSeq(l, at(l), Len(l))
           G(h, l) == IF h = group THEN F(l) ELSE l
           Sub(s) == [id |-> s.id, name |-> s.name, scenarios |-> G(s.id, s.scenarios)]
           Category(c) == [id |-> c.id, name |-> c.name, scenarios |-> G(c.id, c.scenarios),
                           subs |-> [s \in DOMAIN c.subs |-> Sub(c.subs[s])]]
           T == IdsOf(b.tiers)
<1>1. /\ GroupAccepts(b, group) /\ moving \subseteq EntryIds(b)
      /\ b2 = [name |-> mid.name, tiers |-> mid.tiers, uncategorized |-> G(NoGroup, mid.uncategorized),
               categories |-> [c \in DOMAIN mid.categories |-> Category(mid.categories[c])]]
  BY DEF AssignScenarios, When, OnList, MapLists
<1>2. \E d, t : IsSpot(b, d, t) /\ SpotGroup(b, d, t) = group
  <2>1. CASE group = NoGroup
    BY <2>1 DEF IsSpot, SpotGroup
  <2>2. CASE group \in CategoryIds(b)
    <3>1. PICK c \in DOMAIN b.categories : b.categories[c].id = group
      BY <2>2 DEF CategoryIds, IdsOf
    <3>2. c # 0
      BY GoodIsSound, SpotsOfCategories
    <3>3. IsSpot(b, c, 0) /\ SpotGroup(b, c, 0) = group
      BY <3>1, <3>2 DEF IsSpot, SpotGroup
    <3> QED
      BY <3>3
  <2>3. CASE group \in SubIds(b)
    <3>1. PICK c \in DOMAIN b.categories : group \in IdsOf(b.categories[c].subs)
      BY <2>3 DEF SubIds
    <3>2. PICK s \in DOMAIN b.categories[c].subs : b.categories[c].subs[s].id = group
      BY <3>1 DEF IdsOf
    <3>3. c # 0 /\ s # 0
      <4>1. c # 0
        BY GoodIsSound, SpotsOfCategories
      <4>2. IsArray(b.categories[c].subs)
        BY GoodParts DEF GoodCategory
      <4>3. DOMAIN b.categories[c].subs = 1..Len(b.categories[c].subs)
        BY <4>2, ArrayParts
      <4> QED
        BY <4>1, <4>3
    <3>4. IsSpot(b, c, s) /\ SpotGroup(b, c, s) = group
      BY <3>2, <3>3 DEF IsSpot, SpotGroup
    <3> QED
      BY <3>4
  <2> QED
    BY <1>1, <2>1, <2>2, <2>3 DEF GroupAccepts
<1>3. PICK d, t : IsSpot(b, d, t) /\ SpotGroup(b, d, t) = group
  BY <1>2
<1>4. list = SpotList(b, d, t)
  BY <1>3, ListAtSpot
<1> HIDE DEF mid
<1>5. /\ Good(mid, B) /\ Ids(mid) \subseteq Ids(b) /\ mid.tiers = b.tiers /\ Relists(b, mid)
      /\ moving \cap Ids(mid) = {} /\ NoGroup \notin Ids(mid)
  <2> DEFINE m == moving
  <2> HIDE DEF m
  <2>1. m \subseteq EntryIds(b) => m \cap Ids(Detached(b, m)) = {}
    BY DetachedKeeps
  <2>2. /\ Good(Detached(b, m), B) /\ Ids(Detached(b, m)) \subseteq Ids(b) /\ Detached(b, m).tiers = b.tiers
        /\ Relists(b, Detached(b, m))
    BY DetachedKeeps
  <2> QED
    BY <1>1, <2>1, <2>2 DEF mid, m
<1> DEFINE l == SpotList(mid, d, t)
<1>6. /\ IsSpot(mid, d, t) /\ SpotGroup(mid, d, t) = group
      /\ \A x \in IdsOf(list) : x \notin moving => x \in IdsOf(l)
  BY <1>3, <1>4, DetachedList DEF mid
<1>7. GoodList(l, T, B) /\ IsArray(l) /\ Distinct(l) /\ Len(l) \in Nat /\ DOMAIN l = 1..Len(l)
  BY <1>5, <1>6, GoodParts, ArrayParts DEF IsSpot, SpotList, GoodList
<1>8. anchor = NoGroup \/ anchor \in IdsOf(l)
  <2>1. SUFFICES ASSUME anchor # NoGroup PROVE anchor \in IdsOf(l)
    OBVIOUS
  <2>2. stays # {} /\ anchor = list[Min(stays)].id
    BY <2>1
  <2>3. stays \subseteq Nat
    <3>1. IsArray(SpotList(b, d, t))
      BY <1>3, GoodParts DEF IsSpot, SpotList, GoodList
    <3>2. DOMAIN list = 1..Len(list)
      BY <1>4, <3>1, ArrayParts
    <3> QED
      BY <3>2
  <2> DEFINE P == stays
  <2>4. \A i \in P : i \in DOMAIN list /\ list[i].id \notin moving
    OBVIOUS
  <2> HIDE DEF P
  <2>5. Min(P) \in P
    BY <2>2, <2>3, LeastIn DEF P
  <2>6. anchor \in IdsOf(list) /\ anchor \notin moving
    BY <2>2, <2>4, <2>5 DEF IdsOf, P
  <2> QED
    BY <1>6, <2>6
<1> HIDE DEF anchor, list
<1> DEFINE k == at(l) - 1
           r == SubSeq(l, 1, k) \o block \o SubSeq(l, k + 1, Len(l))
<1>9. k \in 0..Len(l) /\ at(l) = k + 1
  <2>1. CASE anchor = NoGroup
    BY <1>7, <2>1
  <2>2. CASE anchor # NoGroup
    <3>1. PositionOf(l, anchor) \in DOMAIN l
      BY <1>8, <2>2, HasPosition
    <3> DEFINE a == PositionOf(l, anchor)
               n == Len(l)
    <3>2. a \in 1..n /\ n \in Nat
      BY <1>7, <3>1
    <3>3. at(l) = a
      BY <2>2
    <3> HIDE DEF a, n, at
    <3> QED
      BY <3>2, <3>3 DEF n
  <2> QED
    BY <2>1, <2>2
<1>10. F(l) = r
  <2> HIDE DEF k, l, block, at
  <2>1. at(l) - 1 = k
    BY DEF k
  <2> QED
    BY <1>9, <2>1
<1>11. block = Block(b, ids)
  BY DEF Block
<1>12. GoodList(block, T, B) /\ IdsOf(block) \subseteq moving /\ IsArray(block) /\ Distinct(block)
  BY <1>1, <1>11, BlockIsGood DEF GoodList
<1> HIDE DEF block, k, at
<1>13. IdsOf(l) \cap IdsOf(block) = {}
  BY <1>6, ListIds, <1>5, <1>12 DEF IsSpot, SpotList
<1> HIDE DEF l, moving, T
<1>14. IsArray(r) /\ Distinct(r) /\ ToSet(r) = ToSet(l) \cup ToSet(block)
  BY <1>7, <1>9, <1>12, <1>13, Inserted
<1> HIDE DEF r
<1>15. Fits(r, l, group, T, B, group, moving)
  BY <1>7, <1>12, <1>14, ListMade
<1>16. /\ Relists(mid, b2) /\ b2.tiers = mid.tiers /\ b2.uncategorized = G(NoGroup, mid.uncategorized)
       /\ \A c \in DOMAIN mid.categories : b2.categories[c].scenarios = G(mid.categories[c].id, mid.categories[c].scenarios)
       /\ \A c \in DOMAIN mid.categories : \A s \in DOMAIN mid.categories[c].subs :
             b2.categories[c].subs[s].scenarios = G(mid.categories[c].subs[s].id, mid.categories[c].subs[s].scenarios)
  <2> HIDE DEF G
  <2> QED
    BY <1>1 DEF Relists
<1>17. /\ NoGroup = group => l = mid.uncategorized
       /\ \A c \in DOMAIN mid.categories : mid.categories[c].id = group => l = mid.categories[c].scenarios
       /\ \A c \in DOMAIN mid.categories : \A s \in DOMAIN mid.categories[c].subs :
              mid.categories[c].subs[s].id = group => l = mid.categories[c].subs[s].scenarios
  BY <1>5, <1>6, GroupAt DEF l
<1>18. \A h, was : G(h, was) = IF h = group THEN F(was) ELSE was
  OBVIOUS
<1> HIDE DEF G, F
<1>19. \A h, was : (h = group => l = was) => G(h, was) = IF h = group THEN r ELSE was
  BY <1>10, <1>18
<1>20. Replaces(b2, mid, group, r)
  BY <1>16, <1>17, <1>19 DEF Replaces
<1>21. Good(b2, B) /\ \A x \in Ids(b2) : x \in Ids(mid) \/ x \in moving
  BY <1>5, <1>6, <1>15, <1>20, ReplacedKeeps DEF l, T
<1>22. moving \subseteq Ids(b)
  BY GoodIsSound, <1>1 DEF AllIds, moving
<1> QED
  BY <1>5, <1>21, <1>22

-----------------------------------------------------------------------------
(* The file of a benchmark (benchmark_store.cpp).                          *)

\* No id is twice in the lists, neither in one of them nor in two.
ListsApart(L) ==
  /\ \A k \in DOMAIN L : Distinct(L[k].scenarios)
  /\ \A k, m \in DOMAIN L : k # m => IdsOf(L[k].scenarios) \cap IdsOf(L[m].scenarios) = {}

\* The entries of lists that are arrays.
LEMMA EntriesOfLists ==
  ASSUME NEW L, IsArray(L), \A k \in DOMAIN L : IsArray(L[k].scenarios)
  PROVE  /\ IsArray(EntriesIn(L))
         /\ \A x : x \in ToSet(EntriesIn(L)) <=> \E k \in DOMAIN L : x \in ToSet(L[k].scenarios)
         /\ Distinct(EntriesIn(L)) <=> ListsApart(L)
<1> DEFINE n == Len(L)
           q == [l \in DOMAIN L |-> L[l].scenarios]
<1>1. n \in Nat /\ DOMAIN L = 1..n
  BY ArrayParts
<1>2. IsArray(q) /\ DOMAIN q = DOMAIN L /\ \A k \in DOMAIN L : q[k] = L[k].scenarios
  <2>1. q = [l \in 1..n |-> q[l]] /\ \A k \in DOMAIN L : q[k] = L[k].scenarios
    BY <1>1
  <2> HIDE DEF q, n
  <2> QED
    BY <1>1, <2>1, ArrayOfLength
<1>3. EntriesIn(L) = FlattenSeq(q)
  BY DEF EntriesIn
<1> HIDE DEF q
<1>4. \A k \in DOMAIN q : IsArray(q[k])
  BY <1>2
<1>5. /\ IsArray(FlattenSeq(q))
      /\ \A x : x \in ToSet(FlattenSeq(q)) <=> \E k \in DOMAIN q : x \in ToSet(q[k])
      /\ Distinct(FlattenSeq(q)) <=>
           /\ \A k \in DOMAIN q : Distinct(q[k])
           /\ \A k, l \in DOMAIN q : k # l => IdsOf(q[k]) \cap IdsOf(q[l]) = {}
  BY <1>2, <1>4, FlattenParts
<1>6. IsArray(EntriesIn(L)) /\ \A x : x \in ToSet(EntriesIn(L)) <=> \E k \in DOMAIN L : x \in ToSet(L[k].scenarios)
  BY <1>2, <1>3, <1>5
<1>7. Distinct(EntriesIn(L)) <=> ListsApart(L)
  BY <1>2, <1>3, <1>5 DEF ListsApart
<1> QED
  BY <1>6, <1>7

\* Two arrays joined in either order.
LEMMA JoinedBoth ==
  ASSUME NEW s, NEW t, IsArray(s), IsArray(t), NEW m, m = Len(s), NEW n, n = Len(t)
  PROVE  /\ IsArray(s \o t) /\ Len(s \o t) = m + n
         /\ \A i \in 1..m : (s \o t)[i] = s[i]
         /\ \A i \in 1..n : (s \o t)[m + i] = t[i]
         /\ IsArray(t \o s) /\ Len(t \o s) = n + m
         /\ \A i \in 1..n : (t \o s)[i] = t[i]
         /\ \A i \in 1..m : (t \o s)[n + i] = s[i]
BY JoinedArrays

\* The lists in view are those of the categories and then the uncategorized one.
InOrder(b, v, n) ==
  /\ IsArray(v) /\ n = Len(Grouped(b)) /\ n \in Nat /\ DOMAIN v = 1..(n + 1)
  /\ \A k \in 1..n : v[k] = Grouped(b)[k]
  /\ v[n + 1] = [group |-> NoGroup, category |-> NoGroup, scenarios |-> b.uncategorized]
  /\ \A k \in DOMAIN v : IsArray(v[k].scenarios) /\ v[k] \in ToSet(Lists(b))

\* The rows in view are the entries, in another order.
LEMMA InView ==
  ASSUME NEW b, NEW B, Good(b, B)
  PROVE  /\ IsArray(VisibleOrder(b)) /\ Distinct(VisibleOrder(b))
         /\ IdsOf(VisibleOrder(b)) = EntryIds(b)
         /\ InOrder(b, ListsInView(b), Len(Grouped(b)))
         /\ Distinct(Entries(b)) /\ ListsApart(Lists(b)) /\ \A e : e \in ToSet(VisibleOrder(b)) <=> e \in ToSet(Entries(b))
<1> DEFINE U == Uncategorized(b)
           G == Grouped(b)
           X == U \o G
           Y == G \o U
           n == Len(G)
           q == [c \in DOMAIN b.categories |-> CategoryLists(b.categories[c])]
<1>1. IsArray(G)
  <2>1. IsArray(b.categories) /\ \A c \in DOMAIN b.categories : IsArray(b.categories[c].subs)
    BY GoodParts DEF GoodCategory
  <2>2. Len(b.categories) \in Nat /\ DOMAIN b.categories = 1..Len(b.categories)
    BY <2>1, ArrayParts
  <2>3. IsArray(q) /\ \A c \in DOMAIN q : IsArray(q[c])
    <3>1. q = [c \in 1..Len(b.categories) |-> q[c]] /\ \A c \in DOMAIN b.categories : q[c] = CategoryLists(b.categories[c])
      BY <2>2
    <3> HIDE DEF q
    <3>2. IsArray(q) /\ DOMAIN q = DOMAIN b.categories
      BY <2>2, <3>1, ArrayOfLength
    <3>3. \A c \in DOMAIN q : IsArray(q[c])
      BY <2>1, <3>1, <3>2, CategoryPlaces
    <3> QED
      BY <3>2, <3>3
  <2>4. G = FlattenSeq(q)
    BY DEF Grouped
  <2> HIDE DEF q, G
  <2>5. IsArray(FlattenSeq(q))
    BY <2>3, FlattenParts
  <2> QED
    BY <2>4, <2>5
<1>2. /\ IsArray(U) /\ Len(U) = 1
      /\ U[1] = [group |-> NoGroup, category |-> NoGroup, scenarios |-> b.uncategorized]
  BY OneArray DEF Uncategorized
<1>3. Lists(b) = X /\ ListsInView(b) = Y
  BY DEF Lists, ListsInView
<1>4. IsBenchmark(b) /\ FlatApart(b)
  BY GoodIsSound, GoodIsFlat
<1>5. \A k \in DOMAIN X : IsArray(X[k].scenarios)
  <2>1. PICK C, S : Spots(C, S, b)
    BY <1>4, ListPlaces
  <2> QED
    BY <1>3, <1>4, <2>1, SpotIsList DEF Spots, IsList
<1> HIDE DEF U, G
<1>6. /\ n \in Nat /\ IsArray(X) /\ IsArray(Y) /\ DOMAIN X = 1..(1 + n) /\ DOMAIN Y = 1..(n + 1)
      /\ \A i \in 1..1 : X[i] = U[i]
      /\ \A i \in 1..n : X[1 + i] = G[i]
      /\ \A i \in 1..n : Y[i] = G[i]
      /\ \A i \in 1..1 : Y[n + i] = U[i]
  <2>1. n \in Nat
    BY <1>1, ArrayParts
  <2>5. PICK m : m = Len(U)
    OBVIOUS
  <2>6. /\ IsArray(X) /\ Len(X) = m + n /\ (\A i \in 1..m : X[i] = U[i]) /\ \A i \in 1..n : X[m + i] = G[i]
        /\ IsArray(Y) /\ Len(Y) = n + m /\ (\A i \in 1..n : Y[i] = G[i]) /\ \A i \in 1..m : Y[n + i] = U[i]
    <3>1. IsArray(U)
      BY <1>2
    <3> QED
      BY <1>1, <2>5, <3>1, JoinedBoth
  <2>7. m = 1
    BY <1>2, <2>5
  <2> HIDE DEF X, Y
  <2>2. IsArray(X) /\ Len(X) = 1 + n /\ (\A i \in 1..1 : X[i] = U[i]) /\ \A i \in 1..n : X[1 + i] = G[i]
    BY <2>6, <2>7
  <2>3. IsArray(Y) /\ Len(Y) = n + 1 /\ (\A i \in 1..n : Y[i] = G[i]) /\ \A i \in 1..1 : Y[n + i] = U[i]
    BY <2>6, <2>7
  <2>4. DOMAIN X = 1..(1 + n) /\ DOMAIN Y = 1..(n + 1)
    BY <2>2, <2>3, ArrayParts
  <2> QED
    BY <2>1, <2>2, <2>3, <2>4
<1> HIDE DEF X, Y, n
<1> DEFINE to(k) == IF k = n + 1 THEN 1 ELSE 1 + k
<1>7. /\ \A k \in DOMAIN Y : to(k) \in DOMAIN X /\ Y[k] = X[to(k)]
      /\ \A k, m \in DOMAIN Y : k # m => to(k) # to(m)
  <2>1. \A k \in 1..(n + 1) : k = n + 1 \/ k \in 1..n
    BY <1>6
  <2>2. \A k \in 1..n : to(k) = 1 + k /\ 1 + k \in 1..(1 + n) /\ Y[k] = X[1 + k]
    BY <1>6
  <2>3. to(n + 1) = 1 /\ 1 \in 1..(1 + n) /\ Y[n + 1] = X[1]
    BY <1>6
  <2>6. DOMAIN Y = 1..(n + 1) /\ DOMAIN X = 1..(1 + n) /\ n \in Nat
    BY <1>6
  <2>5. \A k, m \in 1..(n + 1) : k # m => to(k) # to(m)
    BY <2>6
  <2> HIDE DEF to
  <2>4. \A k \in 1..(n + 1) : to(k) \in 1..(1 + n) /\ Y[k] = X[to(k)]
    BY <2>1, <2>2, <2>3
  <2> QED
    BY <2>4, <2>5, <2>6
<1> DEFINE from(k) == IF k = 1 THEN n + 1 ELSE k - 1
<1>8. \A k \in DOMAIN X : from(k) \in DOMAIN Y /\ X[k] = Y[from(k)]
  <2>1. ASSUME NEW k \in DOMAIN X, k # 1 PROVE k - 1 \in 1..n /\ X[k] = Y[k - 1]
    <3>1. k - 1 \in 1..n /\ k = 1 + (k - 1)
      BY <1>6, <2>1
    <3> DEFINE i == k - 1
    <3>2. i \in 1..n /\ k = 1 + i
      BY <3>1
    <3> HIDE DEF i
    <3>3. X[k] = Y[i]
      BY <1>6, <3>2
    <3> QED
      BY <3>2, <3>3 DEF i
  <2>2. n + 1 \in 1..(n + 1) /\ X[1] = Y[n + 1] /\ 1..n \subseteq 1..(n + 1)
    BY <1>6
  <2> QED
    BY <1>6, <2>1, <2>2
<1> HIDE DEF to, from
<1>9. \A k \in DOMAIN Y : IsArray(Y[k].scenarios)
  BY <1>5, <1>7
<1>10. /\ IsArray(EntriesIn(X))
       /\ \A x : x \in ToSet(EntriesIn(X)) <=> \E k \in DOMAIN X : x \in ToSet(X[k].scenarios)
       /\ Distinct(EntriesIn(X)) <=> ListsApart(X)
  BY <1>5, <1>6, EntriesOfLists
<1>11. /\ IsArray(EntriesIn(Y))
       /\ \A x : x \in ToSet(EntriesIn(Y)) <=> \E k \in DOMAIN Y : x \in ToSet(Y[k].scenarios)
       /\ Distinct(EntriesIn(Y)) <=> ListsApart(Y)
  BY <1>6, <1>9, EntriesOfLists
<1>12. Distinct(EntriesIn(X))
  BY <1>4, <1>3, EntriesFlat DEF FlatApart, Entries
<1>13. Distinct(EntriesIn(Y))
  BY <1>10, <1>12, <1>7, <1>11 DEF ListsApart
<1>14. \A x : x \in ToSet(EntriesIn(Y)) <=> x \in ToSet(EntriesIn(X))
  <2>1. ASSUME NEW x, x \in ToSet(EntriesIn(Y)) PROVE x \in ToSet(EntriesIn(X))
    <3>1. PICK k \in DOMAIN Y : x \in ToSet(Y[k].scenarios)
      BY <1>11, <2>1
    <3> QED
      BY <1>7, <1>10, <3>1
  <2>2. ASSUME NEW x, x \in ToSet(EntriesIn(X)) PROVE x \in ToSet(EntriesIn(Y))
    <3>1. PICK k \in DOMAIN X : x \in ToSet(X[k].scenarios)
      BY <1>10, <2>2
    <3> QED
      BY <1>8, <1>11, <3>1
  <2> QED
    BY <2>1, <2>2
<1>15. IdsOf(EntriesIn(Y)) = IdsOf(EntriesIn(X))
  BY <1>14, IdsOfSet
<1>16. VisibleOrder(b) = EntriesIn(Y) /\ EntryIds(b) = IdsOf(EntriesIn(X)) /\ Entries(b) = EntriesIn(X)
  BY <1>3 DEF VisibleOrder, EntryIds, Entries
<1>17. InOrder(b, Y, n)
  BY <1>7, <1>6, <1>2, <1>3, <1>9 DEF ToSet, InOrder, n, G
<1> QED
  BY <1>3, <1>10, <1>11, <1>12, <1>13, <1>14, <1>15, <1>16, <1>17 DEF n, G

\* Neither null nor a value of an unexpected type is an array or an object.
JsonValuesApart == \A f : f = [x \in DOMAIN f |-> f[x]] => IsExpected(f)

\* The present version and the benchmark's own id are none of them either.
NumbersExpected == IsExpected(SchemaVersion) /\ IsExpected(Self)

\* An array is neither null nor malformed.
LEMMA ArrayIsExpected ==
  ASSUME NEW s, IsArray(s), JsonValuesApart
  PROVE  s = [i \in DOMAIN s |-> s[i]] /\ IsExpected(s)
<1>1. s = [i \in DOMAIN s |-> s[i]]
  BY ArrayIs, ArrayParts
<1> QED
  BY <1>1 DEF JsonValuesApart

\* An array each of whose elements is read as it was is read as it was.
LEMMA WholeArray ==
  ASSUME NEW s, NEW d, IsArray(s), d = [i \in DOMAIN s |-> d[i]], \A i \in DOMAIN s : d[i] = {s[i]}
  PROVE  Whole(d) = {s}
<1>1. s = [i \in DOMAIN s |-> s[i]]
  BY ArrayIs, ArrayParts
<1>2. DOMAIN d = DOMAIN s
  OBVIOUS
<1>3. {} \notin ToSet(d)
  BY <1>2 DEF ToSet
<1>4. [i \in DOMAIN d |-> CHOOSE x \in d[i] : TRUE] = s
  <2>1. \A i \in DOMAIN s : (CHOOSE x \in d[i] : TRUE) = s[i]
    <3> TAKE i \in DOMAIN s
    <3>1. d[i] = {s[i]}
      OBVIOUS
    <3> QED
      BY <3>1
  <2> DEFINE f == [i \in DOMAIN d |-> CHOOSE x \in d[i] : TRUE]
  <2>2. f = [i \in DOMAIN s |-> s[i]]
    BY <1>2, <2>1
  <2> QED
    BY <1>1, <2>2
<1> QED
  BY <1>3, <1>4 DEF Whole

\* What is written of a threshold is read as that threshold,
LEMMA ThresholdReadBack ==
  ASSUME JsonValuesApart, NEW t, IsThreshold(t), IsId(t.tier)
  PROVE  DecodeThreshold([tierId |-> t.tier, score |-> JsonNumber(t.score)]) = {t}
<1> DEFINE o == [tierId |-> t.tier, score |-> JsonNumber(t.score)]
<1>1. JsonNumber(t.score) = t.score
  BY DEF JsonNumber, IsThreshold
<1>2. IsExpected(o)
  <2>1. o = [x \in DOMAIN o |-> o[x]]
    OBVIOUS
  <2> HIDE DEF o
  <2> QED
    BY <2>1 DEF JsonValuesApart
<1>3. ExactKeys(o, {"tierId", "score"})
  BY <1>2 DEF ExactKeys
<1>4. o.tierId = t.tier /\ o.score = t.score
  BY <1>1
<1> HIDE DEF o
<1>5. DecodeThreshold(o) = {[tier |-> t.tier, score |-> t.score]}
  BY <1>3, <1>4 DEF DecodeThreshold, IsThreshold
<1> QED
  BY <1>5 DEF o, IsThreshold

\* the same of a scenario,
LEMMA EntryReadBack ==
  ASSUME JsonValuesApart, NEW e, IsEntry(e), IsId(e.id), \A t \in ToSet(e.thresholds) : IsId(t.tier)
  PROVE  DecodeEntry(EncodeEntry(e), SchemaVersion) = {e}
<1> DEFINE o == EncodeEntry(e)
           enc == [i \in DOMAIN e.thresholds |->
                     [tierId |-> e.thresholds[i].tier, score |-> JsonNumber(e.thresholds[i].score)]]
           d == [i \in DOMAIN enc |-> DecodeThreshold(enc[i])]
<1>1. o = [id |-> e.id, name |-> e.name, hashes |-> e.hashes, thresholds |-> enc]
  BY DEF EncodeEntry
<1>2. /\ IsArray(e.hashes) /\ IsInjective(e.hashes) /\ IsArray(e.thresholds) /\ IsExpected(e.name)
      /\ \A h \in ToSet(e.hashes) : IsExpected(h) /\ h # Blank
      /\ \A t \in ToSet(e.thresholds) : IsThreshold(t)
  BY DEF IsEntry
<1>3. DOMAIN enc = DOMAIN e.thresholds
      /\ \A i \in DOMAIN e.thresholds : enc[i] = [tierId |-> e.thresholds[i].tier, score |-> JsonNumber(e.thresholds[i].score)]
  OBVIOUS
<1>4. IsExpected(enc)
  <2>1. enc = [x \in DOMAIN enc |-> enc[x]]
    OBVIOUS
  <2> HIDE DEF enc
  <2> QED
    BY <2>1 DEF JsonValuesApart
<1> HIDE DEF enc
<1>5. Whole(d) = {e.thresholds}
  <2>1. ASSUME NEW i \in DOMAIN e.thresholds PROVE DecodeThreshold(enc[i]) = {e.thresholds[i]}
    BY <1>2, <1>3, ThresholdReadBack DEF ToSet
  <2>2. d = [i \in DOMAIN e.thresholds |-> d[i]] /\ \A i \in DOMAIN e.thresholds : d[i] = {e.thresholds[i]}
    BY <1>3, <2>1
  <2> HIDE DEF d
  <2> QED
    BY <1>2, <2>2, WholeArray
<1>6. IsExpected(o) /\ DOMAIN o = {"id", "name", "thresholds", "hashes"}
  <2> DEFINE r == [id |-> e.id, name |-> e.name, hashes |-> e.hashes, thresholds |-> enc]
  <2>1. r = [x \in DOMAIN r |-> r[x]] /\ DOMAIN r = {"id", "name", "thresholds", "hashes"}
    OBVIOUS
  <2>2. o = r
    BY <1>1
  <2> HIDE DEF o, r
  <2> QED
    BY <2>1, <2>2 DEF JsonValuesApart
<1>7. o.id = e.id /\ o.name = e.name /\ o.hashes = e.hashes /\ o.thresholds = enc
  BY <1>1
<1> HIDE DEF o
<1>8. ExactKeys(o, {"id", "name", "thresholds", IF SchemaVersion = 1 THEN "hash" ELSE "hashes"})
  BY <1>6 DEF ExactKeys, SchemaVersion
<1>9. DecodeHashes(o, SchemaVersion) = {e.hashes}
  <2>1. IsExpected(o.hashes)
    BY <1>2, <1>7, ArrayIsExpected
  <2>2. \A i \in DOMAIN o.hashes : IsExpected(o.hashes[i]) /\ o.hashes[i] # Blank
    BY <1>2, <1>7 DEF ToSet
  <2> QED
    BY <1>2, <1>7, <2>1, <2>2 DEF DecodeHashes, SchemaVersion
<1>10. DecodeEntry(o, SchemaVersion) = {[id |-> o.id, name |-> o.name, hashes |-> hashes, thresholds |-> thresholds] :
          hashes \in DecodeHashes(o, SchemaVersion), thresholds \in Whole(d)}
  BY <1>2, <1>4, <1>7, <1>8 DEF DecodeEntry
<1> DEFINE H == DecodeHashes(o, SchemaVersion)
           T == Whole(d)
<1>11. H = {e.hashes} /\ T = {e.thresholds}
  BY <1>5, <1>9
<1>12. DecodeEntry(o, SchemaVersion)
         = {[id |-> o.id, name |-> o.name, hashes |-> hashes, thresholds |-> thresholds] : hashes \in H, thresholds \in T}
  BY <1>10
<1> HIDE DEF H, T, d
<1>13. DecodeEntry(o, SchemaVersion) = {[id |-> e.id, name |-> e.name, hashes |-> e.hashes, thresholds |-> e.thresholds]}
  BY <1>7, <1>11, <1>12
<1>14. e = [id |-> e.id, name |-> e.name, hashes |-> e.hashes, thresholds |-> e.thresholds]
  BY DEF IsEntry
<1>15. DecodeEntry(o, SchemaVersion) = {e}
  BY <1>13, <1>14
<1> QED
  BY <1>15 DEF o

\* The entries of a list, written and read.
LEMMA EntriesReadBack ==
  ASSUME JsonValuesApart, NEW l, IsList(l), \A i \in DOMAIN l : IsId(l[i].id),
         \A i \in DOMAIN l : \A t \in ToSet(l[i].thresholds) : IsId(t.tier)
  PROVE  DecodeEntries(EncodeEntries(l), SchemaVersion) = {l}
<1> DEFINE enc == EncodeEntries(l)
           d == [i \in DOMAIN enc |-> DecodeEntry(enc[i], SchemaVersion)]
<1>1. enc = [i \in DOMAIN l |-> enc[i]] /\ \A i \in DOMAIN l : enc[i] = EncodeEntry(l[i])
  BY DEF EncodeEntries
<1> HIDE DEF enc
<1>2. IsExpected(enc) /\ DOMAIN enc = DOMAIN l
  BY <1>1 DEF JsonValuesApart
<1>3. \A i \in DOMAIN l : DecodeEntry(enc[i], SchemaVersion) = {l[i]}
  BY <1>1, EntryReadBack DEF IsList
<1>4. Whole(d) = {l}
  <2>1. d = [i \in DOMAIN l |-> d[i]] /\ \A i \in DOMAIN l : d[i] = {l[i]}
    BY <1>2, <1>3
  <2> HIDE DEF d
  <2> QED
    BY <2>1, WholeArray DEF IsList
<1>5. DecodeEntries(enc, SchemaVersion) = Whole(d)
  BY <1>2 DEF DecodeEntries
<1> HIDE DEF d
<1>6. DecodeEntries(enc, SchemaVersion) = {l}
  BY <1>4, <1>5
<1> QED
  BY <1>6 DEF enc

\* The ids of a list and the tiers of its thresholds are no empty ids.
Named(l) == /\ \A i \in DOMAIN l : IsId(l[i].id)
            /\ \A i \in DOMAIN l : \A t \in ToSet(l[i].thresholds) : IsId(t.tier)

\* of a subcategory,
LEMMA SubReadBack ==
  ASSUME JsonValuesApart, NEW s, IsSubcategory(s), IsId(s.id), Named(s.scenarios)
  PROVE  DecodeSubcategory([id |-> s.id, name |-> s.name, scenarios |-> EncodeEntries(s.scenarios)], SchemaVersion) = {s}
<1> DEFINE o == [id |-> s.id, name |-> s.name, scenarios |-> EncodeEntries(s.scenarios)]
<1>1. IsExpected(o) /\ DOMAIN o = {"id", "name", "scenarios"}
  <2>1. o = [x \in DOMAIN o |-> o[x]] /\ DOMAIN o = {"id", "name", "scenarios"}
    OBVIOUS
  <2> HIDE DEF o
  <2> QED
    BY <2>1 DEF JsonValuesApart
<1>2. o.id = s.id /\ o.name = s.name /\ o.scenarios = EncodeEntries(s.scenarios)
  OBVIOUS
<1> HIDE DEF o
<1>3. DecodeEntries(o.scenarios, SchemaVersion) = {s.scenarios}
  BY <1>2, EntriesReadBack DEF IsSubcategory, Named
<1>4. DecodeSubcategory(o, SchemaVersion)
        = {[id |-> o.id, name |-> o.name, scenarios |-> scenarios] : scenarios \in DecodeEntries(o.scenarios, SchemaVersion)}
  BY <1>1, <1>2 DEF DecodeSubcategory, ExactKeys, IsSubcategory
<1>5. DecodeSubcategory(o, SchemaVersion) = {[id |-> s.id, name |-> s.name, scenarios |-> s.scenarios]}
  BY <1>2, <1>3, <1>4
<1> QED
  BY <1>5 DEF IsSubcategory, o

EncodedSubs(c) == [s \in DOMAIN c.subs |->
  [id |-> c.subs[s].id, name |-> c.subs[s].name, scenarios |-> EncodeEntries(c.subs[s].scenarios)]]
EncodedCategory(c) ==
  [id |-> c.id, name |-> c.name, scenarios |-> EncodeEntries(c.scenarios), subcategories |-> EncodedSubs(c)]

\* of a category,
LEMMA CategoryReadBack ==
  ASSUME JsonValuesApart, NEW c, IsCategory(c), IsId(c.id), Named(c.scenarios),
         \A s \in DOMAIN c.subs : IsId(c.subs[s].id) /\ Named(c.subs[s].scenarios)
  PROVE  DecodeCategory(EncodedCategory(c), SchemaVersion) = {c}
<1> DEFINE o == EncodedCategory(c)
           enc == EncodedSubs(c)
           d == [s \in DOMAIN enc |-> DecodeSubcategory(enc[s], SchemaVersion)]
<1>1. /\ enc = [s \in DOMAIN c.subs |-> enc[s]] /\ DOMAIN enc = DOMAIN c.subs
      /\ \A s \in DOMAIN c.subs :
           enc[s] = [id |-> c.subs[s].id, name |-> c.subs[s].name, scenarios |-> EncodeEntries(c.subs[s].scenarios)]
  BY DEF EncodedSubs
<1>2. o = [id |-> c.id, name |-> c.name, scenarios |-> EncodeEntries(c.scenarios), subcategories |-> enc]
  BY DEF EncodedCategory
<1> HIDE DEF enc, o
<1>3. IsExpected(enc)
  BY <1>1 DEF JsonValuesApart
<1>4. IsExpected(o) /\ DOMAIN o = {"id", "name", "scenarios", "subcategories"}
  <2> DEFINE r == [id |-> c.id, name |-> c.name, scenarios |-> EncodeEntries(c.scenarios), subcategories |-> enc]
  <2>1. r = [x \in DOMAIN r |-> r[x]] /\ DOMAIN r = {"id", "name", "scenarios", "subcategories"}
    OBVIOUS
  <2>2. o = r
    BY <1>2
  <2> HIDE DEF r
  <2> QED
    BY <2>1, <2>2 DEF JsonValuesApart
<1>5. o.id = c.id /\ o.name = c.name /\ o.scenarios = EncodeEntries(c.scenarios) /\ o.subcategories = enc
  BY <1>2
<1>6. DecodeEntries(o.scenarios, SchemaVersion) = {c.scenarios}
  BY <1>5, EntriesReadBack DEF IsCategory, Named
<1>7. Whole(d) = {c.subs}
  <2>1. \A s \in DOMAIN c.subs : DecodeSubcategory(enc[s], SchemaVersion) = {c.subs[s]}
    BY <1>1, SubReadBack DEF IsCategory
  <2>2. d = [s \in DOMAIN c.subs |-> d[s]] /\ \A s \in DOMAIN c.subs : d[s] = {c.subs[s]}
    BY <1>1, <2>1
  <2>3. IsArray(c.subs)
    BY DEF IsCategory
  <2> HIDE DEF d
  <2> QED
    BY <2>2, <2>3, WholeArray
<1>8. DecodeCategory(o, SchemaVersion)
        = {[id |-> o.id, name |-> o.name, scenarios |-> scenarios, subs |-> subs] :
             scenarios \in DecodeEntries(o.scenarios, SchemaVersion), subs \in Whole(d)}
  BY <1>3, <1>4, <1>5 DEF DecodeCategory, ExactKeys, IsCategory
<1> DEFINE L == DecodeEntries(o.scenarios, SchemaVersion)
           S == Whole(d)
<1>12. L = {c.scenarios} /\ S = {c.subs}
  BY <1>6, <1>7
<1>13. DecodeCategory(o, SchemaVersion)
         = {[id |-> o.id, name |-> o.name, scenarios |-> scenarios, subs |-> subs] : scenarios \in L, subs \in S}
  BY <1>8
<1> HIDE DEF L, S
<1>9. DecodeCategory(o, SchemaVersion) = {[id |-> c.id, name |-> c.name, scenarios |-> c.scenarios, subs |-> c.subs]}
  BY <1>5, <1>12, <1>13
<1>10. c = [id |-> c.id, name |-> c.name, scenarios |-> c.scenarios, subs |-> c.subs]
  BY DEF IsCategory
<1> HIDE DEF d
<1>11. DecodeCategory(o, SchemaVersion) = {c}
  BY <1>9, <1>10
<1> QED
  BY <1>11 DEF o

\* and of the ladder.
LEMMA TiersReadBack ==
  ASSUME JsonValuesApart, NEW tiers, GoodTiers(tiers), \A t \in DOMAIN tiers : IsId(tiers[t].id)
  PROVE  Whole([t \in DOMAIN tiers |-> DecodeTier(tiers[t])]) = {tiers}
<1> DEFINE d == [t \in DOMAIN tiers |-> DecodeTier(tiers[t])]
<1>1. ASSUME NEW t \in DOMAIN tiers PROVE DecodeTier(tiers[t]) = {tiers[t]}
  <2> DEFINE o == tiers[t]
  <2>1. o = [id |-> o.id, name |-> o.name] /\ IsExpected(o.name) /\ IsId(o.id)
    BY DEF GoodTiers, IsTier
  <2> HIDE DEF o
  <2>2. DOMAIN o = {"id", "name"} /\ o = [x \in DOMAIN o |-> o[x]]
    <3> DEFINE r == [id |-> o.id, name |-> o.name]
    <3>1. DOMAIN r = {"id", "name"} /\ r = [x \in DOMAIN r |-> r[x]]
      OBVIOUS
    <3>2. o = r
      BY <2>1
    <3> HIDE DEF r
    <3> QED
      BY <3>1, <3>2
  <2>3. IsExpected(o)
    BY <2>2 DEF JsonValuesApart
  <2>4. DecodeTier(o) = {o}
    BY <2>1, <2>2, <2>3 DEF DecodeTier, ExactKeys
  <2> QED
    BY <2>4 DEF o
<1>2. d = [t \in DOMAIN tiers |-> d[t]] /\ \A t \in DOMAIN tiers : d[t] = {tiers[t]}
  BY <1>1
<1>3. IsArray(tiers)
  BY DEF GoodTiers
<1> HIDE DEF d
<1>4. Whole(d) = {tiers}
  BY <1>2, <1>3, WholeArray
<1> QED
  BY <1>4 DEF d

\* The ids of a sound benchmark's lists and groups are among its ids.
LEMMA GoodIsNamed ==
  ASSUME NEW b, NEW B, Good(b, B), \A x \in Ids(b) : IsId(x)
  PROVE  /\ \A t \in DOMAIN b.tiers : IsId(b.tiers[t].id)
         /\ Named(b.uncategorized)
         /\ \A c \in DOMAIN b.categories :
              /\ IsId(b.categories[c].id) /\ Named(b.categories[c].scenarios)
              /\ \A s \in DOMAIN b.categories[c].subs :
                   IsId(b.categories[c].subs[s].id) /\ Named(b.categories[c].subs[s].scenarios)
<1> DEFINE T == IdsOf(b.tiers)
<1>1. \A x \in T : IsId(x)
  BY DEF Ids
<1>2. \A x \in Held(b.uncategorized, b.categories) : IsId(x)
  BY DEF Ids
<1>3. GoodBody(b.uncategorized, b.categories, T, B)
  BY DEF Good
<1>4. \A t \in DOMAIN b.tiers : IsId(b.tiers[t].id)
  BY <1>1 DEF IdsOf
<1> HIDE DEF T
<1>5. ASSUME NEW l, GoodList(l, T, B), \A x \in IdsOf(l) : IsId(x) PROVE Named(l)
  BY <1>5, <1>1 DEF IdsOf, GoodList, GoodEntry, Tied, Named
<1>6. Named(b.uncategorized)
  BY <1>2, <1>3, <1>5 DEF GoodBody, Held
<1>7. ASSUME NEW c \in DOMAIN b.categories
      PROVE  /\ IsId(b.categories[c].id) /\ Named(b.categories[c].scenarios)
             /\ \A s \in DOMAIN b.categories[c].subs :
                  IsId(b.categories[c].subs[s].id) /\ Named(b.categories[c].subs[s].scenarios)
  <2> DEFINE k == b.categories[c]
  <2>1. GoodCategory(k, T, B)
    BY <1>3 DEF GoodBody
  <2>2. \A x \in CatAll(k) : IsId(x)
    BY <1>2 DEF Held
  <2> HIDE DEF k
  <2>3. IsId(k.id) /\ Named(k.scenarios)
    BY <1>5, <2>1, <2>2 DEF CatAll, GoodCategory
  <2>4. ASSUME NEW s \in DOMAIN k.subs PROVE IsId(k.subs[s].id) /\ Named(k.subs[s].scenarios)
    BY <2>1, <2>2, <1>5 DEF GoodCategory, CatAll, SubAll, GoodSub
  <2> QED
    BY <2>3, <2>4 DEF k
<1> QED
  BY <1>4, <1>6, <1>7

\* What is written, with the categories by name.
LEMMA EncodedCategories ==
  ASSUME NEW b, IsBenchmark(b)
  PROVE  Encode(b) = [schemaVersion |-> SchemaVersion, id |-> Self, name |-> b.name, tiers |-> b.tiers,
                      uncategorized |-> EncodeEntries(b.uncategorized),
                      categories |-> [c \in DOMAIN b.categories |-> EncodedCategory(b.categories[c])]]
<1> DEFINE Sub(c, s) == [b.categories[c].subs[s] EXCEPT !.scenarios = EncodeEntries(@)]
           Cat(c) == [id |-> b.categories[c].id, name |-> b.categories[c].name,
                      scenarios |-> EncodeEntries(b.categories[c].scenarios),
                      subcategories |-> [s \in DOMAIN b.categories[c].subs |-> Sub(c, s)]]
<1>1. ASSUME NEW c \in DOMAIN b.categories PROVE Cat(c) = EncodedCategory(b.categories[c])
  <2> DEFINE k == b.categories[c]
  <2>1. ASSUME NEW s \in DOMAIN k.subs
        PROVE  Sub(c, s) = [id |-> k.subs[s].id, name |-> k.subs[s].name, scenarios |-> EncodeEntries(k.subs[s].scenarios)]
    <3>1. IsSubcategory(k.subs[s])
      BY DEF IsBenchmark, IsCategory
    <3> DEFINE g == k.subs[s]
    <3>2. g = [id |-> g.id, name |-> g.name, scenarios |-> g.scenarios]
      BY <3>1 DEF IsSubcategory
    <3> HIDE DEF g
    <3>3. [g EXCEPT !.scenarios = EncodeEntries(@)]
            = [id |-> g.id, name |-> g.name, scenarios |-> EncodeEntries(g.scenarios)]
      BY <3>2
    <3> QED
      BY <3>3 DEF g
  <2>2. [s \in DOMAIN k.subs |-> Sub(c, s)] = EncodedSubs(k)
    BY <2>1 DEF EncodedSubs
  <2> HIDE DEF Sub
  <2> QED
    BY <2>2 DEF EncodedCategory
<1>2. Encode(b) = [schemaVersion |-> SchemaVersion, id |-> Self, name |-> b.name, tiers |-> b.tiers,
                   uncategorized |-> EncodeEntries(b.uncategorized),
                   categories |-> [c \in DOMAIN b.categories |-> Cat(c)]]
  BY DEF Encode
<1> HIDE DEF Cat
<1>3. [c \in DOMAIN b.categories |-> Cat(c)] = [c \in DOMAIN b.categories |-> EncodedCategory(b.categories[c])]
  BY <1>1
<1> QED
  BY <1>2, <1>3

\* What is written of a sound benchmark is read as that benchmark.
LEMMA ReadBack ==
  ASSUME JsonValuesApart, NumbersExpected, NEW b, NEW B, Good(b, B), \A x \in Ids(b) : IsId(x)
  PROVE  ClassifyBytes(Encode(b)).loaded = {b}
<1> DEFINE o == Encode(b)
           cats == [c \in DOMAIN b.categories |-> EncodedCategory(b.categories[c])]
           d == [c \in DOMAIN cats |-> DecodeCategory(cats[c], SchemaVersion)]
           entries == EncodeEntries(b.uncategorized)
<1>1. IsBenchmark(b) /\ HasStructuralIntegrity(b)
  BY GoodIsSound
<1>2. /\ \A t \in DOMAIN b.tiers : IsId(b.tiers[t].id)
      /\ Named(b.uncategorized)
      /\ \A c \in DOMAIN b.categories :
           /\ IsId(b.categories[c].id) /\ Named(b.categories[c].scenarios)
           /\ \A s \in DOMAIN b.categories[c].subs :
                IsId(b.categories[c].subs[s].id) /\ Named(b.categories[c].subs[s].scenarios)
  BY GoodIsNamed
<1>3. o = [schemaVersion |-> SchemaVersion, id |-> Self, name |-> b.name, tiers |-> b.tiers,
           uncategorized |-> entries, categories |-> cats]
  BY <1>1, EncodedCategories
<1>4. /\ DOMAIN cats = DOMAIN b.categories /\ cats = [c \in DOMAIN cats |-> cats[c]]
      /\ \A c \in DOMAIN b.categories : cats[c] = EncodedCategory(b.categories[c])
  OBVIOUS
<1> HIDE DEF o, cats, entries
<1>5. IsExpected(cats)
  BY <1>4 DEF JsonValuesApart
<1>6. IsExpected(o) /\ DOMAIN o = {"schemaVersion", "id", "name", "tiers", "uncategorized", "categories"}
  <2> DEFINE r == [schemaVersion |-> SchemaVersion, id |-> Self, name |-> b.name, tiers |-> b.tiers,
                   uncategorized |-> entries, categories |-> cats]
  <2>1. r = [x \in DOMAIN r |-> r[x]] /\ DOMAIN r = {"schemaVersion", "id", "name", "tiers", "uncategorized", "categories"}
    OBVIOUS
  <2>2. o = r
    BY <1>3
  <2> HIDE DEF r
  <2> QED
    BY <2>1, <2>2 DEF JsonValuesApart
<1>7. /\ o.schemaVersion = SchemaVersion /\ o.id = Self /\ o.name = b.name /\ o.tiers = b.tiers
      /\ o.uncategorized = entries /\ o.categories = cats
  BY <1>3
<1>8. GoodTiers(b.tiers) /\ IsExpected(b.tiers)
  BY ArrayIsExpected DEF Good, GoodTiers
<1> DEFINE TT == Whole([t \in DOMAIN o.tiers |-> DecodeTier(o.tiers[t])])
           L == DecodeEntries(o.uncategorized, SchemaVersion)
           C == Whole(d)
<1>9. TT = {b.tiers}
  BY <1>2, <1>7, <1>8, TiersReadBack
<1>10. L = {b.uncategorized}
  <2>1. IsList(b.uncategorized)
    BY <1>1 DEF IsBenchmark
  <2> QED
    BY <1>2, <1>7, <2>1, EntriesReadBack DEF Named, entries
<1>11. C = {b.categories}
  <2>1. \A c \in DOMAIN b.categories : DecodeCategory(cats[c], SchemaVersion) = {b.categories[c]}
    BY <1>1, <1>2, <1>4, CategoryReadBack DEF IsBenchmark
  <2>2. d = [c \in DOMAIN b.categories |-> d[c]] /\ \A c \in DOMAIN b.categories : d[c] = {b.categories[c]}
    BY <1>4, <2>1
  <2>3. IsArray(b.categories)
    BY <1>1 DEF IsBenchmark
  <2> HIDE DEF d
  <2> QED
    BY <2>2, <2>3, WholeArray
<1>12. DecodeStructure(o, SchemaVersion)
         = {[name |-> o.name, tiers |-> tiers, uncategorized |-> uncategorized, categories |-> categories] :
              tiers \in TT, uncategorized \in L, categories \in C}
  <2>1. IsExpected(o.name) /\ IsExpected(o.tiers) /\ IsExpected(o.categories) /\ IsId(o.id)
    <3>1. IsId(Self)
      BY DEF IsId, NumbersExpected, Self
    <3> QED
      BY <1>1, <1>5, <1>7, <1>8, <3>1 DEF IsBenchmark
  <2> QED
    BY <1>6, <1>7, <2>1 DEF DecodeStructure, ExactKeys
<1> HIDE DEF TT, L, C
<1>13. DecodeStructure(o, SchemaVersion) = {b}
  BY <1>7, <1>9, <1>10, <1>11, <1>12 DEF Good
<1> DEFINE read == {x \in DecodeStructure(o, o.schemaVersion) : HasStructuralIntegrity(x)}
           numbered == IsExpected(o) /\ "schemaVersion" \in DOMAIN o /\ IsExpected(o.schemaVersion)
<1>14. read = {b}
  BY <1>1, <1>7, <1>13
<1>15. numbered
  BY <1>6, <1>7 DEF NumbersExpected
<1>16. o.schemaVersion = 2 /\ SchemaVersion = 2
  BY <1>7 DEF SchemaVersion
<1> HIDE DEF read, numbered
<1>17. ClassifyBytes(o) =
         CASE ~numbered -> [problem |-> "invalid", loaded |-> {}]
           [] numbered /\ o.schemaVersion > SchemaVersion -> [problem |-> "unsupported", loaded |-> {}]
           [] numbered /\ o.schemaVersion <= SchemaVersion ->
                IF o.schemaVersion < 1 \/ read = {} THEN [problem |-> "invalid", loaded |-> {}]
                ELSE [problem |-> "none", loaded |-> read]
  BY DEF ClassifyBytes, read, numbered
<1>18. ClassifyBytes(o) = [problem |-> "none", loaded |-> read]
  BY <1>14, <1>15, <1>16, <1>17
<1>19. ClassifyBytes(o).loaded = {b}
  BY <1>14, <1>18
<1> QED
  BY <1>19 DEF o

-----------------------------------------------------------------------------
(* The rows of the table.                                                   *)

\* The lists of a category stand together, its own before those of its subcategories.
Together(v) ==
  /\ \A l, x, m \in DOMAIN v : v[l].category = v[m].category /\ l <= x /\ x <= m => v[x].category = v[l].category
  /\ \A l, m \in DOMAIN v : v[l].group = v[l].category /\ v[m].category = v[l].category => l <= m
  /\ \A l \in DOMAIN v : v[l].group = NoGroup => v[l].category = NoGroup

LEMMA ListsTogether ==
  ASSUME NEW b, NEW B, Good(b, B), NoGroup \notin Ids(b)
  PROVE  Together(ListsInView(b))
<1> DEFINE cs == b.categories
           n == Len(cs)
           q == [c \in DOMAIN cs |-> CategoryLists(cs[c])]
           v == ListsInView(b)
           N == Len(Grouped(b))
           On(c, p) == p - Starts(q)[c] \in 1..Len(q[c])
<1>1. /\ n \in Nat /\ DOMAIN cs = 1..n
      /\ \A c \in 1..n : IsArray(cs[c].subs) /\ cs[c].id # NoGroup
      /\ \A c, d \in 1..n : cs[c].id = cs[d].id => c = d
      /\ \A c \in 1..n : \A i \in 1..Len(cs[c].subs) : cs[c].subs[i].id # cs[c].id /\ cs[c].subs[i].id # NoGroup
  <2>1. IsArray(cs) /\ \A c \in DOMAIN cs : GoodCategory(cs[c], IdsOf(b.tiers), B)
    BY GoodParts
  <2>2. n \in Nat /\ DOMAIN cs = 1..n /\ \A c \in 1..n : CatParts(cs)[c] = CatAll(cs[c])
    BY <2>1, PartsOf
  <2>3. \A c, d \in 1..n : c # d => CatAll(cs[c]) \cap CatAll(cs[d]) = {}
    BY <2>2 DEF Good, GoodBody, Apart
  <2>4. \A c \in 1..n : cs[c].id \in CatAll(cs[c]) /\ CatAll(cs[c]) \subseteq Ids(b)
    BY <2>2 DEF CatAll, Ids, Held
  <2>5. ASSUME NEW c \in 1..n, NEW i \in 1..Len(cs[c].subs)
        PROVE  cs[c].subs[i].id # cs[c].id /\ cs[c].subs[i].id # NoGroup
    <3>1. /\ SubParts(cs[c].subs)[i] = SubAll(cs[c].subs[i]) /\ i \in DOMAIN cs[c].subs
          /\ Apart({cs[c].id}, IdsOf(cs[c].scenarios), Len(cs[c].subs), SubParts(cs[c].subs))
      BY <2>1, <2>2, <2>5, PartsOf DEF GoodCategory
    <3>2. SubAll(cs[c].subs[i]) \cap {cs[c].id} = {} /\ cs[c].subs[i].id \in SubAll(cs[c].subs[i])
      BY <3>1 DEF Apart, SubAll
    <3>3. SubAll(cs[c].subs[i]) \subseteq CatAll(cs[c])
      BY <3>1 DEF CatAll
    <3> QED
      BY <2>4, <3>2, <3>3
  <2>6. ASSUME NEW c \in 1..n, NEW d \in 1..n, cs[c].id = cs[d].id PROVE c = d
    BY <2>4, <2>6, <2>3, ZenonT(40)
  <2>7. \A c \in 1..n : IsArray(cs[c].subs) /\ cs[c].id # NoGroup
    BY <2>1, <2>2, <2>4 DEF GoodCategory
  <2> QED
    BY <2>2, <2>5, <2>6, <2>7
<1>2. /\ N \in Nat /\ DOMAIN v = 1..(N + 1) /\ \A k \in 1..N : v[k] = Grouped(b)[k]
      /\ v[N + 1].group = NoGroup /\ v[N + 1].category = NoGroup
  <2>1. InOrder(b, v, N)
    BY InView
  <2> QED
    BY <2>1 DEF InOrder
<1>3. \A c \in 1..n : q[c] = CategoryLists(cs[c])
  BY <1>1
<1>4. IsArray(q) /\ Len(q) = n /\ DOMAIN q = 1..n
  <2>1. q = [c \in 1..n |-> q[c]]
    BY <1>1
  <2> HIDE DEF q
  <2> QED
    BY <1>1, <2>1, ArrayOfLength
<1>5. \A c \in 1..n : IsArray(q[c])
  BY <1>1, <1>3, CategoryPlaces
<1>6. Grouped(b) = FlattenSeq(q)
  BY DEF Grouped
<1> HIDE DEF q, v
<1>7. Laid(Starts(q), q, n, Grouped(b))
  BY <1>4, <1>5, <1>6, FlattenLaid
<1> HIDE DEF cs, n, N
<1>8. ASSUME NEW c \in 1..n, NEW p \in 1..N, On(c, p)
      PROVE  /\ v[p].category = cs[c].id /\ v[p].group # NoGroup
             /\ v[p].group = cs[c].id <=> p = Starts(q)[c] + 1
  <2> DEFINE j == p - Starts(q)[c]
  <2>1. Starts(q)[c] \in Nat /\ j \in 1..Len(q[c]) /\ p = Starts(q)[c] + j
    BY <1>7, <1>8 DEF Laid
  <2>2. v[p] = q[c][j]
    BY <1>2, <1>7, <2>1 DEF Laid
  <2>3. Len(cs[c].subs) \in Nat /\ 1..Len(q[c]) = 1..(1 + Len(cs[c].subs))
    BY <1>1, <1>3, <1>5, CategoryPlaces, ArrayParts
  <2> HIDE DEF j
  <2>4. CASE j = 1
    BY <1>1, <1>3, <2>2, <2>4, CategoryPlaces, <2>1
  <2>5. CASE j # 1
    <3> DEFINE i == j - 1
    <3>1. i \in 1..Len(cs[c].subs) /\ j = 1 + i /\ p # Starts(q)[c] + 1
      BY <2>1, <2>3, <2>5
    <3> HIDE DEF i
    <3>2. v[p].category = cs[c].id /\ v[p].group = cs[c].subs[i].id
      BY <1>1, <1>3, <2>2, <3>1, CategoryPlaces
    <3> QED
      BY <1>1, <3>1, <3>2
  <2> QED
    BY <2>4, <2>5
<1>9. \A p \in 1..N : \E c \in 1..n : On(c, p)
  BY <1>7 DEF Laid, N
<1>10. \A c \in 1..n : Starts(q)[c] \in Nat /\ Len(q[c]) \in Nat
  BY <1>5, <1>7, ArrayParts DEF Laid
<1>11. \A p \in DOMAIN v : (p = N + 1 \/ p \in 1..N) /\ p \in Nat
  BY <1>2
<1>12. \A p \in 1..N : v[p].category # NoGroup /\ v[p].group # NoGroup
  BY <1>1, <1>8, <1>9
<1>13. ASSUME NEW l \in DOMAIN v, NEW m \in DOMAIN v, v[l].category = v[m].category
       PROVE  /\ \A x \in DOMAIN v : l <= x /\ x <= m => v[x].category = v[l].category
              /\ v[l].group = v[l].category => l <= m
  <2>1. CASE l = N + 1 \/ m = N + 1
    BY <1>2, <1>11, <1>12, <1>13, <2>1
  <2>2. CASE l \in 1..N /\ m \in 1..N
    <3>1. PICK c \in 1..n : On(c, l)
      BY <1>9, <2>2
    <3>2. PICK d \in 1..n : On(d, m)
      BY <1>9, <2>2
    <3>3. c = d
      BY <1>1, <1>8, <1>13, <2>2, <3>1, <3>2, SMTT(30)
    <3>4. ASSUME NEW x \in DOMAIN v, l <= x, x <= m PROVE v[x].category = v[l].category
      <4>1. x \in 1..N /\ On(c, x)
        BY <1>2, <1>10, <1>11, <2>2, <3>1, <3>2, <3>3, <3>4
      <4> QED
        BY <1>8, <2>2, <3>1, <4>1
    <3>5. ASSUME v[l].group = v[l].category PROVE l <= m
      BY <1>8, <2>2, <3>1, <3>5, <1>10, <3>2, <3>3
    <3> QED
      BY <3>4, <3>5
  <2> QED
    BY <1>11, <2>1, <2>2
<1>14. \A l \in DOMAIN v : v[l].group = NoGroup => v[l].category = NoGroup
  BY <1>2, <1>11, <1>12
<1> QED
  BY <1>13, <1>14 DEF Together, v

\* How many rows there are when m lists are placed; where the rows and the entries of each list are.
Ahead(v, m) == Len(EntriesIn(SubSeq(v, 1, m)))
RowsFor(b, found, in, k) == Projection(b, found, in, k).rows
RowsLaid(rows, order, v, b, found, in, k) ==
  /\ IsArray(rows) /\ Len(rows) = Len(order) /\ Len(rows) \in Nat
  /\ \A l \in DOMAIN v : /\ l \in Nat /\ Len(v[l].scenarios) \in Nat /\ IsArray(v[l].scenarios)
                         /\ Ahead(v, l - 1) \in Nat /\ Ahead(v, l) \in Nat /\ Ahead(v, l) <= Len(rows)
                         /\ Ahead(v, l) = Ahead(v, l - 1) + Len(v[l].scenarios)
  /\ \A l, m \in DOMAIN v : l < m => Ahead(v, l) <= Ahead(v, m - 1)
  /\ \A p \in 1..Len(rows) : \E l \in DOMAIN v : \E i \in 1..Len(v[l].scenarios) : p = Ahead(v, l - 1) + i
  /\ \A l \in DOMAIN v : \A i \in 1..Len(v[l].scenarios) :
       /\ Ahead(v, l - 1) + i \in 1..Len(rows)
       /\ rows[Ahead(v, l - 1) + i] = RowsOf(v, l, b, found, in, k)[i]
       /\ order[Ahead(v, l - 1) + i] = v[l].scenarios[i]

\* The table has a row for each entry in view order, list after list.
LEMMA RowsArePlaced ==
  ASSUME NEW b, NEW B, Good(b, B), NEW found, NEW in, NEW k
  PROVE  RowsLaid(RowsFor(b, found, in, k), VisibleOrder(b), ListsInView(b), b, found, in, k)
<1> DEFINE v == ListsInView(b)
           n == Len(v)
           q == [l \in DOMAIN v |-> v[l].scenarios]
           R(l) == RowsOf(v, l, b, found, in, k)
           t == [l \in DOMAIN v |-> R(l)]
           F == FlattenSeq(q)
           G == FlattenSeq(t)
<1>1. IsArray(v) /\ n \in Nat /\ DOMAIN v = 1..n /\ \A l \in 1..n : IsArray(v[l].scenarios)
  BY InView, ArrayParts DEF InOrder
<1>2. RowsFor(b, found, in, k) = G /\ VisibleOrder(b) = F
  BY DEF RowsFor, Projection, VisibleOrder, EntriesIn
<1>3. \A l \in 1..n : /\ q[l] = v[l].scenarios /\ IsArray(q[l]) /\ Len(q[l]) \in Nat
                      /\ t[l] = R(l) /\ IsArray(R(l)) /\ Len(R(l)) = Len(q[l])
  <2> TAKE l \in 1..n
  <2>1. q[l] = v[l].scenarios /\ t[l] = R(l) /\ IsArray(q[l])
    BY <1>1
  <2>2. Len(q[l]) \in Nat /\ DOMAIN v[l].scenarios = 1..Len(q[l])
    BY <2>1, ArrayParts
  <2>3. R(l) = [i \in 1..Len(q[l]) |-> R(l)[i]]
    BY <2>2 DEF RowsOf
  <2> HIDE DEF q, t, R
  <2> QED
    BY <2>1, <2>2, <2>3, ArrayOfLength
<1>4. \A m \in 1..n : Ahead(v, m) = Len(Prefix(q, m)) /\ Ahead(v, m - 1) = Len(Prefix(q, m - 1))
  <2> SUFFICES ASSUME NEW m \in 0..n PROVE EntriesIn(SubSeq(v, 1, m)) = Prefix(q, m)
    BY <1>1 DEF Ahead
  <2>1. SubSeq(v, 1, m) = [l \in 1..m |-> v[l]]
    BY <1>1 DEF IsArray
  <2>2. SubSeq(q, 1, m) = [l \in 1..m |-> q[l]]
    <3>1. q = [l \in 1..n |-> q[l]]
      BY <1>1
    <3> HIDE DEF q
    <3> QED
      BY <1>1, <3>1, ArrayOfLength DEF IsArray
  <2>3. \A l \in 1..m : l \in DOMAIN v
    BY <1>1
  <2>4. [l \in 1..m |-> q[l]] = [l \in 1..m |-> v[l].scenarios]
    BY <2>3
  <2> QED
    BY <2>1, <2>2, <2>4 DEF EntriesIn, Prefix
<1>5. IsArray(q) /\ Len(q) = n /\ DOMAIN q = 1..n /\ IsArray(t) /\ Len(t) = n /\ DOMAIN t = 1..n
  <2>1. q = [l \in 1..n |-> q[l]] /\ t = [l \in 1..n |-> t[l]]
    BY <1>1
  <2> HIDE DEF q, t, n
  <2> QED
    BY <1>1, <2>1, ArrayOfLength
<1> HIDE DEF v, n, q, t, R, F, G
<1>6. /\ IsArray(F) /\ Laid(Starts(q), q, n, F)
      /\ \A m \in 0..n : Len(Prefix(q, m)) \in Nat
      /\ \A m \in 1..n : Starts(q)[m] = Len(Prefix(q, m - 1)) /\ Len(Prefix(q, m)) = Len(Prefix(q, m - 1)) + Len(q[m])
  BY <1>3, <1>5, FlattenLaid DEF F
<1>7. /\ IsArray(G) /\ Laid(Starts(t), t, n, G)
      /\ \A m \in 1..n : Starts(t)[m] = Len(Prefix(t, m - 1)) /\ Len(Prefix(t, m)) = Len(Prefix(t, m - 1)) + Len(t[m])
  BY <1>3, <1>5, FlattenLaid DEF G
<1>8. \A m \in 0..n : Len(Prefix(t, m)) = Len(Prefix(q, m))
  <2> DEFINE S == {m \in 0..n : Len(Prefix(t, m)) = Len(Prefix(q, m))}
  <2>1. Len(Prefix(t, 0)) = 0 /\ Len(Prefix(q, 0)) = 0
    BY <1>3, <1>5, FlattenMore
  <2>2. ASSUME NEW m \in 1..n, m - 1 \in S PROVE m \in S
    <3>1. Len(t[m]) = Len(q[m]) /\ m \in 0..n /\ Len(Prefix(t, m - 1)) = Len(Prefix(q, m - 1))
      BY <1>1, <1>3, <2>2
    <3> QED
      BY <1>6, <1>7, <3>1
  <2>4. 0 \in S
    BY <1>1, <2>1
  <2>3. \A m \in 0..n : m \in S
    <3> HIDE DEF S
    <3> QED
      BY <1>1, <2>2, <2>4, UpTo
  <2> QED
    BY <2>3
<1>9. Len(G) = Len(F) /\ \A l \in 1..n : Starts(t)[l] = Ahead(v, l - 1) /\ Starts(q)[l] = Ahead(v, l - 1)
  <2>1. n \in 0..n /\ \A l \in 1..n : l - 1 \in 0..n
    BY <1>1
  <2>2. Prefix(q, n) = F /\ Prefix(t, n) = G
    BY <1>3, <1>5, FlattenMore DEF F, G
  <2>3. Len(G) = Len(F)
    BY <1>8, <2>1, <2>2
  <2>4. ASSUME NEW l \in 1..n
        PROVE  Starts(t)[l] = Len(Prefix(q, l - 1)) /\ Starts(q)[l] = Len(Prefix(q, l - 1))
    <3>1. Len(Prefix(t, l - 1)) = Len(Prefix(q, l - 1))
      BY <1>8, <2>1
    <3> QED
      BY <1>6, <1>7, <3>1
  <2> QED
    BY <1>4, <2>3, <2>4
<1>10. /\ \A l \in 1..n : Ahead(v, l - 1) \in Nat /\ Ahead(v, l) = Ahead(v, l - 1) + Len(q[l])
       /\ \A l \in 1..n : Ahead(v, l) <= Len(G)
       /\ \A l, m \in 1..n : l < m => Ahead(v, l) <= Ahead(v, m - 1)
  BY <1>4, <1>6, <1>9 DEF Laid
<1>11. \A l \in 1..n : \A i \in 1..Len(q[l]) :
         /\ Ahead(v, l - 1) + i \in 1..Len(G)
         /\ G[Ahead(v, l - 1) + i] = R(l)[i] /\ F[Ahead(v, l - 1) + i] = q[l][i]
  <2>1. \A l \in 1..n : \A i \in 1..Len(q[l]) : Starts(q)[l] + i \in 1..Len(F) /\ F[Starts(q)[l] + i] = q[l][i]
    BY <1>6 DEF Laid
  <2>2. \A l \in 1..n : \A i \in 1..Len(t[l]) : G[Starts(t)[l] + i] = t[l][i]
    BY <1>7 DEF Laid
  <2> QED
    BY <1>3, <1>9, <2>1, <2>2, SMTT(30)
<1>12. \A p \in 1..Len(G) : \E l \in 1..n : p - Ahead(v, l - 1) \in 1..Len(q[l])
  BY <1>6, <1>9 DEF Laid
<1>13. RowsLaid(G, F, v, b, found, in, k)
  <2>1. DOMAIN v = 1..n /\ IsArray(G) /\ Len(G) = Len(F) /\ Len(G) \in Nat /\ \A l \in 1..n : l \in Nat
    BY <1>1, <1>7, <1>9, ArrayParts
  <2>2. \A l \in 1..n : /\ Len(v[l].scenarios) \in Nat /\ IsArray(v[l].scenarios) /\ Ahead(v, l - 1) \in Nat
                        /\ Ahead(v, l) \in Nat /\ Ahead(v, l) = Ahead(v, l - 1) + Len(v[l].scenarios)
    <3> TAKE l \in 1..n
    <3>1. Len(v[l].scenarios) \in Nat /\ IsArray(v[l].scenarios)
      BY <1>1, ArrayParts
    <3>2. Ahead(v, l - 1) \in Nat /\ Ahead(v, l) = Ahead(v, l - 1) + Len(v[l].scenarios)
      BY <1>3, <1>10
    <3> QED
      BY <3>1, <3>2
  <2>3. \A p \in 1..Len(G) : \E l \in 1..n : \E i \in 1..Len(v[l].scenarios) : p = Ahead(v, l - 1) + i
    <3> TAKE p \in 1..Len(G)
    <3>1. PICK l \in 1..n : p - Ahead(v, l - 1) \in 1..Len(q[l])
      BY <1>12
    <3>2. p = Ahead(v, l - 1) + (p - Ahead(v, l - 1))
      BY <2>2
    <3> QED
      BY <1>3, <3>1, <3>2
  <2>4. \A l \in 1..n : \A i \in 1..Len(v[l].scenarios) :
          /\ Ahead(v, l - 1) + i \in 1..Len(G)
          /\ G[Ahead(v, l - 1) + i] = R(l)[i] /\ F[Ahead(v, l - 1) + i] = v[l].scenarios[i]
    BY <1>3, <1>11
  <2> QED
    BY <1>10, <2>1, <2>2, <2>3, <2>4, ZenonT(40) DEF RowsLaid, R
<1> QED
  BY <1>2, <1>13 DEF v

\* What the row at p, where its category ends at end, offers.
RowOffers(T, p, row, end) ==
  RowInfo(T, p) = IF row.sub # NoGroup THEN [position |-> p - 1 - row.subStart, size |-> row.subLength]
                  ELSE [position |-> p - 1 - row.start, size |-> DirectEnd(T.rows, row.start, end) - row.start]

LEMMA RowInfoIs ==
  ASSUME NEW T, NEW p PROVE RowOffers(T, p, T.rows[p], Min({T.rows[p].start + T.rows[p].length, Len(T.rows)}))
BY DEF RowOffers, RowInfo

\* What a row offers for moving is the place of its entry in the list that holds it.
Offered(T, v, l, i) == RowInfo(T, Ahead(v, l - 1) + i) = [position |-> i - 1, size |-> Len(v[l].scenarios)]
LEMMA RowInfoExact ==
  ASSUME NEW v, Together(v), IsArray(v), NEW order, NEW b, NEW found, NEW in, NEW k, NEW T,
         RowsLaid(T.rows, order, v, b, found, in, k),
         NEW l \in DOMAIN v, NEW i \in 1..Len(v[l].scenarios)
  PROVE  Offered(T, v, l, i)
<1> SUFFICES RowInfo(T, Ahead(v, l - 1) + i) = [position |-> i - 1, size |-> Len(v[l].scenarios)]
  BY DEF Offered
<1> DEFINE N == Len(T.rows)
           s == Ahead(v, l - 1)
           n == Len(v[l].scenarios)
           p == s + i
           row == T.rows[p]
           to == Min({row.start + row.length, N})
           C == {m \in DOMAIN v : v[m].category = v[l].category}
           M == Max(C)
           sub(x) == IF v[x].group # v[x].category THEN v[x].group ELSE NoGroup
           z == Ahead(v, l)
<1>1. /\ N \in Nat /\ s \in Nat /\ n \in Nat /\ i \in Nat /\ z = s + n /\ z <= N
      /\ \A x \in DOMAIN v : /\ x \in Nat /\ Ahead(v, x) \in Nat /\ Len(v[x].scenarios) \in Nat
                             /\ Ahead(v, x - 1) \in Nat /\ Ahead(v, x) = Ahead(v, x - 1) + Len(v[x].scenarios)
      /\ \A x, y \in DOMAIN v : x < y => Ahead(v, x) <= Ahead(v, y - 1)
  <2>1. N \in Nat /\ \A x, y \in DOMAIN v : x < y => Ahead(v, x) <= Ahead(v, y - 1)
    BY DEF RowsLaid
  <2>2. \A x \in DOMAIN v : /\ x \in Nat /\ Ahead(v, x) \in Nat /\ Len(v[x].scenarios) \in Nat
                            /\ Ahead(v, x - 1) \in Nat /\ Ahead(v, x) = Ahead(v, x - 1) + Len(v[x].scenarios)
                            /\ Ahead(v, x) <= N
    BY DEF RowsLaid
  <2> HIDE DEF N
  <2> QED
    BY <2>1, <2>2
<1>2. \A x \in DOMAIN v : \A j \in 1..Len(v[x].scenarios) : T.rows[Ahead(v, x - 1) + j].sub = sub(x)
  <2> TAKE x \in DOMAIN v
  <2> TAKE j \in 1..Len(v[x].scenarios)
  <2>1. j \in DOMAIN v[x].scenarios /\ T.rows[Ahead(v, x - 1) + j] = RowsOf(v, x, b, found, in, k)[j]
    BY ArrayParts DEF RowsLaid
  <2> QED
    BY <2>1 DEF RowsOf
<1>3. row = RowsOf(v, l, b, found, in, k)[i] /\ i \in DOMAIN v[l].scenarios
  BY ArrayParts DEF RowsLaid
<1>6. RowOffers(T, p, row, to)
  BY RowInfoIs
<1> HIDE DEF s, n, z, N, row, to, p
<1>4. CASE v[l].group # v[l].category
  <2>1. row.sub # NoGroup /\ row.subStart = s /\ row.subLength = n
    BY <1>3, <1>4 DEF RowsOf, Together, Ahead, s, n
  <2>2. p - 1 - s = i - 1
    BY <1>1 DEF p
  <2> QED
    BY <1>6, <2>1, <2>2 DEF RowOffers, p, s, n
<1>5. CASE v[l].group = v[l].category
  <2>1. Min(C) = l
    BY <1>1, <1>5 DEF Together, Min
  <2>2. M \in C /\ \A m \in C : M >= m
    <3> DEFINE D == {Len(v) - m : m \in C}
    <3>1. Len(v) \in Nat /\ DOMAIN v = 1..Len(v) /\ l \in C
      BY ArrayParts
    <3>2. D \subseteq Nat /\ D # {}
      BY <3>1
    <3>3. PICK h \in D : \A d \in D : h <= d
      <4> HIDE DEF D
      <4> QED
        BY <3>2, LeastExists
    <3>4. PICK x \in C : h = Len(v) - x
      OBVIOUS
    <3>5. \A m \in C : x >= m
      <4> TAKE m \in C
      <4>1. Len(v) - x <= Len(v) - m
        BY <3>3, <3>4
      <4> QED
        BY <3>1, <4>1
    <3> QED
      BY <3>4, <3>5 DEF Max
  <2> DEFINE end == Ahead(v, M)
  <2> HIDE DEF M
  <2>3. row.sub = NoGroup /\ row.start = s /\ row.length = end - s
    BY <1>3, <1>5, <2>1 DEF RowsOf, Ahead, M, s
  <2>4. l <= M /\ end <= N /\ z <= end /\ end \in Nat
    <3>1. M \in DOMAIN v /\ l \in C /\ \A x \in DOMAIN v : Ahead(v, x) <= N
      BY <2>2 DEF RowsLaid, N
    <3> QED
      BY <1>1, <2>2, <3>1 DEF z
  <2>5. \A m \in (s + 1)..z : T.rows[m].sub = NoGroup
    <3> TAKE m \in (s + 1)..z
    <3>1. m - s \in 1..n /\ m = s + (m - s)
      BY <1>1
    <3>2. T.rows[s + (m - s)].sub = NoGroup
      BY <1>2, <1>5, <3>1 DEF s, n
    <3> QED
      BY <3>1, <3>2
  <2>6. ASSUME z < end PROVE T.rows[z + 1].sub # NoGroup
    <3>1. z + 1 \in 1..N
      BY <1>1, <2>4, <2>6
    <3>2. \A y \in 1..N : \E x \in DOMAIN v : \E j \in 1..Len(v[x].scenarios) : y = Ahead(v, x - 1) + j
      BY DEF RowsLaid, N
    <3>3. PICK x \in DOMAIN v : \E j \in 1..Len(v[x].scenarios) : z + 1 = Ahead(v, x - 1) + j
      BY <3>1, <3>2
    <3>9. PICK j \in 1..Len(v[x].scenarios) : z + 1 = Ahead(v, x - 1) + j
      BY <3>3
    <3>4. /\ x \in Nat /\ l \in Nat /\ Ahead(v, x - 1) + 1 <= z + 1 /\ z + 1 <= Ahead(v, x) /\ Ahead(v, x) \in Nat
          /\ x < l => Ahead(v, x) <= s
      <4>1. x \in Nat /\ l \in Nat /\ Ahead(v, x) \in Nat /\ (x < l => Ahead(v, x) <= s)
        BY <1>1 DEF s
      <4>2. z \in Nat /\ Ahead(v, x - 1) \in Nat /\ Ahead(v, x) = Ahead(v, x - 1) + Len(v[x].scenarios)
        BY <1>1
      <4> QED
        BY <1>1, <3>9, <4>1, <4>2
    <3>5. l < x
      BY <1>1, <3>4 DEF z
    <3>6. x <= M
      <4>1. M \in Nat /\ (M < x => end <= Ahead(v, x - 1)) /\ Ahead(v, x - 1) \in Nat
        BY <1>1, <2>2
      <4> QED
        BY <1>1, <2>4, <2>6, <3>4, <4>1
    <3>7. v[x].category = v[l].category /\ v[x].group # v[x].category
      BY <2>2, <3>4, <3>5, <3>6 DEF Together
    <3>8. v[x].group # NoGroup
      BY <3>7 DEF Together
    <3> QED
      BY <1>2, <3>9, <3>7, <3>8
  <2>7. DirectEnd(T.rows, s, end) = z /\ z - s = n /\ p - 1 - s = i - 1
    <3> DEFINE Ends(h) == /\ \A m \in (s + 1)..h : T.rows[m].sub = NoGroup
                          /\ h < end => T.rows[h + 1].sub # NoGroup
    <3>1. ASSUME NEW h \in s..end PROVE Ends(h) <=> h = z
      <4>1. h \in Nat /\ (h < z => h + 1 \in (s + 1)..z /\ h < end) /\ (z < h => z + 1 \in (s + 1)..h /\ z < end)
        BY <1>1, <2>4
      <4>2. Ends(z)
        BY <2>5, <2>6
      <4>3. ASSUME Ends(h) PROVE ~(h < z) /\ ~(z < h)
        BY <2>5, <2>6, <4>1, <4>3
      <4> HIDE DEF Ends, end
      <4> QED
        BY <1>1, <4>1, <4>2, <4>3
    <3>2. z \in s..end /\ z - s = n /\ p - 1 - s = i - 1
      BY <1>1, <2>4 DEF p
    <3>3. DirectEnd(T.rows, s, end) = CHOOSE h \in s..end : Ends(h)
      BY DEF DirectEnd
    <3> HIDE DEF Ends, end
    <3> QED
      BY <3>1, <3>2, <3>3
  <2>8. to = end
    <3>1. row.start + row.length = end
      BY <1>1, <2>3, <2>4
    <3> HIDE DEF end
    <3> QED
      BY <1>1, <2>4, <3>1 DEF Min, to
  <2> HIDE DEF end
  <2> QED
    BY <1>6, <2>3, <2>7, <2>8 DEF RowOffers, p, s, n
<1> QED
  BY <1>4, <1>5

-----------------------------------------------------------------------------
(* The session (benchmark_manager_vm.cpp).                                 *)

\* Fewer banned cells are banned too.
LEMMA GoodWithFewer ==
  ASSUME NEW b, NEW B, Good(b, B), NEW B2, B2 \subseteq B
  PROVE  Good(b, B2)
<1> DEFINE T == IdsOf(b.tiers)
<1>1. GoodBody(b.uncategorized, b.categories, T, B)
  BY DEF Good
<1>2. \A l : GoodList(l, T, B) => GoodList(l, T, B2)
  BY ListGrows
<1>3. \A s : GoodSub(s, T, B) => GoodSub(s, T, B2)
  BY <1>2 DEF GoodSub
<1>4. \A c : GoodCategory(c, T, B) => GoodCategory(c, T, B2)
  BY <1>2, <1>3 DEF GoodCategory
<1>5. GoodBody(b.uncategorized, b.categories, T, B2)
  BY <1>1, <1>2, <1>4 DEF GoodBody
<1> QED
  BY <1>5 DEF Good

\* A benchmark that is sound with the text kept beside it, and whose ids are in the bound.
AreCells(keys) == \A k \in keys : k = <<k[1], k[2]>>
Safe(b, in) == Good(b, DOMAIN in) /\ AreCells(DOMAIN in) /\ \A x \in Ids(b) : x \in 1..MaxId

\* The ids of a safe benchmark are ids, and none is that of no group.
LEMMA SafeIds ==
  ASSUME NEW b, NEW in, Safe(b, in)
  PROVE  /\ Good(b, DOMAIN in) /\ NoGroup \notin Ids(b) /\ AllIds(b) = Ids(b)
         /\ \A x \in Ids(b) : IsId(x)
<1>1. Good(b, DOMAIN in) /\ \A x \in Ids(b) : x \in 1..MaxId
  BY DEF Safe
<1>2. \A x \in 1..MaxId : x # 0 /\ IsExpected(x)
  BY ValuesAssumption, BoundsAssumption
<1> QED
  BY <1>1, <1>2, GoodIsSound DEF NoGroup, IsId

\* The table's map is that of its rows, the first with each entry; its rows and the focus are the draft's.
RowMap(rows) ==
  [e \in {rows[i].entry : i \in DOMAIN rows} |-> (CHOOSE i \in DOMAIN rows : rows[i].entry = e) - 1]
TableShown ==
  /\ IsArray(table.rows) /\ table.rowOf = RowMap(table.rows)
  /\ draft # None => \A i \in DOMAIN table.rows : table.rows[i].entry \in EntryIds(draft)
IsCell(c) == c = [entry |-> c.entry, tier |-> c.tier, column |-> c.column]
FocusShown == IsCell(cell) /\ (draft # None => cell.entry \in EntryIds(draft) \cup {0})

\* The session: the draft, the steps that can be undone, the baseline, what the profile knows, and
\* what is shown.
SessionSafe ==
  /\ HistoryIsSequence
  /\ draft # None => Safe(draft, inputs)
  /\ \A i \in DOMAIN history : Safe(history[i].draft, history[i].inputs) /\ IsCell(history[i].cell)
  /\ baseline # None => Safe(baseline, NoInputs)
  /\ IsCatalogue(known)
  /\ TableShown /\ FocusShown

LEMMA MinOfTwo == ASSUME NEW x \in Int, NEW y \in Int PROVE Min({x, y}) = IF x <= y THEN x ELSE y
<1> DEFINE m == IF x <= y THEN x ELSE y
<1>1. m \in {x, y} /\ (\A h \in {x, y} : m <= h) /\ m \in Int
  OBVIOUS
<1>2. \A h \in {x, y} : (\A k \in {x, y} : h <= k) => h = m
  OBVIOUS
<1> HIDE DEF m
<1> QED
  BY <1>1, <1>2 DEF Min, m

\* The rows of a sound benchmark show its entries in view order.
LEMMA RowEntries ==
  ASSUME NEW b, NEW B, Good(b, B), NEW found, NEW in, NEW k, NEW rows, rows = RowsFor(b, found, in, k)
  PROVE  /\ IsArray(rows) /\ DOMAIN rows = DOMAIN VisibleOrder(b)
         /\ \A p \in DOMAIN rows : rows[p].entry = VisibleOrder(b)[p].id /\ rows[p].entry \in EntryIds(b)
<1> DEFINE v == ListsInView(b)
           order == VisibleOrder(b)
<1>1. RowsLaid(rows, order, v, b, found, in, k) /\ IsArray(order) /\ IdsOf(order) = EntryIds(b)
  BY RowsArePlaced, InView
<1>2. IsArray(rows) /\ DOMAIN rows = 1..Len(rows) /\ DOMAIN order = 1..Len(rows)
  BY <1>1, ArrayParts DEF RowsLaid
<1> HIDE DEF v, order
<1>3. ASSUME NEW p \in 1..Len(rows) PROVE rows[p].entry = order[p].id
  <2>1. PICK l \in DOMAIN v : \E i \in 1..Len(v[l].scenarios) : p = Ahead(v, l - 1) + i
    BY <1>1 DEF RowsLaid
  <2>2. PICK i \in 1..Len(v[l].scenarios) : p = Ahead(v, l - 1) + i
    BY <2>1
  <2>3. rows[p] = RowsOf(v, l, b, found, in, k)[i] /\ order[p] = v[l].scenarios[i] /\ IsArray(v[l].scenarios)
    BY <1>1, <2>2 DEF RowsLaid
  <2>4. i \in DOMAIN v[l].scenarios
    BY <2>3, ArrayParts
  <2>5. RowsOf(v, l, b, found, in, k)[i].entry = v[l].scenarios[i].id
    BY <2>4 DEF RowsOf
  <2> QED
    BY <2>3, <2>5
<1> QED
  BY <1>1, <1>2, <1>3 DEF IdsOf, order

\* However a projection is taken over, the map is that of its rows.
LEMMA MapAnew ==
  ASSUME TableShown, NEW q, IsArray(q.rows)
  PROVE  SetProjection(q).rows = q.rows /\ SetProjection(q).rowOf = RowMap(q.rows)
<1>1. CASE SameShape(table, q)
  <2>1. /\ DOMAIN table.rows = DOMAIN q.rows
        /\ \A i \in DOMAIN q.rows : table.rows[i].entry = q.rows[i].entry
    BY <1>1, ArrayParts DEF SameShape, TableShown
  <2>2. RowMap(table.rows) = RowMap(q.rows)
    <3> DEFINE at(rows, e) == CHOOSE i \in DOMAIN rows : rows[i].entry = e
               entries(rows) == {rows[i].entry : i \in DOMAIN rows}
    <3>1. \A e : at(table.rows, e) = at(q.rows, e)
      <4> TAKE e
      <4>1. \A i : (i \in DOMAIN table.rows /\ table.rows[i].entry = e) <=> (i \in DOMAIN q.rows /\ q.rows[i].entry = e)
        BY <2>1
      <4> QED
        BY <4>1, Zenon
    <3>2. entries(table.rows) = entries(q.rows)
      BY <2>1
    <3>3. \A rows : RowMap(rows) = [e \in entries(rows) |-> at(rows, e) - 1]
      BY DEF RowMap
    <3> HIDE DEF at, entries
    <3> QED
      BY <3>1, <3>2, <3>3
  <2> QED
    BY <1>1, <2>2 DEF SetProjection, TableShown
<1>2. CASE ~SameShape(table, q)
  BY <1>2 DEF SetProjection, RowMap
<1> QED
  BY <1>1, <1>2

\* The table of a sound draft shows it.
LEMMA ProjectionShows ==
  ASSUME TableShown, NEW b, NEW B, Good(b, B), NEW found, NEW in, NEW k,
         draft' = b, table' = SetProjection(Projection(b, found, in, k))
  PROVE  TableShown'
<1> DEFINE q == Projection(b, found, in, k)
<1>1. q.rows = RowsFor(b, found, in, k)
  BY DEF RowsFor
<1> HIDE DEF q
<1>2. IsArray(q.rows) /\ \A p \in DOMAIN q.rows : q.rows[p].entry \in EntryIds(b)
  BY <1>1, RowEntries
<1>3. table'.rows = q.rows /\ table'.rowOf = RowMap(q.rows)
  BY <1>2, MapAnew DEF q
<1> QED
  BY <1>2, <1>3 DEF TableShown

\* A focus that is restored is on a row of the draft, or on none.
LEMMA RestoredFocus ==
  ASSUME TableShown, NEW b, NEW B, Good(b, B), NEW ids, NEW at, IsCell(at), NEW c,
         c = Restored(b, ids, at, RowFor(at.entry)).cell
  PROVE  IsCell(c) /\ c.entry \in EntryIds(b) \cup {0}
<1> DEFINE order == VisibleOrder(b)
           back == RowFor(at.entry)
           low == Max({back, 0})
           most == Len(order) - 1
           near == Min({low, most})
           onRow == IF order = <<>> THEN NoCell
                    ELSE IF at.entry = 0 \/ at.entry \in EntryIds(b) THEN at
                    ELSE [at EXCEPT !.entry = order[near + 1].id]
<1>1. back \in Int
  <2>1. CASE at.entry \in DOMAIN table.rowOf
    <3>1. /\ at.entry \in {table.rows[i].entry : i \in DOMAIN table.rows}
          /\ back = (CHOOSE i \in DOMAIN table.rows : table.rows[i].entry = at.entry) - 1
      BY <2>1 DEF RowFor, RowMap, TableShown
    <3>2. DOMAIN table.rows \subseteq Int
      BY ArrayParts DEF TableShown
    <3> HIDE DEF back
    <3>3. (CHOOSE i \in DOMAIN table.rows : table.rows[i].entry = at.entry) \in DOMAIN table.rows
      BY <3>1
    <3> QED
      BY <3>1, <3>2, <3>3
  <2>2. CASE at.entry \notin DOMAIN table.rowOf
    BY <2>2 DEF RowFor
  <2> QED
    BY <2>1, <2>2
<1>2. IsArray(order) /\ IdsOf(order) = EntryIds(b)
  BY InView
<1> HIDE DEF order, back
<1>3. ASSUME order # <<>> PROVE order[near + 1].id \in EntryIds(b)
  <2>1. Len(order) \in Nat /\ DOMAIN order = 1..Len(order) /\ Len(order) # 0
    BY <1>2, <1>3, ArrayParts, EmptyArray, SameArrays
  <2>2. near + 1 \in 1..Len(order)
    <3>1. low \in Nat /\ most \in Nat /\ most + 1 = Len(order)
      BY <1>1, <2>1 DEF Max
    <3> HIDE DEF low, most
    <3>2. near = IF low <= most THEN low ELSE most
      BY <3>1, MinOfTwo
    <3> QED
      BY <3>1, <3>2
  <2> QED
    BY <1>2, <2>1, <2>2 DEF IdsOf
<1>4. IsCell(onRow) /\ onRow.entry \in EntryIds(b) \cup {0}
  <2> HIDE DEF near
  <2> QED
    BY <1>3 DEF IsCell, NoCell
<1>5. c = IF onRow.tier = 0 \/ onRow.tier \in TierIds(b) THEN onRow
          ELSE [onRow EXCEPT !.tier = 0, !.column = "scenario"]
  BY DEF Restored, order, back
<1> HIDE DEF onRow
<1> QED
  BY <1>4, <1>5 DEF IsCell

\* An empty table has no row, and no cell is a cell.
LEMMA NothingShown ==
  /\ IsArray(NoTable.rows) /\ NoTable.rowOf = RowMap(NoTable.rows) /\ DOMAIN NoTable.rows = {}
  /\ IsCell(NoCell) /\ NoCell.entry = 0
<1>1. NoTable.rows = <<>> /\ DOMAIN NoTable.rows = {} /\ NoTable.rowOf = [e \in {} |-> 0]
  BY DEF NoTable
<1>2. {NoTable.rows[i].entry : i \in DOMAIN NoTable.rows} = {}
  BY <1>1
<1>3. RowMap(NoTable.rows) = [e \in {} |-> 0]
  BY <1>2 DEF RowMap
<1> QED
  BY <1>1, <1>3, EmptyArray DEF IsCell, NoCell

\* What a recomputation leaves is shown.
LEMMA RecomputeShows ==
  ASSUME TableShown, NEW b, NEW B, Good(b, B), NEW base, NEW in, NEW ids, NEW at, IsCell(at),
         Recompute(b, base, in, ids, at)
  PROVE  TableShown' /\ FocusShown'
<1>1. /\ draft' = b /\ cell' = Restored(b, ids, at, RowFor(at.entry)).cell
      /\ table' = SetProjection(Projection(b, ValidateBenchmark(b), Pruned(b, in), known))
  BY DEF Recompute
<1> QED
  BY <1>1, ProjectionShows, RestoredFocus DEF FocusShown

\* The ids in use are within the bound, and those of the draft are among them.
LEMMA InUseIsBounded ==
  ASSUME SessionSafe
  PROVE  (\A x \in InUse : x \in 1..MaxId) /\ (draft # None => \A x \in Ids(draft) : x \in InUse)
<1> DEFINE D == ({draft, baseline} \cup {history[i].draft : i \in DOMAIN history}) \ {None}
<1>1. \A b \in D : \E in : Safe(b, in)
  BY DEF SessionSafe
<1>2. \A b \in D : \A x \in AllIds(b) : x \in 1..MaxId
  <2> TAKE b \in D
  <2>1. PICK in : Safe(b, in)
    BY <1>1
  <2> QED
    BY <2>1, SafeIds DEF Safe
<1>3. InUse = UNION {AllIds(b) : b \in D}
  BY DEF InUse
<1>4. draft # None => draft \in D
  OBVIOUS
<1> HIDE DEF D
<1>5. \A x \in InUse : x \in 1..MaxId
  BY <1>2, <1>3
<1>6. ASSUME draft # None PROVE \A x \in Ids(draft) : x \in InUse
  BY <1>6, SafeIds, <1>3, <1>4 DEF SessionSafe
<1> QED
  BY <1>5, <1>6

\* New ids are as many as asked for, all different, and none that is in use.
LEMMA FreshIdsAreFresh ==
  ASSUME SessionSafe, NEW n \in Nat
  PROVE  /\ IsArray(FreshIds(n)) /\ Len(FreshIds(n)) = n /\ DOMAIN FreshIds(n) = 1..n
         /\ \A i, j \in 1..n : FreshIds(n)[i] = FreshIds(n)[j] => i = j
         /\ \A i \in 1..n : /\ FreshIds(n)[i] \in 1..(MaxId + n)
                             /\ FreshIds(n)[i] # NoGroup /\ (draft # None => FreshIds(n)[i] \notin Ids(draft))
<1> DEFINE m == MaxId + n
           free == (1..m) \ InUse
           new == (MaxId + 1)..m
           p == [k \in 1..Cardinality(free) |-> CHOOSE id \in free : Cardinality({f \in free : f < id}) = k - 1]
           q == FreshIds(n)
<1>1. MaxId \in Nat /\ m \in Nat
  BY BoundsAssumption
<1>2. free \subseteq Nat /\ IsFiniteSet(free) /\ free \subseteq 1..m
  <2>1. IsFiniteSet(1..m)
    BY <1>1, FS_Interval
  <2>2. free \in SUBSET (1..m)
    OBVIOUS
  <2> HIDE DEF free
  <2>3. IsFiniteSet(free)
    BY <2>1, <2>2, FS_Subset
  <2> QED
    BY <1>1, <2>2, <2>3
<1>3. n <= Cardinality(free) /\ Cardinality(free) \in Nat
  <2>1. new \in SUBSET free
    BY <1>1, InUseIsBounded
  <2>2. Cardinality(new) = n
    <3>1. MaxId + 1 \in Int /\ m \in Int /\ (MaxId + 1 > m => n = 0) /\ m - (MaxId + 1) + 1 = n
      BY <1>1
    <3>2. Cardinality(new) = IF MaxId + 1 > m THEN 0 ELSE m - (MaxId + 1) + 1
      <4> DEFINE a == MaxId + 1
      <4>1. a \in Int /\ m \in Int
        BY <3>1
      <4> HIDE DEF a, m
      <4>2. Cardinality(a..m) = IF a > m THEN 0 ELSE m - a + 1
        BY <4>1, FS_Interval
      <4> QED
        BY <4>2 DEF a
    <3> HIDE DEF new
    <3> QED
      BY <3>1, <3>2
  <2> HIDE DEF new, free
  <2>3. Cardinality(new) <= Cardinality(free)
    BY <1>2, <2>1, FS_Subset
  <2> QED
    BY <1>2, <2>2, <2>3, FS_CardinalityType
<1>4. Takes(p, free)
  <2> HIDE DEF free
  <2> QED
    BY <1>2, RankedTakes
<1>5. q = [k \in 1..n |-> CHOOSE id \in free : Cardinality({f \in free : f < id}) = k - 1]
  BY DEF FreshIds
<1> HIDE DEF free
<1>6. \A k \in 1..n : k \in 1..Cardinality(free) /\ q[k] = p[k]
  <2>1. \A k \in 1..n : k \in 1..Cardinality(free)
    BY <1>3
  <2>2. \A k \in 1..n : q[k] = CHOOSE id \in free : Cardinality({f \in free : f < id}) = k - 1
    BY <1>5
  <2> HIDE DEF q
  <2> QED
    BY <2>1, <2>2
<1> HIDE DEF p
<1>7. IsArray(q) /\ Len(q) = n /\ DOMAIN q = 1..n
  <2>1. q = [k \in 1..n |-> q[k]]
    BY <1>5
  <2> HIDE DEF q
  <2> QED
    BY <2>1, ArrayOfLength
<1> HIDE DEF q
<1>8. /\ \A k \in 1..Cardinality(free) : p[k] \in free
      /\ \A k, l \in 1..Cardinality(free) : k < l => p[k] < p[l]
  BY <1>4 DEF Takes
<1>9. \A k \in 1..n : q[k] \in free
  BY <1>6, <1>8
<1>10. ASSUME NEW i \in 1..n, NEW j \in 1..n, q[i] = q[j] PROVE i = j
  <2>1. p[i] = p[j] /\ p[i] \in Nat /\ i \in 1..Cardinality(free) /\ j \in 1..Cardinality(free)
    BY <1>2, <1>6, <1>8, <1>10
  <2>2. ~(i < j) /\ ~(j < i)
    BY <1>8, <2>1
  <2> QED
    BY <2>2
<1>11. \A k \in 1..n : q[k] \in 1..m /\ q[k] # NoGroup /\ (draft # None => q[k] \notin Ids(draft))
  <2> TAKE k \in 1..n
  <2>1. q[k] \in 1..m /\ q[k] \notin InUse
    BY <1>9 DEF free
  <2>2. q[k] # NoGroup
    BY <1>1, <2>1 DEF NoGroup
  <2> QED
    BY <2>1, <2>2, InUseIsBounded
<1> QED
  BY <1>7, <1>10, <1>11 DEF q

\* A new id is none of the draft's.
LEMMA FreshIsFresh ==
  ASSUME SessionSafe, draft # None
  PROVE  Fresh \notin Ids(draft) /\ Fresh # NoGroup
<1>1. 1 \in Nat /\ 1 \in 1..1
  OBVIOUS
<1> QED
  BY <1>1, FreshIdsAreFresh DEF Fresh

\* Pruning only removes retained texts.
LEMMA PrunedFewer == ASSUME NEW b, NEW in PROVE DOMAIN Pruned(b, in) \subseteq DOMAIN in
BY DEF Pruned

\* No retained text is in no cell.
LEMMA NoInputsAreNone == DOMAIN NoInputs = {}
BY DEF NoInputs

\* A benchmark that is committed is one whose ids are in the bound.
LEMMA CommitSafe ==
  ASSUME SessionSafe, draft # None, NEW b, NEW in, Good(b, DOMAIN in), AreCells(DOMAIN in), Commit(b, in)
  PROVE  SessionSafe'
<1> DEFINE step == [draft |-> draft, inputs |-> inputs, selected |-> selected, cell |-> cell]
<1>1. /\ history' = Append(history, step) /\ AllIds(b) \subseteq 1..MaxId
      /\ draft' = b /\ baseline' = baseline /\ inputs' = Pruned(b, in) /\ known' = known
  BY DEF Commit, Recompute
<1>2. Safe(draft', inputs')
  BY <1>1, PrunedFewer, GoodWithFewer, GoodIsSound DEF AreCells, Safe
<1>3. step.draft = draft /\ step.inputs = inputs /\ step.cell = cell
  OBVIOUS
<1> HIDE DEF step
<1>4. /\ HistoryIsSequence'
      /\ \A i \in DOMAIN history' : history'[i] = step \/ (i \in DOMAIN history /\ history'[i] = history[i])
  BY <1>1, AppendSteps DEF SessionSafe, HistoryIsSequence
<1>5. \A i \in DOMAIN history' : Safe(history'[i].draft, history'[i].inputs) /\ IsCell(history'[i].cell)
  BY <1>3, <1>4 DEF SessionSafe, FocusShown
<1>6. TableShown' /\ FocusShown'
  BY RecomputeShows DEF Commit, SessionSafe, FocusShown
<1> QED
  BY <1>1, <1>2, <1>4, <1>5, <1>6 DEF SessionSafe

\* The session stays safe when an edit's results are sound with the retained texts.
LEMMA EditSafe ==
  ASSUME SessionSafe, NEW results, draft # None => \A b \in results : Good(b, DOMAIN inputs), Edit(results)
  PROVE  SessionSafe'
<1>1. draft # None /\ AreCells(DOMAIN inputs) /\ \E b \in results : Commit(b, inputs)
  BY DEF Edit, MayEdit, SessionSafe, Safe
<1> QED
  BY <1>1, CommitSafe

\* Undo goes back to a step that was safe.
LEMMA UndoSafe == ASSUME SessionSafe, Undo PROVE SessionSafe'
<1> DEFINE n == Len(history)
           b == history[n].draft
           in == history[n].inputs
<1>1. /\ history # <<>> /\ history' = SubSeq(history, 1, n - 1)
      /\ draft' = b /\ baseline' = baseline /\ inputs' = Pruned(b, in) /\ known' = known
  BY DEF Undo, Recompute
<1>2. /\ n \in DOMAIN history /\ HistoryIsSequence'
      /\ \A i \in DOMAIN history' : i \in DOMAIN history /\ history'[i] = history[i]
  BY <1>1, FrontSteps DEF SessionSafe, HistoryIsSequence
<1>3. Safe(b, in) /\ IsCell(history[n].cell)
  BY <1>2 DEF SessionSafe
<1>5. TableShown' /\ FocusShown'
  <2> DEFINE anchor == IF history[n].cell = NoCell THEN cell ELSE history[n].cell
             focus == Restored(b, history[n].selected, anchor, RowFor(anchor.entry))
  <2>1. Recompute(b, baseline, in, focus.selected, focus.cell)
    BY DEF Undo
  <2>2. IsCell(anchor) /\ TableShown /\ Good(b, DOMAIN in)
    BY <1>3 DEF SessionSafe, FocusShown, Safe
  <2> HIDE DEF anchor, b, in, n
  <2>3. IsCell(focus.cell)
    BY <2>2, RestoredFocus
  <2> HIDE DEF focus
  <2> QED
    BY <2>1, <2>2, <2>3, RecomputeShows
<1> HIDE DEF b, in, n
<1>4. Safe(draft', inputs')
  BY <1>1, <1>3, PrunedFewer, GoodWithFewer DEF Safe, AreCells
<1> QED
  BY <1>1, <1>2, <1>4, <1>5 DEF SessionSafe

\* A session that begins with a safe benchmark is safe.
LEMMA AdoptSafe ==
  ASSUME SessionSafe, NEW b, NEW base, Safe(b, NoInputs), base = None \/ base = b, Adopt(b, base)
  PROVE  SessionSafe'
<1>1. draft' = b /\ baseline' = base /\ inputs' = NoInputs /\ history' = <<>> /\ known' = known
  BY DEF Adopt
<1>2. HistoryIsSequence' /\ \A i \in DOMAIN history' : FALSE
  BY <1>1 DEF HistoryIsSequence
<1>3. TableShown' /\ FocusShown'
  BY ProjectionShows, NothingShown DEF Adopt, SessionSafe, Safe, FocusShown
<1> QED
  BY <1>1, <1>2, <1>3 DEF SessionSafe

\* Without a draft there is nothing that could be unsafe.
LEMMA DiscardSafe == ASSUME SessionSafe, Discard PROVE SessionSafe'
<1>1. /\ draft' = None /\ baseline' = None /\ history' = <<>> /\ known' = known
      /\ table' = NoTable /\ cell' = NoCell
  BY DEF Discard
<1>2. HistoryIsSequence' /\ \A i \in DOMAIN history' : FALSE
  BY <1>1 DEF HistoryIsSequence
<1> QED
  BY <1>1, <1>2, NothingShown DEF SessionSafe, TableShown, FocusShown

\* What is saved is the draft without the banned scores.
LEMMA SaveSafe == ASSUME SessionSafe, Save PROVE SessionSafe'
<1> DEFINE c == AutoMapped(known, Normalized)
<1>1. /\ draft # None /\ draft' = c /\ baseline' = c /\ inputs' = Pruned(c, NoInputs)
      /\ history' = <<>> /\ known' = known
  BY DEF Save, Recompute
<1>2. Safe(draft, inputs) /\ IsCatalogue(known)
  BY <1>1 DEF SessionSafe
<1>3. Good(draft, DOMAIN inputs) /\ NoGroup \notin Ids(draft)
  BY <1>2, SafeIds
<1>4. /\ Good(Normalized, DOMAIN inputs) /\ Ids(Normalized) \subseteq Ids(draft)
  BY <1>3, NormalizedKeeps
<1>5. Good(c, DOMAIN inputs) /\ Ids(c) \subseteq Ids(draft)
  BY <1>3, <1>4, <1>2, AutoMappedKeeps
<1> HIDE DEF c
<1>6. Good(c, {}) /\ DOMAIN inputs' = {}
  BY <1>1, <1>5, PrunedFewer, NoInputsAreNone, GoodWithFewer
<1>7. Safe(draft', inputs') /\ Safe(baseline', NoInputs)
  BY <1>1, <1>2, <1>5, <1>6, NoInputsAreNone DEF Safe, AreCells
<1>8. HistoryIsSequence' /\ \A i \in DOMAIN history' : FALSE
  BY <1>1 DEF HistoryIsSequence
<1>9. TableShown' /\ FocusShown'
  BY <1>5, RecomputeShows DEF c, Save, SessionSafe, FocusShown
<1> QED
  BY <1>1, <1>2, <1>7, <1>8, <1>9 DEF SessionSafe

\* An empty profile is a catalogue.
LEMMA NothingKnownIsCatalogue == IsCatalogue(NothingKnown)
<1>1. DOMAIN NothingKnown = {}
  BY DEF NothingKnown
<1>2. UNION {NothingKnown[n] : n \in DOMAIN NothingKnown} = {}
  BY <1>1
<1> QED
  BY <1>1, <1>2, FS_EmptySet DEF IsCatalogue

\* Clicks do not change benchmarks, and a publication brings a catalogue.
LEMMA ClicksSafe == ASSUME SessionSafe, Select \/ Focus \/ Publication PROVE SessionSafe'
<1>1. UNCHANGED <<draft, baseline, inputs, history>>
  BY DEF Select, Focus, Publication
<1>2. IsCatalogue(known')
  <2>1. CASE Select \/ Focus
    BY <2>1 DEF Select, Focus, SessionSafe
  <2>2. CASE Publication
    BY <2>2, CataloguesAssumption, NothingKnownIsCatalogue DEF Publication
  <2> QED
    BY <2>1, <2>2
<1>3. TableShown' /\ FocusShown'
  <2>1. CASE Select
    BY <2>1 DEF Select, SessionSafe, TableShown, FocusShown
  <2>2. CASE Focus
    <3>1. table' = table /\ draft' = draft /\ draft # None /\ cell' \in Anchors
      BY <2>2 DEF Focus
    <3>2. IsCell(cell') /\ (cell'.entry = 0 \/ \E i \in DOMAIN table.rows : cell'.entry = table.rows[i].entry)
      BY <3>1, NothingShown DEF Anchors, IsCell
    <3> QED
      BY <3>1, <3>2 DEF SessionSafe, TableShown, FocusShown
  <2>3. CASE Publication
    <3>1. /\ draft' = draft /\ cell' = cell
          /\ table' = IF draft = None THEN table ELSE SetProjection(Projection(draft, issues, inputs, known'))
      BY <2>3 DEF Publication
    <3>2. TableShown'
      BY <3>1, ProjectionShows DEF SessionSafe, TableShown, Safe
    <3> QED
      BY <3>1, <3>2 DEF SessionSafe, FocusShown
  <2> QED
    BY <2>1, <2>2, <2>3
<1> QED
  BY <1>1, <1>2, <1>3 DEF SessionSafe, HistoryIsSequence

\* A step that changes nothing.
LEMMA StutterSafe == ASSUME SessionSafe, UNCHANGED vars PROVE SessionSafe'
BY DEF SessionSafe, HistoryIsSequence, TableShown, FocusShown, vars

\* There is no draft at first.
LEMMA InitSafe == Init => SessionSafe
<1> SUFFICES ASSUME Init PROVE SessionSafe
  OBVIOUS
<1>1. /\ draft = None /\ baseline = None /\ history = <<>> /\ known = NothingKnown
      /\ table = NoTable /\ cell = NoCell
  BY DEF Init
<1>2. HistoryIsSequence /\ \A i \in DOMAIN history : FALSE
  BY <1>1 DEF HistoryIsSequence
<1> QED
  BY <1>1, <1>2, NothingKnownIsCatalogue, NothingShown DEF SessionSafe, TableShown, FocusShown

\* A benchmark with no tiers and no categories.
LEMMA EmptySafe ==
  ASSUME NEW name, IsExpected(name), NEW entries, GoodList(entries, {}, {}), \A x \in IdsOf(entries) : x \in 1..MaxId
  PROVE  Safe(Empty(name, entries), NoInputs)
<1> DEFINE b == Empty(name, entries)
           none == <<>>
<1>1. IsArray(none) /\ Len(none) = 0 /\ DOMAIN none = {}
  BY EmptyArray, ArrayParts
<1> HIDE DEF none
<1>2. /\ b = [name |-> name, tiers |-> none, uncategorized |-> entries, categories |-> none]
      /\ b.name = name /\ b.tiers = none /\ b.uncategorized = entries /\ b.categories = none
  BY DEF Empty, none
<1> HIDE DEF b
<1>3. IdsOf(none) = {} /\ GoodTiers(none)
  BY <1>1 DEF IdsOf, GoodTiers, Distinct
<1>4. Apart({}, IdsOf(entries), 0, CatParts(none))
  BY DEF Apart
<1>5. GoodBody(entries, none, {}, {})
  BY <1>1, <1>4 DEF GoodBody
<1>6. Good(b, {})
  BY <1>2, <1>3, <1>5 DEF Good
<1>7. \A x \in Ids(b) : x \in IdsOf(entries)
  BY <1>1, <1>2, <1>3 DEF Ids, Held
<1> QED
  BY <1>6, <1>7, NoInputsAreNone DEF Safe, AreCells, b

\* What is opened was loaded, and is mapped to what the profile knows.
LEMMA OpenSafe == ASSUME SessionSafe, OpenBenchmark PROVE SessionSafe'
<1>1. PICK b \in Seeds : Adopt(b, b)
  BY DEF OpenBenchmark
<1>2. IsBenchmark(b) /\ HasStructuralIntegrity(b) /\ AllIds(b) \subseteq 1..MaxId
  BY SeedsAssumption
<1>3. Good(b, {})
  BY <1>2, SoundIsGood
<1>4. AllIds(b) = Ids(b)
  BY <1>3, GoodIsSound
<1>5. Safe(b, NoInputs)
  BY <1>2, <1>3, <1>4, NoInputsAreNone DEF Safe, AreCells
<1> QED
  BY <1>1, <1>5, AdoptSafe

\* A new benchmark is empty.
LEMMA BeginSafe == ASSUME SessionSafe, BeginNewBenchmark PROVE SessionSafe'
<1> DEFINE none == <<>>
<1>1. GoodList(none, {}, {}) /\ \A x \in IdsOf(none) : x \in 1..MaxId
  <2>1. IsArray(none) /\ DOMAIN none = {}
    BY EmptyArray, ArrayParts
  <2> HIDE DEF none
  <2> QED
    BY <2>1 DEF GoodList, Distinct, IdsOf
<1>2. IsExpected(Blank)
  BY ValuesAssumption
<1> HIDE DEF none
<1>3. Safe(Empty(Blank, none), NoInputs)
  BY <1>1, <1>2, EmptySafe
<1> QED
  BY <1>3, AdoptSafe DEF BeginNewBenchmark, none

\* A playlist's scenarios get ids of their own.
LEMMA ImportSafe == ASSUME SessionSafe, ImportPlaylist PROVE SessionSafe'
<1> DEFINE Entries_(p) == [i \in DOMAIN p.scenarios |-> NewEntry(i, p.scenarios[i], <<>>)]
<1>1. PICK p \in Playlists : Adopt(Empty(p.name, Entries_(p)), None)
  BY DEF ImportPlaylist
<1> DEFINE n == Len(p.scenarios)
           ids == [i \in 1..n |-> i]
<1>2. /\ IsExpected(p.name) /\ n \in Nat /\ DOMAIN p.scenarios = 1..n /\ n <= MaxId
      /\ \A i \in 1..n : IsExpected(p.scenarios[i])
  BY PlaylistsAssumption, ArrayParts DEF ToSet
<1>3. MayBeMade(n, ids, p.scenarios)
  BY <1>2 DEF MayBeMade
<1>4. Entries_(p) = Unplayed(n, ids, p.scenarios)
  BY <1>2 DEF Unplayed
<1>5. /\ GoodList(Unplayed(n, ids, p.scenarios), {}, {})
      /\ \A x \in IdsOf(Unplayed(n, ids, p.scenarios)) : \E i \in 1..n : x = ids[i]
  <2> HIDE DEF ids, n
  <2> QED
    BY <1>3, UnplayedAreGood
<1>6. \A i \in 1..n : ids[i] \in 1..MaxId
  BY <1>2, BoundsAssumption
<1> DEFINE entries == Entries_(p)
<1> HIDE DEF ids, n
<1>7. GoodList(entries, {}, {}) /\ \A x \in IdsOf(entries) : x \in 1..MaxId
  BY <1>4, <1>5, <1>6
<1>8. Adopt(Empty(p.name, entries), None)
  BY <1>1
<1> HIDE DEF entries
<1>9. Safe(Empty(p.name, entries), NoInputs)
  BY <1>2, <1>7, EmptySafe
<1> QED
  BY <1>8, <1>9, AdoptSafe

\* The draft that is open, when it is edited.
LEMMA OpenDraft ==
  ASSUME SessionSafe, draft # None
  PROVE  Good(draft, DOMAIN inputs) /\ AreCells(DOMAIN inputs) /\ NoGroup \notin Ids(draft)
BY SafeIds DEF SessionSafe, Safe

\* Every edit of the window keeps the session safe: the benchmark's name,
LEMMA NameSafe == ASSUME SessionSafe, SetBenchmarkName PROVE SessionSafe'
<1>1. PICK name \in NewNames : Edit(RenameBenchmark(draft, name))
  BY DEF SetBenchmarkName
<1>2. IsExpected(name)
  BY ValuesAssumption
<1>3. draft # None => \A b \in RenameBenchmark(draft, name) : Good(b, DOMAIN inputs)
  BY <1>2, OpenDraft, RenameBenchmarkKeeps
<1> QED
  BY <1>1, <1>3, EditSafe

\* the ladder,
LEMMA TiersSafe == ASSUME SessionSafe, EditTiers PROVE SessionSafe'
<1>0. /\ \A name \in Names \cup NewNames : IsExpected(name)
      /\ \A position \in Positions : position \in Nat
  BY ValuesAssumption, BoundsAssumption DEF Positions
<1>1. CASE DoAddTier
  <2>1. PICK name \in NewNames : Edit(AddTier(draft, Fresh, name))
    BY <1>1 DEF DoAddTier
  <2>2. draft # None => \A b \in AddTier(draft, Fresh, name) : Good(b, DOMAIN inputs)
    BY <1>0, OpenDraft, FreshIsFresh, AddTierKeeps
  <2> QED
    BY <2>1, <2>2, EditSafe
<1>2. CASE DoRenameTier
  <2>1. PICK id \in Tiers, name \in Names : Edit(RenameTier(draft, id, name))
    BY <1>2 DEF DoRenameTier
  <2>2. draft # None => \A b \in RenameTier(draft, id, name) : Good(b, DOMAIN inputs)
    BY <1>0, OpenDraft, RenameTierKeeps
  <2> QED
    BY <2>1, <2>2, EditSafe
<1>3. CASE DoReorderTier
  <2>1. PICK id \in Tiers, position \in Positions : Edit(ReorderTier(draft, id, position))
    BY <1>3 DEF DoReorderTier
  <2>2. draft # None => \A b \in ReorderTier(draft, id, position) : Good(b, DOMAIN inputs)
    BY <1>0, OpenDraft, ReorderTierKeeps
  <2> QED
    BY <2>1, <2>2, EditSafe
<1>4. CASE DoRemoveTier
  <2>1. PICK id \in Tiers : Edit(RemoveTier(draft, id))
    BY <1>4 DEF DoRemoveTier
  <2>2. draft # None => \A b \in RemoveTier(draft, id) : Good(b, DOMAIN inputs)
    BY OpenDraft, RemoveTierKeeps
  <2> QED
    BY <2>1, <2>2, EditSafe
<1> QED
  BY <1>1, <1>2, <1>3, <1>4 DEF EditTiers

\* What is picked from the catalogue is a name and a hash.
LEMMA OneHash ==
  ASSUME NEW k, IsCatalogue(k), NEW n \in DOMAIN k, NEW h \in k[n]
  PROVE  IsHashes(<<h>>) /\ IsExpected(n)
<1>1. IsExpected(n) /\ IsExpected(h) /\ h # Blank
  BY DEF IsCatalogue
<1> DEFINE one == <<h>>
<1>2. IsArray(one) /\ ToSet(one) = {h}
  BY OneArray
<1>3. IsInjective(one)
  <2>1. DOMAIN one = {1}
    OBVIOUS
  <2> HIDE DEF one
  <2> QED
    BY <2>1 DEF IsInjective
<1> HIDE DEF one
<1>4. IsHashes(one)
  BY <1>1, <1>2, <1>3 DEF IsHashes
<1> QED
  BY <1>1, <1>4 DEF one

\* the scenarios,
LEMMA ScenariosSafe == ASSUME SessionSafe, EditScenarios PROVE SessionSafe'
<1>0. /\ \A name \in Names \cup NewNames : IsExpected(name)
      /\ IsCatalogue(known)
  BY ValuesAssumption DEF SessionSafe
<1>1. CASE AddUnplayedScenario
  <2> DEFINE none == <<>>
  <2>1. PICK name \in NewNames : Edit(AddScenario(draft, Fresh, name, none))
    BY <1>1 DEF AddUnplayedScenario
  <2>2. IsHashes(none)
    BY EmptyArray DEF IsHashes
  <2> HIDE DEF none
  <2>3. draft # None => \A b \in AddScenario(draft, Fresh, name, none) : Good(b, DOMAIN inputs)
    BY <1>0, <2>2, OpenDraft, FreshIsFresh, AddScenarioKeeps
  <2> QED
    BY <2>1, <2>3, EditSafe
<1>2. CASE AddKnownScenario
  <2>1. PICK name \in DOMAIN known : \E h \in known[name] : Edit(AddScenario(draft, Fresh, name, <<h>>))
    BY <1>2 DEF AddKnownScenario
  <2>2. PICK h \in known[name] : Edit(AddScenario(draft, Fresh, name, <<h>>))
    BY <2>1
  <2> DEFINE one == <<h>>
  <2>3. IsHashes(one) /\ IsExpected(name)
    BY <1>0, OneHash
  <2>4. Edit(AddScenario(draft, Fresh, name, one))
    BY <2>2
  <2> HIDE DEF one
  <2>5. draft # None => \A b \in AddScenario(draft, Fresh, name, one) : Good(b, DOMAIN inputs)
    BY <2>3, OpenDraft, FreshIsFresh, AddScenarioKeeps
  <2> QED
    BY <2>4, <2>5, EditSafe
<1>3. CASE DoRenameScenario
  <2>1. PICK id \in Rows, name \in Names : Edit(RenameScenario(draft, id, name))
    BY <1>3 DEF DoRenameScenario
  <2>2. draft # None => \A b \in RenameScenario(draft, id, name) : Good(b, DOMAIN inputs)
    BY <1>0, OpenDraft, RenameScenarioKeeps
  <2> QED
    BY <2>1, <2>2, EditSafe
<1>4. CASE SetScenarioIdentity
  <2>1. PICK id \in Rows, name \in DOMAIN known : \E h \in known[name] :
          Edit(UNION {SetScenarioHashes(b, id, <<h>>) : b \in RenameScenario(draft, id, name)})
    BY <1>4 DEF SetScenarioIdentity
  <2>2. PICK h \in known[name] : Edit(UNION {SetScenarioHashes(b, id, <<h>>) : b \in RenameScenario(draft, id, name)})
    BY <2>1
  <2> DEFINE one == <<h>>
             results == UNION {SetScenarioHashes(b, id, one) : b \in RenameScenario(draft, id, name)}
  <2>3. IsHashes(one) /\ IsExpected(name)
    BY <1>0, OneHash
  <2>4. Edit(results)
    BY <2>2
  <2> HIDE DEF one
  <2>5. ASSUME draft # None, NEW x \in results PROVE Good(x, DOMAIN inputs)
    <3>1. PICK b \in RenameScenario(draft, id, name) : x \in SetScenarioHashes(b, id, one)
      OBVIOUS
    <3>2. Good(b, DOMAIN inputs) /\ NoGroup \notin Ids(b)
      BY <2>3, <2>5, OpenDraft, RenameScenarioKeeps
    <3> QED
      BY <2>3, <3>1, <3>2, SetScenarioHashesKeeps
  <2> HIDE DEF results
  <2> QED
    BY <2>4, <2>5, EditSafe
<1>5. CASE DoSetScenarioHashes
  <2>1. PICK id \in Rows, hashes \in SUBSET KnownHashes : Edit(SetScenarioHashes(draft, id, SetToSeq(hashes)))
    BY <1>5 DEF DoSetScenarioHashes
  <2>2. IsHashes(SetToSeq(hashes))
    BY <1>0, FS_Subset, ListedHashes DEF IsCatalogue, KnownHashes
  <2>3. draft # None => \A b \in SetScenarioHashes(draft, id, SetToSeq(hashes)) : Good(b, DOMAIN inputs)
    BY <2>2, OpenDraft, SetScenarioHashesKeeps
  <2> QED
    BY <2>1, <2>3, EditSafe
<1>6. CASE DoRemoveScenarios
  <2>1. PICK ids : Edit(RemoveScenarios(draft, ids))
    BY <1>6 DEF DoRemoveScenarios
  <2>2. draft # None => \A b \in RemoveScenarios(draft, ids) : Good(b, DOMAIN inputs)
    BY OpenDraft, RemoveScenariosKeeps
  <2> QED
    BY <2>1, <2>2, EditSafe
<1> QED
  BY <1>1, <1>2, <1>3, <1>4, <1>5, <1>6 DEF EditScenarios

\* The rows that are assigned, in the order in which they are seen, are each one once.
LEMMA RowsAssigned ==
  ASSUME NEW b, NEW B, Good(b, B), NEW ids
  PROVE  LET rows == [i \in DOMAIN VisibleOrder(b) |-> VisibleOrder(b)[i].id]
             some == At(rows, {i \in DOMAIN rows : rows[i] \in ids})
         IN IsArray(some) /\ IsInjective(some)
<1> DEFINE v == VisibleOrder(b)
           rows == [i \in DOMAIN v |-> v[i].id]
           P == {i \in DOMAIN rows : rows[i] \in ids}
           some == At(rows, P)
<1>1. IsArray(v) /\ Distinct(v)
  BY InView
<1> HIDE DEF v
<1>2. IsArray(rows) /\ \A i, j \in DOMAIN rows : rows[i] = rows[j] => i = j
  <2>1. rows = [i \in 1..Len(v) |-> rows[i]] /\ Len(v) \in Nat
    BY <1>1, ArrayParts
  <2>2. DOMAIN rows = DOMAIN v /\ \A i \in DOMAIN rows : rows[i] = v[i].id
    OBVIOUS
  <2> HIDE DEF rows
  <2>3. IsArray(rows)
    BY <2>1, ArrayOfLength
  <2> QED
    BY <1>1, <2>2, <2>3 DEF Distinct
<1>3. P \subseteq DOMAIN rows
  OBVIOUS
<1> HIDE DEF rows, P
<1>4. /\ IsArray(some) /\ Len(some) = Cardinality(P) /\ Cardinality(P) \in Nat
      /\ \E p : Takes(p, P) /\ \A k \in 1..Cardinality(P) : some[k] = rows[p[k]]
  BY <1>2, <1>3, Selection
<1> DEFINE n == Cardinality(P)
<1> HIDE DEF some, n
<1>5. PICK p : Takes(p, P) /\ \A k \in 1..n : some[k] = rows[p[k]]
  BY <1>4 DEF n
<1>6. DOMAIN some = 1..n /\ n \in Nat
  BY <1>4, ArrayParts DEF n
<1>7. /\ \A k \in 1..n : p[k] \in DOMAIN rows /\ p[k] \in Nat
      /\ \A k, m \in 1..n : k < m => p[k] < p[m]
  BY <1>2, ArrayParts, <1>3, <1>5 DEF Takes, n
<1>8. ASSUME NEW k \in 1..n, NEW m \in 1..n, some[k] = some[m] PROVE k = m
  BY <1>2, <1>5, <1>7, <1>8, <1>6
<1>9. IsInjective(some)
  BY <1>6, <1>8 DEF IsInjective
<1> QED
  BY <1>4, <1>9 DEF some, P, rows, v

\* and the groups.
LEMMA GroupsSafe == ASSUME SessionSafe, EditGroups PROVE SessionSafe'
<1>0. /\ \A name \in Names \cup NewNames : IsExpected(name)
      /\ \A position \in Positions : position \in Nat
  BY ValuesAssumption, BoundsAssumption DEF Positions
<1>1. CASE DoAddCategory
  <2>1. PICK name \in NewNames : Edit(AddCategory(draft, Fresh, name))
    BY <1>1 DEF DoAddCategory
  <2>2. draft # None => \A b \in AddCategory(draft, Fresh, name) : Good(b, DOMAIN inputs)
    BY <1>0, OpenDraft, FreshIsFresh, AddCategoryKeeps
  <2> QED
    BY <2>1, <2>2, EditSafe
<1>2. CASE DoRenameGroup
  <2>1. PICK id \in Categories \cup Subcategories, name \in Names : Edit(RenameGroup(draft, id, name))
    BY <1>2 DEF DoRenameGroup
  <2>2. draft # None => \A b \in RenameGroup(draft, id, name) : Good(b, DOMAIN inputs)
    BY <1>0, OpenDraft, RenameGroupKeeps
  <2> QED
    BY <2>1, <2>2, EditSafe
<1>3. CASE DoReorderCategory
  <2>1. PICK id \in Categories, position \in Positions : Edit(ReorderCategory(draft, id, position))
    BY <1>3 DEF DoReorderCategory
  <2>2. draft # None => \A b \in ReorderCategory(draft, id, position) : Good(b, DOMAIN inputs)
    BY <1>0, OpenDraft, ReorderCategoryKeeps
  <2> QED
    BY <2>1, <2>2, EditSafe
<1>4. CASE DoRemoveCategory
  <2>1. PICK id : Edit(RemoveCategory(draft, id))
    BY <1>4 DEF DoRemoveCategory
  <2>2. draft # None => \A b \in RemoveCategory(draft, id) : Good(b, DOMAIN inputs)
    BY OpenDraft, RemoveCategoryKeeps
  <2> QED
    BY <2>1, <2>2, EditSafe
<1>5. CASE DoAddSubcategory
  <2>1. PICK id \in Categories, name \in NewNames : Edit(AddSubcategory(draft, id, Fresh, name))
    BY <1>5 DEF DoAddSubcategory
  <2>2. draft # None => \A b \in AddSubcategory(draft, id, Fresh, name) : Good(b, DOMAIN inputs)
    BY <1>0, OpenDraft, FreshIsFresh, AddSubcategoryKeeps
  <2> QED
    BY <2>1, <2>2, EditSafe
<1>6. CASE AddSubcategoryMovingScenarios
  <2>1. PICK id \in Categories, name \in NewNames, intoNew \in BOOLEAN :
          Edit(AddSubcategoryRelocating(draft, id, Fresh, name, intoNew))
    BY <1>6 DEF AddSubcategoryMovingScenarios
  <2>2. draft # None =>
          \A b \in AddSubcategoryRelocating(draft, id, Fresh, name, intoNew) : Good(b, DOMAIN inputs)
    BY <1>0, OpenDraft, FreshIsFresh, AddSubcategoryRelocatingKeeps
  <2> QED
    BY <2>1, <2>2, EditSafe
<1>7. CASE DoReorderSubcategory
  <2>1. PICK id \in Subcategories, position \in Positions : Edit(ReorderSubcategory(draft, id, position))
    BY <1>7 DEF DoReorderSubcategory
  <2>2. draft # None => \A b \in ReorderSubcategory(draft, id, position) : Good(b, DOMAIN inputs)
    BY <1>0, OpenDraft, ReorderSubcategoryKeeps
  <2> QED
    BY <2>1, <2>2, EditSafe
<1>8. CASE Assign
  <2> DEFINE rows == [i \in DOMAIN VisibleOrder(draft) |-> VisibleOrder(draft)[i].id]
             some(ids) == At(rows, {i \in DOMAIN rows : rows[i] \in ids})
  <2>1. PICK ids, group, before : Edit(AssignScenarios(draft, some(ids), group, before))
    BY <1>8 DEF Assign
  <2>2. draft # None => IsArray(some(ids)) /\ IsInjective(some(ids))
    BY OpenDraft, RowsAssigned
  <2> HIDE DEF some
  <2>3. draft # None => \A b \in AssignScenarios(draft, some(ids), group, before) : Good(b, DOMAIN inputs)
    BY <2>2, OpenDraft, AssignScenariosKeeps
  <2> QED
    BY <2>1, <2>3, EditSafe
<1>9. CASE DoReorderScenario
  <2>1. PICK id \in Rows, position \in Positions : Edit(ReorderScenario(draft, id, position))
    BY <1>9 DEF DoReorderScenario
  <2>2. draft # None => \A b \in ReorderScenario(draft, id, position) : Good(b, DOMAIN inputs)
    BY <1>0, OpenDraft, ReorderScenarioKeeps
  <2> QED
    BY <2>1, <2>2, EditSafe
<1> QED
  BY <1>1, <1>2, <1>3, <1>4, <1>5, <1>6, <1>7, <1>8, <1>9 DEF EditGroups

-----------------------------------------------------------------------------
(* Typing and pasting.                                                     *)

\* What a state of the session may become by writing into a cell.
Writes(s2, s) ==
  /\ Good(s2.draft, DOMAIN s2.inputs) /\ (\A x \in Ids(s2.draft) : x \in Ids(s.draft))
  /\ EntryIds(s2.draft) = EntryIds(s.draft) /\ s2.draft.tiers = s.draft.tiers
  /\ AreCells(DOMAIN s2.inputs)

\* A text typed into a cell leaves a score or is retained, never both.
LEMMA TypingKeeps ==
  ASSUME NEW s, Good(s.draft, DOMAIN s.inputs), AreCells(DOMAIN s.inputs), NoGroup \notin Ids(s.draft), NEW entry, NEW tier, NEW text,
         NEW s2 \in Typing(s, <<entry, tier>>, text)
  PROVE  Writes(s2, s)
<1> DEFINE key == <<entry, tier>>
           D == DOMAIN s.inputs
           typed == SetThreshold(s.draft, entry, tier, ScoreOf[text])
           cleared == ClearThreshold(s.draft, entry, tier)
           edited == IF text \in DOMAIN ScoreOf THEN typed ELSE cleared
           cells == IF text = Blank \/ text \in DOMAIN ScoreOf THEN D \ {key} ELSE D \cup {key}
           in2 == [k \in cells |-> IF k = key THEN text ELSE s.inputs[k]]
<1>1. PICK b \in edited : s2 = [draft |-> b, inputs |-> in2]
  BY DEF Typing
<1>2. DOMAIN in2 = cells
  OBVIOUS
<1>20. AreCells(DOMAIN in2)
  <2>1. \A k \in D \cup {key} : k = <<k[1], k[2]>>
    BY DEF AreCells
  <2>2. \A k \in DOMAIN in2 : k \in D \cup {key}
    BY <1>2
  <2> HIDE DEF in2
  <2> QED
    BY <2>1, <2>2 DEF AreCells
<1> HIDE DEF in2
<1>3. s2.draft = b /\ s2.inputs = in2
  BY <1>1
<1>4. CASE text \in DOMAIN ScoreOf
  <2>1. b \in typed /\ DOMAIN in2 = D \ {key}
    BY <1>2, <1>4
  <2>2. IsExpected(ScoreOf[text]) /\ ScoreOf[text] # NonFinite
    BY <1>4, ValuesAssumption
  <2>3. /\ Good(b, D \ {key}) /\ Ids(b) \subseteq Ids(s.draft)
        /\ EntryIds(b) = EntryIds(s.draft) /\ b.tiers = s.draft.tiers
    BY <2>1, <2>2, SetThresholdKeeps
  <2> QED
    BY <1>3, <1>20, <2>1, <2>3 DEF Writes
<1>5. CASE text \notin DOMAIN ScoreOf
  <2>1. b \in cleared /\ DOMAIN in2 \subseteq D \cup {key}
    BY <1>2, <1>5
  <2>2. /\ Good(b, D \cup {key}) /\ Ids(b) \subseteq Ids(s.draft)
        /\ EntryIds(b) = EntryIds(s.draft) /\ b.tiers = s.draft.tiers
    BY <2>1, ClearThresholdKeeps
  <2>3. Good(b, DOMAIN in2)
    BY <2>1, <2>2, GoodWithFewer
  <2> QED
    BY <1>3, <1>20, <2>2, <2>3 DEF Writes
<1> QED
  BY <1>4, <1>5

\* A cell that is there can be written.
LEMMA TypingIsPossible ==
  ASSUME NEW s, NEW entry \in EntryIds(s.draft), NEW tier \in TierIds(s.draft), NEW text
  PROVE  Typing(s, <<entry, tier>>, text) # {}
<1>1. /\ SetThreshold(s.draft, entry, tier, ScoreOf[text]) # {}
      /\ ClearThreshold(s.draft, entry, tier) # {}
  BY DEF SetThreshold, ClearThreshold, When
<1> DEFINE key == <<entry, tier>>
           edited == IF text \in DOMAIN ScoreOf THEN SetThreshold(s.draft, entry, tier, ScoreOf[text])
                     ELSE ClearThreshold(s.draft, entry, tier)
           cells == IF text = Blank \/ text \in DOMAIN ScoreOf THEN DOMAIN s.inputs \ {key}
                    ELSE DOMAIN s.inputs \cup {key}
           in2 == [k \in cells |-> IF k = key THEN text ELSE s.inputs[k]]
<1>2. Typing(s, <<entry, tier>>, text) = {[draft |-> b, inputs |-> in2] : b \in edited}
  BY DEF Typing
<1>3. edited # {}
  BY <1>1
<1> HIDE DEF edited, in2
<1> QED
  BY <1>2, <1>3

\* The session is the draft and its retained texts.
LEMMA SessionRecord ==
  /\ Session.draft = draft /\ Session.inputs = inputs
BY DEF Session

\* Typing into one cell keeps the session safe.
LEMMA TextSafe == ASSUME SessionSafe, EditThresholdText PROVE SessionSafe'
<1>1. draft # None
  BY DEF EditThresholdText, MayEdit
<1>2. PICK entry \in EntryIds(draft), tier \in TierIds(draft), text \in Texts :
        \E s \in Typing(Session, <<entry, tier>>, text) : Commit(s.draft, s.inputs)
  BY DEF EditThresholdText
<1>3. PICK s \in Typing(Session, <<entry, tier>>, text) : Commit(s.draft, s.inputs)
  BY <1>2
<1>4. /\ Good(Session.draft, DOMAIN Session.inputs) /\ AreCells(DOMAIN Session.inputs)
      /\ NoGroup \notin Ids(Session.draft)
  BY <1>1, OpenDraft, SessionRecord
<1>5. Good(s.draft, DOMAIN s.inputs) /\ AreCells(DOMAIN s.inputs)
  BY <1>4, TypingKeeps DEF Writes
<1> QED
  BY <1>1, <1>3, <1>5, CommitSafe

\* A field that can be written: its row is there, and its tier unless it names the row.
Writable(f, s) ==
  /\ f.entry \in EntryIds(s.draft) /\ IsExpected(f.text)
  /\ f.tier # 0 => f.tier \in TierIds(s.draft)

\* One field more of a paste.
LEMMA WriteOne ==
  ASSUME NEW s, NoGroup \notin Ids(s.draft), NEW w, Writes(w, s), NEW f, Writable(f, s)
  PROVE  Writes(WriteField(w, f), s)
<1>1. /\ Good(w.draft, DOMAIN w.inputs) /\ (\A x \in Ids(w.draft) : x \in Ids(s.draft))
      /\ EntryIds(w.draft) = EntryIds(s.draft) /\ w.draft.tiers = s.draft.tiers
      /\ AreCells(DOMAIN w.inputs)
  BY DEF Writes
<1>2. NoGroup \notin Ids(w.draft)
  BY <1>1
<1>3. CASE f.tier = 0
  <2> DEFINE b == CHOOSE b \in RenameScenario(w.draft, f.entry, f.text) : TRUE
  <2>1. RenameScenario(w.draft, f.entry, f.text) # {}
    BY <1>1 DEF Writable, RenameScenario, When
  <2>2. b \in RenameScenario(w.draft, f.entry, f.text)
    BY <2>1
  <2>3. WriteField(w, f) = [draft |-> b, inputs |-> w.inputs]
    BY <1>3 DEF WriteField
  <2> HIDE DEF b
  <2>4. IsExpected(f.text)
    BY DEF Writable
  <2>5. /\ Good(b, DOMAIN w.inputs) /\ Ids(b) \subseteq Ids(w.draft)
        /\ EntryIds(b) = EntryIds(w.draft) /\ b.tiers = w.draft.tiers
    BY <1>1, <1>2, <2>2, <2>4, RenameScenarioKeeps
  <2>6. WriteField(w, f).draft = b /\ WriteField(w, f).inputs = w.inputs
    BY <2>3
  <2> QED
    BY <1>1, <2>5, <2>6 DEF Writes
<1>4. CASE f.tier # 0
  <2> DEFINE W == Typing(w, <<f.entry, f.tier>>, f.text)
             v == CHOOSE v \in W : TRUE
  <2>1. f.entry \in EntryIds(w.draft) /\ f.tier \in TierIds(w.draft)
    BY <1>1, <1>4 DEF Writable, TierIds
  <2>2. W # {}
    BY <2>1, TypingIsPossible
  <2>3. v \in W
    BY <2>2
  <2>4. WriteField(w, f) = v
    BY <1>4 DEF WriteField
  <2> HIDE DEF v
  <2>5. Writes(v, w)
    BY <1>1, <1>2, <2>3, TypingKeeps
  <2> QED
    BY <1>1, <2>4, <2>5 DEF Writes
<1> QED
  BY <1>3, <1>4

\* What the first m fields leave.
Written(g, s, fields, m) == g = [k \in 0..m |-> IF k = 0 THEN s ELSE WriteField(g[k - 1], fields[k])]

\* Writing one field after the other can be recorded.
LEMMA WrittenExists ==
  ASSUME NEW s, NEW fields, NEW n \in Nat
  PROVE  \E g : Written(g, s, fields, n)
<1> DEFINE Bad == {m \in 0..n : ~\E g : Written(g, s, fields, m)}
<1>1. SUFFICES ASSUME Bad # {} PROVE FALSE
  OBVIOUS
<1>2. PICK m \in Bad : \A k \in Bad : m <= k
  <2>1. Bad \subseteq Nat
    OBVIOUS
  <2> HIDE DEF Bad
  <2> QED
    BY <1>1, <2>1, LeastExists
<1>3. m \in 0..n /\ ~\E g : Written(g, s, fields, m)
  OBVIOUS
<1>4. m # 0
  <2> DEFINE g == [k \in 0..0 |-> s]
  <2>1. g = [k \in 0..0 |-> IF k = 0 THEN s ELSE WriteField(g[k - 1], fields[k])]
    OBVIOUS
  <2>2. Written(g, s, fields, 0)
    BY <2>1 DEF Written
  <2> QED
    BY <1>3, <2>2
<1>5. m - 1 \in 0..n /\ m - 1 \notin Bad
  BY <1>3, <1>4, <1>2
<1>6. PICK f : Written(f, s, fields, m - 1)
  BY <1>5
<1> HIDE DEF Bad
<1> DEFINE g == [k \in 0..m |-> IF k = m THEN WriteField(f[m - 1], fields[m]) ELSE f[k]]
<1>7. f = [k \in 0..(m - 1) |-> IF k = 0 THEN s ELSE WriteField(f[k - 1], fields[k])]
  BY <1>6 DEF Written
<1>8. \A k \in 0..m : g[k] = IF k = 0 THEN s ELSE WriteField(g[k - 1], fields[k])
  <2> TAKE k \in 0..m
  <2>1. CASE k = m
    <3>1. m - 1 \in 0..m /\ m - 1 # m /\ m \in 0..m
      BY <1>3, <1>4
    <3>2. g[m] = WriteField(f[m - 1], fields[m]) /\ g[m - 1] = f[m - 1]
      BY <3>1
    <3> HIDE DEF g
    <3> QED
      BY <1>4, <2>1, <3>2
  <2>2. CASE k # m
    <3>1. k \in 0..(m - 1) /\ (k # 0 => k - 1 \in 0..m /\ k - 1 # m)
      BY <1>3, <2>2
    <3>2. g[k] = f[k] /\ (k # 0 => g[k - 1] = f[k - 1])
      BY <2>2, <3>1
    <3>3. f[k] = IF k = 0 THEN s ELSE WriteField(f[k - 1], fields[k])
      BY <1>7, <3>1
    <3> HIDE DEF g
    <3> QED
      BY <3>2, <3>3
  <2> QED
    BY <2>1, <2>2
<1>9. g = [k \in 0..m |-> g[k]]
  OBVIOUS
<1> HIDE DEF g
<1>10. Written(g, s, fields, m)
  BY <1>8, <1>9 DEF Written
<1> QED
  BY <1>3, <1>10

\* Writing all fields of a paste.
LEMMA WriteAll ==
  ASSUME NEW s, Good(s.draft, DOMAIN s.inputs), AreCells(DOMAIN s.inputs), NoGroup \notin Ids(s.draft),
         NEW fields, IsArray(fields), \A k \in DOMAIN fields : Writable(fields[k], s)
  PROVE  Writes(WriteFields(s, fields), s)
<1> DEFINE n == Len(fields)
           it == CHOOSE g : g = [k \in 0..n |-> IF k = 0 THEN s ELSE WriteField(g[k - 1], fields[k])]
<1>1. n \in Nat /\ DOMAIN fields = 1..n
  BY ArrayParts
<1>2. WriteFields(s, fields) = it[n]
  BY DEF WriteFields
<1>3. it = [k \in 0..n |-> IF k = 0 THEN s ELSE WriteField(it[k - 1], fields[k])]
  <2>1. \E g : g = [k \in 0..n |-> IF k = 0 THEN s ELSE WriteField(g[k - 1], fields[k])]
    <3> HIDE DEF n
    <3>1. \E g : Written(g, s, fields, n)
      BY <1>1, WrittenExists
    <3> QED
      BY <3>1 DEF Written
  <2> QED
    BY <2>1
<1> HIDE DEF it, n
<1>4. /\ it[0] = s
      /\ \A k \in 1..n : it[k] = WriteField(it[k - 1], fields[k])
  BY <1>1, <1>3
<1> DEFINE Bad == {k \in 0..n : ~Writes(it[k], s)}
<1>5. Bad = {}
  <2>1. SUFFICES ASSUME Bad # {} PROVE FALSE
    OBVIOUS
  <2>2. PICK m \in Bad : \A k \in Bad : m <= k
    <3>1. Bad \subseteq Nat
      BY <1>1
    <3> HIDE DEF Bad
    <3> QED
      BY <2>1, <3>1, LeastExists
  <2>3. m \in 0..n /\ ~Writes(it[m], s)
    OBVIOUS
  <2>4. Writes(s, s)
    BY DEF Writes
  <2>5. m # 0
    BY <1>4, <2>3, <2>4
  <2>6. m - 1 \in 0..n /\ m - 1 \notin Bad /\ m \in 1..n
    BY <1>1, <2>3, <2>5, <2>2
  <2>7. Writes(it[m - 1], s)
    BY <2>6
  <2>8. Writable(fields[m], s)
    BY <1>1, <2>6
  <2>9. Writes(WriteField(it[m - 1], fields[m]), s)
    BY <2>7, <2>8, WriteOne
  <2> QED
    BY <1>4, <2>3, <2>6, <2>9
<1> QED
  BY <1>1, <1>2, <1>5

\* Rows of texts, none of them empty.
IsMatrix(matrix) ==
  /\ IsArray(matrix) /\ Len(matrix) # 0
  /\ \A r \in DOMAIN matrix : IsArray(matrix[r]) /\ Len(matrix[r]) # 0
  /\ \A r \in DOMAIN matrix : \A c \in DOMAIN matrix[r] : IsExpected(matrix[r][c])

\* A difference that is cut off at nothing.
LEMMA NotNegative == \A x \in Int : Max({0, x}) \in Nat /\ Max({0, x}) >= x
<1> TAKE x \in Int
<1> DEFINE S == {0, x}
           m == CHOOSE k \in S : \A y \in S : k >= y
<1>1. \E k \in S : \A y \in S : k >= y
  OBVIOUS
<1>2. m \in S /\ \A y \in S : m >= y
  BY <1>1
<1>3. Max(S) = m
  BY DEF Max
<1> HIDE DEF m
<1>4. (m = 0 \/ m = x) /\ m >= 0 /\ m >= x
  BY <1>2
<1> QED
  BY <1>3, <1>4

\* No row is longer than the width.
LEMMA WidthBounds ==
  ASSUME NEW matrix, IsMatrix(matrix)
  PROVE  Width(matrix) \in Nat /\ \A r \in DOMAIN matrix : Width(matrix) >= Len(matrix[r])
<1> DEFINE n == Len(matrix)
           Bad == {m \in 1..n : ~\E r \in 1..m : \A k \in 1..m : Len(matrix[r]) >= Len(matrix[k])}
           S == {Len(matrix[r]) : r \in DOMAIN matrix}
           w == CHOOSE x \in S : \A y \in S : x >= y
<1>1. n \in Nat \ {0} /\ DOMAIN matrix = 1..n /\ \A r \in 1..n : Len(matrix[r]) \in Nat
  BY ArrayParts DEF IsMatrix
<1>2. Bad = {}
  <2>1. SUFFICES ASSUME Bad # {} PROVE FALSE
    OBVIOUS
  <2>2. PICK m \in Bad : \A k \in Bad : m <= k
    <3>1. Bad \subseteq Nat
      OBVIOUS
    <3> HIDE DEF Bad
    <3> QED
      BY <2>1, <3>1, LeastExists
  <2>3. m \in 1..n /\ ~\E r \in 1..m : \A k \in 1..m : Len(matrix[r]) >= Len(matrix[k])
    OBVIOUS
  <2>4. m # 1
    <3>1. ASSUME m = 1 PROVE FALSE
      <4>1. \A k \in 1..m : k = 1
        BY <3>1
      <4>2. 1 \in 1..m /\ \A k \in 1..m : Len(matrix[1]) >= Len(matrix[k])
        BY <1>1, <3>1, <4>1
      <4> HIDE DEF Bad
      <4> QED
        BY <2>3, <4>2
    <3> QED
      BY <3>1
  <2>5. m - 1 \in 1..n /\ m - 1 \notin Bad
    <3>1. m - 1 \in 1..n /\ ~(m <= m - 1)
      BY <1>1, <2>3, <2>4
    <3> QED
      BY <2>2, <3>1
  <2>50. m - 1 \in 1..n /\ \E r \in 1..(m - 1) : \A k \in 1..(m - 1) : Len(matrix[r]) >= Len(matrix[k])
    BY <2>5
  <2> HIDE DEF Bad, n
  <2>6. PICK r \in 1..(m - 1) : \A k \in 1..(m - 1) : Len(matrix[r]) >= Len(matrix[k])
    BY <2>50
  <2>7. r \in 1..m /\ m \in 1..m /\ \A k \in 1..m : k = m \/ k \in 1..(m - 1)
    BY <2>3
  <2>8. \A k \in 1..m : Len(matrix[k]) \in Nat
    <3> TAKE k \in 1..m
    <3>1. k \in 1..n
      BY <1>1, <2>3
    <3> QED
      BY <1>1, <3>1
  <2>9. CASE Len(matrix[r]) >= Len(matrix[m])
    <3>1. ASSUME NEW k \in 1..m PROVE Len(matrix[r]) >= Len(matrix[k])
      BY <2>9, <2>6, <2>7
    <3> QED
      BY <2>3, <2>7, <3>1
  <2>10. CASE ~(Len(matrix[r]) >= Len(matrix[m]))
    <3>1. Len(matrix[m]) >= Len(matrix[r])
      BY <2>7, <2>8, <2>10
    <3>2. ASSUME NEW k \in 1..m PROVE Len(matrix[m]) >= Len(matrix[k])
      BY <2>6, <2>7, <2>8, <3>1
    <3> QED
      BY <2>3, <2>7, <3>2
  <2> QED
    BY <2>9, <2>10
<1>3. \E r \in 1..n : \A k \in 1..n : Len(matrix[r]) >= Len(matrix[k])
  <2>1. n \in 1..n
    BY <1>1
  <2> QED
    BY <1>2, <2>1
<1> HIDE DEF Bad, n
<1>4. PICK r \in 1..n : \A k \in 1..n : Len(matrix[r]) >= Len(matrix[k])
  BY <1>3
<1>5. \E x \in S : \A y \in S : x >= y
  <2>1. r \in DOMAIN matrix /\ \A k \in DOMAIN matrix : Len(matrix[r]) >= Len(matrix[k])
    BY <1>1, <1>4
  <2> DEFINE l == Len(matrix[r])
  <2>2. l \in S
    BY <2>1
  <2>3. ASSUME NEW y \in S PROVE l >= y
    <3>1. PICK k \in DOMAIN matrix : y = Len(matrix[k])
      OBVIOUS
    <3> QED
      BY <2>1, <3>1
  <2> HIDE DEF l, S
  <2> QED
    BY <2>2, <2>3
<1>6. w \in S /\ \A y \in S : w >= y
  BY <1>5
<1>7. Width(matrix) = w
  BY DEF Width, Max
<1> HIDE DEF w
<1>8. w \in Nat /\ \A k \in DOMAIN matrix : w >= Len(matrix[k])
  BY <1>1, <1>6
<1> QED
  BY <1>7, <1>8

\* The entries that are appended are there, after those that were.
LEMMA AppendedHolds ==
  ASSUME NEW b, NEW B, Good(b, B), NoGroup \notin Ids(b), NEW ids, IsArray(ids),
         Good(AppendUnnamedScenarios(b, ids), B)
  PROVE  LET b2 == AppendUnnamedScenarios(b, ids)
         IN EntryIds(b) \subseteq EntryIds(b2) /\ ToSet(ids) \subseteq EntryIds(b2) /\ b2.tiers = b.tiers
<1> DEFINE b2 == AppendUnnamedScenarios(b, ids)
           new == [i \in DOMAIN ids |-> NewEntry(ids[i], Blank, <<>>)]
           G(g, l) == IF g = NoGroup THEN l \o new ELSE l
           Sub(s) == [id |-> s.id, name |-> s.name, scenarios |-> G(s.id, s.scenarios)]
           Category(c) == [id |-> c.id, name |-> c.name, scenarios |-> G(c.id, c.scenarios),
                           subs |-> [s \in DOMAIN c.subs |-> Sub(c.subs[s])]]
<1>1. b2 = [name |-> b.name, tiers |-> b.tiers, uncategorized |-> G(NoGroup, b.uncategorized),
            categories |-> [c \in DOMAIN b.categories |-> Category(b.categories[c])]]
  BY DEF AppendUnnamedScenarios, Appended, OnList, MapLists
<1>2. \A c \in DOMAIN b.categories : /\ b.categories[c].id # NoGroup
                                     /\ \A s \in DOMAIN b.categories[c].subs : b.categories[c].subs[s].id # NoGroup
  BY DEF Ids, Held, CatAll, SubAll
<1>3. /\ IsArray(b.uncategorized) /\ IsBenchmark(b) /\ IsBenchmark(b2)
  BY GoodParts, GoodIsBenchmark DEF GoodList
<1>4. /\ DOMAIN ids = 1..Len(ids) /\ Len(ids) \in Nat
      /\ IsArray(new) /\ Len(new) = Len(ids) /\ DOMAIN new = DOMAIN ids
      /\ \A i \in DOMAIN ids : new[i].id = ids[i]
  <2>1. DOMAIN ids = 1..Len(ids) /\ Len(ids) \in Nat
    BY ArrayParts
  <2>2. /\ new = [i \in 1..Len(ids) |-> new[i]] /\ DOMAIN new = DOMAIN ids
        /\ \A i \in DOMAIN ids : new[i] = NewEntry(ids[i], Blank, <<>>)
    <3> HIDE DEF NewEntry
    <3> QED
      BY <2>1
  <2> HIDE DEF new
  <2>3. \A i \in DOMAIN ids : new[i].id = ids[i]
    <3> TAKE i \in DOMAIN ids
    <3>1. new[i] = NewEntry(ids[i], Blank, <<>>)
      BY <2>2
    <3> QED
      BY <3>1 DEF NewEntry
  <2> QED
    BY <2>1, <2>2, <2>3, ArrayOfLength
<1> HIDE DEF new
<1> HIDE DEF b2
<1>5. /\ b2.tiers = b.tiers /\ b2.uncategorized = b.uncategorized \o new
      /\ DOMAIN b2.categories = DOMAIN b.categories
      /\ \A c \in DOMAIN b.categories :
           /\ b2.categories[c].scenarios = b.categories[c].scenarios
           /\ DOMAIN b2.categories[c].subs = DOMAIN b.categories[c].subs
           /\ \A s \in DOMAIN b.categories[c].subs :
                b2.categories[c].subs[s].scenarios = b.categories[c].subs[s].scenarios
  <2>1. G(NoGroup, b.uncategorized) = b.uncategorized \o new
    OBVIOUS
  <2>2. \A c \in DOMAIN b.categories : G(b.categories[c].id, b.categories[c].scenarios) = b.categories[c].scenarios
    BY <1>2
  <2>3. \A c \in DOMAIN b.categories : \A s \in DOMAIN b.categories[c].subs :
          G(b.categories[c].subs[s].id, b.categories[c].subs[s].scenarios) = b.categories[c].subs[s].scenarios
    BY <1>2
  <2> HIDE DEF G
  <2> QED
    BY <1>1, <2>1, <2>2, <2>3
<1>6. IdsOf(b2.uncategorized) = IdsOf(b.uncategorized) \cup IdsOf(new)
  BY <1>3, <1>4, JoinedArrays, <1>5, IdsOfSet
<1>7. IdsOf(new) = ToSet(ids)
  BY <1>4 DEF IdsOf, ToSet
<1>8. ASSUME NEW x \in EntryIds(b) PROVE x \in EntryIds(b2)
  <2>1. PICK c, s : IsSpot(b, c, s) /\ x \in IdsOf(SpotList(b, c, s))
    BY <1>3, EntryIdsAt
  <2>2. IsSpot(b2, c, s)
    BY <1>5, <2>1 DEF IsSpot
  <2>3. x \in IdsOf(SpotList(b2, c, s))
    <3>1. CASE c = 0
      BY <1>6, <2>1, <3>1 DEF SpotList
    <3>2. CASE c # 0
      BY <1>5, <2>1, <3>2 DEF SpotList, IsSpot
    <3> QED
      BY <3>1, <3>2
  <2> QED
    BY <1>3, <2>2, <2>3, EntryIdsAt
<1>9. ToSet(ids) \subseteq EntryIds(b2)
  BY <1>3, <1>6, <1>7, EntryIdsAt DEF IsSpot, SpotList
<1> QED
  BY <1>5, <1>8, <1>9 DEF b2

\* Tiers without names.
Unnamed(n, ids) == [i \in 1..n |-> [id |-> ids[i], name |-> Blank]]

\* Tiers without names and with different ids are a ladder.
LEMMA UnnamedAreGood ==
  ASSUME NEW n \in Nat, NEW ids, \A i, j \in 1..n : ids[i] = ids[j] => i = j
  PROVE  /\ GoodTiers(Unnamed(n, ids)) /\ Len(Unnamed(n, ids)) = n
         /\ \A x \in IdsOf(Unnamed(n, ids)) : \E i \in 1..n : x = ids[i]
<1> DEFINE new == Unnamed(n, ids)
<1>1. new = [i \in 1..n |-> new[i]] /\ \A i \in 1..n : new[i] = [id |-> ids[i], name |-> Blank]
  BY DEF Unnamed
<1> HIDE DEF new
<1>2. IsArray(new) /\ Len(new) = n /\ DOMAIN new = 1..n
  BY <1>1, ArrayOfLength
<1>3. ASSUME NEW i \in 1..n PROVE new[i].id = ids[i] /\ IsTier(new[i])
  BY <1>1, ValuesAssumption DEF IsTier
<1>4. Distinct(new)
  BY <1>2, <1>3 DEF Distinct
<1>5. \A x \in IdsOf(new) : \E i \in 1..n : x = ids[i]
  BY <1>2, <1>3 DEF IdsOf
<1> QED
  BY <1>2, <1>3, <1>4, <1>5 DEF GoodTiers, new

\* A part of the fresh ids.
Part(n, m, k) == SubSeq(FreshIds(n), m + 1, m + k)
IsPart(q, n, m, k) ==
  /\ IsArray(q) /\ Len(q) = k /\ DOMAIN q = 1..k
  /\ \A i \in 1..k : m + i \in 1..n /\ q[i] = FreshIds(n)[m + i]
  /\ \A i, j \in 1..k : q[i] = q[j] => i = j

\* Of the fresh ids, those of the rows and those of the tiers are fresh and different.
LEMMA PartOfFresh ==
  ASSUME SessionSafe, NEW n \in Nat, NEW m \in Nat, NEW k \in Nat, m + k <= n
  PROVE  IsPart(Part(n, m, k), n, m, k)
<1> DEFINE f == FreshIds(n)
           q == SubSeq(f, m + 1, m + k)
           S == {f[i] : i \in (m + 1)..(m + k)}
<1>1. \A i \in 1..n : \A j \in 1..n : f[i] = f[j] => i = j
  BY FreshIdsAreFresh
<1> HIDE DEF f
<1>2. m + 1 \in Int /\ m + k \in Int /\ \A i \in (m + 1)..(m + k) : f[i] \in S
  OBVIOUS
<1> HIDE DEF S
<1>3. /\ q \in Seq(S)
      /\ Len(q) = IF m + 1 <= m + k THEN m + k - (m + 1) + 1 ELSE 0
      /\ \A i \in 1..(m + k - (m + 1) + 1) : q[i] = f[m + 1 + i - 1]
  BY <1>2, SubSeqProperties
<1> HIDE DEF q
<1>4. Len(q) = k /\ DOMAIN q = 1..k /\ \A i \in 1..k : m + i \in 1..n /\ q[i] = f[m + i]
  <2>1. Len(q) = k
    BY <1>3
  <2>2. DOMAIN q = 1..k
    BY <1>3, <2>1
  <2>3. ASSUME NEW i \in 1..k PROVE m + i \in 1..n /\ q[i] = f[m + i]
    BY <1>3
  <2> QED
    BY <2>1, <2>2, <2>3
<1>5. q = [i \in 1..k |-> q[i]]
  BY <1>3, <1>4
<1>6. IsArray(q)
  BY <1>5, ArrayOfLength
<1>7. ASSUME NEW i \in 1..k, NEW j \in 1..k, q[i] = q[j] PROVE i = j
  BY <1>4, <1>7, <1>1
<1> QED
  BY <1>4, <1>6, <1>7 DEF q, f, IsPart, Part

\* The draft with r rows and t tiers more, and their ids.
NewRows(r, t) == SubSeq(FreshIds(r + t), 1, r)
NewTiers(r, t) == SubSeq(FreshIds(r + t), r + 1, r + t)
Grown(r, t) ==
  [AppendUnnamedScenarios(draft, NewRows(r, t)) EXCEPT
     !.tiers = @ \o [i \in DOMAIN NewTiers(r, t) |-> [id |-> NewTiers(r, t)[i], name |-> Blank]]]

\* The draft stays sound with the rows and tiers that a paste needs beyond its edge.
LEMMA GrownKeeps ==
  ASSUME SessionSafe, draft # None, NEW r \in Nat, NEW t \in Nat
  PROVE  /\ Good(Grown(r, t), DOMAIN inputs) /\ NoGroup \notin Ids(Grown(r, t))
         /\ EntryIds(draft) \subseteq EntryIds(Grown(r, t)) /\ ToSet(NewRows(r, t)) \subseteq EntryIds(Grown(r, t))
         /\ IsArray(NewRows(r, t)) /\ Len(NewRows(r, t)) = r
         /\ IsArray(Grown(r, t).tiers) /\ Len(Grown(r, t).tiers) = Len(draft.tiers) + t
<1> DEFINE f == FreshIds(r + t)
           rows == NewRows(r, t)
           q == NewTiers(r, t)
           B == DOMAIN inputs
           b2 == AppendUnnamedScenarios(draft, rows)
           new == Unnamed(t, q)
           b3 == [b2 EXCEPT !.tiers = draft.tiers \o new]
<1>1. Good(draft, B) /\ NoGroup \notin Ids(draft) /\ IsExpected(Blank)
  BY OpenDraft, ValuesAssumption
<1>2. r + t \in Nat
  OBVIOUS
<1>3. /\ \A i, j \in 1..(r + t) : f[i] = f[j] => i = j
      /\ \A i \in 1..(r + t) : f[i] # NoGroup /\ f[i] \notin Ids(draft)
  BY <1>2, FreshIdsAreFresh
<1>4. /\ IsArray(rows) /\ Len(rows) = r /\ DOMAIN rows = 1..r
      /\ \A i \in 1..r : i \in 1..(r + t) /\ rows[i] = f[i]
      /\ \A i, j \in 1..r : rows[i] = rows[j] => i = j
  <2>1. PICK m \in Nat : m = 0
    OBVIOUS
  <2>2. m + r <= r + t /\ m + 1 = 1 /\ m + r = r /\ \A i \in 1..r : m + i = i
    BY <2>1
  <2>3. Part(r + t, m, r) = rows
    BY <2>2 DEF NewRows, Part
  <2>4. IsPart(Part(r + t, m, r), r + t, m, r)
    BY <1>2, <2>2, PartOfFresh
  <2> HIDE DEF rows, f
  <2> QED
    BY <2>2, <2>3, <2>4 DEF IsPart, f
<1>5. /\ IsArray(q) /\ Len(q) = t /\ DOMAIN q = 1..t
      /\ \A i \in 1..t : r + i \in 1..(r + t) /\ q[i] = f[r + i]
      /\ \A i, j \in 1..t : q[i] = q[j] => i = j
  <2>1. IsPart(Part(r + t, r, t), r + t, r, t)
    BY <1>2, PartOfFresh
  <2>2. Part(r + t, r, t) = q
    BY DEF Part, NewTiers
  <2> HIDE DEF q
  <2> QED
    BY <2>1, <2>2 DEF IsPart
<1>6. Grown(r, t) = [b2 EXCEPT !.tiers = @ \o new]
  <2>1. [i \in DOMAIN q |-> [id |-> q[i], name |-> Blank]] = new
    BY <1>5 DEF Unnamed
  <2>2. Grown(r, t) = [b2 EXCEPT !.tiers = @ \o [i \in DOMAIN q |-> [id |-> q[i], name |-> Blank]]]
    BY DEF Grown
  <2> HIDE DEF b2, q, new
  <2> QED
    BY <2>1, <2>2
<1> HIDE DEF f, rows, q, B
<1>7. IsInjective(rows)
  BY <1>4 DEF IsInjective
<1>8. \A x \in ToSet(rows) : \E i \in 1..r : x = f[i]
  BY <1>4 DEF ToSet
<1>9. ToSet(rows) \cap Ids(draft) = {}
  BY <1>3, <1>4, <1>8
<1>10. Good(b2, B) /\ \A x \in Ids(b2) : x \in Ids(draft) \/ x \in ToSet(rows)
  BY <1>1, <1>4, <1>7, <1>9, AppendUnnamedKeeps
<1>11. EntryIds(draft) \subseteq EntryIds(b2) /\ ToSet(rows) \subseteq EntryIds(b2) /\ b2.tiers = draft.tiers
  BY <1>1, <1>4, <1>10, AppendedHolds
<1> HIDE DEF b2
<1>12. GoodTiers(new) /\ Len(new) = t /\ \A x \in IdsOf(new) : \E i \in 1..t : x = q[i]
  BY <1>5, UnnamedAreGood
<1> HIDE DEF new
<1>13. ASSUME NEW x \in IdsOf(new) PROVE x \notin Ids(b2) /\ x # NoGroup
  <2>1. PICK i \in 1..t : x = f[r + i] /\ r + i \in 1..(r + t)
    BY <1>5, <1>12
  <2>2. x \notin Ids(draft) /\ x # NoGroup
    BY <1>3, <2>1
  <2>3. ASSUME x \in ToSet(rows) PROVE FALSE
    <3>1. PICK k \in 1..r : x = f[k] /\ k \in 1..(r + t)
      BY <1>4, <1>8, <2>3
    <3>2. r + i = k
      BY <1>3, <2>1, <3>1
    <3> QED
      BY <3>2
  <2> QED
    BY <1>10, <2>2, <2>3
<1>14. NoGroup \notin Ids(b2)
  BY <1>3, <1>4, <1>8, <1>1, <1>10
<1>15. GoodTiers(b2.tiers) /\ IdsOf(b2.tiers) \subseteq Ids(b2)
  BY <1>10 DEF Good, Ids
<1>16. /\ GoodTiers(b2.tiers \o new) /\ IdsOf(b2.tiers \o new) = IdsOf(b2.tiers) \cup IdsOf(new)
  BY <1>12, <1>13, <1>15, JoinedTiers
<1>17. Grown(r, t) = [b2 EXCEPT !.tiers = b2.tiers \o new]
  BY <1>6
<1>18. Good(Grown(r, t), B) /\ \A x \in Ids(Grown(r, t)) : x \in Ids(b2) \/ x \in IdsOf(new)
  <2>1. /\ IdsOf(b2.tiers) \subseteq IdsOf(b2.tiers \o new) /\ IdsOf(new) \cap Ids(b2) = {}
        /\ \A x \in IdsOf(b2.tiers \o new) : x \in IdsOf(b2.tiers) \/ x \in IdsOf(new)
    BY <1>13, <1>16
  <2> DEFINE tiers == b2.tiers \o new
  <2> HIDE DEF tiers
  <2>2. LET b == [b2 EXCEPT !.tiers = tiers]
        IN Good(b, B) /\ \A x \in Ids(b) : x \in Ids(b2) \/ x \in IdsOf(new)
    BY <1>10, <1>16, <2>1, TiersKeep DEF tiers
  <2> QED
    BY <1>17, <2>2 DEF tiers
<1>19. NoGroup \notin Ids(Grown(r, t))
  BY <1>13, <1>14, <1>18
<1>20. /\ Grown(r, t).tiers = b2.tiers \o new /\ Grown(r, t).uncategorized = b2.uncategorized
       /\ Grown(r, t).categories = b2.categories
  BY <1>10, <1>17 DEF Good
<1>21. EntryIds(Grown(r, t)) = EntryIds(b2)
  BY <1>20 DEF EntryIds, Entries, Lists, Uncategorized, Grouped
<1>22. IsArray(Grown(r, t).tiers) /\ Len(Grown(r, t).tiers) = Len(draft.tiers) + t
  <2>1. IsArray(b2.tiers) /\ IsArray(new)
    BY <1>12, <1>15 DEF GoodTiers
  <2>2. IsArray(b2.tiers \o new) /\ Len(b2.tiers \o new) = Len(b2.tiers) + Len(new)
    BY <2>1, JoinedArrays
  <2> QED
    BY <1>11, <1>12, <1>20, <2>2
<1> QED
  BY <1>4, <1>11, <1>18, <1>19, <1>21, <1>22 DEF rows, B

\* Fields that name rows of E, and tiers of T.
AreFields(fields, E, T) ==
  /\ IsArray(fields)
  /\ \A k \in DOMAIN fields : /\ fields[k].entry \in E /\ IsExpected(fields[k].text)
                              /\ fields[k].tier # 0 => fields[k].tier \in T

\* Every row of the matrix has its row, and every column its tier.
Reaches(rows, tiers, startRow, startTier, namesFirst, matrix, E, T) ==
  /\ \A r \in DOMAIN matrix : rows[startRow + r - 1] \in E
  /\ \A r \in DOMAIN matrix : \A c \in DOMAIN matrix[r] :
       IF namesFirst THEN c # 1 => tiers[startTier + c - 2] \in T ELSE tiers[startTier + c - 1] \in T

\* Every field of a matrix names a row and a tier that are there.
LEMMA FieldsReach ==
  ASSUME NEW rows, NEW tiers, NEW startRow, NEW startTier, NEW namesFirst, NEW matrix, IsMatrix(matrix), NEW E, NEW T,
         Reaches(rows, tiers, startRow, startTier, namesFirst, matrix, E, T)
  PROVE  AreFields(Fields(rows, tiers, startRow, startTier, namesFirst, matrix), E, T)
<1> DEFINE tier(c) == IF ~namesFirst THEN tiers[startTier + c - 1]
                      ELSE IF c = 1 THEN 0 ELSE tiers[startTier + c - 2]
           row(r) == [c \in DOMAIN matrix[r] |->
                        [entry |-> rows[startRow + r - 1], tier |-> tier(c), text |-> matrix[r][c]]]
           all == [r \in DOMAIN matrix |-> row(r)]
           F == FlattenSeq(all)
<1>1. Fields(rows, tiers, startRow, startTier, namesFirst, matrix) = F
  BY DEF Fields
<1>2. /\ Len(matrix) \in Nat /\ DOMAIN matrix = 1..Len(matrix)
      /\ \A r \in DOMAIN matrix : /\ Len(matrix[r]) \in Nat /\ DOMAIN matrix[r] = 1..Len(matrix[r])
                                  /\ \A c \in DOMAIN matrix[r] : IsExpected(matrix[r][c])
  BY ArrayParts DEF IsMatrix
<1>3. ASSUME NEW r \in DOMAIN matrix, NEW c \in DOMAIN matrix[r] PROVE tier(c) # 0 => tier(c) \in T
  BY DEF Reaches
<1> HIDE DEF tier
<1>4. ASSUME NEW r \in DOMAIN matrix
      PROVE  /\ IsArray(row(r)) /\ DOMAIN row(r) = DOMAIN matrix[r]
             /\ \A c \in DOMAIN matrix[r] :
                  row(r)[c] = [entry |-> rows[startRow + r - 1], tier |-> tier(c), text |-> matrix[r][c]]
  <2> DEFINE g == row(r)
  <2>1. g = [c \in 1..Len(matrix[r]) |-> g[c]] /\ Len(matrix[r]) \in Nat
    BY <1>2
  <2>2. \A c \in DOMAIN matrix[r] :
          g[c] = [entry |-> rows[startRow + r - 1], tier |-> tier(c), text |-> matrix[r][c]]
    OBVIOUS
  <2> HIDE DEF g
  <2>3. IsArray(g) /\ DOMAIN g = 1..Len(matrix[r])
    BY <2>1, ArrayOfLength
  <2> QED
    BY <1>2, <2>2, <2>3 DEF g
<1> HIDE DEF row
<1>5. all = [r \in 1..Len(matrix) |-> all[r]] /\ \A r \in DOMAIN matrix : all[r] = row(r)
  BY <1>2
<1> HIDE DEF all
<1>6. IsArray(all) /\ DOMAIN all = DOMAIN matrix
  BY <1>2, <1>5, ArrayOfLength
<1>7. \A r \in DOMAIN all : IsArray(all[r])
  BY <1>4, <1>5, <1>6
<1>8. IsArray(F) /\ \A x : x \in ToSet(F) <=> \E r \in DOMAIN all : x \in ToSet(all[r])
  BY <1>6, <1>7, FlattenParts
<1> HIDE DEF F
<1>9. ASSUME NEW k \in DOMAIN F
      PROVE  F[k].entry \in E /\ IsExpected(F[k].text) /\ (F[k].tier # 0 => F[k].tier \in T)
  <2>1. F[k] \in ToSet(F)
    BY DEF ToSet
  <2>2. PICK r \in DOMAIN matrix : F[k] \in ToSet(row(r))
    BY <1>5, <1>6, <1>8, <2>1
  <2>3. PICK c \in DOMAIN matrix[r] : F[k] = row(r)[c]
    BY <1>4, <2>2 DEF ToSet
  <2>4. F[k] = [entry |-> rows[startRow + r - 1], tier |-> tier(c), text |-> matrix[r][c]]
    BY <1>4, <2>3
  <2>5. F[k].entry = rows[startRow + r - 1] /\ F[k].tier = tier(c) /\ F[k].text = matrix[r][c]
    BY <2>4
  <2> QED
    BY <1>2, <1>3, <2>5 DEF Reaches
<1> QED
  BY <1>1, <1>8, <1>9 DEF AreFields

\* Pasting a matrix keeps the draft sound, and never leaves a score and a text in one cell.
LEMMA PasteKeeps ==
  ASSUME SessionSafe, draft # None, NEW startRow \in Nat \ {0}, NEW startTier \in Nat \ {0}, NEW namesFirst \in BOOLEAN,
         NEW matrix, IsMatrix(matrix), NEW s, s = PasteRows(startRow, startTier, namesFirst, matrix)
  PROVE  Good(s.draft, DOMAIN s.inputs) /\ AreCells(DOMAIN s.inputs)
<1> DEFINE order == VisibleOrder(draft)
           n == Len(order)
           m == Len(draft.tiers)
           width == Width(matrix) - (IF namesFirst THEN 1 ELSE 0)
           R == Max({0, startRow - 1 + Len(matrix) - n})
           K == Max({0, startTier - 1 + width - m})
           grown == Grown(R, K)
           s0 == [draft |-> grown, inputs |-> inputs]
           seen == [i \in DOMAIN order |-> order[i].id]
           rows == seen \o NewRows(R, K)
           tiers == [i \in DOMAIN grown.tiers |-> grown.tiers[i].id]
           fields == Fields(rows, tiers, startRow, startTier, namesFirst, matrix)
           E == EntryIds(grown)
           T == TierIds(grown)
<1>1. s = WriteFields(s0, fields)
  BY DEF PasteRows, Grown, NewRows, NewTiers
<1>2. Good(draft, DOMAIN inputs) /\ AreCells(DOMAIN inputs)
  BY OpenDraft
<1>3. IsArray(order) /\ IdsOf(order) = EntryIds(draft) /\ n \in Nat /\ DOMAIN order = 1..n
  BY <1>2, InView, ArrayParts
<1>4. IsArray(draft.tiers) /\ m \in Nat /\ DOMAIN draft.tiers = 1..m
  BY <1>2, ArrayParts DEF Good, GoodTiers
<1>5. /\ Width(matrix) \in Nat /\ \A r \in DOMAIN matrix : Width(matrix) >= Len(matrix[r])
      /\ Len(matrix) \in Nat /\ DOMAIN matrix = 1..Len(matrix)
      /\ \A r \in DOMAIN matrix : Len(matrix[r]) \in Nat /\ DOMAIN matrix[r] = 1..Len(matrix[r])
  BY WidthBounds, ArrayParts DEF IsMatrix
<1> HIDE DEF n, m, order
<1>6. width \in Int /\ Width(matrix) = width + (IF namesFirst THEN 1 ELSE 0)
  BY <1>5
<1> HIDE DEF width
<1>7. R \in Nat /\ R >= startRow - 1 + Len(matrix) - n
  BY <1>3, <1>5, NotNegative
<1>8. K \in Nat /\ K >= startTier - 1 + width - m
  BY <1>4, <1>6, NotNegative
<1> HIDE DEF R, K
<1>9. /\ Good(grown, DOMAIN inputs) /\ NoGroup \notin Ids(grown)
      /\ EntryIds(draft) \subseteq E /\ ToSet(NewRows(R, K)) \subseteq E
      /\ IsArray(NewRows(R, K)) /\ Len(NewRows(R, K)) = R
      /\ IsArray(grown.tiers) /\ Len(grown.tiers) = m + K
  BY <1>7, <1>8, GrownKeeps DEF m
<1> HIDE DEF grown
<1>10. IsArray(seen) /\ Len(seen) = n /\ DOMAIN seen = 1..n /\ \A i \in 1..n : seen[i] \in EntryIds(draft)
  <2>1. seen = [i \in 1..n |-> seen[i]] /\ \A i \in 1..n : seen[i] = order[i].id
    BY <1>3
  <2> HIDE DEF seen
  <2>2. IsArray(seen) /\ Len(seen) = n /\ DOMAIN seen = 1..n
    BY <1>3, <2>1, ArrayOfLength
  <2> QED
    BY <1>3, <2>1, <2>2 DEF IdsOf
<1> HIDE DEF seen
<1>11. ASSUME NEW i \in 1..(n + R) PROVE rows[i] \in E
  <2> DEFINE new == NewRows(R, K)
  <2>1. /\ \A j \in 1..n : (seen \o new)[j] = seen[j]
        /\ \A j \in 1..R : (seen \o new)[n + j] = new[j]
    BY <1>9, <1>10, JoinedArrays
  <2>2. \A j \in 1..R : new[j] \in E
    BY <1>9, ArrayParts DEF ToSet
  <2> HIDE DEF new
  <2>3. CASE i \in 1..n
    BY <1>9, <1>10, <2>1, <2>3 DEF new
  <2>4. CASE i \notin 1..n
    <3>1. PICK j \in 1..R : i = n + j
      BY <1>3, <1>7, <2>4
    <3> QED
      BY <2>1, <2>2, <3>1 DEF new
  <2> QED
    BY <2>3, <2>4
<1>12. ASSUME NEW i \in 1..(m + K) PROVE tiers[i] \in T
  BY <1>9, ArrayParts DEF TierIds, IdsOf
<1> HIDE DEF rows, tiers
<1>13. ASSUME NEW r \in DOMAIN matrix PROVE rows[startRow + r - 1] \in E
  BY <1>3, <1>5, <1>7, <1>11
<1>14. ASSUME NEW r \in DOMAIN matrix, NEW c \in DOMAIN matrix[r]
       PROVE  IF namesFirst THEN c # 1 => tiers[startTier + c - 2] \in T ELSE tiers[startTier + c - 1] \in T
  <2>1. c \in Nat /\ 1 <= c /\ c <= Width(matrix)
    BY <1>5
  <2>2. CASE namesFirst
    <3>1. ASSUME c # 1 PROVE startTier + c - 2 \in 1..(m + K)
      BY <1>4, <1>5, <1>6, <1>8, <2>1, <2>2, <3>1
    <3> QED
      BY <1>12, <2>2, <3>1
  <2>3. CASE ~namesFirst
    BY <1>4, <1>5, <1>6, <1>8, <2>1, <2>3, <1>12
  <2> QED
    BY <2>2, <2>3
<1>15. Reaches(rows, tiers, startRow, startTier, namesFirst, matrix, E, T)
  BY <1>13, <1>14 DEF Reaches
<1>16. AreFields(fields, E, T)
  BY <1>15, FieldsReach
<1> HIDE DEF fields
<1>17. s0.draft = grown /\ s0.inputs = inputs
  OBVIOUS
<1> HIDE DEF s0
<1>18. Writes(WriteFields(s0, fields), s0)
  BY <1>16, <1>17, <1>2, <1>9, WriteAll DEF AreFields, Writable
<1> QED
  BY <1>1, <1>18 DEF Writes

\* Pasting a header names tiers, and adds those that are missing.
LEMMA HeaderKeeps ==
  ASSUME SessionSafe, draft # None, NEW missing \in Nat, NEW names, NEW start \in Nat \ {0},
         IsArray(names), \A c \in DOMAIN names : IsExpected(names[c]), NEW b,
         LET new == FreshIds(missing)
             grown == draft.tiers \o [i \in 1..missing |-> [id |-> new[i], name |-> Blank]]
         IN b = [draft EXCEPT !.tiers = [i \in DOMAIN grown |->
                   IF i \in start..(start + Len(names) - 1)
                   THEN [grown[i] EXCEPT !.name = names[i - start + 1]] ELSE grown[i]]]
  PROVE  Good(b, DOMAIN inputs)
<1> DEFINE f == FreshIds(missing)
           new == Unnamed(missing, f)
           grown == draft.tiers \o new
           K(i) == i \in start..(start + Len(names) - 1)
           name(i) == names[i - start + 1]
           tiers == [i \in DOMAIN grown |-> IF K(i) THEN [grown[i] EXCEPT !.name = name(i)] ELSE grown[i]]
<1>1. b = [draft EXCEPT !.tiers = tiers]
  BY DEF Unnamed
<1>2. Good(draft, DOMAIN inputs) /\ GoodTiers(draft.tiers) /\ IdsOf(draft.tiers) \subseteq Ids(draft)
  BY OpenDraft DEF Good, Ids
<1>3. /\ \A i, j \in 1..missing : f[i] = f[j] => i = j
      /\ \A i \in 1..missing : f[i] \notin Ids(draft)
  BY FreshIdsAreFresh
<1> HIDE DEF f
<1>4. GoodTiers(new) /\ \A x \in IdsOf(new) : \E i \in 1..missing : x = f[i]
  BY <1>3, UnnamedAreGood
<1> HIDE DEF new
<1>5. IdsOf(new) \cap Ids(draft) = {}
  BY <1>3, <1>4
<1>6. GoodTiers(grown) /\ IdsOf(grown) = IdsOf(draft.tiers) \cup IdsOf(new)
  BY <1>2, <1>4, <1>5, JoinedTiers
<1> HIDE DEF grown
<1>7. Len(names) \in Nat /\ DOMAIN names = 1..Len(names) /\ DOMAIN grown = 1..Len(grown) /\ Len(grown) \in Nat
  BY <1>6, ArrayParts DEF GoodTiers
<1>8. ASSUME NEW i \in DOMAIN grown, K(i) PROVE IsExpected(name(i))
  BY <1>7, <1>8
<1>9. tiers = [i \in DOMAIN grown |-> tiers[i]]
      /\ \A i \in DOMAIN grown : tiers[i] = IF K(i) THEN [grown[i] EXCEPT !.name = name(i)] ELSE grown[i]
  OBVIOUS
<1> HIDE DEF K, name, tiers
<1>10. ASSUME NEW i \in DOMAIN grown PROVE IsTier(tiers[i]) /\ tiers[i].id = grown[i].id
  <2>1. grown[i] = [id |-> grown[i].id, name |-> grown[i].name] /\ IsExpected(grown[i].name)
    BY <1>6 DEF GoodTiers, IsTier
  <2>2. CASE K(i)
    BY <1>9, <2>2, <2>1, <1>8 DEF IsTier
  <2>3. CASE ~K(i)
    BY <1>9, <2>1, <2>3 DEF IsTier
  <2> QED
    BY <2>2, <2>3
<1>11. GoodTiers(tiers) /\ IdsOf(tiers) = IdsOf(grown)
  BY <1>6, <1>9, <1>10, RenamedTiers DEF TiersRenamed
<1>12. LET b2 == [draft EXCEPT !.tiers = tiers] IN Good(b2, DOMAIN inputs)
  BY <1>6, <1>11, <1>2, <1>5, TiersKeep
<1> QED
  BY <1>1, <1>12

MatricesAreMatrices == \A matrix \in Matrices : IsMatrix(matrix)

\* Pasting keeps the session safe: a matrix,
LEMMA PasteTextSafe == ASSUME SessionSafe, MatricesAreMatrices, PasteText PROVE SessionSafe'
<1>1. draft # None
  BY DEF PasteText, MayEdit
<1>2. PICK matrix \in Matrices :
        \/ \E row \in 1..(Len(VisibleOrder(draft)) + 1) :
             LET s == PasteRows(row, 1, TRUE, matrix) IN Commit(s.draft, s.inputs)
        \/ \E row \in DOMAIN VisibleOrder(draft), tier \in DOMAIN draft.tiers :
             LET s == PasteRows(row, tier, FALSE, matrix) IN Commit(s.draft, s.inputs)
  BY DEF PasteText
<1>3. IsMatrix(matrix)
  BY DEF MatricesAreMatrices
<1>4. /\ Len(VisibleOrder(draft)) \in Nat /\ DOMAIN VisibleOrder(draft) = 1..Len(VisibleOrder(draft))
      /\ Len(draft.tiers) \in Nat /\ DOMAIN draft.tiers = 1..Len(draft.tiers)
  BY <1>1, OpenDraft, InView, ArrayParts DEF Good, GoodTiers
<1>5. CASE \E row \in 1..(Len(VisibleOrder(draft)) + 1) :
             LET s == PasteRows(row, 1, TRUE, matrix) IN Commit(s.draft, s.inputs)
  <2>1. PICK row \in 1..(Len(VisibleOrder(draft)) + 1) :
          LET s == PasteRows(row, 1, TRUE, matrix) IN Commit(s.draft, s.inputs)
    BY <1>5
  <2> DEFINE s == PasteRows(row, 1, TRUE, matrix)
  <2>2. row \in Nat \ {0} /\ 1 \in Nat \ {0} /\ TRUE \in BOOLEAN
    BY <1>4
  <2>3. Commit(s.draft, s.inputs)
    BY <2>1
  <2>4. Good(s.draft, DOMAIN s.inputs) /\ AreCells(DOMAIN s.inputs)
    BY <1>1, <1>3, <2>2, PasteKeeps
  <2> HIDE DEF s
  <2> QED
    BY <1>1, <2>3, <2>4, CommitSafe
<1>6. CASE \E row \in DOMAIN VisibleOrder(draft), tier \in DOMAIN draft.tiers :
             LET s == PasteRows(row, tier, FALSE, matrix) IN Commit(s.draft, s.inputs)
  <2>1. PICK row \in DOMAIN VisibleOrder(draft), tier \in DOMAIN draft.tiers :
          LET s == PasteRows(row, tier, FALSE, matrix) IN Commit(s.draft, s.inputs)
    BY <1>6
  <2> DEFINE s == PasteRows(row, tier, FALSE, matrix)
  <2>2. row \in Nat \ {0} /\ tier \in Nat \ {0} /\ FALSE \in BOOLEAN
    BY <1>4
  <2>3. Commit(s.draft, s.inputs)
    BY <2>1
  <2>4. Good(s.draft, DOMAIN s.inputs) /\ AreCells(DOMAIN s.inputs)
    BY <1>1, <1>3, <2>2, PasteKeeps
  <2> HIDE DEF s
  <2> QED
    BY <1>1, <2>3, <2>4, CommitSafe
<1> QED
  BY <1>2, <1>5, <1>6

\* and a header.
LEMMA PasteHeaderSafe == ASSUME SessionSafe, MatricesAreMatrices, PasteHeader PROVE SessionSafe'
<1>1. draft # None
  BY DEF PasteHeader, MayEdit
<1> DEFINE Names1(matrix) == matrix[1]
           Missing(matrix, start) == Max({0, start - 1 + Len(matrix[1]) - Len(draft.tiers)})
           Grown1(matrix, start) == draft.tiers \o [i \in 1..Missing(matrix, start) |->
                                      [id |-> FreshIds(Missing(matrix, start))[i], name |-> Blank]]
           Result(matrix, start) ==
             [draft EXCEPT !.tiers = [i \in DOMAIN Grown1(matrix, start) |->
                IF i \in start..(start + Len(matrix[1]) - 1)
                THEN [Grown1(matrix, start)[i] EXCEPT !.name = matrix[1][i - start + 1]] ELSE Grown1(matrix, start)[i]]]
<1>2. PICK matrix \in Matrices, start \in 1..(Len(draft.tiers) + 1) :
        Len(matrix) = 1 /\ Commit(Result(matrix, start), inputs)
  BY DEF PasteHeader
<1> DEFINE missing == Missing(matrix, start)
           names == matrix[1]
           b == Result(matrix, start)
<1>3. IsMatrix(matrix)
  BY DEF MatricesAreMatrices
<1>4. Len(draft.tiers) \in Nat
  BY <1>1, OpenDraft, ArrayParts DEF Good, GoodTiers
<1>5. start \in Nat \ {0}
  BY <1>4
<1>6. IsArray(names) /\ Len(names) \in Nat /\ \A c \in DOMAIN names : IsExpected(names[c])
  BY <1>2, <1>3, ArrayParts DEF IsMatrix
<1>7. missing \in Nat
  <2>1. start - 1 + Len(matrix[1]) - Len(draft.tiers) \in Int
    BY <1>4, <1>5, <1>6
  <2> QED
    BY <2>1, NotNegative
<1>8. b = Result(matrix, start) /\ Commit(b, inputs)
  BY <1>2
<1>9. Good(b, DOMAIN inputs) /\ AreCells(DOMAIN inputs)
  <2> HIDE DEF Missing
  <2>1. LET new == FreshIds(missing)
            grown == draft.tiers \o [i \in 1..missing |-> [id |-> new[i], name |-> Blank]]
        IN b = [draft EXCEPT !.tiers = [i \in DOMAIN grown |->
                   IF i \in start..(start + Len(names) - 1)
                   THEN [grown[i] EXCEPT !.name = names[i - start + 1]] ELSE grown[i]]]
    OBVIOUS
  <2> HIDE DEF Result, missing, names
  <2> QED
    BY <1>1, <1>5, <1>6, <1>7, <2>1, HeaderKeeps, OpenDraft, ZenonT(40)
<1> HIDE DEF Result
<1> QED
  BY <1>1, <1>8, <1>9, CommitSafe

\* A field ends behind its start, and within the text or right after it.
LEMMA FieldEnds ==
  ASSUME NEW text, Len(text) \in Nat, NEW i \in 1..(Len(text) + 1)
  PROVE  FieldEnd(text, i) \in i..(Len(text) + 1)
<1> DEFINE n == Len(text)
<1>0. ASSUME NEW S, S \subseteq Nat, S # {} PROVE Min(S) \in S
  <2> DEFINE m == CHOOSE x \in S : \A y \in S : x =< y
  <2>1. \E x \in S : \A y \in S : x =< y
    BY <1>0, LeastExists
  <2>2. m \in S
    BY <2>1
  <2>3. Min(S) = m
    BY DEF Min
  <2> QED
    BY <2>2, <2>3
<1>1. CASE IsQuoted(text, i)
  <2> DEFINE S == ClosingQuotes(text, i)
  <2>1. S # {}
    BY <1>1 DEF IsQuoted
  <2>2. S \subseteq (i + 1)..n /\ S \subseteq Nat
    BY DEF ClosingQuotes
  <2>3. ClosingQuote(text, i) = Min(S)
    BY DEF ClosingQuote
  <2> HIDE DEF S
  <2>4. ClosingQuote(text, i) \in (i + 1)..n
    BY <1>0, <2>1, <2>2, <2>3
  <2>5. FieldEnd(text, i) = ClosingQuote(text, i) + 1
    BY <1>1 DEF FieldEnd
  <2> QED
    BY <2>4, <2>5
<1>2. CASE ~IsQuoted(text, i)
  <2> DEFINE S == {j \in i..n : text[j] \in Delimiters} \cup {n + 1}
  <2>1. S # {} /\ S \subseteq i..(n + 1) /\ S \subseteq Nat
    OBVIOUS
  <2>2. FieldEnd(text, i) = Min(S)
    BY <1>2 DEF FieldEnd
  <2> HIDE DEF S
  <2>3. Min(S) \in S
    BY <1>0, <2>1
  <2> QED
    BY <2>1, <2>2, <2>3
<1> QED
  BY <1>1, <1>2

\* The rows from the field at i on, given the rows from the later ones on.
RowsFrom(rows, text, i) ==
  LET end == FieldEnd(text, i)
      field == <<FieldText(text, i)>>
      next == end + (IF end < Len(text) /\ text[end] = "\r" /\ text[end + 1] = "\n" THEN 2 ELSE 1)
  IN CASE end > Len(text) -> <<field>>
       [] end <= Len(text) /\ text[end] = "\t" -> <<field \o Head(rows[end + 1])>> \o Tail(rows[end + 1])
       [] OTHER -> <<field>> \o (IF next > Len(text) THEN <<>> ELSE rows[next])

\* The rows from a position on depend on the rows from later positions only.
LEMMA RowsFromLater ==
  ASSUME NEW text, Len(text) \in Nat, NEW i \in 1..(Len(text) + 1), NEW f, NEW g,
         \A j \in (i + 1)..(Len(text) + 1) : f[j] = g[j]
  PROVE  RowsFrom(f, text, i) = RowsFrom(g, text, i)
<1> DEFINE n == Len(text)
           end == FieldEnd(text, i)
           field == <<FieldText(text, i)>>
           next == end + (IF end < n /\ text[end] = "\r" /\ text[end + 1] = "\n" THEN 2 ELSE 1)
<1>1. end \in Nat /\ i <= end /\ end <= n + 1
  BY FieldEnds
<1>2. next = end + 1 \/ next = end + 2
  OBVIOUS
<1> HIDE DEF end, next
<1>3. next \in Nat /\ i + 1 <= next
  BY <1>1, <1>2
<1>4. end <= n => f[end + 1] = g[end + 1]
  BY <1>1
<1>5. ~(next > n) => f[next] = g[next]
  BY <1>3
<1> QED
  BY <1>1, <1>4, <1>5 DEF RowsFrom, end, next

Parsed(f, text, m) == f = [i \in m..(Len(text) + 1) |-> RowsFrom(f, text, i)]

\* So they exist for the whole text.
LEMMA ParsedExists ==
  ASSUME NEW text, Len(text) \in Nat
  PROVE  \E f : Parsed(f, text, 1)
<1> DEFINE n == Len(text)
           Bad == {d \in 0..n : ~\E f : Parsed(f, text, n + 1 - d)}
<1>1. Bad = {}
  <2>1. SUFFICES ASSUME Bad # {} PROVE FALSE
    OBVIOUS
  <2>2. PICK d \in Bad : \A k \in Bad : d <= k
    <3>1. Bad \subseteq Nat
      OBVIOUS
    <3> HIDE DEF Bad
    <3> QED
      BY <2>1, <3>1, LeastExists
  <2>3. d \in 0..n /\ ~\E f : Parsed(f, text, n + 1 - d)
    OBVIOUS
  <2>4. \E f : \A i \in (n + 2 - d)..(n + 1) : f[i] = RowsFrom(f, text, i)
    <3>1. CASE d = 0
      BY <3>1
    <3>2. CASE d # 0
      <4>1. d - 1 \in 0..n /\ ~(d <= d - 1) /\ n + 1 - (d - 1) = n + 2 - d
        BY <2>3, <3>2
      <4>2. d - 1 \notin Bad
        BY <2>2, <4>1
      <4>3. PICK f : Parsed(f, text, n + 1 - (d - 1))
        BY <4>1, <4>2
      <4>4. f = [i \in (n + 2 - d)..(n + 1) |-> RowsFrom(f, text, i)]
        BY <4>1, <4>3 DEF Parsed
      <4>5. \A i \in (n + 2 - d)..(n + 1) : f[i] = RowsFrom(f, text, i)
        BY <4>4
      <4> QED
        BY <4>5
    <3> QED
      BY <3>1, <3>2
  <2>5. PICK f : \A i \in (n + 2 - d)..(n + 1) : f[i] = RowsFrom(f, text, i)
    BY <2>4
  <2> DEFINE m == n + 1 - d
             g == [i \in m..(n + 1) |-> IF i = m THEN RowsFrom(f, text, m) ELSE f[i]]
  <2>6. m \in 1..(n + 1) /\ m + 1 = n + 2 - d
    BY <2>3
  <2> HIDE DEF Bad, m
  <2>7. \A i \in (m + 1)..(n + 1) : i \in m..(n + 1) /\ i # m
    BY <2>6
  <2>8. /\ g = [i \in m..(n + 1) |-> g[i]]
        /\ g[m] = RowsFrom(f, text, m) /\ \A i \in (m + 1)..(n + 1) : g[i] = f[i]
    BY <2>6, <2>7
  <2> HIDE DEF g
  <2>9. ASSUME NEW i \in m..(n + 1) PROVE g[i] = RowsFrom(g, text, i)
    <3>1. i \in 1..(n + 1) /\ \A j \in (i + 1)..(n + 1) : j \in (m + 1)..(n + 1)
      BY <2>6
    <3>2. \A j \in (i + 1)..(n + 1) : g[j] = f[j]
      BY <2>8, <3>1
    <3>3. RowsFrom(g, text, i) = RowsFrom(f, text, i)
      BY <3>1, <3>2, RowsFromLater
    <3>4. CASE i = m
      BY <2>8, <3>3, <3>4
    <3>5. CASE i # m
      <4>1. i \in (m + 1)..(n + 1)
        BY <2>6, <3>5
      <4> QED
        BY <2>5, <2>6, <2>8, <3>3, <4>1
    <3> QED
      BY <3>4, <3>5
  <2>10. Parsed(g, text, m)
    BY <2>8, <2>9 DEF Parsed
  <2> QED
    BY <2>3, <2>10 DEF m
<1>2. n \in 0..n /\ n + 1 - n = 1
  OBVIOUS
<1>3. \E f : Parsed(f, text, n + 1 - n)
  BY <1>1, <1>2
<1> QED
  BY <1>2, <1>3

\* Rows of fields, none of them empty.
AreRows(rows) ==
  /\ IsArray(rows) /\ Len(rows) # 0
  /\ \A r \in DOMAIN rows : IsArray(rows[r]) /\ Len(rows[r]) # 0

\* One row before others.
LEMMA RowBefore ==
  ASSUME NEW row, IsArray(row), Len(row) # 0, NEW rest, IsArray(rest),
         \A r \in DOMAIN rest : IsArray(rest[r]) /\ Len(rest[r]) # 0
  PROVE  AreRows(<<row>> \o rest)
<1> DEFINE one == <<row>>
           all == one \o rest
<1>1. IsArray(one) /\ Len(one) = 1 /\ ToSet(one) = {row}
  BY OneArray
<1> HIDE DEF one
<1>2. /\ IsArray(all) /\ Len(all) = Len(one) + Len(rest) /\ ToSet(all) = ToSet(one) \cup ToSet(rest)
  BY <1>1, JoinedArrays
<1>3. Len(rest) \in Nat
  BY ArrayParts
<1>4. Len(all) # 0
  BY <1>1, <1>2, <1>3
<1>5. ASSUME NEW r \in DOMAIN all PROVE IsArray(all[r]) /\ Len(all[r]) # 0
  BY <1>1, <1>2 DEF ToSet
<1> QED
  BY <1>2, <1>4, <1>5 DEF AreRows, all, one

\* The first element of an array, and the others.
LEMMA ArrayEnds ==
  ASSUME NEW s, IsArray(s), Len(s) # 0
  PROVE  /\ IsArray(Tail(s)) /\ 1 \in DOMAIN s /\ Head(s) = s[1]
         /\ \A k \in DOMAIN Tail(s) : \E l \in DOMAIN s : Tail(s)[k] = s[l]
<1> DEFINE S == ToSet(s)
           t == Tail(s)
<1>1. s \in Seq(S)
  BY DEF IsArray
<1>2. Len(s) \in Nat /\ DOMAIN s = 1..Len(s)
  BY ArrayParts
<1> HIDE DEF S
<1>3. s # <<>>
  BY EmptyArray
<1>4. t \in Seq(S) /\ Len(t) = Len(s) - 1 /\ \A i \in 1..Len(t) : t[i] = s[i + 1]
  BY <1>1, <1>3, HeadTailProperties
<1>5. Head(s) = s[1]
  BY <1>1, <1>3
<1> HIDE DEF t
<1>6. Len(t) \in Nat /\ DOMAIN t = 1..Len(t) /\ t = [i \in 1..Len(t) |-> t[i]]
  BY <1>4
<1>7. IsArray(t)
  BY <1>6, ArrayIs
<1>8. \A k \in 1..Len(t) : k + 1 \in DOMAIN s /\ t[k] = s[k + 1]
  BY <1>2, <1>4
<1>9. \A k \in DOMAIN t : \E l \in DOMAIN s : t[k] = s[l]
  BY <1>6, <1>8
<1> QED
  BY <1>2, <1>5, <1>7, <1>9 DEF t

\* If the later rows are rows, so are those from here on.
LEMMA RowsKeepShape ==
  ASSUME NEW text, Len(text) \in Nat, NEW i \in 1..(Len(text) + 1), NEW f,
         \A j \in (i + 1)..(Len(text) + 1) : AreRows(f[j])
  PROVE  AreRows(RowsFrom(f, text, i))
<1> DEFINE n == Len(text)
           end == FieldEnd(text, i)
           field == <<FieldText(text, i)>>
           next == end + (IF end < n /\ text[end] = "\r" /\ text[end + 1] = "\n" THEN 2 ELSE 1)
           none == <<>>
           R == f[end + 1]
           rest == IF next > n THEN none ELSE f[next]
<1>1. end \in Nat /\ i <= end /\ end <= n + 1
  BY FieldEnds
<1>2. next = end + 1 \/ next = end + 2
  OBVIOUS
<1>3. IsArray(field) /\ Len(field) = 1
  BY OneArray
<1>4. IsArray(none) /\ Len(none) = 0
  BY EmptyArray
<1>5. \A r \in DOMAIN none : FALSE
  BY <1>4, ArrayParts
<1>6. \/ end > n /\ RowsFrom(f, text, i) = <<field>>
      \/ end <= n /\ text[end] = "\t" /\ RowsFrom(f, text, i) = <<field \o Head(R)>> \o Tail(R)
      \/ end <= n /\ RowsFrom(f, text, i) = <<field>> \o rest
  <2>1. end > n \/ end <= n
    BY <1>1
  <2> QED
    BY <2>1 DEF RowsFrom
<1> HIDE DEF end, next, field, none, rest
<1>7. CASE end > n /\ RowsFrom(f, text, i) = <<field>>
  <2>1. AreRows(<<field>>)
    <3> DEFINE one == <<field>>
    <3>1. IsArray(one) /\ Len(one) = 1 /\ ToSet(one) = {field}
      BY OneArray
    <3> HIDE DEF one
    <3>2. \A r \in DOMAIN one : one[r] = field
      BY <3>1 DEF ToSet
    <3>3. \A r \in DOMAIN one : IsArray(one[r]) /\ Len(one[r]) # 0
      BY <1>3, <3>2
    <3>4. AreRows(one)
      BY <3>1, <3>3 DEF AreRows
    <3> QED
      BY <3>4 DEF one
  <2> QED
    BY <1>7, <2>1
<1>8. CASE end <= n /\ text[end] = "\t" /\ RowsFrom(f, text, i) = <<field \o Head(R)>> \o Tail(R)
  <2>1. AreRows(R)
    BY <1>1, <1>8
  <2> HIDE DEF R
  <2>2. /\ IsArray(Tail(R)) /\ 1 \in DOMAIN R /\ Head(R) = R[1]
        /\ \A k \in DOMAIN Tail(R) : \E l \in DOMAIN R : Tail(R)[k] = R[l]
    BY <2>1, ArrayEnds DEF AreRows
  <2>3. IsArray(Head(R)) /\ Len(Head(R)) \in Nat
    BY <2>1, <2>2, ArrayParts DEF AreRows
  <2>4. IsArray(field \o Head(R)) /\ Len(field \o Head(R)) = Len(field) + Len(Head(R))
    BY <1>3, <2>3, JoinedArrays
  <2> DEFINE row == field \o Head(R)
             tail == Tail(R)
  <2>5. IsArray(row) /\ Len(row) # 0
    BY <1>3, <2>3, <2>4
  <2>6. \A k \in DOMAIN tail : IsArray(tail[k]) /\ Len(tail[k]) # 0
    BY <2>1, <2>2 DEF AreRows
  <2> HIDE DEF row, tail
  <2>7. AreRows(<<row>> \o tail)
    BY <2>2, <2>5, <2>6, RowBefore DEF tail
  <2> QED
    BY <1>8, <2>7 DEF row, tail
<1>9. CASE end <= n /\ RowsFrom(f, text, i) = <<field>> \o rest
  <2>1. IsArray(rest) /\ \A r \in DOMAIN rest : IsArray(rest[r]) /\ Len(rest[r]) # 0
    <3>1. CASE next > n
      BY <1>4, <1>5, <3>1 DEF rest
    <3>2. CASE ~(next > n)
      BY <1>1, <1>2, <3>2 DEF rest, AreRows
    <3> QED
      BY <3>1, <3>2
  <2>2. AreRows(<<field>> \o rest)
    BY <1>3, <2>1, RowBefore
  <2> QED
    BY <1>9, <2>2
<1> QED
  BY <1>6, <1>7, <1>8, <1>9

\* What is parsed of a clipboard is rows of fields, and none of them is empty.
LEMMA ClipIsRows ==
  ASSUME NEW text, IsArray(text), text # <<>>
  PROVE  AreRows(ParseClipboard(text))
<1> DEFINE n == Len(text)
           it == CHOOSE f : f = [i \in 1..(n + 1) |-> RowsFrom(f, text, i)]
<1>1. n \in Nat
  BY ArrayParts
<1>2. ParseClipboard(text) = it[1]
  BY DEF ParseClipboard, RowsFrom
<1>3. it = [i \in 1..(n + 1) |-> RowsFrom(it, text, i)]
  <2>1. PICK f : Parsed(f, text, 1)
    BY <1>1, ParsedExists
  <2>2. f = [i \in 1..(n + 1) |-> RowsFrom(f, text, i)]
    BY <2>1 DEF Parsed
  <2> QED
    BY <2>2
<1> HIDE DEF it, n
<1>4. \A i \in 1..(n + 1) : it[i] = RowsFrom(it, text, i)
  BY <1>3
<1> DEFINE Bad == {d \in 0..n : ~AreRows(it[n + 1 - d])}
<1>5. Bad = {}
  <2>1. SUFFICES ASSUME Bad # {} PROVE FALSE
    OBVIOUS
  <2>2. PICK d \in Bad : \A k \in Bad : d <= k
    <3>1. Bad \subseteq Nat
      BY <1>1
    <3> HIDE DEF Bad
    <3> QED
      BY <2>1, <3>1, LeastExists
  <2>3. d \in 0..n /\ ~AreRows(it[n + 1 - d])
    OBVIOUS
  <2> DEFINE m == n + 1 - d
  <2>4. m \in 1..(n + 1)
    BY <1>1, <2>3
  <2>5. ASSUME NEW j \in (m + 1)..(n + 1) PROVE AreRows(it[j])
    <3>1. n + 1 - j \in 0..n /\ ~(d <= n + 1 - j) /\ n + 1 - (n + 1 - j) = j
      BY <1>1, <2>3, <2>4
    <3>2. n + 1 - j \notin Bad
      BY <2>2, <3>1
    <3>3. AreRows(it[n + 1 - (n + 1 - j)])
      BY <3>1, <3>2
    <3> QED
      BY <3>1, <3>3
  <2> HIDE DEF Bad, m
  <2>6. AreRows(RowsFrom(it, text, m))
    BY <1>1, <2>4, <2>5, RowsKeepShape DEF n
  <2> QED
    BY <1>4, <2>3, <2>4, <2>6 DEF m
<1>6. n \in 0..n /\ n + 1 - n = 1
  BY <1>1
<1>7. AreRows(it[n + 1 - n])
  BY <1>5, <1>6
<1> QED
  BY <1>2, <1>6, <1>7

\* The matrices that are pasted are such rows, with texts.
LEMMA PastedMatrices == MatricesAreMatrices
<1> SUFFICES ASSUME NEW matrix \in Matrices PROVE IsMatrix(matrix)
  BY DEF MatricesAreMatrices
<1>1. PICK clip \in Clips : matrix = Matrix(clip) /\ matrix # <<>>
  BY DEF Matrices
<1> DEFINE rows == ParseClipboard(clip)
           n == Len(rows)
           Row(r) == [c \in DOMAIN rows[r] |-> Text(rows[r][c])]
<1>2. IsArray(clip)
  BY ClipsAssumption
<1>3. matrix = [r \in DOMAIN rows |-> Row(r)]
  BY <1>1 DEF Matrix
<1>4. clip # <<>>
  <2>1. SUFFICES ASSUME clip = <<>> PROVE FALSE
    OBVIOUS
  <2>2. rows = <<>>
    BY <2>1 DEF ParseClipboard
  <2> HIDE DEF rows
  <2>3. DOMAIN rows = 1..0
    BY <2>2, EmptyArray, ArrayParts
  <2>4. matrix = [r \in 1..0 |-> matrix[r]]
    BY <1>3, <2>3
  <2>5. IsArray(matrix) /\ Len(matrix) = 0
    BY <2>4, ArrayOfLength
  <2>6. matrix = <<>>
    BY <2>5, EmptyArray, SameArrays
  <2> QED
    BY <1>1, <2>6
<1>5. AreRows(rows)
  BY <1>2, <1>4, ClipIsRows
<1> HIDE DEF rows
<1>6. n \in Nat /\ DOMAIN rows = 1..n /\ n # 0
  BY <1>5, ArrayParts DEF AreRows
<1>7. matrix = [r \in 1..n |-> matrix[r]] /\ \A r \in 1..n : matrix[r] = Row(r)
  BY <1>3, <1>6
<1>8. IsArray(matrix) /\ Len(matrix) = n /\ DOMAIN matrix = 1..n
  BY <1>6, <1>7, ArrayOfLength
<1>9. ASSUME NEW r \in 1..n PROVE IsArray(matrix[r]) /\ Len(matrix[r]) # 0
  <2> DEFINE l == Len(rows[r])
  <2>1. l \in Nat /\ DOMAIN rows[r] = 1..l /\ l # 0
    BY <1>5, <1>6, ArrayParts DEF AreRows
  <2>2. Row(r) = [c \in 1..l |-> Row(r)[c]]
    BY <2>1
  <2> DEFINE g == Row(r)
  <2> HIDE DEF g, l
  <2>3. g = [c \in 1..l |-> g[c]]
    BY <2>2 DEF g
  <2>4. IsArray(g) /\ Len(g) = l
    BY <2>1, <2>3, ArrayOfLength
  <2>5. matrix[r] = g
    BY <1>7 DEF g
  <2> QED
    BY <2>1, <2>4, <2>5
<1>10. ASSUME NEW r \in 1..n, NEW c \in DOMAIN matrix[r] PROVE IsExpected(matrix[r][c])
  BY <1>8, ClipsAssumption DEF ToSet
<1> QED
  BY <1>6, <1>8, <1>9, <1>10 DEF IsMatrix

-----------------------------------------------------------------------------
(* Every step of the session.                                              *)

\* Every step of the window keeps the session safe.
LEMMA SessionStep == SessionSafe /\ [Next]_vars => SessionSafe'
<1> SUFFICES ASSUME SessionSafe, [Next]_vars PROVE SessionSafe'
  OBVIOUS
<1>1. CASE OpenBenchmark \/ BeginNewBenchmark \/ ImportPlaylist \/ Discard
  BY <1>1, OpenSafe, BeginSafe, ImportSafe, DiscardSafe
<1>2. CASE SetBenchmarkName \/ EditTiers \/ EditScenarios \/ EditGroups
  BY <1>2, NameSafe, TiersSafe, ScenariosSafe, GroupsSafe
<1>3. CASE EditCells
  BY <1>3, TextSafe, PasteTextSafe, PasteHeaderSafe, PastedMatrices DEF EditCells
<1>4. CASE Select \/ Focus \/ Publication
  BY <1>4, ClicksSafe
<1>5. CASE Undo \/ Save
  BY <1>5, UndoSafe, SaveSafe
<1>6. CASE UNCHANGED vars
  BY <1>6, StutterSafe
<1> QED
  BY <1>1, <1>2, <1>3, <1>4, <1>5, <1>6 DEF Next

\* A cell whose text is kept has no score in a benchmark that is sound with it.
LEMMA KeptHasNoScore ==
  ASSUME NEW b, NEW in, Safe(b, in), NEW key \in DOMAIN in, key[1] \in EntryIds(b)
  PROVE  ~HasThreshold(EntryOf(b, key[1]), key[2])
<1> DEFINE s == Entries(b)
           id == key[1]
           p == CHOOSE i \in DOMAIN s : s[i].id = id
           e == s[p]
<1>1. /\ Good(b, DOMAIN in) /\ key = <<key[1], key[2]>> /\ IsBenchmark(b)
  BY GoodIsBenchmark DEF Safe, AreCells
<1>2. \E i \in DOMAIN s : s[i].id = id
  BY DEF EntryIds, IdsOf
<1>3. p \in DOMAIN s /\ s[p].id = id
  BY <1>2
<1>4. EntryOf(b, id) = e
  BY DEF EntryOf, WithId, PositionOf
<1>5. e \in ToSet(s)
  BY <1>3 DEF ToSet
<1>6. e.id = id
  BY <1>3
<1> HIDE DEF e, p, s, id
<1>7. GoodEntry(e, TierIds(b), DOMAIN in)
  BY <1>1, <1>5, GoodEntries DEF s
<1>8. ASSUME NEW i \in DOMAIN e.thresholds, e.thresholds[i].tier = key[2] PROVE FALSE
  BY <1>7, <1>1, <1>6, <1>8 DEF ToSet, GoodEntry, Tied, id
<1> QED
  BY <1>4, <1>8 DEF HasThreshold, id

\* What is written of a safe benchmark is read as that benchmark.
LEMMA SafeIsReadBack ==
  ASSUME JsonValuesApart, NEW b, NEW in, Safe(b, in)
  PROVE  ClassifyBytes(Encode(b)).loaded = {b}
<1>1. NumbersExpected
  BY ValuesAssumption DEF NumbersExpected
<1> QED
  BY <1>1, SafeIds, ReadBack

\* A safe session is one in which every benchmark that is remembered is sound.
LEMMA SafeIsSound ==
  ASSUME JsonValuesApart, SessionSafe, RetainedPlaced
  PROVE  RememberedSound
<1> SUFFICES ASSUME draft # None PROVE RememberedSound
  BY DEF RememberedSound
<1> DEFINE Now == [draft |-> draft, inputs |-> inputs]
           Step(i) == [draft |-> history[i].draft, inputs |-> history[i].inputs]
<1>1. \A s \in Remembered : s = Now \/ \E i \in DOMAIN history : s = Step(i)
  BY DEF Remembered
<1>2. /\ Now.draft = draft /\ Now.inputs = inputs
      /\ \A i : Step(i).draft = history[i].draft /\ Step(i).inputs = history[i].inputs
  OBVIOUS
<1> HIDE DEF Now, Step
<1>3. ASSUME NEW s \in Remembered PROVE Safe(s.draft, s.inputs)
  BY <1>2, <1>1 DEF SessionSafe
<1>4. ASSUME NEW b \in ({s.draft : s \in Remembered} \cup {baseline}) \ {None}
      PROVE  ClassifyBytes(Encode(b)).loaded = {b}
  BY <1>3, SafeIsReadBack DEF SessionSafe
<1>5. ASSUME NEW s \in Remembered, NEW key \in DOMAIN s.inputs PROVE ~HasThreshold(EntryOf(s.draft, key[1]), key[2])
  BY <1>3, KeptHasNoScore DEF RetainedPlaced
<1> QED
  BY <1>4, <1>5 DEF RememberedSound

-----------------------------------------------------------------------------
(* The table shows the draft.                                              *)

\* The entry of a row is found at its place, in its list and among all entries.
LEMMA EntryOfRow ==
  ASSUME NEW b, NEW B, Good(b, B), NEW v, v = ListsInView(b), NEW l \in DOMAIN v, NEW i \in DOMAIN v[l].scenarios,
         NEW e, e = v[l].scenarios[i], e \in ToSet(VisibleOrder(b))
  PROVE  /\ HomeOf(b, e.id) = v[l] /\ PositionOf(v[l].scenarios, e.id) = i
         /\ EntryOf(b, e.id) = e /\ e \in ToSet(Entries(b))
<1> DEFINE L == Lists(b)
           s == v[l].scenarios
           all == Entries(b)
<1>1. v[l] \in ToSet(L) /\ ListsApart(L) /\ Distinct(all) /\ e \in ToSet(all)
  BY InView DEF InOrder
<1>2. PICK m \in DOMAIN L : L[m] = v[l]
  BY <1>1 DEF ToSet
<1>3. e.id \in IdsOf(s) /\ s[i].id = e.id
  BY DEF IdsOf
<1>4. HomeOf(b, e.id) = v[l]
  BY <1>1, <1>2, <1>3 DEF ListsApart, HomeOf
<1>5. PositionOf(s, e.id) = i
  BY <1>1, <1>2, <1>3 DEF ListsApart, PositionOf, Distinct
<1>6. EntryOf(b, e.id) = e
  BY <1>1, HasPosition DEF IdsOf, ToSet, Distinct, EntryOf
<1> QED
  BY <1>1, <1>4, <1>5, <1>6

\* It is reported exactly of a cell without a score that it is missing.
LEMMA MissingIsReported ==
  ASSUME NEW b, NEW B, Good(b, B), NEW e \in ToSet(Entries(b)), NEW t \in TierIds(b)
  PROVE  "MissingThreshold" \in Codes(ValidateBenchmark(b), e.id, t) <=> ~HasThreshold(e, t)
<1> DEFINE all == Entries(b)
           found == ValidateBenchmark(b)
<1>1. PICK j \in DOMAIN all : all[j] = e
  BY DEF ToSet
<1>2. b.tiers # <<>>
  BY EmptyArray DEF TierIds
<1>3. ASSUME ~HasThreshold(e, t) PROVE "MissingThreshold" \in Codes(found, e.id, t)
  <2> DEFINE x == Issue("MissingThreshold", e.id, t)
  <2>1. x \in ThresholdIssues(e, b) /\ x.code = "MissingThreshold" /\ x.on = e.id /\ x.tier = t
    BY <1>3 DEF ThresholdIssues, Issue
  <2> HIDE DEF x
  <2>2. x \in EntryIssues(b, j)
    BY <1>1, <1>2, <2>1 DEF EntryIssues
  <2>3. x \in UNION {EntryIssues(b, i) : i \in DOMAIN Entries(b)}
    BY <1>1, <2>2
  <2>4. x \in found
    BY <2>3 DEF ValidateBenchmark
  <2> QED
    BY <2>1, <2>4 DEF Codes
<1>4. ASSUME "MissingThreshold" \in Codes(found, e.id, t) PROVE ~HasThreshold(e, t)
  <2>1. PICK x \in found : x.on = e.id /\ x.tier = t /\ x.code = "MissingThreshold"
    BY <1>4 DEF Codes
  <2>2. \A code, on, tier : Issue(code, on, tier) = x => code = "MissingThreshold" /\ on = e.id /\ tier = t
    BY <2>1 DEF Issue
  <2>3. x \notin TierIssues(b) /\ \A c : x \notin GroupIssues(c)
    BY <2>2 DEF TierIssues, GroupIssues
  <2>4. PICK k \in DOMAIN all : x \in EntryIssues(b, k)
    BY <2>2, <2>3, <2>1 DEF ValidateBenchmark
  <2>5. x \in ThresholdIssues(all[k], b)
    BY <2>2, <2>4 DEF EntryIssues
  <2>6. all[k].id = e.id /\ ~HasThreshold(all[k], t)
    BY <2>2, <2>5 DEF ThresholdIssues
  <2>7. k = j
    BY <1>1, <2>6, InView DEF Distinct
  <2> QED
    BY <1>1, <2>6, <2>7
<1> QED
  BY <1>3, <1>4

LEMMA CellReports ==
  ASSUME NEW b, NEW B, Good(b, B), NEW e \in ToSet(Entries(b)), NEW t \in TierIds(b), NEW in, NEW c,
         c = TableCell(e, t, ValidateBenchmark(b), in)
  PROVE  ("MissingThreshold" \in c.issues) = (c.shown = <<"empty">>)
<1>1. "MissingThreshold" \in Codes(ValidateBenchmark(b), e.id, t) <=> ~HasThreshold(e, t)
  BY MissingIsReported
<1>2. \A x : <<"score", x>> # <<"empty">> /\ <<"text", x>> # <<"empty">>
  OBVIOUS
<1>3. CASE <<e.id, t>> \in DOMAIN in
  BY <1>2, <1>3 DEF TableCell
<1>4. CASE <<e.id, t>> \notin DOMAIN in
  BY <1>1, <1>2, <1>4 DEF TableCell
<1> QED
  BY <1>3, <1>4

\* In a safe session, when what is kept is current, the table is exact.
LEMMA SafeIsExact == ASSUME SessionSafe, CachesCurrent PROVE TableExact
<1> SUFFICES ASSUME draft # None PROVE TableExact
  BY DEF TableExact
<1> DEFINE b == draft
           B == DOMAIN inputs
           v == ListsInView(b)
           order == VisibleOrder(b)
           found == ValidateBenchmark(b)
           rows == table.rows
<1>1. Good(b, B) /\ NoGroup \notin Ids(b)
  BY SafeIds DEF SessionSafe
<1>2. rows = RowsFor(b, found, inputs, known) /\ table.tiers = [t \in DOMAIN b.tiers |-> b.tiers[t].id]
  BY DEF CachesCurrent, RowsFor, Projection
<1>3. /\ RowsLaid(rows, order, v, b, found, inputs, known) /\ Together(v) /\ IsArray(v)
      /\ Distinct(order) /\ \A l \in DOMAIN v : IsArray(v[l].scenarios)
  <2>1. RowsLaid(rows, order, v, b, found, inputs, known)
    <3> HIDE DEF found
    <3>1. RowsLaid(RowsFor(b, found, inputs, known), VisibleOrder(b), ListsInView(b), b, found, inputs, known)
      BY <1>1, RowsArePlaced
    <3> QED
      BY <1>2, <3>1
  <2>2. Together(v)
    BY <1>1, ListsTogether
  <2>3. IsArray(v) /\ Distinct(order) /\ \A l \in DOMAIN v : IsArray(v[l].scenarios)
    BY <1>1, InView DEF InOrder
  <2> QED
    BY <2>1, <2>2, <2>3
<1>4. DOMAIN rows = DOMAIN order /\ DOMAIN rows = 1..Len(rows) /\ \A p \in DOMAIN rows : rows[p].entry = order[p].id
  BY <1>1, <1>2, RowEntries, ArrayParts
<1>5. table.rowOf = RowMap(rows) /\ cell.entry \in EntryIds(b) \cup {0}
  BY DEF SessionSafe, TableShown, FocusShown
<1> HIDE DEF b, B, v, order, found
<1>6. ASSUME NEW p \in DOMAIN rows, NEW id, id = rows[p].entry, NEW home, home = HomeOf(b, id)
      PROVE  /\ RowFor(id) = p - 1 /\ rows[p].category = home.category
             /\ RowInfo(table, p) = [position |-> PositionOf(home.scenarios, id) - 1, size |-> Len(home.scenarios)]
             /\ rows[p].mapping = Mapping(known, EntryOf(b, id))
             /\ \A t \in DOMAIN table.tiers : LET c == rows[p].cells[t]
                                          IN ("MissingThreshold" \in c.issues) = (c.shown = <<"empty">>)
  <2>1. PICK l \in DOMAIN v : \E i \in 1..Len(v[l].scenarios) : p = Ahead(v, l - 1) + i
    BY <1>3, <1>4 DEF RowsLaid
  <2>2. PICK i \in 1..Len(v[l].scenarios) : p = Ahead(v, l - 1) + i
    BY <2>1
  <2> DEFINE e == v[l].scenarios[i]
  <2>3. rows[p] = RowsOf(v, l, b, found, inputs, known)[i] /\ order[p] = e /\ i \in DOMAIN v[l].scenarios
    BY <1>3, <2>2, ArrayParts DEF RowsLaid
  <2>4. e.id = id /\ e \in ToSet(order)
    BY <1>4, <1>6, <2>3 DEF ToSet
  <2>5. home = v[l] /\ PositionOf(v[l].scenarios, id) = i /\ EntryOf(b, id) = e /\ e \in ToSet(Entries(b))
    BY <1>1, <1>6, <2>3, <2>4, EntryOfRow DEF v, order
  <2>6. RowFor(id) = p - 1
    BY <1>3, <1>4, <1>6, <1>5 DEF Distinct, RowFor, RowMap
  <2>7. RowInfo(table, p) = [position |-> i - 1, size |-> Len(v[l].scenarios)]
    <3>1. RowsLaid(table.rows, order, v, b, found, inputs, known)
      BY <1>3
    <3>2. Offered(table, v, l, i)
      BY <1>3, <2>2, <3>1, RowInfoExact
    <3> QED
      BY <2>2, <3>2 DEF Offered
  <2> HIDE DEF e, rows
  <2>8. /\ rows[p].category = v[l].category /\ rows[p].mapping = Mapping(known, e)
        /\ rows[p].cells = [t \in DOMAIN b.tiers |-> TableCell(e, b.tiers[t].id, found, inputs)]
    BY <2>3 DEF RowsOf, e
  <2>9. ASSUME NEW t \in DOMAIN table.tiers, NEW c, c = rows[p].cells[t]
        PROVE  ("MissingThreshold" \in c.issues) = (c.shown = <<"empty">>)
    <3>1. b.tiers[t].id \in TierIds(b) /\ c = TableCell(e, b.tiers[t].id, found, inputs)
      BY <1>2, <2>8, <2>9 DEF TierIds, IdsOf
    <3> QED
      BY <1>1, <2>5, <3>1, CellReports DEF found
  <2> QED
    BY <2>5, <2>6, <2>7, <2>8, <2>9
<1>7. [p \in DOMAIN rows |-> rows[p].entry] = [p \in DOMAIN order |-> order[p].id]
  BY <1>4
<1> QED
  BY <1>5, <1>6, <1>7 DEF TableExact, b, order

-----------------------------------------------------------------------------
(* What it comes to.                                                        *)

\* The flat check of ids (benchmark_validation.cpp, hasStructuralIntegrity), which walks all lists of a
\* benchmark, accepts exactly the benchmarks whose tree is sound part by part, each list, subcategory
\* and category sharing no id with its neighbours.
THEOREM IntegrityIsPartByPart ==
  ASSUME NEW b, IsBenchmark(b)
  PROVE  HasStructuralIntegrity(b) <=> Good(b, {})
BY GoodIsSound, SoundIsGood

\* That an operation of the editor makes b2 of b, whatever it is given.
EditedTo(b2, b, id, name, hashes, score, tier, at, ids, before, position) ==
  \/ b2 \in RenameBenchmark(b, name)
  \/ b2 \in AddTier(b, id, name) \/ b2 \in RenameTier(b, at, name)
  \/ b2 \in ReorderTier(b, at, position) \/ b2 \in RemoveTier(b, at)
  \/ b2 \in AddScenario(b, id, name, hashes) \/ b2 \in RenameScenario(b, at, name)
  \/ b2 \in SetScenarioHashes(b, at, hashes) \/ b2 \in RemoveScenarios(b, ToSet(ids))
  \/ b2 \in SetThreshold(b, at, tier, score) \/ b2 \in ClearThreshold(b, at, tier)
  \/ b2 \in AddCategory(b, id, name) \/ b2 \in RenameGroup(b, at, name)
  \/ b2 \in ReorderCategory(b, at, position) \/ b2 \in RemoveCategory(b, at)
  \/ b2 \in AddSubcategory(b, at, id, name) \/ b2 \in ReorderSubcategory(b, at, position)
  \/ b2 \in ReorderScenario(b, at, position) \/ b2 \in AssignScenarios(b, ids, at, before)

\* No operation of the editor breaks the structural integrity of a benchmark: given a new id where one
\* is needed, texts for names and hashes, and a finite score, whatever ids it is to work on and wherever
\* they are to go, what comes of a benchmark without an id twice and without a threshold of a missing
\* tier is such a benchmark again (benchmark_editor.cpp).
THEOREM EditsKeepIntegrity ==
  ASSUME NEW b, IsBenchmark(b), HasStructuralIntegrity(b), NoGroup \notin AllIds(b),
         NEW id, id \notin AllIds(b), id # NoGroup, NEW name, IsExpected(name),
         NEW hashes, IsHashes(hashes), NEW score, IsExpected(score), score # NonFinite,
         NEW tier, NEW at, NEW before, NEW ids, IsArray(ids), IsInjective(ids), NEW position \in Nat,
         NEW b2, EditedTo(b2, b, id, name, hashes, score, tier, at, ids, before, position)
  PROVE  IsBenchmark(b2) /\ HasStructuralIntegrity(b2)
<1>1. Good(b, {}) /\ NoGroup \notin Ids(b) /\ id \notin Ids(b)
  BY SoundIsGood, IdsAgree
<1> DEFINE Kept == \E B : Good(b2, B)
<1> SUFFICES Kept
  BY GoodIsSound
<1>2. CASE b2 \in RenameBenchmark(b, name)
  BY <1>1, <1>2, RenameBenchmarkKeeps
<1>3. CASE b2 \in AddTier(b, id, name)
  BY <1>1, <1>3, AddTierKeeps
<1>4. CASE b2 \in RenameTier(b, at, name)
  BY <1>1, <1>4, RenameTierKeeps
<1>5. CASE b2 \in ReorderTier(b, at, position)
  BY <1>1, <1>5, ReorderTierKeeps
<1>6. CASE b2 \in RemoveTier(b, at)
  BY <1>1, <1>6, RemoveTierKeeps
<1>7. CASE b2 \in AddScenario(b, id, name, hashes)
  BY <1>1, <1>7, AddScenarioKeeps
<1>8. CASE b2 \in RenameScenario(b, at, name)
  BY <1>1, <1>8, RenameScenarioKeeps
<1>9. CASE b2 \in SetScenarioHashes(b, at, hashes)
  BY <1>1, <1>9, SetScenarioHashesKeeps
<1>10. CASE b2 \in RemoveScenarios(b, ToSet(ids))
  BY <1>1, <1>10, RemoveScenariosKeeps
<1>11. CASE b2 \in SetThreshold(b, at, tier, score)
  BY <1>1, <1>11, SetThresholdKeeps
<1>12. CASE b2 \in ClearThreshold(b, at, tier)
  <2>1. Good(b2, {} \cup {<<at, tier>>})
    BY <1>1, <1>12, ClearThresholdKeeps
  <2> QED
    BY <2>1
<1>13. CASE b2 \in AddCategory(b, id, name)
  BY <1>1, <1>13, AddCategoryKeeps
<1>14. CASE b2 \in RenameGroup(b, at, name)
  BY <1>1, <1>14, RenameGroupKeeps
<1>15. CASE b2 \in ReorderCategory(b, at, position)
  BY <1>1, <1>15, ReorderCategoryKeeps
<1>16. CASE b2 \in RemoveCategory(b, at)
  BY <1>1, <1>16, RemoveCategoryKeeps
<1>17. CASE b2 \in AddSubcategory(b, at, id, name)
  BY <1>1, <1>17, AddSubcategoryKeeps
<1>18. CASE b2 \in ReorderSubcategory(b, at, position)
  BY <1>1, <1>18, ReorderSubcategoryKeeps
<1>19. CASE b2 \in ReorderScenario(b, at, position)
  BY <1>1, <1>19, ReorderScenarioKeeps
<1>20. CASE b2 \in AssignScenarios(b, ids, at, before)
  BY <1>1, <1>20, AssignScenariosKeeps
<1> HIDE DEF Kept
<1> QED
  BY <1>2, <1>3, <1>4, <1>5, <1>6, <1>7, <1>8, <1>9, <1>10, <1>11, <1>12, <1>13, <1>14, <1>15, <1>16,
     <1>17, <1>18, <1>19, <1>20 DEF EditedTo

\* A benchmark whose ids are none of them empty is read back from its file as it was written, with
\* every entry, hash, threshold and group at its place (benchmark_store.cpp, encode and classifyBytes).
THEOREM SoundBenchmarksAreReadBack ==
  ASSUME JsonValuesApart, NEW b, IsBenchmark(b), HasStructuralIntegrity(b), \A x \in AllIds(b) : IsId(x)
  PROVE  ClassifyBytes(Encode(b)).loaded = {b}
<1>1. Good(b, {}) /\ \A x \in Ids(b) : IsId(x)
  BY SoundIsGood, IdsAgree
<1>2. NumbersExpected
  BY ValuesAssumption DEF NumbersExpected
<1> QED
  BY <1>1, <1>2, ReadBack

\* Whatever text the clipboard holds, its rows are at least one and each has a field: what the pasting
\* reads at the start of a row, or as its widest one, is there (benchmark_clipboard_matrix.cpp, parse).
THEOREM PastedRowsHaveFields ==
  ASSUME NEW text, IsArray(text), text # <<>>
  PROVE  AreRows(ParseClipboard(text))
BY ClipIsRows

\* In every state of a session the draft, the steps that undo goes back to and the baseline are sound:
\* no id is twice, every threshold is of a tier that is there, no cell has both a score and a retained
\* text; whatever is edited, pasted, undone or saved, and whatever the profile learns. And of what is
\* shown, the map of rows fits the rows and the focus is on an entry of the draft
\* (benchmark_manager_vm.cpp, benchmark_editor.cpp, benchmark_table_model.cpp).
THEOREM SessionStaysSafe == Spec => []SessionSafe
<1>1. Init => SessionSafe
  BY InitSafe
<1>2. SessionSafe /\ [Next]_vars => SessionSafe'
  BY SessionStep
<1> QED
  BY <1>1, <1>2, PTL DEF Spec

\* So every benchmark that the session remembers is one that its file would give back, and a text is
\* retained only for a cell that is there and has no score (benchmark_manager_vm.cpp, save and undo;
\* benchmark_store.cpp).
THEOREM RememberedAlwaysSound == ASSUME JsonValuesApart PROVE Spec => []RememberedSound
<1>1. SessionSafe /\ RetainedPlaced => RememberedSound
  BY SafeIsSound
<1> QED
  BY <1>1, SessionStaysSafe, TextsStayPlaced, PTL

\* In every state of a session the table shows the draft: a row for each entry in view order, found by
\* the map although that is kept while rows and columns stay the same, offering to be moved within the
\* list that holds its entry; every cell with its score, its text or the report that it is missing; and
\* the focus on a row that is there (benchmark_table_model.cpp; benchmark_manager_vm.cpp, the projection).
THEOREM TableStaysExact == Spec => []TableExact
<1>1. SessionSafe /\ CachesCurrent => TableExact
  BY SafeIsExact
<1> QED
  BY <1>1, SessionStaysSafe, CachesStayCurrent, PTL
=============================================================================
