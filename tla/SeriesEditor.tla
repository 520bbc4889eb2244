----------------------------- MODULE SeriesEditor -----------------------------
(***************************************************************************)
(* Editing the lines of the run graph in the settings window               *)
(* (ui/presentation/app/settings_vm, ui/qml/series): the working copy of   *)
(* their document, the dialog in which the expression of one line is       *)
(* edited as a tree, the clipboard it shares with other programs, and the  *)
(* stored document the next launch begins with.                            *)
(*                                                                         *)
(* The dialog is modal: while it is open only the tree is edited.  Other   *)
(* settings and the labelled axis are GraphSettings' concern.              *)
(***************************************************************************)
EXTENDS SeriesLines, SeriesTree

CONSTANTS
  Documents,     \* what the first launch may find
  Names,         \* names a user types
  ForeignTexts,  \* what other programs put on the clipboard
  Edited,        \* bound: the lines a user edits
  EditKinds,     \* bound: kinds of nodes a user adds
  Typed,         \* bound: by kind, the parameters a user picks
  MaxEdits,      \* bound: edits of lines and trees
  MaxNodes       \* bound: nodes of a tree a user adds to

VARIABLES
  document,   \* m_working->runSeries
  committed,  \* the run series of the configuration in use
  stored,     \* the document the settings hold
  editing,    \* the line the dialog is open for, None without one
  tree,       \* the dialog's editor model
  clipboard,  \* the text on it
  edits       \* edits made so far

vars == <<document, committed, stored, editing, tree, clipboard, edits>>

Lines == IdsOf(document.series) \cap Edited
LineOf(id) == CHOOSE line \in ToSet(document.series) : line.id = id

-----------------------------------------------------------------------------
(* Lines.                                                                  *)

\* An edit of the working copy is made as a whole, or refused.
EditRunSeries(edited) ==
  /\ editing = None
  /\ edits < MaxEdits
  /\ document' \in edited
  /\ edits' = edits + 1
  /\ UNCHANGED <<committed, stored, editing, tree, clipboard>>

\* The expression of a row, which is the text it is shown as.
DecodeTransportExpression(text) == IF text = <<>> THEN {None} ELSE DecodeExpressionDsl(text) \ {None}

\* A row is sent back whole, with one of its fields changed.
WithExpression(id, name, text) ==
  UNION {UpdateSeries(document, id, [name |-> name, expression |-> e]) : e \in DecodeTransportExpression(text)}

AddLine == EditRunSeries(CreateComputedSeries(document, "New Series", None))
SetSeriesEnabled(id, enabled) == EditRunSeries(UpdateSeries(document, id, [enabled |-> enabled]))
SetSeriesHiddenLeadingPoints(id, count) == EditRunSeries(UpdateSeries(document, id, [hidden |-> count]))
UpdateComputedSeries(id, name) ==
  EditRunSeries(WithExpression(id, name, EncodeExpressionDsl(LineOf(id).expression)))
RemoveComputedSeries(id) == EditRunSeries(RemoveSeries(document, id))
MoveLine(id, position) == EditRunSeries(ReorderSeries(document, id, position))
UpdateSeriesAxis(id, axis) == EditRunSeries(UpdateSeries(document, id, [axis |-> axis]))
PutOnNewAxis(id, name) ==
  EditRunSeries(UNION {UpdateSeries(created, id, [axis |-> document.nextAxis]) : created \in CreateAxis(document, name)})
RestoreDefaultGraphLines == EditRunSeries({DefaultRunSeriesDocument})

EditLines ==
  \/ AddLine
  \/ RestoreDefaultGraphLines
  \/ \E id \in Lines :
       \/ SetSeriesEnabled(id, ~LineOf(id).enabled)
       \/ \E count \in 0..MaximumHiddenLeadingPoints \ {LineOf(id).hidden} : SetSeriesHiddenLeadingPoints(id, count)
       \/ \E name \in Names \cup {LineOf(id).name} : UpdateComputedSeries(id, name)
       \/ \E position \in 0..(Len(document.series) - 1) : MoveLine(id, position)
       \/ \E axis \in IdsOf(document.axes) \cup {None} : UpdateSeriesAxis(id, axis)
       \/ PutOnNewAxis(id, "New")
       \/ RemoveComputedSeries(id)

-----------------------------------------------------------------------------
(* The dialog.                                                             *)

BeginExpressionEdit(id) ==
  /\ editing = None
  /\ edits < MaxEdits
  /\ editing' = id
  /\ tree' = LoadFrom(LineOf(id).expression)
  /\ UNCHANGED <<document, committed, stored, clipboard, edits>>

EditTree(edited) ==
  /\ editing # None
  /\ edits < MaxEdits
  /\ tree' = edited
  /\ edits' = edits + 1
  /\ UNCHANGED <<document, committed, stored, editing, clipboard>>

Focused == tree.nodes[tree.selected]
Path == ToSet(AncestorChain(tree.nodes, tree.selected))
Children == {Focused.child[slot] : slot \in DOMAIN Focused.child} \ {None}

\* The cards on the path to the selected node, and its inputs, can be selected.
Select(n) ==
  /\ n # tree.selected
  /\ tree' = [tree EXCEPT !.selected = n]
  /\ UNCHANGED <<document, committed, stored, editing, clipboard, edits>>

\* Nodes are added where there is none.
AddRoot(kind) == tree.root = None /\ EditTree(ReplaceChild(tree, None, "root", kind))
AddInput(slot, kind) ==
  /\ Focused.child[slot] = None
  /\ Cardinality(DOMAIN tree.nodes) < MaxNodes
  /\ EditTree(ReplaceChild(tree, tree.selected, slot, kind))
Wrap(kind) ==
  /\ Cardinality(DOMAIN tree.nodes) < MaxNodes
  /\ EditTree(WrapSelected(tree, kind))

SetField ==
  \/ \E parameter \in Typed[Focused.kind] : EditTree(SetParameter(tree, parameter))
  \/ Focused.kind \in Binary /\ \E kind \in Binary : EditTree(SetOperatorKind(tree, kind))
  \/ /\ Focused.kind = "averageAcrossRuns"
     /\ \E kind \in {"recentRuns", "topPercentile"} \ {Focused.parameter[1]} :
          EditTree(SetParameter(tree, SwitchedSelection(kind)))

CopyToClipboard ==
  /\ tree.root # None
  /\ clipboard' = ToDslText(tree)
  /\ UNCHANGED <<document, committed, stored, editing, tree, edits>>
CopiedElsewhere(text) ==
  /\ editing # None
  /\ edits < MaxEdits
  /\ clipboard' = text
  /\ edits' = edits + 1
  /\ UNCHANGED <<document, committed, stored, editing, tree>>

\* A text that is no expression is reported and changes nothing.
PasteFromClipboard ==
  /\ editing # None
  /\ \E e \in DecodeExpressionDsl(clipboard) : EditTree(LoadFrom(e))

WorkOnTree ==
  \/ \E kind \in EditKinds : AddRoot(kind)
  \/ PasteFromClipboard
  \/ \E text \in ForeignTexts : CopiedElsewhere(text)
  \/ /\ tree.selected # None
     /\ \/ \E n \in Path \cup Children : Select(n)
        \/ \E slot \in DOMAIN Focused.child, kind \in EditKinds : AddInput(slot, kind)
        \/ \E kind \in EditKinds \ Leaves : Wrap(kind)
        \/ \E n \in Path : EditTree(DeleteNode(tree, n))
        \/ SetField
        \/ CopyToClipboard

\* Whatever comes of it, the dialog closes.
CloseDialog(edited) ==
  /\ editing # None
  /\ document' = IF edited = {} THEN document ELSE CHOOSE d \in edited : TRUE
  /\ editing' = None
  /\ tree' = EmptyTree
  /\ UNCHANGED <<committed, stored, clipboard, edits>>
Accept == CloseDialog(IF editing = None THEN {} ELSE WithExpression(editing, LineOf(editing).name, ToDslText(tree)))
Cancel == CloseDialog({})

-----------------------------------------------------------------------------
(* The settings.                                                           *)

\* What is in use is stored and replaced together; an edit that comes to nothing is not saved.
Save ==
  /\ editing = None
  /\ ~SameDocument(document, committed)
  /\ committed' = document
  /\ stored' = EncodeRunSeries(document)
  /\ UNCHANGED <<document, editing, tree, clipboard, edits>>

\* A visit of the window ends; the next one begins with what is in use.
EndVisit ==
  /\ editing = None
  /\ document' = committed
  /\ UNCHANGED <<committed, stored, editing, tree, clipboard, edits>>

\* The next launch reads what is stored; a dialog that was open is lost as by Cancel.
Launch ==
  /\ editing = None
  /\ document' = Load(stored)
  /\ committed' = document'
  /\ UNCHANGED <<stored, editing, tree, clipboard, edits>>

Init ==
  /\ \E doc \in Documents : stored = Established(doc) /\ document = Load(doc)
  /\ committed = document
  /\ editing = None
  /\ tree = EmptyTree
  /\ clipboard = <<>>
  /\ edits = 0

Next ==
  \/ EditLines
  \/ \E id \in Lines : BeginExpressionEdit(id)
  \/ WorkOnTree
  \/ Accept
  \/ Cancel
  \/ Save
  \/ EndVisit
  \/ Launch

Spec == Init /\ [][Next]_vars

-----------------------------------------------------------------------------
(* Properties.                                                             *)

Allocated == DOMAIN tree.nodes

\* The tree is one: every node is owned by exactly one slot of the node it points to as its
\* parent, or is the root; everything allocated hangs below the root; and while there is a
\* root the selection is one of these nodes.  Otherwise a wrap or a removal has leaked a
\* node, freed one that is still shown, or left it where no edit finds it.
TreeSound ==
  /\ Allocated = Owned(tree.nodes, tree.root)
  /\ \A n \in Allocated :
       LET holders == {h \in Allocated \X {"left", "right", "input"} :
                         h[2] \in DOMAIN tree.nodes[h[1]].child /\ tree.nodes[h[1]].child[h[2]] = n}
       IN IF n = tree.root THEN holders = {} /\ tree.nodes[n].parent = None
          ELSE {h[1] : h \in holders} = {tree.nodes[n].parent} /\ Cardinality(holders) = 1
  /\ tree.selected \in IF tree.root = None THEN {None} ELSE Allocated

\* What a node is, and what is above it.
Above(t, n) == AncestorChain(t.nodes, n)
Content(t, n) == <<t.nodes[n].kind, t.nodes[n].parameter>>
\* Which of two nodes is read first.
Before(t, m, n) ==
  \E a \in DOMAIN t.nodes :
    /\ t.nodes[a].kind \in Binary
    /\ m \in Owned(t.nodes, t.nodes[a].child["left"]) /\ n \in Owned(t.nodes, t.nodes[a].child["right"])

\* An edit of the tree changes what the user pointed at and leaves the rest as it was.  It
\* adds one node, above the selected one or at an empty place, and selects it; or removes the
\* whole subtree of one node on the path to the selected one, and selects what it hung on; or
\* changes one field.  The nodes that stay keep what they are, what they are below of and
\* which of them is read first.  A paste replaces everything.
KeepsTheRest ==
  LET old == DOMAIN tree.nodes
      new == DOMAIN tree'.nodes
      stay == old \cap new
  IN /\ Cardinality(new \ old) <= 1 /\ (new \subseteq old \/ old \subseteq new)
     /\ \A n \in new \ old : /\ tree'.selected = n
                            /\ Owned(tree'.nodes, n) \ {n} \in {{}, Owned(tree.nodes, tree.selected)}
     /\ old # new => \A n \in stay : Content(tree, n) = Content(tree', n)
     /\ \A n \in stay \ {tree.selected} : Content(tree, n) = Content(tree', n)
     /\ old \subseteq new \/ \E top \in Path : /\ old \ new = Owned(tree.nodes, top)
                                             /\ tree'.selected = tree.nodes[top].parent
     /\ \A n \in stay : SelectSeq(Above(tree, n), LAMBDA a : a \in stay)
                          = SelectSeq(Above(tree', n), LAMBDA a : a \in stay)
     /\ \A m, n \in stay : Before(tree, m, n) <=> Before(tree', m, n)

Pasted == tree' \in {LoadFrom(e) : e \in DecodeExpressionDsl(clipboard)}
EditsKeepTheRest == [][editing # None /\ editing' # None /\ ~Pasted => KeepsTheRest]_vars

\* What is shown can be stored and comes back as it is: the document satisfies the rules a
\* launch rejects a document by, and reading what is written gives the document; the text of
\* a complete tree is read as the expression of the tree.
StoredReadsBack ==
  /\ editing = None => RunSeriesDocumentValid(document) /\ Decoded(EncodeRunSeries(document)) = {document}
  /\ editing = None /\ document = committed => Load(stored) = committed
  /\ \A e \in ToExpression(tree) : DecodeExpressionDsl(EncodeExpressionDsl(e)) = {e}

\* What the dialog holds is one tree, and what the page holds can be stored.
EditorSound == TreeSound /\ StoredReadsBack
=============================================================================
