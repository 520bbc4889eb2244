------------------------------ MODULE SeriesTree ------------------------------
(***************************************************************************)
(* The tree a user edits an expression in                                  *)
(* (ui/presentation/expression: editable_expression_node,                  *)
(* series_expression_editor_model; ui/qml/series/ExpressionTreeEditor).    *)
(*                                                                         *)
(* Nodes are objects with an address: each owns what is in its slots and   *)
(* points back to its parent; the model owns the root and points to the    *)
(* selected node.  A node that is destroyed takes its subtree with it.     *)
(* "nodes" holds what is allocated, so that a leak or a pointer to freed   *)
(* memory is visible.                                                      *)
(***************************************************************************)
EXTENDS SeriesExpression

ChildSlotsFor(kind) ==
  CASE kind \in Binary -> {"left", "right"} [] kind \in Leaves -> {} [] OTHER -> {"input"}

\* The parameter of a fresh node, and of an average whose selection is switched.
FreshParameter(kind) ==
  CASE kind \in {"primitive", "final"} -> "score"
    [] kind = "constant" -> 0
    [] kind = "rollingMean" -> 10
    [] kind = "averageAcrossRuns" -> RecentRuns(5)
    [] OTHER -> None
SwitchedSelection(kind) == IF kind = "recentRuns" THEN RecentRuns(5) ELSE TopPercentile(10)

NewNode(kind, parameter) ==
  [kind |-> kind, parameter |-> parameter, parent |-> None, child |-> [slot \in ChildSlotsFor(kind) |-> None]]
MakeNode(kind) == NewNode(kind, FreshParameter(kind))

EmptyTree == [nodes |-> <<>>, root |-> None, selected |-> None]

FreshId(nodes) == Min((1..(Cardinality(DOMAIN nodes) + 1)) \ DOMAIN nodes)
With(nodes, n, node) == [m \in DOMAIN nodes \cup {n} |-> IF m = n THEN node ELSE nodes[m]]

\* What a node owns, itself included.
RECURSIVE Owned(_, _)
Owned(nodes, n) ==
  IF n \notin DOMAIN nodes THEN {}
  ELSE {n} \cup UNION {Owned(nodes, nodes[n].child[slot]) : slot \in DOMAIN nodes[n].child}
Destroyed(nodes, n) == LET kept == DOMAIN nodes \ Owned(nodes, n) IN [m \in kept |-> nodes[m]]

RECURSIVE AncestorChain(_, _)
AncestorChain(nodes, n) == IF n = None THEN <<>> ELSE Append(AncestorChain(nodes, nodes[n].parent), n)

-----------------------------------------------------------------------------
(* Slots.                                                                  *)

\* Mutant: the child is taken to be on the left of every operator.
SlotOf_Left(nodes, parent, n) == IF nodes[parent].kind \in Binary THEN "left" ELSE "input"

SlotOf(nodes, parent, n) ==
  CASE nodes[parent].kind \in Binary /\ nodes[parent].child["left"] = n -> "left"
    [] nodes[parent].kind \in Binary /\ nodes[parent].child["right"] = n -> "right"
    [] ChildSlotsFor(nodes[parent].kind) = {"input"} -> "input"
    [] OTHER -> None

\* setLeft, setRight, setInput: refused for a node that hangs elsewhere; what was in the slot is destroyed.
SetInput(nodes, parent, slot, n) ==
  IF nodes[parent].child[slot] = n \/ nodes[n].parent # None THEN nodes
  ELSE [Destroyed(nodes, nodes[parent].child[slot]) EXCEPT ![parent].child[slot] = n, ![n].parent = parent]

\* A node of another kind does not have the slot.
SetChildInParent(nodes, parent, slot, n) ==
  IF slot \in DOMAIN nodes[parent].child THEN SetInput(nodes, parent, slot, n) ELSE nodes

\* Mutant: the node keeps pointing to the parent it was taken from.
Taken_KeepsParent(nodes, parent, slot) == [nodes EXCEPT ![parent].child[slot] = None]

\* takeLeft, takeRight, takeInput.
Taken(nodes, parent, slot) ==
  LET n == nodes[parent].child[slot]
      emptied == [nodes EXCEPT ![parent].child[slot] = None]
  IN IF n = None THEN emptied ELSE [emptied EXCEPT ![n].parent = None]

SetRoot(tree, n) == [tree EXCEPT !.nodes = [Destroyed(@, tree.root) EXCEPT ![n].parent = None], !.root = n]

\* The tree without the node, and the node, which is now the caller's.
DetachFromParent(tree, n) ==
  LET parent == tree.nodes[n].parent
      slot == SlotOf(tree.nodes, parent, n)
  IN IF parent = None THEN [tree |-> [tree EXCEPT !.root = None], node |-> n]
     ELSE [tree |-> [tree EXCEPT !.nodes = Taken(@, parent, slot)], node |-> tree.nodes[parent].child[slot]]

-----------------------------------------------------------------------------
(* Edits.                                                                  *)

\* A new node in a slot, or as the root.
ReplaceChild(tree, parent, slot, kind) ==
  LET n == FreshId(tree.nodes)
      made == [tree EXCEPT !.nodes = With(@, n, MakeNode(kind)), !.selected = n]
  IN IF parent = None THEN SetRoot(made, n)
     ELSE [made EXCEPT !.nodes = SetChildInParent(@, parent, slot, n)]

DeleteNode(tree, n) ==
  LET detached == DetachFromParent(tree, n)
  IN IF detached.node = None THEN tree
     ELSE [detached.tree EXCEPT !.nodes = Destroyed(@, detached.node), !.selected = tree.nodes[n].parent]

\* The wrapper takes the place of the selected node, which becomes its first input.
WrapSelected(tree, kind) ==
  LET parent == tree.nodes[tree.selected].parent
      slot == SlotOf(tree.nodes, parent, tree.selected)
      wrapper == FreshId(tree.nodes)
      detached == DetachFromParent(tree, tree.selected)
      nodes == SetChildInParent(With(detached.tree.nodes, wrapper, MakeNode(kind)), wrapper,
                                IF kind \in Binary THEN "left" ELSE "input", detached.node)
      wrapped == [detached.tree EXCEPT !.nodes = nodes, !.selected = wrapper]
  IN IF detached.node = None THEN tree
     ELSE IF parent = None THEN SetRoot(wrapped, wrapper)
     ELSE [wrapped EXCEPT !.nodes = SetChildInParent(@, parent, slot, wrapper)]

\* What a field editor of the selected node writes.
SetParameter(tree, parameter) == [tree EXCEPT !.nodes[tree.selected].parameter = parameter]
SetOperatorKind(tree, kind) == [tree EXCEPT !.nodes[tree.selected].kind = kind]

-----------------------------------------------------------------------------
(* The expression of a tree, and the tree of an expression.                *)

\* The inputs in the order of the expression.
SlotNames(kind) == IF kind \in Binary THEN <<"left", "right">> ELSE IF kind \in Leaves THEN <<>> ELSE <<"input">>

\* None of the tree counts when a slot is empty or a parameter is none the model knows.
ParameterKnown(kind, parameter) ==
  CASE kind \in {"primitive"} -> parameter \in Metrics
    [] kind = "final" -> parameter \in FinalStats
    [] kind = "constant" -> parameter # NonFinite
    [] kind = "rollingMean" -> parameter # 0
    [] kind = "averageAcrossRuns" -> parameter[2] # (IF parameter[1] = "recentRuns" THEN 0 ELSE NonFinite)
    [] OTHER -> TRUE

RECURSIVE NodeToExpression(_, _)
NodeToExpression(nodes, n) ==
  IF n \notin DOMAIN nodes THEN {}
  ELSE LET node == nodes[n]
           names == SlotNames(node.kind)
           inputs == [i \in DOMAIN names |-> NodeToExpression(nodes, node.child[names[i]])]
       IN IF ~ParameterKnown(node.kind, node.parameter) \/ \E i \in DOMAIN inputs : inputs[i] = {} THEN {}
          ELSE {Expression(node.kind, node.parameter, [i \in DOMAIN inputs |-> CHOOSE e \in inputs[i] : TRUE])}

ToExpression(tree) == NodeToExpression(tree.nodes, tree.root)

\* The text is empty when the tree is not complete.
ToDslText(tree) ==
  IF ToExpression(tree) = {} THEN <<>> ELSE EncodeExpressionDsl(CHOOSE e \in ToExpression(tree) : TRUE)

\* Inputs are made and attached after their node.
RECURSIVE NodeFromExpression(_, _)
NodeFromExpression(nodes, e) ==
  LET n == FreshId(nodes)
      names == SlotNames(Kind(e))
      Attach(i, made) ==
        LET child == FreshId(made)
        IN SetChildInParent(NodeFromExpression(made, Inputs(e)[i]), n, names[i], child)
  IN FoldLeft(LAMBDA made, i : Attach(i, made), With(nodes, n, NewNode(Kind(e), Parameter(e))),
              [i \in DOMAIN names |-> i])

\* The editor selects the new root.
LoadFrom(e) ==
  IF e = None THEN EmptyTree ELSE [nodes |-> NodeFromExpression(<<>>, e), root |-> 1, selected |-> 1]
=============================================================================
