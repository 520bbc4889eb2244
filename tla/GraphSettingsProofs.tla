-------------------------- MODULE GraphSettingsProofs --------------------------
(***************************************************************************)
(* Proofs about GraphSettings, for any bounds and any documents.           *)
(*                                                                         *)
(* The queue of the service holds the revisions from the one being         *)
(* published to the last one, without a gap; who was called for it has     *)
(* heard of it, and who was not has heard of the one before.               *)
(*                                                                         *)
(* Of each part it draws a graph shows the committed value, or a change of *)
(* that part is still to be heard by it; with an empty queue all is shown. *)
(*                                                                         *)
(* What a visit to the settings shows as invalid and as unsaved is what    *)
(* is, and a restart restores what was committed: every configuration that *)
(* is loaded, edited or committed is Sound, so that it is stored as        *)
(* itself, and a comparison of two of them that finds no difference means  *)
(* that there is none.                                                     *)
(***************************************************************************)
EXTENDS GraphSettings, SequenceTheorems, TLAPS

Change == [sections : SUBSET ((Graphs \cup {"lines"}) \X {"range", "window", "style", "runSeries", "label"}),
           revision : Nat]

\* The revision all listeners have heard of, and some already of the next.
Behind == revision - Len(queue)

QueueInv ==
  /\ revision \in Nat \ {0}
  /\ queue \in Seq(Change)
  /\ \A i \in 1 .. Len(queue) : queue[i].revision = Behind + i
  /\ hears \in 0 .. 3
  /\ (hears = 0) <=> (Len(queue) = 0)
  /\ DOMAIN heard = {"lines", "dailyPlaytime", "scenarioHistory"}
  /\ heard = [l \in DOMAIN heard |-> heard[l]]
  /\ \A i \in 1 .. 3 : heard[Listeners[i]] = IF i < hears THEN Behind + 1 ELSE Behind

LEMMA ListenerNames ==
  /\ Len(Listeners) = 3
  /\ Listeners[1] = "lines" /\ Listeners[2] = "dailyPlaytime" /\ Listeners[3] = "scenarioHistory"
  /\ {Listeners[i] : i \in DOMAIN Listeners} = {"lines", "dailyPlaytime", "scenarioHistory"}
<1>1. /\ Len(Listeners) = 3 /\ DOMAIN Listeners = 1 .. 3
      /\ Listeners[1] = "lines" /\ Listeners[2] = "dailyPlaytime" /\ Listeners[3] = "scenarioHistory"
  BY DEF Listeners
<1>2. 1 .. 3 = {1, 2, 3}
  OBVIOUS
<1>3. QED BY <1>1, <1>2

LEMMA DiffIsChange ==
  ASSUME NEW before, NEW after
  PROVE  Diff(before, after) \in SUBSET ((Graphs \cup {"lines"}) \X {"range", "window", "style", "runSeries", "label"})
<1>1. \A g \in Graphs : g \in Graphs \cup {"lines"}
  OBVIOUS
<1>2. QED BY <1>1 DEF Diff

LEMMA QueueInit == Init => QueueInv
<1> SUFFICES ASSUME Init PROVE QueueInv
  OBVIOUS
<1>1. queue = <<>> /\ revision = 1 /\ hears = 0
  BY DEF Init
<1>2. heard = [l \in {"lines", "dailyPlaytime", "scenarioHistory"} |-> 1]
  BY ListenerNames DEF Init
<1>3. QED BY <1>1, <1>2, ListenerNames DEF QueueInv, Behind

\* A commit puts one more revision behind those that are still to be published.
LEMMA CommitStep ==
  ASSUME NEW c, QueueInv, Commit(c)
  PROVE  QueueInv' /\ heard' = heard /\ revision' = revision + 1
<1> DEFINE change == [sections |-> Diff(committed, c), revision |-> revision + 1]
<1>1. change \in Change
  BY DiffIsChange DEF Change, QueueInv
<1>2. /\ queue' = Append(queue, change) /\ revision' = revision + 1 /\ heard' = heard
      /\ hears' = IF hears = 0 THEN 1 ELSE hears
  BY DEF Commit
<1>3. /\ queue' \in Seq(Change) /\ Len(queue') = Len(queue) + 1
      /\ \A i \in 1 .. Len(queue) : queue'[i] = queue[i]
      /\ queue'[Len(queue) + 1] = change
  <2> HIDE DEF change
  <2>1. QED BY <1>1, <1>2, AppendProperties DEF QueueInv
<1>4. Behind' = Behind /\ Len(queue) \in Nat
  BY <1>2, <1>3 DEF Behind, QueueInv
<1>5. \A i \in 1 .. Len(queue') : queue'[i].revision = Behind' + i
  BY <1>2, <1>3, <1>4 DEF QueueInv, Behind
<1>6. \A i \in 1 .. 3 : heard'[Listeners[i]] = IF i < hears' THEN Behind' + 1 ELSE Behind'
  BY <1>2, <1>4 DEF QueueInv
<1>7. QED BY <1>2, <1>3, <1>4, <1>5, <1>6 DEF QueueInv

\* A call of a listener carries the revision after the last one it heard of.
LEMMA DeliverStep ==
  ASSUME QueueInv, Deliver
  PROVE  /\ QueueInv'
         /\ revision' = revision
         /\ \A l \in DOMAIN heard : heard'[l] \in {heard[l], heard[l] + 1}
<1> DEFINE listener == Listeners[hears]
<1>1. hears \in 1 .. 3 /\ Len(queue) \in Nat \ {0}
  BY DEF Deliver, QueueInv
<1>2. /\ heard' = [heard EXCEPT ![listener] = Head(queue).revision]
      /\ revision' = revision
      /\ IF hears < Len(Listeners)
         THEN hears' = hears + 1 /\ queue' = queue
         ELSE hears' = (IF Len(queue) > 1 THEN 1 ELSE 0) /\ queue' = Tail(queue)
  BY DEF Deliver
<1>3. Head(queue).revision = Behind + 1 /\ Behind \in Int
  BY <1>1 DEF QueueInv, Behind
<1>4. DOMAIN heard' = DOMAIN heard /\ \A l \in DOMAIN heard :
        heard'[l] = IF l = listener THEN Behind + 1 ELSE heard[l]
  BY <1>2, <1>3 DEF QueueInv
<1>5. \A i \in 1 .. 3 : heard'[Listeners[i]] = IF i <= hears THEN Behind + 1 ELSE Behind
  BY <1>1, <1>4, ListenerNames DEF QueueInv
<1>6. \A l \in DOMAIN heard : heard'[l] \in {heard[l], heard[l] + 1}
  BY <1>1, <1>3, <1>4, ListenerNames DEF QueueInv
<1>7. heard' = [l \in DOMAIN heard' |-> heard'[l]]
  BY <1>2
<1>8. CASE hears < 3
  <2>1. hears' = hears + 1 /\ queue' = queue /\ Behind' = Behind
    BY <1>2, <1>8, ListenerNames DEF Behind
  <2>2. \A i \in 1 .. 3 : heard'[Listeners[i]] = IF i < hears' THEN Behind' + 1 ELSE Behind'
    BY <1>1, <1>5, <2>1
  <2>3. QED BY <1>1, <1>2, <1>4, <1>6, <1>7, <1>8, <2>1, <2>2 DEF QueueInv
<1>9. CASE hears = 3
  <2>1. hears' = (IF Len(queue) > 1 THEN 1 ELSE 0) /\ queue' = Tail(queue)
    BY <1>2, <1>9, ListenerNames
  <2>2. /\ queue' \in Seq(Change) /\ Len(queue') = Len(queue) - 1
        /\ \A i \in 1 .. Len(queue') : queue'[i] = queue[i + 1]
    BY <1>1, <2>1, HeadTailProperties DEF QueueInv
  <2>3. Behind' = Behind + 1
    BY <1>1, <1>2, <2>2 DEF Behind, QueueInv
  <2>4. \A i \in 1 .. Len(queue') : queue'[i].revision = Behind' + i
    BY <1>1, <1>3, <2>2, <2>3, SMTT(30) DEF QueueInv
  <2>5. \A i \in 1 .. 3 : heard'[Listeners[i]] = IF i < hears' THEN Behind' + 1 ELSE Behind'
    BY <1>1, <1>3, <1>5, <1>9, <2>1, <2>3
  <2>6. hears' \in 0 .. 3 /\ ((hears' = 0) <=> (Len(queue') = 0))
    <3>1. hears' = (IF Len(queue) > 1 THEN 1 ELSE 0)
      BY <2>1
    <3>2. Len(queue') = Len(queue) - 1
      BY <2>2
    <3>3. QED BY <1>1, <3>1, <3>2
  <2>7. DOMAIN heard' = {"lines", "dailyPlaytime", "scenarioHistory"} /\ revision' \in Nat \ {0}
    BY <1>2, <1>4 DEF QueueInv
  <2>8. QueueInv'
    BY <1>7, <2>2, <2>4, <2>5, <2>6, <2>7 DEF QueueInv
  <2>9. QED BY <1>2, <1>6, <2>8
<1>10. QED BY <1>1, <1>8, <1>9

-----------------------------------------------------------------------------
(* The steps of the program.                                               *)

Heard == \A l \in DOMAIN heard : heard'[l] \in {heard[l], heard[l] + 1}

\* Whatever leaves the service alone keeps its invariant and is heard by nobody.
LEMMA QuietStep ==
  ASSUME QueueInv, UNCHANGED serviceVars
  PROVE  QueueInv' /\ Heard
BY DEF QueueInv, Behind, Heard, serviceVars

\* A candidate is committed or changes nothing; no listener is called by that.
LEMMA ReplaceStep ==
  ASSUME NEW c, QueueInv, Replace(c)
  PROVE  QueueInv' /\ Heard
<1>1. CASE UNCHANGED serviceVars
  BY <1>1, QuietStep
<1>2. CASE Commit(c)
  BY <1>2, CommitStep DEF Heard
<1>3. QED BY <1>1, <1>2 DEF Replace

LEMMA QuickStep ==
  ASSUME QueueInv, QuickChange
  PROVE  QueueInv' /\ Heard
<1>1. ASSUME NEW g, NEW p, QuickPatch(g, p) PROVE QueueInv' /\ Heard
  BY <1>1, ReplaceStep DEF QuickPatch
<1>2. QED BY <1>1, Zenon DEF QuickChange, QuickRange, QuickWindow

\* No edit of a working copy reaches the service or a graph.
LEMMA EditsAreQuiet ==
  ASSUME GraphEdit \/ LineEdit
  PROVE  UNCHANGED <<serviceVars, charts, latest, today>>
<1>1. \A working, raw : Edited(working, raw) => UNCHANGED <<serviceVars, charts, latest, today>>
  BY Zenon DEF Edited
<1>2. \A g, p, raw : DraftChanged(g, p, raw) => UNCHANGED <<serviceVars, charts, latest, today>>
  BY <1>1, Zenon DEF DraftChanged
<1>3. \A lines, label : LinesChanged(lines, label) => UNCHANGED <<serviceVars, charts, latest, today>>
  BY <1>1, Zenon DEF LinesChanged
<1>4. CASE GraphEdit
  <2>1. \A g, f, text : SetGraphField(g, f, text) => UNCHANGED <<serviceVars, charts, latest, today>>
    BY <1>2, Zenon DEF SetGraphField
  <2>2. \A g, kind : SetGraphRangeKind(g, kind) \/ SetAxisMode(g, kind) => UNCHANGED <<serviceVars, charts, latest, today>>
    BY <1>2, Zenon DEF SetGraphRangeKind, SetAxisMode
  <2>3. \A g : SetGraphAnchor(g) \/ ClearSeriesOverride(g) \/ ResetGraph(g) => UNCHANGED <<serviceVars, charts, latest, today>>
    BY <1>2, Zenon DEF SetGraphAnchor, ClearSeriesOverride, ResetGraph
  <2>4. QED BY <1>4, <2>1, <2>2, <2>3, Zenon DEF GraphEdit
<1>5. CASE LineEdit
  <2>1. \A lines : EditRunSeries(lines) => UNCHANGED <<serviceVars, charts, latest, today>>
    BY <1>3, Zenon DEF EditRunSeries
  <2>2. \A label : SetRunAxisLabel(label) \/ RestoreDefaultGraphLines => UNCHANGED <<serviceVars, charts, latest, today>>
    BY <1>3, Zenon DEF SetRunAxisLabel, RestoreDefaultGraphLines
  <2>3. QED BY <1>5, <2>1, <2>2, Zenon DEF LineEdit
<1>6. QED BY <1>4, <1>5

LEMMA VisitQueueStep ==
  ASSUME QueueInv, VisitStep
  PROVE  QueueInv' /\ Heard
<1>1. CASE SaveAccepted
  BY <1>1, ReplaceStep DEF SaveAccepted
<1>2. CASE GraphEdit \/ LineEdit
  BY <1>2, EditsAreQuiet, QuietStep
<1>3. CASE BeginVisit \/ RevertChanges \/ EndVisit \/ SaveRefused \/ SaveReturns
  <2>1. UNCHANGED serviceVars
    BY <1>3, Zenon DEF BeginVisit, RevertChanges, EndVisit, SaveRefused, SaveReturns
  <2>2. QED BY <2>1, QuietStep
<1>4. QED BY <1>1, <1>2, <1>3, Zenon DEF VisitStep

\* A restart begins again at the first revision, with nothing to publish.
LEMMA RestartStep ==
  ASSUME NEW doc, QueueInv, Restart(doc)
  PROVE  QueueInv' /\ (revision' >= revision => Heard)
<1>1. /\ revision' = 1 /\ queue' = <<>> /\ hears' = 0 /\ hears = 0
      /\ heard' = [l \in DOMAIN heard |-> 1]
  BY DEF Restart, AtRest
<1>2. QueueInv'
  BY <1>1, ListenerNames DEF QueueInv, Behind
<1>3. ASSUME revision' >= revision PROVE Heard
  <2>1. revision = 1 /\ Behind = 1
    BY <1>1, <1>3 DEF QueueInv, Behind
  <2>2. \A i \in 1 .. 3 : heard[Listeners[i]] = 1
    BY <1>1, <2>1 DEF QueueInv
  <2>3. \A l \in DOMAIN heard : heard[l] = 1
    BY <2>2, ListenerNames DEF QueueInv
  <2>4. QED BY <1>1, <2>3 DEF Heard
<1>4. QED BY <1>2, <1>3

LEMMA QueueStep ==
  ASSUME QueueInv, [Next]_vars
  PROVE  QueueInv' /\ (revision' >= revision => Heard)
<1>1. CASE Deliver
  BY <1>1, DeliverStep DEF Heard
<1>2. ASSUME NEW last \in 0 .. MaxDays, ProfileChanged(last) PROVE QueueInv' /\ Heard
  BY <1>2, QuietStep DEF ProfileChanged
<1>3. CASE DayChanged
  BY <1>3, QuietStep DEF DayChanged
<1>4. CASE QuickChange
  BY <1>4, QuickStep
<1>5. CASE VisitStep
  BY <1>5, VisitQueueStep
<1>6. ASSUME NEW doc \in {document} \cup Foreign, Restart(doc) PROVE QueueInv' /\ (revision' >= revision => Heard)
  BY <1>6, RestartStep
<1>7. CASE UNCHANGED vars
  BY <1>7, QuietStep DEF vars, serviceVars
<1>8. QED BY <1>1, <1>2, <1>3, <1>4, <1>5, <1>6, <1>7, Zenon DEF Next

-----------------------------------------------------------------------------
(* Theorems.                                                               *)

\* Nothing is published twice or out of order, for any bounds: the queue holds the
\* revisions nobody has heard of completely, in their order.
THEOREM QueueStaysOrdered == Spec => []QueueInv
<1>1. QED BY QueueInit, QueueStep, PTL DEF Spec

\* GraphConfigurationService::publish calls every listener with every revision, one after
\* the other, however often a listener replaces the configuration while it is called.
THEOREM EveryoneHearsInOrder == Spec => HeardInOrder
<1>1. QueueInv /\ [Next]_vars => [revision' >= revision => Heard]_vars
  BY QueueStep
<1>2. QED BY <1>1, QueueStaysOrdered, PTL DEF Spec, HeardInOrder, Heard

-----------------------------------------------------------------------------
(* The shape of a configuration.                                           *)

Shaped(c) ==
  /\ c = [graphs |-> c.graphs, lines |-> c.lines, label |-> c.label]
  /\ c.graphs = [g \in Graphs |-> c.graphs[g]]
  /\ \A g \in Graphs : HasParts(g, c.graphs[g])

DocShaped(doc) == \A g \in Graphs : doc.graphs[g] \in {Bad, Missing} \/ HasParts(g, doc.graphs[g])

VisitShaped(v) ==
  /\ v = [baseline |-> v.baseline, working |-> v.working, raw |-> v.raw, refused |-> v.refused,
          draft |-> v.draft, pending |-> v.pending, saving |-> v.saving]
  /\ Shaped(v.working) /\ Shaped(v.baseline)

\* Whatever is loaded, edited or stored has the parts the graphs read.
ShapeInv == Shaped(committed) /\ DocShaped(document) /\ (visit # Closed => VisitShaped(visit))

\* What a section has, and what is one.
LEMMA PartsOf ==
  ASSUME NEW g, NEW p, HasParts(g, p)
  PROVE  /\ p = [range |-> p.range, axis |-> p.axis, anchor |-> p.anchor, value |-> p.value]
         /\ p.range \in Ranges /\ p.axis \in AxisModes /\ p.anchor \in BOOLEAN
         /\ p.value \in [Shown(g, p) -> Nat] /\ DOMAIN p.value = Shown(g, p)
         /\ g = "dailyPlaytime" => "averagingWindow" \in DOMAIN p.value
<1>1. p.value \in [Shown(g, p) -> Nat]
  BY DEF HasParts, Preferences
<1>2. g = "dailyPlaytime" => "averagingWindow" \in Shown(g, p)
  BY DEF Shown, Always
<1>3. QED BY <1>1, <1>2 DEF HasParts, Preferences

LEMMA PartsMade ==
  ASSUME NEW g, NEW range \in Ranges, NEW axis \in AxisModes, NEW anchor \in BOOLEAN,
         NEW value \in [Always(g) \cup FieldsOf(range) \cup FieldsOf(axis) -> Nat]
  PROVE  HasParts(g, [range |-> range, axis |-> axis, anchor |-> anchor, value |-> value])
BY DEF HasParts, Preferences, Shown

LEMMA ValuesReplaced ==
  ASSUME NEW g, NEW p, HasParts(g, p), NEW value \in [DOMAIN p.value -> Nat]
  PROVE  HasParts(g, [p EXCEPT !.value = value])
<1>1. [p EXCEPT !.value = value] = [range |-> p.range, axis |-> p.axis, anchor |-> p.anchor, value |-> value]
  BY PartsOf
<1>2. value \in [Always(g) \cup FieldsOf(p.range) \cup FieldsOf(p.axis) -> Nat]
  BY PartsOf DEF Shown
<1>3. QED BY <1>1, <1>2, PartsOf, PartsMade

LEMMA FieldReplaced ==
  ASSUME NEW g, NEW p, HasParts(g, p), NEW f, NEW n \in Nat
  PROVE  HasParts(g, [p EXCEPT !.value[f] = n])
<1>1. [p.value EXCEPT ![f] = n] \in [DOMAIN p.value -> Nat]
  BY PartsOf
<1>2. [p EXCEPT !.value[f] = n] = [p EXCEPT !.value = [p.value EXCEPT ![f] = n]]
  BY PartsOf
<1>3. QED BY <1>1, <1>2, ValuesReplaced

LEMMA AnchorTurned ==
  ASSUME NEW g, NEW p, HasParts(g, p)
  PROVE  HasParts(g, [p EXCEPT !.anchor = ~@])
<1>1. PICK turned \in BOOLEAN : turned = ~p.anchor
  BY PartsOf
<1>2. [p EXCEPT !.anchor = ~@] = [range |-> p.range, axis |-> p.axis, anchor |-> turned, value |-> p.value]
  BY <1>1, PartsOf
<1>3. p.value \in [Always(g) \cup FieldsOf(p.range) \cup FieldsOf(p.axis) -> Nat]
  BY PartsOf DEF Shown
<1>4. HasParts(g, [range |-> p.range, axis |-> p.axis, anchor |-> turned, value |-> p.value])
  BY <1>3, PartsOf, PartsMade
<1>5. QED BY <1>2, <1>4, Zenon

LEMMA DefaultHasParts ==
  ASSUME NEW g \in Graphs
  PROVE  HasParts(g, Default(g))
<1>1. CASE g = "scenarioHistory"
  <2> DEFINE value == [f \in {"width", "latestRuns"} |-> IF f = "width" THEN 1 ELSE 2]
  <2>1. Default(g) = [range |-> "latestRuns", axis |-> "fit", anchor |-> FALSE, value |-> value]
    BY <1>1 DEF Default
  <2>2. value \in [Always(g) \cup FieldsOf("latestRuns") \cup FieldsOf("fit") -> Nat]
    BY <1>1 DEF Always, FieldsOf
  <2> HIDE DEF value
  <2>3. QED BY <2>1, <2>2, PartsMade DEF Ranges, AxisModes
<1>2. CASE g # "scenarioHistory"
  <2> DEFINE value == [f \in {"width", "averagingWindow", "recentDays"} |-> 1]
  <2>1. Default(g) = [range |-> "recentDays", axis |-> "zero", anchor |-> TRUE, value |-> value]
    BY <1>2 DEF Default
  <2>2. value \in [Always(g) \cup FieldsOf("recentDays") \cup FieldsOf("zero") -> Nat]
    BY <1>2 DEF Always, FieldsOf, Graphs
  <2> HIDE DEF value
  <2>3. QED BY <2>1, <2>2, PartsMade DEF Ranges, AxisModes
<1>3. QED BY <1>1, <1>2

\* Another mode: the section has the fields of both its modes.
LEMMA SwitchedIs ==
  ASSUME NEW g, NEW p, HasParts(g, p), NEW mode \in Ranges \cup AxisModes
  PROVE  LET q == Switched(g, p, mode)
         IN /\ HasParts(g, q)
            /\ q.range = (IF mode \in Ranges THEN mode ELSE p.range)
            /\ q.axis = (IF mode \in Ranges THEN p.axis ELSE mode)
<1> DEFINE r == IF mode \in Ranges THEN [p EXCEPT !.range = mode] ELSE [p EXCEPT !.axis = mode]
           value == [f \in Shown(g, r) |-> IF f \in DOMAIN p.value THEN p.value[f] ELSE Seed(f)]
<1>1. /\ r = [range |-> r.range, axis |-> r.axis, anchor |-> r.anchor, value |-> r.value]
      /\ r.range = (IF mode \in Ranges THEN mode ELSE p.range)
      /\ r.axis = (IF mode \in Ranges THEN p.axis ELSE mode)
      /\ r.anchor = p.anchor
  BY PartsOf
<1>2. Switched(g, p, mode) = [r EXCEPT !.value = value]
  BY DEF Switched
<1>3. value \in [Shown(g, r) -> Nat]
  BY PartsOf DEF Seed
<1>4. r.range \in Ranges /\ r.axis \in AxisModes /\ r.anchor \in BOOLEAN
  BY <1>1, PartsOf
<1>5. value \in [Always(g) \cup FieldsOf(r.range) \cup FieldsOf(r.axis) -> Nat]
  BY <1>3 DEF Shown
<1> HIDE DEF r, value
<1>6. Switched(g, p, mode) = [range |-> r.range, axis |-> r.axis, anchor |-> r.anchor, value |-> value]
  BY <1>1, <1>2
<1>7. QED BY <1>1, <1>4, <1>5, <1>6, PartsMade

LEMMA SwitchedHasParts ==
  ASSUME NEW g, NEW p, HasParts(g, p), NEW mode \in Ranges \cup AxisModes
  PROVE  HasParts(g, Switched(g, p, mode))
BY SwitchedIs

LEMMA LoadShaped ==
  ASSUME NEW doc, doc \in {NoDocument, Unreadable} \/ DocShaped(doc)
  PROVE  Shaped(Load(doc))
<1>1. \A g \in Graphs : HasParts(g, Load(doc).graphs[g])
  BY DefaultHasParts DEF Load, DocShaped, GraphRejected
<1>2. Load(doc) = [graphs |-> Load(doc).graphs, lines |-> Load(doc).lines, label |-> Load(doc).label]
  BY DEF Load
<1>3. Load(doc).graphs = [g \in Graphs |-> Load(doc).graphs[g]]
  BY DEF Load
<1>4. QED BY <1>1, <1>2, <1>3 DEF Shaped

LEMMA EncodedShaped ==
  ASSUME NEW c, Shaped(c)
  PROVE  DocShaped(Encoded(c))
BY DEF Shaped, DocShaped, Encoded

LEMMA EstablishedShaped ==
  ASSUME NEW doc, doc \in {NoDocument, Unreadable} \/ DocShaped(doc)
  PROVE  DocShaped(Established(doc))
<1>1. DocShaped(Encoded(Load(doc)))
  BY LoadShaped, EncodedShaped
<1>2. \/ Established(doc) = Encoded(Load(doc))
      \/ Established(doc) = doc /\ doc \notin {NoDocument, Unreadable}
  BY DEF Established
<1>3. QED BY <1>1, <1>2

LEMMA ForeignShaped ==
  ASSUME NEW doc \in {NoDocument} \cup Foreign
  PROVE  doc \in {NoDocument, Unreadable} \/ DocShaped(doc)
BY DocumentAssumption DEF DocShaped

\* Replacing one section or the lines of a configuration.
LEMMA PatchShaped ==
  ASSUME NEW c, Shaped(c), NEW g \in Graphs, NEW p, HasParts(g, p)
  PROVE  Shaped([c EXCEPT !.graphs[g] = p])
BY DEF Shaped

LEMMA LinesShaped ==
  ASSUME NEW c, Shaped(c), NEW lines, NEW label
  PROVE  Shaped([c EXCEPT !.lines = lines, !.label = label])
<1>1. Shaped([c EXCEPT !.lines = lines])
  BY DEF Shaped
<1>2. \A d : Shaped(d) => Shaped([d EXCEPT !.label = label])
  BY DEF Shaped
<1>3. QED BY <1>1, <1>2

LEMMA RevalidatedShaped ==
  ASSUME NEW v, VisitShaped(v)
  PROVE  VisitShaped(Revalidated(v))
<1>1. \A w, draft : VisitShaped(w) => VisitShaped([w EXCEPT !.draft = draft])
  BY DEF VisitShaped
<1>2. \A w, pending : VisitShaped(w) => VisitShaped([w EXCEPT !.pending = pending])
  BY DEF VisitShaped
<1>3. QED BY <1>1, <1>2 DEF Revalidated

LEMMA StartedShaped ==
  ASSUME NEW c, Shaped(c)
  PROVE  VisitShaped(Started(c, c))
<1>1. VisitShaped([baseline |-> c, working |-> c, raw |-> {}, refused |-> {}, draft |-> {},
                   pending |-> FALSE, saving |-> FALSE])
  BY DEF VisitShaped
<1>2. QED BY <1>1, RevalidatedShaped DEF Started

LEMMA ShapeInit == Init => ShapeInv
<1> SUFFICES ASSUME Init PROVE ShapeInv
  OBVIOUS
<1>1. PICK doc \in {NoDocument} \cup Foreign : document = Established(doc)
  BY DEF Init
<1>2. DocShaped(document)
  BY <1>1, ForeignShaped, EstablishedShaped
<1>3. Shaped(committed)
  BY <1>2, LoadShaped DEF Init
<1>4. QED BY <1>2, <1>3 DEF Init, ShapeInv

\* A candidate with all its parts is committed and stored with them.
LEMMA ReplaceShaped ==
  ASSUME NEW c, ShapeInv, Shaped(c), Replace(c)
  PROVE  Shaped(committed') /\ DocShaped(document')
<1>1. CASE UNCHANGED serviceVars
  BY <1>1 DEF serviceVars, ShapeInv
<1>2. CASE Commit(c)
  BY <1>2, EncodedShaped DEF Commit
<1>3. QED BY <1>1, <1>2 DEF Replace

\* A quick change is a change of one section, to one that has all its parts.
LEMMA QuickIsPatch ==
  ASSUME Shaped(committed), QuickChange
  PROVE  \E g \in Graphs : \E p : HasParts(g, p) /\ QuickPatch(g, p)
<1>1. ASSUME NEW g \in Graphs, NEW range \in Ranges, NEW count \in Typed, QuickRange(g, range, count)
      PROVE  \E p : HasParts(g, p) /\ QuickPatch(g, p)
  <2> DEFINE p == Switched(g, committed.graphs[g], range)
             q == [p EXCEPT !.value = [f \in DOMAIN @ |-> IF f = range THEN count ELSE @[f]]]
  <2>1. HasParts(g, p)
    BY SwitchedHasParts DEF Shaped
  <2>2. [f \in DOMAIN p.value |-> IF f = range THEN count ELSE p.value[f]] \in [DOMAIN p.value -> Nat]
    BY <2>1, PartsOf, TypedAssumption
  <2>3. HasParts(g, q)
    <3> HIDE DEF p
    <3>1. QED BY <2>1, <2>2, ValuesReplaced
  <2>4. QuickPatch(g, q)
    BY <1>1 DEF QuickRange
  <2>5. QED
    <3> HIDE DEF q
    <3>1. QED BY <2>3, <2>4
<1>2. ASSUME NEW count \in Typed, QuickWindow(count)
      PROVE  \E g \in Graphs : \E p : HasParts(g, p) /\ QuickPatch(g, p)
  <2> DEFINE q == [committed.graphs["dailyPlaytime"] EXCEPT !.value["averagingWindow"] = count]
  <2>1. "dailyPlaytime" \in Graphs
    BY DEF Graphs
  <2>2. \A p : HasParts("dailyPlaytime", p)
                 => HasParts("dailyPlaytime", [p EXCEPT !.value["averagingWindow"] = count])
    BY FieldReplaced, TypedAssumption
  <2>3. HasParts("dailyPlaytime", q)
    BY <2>1, <2>2 DEF Shaped
  <2>4. QuickPatch("dailyPlaytime", q)
    BY <1>2 DEF QuickWindow
  <2>5. QED
    <3> HIDE DEF q
    <3>1. QED BY <2>1, <2>3, <2>4
<1>3. QED BY <1>1, <1>2 DEF QuickChange

LEMMA QuickShaped ==
  ASSUME ShapeInv, QuickChange
  PROVE  ShapeInv'
<1>1. ASSUME NEW g \in Graphs, NEW p, HasParts(g, p), QuickPatch(g, p) PROVE ShapeInv'
  <2>1. Shaped([committed EXCEPT !.graphs[g] = p])
    BY <1>1, PatchShaped DEF ShapeInv
  <2>2. Replace([committed EXCEPT !.graphs[g] = p]) /\ visit' = visit
    BY <1>1 DEF QuickPatch
  <2>3. QED BY <2>1, <2>2, ReplaceShaped DEF ShapeInv
<1>2. QED BY <1>1, QuickIsPatch DEF ShapeInv

\* An edit replaces one section, or the lines and the label, of the working copy.
LEMMA EditShaped ==
  ASSUME ShapeInv, visit # Closed, GraphEdit \/ LineEdit
  PROVE  VisitShaped(visit')
<1>1. VisitShaped(visit) /\ Shaped(visit.working)
  BY DEF ShapeInv, VisitShaped
<1>2. \A v, c : VisitShaped(v) /\ Shaped(c) => VisitShaped([v EXCEPT !.working = c])
  BY DEF VisitShaped
<1>3. \A v, raw : VisitShaped(v) => VisitShaped([v EXCEPT !.raw = raw])
  BY DEF VisitShaped
<1>4. \A v, refused : VisitShaped(v) => VisitShaped([v EXCEPT !.refused = refused])
  BY DEF VisitShaped
<1>5. ASSUME NEW g \in Graphs, NEW p, HasParts(g, p), NEW raw, DraftChanged(g, p, raw) PROVE VisitShaped(visit')
  <2> DEFINE working == [visit.working EXCEPT !.graphs[g] = p]
             v == Revalidated([visit EXCEPT !.working = working, !.raw = raw])
  <2>1. Shaped(working)
    BY <1>1, <1>5, PatchShaped
  <2>2. visit' = [v EXCEPT !.refused = IF v.draft = {} THEN {} ELSE @]
    BY <1>5 DEF DraftChanged
  <2>3. VisitShaped(v)
    <3> HIDE DEF working
    <3>1. VisitShaped([visit EXCEPT !.working = working, !.raw = raw])
      BY <1>1, <1>2, <1>3, <2>1
    <3>2. QED BY <3>1, RevalidatedShaped
  <2>4. QED
    <3> HIDE DEF v
    <3>1. QED BY <1>4, <2>2, <2>3
<1>6. ASSUME NEW lines, NEW label, LinesChanged(lines, label) PROVE VisitShaped(visit')
  <2> DEFINE working == [visit.working EXCEPT !.lines = lines, !.label = Reconciled(lines, label)]
             v == [visit EXCEPT !.working = working]
  <2>1. Shaped(working)
    BY <1>1, LinesShaped
  <2>2. VisitShaped(v)
    <3> HIDE DEF working
    <3>1. QED BY <1>1, <1>2, <2>1
  <2>3. visit' = [v EXCEPT !.pending = Pending(v)]
    BY <1>6 DEF LinesChanged
  <2>4. \A w, pending : VisitShaped(w) => VisitShaped([w EXCEPT !.pending = pending])
    BY DEF VisitShaped
  <2>5. QED
    <3> HIDE DEF v
    <3>1. QED BY <2>2, <2>3, <2>4
<1>7. \A g \in Graphs : HasParts(g, Draft(g))
  BY <1>1 DEF Draft, Shaped
<1>8. CASE GraphEdit
  <2>1. ASSUME NEW g \in Graphs, NEW f \in DOMAIN Draft(g).value, NEW text \in Typed \cup {Garbled},
               SetGraphField(g, f, text)
        PROVE  VisitShaped(visit')
    <3>1. text # Garbled => HasParts(g, [Draft(g) EXCEPT !.value[f] = text])
      BY <1>7, FieldReplaced, TypedAssumption
    <3>2. QED BY <1>5, <1>7, <2>1, <3>1 DEF SetGraphField
  <2>2. ASSUME NEW g \in Graphs, NEW mode \in Ranges \cup AxisModes, SetGraphRangeKind(g, mode) \/ SetAxisMode(g, mode)
        PROVE  VisitShaped(visit')
    <3>1. HasParts(g, Switched(g, Draft(g), mode))
      BY <1>7, SwitchedHasParts
    <3>2. QED BY <1>5, <2>2, <3>1 DEF SetGraphRangeKind, SetAxisMode
  <2>3. ASSUME NEW g \in Graphs, SetGraphAnchor(g) PROVE VisitShaped(visit')
    <3>1. HasParts(g, [Draft(g) EXCEPT !.anchor = ~@])
      BY <1>7, AnchorTurned
    <3>2. QED BY <1>5, <2>3, <3>1 DEF SetGraphAnchor
  <2>4. ASSUME NEW g \in Graphs, ClearSeriesOverride(g) PROVE VisitShaped(visit')
    <3>1. HasParts(g, [Draft(g) EXCEPT !.value["width"] = Seed("width")])
      BY <1>7, FieldReplaced DEF Seed, Bounds
    <3>2. QED BY <1>5, <2>4, <3>1 DEF ClearSeriesOverride
  <2>5. ASSUME NEW g \in Graphs, ResetGraph(g) PROVE VisitShaped(visit')
    BY <1>5, <2>5, DefaultHasParts DEF ResetGraph
  <2>6. QED BY <1>8, <2>1, <2>2, <2>3, <2>4, <2>5 DEF GraphEdit
<1>9. CASE LineEdit
  <2>1. \A lines : EditRunSeries(lines) => VisitShaped(visit')
    BY <1>6 DEF EditRunSeries
  <2>2. \A label : SetRunAxisLabel(label) \/ RestoreDefaultGraphLines => VisitShaped(visit')
    BY <1>6 DEF SetRunAxisLabel, RestoreDefaultGraphLines
  <2>3. QED BY <1>9, <2>1, <2>2, Zenon DEF LineEdit
<1>10. QED BY <1>8, <1>9

LEMMA VisitShapeStep ==
  ASSUME ShapeInv, VisitStep
  PROVE  ShapeInv'
<1>1. CASE BeginVisit
  <2>1. VisitShaped(visit')
    BY <1>1, StartedShaped DEF BeginVisit, ShapeInv
  <2>2. QED BY <1>1, <2>1 DEF BeginVisit, ShapeInv, serviceVars
<1>2. CASE RevertChanges
  <2>1. VisitShaped(visit')
    BY <1>2, StartedShaped DEF RevertChanges, Visiting, ShapeInv, VisitShaped
  <2>2. QED BY <1>2, <2>1 DEF RevertChanges, ShapeInv, serviceVars
<1>3. CASE EndVisit
  BY <1>3 DEF EndVisit, ShapeInv, serviceVars
<1>4. CASE visit # Closed /\ (GraphEdit \/ LineEdit)
  <2>1. VisitShaped(visit')
    BY <1>4, EditShaped
  <2>2. UNCHANGED serviceVars
    BY <1>4, EditsAreQuiet
  <2>3. QED BY <2>1, <2>2 DEF ShapeInv, serviceVars
<1>5. CASE SaveRefused
  <2>1. \A v, refused : VisitShaped(v) => VisitShaped([v EXCEPT !.refused = refused])
    BY DEF VisitShaped
  <2>2. VisitShaped(visit')
    BY <1>5, <2>1, RevalidatedShaped DEF SaveRefused, Visiting, ShapeInv
  <2>3. QED BY <1>5, <2>2 DEF SaveRefused, ShapeInv, serviceVars
<1>6. CASE SaveAccepted
  <2>1. VisitShaped(visit) /\ Replace(visit.working) /\ visit' = [visit EXCEPT !.saving = TRUE]
    BY <1>6 DEF SaveAccepted, Visiting, ShapeInv
  <2>2. VisitShaped(visit')
    BY <2>1 DEF VisitShaped
  <2>3. Shaped(committed') /\ DocShaped(document')
    BY <2>1, ReplaceShaped DEF VisitShaped
  <2>4. QED BY <2>2, <2>3 DEF ShapeInv
<1>7. CASE SaveReturns
  <2>1. VisitShaped([visit EXCEPT !.saving = FALSE, !.baseline = visit.working, !.refused = {}])
    <3>1. VisitShaped(visit) /\ Shaped(visit.working)
      <4>1. VisitShaped(visit)
        BY <1>7 DEF SaveReturns, ShapeInv
      <4>2. QED BY <4>1 DEF VisitShaped
    <3>2. \A v, saving : VisitShaped(v) => VisitShaped([v EXCEPT !.saving = saving])
      BY DEF VisitShaped
    <3>3. \A v : VisitShaped(v) => VisitShaped([v EXCEPT !.baseline = visit.working])
      BY <3>1 DEF VisitShaped
    <3>4. \A v : VisitShaped(v) => VisitShaped([v EXCEPT !.refused = {}])
      BY DEF VisitShaped
    <3>5. QED BY <3>1, <3>2, <3>3, <3>4
  <2>2. visit' = Revalidated([visit EXCEPT !.saving = FALSE, !.baseline = visit.working, !.refused = {}])
    BY <1>7 DEF SaveReturns
  <2>3. VisitShaped(visit')
    BY <1>7, <2>1, <2>2, RevalidatedShaped DEF SaveReturns, ShapeInv
  <2>4. QED BY <1>7, <2>3 DEF SaveReturns, ShapeInv, serviceVars
<1>8. QED BY <1>1, <1>2, <1>3, <1>4, <1>5, <1>6, <1>7 DEF VisitStep

LEMMA ShapeStep ==
  ASSUME ShapeInv, [Next]_vars
  PROVE  ShapeInv'
<1>1. CASE UNCHANGED <<committed, document, visit>>
  BY <1>1 DEF ShapeInv
<1>2. ASSUME NEW doc \in {document} \cup Foreign, Restart(doc) PROVE ShapeInv'
  <2>1. doc \in {NoDocument, Unreadable} \/ DocShaped(doc)
    BY ForeignShaped DEF ShapeInv
  <2>2. DocShaped(document') /\ Shaped(committed')
    BY <1>2, <2>1, EstablishedShaped, LoadShaped DEF Restart
  <2>3. QED BY <1>2, <2>2 DEF Restart, ShapeInv
<1>3. Deliver \/ DayChanged \/ (\E last \in 0 .. MaxDays : ProfileChanged(last)) \/ UNCHANGED vars
        => UNCHANGED <<committed, document, visit>>
  BY DEF Deliver, DayChanged, ProfileChanged, serviceVars, vars
<1>4. QED BY <1>1, <1>2, <1>3, QuickShaped, VisitShapeStep DEF Next

-----------------------------------------------------------------------------
(* What the graphs draw: current, or about to be told.                     *)

\* A change of one of these parts is still to be heard by the listener.
Awaits(i, parts) ==
  \E j \in 1 .. Len(queue) :
    /\ j = 1 => hears <= i
    /\ \E part \in parts : <<Listeners[i], part>> \in queue[j].sections

ChartsShaped(c) ==
  /\ c = [lines |-> c.lines, cache |-> c.cache, dailyPlaytime |-> c.dailyPlaytime,
          scenarioHistory |-> c.scenarioHistory, style |-> c.style]
  /\ c.lines = [lines |-> c.lines.lines, labelled |-> c.lines.labelled]
  /\ c.style = [g \in Graphs |-> c.style[g]]

PlaytimeCurrent(c) ==
  LET p == c.graphs["dailyPlaytime"] IN
  /\ charts.cache = [window |-> p.value["averagingWindow"], runs |-> latest, anchor |-> latest]
  /\ charts.dailyPlaytime = PlaytimeDrawn(p, charts.cache, today)

ChartInv ==
  /\ ChartsShaped(charts)
  /\ charts.cache = [window |-> charts.cache.window, runs |-> latest, anchor |-> latest]
  /\ charts.lines.lines = committed.lines \/ Awaits(1, {"runSeries"})
  /\ charts.lines.labelled = Labelled(committed) \/ Awaits(1, {"runSeries", "label"})
  /\ PlaytimeCurrent(committed) \/ Awaits(2, {"range", "window"})
  /\ charts.style["dailyPlaytime"] = Style(committed.graphs["dailyPlaytime"]) \/ Awaits(2, {"style"})
  /\ \/ charts.scenarioHistory = HistoryDrawn(committed.graphs["scenarioHistory"], latest, today)
     \/ Awaits(3, {"range"})
  /\ charts.style["scenarioHistory"] = Style(committed.graphs["scenarioHistory"]) \/ Awaits(3, {"style"})

LEMMA FreshInv == charts = Fresh(committed, latest, today) => ChartInv
<1> SUFFICES ASSUME charts = Fresh(committed, latest, today) PROVE ChartInv
  OBVIOUS
<1>1. ChartsShaped(charts)
  BY DEF Fresh, ChartsShaped, LinesDrawn
<1>2. charts.cache = [window |-> committed.graphs["dailyPlaytime"].value["averagingWindow"],
                      runs |-> latest, anchor |-> latest]
  BY DEF Fresh
<1>3. /\ charts.lines.lines = committed.lines /\ charts.lines.labelled = Labelled(committed)
      /\ charts.dailyPlaytime = PlaytimeDrawn(committed.graphs["dailyPlaytime"], charts.cache, today)
      /\ charts.scenarioHistory = HistoryDrawn(committed.graphs["scenarioHistory"], latest, today)
  BY DEF Fresh, LinesDrawn
<1>4. /\ charts.style["dailyPlaytime"] = Style(committed.graphs["dailyPlaytime"])
      /\ charts.style["scenarioHistory"] = Style(committed.graphs["scenarioHistory"])
  BY DEF Fresh, Graphs
<1>5. QED BY <1>1, <1>2, <1>3, <1>4 DEF ChartInv, PlaytimeCurrent

\* With nothing to be published there is nothing to wait for.
LEMMA RestIsFresh ==
  ASSUME QueueInv, ChartInv, hears = 0
  PROVE  charts = Fresh(committed, latest, today)
<1>1. Len(queue) = 0
  BY DEF QueueInv
<1>2. \A i, parts : ~Awaits(i, parts)
  BY <1>1 DEF Awaits
<1>3. /\ charts.lines = [lines |-> committed.lines, labelled |-> Labelled(committed)]
      /\ PlaytimeCurrent(committed)
      /\ charts.scenarioHistory = HistoryDrawn(committed.graphs["scenarioHistory"], latest, today)
  BY <1>2 DEF ChartInv, ChartsShaped
<1>4. charts.style = [g \in Graphs |-> Style(committed.graphs[g])]
  BY <1>2 DEF ChartInv, ChartsShaped, Graphs
<1>5. charts = [lines |-> charts.lines, cache |-> charts.cache, dailyPlaytime |-> charts.dailyPlaytime,
                scenarioHistory |-> charts.scenarioHistory, style |-> charts.style]
  BY DEF ChartInv, ChartsShaped
<1>6. QED BY <1>3, <1>4, <1>5 DEF Fresh, LinesDrawn, PlaytimeCurrent

\* A call of a listener takes nothing from those who wait but what it tells.
LEMMA DeliverAwaits ==
  ASSUME QueueInv, Deliver, NEW i \in 1 .. 3, NEW parts, Awaits(i, parts)
  PROVE  \/ Awaits(i, parts)'
         \/ i = hears /\ \E part \in parts : <<Listeners[i], part>> \in Head(queue).sections
<1>1. hears \in 1 .. 3 /\ Len(queue) \in Nat \ {0}
  BY DEF Deliver, QueueInv
<1>2. IF hears < 3 THEN hears' = hears + 1 /\ queue' = queue
      ELSE hears' = (IF Len(queue) > 1 THEN 1 ELSE 0) /\ queue' = Tail(queue)
  BY ListenerNames DEF Deliver
<1>3. PICK j \in 1 .. Len(queue) : /\ j = 1 => hears <= i
                                   /\ \E part \in parts : <<Listeners[i], part>> \in queue[j].sections
  BY DEF Awaits
<1>4. CASE j = 1 /\ i = hears
  <2>1. Head(queue) = queue[1]
    BY <1>1, HeadTailProperties DEF QueueInv
  <2>2. QED BY <1>3, <1>4, <2>1
<1>5. CASE hears < 3 /\ ~(j = 1 /\ i = hears)
  BY <1>1, <1>2, <1>3, <1>5, SMTT(30) DEF Awaits
<1>6. CASE hears = 3 /\ ~(j = 1 /\ i = hears)
  <2>1. j # 1 /\ Len(queue) > 1
    BY <1>1, <1>3, <1>6
  <2>2. /\ Len(Tail(queue)) = Len(queue) - 1
        /\ \A k \in 1 .. Len(queue) - 1 : Tail(queue)[k] = queue[k + 1]
    BY <1>1, HeadTailProperties DEF QueueInv
  <2>3. j - 1 \in 1 .. Len(queue') /\ queue'[j - 1] = queue[j] /\ hears' = 1
    BY <1>1, <1>2, <1>6, <2>1, <2>2
  <2>4. PICK k \in 1 .. Len(queue') : queue'[k] = queue[j]
    BY <2>3
  <2>5. hears' <= i /\ \E part \in parts : <<Listeners[i], part>> \in queue'[k].sections
    BY <1>3, <2>3, <2>4
  <2>6. Awaits(i, parts)'
    BY <2>5 DEF Awaits
  <2>7. QED BY <2>6
<1>7. hears < 3 \/ hears = 3
  BY <1>1
<1>8. QED BY <1>4, <1>5, <1>6, <1>7, Zenon

\* A commit leaves everyone waiting who was, and those it concerns.
LEMMA CommitAwaits ==
  ASSUME QueueInv, NEW c, Commit(c), NEW i \in 1 .. 3, NEW parts,
         \/ Awaits(i, parts)
         \/ \E part \in parts : <<Listeners[i], part>> \in Diff(committed, c)
  PROVE  Awaits(i, parts)'
<1> DEFINE change == [sections |-> Diff(committed, c), revision |-> revision + 1]
<1>1. change \in Change /\ change.sections = Diff(committed, c)
  BY DiffIsChange DEF Change, QueueInv
<1>2. queue' = Append(queue, change) /\ hears' = (IF hears = 0 THEN 1 ELSE hears)
  BY DEF Commit
<1>3. /\ Len(queue) \in Nat /\ Len(queue') = Len(queue) + 1
      /\ \A k \in 1 .. Len(queue) : queue'[k] = queue[k]
      /\ queue'[Len(queue) + 1] = change
  <2> HIDE DEF change
  <2>1. QED BY <1>1, <1>2, AppendProperties DEF QueueInv
<1> HIDE DEF change
<1>4. CASE Awaits(i, parts)
  <2>1. PICK j \in 1 .. Len(queue) : /\ j = 1 => hears <= i
                                     /\ \E part \in parts : <<Listeners[i], part>> \in queue[j].sections
    BY <1>4 DEF Awaits
  <2>2. j \in 1 .. Len(queue') /\ queue'[j] = queue[j]
    BY <1>3, <2>1
  <2>3. hears' = hears
    BY <1>2, <1>3, <2>1 DEF QueueInv
  <2>4. QED BY <2>1, <2>2, <2>3 DEF Awaits
<1>5. CASE \E part \in parts : <<Listeners[i], part>> \in Diff(committed, c)
  <2>1. Len(queue) + 1 = 1 => hears' <= i
    BY <1>2, <1>3 DEF QueueInv
  <2>2. QED BY <1>1, <1>3, <1>5, <2>1 DEF Awaits
<1>6. QED BY <1>4, <1>5

\* Whatever a graph draws differently belongs to a part that differs.
LEMMA DiffCovers ==
  ASSUME NEW before, Shaped(before), NEW after, Shaped(after)
  PROVE  /\ before.lines = after.lines \/ <<"lines", "runSeries">> \in Diff(before, after)
         /\ \/ Labelled(before) = Labelled(after)
            \/ <<"lines", "runSeries">> \in Diff(before, after)
            \/ <<"lines", "label">> \in Diff(before, after)
         /\ \A g \in Graphs : /\ \/ Style(before.graphs[g]) = Style(after.graphs[g])
                                 \/ <<g, "style">> \in Diff(before, after)
                              /\ \/ \A last, day : Projection(before.graphs[g], last, day)
                                                     = Projection(after.graphs[g], last, day)
                                 \/ <<g, "range">> \in Diff(before, after)
         /\ \/ before.graphs["dailyPlaytime"].value["averagingWindow"]
                 = after.graphs["dailyPlaytime"].value["averagingWindow"]
            \/ <<"dailyPlaytime", "window">> \in Diff(before, after)
<1>1. before.lines = after.lines \/ <<"lines", "runSeries">> \in Diff(before, after)
  BY DEF Diff
<1>2. before.label = after.label \/ <<"lines", "label">> \in Diff(before, after)
  BY DEF Diff
<1>3. Labelled(before) = Labelled(after) \/ before.lines # after.lines \/ before.label # after.label
  BY DEF Labelled
<1>4. ASSUME NEW g \in Graphs
      PROVE  Style(before.graphs[g]) = Style(after.graphs[g]) \/ <<g, "style">> \in Diff(before, after)
  BY DEF Diff
<1>5. ASSUME NEW g \in Graphs, NEW last, NEW day, <<g, "range">> \notin Diff(before, after)
      PROVE  Projection(before.graphs[g], last, day) = Projection(after.graphs[g], last, day)
  <2> DEFINE Chosen(p) == <<p.range, p.anchor, Only(RangeFields, p)>>
  <2>1. Chosen(before.graphs[g]) = Chosen(after.graphs[g])
    BY <1>5 DEF Diff
  <2>2. /\ before.graphs[g].range = after.graphs[g].range
        /\ before.graphs[g].anchor = after.graphs[g].anchor
        /\ Only(RangeFields, before.graphs[g]) = Only(RangeFields, after.graphs[g])
    BY <2>1
  <2>3. QED BY <2>2 DEF Projection
<1>6. ASSUME <<"dailyPlaytime", "window">> \notin Diff(before, after)
      PROVE  before.graphs["dailyPlaytime"].value["averagingWindow"]
               = after.graphs["dailyPlaytime"].value["averagingWindow"]
  <2> DEFINE was == before.graphs["dailyPlaytime"]
             now == after.graphs["dailyPlaytime"]
  <2>1. Only({"averagingWindow"}, was) = Only({"averagingWindow"}, now)
    BY <1>6 DEF Diff, Graphs
  <2>2. "averagingWindow" \in DOMAIN was.value /\ "averagingWindow" \in DOMAIN now.value
    BY PartsOf DEF Shaped, Graphs
  <2>3. \A p : "averagingWindow" \in DOMAIN p.value
               => Only({"averagingWindow"}, p)["averagingWindow"] = p.value["averagingWindow"]
    BY DEF Only
  <2> HIDE DEF was, now
  <2>4. was.value["averagingWindow"] = now.value["averagingWindow"]
    BY <2>1, <2>2, <2>3
  <2>5. QED BY <2>4 DEF was, now
<1>7. QED BY <1>1, <1>2, <1>3, <1>4, <1>5, <1>6

\* Nothing is drawn by a commit; what becomes outdated by it is queued.
LEMMA CommitCharts ==
  ASSUME QueueInv, ChartInv, Shaped(committed), NEW c, Shaped(c), Commit(c), UNCHANGED <<charts, latest, today>>
  PROVE  ChartInv'
<1>1. committed' = c /\ charts' = charts /\ latest' = latest /\ today' = today
  BY DEF Commit
<1>2. \A i \in 1 .. 3 : \A parts : Awaits(i, parts) => Awaits(i, parts)'
  BY CommitAwaits
<1>3. \A i \in 1 .. 3 : \A part, parts :
        part \in parts /\ <<Listeners[i], part>> \in Diff(committed, c) => Awaits(i, parts)'
  BY CommitAwaits
<1>4. ChartsShaped(charts') /\ charts'.cache = [window |-> charts'.cache.window, runs |-> latest', anchor |-> latest']
  BY <1>1 DEF ChartInv
<1>5. charts.lines.lines = c.lines \/ Awaits(1, {"runSeries"})'
  BY <1>2, <1>3, DiffCovers, ListenerNames DEF ChartInv
<1>6. charts.lines.labelled = Labelled(c) \/ Awaits(1, {"runSeries", "label"})'
  BY <1>2, <1>3, DiffCovers, ListenerNames DEF ChartInv
<1>7. \A g \in Graphs, i \in 1 .. 3 :
        Listeners[i] = g /\ (charts.style[g] = Style(committed.graphs[g]) \/ Awaits(i, {"style"}))
          => charts.style[g] = Style(c.graphs[g]) \/ Awaits(i, {"style"})'
  BY <1>2, <1>3, DiffCovers
<1>8. \/ charts.scenarioHistory = HistoryDrawn(c.graphs["scenarioHistory"], latest, today)
      \/ Awaits(3, {"range"})'
  <2>1. \/ HistoryDrawn(c.graphs["scenarioHistory"], latest, today)
             = HistoryDrawn(committed.graphs["scenarioHistory"], latest, today)
        \/ Awaits(3, {"range"})'
    BY <1>3, DiffCovers, ListenerNames DEF HistoryDrawn, Graphs
  <2>2. QED BY <1>2, <2>1 DEF ChartInv
<1>9. PlaytimeCurrent(c) \/ Awaits(2, {"range", "window"})'
  <2> DEFINE was == committed.graphs["dailyPlaytime"]
             now == c.graphs["dailyPlaytime"]
  <2>1. \/ /\ was.value["averagingWindow"] = now.value["averagingWindow"]
           /\ \A last, day : Projection(was, last, day) = Projection(now, last, day)
        \/ Awaits(2, {"range", "window"})'
    BY <1>3, DiffCovers, ListenerNames DEF Graphs
  <2>2. ASSUME was.value["averagingWindow"] = now.value["averagingWindow"],
               \A last, day : Projection(was, last, day) = Projection(now, last, day),
               PlaytimeCurrent(committed)
        PROVE  PlaytimeCurrent(c)
    BY <2>2 DEF PlaytimeCurrent, PlaytimeDrawn
  <2>3. PlaytimeCurrent(committed) \/ Awaits(2, {"range", "window"})'
    BY <1>2 DEF ChartInv
  <2>4. QED BY <2>1, <2>2, <2>3
<1>10. PlaytimeCurrent(c) <=> PlaytimeCurrent(committed)'
  BY <1>1 DEF PlaytimeCurrent
<1>11. /\ charts'.style["dailyPlaytime"] = Style(committed'.graphs["dailyPlaytime"]) \/ Awaits(2, {"style"})'
       /\ charts'.style["scenarioHistory"] = Style(committed'.graphs["scenarioHistory"]) \/ Awaits(3, {"style"})'
  BY <1>1, <1>7, ListenerNames DEF ChartInv, Graphs
<1>12. QED BY <1>1, <1>4, <1>5, <1>6, <1>8, <1>9, <1>10, <1>11 DEF ChartInv

LEMMA ReplaceCharts ==
  ASSUME QueueInv, ChartInv, Shaped(committed), NEW c, Shaped(c), Replace(c), UNCHANGED <<charts, latest, today>>
  PROVE  ChartInv'
<1>1. CASE UNCHANGED serviceVars
  BY <1>1 DEF ChartInv, PlaytimeCurrent, Awaits, serviceVars
<1>2. CASE Commit(c)
  BY <1>2, CommitCharts
<1>3. QED BY <1>1, <1>2 DEF Replace

\* A new day is drawn by the graphs that follow it, and looks the same to the others.
LEMMA DayCharts ==
  ASSUME QueueInv, ChartInv, DayChanged
  PROVE  charts' = Fresh(committed', latest', today')
<1> DEFINE playtime == committed.graphs["dailyPlaytime"]
           history == committed.graphs["scenarioHistory"]
<1>1. /\ committed' = committed /\ latest' = latest /\ hears = 0
      /\ charts = Fresh(committed, latest, today)
  BY RestIsFresh DEF DayChanged, AtRest, serviceVars
<1>2. \A p, last : FollowsToday(p) \/ Projection(p, last, today') = Projection(p, last, today)
  BY DEF FollowsToday, Projection
<1>3. charts.cache = [window |-> playtime.value["averagingWindow"], runs |-> latest, anchor |-> latest]
  BY <1>1 DEF Fresh
<1>4. /\ Redrawn(charts.cache, latest, today').cache = charts.cache
      /\ Redrawn(charts.cache, latest, today').drawn = PlaytimeDrawn(playtime, charts.cache, today')
  BY <1>3 DEF Redrawn, Cached
<1>5. charts' = [charts EXCEPT
          !.cache = IF FollowsToday(playtime) THEN Redrawn(charts.cache, latest, today').cache ELSE @,
          !.dailyPlaytime = IF FollowsToday(playtime) THEN Redrawn(charts.cache, latest, today').drawn ELSE @,
          !.scenarioHistory = IF FollowsToday(history) THEN HistoryDrawn(history, latest, today') ELSE @]
  BY DEF DayChanged
<1>6. (IF FollowsToday(playtime) THEN PlaytimeDrawn(playtime, charts.cache, today') ELSE charts.dailyPlaytime)
        = PlaytimeDrawn(playtime, charts.cache, today')
  BY <1>1, <1>2 DEF Fresh, PlaytimeDrawn
<1>7. (IF FollowsToday(history) THEN HistoryDrawn(history, latest, today') ELSE charts.scenarioHistory)
        = HistoryDrawn(history, latest, today')
  BY <1>1, <1>2 DEF Fresh, HistoryDrawn
<1>8. charts' = [charts EXCEPT !.cache = charts.cache,
                               !.dailyPlaytime = PlaytimeDrawn(playtime, charts.cache, today'),
                               !.scenarioHistory = HistoryDrawn(history, latest, today')]
  BY <1>1, <1>4, <1>5, <1>6, <1>7 DEF Fresh
<1>9. QED BY <1>1, <1>3, <1>8 DEF Fresh

\* A new profile is drawn by every graph, from nothing computed before.
LEMMA ProfileCharts ==
  ASSUME QueueInv, ChartInv, NEW last, ProfileChanged(last)
  PROVE  charts' = Fresh(committed', latest', today')
<1> DEFINE playtime == committed.graphs["dailyPlaytime"]
           cache == [window |-> playtime.value["averagingWindow"], runs |-> last, anchor |-> last]
<1>1. /\ committed' = committed /\ latest' = last /\ today' = today /\ hears = 0
      /\ charts = Fresh(committed, latest, today)
  BY RestIsFresh DEF ProfileChanged, AtRest, serviceVars
<1>2. Redrawn(Closed, last, today) = [cache |-> cache, drawn |-> PlaytimeDrawn(playtime, cache, today)]
  BY DEF Redrawn, Cached
<1>3. charts' = [charts EXCEPT !.cache = cache, !.dailyPlaytime = PlaytimeDrawn(playtime, cache, today),
                               !.scenarioHistory = HistoryDrawn(committed.graphs["scenarioHistory"], last, today)]
  BY <1>2 DEF ProfileChanged
<1>4. QED BY <1>1, <1>3 DEF Fresh

\* What each listener redraws.
WithLines(c, lines, labelled) == [c EXCEPT !.lines.lines = lines, !.lines.labelled = labelled]
WithPlaytime(c, style, cache, drawn) ==
  [c EXCEPT !.style["dailyPlaytime"] = style, !.cache = cache, !.dailyPlaytime = drawn]
WithHistory(c, style, drawn) == [c EXCEPT !.style["scenarioHistory"] = style, !.scenarioHistory = drawn]

\* What a listener redraws changes nothing of the other graphs.
LEMMA RedrawLines ==
  ASSUME NEW c, ChartsShaped(c), NEW lines, NEW labelled, NEW d, d = WithLines(c, lines, labelled)
  PROVE  /\ ChartsShaped(d) /\ d.lines.lines = lines /\ d.lines.labelled = labelled
         /\ d.cache = c.cache /\ d.dailyPlaytime = c.dailyPlaytime
         /\ d.scenarioHistory = c.scenarioHistory /\ d.style = c.style
<1>1. PICK e : e = [c EXCEPT !.lines.lines = lines]
  OBVIOUS
<1>2. /\ ChartsShaped(e) /\ e.lines.lines = lines
      /\ e.cache = c.cache /\ e.dailyPlaytime = c.dailyPlaytime
      /\ e.scenarioHistory = c.scenarioHistory /\ e.style = c.style
  BY <1>1 DEF ChartsShaped
<1>3. d = [e EXCEPT !.lines.labelled = labelled]
  BY <1>1 DEF WithLines
<1>4. ChartsShaped(e)
  BY <1>2
<1>5. /\ ChartsShaped(d) /\ d.lines.lines = e.lines.lines /\ d.lines.labelled = labelled
      /\ d.cache = e.cache /\ d.dailyPlaytime = e.dailyPlaytime
      /\ d.scenarioHistory = e.scenarioHistory /\ d.style = e.style
  BY <1>3, <1>4 DEF ChartsShaped
<1>6. QED BY <1>2, <1>5

LEMMA RedrawStyle ==
  ASSUME NEW c, ChartsShaped(c), NEW g \in Graphs, NEW style, NEW d, d = [c EXCEPT !.style[g] = style]
  PROVE  /\ ChartsShaped(d) /\ d.style[g] = style /\ \A h \in Graphs \ {g} : d.style[h] = c.style[h]
         /\ d.lines = c.lines /\ d.cache = c.cache /\ d.dailyPlaytime = c.dailyPlaytime
         /\ d.scenarioHistory = c.scenarioHistory
BY DEF ChartsShaped

LEMMA RedrawPlaytime ==
  ASSUME NEW c, ChartsShaped(c), NEW style, NEW cache, NEW drawn, NEW d,
         d = WithPlaytime(c, style, cache, drawn)
  PROVE  /\ ChartsShaped(d) /\ d.style["dailyPlaytime"] = style /\ d.cache = cache /\ d.dailyPlaytime = drawn
         /\ d.lines = c.lines /\ d.scenarioHistory = c.scenarioHistory
         /\ d.style["scenarioHistory"] = c.style["scenarioHistory"]
<1>1. PICK e : e = [c EXCEPT !.style["dailyPlaytime"] = style]
  OBVIOUS
<1>2. /\ ChartsShaped(e) /\ e.style["dailyPlaytime"] = style
      /\ e.lines = c.lines /\ e.scenarioHistory = c.scenarioHistory
      /\ e.style["scenarioHistory"] = c.style["scenarioHistory"]
  BY <1>1, RedrawStyle DEF Graphs
<1>3. PICK f : f = [e EXCEPT !.cache = cache]
  OBVIOUS
<1>4. /\ ChartsShaped(f) /\ f.cache = cache
      /\ f.lines = e.lines /\ f.scenarioHistory = e.scenarioHistory /\ f.style = e.style
  BY <1>2, <1>3 DEF ChartsShaped
<1>5. d = [f EXCEPT !.dailyPlaytime = drawn]
  BY <1>1, <1>3 DEF WithPlaytime
<1>6. /\ ChartsShaped(d) /\ d.dailyPlaytime = drawn /\ d.cache = f.cache
      /\ d.lines = f.lines /\ d.scenarioHistory = f.scenarioHistory /\ d.style = f.style
  BY <1>4, <1>5 DEF ChartsShaped
<1>7. QED BY <1>2, <1>4, <1>6

LEMMA RedrawHistory ==
  ASSUME NEW c, ChartsShaped(c), NEW style, NEW drawn, NEW d, d = WithHistory(c, style, drawn)
  PROVE  /\ ChartsShaped(d) /\ d.style["scenarioHistory"] = style /\ d.scenarioHistory = drawn
         /\ d.lines = c.lines /\ d.cache = c.cache /\ d.dailyPlaytime = c.dailyPlaytime
         /\ d.style["dailyPlaytime"] = c.style["dailyPlaytime"]
<1>1. PICK e : e = [c EXCEPT !.style["scenarioHistory"] = style]
  OBVIOUS
<1>2. /\ ChartsShaped(e) /\ e.style["scenarioHistory"] = style
      /\ e.lines = c.lines /\ e.cache = c.cache /\ e.dailyPlaytime = c.dailyPlaytime
      /\ e.style["dailyPlaytime"] = c.style["dailyPlaytime"]
  <2>1. "scenarioHistory" \in Graphs /\ "dailyPlaytime" \in Graphs \ {"scenarioHistory"}
    BY DEF Graphs
  <2>2. QED BY <1>1, <2>1, RedrawStyle
<1>3. d = [e EXCEPT !.scenarioHistory = drawn]
  BY <1>1 DEF WithHistory
<1>4. /\ ChartsShaped(d) /\ d.scenarioHistory = drawn
      /\ d.lines = e.lines /\ d.cache = e.cache /\ d.dailyPlaytime = e.dailyPlaytime /\ d.style = e.style
  BY <1>2, <1>3 DEF ChartsShaped
<1>5. QED BY <1>2, <1>4

LEMMA FreshNext == (charts = Fresh(committed, latest, today))' => ChartInv'
BY FreshInv, PTL

\* The listener that is called draws what it waited for; the others go on waiting.
LEMMA DeliverCharts ==
  ASSUME QueueInv, ChartInv, Deliver
  PROVE  ChartInv'
<1> DEFINE Told(part) == <<Listeners[hears], part>> \in Head(queue).sections
           playtime == committed.graphs["dailyPlaytime"]
           history == committed.graphs["scenarioHistory"]
<1>1. /\ hears \in 1 .. 3 /\ ChartsShaped(charts)
      /\ committed' = committed /\ latest' = latest /\ today' = today
  BY DEF Deliver, QueueInv, ChartInv
<1>2. \A i \in 1 .. 3 : \A parts : Awaits(i, parts) => Awaits(i, parts)' \/ (i = hears /\ \E part \in parts : Told(part))
  BY DeliverAwaits
<1>3. CASE hears = 1
  <2> DEFINE lines == IF Told("runSeries") THEN committed.lines ELSE charts.lines.lines
             labelled == IF Told("runSeries") \/ Told("label") THEN Labelled(committed) ELSE charts.lines.labelled
  <2>1. charts' = WithLines(charts, lines, labelled)
    BY <1>3, ListenerNames DEF Deliver, WithLines
  <2>2. /\ Awaits(1, {"runSeries"}) => Awaits(1, {"runSeries"})' \/ Told("runSeries")
        /\ Awaits(1, {"runSeries", "label"}) => Awaits(1, {"runSeries", "label"})' \/ Told("runSeries") \/ Told("label")
        /\ \A parts : Awaits(2, parts) => Awaits(2, parts)'
        /\ \A parts : Awaits(3, parts) => Awaits(3, parts)'
    <3> HIDE DEF Told
    <3>1. QED BY <1>2, <1>3
  <2> HIDE DEF Told
  <2>3. lines = committed.lines \/ Awaits(1, {"runSeries"})'
    BY <2>2 DEF ChartInv
  <2>4. labelled = Labelled(committed) \/ Awaits(1, {"runSeries", "label"})'
    BY <2>2 DEF ChartInv
  <2> HIDE DEF lines, labelled
  <2>5. /\ ChartsShaped(charts') /\ charts'.lines.lines = lines /\ charts'.lines.labelled = labelled
        /\ charts'.cache = charts.cache /\ charts'.dailyPlaytime = charts.dailyPlaytime
        /\ charts'.scenarioHistory = charts.scenarioHistory /\ charts'.style = charts.style
    BY <1>1, <2>1, RedrawLines
  <2>6. PlaytimeCurrent(committed) => PlaytimeCurrent(committed)'
    BY <1>1, <2>5 DEF PlaytimeCurrent
  <2>7. QED BY <1>1, <2>2, <2>3, <2>4, <2>5, <2>6 DEF ChartInv
<1>4. CASE hears = 2
  <2> DEFINE Redraw == Told("range") \/ Told("window")
             redrawn == Redrawn(charts.cache, latest, today)
             style == IF Told("style") THEN Style(playtime) ELSE charts.style["dailyPlaytime"]
             cache == IF Redraw THEN redrawn.cache ELSE charts.cache
             drawn == IF Redraw THEN redrawn.drawn ELSE charts.dailyPlaytime
  <2>1. charts' = WithPlaytime(charts, style, cache, drawn)
    BY <1>4, ListenerNames DEF Deliver, WithPlaytime
  <2>2. /\ Awaits(2, {"style"}) => Awaits(2, {"style"})' \/ Told("style")
        /\ Awaits(2, {"range", "window"}) => Awaits(2, {"range", "window"})' \/ Redraw
        /\ \A parts : Awaits(1, parts) => Awaits(1, parts)'
        /\ \A parts : Awaits(3, parts) => Awaits(3, parts)'
    <3> HIDE DEF Told
    <3>1. QED BY <1>2, <1>4
  <2> HIDE DEF Told
  <2>3. style = Style(playtime) \/ Awaits(2, {"style"})'
    BY <2>2 DEF ChartInv
  <2>4. /\ redrawn.cache = [window |-> playtime.value["averagingWindow"], runs |-> latest, anchor |-> latest]
        /\ redrawn.drawn = PlaytimeDrawn(playtime, redrawn.cache, today)
    <3>1. charts.cache.runs = latest /\ charts.cache.anchor = latest
          /\ charts.cache = [window |-> charts.cache.window, runs |-> latest, anchor |-> latest]
      BY DEF ChartInv
    <3>2. Cached(charts.cache, playtime, latest)
            = [window |-> playtime.value["averagingWindow"], runs |-> latest, anchor |-> latest]
      BY <3>1 DEF Cached
    <3>3. QED BY <3>2 DEF Redrawn
  <2>5. ~Redraw => PlaytimeCurrent(committed) \/ Awaits(2, {"range", "window"})'
    BY <2>2 DEF ChartInv
  <2>6. /\ Redraw => cache = redrawn.cache /\ drawn = redrawn.drawn
        /\ ~Redraw => cache = charts.cache /\ drawn = charts.dailyPlaytime
    OBVIOUS
  <2> HIDE DEF style, cache, drawn, redrawn, Redraw
  <2>7. /\ ChartsShaped(charts') /\ charts'.dailyPlaytime = drawn /\ charts'.cache = cache
        /\ charts'.lines = charts.lines /\ charts'.scenarioHistory = charts.scenarioHistory
        /\ charts'.style["dailyPlaytime"] = style
        /\ charts'.style["scenarioHistory"] = charts.style["scenarioHistory"]
    BY <1>1, <2>1, RedrawPlaytime
  <2>8. PlaytimeCurrent(committed)' \/ Awaits(2, {"range", "window"})'
    <3>1. CASE Redraw
      BY <1>1, <2>4, <2>6, <2>7, <3>1 DEF PlaytimeCurrent
    <3>2. CASE ~Redraw
      BY <1>1, <2>5, <2>6, <2>7, <3>2 DEF PlaytimeCurrent
    <3>3. QED BY <3>1, <3>2
  <2>9. charts'.cache = [window |-> charts'.cache.window, runs |-> latest', anchor |-> latest']
    BY <1>1, <2>4, <2>6, <2>7 DEF ChartInv
  <2>10. QED BY <1>1, <2>2, <2>3, <2>7, <2>8, <2>9 DEF ChartInv
<1>5. CASE hears = 3
  <2> DEFINE style == IF Told("style") THEN Style(history) ELSE charts.style["scenarioHistory"]
             drawn == IF Told("range") THEN HistoryDrawn(history, latest, today) ELSE charts.scenarioHistory
  <2>1. charts' = WithHistory(charts, style, drawn)
    BY <1>5, ListenerNames DEF Deliver, WithHistory
  <2>2. /\ Awaits(3, {"style"}) => Awaits(3, {"style"})' \/ Told("style")
        /\ Awaits(3, {"range"}) => Awaits(3, {"range"})' \/ Told("range")
        /\ \A parts : Awaits(1, parts) => Awaits(1, parts)'
        /\ \A parts : Awaits(2, parts) => Awaits(2, parts)'
    <3> HIDE DEF Told
    <3>1. QED BY <1>2, <1>5
  <2> HIDE DEF Told
  <2>3. style = Style(history) \/ Awaits(3, {"style"})'
    BY <2>2 DEF ChartInv
  <2>4. drawn = HistoryDrawn(history, latest, today) \/ Awaits(3, {"range"})'
    BY <2>2 DEF ChartInv
  <2> HIDE DEF style, drawn
  <2>5. /\ ChartsShaped(charts') /\ charts'.scenarioHistory = drawn
        /\ charts'.lines = charts.lines /\ charts'.cache = charts.cache
        /\ charts'.dailyPlaytime = charts.dailyPlaytime
        /\ charts'.style["scenarioHistory"] = style
        /\ charts'.style["dailyPlaytime"] = charts.style["dailyPlaytime"]
    BY <1>1, <2>1, RedrawHistory
  <2>6. PlaytimeCurrent(committed) => PlaytimeCurrent(committed)'
    BY <1>1, <2>5 DEF PlaytimeCurrent
  <2>7. QED BY <1>1, <2>2, <2>3, <2>4, <2>5, <2>6 DEF ChartInv
<1>6. QED BY <1>1, <1>3, <1>4, <1>5

-----------------------------------------------------------------------------
(* Charts over the steps of the program.                                   *)

SettingsInv == QueueInv /\ ShapeInv /\ ChartInv

LEMMA ChartInit == Init => ChartInv
BY FreshInv DEF Init

LEMMA ChartStep ==
  ASSUME SettingsInv, [Next]_vars
  PROVE  ChartInv'
<1> USE DEF SettingsInv
<1>1. ASSUME UNCHANGED <<serviceVars, charts, latest, today>> PROVE ChartInv'
  BY <1>1 DEF ChartInv, PlaytimeCurrent, Awaits, serviceVars
<1>2. charts' = Fresh(committed', latest', today') => ChartInv'
  BY FreshNext
<1>3. Shaped(committed)
  BY DEF ShapeInv
<1>4. CASE Deliver
  BY <1>4, DeliverCharts
<1>5. ASSUME NEW last \in 0 .. MaxDays, ProfileChanged(last) PROVE ChartInv'
  BY <1>2, <1>5, ProfileCharts
<1>6. CASE DayChanged
  BY <1>2, <1>6, DayCharts
<1>7. CASE QuickChange
  <2>1. ASSUME NEW g \in Graphs, NEW p, HasParts(g, p), QuickPatch(g, p) PROVE ChartInv'
    <3>1. Shaped([committed EXCEPT !.graphs[g] = p])
      BY <1>3, <2>1, PatchShaped
    <3>2. Replace([committed EXCEPT !.graphs[g] = p]) /\ UNCHANGED <<charts, latest, today>>
      BY <2>1 DEF QuickPatch
    <3>3. QED BY <1>3, <3>1, <3>2, ReplaceCharts
  <2>2. QED BY <1>3, <1>7, <2>1, QuickIsPatch
<1>8. CASE VisitStep
  <2>1. CASE SaveAccepted
    <3>1. Shaped(visit.working)
      <4>1. VisitShaped(visit)
        BY <2>1 DEF SaveAccepted, Visiting, ShapeInv
      <4>2. QED BY <4>1 DEF VisitShaped
    <3>2. Replace(visit.working) /\ UNCHANGED <<charts, latest, today>>
      BY <2>1 DEF SaveAccepted
    <3>3. QED BY <1>3, <3>1, <3>2, ReplaceCharts
  <2>2. CASE visit # Closed /\ (GraphEdit \/ LineEdit)
    BY <1>1, <2>2, EditsAreQuiet
  <2>3. CASE BeginVisit \/ RevertChanges \/ EndVisit \/ SaveRefused \/ SaveReturns
    <3>1. UNCHANGED <<serviceVars, charts, latest, today>>
      BY <2>3, Zenon DEF BeginVisit, RevertChanges, EndVisit, SaveRefused, SaveReturns
    <3>2. QED BY <1>1, <3>1
  <2>4. QED BY <1>8, <2>1, <2>2, <2>3, Zenon DEF VisitStep
<1>9. ASSUME NEW doc \in {document} \cup Foreign, Restart(doc) PROVE ChartInv'
  <2>1. charts' = Fresh(committed', latest', today')
    BY <1>9 DEF Restart
  <2>2. QED BY <1>2, <2>1
<1>10. CASE UNCHANGED vars
  BY <1>1, <1>10 DEF vars, serviceVars
<1>11. QED BY <1>4, <1>5, <1>6, <1>7, <1>8, <1>9, <1>10, Zenon DEF Next

\* The invariant all of this rests on.
THEOREM SettingsStaySound == Spec => []SettingsInv
<1>1. Init => SettingsInv
  BY QueueInit, ShapeInit, ChartInit DEF SettingsInv
<1>2. SettingsInv /\ [Next]_vars => SettingsInv'
  BY QueueStep, ShapeStep, ChartStep DEF SettingsInv
<1>3. QED BY <1>1, <1>2, PTL DEF Spec

\* When nothing is being published every graph draws the committed preferences, the
\* present profile and day: neither the playtime graph's cache (PlaytimeGraphUseCase::
\* snapshot), nor a quick change in the middle of a publication, nor a skipped day leaves
\* one behind.
THEOREM ChartsStayCurrent == Spec => []ChartsCurrent
<1>1. SettingsInv => ChartsCurrent
  BY RestIsFresh DEF SettingsInv, ChartsCurrent
<1>2. QED BY <1>1, SettingsStaySound, PTL

-----------------------------------------------------------------------------
(* The settings window and the document. *)

Sound(c) ==
  /\ Shaped(c)
  /\ HasLines(c.lines) /\ WellFormed(c.lines)
  /\ c.label \in Labels /\ c.label = Reconciled(c.lines, c.label)

-----------------------------------------------------------------------------
(* Lines and labels.                                                       *)

LEMMA LinesOf ==
  ASSUME NEW lines, HasLines(lines)
  PROVE  /\ lines = [axisOf |-> lines.axisOf, axes |-> lines.axes,
                     nextLine |-> lines.nextLine, nextAxis |-> lines.nextAxis]
         /\ lines.axisOf \in [DOMAIN lines.axisOf -> Nat] /\ DOMAIN lines.axisOf \subseteq 1 .. MaxIds
         /\ lines.axes \subseteq Nat
         /\ lines.nextLine \in Nat \ {0} /\ lines.nextAxis \in Nat \ {0}
BY DEF HasLines, LineSets

LEMMA LinesMade ==
  ASSUME NEW ids \in SUBSET (1 .. MaxIds), NEW axisOf \in [ids -> Nat], NEW axes \in SUBSET Nat,
         NEW nextLine \in Nat \ {0}, NEW nextAxis \in Nat \ {0}
  PROVE  HasLines([axisOf |-> axisOf, axes |-> axes, nextLine |-> nextLine, nextAxis |-> nextAxis])
BY DEF HasLines, LineSets

LEMMA DefaultLinesSound == HasLines(DefaultLines) /\ WellFormed(DefaultLines)
<1> DEFINE axisOf == [l \in {1, 2} |-> IF l = 1 THEN 1 ELSE 0]
<1>1. DefaultLines = [axisOf |-> axisOf, axes |-> {1}, nextLine |-> 3, nextAxis |-> 2]
  BY DEF DefaultLines
<1>2. axisOf \in [{1, 2} -> Nat] /\ {1, 2} \in SUBSET (1 .. MaxIds) /\ {1} \in SUBSET Nat
  BY BoundsAssumption
<1>3. axisOf[1] = 1 /\ axisOf[2] = 0 /\ DOMAIN axisOf = {1, 2}
  OBVIOUS
<1> HIDE DEF axisOf
<1>4. HasLines(DefaultLines)
  BY <1>1, <1>2, LinesMade
<1>5. WellFormed(DefaultLines)
  BY <1>1, <1>3 DEF WellFormed
<1>6. QED BY <1>4, <1>5

\* The edits of the lines page keep ids below the next one, and lines on axes that are there.
LEMMA CreateLineSound ==
  ASSUME NEW lines, HasLines(lines), WellFormed(lines), lines.nextLine < MaxIds
  PROVE  HasLines(CreateLine(lines)) /\ WellFormed(CreateLine(lines))
<1> DEFINE ids == DOMAIN lines.axisOf \cup {lines.nextLine}
           axisOf == [l \in ids |-> IF l \in DOMAIN lines.axisOf THEN lines.axisOf[l] ELSE 0]
           next == lines.nextLine + 1
<1>1. CreateLine(lines) = [axisOf |-> axisOf, axes |-> lines.axes,
                           nextLine |-> next, nextAxis |-> lines.nextAxis]
  <2>1. CreateLine(lines) = [lines EXCEPT !.nextLine = next, !.axisOf = axisOf]
    BY DEF CreateLine
  <2> HIDE DEF next, axisOf
  <2>2. QED BY <2>1, LinesOf
<1>2. axisOf \in [ids -> Nat] /\ ids \in SUBSET (1 .. MaxIds) /\ next \in Nat \ {0}
  <2>1. lines.nextLine \in Nat \ {0} /\ MaxIds \in Nat
    BY LinesOf, BoundsAssumption
  <2>2. ids \in SUBSET (1 .. MaxIds) /\ next \in Nat \ {0}
    BY <2>1, LinesOf
  <2>3. axisOf \in [ids -> Nat]
    BY LinesOf
  <2>4. QED BY <2>2, <2>3
<1>3. \A l \in DOMAIN axisOf : l < next /\ axisOf[l] \in lines.axes \cup {0}
  <2> SUFFICES ASSUME NEW l \in ids PROVE l < next /\ axisOf[l] \in lines.axes \cup {0}
    OBVIOUS
  <2>1. lines.nextLine \in Nat
    BY LinesOf
  <2>2. CASE l = lines.nextLine /\ l \notin DOMAIN lines.axisOf
    BY <2>1, <2>2
  <2>3. CASE l \in DOMAIN lines.axisOf
    <3>1. l \in Nat /\ l < lines.nextLine /\ lines.axisOf[l] \in lines.axes \cup {0}
      BY <2>3, LinesOf, BoundsAssumption DEF WellFormed
    <3>2. QED BY <2>1, <2>3, <3>1
  <2>4. QED BY <2>2, <2>3
<1> HIDE DEF ids, axisOf, next
<1>4. HasLines(CreateLine(lines))
  BY <1>1, <1>2, LinesOf, LinesMade
<1>5. WellFormed(CreateLine(lines))
  BY <1>1, <1>3 DEF WellFormed
<1>6. QED BY <1>4, <1>5

LEMMA RemoveLineSound ==
  ASSUME NEW lines, HasLines(lines), WellFormed(lines), NEW line
  PROVE  HasLines(RemoveLine(lines, line)) /\ WellFormed(RemoveLine(lines, line))
<1> DEFINE ids == DOMAIN lines.axisOf \ {line}
           axisOf == [l \in ids |-> lines.axisOf[l]]
<1>1. RemoveLine(lines, line) = [axisOf |-> axisOf, axes |-> lines.axes,
                                 nextLine |-> lines.nextLine, nextAxis |-> lines.nextAxis]
  BY LinesOf DEF RemoveLine
<1>2. axisOf \in [ids -> Nat] /\ ids \in SUBSET (1 .. MaxIds)
  BY LinesOf
<1>3. \A l \in DOMAIN axisOf : l < lines.nextLine /\ axisOf[l] \in lines.axes \cup {0}
  BY LinesOf DEF WellFormed
<1> HIDE DEF ids, axisOf
<1>4. HasLines(RemoveLine(lines, line))
  BY <1>1, <1>2, LinesOf, LinesMade
<1>5. WellFormed(RemoveLine(lines, line))
  BY <1>1, <1>3 DEF WellFormed
<1>6. QED BY <1>4, <1>5

LEMMA CreateAxisSound ==
  ASSUME NEW lines, HasLines(lines), WellFormed(lines)
  PROVE  HasLines(CreateAxis(lines)) /\ WellFormed(CreateAxis(lines))
<1> DEFINE axes == lines.axes \cup {lines.nextAxis}
           next == lines.nextAxis + 1
<1>1. CreateAxis(lines) = [axisOf |-> lines.axisOf, axes |-> axes,
                           nextLine |-> lines.nextLine, nextAxis |-> next]
  <2>1. CreateAxis(lines) = [lines EXCEPT !.nextAxis = next, !.axes = axes]
    BY DEF CreateAxis
  <2> HIDE DEF next, axes
  <2>2. QED BY <2>1, LinesOf
<1>2. axes \in SUBSET Nat /\ next \in Nat \ {0}
  <2>1. lines.nextAxis \in Nat \ {0} /\ lines.axes \subseteq Nat
    BY LinesOf
  <2>2. QED BY <2>1
<1>3. \A a \in axes : 0 < a /\ a < next
  <2>1. lines.nextAxis \in Nat \ {0}
    BY LinesOf
  <2>2. \A a \in lines.axes : a \in Nat /\ 0 < a /\ a < lines.nextAxis
    BY LinesOf DEF WellFormed
  <2>3. QED BY <2>1, <2>2
<1>4. \A l \in DOMAIN lines.axisOf : l < lines.nextLine /\ lines.axisOf[l] \in axes \cup {0}
  BY DEF WellFormed
<1> HIDE DEF axes, next
<1>5. HasLines(CreateAxis(lines))
  BY <1>1, <1>2, LinesOf, LinesMade
<1>6. WellFormed(CreateAxis(lines))
  BY <1>1, <1>3, <1>4 DEF WellFormed
<1>7. QED BY <1>5, <1>6

LEMMA MoveLineSound ==
  ASSUME NEW lines, HasLines(lines), WellFormed(lines), NEW line \in DOMAIN lines.axisOf,
         NEW axis \in lines.axes \cup {0}
  PROVE  HasLines(MoveLine(lines, line, axis)) /\ WellFormed(MoveLine(lines, line, axis))
<1> DEFINE axisOf == [lines.axisOf EXCEPT ![line] = axis]
<1>1. MoveLine(lines, line, axis) = [axisOf |-> axisOf, axes |-> lines.axes,
                                     nextLine |-> lines.nextLine, nextAxis |-> lines.nextAxis]
  BY LinesOf DEF MoveLine
<1>2. axisOf \in [DOMAIN lines.axisOf -> Nat]
  BY LinesOf
<1>3. \A l \in DOMAIN axisOf : l < lines.nextLine /\ axisOf[l] \in lines.axes \cup {0}
  BY LinesOf DEF WellFormed
<1> HIDE DEF axisOf
<1>4. HasLines(MoveLine(lines, line, axis))
  BY <1>1, <1>2, LinesOf, LinesMade
<1>5. WellFormed(MoveLine(lines, line, axis))
  BY <1>1, <1>3 DEF WellFormed
<1>6. QED BY <1>4, <1>5

\* A label that was fitted to the lines fits them.
LEMMA ReconciledFits ==
  ASSUME NEW lines, HasLines(lines), NEW label \in Labels
  PROVE  LET fitted == Reconciled(lines, label)
         IN fitted \in Labels /\ Reconciled(lines, fitted) = fitted
<1>1. /\ lines.axisOf \in [DOMAIN lines.axisOf -> Nat]
      /\ \A l \in DOMAIN lines.axisOf : l \in Nat
  BY LinesOf, BoundsAssumption
<1>2. label = <<label[1], label[2]>> /\ label[1] \in {"none", "axis", "line"} /\ label[2] \in Nat
  BY DEF Labels
<1>3. \A kind \in {"none", "axis", "line"}, id \in Nat :
        /\ <<kind, id>> \in Labels
        /\ <<kind, id>>[1] = kind /\ <<kind, id>>[2] = id
  BY DEF Labels
<1>4. CASE label[1] = "axis" /\ label[2] \in lines.axes
  BY <1>4 DEF Reconciled
<1>5. CASE label[1] = "line" /\ label[2] \in DOMAIN lines.axisOf
  <2> DEFINE axis == lines.axisOf[label[2]]
  <2>1. Reconciled(lines, label) = LabelFor(lines, label[2])
    BY <1>5 DEF Reconciled
  <2>2. CASE axis \in lines.axes
    <3>1. LabelFor(lines, label[2]) = <<"axis", axis>> /\ axis \in Nat
      BY <1>1, <1>5, <2>2 DEF LabelFor
    <3>2. Reconciled(lines, <<"axis", axis>>) = <<"axis", axis>>
      BY <2>2 DEF Reconciled
    <3>3. QED BY <1>3, <2>1, <3>1, <3>2
  <2>3. CASE axis \notin lines.axes
    <3>1. LabelFor(lines, label[2]) = <<"line", label[2]>>
      BY <2>3 DEF LabelFor
    <3>2. Reconciled(lines, <<"line", label[2]>>) = <<"line", label[2]>>
      BY <1>5, <3>1 DEF Reconciled
    <3>3. QED BY <1>2, <1>3, <2>1, <3>1, <3>2
  <2>4. QED BY <2>2, <2>3
<1>6. CASE /\ ~(label[1] = "axis" /\ label[2] \in lines.axes)
           /\ ~(label[1] = "line" /\ label[2] \in DOMAIN lines.axisOf)
  <2>1. Reconciled(lines, label) = NoLabel
    BY <1>6 DEF Reconciled
  <2>2. NoLabel \in Labels /\ Reconciled(lines, NoLabel) = NoLabel
    BY DEF NoLabel, Labels, Reconciled
  <2>3. QED BY <2>1, <2>2
<1>7. QED BY <1>4, <1>5, <1>6

-----------------------------------------------------------------------------
(* What a save would refuse.                                               *)

LEMMA DefaultValid ==
  ASSUME NEW g \in Graphs
  PROVE  Invalid(g, Default(g)) = {}
<1>1. /\ \A f \in DOMAIN Default(g).value : Default(g).value[f] \in {1, 2}
      /\ Default(g).range # "customDates" /\ Default(g).axis # "fixed"
  BY DEF Default
<1>2. DOMAIN Default(g).value \cap Bounds = {}
  BY DEF Default, Bounds
<1>3. QED BY <1>1, <1>2 DEF Invalid

\* What is invalid is a field that is shown.
LEMMA InvalidShown ==
  ASSUME NEW g \in Graphs, NEW p, HasParts(g, p)
  PROVE  Invalid(g, p) \subseteq DOMAIN p.value \cap Fields
<1>1. DOMAIN p.value = Shown(g, p)
  BY PartsOf
<1>2. Shown(g, p) \subseteq Fields
  BY DEF Shown, Always, FieldsOf, Fields, RangeFields
<1>3. p.range = "customDates" => "endDate" \in Shown(g, p)
  BY DEF Shown, FieldsOf, Dates
<1>4. p.axis = "fixed" => "fixedMax" \in Shown(g, p)
  BY DEF Shown, FieldsOf, Bounds
<1>5. QED BY <1>1, <1>2, <1>3, <1>4 DEF Invalid

LEMMA IssuesAre ==
  ASSUME NEW c, Shaped(c), WellFormed(c.lines)
  PROVE  /\ Issues(c) = {} <=> \A g \in Graphs : Invalid(g, c.graphs[g]) = {}
         /\ \A key \in Issues(c) : key \in Graphs \X Fields /\ key[2] \in DOMAIN c.graphs[key[1]].value
<1>1. Issues(c) = {key \in Graphs \X Fields : key[2] \in Invalid(key[1], c.graphs[key[1]])}
  BY DEF Issues
<1>2. \A g \in Graphs : Invalid(g, c.graphs[g]) \subseteq DOMAIN c.graphs[g].value \cap Fields
  BY InvalidShown DEF Shaped
<1>3. \A key \in Graphs \X Fields : key[1] \in Graphs /\ key[2] \in Fields
  OBVIOUS
<1>4. \A g \in Graphs, f \in Fields : <<g, f>> \in Graphs \X Fields /\ <<g, f>>[1] = g /\ <<g, f>>[2] = f
  OBVIOUS
<1>5. ASSUME Issues(c) = {}, NEW g \in Graphs PROVE Invalid(g, c.graphs[g]) = {}
  <2> SUFFICES ASSUME NEW f \in Invalid(g, c.graphs[g]) PROVE FALSE
    OBVIOUS
  <2>1. f \in Fields
    BY <1>2
  <2>2. <<g, f>> \in Issues(c)
    BY <1>1, <1>4, <2>1
  <2>3. QED BY <1>5, <2>2
<1>6. QED BY <1>1, <1>2, <1>3, <1>5

-----------------------------------------------------------------------------
(* Loading and storing.                                                    *)

DocTyped(doc) ==
  /\ DocShaped(doc)
  /\ doc.lines = Bad \/ HasLines(doc.lines)
  /\ doc.label \in Labels \cup {Bad, Missing}

Loadable(doc) == doc \in {NoDocument, Unreadable} \/ DocTyped(doc)

LEMMA ForeignLoadable ==
  ASSUME NEW doc \in {NoDocument} \cup Foreign
  PROVE  Loadable(doc)
BY DocumentAssumption DEF Loadable, DocTyped, DocShaped

\* What is loaded is sound, and nothing of it would be refused.
LEMMA LoadSound ==
  ASSUME NEW doc, Loadable(doc)
  PROVE  Sound(Load(doc)) /\ Issues(Load(doc)) = {}
<1> DEFINE c == Load(doc)
           whole == doc \notin {NoDocument, Unreadable}
           label == IF whole /\ doc.label \notin {Bad, Missing} THEN doc.label ELSE LegacyLabel
<1>1. Shaped(c)
  BY LoadShaped DEF Loadable, DocTyped
<1>2. c.lines = (IF whole /\ ~LinesRejected(doc) THEN doc.lines ELSE DefaultLines)
  BY DEF Load
<1>3. HasLines(c.lines) /\ WellFormed(c.lines)
  BY <1>2, DefaultLinesSound DEF LinesRejected, Loadable, DocTyped
<1>4. c.label = Reconciled(c.lines, label)
  BY DEF Load
<1>5. label \in Labels
  BY DocumentAssumption DEF Loadable, DocTyped
<1>6. c.label \in Labels /\ c.label = Reconciled(c.lines, c.label)
  <2> HIDE DEF label, c
  <2>1. QED BY <1>3, <1>4, <1>5, ReconciledFits
<1>7. \A g \in Graphs : c.graphs[g] = IF ~whole \/ GraphRejected(doc, g) \/ doc.graphs[g] = Missing
                                       THEN Default(g) ELSE doc.graphs[g]
  BY DEF Load
<1>8. \A g \in Graphs : Invalid(g, c.graphs[g]) = {}
  BY <1>7, DefaultValid DEF GraphRejected
<1> HIDE DEF c
<1>9. Issues(c) = {}
  BY <1>1, <1>3, <1>8, IssuesAre
<1>10. Sound(c)
  BY <1>1, <1>3, <1>6 DEF Sound
<1>11. QED BY <1>9, <1>10 DEF c

\* The marks of a document are no parts of a configuration.
LEMMA NoMark ==
  ASSUME NEW c, Sound(c)
  PROVE  /\ \A g \in Graphs : c.graphs[g] \notin {Bad, Missing}
         /\ c.lines # Bad /\ c.label \notin {Bad, Missing}
         /\ Encoded(c) \notin {NoDocument, Unreadable}
<1> DEFINE shown(g) == Shown(g, c.graphs[g])
           ids == DOMAIN c.lines.axisOf
<1>1. \A g \in Graphs : c.graphs[g] \in Preferences(shown(g))
  BY DEF Sound, Shaped, HasParts
<1>2. \A g \in Graphs : shown(g) \in FieldSets
  <2>1. \A g \in Graphs : c.graphs[g].range \in Ranges /\ c.graphs[g].axis \in AxisModes
    BY PartsOf DEF Sound, Shaped
  <2>2. QED BY <2>1 DEF FieldSets, Shown
<1>3. c.lines \in LineSets(ids) /\ ids \in SUBSET (1 .. MaxIds)
  BY DEF Sound, HasLines
<1>4. c.label \in Labels
  BY DEF Sound
<1>5. c.graphs \in [Graphs -> Preferences(shown("dailyPlaytime")) \cup Preferences(shown("scenarioHistory"))]
  <2>1. c.graphs = [g \in Graphs |-> c.graphs[g]]
    BY DEF Sound, Shaped
  <2>2. \A g \in Graphs : c.graphs[g] \in Preferences(shown("dailyPlaytime")) \cup Preferences(shown("scenarioHistory"))
    <3> HIDE DEF shown
    <3>1. QED BY <1>1 DEF Graphs
  <2>3. QED BY <2>1, <2>2
<1>6. "dailyPlaytime" \in Graphs /\ "scenarioHistory" \in Graphs
  BY DEF Graphs
<1> HIDE DEF shown, ids
<1>7. Encoded(c) \in [graphs : [Graphs -> Preferences(shown("dailyPlaytime")) \cup Preferences(shown("scenarioHistory"))],
                      lines : LineSets(ids), label : Labels]
  BY <1>3, <1>4, <1>5 DEF Encoded
<1>8. QED BY <1>1, <1>2, <1>3, <1>4, <1>6, <1>7, MarksAssumption

LEMMA LoadEncoded ==
  ASSUME NEW c, Sound(c), Issues(c) = {}
  PROVE  Load(Encoded(c)) = c /\ DocTyped(Encoded(c))
<1> DEFINE doc == Encoded(c)
<1>1. doc.graphs = c.graphs /\ doc.lines = c.lines /\ doc.label = c.label
  BY DEF Encoded
<1>2. doc \notin {NoDocument, Unreadable} /\ c.lines # Bad /\ c.label \notin {Bad, Missing}
  BY NoMark
<1>3. \A g \in Graphs : c.graphs[g] \notin {Bad, Missing} /\ Invalid(g, c.graphs[g]) = {}
  BY NoMark, IssuesAre DEF Sound
<1>4. DocTyped(doc)
  BY <1>1, EncodedShaped DEF DocTyped, Sound
<1>5. \A g \in Graphs : ~GraphRejected(doc, g) /\ doc.graphs[g] # Missing
  BY <1>1, <1>3 DEF GraphRejected
<1>6. ~LinesRejected(doc)
  BY <1>1, <1>2 DEF LinesRejected, Sound
<1> HIDE DEF doc
<1>7. Load(doc) = [graphs |-> [g \in Graphs |-> doc.graphs[g]], lines |-> doc.lines,
                   label |-> Reconciled(doc.lines, doc.label)]
  BY <1>1, <1>2, <1>5, <1>6 DEF Load
<1>8. c = [graphs |-> [g \in Graphs |-> c.graphs[g]], lines |-> c.lines, label |-> Reconciled(c.lines, c.label)]
  BY DEF Sound, Shaped
<1>9. QED BY <1>1, <1>4, <1>7, <1>8 DEF doc

LEMMA EstablishedLoads ==
  ASSUME NEW doc, Loadable(doc)
  PROVE  Load(Established(doc)) = Load(doc) /\ DocTyped(Established(doc))
<1>1. Load(Encoded(Load(doc))) = Load(doc) /\ DocTyped(Encoded(Load(doc)))
  BY LoadSound, LoadEncoded
<1>2. \/ Established(doc) = Encoded(Load(doc))
      \/ Established(doc) = doc /\ doc \notin {NoDocument, Unreadable}
  BY DEF Established
<1>3. QED BY <1>1, <1>2 DEF Loadable

-----------------------------------------------------------------------------
(* Comparing and committing.                                               *)

LEMMA OnlyTells ==
  ASSUME NEW S, NEW p, NEW q, Only(S, p) = Only(S, q)
  PROVE  \A f \in S : /\ f \in DOMAIN p.value <=> f \in DOMAIN q.value
                      /\ f \in DOMAIN p.value => p.value[f] = q.value[f]
<1>1. \A r : DOMAIN Only(S, r) = S \cap DOMAIN r.value
  BY DEF Only
<1>2. \A r : \A f \in S \cap DOMAIN r.value : Only(S, r)[f] = r.value[f]
  BY DEF Only
<1>3. QED BY <1>1, <1>2

\* A comparison of two sections looks at every part of them.
LEMMA NoDiffSection ==
  ASSUME NEW before, Shaped(before), NEW after, Shaped(after), Diff(before, after) = {}, NEW g \in Graphs
  PROVE  before.graphs[g] = after.graphs[g]
<1> DEFINE was == before.graphs[g]
           now == after.graphs[g]
<1>1. /\ <<g, "range">> \notin Diff(before, after)
      /\ <<g, "window">> \notin Diff(before, after)
      /\ <<g, "style">> \notin Diff(before, after)
  OBVIOUS
<1>2. <<was.range, was.anchor, Only(RangeFields, was)>> = <<now.range, now.anchor, Only(RangeFields, now)>>
  BY <1>1 DEF Diff
<1>3. Only({"averagingWindow"}, was) = Only({"averagingWindow"}, now)
  BY <1>1 DEF Diff
<1>4. Style(was) = Style(now)
  BY <1>1 DEF Diff
<1>5. HasParts(g, was) /\ HasParts(g, now)
  BY DEF Shaped
<1> HIDE DEF was, now
<1>6. was.axis = now.axis /\ Only(Bounds \cup {"width"}, was) = Only(Bounds \cup {"width"}, now)
  BY <1>4 DEF Style
<1>7. was.range = now.range /\ was.anchor = now.anchor /\ Only(RangeFields, was) = Only(RangeFields, now)
  BY <1>2
<1>8. /\ was.value \in [Shown(g, was) -> Nat] /\ now.value \in [Shown(g, now) -> Nat]
      /\ Shown(g, was) = Shown(g, now) /\ Shown(g, was) \subseteq Fields
  <2>1. Shown(g, was) = Shown(g, now)
    BY <1>6, <1>7 DEF Shown
  <2>2. Shown(g, was) \subseteq Fields
    BY DEF Shown, Always, FieldsOf, Fields, RangeFields
  <2>3. QED BY <1>5, <2>1, <2>2, PartsOf
<1>9. ASSUME NEW f \in Shown(g, was) PROVE was.value[f] = now.value[f]
  <2>1. f \in RangeFields \/ f \in {"averagingWindow"} \/ f \in Bounds \cup {"width"}
    BY <1>8 DEF Fields, Always
  <2>2. f \in DOMAIN was.value
    BY <1>8
  <2>3. QED BY <1>3, <1>6, <1>7, <2>1, <2>2, OnlyTells
<1>10. was.value = now.value
  BY <1>8, <1>9
<1>11. was = now
  BY <1>5, <1>6, <1>7, <1>10, PartsOf
<1>12. QED BY <1>11 DEF was, now

LEMMA NoDiff ==
  ASSUME NEW before, Shaped(before), NEW after, Shaped(after), Diff(before, after) = {}
  PROVE  before = after
<1>1. \A g \in Graphs : before.graphs[g] = after.graphs[g]
  BY NoDiffSection
<1>2. before.lines = after.lines /\ before.label = after.label
  <2>1. <<"lines", "runSeries">> \notin Diff(before, after) /\ <<"lines", "label">> \notin Diff(before, after)
    OBVIOUS
  <2>2. QED BY <2>1 DEF Diff
<1>3. before.graphs = after.graphs
  BY <1>1 DEF Shaped
<1>4. QED BY <1>2, <1>3 DEF Shaped

\* What is committed is sound, would not be refused, and is what the document gives.
CommittedInv ==
  /\ Sound(committed) /\ Issues(committed) = {}
  /\ Load(document) = committed
  /\ DocTyped(document)

LEMMA CommittedInit == Init => CommittedInv
<1> SUFFICES ASSUME Init PROVE CommittedInv
  OBVIOUS
<1>1. PICK doc \in {NoDocument} \cup Foreign : document = Established(doc)
  BY DEF Init
<1>2. DocTyped(document)
  BY <1>1, ForeignLoadable, EstablishedLoads
<1>3. committed = Load(document)
  BY DEF Init
<1>4. QED BY <1>2, <1>3, LoadSound DEF CommittedInv, Loadable

LEMMA CommittedReplace ==
  ASSUME CommittedInv, NEW c, Sound(c), Issues(c) = {}, Replace(c)
  PROVE  CommittedInv' /\ committed' = c
<1>1. CASE Diff(committed, c) = {}
  <2>1. UNCHANGED <<committed, document>>
    BY <1>1 DEF Replace, serviceVars
  <2>2. committed = c
    BY <1>1, NoDiff DEF CommittedInv, Sound
  <2>3. QED BY <2>1, <2>2 DEF CommittedInv
<1>2. CASE Diff(committed, c) # {}
  <2>1. document' = Encoded(c) /\ committed' = c
    BY <1>2 DEF Replace, Commit
  <2>2. QED BY <2>1, LoadEncoded DEF CommittedInv
<1>3. QED BY <1>1, <1>2

LEMMA CommittedRestart ==
  ASSUME CommittedInv, NEW doc \in {document} \cup Foreign, Restart(doc)
  PROVE  CommittedInv'
<1>1. Loadable(doc)
  BY ForeignLoadable DEF CommittedInv, Loadable
<1>2. document' = Established(doc) /\ committed' = Load(doc)
  BY DEF Restart
<1>3. QED BY <1>1, <1>2, LoadSound, EstablishedLoads DEF CommittedInv

LEMMA CommittedQuick ==
  ASSUME CommittedInv, QuickChange
  PROVE  CommittedInv' /\ visit = Closed /\ visit' = visit
<1>1. ASSUME NEW g \in Graphs, NEW p, HasParts(g, p), QuickPatch(g, p)
      PROVE  CommittedInv' /\ visit = Closed /\ visit' = visit
  <2> DEFINE c == [committed EXCEPT !.graphs[g] = p]
  <2>1. Replace(c) /\ visit = Closed /\ visit' = visit /\ Invalid(g, p) = {}
    BY <1>1 DEF QuickPatch
  <2>2. Shaped(c)
    BY <1>1, PatchShaped DEF CommittedInv, Sound
  <2>3. c.lines = committed.lines /\ c.label = committed.label
    BY DEF CommittedInv, Sound, Shaped
  <2>4. \A h \in Graphs : c.graphs[h] = IF h = g THEN p ELSE committed.graphs[h]
    BY DEF CommittedInv, Sound, Shaped
  <2> HIDE DEF c
  <2>5. Sound(c)
    BY <2>2, <2>3 DEF CommittedInv, Sound
  <2>6. Issues(c) = {}
    <3>1. \A h \in Graphs : Invalid(h, committed.graphs[h]) = {}
      BY IssuesAre DEF CommittedInv, Sound
    <3>2. \A h \in Graphs : Invalid(h, c.graphs[h]) = {}
      BY <2>1, <2>4, <3>1
    <3>3. QED BY <2>5, <3>2, IssuesAre DEF Sound
  <2>7. QED BY <2>1, <2>5, <2>6, CommittedReplace
<1>2. Shaped(committed)
  BY DEF CommittedInv, Sound
<1>3. QED BY <1>1, <1>2, QuickIsPatch

-----------------------------------------------------------------------------
(* A visit of the settings window.                                         *)

\* Text that is no value is kept for fields that are shown.
RawShown(raw, c) ==
  \A key \in raw : key \in Graphs \X Fields /\ key[2] \in DOMAIN c.graphs[key[1]].value

\* Of a visit while c is committed: what it says of itself is true; its baseline is what is
\* committed, or it has just committed its working copy.
VisitSound(v, c) ==
  /\ VisitShaped(v)
  /\ Sound(v.working) /\ Sound(v.baseline)
  /\ RawShown(v.raw, v.working)
  /\ v.draft = v.raw \cup Issues(v.working)
  /\ v.pending <=> Pending(v)
  /\ v.refused # {} => v.draft # {}
  /\ \/ v.saving /\ v.working = c /\ v.raw = {}
     \/ ~v.saving /\ v.baseline = c

VisitInv == visit # Closed => VisitSound(visit, committed)

\* Each part of a visit on its own.
WithDraft(v, x) == [v EXCEPT !.draft = x]
WithPending(v, x) == [v EXCEPT !.pending = x]
WithSaving(v, x) == [v EXCEPT !.saving = x]
WithRefused(v, x) == [v EXCEPT !.refused = x]
WithRaw(v, x) == [v EXCEPT !.raw = x]
WithWorking(v, c) == [v EXCEPT !.working = c]
WithBaseline(v, c) == [v EXCEPT !.baseline = c]

LEMMA DraftSet ==
  ASSUME NEW v, VisitShaped(v), NEW x
  PROVE  LET r == WithDraft(v, x)
         IN /\ r.draft = x /\ r.pending = v.pending /\ r.saving = v.saving /\ r.refused = v.refused
            /\ r.raw = v.raw /\ r.working = v.working /\ r.baseline = v.baseline
            /\ VisitShaped(r)
BY DEF VisitShaped, WithDraft

LEMMA PendingSet ==
  ASSUME NEW v, VisitShaped(v), NEW x
  PROVE  LET r == WithPending(v, x)
         IN /\ r.draft = v.draft /\ r.pending = x /\ r.saving = v.saving /\ r.refused = v.refused
            /\ r.raw = v.raw /\ r.working = v.working /\ r.baseline = v.baseline
            /\ VisitShaped(r)
BY DEF VisitShaped, WithPending

LEMMA SavingSet ==
  ASSUME NEW v, VisitShaped(v), NEW x
  PROVE  LET r == WithSaving(v, x)
         IN /\ r.draft = v.draft /\ r.pending = v.pending /\ r.saving = x /\ r.refused = v.refused
            /\ r.raw = v.raw /\ r.working = v.working /\ r.baseline = v.baseline
            /\ VisitShaped(r)
BY DEF VisitShaped, WithSaving

LEMMA RefusedSet ==
  ASSUME NEW v, VisitShaped(v), NEW x
  PROVE  LET r == WithRefused(v, x)
         IN /\ r.draft = v.draft /\ r.pending = v.pending /\ r.saving = v.saving /\ r.refused = x
            /\ r.raw = v.raw /\ r.working = v.working /\ r.baseline = v.baseline
            /\ VisitShaped(r)
BY DEF VisitShaped, WithRefused

LEMMA RawSet ==
  ASSUME NEW v, VisitShaped(v), NEW x
  PROVE  LET r == WithRaw(v, x)
         IN /\ r.draft = v.draft /\ r.pending = v.pending /\ r.saving = v.saving /\ r.refused = v.refused
            /\ r.raw = x /\ r.working = v.working /\ r.baseline = v.baseline
            /\ VisitShaped(r)
BY DEF VisitShaped, WithRaw

LEMMA WorkingSet ==
  ASSUME NEW v, VisitShaped(v), NEW c, Shaped(c)
  PROVE  LET r == WithWorking(v, c)
         IN /\ r.draft = v.draft /\ r.pending = v.pending /\ r.saving = v.saving /\ r.refused = v.refused
            /\ r.raw = v.raw /\ r.working = c /\ r.baseline = v.baseline
            /\ VisitShaped(r)
BY DEF VisitShaped, WithWorking

LEMMA BaselineSet ==
  ASSUME NEW v, VisitShaped(v), NEW c, Shaped(c)
  PROVE  LET r == WithBaseline(v, c)
         IN /\ r.draft = v.draft /\ r.pending = v.pending /\ r.saving = v.saving /\ r.refused = v.refused
            /\ r.raw = v.raw /\ r.working = v.working /\ r.baseline = c
            /\ VisitShaped(r)
BY DEF VisitShaped, WithBaseline

\* Validation says what is wrong and whether anything is unsaved, and changes nothing else.
LEMMA RevalidatedIs ==
  ASSUME NEW v, VisitShaped(v)
  PROVE  LET r == Revalidated(v)
         IN /\ VisitShaped(r)
            /\ r.raw = v.raw /\ r.working = v.working /\ r.baseline = v.baseline
            /\ r.saving = v.saving /\ r.refused = v.refused
            /\ r.draft = v.raw \cup Issues(v.working)
            /\ r.pending <=> Pending(r)
<1> DEFINE w == WithDraft(v, v.raw \cup Issues(v.working))
           r == Revalidated(v)
           unsaved == Pending(v)
<1>1. /\ VisitShaped(w) /\ w.raw = v.raw /\ w.working = v.working /\ w.baseline = v.baseline
      /\ w.saving = v.saving /\ w.refused = v.refused /\ w.draft = v.raw \cup Issues(v.working)
  BY DraftSet
<1>2. r = WithPending(w, unsaved)
  BY Zenon DEF Revalidated, WithPending, WithDraft
<1> HIDE DEF w, r, unsaved
<1>3. /\ VisitShaped(r) /\ r.raw = v.raw /\ r.working = v.working /\ r.baseline = v.baseline
      /\ r.saving = v.saving /\ r.refused = v.refused /\ r.draft = v.raw \cup Issues(v.working)
      /\ r.pending = unsaved
  BY <1>1, <1>2, PendingSet
<1>4. Pending(r) = Pending(v)
  BY <1>3 DEF Pending
<1>5. r.pending <=> Pending(r)
  BY <1>3, <1>4, Zenon DEF unsaved
<1>6. QED BY <1>3, <1>5, Zenon DEF r

LEMMA StartedSound ==
  ASSUME NEW c, Sound(c)
  PROVE  VisitSound(Started(c, c), c)
<1> DEFINE start == [baseline |-> c, working |-> c, raw |-> {}, refused |-> {}, draft |-> {},
                     pending |-> FALSE, saving |-> FALSE]
           r == Revalidated(start)
<1>1. /\ VisitShaped(start) /\ start.baseline = c /\ start.working = c
      /\ start.raw = {} /\ start.refused = {} /\ ~start.saving
  BY DEF VisitShaped, Sound
<1>2. Started(c, c) = r
  BY DEF Started
<1> HIDE DEF start
<1>3. /\ VisitShaped(r)
      /\ r.raw = start.raw /\ r.working = start.working /\ r.baseline = start.baseline
      /\ r.saving = start.saving /\ r.refused = start.refused
      /\ r.draft = start.raw \cup Issues(start.working)
      /\ r.pending <=> Pending(r)
  BY <1>1, RevalidatedIs
<1> HIDE DEF r
<1>4. ~r.saving
  BY <1>1, <1>3, Zenon
<1>5. VisitSound(r, c)
  <2>1. RawShown(r.raw, r.working)
    BY <1>1, <1>3 DEF RawShown
  <2>2. QED BY <1>1, <1>3, <1>4, <2>1, Zenon DEF VisitSound
<1>6. QED BY <1>2, <1>5

LEMMA NotSaving ==
  ASSUME VisitInv, Visiting
  PROVE  /\ ~visit.saving /\ visit.baseline = committed
         /\ VisitSound(visit, committed) /\ VisitShaped(visit) /\ Shaped(visit.working)
<1>1. VisitSound(visit, committed)
  BY DEF VisitInv, Visiting
<1>2. ~visit.saving
  BY Zenon DEF Visiting, AtRest
<1>3. QED BY <1>1, <1>2, Zenon DEF VisitSound, VisitShaped

\* An edit of one graph, with the texts that are kept for fields it shows.
LEMMA DraftSound ==
  ASSUME VisitInv, NEW g \in Graphs, NEW p, HasParts(g, p), NEW raw,
         \A key \in raw : key \in Graphs \X Fields /\
           key[2] \in DOMAIN (IF key[1] = g THEN p ELSE visit.working.graphs[key[1]]).value,
         DraftChanged(g, p, raw)
  PROVE  VisitSound(visit', committed)
<1> DEFINE working == [visit.working EXCEPT !.graphs[g] = p]
           edited == WithRaw(WithWorking(visit, working), raw)
           v == Revalidated(edited)
           refused == IF v.draft = {} THEN {} ELSE v.refused
<1>1. Visiting /\ visit' = WithRefused(v, refused)
  BY DEF DraftChanged, Edited, WithRaw, WithWorking, WithRefused
<1>2. /\ ~visit.saving /\ visit.baseline = committed
      /\ VisitSound(visit, committed) /\ VisitShaped(visit) /\ Shaped(visit.working)
  BY <1>1, NotSaving
<1>3. Shaped(working)
  BY <1>2, PatchShaped
<1>4. /\ working.lines = visit.working.lines /\ working.label = visit.working.label
      /\ \A h \in Graphs : working.graphs[h] = IF h = g THEN p ELSE visit.working.graphs[h]
  BY <1>2 DEF Shaped
<1> HIDE DEF working
<1>5. Sound(working)
  BY <1>2, <1>3, <1>4 DEF VisitSound, Sound
<1>6. RawShown(raw, working)
  BY <1>4 DEF RawShown
<1>7. /\ VisitShaped(edited) /\ edited.raw = raw /\ edited.working = working
      /\ edited.baseline = visit.baseline /\ edited.saving = visit.saving
  BY <1>2, <1>3, WorkingSet, RawSet
<1> HIDE DEF edited
<1>8. /\ VisitShaped(v)
      /\ v.raw = raw /\ v.working = working /\ v.baseline = visit.baseline
      /\ v.saving = visit.saving
      /\ v.draft = raw \cup Issues(working)
      /\ v.pending <=> Pending(v)
  BY <1>7, RevalidatedIs
<1> HIDE DEF v
<1>9. /\ VisitShaped(visit')
      /\ visit'.raw = raw /\ visit'.working = working /\ visit'.baseline = visit.baseline
      /\ visit'.saving = visit.saving /\ visit'.draft = raw \cup Issues(working)
      /\ visit'.pending = v.pending /\ visit'.refused = refused
  BY <1>1, <1>8, RefusedSet
<1>10. visit'.refused # {} => visit'.draft # {}
  BY <1>8, <1>9
<1>11. visit'.pending <=> Pending(visit)'
  <2>1. Pending(visit)' = Pending(v)
    BY <1>8, <1>9 DEF Pending
  <2>2. QED BY <1>8, <1>9, <2>1, Zenon
<1>12. ~visit'.saving /\ visit'.baseline = committed
  BY <1>2, <1>9, Zenon
<1>13. Sound(visit'.baseline) /\ Sound(visit'.working) /\ RawShown(visit'.raw, visit'.working)
  BY <1>2, <1>5, <1>6, <1>9 DEF VisitSound
<1>14. QED BY <1>9, <1>10, <1>11, <1>12, <1>13, Zenon DEF VisitSound

\* An edit of the lines: the label follows, and nothing else can become wrong.
LEMMA LinesEditSound ==
  ASSUME VisitInv, NEW lines, HasLines(lines), WellFormed(lines), NEW label \in Labels, LinesChanged(lines, label)
  PROVE  VisitSound(visit', committed)
<1> DEFINE fitted == Reconciled(lines, label)
           working == [visit.working EXCEPT !.lines = lines, !.label = fitted]
           v == WithWorking(visit, working)
           unsaved == Pending(v)
<1>1. Visiting /\ visit' = WithPending(v, unsaved)
  BY Zenon DEF LinesChanged, Edited, WithWorking, WithPending
<1>2. /\ ~visit.saving /\ visit.baseline = committed
      /\ VisitSound(visit, committed) /\ VisitShaped(visit) /\ Shaped(visit.working)
  BY <1>1, NotSaving
<1>3. fitted \in Labels /\ Reconciled(lines, fitted) = fitted
  BY ReconciledFits
<1> HIDE DEF fitted
<1>4. Shaped(working)
  BY <1>2, LinesShaped
<1>5. working.lines = lines /\ working.label = fitted /\ working.graphs = visit.working.graphs
  BY <1>2 DEF Shaped
<1> HIDE DEF working
<1>6. Sound(working)
  BY <1>3, <1>4, <1>5 DEF Sound
<1>7. Issues(working) = Issues(visit.working)
  BY <1>2, <1>5, <1>6 DEF Issues, Sound, VisitSound
<1>8. RawShown(visit.raw, working)
  BY <1>2, <1>5 DEF VisitSound, RawShown
<1>9. /\ VisitShaped(v) /\ v.draft = visit.draft /\ v.saving = visit.saving /\ v.refused = visit.refused
      /\ v.raw = visit.raw /\ v.working = working /\ v.baseline = visit.baseline
  BY <1>2, <1>4, WorkingSet
<1> HIDE DEF v, unsaved
<1>10. /\ VisitShaped(visit')
       /\ visit'.draft = visit.draft /\ visit'.saving = visit.saving /\ visit'.refused = visit.refused
       /\ visit'.raw = visit.raw /\ visit'.working = working /\ visit'.baseline = visit.baseline
       /\ visit'.pending = unsaved
  BY <1>1, <1>9, PendingSet
<1>11. visit'.pending <=> Pending(visit)'
  <2>1. Pending(visit)' = Pending(v)
    BY <1>9, <1>10 DEF Pending
  <2>2. QED BY <1>10, <2>1, Zenon DEF unsaved
<1>12. ~visit'.saving /\ visit'.baseline = committed
  BY <1>2, <1>10, Zenon
<1>13. /\ Sound(visit'.working) /\ Sound(visit'.baseline) /\ RawShown(visit'.raw, visit'.working)
       /\ visit'.draft = visit'.raw \cup Issues(visit'.working)
       /\ visit'.refused # {} => visit'.draft # {}
  BY <1>2, <1>6, <1>7, <1>8, <1>10 DEF VisitSound
<1>14. QED BY <1>10, <1>11, <1>12, <1>13, Zenon DEF VisitSound

\* The fields of a section are those of its two modes.
LEMMA FieldsShown ==
  ASSUME NEW g, NEW p, HasParts(g, p)
  PROVE  DOMAIN p.value = Always(g) \cup FieldsOf(p.range) \cup FieldsOf(p.axis)
BY PartsOf DEF Shown

\* The text kept for a field goes with it.
LEMMA GraphEditSound ==
  ASSUME VisitInv, visit # Closed, GraphEdit
  PROVE  VisitSound(visit', committed)
<1>1. /\ Visiting => \A g \in Graphs : HasParts(g, Draft(g))
      /\ Visiting => RawShown(visit.raw, visit.working)
  BY NotSaving DEF Shaped, Draft, VisitSound
<1>2. \A g, p, raw : DraftChanged(g, p, raw) => Visiting
  BY DEF DraftChanged, Edited
<1>3. \A g, fields : \A key \in Dropped(g, fields) :
        key \in visit.raw /\ (key \in Graphs \X Fields /\ key[1] = g => key[2] \notin fields)
  BY DEF Dropped
<1>4. ASSUME NEW g \in Graphs, NEW f \in DOMAIN Draft(g).value, NEW text \in Typed \cup {Garbled},
             SetGraphField(g, f, text)
      PROVE  VisitSound(visit', committed)
  <2>1. Visiting
    BY <1>2, <1>4 DEF SetGraphField
  <2>2. HasParts(g, Draft(g)) /\ f \in Fields
    <3>1. HasParts(g, Draft(g))
      BY <1>1, <2>1
    <3>2. Shown(g, Draft(g)) \subseteq Fields
      BY DEF Shown, Always, FieldsOf, Fields, RangeFields
    <3>3. QED BY <3>1, <3>2, PartsOf
  <2>3. CASE text = Garbled
    <3> DEFINE raw == visit.raw \cup {<<g, f>>}
    <3>1. DraftChanged(g, Draft(g), raw)
      BY <1>4, <2>3 DEF SetGraphField
    <3>2. \A key \in raw : key \in Graphs \X Fields /\
            key[2] \in DOMAIN (IF key[1] = g THEN Draft(g) ELSE visit.working.graphs[key[1]]).value
      BY <1>1, <2>1, <2>2 DEF RawShown, Draft
    <3> HIDE DEF raw
    <3>3. QED BY <2>2, <3>1, <3>2, DraftSound
  <2>4. CASE text # Garbled
    <3> DEFINE p == [Draft(g) EXCEPT !.value[f] = text]
    <3>1. DraftChanged(g, p, Dropped(g, {f}))
      BY <1>4, <2>4 DEF SetGraphField
    <3>2. HasParts(g, p)
      BY <2>2, <2>4, FieldReplaced, TypedAssumption
    <3>3. DOMAIN p.value = DOMAIN Draft(g).value
      BY <2>2, PartsOf
    <3> HIDE DEF p
    <3>4. \A key \in Dropped(g, {f}) : key \in Graphs \X Fields /\
            key[2] \in DOMAIN (IF key[1] = g THEN p ELSE visit.working.graphs[key[1]]).value
      BY <1>1, <1>3, <2>1, <3>3 DEF RawShown, Draft
    <3>5. QED BY <3>1, <3>2, <3>4, DraftSound
  <2>5. QED BY <2>3, <2>4
<1>5. ASSUME NEW g \in Graphs, NEW kind \in Ranges, SetGraphRangeKind(g, kind)
      PROVE  VisitSound(visit', committed)
  <2> DEFINE p == Switched(g, Draft(g), kind)
  <2>1. DraftChanged(g, p, Dropped(g, RangeFields)) /\ Visiting
    BY <1>2, <1>5 DEF SetGraphRangeKind
  <2>2. HasParts(g, Draft(g))
    BY <1>1, <2>1
  <2>3. HasParts(g, p) /\ p.axis = Draft(g).axis
    BY <2>2, SwitchedIs
  <2> HIDE DEF p
  <2>4. DOMAIN Draft(g).value \ RangeFields \subseteq DOMAIN p.value
    <3>1. FieldsOf(Draft(g).range) \subseteq RangeFields
      BY <2>2, PartsOf DEF FieldsOf, RangeFields, Ranges
    <3>2. DOMAIN Draft(g).value = Always(g) \cup FieldsOf(Draft(g).range) \cup FieldsOf(Draft(g).axis)
      BY <2>2, FieldsShown
    <3>3. DOMAIN p.value = Always(g) \cup FieldsOf(p.range) \cup FieldsOf(p.axis)
      BY <2>3, FieldsShown
    <3>4. FieldsOf(p.axis) = FieldsOf(Draft(g).axis)
      BY <2>3
    <3>5. QED BY <3>1, <3>2, <3>3, <3>4
  <2>5. \A key \in Dropped(g, RangeFields) : key \in Graphs \X Fields /\
          key[2] \in DOMAIN (IF key[1] = g THEN p ELSE visit.working.graphs[key[1]]).value
    BY <1>1, <1>3, <2>1, <2>4 DEF RawShown, Draft
  <2>6. QED BY <2>1, <2>3, <2>5, DraftSound
<1>6. ASSUME NEW g \in Graphs, NEW mode \in AxisModes, SetAxisMode(g, mode)
      PROVE  VisitSound(visit', committed)
  <2> DEFINE p == Switched(g, Draft(g), mode)
             raw == IF mode = "fixed" THEN visit.raw ELSE Dropped(g, Bounds)
  <2>1. DraftChanged(g, p, raw) /\ Visiting /\ Draft(g).axis # mode
    BY <1>2, <1>6 DEF SetAxisMode
  <2>2. HasParts(g, Draft(g))
    BY <1>1, <2>1
  <2>3. HasParts(g, p) /\ p.range = Draft(g).range
    BY <2>2, SwitchedIs DEF AxisModes, Ranges
  <2> HIDE DEF p
  <2>4. mode # "fixed" => DOMAIN Draft(g).value \ Bounds \subseteq DOMAIN p.value
    <3>1. FieldsOf(Draft(g).axis) \subseteq Bounds
      BY <2>2, PartsOf DEF FieldsOf, Bounds, AxisModes
    <3>2. DOMAIN Draft(g).value = Always(g) \cup FieldsOf(Draft(g).range) \cup FieldsOf(Draft(g).axis)
      BY <2>2, FieldsShown
    <3>3. DOMAIN p.value = Always(g) \cup FieldsOf(p.range) \cup FieldsOf(p.axis)
      BY <2>3, FieldsShown
    <3>4. FieldsOf(p.range) = FieldsOf(Draft(g).range)
      BY <2>3
    <3>5. QED BY <3>1, <3>2, <3>3, <3>4
  <2>5. mode = "fixed" => DOMAIN Draft(g).value \subseteq DOMAIN p.value
    <3>1. mode = "fixed" => FieldsOf(Draft(g).axis) = {}
      BY <2>1, <2>2, PartsOf DEF FieldsOf, AxisModes
    <3>2. DOMAIN Draft(g).value = Always(g) \cup FieldsOf(Draft(g).range) \cup FieldsOf(Draft(g).axis)
      BY <2>2, FieldsShown
    <3>3. DOMAIN p.value = Always(g) \cup FieldsOf(p.range) \cup FieldsOf(p.axis)
      BY <2>3, FieldsShown
    <3>4. FieldsOf(p.range) = FieldsOf(Draft(g).range)
      BY <2>3
    <3>5. QED BY <3>1, <3>2, <3>3, <3>4
  <2>6. \A key \in raw : key \in Graphs \X Fields /\
          key[2] \in DOMAIN (IF key[1] = g THEN p ELSE visit.working.graphs[key[1]]).value
    BY <1>1, <1>3, <2>1, <2>4, <2>5 DEF RawShown, Draft
  <2> HIDE DEF raw
  <2>7. QED BY <2>1, <2>3, <2>6, DraftSound
<1>7. ASSUME NEW g \in Graphs, SetGraphAnchor(g) PROVE VisitSound(visit', committed)
  <2> DEFINE p == [Draft(g) EXCEPT !.anchor = ~@]
  <2>1. DraftChanged(g, p, visit.raw) /\ Visiting
    BY <1>2, <1>7 DEF SetGraphAnchor
  <2>2. HasParts(g, Draft(g))
    BY <1>1, <2>1
  <2>3. HasParts(g, p)
    BY <2>2, AnchorTurned
  <2>4. p.value = Draft(g).value
    BY <2>2, PartsOf
  <2> HIDE DEF p
  <2>5. \A key \in visit.raw : key \in Graphs \X Fields /\
          key[2] \in DOMAIN (IF key[1] = g THEN p ELSE visit.working.graphs[key[1]]).value
    BY <1>1, <2>1, <2>4 DEF RawShown, Draft
  <2>6. QED BY <2>1, <2>3, <2>5, DraftSound
<1>8. ASSUME NEW g \in Graphs, ClearSeriesOverride(g) PROVE VisitSound(visit', committed)
  <2> DEFINE p == [Draft(g) EXCEPT !.value["width"] = Seed("width")]
  <2>1. DraftChanged(g, p, Dropped(g, {"width"})) /\ Visiting
    BY <1>2, <1>8 DEF ClearSeriesOverride
  <2>2. HasParts(g, Draft(g))
    BY <1>1, <2>1
  <2>3. HasParts(g, p)
    BY <2>2, FieldReplaced DEF Seed, Bounds
  <2>4. DOMAIN p.value = DOMAIN Draft(g).value
    BY <2>2, PartsOf
  <2> HIDE DEF p
  <2>5. \A key \in Dropped(g, {"width"}) : key \in Graphs \X Fields /\
          key[2] \in DOMAIN (IF key[1] = g THEN p ELSE visit.working.graphs[key[1]]).value
    BY <1>1, <1>3, <2>1, <2>4 DEF RawShown, Draft
  <2>6. QED BY <2>1, <2>3, <2>5, DraftSound
<1>9. ASSUME NEW g \in Graphs, ResetGraph(g) PROVE VisitSound(visit', committed)
  <2> DEFINE raw == {key \in visit.raw : key[1] # g}
  <2>1. DraftChanged(g, Default(g), raw) /\ Visiting
    BY <1>2, <1>9 DEF ResetGraph
  <2>2. \A key \in raw : key \in Graphs \X Fields /\
          key[2] \in DOMAIN (IF key[1] = g THEN Default(g) ELSE visit.working.graphs[key[1]]).value
    BY <1>1, <2>1 DEF RawShown
  <2> HIDE DEF raw
  <2>3. QED BY <2>1, <2>2, DefaultHasParts, DraftSound
<1>10. QED BY <1>4, <1>5, <1>6, <1>7, <1>8, <1>9 DEF GraphEdit

LEMMA LineEditSound ==
  ASSUME VisitInv, visit # Closed, LineEdit
  PROVE  VisitSound(visit', committed)
<1> DEFINE now == visit.working.lines
<1>1. \A lines, label : LinesChanged(lines, label) => Visiting
  BY DEF LinesChanged, Edited
<1>2. HasLines(now) /\ WellFormed(now) /\ visit.working.label \in Labels
  BY DEF VisitInv, VisitSound, Sound
<1>3. ASSUME NEW lines, HasLines(lines), WellFormed(lines), EditRunSeries(lines)
      PROVE  VisitSound(visit', committed)
  BY <1>2, <1>3, LinesEditSound DEF EditRunSeries
<1>4. ASSUME NEW label \in Labels, SetRunAxisLabel(label) PROVE VisitSound(visit', committed)
  BY <1>2, <1>4, LinesEditSound DEF SetRunAxisLabel
<1>5. CASE RestoreDefaultGraphLines
  <2>1. NoLabel \in Labels
    BY DEF NoLabel, Labels
  <2>2. QED BY <1>5, <2>1, DefaultLinesSound, LinesEditSound DEF RestoreDefaultGraphLines
<1>6. CASE \/ now.nextLine < MaxIds /\ EditRunSeries(CreateLine(now))
           \/ now.nextAxis < MaxIds /\ EditRunSeries(CreateAxis(now))
  BY <1>2, <1>3, <1>6, CreateLineSound, CreateAxisSound
<1>7. ASSUME NEW l \in DOMAIN now.axisOf,
             \/ EditRunSeries(RemoveLine(now, l))
             \/ \E a \in now.axes \cup {0} : EditRunSeries(MoveLine(now, l, a))
      PROVE  VisitSound(visit', committed)
  BY <1>2, <1>3, <1>7, RemoveLineSound, MoveLineSound
<1>8. /\ \A l \in DOMAIN now.axisOf : <<"line", l>> \in Labels
      /\ \A a \in now.axes : <<"axis", a>> \in Labels
      /\ NoLabel \in Labels
  <2>1. \A l \in DOMAIN now.axisOf : l \in Nat
    BY <1>2, LinesOf, BoundsAssumption
  <2>2. \A a \in now.axes : a \in Nat
    BY <1>2, LinesOf
  <2> HIDE DEF now
  <2>3. QED BY <2>1, <2>2 DEF Labels, NoLabel
<1>9. QED
  <2> HIDE DEF now
  <2>1. \/ now.nextLine < MaxIds /\ EditRunSeries(CreateLine(now))
        \/ now.nextAxis < MaxIds /\ EditRunSeries(CreateAxis(now))
        \/ \E l \in DOMAIN now.axisOf :
              \/ EditRunSeries(RemoveLine(now, l))
              \/ \E a \in now.axes \cup {0} : EditRunSeries(MoveLine(now, l, a))
              \/ SetRunAxisLabel(<<"line", l>>)
        \/ \E a \in now.axes : SetRunAxisLabel(<<"axis", a>>)
        \/ SetRunAxisLabel(NoLabel)
        \/ RestoreDefaultGraphLines
    BY Zenon DEF LineEdit, now
  <2>2. QED BY <1>4, <1>5, <1>6, <1>7, <1>8, <2>1

-----------------------------------------------------------------------------
(* The invariant and the theorems.                                         *)

WindowInv == CommittedInv /\ VisitInv

LEMMA SaveRefusedSound ==
  ASSUME VisitInv, SaveRefused
  PROVE  VisitSound(visit', committed)
<1> DEFINE issues == IF visit.raw # {} THEN visit.raw ELSE Issues(visit.working)
           told == WithRefused(visit, issues)
<1>1. Visiting /\ issues # {} /\ visit' = Revalidated(told)
  BY DEF SaveRefused, WithRefused
<1>2. /\ ~visit.saving /\ visit.baseline = committed
      /\ VisitSound(visit, committed) /\ VisitShaped(visit)
  BY <1>1, NotSaving
<1>3. issues \subseteq visit.raw \cup Issues(visit.working)
  OBVIOUS
<1> HIDE DEF issues
<1>4. /\ VisitShaped(told) /\ told.raw = visit.raw /\ told.working = visit.working
      /\ told.baseline = visit.baseline /\ told.saving = visit.saving
  BY <1>2, RefusedSet
<1> HIDE DEF told
<1>5. /\ VisitShaped(visit')
      /\ visit'.raw = visit.raw /\ visit'.working = visit.working /\ visit'.baseline = visit.baseline
      /\ visit'.saving = visit.saving
      /\ visit'.draft = visit.raw \cup Issues(visit.working)
  BY <1>1, <1>4, RevalidatedIs
<1>6. visit'.pending <=> Pending(visit)'
  BY <1>1, <1>4, RevalidatedIs, Zenon
<1>7. visit'.draft # {}
  BY <1>1, <1>3, <1>5
<1>8. ~visit'.saving /\ visit'.baseline = committed
  BY <1>2, <1>5, Zenon
<1>9. /\ Sound(visit'.working) /\ Sound(visit'.baseline) /\ RawShown(visit'.raw, visit'.working)
      /\ visit'.draft = visit'.raw \cup Issues(visit'.working)
  BY <1>2, <1>5 DEF VisitSound
<1>10. QED BY <1>5, <1>6, <1>7, <1>8, <1>9, Zenon DEF VisitSound

LEMMA SaveAcceptedSound ==
  ASSUME WindowInv, SaveAccepted
  PROVE  CommittedInv' /\ VisitSound(visit', committed')
<1>1. /\ Visiting /\ visit.raw = {} /\ Issues(visit.working) = {}
      /\ Replace(visit.working) /\ visit' = WithSaving(visit, TRUE)
  BY DEF SaveAccepted, WithSaving
<1>2. VisitSound(visit, committed) /\ VisitShaped(visit) /\ Sound(visit.working)
  BY <1>1, NotSaving DEF WindowInv, VisitSound
<1>3. CommittedInv' /\ committed' = visit.working
  BY <1>1, <1>2, CommittedReplace DEF WindowInv
<1>4. /\ VisitShaped(visit')
      /\ visit'.draft = visit.draft /\ visit'.pending = visit.pending /\ visit'.refused = visit.refused
      /\ visit'.raw = visit.raw /\ visit'.working = visit.working /\ visit'.baseline = visit.baseline
      /\ visit'.saving
  <2> DEFINE on == TRUE
  <2>1. visit' = WithSaving(visit, on)
    BY <1>1
  <2> HIDE DEF on
  <2>2. /\ VisitShaped(visit')
        /\ visit'.draft = visit.draft /\ visit'.pending = visit.pending /\ visit'.refused = visit.refused
        /\ visit'.raw = visit.raw /\ visit'.working = visit.working /\ visit'.baseline = visit.baseline
        /\ visit'.saving = on
    BY <1>2, <2>1, SavingSet
  <2>3. visit'.saving
    BY <2>2, Zenon DEF on
  <2>4. QED BY <2>2, <2>3
<1>5. visit'.pending <=> Pending(visit)'
  <2>1. Pending(visit)' = Pending(visit)
    BY <1>4 DEF Pending
  <2>2. QED BY <1>2, <1>4, <2>1, Zenon DEF VisitSound
<1>6. /\ Sound(visit'.working) /\ Sound(visit'.baseline) /\ RawShown(visit'.raw, visit'.working)
      /\ visit'.draft = visit'.raw \cup Issues(visit'.working)
      /\ visit'.refused # {} => visit'.draft # {}
  BY <1>2, <1>4 DEF VisitSound
<1>7. visit'.working = committed' /\ visit'.raw = {}
  BY <1>1, <1>3, <1>4
<1>8. QED BY <1>3, <1>4, <1>5, <1>6, <1>7, Zenon DEF VisitSound

LEMMA SaveReturnsSound ==
  ASSUME VisitInv, SaveReturns
  PROVE  VisitSound(visit', committed)
<1> DEFINE off == FALSE
           ended == WithSaving(visit, off)
           based == WithBaseline(ended, visit.working)
           done == WithRefused(based, {})
<1>1. /\ visit # Closed /\ visit.saving
      /\ visit' = Revalidated([visit EXCEPT !.saving = FALSE, !.baseline = visit.working, !.refused = {}])
  BY DEF SaveReturns
<1>2. VisitSound(visit, committed)
  BY <1>1 DEF VisitInv
<1>3. VisitShaped(visit) /\ visit.working = committed /\ Sound(visit.working) /\ RawShown(visit.raw, visit.working)
  BY <1>1, <1>2, Zenon DEF VisitSound
<1>4. visit' = Revalidated(done)
  BY <1>1 DEF WithSaving, WithBaseline, WithRefused
<1> HIDE DEF off
<1>5. VisitShaped(ended) /\ ended.raw = visit.raw /\ ended.working = visit.working /\ ended.saving = off
  BY <1>3, SavingSet
<1> HIDE DEF ended
<1>6. /\ VisitShaped(based) /\ based.raw = visit.raw /\ based.working = visit.working
      /\ based.baseline = visit.working /\ based.saving = off
  BY <1>3, <1>5, BaselineSet DEF Sound
<1> HIDE DEF based
<1>7. /\ VisitShaped(done) /\ done.raw = visit.raw /\ done.working = visit.working
      /\ done.baseline = visit.working /\ done.saving = off /\ done.refused = {}
  BY <1>6, RefusedSet
<1> HIDE DEF done
<1>8. /\ VisitShaped(visit')
      /\ visit'.raw = visit.raw /\ visit'.working = visit.working /\ visit'.baseline = visit.working
      /\ visit'.saving = off /\ visit'.refused = {}
      /\ visit'.draft = visit.raw \cup Issues(visit.working)
  BY <1>4, <1>7, RevalidatedIs
<1>9. visit'.pending <=> Pending(visit)'
  BY <1>4, <1>7, RevalidatedIs, Zenon
<1>10. ~visit'.saving /\ visit'.baseline = committed
  BY <1>3, <1>8, Zenon DEF off
<1>11. /\ Sound(visit'.working) /\ Sound(visit'.baseline) /\ RawShown(visit'.raw, visit'.working)
       /\ visit'.draft = visit'.raw \cup Issues(visit'.working)
       /\ ~(visit'.refused # {})
  BY <1>3, <1>8
<1>12. QED BY <1>8, <1>9, <1>10, <1>11, Zenon DEF VisitSound

LEMMA VisitWindowStep ==
  ASSUME WindowInv, VisitStep
  PROVE  WindowInv'
<1>1. ASSUME UNCHANGED serviceVars, visit' # Closed => VisitSound(visit', committed) PROVE WindowInv'
  BY <1>1 DEF WindowInv, CommittedInv, VisitInv, serviceVars
<1>2. CASE BeginVisit
  <2>1. VisitSound(visit', committed)
    BY <1>2, StartedSound DEF BeginVisit, WindowInv, CommittedInv
  <2>2. QED BY <1>1, <1>2, <2>1 DEF BeginVisit
<1>3. CASE RevertChanges
  <2>1. visit' = Started(visit.baseline, visit.baseline) /\ visit.baseline = committed
    BY <1>3, NotSaving DEF RevertChanges, WindowInv
  <2>2. VisitSound(visit', committed)
    BY <2>1, StartedSound DEF WindowInv, CommittedInv
  <2>3. QED BY <1>1, <1>3, <2>2 DEF RevertChanges
<1>4. CASE EndVisit
  BY <1>1, <1>4 DEF EndVisit
<1>5. CASE visit # Closed /\ (GraphEdit \/ LineEdit)
  <2>1. VisitSound(visit', committed)
    BY <1>5, GraphEditSound, LineEditSound DEF WindowInv
  <2>2. QED BY <1>1, <1>5, <2>1, EditsAreQuiet
<1>6. CASE SaveRefused
  BY <1>1, <1>6, SaveRefusedSound DEF SaveRefused, WindowInv
<1>7. CASE SaveAccepted
  BY <1>7, SaveAcceptedSound DEF WindowInv, VisitInv
<1>8. CASE SaveReturns
  BY <1>1, <1>8, SaveReturnsSound DEF SaveReturns, WindowInv
<1>9. QED BY <1>2, <1>3, <1>4, <1>5, <1>6, <1>7, <1>8 DEF VisitStep

LEMMA WindowStep ==
  ASSUME WindowInv, [Next]_vars
  PROVE  WindowInv'
<1>1. ASSUME UNCHANGED <<committed, document, visit>> PROVE WindowInv'
  BY <1>1 DEF WindowInv, CommittedInv, VisitInv
<1>2. Deliver \/ DayChanged \/ (\E last \in 0 .. MaxDays : ProfileChanged(last)) \/ UNCHANGED vars
        => UNCHANGED <<committed, document, visit>>
  BY DEF Deliver, DayChanged, ProfileChanged, serviceVars, vars
<1>3. CASE QuickChange
  BY <1>3, CommittedQuick DEF WindowInv, VisitInv
<1>4. ASSUME NEW doc \in {document} \cup Foreign, Restart(doc) PROVE WindowInv'
  <2>1. CommittedInv'
    BY <1>4, CommittedRestart DEF WindowInv
  <2>2. visit' = Closed
    BY <1>4 DEF Restart
  <2>3. QED BY <2>1, <2>2 DEF WindowInv, VisitInv
<1>5. QED BY <1>1, <1>2, <1>3, <1>4, VisitWindowStep DEF Next

\* Whatever is loaded, edited and saved, the configurations in play can be stored as they are, and
\* what a visit says of itself is true.
THEOREM WindowStaysSound == Spec => []WindowInv
<1>1. Init => WindowInv
  BY CommittedInit DEF Init, WindowInv, VisitInv
<1>2. QED BY <1>1, WindowStep, PTL DEF Spec

\* A restart restores what is committed (GraphConfigurationService::load after replace): no section
\* of a configuration that was accepted is set aside when its document is read again, whatever the
\* document held before.
THEOREM RestartAlwaysRestores == Spec => []RestartRestores
<1>1. WindowInv => RestartRestores
  BY DEF WindowInv, CommittedInv, RestartRestores
<1>2. QED BY <1>1, WindowStaysSound, PTL

\* The settings window (SettingsViewModel::revalidate, draftChanged, save) calls a visit invalid
\* exactly while a save would be refused, at fields that are shown, and unsaved exactly while ending
\* it would lose something.
THEOREM VisitStaysExact == Spec => []VisitExact
<1>1. ASSUME WindowInv PROVE VisitExact
  <2>1. RefusalsExplained
    <3> SUFFICES ASSUME visit # Closed
                 PROVE  /\ visit.draft = visit.raw \cup Issues(visit.working)
                        /\ \A key \in visit.draft : key[2] \in DOMAIN visit.working.graphs[key[1]].value
                        /\ visit.refused # {} => visit.draft # {}
      BY DEF RefusalsExplained
    <3>1. /\ Sound(visit.working) /\ RawShown(visit.raw, visit.working)
          /\ visit.draft = visit.raw \cup Issues(visit.working)
          /\ visit.refused # {} => visit.draft # {}
      BY <1>1 DEF WindowInv, VisitInv, VisitSound
    <3>2. \A key \in Issues(visit.working) : key[2] \in DOMAIN visit.working.graphs[key[1]].value
      BY <3>1, IssuesAre DEF Sound
    <3>3. QED BY <3>1, <3>2 DEF RawShown
  <2>2. PendingExact
    <3> SUFFICES ASSUME visit # Closed, AtRest
                 PROVE  visit.pending <=> visit.raw # {} \/ visit.working # committed
      BY Zenon DEF PendingExact
    <3>1. Visiting
      BY DEF Visiting
    <3>2. visit.baseline = committed /\ VisitSound(visit, committed)
      BY <1>1, <3>1, NotSaving DEF WindowInv
    <3>3. visit.pending <=> Pending(visit)
      BY <3>2, Zenon DEF VisitSound
    <3>4. QED BY <3>2, <3>3, Zenon DEF Pending
  <2>3. QED BY <2>1, <2>2 DEF VisitExact
<1>2. QED BY <1>1, WindowStaysSound, PTL
=============================================================================
