----------------------------- MODULE GraphSettings -----------------------------
(***************************************************************************)
(* The presentation settings of the graphs: the committed configuration    *)
(* and its document (data/graph_configuration_service,                     *)
(* qt_data/graph_configuration_persistence), the changes it publishes, the *)
(* charts that draw by it (playtime_graph_use_case,                        *)
(* completion_history_use_case, graph_use_case and their view models), and *)
(* the visit of the settings window with its working copy (settings_vm).   *)
(*                                                                         *)
(* Everything runs on the GUI thread.  A publication calls one listener    *)
(* after the other, and a listener may commit again while it goes on; each *)
(* call of a listener is a step.  The quick popup beside a graph commits   *)
(* at once; the window is modal, so nobody does while a visit is open.     *)
(*                                                                         *)
(* A value is a small number: for a count, a date or a width 0 stands for  *)
(* everything outside its limits.  One axis and one line of a graph stand  *)
(* for all.  Colours, markers and the order of lines take no part, and an  *)
(* allocator of ids never runs out.                                        *)
(***************************************************************************)
EXTENDS Naturals, Sequences

CONSTANTS
  Typed,        \* bound: the numbers a user types
  MaximumAxisBound,  \* kMaximumAxisBoundMagnitude
  MaxIds,       \* bound: ids of lines and axes
  MaxEdits,     \* bound: edits of working copies and quick changes
  MaxDays,      \* bound: days that pass, and days of new runs
  NoDocument,   \* nothing stored yet
  Unreadable,   \* a document of another program or version
  Bad,          \* a section that does not decode
  Missing,      \* a section the document does not have
  Foreign,      \* documents of earlier versions and of other hands
  LegacyLabel,  \* the selection an earlier version stored elsewhere
  Garbled,      \* text that is not a value
  Closed        \* no visit

Graphs == {"dailyPlaytime", "scenarioHistory"}
Listeners == <<"lines", "dailyPlaytime", "scenarioHistory">>

ASSUME TypedAssumption == Typed \subseteq Nat /\ Garbled \notin Nat
ASSUME AxisBoundAssumption == MaximumAxisBound \in Nat
ASSUME BoundsAssumption == MaxIds \in Nat \ {0, 1} /\ MaxEdits \in Nat /\ MaxDays \in Nat

VARIABLES
  committed,  \* m_configuration: preferences by graph, lines, label
  revision,   \* m_revision
  document,   \* what the settings hold
  queue,      \* the change being published, then m_unpublished
  hears,      \* the listener called next, 0 while nothing is published
  heard,      \* history: the revision each listener heard last
  charts,     \* what each graph draws, and the cache of the playtime graph
  today,      \* the day the day source has announced
  latest,     \* the day of the profile's latest run, 0 without runs
  visit,      \* the settings window
  edits       \* edits made so far

serviceVars == <<committed, revision, document, queue, hears, heard>>
vars == <<committed, revision, document, queue, hears, heard, charts, today, latest, visit, edits>>

-----------------------------------------------------------------------------
(* Preferences of one graph.                                               *)

Ranges == {"allHistory", "recentDays", "customDates", "latestRuns"}
AxisModes == {"fit", "zero", "fixed"}
Dates == {"startDate", "endDate"}
Bounds == {"fixedMin", "fixedMax"}
RangeFields == {"recentDays", "latestRuns"} \cup Dates

FieldsOf(mode) ==
  CASE mode \in {"recentDays", "latestRuns"} -> {mode}
    [] mode = "customDates" -> Dates
    [] mode = "fixed" -> Bounds
    [] OTHER -> {}

Offers(g) == AxisModes \cup (IF g = "scenarioHistory" THEN Ranges ELSE Ranges \ {"latestRuns"})
Always(g) == IF g = "dailyPlaytime" THEN {"width", "averagingWindow"} ELSE {"width"}
Shown(g, p) == Always(g) \cup FieldsOf(p.range) \cup FieldsOf(p.axis)
Fields == Bounds \cup RangeFields \cup Always("dailyPlaytime")

\* What a field holds before anyone edits it.
Seed(f) == IF f \in Bounds THEN 0 ELSE 1

Default(g) ==
  IF g = "scenarioHistory"
  THEN [range |-> "latestRuns", axis |-> "fit", anchor |-> FALSE,
        value |-> [f \in {"width", "latestRuns"} |-> IF f = "width" THEN 1 ELSE 2]]
  ELSE [range |-> "recentDays", axis |-> "zero", anchor |-> TRUE,
        value |-> [f \in {"width", "averagingWindow", "recentDays"} |-> 1]]

\* What a section of a graph has when it decodes: its modes, and the fields these bring.
Preferences(fields) == [range : Ranges, axis : AxisModes, anchor : BOOLEAN, value : [fields -> Nat]]
HasParts(g, p) == p \in Preferences(Shown(g, p))

\* A mode brings its own fields and drops those of the mode it replaces.
Switched(g, p, mode) ==
  LET q == IF mode \in Ranges THEN [p EXCEPT !.range = mode] ELSE [p EXCEPT !.axis = mode]
  IN [q EXCEPT !.value = [f \in Shown(g, q) |-> IF f \in DOMAIN p.value THEN p.value[f] ELSE Seed(f)]]

\* The fields that hold something the graph cannot use.
Invalid(g, p) ==
  {f \in DOMAIN p.value \ Bounds : p.value[f] = 0}
    \cup {f \in DOMAIN p.value \cap Bounds : p.value[f] > MaximumAxisBound}
    \cup {f \in {"endDate"} : /\ p.range = "customDates"
                              /\ 0 < p.value["endDate"] /\ p.value["endDate"] < p.value["startDate"]}
    \cup {f \in {"fixedMax"} : p.axis = "fixed" /\ p.value["fixedMin"] >= p.value["fixedMax"]}

-----------------------------------------------------------------------------
(* The lines of the run graph, and the axis or line that is labelled.      *)

NoLabel == <<"none", 0>>

\* Two of the lines a new document has, one of them on an axis.
DefaultLines == [axisOf |-> [l \in {1, 2} |-> IF l = 1 THEN 1 ELSE 0], axes |-> {1},
                 nextLine |-> 3, nextAxis |-> 2]

\* A line on an axis stands for that axis.
LabelFor(lines, line) ==
  IF lines.axisOf[line] \in lines.axes THEN <<"axis", lines.axisOf[line]>> ELSE <<"line", line>>

Reconciled(lines, label) ==
  CASE label[1] = "axis" /\ label[2] \in lines.axes -> label
    [] label[1] = "line" /\ label[2] \in DOMAIN lines.axisOf -> LabelFor(lines, label[2])
    [] OTHER -> NoLabel

WellFormed(lines) ==
  /\ \A l \in DOMAIN lines.axisOf : l < lines.nextLine /\ lines.axisOf[l] \in lines.axes \cup {0}
  /\ \A a \in lines.axes : 0 < a /\ a < lines.nextAxis

CreateLine(lines) ==
  [lines EXCEPT !.nextLine = @ + 1,
                !.axisOf = [l \in DOMAIN @ \cup {lines.nextLine} |-> IF l \in DOMAIN @ THEN @[l] ELSE 0]]
RemoveLine(lines, line) == [lines EXCEPT !.axisOf = [l \in DOMAIN @ \ {line} |-> @[l]]]
CreateAxis(lines) == [lines EXCEPT !.nextAxis = @ + 1, !.axes = @ \cup {lines.nextAxis}]
MoveLine(lines, line, axis) == [lines EXCEPT !.axisOf[line] = axis]

\* What decodes as lines, and as a label.
LineSets(ids) == [axisOf : [ids -> Nat], axes : SUBSET Nat, nextLine : Nat \ {0}, nextAxis : Nat \ {0}]
HasLines(lines) == lines \in LineSets(DOMAIN lines.axisOf) /\ DOMAIN lines.axisOf \subseteq 1 .. MaxIds
Labels == {"none", "axis", "line"} \X Nat

\* The lines the run graph draws with labels.
Labelled(c) ==
  {l \in DOMAIN c.lines.axisOf : c.label = <<"line", l>> \/ c.label = <<"axis", c.lines.axisOf[l]>>}

-----------------------------------------------------------------------------
(* A configuration and its document.                                       *)

\* The fields a save would refuse, over all graphs and the lines.
Issues(c) ==
  {key \in Graphs \X Fields :
    key[2] \in Invalid(key[1], c.graphs[key[1]])}
    \cup (IF WellFormed(c.lines) THEN {} ELSE {<<"run", "graphLines">>})

ASSUME DocumentAssumption ==
  /\ \A doc \in Foreign \ {Unreadable} :
       /\ \A g \in Graphs : doc.graphs[g] \in {Bad, Missing} \/ HasParts(g, doc.graphs[g])
       /\ doc.lines = Bad \/ HasLines(doc.lines)
       /\ doc.label \in Labels \cup {Bad, Missing}
  /\ LegacyLabel \in Labels

\* The marks are none of the values they stand in for.
FieldSets == {Always(g) \cup FieldsOf(range) \cup FieldsOf(axis) : g \in Graphs, range \in Ranges, axis \in AxisModes}
ASSUME MarksAssumption ==
  \A F, H \in FieldSets, ids \in SUBSET (1 .. MaxIds) :
    /\ Bad \notin Preferences(F) /\ Bad \notin LineSets(ids) /\ Bad \notin Labels
    /\ Missing \notin Preferences(F) /\ Missing \notin Labels
    /\ \A mark \in {NoDocument, Unreadable} :
         mark \notin [graphs : [Graphs -> Preferences(F) \cup Preferences(H)], lines : LineSets(ids), label : Labels]

Encoded(c) == [graphs |-> c.graphs, lines |-> c.lines, label |-> c.label]

GraphRejected(doc, g) ==
  doc.graphs[g] = Bad \/ (doc.graphs[g] # Missing /\ Invalid(g, doc.graphs[g]) # {})
LinesRejected(doc) == doc.lines = Bad \/ ~WellFormed(doc.lines)
Rejected(doc) == (\E g \in Graphs : GraphRejected(doc, g)) \/ LinesRejected(doc) \/ doc.label = Bad

\* Each section stands for itself, what is missing or rejected for its default.
Load(doc) ==
  LET whole == doc \notin {NoDocument, Unreadable}
      lines == IF whole /\ ~LinesRejected(doc) THEN doc.lines ELSE DefaultLines
      label == IF whole /\ doc.label \notin {Bad, Missing} THEN doc.label ELSE LegacyLabel
  IN [graphs |-> [g \in Graphs |-> IF ~whole \/ GraphRejected(doc, g) \/ doc.graphs[g] = Missing
                                   THEN Default(g) ELSE doc.graphs[g]],
      lines |-> lines,
      label |-> Reconciled(lines, label)]

\* A document is written anew when there was none, or a part of it was set aside.
Established(doc) ==
  IF doc \in {NoDocument, Unreadable} \/ Rejected(doc) THEN Encoded(Load(doc)) ELSE doc

-----------------------------------------------------------------------------
(* What the graphs draw.                                                   *)

Only(fields, p) == [f \in fields \cap DOMAIN p.value |-> p.value[f]]

\* resolveRange: recent days end with the latest run or with today.
Projection(p, last, day) ==
  [range |-> p.range, fields |-> Only(RangeFields, p),
   last |-> IF p.range # "recentDays" THEN 0 ELSE IF p.anchor THEN last ELSE day]

Style(p) == [axis |-> p.axis, fields |-> Only(Bounds \cup {"width"}, p)]

FollowsToday(p) == p.range = "recentDays" /\ ~p.anchor

LinesDrawn(c) == [lines |-> c.lines, labelled |-> Labelled(c)]

\* Mutant: the window is not compared.
Cached_AnyWindow(old, p, last) ==
  IF old # Closed THEN old
  ELSE [window |-> p.value["averagingWindow"], runs |-> last, anchor |-> last]

\* The playtime graph computes the whole series again only for another window, and
\* reads the latest day again only for another profile.
Cached(old, p, last) ==
  IF old # Closed /\ old.window = p.value["averagingWindow"] THEN old
  ELSE [window |-> p.value["averagingWindow"], runs |-> last,
        anchor |-> IF old # Closed THEN old.anchor ELSE last]

PlaytimeDrawn(p, cache, day) ==
  [window |-> cache.window, runs |-> cache.runs, shows |-> Projection(p, cache.anchor, day)]

\* The profile is known here by the day of its latest run.
HistoryDrawn(p, last, day) == [runs |-> last, shows |-> Projection(p, last, day)]

Fresh(c, last, day) ==
  LET playtime == c.graphs["dailyPlaytime"]
      cache == [window |-> playtime.value["averagingWindow"], runs |-> last, anchor |-> last]
  IN [lines |-> LinesDrawn(c), cache |-> cache,
      dailyPlaytime |-> PlaytimeDrawn(playtime, cache, day),
      scenarioHistory |-> HistoryDrawn(c.graphs["scenarioHistory"], last, day),
      style |-> [g \in Graphs |-> Style(c.graphs[g])]]

\* PlaytimeGraphUseCase::snapshot, drawn by the view model.
Redrawn(old, last, day) ==
  LET p == committed.graphs["dailyPlaytime"]
      cache == Cached(old, p, last)
  IN [cache |-> cache, drawn |-> PlaytimeDrawn(p, cache, day)]

-----------------------------------------------------------------------------
(* The service: what is committed, and its publication.                    *)

\* The parts of the configuration in which two differ.
Diff(before, after) ==
  LET was(g) == before.graphs[g]
      now(g) == after.graphs[g]
      Window(p) == Only({"averagingWindow"}, p)
      Range(p) == <<p.range, p.anchor, Only(RangeFields, p)>>
  IN {<<g, "range">> : g \in {x \in Graphs : Range(was(x)) # Range(now(x))}}
       \cup {<<g, "window">> : g \in {x \in Graphs : Window(was(x)) # Window(now(x))}}
       \cup {<<g, "style">> : g \in {x \in Graphs : Style(was(x)) # Style(now(x))}}
       \cup (IF before.lines # after.lines THEN {<<"lines", "runSeries">>} ELSE {})
       \cup (IF before.label # after.label THEN {<<"lines", "label">>} ELSE {})

AtRest == hears = 0 /\ ~(visit # Closed /\ visit.saving)

\* Mutant: a change inside a publication is published at once.
Commit_Nested(c) ==
  /\ document' = Encoded(c)
  /\ committed' = c
  /\ revision' = revision + 1
  /\ queue' = <<[sections |-> Diff(committed, c), revision |-> revision + 1]>> \o queue
  /\ hears' = 1
  /\ UNCHANGED heard

\* An accepted candidate is stored, installed and queued; whoever is publishing goes on.
Commit(c) ==
  /\ document' = Encoded(c)
  /\ committed' = c
  /\ revision' = revision + 1
  /\ queue' = Append(queue, [sections |-> Diff(committed, c), revision |-> revision + 1])
  /\ hears' = IF hears = 0 THEN 1 ELSE hears
  /\ UNCHANGED heard

\* A candidate that differs in nothing is accepted without a word.
Replace(c) == IF Diff(committed, c) = {} THEN UNCHANGED serviceVars ELSE Commit(c)

\* The next listener is called with the change at the head of the queue.
Deliver ==
  /\ hears # 0
  /\ LET change == Head(queue)
         listener == Listeners[hears]
         Touches(part) == <<listener, part>> \in change.sections
         playtime == Redrawn(charts.cache, latest, today)
     IN /\ heard' = [heard EXCEPT ![listener] = change.revision]
        /\ charts' =
             CASE listener = "lines" ->
                    [charts EXCEPT !.lines.lines = IF Touches("runSeries") THEN committed.lines ELSE @,
                                   !.lines.labelled = IF Touches("runSeries") \/ Touches("label")
                                                      THEN Labelled(committed) ELSE @]
               [] listener = "dailyPlaytime" ->
                    [charts EXCEPT
                       !.style[listener] = IF Touches("style") THEN Style(committed.graphs[listener]) ELSE @,
                       !.cache = IF Touches("range") \/ Touches("window") THEN playtime.cache ELSE @,
                       !.dailyPlaytime = IF Touches("range") \/ Touches("window") THEN playtime.drawn ELSE @]
               [] listener = "scenarioHistory" ->
                    [charts EXCEPT
                       !.style[listener] = IF Touches("style") THEN Style(committed.graphs[listener]) ELSE @,
                       !.scenarioHistory = IF Touches("range")
                                           THEN HistoryDrawn(committed.graphs[listener], latest, today) ELSE @]
        /\ IF hears < Len(Listeners)
           THEN hears' = hears + 1 /\ UNCHANGED queue
           ELSE hears' = (IF Len(queue) > 1 THEN 1 ELSE 0) /\ queue' = Tail(queue)
  /\ UNCHANGED <<committed, revision, document, today, latest, visit, edits>>

-----------------------------------------------------------------------------
(* Days and runs.                                                          *)

\* The profile was replaced: the playtime graph forgets what it computed.
ProfileChanged(last) ==
  /\ AtRest
  /\ last # latest
  /\ latest' = last
  /\ UNCHANGED <<serviceVars, today, visit, edits>>
  /\ LET playtime == Redrawn(Closed, last, today) IN
     charts' = [charts EXCEPT !.cache = playtime.cache, !.dailyPlaytime = playtime.drawn,
                              !.scenarioHistory = HistoryDrawn(committed.graphs["scenarioHistory"], last, today)]

\* Only the graphs that follow today hear of a new day.
DayChanged ==
  /\ AtRest
  /\ today < MaxDays
  /\ today' = today + 1
  /\ UNCHANGED <<serviceVars, latest, visit, edits>>
  /\ LET playtime == Redrawn(charts.cache, latest, today')
         history == committed.graphs["scenarioHistory"]
         Follows(g) == FollowsToday(committed.graphs[g])
     IN charts' = [charts EXCEPT
          !.cache = IF Follows("dailyPlaytime") THEN playtime.cache ELSE @,
          !.dailyPlaytime = IF Follows("dailyPlaytime") THEN playtime.drawn ELSE @,
          !.scenarioHistory = IF Follows("scenarioHistory") THEN HistoryDrawn(history, latest, today') ELSE @]

-----------------------------------------------------------------------------
(* Quick changes beside a graph.                                           *)

\* What the popup asks for is checked for this graph alone, and keeps the anchor.
QuickPatch(g, p) ==
  /\ visit = Closed
  /\ edits < MaxEdits
  /\ edits' = edits + 1
  /\ Invalid(g, p) = {} /\ p.range \in Offers(g)
  /\ Replace([committed EXCEPT !.graphs[g] = p])
  /\ UNCHANGED <<charts, today, latest, visit>>

QuickRange(g, range, count) ==
  LET p == Switched(g, committed.graphs[g], range) IN
  QuickPatch(g, [p EXCEPT !.value = [f \in DOMAIN @ |-> IF f = range THEN count ELSE @[f]]])

QuickWindow(count) ==
  LET g == "dailyPlaytime" IN
  QuickPatch(g, [committed.graphs[g] EXCEPT !.value["averagingWindow"] = count])

-----------------------------------------------------------------------------
(* A visit of the settings window.                                         *)

Pending(v) == v.raw # {} \/ v.working # v.baseline

\* A working copy as it is shown: what is wrong with it, and whether it is unsaved.
Revalidated(v) == [v EXCEPT !.draft = v.raw \cup Issues(v.working), !.pending = Pending(v)]

Started(working, baseline) ==
  Revalidated([baseline |-> baseline, working |-> working, raw |-> {}, refused |-> {}, draft |-> {},
               pending |-> FALSE, saving |-> FALSE])

Visiting == AtRest /\ visit # Closed

BeginVisit ==
  /\ AtRest /\ visit = Closed
  /\ visit' = Started(committed, committed)
  /\ UNCHANGED <<serviceVars, charts, today, latest, edits>>

RevertChanges ==
  /\ Visiting
  /\ visit' = Started(visit.baseline, visit.baseline)
  /\ UNCHANGED <<serviceVars, charts, today, latest, edits>>

EndVisit ==
  /\ Visiting
  /\ visit' = Closed
  /\ UNCHANGED <<serviceVars, charts, today, latest, edits>>

Edited(working, raw) ==
  /\ Visiting
  /\ <<working, raw>> # <<visit.working, visit.raw>>
  /\ edits < MaxEdits
  /\ edits' = edits + 1
  /\ UNCHANGED <<serviceVars, charts, today, latest>>

\* draftChanged: the list of a refused save goes when nothing is wrong any more.
DraftChanged(g, p, raw) ==
  LET working == [visit.working EXCEPT !.graphs[g] = p]
      v == Revalidated([visit EXCEPT !.working = working, !.raw = raw])
  IN /\ Edited(working, raw)
     /\ visit' = [v EXCEPT !.refused = IF v.draft = {} THEN {} ELSE @]

Draft(g) == visit.working.graphs[g]
Dropped(g, fields) == visit.raw \ ({g} \X fields)

\* A field takes text only while its mode shows it; text that is no value is kept
\* beside the value it did not replace.
SetGraphField(g, f, text) ==
  /\ f \in DOMAIN Draft(g).value
  /\ IF text = Garbled
     THEN DraftChanged(g, Draft(g), visit.raw \cup {<<g, f>>})
     ELSE DraftChanged(g, [Draft(g) EXCEPT !.value[f] = text], Dropped(g, {f}))

\* Mutant: the text of hidden fields stays.
SetGraphRangeKind_KeepsText(g, kind) ==
  /\ Draft(g).range # kind
  /\ DraftChanged(g, Switched(g, Draft(g), kind), visit.raw)

SetGraphRangeKind(g, kind) ==
  /\ Draft(g).range # kind
  /\ DraftChanged(g, Switched(g, Draft(g), kind), Dropped(g, RangeFields))

SetAxisMode(g, mode) ==
  /\ Draft(g).axis # mode
  /\ DraftChanged(g, Switched(g, Draft(g), mode), IF mode = "fixed" THEN visit.raw ELSE Dropped(g, Bounds))

SetGraphAnchor(g) == DraftChanged(g, [Draft(g) EXCEPT !.anchor = ~@], visit.raw)

ClearSeriesOverride(g) ==
  DraftChanged(g, [Draft(g) EXCEPT !.value["width"] = Seed("width")], Dropped(g, {"width"}))

ResetGraph(g) == DraftChanged(g, Default(g), {key \in visit.raw : key[1] # g})

\* Mutant: the label stays where it was.
LinesChanged_KeepsLabel(lines, label) ==
  LET working == [visit.working EXCEPT !.lines = lines, !.label = label]
      v == [visit EXCEPT !.working = working]
  IN /\ Edited(working, visit.raw)
     /\ visit' = [v EXCEPT !.pending = Pending(v)]

\* Lines and label are not validated again: no edit of them can make them wrong.
LinesChanged(lines, label) ==
  LET working == [visit.working EXCEPT !.lines = lines, !.label = Reconciled(lines, label)]
      v == [visit EXCEPT !.working = working]
  IN /\ Edited(working, visit.raw)
     /\ visit' = [v EXCEPT !.pending = Pending(v)]

EditRunSeries(lines) == LinesChanged(lines, visit.working.label)
RestoreDefaultGraphLines == LinesChanged(DefaultLines, NoLabel)
SetRunAxisLabel(label) == LinesChanged(visit.working.lines, label)

\* Save: text that is no value is refused before the service is asked; a refused
\* save is listed; an accepted one returns after everyone has heard of it.
SaveRefused ==
  /\ Visiting
  /\ LET issues == IF visit.raw # {} THEN visit.raw ELSE Issues(visit.working) IN
     /\ issues # {}
     /\ visit' = Revalidated([visit EXCEPT !.refused = issues])
  /\ UNCHANGED <<serviceVars, charts, today, latest, edits>>

SaveAccepted ==
  /\ Visiting
  /\ visit.raw = {} /\ Issues(visit.working) = {}
  /\ Replace(visit.working)
  /\ visit' = [visit EXCEPT !.saving = TRUE]
  /\ UNCHANGED <<charts, today, latest, edits>>

SaveReturns ==
  /\ hears = 0 /\ visit # Closed /\ visit.saving
  /\ visit' = Revalidated([visit EXCEPT !.saving = FALSE, !.baseline = visit.working, !.refused = {}])
  /\ UNCHANGED <<serviceVars, charts, today, latest, edits>>

-----------------------------------------------------------------------------
(* The program.                                                            *)

Init ==
  /\ document \in {Established(doc) : doc \in {NoDocument} \cup Foreign}
  /\ committed = Load(document)
  /\ revision = 1
  /\ queue = <<>>
  /\ hears = 0
  /\ heard = [l \in {Listeners[i] : i \in DOMAIN Listeners} |-> 1]
  /\ today = 0
  /\ latest = 0
  /\ charts = Fresh(committed, latest, today)
  /\ visit = Closed
  /\ edits = 0

\* The program ends, somebody may put another document in place, and it starts again.
Restart(doc) ==
  /\ AtRest
  /\ document' = Established(doc)
  /\ committed' = Load(doc)
  /\ revision' = 1
  /\ queue' = <<>>
  /\ hears' = 0
  /\ heard' = [l \in DOMAIN heard |-> 1]
  /\ charts' = Fresh(Load(doc), latest, today)
  /\ visit' = Closed
  /\ UNCHANGED <<today, latest, edits>>

LineEdit ==
  LET lines == visit.working.lines IN
  \/ lines.nextLine < MaxIds /\ EditRunSeries(CreateLine(lines))
  \/ lines.nextAxis < MaxIds /\ EditRunSeries(CreateAxis(lines))
  \/ \E l \in DOMAIN lines.axisOf :
        \/ EditRunSeries(RemoveLine(lines, l))
        \/ \E a \in lines.axes \cup {0} : EditRunSeries(MoveLine(lines, l, a))
        \/ SetRunAxisLabel(<<"line", l>>)
  \/ \E a \in lines.axes : SetRunAxisLabel(<<"axis", a>>)
  \/ SetRunAxisLabel(NoLabel)
  \/ RestoreDefaultGraphLines

GraphEdit ==
  \E g \in Graphs :
    \/ \E f \in DOMAIN Draft(g).value, text \in Typed \cup {Garbled} : SetGraphField(g, f, text)
    \/ \E kind \in Ranges \cap Offers(g) : SetGraphRangeKind(g, kind)
    \/ \E mode \in AxisModes : SetAxisMode(g, mode)
    \/ SetGraphAnchor(g)
    \/ ClearSeriesOverride(g)
    \/ ResetGraph(g)

QuickChange ==
  \/ \E g \in Graphs, range \in Ranges \ {"customDates"}, count \in Typed : QuickRange(g, range, count)
  \/ \E count \in Typed : QuickWindow(count)

VisitStep ==
  \/ BeginVisit
  \/ RevertChanges
  \/ EndVisit
  \/ visit # Closed /\ (GraphEdit \/ LineEdit)
  \/ SaveRefused
  \/ SaveAccepted
  \/ SaveReturns

Next ==
  \/ Deliver
  \/ \E last \in 0 .. MaxDays : ProfileChanged(last)
  \/ DayChanged
  \/ QuickChange
  \/ VisitStep
  \/ \E doc \in {document} \cup Foreign : Restart(doc)

Spec == Init /\ [][Next]_vars

-----------------------------------------------------------------------------
(* Properties.                                                             *)

\* When nothing is being published, every graph draws the committed preferences, the
\* present profile and, where it follows it, the present day: no callback, cache or
\* nested change leaves one behind.
ChartsCurrent == hears = 0 => charts = Fresh(committed, latest, today)

\* Every listener hears of every revision, one after the other, also when a listener
\* commits again in the middle of a publication.
HeardInOrder ==
  [][revision' >= revision => \A l \in DOMAIN heard : heard'[l] \in {heard[l], heard[l] + 1}]_vars

\* A visit shows an issue exactly while a save would be refused, and each at a field
\* the user can see: no text left in a hidden field blocks saving.
RefusalsExplained ==
  visit # Closed =>
    /\ visit.draft = visit.raw \cup Issues(visit.working)
    /\ \A key \in visit.draft : key[2] \in DOMAIN visit.working.graphs[key[1]].value
    /\ visit.refused # {} => visit.draft # {}

\* A visit counts as unsaved exactly while ending it would lose something: text that is
\* no value, or a difference from what is committed.
PendingExact ==
  visit # Closed /\ AtRest => (visit.pending <=> visit.raw # {} \/ visit.working # committed)

\* What the window says of a visit is true: what is invalid, and whether it is saved.
VisitExact == RefusalsExplained /\ PendingExact

\* A restart restores what is committed, whatever the document was when it was read.
RestartRestores == Load(document) = committed /\ Issues(committed) = {}
=============================================================================
