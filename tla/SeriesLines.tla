----------------------------- MODULE SeriesLines -----------------------------
(***************************************************************************)
(* The lines of the run graph and their axes as one document: its rules    *)
(* (app/contracts/series_config, graph_configuration), its edits           *)
(* (run_series_editing) and the stored form of this and earlier versions   *)
(* (qt_data/series_config_codec, graph_configuration_codec).               *)
(*                                                                         *)
(* A width counts half pixels.  Colours, which nothing here decides by,    *)
(* are left out.  What may be refused yields a set, empty when it is.      *)
(***************************************************************************)
EXTENDS SeriesExpression

CONSTANTS
  Unnameable,                   \* names that are empty, untrimmed or too long
  MaximumHiddenLeadingPoints,
  MaximumId,                    \* the last id there is
  NoDocument, Unreadable,       \* nothing stored; not a document of ours
  LegacyDisabled                \* columns an earlier version had switched off

Transforms == {"identity", "percentage"}
MinimumLineWidth == 1
MaximumLineWidth == 24

SeriesConfig(id, name, enabled, position, hidden, axis, transform, expression) ==
  [id |-> id, name |-> name, width |-> 6, enabled |-> enabled, position |-> position, hidden |-> hidden,
   axis |-> axis, transform |-> transform, expression |-> expression]

\* How an axis chooses its bounds and ticks.
Baselines == {"zero", "hugData"}
ValueAxisOptions(baseline, integral, ticks, span) ==
  [baseline |-> baseline, integral |-> integral, ticks |-> ticks, span |-> span]
AxisConfig(id, name, transform) ==
  [id |-> id, name |-> name, options |-> ValueAxisOptions("hugData", FALSE, 10, 1), transform |-> transform]

Of(kind, input) == Expression(kind, None, <<input>>)
Metric(metric) == Expression("primitive", metric, <<>>)
Ratio(left, right) == Expression("divide", None, <<left, right>>)
RollingMean(metric) == Expression("rollingMean", 5, <<Metric(metric)>>)
AverageAcrossRuns(input, selection) == Expression("averageAcrossRuns", selection, <<input>>)

DefaultSeriesConfigs ==
  LET total == Of("runningSum", Metric("score"))
      expected == Of("projectRateToFinal", RollingMean("score"))
      accuracy == Ratio(Of("runningSum", Metric("hits")), Of("runningSum", Metric("shots")))
      recent == Ratio(RollingMean("hits"), RollingMean("shots"))
  IN << SeriesConfig(1, "Score", TRUE, 0, 0, 1, "identity", total),
        SeriesConfig(2, "Expected Final Score", TRUE, 1, 1, 1, "identity", expected),
        SeriesConfig(3, "Expected Final (Top 10%)", TRUE, 2, 1, 1, "identity",
                     AverageAcrossRuns(expected, TopPercentile(10))),
        SeriesConfig(4, "Expected Final (Last 10 Runs)", TRUE, 3, 1, 1, "identity",
                     AverageAcrossRuns(expected, RecentRuns(10))),
        SeriesConfig(5, "Accuracy", TRUE, 4, 0, 2, "percentage", accuracy),
        SeriesConfig(6, "Accuracy (5s)", FALSE, 5, 0, 2, "percentage", recent),
        SeriesConfig(7, "Score/s (5s)", FALSE, 6, 0, None, "identity", RollingMean("score")),
        SeriesConfig(8, "Expected Final (Whole Run)", FALSE, 7, 1, 1, "identity", Of("projectedFinalValue", total)) >>

DefaultAxisConfigs == <<AxisConfig(1, "Score", "identity"), AxisConfig(2, "Accuracy", "percentage")>>

IdsOf(configs) == {configs[i].id : i \in DOMAIN configs}
DefaultRunSeriesDocument ==
  [series |-> DefaultSeriesConfigs, nextSeries |-> Max(IdsOf(DefaultSeriesConfigs)) + 1,
   axes |-> DefaultAxisConfigs, nextAxis |-> Max(IdsOf(DefaultAxisConfigs)) + 1]

-----------------------------------------------------------------------------
(* What a document has to satisfy.                                         *)

PresentationValid(line) ==
  /\ line.width # NonFinite /\ line.width \in MinimumLineWidth..MaximumLineWidth
  /\ line.hidden <= MaximumHiddenLeadingPoints
  /\ line.name \notin Unnameable

ConfigValid(line) == PresentationValid(line) /\ line.id # 0 /\ ExpressionValid(line.expression)

SeriesConfigsValid(series) ==
  /\ \A i \in DOMAIN series : ConfigValid(series[i])
  /\ Cardinality(IdsOf(series)) = Len(series)
  /\ {series[i].position : i \in DOMAIN series} = 0..(Len(series) - 1)

\* Ids are handed out upwards, and none is left only when the last one is in use.
AllocatorValid(next, ids) == IF next = None THEN MaximumId \in ids ELSE \A id \in ids : id < next

RunSeriesDocumentValid(document) ==
  /\ SeriesConfigsValid(document.series)
  /\ 0 \notin IdsOf(document.axes)
  /\ Cardinality(IdsOf(document.axes)) = Len(document.axes)
  /\ \A i \in DOMAIN document.series : document.series[i].axis \in IdsOf(document.axes) \cup {None}
  /\ AllocatorValid(document.nextSeries, IdsOf(document.series))
  /\ AllocatorValid(document.nextAxis, IdsOf(document.axes))

\* Two lines are the same when their expressions have the same text.
WithText(line) == [line EXCEPT !.expression = EncodeExpressionDsl(line.expression)]
SameSeriesConfigs(left, right) ==
  Len(left) = Len(right) /\ \A i \in DOMAIN left : WithText(left[i]) = WithText(right[i])
SameDocument(left, right) ==
  /\ SameSeriesConfigs(left.series, right.series)
  /\ left.nextSeries = right.nextSeries /\ left.axes = right.axes /\ left.nextAxis = right.nextAxis

-----------------------------------------------------------------------------
(* Edits.                                                                  *)

Successor(id) == IF id = MaximumId THEN None ELSE id + 1
Install(edited) == IF SeriesConfigsValid(edited.series) THEN {edited} ELSE {}
NormalizedDisplayPositions(series) == [i \in DOMAIN series |-> [series[i] EXCEPT !.position = i - 1]]
IndexOf(document, id) == {i \in DOMAIN document.series : document.series[i].id = id}

CreateComputedSeries(document, name, expression) ==
  LET line == SeriesConfig(document.nextSeries, name, TRUE, Len(document.series), 0, None, "identity", expression)
  IN IF document.nextSeries = None THEN {}
     ELSE Install([document EXCEPT !.series = Append(@, line), !.nextSeries = Successor(@)])

\* The fields of "update" replace those of the line.
UpdateSeries(document, id, update) ==
  IF "axis" \in DOMAIN update /\ update.axis \notin IdsOf(document.axes) \cup {None} THEN {}
  ELSE UNION {Install([document EXCEPT !.series[i] =
                 [f \in DOMAIN @ |-> IF f \in DOMAIN update THEN update[f] ELSE @[f]]]) : i \in IndexOf(document, id)}

RemoveSeries(document, id) ==
  UNION {Install([document EXCEPT !.series = NormalizedDisplayPositions(RemoveAt(@, i))])
         : i \in IndexOf(document, id)}

ReorderSeries(document, id, position) ==
  UNION {Install([document EXCEPT !.series =
           NormalizedDisplayPositions(InsertAt(RemoveAt(@, i), position + 1, @[i]))])
         : i \in {j \in IndexOf(document, id) : position < Len(document.series) /\ j # position + 1}}

CreateAxis(document, name) ==
  IF document.nextAxis = None THEN {}
  ELSE Install([document EXCEPT !.axes = Append(@, AxisConfig(document.nextAxis, name, "identity")),
                                !.nextAxis = Successor(@)])

-----------------------------------------------------------------------------
(* The stored form.  A version says which keys there are and whether an    *)
(* expression is an object or a text.                                      *)

SeriesVersion(version) == IF version >= 5 THEN 4 ELSE IF version = 4 THEN 3 ELSE version

DocumentKeys(version) ==
  {"version", "nextSeries", "series"} \cup IF version > 1 THEN {"axes", "nextAxis"} ELSE {}
LineKeys(version) ==
  {"id", "name", "width", "enabled", "position", "expression"}
    \cup (IF version > 1 THEN {"axis", "transform"} ELSE {})
    \cup (IF version > 3 THEN {"hidden"} ELSE {})

DecodeLine(version, line) ==
  IF \/ DOMAIN line # LineKeys(version)
     \/ line.id = 0
     \/ line.width = NonFinite
     \/ version > 1 /\ (line.axis = 0 \/ line.transform \notin Transforms)
  THEN {}
  ELSE {[id |-> line.id, name |-> line.name, width |-> line.width, enabled |-> line.enabled,
         position |-> line.position, hidden |-> IF version > 3 THEN line.hidden ELSE 0,
         axis |-> IF version > 1 THEN line.axis ELSE None,
         transform |-> IF version > 1 THEN line.transform ELSE "identity", expression |-> e]
        : e \in IF version > 2 THEN DecodeExpressionDsl(line.expression) ELSE DecodeObject(line.expression)}

\* All of the lines or none.
DecodeSeriesArray(version, lines) ==
  LET decoded == [i \in DOMAIN lines |-> DecodeLine(version, lines[i])]
  IN IF \E i \in DOMAIN lines : decoded[i] = {} THEN {}
     ELSE {[i \in DOMAIN lines |-> CHOOSE line \in decoded[i] : TRUE]}

\* The lines a first version had built in get the axes they were drawn on.
MigrateV1ToV2(series, nextSeries) ==
  [series |-> [i \in DOMAIN series |->
     [series[i] EXCEPT !.axis = IF series[i].id \in {7, 8, 9} THEN 2 ELSE None,
                       !.transform = IF series[i].id = 2 THEN "percentage" ELSE "identity"]],
   nextSeries |-> nextSeries,
   axes |-> <<AxisConfig(1, "Accuracy", "percentage"), AxisConfig(2, "Score Family", "identity")>>,
   nextAxis |-> 3]

\* A stored axis says how it scales; one that spans nothing without data is refused.
OptionsDecode(options) ==
  /\ DOMAIN options = {"baseline", "integral", "ticks", "span"}
  /\ options.baseline \in Baselines /\ options.integral \in BOOLEAN
  /\ options.span # NonFinite /\ options.span > 0
AxisDecodes(axis) ==
  /\ DOMAIN axis = {"id", "name", "options", "transform"}
  /\ axis.id # 0 /\ axis.transform \in Transforms
  /\ OptionsDecode(axis.options)
DecodeAxes(axes) == IF \A i \in DOMAIN axes : AxisDecodes(axes[i]) THEN {axes} ELSE {}

DecodeVersionedDocument(version, doc) ==
  {[series |-> series, nextSeries |-> doc.nextSeries, axes |-> axes, nextAxis |-> doc.nextAxis]
   : series \in DecodeSeriesArray(version, doc.series), axes \in DecodeAxes(doc.axes)}

DecodeRunSeries(doc) ==
  LET version == SeriesVersion(doc.version)
      decoded == IF DOMAIN doc # DocumentKeys(version) \/ doc.nextSeries = 0 THEN {}
                 ELSE IF version > 1 THEN IF doc.nextAxis = 0 THEN {} ELSE DecodeVersionedDocument(version, doc)
                 ELSE {MigrateV1ToV2(s, doc.nextSeries)
                       : s \in IF doc.nextSeries = None THEN {} ELSE DecodeSeriesArray(1, doc.series)}
  IN {d \in decoded : RunSeriesDocumentValid(d)}

EncodeRunSeries(document) ==
  [version |-> 6, series |-> [i \in DOMAIN document.series |-> WithText(document.series[i])],
   nextSeries |-> document.nextSeries, axes |-> document.axes, nextAxis |-> document.nextAxis]

\* The default lines that took the place of the columns switched off earlier.
LegacyColumns == [scoreTotal |-> 1, expectedFinalScoreRecent |-> 2, accuracy |-> 5, expectedFinalScore |-> 8]
SeededRunSeries ==
  LET off == {LegacyColumns[key] : key \in LegacyDisabled \cap DOMAIN LegacyColumns}
  IN [DefaultRunSeriesDocument EXCEPT !.series =
        [i \in DOMAIN @ |-> [@[i] EXCEPT !.enabled = @ /\ DefaultSeriesConfigs[i].id \notin off]]]

Decoded(doc) == IF doc \in {NoDocument, Unreadable} THEN {} ELSE DecodeRunSeries(doc)
Load(doc) == IF Decoded(doc) = {} THEN SeededRunSeries ELSE CHOOSE d \in Decoded(doc) : TRUE

\* What could not be used is set aside and written anew.
Established(doc) == IF Decoded(doc) = {} THEN EncodeRunSeries(SeededRunSeries) ELSE doc
=============================================================================
