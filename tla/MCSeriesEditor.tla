---------------------------- MODULE MCSeriesEditor ----------------------------
(* Model values for SeriesEditor: stored documents of several versions.     *)
EXTENDS SeriesEditor

StoredLine(id, position, e) ==
  [id |-> id, name |-> "line", width |-> 6, enabled |-> TRUE, position |-> position, expression |-> e]
OnAxis(line, axis) ==
  [f \in DOMAIN line \cup {"axis", "transform"} |->
     CASE f = "axis" -> axis [] f = "transform" -> "identity" [] OTHER -> line[f]]
HidingPoints(line, count) == [f \in DOMAIN line \cup {"hidden"} |-> IF f = "hidden" THEN count ELSE line[f]]

Difference == Expression("subtract", None, <<Metric("score"), Expression("constant", 3, <<>>)>>)
Best == Of("bestRun", Expression("final", "hits", <<>>))
Axis == AxisConfig(1, "Accuracy", "percentage")

\* The first version: objects, ids with a meaning, no axes.
OfVersion1 == [version |-> 1, nextSeries |-> 10,
               series |-> <<StoredLine(9, 0, None), StoredLine(2, 1, Difference)>>]

\* Objects and axes; the difference of averages over two selections.
OfVersion2 ==
  [version |-> 2, nextSeries |-> 2, nextAxis |-> 2, axes |-> <<Axis>>,
   series |-> <<OnAxis(StoredLine(1, 0, AverageAcrossRuns(Difference, TopPercentile(10))), 1)>>]

\* Texts.
OfVersion4 ==
  [version |-> 4, nextSeries |-> 4, nextAxis |-> 2, axes |-> <<Axis>>,
   series |-> <<OnAxis(StoredLine(3, 0, EncodeExpressionDsl(Best)), None)>>]

\* An object where kinds of later versions have no place; a line on an axis that is not there;
\* an id that would be handed out again.
Later == [OfVersion2 EXCEPT !.series[1].expression = Best]
OffAxis == [OfVersion4 EXCEPT !.series[1].axis = 5]
Reused ==
  [version |-> 6, nextSeries |-> 1, nextAxis |-> 2, axes |-> <<Axis>>,
   series |-> <<HidingPoints(OfVersion4.series[1], 1)>>]

\* Axes that span nothing, or are scaled in a way there is none.
Unscaled == {[OfVersion4 EXCEPT !.axes[1].options = ValueAxisOptions("hugData", FALSE, 10, 0)],
             [OfVersion4 EXCEPT !.axes[1].options = ValueAxisOptions("log", TRUE, 10, 1)]}

MCDocuments == {OfVersion1, OfVersion2, OfVersion4, Later, OffAxis, Reused, NoDocument, Unreadable} \cup Unscaled
MCTyped == [kind \in Kinds |->
  CASE kind = "primitive" -> {"hits"} [] kind = "constant" -> {2} [] kind = "final" -> {"misses"}
    [] kind = "rollingMean" -> {1} [] kind = "averageAcrossRuns" -> {RecentRuns(7)} [] OTHER -> {}]

\* An expression that is too deep to be kept, another that asks for too
\* much, and half an expression.
Deep == Of("bestRun", Of("runningSum", Of("runningSum", Of("runningSum", Metric("dmg")))))
TooMuch == AverageAcrossRuns(Metric("score"), TopPercentile(150))
MCForeignTexts == {EncodeExpressionDsl(Deep), EncodeExpressionDsl(TooMuch),
                   Tail(EncodeExpressionDsl(Difference))}
=============================================================================
