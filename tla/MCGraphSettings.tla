---------------------------- MODULE MCGraphSettings ----------------------------
(* Model values for GraphSettings: the documents that may be found.        *)
EXTENDS GraphSettings

Document(graphs, lines, label) == [graphs |-> graphs, lines |-> lines, label |-> label]

\* Before version 4: lines only.
OfVersion3 == Document([g \in Graphs |-> Missing], DefaultLines, Missing)

\* Version 4 or 5, where the label is a line: one graph with reversed dates, another that
\* does not decode, and a line on an axis that is not there.
Reversed ==
  LET p == Switched("dailyPlaytime", Default("dailyPlaytime"), "customDates")
  IN [p EXCEPT !.value["startDate"] = 2, !.value["endDate"] = 1]
Damaged ==
  Document([g \in Graphs |-> IF g = "dailyPlaytime" THEN Reversed ELSE Bad],
           MoveLine(DefaultLines, 2, 5), <<"line", 1>>)

MCForeign == {Unreadable, OfVersion3, Damaged}
MCLegacyLabel == <<"line", 2>>
=============================================================================
