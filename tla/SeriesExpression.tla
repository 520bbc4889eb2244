-------------------------- MODULE SeriesExpression --------------------------
(***************************************************************************)
(* Expressions of a graph line, their text and the rules they have to      *)
(* satisfy (app/contracts: series_config, expression_dsl; and the objects  *)
(* earlier documents held, qt_data/series_config_codec).                   *)
(*                                                                         *)
(* An expression is a kind, its parameter and its inputs.  A text is the   *)
(* sequence of its words and numbers: letter case and white space, which   *)
(* the parser drops, are left out.  What may fail yields a set, empty when *)
(* the code answers nullopt.                                               *)
(***************************************************************************)
EXTENDS Integers, Sequences, FiniteSets, SequencesExt

CONSTANTS None,                      \* no expression (a blank line), no parameter
          NonFinite,                 \* a number that is infinite or none at all
          MaximumExpressionDepth, MaximumExpressionNodes

Metrics == {"score", "shots", "hits", "kills", "dmg"}
FinalStats == Metrics \cup {"misses"}
Binary == {"add", "subtract", "multiply", "divide"}
Unary == {"runningSum", "projectedFinalValue", "projectRateToFinal", "bestRun"}
Leaves == {"primitive", "constant", "final"}
Kinds == Binary \cup Unary \cup Leaves \cup {"rollingMean", "averageAcrossRuns"}

Expression(kind, parameter, inputs) == <<kind, parameter, inputs>>
Kind(e) == e[1]
Parameter(e) == e[2]
Inputs(e) == e[3]
RecentRuns(count) == <<"recentRuns", count>>
TopPercentile(percent) == <<"topPercentile", percent>>

-----------------------------------------------------------------------------
(* The text.                                                               *)

Word(w) == <<"word", w>>
Number(n) == <<"number", n>>
Mark(s) == Word(s)

EncodeSelection(selection) ==
  IF selection[1] = "recentRuns" THEN <<Word("recent"), Number(selection[2])>>
  ELSE <<Word("top"), Number(selection[2]), Mark("%")>>

RECURSIVE EncodeExpressionDsl(_)
Call(kind, label, inputs) ==
  LET texts == [i \in DOMAIN inputs |-> (IF i = 1 THEN <<>> ELSE <<Mark(",")>>) \o EncodeExpressionDsl(inputs[i])]
  IN <<Word(kind), Mark("(")>> \o label \o FlattenSeq(texts) \o <<Mark(")")>>

EncodeExpressionDsl(e) ==
  IF e = None THEN <<>>
  ELSE CASE Kind(e) = "primitive" -> <<Word(Parameter(e))>>
         [] Kind(e) = "constant" -> <<Number(Parameter(e))>>
         [] Kind(e) = "final" -> <<Word("final"), Mark("("), Word(Parameter(e)), Mark(")")>>
         [] Kind(e) \in Binary \cup Unary -> Call(Kind(e), <<>>, Inputs(e))
         [] Kind(e) = "rollingMean" ->
              Call("rollingMean", <<Word("window"), Mark(":"), Number(Parameter(e)), Mark(",")>>, Inputs(e))
         [] Kind(e) = "averageAcrossRuns" ->
              Call("averageAcrossRuns", <<Word("over"), Mark(":")>> \o EncodeSelection(Parameter(e)) \o <<Mark(",")>>,
                   Inputs(e))

(* The parser: each production yields what it read and the rest.           *)
Read(value, rest) == [value |-> value, rest |-> rest]
Next1(text, Accepts(_)) == IF text # <<>> /\ Accepts(Head(text)) THEN {Read(Head(text)[2], Tail(text))} ELSE {}
Consume(read, mark) == {Read(r.value, Tail(r.rest)) : r \in {q \in read : q.rest # <<>> /\ Head(q.rest) = Mark(mark)}}
ParseWord(text, words) == Next1(text, LAMBDA t : t[1] = "word" /\ t[2] \in words)
ParseDouble(text) == Next1(text, LAMBDA t : t[1] = "number" /\ t[2] # NonFinite)
ParseUint(text) == {r \in ParseDouble(text) : r.value >= 0}

ParseSelection(text) ==
  UNION {IF kind.value = "recent"
         THEN {Read(RecentRuns(r.value), r.rest) : r \in {q \in ParseUint(kind.rest) : q.value # 0}}
         ELSE {Read(TopPercentile(r.value), r.rest) : r \in Consume(ParseDouble(kind.rest), "%")}
         : kind \in ParseWord(text, {"recent", "top"})}
ParseLabel(text, label) == Consume(ParseWord(text, {label}), ":")
ParseWindow(text) ==
  UNION {Consume({q \in ParseUint(label.rest) : q.value # 0}, ",") : label \in ParseLabel(text, "window")}
ParseOver(text) == UNION {Consume(ParseSelection(label.rest), ",") : label \in ParseLabel(text, "over")}

RECURSIVE ParseExpr(_)
\* Mutant: the operands are read in the order of the stack they were put on.
ParseBinary_Swapped(kind, text) ==
  UNION {{Read(Expression(kind, None, <<right.value, left.value>>), right.rest) : right \in ParseExpr(left.rest)}
         : left \in Consume(ParseExpr(text), ",")}
ParseBinary(kind, text) ==
  UNION {{Read(Expression(kind, None, <<left.value, right.value>>), right.rest) : right \in ParseExpr(left.rest)}
         : left \in Consume(ParseExpr(text), ",")}
ParseUnary(kind, text) == {Read(Expression(kind, None, <<input.value>>), input.rest) : input \in ParseExpr(text)}
ParseParameterised(kind, parameters) ==
  UNION {{Read(Expression(kind, p.value, <<input.value>>), input.rest) : input \in ParseExpr(p.rest)} : p \in parameters}
ParseFinal(text) == {Read(Expression("final", stat.value, <<>>), stat.rest) : stat \in ParseWord(text, FinalStats)}
ParseCall(kind, text) ==
  Consume(CASE kind \in Binary -> ParseBinary(kind, text)
            [] kind \in Unary -> ParseUnary(kind, text)
            [] kind = "final" -> ParseFinal(text)
            [] kind = "rollingMean" -> ParseParameterised(kind, ParseWindow(text))
            [] kind = "averageAcrossRuns" -> ParseParameterised(kind, ParseOver(text))
            [] OTHER -> {}, ")")
ParseExpr(text) ==
  IF text = <<>> THEN {}
  ELSE IF Head(text)[1] = "number" THEN {Read(Expression("constant", r.value, <<>>), r.rest) : r \in ParseDouble(text)}
  ELSE IF Len(text) > 1 /\ text[2] = Mark("(") THEN ParseCall(Head(text)[2], SubSeq(text, 3, Len(text)))
  ELSE {Read(Expression("primitive", w.value, <<>>), w.rest) : w \in ParseWord(text, Metrics)}

ParseComplete(text) == {r.value : r \in {q \in ParseExpr(text) : q.rest = <<>>}}
DecodeExpressionDsl(text) == IF text = <<>> THEN {None} ELSE ParseComplete(text)

-----------------------------------------------------------------------------
(* The object an expression was before documents held its text: it has the *)
(* shape of the expression, but any of its parts may be no such thing.     *)

ObjectKinds == Binary \cup (Unary \ {"bestRun"}) \cup {"primitive", "constant", "rollingMean", "averageAcrossRuns"}

RECURSIVE Decodable(_)
Decodable(object) ==
  /\ object # None
  /\ Kind(object) \in ObjectKinds
  /\ CASE Kind(object) = "primitive" -> Parameter(object) \in Metrics
       [] Kind(object) \in {"constant", "rollingMean"} -> Parameter(object) # NonFinite
       [] Kind(object) = "averageAcrossRuns" -> Parameter(object)[2] # NonFinite
       [] OTHER -> TRUE
  /\ \A i \in DOMAIN Inputs(object) : Decodable(Inputs(object)[i])

DecodeObject(object) == IF object = None \/ Decodable(object) THEN {object} ELSE {}

-----------------------------------------------------------------------------
(* What an expression has to satisfy to be kept.                           *)

ParameterValid(kind, parameter) ==
  CASE kind = "primitive" -> parameter \in Metrics
    [] kind = "final" -> parameter \in FinalStats
    [] kind = "constant" -> parameter # NonFinite
    [] kind = "rollingMean" -> parameter # 0
    [] kind = "averageAcrossRuns" /\ parameter[1] = "recentRuns" -> parameter[2] # 0
    [] kind = "averageAcrossRuns" /\ parameter[1] = "topPercentile" ->
         parameter[2] # NonFinite /\ parameter[2] > 0 /\ parameter[2] <= 100
    [] OTHER -> TRUE

RECURSIVE Depth(_), Nodes(_), WellFormed(_)
Depth(e) == IF e = None THEN 0 ELSE 1 + FoldSeq(LAMBDA i, d : IF Depth(i) > d THEN Depth(i) ELSE d, 0, Inputs(e))
Nodes(e) == IF e = None THEN 0 ELSE 1 + FoldSeq(LAMBDA i, n : Nodes(i) + n, 0, Inputs(e))
WellFormed(e) ==
  e # None /\ ParameterValid(Kind(e), Parameter(e)) /\ \A i \in DOMAIN Inputs(e) : WellFormed(Inputs(e)[i])

ExpressionValid(e) ==
  e # None => WellFormed(e) /\ Depth(e) <= MaximumExpressionDepth /\ Nodes(e) <= MaximumExpressionNodes
=============================================================================
