---------------------------- MODULE ClipboardMatrix ----------------------------
(***************************************************************************)
(* How the text a spreadsheet leaves on the clipboard becomes rows of      *)
(* fields (ui/presentation/benchmarks/manager/benchmark_clipboard_matrix). *)
(*                                                                         *)
(* A text is a sequence of pieces: delimiters, quotes and what is between. *)
(* A field is the sequence of its pieces.                                  *)
(***************************************************************************)
EXTENDS Naturals, Sequences, FiniteSets, FiniteSetsExt, SequencesExt

Quote == "\""
LineBreaks == {"\r", "\n"}
Delimiters == {"\t"} \cup LineBreaks

Quotes(text, i, j) == Cardinality({k \in i .. j : text[k] = Quote})

\* The quotes at which a field quoted at i may close: a doubled quote stands for itself.
ClosingQuotes(text, i) ==
  {j \in (i + 1) .. Len(text) : /\ text[j] = Quote /\ Quotes(text, i + 1, j) % 2 = 1
                                /\ j < Len(text) => text[j + 1] # Quote}
ClosingQuote(text, i) == Min(ClosingQuotes(text, i))

\* A leading quote is literal unless it closes at the end of a field that needs quoting.
IsQuoted(text, i) ==
  /\ i <= Len(text) /\ text[i] = Quote /\ ClosingQuotes(text, i) # {}
  /\ LET j == ClosingQuote(text, i) IN
     /\ j < Len(text) => text[j + 1] \in Delimiters
     /\ \E k \in (i + 1) .. (j - 1) : text[k] \in Delimiters \cup {Quote}

\* Where the field at i ends: at a delimiter, or after the text.
FieldEnd(text, i) ==
  IF IsQuoted(text, i) THEN ClosingQuote(text, i) + 1
  ELSE Min({j \in i .. Len(text) : text[j] \in Delimiters} \cup {Len(text) + 1})

\* What it holds: of doubled quotes the first.
FieldText(text, i) ==
  IF IsQuoted(text, i)
  THEN LET Kept(k) == text[k] # Quote \/ Quotes(text, i + 1, k) % 2 = 1
           inside == SetToSortSeq({k \in (i + 1) .. (ClosingQuote(text, i) - 1) : Kept(k)}, <)
       IN [n \in DOMAIN inside |-> text[inside[n]]]
  ELSE SubSeq(text, i, FieldEnd(text, i) - 1)

\* The rows from the field at i on: a tab is followed by a field, the last line break by none.
ParseClipboard(text) ==
  LET rows[i \in 1 .. (Len(text) + 1)] ==
        LET end == FieldEnd(text, i)
            field == <<FieldText(text, i)>>
            next == end + (IF end < Len(text) /\ text[end] = "\r" /\ text[end + 1] = "\n" THEN 2 ELSE 1)
        IN CASE end > Len(text) -> <<field>>
             [] end <= Len(text) /\ text[end] = "\t" -> <<field \o Head(rows[end + 1])>> \o Tail(rows[end + 1])
             [] OTHER -> <<field>> \o (IF next > Len(text) THEN <<>> ELSE rows[next])
  IN IF text = <<>> THEN <<>> ELSE rows[1]

Width(matrix) == Max({Len(matrix[r]) : r \in DOMAIN matrix})
=============================================================================
