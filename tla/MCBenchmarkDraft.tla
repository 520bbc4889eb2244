--------------------------- MODULE MCBenchmarkDraft ---------------------------
(* Values for BenchmarkDraft: the benchmarks that may be opened and what    *)
(* may be pasted.                                                          *)
EXTENDS BenchmarkDraft

Scenario(id, name, hashes, score) ==
  [id |-> id, name |-> name, hashes |-> hashes, thresholds |-> <<[tierId |-> 1, score |-> score]>>]

\* A file of the library.  Beside an uncategorized scenario, a category that was stored with a
\* scenario of its own and a subcategory, which is empty.
Stored ==
  [schemaVersion |-> 2, id |-> Self, name |-> "a", tiers |-> <<[id |-> 1, name |-> "a"]>>,
   uncategorized |-> <<Scenario(3, "a", <<"g", "h">>, 5)>>,
   categories |-> <<[id |-> 5, name |-> "a",
                     scenarios |-> <<Scenario(4, "b", <<>>, 9)>>,
                     subcategories |-> <<[id |-> 6, name |-> "b", scenarios |-> <<>>]>>]>>]

\* The first version had one hash, or null.
Older(hash) ==
  [Stored EXCEPT !.schemaVersion = 1, !.categories = <<>>,
                 !.uncategorized = <<[id |-> 3, name |-> "a", hash |-> hash, thresholds |-> <<>>]>>]
ASSUME OlderAssumption == \A hash \in {"g", Blank, Null} :
  {b.uncategorized[1].hashes : b \in ClassifyBytes(Older(hash)).loaded}
    = {IF hash = "g" THEN <<"g">> ELSE <<>>}

\* Files that were damaged: newer, with an id twice, a tier that is gone, a score that was none,
\* the keys of another version, a hash twice or without text, a list that is none.
Damaged ==
  {[Stored EXCEPT !.schemaVersion = 3], [Stored EXCEPT !.schemaVersion = 0],
   [Stored EXCEPT !.schemaVersion = 1], [Stored EXCEPT !.tiers[1].id = 5], [Stored EXCEPT !.tiers = <<>>],
   [Stored EXCEPT !.uncategorized[1].thresholds[1].score = Null],
   [Stored EXCEPT !.uncategorized[1].hashes = <<"g", "g">>], Older(Malformed),
   [Stored EXCEPT !.categories[1].subcategories[1].scenarios = Malformed],
   Null, [name |-> "a"]}
ASSUME DamagedAssumption == \A file \in Damaged : ClassifyBytes(file).loaded = {}

MCSeeds == UNION {ClassifyBytes(file).loaded : file \in {Stored} \cup Damaged}
MCPlaylists == {[name |-> "a", scenarios |-> <<"a">>]}
MCNames == {""}
MCNewNames == {"b"}
MCTexts == {"", "7", "junk"}
MCScoreOf == "7" :> 7

\* A spreadsheet ends each row with a line break, and quotes a cell that holds a delimiter or a quote.
Copied(sheet) ==
  LET Escaped(text) == FlattenSeq([k \in DOMAIN text |-> IF text[k] = Quote THEN <<Quote, Quote>> ELSE <<text[k]>>])
      Quoted(text) == IF Delimiters \intersect ToSet(text) = {} THEN text ELSE <<Quote>> \o Escaped(text) \o <<Quote>>
      Row(row) == FlattenSeq([c \in DOMAIN row |-> (IF c = 1 THEN <<>> ELSE <<"\t">>) \o Quoted(row[c])])
  IN FlattenSeq([r \in DOMAIN sheet |-> Row(sheet[r]) \o <<"\r", "\n">>])

\* Cells that are empty, hold delimiters or quotes, or begin or end with a quote.
Plain == {<<>>, <<"b">>}
Strays == {<<Quote, "b">>, <<Quote, "b", Quote>>}
Cells == Plain \cup Strays \cup {<<"\t", Quote>>, <<Quote, "\r", "\n">>, <<"b", Quote>>}

\* What is copied is what is pasted: each cell is one field, and none beside them.  Of cells that
\* begin with a quote and do not need quoting this holds where no quote follows.
Sheets ==
  LET triples == {t \in Cells \X Cells \X Cells : \A i, j \in 1 .. 3 : i < j /\ t[i] \in Strays => t[j] \in Plain}
  IN UNION {{<< <<t[1], t[2], t[3]>> >>, << <<t[1]>>, <<t[2], t[3]>> >>, << <<t[1]>>, <<t[2]>>, <<t[3]>> >>} : t \in triples}
ASSUME CopyAssumption ==
  \A sheet \in Sheets : /\ ParseClipboard(Copied(sheet)) = sheet
                        /\ Width(ParseClipboard(Copied(sheet))) = Max({Len(row) : row \in ToSet(sheet)})

\* Where one follows, two cells become one.
ASSUME StrayAssumption ==
  ParseClipboard(Copied(<< << <<Quote, "b">>, <<"b", Quote>> >> >>)) = << << <<"b", "\t", "b">> >> >>

\* The last line break may be missing, and a text may be none.
MCClips == {<<>>, <<"b", "\t", Quote, "junk", Quote, "\n", "7", "\r", "\n">>, Copied(<< << <<"b">> >> >>)}
\* The profile spells the name in capitals.
MCCatalogues == {[n \in {"B"} |-> {"i"}]}
MCNameKey(n) == IF n = "B" THEN "b" ELSE n
=============================================================================
