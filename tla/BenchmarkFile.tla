----------------------------- MODULE BenchmarkFile -----------------------------
(***************************************************************************)
(* A benchmark as a file of the library (qt_data/benchmark_store.cpp): the *)
(* JSON document that is written, and what reading accepts, which is       *)
(* exactly the keys of its version with values of the right type; one part *)
(* that is not as expected refuses the whole file.                         *)
(*                                                                         *)
(* An object is a record, an array a sequence, 0 the empty id.  As in      *)
(* BenchmarkDefinition a name stands for the name and the colour.  What    *)
(* may be refused yields a set, empty when it is.                          *)
(***************************************************************************)
EXTENDS BenchmarkDefinition

CONSTANTS
  Null,      \* JSON's null
  Malformed  \* any other value of a type that is not expected

SchemaVersion == 2

\* The benchmark's own id, which no edit touches.
Self == -1

IsExpected(value) == value \notin {Null, Malformed}

-----------------------------------------------------------------------------
(* The benchmarks a file can hold, but for what their ids have in common.   *)

IsArray(s) == s \in Seq(ToSet(s))

IsThreshold(t) == t = [tier |-> t.tier, score |-> t.score] /\ IsExpected(t.score) /\ t.score # NonFinite

IsEntry(e) ==
  /\ e = [id |-> e.id, name |-> e.name, hashes |-> e.hashes, thresholds |-> e.thresholds]
  /\ IsExpected(e.name)
  /\ IsArray(e.hashes) /\ IsInjective(e.hashes) /\ \A h \in ToSet(e.hashes) : IsExpected(h) /\ h # Blank
  /\ IsArray(e.thresholds) /\ \A t \in ToSet(e.thresholds) : IsThreshold(t)

IsList(l) == IsArray(l) /\ \A i \in DOMAIN l : IsEntry(l[i])

IsTier(t) == t = [id |-> t.id, name |-> t.name] /\ IsExpected(t.name)

IsSubcategory(s) ==
  s = [id |-> s.id, name |-> s.name, scenarios |-> s.scenarios] /\ IsExpected(s.name) /\ IsList(s.scenarios)

IsCategory(c) ==
  /\ c = [id |-> c.id, name |-> c.name, scenarios |-> c.scenarios, subs |-> c.subs]
  /\ IsExpected(c.name) /\ IsList(c.scenarios)
  /\ IsArray(c.subs) /\ \A s \in DOMAIN c.subs : IsSubcategory(c.subs[s])

IsBenchmark(b) ==
  /\ b = [name |-> b.name, tiers |-> b.tiers, uncategorized |-> b.uncategorized, categories |-> b.categories]
  /\ IsExpected(b.name) /\ IsList(b.uncategorized)
  /\ IsArray(b.tiers) /\ \A t \in DOMAIN b.tiers : IsTier(b.tiers[t])
  /\ IsArray(b.categories) /\ \A c \in DOMAIN b.categories : IsCategory(b.categories[c])

-----------------------------------------------------------------------------
(* Writing: the present version.                                            *)

\* Infinity and NaN have no form in JSON and are written as null.
JsonNumber(score) == IF score = NonFinite THEN Null ELSE score

\* Mutant: only the first of the mapped hashes is written.
EncodeEntry_FirstHash(e) ==
  [id |-> e.id, name |-> e.name, hashes |-> [i \in DOMAIN e.hashes \cap {1} |-> e.hashes[i]],
   thresholds |-> [i \in DOMAIN e.thresholds |->
                     [tierId |-> e.thresholds[i].tier, score |-> JsonNumber(e.thresholds[i].score)]]]

EncodeEntry(e) ==
  [id |-> e.id, name |-> e.name, hashes |-> e.hashes,
   thresholds |-> [i \in DOMAIN e.thresholds |->
                     [tierId |-> e.thresholds[i].tier, score |-> JsonNumber(e.thresholds[i].score)]]]

EncodeEntries(entries) == [i \in DOMAIN entries |-> EncodeEntry(entries[i])]

Encode(b) ==
  [schemaVersion |-> SchemaVersion, id |-> Self, name |-> b.name, tiers |-> b.tiers,
   uncategorized |-> EncodeEntries(b.uncategorized),
   categories |->
     [c \in DOMAIN b.categories |->
        [id |-> b.categories[c].id, name |-> b.categories[c].name,
         scenarios |-> EncodeEntries(b.categories[c].scenarios),
         subcategories |->
           [s \in DOMAIN b.categories[c].subs |->
              [b.categories[c].subs[s] EXCEPT !.scenarios = EncodeEntries(@)]]]]]

-----------------------------------------------------------------------------
(* Reading: this version and the first, which knew one hash at most.        *)

IsId(value) == IsExpected(value) /\ value # 0
ExactKeys(object, keys) == IsExpected(object) /\ DOMAIN object = keys

\* The elements of an array, when every one of them is accepted.
Whole(decoded) ==
  IF {} \in ToSet(decoded) THEN {} ELSE {[i \in DOMAIN decoded |-> CHOOSE x \in decoded[i] : TRUE]}

DecodeThreshold(o) ==
  IF ExactKeys(o, {"tierId", "score"}) /\ IsExpected(o.score) /\ IsId(o.tierId)
  THEN {[tier |-> o.tierId, score |-> o.score]} ELSE {}

DecodeHashes(o, version) ==
  IF version = 1
  THEN CASE o.hash \in {Null, Blank} -> {<<>>}
         [] o.hash = Malformed -> {}
         [] OTHER -> {<<o.hash>>}
  ELSE IF /\ IsExpected(o.hashes)
          /\ \A i \in DOMAIN o.hashes : IsExpected(o.hashes[i]) /\ o.hashes[i] # Blank
          /\ IsInjective(o.hashes)
       THEN {o.hashes} ELSE {}

DecodeEntry(o, version) ==
  IF /\ ExactKeys(o, {"id", "name", "thresholds", IF version = 1 THEN "hash" ELSE "hashes"})
     /\ IsExpected(o.name) /\ IsExpected(o.thresholds) /\ IsId(o.id)
  THEN {[id |-> o.id, name |-> o.name, hashes |-> hashes, thresholds |-> thresholds] :
          hashes \in DecodeHashes(o, version),
          thresholds \in Whole([i \in DOMAIN o.thresholds |-> DecodeThreshold(o.thresholds[i])])}
  ELSE {}

DecodeEntries(array, version) ==
  IF IsExpected(array) THEN Whole([i \in DOMAIN array |-> DecodeEntry(array[i], version)]) ELSE {}

DecodeSubcategory(o, version) ==
  IF ExactKeys(o, {"id", "name", "scenarios"}) /\ IsExpected(o.name) /\ IsId(o.id)
  THEN {[id |-> o.id, name |-> o.name, scenarios |-> scenarios] :
          scenarios \in DecodeEntries(o.scenarios, version)}
  ELSE {}

DecodeCategory(o, version) ==
  IF /\ ExactKeys(o, {"id", "name", "scenarios", "subcategories"})
     /\ IsExpected(o.name) /\ IsExpected(o.subcategories) /\ IsId(o.id)
  THEN {[id |-> o.id, name |-> o.name, scenarios |-> scenarios, subs |-> subs] :
          scenarios \in DecodeEntries(o.scenarios, version),
          subs \in Whole([s \in DOMAIN o.subcategories |-> DecodeSubcategory(o.subcategories[s], version)])}
  ELSE {}

DecodeTier(o) ==
  IF ExactKeys(o, {"id", "name"}) /\ IsExpected(o.name) /\ IsId(o.id) THEN {o} ELSE {}

DecodeStructure(root, version) ==
  IF /\ ExactKeys(root, {"schemaVersion", "id", "name", "tiers", "uncategorized", "categories"})
     /\ IsExpected(root.name) /\ IsExpected(root.tiers) /\ IsExpected(root.categories) /\ IsId(root.id)
  THEN {[name |-> root.name, tiers |-> tiers, uncategorized |-> uncategorized, categories |-> categories] :
          tiers \in Whole([t \in DOMAIN root.tiers |-> DecodeTier(root.tiers[t])]),
          uncategorized \in DecodeEntries(root.uncategorized, version),
          categories \in Whole([c \in DOMAIN root.categories |-> DecodeCategory(root.categories[c], version)])}
  ELSE {}

\* What a file is: a benchmark, or a problem that is shown in its place.
ClassifyBytes(root) ==
  LET problem(kind) == [problem |-> kind, loaded |-> {}]
      numbered == IsExpected(root) /\ "schemaVersion" \in DOMAIN root /\ IsExpected(root.schemaVersion)
      read == {b \in DecodeStructure(root, root.schemaVersion) : HasStructuralIntegrity(b)}
  IN CASE ~numbered -> problem("invalid")
       [] numbered /\ root.schemaVersion > SchemaVersion -> problem("unsupported")
       [] numbered /\ root.schemaVersion <= SchemaVersion ->
            IF root.schemaVersion < 1 \/ read = {} THEN problem("invalid")
            ELSE [problem |-> "none", loaded |-> read]
=============================================================================
