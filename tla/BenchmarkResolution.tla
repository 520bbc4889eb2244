------------------------- MODULE BenchmarkResolution -------------------------
(***************************************************************************)
(* Joining the entries of a benchmark with what the profile knows          *)
(* (app/usecases/benchmark_resolution_use_case): a catalogue gives for a   *)
(* name the hashes recorded under it.  Names that differ in capitals or in *)
(* the blanks around them are one name, and a mapping that nobody has to   *)
(* choose brings the spelling of the catalogue along.                      *)
(***************************************************************************)
EXTENDS BenchmarkEditor

CONSTANT NameKey(_)  \* scenarioNameKey: what is left of a name when it is compared

Candidates(k, e) ==
  UNION {{[hash |-> h, name |-> n] : h \in k[n]} : n \in {m \in DOMAIN k : NameKey(m) = NameKey(e.name)}}
Mapping(k, e) ==
  IF e.hashes # <<>>
  THEN IF \E n \in DOMAIN k : k[n] \cap ToSet(e.hashes) # {} THEN "resolved" ELSE "mappedUnavailable"
  ELSE CASE Cardinality(Candidates(k, e)) = 0 -> "unresolved"
         [] Cardinality(Candidates(k, e)) = 1 -> "autoMappable"
         [] OTHER -> "ambiguous"

\* An unmapped entry that needs no choice, and what it would be mapped to.
Settled(k, e) == e.hashes = <<>> /\ Cardinality(Candidates(k, e)) = 1
Only(k, e) == CHOOSE c \in Candidates(k, e) : TRUE

\* Mutant: the entry keeps its own spelling of the name.
Linked_OwnName(k, e) == [e EXCEPT !.hashes = <<Only(k, e).hash>>]

Linked(k, e) == [e EXCEPT !.hashes = <<Only(k, e).hash>>, !.name = Only(k, e).name]

\* The first of them takes its only candidate, unless an entry already has that hash.
AutoMapped(k, b) ==
  MapEntries(b, LAMBDA e :
    IF /\ Settled(k, e) /\ Only(k, e).hash \notin Hashes(b)
       /\ \A i \in 1..(PositionOf(Entries(b), e.id) - 1) :
            Settled(k, Entries(b)[i]) => Only(k, Entries(b)[i]).hash # Only(k, e).hash
    THEN Linked(k, e) ELSE e)

Resolve(k, b) ==
  [i \in DOMAIN Entries(b) |->
    [entry |-> Entries(b)[i].id, state |-> Mapping(k, Entries(b)[i]), hashes |-> Entries(b)[i].hashes]]
=============================================================================
