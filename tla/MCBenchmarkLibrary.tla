------------------------- MODULE MCBenchmarkLibrary -------------------------
(* Instances of BenchmarkLibrary for TLC.                                  *)
EXTENDS BenchmarkLibrary

Plain(i) == [id |-> i, name |-> "plain", hashes |-> [e \in {1, 2} |-> "none"]]

\* One benchmark that others put into either file, and a second the user may create.
AuthoredFirst == {Plain(1)}
DraftsBoth == {Plain(1), Plain(2)}

\* The scenario was never played, played in one version, or in two.
NoneOneTwo == {{}, {"h1"}, {"h1", "h2"}}
=============================================================================
