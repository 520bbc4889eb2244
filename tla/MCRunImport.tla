----------------------------- MODULE MCRunImport -----------------------------
(* Model values for RunImport and RunFiles: three sets of source files, with *)
(* what was played and what the files therefore hold.                       *)
EXTENDS RunFiles

CONSTANTS pA, cA, pB, cB, cC, s1, s2, night, other, stray

\* Evening and morning: `night` goes over midnight, in a game that told no pauses; `other`
\* was paused; `stray` ended before it began, once its end is cut to the second.
Midnight == 2 * Day
MCPlayed ==
  night :> [scenario |-> s1, begin |-> Midnight - 9852, end |-> Midnight + 50300,
           paused |-> 0, old |-> TRUE]
    @@ other :> [scenario |-> s1, begin |-> Midnight + 70148, end |-> Midnight + 135000,
                 paused |-> 5000, old |-> FALSE]
    @@ stray :> [scenario |-> s2, begin |-> Midnight - 9800, end |-> Midnight - 9100,
                 paused |-> 0, old |-> FALSE]
MCLeftovers == {0, 7000}

\* A footer behind a kill, the weapons and a blank line; the key of a kill is no footer.
Lines(d) ==
  LET line(key, value) == [key |-> key, colon |-> TRUE, value |-> value]
      head == <<line("Score", Junk), [key |-> "Weapon", colon |-> FALSE, value |-> Junk], Blank,
                line("Kills", 3), line("Hit Count", 3), line("Miss Count", 1), line("Score", 9),
                line("Scenario", Played[d].scenario), line("Hash", Played[d].scenario), Blank,
                line("Challenge Start", TimeOfDay(Played[d].begin))>> IN
  IF Played[d].old THEN head ELSE Append(head, line("Pause Duration", Played[d].paused))

\* While the game writes, the lines of the footer are missing from some point on.
ASSUME PartialAssumption == \A d \in DOMAIN Played :
  ParsesFile(Lines(d)) /\ \A n \in 0 .. 10 : ~ ParsesFile(SubSeq(Lines(d), 1, n))

CsvWith(group, stamp, d, pause) ==
  CsvInfo(group, Field(Lines(d), "Hash"), stamp, Field(Lines(d), "Challenge Start"), d, pause)
Csv(group, d, pause) == CsvWith(group, Stamp(Played[d]), d, pause)

\* The stamp of a performance is taken a moment after the challenge began.
Perf(group, d) ==
  PerfInfo(group, Played[d].scenario, Played[d].begin + 200, Played[d].end - Played[d].begin, d)

\* One recording and a copy of it below a second root, read with another leftover.
Copied(pause) ==
  pA :> Perf(1, night) @@ cA :> Csv(1, night, pause) @@ pB :> Perf(2, night) @@ cB :> Csv(2, night, 0)

\* Another recording under the identity of the first, paired with a CSV of another
\* scenario.
Clashing ==
  pA :> Perf(1, night) @@ cA :> Csv(1, night, 0)
    @@ pB :> [Perf(2, night) EXCEPT !.data = other] @@ cB :> Csv(2, stray, Played[stray].paused)

\* A CSV whose name tells no time, beside a later recording of the same scenario.
Nameless ==
  pA :> Perf(1, night) @@ cC :> CsvWith(1, NoStamp, night, 0)
    @@ pB :> Perf(2, other) @@ cB :> Csv(2, other, Played[other].paused)

Sets == {Clashing, Nameless} \cup {Copied(pause) : pause \in Pauses(Lines(night))}
=============================================================================
