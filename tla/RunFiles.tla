------------------------------- MODULE RunFiles -------------------------------
(***************************************************************************)
(* What the files of a run tell (data/formats/csv/run_filename.cpp,        *)
(* stats_csv_parser.cpp, data/run_ingestor.cpp): the importer of RunImport *)
(* takes a file's scenario, start and length from here.                    *)
(*                                                                         *)
(* A CSV does not say when its run started.  Its name has the second in    *)
(* which the run ended, its footer the time of day at which it began; the  *)
(* day, and whether midnight lay between, is concluded from the two.       *)
(* Times are milliseconds since midnight of day 0.                         *)
(***************************************************************************)
EXTENDS RunImport, Integers

CONSTANTS
  Played,     \* the recordings: scenario, begin, end, time paused, and whether the game was an
              \* old one, whose CSVs have no pauses
  Junk,       \* bound: a text that is no number and no time
  Leftovers   \* bound: what an uninitialized duration may hold

Second == 1000
Day == 24 * 60 * 60 * Second

-----------------------------------------------------------------------------
(* The footer of a CSV: ParsedStatsCsv.                                     *)

\* A line is blank, or a key, whether a colon ends it, and a value.
Blank == [key |-> "", colon |-> FALSE, value |-> ""]

\* Only lines from the first colon on that follows a blank line: what precedes are the
\* kills and the summary of the weapons, which may bear a key of the footer.
Footer(lines) ==
  {i \in DOMAIN lines :
     /\ lines[i] # Blank
     /\ \E j \in 1 .. i : lines[j].colon /\ \E b \in 1 .. j - 1 : lines[b] = Blank}

Bearing(lines, key) == {i \in Footer(lines) : lines[i].key = key}

\* The last line that bears a key counts.
Field(lines, key) == lines[CHOOSE i \in Bearing(lines, key) : \A j \in Bearing(lines, key) : j <= i].value

Required == {"Scenario", "Hash", "Challenge Start", "Score", "Hit Count", "Miss Count", "Kills"}
Texts == {"Scenario", "Hash"}

\* At most three digits behind the seconds, fewer stand for tenths and hundredths.
Milliseconds(digits) ==
  LET digit(k) == IF k <= Len(digits) THEN digits[k] ELSE 0 IN
  100 * digit(1) + 10 * digit(2) + digit(3)

IsTimeOfDay(value) ==
  value # Junk /\ value.hour \in 0 .. 23 /\ value.minute \in 0 .. 59 /\ value.second \in 0 .. 59

ParseTimeOfDay(value) ==
  ((value.hour * 60 + value.minute) * 60 + value.second) * Second + Milliseconds(value.digits)

\* A text must be there and not empty; a number that is none refuses the file wherever it stands.
ParsesFile(lines) ==
  /\ \A key \in Required : Bearing(lines, key) # {}
  /\ \A key \in Texts : Field(lines, key) # ""
  /\ \A i \in Bearing(lines, "Challenge Start") : IsTimeOfDay(lines[i].value)
  /\ \A key \in Required \ Texts : \A i \in Bearing(lines, key) : lines[i].value # Junk

\* Older files have no pauses; parsed.pause_duration then is whatever was on the stack.
Pauses(lines) ==
  LET told == {i \in Bearing(lines, "Pause Duration") : lines[i].value # Junk} IN
  IF told = {} THEN Leftovers
  ELSE {lines[CHOOSE i \in told : \A j \in told : j <= i].value}

-----------------------------------------------------------------------------
(* The name of a CSV.                                                       *)

NoStamp == [day |-> 0, hour |-> 0, minute |-> 0, second |-> -1]

\* std::mktime, which carries what is too large; clocks do not change at night.
MkTime(stamp) ==
  (((stamp.day * 24 + stamp.hour) * 60 + stamp.minute) * 60 + stamp.second) * Second

\* Mutant: the second that the name leaves out is forgotten.
CrossedMidnight_Strict(start, end) == start > end

\* The end is cut to the second, so a start within the second is no midnight between.
CrossedMidnight(start, end) == start > end + Second

\* From the start's time of day to the end's; not negative.
Span(start, end) ==
  LET last == IF CrossedMidnight(start, end) THEN end + Day ELSE end IN
  IF last < start THEN 0 ELSE last - start

\* The start and length that name and footer give.
DeriveCsvTiming(stamp, start) ==
  LET end == MkTime(stamp)
      span == Span(start, end % Day) IN
  [start |-> end - span, length |-> span]

-----------------------------------------------------------------------------
(* A file's information for the import.                                     *)

\* Mutant: a run was as long as it took.
Unpaused_Ignored(length, pause) == length

Unpaused(length, pause) == IF length < pause THEN 0 ELSE length - pause

\* ingestSibling: what a CSV without a performance makes a run of.
CsvInfo(group, scenario, stamp, challengeStart, data, pause) ==
  LET timing == DeriveCsvTiming(stamp, ParseTimeOfDay(challengeStart)) IN
  [group |-> group, half |-> "csv", scenario |-> scenario, data |-> data,
   start |-> IF stamp = NoStamp THEN NoStart ELSE timing.start,
   length |-> IF stamp = NoStamp THEN 0 ELSE Unpaused(timing.length, pause)]

\* A performance tells all of it.
PerfInfo(group, scenario, start, length, data) ==
  [group |-> group, half |-> "perf", scenario |-> scenario, start |-> start, length |-> length,
   data |-> data]

-----------------------------------------------------------------------------
(* The game.                                                                *)

\* The second in which a recording ended, in its file's name.
Stamp(play) ==
  LET second == play.end \div Second IN
  [day    |-> second \div (24 * 60 * 60),
   hour   |-> (second \div (60 * 60)) % 24,
   minute |-> (second \div 60) % 60,
   second |-> second % 60]

TimeOfDay(time) ==
  LET second == (time % Day) \div Second
      rest == time % Second IN
  [hour   |-> second \div (60 * 60),
   minute |-> (second \div 60) % 60,
   second |-> second % 60,
   digits |-> <<rest \div 100, (rest \div 10) % 10, rest % 10>>]

\* A challenge takes less than a day; the game writes its CSV when it ends.
ASSUME PlayedAssumption == \A d \in DOMAIN Played :
  LET play == Played[d] IN
  /\ play.begin \in Nat /\ play.end \in Nat /\ play.paused \in Nat /\ play.old \in BOOLEAN
  /\ play.begin + play.paused <= play.end
  /\ play.end - play.begin < Day - Second

ASSUME CsvAssumption == \A held \in Infos : \A f \in DOMAIN held :
  held[f].half = "csv" =>
    /\ held[f].data \in DOMAIN Played
    /\ LET play == Played[held[f].data] IN
       \E stamp \in {NoStamp, Stamp(play)} :
       \E pause \in IF play.old THEN Leftovers ELSE {play.paused} :
         held[f] = CsvInfo(held[f].group, held[f].scenario, stamp, TimeOfDay(play.begin),
                           held[f].data, pause)

ASSUME LeftoversAssumption == Leftovers \subseteq Int

-----------------------------------------------------------------------------
(* Property.                                                                *)

\* A recording of which only the CSV arrived is in the profile with the start at which it
\* was played, to the second, over midnight and within one second; and with its length,
\* pauses left out, where its file tells them, whatever was imported before
\* (run_filename.cpp:67, run_ingestor.cpp:74).
PlayedAsTold ==
  \A i \in Positions(profile) :
    LET run == profile.runs[i]
        play == Played[info[run.csv].data] IN
    run.perf = NoSource =>
      /\ play.begin - run.start \in 0 .. Second - 1
      /\ play.old \/ play.end - play.begin - play.paused - run.length \in 0 .. Second - 1

=============================================================================
