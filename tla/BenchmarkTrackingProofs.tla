----------------------- MODULE BenchmarkTrackingProofs -----------------------
(***************************************************************************)
(* Proofs about the tracking of a benchmark, for any libraries, runs,      *)
(* ranges, windows and number of changes.                                  *)
(*                                                                         *)
(* What the use case shows is a function of what it is made of (Drawing):  *)
(* the evaluation itself stays a name, since all that matters is that one  *)
(* that is kept is the one that would be made now.  The invariant says     *)
(* that of the cache whenever no listener is left to be called             *)
(* (NothingStale), and that a listener that drops it is the last of those  *)
(* still to be called (CallsInOrder).                                      *)
(***************************************************************************)
EXTENDS BenchmarkTracking, TLAPS

-----------------------------------------------------------------------------
(* What is shown, as a function of what it is made of.                      *)

World == [entries |-> library.entries, runs |-> runs, resolved |-> resolved]

JoinedFor(w, id) == IF id \in DOMAIN w.resolved THEN w.resolved[id] ELSE <<>>
Evaluated(w, loaded) ==
  EvaluateFacts(loaded.content, JoinedFor(w, loaded.id), RunFacts(w.runs, HashesOf(JoinedFor(w, loaded.id))))
EvaluationOf(w, id) == Evaluated(w, FindLoaded(w.entries, id))

ChoicesOf(w, rec) == [f \in DOMAIN w.entries |-> ChoiceFor(w.entries[f], rec)]
NameFor(w, rec, id, name) ==
  IF Claims(ChoicesOf(w, rec), id) = <<>> THEN name ELSE Claims(ChoicesOf(w, rec), id)[1].name

PlaytimeOf(E, cfg, day) == PlaytimeRange(E, RollingPlaytime(E.facts, cfg.window), cfg, day)

Available(w, id) == id # NoId /\ FindLoaded(w.entries, id) # NotFound

\* The snapshot with nothing kept; each chart by the range and the day it was drawn for.
Drawing(w, rec, id, name, rankCfg, rankDay, playCfg, playDay) ==
  LET E == EvaluationOf(w, id)
      empty == [NothingShown EXCEPT !.choices = ChoicesOf(w, rec), !.selected = id]
  IN IF id = NoId THEN empty
     ELSE IF FindLoaded(w.entries, id) = NotFound THEN [empty EXCEPT !.name = name, !.state = "unavailable"]
     ELSE [choices |-> ChoicesOf(w, rec), selected |-> id, name |-> name, state |-> "ready",
           loaded |-> FindLoaded(w.entries, id).content, projection |-> E.projection,
           rank |-> RankRange(E, rankCfg, rankDay), playtime |-> PlaytimeOf(E, playCfg, playDay)]

\* An evaluation that is kept: as it would be made now, with the series of the window it names.
Keeps(ev, E) ==
  /\ ev = [projection |-> E.projection, facts |-> E.facts, latestRunDay |-> E.latestRunDay,
           window |-> ev.window, full |-> ev.full]
  /\ ev.window # 0 => ev.full = RollingPlaytime(E.facts, ev.window)

CacheSound(w, cache) ==
  /\ cache = [id \in DOMAIN cache |-> cache[id]]
  /\ \A id \in DOMAIN cache : FindLoaded(w.entries, id) # NotFound /\ Keeps(cache[id], EvaluationOf(w, id))

\* The fields.
IsTracking(t) ==
  t = [copy |-> t.copy, selected |-> t.selected, name |-> t.name, cache |-> t.cache, snapshot |-> t.snapshot]
IsSnapshot(s) ==
  s = [choices |-> s.choices, selected |-> s.selected, name |-> s.name, state |-> s.state, loaded |-> s.loaded,
       projection |-> s.projection, rank |-> s.rank, playtime |-> s.playtime]
WithRank(s, rank) ==
  [choices |-> s.choices, selected |-> s.selected, name |-> s.name, state |-> s.state, loaded |-> s.loaded,
   projection |-> s.projection, rank |-> rank, playtime |-> s.playtime]
WithPlaytime(s, playtime) ==
  [choices |-> s.choices, selected |-> s.selected, name |-> s.name, state |-> s.state, loaded |-> s.loaded,
   projection |-> s.projection, rank |-> s.rank, playtime |-> playtime]

LEMMA DrawingIsSnapshot ==
  ASSUME NEW w, NEW rec, NEW id, NEW name, NEW rc, NEW rd, NEW pc, NEW pd
  PROVE  IsSnapshot(Drawing(w, rec, id, name, rc, rd, pc, pd))
BY DEF Drawing, IsSnapshot, NothingShown

\* Records field by field.
Snap(a, b, c, d, e, f, g, h) ==
  [choices |-> a, selected |-> b, name |-> c, state |-> d, loaded |-> e, projection |-> f, rank |-> g, playtime |-> h]

Track(a, b, c, d, e) ==
  [copy |-> a, selected |-> b, name |-> c, cache |-> d, snapshot |-> e]

\* What the model computes is that function.
LEMMA EvaluateIs == \A id : Evaluate(FindLoaded(library.entries, id)) = EvaluationOf(World, id)
BY DEF Evaluate, EvaluationOf, Evaluated, World, Resolved, JoinedFor

\* A series is made for a window once, and kept.
LEMMA WindowKeeps ==
  ASSUME NEW ev, NEW E, Keeps(ev, E), NEW cfg, cfg.window # 0
  PROVE  /\ Keeps(WithWindow(ev, cfg), E)
         /\ WithWindow(ev, cfg).full = RollingPlaytime(E.facts, cfg.window)
<1>1. CASE ev.window = cfg.window
  BY <1>1 DEF WithWindow, Keeps
<1>2. CASE ev.window # cfg.window
  <2> DEFINE full == RollingPlaytime(E.facts, cfg.window)
  <2>1. ev.facts = E.facts
    BY DEF Keeps
  <2>2. WithWindow(ev, cfg) = [ev EXCEPT !.window = cfg.window, !.full = full]
    BY <1>2, <2>1 DEF WithWindow
  <2> HIDE DEF full
  <2>3. WithWindow(ev, cfg) = [projection |-> E.projection, facts |-> E.facts, latestRunDay |-> E.latestRunDay,
                               window |-> cfg.window, full |-> full]
    <3>1. PICK a, b : ev = [projection |-> E.projection, facts |-> E.facts, latestRunDay |-> E.latestRunDay,
                            window |-> a, full |-> b]
      BY DEF Keeps
    <3> QED
      BY <2>2, <3>1
  <2> QED
    BY <2>3 DEF Keeps, full
<1> QED
  BY <1>1, <1>2

LEMMA RangesOfKept ==
  ASSUME NEW ev, NEW E, Keeps(ev, E), NEW cfg, NEW day, NEW full
  PROVE  /\ RankRange(ev, cfg, day) = RankRange(E, cfg, day)
         /\ PlaytimeRange(ev, full, cfg, day) = PlaytimeRange(E, full, cfg, day)
<1>1. ev.projection = E.projection /\ ev.latestRunDay = E.latestRunDay
  BY DEF Keeps
<1> QED
  BY <1>1 DEF RankRange, PlaytimeRange

\* Drawing the playtime anew: the other fields stay and the cache stays sound.
PlaytimeDrawn(w, t, n, cfg, day) ==
  /\ IsTracking(n) /\ n.copy = t.copy /\ n.selected = t.selected /\ n.name = t.name
  /\ n.snapshot = WithPlaytime(t.snapshot, PlaytimeOf(EvaluationOf(w, t.selected), cfg, day))
  /\ CacheSound(w, n.cache) /\ DOMAIN n.cache = DOMAIN t.cache

LEMMA PlaytimeAnew ==
  ASSUME NEW w, NEW t, IsTracking(t), IsSnapshot(t.snapshot), CacheSound(w, t.cache),
         t.selected \in DOMAIN t.cache, NEW cfg, cfg.window # 0, NEW day
  PROVE  PlaytimeDrawn(w, t, ApplyPlaytimeView(t, cfg, day), cfg, day)
<1> DEFINE E == EvaluationOf(w, t.selected)
           ev == WithWindow(t.cache[t.selected], cfg)
           p == PlaytimeRange(ev, ev.full, cfg, day)
           cache == [t.cache EXCEPT ![t.selected] = ev]
           n == ApplyPlaytimeView(t, cfg, day)
<1>1. Keeps(ev, E) /\ ev.full = RollingPlaytime(E.facts, cfg.window)
  BY WindowKeeps DEF CacheSound
<1>2. p = PlaytimeOf(E, cfg, day)
  BY <1>1, RangesOfKept DEF PlaytimeOf
<1>3. n = [t EXCEPT !.cache[t.selected] = ev, !.snapshot.playtime = p]
  BY DEF ApplyPlaytimeView, ShowPlaytime
<1> HIDE DEF ev, p, n, E
<1>4. n = [copy |-> t.copy, selected |-> t.selected, name |-> t.name, cache |-> cache,
           snapshot |-> [t.snapshot EXCEPT !.playtime = p]]
  BY <1>3 DEF IsTracking
<1>5. [t.snapshot EXCEPT !.playtime = p] = WithPlaytime(t.snapshot, p)
  BY DEF IsSnapshot, WithPlaytime
<1>6. CacheSound(w, cache) /\ DOMAIN cache = DOMAIN t.cache
  BY <1>1 DEF CacheSound, E
<1> HIDE DEF cache
<1> QED
  BY <1>2, <1>4, <1>5, <1>6 DEF PlaytimeDrawn, IsTracking, E, n

RankDrawn(w, t, n, cfg, day) ==
  /\ IsTracking(n) /\ n.copy = t.copy /\ n.selected = t.selected /\ n.name = t.name /\ n.cache = t.cache
  /\ n.snapshot = WithRank(t.snapshot, RankRange(EvaluationOf(w, t.selected), cfg, day))

LEMMA RankAnew ==
  ASSUME NEW w, NEW t, IsTracking(t), IsSnapshot(t.snapshot), CacheSound(w, t.cache),
         t.selected \in DOMAIN t.cache, NEW cfg, NEW day
  PROVE  RankDrawn(w, t, ApplyRankRange(t, cfg, day), cfg, day)
<1> DEFINE E == EvaluationOf(w, t.selected)
           r == RankRange(t.cache[t.selected], cfg, day)
           n == ApplyRankRange(t, cfg, day)
<1>1. r = RankRange(E, cfg, day)
  <2>1. Keeps(t.cache[t.selected], E)
    BY DEF CacheSound
  <2> QED
    BY <2>1, RangesOfKept
<1>2. n = [t EXCEPT !.snapshot.rank = r]
  BY DEF ApplyRankRange
<1> HIDE DEF r, n, E
<1>3. n = [copy |-> t.copy, selected |-> t.selected, name |-> t.name, cache |-> t.cache,
           snapshot |-> [t.snapshot EXCEPT !.rank = r]]
  BY <1>2 DEF IsTracking
<1>4. [t.snapshot EXCEPT !.rank = r] = WithRank(t.snapshot, r)
  BY DEF IsSnapshot, WithRank
<1> QED
  BY <1>1, <1>3, <1>4 DEF RankDrawn, IsTracking, E, n

-----------------------------------------------------------------------------
(* A refresh shows what would be drawn with nothing kept.                   *)

Refreshed(w, t, n, rec, cfg, day) ==
  /\ IsTracking(n) /\ n.selected = t.selected /\ n.copy = library
  /\ n.name = IF t.selected = NoId THEN t.name ELSE NameFor(w, rec, t.selected, t.name)
  /\ n.snapshot = Drawing(w, rec, t.selected, n.name, cfg, day, cfg, day)
  /\ CacheSound(w, n.cache)
  /\ Available(w, t.selected) => t.selected \in DOMAIN n.cache

LEMMA HeldSound ==
  ASSUME NEW t, CacheSound(World, t.cache)
  PROVE  LET cache == Held(t, FindLoaded(library.entries, t.selected))
         IN /\ CacheSound(World, cache)
            /\ t.selected \in DOMAIN cache <=> FindLoaded(library.entries, t.selected) # NotFound
<1> DEFINE w == World
           loaded == FindLoaded(library.entries, t.selected)
           E == EvaluationOf(w, t.selected)
<1>1. w.entries = library.entries /\ Evaluate(loaded) = E
  BY EvaluateIs DEF World
<1>2. CASE t.selected \in DOMAIN t.cache \/ loaded = NotFound
  BY <1>1, <1>2 DEF Held, CacheSound
<1>3. CASE ~(t.selected \in DOMAIN t.cache \/ loaded = NotFound)
  <2> DEFINE ids == DOMAIN t.cache \cup {t.selected}
  <2>1. Held(t, loaded) = [id \in ids |-> IF id = t.selected THEN E ELSE t.cache[id]]
    BY <1>1, <1>3 DEF Held
  <2>2. Keeps(E, E)
    BY DEF Keeps, EvaluationOf, Evaluated, EvaluateFacts
  <2> HIDE DEF w, loaded, E
  <2> QED
    BY <1>1, <1>3, <2>1, <2>2 DEF CacheSound, w, loaded, E
<1> QED
  BY <1>2, <1>3

Presented(t, n, rec) ==
  /\ IsTracking(n) /\ n.selected = t.selected /\ n.copy = library /\ n.name = t.name
  /\ n.snapshot = Drawing(World, rec, t.selected, t.name, config, today, config, today)
  /\ CacheSound(World, n.cache) /\ DOMAIN n.cache = DOMAIN t.cache

LEMMA PresentShows ==
  ASSUME NEW t, IsTracking(t), CacheSound(World, t.cache), t.copy = library, t.selected # NoId,
         config.window # 0, NEW rec,
         t.selected \in DOMAIN t.cache <=> FindLoaded(library.entries, t.selected) # NotFound
  PROVE  Presented(t, Present(t, FindLoaded(library.entries, t.selected),
                              [NothingShown EXCEPT !.choices = ChoicesOf(World, rec), !.selected = t.selected]), rec)
<1> DEFINE w == World
           loaded == FindLoaded(library.entries, t.selected)
           E == EvaluationOf(w, t.selected)
           empty == [NothingShown EXCEPT !.choices = ChoicesOf(World, rec), !.selected = t.selected]
           n == Present(t, loaded, empty)
<1>1. loaded = FindLoaded(w.entries, t.selected)
  BY DEF World
<1>2. CASE t.selected \notin DOMAIN t.cache
  <2> DEFINE s == [empty EXCEPT !.name = t.name, !.state = "unavailable"]
  <2>1. n = [t EXCEPT !.snapshot = s]
    BY <1>2 DEF Present
  <2>2. s = Drawing(w, rec, t.selected, t.name, config, today, config, today)
    BY <1>1, <1>2 DEF Drawing
  <2> HIDE DEF s, n
  <2>3. n = [copy |-> t.copy, selected |-> t.selected, name |-> t.name, cache |-> t.cache, snapshot |-> s]
    BY <2>1 DEF IsTracking
  <2> QED
    BY <2>2, <2>3 DEF Presented, IsTracking, n
<1>3. CASE t.selected \in DOMAIN t.cache
  <2> DEFINE shown == [empty EXCEPT !.name = t.name, !.state = "ready", !.loaded = loaded.content,
                                    !.projection = t.cache[t.selected].projection]
             t1 == [t EXCEPT !.snapshot = shown]
             t2 == ApplyPlaytimeView(t1, config, today)
  <2>1. n = ApplyRankRange(t2, config, today)
    BY <1>3 DEF Present
  <2>2. t.cache[t.selected].projection = E.projection
    <3>1. Keeps(t.cache[t.selected], E)
      BY <1>3 DEF CacheSound
    <3> QED
      BY <3>1 DEF Keeps
  <2>3. shown = [choices |-> ChoicesOf(w, rec), selected |-> t.selected, name |-> t.name, state |-> "ready",
                 loaded |-> loaded.content, projection |-> E.projection, rank |-> None, playtime |-> None]
    <3>1. NothingShown = Snap(<<>>, NoId, Blank, "noSelection", Broken, None, None, None)
      BY DEF NothingShown, Snap
    <3>2. shown = Snap(ChoicesOf(w, rec), t.selected, t.name, "ready", loaded.content, E.projection, None, None)
      <4> DEFINE s1 == [NothingShown EXCEPT !.choices = ChoicesOf(w, rec)]
                 s2 == [s1 EXCEPT !.selected = t.selected]
                 s3 == [s2 EXCEPT !.name = t.name]
                 s4 == [s3 EXCEPT !.state = "ready"]
                 s5 == [s4 EXCEPT !.loaded = loaded.content]
                 s6 == [s5 EXCEPT !.projection = t.cache[t.selected].projection]
      <4>1. shown = s6
        OBVIOUS
      <4> HIDE DEF loaded, E, shown, s1, s2, s3, s4, s5, s6
      <4>2. s1 = Snap(ChoicesOf(w, rec), NoId, Blank, "noSelection", Broken, None, None, None)
        BY <3>1 DEF s1, Snap
      <4>3. s2 = Snap(ChoicesOf(w, rec), t.selected, Blank, "noSelection", Broken, None, None, None)
        BY <4>2 DEF s2, Snap
      <4>4. s3 = Snap(ChoicesOf(w, rec), t.selected, t.name, "noSelection", Broken, None, None, None)
        BY <4>3 DEF s3, Snap
      <4>5. s4 = Snap(ChoicesOf(w, rec), t.selected, t.name, "ready", Broken, None, None, None)
        BY <4>4 DEF s4, Snap
      <4>6. s5 = Snap(ChoicesOf(w, rec), t.selected, t.name, "ready", loaded.content, None, None, None)
        BY <4>5 DEF s5, Snap
      <4> QED
        BY <2>2, <4>1, <4>6 DEF s6, Snap
    <3> QED
      BY <3>2 DEF Snap
  <2> HIDE DEF shown
  <2>4. t1 = [copy |-> t.copy, selected |-> t.selected, name |-> t.name, cache |-> t.cache, snapshot |-> shown]
    BY DEF IsTracking
  <2> HIDE DEF t1
  <2>5. IsTracking(t1) /\ IsSnapshot(t1.snapshot) /\ CacheSound(w, t1.cache) /\ t1.selected \in DOMAIN t1.cache
    BY <1>3, <2>3, <2>4 DEF IsTracking, IsSnapshot
  <2>6. PlaytimeDrawn(w, t1, t2, config, today)
    BY <2>5, PlaytimeAnew
  <2> HIDE DEF t2
  <2>7. t2.snapshot = WithPlaytime(shown, PlaytimeOf(E, config, today)) /\ t2.selected = t.selected
    BY <2>4, <2>6 DEF PlaytimeDrawn
  <2>8. RankDrawn(w, t2, n, config, today)
    <3>1. IsTracking(t2) /\ IsSnapshot(t2.snapshot) /\ CacheSound(w, t2.cache) /\ t2.selected \in DOMAIN t2.cache
      BY <2>5, <2>6, <2>7 DEF PlaytimeDrawn, IsSnapshot, WithPlaytime
    <3> HIDE DEF n
    <3> QED
      BY <2>1, <3>1, RankAnew
  <2> HIDE DEF n, E
  <2>9. n.snapshot = WithRank(WithPlaytime(shown, PlaytimeOf(E, config, today)), RankRange(E, config, today))
    BY <2>7, <2>8 DEF RankDrawn, E
  <2>10. n.snapshot = Drawing(w, rec, t.selected, t.name, config, today, config, today)
    BY <1>1, <1>3, <2>3, <2>9 DEF Drawing, WithRank, WithPlaytime, E
  <2> QED
    BY <2>4, <2>6, <2>8, <2>10 DEF Presented, RankDrawn, PlaytimeDrawn, n
<1> QED
  BY <1>2, <1>3

LEMMA RefreshShows ==
  ASSUME NEW t, IsTracking(t), CacheSound(World, t.cache),
         t.copy.revision = library.revision => t.copy = library, config.window # 0, NEW rec
  PROVE  Refreshed(World, t, Refresh(t, rec), rec, config, today)
<1> DEFINE w == World
           loaded == FindLoaded(library.entries, t.selected)
           choices == ChoicesOf(w, rec)
           empty == [NothingShown EXCEPT !.choices = choices, !.selected = t.selected]
           n == Refresh(t, rec)
<1>1. n = RefreshWith(t, library, choices, loaded)
  <2>1. n = RefreshFrom(t, library, rec)
    BY DEF Refresh
  <2> QED
    BY <2>1 DEF RefreshFrom, ChoicesOf, World
<1>2. CASE t.selected = NoId
  <2>1. n = [t EXCEPT !.copy = library, !.snapshot = empty]
    BY <1>1, <1>2 DEF RefreshWith
  <2>2. n = [copy |-> library, selected |-> t.selected, name |-> t.name, cache |-> t.cache, snapshot |-> empty]
    BY <2>1 DEF IsTracking
  <2>3. empty = Drawing(w, rec, t.selected, t.name, config, today, config, today)
    BY <1>2 DEF Drawing
  <2> HIDE DEF empty, n
  <2> QED
    BY <1>2, <2>2, <2>3 DEF Refreshed, IsTracking, Available, n
<1>3. CASE t.selected # NoId
  <2> DEFINE name == NameFor(w, rec, t.selected, t.name)
             cache == Held(t, loaded)
             t1 == [t EXCEPT !.copy = library, !.cache = cache, !.name = name]
  <2>1. n = Present(t1, loaded, empty)
    BY <1>1, <1>3 DEF RefreshWith, NameFor
  <2>2. CacheSound(w, cache) /\ (t.selected \in DOMAIN cache <=> loaded # NotFound)
    BY HeldSound
  <2> HIDE DEF cache, name
  <2>3. t1 = [copy |-> library, selected |-> t.selected, name |-> name, cache |-> cache, snapshot |-> t.snapshot]
    <3>1. t = Track(t.copy, t.selected, t.name, t.cache, t.snapshot)
      BY DEF IsTracking, Track
    <3>2. t1 = Track(library, t.selected, name, cache, t.snapshot)
      <4> DEFINE t2 == [t EXCEPT !.copy = library]
                 t3 == [t2 EXCEPT !.cache = cache]
      <4>1. t1 = [t3 EXCEPT !.name = name]
        OBVIOUS
      <4> HIDE DEF t1, t2, t3
      <4>2. t2 = Track(library, t.selected, t.name, t.cache, t.snapshot)
        BY <3>1 DEF t2, Track
      <4>3. t3 = Track(library, t.selected, t.name, cache, t.snapshot)
        BY <4>2 DEF t3, Track
      <4> QED
        BY <4>1, <4>3 DEF Track
    <3> QED
      BY <3>2 DEF Track
  <2> HIDE DEF t1
  <2>4. /\ IsTracking(t1) /\ CacheSound(w, t1.cache) /\ t1.copy = library /\ t1.selected = t.selected
        /\ t1.name = name /\ (t1.selected \in DOMAIN t1.cache <=> loaded # NotFound)
    BY <2>2, <2>3 DEF IsTracking
  <2> HIDE DEF n
  <2>5. Presented(t1, n, rec)
    <3>1. n = Present(t1, FindLoaded(library.entries, t1.selected),
                      [NothingShown EXCEPT !.choices = ChoicesOf(World, rec), !.selected = t1.selected])
      BY <2>1, <2>4
    <3> QED
      BY <1>3, <2>4, <3>1, PresentShows
  <2> QED
    BY <1>3, <2>4, <2>5 DEF Presented, Refreshed, Available, World, name, n
<1> QED
  BY <1>2, <1>3

-----------------------------------------------------------------------------
(* A chart drawn alone is as in a full rebuild.                             *)

\* The parts of the view by the fields they are made of.
RankLineOf(projection, rank, loaded, axis) ==
  RankLine([projection |-> projection, rank |-> rank, loaded |-> loaded], axis)
StateOf(state, choices, projection) ==
  DeriveState([state |-> state, choices |-> choices, projection |-> projection])
GridOf(loaded, projection) == Grid([loaded |-> loaded, projection |-> projection])
UnionOf(projection, extent) == UnionExtent([projection |-> projection, playtime |-> [extent |-> extent]])
RankAxisOf(rank, union) == RankAxis([rank |-> rank], union)
PlaytimeAxisOf(playtime, union) == PlaytimeAxis([playtime |-> playtime], union)
HasRank(projection) == RankPresent([projection |-> projection])
FillsOf(projection, loaded) ==
  IF HasRank(projection) THEN RankChunkFills(projection.rankSum, Len(Entries(loaded)), Len(loaded.tiers)) ELSE <<>>
LineOf(projection, rank, loaded, axis) ==
  IF HasRank(projection) THEN RankLineOf(projection, rank, loaded, axis) ELSE NoLine

LEMMA PartsOf ==
  ASSUME NEW s
  PROVE  /\ RankPresent(s) = HasRank(s.projection)
         /\ \A axis : RankLine(s, axis) = RankLineOf(s.projection, s.rank, s.loaded, axis)
         /\ DeriveState(s) = StateOf(s.state, s.choices, s.projection)
         /\ Grid(s) = GridOf(s.loaded, s.projection)
         /\ UnionExtent(s) = UnionOf(s.projection, s.playtime.extent)
         /\ \A union : RankAxis(s, union) = RankAxisOf(s.rank, union)
         /\ \A union : PlaytimeAxis(s, union) = PlaytimeAxisOf(s.playtime, union)
<1>1. RankPresent(s) = HasRank(s.projection)
  BY DEF RankPresent, HasRank
<1>2. \A axis : RankLine(s, axis) = RankLineOf(s.projection, s.rank, s.loaded, axis)
  BY SMTT(30) DEF RankLine, RankLineOf, Points, RankPresent
<1>3. DeriveState(s) = StateOf(s.state, s.choices, s.projection)
  BY DEF DeriveState, StateOf
<1>4. Grid(s) = GridOf(s.loaded, s.projection)
  BY DEF Grid, GridOf
<1>5. UnionExtent(s) = UnionOf(s.projection, s.playtime.extent)
  BY DEF UnionExtent, UnionOf, RankExtent, PlaytimeExtent, Points, RankPresent
<1>6. \A union : RankAxis(s, union) = RankAxisOf(s.rank, union)
  BY DEF RankAxis, RankAxisOf
<1>7. \A union : PlaytimeAxis(s, union) = PlaytimeAxisOf(s.playtime, union)
  BY DEF PlaytimeAxis, PlaytimeAxisOf
<1> QED
  BY <1>1, <1>2, <1>3, <1>4, <1>5, <1>6, <1>7

\* The view of a snapshot, with what is redrawn alone given.
Redrawn(s, union, rankAxis, rankLine, playtimeAxis, playtime) ==
  [state |-> StateOf(s.state, s.choices, s.projection), name |-> SelectedName(s), entries |-> SelectorEntries(s.choices),
   summary |-> s.projection, grid |-> GridOf(s.loaded, s.projection), averageFills |-> FillsOf(s.projection, s.loaded),
   union |-> union, rankAxis |-> rankAxis, playtimeAxis |-> playtimeAxis, rankLine |-> rankLine, playtime |-> playtime]
ViewOf(s, union) ==
  Redrawn(s, union, RankAxisOf(s.rank, union),
          LineOf(s.projection, s.rank, s.loaded, RankAxisOf(s.rank, union)),
          PlaytimeAxisOf(s.playtime, union), s.playtime)

LEMMA RebuildIs == ASSUME NEW s PROVE Rebuild(s) = ViewOf(s, UnionOf(s.projection, s.playtime.extent))
<1> DEFINE union == UnionOf(s.projection, s.playtime.extent)
<1>1. Rebuild(s) = RebuildOn(s, union, RankAxisOf(s.rank, union))
  BY PartsOf DEF Rebuild
<1> HIDE DEF union
<1>2. RankPresent(s) = HasRank(s.projection)
  BY PartsOf
<1>3. (IF ~RankPresent(s) THEN <<>> ELSE RankChunkFills(s.projection.rankSum, Len(Entries(s.loaded)), Len(s.loaded.tiers)))
        = FillsOf(s.projection, s.loaded)
  BY <1>2 DEF FillsOf
<1>4. (IF RankPresent(s) THEN RankLine(s, RankAxisOf(s.rank, union)) ELSE NoLine)
        = LineOf(s.projection, s.rank, s.loaded, RankAxisOf(s.rank, union))
  BY <1>2, PartsOf DEF LineOf
<1>5. DeriveState(s) = StateOf(s.state, s.choices, s.projection) /\ Grid(s) = GridOf(s.loaded, s.projection)
      /\ PlaytimeAxis(s, union) = PlaytimeAxisOf(s.playtime, union)
  BY PartsOf
<1> QED
  BY <1>1, <1>3, <1>4, <1>5 DEF RebuildOn, ViewOf, Redrawn, union

LEMMA RankRedraws ==
  ASSUME NEW s, NEW rank PROVE RebuildRank(Rebuild(s), WithRank(s, rank)) = Rebuild(WithRank(s, rank))
<1> DEFINE union == UnionOf(s.projection, s.playtime.extent)
           n == WithRank(s, rank)
           axis == RankAxisOf(rank, union)
           line == LineOf(s.projection, rank, s.loaded, axis)
<1>1. /\ n.choices = s.choices /\ n.name = s.name /\ n.state = s.state /\ n.loaded = s.loaded
      /\ n.projection = s.projection /\ n.rank = rank /\ n.playtime = s.playtime
  BY DEF WithRank
<1> HIDE DEF n
<1>2. Rebuild(s) = ViewOf(s, union) /\ Rebuild(n) = ViewOf(n, union)
  BY <1>1, RebuildIs
<1>3. RebuildRank(Rebuild(s), n) = [ViewOf(s, union) EXCEPT !.rankAxis = axis, !.rankLine = line]
  <2>1. ViewOf(s, union).union = union
    BY DEF ViewOf, Redrawn
  <2>2. RankAxis(n, union) = axis /\ RankPresent(n) = HasRank(s.projection)
        /\ RankLine(n, axis) = RankLineOf(s.projection, rank, s.loaded, axis)
    BY <1>1, PartsOf
  <2> QED
    BY <1>2, <2>1, <2>2 DEF RebuildRank, LineOf
<1>4. ViewOf(n, union) = [ViewOf(s, union) EXCEPT !.rankAxis = axis, !.rankLine = line]
  <2> DEFINE old == RankAxisOf(s.rank, union)
             before == LineOf(s.projection, s.rank, s.loaded, old)
             p == PlaytimeAxisOf(s.playtime, union)
             v1 == [ViewOf(s, union) EXCEPT !.rankAxis = axis]
  <2>1. ViewOf(s, union) = Redrawn(s, union, old, before, p, s.playtime)
    BY DEF ViewOf, Redrawn
  <2>2. ViewOf(n, union) = Redrawn(s, union, axis, line, p, s.playtime)
    BY <1>1 DEF ViewOf, Redrawn, SelectedName
  <2> HIDE DEF axis, line, old, before, p
  <2>3. v1 = Redrawn(s, union, axis, before, p, s.playtime)
    BY <2>1 DEF Redrawn
  <2>4. [v1 EXCEPT !.rankLine = line] = Redrawn(s, union, axis, line, p, s.playtime)
    <3> HIDE DEF v1
    <3> QED
      BY <2>3 DEF Redrawn
  <2> QED
    BY <2>2, <2>4
<1> QED
  BY <1>2, <1>3, <1>4 DEF n

LEMMA PlaytimeRedraws ==
  ASSUME NEW s, NEW playtime
  PROVE  RebuildPlaytime(Rebuild(s), WithPlaytime(s, playtime)) = Rebuild(WithPlaytime(s, playtime))
<1> DEFINE union == UnionOf(s.projection, s.playtime.extent)
           n == WithPlaytime(s, playtime)
           axis == PlaytimeAxisOf(playtime, union)
<1>1. /\ n.choices = s.choices /\ n.name = s.name /\ n.state = s.state /\ n.loaded = s.loaded
      /\ n.projection = s.projection /\ n.rank = s.rank /\ n.playtime = playtime
  BY DEF WithPlaytime
<1> HIDE DEF n
<1>2. Rebuild(s) = ViewOf(s, union) /\ Rebuild(s).union = union
  BY RebuildIs DEF ViewOf, Redrawn
<1>3. CASE UnionExtent(n) # union
  BY <1>2, <1>3 DEF RebuildPlaytime, n
<1>4. CASE UnionExtent(n) = union
  <2>1. Rebuild(n) = ViewOf(n, union)
    BY <1>4, PartsOf, RebuildIs
  <2>2. RebuildPlaytime(Rebuild(s), n) = [ViewOf(s, union) EXCEPT !.playtimeAxis = axis, !.playtime = playtime]
    <3>1. PlaytimeAxis(n, union) = axis
      BY <1>1, PartsOf
    <3> QED
      BY <1>1, <1>2, <1>4, <3>1 DEF RebuildPlaytime
  <2>3. ViewOf(n, union) = [ViewOf(s, union) EXCEPT !.playtimeAxis = axis, !.playtime = playtime]
    <3> DEFINE old == PlaytimeAxisOf(s.playtime, union)
               a == RankAxisOf(s.rank, union)
               line == LineOf(s.projection, s.rank, s.loaded, a)
               v1 == [ViewOf(s, union) EXCEPT !.playtimeAxis = axis]
    <3>1. ViewOf(s, union) = Redrawn(s, union, a, line, old, s.playtime)
      BY DEF ViewOf, Redrawn
    <3>2. ViewOf(n, union) = Redrawn(s, union, a, line, axis, playtime)
      BY <1>1 DEF ViewOf, Redrawn, SelectedName
    <3> HIDE DEF axis, union, old, a, line
    <3>3. v1 = Redrawn(s, union, a, line, axis, s.playtime)
      BY <3>1 DEF Redrawn
    <3>4. [v1 EXCEPT !.playtime = playtime] = Redrawn(s, union, a, line, axis, playtime)
      <4> HIDE DEF v1
      <4> QED
        BY <3>3 DEF Redrawn
    <3> QED
      BY <3>2, <3>4
  <2> QED
    BY <2>1, <2>2, <2>3 DEF n
<1> QED
  BY <1>3, <1>4

-----------------------------------------------------------------------------
(* The charts, each by the range and the day it was drawn for.              *)

Charts(w, rec, t, v, rankCfg, rankDay, playCfg, playDay) ==
  /\ IsTracking(t) /\ CacheSound(w, t.cache)
  /\ Available(w, t.selected) => t.selected \in DOMAIN t.cache
  /\ t.snapshot = Drawing(w, rec, t.selected, t.name, rankCfg, rankDay, playCfg, playDay)
  /\ v = Rebuild(t.snapshot)
SameBenchmark(t, n) == n.copy = t.copy /\ n.selected = t.selected /\ n.name = t.name

LEMMA ReadyIsAvailable ==
  ASSUME NEW w, NEW rec, NEW t, NEW v, NEW rc, NEW rd, NEW pc, NEW pd, Charts(w, rec, t, v, rc, rd, pc, pd)
  PROVE  /\ IsSnapshot(t.snapshot) /\ (Ready(t) <=> Available(w, t.selected))
         /\ Ready(t) => t.selected \in DOMAIN t.cache
<1>1. IsSnapshot(t.snapshot)
  BY DrawingIsSnapshot DEF Charts
<1>2. Available(w, t.selected) <=> t.snapshot.state = "ready"
  BY DEF Charts, Drawing, Available, NothingShown
<1> QED
  BY <1>1, <1>2 DEF Ready, Charts

\* A benchmark that is not available is drawn the same for any range and day.
LEMMA NothingToRedraw ==
  ASSUME NEW w, NEW rec, NEW id, NEW name, ~Available(w, id), NEW rc, NEW rd, NEW pc, NEW pd,
         NEW qc, NEW qd, NEW sc, NEW sd
  PROVE  Drawing(w, rec, id, name, rc, rd, pc, pd) = Drawing(w, rec, id, name, qc, qd, sc, sd)
BY DEF Drawing, Available

LEMMA RankAlone ==
  ASSUME NEW w, NEW rec, NEW t, NEW v, NEW rc, NEW rd, NEW pc, NEW pd, Charts(w, rec, t, v, rc, rd, pc, pd),
         NEW cfg, NEW day, NEW x, x = RefreshRankOnly([tracking |-> t, view |-> v], cfg, day)
  PROVE  Charts(w, rec, x.tracking, x.view, cfg, day, pc, pd) /\ SameBenchmark(t, x.tracking)
<1>1. CASE ~Ready(t)
  BY <1>1, ReadyIsAvailable, NothingToRedraw DEF RefreshRankOnly, Charts, SameBenchmark
<1>2. CASE Ready(t)
  <2> DEFINE n == ApplyRankRange(t, cfg, day)
             E == EvaluationOf(w, t.selected)
  <2>1. RankDrawn(w, t, n, cfg, day)
    BY <1>2, ReadyIsAvailable, RankAnew DEF Charts
  <2>2. x = [tracking |-> n, view |-> RebuildRank(v, n.snapshot)]
    BY <1>2 DEF RefreshRankOnly, RankRedrawn
  <2> HIDE DEF n
  <2>3. n.snapshot = WithRank(t.snapshot, RankRange(E, cfg, day))
    BY <2>1 DEF RankDrawn
  <2>4. x.view = Rebuild(n.snapshot)
    BY <2>2, <2>3, RankRedraws DEF Charts
  <2>5. n.snapshot = Drawing(w, rec, t.selected, t.name, cfg, day, pc, pd)
    <3>1. Available(w, t.selected)
      BY <1>2, ReadyIsAvailable
    <3> QED
      BY <2>3, <3>1 DEF Charts, Drawing, Available, WithRank
  <2> QED
    BY <2>1, <2>2, <2>4, <2>5 DEF Charts, RankDrawn, SameBenchmark
<1> QED
  BY <1>1, <1>2

LEMMA PlaytimeAlone ==
  ASSUME NEW w, NEW rec, NEW t, NEW v, NEW rc, NEW rd, NEW pc, NEW pd, Charts(w, rec, t, v, rc, rd, pc, pd),
         NEW cfg, cfg.window # 0, NEW day, NEW x, x = RefreshPlaytimeOnly([tracking |-> t, view |-> v], cfg, day)
  PROVE  Charts(w, rec, x.tracking, x.view, rc, rd, cfg, day) /\ SameBenchmark(t, x.tracking)
<1>1. CASE ~Ready(t)
  BY <1>1, ReadyIsAvailable, NothingToRedraw DEF RefreshPlaytimeOnly, Charts, SameBenchmark
<1>2. CASE Ready(t)
  <2> DEFINE n == ApplyPlaytimeView(t, cfg, day)
             E == EvaluationOf(w, t.selected)
  <2>1. PlaytimeDrawn(w, t, n, cfg, day)
    BY <1>2, ReadyIsAvailable, PlaytimeAnew DEF Charts
  <2>2. x = [tracking |-> n, view |-> RebuildPlaytime(v, n.snapshot)]
    BY <1>2 DEF RefreshPlaytimeOnly, PlaytimeRedrawn
  <2> HIDE DEF n
  <2>3. n.snapshot = WithPlaytime(t.snapshot, PlaytimeOf(E, cfg, day))
    BY <2>1 DEF PlaytimeDrawn
  <2>4. x.view = Rebuild(n.snapshot)
    BY <2>2, <2>3, PlaytimeRedraws DEF Charts
  <2>5. n.snapshot = Drawing(w, rec, t.selected, t.name, rc, rd, cfg, day)
    <3>1. Available(w, t.selected)
      BY <1>2, ReadyIsAvailable
    <3> QED
      BY <2>3, <3>1 DEF Charts, Drawing, Available, WithPlaytime
  <2> QED
    BY <2>1, <2>2, <2>4, <2>5 DEF Charts, PlaytimeDrawn, SameBenchmark
<1> QED
  BY <1>1, <1>2

\* What a range comes to depends on the day only where it follows today.
Kinds == {"recentDays", "customDates", "allHistory"}
IsRange(r) == r.kind \in Kinds /\ r.anchor \in BOOLEAN

RankFrom(r, end) ==
  LET cut == end # None /\ r.kind = "interval" /\ r.interval.first <= end /\ end < r.interval.last
  IN [anchoredEnd |-> end,
      interval |-> IF r.kind # "interval" THEN NoInterval
                   ELSE IF cut THEN [r.interval EXCEPT !.last = end] ELSE r.interval,
      noHistory |-> r.kind = "nothing"]
LastDay(E) == IF E.projection.history = <<>> THEN None ELSE E.projection.history[Len(E.projection.history)].day
PlaytimeFrom(r, full, window) ==
  LET shown == CASE r.kind = "nothing" -> {}
                 [] r.kind = "everything" -> DOMAIN full
                 [] r.kind = "interval" -> DOMAIN full \cap (r.interval.first..r.interval.last)
  IN [window |-> window, interval |-> IF r.kind = "interval" THEN r.interval ELSE NoInterval,
      extent |-> IF DOMAIN full = {} THEN NoInterval ELSE Interval(Min(DOMAIN full), Max(DOMAIN full)),
      points |-> [d \in shown |-> full[d]]]

LEMMA RankStays ==
  ASSUME NEW E, NEW c, NEW d, NEW x, NEW y, c.rank = d.rank, IsRange(c.rank), x = y \/ ~FollowsToday(c.rank)
  PROVE  RankRange(E, c, x) = RankRange(E, d, y)
<1>1. \A latest : ResolveRange(c.rank, x, latest) = ResolveRange(d.rank, y, latest)
  BY DEF ResolveRange, FollowsToday, IsRange, Kinds
<1>2. \A cfg, day : RankRange(E, cfg, day) = RankFrom(ResolveRange(cfg.rank, day, LastDay(E)),
                                                     IF cfg.rank.anchor THEN LastDay(E) ELSE None)
  BY DEF RankRange, RankFrom, LastDay
<1> QED
  BY <1>1, <1>2

LEMMA PlaytimeStays ==
  ASSUME NEW E, NEW c, NEW d, NEW x, NEW y, c.playtime = d.playtime, c.window = d.window, IsRange(c.playtime),
         x = y \/ ~FollowsToday(c.playtime)
  PROVE  PlaytimeOf(E, c, x) = PlaytimeOf(E, d, y)
<1>1. \A latest : ResolveRange(c.playtime, x, latest) = ResolveRange(d.playtime, y, latest)
  BY DEF ResolveRange, FollowsToday, IsRange, Kinds
<1> DEFINE full == RollingPlaytime(E.facts, c.window)
<1>2. PlaytimeOf(E, c, x) = PlaytimeRange(E, full, c, x) /\ PlaytimeOf(E, d, y) = PlaytimeRange(E, full, d, y)
  BY DEF PlaytimeOf
<1> HIDE DEF full
<1>3. \A cfg, day : PlaytimeRange(E, full, cfg, day)
                     = PlaytimeFrom(ResolveRange(cfg.playtime, day, E.latestRunDay), full, cfg.window)
  BY DEF PlaytimeRange, PlaytimeFrom
<1> QED
  BY <1>1, <1>2, <1>3

\* So a chart drawn for another range or day that comes to the same is drawn for this one.
LEMMA ChartsStay ==
  ASSUME NEW w, NEW rec, NEW t, NEW v, NEW rc, NEW rd, NEW pc, NEW pd, Charts(w, rec, t, v, rc, rd, pc, pd),
         NEW qc, NEW qd, NEW sc, NEW sd,
         \/ rc.rank = qc.rank /\ IsRange(rc.rank) /\ (rd = qd \/ ~FollowsToday(rc.rank))
         \/ rc = qc /\ rd = qd,
         \/ /\ pc.playtime = sc.playtime /\ pc.window = sc.window /\ IsRange(pc.playtime)
            /\ (pd = sd \/ ~FollowsToday(pc.playtime))
         \/ pc = sc /\ pd = sd
  PROVE  Charts(w, rec, t, v, qc, qd, sc, sd)
<1> DEFINE E == EvaluationOf(w, t.selected)
<1>1. RankRange(E, rc, rd) = RankRange(E, qc, qd)
  BY RankStays
<1>2. PlaytimeOf(E, pc, pd) = PlaytimeOf(E, sc, sd)
  BY PlaytimeStays
<1> QED
  BY <1>1, <1>2 DEF Charts, Drawing

-----------------------------------------------------------------------------
(* The invariant.                                                           *)

\* The resolutions of a library, by the runs.
CatalogueOf(rs) ==
  [n \in {rs[i].name : i \in DOMAIN rs} |-> {rs[i].hash : i \in {j \in DOMAIN rs : rs[j].name = n}}]
JoinedOf(rs, entries) ==
  [id \in {entries[f].id : f \in Loaded(entries)} |->
     Resolve(CatalogueOf(rs), entries[Max({f \in Loaded(entries) : entries[f].id = id})].content)]

LEMMA JoinedIs == \A entries : Joined(entries) = JoinedOf(runs, entries)
BY DEF Joined, JoinedOf, Catalogue, CatalogueOf

IsConfig(cfg) == IsRange(cfg.rank) /\ IsRange(cfg.playtime) /\ cfg.window # 0
CopyInv ==
  /\ IsTracking(tracking) /\ library = [entries |-> library.entries, revision |-> library.revision]
  /\ library.revision \in Nat \ {0} /\ tracking.copy.revision \in Nat
  /\ tracking.copy.revision <= library.revision
  /\ tracking.copy.revision = library.revision => tracking.copy = library

\* The listeners still to be called: each joining is followed by one that draws, and draws last.
Drawers == {<<>>, <<"reevaluate">>, <<"reevaluate", "reevaluate">>}
Joiners == {<<"reconcile", "reevaluate">>, <<"reevaluate", "reconcile", "reevaluate">>}
CallsInOrder == calls \in Drawers \cup Joiners
JoinedAtLast == calls \in Drawers => resolved = JoinedOf(runs, library.entries)

Current(w, lib, rec, t, v, cfg, day) ==
  /\ Charts(w, rec, t, v, cfg, day, cfg, day)
  /\ t.copy = lib /\ (t.selected # NoId => NameFor(w, rec, t.selected, t.name) = t.name)
NothingStale == Quiet => Current(World, library, recents, tracking, view, config, today)

IInv == IsConfig(config) /\ CopyInv /\ CallsInOrder /\ JoinedAtLast /\ NothingStale

\* What is shown is current when nothing that is kept is stale.
LEMMA InvIsCurrent == IInv => ProgressIsCurrent
<1> SUFFICES ASSUME IInv, Quiet
             PROVE  ShowsNow(Refresh([tracking EXCEPT !.copy.revision = 0, !.cache = NoEvaluations], recents).snapshot)
  BY JoinedIs DEF ProgressIsCurrent, IInv, JoinedAtLast, Quiet, Drawers
<1> DEFINE w == World
           copy == [tracking.copy EXCEPT !.revision = 0]
           t == [tracking EXCEPT !.copy.revision = 0, !.cache = NoEvaluations]
           n == Refresh(t, recents)
<1>1. Current(w, library, recents, tracking, view, config, today) /\ IsTracking(tracking)
      /\ config.window # 0 /\ library.revision # 0 /\ tracking.copy = library
  BY DEF IInv, NothingStale, CopyInv, IsConfig, Current
<1>2. t = [copy |-> copy, selected |-> tracking.selected, name |-> tracking.name, cache |-> NoEvaluations,
           snapshot |-> tracking.snapshot]
  <2> DEFINE t1 == [tracking EXCEPT !.copy.revision = 0]
  <2> HIDE DEF copy
  <2>1. t1 = [copy |-> copy, selected |-> tracking.selected, name |-> tracking.name, cache |-> tracking.cache,
              snapshot |-> tracking.snapshot]
    BY <1>1 DEF IsTracking, copy
  <2>2. t = [t1 EXCEPT !.cache = NoEvaluations]
    OBVIOUS
  <2> HIDE DEF t1, t
  <2> QED
    BY <2>1, <2>2
<1>3. copy.revision = 0
  <2>1. library = [entries |-> library.entries, revision |-> library.revision]
    BY DEF IInv, CopyInv
  <2> QED
    BY <1>1, <2>1
<1> HIDE DEF copy, t
<1>4. IsTracking(t) /\ CacheSound(w, t.cache) /\ t.copy.revision # library.revision
  <2>1. NoEvaluations = [id \in DOMAIN NoEvaluations |-> NoEvaluations[id]] /\ DOMAIN NoEvaluations = {}
    BY DEF NoEvaluations
  <2> QED
    BY <1>1, <1>2, <1>3, <2>1 DEF IsTracking, CacheSound
<1>5. Refreshed(w, t, n, recents, config, today)
  BY <1>1, <1>4, RefreshShows
<1> HIDE DEF n
<1>6. n.name = tracking.name
  BY <1>1, <1>2, <1>5 DEF Refreshed, Current
<1>7. n.snapshot = tracking.snapshot /\ view = Rebuild(tracking.snapshot)
  BY <1>1, <1>2, <1>5, <1>6 DEF Refreshed, Current, Charts
<1> QED
  BY <1>7 DEF ShowsNow, n, t

\* A refresh makes everything current.
LEMMA RefreshedIsCurrent ==
  ASSUME NEW t, NEW rec, NEW cfg, NEW day, NEW n, Refreshed(World, t, n, rec, cfg, day)
  PROVE  Current(World, library, rec, n, Rebuild(n.snapshot), cfg, day)
<1>1. \A id, name : NameFor(World, rec, id, NameFor(World, rec, id, name)) = NameFor(World, rec, id, name)
  BY DEF NameFor
<1> QED
  BY <1>1 DEF Refreshed, Current, Charts

\* What a refresh of a tracking whose cache is sound leaves, where nothing else it is made of changes.
LEMMA DrawnIsCurrent ==
  ASSUME IInv, NEW t, NEW rec, IsTracking(t), CacheSound(World, t.cache), t.copy = tracking.copy,
         Becomes(Drawn(Refresh(t, rec))), UNCHANGED <<library, runs, resolved, config, today>>
  PROVE  CopyInv' /\ Current(World, library, rec, tracking, view, config, today)'
<1> DEFINE n == Refresh(t, rec)
<1>1. tracking' = n /\ view' = Rebuild(n.snapshot) /\ World' = World
  BY DEF Becomes, Drawn, World
<1>2. t.copy.revision = library.revision => t.copy = library
  BY DEF IInv, CopyInv
<1>3. Refreshed(World, t, n, rec, config, today)
  BY <1>2, RefreshShows DEF IInv, IsConfig
<1> HIDE DEF n
<1>4. Current(World, library, rec, n, Rebuild(n.snapshot), config, today)
  BY <1>3, RefreshedIsCurrent
<1>5. CopyInv'
  BY <1>1, <1>3 DEF IInv, CopyInv, Refreshed
<1> QED
  BY <1>1, <1>4, <1>5

-----------------------------------------------------------------------------
(* Every step keeps it.                                                     *)

\* A refresh by the user, when no listener is left to be called.
LEMMA StaysCurrent ==
  ASSUME IInv, Quiet, UNCHANGED <<library, runs, resolved, config, today, calls>>,
         NEW t, NEW rec, IsTracking(t), CacheSound(World, t.cache), t.copy = tracking.copy,
         Becomes(Drawn(Refresh(t, rec))), recents' = rec
  PROVE  IInv'
<1>1. CopyInv' /\ Current(World, library, rec, tracking, view, config, today)'
  BY DrawnIsCurrent
<1>2. (IsConfig(config) /\ CallsInOrder /\ JoinedAtLast)'
  BY DEF IInv, CallsInOrder, JoinedAtLast
<1> QED
  BY <1>1, <1>2 DEF IInv, NothingStale

LEMMA SelectingKeeps ==
  ASSUME IInv, Quiet, UNCHANGED <<library, runs, resolved, config, today, calls>>, NEW rec, recents' = rec,
         NEW id, NEW name, Becomes(Drawn(Refresh([tracking EXCEPT !.selected = id, !.name = name], rec)))
  PROVE  IInv'
<1> DEFINE t == [tracking EXCEPT !.selected = id, !.name = name]
<1>1. IsTracking(tracking) /\ CacheSound(World, tracking.cache)
  BY DEF IInv, CopyInv, NothingStale, Current, Charts
<1>2. t = [copy |-> tracking.copy, selected |-> id, name |-> name, cache |-> tracking.cache, snapshot |-> tracking.snapshot]
  <2> DEFINE t1 == [tracking EXCEPT !.selected = id]
  <2>1. t1 = [copy |-> tracking.copy, selected |-> id, name |-> tracking.name, cache |-> tracking.cache,
              snapshot |-> tracking.snapshot]
    BY <1>1 DEF IsTracking
  <2>2. t = [t1 EXCEPT !.name = name]
    OBVIOUS
  <2> HIDE DEF t1, t
  <2> QED
    BY <2>1, <2>2
<1> HIDE DEF t
<1>3. IsTracking(t) /\ CacheSound(World, t.cache) /\ t.copy = tracking.copy
  BY <1>1, <1>2 DEF IsTracking
<1>4. Becomes(Drawn(Refresh(t, rec)))
  BY DEF t
<1> QED
  BY <1>3, <1>4, StaysCurrent

LEMMA ReevaluateKeeps == ASSUME IInv, Reevaluate PROVE IInv'
<1> DEFINE t == Dropped(tracking)
<1>1. IsTracking(tracking) /\ UNCHANGED <<library, runs, resolved, config, today>> /\ recents' = recents
  BY DEF IInv, CopyInv, Reevaluate
<1>2. t = [copy |-> tracking.copy, selected |-> tracking.selected, name |-> tracking.name, cache |-> NoEvaluations,
           snapshot |-> tracking.snapshot]
  BY <1>1 DEF Dropped, IsTracking
<1>3. Becomes(Drawn(Refresh(t, recents)))
  BY DEF Reevaluate
<1> HIDE DEF t
<1>4. IsTracking(t) /\ CacheSound(World, t.cache) /\ t.copy = tracking.copy
  BY <1>2 DEF IsTracking, CacheSound, NoEvaluations
<1>5. CopyInv' /\ Current(World, library, recents, tracking, view, config, today)'
  BY <1>1, <1>3, <1>4, DrawnIsCurrent
<1>6. (CallsInOrder /\ JoinedAtLast)'
  <2>1. calls \in Drawers \cup Joiners /\ calls # <<>> /\ Head(calls) = "reevaluate" /\ calls' = Tail(calls)
    BY DEF IInv, CallsInOrder, Reevaluate
  <2>2. CASE calls = <<"reevaluate">>
    <3>1. calls' = <<>>
      BY <2>1, <2>2
    <3> QED
      BY <1>1, <2>2, <3>1 DEF IInv, CallsInOrder, JoinedAtLast, Drawers
  <2>3. CASE calls = <<"reevaluate", "reevaluate">>
    <3>1. calls' = <<"reevaluate">>
      BY <2>1, <2>3
    <3> QED
      BY <1>1, <2>3, <3>1 DEF IInv, CallsInOrder, JoinedAtLast, Drawers
  <2>4. CASE calls = <<"reevaluate", "reconcile", "reevaluate">>
    <3>1. calls' = <<"reconcile", "reevaluate">>
      BY <2>1, <2>4
    <3> QED
      BY <3>1 DEF CallsInOrder, JoinedAtLast, Drawers, Joiners
  <2> QED
    BY <2>1, <2>2, <2>3, <2>4 DEF Drawers, Joiners
<1>7. IsConfig(config)'
  BY <1>1 DEF IInv
<1> QED
  BY <1>1, <1>5, <1>6, <1>7 DEF IInv, NothingStale

LEMMA ReconcileKeeps == ASSUME IInv, Reconcile PROVE IInv'
<1>1. calls = <<"reconcile", "reevaluate">>
  BY DEF IInv, CallsInOrder, Reconcile, Drawers, Joiners
<1>2. /\ UNCHANGED <<runs, config, today, recents, tracking, view>>
      /\ resolved' = JoinedOf(runs, library.entries)
      /\ \/ /\ library' = [entries |-> Mapped(library.entries), revision |-> library.revision + 1]
            /\ calls' = <<"reevaluate", "reconcile", "reevaluate">>
         \/ library' = library /\ calls' = <<"reevaluate", "reevaluate">>
  BY <1>1, JoinedIs DEF Reconcile
<1>3. (IsConfig(config) /\ CopyInv)'
  BY <1>2 DEF IInv, CopyInv
<1>4. (CallsInOrder /\ JoinedAtLast)'
  BY <1>2 DEF CallsInOrder, JoinedAtLast, Drawers, Joiners
<1>5. ~Quiet'
  BY <1>2 DEF Quiet
<1> QED
  BY <1>3, <1>4, <1>5 DEF IInv, NothingStale

LEMMA ToldKeeps ==
  ASSUME IInv, Told, UNCHANGED <<config, tracking>>,
         \/ library' = library
         \/ \E l : library' = [entries |-> l, revision |-> library.revision + 1]
  PROVE  IInv'
<1>1. (CallsInOrder /\ JoinedAtLast)' /\ ~Quiet'
  BY DEF Told, CallsInOrder, JoinedAtLast, Drawers, Joiners, Quiet
<1>2. (IsConfig(config) /\ CopyInv)'
  BY DEF IInv, CopyInv
<1> QED
  BY <1>1, <1>2 DEF IInv, NothingStale

\* One chart follows a change of its range or of the day, the other stays as it is.
RankWas(rc, rd, cfg, day) == rc.rank = cfg.rank /\ IsRange(rc.rank) /\ (rd = day \/ ~FollowsToday(rc.rank))
PlaytimeWas(pc, pd, cfg, day) ==
  /\ pc.playtime = cfg.playtime /\ pc.window = cfg.window
  /\ IsRange(pc.playtime) /\ (pd = day \/ ~FollowsToday(pc.playtime))

LEMMA RankFollows ==
  ASSUME NEW w, NEW rec, NEW t, NEW v, NEW rc, NEW rd, NEW pc, NEW pd, Charts(w, rec, t, v, rc, rd, pc, pd),
         NEW cfg, NEW day, NEW redraws \in BOOLEAN, redraws \/ RankWas(rc, rd, cfg, day),
         NEW x, x = IF redraws THEN RefreshRankOnly([tracking |-> t, view |-> v], cfg, day)
                    ELSE [tracking |-> t, view |-> v]
  PROVE  /\ Charts(w, rec, x.tracking, x.view, cfg, day, pc, pd) /\ SameBenchmark(t, x.tracking)
         /\ x = [tracking |-> x.tracking, view |-> x.view]
<1>1. CASE redraws
  <2>1. x = RefreshRankOnly([tracking |-> t, view |-> v], cfg, day)
    BY <1>1
  <2>2. Charts(w, rec, x.tracking, x.view, cfg, day, pc, pd) /\ SameBenchmark(t, x.tracking)
    BY <2>1, RankAlone
  <2>3. x = [tracking |-> x.tracking, view |-> x.view]
    BY <2>1 DEF RefreshRankOnly, RankRedrawn
  <2> QED
    BY <2>2, <2>3
<1>2. CASE ~redraws
  <2>1. x = [tracking |-> t, view |-> v] /\ RankWas(rc, rd, cfg, day)
    BY <1>2
  <2>2. Charts(w, rec, t, v, cfg, day, pc, pd)
    BY <2>1, ChartsStay DEF RankWas
  <2> QED
    BY <2>1, <2>2 DEF SameBenchmark
<1> QED
  BY <1>1, <1>2

LEMMA PlaytimeFollows ==
  ASSUME NEW w, NEW rec, NEW t, NEW v, NEW rc, NEW rd, NEW pc, NEW pd, Charts(w, rec, t, v, rc, rd, pc, pd),
         NEW cfg, cfg.window # 0, NEW day, NEW redraws \in BOOLEAN, redraws \/ PlaytimeWas(pc, pd, cfg, day),
         NEW x, x = IF redraws THEN RefreshPlaytimeOnly([tracking |-> t, view |-> v], cfg, day)
                    ELSE [tracking |-> t, view |-> v]
  PROVE  Charts(w, rec, x.tracking, x.view, rc, rd, cfg, day) /\ SameBenchmark(t, x.tracking)
<1>1. CASE redraws
  <2>1. x = RefreshPlaytimeOnly([tracking |-> t, view |-> v], cfg, day)
    BY <1>1
  <2> QED
    BY <2>1, PlaytimeAlone
<1>2. CASE ~redraws
  <2>1. x = [tracking |-> t, view |-> v] /\ PlaytimeWas(pc, pd, cfg, day)
    BY <1>2
  <2>2. Charts(w, rec, t, v, rc, rd, cfg, day)
    BY <2>1, ChartsStay DEF PlaytimeWas
  <2> QED
    BY <2>1, <2>2 DEF SameBenchmark
<1> QED
  BY <1>1, <1>2

\* The two redraws of one publication, the rank first, leave both charts current.
LEMMA BothFollow ==
  ASSUME IInv, Quiet, UNCHANGED <<library, runs, resolved, recents, calls>>,
         NEW cfg, NEW day, config' = cfg, today' = day, IsConfig(cfg),
         NEW r \in BOOLEAN, r \/ RankWas(config, today, cfg, day),
         NEW p \in BOOLEAN, p \/ PlaytimeWas(config, today, cfg, day),
         NEW ranked, ranked = IF r THEN RefreshRankOnly(State, cfg, day) ELSE State,
         Becomes(IF p THEN RefreshPlaytimeOnly(ranked, cfg, day) ELSE ranked)
  PROVE  IInv'
<1> DEFINE x == IF p THEN RefreshPlaytimeOnly(ranked, cfg, day) ELSE ranked
<1>1. Current(World, library, recents, tracking, view, config, today)
  BY DEF IInv, NothingStale
<1>2. /\ Charts(World, recents, ranked.tracking, ranked.view, cfg, day, config, today)
      /\ SameBenchmark(tracking, ranked.tracking)
      /\ ranked = [tracking |-> ranked.tracking, view |-> ranked.view]
  <2>1. Charts(World, recents, tracking, view, config, today, config, today)
    BY <1>1 DEF Current
  <2>2. ranked = IF r THEN RefreshRankOnly([tracking |-> tracking, view |-> view], cfg, day)
                 ELSE [tracking |-> tracking, view |-> view]
    BY DEF State
  <2> QED
    BY <2>1, <2>2, RankFollows
<1>3. Charts(World, recents, x.tracking, x.view, cfg, day, cfg, day) /\ SameBenchmark(ranked.tracking, x.tracking)
  <2>1. x = IF p THEN RefreshPlaytimeOnly([tracking |-> ranked.tracking, view |-> ranked.view], cfg, day)
            ELSE [tracking |-> ranked.tracking, view |-> ranked.view]
    BY <1>2
  <2>2. cfg.window # 0
    BY DEF IsConfig
  <2> HIDE DEF x
  <2> QED
    BY <1>2, <2>1, <2>2, PlaytimeFollows
<1>4. tracking' = x.tracking /\ view' = x.view /\ World' = World
  BY DEF Becomes, World
<1> HIDE DEF x
<1>5. Current(World, library, recents, tracking, view, config, today)'
  BY <1>1, <1>2, <1>3, <1>4 DEF Current, SameBenchmark
<1>6. CopyInv'
  <2>1. x.tracking.copy = tracking.copy /\ IsTracking(x.tracking)
    BY <1>2, <1>3 DEF SameBenchmark, Charts
  <2> QED
    BY <1>4, <2>1 DEF IInv, CopyInv
<1>7. (IsConfig(config) /\ CallsInOrder /\ JoinedAtLast)'
  BY DEF IInv, CallsInOrder, JoinedAtLast
<1> QED
  BY <1>5, <1>6, <1>7 DEF IInv, NothingStale

LEMMA ConfigurationChangedKeeps == ASSUME IInv, ConfigurationChanged PROVE IInv'
<1>1. PICK rank \in Ranges, playtime \in Ranges, window \in Windows :
        LET cfg == [rank |-> rank, playtime |-> playtime, window |-> window]
            ranked == IF cfg.rank # config.rank THEN RefreshRankOnly(State, cfg, today) ELSE State
        IN config' = cfg /\ Becomes(IF cfg.playtime # config.playtime \/ cfg.window # config.window
                                    THEN RefreshPlaytimeOnly(ranked, cfg, today) ELSE ranked)
  BY DEF ConfigurationChanged
<1> DEFINE cfg == [rank |-> rank, playtime |-> playtime, window |-> window]
           r == cfg.rank # config.rank
           p == cfg.playtime # config.playtime \/ cfg.window # config.window
           ranked == IF r THEN RefreshRankOnly(State, cfg, today) ELSE State
<1>2. Quiet /\ UNCHANGED <<library, runs, resolved, today, recents, calls>>
  BY DEF ConfigurationChanged, Outside
<1>3. IsConfig(cfg)
  BY RangesAssumption, WindowsAssumption DEF IsConfig, IsRange, Kinds
<1>4. IsConfig(config)
  BY DEF IInv
<1>5. (r \/ RankWas(config, today, cfg, today)) /\ (p \/ PlaytimeWas(config, today, cfg, today))
  BY <1>4 DEF RankWas, PlaytimeWas, IsConfig
<1>6. r \in BOOLEAN /\ p \in BOOLEAN
  OBVIOUS
<1>7. config' = cfg /\ Becomes(IF p THEN RefreshPlaytimeOnly(ranked, cfg, today) ELSE ranked)
  BY <1>1
<1>8. ranked = IF r THEN RefreshRankOnly(State, cfg, today) ELSE State
  OBVIOUS
<1> HIDE DEF cfg, r, p, ranked
<1> QED
  BY <1>2, <1>3, <1>5, <1>6, <1>7, <1>8, BothFollow

LEMMA DayChangedKeeps == ASSUME IInv, DayChanged PROVE IInv'
<1> DEFINE r == FollowsToday(config.rank)
           p == FollowsToday(config.playtime)
           ranked == IF r THEN RefreshRankOnly(State, config, today') ELSE State
<1>1. Quiet /\ UNCHANGED <<library, runs, resolved, config, recents, calls>>
  BY DEF DayChanged
<1>2. IsConfig(config)
  BY DEF IInv
<1>3. (r \/ RankWas(config, today, config, today')) /\ (p \/ PlaytimeWas(config, today, config, today'))
  BY <1>2 DEF RankWas, PlaytimeWas, IsConfig
<1>4. r \in BOOLEAN /\ p \in BOOLEAN
  BY DEF FollowsToday
<1>5. Becomes(IF p THEN RefreshPlaytimeOnly(ranked, config, today') ELSE ranked)
  BY DEF DayChanged
<1>6. ranked = IF r THEN RefreshRankOnly(State, config, today') ELSE State
  OBVIOUS
<1> HIDE DEF r, p, ranked
<1> QED
  BY <1>1, <1>2, <1>3, <1>4, <1>5, <1>6, BothFollow

LEMMA SelectedKeeps ==
  ASSUME IInv, Quiet, UNCHANGED <<library, runs, resolved, config, today, calls>>, NEW id, Selected(id)
  PROVE  IInv'
<1>1. recents' = MarkViewed(id)
      /\ Becomes(Drawn(Refresh([tracking EXCEPT !.selected = id, !.name = Blank], MarkViewed(id))))
  BY DEF Selected
<1> QED
  BY <1>1, SelectingKeeps

LEMMA ClearSelectionKeeps == ASSUME IInv, ClearSelection PROVE IInv'
BY SelectingKeeps DEF ClearSelection

LEMMA MarkCreatedKeeps == ASSUME IInv, MarkCreated PROVE IInv'
<1>1. PICK id : recents' = IF recents = <<>> THEN <<id>> ELSE InsertAt(recents, 2, id)
  BY DEF MarkCreated
<1> DEFINE rec == IF recents = <<>> THEN <<id>> ELSE InsertAt(recents, 2, id)
<1>2. recents' = rec /\ Becomes(Drawn(Refresh(tracking, rec))) /\ Quiet
      /\ UNCHANGED <<library, runs, resolved, config, today, calls>>
  BY <1>1 DEF MarkCreated
<1>3. IsTracking(tracking) /\ CacheSound(World, tracking.cache)
  BY <1>2 DEF IInv, CopyInv, NothingStale, Current, Charts
<1> HIDE DEF rec
<1> QED
  BY <1>2, <1>3, StaysCurrent

LEMMA InitIsCurrent == Init => IInv
<1> SUFFICES ASSUME Init PROVE IInv
  OBVIOUS
<1> DEFINE t == [copy |-> [entries |-> <<>>, revision |-> 0], selected |-> NoId, name |-> Blank,
                 cache |-> NoEvaluations, snapshot |-> NothingShown]
           n == Refresh(t, recents)
<1>1. IsConfig(config)
  <2> DEFINE all == [kind |-> "allHistory", anchor |-> FALSE]
  <2>1. config.rank = all /\ config.playtime = all /\ config.window \in Windows
    BY DEF Init
  <2>2. IsRange(all)
    BY DEF IsRange, Kinds
  <2> HIDE DEF all
  <2> QED
    BY <2>1, <2>2, WindowsAssumption DEF IsConfig
<1>2. library = [entries |-> library.entries, revision |-> 1]
  BY DEF Init
<1>3. IsTracking(t) /\ CacheSound(World, t.cache) /\ t.copy.revision # library.revision
  BY <1>2 DEF IsTracking, CacheSound, NoEvaluations
<1>4. tracking = n /\ view = Rebuild(n.snapshot) /\ calls = <<>> /\ resolved = JoinedOf(runs, library.entries)
  BY JoinedIs DEF Init
<1> HIDE DEF t
<1>5. Refreshed(World, t, n, recents, config, today)
  BY <1>1, <1>3, RefreshShows DEF IsConfig
<1> HIDE DEF n
<1>6. NothingStale
  BY <1>4, <1>5, RefreshedIsCurrent DEF NothingStale
<1>7. CopyInv
  <2>1. library.revision = 1
    BY <1>2
  <2> QED
    BY <1>2, <1>4, <1>5, <2>1 DEF CopyInv, Refreshed
<1>8. CallsInOrder /\ JoinedAtLast
  BY <1>4 DEF CallsInOrder, JoinedAtLast, Drawers
<1> QED
  BY <1>1, <1>6, <1>7, <1>8 DEF IInv

LEMMA StepIsCurrent == IInv /\ [Next]_vars => IInv'
<1> SUFFICES ASSUME IInv, [Next]_vars PROVE IInv'
  OBVIOUS
<1>1. CASE Reconcile
  BY <1>1, ReconcileKeeps
<1>2. CASE Reevaluate
  BY <1>2, ReevaluateKeeps
<1>3. CASE LibraryChanged
  BY <1>3, ToldKeeps DEF LibraryChanged
<1>4. CASE RunRecorded
  BY <1>4, ToldKeeps DEF RunRecorded
<1>5. CASE ProfileCleared
  BY <1>5, ToldKeeps DEF ProfileCleared
<1>6. CASE ConfigurationChanged
  BY <1>6, ConfigurationChangedKeeps
<1>7. CASE DayChanged
  BY <1>7, DayChangedKeeps
<1>8. CASE Select
  BY <1>8, SelectedKeeps DEF Select
<1>9. CASE ClearSelection
  BY <1>9, ClearSelectionKeeps
<1>10. CASE SelectDefault
  BY <1>10, SelectedKeeps DEF SelectDefault
<1>11. CASE MarkCreated
  BY <1>11, MarkCreatedKeeps
<1>12. CASE UNCHANGED vars
  <2>1. UNCHANGED <<library, runs, resolved, config, today, recents, calls, tracking, view>>
    BY <1>12 DEF vars
  <2>2. World' = World
    BY <2>1 DEF World
  <2> QED
    BY <2>1, <2>2 DEF IInv, CopyInv, CallsInOrder, JoinedAtLast, NothingStale, Quiet
<1> QED
  BY <1>1, <1>2, <1>3, <1>4, <1>5, <1>6, <1>7, <1>8, <1>9, <1>10, <1>11, <1>12 DEF Next

\* Whatever order the library, the profile, the ranges, the day and the user change in, once every
\* listener has been called the progress shown is what would be drawn of the state of now with nothing
\* kept: evaluations and series that are kept are never stale, and a chart drawn alone is as in a full
\* rebuild (benchmark_tracking_use_case.cpp reevaluate, refreshRankOnly, refreshPlaytimeOnly;
\* benchmark_tracking_vm.cpp rebuildRank, rebuildPlaytime).
THEOREM TrackingStaysCurrent == Spec => []ProgressIsCurrent
<1>1. Init => IInv
  BY InitIsCurrent
<1>2. IInv /\ [Next]_vars => IInv'
  BY StepIsCurrent
<1>3. IInv => ProgressIsCurrent
  BY InvIsCurrent
<1> QED
  BY <1>1, <1>2, <1>3, PTL DEF Spec
=============================================================================
