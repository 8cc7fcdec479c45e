------------------------------- MODULE BookWalls -------------------------------
(***************************************************************************)
(* WallDetector (analytics/engines/book_analytics.py): the resting walls   *)
(* of a side of the book, since when each has been seen, and which of      *)
(* those that vanish are reported as spoofing candidates, as the           *)
(* dispatcher refreshes them with every valid book event and the snapshot  *)
(* builder shows them. The two sides are treated alike and apart from each *)
(* other: the module has the bids.                                         *)
(*                                                                         *)
(* A book is the quantity at each price, 0 where there is no level; the    *)
(* best Depth levels are sampled. A wall has Multiplier times their mean   *)
(* and MinNotional at the last price. Bounds: MaxUpdateTime, MaxUpdates. *)
(***************************************************************************)
EXTENDS Naturals, Integers, Sequences, FiniteSets, FiniteSetsExt, SequencesExt

CONSTANTS LevelPrices, LevelSizes, TradePrices, Depth, Multiplier, MinNotional,
          MaxAge, MaxUpdateTime, MaxUpdates

ASSUME WallAssumption ==
    /\ LevelPrices \subseteq Nat \ {0} /\ TradePrices \subseteq Nat \ {0}
    /\ LevelSizes \subseteq Nat /\ 0 \in LevelSizes
    /\ Depth \in Nat \ {0} /\ Multiplier \in Nat /\ MinNotional \in Nat
    /\ MaxAge \in Nat /\ MaxUpdateTime \in Nat /\ MaxUpdates \in Nat

Unknown == -1

VARIABLES
    lastPrice, \* SymbolState.last_price
    known,     \* _known: first_seen_ms of the walls of the last update
    result,    \* WallsResult: the active walls, and the candidates behind them
    lastUpdate,
    sightings  \* history: when each update was and which walls it saw

wallVars == <<lastPrice, known, result, lastUpdate, sightings>>

WallInit ==
    /\ lastPrice \in TradePrices
    /\ known = [p \in LevelPrices |-> Unknown]
    /\ result = [walls |-> {}, candidates |-> {}]
    /\ lastUpdate = 0 /\ sightings = <<>>

-----------------------------------------------------------------------------
\* _scan_side.
Levels(book) == {p \in LevelPrices : book[p] > 0}
Sampled(book) ==
    {p \in Levels(book) : Cardinality({q \in Levels(book) : q > p}) < Depth}

Walls(book) ==
    LET levels == Sampled(book)
        total == MapThenSumSet(LAMBDA p : book[p], levels)
    IN {p \in levels : /\ book[p] * lastPrice >= MinNotional
                       /\ book[p] * Cardinality(levels) >= Multiplier * total}

\* A bug to detect: a wall is dated by the last update that saw it.
LastSeen(p, at) == at

FirstSeen(p, at) == IF known[p] = Unknown THEN at ELSE known[p]

Remembered(active, at) ==
    [p \in LevelPrices |-> IF p \in active THEN FirstSeen(p, at) ELSE Unknown]

Young(p, at) == at - known[p] < MaxAge

Vanished(active) == {p \in LevelPrices \ active : known[p] # Unknown}

\* A valid book event with a book behind it refreshes the walls at the event's
\* timestamp; two events may have the same.
UpdateWalls ==
    /\ Len(sightings) < MaxUpdates
    /\ \E book \in [LevelPrices -> LevelSizes], at \in lastUpdate..MaxUpdateTime :
         LET active == Walls(book)
         IN /\ known' = Remembered(active, at)
            /\ result' = [walls |-> active, candidates |-> {p \in Vanished(active) : Young(p, at)}]
            /\ sightings' = Append(sightings, [at |-> at, walls |-> active])
            /\ lastUpdate' = at
    /\ UNCHANGED lastPrice

\* A trade, a ticker or a mark price moves the last price.
PriceMoves ==
    /\ \E p \in TradePrices \ {lastPrice} :
         /\ lastPrice' = p
    /\ UNCHANGED <<known, result, lastUpdate, sightings>>

WallNext == UpdateWalls \/ PriceMoves

WallSpec == WallInit /\ [][WallNext]_wallVars

-----------------------------------------------------------------------------
\* The first of the unbroken run of updates, up to the n-th, that saw a wall.
RunStart(updates, p, n) == Min({i \in 1..n : \A j \in i..n : p \in updates[j].walls})

\* Each variable has its type; a candidate is not a wall of the same result.
WallType ==
    /\ lastPrice \in TradePrices
    /\ known \in [LevelPrices -> {Unknown} \cup 0..lastUpdate]
    /\ result.walls \subseteq LevelPrices /\ result.candidates \subseteq LevelPrices \ result.walls
    /\ lastUpdate \in 0..MaxUpdateTime /\ Len(sightings) <= MaxUpdates
    /\ sightings \in Seq([at : 0..lastUpdate, walls : SUBSET LevelPrices])

\* WallDetector.update: a wall is known if and only if the last update saw it,
\* and dated by the first of the unbroken run of updates that saw it; one that
\* vanished and came back is new.
KnownSinceUnbroken ==
    \A p \in LevelPrices :
      IF sightings = <<>> \/ p \notin Last(sightings).walls
      THEN known[p] = Unknown
      ELSE known[p] = sightings[RunStart(sightings, p, Len(sightings))].at

\* "a wall that disappears within spoofing_max_age_s": the candidates are those
\* walls of the update before that are gone and had been seen for less; each is
\* reported by one update.
CandidatesAreYoung ==
    Len(sightings) > 1 =>
      LET n == Len(sightings)
          start(p) == sightings[RunStart(sightings, p, n - 1)].at
      IN result.candidates =
           {p \in sightings[n - 1].walls \ sightings[n].walls : sightings[n].at - start(p) < MaxAge}

\* What both rest on: the run that a wall is dated by starts where it was not seen
\* before.
RunsHaveAStart ==
    \A p \in LevelPrices : sightings # <<>> /\ p \in Last(sightings).walls =>
      \E i \in 1..Len(sightings) :
        /\ \A j \in i..Len(sightings) : p \in sightings[j].walls
        /\ known[p] = sightings[i].at
        /\ i > 1 => p \notin sightings[i - 1].walls

\* The walls that the detector keeps, and those it suspects, are told by the
\* sequence of the updates alone.
WallInv == WallType /\ KnownSinceUnbroken /\ CandidatesAreYoung /\ RunsHaveAStart
=============================================================================
