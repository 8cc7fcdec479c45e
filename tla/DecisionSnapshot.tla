--------------------------- MODULE DecisionSnapshot ---------------------------
(***************************************************************************)
(* From the events of several symbols to the snapshots that strategies are *)
(* evaluated on: AnalyticsConsumer dispatches one event after the other to *)
(* the SymbolState it is of, with the book that it fetches for it, and     *)
(* once an interval goes through all symbols: SnapshotBuilder puts the     *)
(* snapshot together, AnalyticsHotStateWriter writes the keys, of which    *)
(* the snapshot is the last, and DerivedEventPublisher appends it to       *)
(* stream:analytics:derived. Readers of the stream (the strategies) also   *)
(* read the keys (paper adapter, MCP tools).                               *)
(*                                                                         *)
(* A book is told apart by the version of the market_book key it was read  *)
(* from; what the engines compute is in the modules of the engines. The    *)
(* account and risk sections read keys that nothing in the system writes.  *)
(*                                                                         *)
(* Bounds: MaxEvents events, MaxVersions books, MaxClock intervals,        *)
(* MaxSnapshotFaults failed calls, expiries of a book, crashes.            *)
(***************************************************************************)
EXTENDS Naturals, FiniteSets

CONSTANTS Symbols, MaxEvents, MaxVersions, MaxClock, KeyTtl, MaxSnapshotFaults, Nil

ASSUME SnapshotAssumption ==
    /\ {MaxEvents, MaxVersions, MaxSnapshotFaults} \subseteq Nat
    /\ {MaxClock, KeyTtl} \subseteq Nat \ {0} /\ Nil \notin Nat

VARIABLES
    hotBook,   \* the market_book keys, which the normalizer writes
    versions,  \* how many there have been
    states,    \* StateStore: the SymbolState of each symbol, Nil before its first event
    round,     \* _publish_all: its time, the symbols still to do and those that failed
    hand,      \* the snapshot in hand
    doing,     \* what comes next for it
    keys,      \* snapshot_timestamp_ms in the keys of each symbol
    derived,   \* that of its last entry in stream:analytics:derived
    lastRound, clock, events, snapshotFaults

analyticsVars == <<states, round, hand, doing, lastRound>>
outputVars == <<keys, derived>>
bookVars == <<hotBook, versions>>
snapshotVars == <<bookVars, analyticsVars, outputVars, clock, events, snapshotFaults>>

KeyNames == {"walls", "snapshot", "indicators"}

SnapshotFault == snapshotFaults < MaxSnapshotFaults /\ snapshotFaults' = snapshotFaults + 1

SnapshotInit ==
    /\ hotBook = [s \in Symbols |-> Nil] /\ versions = 0
    /\ states = [s \in Symbols |-> Nil]
    /\ round = Nil /\ hand = Nil /\ doing = "nothing" /\ lastRound = 0
    /\ keys = [s \in Symbols |-> [k \in KeyNames |-> Nil]]
    /\ derived = [s \in Symbols |-> Nil]
    /\ clock = 1 /\ events = 0 /\ snapshotFaults = 0

-----------------------------------------------------------------------------
\* Around the analytics service.

\* The normalizer writes the book, or the key expires.
BookChanges(s) ==
    /\ \/ /\ versions < MaxVersions /\ versions' = versions + 1
          /\ hotBook' = [hotBook EXCEPT ![s] = versions']
          /\ UNCHANGED snapshotFaults
       \/ hotBook[s] # Nil /\ SnapshotFault
          /\ hotBook' = [hotBook EXCEPT ![s] = Nil] /\ UNCHANGED versions
    /\ UNCHANGED <<analyticsVars, outputVars, clock, events>>

\* _TTL_ANALYTICS; the indicator keys live for an hour.
Lives(k, written) == written # Nil /\ (k = "indicators" \/ clock' - written < KeyTtl)

Pass ==
    /\ clock < MaxClock /\ clock' = clock + 1
    /\ keys' = [s \in Symbols |-> [k \in KeyNames |->
                  IF Lives(k, keys[s][k]) THEN keys[s][k] ELSE Nil]]
    /\ UNCHANGED <<bookVars, analyticsVars, derived, events, snapshotFaults>>

-----------------------------------------------------------------------------
\* AnalyticsDispatcher.update: an event changes the state of its symbol.

Fresh == [price |-> FALSE, ticker |-> FALSE, indicators |-> FALSE,
          integrity |-> "none", book |-> Nil, walls |-> Nil]

StateOf(s) == IF states[s] = Nil THEN Fresh ELSE states[s]

\* _refresh_walls: without a book or a price the last result stays.
WithWalls(st) == IF st.book # Nil /\ st.price THEN [st EXCEPT !.walls = st.book] ELSE st

WithBook(st, fetched) ==
    [st EXCEPT !.integrity = "valid", !.book = IF fetched = Nil THEN @ ELSE fetched]

\* The mid of a book that has both sides is the last price.
Priced(st, sides) == [st EXCEPT !.price = @ \/ (st.book # Nil /\ sides = 2)]

\* A bug to detect: the walls are refreshed by deltas only.
SnapshotWithoutWalls(st, fetched, sides) == Priced(WithBook(st, fetched), sides)

\* The walls come before the price: those of a first book wait for the next.
OnSnapshotEvent(st, fetched, sides) == Priced(WithWalls(WithBook(st, fetched)), sides)

\* A delta that overlaps what was applied is in sequence even of an invalid book.
OnDeltaEvent(st, fetched, fits) ==
    CASE st.integrity = "none" -> st
      [] st.integrity # "none" /\ fits = "stale" -> st
      [] st.integrity # "none" /\ fits = "gap" -> [st EXCEPT !.integrity = "invalid"]
      [] st.integrity # "none" /\ fits = "next" ->
           IF fetched = Nil THEN st ELSE WithWalls([st EXCEPT !.book = fetched])

\* A trade, ticker or mark with a positive price has the last price; a closed
\* candle makes the engine of its interval; other events change nothing here.
Outcomes(st, fetched) ==
    {[st EXCEPT !.price = TRUE], [st EXCEPT !.ticker = TRUE],
     [st EXCEPT !.ticker = TRUE, !.price = TRUE], [st EXCEPT !.indicators = TRUE], st}
    \cup {OnSnapshotEvent(st, fetched, sides) : sides \in 1..2}
    \cup {OnDeltaEvent(st, fetched, fits) : fits \in {"stale", "gap", "next"}}

\* _process: between rounds, with the book that _fetch_book gets, if it does.
Dispatch(s) ==
    /\ round = Nil /\ events < MaxEvents /\ events' = events + 1
    /\ \E fetched \in {hotBook[s], Nil} :
         /\ IF fetched = hotBook[s] THEN UNCHANGED snapshotFaults ELSE SnapshotFault
         /\ \E st \in Outcomes(StateOf(s), fetched) : states' = [states EXCEPT ![s] = st]
    /\ UNCHANGED <<bookVars, outputVars, round, hand, doing, lastRound, clock>>

-----------------------------------------------------------------------------
\* _publish_all.

Active == {s \in Symbols : states[s] # Nil}

StartRound ==
    /\ round = Nil /\ clock > lastRound /\ lastRound' = clock
    /\ round' = [at |-> clock, todo |-> Active, failed |-> {}]
    /\ UNCHANGED <<bookVars, states, hand, doing, outputVars, clock, events, snapshotFaults>>

\* build: the book's section needs a valid book; the best bid and ask are those of
\* the last ticker and, without one, those of the last book, valid or not.
SnapshotOf(st) ==
    LET usable == st.integrity = "valid" /\ st.book # Nil
    IN [quotes |-> IF st.ticker THEN Nil ELSE st.book,   \* Nil: not of a book
        book |-> IF usable THEN st.book ELSE Nil,
        walls |-> IF usable THEN st.walls ELSE Nil]

Build(s) ==
    /\ round # Nil /\ s \in round.todo /\ hand = Nil
    /\ hand' = [symbol |-> s, snapshot |-> SnapshotOf(states[s])] /\ doing' = "keys"
    /\ UNCHANGED <<bookVars, states, round, lastRound, outputVars, clock, events, snapshotFaults>>

Done(failed) ==
    /\ round' = [round EXCEPT !.todo = @ \ {hand.symbol}, !.failed = @ \cup failed]
    /\ hand' = Nil /\ doing' = "nothing"

\* The exception of one symbol is logged and the next one is done.
GiveUp == SnapshotFault /\ Done({hand.symbol})

Written(names) ==
    keys' = [keys EXCEPT ![hand.symbol] =
               [k \in KeyNames |-> IF k \in names THEN round.at ELSE @[k]]]

\* One pipeline, not a transaction: when it fails any number of its commands, in
\* their order, were executed.
WriteKeys ==
    /\ doing = "keys"
    /\ \/ /\ Written({"walls", "snapshot"})
          /\ doing' = IF states[hand.symbol].indicators THEN "indicators" ELSE "stream"
          /\ UNCHANGED <<round, hand, snapshotFaults>>
       \/ GiveUp /\ \E names \in {{}, {"walls"}, {"walls", "snapshot"}} : Written(names)
    /\ UNCHANGED <<bookVars, states, lastRound, derived, clock, events>>

\* The keys of the intervals are a pipeline of their own.
WriteIndicators ==
    /\ doing = "indicators"
    /\ \/ Written({"indicators"}) /\ doing' = "stream" /\ UNCHANGED <<round, hand, snapshotFaults>>
       \/ GiveUp /\ \E names \in {{}, {"indicators"}} : Written(names)
    /\ UNCHANGED <<bookVars, states, lastRound, derived, clock, events>>

\* A failure comes before the entry is there, or after.
PublishDerived ==
    /\ doing = "stream"
    /\ \/ derived' = [derived EXCEPT ![hand.symbol] = round.at] /\ Done({}) /\ UNCHANGED snapshotFaults
       \/ GiveUp /\ derived' \in {derived, [derived EXCEPT ![hand.symbol] = round.at]}
    /\ UNCHANGED <<bookVars, states, lastRound, keys, clock, events>>

EndRound ==
    /\ round # Nil /\ round.todo = {} /\ round' = Nil
    /\ UNCHANGED <<bookVars, states, hand, doing, lastRound, outputVars, clock, events, snapshotFaults>>

\* The service starts again with an empty store; what it had read is not read again.
CrashAnalytics ==
    /\ SnapshotFault
    /\ states' = [s \in Symbols |-> Nil]
    /\ round' = Nil /\ hand' = Nil /\ doing' = "nothing" /\ lastRound' = 0
    /\ UNCHANGED <<bookVars, outputVars, clock, events>>

SnapshotNext ==
    \/ \E s \in Symbols : BookChanges(s) \/ Dispatch(s) \/ Build(s)
    \/ Pass \/ StartRound \/ WriteKeys \/ WriteIndicators \/ PublishDerived \/ EndRound
    \/ CrashAnalytics

SnapshotSpec == SnapshotInit /\ [][SnapshotNext]_snapshotVars

-----------------------------------------------------------------------------
Version == 1..MaxVersions \cup {Nil}
StampOrNil == 1..MaxClock \cup {Nil}

KnownState ==
    [price : BOOLEAN, ticker : BOOLEAN, indicators : BOOLEAN,
     integrity : {"none", "valid", "invalid"}, book : Version, walls : Version]

\* Every variable keeps its type; a snapshot is in hand in a round only, of a
\* symbol still to do.
SnapshotType ==
    /\ hotBook \in [Symbols -> Version] /\ versions \in 0..MaxVersions
    /\ states \in [Symbols -> KnownState \cup {Nil}]
    /\ round # Nil => round \in [at : 1..clock, todo : SUBSET Active, failed : SUBSET Active]
    /\ doing \in {"nothing", "keys", "indicators", "stream"}
    /\ IF doing = "nothing" THEN hand = Nil
       ELSE /\ round # Nil /\ hand.symbol \in round.todo
            /\ hand \in [symbol : Symbols, snapshot : [quotes : Version, book : Version, walls : Version]]
    /\ keys \in [Symbols -> [KeyNames -> StampOrNil]] /\ derived \in [Symbols -> StampOrNil]
    /\ clock \in 1..MaxClock /\ lastRound \in 0..clock
    /\ events \in 0..MaxEvents /\ snapshotFaults \in 0..MaxSnapshotFaults

\* SnapshotBuilder.build: what one snapshot shows of the book, its depth, its
\* walls and, without a ticker, its best bid and ask, is of one book, whatever
\* fetches failed and whatever gaps there were; walls may be missing.
OneBook ==
    hand # Nil =>
      LET shown == hand.snapshot IN
      /\ shown.walls \in {Nil, shown.book}
      /\ shown.book # Nil => shown.quotes \in {Nil, shown.book}

\* hot_state.write, then publish (consumer.py:135): whoever has a snapshot from
\* the stream finds no older one under its key, and beside a snapshot no older
\* walls, whichever commands failed. A key may have expired.
ReadersFindNothingOlder ==
    \A s \in Symbols :
      /\ derived[s] # Nil /\ keys[s]["snapshot"] # Nil => keys[s]["snapshot"] >= derived[s]
      /\ keys[s]["snapshot"] # Nil /\ keys[s]["walls"] # Nil
           => keys[s]["walls"] >= keys[s]["snapshot"]

\* "build + publish snapshots for all active symbols" (consumer.py:31): a round
\* publishes every symbol that has had an event since the start, except those
\* of which a call failed.
RoundsAreComplete ==
    round # Nil /\ round.todo = {} =>
      \A s \in Active \ round.failed : derived[s] = round.at

\* What these rest on: walls are of the book beside them or there are none, and without
\* a price there are none;
WallsOfTheBook == \A s \in Active : states[s].walls \in {Nil, states[s].book}
                                   /\ (states[s].walls # Nil => states[s].price)

\* what is out is no newer than the round, whose own snapshot, before it is
\* published, is under its key unless that has expired; and the symbols that a
\* round has done are those it published.
OutIsOfThePast ==
    LET now == IF round = Nil THEN clock ELSE round.at IN
    \A s \in Symbols :
      /\ \A k \in KeyNames : keys[s][k] # Nil => keys[s][k] <= now
      /\ derived[s] # Nil => derived[s] <= now

KeysBeforeStream ==
    doing \in {"indicators", "stream"} => keys[hand.symbol]["snapshot"] \in {round.at, Nil}

DoneIsPublished ==
    round # Nil => \A s \in Active \ (round.failed \cup round.todo) : derived[s] = round.at

\* Snapshots are coherent, in time and complete.
SnapshotInv ==
    /\ SnapshotType /\ OneBook /\ ReadersFindNothingOlder /\ RoundsAreComplete
    /\ WallsOfTheBook /\ OutIsOfThePast /\ KeysBeforeStream /\ DoneIsPublished
=============================================================================
