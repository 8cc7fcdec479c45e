-------------------------- MODULE SymbolState_proofs --------------------------
(***************************************************************************)
(* Theorems about what the analytics service makes of the market: the      *)
(* snapshots of all symbols that DecisionSnapshot publishes once a second, *)
(* the walls that BookWalls finds in a book, what TradeFlow keeps of the   *)
(* trades and the liquidations, and the averages of Indicators, for any    *)
(* number of them and for SymbolState, which holds the four.               *)
(***************************************************************************)
EXTENDS SymbolState, Sums, FiniteSetTheorems, SequenceTheorems, TLAPS

-----------------------------------------------------------------------------
\* DecisionSnapshot.

LEMMA SnapshotInitInv == SnapshotInit => SnapshotInv
<1> SUFFICES ASSUME SnapshotInit PROVE SnapshotInv
  OBVIOUS
<1> USE SnapshotAssumption DEF SnapshotInit
<1>1. SnapshotType
  BY DEF SnapshotType, Version, StampOrNil
<1>2. Active = {}
  BY DEF Active
<1>3. OneBook /\ ReadersFindNothingOlder /\ RoundsAreComplete /\ WallsOfTheBook /\ DoneIsPublished
  BY <1>2 DEF OneBook, ReadersFindNothingOlder, RoundsAreComplete, WallsOfTheBook, DoneIsPublished, KeyNames
<1>4. OutIsOfThePast /\ KeysBeforeStream
  BY DEF OutIsOfThePast, KeysBeforeStream
<1>5. QED
  BY <1>1, <1>3, <1>4 DEF SnapshotInv

\* A state of a symbol whose walls are of its book.
Sound(st) == st \in KnownState /\ st.walls \in {Nil, st.book} /\ (st.walls # Nil => st.price)

LEMMA FreshSound == Sound(Fresh)
BY DEF Sound, Fresh, KnownState, Version

LEMMA WithWallsSound ==
  ASSUME NEW st \in KnownState, st.walls # Nil => st.price, st.walls # Nil => st.book # Nil
  PROVE  Sound(WithWalls(st)) /\ WithWalls(st).book = st.book /\ WithWalls(st).price = st.price
BY DEF Sound, WithWalls, KnownState

\* Whatever event there is and whichever book is fetched with it.
LEMMA OutcomesSound ==
  ASSUME NEW st, Sound(st), NEW fetched \in Version, NEW out \in Outcomes(st, fetched)
  PROVE  Sound(out)
<1>1. st \in KnownState /\ st.walls \in {Nil, st.book} /\ (st.walls # Nil => st.price)
  BY DEF Sound
<1>2. CASE out \in {[st EXCEPT !.price = TRUE], [st EXCEPT !.ticker = TRUE],
                    [st EXCEPT !.ticker = TRUE, !.price = TRUE], [st EXCEPT !.indicators = TRUE], st}
  BY <1>1, <1>2 DEF Sound, KnownState
<1>3. ASSUME NEW sides \in 1..2, out = OnSnapshotEvent(st, fetched, sides) PROVE Sound(out)
  <2> DEFINE a == WithBook(st, fetched)
  <2> DEFINE b == WithWalls(a)
  <2>1. /\ a \in KnownState /\ a.walls = st.walls /\ a.price = st.price
        /\ a.book = IF fetched = Nil THEN st.book ELSE fetched
    BY <1>1 DEF WithBook, KnownState
  <2>2. Sound(b)
    <3>1. (a.walls # Nil => a.price) /\ (a.walls # Nil => a.book # Nil)
      BY <1>1, <2>1
    <3> HIDE DEF a
    <3>2. QED
      BY <2>1, <3>1, WithWallsSound
  <2> HIDE DEF b
  <2>3. Sound(Priced(b, sides))
    BY <2>2 DEF Sound, Priced, KnownState
  <2>4. QED
    BY <1>3, <2>3 DEF OnSnapshotEvent, b
<1>4. ASSUME NEW fits \in {"stale", "gap", "next"}, out = OnDeltaEvent(st, fetched, fits) PROVE Sound(out)
  <2>1. CASE fits = "next" /\ st.integrity # "none" /\ fetched # Nil
    <3> DEFINE a == [st EXCEPT !.book = fetched]
    <3>1. /\ a \in KnownState /\ a.walls = st.walls /\ a.price = st.price /\ a.book = fetched
      BY <1>1 DEF KnownState
    <3> HIDE DEF a
    <3>2. Sound(WithWalls(a))
      BY <1>1, <2>1, <3>1, WithWallsSound
    <3>3. out = WithWalls(a)
      BY <1>4, <2>1 DEF OnDeltaEvent, a
    <3>4. QED
      BY <3>2, <3>3
  <2>2. CASE ~(fits = "next" /\ st.integrity # "none" /\ fetched # Nil)
    <3>1. out \in {st, [st EXCEPT !.integrity = "invalid"]}
      BY <1>4, <2>2 DEF OnDeltaEvent
    <3>2. QED
      BY <1>1, <3>1 DEF Sound, KnownState
  <2>3. QED
    BY <2>1, <2>2
<1>5. QED
  BY <1>2, <1>3, <1>4 DEF Outcomes

\* The parts of the invariant that matter between steps.
SnapshotParts ==
    SnapshotType /\ WallsOfTheBook /\ OneBook /\ ReadersFindNothingOlder /\ OutIsOfThePast
    /\ KeysBeforeStream /\ DoneIsPublished

LEMMA BookChangesStep ==
  ASSUME SnapshotParts, NEW s \in Symbols, BookChanges(s) PROVE SnapshotParts'
<1> USE SnapshotAssumption
<1>1. /\ UNCHANGED <<states, round, hand, doing, lastRound, keys, derived, clock, events>>
      /\ hotBook' \in [Symbols -> Version] /\ versions' \in 0..MaxVersions
      /\ snapshotFaults' \in 0..MaxSnapshotFaults
  <2>1. UNCHANGED <<states, round, hand, doing, lastRound, keys, derived, clock, events>>
    BY DEF BookChanges, analyticsVars, outputVars
  <2>2. /\ hotBook \in [Symbols -> Version] /\ versions \in 0..MaxVersions
        /\ snapshotFaults \in 0..MaxSnapshotFaults
    BY DEF SnapshotParts, SnapshotType
  <2>3. CASE /\ versions < MaxVersions /\ versions' = versions + 1
             /\ hotBook' = [hotBook EXCEPT ![s] = versions'] /\ UNCHANGED snapshotFaults
    <3>1. versions' \in 0..MaxVersions /\ versions' \in Version
      BY <2>2, <2>3 DEF Version
    <3>2. QED
      BY <2>1, <2>2, <2>3, <3>1
  <2>4. CASE SnapshotFault /\ hotBook' = [hotBook EXCEPT ![s] = Nil] /\ UNCHANGED versions
    BY <2>1, <2>2, <2>4 DEF SnapshotFault, Version
  <2>5. QED
    BY <2>3, <2>4 DEF BookChanges
<1>2. Active' = Active
  BY <1>1 DEF Active
<1>3. QED
  BY <1>1, <1>2 DEF SnapshotParts, SnapshotType, WallsOfTheBook, OneBook, ReadersFindNothingOlder,
     OutIsOfThePast, KeysBeforeStream, DoneIsPublished

LEMMA PassStep == ASSUME SnapshotParts, Pass PROVE SnapshotParts'
<1> USE SnapshotAssumption
<1>1. /\ UNCHANGED <<hotBook, versions, states, round, hand, doing, lastRound, derived, events, snapshotFaults>>
      /\ clock' = clock + 1 /\ clock \in 1..MaxClock /\ clock' \in 1..MaxClock
  BY DEF Pass, SnapshotParts, SnapshotType, bookVars, analyticsVars
<1>2. /\ keys' \in [Symbols -> [KeyNames -> StampOrNil]]
      /\ \A s \in Symbols, k \in KeyNames : keys'[s][k] \in {keys[s][k], Nil}
  BY DEF Pass, SnapshotParts, SnapshotType, StampOrNil
<1>3. Active' = Active
  BY <1>1 DEF Active
<1>4. SnapshotType'
  BY <1>1, <1>2, <1>3 DEF SnapshotParts, SnapshotType
<1>5. WallsOfTheBook' /\ OneBook' /\ DoneIsPublished'
  BY <1>1, <1>3 DEF SnapshotParts, WallsOfTheBook, OneBook, DoneIsPublished
<1>6. ReadersFindNothingOlder' /\ KeysBeforeStream'
  BY <1>1, <1>2 DEF SnapshotParts, ReadersFindNothingOlder, KeysBeforeStream, KeyNames, SnapshotType
<1>7. OutIsOfThePast'
  BY <1>1, <1>2 DEF SnapshotParts, OutIsOfThePast, SnapshotType, StampOrNil
<1>8. QED
  BY <1>4, <1>5, <1>6, <1>7 DEF SnapshotParts

LEMMA DispatchStep ==
  ASSUME SnapshotParts, NEW s \in Symbols, Dispatch(s) PROVE SnapshotParts'
<1> USE SnapshotAssumption
<1>1. /\ UNCHANGED <<hotBook, versions, keys, derived, round, hand, doing, lastRound, clock>>
      /\ round = Nil
      /\ events' \in 0..MaxEvents /\ snapshotFaults' \in 0..MaxSnapshotFaults
  BY DEF SnapshotParts, Dispatch, SnapshotFault, SnapshotType, bookVars, outputVars
<1>2. PICK st : Sound(st) /\ states' = [states EXCEPT ![s] = st]
  <2>1. Sound(StateOf(s))
    BY FreshSound DEF StateOf, SnapshotParts, SnapshotType, WallsOfTheBook, Active, Sound
  <2>2. hotBook[s] \in Version /\ Nil \in Version
    BY DEF SnapshotParts, SnapshotType, Version
  <2>3. QED
    BY <2>1, <2>2, OutcomesSound DEF Dispatch
<1>3. /\ states' \in [Symbols -> KnownState \cup {Nil}]
      /\ \A t \in Active' : states'[t] \in {states[t], st} /\ (t = s \/ t \in Active)
  BY <1>2 DEF SnapshotParts, SnapshotType, Sound, Active
<1>4. WallsOfTheBook'
  BY <1>2, <1>3 DEF SnapshotParts, SnapshotType, WallsOfTheBook, Sound
<1>5. doing = "nothing" /\ hand = Nil
  BY <1>1 DEF SnapshotParts, SnapshotType
<1>6. SnapshotType'
  BY <1>1, <1>3, <1>5 DEF SnapshotParts, SnapshotType
<1>7. OneBook' /\ ReadersFindNothingOlder' /\ OutIsOfThePast' /\ KeysBeforeStream' /\ DoneIsPublished'
  BY <1>1 DEF SnapshotParts, OneBook, ReadersFindNothingOlder, OutIsOfThePast, KeysBeforeStream,
     DoneIsPublished
<1>8. QED
  BY <1>4, <1>6, <1>7 DEF SnapshotParts

\* Neither the state of a symbol nor the clock changes in what is left: what is
\* active stays so.
LEMMA StartRoundStep == ASSUME SnapshotParts, StartRound PROVE SnapshotParts'
<1> USE SnapshotAssumption
<1>1. /\ UNCHANGED <<hotBook, versions, states, hand, doing, keys, derived, clock, events, snapshotFaults>>
      /\ round = Nil /\ lastRound' = clock
      /\ round' = [at |-> clock, todo |-> Active, failed |-> {}]
  BY DEF StartRound, bookVars, outputVars
<1>2. /\ Active' = Active /\ doing = "nothing" /\ hand = Nil /\ clock \in 1..MaxClock
      /\ round'.at = clock /\ round'.todo = Active
  BY <1>1 DEF Active, SnapshotParts, SnapshotType
<1>3. SnapshotType'
  BY <1>1, <1>2 DEF SnapshotParts, SnapshotType
<1>4. WallsOfTheBook' /\ OneBook' /\ ReadersFindNothingOlder' /\ KeysBeforeStream' /\ DoneIsPublished'
  BY <1>1, <1>2 DEF SnapshotParts, OneBook, ReadersFindNothingOlder, KeysBeforeStream,
     DoneIsPublished, WallsOfTheBook
<1>5. OutIsOfThePast'
  BY <1>1, <1>2 DEF SnapshotParts, OutIsOfThePast
<1>6. QED
  BY <1>3, <1>4, <1>5 DEF SnapshotParts

LEMMA BuildStep ==
  ASSUME SnapshotParts, NEW s \in Symbols, Build(s) PROVE SnapshotParts'
<1> USE SnapshotAssumption
<1>1. /\ UNCHANGED <<hotBook, versions, states, round, lastRound, keys, derived, clock, events, snapshotFaults>>
      /\ round # Nil /\ s \in round.todo /\ doing' = "keys"
      /\ hand' = [symbol |-> s, snapshot |-> SnapshotOf(states[s])]
  BY DEF Build, bookVars, outputVars
<1>2. Active' = Active
  BY <1>1 DEF Active
<1>3. s \in Active
  BY <1>1 DEF SnapshotParts, SnapshotType
<1>4. states[s] \in KnownState /\ states[s].walls \in {Nil, states[s].book}
  BY <1>3 DEF SnapshotParts, SnapshotType, WallsOfTheBook, Active
<1>5. hand'.symbol = s /\ hand'.snapshot = SnapshotOf(states[s])
  BY <1>1
<1>6. /\ SnapshotOf(states[s]) \in [quotes : Version, book : Version, walls : Version]
      /\ SnapshotOf(states[s]).walls \in {Nil, SnapshotOf(states[s]).book}
      /\ SnapshotOf(states[s]).book # Nil =>
           SnapshotOf(states[s]).quotes \in {Nil, SnapshotOf(states[s]).book}
  BY <1>4 DEF SnapshotOf, KnownState, Version
<1>7. SnapshotType'
  BY <1>1, <1>2, <1>5, <1>6 DEF SnapshotParts, SnapshotType
<1>8. OneBook'
  BY <1>5, <1>6 DEF OneBook
<1>9. WallsOfTheBook' /\ ReadersFindNothingOlder' /\ OutIsOfThePast' /\ KeysBeforeStream' /\ DoneIsPublished'
  BY <1>1, <1>2 DEF SnapshotParts, WallsOfTheBook, ReadersFindNothingOlder, OutIsOfThePast,
     KeysBeforeStream, DoneIsPublished
<1>10. QED
  BY <1>7, <1>8, <1>9 DEF SnapshotParts

LEMMA EndRoundStep == ASSUME SnapshotParts, EndRound PROVE SnapshotParts'
<1> USE SnapshotAssumption
<1>1. /\ UNCHANGED <<hotBook, versions, states, hand, doing, lastRound, keys, derived, clock, events, snapshotFaults>>
      /\ round # Nil /\ round.todo = {} /\ round' = Nil
  BY DEF EndRound, bookVars, outputVars
<1>2. Active' = Active /\ doing = "nothing" /\ hand = Nil
  BY <1>1 DEF Active, SnapshotParts, SnapshotType
<1>3. SnapshotType'
  BY <1>1, <1>2 DEF SnapshotParts, SnapshotType
<1>4. WallsOfTheBook' /\ OneBook' /\ ReadersFindNothingOlder' /\ KeysBeforeStream' /\ DoneIsPublished'
  BY <1>1, <1>2 DEF SnapshotParts, OneBook, ReadersFindNothingOlder, KeysBeforeStream,
     DoneIsPublished, WallsOfTheBook
<1>5. OutIsOfThePast'
  <2>1. round.at \in 1..clock /\ clock \in Nat
    BY <1>1 DEF SnapshotParts, SnapshotType
  <2>2. \A t \in StampOrNil : t # Nil => t \in Nat
    BY DEF StampOrNil
  <2>3. QED
    BY <1>1, <2>1, <2>2 DEF SnapshotParts, OutIsOfThePast, SnapshotType
<1>6. QED
  BY <1>3, <1>4, <1>5 DEF SnapshotParts

LEMMA CrashStep == ASSUME SnapshotParts, CrashAnalytics PROVE SnapshotParts'
<1> USE SnapshotAssumption
<1>1. /\ UNCHANGED <<hotBook, versions, keys, derived, clock, events>>
      /\ states' = [s \in Symbols |-> Nil] /\ round' = Nil /\ hand' = Nil /\ doing' = "nothing"
      /\ lastRound' = 0 /\ snapshotFaults' \in 0..MaxSnapshotFaults
  BY DEF CrashAnalytics, SnapshotFault, SnapshotParts, SnapshotType, bookVars, outputVars
<1>2. Active' = {}
  BY <1>1 DEF Active
<1>3. SnapshotType'
  BY <1>1, <1>2 DEF SnapshotParts, SnapshotType
<1>4. WallsOfTheBook' /\ OneBook' /\ ReadersFindNothingOlder' /\ KeysBeforeStream' /\ DoneIsPublished'
  BY <1>1, <1>2 DEF SnapshotParts, OneBook, ReadersFindNothingOlder, KeysBeforeStream,
     DoneIsPublished, WallsOfTheBook
<1>5. OutIsOfThePast'
  <2>1. round # Nil => round.at \in 1..clock
    BY <1>1 DEF SnapshotParts, SnapshotType
  <2>2. \A t \in StampOrNil : t # Nil => t \in Nat
    BY DEF StampOrNil
  <2>3. clock \in Nat
    BY DEF SnapshotParts, SnapshotType
  <2>4. QED
    BY <1>1, <2>1, <2>2, <2>3 DEF SnapshotParts, OutIsOfThePast, SnapshotType
<1>6. QED
  BY <1>3, <1>4, <1>5 DEF SnapshotParts

\* The round that a snapshot in hand is of.
LEMMA InRound ==
  ASSUME SnapshotParts, doing # "nothing"
  PROVE  /\ round # Nil /\ hand.symbol \in Symbols /\ hand.symbol \in Active
         /\ round \in [at : 1..clock, todo : SUBSET Active, failed : SUBSET Active]
         /\ round.at \in 1..MaxClock /\ round.at \in Nat /\ clock \in 1..MaxClock /\ clock \in Nat
         /\ round.at <= clock /\ round.at \in StampOrNil
         /\ \A s \in Symbols :
              /\ \A k \in KeyNames : keys[s][k] # Nil => keys[s][k] <= round.at /\ keys[s][k] \in Nat
              /\ derived[s] # Nil => derived[s] <= round.at /\ derived[s] \in Nat
<1> USE SnapshotAssumption
<1>1. round # Nil /\ hand.symbol \in round.todo
      /\ round \in [at : 1..clock, todo : SUBSET Active, failed : SUBSET Active] /\ clock \in 1..MaxClock
  BY DEF SnapshotParts, SnapshotType
<1>2. \A s \in Symbols :
        /\ \A k \in KeyNames : keys[s][k] # Nil => keys[s][k] <= round.at
        /\ derived[s] # Nil => derived[s] <= round.at
  BY <1>1 DEF SnapshotParts, OutIsOfThePast
<1>3. \A s \in Symbols : /\ \A k \in KeyNames : keys[s][k] # Nil => keys[s][k] \in Nat
                         /\ derived[s] # Nil => derived[s] \in Nat
  BY DEF SnapshotParts, SnapshotType, StampOrNil
<1>4. QED
  BY <1>1, <1>2, <1>3 DEF Active, StampOrNil

LEMMA WrittenKeys ==
  ASSUME SnapshotParts, doing # "nothing", NEW names, Written(names)
  PROVE  /\ keys' \in [Symbols -> [KeyNames -> StampOrNil]]
         /\ \A s \in Symbols, k \in KeyNames :
              keys'[s][k] = IF s = hand.symbol /\ k \in names THEN round.at ELSE keys[s][k]
BY InRound DEF Written, SnapshotParts, SnapshotType

LEMMA DoneRound ==
  ASSUME SnapshotParts, doing # "nothing", UNCHANGED <<states, clock>>,
         NEW failed, failed \subseteq {hand.symbol}, Done(failed)
  PROVE  /\ round' \in [at : 1..clock', todo : SUBSET Active', failed : SUBSET Active']
         /\ round'.at = round.at /\ round'.todo = round.todo \ {hand.symbol}
         /\ round'.failed = round.failed \cup failed
         /\ hand' = Nil /\ doing' = "nothing"
<1>1. Active' = Active
  BY DEF Active
<1>2. QED
  BY <1>1, InRound DEF Done

\* What is written in a round has its time.
LEMMA StillOfThePast ==
  ASSUME SnapshotParts, doing # "nothing", clock' = clock, round'.at = round.at,
         \A s \in Symbols : /\ \A k \in KeyNames : keys'[s][k] \in {keys[s][k], round.at}
                            /\ derived'[s] \in {derived[s], round.at}
  PROVE  OutIsOfThePast'
<1> DEFINE present == IF round' = Nil THEN clock ELSE round.at
<1>1. round.at <= present /\ present \in Nat
  BY InRound
<1>2. \A s \in Symbols : /\ \A k \in KeyNames : keys'[s][k] # Nil => keys'[s][k] <= present
                         /\ derived'[s] # Nil => derived'[s] <= present
  <2> HIDE DEF present
  <2>1. QED
    BY <1>1, InRound
<1>3. QED
  BY <1>2 DEF OutIsOfThePast

\* The keys of a snapshot are written, walls first, all or as far as it got.
LEMMA KeysStep ==
  ASSUME SnapshotParts, doing # "nothing", NEW names, Written(names),
         "snapshot" \in names => "walls" \in names,
         clock' = clock, derived' = derived, round'.at = round.at
  PROVE  OutIsOfThePast' /\ ReadersFindNothingOlder'
<1> USE SnapshotAssumption
<1>1. \A s \in Symbols, k \in KeyNames :
        keys'[s][k] = IF s = hand.symbol /\ k \in names THEN round.at ELSE keys[s][k]
  BY WrittenKeys
<1>2. OutIsOfThePast'
  BY <1>1, StillOfThePast
<1>3. ASSUME NEW s \in Symbols
      PROVE  /\ derived[s] # Nil /\ keys'[s]["snapshot"] # Nil => keys'[s]["snapshot"] >= derived[s]
             /\ keys'[s]["snapshot"] # Nil /\ keys'[s]["walls"] # Nil
                  => keys'[s]["walls"] >= keys'[s]["snapshot"]
  <2>1. "snapshot" \in KeyNames /\ "walls" \in KeyNames
    BY DEF KeyNames
  <2>2. /\ derived[s] # Nil /\ keys[s]["snapshot"] # Nil => keys[s]["snapshot"] >= derived[s]
        /\ keys[s]["snapshot"] # Nil /\ keys[s]["walls"] # Nil
             => keys[s]["walls"] >= keys[s]["snapshot"]
    BY DEF SnapshotParts, ReadersFindNothingOlder
  <2>3. /\ keys[s]["snapshot"] # Nil => keys[s]["snapshot"] <= round.at /\ keys[s]["snapshot"] \in Nat
        /\ derived[s] # Nil => derived[s] <= round.at /\ derived[s] \in Nat
        /\ round.at \in Nat
    BY <2>1, InRound
  <2>4. /\ keys'[s]["snapshot"] \in {keys[s]["snapshot"], round.at}
        /\ keys'[s]["walls"] \in {keys[s]["walls"], round.at}
        /\ keys'[s]["snapshot"] # keys[s]["snapshot"] => keys'[s]["walls"] = round.at
    BY <1>1, <2>1
  <2>5. QED
    BY <2>2, <2>3, <2>4
<1>4. QED
  BY <1>2, <1>3 DEF ReadersFindNothingOlder

LEMMA SnapshotFaultStep ==
  ASSUME SnapshotParts, SnapshotFault \/ UNCHANGED snapshotFaults
  PROVE  snapshotFaults' \in 0..MaxSnapshotFaults
BY SnapshotAssumption DEF SnapshotParts, SnapshotType, SnapshotFault

LEMMA WriteKeysStep == ASSUME SnapshotParts, WriteKeys PROVE SnapshotParts'
<1> USE SnapshotAssumption
<1>1. /\ UNCHANGED <<hotBook, versions, states, lastRound, derived, clock, events>>
      /\ doing = "keys" /\ doing # "nothing"
      /\ SnapshotFault \/ UNCHANGED snapshotFaults
  BY DEF WriteKeys, bookVars, GiveUp
<1>2. Active' = Active
  BY <1>1 DEF Active
<1>3. snapshotFaults' \in 0..MaxSnapshotFaults
  BY <1>1, SnapshotFaultStep
<1>4. WallsOfTheBook'
  BY <1>1, <1>2 DEF SnapshotParts, WallsOfTheBook
<1>5. CASE /\ Written({"walls", "snapshot"}) /\ UNCHANGED <<round, hand, snapshotFaults>>
           /\ doing' = IF states[hand.symbol].indicators THEN "indicators" ELSE "stream"
  <2>1. /\ keys' \in [Symbols -> [KeyNames -> StampOrNil]]
        /\ keys'[hand.symbol]["snapshot"] = round.at
    BY <1>1, <1>5, WrittenKeys, InRound DEF KeyNames
  <2>2. doing' \in {"indicators", "stream"}
    BY <1>5
  <2>3. SnapshotType'
    BY <1>1, <1>2, <1>5, <2>1, <2>2 DEF SnapshotParts, SnapshotType
  <2>4. OutIsOfThePast' /\ ReadersFindNothingOlder'
    BY <1>1, <1>5, KeysStep
  <2>5. KeysBeforeStream' /\ DoneIsPublished' /\ OneBook'
    BY <1>1, <1>2, <1>5, <2>1 DEF SnapshotParts, KeysBeforeStream, DoneIsPublished, OneBook
  <2>6. QED
    BY <1>4, <2>3, <2>4, <2>5 DEF SnapshotParts
<1>6. CASE GiveUp /\ \E names \in {{}, {"walls"}, {"walls", "snapshot"}} : Written(names)
  <2>1. PICK names \in {{}, {"walls"}, {"walls", "snapshot"}} : Written(names)
    BY <1>6
  <2>2. keys' \in [Symbols -> [KeyNames -> StampOrNil]]
    BY <1>1, <2>1, WrittenKeys
  <2>3. /\ round' \in [at : 1..clock', todo : SUBSET Active', failed : SUBSET Active']
        /\ round'.at = round.at /\ round'.todo = round.todo \ {hand.symbol}
        /\ round'.failed = round.failed \cup {hand.symbol}
        /\ hand' = Nil /\ doing' = "nothing"
    BY <1>1, <1>6, DoneRound DEF GiveUp
  <2>4. OutIsOfThePast' /\ ReadersFindNothingOlder'
    BY <1>1, <2>1, <2>3, KeysStep
  <2>5. SnapshotType'
    BY <1>1, <1>2, <1>3, <2>2, <2>3 DEF SnapshotParts, SnapshotType
  <2>6. DoneIsPublished'
    BY <1>1, <1>2, <2>3, InRound DEF SnapshotParts, DoneIsPublished
  <2>7. KeysBeforeStream' /\ OneBook'
    BY <2>3 DEF KeysBeforeStream, OneBook
  <2>8. QED
    BY <1>4, <2>4, <2>5, <2>6, <2>7 DEF SnapshotParts
<1>7. QED
  BY <1>5, <1>6 DEF WriteKeys

LEMMA WriteIndicatorsStep == ASSUME SnapshotParts, WriteIndicators PROVE SnapshotParts'
<1> USE SnapshotAssumption
<1>1. /\ UNCHANGED <<hotBook, versions, states, lastRound, derived, clock, events>>
      /\ doing = "indicators" /\ doing # "nothing"
      /\ SnapshotFault \/ UNCHANGED snapshotFaults
  BY DEF WriteIndicators, bookVars, GiveUp
<1>2. Active' = Active
  BY <1>1 DEF Active
<1>3. snapshotFaults' \in 0..MaxSnapshotFaults
  BY <1>1, SnapshotFaultStep
<1>4. WallsOfTheBook'
  BY <1>1, <1>2 DEF SnapshotParts, WallsOfTheBook
<1>5. CASE Written({"indicators"}) /\ doing' = "stream" /\ UNCHANGED <<round, hand, snapshotFaults>>
  <2>1. /\ keys' \in [Symbols -> [KeyNames -> StampOrNil]]
        /\ keys'[hand.symbol]["snapshot"] = keys[hand.symbol]["snapshot"]
    BY <1>1, <1>5, WrittenKeys, InRound DEF KeyNames
  <2>2. SnapshotType'
    BY <1>1, <1>2, <1>5, <2>1 DEF SnapshotParts, SnapshotType
  <2>3. OutIsOfThePast' /\ ReadersFindNothingOlder'
    BY <1>1, <1>5, KeysStep
  <2>4. KeysBeforeStream' /\ DoneIsPublished' /\ OneBook'
    BY <1>1, <1>2, <1>5, <2>1 DEF SnapshotParts, KeysBeforeStream, DoneIsPublished, OneBook
  <2>5. QED
    BY <1>4, <2>2, <2>3, <2>4 DEF SnapshotParts
<1>6. CASE GiveUp /\ \E names \in {{}, {"indicators"}} : Written(names)
  <2>1. PICK names \in {{}, {"indicators"}} : Written(names)
    BY <1>6
  <2>2. keys' \in [Symbols -> [KeyNames -> StampOrNil]]
    BY <1>1, <2>1, WrittenKeys
  <2>3. /\ round' \in [at : 1..clock', todo : SUBSET Active', failed : SUBSET Active']
        /\ round'.at = round.at /\ round'.todo = round.todo \ {hand.symbol}
        /\ round'.failed = round.failed \cup {hand.symbol}
        /\ hand' = Nil /\ doing' = "nothing"
    BY <1>1, <1>6, DoneRound DEF GiveUp
  <2>4. OutIsOfThePast' /\ ReadersFindNothingOlder'
    BY <1>1, <2>1, <2>3, KeysStep
  <2>5. SnapshotType'
    BY <1>1, <1>2, <1>3, <2>2, <2>3 DEF SnapshotParts, SnapshotType
  <2>6. DoneIsPublished'
    BY <1>1, <1>2, <2>3, InRound DEF SnapshotParts, DoneIsPublished
  <2>7. KeysBeforeStream' /\ OneBook'
    BY <2>3 DEF KeysBeforeStream, OneBook
  <2>8. QED
    BY <1>4, <2>4, <2>5, <2>6, <2>7 DEF SnapshotParts
<1>7. QED
  BY <1>5, <1>6 DEF WriteIndicators

LEMMA PublishDerivedStep == ASSUME SnapshotParts, PublishDerived PROVE SnapshotParts'
<1> USE SnapshotAssumption
<1>1. /\ UNCHANGED <<hotBook, versions, states, lastRound, keys, clock, events>>
      /\ doing = "stream" /\ doing # "nothing"
      /\ SnapshotFault \/ UNCHANGED snapshotFaults
      /\ derived' \in {derived, [derived EXCEPT ![hand.symbol] = round.at]}
  BY DEF PublishDerived, bookVars, GiveUp
<1>2. Active' = Active
  BY <1>1 DEF Active
<1>3. snapshotFaults' \in 0..MaxSnapshotFaults
  BY <1>1, SnapshotFaultStep
<1>4. WallsOfTheBook'
  BY <1>1, <1>2 DEF SnapshotParts, WallsOfTheBook
<1>5. PICK failed : /\ failed \subseteq {hand.symbol} /\ Done(failed)
                    /\ failed = {} => derived' = [derived EXCEPT ![hand.symbol] = round.at]
  BY DEF PublishDerived, GiveUp
<1>6. /\ round' \in [at : 1..clock', todo : SUBSET Active', failed : SUBSET Active']
      /\ round'.at = round.at /\ round'.todo = round.todo \ {hand.symbol}
      /\ round'.failed = round.failed \cup failed
      /\ hand' = Nil /\ doing' = "nothing"
  BY <1>1, <1>5, DoneRound
<1>7. /\ derived' \in [Symbols -> StampOrNil]
      /\ \A s \in Symbols : derived'[s] \in {derived[s], round.at} /\ (s # hand.symbol => derived'[s] = derived[s])
      /\ failed = {} => derived'[hand.symbol] = round.at
  BY <1>1, <1>5, InRound DEF SnapshotParts, SnapshotType
<1>8. SnapshotType'
  BY <1>1, <1>2, <1>3, <1>6, <1>7 DEF SnapshotParts, SnapshotType
<1>9. OutIsOfThePast'
  BY <1>1, <1>6, <1>7, StillOfThePast
<1>10. ReadersFindNothingOlder'
  <2>1. keys[hand.symbol]["snapshot"] \in {round.at, Nil} /\ round.at \in Nat
    BY <1>1, InRound DEF SnapshotParts, KeysBeforeStream
  <2>2. ASSUME NEW s \in Symbols, derived'[s] # Nil, keys[s]["snapshot"] # Nil
        PROVE  keys[s]["snapshot"] >= derived'[s]
    <3>1. CASE derived'[s] = derived[s]
      BY <2>2, <3>1 DEF SnapshotParts, ReadersFindNothingOlder
    <3>2. CASE derived'[s] # derived[s]
      BY <1>7, <2>1, <2>2, <3>2
    <3>3. QED
      BY <3>1, <3>2
  <2>3. QED
    BY <1>1, <2>2 DEF SnapshotParts, ReadersFindNothingOlder
<1>11. DoneIsPublished'
  <2>1. ASSUME NEW s \in Active, s \notin round'.failed, s \notin round'.todo PROVE derived'[s] = round.at
    <3>1. s \in Symbols
      BY DEF Active
    <3>2. CASE s = hand.symbol
      BY <1>5, <1>6, <1>7, <2>1, <3>2
    <3>3. CASE s # hand.symbol
      BY <1>1, <1>6, <1>7, <2>1, <3>1, <3>3, InRound DEF SnapshotParts, DoneIsPublished
    <3>4. QED
      BY <3>2, <3>3
  <2>2. QED
    BY <1>2, <1>6, <2>1 DEF DoneIsPublished
<1>12. KeysBeforeStream' /\ OneBook'
  BY <1>6 DEF KeysBeforeStream, OneBook
<1>13. QED
  BY <1>4, <1>8, <1>9, <1>10, <1>11, <1>12 DEF SnapshotParts

LEMMA SnapshotStutter == SnapshotParts /\ UNCHANGED snapshotVars => SnapshotParts'
BY DEF SnapshotParts, snapshotVars, bookVars, analyticsVars, outputVars, SnapshotType, Active,
   WallsOfTheBook, OneBook, ReadersFindNothingOlder, OutIsOfThePast, KeysBeforeStream, DoneIsPublished

\* For any symbols, books, times to live and failed calls: a snapshot shows one
\* book, readers of the stream find nothing older under the keys than what they
\* have, and a round that ends has published every symbol whose calls succeeded
\* (AnalyticsConsumer._publish_all, SnapshotBuilder.build, hot_state.write).
THEOREM SnapshotInvariant == SnapshotSpec => []SnapshotInv
<1>1. SnapshotInit => SnapshotInv
  BY SnapshotInitInv
<1>2. SnapshotInv /\ [SnapshotNext]_snapshotVars => SnapshotInv'
  <2> SUFFICES ASSUME SnapshotInv, [SnapshotNext]_snapshotVars PROVE SnapshotInv'
    OBVIOUS
  <2>0. SnapshotParts
    BY DEF SnapshotParts, SnapshotInv
  <2>1. SnapshotParts'
    <3>1. CASE UNCHANGED snapshotVars
      BY <2>0, <3>1, SnapshotStutter
    <3>2. CASE SnapshotNext
      BY <2>0, <3>2, BookChangesStep, DispatchStep, BuildStep, PassStep, StartRoundStep, WriteKeysStep,
         WriteIndicatorsStep, PublishDerivedStep, EndRoundStep, CrashStep DEF SnapshotNext
    <3>3. QED
      BY <3>1, <3>2
  <2>2. RoundsAreComplete'
    BY <2>1 DEF SnapshotParts, DoneIsPublished, RoundsAreComplete
  <2>3. QED
    BY <2>1, <2>2 DEF SnapshotParts, SnapshotInv
<1>3. QED
  BY <1>1, <1>2, PTL DEF SnapshotSpec

-----------------------------------------------------------------------------
\* BookWalls.

LEMMA WallInitInv == WallInit => WallInv
<1> SUFFICES ASSUME WallInit PROVE WallInv
  OBVIOUS
<1> USE WallAssumption DEF WallInit
<1>1. sightings = <<>> /\ Len(sightings) = 0
  OBVIOUS
<1>2. WallType
  BY <1>1 DEF WallType
<1>3. KnownSinceUnbroken /\ CandidatesAreYoung /\ RunsHaveAStart
  BY <1>1 DEF KnownSinceUnbroken, CandidatesAreYoung, RunsHaveAStart
<1>4. QED
  BY <1>2, <1>3 DEF WallInv

\* The first of an unbroken run is where it starts.
LEMMA StartOfRun ==
  ASSUME NEW s, NEW p, NEW n \in Nat, NEW i \in 1..n,
         \A j \in i..n : p \in s[j].walls, i > 1 => p \notin s[i - 1].walls
  PROVE  RunStart(s, p, n) = i
<1> DEFINE runs == {k \in 1..n : \A j \in k..n : p \in s[j].walls}
<1>1. i \in runs
  OBVIOUS
<1>2. \A k \in runs : i <= k
  <2>1. SUFFICES ASSUME NEW k \in runs, k < i PROVE FALSE
    OBVIOUS
  <2>2. i - 1 \in k..n /\ i > 1
    BY <2>1
  <2>3. QED
    BY <2>1, <2>2
<1>3. \A x \in runs : (\A y \in runs : x <= y) => x = i
  BY <1>1, <1>2
<1> HIDE DEF runs
<1>4. QED
  BY <1>1, <1>2, <1>3 DEF RunStart, Min, runs

\* The history with one sighting more.
LEMMA OneMore ==
  ASSUME NEW S, NEW t \in Seq(S), NEW r \in S
  PROVE  /\ Append(t, r) \in Seq(S) /\ Len(t) \in Nat /\ Len(Append(t, r)) = Len(t) + 1
         /\ \A i \in 1..Len(t) : Append(t, r)[i] = t[i]
         /\ Append(t, r)[Len(t) + 1] = r
OBVIOUS

\* What an update saw, until a time.
Sighting(until) == [at : 0..until, walls : SUBSET LevelPrices]

LEMMA SightingsLater ==
  ASSUME NEW a \in Nat, NEW b \in Nat, a <= b, NEW s \in Seq(Sighting(a))
  PROVE  /\ s \in Seq(Sighting(b)) /\ Len(s) \in Nat
         /\ \A i \in 1..Len(s) : s[i].at \in Nat /\ s[i].walls \subseteq LevelPrices
<1>1. Sighting(a) \subseteq Sighting(b)
  BY DEF Sighting
<1>2. s \in Seq(Sighting(b))
  BY <1>1, SeqMonotonic
<1>3. \A i \in 1..Len(s) : s[i] \in Sighting(a)
  BY ElementOfSeq
<1>4. \A r \in Sighting(a) : r.at \in Nat /\ r.walls \subseteq LevelPrices
  BY DEF Sighting
<1>5. QED
  BY <1>2, <1>3, <1>4

\* The i-th of n updates is where the run of a wall starts that is dated so.
Starts(updates, p, n, at, i) ==
    /\ i \in 1..n /\ \A j \in i..n : p \in updates[j].walls
    /\ at = updates[i].at
    /\ i > 1 => p \notin updates[i - 1].walls

\* What an update leaves.
LEMMA UpdateStep ==
  ASSUME WallInv, UpdateWalls
  PROVE  WallInv'
<1> USE WallAssumption
<1>1. PICK book \in [LevelPrices -> LevelSizes], at \in lastUpdate..MaxUpdateTime :
        /\ known' = Remembered(Walls(book), at)
        /\ result' = [walls |-> Walls(book), candidates |-> {p \in Vanished(Walls(book)) : Young(p, at)}]
        /\ sightings' = Append(sightings, [at |-> at, walls |-> Walls(book)])
        /\ lastUpdate' = at
  BY DEF UpdateWalls
<1> DEFINE active == Walls(book)
<1> DEFINE new == [at |-> at, walls |-> active]
<1> DEFINE n == Len(sightings)
<1>2. active \subseteq LevelPrices
  BY DEF Walls, Sampled, Levels
<1> HIDE DEF active
<1>3. /\ known' = [p \in LevelPrices |-> IF p \in active THEN FirstSeen(p, at) ELSE Unknown]
      /\ result'.walls = active /\ result'.candidates = {p \in Vanished(active) : Young(p, at)}
      /\ sightings' = Append(sightings, new) /\ lastUpdate' = at /\ new.walls = active /\ new.at = at
      /\ lastPrice' = lastPrice /\ Len(sightings) < MaxUpdates
  BY <1>1 DEF Remembered, UpdateWalls, active
<1>4. /\ lastUpdate \in 0..MaxUpdateTime /\ at \in Nat /\ at \in lastUpdate..MaxUpdateTime
      /\ known \in [LevelPrices -> {Unknown} \cup 0..lastUpdate]
      /\ sightings \in Seq(Sighting(lastUpdate))
      /\ lastPrice \in TradePrices
  BY DEF WallInv, WallType, Sighting
<1>5. /\ sightings \in Seq(Sighting(at)) /\ new \in Sighting(at)
      /\ \A i \in 1..n : sightings[i].at \in Nat /\ sightings[i].walls \subseteq LevelPrices
  <2>1. lastUpdate \in Nat /\ lastUpdate <= at
    BY <1>4
  <2>2. new \in Sighting(at)
    BY <1>2, <1>4 DEF Sighting
  <2>3. QED
    BY <1>4, <2>1, <2>2, SightingsLater
<1> HIDE DEF new
<1>6. /\ sightings' \in Seq(Sighting(at)) /\ n \in Nat /\ Len(sightings') = n + 1
      /\ \A i \in 1..n : sightings'[i] = sightings[i]
      /\ sightings'[n + 1] = new
  BY <1>3, <1>5, OneMore
<1>7. WallType'
  <2>1. known' \in [LevelPrices -> {Unknown} \cup 0..at]
    BY <1>3, <1>4 DEF FirstSeen
  <2>2. result'.walls \subseteq LevelPrices /\ result'.candidates \subseteq LevelPrices \ result'.walls
    BY <1>2, <1>3 DEF Vanished
  <2>3. QED
    BY <1>3, <1>4, <1>6, <2>1, <2>2 DEF WallType, Sighting
<1>n. n = Len(sightings) /\ n \in Nat /\ (n > 0 <=> sightings # <<>>) /\ Last(sightings) = sightings[n]
  BY <1>4 DEF Last
<1> HIDE DEF n
\* Those known before were seen by the last update, and only those.
<1>8. \A p \in LevelPrices :
        /\ known[p] # Unknown <=> n > 0 /\ p \in sightings[n].walls
        /\ known[p] # Unknown => \E i : Starts(sightings, p, n, known[p], i)
  <2> SUFFICES ASSUME NEW p \in LevelPrices
               PROVE  /\ known[p] # Unknown <=> n > 0 /\ p \in sightings[n].walls
                      /\ known[p] # Unknown => \E i : Starts(sightings, p, n, known[p], i)
    OBVIOUS
  <2>1. known[p] # Unknown => n > 0 /\ p \in sightings[n].walls
    BY <1>n DEF WallInv, KnownSinceUnbroken
  <2>2. n > 0 /\ p \in sightings[n].walls => \E i : Starts(sightings, p, n, known[p], i)
    BY <1>n DEF WallInv, RunsHaveAStart, Starts
  <2>3. \A i : Starts(sightings, p, n, known[p], i) => known[p] # Unknown
    BY <1>5 DEF n, Starts, Unknown
  <2>4. QED
    BY <2>1, <2>2, <2>3
<1>9. ASSUME NEW p \in LevelPrices, p \in active
      PROVE  \E i : Starts(sightings', p, n + 1, known'[p], i)
  <2>1. known'[p] = FirstSeen(p, at)
    BY <1>3, <1>9
  <2>2. CASE known[p] = Unknown
    <3>1. sightings'[n + 1].walls = active /\ known'[p] = sightings'[n + 1].at
      BY <1>3, <1>6, <2>1, <2>2 DEF FirstSeen
    <3>2. n > 0 => p \notin sightings'[n].walls
      BY <1>6, <1>8, <2>2
    <3>3. Starts(sightings', p, n + 1, known'[p], n + 1)
      <4>1. n + 1 \in 1..(n + 1) /\ (n + 1) - 1 = n /\ (n + 1 > 1 => n > 0)
        BY <1>6
      <4>2. \A j \in (n + 1)..(n + 1) : p \in sightings'[j].walls
        <5>1. \A j \in (n + 1)..(n + 1) : j = n + 1
          BY <1>6
        <5>2. QED
          BY <1>9, <3>1, <5>1, Zenon
      <4>3. n + 1 > 1 => p \notin sightings'[(n + 1) - 1].walls
        BY <3>2, <4>1, Zenon
      <4>4. QED
        BY <3>1, <4>1, <4>2, <4>3, Zenon DEF Starts
    <3>4. QED
      BY <3>3
  <2>3. CASE known[p] # Unknown
    <3>1. PICK i : Starts(sightings, p, n, known[p], i)
      BY <1>8, <2>3
    <3>2. known'[p] = known[p] /\ p \in sightings'[n + 1].walls
      BY <1>3, <1>6, <1>9, <2>1, <2>3 DEF FirstSeen
    <3>3. i \in 1..n /\ i \in 1..(n + 1) /\ \A j \in i..(n + 1) : j \in i..n \/ j = n + 1
      BY <1>6, <3>1 DEF Starts
    <3>4. /\ \A j \in i..n : sightings'[j] = sightings[j]
          /\ i > 1 => sightings'[i - 1] = sightings[i - 1]
      BY <1>6, <3>3
    <3>5. Starts(sightings', p, n + 1, known'[p], i)
      <4>1. \A j \in i..n : p \in sightings'[j].walls
        BY <3>1, <3>4 DEF Starts
      <4>2. known'[p] = sightings'[i].at /\ (i > 1 => p \notin sightings'[i - 1].walls)
        BY <1>6, <3>1, <3>2, <3>3, <3>4 DEF Starts
      <4>3. QED
        BY <3>2, <3>3, <4>1, <4>2 DEF Starts
    <3>6. QED
      BY <3>5
  <2>4. QED
    BY <2>2, <2>3
<1>a. RunsHaveAStart'
  <2>1. Last(sightings') = sightings'[n + 1] /\ sightings'[n + 1].walls = active
    BY <1>3, <1>6 DEF Last
  <2>2. QED
    BY <1>6, <1>9, <2>1 DEF RunsHaveAStart, Starts
<1>10. KnownSinceUnbroken'
  <2> SUFFICES ASSUME NEW p \in LevelPrices
               PROVE  IF p \notin sightings'[n + 1].walls THEN known'[p] = Unknown
                      ELSE known'[p] = sightings'[RunStart(sightings', p, n + 1)].at
    BY <1>6 DEF KnownSinceUnbroken, Last
  <2>1. CASE p \notin active
    BY <1>3, <1>6, <2>1
  <2>2. CASE p \in active
    <3>1. PICK i : Starts(sightings', p, n + 1, known'[p], i)
      BY <1>9, <2>2
    <3>2. RunStart(sightings', p, n + 1) = i
      <4>1. n + 1 \in Nat
        BY <1>6
      <4>2. QED
        BY <3>1, <4>1, StartOfRun DEF Starts
    <3>3. known'[p] = sightings'[i].at /\ sightings'[n + 1].walls = active
      BY <1>3, <1>6, <3>1 DEF Starts
    <3>4. QED
      BY <2>2, <3>2, <3>3
  <2>3. QED
    BY <2>1, <2>2
<1>11. CandidatesAreYoung'
  <2> DEFINE start(p) == sightings'[RunStart(sightings', p, n)].at
  <2>1. ASSUME n > 0
        PROVE  result'.candidates = {p \in sightings[n].walls \ active : at - start(p) < MaxAge}
    <3>1. \A p \in LevelPrices : p \in sightings[n].walls => known[p] = start(p) /\ known[p] # Unknown
      <4>1. SUFFICES ASSUME NEW p \in LevelPrices, p \in sightings[n].walls
                     PROVE  known[p] = start(p) /\ known[p] # Unknown
        OBVIOUS
      <4>2. known[p] # Unknown
        BY <1>8, <2>1, <4>1
      <4>3. PICK i : Starts(sightings, p, n, known[p], i)
        BY <1>8, <4>2
      <4>4. Starts(sightings', p, n, known[p], i)
        BY <1>6, <4>3 DEF Starts
      <4>5. RunStart(sightings', p, n) = i
        BY <1>6, <4>4, StartOfRun DEF Starts
      <4>6. QED
        BY <4>2, <4>4, <4>5 DEF Starts
    <3> HIDE DEF start
    <3>2. sightings[n].walls \subseteq LevelPrices
      BY <1>5, <1>6, <2>1 DEF n
    <3>3. Vanished(active) = sightings[n].walls \ active
      BY <1>8, <2>1, <3>2 DEF Vanished
    <3>4. QED
      BY <1>3, <3>1, <3>2, <3>3 DEF Young
  <2>2. n + 1 - 1 = n /\ (n + 1 > 1 <=> n > 0)
    BY <1>6
  <2>4. sightings'[n + 1].walls = active /\ sightings'[n + 1].at = at
    BY <1>3, <1>6
  <2>5. n > 0 => sightings'[n] = sightings[n]
    BY <1>6
  <2>6. n > 0 => result'.candidates
          = {p \in sightings'[n].walls \ sightings'[n + 1].walls : sightings'[n + 1].at - start(p) < MaxAge}
    <3> HIDE DEF start
    <3>1. QED
      BY <2>1, <2>4, <2>5
  <2>7. QED
    BY <1>6, <2>2, <2>6 DEF CandidatesAreYoung
<1>12. QED
  BY <1>7, <1>a, <1>10, <1>11 DEF WallInv

\* For any book, price and sequence of updates: the walls that are known and
\* since when, and those that are suspected, are what the sequence of the updates
\* says (WallDetector.update).
THEOREM WallInvariant == WallSpec => []WallInv
<1>1. WallInit => WallInv
  BY WallInitInv
<1>2. WallInv /\ [WallNext]_wallVars => WallInv'
  <2> SUFFICES ASSUME WallInv, [WallNext]_wallVars PROVE WallInv'
    OBVIOUS
  <2>1. CASE UpdateWalls
    BY <2>1, UpdateStep
  <2>2. CASE PriceMoves \/ UNCHANGED wallVars
    <3>1. UNCHANGED <<known, result, lastUpdate, sightings>> /\ lastPrice' \in TradePrices
      BY <2>2 DEF PriceMoves, wallVars, WallInv, WallType
    <3>2. QED
      BY <3>1 DEF WallInv, WallType, KnownSinceUnbroken, CandidatesAreYoung, RunsHaveAStart
  <2>3. QED
    BY <2>1, <2>2 DEF WallNext
<1>3. QED
  BY <1>1, <1>2, PTL DEF WallSpec

-----------------------------------------------------------------------------
\* TradeFlow.

\* What a deque of n has forgotten of a sequence, and what it holds.
Skipped(s, n) == IF Len(s) > n THEN Len(s) - n ELSE 0
TailOf(r, s, d) ==
    d \in 0..Len(s) /\ Len(r) = Len(s) - d /\ \A i \in 1..Len(r) : r[i] = s[d + i]

LEMMA LatelyIsTail ==
  ASSUME NEW S, NEW s \in Seq(S), NEW n \in Nat
  PROVE  /\ Lately(s, n) \in Seq(S) /\ Len(Lately(s, n)) <= n
         /\ TailOf(Lately(s, n), s, Skipped(s, n))
<1> DEFINE d == Skipped(s, n)
<1>1. d \in 0..Len(s) /\ Len(s) - d <= n
  BY DEF Skipped
<1>2. Lately(s, n) = SubSeq(s, d + 1, Len(s))
  BY DEF Lately, Skipped
<1>3. \A i \in d+1..Len(s) : s[i] \in S
  BY <1>1
<1> HIDE DEF d
<1>4. /\ SubSeq(s, d + 1, Len(s)) \in Seq(S)
      /\ Len(SubSeq(s, d + 1, Len(s))) = IF d + 1 <= Len(s) THEN Len(s) - (d + 1) + 1 ELSE 0
      /\ \A i \in 1..Len(s) - (d + 1) + 1 : SubSeq(s, d + 1, Len(s))[i] = s[(d + 1) + i - 1]
  BY <1>1, <1>3, SubSeqProperties
<1>5. Len(Lately(s, n)) = Len(s) - d
  BY <1>1, <1>2, <1>4
<1>6. ASSUME NEW i \in 1..Len(Lately(s, n)) PROVE Lately(s, n)[i] = s[d + i]
  <2>1. i \in 1..Len(s) - (d + 1) + 1 /\ (d + 1) + i - 1 = d + i
    BY <1>1, <1>5
  <2>2. QED
    BY <1>2, <1>4, <2>1
<1>7. QED
  BY <1>1, <1>2, <1>4, <1>5, <1>6 DEF TailOf, d

\* Tails of one sequence of one length are equal.
LEMMA SameTail ==
  ASSUME NEW S, NEW s, NEW d, NEW a \in Seq(S), NEW b \in Seq(S), TailOf(a, s, d), TailOf(b, s, d)
  PROVE  a = b
BY SeqEqual DEF TailOf

\* A tail of a tail is a tail.
LEMMA TailOfTail ==
  ASSUME NEW S, NEW s \in Seq(S), NEW a \in Seq(S), NEW b \in Seq(S), NEW d, NEW e,
         TailOf(a, s, d), TailOf(b, a, e)
  PROVE  TailOf(b, s, d + e)
<1>1. d \in 0..Len(s) /\ Len(a) = Len(s) - d /\ e \in 0..Len(a) /\ Len(b) = Len(a) - e
  BY DEF TailOf
<1>2. d + e \in 0..Len(s) /\ Len(b) = Len(s) - (d + e)
  BY <1>1
<1>3. ASSUME NEW i \in 1..Len(b) PROVE b[i] = s[(d + e) + i]
  <2>1. b[i] = a[e + i] /\ e + i \in 1..Len(a)
    BY <1>1 DEF TailOf
  <2>2. a[e + i] = s[d + (e + i)]
    BY <2>1 DEF TailOf
  <2>3. d + (e + i) = (d + e) + i
    BY <1>1
  <2>4. QED
    BY <2>1, <2>2, <2>3
<1>4. QED
  BY <1>2, <1>3 DEF TailOf

\* The last few of the last ones are the last few.
LEMMA LatelyTwice ==
  ASSUME NEW S, NEW s \in Seq(S), NEW n \in Nat, NEW m \in 0..n
  PROVE  Lately(Lately(s, n), m) = Lately(s, m)
<1> DEFINE a == Lately(s, n)
           b == Lately(a, m)
<1>1. a \in Seq(S) /\ TailOf(a, s, Skipped(s, n))
  BY LatelyIsTail
<1> HIDE DEF a
<1>2. m \in Nat
  OBVIOUS
<1>3. b \in Seq(S) /\ TailOf(b, a, Skipped(a, m))
  BY <1>1, <1>2, LatelyIsTail
<1> HIDE DEF b
<1>4. TailOf(b, s, Skipped(s, n) + Skipped(a, m))
  BY <1>1, <1>3, TailOfTail
<1>5. Skipped(s, n) + Skipped(a, m) = Skipped(s, m)
  <2>1. Len(a) = Len(s) - Skipped(s, n) /\ Len(s) \in Nat
    BY <1>1 DEF TailOf
  <2>2. CASE Len(s) > n
    BY <1>2, <2>1, <2>2 DEF Skipped
  <2>3. CASE ~(Len(s) > n)
    BY <1>2, <2>1, <2>3 DEF Skipped
  <2>4. QED
    BY <2>2, <2>3
<1>6. Lately(s, m) \in Seq(S) /\ TailOf(Lately(s, m), s, Skipped(s, m))
  BY <1>2, LatelyIsTail
<1>7. b = Lately(s, m)
  BY <1>3, <1>4, <1>5, <1>6, SameTail
<1>8. QED
  BY <1>7 DEF a, b

\* A deque to which an element is appended holds the last ones.
LEMMA PushedIsLately ==
  ASSUME NEW S, NEW s \in Seq(S), NEW e \in S, NEW n \in Nat
  PROVE  Pushed(Lately(s, n), e, n) = Lately(Append(s, e), n)
<1> DEFINE a == Lately(s, n)
           b == Append(a, e)
           c == Append(s, e)
           p == Lately(b, n)
           d == Skipped(s, n)
<1>1. a \in Seq(S) /\ TailOf(a, s, d)
  BY LatelyIsTail
<1> HIDE DEF a
<1>2. b \in Seq(S) /\ c \in Seq(S) /\ TailOf(b, c, d)
  <2>1. b \in Seq(S) /\ c \in Seq(S)
    BY <1>1
  <2>2. d \in 0..Len(s) /\ Len(a) = Len(s) - d /\ Len(b) = Len(a) + 1 /\ Len(c) = Len(s) + 1
    BY <1>1 DEF TailOf
  <2>3. d \in 0..Len(c) /\ Len(b) = Len(c) - d
    BY <2>2
  <2>4. ASSUME NEW i \in 1..Len(b) PROVE b[i] = c[d + i]
    <3>1. CASE i = Len(a) + 1
      <4>1. b[i] = e /\ d + i = Len(s) + 1 /\ c[Len(s) + 1] = e
        BY <1>1, <2>2, <3>1
      <4>2. QED
        BY <4>1
    <3>2. CASE i # Len(a) + 1
      <4>1. i \in 1..Len(a) /\ d + i \in 1..Len(s)
        BY <2>2, <3>2
      <4>2. b[i] = a[i] /\ c[d + i] = s[d + i]
        BY <1>1, <4>1
      <4>3. QED
        BY <1>1, <4>1, <4>2 DEF TailOf
    <3>3. QED
      BY <3>1, <3>2
  <2> HIDE DEF b, c, d
  <2>5. QED
    BY <2>1, <2>3, <2>4 DEF TailOf
<1>3. Len(c) = Len(s) + 1 /\ Len(s) \in Nat
  OBVIOUS
<1> HIDE DEF b, c
<1>4. p \in Seq(S) /\ TailOf(p, b, Skipped(b, n))
  BY <1>2, LatelyIsTail
<1> HIDE DEF p
<1>5. TailOf(p, c, d + Skipped(b, n))
  BY <1>2, <1>4, TailOfTail
<1>6. d + Skipped(b, n) = Skipped(c, n)
  <2>1. Len(b) = Len(c) - d
    BY <1>2 DEF TailOf
  <2>2. CASE Len(s) > n
    BY <1>3, <2>1, <2>2 DEF Skipped
  <2>3. CASE ~(Len(s) > n)
    BY <1>3, <2>1, <2>3 DEF Skipped
  <2>4. QED
    BY <2>2, <2>3
<1>7. Lately(c, n) \in Seq(S) /\ TailOf(Lately(c, n), c, Skipped(c, n))
  BY <1>2, LatelyIsTail
<1>8. p = Lately(c, n)
  BY <1>4, <1>5, <1>6, <1>7, SameTail
<1>9. QED
  BY <1>8 DEF p, a, b, c, Pushed

USE FlowAssumption

\* The fields of a trade.
LEMMA TradeFields ==
  \A t \in Trade : t.qty \in Nat \ {0} /\ t.at \in Nat \ {0} /\ t.buy \in BOOLEAN
<1>1. TradeSizes \subseteq Nat \ {0} /\ MaxTime \in Nat
  OBVIOUS
<1>2. \A x \in 1..MaxTime : x \in Nat \ {0}
  BY <1>1
<1>3. \A t \in Trade : t.qty \in TradeSizes /\ t.at \in 1..MaxTime /\ t.buy \in BOOLEAN
  BY DEF Trade
<1>4. QED
  BY <1>1, <1>2, <1>3

\* What a trade counts for.
LEMMA TradeCounts ==
  ASSUME NEW s \in Seq(Trade)
  PROVE  /\ Len(s) \in Nat /\ DOMAIN s = 1..Len(s)
         /\ \A i \in 1..Len(s) :
              /\ s[i] \in Trade /\ s[i].qty \in Nat \ {0} /\ s[i].at \in Nat \ {0} /\ s[i].buy \in BOOLEAN
              /\ Sizes(s)[i] = s[i].qty
              /\ Deltas(s)[i] = IF s[i].buy THEN s[i].qty ELSE -s[i].qty
              /\ Purchases(s)[i] = IF s[i].buy THEN s[i].qty ELSE 0
              /\ Sales(s)[i] = IF s[i].buy THEN 0 ELSE s[i].qty
         /\ DOMAIN Sizes(s) = 1..Len(s) /\ DOMAIN Deltas(s) = 1..Len(s)
         /\ DOMAIN Purchases(s) = 1..Len(s) /\ DOMAIN Sales(s) = 1..Len(s)
<1>1. Len(s) \in Nat /\ DOMAIN s = 1..Len(s) /\ \A i \in 1..Len(s) : s[i] \in Trade
  OBVIOUS
<1>2. \A t \in Trade : t.qty \in Nat \ {0} /\ t.at \in Nat \ {0} /\ t.buy \in BOOLEAN
  BY TradeFields
<1>3. /\ DOMAIN Sizes(s) = 1..Len(s) /\ DOMAIN Deltas(s) = 1..Len(s)
      /\ DOMAIN Purchases(s) = 1..Len(s) /\ DOMAIN Sales(s) = 1..Len(s)
  BY <1>1 DEF Sizes, Deltas, Purchases, Sales
<1>4. ASSUME NEW i \in 1..Len(s)
      PROVE  /\ Sizes(s)[i] = s[i].qty
             /\ Deltas(s)[i] = IF s[i].buy THEN s[i].qty ELSE -s[i].qty
             /\ Purchases(s)[i] = IF s[i].buy THEN s[i].qty ELSE 0
             /\ Sales(s)[i] = IF s[i].buy THEN 0 ELSE s[i].qty
  BY <1>1 DEF Sizes, Deltas, Purchases, Sales, TradeDelta
<1>5. QED
  BY <1>1, <1>2, <1>3, <1>4

LEMMA TradeNumbers ==
  ASSUME NEW s \in Seq(Trade)
  PROVE  /\ IsFiniteSet(1..Len(s))
         /\ Numbers(Sizes(s), 1..Len(s)) /\ Numbers(Deltas(s), 1..Len(s))
         /\ Numbers(Purchases(s), 1..Len(s)) /\ Numbers(Sales(s), 1..Len(s))
<1>1. Len(s) \in Int /\ 1 \in Int
  OBVIOUS
<1>2. IsFiniteSet(1..Len(s))
  BY <1>1, FS_Interval
<1>3. ASSUME NEW i \in 1..Len(s)
      PROVE  /\ Sizes(s)[i] \in Int /\ Deltas(s)[i] \in Int
             /\ Purchases(s)[i] \in Int /\ Sales(s)[i] \in Int
  <2>1. s[i].qty \in Int /\ s[i].qty \in Nat \ {0} /\ -s[i].qty \in Int
    BY TradeCounts
  <2>2. /\ Sizes(s)[i] = s[i].qty /\ Deltas(s)[i] \in {s[i].qty, -s[i].qty}
        /\ Purchases(s)[i] \in {s[i].qty, 0} /\ Sales(s)[i] \in {s[i].qty, 0}
    BY TradeCounts, Zenon
  <2>3. QED
    BY ONLY <2>1, <2>2
<1>4. QED
  BY <1>2, <1>3 DEF Numbers

\* compute_delta and compute_buy_sell_volumes agree on a list, and their sum is
\* what compute_aggression_ratio divides by.
LEMMA NetOfTrades ==
  ASSUME NEW s \in Seq(Trade)
  PROVE  /\ Bought(s) \in Int /\ Sold(s) \in Int
         /\ SumFunction(Deltas(s)) = Bought(s) - Sold(s)
         /\ SumFunction(Sizes(s)) = Bought(s) + Sold(s)
<1> DEFINE D == 1..Len(s)
           u == Deltas(s)
           z == Sizes(s)
           p == Purchases(s)
           q == Sales(s)
<1>1. IsFiniteSet(D) /\ Numbers(u, D) /\ Numbers(z, D) /\ Numbers(p, D) /\ Numbers(q, D)
  BY TradeNumbers
<1>2. \A i \in D : p[i] = u[i] + q[i] /\ z[i] = p[i] + q[i]
  <2>1. ASSUME NEW i \in D PROVE p[i] = u[i] + q[i] /\ z[i] = p[i] + q[i]
    <3>1. s[i].qty \in Nat \ {0} /\ s[i].buy \in BOOLEAN
      BY TradeCounts
    <3>2. CASE s[i].buy
      BY <3>1, <3>2, TradeCounts
    <3>3. CASE ~s[i].buy
      BY <3>1, <3>3, TradeCounts
    <3>4. QED
      BY <3>2, <3>3
  <2>2. QED
    BY <2>1
<1>3. DOMAIN u = D /\ DOMAIN z = D /\ DOMAIN p = D /\ DOMAIN q = D
  BY TradeCounts
<1>4. /\ SumFunction(u) = SumFunctionOnSet(u, D) /\ SumFunction(z) = SumFunctionOnSet(z, D)
      /\ Bought(s) = SumFunctionOnSet(p, D) /\ Sold(s) = SumFunctionOnSet(q, D)
  BY <1>3 DEF SumFunction, Bought, Sold
<1> HIDE DEF D, u, z, p, q
<1>5. D \in SUBSET D
  OBVIOUS
<1>6. SumFunctionOnSet(p, D) = SumFunctionOnSet(u, D) + SumFunctionOnSet(q, D)
  BY <1>1, <1>2, <1>5, SumsAdd
<1>7. SumFunctionOnSet(z, D) = SumFunctionOnSet(p, D) + SumFunctionOnSet(q, D)
  BY <1>1, <1>2, <1>5, SumsAdd
<1>8. SumLaw(u, D) /\ SumLaw(p, D) /\ SumLaw(q, D)
  BY <1>1, SumRecursion
<1>9. SumFunctionOnSet(u, D) \in Int /\ SumFunctionOnSet(p, D) \in Int /\ SumFunctionOnSet(q, D) \in Int
  BY <1>5, <1>8 DEF SumLaw
<1>10. QED
  BY <1>4, <1>6, <1>7, <1>9 DEF u, z

\* What one more trade adds.
LEMMA OneMoreTrade ==
  ASSUME NEW s \in Seq(Trade), NEW t \in Trade
  PROVE  /\ Append(s, t) \in Seq(Trade) /\ Len(Append(s, t)) = Len(s) + 1
         /\ Bought(Append(s, t)) - Sold(Append(s, t)) = (Bought(s) - Sold(s)) + TradeDelta(t)
         /\ \A S \in SUBSET (1..Len(s)) :
              /\ SumFunctionOnSet(Sizes(s), S) \in Int
              /\ SumFunctionOnSet(Sizes(Append(s, t)), S) = SumFunctionOnSet(Sizes(s), S)
              /\ SumFunctionOnSet(Sizes(Append(s, t)), S \cup {Len(s) + 1})
                   = SumFunctionOnSet(Sizes(s), S) + t.qty
<1> DEFINE r == Append(s, t)
           n == Len(s)
<1>1. r \in Seq(Trade) /\ Len(r) = n + 1 /\ n \in Nat /\ r[n + 1] = t /\ \A i \in 1..n : r[i] = s[i]
  OBVIOUS
<1> HIDE DEF r, n
<1>2. n = Len(s)
  BY DEF n
<1>3. t.qty \in Int /\ TradeDelta(t) \in Int
  <2>1. t.qty \in Nat \ {0}
    BY TradeFields
  <2>2. QED
    BY <2>1 DEF TradeDelta
<1>4. /\ \A i \in 1..n : Sizes(r)[i] = Sizes(s)[i] /\ Deltas(r)[i] = Deltas(s)[i]
      /\ Sizes(r)[n + 1] = t.qty /\ Deltas(r)[n + 1] = TradeDelta(t)
  <2>1. DOMAIN r = 1..n+1 /\ DOMAIN s = 1..n
    BY <1>1, <1>2
  <2>2. \A i \in 1..n : i \in 1..n+1
    BY <1>1
  <2>3. n + 1 \in 1..n+1
    BY <1>1
  <2>4. QED
    BY <1>1, <2>1, <2>2, <2>3 DEF Sizes, Deltas
<1>5. Numbers(Sizes(s), 1..n) /\ Numbers(Deltas(s), 1..n)
  BY <1>2, TradeNumbers
<1>6. ASSUME NEW S \in SUBSET (1..n)
      PROVE  /\ SumFunctionOnSet(Sizes(s), S) \in Int
             /\ SumFunctionOnSet(Sizes(r), S) = SumFunctionOnSet(Sizes(s), S)
             /\ SumFunctionOnSet(Sizes(r), S \cup {n + 1}) = SumFunctionOnSet(Sizes(s), S) + t.qty
  <2> DEFINE w == Sizes(r)
             v == Sizes(s)
  <2>1. n \in Nat /\ Numbers(v, 1..n) /\ w[n + 1] \in Int /\ w[n + 1] = t.qty
    BY <1>1, <1>3, <1>4, <1>5
  <2>2. Agree(w, v, n)
    BY <1>4 DEF Agree
  <2> HIDE DEF w, v
  <2>3. /\ SumFunctionOnSet(v, S) \in Int
        /\ SumFunctionOnSet(w, S) = SumFunctionOnSet(v, S)
        /\ SumFunctionOnSet(w, S \cup {n + 1}) = SumFunctionOnSet(v, S) + w[n + 1]
    <3>1. S \in SUBSET (1..n)
      OBVIOUS
    <3>2. QED
      BY ONLY <2>1, <2>2, <3>1, AppendedSum
  <2>4. QED
    BY <2>1, <2>3 DEF w, v
<1>7. Bought(r) - Sold(r) = (Bought(s) - Sold(s)) + TradeDelta(t)
  <2>1. SumFunctionOnSet(Deltas(r), (1..n) \cup {n + 1}) = SumFunctionOnSet(Deltas(s), 1..n) + TradeDelta(t)
    <3> DEFINE w == Deltas(r)
               v == Deltas(s)
               S == 1..n
    <3>1. n \in Nat /\ Numbers(v, 1..n) /\ w[n + 1] \in Int /\ w[n + 1] = TradeDelta(t)
      BY <1>1, <1>3, <1>4, <1>5
    <3>2. Agree(w, v, n)
      BY <1>4 DEF Agree
    <3>3. S \in SUBSET (1..n)
      OBVIOUS
    <3> HIDE DEF w, v, S
    <3>4. SumFunctionOnSet(w, S \cup {n + 1}) = SumFunctionOnSet(v, S) + w[n + 1]
      BY <3>1, <3>2, <3>3, AppendedSum
    <3>5. QED
      BY <3>1, <3>4 DEF w, v, S
  <2>2. (1..n) \cup {n + 1} = 1..n+1
    BY <1>1
  <2>3. SumFunction(Deltas(r)) = SumFunctionOnSet(Deltas(r), 1..n+1)
        /\ SumFunction(Deltas(s)) = SumFunctionOnSet(Deltas(s), 1..n)
    BY <1>1, <1>2, TradeCounts DEF SumFunction
  <2>4. SumFunction(Deltas(r)) = Bought(r) - Sold(r) /\ SumFunction(Deltas(s)) = Bought(s) - Sold(s)
    BY <1>1, NetOfTrades
  <2>5. QED
    BY <2>1, <2>2, <2>3, <2>4
<1>8. QED
  BY <1>1, <1>2, <1>6, <1>7 DEF r

\* What a liquidation counts for.
LEMMA LiquidationCounts ==
  ASSUME NEW s \in Seq(Liquidation)
  PROVE  /\ Len(s) \in Nat /\ DOMAIN s = 1..Len(s) /\ DOMAIN Sizes(s) = 1..Len(s)
         /\ \A i \in 1..Len(s) :
              /\ s[i].qty \in Nat \ {0} /\ s[i].at \in Int /\ s[i].long \in BOOLEAN
              /\ Sizes(s)[i] = s[i].qty
<1>1. Len(s) \in Nat /\ DOMAIN s = 1..Len(s) /\ \A i \in 1..Len(s) : s[i] \in Liquidation
  OBVIOUS
<1>2. \A r \in Liquidation : r.qty \in TradeSizes /\ r.at \in 1..MaxTime /\ r.long \in BOOLEAN
  BY DEF Liquidation
<1>3. TradeSizes \subseteq Nat \ {0} /\ \A x \in 1..MaxTime : x \in Int
  OBVIOUS
<1>4. DOMAIN Sizes(s) = 1..Len(s) /\ \A i \in 1..Len(s) : Sizes(s)[i] = s[i].qty
  BY <1>1 DEF Sizes
<1>5. QED
  BY <1>1, <1>2, <1>3, <1>4

\* The part of FlowInv that is preserved as it stands; the others follow from it.
FlowCore == FlowType /\ CvdIsOfAllTrades /\ BucketsTellTheTape /\ LastLiquidations

LEMMA FlowStart ==
  ASSUME FlowInit
  PROVE  FlowCore
<1>1. /\ flow.trades = <<>> /\ flow.cvd = 0 /\ rvol.start = 0 /\ rvol.volume = 0
      /\ rvol.historical = <<>> /\ liquidations = <<>> /\ now = 1 /\ tape = <<>> /\ forced = <<>>
  BY DEF FlowInit
<1>2. Window \in Nat \ {0} /\ Lookback \in Nat \ {0} /\ LiquidationCap \in Nat \ {0}
      /\ MaxTime \in Nat \ {0}
  OBVIOUS
<1>3. Len(<<>>) = 0 /\ DOMAIN <<>> = {} /\ 1..0 = {} /\ 0+1..0 = {}
  OBVIOUS
<1>4. FlowType
  <2>1. <<>> \in Seq(Trade) /\ <<>> \in Seq(Nat) /\ <<>> \in Seq(Liquidation)
    OBVIOUS
  <2>2. 0 \in 0..1 /\ 1 \in 1..MaxTime /\ 0 <= Window /\ 0 <= Lookback /\ 0 <= LiquidationCap
    BY <1>2
  <2>3. QED
    BY <1>1, <1>3, <2>1, <2>2 DEF FlowType
<1>5. \A s : Lately(<<>>, s) = <<>> \/ ~(s \in Nat)
  <2>1. ASSUME NEW n \in Nat PROVE Lately(<<>>, n) = <<>>
    <3>1. <<>> \in Seq(Trade)
      OBVIOUS
    <3>2. Lately(<<>>, n) \in Seq(Trade) /\ TailOf(Lately(<<>>, n), <<>>, Skipped(<<>>, n))
      BY <3>1, LatelyIsTail
    <3>3. Len(Lately(<<>>, n)) = 0
      BY <1>3, <3>2 DEF TailOf
    <3>4. QED
      BY <3>2, <3>3
  <2>2. QED
    BY <2>1
<1>6. \A w : SumFunctionOnSet(w, {}) = 0
  <2>1. ASSUME NEW w PROVE SumFunctionOnSet(w, {}) = 0
    <3>1. IsFiniteSet({}) /\ Numbers(w, {})
      BY FS_EmptySet DEF Numbers
    <3>2. QED
      BY <3>1, SumRecursion DEF SumLaw
  <2>2. QED
    BY <2>1
<1>7. CvdIsOfAllTrades
  <2>1. Purchases(<<>>) = <<>> /\ Sales(<<>>) = <<>>
    BY <1>3 DEF Purchases, Sales
  <2>2. Bought(<<>>) = 0 /\ Sold(<<>>) = 0
    BY <1>3, <1>6, <2>1 DEF Bought, Sold, SumFunction
  <2>3. Window \in Nat
    BY <1>2
  <2>4. QED
    BY <1>1, <1>5, <2>2, <2>3 DEF CvdIsOfAllTrades
<1>8. BucketsTellTheTape
  <2>1. 0 \in 0..Len(tape)
    BY <1>1, <1>3
  <2>2. /\ rvol.volume = SumFunctionOnSet(Sizes(tape), 0+1..Len(tape))
        /\ SumFunctionOnSet(Sizes(tape), 1..0) = SumFunction(rvol.historical)
    BY <1>1, <1>3, <1>6 DEF SumFunction
  <2>3. QED
    BY <1>1, <1>3, <2>1, <2>2 DEF BucketsTellTheTape
<1>9. LastLiquidations
  <2>1. LiquidationCap \in Nat
    BY <1>2
  <2>2. QED
    BY <1>1, <1>3, <1>5, <2>1 DEF LastLiquidations
<1>10. QED
  BY <1>4, <1>7, <1>8, <1>9 DEF FlowCore

\* _on_trade: the delta and the window.
LEMMA TradeCvd ==
  ASSUME FlowCore, NEW t \in Trade, flow' = FlowAfter(t), tape' = Append(tape, t)
  PROVE  /\ CvdIsOfAllTrades'
         /\ flow'.trades \in Seq(Trade) /\ Len(flow'.trades) <= Window /\ flow'.cvd \in Int
<1>1. tape \in Seq(Trade) /\ Window \in Nat /\ flow.cvd \in Int
  BY DEF FlowCore, FlowType
<1>2. flow'.trades = Pushed(flow.trades, t, Window) /\ flow'.cvd = flow.cvd + TradeDelta(t)
  BY DEF FlowAfter
<1>3. flow.trades = Lately(tape, Window) /\ flow.cvd = Bought(tape) - Sold(tape)
  BY DEF FlowCore, CvdIsOfAllTrades
<1>4. flow'.trades = Lately(tape', Window)
  BY <1>1, <1>2, <1>3, PushedIsLately
<1>5. tape' \in Seq(Trade) /\ flow'.cvd = Bought(tape') - Sold(tape')
  BY <1>1, <1>2, <1>3, OneMoreTrade
<1>6. Bought(tape') \in Int /\ Sold(tape') \in Int
  BY <1>5, NetOfTrades
<1>7. flow'.trades \in Seq(Trade) /\ Len(flow'.trades) <= Window
  BY <1>1, <1>4, <1>5, LatelyIsTail
<1>8. CvdIsOfAllTrades'
  BY <1>4, <1>5 DEF CvdIsOfAllTrades, Bought, Sold, Purchases, Sales, Lately
<1>9. QED
  BY <1>5, <1>6, <1>7, <1>8

\* _on_trade: the buckets. The trade goes into the current one, which starts with the
\* first trade, or it starts the next.
LEMMA TradeBuckets ==
  ASSUME FlowCore, NEW t \in Trade, t.at <= now, rvol' = RvolAfter(t), tape' = Append(tape, t),
         now' = now
  PROVE  /\ BucketsTellTheTape'
         /\ rvol'.start \in 0..now' /\ rvol'.volume \in Nat
         /\ rvol'.historical \in Seq(Nat) /\ Len(rvol'.historical) <= Lookback
<1> DEFINE n == Len(tape)
           z == Sizes(tape)
           y == Sizes(tape')
           h == rvol.historical
<1>1. /\ tape \in Seq(Trade) /\ n \in Nat /\ Bucket \in Nat \ {0} /\ Lookback \in Nat \ {0}
      /\ rvol.start \in 0..now /\ rvol.volume \in Nat
      /\ h \in Seq(Nat) /\ Len(h) <= Lookback /\ now \in 1..MaxTime
  BY DEF FlowCore, FlowType
<1>2. PICK k \in 0..n :
        /\ rvol.volume = SumFunctionOnSet(z, k+1..n)
        /\ \A i \in k+1..n : tape[i].at - rvol.start < Bucket
        /\ IF tape = <<>> THEN rvol.start = 0 ELSE k < n /\ tape[k + 1].at = rvol.start
        /\ Len(h) < Lookback => SumFunctionOnSet(z, 1..k) = SumFunction(h)
        /\ k > 0 => h # <<>> /\ Last(h) >= tape[k].qty
  BY DEF FlowCore, BucketsTellTheTape
<1>3. /\ tape' \in Seq(Trade) /\ Len(tape') = n + 1 /\ tape' # <<>>
      /\ tape'[n + 1] = t /\ \A i \in 1..n : tape'[i] = tape[i]
  <2>1. tape' \in Seq(Trade) /\ Len(tape') = n + 1 /\ tape'[n + 1] = t
    BY <1>1
  <2>2. \A i \in 1..n : tape'[i] = tape[i]
    BY <1>1
  <2>3. Len(tape') # 0
    BY <1>1, <2>1
  <2>4. tape' # <<>>
    BY <2>3
  <2>5. QED
    BY <2>1, <2>2, <2>4
<1>4. \A S \in SUBSET (1..n) :
        /\ SumFunctionOnSet(z, S) \in Int
        /\ SumFunctionOnSet(y, S) = SumFunctionOnSet(z, S)
        /\ SumFunctionOnSet(y, S \cup {n + 1}) = SumFunctionOnSet(z, S) + t.qty
  BY <1>1, OneMoreTrade
<1>5. t.qty \in Nat \ {0} /\ t.at \in Nat \ {0}
  BY TradeFields
<1>6. k \in Nat /\ k <= n /\ k+1..n \in SUBSET (1..n) /\ 1..k \in SUBSET (1..n)
      /\ (k+1..n) \cup {n + 1} = k+1..n+1
  <2>1. n \in Nat /\ k \in Nat /\ k <= n
    BY <1>1
  <2>2. k+1..n \in SUBSET (1..n) /\ 1..k \in SUBSET (1..n)
    BY ONLY <2>1
  <2>3. (k+1..n) \cup {n + 1} = k+1..n+1
    BY ONLY <2>1
  <2>4. QED
    BY ONLY <2>1, <2>2, <2>3
<1> DEFINE start == IF rvol.start = 0 THEN t.at ELSE rvol.start
<1>7. start \in 1..now /\ (tape # <<>> => start = rvol.start /\ k < n) /\ (tape = <<>> => start = t.at /\ k = 0 /\ n = 0)
  <2>1. CASE tape = <<>>
    <3>1. n = 0
      BY <2>1
    <3>2. QED
      BY <1>1, <1>2, <1>5, <2>1, <3>1
  <2>2. CASE tape # <<>>
    <3>1. k < n /\ tape[k + 1].at = rvol.start
      BY <1>2, <2>2
    <3>2. k + 1 \in 1..n
      BY <1>6, <3>1
    <3>3. tape[k + 1].at \in Nat \ {0}
      BY <1>1, <3>2, TradeCounts
    <3>4. start = rvol.start /\ start \in 1..now
      <4>1. rvol.start # 0
        BY <3>1, <3>3
      <4>2. now \in Int /\ rvol.start \in 0..now
        BY <1>1
      <4>3. rvol.start \in 1..now
        BY <4>1, <4>2
      <4>4. QED
        BY <4>1, <4>3
    <3> HIDE DEF start
    <3>5. QED
      BY <2>2, <3>1, <3>4
  <2>3. QED
    BY <2>1, <2>2
<1>8. rvol' = IF t.at - start >= Bucket
              THEN [start |-> t.at, volume |-> t.qty, historical |-> Pushed(h, rvol.volume, Lookback)]
              ELSE [rvol EXCEPT !.start = start, !.volume = @ + t.qty]
  BY DEF RvolAfter
<1> HIDE DEF start, z, y
<1>9. CASE ~(t.at - start >= Bucket)
  <2>1. rvol'.start = start /\ rvol'.volume = rvol.volume + t.qty /\ rvol'.historical = h
    BY <1>8, <1>9
  <2>2. rvol'.volume = SumFunctionOnSet(y, k+1..n+1)
    BY <1>2, <1>4, <1>6, <2>1
  <2>3. \A i \in k+1..n+1 : tape'[i].at - start < Bucket
    <3>1. ASSUME NEW i \in k+1..n+1 PROVE tape'[i].at - start < Bucket
      <4>1. CASE i = n + 1
        <5>1. tape'[i].at = t.at
          BY <1>3, <4>1
        <5>2. t.at \in Int /\ start \in Int /\ Bucket \in Int
          BY <1>1, <1>5, <1>7
        <5>3. QED
          BY ONLY <1>9, <5>1, <5>2
      <4>2. CASE i # n + 1
        <5>1. i \in k+1..n /\ i \in 1..n
          BY <1>1, <1>6, <4>2
        <5>2. n # 0
          BY <1>1, <5>1
        <5>3. tape # <<>>
          BY <5>2
        <5>4. QED
          BY <1>2, <1>3, <1>7, <5>1, <5>3
      <4>3. QED
        BY <4>1, <4>2
    <3>2. QED
      BY <3>1
  <2>4. k < n + 1 /\ tape'[k + 1].at = start
    <3>1. CASE tape = <<>>
      BY <1>3, <1>7, <3>1
    <3>2. CASE tape # <<>>
      <4>1. k + 1 \in 1..n /\ k < n + 1
        <5>1. n \in Nat /\ k \in Nat /\ k < n
          BY <1>1, <1>6, <1>7, <3>2
        <5>2. QED
          BY ONLY <5>1
      <4>2. tape'[k + 1] = tape[k + 1]
        BY <1>3, <4>1
      <4>3. tape[k + 1].at = rvol.start /\ start = rvol.start
        BY <1>2, <1>7, <3>2
      <4>4. QED
        BY ONLY <4>1, <4>2, <4>3
    <3>3. QED
      BY <3>1, <3>2
  <2>5. Len(h) < Lookback => SumFunctionOnSet(y, 1..k) = SumFunction(h)
    BY <1>2, <1>4, <1>6
  <2>6. k > 0 => h # <<>> /\ Last(h) >= tape'[k].qty
    <3>1. k > 0 => k \in 1..n
      BY <1>6
    <3>2. QED
      BY <1>2, <1>3, <3>1
  <2>7. k \in 0..Len(tape')
    BY <1>1, <1>3, <1>6
  <2>8. BucketsTellTheTape'
    BY <1>3, <2>1, <2>2, <2>3, <2>4, <2>5, <2>6, <2>7 DEF BucketsTellTheTape, y
  <2>9. rvol'.volume \in Nat /\ rvol'.start \in 0..now'
    <3>1. rvol.volume \in Nat /\ t.qty \in Nat /\ rvol'.volume = rvol.volume + t.qty
      BY <1>1, <1>5, <2>1
    <3>2. now \in Int /\ start \in 1..now /\ rvol'.start = start
      BY <1>1, <1>7, <2>1
    <3>3. QED
      BY ONLY <3>1, <3>2, now' = now
  <2>10. QED
    BY <1>1, <2>1, <2>8, <2>9
<1>10. CASE t.at - start >= Bucket
  <2>1. /\ rvol'.start = t.at /\ rvol'.volume = t.qty
        /\ rvol'.historical = Pushed(h, rvol.volume, Lookback)
    BY <1>8, <1>10
  <2>2. tape # <<>> /\ k < n /\ n > 0
    BY <1>1, <1>5, <1>6, <1>7, <1>10, SMTT(20)
  <2>3. rvol'.volume = SumFunctionOnSet(y, n+1..n+1)
    <3>1. {} \in SUBSET (1..n) /\ {} \cup {n + 1} = n+1..n+1
      BY <1>1
    <3>2. SumFunctionOnSet(z, {}) = 0
      <4>1. IsFiniteSet({}) /\ Numbers(z, {})
        BY FS_EmptySet DEF Numbers
      <4>2. QED
        BY <4>1, SumRecursion DEF SumLaw
    <3>3. SumFunctionOnSet(y, {} \cup {n + 1}) = SumFunctionOnSet(z, {}) + t.qty
      BY <1>4, <3>1
    <3>4. QED
      BY <1>5, <2>1, <3>1, <3>2, <3>3
  <2>4. \A i \in n+1..n+1 : tape'[i].at - t.at < Bucket
    <3>1. \A i \in n+1..n+1 : i = n + 1
      BY <1>1
    <3>2. t.at - t.at < Bucket
      BY <1>1, <1>5
    <3>3. QED
      BY <1>3, <3>1, <3>2
  <2> DEFINE b == Append(h, rvol.volume)
  <2>5. /\ b \in Seq(Nat) /\ Len(b) = Len(h) + 1 /\ b[Len(b)] = rvol.volume
        /\ rvol'.historical = Lately(b, Lookback) /\ Lookback \in Nat
    BY <1>1, <2>1 DEF Pushed
  <2>6. SumFunction(b) = SumFunction(h) + rvol.volume
    BY <1>1, OneMoreNumber
  <2> HIDE DEF b
  <2>7. /\ rvol'.historical \in Seq(Nat) /\ Len(rvol'.historical) <= Lookback
        /\ TailOf(rvol'.historical, b, Skipped(b, Lookback))
    BY <2>5, LatelyIsTail
  <2>8. /\ Len(rvol'.historical) = Len(b) - Skipped(b, Lookback)
        /\ \A i \in 1..Len(rvol'.historical) : rvol'.historical[i] = b[Skipped(b, Lookback) + i]
    BY <2>7 DEF TailOf
  <2>9. Len(rvol'.historical) \in Nat \ {0} /\ Skipped(b, Lookback) + Len(rvol'.historical) = Len(b)
    <3>1. Len(b) \in Nat \ {0} /\ Lookback \in Nat \ {0}
      <4>1. Len(h) \in Nat /\ Len(b) = Len(h) + 1 /\ Lookback \in Nat \ {0}
        <5>1. h \in Seq(Nat) /\ Lookback \in Nat \ {0}
          BY <1>1
        <5>2. Len(b) = Len(h) + 1
          BY <2>5
        <5>3. QED
          BY ONLY <5>1, <5>2
      <4>2. QED
        BY ONLY <4>1
    <3>2. Len(rvol'.historical) = Len(b) - Skipped(b, Lookback)
      BY <2>8
    <3>3. CASE Len(b) > Lookback
      <4>1. Skipped(b, Lookback) = Len(b) - Lookback
        BY <3>3 DEF Skipped
      <4>2. QED
        BY <3>1, <3>2, <4>1
    <3>4. CASE ~(Len(b) > Lookback)
      <4>1. Skipped(b, Lookback) = 0
        BY <3>4 DEF Skipped
      <4>2. QED
        BY <3>1, <3>2, <4>1
    <3>5. QED
      BY <3>3, <3>4
  <2>10. Len(rvol'.historical) < Lookback => SumFunctionOnSet(y, 1..n) = SumFunction(rvol'.historical)
    <3>1. SUFFICES ASSUME Len(rvol'.historical) < Lookback
                   PROVE  SumFunctionOnSet(y, 1..n) = SumFunction(rvol'.historical)
      OBVIOUS
    <3>2. Skipped(b, Lookback) = 0 /\ Len(h) < Lookback
      <4>0. /\ Len(b) = Len(h) + 1 /\ Len(h) \in Nat /\ Lookback \in Nat
            /\ Len(rvol'.historical) = Len(b) - Skipped(b, Lookback)
        BY <1>1, <2>5, <2>8
      <4>1. CASE Len(b) > Lookback
        <5>1. Skipped(b, Lookback) = Len(b) - Lookback
          BY <4>1 DEF Skipped
        <5>2. QED
          BY <3>1, <4>0, <5>1
      <4>2. CASE ~(Len(b) > Lookback)
        <5>1. Skipped(b, Lookback) = 0
          BY <4>2 DEF Skipped
        <5>2. QED
          BY <3>1, <4>0, <4>2, <5>1
      <4>3. QED
        BY <4>1, <4>2
    <3>3. rvol'.historical = b
      <4>1. TailOf(b, b, 0)
        <5>0. Len(b) = Len(h) + 1 /\ Len(h) \in Nat
          BY <1>1, <2>5, <2>8
        <5>1. Len(b) \in Nat
          BY ONLY <5>0
        <5>2. \A i \in 1..Len(b) : 0 + i = i
          BY ONLY <5>1
        <5>3. 0 \in 0..Len(b) /\ Len(b) = Len(b) - 0
          BY ONLY <5>1
        <5>4. QED
          BY ONLY <5>2, <5>3 DEF TailOf
      <4>2. QED
        BY <2>5, <2>7, <3>2, <4>1, SameTail
    <3>4. SumFunctionOnSet(z, 1..n) = SumFunctionOnSet(z, 1..k) + SumFunctionOnSet(z, k+1..n)
      <4> DEFINE D == 1..n
                 A == 1..k
                 B == k+1..n
      <4>1. A \in SUBSET D /\ B \in SUBSET D /\ A \cap B = {} /\ A \cup B = D
        BY <1>6
      <4>2. IsFiniteSet(D) /\ Numbers(z, D)
        BY <1>1, TradeNumbers DEF z
      <4> HIDE DEF D, A, B
      <4>3. SumFunctionOnSet(z, A \cup B) = SumFunctionOnSet(z, A) + SumFunctionOnSet(z, B)
        BY ONLY <4>1, <4>2, SumOfUnion
      <4>4. QED
        BY <4>1, <4>3 DEF D, A, B
    <3>5. 1..n \in SUBSET (1..n)
      OBVIOUS
    <3>6. SumFunctionOnSet(y, 1..n) = SumFunctionOnSet(z, 1..n)
      BY <1>4, <3>5
    <3>7. QED
      BY <1>2, <2>6, <3>2, <3>3, <3>4, <3>6
  <2>11. rvol'.historical # <<>> /\ Last(rvol'.historical) >= tape'[n].qty
    <3>1. n \in 1..n /\ n \in k+1..n
      BY <1>1, <1>6, <2>2
    <3>2. \A i \in 1..n : z[i] \in Nat
      BY <1>1, TradeCounts DEF z
    <3>3. z[n] <= SumFunctionOnSet(z, k+1..n)
      BY <1>1, <1>6, <3>1, <3>2, PartOfSum
    <3>4. z[n] = tape[n].qty /\ tape'[n] = tape[n]
      BY <1>1, <1>3, <3>1, TradeCounts DEF z
    <3>5. Len(rvol'.historical) \in 1..Len(rvol'.historical)
      BY <2>9
    <3>6. Last(rvol'.historical) = rvol.volume
      BY <2>5, <2>8, <2>9, <3>5 DEF Last
    <3>7. tape[n].qty \in Nat
      BY <3>1, <3>2, <3>4
    <3>8. rvol'.historical # <<>>
      BY <2>9
    <3>9. QED
      BY <1>1, <1>2, <3>3, <3>4, <3>6, <3>7, <3>8
  <2>12. n \in 0..Len(tape') /\ n < n + 1 /\ tape'[n + 1].at = t.at
    BY <1>1, <1>3
  <2>13. BucketsTellTheTape'
    BY <1>3, <2>1, <2>3, <2>4, <2>10, <2>11, <2>12 DEF BucketsTellTheTape, y
  <2>14. rvol'.volume \in Nat /\ rvol'.start \in 0..now'
    <3>1. now \in Int /\ t.at \in Nat /\ t.at <= now
      BY <1>1, <1>5
    <3>2. QED
      BY <1>5, <2>1, <3>1
  <2>15. QED
    BY <2>7, <2>13, <2>14
<1>11. QED
  BY <1>9, <1>10

\* _on_liquidation: the deque has the last of them, in the order of their times.
LEMMA LiquidationsKept ==
  ASSUME FlowCore, NEW r \in Liquidation, r.at = now,
         liquidations' = Pushed(liquidations, r, LiquidationCap), forced' = Append(forced, r),
         now' = now
  PROVE  /\ LastLiquidations'
         /\ liquidations' \in Seq(Liquidation) /\ Len(liquidations') <= LiquidationCap
         /\ forced' \in Seq(Liquidation) /\ \A i \in DOMAIN forced' : forced'[i].at <= now'
<1> DEFINE n == Len(forced)
<1>1. /\ forced \in Seq(Liquidation) /\ n \in Nat /\ LiquidationCap \in Nat /\ now \in Int
      /\ \A i \in 1..n : forced[i].at <= now
  <2>1. FlowType
    BY DEF FlowCore
  <2>2. forced \in Seq(Liquidation) /\ now \in 1..MaxTime /\ LiquidationCap \in Nat
    BY <2>1 DEF FlowType
  <2>3. n \in Nat /\ DOMAIN forced = 1..n
    BY <2>2
  <2>4. \A i \in 1..n : forced[i].at <= now
    BY <2>1, <2>3 DEF FlowType
  <2>5. QED
    BY <2>2, <2>3, <2>4
<1>2. /\ liquidations = Lately(forced, LiquidationCap)
      /\ \A i \in 1..n : \A j \in i..n : forced[i].at <= forced[j].at
  <2>1. LastLiquidations
    BY DEF FlowCore
  <2>2. DOMAIN forced = 1..n
    BY <1>1
  <2>3. QED
    BY <2>1, <2>2 DEF LastLiquidations
<1>3. /\ forced' \in Seq(Liquidation) /\ Len(forced') = n + 1 /\ DOMAIN forced' = 1..n+1
      /\ forced'[n + 1] = r /\ \A i \in 1..n : forced'[i] = forced[i]
  <2>1. forced' \in Seq(Liquidation) /\ Len(forced') = n + 1 /\ forced'[n + 1] = r
    BY <1>1
  <2>2. \A i \in 1..n : forced'[i] = forced[i]
    BY <1>1
  <2>3. QED
    BY <2>1, <2>2
<1>4. liquidations' = Lately(forced', LiquidationCap)
  BY <1>1, <1>2, PushedIsLately
<1>5. \A i \in 1..n+1 : forced'[i].at <= now
  <2>1. ASSUME NEW i \in 1..n+1 PROVE forced'[i].at <= now
    <3>1. i \in 1..n \/ i = n + 1
      BY <1>1
    <3>2. QED
      BY <1>1, <1>3, <3>1
  <2>2. QED
    BY <2>1
<1>6. ASSUME NEW i \in 1..n+1, NEW j \in i..n+1
      PROVE  forced'[i].at <= forced'[j].at
  <2>1. CASE j = n + 1
    BY <1>3, <1>5, <2>1
  <2>2. CASE j # n + 1
    <3>1. i \in 1..n /\ j \in i..n /\ j \in 1..n
      <4>1. n \in Nat /\ i \in 1..n+1 /\ j \in i..n+1
        BY <1>1
      <4>2. QED
        BY ONLY <2>2, <4>1
    <3>2. QED
      BY <1>2, <1>3, <3>1
  <2>3. QED
    BY <2>1, <2>2
<1>7. LastLiquidations'
  <2>1. \A i \in DOMAIN forced' : \A j \in i..Len(forced') : forced'[i].at <= forced'[j].at
    BY <1>3, <1>6
  <2>2. QED
    BY <1>4, <2>1 DEF LastLiquidations, Lately
<1>8. liquidations' \in Seq(Liquidation) /\ Len(liquidations') <= LiquidationCap
  BY <1>1, <1>3, <1>4, LatelyIsTail
<1>9. QED
  BY <1>3, <1>5, <1>7, <1>8

LEMMA FlowCoreStep ==
  ASSUME FlowCore, [FlowNext]_flowVars
  PROVE  FlowCore'
<1>1. FlowType /\ CvdIsOfAllTrades /\ BucketsTellTheTape /\ LastLiquidations
  BY DEF FlowCore
<1>2. ASSUME OnTrade PROVE FlowCore'
  <2>1. PICK t \in Trade : t.at <= now /\ flow' = FlowAfter(t) /\ rvol' = RvolAfter(t) /\ tape' = Append(tape, t)
    BY <1>2 DEF OnTrade
  <2>2. UNCHANGED <<liquidations, now, forced>>
    BY <1>2 DEF OnTrade
  <2>3. /\ CvdIsOfAllTrades'
        /\ flow'.trades \in Seq(Trade) /\ Len(flow'.trades) <= Window /\ flow'.cvd \in Int
    BY <2>1, TradeCvd
  <2>4. /\ BucketsTellTheTape'
        /\ rvol'.start \in 0..now' /\ rvol'.volume \in Nat
        /\ rvol'.historical \in Seq(Nat) /\ Len(rvol'.historical) <= Lookback
    BY <2>1, <2>2, TradeBuckets
  <2>5. LastLiquidations'
    BY <1>1, <2>2 DEF LastLiquidations
  <2>6. tape' \in Seq(Trade) /\ \A i \in DOMAIN tape' : tape'[i].at <= now
    <3>1. tape \in Seq(Trade) /\ \A i \in DOMAIN tape : tape[i].at <= now
      BY <1>1 DEF FlowType
    <3>2. tape' \in Seq(Trade) /\ DOMAIN tape' = 1..Len(tape)+1 /\ Len(tape) \in Nat
          /\ DOMAIN tape = 1..Len(tape) /\ tape'[Len(tape) + 1] = t
      BY <2>1, <3>1
    <3>3. \A i \in 1..Len(tape) : tape'[i] = tape[i]
      BY <2>1, <3>1
    <3>4. ASSUME NEW i \in DOMAIN tape' PROVE tape'[i].at <= now
      <4>1. i \in 1..Len(tape) \/ i = Len(tape) + 1
        BY <3>2
      <4>2. QED
        BY <2>1, <3>1, <3>2, <3>3, <4>1
    <3>5. QED
      BY <3>2, <3>4
  <2>7. FlowType'
    BY <1>1, <2>2, <2>3, <2>4, <2>6 DEF FlowType
  <2>8. QED
    BY <2>3, <2>4, <2>5, <2>7 DEF FlowCore
<1>3. ASSUME OnLiquidation PROVE FlowCore'
  <2>1. PICK r \in Liquidation : /\ r.at = now /\ forced' = Append(forced, r)
                                 /\ liquidations' = Pushed(liquidations, r, LiquidationCap)
    BY <1>3 DEF OnLiquidation
  <2>2. UNCHANGED <<flow, rvol, now, tape>>
    BY <1>3 DEF OnLiquidation
  <2>3. /\ LastLiquidations'
        /\ liquidations' \in Seq(Liquidation) /\ Len(liquidations') <= LiquidationCap
        /\ forced' \in Seq(Liquidation) /\ \A i \in DOMAIN forced' : forced'[i].at <= now'
    BY <2>1, <2>2, LiquidationsKept
  <2>4. FlowType'
    BY <1>1, <2>2, <2>3 DEF FlowType
  <2>5. CvdIsOfAllTrades' /\ BucketsTellTheTape'
    BY <1>1, <2>2 DEF CvdIsOfAllTrades, BucketsTellTheTape
  <2>6. QED
    BY <2>3, <2>4, <2>5 DEF FlowCore
<1>4. ASSUME Tick PROVE FlowCore'
  <2>1. now < MaxTime /\ now' = now + 1 /\ UNCHANGED <<flow, rvol, liquidations, tape, forced>>
    BY <1>4 DEF Tick
  <2>2. CvdIsOfAllTrades' /\ BucketsTellTheTape' /\ LastLiquidations'
    BY <1>1, <2>1 DEF CvdIsOfAllTrades, BucketsTellTheTape, LastLiquidations
  <2>3. now \in 1..MaxTime /\ rvol.start \in 0..now
    BY <1>1 DEF FlowType
  <2>4. now \in Int /\ MaxTime \in Int
    BY <2>3
  <2>5. now' \in 1..MaxTime /\ rvol.start \in 0..now'
    BY <2>1, <2>3, <2>4
  <2>6. \A i \in DOMAIN tape : tape[i].at <= now'
    <3>1. ASSUME NEW i \in DOMAIN tape PROVE tape[i].at <= now'
      <4>1. tape \in Seq(Trade) /\ tape[i].at <= now
        BY <1>1 DEF FlowType
      <4>2. tape[i].at \in Nat \ {0}
        BY <4>1, TradeCounts
      <4>3. QED
        BY <2>1, <2>4, <4>1, <4>2
    <3>2. QED
      BY <3>1
  <2>7. \A i \in DOMAIN forced : forced[i].at <= now'
    <3>1. ASSUME NEW i \in DOMAIN forced PROVE forced[i].at <= now'
      <4>1. forced \in Seq(Liquidation) /\ forced[i].at <= now
        BY <1>1 DEF FlowType
      <4>2. forced[i].at \in Int
        BY <4>1, LiquidationCounts
      <4>3. QED
        BY <2>1, <2>4, <4>1, <4>2
    <3>2. QED
      BY <3>1
  <2>8. FlowType'
    BY <1>1, <2>1, <2>5, <2>6, <2>7 DEF FlowType
  <2>9. QED
    BY <2>2, <2>8 DEF FlowCore
<1>5. ASSUME UNCHANGED flowVars PROVE FlowCore'
  <2>1. UNCHANGED <<flow, rvol, liquidations, now, tape, forced>>
    BY <1>5 DEF flowVars
  <2>2. QED
    BY <1>1, <2>1 DEF FlowCore, FlowType, CvdIsOfAllTrades, BucketsTellTheTape, LastLiquidations
<1>6. QED
  BY <1>2, <1>3, <1>4, <1>5 DEF FlowNext

\* What is kept tells the tape: the parts of FlowInv that follow from FlowCore.

\* cvd_slope: the running delta of purchases alone grows, of sales alone it falls.
LEMMA SlopeFollows ==
  ASSUME FlowCore
  PROVE  SlopeHasTheSideOfTheFlow
<1> DEFINE s == flow.trades
           n == Len(s)
           u == Deltas(s)
           r == RunningDelta(s)
<1>1. s \in Seq(Trade)
  BY DEF FlowCore, FlowType
<1>2. n \in Nat /\ DOMAIN s = 1..n /\ IsFiniteSet(1..n) /\ Numbers(u, 1..n)
  BY <1>1, TradeCounts, TradeNumbers
<1>3. \A i \in 1..n : /\ s[i].qty \in Nat \ {0}
                      /\ u[i] = IF s[i].buy THEN s[i].qty ELSE -s[i].qty
  BY <1>1, TradeCounts
<1>4. \A i \in 1..n : r[i] = SumFunctionOnSet(u, 1..i)
  BY <1>2 DEF RunningDelta
<1>5. Slope(s) = Numerator(r, n)
  <2>1. Slope(s) = SumFunction([i \in 1..n |-> (2 * i - (n + 1)) * r[i]])
    BY <1>2 DEF Slope
  <2>2. Slope(s) = SumFunction(Centred(r, n)) /\ DOMAIN Centred(r, n) = 1..n
    BY <2>1 DEF Centred
  <2>3. QED
    BY <2>2 DEF SumFunction, Numerator
<1> HIDE DEF u, r, n
<1>6. Numbers(r, 1..n)
  <2>1. SumLaw(u, 1..n)
    BY <1>2, SumRecursion
  <2>2. \A i \in 1..n : 1..i \in SUBSET (1..n)
    BY <1>2
  <2>3. QED
    BY <1>4, <2>1, <2>2 DEF SumLaw, Numbers
<1>7. SUFFICES ASSUME n >= 3
               PROVE  /\ (\A i \in 1..n : s[i].buy) => Slope(s) > 0
                      /\ (\A i \in 1..n : ~s[i].buy) => Slope(s) < 0
  BY <1>2 DEF SlopeHasTheSideOfTheFlow, n
<1>8. ASSUME \A i \in 1..n : s[i].buy
      PROVE  Slope(s) > 0
  <2>1. \A i \in 1..n : u[i] \in Nat \ {0}
    BY <1>3, <1>8
  <2>2. \A i, j \in 1..n : i < j => SumFunctionOnSet(u, 1..i) < SumFunctionOnSet(u, 1..j)
    BY <1>2, <2>1, SumsIncrease
  <2>3. \A i, j \in 1..n : i < j => r[i] < r[j]
    BY <1>4, <2>2
  <2>4. n >= 2
    BY <1>2, <1>7
  <2>5. Numerator(r, n) > 0
    BY <1>2, <1>6, <2>3, <2>4, GrowingNumbers
  <2>6. QED
    BY <1>5, <2>5
<1>9. ASSUME \A i \in 1..n : ~s[i].buy
      PROVE  Slope(s) < 0
  <2> DEFINE v == [i \in 1..n |-> -u[i]]
             q == [i \in 1..n |-> SumFunctionOnSet(v, 1..i)]
  <2>1. \A i \in 1..n : v[i] = -u[i]
    OBVIOUS
  <2>2. \A i \in 1..n : v[i] \in Nat \ {0}
    <3>1. ASSUME NEW i \in 1..n PROVE v[i] \in Nat \ {0}
      <4>1. s[i].qty \in Nat \ {0} /\ u[i] = -s[i].qty
        BY <1>3, <1>9
      <4>2. QED
        BY <2>1, <4>1
    <3>2. QED
      BY <3>1
  <2> HIDE DEF v
  <2>3. \A i \in 1..n : q[i] = SumFunctionOnSet(v, 1..i)
    OBVIOUS
  <2> HIDE DEF q
  <2>4. \A m \in 0..n : SumFunctionOnSet(v, 1..m) = -SumFunctionOnSet(u, 1..m)
    BY <1>2, <2>1, SumNegated
  <2>5. \A i \in 1..n : q[i] = -r[i] /\ r[i] \in Int
    <3>1. ASSUME NEW i \in 1..n PROVE q[i] = -r[i] /\ r[i] \in Int
      <4>1. i \in 0..n
        BY <1>2
      <4>2. QED
        BY <1>4, <1>6, <2>3, <2>4, <4>1 DEF Numbers
    <3>2. QED
      BY <3>1
  <2>6. \A i, j \in 1..n : i < j => SumFunctionOnSet(v, 1..i) < SumFunctionOnSet(v, 1..j)
    BY <1>2, <2>2, SumsIncrease
  <2>7. \A i, j \in 1..n : i < j => q[i] < q[j]
    BY <2>3, <2>6
  <2>8. Numbers(q, 1..n) /\ n >= 2
    <3>1. \A i \in 1..n : q[i] \in Int
      BY <2>5
    <3>2. n >= 2
      BY <1>2, <1>7
    <3>3. QED
      BY <3>1, <3>2 DEF Numbers
  <2>9. Numerator(q, n) > 0
    BY <1>2, <2>7, <2>8, GrowingNumbers
  <2>10. Numerator(q, n) = -Numerator(r, n) /\ Numerator(r, n) \in Int
    <3> DEFINE a == Centred(r, n)
               b == Centred(q, n)
    <3>1. ASSUME NEW i \in 1..n PROVE a[i] \in Int /\ b[i] = -a[i]
      <4>1. r[i] \in Int /\ q[i] = -r[i] /\ 2 * i - (n + 1) \in Int
        BY <1>2, <2>5
      <4>2. a[i] = (2 * i - (n + 1)) * r[i] /\ b[i] = (2 * i - (n + 1)) * q[i]
        BY DEF Centred
      <4>3. \A x, y \in Int : x * y \in Int /\ x * (-y) = -(x * y)
        OBVIOUS
      <4> HIDE DEF a, b
      <4>4. QED
        BY <4>1, <4>2, <4>3
    <3> HIDE DEF a, b
    <3>2. Numbers(a, 1..n)
      BY <3>1 DEF Numbers
    <3>3. \A i \in 1..n : b[i] = -a[i]
      BY <3>1
    <3>4. \A m \in 0..n : SumFunctionOnSet(b, 1..m) = -SumFunctionOnSet(a, 1..m)
      BY <1>2, <3>2, <3>3, SumNegated
    <3>5. n \in 0..n /\ 1..n \in SUBSET (1..n)
      BY <1>2
    <3>6. SumFunctionOnSet(a, 1..n) \in Int
      BY <1>2, <3>2, <3>5, SumRecursion DEF SumLaw
    <3>7. QED
      BY <3>4, <3>5, <3>6 DEF Numerator, a, b
  <2>11. QED
    BY <1>5, <2>9, <2>10
<1>10. QED
  BY <1>8, <1>9

\* compute_cluster_totals: the deque is where the window begins, or the window is
\* longer than it.
LEMMA TotalsFollow ==
  ASSUME FlowCore
  PROVE  TotalsOfTheWindow
<1> DEFINE N == Len(forced)
           s == liquidations
           n == Len(s)
           d == Skipped(forced, LiquidationCap)
           W == {i \in 1..N : now - forced[i].at <= LiquidationWindow}
<1>1. /\ forced \in Seq(Liquidation) /\ now \in Int /\ LiquidationCap \in Nat \ {0}
      /\ LiquidationWindow \in Int /\ LiquidationCap \in Nat
  BY DEF FlowCore, FlowType
<1>2. /\ N \in Nat /\ DOMAIN forced = 1..N
      /\ \A i \in 1..N : /\ forced[i].qty \in Nat \ {0} /\ forced[i].at \in Int
                         /\ forced[i].long \in BOOLEAN /\ Sizes(forced)[i] = forced[i].qty
  BY <1>1, LiquidationCounts
<1>3. /\ s = Lately(forced, LiquidationCap)
      /\ \A i \in 1..N : \A j \in i..N : forced[i].at <= forced[j].at
  BY <1>2 DEF FlowCore, LastLiquidations
<1>4. s \in Seq(Liquidation) /\ TailOf(s, forced, d)
  BY <1>1, <1>3, LatelyIsTail
<1>5. /\ d \in 0..N /\ n = N - d /\ n \in Nat /\ d \in Nat /\ DOMAIN s = 1..n
      /\ \A i \in 1..n : s[i] = forced[d + i]
  BY <1>2, <1>4 DEF TailOf
<1>6. d = 0 \/ d = N - LiquidationCap
  BY DEF Skipped
<1> HIDE DEF N, n, d
<1>7. SUFFICES ASSUME Cardinality(W) <= LiquidationCap, NEW long \in BOOLEAN
               PROVE  ClusterTotal(s, long) =
                        SumFunctionOnSet(Sizes(forced), {i \in W : forced[i].long = long})
  BY <1>2 DEF TotalsOfTheWindow
<1>8. W \subseteq d+1..d+n
  <2>0. \A i \in W : i \in 1..N
    OBVIOUS
  <2>a. d \in Nat /\ n \in Nat /\ d + n = N
    BY <1>2, <1>5
  <2>1. SUFFICES ASSUME NEW i \in W, i <= d PROVE FALSE
    <3> HIDE DEF W
    <3> QED BY <2>0, <2>a
  <2>2. i \in 1..N /\ d = N - LiquidationCap /\ N - i + 1 > LiquidationCap
    BY <1>1, <1>2, <1>5, <1>6, <2>1
  <2>3. ASSUME NEW j \in i..N PROVE j \in W
    <3>1. j \in 1..N /\ forced[i].at <= forced[j].at /\ now - forced[i].at <= LiquidationWindow
      BY <1>2, <1>3, <2>2, <2>3
    <3>2. forced[i].at \in Int /\ forced[j].at \in Int
      BY <1>2, <2>2, <3>1
    <3>3. now - forced[j].at <= LiquidationWindow
      BY ONLY <1>1, <3>1, <3>2
    <3>4. QED
      BY <3>1, <3>3
  <2>4. IsFiniteSet(W)
    <3>1. IsFiniteSet(1..N)
      BY <1>2, FS_Interval
    <3>2. W \in SUBSET (1..N)
      OBVIOUS
    <3>3. QED
      BY <3>1, <3>2, FS_Subset
  <2>5. i..N \in SUBSET W
    BY <2>3
  <2>6. Cardinality(i..N) = N - i + 1
    <3>1. i \in Int /\ N \in Int /\ ~(i > N)
      BY <1>2, <2>2
    <3>2. QED
      BY <3>1, FS_Interval
  <2> HIDE DEF W
  <2>7. Cardinality(i..N) <= Cardinality(W) /\ Cardinality(W) \in Nat
    BY <2>4, <2>5, FS_Subset, FS_CardinalityType
  <2>8. N - i + 1 \in Int
    BY <1>2, <2>2
  <2>9. QED
    BY <1>1, <1>7, <2>2, <2>6, <2>7, <2>8
<1> DEFINE D == d+1..d+n
           Q == {i \in W : forced[i].long = long}
           z == Sizes(forced)
           v == [x \in D |-> IF x \in Q THEN z[x] ELSE 0]
           w == [i \in DOMAIN s |-> IF s[i].at >= now - LiquidationWindow /\ s[i].long = long
                                    THEN s[i].qty ELSE 0]
<1>9. IsFiniteSet(D) /\ Q \in SUBSET D /\ Numbers(z, D) /\ Numbers(v, D)
      /\ \A x \in D : v[x] = IF x \in Q THEN z[x] ELSE 0
  <2>1. d + 1 \in Int /\ d + n \in Int
    BY <1>5
  <2>2. \A x \in D : x \in 1..N
    <3>1. N \in Nat /\ d \in 0..N /\ n = N - d
      BY <1>2, <1>5
    <3>2. \A x \in d+1..d+n : x \in 1..N
      BY ONLY <3>1
    <3>3. QED
      BY <3>2
  <2>3. \A x \in D : z[x] \in Int
    <3>1. \A x \in 1..N : z[x] \in Int
      BY <1>2
    <3>2. QED
      BY ONLY <2>2, <3>1
  <2>4. IsFiniteSet(D)
    BY <2>1, FS_Interval
  <2>5. Q \in SUBSET D
    BY <1>8
  <2> HIDE DEF Q, D, z
  <2>6. \A x \in D : v[x] = IF x \in Q THEN z[x] ELSE 0
    OBVIOUS
  <2> HIDE DEF v
  <2>7. QED
    BY <2>3, <2>4, <2>5, <2>6 DEF Numbers
<1>10. ASSUME NEW i \in 1..n PROVE w[i] = v[d + i]
  <2>0. d \in Nat /\ n \in Nat /\ d + n = N
    BY <1>2, <1>5
  <2>a. d + i \in d+1..d+n /\ d + i \in 1..N
    BY <2>0
  <2>1. d + i \in D /\ d + i \in 1..N
    BY <2>a
  <2>2. s[i] = forced[d + i] /\ i \in DOMAIN s
    BY <1>5
  <2>3. w[i] = IF forced[d + i].at >= now - LiquidationWindow /\ forced[d + i].long = long
               THEN forced[d + i].qty ELSE 0
    BY <2>2
  <2>4. forced[d + i].at >= now - LiquidationWindow <=> now - forced[d + i].at <= LiquidationWindow
    <3>1. forced[d + i].at \in Int /\ now \in Int /\ LiquidationWindow \in Int
      BY <1>1, <1>2, <2>1
    <3>2. QED
      BY ONLY <3>1
  <2>5. d + i \in Q <=> forced[d + i].at >= now - LiquidationWindow /\ forced[d + i].long = long
    BY <2>1, <2>4, Zenon
  <2>6. z[d + i] = forced[d + i].qty
    BY <1>2, <2>1
  <2>7. v[d + i] = IF d + i \in Q THEN z[d + i] ELSE 0
    BY <1>9, <2>1
  <2> HIDE DEF w, v, Q, z
  <2>8. QED
    BY <2>3, <2>5, <2>6, <2>7
<1>11. ClusterTotal(s, long) = SumFunctionOnSet(w, 1..n)
  <2>1. ClusterTotal(s, long) = SumFunction(w)
    BY DEF ClusterTotal
  <2>2. DOMAIN w = 1..n
    BY <1>5
  <2> HIDE DEF w
  <2>3. QED
    BY <2>1, <2>2 DEF SumFunction
<1> HIDE DEF w, v, z, Q, W
<1>12. SumFunctionOnSet(w, 1..n) = SumFunctionOnSet(v, D)
  <2>1. d \in Nat /\ n \in Nat /\ Numbers(v, d+1..d+n) /\ D = d+1..d+n
    BY <1>5, <1>9
  <2>2. \A i \in 1..n : w[i] = v[d + i]
    BY <1>10
  <2> HIDE DEF D
  <2>3. SumFunctionOnSet(w, 1..n) = SumFunctionOnSet(v, d+1..d+n)
    BY ONLY <2>1, <2>2, SumShifted
  <2>4. QED
    BY <2>1, <2>3
<1>13. SumFunctionOnSet(v, D) = SumFunctionOnSet(z, Q)
  <2> HIDE DEF D
  <2>1. QED
    BY <1>9, MaskedSum
<1>14. QED
  BY <1>11, <1>12, <1>13 DEF z, Q

\* compute_tape_speed_per_min: the deque is the end of the tape.
LEMMA SpeedFollows ==
  ASSUME FlowCore
  PROVE  SpeedIsOfTheTape
<1> DEFINE N == Len(tape)
           s == flow.trades
           n == Len(s)
           d == Skipped(tape, Window)
           young == {i \in 1..N : now - tape[i].at <= TapeWindow}
           pushedOut == {i \in young : N - i >= Window}
           kept == {i \in 1..n : s[i].at >= now - TapeWindow}
<1>1. /\ tape \in Seq(Trade) /\ now \in Int /\ Window \in Nat \ {0} /\ Window \in Nat /\ TapeWindow \in Int
  BY DEF FlowCore, FlowType
<1>2. N \in Nat /\ DOMAIN tape = 1..N /\ \A i \in 1..N : tape[i].at \in Int
  BY <1>1, TradeCounts
<1>3. s = Lately(tape, Window)
  BY DEF FlowCore, CvdIsOfAllTrades
<1>4. s \in Seq(Trade) /\ TailOf(s, tape, d)
  BY <1>1, <1>3, LatelyIsTail
<1>5. /\ d \in 0..N /\ n = N - d /\ n \in Nat /\ d \in Nat /\ DOMAIN s = 1..n
      /\ \A i \in 1..n : s[i] = tape[d + i]
  <2>1. n \in Nat /\ DOMAIN s = 1..n
    BY <1>4
  <2>2. d \in 0..N /\ n = N - d /\ \A i \in 1..n : s[i] = tape[d + i]
    BY <1>4 DEF TailOf
  <2>3. QED
    BY <1>2, <2>1, <2>2
<1>6. IF N > Window THEN d = N - Window ELSE d = 0
  BY DEF Skipped
<1>7. TapeCount = Cardinality(kept)
  BY <1>5 DEF TapeCount
<1> HIDE DEF N, n, d
<1>8. TapeCount = Cardinality(young) - Cardinality(pushedOut)
  <2>1. IsFiniteSet(young) /\ pushedOut \in SUBSET young
    <3>1. IsFiniteSet(1..N) /\ young \in SUBSET (1..N)
      BY <1>2, FS_Interval
    <3>2. pushedOut \in SUBSET young
      OBVIOUS
    <3> HIDE DEF young, pushedOut
    <3>3. QED
      BY <3>1, <3>2, FS_Subset
  <2>2. Cardinality(young \ pushedOut) = Cardinality(young) - Cardinality(pushedOut)
    <3> HIDE DEF young, pushedOut
    <3>1. young \cap pushedOut = pushedOut
      BY <2>1
    <3>2. QED
      BY <2>1, <3>1, FS_Difference
  <2> DEFINE rest == young \ pushedOut
             f == [i \in kept |-> d + i]
  <2>3. ASSUME NEW i \in kept PROVE d + i \in rest
    <3>0. i \in 1..n /\ s[i].at >= now - TapeWindow
      OBVIOUS
    <3>b. s[i] = tape[d + i] /\ d \in Nat /\ n \in Nat /\ N \in Nat /\ n = N - d
      BY <1>2, <1>5, <3>0
    <3>a. s[i] = tape[d + i] /\ d + i \in 1..N
      BY ONLY <3>0, <3>b
    <3>1. i \in 1..n /\ s[i].at >= now - TapeWindow /\ s[i] = tape[d + i] /\ d + i \in 1..N
      BY <3>0, <3>a
    <3>2. tape[d + i].at \in Int /\ now \in Int /\ TapeWindow \in Int
      BY <1>1, <1>2, <3>1
    <3>3. now - tape[d + i].at <= TapeWindow
      BY ONLY <3>1, <3>2
    <3>4. ~(N - (d + i) >= Window)
      BY <1>1, <1>2, <1>5, <1>6, <3>1
    <3>5. QED
      BY <3>1, <3>3, <3>4
  <2>4. ASSUME NEW j \in rest PROVE \E i \in kept : d + i = j
    <3>1. j \in 1..N /\ now - tape[j].at <= TapeWindow /\ ~(N - j >= Window)
      OBVIOUS
    <3>2. j - d \in 1..n /\ d + (j - d) = j
      <4>1. CASE N > Window
        BY <1>1, <1>2, <1>5, <1>6, <3>1, <4>1
      <4>2. CASE ~(N > Window)
        BY <1>1, <1>2, <1>5, <1>6, <3>1, <4>2
      <4>3. QED
        BY <4>1, <4>2
    <3>3. s[j - d] = tape[j] /\ tape[j].at \in Int
      BY <1>2, <1>5, <3>1, <3>2
    <3>4. s[j - d].at >= now - TapeWindow
      BY <1>1, <3>1, <3>3
    <3>5. QED
      BY <3>2, <3>4
  <2>5. ASSUME NEW i \in kept, NEW j \in kept, d + i = d + j PROVE i = j
    BY <1>5, <2>5
  <2>6. IsFiniteSet(kept)
    <3>1. IsFiniteSet(1..n) /\ kept \in SUBSET (1..n)
      BY <1>5, FS_Interval
    <3> HIDE DEF kept
    <3>2. QED
      BY <3>1, FS_Subset
  <2> HIDE DEF kept, rest
  <2>7. f \in Bijection(kept, rest)
    BY <2>3, <2>4, <2>5 DEF Bijection, Injection, Surjection, IsInjective
  <2>8. Cardinality(rest) = Cardinality(kept)
    BY <2>6, <2>7, FS_Bijection DEF ExistsBijection
  <2>9. QED
    BY <1>7, <2>2, <2>8 DEF rest
<1>9. ASSUME NEW m \in 1..Window
      PROVE  /\ 2 * Aggression(m)[1] - Aggression(m)[2] = WindowDelta(m)
             /\ WindowDelta(m) = Bought(Lately(tape, m)) - Sold(Lately(tape, m))
  <2> DEFINE q == Lately(tape, m)
  <2>1. m \in 0..Window /\ m \in Nat
    BY <1>1
  <2>2. Lately(s, m) = q
    BY <1>1, <1>3, <2>1, LatelyTwice
  <2>3. q \in Seq(Trade)
    BY <1>1, <2>1, LatelyIsTail
  <2>4. Aggression(m) = <<Bought(q), SumFunction(Sizes(q))>> /\ WindowDelta(m) = SumFunction(Deltas(q))
    BY <2>2 DEF Aggression, WindowDelta
  <2> HIDE DEF q
  <2>5. /\ Bought(q) \in Int /\ Sold(q) \in Int
        /\ SumFunction(Deltas(q)) = Bought(q) - Sold(q)
        /\ SumFunction(Sizes(q)) = Bought(q) + Sold(q)
    BY <2>3, NetOfTrades
  <2>6. Aggression(m)[1] = Bought(q) /\ Aggression(m)[2] = Bought(q) + Sold(q)
    BY <2>4, <2>5
  <2>7. 2 * Bought(q) - (Bought(q) + Sold(q)) = Bought(q) - Sold(q)
    BY <2>5
  <2>8. QED
    BY <2>4, <2>5, <2>6, <2>7 DEF q
<1>10. QED
  BY <1>2, <1>8, <1>9 DEF SpeedIsOfTheTape, N

\* FlowEngine, RvolCalculator and LiquidationClusterDetector: in every state, whatever
\* the trades, the liquidations and their times, what is kept tells the tape. It is
\* the invariant of the run engines.
THEOREM FlowInvariant == FlowSpec => []FlowInv
<1>1. FlowCore => FlowInv
  <2>1. SUFFICES ASSUME FlowCore PROVE FlowInv
    OBVIOUS
  <2>2. FlowType /\ CvdIsOfAllTrades /\ BucketsTellTheTape /\ LastLiquidations
    BY <2>1 DEF FlowCore
  <2>3. SlopeHasTheSideOfTheFlow
    BY <2>1, SlopeFollows
  <2>4. TotalsOfTheWindow
    BY <2>1, TotalsFollow
  <2>5. SpeedIsOfTheTape
    BY <2>1, SpeedFollows
  <2>6. QED
    BY <2>2, <2>3, <2>4, <2>5 DEF FlowInv
<1>2. FlowInit => FlowCore
  BY FlowStart
<1>3. FlowCore /\ [FlowNext]_flowVars => FlowCore'
  BY FlowCoreStep
<1>4. QED
  BY <1>1, <1>2, <1>3, PTL DEF FlowSpec

-----------------------------------------------------------------------------
\* Indicators.

HIDE FlowAssumption

\* Wilder's recurrence from a seed a at place lo up to place hi.
Averages(r, lo, hi, a, c) ==
  r = [i \in lo..hi |-> IF i = lo THEN a
                        ELSE (r[i - 1] * (RsiPeriod - 1) + Scale * c[i]) \div RsiPeriod]

LEMMA SmoothedIsNatural ==
  ASSUME NEW x \in Nat, NEW y \in Nat
  PROVE  (x * (RsiPeriod - 1) + Scale * y) \div RsiPeriod \in Nat
<1>1. RsiPeriod \in Nat \ {0} /\ RsiPeriod - 1 \in Nat /\ Scale \in Nat
  BY IndicatorAssumption
<1>2. \A p, q \in Nat : p * q \in Nat /\ p + q \in Nat
  OBVIOUS
<1>3. x * (RsiPeriod - 1) + Scale * y \in Nat
  BY <1>1, <1>2
<1>4. \A p \in Nat, q \in Nat \ {0} : p \div q \in Nat
  OBVIOUS
<1>5. QED
  BY <1>1, <1>3, <1>4

\* A smallest place up to which there is no such function would get one.
LEMMA AveragesExist ==
  ASSUME NEW lo \in Nat, NEW hi \in Nat, NEW a \in Nat, NEW c, \A i \in lo..hi : c[i] \in Nat
  PROVE  lo <= hi => \E r \in [lo..hi -> Nat] : Averages(r, lo, hi, a, c)
<1> DEFINE T == {h \in lo..hi : ~ \E r \in [lo..h -> Nat] : Averages(r, lo, h, a, c)}
<1>1. SUFFICES ASSUME T # {}, lo <= hi PROVE FALSE
  OBVIOUS
<1>a. T \subseteq Nat
  OBVIOUS
<1>2. PICK h \in T : \A k \in T : h <= k
  <2> HIDE DEF T
  <2> QED BY <1>1, <1>a, LeastElement
<1>3. h \in Nat /\ h \in lo..hi /\ h - 1 \notin T
  <2>1. h \in Nat /\ h \in lo..hi /\ ~(h <= h - 1)
    BY <1>2
  <2>2. QED
    BY ONLY <1>2, <2>1
<1>4. CASE h = lo
  <2> DEFINE r == [i \in lo..h |-> a]
  <2>1. r \in [lo..h -> Nat] /\ Averages(r, lo, h, a, c)
    BY <1>4 DEF Averages
  <2>2. QED
    BY <1>2, <2>1
<1>5. CASE h # lo
  <2>1. h - 1 \in lo..hi
    BY <1>3, <1>5
  <2>2. PICK r \in [lo..h-1 -> Nat] : Averages(r, lo, h - 1, a, c)
    BY <1>3, <2>1
  <2> DEFINE x == (r[h - 1] * (RsiPeriod - 1) + Scale * c[h]) \div RsiPeriod
             q == [i \in lo..h |-> IF i = h THEN x ELSE r[i]]
  <2>3. r[h - 1] \in Nat /\ c[h] \in Nat
    BY <1>3, <2>1, <2>2
  <2>4. x \in Nat
    BY <2>3, SmoothedIsNatural
  <2>5. \A i \in lo..h : i # h => i \in lo..h-1 /\ r[i] \in Nat
    BY <1>3, <2>2
  <2>6. q \in [lo..h -> Nat]
    BY <2>4, <2>5
  <2>7. \A i \in lo..h : q[i] = IF i = lo THEN a
                                ELSE (q[i - 1] * (RsiPeriod - 1) + Scale * c[i]) \div RsiPeriod
    <3>1. TAKE i \in lo..h
    <3>2. CASE i = h
      <4>1. h - 1 \in lo..h /\ h - 1 # h /\ i # lo
        BY <1>3, <1>5, <2>1, <3>2
      <4>2. q[i] = x /\ q[i - 1] = r[h - 1]
        BY <3>2, <4>1
      <4>3. QED
        BY <3>2, <4>1, <4>2
    <3>3. CASE i # h
      <4>1. i \in lo..h-1 /\ q[i] = r[i]
        BY <2>5, <3>3
      <4>2. r[i] = IF i = lo THEN a ELSE (r[i - 1] * (RsiPeriod - 1) + Scale * c[i]) \div RsiPeriod
        BY <2>2, <4>1 DEF Averages
      <4>3. i # lo => i - 1 \in lo..h /\ i - 1 # h
        BY <1>3, <4>1
      <4>4. i # lo => q[i - 1] = r[i - 1]
        BY <4>3
      <4>5. QED
        BY <4>1, <4>2, <4>4
    <3>4. QED
      BY <3>2, <3>3
  <2>8. Averages(q, lo, h, a, c)
    BY <2>7 DEF Averages
  <2>9. QED
    BY <1>2, <2>6, <2>8
<1>6. QED
  BY <1>4, <1>5

\* Of changes that agree there are no two.
LEMMA AveragesAgree ==
  ASSUME NEW lo \in Nat, NEW hi \in Nat, NEW top \in Nat, hi <= top, NEW a, NEW c, NEW d,
         \A i \in lo+1..hi : c[i] = d[i],
         NEW r, Averages(r, lo, hi, a, c), NEW q, Averages(q, lo, top, a, d)
  PROVE  \A i \in lo..hi : r[i] = q[i]
<1> DEFINE T == {i \in lo..hi : r[i] # q[i]}
<1>1. SUFFICES ASSUME T # {} PROVE FALSE
  OBVIOUS
<1>a. T \subseteq Nat
  OBVIOUS
<1>2. PICK i \in T : \A k \in T : i <= k
  <2> HIDE DEF T
  <2> QED BY <1>1, <1>a, LeastElement
<1>3. i \in Nat /\ i \in lo..hi /\ i \in lo..top /\ i - 1 \notin T
  BY <1>2
<1>4. /\ r[i] = IF i = lo THEN a ELSE (r[i - 1] * (RsiPeriod - 1) + Scale * c[i]) \div RsiPeriod
      /\ q[i] = IF i = lo THEN a ELSE (q[i - 1] * (RsiPeriod - 1) + Scale * d[i]) \div RsiPeriod
  BY <1>3 DEF Averages
<1>5. i # lo => i - 1 \in lo..hi /\ i \in lo+1..hi
  BY <1>3
<1>6. i # lo => r[i - 1] = q[i - 1] /\ c[i] = d[i]
  BY <1>3, <1>5
<1>7. QED
  BY <1>2, <1>4, <1>6

Seed(c) == (Scale * SumFunctionOnSet(c, 2..RsiPeriod+1)) \div RsiPeriod

\* What is to be known of Wilder's average of changes that are numbers.
LEMMA WilderLaw ==
  ASSUME NEW n \in Nat, RsiPeriod + 1 <= n, NEW c, \A i \in 2..n : c[i] \in Nat
  PROVE  /\ WilderAverage(c, n) \in Nat
         /\ Seed(c) \in Nat
         /\ n = RsiPeriod + 1 => WilderAverage(c, n) = Seed(c)
         /\ \E r \in [RsiPeriod+1..n -> Nat] :
              Averages(r, RsiPeriod + 1, n, Seed(c), c) /\ WilderAverage(c, n) = r[n]
<1> DEFINE lo == RsiPeriod + 1
<1>1. RsiPeriod \in Nat \ {0} /\ Scale \in Nat /\ lo \in Nat
  BY IndicatorAssumption
<1>2. Seed(c) \in Nat
  <2>1. IsFiniteSet(2..RsiPeriod+1) /\ \A i \in 2..RsiPeriod+1 : c[i] \in Nat
    BY <1>1, FS_Interval
  <2>2. SumFunctionOnSet(c, 2..RsiPeriod+1) \in Nat
    BY <2>1, SumGrows
  <2>3. \A p, q \in Nat : p * q \in Nat
    OBVIOUS
  <2>4. \A p \in Nat, q \in Nat \ {0} : p \div q \in Nat
    OBVIOUS
  <2>5. QED
    BY <1>1, <2>2, <2>3, <2>4 DEF Seed
<1>3. \A i \in lo..n : c[i] \in Nat
  BY <1>1
<1>4. PICK r \in [lo..n -> Nat] : Averages(r, lo, n, Seed(c), c)
  BY <1>1, <1>2, <1>3, AveragesExist
<1>5. PICK q : Averages(q, lo, n, Seed(c), c) /\ WilderAverage(c, n) = q[n]
  BY <1>4 DEF WilderAverage, Averages, Seed
<1>6. \A i \in lo..n : r[i] = q[i]
  BY <1>1, <1>4, <1>5, AveragesAgree
<1>7. n \in lo..n /\ WilderAverage(c, n) = r[n]
  BY <1>1, <1>5, <1>6
<1>8. n = lo => r[n] = Seed(c)
  BY <1>1, <1>4, <1>7 DEF Averages
<1>9. QED
  BY <1>2, <1>4, <1>7, <1>8

\* One bar more smooths the average before it.
LEMMA WilderNext ==
  ASSUME NEW n \in Nat, RsiPeriod + 1 <= n, NEW c, \A i \in 2..n+1 : c[i] \in Nat,
         NEW d, \A i \in 2..n : d[i] = c[i]
  PROVE  WilderAverage(c, n + 1) =
           (WilderAverage(d, n) * (RsiPeriod - 1) + Scale * c[n + 1]) \div RsiPeriod
<1> DEFINE lo == RsiPeriod + 1
<1>1. RsiPeriod \in Nat \ {0} /\ lo \in Nat /\ n + 1 \in Nat
  BY IndicatorAssumption
<1>2. (\A i \in 2..n : d[i] \in Nat) /\ lo <= n + 1
  BY <1>1
<1>3. Seed(c) = Seed(d)
  <2>1. \A i \in 2..lo : d[i] = c[i] /\ c[i] \in Int
    BY <1>1
  <2>2. IsFiniteSet(2..lo) /\ Numbers(c, 2..lo)
    BY <1>1, <2>1, FS_Interval DEF Numbers
  <2>3. SumFunctionOnSet(d, 2..lo) = SumFunctionOnSet(c, 2..lo)
    BY <2>1, <2>2, SameSum
  <2>4. QED
    BY <2>3 DEF Seed
<1>4. PICK r \in [lo..n+1 -> Nat] :
        Averages(r, lo, n + 1, Seed(c), c) /\ WilderAverage(c, n + 1) = r[n + 1]
  BY <1>1, <1>2, WilderLaw
<1>5. PICK q \in [lo..n -> Nat] : Averages(q, lo, n, Seed(c), d) /\ WilderAverage(d, n) = q[n]
  BY <1>1, <1>2, <1>3, WilderLaw
<1>6. (\A i \in lo+1..n : d[i] = c[i]) /\ n <= n + 1
  BY <1>1
<1>7. \A i \in lo..n : q[i] = r[i]
  <2> DEFINE a == Seed(c)
             top == n + 1
  <2>1. /\ Averages(q, lo, n, a, d) /\ Averages(r, lo, top, a, c)
        /\ top \in Nat /\ n <= top /\ lo \in Nat /\ n \in Nat
    BY <1>1, <1>4, <1>5, <1>6
  <2> HIDE DEF a, top, lo
  <2>2. QED
    BY ONLY <1>6, <2>1, AveragesAgree, SMTT(30)
<1>8. n + 1 \in lo..n+1 /\ n + 1 # lo /\ (n + 1) - 1 = n /\ n \in lo..n
  BY <1>1
<1>9. r[n + 1] = (r[(n + 1) - 1] * (RsiPeriod - 1) + Scale * c[n + 1]) \div RsiPeriod
  BY <1>4, <1>8 DEF Averages
<1>10. QED
  BY <1>4, <1>5, <1>7, <1>8, <1>9

LEMMA ThreeMax ==
  ASSUME NEW a \in Nat, NEW b \in Nat, NEW c \in Nat
  PROVE  /\ Max({a, b, c}) \in {a, b, c}
         /\ Max({a, b, c}) >= a /\ Max({a, b, c}) >= b /\ Max({a, b, c}) >= c
<1>1. \E x \in {a, b, c} : \A y \in {a, b, c} : x >= y
  OBVIOUS
<1>2. QED
  BY <1>1 DEF Max

\* A deque of at most n elements keeps the last of them.
LEMMA PushKeepsLast ==
  ASSUME NEW S, NEW s \in Seq(S), NEW x \in S, NEW n \in Nat \ {0}, Len(s) <= n,
         NEW kept, kept = Push(s, x, n)
  PROVE  /\ kept \in Seq(S)
         /\ Len(kept) = IF Len(s) < n THEN Len(s) + 1 ELSE n
         /\ \A i \in 1..Len(kept) : kept[i] = IF i = Len(kept) THEN x
                                               ELSE s[i + (Len(s) + 1 - Len(kept))]
<1>1. CASE Len(s) < n
  <2>1. Push(s, x, n) = Append(s, x)
    BY <1>1 DEF Push
  <2>2. Append(s, x) \in Seq(S) /\ Len(Append(s, x)) = Len(s) + 1 /\ Len(s) \in Nat
    OBVIOUS
  <2>3. \A i \in 1..Len(s)+1 : /\ i + (Len(s) + 1 - (Len(s) + 1)) = i
                               /\ Append(s, x)[i] = IF i = Len(s) + 1 THEN x ELSE s[i]
    BY <2>2
  <2>4. QED
    BY <1>1, <2>1, <2>2, <2>3
<1>2. CASE ~(Len(s) < n)
  <2>1. s # <<>> /\ Len(s) = n
    BY <1>2
  <2> DEFINE t == Tail(s)
  <2>2. t \in Seq(S) /\ Len(t) = n - 1 /\ \A i \in 1..n-1 : t[i] = s[i + 1]
    BY <2>1
  <2>3. Push(s, x, n) = Append(t, x)
    BY <1>2 DEF Push
  <2>4. /\ Append(t, x) \in Seq(S) /\ Len(Append(t, x)) = n
        /\ \A i \in 1..n : Append(t, x)[i] = IF i = n THEN x ELSE t[i]
    BY <2>2
  <2>5. \A i \in 1..n : i # n => i \in 1..n-1 /\ i + (n + 1 - n) = i + 1
    OBVIOUS
  <2>6. \A i \in 1..n : Append(t, x)[i] = IF i = n THEN x ELSE s[i + (n + 1 - n)]
    BY <2>2, <2>4, <2>5
  <2>7. QED
    BY <1>2, <2>1, <2>3, <2>4, <2>6
<1>3. QED
  BY <1>1, <1>2

\* It holds the new one and some of the others.
LEMMA PushBrings ==
  ASSUME NEW S, NEW s \in Seq(S), NEW x \in S, NEW n \in Nat \ {0}, Len(s) <= n,
         NEW kept, kept = Push(s, x, n)
  PROVE  \A i \in 1..Len(kept) : kept[i] = x \/ \E k \in 1..Len(s) : kept[i] = s[k]
<1>1. Len(kept) = IF Len(s) < n THEN Len(s) + 1 ELSE n
  BY PushKeepsLast
<1>2. \A i \in 1..Len(kept) : kept[i] = IF i = Len(kept) THEN x
                                        ELSE s[i + (Len(s) + 1 - Len(kept))]
  BY PushKeepsLast
<1>3. Len(s) \in Nat
  OBVIOUS
<1>4. \A i \in 1..Len(kept) : i # Len(kept) => i + (Len(s) + 1 - Len(kept)) \in 1..Len(s)
  BY <1>1, <1>3
<1>5. QED
  BY <1>2, <1>4

LEMMA LastOfIsTail ==
  ASSUME NEW S, NEW s \in Seq(S), NEW n \in Nat, n <= Len(s)
  PROVE  /\ LastOf(n, s) \in Seq(S) /\ Len(LastOf(n, s)) = n
         /\ DOMAIN LastOf(n, s) = 1..n
         /\ \A i \in 1..n : LastOf(n, s)[i] = s[Len(s) - n + i]
<1>1. Len(s) \in Nat
  OBVIOUS
<1> DEFINE m == Len(s) - n + 1
<1>2. m \in Int /\ m >= 1 /\ m <= Len(s) + 1
  BY <1>1
<1>3. \A i \in m..Len(s) : s[i] \in S
  BY <1>1, <1>2
<1>4. Len(SubSeq(s, m, Len(s))) = n /\ SubSeq(s, m, Len(s)) \in Seq(S)
      /\ \A i \in 1..n : SubSeq(s, m, Len(s))[i] = s[m + i - 1]
  BY <1>1, <1>2, <1>3
<1>5. \A i \in 1..n : m + i - 1 = Len(s) - n + i
  BY <1>1
<1>6. QED
  BY <1>4, <1>5 DEF LastOf

LEMMA BarFields ==
  ASSUME NEW b \in Bars
  PROVE  /\ b.high \in Nat /\ b.low \in Nat /\ b.close \in Nat /\ b.volume \in Nat
         /\ b.close \in BarPrices /\ b.low <= b.close /\ b.close <= b.high
BY IndicatorAssumption DEF Bars

\* One bar more.
LEMMA BarAppended ==
  ASSUME bars \in Seq(Bars), NEW b \in Bars, bars' = Append(bars, b)
  PROVE  /\ bars' \in Seq(Bars) /\ BarCount \in Nat /\ BarCount' = BarCount + 1
         /\ \A i \in 1..BarCount : bars[i] \in Bars /\ bars'[i] = bars[i]
         /\ bars'[BarCount + 1] = b
<1>1. Len(bars) \in Nat /\ Len(bars') = Len(bars) + 1 /\ bars' \in Seq(Bars)
  OBVIOUS
<1>2. \A i \in 1..Len(bars) : bars[i] \in Bars /\ bars'[i] = bars[i]
  OBVIOUS
<1>3. bars'[Len(bars) + 1] = b
  OBVIOUS
<1>4. QED
  BY <1>1, <1>2, <1>3 DEF BarCount

LEMMA PriceOfABar ==
  ASSUME bars \in Seq(Bars), NEW i \in 1..BarCount
  PROVE  ClosePrice(i) \in Nat /\ ClosePrice(i) \in BarPrices
         /\ bars[i].low <= ClosePrice(i) /\ ClosePrice(i) <= bars[i].high
         /\ bars[i].low \in Nat /\ bars[i].high \in Nat
<1>1. bars[i] \in Bars
  BY DEF BarCount
<1>2. QED
  BY <1>1, BarFields DEF ClosePrice

\* The deque of the closes keeps the latest.
LEMMA ClosesStep ==
  ASSUME IndicatorType, NEW b \in Bars, bars' = Append(bars, b)
  PROVE  LET kept == Push(closes, b.close, History)
         IN /\ kept \in Seq(BarPrices) /\ Len(kept) = Kept(History)'
            /\ \A i \in 1..Len(kept) : kept[i] = bars'[BarCount' - Len(kept) + i].close
<1> DEFINE c == b.close
           kept == Push(closes, c, History)
<1>1. /\ bars \in Seq(Bars) /\ closes \in Seq(BarPrices) /\ Len(closes) = Kept(History)
      /\ \A i \in 1..Len(closes) : closes[i] = ClosePrice(BarCount - Len(closes) + i)
  BY DEF IndicatorType
<1>2. /\ BarCount \in Nat /\ BarCount' = BarCount + 1
      /\ \A i \in 1..BarCount : bars'[i].close = ClosePrice(i)
      /\ bars'[BarCount + 1].close = c
  BY <1>1, BarAppended DEF ClosePrice
<1>3. History \in Nat \ {0} /\ c \in BarPrices
  <2>1. History \in Nat /\ EmaPeriod \in Nat \ {0} /\ EmaPeriod <= History
    BY IndicatorAssumption
  <2>2. QED
    BY <2>1, BarFields
<1>4. Len(closes) \in Nat /\ Len(closes) <= History /\ Len(closes) <= BarCount
      /\ (Len(closes) < History => Len(closes) = BarCount)
  BY <1>1, <1>2, <1>3 DEF Kept
<1>5. /\ kept \in Seq(BarPrices)
      /\ Len(kept) = IF Len(closes) < History THEN Len(closes) + 1 ELSE History
      /\ \A i \in 1..Len(kept) : kept[i] = IF i = Len(kept) THEN c
                                            ELSE closes[i + (Len(closes) + 1 - Len(kept))]
  <2>1. kept = Push(closes, c, History)
    OBVIOUS
  <2> HIDE DEF c, kept
  <2>2. closes \in Seq(BarPrices) /\ c \in BarPrices /\ History \in Nat \ {0} /\ Len(closes) <= History
    BY <1>1, <1>3, <1>4
  <2>3. kept \in Seq(BarPrices)
        /\ Len(kept) = IF Len(closes) < History THEN Len(closes) + 1 ELSE History
    BY ONLY <2>1, <2>2, PushKeepsLast
  <2>4. \A i \in 1..Len(kept) : kept[i] = IF i = Len(kept) THEN c
                                            ELSE closes[i + (Len(closes) + 1 - Len(kept))]
    BY ONLY <2>1, <2>2, PushKeepsLast
  <2>5. QED
    BY <2>3, <2>4
<1>6. Len(kept) = Kept(History)'
  <2>1. Kept(History)' = IF BarCount' < History THEN BarCount' ELSE History
    BY DEF Kept
  <2>2. QED
    BY <1>1, <1>2, <1>3, <1>4, <1>5, <2>1 DEF Kept
<1>7. Len(kept) \in Nat /\ Len(kept) <= Len(closes) + 1 /\ Len(kept) <= BarCount + 1
  <2>1. Len(kept) = IF Len(closes) < History THEN Len(closes) + 1 ELSE History
    BY <1>5
  <2> HIDE DEF kept
  <2>2. QED
    BY <1>2, <1>3, <1>4, <2>1
<1>8. \A i \in 1..Len(kept) : kept[i] = bars'[BarCount' - Len(kept) + i].close
  <2>1. TAKE i \in 1..Len(kept)
  <2>2. CASE i = Len(kept)
    <3>1. BarCount' - Len(kept) + i = BarCount + 1
      BY <1>2, <1>7, <2>2
    <3>2. QED
      BY <1>2, <1>5, <2>2, <3>1
  <2>3. CASE i # Len(kept)
    <3> DEFINE j == i + (Len(closes) + 1 - Len(kept))
               k == BarCount - Len(closes) + j
    <3>1. j \in 1..Len(closes) /\ k \in 1..BarCount /\ k = BarCount' - Len(kept) + i
      <4> HIDE DEF kept
      <4>1. j \in 1..Len(closes)
        BY <1>4, <1>7, <2>3
      <4>2. k = BarCount' - Len(kept) + i
        BY <1>2, <1>4, <1>7
      <4> HIDE DEF j
      <4>3. k \in 1..BarCount
        BY <1>2, <1>4, <4>1
      <4>4. QED
        BY <4>1, <4>2, <4>3
    <3>2. kept[i] = closes[j]
      BY <1>5, <2>3
    <3>3. closes[j] = ClosePrice(k) /\ bars'[k].close = ClosePrice(k)
      BY <1>1, <1>2, <3>1
    <3> HIDE DEF j, k, kept
    <3>4. QED
      BY <3>1, <3>2, <3>3
  <2>4. QED
    BY <2>2, <2>3
<1>9. QED
  BY <1>5, <1>6, <1>8

LEMMA AverageIsNatural ==
  ASSUME NEW s, Len(s) \in Nat \ {0}, DOMAIN s = 1..Len(s), \A i \in 1..Len(s) : s[i] \in Nat
  PROVE  Average(s) \in Nat
<1> DEFINE n == Len(s)
           sum == SumFunctionOnSet(s, 1..n)
<1>1. sum \in Nat
  BY PartOfSum
<1>2. Average(s) = (Scale * sum) \div n
  BY DEF Average, SumFunction
<1>3. \A p, q \in Nat : p * q \in Nat
  OBVIOUS
<1>4. n \in Nat \ {0} /\ Scale * sum \in Nat
  BY <1>1, <1>3, IndicatorAssumption
<1> HIDE DEF sum, n
<1>5. QED
  BY <1>2, <1>4, QuotientBounds

LEMMA WilderIsNatural ==
  ASSUME NEW n \in Nat \ {0}, NEW avg \in Nat, NEW x \in Nat
  PROVE  Wilder(avg, n, x) \in Nat
<1>1. \A p, q \in Nat : p * q \in Nat /\ p + q \in Nat
  OBVIOUS
<1>2. Scale \in Nat /\ n - 1 \in Nat
  BY IndicatorAssumption
<1>3. avg * (n - 1) + Scale * x \in Nat
  BY <1>1, <1>2
<1>4. QED
  BY <1>3, QuotientBounds DEF Wilder

\* What an average of a full period lies between.
LEMMA AverageBetween ==
  ASSUME NEW s, Len(s) \in Nat \ {0}, DOMAIN s = 1..Len(s), NEW low \in Nat, NEW high \in Nat,
         \A i \in 1..Len(s) : s[i] \in Nat /\ low <= s[i] /\ s[i] <= high
  PROVE  Average(s) \in Nat /\ Scale * low <= Average(s) /\ Average(s) <= Scale * high
<1> DEFINE n == Len(s)
           sum == SumFunctionOnSet(s, 1..n)
<1>1. n \in Nat \ {0} /\ Scale \in Nat /\ \A i \in 1..n : s[i] \in Nat
  BY IndicatorAssumption
<1>2. sum \in Nat /\ n * low <= sum /\ sum <= n * high
  <2> HIDE DEF n
  <2>1. \A i \in 1..n : s[i] \in Nat /\ low <= s[i] /\ s[i] <= high
    BY <1>1 DEF n
  <2>2. QED
    BY <1>1, <2>1, SumBetween
<1>3. Average(s) = (Scale * sum) \div n
  BY DEF Average, SumFunction
<1>4. \A p \in Nat : n * (Scale * p) = Scale * (n * p) /\ Scale * p \in Nat
  BY <1>1
<1>5. \A p, q \in Nat : p <= q => Scale * p <= Scale * q
  BY <1>1
<1>6. n * low \in Nat /\ n * high \in Nat
  BY <1>1
<1>7. n * (Scale * low) <= Scale * sum /\ Scale * sum <= n * (Scale * high)
  <2> HIDE DEF sum, n
  <2> QED BY <1>2, <1>4, <1>5, <1>6
<1>8. Scale * low \in Nat /\ Scale * high \in Nat /\ Scale * sum \in Nat
  BY <1>2, <1>4
<1> DEFINE a == Scale * sum
           l == Scale * low
           h == Scale * high
<1>9. a \in Nat /\ l \in Nat /\ h \in Nat /\ n \in Nat \ {0} /\ n * l <= a /\ a <= n * h
  BY <1>1, <1>7, <1>8
<1>10. Average(s) = a \div n
  BY <1>3
<1> HIDE DEF sum, n, a, l, h
<1>11. a \div n \in Nat /\ l <= a \div n /\ a \div n <= h
  BY ONLY <1>9, QuotientBounds
<1>12. QED
  BY <1>10, <1>11 DEF l, h

\* A smoothed average stays below what bounds it and the new value.
LEMMA WilderBelow ==
  ASSUME NEW n \in Nat \ {0}, NEW avg \in Nat, NEW x \in Nat, NEW top \in Nat,
         avg <= Scale * top, x <= top
  PROVE  Wilder(avg, n, x) \in Nat /\ Wilder(avg, n, x) <= Scale * top
<1>1. Scale \in Nat /\ n - 1 \in Nat /\ Scale * top \in Nat
  BY IndicatorAssumption
<1>2. \A p, q, r \in Nat : p <= q => p * r <= q * r /\ r * p <= r * q
  OBVIOUS
<1>3. \A p, q \in Nat : p * q \in Nat /\ p + q \in Nat
  OBVIOUS
<1>4. avg * (n - 1) <= (Scale * top) * (n - 1) /\ Scale * x <= Scale * top
  BY <1>1, <1>2
<1>5. \A p \in Nat : p * (n - 1) + p = n * p
  OBVIOUS
<1>6. avg * (n - 1) + Scale * x <= n * (Scale * top) /\ avg * (n - 1) + Scale * x \in Nat
  <2> DEFINE p == avg * (n - 1)
             q == Scale * x
             r == (Scale * top) * (n - 1)
             t == Scale * top
  <2>1. p \in Nat /\ q \in Nat /\ r \in Nat /\ t \in Nat /\ p <= r /\ q <= t /\ r + t = n * t
    BY <1>1, <1>3, <1>4, <1>5
  <2> HIDE DEF p, q, r, t
  <2>2. p + q <= n * t /\ p + q \in Nat
    BY <2>1
  <2>3. QED
    BY <2>2 DEF p, q, r, t
<1>7. QED
  BY <1>1, <1>6, QuotientBounds DEF Wilder

\* As does one of the closes, below and above.
LEMMA BlendBetween ==
  ASSUME ema \in Nat, NEW c \in Nat, NEW low \in Nat, NEW high \in Nat,
         low <= c, c <= high, Scale * low <= ema, ema <= Scale * high
  PROVE  Scale * low <= Blend(c) /\ Blend(c) <= Scale * high
<1> DEFINE n == EmaPeriod + 1
           a == 2 * Scale * c + (EmaPeriod - 1) * ema
<1>1. Scale \in Nat /\ EmaPeriod \in Nat \ {0} /\ EmaPeriod - 1 \in Nat /\ n \in Nat \ {0}
  BY IndicatorAssumption
<1>2. \A p, q, r \in Nat : p <= q => r * p <= r * q
  OBVIOUS
<1>3. \A p, q \in Nat : p * q \in Nat /\ p + q \in Nat
  OBVIOUS
<1>4. \A p \in Nat : 2 * Scale * p + (EmaPeriod - 1) * (Scale * p) = n * (Scale * p)
  BY <1>1
<1>5. 2 * Scale \in Nat /\ Scale * low \in Nat /\ Scale * high \in Nat
  BY <1>1
<1>6. /\ 2 * Scale * low <= 2 * Scale * c /\ 2 * Scale * c <= 2 * Scale * high
      /\ (EmaPeriod - 1) * (Scale * low) <= (EmaPeriod - 1) * ema
      /\ (EmaPeriod - 1) * ema <= (EmaPeriod - 1) * (Scale * high)
  BY <1>1, <1>2, <1>5
<1>7. /\ 2 * Scale * low \in Nat /\ 2 * Scale * c \in Nat /\ 2 * Scale * high \in Nat
      /\ (EmaPeriod - 1) * (Scale * low) \in Nat /\ (EmaPeriod - 1) * ema \in Nat
      /\ (EmaPeriod - 1) * (Scale * high) \in Nat
  BY <1>1, <1>3, <1>5
<1>8. a \in Nat /\ n * (Scale * low) <= a /\ a <= n * (Scale * high)
  <2> DEFINE p == 2 * Scale * c
             q == (EmaPeriod - 1) * ema
             pl == 2 * Scale * low
             ql == (EmaPeriod - 1) * (Scale * low)
             ph == 2 * Scale * high
             qh == (EmaPeriod - 1) * (Scale * high)
  <2>1. {p, q, pl, ql, ph, qh} \subseteq Nat /\ pl <= p /\ p <= ph /\ ql <= q /\ q <= qh
    BY <1>6, <1>7
  <2>2. pl + ql = n * (Scale * low) /\ ph + qh = n * (Scale * high)
    BY <1>4
  <2> HIDE DEF p, q, pl, ql, ph, qh
  <2>3. p + q \in Nat /\ pl + ql <= p + q /\ p + q <= ph + qh
    BY <2>1
  <2>4. QED
    BY <2>2, <2>3 DEF p, q
<1>9. Blend(c) = a \div n
  BY DEF Blend
<1> DEFINE l == Scale * low
           h == Scale * high
<1>10. l \in Nat /\ h \in Nat /\ a \in Nat /\ n \in Nat \ {0} /\ n * l <= a /\ a <= n * h
  BY <1>1, <1>5, <1>8
<1> HIDE DEF a, n, l, h
<1>11. l <= a \div n /\ a \div n <= h
  BY ONLY <1>10, QuotientBounds
<1>12. QED
  BY <1>9, <1>11 DEF l, h

LEMMA BlendIsNatural ==
  ASSUME ema \in Nat, NEW c \in Nat
  PROVE  Blend(c) \in Nat
<1> DEFINE a == 2 * Scale * c + (EmaPeriod - 1) * ema
<1>1. Scale \in Nat /\ EmaPeriod - 1 \in Nat /\ EmaPeriod + 1 \in Nat \ {0}
  BY IndicatorAssumption
<1>2. \A p, q \in Nat : p * q \in Nat /\ p + q \in Nat
  OBVIOUS
<1>3. a \in Nat
  BY <1>1, <1>2
<1>4. Blend(c) = a \div (EmaPeriod + 1)
  BY DEF Blend
<1> HIDE DEF a
<1>5. QED
  BY <1>1, <1>3, <1>4, QuotientBounds

\* The EMA starts with the bar that completes its period.
LEMMA EmaIsReady ==
  ASSUME ema \in Nat \cup {NoValue}, NEW n \in Nat, ema # NoValue <=> n >= EmaPeriod,
         NEW kept \in Seq(BarPrices), NEW c \in BarPrices,
         Len(kept) = IF n + 1 < History THEN n + 1 ELSE History
  PROVE  /\ NextEma(c, kept) \in Nat \cup {NoValue}
         /\ NextEma(c, kept) # NoValue <=> n + 1 >= EmaPeriod
<1>1. /\ Scale \in Nat /\ EmaPeriod \in Nat \ {0} /\ History \in Nat /\ EmaPeriod <= History
      /\ BarPrices \subseteq Nat
  BY IndicatorAssumption
<1>2. NoValue \notin Nat
  BY DEF NoValue
<1>3. CASE ema # NoValue
  <2>1. NextEma(c, kept) = Blend(c)
    BY <1>3 DEF NextEma
  <2>2. Blend(c) \in Nat
    BY <1>1, <1>3, BlendIsNatural
  <2>3. QED
    BY <1>1, <1>2, <1>3, <2>1, <2>2
<1>4. CASE ema = NoValue /\ Full(EmaPeriod, kept)
  <2> DEFINE seed == LastOf(EmaPeriod, kept)
  <2>1. EmaPeriod <= Len(kept) /\ Len(kept) <= n + 1
    BY <1>1, <1>4 DEF Full
  <2>2. seed \in Seq(BarPrices) /\ Len(seed) = EmaPeriod
    BY <1>1, <2>1, LastOfIsTail
  <2>3. DOMAIN seed = 1..Len(seed) /\ \A i \in 1..Len(seed) : seed[i] \in Nat
    <3> HIDE DEF seed
    <3>1. DOMAIN seed = 1..Len(seed) /\ \A i \in 1..Len(seed) : seed[i] \in BarPrices
      BY <2>2
    <3>2. QED
      BY <1>1, <3>1
  <2>4. NextEma(c, kept) = Average(seed)
    BY <1>4 DEF NextEma
  <2> HIDE DEF seed
  <2>5. Average(seed) \in Nat
    BY <1>1, <2>2, <2>3, AverageIsNatural
  <2>6. QED
    BY <1>1, <1>2, <2>1, <2>4, <2>5
<1>5. CASE ema = NoValue /\ ~Full(EmaPeriod, kept)
  <2>1. NextEma(c, kept) = NoValue
    BY <1>5 DEF NextEma
  <2>2. ~(EmaPeriod <= Len(kept))
    BY <1>1, <1>5 DEF Full
  <2>3. ~(n + 1 >= EmaPeriod)
    BY <1>1, <2>2
  <2>4. QED
    BY <2>1, <2>3
<1>6. QED
  BY <1>3, <1>4, <1>5

\* And stays within what the closes lie between.
LEMMA EmaBetween ==
  ASSUME ema \in Nat \cup {NoValue}, NEW kept \in Seq(BarPrices), NEW c \in BarPrices,
         NEW low \in Nat, NEW high \in Nat, low <= c, c <= high,
         \A i \in 1..Len(kept) : low <= kept[i] /\ kept[i] <= high,
         ema # NoValue => Scale * low <= ema /\ ema <= Scale * high,
         NextEma(c, kept) # NoValue
  PROVE  Scale * low <= NextEma(c, kept) /\ NextEma(c, kept) <= Scale * high
<1>1. EmaPeriod \in Nat \ {0} /\ BarPrices \subseteq Nat
  BY IndicatorAssumption
<1>2. CASE ema # NoValue
  <2>1. NextEma(c, kept) = Blend(c)
    BY <1>2 DEF NextEma
  <2>2. QED
    BY <1>1, <1>2, <2>1, BlendBetween
<1>3. CASE ema = NoValue
  <2> DEFINE seed == LastOf(EmaPeriod, kept)
  <2>1. Len(kept) \in Nat /\ EmaPeriod <= Len(kept) /\ NextEma(c, kept) = Average(seed)
    BY <1>1, <1>3 DEF NextEma, Full
  <2>2. /\ seed \in Seq(BarPrices) /\ Len(seed) = EmaPeriod
        /\ \A i \in 1..EmaPeriod : seed[i] = kept[Len(kept) - EmaPeriod + i]
    BY <1>1, <2>1, LastOfIsTail
  <2>3. \A i \in 1..EmaPeriod : Len(kept) - EmaPeriod + i \in 1..Len(kept)
    BY <1>1, <2>1
  <2>4. DOMAIN seed = 1..Len(seed) /\ \A i \in 1..Len(seed) : seed[i] \in Nat
    <3> HIDE DEF seed
    <3>1. DOMAIN seed = 1..Len(seed) /\ \A i \in 1..Len(seed) : seed[i] \in BarPrices
      BY <2>2
    <3>2. QED
      BY <1>1, <3>1
  <2> HIDE DEF seed
  <2>5. \A i \in 1..Len(seed) : low <= seed[i] /\ seed[i] <= high
    BY <2>2, <2>3
  <2>6. QED
    BY <1>1, <2>1, <2>2, <2>4, <2>5, AverageBetween
<1>4. QED
  BY <1>2, <1>3

\* The true range of a bar is at most the span its prices and the close before lie in.
LEMMA TrueRangeSpan ==
  ASSUME NEW b \in Bars, prev \in Nat \cup {NoValue}
  PROVE  /\ TrueRange(b) \in Nat
         /\ \A low, high \in Nat :
              /\ low <= b.low /\ b.high <= high
              /\ prev # NoValue => low <= prev /\ prev <= high
              => high - low \in Nat /\ TrueRange(b) <= high - low
<1>1. b.high \in Nat /\ b.low \in Nat /\ b.low <= b.high /\ b.high - b.low \in Nat
  BY BarFields
<1>2. CASE prev = NoValue
  <2>1. TrueRange(b) = b.high - b.low
    BY <1>2 DEF TrueRange
  <2>2. QED
    BY <1>1, <1>2, <2>1
<1>3. CASE prev # NoValue
  <2> DEFINE x == b.high - b.low
             y == Up(prev, b.high) + Up(b.high, prev)
             z == Up(prev, b.low) + Up(b.low, prev)
  <2>1. prev \in Nat
    BY <1>3
  <2>2. x \in Nat /\ y \in Nat /\ z \in Nat
    BY <1>1, <2>1 DEF Up
  <2>3. \A low, high \in Nat :
          low <= b.low /\ b.high <= high /\ low <= prev /\ prev <= high
          => high - low \in Nat /\ x <= high - low /\ y <= high - low /\ z <= high - low
    BY <1>1, <2>1 DEF Up
  <2>4. TrueRange(b) = Max({x, y, z})
    BY <1>3 DEF TrueRange
  <2> HIDE DEF x, y, z
  <2>5. TrueRange(b) \in {x, y, z}
    BY <2>2, <2>4, ThreeMax
  <2>6. QED
    BY <1>3, <2>2, <2>3, <2>5
<1>4. QED
  BY <1>2, <1>3

\* So is every range the deque keeps.
LEMMA RangesStep ==
  ASSUME trs \in Seq(Nat), NEW n \in Nat, Len(trs) = IF n < AtrPeriod + 5 THEN n ELSE AtrPeriod + 5,
         NEW tr \in Nat, NEW kept, kept = Push(trs, tr, AtrPeriod + 5)
  PROVE  /\ kept \in Seq(Nat)
         /\ Len(kept) = IF n + 1 < AtrPeriod + 5 THEN n + 1 ELSE AtrPeriod + 5
         /\ \A top : (\A k \in 1..Len(trs) : trs[k] <= top) /\ tr <= top
                     => \A k \in 1..Len(kept) : kept[k] <= top
<1> DEFINE m == AtrPeriod + 5
           S == Nat
<1>0. trs \in Seq(S) /\ tr \in S
  OBVIOUS
<1>1. m \in Nat \ {0}
  BY IndicatorAssumption
<1>2. Len(trs) \in Nat /\ Len(trs) <= m /\ Len(trs) = IF n < m THEN n ELSE m
  BY <1>1
<1> HIDE DEF m, S
<1>3. kept = Push(trs, tr, m)
  BY DEF m
<1>4. kept \in Seq(S) /\ Len(kept) = IF Len(trs) < m THEN Len(trs) + 1 ELSE m
  BY ONLY <1>0, <1>1, <1>2, <1>3, PushKeepsLast
<1>7. \A i \in 1..Len(kept) : kept[i] = tr \/ \E k \in 1..Len(trs) : kept[i] = trs[k]
  BY <1>0, <1>1, <1>2, <1>3, PushBrings
<1>8. Len(kept) = IF n + 1 < m THEN n + 1 ELSE m
  BY <1>1, <1>2, <1>4
<1>9. QED
  BY <1>4, <1>7, <1>8 DEF m, S

\* The ATR starts with its period and stays below what all ranges stay below.
LEMMA AtrStep ==
  ASSUME atr \in Nat \cup {NoValue}, NEW n \in Nat, atr # NoValue <=> n >= AtrPeriod,
         NEW tr \in Nat, NEW kept \in Seq(Nat),
         Len(kept) = IF n + 1 < AtrPeriod + 5 THEN n + 1 ELSE AtrPeriod + 5
  PROVE  /\ NextAtr(tr, kept) \in Nat \cup {NoValue}
         /\ NextAtr(tr, kept) # NoValue <=> n + 1 >= AtrPeriod
         /\ \A top \in Nat :
              /\ tr <= top /\ \A k \in 1..Len(kept) : kept[k] <= top
              /\ atr # NoValue => atr <= Scale * top
              /\ NextAtr(tr, kept) # NoValue
              => NextAtr(tr, kept) <= Scale * top
<1>1. AtrPeriod \in Nat \ {0} /\ NoValue \notin Nat
  BY IndicatorAssumption DEF NoValue
<1>2. CASE atr # NoValue
  <2>1. atr \in Nat /\ NextAtr(tr, kept) = Wilder(atr, AtrPeriod, tr)
    BY <1>2 DEF NextAtr, Smooth
  <2>2. Wilder(atr, AtrPeriod, tr) \in Nat
    BY <1>1, <2>1, WilderIsNatural
  <2>3. \A top \in Nat : tr <= top /\ atr <= Scale * top => Wilder(atr, AtrPeriod, tr) <= Scale * top
    BY <1>1, <2>1, WilderBelow
  <2>4. QED
    BY <1>1, <1>2, <2>1, <2>2, <2>3
<1>3. CASE atr = NoValue /\ Len(kept) >= AtrPeriod
  <2> DEFINE seed == LastOf(AtrPeriod, kept)
             S == Nat
  <2>1. Len(kept) \in Nat /\ NextAtr(tr, kept) = Average(seed)
    BY <1>3 DEF NextAtr
  <2>b. AtrPeriod <= Len(kept) /\ kept \in Seq(S) /\ AtrPeriod \in Nat
    BY <1>1, <1>3, <2>1
  <2> HIDE DEF S
  <2>2. seed \in Seq(S) /\ Len(seed) = AtrPeriod /\ DOMAIN seed = 1..AtrPeriod
    BY <2>b, LastOfIsTail
  <2>c. \A i \in 1..AtrPeriod : seed[i] = kept[Len(kept) - AtrPeriod + i]
    BY <2>b, LastOfIsTail
  <2>3. \A i \in 1..AtrPeriod : Len(kept) - AtrPeriod + i \in 1..Len(kept)
    BY <1>1, <1>3, <2>1
  <2> HIDE DEF seed
  <2>a. \A i \in 1..Len(seed) : seed[i] \in Nat
    BY <2>2 DEF S
  <2>4. Average(seed) \in Nat
    BY <1>1, <2>2, <2>a, AverageIsNatural
  <2>5. ASSUME NEW top \in Nat, \A k \in 1..Len(kept) : kept[k] <= top
        PROVE  Average(seed) <= Scale * top
    <3>1. ASSUME NEW i \in 1..Len(seed) PROVE 0 <= seed[i] /\ seed[i] <= top
      <4>1. Len(kept) - AtrPeriod + i \in 1..Len(kept) /\ seed[i] = kept[Len(kept) - AtrPeriod + i]
        BY <2>2, <2>3, <2>c
      <4>2. seed[i] \in Nat /\ kept[Len(kept) - AtrPeriod + i] <= top
        BY <2>5, <2>a, <4>1
      <4>3. QED
        BY <4>1, <4>2
    <3>2. Len(seed) # 0
      BY <1>1, <2>2
    <3>3. QED
      BY <1>1, <2>2, <2>a, <3>1, <3>2, AverageBetween
  <2>6. n + 1 >= AtrPeriod
    BY <1>1, <1>3
  <2>7. QED
    BY <1>1, <2>1, <2>4, <2>5, <2>6
<1>4. CASE atr = NoValue /\ ~(Len(kept) >= AtrPeriod)
  <2>1. NextAtr(tr, kept) = NoValue
    BY <1>4 DEF NextAtr
  <2>2. ~(n + 1 >= AtrPeriod)
    BY <1>1, <1>4
  <2>3. QED
    BY <2>1, <2>2
<1>5. QED
  BY <1>2, <1>3, <1>4

\* The sums of the VWAP: each bar's typical price lies between its low and its high.
LEMMA VwapBetween ==
  ASSUME NEW num \in Nat, NEW den \in Nat, NEW b \in Bars, NEW low \in Nat, NEW high \in Nat,
         low <= b.low, b.high <= high, 3 * den * low <= num, num <= 3 * den * high
  PROVE  /\ 3 * (den + b.volume) * low <= num + (b.high + b.low + b.close) * b.volume
         /\ num + (b.high + b.low + b.close) * b.volume <= 3 * (den + b.volume) * high
<1> DEFINE v == b.volume
           t == b.high + b.low + b.close
<1>1. v \in Nat /\ t \in Nat /\ 3 * low <= t /\ t <= 3 * high
  BY BarFields
<1> HIDE DEF v, t
<1>2. \A p, q, r \in Nat : p <= q => p * r <= q * r
  OBVIOUS
<1>3. (3 * low) * v <= t * v /\ t * v <= (3 * high) * v
  BY <1>1, <1>2
<1>4. \A p \in Nat : 3 * (den + v) * p = 3 * den * p + (3 * p) * v
  BY <1>1
<1>5. \A p \in Nat : 3 * den * p \in Nat /\ (3 * p) * v \in Nat /\ p * v \in Nat
  BY <1>1
<1>6. /\ 3 * den * low + (3 * low) * v <= num + t * v
      /\ num + t * v <= 3 * den * high + (3 * high) * v
  <2> DEFINE a1 == 3 * den * low
             a2 == (3 * low) * v
             a3 == t * v
             a4 == 3 * den * high
             a5 == (3 * high) * v
  <2>1. {a1, a2, a3, a4, a5} \subseteq Nat /\ a1 <= num /\ num <= a4 /\ a2 <= a3 /\ a3 <= a5
    BY <1>1, <1>3, <1>5
  <2> HIDE DEF a1, a2, a3, a4, a5
  <2>2. a1 + a2 <= num + a3 /\ num + a3 <= a4 + a5
    BY <2>1
  <2>3. QED
    BY <2>2 DEF a1, a2, a3, a4, a5
<1>7. QED
  BY <1>4, <1>6 DEF v, t

\* What is left of a change of one tick that the seed held: less with every bar.
TickLeft(n) == WilderAverage(OneTick, n)

LEMMA TickLaw ==
  /\ \A n \in RsiPeriod+1..MaxBars : TickLeft(n) \in Nat \ {0} /\ TickLeft(n) <= Scale \div RsiPeriod
  /\ \A n \in RsiPeriod+1..MaxBars :
       n + 1 <= MaxBars => TickLeft(n + 1) = (TickLeft(n) * (RsiPeriod - 1)) \div RsiPeriod
<1> DEFINE lo == RsiPeriod + 1
<1>1. RsiPeriod \in Nat \ {0} /\ lo \in Nat /\ Scale \in Nat /\ MaxBars \in Nat /\ RsiPeriod - 1 \in Nat
  BY IndicatorAssumption
<1>2. \A i \in 2..MaxBars : OneTick[i] \in Nat /\ OneTick[i] = IF i = 2 THEN 1 ELSE 0
  BY DEF OneTick
<1>3. \A n \in lo..MaxBars : TickLeft(n) \in Nat /\ TickLeft(n) # 0
  <2>1. TAKE n \in lo..MaxBars
  <2>2. n \in Nat /\ RsiPeriod + 1 <= n /\ \A i \in 2..n : OneTick[i] \in Nat
    BY <1>1, <1>2
  <2>3. WilderAverage(OneTick, n) \in Nat
    BY <2>2, WilderLaw
  <2>4. WilderAverage(OneTick, n) > 0
    BY ScaleAssumption
  <2>5. QED
    BY <2>3, <2>4 DEF TickLeft
<1>4. ASSUME NEW n \in lo..MaxBars, n + 1 <= MaxBars
      PROVE  TickLeft(n + 1) = (TickLeft(n) * (RsiPeriod - 1)) \div RsiPeriod
  <2>1. n \in Nat /\ RsiPeriod + 1 <= n /\ \A i \in 2..n+1 : OneTick[i] \in Nat
    BY <1>1, <1>2, <1>4
  <2>2. WilderAverage(OneTick, n + 1) =
          (WilderAverage(OneTick, n) * (RsiPeriod - 1) + Scale * OneTick[n + 1]) \div RsiPeriod
    BY <2>1, WilderNext
  <2>3. n + 1 \in 2..MaxBars /\ n + 1 # 2
    BY <1>1, <1>4
  <2>4. OneTick[n + 1] = 0
    BY <1>2, <2>3
  <2>5. Scale * OneTick[n + 1] = 0 /\ TickLeft(n) * (RsiPeriod - 1) \in Int
    <3>1. \A p, q \in Int : p * q \in Int
      OBVIOUS
    <3>2. QED
      BY <1>1, <1>3, <2>4, <3>1
  <2>6. QED
    BY <2>2, <2>5 DEF TickLeft
<1>5. lo <= MaxBars => TickLeft(lo) = Scale \div RsiPeriod
  <2>1. SUFFICES ASSUME lo <= MaxBars PROVE TickLeft(lo) = Scale \div RsiPeriod
    OBVIOUS
  <2>2. \A i \in 2..lo : OneTick[i] \in Nat
    BY <1>1, <1>2, <2>1
  <2>3. TickLeft(lo) = Seed(OneTick)
    BY <1>1, <2>2, WilderLaw DEF TickLeft
  <2> DEFINE v == [i \in 1..RsiPeriod |-> IF i = 1 THEN 1 ELSE 0]
             u == [i \in 1..RsiPeriod |-> 0]
  <2>4. SumFunctionOnSet(v, 1..RsiPeriod) = SumFunctionOnSet(OneTick, 2..RsiPeriod+1)
    <3>1. Numbers(OneTick, 1+1..1+RsiPeriod)
      BY <1>1, <1>2, <2>1 DEF Numbers
    <3>2. \A i \in 1..RsiPeriod : v[i] = OneTick[1 + i]
      BY <1>1, <1>2, <2>1
    <3>3. RsiPeriod \in Nat /\ 1 \in Nat
      BY <1>1
    <3> HIDE DEF v
    <3>4. SumFunctionOnSet(v, 1..RsiPeriod) = SumFunctionOnSet(OneTick, 1+1..1+RsiPeriod)
      BY ONLY <3>1, <3>2, <3>3, SumShifted
    <3>5. 1 + 1 = 2 /\ 1 + RsiPeriod = RsiPeriod + 1
      BY <1>1
    <3>6. QED
      BY <3>4, <3>5
  <2>5. SumFunctionOnSet(v, 1..RsiPeriod) = 1
    <3> DEFINE D == 1..RsiPeriod
    <3>a. IsFiniteSet(D) /\ 1 \in D
      BY <1>1, FS_Interval
    <3>b. IsFiniteSet(D \ {1})
      <4> HIDE DEF D
      <4> QED BY <3>a, FS_Subset
    <3>1. IsFiniteSet(D) /\ IsFiniteSet(D \ {1}) /\ 1 \in D /\ D \in SUBSET D
      BY <3>a, <3>b
    <3>2. Numbers(v, D) /\ Numbers(v, D \ {1})
      BY DEF Numbers
    <3>3. SumFunctionOnSet(v, D) = v[1] + SumFunctionOnSet(v, D \ {1})
      <4> HIDE DEF D, v
      <4>1. SumLaw(v, D)
        BY <3>1, <3>2, SumRecursion
      <4>2. QED
        BY <3>1, <4>1 DEF SumLaw
    <3>4. SumFunctionOnSet(v, D \ {1}) = 0
      <4>1. Numbers(u, D) /\ \A x \in D : u[x] = 0
        BY DEF Numbers
      <4>2. Numbers(u, D \ {1}) /\ \A x \in D \ {1} : v[x] = u[x]
        BY DEF Numbers
      <4> HIDE DEF u, v, D
      <4>3. SumFunctionOnSet(v, D \ {1}) = SumFunctionOnSet(u, D \ {1})
        BY <3>1, <4>2, SameSum
      <4>4. SumFunctionOnSet(u, D) = RsiPeriod * 0
        <5>1. RsiPeriod \in Nat /\ 0 \in Int /\ \A i \in 1..RsiPeriod : u[i] = 0
          BY <1>1, <4>1 DEF D
        <5>2. SumFunctionOnSet(u, 1..RsiPeriod) = RsiPeriod * 0
          BY ONLY <5>1, SumConst
        <5>3. QED
          BY <5>2 DEF D
      <4>5. SumFunctionOnSet(u, D) = u[1] + SumFunctionOnSet(u, D \ {1}) /\ SumFunctionOnSet(u, D \ {1}) \in Int
        BY <3>1, <4>1, SumRecursion DEF SumLaw
      <4>6. u[1] = 0 /\ RsiPeriod * 0 = 0
        BY <1>1, <3>1, <4>1
      <4>7. QED
        BY <4>3, <4>4, <4>5, <4>6
    <3>5. v[1] = 1
      BY <1>1
    <3>6. QED
      BY <3>3, <3>4, <3>5
  <2>6. QED
    BY <1>1, <2>3, <2>4, <2>5 DEF Seed
<1>6. \A n \in lo..MaxBars : TickLeft(n) <= Scale \div RsiPeriod
  <2> DEFINE T == {n \in lo..MaxBars : ~(TickLeft(n) <= Scale \div RsiPeriod)}
  <2>1. SUFFICES ASSUME T # {} PROVE FALSE
    OBVIOUS
  <2>2. T \subseteq Nat
    BY <1>1
  <2>3. PICK n \in T : \A k \in T : n <= k
    <3> HIDE DEF T
    <3> QED BY <2>1, <2>2, LeastElement
  <2>4. n \in lo..MaxBars /\ ~(TickLeft(n) <= Scale \div RsiPeriod)
    BY <2>3
  <2>5. Scale \div RsiPeriod \in Nat
    BY <1>1, QuotientBounds
  <2>6. CASE n = lo
    BY <1>5, <2>4, <2>5, <2>6
  <2>7. CASE n # lo
    <3> DEFINE k == n - 1
    <3>1. k \in lo..MaxBars /\ k + 1 = n /\ k + 1 <= MaxBars /\ ~(n <= k)
      BY <1>1, <2>4, <2>7
    <3>2. TickLeft(k) <= Scale \div RsiPeriod /\ TickLeft(k) \in Nat
      <4> HIDE DEF k
      <4> QED BY <1>3, <2>3, <3>1
    <3>3. TickLeft(n) = (TickLeft(k) * (RsiPeriod - 1)) \div RsiPeriod
      <4> HIDE DEF k
      <4> QED BY <1>4, <3>1
    <3> HIDE DEF k
    <3>4. \A p \in Nat : p * (RsiPeriod - 1) \in Nat /\ p * (RsiPeriod - 1) <= RsiPeriod * p
      BY <1>1
    <3>5. TickLeft(n) <= TickLeft(k)
      BY <1>1, <3>2, <3>3, <3>4, QuotientBounds
    <3>6. QED
      BY <1>3, <2>4, <2>5, <3>2, <3>5
  <2>8. QED
    BY <2>6, <2>7
<1>7. QED
  BY <1>3, <1>4, <1>6

LEMMA MoveIsNatural ==
  ASSUME NEW side, NEW x \in Nat, NEW y \in Nat
  PROVE  Move(side, x, y) \in Nat
BY DEF Move, Up

\* What is above a tick before a bar is above what is left of it after the bar,
\* and a change of the bar itself is above a fresh one.
LEMMA WilderFelt ==
  ASSUME NEW n \in RsiPeriod+1..MaxBars, n + 1 <= MaxBars, NEW avg \in Nat, NEW x \in Nat
  PROVE  /\ avg >= TickLeft(n) => Wilder(avg, RsiPeriod, x) >= TickLeft(n + 1)
         /\ x > 0 => Wilder(avg, RsiPeriod, x) >= TickLeft(n + 1)
         /\ avg = 0 /\ x = 0 => Wilder(avg, RsiPeriod, x) = 0
<1> DEFINE p == RsiPeriod
           a == avg * (p - 1)
           s == Scale * x
<1>1. p \in Nat \ {0} /\ p - 1 \in Nat /\ Scale \in Nat \ {0} /\ MaxBars \in Nat
  BY IndicatorAssumption
<1>2. n + 1 \in RsiPeriod+1..MaxBars
  BY <1>1
<1>3. /\ TickLeft(n) \in Nat /\ TickLeft(n + 1) \in Nat /\ TickLeft(n + 1) <= Scale \div p
      /\ TickLeft(n + 1) = (TickLeft(n) * (p - 1)) \div p
  BY <1>2, TickLaw
<1>4. \A i, j \in Nat : i * j \in Nat /\ i + j \in Nat
  OBVIOUS
<1>5. a \in Nat /\ s \in Nat /\ a + s \in Nat /\ TickLeft(n) * (p - 1) \in Nat
  BY <1>1, <1>3, <1>4
<1>6. Wilder(avg, RsiPeriod, x) = (a + s) \div p
  BY DEF Wilder
<1>7. (a + s) \div p \in Nat /\ Scale \div p \in Nat
  <2> HIDE DEF a, s
  <2> QED BY <1>1, <1>5, QuotientBounds
<1>8. ASSUME avg >= TickLeft(n)
      PROVE  (a + s) \div p >= TickLeft(n + 1)
  <2>1. \A i, j \in Nat : i <= j => i * (p - 1) <= j * (p - 1)
    BY <1>1
  <2>2. TickLeft(n) * (p - 1) <= a
    BY <1>3, <1>8, <2>1
  <2>3. TickLeft(n) * (p - 1) <= a + s
    <3> DEFINE t == TickLeft(n) * (p - 1)
    <3>1. t \in Nat /\ t <= a
      BY <1>5, <2>2
    <3> HIDE DEF t, a, s
    <3>2. t <= a + s
      BY <1>5, <3>1
    <3>3. QED
      BY <3>2 DEF t
  <2> HIDE DEF a, s
  <2>4. (TickLeft(n) * (p - 1)) \div p <= (a + s) \div p
    BY <1>1, <1>5, <2>3, QuotientGrows
  <2>5. QED
    BY <1>3, <1>7, <2>4
<1>9. ASSUME x > 0
      PROVE  (a + s) \div p >= TickLeft(n + 1)
  <2>1. \A i \in Nat : i > 0 => Scale <= Scale * i
    BY <1>1
  <2>2. Scale <= s
    BY <1>9, <2>1
  <2> HIDE DEF a, s
  <2>3. Scale <= a + s
    BY <1>1, <1>5, <2>2
  <2>4. Scale \div p <= (a + s) \div p
    BY <1>1, <1>5, <2>3, QuotientGrows
  <2>5. QED
    BY <1>3, <1>7, <2>4
<1>10. ASSUME avg = 0, x = 0
       PROVE  (a + s) \div p = 0
  <2>1. a = 0 /\ s = 0
    BY <1>1, <1>10
  <2> HIDE DEF a, s
  <2>2. a + s <= p * 0
    BY <1>1, <2>1
  <2>3. (a + s) \div p <= 0
    BY <1>1, <1>5, <2>2, QuotientBounds
  <2>4. QED
    BY <1>7, <2>3
<1>11. QED
  BY <1>6, <1>8, <1>9, <1>10

\* What an average of one side says after n bars whose changes are c.
Told(avg, c, n) ==
  /\ avg \in Nat \cup {NoValue}
  /\ avg # NoValue <=> n >= RsiPeriod + 1
  /\ avg # NoValue => /\ avg = WilderAverage(c, n)
                      /\ IF \E i \in 2..n : c[i] > 0 THEN avg >= TickLeft(n) ELSE avg = 0

\* The seed of one side.
LEMMA SeedIsTold ==
  ASSUME NEW n \in Nat, n = RsiPeriod + 1, n <= MaxBars, NEW c, \A i \in 2..n : c[i] \in Nat,
         NEW list, DOMAIN list = 1..RsiPeriod, Len(list) = RsiPeriod,
         \A i \in 1..RsiPeriod : list[i] = c[i + 1]
  PROVE  Told(Average(list), c, n)
<1> DEFINE p == RsiPeriod
           sum == SumFunctionOnSet(list, 1..p)
<1>1. p \in Nat \ {0} /\ Scale \in Nat \ {0} /\ MaxBars \in Nat
  BY IndicatorAssumption
<1>2. \A i \in 1..p : list[i] \in Nat
  BY <1>1
<1>3. sum = SumFunctionOnSet(c, 2..p+1)
  <2>1. Numbers(c, 1+1..1+p)
    BY <1>1 DEF Numbers
  <2>2. p \in Nat /\ 1 \in Nat /\ \A i \in 1..p : list[i] = c[1 + i]
    BY <1>1
  <2> HIDE DEF p
  <2>3. SumFunctionOnSet(list, 1..p) = SumFunctionOnSet(c, 1+1..1+p)
    BY ONLY <2>1, <2>2, SumShifted
  <2>4. 1 + 1 = 2 /\ 1 + p = p + 1
    BY <2>2
  <2>5. QED
    BY <2>3, <2>4
<1>4. Average(list) = Seed(c)
  BY <1>3 DEF Average, SumFunction, Seed
<1>5. WilderAverage(c, n) = Seed(c) /\ Seed(c) \in Nat
  BY <1>1, WilderLaw
<1>6. sum \in Nat /\ \A j \in 1..p : list[j] <= sum
  <2>1. 1..p \in SUBSET (1..p)
    OBVIOUS
  <2>2. QED
    BY <1>1, <1>2, <2>1, PartOfSum
<1>7. Scale * sum \in Nat
  <2>1. \A i, j \in Nat : i * j \in Nat
    OBVIOUS
  <2>2. QED
    BY <1>1, <1>6, <2>1
<1>8. Average(list) = (Scale * sum) \div p
  BY <1>3, <1>4 DEF Seed
<1>9. ASSUME \E i \in 2..n : c[i] > 0
      PROVE  Average(list) >= TickLeft(n)
  <2>1. PICK i \in 2..n : c[i] > 0
    BY <1>9
  <2> DEFINE j == i - 1
  <2>2. j \in 1..p /\ list[j] = c[i]
    BY <1>1
  <2>3. sum >= 1
    <3> HIDE DEF sum, j
    <3> QED BY <1>2, <1>6, <2>1, <2>2
  <2>4. \A k \in Nat : k >= 1 => Scale <= Scale * k
    BY <1>1
  <2> HIDE DEF sum
  <2>5. Scale <= Scale * sum
    BY <1>6, <2>3, <2>4
  <2>6. Scale \div p <= (Scale * sum) \div p
    BY <1>1, <1>7, <2>5, QuotientGrows
  <2>7. n \in RsiPeriod+1..MaxBars
    BY <1>1
  <2>8. TickLeft(n) \in Nat /\ TickLeft(n) <= Scale \div p
    BY <2>7, TickLaw
  <2>9. Scale \div p \in Nat /\ (Scale * sum) \div p \in Nat
    BY <1>1, <1>7, QuotientBounds
  <2>10. QED
    BY <1>8, <2>6, <2>8, <2>9
<1>10. ASSUME ~ \E i \in 2..n : c[i] > 0
       PROVE  Average(list) = 0
  <2>1. \A i \in 1..p : list[i] = 0
    <3>1. \A i \in 1..p : i + 1 \in 2..n
      BY <1>1
    <3>2. QED
      BY <1>2, <1>10, <3>1
  <2>2. sum = p * 0
    <3>1. p \in Nat /\ 0 \in Int
      BY <1>1
    <3> HIDE DEF p
    <3> QED BY ONLY <3>1, <2>1, SumConst DEF sum
  <2>3. Scale * sum = 0
    BY <1>1, <2>2
  <2> HIDE DEF sum
  <2>4. Scale * sum <= p * 0
    BY <1>1, <2>3
  <2>5. (Scale * sum) \div p <= 0 /\ (Scale * sum) \div p \in Nat
    BY <1>1, <1>7, <2>4, QuotientBounds
  <2>6. QED
    BY <1>8, <2>5
<1>11. QED
  <2>1. Average(list) \in Nat /\ Average(list) # NoValue
    BY <1>4, <1>5 DEF NoValue
  <2>2. QED
    BY <1>1, <1>4, <1>5, <1>9, <1>10, <2>1 DEF Told

\* A later change.
LEMMA LaterIsTold ==
  ASSUME NEW n \in Nat, n + 1 <= MaxBars, NEW avg, NEW d, Told(avg, d, n), avg # NoValue,
         NEW c, \A i \in 2..n+1 : c[i] \in Nat, \A i \in 2..n : d[i] = c[i]
  PROVE  Told(Wilder(avg, RsiPeriod, c[n + 1]), c, n + 1)
<1> DEFINE new == Wilder(avg, RsiPeriod, c[n + 1])
<1>1. RsiPeriod \in Nat \ {0} /\ MaxBars \in Nat /\ NoValue \notin Nat
  BY IndicatorAssumption DEF NoValue
<1>2. /\ avg \in Nat /\ n >= RsiPeriod + 1 /\ avg = WilderAverage(d, n)
      /\ IF \E i \in 2..n : d[i] > 0 THEN avg >= TickLeft(n) ELSE avg = 0
  BY DEF Told
<1>3. n \in RsiPeriod+1..MaxBars /\ n + 1 \in 2..n+1 /\ c[n + 1] \in Nat
  BY <1>1, <1>2
<1>4. new = WilderAverage(c, n + 1)
  <2>1. RsiPeriod + 1 <= n
    BY <1>1, <1>2
  <2>2. WilderAverage(c, n + 1) =
          (WilderAverage(d, n) * (RsiPeriod - 1) + Scale * c[n + 1]) \div RsiPeriod
    BY <2>1, WilderNext
  <2>3. QED
    BY <1>2, <2>2 DEF Wilder
<1>5. new \in Nat
  BY <1>1, <1>2, <1>3, WilderIsNatural
<1> HIDE DEF new
<1>6. /\ avg >= TickLeft(n) => new >= TickLeft(n + 1)
      /\ c[n + 1] > 0 => new >= TickLeft(n + 1)
      /\ avg = 0 /\ c[n + 1] = 0 => new = 0
  BY <1>2, <1>3, WilderFelt DEF new
<1>7. (\E i \in 2..n+1 : c[i] > 0) <=> c[n + 1] > 0 \/ \E i \in 2..n : d[i] > 0
  BY <1>3
<1>8. IF \E i \in 2..n+1 : c[i] > 0 THEN new >= TickLeft(n + 1) ELSE new = 0
  <2>1. CASE c[n + 1] > 0
    BY <1>6, <1>7, <2>1
  <2>2. CASE ~(c[n + 1] > 0)
    <3>1. c[n + 1] = 0
      BY <1>3, <2>2
    <3>2. QED
      BY <1>2, <1>6, <1>7, <2>2, <3>1
  <2>3. QED
    BY <2>1, <2>2
<1>9. new # NoValue /\ n + 1 >= RsiPeriod + 1
  BY <1>1, <1>2, <1>5
<1>10. QED
  BY <1>4, <1>5, <1>8, <1>9 DEF Told, new

\* A bar more of one side: kept holds the last closes, close(i) is the i-th of all.
LEMMA MoveStep ==
  ASSUME NEW n \in Nat, n + 1 <= MaxBars, NEW side, NEW avg, NEW d, Told(avg, d, n),
         NEW close, \A i \in 1..n+1 : close[i] \in Nat,
         NEW c, \A i \in 2..n+1 : c[i] = Move(side, close[i - 1], close[i]),
         \A i \in 2..n : d[i] = c[i],
         prev = IF n = 0 THEN NoValue ELSE close[n],
         NEW kept, Len(kept) = IF n + 1 < History THEN n + 1 ELSE History,
         \A i \in 1..Len(kept) : kept[i] = close[n + 1 - Len(kept) + i]
  PROVE  Told(NextMove(avg, close[n + 1], kept, side), c, n + 1)
<1> DEFINE x == close[n + 1]
           new == NextMove(avg, x, kept, side)
<1>1. /\ RsiPeriod \in Nat \ {0} /\ MaxBars \in Nat /\ History \in Nat /\ RsiPeriod + 1 <= History
      /\ NoValue \notin Nat
  BY IndicatorAssumption DEF NoValue
<1>2. \A i \in 2..n+1 : c[i] \in Nat
  <2>1. TAKE i \in 2..n+1
  <2>2. i \in 1..n+1 /\ i - 1 \in 1..n+1
    OBVIOUS
  <2>3. QED
    BY <2>2, MoveIsNatural
<1>3. CASE n = 0
  <2>1. avg = NoValue /\ new = NoValue
    BY <1>1, <1>3 DEF Told, NextMove
  <2>2. QED
    BY <1>1, <1>3, <2>1 DEF Told
<1>4. CASE n # 0 /\ avg # NoValue
  <2>a. prev = close[n]
    BY <1>4
  <2>0. n \in 1..n+1 /\ prev = close[n]
    BY <1>4, <2>a
  <2>1. n \in 1..n+1 /\ prev = close[n] /\ prev # NoValue
    BY <1>1, <2>0
  <2>2. new = Wilder(avg, RsiPeriod, Move(side, prev, x))
    BY <1>4, <2>1 DEF NextMove, Smooth
  <2>3. c[n + 1] = Move(side, prev, x)
    <3>0. n \in Nat /\ n # 0
      BY <1>4
    <3>1. n + 1 \in 2..n+1 /\ (n + 1) - 1 = n
      BY ONLY <3>0
    <3>2. c[n + 1] = Move(side, close[(n + 1) - 1], close[n + 1])
      BY <3>1
    <3>3. QED
      BY <2>1, <3>1, <3>2
  <2>4. Told(Wilder(avg, RsiPeriod, c[n + 1]), c, n + 1)
    BY <1>2, <1>4, LaterIsTold
  <2>5. QED
    BY <2>2, <2>3, <2>4
<1>5. CASE n # 0 /\ avg = NoValue
  <2>1. n \in 1..n+1 /\ prev = close[n] /\ prev # NoValue /\ ~(n >= RsiPeriod + 1)
    BY <1>1, <1>5 DEF Told
  <2>2. Len(kept) = n + 1
    BY <1>1, <2>1
  <2>3. CASE n = RsiPeriod
    <3> DEFINE list == [i \in 1..RsiPeriod |-> Move(side, kept[i], kept[i + 1])]
    <3>1. new = Average(list)
      BY <1>5, <2>1, <2>2, <2>3 DEF NextMove
    <3>2. DOMAIN list = 1..RsiPeriod /\ Len(list) = RsiPeriod
      BY <1>1
    <3>3. \A i \in 1..RsiPeriod : list[i] = c[i + 1]
      <4>1. TAKE i \in 1..RsiPeriod
      <4>2. /\ i \in 1..Len(kept) /\ i + 1 \in 1..Len(kept) /\ i + 1 \in 2..n+1 /\ (i + 1) - 1 = i
            /\ n + 1 - Len(kept) + i = i /\ n + 1 - Len(kept) + (i + 1) = i + 1
        BY <1>1, <2>2, <2>3
      <4>3. kept[i] = close[i] /\ kept[i + 1] = close[i + 1]
        BY <4>2
      <4>4. c[i + 1] = Move(side, close[(i + 1) - 1], close[i + 1])
        BY <4>2
      <4>5. QED
        BY <4>2, <4>3, <4>4
    <3> HIDE DEF list
    <3>4. Told(Average(list), c, n + 1)
      <4> DEFINE m == n + 1
      <4>1. m \in Nat /\ m = RsiPeriod + 1 /\ m <= MaxBars /\ \A i \in 2..m : c[i] \in Nat
        BY <1>2, <2>3
      <4> HIDE DEF m
      <4>2. Told(Average(list), c, m)
        BY ONLY <3>2, <3>3, <4>1, SeedIsTold
      <4>3. QED
        BY <4>2 DEF m
    <3>5. QED
      BY <3>1, <3>4
  <2>4. CASE n # RsiPeriod
    <3>1. new = NoValue
      BY <1>1, <1>5, <2>1, <2>2, <2>4 DEF NextMove
    <3>2. ~(n + 1 >= RsiPeriod + 1)
      BY <1>1, <2>1, <2>4
    <3>3. QED
      BY <3>1, <3>2 DEF Told
  <2>5. QED
    BY <2>3, <2>4
<1>6. QED
  BY <1>3, <1>4, <1>5

\* What carries over from one bar to the next: the rest of IndicatorInv follows.
IndicatorParts == /\ IndicatorType /\ ReadyOnTime /\ StaysInRange
                  /\ RsiMatchesWilder /\ ChangesAreFelt

SideTold(side) == Told(IF side = "gain" THEN gain ELSE loss, Changes(side), BarCount)

LEMMA SidesToldNow ==
  ASSUME IndicatorParts
  PROVE  SideTold("gain") /\ SideTold("loss")
<1>1. {gain, loss} \subseteq Nat \cup {NoValue}
  BY DEF IndicatorParts, IndicatorType
<1>2. (gain # NoValue <=> BarCount >= RsiPeriod + 1) /\ (loss # NoValue <=> gain # NoValue)
  BY DEF IndicatorParts, ReadyOnTime
<1>3. gain # NoValue => /\ gain = WilderAverage(Changes("gain"), BarCount)
                        /\ loss = WilderAverage(Changes("loss"), BarCount)
  BY DEF IndicatorParts, RsiMatchesWilder
<1>4. gain # NoValue =>
        /\ IF \E i \in 2..BarCount : Changes("gain")[i] > 0 THEN gain >= TickLeft(BarCount) ELSE gain = 0
        /\ IF \E i \in 2..BarCount : Changes("loss")[i] > 0 THEN loss >= TickLeft(BarCount) ELSE loss = 0
  BY DEF IndicatorParts, ChangesAreFelt, Moved, TickLeft
<1>5. "loss" # "gain"
  OBVIOUS
<1>6. QED
  BY <1>1, <1>2, <1>3, <1>4, <1>5 DEF SideTold, Told

\* A closed bar reaches the engine.
LEMMA ClosedBar ==
  ASSUME IndicatorParts, BarCount < MaxBars, NEW b \in Bars, OnKlineClose(b), bars' = Append(bars, b)
  PROVE  IndicatorParts'
<1> DEFINE n == BarCount
           kept == Push(closes, b.close, History)
           tr == TrueRange(b)
           trkept == Push(trs, tr, AtrPeriod + 5)
<1>1. /\ IndicatorType /\ bars \in Seq(Bars)
      /\ ema \in Nat \cup {NoValue} /\ atr \in Nat \cup {NoValue}
      /\ trs \in Seq(Nat) /\ Len(trs) = Kept(AtrPeriod + 5)
      /\ vwap \in [num : Nat, den : Nat]
      /\ prev = IF BarCount = 0 THEN NoValue ELSE ClosePrice(BarCount)
  BY DEF IndicatorParts, IndicatorType
<1>2. /\ bars' \in Seq(Bars) /\ n \in Nat /\ BarCount' = n + 1
      /\ \A i \in 1..n : bars[i] \in Bars /\ bars'[i] = bars[i]
      /\ bars'[n + 1] = b
  BY <1>1, BarAppended
<1>3. /\ closes' = kept /\ trs' = trkept
      /\ ema' = NextEma(b.close, kept)
      /\ gain' = NextMove(gain, b.close, kept, "gain")
      /\ loss' = NextMove(loss, b.close, kept, "loss")
      /\ atr' = NextAtr(tr, trkept)
      /\ vwap' = [num |-> vwap.num + (b.high + b.low + b.close) * b.volume,
                  den |-> vwap.den + b.volume]
      /\ prev' = b.close
  BY DEF OnKlineClose
<1>4. /\ kept \in Seq(BarPrices) /\ Len(kept) = IF n + 1 < History THEN n + 1 ELSE History
      /\ \A i \in 1..Len(kept) : kept[i] = bars'[n + 1 - Len(kept) + i].close
  <2>1. Len(kept) = Kept(History)' /\ kept \in Seq(BarPrices)
        /\ \A i \in 1..Len(kept) : kept[i] = bars'[BarCount' - Len(kept) + i].close
    BY <1>1, ClosesStep
  <2>2. Kept(History)' = IF n + 1 < History THEN n + 1 ELSE History
    BY <1>2 DEF Kept
  <2>3. \A i \in 1..Len(kept) : kept[i] = bars'[n + 1 - Len(kept) + i].close
    <3> HIDE DEF kept, n
    <3>1. Len(kept) \in Nat
      BY <2>1
    <3>2. TAKE i \in 1..Len(kept)
    <3>3. BarCount' - Len(kept) + i = n + 1 - Len(kept) + i
      BY <1>2
    <3>4. kept[i] = bars'[BarCount' - Len(kept) + i].close
      BY <2>1
    <3>5. QED
      BY <3>3, <3>4
  <2>4. QED
    BY <2>1, <2>2, <2>3
<1>5. /\ b.high \in Nat /\ b.low \in Nat /\ b.close \in Nat /\ b.volume \in Nat
      /\ b.close \in BarPrices /\ b.low <= b.close /\ b.close <= b.high
  BY BarFields
<1>6. \A i \in 1..n+1 : bars'[i] \in Bars /\ bars'[i].close \in Nat
  <2>1. \A i \in 1..n+1 : i \in 1..n \/ i = n + 1
    BY <1>2
  <2>2. \A i \in 1..n+1 : bars'[i] \in Bars
    BY <1>2, <2>1
  <2>3. QED
    BY <2>2, BarFields
<1>7. prev \in Nat \cup {NoValue} /\ (prev # NoValue => n \in 1..n /\ prev = bars[n].close)
  <2>1. CASE n = 0
    BY <1>1, <2>1
  <2>2. CASE n # 0
    <3>1. n \in 1..n
      BY <1>2, <2>2
    <3>2. ClosePrice(n) \in Nat
      BY <1>1, <3>1, PriceOfABar
    <3>3. QED
      BY <1>1, <2>2, <3>1, <3>2 DEF ClosePrice
  <2>3. QED
    BY <2>1, <2>2
<1>8. /\ tr \in Nat
      /\ \A low, high \in Nat :
           low <= b.low /\ b.high <= high /\ (prev # NoValue => low <= prev /\ prev <= high)
           => high - low \in Nat /\ tr <= high - low
  BY <1>7, TrueRangeSpan
<1>9. /\ trkept \in Seq(Nat)
      /\ Len(trkept) = IF n + 1 < AtrPeriod + 5 THEN n + 1 ELSE AtrPeriod + 5
      /\ \A top : (\A k \in 1..Len(trs) : trs[k] <= top) /\ tr <= top
                  => \A k \in 1..Len(trkept) : trkept[k] <= top
  <2>1. Len(trs) = IF n < AtrPeriod + 5 THEN n ELSE AtrPeriod + 5
    BY <1>1 DEF Kept
  <2>2. trkept = Push(trs, tr, AtrPeriod + 5) /\ trs \in Seq(Nat) /\ tr \in Nat /\ n \in Nat
    BY <1>1, <1>2, <1>8
  <2> HIDE DEF n, tr, trkept
  <2>3. QED
    BY ONLY <2>1, <2>2, RangesStep
<1>10. /\ ema' \in Nat \cup {NoValue} /\ (ema' # NoValue <=> n + 1 >= EmaPeriod)
  <2>1. ema # NoValue <=> n >= EmaPeriod
    BY DEF IndicatorParts, ReadyOnTime
  <2> HIDE DEF kept, n
  <2>2. QED
    BY <1>1, <1>2, <1>3, <1>4, <1>5, <2>1, EmaIsReady
<1>11. /\ atr' \in Nat \cup {NoValue} /\ (atr' # NoValue <=> n + 1 >= AtrPeriod)
       /\ \A top \in Nat :
            /\ tr <= top /\ \A k \in 1..Len(trkept) : trkept[k] <= top
            /\ atr # NoValue => atr <= Scale * top
            /\ atr' # NoValue
            => atr' <= Scale * top
  <2>1. atr # NoValue <=> n >= AtrPeriod
    BY DEF IndicatorParts, ReadyOnTime
  <2> HIDE DEF trkept, n, tr
  <2>2. QED
    BY <1>1, <1>2, <1>3, <1>8, <1>9, <2>1, AtrStep
<1>12. Told(gain', Changes("gain")', BarCount') /\ Told(loss', Changes("loss")', BarCount')
  <2> DEFINE close == [i \in 1..n+1 |-> bars'[i].close]
             d(side) == Changes(side)
             c(side) == [i \in 2..n+1 |-> Move(side, close[i - 1], close[i])]
  <2>1. /\ \A i \in 1..n+1 : close[i] \in Nat
        /\ close[n + 1] = b.close
        /\ n + 1 <= MaxBars
    <3>1. n < MaxBars /\ MaxBars \in Nat
      BY IndicatorAssumption
    <3>2. n + 1 \in 1..n+1
      BY <1>2
    <3>3. \A i \in 1..n+1 : close[i] = bars'[i].close
      OBVIOUS
    <3> HIDE DEF n, close
    <3>4. \A i \in 1..n+1 : close[i] \in Nat
      BY <1>6, <3>3
    <3>5. close[n + 1] = b.close
      BY <1>2, <3>2, <3>3
    <3>6. n + 1 <= MaxBars
      BY <1>2, <3>1
    <3>7. QED
      BY <3>4, <3>5, <3>6
  <2>2. prev = IF n = 0 THEN NoValue ELSE close[n]
    <3>1. CASE n = 0
      BY <1>1, <3>1
    <3>2. CASE n # 0
      <4>1. n \in 1..n /\ n \in 1..n+1
        BY <1>2, <3>2
      <4>2. close[n] = bars[n].close
        BY <1>2, <4>1
      <4>3. QED
        BY <1>1, <3>2, <4>2 DEF ClosePrice
    <3>3. QED
      BY <3>1, <3>2
  <2>3. \A i \in 1..Len(kept) : kept[i] = close[n + 1 - Len(kept) + i]
    <3> HIDE DEF kept, n
    <3>1. Len(kept) \in Nat /\ Len(kept) <= n + 1
      <4>1. History \in Nat
        BY IndicatorAssumption
      <4>2. QED
        BY <1>2, <1>4, <4>1
    <3>2. \A i \in 1..Len(kept) : n + 1 - Len(kept) + i \in 1..n+1
      BY <1>2, <3>1
    <3>3. QED
      BY <1>4, <3>2
  <2>4. ASSUME NEW side PROVE Changes(side)' = c(side)
    <3>1. Changes(side)' = [i \in 2..n+1 |-> Move(side, bars'[i - 1].close, bars'[i].close)]
      BY <1>2 DEF Changes, ClosePrice
    <3>2. \A i \in 2..n+1 : i \in 1..n+1 /\ i - 1 \in 1..n+1
      BY <1>2
    <3>3. QED
      BY <3>1, <3>2
  <2>5. ASSUME NEW side PROVE \A i \in 2..n : d(side)[i] = c(side)[i]
    <3>1. TAKE i \in 2..n
    <3>2. i \in 1..n /\ i - 1 \in 1..n /\ i \in 2..n+1 /\ i \in 1..n+1 /\ i - 1 \in 1..n+1
      BY <1>2
    <3>3. bars'[i] = bars[i] /\ bars'[i - 1] = bars[i - 1]
      BY <1>2, <3>2
    <3>4. d(side)[i] = Move(side, bars[i - 1].close, bars[i].close)
      BY DEF Changes, ClosePrice
    <3>5. c(side)[i] = Move(side, bars'[i - 1].close, bars'[i].close)
      BY <3>2
    <3>6. QED
      BY <3>3, <3>4, <3>5
  <2>6. ASSUME NEW side, NEW avg, Told(avg, d(side), n)
        PROVE  Told(NextMove(avg, b.close, kept, side), c(side), n + 1)
    <3>1. \A i \in 2..n+1 : c(side)[i] = Move(side, close[i - 1], close[i])
      OBVIOUS
    <3>2. \A i \in 2..n : d(side)[i] = c(side)[i]
      BY <2>5
    <3>3. Len(kept) = IF n + 1 < History THEN n + 1 ELSE History
      BY <1>4
    <3>4. Told(NextMove(avg, close[n + 1], kept, side), c(side), n + 1)
      <4> HIDE DEF kept, close, c, d, n
      <4> QED BY <1>2, <2>1, <2>2, <2>3, <2>6, <3>1, <3>2, <3>3, MoveStep
    <3>5. QED
      BY <2>1, <3>4
  <2>7. Told(gain, d("gain"), n) /\ Told(loss, d("loss"), n)
    <3>1. "loss" # "gain"
      OBVIOUS
    <3>2. SideTold("gain") /\ SideTold("loss")
      BY SidesToldNow
    <3>3. QED
      BY <3>1, <3>2 DEF SideTold
  <2>8. Told(gain', c("gain"), n + 1) /\ Told(loss', c("loss"), n + 1)
    BY <1>3, <2>6, <2>7
  <2>9. Told(gain', Changes("gain")', BarCount') /\ Told(loss', Changes("loss")', BarCount')
    BY <1>2, <2>4, <2>8
  <2>10. QED
    BY <2>9
<1>13. /\ {gain', loss'} \subseteq Nat \cup {NoValue}
       /\ gain' # NoValue <=> n + 1 >= RsiPeriod + 1
       /\ loss' # NoValue <=> gain' # NoValue
       /\ RsiMatchesWilder' /\ ChangesAreFelt'
  <2>1. /\ {gain', loss'} \subseteq Nat \cup {NoValue}
        /\ gain' # NoValue <=> n + 1 >= RsiPeriod + 1
        /\ loss' # NoValue <=> gain' # NoValue
    BY <1>2, <1>12 DEF Told
  <2>2. RsiMatchesWilder'
    BY <1>12, <2>1 DEF Told, RsiMatchesWilder
  <2>3. ChangesAreFelt'
    BY <1>12, <2>1 DEF Told, ChangesAreFelt, Moved, TickLeft
  <2>4. QED
    BY <2>1, <2>2, <2>3
<1>14. ASSUME NEW low \in Nat, NEW high \in Nat,
              \A i \in 1..n+1 : low <= bars'[i].low /\ bars'[i].high <= high
       PROVE  /\ \A i \in 1..n : low <= bars[i].low /\ bars[i].high <= high
              /\ low <= b.low /\ b.high <= high
              /\ prev # NoValue => low <= prev /\ prev <= high
  <2>1. \A i \in 1..n : i \in 1..n+1 /\ bars'[i] = bars[i]
    <3> HIDE DEF n
    <3>1. \A i \in 1..n : i \in 1..n+1
      BY <1>2
    <3>2. QED
      BY <1>2, <3>1
  <2>2. n + 1 \in 1..n+1
    BY <1>2
  <2>3. /\ \A i \in 1..n : low <= bars[i].low /\ bars[i].high <= high
        /\ low <= b.low /\ b.high <= high
    <3> HIDE DEF n
    <3> QED BY <1>2, <1>14, <2>1, <2>2
  <2>4. prev # NoValue => low <= prev /\ prev <= high
    <3>1. SUFFICES ASSUME prev # NoValue PROVE low <= prev /\ prev <= high
      OBVIOUS
    <3>2. n \in 1..n /\ prev = bars[n].close /\ bars[n] \in Bars
      BY <1>2, <1>7, <3>1
    <3>3. /\ bars[n].low \in Nat /\ bars[n].close \in Nat /\ bars[n].high \in Nat
          /\ bars[n].low <= bars[n].close /\ bars[n].close <= bars[n].high
      BY <3>2, BarFields
    <3>4. low <= bars[n].low /\ bars[n].high <= high
      BY <2>3, <3>2
    <3>5. QED
      BY <3>2, <3>3, <3>4
  <2>5. QED
    BY <2>3, <2>4
<1>15. \A low, high \in BarPrices : low \in Nat /\ high \in Nat
  BY IndicatorAssumption
<1>16. ASSUME NEW low \in BarPrices, NEW high \in BarPrices, ema' # NoValue,
              \A i \in 1..n+1 : low <= bars'[i].close /\ bars'[i].close <= high
       PROVE  Scale * low <= ema' /\ ema' <= Scale * high
  <2>1. ema # NoValue => Scale * low <= ema /\ ema <= Scale * high
    <3>1. \A i \in 1..n : low <= ClosePrice(i) /\ ClosePrice(i) <= high
      <4>1. \A i \in 1..n : i \in 1..n+1 /\ bars'[i] = bars[i]
        <5> HIDE DEF n
        <5>1. \A i \in 1..n : i \in 1..n+1
          BY <1>2
        <5>2. QED
          BY <1>2, <5>1
      <4>2. QED
        BY <1>16, <4>1 DEF ClosePrice
    <3>2. QED
      BY <3>1 DEF IndicatorParts, StaysInRange
  <2>2. low <= b.close /\ b.close <= high
    <3>1. n + 1 \in 1..n+1
      BY <1>2
    <3>2. QED
      BY <1>2, <1>16, <3>1
  <2>3. \A i \in 1..Len(kept) : low <= kept[i] /\ kept[i] <= high
    <3> HIDE DEF kept, n
    <3>1. Len(kept) \in Nat /\ Len(kept) <= n + 1
      <4>1. History \in Nat
        BY IndicatorAssumption
      <4>2. QED
        BY <1>2, <1>4, <4>1
    <3>2. \A i \in 1..Len(kept) : n + 1 - Len(kept) + i \in 1..n+1
      BY <1>2, <3>1
    <3>3. QED
      BY <1>4, <1>16, <3>2
  <2> HIDE DEF kept
  <2>4. QED
    BY <1>1, <1>3, <1>4, <1>5, <1>15, <1>16, <2>1, <2>2, <2>3, EmaBetween
<1>17. ASSUME NEW low \in BarPrices, NEW high \in BarPrices,
              \A i \in 1..n+1 : low <= bars'[i].low /\ bars'[i].high <= high
       PROVE  /\ 3 * vwap'.den * low <= vwap'.num /\ vwap'.num <= 3 * vwap'.den * high
              /\ \A k \in 1..Len(trs') : trs'[k] <= high - low
              /\ atr' # NoValue => atr' <= Scale * (high - low)
  <2>1. low \in Nat /\ high \in Nat
    BY <1>15
  <2>2. /\ \A i \in 1..n : low <= bars[i].low /\ bars[i].high <= high
        /\ low <= b.low /\ b.high <= high
        /\ prev # NoValue => low <= prev /\ prev <= high
    BY <1>14, <1>17, <2>1
  <2>3. /\ 3 * vwap.den * low <= vwap.num /\ vwap.num <= 3 * vwap.den * high
        /\ \A k \in 1..Len(trs) : trs[k] <= high - low
        /\ atr # NoValue => atr <= Scale * (high - low)
    BY <2>2 DEF IndicatorParts, StaysInRange
  <2>4. high - low \in Nat /\ tr <= high - low
    BY <1>8, <2>1, <2>2
  <2>5. \A k \in 1..Len(trkept) : trkept[k] <= high - low
    <3> HIDE DEF trkept, tr
    <3> QED BY <1>9, <2>3, <2>4
  <2>6. atr' # NoValue => atr' <= Scale * (high - low)
    <3> HIDE DEF trkept, tr
    <3> QED BY <1>11, <2>3, <2>4, <2>5
  <2>7. /\ 3 * (vwap.den + b.volume) * low <= vwap.num + (b.high + b.low + b.close) * b.volume
        /\ vwap.num + (b.high + b.low + b.close) * b.volume <= 3 * (vwap.den + b.volume) * high
    <3>1. vwap.num \in Nat /\ vwap.den \in Nat
      BY <1>1
    <3>2. QED
      BY <2>1, <2>2, <2>3, <3>1, VwapBetween
  <2>8. /\ vwap'.num = vwap.num + (b.high + b.low + b.close) * b.volume
        /\ vwap'.den = vwap.den + b.volume
    BY <1>3
  <2>9. QED
    BY <1>3, <2>5, <2>6, <2>7, <2>8
<1>18. IndicatorType'
  <2>1. BarCount' <= MaxBars
    BY <1>2, IndicatorAssumption
  <2>2. closes' \in Seq(BarPrices) /\ Len(closes') = Kept(History)'
    BY <1>2, <1>3, <1>4 DEF Kept
  <2>3. \A i \in 1..Len(closes') : closes'[i] = bars'[BarCount' - Len(closes') + i].close
    <3> HIDE DEF kept, n
    <3>1. Len(kept) \in Nat
      BY <1>4
    <3>2. TAKE i \in 1..Len(closes')
    <3>3. i \in 1..Len(kept) /\ BarCount' - Len(closes') + i = n + 1 - Len(kept) + i
      BY <1>2, <1>3, <3>1
    <3>4. kept[i] = bars'[n + 1 - Len(kept) + i].close
      BY <1>4, <3>3
    <3>5. QED
      BY <1>3, <3>3, <3>4
  <2>4. trs' \in Seq(Nat) /\ Len(trs') = Kept(AtrPeriod + 5)'
    BY <1>2, <1>3, <1>9 DEF Kept
  <2>5. {ema', gain', loss', atr'} \subseteq Nat \cup {NoValue}
    BY <1>10, <1>11, <1>13
  <2>6. vwap' \in [num : Nat, den : Nat]
    <3>1. \A p, q \in Nat : p * q \in Nat /\ p + q \in Nat
      OBVIOUS
    <3>2. vwap.num \in Nat /\ vwap.den \in Nat
      BY <1>1
    <3>3. (b.high + b.low + b.close) * b.volume \in Nat
      BY <1>5, <3>1
    <3>4. QED
      BY <1>3, <1>5, <3>1, <3>2, <3>3
  <2>7. prev' = IF BarCount' = 0 THEN NoValue ELSE bars'[BarCount'].close
    BY <1>2, <1>3
  <2>8. QED
    BY <1>2, <2>1, <2>2, <2>3, <2>4, <2>5, <2>6, <2>7 DEF IndicatorType, ClosePrice
<1>19. ReadyOnTime'
  BY <1>2, <1>10, <1>11, <1>13 DEF ReadyOnTime
<1>20. StaysInRange'
  BY <1>2, <1>16, <1>17 DEF StaysInRange, ClosePrice
<1>21. QED
  BY <1>13, <1>18, <1>19, <1>20 DEF IndicatorParts

LEMMA IndicatorPartsInit == IndicatorInit => IndicatorParts
<1>1. SUFFICES ASSUME IndicatorInit PROVE IndicatorParts
  OBVIOUS
<1>2. /\ closes = <<>> /\ trs = <<>> /\ bars = <<>> /\ prev = NoValue
      /\ ema = NoValue /\ gain = NoValue /\ loss = NoValue /\ atr = NoValue
      /\ vwap = [num |-> 0, den |-> 0]
  BY <1>1 DEF IndicatorInit
<1>a. BarCount = 0
  BY <1>2 DEF BarCount
<1>3. /\ EmaPeriod \in Nat \ {0} /\ RsiPeriod \in Nat \ {0} /\ AtrPeriod \in Nat \ {0}
      /\ History \in Nat /\ MaxBars \in Nat /\ BarPrices \subseteq Nat
      /\ EmaPeriod <= History
  BY IndicatorAssumption
<1>4. IndicatorType
  BY <1>2, <1>a, <1>3 DEF IndicatorType, Kept
<1>5. ReadyOnTime
  BY <1>2, <1>a, <1>3 DEF ReadyOnTime
<1>6. StaysInRange
  BY <1>2, <1>a, <1>3 DEF StaysInRange
<1>7. RsiMatchesWilder /\ ChangesAreFelt
  BY <1>2 DEF RsiMatchesWilder, ChangesAreFelt
<1>8. QED
  BY <1>4, <1>5, <1>6, <1>7 DEF IndicatorParts

LEMMA IndicatorPartsStay ==
  ASSUME IndicatorParts, UNCHANGED indicatorVars
  PROVE  IndicatorParts'
<1>1. /\ closes' = closes /\ ema' = ema /\ gain' = gain /\ loss' = loss /\ atr' = atr
      /\ trs' = trs /\ prev' = prev /\ vwap' = vwap /\ bars' = bars
  BY DEF indicatorVars, engine
<1>2. BarCount' = BarCount
  BY <1>1 DEF BarCount
<1>3. \A side : Changes(side)' = Changes(side)
  BY <1>1, <1>2 DEF Changes, ClosePrice
<1>4. IndicatorType'
  BY <1>1, <1>2 DEF IndicatorParts, IndicatorType, ClosePrice, Kept
<1>5. ReadyOnTime'
  BY <1>1, <1>2 DEF IndicatorParts, ReadyOnTime
<1>6. StaysInRange'
  BY <1>1, <1>2 DEF IndicatorParts, StaysInRange, ClosePrice
<1>7. RsiMatchesWilder'
  BY <1>1, <1>2, <1>3 DEF IndicatorParts, RsiMatchesWilder
<1>8. ChangesAreFelt'
  BY <1>1, <1>2, <1>3 DEF IndicatorParts, ChangesAreFelt, Moved
<1>9. QED
  BY <1>4, <1>5, <1>6, <1>7, <1>8 DEF IndicatorParts

LEMMA IndicatorPartsNext == IndicatorParts /\ [IndicatorNext]_indicatorVars => IndicatorParts'
<1>1. SUFFICES ASSUME IndicatorParts, [IndicatorNext]_indicatorVars
               PROVE  IndicatorParts'
  OBVIOUS
<1>2. CASE UNCHANGED indicatorVars
  BY <1>1, <1>2, IndicatorPartsStay
<1>3. CASE Kline
  <2>1. PICK b \in Bars, closed \in BOOLEAN :
          /\ IF LetThrough(closed) THEN OnKlineClose(b) ELSE UNCHANGED engine
          /\ bars' = IF closed THEN Append(bars, b) ELSE bars
    BY <1>3 DEF Kline
  <2>2. CASE closed
    <3>1. OnKlineClose(b) /\ bars' = Append(bars, b) /\ BarCount < MaxBars
      BY <1>3, <2>1, <2>2 DEF LetThrough, Kline, BarCount
    <3>2. QED
      BY <1>1, <3>1, ClosedBar
  <2>3. CASE ~closed
    <3>1. UNCHANGED indicatorVars
      BY <2>1, <2>3 DEF LetThrough, indicatorVars
    <3>2. QED
      BY <1>1, <3>1, IndicatorPartsStay
  <2>4. QED
    BY <2>2, <2>3
<1>4. QED
  BY <1>1, <1>2, <1>3 DEF IndicatorNext

\* compute tells the sides apart: Scale is fine enough.
LEMMA RsiFollows ==
  ASSUME IndicatorParts
  PROVE  RsiTellsTheSide
<1>1. SUFFICES ASSUME gain # NoValue
      PROVE  /\ Rsi[1] = Rsi[2] <=> ~Moved("loss")
             /\ Rsi[1] = 0 <=> Moved("loss") /\ ~Moved("gain")
             /\ 0 <= Rsi[1] /\ Rsi[1] <= Rsi[2]
  BY DEF RsiTellsTheSide
<1>2. gain \in Nat /\ loss \in Nat /\ BarCount \in RsiPeriod+1..MaxBars
  <2>1. bars \in Seq(Bars) /\ BarCount <= MaxBars /\ {gain, loss} \subseteq Nat \cup {NoValue}
    BY DEF IndicatorParts, IndicatorType
  <2>2. BarCount >= RsiPeriod + 1 /\ loss # NoValue
    BY <1>1 DEF IndicatorParts, ReadyOnTime
  <2>3. BarCount \in Nat /\ RsiPeriod \in Nat /\ MaxBars \in Nat
    BY <2>1, IndicatorAssumption DEF BarCount
  <2>4. QED
    BY <1>1, <2>1, <2>2, <2>3
<1>3. TickLeft(BarCount) \in Nat \ {0}
  BY <1>2, TickLaw
<1>4. /\ IF Moved("gain") THEN gain >= TickLeft(BarCount) ELSE gain = 0
      /\ IF Moved("loss") THEN loss >= TickLeft(BarCount) ELSE loss = 0
  BY <1>1 DEF IndicatorParts, ChangesAreFelt, TickLeft
<1>5. CASE loss = 0
  <2>1. Rsi[1] = 1 /\ Rsi[2] = 1 /\ ~Moved("loss")
    BY <1>3, <1>4, <1>5 DEF Rsi
  <2>2. QED
    BY <2>1
<1>6. CASE loss # 0
  <2>1. Rsi[1] = gain /\ Rsi[2] = gain + loss /\ Moved("loss")
    BY <1>4, <1>6 DEF Rsi
  <2>2. gain = 0 <=> ~Moved("gain")
    BY <1>2, <1>3, <1>4
  <2>3. QED
    BY <1>2, <1>6, <2>1, <2>2
<1>7. QED
  BY <1>5, <1>6

LEMMA BandsFollow ==
  ASSUME IndicatorType
  PROVE  BandsOfTheLastCloses
<1> DEFINE n == BandPeriod
           recent == LastOf(n, closes)
           last == [i \in 1..n |-> ClosePrice(BarCount - n + i)]
           square == [i \in 1..n |-> last[i] * last[i]]
<1>1. SUFFICES ASSUME Full(n, closes)
      PROVE  /\ Bands.middle = SumFunction(last)
             /\ Bands.spread = n * (n * SumFunction(square) - Bands.middle * Bands.middle)
             /\ Bands.spread = 0 <=> \A i \in 1..n : last[i] = last[1]
  BY DEF BandsOfTheLastCloses
<1>2. n \in Nat \ {0} /\ BarPrices \subseteq Nat
  BY IndicatorAssumption
<1>3. /\ closes \in Seq(BarPrices)
      /\ \A i \in 1..Len(closes) : closes[i] = ClosePrice(BarCount - Len(closes) + i)
      /\ bars \in Seq(Bars)
  BY DEF IndicatorType
<1>4. BarCount \in Nat /\ Len(closes) \in Nat /\ n <= Len(closes)
  BY <1>1, <1>2, <1>3 DEF BarCount, Full
<1>5. /\ recent \in Seq(BarPrices) /\ DOMAIN recent = 1..n
      /\ \A i \in 1..n : recent[i] = closes[Len(closes) - n + i]
  <2> HIDE DEF n
  <2> QED BY <1>2, <1>3, <1>4, LastOfIsTail
<1>6. \A i \in 1..n : recent[i] = last[i] /\ last[i] \in Nat
  <2>1. TAKE i \in 1..n
  <2> DEFINE j == Len(closes) - n + i
  <2>2. j \in 1..Len(closes) /\ BarCount - Len(closes) + j = BarCount - n + i
    BY <1>2, <1>4
  <2>3. closes[j] = ClosePrice(BarCount - Len(closes) + j) /\ closes[j] \in Nat
    <3> HIDE DEF j
    <3>1. closes[j] \in BarPrices
      BY <1>3, <2>2
    <3>2. QED
      BY <1>2, <1>3, <2>2, <3>1
  <2>4. recent[i] = closes[j] /\ last[i] = ClosePrice(BarCount - n + i)
    BY <1>5
  <2>5. QED
    BY <2>2, <2>3, <2>4
<1>7. recent = last
  <2>1. recent = [i \in 1..n |-> recent[i]]
    <3> HIDE DEF recent, n
    <3> QED BY <1>5
  <2>2. QED
    BY <1>6, <2>1
<1> DEFINE sum == SumFunctionOnSet(last, 1..n)
<1>8. SumFunction(last) = sum /\ SumFunction(square) = SumFunctionOnSet(Squares(last, n), 1..n)
  BY DEF SumFunction, Squares
<1>9. /\ Bands.middle = sum
      /\ Bands.spread = SumFunctionOnSet(Deviations(last, n), 1..n)
  <2>1. Bands = [middle |-> SumFunction(recent),
                 spread |-> SumFunction([i \in 1..n |-> (n * recent[i] - SumFunction(recent))
                                                        * (n * recent[i] - SumFunction(recent))])]
    BY DEF Bands
  <2>2. SumFunction([i \in 1..n |-> (n * last[i] - sum) * (n * last[i] - sum)])
          = SumFunctionOnSet(Deviations(last, n), 1..n)
    BY DEF SumFunction, Deviations
  <2> HIDE DEF last, recent, n, sum
  <2>3. QED
    BY <1>7, <1>8, <2>1, <2>2
<1>10. /\ Bands.spread = n * (n * SumFunctionOnSet(Squares(last, n), 1..n) - sum * sum)
       /\ Bands.spread = 0 <=> \A i \in 1..n : last[i] = last[1]
  <2>1. \A i \in 1..n : last[i] \in Nat
    BY <1>6
  <2> HIDE DEF last, n
  <2>2. QED
    BY <1>2, <1>9, <2>1, VarianceOf
<1>11. QED
  BY <1>8, <1>9, <1>10

\* IndicatorEngine: in every state, whatever the bars and however many of them are
\* sent open before they close, the averages that are carried along are what their
\* definitions say of the history. It is the invariant of the run engines.
THEOREM IndicatorInvariant == IndicatorSpec => []IndicatorInv
<1>1. IndicatorParts => IndicatorInv
  BY RsiFollows, BandsFollow DEF IndicatorParts, IndicatorInv
<1>2. QED
  BY <1>1, IndicatorPartsInit, IndicatorPartsNext, PTL DEF IndicatorSpec

-----------------------------------------------------------------------------
\* SymbolState.

\* A step of the symbol is one of each engine, or leaves it alone.
LEMMA StepOfEach ==
  [Next]_vars => /\ [IndicatorNext]_indicatorVars /\ [WallNext]_wallVars
                 /\ [FlowNext]_flowVars /\ [SnapshotNext]_snapshotVars
<1>1. CASE UNCHANGED vars
  BY <1>1 DEF vars
<1>2. CASE OnlyIndicators /\ Kline
  BY <1>2 DEF OnlyIndicators, IndicatorNext
<1>3. CASE OnlyWalls /\ (UpdateWalls \/ PriceMoves)
  BY <1>3 DEF OnlyWalls, WallNext
<1>4. CASE OnlyFlow /\ (OnTrade \/ OnLiquidation \/ Tick)
  BY <1>4 DEF OnlyFlow, FlowNext
<1>5. CASE OnlySnapshots /\ SnapshotNext /\ FewTogether
  BY <1>5 DEF OnlySnapshots
<1>6. QED
  BY <1>1, <1>2, <1>3, <1>4, <1>5 DEF Next

\* AnalyticsDispatcher and the engines of one symbol: the invariant of the run engines
\* holds of the specification it checks, for any number of events of any kind.
THEOREM SymbolInvariant == Spec => [](IndicatorInv /\ WallInv /\ FlowInv /\ SnapshotInv)
<1>1. Init => IndicatorInit /\ WallInit /\ FlowInit /\ SnapshotInit
  BY DEF Init
<1>2. Spec => IndicatorSpec /\ WallSpec /\ FlowSpec /\ SnapshotSpec
  BY <1>1, StepOfEach, PTL DEF Spec, IndicatorSpec, WallSpec, FlowSpec, SnapshotSpec
<1>3. QED
  BY <1>2, IndicatorInvariant, WallInvariant, FlowInvariant, SnapshotInvariant, PTL
=============================================================================
