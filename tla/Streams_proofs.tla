---------------------------- MODULE Streams_proofs ----------------------------
(***************************************************************************)
(* Theorems about the events of the accounts' own streams: the listen key  *)
(* of PrivateStream, what AccountStream tells its readers, and what        *)
(* OrderReconciliation makes of the reports on an order, for any number of *)
(* failures, changes, events and repeated reports.                         *)
(***************************************************************************)
EXTENDS AccountStream, PrivateStream, OrderReconciliation, FiniteSetTheorems,
        SequenceTheorems, TLAPS

-----------------------------------------------------------------------------
\* PrivateStream.

LEMMA PrivateInitInv == PrivateInit => PrivateInv
<1> SUFFICES ASSUME PrivateInit PROVE PrivateInv
  OBVIOUS
<1> USE PrivateStreamAssumption DEF PrivateInit
<1>1. asked \in BOOLEAN /\ lost \in BOOLEAN
  BY Zenon
<1>2. /\ task = "start" /\ connection = "disconnected" /\ keyLife \in 0..Life
      /\ slept \in {NoTask} \cup 0..(Interval + 1) /\ delays \in 0..MaxExponent
      /\ missed \in 0..MaxRaised /\ drops \in 0..MaxDrops /\ raised \in 0..MaxRaised
  BY DEF NoTask, Interval
<1>3. PrivateType
  BY <1>1, <1>2 DEF PrivateType
<1>4. KeyStaysLive /\ StoppedMeansDeleted /\ NothingBefore /\ MissedWereRaised /\ KeyCovered
  BY DEF KeyStaysLive, StoppedMeansDeleted, NothingBefore, MissedWereRaised, KeyCovered, Running
<1>5. QED
  BY <1>3, <1>4 DEF PrivateInv

\* The two flags stay flags.
LEMMA FlagsStep ==
  ASSUME asked \in BOOLEAN, lost \in BOOLEAN, [PrivateNext]_privateVars
  PROVE  asked' \in BOOLEAN /\ lost' \in BOOLEAN
<1> USE DEF keyVars
<1>1. CASE StartKey \/ RenewKey \/ StopKey
  BY <1>1, Zenon DEF StartKey, RenewKey, StopKey
<1>2. CASE PrivateTick \/ Loop \/ OpenConnection \/ BreakConnection
  BY <1>2, Zenon DEF PrivateTick, Loop, OpenConnection, BreakConnection
<1>3. CASE CloseNormally \/ Frame \/ WakeUp \/ HandlerStop \/ ManagerStop
  BY <1>3, Zenon DEF CloseNormally, Frame, WakeUp, HandlerStop, ManagerStop
<1>4. CASE UNCHANGED privateVars
  BY <1>4, Zenon DEF privateVars
<1>5. QED
  BY <1>1, <1>2, <1>3, <1>4 DEF PrivateNext

\* A step of either task keeps the key alive between two PUTs, and its account.
LEMMA PrivateStep ==
  ASSUME Refresh + 1 < Life, PrivateInv, [PrivateNext]_privateVars
  PROVE  PrivateInv'
<1> DEFINE Counters ==
      /\ task \in {"start", "loop", "connect", "open", "sleep", "release",
                   "stopped", "dead", "cancelled"}
      /\ connection \in {"disconnected", "connecting", "connected", "reconnecting", "stopped"}
      /\ keyLife \in 0..Life
      /\ slept \in {NoTask} \cup 0..(Interval + 1)
      /\ delays \in 0..MaxExponent /\ (task = "open" => delays = 0)
      /\ missed \in 0..MaxRaised /\ drops \in 0..MaxDrops /\ raised \in 0..MaxRaised
           Kept == /\ StoppedMeansDeleted /\ NothingBefore /\ MissedWereRaised /\ KeyCovered
<1>0. Counters /\ Kept /\ asked \in BOOLEAN /\ lost \in BOOLEAN
  BY DEF PrivateInv, PrivateType
<1>a. Counters' /\ Kept'
  <2> USE <1>0, PrivateStreamAssumption
      DEF StoppedMeansDeleted, NothingBefore, MissedWereRaised, KeyCovered, Running, NoTask,
          Interval, Raise, keyVars
  <2>1. CASE StartKey
    BY <2>1 DEF StartKey
  <2>2. CASE RenewKey
    BY <2>2 DEF RenewKey
  <2>3. CASE StopKey
    BY <2>3 DEF StopKey, NoKey
  <2>4. CASE PrivateTick
    BY <2>4 DEF PrivateTick
  <2>5. CASE Loop
    BY <2>5 DEF Loop
  <2>6. CASE OpenConnection
    BY <2>6 DEF OpenConnection, ResetBackoff
  <2>7. CASE BreakConnection
    BY <2>7 DEF BreakConnection, OnError, AfterConnection
  <2>8. CASE CloseNormally
    BY <2>8 DEF CloseNormally, AfterConnection
  <2>9. CASE Frame \/ WakeUp
    BY <2>9 DEF Frame, WakeUp
  <2>10. CASE HandlerStop \/ ManagerStop
    BY <2>10 DEF HandlerStop, ManagerStop
  <2>11. CASE UNCHANGED privateVars
    BY <2>11 DEF privateVars
  <2>12. QED
    BY <2>1, <2>2, <2>3, <2>4, <2>5, <2>6, <2>7, <2>8, <2>9, <2>10, <2>11 DEF PrivateNext
<1>1. asked' \in BOOLEAN /\ lost' \in BOOLEAN
  BY <1>0, FlagsStep
<1>2. PrivateType'
  BY <1>a, <1>1 DEF PrivateType
<1>3. KeyStaysLive'
  <2>1. KeyCovered' /\ slept' \in {NoTask} \cup 0..(Refresh + 1) /\ keyLife' \in 0..Life
    BY <1>a DEF Interval
  <2>2. Refresh \in Nat /\ Life \in Nat /\ Refresh + 1 < Life
    BY PrivateStreamAssumption
  <2>3. QED
    BY <2>1, <2>2 DEF KeyStaysLive, KeyCovered
<1>4. QED
  BY <1>a, <1>2, <1>3 DEF PrivateInv

\* ListenKeyManager with its deployed settings, where a key outlives the interval
\* of its keepalives and one late PUT: as long as no keepalive fails, the handler
\* never connects with a dead key, and a handler that has stopped leaves none.
THEOREM PrivateInvariant ==
  ASSUME Refresh + 1 < Life
  PROVE  PrivateSpec => []PrivateInv
BY PrivateInitInv, PrivateStep, PTL DEF PrivateSpec
-----------------------------------------------------------------------------
\* AccountStream.

Event == [kind : {"position", "delta"}, amount : Nat]

\* What the exchange sends for a change is positions and differences, and without
\* a deposit the new balance alone.
LEMMA EventsSent ==
  ASSUME Amounts \subseteq Nat, ledger \in Amounts, NEW change \in Changes,
         NEW new \in Amounts \ {ledger}, change = "deposit" => new > ledger,
         NEW batch \in EventsOf(change, new), Changes \subseteq {"trade", "deposit"}
  PROVE  /\ batch \in Seq(Event)
         /\ change # "deposit" => batch = <<Position(new)>>
<1>1. Position(new) \in Event
  BY DEF Position, Event
<1>a. \A a, b \in Event : <<a>> \in Seq(Event) /\ <<a, b>> \in Seq(Event)
  OBVIOUS
<1>2. CASE change = "trade" \/ market = "futures"
  <2>1. batch = <<Position(new)>>
    BY <1>2 DEF EventsOf
  <2>2. QED
    BY <1>1, <1>a, <2>1
<1>3. CASE change # "trade" /\ market # "futures"
  <2>1. change = "deposit" /\ new - ledger \in Nat
    BY <1>3
  <2>2. Delta(new - ledger) \in Event
    BY <2>1 DEF Delta, Event
  <2>3. batch \in {<<Position(new), Delta(new - ledger)>>, <<Delta(new - ledger), Position(new)>>}
    BY <1>3 DEF EventsOf
  <2>4. QED
    BY <1>1, <1>a, <2>1, <2>2, <2>3
<1>4. QED
  BY <1>2, <1>3

\* The flags stay flags.
LEMMA StreamFlags ==
  ASSUME lapsed \in BOOLEAN, subscribed \in BOOLEAN, stop \in BOOLEAN, fresh \in BOOLEAN,
         [AccountNext]_accountVars
  PROVE  /\ lapsed' \in BOOLEAN /\ subscribed' \in BOOLEAN /\ stop' \in BOOLEAN
         /\ fresh' \in BOOLEAN
<1> USE DEF exchangeVars, listenKeyVars, connVars, taskVars, statusVars, balanceVars
<1>1. CASE Change \/ Revoke \/ KeyExpires
  BY <1>1, Zenon DEF Change, Revoke, KeyExpires
<1>2. CASE Start \/ CreateKey \/ MarkConnecting
  BY <1>2, Zenon DEF Start, CreateKey, MarkConnecting, SetStatus, SetStatus
<1>3. CASE Dial \/ Ack \/ MarkConnected
  BY <1>3, Zenon DEF Dial, Ack, MarkConnected, SetStatus
<1>4. CASE Refuse \/ LogRefusal \/ Receive \/ Close
  BY <1>4, Zenon DEF Refuse, LogRefusal, Receive, Close, SetStatus, HandleEvent
<1>5. CASE NormalClose \/ MarkReconnecting \/ Backoff
  BY <1>5, Zenon DEF NormalClose, MarkReconnecting, Backoff, SetStatus
<1>6. CASE Leave \/ Keepalive \/ Stop
  BY <1>6, Zenon DEF Leave, Keepalive, Stop, SetStatus
<1>7. CASE Crash \/ ExpireStatus \/ ExpireBalances
  BY <1>7, Zenon DEF Crash, ExpireStatus, ExpireBalances
<1>8. CASE Age
  BY <1>8, Zenon DEF Age
<1>9. CASE UNCHANGED accountVars
  BY <1>9, Zenon DEF accountVars
<1>10. QED
  BY <1>1, <1>2, <1>3, <1>4, <1>5, <1>6, <1>7, <1>8, <1>9 DEF AccountNext

\* The events on the connection, and the history of the changes.
LEMMA WireStep ==
  ASSUME ledger \in Amounts, wire \in Seq(Event), changes \in Seq(Changes),
         [AccountNext]_accountVars
  PROVE  wire' \in Seq(Event) /\ changes' \in Seq(Changes)
<1> USE DEF exchangeVars, listenKeyVars, connVars, taskVars, statusVars, balanceVars
<1>1. CASE Change
  <2>1. PICK change \in Changes, new \in Amounts \ {ledger} :
          /\ change = "deposit" => new > ledger
          /\ \E batch \in EventsOf(change, new) :
               wire' = wire \o batch \/ UNCHANGED wire
          /\ changes' = Append(changes, change)
    BY <1>1 DEF Change
  <2>2. \A batch \in EventsOf(change, new) : batch \in Seq(Event)
    BY <2>1, EventsSent, StreamAssumption
  <2>3. wire' \in Seq(Event)
    BY <2>1, <2>2, ConcatProperties
  <2>4. changes' \in Seq(Changes)
    BY <2>1, AppendProperties
  <2>5. QED
    BY <2>3, <2>4
<1>2. CASE Receive
  <2>1. changes' = changes /\ wire # <<>> /\ wire' \in {Tail(wire), <<>>}
    BY <1>2 DEF Receive
  <2>2. Tail(wire) \in Seq(Event) /\ <<>> \in Seq(Event)
    BY <2>1, HeadTailProperties
  <2>3. QED
    BY <2>1, <2>2
<1>3. CASE changes' = changes /\ (wire' = wire \/ wire' = <<>>)
  <2>1. <<>> \in Seq(Event)
    OBVIOUS
  <2>2. QED
    BY ONLY <1>3, <2>1, wire \in Seq(Event), changes \in Seq(Changes)
<1>4. QED
  <2>1. CASE Revoke \/ KeyExpires \/ Start \/ CreateKey \/ MarkConnecting \/ Dial
    BY <2>1, <1>3 DEF Revoke, KeyExpires, Start, CreateKey, MarkConnecting, Dial
  <2>2. CASE Ack \/ MarkConnected \/ Refuse \/ Close \/ NormalClose \/ MarkReconnecting
    BY <2>2, <1>3 DEF Ack, MarkConnected, Refuse, Close, NormalClose, MarkReconnecting
  <2>3. CASE Backoff \/ Leave \/ LogRefusal \/ Keepalive \/ Stop \/ Crash
    BY <2>3, <1>3 DEF Backoff, Leave, LogRefusal, Keepalive, Stop, Crash
  <2>4. CASE ExpireStatus \/ ExpireBalances \/ Age \/ UNCHANGED accountVars
    BY <2>4, <1>3 DEF ExpireStatus, ExpireBalances, Age, accountVars
  <2>5. QED
    BY <1>1, <1>2, <2>1, <2>2, <2>3, <2>4 DEF AccountNext

\* The labels: every variable but the flags, the sequences and the amounts.
Labels ==
  /\ market \in {"spot", "futures"} /\ credentials \in {"valid", "revoked"}
  /\ key \in {None, "live", "expired"}
  /\ pc \in {"off", "creating", "connecting", "dialing", "asking", "accepted", "refused",
             "reporting", "streaming", "failed", "backoff", "leaving", "down", "dead"}
  /\ attempt \in 0..Overflow
  /\ status \in Statuses /\ cached \in Statuses \cup {None}
  /\ incidents \subseteq {"stream_auth_error", "stream_keepalive_failed"}
  /\ faults \subseteq Faults

LEMMA LabelsStep ==
  ASSUME Labels, [AccountNext]_accountVars
  PROVE  Labels'
<1> USE StreamAssumption DEF Labels, Statuses, Fault, exchangeVars, listenKeyVars, connVars, taskVars, statusVars, balanceVars
<1>1. CASE Change
  BY <1>1 DEF Change
<1>2. CASE Revoke
  BY <1>2 DEF Revoke
<1>3. CASE KeyExpires
  BY <1>3 DEF KeyExpires
<1>4. CASE Start
  BY <1>4 DEF Start, SetStatus
<1>5. CASE CreateKey
  BY <1>5 DEF CreateKey
<1>6. CASE MarkConnecting
  BY <1>6 DEF MarkConnecting, SetStatus
<1>7. CASE Dial
  BY <1>7 DEF Dial
<1>8. CASE Ack
  BY <1>8 DEF Ack
<1>9. CASE MarkConnected
  <2>1. attempt' \in {0, attempt} /\ pc' = "streaming"
    BY <1>9 DEF MarkConnected
  <2>2. /\ UNCHANGED <<market, credentials, key, incidents>>
        /\ SetStatus("connected")
    BY <1>9 DEF MarkConnected
  <2>3. attempt' \in 0..Overflow
    BY <2>1
  <2>4. /\ status' \in Statuses /\ cached' \in Statuses \cup {None}
        /\ faults' \subseteq Faults
    BY <2>2 DEF SetStatus
  <2>5. QED
    BY <2>1, <2>2, <2>3, <2>4
<1>10. CASE Refuse
  BY <1>10 DEF Refuse, SetStatus
<1>10a. CASE LogRefusal
  BY <1>10a DEF LogRefusal
<1>11. CASE Receive
  BY <1>11 DEF Receive, HandleEvent
<1>12. CASE Close
  BY <1>12 DEF Close
<1>13. CASE NormalClose
  BY <1>13 DEF NormalClose
<1>14. CASE MarkReconnecting
  BY <1>14 DEF MarkReconnecting, SetStatus
<1>15. CASE Backoff
  BY <1>15 DEF Backoff
<1>16. CASE Leave
  BY <1>16 DEF Leave, SetStatus
<1>17. CASE Keepalive
  BY <1>17 DEF Keepalive
<1>18. CASE Stop
  BY <1>18 DEF Stop
<1>19. CASE Crash
  BY <1>19 DEF Crash
<1>20. CASE ExpireStatus
  BY <1>20 DEF ExpireStatus
<1>21. CASE ExpireBalances
  BY <1>21 DEF ExpireBalances
<1>22. CASE Age
  BY <1>22 DEF Age
<1>23. CASE UNCHANGED accountVars
  BY <1>23 DEF accountVars
<1>24. QED
  BY <1>1, <1>2, <1>3, <1>4, <1>5, <1>6, <1>7, <1>8, <1>9, <1>10, <1>10a, <1>11, <1>12, <1>13, <1>14, <1>15, <1>16, <1>17, <1>18, <1>19, <1>20, <1>21, <1>22, <1>23 DEF AccountNext

\* Where the listener is tells what it has, what was refused, and what the readers
\* of its status see.
LEMMA PlacesStep ==
  ASSUME Labels, PathOfMarket, BackoffIsMarked, RefusedByExchange, AcceptedIsSubscribed,
         StreamingIsSubscribed, AuthErrorIsRefusal, [AccountNext]_accountVars
  PROVE  /\ PathOfMarket' /\ BackoffIsMarked' /\ RefusedByExchange' /\ AcceptedIsSubscribed'
         /\ StreamingIsSubscribed' /\ AuthErrorIsRefusal'
<1> USE StreamAssumption
    DEF Labels, Statuses, Fault, PathOfMarket, BackoffIsMarked, RefusedByExchange,
        AcceptedIsSubscribed, StreamingIsSubscribed, AuthErrorIsRefusal,
        exchangeVars, listenKeyVars, connVars, taskVars, statusVars, balanceVars
<1>1. CASE Change
  BY <1>1 DEF Change
<1>2. CASE Revoke
  BY <1>2 DEF Revoke
<1>3. CASE KeyExpires
  BY <1>3 DEF KeyExpires
<1>4. CASE Start
  BY <1>4 DEF Start, SetStatus
<1>5. CASE CreateKey
  BY <1>5 DEF CreateKey
<1>6. CASE MarkConnecting
  BY <1>6 DEF MarkConnecting, SetStatus
<1>7. CASE Dial
  BY <1>7 DEF Dial
<1>8. CASE Ack
  BY <1>8 DEF Ack
<1>9. CASE MarkConnected
  BY <1>9 DEF MarkConnected, SetStatus
<1>10. CASE Refuse
  BY <1>10 DEF Refuse, SetStatus
<1>10a. CASE LogRefusal
  BY <1>10a DEF LogRefusal
<1>11. CASE Receive
  BY <1>11 DEF Receive, HandleEvent
<1>12. CASE Close
  BY <1>12 DEF Close
<1>13. CASE NormalClose
  BY <1>13 DEF NormalClose
<1>14. CASE MarkReconnecting
  BY <1>14 DEF MarkReconnecting, SetStatus
<1>15. CASE Backoff
  BY <1>15 DEF Backoff
<1>16. CASE Leave
  BY <1>16 DEF Leave, SetStatus
<1>17. CASE Keepalive
  BY <1>17 DEF Keepalive
<1>18. CASE Stop
  BY <1>18 DEF Stop
<1>19. CASE Crash
  BY <1>19 DEF Crash
<1>20. CASE ExpireStatus
  BY <1>20 DEF ExpireStatus
<1>21. CASE ExpireBalances
  BY <1>21 DEF ExpireBalances
<1>22. CASE Age
  BY <1>22 DEF Age
<1>23. CASE UNCHANGED accountVars
  BY <1>23 DEF accountVars
<1>24. QED
  BY <1>1, <1>2, <1>3, <1>4, <1>5, <1>6, <1>7, <1>8, <1>9, <1>10, <1>10a, <1>11, <1>12, <1>13, <1>14, <1>15, <1>16, <1>17, <1>18, <1>19, <1>20, <1>21, <1>22, <1>23 DEF AccountNext
-----------------------------------------------------------------------------
\* What is not a change of the balance leaves the account's past alone, and writes
\* nothing but what it has received.
LEMMA WrittenFrom ==
  ASSUME wire \in Seq(Event), [AccountNext]_accountVars, ~Change
  PROVE  /\ UNCHANGED <<market, ledger, past, changes>>
         /\ \/ wire' \in {wire, <<>>}
            \/ wire # <<>> /\ wire' = Tail(wire)
         /\ \/ row' = row
            \/ wire # <<>> /\ row' = FreeOf(Head(wire))
         /\ \/ cache' \in {cache, None}
            \/ wire # <<>> /\ cache' = FreeOf(Head(wire))
<1> USE DEF exchangeVars, listenKeyVars, connVars, taskVars, statusVars, balanceVars
<1>1. CASE Receive
  BY <1>1 DEF Receive, HandleEvent
<1>2. CASE Revoke \/ KeyExpires \/ Start \/ CreateKey \/ MarkConnecting \/ Dial
  BY <1>2 DEF Revoke, KeyExpires, Start, CreateKey, MarkConnecting, Dial
<1>3. CASE Ack \/ MarkConnected \/ Refuse \/ Close \/ NormalClose \/ MarkReconnecting
  BY <1>3 DEF Ack, MarkConnected, Refuse, Close, NormalClose, MarkReconnecting
<1>4. CASE Backoff \/ Leave \/ LogRefusal \/ Keepalive \/ Stop \/ Crash
  BY <1>4 DEF Backoff, Leave, LogRefusal, Keepalive, Stop, Crash
<1>5. CASE ExpireStatus \/ ExpireBalances \/ Age \/ UNCHANGED accountVars
  BY <1>5 DEF ExpireStatus, ExpireBalances, Age, accountVars
<1>6. QED
  BY <1>1, <1>2, <1>3, <1>4, <1>5 DEF AccountNext

\* A change of the balance writes nothing; what it sends comes after what is on
\* its way, and is the new balance unless it was a deposit.
LEMMA ChangeSends ==
  ASSUME ledger \in Amounts, wire \in Seq(Event), changes \in Seq(Changes), Change
  PROVE  /\ UNCHANGED <<market, row, cache>>
         /\ ledger' \in Amounts /\ past' = past \cup {ledger'}
         /\ Contains(changes, "deposit") => Contains(changes', "deposit")
         /\ \/ Contains(changes', "deposit") \/ wire' = wire
            \/ wire' = Append(wire, Position(ledger'))
<1>1. PICK change \in Changes, new \in Amounts \ {ledger} :
        /\ change = "deposit" => new > ledger
        /\ \E batch \in EventsOf(change, new) : wire' = wire \o batch \/ UNCHANGED wire
        /\ ledger' = new /\ past' = past \cup {new}
        /\ changes' = Append(changes, change)
  BY DEF Change
<1>2. UNCHANGED <<market, row, cache>>
  BY DEF Change, balanceVars
<1>3. /\ Len(changes') = Len(changes) + 1 /\ Len(changes) \in Nat
      /\ changes'[Len(changes) + 1] = change
      /\ \A i \in 1..Len(changes) : changes'[i] = changes[i]
  BY <1>1, AppendProperties
<1>4. Contains(changes, "deposit") => Contains(changes', "deposit")
  BY <1>3 DEF Contains
<1>5. CASE change = "deposit"
  <2>1. Contains(changes', "deposit")
    BY <1>3, <1>5 DEF Contains
  <2>2. QED
    BY <1>1, <1>2, <2>1
<1>6. CASE change # "deposit"
  <2>1. \A batch \in EventsOf(change, new) : batch = <<Position(new)>>
    BY <1>1, <1>6, EventsSent, StreamAssumption
  <2>2. wire \o <<Position(new)>> = Append(wire, Position(new))
    <3>1. Position(new) \in Event
      BY <1>1, StreamAssumption DEF Position, Event
    <3>2. QED
      BY <3>1, AppendIsConcat
  <2>3. wire' = wire \/ wire' = Append(wire, Position(new))
    BY <1>1, <2>1, <2>2
  <2>4. QED
    BY <1>1, <1>2, <1>4, <2>3
<1>7. QED
  BY <1>5, <1>6

Balances ==
  /\ ledger \in Amounts /\ past \subseteq Amounts
  /\ row \in Nat \cup {None} /\ cache \in Nat \cup {None}

\* The balances that are written are numbers, and without a deposit the account
\* has had them.
LEMMA BalancesStep ==
  ASSUME Balances, market \in {"spot", "futures"}, wire \in Seq(Event),
         changes \in Seq(Changes), WrittenWasTrue, [AccountNext]_accountVars
  PROVE  Balances' /\ WrittenWasTrue'
<1>1. CASE Change
  <2> DEFINE e == Position(ledger')
  <2>1. /\ UNCHANGED <<market, row, cache>>
        /\ ledger' \in Amounts /\ past' = past \cup {ledger'}
        /\ Contains(changes, "deposit") => Contains(changes', "deposit")
        /\ Contains(changes', "deposit") \/ wire' = wire \/ wire' = Append(wire, e)
    BY <1>1, ChangeSends DEF Balances
  <2>2. Balances'
    BY <2>1 DEF Balances
  <2>3. ASSUME market = "spot", ~Contains(changes', "deposit")
        PROVE  /\ row \in past' \cup {None} /\ cache \in past' \cup {None}
               /\ \A i \in 1..Len(wire') : wire'[i].amount \in past'
    <3>1. /\ row \in past \cup {None} /\ cache \in past \cup {None}
          /\ \A i \in 1..Len(wire) : wire[i].amount \in past
      BY <2>1, <2>3 DEF WrittenWasTrue
    <3>2. CASE wire' = wire
      BY <2>1, <3>1, <3>2
    <3>3. CASE wire' = Append(wire, e)
      <4>1. e \in Event /\ e.amount = ledger'
        BY <2>1, StreamAssumption DEF Position, Event
      <4>2. /\ Len(wire') = Len(wire) + 1 /\ Len(wire) \in Nat
            /\ wire'[Len(wire) + 1] = e /\ \A i \in 1..Len(wire) : wire'[i] = wire[i]
        BY <3>3, <4>1, AppendProperties
      <4>3. \A i \in 1..Len(wire') : wire'[i].amount \in past'
        BY <2>1, <3>1, <4>1, <4>2
      <4>4. QED
        BY <2>1, <3>1, <4>3
    <3>4. QED
      BY <2>1, <2>3, <3>2, <3>3
  <2>4. QED
    BY <2>1, <2>2, <2>3 DEF WrittenWasTrue
<1>2. CASE ~Change
  <2>1. /\ UNCHANGED <<market, ledger, past, changes>>
        /\ wire' \in {wire, <<>>} \/ (wire # <<>> /\ wire' = Tail(wire))
        /\ row' = row \/ (wire # <<>> /\ row' = FreeOf(Head(wire)))
        /\ cache' \in {cache, None} \/ (wire # <<>> /\ cache' = FreeOf(Head(wire)))
    BY <1>2, WrittenFrom
  <2>2. wire # <<>> => /\ Head(wire) \in Event /\ Head(wire) = wire[1]
                       /\ Len(wire) \in Nat \ {0} /\ Len(Tail(wire)) = Len(wire) - 1
                       /\ \A i \in 1..Len(Tail(wire)) : Tail(wire)[i] = wire[i + 1]
    BY HeadTailProperties, EmptySeq, LenProperties
  <2>3. wire # <<>> => FreeOf(Head(wire)) \in Nat
    BY <2>2 DEF FreeOf, Event
  <2>4. Balances'
    BY <2>1, <2>3 DEF Balances
  <2>5. ASSUME market = "spot", ~Contains(changes, "deposit")
        PROVE  /\ row' \in past \cup {None} /\ cache' \in past \cup {None}
               /\ \A i \in 1..Len(wire') : wire'[i].amount \in past
    <3>1. /\ row \in past \cup {None} /\ cache \in past \cup {None}
          /\ \A i \in 1..Len(wire) : wire[i].amount \in past
      BY <2>5 DEF WrittenWasTrue
    <3>2. wire # <<>> => FreeOf(Head(wire)) \in past
      BY <2>2, <2>5, <3>1 DEF FreeOf
    <3>3. \A i \in 1..Len(wire') : wire'[i].amount \in past
      <4>1. CASE wire' = wire
        BY <3>1, <4>1
      <4>2. CASE wire' = <<>>
        BY <4>2
      <4>3. CASE wire # <<>> /\ wire' = Tail(wire)
        <5>1. ASSUME NEW i \in 1..Len(wire') PROVE wire'[i].amount \in past
          <6>1. wire'[i] = wire[i + 1] /\ i + 1 \in 1..Len(wire)
            BY <2>2, <4>3
          <6>2. QED
            BY <3>1, <6>1
        <5>2. QED
          BY <5>1
      <4>4. QED
        BY <2>1, <4>1, <4>2, <4>3
    <3>4. QED
      BY <2>1, <3>1, <3>2, <3>3
  <2>6. QED
    BY <2>1, <2>4, <2>5 DEF WrittenWasTrue
<1>3. QED
  BY <1>1, <1>2

LEMMA AccountTypeParts ==
  AccountType <=> /\ Labels /\ Balances /\ wire \in Seq(Event) /\ changes \in Seq(Changes)
                  /\ lapsed \in BOOLEAN /\ subscribed \in BOOLEAN /\ stop \in BOOLEAN
                  /\ fresh \in BOOLEAN
BY DEF AccountType, Labels, Balances, Event

LEMMA AccountInitInv == AccountInit => AccountInv
<1> SUFFICES ASSUME AccountInit PROVE AccountInv
  OBVIOUS
<1>1. Labels
  BY StreamAssumption DEF AccountInit, Labels, Statuses
<1>2. Balances
  BY StreamAssumption DEF AccountInit, Balances
<1>3. wire \in Seq(Event) /\ changes \in Seq(Changes) /\ wire = <<>>
  BY DEF AccountInit
<1>4. /\ lapsed \in BOOLEAN /\ subscribed \in BOOLEAN /\ stop \in BOOLEAN /\ fresh \in BOOLEAN
  BY Zenon DEF AccountInit
<1>5. AccountType
  BY <1>1, <1>2, <1>3, <1>4, AccountTypeParts
<1>6. /\ BackoffIsVisible /\ AuthErrorIsRefusal /\ StreamingIsSubscribed /\ PathOfMarket
      /\ BackoffIsMarked /\ RefusedByExchange /\ AcceptedIsSubscribed
  BY DEF AccountInit, BackoffIsVisible, AuthErrorIsRefusal, StreamingIsSubscribed,
         PathOfMarket, BackoffIsMarked, RefusedByExchange, AcceptedIsSubscribed
<1>7. WrittenWasTrue /\ ReportedWasTrue
  BY DEF AccountInit, WrittenWasTrue, ReportedWasTrue, Reported
<1>8. QED
  BY <1>5, <1>6, <1>7 DEF AccountInv

LEMMA AccountStep == AccountInv /\ [AccountNext]_accountVars => AccountInv'
<1> SUFFICES ASSUME AccountInv, [AccountNext]_accountVars PROVE AccountInv'
  OBVIOUS
<1>0. /\ Labels /\ Balances /\ wire \in Seq(Event) /\ changes \in Seq(Changes)
      /\ lapsed \in BOOLEAN /\ subscribed \in BOOLEAN /\ stop \in BOOLEAN /\ fresh \in BOOLEAN
      /\ PathOfMarket /\ BackoffIsMarked /\ RefusedByExchange /\ AcceptedIsSubscribed
      /\ StreamingIsSubscribed /\ AuthErrorIsRefusal /\ WrittenWasTrue
  BY AccountTypeParts DEF AccountInv
<1>1. Labels'
  BY <1>0, LabelsStep
<1>2. wire' \in Seq(Event) /\ changes' \in Seq(Changes)
  BY <1>0, WireStep DEF Balances
<1>3. Balances' /\ WrittenWasTrue'
  BY <1>0, BalancesStep DEF Labels
<1>4. /\ lapsed' \in BOOLEAN /\ subscribed' \in BOOLEAN /\ stop' \in BOOLEAN /\ fresh' \in BOOLEAN
  BY <1>0, StreamFlags
<1>5. AccountType'
  BY <1>1, <1>2, <1>3, <1>4 DEF AccountType, Labels, Balances, Event
<1>6. /\ PathOfMarket' /\ BackoffIsMarked' /\ RefusedByExchange' /\ AcceptedIsSubscribed'
      /\ StreamingIsSubscribed' /\ AuthErrorIsRefusal'
  BY <1>0, PlacesStep
<1>7. BackoffIsVisible'
  BY <1>6 DEF BackoffIsMarked, BackoffIsVisible, StreamStatus
<1>8. ReportedWasTrue'
  BY <1>3 DEF WrittenWasTrue, ReportedWasTrue, Reported
<1>9. QED
  BY <1>3, <1>5, <1>6, <1>7, <1>8 DEF AccountInv

\* AccountStreamListener and its readers (facades/account.py): at every await, for
\* any number of changes, undelivered events and kinds of failure, what is shown of
\* the stream and of the balance is so.
THEOREM AccountInvariant == AccountSpec => []AccountInv
BY AccountInitInv, AccountStep, PTL DEF AccountSpec

-----------------------------------------------------------------------------
\* OrderReconciliation.

Core == TypeOK /\ FilledHasOrder /\ ReportsTell /\ RowsAreThere /\ ReadsFit /\ FillsFit

LEMMA CoreInit == Init => Core
<1> SUFFICES ASSUME Init PROVE Core
  OBVIOUS
<1> USE ReconciliationConstants DEF Init
<1>1. TypeOK
  <2>1. /\ order \in [made : BOOLEAN, filled : 0..OrigQty] /\ reports \in Seq(Report)
        /\ job \in LC!JobStates \cup {"none"}
    BY DEF LC!JobStates
  <2>2. Len(reports) = 0 /\ fillIds \subseteq FillId
    OBVIOUS
  <2>3. /\ executed \in 0..OrigQty /\ clock \in Nat /\ trades \in Nat /\ booked \in Nat
        /\ answer \in 0..OrigQty /\ rfilled \in 0..OrigQty
        /\ failures \in 0..MaxFailures /\ replays \in 0..MaxFailures
    OBVIOUS
  <2>4. rnext \in 0..Len(reports) /\ spos \in 0..Len(reports)
    BY <2>2
  <2>5. QED
    BY <2>1, <2>2, <2>3, <2>4 DEF TypeOK
<1>2. ReportsTell
  BY DEF ReportsTell
<1>3. FilledHasOrder /\ RowsAreThere /\ ReadsFit
  BY DEF FilledHasOrder, RowsAreThere, ReadsFit
<1>4. FillsFit
  BY DEF FillsFit, Level, Pending
<1>5. QED
  BY <1>1, <1>2, <1>3, <1>4 DEF Core

\* The parts of the types that are numbers.
LEMMA Numbers ==
  ASSUME TypeOK
  PROVE  /\ executed \in 0..OrigQty /\ executed \in Nat /\ clock \in Nat /\ trades \in Nat
         /\ OrigQty \in Nat \ {0}
         /\ order = [made |-> order.made, filled |-> order.filled]
         /\ order.made \in BOOLEAN /\ order.filled \in 0..OrigQty /\ order.filled \in Nat
         /\ booked \in Nat /\ answer \in 0..OrigQty /\ answer \in Nat /\ rfilled \in Nat
         /\ replays \in 0..MaxFailures /\ failures \in 0..MaxFailures /\ failures \in Nat
         /\ Len(reports) \in Nat /\ \A k \in 1..Len(reports) : reports[k] \in Report
<1>1. order = [made |-> order.made, filled |-> order.filled]
      /\ order.made \in BOOLEAN /\ order.filled \in 0..OrigQty
  BY DEF TypeOK
<1>2. reports \in Seq(Report)
  BY DEF TypeOK
<1>3. Len(reports) \in Nat /\ \A k \in 1..Len(reports) : reports[k] \in Report
  BY ONLY <1>2
<1>4. QED
  BY <1>1, <1>3, ReconciliationConstants DEF TypeOK

LEMMA ReportNumbers ==
  ASSUME NEW r \in Report
  PROVE  r.cum \in 0..OrigQty /\ r.leg \in 0..OrigQty /\ r.ms \in Nat /\ r.trade \in Nat
BY DEF Report

\* Between reports the fills add up to the order's quantity.
LEMMA CoreBalances == Core => OrderInv
<1> SUFFICES ASSUME Core PROVE OrderInv
  OBVIOUS
<1>1. /\ executed \in Nat /\ order.filled \in Nat /\ booked \in Nat /\ answer \in Nat
      /\ rpc # "idle" => Current.cum \in Nat /\ Current.cum <= executed
  <2>1. rpc # "idle" => rnext \in 1..Len(reports)
    BY DEF Core, TypeOK, RowsAreThere
  <2>2. QED
    BY <2>1, Numbers, ReportNumbers DEF Core, Current, ReportsTell
<1>2. NeverOverbooked
  BY <1>1 DEF Core, NeverOverbooked, FillsFit, ReadsFit, Level, Pending
<1>3. BooksBalance
  BY <1>1 DEF Core, BooksBalance, FillsFit, Level, Pending
<1>4. QED
  BY <1>2, <1>3 DEF Core, OrderInv

\* A task's report is one of the stream, and what it has read is a quantity.
LEMMA CurrentIsAReport ==
  ASSUME TypeOK, RowsAreThere, ReportsTell, rpc # "idle"
  PROVE  /\ rnext \in 1..Len(reports) /\ Current = reports[rnext] /\ Current \in Report
         /\ Current.cum \in 0..OrigQty /\ Current.leg \in Nat /\ Current.ms \in Nat
         /\ Current.cum <= executed /\ executed \in Nat
         /\ Current.status \in {"PARTIALLY_FILLED", "FILLED"} => Current.leg > 0
         /\ Current.status = "FILLED" => Current.cum = OrigQty
<1>1. rnext \in 1..Len(reports)
  BY DEF TypeOK, RowsAreThere
<1>2. Current \in Report
  BY <1>1 DEF TypeOK, Current
<1>3. QED
  BY <1>1, <1>2, Numbers, ReportNumbers DEF ReportsTell, Current

-----------------------------------------------------------------------------
\* A report is added that tells no more than what was executed: nothing that a
\* task has in hand changes.
LEMMA ReportAdded ==
  ASSUME Core, NEW r \in Report, reports' = Append(reports, r),
         UNCHANGED <<tables, consumer, recon, spos, loop, failures>>,
         executed' \in 0..OrigQty, executed <= executed', trades' \in Nat, trades <= trades',
         xstatus' \in {"none", "NEW", "PARTIALLY_FILLED", "FILLED", "CANCELED"},
         clock' \in Nat, replays' \in 0..MaxFailures,
         r.cum <= executed', r.trade <= trades',
         r.status \in {"PARTIALLY_FILLED", "FILLED"} => r.leg > 0,
         r.status = "FILLED" => r.cum = OrigQty,
         \A k \in 1..Len(reports) :
           reports[k].leg > 0 /\ r.leg > 0 /\ reports[k].trade = r.trade
             => reports[k].cum = r.cum /\ reports[k].ms = r.ms
  PROVE  Core'
<1> DEFINE n == Len(reports)
<1> USE ReconciliationConstants DEF Core, tables, consumer, recon, loop
<1>1. /\ reports \in Seq(Report) /\ n \in Nat /\ reports' \in Seq(Report) /\ Len(reports') = n + 1
      /\ reports'[n + 1] = r /\ \A k \in 1..n : reports'[k] = reports[k] /\ reports[k] \in Report
  BY SMTT(20) DEF TypeOK
<1> HIDE DEF n
<1>2. 1..Len(reports') = 1..n \cup {n + 1}
  BY <1>1
<1>3. rpc # "idle" => Current' = Current
  <2>1. rpc # "idle" => rnext \in 1..n
    BY CurrentIsAReport DEF n
  <2>2. QED
    BY <1>1, <2>1 DEF Current
<1>4. TypeOK'
  <2>1. rnext' \in 0..Len(reports') /\ spos' \in 0..Len(reports')
    BY <1>1 DEF TypeOK, n
  <2>2. QED
    BY <1>1, <2>1 DEF TypeOK
<1>5. ReportsTell'
  <2>1. \A k \in 1..n : reports[k].cum \in Nat /\ reports[k].trade \in Nat /\ executed \in Nat
    <3>1. TypeOK
      OBVIOUS
    <3>2. executed \in Nat
      BY ONLY <3>1, Numbers
    <3>3. \A k \in 1..n : reports[k] \in Report
      BY <1>1
    <3>4. QED
      BY ONLY <3>2, <3>3, ReportNumbers
  <2>2. \A k \in 1..n : /\ reports'[k].cum <= executed' /\ reports'[k].trade <= trades'
                        /\ reports'[k].status \in {"PARTIALLY_FILLED", "FILLED"} => reports'[k].leg > 0
                        /\ reports'[k].status = "FILLED" => reports'[k].cum = OrigQty
    BY <1>1, <2>1, SMTT(20) DEF ReportsTell, TypeOK, n
  <2>3. \A a, b \in 1..n :
          reports'[a].leg > 0 /\ reports'[b].leg > 0 /\ reports'[a].trade = reports'[b].trade
            => reports'[a].cum = reports'[b].cum /\ reports'[a].ms = reports'[b].ms
    BY <1>1 DEF ReportsTell, n
  <2>4. QED
    BY <1>1, <1>2, <2>2, <2>3 DEF ReportsTell, n
<1>6. FilledHasOrder' /\ RowsAreThere'
  BY <1>3 DEF FilledHasOrder, RowsAreThere, OneWriter
<1>7. ReadsFit'
  BY <1>3 DEF ReadsFit, OneWriter, TypeOK
<1>8. FillsFit'
  <2>1. Level' = Level /\ Pending' = Pending
    BY <1>3 DEF Level, Pending
  <2>2. SharedMillisecond => SharedMillisecond'
    <3> SUFFICES ASSUME NEW a \in 1..n, NEW b \in 1..n,
                        reports[a].trade # reports[b].trade, reports[a].ms = reports[b].ms,
                        reports[a].leg > 0, reports[b].leg > 0
                 PROVE  SharedMillisecond'
      BY DEF SharedMillisecond, n
    <3>1. a \in 1..Len(reports') /\ b \in 1..Len(reports')
      BY <1>2
    <3>2. reports'[a] = reports[a] /\ reports'[b] = reports[b]
      BY <1>1
    <3>3. QED
      BY <3>1, <3>2 DEF SharedMillisecond
  <2>3. ASSUME NEW f, \E k \in 1..n : ReconFill(reports[k]) = f /\ reports[k].leg > 0
                                          /\ reports[k].cum <= Level
        PROVE  \E k \in 1..Len(reports') : ReconFill(reports'[k]) = f /\ reports'[k].leg > 0
                                             /\ reports'[k].cum <= Level
    BY <1>1, <1>2, <2>3
  <2>4. QED
    BY <2>1, <2>2, <2>3 DEF FillsFit, OneWriter, n
<1>9. QED
  BY <1>4, <1>5, <1>6, <1>7, <1>8

LEMMA ExchangeStep ==
  ASSUME Core, Accept \/ Trade \/ EndOrder \/ Replay
  PROVE  Core'
<1> USE ReconciliationConstants
<1>0. /\ executed \in 0..OrigQty /\ clock \in Nat /\ trades \in Nat /\ replays \in 0..MaxFailures
      /\ failures \in 0..MaxFailures
      /\ xstatus \in {"none", "NEW", "PARTIALLY_FILLED", "FILLED", "CANCELED"}
      /\ \A k \in 1..Len(reports) : reports[k] \in Report /\ reports[k].trade \in Nat
                                    /\ reports[k].trade <= trades
  BY Numbers, ReportNumbers DEF Core, TypeOK, ReportsTell
<1>1. CASE Accept \/ EndOrder
  <2> DEFINE r == [status |-> xstatus', cum |-> executed, leg |-> 0, ms |-> clock, trade |-> trades]
  <2>1. /\ reports' = Append(reports, r) /\ UNCHANGED <<executed, clock, trades, replays>>
        /\ xstatus' \in {"NEW", "CANCELED"}
        /\ UNCHANGED <<tables, consumer, recon, spos, loop, failures>>
    BY <1>1 DEF Accept, EndOrder, Tell
  <2>2. r \in Report
    BY <1>0, <2>1 DEF Report
  <2>3. QED
    BY <1>0, <2>1, <2>2, ReportAdded
<1>2. CASE Trade
  <2>1. PICK leg \in 1..(OrigQty - executed), gap \in TradeGaps :
          /\ executed' = executed + leg /\ clock' = clock + gap /\ trades' = trades + 1
          /\ xstatus' = IF executed' = OrigQty THEN "FILLED" ELSE "PARTIALLY_FILLED"
          /\ Tell(xstatus', leg)
    BY <1>2 DEF Trade
  <2> DEFINE r == [status |-> xstatus', cum |-> executed', leg |-> leg, ms |-> clock',
                   trade |-> trades']
  <2>2. /\ reports' = Append(reports, r) /\ UNCHANGED replays
        /\ UNCHANGED <<tables, consumer, recon, spos, loop, failures>>
    BY <1>2, <2>1 DEF Trade, Tell
  <2>3. /\ leg \in 1..OrigQty /\ executed' \in 0..OrigQty /\ executed <= executed'
        /\ clock' \in Nat /\ trades' \in Nat /\ trades <= trades'
        /\ xstatus' \in {"FILLED", "PARTIALLY_FILLED"}
    BY <1>0, <2>1
  <2>4. r \in Report
    BY <2>3 DEF Report
  <2>5. \A k \in 1..Len(reports) : reports[k].trade # r.trade
    BY <1>0, <2>1
  <2>6. QED
    <3> HIDE DEF r
    <3>1. /\ r.cum = executed' /\ r.trade = trades' /\ r.leg = leg /\ r.status = xstatus'
      BY DEF r
    <3>2. /\ r.status \in {"PARTIALLY_FILLED", "FILLED"} => r.leg > 0
          /\ r.status = "FILLED" => r.cum = OrigQty
          /\ r.cum <= executed' /\ r.trade <= trades' /\ replays' \in 0..MaxFailures
      BY <1>0, <2>1, <2>2, <2>3, <3>1
    <3>3. QED
      BY <1>0, <2>2, <2>3, <2>4, <2>5, <3>2, ReportAdded
<1>3. CASE Replay
  <2>1. PICK k \in 1..Len(reports) : reports' = Append(reports, reports[k])
    BY <1>3 DEF Replay
  <2>2. /\ UNCHANGED <<tables, consumer, recon, spos, loop, failures>>
        /\ UNCHANGED <<executed, xstatus, clock, trades>> /\ replays' \in 0..MaxFailures
    BY <1>0, <1>3 DEF Replay, exchange, Disturbable
  <2>3. reports[k] \in Report
    BY <1>0
  <2>4. /\ reports[k].cum <= executed /\ reports[k].trade <= trades
        /\ reports[k].status \in {"PARTIALLY_FILLED", "FILLED"} => reports[k].leg > 0
        /\ reports[k].status = "FILLED" => reports[k].cum = OrigQty
        /\ \A a \in 1..Len(reports) :
             reports[a].leg > 0 /\ reports[k].leg > 0 /\ reports[a].trade = reports[k].trade
               => reports[a].cum = reports[k].cum /\ reports[a].ms = reports[k].ms
    BY DEF Core, ReportsTell
  <2>5. QED
    BY <1>0, <2>1, <2>2, <2>3, <2>4, ReportAdded
<1>4. QED
  BY <1>1, <1>2, <1>3

-----------------------------------------------------------------------------
\* A task that neither writes the order nor books a fill: the statuses of the
\* job, and the places the tasks are at.
LEMMA NothingBooked ==
  ASSUME Core, UNCHANGED <<exchange, reports, order, fillIds, booked, answer, recon, spos>>,
         job' \in LC!JobStates \cup {"none"}, old' \in BOOLEAN, reported' \in BOOLEAN,
         failures' \in 0..MaxFailures, replays' \in 0..MaxFailures, failures' = 0 => failures = 0,
         cpc' \in {"post", "submitted", "acknowledged", "order", "fill", "filled", "done"},
         job' = "filled" => order.made,
         \/ cpc' = cpc
         \/ cpc' \in {"submitted", "acknowledged", "order"} /\ cpc \in {"post", "submitted", "acknowledged"}
         \/ cpc' = "done" /\ (cpc = "fill" => failures' > 0)
  PROVE  Core'
<1> USE DEF Core, exchange, recon
<1>1. TypeOK'
  BY DEF TypeOK
<1>2. Current' = Current /\ Level' = Level
  BY DEF Current, Level
<1>3. FilledHasOrder' /\ ReportsTell' /\ ReadsFit'
  BY <1>2 DEF FilledHasOrder, ReportsTell, ReadsFit, OneWriter
<1>4. RowsAreThere'
  BY <1>2, Numbers DEF RowsAreThere, OneWriter
<1>5. FillsFit'
  <2>1. failures' = 0 => Pending' = Pending
    BY DEF Pending
  <2>2. SharedMillisecond' = SharedMillisecond
    BY DEF SharedMillisecond
  <2>3. QED
    BY <1>2, <2>1, <2>2 DEF FillsFit, OneWriter
<1>6. QED
  BY <1>1, <1>3, <1>4, <1>5

\* Any status over any other, and one more fault.
LEMMA Writes ==
  ASSUME TypeOK
  PROVE  /\ Failure => failures' \in 0..MaxFailures /\ failures' > 0
         /\ \A s \in LC!JobStates : SetJob(s) => job' \in {s, "none"} \cap (LC!JobStates \cup {"none"})
BY ReconciliationConstants DEF TypeOK, Failure, Disturbable, SetJob

LEMMA ConsumerCore ==
  ASSUME Core, ConsumerStep
  PROVE  Core'
<1> USE Writes DEF Core
<1>0. failures \in 0..MaxFailures /\ replays \in 0..MaxFailures /\ old \in BOOLEAN /\ reported \in BOOLEAN
      /\ job \in LC!JobStates \cup {"none"} /\ (job = "filled" => order.made)
      /\ (cpc \in {"fill", "filled"} => order.made)
      /\ order.made \in BOOLEAN /\ order.filled \in 0..OrigQty /\ executed \in Nat /\ answer \in 0..OrigQty
      /\ answer <= executed /\ answer \in Nat /\ booked \in Nat
  BY Numbers DEF TypeOK, FilledHasOrder, RowsAreThere, ReadsFit
<1>1. CASE Answered
  <2>1. /\ cpc = "post" /\ cpc' = "submitted" /\ answer' = executed
        /\ UNCHANGED <<exchange, reports, tables, recon, spos, loop, failures, replays>>
    BY <1>1 DEF Answered, CGoto
  <2> USE DEF exchange, tables, recon, loop
  <2>2. TypeOK'
    BY <2>1 DEF TypeOK
  <2>3. Current' = Current /\ Level' = Level /\ Pending' = Pending
    BY <2>1 DEF Current, Level, Pending
  <2>4. FilledHasOrder' /\ ReportsTell'
    BY <2>1 DEF FilledHasOrder, ReportsTell
  <2>5. RowsAreThere'
    BY <2>1, <2>3 DEF RowsAreThere, OneWriter
  <2>6. ReadsFit'
    BY <1>0, <2>1, <2>3 DEF ReadsFit, OneWriter
  <2>7. FillsFit'
    BY <2>1, <2>3 DEF FillsFit, OneWriter, SharedMillisecond
  <2>8. QED
    BY <2>2, <2>4, <2>5, <2>6, <2>7
<1>2. CASE SubmitFailed \/ WriteStatus \/ WriteFilled \/ ConsumerCrash
  <2> USE DEF tables, CGoto, NoFailure, loop
  <2>1. job' \in LC!JobStates \cup {"none"}
    BY <1>0, <1>2 DEF SubmitFailed, WriteStatus, WriteFilled, ConsumerCrash, LC!JobStates
  <2>2. job' = "filled" => order.made
    BY <1>0, <1>2 DEF SubmitFailed, WriteStatus, WriteFilled, ConsumerCrash, SetJob
  <2>3. failures' \in 0..MaxFailures /\ (failures' = 0 => failures = 0)
    BY <1>0, <1>2 DEF SubmitFailed, WriteStatus, WriteFilled, ConsumerCrash
  <2>4. /\ cpc' \in {"post", "submitted", "acknowledged", "order", "fill", "filled", "done"}
        /\ \/ cpc' \in {"submitted", "acknowledged", "order"}
              /\ cpc \in {"post", "submitted", "acknowledged"}
           \/ cpc' = "done" /\ (cpc = "fill" => failures' > 0)
    BY <1>2 DEF SubmitFailed, WriteStatus, WriteFilled, ConsumerCrash
  <2>5. UNCHANGED <<exchange, reports, order, fillIds, booked, answer, recon, spos, loop, replays>>
    BY <1>2 DEF SubmitFailed, WriteStatus, WriteFilled, ConsumerCrash
  <2>6. QED
    BY <1>0, <2>1, <2>2, <2>3, <2>4, <2>5, NothingBooked
<1>3. CASE CreateOrder
  <2> USE DEF CGoto, NoFailure, loop
  <2>1. cpc = "order" /\ UNCHANGED <<exchange, reports, job, fillIds, booked, answer, recon, spos,
                                     loop, replays>>
    BY <1>3 DEF CreateOrder
  <2>2. CASE cpc' = "done" /\ UNCHANGED order /\ (NoFailure \/ Failure)
    BY <1>0, <2>1, <2>2, NothingBooked
  <2>3. CASE /\ ~order.made /\ NoFailure /\ cpc' = "fill"
             /\ order' = [made |-> TRUE, filled |-> answer]
    <3> USE DEF exchange, recon
    <3>1. TypeOK'
      BY <1>0, <2>1, <2>3 DEF TypeOK
    <3>2. rpc \notin {"known", "insert", "qty", "partial", "finalize"} /\ Current' = Current
          /\ order.filled = 0
      BY <2>1, <2>3 DEF RowsAreThere, Current
    <3>3. FilledHasOrder' /\ ReportsTell' /\ RowsAreThere'
      BY <2>1, <2>3, <3>2 DEF FilledHasOrder, ReportsTell, RowsAreThere
    <3>4. ReadsFit'
      BY <1>0, <2>1, <2>3, <3>2 DEF ReadsFit, OneWriter
    <3>5. FillsFit'
      <4>1. /\ Level = 0 /\ Pending = 0 /\ Level' = answer /\ Pending' = answer
            /\ SharedMillisecond' = SharedMillisecond
        BY <2>1, <2>3, <3>2 DEF Level, Pending, SharedMillisecond
      <4>2. failures = 0 /\ OneWriter => booked = 0 /\ fillIds = {}
        BY <1>0, <2>3, <4>1 DEF FillsFit
      <4>3. QED
        BY <1>0, <2>1, <2>3, <4>1, <4>2 DEF FillsFit, OneWriter
    <3>6. QED
      BY <3>1, <3>3, <3>4, <3>5
  <2>4. QED
    BY <1>3, <2>2, <2>3 DEF CreateOrder
<1>4. CASE SaveFill
  <2> USE DEF CGoto, NoFailure, loop
  <2>1. cpc = "fill" /\ UNCHANGED <<exchange, reports, job, order, answer, recon, spos, loop, replays>>
    BY <1>4 DEF SaveFill
  <2>2. CASE Failure /\ cpc' = "done" /\ UNCHANGED <<fillIds, booked>>
    BY <1>0, <2>1, <2>2, NothingBooked
  <2>3. CASE /\ NoFailure /\ cpc' = "filled" /\ booked' = booked + answer
             /\ fillIds' \in {fillIds, fillIds \cup {OrderFill}}
    <3> USE DEF exchange, recon
    <3>1. TypeOK'
      BY <1>0, <2>1, <2>3 DEF TypeOK, FillId
    <3>2. Current' = Current /\ Level' = Level /\ Pending = answer /\ Pending' = 0
          /\ SharedMillisecond' = SharedMillisecond
      BY <2>1, <2>3 DEF Level, Pending, Current, SharedMillisecond
    <3>3. FilledHasOrder' /\ ReportsTell' /\ RowsAreThere' /\ ReadsFit'
      BY <2>1, <2>3, <3>2 DEF FilledHasOrder, ReportsTell, RowsAreThere, ReadsFit, OneWriter
    <3>4. FillsFit'
      <4>1. \A f \in fillIds' : f[1] = "ms" => f \in fillIds
        BY <2>3 DEF OrderFill
      <4>2. booked' + Pending' = booked + Pending
        BY <1>0, <2>3, <3>2
      <4>3. order.made
        BY <1>0, <2>1
      <4>4. QED
        BY <2>1, <2>3, <3>2, <4>1, <4>2, <4>3 DEF FillsFit, OneWriter
    <3>5. QED
      BY <3>1, <3>3, <3>4
  <2>4. QED
    BY <1>0, <1>4, <2>2, <2>3 DEF SaveFill, Book
<1>5. QED
  BY <1>1, <1>2, <1>3, <1>4 DEF ConsumerStep

-----------------------------------------------------------------------------
\* Reconciliation goes on with a report and writes neither the order nor a fill.
LEMMA ReconMoves ==
  ASSUME Core, rpc # "idle",
         UNCHANGED <<exchange, reports, order, fillIds, booked, consumer, rnext, rjob, spos, loop,
                     replays>>,
         job' \in LC!JobStates \cup {"none"}, job' = "filled" => order.made,
         failures' \in 0..MaxFailures, failures' = 0 => failures = 0, rfilled' \in 0..OrigQty,
         rpc' \in {"idle", "known", "insert", "qty", "partial", "finalize"},
         rpc' \in {"known", "insert", "qty", "partial", "finalize"} => order.made,
         rpc' \in {"known", "insert", "qty"} => Current.status \in {"PARTIALLY_FILLED", "FILLED"},
         rpc' \in {"known", "insert"} => rfilled' < Current.cum /\ (OneWriter => rfilled' = order.filled),
         rpc' = "qty" /\ OneWriter => order.filled <= Current.cum,
         failures' = 0 /\ OneWriter =>
           Level' = Level \/ (SharedMillisecond /\ Level <= Level')
  PROVE  Core'
<1> USE DEF Core, exchange, consumer, loop
<1>1. TypeOK'
  BY DEF TypeOK
<1>2. Current' = Current /\ Pending' = Pending /\ SharedMillisecond' = SharedMillisecond
  BY DEF Current, Pending, SharedMillisecond
<1>3. FilledHasOrder' /\ ReportsTell'
  BY DEF FilledHasOrder, ReportsTell
<1>4. RowsAreThere'
  BY <1>2 DEF RowsAreThere, OneWriter
<1>5. ReadsFit'
  BY <1>2 DEF ReadsFit, OneWriter
<1>6. FillsFit'
  <2>1. /\ Level \in Nat /\ Level' \in Nat /\ booked \in Nat /\ Pending \in Nat
        /\ \A k \in 1..Len(reports) : reports[k].cum \in Nat
    BY <1>2, Numbers, ReportNumbers, CurrentIsAReport, SMTT(20) DEF Level, Pending
  <2>2. CASE failures' = 0 /\ OneWriter
    <3>1. Level <= Level' /\ (~SharedMillisecond => Level' = Level)
      BY <2>1, <2>2
    <3>2. /\ booked + Pending <= Level /\ (~SharedMillisecond => booked + Pending = Level)
          /\ (~order.made => fillIds = {})
          /\ \A f \in fillIds : f[1] = "ms" =>
               \E k \in 1..Len(reports) :
                 ReconFill(reports[k]) = f /\ reports[k].leg > 0 /\ reports[k].cum <= Level
      BY <2>2 DEF FillsFit
    <3>3. \A k \in 1..Len(reports) : reports[k].cum <= Level => reports[k].cum <= Level'
      BY <2>1, <3>1
    <3>4. booked + Pending <= Level'
      BY <2>1, <3>1, <3>2
    <3>5. QED
      BY <1>2, <3>1, <3>2, <3>3, <3>4 DEF FillsFit
  <2>3. CASE ~(failures' = 0 /\ OneWriter)
    BY <2>3 DEF FillsFit, OneWriter
  <2>4. QED
    BY <2>2, <2>3
<1>7. QED
  BY <1>1, <1>3, <1>4, <1>5, <1>6

\* A fill that is already booked is of the same trade, and says nothing new,
\* unless two trades share a millisecond.
LEMMA KnownFill ==
  ASSUME Core, rpc = "known", ReconFill(Current) \in fillIds, failures = 0, OneWriter
  PROVE  SharedMillisecond
<1>1. /\ rnext \in 1..Len(reports) /\ Current = reports[rnext] /\ Current.leg > 0
      /\ Current.cum \in 0..OrigQty /\ rfilled < Current.cum /\ rfilled = order.filled
  BY CurrentIsAReport DEF Core, RowsAreThere, ReadsFit
<1>2. PICK k \in 1..Len(reports) : /\ ReconFill(reports[k]) = ReconFill(Current)
                                   /\ reports[k].leg > 0 /\ reports[k].cum <= Level
  BY DEF Core, FillsFit, ReconFill
<1>3. reports[k].ms = Current.ms
  BY <1>2 DEF ReconFill
<1>4. Level = order.filled /\ order.filled \in Nat /\ reports[k].cum \in Nat
  BY <1>2, Numbers, ReportNumbers DEF Core, Level
<1>5. reports[k].cum # Current.cum
  BY <1>1, <1>2, <1>4
<1>6. reports[k].trade # Current.trade
  BY <1>1, <1>2, <1>5 DEF Core, ReportsTell
<1>7. QED
  BY <1>1, <1>2, <1>3, <1>6 DEF SharedMillisecond

LEMMA ReconCore ==
  ASSUME Core, ReconStep
  PROVE  Core'
<1> USE DEF Core, RGoto
<1>0. /\ failures \in 0..MaxFailures /\ job \in LC!JobStates \cup {"none"} /\ rfilled \in 0..OrigQty
      /\ (job = "filled" => order.made) /\ failures \in Nat
      /\ order.filled \in 0..OrigQty /\ order.filled \in Nat /\ booked \in Nat
      /\ (rpc \in {"known", "insert", "qty", "partial", "finalize"} => order.made)
      /\ (rpc \in {"order", "known", "insert", "qty"} =>
            Current.status \in {"PARTIALLY_FILLED", "FILLED"})
      /\ (rpc # "idle" => /\ rnext \in 1..Len(reports) /\ Current = reports[rnext]
                          /\ Current.cum \in 0..OrigQty /\ Current.cum \in Nat
                          /\ Current.cum <= executed /\ Current.leg \in Nat
                          /\ (Current.status = "FILLED" => Current.cum = OrigQty)
                          /\ (Current.status \in {"PARTIALLY_FILLED", "FILLED"} => Current.leg > 0))
      /\ {"filled", "canceled", "partially_filled"} \subseteq LC!JobStates
  BY Numbers, CurrentIsAReport DEF TypeOK, FilledHasOrder, RowsAreThere, LC!JobStates
<1>1. CASE Handle
  <2> USE DEF exchange, tables, consumer, loop
  <2>1. /\ rpc = "idle" /\ rnext' = rnext + 1 /\ rnext < Len(reports) /\ rjob' = job
        /\ rpc' \in {"idle", "cancel", "order"}
        /\ rpc' = "order" => reports[rnext + 1].status \in {"PARTIALLY_FILLED", "FILLED"}
        /\ UNCHANGED <<exchange, reports, tables, consumer, rfilled, spos, loop, failures, replays>>
    BY <1>1 DEF Handle
  <2>2. rnext \in Nat /\ rnext' \in 0..Len(reports) /\ rnext' >= 1
    BY <2>1, Numbers DEF TypeOK
  <2>3. TypeOK'
    BY <1>0, <2>1, <2>2 DEF TypeOK
  <2>4. FilledHasOrder' /\ ReportsTell'
    BY <2>1 DEF FilledHasOrder, ReportsTell
  <2>5. RowsAreThere'
    BY <2>1, <2>2 DEF RowsAreThere, OneWriter, Current
  <2>6. ReadsFit'
    BY <2>1 DEF ReadsFit, OneWriter
  <2>7. FillsFit'
    <3>1. Level' = Level /\ Pending' = Pending /\ SharedMillisecond' = SharedMillisecond
      BY <2>1 DEF Level, Pending, SharedMillisecond
    <3>2. QED
      BY <2>1, <3>1 DEF FillsFit, OneWriter
  <2>8. QED
    BY <2>3, <2>4, <2>5, <2>6, <2>7
<1>2. CASE Cancel \/ MarkPartial \/ FinalizeFill
  <2>1. /\ rpc \in {"cancel", "partial", "finalize"} /\ rpc' \in {"idle", "finalize"}
        /\ (rpc' = "finalize" => rpc = "partial")
        /\ UNCHANGED <<exchange, reports, order, fillIds, booked, consumer, rnext, rjob, rfilled,
                       spos, loop, failures, replays>>
    BY <1>2 DEF Cancel, MarkPartial, FinalizeFill
  <2>2. job' \in {job, "none", "canceled", "partially_filled", "filled"}
        /\ (job' = "filled" => rpc = "finalize" \/ job = "filled")
    BY <1>2 DEF Cancel, MarkPartial, FinalizeFill, SetJob
  <2>3. Level' = Level
    BY <2>1 DEF Level
  <2>4. QED
    BY <1>0, <2>1, <2>2, <2>3, ReconMoves
<1>3. CASE ReadOrder
  <2>1. /\ rpc = "order" /\ rfilled' = order.filled
        /\ UNCHANGED <<exchange, reports, tables, consumer, rnext, rjob, spos, loop, failures, replays>>
    BY <1>3 DEF ReadOrder
  <2>2. /\ rpc' \in {"idle", "known", "qty"}
        /\ rpc' # "idle" => order.made
        /\ rpc' = "known" => order.filled < Current.cum
        /\ rpc' = "qty" => Current.status = "FILLED" /\ Current.cum <= order.filled
    <3>1. CASE ~order.made
      BY <1>3, <3>1 DEF ReadOrder, OrderMissing
    <3>2. CASE order.made /\ Current.cum > order.filled
      BY <1>0, <1>3, <3>2 DEF ReadOrder, OrderMissing
    <3>3. CASE order.made /\ ~(Current.cum > order.filled)
      <4>1. rpc' = IF Current.status = "FILLED" THEN "qty" ELSE "idle"
        BY <1>3, <3>3 DEF ReadOrder, OrderMissing
      <4>2. Current.cum <= order.filled
        BY <1>0, <2>1, <3>3
      <4>3. QED
        BY <3>3, <4>1, <4>2
    <3>4. QED
      BY <3>1, <3>2, <3>3
  <2>3. rpc' = "qty" => Current.cum = order.filled
    BY <1>0, <2>1, <2>2
  <2>4. Level' = Level
    BY <2>1, <2>2, <2>3 DEF Level, Current, tables
  <2>5. QED
    BY <1>0, <2>1, <2>2, <2>3, <2>4, ReconMoves DEF tables
<1>4. CASE LookFill
  <2>1. /\ rpc = "known"
        /\ UNCHANGED <<exchange, reports, tables, consumer, rnext, rjob, rfilled, spos, loop,
                       failures, replays>>
    BY <1>4 DEF LookFill
  <2>2. /\ rpc' \in {"idle", "insert", "qty"}
        /\ rpc' = "qty" => ReconFill(Current) \in fillIds
    <3>1. CASE ReconFill(Current) \notin fillIds
      BY <1>4, <3>1 DEF LookFill
    <3>2. CASE ReconFill(Current) \in fillIds
      <4>1. rpc' = IF Current.status = "FILLED" THEN "qty" ELSE "idle"
        BY <1>4, <3>2 DEF LookFill
      <4>2. QED
        BY <3>2, <4>1
    <3>3. QED
      BY <3>1, <3>2
  <2>3. rfilled < Current.cum /\ (OneWriter => rfilled = order.filled)
    BY <2>1 DEF ReadsFit
  <2>4. rpc' # "qty" => Level' = Level
    BY <2>1, <2>2 DEF Level, tables
  <2>5. OneWriter => order.filled <= Current.cum
    BY <1>0, <2>1, <2>3
  <2>6. rpc' = "qty" /\ OneWriter => Level <= Level'
    BY <1>0, <2>1, <2>5 DEF Level, Current
  <2>7. failures' = 0 /\ OneWriter => Level' = Level \/ (SharedMillisecond /\ Level <= Level')
    BY <2>1, <2>2, <2>4, <2>6, KnownFill
  <2>8. QED
    BY <1>0, <2>1, <2>2, <2>3, <2>5, <2>7, ReconMoves DEF tables
<1>5. CASE ReconAbandon
  <2>1. /\ rpc # "idle" /\ rpc' = "idle" /\ failures' \in 0..MaxFailures /\ failures' > 0
        /\ UNCHANGED <<exchange, reports, tables, consumer, rnext, rjob, rfilled, spos, loop, replays>>
    BY <1>5, Writes DEF ReconAbandon
  <2>2. QED
    BY <1>0, <2>1, ReconMoves DEF tables
<1>6. CASE InsertFill
  <2> USE DEF exchange, consumer, loop
  <2>1. /\ rpc = "insert" /\ rpc' = "qty" /\ fillIds' = fillIds \cup {ReconFill(Current)}
        /\ booked' = booked + (Current.cum - rfilled)
        /\ UNCHANGED <<exchange, reports, job, order, consumer, rnext, rjob, rfilled, spos, loop,
                       failures, replays>>
    BY <1>6 DEF InsertFill, Book, Leg
  <2>2. /\ rfilled < Current.cum /\ (OneWriter => rfilled = order.filled)
        /\ Current.ms \in Nat /\ order.made /\ Current' = Current
    BY <1>0, <2>1, CurrentIsAReport DEF ReadsFit, Current
  <2>3. booked' \in Nat /\ ReconFill(Current) \in FillId
    BY <1>0, <2>1, <2>2 DEF FillId, ReconFill
  <2>4. TypeOK'
    BY <2>1, <2>3 DEF TypeOK
  <2>5. FilledHasOrder' /\ ReportsTell' /\ RowsAreThere'
    BY <1>0, <2>1, <2>2 DEF FilledHasOrder, ReportsTell, RowsAreThere, OneWriter
  <2>6. ReadsFit'
    BY <1>0, <2>1, <2>2 DEF ReadsFit, OneWriter
  <2>7. FillsFit'
    <3>1. CASE failures = 0 /\ OneWriter
      <4>1. /\ Level = order.filled /\ Level' = Current.cum /\ Pending' = Pending /\ Pending \in Nat
            /\ SharedMillisecond' = SharedMillisecond
        BY <2>1, <2>2, Numbers DEF Level, Pending, SharedMillisecond
      <4>2. booked + Pending <= Level /\ (~SharedMillisecond => booked + Pending = Level)
        BY <3>1 DEF FillsFit
      <4>3. booked' + Pending' <= Level' /\ (~SharedMillisecond => booked' + Pending' = Level')
        <5> DEFINE w == Current.cum
                   z == order.filled
        <5>1. /\ booked' = booked + (w - rfilled) /\ rfilled = z /\ w \in Nat /\ z \in Nat
              /\ booked \in Nat /\ Pending \in Nat /\ Level = z /\ Level' = w /\ Pending' = Pending
              /\ SharedMillisecond' = SharedMillisecond
          BY <1>0, <2>1, <2>2, <3>1, <4>1, Numbers, CurrentIsAReport DEF Report
        <5> HIDE DEF w, z
        <5>2. QED
          BY <4>2, <5>1
      <4>4. ASSUME NEW f \in fillIds', f[1] = "ms"
            PROVE  \E k \in 1..Len(reports) :
                     ReconFill(reports[k]) = f /\ reports[k].leg > 0 /\ reports[k].cum <= Current.cum
        <5>1. CASE f = ReconFill(Current)
          BY <1>0, <2>1, <5>1, SMTT(20)
        <5>2. CASE f \in fillIds
          <6>1. PICK k \in 1..Len(reports) : /\ ReconFill(reports[k]) = f /\ reports[k].leg > 0
                                             /\ reports[k].cum <= Level
            BY <3>1, <4>4, <5>2 DEF FillsFit
          <6>2. reports[k].cum \in Nat
            BY Numbers, ReportNumbers
          <6>3. QED
            <7>1. Level <= Current.cum /\ Level \in Nat /\ Current.cum \in Nat
              BY <1>0, <2>1, <2>2, <3>1, <4>1
            <7>2. reports[k].cum <= Current.cum
              BY <6>1, <6>2, <7>1
            <7>3. QED
              BY <6>1, <7>2
        <5>3. QED
          BY <2>1, <4>4, <5>1, <5>2
      <4>5. QED
        BY <2>1, <2>2, <4>1, <4>3, <4>4 DEF FillsFit
    <3>2. CASE ~(failures = 0 /\ OneWriter)
      BY <2>1, <3>2 DEF FillsFit, OneWriter
    <3>3. QED
      BY <3>1, <3>2
  <2>8. QED
    BY <2>4, <2>5, <2>6, <2>7
<1>7. CASE UpdateQty
  <2> USE DEF exchange, consumer, loop
  <2>1. /\ rpc = "qty" /\ rpc' \in {"finalize", "partial"}
        /\ order' = [made |-> order.made, filled |-> Current.cum]
        /\ UNCHANGED <<exchange, reports, job, fillIds, booked, consumer, rnext, rjob, rfilled, spos,
                       loop, failures, replays>>
    <3>1. order = [made |-> order.made, filled |-> order.filled]
      BY Numbers
    <3>2. QED
      BY <1>7, <3>1 DEF UpdateQty, NewQty
  <2>2. order.made /\ order'.made /\ order'.filled = Current.cum /\ Current' = Current
    BY <1>0, <2>1 DEF Current
  <2>3. TypeOK'
    BY <1>0, <2>1, <2>2 DEF TypeOK
  <2>4. FilledHasOrder' /\ ReportsTell' /\ RowsAreThere'
    BY <1>0, <2>1, <2>2 DEF FilledHasOrder, ReportsTell, RowsAreThere, OneWriter
  <2>5. ReadsFit'
    BY <1>0, <2>1, <2>2 DEF ReadsFit, OneWriter
  <2>6. FillsFit'
    <3>1. Level' = Level /\ Pending' = Pending /\ SharedMillisecond' = SharedMillisecond
      BY <2>1, <2>2 DEF Level, Pending, SharedMillisecond
    <3>2. QED
      BY <2>1, <2>2, <3>1 DEF FillsFit, OneWriter
  <2>7. QED
    BY <2>3, <2>4, <2>5, <2>6
<1>8. QED
  BY <1>1, <1>2, <1>3, <1>4, <1>5, <1>6, <1>7 DEF ReconStep

-----------------------------------------------------------------------------
\* With the account stream at work there is a second writer; its quantity is one
\* that was executed.
LEMMA StreamCore ==
  ASSUME Core, UpsertOrder
  PROVE  Core'
<1> USE DEF Core, exchange, consumer, recon, loop
<1>0. /\ spos \in Nat /\ spos' = spos + 1 /\ spos' \in 0..Len(reports) /\ spos' # 0
      /\ reports[spos + 1] \in Report /\ reports[spos + 1].cum <= executed
      /\ UNCHANGED <<exchange, reports, job, consumer, recon, loop, replays>>
  BY Numbers DEF UpsertOrder, TypeOK, ReportsTell
<1> DEFINE r == reports[spos + 1]
<1>1. /\ r.cum \in 0..OrigQty /\ r.leg \in 0..OrigQty /\ r.trade \in Nat /\ r.cum <= executed
  BY <1>0, ReportNumbers
<1> HIDE DEF r
<1>2. \/ order' = [made |-> TRUE, filled |-> r.cum]
      \/ order' = order
  BY DEF UpsertOrder, r
<1>3. /\ booked' \in {booked, booked + r.leg} /\ fillIds' \in {fillIds, fillIds \cup {StreamFill(r)}}
      /\ failures' \in 0..MaxFailures
  BY Writes, Numbers DEF UpsertOrder, r, Book, NoFailure
<1>4. TypeOK'
  <2>1. order' \in [made : BOOLEAN, filled : 0..OrigQty]
    <3>1. order \in [made : BOOLEAN, filled : 0..OrigQty]
      BY DEF TypeOK
    <3>2. QED
      <4>1. CASE order' = order
        BY ONLY <3>1, <4>1
      <4>2. CASE order' = [made |-> TRUE, filled |-> r.cum]
        <5>1. r.cum \in 0..OrigQty
          BY <1>1
        <5>2. QED
          BY ONLY <4>2, <5>1
      <4>3. QED
        BY <1>2, <4>1, <4>2
  <2>2. fillIds' \subseteq FillId /\ booked' \in Nat
    BY <1>1, <1>3, SMTT(20) DEF TypeOK, FillId, StreamFill
  <2>3. QED
    BY <1>0, <1>3, <2>1, <2>2 DEF TypeOK
<1>5. /\ order.made => order'.made
      /\ order'.filled <= executed /\ (~order'.made => order'.filled = 0)
      /\ Current' = Current
  BY <1>0, <1>1, <1>2 DEF RowsAreThere, ReadsFit, Current
<1>6. FilledHasOrder' /\ ReportsTell' /\ RowsAreThere' /\ ReadsFit' /\ FillsFit'
  BY <1>0, <1>5 DEF FilledHasOrder, ReportsTell, RowsAreThere, ReadsFit, FillsFit, OneWriter
<1>7. QED
  BY <1>4, <1>6

LEMMA CoreStep == Core /\ [Next]_vars => Core'
<1> SUFFICES ASSUME Core, [Next]_vars PROVE Core'
  OBVIOUS
<1>1. CASE GrowOld \/ Scan
  <2>1. /\ UNCHANGED <<exchange, reports, tables, consumer, recon, spos, failures, replays>>
        /\ old' \in BOOLEAN /\ reported' \in BOOLEAN
    BY <1>1 DEF GrowOld, Scan, Core, TypeOK
  <2>2. QED
    BY <2>1, NothingBooked DEF tables, consumer, Core, TypeOK, FilledHasOrder
<1>2. CASE UNCHANGED vars
  <2>1. /\ UNCHANGED <<exchange, reports, tables, consumer, recon, spos, failures, replays>>
        /\ old' \in BOOLEAN /\ reported' \in BOOLEAN
    BY <1>2 DEF vars, loop, Core, TypeOK
  <2>2. QED
    BY <2>1, NothingBooked DEF tables, consumer, Core, TypeOK, FilledHasOrder
<1>3. QED
  BY <1>1, <1>2, ExchangeStep, ConsumerCore, ReconCore, StreamCore DEF Next

\* event_consumer.py, consumer.py and state.py: what the fills, the order and
\* the job say of each other holds whatever the size of the order, the times of
\* its trades and the reports that come twice.
THEOREM OrderInvariant == Spec => []OrderInv
BY CoreInit, CoreStep, CoreBalances, PTL DEF Spec

\* _handle_partial_fill and upsert_order_from_execution_report: filled_qty stays
\* within what was executed and, with one writer, never goes back.
THEOREM FilledNeverGoesBack == Spec => FilledGrows
<1> DEFINE Grows == /\ order'.filled <= executed'
                    /\ spos' = 0 => order.filled <= order'.filled
<1>1. Core /\ [Next]_vars => [Grows]_vars
  <2> SUFFICES ASSUME Core, Next PROVE Grows
    OBVIOUS
  <2>1. order'.filled <= executed'
    BY CoreStep DEF Core, ReadsFit
  <2>2. order.filled \in Nat /\ spos \in Nat
    BY Numbers DEF Core, TypeOK
  <2>3. CASE UNCHANGED order
    BY <2>1, <2>2, <2>3
  <2>4. CASE CreateOrder
    <3>1. order.filled = 0 \/ UNCHANGED order
      BY <2>4 DEF CreateOrder, Core, RowsAreThere
    <3>2. order'.filled \in Nat
      BY <2>4, Numbers DEF CreateOrder, Core
    <3>3. QED
      BY <2>1, <2>2, <3>1, <3>2
  <2>5. CASE UpdateQty
    <3>1. rpc = "qty" /\ order'.filled = Current.cum /\ UNCHANGED spos
      BY <2>5, Numbers DEF UpdateQty, NewQty, Core
    <3>2. QED
      BY <2>1, <3>1 DEF Core, ReadsFit, OneWriter
  <2>6. CASE UpsertOrder
    BY <2>1, <2>2, <2>6 DEF UpsertOrder
  <2>7. QED
    BY <2>3, <2>4, <2>5, <2>6
       DEF Next, Accept, Trade, EndOrder, Replay, ConsumerStep, Answered, SubmitFailed, WriteStatus,
           SaveFill, WriteFilled, ConsumerCrash, ReconStep, Handle, Cancel, ReadOrder, LookFill,
           InsertFill, MarkPartial, FinalizeFill, ReconAbandon, GrowOld, Scan, tables
<1>2. QED
  BY <1>1, CoreInit, CoreStep, PTL DEF Spec, FilledGrows
=============================================================================
