------------------------- MODULE MarketBook_proofs -------------------------
(***************************************************************************)
(* Proofs about MarketBook, for any prices, quantities and bounds: type    *)
(* correctness, what a valid integrity state promises, that the copy of    *)
(* the analytics moves forward only, and when it is a book the exchange    *)
(* had: without the diff stream always, with it until a first failure.     *)
(***************************************************************************)
EXTENDS MarketBook, TLAPS

\* The books of the exchange are books, and stay what they were.
LEMMA BookType ==
  ASSUME ExchangeType, NEW i \in 0..LastId
  PROVE  BookAt(i) \in [Prices -> Quantities]
  BY DEF ExchangeType, BookAt, LastId

LEMMA TouchedType ==
  ASSUME ExchangeType, NEW first \in Nat, NEW last \in 0..LastId
  PROVE  Touched(first, last) \in UNION {[S -> Quantities] : S \in SUBSET Prices}
<1> DEFINE S == {q \in Prices : \E i \in first..last : BookAt(i)[q] # BookAt(i - 1)[q]}
<1>1. BookAt(last) \in [Prices -> Quantities]
  BY BookType
<1>2. Touched(first, last) = [p \in S |-> BookAt(last)[p]]
  BY DEF Touched
<1>3. S \in SUBSET Prices /\ Touched(first, last) \in [S -> Quantities]
  BY <1>1, <1>2
<1> QED BY <1>3

LEMMA HeaderType ==
  ASSUME NEW event \in RawSnapshots \cup RawDeltas
  PROVE  Header(event) \in Events
  BY DEF RawSnapshots, RawDeltas, Header, Events, Kinds

\* What is merged over a book is a book.
LEMMA HotWriteType ==
  ASSUME CopyType, NEW event \in RawSnapshots \cup RawDeltas
  PROVE  HotWrite(event) \in Books \cup {None}
<1>1. CASE event \in RawSnapshots
  BY <1>1 DEF RawSnapshots, HotWrite, Books
<1>2. CASE event \in RawDeltas /\ hot = None
  BY <1>2 DEF RawDeltas, HotWrite
<1>3. CASE event \in RawDeltas /\ hot # None
  <2>1. hot \in Books /\ hot.levels \in [Prices -> Quantities]
    BY <1>3 DEF CopyType, Books
  <2>2. PICK S \in SUBSET Prices : event.levels \in [S -> Quantities]
    BY <1>3 DEF RawDeltas
  <2>3. event.last \in Nat /\ event.kind = "delta"
    BY <1>3 DEF RawDeltas
  <2>4. [p \in Prices |-> IF p \in DOMAIN event.levels THEN event.levels[p] ELSE hot.levels[p]]
          \in [Prices -> Quantities]
    BY <2>1, <2>2
  <2>5. Merge(hot, event) \in Books
    BY <2>3, <2>4 DEF Merge, Books
  <2> QED BY <1>3, <2>3, <2>5 DEF HotWrite
<1> QED BY <1>1, <1>2, <1>3

\* The exchange only appends: earlier books keep their ids.
LEMMA BooksGrow ==
  ASSUME ExchangeType, [Next]_vars
  PROVE  /\ LastId' \in Nat /\ LastId' >= LastId
         /\ \A i \in 0..LastId : books'[i + 1] = books[i + 1]
<1>1. CASE Update
  <2>1. PICK b : books' = Append(books, b)
    BY <1>1 DEF Update
  <2> QED BY <2>1 DEF ExchangeType, LastId
<1>2. CASE UNCHANGED books
  BY <1>2 DEF ExchangeType, LastId
<1>3. ASSUME \/ EmitDelta \/ EmitSnapshot \/ Connecting \/ Connect \/ Disconnect
             \/ Publish \/ WriteHot \/ Expire \/ NormalizerCrash
             \/ Dispatch \/ AnalyticsCrash \/ UNCHANGED vars
      PROVE  UNCHANGED books
  BY <1>3 DEF EmitDelta, EmitSnapshot, Connecting, Connect, Disconnect, Publish, WriteHot,
              Expire, NormalizerCrash, Dispatch, AnalyticsCrash, exchangeVars, vars
<1> QED BY <1>1, <1>2, <1>3 DEF Next

LEMMA ExchangeTypeStep ==
  ASSUME ExchangeType, [Next]_vars
  PROVE  ExchangeType'
<1>1. CASE Update
  <2>1. BookAt(LastId) \in [Prices -> Quantities]
    BY BookType DEF ExchangeType
  <2>2. PICK p \in Prices, q \in Quantities :
          books' = Append(books, [BookAt(LastId) EXCEPT ![p] = q])
    BY <1>1 DEF Update
  <2>3. [BookAt(LastId) EXCEPT ![p] = q] \in [Prices -> Quantities]
    BY <2>1
  <2>4. sent' = sent
    BY <1>1 DEF Update
  <2> QED BY <2>2, <2>3, <2>4 DEF ExchangeType, LastId
<1>2. CASE EmitDelta
  BY <1>2 DEF EmitDelta, ExchangeType, LastId
<1>3. CASE UNCHANGED exchangeVars
  BY <1>3 DEF exchangeVars, ExchangeType, LastId
<1>4. ASSUME \/ EmitSnapshot \/ Connecting \/ Connect \/ Disconnect
             \/ Publish \/ WriteHot \/ Expire \/ NormalizerCrash
             \/ Dispatch \/ AnalyticsCrash \/ UNCHANGED vars
      PROVE  UNCHANGED exchangeVars
  BY <1>4 DEF EmitSnapshot, Connecting, Connect, Disconnect, Publish, WriteHot,
              Expire, NormalizerCrash, Dispatch, AnalyticsCrash, vars
<1> QED BY <1>1, <1>2, <1>3, <1>4 DEF Next

\* Forwarding an event keeps the stream or appends the event.
LEMMA Forwarded ==
  ASSUME NEW event, Forward(event)
  PROVE  raw' = raw \/ raw' = Append(raw, event)
  BY DEF Forward

\* The raw stream gains what the exchange sends and loses from its front.
LEMMA RawTypeStep ==
  ASSUME ExchangeType, RawType, [Next]_vars
  PROVE  RawType'
<1> USE DEF RawType
<1>1. CASE EmitDelta
  <2>1. sent' = LastId /\ sent + 1 \in Nat /\ LastId \in Nat /\ LastId \in 0..LastId
    BY <1>1 DEF EmitDelta, ExchangeType
  <2>2. Touched(sent + 1, LastId) \in UNION {[S -> Quantities] : S \in SUBSET Prices}
    BY <2>1, TouchedType
  <2> DEFINE event == [kind |-> "delta", first |-> sent + 1, last |-> LastId,
                       levels |-> Touched(sent + 1, LastId)]
  <2>3. event \in RawDeltas
    BY <2>1, <2>2 DEF RawDeltas
  <2>4. raw' = raw \/ raw' = Append(raw, event)
    <3>1. Forward([kind |-> "delta", first |-> sent + 1, last |-> sent',
                   levels |-> Touched(sent + 1, sent')])
      BY <1>1 DEF EmitDelta
    <3>2. Forward(event)
      BY <2>1, <3>1
    <3> QED BY <3>2, Forwarded
  <2> HIDE DEF event
  <2> QED BY <2>3, <2>4
<1>2. CASE EmitSnapshot
  <2>1. LastId \in Nat /\ LastId \in 0..LastId
    BY DEF ExchangeType
  <2> DEFINE event == [kind |-> "snapshot", first |-> LastId, last |-> LastId,
                       levels |-> BookAt(LastId)]
  <2>2. event \in RawSnapshots
    BY <2>1, BookType DEF RawSnapshots
  <2>3. raw' = raw \/ raw' = Append(raw, event)
    BY <1>2, Forwarded DEF EmitSnapshot
  <2> HIDE DEF event
  <2> QED BY <2>2, <2>3
<1>3. CASE Publish
  BY <1>3 DEF Publish
<1>4. CASE NormalizerCrash
  <2>1. PICK n \in 0..Len(raw) : raw' = SubSeq(raw, n + 1, Len(raw))
    BY <1>4 DEF NormalizerCrash
  <2> QED BY <2>1
<1>5. ASSUME \/ Update \/ Connecting \/ Connect \/ Disconnect \/ WriteHot \/ Expire
             \/ Dispatch \/ AnalyticsCrash \/ UNCHANGED vars
      PROVE  UNCHANGED raw
  BY <1>5 DEF Update, Connecting, Connect, Disconnect, WriteHot, Expire, Dispatch,
              AnalyticsCrash, vars, ingestVars
<1> QED BY <1>1, <1>2, <1>3, <1>4, <1>5 DEF Next
LEMMA NormTypeStep ==
  ASSUME RawType, NormType, [Next]_vars
  PROVE  NormType'
<1> USE DEF NormType
<1>1. CASE Publish
  <2>1. Head(raw) \in RawSnapshots \cup RawDeltas
    BY <1>1 DEF Publish, RawType
  <2>2. Header(Head(raw)) \in Events
    BY <2>1, HeaderType
  <2>3. norm' = norm \/ norm' = Append(norm, Header(Head(raw)))
    BY <1>1 DEF Publish
  <2> QED BY <2>2, <2>3
<1>2. CASE Dispatch
  BY <1>2 DEF Dispatch
<1>3. CASE AnalyticsCrash
  <2>1. PICK n \in 0..Len(norm) : norm' = SubSeq(norm, n + 1, Len(norm))
    BY <1>3 DEF AnalyticsCrash
  <2> QED BY <2>1
<1>4. ASSUME \/ Update \/ EmitDelta \/ EmitSnapshot \/ Connecting \/ Connect \/ Disconnect
             \/ WriteHot \/ Expire \/ NormalizerCrash \/ UNCHANGED vars
      PROVE  UNCHANGED norm
  BY <1>4 DEF Update, EmitDelta, EmitSnapshot, Connecting, Connect, Disconnect, WriteHot,
              Expire, NormalizerCrash, vars
<1> QED BY <1>1, <1>2, <1>3, <1>4 DEF Next

\* A dispatched event leaves the copy alone or replaces it by what Redis holds.
LEMMA Dispatched ==
  ASSUME Dispatch
  PROVE  /\ lastBook' = lastBook \/ lastBook' = hot
         /\ UNCHANGED <<pending, hot>>
<1>1. PICK fetched \in {hot, None} :
        \/ OnSnapshot(Head(norm), fetched)
        \/ OnDelta(Head(norm), fetched)
  BY DEF Dispatch
<1>2. lastBook' = lastBook \/ (fetched # None /\ lastBook' = fetched)
  BY <1>1 DEF OnSnapshot, OnDelta
<1> QED BY <1>2 DEF Dispatch, normalizerVars

LEMMA CopyTypeStep ==
  ASSUME RawType, CopyType, [Next]_vars
  PROVE  CopyType'
<1>1. CASE Publish
  <2>1. Head(raw) \in RawSnapshots \cup RawDeltas
    BY <1>1 DEF Publish, RawType
  <2>2. HotWrite(Head(raw)) \in Books \cup {None}
    BY <2>1, HotWriteType
  <2>3. pending' = pending \/ pending' = HotWrite(Head(raw))
    BY <1>1 DEF Publish
  <2>4. hot' = hot /\ lastBook' = lastBook
    BY <1>1 DEF Publish, analyticsVars
  <2> QED BY <2>2, <2>3, <2>4 DEF CopyType
<1>2. CASE WriteHot \/ Expire \/ NormalizerCrash
  BY <1>2 DEF WriteHot, Expire, NormalizerCrash, CopyType, analyticsVars
<1>3. CASE Dispatch
  BY <1>3, Dispatched DEF CopyType
<1>4. CASE AnalyticsCrash
  BY <1>4 DEF AnalyticsCrash, CopyType, normalizerVars
<1>5. ASSUME \/ Update \/ EmitDelta \/ EmitSnapshot \/ Connecting \/ Connect \/ Disconnect
             \/ UNCHANGED vars
      PROVE  UNCHANGED <<pending, hot, lastBook>>
  BY <1>5 DEF Update, EmitDelta, EmitSnapshot, Connecting, Connect, Disconnect, vars,
              normalizerVars, analyticsVars
<1> QED BY <1>1, <1>2, <1>3, <1>4, <1>5 DEF Next, CopyType

-----------------------------------------------------------------------------
\* BookIntegrityState, one event at a time.

LEMMA SnapshotStep ==
  ASSUME NEW event \in Events, NEW fetched, OnSnapshot(event, fetched)
  PROVE  (IntegrityType /\ ValidIsContiguous)'
<1>1. event.last \in Nat
  BY DEF Events
<1>2. integrity' = [has_snapshot |-> TRUE, last_update_id |-> event.last, is_valid |-> TRUE]
      /\ base' = event.last /\ applied' = {}
  BY DEF OnSnapshot
<1>3. (base' + 1) .. integrity'.last_update_id = {}
  BY <1>1, <1>2
<1> QED BY <1>1, <1>2, <1>3 DEF IntegrityType, ValidIsContiguous

LEMMA DeltaStep ==
  ASSUME IntegrityType, ValidIsContiguous,
         NEW event \in Events, NEW fetched, OnDelta(event, fetched)
  PROVE  (IntegrityType /\ ValidIsContiguous)'
<1>1. event.first \in Nat /\ event.last \in Nat
  BY DEF Events
<1>2. CASE UNCHANGED <<integrity, applied, base>>
  BY <1>2 DEF IntegrityType, ValidIsContiguous
<1>3. CASE integrity' = [integrity EXCEPT !.is_valid = FALSE] /\ UNCHANGED <<applied, base>>
  BY <1>3 DEF IntegrityType, ValidIsContiguous
<1>4. CASE /\ ~Gap(event.first)
           /\ integrity' = [integrity EXCEPT !.last_update_id = event.last]
           /\ applied' = applied \cup (event.first .. event.last)
           /\ UNCHANGED base
  <2>1. integrity.last_update_id \in Nat /\ base \in Nat /\ applied \subseteq Nat
    BY DEF IntegrityType
  <2>2. event.first <= integrity.last_update_id + 1
    BY <1>1, <1>4, <2>1 DEF Gap
  <2>3. integrity'.last_update_id = event.last /\ integrity'.is_valid = integrity.is_valid
    BY <1>4 DEF IntegrityType
  <2>4. ASSUME integrity.is_valid, NEW i \in (base + 1) .. event.last PROVE i \in applied'
    <3>1. CASE i <= integrity.last_update_id
      BY <1>4, <2>1, <2>4, <3>1 DEF ValidIsContiguous
    <3>2. CASE i > integrity.last_update_id
      BY <1>1, <1>4, <2>1, <2>2, <3>2
    <3> QED BY <1>1, <2>1, <3>1, <3>2
  <2>5. event.first .. event.last \subseteq Nat
    BY <1>1
  <2>6. IntegrityType'
    BY <1>1, <1>4, <2>5 DEF IntegrityType
  <2> QED BY <1>4, <2>3, <2>4, <2>6 DEF ValidIsContiguous
<1> QED BY <1>2, <1>3, <1>4 DEF OnDelta

LEMMA IntegrityStep ==
  ASSUME NormType, IntegrityType, ValidIsContiguous, [Next]_vars
  PROVE  (IntegrityType /\ ValidIsContiguous)'
<1>1. CASE Dispatch
  <2>1. PICK fetched \in {hot, None} :
          \/ OnSnapshot(Head(norm), fetched)
          \/ OnDelta(Head(norm), fetched)
    BY <1>1 DEF Dispatch
  <2>2. Head(norm) \in Events
    BY <1>1 DEF Dispatch, NormType
  <2> QED BY <2>1, <2>2, SnapshotStep, DeltaStep
<1>2. CASE AnalyticsCrash
  <2>1. integrity'.is_valid = FALSE /\ IntegrityType'
    BY <1>2 DEF AnalyticsCrash, IntegrityType
  <2> QED BY <2>1 DEF ValidIsContiguous
<1>3. ASSUME \/ Update \/ EmitDelta \/ EmitSnapshot \/ Connecting \/ Connect \/ Disconnect
             \/ Publish \/ WriteHot \/ Expire \/ NormalizerCrash \/ UNCHANGED vars
      PROVE  UNCHANGED analyticsVars
  BY <1>3 DEF Update, EmitDelta, EmitSnapshot, Connecting, Connect, Disconnect, Publish,
              WriteHot, Expire, NormalizerCrash, vars
<1>4. CASE UNCHANGED analyticsVars
  BY <1>4 DEF analyticsVars, IntegrityType, ValidIsContiguous
<1> QED BY <1>1, <1>2, <1>3, <1>4 DEF Next

-----------------------------------------------------------------------------
\* The order of what is sent is the order of what is kept.

\* An id that is written by Publish is that of the event.
LEMMA HotWriteId ==
  ASSUME NEW event, HotWrite(event) # None
  PROVE  HotWrite(event).id = event.last
  BY DEF HotWrite, Merge

\* The exchange sends the newest of its books; what is delivered goes from the
\* front; Update makes what was sent older.
LEMMA RawInOrder ==
  ASSUME ExchangeType, RawType, OldestFirst, [Next]_vars
  PROVE  /\ \A i, j \in DOMAIN raw' : i <= j => raw'[i].last <= raw'[j].last
         /\ \A i \in DOMAIN raw' : raw'[i].last <= LastId'
         /\ \A b \in {pending, hot, lastBook} \ {None} :
              b \in Books => b.id <= LastId' /\ \A i \in DOMAIN raw' : b.id <= raw'[i].last
<1>0. /\ LastId \in Nat /\ LastId' \in Nat /\ LastId' >= LastId
      /\ \A i \in DOMAIN raw : raw[i].last \in Nat
      /\ \A b \in Books : b.id \in Nat
  <2>1. \A i \in DOMAIN raw : raw[i] \in RawSnapshots \cup RawDeltas
    BY DEF RawType
  <2>2. \A e \in RawSnapshots \cup RawDeltas : e.last \in Nat
    BY DEF RawSnapshots, RawDeltas
  <2> QED BY <2>1, <2>2, BooksGrow DEF ExchangeType, Books
<1>1. /\ \A i, j \in DOMAIN raw : i <= j => raw[i].last <= raw[j].last
      /\ \A i \in DOMAIN raw : raw[i].last <= LastId
      /\ \A b \in {pending, hot, lastBook} \ {None} :
           b.id <= LastId /\ \A i \in DOMAIN raw : b.id <= raw[i].last
  BY DEF OldestFirst
<1>2. ASSUME NEW event, event.last = LastId, raw' = Append(raw, event)
      PROVE  /\ \A i, j \in DOMAIN raw' : i <= j => raw'[i].last <= raw'[j].last
             /\ \A i \in DOMAIN raw' : raw'[i].last <= LastId'
             /\ \A b \in {pending, hot, lastBook} \ {None} :
                  b \in Books => b.id <= LastId' /\ \A i \in DOMAIN raw' : b.id <= raw'[i].last
  <2>1. /\ DOMAIN raw' = 1..Len(raw) + 1 /\ DOMAIN raw = 1..Len(raw) /\ Len(raw) \in Nat
        /\ \A i \in DOMAIN raw : raw'[i] = raw[i]
        /\ raw'[Len(raw) + 1] = event
    BY <1>2 DEF RawType
  <2>2. \A i \in DOMAIN raw' : i \in DOMAIN raw \/ i = Len(raw) + 1
    BY <2>1
  <2>3. \A i \in DOMAIN raw' : raw'[i].last \in Nat /\ raw'[i].last <= LastId
    BY <1>0, <1>1, <1>2, <2>1, <2>2
  <2>4. \A i, j \in DOMAIN raw' : i <= j => raw'[i].last <= raw'[j].last
    BY <1>0, <1>1, <1>2, <2>1, <2>2, <2>3
  <2>5. ASSUME NEW b \in {pending, hot, lastBook} \ {None}, b \in Books
        PROVE  b.id <= LastId' /\ \A i \in DOMAIN raw' : b.id <= raw'[i].last
    BY <1>0, <1>1, <1>2, <2>1, <2>2, <2>5
  <2> QED BY <1>0, <2>3, <2>4, <2>5
<1>3. ASSUME NEW n \in 0..Len(raw), raw' = SubSeq(raw, n + 1, Len(raw))
      PROVE  /\ \A i, j \in DOMAIN raw' : i <= j => raw'[i].last <= raw'[j].last
             /\ \A i \in DOMAIN raw' : raw'[i].last <= LastId'
             /\ \A b \in {pending, hot, lastBook} \ {None} :
                  b \in Books => b.id <= LastId' /\ \A i \in DOMAIN raw' : b.id <= raw'[i].last
  <2>1. /\ DOMAIN raw = 1..Len(raw) /\ Len(raw) \in Nat /\ n \in Nat /\ DOMAIN raw' \subseteq Nat
        /\ \A i \in DOMAIN raw' : i + n \in DOMAIN raw /\ raw'[i] = raw[i + n]
    BY <1>3 DEF RawType
  <2>2. \A i, j \in DOMAIN raw' : i <= j => raw'[i].last <= raw'[j].last
    <3> SUFFICES ASSUME NEW i \in DOMAIN raw', NEW j \in DOMAIN raw', i <= j
                 PROVE  raw'[i].last <= raw'[j].last
      OBVIOUS
    <3>1. i + n <= j + n
      BY <2>1
    <3> QED BY <1>1, <2>1, <3>1
  <2> QED BY <1>0, <1>1, <2>1, <2>2
<1>4. CASE UNCHANGED raw
  BY <1>0, <1>1, <1>4
<1>5. CASE EmitDelta
  <2> DEFINE event == [kind |-> "delta", first |-> sent + 1, last |-> sent',
                       levels |-> Touched(sent + 1, sent')]
  <2>1. event.last = LastId
    BY <1>5 DEF EmitDelta
  <2>2. raw' = raw \/ raw' = Append(raw, event)
    BY <1>5, Forwarded DEF EmitDelta
  <2> HIDE DEF event
  <2> QED BY <1>2, <1>4, <2>1, <2>2
<1>6. CASE EmitSnapshot
  <2> DEFINE event == [kind |-> "snapshot", first |-> LastId, last |-> LastId,
                       levels |-> BookAt(LastId)]
  <2>1. event.last = LastId
    OBVIOUS
  <2>2. raw' = raw \/ raw' = Append(raw, event)
    BY <1>6, Forwarded DEF EmitSnapshot
  <2> HIDE DEF event
  <2> QED BY <1>2, <1>4, <2>1, <2>2
<1>7. CASE Publish
  <2>1. raw # <<>> /\ raw' = Tail(raw)
    BY <1>7 DEF Publish
  <2>2. 1 \in 0..Len(raw) /\ raw' = SubSeq(raw, 1 + 1, Len(raw))
    BY <2>1 DEF RawType
  <2> QED BY <1>3, <2>2
<1>8. CASE NormalizerCrash
  BY <1>3, <1>8 DEF NormalizerCrash
<1>9. ASSUME \/ Update \/ Connecting \/ Connect \/ Disconnect \/ WriteHot
             \/ Expire \/ Dispatch \/ AnalyticsCrash \/ UNCHANGED vars
      PROVE  UNCHANGED raw
  BY <1>9 DEF Update, Connecting, Connect, Disconnect, WriteHot, Expire, Dispatch,
              AnalyticsCrash, vars, ingestVars
<1> QED BY <1>4, <1>5, <1>6, <1>7, <1>8, <1>9 DEF Next

LEMMA OrderStep ==
  ASSUME ExchangeType, RawType, CopyType, OldestFirst, [Next]_vars
  PROVE  OldestFirst'
<1>0. /\ \A i, j \in DOMAIN raw' : i <= j => raw'[i].last <= raw'[j].last
      /\ \A i \in DOMAIN raw' : raw'[i].last <= LastId'
      /\ \A b \in {pending, hot, lastBook} \ {None} :
           b.id <= LastId' /\ \A i \in DOMAIN raw' : b.id <= raw'[i].last
  BY RawInOrder DEF CopyType
<1>1. /\ \A b \in {hot, lastBook} \ {None} : pending # None => b.id <= pending.id
      /\ hot # None /\ lastBook # None => lastBook.id <= hot.id
  BY DEF OldestFirst
<1>2. CASE Publish
  <2>1. /\ raw # <<>> /\ raw' = Tail(raw) /\ hot' = hot /\ lastBook' = lastBook
        /\ pending = None /\ (pending' = pending \/ pending' = HotWrite(Head(raw)))
    BY <1>2 DEF Publish, analyticsVars
  <2>2. CASE pending' = pending
    BY <1>0, <1>1, <2>1, <2>2 DEF OldestFirst
  <2>3. CASE pending' = HotWrite(Head(raw)) /\ pending' # None
    <3>1. /\ 1 \in DOMAIN raw /\ Head(raw) = raw[1]
          /\ \A i \in DOMAIN raw' : i + 1 \in DOMAIN raw /\ raw'[i] = raw[i + 1] /\ 1 <= i + 1
      BY <2>1 DEF RawType
    <3>2. pending'.id = raw[1].last
      BY <2>3, <3>1, HotWriteId
    <3>3. \A i \in DOMAIN raw' : pending'.id <= raw'[i].last
      BY <3>1, <3>2 DEF OldestFirst
    <3>4. pending'.id <= LastId'
      <4>1. LastId' = LastId
        BY <1>2 DEF Publish, exchangeVars, LastId
      <4> QED BY <3>1, <3>2, <4>1 DEF OldestFirst
    <3>5. \A b \in {hot, lastBook} \ {None} : b.id <= pending'.id
      BY <3>1, <3>2 DEF OldestFirst
    <3> QED BY <1>0, <1>1, <2>1, <3>3, <3>4, <3>5 DEF OldestFirst
  <2> QED BY <2>1, <2>2, <2>3
<1>3. CASE WriteHot \/ Expire \/ NormalizerCrash
  <2>1. /\ pending' = pending \/ pending' = None
        /\ \/ hot' = hot \/ hot' = None
           \/ hot' = pending /\ pending' = None /\ pending # None
        /\ lastBook' = lastBook
    BY <1>3 DEF WriteHot, Expire, NormalizerCrash, analyticsVars
  <2> QED BY <1>0, <1>1, <2>1 DEF OldestFirst
<1>4. CASE Dispatch \/ AnalyticsCrash
  <2>1. /\ UNCHANGED <<pending, hot>>
        /\ lastBook' = lastBook \/ lastBook' = hot \/ lastBook' = None
    BY <1>4, Dispatched DEF AnalyticsCrash, normalizerVars
  <2>2. hot # None => hot.id \in Nat
    BY DEF CopyType, Books
  <2> QED BY <1>0, <1>1, <2>1, <2>2 DEF OldestFirst
<1>5. ASSUME \/ Update \/ EmitDelta \/ EmitSnapshot \/ Connecting \/ Connect \/ Disconnect
             \/ UNCHANGED vars
      PROVE  UNCHANGED <<pending, hot, lastBook>>
  BY <1>5 DEF Update, EmitDelta, EmitSnapshot, Connecting, Connect, Disconnect, vars,
              normalizerVars, analyticsVars
<1>6. CASE UNCHANGED <<pending, hot, lastBook>>
  BY <1>0, <1>1, <1>6 DEF OldestFirst
<1> QED BY <1>2, <1>3, <1>4, <1>5, <1>6 DEF Next

LEMMA BookInit == Init => BookInv
<1> SUFFICES ASSUME Init PROVE BookInv
  OBVIOUS
<1>1. ExchangeType
  <2>1. [p \in Prices |-> 0] \in [Prices -> Quantities]
    BY BookAssumption
  <2> QED BY <2>1 DEF Init, ExchangeType, LastId
<1>2. RawType /\ NormType /\ CopyType /\ IntegrityType
  BY DEF Init, RawType, NormType, CopyType, IntegrityType
<1>3. ValidIsContiguous
  BY DEF Init, ValidIsContiguous
<1>4. ConnectionType
  <2>1. faults \in 0..MaxFaults
    BY BookAssumption DEF Init
  <2>2. socket \in BOOLEAN /\ info \in {"disconnected"}
    BY DEF Init
  <2> QED BY <2>1, <2>2 DEF ConnectionType
<1>5. OldestFirst
  BY DEF Init, OldestFirst
<1> QED BY <1>1, <1>2, <1>3, <1>4, <1>5 DEF BookInv, TypeOK

\* A failure is counted within its bound; the connection is one of ingest's.
LEMMA ConnectionTypeStep ==
  ASSUME ConnectionType, [Next]_vars
  PROVE  ConnectionType'
<1>1. CASE UNCHANGED faults \/ Fault
  <2>1. faults' \in 0..MaxFaults
    BY <1>1, BookAssumption DEF Fault, ConnectionType
  <2>2. ASSUME Connecting \/ Connect \/ Disconnect
        PROVE  /\ socket' \in BOOLEAN
               /\ info' \in {"disconnected", "connecting", "connected", "reconnecting"}
    BY <2>2 DEF Connecting, Connect, Disconnect, ConnectionType
  <2>3. ASSUME \/ Update \/ EmitDelta \/ EmitSnapshot \/ Publish \/ WriteHot \/ Expire
               \/ NormalizerCrash \/ Dispatch \/ AnalyticsCrash \/ UNCHANGED vars
        PROVE  UNCHANGED <<socket, info>>
    BY <2>3 DEF Update, EmitDelta, EmitSnapshot, Publish, WriteHot, Expire, NormalizerCrash,
                Dispatch, AnalyticsCrash, ingestVars, vars
  <2> QED BY <2>1, <2>2, <2>3 DEF Next, ConnectionType
<1>2. ASSUME Next PROVE UNCHANGED faults \/ Fault
  BY <1>2 DEF Next, Update, EmitDelta, EmitSnapshot, Forward, Connecting, Connect, Disconnect,
              Publish, WriteHot, Expire, NormalizerCrash, Dispatch, AnalyticsCrash
<1>3. CASE UNCHANGED vars
  BY <1>1, <1>3 DEF vars
<1> QED BY <1>1, <1>2, <1>3

LEMMA BookStep == BookInv /\ [Next]_vars => BookInv'
  BY ExchangeTypeStep, ConnectionTypeStep, RawTypeStep, NormTypeStep, CopyTypeStep,
     IntegrityStep, OrderStep DEF BookInv, TypeOK

\* Type correctness, and that a valid BookIntegrityState has seen, since its
\* snapshot, every update up to its last_update_id: on_delta lets no gap pass,
\* for any stream of events.
THEOREM IntegrityCatchesGaps == Spec => []BookInv
  BY BookInit, BookStep, PTL DEF Spec

\* SymbolState.last_book never goes back to an older book while the service
\* runs: what _fetch_book finds is never older than what it found before,
\* through expired keys, lost events and restarts of the others.
THEOREM CopyMovesForward == Spec => BookMovesForward
<1>1. ASSUME BookInv, [Next]_vars, lastBook # None, lastBook' # None
      PROVE  lastBook'.id >= lastBook.id
  <2>1. lastBook' = lastBook \/ lastBook' = hot
    <3>1. CASE Dispatch
      BY <3>1, Dispatched
    <3>2. CASE AnalyticsCrash
      BY <1>1, <3>2 DEF AnalyticsCrash
    <3>3. ASSUME \/ Update \/ EmitDelta \/ EmitSnapshot \/ Connecting \/ Connect \/ Disconnect
                 \/ Publish \/ WriteHot \/ Expire \/ NormalizerCrash \/ UNCHANGED vars
          PROVE  UNCHANGED analyticsVars
      BY <3>3 DEF Update, EmitDelta, EmitSnapshot, Connecting, Connect, Disconnect, Publish,
                  WriteHot, Expire, NormalizerCrash, vars
    <3> QED BY <1>1, <3>1, <3>2, <3>3 DEF Next, analyticsVars
  <2>2. lastBook.id \in Nat /\ (hot # None => hot.id \in Nat)
    BY <1>1 DEF BookInv, TypeOK, CopyType, Books
  <2> QED BY <1>1, <2>1, <2>2 DEF BookInv, OldestFirst
<1>2. BookInv /\ [Next]_vars
        => [lastBook # None /\ lastBook' # None => lastBook'.id >= lastBook.id]_vars
  BY <1>1
<1> QED BY <1>2, IntegrityCatchesGaps, PTL DEF Spec, BookMovesForward

-----------------------------------------------------------------------------
\* Without the diff stream every copy is a book that the exchange had.

IsTrue(book) == book # None => book.id \in 0..LastId /\ book.levels = BookAt(book.id)

TrueCopies == IsTrue(pending) /\ IsTrue(hot) /\ IsTrue(lastBook)

TrueEvents ==
    \A i \in 1..Len(raw) :
      /\ raw[i].kind = "snapshot"
      /\ raw[i].last \in 0..LastId /\ raw[i].levels = BookAt(raw[i].last)

\* What is true of a copy stays true while the exchange goes on.
LEMMA TruthStays ==
  ASSUME ExchangeType, [Next]_vars, NEW book, IsTrue(book)
  PROVE  book # None => book.id \in 0..LastId' /\ book.levels = books'[book.id + 1]
  BY BooksGrow DEF IsTrue, BookAt, ExchangeType

LEMMA TrueEventsStep ==
  ASSUME ExchangeType, RawType, TrueEvents, [Next]_vars, ~EmitDelta
  PROVE  TrueEvents'
<1>1. /\ LastId' \in Nat /\ LastId' >= LastId /\ LastId \in Nat
      /\ \A i \in 0..LastId : books'[i + 1] = books[i + 1]
  BY BooksGrow DEF ExchangeType
<1>2. CASE UNCHANGED raw
  BY <1>1, <1>2 DEF TrueEvents, BookAt
<1>3. CASE EmitSnapshot
  <2> DEFINE event == [kind |-> "snapshot", first |-> LastId, last |-> LastId,
                       levels |-> BookAt(LastId)]
  <2>1. event.kind = "snapshot" /\ event.last = LastId /\ event.levels = BookAt(LastId)
    OBVIOUS
  <2>2. raw' = raw \/ raw' = Append(raw, event)
    BY <1>3, Forwarded DEF EmitSnapshot
  <2> HIDE DEF event
  <2>3. CASE raw' = Append(raw, event)
    <3> SUFFICES ASSUME NEW i \in 1..Len(raw')
                 PROVE  /\ raw'[i].kind = "snapshot" /\ raw'[i].last \in 0..LastId'
                        /\ raw'[i].levels = books'[raw'[i].last + 1]
      BY DEF TrueEvents, BookAt
    <3>1. CASE i \in 1..Len(raw)
      <4>1. raw'[i] = raw[i]
        BY <2>3, <3>1 DEF RawType
      <4> QED BY <1>1, <3>1, <4>1 DEF TrueEvents, BookAt
    <3>2. CASE i = Len(raw) + 1
      <4>1. raw'[i] = event
        BY <2>3, <3>2 DEF RawType
      <4>2. LastId \in 0..LastId /\ LastId \in 0..LastId'
        BY <1>1
      <4> QED BY <1>1, <2>1, <4>1, <4>2 DEF BookAt
    <3> QED BY <2>3, <3>1, <3>2 DEF RawType
  <2> QED BY <1>2, <2>2, <2>3
<1>4. ASSUME NEW n \in 0..Len(raw), raw' = SubSeq(raw, n + 1, Len(raw))
      PROVE  TrueEvents'
  <2> SUFFICES ASSUME NEW i \in 1..Len(raw')
               PROVE  /\ raw'[i].kind = "snapshot" /\ raw'[i].last \in 0..LastId'
                      /\ raw'[i].levels = books'[raw'[i].last + 1]
    BY DEF TrueEvents, BookAt
  <2>1. i + n \in 1..Len(raw) /\ raw'[i] = raw[i + n]
    BY <1>4 DEF RawType
  <2> QED BY <1>1, <2>1 DEF TrueEvents, BookAt
<1>5. CASE Publish
  <2>1. raw # <<>> /\ raw' = Tail(raw)
    BY <1>5 DEF Publish
  <2>2. 1 \in 0..Len(raw) /\ raw' = SubSeq(raw, 1 + 1, Len(raw))
    BY <2>1 DEF RawType
  <2> QED BY <1>4, <2>2
<1>6. CASE NormalizerCrash
  BY <1>4, <1>6 DEF NormalizerCrash
<1>7. ASSUME \/ Update \/ Connecting \/ Connect \/ Disconnect \/ WriteHot
             \/ Expire \/ Dispatch \/ AnalyticsCrash \/ UNCHANGED vars
      PROVE  UNCHANGED raw
  BY <1>7 DEF Update, Connecting, Connect, Disconnect, WriteHot, Expire, Dispatch,
              AnalyticsCrash, vars, ingestVars
<1> QED BY <1>2, <1>3, <1>5, <1>6, <1>7 DEF Next

LEMMA TrueCopiesStep ==
  ASSUME ExchangeType, RawType, TrueEvents, TrueCopies, [Next]_vars
  PROVE  TrueCopies'
<1> DEFINE StillTrue(book) ==
             book # None => book.id \in 0..LastId' /\ book.levels = books'[book.id + 1]
<1>1. StillTrue(pending) /\ StillTrue(hot) /\ StillTrue(lastBook)
  BY TruthStays DEF TrueCopies
<1>2. SUFFICES StillTrue(pending') /\ StillTrue(hot') /\ StillTrue(lastBook')
  BY DEF TrueCopies, IsTrue, BookAt
<1>3. StillTrue(None)
  OBVIOUS
<1>4. CASE Publish
  <2>1. Len(raw) > 0 /\ 1 \in 1..Len(raw) /\ Head(raw) = raw[1]
    BY <1>4 DEF Publish, RawType
  <2>2. /\ Head(raw).kind = "snapshot" /\ Head(raw).last \in 0..LastId
        /\ Head(raw).levels = BookAt(Head(raw).last)
    BY <2>1 DEF TrueEvents
  <2>3. HotWrite(Head(raw)) = [id |-> Head(raw).last, levels |-> Head(raw).levels]
    BY <2>2 DEF HotWrite
  <2>4. IsTrue(HotWrite(Head(raw)))
    BY <2>2, <2>3 DEF IsTrue
  <2>5. StillTrue(HotWrite(Head(raw)))
    BY <2>4, TruthStays
  <2>6. (pending' = pending \/ pending' = HotWrite(Head(raw))) /\ UNCHANGED <<hot, lastBook>>
    BY <1>4 DEF Publish, analyticsVars
  <2> HIDE DEF StillTrue
  <2> QED BY <1>1, <2>5, <2>6
<1>5. CASE WriteHot \/ Expire \/ NormalizerCrash
  <2>1. /\ pending' = pending \/ pending' = None
        /\ hot' = hot \/ hot' = pending \/ hot' = None
        /\ lastBook' = lastBook
    BY <1>5 DEF WriteHot, Expire, NormalizerCrash, analyticsVars
  <2> HIDE DEF StillTrue
  <2> QED BY <1>1, <1>3, <2>1
<1>6. CASE Dispatch \/ AnalyticsCrash
  <2>1. /\ UNCHANGED <<pending, hot>>
        /\ lastBook' = lastBook \/ lastBook' = hot \/ lastBook' = None
    BY <1>6, Dispatched DEF AnalyticsCrash, normalizerVars
  <2> HIDE DEF StillTrue
  <2> QED BY <1>1, <1>3, <2>1
<1>7. ASSUME \/ Update \/ EmitDelta \/ EmitSnapshot \/ Connecting \/ Connect \/ Disconnect
             \/ UNCHANGED vars
      PROVE  UNCHANGED <<pending, hot, lastBook>>
  BY <1>7 DEF Update, EmitDelta, EmitSnapshot, Connecting, Connect, Disconnect, vars,
              normalizerVars, analyticsVars
<1>8. CASE UNCHANGED <<pending, hot, lastBook>>
  <2> HIDE DEF StillTrue
  <2> QED BY <1>1, <1>8
<1> QED BY <1>4, <1>5, <1>6, <1>7, <1>8 DEF Next

\* Without the diff stream (the streams that the deployment guide lists), the
\* book that SnapshotBuilder.build reads is one that the exchange had, through
\* lost events, expired keys and crashes.
THEOREM DeployedBookIsTrue ==
  ASSUME "depth" \notin Streams
  PROVE  Spec => [](BookIsTrue /\ ValidBookIsTrue)
<1> DEFINE Inv == BookInv /\ TrueEvents /\ TrueCopies
<1>1. Init => Inv
  <2>1. Init => TrueEvents /\ TrueCopies
    BY DEF Init, TrueEvents, TrueCopies, IsTrue
  <2> QED BY <2>1, BookInit
<1>2. Inv /\ [Next]_vars => Inv'
  <2>1. ~EmitDelta
    BY DEF EmitDelta
  <2> QED BY <2>1, BookStep, TrueEventsStep, TrueCopiesStep DEF BookInv, TypeOK
<1>3. Inv => BookIsTrue /\ ValidBookIsTrue
  BY DEF TrueCopies, IsTrue, BookIsTrue, ValidBookIsTrue
<1> QED BY <1>1, <1>2, <1>3, PTL DEF Spec

-----------------------------------------------------------------------------
\* With the diff stream, until the first failure: every event is true of the
\* books that it leads from and to, and none is missing between two.

\* A level that no update of a range sets is the same at both ends of it.
Settled ==
    \A p \in Prices : \A a, b \in 0..LastId :
      a <= b /\ (\A i \in (a + 1)..b : BookAt(i)[p] = BookAt(i - 1)[p])
        => BookAt(a)[p] = BookAt(b)[p]

\* An event that is true of a sequence of books: as BookAt and Touched have it.
TrueOf(bs, e) ==
    /\ e.last \in 0..(Len(bs) - 1)
    /\ \/ e.kind = "snapshot" /\ e.levels = bs[e.last + 1]
       \/ /\ e.kind = "delta" /\ e.first \in 1..e.last
          /\ e.levels = [p \in {q \in Prices : \E i \in e.first..e.last :
                                   bs[i + 1][q] # bs[i - 1 + 1][q]} |-> bs[e.last + 1][p]]

\* The book that the next event is applied to.
Current == IF pending # None THEN pending ELSE hot

EventsLinked ==
    /\ \A i \in DOMAIN raw : TrueOf(books, raw[i])
    /\ \A i \in DOMAIN raw \ {1} : raw[i].kind = "delta" => raw[i].first <= raw[i - 1].last + 1

EndsLinked ==
    /\ raw # <<>> =>
         /\ sent <= raw[Len(raw)].last
         /\ Current # None /\ raw[1].kind = "delta" => raw[1].first <= Current.id + 1
    /\ raw = <<>> /\ Current # None => sent <= Current.id
    /\ ~socket => raw = <<>> /\ Current = None

LEMMA SettledStep == ASSUME ExchangeType, Settled, [Next]_vars PROVE Settled'
<1>1. /\ LastId' \in Nat /\ LastId' >= LastId /\ LastId \in Nat
      /\ \A i \in 0..LastId : books'[i + 1] = books[i + 1]
  BY BooksGrow DEF ExchangeType
<1>2. LastId' = LastId \/ LastId' = LastId + 1
  <2>1. CASE Update
    BY <2>1 DEF Update, ExchangeType, LastId
  <2>2. ASSUME \/ EmitDelta \/ EmitSnapshot \/ Connecting \/ Connect \/ Disconnect
               \/ Publish \/ WriteHot \/ Expire \/ NormalizerCrash
               \/ Dispatch \/ AnalyticsCrash \/ UNCHANGED vars
        PROVE  UNCHANGED books
    BY <2>2 DEF EmitDelta, EmitSnapshot, Connecting, Connect, Disconnect, Publish, WriteHot,
                Expire, NormalizerCrash, Dispatch, AnalyticsCrash, exchangeVars, vars
  <2> QED BY <2>1, <2>2 DEF Next, LastId
<1> SUFFICES ASSUME NEW p \in Prices, NEW a \in 0..LastId', NEW b \in 0..LastId', a <= b,
                    \A i \in (a + 1)..b : books'[i + 1][p] = books'[i - 1 + 1][p]
             PROVE  books'[a + 1][p] = books'[b + 1][p]
  BY DEF Settled, BookAt
<1>3. ASSUME NEW c \in 0..LastId, a <= c, c <= b
      PROVE  books'[a + 1][p] = books'[c + 1][p]
  <2>1. a \in 0..LastId
    BY <1>1, <1>3
  <2>2. ASSUME NEW i \in (a + 1)..c PROVE books[i + 1][p] = books[i - 1 + 1][p]
    <3>1. i \in (a + 1)..b /\ i \in 0..LastId /\ i - 1 \in 0..LastId
      BY <1>1, <1>3, <2>1
    <3>2. books'[i + 1] = books[i + 1] /\ books'[i - 1 + 1] = books[i - 1 + 1]
      BY <1>1, <3>1
    <3> QED BY <3>1, <3>2
  <2>3. books[a + 1][p] = books[c + 1][p]
    BY <1>3, <2>1, <2>2 DEF Settled, BookAt
  <2> QED BY <1>1, <1>3, <2>1, <2>3
<1>4. CASE b \in 0..LastId
  BY <1>3, <1>4
<1>5. CASE b = LastId + 1 /\ a # b
  <2>1. LastId \in 0..LastId /\ a <= LastId /\ LastId <= b /\ b \in (a + 1)..b /\ b - 1 = LastId
    BY <1>1, <1>5
  <2>2. books'[a + 1][p] = books'[LastId + 1][p]
    BY <1>3, <2>1
  <2>3. books'[b + 1][p] = books'[b - 1 + 1][p]
    BY <2>1
  <2> QED BY <2>1, <2>2, <2>3
<1> QED BY <1>1, <1>2, <1>4, <1>5

\* _apply_delta over a true book, with no update missing, gives a true book.
LEMMA MergeIsTrue ==
  ASSUME ExchangeType, Settled, CopyType, hot # None, IsTrue(hot),
         NEW event, TrueOf(books, event), event.kind = "delta",
         hot.id <= event.last, event.first <= hot.id + 1
  PROVE  IsTrue(Merge(hot, event))
<1> DEFINE first == event.first
           last == event.last
<1>1. /\ last \in 0..LastId /\ first \in 1..last /\ event.levels = Touched(first, last)
      /\ hot.id \in 0..LastId /\ hot.levels = BookAt(hot.id) /\ LastId \in Nat
  BY DEF TrueOf, Touched, BookAt, LastId, IsTrue, ExchangeType
<1>2. BookAt(last) \in [Prices -> Quantities]
  BY <1>1, BookType
<1>3. ASSUME NEW p \in Prices, p \notin DOMAIN event.levels
      PROVE  BookAt(hot.id)[p] = BookAt(last)[p]
  <2>1. \A i \in first..last : BookAt(i)[p] = BookAt(i - 1)[p]
    BY <1>1, <1>3 DEF Touched
  <2>2. \A i \in (hot.id + 1)..last : i \in first..last
    BY <1>1
  <2> QED BY <1>1, <2>1, <2>2 DEF Settled
<1>4. ASSUME NEW p \in DOMAIN event.levels PROVE event.levels[p] = BookAt(last)[p]
  BY <1>1, <1>4 DEF Touched
<1>5. Merge(hot, event).levels = [p \in Prices |-> BookAt(last)[p]]
  BY <1>1, <1>3, <1>4 DEF Merge
<1>6. Merge(hot, event).levels = BookAt(last) /\ Merge(hot, event).id = last
  BY <1>2, <1>5 DEF Merge
<1> QED BY <1>1, <1>6 DEF IsTrue

\* What is true of an event stays true while the exchange goes on.
LEMMA EventStaysTrue ==
  ASSUME ExchangeType, [Next]_vars, NEW e, TrueOf(books, e)
  PROVE  TrueOf(books', e)
<1>1. /\ LastId' \in Nat /\ LastId' >= LastId /\ LastId \in Nat
      /\ \A i \in 0..LastId : books'[i + 1] = books[i + 1]
  BY BooksGrow DEF ExchangeType
<1>2. e.last \in 0..LastId /\ e.last \in 0..LastId'
  BY <1>1 DEF TrueOf, LastId
<1>3. CASE e.kind = "snapshot" /\ e.levels = books[e.last + 1]
  BY <1>1, <1>2, <1>3 DEF TrueOf, LastId
<1>4. CASE e.kind = "delta" /\ e.first \in 1..e.last
  <2>1. \A i \in e.first..e.last : i \in 0..LastId /\ i - 1 \in 0..LastId
    BY <1>1, <1>2, <1>4
  <2>2. \A i \in e.first..e.last :
          books'[i + 1] = books[i + 1] /\ books'[i - 1 + 1] = books[i - 1 + 1]
    BY <1>1, <2>1
  <2>3. books'[e.last + 1] = books[e.last + 1]
    BY <1>1, <1>2
  <2>4. e.levels = [p \in {q \in Prices : \E i \in e.first..e.last :
                             books[i + 1][q] # books[i - 1 + 1][q]} |-> books[e.last + 1][p]]
    BY <1>4 DEF TrueOf
  <2>5. e.levels = [p \in {q \in Prices : \E i \in e.first..e.last :
                             books'[i + 1][q] # books'[i - 1 + 1][q]} |-> books'[e.last + 1][p]]
    BY <2>2, <2>3, <2>4
  <2> QED BY <1>2, <1>4, <2>5 DEF TrueOf, LastId
<1> QED BY <1>3, <1>4 DEF TrueOf

\* What is sent next follows on what was sent before.
LEMMA SentIsLinked ==
  ASSUME ExchangeType, RawType, CopyType, EventsLinked, EndsLinked, [Next]_vars,
         NEW event, TrueOf(books, event), event.last = LastId, sent' <= LastId,
         event.kind = "delta" => event.first = sent + 1,
         raw' = Append(raw, event), socket, socket' = socket, Current' = Current
  PROVE  (EventsLinked /\ EndsLinked)'
<1>1. /\ DOMAIN raw' = 1..Len(raw) + 1 /\ DOMAIN raw = 1..Len(raw) /\ Len(raw) \in Nat
      /\ Len(raw') = Len(raw) + 1 /\ raw' # <<>>
      /\ \A i \in 1..Len(raw) : raw'[i] = raw[i]
      /\ raw'[Len(raw) + 1] = event
  BY DEF RawType
<1>2. \A i \in DOMAIN raw : TrueOf(books', raw[i])
  BY EventStaysTrue DEF EventsLinked
<1>3. TrueOf(books', event)
  BY EventStaysTrue
<1>4. \A i \in DOMAIN raw' : TrueOf(books', raw'[i])
  <2> SUFFICES ASSUME NEW i \in DOMAIN raw' PROVE TrueOf(books', raw'[i])
    OBVIOUS
  <2>1. CASE i \in DOMAIN raw
    BY <1>1, <1>2, <2>1
  <2>2. CASE i = Len(raw) + 1
    BY <1>1, <1>3, <2>2
  <2> QED BY <1>1, <2>1, <2>2
<1>5. sent \in Nat /\ (Len(raw) > 0 => raw[Len(raw)].last \in Nat)
  <2>1. Len(raw) > 0 => raw[Len(raw)] \in RawSnapshots \cup RawDeltas
    BY DEF RawType
  <2>2. \A e \in RawSnapshots \cup RawDeltas : e.last \in Nat
    BY DEF RawSnapshots, RawDeltas
  <2> QED BY <2>1, <2>2 DEF ExchangeType
<1>6. ASSUME NEW i \in DOMAIN raw' \ {1}, raw'[i].kind = "delta"
      PROVE  raw'[i].first <= raw'[i - 1].last + 1
  <2>1. CASE i \in DOMAIN raw
    <3>1. i - 1 \in 1..Len(raw) /\ i \in DOMAIN raw \ {1}
      BY <1>1, <1>6, <2>1
    <3> QED BY <1>1, <1>6, <2>1, <3>1 DEF EventsLinked
  <2>2. CASE i = Len(raw) + 1
    <3>1. Len(raw) > 0 /\ i - 1 = Len(raw) /\ Len(raw) \in 1..Len(raw)
      BY <1>1, <1>6, <2>2
    <3>2. raw # <<>> /\ raw'[i - 1] = raw[Len(raw)]
      BY <1>1, <3>1
    <3>3. sent <= raw[Len(raw)].last
      BY <3>2 DEF EndsLinked
    <3>4. raw'[i].first = sent + 1
      BY <1>1, <1>6, <2>2
    <3> QED BY <1>5, <3>1, <3>2, <3>3, <3>4
  <2> QED BY <1>1, <2>1, <2>2
<1>7. EventsLinked'
  BY <1>4, <1>6 DEF EventsLinked
<1>8. sent' <= raw'[Len(raw')].last
  BY <1>1
<1>9. ASSUME Current # None, raw'[1].kind = "delta" PROVE raw'[1].first <= Current.id + 1
  <2>1. CASE raw = <<>>
    <3>1. Len(raw) = 0 /\ raw'[1] = event
      BY <1>1, <2>1
    <3>2. event.first = sent + 1 /\ sent <= Current.id
      BY <1>9, <2>1, <3>1 DEF EndsLinked
    <3>3. Current.id \in Nat
      BY <1>9 DEF Current, CopyType, Books
    <3> QED BY <1>5, <3>1, <3>2, <3>3
  <2>2. CASE raw # <<>>
    <3>1. raw'[1] = raw[1]
      BY <1>1, <2>2 DEF RawType
    <3> QED BY <1>9, <2>2, <3>1 DEF EndsLinked
  <2> QED BY <2>1, <2>2
<1> QED BY <1>1, <1>7, <1>8, <1>9 DEF EndsLinked

\* What Publish makes of the first event is a book of the exchange, and the
\* next event follows on it.
LEMMA DeliveredIsLinked ==
  ASSUME BookInv, Settled, EventsLinked, EndsLinked, IsTrue(hot), [Next]_vars,
         raw # <<>>, raw' = Tail(raw), pending = None, pending' = HotWrite(Head(raw)),
         UNCHANGED <<hot, sent, socket>>
  PROVE  EventsLinked' /\ EndsLinked' /\ IsTrue(pending')
<1>1. /\ DOMAIN raw = 1..Len(raw) /\ Len(raw) \in Nat \ {0} /\ Len(raw') = Len(raw) - 1
      /\ DOMAIN raw' = 1..(Len(raw) - 1) /\ Head(raw) = raw[1] /\ 1 \in DOMAIN raw
      /\ \A i \in DOMAIN raw' : i + 1 \in DOMAIN raw \ {1} /\ raw'[i] = raw[i + 1]
  BY DEF BookInv, TypeOK, RawType
<1>2. TrueOf(books, raw[1]) /\ raw[1].last \in Nat
  <2>1. raw[1] \in RawSnapshots \cup RawDeltas
    BY <1>1 DEF BookInv, TypeOK, RawType
  <2> QED BY <1>1, <2>1 DEF EventsLinked, RawSnapshots, RawDeltas
<1>3. ExchangeType /\ CopyType /\ OldestFirst
  BY DEF BookInv, TypeOK
<1>4. hot # None => hot.id \in Nat /\ hot.id <= raw[1].last
  BY <1>1, <1>3 DEF CopyType, Books, OldestFirst
<1>5. ASSUME raw[1].kind = "snapshot" PROVE IsTrue(pending') /\ pending' \in Books
  <2>1. raw[1].last \in 0..LastId /\ raw[1].levels = BookAt(raw[1].last)
    BY <1>2, <1>5 DEF TrueOf, BookAt, LastId
  <2>2. pending' = [id |-> raw[1].last, levels |-> BookAt(raw[1].last)]
    BY <1>1, <1>5, <2>1 DEF HotWrite
  <2>3. BookAt(raw[1].last) \in [Prices -> Quantities]
    BY <1>3, <2>1, BookType
  <2> QED BY <1>2, <2>1, <2>2, <2>3 DEF IsTrue, Books
<1>6. ASSUME raw[1].kind = "delta", hot # None PROVE IsTrue(pending') /\ pending' \in Books
  <2>1. raw[1].first <= hot.id + 1
    BY <1>6 DEF EndsLinked, Current
  <2>2. IsTrue(Merge(hot, raw[1]))
    BY <1>2, <1>3, <1>4, <1>6, <2>1, MergeIsTrue
  <2>3. pending' = Merge(hot, raw[1])
    BY <1>1, <1>6 DEF HotWrite
  <2>4. Merge(hot, raw[1]) \in Books
    <3>1. hot \in Books /\ hot.levels \in [Prices -> Quantities]
      BY <1>3, <1>6 DEF CopyType, Books
    <3>2. raw[1] \in RawDeltas
      BY <1>1, <1>6 DEF BookInv, TypeOK, RawType, RawSnapshots, RawDeltas
    <3>3. PICK S \in SUBSET Prices : raw[1].levels \in [S -> Quantities]
      BY <3>2 DEF RawDeltas
    <3>4. [p \in Prices |-> IF p \in DOMAIN raw[1].levels THEN raw[1].levels[p]
                                                         ELSE hot.levels[p]]
            \in [Prices -> Quantities]
      BY <3>1, <3>3
    <3> QED BY <1>2, <3>4 DEF Merge, Books
  <2> QED BY <2>2, <2>3, <2>4
<1>7. ASSUME raw[1].kind = "delta", hot = None PROVE pending' = None
  BY <1>1, <1>7 DEF HotWrite
<1>8. IsTrue(pending')
  <2>1. IsTrue(None)
    BY DEF IsTrue
  <2>2. raw[1].kind \in {"snapshot", "delta"}
    BY <1>2 DEF TrueOf
  <2> QED BY <1>5, <1>6, <1>7, <2>1, <2>2
\* The book that the next event meets, if there is one, is the one just made.
<1>9. ASSUME Current' # None PROVE Current'.id = raw[1].last
  <2>1. CASE pending' # None
    BY <1>1, <2>1, HotWriteId DEF Current
  <2>2. CASE pending' = None
    <3>1. raw[1].kind \in {"snapshot", "delta"}
      BY <1>2 DEF TrueOf
    <3>2. None \notin Books
      BY BookAssumption DEF Books
    <3>3. hot = None
      BY <1>5, <1>6, <2>2, <3>1, <3>2
    <3> QED BY <1>9, <2>2, <3>3 DEF Current
  <2> QED BY <2>1, <2>2
<1>10. EventsLinked'
  <2>1. ASSUME NEW i \in DOMAIN raw' PROVE TrueOf(books', raw'[i])
    <3>1. TrueOf(books, raw[i + 1])
      BY <1>1 DEF EventsLinked
    <3>2. TrueOf(books', raw[i + 1])
      BY <1>3, <3>1, EventStaysTrue
    <3> QED BY <1>1, <3>2
  <2>2. ASSUME NEW i \in DOMAIN raw' \ {1}, raw'[i].kind = "delta"
        PROVE  raw'[i].first <= raw'[i - 1].last + 1
    <3>1. i - 1 \in DOMAIN raw' /\ i + 1 - 1 = i - 1 + 1
      BY <1>1
    <3>2. raw'[i] = raw[i + 1] /\ raw'[i - 1] = raw[i + 1 - 1] /\ i + 1 \in DOMAIN raw \ {1}
      BY <1>1, <3>1
    <3> QED BY <2>2, <3>2 DEF EventsLinked
  <2> QED BY <2>1, <2>2 DEF EventsLinked
<1>11. ASSUME raw' # <<>>
       PROVE  /\ sent' <= raw'[Len(raw')].last
              /\ Current' # None /\ raw'[1].kind = "delta" => raw'[1].first <= Current'.id + 1
  <2>1. Len(raw') # 0 /\ Len(raw') \in Nat
    <3>1. raw \in Seq(RawSnapshots \cup RawDeltas)
      BY DEF BookInv, TypeOK, RawType
    <3> QED BY <1>1, <1>11, <3>1
  <2>2. 1 \in DOMAIN raw' /\ Len(raw') \in DOMAIN raw' /\ Len(raw') + 1 = Len(raw)
    BY <1>1, <2>1
  <2>3. raw'[Len(raw')] = raw[Len(raw)] /\ raw'[1] = raw[2] /\ 2 \in DOMAIN raw \ {1}
    BY <1>1, <2>2
  <2>4. raw[2].kind = "delta" => raw[2].first <= raw[1].last + 1
    <3>1. 2 - 1 = 1
      OBVIOUS
    <3> QED BY <2>3, <3>1 DEF EventsLinked
  <2> QED BY <1>9, <2>3, <2>4 DEF EndsLinked
<1>12. ASSUME raw' = <<>>, Current' # None PROVE sent' <= Current'.id
  <2>1. Len(raw') = 0
    <3>1. Len(<<>>) = 0
      OBVIOUS
    <3> QED BY ONLY <1>12, <3>1
  <2>2. Len(raw) = 1
    BY ONLY <1>1, <2>1, SMT
  <2> QED BY <1>9, <1>12, <2>2 DEF EndsLinked
<1>13. socket'
  BY DEF EndsLinked
<1> QED BY <1>8, <1>10, <1>11, <1>12, <1>13 DEF EndsLinked

Linked == EventsLinked /\ EndsLinked /\ TrueCopies

LEMMA LinkedStep ==
  ASSUME BookInv, Settled, Linked, Next, ~Fault
  PROVE  Linked'
<1>0. /\ ExchangeType /\ RawType /\ CopyType /\ EventsLinked /\ EndsLinked
      /\ IsTrue(pending) /\ IsTrue(hot) /\ IsTrue(lastBook)
  BY DEF BookInv, TypeOK, Linked, TrueCopies
<1> DEFINE StillTrue(book) ==
             book # None => book.id \in 0..LastId' /\ book.levels = books'[book.id + 1]
<1>1. ASSUME NEW book, IsTrue(book) PROVE StillTrue(book)
  BY <1>0, <1>1, TruthStays
<1>2. ASSUME StillTrue(pending'), StillTrue(hot'), StillTrue(lastBook') PROVE TrueCopies'
  BY <1>2 DEF TrueCopies, IsTrue, BookAt
<1>3. StillTrue(pending) /\ StillTrue(hot) /\ StillTrue(lastBook) /\ StillTrue(None)
  BY <1>0, <1>1
<1> HIDE DEF StillTrue
\* Steps of others leave the links as they are.
<1>4. ASSUME UNCHANGED <<raw, sent>>, Current' = Current, socket => socket'
      PROVE  EventsLinked' /\ EndsLinked'
  <2>1. \A i \in DOMAIN raw : TrueOf(books', raw[i])
    BY <1>0, EventStaysTrue DEF EventsLinked
  <2> QED BY <1>0, <1>4, <2>1 DEF EventsLinked, EndsLinked
<1>5. ASSUME NEW event, TrueOf(books, event), event.last = LastId, sent' <= LastId,
             event.kind = "delta" => event.first = sent + 1, Forward(event),
             UNCHANGED <<books, socket, pending, hot, lastBook>>
      PROVE  Linked'
  <2>1. Current' = Current
    BY <1>5 DEF Current
  <2>2. TrueCopies'
    BY <1>2, <1>3, <1>5
  <2>3. CASE socket
    <3>1. raw' = Append(raw, event)
      BY <1>5, <2>3 DEF Forward
    <3> QED BY <1>0, <1>5, <2>1, <2>2, <2>3, <3>1, SentIsLinked DEF Linked
  <2>4. CASE ~socket
    <3>1. raw' = raw /\ raw = <<>> /\ Current = None
      BY <1>0, <1>5, <2>4 DEF Forward, EndsLinked
    <3>2. EventsLinked'
      BY <3>1 DEF EventsLinked
    <3>3. EndsLinked'
      BY <1>5, <2>1, <2>4, <3>1 DEF EndsLinked
    <3> QED BY <2>2, <3>2, <3>3 DEF Linked
  <2> QED BY <2>3, <2>4
<1>6. CASE EmitDelta
  <2> DEFINE event == [kind |-> "delta", first |-> sent + 1, last |-> sent',
                       levels |-> Touched(sent + 1, sent')]
  <2>1. sent' = LastId /\ sent < LastId /\ sent \in Nat /\ LastId \in Nat
    BY <1>0, <1>6 DEF EmitDelta, ExchangeType
  <2>2. event.last = LastId /\ event.kind = "delta" /\ event.first = sent + 1
        /\ event.levels = Touched(event.first, event.last)
    BY <2>1
  <2>3. Forward(event) /\ UNCHANGED <<books, socket, pending, hot, lastBook>>
    BY <1>6 DEF EmitDelta, normalizerVars, analyticsVars
  <2> HIDE DEF event
  <2>4. TrueOf(books, event)
    BY <2>1, <2>2 DEF TrueOf, Touched, BookAt, LastId
  <2> QED BY <1>5, <2>1, <2>2, <2>3, <2>4
<1>7. CASE EmitSnapshot
  <2> DEFINE event == [kind |-> "snapshot", first |-> LastId, last |-> LastId,
                       levels |-> BookAt(LastId)]
  <2>1. sent' = sent /\ sent <= LastId /\ LastId \in Nat
    BY <1>0, <1>7 DEF EmitSnapshot, ExchangeType, exchangeVars
  <2>2. event.last = LastId /\ event.kind = "snapshot" /\ event.levels = BookAt(LastId)
    OBVIOUS
  <2>3. Forward(event) /\ UNCHANGED <<books, socket, pending, hot, lastBook>>
    BY <1>7 DEF EmitSnapshot, normalizerVars, analyticsVars, exchangeVars
  <2> HIDE DEF event
  <2>4. TrueOf(books, event)
    BY <2>1, <2>2 DEF TrueOf, BookAt, LastId
  <2> QED BY <1>5, <2>1, <2>2, <2>3, <2>4
<1>8. CASE Publish
  <2>1. /\ raw # <<>> /\ raw' = Tail(raw) /\ pending = None
        /\ pending' = HotWrite(Head(raw))
        /\ UNCHANGED <<hot, sent, socket, books, lastBook>>
    BY <1>8 DEF Publish, exchangeVars, analyticsVars
  <2>2. EventsLinked' /\ EndsLinked' /\ IsTrue(pending')
    BY <1>0, <2>1, DeliveredIsLinked
  <2>3. TrueCopies'
    <3>1. StillTrue(pending')
      BY <2>1, <2>2 DEF StillTrue, IsTrue, BookAt, LastId
    <3> QED BY <1>2, <1>3, <2>1, <3>1
  <2> QED BY <2>2, <2>3 DEF Linked
<1>9. CASE WriteHot
  <2>1. /\ pending # None /\ pending' = None /\ hot' = pending
        /\ UNCHANGED <<raw, sent, socket, lastBook>>
    BY <1>9 DEF WriteHot, exchangeVars, ingestVars, analyticsVars
  <2>2. Current' = Current
    BY <2>1 DEF Current
  <2> QED BY <1>2, <1>3, <1>4, <2>1, <2>2 DEF Linked
<1>10. CASE Dispatch
  <2>1. /\ UNCHANGED <<pending, hot, raw, sent, socket>>
        /\ lastBook' = lastBook \/ lastBook' = hot
    BY <1>10, Dispatched DEF Dispatch, exchangeVars, ingestVars
  <2>2. Current' = Current
    BY <2>1 DEF Current
  <2> QED BY <1>2, <1>3, <1>4, <2>1, <2>2 DEF Linked
<1>11. CASE Update \/ Connecting \/ Connect
  <2>1. UNCHANGED <<pending, hot, lastBook, raw, sent>> /\ (socket => socket')
    BY <1>11 DEF Update, Connecting, Connect, exchangeVars, ingestVars, normalizerVars,
                 analyticsVars
  <2>2. Current' = Current
    BY <2>1 DEF Current
  <2> QED BY <1>2, <1>3, <1>4, <2>1, <2>2 DEF Linked
<1>12. ~Disconnect /\ ~Expire /\ ~NormalizerCrash /\ ~AnalyticsCrash
  BY DEF Disconnect, Expire, NormalizerCrash, AnalyticsCrash
<1> QED BY <1>6, <1>7, <1>8, <1>9, <1>10, <1>11, <1>12 DEF Next

\* What SnapshotBuilder.build reads is a book that the exchange had, whatever is
\* subscribed: as long as no event of the diff stream was sent, through every
\* failure, and with both streams until the first one.
THEOREM BookIsTrueUntilFailure == Spec => []ValidBookIsTrue
<1> DEFINE Inv == /\ BookInv /\ Settled
                  /\ sent = 0 => TrueEvents /\ TrueCopies
                  /\ faults = 0 => Linked
<1>1. Init => Inv
  <2> SUFFICES ASSUME Init PROVE Inv
    OBVIOUS
  <2>1. LastId = 0
    BY DEF Init, LastId
  <2>2. Settled
    BY <2>1 DEF Settled
  <2>3. TrueEvents /\ TrueCopies /\ EventsLinked /\ EndsLinked
    BY DEF Init, TrueEvents, TrueCopies, IsTrue, EventsLinked, EndsLinked, Current
  <2> QED BY <2>2, <2>3, BookInit DEF Linked
<1>2. Inv /\ [Next]_vars => Inv'
  <2> SUFFICES ASSUME Inv, [Next]_vars PROVE Inv'
    OBVIOUS
  <2>1. ExchangeType /\ RawType /\ BookInv /\ faults \in Nat /\ sent \in Nat
    BY DEF BookInv, TypeOK, ExchangeType, ConnectionType
  <2>2. BookInv' /\ Settled'
    BY <2>1, BookStep, SettledStep
  <2>3. ASSUME sent' = 0 PROVE TrueEvents' /\ TrueCopies'
    <3>1. ~EmitDelta
      BY <2>1, <2>3 DEF EmitDelta, ExchangeType
    <3>2. sent = 0
      <4>1. ASSUME \/ Update \/ EmitSnapshot \/ Connecting \/ Connect \/ Disconnect
                   \/ Publish \/ WriteHot \/ Expire \/ NormalizerCrash
                   \/ Dispatch \/ AnalyticsCrash \/ UNCHANGED vars
            PROVE  sent' = sent
        BY <4>1 DEF Update, EmitSnapshot, Connecting, Connect, Disconnect, Publish, WriteHot,
                    Expire, NormalizerCrash, Dispatch, AnalyticsCrash, exchangeVars, vars
      <4> QED BY <2>3, <3>1, <4>1 DEF Next
    <3> QED BY <2>1, <3>1, <3>2, TrueEventsStep, TrueCopiesStep
  <2>4. ASSUME faults' = 0 PROVE Linked'
    <3>1. ~Fault
      BY <2>1, <2>4 DEF Fault
    <3>2. faults = 0
      <4>1. ASSUME Next PROVE faults' = faults \/ Fault
        BY <4>1 DEF Next, Update, EmitDelta, EmitSnapshot, Forward, Connecting, Connect,
                    Disconnect, Publish, WriteHot, Expire, NormalizerCrash, Dispatch,
                    AnalyticsCrash
      <4> QED BY <2>4, <3>1, <4>1 DEF vars
    <3>3. CASE Next
      BY <2>1, <3>1, <3>2, <3>3, LinkedStep
    <3>4. CASE UNCHANGED vars
      <4>1. UNCHANGED <<books, sent, raw, socket, pending, hot, lastBook>>
        BY <3>4 DEF vars, exchangeVars, ingestVars, normalizerVars, analyticsVars
      <4> QED BY <3>2, <4>1 DEF Linked, EventsLinked, EndsLinked, TrueCopies, IsTrue, Current,
                                BookAt, LastId
    <3> QED BY <3>3, <3>4
  <2> QED BY <2>2, <2>3, <2>4
<1>3. Inv => ValidBookIsTrue
  BY DEF Linked, TrueCopies, IsTrue, BookIsTrue, ValidBookIsTrue
<1> QED BY <1>1, <1>2, <1>3, PTL DEF Spec
=============================================================================
