----------------------------- MODULE MarketBook -----------------------------
(***************************************************************************)
(* The order book of one symbol on its way from the exchange to the        *)
(* decision snapshot: the public stream subscriber of binance-ingest       *)
(* (connection state, reconnects), stream:binance:raw, the normalizer      *)
(* (read-modify-write of the hot book key, then a separate publication),   *)
(* stream:binance:normalized, and the analytics dispatcher with its        *)
(* BookIntegrityState and its copy of the book.                            *)
(*                                                                         *)
(* The exchange numbers its updates; update i sets one price level.  The   *)
(* diff stream "depth" sends ranges of updates, the partial-book stream    *)
(* "depth5" the whole book: Streams says which of the two are subscribed.  *)
(*                                                                         *)
(* Bounds: MaxUpdates updates, MaxQueue entries in either Redis stream,    *)
(* MaxFaults failures (a close, a lost publication, a failed Redis call,   *)
(* an expired key, a crash).                                               *)
(***************************************************************************)
EXTENDS Integers, Sequences

CONSTANTS Prices, Quantities, Streams, MaxUpdates, MaxQueue, MaxFaults, None

ASSUME BookAssumption ==
    /\ Quantities \subseteq Nat /\ 0 \in Quantities
    /\ Streams \subseteq {"depth", "depth5"}
    /\ MaxUpdates \in Nat /\ MaxQueue \in Nat \ {0} /\ MaxFaults \in Nat
    /\ None \notin [id : Nat, levels : [Prices -> Quantities]]

VARIABLES
    books,      \* the exchange's book before and after each of its updates
    sent,       \* the last update that the diff stream has covered
    socket,     \* the websocket is open
    info,       \* ConnectionInfo.state, what the health route reports
    raw,        \* stream:binance:raw, not yet delivered
    pending,    \* the normalizer's hot write between publish and write_all
    norm,       \* stream:binance:normalized, not yet delivered
    hot,        \* the market_book key in Redis
    integrity,  \* BookIntegrityState
    lastBook,   \* SymbolState.last_book
    applied,    \* history: updates in the deltas applied since the snapshot
    base,       \* history: the id of that snapshot
    faults

exchangeVars == <<books, sent>>
ingestVars == <<socket, info, raw>>
normalizerVars == <<pending, hot>>
analyticsVars == <<integrity, lastBook, applied, base>>
vars == <<exchangeVars, ingestVars, normalizerVars, norm, analyticsVars, faults>>

Fault == faults < MaxFaults /\ faults' = faults + 1

-----------------------------------------------------------------------------
\* The exchange.

LastId == Len(books) - 1
BookAt(id) == books[id + 1]

\* What a diff event for updates first..last carries: the levels they change.
Touched(first, last) ==
    [p \in {q \in Prices : \E i \in first..last : BookAt(i)[q] # BookAt(i - 1)[q]}
        |-> BookAt(last)[p]]

Init ==
    /\ books = <<[p \in Prices |-> 0]>> /\ sent = 0
    /\ socket = FALSE /\ info = "disconnected" /\ raw = <<>>
    /\ pending = None /\ hot = None
    /\ norm = <<>>
    /\ integrity = [has_snapshot |-> FALSE, last_update_id |-> 0, is_valid |-> FALSE]
    /\ lastBook = None
    /\ applied = {} /\ base = 0
    /\ faults = 0

Update ==
    /\ LastId < MaxUpdates
    /\ \E p \in Prices, q \in Quantities :
         books' = Append(books, [BookAt(LastId) EXCEPT ![p] = q])
    /\ UNCHANGED <<sent, ingestVars, normalizerVars, norm, analyticsVars, faults>>

\* The subscriber forwards what arrives on an open socket (public.py run); an
\* event that arrives on no socket, or whose publication raises, is lost.
Forward(event) ==
    \/ socket /\ Len(raw) < MaxQueue /\ raw' = Append(raw, event) /\ UNCHANGED faults
    \/ ~socket /\ UNCHANGED <<raw, faults>>
    \/ socket /\ Fault /\ UNCHANGED raw

EmitDelta ==
    /\ "depth" \in Streams
    /\ sent < LastId
    /\ sent' = LastId
    /\ Forward([kind |-> "delta", first |-> sent + 1, last |-> sent',
                levels |-> Touched(sent + 1, sent')])
    /\ UNCHANGED <<books, socket, info, normalizerVars, norm, analyticsVars>>

\* "sends full snapshots each tick" (router.py:53).
EmitSnapshot ==
    /\ "depth5" \in Streams /\ socket
    /\ Forward([kind |-> "snapshot", first |-> LastId, last |-> LastId,
                levels |-> BookAt(LastId)])
    /\ UNCHANGED <<exchangeVars, socket, info, normalizerVars, norm, analyticsVars>>

-----------------------------------------------------------------------------
\* binance-ingest: PublicStreamSubscriber.run.

Connecting ==
    /\ ~socket /\ info # "connecting"
    /\ info' = "connecting"
    /\ UNCHANGED <<exchangeVars, socket, raw, normalizerVars, norm, analyticsVars, faults>>

Connect ==
    /\ ~socket /\ info = "connecting"
    /\ socket' = TRUE /\ info' = "connected"
    /\ UNCHANGED <<exchangeVars, raw, normalizerVars, norm, analyticsVars, faults>>

\* An exception out of connect or out of the read loop marks the connection as
\* reconnecting; a normal close ends the loop and marks nothing.
Disconnect ==
    /\ Fault
    /\ \/ socket \/ info = "connecting"
    /\ socket' = FALSE
    /\ \/ info' = "reconnecting"
       \/ socket /\ UNCHANGED info
    /\ UNCHANGED <<exchangeVars, raw, normalizerVars, norm, analyticsVars>>

-----------------------------------------------------------------------------
\* The normalizer: _process, handle_orderbook_snapshot, handle_orderbook_delta.

\* _apply_delta: the delta's levels over the book's, whatever their ids are.
Merge(book, event) ==
    [id |-> event.last,
     levels |-> [p \in Prices |-> IF p \in DOMAIN event.levels THEN event.levels[p]
                                                              ELSE book.levels[p]]]

\* A bug to detect: levels that a snapshot no longer lists stay in the book.
KeepsOldLevels(event) ==
    IF event.kind = "snapshot" /\ hot # None
    THEN [id |-> event.last,
          levels |-> [p \in Prices |-> IF event.levels[p] # 0 THEN event.levels[p]
                                                             ELSE hot.levels[p]]]
    ELSE IF event.kind = "snapshot" THEN [id |-> event.last, levels |-> event.levels]
    ELSE None

\* A delta without a book in Redis is published but not written.
HotWrite(event) ==
    IF event.kind = "snapshot" THEN [id |-> event.last, levels |-> event.levels]
    ELSE IF hot = None THEN None ELSE Merge(hot, event)

Header(event) == [kind |-> event.kind, first |-> event.first, last |-> event.last]

\* A bug to detect: the newest entry is processed first.
PublishNewest ==
    /\ raw # <<>> /\ pending = None
    /\ raw' = SubSeq(raw, 1, Len(raw) - 1)
    /\ Len(norm) < MaxQueue
    /\ norm' = Append(norm, Header(raw[Len(raw)]))
    /\ pending' = HotWrite(raw[Len(raw)])
    /\ UNCHANGED <<exchangeVars, socket, info, hot, analyticsVars, faults>>

\* GET of the current book and XADD of the normalized event; the hot write
\* comes after.  An entry whose publication raises is acknowledged all the same.
Publish ==
    /\ raw # <<>> /\ pending = None
    /\ raw' = Tail(raw)
    /\ \/ /\ Len(norm) < MaxQueue
          /\ norm' = Append(norm, Header(Head(raw)))
          /\ pending' = HotWrite(Head(raw))
          /\ UNCHANGED faults
       \/ Fault /\ UNCHANGED <<norm, pending>>
    /\ UNCHANGED <<exchangeVars, socket, info, hot, analyticsVars>>

WriteHot ==
    /\ pending # None
    /\ pending' = None
    /\ \/ hot' = pending /\ UNCHANGED faults
       \/ Fault /\ UNCHANGED hot
    /\ UNCHANGED <<exchangeVars, ingestVars, norm, analyticsVars>>

\* The key lives _BOOK_TTL_S seconds after the last write.
Expire ==
    /\ hot # None
    /\ Fault
    /\ hot' = None
    /\ UNCHANGED <<exchangeVars, ingestVars, pending, norm, analyticsVars>>

\* The process ends with some of the stream delivered to it: that is lost, for
\* pending entries are never asked for again.
NormalizerCrash ==
    /\ Fault
    /\ \E n \in 0..Len(raw) : raw' = SubSeq(raw, n + 1, Len(raw))
    /\ pending' = None
    /\ UNCHANGED <<exchangeVars, socket, info, hot, norm, analyticsVars>>

-----------------------------------------------------------------------------
\* Analytics: _process, _fetch_book, AnalyticsDispatcher, BookIntegrityState.

\* A bug to detect: the expected next id is off by one.
GapOffByOne(first) == first > integrity.last_update_id + 2

Gap(first) == first > integrity.last_update_id + 1

\* A bug to detect: a snapshot does not make an invalid book valid again.
StaysInvalid(event, fetched) ==
    /\ integrity' = [has_snapshot |-> TRUE, last_update_id |-> event.last,
                     is_valid |-> integrity.is_valid \/ ~integrity.has_snapshot]
    /\ base' = event.last /\ applied' = {}
    /\ lastBook' = IF fetched # None THEN fetched ELSE lastBook

OnSnapshot(event, fetched) ==
    /\ integrity' = [has_snapshot |-> TRUE, last_update_id |-> event.last, is_valid |-> TRUE]
    /\ base' = event.last /\ applied' = {}
    /\ lastBook' = IF fetched # None THEN fetched ELSE lastBook

OnDelta(event, fetched) ==
    \/ /\ ~integrity.has_snapshot \/ event.last <= integrity.last_update_id
       /\ UNCHANGED <<integrity, lastBook, applied, base>>
    \/ /\ integrity.has_snapshot /\ event.last > integrity.last_update_id
       /\ Gap(event.first)
       /\ integrity' = [integrity EXCEPT !.is_valid = FALSE]
       /\ UNCHANGED <<lastBook, applied, base>>
    \/ /\ integrity.has_snapshot /\ event.last > integrity.last_update_id
       /\ ~Gap(event.first)
       /\ integrity' = [integrity EXCEPT !.last_update_id = event.last]
       /\ applied' = applied \cup (event.first .. event.last)
       /\ lastBook' = IF fetched # None THEN fetched ELSE lastBook
       /\ UNCHANGED base

\* The book is fetched as Redis has it now, not as of the event.
Dispatch ==
    /\ norm # <<>>
    /\ norm' = Tail(norm)
    /\ \E fetched \in {hot, None} :
         /\ \/ fetched = hot /\ UNCHANGED faults
            \/ fetched # hot /\ Fault
         /\ \/ Head(norm).kind = "snapshot" /\ OnSnapshot(Head(norm), fetched)
            \/ Head(norm).kind = "delta" /\ OnDelta(Head(norm), fetched)
    /\ UNCHANGED <<exchangeVars, ingestVars, normalizerVars>>

AnalyticsCrash ==
    /\ Fault
    /\ \E n \in 0..Len(norm) : norm' = SubSeq(norm, n + 1, Len(norm))
    /\ integrity' = [has_snapshot |-> FALSE, last_update_id |-> 0, is_valid |-> FALSE]
    /\ lastBook' = None
    /\ applied' = {} /\ base' = 0
    /\ UNCHANGED <<exchangeVars, ingestVars, normalizerVars>>

Next ==
    \/ Update \/ EmitDelta \/ EmitSnapshot
    \/ Connecting \/ Connect \/ Disconnect
    \/ Publish \/ WriteHot \/ Expire \/ NormalizerCrash
    \/ Dispatch \/ AnalyticsCrash

Spec == Init /\ [][Next]_vars

\* The tasks of the three services run, and the exchange serves what is
\* subscribed; nothing makes the book change.
FairSpec ==
    /\ Spec
    /\ WF_vars(Connecting) /\ WF_vars(Connect)
    /\ WF_vars(EmitDelta) /\ WF_vars(EmitSnapshot)
    /\ WF_vars(Publish) /\ WF_vars(WriteHot) /\ WF_vars(Dispatch)

-----------------------------------------------------------------------------
Books == [id : Nat, levels : [Prices -> Quantities]]
Kinds == {"snapshot", "delta"}
RawSnapshots == [kind : {"snapshot"}, first : Nat, last : Nat, levels : [Prices -> Quantities]]
RawDeltas == [kind : {"delta"}, first : Nat, last : Nat,
              levels : UNION {[S -> Quantities] : S \in SUBSET Prices}]
Events == [kind : Kinds, first : Nat, last : Nat]

\* Every variable keeps its type: ids are numbers of updates, and a book has a
\* quantity for every price.
ExchangeType ==
    /\ books \in Seq([Prices -> Quantities]) /\ LastId \in Nat
    /\ sent \in 0..LastId
ConnectionType ==
    /\ socket \in BOOLEAN
    /\ info \in {"disconnected", "connecting", "connected", "reconnecting"}
    /\ faults \in 0..MaxFaults
RawType == raw \in Seq(RawSnapshots \cup RawDeltas)
NormType == norm \in Seq(Events)
CopyType ==
    /\ pending \in Books \cup {None} /\ hot \in Books \cup {None}
    /\ lastBook \in Books \cup {None}
IntegrityType ==
    /\ integrity \in [has_snapshot : BOOLEAN, last_update_id : Nat, is_valid : BOOLEAN]
    /\ applied \subseteq Nat /\ base \in Nat

TypeOK == ExchangeType /\ ConnectionType /\ RawType /\ NormType /\ CopyType /\ IntegrityType

\* BookIntegrityState: a valid state has seen, since its snapshot, every
\* update up to last_update_id, whatever was lost, repeated or overtaken.
ValidIsContiguous ==
    integrity.is_valid => (base + 1) .. integrity.last_update_id \subseteq applied

\* The order of the stream is kept: each copy is no older than what was made of
\* it, and no newer than what is still to come.
OldestFirst ==
    /\ \A i, j \in DOMAIN raw : i <= j => raw[i].last <= raw[j].last
    /\ \A i \in DOMAIN raw : raw[i].last <= LastId
    /\ \A b \in {pending, hot, lastBook} \ {None} :
         b.id <= LastId /\ \A i \in DOMAIN raw : b.id <= raw[i].last
    /\ \A b \in {hot, lastBook} \ {None} : pending # None => b.id <= pending.id
    /\ hot # None /\ lastBook # None => lastBook.id <= hot.id

\* on_snapshot and on_delta of BookIntegrityState, and the copies of the book,
\* among the types of everything else: no gap behind a valid state, and no copy
\* out of order, whatever the streams lost or repeated.
BookInv == TypeOK /\ ValidIsContiguous /\ OldestFirst

\* What build() reads when the state says valid is a book the exchange had.
BookIsTrue ==
    integrity.is_valid /\ lastBook # None => lastBook.levels = BookAt(lastBook.id)

\* "Book-dependent analytics require valid integrity state" (builder.py:62),
\* and that protects them while no event of the diff stream can have been
\* lost: with the partial-book stream alone through every failure, with both
\* streams until the first one.
ValidBookIsTrue == sent = 0 \/ faults = 0 => BookIsTrue

\* The copy never goes back to an older book, except through a restart.
BookMovesForward ==
    [][lastBook # None /\ lastBook' # None => lastBook'.id >= lastBook.id]_vars

\* Once the failures are over and the book is at rest, the analytics have it,
\* and take it for valid.
BookHeals ==
    <>[](integrity.is_valid /\ lastBook = [id |-> LastId, levels |-> BookAt(LastId)])
=============================================================================
