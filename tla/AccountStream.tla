---------------------------- MODULE AccountStream ----------------------------
(***************************************************************************)
(* The user-data stream of one exchange account: AccountStreamManager      *)
(* starts one AccountStreamListener per account, the listener subscribes   *)
(* (spot: a signed request on the WebSocket API; futures: a listen key),   *)
(* writes what it hears through AccountStateWriter, and publishes its      *)
(* status to the database and to Redis, where the account facade of the    *)
(* MCP server reads it back.                                               *)
(*                                                                         *)
(* The account holds one asset.  A change of its balance sends the events  *)
(* that the exchange sends for it; what is sent while nobody is subscribed *)
(* is lost.  Time appears as the expiry of what Redis and the age of the   *)
(* last event keep, which may happen at any moment.                        *)
(*                                                                         *)
(* Bounds: MaxChanges balance changes, MaxWire undelivered events, and     *)
(* MaxFaults failures, each of another kind; Overflow is the attempt at    *)
(* which 2.0 ** attempt overflows a float (1024 in the code).              *)
(***************************************************************************)
EXTENDS Integers, Sequences, FiniteSets, SequencesExt

CONSTANTS Amounts, Changes, Faults, MaxChanges, MaxWire, MaxFaults, Overflow, None

ASSUME StreamAssumption ==
    /\ Amounts \subseteq Nat
    /\ Changes \subseteq {"trade", "deposit"}
    /\ Faults \subseteq {"revoke", "foreign", "network", "close", "normal_close",
                         "keepalive", "stop", "crash", "db", "redis"}
    /\ MaxChanges \in Nat /\ MaxWire \in Nat /\ MaxFaults \in Nat
    /\ Overflow \in Nat \ {0}
    /\ None \notin Nat \cup {"live", "expired", "connecting", "connected", "reconnecting",
                           "auth_error", "stopped"}

VARIABLES
    market,      \* the account's market type, "spot" or "futures"
    ledger,      \* the account's free balance at the exchange
    past,        \* history: every balance it has had
    changes,     \* history: what has changed it, in order
    credentials, \* whether the exchange accepts the stored key
    key,         \* the futures listen key, as the exchange sees it
    lapsed,      \* the last keepalive of the key failed
    subscribed,  \* the exchange sends this connection its events
    wire,        \* events on the connection, not yet received
    pc,          \* where the listener is
    stop,        \* its _stop event
    attempt,     \* its reconnect attempts
    status,      \* exchange_accounts.stream_status
    cached,      \* the stream status key in Redis
    fresh,       \* stream_last_event_ms is younger than _STREAM_STALE_MS
    row,         \* the balances row
    cache,       \* the live balances key in Redis
    incidents,   \* the incident log
    faults       \* the kinds of failure that have happened

exchangeVars == <<market, ledger, past, changes, credentials>>
listenKeyVars == <<key, lapsed>>
connVars == <<subscribed, wire>>
taskVars == <<pc, stop, attempt>>
statusVars == <<status, cached, fresh>>
balanceVars == <<row, cache>>
accountVars == <<exchangeVars, listenKeyVars, connVars, taskVars, statusVars, balanceVars,
                 incidents, faults>>

Fault(kind) ==
    /\ kind \in Faults \ faults
    /\ Cardinality(faults) < MaxFaults
    /\ faults' = faults \cup {kind}

AccountInit ==
    /\ market \in {"spot", "futures"}
    /\ ledger \in Amounts /\ past = {ledger} /\ changes = <<>> /\ credentials = "valid"
    /\ key = None /\ lapsed = FALSE
    /\ subscribed = FALSE /\ wire = <<>>
    /\ pc = "off" /\ stop = FALSE /\ attempt = 0
    /\ status = "stopped" /\ cached = None /\ fresh = FALSE
    /\ row = None /\ cache = None
    /\ incidents = {}
    /\ faults = {}

-----------------------------------------------------------------------------
\* The exchange.

Position(amount) == [kind |-> "position", amount |-> amount]
Delta(amount) == [kind |-> "delta", amount |-> amount]

\* A trade moves the balance; a deposit also sends a balanceUpdate, with the
\* amount that was added, before or after the position.
EventsOf(change, new) ==
    IF change = "trade" \/ market = "futures" THEN {<<Position(new)>>}
    ELSE {<<Position(new), Delta(new - ledger)>>, <<Delta(new - ledger), Position(new)>>}

Change ==
    /\ Len(changes) < MaxChanges
    /\ \E change \in Changes, new \in Amounts \ {ledger} :
         /\ change = "deposit" => new > ledger
         /\ \E events \in EventsOf(change, new) :
              \/ /\ subscribed /\ Len(wire \o events) <= MaxWire
                 /\ wire' = wire \o events
              \/ ~subscribed /\ UNCHANGED wire
         /\ ledger' = new /\ past' = past \cup {new}
         /\ changes' = Append(changes, change)
    /\ UNCHANGED <<market, credentials, listenKeyVars, subscribed, taskVars, statusVars,
                   balanceVars,
                   incidents, faults>>

Revoke ==
    /\ Fault("revoke")
    /\ credentials' = "revoked"
    /\ UNCHANGED <<market, ledger, past, changes, listenKeyVars, connVars, taskVars,
                   statusVars,
                   balanceVars, incidents>>

\* A listen key that is not kept alive ends, and with it its events.
KeyExpires ==
    /\ key = "live" /\ lapsed
    /\ key' = "expired"
    /\ subscribed' = FALSE
    /\ UNCHANGED <<exchangeVars, lapsed, wire, taskVars, statusVars, balanceVars,
                   incidents, faults>>

-----------------------------------------------------------------------------
\* _set_status: the row, then the key; a failure of either is logged.
SetStatus(s) ==
    \/ status' = s /\ cached' = s /\ UNCHANGED faults
    \/ Fault("db") /\ cached' = s /\ UNCHANGED status
    \/ Fault("redis") /\ status' = s /\ UNCHANGED cached

\* AccountStreamManager.start: accounts that are active and have credentials.
Start ==
    /\ pc = "off"
    /\ SetStatus("connecting")
    /\ pc' = IF market = "spot" THEN "dialing" ELSE "creating"
    /\ UNCHANGED <<exchangeVars, listenKeyVars, connVars, stop, attempt, fresh,
                   balanceVars, incidents>>

\* Futures: POST listenKey.  Whatever fails ends the listener.
CreateKey ==
    /\ pc = "creating"
    /\ \/ /\ credentials = "valid"
          /\ key' = "live" /\ lapsed' = FALSE /\ pc' = "connecting" /\ UNCHANGED faults
       \/ credentials = "revoked" /\ pc' = "refused" /\ UNCHANGED <<listenKeyVars, faults>>
       \/ Fault("network") /\ pc' = "refused" /\ UNCHANGED listenKeyVars
    /\ UNCHANGED <<exchangeVars, connVars, stop, attempt, statusVars, balanceVars, incidents>>

\* Futures: every round of the loop says so before it dials.
MarkConnecting ==
    /\ pc = "connecting"
    /\ SetStatus("connecting")
    /\ pc' = "dialing"
    /\ UNCHANGED <<exchangeVars, listenKeyVars, connVars, stop, attempt, fresh,
                   balanceVars, incidents>>

\* Spot asks for the subscription; a futures connection carries it in its URL,
\* whatever has become of the key.
Dial ==
    /\ pc = "dialing"
    /\ \/ market = "spot" /\ pc' = "asking" /\ UNCHANGED <<subscribed, faults>>
       \/ market = "futures" /\ pc' = "accepted" /\ subscribed' = (key = "live") /\ UNCHANGED faults
       \/ Fault("network") /\ pc' = "failed" /\ UNCHANGED subscribed
    /\ UNCHANGED <<exchangeVars, listenKeyVars, wire, stop, attempt, statusVars,
                   balanceVars, incidents>>

\* _check_subscribe_response; a first message with another id passes the check.
Ack ==
    /\ pc = "asking"
    /\ \/ credentials = "valid" /\ pc' = "accepted" /\ subscribed' = TRUE /\ UNCHANGED faults
       \/ credentials = "revoked" /\ pc' = "refused" /\ UNCHANGED <<subscribed, faults>>
       \/ Fault("foreign") /\ pc' = "accepted" /\ UNCHANGED subscribed
       \/ Fault("network") /\ pc' = "failed" /\ UNCHANGED subscribed
    /\ UNCHANGED <<exchangeVars, listenKeyVars, wire, stop, attempt, statusVars,
                   balanceVars, incidents>>

\* Only the futures loop starts its backoff anew here.
MarkConnected ==
    /\ pc = "accepted"
    /\ SetStatus("connected")
    /\ pc' = "streaming"
    /\ attempt' = IF market = "futures" THEN 0 ELSE attempt
    /\ UNCHANGED <<exchangeVars, listenKeyVars, connVars, stop, fresh, balanceVars,
                   incidents>>

\* What was refused is marked, then reported, and the listener returns.
Refuse ==
    /\ pc = "refused"
    /\ SetStatus("auth_error")
    /\ pc' = "reporting"
    /\ subscribed' = FALSE /\ wire' = <<>>
    /\ UNCHANGED <<exchangeVars, listenKeyVars, stop, attempt, fresh, balanceVars, incidents>>

\* _log_incident swallows the failure of its write.
LogRefusal ==
    /\ pc = "reporting"
    /\ \/ incidents' = incidents \cup {"stream_auth_error"} /\ UNCHANGED faults
       \/ Fault("db") /\ UNCHANGED incidents
    /\ pc' = "down"
    /\ UNCHANGED <<exchangeVars, listenKeyVars, connVars, stop, attempt, statusVars,
                   balanceVars>>

-----------------------------------------------------------------------------
\* AccountStateWriter and the events.

\* upsert_balances writes what the event names "f": the amount of a spot
\* position, the difference that a balanceUpdate carries, and nothing that a
\* futures ACCOUNT_UPDATE has ("wb", "cw").
FreeOf(event) == IF market = "futures" THEN 0 ELSE event.amount

\* _handle_event and _mark_event: the row, its copy in Redis, the age of the
\* stream and its status; the first step that fails ends the event.
HandleEvent(event) ==
    \/ /\ row' = FreeOf(event) /\ cache' = FreeOf(event)
       /\ fresh' = TRUE /\ cached' = "connected"
       /\ UNCHANGED <<status, faults>>
    \/ Fault("db") /\ UNCHANGED <<balanceVars, statusVars>>
    \/ /\ Fault("redis")
       /\ row' = FreeOf(event)
       /\ UNCHANGED <<cache, statusVars>>

\* The loop looks at _stop only when it has received something.
Receive ==
    /\ pc = "streaming" /\ wire # <<>>
    /\ \/ /\ ~stop
          /\ HandleEvent(Head(wire))
          /\ wire' = Tail(wire)
          /\ UNCHANGED <<subscribed, pc>>
       \/ /\ stop
          /\ pc' = "leaving"
          /\ wire' = <<>> /\ subscribed' = FALSE
          /\ UNCHANGED <<balanceVars, statusVars, faults>>
    /\ UNCHANGED <<exchangeVars, listenKeyVars, stop, attempt, incidents>>

\* ConnectionClosed (or an error on the way) raises.
Close ==
    /\ pc = "streaming"
    /\ Fault("close")
    /\ pc' = "failed"
    /\ subscribed' = FALSE /\ wire' = <<>>
    /\ UNCHANGED <<exchangeVars, listenKeyVars, stop, attempt, statusVars, balanceVars,
                   incidents>>

\* A normal close ends the iteration without one: for spot the attempt counts
\* as a success, and no status is written.
\* A bug to detect: the listener returns.
ReturnOnClose ==
    /\ pc = "streaming"
    /\ Fault("normal_close")
    /\ pc' = "down"
    /\ subscribed' = FALSE /\ wire' = <<>>
    /\ UNCHANGED <<exchangeVars, listenKeyVars, stop, attempt, statusVars, balanceVars,
                   incidents>>

NormalClose ==
    /\ pc = "streaming"
    /\ Fault("normal_close")
    /\ pc' = IF stop THEN "leaving" ELSE "backoff"
    /\ attempt' = IF market = "spot" THEN 0 ELSE attempt
    /\ subscribed' = FALSE /\ wire' = <<>>
    /\ UNCHANGED <<exchangeVars, listenKeyVars, stop, statusVars, balanceVars, incidents>>

\* A bug to detect: the close is logged, but not marked.
ForgetToMark ==
    /\ pc = "failed"
    /\ pc' = IF stop THEN "leaving" ELSE "backoff"
    /\ subscribed' = FALSE /\ wire' = <<>>
    /\ UNCHANGED <<exchangeVars, listenKeyVars, stop, attempt, statusVars, balanceVars,
                   incidents, faults>>

MarkReconnecting ==
    /\ pc = "failed"
    /\ SetStatus("reconnecting")
    /\ pc' = IF stop THEN "leaving" ELSE "backoff"
    /\ subscribed' = FALSE /\ wire' = <<>>
    /\ UNCHANGED <<exchangeVars, listenKeyVars, stop, attempt, fresh, balanceVars, incidents>>

\* min(60, 2.0 * 2.0 ** attempt): the power is taken before the minimum, and
\* once it overflows the error leaves run.  A stop that was set during the
\* sleep ends the loop at its head.
Backoff ==
    /\ pc = "backoff"
    /\ \/ /\ attempt < Overflow /\ ~stop
          /\ attempt' = attempt + 1
          /\ pc' = IF market = "spot" THEN "dialing" ELSE "connecting"
       \/ /\ attempt < Overflow /\ stop
          /\ attempt' = attempt + 1 /\ pc' = "leaving"
       \/ /\ attempt >= Overflow
          /\ pc' = IF market = "spot" THEN "dead" ELSE "leaving"
          /\ UNCHANGED attempt
    /\ UNCHANGED <<exchangeVars, listenKeyVars, connVars, stop, statusVars, balanceVars,
                   incidents, faults>>

\* After the loop; the futures path deletes its key.
Leave ==
    /\ pc = "leaving"
    /\ SetStatus("stopped")
    /\ pc' = "down"
    /\ key' = IF market = "futures" THEN None ELSE key
    /\ UNCHANGED <<exchangeVars, lapsed, connVars, stop, attempt, fresh, balanceVars,
                   incidents>>

-----------------------------------------------------------------------------
\* Futures: _keepalive_loop; the incident of a failure may be lost like another.
Keepalive ==
    /\ market = "futures" /\ key # None
    /\ pc \notin {"off", "creating", "refused", "reporting", "down"}
    /\ \/ key = "live" /\ lapsed /\ lapsed' = FALSE /\ UNCHANGED <<incidents, faults>>
       \/ /\ Fault("keepalive")
          /\ lapsed' = TRUE
          /\ incidents' \in {incidents, incidents \cup {"stream_keepalive_failed"}}
    /\ UNCHANGED <<exchangeVars, key, connVars, taskVars, statusVars, balanceVars>>

\* AccountStreamManager.stop.
Stop ==
    /\ ~stop /\ pc # "off"
    /\ Fault("stop")
    /\ stop' = TRUE
    /\ UNCHANGED <<exchangeVars, listenKeyVars, connVars, pc, attempt, statusVars,
                   balanceVars,
                   incidents>>

\* The process dies.
Crash ==
    /\ pc # "off"
    /\ Fault("crash")
    /\ pc' = "off" /\ stop' = FALSE /\ attempt' = 0
    /\ subscribed' = FALSE /\ wire' = <<>>
    /\ UNCHANGED <<exchangeVars, listenKeyVars, statusVars, balanceVars, incidents>>

ExpireStatus ==
    /\ cached # None
    /\ cached' = None
    /\ UNCHANGED <<exchangeVars, listenKeyVars, connVars, taskVars, status, fresh,
                   balanceVars,
                   incidents, faults>>

ExpireBalances ==
    /\ cache # None
    /\ cache' = None
    /\ UNCHANGED <<exchangeVars, listenKeyVars, connVars, taskVars, statusVars, row,
                   incidents, faults>>

Age ==
    /\ fresh
    /\ fresh' = FALSE
    /\ UNCHANGED <<exchangeVars, listenKeyVars, connVars, taskVars, status, cached,
                   balanceVars,
                   incidents, faults>>

AccountNext ==
    \/ Change \/ Revoke \/ KeyExpires
    \/ Start \/ CreateKey \/ MarkConnecting \/ Dial \/ Ack \/ MarkConnected \/ Refuse \/ LogRefusal
    \/ Receive \/ Close \/ NormalClose \/ MarkReconnecting \/ Backoff \/ Leave
    \/ Keepalive \/ Stop \/ Crash \/ ExpireStatus \/ ExpireBalances \/ Age

AccountSpec == AccountInit /\ [][AccountNext]_accountVars

\* The listener's task runs, its connections and requests end one way or the
\* other, and time passes.  The exchange need not send anything, and no
\* process need be started again.
AccountFairness ==
    /\ WF_accountVars(CreateKey) /\ WF_accountVars(MarkConnecting)
    /\ WF_accountVars(Dial) /\ WF_accountVars(Ack)
    /\ WF_accountVars(MarkConnected) /\ WF_accountVars(Refuse) /\ WF_accountVars(LogRefusal)
    /\ WF_accountVars(Receive)
    /\ WF_accountVars(MarkReconnecting) /\ WF_accountVars(Backoff) /\ WF_accountVars(Leave)
    /\ WF_accountVars(ExpireStatus) /\ WF_accountVars(ExpireBalances) /\ WF_accountVars(Age)

-----------------------------------------------------------------------------
\* The readers (facades/account.py).

\* get_account_connection_status: Redis first, then the row.
StreamStatus == IF cached # None THEN cached ELSE status

\* get_stream_health.
Healthy == StreamStatus = "connected" /\ fresh

\* get_account_balances: Redis first, then the row.
Reported == IF cache # None THEN cache ELSE row

Statuses == {"connecting", "connected", "reconnecting", "auth_error", "stopped"}

\* Every variable keeps its type.
AccountType ==
    /\ ledger \in Amounts /\ past \subseteq Amounts /\ changes \in Seq(Changes)
    /\ market \in {"spot", "futures"}
    /\ credentials \in {"valid", "revoked"}
    /\ key \in {None, "live", "expired"} /\ lapsed \in BOOLEAN
    /\ subscribed \in BOOLEAN
    /\ wire \in Seq([kind : {"position", "delta"}, amount : Nat])
    /\ pc \in {"off", "creating", "connecting", "dialing", "asking", "accepted", "refused",
               "reporting", "streaming", "failed", "backoff", "leaving", "down", "dead"}
    /\ stop \in BOOLEAN /\ attempt \in 0..Overflow
    /\ status \in Statuses /\ cached \in Statuses \cup {None} /\ fresh \in BOOLEAN
    /\ row \in Nat \cup {None} /\ cache \in Nat \cup {None}
    /\ incidents \subseteq {"stream_auth_error", "stream_keepalive_failed"}
    /\ faults \subseteq Faults

\* "Write all status transitions to Redis so MCP can observe non-event states"
\* (listener.py:416): while the listener waits to reconnect after an error, no
\* reader is told that the stream is connected, unless a status write failed.
BackoffIsVisible ==
    pc = "backoff" /\ faults \cap {"normal_close", "db", "redis"} = {}
      => StreamStatus # "connected"

\* "On auth failure (401/403): mark stream_status=auth_error, log incident,
\* stop" (listener.py:13): only what the exchange refused is given up as an
\* auth error, though a futures listener takes any failure of its POST listenKey
\* for one; and it has been logged, or is about to be, unless the write of the
\* incident, which is a second await, failed or the process died before it.
AuthErrorIsRefusal ==
    status = "auth_error" /\ (market = "spot" \/ "network" \notin faults)
      => /\ credentials = "revoked"
         /\ \/ "stream_auth_error" \in incidents \/ pc = "reporting"
            \/ faults \cap {"db", "crash"} # {}

\* "Verify ACK (status 200)" (listener.py:10): what streams is subscribed, or
\* had a listen key that was not kept alive, or a foreign message for an ACK.
StreamingIsSubscribed ==
    pc = "streaming" => subscribed \/ key = "expired" \/ "foreign" \in faults

\* "persists user-data stream events": the balance that the account facade
\* reports is one that the account has had, as long as trades of a spot
\* account are what moves it.
ReportedWasTrue ==
    market = "spot" /\ ~Contains(changes, "deposit") /\ Reported # None
      => Reported \in past

\* "On disconnect: exponential backoff + reconnect + resubscribe"
\* (listener.py:12): after closes, failed writes and crashes of a process that
\* is always started again, the stream is subscribed for good.
StreamReturns ==
    /\ [](/\ faults \cap {"revoke", "foreign", "keepalive", "stop"} = {}
          /\ market = "futures" => "network" \notin faults
          /\ pc = "backoff" => attempt < Overflow)
    /\ []<>(pc # "off")
    => <>[](pc = "streaming" /\ subscribed)

\* A stream that is gone does not stay healthy in get_stream_health, even if
\* nobody could write that it has gone.
DeadIsNotHealthy ==
    pc \in {"off", "down", "dead"} ~> (~Healthy \/ pc \notin {"off", "down", "dead"})

\* What these rest on, at every step of the listener. Each path has its own way to
\* connect, and a futures listener that is past its POST has a key.
PathOfMarket ==
    /\ pc = "creating" => market = "futures"
    /\ pc = "asking" => market = "spot"
    /\ market = "spot" => key = None
    /\ market = "futures" /\ pc \in {"connecting", "dialing", "accepted", "streaming",
                                     "failed", "backoff"} => key # None

\* Both places a status is read from say that the listener waits.
BackoffIsMarked ==
    pc = "backoff" /\ faults \cap {"normal_close", "db", "redis"} = {}
      => status = "reconnecting" /\ cached \in {None, "reconnecting"}

RefusedByExchange ==
    pc = "refused" /\ (market = "spot" \/ "network" \notin faults) => credentials = "revoked"

AcceptedIsSubscribed ==
    pc = "accepted" => subscribed \/ key = "expired" \/ "foreign" \in faults

\* Without a deposit, what is written and what is on its way are past balances.
WrittenWasTrue ==
    market = "spot" /\ ~Contains(changes, "deposit") =>
      /\ row \in past \cup {None} /\ cache \in past \cup {None}
      /\ \A i \in 1..Len(wire) : wire[i].amount \in past

\* What the readers of an account stream are told is so: waiting is not shown as
\* connected, an auth error was a refusal, what streams is subscribed, and a
\* reported balance was the account's.
AccountInv == /\ AccountType /\ BackoffIsVisible /\ AuthErrorIsRefusal
              /\ StreamingIsSubscribed /\ ReportedWasTrue
              /\ PathOfMarket /\ BackoffIsMarked /\ RefusedByExchange
              /\ AcceptedIsSubscribed /\ WrittenWasTrue
=============================================================================
