# A verification of the trading platform in TLA+

The repository is a trading platform in Python: asyncio services that meet in
Redis (streams with consumer groups, keys with a lifetime) and in PostgreSQL.
This directory models its core logic in TLA+, model-checks it with TLC and
proves part of it with TLAPS. Paths below are relative to `src/`.

    tlc -config consumer.cfg MCExecutionConsumer      # a run
    tlapm ExecutionConsumer_proofs.tla                # a proof

`PROJECT.json` maps every definition that models code to its lines, lists the
runs with their properties, one mutant of the code per property, and the
hazards that the properties are for.

## 1. The system

### How the services interact

    Binance ── public ws ──> binance_ingest ──stream:binance:raw──> normalizer
                                                  │ hot keys market:*     │
                                                  ▼                       ▼
    analytics <───────────── stream:binance:normalized ───────────> execution
        │ analytics:* snapshots                                    (reconciliation)
        ▼                                                                 ▲
    strategy_service ──── stream:strategy:intents ────> execution consumer┘
        ▲ strategies (rows)            ▲                      │ jobs, orders, fills
        │ update_strategy_state        │ request_paper_trade  ▼
    mcp_server (OAuth, SSE sessions, tools)  <── mcp_web_gateway (public, policy)
    gateway_api (REST, ops: kill switch, trading mode, rate limit)

Every service is one event loop: between two awaits a coroutine runs alone,
and at each await any other coroutine, service, operator or clock may act. That
is the grain of most of the models: one action per stretch between awaits that
touches shared state. Consumers read their group with `>` only, so an entry
that was delivered to a process that died is not delivered again.

### Components, what they keep, what is hard, what makes them correct

| Component (source) | State | Operations | Hard behaviour | Correct when |
|---|---|---|---|---|
| Execution consumer (`services/execution/consumer.py`, `jobs/`, `controls/`, `risk/engine.py`) | pending entries, job locks, controls, cooldowns, job/order/fill rows, events | `_process`: lock, create job, gates, limits, submit, order, fill, cooldown, ack | every await interleaves with a second instance, the operator and expiring keys; each write may fail alone and is swallowed | one execution per intent while its lock lives; tables agree; statuses only move ahead; at most one order after the kill switch; entries acknowledged |
| Order reconciliation (`services/execution/reconciliation/`) | the same rows, job status read earlier | partial and full fills, cancels, stale scan | works on rows the consumer is still writing; replays; two transactions per fill | never more booked than executed; fills add up; jobs end filled or reported |
| Account stream (`services/execution/account_stream/`) | connection, key, status in two stores, balances | connect, subscribe, events, backoff, keepalive, stop | closes, refusals, half-written statuses, expiring caches | waiting is visible, only refusals are auth errors, reported balances were true, it returns |
| Risk limits (`services/execution/risk/`, `account/context.py`) | none: policy, fill and position rows are read | context, loss, positions, ten checks in order | reads one after the other while the tables change; each may fail, and a limit whose reading is missing passes | an approved order was within each limit that could be read at some moment of its reading; a refusal has a cause |
| Adapters (`services/execution/adapter/`) | none (paper), orders at the exchange (live) | price look-up, fill, submit; four gates and a dry run before a live submission | prices change and expire between look-ups; lost answers | a shown price is found; a trade is worth its amount; a live order passed every gate and its cap |
| Credentials (`scripts/store_credentials.py`, `scripts/import_env_credentials.py`, `account/credential_store.py`, `account_stream/manager.py`) | one encrypted pair per account | save and verify, import, the service's two looks at start | overlapping runs, different keys, failures after a commit | a listener has the halves of one pair; exit codes tell what is stored |
| Strategy service (`services/strategy_service/`) | registry copied every 30 s, evaluators, audit tables | reload, evaluate, publish, record | stale registry, failing reload, three writes per evaluation | intents only for strategies that emitted lately; changes arrive; records tell their failures |
| Lifecycle (`lifecycle/transitions.py`, `mcp_server/facades/strategy.py`) | strategy rows, trail | `update_strategy_state`, `request_paper_trade` | read, check, write without a lock | archived is final; the trail tells the history |
| Rules (`framework/`, `strategies/`) | none | evaluate a snapshot to an intent | ties, weights, missing sections | direction is that of the larger share; stops bracket the price |
| Ingest (`services/binance_ingest/`) | connections, listen key | connect, keep alive, publish | keepalive against expiry, cancellation, backoff | reconnects; a stopped handler has no key |
| Normalizer and book integrity (`services/normalizer/`, `services/analytics/`) | hot keys, integrity state, copies | merge, publish, write, dispatch | gaps, lost events, publish before write, expiry, crash | a valid book has no gap, is one the exchange had, only moves forward, heals |
| Analytics engines (`services/analytics/engines/`) | deques, averages, buckets, walls | one update per event | seeds, windows, deques that forget, late trades | incremental values equal their definitions |
| Decision snapshots (`services/analytics/dispatcher.py`, `snapshot/builder.py`, `hot_state.py`, `consumer.py`) | state per symbol, keys, derived stream | dispatch, build, write, publish once a second | failed fetches, pipelines cut short, crashes, expiring keys | a snapshot is of one book; readers find nothing older; rounds are complete |
| MCP server (`services/mcp_server/`) | session queues, session keys, codes, tokens | stream, message, authorize, token | lookups across awaits, expiry, concurrent exchange of one code | an open session is found; one token per code |
| MCP web gateway (`services/mcp_web_gateway/`) | sessions under a cap, audit | SSE, policy, proxy | failing upstream, departing clients, calls that run after their client was told they failed | only permitted tools; one audit line; one answer; the answer is its own call's |
| Gateway API (`services/gateway_api/`) | rate counters, two mode keys | limit, set mode, queries | two commands that can part | no more than the limit per minute; the keys agree |
| Shared, migrations, scripts | none of their own | | | in the models of their users |

## 2. The modules

| Module | Models | State and actions |
|---|---|---|
| `JobLifecycle` | `VALID_JOB_TRANSITIONS` as an abstract machine | one status per job; `Next` is one legal transition, `LossySpec` lets writes be lost but never goes back: `Ahead` is reachability, by paths of as many edges as there are states |
| `ExecutionConsumer` | `ExecutionConsumer._process` for several instances | `phase[w]` is the await where instance w stands (`Tick`, `Acquire`, `CreateJob`, `CheckGate`, `CheckLimits`, `Persist`, `Publish`, `Submit`, `CreateOrder`, `SaveFill`, `SetCooldown`, `LogIncident`, `Ack`, `Abandon`); `unfilled` are the orders of which nothing was filled; environment: `PublishIntent`, operator controls, expiries |
| `OrderReconciliation` | one live order with its three writers | consumer `cpc`, reconciliation `rpc`, account stream `spos`, exchange reports, the scan |
| `StrategyService` | rows, concurrent callers, consumer with registry | `ReadForUpdate`/`CommitUpdate`, `ReadForTrade`/`FinishTrade`, `Reload*`, `Read`, `Evaluate`, `Ack`, `Crash` |
| `RuleEvaluation`, `EvaluationRecords`, `PaperPricing` | a decision: from snapshot to intent, what is recorded and told of it, at which price a paper trade is sized and filled | one action per evaluation, per write, per query of the status, per GET |
| `RiskGate` | the context of an account, the two queries and the checks of `ExecutionRiskEngine.evaluate` | `Take`, `LoadContext`, `QueryLoss`, `QueryPositions`, `Judge`, `Finish`; meanwhile `Report`, `ChangePolicy`, `Midnight` |
| `LiveOrders` | `LiveTradingPolicy` and `LiveExecutionAdapter.submit` for one order | gates, price, dry run, submission, fills; lost answers |
| `MarketBook` | exchange book, two depth streams, normalizer, analytics | `Forward`, `Publish`, `WriteHot`, `Dispatch`, disconnects, `Expire`, crashes |
| `Indicators`, `BookWalls`, `TradeFlow`, `DecisionSnapshot`, composed by `SymbolState` | the engines of one symbol behind `AnalyticsDispatcher.update`, and the snapshots made of several symbols | one action per event, histories of what arrived; `Dispatch`, `StartRound`, `Build`, `WriteKeys`, `WriteIndicators`, `PublishDerived` |
| `AccountStream`, `PrivateStream`, composed by `UserDataStreams` | the two user-data streams | listener and key tasks, stores, readers |
| `OneShot` | what a proxied call promises, as an abstract machine | one call is begun, may run, and ends with its own answer or a failure |
| `WebGateway`, `McpSessions`, `ToolPath`, composed by `MCMcpPath` | the two MCP servers, and one call of the proxy step by step through a session of the server (`ToolPath` extends `McpSessions`) | session table, calls, proxy; queues, keys, lookups; `initialize`, the notification, the call, the wait for its id |
| `OAuthFlow`, `RateLimit`, `TradingMode`, `Credentials`, composed by `MCAccess` | token exchange, rate limiter, trading mode, the credential scripts and their reader | one action per Redis command or transaction |
| `Names` | no code: which of several interchangeable names is used first | `InOrder`, for `MCAccess`, `MCMcpPath` and `MCExecutionConsumer` |
| `ExecutionConsumer_proofs`, `Decisions_proofs`, `MarketBook_proofs`, `Streams_proofs`, `SymbolState_proofs`, `WebGateway_proofs`, `Control_proofs` | the theorems about `ExecutionConsumer`; `RuleEvaluation`, `RiskGate`, `PaperPricing`, `EvaluationRecords` and `LiveOrders`; `MarketBook`; `PrivateStream`, `AccountStream` and `OrderReconciliation`; `SymbolState` and its four parts; `WebGateway`, `McpSessions` and `ToolPath`; `StrategyService`, `OAuthFlow`, `RateLimit`, `TradingMode` and `Credentials` | see section 5 |
| `Sums` | no state: lemmas about quotients and about sums over finite sets | used by `Decisions_proofs` and `SymbolState_proofs` |
| `MC*` | instances for TLC | `MCDecisions` composes the five modules of a decision |

A composing module has one set of variables for each part and a variable that
says whose events a behaviour has. That is justified where parts share neither
a key, a row nor a queue, which holds for the compositions above: no
interleaving is lost, for no action of one part is enabled, disabled or changed
by the state of another. Where parts do share state (consumer and operator,
reconciliation and consumer and account stream, callers and strategy consumer,
ingest and normalizer and analytics) they are in one module and interleave.
The gateway's proxy and the server's session share the session, so `ToolPath`
runs the proxy against `McpSessions`; `WebGateway` has many calls and knows of
each only what `OneShot` says. That both refine `OneShot` (`GatewayShots`, and
`Shot` with its fairness) is what lets the one stand for the other: in
`WebGateway` the call that reaches the server after its client gave up (`Reach`)
is the `Run` that `ToolPath` shows to be possible.

Definitions named "A bug to detect" are not part of the system: each is the body
of the definition below or above it with a plausible mistake, and shows that the
property named in `PROJECT.json` notices it.

### Abstractions

* Values are abstracted to what properties tell apart: prices are small
  integers (units of a cent fraction in `PaperPricing`, multiples of
  1/`Scale`, rounded down, in `Indicators`), quantities are lots, messages are records.
* A Redis or database call either succeeds, fails before, or fails after it has
  taken effect, where the code's handling could tell; a database session is atomic,
  as its commit is.
* Time is either a clock with named bounds (`RateLimit`, `OAuthFlow`,
  `TradeFlow`, `McpSessions`, `PrivateStream`) or an expiry that may happen at
  any moment (locks, cooldowns, hot keys, cached statuses).
* Logging, metrics, formats and HTTP details are left out.

### Properties

Each module states its invariants as named parts and conjoins them, with its
type invariant, in one `...Inv` that a run checks (`ConsumerInv`, `OrderInv`,
`RegistryInv`, `RulesInv`, `RecordsInv`, `PricingInv`, `BookInv`,
`IndicatorInv`, `WallInv`, `FlowInv`, `AccountInv`, `PrivateInv`, `GatewayInv`,
`SessionInv`, `OAuthInv`, `LimitInv`, `ModeInv`, `RiskInv`, `LiveInv`,
`SnapshotInv`, `CredentialInv`). Liveness properties of one cause are conjoined
alike: `OrdersSettle` is `FilledIsReached` and `StaleReported`, `StreamsReturn`
is `StreamReturns`, `DeadIsNotHealthy` and `Reconnects`, `GatewayReturns` is
`AcceptedIsAnswered` and `SlotsAreFreed`. Action properties and
liveness, and the invariants that a theorem or a finding is about, are listed on
their own.

Where a theorem states an invariant, its parts are of two kinds: the promises, and
the facts they rest on, which are there because the promises alone are not
inductive (`HoldsItsCode`, `ReadsFit`, `RowIsOfARun`, ...; section 5). TLC checks
both kinds together, so that no strengthening is proved of a model that TLC has
not seen it hold in.

## 3. The runs

`CHECK_DEADLOCK FALSE` is in every configuration: with the intents, reports,
updates or calls of an instance used up the services wait for more, which is
what they do. `expect: violation` runs show a disagreement between the code and
what a comment, docstring or document of the repository says (section 6).

| Run | Shows | Bounds, and why they are enough |
|---|---|---|
| `consumer` | `ConsumerInv`, `FilledOncePerLock`, `TablesAgree`; it implements `JobLifecycle` with lost writes and skips no status before something fails (`JobLifecycleSpec`); at most one order after the kill switch (`OneLateSubmit`); no order in a cooldown while alone (`NoReentry`); `EveryEntryAcked` | two instances, which read their first entries in one order (below), one intent delivered twice, one symbol, batches of two, orders filled or not, one fault: every claim is about two entries or two instances, and an intent of its own shares no lock, row or order with another |
| `recon` | fills neither exceed nor, between reports, miss the order (`OrderInv`); `FilledGrows`; jobs end filled or reported (`OrdersSettle`) | an order of two lots, so that it fills partially and in two legs; trades in one millisecond or in two; one fault or replay at any place |
| `strategy` | what the registry holds (`RegistryInv`), what the audit rows tell (`TrailTellsHistory`), `NoStaleIntent`, `RevivedOnlyWhenOvertaken`, `ChangesArrive` | two strategies of which one cannot be built, since a bad row ends the refill of the others; one symbol, which the strategy that can be built watches; two callers and two changes are what it takes to overtake; one snapshot unread, one fault |
| `decisions` | the direction and the stops of an intent (`RulesInv`), the records of an evaluation and what the status tells of them (`RecordsInv`), the price of a paper trade (`PricingInv`), the verdict on an order (`RiskInv`), a live order (`LiveInv`) | three rules give two votes against one and a tie with unequal weights; three evaluations with two failed writes and a status asked for meanwhile, in equal or different milliseconds; three rewritten keys, one expiry, prices on both sides of half a cent; two orders with a policy tighter than the defaults, strategies in a state that is active, one that may only be simulated and one that may not, two reports, a changed policy, a midnight and one failed read; live orders with and without an amount, above and below the cap |
| `book` | no gap in a valid state (`BookInv`), a book of the exchange behind it (`ValidBookIsTrue`), never an older one (`BookMovesForward`), and in the end the newest (`BookHeals`) | two prices, quantities 0 and 1, two updates, queues of two, two faults: a gap takes one lost event and one later, a false merge one level each |
| `engines` | averages, bands, walls, flow, buckets and liquidations equal their definitions over the whole history (`IndicatorInv`, `WallInv`, `FlowInv`); snapshots are coherent, in time and complete (`SnapshotInv`) | five bars with periods 2 and 3 and a history of 3, so that each average is seeded, smoothed twice and its deque forgets; four books; four trades over a window of 3, so that a young one is pushed out; three liquidations over a deque of 2; two symbols, two books, three events, three intervals with a lifetime of two, one fault: what a snapshot may mix takes two books, what a round may leave out two symbols. When all three events are used they are of one symbol, and in the last interval only a round that is under way goes on, whose keys expire in it (`FewTogether`; `SnapshotInvariant` is proved without it) |
| `streams` | what readers are told of a stream (`AccountInv`), the listen key (`PrivateInv`), both come back and say so (`StreamsReturn`) | three different failures out of ten kinds, two events and two on the wire, of which each failure of a write is one; a backoff whose power overflows at the third failure in a row, which three calls that raise can reach, so that `Reconnects` meets that end; a key of 4 ticks renewed every 2 |
| `mcp` | one audit line and one answer per call within the cap (`GatewayInv`), `OnlyPermittedReachTools`, calls are answered and places freed (`GatewayReturns`); sessions found while open (`SessionInv`); a proxied call runs at most once and its answer is its own (`ShotsAreOneShot`: the gateway's calls are those of `OneShot`, and the proxy against the server implements it, its end included) | two sessions under a cap of one, two calls, a tool of each kind: one call of any tool and one token of any scopes, the other call of a readable tool and the other token with all scopes or none (`GatewayPairs`); two requests to the server on its own; names used in one order (below); one kind of upstream failure per behaviour; a TTL of three ticks over four; the three messages of one proxied call, since the server gives each call a session of its own |
| `access` | one token per code and its lifetime (`OAuthInv`), the limit of a minute (`LimitInv`), the two mode keys (`ModeInv`), the stored pair and its readers (`CredentialInv`) | two requests with one code or two, of which one presents anything and the other may have a wrong verifier (`OAuthPairs`), lifetimes of one tick each within three; four requests around the turn of a minute with a limit of two; two operators with two faults; two runs of the scripts with two keys, one restart of the service, one deletion, two faults; names used in one order (below) |
| `recon_lost_report` | refutes `ExecutedIsRecorded` | no fault at all |
| `strategy_archived` | refutes `ArchivedIsFinal` | no fault, no snapshot |
| `mode_unread` | refutes `StopHaltsIntents` | as `access` |

The bounds are constants (`MaxFaults`, `MaxFailures`, `MaxChanges`, `MaxUpdates`, `MaxQueue`,
`MaxWire`, `MaxTicks`, `MaxTime`, `End`, ...) and stand in the guards of the
environment's actions, so that a service's own step is never cut off by one
other than `Len(trail) < MaxChanges` (a commit that would exceed the bound
waits) and the queues of `MarketBook`, whose real limits are in the ten
thousands of entries.

## 4. Fairness

Only what a running event loop does by itself is fair, and always weakly:

* `ExecutionConsumer`: the step of each instance. `OrderReconciliation`: the
  consumer, the reconciliation consumer and the scan (every 30 s). Calls to Redis,
  PostgreSQL and the exchange return or raise.
* `StrategyService`: the consumer, the reload interval, and the commit of a
  session that a caller has begun. Nothing makes a caller begin one.
* `MarketBook`: the tasks of the three services and the events of an open
  stream. A change of the book is not fair, nor is a failure.
* `AccountStream`: the steps of the listener, the expiry of cached statuses and
  balances, and the growing old of an unrefreshed row. `PrivateStream`: the handler,
  the refresh task and the tick of time. That the exchange accepts a connection
  is part of a property's premise where it matters (`StreamReturns`).
* `WebGateway`: the generator of a session starts, delivers and ends
  (`session_timeout_s`), and a call is handled (the proxy has timeouts). A client
  that opens a session or posts a call is not fair. A call that was sent reaches
  the server or fails (`Reach` while the proxy waits).
* `ToolPath`: the steps of the proxy, each of which has a timeout, and nothing of
  the server: its answer may never come. The fairness of the gateway and of the proxy
  is stated without a premise in `MCMcpPath`, for the actions of a part that a
  behaviour does not have are never enabled.

`SYMMETRY` is used in `engines` only, where no liveness is checked. In `access`, `mcp` and
`consumer` the names of requests, codes, tokens, sessions, instances, ... are interchangeable as well, and
`InOrder` (module `Names`) has a behaviour use them for the first time in one order: every
other behaviour is a renaming of one of these. It restricts the first use of a name. In
`access` and `mcp` that is a step of a client's in each case (`Open`, `Post`, `Arrive`,
`Authorize`, ...; `Issue` chooses among unused tokens) and never a fair one, so that it cuts
no service's step off. In `consumer` (`OrderedSpec`) it is the first `Tick` of an instance, which is
fair; but `Fairness` is the same of every instance, so that a renaming of a fair behaviour is
fair, and a behaviour in which the first instance never reads although it could is not.

## 5. What is proved

Eight modules hold theorems. Each holds for every value of the constants that the
named assumption of its component's module allows, and every run evaluates the
assumptions of its own instance. Most say that bounds and quantities are
numbers and sets are finite. Those that say more, and why the code justifies it:

* `RateLimitAssumption`: `Minute + MaxDelay <= Ttl`; a counter lives 120 s, its
  minute is 60 s, and no request takes longer than the other 60.
* `PrivateInvariant` assumes `Refresh + 1 < Life`: a listen key lives 60 minutes
  and is renewed every 30 (`streams/private.py:40`), and a keepalive goes out within
  the tick after it is due. Without that the key may die between two keepalives.
* `ScaleAssumption` of `Indicators`: `Scale` is so fine that the least change of a close,
  smoothed down once with every bar there is, is not yet rounded to nothing. The code's
  averages are floats, in which a change fades after thousands of bars; the model's are
  integers, in which it would after a few, and the RSI would then forget that there was
  a loss. It ties `Scale` to `MaxBars` and `RsiPeriod` and bounds neither.
* `PathAssumption`: the path is that of one call at most, since each call has a session
  of its own; its three requests are different ones.
* `GatewayAssumption`: the two method names are not names of tools, scopes are of
  tools that are not blocked.
* `None`, `Unset` and the like are none of the values they stand beside.

A statement `Spec => []Inv` is proved from an inductive invariant: it holds
initially, each action of `Next` keeps each of its parts, and it implies `Inv`.
What follows is what each had to be strengthened with, which is where the argument
is.

**`ExecutionConsumer_proofs`.** `FilledOncePerLock` is not inductive: that no
second entry of an intent executes follows only from the first one's lock being
held or having lapsed since before it executed. `LockCovers` says this of the
entry an instance has admitted as well as of one already executed, and needs to
know that the entry in hand was delivered (`InHand`), carries an intent
(`Parsed`) and a status that may be written (`Writable`). `LateAtMostOnce` says of
an instance between its look at the kill switch and its submission that it has not
yet submitted late. `TablesFollow` relates the rows to the place of each instance
that writes them: whose the rows are (`OwnEntries`), that a row is not ahead of
the entries that wrote it (`RowsBehind`), which status each place leaves
(`RowFollows`), how far an order, and the fill that it tells of, have come (`OrderFollows`), and that a lone instance past the gate has seen no
cooldown (`CooldownSeen`). With `TypeOK` these are `ConsumerInv`
(`ConsumerInvariant`); `Deduplication`, `KillSwitchBound`, `TablesAlwaysAgree` and
`CooldownKept` follow. `ConsumerImplementsLifecycle` is the refinement of
`JobLifecycle`: every step of the service is a stutter or a lossy step of one job
that never goes back, and as long as nothing has failed an exact edge of
`VALID_JOB_TRANSITIONS`.

**`Decisions_proofs`.** One theorem for each module of a decision.

* `RulesInvariant`: for any number of rules of any weights the direction is that of
  the larger share, and stop and target lie on their sides of the price. The loop
  goes over the rules and adds up; the property compares sums over the sets of
  rules that vote, in which what counts for nothing may be left out (`MaskedSum`).
* `RiskInvariant`: an approved order was within each limit that could be read. The
  reads are one await apart, so that the invariant says of each value read that it
  is what the tables held at a moment since the entry was taken (`ReadWasThere`)
  and which values there are at each await (`ReadInOrder`); `VerdictStands` ties the
  verdict to the checks, and `StoppedReadsTheLoss` that a stopped account reads a
  loss at its limit until midnight.
* `PricingInvariant`: a price that is shown throughout a look is found by it, and a
  trade sized by amount and filled at that price is worth the amount up to rounding.
  As long as no key has expired, a look that found nothing yet while a price was shown
  has missed only the snapshot, and the price key, which it has still to read, is there
  (`ShownIsAhead`); a size that was derived is that of a price that was found
  (`IntentStands`); and rounding moves a number by half a step at most
  (`QuantizeIsNear`), which is where the bound on the worth comes from.
* `RecordsInvariant`: a record that is missing is the trace of a failure of its own.
  In the middle of an evaluation its own action is no gap yet, and the row it failed to
  save will be one (`Accounted`): counted like that, a step adds no gap or one together
  with a failure (`FailuresAccount`). Rows are of evaluations that have come so far
  (`RowsAreInOrder`).
* `LiveInvariant`: what reaches the exchange passed each gate, its cap included, and
  the preview answers as the gates will. The gates are asked in order, and what
  one has allowed stands while the next is asked (`GatesStand`); what is
  reported of the fills adds up legs of that order (`LegsAreOfTheOrder`,
  `ResponseIsOfTheCase`). An order that is at the exchange may be reported as failed, with
  an error of `Unknown` only.

**`Sums`.** A sum is defined by what determines it (`IsSum`: nothing of the empty
set, and one element at a time). The fold of the community modules is one
(`FoldIsSum`), so that `SumFunctionOnSet` has that recursion in whatever order its
elements are taken (`SumRecursion`). An induction over sets or numbers is not
available to the provers; that among the sets for which a claim is false is one
that has no smaller one (`LeastSet`) is, and says the same. From it follow the sums of two
parts, of an appended element, of a shifted piece, and that numbers which grow have a
positive regression numerator (`GrowingNumbers`), and the variance of numbers as the
mean of their squares less the square of their mean (`VarianceOf`).

**`MarketBook_proofs`.** `IntegrityCatchesGaps` proves `BookInv`: types,
`ValidIsContiguous` by cases of the event that is dispatched, and `OldestFirst`:
streams and keys hold what they were given in the order of its ids, each copy no
newer than what is still to come. `CopyMovesForward` follows from it.
`DeployedBookIsTrue` assumes that the diff stream is not subscribed
(`"depth" \notin Streams`, as in `docs/railway_deploy_checklist.md:97`): then
events, the pending write, the hot key and the analytics' copy all are books
the exchange had (`TrueEvents`, `TrueCopies`), through every loss, expiry and
crash, since a snapshot replaces and never merges. `BookIsTrueUntilFailure` is
about both streams: merging a delta into the hot key gives a book of the
exchange if the key's book lies in the delta's range and every level
that changed in the range is in the delta. The events are true of the
books they lead from and to (`TrueOf`), none is missing between two, and the first to
come starts no later than just after the book at hand (`EventsLinked`, `EndsLinked`). That a
level which no update of a range sets is equal at both ends would be an
induction over the range; `Settled` says it as a state invariant of the history of
books instead, which grows by one update per step.

**`Streams_proofs`.** `PrivateInvariant`: the key has what is left of its life since
the last PUT, counted against what the refresh task has slept (`KeyCovered`),
and nothing is there before the start or after the end. `AccountInvariant`: by
the place of the listener, which status the stores show (`BackoffIsMarked`), what
was refused (`RefusedByExchange`), what was subscribed (`AcceptedIsSubscribed`), and
that rows, cache and events on the wire are balances of the past
(`WrittenWasTrue`). `OrderInvariant` proves that fills never exceed
executions and add up. It needs what the reports say of each other
(`ReportsTell`: a trade has one time and one cumulative quantity however often it
is reported), which rows exist at each await (`RowsAreThere`), that what a task
has read still fits what it is about to write over (`ReadsFit`), and a
sum that is kept through the two transactions of a fill: `FillsFit` counts what is
booked and what the consumer is about to book against the level reconciliation
has reached, and says which report each row is of. `FilledNeverGoesBack` is the
action property.

**`SymbolState_proofs`.** `SnapshotInvariant`: the section of the book in a snapshot is of
one book, no reader that has seen a snapshot in the stream finds an older one
under its key, and a round publishes every symbol but those of which a call failed.
What is out is no newer than the round (`OutIsOfThePast`), the key of the snapshot in
hand has been written before the stream is (`KeysBeforeStream`), a symbol that the round
has done is published (`DoneIsPublished`), and walls are those of the book beside
them (`WallsOfTheBook`). `WallInvariant`: a wall is known since the
start of the unbroken run of updates that showed it. The property looks at the history
backwards; the invariant says of each update in turn where its run began
(`RunsHaveAStart`, `RunStart`). `FlowInvariant`: four parts are inductive together
(`FlowCore`: the cumulated delta and the two deques are those of the histories, and
the buckets cut the tape), the others follow from them in each state. A deque
of the last elements is a tail of the history (`LatelyIsTail`) and stays one when an
element is pushed (`PushedIsLately`). A closed bucket adds its volume to the sum
over the tape before it (`SumOfUnion`). The slope of purchases alone is
positive because their running sum grows. A liquidation of the window that the deque has
lost would have more after it in the window than the deque holds
(`TotalsFollow`), for which they must be in the order of their times
(`LastLiquidations`), as trades need not be: the count of young trades is a
bijection with those of the tape that were not pushed out (`SpeedFollows`).

`IndicatorInvariant`: what the engine carries from bar to bar is what its definition says
of the whole history. Five parts are inductive together: the types, that the deques end
in the latest closes (`IndicatorType`), `ReadyOnTime`, `StaysInRange`,
`RsiMatchesWilder` and `ChangesAreFelt`. Each step of an average is a quotient, so
that a few facts about division carry them: a quotient keeps the order of
what it divides (`QuotientGrows`), from which an average stays between the prices
(`AverageBetween`, `BlendBetween`, `WilderBelow`). Wilder's reference is a recursion over
the history; that it has a value for every bar, that the value of a bar does not
depend on those after it, and that two histories which agree so far agree in it, are proved by
a least bar at which it would not (`AveragesExist`, `AveragesAgree`, `WilderLaw`), so
that one more bar is one more step of it (`WilderNext`). `RsiTellsTheSide` is why
`ChangesAreFelt` is needed: that an RSI of 100 tells a history without a loss is
not inductive, for it says nothing of how much is left of a loss. The invariant says
that at least as much is left as of the least change at the first bar
(`LaterIsTold`), and `ScaleAssumption` that this is not nothing. `BandsOfTheLastCloses` follows in
every state from what the deque holds, by an identity between sums (`VarianceOf`). `SymbolInvariant` puts
the four together for the specification that the run `engines` checks.

**`WebGateway_proofs`.** `GatewayInvariant` and `BlockedNeverReached`: a call
that is on its way was permitted by the scopes of its session, which are read
once (`InFlight`), and a finished call has one answer and, if of a tool, one line
of the audit. `GatewayIsOneShot` is the refinement of `OneShot` by the calls of
tools. `SessionInvariant` is of the server behind it: `RefreshedOften` counts the
silent ticks a session still needs against the messages its stream has read, and
the other parts say where a request, its queue entry and its generator are.
`PathInvariant` is the same of the server with the proxy at its door: each step of
`ToolPath` is one of the server, a failure, or not seen by it (`PathStepOfServer`), and
nothing is posted before the proxy dials (`ClientPlaced`). `PathIsOneShot` is the
refinement of `OneShot` by the proxy and the server: what is proved is that an
answer is taken only if its id is that of the call, which only a tool that has run
is answered with (`ResponseFollowsExecution`), and that the tool runs at most once
(`ServerRuns`). With `GatewayIsOneShot` both sides of the abstraction that joins the two
modules are proved, as far as it is safety.

**`Control_proofs`.** Of the strategies, `RegistryFresh` proves `RegistryInv`: the types of
the whole service, among them that evaluators still to run are loaded ones
(`HandType`, for which it matters that a reload happens with an empty hand), and
that a registry entry is one of the states its row has had since the last
query. `IntentsAreFresh` follows. `RevivalIsOvertaken` rests on `MovesInv`: a
caller in a session plans only a move that was legal from what it read, and nothing
is legal from "archived". `ArchivedIsFinalAlone` adds that there is one caller:
then what it read is what the row still is (`LoneInv`), which is the part that
fails with two (`strategy_archived`). `TrailTells` proves that the audit rows tell
the history, although the "from" of a row is what its session once read: what a
session has read is a state that the trail already tells of, and the trail only
grows (third part of `TrailTellsHistory`).

Of access, `OAuthInvariant`: one token per code, because a request that
has data of a code has deleted it (`HoldsItsCode`) and a token is of a request
that held and verified it (`TokenFromRequest`). `LimitInvariant`: the numbers given
out of a minute are distinct, fit its counter and count requests, and a counter
outlasts every request that may still come for it (`LimitParts`).
`ModeInvariant`: without overlap one request writes and what it has written stands
(`OneWriter`). `CredentialInvariant`: the row is a whole pair of a run that wrote it
under its own key (`RowIsOfARun`), and what a run has done by the time it is
where it is (`WrittenWhenSaved`).

**Only model-checked.**

* Liveness and everything under fairness: `EveryEntryAcked`, `OrdersSettle`,
  `ChangesArrive`, `BookHeals`, `StreamsReturn`, `GatewayReturns`.
* The part of `ShotsAreOneShot` that is fairness: that every call on its way ends. Its
  steps are `GatewayIsOneShot` and `PathIsOneShot`.

## 6. Where the code and its documentation part

Three of these are runs; for the others the properties are stated with the
premise under which the code keeps them, and the premise is what the code is
missing. Paths are below `services/`.

| Where | What the code does | What is said, or the premise in the model |
|---|---|---|
| `execution/reconciliation/event_consumer.py:266` | drops a report handled before `create_order` commits or after "filled" was written | run `recon_lost_report` |
| `mcp_server/facades/strategy.py:142` | reads, checks and writes the row without a lock | run `strategy_archived` |
| `execution/risk/engine.py:68` | never reads `global:emergency_stop` | run `mode_unread` |
| `execution/consumer.py:147` | the lock of 30 s is the only guard: a later delivery is executed again | `FilledOncePerLock` excuses lapsed locks; `jobs/client_order_id.py:12` "replay-safe" |
| `execution/consumer.py:203` | swallows a failed status write and goes on; the row skips states | `LossySpec`; `jobs/lifecycle.py:30` raises for nobody |
| `execution/persistence/repository.py:149` | saves no fill without a price or a quantity, and `consumer.py:246` writes "filled" all the same | `TablesAgree`: then the order's row tells that nothing was filled (`unfilled`) |
| `execution/consumer.py:330` | `_on_failed` logs an incident only if given the intent, which two of three callers omit | "Log incident for any execution failure" |
| `execution/reconciliation/loop.py:117` | counts a partially filled job, however old, and reports nothing | `StaleReported` is of "submitted" only; `loop.py:17` names both |
| `execution/reconciliation/event_consumer.py:283` | names a fill by order and millisecond | `BooksBalance` excuses `SharedMillisecond` |
| `execution/reconciliation/event_consumer.py:309` | inserts the fill and updates the order in two transactions | `NeverOverbooked` with `failures = 0` |
| `execution/account_stream/state.py:212` | names the same fill by trade id | `NeverOverbooked` with `OneWriter` |
| `execution/consumer.py:231` | writes statuses over "canceled" | `jobs/lifecycle.py:11` "# terminal" |
| `analytics/dispatcher.py:91` | vouches for a book by the ids of the events, not of the book that was merged | `ValidBookIsTrue` with the diff stream until a first failure |
| `analytics/engines/indicators.py:90` | `reset_vwap` has no caller | the VWAP is of the whole process |
| `analytics/engines/book_analytics.py:93` | flags a wall that was traded through | `CandidatesAreYoung` is of age only |
| `analytics/engines/rvol.py:9` | starts a bucket at a trade, not at a fixed boundary | `BucketsTellTheTape` says which buckets there are |
| `analytics/engines/liquidations.py:94` | sums what a deque of 500 still holds | `TotalsOfTheWindow` up to the deque |
| `execution/account_stream/listener.py:359` | writes the difference of a deposit as the balance | `ReportedWasTrue` without deposits |
| `execution/account_stream/state.py:48` | reads spot field names from a futures event: 0 | `ReportedWasTrue` of spot accounts |
| `execution/account_stream/listener.py:108` | takes a foreign first message for the ACK | `StreamingIsSubscribed` |
| `execution/account_stream/listener.py:177` | marks nothing after a normal close | `BackoffIsVisible` |
| `execution/account_stream/listener.py:266` | takes any failure to create a listen key for a refusal | `AuthErrorIsRefusal` |
| `execution/account_stream/listener.py:186` | logs the incident of a refusal in a second await, whose failure it swallows (`:492`) | `AuthErrorIsRefusal` excuses a failed write and a crash |
| `execution/account_stream/listener.py:244` | sees a stop only when a message arrives | no property: a stopped listener of a quiet account need not end |
| `execution/account_stream/listener.py:206`, `binance_ingest/connection/backoff.py:25` | take the power before the minimum; attempt 1024 overflows | `StreamReturns` below `Overflow`; `Reconnects` says that the handler ends "dead" only then |
| `binance_ingest/streams/private.py:121` | never makes a new key after a failed keepalive | `Reconnects` without one |
| `binance_ingest/connection/manager.py:131` | cancels handlers past the release of their key | `StoppedMeansDeleted` is of handlers that ended by themselves |
| `mcp_web_gateway/proxy.py:109` | raises other than `UpstreamError` for a refused connection: no answer | `AcceptedIsAnswered` without |
| `mcp_web_gateway/main.py:116` | a session whose stream was never started keeps its slot | `SlotsAreFreed` |
| `mcp_server/main.py:128` | renews a session only after 15 silent seconds: a busy one expires | `OpenSessionIsFound` with enough silence |
| `mcp_server/session.py:64` | may index a queue that went during the await | the request ends "raised" |
| `mcp_server/session.py:43` | keeps the queue when SETEX fails | `QueueHasStream` without failures |
| `execution/adapter/paper.py:137` | reads three keys one after the other | `VisibleIsReached` without expiry |
| `execution/adapter/paper.py:112` | rounds a price below half a cent to zero | `VisibleIsReached` above |
| `execution/risk/checks.py:33` | compares `size_usd`, which need not be what is filled | `FillIsWorthItsAmount` of trades sized by amount at the same price |
| `gateway_api/ops/trading_mode.py:53` | writes two keys with two commands | `SuccessSettles` without overlap |
| `gateway_api/auth.py:25` | counts calendar minutes | "sliding window" (`auth.py:1`); `MinuteCap` is per number of a minute |
| `gateway_api/ops/strategy_status.py:68` | takes an evaluation with an intent for an emission, though one is built in simulation and may have failed to be published | "Last intent emitted"; `AnswerHangsTogether` compares the rows only |
| `execution/consumer.py:173` | one `try` for both queries: a failure of either leaves what was not read unlimited | `ApprovedWasWithin` of what was read |
| `execution/consumer.py:167` | of the loaded context uses the limits only; allowed and denied symbols, approval and paper-only are dropped, and a failed load means the engine's defaults | `InForce` |
| `execution/persistence/repository.py:313` | counts positions with `quantity > 0`: a short one is none | `CountOpen`; `ApprovedWasWithin` counts alike |
| `execution/persistence/repository.py:293` | leaves out fills without `realized_pnl`, which is every paper fill | `Report` is of fills with one |
| `execution/account/context.py:110` | `decrypt_credentials` expects another format than `CredentialStore.save` writes | not modelled; called by nobody |
| `execution/adapter/live.py:76` | without `size_usd` and limit price the cap is not applied | `SpentIsWithinCap` is of purchases with a limit price, sized by quantity |
| `execution/adapter/live.py:153` | reports the price of the first leg for the whole quantity | `ResponseTellsTheFill` where all legs had one price |
| `execution/adapter/live.py:91` | logs a dry run that nothing forbids as an incident of a blocked trade | `live_policy.py` never allows a dry run, so that the preview of `live.py:99` is unreachable |
| `execution/adapter/live.py:184` | reports an accepted order as failed when its answer is lost | `ResponseTellsTheFill` excuses `Unknown` errors; `OrderReconciliation` |
| `execution/adapter/live.py:182` | reports every status but 200 as a failed order, 5xx among them, which leave open whether it was executed | `Unknown`; that a 4xx is a refusal is assumed of the exchange |
| `analytics/snapshot/builder.py:126` | takes bid, ask and spread of the last book when there is no ticker, valid or not | "Book-dependent analytics require valid integrity state"; `OneBook` is of the section |
| `analytics/dispatcher.py:91` | a snapshot event whose book could not be fetched makes the old book valid again, and its mid the last price | `WithBook`, `Priced` |
| `analytics/snapshot/builder.py:76` | reads account and risk state from keys that nothing writes | the sections are left out |
| `analytics/consumer.py:108` | an exception of the dispatcher drops the rest of its batch | `Dispatch` is of the events that are dispatched |
| `analytics/engines/indicators.py:104` | the RSI of a market that never moved is 100 | `RsiTellsTheSide` |
| `analytics/engines/flow.py:51` | delta is over 50 trades, volumes and aggression over 100, and large trades are judged at the last price, not at their own | `SpeedIsOfTheTape` compares equal windows |
| `analytics/engines/flow.py:69` | counts what a deque of `cvd_window` holds: the speed is bounded by it | `SpeedIsOfTheTape` less what was pushed out |
| `execution/account_stream/manager.py:61` | reads the pair twice; with another key in its environment it gets none, and does not start a listener | `ListenerHasAPair` |
| `../scripts/store_credentials.py:42` | an uncaught database error in the look-up or in the verification ends with 1; one in the commit with 3 though the pair may be stored | "3" is a database error; `ExitCodesTell` |
| `mcp_web_gateway/proxy.py:143` | does not look at the status of a POST, waits for an answer that cannot come, and the call may run after that | `OneShot`: a failure says nothing of the tool |
| `mcp_web_gateway/proxy.py:161` | raises the reader's exception in place of an answer already there | `Concluded` |

## 7. What is not modelled

* Connectivity checks (`account/connectivity.py`), `CredentialStore.delete` as a
  service's operation, `decrypt_credentials`, `compute_clusters`, `reset_vwap`,
  `reset_cvd`: called by no running service.
* The live adapter is not wired by `main.py`, which has the paper adapter only:
  `LiveOrders` is of the adapter as it stands, and `OrderReconciliation` of what
  becomes of its orders.
* Spread, imbalance, funding pressure, large trades: formulas over one event or over
  deques that are modelled.
* The account and risk sections of a snapshot, which nothing fills, and the
  computed values of the others, which the engines' modules have.
* The batching of subscriptions and channels other than depth in `ingest`, and
  handlers of the normalizer that only rename fields.
* Queries of the gateway API and of the MCP tools other than the ones named in
  section 2, HTTP forms, metrics, logging, sessions of the database, migrations,
  the audit script and infrastructure. The unique constraints of the migrations are
  in the models of the tables.
* `OAUTH_DEMO_MODE` (`mcp_server/oauth/handlers.py:54`), off by default and "only for
  local testing": with it `/oauth/authorize` takes the user from the query and needs no
  cookie, so that what `OAuthInv` says of the login would not hold.
* How tokens are validated (`mcp_web_gateway/auth.py`, `mcp_server/identity.py`): a
  bearer is valid or not, and has scopes.

## 8. The plan

Done: the modules of section 2, their runs, and the proofs of section 5. Next:
a module in which intents of `StrategyService` reach `ExecutionConsumer`.

The hazards that the properties are for are listed, each at its line, under
`hazards` in `PROJECT.json`.
