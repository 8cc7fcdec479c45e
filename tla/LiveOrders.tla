------------------------------ MODULE LiveOrders ------------------------------
(***************************************************************************)
(* LiveExecutionAdapter.submit: the four gates of LiveTradingPolicy, the   *)
(* dry run, the incident of a blocked order, the POST to the exchange and  *)
(* what is made of its answer; with the MCP tool check_live_trade_policy,  *)
(* which evaluates the same gates.                                         *)
(*                                                                         *)
(* The exchange takes or rejects an order and executes a market order in   *)
(* legs at once, a limit order not beyond its price and perhaps only       *)
(* partly. An answer may be lost whatever became of the order. Of the      *)
(* exchange it is assumed that a status 4xx says that the order was        *)
(* refused; 5xx (with 408, which it sends for a timeout of its own) leaves *)
(* open what became of it.                                                 *)
(*                                                                         *)
(* Symbols are spelled in capitals in the allowlist and compared so;       *)
(* account names are compared as they are. Commissions are one per lot.    *)
(*                                                                         *)
(* Bounds: one order, of at most two legs.                                 *)
(***************************************************************************)
EXTENDS Integers, Sequences

CONSTANTS
    LiveSymbols,  \* the symbols as they may be written
    Upper,        \* str.upper on them
    LiveAccounts, LiveQuotes, LiveSizes, LiveAmounts, LiveCap, Nothing

ASSUME LiveAssumption ==
    /\ Upper \in [LiveSymbols -> LiveSymbols]
    /\ LiveQuotes \subseteq Nat \ {0} /\ LiveSizes \subseteq 1..2
    /\ LiveAmounts \subseteq Nat /\ LiveCap \in Nat
    /\ Nothing \notin Nat /\ Nothing \notin {"would_allow", "would_block", "blocked_by_policy"}

VARIABLES
    enabled, accounts, listed,   \* the settings, as from_settings parsed them
    intent,      \* the order that submit is called with
    point,         \* where submit is
    reasons,     \* the gates that it failed
    incident,    \* the incident that was logged of it
    placed,      \* the order is at the exchange
    legs,        \* its executions
    response     \* the AdapterResponse

settingVars == <<enabled, accounts, listed>>
liveVars == <<settingVars, intent, point, reasons, incident, placed, legs, response>>

Intents ==
    [account : LiveAccounts, symbol : LiveSymbols, side : {"BUY", "SELL"}, size : LiveSizes,
     usd : LiveAmounts \cup {Nothing}, limit : LiveQuotes \cup {Nothing}, dryRun : BOOLEAN]
Leg == [price : LiveQuotes, qty : {1, 2}]

LiveInit ==
    /\ enabled \in BOOLEAN /\ accounts \in SUBSET LiveAccounts
    /\ listed \in SUBSET {Upper[s] : s \in LiveSymbols}
    /\ intent = Nothing /\ point = "new" /\ reasons = {} /\ incident = Nothing
    /\ placed = FALSE /\ legs = <<>> /\ response = Nothing

-----------------------------------------------------------------------------
\* LiveTradingPolicy.

\* A bug to detect: only an amount is looked at.
AmountOnly(o) == o.usd

\* The notional of submit: a market order without size_usd has none.
Notional(o) ==
    IF o.usd # Nothing THEN o.usd
    ELSE IF o.limit # Nothing THEN o.size * o.limit ELSE Nothing

\* evaluate: every gate is evaluated, and an empty list lets nothing through.
Blocking(account, symbol, notional) ==
    {g \in {"disabled", "account", "symbol", "notional"} :
       CASE g = "disabled" -> ~enabled
         [] g = "account" -> account \notin accounts
         [] g = "symbol" -> Upper[symbol] \notin listed
         [] g = "notional" -> notional # Nothing /\ notional > LiveCap}

\* check_live_trade_policy: a notional of 0 counts as none.
PolicyWouldAllow(account, symbol, notional) ==
    Blocking(account, symbol, IF notional = 0 THEN Nothing ELSE notional) = {}

-----------------------------------------------------------------------------
\* submit.

Failed(error) ==
    [success |-> FALSE, error |-> error, price |-> Nothing, per |-> 1,
     qty |-> Nothing, commission |-> Nothing]

\* A dry run is not allowed, whatever the gates say.
Evaluate(o) ==
    /\ point = "new" /\ intent' = o
    /\ reasons' = Blocking(o.account, o.symbol, Notional(o))
    /\ point' = IF reasons' = {} /\ ~o.dryRun THEN "posting" ELSE "blocked"
    /\ UNCHANGED <<settingVars, incident, placed, legs, response>>

\* What becomes of an order that is not let out.
Verdict ==
    IF ~intent.dryRun THEN "blocked_by_policy"
    ELSE IF reasons = {} THEN "would_allow" ELSE "would_block"

\* _log_policy_block, whose failure is swallowed; a dry run is logged too.
Block ==
    /\ point = "blocked" /\ point' = "answered"
    /\ incident' \in {Nothing, [reasons |-> reasons, dryRun |-> intent.dryRun]}
    /\ response' = Failed(Verdict)
    /\ UNCHANGED <<settingVars, intent, reasons, placed, legs>>

\* Over legs, of which there are two at most.
Total(e, of(_)) ==
    CASE Len(e) = 0 -> 0 [] Len(e) = 1 -> of(e[1]) [] Len(e) = 2 -> of(e[1]) + of(e[2])

Lots(leg) == leg.qty
Cost(leg) == leg.qty * leg.price
Executed == Total(legs, Lots)
Quote == Total(legs, Cost)

\* What the exchange may execute of an order at once.
Executions(o) ==
    LET within == {l \in Leg : o.limit = Nothing
                     \/ (o.side = "BUY" /\ l.price <= o.limit)
                     \/ (o.side = "SELL" /\ l.price >= o.limit)}
        all == {<<>>} \cup {<<l>> : l \in within} \cup {<<l, k>> : l, k \in within}
    IN {e \in all : Total(e, Lots) <= o.size /\ (o.limit = Nothing => Total(e, Lots) = o.size)}

\* The errors that leave open what became of the order: the adapter reports an
\* exception, or any status but 200, and asks nobody.
Unknown == {"exchange_error_5xx", "network_error"}

Post ==
    /\ point = "posting"
    /\ \/ \E e \in Executions(intent) :
            placed' = TRUE /\ legs' = e /\ point' = "accepted" /\ UNCHANGED response
       \* Refused, or failed before the order was taken.
       \/ /\ point' = "answered"
          /\ \E error \in {"exchange_error_4xx"} \cup Unknown : response' = Failed(error)
          /\ UNCHANGED <<placed, legs>>
    /\ UNCHANGED <<settingVars, intent, reasons, incident>>

\* With legs in the answer: the price of the first, all that was executed, the
\* sum of the commissions. Without: the average of a filled order, kept as the
\* amount and the quantity that it is the quotient of.
Filled(price, per, qty, commission) ==
    [success |-> TRUE, error |-> Nothing, price |-> price, per |-> per,
     qty |-> qty, commission |-> commission]

FillOf(shown) ==
    IF shown # <<>> THEN Filled(shown[1].price, 1, Executed, Executed)
    ELSE IF Executed = intent.size THEN Filled(Quote, Executed, Executed, Nothing)
    ELSE Filled(Nothing, 1, Nothing, Nothing)

\* The answer lists the legs or it does not; where the exchange has taken the order
\* and the answer is another, or lost, the order stands and an error is reported.
Answer ==
    /\ point = "accepted" /\ point' = "answered"
    /\ \/ \E shown \in {legs, <<>>} :
            response' = FillOf(shown)
       \/ \E error \in Unknown : response' = Failed(error)
    /\ UNCHANGED <<settingVars, intent, reasons, incident, placed, legs>>

LiveNext == (\E o \in Intents : Evaluate(o)) \/ Block \/ Post \/ Answer

LiveSpec == LiveInit /\ [][LiveNext]_liveVars

-----------------------------------------------------------------------------
\* Every variable keeps its type.
LiveType ==
    /\ enabled \in BOOLEAN /\ accounts \subseteq LiveAccounts /\ listed \subseteq LiveSymbols
    /\ IF point = "new" THEN intent = Nothing ELSE intent \in Intents
    /\ point \in {"new", "blocked", "posting", "accepted", "answered"}
    /\ reasons \subseteq {"disabled", "account", "symbol", "notional"}
    /\ placed \in BOOLEAN /\ legs \in Seq(Leg) /\ Len(legs) <= 2

\* "Dry-run live trade policy evaluation" (tools/account.py:65) and the preview
\* of a dry run tell what becomes of the order: it is let out to the exchange
\* exactly if the tool, asked about its notional, would allow it.
PreviewIsHonest ==
    intent # Nothing =>
      LET allowed == PolicyWouldAllow(intent.account, intent.symbol, Notional(intent)) IN
      /\ intent.dryRun => ~placed
      /\ ~intent.dryRun => (point = "blocked" => ~allowed) /\ (point = "posting" \/ placed => allowed)
      /\ response # Nothing => (response.error = "would_allow" => allowed)
                               /\ (response.error \in {"would_block", "blocked_by_policy"} => ~allowed)

\* "notional <= LIVE_MAX_NOTIONAL_USD, per-order size cap" (live_policy.py:9):
\* what a limit order to buy, sized by quantity, has spent is within the cap. A
\* sale may fetch more than its limit price, a market order without size_usd has
\* no notional, and size_usd need not be the worth of size.
SpentIsWithinCap ==
    placed /\ intent.side = "BUY" /\ intent.limit # Nothing /\ intent.usd = Nothing
      => Quote <= LiveCap

\* What the response tells of the fill is what was executed: a success is an
\* order at the exchange with its quantity and its cost, where the legs had one
\* price or none was listed; a failure is none, unless the error is one that leaves
\* it open.
ResponseTellsTheFill ==
    response # Nothing =>
      /\ response.success =>
           /\ placed
           /\ response.qty # Nothing =>
                /\ response.qty = Executed
                /\ (response.per > 1 \/ \A i \in DOMAIN legs : legs[i].price = legs[1].price) =>
                     response.price * Executed = Quote * response.per
           /\ response.qty = Nothing => Executed < intent.size
      /\ ~response.success /\ placed => response.error \in Unknown

\* What these rest on: the verdict is that of the gates at the time it was made,
\* which the settings keep; only what passed them goes on; and what was executed
\* is what the exchange may execute of the order.
GatesStand ==
    /\ point # "new" => reasons = Blocking(intent.account, intent.symbol, Notional(intent))
    /\ point = "blocked" => reasons # {} \/ intent.dryRun
    /\ point \in {"posting", "accepted"} \/ placed => reasons = {} /\ ~intent.dryRun

LegsAreOfTheOrder ==
    /\ placed => point \in {"accepted", "answered"} /\ legs \in Executions(intent)
    /\ ~placed => point # "accepted" /\ legs = <<>>

\* A response is the fill of an order at the exchange, or the failure that it met.
ResponseIsOfTheCase ==
    response # Nothing =>
      /\ point = "answered"
      /\ \/ placed /\ \E shown \in {legs, <<>>} : response = FillOf(shown)
         \/ \E error \in Unknown : response = Failed(error)
         \/ ~placed /\ response = Failed("exchange_error_4xx")
         \/ ~placed /\ response = Failed(Verdict) /\ (reasons # {} \/ intent.dryRun)

\* Orders that leave the adapter passed the gates as the tool shows them, spend
\* within the cap, and are told truly.
LiveInv == /\ LiveType /\ PreviewIsHonest /\ SpentIsWithinCap /\ ResponseTellsTheFill
           /\ GatesStand /\ LegsAreOfTheOrder /\ ResponseIsOfTheCase
=============================================================================
