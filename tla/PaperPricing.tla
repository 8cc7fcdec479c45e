---------------------------- MODULE PaperPricing ----------------------------
(***************************************************************************)
(* A paper trade requested over MCP, from its size to its fill: the facade *)
(* request_paper_trade looks for a price to derive the size from, the risk *)
(* engine compares size_usd with the account's limit, and                  *)
(* PaperExecutionAdapter looks for a price again to fill at. Each look is  *)
(* a sequence of GETs on keys that the normalizer and the analytics        *)
(* service write, and that expire, in between.                             *)
(*                                                                         *)
(* Prices are numbers of a unit of which Cent make 0.01, sizes numbers of  *)
(* the facade's step of 0.00001, amounts products of the two. Quantize     *)
(* rounds half to even.                                                    *)
(*                                                                         *)
(* Bounds: one trade; MaxWrites writes of the keys, MaxExpired expiries.   *)
(***************************************************************************)
EXTENDS Integers, Sequences

CONSTANTS Markets, Prices, Amounts, Sizes, Cent, MaxUsd, MaxWrites, MaxExpired, Absent

ASSUME PricingAssumption ==
    /\ Markets = {"spot", "futures"}
    /\ Prices \subseteq Nat \ {0} /\ \A p \in Prices : p % 2 = 0
    /\ Amounts \subseteq Nat /\ Sizes \subseteq Nat \ {0}
    /\ Cent \in Nat \ {0} /\ MaxUsd \in Nat /\ MaxWrites \in Nat /\ MaxExpired \in Nat
    /\ Absent \notin Nat \cup Markets \cup [bid : Prices, ask : Prices]

VARIABLES
    snapshot,   \* analytics:{m}:{s}:snapshot, its market_state.price (0: it has none)
    price,      \* market:{m}:{s}:price
    ticker,     \* market:{m}:{s}:book_ticker
    pc,         \* where the trade is
    market, usd, size,   \* its intent
    at,         \* the source that the current look reads next
    sizedAt,    \* the price that the size was derived from
    visible,    \* get_symbol_snapshot has shown a last_price ever since the look began
    fill,       \* the fill price
    writes, expired

keys == <<snapshot, price, ticker, writes, expired>>
pricingVars == <<keys, pc, market, usd, size, sizedAt, at, visible, fill>>

Quotes == [bid : Prices, ask : Prices]

PricingInit ==
    /\ snapshot = [m \in Markets |-> Absent] /\ price = [m \in Markets |-> Absent]
    /\ ticker = [m \in Markets |-> Absent]
    /\ pc = "new" /\ market = Absent /\ usd = Absent
    /\ size = Absent /\ sizedAt = Absent
    /\ at = 1 /\ visible = FALSE /\ fill = Absent /\ writes = 0 /\ expired = 0

\* Decimal.quantize: n / d to the nearest integer, a half to the even one.
Quantize(n, d) ==
    LET q == n \div d
        r == 2 * (n % d)
    IN IF r > d \/ (r = d /\ q % 2 = 1) THEN q + 1 ELSE q

-----------------------------------------------------------------------------
\* The keys.

\* last_price of get_symbol_snapshot: the snapshot's if there is a snapshot,
\* assembled from the price key otherwise.
LastPrice(m) ==
    IF snapshot[m] # Absent THEN IF snapshot[m] = 0 THEN Absent ELSE snapshot[m]
    ELSE price[m]

Watch == visible' = (visible /\ \E m \in Markets : m = market /\ LastPrice(m)' # Absent)

\* AnalyticsHotStateWriter, and the handlers of trades and book tickers.
Write(m) ==
    /\ writes < MaxWrites /\ writes' = writes + 1
    /\ \/ \E p \in Prices \cup {0} : snapshot' = [snapshot EXCEPT ![m] = p]
          /\ UNCHANGED <<price, ticker>>
       \/ \E p \in Prices : price' = [price EXCEPT ![m] = p]
          /\ UNCHANGED <<snapshot, ticker>>
       \/ \E q \in Quotes : q.bid < q.ask /\ ticker' = [ticker EXCEPT ![m] = q]
          /\ UNCHANGED <<snapshot, price>>
    /\ Watch
    /\ UNCHANGED <<expired, pc, market, usd, size, sizedAt, at, fill>>

Expire(m) ==
    /\ expired < MaxExpired /\ expired' = expired + 1
    /\ \/ snapshot' = [snapshot EXCEPT ![m] = Absent] /\ UNCHANGED <<price, ticker>>
       \/ price' = [price EXCEPT ![m] = Absent] /\ UNCHANGED <<snapshot, ticker>>
       \/ ticker' = [ticker EXCEPT ![m] = Absent] /\ UNCHANGED <<snapshot, price>>
    /\ Watch
    /\ UNCHANGED <<writes, pc, market, usd, size, sizedAt, at, fill>>

-----------------------------------------------------------------------------
\* The look for a price.

Other(m) == IF m = "spot" THEN "futures" ELSE "spot"

\* What one GET finds, None if the key is absent or holds no positive price.
Snapshot(m) == IF snapshot[m] = 0 THEN Absent ELSE snapshot[m]
Mid(m) == IF ticker[m] = Absent THEN Absent ELSE (ticker[m].bid + ticker[m].ask) \div 2

\* A bug to detect: the price key is not asked.
WithoutPriceKey ==
    LET m == IF at <= 3 THEN market ELSE Other(market)
    IN CASE at % 3 = 1 -> Snapshot(m) [] OTHER -> Mid(m)

\* _redis_price and _resolve_price_from_redis: three keys of the intent's
\* market, then the same three of the other one.
Found ==
    LET m == IF at <= 3 THEN market ELSE Other(market)
    IN CASE at % 3 = 1 -> Snapshot(m) [] at % 3 = 2 -> price[m] [] OTHER -> Mid(m)

Look == at' = 1 /\ visible' = (LastPrice(market) # Absent)

Miss ==
    /\ pc \in {"sizing", "filling"} /\ at <= 6 /\ Found = Absent
    /\ at' = at + 1
    /\ UNCHANGED <<keys, pc, market, usd, size, sizedAt, visible, fill>>

-----------------------------------------------------------------------------
\* request_paper_trade. With a size given there is nothing to look for.
Request(m, u, s) ==
    /\ pc = "new" /\ (u # Absent \/ s # Absent)
    /\ market' = m /\ usd' = u /\ size' = s
    /\ pc' = IF s = Absent THEN "sizing" ELSE "published"
    /\ at' = 1 /\ visible' = (LastPrice(m) # Absent)
    /\ UNCHANGED <<keys, sizedAt, fill>>

SizeFor(p) == Quantize(usd, p)

Size ==
    /\ pc = "sizing" /\ at <= 6 /\ Found # Absent
    /\ size' = SizeFor(Found) /\ sizedAt' = Found
    /\ pc' = "published"
    /\ UNCHANGED <<keys, market, usd, at, visible, fill>>

PriceUnavailable ==
    /\ pc = "sizing" /\ at = 7
    /\ pc' = "unsized"
    /\ UNCHANGED <<keys, market, usd, size, sizedAt, at, visible, fill>>

\* check_max_position_size of a market order: without a size_usd it passes.
WithinLimit == usd = Absent \/ usd <= MaxUsd

CheckRisk ==
    /\ pc = "published"
    /\ pc' = IF WithinLimit THEN "filling" ELSE "rejected"
    /\ Look
    /\ UNCHANGED <<keys, market, usd, size, sizedAt, fill>>

-----------------------------------------------------------------------------
\* PaperExecutionAdapter.

\* A price that is not positive, after it was rounded to a cent, fails.
FillAt(p) ==
    IF p = Absent \/ Quantize(p, Cent) = 0 THEN pc' = "failed" /\ UNCHANGED fill
    ELSE pc' = "filled" /\ fill' = Quantize(p, Cent) * Cent

Fill ==
    /\ pc = "filling" /\ at <= 6 /\ Found # Absent
    /\ FillAt(Found)
    /\ UNCHANGED <<keys, market, usd, size, sizedAt, at, visible>>

\* The last resort: size_usd / size, where both are known.
Derive ==
    /\ pc = "filling" /\ at = 7
    /\ IF usd # Absent /\ size > 0 THEN FillAt(usd \div size) ELSE FillAt(Absent)
    /\ UNCHANGED <<keys, market, usd, size, sizedAt, at, visible>>

Trade ==
    \/ \E m \in Markets, u \in Amounts \cup {Absent}, s \in Sizes \cup {Absent} : Request(m, u, s)
    \/ Miss \/ Size \/ PriceUnavailable \/ CheckRisk \/ Fill \/ Derive

PricingNext == Trade \/ \E m \in Markets : Write(m) \/ Expire(m)

PricingSpec == PricingInit /\ [][PricingNext]_pricingVars

-----------------------------------------------------------------------------
\* Every variable keeps its type.
PricingType ==
    /\ snapshot \in [Markets -> Prices \cup {0, Absent}]
    /\ price \in [Markets -> Prices \cup {Absent}]
    /\ ticker \in [Markets -> Quotes \cup {Absent}]
    /\ pc \in {"new", "sizing", "unsized", "published", "rejected", "filling", "filled", "failed"}
    /\ market \in Markets \cup {Absent} /\ usd \in Amounts \cup {Absent}
    /\ size \in Nat \cup {Absent} /\ sizedAt \in Nat \cup {Absent}
    /\ at \in 1..7 /\ visible \in BOOLEAN
    /\ fill \in (Nat \ {0}) \cup {Absent}
    /\ writes \in 0..MaxWrites /\ expired \in 0..MaxExpired

\* "any price visible in the snapshot is always reachable by the adapter"
\* (paper.py:37), as long as no key expires and no price rounds to zero: a look
\* that finds nothing was made while get_symbol_snapshot, at some moment of it,
\* had no last_price to show either, however the keys are rewritten meanwhile.
VisibleIsReached ==
    pc \in {"unsized", "failed"} /\ expired = 0 /\ (\A p \in Prices : 2 * p > Cent) => ~visible

\* A size derived from size_usd and filled at the same price is worth the amount
\* that was asked for and checked, but for the rounding of the size and of the
\* price.
FillIsWorthItsAmount ==
    pc = "filled" /\ sizedAt # Absent /\ fill = Quantize(sizedAt, Cent) * Cent =>
      LET rounding == IF fill > sizedAt THEN fill - sizedAt ELSE sizedAt - fill
          slack == sizedAt + 2 * size * rounding
      IN 2 * (size * fill - usd) \in -slack..slack

\* What these rest on. A look during which a price was shown throughout has one to
\* find: if it has missed the snapshot, there was none, and the price key is what
\* was shown.
ShownIsAhead ==
    pc \in {"sizing", "filling"} /\ visible =>
      /\ LastPrice(market) # Absent
      /\ expired = 0 => at <= 2 /\ (at = 2 => price[market] # Absent)

\* The intent of a trade: it has an amount or a size, and a size that was derived
\* is that of the amount at a price that was found.
IntentStands ==
    /\ pc # "new" => market \in Markets
    /\ pc = "new" => sizedAt = Absent
    /\ pc = "sizing" => usd \in Amounts /\ sizedAt = Absent
    /\ pc \notin {"new", "sizing", "unsized"} => size \in Nat
    /\ sizedAt # Absent => usd \in Amounts /\ sizedAt \in Nat \ {0} /\ size = SizeFor(sizedAt)

\* What a paper trade finds and pays: a price that is shown is found, and a
\* trade sized by amount is worth it.
PricingInv ==
    PricingType /\ VisibleIsReached /\ FillIsWorthItsAmount /\ ShownIsAhead /\ IntentStands
=============================================================================
