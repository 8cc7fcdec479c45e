------------------------------ MODULE MCDecisions ------------------------------
(***************************************************************************)
(* From a snapshot to a fill, for model checking: what a strategy makes of *)
(* the snapshot, what the service records of the evaluation, at which      *)
(* price a paper trade is sized and filled, how an intent is judged by the *)
(* limits of its account, and what the live adapter does with an order.    *)
(* They meet only in values that each enumerates, so that a behaviour is   *)
(* of one of them.                                                         *)
(***************************************************************************)
EXTENDS RuleEvaluation, EvaluationRecords, PaperPricing, RiskGate, LiveOrders

VARIABLE part       \* whose behaviour this is

vars == <<ruleVars, recordVars, pricingVars, riskVars, liveVars, part>>

Of(kinds, lists, types, percents, states) ==
    [of : [kind : kinds, rules : lists, orderType : types, percent : percents], stage : states]

Rules(operators, weights) ==
    [field : Fields, operator : operators, value : Values, weight : weights,
     side : {"BUY", "SELL", None}]

\* Every single rule under every parameter, and lists of two or three weighted
\* rules of one operator: the sums do not depend on their order, so the first of
\* three is the one that weighs more.
Weighted(weights) == Rules({"gte"}, weights)
Lists ==
    {<<r, q>> : r, q \in Weighted({1, 2})}
    \cup {<<r, q, t>> : r \in Weighted({2}), q, t \in Weighted({1})}

MCVersions ==
    Of({"rule_based"}, {<<>>} \cup {<<r>> : r \in Rules(Comparisons, {0, 1})},
       {"MARKET", "LIMIT"}, {1, 99, None}, {"PAUSED", "ARCHIVED", "PAPER_ACTIVE"})
    \cup Of({"ma_crossover"}, {<<>>}, {"MARKET", "LIMIT"}, {1, 99, None},
            {"PAUSED", "ARCHIVED", "PAPER_ACTIVE"})
    \cup Of({"rule_based"}, Lists, {"MARKET"}, {None}, {"PAUSED"})

\* One set of limits that is tighter than the defaults, an order of each kind:
\* by amount, of unknown amount, by a limit price, and one that live trading and
\* its type forbid.
MCDefaultLimits == [usd |-> 10, loss |-> 2, open |-> 2]
MCPolicies == {[usd |-> 5, loss |-> 1, open |-> 1]}
OrderOf(isLive, type, amount, lots, bound) ==
    [symbol |-> "BTCUSDT", live |-> isLive, type |-> type, size |-> lots, usd |-> amount,
     limit |-> bound]
MCOrders ==
    {OrderOf(FALSE, "MARKET", 6, 1, Unset), OrderOf(FALSE, "MARKET", Unset, 1, Unset),
     OrderOf(FALSE, "LIMIT", Unset, 2, 4), OrderOf(TRUE, "STOP_LOSS", 4, 1, Unset)}

\* An allowlist is in capitals, an order's symbol need not be.
MCUpper == [s \in {"BTCUSDT", "btcusdt"} |-> "BTCUSDT"]

\* The parts that do not move start in one state.
Init ==
    /\ RuleInit /\ RecordInit /\ PricingInit /\ RiskInit /\ LiveInit
    /\ part \in {"rules", "records", "prices", "risk", "live"}
    /\ part # "rules" => kind = "rule_based" /\ rules = <<>> /\ orderType = "MARKET"
                           /\ percent = None /\ stage = "PAUSED"
    /\ part # "records" => emits
    /\ part # "risk" => ~registered /\ policy = Unset
    /\ part # "live" => ~enabled /\ accounts = {} /\ listed = {}

Next ==
    \/ part = "rules" /\ RuleNext /\ UNCHANGED <<recordVars, pricingVars, riskVars, liveVars, part>>
    \/ part = "records" /\ RecordNext /\ UNCHANGED <<ruleVars, pricingVars, riskVars, liveVars, part>>
    \/ part = "prices" /\ PricingNext /\ UNCHANGED <<ruleVars, recordVars, riskVars, liveVars, part>>
    \/ part = "risk" /\ RiskNext /\ UNCHANGED <<ruleVars, recordVars, pricingVars, liveVars, part>>
    \/ part = "live" /\ LiveNext /\ UNCHANGED <<ruleVars, recordVars, pricingVars, riskVars, part>>

Spec == Init /\ [][Next]_vars
=============================================================================
