--------------------------- MODULE RuleEvaluation ---------------------------
(***************************************************************************)
(* What a strategy makes of a snapshot: RuleBasedStrategy (a list of       *)
(* weighted conditions), MACrossoverStrategy (two moving averages), the    *)
(* intent both build, and StrategyEvaluator around them, which the         *)
(* consumer and simulate_strategy_on_snapshot use alike.                   *)
(*                                                                         *)
(* Field values are small integers, so that equality within 1e-9 is        *)
(* equality; weights and confidences are fractions <<n, d>> of integers;   *)
(* a stop is in hundredths of the price's unit. An Ema of a snapshot is a  *)
(* field like another.                                                     *)
(*                                                                         *)
(* Bounds: the strategies Versions, the values and the prices.             *)
(***************************************************************************)
EXTENDS Integers, FiniteSets, Sequences, SequencesExt, FiniteSetsExt

CONSTANTS Ema9, Ema21, Values, MarketPrices, Versions, None

Fields == {Ema9, Ema21}
Comparisons == {"gt", "lt", "gte", "lte", "eq", "neq", "between", "is_not_none", "is_none"}
Rule == [field : Fields, operator : Comparisons, value : Values, weight : Nat,
         side : {"BUY", "SELL", None}]
Version == [kind : {"rule_based", "ma_crossover"}, rules : Seq(Rule),
            orderType : {"MARKET", "LIMIT"}, percent : 1..99 \cup {None}]
Stages == {"DRAFT", "SIMULATION", "PAPER_ACTIVE", "ASSISTED_LIVE", "BOUNDED_AUTO_LIVE",
           "PAUSED", "ROLLED_BACK", "ARCHIVED"}

\* What is proposed to the execution service; prices are in hundredths but for the limit.
Proposals ==
    [side : {"BUY", "SELL"}, priced : BOOLEAN, limit : MarketPrices \cup {None},
     stop : Int \cup {None}, target : Int \cup {None}]

\* Versions are the strategies that are looked at, each in some state.
ASSUME RuleAssumption ==
    /\ Values \subseteq Int /\ MarketPrices \subseteq Nat \ {0}
    /\ None \notin {"BUY", "SELL"} /\ None \notin Proposals
    /\ \A v \in Versions : v.of \in Version /\ v.stage \in Stages

Features == [price : MarketPrices \cup {None}, field : [Fields -> Values \cup {None}]]

VARIABLES
    kind, rules,     \* the strategy version
    orderType, percent,   \* its parameters; percent is both stop_loss_pct and take_profit_pct
    stage,           \* the strategy's state
    features,        \* the last snapshot
    evaluation       \* what it was evaluated to

version == <<kind, rules, orderType, percent>>
ruleVars == <<version, stage, features, evaluation>>

NoSignal == [signal |-> FALSE, direction |-> None, intent |-> None]

-----------------------------------------------------------------------------
\* evaluate_rule, for the values a rule may compare with: a pair of bounds is
\* the value and the value above it.
Passed(rule, val) ==
    LET op == rule.operator
        threshold == rule.value
    IN \/ op = "is_not_none" /\ val # None
       \/ op = "is_none" /\ val = None
       \/ /\ val # None
          /\ \/ op = "gt" /\ val > threshold
             \/ op = "lt" /\ val < threshold
             \/ op = "gte" /\ val >= threshold
             \/ op = "lte" /\ val <= threshold
             \/ op = "eq" /\ val = threshold
             \/ op = "neq" /\ val # threshold
             \/ op = "between" /\ val \in threshold..(threshold + 1)

Holds(rule, s) == Passed(rule, s.field[rule.field])

\* A bug to detect: a rule without a side counts for neither.
SidedOnly(rule, side) == rule.side = side

\* A rule without a side counts for both.
Counts(rule, side) == rule.side \in {side, None}

Ratio(n, d) == IF d > 0 THEN <<n, d>> ELSE <<0, 1>>
Exceeds(a, b) == a[1] * b[2] > b[1] * a[2]
Positive(a) == a[1] > 0

\* The loop of RuleBasedStrategy.evaluate over a list of rules, for one side.
Confidence(list, side, s) ==
    LET Add(sum, rule) ==
          [passed |-> sum.passed + IF Counts(rule, side) /\ Holds(rule, s) THEN rule.weight ELSE 0,
           total |-> sum.total + IF Counts(rule, side) THEN rule.weight ELSE 0]
        sum == FoldLeft(Add, [passed |-> 0, total |-> 0], list)
    IN Ratio(sum.passed, sum.total)

\* A tie is a BUY.
RuleDirection(list, s) ==
    LET buy == Confidence(list, "BUY", s)
        sell == Confidence(list, "SELL", s)
    IN IF Positive(buy) /\ ~Exceeds(sell, buy) THEN "BUY"
       ELSE IF Positive(sell) THEN "SELL" ELSE None

\* MACrossoverStrategy.evaluate.
CrossoverDirection(s) ==
    LET fast == s.field[Ema9]
        slow == s.field[Ema21]
    IN IF fast = None \/ slow = None \/ fast = slow THEN None
       ELSE IF fast > slow THEN "BUY" ELSE "SELL"

\* factory: an unknown type is rule_based.
Direction(s) == IF kind = "ma_crossover" THEN CrossoverDirection(s) ELSE RuleDirection(rules, s)

-----------------------------------------------------------------------------
Factor(above) == IF above THEN 100 + percent ELSE 100 - percent

\* _build_intent. Its size is size_usd / price, or size_usd itself where there
\* is no price.
Intent(direction, s) ==
    LET buy == direction = "BUY" IN
    [side |-> direction, priced |-> s.price # None,
     limit |-> IF orderType = "LIMIT" THEN s.price ELSE None,
     stop |-> IF percent = None \/ s.price = None THEN None ELSE s.price * Factor(~buy),
     target |-> IF percent = None \/ s.price = None THEN None ELSE s.price * Factor(buy)]

Result(s) ==
    LET d == Direction(s)
    IN [signal |-> d # None, direction |-> d,
        intent |-> IF d = None THEN None ELSE Intent(d, s)]

\* validate_snapshot: the timestamp of a snapshot is always set.
Missing(s) ==
    \/ s.price = None
    \/ kind = "ma_crossover" /\ (s.field[Ema9] = None \/ s.field[Ema21] = None)

\* can_simulate: all but a strategy that was rolled back or archived. Pausing stops
\* the service from reading it, not a simulation.
CanSimulate ==
    stage \in {"DRAFT", "SIMULATION", "PAUSED"}
             \cup {"PAPER_ACTIVE", "ASSISTED_LIVE", "BOUNDED_AUTO_LIVE"}

\* StrategyEvaluator.evaluate: the strategy is evaluated even where sections are
\* missing, and its result is dropped.
Evaluated(s) == IF ~CanSimulate \/ Missing(s) THEN NoSignal ELSE Result(s)

-----------------------------------------------------------------------------
RuleInit ==
    /\ \E v \in Versions :
         /\ kind = v.of.kind /\ rules = v.of.rules
         /\ orderType = v.of.orderType /\ percent = v.of.percent /\ stage = v.stage
    /\ features = None /\ evaluation = NoSignal

\* A snapshot of the analytics service, or of a simulation over a list of them.
EvaluateRules(s) ==
    /\ features' = s /\ evaluation' = Evaluated(s)
    /\ UNCHANGED <<version, stage>>

RuleNext == \E s \in Features : EvaluateRules(s)

RuleSpec == RuleInit /\ [][RuleNext]_ruleVars

-----------------------------------------------------------------------------
\* Every variable keeps its type.
RuleType ==
    /\ [kind |-> kind, rules |-> rules, orderType |-> orderType, percent |-> percent] \in Version
    /\ stage \in Stages
    /\ features \in Features \cup {None}
    /\ evaluation.direction \in {"BUY", "SELL", None}
    /\ evaluation.intent \in Proposals \cup {None}
    /\ evaluation.signal <=> evaluation.direction # None
    /\ evaluation.signal <=> evaluation.intent # None

Weights(list) == [i \in 1..Len(list) |-> list[i].weight]
WeightOf(list, set) == SumFunctionOnSet(Weights(list), set)
Voters(list, side) == {i \in 1..Len(list) : list[i].side \in {side, None}}

\* The direction of a rule-based strategy is that of the larger share of its
\* side's weight, a side nobody speaks for has no share, and a tie is a BUY:
\* what the loop of RuleBasedStrategy.evaluate computes, said without it.
DirectionIsTheLargerShare ==
    features # None /\ kind = "rule_based" /\ CanSimulate /\ features.price # None =>
      LET buyers == Voters(rules, "BUY")
          sellers == Voters(rules, "SELL")
          buys == WeightOf(rules, {i \in buyers : Holds(rules[i], features)})
          sells == WeightOf(rules, {i \in sellers : Holds(rules[i], features)})
          more == sells * WeightOf(rules, buyers) > buys * WeightOf(rules, sellers)
      IN /\ evaluation.direction = "BUY" <=> buys > 0 /\ ~more
         /\ evaluation.direction = "SELL" <=> sells > 0 /\ (buys = 0 \/ more)

\* An intent is only built from a snapshot that has what it is computed from,
\* and its price lies between its stop and its target, the stop on the side of
\* the loss.
StopsBracketThePrice ==
    LET intent == evaluation.intent IN
    intent # None =>
      /\ intent.priced
      /\ percent # None =>
           IF intent.side = "BUY"
           THEN intent.stop < 100 * features.price /\ 100 * features.price < intent.target
           ELSE intent.target < 100 * features.price /\ 100 * features.price < intent.stop

\* An evaluation by itself: its direction is that of the larger share, and the
\* intent that it carries brackets the price it was made at.
RulesInv == RuleType /\ DirectionIsTheLargerShare /\ StopsBracketThePrice
=============================================================================
