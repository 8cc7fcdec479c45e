--------------------------- MODULE Decisions_proofs ---------------------------
(***************************************************************************)
(* Theorems about what is decided of a trade, and what is written down of  *)
(* it: RuleEvaluation proposes the side with the larger share of weight,   *)
(* the verdict of RiskGate on an order follows from what the tables of its *)
(* account held while it was judged, the prices at which PaperPricing      *)
(* sizes and fills a trade are ones that were shown, a record that         *)
(* EvaluationRecords lacks is the trace of a failure of its own, and what  *)
(* LiveOrders lets out to the exchange is what its gates, asked before,    *)
(* would allow.                                                            *)
(***************************************************************************)
EXTENDS RiskGate, PaperPricing, EvaluationRecords, LiveOrders, RuleEvaluation,
        Sums, FiniteSetTheorems, TLAPS

-----------------------------------------------------------------------------
\* RuleEvaluation: an evaluation is that of the last snapshot, and the loop over
\* the rules adds up the weights of those that vote for a side.

\* The operator of FiniteSetsExt takes an element of the set.
LEMMA MaxIsIn ==
  ASSUME NEW n \in Nat, NEW S \in SUBSET (1..n), S # {}
  PROVE  Max(S) \in S
<1> DEFINE T == {u \in Nat : \A y \in S : y <= u}
<1>1. n \in T /\ T \subseteq Nat
  OBVIOUS
<1>2. PICK u \in T : \A m \in T : u <= m
  <2> HIDE DEF T
  <2>1. QED
    BY <1>1, LeastElement
<1>3. u \in S
  <2>1. SUFFICES ASSUME u \notin S PROVE FALSE
    OBVIOUS
  <2>2. \A y \in S : y <= u - 1 /\ y >= 1
    BY <1>2, <2>1
  <2>3. u - 1 \in Nat
    <3>1. PICK y \in S : TRUE
      OBVIOUS
    <3>2. y \in Nat /\ y <= u - 1 /\ y >= 1
      BY <2>2, <3>1
    <3>3. QED
      BY <1>2, <3>2
  <2>4. PICK v \in Nat : v = u - 1
    BY <2>3
  <2>5. v \in T
    BY <2>2, <2>4
  <2>6. u <= v
    BY <1>2, <2>5
  <2>7. QED
    BY <1>2, <2>4, <2>6
<1>4. \E x \in S : \A y \in S : x >= y
  BY <1>2, <1>3
<1>5. QED
  BY <1>4 DEF Max

-----------------------------------------------------------------------------
\* RuleEvaluation: an evaluation is that of the last snapshot, and the loop over
\* the rules adds up the weights of those that vote for a side.

\* The weights that the loop adds to passed and to total.
PassedWeights(list, side, s) ==
    [i \in 1..Len(list) |-> IF Counts(list[i], side) /\ Holds(list[i], s) THEN list[i].weight ELSE 0]
CountedWeights(list, side) ==
    [i \in 1..Len(list) |-> IF Counts(list[i], side) THEN list[i].weight ELSE 0]

\* What the fields of a list of rules hold.
LEMMA RuleFields ==
  ASSUME NEW list \in Seq(Rule)
  PROVE  /\ Len(list) \in Nat /\ DOMAIN list = 1..Len(list) /\ IsFiniteSet(1..Len(list))
         /\ \A i \in 1..Len(list) : list[i].weight \in Nat /\ list[i].side \in {"BUY", "SELL", None}
         /\ \A i \in 1..Len(list) : Weights(list)[i] = list[i].weight
<1>1. Len(list) \in Nat /\ DOMAIN list = 1..Len(list) /\ \A i \in 1..Len(list) : list[i] \in Rule
  OBVIOUS
<1>2. \A r \in Rule : r.weight \in Nat /\ r.side \in {"BUY", "SELL", None}
  BY DEF Rule
<1>3. IsFiniteSet(1..Len(list))
  BY <1>1, FS_Interval
<1>4. QED
  BY <1>1, <1>2, <1>3 DEF Weights

\* The loop, which goes from the first rule to the last, adds up both weights.
LEMMA ConfidenceIsRatio ==
  ASSUME NEW list \in Seq(Rule), NEW side, NEW s
  PROVE  Confidence(list, side, s) = Ratio(SumFunctionOnSet(PassedWeights(list, side, s), 1..Len(list)),
                                     SumFunctionOnSet(CountedWeights(list, side), 1..Len(list)))
<1> DEFINE D == DOMAIN list
           wp == PassedWeights(list, side, s)
           wc == CountedWeights(list, side)
           Add(sum, rule) ==
             [passed |-> sum.passed + IF Counts(rule, side) /\ Holds(rule, s) THEN rule.weight ELSE 0,
              total |-> sum.total + IF Counts(rule, side) THEN rule.weight ELSE 0]
           base == [passed |-> 0, total |-> 0]
           F(h) == [t \in SUBSET D |-> IF t = {} THEN base ELSE Add(h[t \ {Max(t)}], list[Max(t)])]
           g == [t \in SUBSET D |-> [passed |-> SumFunctionOnSet(wp, t), total |-> SumFunctionOnSet(wc, t)]]
           h == CHOOSE f : f = F(f)
<1>1. Confidence(list, side, s) = Ratio(h[D].passed, h[D].total)
  BY DEF Confidence, FoldLeft, MapThenFoldSet
<1>2. D = 1..Len(list) /\ Len(list) \in Nat /\ IsFiniteSet(D)
  BY RuleFields
<1>3. \A i \in D : /\ wp[i] = IF Counts(list[i], side) /\ Holds(list[i], s) THEN list[i].weight ELSE 0
                   /\ wc[i] = IF Counts(list[i], side) THEN list[i].weight ELSE 0
                   /\ wp[i] \in Int /\ wc[i] \in Int
  BY <1>2, RuleFields DEF PassedWeights, CountedWeights
<1>4. SumLaw(wp, D) /\ SumLaw(wc, D)
  <2>1. Numbers(wp, D) /\ Numbers(wc, D)
    BY <1>3 DEF Numbers
  <2>2. QED
    BY <1>2, <2>1, SumRecursion
<1>5. \A t \in SUBSET D : t # {} => Max(t) \in t
  BY <1>2, MaxIsIn
<1>6. g = F(g)
  <2> HIDE DEF wp, wc
  <2>1. ASSUME NEW t \in SUBSET D
        PROVE  [passed |-> SumFunctionOnSet(wp, t), total |-> SumFunctionOnSet(wc, t)] =
                 IF t = {} THEN base ELSE Add(g[t \ {Max(t)}], list[Max(t)])
    <3>1. CASE t = {}
      BY <1>4, <3>1 DEF SumLaw
    <3>2. CASE t # {}
      <4> DEFINE m == Max(t)
      <4>1. m \in t /\ m \in D
        BY <1>5, <3>2
      <4> HIDE DEF m
      <4>2. g[t \ {m}] = [passed |-> SumFunctionOnSet(wp, t \ {m}), total |-> SumFunctionOnSet(wc, t \ {m})]
        OBVIOUS
      <4>3. /\ SumFunctionOnSet(wp, t) = wp[m] + SumFunctionOnSet(wp, t \ {m})
            /\ SumFunctionOnSet(wc, t) = wc[m] + SumFunctionOnSet(wc, t \ {m})
            /\ SumFunctionOnSet(wp, t \ {m}) \in Int /\ SumFunctionOnSet(wc, t \ {m}) \in Int
        BY <1>4, <4>1 DEF SumLaw
      <4>4. \A i, j \in Int : i + j = j + i
        OBVIOUS
      <4>5. /\ SumFunctionOnSet(wp, t) = SumFunctionOnSet(wp, t \ {m}) + wp[m]
            /\ SumFunctionOnSet(wc, t) = SumFunctionOnSet(wc, t \ {m}) + wc[m]
        BY <1>3, <4>1, <4>3, <4>4
      <4>6. Add(g[t \ {m}], list[m]) =
              [passed |-> SumFunctionOnSet(wp, t \ {m}) + wp[m], total |-> SumFunctionOnSet(wc, t \ {m}) + wc[m]]
        BY <1>3, <4>1, <4>2
      <4>7. Add(g[t \ {m}], list[m]) = [passed |-> SumFunctionOnSet(wp, t), total |-> SumFunctionOnSet(wc, t)]
        BY <4>5, <4>6
      <4>8. QED
        BY <3>2, <4>7 DEF m
    <3>3. QED
      BY <3>1, <3>2
  <2>2. QED
    BY <2>1
<1>7. h = F(h)
  BY <1>6
<1>8. /\ h[{}] = base
      /\ \A t \in SUBSET D : t # {} => h[t] = Add(h[t \ {Max(t)}], list[Max(t)])
  <2> HIDE DEF h
  <2>1. QED
    BY <1>7
<1>9. /\ g[{}] = base
      /\ \A t \in SUBSET D : t # {} => g[t] = Add(g[t \ {Max(t)}], list[Max(t)])
  <2> HIDE DEF g
  <2>1. QED
    BY <1>6
<1>10. \A t \in SUBSET D : h[t] = g[t]
  <2> HIDE DEF h, g, Add, base
  <2> DEFINE C == {t \in SUBSET D : h[t] # g[t]}
  <2>1. SUFFICES ASSUME C # {} PROVE FALSE
    OBVIOUS
  <2>2. PICK t \in C : \A x \in t : t \ {x} \notin C
    <3>1. C \subseteq SUBSET D
      OBVIOUS
    <3> HIDE DEF C, D
    <3>2. QED
      BY <1>2, <2>1, <3>1, LeastSet
  <2>3. t \in SUBSET D /\ h[t] # g[t] /\ t # {}
    BY <1>8, <1>9, <2>2
  <2>4. h[t \ {Max(t)}] = g[t \ {Max(t)}]
    BY <1>5, <2>2, <2>3
  <2>5. QED
    BY <1>8, <1>9, <2>3, <2>4
<1>11. h[D].passed = SumFunctionOnSet(wp, D) /\ h[D].total = SumFunctionOnSet(wc, D)
  <2> HIDE DEF h, wp, wc, F, Add, base
  <2>1. D \in SUBSET D
    OBVIOUS
  <2>2. g[D] = [passed |-> SumFunctionOnSet(wp, D), total |-> SumFunctionOnSet(wc, D)]
    BY <2>1
  <2>3. h[D] = g[D]
    BY <1>10, <2>1
  <2>4. QED
    BY <2>2, <2>3
<1>12. QED
  <2> HIDE DEF h
  <2>1. QED
    BY <1>1, <1>2, <1>11

\* What a side is confident of: the weight of those of its voters that hold, out
\* of the weight of its voters.
LEMMA ConfidenceIsTheShare ==
  ASSUME NEW list \in Seq(Rule), NEW side, NEW s
  PROVE  LET agree == WeightOf(list, {i \in Voters(list, side) : Holds(list[i], s)})
             all == WeightOf(list, Voters(list, side))
         IN /\ Confidence(list, side, s) = Ratio(agree, all)
            /\ agree \in Nat /\ all \in Nat /\ agree <= all
<1> DEFINE D == 1..Len(list)
           V == Voters(list, side)
           H == {i \in V : Holds(list[i], s)}
<1>1. V \in SUBSET D /\ H \in SUBSET D /\ H \in SUBSET V
  BY DEF Voters
<1>2. IsFiniteSet(D) /\ Numbers(Weights(list), D) /\ \A i \in D : Weights(list)[i] = list[i].weight /\ Weights(list)[i] \in Nat
  BY RuleFields DEF Numbers
<1>3. SumFunctionOnSet(PassedWeights(list, side, s), D) = SumFunctionOnSet(Weights(list), H)
  <2>1. \A i \in D : PassedWeights(list, side, s)[i] = IF i \in H THEN Weights(list)[i] ELSE 0
    BY <1>2 DEF PassedWeights, Counts, Voters
  <2> HIDE DEF D, H
  <2>2. QED
    BY <1>1, <1>2, <2>1, MaskedSum
<1>4. SumFunctionOnSet(CountedWeights(list, side), D) = SumFunctionOnSet(Weights(list), V)
  <2>1. \A i \in D : CountedWeights(list, side)[i] = IF i \in V THEN Weights(list)[i] ELSE 0
    BY <1>2 DEF CountedWeights, Counts, Voters
  <2> HIDE DEF D, V
  <2>2. QED
    BY <1>1, <1>2, <2>1, MaskedSum
<1>5. WeightOf(list, H) = SumFunctionOnSet(Weights(list), H) /\ WeightOf(list, V) = SumFunctionOnSet(Weights(list), V)
  BY DEF WeightOf
<1>6. SumFunctionOnSet(Weights(list), H) \in Nat /\ SumFunctionOnSet(Weights(list), V) \in Nat
      /\ SumFunctionOnSet(Weights(list), H) <= SumFunctionOnSet(Weights(list), V)
  <2> HIDE DEF D, V, H
  <2>1. QED
    BY <1>1, <1>2, SumGrows
<1>7. QED
  BY <1>3, <1>4, <1>5, <1>6, ConfidenceIsRatio

\* Comparing fractions: with a voter on each side by the products, and a side
\* without weight is not positive.
LEMMA SharesCompared ==
  ASSUME NEW b \in Nat, NEW tb \in Nat, NEW q \in Nat, NEW ts \in Nat, b <= tb, q <= ts
  PROVE  /\ Positive(Ratio(b, tb)) <=> b > 0
         /\ b > 0 => (Exceeds(Ratio(q, ts), Ratio(b, tb)) <=> q * tb > b * ts)
<1>1. CASE tb = 0
  BY <1>1 DEF Positive, Ratio
<1>2. CASE tb > 0 /\ ts > 0
  BY <1>2 DEF Positive, Ratio, Exceeds
<1>3. CASE tb > 0 /\ ts = 0
  <2>1. q = 0 /\ q * tb = 0 /\ b * ts = 0 /\ b * 1 = b
    BY <1>3
  <2>2. 0 * tb = 0
    OBVIOUS
  <2>3. Ratio(q, ts) = <<0, 1>> /\ Ratio(b, tb) = <<b, tb>>
    BY <1>3 DEF Ratio
  <2>4. QED
    BY <2>1, <2>2, <2>3 DEF Positive, Exceeds
<1>4. QED
  BY <1>1, <1>2, <1>3

\* The direction that the two confidences give, in terms of the weights.
LEMMA DirectionOfRules ==
  ASSUME NEW list \in Seq(Rule), NEW s
  PROVE  LET buys == WeightOf(list, {i \in Voters(list, "BUY") : Holds(list[i], s)})
             sells == WeightOf(list, {i \in Voters(list, "SELL") : Holds(list[i], s)})
             more == sells * WeightOf(list, Voters(list, "BUY")) > buys * WeightOf(list, Voters(list, "SELL"))
         IN /\ RuleDirection(list, s) = "BUY" <=> buys > 0 /\ ~more
            /\ RuleDirection(list, s) = "SELL" <=> sells > 0 /\ (buys = 0 \/ more)
            /\ RuleDirection(list, s) \in {"BUY", "SELL", None}
<1> DEFINE buys == WeightOf(list, {i \in Voters(list, "BUY") : Holds(list[i], s)})
           sells == WeightOf(list, {i \in Voters(list, "SELL") : Holds(list[i], s)})
           ofBuy == WeightOf(list, Voters(list, "BUY"))
           ofSell == WeightOf(list, Voters(list, "SELL"))
           buy == Confidence(list, "BUY", s)
           sell == Confidence(list, "SELL", s)
<1>1. buy = Ratio(buys, ofBuy) /\ buys \in Nat /\ ofBuy \in Nat /\ buys <= ofBuy
  BY ConfidenceIsTheShare
<1>2. sell = Ratio(sells, ofSell) /\ sells \in Nat /\ ofSell \in Nat /\ sells <= ofSell
  BY ConfidenceIsTheShare
<1>3. RuleDirection(list, s) = IF Positive(buy) /\ ~Exceeds(sell, buy) THEN "BUY"
                         ELSE IF Positive(sell) THEN "SELL" ELSE None
  BY DEF RuleDirection
<1> HIDE DEF buys, sells, ofBuy, ofSell, buy, sell
<1>4. /\ Positive(buy) <=> buys > 0
      /\ Positive(sell) <=> sells > 0
      /\ buys > 0 => (Exceeds(sell, buy) <=> sells * ofBuy > buys * ofSell)
  BY <1>1, <1>2, SharesCompared
<1>5. /\ RuleDirection(list, s) = "BUY" <=> Positive(buy) /\ ~Exceeds(sell, buy)
      /\ RuleDirection(list, s) = "SELL" <=> Positive(sell) /\ ~(Positive(buy) /\ ~Exceeds(sell, buy))
      /\ RuleDirection(list, s) \in {"BUY", "SELL", None}
  BY <1>3, RuleAssumption
<1>6. /\ RuleDirection(list, s) = "BUY" <=> buys > 0 /\ ~(sells * ofBuy > buys * ofSell)
      /\ RuleDirection(list, s) = "SELL" <=> sells > 0 /\ (buys = 0 \/ sells * ofBuy > buys * ofSell)
  <2>1. buys > 0 \/ buys = 0
    BY <1>1
  <2>2. QED
    BY <1>4, <1>5, <2>1
<1>7. QED
  BY <1>5, <1>6 DEF buys, sells, ofBuy, ofSell

\* A stop and a target of less than the whole price lie on their sides of it.
LEMMA Brackets ==
  ASSUME NEW p \in 1..99, NEW x \in Nat \ {0}
  PROVE  x * (100 - p) < 100 * x /\ 100 * x < x * (100 + p)
<1>1. x * p > 0 /\ x * p \in Nat
  <2>1. \A i, j \in Nat \ {0} : i * j > 0 /\ i * j \in Nat
    OBVIOUS
  <2>2. QED
    BY <2>1
<1>2. x * (100 - p) = 100 * x - x * p /\ x * (100 + p) = 100 * x + x * p
  OBVIOUS
<1>3. QED
  BY <1>1, <1>2

\* What an evaluation is of: nothing yet, or the last snapshot.
RuleCore ==
    /\ [kind |-> kind, rules |-> rules, orderType |-> orderType, percent |-> percent] \in Version
    /\ stage \in Stages
    /\ \/ features = None /\ evaluation = NoSignal
       \/ features \in Features /\ evaluation = Evaluated(features)

\* A step evaluates whatever snapshot it gets.
LEMMA RuleStep == RuleCore /\ [RuleNext]_ruleVars => RuleCore'
<1> SUFFICES ASSUME RuleCore, [RuleNext]_ruleVars PROVE RuleCore'
  OBVIOUS
<1>1. CASE RuleNext
  BY <1>1 DEF RuleCore, RuleNext, EvaluateRules, version, Evaluated, CanSimulate, Missing, Result,
              Direction, Intent, Factor
<1>2. CASE UNCHANGED ruleVars
  BY <1>2 DEF RuleCore, ruleVars, version, Evaluated, CanSimulate, Missing, Result,
              Direction, Intent, Factor
<1>3. QED
  BY <1>1, <1>2

\* A strategy starts with a version of its rules and no snapshot.
LEMMA RuleStart == RuleInit => RuleCore
<1> SUFFICES ASSUME RuleInit PROVE RuleCore
  OBVIOUS
<1>1. PICK v \in Versions :
         /\ kind = v.of.kind /\ rules = v.of.rules
         /\ orderType = v.of.orderType /\ percent = v.of.percent /\ stage = v.stage
  BY DEF RuleInit
<1>2. v.of \in Version /\ v.stage \in Stages
  BY RuleAssumption
<1>3. [kind |-> kind, rules |-> rules, orderType |-> orderType, percent |-> percent] = v.of
  BY <1>1, <1>2 DEF Version
<1>4. QED
  BY <1>1, <1>2, <1>3 DEF RuleInit, RuleCore

\* Facts about a state in which a snapshot has been evaluated.
LEMMA Evaluating ==
  ASSUME RuleCore, evaluation # NoSignal
  PROVE  /\ features \in Features /\ evaluation = Result(features)
         /\ CanSimulate /\ ~Missing(features) /\ features.price \in MarketPrices
         /\ rules \in Seq(Rule) /\ percent \in 1..99 \cup {None} /\ kind \in {"rule_based", "ma_crossover"}
<1>1. features \in Features /\ evaluation = Evaluated(features)
  BY DEF RuleCore
<1>2. evaluation = Result(features) /\ CanSimulate /\ ~Missing(features)
  BY <1>1 DEF Evaluated
<1>3. features.price \in MarketPrices
  BY <1>1, <1>2 DEF Missing, Features
<1>4. rules \in Seq(Rule) /\ percent \in 1..99 \cup {None} /\ kind \in {"rule_based", "ma_crossover"}
  BY DEF RuleCore, Version
<1>5. QED
  BY <1>1, <1>2, <1>3, <1>4

\* A direction is one of the two sides or none.
LEMMA DirectionType ==
  ASSUME NEW list \in Seq(Rule), NEW s, rules = list
  PROVE  Direction(s) \in {"BUY", "SELL", None}
<1>1. RuleDirection(rules, s) \in {"BUY", "SELL", None}
  BY DirectionOfRules
<1>2. CrossoverDirection(s) \in {"BUY", "SELL", None}
  BY DEF CrossoverDirection
<1>3. QED
  BY <1>1, <1>2 DEF Direction

\* The intent of an evaluation is one, with the stop and the target that are asked for.
LEMMA IntentFields ==
  ASSUME RuleCore, evaluation # NoSignal, Direction(features) # None
  PROVE  LET i == evaluation.intent IN
         /\ i \in Proposals /\ i # None /\ i.priced
         /\ i.side = Direction(features)
         /\ percent # None =>
              /\ i.stop = features.price * (IF i.side = "BUY" THEN 100 - percent ELSE 100 + percent)
              /\ i.target = features.price * (IF i.side = "BUY" THEN 100 + percent ELSE 100 - percent)
<1> DEFINE s == features
           d == Direction(s)
           x == s.price
<1>1. x \in Nat \ {0} /\ x \in MarketPrices /\ x # None
  BY Evaluating, RuleAssumption DEF Missing
<1>2. d \in {"BUY", "SELL"}
  BY Evaluating, DirectionType
<1>3. evaluation.intent = Intent(d, s)
  BY Evaluating DEF Result
<1> HIDE DEF d
<1>4. \A b \in BOOLEAN : percent # None => Factor(b) \in Int
  <2>1. percent # None => percent \in Int
    <3>1. percent \in 1..99 \cup {None}
      BY Evaluating
    <3>2. \A p \in 1..99 : p \in Int
      OBVIOUS
    <3>3. QED
      BY <3>1, <3>2
  <2>2. percent # None => 100 + percent \in Int /\ 100 - percent \in Int
    BY <2>1
  <2>3. QED
    BY <2>2 DEF Factor
<1>5. \A b \in BOOLEAN : percent # None => x * Factor(b) \in Int
  <2>1. \A i, j \in Int : i * j \in Int
    OBVIOUS
  <2>2. QED
    BY <1>1, <1>4, <2>1
<1>6. Intent(d, s) \in Proposals
  BY <1>1, <1>2, <1>5 DEF Intent, Proposals
<1>7. Intent(d, s).priced /\ Intent(d, s).side = d
  BY <1>1 DEF Intent
<1>8. percent # None =>
        /\ Intent(d, s).stop = x * (IF d = "BUY" THEN 100 - percent ELSE 100 + percent)
        /\ Intent(d, s).target = x * (IF d = "BUY" THEN 100 + percent ELSE 100 - percent)
  BY <1>1 DEF Intent, Factor
<1>9. QED
  BY <1>3, <1>6, <1>7, <1>8, RuleAssumption DEF d

\* The types follow from what an evaluation is.
LEMMA RuleTypes == RuleCore => RuleType
<1> SUFFICES ASSUME RuleCore PROVE RuleType
  OBVIOUS
<1>1. /\ [kind |-> kind, rules |-> rules, orderType |-> orderType, percent |-> percent] \in Version
      /\ stage \in Stages /\ features \in Features \cup {None}
  BY DEF RuleCore
<1>2. CASE evaluation = NoSignal
  BY <1>1, <1>2 DEF RuleType, NoSignal
<1>3. CASE evaluation # NoSignal
  <2>1. evaluation = Result(features) /\ Direction(features) \in {"BUY", "SELL", None}
    BY <1>3, Evaluating, DirectionType
  <2>2. CASE Direction(features) = None
    BY <1>1, <2>1, <2>2 DEF RuleType, Result
  <2>3. CASE Direction(features) # None
    <3>1. evaluation.intent \in Proposals /\ evaluation.intent # None
      BY <1>3, <2>3, IntentFields
    <3>2. evaluation.signal = (Direction(features) # None) /\ evaluation.direction = Direction(features)
      BY <2>1 DEF Result
    <3>3. QED
      BY <1>1, <2>1, <2>3, <3>1, <3>2 DEF RuleType
  <2>4. QED
    BY <2>2, <2>3
<1>4. QED
  BY <1>2, <1>3

\* The first part of RulesInv.
LEMMA DirectionHolds == RuleCore => DirectionIsTheLargerShare
<1> SUFFICES ASSUME RuleCore, features # None, kind = "rule_based", CanSimulate, features.price # None
             PROVE  DirectionIsTheLargerShare
  BY DEF DirectionIsTheLargerShare
<1>1. features \in Features /\ evaluation = Evaluated(features) /\ rules \in Seq(Rule)
  BY DEF RuleCore, Version
<1>2. evaluation = Result(features)
  BY <1>1 DEF Evaluated, Missing
<1>3. evaluation.direction = RuleDirection(rules, features)
  BY <1>2 DEF Result, Direction
<1>4. QED
  BY <1>1, <1>3, DirectionOfRules DEF DirectionIsTheLargerShare

\* The second part of RulesInv.
LEMMA StopsHold == RuleCore => StopsBracketThePrice
<1> SUFFICES ASSUME RuleCore, evaluation.intent # None PROVE StopsBracketThePrice
  BY DEF StopsBracketThePrice
<1>1. evaluation # NoSignal
  BY DEF NoSignal
<1>2. Direction(features) # None
  BY <1>1, Evaluating DEF Result
<1>3. features.price \in Nat \ {0} /\ percent \in 1..99 \cup {None}
  BY <1>1, Evaluating, RuleAssumption
<1>4. percent # None => /\ features.price * (100 - percent) < 100 * features.price
                        /\ 100 * features.price < features.price * (100 + percent)
  BY <1>3, Brackets
<1>5. QED
  BY <1>1, <1>2, <1>4, IntentFields DEF StopsBracketThePrice

\* However many rules of whatever weights: RuleBasedStrategy.evaluate gives the
\* direction of the larger share of its side's weight, and _build_intent puts
\* the stop and the target on their sides of the price.
THEOREM RulesInvariant == RuleSpec => []RulesInv
<1>1. RuleCore => RulesInv
  BY RuleTypes, DirectionHolds, StopsHold DEF RulesInv
<1>2. QED
  BY <1>1, RuleStart, RuleStep, PTL DEF RuleSpec

-----------------------------------------------------------------------------
\* RiskGate: the first four parts of RiskCore are inductive together; the parts of
\* RiskInv about verdicts follow from them in each state.

USE RiskAssumption

\* The amount that an order is compared with is a number, whatever it leaves out.
LEMMA AmountNat == ASSUME NEW o \in Orders PROVE Amount(o) \in Nat
<1>1. o \in Order  OBVIOUS
<1>2. o.usd # Unset => o.usd \in Nat  BY <1>1 DEF Order
<1>3. o.limit # Unset => o.limit \in Nat  BY <1>1 DEF Order
<1>4. o.size \in Nat  BY <1>1 DEF Order
<1>5. \A a, b \in Nat : a * b \in Nat  OBVIOUS
<1> QED  BY <1>2, <1>3, <1>4, <1>5 DEF Amount

\* The limits in force are limits, so that they are told from what is not read.
LEMMA LimitsInForce == ASSUME policy \in Policies \cup {Unset}
                       PROVE InForce \in Limits /\ InForce # Unset
BY DEF InForce

\* The query that counts positions finds those of Positions that are not short.
LEMMA CountedPositions ==
    ASSUME held \in [Held -> {-1, 0, 1}]
    PROVE /\ Cardinality(Positions) \in Nat /\ CountOpen \in Nat
          /\ CountOpen <= Cardinality(Positions)
          /\ Shorts = {} => CountOpen = Cardinality(Positions)
<1> DEFINE Longs == {s \in Held : held[s] > 0}
<1>1. Longs \subseteq Positions  BY DEF Positions
<1>2. IsFiniteSet(Positions) /\ IsFiniteSet(Longs)
      <2>1. Positions \subseteq Held /\ Longs \subseteq Held  BY DEF Positions
      <2> QED  BY <2>1, FS_Subset
<1>3. Cardinality(Positions) \in Nat /\ Cardinality(Longs) \in Nat  BY <1>2, FS_CardinalityType
<1>4. Cardinality(Longs) <= Cardinality(Positions)  BY <1>1, <1>2, FS_Subset
<1>5. Shorts = {} => Longs = Positions  BY DEF Shorts, Positions
<1> QED  BY <1>3, <1>4, <1>5 DEF CountOpen

Seen == [lost : Nat, open : Nat, short : BOOLEAN, limits : Limits]

LEMMA NowIsSeen == ASSUME RiskType PROVE Now \in Seen
<1>1. lost \in Nat  BY DEF RiskType
<1>2. Cardinality(Positions) \in Nat  BY CountedPositions DEF RiskType
<1>3. InForce \in Limits  BY LimitsInForce DEF RiskType
<1>4. (Shorts # {}) \in BOOLEAN  OBVIOUS
<1> QED  BY ONLY <1>1, <1>2, <1>3, <1>4 DEF Now, Seen

\* What each check compares.
LEMMA ChecksCompare ==
    ASSUME NEW o
    PROVE /\ Fails("max_position_size", o) <=> Amount(o) > Effective.usd
          /\ Fails("max_daily_loss", o) <=> Reaches(loss, Effective.loss)
          /\ Fails("max_concurrent_exposure", o) <=> Reaches(open, Effective.open)
BY DEF Fails

-----------------------------------------------------------------------------
\* What the verdict on an order is worth, out of where its numbers come from.

RiskCore ==
    /\ RiskType /\ VerdictStands /\ ReadInOrder /\ ReadWasThere /\ StoppedReadsTheLoss
    /\ StoppedForTheDay

LEMMA CoreTypes ==
    ASSUME RiskCore
    PROVE /\ order \in Orders \cup {Unset} /\ (step # "idle" => order \in Orders)
          /\ limits \in Limits \cup {Unset}
          /\ loss \in Nat \cup {Unset} /\ open \in Nat \cup {Unset}
          /\ \A w \in seen : w.lost \in Nat /\ w.open \in Nat /\ w.limits \in Limits
          /\ Unset \notin Nat /\ Unset \notin Limits
<1>1. RiskType  BY DEF RiskCore
<1>2. seen \subseteq Seen  BY <1>1 DEF RiskType, Seen
<1>3. \A w \in seen : w.lost \in Nat /\ w.open \in Nat /\ w.limits \in Limits  BY <1>2 DEF Seen
<1> QED  BY <1>1, <1>3 DEF RiskType

LEMMA ApprovalIsWithin == ASSUME RiskCore PROVE ApprovedWasWithin
<1> SUFFICES ASSUME step = "approved", registered, "context" \notin unread
             PROVE /\ \E w \in seen : Amount(order) <= w.limits.usd
                   /\ "loss" \notin unread => \E v, w \in seen : v.lost < w.limits.loss
                   /\ unread = {} /\ (\A w \in seen : ~w.short)
                        => \E v, w \in seen : v.open < w.limits.open
      BY DEF ApprovedWasWithin
<1>1. limits # Unset /\ ("loss" \notin unread => loss # Unset) /\ (unread = {} => open # Unset)
      BY DEF RiskCore, ReadInOrder
<1>2. PICK w \in seen : w.limits = limits  BY <1>1 DEF RiskCore, ReadWasThere
<1>3. Effective = limits  BY <1>1 DEF Effective
<1>4. /\ ~(Amount(order) > limits.usd) /\ ~Reaches(loss, limits.loss)
      /\ ~Reaches(open, limits.open)
      <2>1. \A c \in Checks : ~Fails(c, order)  BY DEF RiskCore, VerdictStands
      <2>2. /\ ~Fails("max_position_size", order) /\ ~Fails("max_daily_loss", order)
            /\ ~Fails("max_concurrent_exposure", order)
            BY <2>1 DEF Checks
      <2> QED  BY <2>2, <1>3, ChecksCompare
<1>5. limits \in Limits  BY <1>1, CoreTypes
<1>6. limits.usd \in Nat /\ limits.loss \in Nat /\ limits.open \in Nat  BY <1>5 DEF Limits
<1>7. Amount(order) <= w.limits.usd
      <2>1. Amount(order) \in Nat  BY AmountNat, CoreTypes
      <2> QED  BY <2>1, <1>2, <1>4, <1>6
<1>8. ASSUME "loss" \notin unread PROVE \E v \in seen : v.lost < w.limits.loss
      <2>1. PICK v \in seen : v.lost = loss  BY <1>1, <1>8 DEF RiskCore, ReadWasThere
      <2>2. v.lost \in Nat  BY CoreTypes
      <2> QED  BY <2>1, <2>2, <1>1, <1>2, <1>4, <1>6, <1>8 DEF Reaches
<1>9. ASSUME unread = {}, \A u \in seen : ~u.short PROVE \E v \in seen : v.open < w.limits.open
      <2>1. PICK v \in seen : v.open >= open /\ (~v.short => v.open = open)
            BY <1>1, <1>9 DEF RiskCore, ReadWasThere
      <2>2. v.open = open /\ v.open \in Nat  BY <2>1, <1>9, CoreTypes
      <2> QED  BY <2>2, <1>1, <1>2, <1>4, <1>6, <1>9 DEF Reaches
<1> QED  BY <1>7, <1>8, <1>9

LEMMA BlockHasItsCause == ASSUME RiskCore PROVE BlockedForACause
<1> SUFFICES ASSUME step = "blocked", registered, "context" \notin unread
             PROVE /\ "max_daily_loss" \in failures
                        => \E v, w \in seen : v.lost >= w.limits.loss
                   /\ "max_concurrent_exposure" \in failures
                        => \E v, w \in seen : v.open >= w.limits.open
      BY DEF BlockedForACause
<1>1. limits # Unset  BY DEF RiskCore, ReadInOrder
<1>2. PICK w \in seen : w.limits = limits  BY <1>1 DEF RiskCore, ReadWasThere
<1>3. Effective = limits  BY <1>1 DEF Effective
<1>4. limits.loss \in Nat /\ limits.open \in Nat  BY <1>1, CoreTypes DEF Limits
<1>5. ASSUME "max_daily_loss" \in failures PROVE \E v \in seen : v.lost >= w.limits.loss
      <2>1. Reaches(loss, limits.loss)
            BY <1>3, <1>5, ChecksCompare DEF RiskCore, VerdictStands
      <2>2. PICK v \in seen : v.lost = loss
            BY <2>1 DEF RiskCore, ReadWasThere, Reaches
      <2> QED  BY <2>1, <2>2, <1>2 DEF Reaches
<1>6. ASSUME "max_concurrent_exposure" \in failures
      PROVE \E v \in seen : v.open >= w.limits.open
      <2>1. Reaches(open, limits.open)
            BY <1>3, <1>6, ChecksCompare DEF RiskCore, VerdictStands
      <2>2. PICK v \in seen : v.open >= open
            BY <2>1 DEF RiskCore, ReadWasThere, Reaches
      <2>3. open \in Nat /\ v.open \in Nat  BY <2>1, CoreTypes DEF Reaches
      <2> QED  BY <2>1, <2>2, <2>3, <1>2, <1>4 DEF Reaches
<1> QED  BY <1>5, <1>6

-----------------------------------------------------------------------------
\* Types.

LEMMA InitCore == RiskInit => RiskCore
<1> SUFFICES ASSUME RiskInit PROVE RiskCore  OBVIOUS
<1>1. RiskType
      <2>1. stopped \in BOOLEAN  BY DEF RiskInit
      <2>2. held \in [Held -> {-1, 0, 1}]  BY DEF RiskInit
      <2>3. registered \in BOOLEAN /\ policy \in Policies \cup {Unset}  BY DEF RiskInit
      <2> QED  BY ONLY <2>1, <2>2, <2>3, RiskInit, RiskAssumption DEF RiskInit, RiskType
<1>2. VerdictStands /\ ReadInOrder  BY DEF RiskInit, VerdictStands, ReadInOrder
<1>3. ReadWasThere  BY DEF RiskInit, ReadWasThere
<1>4. StoppedReadsTheLoss /\ StoppedForTheDay
      BY DEF RiskInit, StoppedReadsTheLoss, StoppedForTheDay
<1> QED  BY <1>1, <1>2, <1>3, <1>4 DEF RiskCore

\* What the tables hold after a step is among what may be seen.
LEMMA NextNowIsSeen ==
    ASSUME lost' \in Nat, policy' \in Policies \cup {Unset}
    PROVE Now' \in Seen
<1>1. Cardinality(Positions)' \in Nat
      <2>1. Positions' \subseteq Held  BY DEF Positions
      <2>2. IsFiniteSet(Positions')  BY <2>1, FS_Subset
      <2> QED  BY <2>2, FS_CardinalityType
<1>2. InForce' \in Limits  BY DEF InForce
<1>3. (Shorts # {})' \in BOOLEAN  OBVIOUS
<1> QED  BY ONLY <1>1, <1>2, <1>3, lost' \in Nat DEF Now, Seen

LEMMA TypeStep == ASSUME RiskType, RiskNext PROVE RiskType'
<1>0. /\ registered \in BOOLEAN /\ stopped \in BOOLEAN /\ seen \subseteq Seen
      /\ policy \in Policies \cup {Unset} /\ lost \in 0..MaxLoss
      BY DEF RiskType, Seen
<1>1. CASE Report
      <2>1. held' \in [Held -> {-1, 0, 1}] /\ lost' \in 0..MaxLoss /\ won' \in 0..MaxLoss
            <3>1. CASE \E s \in Held, q \in {-1, 0, 1} :
                         held[s] # q /\ held' = [held EXCEPT ![s] = q] /\ UNCHANGED <<lost, won>>
                  BY <3>1 DEF RiskType
            <3>2. CASE lost < MaxLoss /\ lost' = lost + 1 /\ UNCHANGED <<held, won>>
                  BY <3>2 DEF RiskType
            <3>3. CASE won < MaxLoss /\ won' = won + 1 /\ UNCHANGED <<held, lost>>
                  BY <3>3 DEF RiskType
            <3> QED  BY <1>1, <3>1, <3>2, <3>3 DEF Report
      <2>2. policy' = policy /\ registered' = registered /\ stopped' = stopped
            BY <1>1 DEF Report
      <2>3. seen' \subseteq Seen
            <3>1. Now' \in Seen  BY <1>0, <2>1, <2>2, NextNowIsSeen
            <3> QED  BY <3>1, <1>0, <1>1 DEF Report, Observe
      <2>4. reports' \in 0..MaxReports  BY <1>1 DEF Report, RiskType
      <2> QED
          BY ONLY <1>1, <2>1, <2>2, <2>3, <2>4, RiskType DEF RiskType, Report, readVars, Seen
<1>2. CASE ChangePolicy
      <2>1. policy' \in Policies /\ lost' = lost  BY <1>2 DEF ChangePolicy
      <2>2. registered' = registered /\ stopped' = FALSE  BY <1>2 DEF ChangePolicy
      <2>3. seen' \subseteq Seen
            <3>1. Now' \in Seen  BY <1>0, <2>1, NextNowIsSeen
            <3> QED  BY <3>1, <1>0, <1>2 DEF ChangePolicy, Observe
      <2>4. policies' \in 0..MaxPolicies  BY <1>2 DEF ChangePolicy, RiskType
      <2>5. stopped' \in BOOLEAN  BY <2>2
      <2> QED
          BY ONLY <1>2, <2>1, <2>2, <2>3, <2>4, <2>5, RiskType
          DEF RiskType, ChangePolicy, readVars, Seen
<1>3. CASE Midnight
      <2>1. policy' = policy /\ lost' = 0 /\ won' = 0  BY <1>3 DEF Midnight
      <2>2. registered' = registered /\ stopped' = FALSE  BY <1>3 DEF Midnight
      <2>3. seen' \subseteq Seen
            <3>1. Now' \in Seen  BY <1>0, <2>1, NextNowIsSeen
            <3> QED  BY <3>1, <1>0, <1>3 DEF Midnight, Observe
      <2>4. days' \in 0..MaxDays /\ 0 \in 0..MaxLoss  BY <1>3 DEF Midnight, RiskType
      <2>5. stopped' \in BOOLEAN  BY <2>2
      <2> QED
          BY ONLY <1>3, <2>1, <2>2, <2>3, <2>4, <2>5, RiskType
          DEF RiskType, Midnight, readVars, Seen
<1>4. ASSUME NEW o \in Orders, Take(o) PROVE RiskType'
      <2>1. seen' \subseteq Seen  BY <1>4, NowIsSeen DEF Take
      <2>2. jobs' \in 0..MaxJobs  BY <1>4 DEF Take, RiskType
      <2> QED
          BY ONLY <1>4, <2>1, <2>2, RiskType
          DEF RiskType, Take, readVars, accountVars, boundVars, Seen
<1>5. ASSUME NEW what \in {"context", "loss", "positions"}, ReadFault(what)
      PROVE /\ readFaults' \in 0..MaxReadFaults
            /\ unread' \subseteq {"context", "loss", "positions"}
      BY <1>5 DEF ReadFault, RiskType
<1>6. CASE LoadContext
      <2>1. limits' \in Policies \cup {DefaultLimits, Unset}
            BY <1>6 DEF LoadContext, RiskType, InForce
      <2>2. /\ readFaults' \in 0..MaxReadFaults
            /\ unread' \subseteq {"context", "loss", "positions"}
            BY <1>5, <1>6 DEF LoadContext, RiskType
      <2> QED
          BY ONLY <1>6, <2>1, <2>2, RiskType DEF RiskType, LoadContext, accountVars, boundVars
<1>7. CASE QueryLoss
      <2>1. loss' \in Nat \cup {Unset} /\ step' \in {"positions", "judging"}
            BY <1>7 DEF QueryLoss, DailyLoss, RiskType
      <2>2. /\ readFaults' \in 0..MaxReadFaults
            /\ unread' \subseteq {"context", "loss", "positions"}
            BY <1>5, <1>7 DEF QueryLoss, RiskType
      <2>3. order \in Orders  BY <1>7 DEF QueryLoss, RiskType
      <2> QED
          BY ONLY <1>7, <2>1, <2>2, <2>3, RiskType
          DEF RiskType, QueryLoss, accountVars, boundVars
<1>8. CASE QueryPositions
      <2>1. open' \in Nat \cup {Unset}
            BY <1>8, CountedPositions DEF QueryPositions, RiskType
      <2>2. /\ readFaults' \in 0..MaxReadFaults
            /\ unread' \subseteq {"context", "loss", "positions"}
            BY <1>5, <1>8 DEF QueryPositions, RiskType
      <2> QED
          BY ONLY <1>8, <2>1, <2>2, RiskType
          DEF RiskType, QueryPositions, accountVars, boundVars
<1>9. CASE Judge
      <2>1. stopped' \in BOOLEAN  BY <1>0, <1>9 DEF Judge
      <2>2. failures' \subseteq Checks /\ step' \in {"approved", "blocked", "failed"}
            BY <1>9 DEF Judge, RiskType
      <2>3. order \in Orders  BY <1>9 DEF Judge, RiskType
      <2> QED
          BY ONLY <1>9, <2>1, <2>2, <2>3, RiskType
          DEF RiskType, Judge, accountVars, readVars, boundVars
<1>10. CASE Finish
      BY ONLY <1>10, RiskType DEF RiskType, Finish, accountVars, boundVars
<1> QED
    BY <1>1, <1>2, <1>3, <1>4, <1>6, <1>7, <1>8, <1>9, <1>10 DEF RiskNext, Process

-----------------------------------------------------------------------------
\* Steps that leave the entry in hand alone.

\* What the others write: more is seen, and while the account is stopped its
\* limits stay and its loss grows.
LEMMA OthersWrite ==
    ASSUME RiskCore, Report \/ ChangePolicy \/ Midnight
    PROVE /\ UNCHANGED <<registered, step, order, limits, loss, open, unread, failures>>
          /\ seen \subseteq seen' /\ (step # "idle" => Now' \in seen')
          /\ stopped' => stopped /\ InForce' = InForce /\ lost' >= lost
<1>1. CASE Report
      <2>1. lost \in Nat  BY DEF RiskCore, RiskType
      <2>2. lost' >= lost  BY <2>1, <1>1 DEF Report
      <2> QED  BY <1>1, <2>2 DEF Report, readVars, Observe, InForce
<1>2. CASE ChangePolicy
      BY <1>2 DEF ChangePolicy, readVars, Observe
<1>3. CASE Midnight
      BY <1>3 DEF Midnight, readVars, Observe
<1> QED  BY <1>1, <1>2, <1>3

LEMMA OthersKeep ==
    ASSUME RiskCore, RiskType', Report \/ ChangePolicy \/ Midnight
    PROVE RiskCore'
<1>0. /\ UNCHANGED <<registered, step, order, limits, loss, open, unread, failures>>
      /\ seen \subseteq seen' /\ (step # "idle" => Now' \in seen')
      /\ stopped' => stopped /\ InForce' = InForce /\ lost' >= lost
      BY OthersWrite
<1>1. VerdictStands'
      <2>1. \A c : Fails(c, order)' = Fails(c, order)
            BY <1>0 DEF Fails, Reaches, Effective, Amount
      <2> QED  BY <1>0, <2>1 DEF RiskCore, VerdictStands
<1>2. ReadInOrder'  BY <1>0 DEF RiskCore, ReadInOrder
<1>3. ReadWasThere'
      <2>1. ASSUME registered, limits # Unset PROVE \E w \in seen' : w.limits = limits
            BY <1>0, <2>1 DEF RiskCore, ReadWasThere
      <2>2. ASSUME registered, loss # Unset PROVE \E v \in seen' : v.lost = loss
            BY <1>0, <2>2 DEF RiskCore, ReadWasThere
      <2>3. ASSUME registered, open # Unset
            PROVE \E v \in seen' : v.open >= open /\ (~v.short => v.open = open)
            BY <1>0, <2>3 DEF RiskCore, ReadWasThere
      <2> QED  BY <1>0, <2>1, <2>2, <2>3 DEF ReadWasThere
<1>4. StoppedReadsTheLoss'
      <2> SUFFICES ASSUME stopped'
                   PROVE  /\ lost' >= InForce'.loss
                          /\ registered' =>
                               /\ step' \in {"loss", "positions", "judging"}
                                    /\ "context" \notin unread' => limits' = InForce'
                               /\ step' \in {"positions", "judging"} /\ "loss" \notin unread'
                                    => loss' >= InForce'.loss
          BY DEF StoppedReadsTheLoss
      <2>1. stopped /\ InForce' = InForce /\ lost' >= lost  BY <1>0
      <2>2. lost >= InForce.loss  BY <2>1 DEF RiskCore, StoppedReadsTheLoss
      <2>3. lost \in Nat /\ lost' \in Nat /\ InForce.loss \in Nat
            BY LimitsInForce DEF RiskCore, RiskType, Limits
      <2>4. lost' >= InForce'.loss  BY <2>1, <2>2, <2>3
      <2> QED  BY <1>0, <2>1, <2>4 DEF RiskCore, StoppedReadsTheLoss
<1>5. StoppedForTheDay'  BY <1>0 DEF RiskCore, StoppedForTheDay
<1> QED  BY <1>1, <1>2, <1>3, <1>4, <1>5 DEF RiskCore

LEMMA FinishKeeps == ASSUME RiskCore, RiskType', Finish PROVE RiskCore'
<1>0. /\ step' = "idle" /\ failures' = {} /\ limits' = Unset /\ loss' = Unset
      /\ open' = Unset /\ unread' = {}
      /\ UNCHANGED <<registered, policy, held, lost, won, stopped>>
      BY DEF Finish, accountVars
<1>1. VerdictStands' /\ ReadInOrder'  BY <1>0 DEF VerdictStands, ReadInOrder
<1>2. ReadWasThere'  BY <1>0 DEF ReadWasThere
<1>3. StoppedReadsTheLoss' /\ StoppedForTheDay'
      BY <1>0 DEF RiskCore, StoppedReadsTheLoss, StoppedForTheDay, InForce
<1> QED  BY <1>1, <1>2, <1>3 DEF RiskCore

LEMMA TakeKeeps == ASSUME RiskCore, RiskType', NEW o \in Orders, Take(o) PROVE RiskCore'
<1>0. /\ step = "idle" /\ step' = "context" /\ seen' = {Now}
      /\ UNCHANGED <<registered, policy, held, lost, won, limits, loss, open, unread, failures,
                     stopped>>
      BY DEF Take, accountVars, readVars
<1>1. limits = Unset /\ loss = Unset /\ open = Unset /\ unread = {} /\ failures = {}
      BY <1>0 DEF RiskCore, ReadInOrder, VerdictStands
<1>2. VerdictStands' /\ ReadInOrder'  BY <1>0, <1>1 DEF VerdictStands, ReadInOrder
<1>3. ReadWasThere'
      <2>1. Now' = Now  BY <1>0 DEF Now, Positions, Shorts, InForce
      <2> QED  BY <1>0, <1>1, <2>1 DEF ReadWasThere
<1>4. StoppedReadsTheLoss' /\ StoppedForTheDay'
      BY <1>0 DEF RiskCore, StoppedReadsTheLoss, StoppedForTheDay, InForce
<1> QED  BY <1>2, <1>3, <1>4 DEF RiskCore

-----------------------------------------------------------------------------
\* The reads.

LEMMA LoadContextKeeps == ASSUME RiskCore, RiskType', LoadContext PROVE RiskCore'
<1>0. /\ step = "context" /\ step' = "loss"
      /\ UNCHANGED <<registered, policy, held, lost, won, loss, open, failures, seen, stopped>>
      /\ \/ limits' = (IF registered THEN InForce ELSE Unset) /\ unread' = unread
         \/ unread' = unread \cup {"context"} /\ limits' = limits
      BY DEF LoadContext, ReadFault, accountVars
<1>1. limits = Unset /\ loss = Unset /\ open = Unset /\ unread = {} /\ failures = {}
      BY <1>0 DEF RiskCore, ReadInOrder, VerdictStands
<1>2. InForce # Unset  BY LimitsInForce DEF RiskCore, RiskType
<1>3. Now \in seen /\ Now' = Now /\ InForce' = InForce /\ Now.limits = InForce
      BY <1>0 DEF RiskCore, ReadWasThere, Now, Positions, Shorts, InForce
<1>4. VerdictStands' /\ ReadInOrder'  BY <1>0, <1>1, <1>2 DEF VerdictStands, ReadInOrder
<1>5. ReadWasThere'  BY <1>0, <1>1, <1>3 DEF ReadWasThere
<1>6. StoppedReadsTheLoss' /\ StoppedForTheDay'
      BY <1>0, <1>1, <1>3 DEF RiskCore, StoppedReadsTheLoss, StoppedForTheDay
<1> QED  BY <1>4, <1>5, <1>6 DEF RiskCore

LEMMA QueryLossKeeps == ASSUME RiskCore, RiskType', QueryLoss PROVE RiskCore'
<1>0. /\ step = "loss"
      /\ UNCHANGED <<registered, policy, held, lost, won, limits, open, failures, seen, stopped>>
      /\ \/ /\ loss' = (IF registered THEN lost ELSE 0) /\ unread' = unread
            /\ step' = "positions"
         \/ unread' = unread \cup {"loss"} /\ loss' = loss /\ step' = "judging"
      BY DEF QueryLoss, DailyLoss, ReadFault, accountVars
<1>1. loss = Unset /\ open = Unset /\ failures = {}
      BY <1>0 DEF RiskCore, ReadInOrder, VerdictStands
<1>2. lost # Unset /\ 0 # Unset  BY DEF RiskCore, RiskType
<1>3. Now \in seen /\ Now' = Now /\ InForce' = InForce /\ Now.lost = lost
      BY <1>0 DEF RiskCore, ReadWasThere, Now, Positions, Shorts, InForce
<1>4. VerdictStands'  BY <1>0, <1>1 DEF VerdictStands
<1>5. ReadInOrder'  BY <1>0, <1>1, <1>2 DEF RiskCore, ReadInOrder
<1>6. ReadWasThere'  BY <1>0, <1>1, <1>3 DEF RiskCore, ReadWasThere
<1>7. StoppedReadsTheLoss'
      BY <1>0, <1>3 DEF RiskCore, StoppedReadsTheLoss
<1>8. StoppedForTheDay'  BY <1>0 DEF StoppedForTheDay
<1> QED  BY <1>4, <1>5, <1>6, <1>7, <1>8 DEF RiskCore

LEMMA QueryPositionsKeeps == ASSUME RiskCore, RiskType', QueryPositions PROVE RiskCore'
<1>0. /\ step = "positions" /\ step' = "judging"
      /\ UNCHANGED <<registered, policy, held, lost, won, limits, loss, failures, seen, stopped>>
      /\ \/ open' = (IF registered THEN CountOpen ELSE 0) /\ unread' = unread
         \/ unread' = unread \cup {"positions"} /\ open' = open
      BY DEF QueryPositions, ReadFault, accountVars
<1>1. open = Unset /\ failures = {}
      BY <1>0 DEF RiskCore, ReadInOrder, VerdictStands
<1>2. /\ CountOpen # Unset /\ 0 # Unset
      /\ Now.open >= CountOpen /\ (~Now.short => Now.open = CountOpen)
      <2>1. /\ Cardinality(Positions) \in Nat /\ CountOpen \in Nat
            /\ CountOpen <= Cardinality(Positions)
            /\ Shorts = {} => CountOpen = Cardinality(Positions)
            BY CountedPositions DEF RiskCore, RiskType
      <2>2. Now.open = Cardinality(Positions)  BY DEF Now
      <2>3. ASSUME ~Now.short PROVE Shorts = {}
            <3>1. Now.short = (Shorts # {})  BY DEF Now
            <3> QED  BY ONLY <3>1, <2>3, Zenon
      <2>4. CountOpen # Unset  BY <2>1
      <2>5. Now.open >= CountOpen  BY <2>1, <2>2
      <2>6. ~Now.short => Now.open = CountOpen  BY <2>1, <2>2, <2>3
      <2> QED  BY <2>4, <2>5, <2>6
<1>3. Now \in seen /\ Now' = Now /\ InForce' = InForce
      BY <1>0 DEF RiskCore, ReadWasThere, Now, Positions, Shorts, InForce
<1>4. VerdictStands'  BY <1>0, <1>1 DEF VerdictStands
<1>5. ReadInOrder'  BY <1>0, <1>1, <1>2 DEF RiskCore, ReadInOrder
<1>6. ReadWasThere'
      <2>1. ASSUME registered, open' # Unset
            PROVE \E v \in seen : v.open >= open' /\ (~v.short => v.open = open')
            <3>1. open' = CountOpen  BY <2>1, <1>0, <1>1
            <3> QED  BY <3>1, <1>2, <1>3
      <2> QED  BY <1>0, <1>3, <2>1 DEF RiskCore, ReadWasThere
<1>7. StoppedReadsTheLoss'
      BY <1>0, <1>3 DEF RiskCore, StoppedReadsTheLoss
<1>8. StoppedForTheDay'  BY <1>0 DEF StoppedForTheDay
<1> QED  BY <1>4, <1>5, <1>6, <1>7, <1>8 DEF RiskCore

-----------------------------------------------------------------------------
\* The verdict.

\* An account that is stopped fails the check for the loss, if all was read.
LEMMA StoppedFails ==
    ASSUME RiskCore, step = "judging", stopped, registered, unread = {}
    PROVE Fails("max_daily_loss", order)
<1>1. limits = InForce /\ loss >= InForce.loss  BY DEF RiskCore, StoppedReadsTheLoss
<1>2. loss # Unset  BY DEF RiskCore, ReadInOrder
<1>3. InForce # Unset  BY LimitsInForce DEF RiskCore, RiskType
<1>4. Reaches(loss, Effective.loss)  BY <1>1, <1>2, <1>3 DEF Reaches, Effective
<1> QED  BY <1>4, ChecksCompare

LEMMA JudgeKeeps == ASSUME RiskCore, RiskType', Judge PROVE RiskCore'
<1>0. /\ step = "judging"
      /\ UNCHANGED <<registered, policy, held, lost, won, order, limits, loss, open, unread, seen>>
      BY DEF Judge, accountVars, readVars
<1>1. Now' = Now /\ InForce' = InForce  BY <1>0 DEF Now, Positions, Shorts, InForce
<1>2. \A c : Fails(c, order)' = Fails(c, order)
      BY <1>0 DEF Fails, Reaches, Effective, Amount
<1>3. failures = {}  BY <1>0 DEF RiskCore, VerdictStands
<1>4. CASE /\ failures' = {c \in Checks : Fails(c, order)}
           /\ step' = (IF failures' = {} THEN "approved" ELSE "blocked")
           /\ stopped' = (stopped \/ ("max_daily_loss" \in failures' /\ lost >= InForce.loss))
      <2>1. VerdictStands'  BY <1>2, <1>4 DEF VerdictStands
      <2>2. ReadInOrder'  BY <1>0, <1>4 DEF RiskCore, ReadInOrder
      <2>3. ReadWasThere'  BY <1>0, <1>1, <1>4 DEF RiskCore, ReadWasThere
      <2>4. StoppedReadsTheLoss'
            <3>1. ASSUME stopped' PROVE lost >= InForce.loss
                  <4>1. stopped \/ lost >= InForce.loss  BY <1>4, <3>1, Zenon
                  <4> QED  BY <4>1 DEF RiskCore, StoppedReadsTheLoss
            <3>2. step' \in {"approved", "blocked"}  BY <1>4
            <3> QED  BY <1>0, <1>1, <3>1, <3>2 DEF StoppedReadsTheLoss
      <2>5. StoppedForTheDay'
            <3> SUFFICES ASSUME stopped', unread' = {}, registered', step' = "approved"
                         PROVE FALSE
                BY DEF StoppedForTheDay
            <3>1. failures' = {}  BY <1>4
            <3>2. stopped  BY <1>4, <3>1, Zenon
            <3>3. Fails("max_daily_loss", order)  BY <1>0, <3>2, StoppedFails
            <3>4. "max_daily_loss" \in failures'  BY <1>4, <3>3 DEF Checks
            <3> QED  BY <3>1, <3>4
      <2> QED  BY <2>1, <2>2, <2>3, <2>4, <2>5 DEF RiskCore
<1>5. CASE step' \in {"blocked", "failed"} /\ UNCHANGED <<failures, stopped>>
      <2>1. VerdictStands'  BY <1>3, <1>5 DEF VerdictStands
      <2>2. ReadInOrder'  BY <1>0, <1>5 DEF RiskCore, ReadInOrder
      <2>3. ReadWasThere'  BY <1>0, <1>1, <1>5 DEF RiskCore, ReadWasThere
      <2>4. StoppedReadsTheLoss' /\ StoppedForTheDay'
            BY <1>0, <1>1, <1>5 DEF RiskCore, StoppedReadsTheLoss, StoppedForTheDay
      <2> QED  BY <2>1, <2>2, <2>3, <2>4 DEF RiskCore
<1> QED  BY <1>4, <1>5 DEF Judge

LEMMA RiskStep == ASSUME RiskCore, [RiskNext]_riskVars PROVE RiskCore'
<1>1. CASE RiskNext
      <2>1. RiskType'  BY <1>1, TypeStep DEF RiskCore
      <2>2. CASE Process
            BY <2>1, <2>2, TakeKeeps, LoadContextKeeps, QueryLossKeeps, QueryPositionsKeeps,
               JudgeKeeps, FinishKeeps
            DEF Process
      <2> QED  BY <1>1, <2>1, <2>2, OthersKeep DEF RiskNext
<1>2. CASE UNCHANGED riskVars
      <2>1. /\ UNCHANGED <<registered, policy, held, lost, won, step, order, limits, loss, open,
                           unread, failures, seen, stopped, jobs, reports, policies, days,
                           readFaults>>
            BY <1>2 DEF riskVars, accountVars, readVars, boundVars
      <2>0. RiskType  BY DEF RiskCore
      <2>2. RiskType'  BY ONLY <2>0, <2>1 DEF RiskType, Seen
      <2>3. \A c : Fails(c, order)' = Fails(c, order)
            BY <2>1 DEF Fails, Reaches, Effective, Amount
      <2>4. VerdictStands' /\ ReadInOrder'
            BY <2>1, <2>3 DEF RiskCore, VerdictStands, ReadInOrder
      <2>5. Now' = Now /\ InForce' = InForce  BY <2>1 DEF Now, Positions, Shorts, InForce
      <2>6. ReadWasThere'  BY <2>1, <2>5 DEF RiskCore, ReadWasThere
      <2>7. StoppedReadsTheLoss' /\ StoppedForTheDay'
            BY <2>1, <2>5 DEF RiskCore, StoppedReadsTheLoss, StoppedForTheDay
      <2> QED  BY <2>2, <2>4, <2>6, <2>7 DEF RiskCore
<1> QED  BY <1>1, <1>2

\* An order that ExecutionRiskEngine.evaluate approves was, at moments since its
\* entry was taken, below each of its account's limits, an order that it blocks
\* was not, and the loss of the day stops an account until midnight: for any
\* limits, orders and number of other writers, unless a read fails.
THEOREM RiskInvariant == RiskSpec => []RiskInv
<1>1. RiskInit => RiskCore  BY InitCore
<1>2. RiskCore /\ [RiskNext]_riskVars => RiskCore'  BY RiskStep
<1>3. RiskCore => RiskInv  BY ApprovalIsWithin, BlockHasItsCause DEF RiskCore, RiskInv
<1> QED  BY <1>1, <1>2, <1>3, PTL DEF RiskSpec

-----------------------------------------------------------------------------
\* PaperPricing.

LEMMA DivMod ==
  ASSUME NEW n \in Nat, NEW d \in Nat \ {0}
  PROVE  n \div d \in Nat /\ n % d \in 0..(d - 1) /\ n = d * (n \div d) + (n % d)
OBVIOUS

\* quantize() is at most half a step away from what it rounds.
LEMMA QuantizeIsNear ==
  ASSUME NEW n \in Nat, NEW d \in Nat \ {0}
  PROVE  Quantize(n, d) \in Nat /\ 2 * (d * Quantize(n, d) - n) \in (-d)..d
<1> DEFINE q == n \div d
<1> DEFINE m == n % d
<1>1. q \in Nat /\ m \in 0..(d - 1) /\ n = d * q + m
  BY DivMod
<1>2. Quantize(n, d) = IF 2 * m > d \/ (2 * m = d /\ q % 2 = 1) THEN q + 1 ELSE q
  BY DEF Quantize
<1> HIDE DEF q, m
<1>3. d * q \in Nat /\ d * (q + 1) = d * q + d
  BY <1>1
<1>4. CASE Quantize(n, d) = q + 1 /\ 2 * m >= d
  BY <1>1, <1>3, <1>4
<1>5. CASE Quantize(n, d) = q /\ 2 * m <= d
  BY <1>1, <1>3, <1>5
<1>6. QED
  BY <1>1, <1>2, <1>4, <1>5

\* A price of more than half a step is not rounded to nothing.
LEMMA QuantizePositive ==
  ASSUME NEW n \in Nat, NEW d \in Nat \ {0}, 2 * n > d
  PROVE  Quantize(n, d) # 0
<1>1. Quantize(n, d) \in Nat /\ 2 * (d * Quantize(n, d) - n) \in (-d)..d
  BY QuantizeIsNear
<1>2. ASSUME Quantize(n, d) = 0 PROVE FALSE
  <2>1. d * 0 = 0
    OBVIOUS
  <2>2. QED
    BY <1>1, <1>2, <2>1
<1>3. QED
  BY <1>2

\* What one GET finds is a price, or nothing.
LEMMA FoundType ==
  ASSUME PricingType, market \in Markets
  PROVE  /\ Found \in (Nat \ {0}) \cup {Absent}
         /\ at = 1 => Found = Snapshot(market) /\ Found \in Prices \cup {Absent}
         /\ at = 2 => Found = price[market] /\ Found \in Prices \cup {Absent}
<1> DEFINE m == IF at <= 3 THEN market ELSE Other(market)
<1>1. m \in Markets
  BY PricingAssumption DEF Other
<1>2. Snapshot(m) \in Prices \cup {Absent} /\ price[m] \in Prices \cup {Absent}
  BY <1>1, PricingAssumption DEF PricingType, Snapshot
<1>3. Mid(m) \in (Nat \ {0}) \cup {Absent}
  <2>1. CASE ticker[m] = Absent
    BY <2>1 DEF Mid
  <2>2. CASE ticker[m] # Absent
    <3>1. ticker[m] \in Quotes
      BY <1>1, <2>2 DEF PricingType
    <3>2. ticker[m].bid \in Nat \ {0} /\ ticker[m].ask \in Nat \ {0}
      BY <3>1, PricingAssumption DEF Quotes
    <3>3. ticker[m].bid + ticker[m].ask \in Nat /\ ticker[m].bid + ticker[m].ask >= 2
      BY <3>2
    <3>4. (ticker[m].bid + ticker[m].ask) \div 2 \in Nat \ {0}
      BY <3>3
    <3>5. QED
      BY <2>2, <3>4 DEF Mid
  <2>3. QED
    BY <2>1, <2>2
<1>4. at \in 1..7
  BY DEF PricingType
<1>5. Found = CASE at % 3 = 1 -> Snapshot(m) [] at % 3 = 2 -> price[m] [] OTHER -> Mid(m)
  BY DEF Found
<1>6. Found \in (Nat \ {0}) \cup {Absent}
  <2> HIDE DEF m
  <2> QED
    BY <1>2, <1>3, <1>5, PricingAssumption
<1>7. at = 1 => Found = Snapshot(market) /\ m = market
  BY <1>5
<1>8. at = 2 => Found = price[market] /\ m = market
  BY <1>5
<1>9. QED
  BY <1>2, <1>6, <1>7, <1>8

LEMMA PricingInitInv == PricingInit => PricingInv
<1> SUFFICES ASSUME PricingInit PROVE PricingInv
  OBVIOUS
<1> USE PricingAssumption DEF PricingInit
<1>1. visible \in BOOLEAN
  BY Zenon
<1>2. PricingType
  BY <1>1 DEF PricingType
<1>3. VisibleIsReached /\ FillIsWorthItsAmount /\ ShownIsAhead /\ IntentStands
  BY DEF VisibleIsReached, FillIsWorthItsAmount, ShownIsAhead, IntentStands
<1>4. QED
  BY <1>2, <1>3 DEF PricingInv

\* Whatever becomes of a look, it is a flag.
LEMMA VisibleIsAFlag == PricingType /\ PricingNext => visible' \in BOOLEAN
<1> SUFFICES ASSUME PricingType, PricingNext PROVE visible' \in BOOLEAN
  OBVIOUS
<1>1. visible \in BOOLEAN
  BY DEF PricingType
<1>2. ASSUME NEW m \in Markets, Write(m) \/ Expire(m) PROVE visible' \in BOOLEAN
  BY <1>2, Zenon DEF Write, Expire, Watch
<1>3. ASSUME NEW m \in Markets, NEW u \in Amounts \cup {Absent}, NEW s \in Sizes \cup {Absent},
             Request(m, u, s)
      PROVE  visible' \in BOOLEAN
  BY <1>3, Zenon DEF Request
<1>4. CASE CheckRisk
  BY <1>4, Zenon DEF CheckRisk, Look
<1>5. CASE Miss \/ Size \/ PriceUnavailable \/ Fill \/ Derive
  BY <1>1, <1>5, Zenon DEF Miss, Size, PriceUnavailable, Fill, Derive
<1>6. QED
  BY <1>2, <1>3, <1>4, <1>5 DEF PricingNext, Trade

\* A fill is whole cents and more than none.
LEMMA FillAtType ==
  ASSUME NEW p \in Nat \cup {Absent}, PricingType, FillAt(p)
  PROVE  /\ fill' \in (Nat \ {0}) \cup {Absent} /\ pc' \in {"failed", "filled"}
         /\ pc' = "failed" => p = Absent \/ Quantize(p, Cent) = 0
         /\ pc' = "filled" => p \in Nat /\ fill' = Quantize(p, Cent) * Cent
<1>1. CASE p = Absent \/ Quantize(p, Cent) = 0
  BY <1>1, PricingAssumption DEF FillAt, PricingType
<1>2. CASE p # Absent /\ Quantize(p, Cent) # 0
  <2>1. p \in Nat /\ Cent \in Nat \ {0}
    BY <1>2, PricingAssumption
  <2>2. Quantize(p, Cent) \in Nat \ {0}
    BY <1>2, <2>1, QuantizeIsNear
  <2>3. \A a, b \in Nat \ {0} : a * b \in Nat \ {0}
    OBVIOUS
  <2>4. QED
    BY <1>2, <2>1, <2>2, <2>3 DEF FillAt
<1>3. QED
  BY <1>1, <1>2

\* The price of the last resort is a number.
LEMMA DerivedType ==
  ASSUME PricingType, usd # Absent, size \in Nat \ {0}
  PROVE  usd \div size \in Nat
<1>1. usd \in Nat
  BY PricingAssumption DEF PricingType
<1>2. QED
  BY <1>1, DivMod

LEMMA KeysType ==
  ASSUME PricingType, NEW m \in Markets, Write(m) \/ Expire(m)
  PROVE  /\ snapshot' \in [Markets -> Prices \cup {0, Absent}]
         /\ price' \in [Markets -> Prices \cup {Absent}]
         /\ ticker' \in [Markets -> Quotes \cup {Absent}]
         /\ writes' \in 0..MaxWrites /\ expired' \in 0..MaxExpired
<1> USE PricingAssumption DEF PricingType
<1>1. CASE Write(m)
  BY <1>1 DEF Write
<1>2. CASE Expire(m)
  BY <1>2 DEF Expire
<1>3. QED
  BY <1>1, <1>2

LEMMA PricingTypeStep == PricingType /\ IntentStands /\ PricingNext => PricingType'
<1> SUFFICES ASSUME PricingType, IntentStands, PricingNext PROVE PricingType'
  OBVIOUS
<1>0. visible' \in BOOLEAN
  BY VisibleIsAFlag
<1> USE PricingAssumption DEF PricingType
<1>1. ASSUME NEW m \in Markets, Write(m) \/ Expire(m) PROVE PricingType'
  <2>1. UNCHANGED <<pc, market, usd, size, sizedAt, at, fill>>
    BY <1>1 DEF Write, Expire
  <2>2. QED
    BY <1>0, <1>1, <2>1, KeysType
<1>2. ASSUME NEW m \in Markets, NEW u \in Amounts \cup {Absent}, NEW s \in Sizes \cup {Absent},
             Request(m, u, s)
      PROVE  PricingType'
  BY <1>0, <1>2 DEF Request, keys
<1>3. CASE Miss
  BY <1>0, <1>3 DEF Miss, keys
<1>4. CASE Size
  <2>1. market \in Markets /\ usd \in Nat
    BY <1>4 DEF Size, IntentStands
  <2>2. Found \in Nat \ {0}
    BY <1>4, <2>1, FoundType DEF Size
  <2>3. SizeFor(Found) \in Nat
    BY <2>1, <2>2, QuantizeIsNear DEF SizeFor
  <2>4. QED
    BY <1>0, <1>4, <2>2, <2>3 DEF Size, keys
<1>5. CASE PriceUnavailable
  BY <1>0, <1>5 DEF PriceUnavailable, keys
<1>6. CASE CheckRisk
  BY <1>0, <1>6 DEF CheckRisk, Look, keys
<1>7. CASE Fill
  <2>1. market \in Markets
    BY <1>7 DEF Fill, IntentStands
  <2>2. Found \in Nat \cup {Absent} /\ FillAt(Found)
    BY <1>7, <2>1, FoundType DEF Fill
  <2>3. fill' \in (Nat \ {0}) \cup {Absent} /\ pc' \in {"failed", "filled"}
    BY <2>2, FillAtType
  <2>4. QED
    BY <1>0, <1>7, <2>3 DEF Fill, keys
<1>8. CASE Derive
  <2>1. PICK p \in Nat \cup {Absent} : FillAt(p)
    <3>1. CASE usd # Absent /\ size > 0
      <4>1. size \in Nat
        BY <1>8 DEF Derive, IntentStands
      <4>2. usd \div size \in Nat /\ FillAt(usd \div size)
        BY <1>8, <3>1, <4>1, DerivedType DEF Derive
      <4>3. QED
        BY <4>2
    <3>2. CASE ~(usd # Absent /\ size > 0)
      BY <1>8, <3>2 DEF Derive
    <3>3. QED
      BY <3>1, <3>2
  <2>2. fill' \in (Nat \ {0}) \cup {Absent} /\ pc' \in {"failed", "filled"}
    BY <2>1, FillAtType
  <2>3. QED
    BY <1>0, <1>8, <2>2 DEF Derive, keys
<1>9. QED
  BY <1>1, <1>2, <1>3, <1>4, <1>5, <1>6, <1>7, <1>8 DEF PricingNext, Trade

\* What the keys do to a look: while no key expires they are only rewritten.
LEMMA KeysGoOn ==
  ASSUME PricingType, market \in Markets, NEW m \in Markets, Write(m) \/ Expire(m)
  PROVE  /\ visible' => visible /\ LastPrice(market)' # Absent
         /\ expired' = 0 /\ price[market] # Absent => expired = 0 /\ price'[market] # Absent
         /\ expired' = 0 => expired = 0
<1>1. visible' => visible /\ LastPrice(market)' # Absent
  <2>1. Watch
    BY Zenon DEF Write, Expire
  <2>2. UNCHANGED market
    BY DEF Write, Expire
  <2>3. SUFFICES ASSUME visible' PROVE visible /\ LastPrice(market)' # Absent
    OBVIOUS
  <2>4. visible
    BY <2>1, <2>3 DEF Watch
  <2>5. PICK n \in Markets : n = market /\ LastPrice(n)' # Absent
    BY <2>1, <2>3 DEF Watch
  <2>6. QED
    BY <2>2, <2>4, <2>5 DEF LastPrice
<1>2. CASE Write(m)
  BY <1>1, <1>2, PricingAssumption DEF Write, PricingType
<1>3. CASE Expire(m)
  BY <1>1, <1>3, PricingAssumption DEF Expire, PricingType
<1>4. QED
  BY <1>1, <1>2, <1>3

LEMMA IntentStep == PricingType /\ IntentStands /\ PricingNext => IntentStands'
<1> SUFFICES ASSUME PricingType, IntentStands, PricingNext PROVE IntentStands'
  OBVIOUS
<1> USE PricingAssumption DEF IntentStands
<1>1. ASSUME NEW m \in Markets, Write(m) \/ Expire(m) PROVE IntentStands'
  BY <1>1 DEF Write, Expire, SizeFor
<1>2. ASSUME NEW m \in Markets, NEW u \in Amounts \cup {Absent}, NEW s \in Sizes \cup {Absent},
             Request(m, u, s)
      PROVE  IntentStands'
  BY <1>2 DEF Request
<1>3. CASE Size
  <2>1. Found \in Nat \ {0} /\ usd \in Nat /\ usd \in Amounts
    BY <1>3, FoundType DEF Size
  <2>2. SizeFor(Found) \in Nat
    BY <2>1, QuantizeIsNear DEF SizeFor
  <2>3. pc' = "published" /\ sizedAt' = Found /\ size' = SizeFor(Found) /\ UNCHANGED <<usd, market>>
    BY <1>3 DEF Size
  <2>4. SizeFor(sizedAt)' = SizeFor(Found)
    BY <2>3 DEF SizeFor
  <2>5. QED
    BY <1>3, <2>1, <2>2, <2>3, <2>4 DEF Size
<1>4. CASE Miss \/ PriceUnavailable \/ CheckRisk
  BY <1>4 DEF Miss, PriceUnavailable, CheckRisk, SizeFor
<1>5. CASE Fill \/ Derive
  <2>1. pc' \in {"failed", "filled"}
    BY <1>5 DEF Fill, Derive, FillAt
  <2>2. pc = "filling" /\ UNCHANGED <<market, usd, size, sizedAt>>
    BY <1>5 DEF Fill, Derive
  <2>3. QED
    BY <2>1, <2>2 DEF SizeFor
<1>6. QED
  BY <1>1, <1>2, <1>3, <1>4, <1>5 DEF PricingNext, Trade

LEMMA ShownStep == PricingType /\ IntentStands /\ ShownIsAhead /\ PricingNext => ShownIsAhead'
<1> SUFFICES ASSUME PricingType, IntentStands, ShownIsAhead, PricingNext,
                    pc' \in {"sizing", "filling"}, visible'
             PROVE  /\ LastPrice(market)' # Absent
                    /\ expired' = 0 => at' <= 2 /\ (at' = 2 => price'[market'] # Absent)
  BY DEF ShownIsAhead
<1> USE PricingAssumption
<1>1. ASSUME NEW m \in Markets, Write(m) \/ Expire(m)
      PROVE  /\ LastPrice(market)' # Absent
             /\ expired' = 0 => at' <= 2 /\ (at' = 2 => price'[market'] # Absent)
  <2>1. UNCHANGED <<pc, market, at>>
    BY <1>1 DEF Write, Expire
  <2>2. market \in Markets
    BY <2>1 DEF IntentStands
  <2>3. QED
    BY <1>1, <2>1, <2>2, KeysGoOn DEF ShownIsAhead
<1>2. CASE pc' # pc
  <2>1. /\ at' = 1 /\ UNCHANGED <<snapshot, price>>
        /\ visible' = (LastPrice(market') # Absent)
    BY <1>2, Zenon DEF PricingNext, Trade, Write, Expire, Request, Miss, Size, PriceUnavailable,
         CheckRisk, Fill, Derive, FillAt, Look, keys
  <2>2. LastPrice(market') # Absent
    BY <2>1, Zenon
  <2>3. LastPrice(market)' = LastPrice(market')
    BY <2>1 DEF LastPrice
  <2>4. QED
    BY <2>1, <2>2, <2>3
<1>3. CASE Miss
  <2>1. /\ UNCHANGED <<snapshot, price, expired, market, pc, visible>> /\ at' = at + 1
        /\ pc \in {"sizing", "filling"} /\ Found = Absent
    BY <1>3 DEF Miss, keys
  <2>2. market \in Markets /\ visible /\ at \in 1..7
    BY <2>1 DEF IntentStands, PricingType
  <2>3. LastPrice(market) # Absent /\ LastPrice(market)' # Absent
    BY <2>1, <2>2 DEF ShownIsAhead, LastPrice
  <2>4. ASSUME expired = 0 PROVE at = 1 /\ price[market] # Absent
    <3>1. at # 2
      BY <2>1, <2>2, <2>4, FoundType DEF ShownIsAhead
    <3>2. at = 1
      BY <2>1, <2>2, <2>4, <3>1 DEF ShownIsAhead
    <3>3. Snapshot(market) = Absent
      BY <2>1, <2>2, <3>2, FoundType
    <3>4. QED
      BY <2>3, <3>2, <3>3 DEF LastPrice, Snapshot
  <2>5. QED
    BY <2>1, <2>3, <2>4
<1>4. CASE pc' = pc /\ ~Miss /\ ~(\E m \in Markets : Write(m) \/ Expire(m))
  BY <1>4 DEF PricingNext, Trade, Request, Size, PriceUnavailable, CheckRisk, Fill, Derive, FillAt
<1>5. QED
  BY <1>1, <1>2, <1>3, <1>4

LEMMA VisibleStep ==
    PricingType /\ IntentStands /\ ShownIsAhead /\ VisibleIsReached /\ PricingNext
      => VisibleIsReached'
<1> SUFFICES ASSUME PricingType, IntentStands, ShownIsAhead, VisibleIsReached, PricingNext,
                    pc' \in {"unsized", "failed"}, expired' = 0, visible',
                    \A p \in Prices : 2 * p > Cent
             PROVE  FALSE
  BY DEF VisibleIsReached
<1>1. ASSUME NEW m \in Markets, Write(m) \/ Expire(m) PROVE FALSE
  <2>1. UNCHANGED pc
    BY <1>1 DEF Write, Expire
  <2>2. market \in Markets
    BY <2>1 DEF IntentStands
  <2>3. visible /\ expired = 0
    BY <1>1, <2>2, KeysGoOn
  <2>4. QED
    BY <2>1, <2>3 DEF VisibleIsReached
<1>2. ASSUME pc \in {"sizing", "filling"}, UNCHANGED <<expired, visible>>
      PROVE  at <= 2 /\ market \in Markets
  <2>1. visible /\ expired = 0
    BY <1>2
  <2>2. QED
    BY <1>2, <2>1 DEF ShownIsAhead, IntentStands
<1>3. CASE PriceUnavailable \/ Derive
  <2>1. pc \in {"sizing", "filling"} /\ at = 7 /\ UNCHANGED <<expired, visible>>
    BY <1>3, Zenon DEF PriceUnavailable, Derive, keys
  <2>2. at <= 2
    BY <1>2, <2>1, Zenon
  <2>3. QED
    BY <2>1, <2>2
<1>4. CASE Fill
  <2>1. pc = "filling" /\ UNCHANGED <<expired, visible>> /\ FillAt(Found) /\ Found # Absent
    BY <1>4, Zenon DEF Fill, keys
  <2>0. market \in Markets /\ at <= 2
    BY <1>2, <2>1, Zenon
  <2>2. at = 1 \/ at = 2
    BY <2>0 DEF PricingType
  <2>3. Found \in Prices
    BY <2>0, <2>1, <2>2, FoundType
  <2>4. Found \in Nat /\ Cent \in Nat \ {0} /\ 2 * Found > Cent
    BY <2>3, PricingAssumption
  <2>5. Quantize(Found, Cent) # 0
    BY <2>4, QuantizePositive
  <2>6. pc' = "filled"
    BY <2>1, <2>5 DEF FillAt
  <2>7. QED
    BY <2>6
<1>5. CASE Miss \/ Size \/ CheckRisk
  BY <1>5 DEF Miss, Size, CheckRisk
<1>6. ASSUME NEW m \in Markets, NEW u \in Amounts \cup {Absent}, NEW s \in Sizes \cup {Absent},
             Request(m, u, s)
      PROVE  FALSE
  BY <1>6 DEF Request
<1>7. QED
  BY <1>1, <1>3, <1>4, <1>5, <1>6 DEF PricingNext, Trade

\* The value of a size that was rounded, at a price that was rounded.
LEMMA WorthOfRounded ==
  ASSUME NEW u \in Nat, NEW p \in Nat \ {0}, NEW f \in Nat, NEW z, z = Quantize(u, p)
  PROVE  LET rounding == IF f > p THEN f - p ELSE p - f
             slack == p + 2 * z * rounding
         IN 2 * (z * f - u) \in -slack..slack
<1>1. z \in Nat /\ 2 * (p * z - u) \in (-p)..p
  BY QuantizeIsNear
<1>2. CASE f > p
  <2>1. PICK r \in Nat : r = f - p /\ f = p + r
    BY <1>2
  <2>2. z * r \in Nat /\ z * f = p * z + z * r /\ 2 * z * r = 2 * (z * r) /\ p * z \in Nat
    BY <1>1, <2>1
  <2>3. 2 * (z * f - u) = 2 * (p * z - u) + 2 * (z * r)
    BY <2>2
  <2>4. QED
    BY <1>1, <1>2, <2>1, <2>2, <2>3
<1>3. CASE ~(f > p)
  <2>1. PICK r \in Nat : r = p - f /\ p = f + r
    BY <1>3
  <2>2. z * r \in Nat /\ p * z = z * f + z * r /\ 2 * z * r = 2 * (z * r) /\ z * f \in Nat
    BY <1>1, <2>1
  <2>3. 2 * (z * f - u) = 2 * (p * z - u) - 2 * (z * r)
    BY <2>2
  <2>4. QED
    BY <1>1, <1>3, <2>1, <2>2, <2>3
<1>4. QED
  BY <1>2, <1>3

LEMMA WorthStep ==
    PricingType /\ IntentStands /\ FillIsWorthItsAmount /\ PricingNext => FillIsWorthItsAmount'
<1> SUFFICES ASSUME PricingType, IntentStands, FillIsWorthItsAmount, PricingNext
             PROVE  FillIsWorthItsAmount'
  OBVIOUS
<1>1. CASE UNCHANGED <<pc, usd, size, sizedAt, fill>>
  BY <1>1 DEF FillIsWorthItsAmount, Quantize
<1>2. CASE pc' # "filled"
  BY <1>2 DEF FillIsWorthItsAmount
<1>3. CASE Fill \/ Derive
  <2>1. pc = "filling" /\ UNCHANGED <<usd, size, sizedAt>>
    BY <1>3 DEF Fill, Derive
  <2>2. SUFFICES ASSUME sizedAt # Absent, fill' = Quantize(sizedAt, Cent) * Cent
                 PROVE  LET rounding == IF fill' > sizedAt THEN fill' - sizedAt ELSE sizedAt - fill'
                            slack == sizedAt + 2 * size * rounding
                        IN 2 * (size * fill' - usd) \in -slack..slack
    BY <2>1 DEF FillIsWorthItsAmount, Quantize
  <2>3. usd \in Nat /\ sizedAt \in Nat \ {0} /\ size = Quantize(usd, sizedAt)
    BY <2>2, PricingAssumption DEF IntentStands, SizeFor
  <2>4. fill' \in Nat
    <3>1. Cent \in Nat \ {0} /\ Quantize(sizedAt, Cent) \in Nat
      BY <2>3, QuantizeIsNear, PricingAssumption
    <3>2. \A a, b \in Nat : a * b \in Nat
      OBVIOUS
    <3>3. QED
      BY <2>2, <3>1, <3>2
  <2>5. QED
    BY <2>3, <2>4, WorthOfRounded
<1>4. ASSUME NEW m \in Markets, Write(m) \/ Expire(m) PROVE FillIsWorthItsAmount'
  BY <1>1, <1>4 DEF Write, Expire
<1>5. CASE Miss \/ Size \/ PriceUnavailable \/ CheckRisk
  BY <1>1, <1>2, <1>5 DEF Miss, Size, PriceUnavailable, CheckRisk
<1>6. ASSUME NEW m \in Markets, NEW u \in Amounts \cup {Absent}, NEW s \in Sizes \cup {Absent},
             Request(m, u, s)
      PROVE  FillIsWorthItsAmount'
  BY <1>2, <1>6 DEF Request
<1>7. QED
  BY <1>3, <1>4, <1>5, <1>6 DEF PricingNext, Trade

\* request_paper_trade and PaperExecutionAdapter: for any prices, amounts, step of
\* rounding and writes in between, a price that is shown throughout a look is
\* found, and a trade sized by amount is worth it but for the rounding.
THEOREM PricingInvariant == PricingSpec => []PricingInv
<1>1. PricingInv /\ [PricingNext]_pricingVars => PricingInv'
  <2> SUFFICES ASSUME PricingInv, [PricingNext]_pricingVars PROVE PricingInv'
    OBVIOUS
  <2>1. CASE PricingNext
    BY <2>1, PricingTypeStep, IntentStep, ShownStep, VisibleStep, WorthStep DEF PricingInv
  <2>2. CASE UNCHANGED pricingVars
    <3>1. PricingType'
      <4>1. (visible \in BOOLEAN)'
        BY <2>2, Zenon DEF PricingInv, PricingType, pricingVars
      <4>2. QED
        BY <2>2, <4>1 DEF PricingInv, PricingType, pricingVars, keys
    <3>2. VisibleIsReached' /\ ShownIsAhead'
      BY <2>2 DEF PricingInv, VisibleIsReached, ShownIsAhead, LastPrice, pricingVars, keys
    <3>3. FillIsWorthItsAmount' /\ IntentStands'
      BY <2>2 DEF PricingInv, FillIsWorthItsAmount, IntentStands, SizeFor, Quantize, pricingVars
    <3>4. QED
      BY <3>1, <3>2, <3>3 DEF PricingInv
  <2>3. QED
    BY <2>1, <2>2
<1>2. QED
  BY <1>1, PricingInitInv, PTL DEF PricingSpec

-----------------------------------------------------------------------------
\* EvaluationRecords.

\* A table of rows, and with one row more.
LEMMA Listed == ASSUME NEW S, NEW t \in Seq(S) PROVE ToSet(t) \subseteq S
BY DEF ToSet

LEMMA Appended ==
  ASSUME NEW S, NEW t \in Seq(S), NEW r
  PROVE  /\ ToSet(Append(t, r)) = ToSet(t) \cup {r}
         /\ DOMAIN t = 1..Len(t) /\ Len(t) \in Nat
         /\ Len(Append(t, r)) = Len(t) + 1 /\ DOMAIN Append(t, r) = 1..(Len(t) + 1)
         /\ \A i \in 1..Len(t) : Append(t, r)[i] = t[i]
         /\ Append(t, r)[Len(t) + 1] = r
         /\ r \in S => Append(t, r) \in Seq(S)
<1>1. /\ DOMAIN t = 1..Len(t) /\ Len(t) \in Nat
      /\ Len(Append(t, r)) = Len(t) + 1 /\ DOMAIN Append(t, r) = 1..(Len(t) + 1)
      /\ \A i \in 1..Len(t) : Append(t, r)[i] = t[i]
      /\ Append(t, r)[Len(t) + 1] = r
      /\ r \in S => Append(t, r) \in Seq(S)
  OBVIOUS
<1>2. ToSet(Append(t, r)) = {Append(t, r)[i] : i \in 1..(Len(t) + 1)} /\ ToSet(t) = {t[i] : i \in 1..Len(t)}
  BY <1>1 DEF ToSet
<1>3. QED
  BY <1>1, <1>2

LEMMA RowsOfTables ==
  ASSUME RecordType
  PROVE  /\ ToSet(evaluations) \subseteq TableRows /\ ToSet(actions) \subseteq TableRows
         /\ ToSet(intents) \subseteq 1..MaxEvals
<1>1. evaluations \in Seq(TableRows) /\ actions \in Seq(TableRows) /\ intents \in Seq(1..MaxEvals)
  BY DEF RecordType
<1>2. QED
  BY <1>1, Listed

\* Later rows may be dated later.
LEMMA TableGrows ==
  ASSUME ms \in Nat \ {0}, ms' \in Nat \ {0}, ms <= ms'
  PROVE  TableRows \subseteq TableRows' /\ Seq(TableRows) \subseteq Seq(TableRows')
<1>1. TableRows \subseteq TableRows'
  BY DEF TableRows
<1>2. QED
  BY <1>1

LEMMA RecordInitInv == RecordInit => RecordsInv
<1> SUFFICES ASSUME RecordInit PROVE RecordsInv
  OBVIOUS
<1> USE EvaluationAssumption DEF RecordInit
<1>1. emits \in BOOLEAN
  BY Zenon
<1>2. RecordType
  BY <1>1 DEF RecordType, NoRow
<1>3. ToSet(intents) = {} /\ ToSet(evaluations) = {} /\ ToSet(actions) = {}
  BY DEF ToSet
<1>4. Gaps = {} /\ Accounted = Gaps
  BY <1>3 DEF Gaps, Accounted
<1>5. FailuresAccount /\ EveryGapIsAFailure
  BY <1>4, FS_EmptySet DEF FailuresAccount, EveryGapIsAFailure
<1>6. AuditedWasPublished /\ AnswerHangsTogether /\ RowsAreInOrder
  BY <1>3 DEF AuditedWasPublished, AnswerHangsTogether, RowsAreInOrder, NoRow
<1>7. QED
  BY <1>2, <1>5, <1>6 DEF RecordsInv

\* What a query may answer is a row of its table, or none.
LEMMA NewestType ==
  ASSUME NEW rows, NEW r \in Newest(rows)
  PROVE  r \in rows \cup {NoRow} /\ (rows # {} => r \in rows /\ \A q \in rows : q.at <= r.at)
BY DEF Newest

LEMMA FlagsStep == RecordType /\ RecordNext => emits' \in BOOLEAN
<1> SUFFICES ASSUME RecordType, RecordNext PROVE emits' \in BOOLEAN
  OBVIOUS
<1>1. emits \in BOOLEAN
  BY DEF RecordType
<1>2. CASE ReloadState
  BY <1>2, Zenon DEF ReloadState
<1>3. CASE UNCHANGED emits
  BY <1>1, <1>3, Zenon
<1>4. QED
  BY <1>2, <1>3, Zenon DEF RecordNext, EvaluateNext, SaveEvaluation, PublishIntent, SaveAction, EndProcess,
     Millisecond, Ask, ReadStatus

\* A status whose parts are rows.
StatusType ==
    status \in [query : {"none", "evaluation", "action", "emission"},
                last : TableRows \cup {NoRow}, action : TableRows \cup {NoRow},
                emission : TableRows \cup {NoRow}, asked : 0..MaxAsked]

LEMMA StatusStep ==
  ASSUME RecordType, Ask \/ ReadStatus
  PROVE  StatusType' /\ UNCHANGED <<emits, hand, writing, tables, ms, writeFaults>>
<1>1. UNCHANGED <<emits, hand, writing, tables, ms, writeFaults>>
  BY Zenon DEF Ask, ReadStatus
<1>2. TableRows' = TableRows
  BY <1>1 DEF TableRows
<1>3. CASE Ask
  BY <1>1, <1>2, <1>3, EvaluationAssumption DEF Ask, RecordType, StatusType
<1>4. CASE ReadStatus
  <2>1. PICK r \in TableRows \cup {NoRow} :
          \/ status' = [status EXCEPT !.last = r, !.query = "action"]
          \/ status' = [status EXCEPT !.action = r, !.query = "emission"]
          \/ status' = [status EXCEPT !.emission = r, !.query = "none"]
    <3>1. \A rows : rows \subseteq TableRows => Newest(rows) \subseteq TableRows \cup {NoRow}
      BY NewestType
    <3>2. {e \in ToSet(evaluations) : e.intent} \subseteq TableRows
      BY RowsOfTables
    <3>3. QED
      BY <1>4, <3>1, <3>2, RowsOfTables DEF ReadStatus
  <2>2. QED
    BY <1>1, <1>2, <2>1 DEF RecordType, StatusType
<1>5. QED
  BY <1>1, <1>3, <1>4

LEMMA FaultsStep ==
  ASSUME RecordType, WriteFault \/ UNCHANGED writeFaults
  PROVE  writeFaults' \in 0..MaxWriteFaults
BY EvaluationAssumption DEF RecordType, WriteFault

LEMMA RecordTypeStep == RecordType /\ RecordNext => RecordType'
<1> SUFFICES ASSUME RecordType, RecordNext PROVE RecordType'
  OBVIOUS
<1>0. emits' \in BOOLEAN
  BY FlagsStep
<1> USE EvaluationAssumption
<1>1. CASE ReloadState
  <2>1. UNCHANGED <<hand, writing, tables, statusVars, writeFaults>> /\ writing = "idle"
    BY <1>1 DEF ReloadState
  <2>2. TableRows' = TableRows
    BY <2>1 DEF TableRows, statusVars
  <2>3. QED
    BY <1>0, <2>1, <2>2 DEF RecordType, tables, statusVars
<1>2. CASE EvaluateNext
  <2>1. /\ UNCHANGED <<emits, tables, statusVars, writeFaults>> /\ writing' = "save"
        /\ hand' \in [n : 1..MaxEvals, intent : BOOLEAN]
    BY <1>2 DEF EvaluateNext, RecordType
  <2>2. TableRows' = TableRows
    BY <2>1 DEF TableRows, statusVars
  <2>3. QED
    BY <1>0, <2>1, <2>2 DEF RecordType, tables, statusVars
<1>3. CASE SaveEvaluation
  <2>1. /\ UNCHANGED <<emits, hand, intents, actions, statusVars>> /\ writing = "save"
        /\ writing' \in {"idle", "publish"} /\ (writing' = "publish" => emits /\ hand.intent)
    BY <1>3 DEF SaveEvaluation, AfterSave
  <2>2. TableRows' = TableRows
    BY <2>1 DEF TableRows, statusVars
  <2>3. Row(hand.n, hand.intent) \in TableRows
    BY <2>1 DEF Row, TableRows, RecordType
  <2>4. evaluations' \in Seq(TableRows) /\ writeFaults' \in 0..MaxWriteFaults
    <3>1. evaluations \in Seq(TableRows) /\ Append(evaluations, Row(hand.n, hand.intent)) \in Seq(TableRows)
      BY <2>3, Appended DEF RecordType
    <3>2. WriteFault \/ UNCHANGED writeFaults
      BY <1>3, Zenon DEF SaveEvaluation
    <3>3. QED
      BY <1>3, <3>1, <3>2, FaultsStep DEF SaveEvaluation
  <2>5. QED
    BY <1>0, <2>1, <2>2, <2>4 DEF RecordType, statusVars
<1>4. CASE PublishIntent
  <2>1. /\ UNCHANGED <<emits, hand, evaluations, actions, statusVars>> /\ writing = "publish"
        /\ writing' \in {"idle", "audit"}
    BY <1>4 DEF PublishIntent, OnPublishError
  <2>2. TableRows' = TableRows
    BY <2>1 DEF TableRows, statusVars
  <2>3. hand.n \in 1..MaxEvals
    BY <2>1 DEF RecordType
  <2>4. intents' \in Seq(1..MaxEvals) /\ writeFaults' \in 0..MaxWriteFaults
    <3>1. intents \in Seq(1..MaxEvals) /\ Append(intents, hand.n) \in Seq(1..MaxEvals)
      BY <2>3, Appended DEF RecordType
    <3>2. WriteFault \/ UNCHANGED writeFaults
      BY <1>4, Zenon DEF PublishIntent
    <3>3. QED
      BY <1>4, <3>1, <3>2, FaultsStep DEF PublishIntent
  <2>5. QED
    BY <1>0, <2>1, <2>2, <2>4 DEF RecordType, statusVars
<1>5. CASE SaveAction
  <2>1. /\ UNCHANGED <<emits, hand, evaluations, intents, statusVars>> /\ writing = "audit"
        /\ writing' = "idle"
    BY <1>5 DEF SaveAction
  <2>2. TableRows' = TableRows
    BY <2>1 DEF TableRows, statusVars
  <2>3. Row(hand.n, TRUE) \in TableRows
    BY <2>1 DEF Row, TableRows, RecordType
  <2>4. actions' \in Seq(TableRows) /\ writeFaults' \in 0..MaxWriteFaults
    <3>1. actions \in Seq(TableRows) /\ Append(actions, Row(hand.n, TRUE)) \in Seq(TableRows)
      BY <2>3, Appended DEF RecordType
    <3>2. WriteFault \/ UNCHANGED writeFaults
      BY <1>5, Zenon DEF SaveAction
    <3>3. QED
      BY <1>5, <3>1, <3>2, FaultsStep DEF SaveAction, WithAudit
  <2>5. QED
    BY <1>0, <2>1, <2>2, <2>4 DEF RecordType, statusVars
<1>6. CASE EndProcess
  <2>1. /\ UNCHANGED <<emits, hand, tables, statusVars>> /\ writing' = "idle"
        /\ writeFaults' \in 0..MaxWriteFaults
    BY <1>6 DEF EndProcess, WriteFault, RecordType
  <2>2. TableRows' = TableRows
    BY <2>1 DEF TableRows, statusVars
  <2>3. QED
    BY <1>0, <2>1, <2>2 DEF RecordType, tables, statusVars
<1>7. CASE Millisecond
  <2>1. UNCHANGED <<emits, hand, writing, tables, status, writeFaults>> /\ ms' = ms + 1
    BY <1>7 DEF Millisecond
  <2>2. ms' \in Nat \ {0} /\ TableRows \subseteq TableRows' /\ Seq(TableRows) \subseteq Seq(TableRows')
    BY <2>1, TableGrows DEF RecordType
  <2>3. QED
    BY <1>0, <2>1, <2>2 DEF RecordType, tables
<1>8. CASE Ask \/ ReadStatus
  <2>1. StatusType' /\ UNCHANGED <<emits, hand, writing, tables, ms, writeFaults>>
    BY <1>8, StatusStep
  <2>2. TableRows' = TableRows
    BY <2>1 DEF TableRows
  <2>3. QED
    BY <1>0, <2>1, <2>2 DEF RecordType, StatusType, tables
<1>9. QED
  BY <1>1, <1>2, <1>3, <1>4, <1>5, <1>6, <1>7, <1>8 DEF RecordNext

\* What each step adds to the tables.
LEMMA TablesStep ==
  ASSUME RecordType, RecordNext
  PROVE  /\ evaluations' # evaluations =>
              /\ SaveEvaluation /\ evaluations' = Append(evaluations, Row(hand.n, hand.intent))
              /\ ToSet(evaluations') = ToSet(evaluations) \cup {Row(hand.n, hand.intent)}
         /\ intents' # intents =>
              /\ PublishIntent
              /\ ToSet(intents') = ToSet(intents) \cup {hand.n}
         /\ actions' # actions =>
              /\ SaveAction /\ actions' = Append(actions, Row(hand.n, TRUE))
              /\ ToSet(actions') = ToSet(actions) \cup {Row(hand.n, TRUE)}
<1>1. /\ evaluations \in Seq(TableRows) /\ actions \in Seq(TableRows) /\ intents \in Seq(1..MaxEvals)
  BY DEF RecordType
<1>2. ASSUME evaluations' # evaluations
      PROVE  SaveEvaluation /\ evaluations' = Append(evaluations, Row(hand.n, hand.intent))
  BY <1>2 DEF RecordNext, ReloadState, EvaluateNext, SaveEvaluation, PublishIntent, SaveAction,
     EndProcess, Millisecond, Ask, ReadStatus, tables
<1>3. ASSUME intents' # intents PROVE PublishIntent /\ intents' = Append(intents, hand.n)
  <2>1. PublishIntent
    BY <1>3 DEF RecordNext, ReloadState, EvaluateNext, SaveEvaluation, PublishIntent, SaveAction,
     EndProcess, Millisecond, Ask, ReadStatus, tables
  <2>2. QED
    BY <1>3, <2>1 DEF PublishIntent
<1>4. ASSUME actions' # actions PROVE SaveAction /\ actions' = Append(actions, Row(hand.n, TRUE))
  BY <1>4 DEF RecordNext, ReloadState, EvaluateNext, SaveEvaluation, PublishIntent, SaveAction,
     EndProcess, Millisecond, Ask, ReadStatus, tables, WithAudit
<1>5. /\ ToSet(Append(evaluations, Row(hand.n, hand.intent)))
           = ToSet(evaluations) \cup {Row(hand.n, hand.intent)}
      /\ ToSet(Append(intents, hand.n)) = ToSet(intents) \cup {hand.n}
      /\ ToSet(Append(actions, Row(hand.n, TRUE))) = ToSet(actions) \cup {Row(hand.n, TRUE)}
  <2>1. \A r : ToSet(Append(evaluations, r)) = ToSet(evaluations) \cup {r}
    BY <1>1, Appended
  <2>2. \A r : ToSet(Append(actions, r)) = ToSet(actions) \cup {r}
    BY <1>1, Appended
  <2>3. ToSet(Append(intents, hand.n)) = ToSet(intents) \cup {hand.n}
    BY <1>1, Appended
  <2>4. QED
    BY <2>1, <2>2, <2>3, Zenon
<1>6. QED
  BY <1>2, <1>3, <1>4, <1>5

LEMMA NoRowSilent == ~NoRow.intent
BY DEF NoRow

\* The row of an evaluation, or of its action.
LEMMA RowFields ==
  ASSUME NEW n, NEW told
  PROVE  Row(n, told).n = n /\ Row(n, told).intent = told /\ Row(n, told).at = ms
BY DEF Row

\* Where an evaluation comes next.
LEMMA WritingStep ==
  ASSUME RecordType, RecordNext
  PROVE  /\ SaveEvaluation => /\ writing = "save" /\ writing' \in {"publish", "idle"} /\ hand' = hand
                              /\ writing' = "publish" => hand.intent
                              /\ UNCHANGED <<intents, actions, status, ms>>
         /\ PublishIntent => /\ writing = "publish" /\ writing' \in {"audit", "idle"} /\ hand' = hand
                             /\ UNCHANGED <<evaluations, actions, status, ms>>
         /\ SaveAction => /\ writing = "audit" /\ writing' = "idle" /\ hand' = hand
                          /\ UNCHANGED <<evaluations, intents, status, ms>>
         /\ ~(SaveEvaluation \/ PublishIntent \/ SaveAction) =>
              /\ UNCHANGED tables
              /\ \/ UNCHANGED hand /\ writing' \in {writing, "idle"}
                 \/ EvaluateNext
         /\ EvaluateNext => /\ writing = "idle" /\ writing' = "save" /\ hand'.n = hand.n + 1
                            /\ UNCHANGED <<evaluations, intents, actions, status, ms>>
<1>1. SaveEvaluation => /\ writing = "save" /\ writing' \in {"publish", "idle"} /\ hand' = hand
                        /\ writing' = "publish" => hand.intent
                        /\ UNCHANGED <<intents, actions, status, ms>>
  BY DEF SaveEvaluation, AfterSave, statusVars
<1>2. PublishIntent => /\ writing = "publish" /\ writing' \in {"audit", "idle"} /\ hand' = hand
                       /\ UNCHANGED <<evaluations, actions, status, ms>>
  BY DEF PublishIntent, OnPublishError, statusVars
<1>3. SaveAction => /\ writing = "audit" /\ writing' = "idle" /\ hand' = hand
                    /\ UNCHANGED <<evaluations, intents, status, ms>>
  BY DEF SaveAction, statusVars
<1>4. EvaluateNext => /\ writing = "idle" /\ writing' = "save" /\ hand'.n = hand.n + 1
                      /\ UNCHANGED <<evaluations, intents, actions, status, ms>>
  BY DEF EvaluateNext, statusVars, tables
<1>5. ~(SaveEvaluation \/ PublishIntent \/ SaveAction \/ EvaluateNext) =>
         UNCHANGED tables /\ UNCHANGED hand /\ writing' \in {writing, "idle"}
  BY DEF RecordNext, ReloadState, EndProcess, Millisecond, Ask, ReadStatus
<1>6. EvaluateNext => UNCHANGED tables
  BY DEF EvaluateNext
<1>7. QED
  BY <1>1, <1>2, <1>3, <1>4, <1>5, <1>6

LEMMA AuditedStep ==
    RecordType /\ AuditedWasPublished /\ RowsAreInOrder /\ RecordNext => AuditedWasPublished'
<1> SUFFICES ASSUME RecordType, AuditedWasPublished, RowsAreInOrder, RecordNext
             PROVE  AuditedWasPublished'
  OBVIOUS
<1>1. ToSet(intents) \subseteq ToSet(intents')
  BY TablesStep, Zenon
<1>2. CASE actions' = actions
  BY <1>1, <1>2 DEF AuditedWasPublished
<1>3. CASE actions' # actions
  <2>1. /\ SaveAction /\ actions' = Append(actions, Row(hand.n, TRUE))
        /\ ToSet(actions') = ToSet(actions) \cup {Row(hand.n, TRUE)}
    BY <1>3, TablesStep, Zenon
  <2> DEFINE row == Row(hand.n, TRUE)
  <2>2. row.n = hand.n
    BY RowFields
  <2>3. writing = "audit"
    BY <2>1 DEF SaveAction
  <2>4. (\A a \in ToSet(actions) : a.n < hand.n) /\ hand.n \in ToSet(intents)
    BY <2>3 DEF RowsAreInOrder
  <2>5. (\A a \in ToSet(actions) : a.n \in ToSet(intents))'
    BY <1>1, <2>1, <2>2, <2>4 DEF AuditedWasPublished
  <2>6. /\ actions \in Seq(TableRows) /\ actions' = Append(actions, row)
    BY <2>1, Zenon DEF RecordType
  <2> HIDE DEF row
  <2>7. /\ DOMAIN actions = 1..Len(actions) /\ Len(actions) \in Nat
        /\ DOMAIN actions' = 1..(Len(actions) + 1)
        /\ \A i \in 1..Len(actions) : actions'[i] = actions[i]
        /\ actions'[Len(actions) + 1] = row
    BY <2>6, Appended
  <2>8. \A i \in 1..Len(actions) : actions[i].n < hand.n
    BY <2>4, <2>7 DEF ToSet
  <2>9. (\A i, j \in DOMAIN actions : i < j => actions[i].n < actions[j].n)'
    <3> SUFFICES ASSUME NEW i \in 1..(Len(actions) + 1), NEW j \in 1..(Len(actions) + 1), i < j
                 PROVE  actions'[i].n < actions'[j].n
      BY <2>7
    <3>1. i \in 1..Len(actions) /\ actions'[i] = actions[i] /\ i \in DOMAIN actions
      BY <2>7
    <3>2. CASE j = Len(actions) + 1
      BY <2>2, <2>7, <2>8, <3>1, <3>2
    <3>3. CASE j \in 1..Len(actions)
      BY <2>7, <3>1, <3>3 DEF AuditedWasPublished
    <3>4. QED
      BY <2>7, <3>2, <3>3
  <2>10. QED
    BY <2>5, <2>9 DEF AuditedWasPublished
<1>4. QED
  BY <1>2, <1>3

LEMMA OrderedRowsStep ==
    RecordType /\ RowsAreInOrder /\ RecordNext => RowsAreInOrder'
<1> SUFFICES ASSUME RecordType, RowsAreInOrder, RecordNext PROVE RowsAreInOrder'
  OBVIOUS
<1> DEFINE erow == Row(hand.n, hand.intent)
<1> DEFINE arow == Row(hand.n, TRUE)
<1>1. erow.n = hand.n /\ erow.intent = hand.intent /\ arow.n = hand.n
  <2>1. erow.n = hand.n
    BY RowFields
  <2>2. erow.intent = hand.intent
    BY RowFields
  <2>3. arow.n = hand.n
    BY RowFields
  <2>4. QED
    BY <2>1, <2>2, <2>3
<1>2. /\ hand.n \in Nat /\ hand'.n \in Nat
      /\ \A e \in ToSet(evaluations) : e.n \in Nat /\ e.n > 0
      /\ \A a \in ToSet(actions) : a.n \in Nat /\ a.n > 0
  <2>1. RecordType'
    BY RecordTypeStep
  <2>2. hand.n \in Nat /\ hand'.n \in Nat
    BY <2>1, EvaluationAssumption DEF RecordType
  <2>3. \A r \in TableRows : r.n \in Nat /\ r.n > 0
    BY EvaluationAssumption DEF TableRows
  <2>4. QED
    BY <2>2, <2>3, RowsOfTables
<1>3. /\ evaluations' # evaluations => SaveEvaluation /\ ToSet(evaluations') = ToSet(evaluations) \cup {erow}
      /\ actions' # actions => SaveAction /\ ToSet(actions') = ToSet(actions) \cup {arow}
      /\ intents' # intents => PublishIntent /\ ToSet(intents') = ToSet(intents) \cup {hand.n}
  BY TablesStep, Zenon
<1> HIDE DEF erow, arow
<1>4. status'.last \in ToSet(evaluations') \cup {NoRow} /\ status'.action \in ToSet(actions') \cup {NoRow}
  <2>1. CASE UNCHANGED status
    BY <1>3, <2>1 DEF RowsAreInOrder
  <2>2. CASE Ask
    BY <2>2 DEF Ask, RecordType
  <2>3. CASE ReadStatus
    <3>1. UNCHANGED <<evaluations, actions>>
      BY <2>3 DEF ReadStatus, tables
    <3>2. PICK r :
          \/ r \in ToSet(evaluations) \cup {NoRow} /\ status' = [status EXCEPT !.last = r, !.query = "action"]
          \/ r \in ToSet(actions) \cup {NoRow} /\ status' = [status EXCEPT !.action = r, !.query = "emission"]
          \/ status' = [status EXCEPT !.emission = r, !.query = "none"]
      BY <2>3, NewestType DEF ReadStatus
    <3>3. QED
      BY <3>1, <3>2 DEF RecordType, RowsAreInOrder
  <2>4. QED
    BY <2>1, <2>2, <2>3 DEF RecordNext, ReloadState, EvaluateNext, SaveEvaluation, PublishIntent,
       SaveAction, EndProcess, Millisecond, statusVars
<1>5. \A a \in ToSet(actions') : IF writing' = "idle" THEN a.n <= hand'.n ELSE a.n < hand'.n
  BY <1>1, <1>2, <1>3, WritingStep DEF RowsAreInOrder, tables
<1>6. writing' = "audit" => hand'.n \in ToSet(intents')
  <2>1. CASE PublishIntent
    <3>1. writing' = "audit" => intents' = Append(intents, hand.n)
      BY <2>1 DEF PublishIntent, OnPublishError
    <3>2. intents \in Seq(1..MaxEvals)
      BY DEF RecordType
    <3>3. ToSet(Append(intents, hand.n)) = ToSet(intents) \cup {hand.n}
      BY <3>2, Appended
    <3>4. QED
      BY <2>1, <3>1, <3>3, WritingStep
  <2>2. CASE ~PublishIntent
    BY <1>3, <2>2, WritingStep DEF RowsAreInOrder, tables
  <2>3. QED
    BY <2>1, <2>2
<1>7. \A e \in ToSet(evaluations') : IF writing' = "save" THEN e.n < hand'.n ELSE e.n <= hand'.n
  BY <1>1, <1>2, <1>3, WritingStep DEF RowsAreInOrder, tables
<1>8. \A e \in ToSet(evaluations') :
        (writing' \in {"publish", "audit"} /\ e.n = hand'.n) \/ HasAction(e.n)' => e.intent
  <2>1. SUFFICES ASSUME NEW e \in ToSet(evaluations'),
                        (writing' \in {"publish", "audit"} /\ e.n = hand'.n) \/ HasAction(e.n)'
                 PROVE  e.intent
    OBVIOUS
  <2>2. HasAction(e.n)' => HasAction(e.n) \/ (SaveAction /\ e.n = hand.n)
    BY <1>1, <1>3 DEF HasAction
  <2>3. CASE e \in ToSet(evaluations)
    <3>1. writing' \in {"publish", "audit"} => hand' = hand /\ (writing' = writing \/ SaveEvaluation \/ PublishIntent)
      BY WritingStep
    <3>2. SaveEvaluation => e.n < hand.n
      BY <2>3, WritingStep DEF RowsAreInOrder
    <3>3. PublishIntent \/ SaveAction => writing \in {"publish", "audit"}
      BY WritingStep
    <3>4. HasAction(e.n) \/ (writing \in {"publish", "audit"} /\ e.n = hand.n)
      BY <1>2, <2>1, <2>2, <2>3, <3>1, <3>2, <3>3
    <3>5. QED
      BY <2>3, <3>4 DEF RowsAreInOrder
  <2>4. CASE e \notin ToSet(evaluations)
    <3>1. SaveEvaluation /\ e = erow
      BY <1>3, <2>1, <2>4
    <3>2. actions' = actions /\ writing = "save" /\ (writing' = "publish" => hand.intent) /\ writing' \in {"publish", "idle"}
      BY <3>1, WritingStep
    <3>3. ~HasAction(e.n)'
      BY <1>1, <1>2, <3>1, <3>2 DEF HasAction, RowsAreInOrder
    <3>4. writing' = "publish"
      BY <2>1, <3>2, <3>3
    <3>5. QED
      BY <1>1, <3>1, <3>2, <3>4, Zenon
  <2>5. QED
    BY <2>3, <2>4
<1>9. QED
  BY <1>4, <1>5, <1>6, <1>7, <1>8 DEF RowsAreInOrder

LEMMA AnswerStep ==
    RecordType /\ RowsAreInOrder /\ AnswerHangsTogether /\ RecordNext => AnswerHangsTogether'
<1> SUFFICES ASSUME RecordType, RowsAreInOrder, AnswerHangsTogether, RecordNext, status'.query = "none"
             PROVE  /\ status'.last.intent => status'.emission.at >= status'.last.at
                    /\ \A e \in ToSet(evaluations') : e.n = status'.action.n => status'.emission.at >= e.at
  BY DEF AnswerHangsTogether
<1>1. CASE UNCHANGED <<status, evaluations>>
  BY <1>1 DEF AnswerHangsTogether
<1>2. CASE evaluations' # evaluations
  <2> DEFINE row == Row(hand.n, hand.intent)
  <2>1. SaveEvaluation /\ ToSet(evaluations') = ToSet(evaluations) \cup {row}
    BY <1>2, TablesStep, Zenon
  <2>2. row.n = hand.n
    BY RowFields
  <2> HIDE DEF row
  <2>3. status' = status /\ writing = "save"
    BY <2>1, WritingStep
  <2>4. hand.n \in Nat /\ hand.n > 0
    BY <2>3 DEF RecordType
  <2>5. status.action \in ToSet(actions) => status.action.n < hand.n
    BY <2>3 DEF RowsAreInOrder
  <2>6. status.action.n # hand.n
    <3>1. status.action \in TableRows => status.action.n \in Nat
      BY DEF TableRows
    <3>2. status.action \in ToSet(actions) \/ status.action = NoRow
      BY DEF RowsAreInOrder
    <3>3. CASE status.action \in ToSet(actions)
      BY <2>4, <2>5, <3>1, <3>3, RowsOfTables
    <3>4. CASE status.action = NoRow
      BY <2>4, <3>4 DEF NoRow
    <3>5. QED
      BY <3>2, <3>3, <3>4
  <2>7. QED
    BY <2>1, <2>2, <2>3, <2>6 DEF AnswerHangsTogether
<1>3. CASE evaluations' = evaluations /\ status' # status
  <2>1. Ask \/ ReadStatus
    BY <1>3 DEF RecordNext, ReloadState, EvaluateNext, SaveEvaluation, PublishIntent,
       SaveAction, EndProcess, Millisecond, statusVars
  <2>2. ~Ask
    BY DEF Ask, RecordType
  <2> DEFINE withIntent == {e \in ToSet(evaluations) : e.intent}
  <2>3. PICK r \in Newest(withIntent) : status' = [status EXCEPT !.emission = r, !.query = "none"]
    BY <2>1, <2>2 DEF ReadStatus, RecordType
  <2>4. status'.last = status.last /\ status'.action = status.action /\ status'.emission = r
    BY <2>3 DEF RecordType
  <2>5. \A e \in withIntent : e.at <= r.at /\ r \in withIntent
    BY <2>3, NewestType
  <2>6. \A e \in withIntent : e.at \in Nat
    BY RowsOfTables DEF TableRows
  <2>7. status.last.intent => r.at >= status.last.at
    <3>1. status.last.intent => status.last # NoRow
      BY Zenon, NoRowSilent
    <3>2. status.last.intent => status.last \in withIntent
      BY <3>1 DEF RowsAreInOrder
    <3>3. QED
      BY <2>5, <2>6, <3>2
  <2>8. ASSUME NEW e \in ToSet(evaluations), e.n = status.action.n PROVE r.at >= e.at
    <3>1. e.n # 0
      BY RowsOfTables DEF TableRows
    <3>2. status.action \in ToSet(actions)
      BY <2>8, <3>1 DEF RowsAreInOrder, NoRow
    <3>3. e.intent
      BY <2>8, <3>2 DEF RowsAreInOrder, HasAction
    <3>4. QED
      BY <2>5, <2>6, <3>3
  <2>9. QED
    BY <1>3, <2>4, <2>7, <2>8
<1>4. QED
  BY <1>1, <1>2, <1>3

\* The gaps, one at a time.
LEMMA GapOf ==
  ASSUME NEW g \in Accounted
  PROVE  \/ g = <<hand.n, "evaluation">>
         \/ \E n \in ToSet(intents) : g \in {<<n, "evaluation">>, <<n, "action">>}
BY DEF Gaps, Accounted

LEMMA AccountedFinite == ASSUME RecordType PROVE IsFiniteSet(Accounted)
<1>1. Accounted \subseteq (0..MaxEvals) \X {"evaluation", "action"}
  <2>1. ToSet(intents) \subseteq 0..MaxEvals /\ hand.n \in 0..MaxEvals
    BY RowsOfTables, EvaluationAssumption DEF RecordType
  <2>2. QED
    BY <2>1, GapOf
<1>2. IsFiniteSet(0..MaxEvals) /\ IsFiniteSet({"evaluation", "action"})
  <2>1. IsFiniteSet(0..MaxEvals)
    BY FS_Interval, EvaluationAssumption
  <2>2. IsFiniteSet({"evaluation"} \cup {"action"})
    BY FS_Singleton, FS_AddElement
  <2>3. {"evaluation"} \cup {"action"} = {"evaluation", "action"}
    OBVIOUS
  <2>4. QED
    BY <2>1, <2>2, <2>3
<1>3. IsFiniteSet((0..MaxEvals) \X {"evaluation", "action"})
  BY <1>2, FS_Product
<1>4. QED
  BY <1>1, <1>3, FS_Subset

\* No step takes a record or an intent back.
LEMMA TablesGrow ==
  ASSUME RecordType, RecordNext
  PROVE  /\ \A n : HasEval(n) => HasEval(n)'
         /\ \A n : HasAction(n) => HasAction(n)'
         /\ ToSet(intents') \subseteq ToSet(intents) \cup {hand.n}
         /\ ~PublishIntent => intents' = intents
<1>1. ToSet(evaluations) \subseteq ToSet(evaluations') /\ ToSet(actions) \subseteq ToSet(actions')
  BY TablesStep, Zenon
<1>2. ToSet(intents') \subseteq ToSet(intents) \cup {hand.n} /\ (~PublishIntent => intents' = intents)
  BY TablesStep
<1>3. (\A n : HasEval(n) => HasEval(n)') /\ \A n : HasAction(n) => HasAction(n)'
  BY <1>1 DEF HasEval, HasAction
<1>4. QED
  BY <1>2, <1>3

\* A step adds nothing to what is accounted for, or one record and one failure.
LEMMA OneEachTime ==
  ASSUME RecordType, RecordNext
  PROVE  \/ Accounted' \subseteq Accounted /\ writeFaults' \in {writeFaults, writeFaults + 1}
         \/ \E g : Accounted' \subseteq Accounted \cup {g} /\ writeFaults' = writeFaults + 1
<1> DEFINE ev == <<hand.n, "evaluation">>
<1> DEFINE ac == <<hand.n, "action">>
<1>1. CASE UNCHANGED <<tables, hand, writing, writeFaults>>
  <2>1. Gaps' = Gaps /\ HasEval(hand.n)' = HasEval(hand.n)
    BY <1>1 DEF Gaps, HasEval, HasAction, tables
  <2>2. QED
    BY <1>1, <2>1 DEF Accounted, HasEval, tables
<1>2. CASE EvaluateNext
  <2>1. UNCHANGED <<evaluations, intents, actions, writeFaults>> /\ writing = "idle" /\ writing' = "save"
    BY <1>2 DEF EvaluateNext, tables
  <2>2. QED
    BY <2>1 DEF Accounted, Gaps, HasEval, HasAction
<1>3. CASE EndProcess
  <2>1. /\ UNCHANGED <<evaluations, intents, actions>> /\ writing' = "idle"
        /\ writeFaults' = writeFaults + 1
    BY <1>3 DEF EndProcess, WriteFault, tables
  <2>2. Accounted' = Gaps
    BY <2>1 DEF Accounted, Gaps, HasEval, HasAction
  <2>3. Gaps \subseteq Accounted \cup {ac}
    BY DEF Accounted
  <2>4. QED
    BY <2>1, <2>2, <2>3
<1>4. CASE SaveEvaluation
  <2>1. /\ writing = "save" /\ writing' \in {"publish", "idle"} /\ hand' = hand
        /\ writing' = "publish" => hand.intent
        /\ UNCHANGED <<intents, actions>>
    BY <1>4, WritingStep
  <2>2. Accounted = Gaps
    BY <2>1 DEF Accounted
  <2>3. Gaps' \subseteq Gaps
    BY <2>1, TablesGrow DEF Gaps
  <2>4. CASE UNCHANGED writeFaults
    <3> DEFINE row == Row(hand.n, hand.intent)
    <3>1. row \in ToSet(evaluations')
      <4>1. evaluations' = Append(evaluations, row) /\ evaluations \in Seq(TableRows)
        BY <1>4, <2>4 DEF SaveEvaluation, WriteFault, RecordType
      <4> HIDE DEF row
      <4>2. QED
        BY <4>1, Appended
    <3>2. row.n = hand.n
      BY RowFields
    <3>3. row.intent = hand.intent
      BY RowFields
    <3>4. writing' = "publish" => row.intent
      BY <2>1, <3>3, Zenon
    <3> HIDE DEF row
    <3>5. writing' = "publish" => HasEval(hand.n)'
      BY <2>1, <3>1, <3>2, <3>4 DEF HasEval
    <3>6. Accounted' = Gaps'
      BY <2>1, <3>5 DEF Accounted
    <3>7. QED
      BY <2>2, <2>3, <2>4, <3>6
  <2>5. CASE WriteFault
    <3>1. Accounted' \subseteq Gaps' \cup {ev}
      BY <2>1 DEF Accounted
    <3>2. QED
      BY <2>2, <2>3, <2>5, <3>1 DEF WriteFault
  <2>6. QED
    BY <1>4, <2>4, <2>5 DEF SaveEvaluation
<1>5. CASE PublishIntent
  <2>1. /\ writing = "publish" /\ hand' = hand
        /\ UNCHANGED <<evaluations, actions>>
    BY <1>5, WritingStep
  <2>2. Gaps' \subseteq Accounted \cup {ac}
    <3>1. SUFFICES ASSUME NEW g \in Gaps' PROVE g \in Accounted \cup {ac}
      OBVIOUS
    <3>2. PICK n \in ToSet(intents) \cup {hand.n} :
             \/ g = <<n, "evaluation">> /\ ~HasEval(n)
             \/ g = <<n, "action">> /\ ~HasAction(n)
      BY <2>1, <3>1, TablesGrow DEF Gaps, HasEval, HasAction
    <3>3. CASE n \in ToSet(intents)
      BY <2>1, <3>2, <3>3 DEF Gaps, Accounted
    <3>4. CASE n = hand.n
      BY <2>1, <3>2, <3>4 DEF Accounted
    <3>5. QED
      BY <3>3, <3>4
  <2>3. CASE UNCHANGED writeFaults
    <3>1. writing' = "audit"
      BY <1>5, <2>3 DEF PublishIntent, WriteFault, RecordType
    <3>2. QED
      BY <2>1, <2>2, <2>3, <3>1 DEF Accounted
  <2>4. CASE WriteFault /\ writing' = "idle"
    BY <2>2, <2>4 DEF Accounted, WriteFault
  <2>5. QED
    BY <1>5, <2>3, <2>4 DEF PublishIntent, OnPublishError
<1>6. CASE SaveAction
  <2>1. writing = "audit" /\ writing' = "idle" /\ UNCHANGED <<evaluations, intents>>
    BY <1>6, WritingStep
  <2>2. Accounted = Gaps \ {ac} /\ Accounted' = Gaps' /\ Gaps' \subseteq Gaps
    BY <2>1, TablesGrow DEF Accounted, Gaps, HasEval
  <2>3. CASE UNCHANGED writeFaults
    <3> DEFINE row == Row(hand.n, TRUE)
    <3>1. row \in ToSet(actions')
      <4>1. actions' = Append(actions, row) /\ actions \in Seq(TableRows)
        <5>1. writeFaults \in Nat
          BY EvaluationAssumption DEF RecordType
        <5>2. ~WriteFault /\ actions \in Seq(TableRows)
          BY <2>3, <5>1 DEF WriteFault, RecordType
        <5>3. QED
          BY <1>6, <5>2, Zenon DEF SaveAction, WithAudit
      <4> HIDE DEF row
      <4>2. QED
        BY <4>1, Appended
    <3>2. row.n = hand.n
      BY RowFields
    <3> HIDE DEF row
    <3>3. HasAction(hand.n)'
      BY <1>6, <3>1, <3>2 DEF HasAction, SaveAction
    <3>4. ac \notin Gaps'
      <4>1. SUFFICES ASSUME ac \in Gaps' PROVE FALSE
        OBVIOUS
      <4>2. PICK n \in ToSet(intents') : ac = <<n, "action">> /\ ~HasAction(n)'
        BY <4>1 DEF Gaps
      <4>3. n = hand.n
        BY <4>2
      <4>4. QED
        BY <1>6, <3>1, <3>2, <4>2, <4>3 DEF HasAction
    <3>5. QED
      BY <2>2, <2>3, <3>4
  <2>4. CASE WriteFault
    BY <2>2, <2>4 DEF WriteFault
  <2>5. QED
    BY <1>6, <2>3, <2>4 DEF SaveAction
<1>7. QED
  BY <1>1, <1>2, <1>3, <1>4, <1>5, <1>6
     DEF RecordNext, ReloadState, Millisecond, Ask, ReadStatus

LEMMA FailuresStep == RecordType /\ FailuresAccount /\ RecordNext => FailuresAccount'
<1> SUFFICES ASSUME RecordType, FailuresAccount, RecordNext PROVE FailuresAccount'
  OBVIOUS
<1>1. IsFiniteSet(Accounted) /\ Cardinality(Accounted) \in Nat /\ writeFaults \in Nat
  BY AccountedFinite, FS_CardinalityType, EvaluationAssumption DEF RecordType
<1>2. Cardinality(Accounted) <= writeFaults
  BY DEF FailuresAccount
<1>3. CASE Accounted' \subseteq Accounted /\ writeFaults' \in {writeFaults, writeFaults + 1}
  <2>1. Cardinality(Accounted') <= Cardinality(Accounted) /\ IsFiniteSet(Accounted')
    BY <1>1, <1>3, FS_Subset
  <2>2. Cardinality(Accounted') \in Nat
    BY <2>1, FS_CardinalityType
  <2>3. QED
    BY <1>1, <1>2, <1>3, <2>1, <2>2 DEF FailuresAccount
<1>4. ASSUME NEW g, Accounted' \subseteq Accounted \cup {g}, writeFaults' = writeFaults + 1
      PROVE  FailuresAccount'
  <2>1. /\ IsFiniteSet(Accounted \cup {g})
        /\ Cardinality(Accounted \cup {g}) \in {Cardinality(Accounted), Cardinality(Accounted) + 1}
    BY <1>1, FS_AddElement
  <2>2. Cardinality(Accounted') <= Cardinality(Accounted \cup {g}) /\ IsFiniteSet(Accounted')
    BY <1>4, <2>1, FS_Subset
  <2>3. Cardinality(Accounted') \in Nat
    BY <2>2, FS_CardinalityType
  <2>4. QED
    BY <1>1, <1>2, <1>4, <2>1, <2>2, <2>3 DEF FailuresAccount
<1>5. QED
  BY <1>3, <1>4, OneEachTime

LEMMA RecordStutter == RecordsInv /\ UNCHANGED recordVars => RecordsInv'
BY DEF RecordsInv, recordVars, tables, statusVars, RecordType, TableRows, AuditedWasPublished,
   EveryGapIsAFailure, AnswerHangsTogether, FailuresAccount, Accounted, Gaps, HasEval, HasAction,
   RowsAreInOrder

\* Whatever order evaluations, their three writes, failed writes, ends of the
\* process and the queries of strategy_status come in: an audit row has its intent
\* on the stream, a record is missing only where a write of its own failed, and
\* the emission an answer tells is no older than the evaluation and the action
\* beside it (StrategyConsumer._evaluate_one, gateway_api/ops/strategy_status.py).
THEOREM RecordsInvariant == RecordSpec => []RecordsInv
<1>1. RecordInit => RecordsInv
  BY RecordInitInv
<1>2. RecordsInv /\ [RecordNext]_recordVars => RecordsInv'
  <2> SUFFICES ASSUME RecordsInv, [RecordNext]_recordVars PROVE RecordsInv'
    OBVIOUS
  <2>1. CASE UNCHANGED recordVars
    BY <2>1, RecordStutter
  <2>2. CASE RecordNext
    <3>1. /\ RecordType /\ AuditedWasPublished /\ AnswerHangsTogether /\ FailuresAccount
          /\ RowsAreInOrder
      BY DEF RecordsInv
    <3>2. RecordType' /\ AuditedWasPublished' /\ AnswerHangsTogether' /\ RowsAreInOrder'
      BY <2>2, <3>1, RecordTypeStep, AuditedStep, AnswerStep, OrderedRowsStep
    <3>3. FailuresAccount'
      BY <2>2, <3>1, FailuresStep
    <3>4. EveryGapIsAFailure'
      BY <3>3 DEF FailuresAccount, EveryGapIsAFailure, Accounted
    <3>5. QED
      BY <3>2, <3>3, <3>4 DEF RecordsInv
  <2>3. QED
    BY <2>1, <2>2
<1>3. QED
  BY <1>1, <1>2, PTL DEF RecordSpec

-----------------------------------------------------------------------------
\* LiveOrders.

\* The fields of an order and of a leg.
LEMMA OrderFields ==
  ASSUME NEW o \in Intents
  PROVE  /\ o.usd # Nothing => o.usd \in Nat
         /\ o.limit # Nothing => o.limit \in Nat
         /\ o.size \in {1, 2} /\ o.side \in {"BUY", "SELL"}
<1>1. /\ o.usd \in LiveAmounts \cup {Nothing} /\ o.limit \in LiveQuotes \cup {Nothing}
      /\ o.size \in LiveSizes /\ o.side \in {"BUY", "SELL"}
  BY DEF Intents
<1>2. LiveAmounts \subseteq Nat /\ LiveQuotes \subseteq Nat /\ LiveSizes \subseteq {1, 2}
  BY LiveAssumption
<1>3. QED
  BY <1>1, <1>2

LEMMA LegFields == ASSUME NEW l \in Leg PROVE l.qty \in {1, 2} /\ l.price \in Nat
<1>1. l.qty \in {1, 2} /\ l.price \in LiveQuotes
  BY DEF Leg
<1>2. QED
  BY <1>1, LiveAssumption

LEMMA NotionalType == ASSUME NEW o \in Intents PROVE Notional(o) \in Nat \cup {Nothing}
<1>1. /\ o.usd # Nothing => o.usd \in Nat
      /\ o.limit # Nothing => o.limit \in Nat
      /\ o.size \in Nat
  BY OrderFields
<1>2. \A a, b \in Nat : a * b \in Nat
  OBVIOUS
<1>3. QED
  BY <1>1, <1>2 DEF Notional

\* The preview, which takes a notional of 0 for none, tells the verdict all the same.
LEMMA PreviewAgrees ==
  ASSUME NEW o \in Intents
  PROVE  PolicyWouldAllow(o.account, o.symbol, Notional(o))
           <=> Blocking(o.account, o.symbol, Notional(o)) = {}
<1>1. CASE Notional(o) # 0
  BY <1>1 DEF PolicyWouldAllow
<1>2. CASE Notional(o) = 0
  <2>1. ~(0 > LiveCap)
    BY LiveAssumption
  <2>2. Blocking(o.account, o.symbol, 0) = Blocking(o.account, o.symbol, Nothing)
    BY <2>1 DEF Blocking
  <2>3. QED
    BY <1>2, <2>2 DEF PolicyWouldAllow
<1>3. QED
  BY <1>1, <1>2

\* An execution has two legs at most, within the limit and the size of its order.
Within(o, l) ==
    o.limit = Nothing \/ (o.side = "BUY" /\ l.price <= o.limit)
                      \/ (o.side = "SELL" /\ l.price >= o.limit)

LEMMA ExecutionsFit ==
  ASSUME NEW o \in Intents, NEW e \in Executions(o)
  PROVE  /\ Len(e) \in {0, 1, 2} /\ e \in Seq(Leg)
         /\ Len(e) = 0 <=> e = <<>>
         /\ Len(e) >= 1 => e[1] \in Leg /\ Within(o, e[1])
         /\ Len(e) = 2 => e[2] \in Leg /\ Within(o, e[2])
         /\ Total(e, Lots) <= o.size
<1>1. CASE e = <<>>
  BY <1>1 DEF Executions
<1>2. ASSUME NEW l \in Leg, Within(o, l), e = <<l>>
      PROVE  /\ Len(e) \in {0, 1, 2} /\ e \in Seq(Leg)
             /\ Len(e) = 0 <=> e = <<>>
             /\ Len(e) >= 1 => e[1] \in Leg /\ Within(o, e[1])
             /\ Len(e) = 2 => e[2] \in Leg /\ Within(o, e[2])
  BY <1>2
<1>3. ASSUME NEW l \in Leg, NEW k \in Leg, Within(o, l), Within(o, k), e = <<l, k>>
      PROVE  /\ Len(e) \in {0, 1, 2} /\ e \in Seq(Leg)
             /\ Len(e) = 0 <=> e = <<>>
             /\ Len(e) >= 1 => e[1] \in Leg /\ Within(o, e[1])
             /\ Len(e) = 2 => e[2] \in Leg /\ Within(o, e[2])
  BY <1>3
<1>4. /\ Total(e, Lots) <= o.size
      /\ \/ e = <<>>
         \/ \E l \in Leg : Within(o, l) /\ e = <<l>>
         \/ \E l, k \in Leg : Within(o, l) /\ Within(o, k) /\ e = <<l, k>>
  BY DEF Executions, Within
<1>5. QED
  BY <1>1, <1>2, <1>3, <1>4

\* What is executed of an order, and what it costs where the legs have one price.
LEMMA SumsOfLegs ==
  ASSUME NEW e \in Seq(Leg), Len(e) \in {0, 1, 2}
  PROVE  /\ Total(e, Lots) \in Nat /\ Total(e, Cost) \in Nat
         /\ (Len(e) > 0 /\ \A i \in DOMAIN e : e[i].price = e[1].price)
              => e[1].price * Total(e, Lots) = Total(e, Cost)
<1>1. \A i \in 1..Len(e) : e[i].qty \in {1, 2} /\ e[i].price \in Nat
  <2>1. \A i \in 1..Len(e) : e[i] \in Leg
    OBVIOUS
  <2>2. QED
    BY <2>1, LegFields
<1>2. \A q \in {1, 2}, p \in Nat : q * p \in Nat /\ q * p = p * q
  OBVIOUS
<1>3. \A q, r \in {1, 2}, p \in Nat : p * (q + r) = q * p + r * p
  OBVIOUS
<1>4. CASE Len(e) = 0
  BY <1>4 DEF Total
<1>5. CASE Len(e) = 1
  BY <1>1, <1>2, <1>5 DEF Total, Lots, Cost
<1>6. CASE Len(e) = 2
  <2>1. 1 \in 1..Len(e) /\ 2 \in 1..Len(e) /\ DOMAIN e = 1..Len(e)
    BY <1>6
  <2>2. Total(e, Lots) = e[1].qty + e[2].qty /\ Total(e, Cost) = e[1].qty * e[1].price + e[2].qty * e[2].price
    BY <1>6 DEF Total, Lots, Cost
  <2>3. e[1].qty \in {1, 2} /\ e[2].qty \in {1, 2} /\ e[1].price \in Nat /\ e[2].price \in Nat
    BY <1>1, <2>1
  <2>4. e[1].qty + e[2].qty \in Nat /\ e[1].qty * e[1].price \in Nat /\ e[2].qty * e[2].price \in Nat
    <3>1. \A a, b \in {1, 2} : a + b \in Nat
      OBVIOUS
    <3>2. QED
      BY <1>2, <2>3, <3>1
  <2>5. e[1].price * (e[1].qty + e[2].qty) = e[1].qty * e[1].price + e[2].qty * e[1].price
    BY <1>3, <2>3
  <2>6. QED
    BY <2>1, <2>2, <2>4, <2>5
<1>7. QED
  BY <1>4, <1>5, <1>6

\* A limit order to buy spends no more than its size at its limit.
LEMMA SpentWithinLimit ==
  ASSUME NEW o \in Intents, o.side = "BUY", o.limit # Nothing, NEW e \in Executions(o)
  PROVE  Total(e, Cost) <= o.size * o.limit
<1>1. o.limit \in Nat /\ o.size \in {1, 2}
  BY OrderFields
<1>2. /\ Len(e) \in {0, 1, 2} /\ e \in Seq(Leg) /\ Total(e, Lots) <= o.size
      /\ \A i \in 1..Len(e) : e[i].qty \in {1, 2} /\ e[i].price \in Nat /\ e[i].price <= o.limit
  <2>1. \A l \in Leg : l.qty \in {1, 2} /\ l.price \in Nat
    BY LegFields
  <2>2. \A l \in Leg : Within(o, l) => l.price <= o.limit
    BY DEF Within
  <2>3. /\ Len(e) \in {0, 1, 2} /\ e \in Seq(Leg) /\ Total(e, Lots) <= o.size
        /\ \A i \in 1..Len(e) : e[i] \in Leg /\ Within(o, e[i])
    BY ExecutionsFit
  <2>4. QED
    BY <2>1, <2>2, <2>3
<1>3. \A q \in {1, 2}, p \in Nat : p <= o.limit => q * p <= q * o.limit /\ q * p \in Nat
  BY <1>1
<1>4. CASE Len(e) = 0
  BY <1>1, <1>4 DEF Total
<1>5. CASE Len(e) = 1
  BY <1>1, <1>2, <1>5 DEF Total, Lots, Cost
<1>6. CASE Len(e) = 2
  <2>1. 1 \in 1..Len(e) /\ 2 \in 1..Len(e)
    BY <1>6
  <2>2. Total(e, Lots) = e[1].qty + e[2].qty /\ Total(e, Cost) = e[1].qty * e[1].price + e[2].qty * e[2].price
    BY <1>6 DEF Total, Lots, Cost
  <2>3. /\ e[1].qty \in {1, 2} /\ e[2].qty \in {1, 2} /\ e[1].qty + e[2].qty <= o.size
        /\ e[1].price \in Nat /\ e[2].price \in Nat
        /\ e[1].price <= o.limit /\ e[2].price <= o.limit
    BY <1>2, <2>1, <2>2
  <2>4. e[1].qty = 1 /\ e[2].qty = 1 /\ o.size = 2
    BY ONLY <1>1, <2>3
  <2>5. Total(e, Cost) = e[1].price + e[2].price
    BY ONLY <2>2, <2>3, <2>4
  <2>6. QED
    BY ONLY <1>1, <2>3, <2>4, <2>5
<1>7. QED
  BY <1>2, <1>4, <1>5, <1>6

\* The strengthening of which the properties follow.
LiveCore == LiveType /\ GatesStand /\ LegsAreOfTheOrder /\ ResponseIsOfTheCase

LEMMA LiveStarts == LiveInit => LiveCore
<1> SUFFICES ASSUME LiveInit PROVE LiveCore
  OBVIOUS
<1>1. LiveType
  <2>1. {Upper[s] : s \in LiveSymbols} \subseteq LiveSymbols
    BY LiveAssumption
  <2>2. enabled \in BOOLEAN /\ placed \in BOOLEAN
    BY DEF LiveInit
  <2>3. accounts \subseteq LiveAccounts /\ listed \subseteq LiveSymbols
    BY <2>1 DEF LiveInit
  <2>4. legs \in Seq(Leg) /\ Len(legs) <= 2
    BY DEF LiveInit
  <2>5. QED
    BY <2>2, <2>3, <2>4 DEF LiveInit, LiveType
<1>2. GatesStand /\ LegsAreOfTheOrder /\ ResponseIsOfTheCase
  BY DEF LiveInit, GatesStand, LegsAreOfTheOrder, ResponseIsOfTheCase
<1>3. QED
  BY <1>1, <1>2 DEF LiveCore

LEMMA LiveEvaluates ==
  ASSUME LiveCore, NEW o \in Intents, Evaluate(o)
  PROVE  LiveCore'
<1> USE DEF LiveCore, settingVars
<1>0. ~placed /\ legs = <<>> /\ response = Nothing /\ point = "new"
  BY DEF Evaluate, GatesStand, LegsAreOfTheOrder, ResponseIsOfTheCase
<1>1. LiveType'
  BY DEF Evaluate, LiveType, Blocking
<1>2. GatesStand'
  BY <1>0 DEF Evaluate, GatesStand, Blocking
<1>3. LegsAreOfTheOrder'
  BY <1>0 DEF Evaluate, LegsAreOfTheOrder
<1>4. ResponseIsOfTheCase'
  BY <1>0 DEF Evaluate, ResponseIsOfTheCase
<1>5. QED
  BY <1>1, <1>2, <1>3, <1>4

LEMMA LiveBlocks ==
  ASSUME LiveCore, Block
  PROVE  LiveCore'
<1> USE DEF LiveCore, settingVars
<1>0. ~placed /\ legs = <<>> /\ (reasons # {} \/ intent.dryRun)
  BY DEF Block, GatesStand, LegsAreOfTheOrder
<1>1. LiveType'
  BY DEF Block, LiveType
<1>2. GatesStand'
  BY <1>0 DEF Block, GatesStand, Blocking
<1>3. LegsAreOfTheOrder'
  BY <1>0 DEF Block, LegsAreOfTheOrder
<1>4. ResponseIsOfTheCase'
  BY <1>0 DEF Block, ResponseIsOfTheCase, Verdict, Failed
<1>5. QED
  BY <1>1, <1>2, <1>3, <1>4

LEMMA LivePosts ==
  ASSUME LiveCore, Post
  PROVE  LiveCore'
<1> USE DEF LiveCore, settingVars
<1>0. ~placed /\ legs = <<>> /\ response = Nothing /\ intent \in Intents /\ point = "posting"
  BY DEF Post, GatesStand, LegsAreOfTheOrder, ResponseIsOfTheCase, LiveType
<1>1. CASE UNCHANGED <<placed, legs>> /\ point' = "answered"
            /\ \E error \in {"exchange_error_4xx"} \cup Unknown : response' = Failed(error)
  <2>1. LiveType'
    BY <1>0, <1>1 DEF Post, LiveType
  <2>2. GatesStand'
    BY <1>0, <1>1 DEF Post, GatesStand, Blocking
  <2>3. LegsAreOfTheOrder'
    BY <1>0, <1>1 DEF Post, LegsAreOfTheOrder
  <2>4. ResponseIsOfTheCase'
    BY <1>0, <1>1 DEF Post, ResponseIsOfTheCase, Failed
  <2>5. QED
    BY <2>1, <2>2, <2>3, <2>4
<1>2. ASSUME NEW e \in Executions(intent),
             placed' = TRUE, legs' = e, point' = "accepted", UNCHANGED response
      PROVE  LiveCore'
  <2>0. e \in Seq(Leg) /\ Len(e) <= 2
    <3>1. e \in Executions(intent)
      BY <1>2
    <3>2. e \in Seq(Leg) /\ Len(e) \in {0, 1, 2}
      BY <1>0, <3>1, ExecutionsFit
    <3>3. \A n \in {0, 1, 2} : n <= 2
      OBVIOUS
    <3>4. QED
      BY <3>2, <3>3
  <2>1. LiveType'
    BY <1>0, <1>2, <2>0 DEF Post, LiveType
  <2>2. GatesStand'
    BY <1>0, <1>2 DEF Post, GatesStand, Blocking
  <2>3. LegsAreOfTheOrder'
    BY <1>0, <1>2 DEF Post, LegsAreOfTheOrder, Executions
  <2>4. ResponseIsOfTheCase'
    BY <1>0, <1>2 DEF Post, ResponseIsOfTheCase
  <2>5. QED
    BY <2>1, <2>2, <2>3, <2>4
<1>3. QED
  BY <1>1, <1>2 DEF Post

LEMMA LiveAnswers ==
  ASSUME LiveCore, Answer
  PROVE  LiveCore'
<1> USE DEF LiveCore, settingVars
<1>0. placed /\ point = "accepted"
  BY DEF Answer, LegsAreOfTheOrder
<1>1. LiveType'
  BY DEF Answer, LiveType
<1>2. GatesStand'
  BY <1>0 DEF Answer, GatesStand, Blocking
<1>3. LegsAreOfTheOrder'
  BY <1>0 DEF Answer, LegsAreOfTheOrder, Executions
<1>4. ResponseIsOfTheCase'
  BY <1>0 DEF Answer, ResponseIsOfTheCase, Failed, FillOf, Executed, Quote
<1>5. QED
  BY <1>1, <1>2, <1>3, <1>4

LEMMA LiveStutters ==
  ASSUME LiveCore, UNCHANGED liveVars
  PROVE  LiveCore'
<1> USE DEF liveVars, settingVars
<1>1. LiveType'
  BY DEF LiveCore, LiveType
<1>2. GatesStand'
  BY DEF LiveCore, GatesStand, Blocking
<1>3. LegsAreOfTheOrder'
  BY DEF LiveCore, LegsAreOfTheOrder
<1>4. ResponseIsOfTheCase'
  BY DEF LiveCore, ResponseIsOfTheCase, Failed, Verdict, FillOf, Executed, Quote
<1>5. QED
  BY <1>1, <1>2, <1>3, <1>4 DEF LiveCore

\* The verdict that was previewed is that of the gates.
LEMMA PreviewTells == LiveCore => PreviewIsHonest
<1> SUFFICES ASSUME LiveCore, intent # Nothing PROVE PreviewIsHonest
  BY DEF PreviewIsHonest
<1> DEFINE allowed == PolicyWouldAllow(intent.account, intent.symbol, Notional(intent))
<1>1. point # "new" /\ intent \in Intents
  BY DEF LiveCore, LiveType
<1>2. allowed <=> reasons = {}
  BY <1>1, PreviewAgrees DEF LiveCore, GatesStand
<1>3. /\ intent.dryRun => ~placed
      /\ ~intent.dryRun /\ point = "blocked" => ~allowed
      /\ ~intent.dryRun /\ (point = "posting" \/ placed) => allowed
  <2> HIDE DEF allowed
  <2>1. QED
    BY <1>2 DEF LiveCore, GatesStand
<1>4. response # Nothing => (response.error = "would_allow" => allowed)
                            /\ (response.error \in {"would_block", "blocked_by_policy"} => ~allowed)
  <2> HIDE DEF allowed
  <2>1. CASE \E shown \in {legs, <<>>} : response = FillOf(shown)
    <3>1. response.error = Nothing
      BY <2>1 DEF FillOf, Filled
    <3>2. QED
      <4>1. "would_allow" # Nothing /\ "would_block" # Nothing /\ "blocked_by_policy" # Nothing
        BY LiveAssumption
      <4>2. QED
        BY <3>1, <4>1
  <2>2. CASE \E error \in {"exchange_error_4xx"} \cup Unknown : response = Failed(error)
    BY <2>2 DEF Failed, Unknown
  <2>3. CASE response = Failed(Verdict) /\ (reasons # {} \/ intent.dryRun)
    BY <1>2, <2>3 DEF Failed, Verdict
  <2>4. QED
    BY <2>1, <2>2, <2>3 DEF LiveCore, ResponseIsOfTheCase
<1>5. QED
  BY <1>3, <1>4 DEF PreviewIsHonest

\* The notional that passed the gate bounds what is spent.
LEMMA SpendingIsCapped == LiveCore => SpentIsWithinCap
<1> SUFFICES ASSUME LiveCore, placed, intent.side = "BUY", intent.limit # Nothing, intent.usd = Nothing
             PROVE  Quote <= LiveCap
  BY DEF SpentIsWithinCap
<1>1. intent \in Intents /\ legs \in Executions(intent) /\ reasons = {}
      /\ reasons = Blocking(intent.account, intent.symbol, Notional(intent))
  BY DEF LiveCore, LiveType, GatesStand, LegsAreOfTheOrder
<1>2. intent.limit \in Nat /\ intent.size \in {1, 2}
  BY <1>1, OrderFields
<1>3. Notional(intent) = intent.size * intent.limit
  BY DEF Notional
<1>4. "notional" \notin Blocking(intent.account, intent.symbol, Notional(intent))
  BY <1>1
<1>5. ~(Notional(intent) # Nothing /\ Notional(intent) > LiveCap)
  BY <1>4 DEF Blocking
<1>6. intent.size * intent.limit \in Nat
  BY <1>2
<1>7. Notional(intent) <= LiveCap
  BY <1>3, <1>5, <1>6, LiveAssumption
<1>8. Quote <= intent.size * intent.limit
  BY <1>1, SpentWithinLimit DEF Quote
<1>9. Quote \in Nat
  BY SumsOfLegs, <1>1, ExecutionsFit DEF Quote
<1>10. QED
  BY <1>3, <1>6, <1>7, <1>8, <1>9, LiveAssumption

\* The fill that is reported is the one that the exchange made.
LEMMA FillTells == LiveCore => ResponseTellsTheFill
<1> SUFFICES ASSUME LiveCore, response # Nothing PROVE ResponseTellsTheFill
  BY DEF ResponseTellsTheFill
<1>1. ASSUME placed, NEW shown \in {legs, <<>>}, response = FillOf(shown)
      PROVE  ResponseTellsTheFill
  <2>0. intent \in Intents /\ legs \in Executions(intent)
    BY <1>1 DEF LiveCore, LiveType, LegsAreOfTheOrder
  <2>1. legs \in Seq(Leg) /\ Len(legs) \in {0, 1, 2} /\ (Len(legs) = 0 <=> legs = <<>>)
        /\ Executed <= intent.size
    BY <2>0, ExecutionsFit DEF Executed
  <2>2. Executed \in Nat /\ Quote \in Nat
        /\ ((Len(legs) > 0 /\ \A i \in DOMAIN legs : legs[i].price = legs[1].price)
              => legs[1].price * Executed = Quote)
    BY <2>1, SumsOfLegs DEF Executed, Quote
  <2>3. intent.size \in {1, 2}
    BY <2>0, OrderFields
  <2>4. CASE shown # <<>>
    <3>1. shown = legs /\ Len(legs) > 0
      BY <2>1, <2>4
    <3>2. response = Filled(legs[1].price, 1, Executed, Executed)
      BY <1>1, <2>4, <3>1 DEF FillOf
    <3>3. response.success /\ response.price = legs[1].price /\ response.per = 1 /\ response.qty = Executed
      BY <3>2 DEF Filled
    <3>4. response.qty # Nothing
      BY <2>2, <3>3, LiveAssumption
    <3>5. Quote * 1 = Quote
      BY <2>2
    <3>6. QED
      BY <1>1, <2>2, <3>1, <3>3, <3>4, <3>5 DEF ResponseTellsTheFill
  <2>5. CASE shown = <<>> /\ Executed = intent.size
    <3>1. response = Filled(Quote, Executed, Executed, Nothing)
      BY <1>1, <2>5 DEF FillOf
    <3>2. response.success /\ response.price = Quote /\ response.per = Executed /\ response.qty = Executed
      BY <3>1 DEF Filled
    <3>3. response.qty # Nothing
      BY <2>2, <3>2, LiveAssumption
    <3>4. QED
      BY <1>1, <3>2, <3>3 DEF ResponseTellsTheFill
  <2>6. CASE shown = <<>> /\ Executed # intent.size
    <3>1. response = Filled(Nothing, 1, Nothing, Nothing)
      BY <1>1, <2>6 DEF FillOf
    <3>2. response.success /\ response.qty = Nothing
      BY <3>1 DEF Filled
    <3>3. Executed < intent.size
      BY <2>1, <2>2, <2>3, <2>6
    <3>4. QED
      BY <1>1, <3>2, <3>3 DEF ResponseTellsTheFill
  <2>7. QED
    BY <2>4, <2>5, <2>6
<1>2. CASE \E error \in Unknown : response = Failed(error)
  BY <1>2 DEF Failed, ResponseTellsTheFill
<1>3. CASE ~placed /\ (response = Failed("exchange_error_4xx") \/ response = Failed(Verdict))
  BY <1>3 DEF Failed, ResponseTellsTheFill
<1>4. QED
  BY <1>1, <1>2, <1>3 DEF LiveCore, ResponseIsOfTheCase

\* Through every order of LiveExecutionAdapter.submit, for whatever gates of
\* live_policy.py and cap: only what check_live_trade_policy would let out gets
\* out, a limit order to buy spends within the cap, and the response of
\* _submit_to_exchange tells the fill that was made.
THEOREM LiveInvariant == LiveSpec => []LiveInv
<1>1. LiveCore /\ [LiveNext]_liveVars => LiveCore'
  <2> SUFFICES ASSUME LiveCore, [LiveNext]_liveVars PROVE LiveCore'
    OBVIOUS
  <2>1. CASE \E o \in Intents : Evaluate(o)
    BY <2>1, LiveEvaluates
  <2>2. CASE Block
    BY <2>2, LiveBlocks
  <2>3. CASE Post
    BY <2>3, LivePosts
  <2>4. CASE Answer
    BY <2>4, LiveAnswers
  <2>5. CASE UNCHANGED liveVars
    BY <2>5, LiveStutters
  <2>6. QED
    BY <2>1, <2>2, <2>3, <2>4, <2>5 DEF LiveNext
<1>2. LiveCore => LiveInv
  BY PreviewTells, SpendingIsCapped, FillTells DEF LiveCore, LiveInv
<1>3. QED
  BY <1>1, <1>2, LiveStarts, PTL DEF LiveSpec
=============================================================================
