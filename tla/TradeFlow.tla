------------------------------- MODULE TradeFlow -------------------------------
(***************************************************************************)
(* What the analytics service keeps of a symbol's trades and liquidations: *)
(* FlowEngine (analytics/engines/flow.py: the cumulated delta and a window *)
(* of trades), RvolCalculator (engines/rvol.py: the volume of the current  *)
(* bucket and of those before) and LiquidationClusterDetector              *)
(* (engines/liquidations.py), as AnalyticsDispatcher feeds them.           *)
(*                                                                         *)
(* Trades of two streams arrive almost in order: a trade may be Skew older *)
(* than one before it. The slope is compared without its denominator,      *)
(* which is positive. Bounds: MaxTime, MaxTrades and MaxLiquidations.      *)
(***************************************************************************)
EXTENDS Naturals, Integers, Sequences, FiniteSets, SequencesExt

CONSTANTS TradeSizes, Window, Bucket, Lookback, Skew, LiquidationCap,
          LiquidationWindow, TapeWindow, MaxTime, MaxTrades, MaxLiquidations

ASSUME FlowAssumption ==
    /\ TradeSizes \subseteq Nat \ {0}
    /\ {Window, Bucket, Lookback, LiquidationCap, MaxTime} \subseteq Nat \ {0}
    /\ {Skew, LiquidationWindow, TapeWindow, MaxTrades, MaxLiquidations} \subseteq Nat

VARIABLES
    flow,          \* FlowEngine: [trades, cvd]
    rvol,          \* RvolCalculator: [start, volume, historical]
    liquidations,  \* LiquidationClusterDetector._records
    now,
    tape,          \* history: all trades
    forced         \* history: all liquidations

flowVars == <<flow, rvol, liquidations, now, tape, forced>>

Trade == [at : 1..MaxTime, qty : TradeSizes, buy : BOOLEAN]
Liquidation == [at : 1..MaxTime, qty : TradeSizes, long : BOOLEAN]

FlowInit ==
    /\ flow = [trades |-> <<>>, cvd |-> 0]
    /\ rvol = [start |-> 0, volume |-> 0, historical |-> <<>>]
    /\ liquidations = <<>>
    /\ now = 1 /\ tape = <<>> /\ forced = <<>>

-----------------------------------------------------------------------------
Lately(s, n) == SubSeq(s, IF Len(s) > n THEN Len(s) - n + 1 ELSE 1, Len(s))

\* deque(maxlen=n).
Pushed(s, e, n) == Lately(Append(s, e), n)

\* TradeRecord.delta: a taker's purchase adds, a sale subtracts.
TradeDelta(t) == IF t.buy THEN t.qty ELSE -t.qty

\* What each of a list of trades counts for in a sum.
Deltas(s) == [i \in DOMAIN s |-> TradeDelta(s[i])]
Sizes(s) == [i \in DOMAIN s |-> s[i].qty]
Purchases(s) == [i \in DOMAIN s |-> IF s[i].buy THEN s[i].qty ELSE 0]
Sales(s) == [i \in DOMAIN s |-> IF s[i].buy THEN 0 ELSE s[i].qty]

FlowAfter(t) == [trades |-> Pushed(flow.trades, t, Window), cvd |-> flow.cvd + TradeDelta(t)]

\* A bug to detect: the trade that closes a bucket is in neither.
LosingRvol(t) ==
    IF t.at - rvol.start >= Bucket /\ rvol.start # 0
    THEN [start |-> t.at, volume |-> 0,
          historical |-> Pushed(rvol.historical, rvol.volume, Lookback)]
    ELSE [rvol EXCEPT !.start = IF @ = 0 THEN t.at ELSE @, !.volume = @ + t.qty]

\* RvolCalculator.on_trade: the first trade starts a bucket, and the first one
\* Bucket or more after its start closes it and starts the next.
RvolAfter(t) ==
    LET start == IF rvol.start = 0 THEN t.at ELSE rvol.start
    IN IF t.at - start >= Bucket
       THEN [start |-> t.at, volume |-> t.qty,
             historical |-> Pushed(rvol.historical, rvol.volume, Lookback)]
       ELSE [rvol EXCEPT !.start = start, !.volume = @ + t.qty]

\* cvd_slope: the numerator of the regression of the running delta over its
\* index, times the length.
RunningDelta(s) == [i \in DOMAIN s |-> SumFunctionOnSet(Deltas(s), 1..i)]

Slope(s) == SumFunction([i \in DOMAIN s |-> (2 * i - (Len(s) + 1)) * RunningDelta(s)[i]])

\* compute_cluster_totals, for one side.
ClusterTotal(s, long) ==
    SumFunction([i \in DOMAIN s |-> IF s[i].at >= now - LiquidationWindow /\ s[i].long = long
                                    THEN s[i].qty ELSE 0])

\* compute_buy_sell_volumes, compute_delta and compute_aggression_ratio, each over
\* a window of its own.
Bought(s) == SumFunction(Purchases(s))
Sold(s) == SumFunction(Sales(s))
WindowDelta(n) == SumFunction(Deltas(Lately(flow.trades, n)))
Aggression(n) ==
    LET recent == Lately(flow.trades, n) IN <<Bought(recent), SumFunction(Sizes(recent))>>

\* compute_tape_speed_per_min: how many trades of the deque are that young.
TapeCount == Cardinality({i \in DOMAIN flow.trades : flow.trades[i].at >= now - TapeWindow})

-----------------------------------------------------------------------------
\* _on_trade and _on_agg_trade.
OnTrade ==
    /\ Len(tape) < MaxTrades
    /\ \E t \in Trade :
         /\ t.at <= now /\ t.at + Skew >= now
         /\ flow' = FlowAfter(t)
         /\ rvol' = RvolAfter(t)
         /\ tape' = Append(tape, t)
    /\ UNCHANGED <<liquidations, now, forced>>

\* _on_liquidation.
OnLiquidation ==
    /\ Len(forced) < MaxLiquidations
    /\ \E r \in Liquidation :
         /\ r.at = now
         /\ liquidations' = Pushed(liquidations, r, LiquidationCap)
         /\ forced' = Append(forced, r)
    /\ UNCHANGED <<flow, rvol, now, tape>>

Tick == now < MaxTime /\ now' = now + 1
        /\ UNCHANGED <<flow, rvol, liquidations, tape, forced>>

FlowNext == OnTrade \/ OnLiquidation \/ Tick

FlowSpec == FlowInit /\ [][FlowNext]_flowVars

-----------------------------------------------------------------------------
\* Each variable has its type; the deques keep their lengths, and nothing is of
\* the future.
FlowType ==
    /\ flow.trades \in Seq(Trade) /\ Len(flow.trades) <= Window /\ flow.cvd \in Int
    /\ rvol.start \in 0..now /\ rvol.volume \in Nat
    /\ rvol.historical \in Seq(Nat) /\ Len(rvol.historical) <= Lookback
    /\ liquidations \in Seq(Liquidation) /\ Len(liquidations) <= LiquidationCap
    /\ now \in 1..MaxTime
    /\ tape \in Seq(Trade) /\ \A i \in DOMAIN tape : tape[i].at <= now
    /\ forced \in Seq(Liquidation) /\ \A i \in DOMAIN forced : forced[i].at <= now

\* FlowEngine: the cumulated delta is the net of every trade since the start,
\* of which the window forgets all but the last; the window is those.
CvdIsOfAllTrades ==
    /\ flow.cvd = Bought(tape) - Sold(tape)
    /\ flow.trades = Lately(tape, Window)

\* RvolCalculator: the trades are cut, in their order, into buckets each of whose
\* trades is less than Bucket after the first; the history has the volumes of
\* the last ones closed, and what is in the current bucket follows them.
BucketsTellTheTape ==
    \E k \in 0..Len(tape) :
      /\ rvol.volume = SumFunctionOnSet(Sizes(tape), k+1..Len(tape))
      /\ \A i \in k+1..Len(tape) : tape[i].at - rvol.start < Bucket
      /\ IF tape = <<>> THEN rvol.start = 0 ELSE k < Len(tape) /\ tape[k + 1].at = rvol.start
      /\ Len(rvol.historical) < Lookback =>
           SumFunctionOnSet(Sizes(tape), 1..k) = SumFunction(rvol.historical)
      /\ k > 0 => rvol.historical # <<>> /\ Last(rvol.historical) >= tape[k].qty

\* cvd_slope, "Positive slope": three trades or more all on the buyers' side have
\* a positive slope, and on the sellers' side a negative one.
SlopeHasTheSideOfTheFlow ==
    Len(flow.trades) >= 3 =>
      /\ (\A i \in DOMAIN flow.trades : flow.trades[i].buy) => Slope(flow.trades) > 0
      /\ (\A i \in DOMAIN flow.trades : ~flow.trades[i].buy) => Slope(flow.trades) < 0

\* "Return (long_liq_usd, short_liq_usd) within the sliding window.": the totals
\* are those of every liquidation of the window, unless more of them fall into
\* it than the deque holds.
TotalsOfTheWindow ==
    LET inWindow == {i \in DOMAIN forced : now - forced[i].at <= LiquidationWindow} IN
    Cardinality(inWindow) <= LiquidationCap =>
      \A long \in BOOLEAN :
        ClusterTotal(liquidations, long) =
          SumFunctionOnSet(Sizes(forced), {i \in inWindow : forced[i].long = long})

\* What it rests on: the deque has the last liquidations, which came in the order of
\* their times.
LastLiquidations ==
    /\ liquidations = Lately(forced, LiquidationCap)
    /\ \A i \in DOMAIN forced : \A j \in i..Len(forced) : forced[i].at <= forced[j].at

\* "tape speed": trades of the last seconds are counted whatever their order, and
\* one is missed only when more trades than the deque holds came after it. The
\* share of the buyers agrees with the delta of the same window.
SpeedIsOfTheTape ==
    LET young == {i \in DOMAIN tape : now - tape[i].at <= TapeWindow}
        pushedOut == {i \in young : Len(tape) - i >= Window}
    IN /\ TapeCount = Cardinality(young) - Cardinality(pushedOut)
       /\ \A n \in 1..Window :
            /\ 2 * Aggression(n)[1] - Aggression(n)[2] = WindowDelta(n)
            /\ WindowDelta(n) = Bought(Lately(tape, n)) - Sold(Lately(tape, n))

\* What the flow engines keep is told by the tape: the delta of all of it, the
\* windows, the slope, the speed, the buckets of volume and the totals of
\* liquidations.
FlowInv == /\ FlowType /\ CvdIsOfAllTrades /\ SlopeHasTheSideOfTheFlow
           /\ SpeedIsOfTheTape /\ BucketsTellTheTape /\ TotalsOfTheWindow /\ LastLiquidations
=============================================================================
