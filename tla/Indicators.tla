------------------------------- MODULE Indicators -------------------------------
(***************************************************************************)
(* The incremental indicators of one kline interval: what the kline        *)
(* handler of the normalizer sends on, what the dispatcher lets through,   *)
(* and IndicatorEngine (analytics/engines/indicators.py).                  *)
(*                                                                         *)
(* Prices are small integers; an average is held as Scale times its value  *)
(* and rounded down, where the code's is rounded to the precision of a     *)
(* float. EmaPeriod stands for 9, 21, 50 or 200, the other two for 14,     *)
(* BandPeriod for 20, History for MAX_HISTORY; a band is told by its       *)
(* middle and the square of its width. MaxBars bounds the bars.            *)
(***************************************************************************)
EXTENDS Naturals, Integers, Sequences, SequencesExt

CONSTANTS BarPrices, BarVolumes, EmaPeriod, RsiPeriod, AtrPeriod, BandPeriod,
          History, Scale, MaxBars

ASSUME IndicatorAssumption ==
    /\ BarPrices \subseteq Nat /\ BarVolumes \subseteq Nat
    /\ {EmaPeriod, RsiPeriod, AtrPeriod, BandPeriod, Scale} \subseteq Nat \ {0}
    /\ {History, MaxBars} \subseteq Nat
    /\ \A p \in {EmaPeriod, RsiPeriod + 1, BandPeriod} : p <= History

NoValue == -1

Bars == {b \in [high : BarPrices, low : BarPrices, close : BarPrices, volume : BarVolumes] :
           b.low <= b.close /\ b.close <= b.high}

VARIABLES
    closes,      \* the last History closes
    ema, gain, loss, atr,        \* Scale times the average, NoValue before the seed
    trs,         \* the true ranges kept for the seed
    prev,        \* the close of the bar before
    vwap,        \* the sums of typical price * volume (times 3) and of volume
    bars         \* history: the bars that have closed

engine == <<closes, ema, gain, loss, atr, trs, prev, vwap>>
indicatorVars == <<engine, bars>>

IndicatorInit ==
    /\ closes = <<>> /\ trs = <<>>
    /\ ema = NoValue /\ gain = NoValue /\ loss = NoValue /\ atr = NoValue /\ prev = NoValue
    /\ vwap = [num |-> 0, den |-> 0]
    /\ bars = <<>>

-----------------------------------------------------------------------------
LastOf(n, s) == SubSeq(s, Len(s) - n + 1, Len(s))

Push(s, x, n) == IF Len(s) < n THEN Append(s, x) ELSE Append(Tail(s), x)
Average(s) == (Scale * SumFunction(s)) \div Len(s)
Wilder(avg, n, x) == (avg * (n - 1) + Scale * x) \div n

\* How far a change of the close goes to one side.
Up(from, to) == IF to > from THEN to - from ELSE 0

Full(n, s) == Len(s) >= n

Blend(c) == (2 * Scale * c + (EmaPeriod - 1) * ema) \div (EmaPeriod + 1)

NextEma(c, kept) ==
    IF ema = NoValue
    THEN IF Full(EmaPeriod, kept)
         THEN Average(LastOf(EmaPeriod, kept))
         ELSE NoValue
    ELSE Blend(c)

\* A bug to detect: gains and losses are those of the last bar, not averaged.
LastOnly(avg, n, x) == Scale * x

Smooth(avg, n, x) == Wilder(avg, n, x)

Move(side, from, to) == IF side = "gain" THEN Up(from, to) ELSE Up(to, from)

\* The seed is taken at exactly RSI_PERIOD + 1 closes.
NextMove(avg, c, kept, side) ==
    IF prev = NoValue THEN avg
    ELSE IF avg # NoValue THEN Smooth(avg, RsiPeriod, Move(side, prev, c))
    ELSE IF Len(kept) = RsiPeriod + 1
         THEN Average([i \in 1..RsiPeriod |-> Move(side, kept[i], kept[i + 1])])
         ELSE NoValue

TrueRange(b) ==
    IF prev = NoValue THEN b.high - b.low
    ELSE Max({b.high - b.low, Up(prev, b.high) + Up(b.high, prev),
              Up(prev, b.low) + Up(b.low, prev)})

NextAtr(tr, kept) ==
    IF atr # NoValue THEN Smooth(atr, AtrPeriod, tr)
    ELSE IF Len(kept) >= AtrPeriod THEN Average(LastOf(AtrPeriod, kept))
    ELSE NoValue

OnKlineClose(b) ==
    LET kept == Push(closes, b.close, History)
        tr == TrueRange(b)
        trkept == Push(trs, tr, AtrPeriod + 5)
    IN /\ closes' = kept
       /\ ema' = NextEma(b.close, kept)
       /\ gain' = NextMove(gain, b.close, kept, "gain")
       /\ loss' = NextMove(loss, b.close, kept, "loss")
       /\ trs' = trkept
       /\ atr' = NextAtr(tr, trkept)
       /\ vwap' = [num |-> vwap.num + (b.high + b.low + b.close) * b.volume,
                   den |-> vwap.den + b.volume]
       /\ prev' = b.close

\* compute. The RSI is a fraction of 100; without losses it is 100, whether or
\* not there were gains.
Rsi == IF loss = 0 THEN <<1, 1>> ELSE <<gain, gain + loss>>

\* The bands: BandPeriod times the middle, and BandPeriod cubed times the variance.
Bands ==
    LET recent == LastOf(BandPeriod, closes)
        sum == SumFunction(recent)
        off(x) == (BandPeriod * x - sum) * (BandPeriod * x - sum)
    IN [middle |-> sum, spread |-> SumFunction([i \in 1..BandPeriod |-> off(recent[i])])]

LetThrough(closed) == closed

\* A kline event: the exchange sends the bar of an interval many times, the
\* last time with is_closed.
Kline ==
    /\ Len(bars) < MaxBars
    /\ \E b \in Bars, closed \in BOOLEAN :
         /\ IF LetThrough(closed) THEN OnKlineClose(b) ELSE UNCHANGED engine
         /\ bars' = IF closed THEN Append(bars, b) ELSE bars

IndicatorNext == Kline

IndicatorSpec == IndicatorInit /\ [][IndicatorNext]_indicatorVars

-----------------------------------------------------------------------------
BarCount == Len(bars)
ClosePrice(i) == bars[i].close

\* How many elements a deque of n holds.
Kept(n) == IF BarCount < n THEN BarCount ELSE n

\* Each variable has its type; the deques keep the latest of what there was.
IndicatorType ==
    /\ bars \in Seq(Bars) /\ BarCount <= MaxBars
    /\ closes \in Seq(BarPrices) /\ Len(closes) = Kept(History)
    /\ \A i \in 1..Len(closes) : closes[i] = ClosePrice(BarCount - Len(closes) + i)
    /\ trs \in Seq(Nat) /\ Len(trs) = Kept(AtrPeriod + 5)
    /\ {ema, gain, loss, atr} \subseteq Nat \cup {NoValue}
    /\ vwap \in [num : Nat, den : Nat]
    /\ prev = IF BarCount = 0 THEN NoValue ELSE ClosePrice(BarCount)

\* Each indicator appears with the bar that completes its period: an EMA and a
\* band after period closes, the RSI one bar later, the ATR after its period.
ReadyOnTime ==
    /\ ema # NoValue <=> BarCount >= EmaPeriod
    /\ gain # NoValue <=> BarCount >= RsiPeriod + 1
    /\ loss # NoValue <=> gain # NoValue
    /\ atr # NoValue <=> BarCount >= AtrPeriod

\* An average of prices stays between any two prices that all of them lie between,
\* and an average of ranges, as each range it is of, is at most the widest span.
StaysInRange ==
    \A low, high \in BarPrices :
      /\ /\ ema # NoValue
         /\ \A i \in 1..BarCount : low <= ClosePrice(i) /\ ClosePrice(i) <= high
         => Scale * low <= ema /\ ema <= Scale * high
      /\ (\A i \in 1..BarCount : low <= bars[i].low /\ bars[i].high <= high) =>
           /\ 3 * vwap.den * low <= vwap.num /\ vwap.num <= 3 * vwap.den * high
           /\ \A k \in 1..Len(trs) : trs[k] <= high - low
           /\ atr # NoValue => atr <= Scale * (high - low)

\* The changes of the close to one side, by the bar that made them.
Changes(side) == [i \in 2..BarCount |-> Move(side, ClosePrice(i - 1), ClosePrice(i))]

\* Wilder's definition: the seed is the mean of the first changes, and each
\* later change enters with the weight 1/n and loses (n-1)/n per bar.
WilderAverage(change, n) ==
    LET ref[i \in RsiPeriod+1..n] ==
          IF i = RsiPeriod + 1
          THEN (Scale * SumFunctionOnSet(change, 2..RsiPeriod+1)) \div RsiPeriod
          ELSE (ref[i - 1] * (RsiPeriod - 1) + Scale * change[i]) \div RsiPeriod
    IN ref[n]

\* RSI: gains and losses are averaged over the same changes of the closes, and
\* only closed bars count, whatever the open bar did in between.
RsiMatchesWilder ==
    gain # NoValue => /\ gain = WilderAverage(Changes("gain"), BarCount)
                      /\ loss = WilderAverage(Changes("loss"), BarCount)

\* Scale is fine enough for the bars there are: the least change is still there
\* after the last of them, as a float of the code's fades after thousands only.
OneTick == [i \in 2..MaxBars |-> IF i = 2 THEN 1 ELSE 0]

ASSUME ScaleAssumption == \A n \in RsiPeriod+1..MaxBars : WilderAverage(OneTick, n) > 0

Moved(side) == \E i \in 2..BarCount : Changes(side)[i] > 0

\* What an average still holds of any change, and what it has without one.
ChangesAreFelt ==
    gain # NoValue =>
      /\ IF Moved("gain") THEN gain >= WilderAverage(OneTick, BarCount) ELSE gain = 0
      /\ IF Moved("loss") THEN loss >= WilderAverage(OneTick, BarCount) ELSE loss = 0

\* compute: an RSI of 100 is a history without a loss, one of 0 a history with
\* losses only, and otherwise it is strictly between them.
RsiTellsTheSide ==
    gain # NoValue =>
      /\ Rsi[1] = Rsi[2] <=> ~Moved("loss")
      /\ Rsi[1] = 0 <=> Moved("loss") /\ ~Moved("gain")
      /\ 0 <= Rsi[1] /\ Rsi[1] <= Rsi[2]

\* "Bollinger Bands(20)": once the period is full the bands are those of the last
\* closes, whatever the deque forgot: the variance is the mean of the squares
\* less the square of the mean, and the bands meet in a flat market only.
BandsOfTheLastCloses ==
    Full(BandPeriod, closes) =>
      LET last == [i \in 1..BandPeriod |-> ClosePrice(BarCount - BandPeriod + i)]
          squares == SumFunction([i \in 1..BandPeriod |-> last[i] * last[i]])
      IN /\ Bands.middle = SumFunction(last)
         /\ Bands.spread = BandPeriod * (BandPeriod * squares - Bands.middle * Bands.middle)
         /\ Bands.spread = 0 <=> \A i \in 1..BandPeriod : last[i] = last[1]

\* The incremental averages are what their definitions say of the whole history
\* of closed bars: present on time, within the range of the prices, for the
\* RSI equal to Wilder's, and the bands of the last closes.
IndicatorInv == /\ IndicatorType /\ ReadyOnTime /\ StaysInRange /\ RsiMatchesWilder
                /\ ChangesAreFelt /\ RsiTellsTheSide /\ BandsOfTheLastCloses
=============================================================================
