----------------------------- MODULE SymbolState -----------------------------
(***************************************************************************)
(* What the analytics service keeps of one symbol (analytics/state.py      *)
(* SymbolState): the indicators, the walls of the book, and the flow of    *)
(* trades and liquidations. AnalyticsDispatcher hands an event to the      *)
(* engine of its type, and no engine reads another's state, so that a      *)
(* behaviour has the events of one of the subscribed streams and the other *)
(* engines stay as they began. With all of them a behaviour is of what the *)
(* service makes of several symbols, with the engines' values left out.    *)
(*                                                                         *)
(* Bounds: those of the parts, and FewTogether.                            *)
(***************************************************************************)
EXTENDS Indicators, BookWalls, TradeFlow, DecisionSnapshot, TLC

VARIABLE subscribed    \* the stream of BINANCE_STREAMS whose events arrive

vars == <<indicatorVars, wallVars, flowVars, snapshotVars, subscribed>>

Init ==
    /\ IndicatorInit /\ WallInit /\ FlowInit /\ SnapshotInit
    /\ subscribed \in {"kline", "depth", "trade", "forceOrder", "all"}
    /\ subscribed # "depth" => \A p \in TradePrices : lastPrice <= p

OnlyIndicators == subscribed = "kline" /\ UNCHANGED <<wallVars, flowVars, snapshotVars, subscribed>>
OnlyWalls == subscribed = "depth" /\ UNCHANGED <<indicatorVars, flowVars, snapshotVars, subscribed>>
OnlyFlow == subscribed \in {"trade", "forceOrder"}
            /\ UNCHANGED <<indicatorVars, wallVars, snapshotVars, subscribed>>
OnlySnapshots == subscribed = "all" /\ UNCHANGED <<indicatorVars, wallVars, flowVars, subscribed>>

\* The last interval is there for keys to expire in it while a round goes on; the
\* last event is of the symbol that had the others.
FewTogether ==
    /\ clock = MaxClock => round # Nil
    /\ events' = MaxEvents => Cardinality({s \in Symbols : states'[s] # Nil}) <= 1

Next ==
    \/ OnlyIndicators /\ Kline
    \/ OnlyWalls /\ (UpdateWalls \/ PriceMoves)
    \/ OnlyFlow /\ (\/ subscribed = "trade" /\ OnTrade
                    \/ subscribed = "forceOrder" /\ OnLiquidation
                    \/ Tick)
    \/ OnlySnapshots /\ SnapshotNext /\ FewTogether

Spec == Init /\ [][Next]_vars

SymbolSymmetry == Permutations(Symbols)
=============================================================================
