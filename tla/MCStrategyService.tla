------------------------- MODULE MCStrategyService -------------------------
(***************************************************************************)
(* Constants for model checking StrategyService: two strategies and one    *)
(* symbol. The second strategy is the one that cannot be built, so that it *)
(* is never in the registry, and the first watches every symbol.           *)
(***************************************************************************)
EXTENDS StrategyService, TLC
CONSTANTS s1, s2, btc, c1, c2
MCWatches == (s1 :> {}) @@ (s2 :> {btc})
MCLevels == {"none", "l2_paper", "l4_bounded_auto"}
MCInitial == {(s1 :> state) @@ (s2 :> "paper_active") : state \in {"draft", "paper_active"}}
=============================================================================
