------------------------ MODULE MCExecutionConsumer ------------------------
(***************************************************************************)
(* An instance of ExecutionConsumer for TLC: the intents are for one       *)
(* symbol, the operator works the kill switch, and the instances of the    *)
(* service, which are interchangeable, read their first entries in one     *)
(* order.                                                                  *)
(***************************************************************************)
EXTENDS ExecutionConsumer, Names

CONSTANTS w1, w2, i1, i2, btc

OneSymbol == [i \in Intents |-> btc]

KillSwitchOnly == {"kill_switch"}

WorkerOrder == Order(Workers)

OrderedNext == Next /\ InOrder(WorkerOrder, LAMBDA w : entry'[w] = 0)

\* Fairness tells no instance from another either: every behaviour of FairSpec is
\* a renaming of one of these.
OrderedSpec == Init /\ [][OrderedNext]_vars /\ Fairness
=============================================================================
