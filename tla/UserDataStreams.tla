--------------------------- MODULE UserDataStreams ---------------------------
(***************************************************************************)
(* The two ways in which the system hears of the accounts' own events: the *)
(* private stream of binance-ingest, which only publishes what it hears,   *)
(* and the account stream of the execution service, which                  *)
(* ACCOUNT_STREAM_ENABLED turns on and which keeps balances. They share    *)
(* nothing, so that a behaviour is one of the one or one of the other.     *)
(***************************************************************************)
EXTENDS AccountStream, PrivateStream

VARIABLE source     \* whose behaviour this is

vars == <<accountVars, privateVars, source>>

Init ==
    /\ AccountInit /\ PrivateInit
    /\ source \in {"account", "ingest"}

OfAccount == source = "account" /\ UNCHANGED <<privateVars, source>>
OfIngest == source = "ingest" /\ UNCHANGED <<accountVars, source>>

Next ==
    \/ OfAccount /\ AccountNext
    \/ OfIngest /\ PrivateNext

Spec == Init /\ [][Next]_vars

FairSpec ==
    /\ Spec
    /\ source = "account" => AccountFairness
    /\ source = "ingest" => PrivateFairness

\* Whatever closes, refuses or fails within the bounds, each of the two comes
\* back, the listener that reconnects and the loop that backs off, and one that
\* does not is not shown as healthy for ever.
StreamsReturn == StreamReturns /\ DeadIsNotHealthy /\ Reconnects
=============================================================================
