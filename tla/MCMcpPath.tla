------------------------------ MODULE MCMcpPath ------------------------------
(***************************************************************************)
(* The way of a tool call, for model checking: the public gateway, the     *)
(* internal MCP server with clients of its own, and the way between them.  *)
(* The gateway's module has what it can see of the server and the way has  *)
(* one call, so that a behaviour is one of the three; OneShot is what the  *)
(* gateway takes for granted of the way and what the way is shown to keep. *)
(*                                                                         *)
(* Two readable tools of different scopes, a blocked one and an unknown    *)
(* one. The names of sessions, calls and requests are interchangeable, and *)
(* a behaviour uses those of a side in one order (liveness is checked, so  *)
(* that no symmetry is declared).                                          *)
(***************************************************************************)
EXTENDS WebGateway, ToolPath, Names, TLC

VARIABLE side       \* whose behaviour this is

MCTools == {"get_account_balances", "list_strategies", "request_paper_trade", "unknown"}
MCBlocked == {"request_paper_trade"}
MCScopes == {"mcp:account:read", "mcp:strategy:read"}
MCScopeOf == [t \in {"get_account_balances", "list_strategies"} |->
                IF t = "list_strategies" THEN "mcp:strategy:read" ELSE "mcp:account:read"]

MCSteps == Order(Requests)

vars == <<gatewayVars, pathVars, side>>

Init ==
    /\ GatewayInit /\ PathInit
    /\ side \in {"gateway", "server", "path"}

OfGateway == side = "gateway" /\ UNCHANGED <<pathVars, side>>
OfServer == side = "server" /\ UNCHANGED <<gatewayVars, clientVars, side>>
OfPath == side = "path" /\ UNCHANGED <<gatewayVars, side>>

IdsInOrder == Order(Ids)
CallsInOrder == Order(Calls)
SessionsInOrder == Order(SessionIds)

\* One call may be of anything, and one session's token of any scopes; the others
\* are there to meet them.
GatewayPairs ==
    /\ InOrder(IdsInOrder, LAMBDA s : stream'[s] = "none")
    /\ granted'[IdsInOrder[2]] \in {{}, Scopes}
    /\ tool'[CallsInOrder[2]] \in {None, "list_strategies"}

\* Two requests are enough for the server on its own.
OnlyTwo == handler'[Steps[3]] = "new"

ServerInOrder ==
    /\ InOrder(SessionsInOrder, LAMBDA s : generator'[s] = "none")
    /\ InOrder(Steps, LAMBDA r : handler'[r] = "new")

Next ==
    \/ OfGateway /\ GatewayNext /\ GatewayPairs
    \/ OfServer /\ SessionNext /\ OnlyTwo /\ ServerInOrder
    \/ OfPath /\ PathNext

\* Nothing of the gateway is enabled on the other sides, nor the client.
FairSpec == Init /\ [][Next]_vars /\ GatewayFairness /\ PathFairness

\* The gateway's shots and those on the way are both the abstract ones: a call
\* that is answered has run its tool, no other message is taken for its answer,
\* and on the way, each wait ends (GatewayReturns says so of the gateway).
ShotsAreOneShot == GatewayShots!Safety /\ Shot!Spec
=============================================================================
