------------------------------- MODULE MCAccess -------------------------------
(***************************************************************************)
(* What lets in and what is let in, for model checking: the token endpoint *)
(* of the MCP server, the rate limiter of the gateway API, its trading     *)
(* mode, and the stored credentials of the exchange. They share no key of  *)
(* Redis and no row, so that a behaviour is of one of them, and it uses    *)
(* interchangeable names in one order.                                     *)
(***************************************************************************)
EXTENDS OAuthFlow, RateLimit, TradingMode, Credentials, Names, TLC

VARIABLE guard      \* whose behaviour this is

vars == <<oauthVars, limitVars, modeVars, credentialVars, guard>>

\* The runs of the scripts that are not looked at are all alike.
AtRest == account /\ verify = {} /\ serviceKey = Invalid /\ \A p \in Savers : keyOf[p] = Invalid

Init ==
    /\ guard \in {"oauth", "limit", "mode", "credentials"}
    /\ OAuthInit /\ LimitInit /\ ModeInit
    /\ CredentialInit
    /\ guard # "credentials" => AtRest

OfOAuth == guard = "oauth" /\ UNCHANGED <<limitVars, modeVars, credentialVars, guard>>
OfLimit == guard = "limit" /\ UNCHANGED <<oauthVars, modeVars, credentialVars, guard>>
OfMode == guard = "mode" /\ UNCHANGED <<oauthVars, limitVars, credentialVars, guard>>

OfCredentials == guard = "credentials" /\ UNCHANGED <<oauthVars, limitVars, modeVars, guard>>

ClientOrder == Order(Clients)
CodeOrder == Order(Codes)
TokenOrder == Order(Tokens)
ExchangeOrder == Order(TokenRequests)
ApiOrder == Order(ApiRequests)
SaverOrder == Order(Savers)

OAuthInOrder ==
    /\ InOrder(ClientOrder, LAMBDA c : cookie'[c] = None)
    /\ InOrder(CodeOrder, LAMBDA k : code'[k] = None)
    /\ InOrder(TokenOrder, LAMBDA t : token'[t] = None)
    /\ InOrder(ExchangeOrder, LAMBDA r : exchange'[r] = "new")

\* One request may present anything; the other has the redirect_uri of its code,
\* and the verifier or not.
OAuthPairs == LET other == request'[ExchangeOrder[2]] IN other # None => other.uri = "same"

LimitInOrder == InOrder(ApiOrder, LAMBDA r : asked'[r].pc = "new")

SaversInOrder == InOrder(SaverOrder, LAMBDA p : stage'[p] = "started")

Next ==
    \/ OfOAuth /\ OAuthNext /\ OAuthInOrder /\ OAuthPairs
    \/ OfLimit /\ LimitNext /\ LimitInOrder
    \/ OfMode /\ ModeNext
    \/ OfCredentials /\ CredentialNext /\ SaversInOrder

Spec == Init /\ [][Next]_vars
=============================================================================
