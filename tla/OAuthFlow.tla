------------------------------ MODULE OAuthFlow ------------------------------
(***************************************************************************)
(* How a client of the MCP server comes by a bearer token: the login form  *)
(* signs a cookie, /oauth/authorize turns a fresh cookie into a code,      *)
(* /oauth/token reads and deletes the code in one MULTI, checks what the   *)
(* caller presented against it and stores a token.                         *)
(*                                                                         *)
(* A browser is logged in as one user, so a cookie is the time it was      *)
(* signed. A Redis key is a record with the time at which it expires;      *)
(* expired keys are kept, with that time, so that the properties can speak *)
(* of them. Whether a caller's verifier hashes to the challenge, and       *)
(* whether its redirect_uri is the code's, are two bits of its request.    *)
(* OAUTH_DEMO_MODE is off, as by default: it would grant a code without a  *)
(* login.                                                                  *)
(*                                                                         *)
(* Bounds: every code, token and request is used once; time stops at       *)
(* MaxTime; MaxOAuthFaults failures of Redis.                              *)
(***************************************************************************)
EXTENDS Integers, FiniteSets

CONSTANTS Clients, Allowed, Codes, Tokens, TokenRequests,
          CookieAge, CodeTtl, TokenTtl, MaxTime, MaxOAuthFaults, None

Times == 0..(MaxTime + CookieAge + CodeTtl + TokenTtl)
Entry == [client : Clients, login : 0..MaxTime, until : Times]
Grant == [client : Clients, login : 0..MaxTime, until : Times, request : TokenRequests]
Presented == [code : Codes, verifier : BOOLEAN, uri : {"none", "same", "other"}]

ASSUME OAuthAssumption ==
    /\ Allowed \subseteq Clients
    /\ None \notin Nat \cup Entry \cup Grant \cup Presented
    /\ CookieAge \in Nat /\ CodeTtl \in Nat \ {0} /\ TokenTtl \in Nat \ {0}
    /\ MaxTime \in Nat /\ MaxOAuthFaults \in Nat

VARIABLES
    clock,
    cookie,     \* when each client's browser was logged in, None before
    code,       \* mcp:oauth:code:<code>: who it is for and how long
    spent,      \* the codes that a request has deleted
    token,      \* mcp:oauth:token:<token>
    exchange,         \* where each POST /oauth/token is
    request,    \* what it presented
    codeData,   \* what the MULTI returned to it
    oauthFaults

oauthVars == <<clock, cookie, code, spent, token, exchange, request, codeData, oauthFaults>>

OAuthInit ==
    /\ clock = 0 /\ cookie = [c \in Clients |-> None]
    /\ code = [k \in Codes |-> None] /\ spent = {}
    /\ token = [t \in Tokens |-> None]
    /\ exchange = [r \in TokenRequests |-> "new"] /\ request = [r \in TokenRequests |-> None]
    /\ codeData = [r \in TokenRequests |-> None] /\ oauthFaults = 0

Live(entry) == entry # None /\ clock < entry.until

OAuthFault == oauthFaults < MaxOAuthFaults /\ oauthFaults' = oauthFaults + 1

-----------------------------------------------------------------------------
\* login_post with the right credentials; with others it renders the form.
Login(c) ==
    /\ cookie' = [cookie EXCEPT ![c] = clock]
    /\ UNCHANGED <<clock, code, spent, token, exchange, request, codeData, oauthFaults>>

\* verify_session_cookie: a cookie of exactly the maximal age is still good.
Fresh(c) == cookie[c] # None /\ clock - cookie[c] <= CookieAge

\* authorize. A client that is not allowed, or that has no fresh cookie, is
\* answered with an error or a redirect to the login form.
Authorize(c, k) ==
    /\ code[k] = None
    /\ c \in Allowed /\ Fresh(c)
    /\ \/ /\ code' = [code EXCEPT ![k] =
                        [client |-> c, login |-> cookie[c], until |-> clock + CodeTtl]]
          /\ UNCHANGED oauthFaults
       \/ OAuthFault /\ UNCHANGED code
    /\ UNCHANGED <<clock, cookie, spent, token, exchange, request, codeData>>

-----------------------------------------------------------------------------
\* A bug to detect: GET without the DELETE.
OnlyRead(k) == spent

\* The DELETE of consume_auth_code.
Deleted(k) == spent \cup {k}

Readable(k) == k \notin spent /\ Live(code[k])

\* consume_auth_code: GET and DELETE in one MULTI. It may be executed without
\* the reply reaching the server.
Consume(r, k, verifier, uri) ==
    /\ exchange[r] = "new" /\ code[k] # None
    /\ request' = [request EXCEPT ![r] =
                     [code |-> k, verifier |-> verifier, uri |-> uri]]
    /\ \/ /\ codeData' = [codeData EXCEPT ![r] = IF Readable(k) THEN code[k] ELSE None]
          /\ spent' = Deleted(k)
          /\ exchange' = [exchange EXCEPT ![r] = IF Readable(k) THEN "consumed" ELSE "refused"]
          /\ UNCHANGED oauthFaults
       \/ /\ OAuthFault
          /\ spent' \in {spent, Deleted(k)}
          /\ exchange' = [exchange EXCEPT ![r] = "failed"]
          /\ UNCHANGED codeData
    /\ UNCHANGED <<clock, cookie, code, token>>

\* verify_pkce_s256 and the redirect_uri, which is compared when it is given.
Verified(r) == request[r].verifier /\ request[r].uri # "other"

Refuse(r) ==
    /\ exchange[r] = "consumed" /\ ~Verified(r)
    /\ exchange' = [exchange EXCEPT ![r] = "refused"]
    /\ UNCHANGED <<clock, cookie, code, spent, token, request, codeData, oauthFaults>>

\* store_bearer_token.
Expiry == clock + TokenTtl

Issue(r, t) ==
    /\ exchange[r] = "consumed" /\ Verified(r) /\ token[t] = None
    /\ LET d == codeData[r]
           grant == [client |-> d.client, login |-> d.login, until |-> Expiry, request |-> r]
       IN \/ /\ token' = [token EXCEPT ![t] = grant]
             /\ exchange' = [exchange EXCEPT ![r] = "issued"]
             /\ UNCHANGED oauthFaults
          \/ /\ OAuthFault
             /\ token' \in {token, [token EXCEPT ![t] = grant]}
             /\ exchange' = [exchange EXCEPT ![r] = "failed"]
    /\ UNCHANGED <<clock, cookie, code, spent, request, codeData>>

\* A request takes far less than a unit of time.
OAuthTick ==
    /\ clock < MaxTime /\ clock' = clock + 1
    /\ \A r \in TokenRequests : exchange[r] # "consumed"
    /\ UNCHANGED <<cookie, code, spent, token, exchange, request, codeData, oauthFaults>>

OAuthNext ==
    \/ \E c \in Clients : Login(c) \/ \E k \in Codes : Authorize(c, k)
    \/ \E r \in TokenRequests :
         \/ \E k \in Codes, v \in BOOLEAN, u \in {"none", "same", "other"} : Consume(r, k, v, u)
         \/ Refuse(r)
         \/ \E t \in Tokens : Issue(r, t)
    \/ OAuthTick

OAuthSpec == OAuthInit /\ [][OAuthNext]_oauthVars

-----------------------------------------------------------------------------
\* Every variable keeps its type.
OAuthType ==
    /\ clock \in 0..MaxTime
    /\ cookie \in [Clients -> 0..MaxTime \cup {None}]
    /\ code \in [Codes -> Entry \cup {None}] /\ spent \subseteq Codes
    /\ token \in [Tokens -> Grant \cup {None}]
    /\ exchange \in [TokenRequests -> {"new", "consumed", "refused", "failed", "issued"}]
    /\ request \in [TokenRequests -> Presented \cup {None}]
    /\ codeData \in [TokenRequests -> Entry \cup {None}]
    /\ oauthFaults \in 0..MaxOAuthFaults

Issued == {t \in Tokens : token[t] # None}
CodeOf(t) == request[token[t].request].code

\* A code buys at most one token, however many requests present it at once and
\* whatever fails between consume_auth_code and store_bearer_token.
OneTokenPerCode ==
    \A t, u \in Issued : CodeOf(t) = CodeOf(u) => t = u

\* A token is for the client that its code was made for, and was asked for with
\* the verifier of that code.
TokenMatchesCode ==
    \A t \in Issued :
      /\ token[t].client = code[CodeOf(t)].client
      /\ request[token[t].request].verifier /\ request[token[t].request].uri # "other"

\* The first request that presents a code decides on it: while one request
\* holds the data of a code, and after it was refused, no other obtains them.
\* The code of a failed verification is not given back.
FirstUseDecides ==
    \A r, q \in TokenRequests :
      codeData[r] # None /\ codeData[q] # None /\ request[r].code = request[q].code => r = q

\* What a login is good for ends: the lives of the cookie, the code and the
\* token add up, and there is no step that renews one of them.
AccessEndsAfterLogin ==
    \A t \in Issued :
      Live(token[t]) => clock - token[t].login < CookieAge + CodeTtl + TokenTtl

\* What a request has obtained is of a code that it deleted, that was good when it
\* did, and still is while the request checks it.
HoldsItsCode ==
    /\ \A k \in Codes :
         code[k] # None => code[k].until <= code[k].login + CookieAge + CodeTtl
    /\ \A r \in TokenRequests :
         /\ exchange[r] # "new" => request[r] # None
         /\ exchange[r] = "consumed" => codeData[r] # None /\ clock < codeData[r].until
         /\ codeData[r] # None =>
              /\ exchange[r] # "new" /\ request[r].code \in spent
              /\ codeData[r] = code[request[r].code]

\* Where a token comes from: one request that held a code and was verified.
TokenFromRequest ==
    \A t \in Issued :
      LET r == token[t].request IN
      /\ exchange[r] \in {"issued", "failed"} /\ codeData[r] # None /\ Verified(r)
      /\ token[t].client = codeData[r].client /\ token[t].login = codeData[r].login
      /\ token[t].until < token[t].login + CookieAge + CodeTtl + TokenTtl
      /\ \A u \in Issued : token[u].request = r => u = t

\* A token stands for one login: one per code, for the client and the verifier
\* of that code, decided by the first request that presents it, and over when
\* the three lifetimes are.
OAuthInv == /\ OAuthType /\ OneTokenPerCode /\ TokenMatchesCode /\ FirstUseDecides
            /\ AccessEndsAfterLogin /\ HoldsItsCode /\ TokenFromRequest
=============================================================================
