------------------------------- MODULE ToolPath -------------------------------
(***************************************************************************)
(* One tool call on its way: InternalMcpClient._one_shot_rpc of the public *)
(* gateway against the sessions of the internal MCP server (McpSessions).  *)
(* The client opens a session of its own, posts initialize, the            *)
(* notification, and the call, and matches what comes back on the stream   *)
(* by the ids of its two requests. It does not look at the status of a     *)
(* POST, and it gives up each wait after a time of its own.                *)
(*                                                                         *)
(* Bounds: Shots is the one call; Steps names its three requests and       *)
(* OwnSession its session; a connection breaks once at most, beside the    *)
(* failures of McpSessions.                                                *)
(***************************************************************************)
EXTENDS McpSessions

CONSTANTS Shots, Steps, OwnSession

ASSUME PathAssumption ==
    /\ Steps \in Seq(Requests) /\ Len(Steps) = 3
    /\ Cardinality({Steps[k] : k \in 1..3}) = 3
    /\ OwnSession \in SessionIds
    /\ \A s, t \in Shots : s = t

VARIABLES
    client,   \* what _one_shot_rpc is doing
    step,     \* the request it is at, of Steps
    reader    \* what _read_sse has made of the stream: "reading" or "broken"

clientVars == <<client, step, reader>>
pathVars == <<mcpVars, clientVars>>

PathInit ==
    /\ SessionInit
    /\ client = "idle" /\ step = 0 /\ reader = "reading"

Current == Steps[step]
Stay == UNCHANGED <<step, reader>>

\* GET /sse. Without a connection the error leaves the client as it is.
Dial ==
    /\ client = "idle"
    /\ client' = "dialing"
    /\ Stay /\ UNCHANGED mcpVars

Refused ==
    /\ client = "dialing" /\ generator[OwnSession] = "none"
    /\ SessionFault /\ client' = "raised"
    /\ Stay
    /\ UNCHANGED <<registryVars, responses, readBack, requestVars, ticks>>

\* The server makes the session, or answers 500, which nobody looks at.
Accepted ==
    /\ client = "dialing"
    /\ CreateSession(OwnSession)
    /\ client' = "endpoint"
    /\ Stay

\* The first line of the stream is the path to post to.
Ready ==
    /\ client = "endpoint" /\ generator[OwnSession] = "open" /\ reader = "reading"
    /\ client' = "posting" /\ step' = 1
    /\ UNCHANGED <<mcpVars, reader>>

PostStep ==
    /\ client = "posting"
    /\ PostRequest(Current, OwnSession)
    /\ client' = "posted"
    /\ Stay

Returned == {"accepted", "rejected", "raised"}

\* The POST returns, whatever its status. Nothing is waited for after the
\* notification, although the server answers it.
PostReturns ==
    /\ client = "posted" /\ handler[Current] \in Returned
    /\ IF step = 2 THEN client' = "posting" /\ step' = 3
                   ELSE client' = "waiting" /\ UNCHANGED step
    /\ UNCHANGED <<mcpVars, reader>>

\* A bug to detect: any message is taken for the answer.
AnyAnswer == readBack \ {Steps[1]} # {} \/ Current \in readBack

\* _read_sse puts a message to the future of its id.
Answered == Current \in readBack

\* What the reader raised is raised again by the finally, an answer or not.
Concluded(end) == client' = IF reader = "broken" THEN "raised" ELSE end

TakeAnswer ==
    /\ client = "waiting" /\ Answered
    /\ IF step = 1 THEN client' = "posting" /\ step' = 2
                   ELSE Concluded("returned") /\ UNCHANGED step
    /\ UNCHANGED <<mcpVars, reader>>

\* 8 s for the path, 20 s for a POST, 5 s and 15 s for an answer.
GiveUp ==
    /\ client \in {"endpoint", "posting", "posted", "waiting"}
    /\ Concluded("upstream_error")
    /\ Stay /\ UNCHANGED mcpVars

\* The connection of the stream breaks; the waits go on.
Break ==
    /\ reader = "reading" /\ client \in {"endpoint", "posting", "posted", "waiting"}
    /\ SessionFault
    /\ reader' = "broken"
    /\ UNCHANGED <<registryVars, responses, readBack, requestVars, ticks, client, step>>

Over == client \in {"returned", "upstream_error", "raised"}

\* The server writes to the stream while somebody reads it, and ends it when
\* nobody does or a keepalive tick fails.
Server ==
    /\ \/ StartGenerator(OwnSession)
       \/ reader = "reading" /\ ~Over /\ DeliverResponse(OwnSession)
       \/ (Over \/ reader = "broken" \/ idle[OwnSession]) /\ CloseSession(OwnSession)
       \/ \E r \in Requests : HandleMessage(r)
       \/ KeepaliveTick
    /\ UNCHANGED clientVars

ClientStep == Dial \/ Refused \/ Accepted \/ Ready \/ PostStep \/ PostReturns \/ TakeAnswer \/ GiveUp

PathNext == ClientStep \/ Break \/ Server

PathSpec == PathInit /\ [][PathNext]_pathVars

\* Each wait of the client ends, with an answer or its timeout.
PathFairness == WF_pathVars(client # "idle" /\ ClientStep)

-----------------------------------------------------------------------------
\* The shot, as the abstract specification sees it.
ShotResult ==
    CASE client = "idle" -> "idle"
      [] client = "returned" -> "ok"
      [] client \in {"upstream_error", "raised"} -> "failed"
      [] OTHER -> "open"

Shot == INSTANCE OneShot WITH
    result <- [s \in Shots |-> ShotResult],
    ran <- {s \in Shots : client # "idle" /\ executed[Steps[3]] > 0}
=============================================================================
