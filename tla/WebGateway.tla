------------------------------ MODULE WebGateway ------------------------------
(***************************************************************************)
(* The MCP web gateway: SSE sessions in process memory under a cap, the    *)
(* tool policy, one audit line per tool call, and the one-shot SSE proxy   *)
(* that carries an approved call to the internal MCP server.               *)
(*                                                                         *)
(* A session's stream generator and each POST are separate tasks; they     *)
(* meet in the session table and in the session's queue.  The internal     *)
(* server appears as what the proxy can see of it.                         *)
(*                                                                         *)
(* Bounds: the clients' sessions are Ids and their messages Calls, each    *)
(* used once; MaxFaults failures, each of another kind.                    *)
(***************************************************************************)
EXTENDS Integers, Sequences, FiniteSets

CONSTANTS Ids, Calls, Tools, ScopeOf, Blocked, Scopes, MaxSessions, MaxFaults, None

ASSUME GatewayAssumption ==
    /\ IsFiniteSet(Ids) /\ MaxSessions \in Nat
    /\ Blocked \subseteq Tools /\ DOMAIN ScopeOf \subseteq Tools \ Blocked
    /\ \A t \in DOMAIN ScopeOf : ScopeOf[t] \in Scopes
    /\ {"tools/list", "ping"} \cap Tools = {}
    /\ MaxFaults \in Nat

VARIABLES
    sessions,  \* the ids in _sessions
    granted,   \* the scopes of each session's token
    stream,    \* each session's event_stream generator
    queue,     \* each session's queue of answers
    received,  \* the calls whose answer the client has read
    pc,        \* where the POST of each call is
    session,   \* the session each call belongs to
    tool,      \* the method or tool it names
    sent,      \* the calls whose POST to the internal server has left
    forwarded, \* the calls that reached a tool of the internal server
    audit,     \* the audit log
    faults     \* the kinds of failure that have happened

sessionVars == <<sessions, granted, stream>>
callVars == <<session, tool>>
gatewayVars == <<sessionVars, queue, received, pc, callVars, sent, forwarded, audit, faults>>

Fault(kind) ==
    kind \notin faults /\ Cardinality(faults) < MaxFaults /\ faults' = faults \cup {kind}

GatewayInit ==
    /\ sessions = {} /\ granted = [s \in Ids |-> {}]
    /\ stream = [s \in Ids |-> "none"]
    /\ queue = [s \in Ids |-> <<>>]
    /\ received = {}
    /\ pc = [c \in Calls |-> "new"]
    /\ session = [c \in Calls |-> None] /\ tool = [c \in Calls |-> None]
    /\ sent = {} /\ forwarded = {} /\ audit = {}
    /\ faults = {}

-----------------------------------------------------------------------------
\* Sessions: sse_endpoint and its event_stream.

Full == Cardinality(sessions) >= MaxSessions

\* The count is read and the session entered without an await between.
Open(s) ==
    /\ stream[s] = "none"
    /\ IF Full
       THEN /\ stream' = [stream EXCEPT ![s] = "refused"]
            /\ UNCHANGED <<sessions, granted>>
       ELSE /\ sessions' = sessions \cup {s}
            /\ \E g \in SUBSET Scopes : granted' = [granted EXCEPT ![s] = g]
            /\ stream' = [stream EXCEPT ![s] = "created"]
    /\ UNCHANGED <<queue, received, pc, callVars, sent, forwarded, audit, faults>>

\* The response starts the generator, unless the client has left before.
Start(s) ==
    /\ stream[s] = "created"
    /\ \/ stream' = [stream EXCEPT ![s] = "open"] /\ UNCHANGED faults
       \/ Fault("never_started") /\ stream' = [stream EXCEPT ![s] = "closed"]
    /\ UNCHANGED <<sessions, granted, queue, received, pc, callVars, sent, forwarded, audit>>

Deliver(s) ==
    /\ stream[s] = "open" /\ queue[s] # <<>>
    /\ received' = received \cup {Head(queue[s])}
    /\ queue' = [queue EXCEPT ![s] = Tail(@)]
    /\ UNCHANGED <<sessionVars, pc, callVars, sent, forwarded, audit, faults>>

\* A bug to detect: the loop ends without its finally.
EndWithoutRemove(s) ==
    /\ stream[s] = "open"
    /\ stream' = [stream EXCEPT ![s] = "closed"]
    /\ UNCHANGED <<sessions, granted, queue, received, pc, callVars, sent, forwarded,
                   audit, faults>>

\* The deadline of session_timeout_s, or the client's departure.
End(s) ==
    /\ stream[s] = "open"
    /\ stream' = [stream EXCEPT ![s] = "closed"]
    /\ sessions' = sessions \ {s}
    /\ UNCHANGED <<granted, queue, received, pc, callVars, sent, forwarded, audit, faults>>

-----------------------------------------------------------------------------
\* Messages: messages_endpoint and the policy.

\* A bug to detect: what is not blocked is allowed.
NotBlocked(t, scopes) == t \notin Blocked

\* check_tool_call: neither blocked nor unknown, and the scope is granted.
Permitted(t, scopes) == t \in DOMAIN ScopeOf /\ ScopeOf[t] \in scopes

Log(c, outcome) == audit' = audit \cup {[call |-> c, outcome |-> outcome]}

Answer(c) == queue' = [queue EXCEPT ![session[c]] = Append(@, c)]
Goto(c, label) == pc' = [pc EXCEPT ![c] = label]

\* A session that is not in the table is a 404.  The token is not read again.
Post(c, s, t) ==
    /\ pc[c] = "new" /\ stream[s] \notin {"none", "refused"}
    /\ session' = [session EXCEPT ![c] = s] /\ tool' = [tool EXCEPT ![c] = t]
    /\ Goto(c, IF s \notin sessions THEN "rejected"
               ELSE IF t = "tools/list" THEN "connecting"
               ELSE IF t = "ping" THEN "answering" ELSE "checking")
    /\ UNCHANGED <<sessionVars, queue, received, sent, forwarded, audit, faults>>

\* initialize, ping and unknown methods are answered by the gateway itself.
AnswerLocally(c) ==
    /\ pc[c] = "answering"
    /\ Answer(c) /\ Goto(c, "answered")
    /\ UNCHANGED <<sessionVars, received, callVars, sent, forwarded, audit, faults>>

\* A bug to detect: a denied call is answered without an audit line.
DenyInSilence(c) ==
    /\ pc[c] = "checking"
    /\ \/ Permitted(tool[c], granted[session[c]]) /\ Goto(c, "connecting") /\ UNCHANGED queue
       \/ /\ ~Permitted(tool[c], granted[session[c]])
          /\ Answer(c) /\ Goto(c, "answered")
    /\ UNCHANGED <<sessionVars, received, callVars, sent, forwarded, audit, faults>>

CheckPolicy(c) ==
    /\ pc[c] = "checking"
    /\ \/ /\ Permitted(tool[c], granted[session[c]])
          /\ Goto(c, "connecting")
          /\ UNCHANGED <<queue, audit>>
       \/ /\ ~Permitted(tool[c], granted[session[c]])
          /\ Log(c, "denied") /\ Answer(c) /\ Goto(c, "answered")
    /\ UNCHANGED <<sessionVars, received, callVars, sent, forwarded, faults>>

-----------------------------------------------------------------------------
\* InternalMcpClient._one_shot_rpc.

\* Only a tool call is audited.
Finish(c, outcome) ==
    IF tool[c] = "tools/list" THEN UNCHANGED audit ELSE Log(c, outcome)

\* What is raised outside the try (no connection), or by the reader when it is
\* awaited in the finally (a connection that breaks), is no UpstreamError: it
\* leaves the handler, and nothing is put on the queue.
Escape(c) ==
    /\ Finish(c, "error") /\ Goto(c, "raised")
    /\ UNCHANGED queue

Connect(c) ==
    /\ pc[c] = "connecting"
    /\ \/ Goto(c, "opening") /\ UNCHANGED <<queue, audit, faults>>
       \/ Fault("unreachable") /\ Escape(c)
    /\ UNCHANGED <<sessionVars, received, callVars, sent, forwarded>>

\* The endpoint event, initialize and notifications/initialized; then the POST
\* of the call leaves.
Initialize(c) ==
    /\ pc[c] = "opening"
    /\ \/ Goto(c, "calling") /\ sent' = sent \cup {c} /\ UNCHANGED <<queue, audit, faults>>
       \/ /\ Fault("timeout")
          /\ Finish(c, "upstream_error") /\ Answer(c) /\ Goto(c, "answered")
          /\ UNCHANGED sent
       \/ Fault("broken") /\ Escape(c) /\ UNCHANGED sent
    /\ UNCHANGED <<sessionVars, received, callVars, forwarded>>

\* The internal server runs the tool, whether or not anyone still waits for it.
Reach(c) ==
    /\ c \in sent \ forwarded
    /\ forwarded' = forwarded \cup {c}
    /\ UNCHANGED <<sessionVars, queue, received, pc, callVars, sent, audit, faults>>

\* The answer of the call: a result, an error, none in time, or a broken
\* connection.
Call(c) ==
    /\ pc[c] = "calling"
    /\ \/ /\ c \in forwarded
          /\ Finish(c, "allowed") /\ Answer(c) /\ Goto(c, "answered")
          /\ UNCHANGED faults
       \/ Fault("timeout") /\ Finish(c, "upstream_error") /\ Answer(c) /\ Goto(c, "answered")
       \/ Fault("broken") /\ Escape(c)
    /\ UNCHANGED <<sessionVars, received, callVars, sent, forwarded>>

Handle(c) == AnswerLocally(c) \/ CheckPolicy(c) \/ Connect(c) \/ Initialize(c) \/ Call(c)

GatewayNext ==
    \/ \E s \in Ids : Open(s) \/ Start(s) \/ Deliver(s) \/ End(s)
    \/ \E c \in Calls :
         \/ \E s \in Ids, t \in Tools \cup {"tools/list", "ping"} : Post(c, s, t)
         \/ Handle(c)
         \/ Reach(c)

GatewaySpec == GatewayInit /\ [][GatewayNext]_gatewayVars

\* The event loop runs every task, and a stream ends at its deadline. The
\* internal server runs a tool that is waited for; any other may run or not.
GatewayFairness ==
    /\ \A s \in Ids :
         WF_gatewayVars(Start(s)) /\ WF_gatewayVars(Deliver(s)) /\ WF_gatewayVars(End(s))
    /\ \A c \in Calls : WF_gatewayVars(Handle(c)) /\ WF_gatewayVars(pc[c] = "calling" /\ Reach(c))

-----------------------------------------------------------------------------
Labels == {"new", "rejected", "answering", "checking", "connecting", "opening", "calling",
           "answered", "raised"}

\* Every variable keeps its type.
GatewayType ==
    /\ sessions \subseteq Ids
    /\ granted \in [Ids -> SUBSET Scopes]
    /\ stream \in [Ids -> {"none", "refused", "created", "open", "closed"}]
    /\ queue \in [Ids -> Seq(Calls)]
    /\ received \subseteq Calls /\ sent \subseteq Calls /\ forwarded \subseteq sent
    /\ pc \in [Calls -> Labels]
    /\ session \in [Calls -> Ids \cup {None}]
    /\ tool \in [Calls -> Tools \cup {"tools/list", "ping", None}]
    /\ audit \subseteq [call : Calls,
                        outcome : {"allowed", "denied", "upstream_error", "error"}]
    /\ faults \subseteq {"never_started", "unreachable", "timeout", "broken"}

\* "concurrent session cap" (config.py:35), and no stream without a session.
CapHolds ==
    /\ Cardinality(sessions) <= MaxSessions
    /\ \A s \in Ids : stream[s] \in {"created", "open"} => s \in sessions

\* "Write, control, and simulation tools are blocked at this layer -- they
\* never reach the internal MCP server" (policy.py:3), and no tool is reached
\* without the scope that the session's token grants.
OnlyPermittedReachTools ==
    \A c \in forwarded :
      \/ tool[c] = "tools/list"
      \/ /\ tool[c] \notin Blocked
         /\ tool[c] \in DOMAIN ScopeOf /\ ScopeOf[tool[c]] \in granted[session[c]]

\* What a call has been through, wherever it is: it belongs to a session whose
\* token is not read again, and only what the policy let pass is on its way.
InFlight ==
    \A c \in Calls :
      /\ pc[c] # "new" => session[c] \in Ids /\ stream[session[c]] \notin {"none", "refused"}
      /\ pc[c] = "checking" => tool[c] \in Tools
      /\ pc[c] = "answering" => tool[c] \notin Tools
      /\ pc[c] \in {"connecting", "opening", "calling"} \/ c \in sent
           => tool[c] = "tools/list" \/ Permitted(tool[c], granted[session[c]])
      /\ c \in sent => pc[c] \in {"calling", "answered", "raised"}

\* "Writes a structured audit log line for every tool/call attempt"
\* (main.py:14): one line per finished call, and it says what happened.
AuditTellsOutcome ==
    \A c \in Calls :
      /\ (tool[c] \in Tools /\ pc[c] \in {"answered", "raised"})
           <=> \E a \in audit : a.call = c
      /\ \A a, b \in audit : a.call = c /\ b.call = c => a = b
      /\ \A a \in audit : a.call = c =>
           /\ a.outcome = "allowed" => c \in forwarded
           /\ a.outcome = "denied" => c \notin sent
           /\ a.outcome = "error" <=> pc[c] = "raised"

\* "dispatches them ... tools/call policy-checked, then proxied" (main.py:7):
\* when the POST of a message has been dealt with, its answer has been put on
\* the queue of its own session, once, and no answer comes before or else.
Copies(c, s) == {i \in DOMAIN queue[s] : queue[s][i] = c}

FinishedIsAnswered ==
    \A c \in Calls :
      /\ pc[c] = "answered" <=> (c \in received \/ \E s \in Ids : Copies(c, s) # {})
      /\ \A s \in Ids :
           /\ Copies(c, s) # {} => s = session[c] /\ c \notin received
           /\ \A i, j \in Copies(c, s) : i = j

\* A message that is accepted is eventually answered, unless the way to the
\* internal server breaks under it.
AcceptedIsAnswered ==
    \A c \in Calls :
      pc[c] \in {"answering", "checking", "connecting"}
        ~> (pc[c] = "answered" \/ faults \cap {"unreachable", "broken"} # {})

\* "max client SSE session lifetime (seconds)" (config.py:34): a session
\* leaves the table, and its place is free, if its stream has been started.
SlotsAreFreed ==
    \A s \in Ids : s \in sessions ~> (s \notin sessions \/ "never_started" \in faults)

\* Whatever happens at the internal server and whenever clients leave: accepted
\* messages are answered and the places of ended streams are given back.
GatewayReturns == AcceptedIsAnswered /\ SlotsAreFreed

\* A tool call as a shot at the internal server: what the gateway takes for an
\* answer is what the abstract specification promises, and no more.
ShotOf(c) ==
    IF tool[c] \notin Tools THEN "idle"
    ELSE IF pc[c] \in {"connecting", "opening", "calling"} THEN "open"
    ELSE IF \E a \in audit : a.call = c /\ a.outcome = "allowed" THEN "ok"
    ELSE IF \E a \in audit : a.call = c /\ a.outcome # "denied" THEN "failed"
    ELSE "idle"

GatewayShots == INSTANCE OneShot WITH
    Shots <- Calls, result <- [c \in Calls |-> ShotOf(c)],
    ran <- {c \in forwarded : tool[c] \in Tools}

\* The books of the gateway: sessions within the cap and streams only of them,
\* calls on their way only where the policy allows, one audit line per finished
\* call that says what happened, and one answer on the queue of its own session.
GatewayInv == GatewayType /\ CapHolds /\ InFlight /\ AuditTellsOutcome /\ FinishedIsAnswered
=============================================================================
