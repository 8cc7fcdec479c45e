----------------------------- MODULE McpSessions -----------------------------
(***************************************************************************)
(* The SSE sessions of the MCP server: RedisSessionRegistry (a queue in    *)
(* the process, metadata with a TTL in Redis), the event_stream generator  *)
(* of each session with its keepalive ticks, and the POST handler, which   *)
(* looks its session up across an await, runs a tool and queues the        *)
(* response.                                                               *)
(*                                                                         *)
(* Time passes in ticks of the 15 seconds that event_stream waits for a    *)
(* message; a session key lives Ttl of them (300 s / 15 s = 20 in the      *)
(* deployed settings) after it was last set.                               *)
(*                                                                         *)
(* Bounds: every id of SessionIds and every request of Requests is used    *)
(* once, MaxTicks ticks, MaxSessionFaults failures.                        *)
(***************************************************************************)
EXTENDS Integers, Sequences, FiniteSets

CONSTANTS SessionIds, Requests, Ttl, MaxTicks, MaxSessionFaults, NoSession

ASSUME SessionAssumption ==
    Ttl \in Nat \ {0} /\ MaxTicks \in Nat /\ MaxSessionFaults \in Nat

VARIABLES
    local,     \* the ids in _local
    ttl,       \* the ticks that each session key has left in Redis, 0 if gone
    generator, \* each session's event_stream generator
    idle,      \* the generator has received nothing since the last tick
    responses, \* each session's queue
    readBack,  \* the requests whose response the client has read
    handler,   \* where the POST of each request is
    target,    \* the session it names
    found,     \* what EXISTS answered it
    executed,  \* how often its tool has run
    ticks, sessionFaults

registryVars == <<local, ttl, generator, idle>>
requestVars == <<handler, target, found, executed>>
mcpVars == <<registryVars, responses, readBack, requestVars, ticks, sessionFaults>>

SessionFault == sessionFaults < MaxSessionFaults /\ sessionFaults' = sessionFaults + 1

SessionInit ==
    /\ local = {} /\ ttl = [s \in SessionIds |-> 0]
    /\ generator = [s \in SessionIds |-> "none"] /\ idle = [s \in SessionIds |-> FALSE]
    /\ responses = [s \in SessionIds |-> <<>>] /\ readBack = {}
    /\ handler = [r \in Requests |-> "new"] /\ target = [r \in Requests |-> NoSession]
    /\ found = [r \in Requests |-> FALSE] /\ executed = [r \in Requests |-> 0]
    /\ ticks = 0 /\ sessionFaults = 0

-----------------------------------------------------------------------------
\* The registry and the generator.

\* create: the queue is entered before the metadata is written.
CreateSession(s) ==
    /\ generator[s] = "none"
    /\ local' = local \cup {s}
    /\ \/ /\ ttl' = [ttl EXCEPT ![s] = Ttl]
          /\ generator' = [generator EXCEPT ![s] = "created"]
          /\ UNCHANGED sessionFaults
       \/ /\ SessionFault
          /\ generator' = [generator EXCEPT ![s] = "closed"]
          /\ UNCHANGED ttl
    /\ UNCHANGED <<idle, responses, readBack, requestVars, ticks>>

StartGenerator(s) ==
    /\ generator[s] = "created"
    /\ \/ generator' = [generator EXCEPT ![s] = "open"] /\ UNCHANGED sessionFaults
       \/ SessionFault /\ generator' = [generator EXCEPT ![s] = "closed"]
    /\ UNCHANGED <<local, ttl, idle, responses, readBack, requestVars, ticks>>

DeliverResponse(s) ==
    /\ generator[s] = "open" /\ responses[s] # <<>>
    /\ readBack' = readBack \cup {Head(responses[s])}
    /\ responses' = [responses EXCEPT ![s] = Tail(@)]
    /\ idle' = [idle EXCEPT ![s] = FALSE]
    /\ UNCHANGED <<local, ttl, generator, requestVars, ticks, sessionFaults>>

\* A bug to detect: a keepalive tick does not set the TTL anew.
NoRefresh(s) == IF ttl[s] > 0 THEN ttl[s] - 1 ELSE 0

\* refresh_ttl, on a tick that found the queue empty for 15 seconds: EXPIRE
\* does nothing for a key that is gone.
Refreshed(s) ==
    IF generator[s] = "open" /\ idle[s] /\ ttl[s] > 0 THEN Ttl
    ELSE IF ttl[s] > 0 THEN ttl[s] - 1 ELSE 0

\* A response starts and a queue is read in far less than the time of a tick.
KeepaliveTick ==
    /\ ticks < MaxTicks
    /\ \A s \in SessionIds : generator[s] # "created" /\ (generator[s] = "open" => responses[s] = <<>>)
    /\ ticks' = ticks + 1
    /\ ttl' = [s \in SessionIds |-> Refreshed(s)]
    /\ idle' = [s \in SessionIds |-> generator[s] = "open"]
    /\ UNCHANGED <<local, generator, responses, readBack, requestVars, sessionFaults>>

\* The client has left, or a tick could not reach Redis: remove pops the queue,
\* then deletes the key.
CloseSession(s) ==
    /\ generator[s] = "open"
    /\ generator' = [generator EXCEPT ![s] = "closed"]
    /\ local' = local \ {s}
    /\ \/ ttl' = [ttl EXCEPT ![s] = 0] /\ UNCHANGED sessionFaults
       \/ SessionFault /\ UNCHANGED ttl
    /\ UNCHANGED <<idle, responses, readBack, requestVars, ticks>>

-----------------------------------------------------------------------------
\* handle_message.

Move(r, label) == handler' = [handler EXCEPT ![r] = label]

\* get: the local table is read before the await of EXISTS ...
PostRequest(r, s) ==
    /\ handler[r] = "new" /\ generator[s] # "none"
    /\ target' = [target EXCEPT ![r] = s]
    /\ Move(r, IF s \in local THEN "looking" ELSE "rejected")
    /\ UNCHANGED <<registryVars, responses, readBack, found, executed, ticks, sessionFaults>>

Exists(r) ==
    /\ handler[r] = "looking"
    /\ found' = [found EXCEPT ![r] = ttl[target[r]] > 0]
    /\ Move(r, "looked")
    /\ UNCHANGED <<registryVars, responses, readBack, target, executed, ticks, sessionFaults>>

\* ... and indexed after it: a session that was removed meanwhile raises. A body
\* that is not JSON is refused.
Resume(r) ==
    /\ handler[r] = "looked"
    /\ \/ ~found[r] /\ Move(r, "rejected") /\ local' = local \ {target[r]}
       \/ /\ found[r] /\ target[r] \in local /\ UNCHANGED local
          /\ \E label \in {"dispatched", "rejected"} : Move(r, label)
       \/ found[r] /\ target[r] \notin local /\ Move(r, "raised") /\ UNCHANGED local
    /\ UNCHANGED <<ttl, generator, idle, responses, readBack, target, found, executed,
                   ticks, sessionFaults>>

\* _dispatch: an unknown tool and a tool that raises are responses too.
DispatchTool(r) ==
    /\ handler[r] = "dispatched"
    /\ executed' = [executed EXCEPT ![r] = @ + 1]
    /\ Move(r, "done")
    /\ UNCHANGED <<registryVars, responses, readBack, target, found, ticks, sessionFaults>>

\* The queue is the one that was looked up, whether or not it is still in the
\* table.
PutResponse(r) ==
    /\ handler[r] = "done"
    /\ responses' = [responses EXCEPT ![target[r]] = Append(@, r)]
    /\ Move(r, "accepted")
    /\ UNCHANGED <<registryVars, readBack, target, found, executed, ticks, sessionFaults>>

HandleMessage(r) == Exists(r) \/ Resume(r) \/ DispatchTool(r) \/ PutResponse(r)

SessionNext ==
    \/ \E s \in SessionIds :
         CreateSession(s) \/ StartGenerator(s) \/ DeliverResponse(s) \/ CloseSession(s)
    \/ \E r \in Requests : (\E s \in SessionIds : PostRequest(r, s)) \/ HandleMessage(r)
    \/ KeepaliveTick

SessionSpec == SessionInit /\ [][SessionNext]_mcpVars

-----------------------------------------------------------------------------
\* Every variable keeps its type.
SessionType ==
    /\ local \subseteq SessionIds /\ ttl \in [SessionIds -> 0..Ttl]
    /\ generator \in [SessionIds -> {"none", "created", "open", "closed"}]
    /\ idle \in [SessionIds -> BOOLEAN]
    /\ responses \in [SessionIds -> Seq(Requests)] /\ readBack \subseteq Requests
    /\ handler \in [Requests -> {"new", "looking", "looked", "dispatched", "done", "accepted",
                            "rejected", "raised"}]
    /\ target \in [Requests -> SessionIds \cup {NoSession}]
    /\ found \in [Requests -> BOOLEAN] /\ executed \in [Requests -> 0..1]
    /\ ticks \in 0..MaxTicks /\ sessionFaults \in 0..MaxSessionFaults

\* "so active sessions don't expire" (session.py:72): while its stream is open
\* a session is found by the POST handler. It takes a message in each of the
\* ticks of a whole TTL but the first to keep every refresh away.
OpenSessionIsFound ==
    \A s \in SessionIds :
      (/\ generator[s] = "open"
       /\ Cardinality({r \in readBack : target[r] = s}) < Ttl - 1)
        => s \in local /\ ttl[s] > 0

\* A response is delivered to the stream of its session, after its tool has
\* run, and a tool runs once for a request that is accepted and not at all for
\* one that is refused.
ResponseFollowsExecution ==
    \A r \in Requests :
      /\ handler[r] \in {"done", "accepted"} => executed[r] = 1
      /\ handler[r] \in {"new", "looking", "looked", "rejected", "raised"} => executed[r] = 0
      /\ r \in readBack => executed[r] = 1

\* "Sessions expire automatically when the SSE connection drops and TTL
\* elapses" (session.py:9): no queue stays in the process without its stream,
\* as long as Redis answers and every stream is started.
QueueHasStream ==
    sessionFaults = 0 => \A s \in local : generator[s] \in {"created", "open"} \/ ttl[s] > 0

\* What these rest on. A request that was posted names a session that was created;
\* its tool has not run before it is dispatched.
RequestsPlaced ==
    \A r \in Requests :
      /\ handler[r] # "new" => target[r] \in SessionIds /\ generator[target[r]] # "none"
      /\ handler[r] = "dispatched" => executed[r] = 0

\* A response waits in the queue of its session once, or has been read.
QueuedOnce ==
    \A s \in SessionIds : \A i \in 1..Len(responses[s]) :
      /\ handler[responses[s][i]] = "accepted" /\ target[responses[s][i]] = s
      /\ responses[s][i] \notin readBack
      /\ \A j \in 1..Len(responses[s]) : responses[s][i] = responses[s][j] => i = j

ReadWereAccepted == IsFiniteSet(readBack) /\ \A r \in readBack : handler[r] = "accepted"

\* A key that is gone does not come back, so that only what is gone is forgotten.
GoneStaysGone ==
    /\ \A r \in Requests : handler[r] = "looked" /\ ~found[r] => ttl[target[r]] = 0
    /\ \A s \in SessionIds :
         /\ generator[s] \in {"created", "open"} => s \in local \/ ttl[s] = 0
         /\ generator[s] = "none" => s \notin local

ReadFrom(s) == {r \in readBack : target[r] = s}

\* A tick shortens the life of an open session's key only after a message.
RefreshedOften ==
    \A s \in SessionIds :
      /\ generator[s] \in {"none", "created"} => ~idle[s]
      /\ generator[s] = "created" => ttl[s] = Ttl
      /\ generator[s] = "open" =>
           ttl[s] + Cardinality(ReadFrom(s)) >= IF idle[s] THEN Ttl - 1 ELSE Ttl

StreamsOfQueues ==
    sessionFaults = 0 => \A s \in local : generator[s] \in {"created", "open"}

\* The sessions of the internal server: one with an open stream is found, a
\* queue has its stream, and a response follows the one run of its tool.
SessionInv == /\ SessionType /\ OpenSessionIsFound /\ QueueHasStream /\ ResponseFollowsExecution
              /\ RequestsPlaced /\ QueuedOnce /\ ReadWereAccepted /\ GoneStaysGone
              /\ RefreshedOften /\ StreamsOfQueues
=============================================================================
