----------------------------- MODULE PrivateStream -----------------------------
(***************************************************************************)
(* The private stream of binance-ingest (streams/private.py): a listen key *)
(* created once, the task that keeps it alive, the handler that connects   *)
(* and reconnects with it and publishes what arrives, and the two ways to  *)
(* stop the handler: its own stop() and the cancellation of its task by    *)
(* ConnectionManager.stop.                                                 *)
(*                                                                         *)
(* The exchange is external: a key lives Life ticks unless a PUT renews    *)
(* it; a connection with a dead key is refused or stays silent. Refresh is *)
(* listen_key_refresh_interval_s. MaxExponent is the exponent at which the *)
(* float power of the backoff raises (1024 in the code). Bounds: MaxDrops  *)
(* normal closes, MaxRaised calls that raise.                              *)
(***************************************************************************)
EXTENDS Integers

CONSTANTS Life, Refresh, MaxExponent, MaxDrops, MaxRaised

ASSUME PrivateStreamAssumption ==
    /\ Life \in Nat \ {0} /\ Refresh \in Nat \ {0} /\ MaxExponent \in Nat
    /\ MaxDrops \in Nat /\ MaxRaised \in Nat

NoTask == -1

VARIABLES
    task,        \* where run() is
    connection,     \* ConnectionInfo.state
    keyLife,      \* what the key has left at the exchange, 0 without a key
    slept,     \* how long _refresh_loop has slept, NoTask when it is not there
    delays,   \* ExponentialBackoff._attempt
    asked,      \* the handler's stop event
    lost,      \* a REST call raised whose effect the program does not know
    missed,    \* keepalives that raised
    drops, raised

keyVars == <<keyLife, slept, lost, missed>>
privateVars == <<task, connection, keyVars, delays, asked, drops, raised>>

PrivateInit ==
    /\ task = "start" /\ connection = "disconnected"
    /\ keyLife = 0 /\ slept = NoTask /\ lost = FALSE /\ missed = 0
    /\ delays = 0 /\ asked = FALSE
    /\ drops = 0 /\ raised = 0

Raise == raised < MaxRaised /\ raised' = raised + 1

-----------------------------------------------------------------------------
\* ListenKeyManager.

\* Without a key the handler gives up for good; the exchange may have made one.
StartKey ==
    /\ task = "start"
    /\ \/ /\ task' = "loop" /\ keyLife' = Life /\ slept' = 0
          /\ UNCHANGED <<connection, lost, raised>>
       \/ /\ Raise
          /\ task' = "stopped" /\ connection' = "stopped"
          /\ \/ keyLife' = Life /\ lost' = TRUE
             \/ UNCHANGED <<keyLife, lost>>
          /\ UNCHANGED slept
    /\ UNCHANGED <<delays, asked, missed, drops>>

Interval == Refresh

\* A PUT that raises is logged, one for a dead key among them; the next one is
\* due after another interval.
RenewKey ==
    /\ slept >= Interval
    /\ slept' = 0
    /\ \/ /\ keyLife > 0 /\ keyLife' = Life
          /\ UNCHANGED <<missed, lost, raised>>
       \/ /\ Raise
          /\ keyLife' \in {keyLife, IF keyLife > 0 THEN Life ELSE 0}
          /\ missed' = missed + 1 /\ lost' = TRUE
       \/ keyLife = 0 /\ UNCHANGED <<keyLife, missed, lost, raised>>
    /\ UNCHANGED <<task, connection, delays, asked, drops>>

\* A bug to detect: only the refresh task is stopped.
KeepKey == keyLife

NoKey == 0

\* lkm.stop(): the refresh task ends, the key is deleted (a failure is logged).
StopKey ==
    /\ task = "release"
    /\ task' = "stopped" /\ connection' = "stopped"
    /\ slept' = NoTask
    /\ \/ keyLife' = NoKey /\ UNCHANGED <<lost, raised>>
       \/ Raise /\ keyLife' \in {keyLife, 0} /\ lost' = TRUE
    /\ UNCHANGED <<delays, asked, missed, drops>>

\* Time passes; a PUT that is due comes within one tick.
PrivateTick ==
    /\ slept <= Interval
    /\ slept' = IF slept = NoTask THEN NoTask ELSE slept + 1
    /\ keyLife' = IF keyLife = 0 THEN 0 ELSE keyLife - 1
    /\ UNCHANGED <<task, connection, lost, missed, delays, asked, drops, raised>>

-----------------------------------------------------------------------------
\* PrivateStreamHandler.run.

Loop ==
    /\ task = "loop"
    /\ IF asked THEN task' = "release" /\ UNCHANGED connection
               ELSE task' = "connect" /\ connection' = "connecting"
    /\ UNCHANGED <<keyVars, delays, asked, drops, raised>>

\* After a connection: stop, or sleep for the next delay; next_delay takes the
\* power before the minimum, outside of any try.
AfterConnection ==
    \/ asked /\ task' = "release" /\ UNCHANGED delays
    \/ ~asked /\ delays < MaxExponent /\ task' = "sleep" /\ delays' = delays + 1
    \/ ~asked /\ delays >= MaxExponent /\ task' = "dead" /\ UNCHANGED delays

OnError == AfterConnection

ResetBackoff == delays' = 0

OpenConnection ==
    /\ task = "connect"
    /\ task' = "open" /\ connection' = "connected" /\ ResetBackoff
    /\ UNCHANGED <<keyVars, asked, drops, raised>>

\* The connection is refused, or breaks; a dead key needs no other reason.
BreakConnection ==
    /\ task \in {"connect", "open"}
    /\ \/ Raise
       \/ keyLife = 0 /\ UNCHANGED raised
    /\ connection' = "reconnecting" /\ OnError
    /\ UNCHANGED <<keyVars, asked, drops>>

\* The exchange closes normally: the iteration ends, the state is not changed.
CloseNormally ==
    /\ task = "open" /\ drops < MaxDrops
    /\ drops' = drops + 1
    /\ AfterConnection
    /\ UNCHANGED <<connection, keyVars, asked, raised>>

\* A frame of a live key: the stop event is looked at here, else the event is
\* published; a publication that raises is logged, and the frame is gone.
Frame ==
    /\ task = "open" /\ keyLife > 0
    /\ task' = IF asked THEN "release" ELSE "open"
    /\ UNCHANGED <<connection, keyVars, delays, asked, drops, raised>>

WakeUp ==
    /\ task = "sleep" /\ task' = "loop"
    /\ UNCHANGED <<connection, keyVars, delays, asked, drops, raised>>

-----------------------------------------------------------------------------
HandlerStop ==
    /\ ~asked
    /\ asked' = TRUE
    /\ UNCHANGED <<task, connection, keyVars, delays, drops, raised>>

\* ConnectionManager.stop cancels the task: CancelledError leaves run() at the
\* await it is in, past lkm.stop(); the session of the key stays as it is.
ManagerStop ==
    /\ task \notin {"stopped", "dead", "cancelled"}
    /\ task' = "cancelled"
    /\ UNCHANGED <<connection, keyVars, delays, asked, drops, raised>>

RunHandler == StartKey \/ StopKey \/ Loop \/ OpenConnection \/ WakeUp

PrivateNext ==
    \/ StartKey \/ StopKey \/ Loop \/ OpenConnection \/ WakeUp
    \/ RenewKey \/ PrivateTick \/ BreakConnection \/ CloseNormally \/ Frame
    \/ HandlerStop \/ ManagerStop

PrivateSpec == PrivateInit /\ [][PrivateNext]_privateVars

\* The event loop runs both tasks, sleeps end, and the exchange answers. That
\* frames come, or that connections break, is nobody's promise.
PrivateFairness ==
    WF_privateVars(RunHandler) /\ WF_privateVars(RenewKey) /\ WF_privateVars(PrivateTick)

-----------------------------------------------------------------------------
Running == task \in {"loop", "connect", "open", "sleep"}

\* Each variable has its type; an open connection has forgotten the failures.
PrivateType ==
    /\ task \in {"start", "loop", "connect", "open", "sleep", "release",
               "stopped", "dead", "cancelled"}
    /\ connection \in {"disconnected", "connecting", "connected", "reconnecting", "stopped"}
    /\ keyLife \in 0..Life
    /\ slept \in {NoTask} \cup 0..(Interval + 1)
    /\ delays \in 0..MaxExponent /\ (task = "open" => delays = 0)
    /\ asked \in BOOLEAN /\ lost \in BOOLEAN
    /\ missed \in 0..MaxRaised /\ drops \in 0..MaxDrops /\ raised \in 0..MaxRaised

\* _refresh_loop: as long as no keepalive has failed, the key that the handler
\* connects with is alive, however late within its tick a PUT goes out.
KeyStaysLive == Running /\ missed = 0 => keyLife > 0

\* PrivateStreamHandler.run: a handler that has ended leaves no task that
\* would renew the key, and no key but one whose REST call raised.
StoppedMeansDeleted == task = "stopped" => slept = NoTask /\ (keyLife = 0 \/ lost)

\* "already implements its own reconnect loop": whatever ended a connection, the
\* handler is connected again with a key that is alive, unless a keepalive has
\* failed or somebody stops the handler; only as many failures in a row as make
\* the power of next_delay overflow end run() instead, and nobody runs it again.
Reconnects ==
    [](missed = 0 /\ ~asked /\ task # "cancelled")
      => (Running ~> \/ task = "open" /\ keyLife > 0
                     \/ task = "dead" /\ delays = MaxExponent)

\* What the three rest on: before start there is neither a key nor its task, what
\* was missed was raised, and until a keepalive fails the key has what is left of
\* its life since the last PUT.
NothingBefore == task = "start" => slept = NoTask /\ keyLife = 0
MissedWereRaised == missed <= raised
KeyCovered ==
    (Running \/ task = "release") /\ missed = 0
      => slept # NoTask /\ keyLife + slept >= Life

\* The listen key lives as long as its handler: alive while the handler runs and
\* no keepalive has failed, deleted with its refresh task when it has stopped.
PrivateInv == /\ PrivateType /\ KeyStaysLive /\ StoppedMeansDeleted
              /\ NothingBefore /\ MissedWereRaised /\ KeyCovered
=============================================================================
