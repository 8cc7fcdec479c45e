------------------------- MODULE ExecutionConsumer -------------------------
(***************************************************************************)
(* services/execution/consumer.py: instances of the execution service read *)
(* TradeIntents from stream:strategy:intents through one consumer group,   *)
(* deduplicate them with a Redis lock, gate them on the Redis controls and *)
(* the risk limits, submit them to the adapter, persist job, order and     *)
(* fill, publish execution events and acknowledge the entry.               *)
(*                                                                         *)
(* Every step is one await of _process: other instances, the operator and  *)
(* the key expiries interleave between any two of them.                    *)
(***************************************************************************)
EXTENDS Naturals, Sequences, FiniteSets

CONSTANTS
  Workers,          \* running instances of ExecutionConsumer
  Intents,          \* intent_ids of the TradeIntents producers publish
  Symbols,
  SymbolOf,         \* symbol of each intent
  Malformed,        \* an entry without a parsable intent
  None,             \* no job: an absent Redis key
  OperatorControls, \* the account-level controls the operator uses
  BatchSize,        \* settings.batch_size
  MaxEntries,       \* bound: entries ever published
  MaxFaults         \* bound: failing calls, crashes and cancellations

AccountControls == {"kill_switch", "user_pause", "circuit_breaker"}

ASSUME ConsumerConstants ==
  /\ Workers # {}
  /\ SymbolOf \in [Intents -> Symbols]
  /\ Malformed \notin Intents
  /\ BatchSize \in Nat \ {0}
  /\ MaxEntries \in Nat
  /\ MaxFaults \in Nat
  /\ None \notin Nat
  /\ OperatorControls \subseteq AccountControls

\* Entry ids.  _process draws a fresh uuid4 job_id for each delivered entry
\* and an entry is delivered once, so the entry also names its job.
Entries == 1..MaxEntries
Jobs == Entries

VARIABLES
  stream,    \* the entries' intents, oldest first
  cursor,    \* the group's last-delivered entry
  pel,       \* delivered entries that are not acknowledged
  lock,      \* job_lock key of each intent's client_order_id
  halts,     \* account-level control keys present in Redis
  paused,    \* symbols with a symbol_pause key
  cooldown,  \* symbols with a cooldown key
  jobs,      \* status column of execution_jobs, "none" without a row
  orders,    \* jobs with a row in orders
  unfilled,  \* those whose row has filled_qty 0, or no avg_fill_price
  fills,     \* jobs with a row in fills
  events,    \* <<event, job>> published to stream:execution:events
  incidents, \* jobs with a row in incident_log
  phase,     \* where each worker is in _process
  entry,     \* the entry each worker processes
  last,      \* the last entry of the batch it has read
  gate,      \* index of the Redis control it reads next
  stage,     \* the job status it persists and publishes
  faults,    \* failures so far
  lapsed,    \* history: intents whose lock has ever expired
  late       \* history: workers that submitted under the present kill switch

redis == <<lock, halts, paused, cooldown>>
db == <<jobs, orders, unfilled, fills, incidents>>
group == <<stream, cursor, pel>>
local == <<phase, entry, last, gate, stage>>
history == <<lapsed, late>>
vars == <<group, redis, db, events, local, faults, history>>

LC == INSTANCE JobLifecycle WITH status <- jobs

Phases == {"idle", "acquire", "create", "gate", "limits", "persist",
           "submit", "order", "fill", "publish", "cooldown", "incident",
           "ack"}

\* What _process writes with update_job_status or announces with publish.
\* "rejected" is the failure of a job the adapter answered success=False for.
Stages == {"queued", "approved", "blocked", "submitted", "acknowledged",
           "filled", "failed", "rejected", "duplicate"}

\* A bug to detect: "submitted" and "acknowledged" written in the wrong order.
SwappedStatus(s) == CASE s = "submitted"    -> "acknowledged"
                      [] s = "acknowledged" -> "submitted"
                      [] s = "rejected"     -> "failed"
                      [] OTHER              -> s

StatusOf(s) == IF s = "rejected" THEN "failed" ELSE s

TypeGroup ==
  /\ stream \in Seq(Intents \cup {Malformed}) /\ Len(stream) <= MaxEntries
  /\ cursor \in 0..Len(stream)
  /\ pel \subseteq 1..cursor

TypeRedis ==
  /\ lock \in [Intents -> Jobs \cup {None}]
  /\ halts \subseteq AccountControls
  /\ paused \subseteq Symbols
  /\ cooldown \subseteq Symbols

TypeDb ==
  /\ jobs \in [Jobs -> LC!JobStates \cup {"none"}]
  /\ orders \subseteq Jobs /\ unfilled \subseteq Jobs
  /\ fills \subseteq Jobs
  /\ incidents \subseteq Jobs

TypeLocal ==
  /\ phase \in [Workers -> Phases]
  /\ entry \in [Workers -> Nat]
  /\ last \in [Workers -> Nat]
  /\ gate \in [Workers -> 1..5]
  /\ stage \in [Workers -> Stages]

TypeEvents == events \subseteq (Stages \X Jobs)
TypeFaults == faults \in 0..MaxFaults
TypeHistory == lapsed \subseteq Intents /\ late \subseteq Workers

TypeOK == /\ TypeGroup /\ TypeRedis /\ TypeDb /\ TypeLocal
          /\ TypeEvents /\ TypeFaults /\ TypeHistory

Init ==
  /\ stream = <<>> /\ cursor = 0 /\ pel = {}
  /\ lock = [i \in Intents |-> None]
  /\ halts = {} /\ paused = {} /\ cooldown = {}
  /\ jobs = [j \in Jobs |-> "none"]
  /\ orders = {} /\ unfilled = {} /\ fills = {} /\ events = {} /\ incidents = {}
  /\ phase = [w \in Workers |-> "idle"]
  /\ entry = [w \in Workers |-> 0]
  /\ last = [w \in Workers |-> 0]
  /\ gate = [w \in Workers |-> 1]
  /\ stage = [w \in Workers |-> "queued"]
  /\ faults = 0
  /\ lapsed = {} /\ late = {}
-----------------------------------------------------------------------------
\* The entry, intent and symbol in a worker's hands.
IntentOf(w) == stream[entry[w]]
SymbolAt(w) == SymbolOf[IntentOf(w)]

Goto(w, p) == phase' = [phase EXCEPT ![w] = p]

GotoStage(w, p, s) == /\ Goto(w, p)
                      /\ stage' = [stage EXCEPT ![w] = s]

\* A call may fail while the fault budget lasts.
Fault == faults < MaxFaults /\ faults' = faults + 1
NoFault == UNCHANGED faults
-----------------------------------------------------------------------------
(***************************************************************************)
(* The environment.                                                        *)
(***************************************************************************)

\* A producer appends an intent, or something that does not parse.  The same
\* intent_id can be appended twice: XADD retried after a lost reply, or the
\* group recreated at id 0 and the stream read again.
PublishIntent ==
  /\ Len(stream) < MaxEntries
  /\ \E i \in Intents \cup {Malformed} : stream' = Append(stream, i)
  /\ UNCHANGED <<cursor, pel, redis, db, events, local, faults, history>>

\* job_lock_ttl_s passes: the key goes, whatever its owner is doing.
ExpireLock ==
  /\ \E i \in Intents :
       /\ lock[i] # None
       /\ lock' = [lock EXCEPT ![i] = None]
       /\ lapsed' = lapsed \cup {i}
  /\ UNCHANGED <<group, halts, paused, cooldown, db, events, local, faults, late>>

ExpireCooldown ==
  /\ \E s \in cooldown : cooldown' = cooldown \ {s}
  /\ UNCHANGED <<group, lock, halts, paused, db, events, local, faults, history>>

\* KillSwitchControl.activate / pause_user / trip_circuit_breaker.
SetControl ==
  /\ \E c \in OperatorControls \ halts :
       /\ halts' = halts \cup {c}
       /\ late' = IF c = "kill_switch" THEN {} ELSE late
  /\ UNCHANGED <<group, lock, paused, cooldown, db, events, local, faults, lapsed>>

\* clear / resume_user / reset_circuit_breaker, or the key's TTL.
ClearControl ==
  /\ \E c \in halts : halts' = halts \ {c}
  /\ UNCHANGED <<group, lock, paused, cooldown, db, events, local, faults, history>>

\* pause_symbol; resume_symbol or the key's TTL.
PauseSymbol ==
  /\ \E s \in Symbols : \/ s \notin paused /\ paused' = paused \cup {s}
                        \/ s \in paused /\ paused' = paused \ {s}
  /\ UNCHANGED <<group, lock, halts, cooldown, db, events, local, faults, history>>
-----------------------------------------------------------------------------
(***************************************************************************)
(* One worker.                                                             *)
(***************************************************************************)

Delivered(n) == cursor+1..n

\* _tick: XREADGROUP with id ">" delivers entries nobody has been given.
\* Entries that stay in the pending list are never asked for again.
Tick(w) ==
  /\ phase[w] = "idle"
  /\ cursor < Len(stream)
  /\ LET n == IF cursor + BatchSize <= Len(stream)
              THEN cursor + BatchSize ELSE Len(stream) IN
       /\ cursor' = n
       /\ pel' = pel \cup Delivered(n)
       /\ last' = [last EXCEPT ![w] = n]
  /\ entry' = [entry EXCEPT ![w] = cursor + 1]
  /\ Goto(w, "acquire")
  /\ UNCHANGED <<stream, redis, db, events, gate, stage, faults, history>>

\* An empty or malformed intent is acknowledged and skipped.
SkipMalformed(w) ==
  /\ phase[w] = "acquire"
  /\ IntentOf(w) = Malformed
  /\ Goto(w, "ack")
  /\ UNCHANGED <<group, redis, db, events, entry, last, gate, stage, faults, history>>

\* A bug to detect: SET without NX.
LockIgnored(w) == TRUE

\* SET job_lock NX EX: the deduplication.
LockFree(w) == lock[IntentOf(w)] = None

Acquire(w) ==
  /\ phase[w] = "acquire"
  /\ IntentOf(w) # Malformed
  /\ \/ /\ LockFree(w)
        /\ lock' = [lock EXCEPT ![IntentOf(w)] = entry[w]]
        /\ Goto(w, "create")
        /\ UNCHANGED stage
     \/ /\ ~LockFree(w)
        /\ GotoStage(w, "publish", "duplicate")
        /\ UNCHANGED lock
  /\ UNCHANGED <<group, halts, paused, cooldown, db, events, entry, last, gate,
                 faults, history>>

\* A bug to detect: no unique index on the client order id.
SameEntry(w) == {entry[w]}

\* deterministic_client_order_id and orders.client_order_id are UNIQUE.
SameIntent(w) == {j \in 1..Len(stream) : stream[j] = IntentOf(w)}

\* create_job: the unique index refuses a second row for the intent.  A
\* failure is logged and processing goes on without a row.
CreateJob(w) ==
  /\ phase[w] = "create"
  /\ \/ /\ \A j \in SameIntent(w) : jobs[j] = "none"
        /\ jobs' = [jobs EXCEPT ![entry[w]] = "queued"]
        /\ NoFault
     \/ /\ \E j \in SameIntent(w) : jobs[j] # "none"
        /\ NoFault /\ UNCHANGED jobs
     \/ Fault /\ UNCHANGED jobs
  /\ GotoStage(w, "publish", "queued")
  /\ UNCHANGED <<group, redis, orders, unfilled, fills, incidents, events, entry, last,
                 gate, history>>

\* A bug to detect: evaluate forgets the kill switch, or the cooldown.
GateOrderNoKillSwitch == <<"user_pause", "user_pause", "symbol_pause",
                           "circuit_breaker", "cooldown">>
GateOrderNoCooldown == <<"kill_switch", "user_pause", "symbol_pause",
                         "circuit_breaker", "circuit_breaker">>

\* ExecutionRiskEngine.evaluate reads the control keys one await at a time.
GateOrder == <<"kill_switch", "user_pause", "symbol_pause",
               "circuit_breaker", "cooldown">>

Closed(c, s) == \/ c \in halts
                \/ c = "symbol_pause" /\ s \in paused
                \/ c = "cooldown" /\ s \in cooldown

CheckGate(w) ==
  /\ phase[w] = "gate"
  /\ \/ /\ Closed(GateOrder[gate[w]], SymbolAt(w))
        /\ GotoStage(w, "persist", "blocked")
        /\ gate' = [gate EXCEPT ![w] = 1]
     \/ /\ ~Closed(GateOrder[gate[w]], SymbolAt(w))
        /\ gate[w] < 5
        /\ gate' = [gate EXCEPT ![w] = gate[w] + 1]
        /\ UNCHANGED <<phase, stage>>
     \/ /\ ~Closed(GateOrder[gate[w]], SymbolAt(w))
        /\ gate[w] = 5
        /\ gate' = [gate EXCEPT ![w] = 1]
        /\ Goto(w, "limits") /\ UNCHANGED stage
  /\ NoFault
  /\ UNCHANGED <<group, redis, db, events, entry, last, history>>

\* A Redis error inside evaluate: _on_failed("risk_engine_error").
GateError(w) ==
  /\ phase[w] = "gate"
  /\ Fault
  /\ GotoStage(w, "persist", "failed")
  /\ gate' = [gate EXCEPT ![w] = 1]
  /\ UNCHANGED <<group, redis, db, events, entry, last, history>>

\* The synchronous checks; their data is modelled in RiskGate.
CheckLimits(w) ==
  /\ phase[w] = "limits"
  /\ \E verdict \in {"approved", "blocked"} : GotoStage(w, "persist", verdict)
  /\ UNCHANGED <<group, redis, db, events, entry, last, gate, faults, history>>

\* update_job_status does not look at the old status, and does nothing when
\* the row is missing.  A failure is logged.
Persist(w) ==
  /\ phase[w] = "persist"
  /\ \/ /\ jobs' = IF jobs[entry[w]] = "none" THEN jobs
                   ELSE [jobs EXCEPT ![entry[w]] = StatusOf(stage[w])]
        /\ NoFault
     \/ Fault /\ UNCHANGED jobs
  /\ Goto(w, "publish")
  /\ UNCHANGED <<group, redis, orders, unfilled, fills, incidents, events, entry, last,
                 gate, stage, history>>

\* ExecutionEventPublisher.publish, and where _process goes after each event.
AfterPublish ==
  [s \in Stages |->
     CASE s = "queued"       -> [to |-> "gate",     as |-> s]
       [] s = "approved"     -> [to |-> "submit",   as |-> s]
       [] s = "submitted"    -> [to |-> "persist",  as |-> "acknowledged"]
       [] s = "acknowledged" -> [to |-> "order",    as |-> s]
       [] s = "filled"       -> [to |-> "cooldown", as |-> s]
       [] s = "rejected"     -> [to |-> "incident", as |-> s]
       [] OTHER              -> [to |-> "ack",      as |-> s]]

Publish(w) ==
  /\ phase[w] = "publish"
  /\ events' = events \cup {<<StatusOf(stage[w]), entry[w]>>}
  /\ LET next == AfterPublish[stage[w]] IN GotoStage(w, next.to, next.as)
  /\ UNCHANGED <<group, redis, db, entry, last, gate, faults, history>>

\* The adapter fills, refuses (success=False) or raises.
Submit(w) ==
  /\ phase[w] = "submit"
  /\ \/ GotoStage(w, "persist", "submitted") /\ NoFault
     \/ GotoStage(w, "persist", "rejected") /\ NoFault
     \/ GotoStage(w, "persist", "failed") /\ Fault
  /\ late' = IF "kill_switch" \in halts THEN late \cup {w} ELSE late
  /\ UNCHANGED <<group, redis, db, events, entry, last, gate, lapsed>>

\* create_order: needs the job row (foreign key) and a free client_order_id.
\* Any failure skips the fill and the "filled" status, not the event. The row
\* says what the adapter answered: a paper order of size 0 and a live order that
\* was not executed at once have nothing filled.
CreateOrder(w) ==
  /\ phase[w] = "order"
  /\ LET insertable == /\ jobs[entry[w]] # "none"
                       /\ SameIntent(w) \cap orders = {} IN
       \/ /\ insertable /\ NoFault
          /\ orders' = orders \cup {entry[w]}
          /\ unfilled' \in {unfilled, unfilled \cup {entry[w]}}
          /\ Goto(w, "fill") /\ UNCHANGED stage
       \/ /\ ~insertable /\ NoFault
          /\ GotoStage(w, "publish", "filled") /\ UNCHANGED <<orders, unfilled>>
       \/ /\ Fault
          /\ GotoStage(w, "publish", "filled") /\ UNCHANGED <<orders, unfilled>>
  /\ UNCHANGED <<group, redis, jobs, fills, incidents, events, entry, last,
                 gate, history>>

\* A bug to detect: a failure of save_fill is logged by itself, and the job is
\* "filled" all the same.
SwallowedFill(w) ==
  /\ phase[w] = "fill"
  /\ \/ fills' = fills \cup ({entry[w]} \ unfilled) /\ NoFault
     \/ Fault /\ UNCHANGED fills
  /\ GotoStage(w, "persist", "filled")
  /\ UNCHANGED <<group, redis, jobs, orders, unfilled, incidents, events, entry,
                 last, gate, history>>

\* save_fill returns early without a price or a quantity.
SaveFill(w) ==
  /\ phase[w] = "fill"
  /\ \/ /\ fills' = fills \cup ({entry[w]} \ unfilled) /\ NoFault
        /\ GotoStage(w, "persist", "filled")
     \/ /\ Fault /\ UNCHANGED fills
        /\ GotoStage(w, "publish", "filled")
  /\ UNCHANGED <<group, redis, jobs, orders, unfilled, incidents, events, entry,
                 last, gate, history>>

SetCooldown(w) ==
  /\ phase[w] = "cooldown"
  /\ cooldown' = cooldown \cup {SymbolAt(w)}
  /\ Goto(w, "ack")
  /\ UNCHANGED <<group, lock, halts, paused, db, events, entry, last, gate,
                 stage, faults, history>>

\* log_incident; a failed write is logged and swallowed.
LogIncident(w) ==
  /\ phase[w] = "incident"
  /\ \/ incidents' = incidents \cup {entry[w]} /\ NoFault
     \/ Fault /\ UNCHANGED incidents
  /\ Goto(w, "ack")
  /\ UNCHANGED <<group, redis, jobs, orders, unfilled, fills, events, entry, last, gate,
                 stage, history>>

\* A bug to detect: the tick returns after one entry.
AdvanceOnce(w) == Goto(w, "idle") /\ UNCHANGED entry

\* The next entry of the batch, or the end of the tick.
Advance(w) ==
  \/ /\ entry[w] < last[w]
     /\ entry' = [entry EXCEPT ![w] = entry[w] + 1]
     /\ Goto(w, "acquire")
  \/ entry[w] = last[w] /\ Goto(w, "idle") /\ UNCHANGED entry

\* _ack swallows its errors, so the entry may stay pending.
Ack(w) ==
  /\ phase[w] = "ack"
  /\ \/ pel' = pel \ {entry[w]} /\ NoFault
     \/ Fault /\ UNCHANGED pel
  /\ Advance(w)
  /\ UNCHANGED <<stream, cursor, redis, db, events, last, gate, stage, history>>

\* An exception out of _process, the cancellation of the task, or a crash:
\* the rest of the batch is dropped and its entries stay pending.
Abandon(w) ==
  /\ phase[w] # "idle"
  /\ Fault
  /\ Goto(w, "idle")
  /\ gate' = [gate EXCEPT ![w] = 1]
  /\ UNCHANGED <<group, redis, db, events, entry, last, stage, history>>

Step(w) ==
  \/ Tick(w) \/ SkipMalformed(w) \/ Acquire(w) \/ CreateJob(w)
  \/ CheckGate(w) \/ GateError(w) \/ CheckLimits(w) \/ Persist(w)
  \/ Publish(w) \/ Submit(w) \/ CreateOrder(w) \/ SaveFill(w)
  \/ SetCooldown(w) \/ LogIncident(w) \/ Ack(w) \/ Abandon(w)

Environment ==
  PublishIntent \/ ExpireLock \/ ExpireCooldown \/ SetControl
  \/ ClearControl \/ PauseSymbol

Next == Environment \/ \E w \in Workers : Step(w)

Spec == Init /\ [][Next]_vars

\* The event loop keeps running each worker's coroutine.
Fairness == \A w \in Workers : WF_vars(Step(w))

FairSpec == Spec /\ Fairness
-----------------------------------------------------------------------------
(***************************************************************************)
(* Properties.                                                             *)
(***************************************************************************)

Executed(j) == <<"filled", j>> \in events

\* Deduplication (consumer.py "Deduplication via Redis SETNX"): two entries
\* carrying the same intent are both announced as filled only if the intent's
\* lock has expired meanwhile.  Without expiry a retried or replayed intent
\* is executed once, whichever instances it is delivered to.
FilledOncePerLock ==
  \A j, k \in 1..Len(stream) :
    j # k /\ stream[j] = stream[k] /\ Executed(j) /\ Executed(k)
      => stream[j] \in lapsed

\* What the tables say agrees: a job is "filled" only with its order, and with
\* the fill that its order tells of, if it tells of one; a fill hangs on such an
\* order, an order on a job that got past "queued" or whose later writes failed,
\* and an intent has one job and one order. The three writes are separate
\* transactions, any of which may fail. A job is "filled" without a fill only
\* where the order's row says that nothing was.
TablesAgree ==
  /\ \A j \in Jobs : jobs[j] = "filled" => j \in orders /\ (j \in fills <=> j \notin unfilled)
  /\ fills \subseteq orders \ unfilled /\ unfilled \subseteq orders
  /\ \A j \in orders : jobs[j] \in {"queued", "approved", "submitted",
                                   "acknowledged", "filled"}
  /\ \A j, k \in 1..Len(stream) : j # k /\ stream[j] = stream[k] =>
        /\ jobs[j] = "none" \/ jobs[k] = "none"
        /\ ~(j \in orders /\ k \in orders)

\* lifecycle.py, "Raise JobLifecycleError if the transition is not allowed":
\* nothing raises it, and still no row skips a state before something fails.
StepsWithoutFaults == [][faults' = 0 => [LC!Next]_jobs]_vars

\* update_job_status never consults the old status, and any of its writes may
\* be lost; still a row only moves ahead along VALID_JOB_TRANSITIONS, however
\* many states it skips, and it skips none before something fails: the consumer
\* implements the lifecycle with lost writes.
JobLifecycleSpec == LC!LossySpec /\ StepsWithoutFaults

\* The kill switch is read once, early, and acted on late: an instance may
\* submit an order although the switch is on, but at most one in the lifetime
\* of the switch - the one it was working on when the operator pulled it.
OneLateSubmit ==
  [][\A w \in Workers : Submit(w) /\ "kill_switch" \in halts => w \notin late]_vars

Alone(w) == \A v \in Workers \ {w} : entry[v] = 0

\* The cooldown "prevents re-entry within a configurable window" (cooldown.py):
\* a lone instance, as it is deployed, submits no order for a symbol on
\* cooldown. With a second one both can pass the gate before either sets it.
NoReentry ==
  [][\A w \in Workers : Submit(w) /\ Alone(w) => SymbolAt(w) \notin cooldown]_vars

\* Unless something fails, every entry that reaches the stream is delivered and
\* acknowledged, whatever the controls and the limits decide.
EveryEntryAcked ==
  \A e \in Entries :
    (e <= Len(stream)) ~> (faults > 0 \/ (e <= cursor /\ e \notin pel))

-----------------------------------------------------------------------------
(***************************************************************************)
(* The strengthening behind the properties above, proved inductive in      *)
(* ExecutionConsumer_proofs.                                               *)
(***************************************************************************)

\* A busy worker's entry lies in its batch, and the batch has been delivered.
InHand == \A w \in Workers : phase[w] # "idle" =>
            entry[w] \in 1..last[w] /\ last[w] <= cursor

\* Past the parse, the entry carries an intent.
Parsed == \A w \in Workers :
            phase[w] \notin {"idle", "acquire", "ack"} => IntentOf(w) \in Intents

\* What a worker persists is a status of a job, and not the first one.
Writable == \A w \in Workers :
              phase[w] = "persist" => StatusOf(stage[w]) \in LC!JobStates \ {"queued"}

\* The worker has taken the lock for its entry.
Admitted(w) == \/ phase[w] \in {"create", "gate", "limits", "persist", "submit",
                                "order", "fill", "cooldown", "incident"}
               \/ phase[w] = "publish" /\ stage[w] # "duplicate"

\* What is being executed, and what has been executed, still holds its lock
\* unless the lock has expired.
LockCovers ==
  /\ \A w \in Workers : Admitted(w) =>
       lock[IntentOf(w)] = entry[w] \/ IntentOf(w) \in lapsed
  /\ \A j \in Jobs : Executed(j) =>
       /\ j \in 1..Len(stream) /\ stream[j] \in Intents
       /\ lock[stream[j]] = j \/ stream[j] \in lapsed

\* The worker has read the kill switch as off and not yet submitted.
PastKillSwitch(w) == \/ phase[w] = "gate" /\ gate[w] > 1
                     \/ phase[w] \in {"limits", "submit"}
                     \/ phase[w] \in {"persist", "publish"} /\ stage[w] = "approved"

LateAtMostOnce ==
  \A w \in Workers :
    /\ phase[w] # "gate" => gate[w] = 1
    /\ w \in late /\ "kill_switch" \in halts => ~PastKillSwitch(w)

\* What is left of the batches: no entry is in the hands of two instances.
OwnEntries ==
  \A v, w \in Workers :
    v # w /\ phase[v] # "idle" /\ phase[w] # "idle"
      => last[v] < entry[w] \/ last[w] < entry[v]

\* No entry has a row before somebody works on it.
RowsBehind ==
  \A j \in Jobs : jobs[j] # "none" =>
    /\ j <= cursor
    /\ \A w \in Workers : phase[w] # "idle" => j \notin entry[w]+1..last[w]

Row(w) == jobs[entry[w]]
At(w, p, stages) == phase[w] = p /\ stage[w] \in stages

BeforeVerdict(w) == \/ phase[w] \in {"gate", "limits"}
                    \/ At(w, "publish", {"queued"}) \/ At(w, "persist", {"approved", "blocked"})
BeforeAnswer(w) == \/ phase[w] = "submit"
                   \/ At(w, "publish", {"approved"})
                   \/ At(w, "persist", {"submitted", "rejected", "failed"})
BeforeAcknowledged(w) == At(w, "publish", {"submitted"}) \/ At(w, "persist", {"acknowledged"})
BeforeFilled(w) == \/ phase[w] \in {"order", "fill"}
                   \/ At(w, "publish", {"acknowledged"}) \/ At(w, "persist", {"filled"})

\* The row of the entry in hand, if there is one, has the status that was
\* written last, or an earlier one when a write has failed.
Has(w, s, earlier) == Row(w) \in {"none", s} \/ (faults > 0 /\ Row(w) \in earlier)

RowFollows(w) ==
  /\ phase[w] \in {"acquire", "create"} => Row(w) = "none"
  /\ BeforeVerdict(w) => Has(w, "queued", {})
  /\ BeforeAnswer(w) => Has(w, "approved", {"queued"})
  /\ BeforeAcknowledged(w) => Has(w, "submitted", {"queued", "approved"})
  /\ BeforeFilled(w) => Has(w, "acknowledged", {"queued", "approved", "submitted"})

\* How far the entry in hand is when it has an order, and a fill.
OrderFollows(w) ==
  phase[w] # "idle" =>
    /\ entry[w] \in orders => \/ phase[w] \in {"fill", "cooldown", "ack"}
                              \/ At(w, "persist", {"filled"}) \/ At(w, "publish", {"filled"})
    /\ phase[w] = "fill" => entry[w] \in orders
    /\ At(w, "persist", {"filled"}) =>
         entry[w] \in orders /\ (entry[w] \in fills <=> entry[w] \notin unfilled)

\* A lone instance past the gate has seen its symbol without a cooldown.
PastCooldown(w) == \/ phase[w] \in {"limits", "submit"}
                   \/ phase[w] \in {"persist", "publish"} /\ stage[w] = "approved"

CooldownSeen(w) == Alone(w) /\ PastCooldown(w) => SymbolAt(w) \notin cooldown

\* What the tables, the reports of the entries in hand and the keys have in
\* common at every await.
TablesFollow ==
  /\ OwnEntries /\ RowsBehind
  /\ \A w \in Workers : RowFollows(w) /\ OrderFollows(w) /\ CooldownSeen(w)

\* What _process keeps at every await, for each instance: the types, an entry in
\* hand that was delivered and carries an intent, a lock held or lapsed for all
\* that is or was executed, no second late order under a kill switch, and rows that
\* are where the instance that works on them has put them.
ConsumerInv == TypeOK /\ InHand /\ Parsed /\ Writable /\ LockCovers
               /\ LateAtMostOnce /\ TablesFollow
=============================================================================
