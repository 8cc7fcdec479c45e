--------------------------- MODULE StrategyService ---------------------------
(***************************************************************************)
(* The life of a strategy row, the callers that move it through            *)
(* VALID_TRANSITIONS (services/mcp_server/facades/strategy.py, reached     *)
(* from the MCP control tool and from the gateway route), and the one      *)
(* StrategyConsumer that evaluates the strategies it last loaded.          *)
(*                                                                         *)
(* A caller reads the row, checks the move and writes it in one READ       *)
(* COMMITTED session: other sessions run between the read and the commit.  *)
(* The consumer works from a registry that it refreshes when the reload    *)
(* interval has elapsed, so that what it evaluates lags behind the table.  *)
(*                                                                         *)
(* Bounds: MaxChanges committed state changes, MaxUnread snapshots in the  *)
(* stream, MaxFaults failures (a query, a commit, a publication or the     *)
(* process); Batch is the consumer's batch_size.                           *)
(***************************************************************************)
EXTENDS Naturals, Sequences

CONSTANTS Strategies, Symbols, Callers,
          Watches,      \* [Strategies -> SUBSET Symbols]: symbol_filters
          Broken,       \* strategies whose version row build_strategy rejects
          Levels,       \* approval levels that callers present
          Initial,      \* the tables that the process may find at its start
          Batch, MaxChanges, MaxUnread, MaxFaults

States == {"draft", "simulation", "paper_active", "assisted_live",
           "bounded_auto_live", "paused", "rolled_back", "archived"}
Ranks == [l0_readonly |-> 0, l1_simulation |-> 1, l2_paper |-> 2,
          l3_assisted_live |-> 3, l4_bounded_auto |-> 4]
\* No level, or a string that ApprovalLevel does not know: the check is skipped.
NoLevel == "none"
NotLoaded == "not loaded"
Idle == [op |-> "idle"]

ASSUME StrategyAssumption ==
    /\ Watches \in [Strategies -> SUBSET Symbols]
    /\ Broken \subseteq Strategies
    /\ Levels \subseteq DOMAIN Ranks \cup {NoLevel}
    /\ Initial \subseteq [Strategies -> States]
    /\ Batch \in Nat \ {0}
    /\ MaxChanges \in Nat /\ MaxUnread \in Nat /\ MaxFaults \in Nat

VARIABLES
    dbstate,    \* strategies.state
    trail,      \* the state_change rows of strategy_actions, oldest first
    calls,      \* what each caller's session has read
    registry,   \* StrategyRegistry: the state each evaluator was built with
    due,        \* strategy_reload_interval_s has elapsed since the last reload
    pc,         \* where the consumer's task is
    unread,     \* snapshots of stream:analytics:derived not yet delivered
    batch,      \* delivered and not yet processed
    todo,       \* evaluators still to run on the head of batch
    published,  \* the intent that the last step published, and who did
    recent,     \* history: states each row has had since the last query
    faults

dbVars == <<dbstate, trail, calls>>
consumerVars == <<registry, due, pc, batch, todo>>
vars == <<dbVars, consumerVars, unread, published, recent, faults>>

-----------------------------------------------------------------------------
\* The life cycle of lifecycle/transitions.py and the approval policy.

ValidTransitions ==
    [draft             |-> {"simulation", "archived"},
     simulation        |-> {"paper_active", "draft", "archived"},
     paper_active      |-> {"assisted_live", "paused", "archived"},
     assisted_live     |-> {"bounded_auto_live", "paused", "rolled_back", "archived"},
     bounded_auto_live |-> {"assisted_live", "paused", "rolled_back", "archived"},
     paused            |-> {"simulation", "paper_active", "archived"},
     rolled_back       |-> {"simulation", "archived"},
     archived          |-> {}]

\* A bug to detect: the terminal state has a way back.
Resurrect(from, to) ==
    to \in ValidTransitions[from] \cup (IF from = "archived" THEN {"draft"} ELSE {})

CanTransition(from, to) == to \in ValidTransitions[from]

EmitStates == {"paper_active", "assisted_live", "bounded_auto_live"}
\* A bug to detect: the query forgets a state that emits.
ForgottenStates == {"simulation", "paper_active", "bounded_auto_live"}

ActiveStates == {"simulation"} \cup EmitStates

\* A state that the table does not list needs the highest level.
RequiredRank(state) ==
    CASE state = "simulation"    -> 1
      [] state = "paper_active"  -> 2
      [] state = "assisted_live" -> 3
      [] OTHER                   -> 4

Approved(level, to) == level # NoLevel => Ranks[level] >= RequiredRank(to)

\* A step that publishes no intent.
NoIntent == [sid |-> NotLoaded, by |-> "none"]
Quiet == published' = NoIntent

Fault == faults < MaxFaults /\ faults' = faults + 1

\* Every committed state becomes part of what the row has lately been.
Write(s, state) ==
    /\ dbstate' = [dbstate EXCEPT ![s] = state]
    /\ recent' = [recent EXCEPT ![s] = @ \cup {state}]

Init ==
    /\ dbstate \in Initial
    /\ trail = <<>>
    /\ calls = [c \in Callers |-> Idle]
    /\ registry = [s \in Strategies |-> NotLoaded]
    /\ due = TRUE
    /\ pc = "down"
    /\ unread = <<>> /\ batch = <<>> /\ todo = {}
    /\ published = NoIntent
    /\ recent = [s \in Strategies |-> {dbstate[s]}]
    /\ faults = 0

-----------------------------------------------------------------------------
\* Callers: update_strategy_state and request_paper_trade.

ReadForUpdate(c) ==
    /\ calls[c] = Idle
    /\ Len(trail) < MaxChanges
    /\ \E s \in Strategies, target \in States, level \in Levels :
         /\ CanTransition(dbstate[s], target)
         /\ Approved(level, target)
         /\ calls' = [calls EXCEPT ![c] =
              [op |-> "update", sid |-> s, seen |-> dbstate[s], target |-> target]]
    /\ UNCHANGED <<dbstate, trail, consumerVars, unread, recent, faults>> /\ Quiet

\* A bug to detect: the audit row has a transaction of its own, and the change
\* of state may fail after it.
AuditFirst(c) ==
    /\ calls[c].op = "update"
    /\ Len(trail) < MaxChanges
    /\ calls' = [calls EXCEPT ![c] = Idle]
    /\ trail' = Append(trail, [sid |-> calls[c].sid, from |-> calls[c].seen,
                               to |-> calls[c].target])
    /\ \/ Write(calls[c].sid, calls[c].target) /\ UNCHANGED faults
       \/ Fault /\ UNCHANGED <<dbstate, recent>>
    /\ UNCHANGED <<consumerVars, unread>> /\ Quiet

CommitUpdate(c) ==
    /\ calls[c].op = "update"
    /\ Len(trail) < MaxChanges
    /\ calls' = [calls EXCEPT ![c] = Idle]
    /\ \/ /\ Write(calls[c].sid, calls[c].target)
          /\ trail' = Append(trail, [sid |-> calls[c].sid, from |-> calls[c].seen,
                                     to |-> calls[c].target])
          /\ UNCHANGED faults
       \/ Fault /\ UNCHANGED <<dbstate, trail, recent>>
    /\ UNCHANGED <<consumerVars, unread>> /\ Quiet

ReadForTrade(c) ==
    /\ calls[c] = Idle
    /\ \E s \in Strategies :
         /\ dbstate[s] \in EmitStates
         /\ calls' = [calls EXCEPT ![c] = [op |-> "trade", sid |-> s]]
    /\ UNCHANGED <<dbstate, trail, consumerVars, unread, recent, faults>> /\ Quiet

\* The price is looked up and the intent published; without a price, or when
\* stream_publish raises, the call returns with nothing published.
FinishTrade(c) ==
    /\ calls[c].op = "trade"
    /\ calls' = [calls EXCEPT ![c] = Idle]
    /\ \/ published' = [sid |-> calls[c].sid, by |-> "caller"]
       \/ Quiet
    /\ UNCHANGED <<dbstate, trail, consumerVars, unread, recent, faults>>

-----------------------------------------------------------------------------
\* The consumer: _tick, _reload_strategies, _process, _evaluate_one.

Listed == {s \in Strategies : dbstate[s] \in ActiveStates}

\* A bug to detect: the refill does not clear the registry first.
RefillOver(rows) ==
    /\ registry' = [s \in Strategies |-> IF s \in rows THEN dbstate[s] ELSE registry[s]]
    /\ recent' = [s \in Strategies |-> {dbstate[s]}]

\* The registry is cleared and refilled row by row; a row that build_strategy
\* rejects ends the refill where it stands, whatever the rows' order was. The
\* query and the refill are one step, for nobody else reads the registry.
Refill(rows) ==
    /\ registry' \in {[s \in Strategies |-> IF s \in kept THEN dbstate[s] ELSE NotLoaded] :
                        kept \in {k \in SUBSET (rows \ Broken) :
                                    k = rows \/ rows \cap Broken # {}}}
    /\ recent' = [s \in Strategies |-> {dbstate[s]}]

Reload ==
    \/ Refill(Listed) /\ UNCHANGED faults
    \/ Fault /\ UNCHANGED <<registry, recent>>

Start ==
    /\ pc = "down"
    /\ Reload
    /\ due' = TRUE
    /\ pc' = "tick"
    /\ UNCHANGED <<dbVars, unread, batch, todo>> /\ Quiet

IntervalElapses ==
    /\ ~due
    /\ due' = TRUE
    /\ UNCHANGED <<dbVars, registry, pc, batch, todo, unread, recent, faults>> /\ Quiet

ReloadWhenDue ==
    /\ pc = "tick"
    /\ pc' = "read"
    /\ IF due THEN Reload /\ due' = FALSE
              ELSE UNCHANGED <<registry, recent, faults, due>>
    /\ UNCHANGED <<dbVars, unread, batch, todo>> /\ Quiet

PublishSnapshot ==
    /\ Len(unread) < MaxUnread
    /\ \E sym \in Symbols : unread' = Append(unread, sym)
    /\ UNCHANGED <<dbVars, consumerVars, recent, faults>> /\ Quiet

EvaluatorsFor(sym) ==
    {s \in Strategies : registry[s] # NotLoaded /\ (Watches[s] = {} \/ sym \in Watches[s])}

\* Up to Batch snapshots, or none when the read blocks for block_ms in vain.
Read ==
    /\ pc = "read"
    /\ LET n == IF Len(unread) < Batch THEN Len(unread) ELSE Batch
           read == SubSeq(unread, 1, n)
       IN /\ unread' = SubSeq(unread, n + 1, Len(unread))
          /\ batch' = read
          /\ todo' = IF n = 0 THEN {} ELSE EvaluatorsFor(read[1])
          /\ pc' = IF n = 0 THEN "tick" ELSE "process"
    /\ UNCHANGED <<dbVars, registry, due, recent, faults>> /\ Quiet

\* A bug to detect: a signal of a strategy that may not emit is published.
EvaluateUnasked ==
    /\ pc = "process"
    /\ \E s \in todo : todo' = todo \ {s} /\ published' = [sid |-> s, by |-> "consumer"]
    /\ UNCHANGED <<dbVars, registry, due, pc, batch, unread, recent, faults>>

\* One evaluator on the snapshot in hand: it may signal, and then publishes
\* when its own state emits. A publication that fails is logged and swallowed.
Evaluate ==
    /\ pc = "process"
    /\ \E s \in todo :
         /\ todo' = todo \ {s}
         /\ \/ /\ registry[s] \in EmitStates
               /\ published' = [sid |-> s, by |-> "consumer"]
            \/ Quiet
    /\ UNCHANGED <<dbVars, registry, due, pc, batch, unread, recent, faults>>

Ack ==
    /\ pc = "process" /\ todo = {}
    /\ batch' = Tail(batch)
    /\ todo' = IF batch' = <<>> THEN {} ELSE EvaluatorsFor(batch'[1])
    /\ pc' = IF batch' = <<>> THEN "tick" ELSE "process"
    /\ UNCHANGED <<dbVars, registry, due, unread, recent, faults>> /\ Quiet

\* The process ends: the registry and the batch in hand are gone; the group
\* is never asked for its pending entries.
Crash ==
    /\ pc # "down"
    /\ Fault
    /\ pc' = "down"
    /\ registry' = [s \in Strategies |-> NotLoaded]
    /\ batch' = <<>> /\ todo' = {}
    /\ UNCHANGED <<dbVars, due, unread, recent>> /\ Quiet

ConsumerStep == Start \/ ReloadWhenDue \/ Read \/ Evaluate \/ Ack
CallerStep(c) == CommitUpdate(c) \/ FinishTrade(c)

Next ==
    \/ \E c \in Callers : ReadForUpdate(c) \/ CommitUpdate(c) \/ ReadForTrade(c) \/ FinishTrade(c)
    \/ Start \/ IntervalElapses \/ ReloadWhenDue \/ PublishSnapshot
    \/ Read \/ Evaluate \/ Ack \/ Crash

Spec == Init /\ [][Next]_vars

\* The event loop runs the consumer's task, time passes, and a session that
\* was begun is finished. Nothing makes a caller begin one.
Fairness ==
    /\ WF_vars(ConsumerStep)
    /\ WF_vars(IntervalElapses)
    /\ \A c \in Callers : WF_vars(CallerStep(c))

FairSpec == Spec /\ Fairness

-----------------------------------------------------------------------------
Calls == {Idle}
         \cup [op : {"update"}, sid : Strategies, seen : States, target : States]
         \cup [op : {"trade"}, sid : Strategies]

\* Every variable keeps its type; a caller's planned move is one that
\* VALID_TRANSITIONS allows from what it read, and what the consumer has in
\* hand matches where it is.
DbType ==
    /\ dbstate \in [Strategies -> States]
    /\ calls \in [Callers -> Calls]
RegistryType ==
    /\ registry \in [Strategies -> ActiveStates \cup {NotLoaded}]
    /\ recent \in [Strategies -> SUBSET States]
TrailType == trail \in Seq([sid : Strategies, from : States, to : States])
HandType ==
    /\ due \in BOOLEAN
    /\ pc \in {"down", "tick", "read", "process"}
    /\ unread \in Seq(Symbols) /\ batch \in Seq(Symbols)
    /\ todo \subseteq {s \in Strategies : registry[s] # NotLoaded}
    /\ pc = "process" => batch # <<>>
    /\ pc # "process" => todo = {}
PublishedType ==
    /\ published \in [sid : Strategies, by : {"caller", "consumer"}] \cup {NoIntent}
    /\ faults \in 0..MaxFaults

TypeOK == DbType /\ RegistryType /\ TrailType /\ HandType /\ PublishedType

\* What an evaluator takes for its strategy's state is a state that the row
\* has had since the registry was last rebuilt (_reload_strategies), however
\* many callers, failed queries and crashes came in between.
RegistryIsRecent ==
    \A s \in Strategies : registry[s] # NotLoaded => registry[s] \in recent[s]

\* The registry and what the consumer does with it, as an inductive invariant.
RegistryInv == TypeOK /\ RegistryIsRecent

\* The consumer publishes an intent only for a strategy that has been in an
\* emitting state since the last successful query of the table.
NoStaleIntent ==
    [][\A s \in Strategies :
         published' # published /\ published' = [sid |-> s, by |-> "consumer"]
           => recent[s] \cap EmitStates # {}]_vars

\* "ARCHIVED: [],   # terminal" (transitions.py:43): no sequence of calls
\* brings an archived strategy back.
ArchivedIsFinal ==
    [][\A s \in Strategies : dbstate[s] = "archived" => dbstate'[s] = "archived"]_vars

\* What update_strategy_state does keep of it: an archived strategy comes back
\* only by a session that had read the row before it was archived.
RevivedOnlyWhenOvertaken ==
    [][\A s \in Strategies :
         dbstate[s] = "archived" /\ dbstate'[s] # "archived"
           => \E c \in Callers : /\ calls[c].op = "update" /\ calls'[c] = Idle
                                 /\ calls[c].sid = s /\ calls[c].seen # "archived"]_vars

RowsOf(s) == {i \in DOMAIN trail : trail[i].sid = s}
IsEarliest(s, i) == i \in RowsOf(s) /\ \A j \in RowsOf(s) : i <= j
IsLast(s, i) == i \in RowsOf(s) /\ \A j \in RowsOf(s) : j <= i

\* The states that the rows of a strategy tell of before its row i: where the
\* first one starts, and where each leads.
ToldBefore(s, i) ==
    {trail[j].from : j \in {k \in RowsOf(s) : IsEarliest(s, k)}}
    \cup {trail[j].to : j \in {k \in RowsOf(s) : k < i}}

\* The audit rows of a strategy tell its history, however sessions overlap and
\* commits fail: the last ends in the state the row has, each starts in a state
\* that an earlier one tells of, and so does what a session is about to commit.
TrailTellsHistory ==
    \A s \in Strategies :
      /\ RowsOf(s) # {} => \E i \in RowsOf(s) : IsLast(s, i) /\ trail[i].to = dbstate[s]
      /\ \A i \in RowsOf(s) : trail[i].from \in ToldBefore(s, i)
      /\ \A c \in Callers : calls[c].op = "update" /\ calls[c].sid = s =>
           IF RowsOf(s) = {} THEN calls[c].seen = dbstate[s]
           ELSE calls[c].seen \in ToldBefore(s, Len(trail) + 1)

\* A strategy that is taken out of the emitting states for good is, after
\* some reload, never again evaluated as an emitting one, and no call that
\* saw it emitting is left to publish for it.
StopsEmitting ==
    \A s \in Strategies :
      <>[](dbstate[s] \notin EmitStates)
        => <>[](/\ registry[s] \notin EmitStates
                /\ \A c \in Callers : calls[c] # [op |-> "trade", sid |-> s])

\* A strategy that stays in one emitting state is, after some reload, always
\* evaluated as such, unless the query keeps finding a row that cannot be built.
StartsEmitting ==
    \A s \in Strategies :
      <>[](dbstate[s] \in EmitStates /\ Listed \cap Broken = {})
        => <>[](registry[s] \in EmitStates)

\* A change of state arrives: a strategy that is taken out of the emitting
\* states for good stops emitting, and one that is left in them starts.
ChangesArrive == StopsEmitting /\ StartsEmitting
=============================================================================
