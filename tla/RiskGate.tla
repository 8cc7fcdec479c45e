------------------------------- MODULE RiskGate -------------------------------
(***************************************************************************)
(* How an intent is judged: ExecutionConsumer._process loads the account's *)
(* limits, queries the loss of the day and the open positions, and         *)
(* ExecutionRiskEngine.evaluate compares the three with the order. Each    *)
(* read is an await of its own, during which the account stream may write  *)
(* positions and fills, an administrator the policy, and midnight may pass;*)
(* each may fail, and a limit whose value was not read is not checked.     *)
(*                                                                         *)
(* Approved orders are filled on paper, which writes none of these tables. *)
(*                                                                         *)
(* Bounds: MaxJobs entries one after the other, MaxReports events of the   *)
(* account, MaxPolicies changes of the policy, MaxDays midnights,          *)
(* MaxReadFaults failures.                                                 *)
(***************************************************************************)
EXTENDS Integers, FiniteSets

CONSTANTS
    Held,            \* the symbols that the account may hold
    Orders,          \* the orders that come: see Order
    DefaultLimits,   \* RiskLimits()
    Policies,        \* the limits that risk_policies may hold
    DeniedSymbols,   \* the engine's own list; main.py gives it none
    MaxLoss, MaxJobs, MaxReports, MaxPolicies, MaxDays, MaxReadFaults, Unset

Limits == [usd : Nat, loss : Nat, open : Nat]
Order == [symbol : STRING, live : BOOLEAN, type : STRING, size : Nat,
          usd : Nat \cup {Unset}, limit : Nat \cup {Unset}]

ASSUME RiskAssumption ==
    /\ DefaultLimits \in Limits /\ Policies \subseteq Limits /\ Unset \notin Limits \cup Nat
    /\ \A o \in Orders : o \in Order
    /\ IsFiniteSet(Held)
    /\ {MaxLoss, MaxJobs, MaxReports, MaxPolicies, MaxDays, MaxReadFaults} \subseteq Nat

VARIABLES
    registered, \* default_account_id is the UUID of an account
    policy,     \* its row in risk_policies
    held,       \* its positions: quantity by symbol, negative when short
    lost, won,  \* sums of the negative and of the positive realized_pnl since midnight
    step,       \* where the entry in hand is
    order,      \* its order
    limits, loss, open,   \* what was read for it, Unset if nothing was
    failures,   \* the checks that it failed
    unread,     \* the reads that failed
    seen,       \* what the tables have held since the entry was taken
    stopped,    \* an order was blocked today for the loss, under the present policy
    jobs, reports, policies, days, readFaults

accountVars == <<policy, held, lost, won>>
readVars == <<limits, loss, open, unread>>
boundVars == <<reports, policies, days>>
riskVars == <<registered, accountVars, step, order, readVars, failures, seen, stopped, jobs,
              boundVars, readFaults>>

Positions == {s \in Held : held[s] # 0}
Shorts == {s \in Held : held[s] < 0}

\* AccountContextLoader.load: without a row in risk_policies the defaults apply.
InForce == IF policy = Unset THEN DefaultLimits ELSE policy

Now == [lost |-> lost, open |-> Cardinality(Positions), short |-> Shorts # {}, limits |-> InForce]

RiskInit ==
    /\ registered \in BOOLEAN /\ policy \in Policies \cup {Unset}
    /\ held = [s \in Held |-> 0] /\ lost = 0 /\ won = 0
    /\ step = "idle" /\ order = Unset
    /\ limits = Unset /\ loss = Unset /\ open = Unset /\ unread = {}
    /\ failures = {} /\ seen = {} /\ stopped = FALSE
    /\ jobs = 0 /\ reports = 0 /\ policies = 0 /\ days = 0 /\ readFaults = 0

ReadFault(what) ==
    /\ readFaults < MaxReadFaults /\ readFaults' = readFaults + 1
    /\ unread' = unread \cup {what}

-----------------------------------------------------------------------------
\* Who else writes the tables.

Observe == seen' = IF step = "idle" THEN seen ELSE seen \cup {Now'}

\* upsert_positions, and a fill that the account stream reports.
Report ==
    /\ registered /\ reports < MaxReports /\ reports' = reports + 1
    /\ \/ \E s \in Held, q \in {-1, 0, 1} :
            held[s] # q /\ held' = [held EXCEPT ![s] = q] /\ UNCHANGED <<lost, won>>
       \/ lost < MaxLoss /\ lost' = lost + 1 /\ UNCHANGED <<held, won>>
       \/ won < MaxLoss /\ won' = won + 1 /\ UNCHANGED <<held, lost>>
    /\ UNCHANGED policy /\ Observe
    /\ UNCHANGED <<registered, step, order, readVars, failures, stopped, jobs, policies, days,
                   readFaults>>

ChangePolicy ==
    /\ registered /\ policies < MaxPolicies /\ policies' = policies + 1
    /\ \E p \in Policies : p # policy /\ policy' = p
    /\ stopped' = FALSE
    /\ UNCHANGED <<held, lost, won>> /\ Observe
    /\ UNCHANGED <<registered, step, order, readVars, failures, jobs, reports, days, readFaults>>

\* get_daily_realized_loss_usd sums from 00:00 UTC on.
Midnight ==
    /\ days < MaxDays /\ days' = days + 1
    /\ lost' = 0 /\ won' = 0 /\ stopped' = FALSE
    /\ UNCHANGED <<policy, held>> /\ Observe
    /\ UNCHANGED <<registered, step, order, readVars, failures, jobs, reports, policies, readFaults>>

-----------------------------------------------------------------------------
\* _process, from the lock to the verdict.

Take(o) ==
    /\ step = "idle" /\ jobs < MaxJobs /\ jobs' = jobs + 1
    /\ step' = "context" /\ order' = o
    /\ seen' = {Now}
    /\ UNCHANGED <<registered, accountVars, readVars, failures, stopped, boundVars, readFaults>>

\* Of the context only the limits are used, and only when there is an account.
LoadContext ==
    /\ step = "context" /\ step' = "loss"
    /\ \/ limits' = (IF registered THEN InForce ELSE Unset) /\ UNCHANGED <<unread, readFaults>>
       \/ ReadFault("context") /\ UNCHANGED limits
    /\ UNCHANGED <<registered, accountVars, order, loss, open, failures, seen, stopped, jobs,
                   boundVars>>

\* A bug to detect: gains make up for losses.
NetLoss == IF won > lost THEN 0 ELSE lost - won

\* "Only negative realized_pnl rows are summed" (repository.py:266).
DailyLoss == lost

\* Both queries are in one try: when the first fails the second is not made.
QueryLoss ==
    /\ step = "loss"
    /\ \/ /\ loss' = (IF registered THEN DailyLoss ELSE 0) /\ step' = "positions"
          /\ UNCHANGED <<unread, readFaults>>
       \/ ReadFault("loss") /\ step' = "judging" /\ UNCHANGED loss
    /\ UNCHANGED <<registered, accountVars, order, limits, open, failures, seen, stopped, jobs,
                   boundVars>>

\* get_open_positions_count: "positions with quantity > 0" (repository.py:301).
CountOpen == Cardinality({s \in Held : held[s] > 0})

QueryPositions ==
    /\ step = "positions" /\ step' = "judging"
    /\ \/ open' = (IF registered THEN CountOpen ELSE 0) /\ UNCHANGED <<unread, readFaults>>
       \/ ReadFault("positions") /\ UNCHANGED open
    /\ UNCHANGED <<registered, accountVars, order, limits, loss, failures, seen, stopped, jobs,
                   boundVars>>

Effective == IF limits = Unset THEN DefaultLimits ELSE limits

\* check_max_position_size: an order without an amount or a limit price passes.
Amount(o) ==
    IF o.usd # Unset THEN o.usd ELSE IF o.limit # Unset /\ o.limit > 0 THEN o.size * o.limit ELSE 0

\* The two checks that pass when no data is available.
Reaches(value, limit) == value # Unset /\ value >= limit

\* The structural checks of evaluate, with the engine that main.py builds:
\* paper_only, without credentials, no list of allowed symbols.
Fails(check, o) ==
    CASE check = "symbol_policy" -> o.symbol \in DeniedSymbols
      [] check \in {"trading_mode", "missing_account_context"} -> o.live
      [] check = "max_position_size" -> Amount(o) > Effective.usd
      [] check = "unsupported_order_type" -> o.type \notin {"MARKET", "LIMIT"}
      [] check = "max_daily_loss" -> Reaches(loss, Effective.loss)
      [] check = "max_concurrent_exposure" -> Reaches(open, Effective.open)

Checks == {"symbol_policy", "trading_mode", "missing_account_context", "max_position_size",
           "unsupported_order_type", "max_daily_loss", "max_concurrent_exposure"}

\* All structural checks are made, whichever fail; a control that is set (kill
\* switch, pause, circuit breaker, cooldown) ends the evaluation before them, and
\* so does a Redis that does not answer.
Judge ==
    /\ step = "judging"
    /\ \/ /\ failures' = {c \in Checks : Fails(c, order)}
          /\ step' = IF failures' = {} THEN "approved" ELSE "blocked"
          /\ stopped' = (stopped \/ ("max_daily_loss" \in failures' /\ lost >= InForce.loss))
       \/ step' \in {"blocked", "failed"} /\ UNCHANGED <<failures, stopped>>
    /\ UNCHANGED <<registered, accountVars, order, readVars, seen, jobs, boundVars, readFaults>>

Finish ==
    /\ step \in {"approved", "blocked", "failed"} /\ step' = "idle" /\ order' = Unset
    /\ limits' = Unset /\ loss' = Unset /\ open' = Unset /\ unread' = {} /\ failures' = {}
    /\ seen' = {}
    /\ UNCHANGED <<registered, accountVars, stopped, jobs, boundVars, readFaults>>

Process ==
    \/ \E o \in Orders : Take(o)
    \/ LoadContext \/ QueryLoss \/ QueryPositions \/ Judge \/ Finish

RiskNext == Process \/ Report \/ ChangePolicy \/ Midnight

RiskSpec == RiskInit /\ [][RiskNext]_riskVars

-----------------------------------------------------------------------------
\* Every variable keeps its type.
RiskType ==
    /\ registered \in BOOLEAN /\ policy \in Policies \cup {Unset}
    /\ held \in [Held -> {-1, 0, 1}] /\ lost \in 0..MaxLoss /\ won \in 0..MaxLoss
    /\ step \in {"idle", "context", "loss", "positions", "judging", "approved", "blocked", "failed"}
    /\ order \in Orders \cup {Unset} /\ (step # "idle" => order \in Orders)
    /\ limits \in Policies \cup {DefaultLimits, Unset}
    /\ loss \in Nat \cup {Unset} /\ open \in Nat \cup {Unset}
    /\ unread \subseteq {"context", "loss", "positions"} /\ failures \subseteq Checks
    /\ seen \subseteq [lost : Nat, open : Nat, short : BOOLEAN, limits : Limits]
    /\ stopped \in BOOLEAN
    /\ jobs \in 0..MaxJobs /\ reports \in 0..MaxReports /\ policies \in 0..MaxPolicies
    /\ days \in 0..MaxDays /\ readFaults \in 0..MaxReadFaults

\* An approved order of an account was within its limits: the amount, the loss
\* of the day and the number of open positions each were below a limit that was
\* in force, at moments since the entry was taken, unless that read failed. The
\* checks "always pass when no live tracking data is available" (engine.py:28),
\* and short positions are not counted.
ApprovedWasWithin ==
    step = "approved" /\ registered /\ "context" \notin unread =>
      /\ \E w \in seen : Amount(order) <= w.limits.usd
      /\ "loss" \notin unread => \E v, w \in seen : v.lost < w.limits.loss
      /\ unread = {} /\ (\A w \in seen : ~w.short)
           => \E v, w \in seen : v.open < w.limits.open

\* A block for the loss or the positions has its cause in the tables.
BlockedForACause ==
    step = "blocked" /\ registered /\ "context" \notin unread =>
      /\ "max_daily_loss" \in failures => \E v, w \in seen : v.lost >= w.limits.loss
      /\ "max_concurrent_exposure" \in failures => \E v, w \in seen : v.open >= w.limits.open

\* "max_daily_loss": an account that was stopped for its loss stays so until
\* midnight, whatever it gains, unless its policy is changed or a read fails.
StoppedForTheDay == stopped /\ unread = {} /\ registered => step # "approved"

\* The verdict stands on the checks: an approved order failed none, and each
\* failure that is reported was one; nothing is written between the two.
VerdictStands ==
    /\ step = "approved" => \A c \in Checks : ~Fails(c, order)
    /\ step = "blocked" => \A c \in failures : Fails(c, order)
    /\ step \notin {"approved", "blocked"} => failures = {}

\* A value is there as soon as its read is over, unless that read failed or
\* the one before it in the same try.
ReadInOrder ==
    /\ step \in {"idle", "context"} => limits = Unset /\ unread = {}
    /\ step \in {"idle", "context", "loss"} => loss = Unset
    /\ step \in {"idle", "context", "loss", "positions"} => open = Unset
    /\ registered /\ "context" \notin unread /\ step \notin {"idle", "context"} => limits # Unset
    /\ "loss" \notin unread /\ step \in {"positions", "judging", "approved"} => loss # Unset
    /\ unread = {} /\ step \in {"judging", "approved"} => open # Unset

\* What was read is what the tables held at some moment since the entry was
\* taken; of the positions, those that are not short.
ReadWasThere ==
    /\ step # "idle" => Now \in seen
    /\ registered =>
         /\ limits # Unset => \E w \in seen : w.limits = limits
         /\ loss # Unset => \E v \in seen : v.lost = loss
         /\ open # Unset => \E v \in seen : v.open >= open /\ (~v.short => v.open = open)

\* An account is stopped while its loss is at the limit in force, and an entry
\* taken meanwhile reads that limit and such a loss.
StoppedReadsTheLoss ==
    stopped =>
      /\ lost >= InForce.loss
      /\ registered =>
           /\ step \in {"loss", "positions", "judging"} /\ "context" \notin unread
                => limits = InForce
           /\ step \in {"positions", "judging"} /\ "loss" \notin unread => loss >= InForce.loss

\* What the verdict on an order is worth.  The last four parts make it
\* inductive: they say where each number that the engine compares comes from.
RiskInv ==
    /\ RiskType /\ ApprovedWasWithin /\ BlockedForACause /\ StoppedForTheDay
    /\ VerdictStands /\ ReadInOrder /\ ReadWasThere /\ StoppedReadsTheLoss
=============================================================================
