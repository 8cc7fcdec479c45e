------------------------ MODULE OrderReconciliation ------------------------
(***************************************************************************)
(* The life of one live order in the execution service.  Three tasks write *)
(* its rows without a common transaction or lock:                          *)
(*   - ExecutionConsumer._process, after the adapter has answered          *)
(*     (consumer.py), with adapter/live.py in the adapter's place;         *)
(*   - NormalizedEventConsumer (reconciliation/event_consumer.py), which   *)
(*     replays the exchange's execution reports into job, order and fills; *)
(*   - AccountStateWriter (account_stream/state.py), which writes order    *)
(*     and fills from its own websocket when ACCOUNT_STREAM_ENABLED.       *)
(* ReconciliationLoop (reconciliation/loop.py) scans for jobs that hang.   *)
(*                                                                         *)
(* The fills table is kept as the exchange_trade_ids in it and the sum of  *)
(* their quantities; a quantity is a number of lots.                       *)
(***************************************************************************)
EXTENDS Naturals, Sequences

CONSTANTS
  OrigQty,        \* quantity of the order
  TradeGaps,      \* milliseconds between two trades: 0 when they share one
  MaxFailures       \* bound: failing calls, crashes, lost answers, and reports
                  \* that reach the stream twice

ASSUME ReconciliationConstants ==
  /\ OrigQty \in Nat \ {0}
  /\ TradeGaps \subseteq Nat
  /\ MaxFailures \in Nat

VARIABLES
  executed,  \* lots the exchange has executed
  xstatus,   \* the exchange's order status, "none" before it has the order
  clock,     \* time of its last trade
  trades,    \* trades so far: the next trade id
  reports,   \* USER_ORDER reports, oldest first
  job,       \* execution_jobs.status, "none" when create_job failed
  order,     \* the orders row: [made, filled]
  fillIds,   \* exchange_trade_ids in fills
  booked,    \* sum of their quantities
  cpc,       \* where the execution consumer is
  answer,    \* executedQty in the adapter's response
  rpc,       \* where the reconciliation consumer is
  rnext,     \* reports its group has been given
  rjob,      \* the job status it has read
  rfilled,   \* the order's filled_qty it has read
  spos,      \* reports the account stream has been given
  old,       \* the job is older than stale_order_timeout_s
  reported,  \* a stale_order incident has been logged
  failures,    \* failures and lost answers so far
  replays    \* reports that have been repeated

exchange == <<executed, xstatus, clock, trades>>
tables == <<job, order, fillIds, booked>>
consumer == <<cpc, answer>>
recon == <<rpc, rnext, rjob, rfilled>>
loop == <<old, reported>>
vars == <<exchange, reports, tables, consumer, recon, spos, loop, failures, replays>>

LC == INSTANCE JobLifecycle WITH Jobs <- {1}, status <- [j \in {1} |-> job]

Report == [status : {"NEW", "PARTIALLY_FILLED", "FILLED", "CANCELED"},
           cum : 0..OrigQty, leg : 0..OrigQty, ms : Nat, trade : Nat]

\* exchange_trade_id is built in three ways: the order's id by save_fill, the
\* order's id and the trade's millisecond by reconciliation, and the trade's
\* own id by the account stream.
OrderFill == <<"order", 0>>
ReconFill(r) == <<"ms", r.ms>>
StreamFill(r) == <<"trade", r.trade>>

FillId == {OrderFill} \cup ({"ms", "trade"} \X Nat)

TypeOK ==
  /\ executed \in 0..OrigQty
  /\ xstatus \in {"none", "NEW", "PARTIALLY_FILLED", "FILLED", "CANCELED"}
  /\ clock \in Nat /\ trades \in Nat
  /\ reports \in Seq(Report)
  /\ job \in LC!JobStates \cup {"none"}
  /\ order \in [made : BOOLEAN, filled : 0..OrigQty]
  /\ fillIds \subseteq FillId
  /\ booked \in Nat
  /\ cpc \in {"post", "submitted", "acknowledged", "order", "fill", "filled", "done"}
  /\ answer \in 0..OrigQty
  /\ rpc \in {"idle", "cancel", "order", "known", "insert", "qty", "partial", "finalize"}
  /\ rnext \in 0..Len(reports)
  /\ rjob \in LC!JobStates \cup {"none"}
  /\ rfilled \in 0..OrigQty
  /\ spos \in 0..Len(reports)
  /\ old \in BOOLEAN /\ reported \in BOOLEAN
  /\ failures \in 0..MaxFailures
  /\ replays \in 0..MaxFailures

\* The risk engine has approved the job; the consumer is about to submit.
Init ==
  /\ executed = 0 /\ xstatus = "none" /\ clock = 0 /\ trades = 0
  /\ reports = <<>>
  /\ job \in {"approved", "none"}
  /\ order = [made |-> FALSE, filled |-> 0]
  /\ fillIds = {} /\ booked = 0
  /\ cpc = "post" /\ answer = 0
  /\ rpc = "idle" /\ rnext = 0 /\ rjob = "none" /\ rfilled = 0
  /\ spos = 0
  /\ old = FALSE /\ reported = FALSE
  /\ failures = 0 /\ replays = 0

Disturbable == failures + replays < MaxFailures

Failure == Disturbable /\ failures' = failures + 1
NoFailure == UNCHANGED failures

\* update_job_status: any status over any other; nothing without a row.
SetJob(s) == job' = IF job = "none" THEN "none" ELSE s

\* A row in fills.
Book(id, qty) == fillIds' = fillIds \cup {id} /\ booked' = booked + qty
-----------------------------------------------------------------------------
(***************************************************************************)
(* The exchange, and the road of its reports to the normalized stream.     *)
(***************************************************************************)
Tell(s, leg) ==
  reports' = Append(reports, [status |-> s, cum |-> executed', leg |-> leg,
                              ms |-> clock', trade |-> trades'])

\* The POST arrives.
Accept ==
  /\ xstatus = "none" /\ cpc = "post"
  /\ xstatus' = "NEW"
  /\ UNCHANGED <<executed, clock, trades>>
  /\ Tell("NEW", 0)
  /\ UNCHANGED <<tables, consumer, recon, spos, loop, failures, replays>>

Trade ==
  /\ xstatus \in {"NEW", "PARTIALLY_FILLED"}
  /\ \E leg \in 1..(OrigQty - executed), gap \in TradeGaps :
       /\ executed' = executed + leg
       /\ clock' = clock + gap
       /\ trades' = trades + 1
       /\ xstatus' = IF executed' = OrigQty THEN "FILLED" ELSE "PARTIALLY_FILLED"
       /\ Tell(xstatus', leg)
  /\ UNCHANGED <<tables, consumer, recon, spos, loop, failures, replays>>

\* CANCELED, REJECTED and EXPIRED are handled alike.
EndOrder ==
  /\ xstatus \in {"NEW", "PARTIALLY_FILLED"}
  /\ xstatus' = "CANCELED"
  /\ UNCHANGED <<executed, clock, trades>>
  /\ Tell("CANCELED", 0)
  /\ UNCHANGED <<tables, consumer, recon, spos, loop, failures, replays>>

\* A report reaches the stream a second time.
Replay ==
  /\ Disturbable /\ replays' = replays + 1
  /\ \E k \in 1..Len(reports) : reports' = Append(reports, reports[k])
  /\ UNCHANGED <<exchange, tables, consumer, recon, spos, loop, failures>>
-----------------------------------------------------------------------------
(***************************************************************************)
(* The execution consumer from adapter.submit on.                          *)
(***************************************************************************)
CGoto(p) == cpc' = p

\* HTTP 200: what had been executed when the exchange answered.
Answered ==
  /\ cpc = "post" /\ xstatus # "none"
  /\ answer' = executed
  /\ CGoto("submitted")
  /\ UNCHANGED <<exchange, reports, tables, recon, spos, loop, failures, replays>>

\* A refusal, or network_error when the answer is lost: the job has failed,
\* whatever the exchange has done with the order.
SubmitFailed ==
  /\ cpc = "post"
  /\ \/ xstatus = "none" /\ NoFailure
     \/ Failure
  /\ SetJob("failed")
  /\ CGoto("done")
  /\ UNCHANGED <<exchange, reports, order, fillIds, booked, answer, recon,
                 spos, loop, replays>>

\* "submitted", then "acknowledged"; a failed write is swallowed.
WriteStatus ==
  /\ cpc \in {"submitted", "acknowledged"}
  /\ \/ SetJob(cpc) /\ NoFailure
     \/ Failure /\ UNCHANGED job
  /\ CGoto(IF cpc = "submitted" THEN "acknowledged" ELSE "order")
  /\ UNCHANGED <<exchange, reports, order, fillIds, booked, answer, recon,
                 spos, loop, replays>>

\* create_order needs the job row and a free client_order_id.  A failure
\* skips the fill and the "filled" status.
CreateOrder ==
  /\ cpc = "order"
  /\ LET insertable == job # "none" /\ ~order.made IN
       \/ /\ insertable /\ NoFailure
          /\ order' = [made |-> TRUE, filled |-> answer]
          /\ CGoto("fill")
       \/ /\ ~insertable /\ NoFailure
          /\ CGoto("done") /\ UNCHANGED order
       \/ Failure /\ CGoto("done") /\ UNCHANGED order
  /\ UNCHANGED <<exchange, reports, job, fillIds, booked, answer, recon, spos,
                 loop, replays>>

\* save_fill returns early when the response carried no fill.
SaveFill ==
  /\ cpc = "fill"
  /\ \/ /\ IF answer = 0 THEN UNCHANGED <<fillIds, booked>>
                         ELSE Book(OrderFill, answer)
        /\ NoFailure /\ CGoto("filled")
     \/ Failure /\ CGoto("done") /\ UNCHANGED <<fillIds, booked>>
  /\ UNCHANGED <<exchange, reports, job, order, answer, recon, spos, loop, replays>>

\* The job is written "filled" whatever the response said was filled.
WriteFilled ==
  /\ cpc = "filled"
  /\ \/ SetJob("filled") /\ NoFailure
     \/ Failure /\ UNCHANGED job
  /\ CGoto("done")
  /\ UNCHANGED <<exchange, reports, order, fillIds, booked, answer, recon, spos,
                 loop, replays>>

ConsumerCrash ==
  /\ cpc # "done" /\ Failure
  /\ CGoto("done")
  /\ UNCHANGED <<exchange, reports, tables, answer, recon, spos, loop, replays>>

ConsumerStep == Answered \/ SubmitFailed \/ WriteStatus \/ CreateOrder \/ SaveFill
                \/ WriteFilled \/ ConsumerCrash
-----------------------------------------------------------------------------
(***************************************************************************)
(* NormalizedEventConsumer.                                                *)
(***************************************************************************)
RGoto(p) == rpc' = p

\* The report being handled.
Current == reports[rnext]

\* _handle_user_order: the job row is read once and its status used until the
\* report is done with.  A report for a missing or a terminal job is an
\* orphan, one that needs no write is acknowledged.
Handle ==
  /\ rpc = "idle" /\ rnext < Len(reports)
  /\ rnext' = rnext + 1
  /\ rjob' = job
  /\ LET s == reports[rnext + 1].status IN
       RGoto(IF job = "none" \/ LC!IsTerminal(job) THEN "idle"
             ELSE CASE s = "CANCELED" /\ LC!CanTransition(job, "canceled") -> "cancel"
                    [] s \in {"PARTIALLY_FILLED", "FILLED"} -> "order"
                    [] OTHER -> "idle")
  /\ UNCHANGED <<exchange, reports, tables, consumer, rfilled, spos, loop,
                 failures, replays>>

\* _handle_cancel
Cancel ==
  /\ rpc = "cancel"
  /\ SetJob("canceled")
  /\ RGoto("idle")
  /\ UNCHANGED <<exchange, reports, order, fillIds, booked, consumer, rnext,
                 rjob, rfilled, spos, loop, failures, replays>>

OrderMissing == ~order.made

\* The order row is read; without one the report is dropped
\* (order_record_not_found).  A partial report that adds nothing is dropped.
ReadOrder ==
  /\ rpc = "order"
  /\ rfilled' = order.filled
  /\ RGoto(IF OrderMissing THEN "idle"
           ELSE IF Current.cum > order.filled THEN "known"
           ELSE IF Current.status = "FILLED" THEN "qty" ELSE "idle")
  /\ UNCHANGED <<exchange, reports, tables, consumer, rnext, rjob, spos, loop,
                 failures, replays>>

\* get_fill_by_exchange_trade_id: a known id ends a partial report, but a
\* full one still updates the order and the job.
LookFill ==
  /\ rpc = "known"
  /\ RGoto(IF ReconFill(Current) \notin fillIds THEN "insert"
           ELSE IF Current.status = "FILLED" THEN "qty" ELSE "idle")
  /\ UNCHANGED <<exchange, reports, tables, consumer, rnext, rjob, rfilled,
                 spos, loop, failures, replays>>

\* A bug to detect: the cumulative quantity booked as the leg.
WholeFill == Current.cum

\* fill_leg_qty, from the filled_qty read before
Leg == Current.cum - rfilled

\* insert_fill
InsertFill ==
  /\ rpc = "insert"
  /\ Book(ReconFill(Current), Leg)
  /\ RGoto("qty")
  /\ UNCHANGED <<exchange, reports, job, order, consumer, rnext, rjob, rfilled,
                 spos, loop, failures, replays>>

LegQty == Leg

\* The cumulative quantity replaces filled_qty.
NewQty == Current.cum

\* update_order_filled_qty
UpdateQty ==
  /\ rpc = "qty"
  /\ order' = [order EXCEPT !.filled = NewQty]
  /\ RGoto(IF Current.status = "FILLED" THEN "finalize" ELSE "partial")
  /\ UNCHANGED <<exchange, reports, job, fillIds, booked, consumer, rnext, rjob,
                 rfilled, spos, loop, failures, replays>>

\* The status is written if the status read at the start allows it.
MarkPartial ==
  /\ rpc = "partial"
  /\ IF LC!CanTransition(rjob, "partially_filled")
     THEN SetJob("partially_filled") ELSE UNCHANGED job
  /\ RGoto(IF Current.cum >= OrigQty THEN "finalize" ELSE "idle")
  /\ UNCHANGED <<exchange, reports, order, fillIds, booked, consumer, rnext,
                 rjob, rfilled, spos, loop, failures, replays>>

MayFinalize == LC!CanTransition(rjob, "filled")

\* _finalize_fill, again with the status read at the start
FinalizeFill ==
  /\ rpc = "finalize"
  /\ IF MayFinalize THEN SetJob("filled") ELSE UNCHANGED job
  /\ RGoto("idle")
  /\ UNCHANGED <<exchange, reports, order, fillIds, booked, consumer, rnext,
                 rjob, rfilled, spos, loop, failures, replays>>

\* A failing query, a cancellation or a crash: the report stays pending and is
\* never asked for again.
ReconAbandon ==
  /\ rpc # "idle" /\ Failure
  /\ RGoto("idle")
  /\ UNCHANGED <<exchange, reports, tables, consumer, rnext, rjob, rfilled,
                 spos, loop, replays>>

ReconStep == Handle \/ Cancel \/ ReadOrder \/ LookFill \/ InsertFill
             \/ UpdateQty \/ MarkPartial \/ FinalizeFill \/ ReconAbandon
-----------------------------------------------------------------------------
(***************************************************************************)
(* AccountStateWriter and ReconciliationLoop.                              *)
(***************************************************************************)

\* upsert_order_from_execution_report: order and fill in one transaction. The
\* account stream need not run (ACCOUNT_STREAM_ENABLED is off by default).
UpsertOrder ==
  /\ spos < Len(reports)
  /\ spos' = spos + 1
  /\ LET r == reports[spos + 1] IN
       \/ /\ order' = [made |-> TRUE, filled |-> r.cum]
          /\ IF r.leg > 0 /\ StreamFill(r) \notin fillIds
             THEN Book(StreamFill(r), r.leg)
             ELSE UNCHANGED <<fillIds, booked>>
          /\ NoFailure
       \/ \* the websocket is down, or the transaction fails
          Failure /\ UNCHANGED <<order, fillIds, booked>>
  /\ UNCHANGED <<exchange, reports, job, consumer, recon, loop, replays>>

\* The job passes stale_order_timeout_s.
GrowOld ==
  /\ ~old /\ old' = TRUE
  /\ UNCHANGED <<exchange, reports, tables, consumer, recon, spos, reported,
                 failures, replays>>

\* A bug to detect: only what has begun to fill can be stale.
IsUnfilled == job = "partially_filled" /\ old

\* What run_once takes for stale among get_active_jobs
IsStale == job = "submitted" /\ old

Scan ==
  /\ IsStale
  /\ reported' = TRUE
  /\ UNCHANGED <<exchange, reports, tables, consumer, recon, spos, old, failures,
                 replays>>

Next == \/ Accept \/ Trade \/ EndOrder \/ Replay
        \/ ConsumerStep \/ ReconStep \/ UpsertOrder \/ GrowOld \/ Scan

Spec == Init /\ [][Next]_vars

\* The event loop runs the two consumers and the scan; the exchange is free,
\* and so is the account stream.
FairSpec == Spec /\ WF_vars(ConsumerStep) /\ WF_vars(ReconStep) /\ WF_vars(Scan)
-----------------------------------------------------------------------------
(***************************************************************************)
(* Properties.                                                             *)
(***************************************************************************)

\* The account stream has written nothing.
OneWriter == spos = 0

\* A call has failed or a report has come twice.
Disturbed == failures + replays > 0

\* Two trades of the order fell into one millisecond.
SharedMillisecond ==
  \E a, b \in 1..Len(reports) :
    /\ reports[a].trade # reports[b].trade /\ reports[a].ms = reports[b].ms
    /\ reports[a].leg > 0 /\ reports[b].leg > 0

\* Unless a call fails or a second writer books, never more is booked in fills
\* than the exchange executed, although the leg of a report is computed from a
\* filled_qty read two queries before, and reports may come twice
\* (event_consumer.py "already recorded this cumulative level").
NeverOverbooked == failures = 0 /\ OneWriter => booked <= executed

\* Between two reports the fills add up to the filled_qty of the order, which
\* the tasks keep in separate transactions; not so once a call has failed, a
\* second writer has booked or two trades share a millisecond.
BooksBalance ==
  failures = 0 /\ OneWriter /\ ~SharedMillisecond /\ rpc = "idle" /\ cpc # "fill"
    => booked = order.filled

\* Whatever fails, is lost or is replayed, and whoever writes, filled_qty never
\* exceeds what was executed and, without the account stream, never goes back.
FilledGrows ==
  [][/\ order'.filled <= executed'
     /\ spos' = 0 => order.filled <= order'.filled]_vars

\* A job is "filled" only once its order row exists, whoever writes first and
\* whatever fails: the consumer and the reconciliation both look before.
FilledHasOrder == job = "filled" => order.made

\* Unless a call fails, a report comes twice or the account stream writes the
\* order row first, a job whose order the exchange has filled becomes "filled",
\* although reports may be dropped while the consumer is still persisting and
\* the statuses of the two tasks overwrite each other.
FilledIsReached ==
  (xstatus = "FILLED" /\ job # "none")
    ~> (job \in {"filled", "failed"} \/ Disturbed \/ ~OneWriter)

\* ReconciliationLoop: a job stuck in "submitted" because its consumer died is
\* reported as a "stale (submitted-but-no-ack)" order.
StaleReported ==
  (job = "submitted" /\ old) ~> (reported \/ job # "submitted")

\* Every order settles: as a filled job, or as one that is reported.
OrdersSettle == FilledIsReached /\ StaleReported

\* What the exchange executed reaches the orders row (event_consumer.py:
\* "matches them against execution jobs to update fill records, partial-fill
\* state, and terminal status").
ExecutedIsRecorded ==
  \A n \in 1..OrigQty :
    (executed >= n /\ job # "none")
      ~> (order.filled >= n \/ job = "failed" \/ Disturbed \/ ~OneWriter)

\* What the reports tell: never more than was executed, a fill for every trade,
\* and a trade has one time and one cumulative quantity however often it comes.
ReportsTell ==
  /\ \A k \in 1..Len(reports) :
       /\ reports[k].cum <= executed /\ reports[k].trade <= trades
       /\ reports[k].status \in {"PARTIALLY_FILLED", "FILLED"} => reports[k].leg > 0
       /\ reports[k].status = "FILLED" => reports[k].cum = OrigQty
  /\ \A a, b \in 1..Len(reports) :
       reports[a].leg > 0 /\ reports[b].leg > 0 /\ reports[a].trade = reports[b].trade
         => reports[a].cum = reports[b].cum /\ reports[a].ms = reports[b].ms

\* Which rows there are when a task has come to its next write.
RowsAreThere ==
  /\ cpc \in {"fill", "filled"} \/ rpc \in {"known", "insert", "qty", "partial", "finalize"}
       => order.made
  /\ ~order.made => order.filled = 0
  /\ OneWriter /\ order.made => cpc \in {"fill", "filled", "done"}
  /\ rpc # "idle" => rnext >= 1
  /\ rpc \in {"order", "known", "insert", "qty"} => Current.status \in {"PARTIALLY_FILLED", "FILLED"}

\* What a task has read still fits what it is about to write over.
ReadsFit ==
  /\ order.filled <= executed /\ answer <= executed
  /\ rpc \in {"known", "insert"} => rfilled < Current.cum
  /\ OneWriter =>
       /\ rpc \in {"known", "insert"} => rfilled = order.filled
       /\ rpc = "qty" => order.filled <= Current.cum

\* What the fills have to add up to: the order's quantity, or the one about to
\* replace it, and what the consumer is about to book.
Level == IF rpc = "qty" THEN Current.cum ELSE order.filled
Pending == IF cpc = "fill" THEN answer ELSE 0

\* Every fill that reconciliation has booked is of a report within the level.
FillsFit ==
  failures = 0 /\ OneWriter =>
    /\ booked + Pending <= Level
    /\ ~SharedMillisecond => booked + Pending = Level
    /\ ~order.made => fillIds = {}
    /\ \A f \in fillIds : f[1] = "ms" =>
         \E k \in 1..Len(reports) :
           ReconFill(reports[k]) = f /\ reports[k].leg > 0 /\ reports[k].cum <= Level

\* What the rows say of an order at any moment: each has its type, fills are
\* never more than the executions and between reports add up to the order's
\* quantity, and a filled job has its order.
OrderInv == TypeOK /\ NeverOverbooked /\ BooksBalance /\ FilledHasOrder
            /\ ReportsTell /\ RowsAreThere /\ ReadsFit /\ FillsFit
=============================================================================
