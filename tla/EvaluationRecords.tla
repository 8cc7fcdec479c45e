--------------------------- MODULE EvaluationRecords ---------------------------
(***************************************************************************)
(* What the strategy service leaves behind of each evaluation: a row of    *)
(* strategy_evaluations, the intent on stream:strategy:intents and a row   *)
(* of strategy_actions, in this order and each able to fail alone          *)
(* (StrategyConsumer._evaluate_one); and what GET /strategy/{id}/status    *)
(* (gateway_api/ops/strategy_status.py) tells of it meanwhile, from one    *)
(* query after the other, each of which sees what is committed by then.    *)
(*                                                                         *)
(* One strategy; its evaluations are numbered, and rows are dated in       *)
(* milliseconds, which several may share. Bounds: MaxEvals evaluations,    *)
(* MaxWriteFaults writes that fail or processes that end, MaxAsked reads.  *)
(***************************************************************************)
EXTENDS Naturals, FiniteSets, Sequences, SequencesExt

CONSTANTS MaxEvals, MaxWriteFaults, MaxAsked

ASSUME EvaluationAssumption == {MaxEvals, MaxWriteFaults, MaxAsked} \subseteq Nat

VARIABLES
    emits,     \* the evaluator's state is one that publishes
    hand,      \* the evaluation in hand: its number, and has it an intent
    writing,
    evaluations,     \* rows of strategy_evaluations
    intents,    \* numbers of the evaluations whose intent was published
    actions,   \* the same of the intent_published rows of strategy_actions
    ms,        \* the millisecond it is
    status,    \* strategy_status: its answer so far, and the query that is next
    writeFaults

tables == <<evaluations, intents, actions>>
statusVars == <<ms, status>>
recordVars == <<emits, hand, writing, tables, statusVars, writeFaults>>

NoRow == [n |-> 0, intent |-> FALSE, at |-> 0]

RecordInit ==
    /\ emits \in BOOLEAN
    /\ hand = [n |-> 0, intent |-> FALSE] /\ writing = "idle"
    /\ evaluations = <<>> /\ intents = <<>> /\ actions = <<>>
    /\ ms = 1 /\ writeFaults = 0
    /\ status = [query |-> "none", last |-> NoRow, action |-> NoRow, emission |-> NoRow, asked |-> 0]

WriteFault == writeFaults < MaxWriteFaults /\ writeFaults' = writeFaults + 1

-----------------------------------------------------------------------------
\* A reload between two snapshots gives the evaluator the row's new state.
ReloadState ==
    /\ writing = "idle" /\ hand.n < MaxEvals
    /\ emits' = ~emits
    /\ UNCHANGED <<hand, writing, tables, statusVars, writeFaults>>

\* In simulation as in the emitting states, a signal builds a full intent.
EvaluateNext ==
    /\ writing = "idle" /\ hand.n < MaxEvals
    /\ \E intent \in BOOLEAN : hand' = [n |-> hand.n + 1, intent |-> intent]
    /\ writing' = "save"
    /\ UNCHANGED <<emits, tables, statusVars, writeFaults>>

AfterSave == IF emits /\ hand.intent THEN "publish" ELSE "idle"

Row(n, intent) == [n |-> n, intent |-> intent, at |-> ms]

\* Logged and swallowed when it fails; the intent goes out all the same.
SaveEvaluation ==
    /\ writing = "save"
    /\ \/ evaluations' = Append(evaluations, Row(hand.n, hand.intent)) /\ UNCHANGED writeFaults
       \/ WriteFault /\ UNCHANGED evaluations
    /\ writing' = AfterSave
    /\ UNCHANGED <<emits, hand, intents, actions, statusVars>>

OnPublishError == "idle"

PublishIntent ==
    /\ writing = "publish"
    /\ \/ intents' = Append(intents, hand.n) /\ writing' = "audit" /\ UNCHANGED writeFaults
       \/ /\ WriteFault /\ writing' = OnPublishError
          /\ intents' \in {intents, Append(intents, hand.n)}
    /\ UNCHANGED <<emits, hand, evaluations, actions, statusVars>>

HasEval(n) == \E e \in ToSet(evaluations) : e.n = n /\ e.intent

\* A bug to detect: the row refers to a row of strategy_evaluations, and is
\* refused without it.
Referring ==
    IF HasEval(hand.n) THEN Append(actions, Row(hand.n, TRUE)) ELSE actions

WithAudit == Append(actions, Row(hand.n, TRUE))

SaveAction ==
    /\ writing = "audit"
    /\ writing' = "idle"
    /\ \/ actions' = WithAudit /\ UNCHANGED writeFaults
       \/ WriteFault /\ UNCHANGED actions
    /\ UNCHANGED <<emits, hand, evaluations, intents, statusVars>>

\* The process ends; the snapshot was delivered and is not read again.
EndProcess ==
    /\ writing # "idle" /\ WriteFault /\ writing' = "idle"
    /\ UNCHANGED <<emits, hand, tables, statusVars>>

Millisecond ==
    /\ ms <= Len(evaluations) /\ ms' = ms + 1
    /\ UNCHANGED <<emits, hand, writing, tables, status, writeFaults>>

-----------------------------------------------------------------------------
\* strategy_status.

\* ORDER BY created_at_ms DESC LIMIT 1: one of the latest.
Newest(rows) == IF rows = {} THEN {NoRow} ELSE {r \in rows : \A q \in rows : q.at <= r.at}

Ask ==
    /\ status.query = "none" /\ status.asked < MaxAsked
    /\ status' = [query |-> "evaluation", last |-> NoRow, action |-> NoRow, emission |-> NoRow,
                  asked |-> status.asked + 1]
    /\ UNCHANGED <<emits, hand, writing, tables, ms, writeFaults>>

\* The queries in their order; the last one is of the evaluations with an intent.
ReadStatus ==
    /\ status.query # "none"
    /\ \/ /\ status.query = "evaluation"
          /\ \E r \in Newest(ToSet(evaluations)) :
               status' = [status EXCEPT !.last = r, !.query = "action"]
       \/ /\ status.query = "action"
          /\ \E r \in Newest(ToSet(actions)) :
               status' = [status EXCEPT !.action = r, !.query = "emission"]
       \/ /\ status.query = "emission"
          /\ \E r \in Newest({e \in ToSet(evaluations) : e.intent}) :
               status' = [status EXCEPT !.emission = r, !.query = "none"]
    /\ UNCHANGED <<emits, hand, writing, tables, ms, writeFaults>>

RecordNext ==
    \/ ReloadState \/ EvaluateNext \/ SaveEvaluation \/ PublishIntent \/ SaveAction
    \/ EndProcess \/ Millisecond \/ Ask \/ ReadStatus

RecordSpec == RecordInit /\ [][RecordNext]_recordVars

-----------------------------------------------------------------------------
TableRows == [n : 1..MaxEvals, intent : BOOLEAN, at : 1..ms]

\* Each variable has its type; what is under way to the stream is an intent of
\* an evaluator that emits.
RecordType ==
    /\ emits \in BOOLEAN
    /\ hand \in [n : 0..MaxEvals, intent : BOOLEAN]
    /\ writing \in {"idle", "save", "publish", "audit"} /\ (writing # "idle" => hand.n > 0)
    /\ writing \in {"publish", "audit"} => emits /\ hand.intent
    /\ evaluations \in Seq(TableRows) /\ actions \in Seq(TableRows)
    /\ intents \in Seq(1..MaxEvals)
    /\ ms \in Nat \ {0}
    /\ status \in [query : {"none", "evaluation", "action", "emission"},
                   last : TableRows \cup {NoRow}, action : TableRows \cup {NoRow},
                   emission : TableRows \cup {NoRow}, asked : 0..MaxAsked]
    /\ writeFaults \in 0..MaxWriteFaults

\* Each intent_published row is of an intent that is on the stream, and there
\* is one for each at most, in the order of publication.
AuditedWasPublished ==
    /\ \A a \in ToSet(actions) : a.n \in ToSet(intents)
    /\ \A i, j \in DOMAIN actions : i < j => actions[i].n < actions[j].n

\* Between evaluations, each record that a published intent lacks is the trace
\* of one failure of its own: no single failed write costs two records.
HasAction(n) == \E a \in ToSet(actions) : a.n = n

Gaps ==
    {<<n, "evaluation">> : n \in {m \in ToSet(intents) : ~HasEval(m)}}
    \cup {<<n, "action">> : n \in {m \in ToSet(intents) : ~HasAction(m)}}

EveryGapIsAFailure == writing = "idle" => Cardinality(Gaps) <= writeFaults

\* strategy_status: its parts are of different moments, yet the emission it tells
\* is no older than the intent of the evaluation and of the action beside it,
\* whose evaluation may have failed to be stored. (Whether it was emitted at all
\* the row does not say: an intent is built in simulation too.)
AnswerHangsTogether ==
    status.query = "none" =>
      /\ status.last.intent => status.emission.at >= status.last.at
      /\ \A e \in ToSet(evaluations) :
           e.n = status.action.n => status.emission.at >= e.at

\* What these rest on: in the middle of an evaluation, its own action is not a gap
\* yet, and the row that it has failed to save will be one.
Accounted ==
    CASE writing = "audit" -> Gaps \ {<<hand.n, "action">>}
      [] writing = "publish" /\ ~HasEval(hand.n) -> Gaps \cup {<<hand.n, "evaluation">>}
      [] OTHER -> Gaps

FailuresAccount == Cardinality(Accounted) <= writeFaults

\* The rows are of evaluations so far, those of the one in hand as far as it has
\* come; what was published and audited had an intent; and an answer is made of
\* rows.
RowsAreInOrder ==
    /\ \A e \in ToSet(evaluations) :
         /\ IF writing = "save" THEN e.n < hand.n ELSE e.n <= hand.n
         /\ (writing \in {"publish", "audit"} /\ e.n = hand.n) \/ HasAction(e.n) => e.intent
    /\ \A a \in ToSet(actions) : IF writing = "idle" THEN a.n <= hand.n ELSE a.n < hand.n
    /\ writing = "audit" => hand.n \in ToSet(intents)
    /\ status.last \in ToSet(evaluations) \cup {NoRow}
    /\ status.action \in ToSet(actions) \cup {NoRow}

\* What the three tables tell of an evaluation: no audit row without its intent
\* on the stream, no record missing but for a failure of its own, and answers
\* whose parts agree.
RecordsInv ==
    /\ RecordType /\ AuditedWasPublished /\ EveryGapIsAFailure /\ AnswerHangsTogether
    /\ FailuresAccount /\ RowsAreInOrder
=============================================================================
