---------------------------- MODULE JobLifecycle ----------------------------
(***************************************************************************)
(* The life cycle an execution job promises: services/execution/jobs/      *)
(* lifecycle.py.  A job row is first absent, is inserted as "queued", and  *)
(* from then on moves only along VALID_JOB_TRANSITIONS.  The detailed      *)
(* specifications (ExecutionConsumer, OrderReconciliation) write the       *)
(* status column from several places; this module is what they are         *)
(* compared with.                                                          *)
(***************************************************************************)
CONSTANT Jobs          \* identities of execution_jobs rows

VARIABLE status        \* status column of each row, "none" before INSERT

JobStates == {"queued", "approved", "blocked", "submitted", "acknowledged",
              "partially_filled", "filled", "canceled", "failed",
              "rolled_back"}

ValidJobTransitions ==
  [from \in JobStates |->
     CASE from = "queued"           -> {"approved", "blocked", "failed"}
       [] from = "approved"         -> {"submitted", "failed"}
       [] from = "submitted"        -> {"acknowledged", "failed", "canceled"}
       [] from = "acknowledged"     -> {"partially_filled", "filled",
                                        "canceled", "failed"}
       [] from = "partially_filled" -> {"filled", "canceled", "failed"}
       [] from = "failed"           -> {"rolled_back"}
       [] OTHER                     -> {}]

\* can_transition(from_state, to_state)
CanTransition(from, to) ==
  from \in JobStates /\ to \in ValidJobTransitions[from]

\* is_terminal(state); note that "failed" is not terminal
IsTerminal(s) == s \in JobStates /\ ValidJobTransitions[s] = {}
-----------------------------------------------------------------------------
TypeOK == status \in [Jobs -> JobStates \cup {"none"}]

Init == status = [j \in Jobs |-> "none"]

\* The row is inserted, always as "queued" (create_job).
Insert(j) == /\ status[j] = "none"
             /\ status' = [status EXCEPT ![j] = "queued"]

\* The row moves along an edge of the table.
Move(j) == \E to \in JobStates :
             /\ CanTransition(status[j], to)
             /\ status' = [status EXCEPT ![j] = to]

Next == \E j \in Jobs : Insert(j) \/ Move(j)

Spec == Init /\ [][Next]_status

\* What is left of the promise when a write can be lost: the row moves along
\* one edge or several at once, never against them.
Further(states) == states \cup UNION {ValidJobTransitions[s] : s \in states}

\* The longest way has six edges.
Ahead == [from \in JobStates |->
  Further(Further(Further(Further(Further(ValidJobTransitions[from])))))]

MoveAhead(j) == /\ status[j] \in JobStates
                /\ \E to \in Ahead[status[j]] : status' = [status EXCEPT ![j] = to]

LossySpec == Init /\ [][\E j \in Jobs : Insert(j) \/ MoveAhead(j)]_status
=============================================================================
