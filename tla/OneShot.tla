------------------------------- MODULE OneShot -------------------------------
(***************************************************************************)
(* What the caller of InternalMcpClient may rely on: a shot that succeeds  *)
(* has run its tool, once; every shot ends; and one that fails says        *)
(* nothing of its tool, which may have run, be running or run later.       *)
(***************************************************************************)
CONSTANT Shots

VARIABLES
    result,  \* what the caller has been told
    ran      \* the shots whose tool has run

vars == <<result, ran>>

Init == result = [s \in Shots |-> "idle"] /\ ran = {}

Turn(s, from, to) == result[s] = from /\ result' = [result EXCEPT ![s] = to]

Begin(s) == Turn(s, "idle", "open") /\ UNCHANGED ran

\* No message of another request is taken for the answer.
Succeed(s) == s \in ran /\ Turn(s, "open", "ok") /\ UNCHANGED ran

Fail(s) == Turn(s, "open", "failed") /\ UNCHANGED ran

Run(s) == result[s] # "idle" /\ s \notin ran /\ ran' = ran \cup {s} /\ UNCHANGED result

Next == \E s \in Shots : Begin(s) \/ Succeed(s) \/ Fail(s) \/ Run(s)

End(s) == Succeed(s) \/ Fail(s)

Safety == Init /\ [][Next]_vars

Spec == Safety /\ \A s \in Shots : WF_vars(End(s))
=============================================================================
