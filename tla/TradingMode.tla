------------------------------ MODULE TradingMode ------------------------------
(***************************************************************************)
(* The global trading mode of gateway_api/ops/trading_mode.py: two Redis   *)
(* keys, global:trading_mode and global:emergency_stop, that one request   *)
(* writes one after the other and another request reads one after the      *)
(* other, and the execution engine that decides on intents meanwhile.      *)
(*                                                                         *)
(* Bounds: one request of each operator at a time, MaxModeFaults Redis     *)
(* commands that raise (executed or not), MaxIntents intents evaluated.    *)
(***************************************************************************)
EXTENDS Naturals, FiniteSets

CONSTANTS Operators, MaxModeFaults, MaxIntents

ASSUME TradingModeAssumption ==
    MaxModeFaults \in Nat /\ MaxIntents \in Nat

ValidModes == {"paper_only", "mixed", "emergency_stop"}
Unset == "unset"
NoRequest == [pc |-> "idle"]

VARIABLES
    mode,      \* global:trading_mode
    stop,      \* global:emergency_stop exists
    req,       \* the request of each operator
    overlap,   \* history: the writes of two POSTs have been under way together
    last,      \* how the last POST that ended was answered
    shown,     \* what the last GET answered
    intent,    \* the intent in the engine: has the stop been set since it entered
    executed,  \* the intents approved, by whether the stop was set throughout
    modeFaults

keyVars == <<mode, stop>>
engineVars == <<intent, executed>>
modeVars == <<keyVars, req, overlap, last, shown, engineVars, modeFaults>>

Writing == {o \in Operators : req[o] # NoRequest /\ req[o].pc # "get"}

ModeInit ==
    /\ mode = Unset /\ stop = FALSE
    /\ req = [o \in Operators |-> NoRequest]
    /\ overlap = FALSE /\ last = "none"
    /\ shown = [mode |-> "paper_only", stop |-> FALSE]
    /\ intent = "none" /\ executed = [under_stop |-> 0, free |-> 0]
    /\ modeFaults = 0

ModeFault == modeFaults < MaxModeFaults /\ modeFaults' = modeFaults + 1
Close(o, answer) == req' = [req EXCEPT ![o] = NoRequest] /\ last' = answer

-----------------------------------------------------------------------------
\* POST: a mode outside _VALID_MODES is answered 422 before anything is written.
Post(o) ==
    /\ req[o] = NoRequest
    /\ overlap' = (Writing # {})
    /\ \E m \in ValidModes : req' = [req EXCEPT ![o] = [pc |-> "mode", to |-> m]]
    /\ UNCHANGED <<keyVars, last, shown, engineVars, modeFaults>>

SetMode(o) ==
    /\ req[o].pc = "mode"
    /\ \/ /\ mode' = req[o].to
          /\ req' = [req EXCEPT ![o].pc = "key"]
          /\ UNCHANGED <<last, modeFaults>>
       \/ /\ ModeFault
          /\ mode' \in {mode, req[o].to}
          /\ Close(o, "error")
    /\ UNCHANGED <<stop, overlap, shown, engineVars>>

\* A bug to detect: the key is set for a stop, and never deleted.
OnlySet(to) == stop \/ to = "emergency_stop"

KeyAfter(to) == to = "emergency_stop"

SetKey(o) ==
    /\ req[o].pc = "key"
    /\ \/ stop' = KeyAfter(req[o].to) /\ Close(o, "ok") /\ UNCHANGED modeFaults
       \/ ModeFault /\ stop' \in {stop, KeyAfter(req[o].to)} /\ Close(o, "error")
    /\ intent' = IF stop' \/ intent = "none" THEN intent ELSE "free"
    /\ UNCHANGED <<mode, overlap, shown, executed>>

\* GET: the mode first, the key second; nothing is written.
Get(o) ==
    /\ req[o] = NoRequest
    /\ req' = [req EXCEPT ![o] = [pc |-> "get", to |-> mode]]
    /\ UNCHANGED <<keyVars, overlap, last, shown, engineVars, modeFaults>>

Or(m) == IF m = Unset THEN "paper_only" ELSE m

Answer(o) ==
    /\ req[o].pc = "get"
    /\ shown' = [mode |-> Or(req[o].to), stop |-> stop]
    /\ req' = [req EXCEPT ![o] = NoRequest]
    /\ UNCHANGED <<keyVars, overlap, last, engineVars, modeFaults>>

-----------------------------------------------------------------------------
\* RiskEngine.evaluate reads the kill switch, the pauses, the circuit breaker
\* and the cooldown of the account, and neither of the two global keys.
Enter ==
    /\ intent = "none"
    /\ executed.under_stop + executed.free < MaxIntents
    /\ intent' = IF stop THEN "under_stop" ELSE "free"
    /\ UNCHANGED <<keyVars, req, overlap, last, shown, executed, modeFaults>>

Decide ==
    /\ intent # "none"
    /\ intent' = "none"
    /\ \/ executed' = [executed EXCEPT ![intent] = @ + 1]
       \/ UNCHANGED executed
    /\ UNCHANGED <<keyVars, req, overlap, last, shown, modeFaults>>

ModeNext ==
    \/ \E o \in Operators : Post(o) \/ SetMode(o) \/ SetKey(o) \/ Get(o) \/ Answer(o)
    \/ Enter \/ Decide

ModeSpec == ModeInit /\ [][ModeNext]_modeVars

-----------------------------------------------------------------------------
Agree(m, s) == s <=> m = "emergency_stop"

\* Each variable has its type; GET never shows a mode that nobody can post.
ModeType ==
    /\ mode \in ValidModes \cup {Unset} /\ stop \in BOOLEAN
    /\ req \in [Operators -> {NoRequest} \cup [pc : {"mode", "key"}, to : ValidModes]
                             \cup [pc : {"get"}, to : ValidModes \cup {Unset}]]
    /\ overlap \in BOOLEAN /\ last \in {"none", "ok", "error"}
    /\ shown \in [mode : ValidModes, stop : BOOLEAN]
    /\ intent \in {"none", "under_stop", "free"}
    /\ executed \in [under_stop : 0..MaxIntents, free : 0..MaxIntents]
    /\ modeFaults \in 0..MaxModeFaults

\* set_trading_mode: once a request has been answered 200 and none is under
\* way, the two keys say the same, whatever an earlier request that failed
\* between its two writes had left behind, unless two of them overlapped.
SuccessSettles == Writing = {} /\ last = "ok" /\ ~overlap => Agree(mode, stop)

\* Unless two overlap, one request at most is writing and what it has written
\* stands; and the intents are counted.
OneWriter ==
    /\ ~overlap =>
         /\ \A o, p \in Writing : o = p
         /\ \A o \in Operators : req[o].pc = "key" => mode = req[o].to
    /\ executed.under_stop + executed.free + (IF intent = "none" THEN 0 ELSE 1) <= MaxIntents

\* "checked by the execution consumer before processing each intent": no intent
\* is approved when the stop was set from before its evaluation to its end.
StopHaltsIntents == executed.under_stop = 0

\* The two keys of the trading mode: a request answered 200 that overlapped with
\* no other has left them in agreement.
ModeInv == ModeType /\ SuccessSettles /\ OneWriter
=============================================================================
