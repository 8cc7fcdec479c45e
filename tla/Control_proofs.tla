---------------------------- MODULE Control_proofs ----------------------------
(***************************************************************************)
(* Theorems about who and what may act, for any number of those who do:    *)
(* the registry and the lifecycle of StrategyService with its audit rows,  *)
(* the token endpoint of OAuthFlow, the limiter of RateLimit, the two keys *)
(* of TradingMode and the row of Credentials.                              *)
(***************************************************************************)
EXTENDS StrategyService, OAuthFlow, RateLimit, TradingMode, Credentials,
        FiniteSetTheorems, TLAPS

-----------------------------------------------------------------------------
\* StrategyService.

LEMMA ActiveAreStates == ActiveStates \subseteq States /\ NotLoaded \notin States
  BY DEF ActiveStates, EmitStates, States, NotLoaded

\* What one caller may have read.
LEMMA CallCases ==
  ASSUME NEW call \in Calls
  PROVE  /\ call.op = "update" => /\ call.sid \in Strategies
                                  /\ call.seen \in States /\ call.target \in States
         /\ call.op = "trade" => call.sid \in Strategies
  BY DEF Calls, Idle

\* The table and the callers keep their types.
LEMMA DbTypeStep == DbType /\ [Next]_vars => DbType'
<1> SUFFICES ASSUME DbType, [Next]_vars PROVE DbType'
  OBVIOUS
<1> USE DEF DbType
<1>1. ASSUME NEW c \in Callers, ReadForUpdate(c) PROVE DbType'
  <2>1. PICK s \in Strategies, target \in States :
          calls' = [calls EXCEPT ![c] =
             [op |-> "update", sid |-> s, seen |-> dbstate[s], target |-> target]]
    BY <1>1 DEF ReadForUpdate
  <2>2. [op |-> "update", sid |-> s, seen |-> dbstate[s], target |-> target] \in Calls
    BY DEF Calls
  <2>3. dbstate' = dbstate
    BY <1>1 DEF ReadForUpdate
  <2> QED BY <2>1, <2>2, <2>3
<1>2. ASSUME NEW c \in Callers, CommitUpdate(c) PROVE DbType'
  <2>1. calls' = [calls EXCEPT ![c] = Idle] /\ calls[c].op = "update"
    BY <1>2 DEF CommitUpdate
  <2>2. Idle \in Calls
    BY DEF Calls
  <2>3. calls[c].sid \in Strategies /\ calls[c].target \in States
    BY <2>1, CallCases
  <2>4. dbstate' = dbstate \/ dbstate' = [dbstate EXCEPT ![calls[c].sid] = calls[c].target]
    BY <1>2 DEF CommitUpdate, Write
  <2> QED BY <2>1, <2>2, <2>3, <2>4
<1>3. ASSUME NEW c \in Callers, ReadForTrade(c) PROVE DbType'
  <2>1. PICK s \in Strategies : calls' = [calls EXCEPT ![c] = [op |-> "trade", sid |-> s]]
    BY <1>3 DEF ReadForTrade
  <2>2. [op |-> "trade", sid |-> s] \in Calls
    BY DEF Calls
  <2>3. dbstate' = dbstate
    BY <1>3 DEF ReadForTrade
  <2> QED BY <2>1, <2>2, <2>3
<1>4. ASSUME NEW c \in Callers, FinishTrade(c) PROVE DbType'
  <2>1. calls' = [calls EXCEPT ![c] = Idle] /\ dbstate' = dbstate
    BY <1>4 DEF FinishTrade
  <2>2. Idle \in Calls
    BY DEF Calls
  <2> QED BY <2>1, <2>2
<1>5. CASE \/ Start \/ IntervalElapses \/ ReloadWhenDue \/ PublishSnapshot
           \/ Read \/ Evaluate \/ Ack \/ Crash \/ UNCHANGED vars
  <2>1. UNCHANGED dbVars
    BY <1>5 DEF Start, IntervalElapses, ReloadWhenDue, PublishSnapshot, Read, Evaluate,
                Ack, Crash, vars
  <2> QED BY <2>1 DEF dbVars
<1> QED BY <1>1, <1>2, <1>3, <1>4, <1>5 DEF Next

\* A reload leaves the registry alone or rebuilds it from the rows as they are.
LEMMA ReloadCases ==
  ASSUME DbType, Reload
  PROVE  \/ UNCHANGED <<registry, recent>>
         \/ /\ recent' = [s \in Strategies |-> {dbstate[s]}]
            /\ registry' \in [Strategies -> ActiveStates \cup {NotLoaded}]
            /\ \A s \in Strategies : registry'[s] # NotLoaded => registry'[s] = dbstate[s]
<1>1. CASE UNCHANGED <<registry, recent>>
  BY <1>1
<1>2. CASE Refill(Listed)
  <2>1. PICK kept \in SUBSET Listed :
          registry' = [s \in Strategies |-> IF s \in kept THEN dbstate[s] ELSE NotLoaded]
    BY <1>2 DEF Refill
  <2>2. \A s \in kept : s \in Strategies /\ dbstate[s] \in ActiveStates
    BY <2>1 DEF Listed
  <2>3. recent' = [s \in Strategies |-> {dbstate[s]}]
    BY <1>2 DEF Refill
  <2> QED BY <2>1, <2>2, <2>3
<1> QED BY <1>1, <1>2 DEF Reload
-----------------------------------------------------------------------------
\* The registry and the consumer's hand.

LEMMA RegistryInit == Init => RegistryInv
<1> SUFFICES ASSUME Init PROVE RegistryInv
  OBVIOUS
<1>1. DbType
  BY StrategyAssumption DEF Init, DbType, Calls
<1>2. RegistryType
  BY <1>1 DEF Init, DbType, RegistryType
<1>3. TrailType /\ HandType /\ PublishedType
  BY StrategyAssumption DEF Init, TrailType, HandType, PublishedType
<1>4. RegistryIsRecent
  BY DEF Init, RegistryIsRecent
<1> QED BY <1>1, <1>2, <1>3, <1>4 DEF RegistryInv, TypeOK

\* The registry holds states that its rows have had since the last query.
LEMMA RegistryStep ==
  ASSUME DbType, RegistryType, RegistryIsRecent, [Next]_vars
  PROVE  (RegistryType /\ RegistryIsRecent)'
<1>0. DbType /\ RegistryType /\ RegistryIsRecent
  OBVIOUS
<1>2. CASE UNCHANGED <<registry, recent>>
  BY <1>0, <1>2 DEF RegistryType, RegistryIsRecent
\* A commit adds to what a row has lately been and leaves the registry.
<1>3. ASSUME NEW c \in Callers, CommitUpdate(c) PROVE (RegistryType /\ RegistryIsRecent)'
  <2>1. CASE UNCHANGED recent
    BY <1>0, <1>3, <2>1 DEF CommitUpdate, consumerVars, RegistryType, RegistryIsRecent
  <2>2. CASE Write(calls[c].sid, calls[c].target)
    <3>1. calls[c].sid \in Strategies /\ calls[c].target \in States
      BY <1>0, <1>3, CallCases DEF CommitUpdate, DbType
    <3>2. recent' = [recent EXCEPT ![calls[c].sid] = @ \cup {calls[c].target}]
      BY <2>2 DEF Write
    <3>3. registry' = registry
      BY <1>3 DEF CommitUpdate, consumerVars
    <3>4. recent' \in [Strategies -> SUBSET States]
      BY <1>0, <3>1, <3>2 DEF RegistryType
    <3>5. \A s \in Strategies : recent[s] \subseteq recent'[s]
      BY <1>0, <3>2 DEF RegistryType
    <3> QED BY <1>0, <3>3, <3>4, <3>5 DEF RegistryType, RegistryIsRecent
  <2> QED BY <1>3, <2>1, <2>2 DEF CommitUpdate
\* A reload starts both afresh from the rows.
<1>4. ASSUME Reload PROVE (RegistryType /\ RegistryIsRecent)'
  <2>1. CASE UNCHANGED <<registry, recent>>
    BY <1>2, <2>1
  <2>2. CASE /\ recent' = [s \in Strategies |-> {dbstate[s]}]
             /\ registry' \in [Strategies -> ActiveStates \cup {NotLoaded}]
             /\ \A s \in Strategies : registry'[s] # NotLoaded => registry'[s] = dbstate[s]
    <3>1. recent' \in [Strategies -> SUBSET States]
      BY <1>0, <2>2 DEF DbType
    <3>2. RegistryIsRecent'
      BY <2>2 DEF RegistryIsRecent
    <3> QED BY <2>2, <3>1, <3>2 DEF RegistryType
  <2> QED BY <1>0, <1>4, <2>1, <2>2, ReloadCases
<1>5. ASSUME Crash PROVE (RegistryType /\ RegistryIsRecent)'
  <2>1. registry' = [s \in Strategies |-> NotLoaded] /\ recent' = recent
    BY <1>5 DEF Crash
  <2> QED BY <1>0, <2>1 DEF RegistryType, RegistryIsRecent
<1>6. ASSUME NEW c \in Callers, ReadForUpdate(c) \/ ReadForTrade(c) \/ FinishTrade(c)
      PROVE  UNCHANGED <<registry, recent>>
  BY <1>6 DEF ReadForUpdate, ReadForTrade, FinishTrade, consumerVars
<1>7. ASSUME \/ IntervalElapses \/ PublishSnapshot \/ Read \/ Evaluate \/ Ack
             \/ UNCHANGED vars
      PROVE  UNCHANGED <<registry, recent>>
  BY <1>7 DEF IntervalElapses, PublishSnapshot, Read, Evaluate, Ack, vars, consumerVars
<1>8. ASSUME Start \/ ReloadWhenDue
      PROVE  Reload \/ UNCHANGED <<registry, recent>>
  BY <1>8 DEF Start, ReloadWhenDue
<1> QED BY <1>2, <1>3, <1>4, <1>5, <1>6, <1>7, <1>8 DEF Next

\* A committed change has its audit row, and no other action writes one.
LEMMA TrailTypeStep ==
  ASSUME DbType, TrailType, [Next]_vars
  PROVE  TrailType'
<1>1. ASSUME NEW c \in Callers, CommitUpdate(c) PROVE TrailType'
  <2>1. calls[c] \in Calls /\ calls[c].op = "update"
    BY <1>1 DEF CommitUpdate, DbType
  <2>2. /\ calls[c].sid \in Strategies
        /\ calls[c].seen \in States /\ calls[c].target \in States
    BY <2>1, CallCases
  <2> DEFINE Rowset == [sid : Strategies, from : States, to : States]
             entry == [sid |-> calls[c].sid, from |-> calls[c].seen, to |-> calls[c].target]
  <2>3. trail' = trail \/ trail' = Append(trail, entry)
    BY <1>1 DEF CommitUpdate
  <2>4. entry \in Rowset
    BY <2>2
  <2>5. trail \in Seq(Rowset)
    BY DEF TrailType
  <2> HIDE DEF entry, Rowset
  <2>6. trail' \in Seq(Rowset)
    BY <2>3, <2>4, <2>5
  <2> QED BY <2>6 DEF TrailType, Rowset
<1>2. ASSUME NEW c \in Callers, ReadForUpdate(c) \/ ReadForTrade(c) \/ FinishTrade(c)
      PROVE  UNCHANGED trail
  BY <1>2 DEF ReadForUpdate, ReadForTrade, FinishTrade
<1>3. ASSUME \/ Start \/ IntervalElapses \/ ReloadWhenDue \/ PublishSnapshot
             \/ Read \/ Evaluate \/ Ack \/ Crash \/ UNCHANGED vars
      PROVE  UNCHANGED trail
  BY <1>3 DEF Start, IntervalElapses, ReloadWhenDue, PublishSnapshot, Read, Evaluate,
              Ack, Crash, vars, dbVars
<1> QED BY <1>1, <1>2, <1>3 DEF Next, TrailType

\* What is left of a batch, and the evaluators still to run on its head.
LEMMA HandTypeStep ==
  ASSUME HandType, [Next]_vars
  PROVE  HandType'
<1> USE DEF HandType
<1>1. CASE UNCHANGED consumerVars /\ UNCHANGED unread
  BY <1>1 DEF consumerVars
<1>2. CASE Start
  BY <1>2 DEF Start
<1>3. CASE IntervalElapses
  BY <1>3 DEF IntervalElapses
<1>4. CASE ReloadWhenDue
  BY <1>4 DEF ReloadWhenDue
<1>5. CASE PublishSnapshot
  BY <1>5 DEF PublishSnapshot, consumerVars
<1>6. CASE Read
  <2> DEFINE n == IF Len(unread) < Batch THEN Len(unread) ELSE Batch
             read == SubSeq(unread, 1, n)
  <2>1. /\ unread' = SubSeq(unread, n + 1, Len(unread)) /\ batch' = read
        /\ todo' = IF n = 0 THEN {} ELSE EvaluatorsFor(read[1])
        /\ pc' = IF n = 0 THEN "tick" ELSE "process"
        /\ registry' = registry /\ due' = due
    BY <1>6 DEF Read
  <2>2. n \in 0..Len(unread)
    BY StrategyAssumption
  <2>3. unread' \in Seq(Symbols) /\ batch' \in Seq(Symbols) /\ Len(batch') = n
    BY <2>1, <2>2
  <2>4. todo' \subseteq {s \in Strategies : registry'[s] # NotLoaded}
    BY <2>1 DEF EvaluatorsFor
  <2> HIDE DEF n
  <2>5. n # 0 => batch' # <<>>
    BY <2>3
  <2> QED BY <2>1, <2>3, <2>4, <2>5
<1>7. CASE Evaluate
  <2>1. todo' \subseteq todo /\ UNCHANGED <<registry, due, pc, batch, unread>> /\ pc = "process"
    BY <1>7 DEF Evaluate
  <2> QED BY <2>1
<1>8. CASE Ack
  <2>1. /\ pc = "process" /\ batch' = Tail(batch)
        /\ todo' = IF batch' = <<>> THEN {} ELSE EvaluatorsFor(batch'[1])
        /\ pc' = IF batch' = <<>> THEN "tick" ELSE "process"
        /\ UNCHANGED <<registry, due, unread>>
    BY <1>8 DEF Ack, Quiet
  <2>2. batch' \in Seq(Symbols)
    BY <2>1
  <2>3. todo' \subseteq {s \in Strategies : registry'[s] # NotLoaded}
    BY <2>1 DEF EvaluatorsFor
  <2> QED BY <2>1, <2>2, <2>3
<1>9. CASE Crash
  BY <1>9 DEF Crash
<1>10. ASSUME NEW c \in Callers,
              ReadForUpdate(c) \/ CommitUpdate(c) \/ ReadForTrade(c) \/ FinishTrade(c)
       PROVE  UNCHANGED consumerVars /\ UNCHANGED unread
  BY <1>10 DEF ReadForUpdate, CommitUpdate, ReadForTrade, FinishTrade
<1>11. CASE UNCHANGED vars
  BY <1>11, <1>1 DEF vars
<1> QED BY <1>1, <1>2, <1>3, <1>4, <1>5, <1>6, <1>7, <1>8, <1>9, <1>10, <1>11 DEF Next

\* What is published is of a known strategy, and failures stay within bounds.
LEMMA PublishedTypeStep ==
  ASSUME DbType, HandType, PublishedType, [Next]_vars
  PROVE  PublishedType'
<1>1. faults' = faults \/ Fault
  <2>1. ASSUME NEW c \in Callers,
               ReadForUpdate(c) \/ CommitUpdate(c) \/ ReadForTrade(c) \/ FinishTrade(c)
        PROVE  faults' = faults \/ Fault
    BY <2>1 DEF ReadForUpdate, CommitUpdate, ReadForTrade, FinishTrade
  <2>2. ASSUME \/ Start \/ IntervalElapses \/ ReloadWhenDue \/ PublishSnapshot
               \/ Read \/ Evaluate \/ Ack \/ Crash \/ UNCHANGED vars
        PROVE  faults' = faults \/ Fault
    BY <2>2 DEF Start, Reload, IntervalElapses, ReloadWhenDue, PublishSnapshot, Read,
                Evaluate, Ack, Crash, vars
  <2> QED BY <2>1, <2>2 DEF Next
<1>2. faults' \in 0..MaxFaults
  BY <1>1, StrategyAssumption DEF Fault, PublishedType
<1>3. ASSUME NEW c \in Callers, FinishTrade(c)
      PROVE  published' \in [sid : Strategies, by : {"caller", "consumer"}] \cup {NoIntent}
  <2>1. calls[c] \in Calls /\ calls[c].op = "trade"
    BY <1>3 DEF FinishTrade, DbType
  <2>2. calls[c].sid \in Strategies
    BY <2>1, CallCases
  <2> QED BY <1>3, <2>2 DEF FinishTrade, Quiet
<1>4. ASSUME Evaluate
      PROVE  published' \in [sid : Strategies, by : {"caller", "consumer"}] \cup {NoIntent}
  BY <1>4 DEF Evaluate, Quiet, HandType
<1>5. ASSUME NEW c \in Callers, ReadForUpdate(c) \/ CommitUpdate(c) \/ ReadForTrade(c)
      PROVE  Quiet
  BY <1>5 DEF ReadForUpdate, CommitUpdate, ReadForTrade
<1>6. ASSUME \/ Start \/ IntervalElapses \/ ReloadWhenDue \/ PublishSnapshot
             \/ Read \/ Ack \/ Crash
      PROVE  Quiet
  BY <1>6 DEF Start, IntervalElapses, ReloadWhenDue, PublishSnapshot, Read, Ack, Crash
<1>7. CASE UNCHANGED vars
  BY <1>7, <1>2 DEF vars, PublishedType
<1> QED BY <1>2, <1>3, <1>4, <1>5, <1>6, <1>7 DEF Next, Quiet, PublishedType

LEMMA RegistryInvStep == RegistryInv /\ [Next]_vars => RegistryInv'
  BY DbTypeStep, RegistryStep, TrailTypeStep, HandTypeStep, PublishedTypeStep
  DEF RegistryInv, TypeOK

\* Type correctness, and that what the consumer evaluates with is a state that
\* the row has had since the registry was last rebuilt (_reload_strategies,
\* registry.clear), for any number of strategies, callers, failures and crashes.
THEOREM RegistryFresh == Spec => []RegistryInv
  BY RegistryInit, RegistryInvStep, PTL DEF Spec

\* _evaluate_one publishes only for a strategy that has been in an emitting
\* state since the table was last read.
THEOREM IntentsAreFresh == Spec => NoStaleIntent
<1> DEFINE Justified == \A s \in Strategies :
             published' # published /\ published' = [sid |-> s, by |-> "consumer"]
               => recent[s] \cap EmitStates # {}
<1>1. ASSUME RegistryInv, Next PROVE Justified
  <2> SUFFICES ASSUME NEW s \in Strategies,
                      published' = [sid |-> s, by |-> "consumer"]
               PROVE  recent[s] \cap EmitStates # {}
    OBVIOUS
  <2>1. published' # NoIntent /\ published'.by = "consumer" /\ published'.sid = s
    BY DEF NoIntent
  <2>2. ~Quiet
    BY <2>1 DEF Quiet
  <2>3. CASE Evaluate
    <3>1. PICK t \in todo : registry[t] \in EmitStates
                            /\ published' = [sid |-> t, by |-> "consumer"]
      BY <2>2, <2>3 DEF Evaluate
    <3>2. registry[s] \in EmitStates
      BY <2>1, <3>1
    <3>3. registry[s] # NotLoaded
      BY <3>2, ActiveAreStates DEF ActiveStates
    <3>4. registry[s] \in recent[s]
      BY <1>1, <3>3 DEF RegistryInv, RegistryIsRecent
    <3> QED BY <3>2, <3>4
  <2>4. ASSUME NEW c \in Callers, FinishTrade(c) PROVE FALSE
    BY <2>1, <2>2, <2>4 DEF FinishTrade
  <2>5. ASSUME NEW c \in Callers, ReadForUpdate(c) \/ CommitUpdate(c) \/ ReadForTrade(c)
        PROVE  FALSE
    BY <2>2, <2>5 DEF ReadForUpdate, CommitUpdate, ReadForTrade
  <2>6. ASSUME Start \/ IntervalElapses \/ ReloadWhenDue \/ PublishSnapshot \/ Read \/ Ack \/ Crash
        PROVE  FALSE
    BY <2>2, <2>6 DEF Start, IntervalElapses, ReloadWhenDue, PublishSnapshot, Read, Ack, Crash
  <2> QED BY <1>1, <2>3, <2>4, <2>5, <2>6 DEF Next
<1>2. RegistryInv /\ [Next]_vars => [Justified]_vars
  BY <1>1
<1> QED BY <1>2, RegistryInit, RegistryInvStep, PTL DEF Spec, NoStaleIntent

-----------------------------------------------------------------------------
\* Any number of callers: what a session is about to commit is a move that
\* VALID_TRANSITIONS allows from what it read.

MovesAreValid ==
    \A c \in Callers : calls[c].op = "update" => CanTransition(calls[c].seen, calls[c].target)

MovesInv == DbType /\ MovesAreValid

LEMMA MovesStep == MovesInv /\ [Next]_vars => MovesInv'
<1> SUFFICES ASSUME MovesInv, [Next]_vars PROVE MovesInv'
  OBVIOUS
<1>0. DbType /\ MovesAreValid
  BY DEF MovesInv
<1>1. DbType'
  BY <1>0, DbTypeStep
<1> SUFFICES MovesAreValid'
  BY <1>1 DEF MovesInv
<1>2. CASE UNCHANGED calls
  BY <1>0, <1>2 DEF MovesAreValid
<1>3. ASSUME NEW c \in Callers, ReadForUpdate(c) PROVE MovesAreValid'
  <2>1. PICK s \in Strategies, target \in States :
          /\ CanTransition(dbstate[s], target)
          /\ calls' = [calls EXCEPT ![c] =
               [op |-> "update", sid |-> s, seen |-> dbstate[s], target |-> target]]
    BY <1>3 DEF ReadForUpdate
  <2> QED BY <1>0, <2>1 DEF DbType, MovesAreValid
<1>4. ASSUME NEW c \in Callers, CommitUpdate(c) \/ FinishTrade(c) \/ ReadForTrade(c)
      PROVE  MovesAreValid'
  <2>1. \E call \in [op : {"trade"}, sid : Strategies] \cup {Idle} :
          calls' = [calls EXCEPT ![c] = call]
    BY <1>4 DEF CommitUpdate, FinishTrade, ReadForTrade
  <2> QED BY <1>0, <2>1 DEF DbType, MovesAreValid, Idle
<1>5. ASSUME \/ Start \/ IntervalElapses \/ ReloadWhenDue \/ PublishSnapshot
             \/ Read \/ Evaluate \/ Ack \/ Crash \/ UNCHANGED vars
      PROVE  UNCHANGED calls
  BY <1>5 DEF Start, IntervalElapses, ReloadWhenDue, PublishSnapshot, Read, Evaluate,
              Ack, Crash, vars, dbVars
<1> QED BY <1>2, <1>3, <1>4, <1>5 DEF Next

\* update_strategy_state brings an archived strategy back only in a session
\* that had read the row before it was archived, for any number of callers.
THEOREM RevivalIsOvertaken == Spec => RevivedOnlyWhenOvertaken
<1> DEFINE Overtaken == \A s \in Strategies :
             dbstate[s] = "archived" /\ dbstate'[s] # "archived"
               => \E c \in Callers : /\ calls[c].op = "update" /\ calls'[c] = Idle
                                     /\ calls[c].sid = s /\ calls[c].seen # "archived"
<1>1. Init => MovesInv
  BY StrategyAssumption DEF Init, MovesInv, DbType, MovesAreValid, Calls, Idle
<1>2. ASSUME MovesInv, Next PROVE Overtaken
  <2> SUFFICES ASSUME NEW s \in Strategies, dbstate[s] = "archived", dbstate'[s] # "archived"
               PROVE  \E c \in Callers : /\ calls[c].op = "update" /\ calls'[c] = Idle
                                         /\ calls[c].sid = s /\ calls[c].seen # "archived"
    OBVIOUS
  <2>1. PICK c \in Callers : CommitUpdate(c)
    BY <1>2 DEF Next, ReadForUpdate, FinishTrade, ReadForTrade, Start, IntervalElapses,
                ReloadWhenDue, PublishSnapshot, Read, Evaluate, Ack, Crash, dbVars
  <2>2. calls[c].op = "update" /\ calls'[c] = Idle
    BY <1>2, <2>1 DEF CommitUpdate, MovesInv, DbType
  <2>3. dbstate' = dbstate \/ dbstate' = [dbstate EXCEPT ![calls[c].sid] = calls[c].target]
    BY <2>1 DEF CommitUpdate, Write
  <2>4. calls[c].sid = s
    BY <1>2, <2>3 DEF MovesInv, DbType
  <2>5. CanTransition(calls[c].seen, calls[c].target)
    BY <1>2, <2>2 DEF MovesInv, MovesAreValid
  <2>6. calls[c].seen # "archived"
    BY <2>5 DEF CanTransition, ValidTransitions
  <2> QED BY <2>2, <2>4, <2>6
<1>3. MovesInv /\ [Next]_vars => [Overtaken]_vars
  BY <1>2
<1> QED BY <1>1, <1>3, MovesStep, PTL DEF Spec, RevivedOnlyWhenOvertaken

-----------------------------------------------------------------------------
\* One caller at a time: what it read is still what the row says when it
\* commits, which is what two concurrent sessions lose.

ReadIsCurrent ==
    \A c \in Callers : calls[c].op = "update" =>
        /\ calls[c].seen = dbstate[calls[c].sid]
        /\ CanTransition(calls[c].seen, calls[c].target)

LoneInv == DbType /\ ReadIsCurrent

Lone == \A c, d \in Callers : c = d

LEMMA LoneStep ==
  ASSUME Lone
  PROVE  LoneInv /\ [Next]_vars => LoneInv'
<1> SUFFICES ASSUME LoneInv, [Next]_vars PROVE LoneInv'
  OBVIOUS
<1>0. DbType /\ ReadIsCurrent
  BY DEF LoneInv
<1>1. DbType'
  BY <1>0, DbTypeStep
<1> SUFFICES ReadIsCurrent'
  BY <1>1 DEF LoneInv
<1>2. CASE UNCHANGED dbVars
  BY <1>0, <1>2 DEF dbVars, ReadIsCurrent
<1>3. ASSUME NEW c \in Callers, ReadForUpdate(c) PROVE ReadIsCurrent'
  <2>1. PICK s \in Strategies, target \in States :
          /\ CanTransition(dbstate[s], target)
          /\ calls' = [calls EXCEPT ![c] =
               [op |-> "update", sid |-> s, seen |-> dbstate[s], target |-> target]]
    BY <1>3 DEF ReadForUpdate
  <2>2. dbstate' = dbstate
    BY <1>3 DEF ReadForUpdate
  <2>3. calls'[c] = [op |-> "update", sid |-> s, seen |-> dbstate[s], target |-> target]
    BY <1>0, <2>1 DEF DbType
  <2>4. \A d \in Callers : d = c
    BY DEF Lone
  <2> QED BY <2>1, <2>2, <2>3, <2>4 DEF ReadIsCurrent
<1>4. ASSUME NEW c \in Callers, CommitUpdate(c) \/ FinishTrade(c) PROVE ReadIsCurrent'
  <2>1. calls'[c] = Idle
    BY <1>0, <1>4 DEF CommitUpdate, FinishTrade, DbType
  <2>2. \A d \in Callers : calls'[d].op # "update"
    BY <2>1 DEF Lone, Idle
  <2> QED BY <2>2 DEF ReadIsCurrent
<1>5. ASSUME NEW c \in Callers, ReadForTrade(c) PROVE ReadIsCurrent'
  <2>1. PICK s \in Strategies : calls' = [calls EXCEPT ![c] = [op |-> "trade", sid |-> s]]
    BY <1>5 DEF ReadForTrade
  <2>2. calls'[c].op = "trade"
    BY <1>0, <2>1 DEF DbType
  <2>3. \A d \in Callers : calls'[d].op # "update"
    BY <2>2 DEF Lone
  <2> QED BY <2>3 DEF ReadIsCurrent
<1>6. ASSUME \/ Start \/ IntervalElapses \/ ReloadWhenDue \/ PublishSnapshot
             \/ Read \/ Evaluate \/ Ack \/ Crash \/ UNCHANGED vars
      PROVE  UNCHANGED dbVars
  BY <1>6 DEF Start, IntervalElapses, ReloadWhenDue, PublishSnapshot, Read, Evaluate,
              Ack, Crash, vars
<1> QED BY <1>2, <1>3, <1>4, <1>5, <1>6 DEF Next

\* With one caller at a time, update_strategy_state keeps an archived strategy
\* archived; VALID_TRANSITIONS gives ARCHIVED no successor.
THEOREM ArchivedIsFinalAlone ==
  ASSUME Lone
  PROVE  Spec => ArchivedIsFinal
<1> DEFINE Final == \A s \in Strategies : dbstate[s] = "archived" => dbstate'[s] = "archived"
<1>1. Init => LoneInv
  BY StrategyAssumption DEF Init, LoneInv, DbType, ReadIsCurrent, Calls, Idle
<1>2. ASSUME LoneInv, Next PROVE Final
  <2> SUFFICES ASSUME NEW s \in Strategies, dbstate[s] = "archived"
               PROVE  dbstate'[s] = "archived"
    OBVIOUS
  <2>1. CASE UNCHANGED dbstate
    BY <2>1
  <2>2. ASSUME NEW c \in Callers, CommitUpdate(c) PROVE dbstate'[s] = "archived"
    <3>1. calls[c].op = "update"
      BY <2>2 DEF CommitUpdate
    <3>2. CanTransition(dbstate[calls[c].sid], calls[c].target)
      BY <1>2, <3>1 DEF LoneInv, ReadIsCurrent
    <3>3. calls[c].sid # s
      BY <3>2 DEF CanTransition, ValidTransitions
    <3>4. dbstate' = dbstate \/ dbstate' = [dbstate EXCEPT ![calls[c].sid] = calls[c].target]
      BY <2>2 DEF CommitUpdate, Write
    <3> QED BY <1>2, <3>3, <3>4 DEF LoneInv, DbType
  <2>3. ASSUME NEW c \in Callers, ReadForUpdate(c) \/ ReadForTrade(c) \/ FinishTrade(c)
        PROVE  UNCHANGED dbstate
    BY <2>3 DEF ReadForUpdate, ReadForTrade, FinishTrade
  <2>4. ASSUME \/ Start \/ IntervalElapses \/ ReloadWhenDue \/ PublishSnapshot
               \/ Read \/ Evaluate \/ Ack \/ Crash
        PROVE  UNCHANGED dbstate
    BY <2>4 DEF Start, IntervalElapses, ReloadWhenDue, PublishSnapshot, Read, Evaluate,
                Ack, Crash, dbVars
  <2> QED BY <1>2, <2>1, <2>2, <2>3, <2>4 DEF Next
<1>3. LoneInv /\ [Next]_vars => [Final]_vars
  BY <1>2
<1> QED BY <1>1, <1>3, LoneStep, PTL DEF Spec, ArchivedIsFinal

-----------------------------------------------------------------------------
\* The audit trail.

\* What a sequence is after an element has been appended.
LEMMA Appended ==
  ASSUME NEW S, NEW seq \in Seq(S), NEW e
  PROVE  /\ Len(seq) + 1 \notin DOMAIN seq
         /\ DOMAIN Append(seq, e) = DOMAIN seq \cup {Len(seq) + 1}
         /\ \A j \in DOMAIN seq : Append(seq, e)[j] = seq[j] /\ j \in Nat /\ j < Len(seq) + 1
         /\ Append(seq, e)[Len(seq) + 1] = e /\ Len(seq) + 1 \in Nat
         /\ Len(Append(seq, e)) = Len(seq) + 1
  OBVIOUS

\* What the rows of one strategy tell and what its sessions have read.
TrailOf(s) ==
    /\ RowsOf(s) # {} => \E i \in RowsOf(s) : IsLast(s, i) /\ trail[i].to = dbstate[s]
    /\ \A i \in RowsOf(s) : trail[i].from \in ToldBefore(s, i)
    /\ \A c \in Callers : calls[c].op = "update" /\ calls[c].sid = s =>
         IF RowsOf(s) = {} THEN calls[c].seen = dbstate[s]
         ELSE calls[c].seen \in ToldBefore(s, Len(trail) + 1)

\* A change of another strategy leaves the rows of this one.
LEMMA OtherTrailsStay ==
  ASSUME TrailType, NEW s \in Strategies, TrailOf(s), NEW entry, entry.sid # s,
         trail' = Append(trail, entry), dbstate'[s] = dbstate[s],
         \A c \in Callers : calls'[c].op = "update" => calls'[c] = calls[c]
  PROVE  TrailOf(s)'
<1>1. /\ DOMAIN trail' = DOMAIN trail \cup {Len(trail) + 1}
      /\ \A j \in DOMAIN trail : trail'[j] = trail[j] /\ j \in Nat /\ j < Len(trail) + 1
      /\ trail'[Len(trail) + 1] = entry /\ Len(trail) + 1 \in Nat
      /\ Len(trail') = Len(trail) + 1
  BY Appended DEF TrailType
<1>2. RowsOf(s)' = RowsOf(s)
  BY <1>1 DEF RowsOf
<1>3. \A i : IsEarliest(s, i)' = IsEarliest(s, i) /\ IsLast(s, i)' = IsLast(s, i)
  BY <1>2 DEF IsEarliest, IsLast
<1>4. \A j \in RowsOf(s) : trail'[j] = trail[j] /\ j \in Nat /\ j < Len(trail) + 1
  BY <1>1 DEF RowsOf
<1>5. \A i : ToldBefore(s, i)' = ToldBefore(s, i)
  BY <1>2, <1>3, <1>4 DEF ToldBefore
<1>6. ToldBefore(s, Len(trail) + 1)' = ToldBefore(s, Len(trail) + 1)
  <2>1. \A j \in RowsOf(s) : j < Len(trail') + 1
    BY <1>1, <1>4
  <2> QED BY <1>2, <1>3, <1>4, <2>1 DEF ToldBefore
<1>7. RowsOf(s)' # {} => \E i \in RowsOf(s)' : IsLast(s, i)' /\ trail'[i].to = dbstate'[s]
  BY <1>2, <1>3, <1>4 DEF TrailOf
<1>8. ASSUME NEW i \in RowsOf(s)' PROVE trail'[i].from \in ToldBefore(s, i)'
  <2>1. i \in RowsOf(s) /\ trail'[i] = trail[i] /\ ToldBefore(s, i)' = ToldBefore(s, i)
    BY <1>2, <1>4, <1>5
  <2>2. trail[i].from \in ToldBefore(s, i)
    BY <2>1 DEF TrailOf
  <2> QED BY <2>1, <2>2
<1>9. ASSUME NEW c \in Callers, calls'[c].op = "update", calls'[c].sid = s
      PROVE  IF RowsOf(s)' = {} THEN calls'[c].seen = dbstate'[s]
             ELSE calls'[c].seen \in ToldBefore(s, Len(trail) + 1)'
  BY <1>2, <1>6, <1>9 DEF TrailOf
<1> QED BY <1>7, <1>8, <1>9 DEF TrailOf

\* A change of this strategy starts in a state that its rows tell of, and what
\* other sessions have read of it stays told.
LEMMA OwnTrailGrows ==
  ASSUME TrailType, NEW s \in Strategies, TrailOf(s),
         NEW c \in Callers, calls[c].op = "update", calls[c].sid = s,
         trail' = Append(trail, [sid |-> s, from |-> calls[c].seen, to |-> calls[c].target]),
         dbstate'[s] = calls[c].target,
         \A d \in Callers : calls'[d].op = "update" => calls'[d] = calls[d]
  PROVE  TrailOf(s)'
<1>0. PICK n \in Nat : n = Len(trail) + 1
  BY DEF TrailType
<1> DEFINE entry == [sid |-> s, from |-> calls[c].seen, to |-> calls[c].target]
<1>1. /\ DOMAIN trail' = DOMAIN trail \cup {n}
      /\ \A j \in DOMAIN trail : trail'[j] = trail[j] /\ j \in Nat /\ j < n
      /\ trail'[n] = entry /\ n \in Nat /\ Len(trail') = n
  BY <1>0, Appended DEF TrailType
<1>2. entry.sid = s /\ entry.from = calls[c].seen /\ entry.to = calls[c].target
  OBVIOUS
<1> HIDE DEF entry
<1>3. RowsOf(s)' = RowsOf(s) \cup {n}
  BY <1>1, <1>2 DEF RowsOf
<1>4. \A j \in RowsOf(s) : trail'[j] = trail[j] /\ j \in Nat /\ j < n
  BY <1>1 DEF RowsOf
<1>5. \A i \in RowsOf(s) : IsEarliest(s, i) => IsEarliest(s, i)'
  BY <1>1, <1>3, <1>4 DEF IsEarliest
<1>6. IsLast(s, n)'
  BY <1>1, <1>3, <1>4 DEF IsLast
<1>7. RowsOf(s) = {} => IsEarliest(s, n)'
  BY <1>1, <1>3 DEF IsEarliest
<1>8. ASSUME NEW i, NEW j, \A k \in RowsOf(s) : k < i => k < j
      PROVE  ToldBefore(s, i) \subseteq ToldBefore(s, j)'
  BY <1>3, <1>4, <1>5, <1>8 DEF ToldBefore
<1>9. ASSUME NEW i \in RowsOf(s)' PROVE trail'[i].from \in ToldBefore(s, i)'
  <2>1. CASE i \in RowsOf(s)
    BY <1>4, <1>8, <2>1 DEF TrailOf
  <2>2. CASE i = n /\ RowsOf(s) = {}
    BY <1>3, <1>7, <2>2 DEF ToldBefore
  <2>3. CASE i = n /\ RowsOf(s) # {}
    <3>1. calls[c].seen \in ToldBefore(s, n)
      BY <1>0, <2>3 DEF TrailOf
    <3>2. ToldBefore(s, n) \subseteq ToldBefore(s, n)'
      BY <1>8
    <3> QED BY <1>1, <1>2, <2>3, <3>1, <3>2
  <2> QED BY <1>3, <1>9, <2>1, <2>2, <2>3
<1>10. ASSUME NEW d \in Callers, calls'[d].op = "update", calls'[d].sid = s
       PROVE  calls'[d].seen \in ToldBefore(s, n + 1)'
  <2>1. calls'[d] = calls[d]
    BY <1>10
  <2>2. CASE RowsOf(s) = {}
    <3>1. calls[d].seen = dbstate[s] /\ calls[c].seen = dbstate[s]
      BY <1>10, <2>1, <2>2 DEF TrailOf
    <3>2. trail'[n].from \in ToldBefore(s, n + 1)'
      BY <1>3, <1>7, <2>2 DEF ToldBefore
    <3> QED BY <1>1, <1>2, <2>1, <3>1, <3>2
  <2>3. CASE RowsOf(s) # {}
    <3>1. calls[d].seen \in ToldBefore(s, n)
      BY <1>0, <1>10, <2>1, <2>3 DEF TrailOf
    <3>2. ToldBefore(s, n) \subseteq ToldBefore(s, n + 1)'
      <4>1. \A k \in RowsOf(s) : k < n + 1
        BY <1>1, <1>4
      <4> QED BY <1>8, <4>1
    <3> QED BY <2>1, <3>1, <3>2
  <2> QED BY <2>2, <2>3
<1>11. RowsOf(s)' # {} /\ n \in RowsOf(s)' /\ trail'[n].to = dbstate'[s]
  BY <1>1, <1>2, <1>3
<1>12. ASSUME NEW d \in Callers, calls'[d].op = "update", calls'[d].sid = s
       PROVE  calls'[d].seen \in ToldBefore(s, Len(trail) + 1)'
  <2>1. ToldBefore(s, Len(trail) + 1)' = ToldBefore(s, n + 1)'
    BY <1>1 DEF ToldBefore
  <2> QED BY <1>10, <1>12, <2>1
<1> QED BY <1>1, <1>6, <1>9, <1>11, <1>12 DEF TrailOf

LEMMA TrailStep ==
  ASSUME DbType, TrailType, TrailTellsHistory, [Next]_vars
  PROVE  TrailTellsHistory'
<1>0. ASSUME NEW s \in Strategies PROVE TrailOf(s)
  BY <1>0 DEF TrailTellsHistory, TrailOf
<1> SUFFICES ASSUME NEW s \in Strategies PROVE TrailOf(s)'
  BY DEF TrailTellsHistory, TrailOf
<1>1. ASSUME UNCHANGED <<trail, dbstate>>,
             \A c \in Callers : calls'[c].op = "update" =>
               calls'[c] = calls[c] \/ (calls'[c].sid = s => calls'[c].seen = dbstate[s])
      PROVE  TrailOf(s)'
  <2>1. RowsOf(s)' = RowsOf(s)
    BY <1>1 DEF RowsOf
  <2>2. \A i : ToldBefore(s, i)' = ToldBefore(s, i)
    BY <1>1, <2>1 DEF ToldBefore, IsEarliest
  <2>3. ToldBefore(s, Len(trail) + 1)' = ToldBefore(s, Len(trail) + 1)
    BY <1>1, <2>1 DEF ToldBefore, IsEarliest
  <2>4. \A i : IsLast(s, i)' = IsLast(s, i)
    BY <2>1 DEF IsLast
  <2>5. RowsOf(s) # {} => dbstate[s] \in ToldBefore(s, Len(trail) + 1)
    <3>1. \A j \in RowsOf(s) : j < Len(trail) + 1
      BY Appended DEF RowsOf, TrailType
    <3> QED BY <1>0, <3>1 DEF TrailOf, ToldBefore
  <2>6. ASSUME NEW c \in Callers, calls'[c].op = "update", calls'[c].sid = s
        PROVE  IF RowsOf(s) = {} THEN calls'[c].seen = dbstate[s]
               ELSE calls'[c].seen \in ToldBefore(s, Len(trail) + 1)
    BY <1>0, <1>1, <2>5, <2>6 DEF TrailOf
  <2> QED BY <1>0, <1>1, <2>1, <2>2, <2>3, <2>4, <2>6 DEF TrailOf
<1>2. ASSUME NEW c \in Callers, ReadForUpdate(c) PROVE TrailOf(s)'
  <2>1. PICK t \in Strategies, target \in States :
          calls' = [calls EXCEPT ![c] =
             [op |-> "update", sid |-> t, seen |-> dbstate[t], target |-> target]]
    BY <1>2 DEF ReadForUpdate
  <2>2. UNCHANGED <<trail, dbstate>>
    BY <1>2 DEF ReadForUpdate
  <2> QED BY <1>1, <2>1, <2>2 DEF DbType
<1>3. ASSUME NEW c \in Callers, ReadForTrade(c) \/ FinishTrade(c) PROVE TrailOf(s)'
  <2>1. \E call \in [op : {"trade"}, sid : Strategies] \cup {Idle} :
          calls' = [calls EXCEPT ![c] = call]
    BY <1>3 DEF ReadForTrade, FinishTrade
  <2>2. UNCHANGED <<trail, dbstate>>
    BY <1>3 DEF ReadForTrade, FinishTrade
  <2> QED BY <1>1, <2>1, <2>2 DEF DbType, Idle
<1>4. ASSUME NEW c \in Callers, CommitUpdate(c) PROVE TrailOf(s)'
  <2>1. calls' = [calls EXCEPT ![c] = Idle] /\ calls[c].op = "update"
    BY <1>4 DEF CommitUpdate
  <2>2. \A d \in Callers : calls'[d].op = "update" => calls'[d] = calls[d]
    BY <2>1 DEF DbType, Idle
  <2>3. CASE UNCHANGED <<trail, dbstate>>
    BY <1>1, <2>2, <2>3
  <2>4. CASE /\ dbstate' = [dbstate EXCEPT ![calls[c].sid] = calls[c].target]
             /\ trail' = Append(trail, [sid |-> calls[c].sid, from |-> calls[c].seen,
                                        to |-> calls[c].target])
    <3>1. calls[c].sid \in Strategies
      BY <2>1, CallCases DEF DbType
    <3>2. CASE calls[c].sid = s
      <4>1. dbstate'[s] = calls[c].target
        BY <2>4, <3>1, <3>2 DEF DbType
      <4> QED BY <1>0, <2>1, <2>2, <2>4, <3>2, <4>1, OwnTrailGrows
    <3>3. CASE calls[c].sid # s
      <4> DEFINE entry == [sid |-> calls[c].sid, from |-> calls[c].seen, to |-> calls[c].target]
      <4>1. entry.sid # s /\ trail' = Append(trail, entry) /\ dbstate'[s] = dbstate[s]
        BY <2>4, <3>1, <3>3 DEF DbType
      <4> HIDE DEF entry
      <4> QED BY <1>0, <2>2, <4>1, OtherTrailsStay
    <3> QED BY <3>2, <3>3
  <2> QED BY <1>4, <2>3, <2>4 DEF CommitUpdate, Write
<1>5. ASSUME \/ Start \/ IntervalElapses \/ ReloadWhenDue \/ PublishSnapshot
             \/ Read \/ Evaluate \/ Ack \/ Crash \/ UNCHANGED vars
      PROVE  UNCHANGED dbVars
  BY <1>5 DEF Start, IntervalElapses, ReloadWhenDue, PublishSnapshot, Read, Evaluate,
              Ack, Crash, vars
<1>6. CASE UNCHANGED dbVars
  BY <1>1, <1>6 DEF dbVars
<1> QED BY <1>2, <1>3, <1>4, <1>5, <1>6 DEF Next

\* The rows that update_strategy_state writes with its changes tell the history
\* of each strategy without a gap, for any number of callers whose sessions
\* overlap and any failed commits: also where a stale session overwrites a state.
THEOREM TrailTells == Spec => []TrailTellsHistory
<1> DEFINE Inv == DbType /\ TrailType /\ TrailTellsHistory
<1>1. Init => Inv
  <2> SUFFICES ASSUME Init PROVE Inv
    OBVIOUS
  <2>1. DbType /\ TrailType
    BY RegistryInit DEF RegistryInv, TypeOK
  <2>2. \A s \in Strategies : RowsOf(s) = {}
    <3>1. DOMAIN trail = {}
      BY DEF Init
    <3> QED BY <3>1 DEF RowsOf
  <2>3. \A c \in Callers : calls[c].op # "update"
    BY DEF Init, Idle
  <2> QED BY <2>1, <2>2, <2>3 DEF TrailTellsHistory
<1>2. Inv /\ [Next]_vars => Inv'
  BY DbTypeStep, TrailTypeStep, TrailStep
<1> QED BY <1>1, <1>2, PTL DEF Spec

-----------------------------------------------------------------------------
\* OAuthFlow.

LEMMA OAuthInitInv == OAuthInit => OAuthInv
BY OAuthAssumption
   DEF OAuthInit, OAuthInv, OAuthType, OneTokenPerCode, TokenMatchesCode, FirstUseDecides,
       AccessEndsAfterLogin, HoldsItsCode, TokenFromRequest, Issued

LEMMA OAuthTypeStep == OAuthType /\ HoldsItsCode /\ OAuthNext => OAuthType'
<1> SUFFICES ASSUME OAuthType, HoldsItsCode, OAuthNext PROVE OAuthType'
  OBVIOUS
<1> USE OAuthAssumption DEF OAuthType, OAuthFault
<1>1. ASSUME NEW c \in Clients, Login(c) PROVE OAuthType'
  BY <1>1 DEF Login
<1>2. ASSUME NEW c \in Clients, NEW k \in Codes, Authorize(c, k) PROVE OAuthType'
  <2>1. cookie[c] \in 0..MaxTime
    BY <1>2 DEF Authorize, Fresh
  <2>2. [client |-> c, login |-> cookie[c], until |-> clock + CodeTtl] \in Entry
    BY <2>1 DEF Entry, Times
  <2>3. QED
    BY <1>2, <2>2 DEF Authorize
<1>3. ASSUME NEW r \in TokenRequests, NEW k \in Codes, NEW v \in BOOLEAN,
             NEW u \in {"none", "same", "other"}, Consume(r, k, v, u)
      PROVE  OAuthType'
  <2>1. [code |-> k, verifier |-> v, uri |-> u] \in Presented
    BY DEF Presented
  <2>2. QED
    BY <1>3, <2>1 DEF Consume, Deleted
<1>4. ASSUME NEW r \in TokenRequests, Refuse(r) PROVE OAuthType'
  BY <1>4 DEF Refuse
<1>5. ASSUME NEW r \in TokenRequests, NEW t \in Tokens, Issue(r, t) PROVE OAuthType'
  <2> DEFINE d == codeData[r]
  <2> DEFINE grant == [client |-> d.client, login |-> d.login, until |-> Expiry, request |-> r]
  <2>1. d \in Entry
    BY <1>5 DEF Issue, HoldsItsCode
  <2>2. grant \in Grant
    BY <2>1 DEF Entry, Grant, Times, Expiry
  <2> HIDE DEF grant
  <2>3. /\ token' \in {token, [token EXCEPT ![t] = grant]}
        /\ exchange' \in {[exchange EXCEPT ![r] = "issued"], [exchange EXCEPT ![r] = "failed"]}
        /\ oauthFaults' \in 0..MaxOAuthFaults
        /\ UNCHANGED <<clock, cookie, code, spent, request, codeData>>
    BY <1>5 DEF Issue, grant
  <2>4. QED
    BY <2>2, <2>3
<1>6. CASE OAuthTick
  BY <1>6 DEF OAuthTick
<1>7. QED
  BY <1>1, <1>2, <1>3, <1>4, <1>5, <1>6 DEF OAuthNext

\* The MULTI gives the data of a code to the request that deletes it.
LEMMA HoldsItsCodeStep ==
  OAuthType /\ HoldsItsCode /\ FirstUseDecides /\ OAuthNext => (HoldsItsCode /\ FirstUseDecides)'
<1> SUFFICES ASSUME OAuthType, HoldsItsCode, FirstUseDecides, OAuthNext
             PROVE  (HoldsItsCode /\ FirstUseDecides)'
  OBVIOUS
<1> USE OAuthAssumption DEF OAuthType, HoldsItsCode, FirstUseDecides
<1>1. ASSUME NEW c \in Clients, Login(c) PROVE (HoldsItsCode /\ FirstUseDecides)'
  BY <1>1 DEF Login
<1>2. ASSUME NEW c \in Clients, NEW k \in Codes, Authorize(c, k)
      PROVE  (HoldsItsCode /\ FirstUseDecides)'
  <2> DEFINE new == [client |-> c, login |-> cookie[c], until |-> clock + CodeTtl]
  <2>1. cookie[c] \in 0..MaxTime /\ clock - cookie[c] <= CookieAge
    BY <1>2 DEF Authorize, Fresh
  <2>2. new.until <= new.login + CookieAge + CodeTtl
    BY <2>1
  <2> HIDE DEF new
  <2>3. /\ code[k] = None /\ code' \in {code, [code EXCEPT ![k] = new]}
        /\ UNCHANGED <<clock, cookie, spent, token, exchange, request, codeData>>
    BY <1>2 DEF Authorize, new
  <2>4. \A r \in TokenRequests : codeData[r] # None => request[r] \in Presented
    OBVIOUS
  <2>5. \A r \in TokenRequests : codeData[r] # None => request[r].code # k
    BY <2>3, <2>4
  <2>6. \A r \in TokenRequests : codeData[r] # None => request[r].code \in Codes
    BY <2>4 DEF Presented
  <2>7. QED
    BY <2>2, <2>3, <2>5, <2>6
<1>3. ASSUME NEW r \in TokenRequests, NEW k \in Codes, NEW v \in BOOLEAN,
             NEW u \in {"none", "same", "other"}, Consume(r, k, v, u)
      PROVE  (HoldsItsCode /\ FirstUseDecides)'
  <2>1. /\ exchange[r] = "new" /\ request'[r].code = k /\ request'[r] # None
        /\ codeData[r] = None
        /\ \A q \in TokenRequests \ {r} : /\ request'[q] = request[q]
                                          /\ exchange'[q] = exchange[q]
                                          /\ codeData'[q] = codeData[q]
        /\ UNCHANGED <<clock, cookie, code, token>>
    <3>1. [code |-> k, verifier |-> v, uri |-> u] \in Presented
      BY DEF Presented
    <3>2. QED
      BY <1>3, <3>1 DEF Consume
  <2>2. CASE /\ codeData'[r] = code[k] /\ k \notin spent /\ Live(code[k]) /\ spent' = spent \cup {k}
             /\ exchange'[r] = "consumed"
    <3>1. \A q \in TokenRequests \ {r} : codeData'[q] # None => request'[q].code # k
      BY <2>1, <2>2
    <3>2. FirstUseDecides'
      BY <2>1, <2>2, <3>1
    <3>3. HoldsItsCode'
      BY <2>1, <2>2 DEF Live
    <3>4. QED
      BY <3>2, <3>3
  <2>3. CASE codeData'[r] = None /\ spent' \in {spent, spent \cup {k}}
             /\ exchange'[r] \in {"refused", "failed"}
    BY <2>1, <2>3
  <2>4. QED
    BY <1>3, <2>1, <2>2, <2>3 DEF Consume, Deleted, Readable
<1>4. ASSUME NEW r \in TokenRequests, Refuse(r) PROVE (HoldsItsCode /\ FirstUseDecides)'
  BY <1>4 DEF Refuse
<1>5. ASSUME NEW r \in TokenRequests, NEW t \in Tokens, Issue(r, t)
      PROVE  (HoldsItsCode /\ FirstUseDecides)'
  <2>1. /\ exchange[r] = "consumed"
        /\ exchange' \in {[exchange EXCEPT ![r] = "issued"], [exchange EXCEPT ![r] = "failed"]}
        /\ UNCHANGED <<clock, cookie, code, spent, request, codeData>>
    BY <1>5 DEF Issue
  <2>2. QED
    BY <2>1
<1>6. CASE OAuthTick
  BY <1>6 DEF OAuthTick
<1>7. QED
  BY <1>1, <1>2, <1>3, <1>4, <1>5, <1>6 DEF OAuthNext

\* A token is stored by a request that has it in hand, once.
LEMMA TokenFromRequestStep ==
  OAuthType /\ HoldsItsCode /\ TokenFromRequest /\ OAuthNext => TokenFromRequest'
<1> SUFFICES ASSUME OAuthType, HoldsItsCode, TokenFromRequest, OAuthNext
             PROVE  TokenFromRequest'
  OBVIOUS
<1> USE OAuthAssumption DEF Verified, Issued
<1>0. /\ clock \in Nat /\ exchange \in [TokenRequests -> {"new", "consumed", "refused", "failed", "issued"}]
      /\ token \in [Tokens -> Grant \cup {None}]
      /\ codeData \in [TokenRequests -> Entry \cup {None}]
      /\ request \in [TokenRequests -> Presented \cup {None}]
      /\ code \in [Codes -> Entry \cup {None}]
      /\ \A t \in Issued : token[t].request \in TokenRequests
  BY DEF OAuthType, Grant
<1>1. ASSUME UNCHANGED token,
             \A r \in TokenRequests : exchange[r] \in {"issued", "failed"} =>
               exchange'[r] = exchange[r] /\ codeData'[r] = codeData[r] /\ request'[r] = request[r]
      PROVE  TokenFromRequest'
  BY <1>0, <1>1 DEF TokenFromRequest
<1>2. ASSUME NEW c \in Clients, Login(c) PROVE TokenFromRequest'
  BY <1>1, <1>2 DEF Login
<1>3. ASSUME NEW c \in Clients, NEW k \in Codes, Authorize(c, k) PROVE TokenFromRequest'
  BY <1>1, <1>3 DEF Authorize
<1>4. ASSUME NEW r \in TokenRequests, NEW k \in Codes, NEW v \in BOOLEAN,
             NEW u \in {"none", "same", "other"}, Consume(r, k, v, u)
      PROVE  TokenFromRequest'
  BY <1>0, <1>1, <1>4 DEF Consume
<1>5. ASSUME NEW r \in TokenRequests, Refuse(r) PROVE TokenFromRequest'
  BY <1>0, <1>1, <1>5 DEF Refuse
<1>6. ASSUME NEW r \in TokenRequests, NEW t \in Tokens, Issue(r, t) PROVE TokenFromRequest'
  <2> DEFINE d == codeData[r]
  <2> DEFINE grant == [client |-> d.client, login |-> d.login, until |-> Expiry, request |-> r]
  <2>1. /\ exchange[r] = "consumed" /\ Verified(r) /\ token[t] = None
        /\ token' \in {token, [token EXCEPT ![t] = grant]}
        /\ exchange' \in {[exchange EXCEPT ![r] = "issued"], [exchange EXCEPT ![r] = "failed"]}
        /\ UNCHANGED <<clock, cookie, code, spent, request, codeData>>
    BY <1>6 DEF Issue
  <2>2. /\ d \in Entry /\ d # None /\ clock < d.until
        /\ d.until <= d.login + CookieAge + CodeTtl
    <3>1. d # None /\ clock < d.until /\ request[r] \in Presented /\ d = code[request[r].code]
      BY <1>0, <2>1 DEF HoldsItsCode
    <3>2. request[r].code \in Codes
      BY <3>1 DEF Presented
    <3>3. QED
      BY <1>0, <3>1, <3>2 DEF HoldsItsCode
  <2>3. /\ grant.client = d.client /\ grant.login = d.login /\ grant.request = r
        /\ grant.until = clock + TokenTtl
        /\ grant.until < grant.login + CookieAge + CodeTtl + TokenTtl
    BY <1>0, <2>2 DEF Expiry, Entry, Times
  <2> HIDE DEF grant
  <2>4. \A u \in Issued : token[u].request # r
    BY <2>1 DEF TokenFromRequest
  <2>5. exchange'[r] \in {"issued", "failed"}
        /\ \A q \in TokenRequests \ {r} : exchange'[q] = exchange[q]
    BY <1>0, <2>1
  <2>6. CASE token' = token
    BY <1>0, <2>1, <2>4, <2>5, <2>6 DEF TokenFromRequest
  <2>7. CASE token' = [token EXCEPT ![t] = grant]
    <3>1. /\ token'[t] = grant /\ \A u \in Tokens \ {t} : token'[u] = token[u]
          /\ Issued' \subseteq Issued \cup {t} /\ t \notin Issued
      BY <1>0, <2>1, <2>7
    <3>2. QED
      BY <1>0, <2>1, <2>2, <2>3, <2>4, <2>5, <3>1 DEF TokenFromRequest
  <2>8. QED
    BY <2>1, <2>6, <2>7
<1>7. CASE OAuthTick
  BY <1>1, <1>7 DEF OAuthTick
<1>8. QED
  BY <1>2, <1>3, <1>4, <1>5, <1>6, <1>7 DEF OAuthNext

\* A code buys at most one token, for the client and with the verifier of that
\* code, the first request that presents it decides on it, and no access lasts
\* longer than the three lifetimes after the login, whatever fails in between.
THEOREM OAuthInvariant == OAuthSpec => []OAuthInv
<1> DEFINE Core == OAuthType /\ HoldsItsCode /\ FirstUseDecides /\ TokenFromRequest
<1>1. OAuthInit => Core
  BY OAuthInitInv DEF OAuthInv
<1>2. Core /\ [OAuthNext]_oauthVars => Core'
  <2>1. CASE OAuthNext
    BY <2>1, OAuthTypeStep, HoldsItsCodeStep, TokenFromRequestStep
  <2>2. CASE UNCHANGED oauthVars
    BY <2>2
       DEF oauthVars, OAuthType, HoldsItsCode, FirstUseDecides, TokenFromRequest, Issued, Verified
  <2>3. QED
    BY <2>1, <2>2
<1>3. Core => OAuthInv
  <2> SUFFICES ASSUME Core PROVE OAuthInv
    OBVIOUS
  <2>1. \A t \in Issued : /\ token[t] \in Grant /\ token[t].request \in TokenRequests
                          /\ CodeOf(t) \in Codes
    BY OAuthAssumption
       DEF OAuthType, Issued, Grant, CodeOf, TokenFromRequest, HoldsItsCode, Presented
  <2>2. OneTokenPerCode
    BY <2>1 DEF OneTokenPerCode, TokenFromRequest, FirstUseDecides, CodeOf
  <2>3. TokenMatchesCode
    BY <2>1 DEF TokenMatchesCode, TokenFromRequest, HoldsItsCode, CodeOf, Verified
  <2>4. AccessEndsAfterLogin
    BY <2>1, OAuthAssumption
       DEF AccessEndsAfterLogin, TokenFromRequest, Live, Grant, Times, OAuthType
  <2>5. QED
    BY <2>2, <2>3, <2>4 DEF OAuthInv
<1>4. QED
  BY <1>1, <1>2, <1>3, PTL DEF OAuthSpec

-----------------------------------------------------------------------------
\* RateLimit.

\* The minute of a time.
LEMMA MinuteOf ==
  ASSUME NEW t \in Nat
  PROVE  /\ BucketOf(t) \in Nat
         /\ BucketOf(t) * Minute <= t /\ t < BucketOf(t) * Minute + Minute
BY RateLimitAssumption DEF BucketOf

\* The times of a minute are those with its number.
LEMMA SameMinute ==
  ASSUME NEW t \in Nat, NEW b \in Nat, b * Minute <= t, t <= (b + 1) * Minute - 1
  PROVE  BucketOf(t) = b
<1>1. Minute \in Nat \ {0} /\ (b + 1) * Minute = b * Minute + Minute
  BY RateLimitAssumption
<1>2. BucketOf(t) \in Nat /\ BucketOf(t) * Minute <= t /\ t < BucketOf(t) * Minute + Minute
  BY MinuteOf
<1> DEFINE q == BucketOf(t)
<1> HIDE DEF q
<1>3. ~(b + 1 <= q)
  <2> SUFFICES ASSUME b + 1 <= q PROVE FALSE
    OBVIOUS
  <2>1. (b + 1) * Minute <= q * Minute
    BY <1>1, <1>2 DEF q
  <2>2. QED
    BY <1>1, <1>2, <2>1 DEF q
<1>4. ~(q + 1 <= b)
  <2> SUFFICES ASSUME q + 1 <= b PROVE FALSE
    OBVIOUS
  <2>1. (q + 1) * Minute <= b * Minute /\ (q + 1) * Minute = q * Minute + Minute
    BY <1>1, <1>2 DEF q
  <2>2. QED
    BY <1>1, <1>2, <2>1 DEF q
<1>5. QED
  BY <1>2, <1>3, <1>4 DEF q

\* Every time of a run has its minute among the buckets.
LEMMA BucketInRange == ASSUME NEW t \in 0..End PROVE BucketOf(t) \in Buckets
<1> DEFINE q == BucketOf(t)
<1> DEFINE final == End \div Minute
<1>1. /\ Minute \in Nat \ {0} /\ End \in Nat /\ q \in Nat /\ q * Minute <= t
      /\ final \in Nat /\ End < final * Minute + Minute
  BY MinuteOf, RateLimitAssumption DEF BucketOf
<1> HIDE DEF q, final
<1>2. ~(final + 1 <= q)
  <2> SUFFICES ASSUME final + 1 <= q PROVE FALSE
    OBVIOUS
  <2>1. (final + 1) * Minute <= q * Minute /\ (final + 1) * Minute = final * Minute + Minute
    BY <1>1
  <2>2. QED
    BY <1>1, <2>1
<1>3. QED
  BY <1>1, <1>2 DEF q, final, Buckets

LEMMA LimitInitInv == LimitInit => LimitInv
<1> SUFFICES ASSUME LimitInit PROVE LimitInv
  OBVIOUS
<1> USE RateLimitAssumption DEF LimitInit
<1>0. Cardinality(ApiRequests) \in Nat
  BY FS_CardinalityType
<1>1. LimitType
  BY <1>0 DEF LimitType, Never
<1>2. \A b \in Buckets : b \in Nat /\ b * Minute <= End
  <2> SUFFICES ASSUME NEW b \in Buckets PROVE b \in Nat /\ b * Minute <= End
    OBVIOUS
  <2>1. b \in Nat /\ b <= BucketOf(End)
    BY MinuteOf DEF Buckets, BucketOf
  <2>2. BucketOf(End) \in Nat /\ BucketOf(End) * Minute <= End /\ Minute \in Nat
    BY MinuteOf
  <2>3. b * Minute <= BucketOf(End) * Minute
    BY <2>1, <2>2
  <2>4. b * Minute \in Nat
    BY <2>1
  <2>5. QED
    BY <2>1, <2>2, <2>3, <2>4
<1>3. MinuteCap
  <2>1. \A b \in Buckets : Admitted(b * Minute, (b + 1) * Minute - 1) = {}
    BY DEF Admitted
  <2>2. QED
    BY <2>1, FS_EmptySet DEF MinuteCap
<1>4. CountersGoAway
  BY DEF CountersGoAway
<1>5. /\ InFlight = {} /\ Past = {}
      /\ \A r \in ApiRequests : asked[r].pc = "new" /\ asked[r].n = 0 /\ Mine(r) \in Buckets
      /\ \A b \in Buckets : count[b] = 0 /\ expires[b] = Never
  BY BucketInRange DEF InFlight, Past, Mine
<1>6. AnsweredInTime /\ NumberFits /\ NumbersAreDistinct
  BY ONLY <1>5 DEF AnsweredInTime, NumberFits, NumbersAreDistinct
<1>7. CountersLast
  <2>1. \A b \in Buckets : Never >= b * Minute + Ttl
    <3> SUFFICES ASSUME NEW b \in Buckets PROVE Never >= b * Minute + Ttl
      OBVIOUS
    <3>1. b * Minute \in Nat
      BY <1>2
    <3>2. QED
      BY <1>2, <3>1 DEF Never
  <2>2. \A r \in ApiRequests : ~(asked[r].n > count[Mine(r)])
    BY <1>5
  <2>3. QED
    BY <1>5, <2>1, <2>2 DEF CountersLast
<1>8. CountsRequests
  BY <1>5, FS_EmptySet DEF CountsRequests
<1>9. QED
  BY <1>1, <1>3, <1>4, <1>6, <1>7, <1>8 DEF LimitInv, LimitParts

\* One more request has counted.
LEMMA PastGrows ==
  ASSUME NEW r \in ApiRequests, r \notin Past, Past' = Past \cup {r}
  PROVE  /\ Cardinality(Past') = Cardinality(Past) + 1 /\ Cardinality(Past) \in Nat
         /\ Cardinality(Past') <= Cardinality(ApiRequests) /\ Cardinality(ApiRequests) \in Nat
<1>1. IsFiniteSet(Past) /\ Past \subseteq ApiRequests /\ IsFiniteSet(ApiRequests)
  BY RateLimitAssumption, FS_Subset DEF Past
<1>2. Cardinality(Past \cup {r}) = Cardinality(Past) + 1
  BY <1>1, FS_AddElement
<1>3. Cardinality(Past \cup {r}) <= Cardinality(ApiRequests)
  BY <1>1, FS_Subset
<1>4. QED
  BY <1>1, <1>2, <1>3, FS_CardinalityType

\* What the parts say of a request and of the counter of its minute.
LEMMA LimitFacts ==
  ASSUME LimitType, LimitParts
  PROVE  /\ Cardinality(ApiRequests) \in Nat /\ Cardinality(Past) \in Nat
         /\ Minute \in Nat \ {0} /\ Ttl \in Nat \ {0} /\ MaxDelay \in Nat /\ End \in Nat
         /\ Limit \in Nat /\ Minute + MaxDelay <= Ttl
         /\ now \in 0..End /\ count \in [Buckets -> Nat]
         /\ asked \in [ApiRequests -> [pc : {"new", "incr", "expire", "admitted", "refused", "error"},
                                       at : 0..End, n : Nat]]
         /\ \A b \in Buckets : expires[b] \in Nat /\ b \in Nat /\ b * Minute \in Nat
         /\ \A r \in ApiRequests : /\ Mine(r) \in Buckets
                                   /\ Mine(r) * Minute <= asked[r].at
                                   /\ asked[r].at < Mine(r) * Minute + Minute
<1> USE RateLimitAssumption
<1>1. Cardinality(ApiRequests) \in Nat /\ Cardinality(Past) \in Nat
  BY FS_CardinalityType, FS_Subset DEF Past
<1>2. /\ now \in 0..End /\ count \in [Buckets -> Nat]
      /\ asked \in [ApiRequests -> [pc : {"new", "incr", "expire", "admitted", "refused", "error"},
                                    at : 0..End, n : Nat]]
  BY <1>1 DEF LimitType
<1>3. \A b \in Buckets : expires[b] \in Nat
  BY DEF LimitType, Never
<1>4. \A b \in Buckets : b \in Nat /\ b * Minute \in Nat
  BY DEF Buckets
<1>5. \A r \in ApiRequests : /\ Mine(r) \in Buckets
                             /\ Mine(r) * Minute <= asked[r].at
                             /\ asked[r].at < Mine(r) * Minute + Minute
  BY <1>2, MinuteOf, BucketInRange DEF Mine
<1>6. QED
  BY <1>1, <1>2, <1>3, <1>4, <1>5
\* Nothing has been counted: the request has arrived.
LEMMA ArriveStep ==
  ASSUME LimitType, LimitParts, NEW r \in ApiRequests, Arrive(r)
  PROVE  LimitType' /\ LimitParts'
<1> USE LimitFacts DEF Arrive
<1>1. LimitType'
  BY DEF LimitType, Deadline, Never
<1>2. /\ \A q \in ApiRequests : q # r => asked'[q] = asked[q] /\ Mine(q)' = Mine(q)
      /\ asked'[r] = [pc |-> "incr", at |-> now, n |-> 0]
      /\ asked[r].n = 0 /\ Past' = Past
  BY DEF Mine, Past, LimitParts, NumberFits
<1>3. AnsweredInTime'
  BY <1>2 DEF LimitParts, AnsweredInTime, InFlight
<1>4. NumberFits'
  BY <1>2 DEF LimitParts, NumberFits
<1>5. Mine(r)' \in Buckets
  BY <1>2, BucketInRange DEF Mine
<1>6. CountersLast'
  <2> USE <1>2 DEF LimitParts, CountersLast
  <2>1. ASSUME NEW q \in ApiRequests, asked'[q].n > count[Mine(q)']
        PROVE  q # r
    BY <1>2, <1>5, <2>1
  <2>2. \A q \in ApiRequests :
          asked'[q].n > count'[Mine(q)'] => now' >= Mine(q)' * Minute + Minute + MaxDelay
    BY <2>1
  <2>3. QED
    BY <2>2
<1>7. NumbersAreDistinct'
  BY <1>2 DEF LimitParts, NumbersAreDistinct
<1>8. CountsRequests'
  BY <1>2 DEF LimitParts, CountsRequests
<1>9. QED
  BY <1>1, <1>3, <1>4, <1>6, <1>7, <1>8 DEF LimitParts

\* The counter of a request that is on its way is still there: the number it
\* gets is one nobody else has.
LEMMA IncrStep ==
  ASSUME LimitType, LimitParts, NEW r \in ApiRequests, Incr(r)
  PROVE  LimitType' /\ LimitParts'
<1> DEFINE b == Mine(r)
<1> DEFINE n == count[b] + 1
<1>1. /\ asked[r].pc = "incr" /\ asked[r].n = 0 /\ r \in InFlight /\ b \in Buckets
      /\ n \in Nat \ {0} /\ count[b] \in Nat /\ UNCHANGED <<now, expires>>
  BY LimitFacts DEF Incr, LimitParts, NumberFits, InFlight
<1>2. \E p \in {"expire", "admitted", "refused", "error"}, c \in {count[b], n}, m \in {0, n} :
        /\ asked' = [asked EXCEPT ![r].pc = p, ![r].n = m]
        /\ count' = [count EXCEPT ![b] = c]
        /\ m = n => c = n
        /\ p = "error" => m = 0
        /\ p = "admitted" => m = n /\ n <= Limit
        /\ p = "expire" => m = n /\ n = 1
  <2>1. CASE /\ count' = [count EXCEPT ![b] = n]
             /\ asked' = [asked EXCEPT ![r].n = n, ![r].pc =
                          IF IsFirst(n) THEN "expire" ELSE Verdict(n)]
    <3> DEFINE p == IF IsFirst(n) THEN "expire" ELSE Verdict(n)
    <3>1. asked' = [asked EXCEPT ![r].pc = p, ![r].n = n]
      BY <2>1, LimitFacts
    <3>2. p \in {"expire", "admitted", "refused"} /\ (p = "admitted" => n <= Limit)
          /\ (p = "expire" => n = 1)
      BY <1>1, LimitFacts DEF IsFirst, Verdict
    <3> HIDE DEF p
    <3>3. QED
      BY <2>1, <3>1, <3>2
  <2>2. CASE /\ count' \in {count, [count EXCEPT ![b] = n]}
             /\ asked' = [asked EXCEPT ![r].pc = "error"]
    <3>1. asked' = [asked EXCEPT ![r].pc = "error", ![r].n = 0]
      BY <1>1, <2>2, LimitFacts
    <3>2. \E c \in {count[b], n} : count' = [count EXCEPT ![b] = c]
      BY <1>1, <2>2, LimitFacts
    <3>3. n # 0
      BY <1>1
    <3>4. QED
      BY <3>1, <3>2, <3>3
  <2>3. QED
    BY <2>1, <2>2 DEF Incr
<1>3. PICK p \in {"expire", "admitted", "refused", "error"}, c \in {count[b], n}, m \in {0, n} :
        /\ asked' = [asked EXCEPT ![r].pc = p, ![r].n = m]
        /\ count' = [count EXCEPT ![b] = c]
        /\ m = n => c = n
        /\ p = "error" => m = 0
        /\ p = "admitted" => m = n /\ n <= Limit
        /\ p = "expire" => m = n /\ n = 1
  BY <1>2
<1> HIDE DEF n
<1>4. /\ \A q \in ApiRequests : q # r => asked'[q] = asked[q]
      /\ asked'[r] = [asked[r] EXCEPT !.pc = p, !.n = m]
      /\ asked'[r].pc = p /\ asked'[r].n = m /\ asked'[r].at = asked[r].at
      /\ \A q \in ApiRequests : Mine(q)' = Mine(q)
  BY <1>3, LimitFacts DEF Mine
<1>5. r \notin Past /\ Past' = Past \cup {r}
  BY <1>1, <1>3, <1>4 DEF Past
<1>6. /\ Cardinality(Past') = Cardinality(Past) + 1 /\ Cardinality(Past) \in Nat
      /\ Cardinality(Past') <= Cardinality(ApiRequests) /\ Cardinality(ApiRequests) \in Nat
  BY <1>5, PastGrows
<1>7. count[b] + 1 = n /\ n <= Cardinality(Past') /\ n \in 0..Cardinality(ApiRequests)
  <2>1. count[b] <= Cardinality(Past) /\ count[b] \in Nat
    BY <1>1 DEF LimitParts, CountsRequests
  <2>2. count[b] + 1 = n
    BY DEF n
  <2>3. QED
    BY ONLY <1>6, <2>1, <2>2
<1>8. \A q \in ApiRequests : asked[q].n > 0 /\ Mine(q) = b => asked[q].n <= count[b]
  <2>1. now <= asked[r].at + MaxDelay /\ asked[r].at < b * Minute + Minute
    BY <1>1, LimitFacts DEF LimitParts, AnsweredInTime
  <2>2. ~(now >= b * Minute + Minute + MaxDelay)
    BY <1>1, <2>1, LimitFacts
  <2>3. QED
    BY <1>1, <2>2, LimitFacts DEF LimitParts, CountersLast
<1>9. LimitType'
  <2>1. count' \in [Buckets -> 0..Cardinality(ApiRequests)]
    BY <1>1, <1>3, <1>7 DEF LimitType
  <2>2. asked' \in [ApiRequests -> [pc : {"new", "incr", "expire", "admitted", "refused", "error"},
                             at : 0..End, n : 0..Cardinality(ApiRequests)]]
    <3>1. [asked[r] EXCEPT !.pc = p, !.n = m]
            \in [pc : {"new", "incr", "expire", "admitted", "refused", "error"},
                 at : 0..End, n : 0..Cardinality(ApiRequests)]
      <4>1. asked[r] \in [pc : {"new", "incr", "expire", "admitted", "refused", "error"},
                          at : 0..End, n : 0..Cardinality(ApiRequests)]
        BY DEF LimitType
      <4>2. m \in 0..Cardinality(ApiRequests) /\ p \in {"expire", "admitted", "refused", "error"}
        BY <1>3, <1>6, <1>7
      <4>3. QED
        BY <4>1, <4>2
    <3>2. asked' = [asked EXCEPT ![r] = [asked[r] EXCEPT !.pc = p, !.n = m]]
      BY <1>3
    <3>3. QED
      BY <3>1, <3>2 DEF LimitType
  <2>3. limitFaults' \in 0..MaxLimitFaults
    BY RateLimitAssumption DEF Incr, LimitFault, LimitType
  <2>4. QED
    BY <1>1, <2>1, <2>2, <2>3 DEF LimitType, Never
<1>10. \A k \in Buckets : count'[k] \in Nat /\ count'[k] >= count[k] /\ (k # b => count'[k] = count[k])
  BY <1>1, <1>3, <1>7, LimitFacts
<1>11. AnsweredInTime'
  <2>1. \A q \in InFlight' : q \in InFlight /\ asked'[q].at = asked[q].at
    BY <1>1, <1>4 DEF InFlight
  <2>2. QED
    BY <1>1, <2>1 DEF LimitParts, AnsweredInTime
<1>12. NumberFits'
  <2>1. /\ p = "admitted" => m \in 1..Limit
        /\ p \notin {"new", "incr"} /\ (p = "expire" => m = 1)
    BY <1>1, <1>3, LimitFacts
  <2>2. QED
    BY <1>4, <2>1 DEF LimitParts, NumberFits
<1>13. CountersLast'
  <2>1. ASSUME NEW q \in ApiRequests, asked'[q].n > count'[Mine(q)']
        PROVE  now' >= Mine(q)' * Minute + Minute + MaxDelay
    <3>1. Mine(q)' = Mine(q) /\ Mine(q) \in Buckets
      BY <1>4, LimitFacts
    <3>2. q # r
      <4>1. count'[b] = c /\ m \in Nat /\ c \in Nat /\ m <= c
        BY <1>1, <1>3, LimitFacts
      <4>2. asked'[r].n = m /\ Mine(r)' = b
        BY <1>4
      <4>3. QED
        BY <2>1, <4>1, <4>2
    <3>3. asked[q].n > count[Mine(q)]
      BY <1>4, <1>10, <2>1, <3>1, <3>2, LimitFacts
    <3>4. QED
      BY <1>1, <3>1, <3>3 DEF LimitParts, CountersLast
  <2>2. \A k \in Buckets : expires'[k] >= k * Minute + Ttl
    BY <1>1 DEF LimitParts, CountersLast
  <2>3. QED
    BY <2>1, <2>2 DEF CountersLast
<1>14. NumbersAreDistinct'
  <2>1. ASSUME NEW q \in ApiRequests, q # r, asked[q].n > 0, Mine(q) = b
        PROVE  asked[q].n # m
    BY <1>1, <1>3, <1>7, <1>8, <2>1, LimitFacts
  <2>2. QED
    <3>1. \A q \in ApiRequests : q # r => asked'[q].n = asked[q].n
      BY <1>4
    <3>2. \A q \in ApiRequests : q # r /\ asked'[q].n > 0 /\ Mine(q)' = b => asked'[q].n # m
      BY <1>4, <2>1, <3>1
    <3>3. \A q, k \in ApiRequests : q # r /\ k # r /\ asked'[q].n > 0
            /\ asked'[q].n = asked'[k].n /\ Mine(q)' = Mine(k)' => q = k
      BY <1>4, <3>1 DEF LimitParts, NumbersAreDistinct
    <3>4. asked'[r].n = m /\ Mine(r)' = b
      BY <1>4
    <3>5. QED
      BY <3>2, <3>3, <3>4 DEF NumbersAreDistinct
<1>15. CountsRequests'
  <2>1. ASSUME NEW k \in Buckets PROVE count'[k] <= Cardinality(Past')
    <3>1. count[k] <= Cardinality(Past) /\ count[k] \in Nat
      BY LimitFacts DEF LimitParts, CountsRequests
    <3>2. count'[k] \in {count[k], n}
      BY <1>1, <1>3, LimitFacts
    <3>3. QED
      BY <1>6, <1>7, <3>1, <3>2
  <2>2. QED
    BY <2>1 DEF CountsRequests
<1>16. QED
  BY <1>9, <1>11, <1>12, <1>13, <1>14, <1>15 DEF LimitParts

\* A lifetime given now outlasts the minute of the request that gives it.
LEMMA SetLifetimeStep ==
  ASSUME LimitType, LimitParts, NEW r \in ApiRequests, SetLifetime(r)
  PROVE  LimitType' /\ LimitParts'
<1> DEFINE b == Mine(r)
<1>1. /\ asked[r].pc = "expire" /\ asked[r].n = 1 /\ r \in InFlight /\ b \in Buckets
      /\ UNCHANGED <<now, count>>
  BY LimitFacts DEF SetLifetime, LimitParts, NumberFits, InFlight
<1>2. PICK p \in {"admitted", "refused", "error"} :
        /\ asked' = [asked EXCEPT ![r].pc = p]
        /\ p = "admitted" => 1 <= Limit
  BY <1>1, LimitFacts DEF SetLifetime, Verdict
<1>3. /\ \A q \in ApiRequests : q # r => asked'[q] = asked[q]
      /\ asked'[r].pc = p /\ asked'[r].n = asked[r].n /\ asked'[r].at = asked[r].at
      /\ \A q \in ApiRequests : Mine(q)' = Mine(q) /\ asked'[q].n = asked[q].n
  BY <1>2, LimitFacts DEF Mine
<1>4. Past' = Past
  BY <1>1, <1>2, <1>3 DEF Past
<1>5. \A k \in Buckets : expires'[k] \in {expires[k], Never, Deadline}
  BY LimitFacts DEF SetLifetime, LimitType
<1>6. \A k \in Buckets : k # b => expires'[k] = expires[k]
  BY LimitFacts DEF SetLifetime, LimitType
<1>7. LimitType'
  <2>1. \A k \in Buckets : expires'[k] = Never \/ expires'[k] \in now'+1..now'+Ttl
    BY <1>1, <1>5, LimitFacts DEF LimitType, Deadline, Never
  <2>2. asked' \in [ApiRequests -> [pc : {"new", "incr", "expire", "admitted", "refused", "error"},
                             at : 0..End, n : 0..Cardinality(ApiRequests)]]
    BY <1>2 DEF LimitType
  <2>3. limitFaults' \in 0..MaxLimitFaults
    BY RateLimitAssumption DEF SetLifetime, LimitFault, LimitType
  <2>4. expires' \in [Buckets -> Nat]
    <3>1. Never \in Nat /\ Deadline \in Nat
      BY LimitFacts DEF Never, Deadline
    <3>2. QED
      BY <3>1 DEF SetLifetime, LimitType
  <2>5. QED
    BY <1>1, <2>1, <2>2, <2>3, <2>4 DEF LimitType, Never
<1>8. AnsweredInTime'
  BY <1>1, <1>2, <1>3 DEF LimitParts, AnsweredInTime, InFlight
<1>9. NumberFits'
  BY <1>1, <1>2, <1>3, LimitFacts DEF LimitParts, NumberFits
<1>10. CountersLast'
  <2>1. \A k \in Buckets : expires'[k] >= k * Minute + Ttl
    <3>1. asked[r].at <= now /\ b * Minute <= asked[r].at
      BY <1>1, LimitFacts DEF LimitParts, AnsweredInTime
    <3>2. Deadline >= b * Minute + Ttl
      BY <1>1, <3>1, LimitFacts DEF Deadline
    <3>3. b * Minute <= End
      BY <1>1, <3>1, LimitFacts
    <3>4. Never >= b * Minute + Ttl
      BY <1>1, <3>3, LimitFacts DEF Never
    <3>5. QED
      BY <1>5, <1>6, <3>2, <3>4 DEF LimitParts, CountersLast
  <2>2. QED
    BY <1>1, <1>3, <2>1 DEF LimitParts, CountersLast
<1>11. NumbersAreDistinct'
  BY <1>3 DEF LimitParts, NumbersAreDistinct
<1>12. CountsRequests'
  BY <1>1, <1>4 DEF LimitParts, CountsRequests
<1>13. QED
  BY <1>7, <1>8, <1>9, <1>10, <1>11, <1>12 DEF LimitParts

\* A counter that goes away belongs to a minute no request can still come from.
LEMMA ClockTickStep ==
  ASSUME LimitType, LimitParts, ClockTick
  PROVE  LimitType' /\ LimitParts'
<1> DEFINE gone == {b \in Buckets : expires[b] <= now'}
<1>1. /\ now \in Nat /\ now' = now + 1 /\ now' \in 0..End /\ UNCHANGED <<asked, limitFaults>>
      /\ \A r \in InFlight : now - asked[r].at < MaxDelay
      /\ count' = [b \in Buckets |-> IF b \in gone THEN 0 ELSE count[b]]
      /\ expires' = [b \in Buckets |-> IF b \in gone THEN Never ELSE expires[b]]
  BY LimitFacts DEF ClockTick
<1>2. /\ InFlight' = InFlight /\ Past' = Past /\ \A r \in ApiRequests : Mine(r)' = Mine(r)
  BY <1>1 DEF InFlight, Past, Mine
<1>3. LimitType'
  <2>1. count' \in [Buckets -> 0..Cardinality(ApiRequests)]
    BY <1>1, LimitFacts DEF LimitType
  <2>2. \A b \in Buckets : expires'[b] = Never \/ expires'[b] \in now'+1..now'+Ttl
    <3> SUFFICES ASSUME NEW b \in Buckets, b \notin gone
                 PROVE  expires[b] = Never \/ expires[b] \in now'+1..now'+Ttl
      BY <1>1
    <3>1. expires[b] > now' /\ expires[b] \in Nat
      BY <1>1, LimitFacts
    <3>2. QED
      BY <1>1, <3>1, LimitFacts DEF LimitType
  <2>3. expires' \in [Buckets -> Nat]
    <3>1. Never \in Nat
      BY LimitFacts DEF Never
    <3>2. QED
      BY <1>1, <3>1 DEF LimitType
  <2>4. QED
    BY <1>1, <2>1, <2>2, <2>3 DEF LimitType, Never
<1>4. AnsweredInTime'
  <2> SUFFICES ASSUME NEW r \in InFlight
               PROVE  asked[r].at <= now' /\ now' <= asked[r].at + MaxDelay
    BY <1>1, <1>2 DEF AnsweredInTime
  <2>1. asked[r].at \in Nat /\ asked[r].at <= now /\ now - asked[r].at < MaxDelay
    BY <1>1, LimitFacts DEF InFlight, LimitParts, AnsweredInTime
  <2>2. QED
    BY <1>1, <2>1, LimitFacts
<1>5. NumberFits' /\ NumbersAreDistinct'
  BY <1>1, <1>2 DEF LimitParts, NumberFits, NumbersAreDistinct
<1>6. CountersLast'
  <2>1. ASSUME NEW b \in Buckets PROVE expires'[b] >= b * Minute + Ttl
    <3>1. expires[b] >= b * Minute + Ttl
      BY DEF LimitParts, CountersLast
    <3>2. CASE b \in gone
      <4>1. b * Minute + Ttl <= End
        BY <1>1, <3>1, <3>2, LimitFacts
      <4>2. QED
        BY <1>1, <3>2, <4>1, LimitFacts DEF Never
    <3>3. CASE b \notin gone
      BY <1>1, <3>1, <3>3
    <3>4. QED
      BY <3>2, <3>3
  <2>2. ASSUME NEW r \in ApiRequests, asked[r].n > count'[Mine(r)]
        PROVE  now' >= Mine(r) * Minute + Minute + MaxDelay
    <3> DEFINE b == Mine(r)
    <3>0. b \in Buckets
      BY LimitFacts
    <3>1. CASE b \in gone
      <4>1. expires[b] >= b * Minute + Ttl /\ expires[b] <= now'
        BY <3>0, <3>1 DEF LimitParts, CountersLast
      <4>2. QED
        BY <1>1, <3>0, <4>1, LimitFacts
    <3>2. CASE b \notin gone
      <4>1. now >= b * Minute + Minute + MaxDelay
        BY <1>1, <2>2, <3>0, <3>2 DEF LimitParts, CountersLast
      <4>2. QED
        BY <1>1, <3>0, <4>1, LimitFacts
    <3>3. QED
      BY <3>1, <3>2
  <2>3. QED
    BY <1>1, <1>2, <2>1, <2>2 DEF CountersLast
<1>7. CountsRequests'
  <2>1. \A b \in Buckets : count'[b] \in {0, count[b]}
    BY <1>1
  <2>2. QED
    BY <1>2, <2>1, LimitFacts DEF LimitParts, CountsRequests
<1>8. QED
  BY <1>3, <1>4, <1>5, <1>6, <1>7 DEF LimitParts

\* The requests of a minute that got through have different numbers up to the
\* limit.
LEMMA LimitCaps == LimitType /\ LimitParts => MinuteCap
<1> SUFFICES ASSUME LimitType, LimitParts, NEW b \in Buckets
             PROVE  Cardinality(Admitted(b * Minute, (b + 1) * Minute - 1)) <= Limit
  BY DEF MinuteCap
<1> DEFINE A == Admitted(b * Minute, (b + 1) * Minute - 1)
<1> DEFINE f == [r \in A |-> asked[r].n]
<1>1. \A r \in A : r \in ApiRequests /\ asked[r].n \in 1..Limit /\ Mine(r) = b
  <2> SUFFICES ASSUME NEW r \in A
               PROVE  r \in ApiRequests /\ asked[r].n \in 1..Limit /\ Mine(r) = b
    OBVIOUS
  <2>1. /\ r \in ApiRequests /\ asked[r].pc = "admitted" /\ asked[r].at \in Nat
        /\ b \in Nat /\ b * Minute <= asked[r].at /\ asked[r].at <= (b + 1) * Minute - 1
    BY LimitFacts DEF Admitted
  <2>2. Mine(r) = b
    BY <2>1, SameMinute DEF Mine
  <2>3. QED
    BY <2>1, <2>2 DEF LimitParts, NumberFits
<1>2. f \in Injection(A, 1..Limit)
  <2>1. \A r, q \in A : f[r] = f[q] => r = q
    BY <1>1, LimitFacts DEF LimitParts, NumbersAreDistinct
  <2>2. f \in [A -> 1..Limit]
    BY <1>1
  <2> HIDE DEF f
  <2>3. QED
    BY <2>1, <2>2 DEF Injection, IsInjective
<1>3. IsFiniteSet(1..Limit) /\ Cardinality(1..Limit) = Limit
  <2>1. Limit \in Nat
    BY LimitFacts
  <2>2. QED
    BY <2>1, FS_Interval
<1> HIDE DEF A, f
<1>4. Cardinality(A) <= Cardinality(1..Limit)
  BY <1>2, <1>3, FS_Injection
<1>5. QED
  BY <1>3, <1>4 DEF A

\* A counter without a lifetime is being given one.
LEMMA LifetimeStep ==
  ASSUME LimitType, LimitParts, CountersGoAway, [LimitNext]_limitVars
  PROVE  CountersGoAway'
<1> SUFFICES ASSUME limitFaults' = 0, NEW b \in Buckets, count'[b] > 0
             PROVE  \/ expires'[b] # Never
                    \/ \E r \in ApiRequests : asked'[r].pc = "expire" /\ Mine(r)' = b
  BY DEF CountersGoAway, Never
<1> DEFINE Held == \/ expires[b] # Never
                   \/ \E r \in ApiRequests : asked[r].pc = "expire" /\ Mine(r) = b
<1> DEFINE Goal == \/ expires'[b] # Never
                   \/ \E r \in ApiRequests : asked'[r].pc = "expire" /\ Mine(r)' = b
<1>0. limitFaults \in Nat /\ (limitFaults = 0 /\ count[b] > 0 => Held)
  BY RateLimitAssumption DEF LimitType, CountersGoAway
<1>1. ASSUME NEW r \in ApiRequests, Arrive(r) PROVE Goal
  BY <1>0, <1>1, LimitFacts DEF Arrive, Mine
<1>2. ASSUME NEW r \in ApiRequests, Incr(r) PROVE Goal
  <2>1. limitFaults = 0 /\ ~LimitFault
    BY <1>0, <1>2 DEF Incr, LimitFault
  <2>2. asked[r].pc = "incr" /\ UNCHANGED expires
    BY <1>2 DEF Incr
  <2>3. \A q \in ApiRequests : asked'[q].at = asked[q].at /\ (q # r => asked'[q] = asked[q])
    BY <1>2, LimitFacts DEF Incr
  <2>4. CASE Mine(r) = b /\ count[b] = 0
    <3>1. asked'[r].pc = "expire"
      BY <1>2, <2>1, <2>4, LimitFacts DEF Incr, IsFirst
    <3>2. QED
      BY <2>3, <2>4, <3>1 DEF Mine
  <2>5. CASE ~(Mine(r) = b /\ count[b] = 0)
    <3>1. count[b] > 0
      BY <1>2, <2>5, LimitFacts DEF Incr
    <3>2. Held
      BY <1>0, <2>1, <3>1
    <3>3. QED
      BY <2>2, <2>3, <3>2 DEF Mine
  <2>6. QED
    BY <2>4, <2>5
<1>3. ASSUME NEW r \in ApiRequests, SetLifetime(r) PROVE Goal
  <2>1. limitFaults = 0 /\ ~LimitFault
    BY <1>0, <1>3 DEF SetLifetime, LimitFault
  <2>2. /\ asked[r].pc = "expire" /\ UNCHANGED <<count, now>>
        /\ expires' = [expires EXCEPT ![Mine(r)] = IF count[Mine(r)] = 0 THEN Never ELSE Deadline]
        /\ asked' = [asked EXCEPT ![r].pc = Verdict(asked[r].n)]
    BY <1>3, <2>1 DEF SetLifetime
  <2>3. Held
    BY <1>0, <2>1, <2>2
  <2>4. CASE Mine(r) = b
    <3>1. Deadline # Never
      BY LimitFacts DEF Deadline, Never
    <3>2. expires'[b] \in {expires[b], Deadline}
      BY <2>2, <2>4
    <3>3. QED
      BY <2>2, <2>3, <2>4, <3>1, <3>2 DEF LimitType
  <2>5. CASE Mine(r) # b
    <3>1. expires'[b] = expires[b]
      BY <2>2, <2>5 DEF LimitType
    <3>2. \A q \in ApiRequests : q # r => asked'[q] = asked[q]
      BY <2>2
    <3>3. QED
      BY <2>3, <2>5, <3>1, <3>2 DEF Mine
  <2>6. QED
    BY <2>4, <2>5
<1>4. CASE ClockTick
  <2>1. count[b] > 0 /\ expires'[b] = expires[b] /\ asked' = asked /\ limitFaults = 0
    BY <1>4, LimitFacts DEF ClockTick
  <2>2. Held
    BY <1>0, <2>1
  <2>3. QED
    BY <2>1, <2>2 DEF Mine
<1>5. CASE UNCHANGED limitVars
  BY <1>0, <1>5 DEF limitVars, Mine
<1>6. QED
  BY <1>1, <1>2, <1>3, <1>4, <1>5 DEF LimitNext

\* verify_gateway_api_key of auth.py: within a minute no more requests than the
\* limit get through, and no counter stays in Redis for ever.
THEOREM LimitInvariant == LimitSpec => []LimitInv
<1> DEFINE Core == LimitType /\ LimitParts /\ CountersGoAway
<1>1. LimitInit => Core
  BY LimitInitInv DEF LimitInv
<1>2. Core /\ [LimitNext]_limitVars => Core'
  <2> SUFFICES ASSUME Core, [LimitNext]_limitVars PROVE Core'
    OBVIOUS
  <2>1. CountersGoAway'
    BY LifetimeStep
  <2>2. CASE LimitNext
    BY <2>1, <2>2, ArriveStep, IncrStep, SetLifetimeStep, ClockTickStep DEF LimitNext
  <2>3. CASE UNCHANGED limitVars
    <3>1. LimitType'
      BY <2>3 DEF limitVars, LimitType, Never
    <3>2. InFlight' = InFlight /\ Past' = Past /\ \A r \in ApiRequests : Mine(r)' = Mine(r)
      BY <2>3 DEF limitVars, InFlight, Past, Mine
    <3>3. LimitParts'
      BY <2>3, <3>2 DEF limitVars, LimitParts, AnsweredInTime, NumberFits, CountersLast,
                        NumbersAreDistinct, CountsRequests
    <3>4. QED
      BY <2>1, <3>1, <3>3
  <2>4. QED
    BY <2>2, <2>3
<1>3. Core => LimitInv
  BY LimitCaps DEF LimitInv
<1>4. QED
  BY <1>1, <1>2, <1>3, PTL DEF LimitSpec

-----------------------------------------------------------------------------
\* TradingMode.

\* set_trading_mode of trading_mode.py: what a request answered 200 has left in
\* the two keys agrees, unless another one wrote at the same time. The mode that
\* the only writer has set stands until it has written the second key.
THEOREM ModeInvariant == ModeSpec => []ModeInv
<1> USE TradingModeAssumption DEF ModeType, Unset, ValidModes, NoRequest
<1>1. ModeInit => ModeInv
  <2> SUFFICES ASSUME ModeInit PROVE ModeInv
    OBVIOUS
  <2>1. ModeType
    <3>1. /\ mode \in ValidModes \cup {Unset} /\ stop \in BOOLEAN /\ overlap \in BOOLEAN
          /\ shown \in [mode : ValidModes, stop : BOOLEAN]
      BY DEF ModeInit
    <3>2. /\ last \in {"none", "ok", "error"} /\ intent \in {"none", "under_stop", "free"}
          /\ executed \in [under_stop : 0..MaxIntents, free : 0..MaxIntents]
          /\ modeFaults \in 0..MaxModeFaults
      BY DEF ModeInit
    <3>3. req \in [Operators -> {NoRequest}]
      BY ONLY ModeInit DEF ModeInit
    <3>4. QED
      BY <3>1, <3>2, <3>3
  <2>2. Writing = {}
    BY DEF ModeInit, Writing
  <2>3. SuccessSettles
    BY DEF ModeInit, SuccessSettles
  <2>4. OneWriter
    BY <2>2 DEF ModeInit, OneWriter
  <2>5. QED
    BY <2>1, <2>3, <2>4 DEF ModeInv
<1>2. ModeInv /\ [ModeNext]_modeVars => ModeInv'
  <2> SUFFICES ASSUME ModeInv, [ModeNext]_modeVars PROVE ModeInv'
    OBVIOUS
  <2> USE DEF ModeInv, SuccessSettles, OneWriter, Agree, keyVars, engineVars
  <2>1. ASSUME NEW o \in Operators, Post(o) PROVE ModeInv'
    <3>1. o \in Writing' /\ \A p \in Writing' : p = o \/ p \in Writing
      BY <2>1 DEF Post, Writing
    <3>2. ModeType'
      BY <2>1 DEF Post
    <3>3. SuccessSettles'
      BY <3>1
    <3>4. OneWriter'
      <4>1. executed.under_stop + executed.free + (IF intent = "none" THEN 0 ELSE 1) <= MaxIntents
            /\ UNCHANGED <<executed, intent>>
        BY <2>1 DEF Post
      <4>2. CASE overlap' = TRUE
        BY <4>1, <4>2
      <4>3. CASE Writing = {}
        <5>1. \A p \in Operators : req[p].pc # "key"
          BY <4>3 DEF Writing
        <5>2. \A p \in Operators : req'[p].pc # "key"
          BY <2>1, <5>1 DEF Post
        <5>3. QED
          BY <3>1, <4>1, <4>3, <5>2
      <4>4. QED
        BY <2>1, <4>2, <4>3 DEF Post
    <3>5. QED
      BY <3>2, <3>3, <3>4
  <2>2. ASSUME NEW o \in Operators, SetMode(o) PROVE ModeInv'
    <3>1. o \in Writing /\ Writing' \subseteq Writing /\ (last' = "ok" => o \in Writing')
      BY <2>2 DEF SetMode, Writing, Close
    <3>2. ModeType'
      BY <2>2 DEF SetMode, ModeFault, Close
    <3>3. SuccessSettles'
      BY <3>1
    <3>4. OneWriter'
      BY <2>2, <3>1 DEF SetMode, Close, Writing
    <3>5. QED
      BY <3>2, <3>3, <3>4
  <2>3. ASSUME NEW o \in Operators, SetKey(o) PROVE ModeInv'
    <3>1. o \in Writing /\ Writing' = Writing \ {o}
      BY <2>3 DEF SetKey, Writing, Close
    <3>2. ModeType'
      <4>1. stop' \in BOOLEAN
        BY ONLY <2>3, stop \in BOOLEAN DEF SetKey, KeyAfter
      <4>2. /\ req' = [req EXCEPT ![o] = NoRequest] /\ last' \in {"ok", "error"}
            /\ modeFaults' \in 0..MaxModeFaults /\ intent' \in {intent, "free"}
            /\ UNCHANGED <<mode, overlap, shown, executed>>
        BY <2>3 DEF SetKey, ModeFault, Close
      <4>3. req' \in [Operators -> {NoRequest} \cup [pc : {"mode", "key"}, to : ValidModes]
                                    \cup [pc : {"get"}, to : ValidModes \cup {Unset}]]
        BY <4>2
      <4>4. QED
        BY <4>1, <4>2, <4>3
    <3>3. SuccessSettles'
      BY <2>3 DEF SetKey, Close, KeyAfter, Writing
    <3>4. OneWriter'
      BY <2>3, <3>1 DEF SetKey, Close, Writing
    <3>5. QED
      BY <3>2, <3>3, <3>4
  <2>4. ASSUME NEW o \in Operators, Get(o) \/ Answer(o) PROVE ModeInv'
    <3>1. Writing' = Writing
      BY <2>4 DEF Get, Answer, Writing
    <3>2. ModeType'
      BY <2>4 DEF Get, Answer, Or
    <3>3. OneWriter'
      BY <2>4, <3>1 DEF Get, Answer, Writing
    <3>4. SuccessSettles'
      BY <2>4, <3>1 DEF Get, Answer
    <3>5. QED
      BY <3>2, <3>3, <3>4
  <2>5. CASE Enter \/ Decide
    <3>1. UNCHANGED <<mode, stop, req, overlap, last>>
      BY <2>5 DEF Enter, Decide
    <3>2. ModeType' /\ OneWriter'
      BY <2>5, <3>1 DEF Enter, Decide, Writing
    <3>3. QED
      BY <3>1, <3>2 DEF Writing
  <2>6. CASE UNCHANGED modeVars
    BY <2>6 DEF modeVars, Writing
  <2>7. QED
    BY <2>1, <2>2, <2>3, <2>4, <2>5, <2>6 DEF ModeNext
<1>3. QED
  BY <1>1, <1>2, PTL DEF ModeSpec

-----------------------------------------------------------------------------
\* Credentials.

\* What is decrypted is a whole pair of a run that has written it under this key.
LEMMA DecryptedIsAPair ==
  ASSUME NEW k, CredentialType, RowIsOfARun
  PROVE  \A d \in Decrypted(k) : /\ d \in Pair /\ d.apiKey = d.apiSecret
                                 /\ d.apiKey \in written /\ keyOf[d.apiKey] = k
BY DEF Decrypted, Pair, CredentialType, RowIsOfARun

\* The manager and the deletions touch no run of a script.
LEMMA ManagerStep ==
  ASSUME CredentialInv, StartManager \/ LookOnce \/ LookAgain \/ Redeploy
  PROVE  CredentialInv'
<1> USE CredentialAssumption DEF CredentialInv
<1>1. UNCHANGED <<runVars, tableVars, deletions>> /\ storeFaults' \in 0..MaxStoreFaults
      /\ (storeFaults' = 0 => storeFaults = 0)
  BY DEF StartManager, LookOnce, LookAgain, Redeploy, StoreFault, CredentialType
<1>2. CredentialType'
  <2>1. first' \subseteq Pair /\ listener' \subseteq Pair
    BY DecryptedIsAPair
       DEF StartManager, LookOnce, LookAgain, Redeploy, Halves, CredentialType
  <2>2. /\ manager' \in {"off", "looking", "reading", "running", "failed"}
        /\ serviceKey' \in EncryptionKeys \cup {Invalid} /\ restarts' \in 0..MaxRestarts
    BY DEF StartManager, LookOnce, LookAgain, Redeploy, CredentialType
  <2>3. QED
    BY <1>1, <2>1, <2>2 DEF CredentialType, runVars, tableVars
<1>3. ListenerHasAPair'
  <2>1. CASE LookAgain
    BY <2>1, <1>1, DecryptedIsAPair
       DEF LookAgain, Halves, ListenerHasAPair, runVars, tableVars
  <2>2. CASE StartManager \/ LookOnce \/ Redeploy
    BY <2>2, <1>1 DEF StartManager, LookOnce, Redeploy, ListenerHasAPair, runVars, tableVars
  <2>3. QED
    BY <2>1, <2>2
<1>4. ExitCodesTell' /\ StoredIsReported' /\ RowIsOfARun' /\ WrittenWhenSaved'
  BY <1>1 DEF ExitCodesTell, StoredIsReported, RowIsOfARun, WrittenWhenSaved, runVars, tableVars
<1>5. QED
  BY <1>2, <1>3, <1>4

\* A run that reads back another pair than its own has been overtaken: its own
\* would be the row.
LEMMA RunStep ==
  ASSUME CredentialInv, NEW p \in Savers,
         FindAccount(p) \/ SelectRow(p) \/ Save(p) \/ Verify(p)
  PROVE  CredentialType' /\ ListenerHasAPair' /\ ExitCodesTell' /\ RowIsOfARun' /\ WrittenWhenSaved'
<1> DEFINE Goal == /\ CredentialType' /\ ListenerHasAPair' /\ ExitCodesTell'
                   /\ RowIsOfARun' /\ WrittenWhenSaved'
<1> USE CredentialAssumption DEF CredentialInv
<1>0. /\ UNCHANGED <<account, keyOf, verify, managerVars, deletions>>
      /\ \A q \in Savers : q # p => stage'[q] = stage[q]
      /\ stage \in [Savers -> Ends \cup {"started", "saving", "found", "verifying"}]
      /\ storeFaults' \in 0..MaxStoreFaults /\ (storeFaults' = 0 => storeFaults = 0)
  BY DEF FindAccount, SelectRow, Save, Verify, StoreFault, CredentialType, Reach
<1>1. CASE FindAccount(p) \/ SelectRow(p)
  <2>1. /\ UNCHANGED tableVars
        /\ \E s \in {"not_found", "misconfigured", "saving", "traceback", "found", "save_failed"} :
             /\ stage' = [stage EXCEPT ![p] = s]
             /\ s \in {"saving", "found"} => keyOf[p] # Invalid
             /\ s \in {"traceback", "save_failed"} => storeFaults' > 0
    BY <1>1, <1>0 DEF FindAccount, SelectRow, Reach, StoreFault, CredentialType, WrittenWhenSaved
  <2>2. stage[p] \in {"started", "saving"}
    BY <1>1 DEF FindAccount, SelectRow
  <2>3. p \notin written
    BY <2>2 DEF WrittenWhenSaved, Ends
  <2>4. CredentialType'
    <3>1. known' \in [Savers -> 0..ids']
      <4>1. \A r \in row : r.id \in 0..ids
        BY DEF CredentialType
      <4>2. CASE row = {}
        BY <1>1, <2>1, <4>2 DEF FindAccount, SelectRow, CredentialType, tableVars
      <4>3. CASE row # {}
        <5>1. (CHOOSE r \in row : TRUE) \in row
          BY <4>3
        <5>2. QED
          BY <1>1, <2>1, <4>1, <4>3, <5>1 DEF FindAccount, SelectRow, CredentialType, tableVars
      <4>4. QED
        BY <4>2, <4>3
    <3>2. stage' \in [Savers -> Ends \cup {"started", "saving", "found", "verifying"}]
      BY <1>0, <2>1 DEF Ends
    <3>3. QED
      BY <1>0, <2>1, <3>1, <3>2 DEF CredentialType, tableVars, managerVars
  <2>5. ListenerHasAPair' /\ RowIsOfARun'
    BY <1>0, <2>1, <2>3 DEF ListenerHasAPair, RowIsOfARun, tableVars, managerVars
  <2>6. ExitCodesTell'
    BY <1>0, <2>1, <2>3 DEF ExitCodesTell, tableVars
  <2>7. WrittenWhenSaved'
    BY <1>0, <2>1, <2>3 DEF WrittenWhenSaved, tableVars, Ends
  <2>8. QED
    BY <2>4, <2>5, <2>6, <2>7
<1>2. CASE Save(p)
  <2>1. /\ stage[p] = "found" /\ p \notin written /\ keyOf[p] \in EncryptionKeys
    BY <1>2 DEF Save, WrittenWhenSaved, Ends, CredentialType
  <2>2. UNCHANGED known /\ known[p] \in 0..ids
    BY <1>2 DEF Save, CredentialType
  <2>3. CASE /\ Storable(p) /\ Put(p)
             /\ \/ Reach(p, IF p \in verify THEN "verifying" ELSE "saved")
                \/ Reach(p, "save_failed") /\ storeFaults' > 0
    <3>1. \E id \in 1..ids' : row' = {Encrypted(p, id)}
      BY <2>2, <2>3, CredentialAssumption DEF Put, CredentialType
    <3>2. written' = written \cup {p} /\ ids' \in Nat /\ ids' >= ids
      BY <2>2, <2>3, CredentialAssumption DEF Put, CredentialType
    <3>3. \E s \in {"verifying", "saved", "save_failed"} :
            stage' = [stage EXCEPT ![p] = s] /\ (s = "save_failed" => storeFaults' > 0)
      BY <2>3 DEF Reach
    <3>4. CredentialType'
      <4>1. row' \subseteq [id : 1..ids', apiKey : Savers, apiSecret : Savers, by : EncryptionKeys]
            /\ \A r, s \in row' : r = s
        BY <1>0, <2>1, <3>1 DEF Encrypted
      <4>2. known' \in [Savers -> 0..ids']
        BY <2>2, <3>2 DEF CredentialType
      <4>3. stage' \in [Savers -> Ends \cup {"started", "saving", "found", "verifying"}]
        BY <1>0, <3>3 DEF Ends
      <4>4. QED
        BY <1>0, <3>2, <4>1, <4>2, <4>3 DEF CredentialType, managerVars
    <3>5. ListenerHasAPair'
      BY <1>0, <3>2 DEF ListenerHasAPair, managerVars
    <3>6. RowIsOfARun'
      <4>1. PICK id \in 1..ids' : row' = {Encrypted(p, id)}
        BY <3>1
      <4>2. \A r \in row' : r.apiKey = p /\ r.apiSecret = p /\ r.by = keyOf[p]
        BY <4>1 DEF Encrypted
      <4>3. stage'[p] # "verify_failed" /\ row' # {}
        BY <1>0, <3>3, <4>1
      <4>4. QED
        BY <1>0, <3>2, <4>2, <4>3 DEF RowIsOfARun
    <3>7. ExitCodesTell'
      BY <1>0, <2>1, <3>2, <3>3 DEF ExitCodesTell
    <3>8. WrittenWhenSaved'
      BY <1>0, <2>1, <3>2, <3>3 DEF WrittenWhenSaved, Ends
    <3>9. QED
      BY <3>4, <3>5, <3>6, <3>7, <3>8
  <2>4. CASE Reach(p, "save_failed") /\ UNCHANGED tableVars
    <3>1. stage' = [stage EXCEPT ![p] = "save_failed"]
      BY <2>4 DEF Reach
    <3>2. CredentialType'
      BY <1>0, <2>2, <2>4, <3>1 DEF CredentialType, tableVars, managerVars, Ends
    <3>3. ListenerHasAPair' /\ RowIsOfARun'
      BY <1>0, <2>1, <2>4, <3>1 DEF ListenerHasAPair, RowIsOfARun, tableVars, managerVars
    <3>4. ExitCodesTell'
      BY <1>0, <2>1, <2>4, <3>1 DEF ExitCodesTell, tableVars
    <3>5. WrittenWhenSaved'
      BY <1>0, <2>1, <2>4, <3>1 DEF WrittenWhenSaved, tableVars, Ends
    <3>6. QED
      BY <3>2, <3>3, <3>4, <3>5
  <2>5. QED
    BY <1>2, <2>3, <2>4, <1>0 DEF Save, StoreFault, CredentialType
<1>3. CASE Verify(p)
  <2>1. /\ stage[p] = "verifying" /\ p \in written /\ keyOf[p] # Invalid
        /\ UNCHANGED <<known, tableVars>>
    BY <1>3 DEF Verify, WrittenWhenSaved
  <2>2. \E s \in {"verified", "verify_failed", "traceback"} :
          /\ stage' = [stage EXCEPT ![p] = s]
          /\ s = "traceback" => storeFaults' > 0
          /\ s = "verify_failed" => Decrypted(keyOf[p]) # {[apiKey |-> p, apiSecret |-> p]}
    BY <1>0, <1>3 DEF Verify, Reach, StoreFault, CredentialType
  <2>3. ASSUME NEW r \in row, r.apiKey = p
        PROVE  Decrypted(keyOf[p]) = {[apiKey |-> p, apiSecret |-> p]}
    <3>1. row = {r} /\ r.apiSecret = p /\ r.by = keyOf[p]
      BY <2>3 DEF CredentialType, RowIsOfARun
    <3>2. QED
      BY <2>3, <3>1 DEF Decrypted
  <2>4. CredentialType'
    BY <1>0, <2>1, <2>2 DEF CredentialType, tableVars, managerVars, Ends
  <2>5. ListenerHasAPair'
    BY <1>0, <2>1 DEF ListenerHasAPair, tableVars, managerVars
  <2>6. RowIsOfARun'
    BY <1>0, <2>1, <2>2, <2>3 DEF RowIsOfARun, tableVars
  <2>7. ExitCodesTell'
    <3>1. Decrypted(keyOf[p]) # {[apiKey |-> p, apiSecret |-> p]}
            => written # {p} \/ deletions > 0
      BY <2>1, <2>3 DEF RowIsOfARun, CredentialType
    <3>2. QED
      BY <1>0, <2>1, <2>2, <3>1 DEF ExitCodesTell, tableVars
  <2>8. WrittenWhenSaved'
    BY <1>0, <2>1, <2>2 DEF WrittenWhenSaved, tableVars, Ends
  <2>9. QED
    BY <2>4, <2>5, <2>6, <2>7, <2>8
<1>4. QED
  BY <1>1, <1>2, <1>3

\* CredentialStore, the scripts and AccountStreamManager: however they overlap,
\* a listener gets a whole pair under its own encryption key, and the exit code
\* of a run tells what has become of its pair.
THEOREM CredentialInvariant == CredentialSpec => []CredentialInv
<1> DEFINE Core == /\ CredentialType /\ ListenerHasAPair /\ ExitCodesTell
                   /\ RowIsOfARun /\ WrittenWhenSaved
<1>1. Core => CredentialInv
  <2> SUFFICES ASSUME Core PROVE StoredIsReported
    BY DEF CredentialInv
  <2> SUFFICES ASSUME storeFaults = 0, \A p \in Savers : stage[p] \in Ends, NEW r \in row
               PROVE  stage[r.apiKey] \in {"verified", "saved"}
    BY DEF StoredIsReported
  <2>1. r.apiKey \in Savers /\ r.apiKey \in written /\ stage[r.apiKey] # "verify_failed"
    BY DEF CredentialType, RowIsOfARun
  <2>2. QED
    BY <2>1 DEF Ends, ExitCodesTell, WrittenWhenSaved
<1>2. CredentialInit => Core
  BY CredentialAssumption
     DEF CredentialInit, CredentialType, ListenerHasAPair, ExitCodesTell, RowIsOfARun,
         WrittenWhenSaved, Ends
<1>3. CredentialInv /\ [CredentialNext]_credentialVars => Core'
  <2> SUFFICES ASSUME CredentialInv, [CredentialNext]_credentialVars PROVE Core'
    OBVIOUS
  <2>1. CASE Delete
    BY <2>1, CredentialAssumption
       DEF Delete, CredentialInv, CredentialType, ListenerHasAPair, ExitCodesTell, RowIsOfARun,
           WrittenWhenSaved, runVars, managerVars
  <2>2. CASE UNCHANGED credentialVars
    BY <2>2 DEF credentialVars, runVars, tableVars, managerVars, CredentialInv, CredentialType,
                ListenerHasAPair, ExitCodesTell, RowIsOfARun, WrittenWhenSaved
  <2>3. QED
    BY <2>1, <2>2, RunStep, ManagerStep DEF CredentialNext, CredentialInv
<1>4. CredentialInit => CredentialInv
  BY <1>1, <1>2
<1>5. CredentialInv /\ [CredentialNext]_credentialVars => CredentialInv'
  BY <1>1, <1>3, PTL
<1>6. QED
  BY <1>4, <1>5, PTL DEF CredentialSpec
=============================================================================
