---------------------- MODULE ExecutionConsumer_proofs ----------------------
(***************************************************************************)
(* Theorems about ExecutionConsumer for any number of instances, intents,  *)
(* entries, batch size and faults.                                         *)
(***************************************************************************)
EXTENDS ExecutionConsumer, TLAPS

\* The initial state satisfies the strengthening.
LEMMA InitInv == Init => ConsumerInv
<1> SUFFICES ASSUME Init PROVE ConsumerInv
  OBVIOUS
<1> USE ConsumerConstants DEF Init
<1>1. TypeOK
  BY DEF TypeOK, TypeGroup, TypeRedis, TypeDb, TypeLocal, TypeEvents, TypeFaults,
         TypeHistory, AccountControls, Jobs, Entries, Phases, Stages
<1>2. InHand /\ Parsed /\ Writable
  BY DEF InHand, Parsed, Writable
<1>3. LockCovers
  BY DEF LockCovers, Admitted, Executed
<1>4. LateAtMostOnce
  BY DEF LateAtMostOnce
<1>5. TablesFollow
  BY DEF TablesFollow, OwnEntries, RowsBehind, RowFollows, OrderFollows, CooldownSeen, At,
         BeforeVerdict, BeforeAnswer, BeforeAcknowledged, BeforeFilled, PastCooldown
<1>6. QED
  BY <1>1, <1>2, <1>3, <1>4, <1>5 DEF ConsumerInv

\* A busy worker's entry names a published entry and a job.
LEMMA EntryInHand ==
  ASSUME TypeOK, InHand, NEW w \in Workers, phase[w] # "idle"
  PROVE  entry[w] \in Jobs /\ entry[w] \in 1..Len(stream) /\ entry[w] \in 1..cursor
BY ConsumerConstants DEF TypeOK, TypeGroup, TypeLocal, InHand, Jobs, Entries

\* Every action preserves the type invariant.
LEMMA TypeStep == TypeOK /\ InHand /\ Parsed /\ Writable /\ Next => TypeOK'
<1> SUFFICES ASSUME TypeOK, InHand, Parsed, Writable, Next PROVE TypeOK'
  OBVIOUS
<1>0. /\ TypeGroup /\ TypeRedis /\ TypeDb /\ TypeLocal
      /\ TypeEvents /\ TypeFaults /\ TypeHistory
  BY DEF TypeOK
<1> USE <1>0, ConsumerConstants, EntryInHand
<1>1. CASE PublishIntent
  <2> USE <1>1 DEF PublishIntent
  <2>1. TypeGroup'
    BY DEF TypeGroup, group
  <2>2. TypeRedis' /\ TypeDb' /\ TypeLocal' /\ TypeEvents' /\ TypeFaults' /\ TypeHistory'
    BY DEF TypeRedis, redis, TypeDb, db, TypeLocal, local, TypeEvents, TypeFaults, NoFault,
       TypeHistory, history
  <2>3. QED
    BY <2>1, <2>2 DEF TypeOK
<1>2. CASE ExpireLock
  <2> USE <1>2 DEF ExpireLock
  <2>1. TypeRedis'
    BY DEF TypeRedis, redis
  <2>2. TypeHistory'
    BY DEF TypeHistory, history
  <2>3. TypeGroup' /\ TypeDb' /\ TypeLocal' /\ TypeEvents' /\ TypeFaults'
    BY DEF TypeGroup, group, TypeDb, db, TypeLocal, local, TypeEvents, TypeFaults, NoFault
  <2>4. QED
    BY <2>1, <2>2, <2>3 DEF TypeOK
<1>3. CASE ExpireCooldown
  <2> USE <1>3 DEF ExpireCooldown
  <2>1. TypeRedis'
    BY DEF TypeRedis, redis
  <2>2. TypeGroup' /\ TypeDb' /\ TypeLocal' /\ TypeEvents' /\ TypeFaults' /\ TypeHistory'
    BY DEF TypeGroup, group, TypeDb, db, TypeLocal, local, TypeEvents, TypeFaults, NoFault,
       TypeHistory, history
  <2>3. QED
    BY <2>1, <2>2 DEF TypeOK
<1>4. CASE SetControl
  <2> USE <1>4 DEF SetControl
  <2>1. TypeRedis'
    BY DEF TypeRedis, redis
  <2>2. TypeHistory'
    BY DEF TypeHistory, history
  <2>3. TypeGroup' /\ TypeDb' /\ TypeLocal' /\ TypeEvents' /\ TypeFaults'
    BY DEF TypeGroup, group, TypeDb, db, TypeLocal, local, TypeEvents, TypeFaults, NoFault
  <2>4. QED
    BY <2>1, <2>2, <2>3 DEF TypeOK
<1>5. CASE ClearControl
  <2> USE <1>5 DEF ClearControl
  <2>1. TypeRedis'
    BY DEF TypeRedis, redis
  <2>2. TypeGroup' /\ TypeDb' /\ TypeLocal' /\ TypeEvents' /\ TypeFaults' /\ TypeHistory'
    BY DEF TypeGroup, group, TypeDb, db, TypeLocal, local, TypeEvents, TypeFaults, NoFault,
       TypeHistory, history
  <2>3. QED
    BY <2>1, <2>2 DEF TypeOK
<1>6. CASE PauseSymbol
  <2> USE <1>6 DEF PauseSymbol
  <2>1. TypeRedis'
    BY DEF TypeRedis, redis
  <2>2. TypeGroup' /\ TypeDb' /\ TypeLocal' /\ TypeEvents' /\ TypeFaults' /\ TypeHistory'
    BY DEF TypeGroup, group, TypeDb, db, TypeLocal, local, TypeEvents, TypeFaults, NoFault,
       TypeHistory, history
  <2>3. QED
    BY <2>1, <2>2 DEF TypeOK
<1>7. ASSUME NEW w \in Workers, Step(w) PROVE TypeOK'
  <2>1. CASE Tick(w)
    <3> USE <2>1 DEF Tick
    <3> DEFINE n == IF cursor + BatchSize <= Len(stream)
                    THEN cursor + BatchSize ELSE Len(stream)
    <3>0. cursor \in Nat /\ Len(stream) \in Nat /\ n \in cursor..Len(stream)
      BY DEF TypeGroup
    <3>a. pel' \subseteq 1..n
      <4>1. pel' = pel \cup (cursor+1..n) /\ pel \subseteq 1..cursor
        BY DEF TypeGroup, Delivered
      <4> HIDE DEF n, Tick
      <4>2. QED
        BY ONLY <3>0, <4>1
    <3>1. TypeGroup'
      BY <3>0, <3>a DEF TypeGroup
    <3>2. TypeLocal'
      BY <3>0 DEF TypeLocal, local, Phases, Goto
    <3>3. TypeRedis' /\ TypeDb' /\ TypeEvents' /\ TypeFaults' /\ TypeHistory'
      BY DEF TypeRedis, redis, TypeDb, db, TypeEvents, TypeFaults, NoFault, TypeHistory,
         history
    <3>4. QED
      BY <3>1, <3>2, <3>3 DEF TypeOK
  <2>2. CASE SkipMalformed(w)
    <3> USE <2>2 DEF SkipMalformed
    <3>1. TypeLocal'
      BY DEF TypeLocal, local, Phases, Stages, Goto, GotoStage
    <3>2. TypeGroup' /\ TypeRedis' /\ TypeDb' /\ TypeEvents' /\ TypeFaults' /\ TypeHistory'
      BY DEF TypeGroup, group, TypeRedis, redis, TypeDb, db, TypeEvents, TypeFaults,
         NoFault, TypeHistory, history
    <3>3. QED
      BY <3>1, <3>2 DEF TypeOK
  <2>3. CASE Acquire(w)
    <3> USE <2>3 DEF Acquire
    <3>1. TypeRedis'
      BY DEF TypeRedis, redis
    <3>2. TypeLocal'
      BY DEF TypeLocal, local, Phases, Stages, Goto, GotoStage
    <3>3. TypeGroup' /\ TypeDb' /\ TypeEvents' /\ TypeFaults' /\ TypeHistory'
      BY DEF TypeGroup, group, TypeDb, db, TypeEvents, TypeFaults, NoFault, TypeHistory,
         history
    <3>4. QED
      BY <3>1, <3>2, <3>3 DEF TypeOK
  <2>4. CASE CreateJob(w)
    <3> USE <2>4 DEF CreateJob
    <3>1. TypeDb'
      BY DEF TypeDb, db, LC!JobStates
    <3>2. TypeLocal'
      BY DEF TypeLocal, local, Phases, Stages, Goto, GotoStage
    <3>3. TypeFaults'
      BY DEF TypeFaults, Fault, NoFault
    <3>4. TypeGroup' /\ TypeRedis' /\ TypeEvents' /\ TypeHistory'
      BY DEF TypeGroup, group, TypeRedis, redis, TypeEvents, TypeHistory, history
    <3>5. QED
      BY <3>1, <3>2, <3>3, <3>4 DEF TypeOK
  <2>5. CASE CheckGate(w)
    <3> USE <2>5 DEF CheckGate
    <3>1. gate[w] \in 1..5
      BY DEF TypeLocal
    <3>2. gate' \in [Workers -> 1..5]
      <4>1. CASE gate' = [gate EXCEPT ![w] = 1]
        BY <4>1 DEF TypeLocal
      <4>2. CASE gate[w] < 5 /\ gate' = [gate EXCEPT ![w] = gate[w] + 1]
        <5>1. gate[w] + 1 \in 1..5
          BY <3>1, <4>2
        <5>2. QED
          BY <4>2, <5>1 DEF TypeLocal
      <4>3. QED
        BY <4>1, <4>2
    <3>3. phase' \in [Workers -> Phases] /\ stage' \in [Workers -> Stages]
      BY DEF TypeLocal, Phases, Stages, Goto, GotoStage
    <3>4. TypeLocal'
      BY <3>2, <3>3 DEF TypeLocal
    <3>5. TypeGroup' /\ TypeRedis' /\ TypeDb' /\ TypeEvents' /\ TypeFaults' /\ TypeHistory'
      BY DEF TypeGroup, group, TypeRedis, redis, TypeDb, db, TypeEvents, TypeFaults,
         NoFault, TypeHistory, history
    <3>6. QED
      BY <3>4, <3>5 DEF TypeOK
  <2>6. CASE GateError(w)
    <3> USE <2>6 DEF GateError
    <3>1. TypeLocal'
      BY DEF TypeLocal, local, Phases, Stages, Goto, GotoStage
    <3>2. TypeFaults'
      BY DEF TypeFaults, Fault, NoFault
    <3>3. TypeGroup' /\ TypeRedis' /\ TypeDb' /\ TypeEvents' /\ TypeHistory'
      BY DEF TypeGroup, group, TypeRedis, redis, TypeDb, db, TypeEvents, TypeHistory, history
    <3>4. QED
      BY <3>1, <3>2, <3>3 DEF TypeOK
  <2>7. CASE CheckLimits(w)
    <3> USE <2>7 DEF CheckLimits
    <3>1. TypeLocal'
      BY DEF TypeLocal, local, Phases, Stages, Goto, GotoStage
    <3>2. TypeGroup' /\ TypeRedis' /\ TypeDb' /\ TypeEvents' /\ TypeFaults' /\ TypeHistory'
      BY DEF TypeGroup, group, TypeRedis, redis, TypeDb, db, TypeEvents, TypeFaults,
         NoFault, TypeHistory, history
    <3>3. QED
      BY <3>1, <3>2 DEF TypeOK
  <2>8. CASE Persist(w)
    <3> USE <2>8 DEF Persist
    <3>1. TypeDb'
      BY DEF TypeDb, db, Writable
    <3>2. TypeLocal'
      BY DEF TypeLocal, local, Phases, Stages, Goto, GotoStage
    <3>3. TypeFaults'
      BY DEF TypeFaults, Fault, NoFault
    <3>4. TypeGroup' /\ TypeRedis' /\ TypeEvents' /\ TypeHistory'
      BY DEF TypeGroup, group, TypeRedis, redis, TypeEvents, TypeHistory, history
    <3>5. QED
      BY <3>1, <3>2, <3>3, <3>4 DEF TypeOK
  <2>9. CASE Publish(w)
    <3> USE <2>9 DEF Publish
    <3>1. TypeEvents'
      BY DEF TypeEvents, StatusOf, Stages, TypeLocal
    <3>2. TypeLocal'
      BY DEF TypeLocal, local, Phases, Stages, Goto, GotoStage, AfterPublish
    <3>3. TypeGroup' /\ TypeRedis' /\ TypeDb' /\ TypeFaults' /\ TypeHistory'
      BY DEF TypeGroup, group, TypeRedis, redis, TypeDb, db, TypeFaults, NoFault,
         TypeHistory, history
    <3>4. QED
      BY <3>1, <3>2, <3>3 DEF TypeOK
  <2>10. CASE Submit(w)
    <3> USE <2>10 DEF Submit
    <3>1. TypeLocal'
      BY DEF TypeLocal, local, Phases, Stages, Goto, GotoStage
    <3>2. TypeFaults'
      BY DEF TypeFaults, Fault, NoFault
    <3>3. TypeHistory'
      BY DEF TypeHistory, history
    <3>4. TypeGroup' /\ TypeRedis' /\ TypeDb' /\ TypeEvents'
      BY DEF TypeGroup, group, TypeRedis, redis, TypeDb, db, TypeEvents
    <3>5. QED
      BY <3>1, <3>2, <3>3, <3>4 DEF TypeOK
  <2>11. CASE CreateOrder(w)
    <3> USE <2>11 DEF CreateOrder
    <3>1. TypeDb'
      BY DEF TypeDb, db
    <3>2. TypeLocal'
      BY DEF TypeLocal, local, Phases, Stages, Goto, GotoStage
    <3>3. TypeFaults'
      BY DEF TypeFaults, Fault, NoFault
    <3>4. TypeGroup' /\ TypeRedis' /\ TypeEvents' /\ TypeHistory'
      BY DEF TypeGroup, group, TypeRedis, redis, TypeEvents, TypeHistory, history
    <3>5. QED
      BY <3>1, <3>2, <3>3, <3>4 DEF TypeOK
  <2>12. CASE SaveFill(w)
    <3> USE <2>12 DEF SaveFill
    <3>1. TypeDb'
      BY DEF TypeDb, db
    <3>2. TypeLocal'
      BY DEF TypeLocal, local, Phases, Stages, Goto, GotoStage
    <3>3. TypeFaults'
      BY DEF TypeFaults, Fault, NoFault
    <3>4. TypeGroup' /\ TypeRedis' /\ TypeEvents' /\ TypeHistory'
      BY DEF TypeGroup, group, TypeRedis, redis, TypeEvents, TypeHistory, history
    <3>5. QED
      BY <3>1, <3>2, <3>3, <3>4 DEF TypeOK
  <2>13. CASE SetCooldown(w)
    <3> USE <2>13 DEF SetCooldown
    <3>1. TypeRedis'
      BY DEF TypeRedis, redis, SymbolAt, Parsed
    <3>2. TypeLocal'
      BY DEF TypeLocal, local, Phases, Stages, Goto, GotoStage
    <3>3. TypeGroup' /\ TypeDb' /\ TypeEvents' /\ TypeFaults' /\ TypeHistory'
      BY DEF TypeGroup, group, TypeDb, db, TypeEvents, TypeFaults, NoFault, TypeHistory,
         history
    <3>4. QED
      BY <3>1, <3>2, <3>3 DEF TypeOK
  <2>14. CASE LogIncident(w)
    <3> USE <2>14 DEF LogIncident
    <3>1. TypeDb'
      BY DEF TypeDb, db
    <3>2. TypeLocal'
      BY DEF TypeLocal, local, Phases, Stages, Goto, GotoStage
    <3>3. TypeFaults'
      BY DEF TypeFaults, Fault, NoFault
    <3>4. TypeGroup' /\ TypeRedis' /\ TypeEvents' /\ TypeHistory'
      BY DEF TypeGroup, group, TypeRedis, redis, TypeEvents, TypeHistory, history
    <3>5. QED
      BY <3>1, <3>2, <3>3, <3>4 DEF TypeOK
  <2>15. CASE Ack(w)
    <3> USE <2>15 DEF Ack
    <3>1. TypeGroup'
      BY DEF TypeGroup, group
    <3>a. entry[w] + 1 \in Nat
      BY DEF TypeLocal
    <3>b. entry' \in [Workers -> Nat] /\ phase' \in [Workers -> Phases]
      BY <3>a DEF Advance, Goto, TypeLocal, Phases
    <3>2. TypeLocal'
      BY <3>b DEF TypeLocal
    <3>3. TypeFaults'
      BY DEF TypeFaults, Fault, NoFault
    <3>4. TypeRedis' /\ TypeDb' /\ TypeEvents' /\ TypeHistory'
      BY DEF TypeRedis, redis, TypeDb, db, TypeEvents, TypeHistory, history
    <3>5. QED
      BY <3>1, <3>2, <3>3, <3>4 DEF TypeOK
  <2>16. CASE Abandon(w)
    <3> USE <2>16 DEF Abandon
    <3>1. TypeLocal'
      BY DEF TypeLocal, local, Phases, Stages, Goto, GotoStage
    <3>2. TypeFaults'
      BY DEF TypeFaults, Fault, NoFault
    <3>3. TypeGroup' /\ TypeRedis' /\ TypeDb' /\ TypeEvents' /\ TypeHistory'
      BY DEF TypeGroup, group, TypeRedis, redis, TypeDb, db, TypeEvents, TypeHistory, history
    <3>4. QED
      BY <3>1, <3>2, <3>3 DEF TypeOK
  <2>17. QED
    BY <1>7, <2>1, <2>2, <2>3, <2>4, <2>5, <2>6, <2>7, <2>8, <2>9, <2>10,
       <2>11, <2>12, <2>13, <2>14, <2>15, <2>16 DEF Step
<1>8. QED
  BY <1>1, <1>2, <1>3, <1>4, <1>5, <1>6, <1>7 DEF Next, Environment

\* A step of one worker leaves the local state of the others alone, and does
\* not touch the stream.
LEMMA Frame ==
  ASSUME TypeOK, NEW w \in Workers, Step(w)
  PROVE  /\ stream' = stream
         /\ \A v \in Workers \ {w} :
              /\ phase'[v] = phase[v] /\ entry'[v] = entry[v] /\ last'[v] = last[v]
              /\ gate'[v] = gate[v] /\ stage'[v] = stage[v]
<1> USE DEF TypeOK, TypeLocal, group, local, Goto, GotoStage
<1>1. CASE Tick(w)
  BY <1>1 DEF Tick
<1>2. CASE SkipMalformed(w)
  BY <1>2 DEF SkipMalformed
<1>3. CASE Acquire(w)
  BY <1>3 DEF Acquire
<1>4. CASE CreateJob(w)
  BY <1>4 DEF CreateJob
<1>5. CASE CheckGate(w)
  BY <1>5 DEF CheckGate
<1>6. CASE GateError(w)
  BY <1>6 DEF GateError
<1>7. CASE CheckLimits(w)
  BY <1>7 DEF CheckLimits
<1>8. CASE Persist(w)
  BY <1>8 DEF Persist
<1>9. CASE Publish(w)
  BY <1>9 DEF Publish
<1>10. CASE Submit(w)
  BY <1>10 DEF Submit
<1>11. CASE CreateOrder(w)
  BY <1>11 DEF CreateOrder
<1>12. CASE SaveFill(w)
  BY <1>12 DEF SaveFill
<1>13. CASE SetCooldown(w)
  BY <1>13 DEF SetCooldown
<1>14. CASE LogIncident(w)
  BY <1>14 DEF LogIncident
<1>15. CASE Ack(w)
  BY <1>15 DEF Ack, Advance
<1>16. CASE Abandon(w)
  BY <1>16 DEF Abandon
<1>17. QED
  BY <1>1, <1>2, <1>3, <1>4, <1>5, <1>6, <1>7, <1>8, <1>9, <1>10, <1>11, <1>12, <1>13,
     <1>14, <1>15, <1>16 DEF Step

\* A worker's entry stays inside its batch, and keeps carrying an intent; what
\* it persists is a job status.
LEMMA HandStep ==
  TypeOK /\ InHand /\ Parsed /\ Writable /\ Next => InHand' /\ Parsed' /\ Writable'
<1> SUFFICES ASSUME TypeOK, InHand, Parsed, Writable, Next
             PROVE  InHand' /\ Parsed' /\ Writable'
  OBVIOUS
<1> DEFINE Good(w) ==
      /\ phase[w] # "idle" => entry[w] \in 1..last[w] /\ last[w] <= cursor
      /\ phase[w] \notin {"idle", "acquire", "ack"} => IntentOf(w) \in Intents
      /\ phase[w] = "persist" => StatusOf(stage[w]) \in LC!JobStates \ {"queued"}
<1>1. \A w \in Workers : Good(w)
  BY DEF InHand, Parsed, Writable
<1>2. \A w \in Workers : Good(w)'
  <2>1. CASE PublishIntent
    <3>1. ASSUME NEW w \in Workers, phase[w] # "idle"
          PROVE  stream'[entry[w]] = stream[entry[w]]
      BY <2>1, <3>1, EntryInHand DEF PublishIntent, TypeOK, TypeGroup
    <3>2. QED
      BY <2>1, <3>1, <1>1 DEF PublishIntent, local, IntentOf
  <2>2. CASE ExpireLock \/ ExpireCooldown \/ SetControl \/ ClearControl \/ PauseSymbol
    BY <2>2, <1>1 DEF ExpireLock, ExpireCooldown, SetControl, ClearControl,
                      PauseSymbol, group, local, IntentOf
  <2>3. ASSUME NEW w \in Workers, Step(w) PROVE \A v \in Workers : Good(v)'
    <3>0. cursor \in Nat /\ cursor' \in Nat /\ cursor <= cursor'
      <4>1. CASE Tick(w)
        BY <4>1, ConsumerConstants DEF Tick, TypeOK, TypeGroup
      <4>2. CASE ~Tick(w)
        BY <4>2, <2>3 DEF Step, SkipMalformed, Acquire, CreateJob, CheckGate,
           GateError, CheckLimits, Persist, Publish, Submit, CreateOrder,
           SaveFill, SetCooldown, LogIncident, Ack, Abandon, group, TypeOK, TypeGroup
      <4>3. QED
        BY <4>1, <4>2
    <3>1. ASSUME NEW v \in Workers \ {w} PROVE Good(v)'
      BY <3>0, <2>3, <1>1, Frame DEF TypeOK, TypeLocal, IntentOf
    <3>2. Good(w)'
      <4> USE <1>1 DEF TypeOK, TypeLocal, IntentOf, Goto, GotoStage
      <4>1. CASE Tick(w)
        BY <4>1, ConsumerConstants DEF Tick, TypeGroup
      <4>2. CASE SkipMalformed(w)
        BY <4>2 DEF SkipMalformed, group
      <4>3. CASE Acquire(w)
        BY <4>3, EntryInHand DEF Acquire, group, TypeGroup
      <4>4. CASE CreateJob(w)
        BY <4>4 DEF CreateJob, group
      <4>5. CASE CheckGate(w)
        BY <4>5 DEF CheckGate, group, StatusOf, LC!JobStates
      <4>6. CASE GateError(w)
        BY <4>6 DEF GateError, group, StatusOf, LC!JobStates
      <4>7. CASE CheckLimits(w)
        BY <4>7 DEF CheckLimits, group, StatusOf, LC!JobStates
      <4>8. CASE Persist(w)
        BY <4>8 DEF Persist, group
      <4>9. CASE Publish(w)
        BY <4>9 DEF Publish, AfterPublish, StatusOf, LC!JobStates, Stages, group
      <4>10. CASE Submit(w)
        BY <4>10 DEF Submit, group, StatusOf, LC!JobStates
      <4>11. CASE CreateOrder(w)
        BY <4>11 DEF CreateOrder, group
      <4>12. CASE SaveFill(w)
        BY <4>12 DEF SaveFill, group, StatusOf, LC!JobStates
      <4>13. CASE SetCooldown(w)
        BY <4>13 DEF SetCooldown, group
      <4>14. CASE LogIncident(w)
        BY <4>14 DEF LogIncident, group
      <4>15. CASE Ack(w)
        BY <4>15 DEF Ack, Advance
      <4>16. CASE Abandon(w)
        BY <4>16 DEF Abandon, group
      <4>17. QED
        BY <2>3, <4>1, <4>2, <4>3, <4>4, <4>5, <4>6, <4>7, <4>8, <4>9, <4>10, <4>11, <4>12,
           <4>13, <4>14, <4>15, <4>16 DEF Step
    <3>3. QED
      BY <3>1, <3>2
  <2>4. QED
    BY <2>1, <2>2, <2>3 DEF Next, Environment
<1>3. QED
  BY <1>2 DEF InHand, Parsed, Writable

\* What is being and what has been executed keeps its lock, or the lock has
\* expired.
LEMMA LockStep ==
  TypeOK /\ InHand /\ Parsed /\ LockCovers /\ Next => LockCovers'
<1> SUFFICES ASSUME TypeOK, InHand, Parsed, LockCovers, Next PROVE LockCovers'
  OBVIOUS
<1> DEFINE Held(w) == Admitted(w) =>
             lock[IntentOf(w)] = entry[w] \/ IntentOf(w) \in lapsed
           Covered(j) == Executed(j) =>
             /\ j \in 1..Len(stream) /\ stream[j] \in Intents
             /\ lock[stream[j]] = j \/ stream[j] \in lapsed
<1>1. (\A w \in Workers : Held(w)) /\ (\A j \in Jobs : Covered(j))
  BY DEF LockCovers
<1>2. (\A w \in Workers : Held(w)') /\ (\A j \in Jobs : Covered(j)')
  <2>1. CASE PublishIntent
    <3>1. ASSUME NEW j \in 1..Len(stream)
          PROVE  stream'[j] = stream[j] /\ j \in 1..Len(stream')
      BY <2>1 DEF PublishIntent, TypeOK, TypeGroup
    <3>2. \A w \in Workers : Held(w)'
      <4>1. ASSUME NEW w \in Workers, Admitted(w) PROVE stream'[entry[w]] = stream[entry[w]]
        BY <4>1, <3>1, EntryInHand DEF Admitted
      <4>2. QED
        BY <4>1, <2>1, <1>1 DEF PublishIntent, IntentOf, Admitted, redis, local, history
    <3>3. \A j \in Jobs : Covered(j)'
      BY <3>1, <2>1, <1>1 DEF PublishIntent, Executed, redis, history
    <3>4. QED
      BY <3>2, <3>3
  <2>2. CASE ExpireLock
    BY <2>2, <1>1 DEF ExpireLock, group, local, Executed, Admitted, IntentOf,
                      TypeOK, TypeRedis
  <2>3. CASE ExpireCooldown \/ SetControl \/ ClearControl \/ PauseSymbol
    BY <2>3, <1>1 DEF ExpireCooldown, SetControl, ClearControl, PauseSymbol,
                      group, local, history, Executed, Admitted, IntentOf
  <2>4. ASSUME NEW w \in Workers, Step(w)
        PROVE  (\A v \in Workers : Held(v)') /\ (\A j \in Jobs : Covered(j)')
    <3>0. stream' = stream /\ lapsed' = lapsed
      <4>1. lapsed' = lapsed
        BY <2>4 DEF Step, Tick, SkipMalformed, Acquire, CreateJob, CheckGate,
           GateError, CheckLimits, Persist, Publish, Submit, CreateOrder,
           SaveFill, SetCooldown, LogIncident, Ack, Abandon, history
      <4>2. QED
        BY <4>1, <2>4, Frame
    <3>1. CASE Acquire(w)
      <4>1. ASSUME NEW i \in Intents, lock[i] # None PROVE lock'[i] = lock[i]
        BY <3>1, <4>1 DEF Acquire, LockFree, TypeOK, TypeRedis
      <4>2. events' = events
        BY <3>1 DEF Acquire
      <4>3. \A j \in Jobs : Covered(j)'
        BY <4>1, <4>2, <3>0, <1>1, ConsumerConstants DEF Executed, Jobs, Entries
      <4>4. ASSUME NEW v \in Workers \ {w} PROVE Held(v)'
        BY <4>1, <3>0, <1>1, <2>4, Frame, EntryInHand, ConsumerConstants
           DEF Admitted, IntentOf, Parsed, Jobs, Entries
      <4>5. Held(w)'
        <5>1. CASE lock' = [lock EXCEPT ![IntentOf(w)] = entry[w]] /\ IntentOf(w) \in Intents
          BY <5>1, <3>0, <3>1 DEF Acquire, IntentOf, TypeOK, TypeRedis
        <5>2. CASE GotoStage(w, "publish", "duplicate")
          BY <5>2 DEF GotoStage, Goto, Admitted, TypeOK, TypeLocal
        <5>3. IntentOf(w) \in Intents
          BY <3>1, EntryInHand DEF Acquire, IntentOf, TypeOK, TypeGroup
        <5>4. QED
          BY <5>1, <5>2, <5>3, <3>1 DEF Acquire
      <4>6. QED
        BY <4>3, <4>4, <4>5
    <3>2. CASE Publish(w)
      <4>1. lock' = lock /\ entry' = entry
        BY <3>2 DEF Publish, redis
      <4>2. ASSUME NEW v \in Workers \ {w} PROVE Held(v)'
        BY <4>1, <3>0, <1>1, <2>4, Frame DEF Admitted, IntentOf
      <4>3. Held(w)'
        BY <4>1, <3>0, <3>2, <1>1 DEF Publish, AfterPublish, Stages, Goto, GotoStage,
           Admitted, IntentOf, TypeOK, TypeLocal
      <4>4. ASSUME NEW j \in Jobs, Executed(j)' PROVE Covered(j)'
        <5>1. CASE Executed(j)
          BY <5>1, <4>1, <3>0, <1>1 DEF Executed
        <5>2. CASE ~Executed(j)
          <6>1. j = entry[w] /\ stage[w] = "filled" /\ phase[w] = "publish"
            BY <5>2, <4>4, <3>2 DEF Executed, Publish, StatusOf
          <6>2. Held(w) /\ Admitted(w)
            BY <6>1, <1>1 DEF Admitted
          <6>3. j \in 1..Len(stream) /\ stream[j] \in Intents
            BY <6>1, EntryInHand DEF Parsed, IntentOf
          <6>4. QED
            BY <6>1, <6>2, <6>3, <4>1, <3>0 DEF IntentOf
        <5>3. QED
          BY <5>1, <5>2
      <4>5. QED
        BY <4>2, <4>3, <4>4
    <3>3. CASE ~Acquire(w) /\ ~Publish(w)
      <4>1. lock' = lock /\ events' = events
        BY <2>4, <3>3 DEF Step, Tick, SkipMalformed, CreateJob, CheckGate,
           GateError, CheckLimits, Persist, Submit, CreateOrder,
           SaveFill, SetCooldown, LogIncident, Ack, Abandon, redis
      <4>2. \A j \in Jobs : Covered(j)'
        BY <4>1, <3>0, <1>1 DEF Executed
      <4>3. ASSUME NEW v \in Workers \ {w} PROVE Held(v)'
        BY <4>1, <3>0, <1>1, <2>4, Frame DEF Admitted, IntentOf
      <4>4. Admitted(w)' => Admitted(w) /\ entry'[w] = entry[w]
        BY <2>4, <3>3 DEF Step, Tick, SkipMalformed, CreateJob, CheckGate,
           GateError, CheckLimits, Persist, Submit, CreateOrder, SaveFill,
           SetCooldown, LogIncident, Ack, Advance, Abandon, Admitted, Goto,
           GotoStage, TypeOK, TypeLocal
      <4>5. QED
        BY <4>1, <4>2, <4>3, <4>4, <3>0, <1>1 DEF IntentOf
    <3>4. QED
      BY <3>1, <3>2, <3>3
  <2>5. QED
    BY <2>1, <2>2, <2>3, <2>4 DEF Next, Environment
<1>3. QED
  BY <1>2 DEF LockCovers

\* Between reading the kill switch as off and submitting, a worker has not
\* submitted late under the switch that is on.
LEMMA LateStep == TypeOK /\ LateAtMostOnce /\ Next => LateAtMostOnce'
<1> SUFFICES ASSUME TypeOK, LateAtMostOnce, Next PROVE LateAtMostOnce'
  OBVIOUS
<1> DEFINE Once(w) == /\ phase[w] # "gate" => gate[w] = 1
                      /\ w \in late /\ "kill_switch" \in halts => ~PastKillSwitch(w)
<1>1. \A w \in Workers : Once(w)
  BY DEF LateAtMostOnce
<1>2. CASE PublishIntent \/ ExpireLock \/ ExpireCooldown \/ SetControl
           \/ ClearControl \/ PauseSymbol
  BY <1>2, <1>1 DEF PublishIntent, ExpireLock, ExpireCooldown, SetControl,
     ClearControl, PauseSymbol, group, redis, local, history, PastKillSwitch, LateAtMostOnce
<1>3. ASSUME NEW w \in Workers, Step(w) PROVE LateAtMostOnce'
  <2>1. halts' = halts /\ (late' = late \/ (phase[w] = "submit" /\ late' \subseteq late \cup {w}))
    BY <1>3 DEF Step, Tick, SkipMalformed, Acquire, CreateJob, CheckGate, GateError,
       CheckLimits, Persist, Publish, Submit, CreateOrder, SaveFill, SetCooldown,
       LogIncident, Ack, Abandon, redis, history
  <2>2. ASSUME NEW v \in Workers \ {w} PROVE Once(v)'
    BY <2>1, <1>1, <1>3, Frame DEF PastKillSwitch
  <2>3. Once(w)'
    <3> USE <1>1, <2>1 DEF PastKillSwitch, Goto, GotoStage, TypeOK, TypeLocal
    <3>1. CASE Tick(w)
      BY <3>1 DEF Tick
    <3>2. CASE SkipMalformed(w)
      BY <3>2 DEF SkipMalformed
    <3>3. CASE Acquire(w)
      BY <3>3 DEF Acquire
    <3>4. CASE CreateJob(w)
      BY <3>4 DEF CreateJob
    <3>5. CASE CheckGate(w)
      <4>1. gate[w] \in 1..5 /\ (gate[w] = 1 => GateOrder[gate[w]] = "kill_switch")
        BY DEF GateOrder
      <4>2. CASE phase'[w] = "persist" /\ stage'[w] = "blocked" /\ gate'[w] = 1
        BY <4>2
      <4>3. CASE "kill_switch" \notin halts /\ (phase'[w] # "gate" => gate'[w] = 1)
        BY <4>3
      <4>4. CASE gate[w] # 1 /\ (phase'[w] # "gate" => gate'[w] = 1)
        BY <4>4, <4>1, <3>5 DEF CheckGate
      <4>5. QED
        BY <4>1, <4>2, <4>3, <4>4, <3>5 DEF CheckGate, Closed
    <3>6. CASE GateError(w)
      BY <3>6 DEF GateError
    <3>7. CASE CheckLimits(w)
      <4>1. phase[w] = "limits" /\ phase'[w] = "persist" /\ gate' = gate
        BY <3>7 DEF CheckLimits
      <4>2. QED
        BY <4>1
    <3>8. CASE Persist(w)
      <4>1. phase[w] = "persist" /\ phase'[w] = "publish" /\ gate' = gate /\ stage' = stage
        BY <3>8 DEF Persist
      <4>2. QED
        BY <4>1
    <3>9. CASE Publish(w)
      <4>1. /\ phase[w] = "publish" /\ gate' = gate
            /\ phase'[w] = AfterPublish[stage[w]].to /\ stage'[w] = AfterPublish[stage[w]].as
        BY <3>9 DEF Publish
      <4>2. LET next == AfterPublish[stage[w]] IN
              /\ next.to \in {"limits", "submit"} => stage[w] = "approved"
              /\ next.to \in {"persist", "publish"} => next.as # "approved"
        BY DEF AfterPublish, Stages
      <4>3. QED
        BY <4>1, <4>2
    <3>10. CASE Submit(w)
      BY <3>10 DEF Submit
    <3>11. CASE CreateOrder(w)
      BY <3>11 DEF CreateOrder
    <3>12. CASE SaveFill(w)
      BY <3>12 DEF SaveFill
    <3>13. CASE SetCooldown(w)
      BY <3>13 DEF SetCooldown
    <3>14. CASE LogIncident(w)
      BY <3>14 DEF LogIncident
    <3>15. CASE Ack(w)
      BY <3>15 DEF Ack, Advance
    <3>16. CASE Abandon(w)
      BY <3>16 DEF Abandon
    <3>17. QED
      BY <1>3, <3>1, <3>2, <3>3, <3>4, <3>5, <3>6, <3>7, <3>8, <3>9, <3>10, <3>11, <3>12,
         <3>13, <3>14, <3>15, <3>16 DEF Step
  <2>4. QED
    BY <2>2, <2>3 DEF LateAtMostOnce
<1>4. QED
  BY <1>2, <1>3 DEF Next, Environment

-----------------------------------------------------------------------------
\* What one step of a worker can do to the tables.
LEMMA Effects ==
  ASSUME TypeOK, InHand, Writable, NEW w \in Workers, Step(w)
  PROVE  /\ faults \in Nat /\ faults' \in Nat /\ faults <= faults'
         /\ \/ UNCHANGED jobs
            \/ /\ phase[w] \in {"create", "persist"}
               /\ \E s \in LC!JobStates : jobs' = [jobs EXCEPT ![entry[w]] = s]
         /\ \/ UNCHANGED orders
            \/ phase[w] = "order" /\ orders' = orders \cup {entry[w]}
         /\ \/ UNCHANGED unfilled
            \/ phase[w] = "order" /\ unfilled' = unfilled \cup {entry[w]}
         /\ \/ UNCHANGED fills
            \/ phase[w] = "fill" /\ fills' = fills \cup ({entry[w]} \ unfilled)
         /\ UNCHANGED cooldown \/ phase[w] = "cooldown"
         /\ IF phase[w] = "idle" THEN Tick(w) ELSE UNCHANGED <<cursor, last>>
         /\ \/ UNCHANGED entry
            \/ phase[w] = "idle"
            \/ phase[w] = "ack" /\ entry[w] < last[w] /\ entry'[w] = entry[w] + 1
<1> USE DEF db, redis, group, Fault, NoFault, Goto, GotoStage
<1>0. faults \in Nat /\ "queued" \in LC!JobStates
  BY ConsumerConstants DEF TypeOK, TypeFaults, LC!JobStates
<1>1. CASE Tick(w)
  BY <1>0, <1>1 DEF Tick
<1>2. CASE SkipMalformed(w) \/ Acquire(w)
  BY <1>0, <1>2 DEF SkipMalformed, Acquire
<1>3. CASE CreateJob(w)
  BY <1>0, <1>3 DEF CreateJob
<1>4. CASE CheckGate(w) \/ GateError(w) \/ CheckLimits(w)
  BY <1>0, <1>4 DEF CheckGate, GateError, CheckLimits
<1>5. CASE Persist(w)
  BY <1>0, <1>5 DEF Persist, Writable
<1>6. CASE Publish(w) \/ Submit(w)
  BY <1>0, <1>6 DEF Publish, Submit
<1>7. CASE CreateOrder(w)
  BY <1>0, <1>7 DEF CreateOrder
<1>8. CASE SaveFill(w)
  BY <1>0, <1>8 DEF SaveFill
<1>9. CASE SetCooldown(w) \/ LogIncident(w)
  BY <1>0, <1>9 DEF SetCooldown, LogIncident
<1>10. CASE Ack(w)
  BY <1>0, <1>10 DEF Ack, Advance, TypeOK, TypeLocal
<1>11. CASE Abandon(w)
  BY <1>0, <1>11 DEF Abandon
<1>12. QED
  BY <1>1, <1>2, <1>3, <1>4, <1>5, <1>6, <1>7, <1>8, <1>9, <1>10, <1>11 DEF Step

\* The rows and the orders of the entries in other hands stay what they are.
LEMMA OthersKeep ==
  ASSUME TypeOK, InHand, Writable, TablesFollow, NEW w \in Workers, Step(w),
         NEW v \in Workers \ {w}
  PROVE  RowFollows(v)' /\ OrderFollows(v)' /\ CooldownSeen(v)'
<1>1. /\ phase'[v] = phase[v] /\ entry'[v] = entry[v] /\ stage'[v] = stage[v]
      /\ stream' = stream
  BY Frame
<1>2. CASE phase[v] = "idle"
  BY <1>1, <1>2 DEF RowFollows, OrderFollows, CooldownSeen, At, BeforeVerdict, BeforeAnswer,
                    BeforeAcknowledged, BeforeFilled, PastCooldown
<1>3. CASE phase[v] # "idle"
  <2>1. phase[w] # "idle" => entry[v] # entry[w]
    <3> SUFFICES ASSUME phase[w] # "idle" PROVE entry[v] # entry[w]
      OBVIOUS
    <3>1. /\ entry[v] \in Nat /\ last[v] \in Nat /\ entry[v] <= last[v]
          /\ entry[w] \in Nat /\ last[w] \in Nat /\ entry[w] <= last[w]
      BY <1>3 DEF InHand, TypeOK, TypeLocal
    <3>2. last[v] < entry[w] \/ last[w] < entry[v]
      BY <1>3 DEF TablesFollow, OwnEntries
    <3>3. QED
      BY <3>1, <3>2
  <2>2. entry[v] \in Jobs
    BY <1>3, EntryInHand
  <2>3. /\ jobs'[entry[v]] = jobs[entry[v]]
        /\ entry[v] \in orders' <=> entry[v] \in orders
        /\ entry[v] \in unfilled' <=> entry[v] \in unfilled
        /\ entry[v] \in fills' <=> entry[v] \in fills
    BY <2>1, <2>2, Effects DEF TypeOK, TypeDb
  <2>4. faults' = 0 => faults = 0
    BY Effects
  <2>5. faults' \in Nat /\ faults \in Nat
    BY Effects
  <2>6. RowFollows(v)'
    <3>1. RowFollows(v)
      BY DEF TablesFollow
    <3>2. \A s, e : Has(v, s, e) => jobs[entry[v]] \in {"none", s} \/ (faults' > 0 /\ jobs[entry[v]] \in e)
      BY <2>4, <2>5 DEF Has, Row
    <3>3. QED
      BY <1>1, <2>3, <3>1, <3>2
         DEF RowFollows, Has, Row, At, BeforeVerdict, BeforeAnswer, BeforeAcknowledged, BeforeFilled
  <2>7. OrderFollows(v)'
    BY <1>1, <2>3 DEF TablesFollow, OrderFollows, At
  <2>8. ~Alone(v)'
    <3>1. entry'[w] # 0
      <4>1. entry \in [Workers -> Nat] /\ cursor \in Nat
        BY DEF TypeOK, TypeLocal, TypeGroup
      <4>2. CASE phase[w] = "idle"
        BY <4>1, <4>2, Effects DEF Tick
      <4>3. CASE phase[w] # "idle"
        <5>1. entry[w] \in Nat \ {0}
          BY <4>3, EntryInHand DEF Jobs, Entries
        <5>2. QED
          BY <4>1, <4>3, <5>1, Effects
      <4>4. QED
        BY <4>2, <4>3
    <3>2. QED
      BY <3>1 DEF Alone
  <2>9. QED
    BY <2>6, <2>7, <2>8 DEF CooldownSeen
<1>4. QED
  BY <1>2, <1>3

\* No entry gets into two hands, and none has a row before it is in one.
LEMMA OwnStep ==
  ASSUME TypeOK, InHand, InHand', Writable, OwnEntries, RowsBehind, NEW w \in Workers, Step(w)
  PROVE  OwnEntries' /\ RowsBehind'
<1>0. /\ cursor \in Nat /\ cursor <= Len(stream) /\ Len(stream) \in Nat /\ stream' = stream
      /\ \A v \in Workers : /\ entry[v] \in Nat /\ last[v] \in Nat
                            /\ phase[v] # "idle" => entry[v] <= last[v] /\ last[v] <= cursor
                                                    /\ entry[v] \in Jobs
      /\ jobs \in [Jobs -> LC!JobStates \cup {"none"}] /\ Jobs \subseteq Nat
      /\ BatchSize \in Nat \ {0}
  BY Frame, EntryInHand, ConsumerConstants
     DEF TypeOK, TypeGroup, TypeLocal, TypeDb, InHand, Jobs, Entries
<1>1. \A v \in Workers \ {w} : phase'[v] = phase[v] /\ entry'[v] = entry[v] /\ last'[v] = last[v]
  BY Frame
<1>2. CASE phase[w] = "idle"
  <2>1. UNCHANGED jobs /\ entry'[w] = cursor + 1 /\ cursor' \in Nat /\ cursor < cursor'
        /\ last'[w] = cursor'
    BY <1>0, <1>2, Effects DEF Tick, db, TypeOK, TypeLocal
  <2>2. OwnEntries'
    BY <1>0, <1>1, <2>1 DEF OwnEntries
  <2>3. RowsBehind'
    BY <1>0, <1>1, <2>1 DEF RowsBehind
  <2>4. QED
    BY <2>2, <2>3
<1>3. CASE phase[w] # "idle"
  <2>1. cursor' = cursor /\ last' = last /\ entry'[w] \in {entry[w], entry[w] + 1}
    BY <1>3, Effects DEF TypeOK, TypeLocal
  <2>2. OwnEntries'
    BY <1>0, <1>1, <1>3, <2>1 DEF OwnEntries
  <2>3. RowsBehind'
    <3> SUFFICES ASSUME NEW j \in Jobs, jobs'[j] # "none"
                 PROVE  /\ j <= cursor
                        /\ \A v \in Workers : phase'[v] # "idle" => j \notin entry'[v]+1..last[v]
      BY <2>1 DEF RowsBehind
    <3>1. jobs[j] # "none" \/ j = entry[w]
      BY <1>0, Effects
    <3>2. CASE jobs[j] # "none"
      BY <1>0, <1>1, <1>3, <2>1, <3>2 DEF RowsBehind
    <3>3. CASE j = entry[w]
      BY <1>0, <1>1, <1>3, <2>1, <3>3 DEF OwnEntries
    <3>4. QED
      BY <3>1, <3>2, <3>3
  <2>4. QED
    BY <2>2, <2>3
<1>4. QED
  BY <1>2, <1>3

\* The row of its own entry moves with the worker.
LEMMA RowStep ==
  ASSUME TypeOK, InHand, Writable, TablesFollow, NEW w \in Workers, Step(w)
  PROVE  RowFollows(w)'
<1> DEFINE e == entry[w]
<1> USE DEF TypeOK, TypeLocal, TypeDb, Goto, GotoStage, Fault, NoFault, db
<1>0. /\ RowFollows(w) /\ faults \in Nat
      /\ phase[w] # "idle" => e \in Jobs
      /\ jobs \in [Jobs -> LC!JobStates \cup {"none"}]
  BY Effects, EntryInHand DEF TablesFollow
<1> USE DEF Row
<1> DEFINE Same == entry'[w] = e /\ jobs' = jobs
<1>1. CASE Tick(w)
  <2>1. entry'[w] = cursor + 1 /\ phase'[w] = "acquire" /\ jobs' = jobs /\ entry'[w] \in Jobs
    BY <1>1, ConsumerConstants DEF Tick, TypeGroup, Jobs, Entries
  <2>2. jobs[cursor + 1] = "none"
    BY <2>1, ConsumerConstants DEF TablesFollow, RowsBehind, TypeGroup, Jobs, Entries
  <2>3. QED
    BY <2>1, <2>2 DEF RowFollows, At, BeforeVerdict, BeforeAnswer, BeforeAcknowledged, BeforeFilled
<1>2. CASE SkipMalformed(w) \/ Acquire(w)
  <2>1. Same /\ (phase'[w] \in {"ack", "create"} \/ At(w, "publish", {"duplicate"})')
    BY <1>2 DEF SkipMalformed, Acquire, At
  <2>2. phase'[w] = "create" => jobs[e] = "none"
    BY <1>0, <1>2 DEF SkipMalformed, Acquire, RowFollows
  <2>3. QED
    BY <2>1, <2>2 DEF RowFollows, At, BeforeVerdict, BeforeAnswer, BeforeAcknowledged, BeforeFilled
<1>3. CASE CreateJob(w)
  <2>1. entry'[w] = e /\ phase'[w] = "publish" /\ stage'[w] = "queued"
    BY <1>3 DEF CreateJob
  <2>2. jobs'[e] \in {"none", "queued"}
    BY <1>0, <1>3 DEF CreateJob, RowFollows
  <2>3. QED
    BY <2>1, <2>2
       DEF RowFollows, At, Has, BeforeVerdict, BeforeAnswer, BeforeAcknowledged, BeforeFilled
<1>4. CASE CheckGate(w) \/ CheckLimits(w)
  <2>1. /\ Same /\ jobs[e] \in {"none", "queued"}
        /\ \/ phase'[w] \in {"gate", "limits"}
           \/ phase'[w] = "persist" /\ stage'[w] \in {"approved", "blocked"}
    BY <1>0, <1>4 DEF CheckGate, CheckLimits, RowFollows, BeforeVerdict, Has
  <2>2. QED
    BY <2>1 DEF RowFollows, At, Has, BeforeVerdict, BeforeAnswer, BeforeAcknowledged, BeforeFilled
<1>5. CASE GateError(w)
  <2>1. /\ Same /\ jobs[e] \in {"none", "queued"} /\ faults' > 0
        /\ phase'[w] = "persist" /\ stage'[w] = "failed"
    BY <1>0, <1>5 DEF GateError, RowFollows, BeforeVerdict, Has
  <2>2. QED
    BY <2>1 DEF RowFollows, At, Has, BeforeVerdict, BeforeAnswer, BeforeAcknowledged, BeforeFilled
<1>6. CASE Persist(w)
  <2>1. /\ phase[w] = "persist" /\ entry'[w] = e /\ phase'[w] = "publish" /\ stage'[w] = stage[w]
        /\ \/ jobs[e] = "none" /\ jobs'[e] = "none" /\ faults' = faults
           \/ jobs[e] # "none" /\ jobs'[e] = StatusOf(stage[w]) /\ faults' = faults
           \/ jobs'[e] = jobs[e] /\ faults' > 0
    BY <1>0, <1>6 DEF Persist
  <2>2. CASE stage[w] = "approved"
    <3>1. jobs'[e] \in {"none", "approved"} \/ (faults' > 0 /\ jobs'[e] = "queued")
      BY <1>0, <2>1, <2>2 DEF RowFollows, BeforeVerdict, Has, At, StatusOf
    <3>2. QED
      BY <2>1, <2>2, <3>1
         DEF RowFollows, At, Has, BeforeVerdict, BeforeAnswer, BeforeAcknowledged, BeforeFilled
  <2>3. CASE stage[w] = "submitted"
    <3>1. \/ jobs'[e] \in {"none", "submitted"}
          \/ (faults' > 0 /\ jobs'[e] \in {"queued", "approved"})
      BY <1>0, <2>1, <2>3 DEF RowFollows, BeforeAnswer, Has, At, StatusOf
    <3>2. QED
      BY <2>1, <2>3, <3>1
         DEF RowFollows, At, Has, BeforeVerdict, BeforeAnswer, BeforeAcknowledged, BeforeFilled
  <2>4. CASE stage[w] = "acknowledged"
    <3>1. \/ jobs'[e] \in {"none", "acknowledged"}
          \/ (faults' > 0 /\ jobs'[e] \in {"queued", "approved", "submitted"})
      BY <1>0, <2>1, <2>4 DEF RowFollows, BeforeAcknowledged, Has, At, StatusOf
    <3>2. QED
      BY <2>1, <2>4, <3>1
         DEF RowFollows, At, Has, BeforeVerdict, BeforeAnswer, BeforeAcknowledged, BeforeFilled
  <2>5. CASE stage[w] \notin {"approved", "submitted", "acknowledged"}
    <3>1. stage[w] # "queued"
      BY <2>1 DEF Writable, StatusOf
    <3>2. QED
      BY <2>1, <2>5, <3>1
         DEF RowFollows, At, Has, BeforeVerdict, BeforeAnswer, BeforeAcknowledged, BeforeFilled
  <2>6. QED
    BY <2>2, <2>3, <2>4, <2>5
<1>7. CASE Publish(w)
  <2>1. Same /\ faults' = faults /\ phase[w] = "publish"
    BY <1>7 DEF Publish
  <2>2. \/ stage[w] = "queued" /\ phase'[w] = "gate" /\ stage'[w] = "queued"
        \/ stage[w] = "approved" /\ phase'[w] = "submit" /\ stage'[w] = "approved"
        \/ stage[w] = "submitted" /\ phase'[w] = "persist" /\ stage'[w] = "acknowledged"
        \/ stage[w] = "acknowledged" /\ phase'[w] = "order" /\ stage'[w] = "acknowledged"
        \/ phase'[w] \in {"cooldown", "incident", "ack"}
    BY <1>7 DEF Publish, AfterPublish, Stages
  <2>3. QED
    BY <1>0, <2>1, <2>2
       DEF RowFollows, At, Has, BeforeVerdict, BeforeAnswer, BeforeAcknowledged, BeforeFilled
<1>8. CASE Submit(w)
  <2>1. /\ Same /\ faults <= faults' /\ faults' \in Nat /\ phase[w] = "submit"
        /\ phase'[w] = "persist" /\ stage'[w] \in {"submitted", "rejected", "failed"}
    BY <1>0, <1>8 DEF Submit
  <2>2. QED
    BY <1>0, <2>1
       DEF RowFollows, At, Has, BeforeVerdict, BeforeAnswer, BeforeAcknowledged, BeforeFilled
<1>9. CASE CreateOrder(w) \/ SaveFill(w)
  <2>1. /\ Same /\ faults <= faults' /\ faults' \in Nat /\ phase[w] \in {"order", "fill"}
        /\ \/ phase'[w] = "fill"
           \/ phase'[w] \in {"publish", "persist"} /\ stage'[w] = "filled"
    BY <1>0, <1>9 DEF CreateOrder, SaveFill
  <2>2. QED
    BY <1>0, <2>1
       DEF RowFollows, At, Has, BeforeVerdict, BeforeAnswer, BeforeAcknowledged, BeforeFilled
<1>10. CASE SetCooldown(w) \/ LogIncident(w) \/ Abandon(w)
  <2>1. phase'[w] \in {"idle", "ack"}
    BY <1>10 DEF SetCooldown, LogIncident, Abandon
  <2>2. QED
    BY <2>1 DEF RowFollows, At, BeforeVerdict, BeforeAnswer, BeforeAcknowledged, BeforeFilled
<1>11. CASE Ack(w)
  <2>1. \/ phase'[w] = "idle"
        \/ phase'[w] = "acquire" /\ entry'[w] = e + 1 /\ e < last[w] /\ jobs' = jobs
    BY <1>11 DEF Ack, Advance
  <2>2. e < last[w] => e + 1 \in Jobs /\ e + 1 \in e+1..last[w]
    <3>1. /\ e \in Nat /\ last[w] \in Nat /\ last[w] <= cursor /\ cursor \in Nat
          /\ cursor <= MaxEntries /\ MaxEntries \in Nat
      BY <1>11, ConsumerConstants DEF Ack, InHand, TypeGroup
    <3>2. QED
      BY <3>1 DEF Jobs, Entries
  <2>3. e < last[w] => jobs[e + 1] = "none"
    BY <1>11, <2>2 DEF Ack, TablesFollow, RowsBehind
  <2>4. QED
    BY <2>1, <2>3 DEF RowFollows, At, BeforeVerdict, BeforeAnswer, BeforeAcknowledged, BeforeFilled
<1>12. QED
  BY <1>1, <1>2, <1>3, <1>4, <1>5, <1>6, <1>7, <1>8, <1>9, <1>10, <1>11 DEF Step

\* The order and the fill of its own entry are where the worker says.
LEMMA OrderStep ==
  ASSUME TypeOK, InHand, Writable, TablesFollow, TablesAgree, NEW w \in Workers, Step(w)
  PROVE  OrderFollows(w)'
<1> DEFINE e == entry[w]
<1> USE DEF TypeOK, TypeLocal, Goto, GotoStage, db
<1>0. OrderFollows(w)
  BY DEF TablesFollow
<1>a. ASSUME NEW j \in Jobs, jobs[j] = "none" PROVE j \notin orders
  BY <1>a DEF TablesAgree
<1> DEFINE Same == entry'[w] = e /\ UNCHANGED <<orders, unfilled, fills>>
<1>1. CASE Tick(w)
  <2>1. /\ entry'[w] = cursor + 1 /\ phase'[w] = "acquire" /\ orders' = orders
        /\ cursor + 1 \in Jobs /\ cursor \in Nat
    BY <1>1, ConsumerConstants DEF Tick, TypeGroup, Jobs, Entries
  <2>2. jobs[cursor + 1] = "none"
    BY <2>1 DEF TablesFollow, RowsBehind, Jobs, Entries
  <2>3. cursor + 1 \notin orders
    BY <2>1, <2>2, <1>a
  <2>4. QED
    BY <2>1, <2>3 DEF OrderFollows, At
<1>2. CASE SkipMalformed(w) \/ Acquire(w) \/ CreateJob(w) \/ CheckGate(w) \/ GateError(w)
           \/ CheckLimits(w) \/ Submit(w)
  <2>1. /\ Same /\ phase[w] \in {"acquire", "create", "gate", "limits", "submit"}
        /\ phase'[w] # "fill" /\ ~At(w, "persist", {"filled"})'
    BY <1>2 DEF SkipMalformed, Acquire, CreateJob, CheckGate, GateError, CheckLimits, Submit, At
  <2>2. QED
    BY <1>0, <2>1 DEF OrderFollows, At
<1>3. CASE Persist(w)
  <2>1. /\ Same /\ phase[w] = "persist" /\ phase'[w] = "publish" /\ stage'[w] = stage[w]
    BY <1>3 DEF Persist
  <2>2. QED
    BY <1>0, <2>1 DEF OrderFollows, At
<1>4. CASE Publish(w)
  <2>1. Same /\ phase[w] = "publish" /\ phase'[w] \in {AfterPublish[s].to : s \in {stage[w]}}
        /\ stage'[w] = AfterPublish[stage[w]].as
    BY <1>4 DEF Publish
  <2>2. /\ phase'[w] # "fill" /\ ~At(w, "persist", {"filled"})'
        /\ stage[w] = "filled" => phase'[w] = "cooldown"
    BY <2>1 DEF AfterPublish, Stages, At
  <2>3. QED
    BY <1>0, <2>1, <2>2 DEF OrderFollows, At
<1>5. CASE CreateOrder(w)
  <2>1. /\ entry'[w] = e
        /\ \/ orders' = orders \cup {e} /\ phase'[w] = "fill"
           \/ orders' = orders /\ phase'[w] = "publish" /\ stage'[w] = "filled"
    BY <1>5 DEF CreateOrder
  <2>2. QED
    BY <2>1 DEF OrderFollows, At
<1>6. CASE SaveFill(w)
  <2>1. /\ entry'[w] = e
        /\ phase[w] = "fill" /\ orders' = orders /\ unfilled' = unfilled
        /\ \/ /\ fills' = fills \cup ({e} \ unfilled)
              /\ phase'[w] = "persist" /\ stage'[w] = "filled"
           \/ phase'[w] = "publish" /\ stage'[w] = "filled"
    BY <1>6 DEF SaveFill
  <2>2. e \in orders /\ (e \in fills => e \notin unfilled)
    BY <1>0, <2>1 DEF OrderFollows, TablesAgree
  <2>3. QED
    BY <2>1, <2>2 DEF OrderFollows, At
<1>7. CASE SetCooldown(w) \/ LogIncident(w) \/ Abandon(w)
  <2>1. phase'[w] \in {"idle", "ack"}
    BY <1>7 DEF SetCooldown, LogIncident, Abandon
  <2>2. QED
    BY <2>1 DEF OrderFollows, At
<1>8. CASE Ack(w)
  <2>1. \/ phase'[w] = "idle"
        \/ phase'[w] = "acquire" /\ entry'[w] = e + 1 /\ e < last[w] /\ orders' = orders
    BY <1>8 DEF Ack, Advance
  <2>2. e < last[w] => e + 1 \in Jobs /\ e + 1 \in e+1..last[w]
    <3>1. /\ e \in Nat /\ last[w] \in Nat /\ last[w] <= cursor /\ cursor \in Nat
          /\ cursor <= MaxEntries /\ MaxEntries \in Nat
      BY <1>8, ConsumerConstants DEF Ack, InHand, TypeGroup
    <3>2. QED
      BY <3>1 DEF Jobs, Entries
  <2>3. e < last[w] => jobs[e + 1] = "none"
    BY <1>8, <2>2 DEF Ack, TablesFollow, RowsBehind
  <2>4. e < last[w] => e + 1 \notin orders
    BY <2>2, <2>3, <1>a
  <2>5. QED
    BY <2>1, <2>4 DEF OrderFollows, At
<1>9. QED
  BY <1>1, <1>2, <1>3, <1>4, <1>5, <1>6, <1>7, <1>8 DEF Step

\* A worker passes the gate only over a symbol without a cooldown, and what it
\* is past stays true for as long as it is alone.
LEMMA CooldownStep ==
  ASSUME TypeOK, InHand, Writable, TablesFollow, NEW w \in Workers, Step(w)
  PROVE  CooldownSeen(w)'
<1> SUFFICES ASSUME Alone(w)', PastCooldown(w)' PROVE (SymbolAt(w) \notin cooldown)'
  BY DEF CooldownSeen
<1>1. Alone(w) /\ CooldownSeen(w) /\ stream' = stream
  BY Frame DEF Alone, TablesFollow
<1> USE DEF TypeOK, TypeLocal, Goto, GotoStage, PastCooldown, redis
<1>2. CASE CheckGate(w)
  <2>1. /\ phase[w] = "gate" /\ entry' = entry /\ cooldown' = cooldown
        /\ gate[w] = 5 /\ ~Closed(GateOrder[gate[w]], SymbolAt(w))
    BY <1>2 DEF CheckGate
  <2>2. SymbolAt(w) \notin cooldown
    BY <2>1 DEF GateOrder, Closed
  <2>3. QED
    BY <1>1, <2>1, <2>2 DEF SymbolAt, IntentOf
<1>3. CASE ~CheckGate(w)
  <2>1. PastCooldown(w) /\ entry' = entry /\ cooldown' = cooldown
    <3>1. CASE Publish(w)
      <4>1. /\ phase[w] = "publish" /\ entry' = entry /\ cooldown' = cooldown
            /\ phase'[w] = AfterPublish[stage[w]].to /\ stage'[w] = AfterPublish[stage[w]].as
        BY <3>1 DEF Publish
      <4>2. stage[w] = "approved"
        BY <4>1 DEF AfterPublish, Stages
      <4>3. QED
        BY <4>1, <4>2
    <3>2. CASE CheckLimits(w) \/ Persist(w)
      BY <3>2 DEF CheckLimits, Persist
    <3>3. ~(Tick(w) \/ SkipMalformed(w) \/ Acquire(w) \/ CreateJob(w) \/ GateError(w))
      BY DEF Tick, SkipMalformed, Acquire, CreateJob, GateError
    <3>4. ~(Submit(w) \/ CreateOrder(w) \/ SaveFill(w))
      BY DEF Submit, CreateOrder, SaveFill
    <3>5. ~(SetCooldown(w) \/ LogIncident(w) \/ Ack(w) \/ Abandon(w))
      BY DEF SetCooldown, LogIncident, Ack, Advance, Abandon
    <3>6. QED
      BY <1>3, <3>1, <3>2, <3>3, <3>4, <3>5 DEF Step
  <2>2. QED
    BY <1>1, <2>1 DEF SymbolAt, IntentOf, CooldownSeen
<1>4. QED
  BY <1>2, <1>3

\* The rows, the orders and the fills keep agreeing when a worker moves.
LEMMA AgreeStep ==
  ASSUME TypeOK, InHand, Parsed, Writable, TablesFollow, TablesAgree,
         NEW w \in Workers, Step(w)
  PROVE  TablesAgree'
<1> DEFINE e == entry[w]
           After == {"queued", "approved", "submitted", "acknowledged", "filled"}
<1>0. /\ jobs \in [Jobs -> LC!JobStates \cup {"none"}] /\ orders \subseteq Jobs
      /\ unfilled \subseteq Jobs /\ fills \subseteq Jobs /\ stream' = stream
      /\ RowFollows(w) /\ OrderFollows(w) /\ Jobs \subseteq Nat
      /\ phase[w] # "idle" => e \in Jobs /\ e \in 1..Len(stream)
  BY Frame, EntryInHand DEF TypeOK, TypeDb, TablesFollow, Jobs, Entries
<1>1. CASE CreateJob(w) /\ jobs' # jobs
  <2>1. /\ jobs' = [jobs EXCEPT ![e] = "queued"] /\ phase[w] = "create"
        /\ UNCHANGED <<orders, unfilled, fills>>
        /\ \A j \in SameIntent(w) : jobs[j] = "none"
    BY <1>1 DEF CreateJob
  <2>2. e \notin orders
    BY <1>0, <2>1 DEF OrderFollows, At
  <2>3. \A k \in 1..Len(stream) : stream[k] = stream[e] => jobs[k] = "none"
    BY <2>1 DEF SameIntent, IntentOf
  <2>4. QED
    BY <1>0, <2>1, <2>2, <2>3 DEF TablesAgree
<1>2. CASE Persist(w) /\ jobs' # jobs
  <2>1. /\ jobs' = [jobs EXCEPT ![e] = StatusOf(stage[w])] /\ jobs[e] # "none"
        /\ UNCHANGED <<orders, unfilled, fills>> /\ phase[w] = "persist"
    BY <1>2 DEF Persist
  <2>2. e \in orders => StatusOf(stage[w]) = "filled"
    BY <1>0, <2>1 DEF OrderFollows, At, StatusOf
  <2>3. StatusOf(stage[w]) = "filled" => e \in orders /\ (e \in fills <=> e \notin unfilled)
    BY <1>0, <2>1 DEF OrderFollows, At, StatusOf
  <2>4. StatusOf(stage[w]) # "none"
    BY <2>1 DEF Writable, LC!JobStates
  <2>5. QED
    BY <1>0, <2>1, <2>2, <2>3, <2>4 DEF TablesAgree
<1>3. CASE CreateOrder(w) /\ ~UNCHANGED <<orders, unfilled>>
  <2>1. /\ jobs' = jobs /\ fills' = fills /\ orders' = orders \cup {e} /\ phase[w] = "order"
        /\ unfilled' \in {unfilled, unfilled \cup {e}}
        /\ jobs[e] # "none" /\ SameIntent(w) \cap orders = {} /\ e \notin orders
    BY <1>0, <1>3 DEF CreateOrder, SameIntent, IntentOf
  <2>2. jobs[e] \in After
    BY <1>0, <2>1 DEF RowFollows, BeforeFilled, Has, Row
  <2>3. \A k \in 1..Len(stream) : stream[k] = stream[e] => k \notin orders
    BY <2>1 DEF SameIntent, IntentOf
  <2>4. QED
    BY <1>0, <2>1, <2>2, <2>3 DEF TablesAgree
<1>4. CASE SaveFill(w) /\ fills' # fills
  <2>1. /\ UNCHANGED <<jobs, orders, unfilled>> /\ fills' = fills \cup ({e} \ unfilled)
        /\ phase[w] = "fill"
    BY <1>4 DEF SaveFill
  <2>2. e \in orders /\ e \notin unfilled /\ jobs[e] # "none"
    BY <1>0, <1>4, <2>1 DEF OrderFollows, TablesAgree
  <2>3. QED
    BY <1>0, <2>1, <2>2 DEF TablesAgree
<1>5. CASE UNCHANGED <<jobs, orders, unfilled, fills>>
  BY <1>0, <1>5 DEF TablesAgree
<1>6. QED
  <2> USE DEF db
  <2>1. CASE CreateJob(w) \/ Persist(w) \/ CreateOrder(w) \/ SaveFill(w)
    BY <2>1, <1>1, <1>2, <1>3, <1>4, <1>5 DEF CreateJob, Persist, CreateOrder, SaveFill
  <2>2. CASE ~(CreateJob(w) \/ Persist(w) \/ CreateOrder(w) \/ SaveFill(w))
    BY <2>2, <1>5 DEF Step, Tick, SkipMalformed, Acquire, CheckGate, GateError, CheckLimits,
       Publish, Submit, SetCooldown, LogIncident, Ack, Abandon
  <2>3. QED
    BY <2>1, <2>2

\* Nothing around the workers moves a table or a worker, and the entry a producer
\* appends has neither a row nor an order.
LEMMA AroundStep ==
  ASSUME TypeOK, InHand, TablesFollow, TablesAgree, Environment
  PROVE  TablesFollow' /\ TablesAgree'
<1>0. /\ UNCHANGED <<cursor, jobs, orders, unfilled, fills, phase, entry, last, stage, faults>>
      /\ cooldown' \subseteq cooldown
  BY DEF Environment, PublishIntent, ExpireLock, ExpireCooldown, SetControl, ClearControl,
         PauseSymbol, group, redis, db, local
<1>1. ASSUME NEW j \in 1..Len(stream) PROVE stream'[j] = stream[j]
  BY DEF Environment, PublishIntent, ExpireLock, ExpireCooldown, SetControl, ClearControl,
         PauseSymbol, group, TypeOK, TypeGroup
<1>2. TablesFollow'
  <2>1. OwnEntries' /\ RowsBehind'
    BY <1>0 DEF TablesFollow, OwnEntries, RowsBehind
  <2>2. ASSUME NEW w \in Workers PROVE RowFollows(w)' /\ OrderFollows(w)' /\ CooldownSeen(w)'
    <3>1. RowFollows(w)' /\ OrderFollows(w)'
      BY <1>0 DEF TablesFollow, RowFollows, OrderFollows, At, Has, Row, BeforeVerdict,
                  BeforeAnswer, BeforeAcknowledged, BeforeFilled
    <3>2. CooldownSeen(w)'
      <4>1. PastCooldown(w) => stream'[entry[w]] = stream[entry[w]]
        BY <1>1, EntryInHand DEF PastCooldown
      <4>2. QED
        BY <1>0, <4>1 DEF TablesFollow, CooldownSeen, PastCooldown, Alone, SymbolAt, IntentOf
    <3>3. QED
      BY <3>1, <3>2
  <2>3. QED
    BY <2>1, <2>2 DEF TablesFollow
<1>3. TablesAgree'
  <2>1. CASE stream' = stream
    BY <1>0, <2>1 DEF TablesAgree
  <2>2. CASE PublishIntent
    <3> DEFINE n == Len(stream) + 1
    <3>1. /\ Len(stream) \in Nat /\ Len(stream') = n /\ n \in Jobs /\ Jobs \subseteq Nat
          /\ cursor \in Nat /\ cursor < n
      BY <2>2, ConsumerConstants DEF PublishIntent, TypeOK, TypeGroup, Jobs, Entries
    <3>2. jobs[n] = "none"
      BY <3>1 DEF TablesFollow, RowsBehind
    <3>3. n \notin orders
      BY <3>1, <3>2 DEF TablesAgree
    <3>4. ASSUME NEW j \in 1..n, NEW k \in 1..n, j # k, stream'[j] = stream'[k]
          PROVE  /\ jobs[j] = "none" \/ jobs[k] = "none"
                 /\ ~(j \in orders /\ k \in orders)
      <4>1. CASE j = n \/ k = n
        BY <3>2, <3>3, <4>1
      <4>2. CASE j # n /\ k # n
        <5>1. j \in 1..Len(stream) /\ k \in 1..Len(stream)
          BY <3>1, <4>2
        <5>2. stream[j] = stream[k]
          BY <1>1, <3>4, <5>1
        <5>3. QED
          BY <3>4, <5>1, <5>2 DEF TablesAgree
      <4>3. QED
        BY <4>1, <4>2
    <3>5. QED
      BY <1>0, <3>1, <3>4 DEF TablesAgree
  <2>3. QED
    BY <2>1, <2>2 DEF Environment, ExpireLock, ExpireCooldown, SetControl, ClearControl,
                      PauseSymbol, group
<1>4. QED
  BY <1>2, <1>3

\* The strengthening is inductive together with the tables' agreement.
LEMMA StepInv == ConsumerInv /\ TablesAgree /\ [Next]_vars => ConsumerInv' /\ TablesAgree'
<1> SUFFICES ASSUME ConsumerInv, TablesAgree, [Next]_vars PROVE ConsumerInv' /\ TablesAgree'
  OBVIOUS
<1>0. TypeOK /\ InHand /\ Parsed /\ Writable /\ LockCovers /\ LateAtMostOnce /\ TablesFollow
  BY DEF ConsumerInv
<1>1. CASE Next
  <2>1. TypeOK' /\ InHand' /\ Parsed' /\ Writable' /\ LockCovers' /\ LateAtMostOnce'
    BY <1>0, <1>1, TypeStep, HandStep, LockStep, LateStep
  <2>2. TablesFollow' /\ TablesAgree'
    <3>1. CASE Environment
      BY <1>0, <3>1, AroundStep
    <3>2. ASSUME NEW w \in Workers, Step(w) PROVE TablesFollow' /\ TablesAgree'
      <4>1. OwnEntries' /\ RowsBehind'
        BY <1>0, <2>1, <3>2, OwnStep DEF TablesFollow
      <4>2. RowFollows(w)' /\ OrderFollows(w)' /\ CooldownSeen(w)'
        BY <1>0, <3>2, RowStep, OrderStep, CooldownStep
      <4>3. \A v \in Workers \ {w} : RowFollows(v)' /\ OrderFollows(v)' /\ CooldownSeen(v)'
        BY <1>0, <3>2, OthersKeep
      <4>4. TablesFollow'
        BY <4>1, <4>2, <4>3 DEF TablesFollow
      <4>5. QED
        BY <1>0, <3>2, <4>4, AgreeStep
    <3>3. QED
      BY <1>1, <3>1, <3>2 DEF Next
  <2>3. QED
    BY <2>1, <2>2 DEF ConsumerInv
<1>2. CASE UNCHANGED vars
  <2> USE <1>0, <1>2 DEF vars, group, redis, db, local, history
  <2>1. TypeOK'
    BY DEF TypeOK, TypeGroup, TypeRedis, TypeDb, TypeLocal, TypeEvents, TypeFaults, TypeHistory
  <2>2. InHand' /\ Parsed' /\ Writable' /\ LockCovers' /\ LateAtMostOnce'
    BY DEF InHand, Parsed, Writable, LockCovers, LateAtMostOnce, Admitted, IntentOf, Executed,
           PastKillSwitch
  <2>3. OwnEntries' /\ RowsBehind'
    BY DEF TablesFollow, OwnEntries, RowsBehind
  <2>4. ASSUME NEW w \in Workers PROVE RowFollows(w)' /\ OrderFollows(w)' /\ CooldownSeen(w)'
    BY DEF TablesFollow, RowFollows, OrderFollows, CooldownSeen, At, Has, Row, BeforeVerdict,
           BeforeAnswer, BeforeAcknowledged, BeforeFilled, PastCooldown, Alone, SymbolAt, IntentOf
  <2>5. TablesAgree'
    BY DEF TablesAgree
  <2>6. QED
    BY <2>1, <2>2, <2>3, <2>4, <2>5 DEF ConsumerInv, TablesFollow
<1>3. QED
  BY <1>1, <1>2

\* Type correctness, the strengthening and the agreement of the tables hold at
\* every await, for any number of instances.
LEMMA AlwaysInv == Spec => [](ConsumerInv /\ TablesAgree)
<1>1. Init => ConsumerInv /\ TablesAgree
  BY InitInv, ConsumerConstants DEF Init, TablesAgree
<1>2. QED
  BY <1>1, StepInv, PTL DEF Spec

\* What _process keeps at every await, for every instance.
THEOREM ConsumerInvariant == Spec => []ConsumerInv
BY AlwaysInv, PTL

\* create_job, create_order, save_fill and update_job_status are transactions of
\* their own and each may fail: the tables agree after every one of them all the
\* same, because none is attempted before the one it rests on.
THEOREM TablesAlwaysAgree == Spec => []TablesAgree
BY AlwaysInv, PTL

\* Deduplication (consumer.py, the SETNX lock): while the lock of an intent
\* has not expired, its entries are announced as filled at most once, however
\* many instances, entries and failures there are.
THEOREM Deduplication == Spec => []FilledOncePerLock
<1>1. ConsumerInv => FilledOncePerLock
  BY ConsumerConstants DEF ConsumerInv, LockCovers, FilledOncePerLock, TypeOK,
     TypeGroup, TypeEvents, Executed, Jobs, Entries
<1>2. QED
  BY <1>1, ConsumerInvariant, PTL

\* The kill switch (risk/engine.py, evaluate): an instance submits at most
\* one order while the switch is on, the one it had already let past it.
THEOREM KillSwitchBound == Spec => OneLateSubmit
<1>1. ConsumerInv => [\A w \in Workers : Submit(w) /\ "kill_switch" \in halts
                                          => w \notin late]_vars
  BY DEF ConsumerInv, LateAtMostOnce, Submit, PastKillSwitch
<1>2. QED
  BY <1>1, ConsumerInvariant, PTL DEF OneLateSubmit
\* The cooldown (risk/cooldown.py): an instance that is alone submits nothing for
\* a symbol on cooldown, however long its gate and its checks take.
THEOREM CooldownKept == Spec => NoReentry
<1>1. ConsumerInv => [\A w \in Workers : Submit(w) /\ Alone(w)
                                          => SymbolAt(w) \notin cooldown]_vars
  BY DEF ConsumerInv, TablesFollow, CooldownSeen, Submit, PastCooldown
<1>2. QED
  BY <1>1, ConsumerInvariant, PTL DEF NoReentry

-----------------------------------------------------------------------------
\* The states one more edge reaches.
LEMMA FurtherStep ==
  ASSUME NEW S, NEW s \in S, NEW t \in LC!ValidJobTransitions[s]
  PROVE  s \in LC!Further(S) /\ t \in LC!Further(S)
BY DEF LC!Further

\* The ways a job whose writes get lost can jump.
LEMMA Jumps ==
  /\ \A s \in {"queued", "approved", "submitted", "acknowledged"} : s \in LC!JobStates
  /\ {"approved", "blocked", "failed", "submitted", "acknowledged", "filled"}
       \subseteq LC!Ahead["queued"]
  /\ {"failed", "submitted", "acknowledged", "filled"} \subseteq LC!Ahead["approved"]
  /\ {"acknowledged", "filled"} \subseteq LC!Ahead["submitted"]
  /\ "filled" \in LC!Ahead["acknowledged"]
<1> DEFINE V == LC!ValidJobTransitions
           States == {"queued", "approved", "submitted", "acknowledged"}
<1>1. \A s \in States : s \in LC!JobStates
  BY DEF LC!JobStates
<1>2. /\ {"approved", "blocked", "failed"} \subseteq V["queued"]
      /\ {"submitted", "failed"} \subseteq V["approved"]
      /\ "acknowledged" \in V["submitted"] /\ "filled" \in V["acknowledged"]
  BY DEF LC!ValidJobTransitions, LC!JobStates
<1>3. ASSUME NEW S PROVE S \subseteq LC!Further(S)
  BY DEF LC!Further
<1>4. ASSUME NEW S
      PROVE  /\ "approved" \in S => "submitted" \in LC!Further(S)
             /\ "submitted" \in S => "acknowledged" \in LC!Further(S)
             /\ "acknowledged" \in S => "filled" \in LC!Further(S)
  BY <1>2, FurtherStep
<1>5. ASSUME NEW s \in States
      PROVE  LC!Ahead[s] = LC!Further(LC!Further(LC!Further(LC!Further(LC!Further(V[s])))))
  BY <1>1, <1>5 DEF LC!Ahead
<1>6. ASSUME NEW S
      PROVE  LET T == LC!Further(LC!Further(LC!Further(LC!Further(LC!Further(S))))) IN
             /\ S \subseteq T
             /\ "approved" \in S => {"submitted", "acknowledged", "filled"} \subseteq T
             /\ "submitted" \in S => {"acknowledged", "filled"} \subseteq T
             /\ "acknowledged" \in S => "filled" \in T
  <2> DEFINE A == LC!Further(S)
             B == LC!Further(A)
             C == LC!Further(B)
             D == LC!Further(C)
             E == LC!Further(D)
  <2>1. S \subseteq A /\ A \subseteq B /\ B \subseteq C /\ C \subseteq D /\ D \subseteq E
    BY <1>3
  <2>2. /\ "approved" \in S => "submitted" \in A
        /\ "submitted" \in A => "acknowledged" \in B
        /\ "acknowledged" \in B => "filled" \in C
    BY <1>4
  <2>3. /\ "submitted" \in S => "acknowledged" \in A
        /\ "acknowledged" \in S => "filled" \in A
    BY <1>4
  <2>4. "acknowledged" \in A => "filled" \in B
    BY <1>4
  <2> HIDE DEF A, B, C, D, E
  <2>5. /\ S \subseteq E
        /\ "approved" \in S => {"submitted", "acknowledged", "filled"} \subseteq E
        /\ "submitted" \in S => {"acknowledged", "filled"} \subseteq E
        /\ "acknowledged" \in S => "filled" \in E
    BY <2>1, <2>2, <2>3, <2>4
  <2>6. QED
    BY <2>5 DEF A, B, C, D, E
<1>7. QED
  BY <1>1, <1>2, <1>5, <1>6

\* A write of a row is an edge of VALID_JOB_TRANSITIONS, or several at once when
\* something has failed.
LEMMA RowMoves ==
  ASSUME ConsumerInv, Next, jobs' # jobs
  PROVE  \E j \in Jobs :
           /\ LC!Insert(j) \/ LC!MoveAhead(j)
           /\ faults' = 0 => LC!Insert(j) \/ LC!Move(j)
<1>0. TypeOK /\ InHand /\ Writable /\ TablesFollow
  BY DEF ConsumerInv
<1>1. PICK w \in Workers : CreateJob(w) \/ Persist(w)
  <2>1. PICK w \in Workers : Step(w)
    BY DEF Next, Environment, PublishIntent, ExpireLock, ExpireCooldown, SetControl,
           ClearControl, PauseSymbol, db
  <2>2. CreateJob(w) \/ Persist(w)
    BY <2>1 DEF Step, Tick, SkipMalformed, Acquire, CheckGate, GateError, CheckLimits, Publish,
       Submit, CreateOrder, SaveFill, SetCooldown, LogIncident, Ack, Abandon, db
  <2>3. QED
    BY <2>2
<1> DEFINE e == entry[w]
<1>2. /\ e \in Jobs /\ faults \in Nat /\ jobs \in [Jobs -> LC!JobStates \cup {"none"}]
      /\ RowFollows(w) /\ stage[w] \in Stages
  <2>1. phase[w] # "idle"
    BY <1>1 DEF CreateJob, Persist
  <2>2. QED
    BY <1>0, <2>1, EntryInHand DEF TablesFollow, TypeOK, TypeFaults, TypeDb, TypeLocal
<1>3. CASE CreateJob(w)
  <2>1. jobs' = [jobs EXCEPT ![e] = "queued"] /\ jobs[e] = "none"
    BY <1>2, <1>3 DEF CreateJob, RowFollows, Row
  <2>2. QED
    BY <1>2, <2>1 DEF LC!Insert
<1>4. CASE Persist(w)
  <2>1. /\ phase[w] = "persist" /\ jobs[e] # "none" /\ faults' = faults
        /\ jobs' = [jobs EXCEPT ![e] = StatusOf(stage[w])]
    BY <1>4 DEF Persist, NoFault
  <2> DEFINE to == StatusOf(stage[w])
             from == jobs[e]
  <2>2. to \in LC!JobStates \ {"queued"}
    BY <1>0, <2>1 DEF Writable
  <2>3. from \in LC!JobStates
    BY <1>2, <2>1
  <2>4. /\ to \in LC!Ahead[from]
        /\ faults' = 0 => to \in LC!ValidJobTransitions[from]
    <3>0. /\ {"approved", "blocked"} \subseteq LC!ValidJobTransitions["queued"]
          /\ {"submitted", "failed"} \subseteq LC!ValidJobTransitions["approved"]
          /\ "acknowledged" \in LC!ValidJobTransitions["submitted"]
          /\ "filled" \in LC!ValidJobTransitions["acknowledged"]
      BY DEF LC!ValidJobTransitions, LC!JobStates
    <3>1. CASE stage[w] \in {"approved", "blocked"}
      <4>1. from = "queued" /\ to \in {"approved", "blocked"}
        BY <1>2, <2>1, <3>1 DEF RowFollows, BeforeVerdict, At, Has, Row, StatusOf
      <4>2. QED
        BY <3>0, <4>1, Jumps
    <3>2. CASE stage[w] \in {"submitted", "rejected", "failed"}
      <4>1. from = "approved" \/ (faults' > 0 /\ from = "queued")
        BY <1>2, <2>1, <3>2 DEF RowFollows, BeforeAnswer, At, Has, Row
      <4>2. to \in {"submitted", "failed"}
        BY <3>2 DEF StatusOf
      <4>3. QED
        BY <3>0, <4>1, <4>2, <1>2, <2>1, Jumps
    <3>3. CASE stage[w] = "acknowledged"
      <4>1. from = "submitted" \/ (faults' > 0 /\ from \in {"queued", "approved"})
        BY <1>2, <2>1, <3>3 DEF RowFollows, BeforeAcknowledged, At, Has, Row
      <4>2. to = "acknowledged"
        BY <3>3 DEF StatusOf
      <4>3. QED
        BY <3>0, <4>1, <4>2, <1>2, <2>1, Jumps
    <3>4. CASE stage[w] = "filled"
      <4>1. \/ from = "acknowledged"
            \/ (faults' > 0 /\ from \in {"queued", "approved", "submitted"})
        BY <1>2, <2>1, <3>4 DEF RowFollows, BeforeFilled, At, Has, Row
      <4>2. to = "filled"
        BY <3>4 DEF StatusOf
      <4>3. QED
        BY <3>0, <4>1, <4>2, <1>2, <2>1, Jumps
    <3>5. stage[w] \notin {"queued", "duplicate"}
      BY <2>2 DEF StatusOf, LC!JobStates
    <3>6. QED
      BY <1>2, <3>1, <3>2, <3>3, <3>4, <3>5 DEF Stages
  <2>5. LC!MoveAhead(e)
    BY <2>1, <2>3, <2>4 DEF LC!MoveAhead
  <2>6. faults' = 0 => LC!Move(e)
    BY <2>1, <2>2, <2>3, <2>4 DEF LC!Move, LC!CanTransition
  <2>7. QED
    BY <1>2, <2>5, <2>6
<1>5. QED
  BY <1>1, <1>3, <1>4

\* The consumer implements the life cycle of a job with lost writes, and loses
\* none before something fails (jobs/lifecycle.py, VALID_JOB_TRANSITIONS).
THEOREM ConsumerImplementsLifecycle == Spec => JobLifecycleSpec
<1>1. Init => LC!Init
  BY DEF Init, LC!Init
<1>2. ConsumerInv /\ [Next]_vars
        => /\ [\E j \in Jobs : LC!Insert(j) \/ LC!MoveAhead(j)]_jobs
           /\ [faults' = 0 => [LC!Next]_jobs]_vars
  <2> SUFFICES ASSUME ConsumerInv, [Next]_vars, jobs' # jobs
               PROVE  /\ \E j \in Jobs : LC!Insert(j) \/ LC!MoveAhead(j)
                      /\ faults' = 0 => LC!Next
    OBVIOUS
  <2>1. Next
    BY DEF vars, db
  <2>2. QED
    BY <2>1, RowMoves DEF LC!Next
<1>3. QED
  BY <1>1, <1>2, ConsumerInvariant, PTL
     DEF Spec, JobLifecycleSpec, StepsWithoutFaults, LC!LossySpec
=============================================================================
