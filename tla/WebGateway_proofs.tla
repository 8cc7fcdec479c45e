-------------------------- MODULE WebGateway_proofs --------------------------
(***************************************************************************)
(* Theorems about WebGateway for any number of sessions, calls, tools and  *)
(* scopes, and for any cap.                                                *)
(***************************************************************************)
EXTENDS WebGateway, ToolPath, FiniteSetTheorems, SequenceTheorems, TLAPS

LEMMA InitInv == GatewayInit => GatewayInv
<1> SUFFICES ASSUME GatewayInit PROVE GatewayInv
  OBVIOUS
<1> USE GatewayAssumption DEF GatewayInit
<1>1. GatewayType
  BY DEF GatewayType, Labels
<1>2. CapHolds
  BY FS_EmptySet DEF CapHolds
<1>3. InFlight /\ AuditTellsOutcome /\ FinishedIsAnswered
  BY DEF InFlight, AuditTellsOutcome, FinishedIsAnswered, Copies
<1>4. QED
  BY <1>1, <1>2, <1>3 DEF GatewayInv

\* Where a handler answers, the call is in some session's hands.
LEMMA SessionOfCall ==
  ASSUME GatewayType, InFlight, NEW c \in Calls, pc[c] # "new"
  PROVE  /\ session[c] \in Ids
         /\ queue[session[c]] \in Seq(Calls)
         /\ Append(queue[session[c]], c) \in Seq(Calls)
BY DEF GatewayType, InFlight

LEMMA TypeStep == GatewayType /\ InFlight /\ GatewayNext => GatewayType'
<1> SUFFICES ASSUME GatewayType, InFlight, GatewayNext PROVE GatewayType'
  OBVIOUS
<1> USE GatewayAssumption DEF GatewayType, sessionVars, callVars
<1>1. ASSUME NEW s \in Ids, Open(s) PROVE GatewayType'
  BY <1>1 DEF Open
<1>2. ASSUME NEW s \in Ids, Start(s) PROVE GatewayType'
  BY <1>2 DEF Start, Fault
<1>3. ASSUME NEW s \in Ids, Deliver(s) PROVE GatewayType'
  <2>1. Head(queue[s]) \in Calls /\ Tail(queue[s]) \in Seq(Calls)
    BY <1>3, HeadTailProperties DEF Deliver
  <2>2. QED
    BY <1>3, <2>1 DEF Deliver
<1>4. ASSUME NEW s \in Ids, End(s) PROVE GatewayType'
  BY <1>4 DEF End
<1>5. ASSUME NEW c \in Calls, NEW s \in Ids, NEW t \in Tools \cup {"tools/list", "ping"},
             Post(c, s, t)
      PROVE  GatewayType'
  BY <1>5 DEF Post, Goto, Labels
<1>6. ASSUME NEW c \in Calls, pc[c] # "new", Answer(c)
      PROVE  queue' \in [Ids -> Seq(Calls)]
  BY <1>6, SessionOfCall DEF Answer
<1>7. ASSUME NEW c \in Calls, NEW l \in Labels, Goto(c, l)
      PROVE  pc' \in [Calls -> Labels]
  BY <1>7 DEF Goto
<1>8. ASSUME NEW c \in Calls, NEW o \in {"allowed", "denied", "upstream_error", "error"}, Log(c, o)
      PROVE  audit' \subseteq [call : Calls,
                               outcome : {"allowed", "denied", "upstream_error", "error"}]
  BY <1>8 DEF Log
<1>9. ASSUME NEW c \in Calls, Handle(c) PROVE GatewayType'
  <2>1. pc[c] # "new" /\ UNCHANGED <<sessionVars, received, callVars, forwarded>>
    BY <1>9 DEF Handle, AnswerLocally, CheckPolicy, Connect, Initialize, Call
  <2>2. queue' \in [Ids -> Seq(Calls)]
    BY <1>6, <1>9, <2>1
       DEF Handle, AnswerLocally, CheckPolicy, Connect, Initialize, Call, Escape
  <2>3. \E l \in Labels : Goto(c, l)
    BY <1>9 DEF Handle, AnswerLocally, CheckPolicy, Connect, Initialize, Call, Escape, Labels
  <2>4. UNCHANGED audit
          \/ \E o \in {"allowed", "denied", "upstream_error", "error"} : Log(c, o)
    BY <1>9
       DEF Handle, AnswerLocally, CheckPolicy, Connect, Initialize, Call, Escape, Finish
  <2>5. faults' \subseteq {"never_started", "unreachable", "timeout", "broken"}
    BY <1>9
       DEF Handle, AnswerLocally, CheckPolicy, Connect, Initialize, Call, Fault
  <2>6. sent' = sent \/ sent' = sent \cup {c}
    BY <1>9 DEF Handle, AnswerLocally, CheckPolicy, Connect, Initialize, Call
  <2>7. QED
    BY <1>7, <1>8, <2>1, <2>2, <2>3, <2>4, <2>5, <2>6
<1>10. ASSUME NEW c \in Calls, Reach(c) PROVE GatewayType'
  BY <1>10 DEF Reach
<1>11. QED
  BY <1>1, <1>2, <1>3, <1>4, <1>5, <1>9, <1>10 DEF GatewayNext

\* The session is entered in the step that counted the others.
LEMMA CapStep == GatewayType /\ CapHolds /\ GatewayNext => CapHolds'
<1> SUFFICES ASSUME GatewayType, CapHolds, GatewayNext PROVE CapHolds'
  OBVIOUS
<1> USE GatewayAssumption DEF GatewayType, CapHolds
<1>0. /\ IsFiniteSet(sessions) /\ Cardinality(sessions) \in Nat
      /\ Cardinality(sessions) <= MaxSessions /\ MaxSessions \in Nat
  BY FS_Subset, FS_CardinalityType
<1>1. ASSUME NEW s \in Ids, Open(s) PROVE CapHolds'
  <2>1. CASE Full
    BY <1>1, <2>1 DEF Open
  <2>2. CASE ~Full
    <3>1. Cardinality(sessions \cup {s}) \in {Cardinality(sessions), Cardinality(sessions) + 1}
      BY ONLY <1>0, FS_AddElement
    <3>2. sessions' = sessions \cup {s} /\ stream' = [stream EXCEPT ![s] = "created"]
      BY <1>1, <2>2 DEF Open
    <3>3. Cardinality(sessions') <= MaxSessions
      BY ONLY <1>0, <2>2, <3>1, <3>2 DEF Full
    <3>4. QED
      BY <3>2, <3>3
  <2>3. QED
    BY <2>1, <2>2
<1>2. ASSUME NEW s \in Ids, Start(s) PROVE CapHolds'
  BY <1>2 DEF Start
<1>3. ASSUME NEW s \in Ids, End(s) PROVE CapHolds'
  <2>1. Cardinality(sessions \ {s}) \in {Cardinality(sessions), Cardinality(sessions) - 1}
    BY ONLY <1>0, FS_RemoveElement
  <2>2. QED
    BY <1>0, <1>3, <2>1 DEF End
<1>4. CASE UNCHANGED <<sessions, stream>>
  BY <1>4
<1>5. QED
  BY <1>1, <1>2, <1>3, <1>4
     DEF GatewayNext, Handle, sessionVars, Deliver, Post, AnswerLocally, CheckPolicy, Connect,
         Initialize, Reach, Call

\* What the policy let pass stays permitted: a session's scopes are set when it
\* is opened, before it has any call.
LEMMA InFlightStep == GatewayType /\ InFlight /\ GatewayNext => InFlight'
<1> SUFFICES ASSUME GatewayType, InFlight, GatewayNext PROVE InFlight'
  OBVIOUS
<1> USE GatewayAssumption DEF GatewayType, InFlight, sessionVars, callVars, Permitted
<1>1. ASSUME NEW s \in Ids, Open(s) PROVE InFlight'
  <2>1. UNCHANGED <<pc, session, tool, sent>> /\ stream[s] = "none"
    BY <1>1 DEF Open
  <2>2. ASSUME NEW t \in Ids, t # s
        PROVE  granted'[t] = granted[t] /\ stream'[t] = stream[t]
    BY <1>1, <2>2 DEF Open
  <2>3. ASSUME NEW c \in Calls, pc[c] # "new"
        PROVE  /\ session[c] \in Ids /\ session[c] # s
               /\ granted'[session[c]] = granted[session[c]]
               /\ stream'[session[c]] = stream[session[c]]
    BY <2>1, <2>2, <2>3
  <2>4. QED
    BY <2>1, <2>3
<1>2. ASSUME NEW s \in Ids, Start(s) \/ Deliver(s) \/ End(s) PROVE InFlight'
  BY <1>2 DEF Start, Deliver, End
<1>3. ASSUME NEW c \in Calls, NEW s \in Ids, NEW t \in Tools \cup {"tools/list", "ping"},
             Post(c, s, t)
      PROVE  InFlight'
  BY <1>3 DEF Post, Goto
<1>4. ASSUME NEW c \in Calls, AnswerLocally(c) PROVE InFlight'
  BY <1>4 DEF AnswerLocally, Goto
<1>5. ASSUME NEW c \in Calls, CheckPolicy(c) PROVE InFlight'
  BY <1>5 DEF CheckPolicy, Goto
<1>6. ASSUME NEW c \in Calls, Connect(c) PROVE InFlight'
  BY <1>6 DEF Connect, Escape, Goto
<1>7. ASSUME NEW c \in Calls, Initialize(c) PROVE InFlight'
  BY <1>7 DEF Initialize, Escape, Goto
<1>8. ASSUME NEW c \in Calls, Reach(c) PROVE InFlight'
  BY <1>8 DEF Reach
<1>9. ASSUME NEW c \in Calls, Call(c) PROVE InFlight'
  BY <1>9 DEF Call, Escape, Goto
<1>10. QED
  BY <1>1, <1>2, <1>3, <1>4, <1>5, <1>6, <1>7, <1>8, <1>9 DEF GatewayNext, Handle

\* A finished tool call has the one line that was written when it finished.
LEMMA AuditStep ==
  GatewayType /\ InFlight /\ AuditTellsOutcome /\ GatewayNext => AuditTellsOutcome'
<1> SUFFICES ASSUME GatewayType, InFlight, AuditTellsOutcome, GatewayNext
             PROVE  AuditTellsOutcome'
  OBVIOUS
<1> DEFINE Ended == {"answered", "raised"}
<1>0. /\ pc \in [Calls -> Labels] /\ forwarded \subseteq sent
      /\ \A a \in audit : a.call \in Calls
  BY DEF GatewayType
<1>1. ASSUME NEW c \in Calls, tool[c] \in Tools, pc[c] \notin Ended,
             NEW o, o \in {"allowed", "denied", "upstream_error", "error"}, Log(c, o),
             Goto(c, IF o = "error" THEN "raised" ELSE "answered"),
             UNCHANGED <<tool, sent, forwarded>>,
             o = "allowed" => c \in forwarded, o = "denied" => c \notin sent
      PROVE  AuditTellsOutcome'
  <2>1. \A a \in audit : a.call # c
    BY <1>1 DEF AuditTellsOutcome
  <2> DEFINE new == [call |-> c, outcome |-> o]
  <2>2. audit' = audit \cup {new} /\ new.call = c /\ new.outcome = o
    BY <1>1 DEF Log
  <2> HIDE DEF new
  <2>3. /\ \A d \in Calls \ {c} : pc'[d] = pc[d]
        /\ pc'[c] = IF o = "error" THEN "raised" ELSE "answered"
    BY <1>0, <1>1 DEF Goto
  <2>4. ASSUME NEW d \in Calls \ {c} PROVE AuditTellsOutcome!(d)'
    BY <1>1, <2>2, <2>3 DEF AuditTellsOutcome
  <2>5. AuditTellsOutcome!(c)'
    BY <1>1, <2>1, <2>2, <2>3 DEF AuditTellsOutcome
  <2>6. QED
    BY <2>4, <2>5 DEF AuditTellsOutcome
<1>2. ASSUME UNCHANGED audit, sent \subseteq sent', forwarded \subseteq forwarded',
             \A c \in Calls : c \in sent' \ sent => pc[c] = "opening",
             \A c \in Calls : pc'[c] \in Ended \/ pc[c] \in Ended \/ tool'[c] # tool[c] =>
               \/ tool'[c] = tool[c] /\ pc'[c] = pc[c]
               \/ tool'[c] = tool[c] /\ tool[c] \notin Tools
               \/ pc[c] = "new" /\ pc'[c] \notin Ended
      PROVE  AuditTellsOutcome'
  <2> SUFFICES ASSUME NEW c \in Calls PROVE AuditTellsOutcome!(c)'
    BY DEF AuditTellsOutcome
  <2>1. CASE pc[c] \in Ended
    BY <1>2, <2>1 DEF AuditTellsOutcome
  <2>2. CASE pc[c] \notin Ended
    BY <1>2, <2>2 DEF AuditTellsOutcome
  <2>3. QED
    BY <2>1, <2>2
<1>3. ASSUME NEW s \in Ids, Open(s) \/ Start(s) \/ Deliver(s) \/ End(s)
      PROVE  AuditTellsOutcome'
  BY <1>2, <1>3 DEF Open, Start, Deliver, End, callVars
<1>4. ASSUME NEW c \in Calls, NEW s \in Ids, NEW t \in Tools \cup {"tools/list", "ping"},
             Post(c, s, t)
      PROVE  AuditTellsOutcome'
  BY <1>0, <1>2, <1>4 DEF Post, Goto, GatewayType
<1>5. ASSUME NEW c \in Calls, Handle(c) PROVE AuditTellsOutcome'
  <2>0. /\ pc[c] \notin Ended /\ UNCHANGED <<callVars, forwarded>>
        /\ pc[c] \in {"connecting", "opening", "calling"} =>
             tool[c] = "tools/list" \/ tool[c] \in Tools
        /\ pc[c] = "checking" => tool[c] \in Tools
        /\ pc[c] = "answering" => tool[c] \notin Tools
        /\ c \in sent => pc[c] \in {"calling", "answered", "raised"}
    BY <1>5, GatewayAssumption
       DEF Handle, AnswerLocally, CheckPolicy, Connect, Initialize, Call, InFlight, Permitted
  <2>1. CASE tool[c] \notin Tools
    <3>1. UNCHANGED audit
      BY <1>5, <2>0, <2>1
         DEF Handle, AnswerLocally, CheckPolicy, Connect, Initialize, Call, Escape, Finish
    <3>2. QED
      BY <1>0, <1>2, <1>5, <2>0, <2>1, <3>1
         DEF Handle, AnswerLocally, CheckPolicy, Connect, Initialize, Call, Escape, Goto, callVars
  <2>2. CASE tool[c] \in Tools
    <3>0. tool[c] # "tools/list"
      BY <2>2, GatewayAssumption
    <3>1. CASE UNCHANGED audit /\ \E l \in {"connecting", "opening", "calling"} : Goto(c, l)
      <4>1. \A d \in Calls : pc'[d] = pc[d] \/ (d = c /\ pc[c] \notin Ended /\ pc'[c] \notin Ended)
        BY <1>0, <2>0, <3>1 DEF Goto
      <4>2. sent' = sent \/ (pc[c] = "opening" /\ sent' = sent \cup {c})
        BY <1>5 DEF Handle, AnswerLocally, CheckPolicy, Connect, Initialize, Call
      <4>3. QED
        BY <1>2, <2>0, <3>1, <4>1, <4>2 DEF callVars
    <3>2. CASE /\ sent' = sent
               /\ \E o \in {"allowed", "denied", "upstream_error", "error"} :
                    /\ Log(c, o) /\ Goto(c, IF o = "error" THEN "raised" ELSE "answered")
                    /\ o = "allowed" => c \in forwarded
                    /\ o = "denied" => c \notin sent
      BY <1>1, <2>0, <2>2, <3>2 DEF callVars
    <3>3. CASE CheckPolicy(c)
      BY <2>0, <3>1, <3>2, <3>3 DEF CheckPolicy
    <3>4. CASE Connect(c)
      BY <3>0, <3>1, <3>2, <3>4 DEF Connect, Escape, Finish
    <3>5. CASE Initialize(c)
      BY <3>0, <3>1, <3>2, <3>5 DEF Initialize, Escape, Finish
    <3>6. CASE Call(c)
      BY <3>0, <3>2, <3>6 DEF Call, Escape, Finish
    <3>7. QED
      BY <1>5, <2>0, <2>2, <3>3, <3>4, <3>5, <3>6 DEF Handle, AnswerLocally
  <2>3. QED
    BY <2>1, <2>2
<1>6. ASSUME NEW c \in Calls, Reach(c) PROVE AuditTellsOutcome'
  BY <1>2, <1>6 DEF Reach, callVars
<1>7. QED
  BY <1>3, <1>4, <1>5, <1>6 DEF GatewayNext

\* Appending a call to its own queue gives it one more copy there.
LEMMA CopiesAfterAnswer ==
  ASSUME GatewayType, InFlight, NEW c \in Calls, pc[c] # "new", Answer(c),
         \A s \in Ids : Copies(c, s) = {},
         NEW d \in Calls, NEW s \in Ids
  PROVE  Copies(d, s)' = IF d = c /\ s = session[c] THEN {Len(queue[s]) + 1} ELSE Copies(d, s)
<1>1. session[c] \in Ids /\ queue \in [Ids -> Seq(Calls)]
  BY SessionOfCall DEF GatewayType
<1>2. CASE s # session[c]
  BY <1>1, <1>2 DEF Answer, Copies
<1>3. CASE s = session[c]
  <2>1. queue'[s] = Append(queue[s], c) /\ queue[s] \in Seq(Calls)
    BY <1>1, <1>3 DEF Answer
  <2>2. /\ DOMAIN queue[s] = 1..Len(queue[s]) /\ DOMAIN queue'[s] = 1..(Len(queue[s]) + 1)
        /\ \A i \in 1..Len(queue[s]) : queue'[s][i] = queue[s][i]
        /\ queue'[s][Len(queue[s]) + 1] = c /\ Len(queue[s]) \in Nat
    BY <2>1, AppendProperties, LenProperties
  <2>3. \A i : i \in Copies(d, s)' <=> \/ i \in Copies(d, s)
                                       \/ d = c /\ i = Len(queue[s]) + 1
    BY <2>2 DEF Copies
  <2>4. QED
    BY <1>3, <2>3
<1>4. QED
  BY <1>2, <1>3

\* Reading the head of a queue takes away that copy and moves the others.
LEMMA CopiesAfterDeliver ==
  ASSUME GatewayType, NEW s \in Ids, Deliver(s), NEW d \in Calls, NEW t \in Ids
  PROVE  /\ t # s => Copies(d, t)' = Copies(d, t)
         /\ \A i : i \in Copies(d, s)' <=> i \in Nat \ {0} /\ i + 1 \in Copies(d, s)
         /\ Head(queue[s]) \in Calls
         /\ 1 \in Copies(d, s) <=> d = Head(queue[s])
         /\ Copies(d, s) \subseteq Nat \ {0}
<1>1. /\ queue \in [Ids -> Seq(Calls)] /\ queue[s] \in Seq(Calls) /\ queue[s] # <<>>
      /\ queue' = [queue EXCEPT ![s] = Tail(queue[s])]
  BY DEF Deliver, GatewayType
<1>2. /\ Head(queue[s]) \in Calls /\ Head(queue[s]) = queue[s][1]
      /\ Len(queue[s]) \in Nat \ {0} /\ DOMAIN queue[s] = 1..Len(queue[s])
      /\ DOMAIN Tail(queue[s]) = 1..(Len(queue[s]) - 1)
      /\ \A i \in 1..(Len(queue[s]) - 1) : Tail(queue[s])[i] = queue[s][i + 1]
  BY <1>1, HeadTailProperties, LenProperties, EmptySeq
<1>3. t # s => Copies(d, t)' = Copies(d, t)
  BY <1>1 DEF Copies
<1>4. \A i : i \in Copies(d, s)' <=> i \in Nat \ {0} /\ i + 1 \in Copies(d, s)
  <2>1. queue'[s] = Tail(queue[s])
    BY <1>1
  <2>2. QED
    BY <1>2, <2>1 DEF Copies
<1>5. QED
  BY <1>2, <1>3, <1>4 DEF Copies

\* An answer is put on a queue when the call finishes, and read once.
LEMMA AnswerStep ==
  GatewayType /\ InFlight /\ FinishedIsAnswered /\ GatewayNext => FinishedIsAnswered'
<1> SUFFICES ASSUME GatewayType, InFlight, FinishedIsAnswered, GatewayNext
             PROVE  FinishedIsAnswered'
  OBVIOUS
<1>0. pc \in [Calls -> Labels]
  BY DEF GatewayType
<1>1. ASSUME NEW c \in Calls, pc[c] \notin {"new", "answered"}, Answer(c), Goto(c, "answered"),
             UNCHANGED <<received, session>>
      PROVE  FinishedIsAnswered'
  <2>1. session[c] \in Ids
    BY <1>1, SessionOfCall
  <2>2. c \notin received /\ \A s \in Ids : Copies(c, s) = {}
    BY <1>1 DEF FinishedIsAnswered
  <2>3. ASSUME NEW d \in Calls, NEW s \in Ids
        PROVE  Copies(d, s)' = IF d = c /\ s = session[c] THEN {Len(queue[s]) + 1}
                               ELSE Copies(d, s)
    BY <1>1, <2>2, CopiesAfterAnswer
  <2>4. ASSUME NEW d \in Calls \ {c} PROVE FinishedIsAnswered!(d)'
    <3>1. pc'[d] = pc[d] /\ \A s \in Ids : Copies(d, s)' = Copies(d, s)
      BY <1>0, <1>1, <2>3, <2>4 DEF Goto
    <3>2. QED
      BY <1>1, <3>1 DEF FinishedIsAnswered
  <2>5. FinishedIsAnswered!(c)'
    <3>1. /\ pc'[c] = "answered" /\ session'[c] = session[c] /\ received' = received
          /\ \A s \in Ids :
               Copies(c, s)' = IF s = session[c] THEN {Len(queue[s]) + 1} ELSE {}
      BY <1>0, <1>1, <2>1, <2>2, <2>3 DEF Goto
    <3>2. QED
      BY <2>1, <2>2, <3>1
  <2>6. QED
    BY <2>4, <2>5 DEF FinishedIsAnswered
<1>2. ASSUME NEW s \in Ids, Deliver(s) PROVE FinishedIsAnswered'
  <2> DEFINE head == Head(queue[s])
  <2>1. received' = received \cup {head} /\ UNCHANGED <<pc, session>>
    BY <1>2 DEF Deliver, callVars
  <2>2. ASSUME NEW d \in Calls
        PROVE  /\ \A t \in Ids \ {s} : Copies(d, t)' = Copies(d, t)
               /\ \A i : i \in Copies(d, s)' <=> i \in Nat \ {0} /\ i + 1 \in Copies(d, s)
               /\ 1 \in Copies(d, s) <=> d = head
               /\ Copies(d, s) \subseteq Nat \ {0}
    BY <1>2, CopiesAfterDeliver
  <2> HIDE DEF head
  <2> SUFFICES ASSUME NEW d \in Calls PROVE FinishedIsAnswered!(d)'
    BY DEF FinishedIsAnswered
  <2>3. \A t \in Ids : \A i, j \in Copies(d, t)' : i = j
    <3>1. \A i, j \in Copies(d, s)' : i = j
      <4> SUFFICES ASSUME NEW i \in Copies(d, s)', NEW j \in Copies(d, s)' PROVE i = j
        OBVIOUS
      <4>1. i + 1 \in Copies(d, s) /\ j + 1 \in Copies(d, s) /\ i \in Nat /\ j \in Nat
        BY <2>2
      <4>2. i + 1 = j + 1
        BY <4>1 DEF FinishedIsAnswered
      <4>3. QED
        BY <4>1, <4>2
    <3>2. QED
      BY <2>2, <3>1 DEF FinishedIsAnswered
  <2>4. CASE d = head
    <3>1. Copies(d, s) = {1}
      BY <2>2, <2>4 DEF FinishedIsAnswered
    <3>2. Copies(d, s)' = {}
      BY <2>2, <3>1
    <3>3. pc[d] = "answered" /\ session[d] = s
      BY <3>1 DEF FinishedIsAnswered
    <3>4. \A t \in Ids : Copies(d, t)' = {}
      BY <2>2, <3>2, <3>3 DEF FinishedIsAnswered
    <3>5. QED
      BY <2>1, <2>3, <2>4, <3>3, <3>4
  <2>5. CASE d # head
    <3>1. Copies(d, s)' = {} <=> Copies(d, s) = {}
      <4>1. \A i \in Copies(d, s) : i - 1 \in Nat \ {0} /\ (i - 1) + 1 = i
        BY <2>2, <2>5
      <4>2. QED
        BY <2>2, <4>1
    <3>2. \A t \in Ids : Copies(d, t)' = {} <=> Copies(d, t) = {}
      BY <2>2, <3>1
    <3>3. QED
      BY <2>1, <2>3, <2>5, <3>2 DEF FinishedIsAnswered
  <2>6. QED
    BY <2>4, <2>5
<1>3. ASSUME UNCHANGED <<queue, received>>,
             \A c \in Calls : /\ pc'[c] = "answered" <=> pc[c] = "answered"
                              /\ session'[c] = session[c] \/ pc[c] = "new"
      PROVE  FinishedIsAnswered'
  <2>1. \A c \in Calls, s \in Ids : Copies(c, s)' = Copies(c, s)
    BY <1>3 DEF Copies
  <2>2. ASSUME NEW c \in Calls PROVE FinishedIsAnswered!(c)'
    BY <1>3, <2>1 DEF FinishedIsAnswered
  <2>3. QED
    BY <2>2 DEF FinishedIsAnswered
<1>4. ASSUME NEW s \in Ids, Open(s) \/ Start(s) \/ End(s) PROVE FinishedIsAnswered'
  BY <1>3, <1>4 DEF Open, Start, End, callVars
<1>5. ASSUME NEW c \in Calls, NEW s \in Ids, NEW t \in Tools \cup {"tools/list", "ping"},
             Post(c, s, t)
      PROVE  FinishedIsAnswered'
  BY <1>3, <1>5 DEF Post, Goto
<1>6. ASSUME NEW c \in Calls, Handle(c) PROVE FinishedIsAnswered'
  <2>1. CASE Answer(c) /\ Goto(c, "answered")
    BY <1>1, <1>6, <2>1
       DEF Handle, AnswerLocally, CheckPolicy, Connect, Initialize, Call, callVars
  <2>2. CASE UNCHANGED queue /\ pc[c] # "answered"
             /\ \E l \in {"connecting", "opening", "calling", "raised"} : Goto(c, l)
    <3>1. UNCHANGED <<received, session>>
      BY <1>6 DEF Handle, AnswerLocally, CheckPolicy, Connect, Initialize, Call, callVars
    <3>2. \A d \in Calls : pc'[d] = "answered" <=> pc[d] = "answered"
      BY <1>0, <2>2 DEF Goto
    <3>3. QED
      BY <1>3, <2>2, <3>1, <3>2
  <2>3. QED
    BY <1>6, <2>1, <2>2
       DEF Handle, AnswerLocally, CheckPolicy, Connect, Initialize, Call, Escape
<1>7. ASSUME NEW c \in Calls, Reach(c) PROVE FinishedIsAnswered'
  BY <1>3, <1>7 DEF Reach, callVars
<1>8. QED
  BY <1>2, <1>4, <1>5, <1>6, <1>7 DEF GatewayNext

\* Every variable keeps its type, the cap holds, a stream has its session, only
\* what the policy let pass is on its way, and a finished call has one answer on
\* the queue of its own session and, if it was of a tool, one line of the audit.
THEOREM GatewayInvariant == GatewaySpec => []GatewayInv
<1>1. GatewayInv /\ [GatewayNext]_gatewayVars => GatewayInv'
  <2>1. CASE GatewayNext
    BY <2>1, TypeStep, CapStep, InFlightStep, AuditStep, AnswerStep DEF GatewayInv
  <2>2. CASE UNCHANGED gatewayVars
    BY <2>2 DEF gatewayVars, sessionVars, callVars, GatewayInv, GatewayType, CapHolds, InFlight,
       AuditTellsOutcome, FinishedIsAnswered, Copies
  <2>3. QED
    BY <2>1, <2>2
<1>2. QED
  BY InitInv, <1>1, PTL DEF GatewaySpec

\* "Write, control, and simulation tools are blocked at this layer": whatever
\* the interleaving, no tool is reached that is blocked, that the policy does not
\* know, or whose scope the session's token does not grant.
THEOREM BlockedNeverReached == GatewaySpec => []OnlyPermittedReachTools
<1>1. GatewayInv => OnlyPermittedReachTools
  BY GatewayAssumption
     DEF GatewayInv, GatewayType, InFlight, OnlyPermittedReachTools, Permitted
<1>2. QED
  BY GatewayInvariant, <1>1, PTL

-----------------------------------------------------------------------------
\* The gateway's shots are those of OneShot.

\* A line of the audit decides what has become of a finished call.
LEMMA ShotOfFinished ==
  ASSUME GatewayInv, NEW c \in Calls, tool[c] \in Tools, pc[c] \in {"answered", "raised"}
  PROVE  \E a \in audit :
           /\ a.call = c
           /\ ShotOf(c) = IF a.outcome = "allowed" THEN "ok"
                          ELSE IF a.outcome = "denied" THEN "idle" ELSE "failed"
<1>1. PICK a \in audit : a.call = c
  BY DEF GatewayInv, AuditTellsOutcome
<1>2. \A b \in audit : b.call = c => b = a
  BY <1>1 DEF GatewayInv, AuditTellsOutcome
<1>3. QED
  BY <1>1, <1>2 DEF ShotOf

\* An unfinished call has no line.
LEMMA ShotOfUnfinished ==
  ASSUME GatewayInv, NEW c \in Calls, pc[c] \notin {"answered", "raised"}
  PROVE  ShotOf(c) = IF tool[c] \in Tools /\ pc[c] \in {"connecting", "opening", "calling"}
                     THEN "open" ELSE "idle"
BY DEF GatewayInv, AuditTellsOutcome, ShotOf

\* A call that nothing happens to keeps what it is told.
LEMMA ShotKept ==
  ASSUME NEW c \in Calls, tool'[c] = tool[c], pc'[c] = pc[c],
         \A a : a \in audit' /\ a.call = c <=> a \in audit /\ a.call = c
  PROVE  ShotOf(c)' = ShotOf(c)
BY DEF ShotOf

\* How a call is told of its end, or of none.
LEMMA ShotOfHandle ==
  ASSUME GatewayInv, GatewayInv', NEW c \in Calls, Handle(c)
  PROVE  /\ forwarded' = forwarded /\ tool' = tool
         /\ \A d \in Calls \ {c} : ShotOf(d)' = ShotOf(d)
         /\ \/ ShotOf(c)' = ShotOf(c)
            \/ ShotOf(c) = "idle" /\ ShotOf(c)' = "open"
            \/ ShotOf(c) = "open" /\ ShotOf(c)' = "failed"
            \/ ShotOf(c) = "open" /\ ShotOf(c)' = "ok" /\ c \in forwarded /\ tool[c] \in Tools
<1>0. /\ pc \in [Calls -> Labels] /\ pc[c] \notin {"answered", "raised"}
      /\ forwarded' = forwarded /\ tool' = tool
  BY DEF Handle, AnswerLocally, CheckPolicy, Connect, Initialize, Call, callVars, GatewayInv,
     GatewayType
<1>1. \E l \in Labels \ {"new"} : Goto(c, l)
  BY DEF Handle, AnswerLocally, CheckPolicy, Connect, Initialize, Call, Escape, Labels
<1>2. audit' = audit \/ \E o : Log(c, o)
  BY DEF Handle, AnswerLocally, CheckPolicy, Connect, Initialize, Call, Escape, Finish
<1>3. ASSUME NEW d \in Calls \ {c} PROVE ShotOf(d)' = ShotOf(d)
  <2>1. pc'[d] = pc[d]
    BY <1>0, <1>1 DEF Goto
  <2>2. \A a : a \in audit' /\ a.call = d <=> a \in audit /\ a.call = d
    BY <1>2 DEF Log
  <2>3. QED
    BY <1>0, <2>1, <2>2, ShotKept
<1>4. CASE tool[c] \notin Tools
  <2>1. ShotOf(c) = "idle" /\ ShotOf(c)' = "idle"
    BY <1>0, <1>4 DEF ShotOf
  <2>2. QED
    BY <1>0, <1>3, <2>1
<1>5. CASE tool[c] \in Tools
  <2>0. tool[c] # "tools/list" /\ c \in Calls /\ tool'[c] \in Tools
    BY <1>0, <1>5, GatewayAssumption
  <2>1. ShotOf(c) = IF pc[c] \in {"connecting", "opening", "calling"} THEN "open" ELSE "idle"
    BY <1>0, <1>5, ShotOfUnfinished
  <2>2. pc'[c] \notin {"answered", "raised"} =>
          ShotOf(c)' = IF pc'[c] \in {"connecting", "opening", "calling"} THEN "open" ELSE "idle"
    BY <2>0 DEF GatewayInv, AuditTellsOutcome, ShotOf
  <2>3. ASSUME NEW o, Log(c, o), pc'[c] \in {"answered", "raised"}
        PROVE  ShotOf(c)' = IF o = "allowed" THEN "ok" ELSE IF o = "denied" THEN "idle"
                            ELSE "failed"
    <3> DEFINE new == [call |-> c, outcome |-> o]
    <3>1. new \in audit' /\ new.call = c /\ new.outcome = o
      BY <2>3 DEF Log
    <3> HIDE DEF new
    <3>2. \A b \in audit' : b.call = c => b = new
      BY <3>1 DEF GatewayInv, AuditTellsOutcome
    <3>3. QED
      BY <2>0, <2>3, <3>1, <3>2 DEF ShotOf
  <2>4. CASE pc[c] = "checking" /\ CheckPolicy(c)
    <3>1. CASE Goto(c, "connecting")
      BY <1>0, <1>3, <2>1, <2>2, <2>4, <3>1 DEF Goto
    <3>2. CASE Goto(c, "answered") /\ Log(c, "denied")
      BY <1>0, <1>3, <2>1, <2>3, <2>4, <3>2 DEF Goto
    <3>3. QED
      BY <2>4, <3>1, <3>2 DEF CheckPolicy
  <2>5. CASE pc[c] \in {"connecting", "opening", "calling"}
    <3>1. CASE \E l \in {"opening", "calling"} : Goto(c, l)
      BY <1>0, <1>3, <2>1, <2>2, <2>5, <3>1 DEF Goto
    <3>2. CASE Log(c, "allowed") /\ Goto(c, "answered") /\ c \in forwarded
      BY <1>0, <1>3, <1>5, <2>1, <2>3, <2>5, <3>2 DEF Goto
    <3>3. CASE \E o \in {"upstream_error", "error"}, l \in {"answered", "raised"} :
                 Log(c, o) /\ Goto(c, l)
      BY <1>0, <1>3, <2>1, <2>3, <2>5, <3>3 DEF Goto
    <3>4. CASE Connect(c) \/ Initialize(c)
      BY <2>0, <3>1, <3>3, <3>4 DEF Connect, Initialize, Escape, Finish
    <3>5. CASE Call(c)
      BY <2>0, <3>2, <3>3, <3>5 DEF Call, Escape, Finish
    <3>6. QED
      BY <2>5, <3>4, <3>5 DEF Handle, AnswerLocally, CheckPolicy
  <2>6. pc[c] # "answering"
    BY <1>5 DEF GatewayInv, InFlight
  <2>7. QED
    BY <2>4, <2>5, <2>6 DEF Handle, AnswerLocally, CheckPolicy, Connect, Initialize, Call
<1>6. QED
  BY <1>4, <1>5

\* A call whose POST has left is told of, or will be: its tool may run.
LEMMA ShotOfSent ==
  ASSUME GatewayInv, NEW c \in sent, tool[c] \in Tools
  PROVE  c \in Calls /\ ShotOf(c) # "idle"
<1>1. c \in Calls /\ pc[c] \in {"calling", "answered", "raised"}
  BY DEF GatewayInv, GatewayType, InFlight
<1>2. CASE pc[c] = "calling"
  BY <1>1, <1>2 DEF ShotOf
<1>3. CASE pc[c] # "calling"
  <2>1. PICK a \in audit : a.call = c /\ a.outcome # "denied"
    BY <1>1, <1>3 DEF GatewayInv, AuditTellsOutcome
  <2>2. QED
    BY <1>1, <1>3, <2>1, ShotOfFinished DEF GatewayInv, AuditTellsOutcome
<1>4. QED
  BY <1>2, <1>3

\* What the gateway tells the callers of a tool refines OneShot: a call that
\* succeeds has run its tool, a failed or an open one tells nothing of it, and a
\* denied one does not run it.
THEOREM GatewayIsOneShot == GatewaySpec => GatewayShots!Safety
<1> DEFINE told == [c \in Calls |-> ShotOf(c)]
<1> DEFINE ran == {c \in forwarded : tool[c] \in Tools}
<1>1. GatewayInit => GatewayShots!Init
  BY DEF GatewayInit, GatewayShots!Init, ShotOf
<1>2. GatewayInv /\ GatewayInv' /\ [GatewayNext]_gatewayVars
        => [GatewayShots!Next]_GatewayShots!vars
  <2> SUFFICES ASSUME GatewayInv, GatewayInv', [GatewayNext]_gatewayVars
               PROVE  GatewayShots!Next \/ (told' = told /\ ran' = ran)
    BY DEF GatewayShots!vars
  <2>1. ASSUME UNCHANGED <<tool, pc, audit, forwarded>> PROVE told' = told /\ ran' = ran
    BY <2>1 DEF ShotOf
  <2>2. ASSUME NEW s \in Ids, Open(s) \/ Start(s) \/ Deliver(s) \/ End(s)
        PROVE  told' = told /\ ran' = ran
    BY <2>1, <2>2 DEF Open, Start, Deliver, End, callVars
  <2>3. ASSUME NEW c \in Calls, NEW s \in Ids, NEW t \in Tools \cup {"tools/list", "ping"},
               Post(c, s, t)
        PROVE  told' = told /\ ran' = ran
    <3>1. \A d \in Calls : ShotOf(d)' = ShotOf(d)
      <4>1. ASSUME NEW d \in Calls \ {c} PROVE ShotOf(d)' = ShotOf(d)
        BY <2>3, ShotKept DEF Post, Goto, GatewayInv, GatewayType
      <4>2. pc[c] = "new" /\ pc'[c] \in {"rejected", "connecting", "answering", "checking"}
            /\ (pc'[c] = "connecting" => tool'[c] \notin Tools) /\ audit' = audit
        BY <2>3, GatewayAssumption DEF Post, Goto, GatewayInv, GatewayType
      <4>3. \A a \in audit : a.call # c
        BY <4>2 DEF GatewayInv, AuditTellsOutcome
      <4>4. ShotOf(c) = "idle" /\ ShotOf(c)' = "idle"
        BY <4>2, <4>3 DEF ShotOf
      <4>5. QED
        BY <4>1, <4>4
    <3>2. c \notin forwarded /\ forwarded' = forwarded /\ \A d \in Calls \ {c} : tool'[d] = tool[d]
      BY <2>3 DEF Post, GatewayInv, GatewayType, InFlight
    <3>3. QED
      BY <3>1, <3>2 DEF GatewayInv, GatewayType
  <2>4. ASSUME NEW c \in Calls, Handle(c) PROVE GatewayShots!Next \/ (told' = told /\ ran' = ran)
    <3>1. /\ ran' = ran
          /\ told' = [told EXCEPT ![c] = ShotOf(c)']
          /\ \/ told' = told
             \/ told[c] = "idle" /\ ShotOf(c)' = "open"
             \/ told[c] = "open" /\ ShotOf(c)' = "failed"
             \/ told[c] = "open" /\ ShotOf(c)' = "ok" /\ c \in ran
      BY <2>4, ShotOfHandle
    <3>2. QED
      BY <3>1
         DEF GatewayShots!Next, GatewayShots!Begin, GatewayShots!Succeed, GatewayShots!Fail,
             GatewayShots!Turn
  <2>5. ASSUME NEW c \in Calls, Reach(c) PROVE GatewayShots!Next \/ (told' = told /\ ran' = ran)
    <3>1. /\ told' = told /\ tool' = tool /\ forwarded' = forwarded \cup {c}
          /\ c \in sent /\ c \notin forwarded
      BY <2>5 DEF Reach, callVars, ShotOf
    <3>2. CASE tool[c] \in Tools
      <4>1. ran' = ran \cup {c} /\ c \notin ran
        BY <3>1, <3>2
      <4>2. told[c] # "idle"
        BY <3>1, <3>2, ShotOfSent
      <4>3. QED
        BY <3>1, <4>1, <4>2 DEF GatewayShots!Next, GatewayShots!Run
    <3>3. CASE tool[c] \notin Tools
      BY <3>1, <3>3
    <3>4. QED
      BY <3>2, <3>3
  <2>6. QED
    BY <2>1, <2>2, <2>3, <2>4, <2>5 DEF GatewayNext, gatewayVars, callVars
<1>3. QED
  BY GatewayInvariant, <1>1, <1>2, PTL DEF GatewaySpec, GatewayShots!Safety
-----------------------------------------------------------------------------
\* McpSessions: the internal server, for any number of sessions and requests, any
\* TTL and any number of ticks.

LEMMA SessionInitInv == SessionInit => SessionInv
<1> SUFFICES ASSUME SessionInit PROVE SessionInv
  OBVIOUS
<1> USE SessionAssumption DEF SessionInit
<1>1. SessionType
  BY DEF SessionType
<1>2. OpenSessionIsFound /\ QueueHasStream /\ ResponseFollowsExecution /\ RequestsPlaced
  BY DEF OpenSessionIsFound, QueueHasStream, ResponseFollowsExecution, RequestsPlaced
<1>3. QueuedOnce
  BY DEF QueuedOnce
<1>4. ReadWereAccepted
  BY FS_EmptySet DEF ReadWereAccepted
<1>5. GoneStaysGone /\ RefreshedOften /\ StreamsOfQueues
  BY DEF GoneStaysGone, RefreshedOften, StreamsOfQueues
<1>6. QED
  BY <1>1, <1>2, <1>3, <1>4, <1>5 DEF SessionInv

\* What the steps need of the state: the response that is delivered, and the queue
\* that one is put into.
LEMMA QueueFacts ==
  ASSUME SessionType, NEW s \in SessionIds
  PROVE  /\ responses[s] \in Seq(Requests) /\ Len(responses[s]) \in Nat
         /\ responses[s] # <<>> =>
              /\ Len(responses[s]) > 0 /\ Head(responses[s]) = responses[s][1]
              /\ Head(responses[s]) \in Requests /\ Tail(responses[s]) \in Seq(Requests)
              /\ Len(Tail(responses[s])) = Len(responses[s]) - 1
              /\ \A i \in 1..Len(responses[s]) - 1 : Tail(responses[s])[i] = responses[s][i + 1]
         /\ \A i \in 1..Len(responses[s]) : responses[s][i] \in Requests
         /\ \A r \in Requests :
              /\ Append(responses[s], r) \in Seq(Requests)
              /\ Len(Append(responses[s], r)) = Len(responses[s]) + 1
              /\ Append(responses[s], r)[Len(responses[s]) + 1] = r
              /\ \A i \in 1..Len(responses[s]) :
                   Append(responses[s], r)[i] = responses[s][i]
<1>1. responses[s] \in Seq(Requests)
  BY DEF SessionType
<1>2. QED
  BY <1>1, HeadTailProperties, AppendProperties, EmptySeq, LenProperties

Plain ==
  /\ local \subseteq SessionIds /\ ttl \in [SessionIds -> 0..Ttl]
  /\ generator \in [SessionIds -> {"none", "created", "open", "closed"}]
  /\ handler \in [Requests -> {"new", "looking", "looked", "dispatched", "done", "accepted",
                               "rejected", "raised"}]
  /\ target \in [Requests -> SessionIds \cup {NoSession}]
  /\ executed \in [Requests -> 0..1]
  /\ ticks \in 0..MaxTicks /\ sessionFaults \in 0..MaxSessionFaults

LEMMA PlainStep ==
  ASSUME Plain, RequestsPlaced, SessionNext
  PROVE  Plain'
<1> USE SessionAssumption DEF Plain, SessionFault, registryVars, requestVars, Move
<1>1. ASSUME NEW s \in SessionIds, CreateSession(s) PROVE Plain'
  BY <1>1 DEF CreateSession
<1>2. ASSUME NEW s \in SessionIds, StartGenerator(s) \/ DeliverResponse(s) PROVE Plain'
  BY <1>2 DEF StartGenerator, DeliverResponse
<1>3. ASSUME NEW s \in SessionIds, CloseSession(s) PROVE Plain'
  BY <1>3 DEF CloseSession
<1>4. ASSUME NEW r \in Requests, NEW s \in SessionIds, PostRequest(r, s) PROVE Plain'
  BY <1>4 DEF PostRequest
<1>5. ASSUME NEW r \in Requests, Exists(r) PROVE Plain'
  BY <1>5 DEF Exists
<1>6. ASSUME NEW r \in Requests, Resume(r) PROVE Plain'
  BY <1>6 DEF Resume
<1>7. ASSUME NEW r \in Requests, DispatchTool(r) PROVE Plain'
  <2>1. executed' = [executed EXCEPT ![r] = executed[r] + 1] /\ executed[r] = 0
    BY <1>7 DEF DispatchTool, RequestsPlaced
  <2>2. executed' \in [Requests -> 0..1]
    BY <2>1
  <2>3. QED
    BY <1>7, <2>2 DEF DispatchTool
<1>8. ASSUME NEW r \in Requests, PutResponse(r) PROVE Plain'
  BY <1>8 DEF PutResponse
<1>9. CASE KeepaliveTick
  <2>1. \A s \in SessionIds : Refreshed(s) \in 0..Ttl
    BY DEF Refreshed
  <2>2. ttl' \in [SessionIds -> 0..Ttl]
    BY <1>9, <2>1 DEF KeepaliveTick
  <2>3. QED
    BY <1>9, <2>2 DEF KeepaliveTick
<1>10. QED
  BY <1>1, <1>2, <1>3, <1>4, <1>5, <1>6, <1>7, <1>8, <1>9 DEF SessionNext, HandleMessage

LEMMA SessionFlags ==
  ASSUME idle \in [SessionIds -> BOOLEAN], found \in [Requests -> BOOLEAN], SessionNext
  PROVE  idle' \in [SessionIds -> BOOLEAN] /\ found' \in [Requests -> BOOLEAN]
<1> USE DEF registryVars, requestVars
<1>1. ASSUME NEW s \in SessionIds, CreateSession(s) \/ StartGenerator(s) \/ CloseSession(s)
      PROVE  UNCHANGED <<idle, found>>
  BY <1>1 DEF CreateSession, StartGenerator, CloseSession
<1>2. ASSUME NEW s \in SessionIds, DeliverResponse(s)
      PROVE  idle' \in [SessionIds -> BOOLEAN] /\ found' = found
  BY <1>2 DEF DeliverResponse
<1>3. ASSUME NEW r \in Requests, NEW s \in SessionIds, PostRequest(r, s)
      PROVE  UNCHANGED <<idle, found>>
  BY <1>3 DEF PostRequest
<1>4. ASSUME NEW r \in Requests, Exists(r)
      PROVE  idle' = idle /\ found' \in [Requests -> BOOLEAN]
  BY <1>4 DEF Exists
<1>5. ASSUME NEW r \in Requests, Resume(r) \/ DispatchTool(r) \/ PutResponse(r)
      PROVE  UNCHANGED <<idle, found>>
  BY <1>5 DEF Resume, DispatchTool, PutResponse
<1>6. ASSUME KeepaliveTick
      PROVE  idle' \in [SessionIds -> BOOLEAN] /\ found' = found
  BY <1>6 DEF KeepaliveTick
<1>7. QED
  BY <1>1, <1>2, <1>3, <1>4, <1>5, <1>6 DEF SessionNext, HandleMessage

LEMMA QueuesStep ==
  ASSUME SessionType, RequestsPlaced, SessionNext
  PROVE  responses' \in [SessionIds -> Seq(Requests)] /\ readBack' \subseteq Requests
<1> USE DEF registryVars, requestVars
<1>0. responses \in [SessionIds -> Seq(Requests)] /\ readBack \subseteq Requests
  BY DEF SessionType
<1>1. ASSUME NEW s \in SessionIds, DeliverResponse(s)
      PROVE  responses' \in [SessionIds -> Seq(Requests)] /\ readBack' \subseteq Requests
  <2>1. Tail(responses[s]) \in Seq(Requests) /\ Head(responses[s]) \in Requests
    BY <1>1, QueueFacts DEF DeliverResponse
  <2>2. QED
    BY <1>0, <1>1, <2>1 DEF DeliverResponse
<1>2. ASSUME NEW r \in Requests, PutResponse(r)
      PROVE  responses' \in [SessionIds -> Seq(Requests)] /\ readBack' \subseteq Requests
  <2>1. target[r] \in SessionIds
    BY <1>2 DEF PutResponse, RequestsPlaced
  <2>2. Append(responses[target[r]], r) \in Seq(Requests)
    BY <2>1, QueueFacts
  <2>3. QED
    BY <1>0, <1>2, <2>2 DEF PutResponse
<1>3. CASE UNCHANGED <<responses, readBack>>
  BY <1>0, <1>3
<1>4. QED
  BY <1>1, <1>2, <1>3
     DEF SessionNext, CreateSession, StartGenerator, CloseSession, PostRequest, HandleMessage,
         Exists, Resume, DispatchTool, KeepaliveTick

\* Sessions are created before a request is posted to them, tools run where they
\* are dispatched, and what is gone stays gone.
LEMMA RequestsStep ==
  ASSUME Plain, found \in [Requests -> BOOLEAN], ResponseFollowsExecution, RequestsPlaced,
         ReadWereAccepted, GoneStaysGone, StreamsOfQueues,
         \A s \in SessionIds : generator[s] = "created" => ttl[s] = Ttl, SessionNext
  PROVE  RequestsPlaced' /\ GoneStaysGone' /\ StreamsOfQueues'
<1> USE SessionAssumption
    DEF Plain, SessionFault, registryVars, requestVars, Move, RequestsPlaced, GoneStaysGone,
        StreamsOfQueues
<1> DEFINE Goal == RequestsPlaced' /\ GoneStaysGone' /\ StreamsOfQueues'
<1>1. ASSUME NEW s \in SessionIds, CreateSession(s) PROVE Goal
  BY <1>1 DEF CreateSession
<1>2. ASSUME NEW s \in SessionIds, StartGenerator(s) PROVE Goal
  BY <1>2 DEF StartGenerator
<1>3. ASSUME NEW s \in SessionIds, DeliverResponse(s) PROVE Goal
  BY <1>3 DEF DeliverResponse
<1>4. ASSUME NEW s \in SessionIds, CloseSession(s) PROVE Goal
  BY <1>4 DEF CloseSession
<1>5. ASSUME NEW r \in Requests, NEW s \in SessionIds, PostRequest(r, s) PROVE Goal
  BY <1>5 DEF PostRequest, ResponseFollowsExecution
<1>6. ASSUME NEW r \in Requests, Exists(r) PROVE Goal
  <2>1. /\ UNCHANGED <<local, ttl, generator, target, executed, sessionFaults>>
        /\ handler[r] = "looking" /\ handler' = [handler EXCEPT ![r] = "looked"]
        /\ found' = [found EXCEPT ![r] = ttl[target[r]] > 0]
    BY <1>6 DEF Exists
  <2>2. target[r] \in SessionIds /\ ttl[target[r]] \in Nat
    BY <2>1
  <2>3. ~found'[r] => ttl[target[r]] = 0
    <3> SUFFICES ASSUME ttl[target[r]] # 0 PROVE found'[r]
      OBVIOUS
    <3>1. ttl[target[r]] > 0
      BY <2>2
    <3>2. found'[r] = (ttl[target[r]] > 0)
      BY <2>1
    <3>3. QED
      BY ONLY <3>1, <3>2, Zenon
  <2>4. \A q \in Requests \ {r} : found'[q] = found[q] /\ handler'[q] = handler[q]
    BY <2>1, Zenon
  <2>5. \A q \in Requests : handler'[q] = "looked" /\ ~found'[q] => ttl[target[q]] = 0
    BY <2>3, <2>4 DEF GoneStaysGone
  <2>6. RequestsPlaced' /\ StreamsOfQueues'
    BY <2>1
  <2>7. QED
    BY <2>1, <2>5, <2>6
<1>7. ASSUME NEW r \in Requests, Resume(r) PROVE Goal
  BY <1>7 DEF Resume, ResponseFollowsExecution
<1>8. ASSUME NEW r \in Requests, DispatchTool(r) PROVE Goal
  BY <1>8 DEF DispatchTool
<1>9. ASSUME NEW r \in Requests, PutResponse(r) PROVE Goal
  BY <1>9 DEF PutResponse
<1>10. CASE KeepaliveTick
  <2>1. \A s \in SessionIds : ttl'[s] = Refreshed(s)
    BY <1>10 DEF KeepaliveTick
  <2>2. \A s \in SessionIds : ttl[s] = 0 => ttl'[s] = 0
    BY <2>1 DEF Refreshed
  <2>3. QED
    BY <1>10, <2>2 DEF KeepaliveTick
<1>11. QED
  BY <1>1, <1>2, <1>3, <1>4, <1>5, <1>6, <1>7, <1>8, <1>9, <1>10 DEF SessionNext, HandleMessage
\* A response is read at most once: it is in one place of one queue until then.
LEMMA ReadStep ==
  ASSUME SessionType, ResponseFollowsExecution, RequestsPlaced, QueuedOnce, ReadWereAccepted,
         SessionNext
  PROVE  QueuedOnce' /\ ReadWereAccepted' /\ ResponseFollowsExecution'
<1> DEFINE Goal == QueuedOnce' /\ ReadWereAccepted' /\ ResponseFollowsExecution'
<1>0. /\ handler \in [Requests -> {"new", "looking", "looked", "dispatched", "done", "accepted",
                                   "rejected", "raised"}]
      /\ target \in [Requests -> SessionIds \cup {NoSession}]
      /\ responses \in [SessionIds -> Seq(Requests)] /\ executed \in [Requests -> 0..1]
      /\ readBack \subseteq Requests
  BY DEF SessionType
<1> USE DEF registryVars, requestVars, Move
<1>1. ASSUME NEW s \in SessionIds, DeliverResponse(s) PROVE Goal
  <2> DEFINE q == responses[s]
             a == Head(q)
             n == Len(q)
  <2>1. /\ q # <<>> /\ readBack' = readBack \cup {a}
        /\ responses' = [responses EXCEPT ![s] = Tail(q)]
        /\ UNCHANGED <<handler, target, executed>>
    BY <1>1 DEF DeliverResponse
  <2>2. /\ n \in Nat /\ n > 0 /\ a = q[1] /\ a \in Requests /\ Len(Tail(q)) = n - 1
        /\ \A i \in 1..n-1 : Tail(q)[i] = q[i + 1]
    BY <2>1, QueueFacts
  <2>3. handler[a] = "accepted" /\ target[a] = s
    BY <2>2 DEF QueuedOnce
  <2>4. QueuedOnce'
    <3> SUFFICES ASSUME NEW t \in SessionIds, NEW i \in 1..Len(responses'[t])
                 PROVE  /\ handler[responses'[t][i]] = "accepted"
                        /\ target[responses'[t][i]] = t
                        /\ responses'[t][i] \notin readBack'
                        /\ \A j \in 1..Len(responses'[t]) :
                             responses'[t][i] = responses'[t][j] => i = j
      BY <2>1 DEF QueuedOnce
    <3>1. CASE t = s
      <4>1. responses'[t] = Tail(q) /\ i \in 1..n-1
        BY <1>0, <2>1, <2>2, <3>1
      <4>2. i + 1 \in 1..n /\ 1 \in 1..n /\ i + 1 # 1
        BY <2>2, <4>1
      <4>3. q[i + 1] # a
        BY <2>2, <4>2, <3>1 DEF QueuedOnce
      <4>4. /\ handler[q[i + 1]] = "accepted" /\ target[q[i + 1]] = s
            /\ q[i + 1] \notin readBack
        BY <4>2 DEF QueuedOnce
      <4>5. ASSUME NEW j \in 1..n-1, q[i + 1] = q[j + 1] PROVE i = j
        <5>1. j + 1 \in 1..n
          BY <2>2, <4>5
        <5>2. i + 1 = j + 1
          BY <4>2, <4>5, <5>1 DEF QueuedOnce
        <5>3. QED
          BY <4>1, <5>2, <2>2
      <4>6. /\ Len(responses'[t]) = n - 1 /\ responses'[t][i] = q[i + 1]
            /\ \A j \in 1..n-1 : responses'[t][j] = q[j + 1]
        BY <2>2, <4>1
      <4>7. \A j \in 1..n-1 : responses'[t][i] = responses'[t][j] => i = j
        BY <4>5, <4>6
      <4>8. responses'[t][i] \notin readBack'
        BY <2>1, <4>3, <4>4, <4>6
      <4>9. QED
        BY <3>1, <4>4, <4>6, <4>7, <4>8
    <3>2. CASE t # s
      <4>1. responses'[t] = responses[t]
        BY <1>0, <2>1, <3>2
      <4>2. responses[t][i] # a
        BY <2>3, <3>2, <4>1 DEF QueuedOnce
      <4>3. QED
        BY <2>1, <4>1, <4>2 DEF QueuedOnce
    <3>3. QED
      BY <3>1, <3>2
  <2>5. ReadWereAccepted'
    <3>1. IsFiniteSet(readBack')
      BY <2>1, FS_AddElement DEF ReadWereAccepted
    <3>2. QED
      BY <2>1, <2>3, <3>1 DEF ReadWereAccepted
  <2>6. ResponseFollowsExecution'
    BY <2>1, <2>2, <2>3 DEF ResponseFollowsExecution
  <2>7. QED
    BY <2>4, <2>5, <2>6
<1>2. ASSUME NEW r \in Requests, PutResponse(r) PROVE Goal
  <2> DEFINE s == target[r]
             q == responses[s]
             n == Len(q)
  <2>1. /\ handler[r] = "done" /\ handler' = [handler EXCEPT ![r] = "accepted"]
        /\ responses' = [responses EXCEPT ![s] = Append(q, r)]
        /\ UNCHANGED <<readBack, target, executed>>
    BY <1>2 DEF PutResponse
  <2>2. s \in SessionIds
    BY <2>1 DEF RequestsPlaced
  <2>3. /\ n \in Nat /\ Len(Append(q, r)) = n + 1 /\ Append(q, r)[n + 1] = r
        /\ \A i \in 1..n : Append(q, r)[i] = q[i]
    BY <2>2, QueueFacts
  <2>4. \A t \in SessionIds : \A i \in 1..Len(responses[t]) : responses[t][i] # r
    BY <2>1 DEF QueuedOnce
  <2>5. handler'[r] = "accepted" /\ \A p \in Requests : p # r => handler'[p] = handler[p]
    BY <1>0, <2>1
  <2>6. r \notin readBack
    BY <2>1 DEF ReadWereAccepted
  <2>7. QueuedOnce'
    <3> SUFFICES ASSUME NEW t \in SessionIds, NEW i \in 1..Len(responses'[t])
                 PROVE  /\ handler'[responses'[t][i]] = "accepted"
                        /\ target[responses'[t][i]] = t
                        /\ responses'[t][i] \notin readBack
                        /\ \A j \in 1..Len(responses'[t]) :
                             responses'[t][i] = responses'[t][j] => i = j
      BY <2>1 DEF QueuedOnce
    <3>1. CASE t = s
      <4>1. responses'[t] = Append(q, r) /\ i \in 1..n+1
        BY <1>0, <2>1, <2>2, <2>3, <3>1
      <4>2. ASSUME NEW k \in 1..n
            PROVE  /\ q[k] \in Requests /\ q[k] # r /\ handler'[q[k]] = "accepted"
                   /\ target[q[k]] = s /\ q[k] \notin readBack
                   /\ \A j \in 1..n : q[k] = q[j] => k = j
        BY <2>2, <2>4, <2>5, QueueFacts DEF QueuedOnce
      <4>3. CASE i = n + 1
        <5>1. responses'[t][i] = r
          BY <2>3, <4>1, <4>3
        <5>2. ASSUME NEW j \in 1..n+1, r = Append(q, r)[j] PROVE j = n + 1
          BY <2>3, <4>2, <5>2
        <5>3. QED
          BY <2>3, <2>5, <2>6, <3>1, <4>1, <4>3, <5>1, <5>2
      <4>4. CASE i # n + 1
        <5>1. i \in 1..n /\ responses'[t][i] = q[i]
          BY <2>3, <4>1, <4>4
        <5>2. ASSUME NEW j \in 1..n+1, q[i] = Append(q, r)[j] PROVE i = j
          <6>1. j # n + 1
            BY <2>3, <4>2, <5>1, <5>2
          <6>2. j \in 1..n
            BY <2>3, <6>1
          <6>3. QED
            BY <2>3, <4>2, <5>1, <5>2, <6>2
        <5>3. QED
          BY <2>3, <3>1, <4>1, <4>2, <5>1, <5>2
      <4>5. QED
        BY <4>3, <4>4
    <3>2. CASE t # s
      <4>1. responses'[t] = responses[t]
        BY <1>0, <2>1, <2>2, <3>2
      <4>2. responses[t][i] # r /\ responses[t][i] \in Requests
        BY <2>4, <4>1, QueueFacts
      <4>3. QED
        BY <2>5, <4>1, <4>2 DEF QueuedOnce
    <3>3. QED
      BY <3>1, <3>2
  <2>8. ReadWereAccepted'
    BY <1>0, <2>1, <2>5, <2>6 DEF ReadWereAccepted
  <2>9. ResponseFollowsExecution'
    BY <1>0, <2>1, <2>5 DEF ResponseFollowsExecution
  <2>10. QED
    BY <2>7, <2>8, <2>9
<1>3. ASSUME NEW r \in Requests, DispatchTool(r) PROVE Goal
  <2>1. /\ handler[r] = "dispatched" /\ handler' = [handler EXCEPT ![r] = "done"]
        /\ executed' = [executed EXCEPT ![r] = executed[r] + 1] /\ executed[r] = 0
        /\ UNCHANGED <<responses, readBack, target>>
    BY <1>3 DEF DispatchTool, RequestsPlaced
  <2>2. /\ executed'[r] = 1 /\ handler'[r] = "done"
        /\ \A p \in Requests : p # r => executed'[p] = executed[p] /\ handler'[p] = handler[p]
    BY <1>0, <2>1
  <2>3. \A t \in SessionIds : \A i \in 1..Len(responses[t]) :
          responses[t][i] # r /\ responses[t][i] \in Requests
    BY <2>1, QueueFacts DEF QueuedOnce
  <2>4. QueuedOnce'
    BY <2>1, <2>2, <2>3 DEF QueuedOnce
  <2>5. ReadWereAccepted'
    BY <1>0, <2>1, <2>2 DEF ReadWereAccepted
  <2>6. ResponseFollowsExecution'
    BY <2>1, <2>2 DEF ResponseFollowsExecution
  <2>7. QED
    BY <2>4, <2>5, <2>6
<1>4. ASSUME NEW r \in Requests,
             (\E s \in SessionIds : PostRequest(r, s)) \/ Exists(r) \/ Resume(r)
      PROVE  Goal
  <2>1. /\ handler[r] \in {"new", "looking", "looked"}
        /\ \E label \in {"looking", "looked", "rejected", "dispatched", "raised"} :
             handler' = [handler EXCEPT ![r] = label]
        /\ \A p \in Requests : p # r => target'[p] = target[p]
        /\ UNCHANGED <<responses, readBack, executed>>
    BY <1>0, <1>4 DEF PostRequest, Exists, Resume
  <2>2. \A p \in Requests : p # r => handler'[p] = handler[p]
    BY <1>0, <2>1
  <2>3. handler'[r] \in {"looking", "looked", "rejected", "dispatched", "raised"}
    BY <1>0, <2>1
  <2>4. \A t \in SessionIds : \A i \in 1..Len(responses[t]) :
          responses[t][i] # r /\ responses[t][i] \in Requests
    BY <2>1, QueueFacts DEF QueuedOnce
  <2>5. QueuedOnce'
    BY <2>1, <2>2, <2>4 DEF QueuedOnce
  <2>6. ReadWereAccepted'
    BY <1>0, <2>1, <2>2 DEF ReadWereAccepted
  <2>7. ResponseFollowsExecution'
    BY <2>1, <2>2, <2>3 DEF ResponseFollowsExecution
  <2>8. QED
    BY <2>5, <2>6, <2>7
<1>5. CASE UNCHANGED <<responses, readBack, handler, target, executed>>
  BY <1>5 DEF QueuedOnce, ReadWereAccepted, ResponseFollowsExecution
<1>6. QED
  <2>1. CASE KeepaliveTick
    BY <2>1, <1>5 DEF KeepaliveTick
  <2>2. ASSUME NEW s \in SessionIds, CreateSession(s) \/ StartGenerator(s) \/ CloseSession(s)
        PROVE  Goal
    BY <2>2, <1>5 DEF CreateSession, StartGenerator, CloseSession
  <2>3. QED
    BY <1>1, <1>2, <1>3, <1>4, <2>1, <2>2 DEF SessionNext, HandleMessage

\* Between two refreshes of its key a session that is open has read a message for
\* every tick but the first.
LEMMA RefreshStep ==
  ASSUME SessionType, RequestsPlaced, QueuedOnce, ReadWereAccepted, RefreshedOften, SessionNext
  PROVE  RefreshedOften'
<1> DEFINE R(s) == Cardinality(ReadFrom(s))
           Life(s) == /\ generator[s] \in {"none", "created"} => ~idle[s]
                      /\ generator[s] = "created" => ttl[s] = Ttl
                      /\ generator[s] = "open" =>
                           ttl[s] + Cardinality(ReadFrom(s))
                             >= IF idle[s] THEN Ttl - 1 ELSE Ttl
<1>0. /\ ttl \in [SessionIds -> 0..Ttl] /\ Ttl \in Nat \ {0}
      /\ generator \in [SessionIds -> {"none", "created", "open", "closed"}]
      /\ idle \in [SessionIds -> BOOLEAN]
      /\ \A s \in SessionIds : Life(s)
  BY SessionAssumption DEF SessionType, RefreshedOften
<1>1. ASSUME NEW s \in SessionIds PROVE IsFiniteSet(ReadFrom(s)) /\ R(s) \in Nat
  <2>1. ReadFrom(s) \subseteq readBack
    BY DEF ReadFrom
  <2>2. QED
    BY <2>1, FS_Subset, FS_CardinalityType DEF ReadWereAccepted
<1>2. SUFFICES \A t \in SessionIds : Life(t)'
  BY DEF RefreshedOften
<1> USE DEF registryVars, requestVars, Move
<1>3. ASSUME UNCHANGED readBack, \A r \in Requests : r \in readBack => target'[r] = target[r]
      PROVE  \A t \in SessionIds : ReadFrom(t)' = ReadFrom(t)
  BY <1>3 DEF ReadFrom, SessionType
<1>4. ASSUME NEW s \in SessionIds, CreateSession(s) PROVE \A t \in SessionIds : Life(t)'
  <2>1. /\ generator[s] = "none" /\ UNCHANGED <<idle, readBack, target>>
        /\ \/ /\ ttl' = [ttl EXCEPT ![s] = Ttl] /\ generator' = [generator EXCEPT ![s] = "created"]
           \/ /\ ttl' = ttl /\ generator' = [generator EXCEPT ![s] = "closed"]
    BY <1>4 DEF CreateSession
  <2>2. \A t \in SessionIds : ReadFrom(t)' = ReadFrom(t)
    BY <2>1, <1>3
  <2>3. ~idle[s]
    BY <1>0, <2>1
  <2>4. ASSUME NEW t \in SessionIds PROVE Life(t)'
    <3>1. CASE t = s
      BY <1>0, <2>1, <2>3, <3>1
    <3>2. CASE t # s
      <4>1. ttl'[t] = ttl[t] /\ generator'[t] = generator[t] /\ idle'[t] = idle[t]
        BY <1>0, <2>1, <3>2
      <4>2. QED
        BY <1>0, <2>2, <4>1
    <3>3. QED
      BY <3>1, <3>2
  <2>5. QED
    BY <2>4
<1>5. ASSUME NEW s \in SessionIds, StartGenerator(s) PROVE \A t \in SessionIds : Life(t)'
  <2>1. /\ generator[s] = "created" /\ UNCHANGED <<idle, readBack, target, ttl>>
        /\ \E g \in {"open", "closed"} : generator' = [generator EXCEPT ![s] = g]
    BY <1>5 DEF StartGenerator
  <2>2. \A t \in SessionIds : ReadFrom(t)' = ReadFrom(t)
    BY <2>1, <1>3
  <2>3. ~idle[s] /\ ttl[s] = Ttl
    BY <1>0, <2>1
  <2>4. ASSUME NEW t \in SessionIds PROVE Life(t)'
    <3>1. CASE t = s
      BY <1>0, <1>1, <2>1, <2>2, <2>3, <3>1
    <3>2. CASE t # s
      <4>1. ttl'[t] = ttl[t] /\ generator'[t] = generator[t] /\ idle'[t] = idle[t]
        BY <1>0, <2>1, <3>2
      <4>2. QED
        BY <1>0, <2>2, <4>1
    <3>3. QED
      BY <3>1, <3>2
  <2>5. QED
    BY <2>4
<1>6. ASSUME NEW s \in SessionIds, DeliverResponse(s) PROVE \A t \in SessionIds : Life(t)'
  <2> DEFINE a == Head(responses[s])
  <2>1. /\ generator[s] = "open" /\ responses[s] # <<>> /\ readBack' = readBack \cup {a}
        /\ idle' = [idle EXCEPT ![s] = FALSE] /\ UNCHANGED <<generator, target, ttl>>
    BY <1>6 DEF DeliverResponse
  <2>2. a \in Requests /\ a = responses[s][1] /\ 1 \in 1..Len(responses[s])
    BY <2>1, QueueFacts
  <2>3. target[a] = s /\ a \notin readBack
    BY <2>2 DEF QueuedOnce
  <2>4. ReadFrom(s)' = ReadFrom(s) \cup {a} /\ a \notin ReadFrom(s)
    BY <2>1, <2>3 DEF ReadFrom
  <2>5. R(s)' = R(s) + 1
    BY <1>1, <2>4, FS_AddElement
  <2>6. ASSUME NEW t \in SessionIds PROVE Life(t)'
    <3>1. CASE t = s
      <4>1. ttl[s] + R(s) >= Ttl - 1
        BY <1>0, <1>1, <2>1
      <4>2. ttl'[s] + R(s)' >= Ttl
        BY <1>0, <1>1, <2>1, <2>5, <4>1
      <4>3. generator'[s] = "open" /\ ~idle'[s]
        BY <1>0, <2>1
      <4>4. QED
        BY <3>1, <4>2, <4>3
    <3>2. CASE t # s
      <4>1. ReadFrom(t)' = ReadFrom(t)
        BY <2>1, <2>3, <3>2 DEF ReadFrom
      <4>2. ttl'[t] = ttl[t] /\ generator'[t] = generator[t] /\ idle'[t] = idle[t]
        BY <1>0, <2>1, <3>2
      <4>3. QED
        BY <1>0, <4>1, <4>2
    <3>3. QED
      BY <3>1, <3>2
  <2>7. QED
    BY <2>6
<1>7. ASSUME NEW s \in SessionIds, CloseSession(s) PROVE \A t \in SessionIds : Life(t)'
  <2>1. /\ generator' = [generator EXCEPT ![s] = "closed"] /\ UNCHANGED <<idle, readBack, target>>
        /\ ttl' \in {ttl, [ttl EXCEPT ![s] = 0]}
    BY <1>7 DEF CloseSession
  <2>2. \A t \in SessionIds : ReadFrom(t)' = ReadFrom(t)
    BY <2>1, <1>3
  <2>3. ASSUME NEW t \in SessionIds PROVE Life(t)'
    <3>1. CASE t = s
      BY <1>0, <2>1, <3>1
    <3>2. CASE t # s
      <4>1. ttl'[t] = ttl[t] /\ generator'[t] = generator[t] /\ idle'[t] = idle[t]
        BY <1>0, <2>1, <3>2
      <4>2. QED
        BY <1>0, <2>2, <4>1
    <3>3. QED
      BY <3>1, <3>2
  <2>4. QED
    BY <2>3
<1>8. ASSUME NEW r \in Requests, NEW s \in SessionIds, PostRequest(r, s)
      PROVE  \A t \in SessionIds : Life(t)'
  <2>1. /\ handler[r] = "new" /\ target' = [target EXCEPT ![r] = s]
        /\ UNCHANGED <<ttl, generator, idle, readBack>>
    BY <1>8 DEF PostRequest
  <2>2. r \notin readBack
    BY <2>1 DEF ReadWereAccepted
  <2>3. \A t \in SessionIds : ReadFrom(t)' = ReadFrom(t)
    BY <1>3, <2>1, <2>2 DEF SessionType
  <2>4. QED
    BY <1>0, <2>1, <2>3
<1>9. ASSUME NEW r \in Requests, HandleMessage(r) PROVE \A t \in SessionIds : Life(t)'
  <2>1. UNCHANGED <<ttl, generator, idle, readBack, target>>
    BY <1>9 DEF HandleMessage, Exists, Resume, DispatchTool, PutResponse
  <2>2. \A t \in SessionIds : ReadFrom(t)' = ReadFrom(t)
    BY <1>3, <2>1
  <2>3. QED
    BY <1>0, <2>1, <2>2
<1>10. CASE KeepaliveTick
  <2>1. /\ \A t \in SessionIds : generator[t] # "created"
        /\ ttl' = [t \in SessionIds |-> Refreshed(t)]
        /\ idle' = [t \in SessionIds |-> generator[t] = "open"]
        /\ UNCHANGED <<generator, readBack, target>>
    BY <1>10 DEF KeepaliveTick
  <2>2. \A t \in SessionIds : ReadFrom(t)' = ReadFrom(t)
    BY <2>1, <1>3
  <2>3. ASSUME NEW t \in SessionIds PROVE Life(t)'
    <3>1. ttl'[t] = Refreshed(t) /\ generator'[t] = generator[t] /\ generator[t] # "created"
      BY <2>1
    <3>2. CASE generator[t] = "open"
      <4>1. idle'[t]
        BY <2>1, <3>2
      <4>2. ttl'[t] + R(t) >= Ttl - 1
        <5>1. CASE idle[t] /\ ttl[t] > 0
          BY <1>0, <1>1, <3>1, <3>2, <5>1 DEF Refreshed
        <5>2. CASE idle[t] /\ ~(ttl[t] > 0)
          BY <1>0, <1>1, <3>1, <3>2, <5>2 DEF Refreshed
        <5>3. CASE ~idle[t]
          BY <1>0, <1>1, <3>1, <3>2, <5>3 DEF Refreshed
        <5>4. QED
          BY <5>1, <5>2, <5>3
      <4>3. QED
        BY <2>2, <3>1, <3>2, <4>1, <4>2
    <3>3. CASE generator[t] # "open"
      <4>1. ~idle'[t]
        BY <2>1, <3>3
      <4>2. QED
        BY <3>1, <3>3, <4>1
    <3>4. QED
      BY <3>2, <3>3
  <2>4. QED
    BY <2>3
<1>11. QED
  BY <1>4, <1>5, <1>6, <1>7, <1>8, <1>9, <1>10 DEF SessionNext

LEMMA SessionStep == SessionInv /\ [SessionNext]_mcpVars => SessionInv'
<1> SUFFICES ASSUME SessionInv, [SessionNext]_mcpVars PROVE SessionInv'
  OBVIOUS
<1>1. CASE SessionNext
  <2>0. /\ SessionType /\ ResponseFollowsExecution /\ RequestsPlaced /\ QueuedOnce
        /\ ReadWereAccepted /\ GoneStaysGone /\ RefreshedOften /\ StreamsOfQueues
    BY DEF SessionInv
  <2>1. Plain'
    BY <1>1, <2>0, PlainStep DEF SessionType, Plain
  <2>2. idle' \in [SessionIds -> BOOLEAN] /\ found' \in [Requests -> BOOLEAN]
    BY <1>1, <2>0, SessionFlags DEF SessionType
  <2>3. responses' \in [SessionIds -> Seq(Requests)] /\ readBack' \subseteq Requests
    BY <1>1, <2>0, QueuesStep
  <2>4. SessionType'
    BY <2>1, <2>2, <2>3 DEF SessionType, Plain
  <2>5. RequestsPlaced' /\ GoneStaysGone' /\ StreamsOfQueues'
    BY <1>1, <2>0, RequestsStep DEF SessionType, Plain, RefreshedOften
  <2>6. QueuedOnce' /\ ReadWereAccepted' /\ ResponseFollowsExecution'
    BY <1>1, <2>0, ReadStep
  <2>7. RefreshedOften'
    BY <1>1, <2>0, RefreshStep
  <2>8. QueueHasStream'
    BY <2>5 DEF StreamsOfQueues, QueueHasStream
  <2>9. OpenSessionIsFound'
    <3> SUFFICES ASSUME NEW s \in SessionIds, generator'[s] = "open",
                        Cardinality(ReadFrom(s)') < Ttl - 1
                 PROVE  s \in local' /\ ttl'[s] > 0
      BY DEF OpenSessionIsFound, ReadFrom
    <3>2. Cardinality(ReadFrom(s)') \in Nat
      <4>1. ReadFrom(s)' \subseteq readBack' /\ IsFiniteSet(readBack')
        BY <2>6 DEF ReadFrom, ReadWereAccepted
      <4>2. QED
        BY <4>1, FS_Subset, FS_CardinalityType
    <3>a. ttl'[s] \in Nat /\ Ttl \in Nat /\ Cardinality(ReadFrom(s)') \in Nat
      BY <2>1, <3>2, SessionAssumption DEF Plain
    <3>b. ttl'[s] + Cardinality(ReadFrom(s)') >= IF idle'[s] THEN Ttl - 1 ELSE Ttl
      BY <2>7 DEF RefreshedOften
    <3>1. ttl'[s] \in Nat /\ Ttl \in Nat /\ ttl'[s] + Cardinality(ReadFrom(s)') >= Ttl - 1
      <4>1. CASE idle'[s]
        BY <3>a, <3>b, <4>1
      <4>2. CASE ~idle'[s]
        BY <3>a, <3>b, <4>2
      <4>3. QED
        BY <4>1, <4>2
    <3>3. ttl'[s] > 0
      BY <3>1, <3>2
    <3>4. QED
      BY <2>5, <3>1, <3>3 DEF GoneStaysGone
  <2>10. QED
    BY <2>4, <2>5, <2>6, <2>7, <2>8, <2>9 DEF SessionInv
<1>2. CASE UNCHANGED mcpVars
  <2> USE <1>2 DEF mcpVars, registryVars, requestVars, SessionInv
  <2>1. SessionType' /\ OpenSessionIsFound' /\ QueueHasStream'
    BY DEF SessionType, OpenSessionIsFound, QueueHasStream
  <2>2. ResponseFollowsExecution' /\ RequestsPlaced' /\ QueuedOnce' /\ ReadWereAccepted'
    BY DEF ResponseFollowsExecution, RequestsPlaced, QueuedOnce, ReadWereAccepted
  <2>3. GoneStaysGone' /\ StreamsOfQueues'
    BY DEF GoneStaysGone, StreamsOfQueues
  <2>4. RefreshedOften'
    BY DEF RefreshedOften, ReadFrom
  <2>5. QED
    BY <2>1, <2>2, <2>3, <2>4
<1>3. QED
  BY <1>1, <1>2

\* RedisSessionRegistry and handle_message: with any TTL and any number of sessions
\* and requests, an open session is found unless it reads a message in nearly every
\* tick of a TTL, a queue has its stream, and a response follows its tool's one run.
THEOREM SessionInvariant == SessionSpec => []SessionInv
BY SessionInitInv, SessionStep, PTL DEF SessionSpec
-----------------------------------------------------------------------------
\* ToolPath: the one tool call of a client, for any number of sessions and requests
\* of others beside it.

Clients == {"idle", "dialing", "endpoint", "posting", "posted", "waiting", "returned",
            "upstream_error", "raised"}

\* Nothing is posted before the client dials; it waits for an answer to its first
\* and its third request, and returns with the third one's.
ClientPlaced ==
    /\ client \in Clients /\ reader \in {"reading", "broken"}
    /\ client = "idle" => \A r \in Requests : handler[r] = "new"
    /\ client \in {"posting", "posted"} => step \in 1..3
    /\ client = "waiting" => step \in {1, 3}

LEMMA StepsAreRequests ==
  /\ \A k \in 1..3 : Steps[k] \in Requests
  /\ OwnSession \in SessionIds
<1>1. Steps \in Seq(Requests) /\ Len(Steps) = 3 /\ OwnSession \in SessionIds
  BY PathAssumption
<1>2. \A k \in 1..Len(Steps) : Steps[k] \in Requests
  BY <1>1, ElementOfSeq
<1>3. QED
  BY <1>1, <1>2

LEMMA PathInitInv == PathInit => SessionInv /\ ClientPlaced
<1>1. PathInit => ClientPlaced
  BY DEF PathInit, SessionInit, ClientPlaced, Clients
<1>2. QED
  BY <1>1, SessionInitInv DEF PathInit

\* What a step of the path is to the server.
LEMMA PathStepOfServer ==
  ASSUME ClientPlaced, PathNext
  PROVE  \/ SessionNext
         \/ SessionFault /\ UNCHANGED <<registryVars, responses, readBack, requestVars, ticks>>
         \/ UNCHANGED mcpVars
<1>1. CASE Dial \/ Ready \/ PostReturns \/ TakeAnswer \/ GiveUp
  BY <1>1 DEF Dial, Ready, PostReturns, TakeAnswer, GiveUp
<1>2. CASE Refused \/ Break
  BY <1>2 DEF Refused, Break
<1>3. CASE Accepted
  BY <1>3, StepsAreRequests DEF Accepted, SessionNext
<1>4. CASE PostStep
  <2>1. Current \in Requests
    BY <1>4, StepsAreRequests DEF PostStep, ClientPlaced, Current
  <2>2. PostRequest(Current, OwnSession)
    BY <1>4 DEF PostStep
  <2>3. QED
    BY <2>1, <2>2, StepsAreRequests DEF SessionNext
<1>5. CASE Server
  BY <1>5, StepsAreRequests DEF Server, SessionNext
<1>6. QED
  BY <1>1, <1>2, <1>3, <1>4, <1>5 DEF PathNext, ClientStep

\* A failure that changes nothing else only takes a promise back.
LEMMA FailureKeeps ==
  ASSUME SessionInv, SessionFault,
         UNCHANGED <<registryVars, responses, readBack, requestVars, ticks>>
  PROVE  SessionInv'
<1> USE DEF registryVars, requestVars, SessionInv
<1>1. sessionFaults' \in 0..MaxSessionFaults /\ sessionFaults' # 0
  BY SessionAssumption DEF SessionFault, SessionType
<1>2. SessionType' /\ OpenSessionIsFound'
  BY <1>1 DEF SessionType, OpenSessionIsFound
<1>3. QueueHasStream' /\ StreamsOfQueues'
  BY <1>1 DEF QueueHasStream, StreamsOfQueues
<1>4. ResponseFollowsExecution' /\ RequestsPlaced' /\ QueuedOnce' /\ ReadWereAccepted'
  BY DEF ResponseFollowsExecution, RequestsPlaced, QueuedOnce, ReadWereAccepted
<1>5. GoneStaysGone'
  BY DEF GoneStaysGone
<1>6. RefreshedOften'
  BY DEF RefreshedOften, ReadFrom
<1>7. QED
  BY <1>2, <1>3, <1>4, <1>5, <1>6

\* Nothing but the client's own posts takes a request from "new".
LEMMA ClientStepPlaced ==
  ASSUME ClientPlaced, RequestsPlaced, PathNext
  PROVE  ClientPlaced'
<1> USE DEF ClientPlaced, Clients
<1>1. CASE Dial \/ Refused \/ Accepted
  BY <1>1 DEF Dial, Refused, Accepted, Stay
<1>2. CASE Ready \/ PostStep \/ PostReturns
  BY <1>2 DEF Ready, PostStep, PostReturns, Stay
<1>3. CASE TakeAnswer \/ GiveUp
  BY <1>3 DEF TakeAnswer, GiveUp, Concluded, Stay
<1>4. CASE Break
  BY <1>4 DEF Break
<1>5. CASE Server
  <2>1. UNCHANGED <<client, step, reader>>
    BY <1>5 DEF Server, clientVars
  <2>2. ASSUME client = "idle", \A r \in Requests : handler[r] = "new" PROVE handler' = handler
    <3>1. ASSUME NEW r \in Requests PROVE ~HandleMessage(r)
      BY <2>2 DEF HandleMessage, Exists, Resume, DispatchTool, PutResponse
    <3>2. QED
      BY <1>5, <3>1
         DEF Server, StartGenerator, DeliverResponse, CloseSession, KeepaliveTick, requestVars
  <2>3. QED
    BY <2>1, <2>2
<1>6. QED
  BY <1>1, <1>2, <1>3, <1>4, <1>5 DEF PathNext, ClientStep

LEMMA PathStep ==
  SessionInv /\ ClientPlaced /\ [PathNext]_pathVars => (SessionInv /\ ClientPlaced)'
<1> SUFFICES ASSUME SessionInv, ClientPlaced, [PathNext]_pathVars
             PROVE  SessionInv' /\ ClientPlaced'
  OBVIOUS
<1>1. CASE PathNext
  <2>1. SessionInv'
    BY <1>1, PathStepOfServer, SessionStep, FailureKeeps
  <2>2. ClientPlaced'
    BY <1>1, ClientStepPlaced DEF SessionInv
  <2>3. QED
    BY <2>1, <2>2
<1>2. CASE UNCHANGED pathVars
  <2>1. SessionInv'
    BY <1>2, SessionStep DEF pathVars
  <2>2. ClientPlaced'
    BY <1>2 DEF pathVars, mcpVars, requestVars, clientVars, ClientPlaced
  <2>3. QED
    BY <2>1, <2>2
<1>3. QED
  BY <1>1, <1>2

\* InternalMcpClient against the sessions of the server: with the client's failures
\* and the connection's beside its own, the server keeps what SessionInvariant says.
THEOREM PathInvariant == PathSpec => [](SessionInv /\ ClientPlaced)
BY PathInitInv, PathStep, PTL DEF PathSpec

\* The tool of the call runs with its third request, once: what the server does to
\* the other requests is not seen.
LEMMA ServerRuns ==
  ASSUME SessionInv, ClientPlaced, Server
  PROVE  \/ executed'[Steps[3]] = executed[Steps[3]]
         \/ client # "idle" /\ executed[Steps[3]] = 0 /\ executed'[Steps[3]] = 1
<1> DEFINE r == Steps[3]
<1>0. r \in Requests /\ executed \in [Requests -> 0..1]
  BY StepsAreRequests DEF SessionInv, SessionType
<1> HIDE DEF r
<1>1. ASSUME NEW q \in Requests, DispatchTool(q), q # r PROVE executed'[r] = executed[r]
  BY <1>0, <1>1 DEF DispatchTool
<1>2. CASE DispatchTool(r)
  <2>1. executed[r] = 0 /\ client # "idle"
    BY <1>0, <1>2 DEF DispatchTool, SessionInv, RequestsPlaced, ClientPlaced
  <2>2. executed'[r] = 1
    BY <1>0, <1>2, <2>1 DEF DispatchTool
  <2>3. QED
    BY <2>1, <2>2 DEF r
<1>3. ASSUME NEW q \in Requests, Exists(q) \/ Resume(q) \/ PutResponse(q)
      PROVE  executed' = executed
  BY <1>3 DEF Exists, Resume, PutResponse
<1>4. ASSUME \/ StartGenerator(OwnSession) \/ DeliverResponse(OwnSession)
             \/ CloseSession(OwnSession) \/ KeepaliveTick
      PROVE  executed' = executed
  BY <1>4 DEF StartGenerator, DeliverResponse, CloseSession, KeepaliveTick, requestVars
<1>5. QED
  BY <1>1, <1>2, <1>3, <1>4 DEF Server, HandleMessage, r

\* InternalMcpClient refines OneShot, its step by step: the shot is begun by the
\* connection, is answered only by the message of its own id, when the tool has run,
\* and fails in every other end, whatever the server did with it.
THEOREM PathIsOneShot == PathSpec => Shot!Safety
<1> DEFINE told == [s \in Shots |-> ShotResult]
<1> DEFINE ran == {s \in Shots : client # "idle" /\ executed[Steps[3]] > 0}
<1>1. PathInit => Shot!Init
  BY DEF PathInit, Shot!Init, ShotResult
<1>2. SessionInv /\ ClientPlaced /\ [PathNext]_pathVars => [Shot!Next]_Shot!vars
  <2> SUFFICES ASSUME SessionInv, ClientPlaced, [PathNext]_pathVars
               PROVE  Shot!Next \/ (told' = told /\ ran' = ran)
    BY DEF Shot!vars
  <2>0. \A s, t \in Shots : s = t
    BY PathAssumption
  \* With one call at most, what becomes of it becomes of all.
  <2>1. ASSUME ShotResult' = ShotResult, ran' = ran PROVE told' = told /\ ran' = ran
    BY <2>1
  <2>2. ASSUME NEW from, NEW to, ShotResult = from, ShotResult' = to, NEW s \in Shots
        PROVE  Shot!Turn(s, from, to)
    BY <2>0, <2>2 DEF Shot!Turn
  <2>3. ASSUME UNCHANGED <<client, executed>>
        PROVE  ShotResult' = ShotResult /\ ran' = ran
    BY <2>3 DEF ShotResult
  <2>4. ASSUME executed' = executed, client # "idle", client' # "idle" PROVE ran' = ran
    BY <2>4
  <2>5. CASE Dial
    <3>1. client = "idle" /\ client' = "dialing" /\ executed' = executed
      BY <2>5 DEF Dial, mcpVars, requestVars
    <3>2. executed[Steps[3]] = 0
      BY <3>1, StepsAreRequests DEF SessionInv, ResponseFollowsExecution, ClientPlaced
    <3>3. ShotResult = "idle" /\ ShotResult' = "open" /\ ran' = ran
      BY <3>1, <3>2 DEF ShotResult
    <3>4. ASSUME NEW s \in Shots PROVE Shot!Next
      BY <2>2, <3>3, <3>4 DEF Shot!Next, Shot!Begin
    <3>5. CASE Shots = {}
      BY <3>5
    <3>6. QED
      BY <3>4, <3>5
  <2>6. ASSUME ShotResult = "open", ShotResult' = "failed", ran' = ran
        PROVE  Shot!Next \/ (told' = told /\ ran' = ran)
    <3>1. ASSUME NEW s \in Shots PROVE Shot!Next
      BY <2>2, <2>6, <3>1 DEF Shot!Next, Shot!Fail
    <3>2. CASE Shots = {}
      BY <3>2
    <3>3. QED
      BY <3>1, <3>2
  <2>7. CASE Refused \/ GiveUp
    <3>1. /\ client \in {"dialing", "endpoint", "posting", "posted", "waiting"}
          /\ client' \in {"raised", "upstream_error"} /\ executed' = executed
      BY <2>7 DEF Refused, GiveUp, Concluded, mcpVars, requestVars
    <3>2. ShotResult = "open" /\ ShotResult' = "failed" /\ ran' = ran
      BY <3>1, <2>4 DEF ShotResult
    <3>3. QED
      BY <3>2, <2>6
  <2>8. CASE Accepted \/ Ready \/ PostStep \/ PostReturns \/ Break
    <3>1. /\ client \in {"dialing", "endpoint", "posting", "posted", "waiting"}
          /\ client' \in {"endpoint", "posting", "posted", "waiting"} /\ executed' = executed
      BY <2>8 DEF Accepted, CreateSession, Ready, PostStep, PostRequest, PostReturns, Break,
                  mcpVars, requestVars
    <3>2. ShotResult = "open" /\ ShotResult' = "open" /\ ran' = ran
      BY <3>1, <2>4 DEF ShotResult
    <3>3. QED
      BY <3>2, <2>1
  <2>9. CASE TakeAnswer
    <3>1. /\ client = "waiting" /\ Current \in readBack /\ executed' = executed
          /\ step \in {1, 3}
      BY <2>9 DEF TakeAnswer, Answered, mcpVars, requestVars, ClientPlaced
    <3>2. CASE step = 1
      <4>1. ShotResult = "open" /\ ShotResult' = "open" /\ ran' = ran
        BY <2>9, <3>1, <3>2, <2>4 DEF TakeAnswer, ShotResult
      <4>2. QED
        BY <4>1, <2>1
    <3>3. CASE step = 3
      <4>1. client' \in {"raised", "returned"}
        BY <2>9, <3>3 DEF TakeAnswer, Concluded
      <4>2. executed[Steps[3]] = 1
        BY <3>1, <3>3, StepsAreRequests DEF Current, SessionInv, ResponseFollowsExecution
      <4>3. ran' = ran /\ ran = Shots /\ ShotResult = "open"
        BY <3>1, <4>1, <4>2 DEF ShotResult
      <4>4. CASE client' = "raised"
        BY <4>3, <4>4, <2>6 DEF ShotResult
      <4>5. CASE client' = "returned"
        <5>1. ShotResult' = "ok"
          BY <4>5 DEF ShotResult
        <5>2. ASSUME NEW s \in Shots PROVE Shot!Next
          BY <2>2, <4>3, <5>1, <5>2 DEF Shot!Next, Shot!Succeed
        <5>3. CASE Shots = {}
          BY <4>3, <5>3
        <5>4. QED
          BY <5>2, <5>3
      <4>6. QED
        BY <4>1, <4>4, <4>5
    <3>4. QED
      BY <3>1, <3>2, <3>3
  <2>10. CASE Server
    <3>1. client' = client /\ ShotResult' = ShotResult
      BY <2>10 DEF Server, clientVars, ShotResult
    <3>2. CASE executed'[Steps[3]] = executed[Steps[3]]
      BY <3>1, <3>2, <2>1
    <3>3. CASE client # "idle" /\ executed[Steps[3]] = 0 /\ executed'[Steps[3]] = 1
      <4>1. ran = {} /\ ran' = Shots /\ ShotResult # "idle" /\ told' = told
        BY <3>1, <3>3 DEF ShotResult, ClientPlaced, Clients
      <4>2. ASSUME NEW s \in Shots PROVE Shot!Run(s)
        <5>1. Shots = {s}
          BY <2>0, <4>2
        <5>2. QED
          BY <4>1, <4>2, <5>1 DEF Shot!Run
      <4>3. CASE Shots = {}
        BY <4>1, <4>3
      <4>4. QED
        BY <4>2, <4>3 DEF Shot!Next
    <3>4. QED
      BY <2>10, <3>2, <3>3, ServerRuns
  <2>11. CASE UNCHANGED pathVars
    BY <2>11, <2>1, <2>3 DEF pathVars, mcpVars, requestVars, clientVars
  <2>12. QED
    BY <2>5, <2>7, <2>8, <2>9, <2>10, <2>11 DEF PathNext, ClientStep
<1>3. QED
  BY PathInvariant, <1>1, <1>2, PTL DEF PathSpec, Shot!Safety
=============================================================================
