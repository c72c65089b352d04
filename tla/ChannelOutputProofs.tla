------------------------ MODULE ChannelOutputProofs ------------------------
(***************************************************************************)
(* Proofs about ChannelOutput, for any number of clients, calls, messages  *)
(* and faults: the numbers of spool rows stay free for the next row, and a *)
(* restart keeps the clients of its channel.                               *)
(***************************************************************************)
EXTENDS ChannelOutput, SequenceTheorems, TLAPS

-----------------------------------------------------------------------------
(* Types.  One lemma per group of variables.                               *)

\* The first message under way is a message, and so are the others.
LEMMA HeadOfWire ==
  ASSUME TypeOK, NEW t, Message(t)
  PROVE  Head(wire) \in Messages /\ Tail(wire) \in Seq(Messages)
BY HeadTailProperties DEF TypeOK, AgentTypes, Message

\* What a message of each type carries.
LEMMA MessageFields ==
  ASSUME NEW m \in Messages
  PROVE  /\ m.type \in {"SNAPSHOT_RES", "ATTACH_OK"} => m.upTo \in 0 .. MaxOutput
         /\ m.type = "OUTPUT" => m.n \in 1 .. MaxOutput
         /\ m.type = "NOT_FOUND" => m.by \in Clients /\ m.set \in Sets
         /\ m.type \in {"SPAWN_OK", "SPAWN_ERR", "PASSWORD"} => m.to \in Calls
BY DEF Messages

\* What each kind of call holds.
LEMMA CallFields ==
  ASSUME TypeOK, NEW k \in Calls
  PROVE  /\ call[k].at \in {"reconnect", "restart", "prompt"} => call[k].set \in Sets \cup {None}
         /\ call[k].at = "respawn" => call[k].set \in Clients
<1>1. call[k] \in [at : {"idle"}, set : {None}]
                    \cup [at : {"reconnect", "restart", "prompt"}, set : Sets \cup {None}]
                    \cup [at : {"respawn"}, set : Clients]
  BY DEF TypeOK, CallTypes
<1>2. QED
  BY <1>1

\* The entry of the channel and its Sets of clients.
LEMMA EntryTypesStep == TypeOK /\ [Next]_vars => EntryTypes'
<1> SUFFICES ASSUME TypeOK, [Next]_vars PROVE EntryTypes'
  OBVIOUS
<1>0. EntryTypes
  BY DEF TypeOK
<1>s. sets < MaxSets => sets + 1 \in Sets
  BY <1>0, BoundsAssumption DEF EntryTypes, Sets
<1>1. ASSUME UNCHANGED entryVars PROVE EntryTypes'
  BY <1>0, <1>1 DEF entryVars, EntryTypes
<1>2. CASE DeliverExit
  BY <1>0, <1>2 DEF DeliverExit, EntryTypes
<1>3. CASE DeliverNotFound
  <2>1. Head(wire).set \in Sets
    BY <1>3, HeadOfWire, MessageFields DEF DeliverNotFound, Message
  <2>2. disturbed' \in BOOLEAN
    BY <1>3 DEF DeliverNotFound
  <2>3. members' \in [Sets -> SUBSET Clients]
    BY <1>0, <1>3, <2>1 DEF DeliverNotFound, EntryTypes
  <2>4. QED
    BY <1>0, <1>3, <2>2, <2>3 DEF DeliverNotFound, EntryTypes
<1>4. ASSUME NEW c \in Clients, Attach(c) PROVE EntryTypes'
  BY <1>0, <1>4 DEF Attach, EntryTypes
<1>5. ASSUME NEW c \in Clients, DetachEffect(c) PROVE EntryTypes'
  <2>1. members' \in [Sets -> SUBSET Clients]
    BY <1>0, <1>5 DEF DetachEffect, EntryTypes
  <2>2. QED
    BY <1>0, <1>5, <2>1 DEF DetachEffect, EntryTypes
<1>6. CASE Destroy \/ CloseSession
  BY <1>0, <1>6 DEF Destroy, CloseSession, EntryTypes
<1>7. CASE RestartOk
  <2> DEFINE k == Head(wire).to
  <2>1. k \in Calls /\ call[k].set \in Sets \cup {None}
    BY <1>7, HeadOfWire, MessageFields, CallFields DEF RestartOk, Message
  <2>2. set' \in Sets /\ sets' \in Sets /\ UNCHANGED members
    BY <1>0, <1>7, <1>s, <2>1 DEF RestartOk, Install, EntryTypes
  <2>3. disturbed' \in BOOLEAN
    BY <1>7 DEF RestartOk
  <2>4. QED
    BY <1>0, <1>7, <2>2, <2>3 DEF RestartOk, EntryTypes
<1>8. CASE RespawnOk
  <2> DEFINE k == Head(wire).to
  <2>1. k \in Calls /\ call[k].set \in Clients
    BY <1>8, HeadOfWire, MessageFields, CallFields DEF RespawnOk, Message
  <2>2. members' \in [Sets -> SUBSET Clients]
    BY <1>0, <1>8, <2>1 DEF RespawnOk, EntryTypes
  <2>3. disturbed' \in BOOLEAN
    BY <1>8 DEF RespawnOk
  <2>4. QED
    BY <1>0, <1>8, <1>s, <2>2, <2>3 DEF RespawnOk, EntryTypes
<1>9. CASE LinkDown \/ LinkUp \/ WarmRestart
  BY <1>0, <1>9 DEF LinkDown, LinkUp, WarmRestart, Reconcile, SpawnChannels, EntryTypes
<1>10. CASE HubRestart
  BY <1>0, <1>10, <1>s DEF HubRestart, EntryTypes
<1>11. ASSUME NEW c \in Clients, ClientStep(c) PROVE EntryTypes'
  BY <1>1, <1>4, <1>5, <1>11 DEF ClientStep, Detach, Disconnect, Connect
<1>12. ASSUME NEW k \in Calls, CallStep(k) PROVE UNCHANGED entryVars
  BY <1>12 DEF CallStep, Restart, RestartReconnected, RestartAnswered, CallFails, Respawn
<1>13. CASE DeliverOutput \/ DeliverSnapshot \/ DeliverAttached \/ DeliverPassword \/ LateAnswer
  BY <1>1, <1>13 DEF DeliverOutput, DeliverSnapshot, DeliverAttached, DeliverPassword, LateAnswer
<1>14. CASE AgentOutput \/ AgentExit \/ Flush \/ Collect \/ SnapshotTimer \/ SnapshotTimeout \/ UNCHANGED vars
  BY <1>1, <1>14 DEF AgentOutput, AgentExit, Flush, Collect, SnapshotTimer, SnapshotTimeout, vars
<1>15. QED
  BY <1>1, <1>2, <1>3, <1>6, <1>7, <1>8, <1>9, <1>10, <1>11, <1>12, <1>13, <1>14 DEF Next, Deliver

\* The clients.
LEMMA ClientTypesStep == TypeOK /\ [Next]_vars => ClientTypes'
<1> SUFFICES ASSUME TypeOK, [Next]_vars PROVE ClientTypes'
  OBVIOUS
<1>0. ClientTypes
  BY DEF TypeOK
<1>1. ASSUME UNCHANGED clientVars PROVE ClientTypes'
  BY <1>0, <1>1 DEF clientVars, ClientTypes
<1>2. ASSUME NEW c \in Clients, ClientStep(c) PROVE ClientTypes'
  BY <1>0, <1>2 DEF ClientStep, Attach, Detach, Disconnect, Connect, DetachEffect, ClientTypes
<1>3. CASE DeliverNotFound \/ RespawnOk \/ HubRestart
  BY <1>0, <1>3 DEF DeliverNotFound, RespawnOk, HubRestart, ClientTypes
<1>4. ASSUME NEW k \in Calls, CallStep(k) PROVE UNCHANGED clientVars
  BY <1>4 DEF CallStep, Restart, RestartReconnected, RestartAnswered, CallFails, Respawn
<1>5. CASE \/ DeliverOutput \/ DeliverSnapshot \/ DeliverAttached \/ DeliverPassword \/ LateAnswer
           \/ DeliverExit \/ RestartOk
  BY <1>1, <1>5 DEF DeliverOutput, DeliverSnapshot, DeliverAttached, DeliverPassword, LateAnswer,
     DeliverExit, RestartOk
<1>6. CASE \/ AgentOutput \/ AgentExit \/ Flush \/ Collect \/ SnapshotTimer \/ SnapshotTimeout
           \/ Destroy \/ CloseSession \/ LinkDown \/ LinkUp \/ WarmRestart \/ UNCHANGED vars
  BY <1>1, <1>6 DEF AgentOutput, AgentExit, Flush, Collect, SnapshotTimer, SnapshotTimeout, Destroy,
     CloseSession, LinkDown, LinkUp, WarmRestart, vars
<1>7. QED
  BY <1>1, <1>2, <1>3, <1>4, <1>5, <1>6 DEF Next, Deliver

\* The calls under way.
LEMMA CallTypesStep == TypeOK /\ [Next]_vars => CallTypes'
<1> SUFFICES ASSUME TypeOK, [Next]_vars PROVE CallTypes'
  OBVIOUS
<1> DEFINE Free == [at : {"idle"}, set : {None}]
           Held == [at : {"reconnect", "restart", "prompt"}, set : Sets \cup {None}]
           Asks == [at : {"respawn"}, set : Clients]
<1>0. call \in [Calls -> Free \cup Held \cup Asks] /\ set \in Sets
  BY DEF TypeOK, CallTypes, EntryTypes
<1>1. ASSUME UNCHANGED call PROVE CallTypes'
  BY <1>0, <1>1 DEF CallTypes
<1>2. ASSUME NEW k \in Calls, NEW r \in Free \cup Held \cup Asks, call' = [call EXCEPT ![k] = r] PROVE CallTypes'
  BY <1>0, <1>2 DEF CallTypes
<1>3. \A k \in Calls : call[k] \in Free \cup Held \cup Asks
  BY <1>0
<1>4. ASSUME NEW k \in Calls, Finish(k) PROVE CallTypes'
  BY <1>2, <1>4 DEF Finish, Idle
<1>5. ASSUME NEW k \in Calls, call[k].at \in {"reconnect", "restart", "prompt"},
             NEW a \in {"restart", "prompt"}, call' = [call EXCEPT ![k].at = a]
      PROVE  CallTypes'
  <2>1. call[k] \in Held
    BY <1>3, <1>5
  <2>2. [call[k] EXCEPT !.at = a] \in Held
    BY <2>1
  <2>3. call' = [call EXCEPT ![k] = [call[k] EXCEPT !.at = a]]
    BY <1>0, <1>5
  <2>4. QED
    BY <1>2, <2>2, <2>3
<1>6. ASSUME NEW k \in Calls, Restart(k) PROVE CallTypes'
  <2>1. PICK a \in {"restart", "reconnect"}, h \in Sets \cup {None} : call' = [call EXCEPT ![k] = [at |-> a, set |-> h]]
    BY <1>0, <1>6 DEF Restart
  <2>2. [at |-> a, set |-> h] \in Held
    OBVIOUS
  <2>3. QED
    BY <1>2, <2>1, <2>2
<1>7. ASSUME NEW k \in Calls, NEW c \in Clients, Respawn(k, c) PROVE CallTypes'
  <2>1. [at |-> "respawn", set |-> c] \in Asks
    OBVIOUS
  <2>2. QED
    BY <1>2, <1>7, <2>1 DEF Respawn
<1>8. ASSUME NEW k \in Calls, CallStep(k) PROVE CallTypes'
  BY <1>4, <1>5, <1>6, <1>7, <1>8 DEF CallStep, RestartReconnected, RestartAnswered, CallFails
<1>9. CASE DeliverPassword
  <2>1. Head(wire).to \in Calls
    BY <1>9, HeadOfWire, MessageFields DEF DeliverPassword, Message
  <2>2. QED
    BY <1>4, <1>5, <1>9, <2>1 DEF DeliverPassword
<1>10. CASE RestartOk \/ RespawnOk
  <2>1. Head(wire).to \in Calls
    BY <1>10, HeadOfWire, MessageFields DEF RestartOk, RespawnOk, Message
  <2>2. QED
    BY <1>4, <1>10, <2>1 DEF RestartOk, RespawnOk
<1>11. CASE HubRestart
  BY <1>11 DEF HubRestart, CallTypes, Idle
<1>12. ASSUME NEW c \in Clients, ClientStep(c) PROVE UNCHANGED call
  BY <1>12 DEF ClientStep, Attach, Detach, Disconnect, Connect, DetachEffect
<1>13. CASE DeliverOutput \/ DeliverSnapshot \/ DeliverAttached \/ LateAnswer \/ DeliverExit \/ DeliverNotFound
  BY <1>1, <1>13 DEF DeliverOutput, DeliverSnapshot, DeliverAttached, LateAnswer, DeliverExit, DeliverNotFound
<1>14. CASE \/ AgentOutput \/ AgentExit \/ Flush \/ Collect \/ SnapshotTimer \/ SnapshotTimeout
            \/ Destroy \/ CloseSession \/ LinkDown \/ LinkUp \/ WarmRestart \/ UNCHANGED vars
  BY <1>1, <1>14 DEF AgentOutput, AgentExit, Flush, Collect, SnapshotTimer, SnapshotTimeout, Destroy,
     CloseSession, LinkDown, LinkUp, WarmRestart, vars
<1>15. QED
  BY <1>1, <1>8, <1>9, <1>10, <1>11, <1>12, <1>13, <1>14 DEF Next, Deliver

\* A message that is sent is a message.
LEMMA SentMessages ==
  ASSUME TypeOK
  PROVE  /\ made < MaxOutput => Append(wire, [type |-> "OUTPUT", n |-> made + 1]) \in Seq(Messages)
         /\ Append(wire, [type |-> "CHANNEL_EXIT"]) \in Seq(Messages)
         /\ \A t \in {"SNAPSHOT_RES", "ATTACH_OK"} :
              Append(wire, [type |-> t, upTo |-> made]) \in Seq(Messages)
         /\ \A c \in Clients : Append(wire, [type |-> "NOT_FOUND", by |-> c, set |-> set]) \in Seq(Messages)
         /\ \A t \in {"SPAWN_OK", "SPAWN_ERR", "PASSWORD"}, k \in Calls :
              Append(wire, [type |-> t, to |-> k]) \in Seq(Messages)
<1>0. AgentTypes /\ set \in Sets
  BY DEF TypeOK, EntryTypes
<1>1. \A m \in Messages : Append(wire, m) \in Seq(Messages)
  BY <1>0, AppendProperties DEF AgentTypes
<1>2. made < MaxOutput => [type |-> "OUTPUT", n |-> made + 1] \in Messages
  <2>1. made < MaxOutput => made + 1 \in 1 .. MaxOutput
    BY <1>0, BoundsAssumption DEF AgentTypes
  <2>2. QED
    BY <2>1 DEF Messages
<1>3. [type |-> "CHANNEL_EXIT"] \in Messages
  BY DEF Messages
<1>4. \A t \in {"SNAPSHOT_RES", "ATTACH_OK"} : [type |-> t, upTo |-> made] \in Messages
  <2>1. made \in 0 .. MaxOutput
    BY <1>0 DEF AgentTypes
  <2>2. QED
    BY <2>1 DEF Messages
<1>5. \A c \in Clients : [type |-> "NOT_FOUND", by |-> c, set |-> set] \in Messages
  BY <1>0 DEF Messages
<1>6. \A t \in {"SPAWN_OK", "SPAWN_ERR", "PASSWORD"}, k \in Calls : [type |-> t, to |-> k] \in Messages
  BY DEF Messages
<1>7. QED
  BY <1>1, <1>2, <1>3, <1>4, <1>5, <1>6

\* The agent and its connection.
LEMMA AgentTypesStep == TypeOK /\ [Next]_vars => AgentTypes'
<1> SUFFICES ASSUME TypeOK, [Next]_vars PROVE AgentTypes'
  OBVIOUS
<1>0. AgentTypes
  BY DEF TypeOK
<1>1. ASSUME UNCHANGED agentVars, wire' \in Seq(Messages) PROVE AgentTypes'
  BY <1>0, <1>1 DEF agentVars, AgentTypes
<1>2. wire \in Seq(Messages)
  BY <1>0 DEF AgentTypes
<1>3. CASE AgentOutput
  <2>1. wire' \in Seq(Messages)
    BY <1>3, SentMessages DEF AgentOutput
  <2>2. made' \in 0 .. MaxOutput 
    BY <1>0, <1>3, BoundsAssumption DEF AgentOutput, AgentTypes
  <2>3. QED
    BY <1>0, <1>3, <2>1, <2>2 DEF AgentOutput, AgentTypes
<1>4. CASE AgentExit
  <2>1. wire' \in Seq(Messages)
    BY <1>4, SentMessages DEF AgentExit
  <2>2. pty' \in BOOLEAN /\ link' = link
    BY <1>0, <1>4 DEF AgentExit, AgentTypes
  <2>3. dying' \in Nat
    BY <1>0, <1>4 DEF AgentExit, AgentTypes
  <2>4. UNCHANGED <<made, faults>>
    BY <1>4 DEF AgentExit
  <2>5. QED
    BY <1>0, <2>1, <2>2, <2>3, <2>4 DEF AgentTypes
<1>5. ASSUME NEW k \in Calls, NEW d \in BOOLEAN, AgentSpawn(k, d), UNCHANGED <<link, made, faults>> PROVE AgentTypes'
  <2>1. wire' \in Seq(Messages)
    BY <1>5, SentMessages DEF AgentSpawn
  <2>2. pty' \in BOOLEAN
    BY <1>0, <1>5 DEF AgentSpawn, AgentTypes
  <2>3. dying' \in Nat
    BY <1>0, <1>5 DEF AgentSpawn, AgentTypes
  <2>4. QED
    BY <1>0, <1>5, <2>1, <2>2, <2>3 DEF AgentTypes
<1>6. ASSUME NEW k \in Calls, CallStep(k) PROVE AgentTypes'
  <2>0. ASSUME UNCHANGED <<link, made, faults, pty, dying, wire>> PROVE AgentTypes'
    BY <1>0, <2>0 DEF AgentTypes
  <2>1. CASE Restart(k)
    <3>1. (status \in {"live", "orphan"}) \in BOOLEAN
      OBVIOUS
    <3>2. QED
      BY <1>5, <2>0, <2>1, <3>1 DEF Restart
  <2>2. CASE RestartReconnected(k) \/ RestartAnswered(k)
    BY <1>5, <2>0, <2>2 DEF RestartReconnected, RestartAnswered
  <2>3. ASSUME NEW c \in Clients, Respawn(k, c) PROVE AgentTypes'
    BY <1>5, <2>3 DEF Respawn
  <2>4. CASE CallFails(k)
    BY <1>1, <1>2, <2>4, HeadOfWire DEF CallFails, Consume
  <2>5. QED
    BY <1>6, <2>1, <2>2, <2>3, <2>4 DEF CallStep
<1>7. CASE Deliver
  <2>1. UNCHANGED agentVars /\ Consume
    BY <1>7 DEF Deliver, DeliverOutput, DeliverSnapshot, DeliverAttached, LateAnswer, DeliverExit, DeliverNotFound,
       DeliverPassword, RestartOk, RespawnOk
  <2>2. \E t : Message(t)
    BY <1>7 DEF Deliver, DeliverOutput, DeliverSnapshot, DeliverAttached, LateAnswer, DeliverExit, DeliverNotFound,
       DeliverPassword, RestartOk, RespawnOk, Message
  <2>3. QED
    BY <1>1, <2>1, <2>2, HeadOfWire DEF Consume
<1>8. ASSUME NEW c \in Clients, DetachEffect(c) PROVE AgentTypes'
  <2>1. wire' \in Seq(Messages)
    BY <1>2, <1>8, SentMessages DEF DetachEffect, AnswerSnapshot
  <2>2. QED
    BY <1>1, <1>8, <2>1 DEF DetachEffect
<1>9. ASSUME NEW c \in Clients, Attach(c) PROVE AgentTypes'
  <2>1. wire' \in Seq(Messages)
    BY <1>2, <1>9, SentMessages DEF Attach
  <2>2. QED
    BY <1>1, <1>9, <2>1 DEF Attach
<1>10. ASSUME NEW c \in Clients, ClientStep(c) PROVE AgentTypes'
  BY <1>1, <1>2, <1>8, <1>9, <1>10 DEF ClientStep, Detach, Disconnect, Connect
<1>11. CASE SnapshotTimer
  <2>1. wire' \in Seq(Messages)
    BY <1>2, <1>11, SentMessages DEF SnapshotTimer, AnswerSnapshot
  <2>2. QED
    BY <1>1, <1>11, <2>1 DEF SnapshotTimer
<1>12. CASE Destroy
  <2>1. pty' \in BOOLEAN /\ link' = link
    BY <1>0, <1>12 DEF Destroy, AgentTypes
  <2>2. dying' \in Nat
    BY <1>0, <1>12 DEF Destroy, AgentTypes
  <2>3. UNCHANGED <<made, faults, wire>>
    BY <1>12 DEF Destroy
  <2>4. QED
    BY <1>0, <2>1, <2>2, <2>3 DEF AgentTypes
<1>13. CASE LinkDown \/ HubRestart
  <2>1. link' = FALSE /\ wire' = << >> /\ faults' = faults + 1 /\ faults < MaxFaults
    BY <1>13 DEF LinkDown, HubRestart
  <2>2. UNCHANGED <<pty, dying, made>>
    BY <1>13 DEF LinkDown, HubRestart
  <2>3. faults' \in 0 .. MaxFaults
    BY <1>0, <2>1, BoundsAssumption DEF AgentTypes
  <2>4. wire' \in Seq(Messages)
    BY <2>1, EmptySeq
  <2>5. link' \in BOOLEAN
    BY <2>1
  <2>6. QED
    BY <1>0, <2>2, <2>3, <2>4, <2>5 DEF AgentTypes
<1>14. CASE LinkUp \/ WarmRestart
  BY <1>0, <1>14 DEF LinkUp, WarmRestart, AgentTypes
<1>15. CASE Flush \/ Collect \/ SnapshotTimeout \/ CloseSession \/ UNCHANGED vars
  BY <1>1, <1>2, <1>15 DEF Flush, Collect, SnapshotTimeout, CloseSession, vars
<1>16. QED
  BY <1>3, <1>4, <1>6, <1>7, <1>10, <1>11, <1>12, <1>13, <1>14, <1>15 DEF Next

\* The snapshot scheduler never counts more requests than it has slots.
LEMMA SchedTypesStep == TypeOK /\ [Next]_vars => SchedTypes'
<1> SUFFICES ASSUME TypeOK, [Next]_vars PROVE SchedTypes'
  OBVIOUS
<1>0. SchedTypes
  BY DEF TypeOK
<1>1. ASSUME UNCHANGED schedVars PROVE SchedTypes'
  BY <1>0, <1>1 DEF schedVars, SchedTypes
<1>2. ASSUME MayRequest, RequestSnapshot PROVE SchedTypes'
  <2>1. CASE inFlight < MaxConcurrent /\ status # "absent" /\ link
    <3>1. inFlight' = inFlight + 1 /\ armed' = TRUE /\ reqs' = reqs + 1
      BY <1>2, <2>1 DEF RequestSnapshot
    <3>2. inFlight' \in 0 .. MaxConcurrent /\ reqs' \in 0 .. MaxRequests
      BY <1>0, <1>2, <2>1, <3>1, BoundsAssumption DEF MayRequest, SchedTypes
    <3>3. QED
      BY <3>1, <3>2 DEF SchedTypes
  <2>2. CASE ~(inFlight < MaxConcurrent /\ status # "absent" /\ link)
    BY <1>1, <1>2, <2>2 DEF RequestSnapshot
  <2>3. QED
    BY <2>1, <2>2
<1>3. ASSUME inFlight' = IF inFlight > 0 THEN inFlight - 1 ELSE 0, armed' = FALSE, reqs' = reqs PROVE SchedTypes'
  <2>1. inFlight' \in 0 .. MaxConcurrent
    BY <1>0, <1>3, BoundsAssumption DEF SchedTypes
  <2>2. QED
    BY <1>0, <1>3, <2>1 DEF SchedTypes
<1>4. ASSUME reqs < MaxRequests, reqs' = reqs + 1, UNCHANGED <<inFlight, armed>> PROVE SchedTypes'
  BY <1>0, <1>4, BoundsAssumption DEF SchedTypes
<1>5. ASSUME NEW c \in Clients, ClientStep(c) PROVE SchedTypes'
  <2>1. ASSUME DetachEffect(c) PROVE SchedTypes'
    BY <1>1, <1>2, <2>1 DEF DetachEffect
  <2>2. QED
    BY <1>1, <1>4, <1>5, <2>1 DEF ClientStep, Attach, Detach, Disconnect, Connect, MayRequest
<1>6. ASSUME NEW k \in Calls, CallStep(k) PROVE SchedTypes'
  <2>1. ASSUME UNCHANGED <<inFlight, armed, reqs>> PROVE SchedTypes'
    BY <1>1, <2>1 DEF schedVars
  <2>2. QED
    BY <1>1, <1>4, <1>6, <2>1 DEF CallStep, Restart, RestartReconnected, RestartAnswered, CallFails, Respawn, AgentSpawn, MayRequest
<1>7. CASE DeliverSnapshot \/ SnapshotTimeout
  BY <1>3, <1>7 DEF DeliverSnapshot, SnapshotTimeout
<1>8. CASE SnapshotTimer
  BY <1>2, <1>8 DEF SnapshotTimer
<1>9. CASE HubRestart
  <2>1. inFlight' = 0 /\ armed' = FALSE /\ reqs' = reqs
    BY <1>9 DEF HubRestart
  <2>2. inFlight' \in 0 .. MaxConcurrent
    BY <2>1, BoundsAssumption
  <2>3. QED
    BY <1>0, <2>1, <2>2 DEF SchedTypes
<1>10. CASE \/ DeliverOutput \/ DeliverAttached \/ LateAnswer \/ DeliverExit \/ DeliverNotFound
            \/ DeliverPassword \/ RestartOk \/ RespawnOk
  BY <1>1, <1>10 DEF DeliverOutput, DeliverAttached, LateAnswer, DeliverExit, DeliverNotFound, DeliverPassword,
     RestartOk, RespawnOk
<1>11. CASE \/ AgentOutput \/ AgentExit \/ Flush \/ Collect \/ Destroy \/ CloseSession
            \/ LinkDown \/ LinkUp \/ WarmRestart \/ UNCHANGED vars
  BY <1>1, <1>11 DEF AgentOutput, AgentExit, Flush, Collect, Destroy, CloseSession, LinkDown, LinkUp, WarmRestart, vars
<1>12. QED
  BY <1>5, <1>6, <1>7, <1>8, <1>9, <1>10, <1>11 DEF Next, Deliver

-----------------------------------------------------------------------------
(* The numbers of the spool's rows.  MaxSeq chooses a greatest number:     *)
(* that there is one is part of the invariant.                             *)

HasMax(rows) == rows = {} \/ \E x \in rows : \A y \in rows : y.seq <= x.seq
Unique(rows) == \A x, y \in rows : x.seq = y.seq => x = y

\* MaxSeq is the greatest number of the rows, and 0 if there are none.
LEMMA MaxSeqIsMax ==
  ASSUME NEW rows \in SUBSET Row, HasMax(rows)
  PROVE  /\ MaxSeq(rows) \in Nat
         /\ \A x \in rows : x.seq \in Nat /\ x.seq <= MaxSeq(rows)
         /\ rows = {} => MaxSeq(rows) = 0
         /\ rows # {} => \E x \in rows : MaxSeq(rows) = x.seq
<1>0. \A x \in rows : x.seq \in Nat
  BY DEF Row
<1>1. CASE rows = {}
  BY <1>1 DEF MaxSeq
<1>2. CASE rows # {}
  <2>1. PICK m \in rows : \A y \in rows : y.seq <= m.seq
    BY <1>2 DEF HasMax
  <2>2. m.seq \in {x.seq : x \in rows} /\ \A x \in rows : x.seq <= m.seq
    BY <2>1
  <2>3. MaxSeq(rows) = CHOOSE n \in {x.seq : x \in rows} : \A x \in rows : x.seq <= n
    BY <1>2 DEF MaxSeq
  <2>4. MaxSeq(rows) \in {x.seq : x \in rows} /\ \A x \in rows : x.seq <= MaxSeq(rows)
    BY <2>2, <2>3
  <2>5. QED
    BY <1>0, <1>2, <2>4
<1>3. QED
  BY <1>1, <1>2

\* A row with a greater number than all others.
LEMMA NewestRow ==
  ASSUME NEW rows \in SUBSET Row, HasMax(rows), NEW x \in Row, MaxSeq(rows) < x.seq
  PROVE  /\ rows \cup {x} \in SUBSET Row
         /\ HasMax(rows \cup {x})
         /\ MaxSeq(rows \cup {x}) = x.seq
         /\ Unique(rows) => Unique(rows \cup {x})
<1>1. x.seq \in Nat /\ MaxSeq(rows) \in Nat /\ \A y \in rows : y.seq \in Nat /\ y.seq <= MaxSeq(rows)
  BY MaxSeqIsMax DEF Row
<1>2. \A y \in rows : y.seq < x.seq
  BY <1>1
<1>3. HasMax(rows \cup {x})
  BY <1>1, <1>2 DEF HasMax
<1>4. rows \cup {x} \in SUBSET Row
  OBVIOUS
<1>5. PICK z \in rows \cup {x} : MaxSeq(rows \cup {x}) = z.seq /\ x.seq <= z.seq
  BY <1>3, <1>4, MaxSeqIsMax
<1>6. MaxSeq(rows \cup {x}) = x.seq
  BY <1>1, <1>2, <1>5
<1>7. Unique(rows) => Unique(rows \cup {x})
  BY <1>1, <1>2 DEF Unique
<1>8. QED
  BY <1>3, <1>4, <1>6, <1>7

\* The invariant: numbers are unique, the next one is free, only a tracked channel has
\* output in its buffer, and the rows and the snapshots among them have a newest.
SpoolInv ==
  /\ SpoolTypes
  /\ Unique(spool)
  /\ HasMax(spool) /\ HasMax(Snapshots(spool))
  /\ tracked => MaxSeq(spool) < nextSeq
  /\ ~tracked => buf = << >>

\* A flush adds the row of the next number, and leaves the snapshots alone.
LEMMA FlushFacts ==
  ASSUME SpoolInv
  PROVE  /\ Flushed \in SUBSET Row /\ HasMax(Flushed) /\ Unique(Flushed)
         /\ Snapshots(Flushed) = Snapshots(spool)
         /\ FlushedSeq \in Nat \ {0}
         /\ tracked => MaxSeq(Flushed) < FlushedSeq
<1>0. SpoolTypes /\ spool \in SUBSET Row
  BY DEF SpoolInv, SpoolTypes
<1>1. CASE buf = << >>
  BY <1>0, <1>1 DEF Flushed, FlushedSeq, SpoolInv, SpoolTypes
<1>2. CASE buf # << >>
  <2> DEFINE x == [seq |-> nextSeq, kind |-> "output", data |-> buf]
  <2>1. x \in Row /\ x.seq = nextSeq /\ x.kind = "output"
    BY <1>0 DEF SpoolTypes, Row
  <2>2. tracked /\ MaxSeq(spool) < x.seq
    BY <1>2, <2>1 DEF SpoolInv
  <2>3. Flushed = spool \cup {x} /\ FlushedSeq = nextSeq + 1
    BY <1>2 DEF Flushed, FlushedSeq
  <2> HIDE DEF x
  <2>4. Flushed \in SUBSET Row /\ HasMax(Flushed) /\ Unique(Flushed) /\ MaxSeq(Flushed) = nextSeq
    BY <1>0, <2>1, <2>2, <2>3, NewestRow DEF SpoolInv
  <2>5. Snapshots(Flushed) = Snapshots(spool)
    BY <2>1, <2>3 DEF Snapshots
  <2>6. FlushedSeq \in Nat \ {0} /\ nextSeq < FlushedSeq
    BY <1>0, <2>3 DEF SpoolTypes
  <2>7. QED
    BY <2>4, <2>5, <2>6
<1>3. QED
  BY <1>1, <1>2

\* Storing a snapshot gives it a number above all rows, and moves the next number past it.
LEMMA SnapshotKeepsSpool ==
  ASSUME SpoolInv, NEW upTo \in 0 .. MaxOutput, StoreSnapshot(upTo)
  PROVE  SpoolInv'
<1> DEFINE top == IF MaxSeq(Flushed) > LastSeq THEN MaxSeq(Flushed) ELSE LastSeq
           x == [seq |-> 1 + top, kind |-> "snapshot", data |-> <<upTo>>]
<1>0. /\ Flushed \in SUBSET Row /\ HasMax(Flushed) /\ Unique(Flushed) /\ MaxSeq(Flushed) \in Nat
      /\ Snapshots(Flushed) = Snapshots(spool) /\ FlushedSeq \in Nat \ {0}
  BY FlushFacts, MaxSeqIsMax
<1>1. /\ spool' = Flushed \cup {x} /\ nextSeq' = BumpSeq(1 + top + 1) /\ buf' = << >> /\ trimmed' = FALSE
      /\ tracked' = tracked
  BY DEF StoreSnapshot
<1>2. top \in Nat /\ MaxSeq(Flushed) < 1 + top
  BY <1>0 DEF LastSeq
<1> HIDE DEF top
<1>3. <<upTo>> \in Seq(0 .. MaxOutput)
  OBVIOUS
<1>4. x \in Row /\ x.seq = 1 + top /\ x.kind = "snapshot"
  BY <1>2, <1>3 DEF Row
<1> HIDE DEF x
<1>5. spool' \in SUBSET Row /\ HasMax(spool') /\ Unique(spool') /\ MaxSeq(spool') = 1 + top
  BY <1>0, <1>1, <1>2, <1>4, NewestRow
<1>6. HasMax(Snapshots(spool'))
  <2>1. Snapshots(spool') = Snapshots(Flushed) \cup {x}
    BY <1>1, <1>4 DEF Snapshots
  <2>2. \A y \in Flushed : y.seq \in Nat /\ y.seq <= MaxSeq(Flushed)
    BY <1>0, MaxSeqIsMax
  <2>3. \A y \in Snapshots(spool') : y.seq <= x.seq
    BY <1>0, <1>2, <1>4, <2>1, <2>2 DEF Snapshots
  <2>4. QED
    BY <2>1, <2>3 DEF HasMax
<1>7. nextSeq' \in Nat \ {0} /\ (tracked => 1 + top < nextSeq')
  BY <1>0, <1>1, <1>2 DEF BumpSeq
<1>8. tracked \in BOOLEAN
  BY DEF SpoolInv, SpoolTypes
<1>9. buf' \in Seq(0 .. MaxOutput)
  BY <1>1, EmptySeq
<1>10. SpoolTypes'
  BY <1>1, <1>5, <1>7, <1>8, <1>9 DEF SpoolTypes
<1>11. QED
  BY <1>1, <1>5, <1>6, <1>7, <1>10 DEF SpoolInv

\* What is left after a collection still has a newest row and a newest snapshot.
LEMMA CollectKeepsMax ==
  ASSUME NEW rows \in SUBSET Row, HasMax(rows), HasMax(Snapshots(rows)), NEW age \in Nat, NEW size \in Nat
  PROVE  LET left == Kept(rows, age, size) IN
         /\ left \in SUBSET Row /\ HasMax(left) /\ HasMax(Snapshots(left))
         /\ MaxSeq(left) <= MaxSeq(rows)
         /\ Unique(rows) => Unique(left)
<1> DEFINE left == Kept(rows, age, size)
<1>0. \A x \in rows : x.seq \in Nat /\ x.kind \in {"output", "snapshot"}
  BY DEF Row
<1>1. left \in SUBSET Row /\ left \subseteq rows
  BY DEF Kept
<1>2. Snapshots(rows) # {} => \E z \in Snapshots(rows) : z \in left /\ \A y \in Snapshots(rows) : y.seq <= z.seq
  <2>1. HAVE Snapshots(rows) # {}
  <2>2. Snapshots(rows) \in SUBSET Row
    BY DEF Snapshots
  <2>3. PICK z \in Snapshots(rows) : MaxSeq(Snapshots(rows)) = z.seq /\ \A y \in Snapshots(rows) : y.seq <= z.seq
    BY <2>1, <2>2, MaxSeqIsMax
  <2>4. z \in left
    BY <2>3 DEF Kept, Latest, Snapshots
  <2>5. QED
    BY <2>3, <2>4
<1>3. HasMax(Snapshots(left))
  BY <1>1, <1>2 DEF HasMax, Snapshots
<1>4. HasMax(left)
  <2>1. CASE rows = {}
    BY <2>1, <1>1 DEF HasMax
  <2>2. CASE rows # {}
    <3>1. PICK m \in rows : \A y \in rows : y.seq <= m.seq
      BY <2>2 DEF HasMax
    <3>2. CASE m \in left
      BY <1>1, <3>1, <3>2 DEF HasMax
    <3>3. CASE m \notin left
      <4>1. \A y \in left : y \in Snapshots(rows)
        <5>1. TAKE y \in left
        <5>2. y.seq <= m.seq /\ y.seq \in Nat /\ m.seq \in Nat
          BY <1>0, <1>1, <3>1
        <5>3. CASE m.seq <= age
          BY <1>1, <5>2, <5>3 DEF Kept, Latest, Snapshots
        <5>4. CASE m.seq > age
          BY <1>1, <3>1, <3>3, <5>2, <5>4 DEF Kept, Snapshots
        <5>5. QED
          BY <5>2, <5>3, <5>4
      <4>2. QED
        BY <1>2, <4>1 DEF HasMax
    <3>4. QED
      BY <3>2, <3>3
  <2>3. QED
    BY <2>1, <2>2
<1>5. MaxSeq(left) <= MaxSeq(rows)
  <2>1. MaxSeq(rows) \in Nat /\ \A x \in rows : x.seq <= MaxSeq(rows)
    BY MaxSeqIsMax
  <2>2. MaxSeq(left) = 0 \/ \E x \in left : MaxSeq(left) = x.seq
    BY <1>1, <1>4, MaxSeqIsMax
  <2>3. QED
    BY <1>1, <2>1, <2>2
<1>6. QED
  BY <1>1, <1>3, <1>4, <1>5 DEF Unique

\* Every step keeps the numbering of the spool.
LEMMA SpoolStep == TypeOK /\ SpoolInv /\ [Next]_vars => SpoolInv'
<1> SUFFICES ASSUME TypeOK, SpoolInv, [Next]_vars PROVE SpoolInv'
  OBVIOUS
<1>0. /\ SpoolTypes /\ spool \in SUBSET Row
      /\ Flushed \in SUBSET Row /\ HasMax(Flushed) /\ Unique(Flushed)
      /\ Snapshots(Flushed) = Snapshots(spool) /\ HasMax(Snapshots(Flushed))
      /\ FlushedSeq \in Nat \ {0}
      /\ tracked => MaxSeq(Flushed) < FlushedSeq
  BY FlushFacts DEF SpoolInv, SpoolTypes
<1>1. ASSUME UNCHANGED <<tracked, buf, nextSeq, spool, trimmed>> PROVE SpoolInv'
  BY <1>1 DEF SpoolInv, SpoolTypes
<1>2. << >> \in Seq(0 .. MaxOutput)
  OBVIOUS
<1>3. CASE Flush
  BY <1>0, <1>2, <1>3 DEF Flush, SpoolInv, SpoolTypes
<1>4. ASSUME Untrack PROVE SpoolInv'
  <2>1. tracked' = FALSE /\ spool' = Flushed /\ buf' = << >> /\ nextSeq' = FlushedSeq /\ trimmed' = trimmed
    BY <1>4 DEF Untrack
  <2>2. SpoolTypes'
    BY <1>0, <1>2, <2>1 DEF SpoolTypes
  <2>3. QED
    BY <1>0, <2>1, <2>2 DEF SpoolInv
<1>5. ASSUME Track PROVE SpoolInv'
  <2>1. tracked' = TRUE /\ UNCHANGED <<buf, spool, trimmed>> /\ nextSeq' = IF tracked THEN nextSeq ELSE MaxSeq(spool) + 1
    BY <1>5 DEF Track
  <2>2. MaxSeq(spool) \in Nat
    BY <1>0, MaxSeqIsMax DEF SpoolInv
  <2>3. nextSeq' \in Nat \ {0} /\ MaxSeq(spool) < nextSeq'
    BY <1>0, <2>1, <2>2 DEF SpoolInv, SpoolTypes
  <2>4. tracked' \in BOOLEAN
    BY <2>1
  <2>5. SpoolTypes'
    BY <1>0, <2>1, <2>3, <2>4 DEF SpoolTypes
  <2>6. QED
    BY <2>1, <2>3, <2>5 DEF SpoolInv
<1>6. CASE Collect
  <2>1. PICK age \in {0} \cup {x.seq : x \in spool}, size \in {0} \cup {x.seq : x \in spool}, expired \in BOOLEAN :
          spool' = IF expired THEN {} ELSE Kept(spool, age, size)
    BY <1>6 DEF Collect
  <2>2. age \in Nat /\ size \in Nat
    BY <1>0 DEF Row
  <2>3. UNCHANGED <<tracked, buf, nextSeq>> /\ trimmed' = TRUE
    BY <1>6 DEF Collect
  <2>4. MaxSeq(spool) \in Nat
    BY <1>0, MaxSeqIsMax DEF SpoolInv
  <2>5. /\ spool' \in SUBSET Row /\ HasMax(spool') /\ HasMax(Snapshots(spool'))
        /\ MaxSeq(spool') <= MaxSeq(spool) /\ Unique(spool')
    <3>1. CASE expired
      BY <2>1, <2>4, <3>1 DEF HasMax, Snapshots, MaxSeq, Unique
    <3>2. CASE ~expired
      <4>1. spool' = Kept(spool, age, size)
        BY <2>1, <3>2
      <4>2. HasMax(spool) /\ HasMax(Snapshots(spool)) /\ Unique(spool)
        BY DEF SpoolInv
      <4>3. QED
        BY <1>0, <2>2, <4>1, <4>2, CollectKeepsMax
    <3>3. QED
      BY <3>1, <3>2
  <2>6. tracked => MaxSeq(spool') < nextSeq
    <3>1. MaxSeq(spool') \in Nat /\ nextSeq \in Nat
      BY <1>0, <2>5, MaxSeqIsMax DEF SpoolTypes
    <3>2. QED
      BY <2>4, <2>5, <3>1 DEF SpoolInv
  <2>7. trimmed' \in BOOLEAN
    BY <2>3
  <2>8. SpoolTypes'
    BY <1>0, <2>3, <2>5, <2>7 DEF SpoolTypes
  <2>9. QED
    BY <2>3, <2>5, <2>6, <2>8 DEF SpoolInv
<1>7. CASE DeliverOutput
  <2>1. Head(wire).n \in 0 .. MaxOutput
    BY <1>7, HeadOfWire, MessageFields DEF DeliverOutput, Message
  <2>2. UNCHANGED <<tracked, nextSeq, spool, trimmed>> /\ buf' = IF tracked THEN Append(buf, Head(wire).n) ELSE buf
    BY <1>7 DEF DeliverOutput
  <2>3. buf' \in Seq(0 .. MaxOutput)
    BY <1>0, <2>1, <2>2, AppendProperties DEF SpoolTypes
  <2>4. QED
    BY <1>0, <2>2, <2>3 DEF SpoolInv, SpoolTypes
<1>8. CASE DeliverSnapshot \/ DeliverAttached
  <2>1. Head(wire).upTo \in 0 .. MaxOutput
    BY <1>8, HeadOfWire, MessageFields DEF DeliverSnapshot, DeliverAttached, Message
  <2>2. QED
    BY <1>8, <2>1, SnapshotKeepsSpool DEF DeliverSnapshot, DeliverAttached
<1>9. CASE DeliverExit \/ DeliverNotFound \/ Destroy
  BY <1>4, <1>9 DEF DeliverExit, DeliverNotFound, Destroy
<1>10. CASE CloseSession
  BY <1>1, <1>4, <1>10 DEF CloseSession, spoolVars
<1>11. CASE RestartOk \/ RespawnOk
  BY <1>5, <1>11 DEF RestartOk, RespawnOk
<1>12. CASE HubRestart
  <2>1. spool' \in {spool, Flushed} /\ buf' = << >> /\ nextSeq' = 1 /\ tracked' = FALSE /\ trimmed' = trimmed
    BY <1>12 DEF HubRestart
  <2>2. spool' \in SUBSET Row /\ HasMax(spool') /\ Unique(spool') /\ HasMax(Snapshots(spool'))
    BY <1>0, <2>1 DEF SpoolInv
  <2>3. tracked' \in BOOLEAN
    BY <2>1
  <2>4. SpoolTypes'
    BY <1>0, <1>2, <2>1, <2>2, <2>3 DEF SpoolTypes
  <2>5. QED
    BY <2>1, <2>2, <2>4 DEF SpoolInv
<1>13. ASSUME NEW c \in Clients, ClientStep(c) PROVE SpoolInv'
  BY <1>1, <1>13 DEF ClientStep, Attach, Detach, Disconnect, Connect, DetachEffect, spoolVars
<1>14. ASSUME NEW k \in Calls, CallStep(k) PROVE SpoolInv'
  BY <1>1, <1>14 DEF CallStep, Restart, RestartReconnected, RestartAnswered, CallFails, Respawn, spoolVars
<1>15. CASE \/ DeliverPassword \/ LateAnswer \/ AgentOutput \/ AgentExit \/ SnapshotTimer \/ SnapshotTimeout
            \/ LinkDown \/ LinkUp \/ WarmRestart \/ UNCHANGED vars
  BY <1>1, <1>15 DEF DeliverPassword, LateAnswer, AgentOutput, AgentExit, SnapshotTimer, SnapshotTimeout,
     LinkDown, LinkUp, WarmRestart, vars, spoolVars
<1>16. QED
  BY <1>3, <1>6, <1>7, <1>8, <1>9, <1>10, <1>11, <1>12, <1>13, <1>14, <1>15 DEF Next, Deliver

\* A channel that was just spawned.
LEMMA OutputInit == Init => TypeOK /\ SpoolInv
<1> SUFFICES ASSUME Init PROVE TypeOK /\ SpoolInv
  OBVIOUS
<1>1. 1 \in Sets
  BY BoundsAssumption DEF Sets
<1>2. EntryTypes /\ ClientTypes
  <2>1. PICK c \in Clients : members = [s \in Sets |-> IF s = 1 THEN {c} ELSE {}] /\ lists = {c}
    BY DEF Init
  <2>2. members \in [Sets -> SUBSET Clients]
    BY <2>1
  <2>3. disturbed \in BOOLEAN
    BY DEF Init
  <2>4. QED
    BY <1>1, <2>1, <2>2, <2>3 DEF Init, EntryTypes, ClientTypes
<1>3. CallTypes
  BY DEF Init, CallTypes, Idle
<1>4. AgentTypes
  BY EmptySeq, BoundsAssumption DEF Init, AgentTypes
<1>5. SpoolTypes
  <2>1. tracked \in BOOLEAN /\ trimmed \in BOOLEAN
    BY DEF Init
  <2>2. QED
    BY <2>1, EmptySeq DEF Init, SpoolTypes
<1>6. SchedTypes
  <2>1. armed \in BOOLEAN
    BY DEF Init
  <2>2. QED
    BY <2>1, BoundsAssumption DEF Init, SchedTypes
<1>7. SpoolInv
  <2>1. Snapshots({}) = {}
    BY DEF Snapshots
  <2>2. QED
    BY <1>5, <2>1 DEF Init, SpoolInv, HasMax, Unique, MaxSeq
<1>8. QED
  BY <1>2, <1>3, <1>4, <1>5, <1>6, <1>7 DEF TypeOK

\* The types and the numbering hold together.
LEMMA OutputAlways == Spec => [](TypeOK /\ SpoolInv)
<1>1. TypeOK /\ SpoolInv /\ [Next]_vars => TypeOK' /\ SpoolInv'
  <2> SUFFICES ASSUME TypeOK, SpoolInv, [Next]_vars PROVE TypeOK' /\ SpoolInv'
    OBVIOUS
  <2>1. SpoolInv' /\ SpoolTypes'
    BY SpoolStep DEF SpoolInv
  <2>2. QED
    BY <2>1, EntryTypesStep, ClientTypesStep, CallTypesStep, AgentTypesStep, SchedTypesStep DEF TypeOK
<1>2. QED
  BY <1>1, OutputInit, PTL DEF Spec

\* The variables keep their types: in particular the scheduler never exceeds its slots,
\* and every call under way holds the Set of clients or the client that it needs.
THEOREM OutputTypeCorrect == Spec => []TypeOK
BY OutputAlways, PTL

\* No insert into spool.db meets a number that is taken, whatever order flushes,
\* snapshots, deletions and restarts come in.
THEOREM SeqStaysFresh == Spec => []SeqFresh
<1>1. SpoolInv => SeqFresh
  BY DEF SpoolInv, SeqFresh, Unique
<1>2. QED
  BY <1>1, OutputAlways, PTL

-----------------------------------------------------------------------------
(* The clients of a channel.                                               *)

\* While nobody has removed or replaced the entry under a call: the clients of the entry are
\* those that list the channel, nobody lists a channel without an entry, and the Sets that
\* have not been created are empty.
ClientsInv ==
  ~disturbed => /\ lists = IF status = "absent" THEN {} ELSE members[set]
                /\ set <= sets
                /\ \A s \in Sets : s > sets => members[s] = {}

\* Every step keeps the clients of the entry.
LEMMA ClientsStep == TypeOK /\ ClientsInv /\ [Next]_vars => ClientsInv'
<1> SUFFICES ASSUME TypeOK, ClientsInv, [Next]_vars PROVE ClientsInv'
  OBVIOUS
<1>0. EntryTypes
  BY DEF TypeOK
<1>s. sets < MaxSets => sets + 1 \in Sets
  BY <1>0, BoundsAssumption DEF EntryTypes, Sets
<1>n. /\ set \in Nat /\ sets \in Nat /\ None \notin Sets
      /\ \A s \in Sets : s \in Nat
  BY <1>0, NoneAssumption DEF EntryTypes, Sets
<1>1. ASSUME UNCHANGED <<lists, members, set, sets, disturbed>>,
             status = "absent" <=> status' = "absent"
      PROVE  ClientsInv'
  BY <1>1 DEF ClientsInv
<1>2. CASE DeliverExit
  BY <1>1, <1>2 DEF DeliverExit, clientVars
<1>3. CASE DeliverNotFound
  <2> DEFINE m == Head(wire)
  <2>1. m.set \in Sets /\ m.by \in Clients
    BY <1>3, HeadOfWire, MessageFields DEF DeliverNotFound, Message
  <2>2. SUFFICES ASSUME ~disturbed' PROVE ClientsInv'
    BY DEF ClientsInv
  <2>3. ~disturbed /\ m.set = set
    BY <1>3, <2>2 DEF DeliverNotFound
  <2>4. status' = "absent" /\ lists' = {} /\ UNCHANGED <<set, sets>>
    BY <1>3, <2>3 DEF DeliverNotFound, ClientsInv
  <2>5. members' = [members EXCEPT ![m.set] = @ \ {m.by}]
    BY <1>3 DEF DeliverNotFound
  <2>6. \A s \in Sets : s > sets => members'[s] = {}
    BY <1>0, <2>1, <2>3, <2>5 DEF EntryTypes, ClientsInv
  <2>7. QED
    BY <2>3, <2>4, <2>6 DEF ClientsInv
<1>4. ASSUME NEW c \in Clients, Attach(c) PROVE ClientsInv'
  <2>1. /\ status # "absent" /\ status' # "absent"
        /\ members' = [members EXCEPT ![set] = @ \cup {c}]
        /\ lists' = lists \cup {c}
        /\ UNCHANGED <<set, sets, disturbed>>
    BY <1>4 DEF Attach
  <2>2. members'[set] = members[set] \cup {c} /\ \A s \in Sets : s # set => members'[s] = members[s]
    BY <1>0, <2>1 DEF EntryTypes
  <2>3. QED
    BY <1>n, <2>1, <2>2 DEF ClientsInv
<1>5. ASSUME NEW c \in Clients, DetachEffect(c) PROVE ClientsInv'
  <2>1. /\ status = "absent" <=> status' = "absent"
        /\ members' = IF status = "absent" THEN members ELSE [members EXCEPT ![set] = @ \ {c}]
        /\ lists' = lists \ {c}
        /\ UNCHANGED <<set, sets, disturbed>>
    BY <1>5 DEF DetachEffect
  <2>2. CASE status = "absent"
    BY <2>1, <2>2 DEF ClientsInv
  <2>3. CASE status # "absent"
    <3>1. members'[set] = members[set] \ {c} /\ \A s \in Sets : s # set => members'[s] = members[s]
      BY <1>0, <2>1, <2>3 DEF EntryTypes
    <3>2. QED
      BY <1>n, <2>1, <2>3, <3>1 DEF ClientsInv
  <2>4. QED
    BY <2>2, <2>3
<1>6. CASE Destroy
  BY <1>6 DEF Destroy, ClientsInv
<1>7. CASE CloseSession
  BY <1>1, <1>7 DEF CloseSession, clientVars
<1>8. CASE RestartOk
  <2> DEFINE k == Head(wire).to
             held == IF status = "absent" THEN None ELSE set
  <2>1. SUFFICES ASSUME ~disturbed' PROVE ClientsInv'
    BY DEF ClientsInv
  <2>2. ~disturbed /\ held = call[k].set
    BY <1>8, <2>1 DEF RestartOk
  <2>3. status' = "live" /\ UNCHANGED lists /\ Install(held)
    BY <1>8, <2>2 DEF RestartOk, clientVars
  <2>4. CASE status = "absent"
    <3>1. sets < MaxSets /\ set' = sets + 1 /\ sets' = sets + 1 /\ UNCHANGED members
      BY <2>3, <2>4 DEF Install
    <3>2. members[sets + 1] = {}
      BY <1>n, <1>s, <2>2, <3>1 DEF ClientsInv
    <3>3. QED
      BY <1>n, <2>2, <2>3, <2>4, <3>1, <3>2 DEF ClientsInv
  <2>5. CASE status # "absent"
    <3>1. set # None
      BY <1>0, <1>n DEF EntryTypes
    <3>2. UNCHANGED <<set, members, sets>>
      BY <2>3, <2>5, <3>1 DEF Install
    <3>3. QED
      BY <2>2, <2>3, <2>5, <3>2 DEF ClientsInv
  <2>6. QED
    BY <2>4, <2>5
<1>9. CASE RespawnOk
  <2> DEFINE c == call[Head(wire).to].set
  <2>1. SUFFICES ASSUME ~disturbed' PROVE ClientsInv'
    BY DEF ClientsInv
  <2>2. ~disturbed /\ lists = {} /\ c \in here
    BY <1>9, <2>1 DEF RespawnOk
  <2>3. /\ sets < MaxSets /\ set' = sets + 1 /\ sets' = sets + 1 /\ status' = "live"
        /\ members' = [members EXCEPT ![sets + 1] = {c}]
        /\ lists' = {c}
    BY <1>9, <2>2 DEF RespawnOk
  <2>4. members'[sets + 1] = {c} /\ \A s \in Sets : s # sets + 1 => members'[s] = members[s]
    BY <1>0, <1>s, <2>3 DEF EntryTypes
  <2>5. QED
    BY <1>n, <2>2, <2>3, <2>4 DEF ClientsInv
<1>10. CASE HubRestart
  <2>1. /\ sets < MaxSets /\ set' = sets + 1 /\ sets' = sets + 1
        /\ lists' = {} /\ UNCHANGED <<members, disturbed>>
    BY <1>10 DEF HubRestart
  <2>2. ~disturbed => members[sets + 1] = {}
    BY <1>n, <1>s, <2>1 DEF ClientsInv
  <2>3. QED
    BY <1>n, <2>1, <2>2 DEF ClientsInv
<1>11. CASE LinkDown \/ LinkUp \/ WarmRestart
  BY <1>1, <1>11 DEF LinkDown, LinkUp, WarmRestart, Reconcile, SpawnChannels, clientVars
<1>12. ASSUME UNCHANGED <<entryVars, lists>> PROVE ClientsInv'
  BY <1>1, <1>12 DEF entryVars
<1>13. ASSUME NEW c \in Clients, ClientStep(c) PROVE ClientsInv'
  BY <1>4, <1>5, <1>12, <1>13 DEF ClientStep, Detach, Disconnect, Connect
<1>14. ASSUME NEW k \in Calls, CallStep(k) PROVE ClientsInv'
  BY <1>12, <1>14 DEF CallStep, Restart, RestartReconnected, RestartAnswered, CallFails, Respawn, clientVars
<1>15. CASE DeliverOutput \/ DeliverSnapshot \/ DeliverAttached \/ DeliverPassword \/ LateAnswer
  BY <1>12, <1>15 DEF DeliverOutput, DeliverSnapshot, DeliverAttached, DeliverPassword, LateAnswer, clientVars
<1>16. CASE AgentOutput \/ AgentExit \/ Flush \/ Collect \/ SnapshotTimer \/ SnapshotTimeout \/ UNCHANGED vars
  BY <1>12, <1>16 DEF AgentOutput, AgentExit, Flush, Collect, SnapshotTimer, SnapshotTimeout, vars, clientVars
<1>17. QED
  BY <1>2, <1>3, <1>6, <1>7, <1>8, <1>9, <1>10, <1>11, <1>13, <1>14, <1>15, <1>16 DEF Next, Deliver

\* A restart that waits for the agent, or asks for a password first, gives the channel back
\* to every client that is attached by then, unless the entry was destroyed or replaced.
THEOREM RestartCorrect == Spec => []RestartKeepsClients
<1>1. Init => ClientsInv
  <2> SUFFICES ASSUME Init PROVE ClientsInv
    OBVIOUS
  <2>1. PICK c \in Clients : members = [s \in Sets |-> IF s = 1 THEN {c} ELSE {}] /\ lists = {c}
    BY DEF Init
  <2>2. 1 \in Sets /\ \A s \in Sets : s \in Nat
    BY BoundsAssumption DEF Sets
  <2>3. set = 1 /\ sets = 1 /\ status = "live"
    BY DEF Init
  <2>4. members[1] = {c} /\ \A s \in Sets : s > 1 => members[s] = {}
    BY <2>1, <2>2
  <2>5. QED
    BY <2>1, <2>3, <2>4 DEF ClientsInv
<1>2. ClientsInv => RestartKeepsClients
  BY DEF ClientsInv, RestartKeepsClients
<1>3. QED
  BY <1>1, <1>2, ClientsStep, OutputAlways, PTL DEF Spec
=============================================================================
