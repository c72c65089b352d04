----------------------- MODULE SessionAcquisitionProofs -----------------------
(***************************************************************************)
(* Proofs about SessionAcquisition for any number of clients, calls,       *)
(* reconnect attempts and sessions.                                        *)
(***************************************************************************)
EXTENDS SessionAcquisition, TLAPS

\* Why the acquisition invariants are inductive: a call that has not started is
\* unknown to every acquisition, an aborted one is no longer in the map, and a
\* call goes on to spawn only after its leader stopped connecting.
Strengthening ==
  /\ \A s \in Spawns : pc[s] = "idle" => ~aborted[s]
  /\ \A s \in Spawns :
       pc[s] = "spawning" /\ acqOf[s] # None => pc[acqOf[s]] \notin {"idle", "connecting"}

\* The inductive invariant behind AcquisitionCorrect.
AcqInv == AcqLive /\ NoStrandedFollower /\ LeaseAccounting /\ Strengthening


-----------------------------------------------------------------------------
(***************************************************************************)
(* Type correctness.  First what the operators shared by several actions   *)
(* preserve, then one step per action.                                     *)
(***************************************************************************)
\* A call that returns drops its locals and its lease.
LEMMA ReturnTypes ==
  ASSUME TypeOK, NEW S, Return(S)
  PROVE  SpawnTypes' /\ leases' \in [Spawns -> SUBSET Spawns]
<1>1. SpawnTypes'
  BY SessionAcquisitionAssumption DEF TypeOK, SpawnTypes, SpawnLocals, InFlight, Return, Without
<1>2. leases' \in [Spawns -> SUBSET Spawns]
  BY DEF TypeOK, AcqTypes, Return
<1>3. QED
  BY <1>1, <1>2

\* fail() leaves the acquisition and the calls it ends well typed.
LEMMA FailAcqTypes ==
  ASSUME TypeOK, NEW s \in Spawns, FailAcq(s), UNCHANGED aborted
  PROVE  SpawnTypes' /\ AcqTypes'
<1>1. SpawnTypes' /\ leases' \in [Spawns -> SUBSET Spawns]
  BY ReturnTypes DEF FailAcq
<1>2. AcqTypes'
  BY <1>1 DEF TypeOK, AcqTypes, FailAcq
<1>3. QED
  BY <1>1, <1>2

\* close() and shutdownAll() likewise.
LEMMA CloseAcqTypes ==
  ASSUME TypeOK, CloseAcq
  PROVE  SpawnTypes' /\ AcqTypes'
<1>1. CASE acqMap = None
  <2>1. UNCHANGED <<acqVars, spawnVars>>
    BY <1>1 DEF CloseAcq
  <2>2. QED
    BY <2>1 DEF TypeOK, SpawnTypes, SpawnLocals, AcqTypes, acqVars, spawnVars
<1>2. CASE acqMap # None
  <2>1. /\ acqState' = [acqState EXCEPT ![acqMap] = "CLOSING"]
        /\ aborted' = [aborted EXCEPT ![acqMap] = TRUE]
        /\ acqMap' = None
        /\ Return(Waiters(acqMap))
    BY <1>2 DEF CloseAcq
  <2>2. SpawnTypes' /\ leases' \in [Spawns -> SUBSET Spawns]
    BY <2>1, ReturnTypes
  <2>3. AcqTypes'
    BY <2>1, <2>2 DEF TypeOK, AcqTypes
  <2>4. QED
    BY <2>2, <2>3
<1>3. QED
  BY <1>1, <1>2

\* Cancelling the host's timer and aborting its attempt.
LEMMA CancelTypes ==
  ASSUME TypeOK,
         NEW A, NEW B,
         apc' = [b \in Attempts |-> IF b \in A THEN "done" ELSE apc[b]],
         aabort' = [b \in Attempts |-> aabort[b] \/ b \in B],
         timerMap' = None, ctlMap' = None, asess' = asess,
         \A b \in A \cap Attempts : apc[b] # "idle"
  PROVE  AttemptTypes'
<1>1. aabort' \in [Attempts -> BOOLEAN]
  BY DEF TypeOK, AttemptTypes
<1>2. apc' \in [Attempts -> {"idle", "timer", "starting", "restarting", "done"}]
  BY DEF TypeOK, AttemptTypes
<1>3. \A b \in Attempts : apc'[b] # "idle" => asess'[b] \in Sessions
  BY DEF TypeOK, AttemptTypes
<1>4. QED
  BY <1>1, <1>2, <1>3 DEF TypeOK, AttemptTypes

\* lifecycle.closeSession keeps the types of sessions and attempts.
LEMMA LifecycleCloseTypes ==
  ASSUME TypeOK, NEW x \in Sessions, LifecycleClose(x), UNCHANGED hasChan
  PROVE  SessionTypes' /\ AttemptTypes'
<1>1. SessionTypes'
  BY DEF TypeOK, SessionTypes, LifecycleClose
<1>2. AttemptTypes'
  <2> DEFINE A == {b \in Attempts : b = timerMap /\ apc[b] = "timer"}
  <2>1. apc' = [b \in Attempts |-> IF b \in A THEN "done" ELSE apc[b]]
    BY DEF LifecycleClose
  <2>2. aabort' = [b \in Attempts |-> aabort[b] \/ b \in {ctlMap}]
    BY DEF LifecycleClose
  <2>3. timerMap' = None /\ ctlMap' = None /\ asess' = asess
    BY DEF LifecycleClose
  <2>4. \A b \in A \cap Attempts : apc[b] # "idle"
    OBVIOUS
  <2> HIDE DEF A
  <2>5. QED
    BY <2>1, <2>2, <2>3, <2>4, CancelTypes
<1>3. QED
  BY <1>1, <1>2

\* So does the end of a timer chain.
LEMMA GiveUpTypes ==
  ASSUME TypeOK, NEW b \in Attempts, apc[b] # "idle", cur \in Sessions, GiveUp(b),
         UNCHANGED hasChan
  PROVE  SessionTypes' /\ AttemptTypes'
<1>1. SessionTypes'
  BY DEF TypeOK, SessionTypes, GiveUp
<1>2. AttemptTypes'
  <2> DEFINE A == {c \in Attempts : c = b \/ (c = timerMap /\ apc[c] = "timer")}
             B == {c \in Attempts : c = ctlMap /\ c # b}
  <2>1. apc' = [c \in Attempts |-> IF c \in A THEN "done" ELSE apc[c]]
    BY DEF GiveUp
  <2>2. aabort' = [c \in Attempts |-> aabort[c] \/ c \in B]
    BY DEF GiveUp
  <2>3. timerMap' = None /\ ctlMap' = None /\ asess' = asess
    BY DEF GiveUp
  <2>4. \A c \in A \cap Attempts : apc[c] # "idle"
    OBVIOUS
  <2> HIDE DEF A, B
  <2>5. QED
    BY <2>1, <2>2, <2>3, <2>4, CancelTypes
<1>3. QED
  BY <1>1, <1>2

\* Registering an AbortController.
LEMMA BeginStartTypes ==
  ASSUME TypeOK, NEW b \in Attempts, BeginStart(b)
  PROVE  aabort' \in [Attempts -> BOOLEAN] /\ ctlMap' \in Attempts
BY DEF TypeOK, AttemptTypes, BeginStart

\* Every step keeps the types.
LEMMA TypeStep == TypeOK /\ [Next]_vars => TypeOK'
<1> SUFFICES ASSUME TypeOK, [Next]_vars PROVE TypeOK'
  OBVIOUS
<1>1. ASSUME NEW s \in Spawns, SpawnFast(s) PROVE TypeOK'
  <2>1. SpawnTypes'
    BY <1>1, SessionAcquisitionAssumption DEF SpawnFast, SpawnRequested, AgentConnected, TypeOK, SpawnTypes, SpawnLocals, InFlight, AgentTypes
  <2>2. SessionTypes'
    BY <1>1 DEF SpawnFast, GetOrCreateSession, TypeOK, SessionTypes, sessVars
  <2>3. QED
    BY <1>1, <2>1, <2>2 DEF SpawnFast, TypeOK, AcqTypes, AgentTypes, Agents, AttemptTypes, acqVars, agentVars, attemptVars
<1>2. ASSUME NEW s \in Spawns, SpawnFollow(s) PROVE TypeOK'
  <2>1. SpawnTypes'
    BY <1>2, SessionAcquisitionAssumption DEF SpawnFollow, Join, SpawnRequested, CanJoin, TypeOK, SpawnTypes, AcqTypes, SpawnLocals, InFlight
  <2>2. AcqTypes'
    BY <1>2 DEF SpawnFollow, Join, CanJoin, TypeOK, AcqTypes
  <2>3. QED
    BY <1>2, <2>1, <2>2 DEF SpawnFollow, Join, TypeOK, SessionTypes, AgentTypes, Agents, AttemptTypes, sessVars, agentVars, attemptVars
<1>3. ASSUME NEW s \in Spawns, SpawnLead(s) PROVE TypeOK'
  <2>1. SpawnTypes'
    BY <1>3, SessionAcquisitionAssumption DEF SpawnLead, Acquire, SpawnRequested, TypeOK, SpawnTypes, SpawnLocals, InFlight
  <2>2. AcqTypes'
    BY <1>3 DEF SpawnLead, Acquire, TypeOK, AcqTypes
  <2>3. SessionTypes'
    BY <1>3 DEF SpawnLead, Acquire, GetOrCreateSession, TypeOK, SessionTypes, sessVars
  <2>4. QED
    BY <1>3, <2>1, <2>2, <2>3 DEF SpawnLead, Acquire, TypeOK, AgentTypes, Agents, AttemptTypes, agentVars, attemptVars
<1>4. ASSUME NEW s \in Spawns, LeaderFail(s) PROVE TypeOK'
  <2>1. SpawnTypes' /\ AcqTypes'
    BY <1>4, FailAcqTypes DEF LeaderFail
  <2>2. SessionTypes'
    BY <1>4 DEF LeaderFail, TypeOK, SessionTypes, SpawnTypes, SpawnLocals
  <2>3. QED
    BY <1>4, <2>1, <2>2 DEF LeaderFail, TypeOK, AgentTypes, Agents, AttemptTypes, agentVars, attemptVars
<1>5. ASSUME NEW s \in Spawns, LeaderMismatch(s) PROVE TypeOK'
  <2>1. SpawnTypes' /\ AcqTypes'
    BY <1>5, FailAcqTypes DEF LeaderMismatch
  <2>2. SessionTypes' /\ AttemptTypes'
    BY <1>5, LifecycleCloseTypes DEF LeaderMismatch, TypeOK, SpawnTypes, SpawnLocals
  <2>3. AgentTypes'
    BY <1>5 DEF LeaderMismatch, TypeOK, AgentTypes, Agents
  <2>4. QED
    BY <1>5, <2>1, <2>2, <2>3 DEF LeaderMismatch, TypeOK
<1>6. ASSUME NEW s \in Spawns, LeaderCommit(s) PROVE TypeOK'
  <2>1. SpawnTypes'
    BY <1>6, SessionAcquisitionAssumption DEF LeaderCommit, Waiters, Without, Agents, TypeOK, SpawnTypes, SpawnLocals, InFlight
  <2>2. AcqTypes'
    BY <1>6 DEF LeaderCommit, Waiters, TypeOK, AcqTypes
  <2>3. SessionTypes'
    BY <1>6 DEF LeaderCommit, TypeOK, SessionTypes, SpawnTypes, SpawnLocals
  <2>4. AgentTypes'
    BY <1>6 DEF LeaderCommit, TypeOK, AgentTypes, Agents
  <2>5. QED
    BY <1>6, <2>1, <2>2, <2>3, <2>4 DEF LeaderCommit, TypeOK, AttemptTypes, attemptVars
<1>7. ASSUME NEW s \in Spawns, SpawnOk(s) PROVE TypeOK'
  <2>1. SpawnTypes' /\ AcqTypes'
    BY <1>7, ReturnTypes DEF SpawnOk, TypeOK, AcqTypes
  <2>2. SessionTypes'
    BY <1>7 DEF SpawnOk, TypeOK, SessionTypes, SpawnTypes, SpawnLocals, sessVars
  <2>3. QED
    BY <1>7, <2>1, <2>2 DEF SpawnOk, TypeOK, AgentTypes, Agents, AttemptTypes, agentVars, attemptVars
<1>8. ASSUME NEW s \in Spawns, SpawnErr(s) PROVE TypeOK'
  <2>1. SpawnTypes' /\ AcqTypes'
    BY <1>8, ReturnTypes DEF SpawnErr, TypeOK, AcqTypes
  <2>2. QED
    BY <1>8, <2>1 DEF SpawnErr, TypeOK, SessionTypes, AgentTypes, Agents, AttemptTypes, sessVars, agentVars, attemptVars
<1>9. ASSUME NEW b \in Attempts, TimerFires(b) PROVE TypeOK'
  <2>1. AttemptTypes'
    <3>1. CASE cur = asess[b] /\ status[cur] # "closed"
      BY <1>9, <3>1, BeginStartTypes DEF TimerFires, TypeOK, AttemptTypes
    <3>2. CASE ~(cur = asess[b] /\ status[cur] # "closed")
      BY <1>9, <3>2 DEF TimerFires, TypeOK, AttemptTypes
    <3>3. QED
      BY <3>1, <3>2
  <2>2. QED
    BY <1>9, <2>1 DEF TimerFires, TypeOK, SpawnTypes, SpawnLocals, InFlight, Agents, AcqTypes, SessionTypes, AgentTypes, spawnVars, acqVars, sessVars, agentVars
<1>10. ASSUME NEW b \in Attempts, RestartReconnect(b) PROVE TypeOK'
  <2>1. AttemptTypes'
    BY <1>10, BeginStartTypes DEF RestartReconnect, TypeOK, SessionTypes, AttemptTypes
  <2>2. QED
    BY <1>10, <2>1 DEF RestartReconnect, TypeOK, SpawnTypes, SpawnLocals, InFlight, Agents, AcqTypes, SessionTypes, AgentTypes, spawnVars, acqVars, sessVars, agentVars
<1>11. ASSUME NEW b \in Attempts, ReconnectOk(b) PROVE TypeOK'
  <2>1. SessionTypes'
    BY <1>11 DEF ReconnectOk, TypeOK, SessionTypes
  <2>2. AgentTypes'
    BY <1>11 DEF ReconnectOk, TypeOK, AgentTypes, Agents
  <2>3. AttemptTypes'
    BY <1>11 DEF ReconnectOk, Starting, TypeOK, AttemptTypes
  <2>4. QED
    BY <1>11, <2>1, <2>2, <2>3 DEF ReconnectOk, TypeOK, SpawnTypes, SpawnLocals, InFlight, Agents, AcqTypes, spawnVars, acqVars
<1>12. ASSUME NEW b \in Attempts, ReconnectFenced(b) PROVE TypeOK'
  <2>1. SessionTypes' /\ AttemptTypes'
    <3>1. apc[b] # "idle" /\ cur \in Sessions
      BY <1>12 DEF ReconnectFenced, Starting, ReconnectGuard, TypeOK, AttemptTypes
    <3>2. CASE GiveUp(b)
      BY <1>12, <3>1, <3>2, GiveUpTypes DEF ReconnectFenced
    <3>3. CASE ~GiveUp(b)
      BY <1>12, <3>1, <3>3 DEF ReconnectFenced, TypeOK, SessionTypes, AttemptTypes
    <3>4. QED
      BY <3>2, <3>3
  <2>2. AgentTypes'
    BY <1>12 DEF ReconnectFenced, TypeOK, AgentTypes, Agents
  <2>3. QED
    BY <1>12, <2>1, <2>2 DEF ReconnectFenced, TypeOK, SpawnTypes, SpawnLocals, InFlight, Agents, AcqTypes, spawnVars, acqVars
<1>13. ASSUME NEW b \in Attempts, ReconnectStale(b) PROVE TypeOK'
  <2>1. AttemptTypes'
    BY <1>13 DEF ReconnectStale, Starting, TypeOK, AttemptTypes
  <2>2. QED
    BY <1>13, <2>1 DEF ReconnectStale, TypeOK, SpawnTypes, SpawnLocals, InFlight, Agents, AcqTypes, SessionTypes, AgentTypes, spawnVars, acqVars, sessVars, agentVars
<1>14. ASSUME NEW b \in Attempts, ReconnectMismatch(b) PROVE TypeOK'
  <2>1. SessionTypes'
    BY <1>14 DEF ReconnectMismatch, TypeOK, SessionTypes
  <2>2. AgentTypes'
    BY <1>14 DEF ReconnectMismatch, TypeOK, AgentTypes, Agents
  <2>3. AttemptTypes'
    BY <1>14 DEF ReconnectMismatch, Starting, TypeOK, AttemptTypes
  <2>4. QED
    BY <1>14, <2>1, <2>2, <2>3 DEF ReconnectMismatch, TypeOK, SpawnTypes, SpawnLocals, InFlight, Agents, AcqTypes, spawnVars, acqVars
<1>15. ASSUME NEW b \in Attempts, ReconnectRetry(b) PROVE TypeOK'
  <2>1. AttemptTypes'
    BY <1>15 DEF ReconnectRetry, Starting, TypeOK, AttemptTypes
  <2>2. QED
    BY <1>15, <2>1 DEF ReconnectRetry, TypeOK, SpawnTypes, SpawnLocals, InFlight, Agents, AcqTypes, SessionTypes, AgentTypes, spawnVars, acqVars, sessVars, agentVars
<1>16. ASSUME NEW b \in Attempts, ReconnectGiveUp(b) PROVE TypeOK'
  <2>1. SessionTypes' /\ AttemptTypes'
    <3>1. CASE cur = asess[b]
      <4>1. apc[b] # "idle" /\ cur \in Sessions
        BY <1>16, <3>1 DEF ReconnectGiveUp, TypeOK, AttemptTypes
      <4>2. QED
        BY <1>16, <3>1, <4>1, GiveUpTypes DEF ReconnectGiveUp
    <3>2. CASE cur # asess[b]
      BY <1>16, <3>2 DEF ReconnectGiveUp, TypeOK, SessionTypes, AttemptTypes, sessVars
    <3>3. QED
      BY <3>1, <3>2
  <2>2. QED
    BY <1>16, <2>1 DEF ReconnectGiveUp, TypeOK, SpawnTypes, SpawnLocals, InFlight, Agents, AcqTypes, AgentTypes, spawnVars, acqVars, agentVars
<1>17. ASSUME NEW a \in Agents, AgentDrop(a) PROVE TypeOK'
  <2>1. AgentTypes'
    BY <1>17 DEF AgentDrop, TypeOK, AgentTypes
  <2>2. QED
    BY <1>17, <2>1 DEF AgentDrop, TypeOK, SpawnTypes, SpawnLocals, InFlight, Agents, AcqTypes, SessionTypes, AttemptTypes, spawnVars, acqVars, sessVars, attemptVars
<1>18. ASSUME NEW a \in Agents, AgentCloseEvent(a) PROVE TypeOK'
  <2>1. AgentTypes'
    BY <1>18 DEF AgentCloseEvent, TypeOK, AgentTypes
  <2>2. SessionTypes'
    BY <1>18 DEF AgentCloseEvent, TypeOK, SessionTypes
  <2>3. AttemptTypes'
    <3>1. CASE UNCHANGED attemptVars
      BY <3>1 DEF attemptVars, TypeOK, AttemptTypes
    <3>2. CASE ~UNCHANGED attemptVars
      <4>1. PICK b \in Attempts : ScheduleReconnect(b, cur) /\ cur # None
        BY <1>18, <3>2 DEF AgentCloseEvent
      <4>2. UNCHANGED <<aabort, ctlMap>>
        BY <1>18, <3>2 DEF AgentCloseEvent
      <4>3. QED
        BY <4>1, <4>2 DEF ScheduleReconnect, TypeOK, SessionTypes, AttemptTypes
    <3>3. QED
      BY <3>1, <3>2
  <2>4. QED
    BY <1>18, <2>1, <2>2, <2>3 DEF AgentCloseEvent, TypeOK, SpawnTypes, SpawnLocals, InFlight, Agents, AcqTypes, spawnVars, acqVars
<1>19. ASSUME NEW x \in Sessions, DestroyChannels(x) PROVE TypeOK'
  <2>1. SessionTypes'
    BY <1>19 DEF DestroyChannels, TypeOK, SessionTypes, sessVars
  <2>2. QED
    BY <1>19, <2>1 DEF DestroyChannels, TypeOK, SpawnTypes, SpawnLocals, InFlight, Agents, AcqTypes, AgentTypes, AttemptTypes, spawnVars, acqVars, agentVars, attemptVars
<1>20. ASSUME NEW x \in Sessions, ChannelRestarted(x) PROVE TypeOK'
  <2>1. SessionTypes'
    BY <1>20 DEF ChannelRestarted, TypeOK, SessionTypes
  <2>2. QED
    BY <1>20, <2>1 DEF ChannelRestarted, TypeOK, SpawnTypes, SpawnLocals, InFlight, Agents, AcqTypes, AgentTypes, AttemptTypes, spawnVars, acqVars, agentVars, attemptVars
<1>21. ASSUME NEW c \in Clients, ClientDisconnect(c) PROVE TypeOK'
  <2>1. QED
    BY <1>21 DEF ClientDisconnect, TypeOK, SpawnTypes, SpawnLocals, InFlight, Agents, AcqTypes, SessionTypes, AgentTypes, AttemptTypes, spawnVars, acqVars, sessVars, agentVars, attemptVars
<1>22. CASE CloseSession
  <2>1. SpawnTypes' /\ AcqTypes'
    BY <1>22, CloseAcqTypes DEF CloseSession
  <2>2. SessionTypes' /\ AttemptTypes'
    BY <1>22, LifecycleCloseTypes DEF CloseSession, TypeOK, SessionTypes
  <2>3. AgentTypes'
    BY <1>22 DEF CloseSession, TypeOK, AgentTypes
  <2>4. QED
    BY <1>22, <2>1, <2>2, <2>3 DEF CloseSession, TypeOK
<1>23. CASE SessionDetached
  <2>1. SessionTypes'
    BY <1>23 DEF SessionDetached, TypeOK, SessionTypes
  <2>2. QED
    BY <1>23, <2>1 DEF SessionDetached, TypeOK, SpawnTypes, SpawnLocals, InFlight, Agents, AcqTypes, AgentTypes, AttemptTypes, spawnVars, acqVars, agentVars, attemptVars
<1>24. CASE BeginQuit
  <2>1. SpawnTypes' /\ AcqTypes'
    BY <1>24, CloseAcqTypes DEF BeginQuit
  <2>2. AttemptTypes'
    <3> DEFINE A == {b \in Attempts : b = timerMap /\ apc[b] = "timer"}
    <3>1. apc' = [b \in Attempts |-> IF b \in A THEN "done" ELSE apc[b]]
      BY <1>24 DEF BeginQuit
    <3>2. aabort' = [b \in Attempts |-> aabort[b] \/ b \in {ctlMap}]
      BY <1>24 DEF BeginQuit
    <3>3. timerMap' = None /\ ctlMap' = None /\ asess' = asess
      BY <1>24 DEF BeginQuit
    <3>4. \A b \in A \cap Attempts : apc[b] # "idle"
      OBVIOUS
    <3> HIDE DEF A
    <3>5. QED
      BY <3>1, <3>2, <3>3, <3>4, CancelTypes
  <2>3. QED
    BY <1>24, <2>1, <2>2 DEF BeginQuit, TypeOK, SessionTypes, AgentTypes, Agents, sessVars, agentVars
<1>25. CASE UNCHANGED vars
  BY <1>25 DEF TypeOK, SpawnTypes, SpawnLocals, AcqTypes, SessionTypes, AgentTypes, AttemptTypes,
     vars, spawnVars, acqVars, sessVars, agentVars, attemptVars
<1>26. QED
  BY <1>1, <1>2, <1>3, <1>4, <1>5, <1>6, <1>7, <1>8, <1>9, <1>10, <1>11, <1>12, <1>13, <1>14, <1>15, <1>16, <1>17, <1>18, <1>19, <1>20, <1>21, <1>22, <1>23, <1>24, <1>25 DEF Next, SpawnStep, AttemptStep

\* The hub starts well typed: no client request, session or agent yet.
LEMMA TypeInit == Init => TypeOK
<1> SUFFICES ASSUME Init PROVE TypeOK
  OBVIOUS
<1>1. SpawnTypes
  BY DEF Init, SpawnTypes, SpawnLocals, InFlight
<1>2. AcqTypes /\ SessionTypes /\ AgentTypes
  BY DEF Init, AcqTypes, SessionTypes, AgentTypes
<1>3. AttemptTypes
  BY DEF Init, AttemptTypes
<1>4. QED
  BY <1>1, <1>2, <1>3 DEF Init, TypeOK

\* The variables keep their types, and every continuation of handleSpawn and of
\* the reconnect paths finds the locals it captured, for any number of calls.
THEOREM TypeCorrect == Spec => []TypeOK
<1>1. Init => TypeOK
  BY TypeInit
<1>2. TypeOK /\ [Next]_vars => TypeOK'
  BY TypeStep
<1>3. QED
  BY <1>1, <1>2, PTL DEF Spec

-----------------------------------------------------------------------------
(***************************************************************************)
(* The acquisition invariants.                                             *)
(***************************************************************************)
\* When the calls in S return, the lease sets lose exactly those calls.
LEMMA ReturnLeases ==
  ASSUME TypeOK, LeaseAccounting, NEW S, Return(S)
  PROVE  LeaseAccounting'
<1> SUFFICES ASSUME NEW a \in Spawns
             PROVE  leases'[a] = {s \in Spawns : acqOf'[s] = a /\ pc'[s] \in InFlight}
  BY DEF LeaseAccounting
<1>1. leases'[a] = leases[a] \ S
  BY DEF Return, TypeOK, AcqTypes
<1>2. leases[a] = {s \in Spawns : acqOf[s] = a /\ pc[s] \in InFlight}
  BY DEF LeaseAccounting
<1>3. \A s \in Spawns : acqOf'[s] = a /\ pc'[s] \in InFlight
                          <=> acqOf[s] = a /\ pc[s] \in InFlight /\ s \notin S
  BY SessionAcquisitionAssumption DEF Return, Without, InFlight
<1>4. QED
  BY <1>1, <1>2, <1>3

\* Followers never lead: they joined another call's acquisition.
LEMMA WaitersJoined ==
  ASSUME NEW a
  PROVE  \A s \in Waiters(a) : s \in Spawns /\ pc[s] = "joined" /\ acqOf[s] = a
BY DEF Waiters

\* fail() by a leader that is still connecting.
LEMMA FailAcqInv ==
  ASSUME TypeOK, AcqInv, NEW s \in Spawns, pc[s] = "connecting", FailAcq(s), UNCHANGED aborted
  PROVE  AcqInv'
<1> DEFINE S == {s} \cup Waiters(s)
<1>1. Return(S)
  BY DEF FailAcq
<1>2. LeaseAccounting'
  BY <1>1, ReturnLeases DEF AcqInv
<1>3. \A p \in Spawns : /\ pc'[p] = IF p \in S THEN "done" ELSE pc[p]
                        /\ acqOf'[p] = IF p \in S THEN None ELSE acqOf[p]
                        /\ leases'[p] = leases[p] \ S
  BY <1>1 DEF Return, Without
<1>4. AcqLive'
  <2> SUFFICES ASSUME acqMap' # None
               PROVE  /\ acqState'[acqMap'] = "CONNECTING" /\ ~aborted'[acqMap']
                      /\ pc'[acqMap'] = "connecting" /\ acqMap' \in leases'[acqMap']
    BY DEF AcqLive
  <2>1. acqMap' = acqMap /\ acqMap # s /\ acqMap \in Spawns
    BY DEF FailAcq, TypeOK, AcqTypes
  <2>2. /\ acqState[acqMap] = "CONNECTING" /\ ~aborted[acqMap]
        /\ pc[acqMap] = "connecting" /\ acqMap \in leases[acqMap]
    BY <2>1 DEF AcqInv, AcqLive
  <2>3. acqMap \notin S
    BY <2>1, <2>2, WaitersJoined
  <2>4. acqState'[acqMap] = acqState[acqMap]
    BY <2>1 DEF FailAcq, TypeOK, AcqTypes
  <2>5. QED
    BY <1>3, <2>1, <2>2, <2>3, <2>4
<1>5. NoStrandedFollower'
  <2> SUFFICES ASSUME NEW p \in Spawns, pc'[p] = "joined" PROVE acqMap' = acqOf'[p]
    BY DEF NoStrandedFollower
  <2>1. p \notin S /\ pc[p] = "joined" /\ acqOf'[p] = acqOf[p]
    BY <1>3
  <2>2. acqMap = acqOf[p] /\ acqOf[p] # s
    BY <2>1 DEF AcqInv, NoStrandedFollower, Waiters
  <2>3. QED
    BY <2>1, <2>2 DEF FailAcq
<1>6. Strengthening'
  <2>1. ASSUME NEW p \in Spawns, pc'[p] = "idle" PROVE ~aborted'[p]
    BY <1>3, <2>1 DEF AcqInv, Strengthening
  <2>2. ASSUME NEW p \in Spawns, pc'[p] = "spawning", acqOf'[p] # None
        PROVE  pc'[acqOf'[p]] \notin {"idle", "connecting"}
    <3>1. pc[p] = "spawning" /\ acqOf[p] # None /\ acqOf'[p] = acqOf[p] /\ acqOf[p] \in Spawns
      BY <1>3, <2>2 DEF TypeOK, SpawnTypes
    <3>2. pc[acqOf[p]] \notin {"idle", "connecting"}
      BY <3>1 DEF AcqInv, Strengthening
    <3>3. QED
      BY <1>3, <3>1, <3>2
  <2>3. QED
    BY <2>1, <2>2 DEF Strengthening
<1>7. QED
  BY <1>2, <1>4, <1>5, <1>6 DEF AcqInv

\* close() and shutdownAll(): every follower of the removed acquisition returns.
LEMMA CloseAcqInv ==
  ASSUME TypeOK, AcqInv, CloseAcq
  PROVE  AcqInv'
<1>1. CASE acqMap = None
  <2>1. UNCHANGED <<acqVars, spawnVars>>
    BY <1>1 DEF CloseAcq
  <2>2. QED
    BY <2>1 DEF AcqInv, AcqLive, NoStrandedFollower, LeaseAccounting, Strengthening, acqVars, spawnVars
<1>2. CASE acqMap # None
  <2> DEFINE S == Waiters(acqMap)
  <2>1. /\ aborted' = [aborted EXCEPT ![acqMap] = TRUE]
        /\ acqMap' = None
        /\ Return(S)
    BY <1>2 DEF CloseAcq
  <2>2. LeaseAccounting'
    BY <2>1, ReturnLeases DEF AcqInv
  <2>3. \A p \in Spawns : /\ pc'[p] = IF p \in S THEN "done" ELSE pc[p]
                          /\ acqOf'[p] = IF p \in S THEN None ELSE acqOf[p]
    BY <2>1 DEF Return, Without
  <2>4. AcqLive'
    BY <2>1 DEF AcqLive
  <2>5. NoStrandedFollower'
    BY <2>3 DEF AcqInv, NoStrandedFollower, Waiters
  <2>6. Strengthening'
    <3>1. ASSUME NEW p \in Spawns, pc'[p] = "idle" PROVE ~aborted'[p]
      <4>1. pc[p] = "idle" /\ p # acqMap
        BY <1>2, <2>3, <3>1 DEF AcqInv, AcqLive
      <4>2. QED
        BY <2>1, <4>1 DEF AcqInv, Strengthening, TypeOK, AcqTypes
    <3>2. ASSUME NEW p \in Spawns, pc'[p] = "spawning", acqOf'[p] # None
          PROVE  pc'[acqOf'[p]] \notin {"idle", "connecting"}
      <4>1. pc[p] = "spawning" /\ acqOf[p] # None /\ acqOf'[p] = acqOf[p] /\ acqOf[p] \in Spawns
        BY <2>3, <3>2 DEF TypeOK, SpawnTypes
      <4>2. pc[acqOf[p]] \notin {"idle", "connecting"}
        BY <4>1 DEF AcqInv, Strengthening
      <4>3. QED
        BY <2>3, <4>1, <4>2
    <3>3. QED
      BY <3>1, <3>2 DEF Strengthening
  <2>7. QED
    BY <2>2, <2>4, <2>5, <2>6 DEF AcqInv
<1>3. QED
  BY <1>1, <1>2

\* A call that was spawning returns; nobody else is affected.
LEMMA SpawnedReturns ==
  ASSUME TypeOK, AcqInv, NEW s \in Spawns, pc[s] = "spawning", Return({s}),
         UNCHANGED <<acqMap, acqState, aborted>>
  PROVE  AcqInv'
<1>1. LeaseAccounting'
  BY ReturnLeases DEF AcqInv
<1>2. \A p \in Spawns : /\ pc'[p] = IF p = s THEN "done" ELSE pc[p]
                        /\ acqOf'[p] = IF p = s THEN None ELSE acqOf[p]
                        /\ leases'[p] = leases[p] \ {s}
  BY DEF Return, Without
<1>3. AcqLive'
  BY <1>2 DEF AcqInv, AcqLive, TypeOK, AcqTypes
<1>4. NoStrandedFollower'
  BY <1>2 DEF AcqInv, NoStrandedFollower
<1>5. Strengthening'
  BY <1>2 DEF AcqInv, Strengthening, TypeOK, SpawnTypes
<1>6. QED
  BY <1>1, <1>3, <1>4, <1>5 DEF AcqInv

\* Every step keeps the acquisition invariants.
LEMMA AcqStep == TypeOK /\ AcqInv /\ [Next]_vars => AcqInv'
<1> SUFFICES ASSUME TypeOK, AcqInv, [Next]_vars PROVE AcqInv'
  OBVIOUS
<1>0. ASSUME UNCHANGED <<spawnVars, acqVars>> PROVE AcqInv'
  BY <1>0 DEF AcqInv, AcqLive, NoStrandedFollower, LeaseAccounting, Strengthening, spawnVars, acqVars
<1>1. ASSUME NEW s \in Spawns, SpawnFast(s) PROVE AcqInv'
  <2>1. pc[s] = "idle" /\ acqOf[s] = None
    BY <1>1 DEF SpawnFast, SpawnRequested, TypeOK, SpawnTypes, SpawnLocals
  <2>2. pc' = [pc EXCEPT ![s] = "spawning"] /\ UNCHANGED <<acqOf, acqVars>>
    BY <1>1 DEF SpawnFast
  <2>3. AcqLive' /\ NoStrandedFollower'
    BY <2>1, <2>2 DEF AcqInv, AcqLive, NoStrandedFollower, acqVars, TypeOK, SpawnTypes, AcqTypes
  <2>4. LeaseAccounting'
    BY <2>1, <2>2, SessionAcquisitionAssumption
       DEF AcqInv, LeaseAccounting, acqVars, TypeOK, SpawnTypes, InFlight
  <2>5. Strengthening'
    BY <2>1, <2>2 DEF AcqInv, Strengthening, acqVars, TypeOK, SpawnTypes
  <2>6. QED
    BY <2>3, <2>4, <2>5 DEF AcqInv
<1>2. ASSUME NEW s \in Spawns, SpawnFollow(s) PROVE AcqInv'
  <2>1. pc[s] = "idle" /\ acqOf[s] = None /\ acqMap \in Spawns /\ acqMap # s
    BY <1>2 DEF SpawnFollow, Join, SpawnRequested, CanJoin, AcqInv, AcqLive, TypeOK, SpawnTypes, SpawnLocals, AcqTypes
  <2>2. /\ pc' = [pc EXCEPT ![s] = "joined"]
        /\ acqOf' = [acqOf EXCEPT ![s] = acqMap]
        /\ leases' = [leases EXCEPT ![acqMap] = @ \cup {s}]
        /\ UNCHANGED <<acqMap, acqState, aborted>>
    BY <1>2 DEF SpawnFollow, Join
  <2>3. AcqLive' /\ NoStrandedFollower'
    BY <2>1, <2>2 DEF AcqInv, AcqLive, NoStrandedFollower, TypeOK, SpawnTypes, AcqTypes
  <2>4. LeaseAccounting'
    <3> SUFFICES ASSUME NEW a \in Spawns
                 PROVE  leases'[a] = {p \in Spawns : acqOf'[p] = a /\ pc'[p] \in InFlight}
      BY DEF LeaseAccounting
    <3>1. leases[a] = {p \in Spawns : acqOf[p] = a /\ pc[p] \in InFlight}
      BY DEF AcqInv, LeaseAccounting
    <3>2. \A p \in Spawns : acqOf'[p] = a /\ pc'[p] \in InFlight
                              <=> (acqOf[p] = a /\ pc[p] \in InFlight) \/ (p = s /\ a = acqMap)
      BY <2>1, <2>2, SessionAcquisitionAssumption DEF TypeOK, SpawnTypes, InFlight
    <3>3. leases'[a] = IF a = acqMap THEN leases[a] \cup {s} ELSE leases[a]
      BY <2>2 DEF TypeOK, AcqTypes
    <3>4. QED
      BY <3>1, <3>2, <3>3
  <2>5. Strengthening'
    BY <2>1, <2>2 DEF AcqInv, Strengthening, TypeOK, SpawnTypes
  <2>6. QED
    BY <2>3, <2>4, <2>5 DEF AcqInv
<1>3. ASSUME NEW s \in Spawns, SpawnLead(s) PROVE AcqInv'
  <2>1. pc[s] = "idle" /\ acqOf[s] = None /\ acqMap = None /\ ~aborted[s]
    BY <1>3 DEF SpawnLead, Acquire, SpawnRequested, CanJoin, AcqInv, AcqLive, Strengthening, TypeOK, SpawnTypes,
       SpawnLocals
  <2>2. /\ pc' = [pc EXCEPT ![s] = "connecting"]
        /\ acqOf' = [acqOf EXCEPT ![s] = s]
        /\ leases' = [leases EXCEPT ![s] = {s}]
        /\ acqState' = [acqState EXCEPT ![s] = "CONNECTING"]
        /\ acqMap' = s /\ UNCHANGED aborted
    BY <1>3 DEF SpawnLead, Acquire
  <2>3. \A p \in Spawns : pc[p] # "joined"
    BY <2>1, SessionAcquisitionAssumption DEF AcqInv, NoStrandedFollower, TypeOK, SpawnTypes, SpawnLocals
  <2>4. \A p \in Spawns : pc[p] \in InFlight => acqOf[p] # s
    BY <2>1, <2>3, SessionAcquisitionAssumption
       DEF AcqInv, Strengthening, TypeOK, SpawnTypes, SpawnLocals, InFlight
  <2>5. AcqLive' /\ NoStrandedFollower'
    BY <2>1, <2>2, <2>3 DEF AcqLive, NoStrandedFollower, TypeOK, SpawnTypes, AcqTypes
  <2>6. LeaseAccounting'
    <3> SUFFICES ASSUME NEW a \in Spawns
                 PROVE  leases'[a] = {p \in Spawns : acqOf'[p] = a /\ pc'[p] \in InFlight}
      BY DEF LeaseAccounting
    <3>1. leases[a] = {p \in Spawns : acqOf[p] = a /\ pc[p] \in InFlight}
      BY DEF AcqInv, LeaseAccounting
    <3>2. \A p \in Spawns : acqOf'[p] = a /\ pc'[p] \in InFlight
                              <=> (acqOf[p] = a /\ pc[p] \in InFlight) \/ (p = s /\ a = s)
      BY <2>1, <2>2, SessionAcquisitionAssumption DEF TypeOK, SpawnTypes, InFlight
    <3>3. CASE a = s
      BY <2>2, <2>4, <3>2, <3>3 DEF TypeOK, AcqTypes
    <3>4. CASE a # s
      BY <2>2, <3>1, <3>2, <3>4 DEF TypeOK, AcqTypes
    <3>5. QED
      BY <3>3, <3>4
  <2>7. Strengthening'
    <3>1. \A p \in Spawns : pc[p] = "spawning" => acqOf[p] # s
      BY <2>4 DEF InFlight
    <3>2. QED
      BY <2>1, <2>2, <3>1 DEF AcqInv, Strengthening, TypeOK, SpawnTypes
  <2>8. QED
    BY <2>5, <2>6, <2>7 DEF AcqInv
<1>4. ASSUME NEW s \in Spawns, LeaderFail(s) PROVE AcqInv'
  BY <1>4, FailAcqInv DEF LeaderFail
<1>5. ASSUME NEW s \in Spawns, LeaderMismatch(s) PROVE AcqInv'
  BY <1>5, FailAcqInv DEF LeaderMismatch
<1>6. ASSUME NEW s \in Spawns, LeaderCommit(s) PROVE AcqInv'
  <2> DEFINE party == {s} \cup Waiters(s)
             alive == {p \in party : client[p] \in clients}
  <2>1. pc[s] = "connecting" /\ acqMap = s /\ acqOf[s] = s
    BY <1>6 DEF LeaderCommit, CommitGuard, TypeOK, SpawnTypes, SpawnLocals
  <2>2. /\ acqMap' = None /\ UNCHANGED <<acqState, aborted>>
        /\ pc' = [p \in Spawns |-> IF p \in alive THEN "spawning"
                                   ELSE IF p \in party THEN "done" ELSE pc[p]]
        /\ leases' = [leases EXCEPT ![s] = alive]
        /\ acqOf' = Without(acqOf, party \ alive)
    BY <1>6 DEF LeaderCommit
  <2>3. \A p \in party : p \in Spawns /\ acqOf[p] = s /\ pc[p] \in {"connecting", "joined"}
    BY <2>1 DEF Waiters
  <2>4. \A p \in Spawns : acqOf[p] = s /\ pc[p] \in InFlight => p \in party
    BY <2>1, SessionAcquisitionAssumption
       DEF AcqInv, Strengthening, TypeOK, SpawnTypes, SpawnLocals, InFlight, Waiters
  <2>5. \A p \in Spawns : pc[p] = "joined" => p \in party
    BY <2>1 DEF AcqInv, NoStrandedFollower, Waiters
  <2>6. \A p \in Spawns : acqOf'[p] = IF p \in party \ alive THEN None ELSE acqOf[p]
    BY <2>2 DEF Without
  <2> HIDE DEF party
  <2>7. AcqLive' /\ NoStrandedFollower'
    BY <2>2, <2>5 DEF AcqLive, NoStrandedFollower
  <2>8. LeaseAccounting'
    <3> SUFFICES ASSUME NEW a \in Spawns
                 PROVE  leases'[a] = {p \in Spawns : acqOf'[p] = a /\ pc'[p] \in InFlight}
      BY DEF LeaseAccounting
    <3>1. CASE a = s
      <4>1. leases'[a] = alive
        BY <2>2, <3>1 DEF TypeOK, AcqTypes
      <4>2. \A p \in Spawns : acqOf'[p] = a /\ pc'[p] \in InFlight <=> p \in alive
        BY <2>2, <2>3, <2>4, <2>6, <3>1, SessionAcquisitionAssumption DEF InFlight
      <4>3. alive \subseteq Spawns
        BY <2>3
      <4>4. QED
        BY <4>1, <4>2, <4>3
    <3>2. CASE a # s
      <4>1. leases'[a] = {p \in Spawns : acqOf[p] = a /\ pc[p] \in InFlight}
        BY <2>2, <3>2 DEF AcqInv, LeaseAccounting, TypeOK, AcqTypes
      <4>2. \A p \in Spawns : acqOf'[p] = a /\ pc'[p] \in InFlight
                                <=> acqOf[p] = a /\ pc[p] \in InFlight
        BY <2>2, <2>3, <2>6, <3>2, SessionAcquisitionAssumption DEF InFlight
      <4>3. QED
        BY <4>1, <4>2
    <3>3. QED
      BY <3>1, <3>2
  <2>9. Strengthening'
    <3>1. ASSUME NEW p \in Spawns, pc'[p] = "idle" PROVE ~aborted'[p]
      BY <2>2, <3>1 DEF AcqInv, Strengthening
    <3>2. ASSUME NEW p \in Spawns, pc'[p] = "spawning", acqOf'[p] # None
          PROVE  pc'[acqOf'[p]] \notin {"idle", "connecting"}
      <4>1. CASE p \in party
        BY <2>2, <2>3, <2>6, <3>2, <4>1 DEF party
      <4>2. CASE p \notin party
        <5>1. pc[p] = "spawning" /\ acqOf'[p] = acqOf[p] /\ acqOf[p] \in Spawns
          BY <2>2, <2>6, <3>2, <4>2 DEF TypeOK, SpawnTypes
        <5>2. pc[acqOf[p]] \notin {"idle", "connecting"}
          BY <3>2, <5>1 DEF AcqInv, Strengthening
        <5>3. QED
          BY <2>2, <5>1, <5>2
      <4>3. QED
        BY <4>1, <4>2
    <3>3. QED
      BY <3>1, <3>2 DEF Strengthening
  <2>10. QED
    BY <2>7, <2>8, <2>9 DEF AcqInv
<1>7. ASSUME NEW s \in Spawns, SpawnOk(s) \/ SpawnErr(s) PROVE AcqInv'
  BY <1>7, SpawnedReturns DEF SpawnOk, SpawnErr
<1>8. ASSUME NEW b \in Attempts, AttemptStep(b) PROVE AcqInv'
  BY <1>0, <1>8 DEF AttemptStep, TimerFires, RestartReconnect, ReconnectOk, ReconnectFenced,
     ReconnectStale, ReconnectMismatch, ReconnectRetry, ReconnectGiveUp
<1>9. ASSUME NEW a \in Agents, AgentDrop(a) \/ AgentCloseEvent(a) PROVE AcqInv'
  BY <1>0, <1>9 DEF AgentDrop, AgentCloseEvent
<1>10. ASSUME NEW x \in Sessions, DestroyChannels(x) \/ ChannelRestarted(x) PROVE AcqInv'
  BY <1>0, <1>10 DEF DestroyChannels, ChannelRestarted
<1>11. ASSUME NEW c \in Clients, ClientDisconnect(c) PROVE AcqInv'
  BY <1>0, <1>11 DEF ClientDisconnect
<1>12. CASE CloseSession \/ BeginQuit
  BY <1>12, CloseAcqInv DEF CloseSession, BeginQuit
<1>13. CASE SessionDetached
  BY <1>0, <1>13 DEF SessionDetached
<1>14. CASE UNCHANGED vars
  BY <1>0, <1>14 DEF vars
<1>15. QED
  BY <1>1, <1>2, <1>3, <1>4, <1>5, <1>6, <1>7, <1>8, <1>9, <1>10, <1>11, <1>12, <1>13, <1>14
     DEF Next, SpawnStep

\* No acquisition exists when the hub starts.
LEMMA AcqInit == Init => AcqInv
BY SessionAcquisitionAssumption DEF Init, AcqInv, AcqLive, NoStrandedFollower, LeaseAccounting, Strengthening, InFlight

\* The parts of AcqInv hold together in every reachable state.
LEMMA AcqAlways == Spec => []AcqInv
<1>1. Init => TypeOK /\ AcqInv
  BY TypeInit, AcqInit
<1>2. TypeOK /\ AcqInv /\ [Next]_vars => TypeOK' /\ AcqInv'
  BY TypeStep, AcqStep
<1>3. QED
  BY <1>1, <1>2, PTL DEF Spec

\* For any number of calls and attempts, an acquisition in the map is CONNECTING, not
\* aborted and led by a call that still awaits its connect: a newcomer may join it.
THEOREM AcquisitionCorrect == Spec => []AcqLive
<1>1. AcqInv => AcqLive
  BY DEF AcqInv
<1>2. QED
  BY <1>1, AcqAlways, PTL

\* A follower only ever waits on such an acquisition, whoever aborts, times out or leaves.
THEOREM FollowersServed == Spec => []NoStrandedFollower
<1>1. AcqInv => NoStrandedFollower
  BY DEF AcqInv
<1>2. QED
  BY <1>1, AcqAlways, PTL

\* The lease set of an acquisition holds its callers and nobody else, so the last one to
\* leave aborts it and nobody else's leaving does.
THEOREM LeasesExact == Spec => []LeaseAccounting
<1>1. AcqInv => LeaseAccounting
  BY DEF AcqInv
<1>2. QED
  BY <1>1, AcqAlways, PTL

-----------------------------------------------------------------------------
(***************************************************************************)
(* The life cycle of sessions.                                             *)
(***************************************************************************)
\* Every step either leaves the sessions alone or is one step of the life cycle:
\* the proof that SessionAcquisition implements SessionLifecycle.
LEMMA LifecycleStep ==
  TypeOK /\ CurrentIsOpen /\ [Next]_vars => [Lifecycle!Next]_<<cur, status>> /\ CurrentIsOpen'
<1> SUFFICES ASSUME TypeOK, CurrentIsOpen, [Next]_vars
             PROVE  [Lifecycle!Next]_<<cur, status>> /\ CurrentIsOpen'
  OBVIOUS
<1> DEFINE Goal == [Lifecycle!Next]_<<cur, status>> /\ CurrentIsOpen'
<1>a. ASSUME UNCHANGED sessVars PROVE Goal
  BY <1>a DEF sessVars, CurrentIsOpen
<1>b. ASSUME NEW x \in Sessions, GetOrCreateSession(x) PROVE Goal
  <2>1. CASE UNCHANGED sessVars
    BY <2>1, <1>a
  <2>2. CASE Lifecycle!Create(x)
    BY <2>2 DEF Lifecycle!Create, Lifecycle!Next, CurrentIsOpen, TypeOK, SessionTypes
  <2>3. QED
    BY <1>b, <2>1, <2>2 DEF GetOrCreateSession, Lifecycle!Create
<1>c. ASSUME NEW x \in Sessions, status[x] # "none",
             status' = [status EXCEPT ![x] = "closed"], cur' = None
      PROVE  Goal
  <2>1. Lifecycle!Close(x)
    BY <1>c DEF Lifecycle!Close
  <2>2. QED
    BY <1>c, <2>1 DEF Lifecycle!Next, CurrentIsOpen
<1>d. ASSUME NEW x \in Sessions, NEW v \in {"active", "detached", "disconnected"},
             status[x] \in {"starting", "active", "detached", "disconnected"},
             v = "disconnected" \/ v = "active" \/ status[x] = "active",
             status' = [status EXCEPT ![x] = v], cur' = cur
      PROVE  Goal
  <2>1. CurrentIsOpen'
    BY <1>d DEF CurrentIsOpen, TypeOK, SessionTypes
  <2>2. CASE status[x] = v
    BY <1>d, <2>1, <2>2 DEF TypeOK, SessionTypes
  <2>3. CASE status[x] # v
    <3>1. Lifecycle!Move(x, v)
      BY <1>d, <2>3 DEF Lifecycle!Move, Lifecycle!Transitions
    <3>2. QED
      BY <2>1, <3>1 DEF Lifecycle!Next
  <2>4. QED
    BY <2>2, <2>3
<1>e. ASSUME cur # None
      PROVE  cur \in Sessions /\ status[cur] \in {"starting", "active", "detached", "disconnected"}
  BY <1>e DEF CurrentIsOpen, TypeOK, SessionTypes
<1> HIDE DEF Goal
<1>1. ASSUME NEW s \in Spawns, SpawnFast(s) \/ SpawnLead(s) PROVE Goal
  BY <1>1, <1>b DEF SpawnFast, SpawnLead, Acquire
<1>2. ASSUME NEW s \in Spawns, SpawnFollow(s) \/ SpawnErr(s) PROVE Goal
  BY <1>2, <1>a DEF SpawnFollow, Join, SpawnErr
<1>3. ASSUME NEW s \in Spawns, SpawnOk(s) PROVE Goal
  BY <1>3, <1>a DEF SpawnOk
<1>4. ASSUME NEW s \in Spawns, LeaderFail(s) PROVE Goal
  <2>1. sessOf[s] \in Sessions
    BY <1>4 DEF LeaderFail, TypeOK, SpawnTypes, SpawnLocals
  <2>2. CASE status[sessOf[s]] = "starting"
    BY <1>4, <1>c, <2>1, <2>2 DEF LeaderFail
  <2>3. CASE status[sessOf[s]] # "starting"
    BY <1>4, <1>a, <2>3 DEF LeaderFail, sessVars
  <2>4. QED
    BY <2>2, <2>3
<1>5. ASSUME NEW s \in Spawns, LeaderMismatch(s) PROVE Goal
  <2>1. sessOf[s] \in Sessions /\ cur = sessOf[s]
    BY <1>5 DEF LeaderMismatch, ConnectCurrent, TypeOK, SpawnTypes, SpawnLocals
  <2>2. status[sessOf[s]] # "none"
    BY <2>1, <1>e, SessionAcquisitionAssumption
  <2>3. QED
    BY <1>5, <1>c, <2>1, <2>2 DEF LeaderMismatch, LifecycleClose
<1>6. ASSUME NEW s \in Spawns, LeaderCommit(s) PROVE Goal
  <2>1. sessOf[s] \in Sessions /\ cur = sessOf[s]
    BY <1>6 DEF LeaderCommit, CommitGuard, ConnectCurrent, TypeOK, SpawnTypes, SpawnLocals
  <2>2. status[sessOf[s]] \in {"starting", "active", "detached", "disconnected"}
    BY <2>1, <1>e, SessionAcquisitionAssumption
  <2>3. \/ status' = [status EXCEPT ![sessOf[s]] = "closed"] /\ cur' = None
        \/ status' = [status EXCEPT ![sessOf[s]] = "active"] /\ cur' = cur
    BY <1>6 DEF LeaderCommit
  <2>4. QED
    BY <1>c, <1>d, <2>1, <2>2, <2>3
<1>7. ASSUME NEW b \in Attempts, TimerFires(b) \/ RestartReconnect(b) \/ ReconnectStale(b) \/ ReconnectRetry(b)
      PROVE  Goal
  BY <1>7, <1>a DEF TimerFires, RestartReconnect, ReconnectStale, ReconnectRetry
<1>8. ASSUME NEW b \in Attempts,
             ReconnectOk(b) \/ ReconnectFenced(b) \/ ReconnectMismatch(b) \/ (ReconnectGiveUp(b) /\ cur = asess[b])
      PROVE  Goal
  <2>1. asess[b] \in Sessions /\ cur = asess[b]
    BY <1>8 DEF ReconnectOk, ReconnectFenced, ReconnectMismatch, ReconnectGiveUp, ReconnectGuard,
       Starting, TypeOK, AttemptTypes
  <2>2. status[asess[b]] \in {"starting", "active", "detached", "disconnected"}
    BY <2>1, <1>e, SessionAcquisitionAssumption
  <2>3. \/ status' = [status EXCEPT ![asess[b]] = "closed"] /\ cur' = None
        \/ status' = [status EXCEPT ![asess[b]] = "active"] /\ cur' = cur
    BY <1>8 DEF ReconnectOk, ReconnectFenced, ReconnectMismatch, ReconnectGiveUp, GiveUp
  <2>4. QED
    BY <1>c, <1>d, <2>1, <2>2, <2>3
<1>9. ASSUME NEW b \in Attempts, ReconnectGiveUp(b), cur # asess[b] PROVE Goal
  BY <1>9, <1>a DEF ReconnectGiveUp
<1>10. ASSUME NEW a \in Agents, AgentDrop(a) PROVE Goal
  BY <1>10, <1>a DEF AgentDrop
<1>11. ASSUME NEW a \in Agents, AgentCloseEvent(a) PROVE Goal
  <2>1. CASE UNCHANGED status
    BY <1>11, <1>a, <2>1 DEF AgentCloseEvent, sessVars
  <2>2. CASE ~UNCHANGED status
    <3>1. cur # None /\ status' = [status EXCEPT ![cur] = "disconnected"] /\ cur' = cur
      BY <1>11, <2>2 DEF AgentCloseEvent
    <3>2. QED
      BY <1>d, <1>e, <3>1
  <2>3. QED
    BY <2>1, <2>2
<1>12. ASSUME NEW x \in Sessions, DestroyChannels(x) PROVE Goal
  BY <1>12, <1>a DEF DestroyChannels
<1>13. ASSUME NEW x \in Sessions, ChannelRestarted(x) PROVE Goal
  BY <1>13, <1>d DEF ChannelRestarted
<1>14. ASSUME NEW c \in Clients, ClientDisconnect(c) PROVE Goal
  BY <1>14, <1>a DEF ClientDisconnect
<1>15. ASSUME CloseSession PROVE Goal
  BY <1>15, <1>c, <1>e DEF CloseSession, LifecycleClose
<1>16. ASSUME SessionDetached PROVE Goal
  BY <1>16, <1>d, <1>e DEF SessionDetached
<1>17. ASSUME BeginQuit PROVE Goal
  BY <1>17, <1>a DEF BeginQuit
<1>18. ASSUME UNCHANGED vars PROVE Goal
  BY <1>18, <1>a DEF vars
<1>19. Goal
  BY <1>1, <1>2, <1>3, <1>4, <1>5, <1>6, <1>7, <1>8, <1>9, <1>10, <1>11, <1>12, <1>13, <1>14,
     <1>15, <1>16, <1>17, <1>18 DEF Next, SpawnStep, AttemptStep
<1>20. QED
  BY <1>19 DEF Goal

\* No session exists when the hub starts.
LEMMA LifecycleInit == Init => Lifecycle!Init /\ CurrentIsOpen
BY DEF Init, Lifecycle!Init, CurrentIsOpen

\* The detailed specification, with all its interleavings of leaders, timers,
\* restarts, close events and REST calls, implements the session life cycle.
THEOREM LifecycleImplemented == Spec => ImplementsLifecycle
<1>1. Init => TypeOK /\ CurrentIsOpen /\ Lifecycle!Init
  BY TypeInit, LifecycleInit
<1>2. TypeOK /\ CurrentIsOpen /\ [Next]_vars
        => TypeOK' /\ CurrentIsOpen' /\ [Lifecycle!Next]_<<cur, status>>
  BY TypeStep, LifecycleStep
<1>3. QED
  BY <1>1, <1>2, PTL DEF Spec, ImplementsLifecycle, Lifecycle!Spec, Lifecycle!vars

\* The current session is never one that was closed, whichever of the four paths
\* closed it.
THEOREM CurrentStaysOpen == Spec => []CurrentIsOpen
<1>1. Init => TypeOK /\ CurrentIsOpen
  BY TypeInit, LifecycleInit
<1>2. TypeOK /\ CurrentIsOpen /\ [Next]_vars => TypeOK' /\ CurrentIsOpen'
  BY TypeStep, LifecycleStep
<1>3. QED
  BY <1>1, <1>2, PTL DEF Spec

\* A closed session stays closed: no leader, timer, restart or close event
\* revives it.
THEOREM ClosedStaysClosed == Spec => ClosedIsFinal
<1>1. Init => TypeOK /\ CurrentIsOpen
  BY TypeInit, LifecycleInit
<1>2. TypeOK /\ CurrentIsOpen /\ [Next]_vars
        => [\A x \in Sessions : status[x] = "closed" => status'[x] = "closed"]_vars
  <2> SUFFICES ASSUME TypeOK, CurrentIsOpen, [Next]_vars, NEW x \in Sessions, status[x] = "closed"
               PROVE  status'[x] = "closed"
    BY DEF vars
  <2>1. [Lifecycle!Next]_<<cur, status>>
    BY LifecycleStep
  <2>2. CASE UNCHANGED <<cur, status>>
    BY <2>2
  <2>3. CASE Lifecycle!Next
    BY <2>3 DEF Lifecycle!Next, Lifecycle!Create, Lifecycle!Close, Lifecycle!Move,
       Lifecycle!Transitions, TypeOK, SessionTypes
  <2>4. QED
    BY <2>1, <2>2, <2>3
<1>3. TypeOK /\ CurrentIsOpen /\ [Next]_vars => TypeOK' /\ CurrentIsOpen'
  BY TypeStep, LifecycleStep
<1>4. QED
  BY <1>1, <1>2, <1>3, PTL DEF Spec, ClosedIsFinal

-----------------------------------------------------------------------------
(***************************************************************************)
(* Reconnect attempts and the quit latch.                                  *)
(***************************************************************************)
\* Every step keeps each awaited start() registered or aborted: a controller is
\* only overwritten or removed after its abort, or by its own attempt.
LEMMA TrackedStep == TypeOK /\ AttemptTracked /\ [Next]_vars => AttemptTracked'
<1> SUFFICES ASSUME TypeOK, AttemptTracked, [Next]_vars PROVE AttemptTracked'
  OBVIOUS
<1>a. ASSUME UNCHANGED attemptVars PROVE AttemptTracked'
  BY <1>a DEF attemptVars, AttemptTracked, Starting
<1>b. ASSUME apc' = [b \in Attempts |-> IF b = timerMap /\ apc[b] = "timer" THEN "done" ELSE apc[b]],
             aabort' = [b \in Attempts |-> aabort[b] \/ b = ctlMap]
      PROVE  AttemptTracked'
  BY <1>b DEF AttemptTracked, Starting
<1>1. ASSUME NEW s \in Spawns, SpawnStep(s), ~LeaderMismatch(s) PROVE AttemptTracked'
  BY <1>1, <1>a DEF SpawnStep, SpawnFast, SpawnFollow, Join, SpawnLead, Acquire, LeaderFail, LeaderCommit, SpawnOk, SpawnErr
<1>2. ASSUME NEW s \in Spawns, LeaderMismatch(s) PROVE AttemptTracked'
  BY <1>2, <1>b DEF LeaderMismatch, LifecycleClose
<1>3. ASSUME NEW b \in Attempts, TimerFires(b) PROVE AttemptTracked'
  <2>1. CASE cur = asess[b] /\ status[cur] # "closed"
    <3>1. BeginStart(b) /\ apc' = [apc EXCEPT ![b] = "starting"]
      BY <1>3, <2>1 DEF TimerFires
    <3>2. QED
      BY <3>1 DEF BeginStart, AttemptTracked, Starting, TypeOK, AttemptTypes
  <2>2. CASE ~(cur = asess[b] /\ status[cur] # "closed")
    BY <1>3, <2>2 DEF TimerFires, AttemptTracked, Starting, TypeOK, AttemptTypes
  <2>3. QED
    BY <2>1, <2>2
<1>4. ASSUME NEW b \in Attempts, RestartReconnect(b) PROVE AttemptTracked'
  BY <1>4 DEF RestartReconnect, BeginStart, AttemptTracked, Starting, TypeOK, AttemptTypes
<1>c. ASSUME NEW b \in Attempts, GiveUp(b) PROVE AttemptTracked'
  BY <1>c DEF GiveUp, AttemptTracked, Starting, TypeOK, AttemptTypes
<1>5. ASSUME NEW b \in Attempts, ReconnectOk(b) PROVE AttemptTracked'
  BY <1>5 DEF ReconnectOk, ReconnectGuard, AttemptTracked, Starting, TypeOK, AttemptTypes
<1>6. ASSUME NEW b \in Attempts, ReconnectFenced(b) PROVE AttemptTracked'
  <2>1. CASE GiveUp(b)
    BY <1>c, <2>1
  <2>2. CASE ~GiveUp(b)
    BY <1>6, <2>2 DEF ReconnectFenced, ReconnectGuard, AttemptTracked, Starting, TypeOK, AttemptTypes
  <2>3. QED
    BY <2>1, <2>2
<1>7. ASSUME NEW b \in Attempts, ReconnectStale(b) PROVE AttemptTracked'
  BY <1>7 DEF ReconnectStale, AttemptTracked, Starting, TypeOK, AttemptTypes
<1>8. ASSUME NEW b \in Attempts, ReconnectMismatch(b) PROVE AttemptTracked'
  BY <1>8 DEF ReconnectMismatch, ReconnectGuard, AttemptTracked, Starting, TypeOK, AttemptTypes
<1>9. ASSUME NEW b \in Attempts, ReconnectRetry(b) PROVE AttemptTracked'
  BY <1>9 DEF ReconnectRetry, AttemptTracked, Starting, TypeOK, AttemptTypes
<1>10. ASSUME NEW b \in Attempts, ReconnectGiveUp(b) PROVE AttemptTracked'
  <2>1. CASE cur = asess[b]
    BY <1>10, <1>c, <2>1 DEF ReconnectGiveUp
  <2>2. CASE cur # asess[b]
    BY <1>10, <2>2 DEF ReconnectGiveUp, AttemptTracked, Starting, TypeOK, AttemptTypes
  <2>3. QED
    BY <2>1, <2>2
<1>11. ASSUME NEW a \in Agents, AgentDrop(a) PROVE AttemptTracked'
  BY <1>11, <1>a DEF AgentDrop
<1>12. ASSUME NEW a \in Agents, AgentCloseEvent(a) PROVE AttemptTracked'
  <2>1. CASE UNCHANGED attemptVars
    BY <1>a, <2>1
  <2>2. CASE ~UNCHANGED attemptVars
    <3>1. PICK b \in Attempts : ScheduleReconnect(b, cur) /\ UNCHANGED <<aabort, ctlMap>>
      BY <1>12, <2>2 DEF AgentCloseEvent
    <3>2. QED
      BY <3>1 DEF ScheduleReconnect, AttemptTracked, Starting, TypeOK, AttemptTypes
  <2>3. QED
    BY <2>1, <2>2
<1>13. ASSUME NEW x \in Sessions, DestroyChannels(x) \/ ChannelRestarted(x) PROVE AttemptTracked'
  BY <1>13, <1>a DEF DestroyChannels, ChannelRestarted
<1>14. ASSUME NEW c \in Clients, ClientDisconnect(c) PROVE AttemptTracked'
  BY <1>14, <1>a DEF ClientDisconnect
<1>15. CASE CloseSession
  BY <1>15, <1>b DEF CloseSession, LifecycleClose
<1>16. CASE BeginQuit
  BY <1>16, <1>b DEF BeginQuit
<1>17. CASE SessionDetached
  BY <1>17, <1>a DEF SessionDetached
<1>18. CASE UNCHANGED vars
  BY <1>18, <1>a DEF vars
<1>19. QED
  BY <1>1, <1>2, <1>3, <1>4, <1>5, <1>6, <1>7, <1>8, <1>9, <1>10, <1>11, <1>12, <1>13, <1>14,
     <1>15, <1>16, <1>17, <1>18 DEF Next, AttemptStep

\* Whatever timers and restarts overlap, closeSession and beginQuit can abort
\* every reconnect under way.
THEOREM AttemptsTracked == Spec => []AttemptTracked
<1>1. Init => TypeOK /\ AttemptTracked
  BY TypeInit DEF Init, AttemptTracked, Starting
<1>2. TypeOK /\ AttemptTracked /\ [Next]_vars => TypeOK' /\ AttemptTracked'
  BY TypeStep, TrackedStep
<1>3. QED
  BY <1>1, <1>2, PTL DEF Spec

\* After the latch no acquisition can be committed.
QuitClears == quitting => acqMap = None

\* Every step keeps QuitClears and satisfies the action of QuitNoAdopt.
LEMMA QuitStep ==
  TypeOK /\ QuitClears /\ [Next]_vars
    => QuitClears' /\ [quitting => reg' \in {reg, None} /\ cur' \in {cur, None}]_vars
<1> SUFFICES ASSUME TypeOK, QuitClears, [Next]_vars
             PROVE  QuitClears' /\ (quitting => reg' \in {reg, None} /\ cur' \in {cur, None})
  OBVIOUS
<1>1. ASSUME NEW s \in Spawns, SpawnFast(s) \/ SpawnFollow(s) \/ SpawnLead(s)
      PROVE  ~quitting /\ ~quitting'
  BY <1>1 DEF SpawnFast, SpawnFollow, Join, SpawnLead, Acquire, SpawnRequested
<1>2. ASSUME NEW s \in Spawns, LeaderFail(s) \/ LeaderMismatch(s)
      PROVE  QuitClears' /\ reg' = reg /\ cur' \in {cur, None}
  BY <1>2 DEF LeaderFail, LeaderMismatch, FailAcq, LifecycleClose, QuitClears, agentVars
<1>3. ASSUME NEW s \in Spawns, LeaderCommit(s) PROVE ~quitting /\ ~quitting'
  BY <1>3, SessionAcquisitionAssumption DEF LeaderCommit, CommitGuard, QuitClears
<1>4. ASSUME NEW s \in Spawns, SpawnOk(s) \/ SpawnErr(s)
      PROVE  QuitClears' /\ reg' = reg /\ cur' = cur
  BY <1>4 DEF SpawnOk, SpawnErr, QuitClears, sessVars, agentVars
<1>5. ASSUME NEW b \in Attempts, AttemptStep(b), ~ReconnectOk(b)
      PROVE  QuitClears' /\ reg' = reg /\ cur' \in {cur, None}
  BY <1>5 DEF AttemptStep, TimerFires, RestartReconnect, ReconnectFenced, ReconnectStale, ReconnectMismatch,
     ReconnectRetry, ReconnectGiveUp, GiveUp, QuitClears, acqVars, sessVars, agentVars
<1>6. ASSUME NEW b \in Attempts, ReconnectOk(b) PROVE ~quitting /\ ~quitting'
  BY <1>6 DEF ReconnectOk
<1>7. ASSUME NEW a \in Agents, AgentDrop(a) \/ AgentCloseEvent(a)
      PROVE  QuitClears' /\ reg' \in {reg, None} /\ cur' = cur
  BY <1>7 DEF AgentDrop, AgentCloseEvent, QuitClears, acqVars, sessVars
<1>8. ASSUME NEW x \in Sessions, DestroyChannels(x) \/ ChannelRestarted(x)
      PROVE  QuitClears' /\ reg' = reg /\ cur' = cur
  BY <1>8 DEF DestroyChannels, ChannelRestarted, QuitClears, acqVars, sessVars, agentVars
<1>9. ASSUME NEW c \in Clients, ClientDisconnect(c) PROVE QuitClears' /\ reg' = reg /\ cur' = cur
  BY <1>9 DEF ClientDisconnect, QuitClears, acqVars, sessVars, agentVars
<1>10. ASSUME CloseSession \/ BeginQuit
       PROVE  QuitClears' /\ reg' \in {reg, None} /\ cur' \in {cur, None}
  <2>1. acqMap' = None
    BY <1>10 DEF CloseSession, BeginQuit, CloseAcq, acqVars
  <2>2. QED
    BY <1>10, <2>1 DEF CloseSession, BeginQuit, LifecycleClose, QuitClears, sessVars, agentVars
<1>11. ASSUME SessionDetached \/ UNCHANGED vars PROVE QuitClears' /\ reg' = reg /\ cur' = cur
  BY <1>11 DEF SessionDetached, vars, QuitClears, acqVars, sessVars, agentVars
<1>12. QED
  BY <1>1, <1>2, <1>3, <1>4, <1>5, <1>6, <1>7, <1>8, <1>9, <1>10, <1>11
     DEF Next, SpawnStep, QuitClears

\* Once the hub began to quit no agent is registered and no session created.
THEOREM QuitAdoptsNothing == Spec => QuitNoAdopt
<1>1. Init => TypeOK /\ QuitClears
  BY TypeInit DEF Init, QuitClears
<1>2. TypeOK /\ QuitClears /\ [Next]_vars
        => TypeOK' /\ QuitClears' /\ [quitting => reg' \in {reg, None} /\ cur' \in {cur, None}]_vars
  BY TypeStep, QuitStep
<1>3. QED
  BY <1>1, <1>2, PTL DEF Spec, QuitNoAdopt
=============================================================================
