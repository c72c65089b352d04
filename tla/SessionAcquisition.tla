-------------------------- MODULE SessionAcquisition --------------------------
(***************************************************************************)
(* How the hub brings up, shares, loses, revives and closes the session of *)
(* one SSH host.  All maps of the code are keyed by host, so one host is   *)
(* modelled.  The actors are                                               *)
(*   - handleSpawn calls: a leader opens the connection, followers wait    *)
(*     for it, later calls take the fast path over the live agent;         *)
(*   - reconnect attempts: the timer chain of scheduleReconnect and the    *)
(*     reconnect that restartChannel asks for (onReconnectAgent);          *)
(*   - closeSession over REST, client disconnects, dropped connections     *)
(*     and beginQuit.                                                      *)
(* The hub is single-threaded: a handler runs without interruption up to   *)
(* its next await on I/O, so each action is everything that runs between   *)
(* two such awaits, the promise continuations it triggers included.        *)
(***************************************************************************)
EXTENDS Integers, FiniteSets

CONSTANTS
  Clients,   \* WebSocket client ids
  Spawns,    \* handleSpawn calls; a leader's id also names its acquisition
             \* and the agent connection it opens
  Attempts,  \* reconnect attempts, each also naming the agent it opens
  Sessions,  \* session ids
  None       \* an absent map entry

ASSUME SessionAcquisitionAssumption ==
  /\ Spawns \cap Attempts = {}
  /\ None \notin Clients \cup Spawns \cup Attempts \cup Sessions

VARIABLES
  clients,   \* ctx.clients: the connected clients
  quitting,  \* ctx.quitState = "QUITTING"
  pc,        \* per spawn: idle, connecting (leader), joined (follower), spawning, done
  client,    \* per spawn in flight: the requesting client
  acqOf,     \* per spawn in flight: the acquisition it holds a lease on, or None
  sessOf,    \* per spawn in flight: its captured session, or None
  agentOf,   \* per spawn in flight: its captured agent, or None
  acqMap,    \* ctx.acquisitions[host]: the leader naming it, or None
  acqState,  \* per acquisition: none, CONNECTING, CLOSING, FAILED
  aborted,   \* per acquisition: controller.signal.aborted
  leases,    \* per acquisition: the spawns holding an unreleased lease
  cur,       \* ctx.sessions[host]: the current session, or None
  status,    \* per session: the status last set and broadcast (none before creation)
  hasChan,   \* sessions that own a channel of ctx.channels
  reg,       \* ctx.agents[host]: the registered agent, or None
  conn,      \* per agent: down, open, or closing ('close' event due)
  apc,       \* per attempt: idle, timer, starting (the timer chain), restarting
             \* (restartChannel), done
  asess,     \* per attempt: the session it revives
  aabort,    \* per attempt: its AbortController is aborted
  timerMap,  \* ctx.reconnectTimers[host]
  ctlMap     \* ctx.reconnectAbortControllers[host]

spawnVars == <<pc, client, acqOf, sessOf, agentOf>>
acqVars == <<acqMap, acqState, aborted, leases>>
sessVars == <<cur, status>>
agentVars == <<reg, conn>>
attemptVars == <<apc, asess, aabort, timerMap, ctlMap>>
vars == <<clients, quitting, hasChan, spawnVars, acqVars, sessVars, agentVars, attemptVars>>

Agents == Spawns \cup Attempts
InFlight == {"connecting", "joined", "spawning"}

Init ==
  /\ clients = Clients /\ quitting = FALSE
  /\ pc = [s \in Spawns |-> "idle"] /\ client = [s \in Spawns |-> None]
  /\ acqOf = [s \in Spawns |-> None] /\ sessOf = [s \in Spawns |-> None]
  /\ agentOf = [s \in Spawns |-> None]
  /\ acqMap = None /\ acqState = [s \in Spawns |-> "none"]
  /\ aborted = [s \in Spawns |-> FALSE] /\ leases = [s \in Spawns |-> {}]
  /\ cur = None /\ status = [x \in Sessions |-> "none"] /\ hasChan = {}
  /\ reg = None /\ conn = [a \in Agents |-> "down"]
  /\ apc = [b \in Attempts |-> "idle"] /\ asess = [b \in Attempts |-> None]
  /\ aabort = [b \in Attempts |-> FALSE] /\ timerMap = None /\ ctlMap = None

AgentConnected == reg # None /\ conn[reg] = "open"

(***************************************************************************)
(* Sessions                                                                *)
(***************************************************************************)
\* getOrCreateSession for an SSH host: only an active or a disconnected session
\* is reused; otherwise a new one takes its place in ctx.sessions.
GetOrCreateSession(x) ==
  \/ /\ cur # None /\ status[cur] \in {"active", "disconnected"}
     /\ x = cur
     /\ UNCHANGED sessVars
  \/ /\ ~(cur # None /\ status[cur] \in {"active", "disconnected"})
     /\ status[x] = "none"
     /\ cur' = x
     /\ status' = [status EXCEPT ![x] = "starting"]

\* lifecycle.closeSession: cancel the pending timer, abort the attempt under
\* way, close the session; ctx.sessions[host] is deleted whatever it holds.
LifecycleClose(x) ==
  /\ timerMap' = None /\ ctlMap' = None
  /\ apc' = [b \in Attempts |-> IF b = timerMap /\ apc[b] = "timer" THEN "done" ELSE apc[b]]
  /\ aabort' = [b \in Attempts |-> aabort[b] \/ b = ctlMap]
  /\ status' = [status EXCEPT ![x] = "closed"]
  /\ cur' = None
  /\ UNCHANGED asess

(***************************************************************************)
(* The acquisition primitives                                              *)
(***************************************************************************)
\* The followers awaiting the connectPromise of acquisition a.
Waiters(a) == {s \in Spawns : pc[s] = "joined" /\ acqOf[s] = a}

\* f without the local variables of the spawns in S, which have returned.
Without(f, S) == [s \in Spawns |-> IF s \in S THEN None ELSE f[s]]

\* Mutant: handleSpawn returns without its outer finally.
ReturnKeepsLease(S) ==
  /\ pc' = [s \in Spawns |-> IF s \in S THEN "done" ELSE pc[s]]
  /\ client' = Without(client, S) /\ acqOf' = Without(acqOf, S)
  /\ sessOf' = Without(sessOf, S) /\ agentOf' = Without(agentOf, S)
  /\ UNCHANGED leases

\* The spawns in S return: each outer finally releases its lease.
Return(S) ==
  /\ pc' = [s \in Spawns |-> IF s \in S THEN "done" ELSE pc[s]]
  /\ leases' = [a \in Spawns |-> leases[a] \ S]
  /\ client' = Without(client, S) /\ acqOf' = Without(acqOf, S)
  /\ sessOf' = Without(sessOf, S) /\ agentOf' = Without(agentOf, S)

\* Mutant: fail() leaves the promise pending.
FailAcqSilent(a) ==
  /\ acqState' = [acqState EXCEPT ![a] = "FAILED"]
  /\ acqMap' = IF acqMap = a THEN None ELSE acqMap
  /\ Return({a})

\* fail(): FAILED, removed by identity, the promise rejected; the leader and the
\* followers awaiting it return.
FailAcq(a) ==
  /\ acqState' = [acqState EXCEPT ![a] = "FAILED"]
  /\ acqMap' = IF acqMap = a THEN None ELSE acqMap
  /\ Return({a} \cup Waiters(a))

\* close() and shutdownAll(): CLOSING before the abort, removed from the map,
\* the promise rejected so that the followers return.  The leader notices later.
CloseAcq ==
  IF acqMap = None
    THEN UNCHANGED <<acqVars, spawnVars>>
    ELSE /\ acqState' = [acqState EXCEPT ![acqMap] = "CLOSING"]
         /\ aborted' = [aborted EXCEPT ![acqMap] = TRUE]
         /\ acqMap' = None
         /\ Return(Waiters(acqMap))

(***************************************************************************)
(* handleSpawn                                                             *)
(***************************************************************************)
SpawnRequested(s) ==
  /\ pc[s] = "idle" /\ ~quitting
  /\ \E c \in clients : client' = [client EXCEPT ![s] = c]

\* A live agent: use it directly, without a lease.
SpawnFast(s) ==
  /\ SpawnRequested(s) /\ AgentConnected
  /\ \E x \in Sessions :
       /\ GetOrCreateSession(x)
       /\ sessOf' = [sessOf EXCEPT ![s] = x]
  /\ pc' = [pc EXCEPT ![s] = "spawning"]
  /\ agentOf' = [agentOf EXCEPT ![s] = reg]
  /\ UNCHANGED <<clients, quitting, hasChan, acqOf, acqVars, agentVars, attemptVars>>

\* join(): refused once the acquisition is CLOSING or FAILED.
CanJoin == acqMap # None /\ acqState[acqMap] \notin {"CLOSING", "FAILED"}

Join(s) ==
  /\ acqOf' = [acqOf EXCEPT ![s] = acqMap]
  /\ leases' = [leases EXCEPT ![acqMap] = @ \cup {s}]

\* A connect is under way: join it and await its promise.
SpawnFollow(s) ==
  /\ SpawnRequested(s) /\ ~AgentConnected /\ CanJoin
  /\ Join(s)
  /\ pc' = [pc EXCEPT ![s] = "joined"]
  /\ UNCHANGED <<clients, quitting, hasChan, sessOf, agentOf, acqMap, acqState,
                 aborted, sessVars, agentVars, attemptVars>>

\* acquire(): a CONNECTING acquisition with its leader's lease enters the map.
Acquire(s) ==
  /\ acqMap' = s
  /\ acqState' = [acqState EXCEPT ![s] = "CONNECTING"]
  /\ leases' = [leases EXCEPT ![s] = {s}]
  /\ acqOf' = [acqOf EXCEPT ![s] = s]

\* No agent and no connect under way: lead one.
SpawnLead(s) ==
  /\ SpawnRequested(s) /\ ~AgentConnected /\ ~CanJoin
  /\ Acquire(s)
  /\ \E x \in Sessions :
       /\ GetOrCreateSession(x)
       /\ sessOf' = [sessOf EXCEPT ![s] = x]
  /\ pc' = [pc EXCEPT ![s] = "connecting"]
  /\ UNCHANGED <<clients, quitting, hasChan, agentOf, aborted, agentVars, attemptVars>>

\* _connectSshAgent rejects: the handshake, a prompt or the deployment failed, or
\* its currency guard found the connect aborted or the session replaced.  A
\* fresh session is closed and ctx.sessions[host] deleted.
LeaderFail(s) ==
  /\ pc[s] = "connecting"
  /\ LET fresh == status[sessOf[s]] = "starting" IN
       /\ status' = IF fresh THEN [status EXCEPT ![sessOf[s]] = "closed"] ELSE status
       /\ cur' = IF fresh THEN None ELSE cur
  /\ FailAcq(s)
  /\ UNCHANGED <<clients, quitting, hasChan, aborted,
                 agentVars, attemptVars>>

\* The guard after start(): not aborted, and the session is still the current one.
ConnectCurrent(s) == ~aborted[s] /\ cur = sessOf[s]

\* The new agent's HELLO carries another version: the agent and the session are
\* closed, the connect rejects, the acquisition fails.
LeaderMismatch(s) ==
  /\ pc[s] = "connecting" /\ ConnectCurrent(s)
  /\ conn' = [conn EXCEPT ![s] = "closing"]
  /\ LifecycleClose(sessOf[s])
  /\ FailAcq(s)
  /\ UNCHANGED <<clients, quitting, hasChan, aborted, reg>>

\* The guard of the commit.
CommitGuard(s) == acqMap = s /\ acqState[s] = "CONNECTING" /\ ConnectCurrent(s)

\* The connect succeeded and is current: register the agent, delete the
\* acquisition, resolve the promise.  Leader and followers go on to spawn, those
\* whose client left return; if all left and the session owns no channel, the
\* last one closes the agent and the session.  adoptAgent's quit fence cannot
\* fail here: QuitNoAdopt holds without it, the commit guard already failed.
LeaderCommit(s) ==
  /\ pc[s] = "connecting" /\ CommitGuard(s)
  /\ LET party == {s} \cup Waiters(s)
         alive == {p \in party : client[p] \in clients}
         drop == alive = {} /\ sessOf[s] \notin hasChan
     IN /\ acqMap' = None
        /\ pc' = [p \in Spawns |-> IF p \in alive THEN "spawning"
                                   ELSE IF p \in party THEN "done" ELSE pc[p]]
        /\ leases' = [leases EXCEPT ![s] = alive]
        /\ sessOf' = [p \in Spawns |-> IF p \in alive THEN sessOf[s]
                                       ELSE IF p \in party THEN None ELSE sessOf[p]]
        /\ agentOf' = [p \in Spawns |-> IF p \in alive THEN s ELSE agentOf[p]]
        /\ client' = Without(client, party \ alive)
        /\ acqOf' = Without(acqOf, party \ alive)
        /\ status' = [status EXCEPT ![sessOf[s]] = IF drop THEN "closed" ELSE "active"]
        /\ cur' = IF drop THEN None ELSE cur
        /\ reg' = IF drop THEN None ELSE s
        /\ conn' = [conn EXCEPT ![s] = IF drop THEN "closing" ELSE "open"]
  /\ UNCHANGED <<clients, quitting, hasChan, acqState, aborted, attemptVars>>

\* SPAWN_OK arrives: a channel of the captured session enters ctx.channels.
SpawnOk(s) ==
  /\ pc[s] = "spawning" /\ conn[agentOf[s]] = "open"
  /\ hasChan' = IF quitting THEN hasChan ELSE hasChan \cup {sessOf[s]}
  /\ Return({s})
  /\ UNCHANGED <<clients, quitting, acqMap, acqState, aborted, sessVars, agentVars, attemptVars>>

\* SPAWN_ERR, the 10 s timeout, or an agent that is no longer connected.
SpawnErr(s) ==
  /\ pc[s] = "spawning"
  /\ Return({s})
  /\ UNCHANGED <<clients, quitting, hasChan, acqMap, acqState, aborted, sessVars, agentVars, attemptVars>>

(***************************************************************************)
(* Losing and reviving the agent                                           *)
(***************************************************************************)
\* The SSH connection drops, or its 'error' handler closes it.
AgentDrop(a) ==
  /\ conn[a] = "open"
  /\ conn' = [conn EXCEPT ![a] = "closing"]
  /\ UNCHANGED <<clients, quitting, hasChan, spawnVars, acqVars, sessVars, reg, attemptVars>>

\* scheduleReconnect: a new timer takes the host's entry; a timer already there
\* is neither cleared nor cancelled.
ScheduleReconnect(b, x) ==
  /\ apc[b] = "idle"
  /\ apc' = [apc EXCEPT ![b] = "timer"]
  /\ asess' = [asess EXCEPT ![b] = x]
  /\ timerMap' = b

\* The 'close' event of a wired agent.  Only the registered agent has effects.
AgentCloseEvent(a) ==
  /\ conn[a] = "closing"
  /\ conn' = [conn EXCEPT ![a] = "down"]
  /\ IF reg # a
       THEN UNCHANGED <<reg, status, attemptVars>>
       ELSE /\ reg' = None
            /\ IF cur = None
                 THEN UNCHANGED <<status, attemptVars>>
                 ELSE /\ status' = [status EXCEPT ![cur] = "disconnected"]
                      /\ IF quitting
                           THEN UNCHANGED attemptVars
                           ELSE /\ \E b \in Attempts : ScheduleReconnect(b, cur)
                                /\ UNCHANGED <<aabort, ctlMap>>
  /\ UNCHANGED <<clients, quitting, hasChan, spawnVars, acqVars, cur>>

\* Register the attempt's AbortController, aborting the one it replaces.
BeginStart(b) ==
  /\ ctlMap' = b
  /\ aabort' = [c \in Attempts |-> IF c = b THEN FALSE ELSE aabort[c] \/ c = ctlMap]

\* The reconnect timer fires: it deletes the host's entry, and gives up unless
\* its session is still current.
TimerFires(b) ==
  /\ apc[b] = "timer"
  /\ timerMap' = None
  /\ IF cur = asess[b] /\ status[cur] # "closed"
       THEN BeginStart(b) /\ apc' = [apc EXCEPT ![b] = "starting"]
       ELSE apc' = [apc EXCEPT ![b] = "done"] /\ UNCHANGED <<aabort, ctlMap>>
  /\ UNCHANGED <<clients, quitting, hasChan, spawnVars, acqVars, sessVars, agentVars, asess>>

\* restartChannel without a live agent: onReconnectAgent starts at once, for
\* whatever session is current, and never retries.
RestartReconnect(b) ==
  /\ apc[b] = "idle" /\ ~quitting /\ ~AgentConnected /\ cur # None /\ clients # {}
  /\ hasChan # {}
  /\ asess' = [asess EXCEPT ![b] = cur]
  /\ apc' = [apc EXCEPT ![b] = "restarting"]
  /\ BeginStart(b)
  /\ UNCHANGED <<clients, quitting, hasChan, spawnVars, acqVars, sessVars, agentVars, timerMap>>

\* The catch of the timer chain past RECONNECT_TIMEOUT_MS, for the current session.
GiveUp(b) ==
  /\ timerMap' = None /\ ctlMap' = None
  /\ apc' = [c \in Attempts |-> IF c = b \/ (c = timerMap /\ apc[c] = "timer") THEN "done" ELSE apc[c]]
  /\ aabort' = [c \in Attempts |-> aabort[c] \/ (c = ctlMap /\ c # b)]
  /\ status' = [status EXCEPT ![asess[b]] = "closed"]
  /\ cur' = None
  /\ UNCHANGED asess

\* start() of the attempt is being awaited.
Starting(b) == apc[b] \in {"starting", "restarting"}

\* Mutant: the guard after start() does not compare the session.
ReconnectGuardAnySession(b) == ~aabort[b] /\ ctlMap = b

\* The guard after start(): not aborted, still registered, its session current.
ReconnectGuard(b) == ~aabort[b] /\ ctlMap = b /\ cur = asess[b]

\* start() succeeded and the attempt is current: the session is active again and
\* the agent replaces whatever is registered.
ReconnectOk(b) ==
  /\ Starting(b) /\ ReconnectGuard(b) /\ ~quitting
  /\ ctlMap' = None
  /\ status' = [status EXCEPT ![asess[b]] = "active"]
  /\ conn' = [conn EXCEPT ![b] = "open"]
  /\ reg' = b
  /\ apc' = [apc EXCEPT ![b] = "done"]
  /\ UNCHANGED <<clients, quitting, hasChan, spawnVars, acqVars, cur, asess, aabort, timerMap>>

\* The same after the hub began to quit: adoptAgent's fence throws, but the
\* session was set active and the agent wired before; nothing closes the agent.
\* The timer chain's catch closes the session if RECONNECT_TIMEOUT_MS is over.
ReconnectFenced(b) ==
  /\ Starting(b) /\ ReconnectGuard(b) /\ quitting
  /\ conn' = [conn EXCEPT ![b] = "open"]
  /\ \/ /\ ctlMap' = None
        /\ status' = [status EXCEPT ![asess[b]] = "active"]
        /\ apc' = [apc EXCEPT ![b] = "done"]
        /\ UNCHANGED <<cur, asess, aabort, timerMap>>
     \/ /\ apc[b] = "starting"
        /\ GiveUp(b)
  /\ UNCHANGED <<clients, quitting, hasChan, spawnVars, acqVars, reg>>

\* start() succeeded for an attempt that is aborted, replaced or out of date:
\* its agent is closed before it was wired.
ReconnectStale(b) ==
  /\ Starting(b) /\ ~ReconnectGuard(b)
  /\ apc' = [apc EXCEPT ![b] = "done"]
  /\ UNCHANGED <<clients, quitting, hasChan, spawnVars, acqVars, sessVars, agentVars, asess,
                 aabort, timerMap, ctlMap>>

\* The revived agent's HELLO carries another version: agent and session close,
\* and the timer chain, unaware, schedules one more timer unless its time is over.
ReconnectMismatch(b) ==
  /\ Starting(b) /\ ReconnectGuard(b)
  /\ conn' = [conn EXCEPT ![b] = "closing"]
  /\ ctlMap' = None
  /\ status' = [status EXCEPT ![asess[b]] = "closed"]
  /\ cur' = None
  /\ \E again \in BOOLEAN :
       /\ again => apc[b] = "starting" /\ ~quitting
       /\ timerMap' = IF again THEN b ELSE None
       /\ apc' = [c \in Attempts |->
                    IF c = b THEN IF again THEN "timer" ELSE "done"
                    ELSE IF c = timerMap /\ apc[c] = "timer" THEN "done" ELSE apc[c]]
  /\ UNCHANGED <<clients, quitting, hasChan, spawnVars, acqVars, reg, asess, aabort>>

\* start() failed.  An aborted attempt and a restart stop here; the timer chain
\* tries again later.
ReconnectRetry(b) ==
  /\ Starting(b)
  /\ ctlMap' = IF ctlMap = b THEN None ELSE ctlMap
  /\ LET again == apc[b] = "starting" /\ ~aabort[b] /\ ~quitting IN
       /\ apc' = [apc EXCEPT ![b] = IF again THEN "timer" ELSE "done"]
       /\ timerMap' = IF again THEN b ELSE timerMap
  /\ UNCHANGED <<clients, quitting, hasChan, spawnVars, acqVars, sessVars, agentVars, asess, aabort>>

\* start() failed and RECONNECT_TIMEOUT_MS has elapsed: close the session if it
\* is still the one being revived.
ReconnectGiveUp(b) ==
  /\ apc[b] = "starting" /\ ~aabort[b]
  /\ IF cur = asess[b]
       THEN GiveUp(b)
       ELSE /\ ctlMap' = IF ctlMap = b THEN None ELSE ctlMap
            /\ apc' = [apc EXCEPT ![b] = "done"]
            /\ UNCHANGED <<sessVars, asess, aabort, timerMap>>
  /\ UNCHANGED <<clients, quitting, hasChan, spawnVars, acqVars, agentVars>>

(***************************************************************************)
(* closeSession, channels, clients, quit                                   *)
(***************************************************************************)
\* DELETE of the current session: close the agent, abort the acquisition, close.
CloseSession ==
  /\ cur # None
  /\ conn' = [a \in Agents |-> IF a = reg /\ conn[a] = "open" THEN "closing" ELSE conn[a]]
  /\ reg' = None
  /\ CloseAcq
  /\ LifecycleClose(cur)
  /\ UNCHANGED <<clients, quitting, hasChan>>

\* The last channel of a session is destroyed.
DestroyChannels(x) ==
  /\ x \in hasChan
  /\ hasChan' = hasChan \ {x}
  /\ UNCHANGED <<clients, quitting, spawnVars, acqVars, sessVars, agentVars, attemptVars>>

\* checkSessionDetached: the last client left the last live channel.
SessionDetached ==
  /\ cur # None /\ status[cur] = "active" /\ hasChan # {}
  /\ status' = [status EXCEPT ![cur] = "detached"]
  /\ UNCHANGED <<clients, quitting, hasChan, spawnVars, acqVars, cur, agentVars, attemptVars>>

\* restartChannel over the live agent got its SPAWN_OK: the channel is back and a
\* detached session is active again.  The session was captured before the SPAWN
\* and may have been replaced since, because getOrCreateSession reuses no
\* detached one.
ChannelRestarted(x) ==
  /\ AgentConnected /\ ~quitting /\ hasChan # {}
  /\ \/ x = cur /\ status[x] = "active"
     \/ status[x] = "detached"
  /\ hasChan' = hasChan \cup {x}
  /\ status' = [status EXCEPT ![x] = "active"]
  /\ UNCHANGED <<clients, quitting, spawnVars, acqVars, cur, agentVars, attemptVars>>

ClientDisconnect(c) ==
  /\ c \in clients
  /\ clients' = clients \ {c}
  /\ UNCHANGED <<quitting, hasChan, spawnVars, acqVars, sessVars, agentVars, attemptVars>>

\* beginQuit: latch, abort every acquisition, clear the registered timer and
\* abort the registered reconnect attempt.
BeginQuit ==
  /\ ~quitting /\ quitting' = TRUE
  /\ CloseAcq
  /\ timerMap' = None /\ ctlMap' = None
  /\ apc' = [b \in Attempts |-> IF b = timerMap /\ apc[b] = "timer" THEN "done" ELSE apc[b]]
  /\ aabort' = [b \in Attempts |-> aabort[b] \/ b = ctlMap]
  /\ UNCHANGED <<clients, hasChan, sessVars, agentVars, asess>>

-----------------------------------------------------------------------------
SpawnStep(s) ==
  SpawnFast(s) \/ SpawnFollow(s) \/ SpawnLead(s) \/ LeaderFail(s) \/ LeaderMismatch(s)
    \/ LeaderCommit(s) \/ SpawnOk(s) \/ SpawnErr(s)

AttemptStep(b) ==
  TimerFires(b) \/ RestartReconnect(b) \/ ReconnectOk(b) \/ ReconnectFenced(b)
    \/ ReconnectStale(b) \/ ReconnectMismatch(b) \/ ReconnectRetry(b) \/ ReconnectGiveUp(b)

Next ==
  \/ \E s \in Spawns : SpawnStep(s)
  \/ \E b \in Attempts : AttemptStep(b)
  \/ \E a \in Agents : AgentDrop(a) \/ AgentCloseEvent(a)
  \/ \E x \in Sessions : DestroyChannels(x) \/ ChannelRestarted(x)
  \/ \E c \in Clients : ClientDisconnect(c)
  \/ CloseSession \/ SessionDetached \/ BeginQuit

Spec == Init /\ [][Next]_vars

\* Awaited calls settle: the SSH handshake, HELLO and every prompt have a timer,
\* SPAWN has its 10 s timer, a set timer fires, a closed socket emits 'close'.
\* The timer chain measures RECONNECT_TIMEOUT_MS from its start, so it does not
\* retry for ever.
Fairness ==
  /\ \A s \in Spawns : WF_vars(LeaderFail(s)) /\ WF_vars(SpawnErr(s))
  /\ \A b \in Attempts :
       /\ WF_vars(TimerFires(b))
       /\ WF_vars(ReconnectOk(b) \/ ReconnectFenced(b) \/ ReconnectStale(b) \/ ReconnectRetry(b))
       /\ SF_vars(ReconnectGiveUp(b))
  /\ \A a \in Agents : WF_vars(AgentCloseEvent(a))

FairSpec == Spec /\ Fairness

-----------------------------------------------------------------------------
SpawnLocals ==
  \A s \in Spawns :
    /\ pc[s] \in InFlight => client[s] \in Clients
    /\ pc[s] = "connecting" => acqOf[s] = s
    /\ pc[s] \in {"connecting", "spawning"} => sessOf[s] \in Sessions
    /\ pc[s] = "joined" => acqOf[s] \in Spawns
    /\ pc[s] = "spawning" => agentOf[s] \in Agents
    /\ pc[s] \in {"idle", "done"} => acqOf[s] = None

SpawnTypes ==
  /\ pc \in [Spawns -> {"idle", "done"} \cup InFlight]
  /\ client \in [Spawns -> Clients \cup {None}]
  /\ acqOf \in [Spawns -> Spawns \cup {None}]
  /\ sessOf \in [Spawns -> Sessions \cup {None}]
  /\ agentOf \in [Spawns -> Agents \cup {None}]
  /\ SpawnLocals

AcqTypes ==
  /\ acqMap \in Spawns \cup {None}
  /\ acqState \in [Spawns -> {"none", "CONNECTING", "CLOSING", "FAILED"}]
  /\ aborted \in [Spawns -> BOOLEAN] /\ leases \in [Spawns -> SUBSET Spawns]

SessionTypes ==
  /\ cur \in Sessions \cup {None} /\ hasChan \subseteq Sessions
  /\ status \in [Sessions -> {"none", "starting", "active", "detached", "disconnected", "closed"}]

AgentTypes == reg \in Agents \cup {None} /\ conn \in [Agents -> {"down", "open", "closing"}]

AttemptTypes ==
  /\ apc \in [Attempts -> {"idle", "timer", "starting", "restarting", "done"}]
  /\ asess \in [Attempts -> Sessions \cup {None}] /\ aabort \in [Attempts -> BOOLEAN]
  /\ timerMap \in Attempts \cup {None} /\ ctlMap \in Attempts \cup {None}
  /\ \A b \in Attempts : apc[b] # "idle" => asess[b] \in Sessions

\* The types of the variables, the local variables each call holds at each of
\* its awaits included: a continuation never dereferences a session, an agent or
\* a client it did not capture.
TypeOK ==
  /\ clients \subseteq Clients /\ quitting \in BOOLEAN
  /\ SpawnTypes /\ AcqTypes /\ SessionTypes /\ AgentTypes /\ AttemptTypes

\* An acquisition that can be found in ctx.acquisitions is live: CONNECTING, not
\* aborted, its leader still awaits the connect and holds a lease.  So join() is
\* never refused, release() never reaps, and the guard of the commit never fails
\* on the acquisition itself (acquire, fail, close, shutdownAll, handleSpawn).
AcqLive ==
  acqMap # None =>
    /\ acqState[acqMap] = "CONNECTING" /\ ~aborted[acqMap]
    /\ pc[acqMap] = "connecting" /\ acqMap \in leases[acqMap]

\* A follower waits only on the acquisition in the map, which AcqLive shows to be
\* live: whoever removes an acquisition settles its promise (fail, close,
\* shutdownAll, commit).
NoStrandedFollower == \A s \in Spawns : pc[s] = "joined" => acqMap = acqOf[s]

\* The lease set of an acquisition is exactly the calls in flight that joined or
\* lead it, through every early return, so the sole-requester close sees the
\* right number (release in handleSpawn's finally).
LeaseAccounting ==
  \A a \in Spawns : leases[a] = {s \in Spawns : acqOf[s] = a /\ pc[s] \in InFlight}

\* The current session is a live one: whatever closes a session also removes it
\* from ctx.sessions (closeSession, sole-requester close, failed connect).
CurrentIsOpen == cur # None => status[cur] \notin {"none", "closed"}

\* A reconnect whose start() is being awaited is the registered one or has been
\* aborted, so closeSession and beginQuit reach every attempt under way
\* (scheduleReconnect, onReconnectAgent: abort before overwrite).
AttemptTracked == \A b \in Attempts : Starting(b) => ctlMap = b \/ aabort[b]

\* A closed session is never revived, by a leader, a timer, a restart or a late
\* close event.
ClosedIsFinal == [][\A x \in Sessions : status[x] = "closed" => status'[x] = "closed"]_vars

Lifecycle == INSTANCE SessionLifecycle

\* Whatever leaders, timers, restarts, close events and REST calls do between
\* their awaits, the sessions of the host follow the promised life cycle.
ImplementsLifecycle == Lifecycle!Spec

\* Once the hub is quitting no agent is registered and no session created,
\* whatever was already under way (adoptAgent, createSession, persistSession).
QuitNoAdopt == [][quitting => reg' \in {reg, None} /\ cur' \in {cur, None}]_vars

\* Every handleSpawn call returns, as leader, follower or on the fast path.
SpawnSettles == \A s \in Spawns : pc[s] \in InFlight ~> pc[s] = "done"

=============================================================================
