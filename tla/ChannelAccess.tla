---------------------------- MODULE ChannelAccess ----------------------------
(***************************************************************************)
(* Who is attached to a channel and who may write to it.  One channel of a *)
(* local host is modelled: every map involved is keyed by the channel id.  *)
(* The actors are                                                          *)
(*   - web clients that attach, detach, pass the write lock on and vanish; *)
(*   - SPAWN and ATTACH calls, which ask the agent and continue when it    *)
(*     answers or a timer fires, whatever became of their client;          *)
(*   - the agent, whose answers and exit reports arrive in order, and      *)
(*     whose connection may drop and come back;                            *)
(*   - destroyChannel over REST and closeSession.                          *)
(* The hub is single-threaded.  Settling a promise only queues its         *)
(* continuation; it runs once the current event is over, so nothing but    *)
(* further messages of the same data chunk of the agent can come between.  *)
(* The quit latch and restartChannel are not modelled here.                *)
(***************************************************************************)
EXTENDS Integers, Sequences

CONSTANTS
  Clients,   \* client ids; a WebSocket connection gets a fresh one
  Calls,     \* handleSpawn and handleAttach calls: the bound on requests
  None       \* an absent map entry

ASSUME ChannelAccessAssumption == None \notin Clients \cup Calls

VARIABLES
  conn,      \* per client: new, open, failing (error seen, close due), gone
  tracked,   \* per client: client.attachedChannels has the channel
  status,    \* absent (no row), live, orphan, dead (in ctx.channels), retired (a dead row only)
  subs,      \* channel.clients
  holder,    \* WriteLockManager.holders: a client or None
  view,      \* per client: the holder it knows of, once it read all it was sent
  asked,     \* per client: the WRITE_REQUEST it is showing, or None
  agentUp,   \* the agent is registered and connected
  pty,       \* the agent has a process for the channel
  wire,      \* frames of the agent under way to the hub
  pend,      \* the call whose handler is ctx.pendingRequests["attach:<channel>"]
  st,        \* per call: idle, waiting, resolved (continuation queued), done
  kind,      \* per call: none, spawn, attach, respawn (ATTACH of a dead channel)
  who,       \* per call under way: its client
  res        \* per call under way: none, ok, notFound, cached, failed

clientVars == <<conn, tracked>>
chanVars == <<status, subs>>
lockVars == <<holder, view>>
agentVars == <<agentUp, pty, wire>>
callVars == <<pend, st, kind, who, res>>
vars == <<clientVars, chanVars, lockVars, asked, agentVars, callVars>>

Statuses == {"absent", "live", "orphan", "dead", "retired"}
Frames == [k : {"spawn", "attach"}, call : Calls, ok : BOOLEAN]
            \cup [k : {"exit"}, call : {None}, ok : {FALSE}]

\* The channel has an entry in ctx.channels.
InMap == status \in {"live", "orphan", "dead"}

\* No continuation is queued, so the hub may take its next event.
Drained == \A a \in Calls : st[a] # "resolved"

\* The channel does not exist yet, or clients that are gone by now left it running.
Init ==
  /\ conn = [c \in Clients |-> "new"]
  /\ tracked = [c \in Clients |-> FALSE]
  /\ status \in {"absent", "orphan"} /\ subs = {}
  /\ holder = None
  /\ view = [c \in Clients |-> None]
  /\ asked = [c \in Clients |-> None]
  /\ agentUp = TRUE /\ pty = (status = "orphan") /\ wire = <<>>
  /\ pend = None
  /\ st = [a \in Calls |-> "idle"]
  /\ kind = [a \in Calls |-> "none"]
  /\ who = [a \in Calls |-> None]
  /\ res = [a \in Calls |-> "none"]

-----------------------------------------------------------------------------
(* Messages to the clients *)

\* The views after WRITE_LOCK { holder: h } went to the clients of S that are connected.
Announce(v, S, h) ==
  [c \in Clients |-> IF c \in S /\ conn[c] = "open" THEN h ELSE v[c]]

\* Hand the lock to h (None frees it) and broadcast it to the attached clients.
SetHolder(h) ==
  /\ holder' = h
  /\ view' = Announce(view, subs, h)

\* Mutant: a client that attaches while the lock is held is not told.
LockAttachSilent(c, S) ==
  /\ holder' = IF holder = None THEN c ELSE holder
  /\ view' = IF holder = None THEN Announce(view, S, c) ELSE view

\* writeLockManager.attach: the first one in takes the lock, the others are told who holds it.
LockAttach(c, S) ==
  /\ holder' = IF holder = None THEN c ELSE holder
  /\ view' = Announce(view, IF holder = None THEN S ELSE {c}, holder')

\* writeLockManager.detach and onClientDisconnect.
LockDetach(c) ==
  IF holder = c THEN SetHolder(None) ELSE UNCHANGED lockVars

\* detachClient: the last one out orphans the channel.
DetachClient(c) ==
  /\ subs' = IF InMap THEN subs \ {c} ELSE subs
  /\ status' = IF status = "live" /\ subs' = {} THEN "orphan" ELSE status
  /\ tracked' = [tracked EXCEPT ![c] = FALSE]

-----------------------------------------------------------------------------
(* Clients come and go *)

Connect(c) ==
  /\ Drained
  /\ conn[c] = "new"
  /\ conn' = [conn EXCEPT ![c] = "open"]
  /\ UNCHANGED <<tracked, chanVars, lockVars, asked, agentVars, callVars>>

Detach(c) ==
  /\ Drained
  /\ conn[c] = "open"
  /\ LockDetach(c)
  /\ DetachClient(c)
  /\ UNCHANGED <<conn, asked, agentVars, callVars>>

\* The handlers of 'close' and 'error': free the lock, then leave the tracked channels.
\* The page and what it showed are gone.
Disconnect(c, next) ==
  /\ conn[c] = "open"
  /\ conn' = [conn EXCEPT ![c] = next]
  /\ holder' = IF holder = c THEN None ELSE holder
  /\ view' = [Announce(view, IF holder = c THEN subs ELSE {}, None) EXCEPT ![c] = None]
  /\ IF tracked[c] THEN DetachClient(c) ELSE UNCHANGED <<chanVars, tracked>>
  /\ asked' = [asked EXCEPT ![c] = None]
  /\ UNCHANGED <<agentVars, callVars>>

SocketError(c) == Drained /\ Disconnect(c, "failing")

SocketClose(c) == Drained /\ Disconnect(c, "gone")

\* 'close' after 'error': the client is out of ctx.clients, only the lock is looked at again.
SocketCloseAfterError(c) ==
  /\ Drained
  /\ conn[c] = "failing"
  /\ conn' = [conn EXCEPT ![c] = "gone"]
  /\ LockDetach(c)
  /\ UNCHANGED <<tracked, chanVars, asked, agentVars, callVars>>

-----------------------------------------------------------------------------
(* SPAWN and ATTACH *)

Begin(a, c, k, s, r) ==
  /\ Drained
  /\ conn[c] = "open"
  /\ st[a] = "idle"
  /\ st' = [st EXCEPT ![a] = s]
  /\ kind' = [kind EXCEPT ![a] = k]
  /\ who' = [who EXCEPT ![a] = c]
  /\ res' = [res EXCEPT ![a] = r]

\* The agent takes the SPAWN and answers; it refuses an id it already has a process for.
AgentSpawns(a) ==
  /\ wire' = Append(wire, [k |-> "spawn", call |-> a, ok |-> ~pty])
  /\ pty' = TRUE

\* The SPAWN that creates this channel: no other call can be about it before.
SpawnRequest(a, c) ==
  /\ status = "absent" /\ agentUp
  /\ \A b \in Calls : st[b] = "idle"
  /\ Begin(a, c, "spawn", "waiting", "none")
  /\ AgentSpawns(a)
  /\ UNCHANGED <<clientVars, chanVars, lockVars, asked, agentUp, pend>>

\* handleAttach up to its await: the client is attached before the agent is asked.
Subscribe(c) ==
  /\ subs' = subs \cup {c}
  /\ tracked' = [tracked EXCEPT ![c] = TRUE]
  /\ status' = IF status = "orphan" THEN "live" ELSE status

AttachLive(a, c) ==
  /\ InMap /\ agentUp
  /\ Begin(a, c, "attach", "waiting", "none")
  /\ Subscribe(c)
  /\ wire' = Append(wire, [k |-> "attach", call |-> a, ok |-> pty])
  /\ pend' = a
  /\ UNCHANGED <<conn, lockVars, asked, agentUp, pty>>

AttachCached(a, c) ==
  /\ InMap /\ ~agentUp
  /\ Begin(a, c, "attach", "resolved", "cached")
  /\ Subscribe(c)
  /\ UNCHANGED <<conn, lockVars, asked, agentVars, pend>>

\* ATTACH of a channel with only a dead row: respawnDeadChannel.
AttachDead(a, c) ==
  /\ status = "retired" /\ agentUp
  /\ Begin(a, c, "respawn", "waiting", "none")
  /\ AgentSpawns(a)
  /\ UNCHANGED <<clientVars, chanVars, lockVars, asked, agentUp, pend>>

\* Settle the promise of call a.
Resolve(a, r) ==
  /\ st' = [st EXCEPT ![a] = "resolved"]
  /\ res' = [res EXCEPT ![a] = r]

Deliver(k) ==
  /\ wire # <<>> /\ Head(wire).k = k
  /\ wire' = Tail(wire)

\* The request id of the call's SPAWN is in ctx.pendingRequests.
SpawnAwaited(a) == st[a] = "waiting" /\ kind[a] \in {"spawn", "respawn"}

\* SPAWN_OK and SPAWN_ERR.  handleSpawn creates the channel at once, respawnDeadChannel
\* in its continuation; an answer after the timeout finds no handler.
DeliverSpawn ==
  LET a == Head(wire).call
      ok == Head(wire).ok
  IN
  /\ Deliver("spawn")
  /\ IF SpawnAwaited(a) THEN Resolve(a, IF ok THEN "ok" ELSE "failed")
                        ELSE UNCHANGED <<st, res>>
  /\ IF SpawnAwaited(a) /\ kind[a] = "spawn" /\ ok
     THEN /\ status' = "live" /\ subs' = {who[a]}
          /\ tracked' = [tracked EXCEPT ![who[a]] = TRUE]
     ELSE UNCHANGED <<chanVars, tracked>>
  /\ UNCHANGED <<conn, lockVars, asked, agentUp, pty, pend, kind, who>>

\* ATTACH_OK and ERROR name the channel only: they go to whichever handler is registered.
DeliverAttach ==
  /\ Deliver("attach")
  /\ IF pend # None THEN Resolve(pend, IF Head(wire).ok THEN "ok" ELSE "notFound")
                    ELSE UNCHANGED <<st, res>>
  /\ pend' = None
  /\ UNCHANGED <<clientVars, chanVars, lockVars, asked, agentUp, pty, kind, who>>

DeliverExit ==
  /\ Deliver("exit")
  /\ status' = IF InMap THEN "dead" ELSE status
  /\ UNCHANGED <<clientVars, subs, lockVars, asked, agentUp, pty, callVars>>

\* Mutant: the timer gives way when another call has taken the handler slot.
TimeOutOwnHandler(a) ==
  /\ Drained
  /\ st[a] = "waiting" /\ (kind[a] = "attach" => pend = a)
  /\ Resolve(a, IF kind[a] = "attach" THEN "cached" ELSE "failed")
  /\ pend' = IF kind[a] = "attach" THEN None ELSE pend
  /\ UNCHANGED <<clientVars, chanVars, lockVars, asked, agentVars, kind, who>>

\* The call's own timer.  That of an ATTACH deletes the handler, be it its own or not.
TimeOut(a) ==
  /\ Drained
  /\ st[a] = "waiting"
  /\ Resolve(a, IF kind[a] = "attach" THEN "cached" ELSE "failed")
  /\ pend' = IF kind[a] = "attach" THEN None ELSE pend
  /\ UNCHANGED <<clientVars, chanVars, lockVars, asked, agentVars, kind, who>>

\* The call returns; its locals are gone.
Continue(a) ==
  /\ st[a] = "resolved"
  /\ st' = [st EXCEPT ![a] = "done"]
  /\ kind' = [kind EXCEPT ![a] = "none"]
  /\ who' = [who EXCEPT ![a] = None]
  /\ res' = [res EXCEPT ![a] = "none"]
  /\ UNCHANGED <<conn, asked, agentVars, pend>>

\* The success path: ATTACH_OK or SPAWN_OK went out, then the lock manager attaches.
ResumeAttached(a) ==
  /\ kind[a] # "respawn" /\ res[a] \in {"ok", "cached"}
  /\ Continue(a)
  /\ LockAttach(who[a], subs)
  /\ UNCHANGED <<tracked, chanVars>>

\* Mutant: the respawned channel is not entered in the client's own set.
ResumeRespawnedUntracked(a) ==
  /\ kind[a] = "respawn" /\ res[a] = "ok"
  /\ Continue(a)
  /\ status' = "live" /\ subs' = {who[a]}
  /\ LockAttach(who[a], {who[a]})
  /\ UNCHANGED tracked

ResumeRespawned(a) ==
  /\ kind[a] = "respawn" /\ res[a] = "ok"
  /\ Continue(a)
  /\ status' = "live" /\ subs' = {who[a]}
  /\ tracked' = [tracked EXCEPT ![who[a]] = TRUE]
  /\ LockAttach(who[a], {who[a]})

\* The agent does not know the channel: retireChannel, and the caller is not attached.
ResumeNotFound(a) ==
  /\ res[a] = "notFound"
  /\ Continue(a)
  /\ status' = "retired" /\ subs' = {}
  /\ tracked' = [c \in Clients |-> tracked[c] /\ c \notin subs /\ c # who[a]]
  /\ UNCHANGED lockVars

ResumeFailed(a) ==
  /\ res[a] = "failed"
  /\ Continue(a)
  /\ UNCHANGED <<tracked, chanVars, lockVars>>

-----------------------------------------------------------------------------
(* The write lock *)

Claim(c) ==
  /\ Drained
  /\ conn[c] = "open" /\ holder = None
  /\ SetHolder(c)
  /\ UNCHANGED <<clientVars, chanVars, asked, agentVars, callVars>>

\* WRITE_REQUEST to the holder, whose client shows the latest one.
ClaimHeld(c) ==
  /\ Drained
  /\ conn[c] = "open" /\ holder \notin {None, c}
  /\ asked' = IF conn[holder] = "open" THEN [asked EXCEPT ![holder] = c] ELSE asked
  /\ UNCHANGED <<clientVars, chanVars, lockVars, agentVars, callVars>>

\* The client answers the request it shows; only a holder's grant counts.
Grant(c) ==
  /\ Drained
  /\ conn[c] = "open" /\ asked[c] # None
  /\ IF holder = c THEN SetHolder(asked[c]) ELSE UNCHANGED lockVars
  /\ asked' = [asked EXCEPT ![c] = None]
  /\ UNCHANGED <<clientVars, chanVars, agentVars, callVars>>

Deny(c) ==
  /\ Drained
  /\ conn[c] = "open" /\ asked[c] # None
  /\ asked' = [asked EXCEPT ![c] = None]
  /\ UNCHANGED <<clientVars, chanVars, lockVars, agentVars, callVars>>

\* WRITE_REVOKED clears the old holder's view before the broadcast.
ForceLock(c) ==
  /\ Drained
  /\ conn[c] = "open"
  /\ holder' = c
  /\ view' = Announce(Announce(view, {holder} \ {c}, None), subs, c)
  /\ UNCHANGED <<clientVars, chanVars, asked, agentVars, callVars>>

ReleaseLock(c) ==
  /\ Drained
  /\ conn[c] = "open" /\ holder = c
  /\ SetHolder(None)
  /\ UNCHANGED <<clientVars, chanVars, asked, agentVars, callVars>>

-----------------------------------------------------------------------------
(* The channel and its agent *)

\* destroyChannel: the entry goes, the lock and the clients' own sets stay.  The agent
\* ends the process and reports its exit.
ChannelDestroyed ==
  /\ Drained
  /\ status \in {"live", "orphan"}
  /\ status' = "retired" /\ subs' = {}
  /\ pty' = (pty /\ ~agentUp)
  /\ wire' = IF pty /\ agentUp THEN Append(wire, [k |-> "exit", call |-> None, ok |-> FALSE])
                               ELSE wire
  /\ UNCHANGED <<clientVars, lockVars, asked, agentUp, callVars>>

\* closeSession: the entry stays, dead.
SessionClosed ==
  /\ Drained
  /\ status \in {"live", "orphan"}
  /\ status' = "dead"
  /\ UNCHANGED <<clientVars, subs, lockVars, asked, agentVars, callVars>>

ProcessExits ==
  /\ pty
  /\ pty' = FALSE
  /\ wire' = IF agentUp THEN Append(wire, [k |-> "exit", call |-> None, ok |-> FALSE])
                        ELSE wire
  /\ UNCHANGED <<clientVars, chanVars, lockVars, asked, agentUp, callVars>>

\* The connection drops with the frames on it.
AgentDown ==
  /\ Drained
  /\ agentUp
  /\ agentUp' = FALSE /\ wire' = <<>>
  /\ UNCHANGED <<clientVars, chanVars, lockVars, asked, pty, callVars>>

\* reconcileChannelState: the daemon reports which channels it still runs.
AgentBack ==
  /\ Drained
  /\ ~agentUp
  /\ agentUp' = TRUE
  /\ status' = CASE InMap /\ ~pty -> "dead"
                 [] status = "orphan" /\ pty -> "live"
                 [] OTHER -> status
  /\ UNCHANGED <<clientVars, subs, lockVars, asked, pty, wire, callVars>>

ClientStep(c) ==
  \/ Connect(c) \/ Detach(c)
  \/ SocketError(c) \/ SocketClose(c) \/ SocketCloseAfterError(c)
  \/ Claim(c) \/ ClaimHeld(c) \/ Grant(c) \/ Deny(c) \/ ForceLock(c) \/ ReleaseLock(c)

RequestStep(a, c) ==
  SpawnRequest(a, c) \/ AttachLive(a, c) \/ AttachCached(a, c) \/ AttachDead(a, c)

ResumeStep(a) ==
  ResumeAttached(a) \/ ResumeRespawned(a) \/ ResumeNotFound(a) \/ ResumeFailed(a)

AgentStep ==
  \/ DeliverSpawn \/ DeliverAttach \/ DeliverExit
  \/ ProcessExits \/ AgentDown \/ AgentBack

Next ==
  \/ \E c \in Clients : ClientStep(c)
  \/ \E a \in Calls, c \in Clients : RequestStep(a, c)
  \/ \E a \in Calls : ResumeStep(a) \/ TimeOut(a)
  \/ AgentStep
  \/ ChannelDestroyed \/ SessionClosed

Spec == Init /\ [][Next]_vars

(***************************************************************************)
(* A timer that is not cancelled fires and a queued continuation runs:     *)
(* both are promises of the Node event loop.  Nothing is assumed of the    *)
(* agent, the clients or the network.                                      *)
(***************************************************************************)
FairSpec ==
  /\ Spec
  /\ \A a \in Calls : WF_vars(ResumeStep(a)) /\ WF_vars(TimeOut(a))

-----------------------------------------------------------------------------
(* Properties *)

ClientTypes ==
  /\ conn \in [Clients -> {"new", "open", "failing", "gone"}]
  /\ tracked \in [Clients -> BOOLEAN]
  /\ subs \in SUBSET Clients
  /\ status \in Statuses
  /\ ~InMap => subs = {}

LockTypes ==
  /\ holder \in Clients \cup {None}
  /\ view \in [Clients -> Clients \cup {None}]
  /\ asked \in [Clients -> Clients \cup {None}]

AgentTypes ==
  /\ agentUp \in BOOLEAN
  /\ pty \in BOOLEAN
  /\ wire \in Seq(Frames)

CallTypes ==
  /\ pend \in Calls \cup {None}
  /\ st \in [Calls -> {"idle", "waiting", "resolved", "done"}]
  /\ kind \in [Calls -> {"none", "spawn", "attach", "respawn"}]
  /\ who \in [Calls -> Clients \cup {None}]
  /\ res \in [Calls -> {"none", "ok", "notFound", "cached", "failed"}]
  /\ \A a \in Calls : st[a] \in {"waiting", "resolved"} => who[a] \in Clients

\* Types: the variables range over what they stand for, a channel out of ctx.channels has
\* no attached clients, and every call under way knows its client.
TypeOK == ClientTypes /\ LockTypes /\ AgentTypes /\ CallTypes

\* A call of client c has not finished.
Unsettled(c) == \E a \in Calls : who[a] = c

\* An attached client with no request under way knows the holder: WRITE_LOCK broadcasts
\* (write-lock.ts, _broadcastLock) and the message to a newcomer leave no gap, in any
\* order of attaches, detaches, claims, grants and forced takes of several clients.
LockViewsAgree ==
  \A c \in subs : conn[c] = "open" /\ ~Unsettled(c) => view[c] = holder

\* The registered attach handler (pendingRequests in handleAttach) belongs to a call that
\* still waits, so an answer is never spent on a call that has already returned.
HandlerWaits == pend # None => st[pend] = "waiting" /\ kind[pend] = "attach"

\* Whoever is in channel.clients has the channel in its attachedChannels: removeClient
\* walks the latter to clean up the former.
SubscribersTracked == \A c \in subs : tracked[c]

\* An orphan channel has nobody attached: handleAttach and detachClient keep the status
\* and the set of clients in step.
OrphanIsEmpty == status = "orphan" => subs = {}

\* Every SPAWN and ATTACH call returns, although concurrent ATTACHes share one handler
\* slot and each timer removes whatever is in it: none is under way for ever.
CallsSettle == []<>(\A a \in Calls : st[a] \in {"idle", "done"})

=============================================================================
