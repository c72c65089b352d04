--------------------------- MODULE ChannelOutput ---------------------------
(***************************************************************************)
(* What the hub keeps of one channel's output: the output chunker, the     *)
(* spool and its garbage collector, the snapshot scheduler, and the ways a *)
(* channel stops and starts again (exit, destroy, restart, respawn, loss   *)
(* of the agent, restart of the hub), with the clients that follow it.     *)
(*                                                                         *)
(* The hub is one event loop: an action is one callback, or the part of an *)
(* async function between two awaits.  The agent is reduced to what it     *)
(* sends on one ordered connection; its own concurrency is AgentDaemon.    *)
(***************************************************************************)
EXTENDS Integers, Sequences, SequencesExt, FiniteSets

CONSTANTS Clients,
          Calls,          \* concurrent restart and respawn calls
          None,
          MaxConcurrent,  \* DEFAULT_MAX_CONCURRENT_SNAPSHOTS
          MaxOutput,      \* OUTPUT messages (bound)
          MaxRequests,    \* snapshot requests, attaches and spawns (bound)
          MaxSets,        \* sets of clients ever created (bound)
          MaxFaults       \* losses of the agent and restarts of the hub (bound)

ASSUME BoundsAssumption ==
  /\ MaxConcurrent \in Nat \ {0} /\ MaxOutput \in Nat /\ MaxRequests \in Nat
  /\ MaxSets \in Nat \ {0} /\ MaxFaults \in Nat
ASSUME NoneAssumption == None \notin Nat

VARIABLES
  status,    \* status in ctx.channels, "absent" without an entry
  db,        \* status in meta.db
  session,   \* status of the host's session
  set,       \* the Set object that the entry in ctx.channels names as its clients
  members,   \* content of each Set object
  sets,      \* Set objects created so far
  here,      \* connected clients
  lists,     \* clients whose attachedChannels holds the channel
  call,      \* restart and respawn calls under way
  link,      \* the agent is connected
  pty,       \* the agent runs a process for the channel
  dying,     \* destroyed processes whose exit is not reported yet
  wire,      \* messages from the agent to the hub
  made,      \* OUTPUT messages sent so far (bound)
  reqs,      \* requests so far (bound)
  faults,    \* faults so far (bound)
  tracked,   \* the chunker tracks the channel
  buf,       \* chunks of the ChannelBuffer
  nextSeq,   \* ChannelBuffer.nextSeq
  spool,     \* rows of spool.db
  inFlight,  \* _inFlightSnapshots
  armed,     \* _snapshotTimeouts holds a timer
  since,     \* output received since the last snapshot was stored (history)
  unkept,    \* output that was never buffered, or lost with the buffer (history)
  trimmed,   \* the collector has deleted rows since that snapshot (history)
  disturbed  \* the entry was removed or replaced under somebody (history)

entryVars == <<status, db, session, set, members, sets, disturbed>>
clientVars == <<here, lists>>
agentVars == <<link, pty, dying, made, faults>>
spoolVars == <<tracked, buf, nextSeq, spool, since, unkept, trimmed>>
schedVars == <<inFlight, armed, reqs>>
vars == <<entryVars, clientVars, call, agentVars, wire, spoolVars, schedVars>>

Idle == [at |-> "idle", set |-> None]
Sets == 1 .. MaxSets
Row == [seq : Nat, kind : {"output", "snapshot"}, data : Seq(0 .. MaxOutput)]
Messages ==
  [type : {"OUTPUT"}, n : 1 .. MaxOutput]
    \cup [type : {"SNAPSHOT_RES", "ATTACH_OK"}, upTo : 0 .. MaxOutput]
    \cup [type : {"CHANNEL_EXIT"}]
    \cup [type : {"NOT_FOUND"}, by : Clients, set : Sets]
    \cup [type : {"SPAWN_OK", "SPAWN_ERR", "PASSWORD"}, to : Calls]

EntryTypes ==
  /\ status \in {"absent", "live", "orphan", "dead"}
  /\ db \in {"live", "orphan", "dead"}
  /\ session \in {"active", "detached", "disconnected", "closed"}
  /\ set \in Sets /\ sets \in Sets
  /\ members \in [Sets -> SUBSET Clients]
  /\ disturbed \in BOOLEAN

ClientTypes == here \subseteq Clients /\ lists \subseteq here

(* A restart holds a Set of clients or none, a respawn the client that attaches. *)
CallTypes ==
  call \in [Calls -> [at : {"idle"}, set : {None}]
                       \cup [at : {"reconnect", "restart", "prompt"}, set : Sets \cup {None}]
                       \cup [at : {"respawn"}, set : Clients]]

AgentTypes ==
  /\ link \in BOOLEAN /\ pty \in BOOLEAN
  /\ made \in 0 .. MaxOutput
  /\ faults \in 0 .. MaxFaults /\ dying \in Nat
  /\ wire \in Seq(Messages)

SpoolTypes ==
  /\ tracked \in BOOLEAN /\ trimmed \in BOOLEAN
  /\ buf \in Seq(0 .. MaxOutput)
  /\ nextSeq \in Nat \ {0}
  /\ spool \subseteq Row

SchedTypes ==
  /\ inFlight \in 0 .. MaxConcurrent
  /\ armed \in BOOLEAN
  /\ reqs \in 0 .. MaxRequests

TypeOK == EntryTypes /\ ClientTypes /\ CallTypes /\ AgentTypes /\ SpoolTypes /\ SchedTypes

(* A channel that was spawned by a client and is attached to it. *)
Init ==
  /\ \E c \in Clients : members = [s \in Sets |-> IF s = 1 THEN {c} ELSE {}]
                        /\ lists = {c}
  /\ status = "live" /\ db = "live" /\ session = "active"
  /\ set = 1 /\ sets = 1
  /\ here = Clients
  /\ call = [k \in Calls |-> Idle]
  /\ link = TRUE /\ pty = TRUE /\ dying = 0 /\ wire = <<>>
  /\ made = 0 /\ reqs = 0 /\ faults = 0
  /\ tracked = TRUE /\ buf = <<>> /\ nextSeq = 1 /\ spool = {}
  /\ inFlight = 0 /\ armed = FALSE
  /\ since = <<>> /\ unkept = {} /\ trimmed = FALSE /\ disturbed = FALSE

-----------------------------------------------------------------------------
(* Spool.                                                                  *)

Snapshots(rows) == {x \in rows : x.kind = "snapshot"}
MaxSeq(rows) == IF rows = {} THEN 0 ELSE CHOOSE n \in {x.seq : x \in rows} :
                                            \A x \in rows : x.seq <= n
Latest(rows) == {x \in Snapshots(rows) : x.seq = MaxSeq(Snapshots(rows))}

(* getChunksByChannel: the output after a sequence number, in its order. *)
OutputAfter(rows, n) ==
  FlattenSeq([i \in 1 .. Cardinality({x \in rows : x.kind = "output" /\ x.seq > n}) |->
    LET later == {x \in rows : x.kind = "output" /\ x.seq > n} IN
    (CHOOSE x \in later : Cardinality({y \in later : y.seq <= x.seq}) = i).data])

(* The rows after a flush of the buffer, and the next sequence number. *)
Flushed == IF buf = <<>> THEN spool
           ELSE spool \cup {[seq |-> nextSeq, kind |-> "output", data |-> buf]}
FlushedSeq == IF buf = <<>> THEN nextSeq ELSE nextSeq + 1

(* buildAttachPayload: what an attach without the agent replays after the  *)
(* latest snapshot; nothing is replayed while there is none.               *)
CachedTail ==
  IF Snapshots(spool) = {} THEN <<>> ELSE OutputAfter(spool, MaxSeq(Snapshots(spool)))

Track ==
  /\ tracked' = TRUE
  /\ nextSeq' = IF tracked THEN nextSeq ELSE MaxSeq(spool) + 1
  /\ UNCHANGED <<buf, spool, since, unkept, trimmed>>

Untrack ==
  /\ tracked' = FALSE
  /\ spool' = Flushed
  /\ buf' = <<>>
  /\ nextSeq' = FlushedSeq
  /\ UNCHANGED <<since, unkept, trimmed>>

BumpSeqNever(n) == FlushedSeq

(* bumpSeq: a chunk of a tracked channel is numbered after the snapshot. *)
BumpSeq(n) == IF tracked /\ FlushedSeq < n THEN n ELSE FlushedSeq

(* The number of the agent for its output: set when the process starts,   *)
(* and sent with each screen, but never counted up.                        *)
LastSeq == 0

StoreSnapshotFirst(upTo) ==
  /\ spool' = spool \cup {[seq |-> MaxSeq(spool) + 1, kind |-> "snapshot", data |-> <<upTo>>]}
  /\ nextSeq' = BumpSeq(MaxSeq(spool) + 2)
  /\ since' = <<>>
  /\ trimmed' = FALSE
  /\ UNCHANGED <<tracked, buf, unkept>>

(* storeSnapshot: the buffer is flushed first, and the snapshot follows    *)
(* what is in the spool and what the agent has counted.                    *)
StoreSnapshot(upTo) ==
  LET seq == 1 + (IF MaxSeq(Flushed) > LastSeq THEN MaxSeq(Flushed) ELSE LastSeq) IN
  /\ spool' = Flushed \cup {[seq |-> seq, kind |-> "snapshot", data |-> <<upTo>>]}
  /\ nextSeq' = BumpSeq(seq + 1)
  /\ buf' = <<>>
  /\ since' = <<>>
  /\ trimmed' = FALSE
  /\ UNCHANGED <<tracked, unkept>>

(* The flush timer, or the size limit of the buffer. *)
Flush ==
  /\ buf # <<>>
  /\ spool' = Flushed
  /\ nextSeq' = FlushedSeq
  /\ buf' = <<>>
  /\ UNCHANGED <<entryVars, clientVars, call, agentVars, wire, tracked, since, unkept,
                 trimmed, schedVars>>

(* What is left without the rows up to an age, except the latest snapshot, *)
(* and without the oldest output over the size limit.                      *)
Kept(rows, age, size) ==
  {x \in rows : /\ x.seq > age \/ x \in Latest(rows)
                /\ x.seq > size \/ x.kind = "snapshot"}

(* collect: by age, then by size, then everything of a channel long dead.  *)
(* Once between two snapshots (bound).                                     *)
Collect ==
  /\ spool # {}
  /\ ~trimmed
  /\ \E age, size \in {0} \cup {x.seq : x \in spool}, expired \in BOOLEAN :
       /\ expired => db = "dead"
       /\ spool' = IF expired THEN {} ELSE Kept(spool, age, size)
       /\ spool' # spool
  /\ trimmed' = TRUE
  /\ UNCHANGED <<entryVars, clientVars, call, agentVars, wire, tracked, buf, nextSeq, since,
                 unkept, schedVars>>

-----------------------------------------------------------------------------
(* Snapshot scheduler.                                                     *)

(* A request takes a slot and replaces the channel's timeout. *)
RequestSnapshot ==
  IF inFlight < MaxConcurrent /\ status # "absent" /\ link
    THEN inFlight' = inFlight + 1 /\ armed' = TRUE /\ reqs' = reqs + 1
    ELSE UNCHANGED schedVars

MayRequest == reqs < MaxRequests

(* The agent answers with its screen, or not at all. *)
AnswerSnapshot ==
  wire' = IF inFlight < MaxConcurrent /\ status # "absent" /\ link /\ pty
            THEN Append(wire, [type |-> "SNAPSHOT_RES", upTo |-> made])
            ELSE wire

(* The idle or the forced timer of a tracked channel. *)
SnapshotTimer ==
  /\ tracked
  /\ MayRequest
  /\ RequestSnapshot
  /\ AnswerSnapshot \/ UNCHANGED wire
  /\ UNCHANGED <<entryVars, clientVars, call, agentVars, spoolVars>>

SnapshotTimeout ==
  /\ armed
  /\ armed' = FALSE
  /\ inFlight' = IF inFlight > 0 THEN inFlight - 1 ELSE 0
  /\ UNCHANGED <<entryVars, clientVars, call, agentVars, wire, spoolVars, reqs>>

-----------------------------------------------------------------------------
(* The agent's messages.                                                   *)

AgentOutput ==
  /\ link /\ pty
  /\ made < MaxOutput
  /\ made' = made + 1
  /\ wire' = Append(wire, [type |-> "OUTPUT", n |-> made + 1])
  /\ UNCHANGED <<entryVars, clientVars, call, link, pty, dying, faults, spoolVars, schedVars>>

(* A process ends, or one that was destroyed is reaped. *)
AgentExit ==
  /\ link
  /\ \/ dying > 0 /\ dying' = dying - 1 /\ UNCHANGED pty
     \/ pty /\ pty' = FALSE /\ UNCHANGED dying
  /\ wire' = Append(wire, [type |-> "CHANNEL_EXIT"])
  /\ UNCHANGED <<entryVars, clientVars, call, link, made, faults, spoolVars, schedVars>>

Message(t) == link /\ wire # <<>> /\ Head(wire).type = t
Consume == wire' = Tail(wire)

(* OUTPUT: broadcast, and buffered only when the chunker tracks the        *)
(* channel, which nothing makes it do again after a restart of the hub.    *)
DeliverOutput ==
  LET n == Head(wire).n IN
  /\ Message("OUTPUT")
  /\ Consume
  /\ since' = Append(since, n)
  /\ buf' = IF tracked THEN Append(buf, n) ELSE buf
  /\ unkept' = IF tracked THEN unkept ELSE unkept \cup {n}
  /\ UNCHANGED <<entryVars, clientVars, call, agentVars, tracked, nextSeq, spool, trimmed,
                 schedVars>>

DeliverSnapshot ==
  /\ Message("SNAPSHOT_RES")
  /\ Consume
  /\ inFlight' = IF inFlight > 0 THEN inFlight - 1 ELSE 0
  /\ armed' = FALSE
  /\ StoreSnapshot(Head(wire).upTo)
  /\ UNCHANGED <<entryVars, clientVars, call, agentVars, reqs>>

DeliverExit ==
  /\ Message("CHANNEL_EXIT")
  /\ Consume
  /\ IF status # "absent" THEN status' = "dead" /\ db' = "dead" ELSE UNCHANGED <<status, db>>
  /\ Untrack
  /\ UNCHANGED <<session, set, members, sets, disturbed, clientVars, call, agentVars, schedVars>>

-----------------------------------------------------------------------------
(* Clients.                                                                *)

(* The agent answers an ATTACH with its screen. *)
Attach(c) ==
  /\ c \in here
  /\ status # "absent"
  /\ MayRequest
  /\ reqs' = reqs + 1
  /\ members' = [members EXCEPT ![set] = @ \cup {c}]
  /\ lists' = lists \cup {c}
  /\ status' = IF status = "orphan" THEN "live" ELSE status
  /\ db' = IF status = "orphan" THEN "live" ELSE db
  /\ IF link
       THEN wire' = Append(wire, IF pty THEN [type |-> "ATTACH_OK", upTo |-> made]
                                 ELSE [type |-> "NOT_FOUND", by |-> c, set |-> set])
       ELSE UNCHANGED wire
  /\ UNCHANGED <<session, set, sets, disturbed, here, call, agentVars, spoolVars, inFlight, armed>>

DeliverAttached ==
  /\ Message("ATTACH_OK")
  /\ Consume
  /\ StoreSnapshot(Head(wire).upTo)
  /\ UNCHANGED <<entryVars, clientVars, call, agentVars, schedVars>>

(* retireChannel, then the caller's own attachment is undone. *)
DeliverNotFound ==
  LET m == Head(wire) IN
  /\ Message("NOT_FOUND")
  /\ Consume
  /\ status' = "absent"
  /\ db' = "dead"
  /\ lists' = lists \ ((IF status # "absent" THEN members[set] ELSE {}) \cup {m.by})
  /\ members' = [members EXCEPT ![m.set] = @ \ {m.by}]
  /\ disturbed' = (disturbed \/ m.set # set \/ \E k \in Calls : call[k] # Idle)
  /\ Untrack
  /\ UNCHANGED <<session, set, sets, here, call, agentVars, schedVars>>

(* detachClient: the last client makes a live channel an orphan, asks for  *)
(* a snapshot and lets the session become detached.                        *)
DetachEffect(c) ==
  LET last == status = "live" /\ members[set] \subseteq {c} IN
  /\ members' = IF status = "absent" THEN members ELSE [members EXCEPT ![set] = @ \ {c}]
  /\ lists' = lists \ {c}
  /\ IF last
       THEN /\ MayRequest
            /\ status' = "orphan" /\ db' = "orphan"
            /\ RequestSnapshot
            /\ AnswerSnapshot \/ UNCHANGED wire
            /\ session' = IF session = "active" THEN "detached" ELSE session
       ELSE UNCHANGED <<status, db, session, wire, schedVars>>
  /\ UNCHANGED <<set, sets, disturbed, call, agentVars, spoolVars>>

Detach(c) ==
  /\ c \in lists
  /\ DetachEffect(c)
  /\ UNCHANGED here

Disconnect(c) ==
  /\ c \in here
  /\ IF c \in lists THEN DetachEffect(c)
     ELSE UNCHANGED <<entryVars, lists, call, agentVars, wire, spoolVars, schedVars>>
  /\ here' = here \ {c}

-----------------------------------------------------------------------------
(* destroyChannel, closeSession.                                           *)

Destroy ==
  /\ status # "absent"
  /\ status' = "absent" /\ db' = "dead"
  /\ IF link /\ pty THEN pty' = FALSE /\ dying' = dying + 1 ELSE UNCHANGED <<pty, dying>>
  /\ disturbed' = TRUE
  /\ Untrack
  /\ UNCHANGED <<session, set, members, sets, clientVars, call, link, made, faults, wire,
                 schedVars>>

CloseSession ==
  /\ session # "closed"
  /\ session' = "closed"
  /\ IF status \in {"live", "orphan"}
       THEN status' = "dead" /\ db' = "dead" /\ Untrack
       ELSE UNCHANGED <<status, db, spoolVars>>
  /\ UNCHANGED <<set, members, sets, disturbed, clientVars, call, agentVars, wire, schedVars>>

-----------------------------------------------------------------------------
(* restartChannel and respawnDeadChannel.                                  *)

Finish(k) == call' = [call EXCEPT ![k] = Idle]

(* A request id is not used again while an answer to it is under way. *)
Fresh(k) ==
  /\ call[k] = Idle
  /\ \A i \in DOMAIN wire :
       wire[i].type \in {"SPAWN_OK", "SPAWN_ERR", "PASSWORD"} => wire[i].to # k

(* The agent gets DESTROY and SPAWN on one connection, in this order. *)
AgentSpawn(k, destroy) ==
  LET gone == destroy /\ pty IN
  /\ MayRequest
  /\ reqs' = reqs + 1
  /\ dying' = dying + (IF gone THEN 1 ELSE 0)
  /\ \/ /\ ~pty \/ gone
        /\ pty' = TRUE
        /\ wire' = Append(wire, [type |-> "SPAWN_OK", to |-> k])
     \/ /\ pty' = (pty /\ ~gone)
        /\ \E t \in {"SPAWN_ERR", "PASSWORD"} : wire' = Append(wire, [type |-> t, to |-> k])

(* The set of clients is read before the first await. *)
Restart(k) ==
  LET held == IF status = "absent" THEN None ELSE set IN
  /\ Fresh(k)
  /\ IF link
       THEN /\ session \in {"active", "detached"}
            /\ call' = [call EXCEPT ![k] = [at |-> "restart", set |-> held]]
            /\ AgentSpawn(k, status \in {"live", "orphan"})
       ELSE /\ call' = [call EXCEPT ![k] = [at |-> "reconnect", set |-> held]]
            /\ UNCHANGED <<pty, dying, wire, reqs>>
  /\ sets < MaxSets
  /\ UNCHANGED <<entryVars, clientVars, link, made, faults, spoolVars, inFlight, armed>>

(* After onReconnectAgent: without a session or an agent it returns false. *)
RestartReconnected(k) ==
  /\ call[k].at = "reconnect"
  /\ IF link /\ session \in {"active", "detached"}
       THEN call' = [call EXCEPT ![k].at = "restart"] /\ AgentSpawn(k, FALSE)
       ELSE Finish(k) /\ UNCHANGED <<pty, dying, wire, reqs>>
  /\ UNCHANGED <<entryVars, clientVars, link, made, faults, spoolVars, inFlight, armed>>

(* An elevated channel needs a password: the client is asked, and a second *)
(* SPAWN is sent with it, or the prompt is cancelled.                      *)
DeliverPassword ==
  LET k == Head(wire).to IN
  /\ Message("PASSWORD")
  /\ Consume
  /\ IF call[k].at = "restart" THEN call' = [call EXCEPT ![k].at = "prompt"]
     ELSE Finish(k)
  /\ UNCHANGED <<entryVars, clientVars, agentVars, spoolVars, schedVars>>

RestartAnswered(k) ==
  /\ call[k].at = "prompt"
  /\ IF link THEN call' = [call EXCEPT ![k].at = "restart"] /\ AgentSpawn(k, FALSE)
     ELSE Finish(k) /\ UNCHANGED <<pty, dying, wire, reqs>>
  /\ UNCHANGED <<entryVars, clientVars, link, made, faults, spoolVars, inFlight, armed>>

(* respawnDeadChannel, from an ATTACH of a channel that has no entry. *)
Respawn(k, c) ==
  /\ Fresh(k)
  /\ c \in here
  /\ status = "absent" /\ db = "dead"
  /\ session = "active" /\ link
  /\ sets < MaxSets
  /\ call' = [call EXCEPT ![k] = [at |-> "respawn", set |-> c]]
  /\ AgentSpawn(k, FALSE)
  /\ UNCHANGED <<entryVars, clientVars, link, made, faults, spoolVars, inFlight, armed>>

(* SPAWN_ERR, the timeout of the SPAWN, or a cancelled prompt. *)
CallFails(k) ==
  /\ \/ call[k].at \in {"restart", "prompt", "respawn"} /\ UNCHANGED wire
     \/ Message("SPAWN_ERR") /\ Head(wire).to = k /\ Consume
  /\ Finish(k)
  /\ UNCHANGED <<entryVars, clientVars, agentVars, spoolVars, schedVars>>

InstallEmpty(s) ==
  set' = sets + 1 /\ sets' = sets + 1 /\ UNCHANGED members

(* applyRestartState installs the Set it holds, or an empty one. *)
Install(s) ==
  IF s # None THEN set' = s /\ UNCHANGED <<members, sets>>
  ELSE sets < MaxSets /\ set' = sets + 1 /\ sets' = sets + 1 /\ UNCHANGED members

RestartOk ==
  LET k == Head(wire).to IN
  /\ Message("SPAWN_OK") /\ call[k].at = "restart"
  /\ Consume
  /\ status' = "live" /\ db' = "live"
  /\ Install(call[k].set)
  /\ disturbed' = (disturbed \/ (IF status = "absent" THEN None ELSE set) # call[k].set)
  /\ session' = IF session = "detached" THEN "active" ELSE session
  /\ Track
  /\ Finish(k)
  /\ UNCHANGED <<clientVars, agentVars, schedVars>>

(* The respawned channel gets a new Set with the client of the ATTACH. *)
RespawnOk ==
  LET k == Head(wire).to  c == call[Head(wire).to].set IN
  /\ Message("SPAWN_OK") /\ call[k].at = "respawn"
  /\ sets < MaxSets
  /\ Consume
  /\ status' = "live" /\ db' = "live"
  /\ set' = sets + 1 /\ sets' = sets + 1
  /\ members' = [members EXCEPT ![sets + 1] = {c}]
  /\ lists' = IF c \in here THEN lists \cup {c} ELSE lists
  /\ disturbed' = (disturbed \/ lists # {} \/ c \notin here)
  /\ Track
  /\ Finish(k)
  /\ UNCHANGED <<session, here, agentVars, schedVars>>

(* The answer to a call that has timed out has no handler. *)
LateAnswer ==
  /\ wire # <<>> /\ Head(wire).type \in {"SPAWN_OK", "SPAWN_ERR", "PASSWORD"}
  /\ call[Head(wire).to].at \notin {"restart", "respawn"}
  /\ link
  /\ Consume
  /\ UNCHANGED <<entryVars, clientVars, call, agentVars, spoolVars, schedVars>>

-----------------------------------------------------------------------------
(* The agent's connection and the hub's own restart.                       *)

LinkDown ==
  /\ link
  /\ faults < MaxFaults
  /\ faults' = faults + 1
  /\ link' = FALSE
  /\ wire' = <<>>
  /\ session' = IF session = "closed" THEN session ELSE "disconnected"
  /\ UNCHANGED <<status, db, set, members, sets, disturbed, clientVars, call, pty, dying,
                 made, spoolVars, schedVars>>

(* reconcileChannelState with what the daemon reports, then active. *)
Reconcile ==
  CASE pty /\ status = "orphan" -> status' = "live" /\ db' = "live"
    [] ~pty /\ status \in {"live", "orphan"} -> status' = "dead" /\ db' = "dead"
    [] OTHER -> UNCHANGED <<status, db>>

LinkUp ==
  /\ ~link
  /\ session = "disconnected"
  /\ link' = TRUE
  /\ session' = "active"
  /\ Reconcile
  /\ UNCHANGED <<set, members, sets, disturbed, clientVars, call, pty, dying, made, faults,
                 wire, spoolVars, schedVars>>

(* spawnChannelsForHost after a reconciliation: a channel that is not dead *)
(* has its process, and the agent refuses to spawn another under its id.   *)
SpawnChannels ==
  /\ status' = IF status = "absent" THEN status ELSE "dead"
  /\ db' = IF status = "absent" THEN db ELSE "dead"

(* The first attach to the daemon fails, the warm restart succeeds. *)
WarmRestart ==
  /\ ~link
  /\ session = "disconnected"
  /\ link' = TRUE
  /\ session' = "active"
  /\ SpawnChannels
  /\ UNCHANGED <<set, members, sets, disturbed, clientVars, call, pty, dying, made, faults,
                 wire, spoolVars, schedVars>>

(* The hub stops, with a last flush or without, and starts: the channels   *)
(* of meta.db that are not dead return as orphans.                         *)
HubRestart ==
  /\ faults < MaxFaults
  /\ sets < MaxSets
  /\ faults' = faults + 1
  /\ \/ spool' = Flushed /\ UNCHANGED unkept
     \/ spool' = spool /\ unkept' = unkept \cup ToSet(buf)
  /\ buf' = <<>> /\ nextSeq' = 1 /\ tracked' = FALSE
  /\ inFlight' = 0 /\ armed' = FALSE
  /\ link' = FALSE /\ wire' = <<>>
  /\ session' = IF session = "closed" THEN session ELSE "disconnected"
  /\ status' = IF db = "dead" \/ session = "closed" THEN "absent" ELSE "orphan"
  /\ db' = IF db = "dead" \/ session = "closed" THEN "dead" ELSE "orphan"
  /\ set' = sets + 1 /\ sets' = sets + 1
  /\ here' = {} /\ lists' = {}
  /\ call' = [k \in Calls |-> Idle]
  /\ UNCHANGED <<members, disturbed, pty, dying, made, since, trimmed, reqs>>

Connect(c) ==
  /\ c \notin here
  /\ here' = here \cup {c}
  /\ UNCHANGED <<entryVars, lists, call, agentVars, wire, spoolVars, schedVars>>

-----------------------------------------------------------------------------
ClientStep(c) == Attach(c) \/ Detach(c) \/ Disconnect(c) \/ Connect(c)

CallStep(k) ==
  \/ Restart(k) \/ RestartReconnected(k) \/ RestartAnswered(k) \/ CallFails(k)
  \/ \E c \in Clients : Respawn(k, c)

Deliver ==
  \/ DeliverOutput \/ DeliverSnapshot \/ DeliverExit \/ DeliverAttached \/ DeliverNotFound
  \/ DeliverPassword \/ RestartOk \/ RespawnOk \/ LateAnswer

Next ==
  \/ \E c \in Clients : ClientStep(c)
  \/ \E k \in Calls : CallStep(k)
  \/ Deliver
  \/ AgentOutput \/ AgentExit
  \/ Flush \/ Collect \/ SnapshotTimer \/ SnapshotTimeout
  \/ Destroy \/ CloseSession
  \/ LinkDown \/ LinkUp \/ WarmRestart \/ HubRestart

Spec == Init /\ [][Next]_vars

-----------------------------------------------------------------------------
(* Properties.                                                             *)

(* Two rows of the spool never get the same number, and the chunker's next *)
(* number is free: an insert would fail on the UNIQUE constraint of        *)
(* spool.db although flushes, snapshots, deletions, restarts of the        *)
(* channel and of the hub all move the two counters.                       *)
SeqFresh ==
  /\ \A x, y \in spool : x.seq = y.seq => x = y
  /\ tracked => MaxSeq(spool) < nextSeq

(* What a cached replay adds to the latest snapshot, with what is still    *)
(* buffered, is the output received since that snapshot was stored: in     *)
(* order, nothing twice, and all of it but the part the hub has lost (it   *)
(* came while the chunker did not track the channel, or was in the buffer  *)
(* of a hub that died); the newest part of it when the collector has       *)
(* deleted rows.                                                           *)
TailIsSuffix ==
  LET kept == SelectSeq(since, LAMBDA n : n \notin unkept)
      tail == CachedTail \o buf IN
  Snapshots(spool) # {} => /\ IsSuffix(tail, kept)
                           /\ ~trimmed => tail = kept

(* The clients of a channel are the connected clients that list it,        *)
(* whatever attaches, detaches or leaves while a restart waits for the     *)
(* agent, unless the entry was destroyed or replaced meanwhile:            *)
(* applyRestartState installs the Set that all of them share.              *)
RestartKeepsClients ==
  status # "absent" /\ ~disturbed => members[set] = lists

=============================================================================
