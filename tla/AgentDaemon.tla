---------------------------- MODULE AgentDaemon ----------------------------
(***************************************************************************)
(* The Rust agent in daemon mode (crates/lasterm-agent): the channel table *)
(* behind the manager lock, one reader task per process, one handler task  *)
(* per hub connection, the output path (reader, batch loop, router) and    *)
(* the shutdown of the daemon.                                             *)
(*                                                                         *)
(* Tasks run in parallel.  An action is what a task does between two       *)
(* awaits that can be delayed; the awaits that matter are the manager      *)
(* lock, which a reader keeps while it waits for a process to end, and the *)
(* hub's messages.  A handler that is not waiting for a message is not     *)
(* listening for its displacement either: notify_waiters() wakes only      *)
(* tasks that wait.                                                        *)
(***************************************************************************)
EXTENDS Integers, Sequences, FiniteSets

CONSTANTS Ids,          \* channel ids, chosen by the hub and used again
          Procs,        \* processes, each spawned at most once
          Conns,        \* hub connections, numbered in the order of accept()
          None,
          MaxOutput,    \* chunks that a process writes (bound)
          MaxQueue,     \* MAX_FRAME_QUEUE
          MaxRequests,  \* messages from hubs (bound)
          MaxEvents     \* messages from hubs and chunks together (bound)

ASSUME ConnsAssumption == Conns \subseteq Nat
ASSUME NoneAssumption == None \notin Ids \cup Procs \cup Conns \cup {0, 1}
ASSUME BoundsAssumption == MaxOutput \in Nat /\ MaxQueue \in Nat \ {0} /\ MaxRequests \in Nat /\ MaxEvents \in Nat

VARIABLES
  mgr,      \* PtyManager.channels: id -> process
  lock,     \* holder of the manager lock across an await: a reader, "sweep" or None
  sender,   \* cmd_senders: id -> process whose reader receives the commands
  proc,     \* life of each process
  idOf,     \* channel id a process was spawned under
  rdr,      \* position of each reader task, named by the process of its SPAWN
  reads,    \* process whose terminal a reader task reads
  conn,     \* position of each connection handler
  req,      \* message a handler is working on
  arg,      \* process a handler has spawned, or whose reader it asked for a snapshot
  open,     \* frames reach the hub: its end is open and the writer task runs
  active,   \* active_conn
  sent,     \* OUTPUT frames written to each connection
  count,    \* chunks read from each process
  hand,     \* chunk a reader has read and not yet queued, 0 if none
  batch,    \* ChannelBuffer of each id: chunks not yet flushed
  pending,  \* frames the router keeps while no hub is connected
  daemon,   \* "running", "stopping", "sweeping", "swept" or "stopped"
  swept,    \* processes found by destroy_all()
  unsure,   \* DestroyAllSummary.unresolved
  status,   \* exit status of the daemon
  asked,    \* messages received so far (bound)
  events    \* messages received and chunks read so far (bound)

ptyVars  == <<mgr, lock, sender, proc, idOf, rdr, reads>>
connVars == <<conn, req, arg, open, active>>
outVars  == <<count, hand, batch, pending>>
stopVars == <<daemon, swept, unsure, status>>
msgVars  == <<sent, asked, events>>
vars == <<ptyVars, connVars, outVars, stopVars, msgVars>>

Ops == {"SPAWN", "DESTROY", "ATTACH"}
Unanswered == [op |-> None, id |-> None]
(* A chunk: its process, its number, and whether the task that queued it    *)
(* was the only one ever to read the process.                              *)
Chunks == Procs \X (1 .. MaxOutput) \X BOOLEAN
Gone == {"exited", "reaped"}

PtyTypes ==
  /\ mgr \in [Ids -> Procs \cup {None}]
  /\ lock \in Procs \cup {None, "sweep"}
  /\ sender \in [Ids -> Procs \cup {None}]
  /\ proc \in [Procs -> {"unborn", "running", "killed"} \cup Gone]
  /\ idOf \in [Procs -> Ids \cup {None}]
  /\ rdr \in [Procs -> {"none", "reading", "waiting", "locked", "reaping", "done"}]
  /\ reads \in [Procs -> Procs \cup {None}]
  /\ \A p \in Procs : rdr[p] # "none" => reads[p] # None

(* What a handler holds while it works on a message. *)
ConnLocals ==
  \A c \in Conns :
    /\ conn[c] \in {"busy", "spawned", "snapshot"} => req[c] \in [op : Ops, id : Ids]
    /\ conn[c] \in {"spawned", "snapshot"} => arg[c] \in Procs

ConnTypes ==
  /\ conn \in [Conns -> {"unused", "auth", "read", "busy", "spawned", "snapshot", "closed"}]
  /\ req \in [Conns -> [op : Ops, id : Ids] \cup {Unanswered}]
  /\ arg \in [Conns -> Procs \cup {None}]
  /\ open \in [Conns -> BOOLEAN]
  /\ active \in Conns \cup {None}
  /\ ConnLocals

OutTypes ==
  /\ count \in [Procs -> 0 .. MaxOutput]
  /\ hand \in [Procs -> 0 .. MaxOutput]
  /\ batch \in [Ids -> Seq(Chunks)]
  /\ pending \in Seq(Seq(Chunks))
  /\ Len(pending) <= MaxQueue

StopTypes ==
  /\ daemon \in {"running", "stopping", "sweeping", "swept", "stopped"}
  /\ swept \subseteq Procs
  /\ unsure \subseteq swept
  /\ status \in {0, 1, None}

MsgTypes ==
  /\ sent \in [Conns -> Seq(Seq(Chunks))]
  /\ asked \in 0 .. MaxRequests
  /\ events \in 0 .. MaxEvents

TypeOK == PtyTypes /\ ConnTypes /\ OutTypes /\ StopTypes /\ MsgTypes

Init ==
  /\ mgr = [i \in Ids |-> None]
  /\ lock = None
  /\ sender = [i \in Ids |-> None]
  /\ proc = [p \in Procs |-> "unborn"]
  /\ idOf = [p \in Procs |-> None]
  /\ rdr = [p \in Procs |-> "none"]
  /\ reads = [p \in Procs |-> None]
  /\ conn = [c \in Conns |-> "unused"]
  /\ req = [c \in Conns |-> Unanswered]
  /\ arg = [c \in Conns |-> None]
  /\ open = [c \in Conns |-> FALSE]
  /\ active = None
  /\ sent = [c \in Conns |-> <<>>]
  /\ count = [p \in Procs |-> 0]
  /\ hand = [p \in Procs |-> 0]
  /\ batch = [i \in Ids |-> <<>>]
  /\ pending = <<>>
  /\ daemon = "running"
  /\ swept = {}
  /\ unsure = {}
  /\ status = None
  /\ asked = 0
  /\ events = 0

Alive == daemon # "stopped"

-----------------------------------------------------------------------------
(* Frames.  A frame sent to a connection whose writer is gone, or whose    *)
(* hub has left, is lost without an error.  Of what is sent, the output is *)
(* kept; replies and reports change no state of the agent.                 *)

Send(c, frames) ==
  sent' = IF open[c] THEN [sent EXCEPT ![c] = @ \o frames] ELSE sent

-----------------------------------------------------------------------------
(* Connections.                                                            *)

(* The accept loop displaces the previous connection and registers the new *)
(* one before its handler runs.  The displaced handler stops if it waits   *)
(* for a message, its writer unless it is in the middle of a write.        *)
Accept(c) ==
  /\ daemon = "running"
  /\ conn[c] = "unused"
  /\ \A d \in Conns : d < c => conn[d] # "unused"
  /\ \E stops \in BOOLEAN :
        open' = [d \in Conns |-> IF d = c THEN TRUE ELSE open[d] /\ ~(d = active /\ stops)]
  /\ conn' = [d \in Conns |-> IF d = c THEN "auth"
                              ELSE IF d = active /\ conn[d] = "read" THEN "closed" ELSE conn[d]]
  /\ active' = c
  /\ UNCHANGED <<ptyVars, outVars, stopVars, req, arg, msgVars>>

ClearActiveAlways(c) == active' = None

(* clear_active_if_ours: the slot may already belong to a newer connection. *)
ClearActive(c) == active' = IF active = c THEN None ELSE active

Close(c) ==
  /\ conn' = [conn EXCEPT ![c] = "closed"]
  /\ ClearActive(c)

(* After HELLO, a valid AUTH or none needed: the channel table is reported *)
(* under the manager lock, and the read loop starts.  Without a writer the *)
(* report fails and the connection ends.                                   *)
Authenticated(c) ==
  /\ Alive
  /\ conn[c] = "auth"
  /\ lock = None
  /\ IF open[c]
       THEN conn' = [conn EXCEPT ![c] = "read"] /\ UNCHANGED active
       ELSE Close(c)
  /\ UNCHANGED <<ptyVars, outVars, stopVars, req, arg, open, msgVars>>

(* AUTH is wrong or does not come in time; the writer ends with the        *)
(* handler, the only owner of its queue.                                   *)
AuthFails(c) ==
  /\ Alive
  /\ conn[c] = "auth"
  /\ Close(c)
  /\ open' = [open EXCEPT ![c] = FALSE]
  /\ UNCHANGED <<ptyVars, outVars, stopVars, req, arg, msgVars>>

(* The hub closes its end. *)
HubLeaves(c) ==
  /\ Alive
  /\ open[c]
  /\ open' = [open EXCEPT ![c] = FALSE]
  /\ UNCHANGED <<ptyVars, outVars, stopVars, conn, req, arg, active, msgVars>>

(* The read loop sees the end of the stream. *)
ReadEnds(c) ==
  /\ Alive
  /\ conn[c] = "read"
  /\ ~open[c]
  /\ Close(c)
  /\ UNCHANGED <<ptyVars, outVars, stopVars, req, arg, open, msgVars>>

(* The read loop takes a message; while it is handled the task does not    *)
(* listen for its displacement.                                            *)
Receive(c, op, i) ==
  /\ Alive
  /\ conn[c] = "read"
  /\ asked < MaxRequests
  /\ events < MaxEvents
  /\ asked' = asked + 1
  /\ events' = events + 1
  /\ conn' = [conn EXCEPT ![c] = "busy"]
  /\ req' = [req EXCEPT ![c] = [op |-> op, id |-> i]]
  /\ UNCHANGED <<ptyVars, outVars, stopVars, arg, open, active, sent>>

Handling(c, op) ==
  /\ Alive
  /\ conn[c] = "busy"
  /\ req[c].op = op

(* The handler returns to the read loop. *)
Handled(c) ==
  /\ conn' = [conn EXCEPT ![c] = "read"]
  /\ req' = [req EXCEPT ![c] = Unanswered]
  /\ arg' = [arg EXCEPT ![c] = None]
  /\ UNCHANGED <<open, active>>

-----------------------------------------------------------------------------
(* SPAWN.                                                                  *)

CanSpawnAlways(i) == mgr[i] = None

(* PtyManager.spawn refuses while shutting down and when the id is taken.  *)
CanSpawn(i) == daemon \in {"running", "stopping"} /\ mgr[i] = None

SpawnProcess(c, p) ==
  LET i == req[c].id IN
  /\ Handling(c, "SPAWN")
  /\ lock = None
  /\ CanSpawn(i)
  /\ proc[p] = "unborn"
  /\ proc' = [proc EXCEPT ![p] = "running"]
  /\ mgr' = [mgr EXCEPT ![i] = p]
  /\ idOf' = [idOf EXCEPT ![p] = i]
  /\ conn' = [conn EXCEPT ![c] = "spawned"]
  /\ arg' = [arg EXCEPT ![c] = p]
  /\ UNCHANGED <<outVars, stopVars, lock, sender, rdr, reads, req, open, active, msgVars>>

(* SPAWN_ERR: refused, or elevation or the shell cannot be started. *)
SpawnErr(c) ==
  /\ Handling(c, "SPAWN")
  /\ lock = None
  /\ Handled(c)
  /\ UNCHANGED <<ptyVars, outVars, stopVars, msgVars>>

(* The second half of handle_spawn.  The lock was free in between: the     *)
(* channel may have been swept or destroyed, and spawned again by a newer  *)
(* connection.  The task reads whichever process is registered now; its    *)
(* SPAWN_OK is queued before it starts.                                    *)
StartReader(c) ==
  LET p == arg[c]  i == req[c].id IN
  /\ Alive
  /\ conn[c] = "spawned"
  /\ lock = None
  /\ Handled(c)
  /\ IF mgr[i] # None
       THEN /\ sender' = [sender EXCEPT ![i] = p]
            /\ rdr' = [rdr EXCEPT ![p] = "reading"]
            /\ reads' = [reads EXCEPT ![p] = mgr[i]]
       ELSE UNCHANGED <<sender, rdr, reads>>
  /\ UNCHANGED <<outVars, stopVars, mgr, lock, proc, idOf, msgVars>>

-----------------------------------------------------------------------------
(* DESTROY, ATTACH.                                                        *)

(* start_teardown on a registered process: the tree is signalled and the   *)
(* process leaves the table; a process whose exit was already observed     *)
(* just leaves it.                                                         *)
Signal(p) == IF proc[p] = "running" THEN "killed" ELSE proc[p]

Destroy(c) ==
  LET i == req[c].id IN
  /\ Handling(c, "DESTROY")
  /\ lock = None
  /\ Handled(c)
  /\ mgr' = [mgr EXCEPT ![i] = None]
  /\ proc' = IF mgr[i] # None THEN [proc EXCEPT ![mgr[i]] = Signal(mgr[i])] ELSE proc
  /\ UNCHANGED <<outVars, stopVars, lock, sender, idOf, rdr, reads, msgVars>>

(* The signal cannot be sent: the process stays registered. *)
DestroyFails(c) ==
  /\ Handling(c, "DESTROY")
  /\ lock = None
  /\ mgr[req[c].id] # None
  /\ proc[mgr[req[c].id]] # "reaped"
  /\ Handled(c)
  /\ UNCHANGED <<ptyVars, outVars, stopVars, msgVars>>

(* ATTACH and SNAPSHOT_REQ ask the reader that is registered for the id.   *)
AskReader(c) ==
  LET i == req[c].id IN
  /\ Handling(c, "ATTACH")
  /\ sender[i] # None
  /\ conn' = [conn EXCEPT ![c] = "snapshot"]
  /\ arg' = [arg EXCEPT ![c] = sender[i]]
  /\ UNCHANGED <<ptyVars, outVars, stopVars, req, open, active, msgVars>>

AttachNotFound(c) ==
  /\ Handling(c, "ATTACH")
  /\ sender[req[c].id] = None
  /\ Handled(c)
  /\ UNCHANGED <<ptyVars, outVars, stopVars, msgVars>>

(* The reader answers; the sequence number is read under the manager lock. *)
AttachOk(c) ==
  /\ Alive
  /\ conn[c] = "snapshot"
  /\ rdr[arg[c]] = "reading"
  /\ lock = None
  /\ Handled(c)
  /\ UNCHANGED <<ptyVars, outVars, stopVars, msgVars>>

(* The reader task ended with the question in its queue: nothing is sent. *)
AttachDropped(c) ==
  /\ Alive
  /\ conn[c] = "snapshot"
  /\ rdr[arg[c]] = "done"
  /\ Handled(c)
  /\ UNCHANGED <<ptyVars, outVars, stopVars, msgVars>>

-----------------------------------------------------------------------------
(* Processes and their readers.                                            *)

ProcessExits(p) ==
  /\ Alive
  /\ proc[p] \in {"running", "killed"}
  /\ proc' = [proc EXCEPT ![p] = "exited"]
  /\ UNCHANGED <<connVars, outVars, stopVars, mgr, lock, sender, idOf, rdr, reads, msgVars>>

(* The reader tasks of one process take turns at its output: two tasks     *)
(* read the same process after the race in StartReader.                    *)
ReadOutput(r) ==
  LET p == reads[r] IN
  /\ Alive
  /\ rdr[r] = "reading"
  /\ hand[r] = 0
  /\ count[p] < MaxOutput
  /\ events < MaxEvents
  /\ events' = events + 1
  /\ count' = [count EXCEPT ![p] = @ + 1]
  /\ hand' = [hand EXCEPT ![r] = count[p] + 1]
  /\ UNCHANGED <<ptyVars, connVars, stopVars, batch, pending, sent, asked>>

Alone(r) == \A s \in Procs \ {r} : reads[s] # reads[r]
InHand(r) == <<reads[r], hand[r], Alone(r)>>

(* The chunk is mirrored and queued for the batch loop under the id of the *)
(* SPAWN, without an await in between; other tasks run in parallel.        *)
QueueOutput(r) ==
  /\ Alive
  /\ rdr[r] = "reading"
  /\ hand[r] # 0
  /\ hand' = [hand EXCEPT ![r] = 0]
  /\ batch' = [batch EXCEPT ![idOf[r]] = Append(@, InHand(r))]
  /\ UNCHANGED <<ptyVars, connVars, stopVars, count, pending, msgVars>>

(* The read loop ends at end of file (a process may close its terminal and *)
(* go on), at an error, or when its command queue is closed because the    *)
(* table of senders names another reader.  The task then removes the       *)
(* sender registered for its id, whoever it belongs to.                    *)
ReaderEnds(r) ==
  /\ Alive
  /\ rdr[r] = "reading"
  /\ hand[r] = 0
  /\ rdr' = [rdr EXCEPT ![r] = "waiting"]
  /\ sender' = [sender EXCEPT ![idOf[r]] = None]
  /\ UNCHANGED <<connVars, outVars, stopVars, mgr, lock, proc, idOf, reads, msgVars>>

(* wait_for_reader_exit takes the lock; it keeps it while it waits for the *)
(* process that is registered under the id, if there is one.               *)
ReaderWaits(p) ==
  /\ Alive
  /\ rdr[p] = "waiting"
  /\ lock = None
  /\ IF mgr[idOf[p]] # None
       THEN lock' = p /\ rdr' = [rdr EXCEPT ![p] = "locked"]
       ELSE lock' = None /\ rdr' = [rdr EXCEPT ![p] = "reaping"]
  /\ UNCHANGED <<connVars, outVars, stopVars, mgr, sender, proc, idOf, reads, msgVars>>

ReaderWaited(p) ==
  LET q == mgr[idOf[p]] IN
  /\ Alive
  /\ rdr[p] = "locked"
  /\ proc[q] \in Gone
  /\ lock' = None
  /\ rdr' = [rdr EXCEPT ![p] = "reaping"]
  /\ proc' = [proc EXCEPT ![q] = "reaped"]
  /\ UNCHANGED <<connVars, outVars, stopVars, mgr, sender, idOf, reads, msgVars>>

(* The lock is taken again to remove the channel; the exit is reported on  *)
(* the connection of the SPAWN.                                            *)
ReaderReaps(p) ==
  /\ Alive
  /\ rdr[p] = "reaping"
  /\ lock = None
  /\ mgr' = [mgr EXCEPT ![idOf[p]] = None]
  /\ rdr' = [rdr EXCEPT ![p] = "done"]
  /\ UNCHANGED <<connVars, outVars, stopVars, lock, sender, proc, idOf, reads, msgVars>>

-----------------------------------------------------------------------------
(* Output.  The batch loop flushes the buffer of an id at a tick or when   *)
(* it is full.                                                             *)

RouteNewestFirst(frame) ==
  LET room == IF Len(pending) >= MaxQueue THEN Tail(pending) ELSE pending IN
  IF active # None
    THEN Send(active, <<frame>> \o pending) /\ pending' = <<>>
    ELSE pending' = Append(room, frame) /\ UNCHANGED sent

(* The router sends a frame to the active connection, after what it kept,  *)
(* or keeps it and drops its oldest frame when it is full.                 *)
Route(frame) ==
  LET room == IF Len(pending) >= MaxQueue THEN Tail(pending) ELSE pending IN
  IF active # None
    THEN Send(active, Append(pending, frame)) /\ pending' = <<>>
    ELSE pending' = Append(room, frame) /\ UNCHANGED sent

Flush(i) ==
  /\ Alive
  /\ batch[i] # <<>>
  /\ Route(batch[i])
  /\ batch' = [batch EXCEPT ![i] = <<>>]
  /\ UNCHANGED <<ptyVars, connVars, stopVars, count, hand, asked, events>>

-----------------------------------------------------------------------------
(* Shutdown.                                                               *)

(* SIGTERM: the accept loop stops; the deadline of the signal task runs. *)
StopRequested ==
  /\ daemon = "running"
  /\ daemon' = "stopping"
  /\ UNCHANGED <<ptyVars, connVars, outVars, swept, unsure, status, msgVars>>

(* begin_shutdown and the first half of destroy_all, under the lock: every *)
(* registered process is signalled and removed, except those that could    *)
(* not be signalled.                                                       *)
Sweep ==
  LET found == {mgr[i] : i \in Ids} \ {None} IN
  /\ daemon = "stopping"
  /\ lock = None
  /\ \E failed \in SUBSET {p \in found : proc[p] # "reaped"} :
       /\ unsure' = failed
       /\ mgr' = [i \in Ids |-> IF mgr[i] \in failed THEN mgr[i] ELSE None]
       /\ proc' = [p \in Procs |-> IF p \in found \ failed THEN Signal(p) ELSE proc[p]]
  /\ swept' = found
  /\ lock' = "sweep"
  /\ daemon' = "sweeping"
  /\ UNCHANGED <<connVars, outVars, sender, idOf, rdr, reads, status, msgVars>>

(* Every signalled process was seen to exit, or its wait timed out. *)
SweepConfirmed ==
  /\ daemon = "sweeping"
  /\ unsure' = unsure \cup {p \in swept : proc[p] \notin Gone}
  /\ lock' = None
  /\ daemon' = "swept"
  /\ UNCHANGED <<connVars, outVars, mgr, sender, proc, idOf, rdr, reads, swept, status, msgVars>>

(* The process ends: output that was not sent is lost with it. *)
Exit(code) ==
  /\ daemon' = "stopped"
  /\ status' = code
  /\ hand' = [p \in Procs |-> 0]
  /\ batch' = [i \in Ids |-> <<>>]
  /\ pending' = <<>>
  /\ UNCHANGED <<ptyVars, connVars, count, swept, unsure, msgVars>>

(* The daemon writes its exit record and exits. *)
Stop ==
  /\ daemon = "swept"
  /\ Exit(IF unsure = {} THEN 0 ELSE 1)

(* A second signal, or the deadline: exit without confirmation. *)
ForcedStop ==
  /\ daemon \in {"stopping", "sweeping", "swept"}
  /\ Exit(1)

-----------------------------------------------------------------------------
ConnStep(c) ==
  \/ Accept(c) \/ Authenticated(c) \/ AuthFails(c) \/ HubLeaves(c) \/ ReadEnds(c)
  \/ \E op \in Ops, i \in Ids : Receive(c, op, i)
  \/ \E p \in Procs : SpawnProcess(c, p)
  \/ SpawnErr(c) \/ StartReader(c) \/ Destroy(c) \/ DestroyFails(c)
  \/ AskReader(c) \/ AttachNotFound(c) \/ AttachOk(c) \/ AttachDropped(c)

ProcStep(p) ==
  \/ ProcessExits(p) \/ ReadOutput(p) \/ QueueOutput(p) \/ ReaderEnds(p)
  \/ ReaderWaits(p) \/ ReaderWaited(p) \/ ReaderReaps(p)

StopStep == StopRequested \/ Sweep \/ SweepConfirmed \/ Stop \/ ForcedStop

Next ==
  \/ \E c \in Conns : ConnStep(c)
  \/ \E p \in Procs : ProcStep(p)
  \/ \E i \in Ids : Flush(i)
  \/ StopStep

Spec == Init /\ [][Next]_vars

-----------------------------------------------------------------------------
(* Properties.                                                             *)

(* Two chunks of a process are never the same one, and a chunk queued by   *)
(* the only reader of its process follows all that went before.            *)
Before(x, y) == x[1] = y[1] => x[2] # y[2] /\ (y[3] => x[2] < y[2])

(* Output reaches the hub at most once, and in the order the process wrote *)
(* it as long as one task reads the process: within a frame, across the    *)
(* frames of a connection and across a displacement, although it crosses   *)
(* the batch loop, the router and the frames kept while no hub was         *)
(* connected.  A process whose id was destroyed and spawned again between  *)
(* two halves of an older SPAWN has two readers; their chunks may cross.   *)
OutputInOrder ==
  \A c, d \in Conns : \A k \in DOMAIN sent[c], l \in DOMAIN sent[d] :
    \A x \in DOMAIN sent[c][k], y \in DOMAIN sent[d][l] :
      (c < d \/ (c = d /\ (k < l \/ (k = l /\ x < y))))
        => Before(sent[c][k][x], sent[d][l][y])

(* The active slot always names the newest connection as long as its       *)
(* handler runs, whatever the handlers of displaced connections still do:  *)
(* clear_active_if_ours never takes the slot from a newer connection.      *)
ActiveIsNewest ==
  \A c \in Conns :
    (conn[c] # "unused" /\ \A d \in Conns : d > c => conn[d] = "unused")
      => active = IF conn[c] = "closed" THEN None ELSE c

(* Exit status 0 means that every terminal found by the sweep is gone, and *)
(* no process is registered that the sweep has not seen: a SPAWN that was  *)
(* waiting for the lock is refused (teardown_exit_status, begin_shutdown). *)
CleanExit ==
  /\ status = 0 => \A p \in swept : proc[p] \in Gone
  /\ daemon \in {"sweeping", "swept"} \/ status = 0
       => \A i \in Ids : mgr[i] \in unsure \cup {None}

=============================================================================
