----------------------------- MODULE HubProcess -----------------------------
(***************************************************************************)
(* The life of the hub's processes and of the commands that start, stop    *)
(* and quit them: hub-startup.ts, hub-lock.ts, shutdown.ts, the routes     *)
(* /api/shutdown and /api/quit, daemon-launch.ts and the commands of       *)
(* cli.ts.  Commands and hubs are processes of the operating system: they  *)
(* share the lock, the record runtime.json and the process table, and      *)
(* interleave at every access to one of them.                              *)
(*                                                                         *)
(* A hub is a number, in the order of the launches; the number also stands *)
(* for its instanceId, its ownerToken and the contents of its record.      *)
(* Process ids are reused.  Every hub scans the same ports and only the    *)
(* holder of the lock binds one, so they all meet at one address.          *)
(***************************************************************************)
EXTENDS Integers, FiniteSets

CONSTANTS Callers,  \* the processes that may issue commands
          Casts,    \* the bounds of a behaviour: the role of each caller, the hubs
                    \* launched, the closing choices presented (DesktopShell),
                    \* whether the local agent is part of it (DaemonLifecycle)
          MaxHubs,  \* hub processes (bound)
          None

Hubs == 1 .. MaxHubs
Roles == {"launch", "stop", "stopForce", "quit", "app", "absent"}

ASSUME HubAssumption ==
  /\ MaxHubs \in Nat /\ Casts \subseteq [role : [Callers -> Roles], hubs : Hubs, closes : Nat, agent : BOOLEAN]
  /\ None \notin Hubs

VARIABLES
  cast,       \* the cast of this behaviour; never changes
  phase,      \* of each hub process
  pid,        \* of each hub process, None before its launch
  code,       \* its exit status: 0, 1, or 73 if the lock is held
  record,     \* whose record runtime.json is, None if there is none
  quit,       \* the stopper of each hub's QuitCoordinator
  due,        \* callbacks of setImmediate: teardowns after a response
  stuck,      \* history: is the record one that its hub failed to remove?
  call        \* what each caller is doing

hubVars == <<phase, pid, code, quit, due, stuck>>
vars == <<cast, hubVars, record, call>>

role == cast.role
Alive(h) == phase[h] \notin {"unborn", "dead"}
HoldsLock(h) == phase[h] \in {"locked", "bound", "undone", "serving", "closing", "closed", "withdrawn"}
Listening(h) == phase[h] \in {"bound", "serving"}
PidAlive(p) == \E h \in Hubs : pid[h] = p /\ Alive(h)

Phases == {"unborn", "boot", "locked", "bound", "undone", "serving", "closing", "closed", "withdrawn", "dead"}
Steps == {"idle", "child", "reading", "post", "waiting", "answered", "consent", "seen", "gone",
          "stale", "matched", "confirmed", "requested", "ready", "refused", "failed", "off"}
Answers == {"none", "ok", "unconfirmed", "conflict", "denied", "lost", "unsent"}
NoCall == [step |-> "idle", target |-> None, force |-> FALSE, answer |-> "none"]

TypeOK ==
  /\ cast \in Casts
  /\ phase \in [Hubs -> Phases] /\ pid \in [Hubs -> Hubs \cup {None}]
  /\ code \in [Hubs -> {"none", "killed", "clean", "failed", "held"}]
  /\ record \in Hubs \cup {None}
  /\ quit \in [Hubs -> {"none", "stopping", "ok", "unconfirmed"}]
  /\ due \in [Hubs -> SUBSET {"quit", "stop"}] /\ stuck \in BOOLEAN
  /\ call \in [Callers -> [step : Steps, target : Hubs \cup {None}, force : BOOLEAN, answer : Answers]]
  /\ \A h, k \in Hubs : HoldsLock(h) /\ HoldsLock(k) => h = k

(* Nothing runs; with the local agent, the first hub already serves. *)
Init ==
  /\ cast \in Casts
  /\ LET up == IF cast.agent THEN {1} ELSE {} IN
     /\ phase = [h \in Hubs |-> IF h \in up THEN "serving" ELSE "unborn"]
     /\ pid = [h \in Hubs |-> IF h \in up THEN h ELSE None]
     /\ record = IF cast.agent THEN 1 ELSE None
  /\ code = [h \in Hubs |-> "none"]
  /\ quit = [h \in Hubs |-> "none"] /\ due = [h \in Hubs |-> {}] /\ stuck = FALSE
  /\ call = [c \in Callers |-> NoCall]

-----------------------------------------------------------------------------
(* The hub process.                                                        *)

(* A launch of the hub program: the next number, and a process id that is  *)
(* new (the number itself) or was that of a dead process.                  *)
Spawn(h) ==
  /\ h <= cast.hubs /\ phase[h] = "unborn" /\ \A k \in 1 .. h - 1 : phase[k] # "unborn"
  /\ phase' = [phase EXCEPT ![h] = "boot"]
  /\ \E p \in {q \in 1 .. h : ~PidAlive(q)} : pid' = [pid EXCEPT ![h] = p]

Die(h, status) ==
  /\ phase' = [phase EXCEPT ![h] = "dead"]
  /\ code' = [code EXCEPT ![h] = status]
  /\ due' = [due EXCEPT ![h] = {}]

(* acquireHubLock: before a directory, a database or a port is touched. *)
AcquireLock(h) ==
  /\ phase[h] = "boot"
  /\ IF \E k \in Hubs : HoldsLock(k)
     THEN Die(h, "held")
     ELSE phase' = [phase EXCEPT ![h] = "locked"] /\ UNCHANGED <<code, due>>
  /\ UNCHANGED <<cast, pid, quit, record, call, stuck>>

(* Databases, server, and the first free port of the range. *)
Bind(h) ==
  /\ phase[h] = "locked"
  /\ phase' = [phase EXCEPT ![h] = "bound"]
  /\ UNCHANGED <<cast, pid, code, quit, due, record, call, stuck>>

(* persistRuntime, then the announcement and the signal handlers in the    *)
(* same turn, any of which may throw.                                      *)
Publish(h) ==
  /\ phase[h] = "bound"
  /\ \E next \in {"serving", "undone"} : phase' = [phase EXCEPT ![h] = next]
  /\ record' = h /\ stuck' = FALSE
  /\ UNCHANGED <<cast, pid, code, quit, due, call>>

(* deleteRuntime: a record that cannot be read is left, one that cannot be *)
(* removed is left too.                                                    *)
DeleteRuntime(h) ==
  \/ record = h /\ record' = None /\ stuck' = FALSE
  \/ record = h /\ stuck' = TRUE /\ UNCHANGED record
  \/ record # h /\ UNCHANGED <<record, stuck>>

(* The catch of startHub: the server and the databases are closed, then    *)
(* the record is withdrawn if it was published, and a failure of that is   *)
(* swallowed.                                                              *)
StartFails(h) ==
  /\ phase[h] \in {"boot", "locked", "bound", "undone"}
  /\ Die(h, "failed")
  /\ IF phase[h] = "undone" THEN DeleteRuntime(h) ELSE UNCHANGED <<record, stuck>>
  /\ UNCHANGED <<cast, pid, quit, call>>

(* gracefulShutdown: the first call decides, the later ones join it. *)
GracefulShutdown(h, status) ==
  IF phase[h] = "serving"
  THEN phase' = [phase EXCEPT ![h] = "closing"] /\ code' = [code EXCEPT ![h] = status]
  ELSE UNCHANGED <<phase, code>>

ShutdownAtOnce(h) == GracefulShutdown(h, "clean")

(* shutdown of the lifecycle: a stop or a signal joins a quit in progress. *)
Shutdown(h) == IF quit[h] = "none" THEN GracefulShutdown(h, "clean") ELSE UNCHANGED <<phase, code>>

(* A signal kills a hub that has installed no handler yet. *)
Terminated(h) ==
  IF phase[h] \in {"boot", "locked", "bound", "undone"}
  THEN Die(h, "killed")
  ELSE Shutdown(h) /\ UNCHANGED due

Terminate(h) ==
  /\ Alive(h) /\ Terminated(h)
  /\ UNCHANGED <<cast, pid, quit, record, call, stuck>>

(* The stopper ends, in time or not.  Every request that waits for it is   *)
(* answered in the same turn of the event loop, before any teardown.       *)
Answered(h, result) ==
  [c \in Callers |->
     IF call[c].step = "waiting" /\ call[c].target = h
     THEN [call[c] EXCEPT !.step = "answered", !.answer = result] ELSE call[c]]

StopperDoneUndelivered(h) ==
  /\ quit[h] = "stopping" /\ phase[h] = "serving"
  /\ \E result \in {"ok", "unconfirmed"} :
       /\ quit' = [quit EXCEPT ![h] = result]
       /\ call' = Answered(h, result)
  /\ UNCHANGED <<cast, phase, pid, code, due, record, stuck>>

StopperDone(h) ==
  /\ quit[h] = "stopping" /\ phase[h] = "serving"
  /\ \E result \in {"ok", "unconfirmed"} :
       /\ quit' = [quit EXCEPT ![h] = result]
       /\ call' = Answered(h, result)
  /\ due' = [due EXCEPT ![h] = @ \cup {"quit"}]
  /\ UNCHANGED <<cast, phase, pid, code, record, stuck>>

(* The callbacks scheduled behind a response: onShutdown, onQuitDelivered. *)
RunDue(h) ==
  /\ \E d \in due[h] :
       /\ due' = [due EXCEPT ![h] = @ \ {d}]
       /\ IF d = "stop" THEN Shutdown(h)
          ELSE GracefulShutdown(h, IF quit[h] = "ok" THEN "clean" ELSE "failed")
  /\ UNCHANGED <<cast, pid, quit, record, call, stuck>>

(* runGracefulShutdown: the server and the databases, the record, exit. *)
CloseServer(h) ==
  /\ phase[h] = "closing"
  /\ phase' = [phase EXCEPT ![h] = "closed"]
  /\ UNCHANGED <<cast, pid, code, quit, due, record, call, stuck>>

WithdrawRecord(h) ==
  /\ phase[h] = "closed"
  /\ phase' = [phase EXCEPT ![h] = "withdrawn"]
  /\ DeleteRuntime(h)
  /\ UNCHANGED <<cast, pid, code, quit, due, call>>

CloseLeavesRecord(h) ==
  /\ phase[h] = "closing"
  /\ phase' = [phase EXCEPT ![h] = "withdrawn"]
  /\ code' = [code EXCEPT ![h] = "failed"]
  /\ UNCHANGED <<cast, pid, quit, due, record, call, stuck>>

(* The server does not close in time or fails to, or the removal of the    *)
(* record throws: the removal is tried, again, and the status is 1.        *)
CloseFails(h) ==
  /\ phase[h] \in {"closing", "closed"}
  /\ phase' = [phase EXCEPT ![h] = "withdrawn"]
  /\ code' = [code EXCEPT ![h] = "failed"]
  /\ DeleteRuntime(h)
  /\ UNCHANGED <<cast, pid, quit, due, call>>

Exit(h) ==
  /\ phase[h] = "withdrawn"
  /\ Die(h, code[h])
  /\ UNCHANGED <<cast, pid, quit, record, call, stuck>>

(* The process is killed or crashes: the kernel frees the lock and the     *)
(* port, the record stays.                                                 *)
Crash(h) ==
  /\ Alive(h) /\ Die(h, "killed")
  /\ UNCHANGED <<cast, pid, quit, record, call, stuck>>

-----------------------------------------------------------------------------
(* The commands.                                                           *)

Go(c, step) == call' = [call EXCEPT ![c].step = step]

(* The end of a command: only its result matters, and whom it was about. *)
End(c, step) == call' = [call EXCEPT ![c] = [NoCall EXCEPT !.step = step, !.target = call[c].target]]
Fail(c) == call' = [call EXCEPT ![c] = [NoCall EXCEPT !.step = "failed"]]

(* start: a hub in the foreground, nobody waits for it. *)
StartForeground(h) ==
  /\ Spawn(h)
  /\ UNCHANGED <<cast, code, quit, due, record, call, stuck>>

(* start --daemon: the launcher watches its child. *)
StartDaemon(c) ==
  /\ call[c].step = "idle" /\ role[c] = "launch"
  /\ \E h \in Hubs :
       /\ Spawn(h)
       /\ call' = [call EXCEPT ![c].step = "child", ![c].target = h]
  /\ UNCHANGED <<cast, code, quit, due, record, stuck>>

(* waitForDaemonReady.  The child is known by its process id. *)
ChildReady(c) ==
  /\ call[c].step = "child"
  /\ Alive(call[c].target) /\ record # None /\ pid[record] = pid[call[c].target]
  /\ \E k \in Hubs : Listening(k)
  /\ End(c, "ready")
  /\ UNCHANGED <<cast, hubVars, record>>

ChildExited(c) ==
  /\ call[c].step = "child"
  /\ phase[call[c].target] = "dead"
  /\ End(c, IF code[call[c].target] = "held" THEN "refused" ELSE "failed")
  /\ UNCHANGED <<cast, hubVars, record>>

ChildTimeout(c) ==
  /\ call[c].step = "child"
  /\ Alive(call[c].target)
  /\ Terminated(call[c].target)
  /\ Fail(c)
  /\ UNCHANGED <<cast, pid, quit, record, stuck>>

(* stop and quit read the record; a dead process means a stale record. *)
ReadRecord(c) ==
  /\ call[c].step = "idle" /\ role[c] \in {"stop", "stopForce", "quit"}
  /\ call' = [call EXCEPT
       ![c].step = IF record = None THEN "failed"
                   ELSE IF PidAlive(pid[record]) THEN "post" ELSE "stale",
       ![c].target = record, ![c].force = (role[c] = "stopForce" /\ record # None)]
  /\ UNCHANGED <<cast, hubVars, record>>

(* deleteRuntime: the record is read again, and removed if it matches. *)
MatchRecord(c) ==
  /\ call[c].step = "stale"
  /\ IF record = call[c].target THEN Go(c, "matched") ELSE Fail(c)
  /\ UNCHANGED <<cast, hubVars, record>>

RemoveRecord(c) ==
  /\ call[c].step = "matched"
  /\ record' = None /\ stuck' = FALSE
  /\ Fail(c)
  /\ UNCHANGED <<cast, phase, pid, code, quit, due>>

Ask(c, step, answer) == [call EXCEPT ![c].step = step, ![c].answer = answer]

(* POST /api/shutdown.  Whoever listens now checks the owner's token; other *)
(* clients may be connected at that moment (getOthersCount), or none.      *)
PostShutdown(c) ==
  /\ call[c].step = "post" /\ role[c] \in {"stop", "stopForce"}
  /\ \/ \E h \in Hubs :
          /\ Listening(h)
          /\ \/ /\ h # call[c].target
                /\ Fail(c) /\ UNCHANGED due
             \/ /\ h = call[c].target
                /\ \/ ~call[c].force /\ End(c, "refused") /\ UNCHANGED due
                   \/ /\ \E step \in {"requested", "failed"} : End(c, step)  \* the answer may be lost
                      /\ due' = [due EXCEPT ![h] = @ \cup {"stop"}]
     \/ /\ \A h \in Hubs : ~Listening(h)
        /\ End(c, IF PidAlive(pid[call[c].target]) THEN "failed" ELSE "requested")
        /\ UNCHANGED due
  /\ UNCHANGED <<cast, phase, pid, code, quit, record, stuck>>

(* POST /api/quit.  A quit in progress is joined whatever the clients;    *)
(* otherwise it begins: the fence, then the stopper.                       *)
PostQuit(c) ==
  /\ call[c].step = "post" /\ role[c] \in {"quit", "app"}
  /\ \/ \E h \in Hubs :
          /\ Listening(h)
          /\ \/ h # call[c].target /\ call' = Ask(c, "answered", "denied") /\ UNCHANGED <<quit, due>>
             \/ /\ h = call[c].target
                /\ \/ /\ ~call[c].force /\ quit[h] = "none"
                      /\ call' = Ask(c, "answered", "conflict") /\ UNCHANGED <<quit, due>>
                   \/ /\ quit[h] \in {"none", "stopping"}
                      /\ quit' = [quit EXCEPT ![h] = "stopping"]
                      /\ Go(c, "waiting") /\ UNCHANGED due
                   \/ /\ quit[h] \in {"ok", "unconfirmed"}
                      /\ call' = Ask(c, "answered", quit[h])
                      /\ due' = [due EXCEPT ![h] = @ \cup {"quit"}]
                      /\ UNCHANGED quit
     \/ /\ \A h \in Hubs : ~Listening(h)
        /\ call' = Ask(c, "answered", "unsent") /\ UNCHANGED <<quit, due>>
  /\ UNCHANGED <<cast, phase, pid, code, record, stuck>>

(* The answer is lost: a timeout of the request, or the hub is gone. *)
LoseAnswer(c) ==
  /\ call[c].step = "waiting" \/ (call[c].step = "answered" /\ call[c].answer \in {"ok", "unconfirmed"})
  /\ call' = Ask(c, "answered", "lost")
  /\ UNCHANGED <<cast, hubVars, record>>

(* cmdQuit after the answer: a first conflict is put to the user, a second *)
(* one ends the command, everything else is observed.                      *)
QuitAnswered(c) ==
  /\ call[c].step = "answered" /\ role[c] = "quit"
  /\ \/ call[c].answer = "conflict" /\ ~call[c].force /\ Go(c, "consent")
     \/ call[c].answer = "conflict" /\ call[c].force /\ Fail(c)
     \/ call[c].answer # "conflict" /\ Go(c, "seen")
  /\ UNCHANGED <<cast, hubVars, record>>

Confirm(c) ==
  /\ call[c].step = "consent" /\ role[c] = "quit"
  /\ \/ call' = [call EXCEPT ![c].step = "post", ![c].force = TRUE]
     \/ Fail(c)
  /\ UNCHANGED <<cast, hubVars, record>>

-----------------------------------------------------------------------------
(* waitForHubQuit and observe_hub_quit: the record, the process, and the   *)
(* record again.                                                           *)

Verdict(c) ==
  IF role[c] = "quit" /\ call[c].answer # "ok" THEN Fail(c) ELSE End(c, "confirmed")

ReplacedBy(c) == record \notin {None, call[c].target}

ObserveRecordOnly(c) ==
  /\ call[c].step = "seen"
  /\ \/ ReplacedBy(c) /\ Fail(c)
     \/ record = None /\ Verdict(c)
  /\ UNCHANGED <<cast, hubVars, record>>

ObserveRecord(c) ==
  /\ call[c].step = "seen"
  /\ \/ ReplacedBy(c) /\ Fail(c)
     \/ record = None /\ ~PidAlive(pid[call[c].target]) /\ Go(c, "gone")
  /\ UNCHANGED <<cast, hubVars, record>>

ObserveAgain(c) ==
  /\ call[c].step = "gone"
  /\ \/ ReplacedBy(c) /\ Fail(c)
     \/ record = None /\ Verdict(c)
     \/ record = call[c].target /\ Go(c, "seen")
  /\ UNCHANGED <<cast, hubVars, record>>

ObserveTimeout(c) ==
  /\ call[c].step = "seen"
  /\ Fail(c)
  /\ UNCHANGED <<cast, hubVars, record>>

Observe(c) == ObserveRecord(c) \/ ObserveAgain(c) \/ ObserveTimeout(c)

-----------------------------------------------------------------------------
HubStep(h) ==
  \/ AcquireLock(h) \/ Bind(h) \/ Publish(h) \/ StopperDone(h) \/ RunDue(h)
  \/ CloseServer(h) \/ WithdrawRecord(h) \/ CloseFails(h) \/ Exit(h)

CommandStep(c) ==
  \/ StartDaemon(c) \/ ChildReady(c) \/ ChildExited(c) \/ ChildTimeout(c)
  \/ ReadRecord(c) \/ MatchRecord(c) \/ RemoveRecord(c)
  \/ PostShutdown(c) \/ PostQuit(c) \/ LoseAnswer(c) \/ QuitAnswered(c) \/ Confirm(c)
  \/ (role[c] = "quit" /\ Observe(c))

HubProcessNext ==
  \/ \E h \in Hubs : HubStep(h) \/ StartForeground(h) \/ StartFails(h) \/ Terminate(h) \/ Crash(h)
  \/ \E c \in Callers : CommandStep(c)

-----------------------------------------------------------------------------
(* A quit is reported done, or the application exits on it, only when the  *)
(* hub it was sent to is gone and its record with it, whatever other hubs  *)
(* were launched meanwhile and whichever process has its pid.  The command *)
(* line says so only when the local agent was confirmed stopped as well    *)
(* (waitForHubQuit, observe_hub_quit_with).                                *)
QuitConfirmed ==
  \A c \in Callers : call[c].step = "confirmed" =>
    /\ phase[call[c].target] = "dead" /\ record # call[c].target
    /\ role[c] = "quit" => quit[call[c].target] = "ok"

(* A hub never tears itself down while a quit request it accepted is       *)
(* unanswered: a stop or a signal meanwhile joins the quit (QuitCoordinator *)
(* .shutdown: "instead of closing the socket early").                      *)
AnsweredBeforeClose ==
  \A c \in Callers, h \in Hubs :
    call[c].step = "waiting" /\ call[c].target = h =>
      phase[h] = "serving" \/ (phase[h] = "dead" /\ code[h] = "killed")

(* A hub that accepted a quit or a stop, or whose launcher gave up on it   *)
(* after it began to serve, ends.                                          *)
HubEnds ==
  \A h \in Hubs : (quit[h] # "none" \/ due[h] # {} \/ phase[h] = "closing") ~> phase[h] = "dead"
=============================================================================
