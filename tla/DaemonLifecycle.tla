--------------------------- MODULE DaemonLifecycle ---------------------------
(***************************************************************************)
(* The local agent daemon as a process: how a hub reaches or launches it   *)
(* (agent-launcher.ts, lasterm-agent.ts), how it claims its socket and     *)
(* publishes its identity (main.rs, daemon.rs, identity.rs), and how the   *)
(* stopper that a quitting hub runs ends exactly that process.             *)
(*                                                                         *)
(* A daemon is a number, which also stands for its identity: executable,   *)
(* creation time and the contents of its record.  Only its process id is   *)
(* reused.  A daemon has two tasks: main (dmain) and the accept loop       *)
(* (dtask).  There is one socket path, and one record directory.           *)
(***************************************************************************)
EXTENDS HubProcess

CONSTANT MaxDaemons   \* daemon processes (bound)

Daemons == 1 .. MaxDaemons
ASSUME DaemonAssumption == MaxDaemons \in Nat /\ None \notin Daemons

VARIABLES
  private,   \* is the record directory private? never changes
  struck,    \* history: the recorded daemons in whose place another process was
             \* signalled, and whether the stopper had a handle of its process
  dmain,     \* the main task of each daemon
  dtask,     \* its accept loop
  dpid,      \* its process id
  asked,     \* shutdown requests it has seen: none, one signal, two signals
  dcode,     \* how it ended
  path,      \* the daemon that bound the file at the socket path, if there is one
  liveRec,   \* the identity record at the path: whose it is
  link,      \* the daemon connection of each hub
  stop       \* the stopper of each quitting hub

procVars == <<dmain, dtask, dpid, asked, dcode>>
fileVars == <<path, liveRec>>
machine == <<private, struck>>
agentVars == <<machine, procVars, fileVars, link, stop>>

DaemonAlive(d) == dmain[d] \notin {"unborn", "dead"}
Stranger == 0   \* a process that is no daemon
NoLink == [step |-> "idle", daemon |-> None]
NoStop == [step |-> "idle", rec |-> None, proc |-> None, taken |-> FALSE]

AgentTypeOK ==
  /\ private \in BOOLEAN /\ struck \subseteq [rec : Daemons, held : BOOLEAN]
  /\ dmain \in [Daemons -> {"unborn", "boot", "binding", "recording", "select", "abort",
                            "unrecord", "removing", "dead"}]
  /\ dtask \in [Daemons -> {"none", "stale", "bind", "listen", "sweep", "done"}]
  /\ dpid \in [Daemons -> Daemons \cup {None}] /\ asked \in [Daemons -> 0 .. 2]
  /\ dcode \in [Daemons -> {"none", "ended", "failed", "unrecorded", "killed"}]
  /\ {path, liveRec} \subseteq Daemons \cup {None}
  /\ link \in [Hubs -> [step : {"idle", "dialing", "polling", "open"}, daemon : Daemons \cup {None}]]
  /\ stop \in [Hubs -> [step : {"idle", "read", "open", "check", "send", "poll", "stopped", "unconfirmed"},
                        rec : Daemons \cup {None}, proc : Daemons \cup {None, Stranger},
                        taken : BOOLEAN]]

AgentInit ==
  /\ private \in BOOLEAN /\ struck = {}
  /\ dmain = [d \in Daemons |-> "unborn"] /\ dtask = [d \in Daemons |-> "none"]
  /\ dpid = [d \in Daemons |-> None] /\ asked = [d \in Daemons |-> 0]
  /\ dcode = [d \in Daemons |-> "none"]
  /\ path = None /\ liveRec = None
  /\ link = [h \in Hubs |-> NoLink] /\ stop = [h \in Hubs |-> NoStop]

-----------------------------------------------------------------------------
(* The daemon.                                                             *)

DaemonEnds(d, how) ==
  /\ dmain' = [dmain EXCEPT ![d] = "dead"]
  /\ dtask' = [dtask EXCEPT ![d] = "none"]
  /\ dcode' = [dcode EXCEPT ![d] = how]
  /\ asked' = [asked EXCEPT ![d] = 0]
  /\ UNCHANGED dpid

MainTo(d, step) == dmain' = [dmain EXCEPT ![d] = step]
TaskTo(d, step) == dtask' = [dtask EXCEPT ![d] = step]

(* Up to run_daemon: the identity is made and the SIGTERM handler          *)
(* installed, before anything can advertise the process.                   *)
InstallHandlers(d) ==
  /\ dmain[d] = "boot"
  /\ \/ MainTo(d, "binding") /\ TaskTo(d, "stale") /\ UNCHANGED <<dpid, asked, dcode>>
     \/ DaemonEnds(d, "failed")
  /\ UNCHANGED <<machine, fileVars, link, stop>>

(* "Clean up stale socket file": whosever it is. *)
RemoveStale(d) ==
  /\ dtask[d] = "stale"
  /\ path' = None
  /\ TaskTo(d, "bind")
  /\ UNCHANGED <<machine, dmain, dpid, asked, dcode, liveRec, link, stop>>

(* bind_with_retry, one attempt: a file another daemon put there meanwhile *)
(* is removed before the next attempt; main learns of a bound endpoint.    *)
BindSocket(d) ==
  /\ dtask[d] = "bind"
  /\ \/ /\ path = None
        /\ path' = d /\ TaskTo(d, "listen") /\ MainTo(d, "recording")
        /\ UNCHANGED <<dpid, asked, dcode>>
     \/ /\ path # None
        /\ \/ path' = None /\ UNCHANGED procVars
           \/ DaemonEnds(d, "failed") /\ UNCHANGED path
  /\ UNCHANGED <<machine, liveRec, link, stop>>

(* write_json_atomically publishes by a rename; it may fail before it, or  *)
(* behind it when the directory cannot be synced.                          *)
Written(d, ok) == IF ok THEN {d} ELSE {liveRec, d}

(* daemon_identity_for_endpoint gave no identity in a directory that is    *)
(* not private.  A failed publication shuts the accept loop down again.    *)
PublishIdentity(d) ==
  /\ dmain[d] = "recording"
  /\ \/ ~private /\ MainTo(d, "select") /\ UNCHANGED <<asked, liveRec>>
     \/ private /\ MainTo(d, "select") /\ liveRec' \in Written(d, TRUE) /\ UNCHANGED asked
     \/ /\ private
        /\ MainTo(d, "abort") /\ liveRec' \in Written(d, FALSE)
        /\ asked' = [asked EXCEPT ![d] = IF @ = 0 THEN 1 ELSE @]
  /\ UNCHANGED <<machine, dtask, dpid, dcode, path, link, stop>>

(* The accept loop sees the request: no more connections. *)
StopAccepting(d) ==
  /\ dtask[d] = "listen" /\ asked[d] > 0
  /\ TaskTo(d, "sweep")
  /\ UNCHANGED <<machine, dmain, dpid, asked, dcode, fileVars, link, stop>>

(* The terminals are swept (AgentDaemon); then the pathname is removed,    *)
(* which "cannot prove this still refers to the inode we bound".           *)
TearDown(d) ==
  /\ dtask[d] = "sweep"
  /\ path' = None
  /\ TaskTo(d, "done")
  /\ UNCHANGED <<machine, dmain, dpid, asked, dcode, liveRec, link, stop>>

(* The arm of select for a finished accept loop: the exit record first     *)
(* (nothing reads it), then the live one; without the first the second     *)
(* stays.                                                                  *)
WriteExitRecord(d) ==
  /\ dmain[d] = "select" /\ dtask[d] = "done"
  /\ \/ /\ private /\ MainTo(d, "unrecord")
        /\ dcode' = [dcode EXCEPT ![d] = "ended"] /\ UNCHANGED <<dtask, dpid, asked>>
     \/ private /\ DaemonEnds(d, "unrecorded")
     \/ ~private /\ DaemonEnds(d, "ended")
  /\ UNCHANGED <<machine, fileVars, link, stop>>

(* After a failed publication, once the accept loop is gone. *)
AbortCleanup(d) ==
  /\ dmain[d] = "abort" /\ dtask[d] = "done"
  /\ MainTo(d, "unrecord")
  /\ dcode' = [dcode EXCEPT ![d] = "failed"]
  /\ UNCHANGED <<machine, dtask, dpid, asked, fileVars, link, stop>>

(* read_live_record_at: nothing is believed in a directory that others may *)
(* write to.                                                               *)
RecordRead == IF private THEN liveRec ELSE None

(* remove_live_record reads the record and removes it if it is its own;    *)
(* between the two another daemon may publish.  Either may fail: the       *)
(* status is 1 then, and the record stays.                                 *)
ReadOwnRecord(d) ==
  /\ dmain[d] = "unrecord"
  /\ \/ RecordRead = d /\ MainTo(d, "removing") /\ UNCHANGED <<dtask, dpid, asked, dcode>>
     \/ RecordRead # d /\ DaemonEnds(d, dcode[d])
     \/ DaemonEnds(d, "unrecorded")
  /\ UNCHANGED <<machine, fileVars, link, stop>>

RemoveLiveRecord(d) ==
  /\ dmain[d] = "removing"
  /\ \/ liveRec' = None /\ DaemonEnds(d, dcode[d])
     \/ UNCHANGED liveRec /\ DaemonEnds(d, "unrecorded")
  /\ UNCHANGED <<machine, path, link, stop>>

(* The other arm: a second signal or the deadline, while the accept loop   *)
(* is still busy.  Neither record is touched.                              *)
ForcedExit(d) ==
  /\ dmain[d] = "select" /\ dtask[d] # "done" /\ asked[d] > 0
  /\ DaemonEnds(d, "killed")
  /\ UNCHANGED <<machine, fileVars, link, stop>>

(* SIGTERM: fatal until the handler is installed; a second one may be      *)
(* merged with the first, and is ignored once the signal task is aborted.  *)
Signalled(d) ==
  IF dmain[d] = "boot" THEN DaemonEnds(d, "killed")
  ELSE /\ \E n \in {asked[d] + 1, asked[d]} :
            n \in 1 .. 2 /\ asked' = [asked EXCEPT ![d] = n]
       /\ UNCHANGED <<dmain, dtask, dpid, dcode>>

(* An operator's signal, or the end of the login session. *)
OperatorSignal(d) ==
  /\ DaemonAlive(d) /\ dmain[d] # "boot" /\ asked[d] = 0
  /\ Signalled(d)
  /\ UNCHANGED <<machine, fileVars, link, stop>>

DaemonCrash(d) ==
  /\ DaemonAlive(d)
  /\ DaemonEnds(d, "killed")
  /\ UNCHANGED <<machine, fileVars, link, stop>>

-----------------------------------------------------------------------------
(* The hub's connection: attachDaemonFresh and connectOrLaunch.            *)

(* What connect(2) finds at the path. *)
Reachable(d) == path = d /\ dtask[d] = "listen"

(* assertQuitFence *)
Fenced(h) == quit[h] # "none"
Linked(h, step, d) == link' = [link EXCEPT ![h] = [step |-> step, daemon |-> d]]

AttachDaemon(h) ==
  /\ phase[h] = "serving" /\ ~Fenced(h) /\ link[h].step = "idle"
  /\ Linked(h, "dialing", None)
  /\ UNCHANGED <<machine, procVars, fileVars, stop>>

(* connectLocal resolves with HELLO.  A connection that a quit overtook is *)
(* closed, not adopted.                                                    *)
ConnectLocal(h) ==
  /\ phase[h] = "serving" /\ link[h].step \in {"dialing", "polling"}
  /\ \E d \in Daemons :
       /\ Reachable(d)
       /\ IF Fenced(h) THEN Linked(h, "idle", None) ELSE Linked(h, "open", d)
  /\ UNCHANGED <<machine, procVars, fileVars, stop>>

(* launchDaemon: a detached process that outlives the hub. *)
LaunchDaemon(h) ==
  \E d \in Daemons :
    /\ dmain[d] = "unborn" /\ \A e \in 1 .. d - 1 : dmain[e] # "unborn"
    /\ \E p \in {q \in 1 .. d : \A e \in Daemons : dpid[e] = q => ~DaemonAlive(e)} :
         dpid' = [dpid EXCEPT ![d] = p]
    /\ MainTo(d, "boot")
    /\ Linked(h, "polling", None)

(* The first attempt fails: refused, or no HELLO in time from a daemon     *)
(* that is there (its accept loop may be slow).  The hub removes nothing   *)
(* and launches another daemon, unless it is quitting.                     *)
ConnectFails(h) ==
  /\ phase[h] = "serving" /\ link[h].step = "dialing"
  /\ IF Fenced(h) THEN Linked(h, "idle", None) /\ UNCHANGED <<dmain, dpid>>
     ELSE LaunchDaemon(h)
  /\ UNCHANGED <<machine, dtask, asked, dcode, fileVars, stop>>

(* connectWhenReady gives up; a socket of another user ends it at once. *)
AttachFails(h) ==
  /\ phase[h] = "serving" /\ link[h].step \in {"dialing", "polling"}
  /\ Linked(h, "idle", None)
  /\ UNCHANGED <<machine, procVars, fileVars, stop>>

(* The socket closes with the process at its other end. *)
LinkLost(h) ==
  /\ link[h].step = "open" /\ ~DaemonAlive(link[h].daemon)
  /\ Linked(h, "idle", None)
  /\ UNCHANGED <<machine, procVars, fileVars, stop>>

-----------------------------------------------------------------------------
(* stopLocalAgent: the program lasterm-agent --stop.                       *)

StopTo(h, step) == stop' = [stop EXCEPT ![h].step = step]
Unconfirmed(h) == stop' = [stop EXCEPT ![h] = [NoStop EXCEPT !.step = "unconfirmed"]]

StartStopper(h) ==
  /\ quit[h] = "stopping" /\ stop[h].step = "idle"
  /\ StopTo(h, "read") \/ Unconfirmed(h)   \* it may not start
  /\ UNCHANGED <<machine, procVars, fileVars, link>>

(* identity::stop: no record, or one that may not be trusted. *)
ReadLiveRecord(h) ==
  /\ stop[h].step = "read"
  /\ IF RecordRead # None
     THEN stop' = [stop EXCEPT ![h].step = "open", ![h].rec = RecordRead]
     ELSE Unconfirmed(h)
  /\ UNCHANGED <<machine, procVars, fileVars, link>>

(* The process that has the pid of the record now, if there is one. *)
Holder(h) ==
  {d \in Daemons : DaemonAlive(d) /\ dpid[d] = dpid[stop[h].rec]}
    \cup (IF stop[h].taken THEN {Stranger} ELSE {})

(* The pid of the recorded daemon, which ended, is given to a process that *)
(* is no daemon; followed from the reading of the record on (bound).       *)
PidReused(h) ==
  /\ stop[h].step \in {"open", "check", "send", "poll"} /\ Holder(h) = {}
  /\ stop' = [stop EXCEPT ![h].taken = TRUE]
  /\ UNCHANGED <<machine, procVars, fileVars, link>>

(* ProcessReference::open: a handle of the process that has the recorded   *)
(* pid now (a pidfd, a HANDLE), or on macOS nothing but the pid.           *)
OpenProcess(h) ==
  /\ stop[h].step = "open"
  /\ IF Holder(h) = {} THEN Unconfirmed(h)
     ELSE \E p \in Holder(h) \cup {None} : stop' = [stop EXCEPT ![h].step = "check", ![h].proc = p]
  /\ UNCHANGED <<machine, procVars, fileVars, link>>

(* What the ProcessReference refers to: the process that was opened, while *)
(* it lives, or on macOS whichever process has the pid.                    *)
Held(h) == stop[h].proc # None
Referred(h) == IF Held(h) THEN Holder(h) \cap {stop[h].proc} ELSE Holder(h)

DetailsMatchAny(rec, d) == TRUE

(* details_match: creation time and executable. *)
DetailsMatch(rec, d) == rec = d

(* ProcessReference::status *)
ProcessStatus(h) ==
  CASE Referred(h) = {} -> "gone"
    [] \E d \in Referred(h) : DetailsMatch(stop[h].rec, d) -> "matching"
    [] OTHER -> "mismatch"

ValidateProcess(h) ==
  /\ stop[h].step = "check"
  /\ IF ProcessStatus(h) = "matching" THEN StopTo(h, "send") ELSE Unconfirmed(h)
  /\ UNCHANGED <<machine, procVars, fileVars, link>>

(* send_stop: to the handle, or kill(pid), with "a residual pid-reuse      *)
(* window which cannot be closed".  A stranger may ignore the signal, or   *)
(* belong to another user.  A failed send is judged as a later look is.    *)
SendStop(h) ==
  /\ stop[h].step = "send"
  /\ struck' = struck \cup {[rec |-> stop[h].rec, held |-> Held(h)] : d \in Referred(h) \ {stop[h].rec}}
  /\ \/ \E d \in Referred(h) \ {Stranger} : Signalled(d) /\ StopTo(h, "poll")
     \/ /\ Stranger \in Referred(h) /\ UNCHANGED procVars
        /\ \E on \in BOOLEAN : stop' = [stop EXCEPT ![h].step = "poll", ![h].taken = on]
     \/ Referred(h) = {} /\ StopTo(h, "poll") /\ UNCHANGED procVars
  /\ UNCHANGED <<private, fileVars, link>>

(* The loop of stop_record: gone, no longer the same, or at the bound. *)
PollStopped(h) ==
  /\ stop[h].step = "poll"
  /\ IF ProcessStatus(h) = "gone"
     THEN stop' = [stop EXCEPT ![h] = [NoStop EXCEPT !.step = "stopped", !.rec = stop[h].rec]] ELSE Unconfirmed(h)
  /\ UNCHANGED <<machine, procVars, fileVars, link>>

StopperTimeout(h) ==
  /\ stop[h].step \in {"read", "open", "check", "send", "poll"}
  /\ Unconfirmed(h)
  /\ UNCHANGED <<machine, procVars, fileVars, link>>

-----------------------------------------------------------------------------
DaemonOwn(d) ==
  \/ InstallHandlers(d) \/ RemoveStale(d) \/ BindSocket(d) \/ PublishIdentity(d)
  \/ StopAccepting(d) \/ TearDown(d) \/ WriteExitRecord(d) \/ AbortCleanup(d)
  \/ ReadOwnRecord(d) \/ RemoveLiveRecord(d) \/ ForcedExit(d)

HubSide(h) ==
  \/ AttachDaemon(h) \/ ConnectLocal(h) \/ ConnectFails(h) \/ AttachFails(h) \/ LinkLost(h)

Stopper(h) ==
  \/ StartStopper(h) \/ ReadLiveRecord(h) \/ OpenProcess(h) \/ ValidateProcess(h)
  \/ SendStop(h) \/ PollStopped(h) \/ StopperTimeout(h)

AgentNext ==
  \/ \E d \in Daemons : DaemonOwn(d) \/ OperatorSignal(d) \/ DaemonCrash(d)
  \/ \E h \in Hubs : HubSide(h) \/ Stopper(h) \/ PidReused(h)

(* beginQuit answers with what the stopper reported: ok only for "stopped" *)
StopperReported ==
  \A h \in Hubs : quit[h] = "stopping" /\ quit'[h] \in {"ok", "unconfirmed"} =>
    stop[h].step = IF quit'[h] = "ok" THEN "stopped" ELSE "unconfirmed"

-----------------------------------------------------------------------------
(* A quit that reports the agent stopped is right: the daemon whose record *)
(* the stopper read is dead, however daemons were replaced and process ids *)
(* reused meanwhile.  And the stopper signals no other process in its      *)
(* place, except where the platform gives no handle of a process, and then *)
(* only once the recorded daemon is dead (stop_record, details_match,      *)
(* ProcessReference: "a residual pid-reuse window").                       *)
StopIsExact ==
  /\ \A h \in Hubs : quit[h] = "ok" /\ stop[h].step = "stopped" => dmain[stop[h].rec] = "dead"
  /\ \A s \in struck : ~s.held /\ dmain[s.rec] = "dead"
=============================================================================
