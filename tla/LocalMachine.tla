---------------------------- MODULE LocalMachine ----------------------------
(***************************************************************************)
(* The processes of one machine together: the hubs and the commands that   *)
(* drive them, the desktop application, and the local agent daemon.  A     *)
(* quitting hub's stopper is a process of its own; the hub answers with    *)
(* its verdict, and tears itself down behind the answer.                   *)
(*                                                                         *)
(* A cast has either the commands and the desktop, with any verdict of the *)
(* stopper, or the daemons, with a hub that serves and a quit request      *)
(* whose sender is not followed.                                           *)
(***************************************************************************)
EXTENDS DesktopShell, DaemonLifecycle

machineVars == <<allVars, agentVars>>

MachineInit == ShellInit /\ AgentInit /\ (~cast.agent => private)

(* POST /api/quit, from whomever. *)
QuitArrives(h) ==
  /\ phase[h] = "serving" /\ quit[h] = "none"
  /\ quit' = [quit EXCEPT ![h] = "stopping"]
  /\ UNCHANGED <<cast, phase, pid, code, due, stuck, record, call, shellVars, agentVars>>

(* A hub step, the stopper's verdict in it if there is one; the teardown   *)
(* closes the connection.  How the teardown may fail is left to the casts  *)
(* without daemons (bound).                                                *)
HubWithAgent(h) ==
  /\ HubStep(h) /\ StopperReported
  /\ ~stuck' /\ (code'[h] = "failed" => quit[h] = "unconfirmed")
  /\ link' = [link EXCEPT ![h] = IF phase'[h] = "serving" THEN @ ELSE NoLink]
  /\ UNCHANGED <<shellVars, machine, procVars, fileVars, stop>>

(* The daemons take nothing from a hub that has begun its teardown, so     *)
(* what they do next they may have done before it: they are followed until *)
(* then.                                                                   *)
WithDaemons ==
  \/ (\E h \in Hubs : phase[h] = "serving") /\ AgentNext /\ UNCHANGED allVars
  \/ \E h \in Hubs : QuitArrives(h) \/ HubWithAgent(h)

MachineNext ==
  \/ ~cast.agent /\ ShellNext /\ UNCHANGED agentVars
  \/ cast.agent /\ WithDaemons

(* What a hub does by itself, its stopper's program included. *)
HubMoves(h) ==
  \/ ~cast.agent /\ HubStep(h) /\ UNCHANGED <<shellVars, agentVars>>
  \/ cast.agent /\ HubWithAgent(h)
  \/ cast.agent /\ Stopper(h) /\ UNCHANGED allVars

(* The hub's own steps happen (its event loop runs and its timeouts bound  *)
(* them), and the stopper ends at its bound; users, commands, daemons and  *)
(* the desktop application may stop at any point.                          *)
MachineSpec ==
  /\ MachineInit /\ [][MachineNext]_machineVars
  /\ \A h \in Hubs : WF_machineVars(HubMoves(h))

(* A hub or a daemon that ends by itself leaves no record behind, except   *)
(* one it could not read or remove: a hub whose start fails behind the     *)
(* publication, whose teardown is late or throws (startHub,                *)
(* runGracefulShutdown), a daemon whose record is published while its      *)
(* accept loop is already closing, or whose publication failed             *)
(* (write_clean_exit_record, the cleanup in main).  A daemon that leaves   *)
(* one does not end with status 0.                                         *)
RecordsWithdrawn ==
  /\ \A h \in Hubs : phase[h] = "dead" /\ code[h] # "killed" /\ record = h => stuck
  /\ \A d \in Daemons : dmain[d] = "dead" /\ dcode[d] \in {"ended", "failed"} => liveRec # d
=============================================================================
