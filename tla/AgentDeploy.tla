---------------------------- MODULE AgentDeploy ----------------------------
(***************************************************************************)
(* Connecting to a host over SSH: the key of the host is verified, the     *)
(* agent on it is compared with the cache, replaced or trusted, and run    *)
(* (session-manager.ts _connectSshAgent, ssh-agent.ts start,               *)
(* agent-deployer.ts).  One host; its platform is Platform.                *)
(***************************************************************************)
EXTENDS AgentBinaries

CONSTANTS Platform,   \* the target of the host
          Keys        \* keys the host may show

Conns == Others \ {Cli}    \* each connects once
Unknown == -2              \* a remote checksum that could not be computed

ASSUME DeployAssumption == Platform \in Targets /\ Keys # {} /\ None \notin Keys

VARIABLES
  hostKey,   \* the key the host shows
  remote,    \* the agent on the host
  storedFp,  \* the trusted fingerprint of the host record
  onceFp,    \* trustedOnceFingerprints
  pinned,    \* the pinned agent checksum of the host record
  onceSha,   \* trustedAgentSha256
  conn,      \* what each connection is doing
  consent    \* history: what the user was asked about and agreed to

hub == <<storedFp, onceFp, pinned, onceSha>>
host == <<hostKey, remote>>
depVars == <<hub, host, conn, consent>>
allVars == <<binVars, depVars>>

Idle == [step |-> "idle", fps |-> {}, key |-> None, retried |-> FALSE, trusted |-> {},
         found |-> FALSE, sha |-> NoFile, local |-> NoFile]
Settled == {"idle", "up", "failed"}

ConnRec == [step : Settled \cup {"auth", "dial", "askKey", "check", "local", "fetching", "upload",
                                 "uploading", "askAgent", "run"},
            fps : SUBSET Keys, key : Keys \cup {None}, retried : BOOLEAN,
            trusted : SUBSET (Files \cup {Unknown}), found : BOOLEAN,
            sha : Files \cup {Unknown}, local : Files]

HostTypes ==
  /\ hostKey \in Keys /\ remote \in Files
  /\ {storedFp, onceFp} \subseteq Keys \cup {None}
  /\ {pinned, onceSha} \subseteq Files \cup {Unknown, None}
  /\ conn \in [Conns -> ConnRec]

DeployTypeOK == BinTypeOK /\ HostTypes

DeployInit ==
  /\ BinInit
  /\ hostKey = CHOOSE k \in Keys : TRUE
  /\ remote \in {NoFile, Bad}
  /\ storedFp = None /\ onceFp = None /\ pinned = None /\ onceSha = None
  /\ conn = [d \in Conns |-> Idle] /\ consent = {}

At(d, step) == conn[d].step = step
Go(d, rec) == conn' = [conn EXCEPT ![d] = rec]
To(d, step) == Go(d, [conn[d] EXCEPT !.step = step])
Fail(d) == To(d, "failed") /\ UNCHANGED <<binVars, hub, host, consent>>

-----------------------------------------------------------------------------
(* The host: its key changes, and somebody installs an agent by hand.      *)

HostChanges ==
  /\ \/ "key" \in cast.changes /\ hostKey' \in Keys \ {hostKey} /\ UNCHANGED remote
     \/ "agent" \in cast.changes /\ remote' \in {NoFile, Bad} \ {remote} /\ UNCHANGED hostKey
  /\ \A d \in Conns : ~At(d, "uploading")
  /\ UNCHANGED <<binVars, hub, conn, consent>>

-----------------------------------------------------------------------------
(* The key.  A host has one connection in the making; what is trusted is   *)
(* read when it starts (_buildDeployOpts).                                 *)

Connect(d) ==
  /\ d \in cast.who /\ At(d, "idle") /\ \A e \in Conns : conn[e].step \in Settled
  /\ Go(d, [Idle EXCEPT !.step = "auth", !.fps = {storedFp, onceFp} \ {None},
                        !.trusted = {pinned, onceSha} \ {None}])
  /\ UNCHANGED <<binVars, hub, host, consent>>

(* buildSshConnectConfig: a password or a passphrase is asked for. *)
Authenticate(d) ==
  /\ At(d, "auth") /\ To(d, "dial")
  /\ UNCHANGED <<binVars, hub, host, consent>>

(* hostVerifier: an unknown key ends the attempt; the user is asked once. *)
HostVerifier(d) ==
  /\ At(d, "dial")
  /\ Go(d, [conn[d] EXCEPT !.key = hostKey,
              !.step = IF hostKey \in conn[d].fps THEN "check"
                       ELSE IF conn[d].retried THEN "failed" ELSE "askKey"])
  /\ UNCHANGED <<binVars, hub, host, consent>>

(* promptHostKeyVerify, and the second attempt, for the key that was asked *)
(* about and no other.                                                     *)
TrustHostKey(d) ==
  LET k == conn[d].key IN
  /\ At(d, "askKey")
  /\ \/ storedFp' = k /\ UNCHANGED onceFp
     \/ onceFp' = k /\ UNCHANGED storedFp
  /\ Go(d, [conn[d] EXCEPT !.step = "auth", !.retried = TRUE, !.fps = {k}])
  /\ consent' = consent \cup {k}
  /\ UNCHANGED <<binVars, pinned, onceSha, host>>

-----------------------------------------------------------------------------
(* deployAgentIfNeeded.                                                    *)

(* checkRemoteAgent, getRemoteSha256: an error counts as no agent, or as   *)
(* no checksum.                                                            *)
CheckRemoteAgent(d) ==
  /\ At(d, "check")
  /\ \E found \in {remote # NoFile, FALSE} : \E sha \in {remote, Unknown} :
       Go(d, [conn[d] EXCEPT !.step = "local", !.found = found,
                !.sha = IF found THEN sha ELSE NoFile])
  /\ UNCHANGED <<binVars, hub, host, consent>>

(* What is done with the agent on the host, given the local file. *)
FreshDeploy(c) == ~c.found
Compared(c, file) == IF ~FreshDeploy(c) /\ c.sha = file THEN "run" ELSE "upload"

VerifiedUnknown(c) ==
  CASE ~c.found -> "failed"
    [] c.found /\ (c.sha = Unknown \/ c.sha \in c.trusted) -> "run"
    [] OTHER -> "askAgent"

Verified(c) ==
  CASE ~c.found \/ c.sha = Unknown -> "failed"
    [] c.found /\ c.sha \in c.trusted -> "run"
    [] OTHER -> "askAgent"

(* resolveLocalAgentBinary: the cache, a fetch by a packaged hub, nothing. *)
ResolveLocalAgentBinary(d) ==
  /\ At(d, "local")
  /\ \/ /\ Cached(Platform)
        /\ Go(d, [conn[d] EXCEPT !.local = cache[Platform],
                    !.step = Compared(conn[d], cache[Platform])])
        /\ UNCHANGED binVars
     \/ /\ ~Cached(Platform)
        /\ fetch' = [fetch EXCEPT ![d] = Start(Platform)]
        /\ To(d, "fetching")
        /\ UNCHANGED <<cast, release, files, jobs, pages>>
     \/ /\ ~Cached(Platform)
        /\ To(d, Verified(conn[d])) /\ UNCHANGED binVars
  /\ UNCHANGED <<hub, host, consent>>

(* A fetched file may have been pruned before it is read. *)
AutoFetched(d) ==
  /\ At(d, "fetching") /\ fetch[d].step \in {"ok", "failed"}
  /\ IF fetch[d].step = "failed" THEN To(d, "failed")
     ELSE Go(d, [conn[d] EXCEPT !.local = cache[Platform],
                   !.step = Compared(conn[d], cache[Platform])])
  /\ UNCHANGED <<binVars, hub, host, consent>>

(* uploadAgentBinary: the file in the cache when it is opened, written     *)
(* over the agent on the host.                                             *)
UploadStarts(d) ==
  /\ At(d, "upload") /\ Cached(Platform)
  /\ remote' = Bad
  /\ Go(d, [conn[d] EXCEPT !.step = "uploading", !.sha = cache[Platform]])
  /\ UNCHANGED <<binVars, hostKey, hub, consent>>

(* A replaced agent is pinned, with the checksum that was compared. *)
UploadEnds(d) ==
  /\ At(d, "uploading")
  /\ remote' = conn[d].sha
  /\ pinned' = IF conn[d].found /\ conn[d].local # NoFile THEN conn[d].local ELSE pinned
  /\ To(d, "run")
  /\ UNCHANGED <<binVars, hostKey, storedFp, onceFp, onceSha, consent>>

(* promptBinaryVerify *)
TrustAgent(d) ==
  /\ At(d, "askAgent")
  /\ \/ pinned' = conn[d].sha /\ UNCHANGED onceSha
     \/ onceSha' = conn[d].sha /\ UNCHANGED pinned
  /\ consent' = consent \cup {conn[d].sha}
  /\ To(d, "run")
  /\ UNCHANGED <<binVars, storedFp, onceFp, host>>

RunAgent(d) == At(d, "run") /\ To(d, "up") /\ UNCHANGED <<binVars, hub, host, consent>>

(* A rejected prompt, an SSH or SFTP error, a HELLO that does not come, an *)
(* aborted attempt: nothing is run.  A fetch goes on.                      *)
ConnectFails(d) == conn[d].step \notin Settled /\ Fail(d)

ConnectStep(d) ==
  \/ Authenticate(d) \/ HostVerifier(d) \/ TrustHostKey(d) \/ CheckRemoteAgent(d)
  \/ ResolveLocalAgentBinary(d) \/ AutoFetched(d) \/ UploadStarts(d) \/ UploadEnds(d)
  \/ TrustAgent(d) \/ RunAgent(d) \/ ConnectFails(d)

DeployNext ==
  \/ BinNext /\ UNCHANGED depVars
  \/ HostChanges
  \/ \E d \in Conns : Connect(d) \/ ConnectStep(d)

DeploySpec == DeployInit /\ [][DeployNext]_allVars

(* An agent is run only on a host whose key the user agreed to, and only   *)
(* if it came from the verified cache or the user agreed to its checksum,  *)
(* now or earlier; whatever failed before, nothing else is run instead     *)
(* (ssh-agent.ts, "do NOT fall back to running a possibly-unverified       *)
(* binary").                                                               *)
RunsTrusted ==
  \A d \in Conns : conn[d].step \in {"run", "up"} =>
    /\ conn[d].key \in consent
    /\ conn[d].sha \in consent \/ <<Platform, conn[d].sha>> \in listed
=============================================================================
