--------------------------- MODULE AgentBinaries ---------------------------
(***************************************************************************)
(* The cache of agent binaries: how binaries get into it (agent-fetch.ts,  *)
(* agent-cache.ts, the import and prune routes and commands), the queue of *)
(* fetch jobs (api/agents.ts), and the jobs a web client shows             *)
(* (stores/agent-manager.ts).                                              *)
(*                                                                         *)
(* All targets are of one version.  The content of a file is the number of *)
(* the build it holds: NoFile if there is none, Bad if it is truncated or  *)
(* damaged.  A checksum is compared by comparing builds.                   *)
(***************************************************************************)
EXTENDS Integers, FiniteSets, Sequences, SequencesExt

CONSTANTS Targets,      \* os/arch pairs an agent is built for
          Users,        \* connected web clients
          Others,       \* callers of fetchAgentBinary that are not jobs
          Cli,          \* the one of them that is the command line
          MaxJobs,      \* fetch jobs created (bound)
          MaxPresses,   \* requests of a page for one target under way together (bound)
          MaxBuild,     \* builds of a target that are published (bound)
          Concurrency,  \* AGENT_FETCH_GLOBAL_CONCURRENCY
          Casts,        \* the bounds of a behaviour: who takes part, how often each
                        \* target is built and pressed in a row, who may lose its connection,
                        \* what changes on the host (AgentDeploy)
          None

Jobs == 1 .. MaxJobs
NoFile == 0
Bad == -1
Builds == 1 .. MaxBuild
Files == Builds \cup {NoFile, Bad}
Sums == [Targets -> Builds \cup {NoFile}]
Fetchers == Jobs \cup Others

ASSUME BinaryAssumption ==
  /\ MaxJobs \in Nat /\ MaxPresses \in Nat /\ MaxBuild \in Nat /\ Concurrency \in Nat \ {0}
  /\ Cli \in Others /\ None \notin Sums \cup Fetchers \cup Targets /\ Others \cap Jobs = {}
  /\ Casts \subseteq [who : SUBSET (Users \cup Others), builds : [Targets -> 0 .. MaxBuild],
                    presses : [Targets -> 0 .. MaxPresses],
                    drops : SUBSET Users, changes : SUBSET {"key", "agent"}]

VARIABLES
  cast,      \* the cast of this behaviour; never changes
  asset,     \* the build the release offers for each target
  sums,      \* the checksum manifest of the release, None before there is one
  listed,    \* history: the builds some manifest named for a target
  cache,     \* the file of each target in the cache
  kept,      \* the manifest in the cache
  fetch,     \* what each caller of fetchAgentBinary is doing
  byTarget,  \* jobsByTarget
  queue,     \* queuedJobs
  drains,    \* drainFetchQueue scheduled behind a response
  posting,   \* requests of each user: under way, or answered
  online,    \* is the WebSocket of the user open?
  missed,    \* history: was it ever closed?
  mail,      \* ends of jobs broadcast to the user
  shown,     \* jobsById
  buffered,  \* bufferedFetchTerminals
  current,   \* targetJobIds: the job a page shows at a target
  named,     \* history: the jobs a page was told of by an answer
  excused    \* history: those named to it twice, or whose buffered end it dropped

release == <<asset, sums, listed>>
files == <<cache, kept>>
jobs == <<byTarget, queue, drains>>
view == <<current, named, excused>>
pages == <<posting, online, missed, mail, shown, buffered, view>>
binVars == <<cast, release, files, fetch, jobs, pages>>

FetchAt(step, t) == [step |-> step, target |-> t, temp |-> NoFile, sums |-> None, fresh |-> FALSE]
NoFetch == FetchAt("idle", None)
Active == {"open", "manifest", "place"}
Running == {j \in Jobs : fetch[j].step \in Active}
Created == {j \in Jobs : fetch[j].target # None}
Pending(j) == fetch[j].step \in Active \/ j \in Range(queue)

FetchRec == [step : Active \cup {"idle", "queued", "ok", "failed"}, target : Targets \cup {None},
             temp : Files, sums : Sums \cup {None}, fresh : BOOLEAN]
Posts == [target : Targets, nr : 1 .. MaxPresses, answer : {"none"}, job : {0}]
           \cup [target : Targets, nr : 1 .. MaxPresses, answer : {"accepted"}, job : Jobs]

FileTypes ==
  /\ asset \in Sums /\ sums \in Sums \cup {None} /\ listed \subseteq Targets \X Builds
  /\ cache \in [Targets -> Files] /\ kept \in Sums \cup {None}

JobTypes ==
  /\ fetch \in [Fetchers -> FetchRec]
  /\ byTarget \in [Targets -> Jobs \cup {None}]
  /\ queue \in Seq(Jobs) /\ drains \in BOOLEAN

PageTypes ==
  /\ posting \in [Users -> SUBSET Posts]
  /\ online \in [Users -> BOOLEAN] /\ missed \in [Users -> BOOLEAN]
  /\ mail \in [Users -> Seq(Jobs)]
  /\ shown \in [Users -> SUBSET Jobs] /\ buffered \in [Users -> SUBSET Jobs]
  /\ current \in [Users -> [Targets -> Jobs \cup {None}]]
  /\ named \in [Users -> SUBSET Jobs] /\ excused \in [Users -> SUBSET Jobs]

BinTypeOK == cast \in Casts /\ FileTypes /\ JobTypes /\ PageTypes

BinInit ==
  /\ cast \in Casts
  /\ asset = [t \in Targets |-> NoFile] /\ sums = None /\ listed = {}
  /\ cache = [t \in Targets |-> NoFile] /\ kept = None
  /\ fetch = [f \in Fetchers |-> NoFetch]
  /\ byTarget = [t \in Targets |-> None] /\ queue = <<>> /\ drains = FALSE
  /\ posting = [u \in Users |-> {}] /\ online = [u \in Users |-> TRUE]
  /\ missed = [u \in Users |-> FALSE] /\ mail = [u \in Users |-> <<>>]
  /\ shown = [u \in Users |-> {}] /\ buffered = [u \in Users |-> {}]
  /\ current = [u \in Users |-> [t \in Targets |-> None]]
  /\ named = [u \in Users |-> {}] /\ excused = [u \in Users |-> {}]

-----------------------------------------------------------------------------
(* The release.  It is built while hubs already look at it: assets appear, *)
(* or are replaced, one by one, and the manifest lists those of a moment.  *)

PublishAsset(t) ==
  /\ asset[t] < cast.builds[t]
  /\ asset' = [asset EXCEPT ![t] = @ + 1]
  /\ UNCHANGED <<cast, sums, listed, files, fetch, jobs, pages>>

PublishSums ==
  /\ asset # sums /\ sums' = asset
  /\ listed' = listed \cup {<<t, asset[t]>> : t \in {s \in Targets : asset[s] # NoFile}}
  /\ UNCHANGED <<cast, asset, files, fetch, jobs, pages>>

-----------------------------------------------------------------------------
(* fetchAgentBinary.  Whatever fails removes the temporary file.           *)

Fetching(f, rec) == fetch' = [fetch EXCEPT ![f] = rec]
Start(t) == FetchAt("open", t)
Stop(f, result) == FetchAt(result, fetch[f].target)

(* The end of a job is broadcast; then its slot is free, whichever job is  *)
(* registered for its target is forgotten, and the queue drained.          *)
Drained(q, fs, running) ==
  LET n == IF Concurrency - running < Len(q) THEN Concurrency - running ELSE Len(q)
      first == {q[i] : i \in 1 .. n} IN
  [queue |-> SubSeq(q, n + 1, Len(q)),
   fetch |-> [f \in Fetchers |-> IF f \in first THEN [fs[f] EXCEPT !.step = "open"] ELSE fs[f]]]

Ended(f, result) ==
  IF f \in Jobs
  THEN LET rest == Drained(queue, [fetch EXCEPT ![f] = Stop(f, result)], Cardinality(Running) - 1) IN
       /\ fetch' = rest.fetch /\ queue' = rest.queue
       /\ byTarget' = [byTarget EXCEPT ![fetch[f].target] = None]
       /\ mail' = [u \in Users |-> IF online[u] THEN Append(mail[u], f) ELSE mail[u]]
       /\ UNCHANGED <<drains, posting, online, missed, shown, buffered, view>>
  ELSE Fetching(f, Stop(f, result)) /\ UNCHANGED <<jobs, pages>>

(* openAssetResponse: the asset, under its current or its former name. *)
Offered(f) == asset[fetch[f].target] # NoFile

(* writeResponseToTemp: what arrives may not be what was sent. *)
Download(f) ==
  /\ fetch[f].step = "open" /\ Offered(f)
  /\ \E file \in {asset[fetch[f].target], Bad} :
       Fetching(f, [fetch[f] EXCEPT !.step = "manifest", !.temp = file])
  /\ UNCHANGED <<cast, release, files, jobs, pages>>

(* getChecksumManifest: the cached one, or the published one. *)
GetChecksumManifest(f) ==
  /\ fetch[f].step = "manifest"
  /\ kept # None \/ sums # None
  /\ Fetching(f, [fetch[f] EXCEPT !.step = "place", !.fresh = kept = None,
                    !.sums = IF kept # None THEN kept ELSE sums])
  /\ UNCHANGED <<cast, release, files, jobs, pages>>

VerifiesIfListed(m, t, file) == m[t] \in {file, NoFile}

(* parseChecksumManifest, verifyAndPlace: the manifest names the file. *)
Verifies(m, t, file) == m[t] # NoFile /\ m[t] = file

(* verifyChecksumAndPlace: a manifest is kept once it has verified a file. *)
Place(f) ==
  LET t == fetch[f].target m == fetch[f].sums IN
  /\ fetch[f].step = "place"
  /\ IF Verifies(m, t, fetch[f].temp)
     THEN /\ cache' = [cache EXCEPT ![t] = fetch[f].temp]
          /\ kept' = IF fetch[f].fresh THEN m ELSE kept
          /\ Ended(f, "ok")
     ELSE Ended(f, "failed") /\ UNCHANGED files
  /\ UNCHANGED <<cast, release>>

(* No asset, no manifest, a timeout, a refused response, a full disk. *)
FetchFails(f) ==
  /\ fetch[f].step \in Active \ {"place"}
  /\ Ended(f, "failed")
  /\ UNCHANGED <<cast, release, files>>

FetchStep(f) ==
  Download(f) \/ GetChecksumManifest(f) \/ Place(f) \/ FetchFails(f)

(* computeRemoteTargetStatus: there is a file of this version. *)
Cached(t) == cache[t] # NoFile

(* cmdAgentFetch: another process, one target. *)
CliFetch(t) ==
  /\ Cli \in cast.who
  /\ fetch[Cli].step = "idle" /\ ~Cached(t)
  /\ Fetching(Cli, Start(t))
  /\ UNCHANGED <<cast, release, files, jobs, pages>>

(* Import: the operator supplies a binary and a manifest and attests both; *)
(* files that do not match each other are refused.  The file in place is   *)
(* replaced only by force.                                                 *)
Supplied(t) == 1 .. asset[t]

Import(t, force) ==
  /\ ~Cached(t) \/ force
  /\ \E b \in Supplied(t) \ {cache[t]} :
       /\ cache' = [cache EXCEPT ![t] = b]
       /\ listed' = listed \cup {<<t, b>>}
  /\ UNCHANGED <<cast, asset, sums, kept, fetch, jobs, pages>>

ImportUpload(t) == \E force \in BOOLEAN : Import(t, force)   \* /api/agents/import
CmdAgentImport(t) == \E force \in BOOLEAN : Import(t, force)

(* Prune, to another version: no binary of this one is left, manifests are. *)
Prune ==
  /\ cache # [t \in Targets |-> NoFile]
  /\ cache' = [t \in Targets |-> NoFile]
  /\ UNCHANGED <<cast, release, kept, fetch, jobs, pages>>

-----------------------------------------------------------------------------
(* POST /api/agents/fetch.                                                 *)

Unanswered(t, n) == [target |-> t, nr |-> n, answer |-> "none", job |-> 0]
Accepted(t, n, j) == [target |-> t, nr |-> n, answer |-> "accepted", job |-> j]
Reply(u, p, q) == posting' = [posting EXCEPT ![u] = (@ \ {p}) \cup {q}]

(* The button of a target is disabled while a job is shown there           *)
(* (isTargetInFlight), not while a request is under way: it may be pressed *)
(* again before the answer.                                                *)
Pressable(u, t) == current[u][t] = None

(* A job that is registered for the target is joined; otherwise the cache  *)
(* is examined, which takes a while.                                       *)
PostFetch(u, t) ==
  /\ u \in cast.who
  /\ Pressable(u, t)
  /\ Cardinality(Created) < MaxJobs
  /\ \E n \in 1 .. cast.presses[t] :
       /\ \A p \in posting[u] : p.target = t => p.nr < n
       /\ posting' = [posting EXCEPT ![u] = @ \cup
            {IF byTarget[t] # None THEN Accepted(t, n, byTarget[t]) ELSE Unanswered(t, n)}]
  /\ UNCHANGED <<cast, release, files, fetch, jobs, online, missed, mail, shown, buffered, view>>

(* The cache was examined: a new job, unless the target is cached.  The    *)
(* queue is drained when the response is out, which an aborted request     *)
(* never is.                                                               *)
CreateJob(u) ==
  /\ \E p \in posting[u] :
       /\ p.answer = "none"
       /\ \/ /\ Cached(p.target)
             /\ posting' = [posting EXCEPT ![u] = @ \ {p}]
             /\ UNCHANGED <<fetch, jobs>>
          \/ /\ ~Cached(p.target) /\ Cardinality(Created) < MaxJobs
             /\ LET j == Cardinality(Created) + 1 IN
                  /\ Fetching(j, FetchAt("queued", p.target))
                  /\ byTarget' = [byTarget EXCEPT ![p.target] = j]
                  /\ queue' = Append(queue, j)
                  /\ \/ drains' = TRUE /\ Reply(u, p, Accepted(p.target, p.nr, j))
                     \/ UNCHANGED drains /\ posting' = [posting EXCEPT ![u] = @ \ {p}]
  /\ UNCHANGED <<cast, release, files, online, missed, mail, shown, buffered, view>>

DrainFetchQueue ==
  /\ drains /\ drains' = FALSE
  /\ LET rest == Drained(queue, fetch, Cardinality(Running)) IN
       queue' = rest.queue /\ fetch' = rest.fetch
  /\ UNCHANGED <<cast, release, files, byTarget, pages>>

-----------------------------------------------------------------------------
(* The web client.  Responses and broadcasts come over two connections, in *)
(* either order.                                                           *)

Tell(u, j) ==
  /\ named' = [named EXCEPT ![u] = @ \cup {j}]
  /\ excused' = [excused EXCEPT ![u] = IF j \in named[u] THEN @ \cup {j} ELSE @]

RecordWithoutReplay(u) ==
  /\ \E p \in posting[u] :
       /\ p.answer = "accepted"
       /\ posting' = [posting EXCEPT ![u] = @ \ {p}]
       /\ shown' = [shown EXCEPT ![u] = @ \cup {p.job}]
       /\ current' = [current EXCEPT ![u][p.target] = p.job]
       /\ Tell(u, p.job)
  /\ UNCHANGED <<cast, release, files, fetch, jobs, online, missed, mail, buffered>>

(* recordAcceptedFetch: the end of the job may have been heard already. *)
RecordAcceptedFetch(u) ==
  /\ \E p \in posting[u] :
       /\ p.answer = "accepted"
       /\ posting' = [posting EXCEPT ![u] = @ \ {p}]
       /\ Tell(u, p.job)
       /\ IF p.job \in buffered[u]
          THEN /\ buffered' = [buffered EXCEPT ![u] = @ \ {p.job}]
               /\ shown' = [shown EXCEPT ![u] = @ \ {p.job}]
               /\ current' = [current EXCEPT ![u][p.target] = None]
          ELSE /\ shown' = [shown EXCEPT ![u] = @ \cup {p.job}]
               /\ current' = [current EXCEPT ![u][p.target] = p.job]
               /\ UNCHANGED buffered
  /\ UNCHANGED <<cast, release, files, fetch, jobs, online, missed, mail>>

(* removeJob: the target shows no job any more, if it showed this one. *)
Removed(row, j) == [t \in Targets |-> IF row[t] = j THEN None ELSE row[t]]

(* handleAgentFetchDone, handleAgentFetchError. *)
FetchTerminal(u) ==
  /\ mail[u] # <<>>
  /\ mail' = [mail EXCEPT ![u] = Tail(@)]
  /\ IF Head(mail[u]) \in shown[u]
     THEN /\ shown' = [shown EXCEPT ![u] = @ \ {Head(mail[u])}]
          /\ current' = [current EXCEPT ![u] = Removed(@, Head(mail[u]))]
          /\ UNCHANGED buffered
     ELSE buffered' = [buffered EXCEPT ![u] = @ \cup {Head(mail[u])}] /\ UNCHANGED <<shown, current>>
  /\ UNCHANGED <<cast, release, files, fetch, jobs, posting, online, missed, named, excused>>

(* handleAgentFetchProgress: a job that is shown takes its target's place. *)
FetchProgress(u) ==
  /\ online[u]
  /\ \E j \in shown[u] \cap (Running \cup Range(mail[u])) :
       current' = [current EXCEPT ![u][fetch[j].target] = j]
  /\ UNCHANGED <<cast, release, files, fetch, jobs, posting, online, missed, mail, shown, buffered,
                 named, excused>>

(* pruneBufferedFetchTerminals: too old, or one of too many. *)
PruneBuffered(u) ==
  /\ \E j \in buffered[u] :
       /\ buffered' = [buffered EXCEPT ![u] = @ \ {j}]
       /\ excused' = [excused EXCEPT ![u] = @ \cup {j}]
  /\ UNCHANGED <<cast, release, files, fetch, jobs, posting, online, missed, mail, shown, current, named>>

(* The connection breaks and comes back; what was broadcast is lost. *)
Disconnect(u) ==
  /\ u \in cast.drops
  /\ online[u] /\ ~missed[u]
  /\ online' = [online EXCEPT ![u] = FALSE] /\ missed' = [missed EXCEPT ![u] = TRUE]
  /\ mail' = [mail EXCEPT ![u] = <<>>]
  /\ UNCHANGED <<cast, release, files, fetch, jobs, posting, shown, buffered, view>>

Reconnect(u) ==
  /\ ~online[u] /\ online' = [online EXCEPT ![u] = TRUE]
  /\ UNCHANGED <<cast, release, files, fetch, jobs, posting, missed, mail, shown, buffered, view>>

-----------------------------------------------------------------------------
PageStep(u) ==
  \/ \E t \in Targets : PostFetch(u, t)
  \/ CreateJob(u) \/ RecordAcceptedFetch(u) \/ FetchTerminal(u)
  \/ FetchProgress(u) \/ PruneBuffered(u)
  \/ Disconnect(u) \/ Reconnect(u)

BinNext ==
  \/ \E t \in Targets : PublishAsset(t) \/ CliFetch(t) \/ ImportUpload(t) \/ CmdAgentImport(t)
  \/ PublishSums \/ Prune \/ DrainFetchQueue
  \/ \E f \in Fetchers : FetchStep(f)
  \/ \E u \in Users : PageStep(u)

(* What is in the cache was named, for its target, by a manifest of the    *)
(* release or of an attested import, however fetches, imports and the      *)
(* making of the release interleave: it is uploaded to hosts without a     *)
(* question (verifyAndPlace, resolveLocalAgentBinary).                     *)
CacheVouched == \A t \in Targets : cache[t] # NoFile => <<t, cache[t]>> \in listed

(* A page whose connection held shows no job that is over, unless the news *)
(* of it is on its way: a job that ended before the page knew its number   *)
(* is not shown for ever (bufferedFetchTerminals).  Except in two cases:   *)
(* two answers named the job to the page, as the button can be pressed     *)
(* again before the first, and the first took the remembered end; or that  *)
(* end was dropped from the buffer before the answer came.                 *)
ShownJobIsLive ==
  \A u \in Users : ~missed[u] =>
    \A j \in shown[u] : Pending(j) \/ j \in Range(mail[u]) \/ j \in excused[u]

=============================================================================
