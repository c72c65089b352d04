----------------------------- MODULE WebClient -----------------------------
(***************************************************************************)
(* The channel list of the web client: stores/channels.ts, filled by REST  *)
(* reads and kept current by the messages of one WebSocket, and the        *)
(* reconnect of stores/session.ts.  REST answers and messages travel       *)
(* independently, so each may be older than the other.                     *)
(*                                                                         *)
(* A channel is its status, a group the host it belongs to; titles, names  *)
(* and the order are left out, the edits that change them optimistically   *)
(* are not: what they restore when they fail is a whole list or row.       *)
(***************************************************************************)
EXTENDS Integers, Sequences, FiniteSets, TLC

CONSTANTS Hosts, Channels, HostOf, None,
          Groups, GroupOf,   \* channel groups, and the host of each
          Casts,        \* the channels and groups a behaviour may have
          MaxFetch,     \* calls of fetchChannels (bound)
          MaxChanges,   \* changes on the hub (bound)
          MaxDrops,     \* lost connections (bound)
          MaxCalls      \* edits and deletions (bound)

ASSUME WebAssumption ==
  /\ HostOf \in [Channels -> Hosts]
  /\ GroupOf \in [Groups -> Hosts]
  /\ Casts \subseteq [channels : SUBSET Channels, groups : SUBSET Groups]
  /\ None \notin Hosts
  /\ {MaxFetch, MaxChanges, MaxDrops, MaxCalls} \subseteq Nat

VARIABLES
  cast,      \* never changes
  groups,    \* the channel_groups table
  shown,     \* groups.value: the groups that are displayed
  rows,      \* the channels table of the hub: "none", "live" or "dead"
  changes,   \* changes made so far
  wire,      \* messages on their way to this client
  conn,      \* "up", "down", or "refresh": reconnected, hosts being fetched
  drops,
  host,      \* activeHostId
  list,      \* channels.value: a status for each listed channel
  gen,       \* fetchGeneration
  loading,
  error,
  fetches,   \* calls of fetchChannels in flight
  pending,   \* pendingStatuses
  sync,      \* lastSyncIds, None or a set of channels
  spawn,     \* host for which spawnChannel waits, or None (bound: one at a time)
  calls,     \* edits and deletions in flight
  made,      \* calls made so far
  taken,     \* channels that a rollback or a removal took off the list
  restored   \* the list is one that a failed edit has put back

hubVars == <<cast, groups, rows, changes>>
connVars == <<conn, drops>>
fetchVars == <<host, gen, loading, error, fetches>>
storeVars == <<list, pending, sync>>
callVars == <<calls, made, taken, restored>>
vars == <<hubVars, shown, wire, connVars, fetchVars, storeVars, spawn, callVars>>

Empty == <<>>
Status == {"live", "dead"}
Partial == UNION {[S -> Status] : S \in SUBSET Channels}
Without(f, S) == [c \in DOMAIN f \ S |-> f[c]]
GroupsOf(h) == {g \in groups : GroupOf[g] = h}
RowsOf(h) == [c \in {d \in Channels : HostOf[d] = h /\ rows[d] # "none"} |-> rows[c]]

TypeOK ==
  /\ rows \in [Channels -> Status \cup {"none"}]
  /\ cast \in Casts /\ groups \subseteq cast.groups /\ shown \subseteq cast.groups
  /\ conn \in {"up", "down", "refresh"}
  /\ host \in Hosts \cup {None}
  /\ list \in Partial /\ pending \in Partial
  /\ sync # None => sync \subseteq Channels
  /\ loading \in BOOLEAN /\ error \in BOOLEAN
  /\ \A f \in fetches :
        f.gen \in 1 .. gen /\ f.host \in Hosts /\ f.added \subseteq Channels
        /\ (f.rows # None => f.rows \in Partial)
        /\ (f.groups # None => f.groups \subseteq Groups)
  /\ spawn \in Hosts \cup {None} /\ taken \subseteq Channels /\ restored \in BOOLEAN
  /\ (conn = "down" => wire = <<>>)

(* AUTH_OK and STATE_SYNC have been handled, no host is selected yet. *)
Init ==
  /\ cast \in Casts /\ groups \in SUBSET cast.groups /\ shown = {}
  /\ rows \in [Channels -> {"none", "live"}]
  /\ \A c \in Channels \ cast.channels : rows[c] = "none"
  /\ changes = 0 /\ wire = <<>> /\ conn = "up" /\ drops = 0
  /\ host = None /\ list = Empty /\ gen = 0
  /\ loading = FALSE /\ error = FALSE /\ fetches = {}
  /\ sync = {c \in Channels : rows[c] = "live"}
  /\ pending = [c \in sync |-> "live"]
  /\ spawn = None /\ calls = {} /\ made = 0 /\ taken = {} /\ restored = FALSE

-----------------------------------------------------------------------------
(* The hub.                                                                *)

(* A broadcast reaches the client while it is connected. *)
Broadcast(m) == wire' = IF conn = "down" THEN wire ELSE Append(wire, m)

(* CHANNEL_STATE goes to the clients attached to the channel, to all of    *)
(* them when there is none.                                                *)
SendState(c, s) ==
  Broadcast([type |-> "STATE", ch |-> c, status |-> s]) \/ UNCHANGED wire

HubChange(c, s) ==
  /\ changes < MaxChanges
  /\ changes' = changes + 1
  /\ rows' = [rows EXCEPT ![c] = s]
  /\ UNCHANGED <<cast, groups>>

(* A client spawn a channel: CHANNEL_CREATED to everyone. *)
HubCreate(c) ==
  /\ rows[c] = "none" /\ c \in cast.channels
  /\ HubChange(c, "live")
  /\ Broadcast([type |-> "CREATED", ch |-> c])
  /\ UNCHANGED <<shown, connVars, fetchVars, storeVars, spawn, callVars>>

(* A shell exits, or a dead channel is restarted. *)
HubStatus(c) ==
  /\ rows[c] # "none"
  /\ \E s \in Status \ {rows[c]} :
       HubChange(c, s) /\ SendState(c, s)
  /\ UNCHANGED <<shown, connVars, fetchVars, storeVars, spawn, callVars>>

(* Another client purges a dead channel; nobody is told. *)
HubPurge(c) ==
  /\ rows[c] = "dead"
  /\ HubChange(c, "none")
  /\ UNCHANGED <<wire, shown, connVars, fetchVars, storeVars, spawn, callVars>>

(* A group is created or deleted; nobody is told. *)
GroupRow(g, exists) ==
  /\ changes < MaxChanges /\ g \in cast.groups
  /\ changes' = changes + 1
  /\ groups' = IF exists THEN groups \cup {g} ELSE groups \ {g}
  /\ UNCHANGED <<cast, rows>>

(* Another client does so. *)
HubGroup(g) ==
  /\ GroupRow(g, g \notin groups)
  /\ UNCHANGED <<shown, wire, connVars, fetchVars, storeVars, spawn, callVars>>

-----------------------------------------------------------------------------
(* fetchChannels.                                                          *)

(* A table that stays empty has been read as soon as it is asked for. *)
Unread == IF cast.groups = {} THEN {} ELSE None

FetchStart(h) ==
  LET hostChanged == host # h \/ list = Empty IN
  /\ gen < MaxFetch
  /\ gen' = gen + 1
  /\ loading' = TRUE /\ error' = FALSE
  /\ host' = h
  /\ list' = IF hostChanged THEN Empty ELSE list
  /\ pending' = IF hostChanged THEN Empty ELSE pending
  /\ sync' = IF hostChanged THEN None ELSE sync
  /\ fetches' = fetches \cup {[gen |-> gen + 1, host |-> h, rows |-> None, groups |-> Unread, added |-> {}]}

(* The user selects a host, or something refreshes the one that is shown. *)
SelectHost ==
  /\ conn # "down"
  /\ \E h \in Hosts : FetchStart(h)
  /\ UNCHANGED <<hubVars, wire, shown, connVars, spawn, callVars>>

(* The hub answers one of the two requests. *)
FetchRead ==
  \E f \in fetches :
    /\ \/ f.rows = None /\ fetches' = (fetches \ {f}) \cup {[f EXCEPT !.rows = RowsOf(f.host)]}
       \/ f.groups = None /\ fetches' = (fetches \ {f}) \cup {[f EXCEPT !.groups = GroupsOf(f.host)]}
    /\ UNCHANGED <<hubVars, wire, shown, connVars, host, gen, loading, error, storeVars, spawn, callVars>>

MergedSnapshotOnly(f) == f.rows

(* The REST rows and the channels that CHANNEL_CREATED added meanwhile. *)
Merged(f) ==
  f.rows @@ [c \in (f.added \cap DOMAIN list) \ DOMAIN f.rows |-> list[c]]

(* Statuses that were buffered, and channels the last STATE_SYNC left out. *)
Reconciled(merged) ==
  [c \in DOMAIN merged |->
     LET s == IF c \in DOMAIN pending THEN pending[c] ELSE merged[c] IN
     IF sync # None /\ s # "dead" /\ c \notin sync THEN "dead" ELSE s]

(* finally: only the newest call ends the loading state. *)
FetchDone(f) == loading' = IF f.gen = gen THEN FALSE ELSE loading

Superseded(f) == f.gen # gen

FetchCommit ==
  \E f \in fetches :
    /\ f.rows # None /\ f.groups # None
    /\ fetches' = fetches \ {f}
    /\ FetchDone(f)
    /\ IF Superseded(f)
       THEN UNCHANGED <<storeVars, shown, taken, restored>>
       ELSE /\ list' = Reconciled(Merged(f))
            /\ shown' = f.groups
            /\ pending' = Empty /\ sync' = None
            /\ taken' = taken \ DOMAIN f.rows /\ restored' = FALSE
    /\ UNCHANGED <<hubVars, wire, connVars, host, gen, error, spawn, calls, made>>

FetchFail ==
  \E f \in fetches :
    /\ fetches' = fetches \ {f}
    /\ error' = IF f.gen = gen THEN TRUE ELSE error
    /\ FetchDone(f)
    /\ UNCHANGED <<hubVars, wire, shown, connVars, host, gen, storeVars, spawn, callVars>>

-----------------------------------------------------------------------------
(* Messages.                                                               *)

(* updateChannelStatus *)
DeliverState(m) ==
  /\ IF m.ch \in DOMAIN list
     THEN list' = [list EXCEPT ![m.ch] = m.status] /\ UNCHANGED pending
     ELSE pending' = (m.ch :> m.status) @@ pending /\ UNCHANGED list
  /\ UNCHANGED <<sync, fetches>>

DeliverCreatedAnyHost(m) ==
  /\ pending' = Without(pending, {m.ch})
  /\ IF m.ch \in DOMAIN list
     THEN UNCHANGED <<list, fetches>>
     ELSE /\ list' = (m.ch :> "live") @@ list
          /\ fetches' = {[f EXCEPT !.added = @ \cup {m.ch}] : f \in fetches}
  /\ UNCHANGED sync

(* handleChannelCreated *)
DeliverCreated(m) ==
  IF HostOf[m.ch] # host
  THEN UNCHANGED <<storeVars, fetches>>
  ELSE /\ pending' = Without(pending, {m.ch})
       /\ IF m.ch \in DOMAIN list
          THEN UNCHANGED <<list, fetches>>
          ELSE /\ list' = (m.ch :> "live") @@ list
               /\ fetches' = {[f EXCEPT !.added = @ \cup {m.ch}] : f \in fetches}
       /\ UNCHANGED sync

(* applyStateSync: listed channels that the hub does not name are dead,    *)
(* named channels that are not listed wait for the next fetch.             *)
DeliverSync(m) ==
  /\ sync' = m.ids
  /\ list' = [c \in DOMAIN list |-> IF c \in m.ids THEN "live" ELSE "dead"]
  /\ pending' = [c \in m.ids \ DOMAIN list |-> "live"] @@ pending
  /\ UNCHANGED fetches

Deliver ==
  /\ wire # <<>>
  /\ wire' = Tail(wire)
  /\ LET m == Head(wire) IN
     \/ m.type = "STATE" /\ DeliverState(m)
     \/ m.type = "CREATED" /\ DeliverCreated(m)
     \/ m.type = "SYNC" /\ DeliverSync(m)
  /\ UNCHANGED <<hubVars, shown, connVars, host, gen, loading, error, spawn, callVars>>

(* spawnChannel waits for a SPAWN_OK, whichever spawn it answers, and      *)
(* refreshes the host it had asked for.                                    *)
Spawn ==
  /\ spawn = None /\ conn # "down"
  /\ spawn' \in Hosts
  /\ UNCHANGED <<hubVars, wire, shown, connVars, fetchVars, storeVars, callVars>>

SpawnOk ==
  /\ spawn # None /\ conn # "down"
  /\ spawn' = None
  /\ FetchStart(spawn)
  /\ UNCHANGED <<hubVars, wire, shown, connVars, callVars>>

(* ERROR or the timeout of ten seconds. *)
SpawnFails ==
  /\ spawn # None
  /\ spawn' = None
  /\ UNCHANGED <<hubVars, wire, shown, connVars, fetchVars, storeVars, callVars>>

-----------------------------------------------------------------------------
(* Edits and deletions.                                                    *)

Call(r) == made < MaxCalls /\ made' = made + 1 /\ calls' = calls \cup {r}
Return(r) == calls' = calls \ {r}

(* moveChannelToGroup, setWelcomeChannel, clearWelcomeChannel *)
EditList ==
  /\ list # Empty
  /\ Call([type |-> "list", old |-> list])
  /\ UNCHANGED <<hubVars, wire, shown, connVars, fetchVars, storeVars, spawn, taken, restored>>

(* renameChannel *)
EditRow ==
  /\ \E c \in DOMAIN list : Call([type |-> "row", ch |-> c, old |-> list[c]])
  /\ UNCHANGED <<hubVars, wire, shown, connVars, fetchVars, storeVars, spawn, taken, restored>>

(* removeChannel and deleteChannel: the hub kills a live channel and       *)
(* forgets a dead one, or the request fails.                               *)
RequestDelete ==
  /\ \E c \in DOMAIN list :
       \/ /\ rows[c] = "live" /\ HubChange(c, "dead") /\ SendState(c, "dead")
          /\ Call([type |-> "delete", ch |-> c, ok |-> TRUE])
       \/ /\ rows[c] = "dead" /\ HubChange(c, "none") /\ UNCHANGED wire
          /\ Call([type |-> "delete", ch |-> c, ok |-> TRUE])
       \/ /\ Call([type |-> "delete", ch |-> c, ok |-> FALSE])
          /\ UNCHANGED <<hubVars, wire>>
  /\ UNCHANGED <<shown, connVars, fetchVars, storeVars, spawn, taken, restored>>

(* purgeDeadChannels *)
RequestPurge ==
  /\ host # None /\ changes < MaxChanges
  /\ Call([type |-> "purge"])
  /\ changes' = changes + 1
  /\ rows' = [c \in Channels |->
                IF HostOf[c] = host /\ rows[c] = "dead" THEN "none" ELSE rows[c]]
  /\ UNCHANGED <<cast, groups, wire, shown, connVars, fetchVars, storeVars, spawn, taken, restored>>

EditOk ==
  \E r \in calls :
    /\ r.type \in {"list", "row"}
    /\ Return(r)
    /\ UNCHANGED <<hubVars, wire, shown, connVars, fetchVars, storeVars, spawn, made, taken, restored>>

EditListFails ==
  \E r \in calls :
    /\ r.type = "list"
    /\ Return(r)
    /\ list' = r.old
    /\ taken' = Channels /\ restored' = TRUE
    /\ UNCHANGED <<hubVars, wire, shown, connVars, fetchVars, pending, sync, spawn, made>>

(* The rollback restores the row, status included, and fetches the list. *)
EditRowFails ==
  \E r \in calls :
    /\ r.type = "row"
    /\ Return(r)
    /\ LET back == IF r.ch \in DOMAIN list THEN [list EXCEPT ![r.ch] = r.old] ELSE list IN
       IF host = None THEN list' = back /\ UNCHANGED <<fetchVars, pending, sync>>
       ELSE /\ gen < MaxFetch
            /\ gen' = gen + 1 /\ loading' = TRUE /\ error' = FALSE
            /\ list' = back
            /\ pending' = IF list = Empty THEN Empty ELSE pending
            /\ sync' = IF list = Empty THEN None ELSE sync
            /\ fetches' = fetches \cup
                  {[gen |-> gen + 1, host |-> host, rows |-> None, groups |-> Unread, added |-> {}]}
            /\ UNCHANGED host
    /\ UNCHANGED <<hubVars, wire, shown, connVars, spawn, made, taken, restored>>

Unlist(S) ==
  /\ list' = Without(list, S)
  /\ taken' = taken \cup S
  /\ UNCHANGED <<hubVars, wire, shown, connVars, fetchVars, pending, sync, spawn, made, restored>>

(* removeChannel unlists the channel even when the request has failed. *)
DeleteDone ==
  \E r \in calls :
    /\ r.type = "delete"
    /\ Return(r)
    /\ Unlist({r.ch}) \/ (~r.ok /\ Unlist({}))

PurgeDone ==
  \E r \in calls :
    /\ r.type = "purge"
    /\ Return(r)
    /\ Unlist({c \in DOMAIN list : list[c] = "dead"})

-----------------------------------------------------------------------------
(* Channel groups.                                                         *)

(* addGroup: the hub has created the group, or the request fails. *)
AddGroup ==
  /\ host # None
  /\ \E g \in cast.groups \ groups :
       /\ GroupOf[g] = host
       /\ \/ GroupRow(g, TRUE) /\ Call([type |-> "add", groups |-> {g}])
          \/ Call([type |-> "add", groups |-> {}]) /\ UNCHANGED hubVars
  /\ UNCHANGED <<wire, shown, connVars, fetchVars, storeVars, spawn, taken, restored>>

(* Whatever host is shown by now. *)
AddGroupDone ==
  \E r \in calls :
    /\ r.type = "add"
    /\ Return(r)
    /\ shown' = shown \cup r.groups
    /\ restored' = (restored \/ \E g \in r.groups : GroupOf[g] # host)
    /\ UNCHANGED <<hubVars, wire, connVars, fetchVars, storeVars, spawn, made, taken>>

(* removeGroup: the hub deletes the group, does not know it or fails. *)
RemoveGroup ==
  /\ \E g \in shown :
       /\ GroupRow(g, FALSE) \/ UNCHANGED hubVars
       /\ Call([type |-> "remove", groups |-> {g}])
  /\ UNCHANGED <<wire, shown, connVars, fetchVars, storeVars, spawn, taken, restored>>

(* Whatever the answer was. *)
RemoveGroupDone ==
  \E r \in calls :
    /\ r.type = "remove"
    /\ Return(r)
    /\ shown' = shown \ r.groups
    /\ UNCHANGED <<hubVars, wire, connVars, fetchVars, storeVars, spawn, made, taken, restored>>

(* renameGroup, reorderGroups *)
EditGroups ==
  /\ shown # {}
  /\ Call([type |-> "groups", old |-> shown])
  /\ UNCHANGED <<hubVars, wire, shown, connVars, fetchVars, storeVars, spawn, taken, restored>>

EditGroupsOk ==
  \E r \in calls :
    /\ r.type = "groups"
    /\ Return(r)
    /\ UNCHANGED <<hubVars, wire, shown, connVars, fetchVars, storeVars, spawn, made, taken, restored>>

(* The whole list is put back. *)
EditGroupsFails ==
  \E r \in calls :
    /\ r.type = "groups"
    /\ Return(r)
    /\ shown' = r.old
    /\ restored' = TRUE
    /\ UNCHANGED <<hubVars, wire, connVars, fetchVars, storeVars, spawn, made, taken>>

-----------------------------------------------------------------------------
(* The connection.                                                         *)

Drop ==
  /\ conn # "down" /\ drops < MaxDrops
  /\ conn' = "down" /\ drops' = drops + 1
  /\ wire' = <<>>
  /\ UNCHANGED <<hubVars, shown, fetchVars, storeVars, spawn, callVars>>

(* AUTH succeeds: the hub sends STATE_SYNC, the client asks for the hosts. *)
Reconnect ==
  /\ conn = "down"
  /\ conn' = "refresh"
  /\ wire' = <<[type |-> "SYNC", ids |-> {c \in Channels : rows[c] = "live"}]>>
  /\ UNCHANGED <<hubVars, shown, drops, fetchVars, storeVars, spawn, callVars>>

(* The hosts have arrived or could not be read: the channels come next. *)
Refresh ==
  /\ conn = "refresh"
  /\ conn' = "up"
  /\ IF host = None THEN UNCHANGED <<fetchVars, storeVars>> ELSE FetchStart(host)
  /\ UNCHANGED <<hubVars, shown, wire, drops, spawn, callVars>>

Next ==
  \/ \E c \in Channels : HubCreate(c) \/ HubStatus(c) \/ HubPurge(c)
  \/ SelectHost \/ FetchRead \/ FetchCommit \/ FetchFail
  \/ Deliver \/ Spawn \/ SpawnOk \/ SpawnFails
  \/ EditList \/ EditRow \/ RequestDelete \/ RequestPurge
  \/ EditOk \/ EditListFails \/ EditRowFails \/ DeleteDone \/ PurgeDone
  \/ \E g \in Groups : HubGroup(g)
  \/ AddGroup \/ AddGroupDone \/ RemoveGroup \/ RemoveGroupDone
  \/ EditGroups \/ EditGroupsOk \/ EditGroupsFails
  \/ Drop \/ Reconnect \/ Refresh

Spec == Init /\ [][Next]_vars

-----------------------------------------------------------------------------
(* Nothing is on its way, and the last read succeeded. *)
Quiet ==
  /\ conn = "up" /\ wire = <<>> /\ fetches = {} /\ calls = {}
  /\ host # None /\ ~error

(* A channel that CHANNEL_CREATED announced is not lost to a fetch that    *)
(* was read before it existed, nor to a lost connection: once nothing is   *)
(* under way every channel of the shown host is listed, unless the user    *)
(* removed it or a failed edit restored an older list (wsAddedDuringFetch).*)
CreatedIsListed == Quiet => DOMAIN RowsOf(host) \subseteq DOMAIN list \cup taken

(* The list shows channels of the active host only, whichever answers are  *)
(* late (the generation guard of fetchChannels, the host check of          *)
(* handleChannelCreated), and once the host has been read so do the        *)
(* groups, unless a failed edit restored an older list or a group was      *)
(* added to the list of the host that had been left.                       *)
NoForeignRows ==
  ~restored =>
    /\ \A c \in DOMAIN list : HostOf[c] = host
    /\ ~loading /\ ~error => \A g \in shown : GroupOf[g] = host

=============================================================================
