---------------------------- MODULE TerminalPane ----------------------------
(***************************************************************************)
(* A pane of the web client that shows a terminal: TerminalPane.vue, the   *)
(* composable useTerminal and the write-lock store, over one connection to *)
(* the hub.  The pane spawns a shell or attaches to one, attaches again    *)
(* when its channel is changed, restarted or the connection comes back,    *)
(* and forwards the keyboard while this client is the writer.              *)
(*                                                                         *)
(* Output is numbered per shell.  The dimensions of the terminal, its      *)
(* search, its theme and its title are left out.  What the hub sends       *)
(* arrives in order; what the pane sends has arrived at once, except that  *)
(* the hub answers an ATTACH when the agent has.                           *)
(***************************************************************************)
EXTENDS Integers, Sequences, FiniteSets, FiniteSetsExt

CONSTANTS
  Shells,      \* channels of the hub
  Pending,     \* the id of a channel that is to be spawned
  Me, Other,   \* clients: this one, and any other one (this one's past included)
  Nobody,
  MaxOutput,   \* chunks the shells print, together (bound)
  MaxEvents,   \* lost connections, channels opened here, moves of a write lock,
               \* exits and restarts, together (bound)
  MaxSteps     \* chunks and those events, together (bound)

ASSUME PaneShellAssumption ==
  /\ Pending \notin Shells /\ Nobody \notin Shells \cup {Me, Other, Pending}
  /\ Me # Other
  /\ MaxOutput \in Nat /\ MaxEvents \in Nat /\ MaxSteps \in Nat

VARIABLES
  alive,       \* each shell on the hub: "none", "live" or "dead"
  made,        \* chunks that it has printed
  base,        \* chunks of the processes it has had before this one
  lock,        \* its writer, as the hub has it
  joined,      \* shells whose clients this one is among
  asked,       \* ATTACH requests that the hub has not answered
  wire,        \* messages on their way to this client
  link,        \* "up", "down", "refresh" (reconnected) or "refused" (AUTH failed)
  known,       \* status of each shell in the channels store
  view,        \* its writer in the write-lock store
  request,     \* incomingRequest: the shell another client asks to write to
  prop,        \* the channel of this pane in the layout
  internal,    \* internalChannelId: the channel it spawned
  stage,       \* "connecting", "spawning", "attaching", "ready", "failed" or "gone"
  failed,      \* an attach after the first one failed: the error is shown
  restarting,  \* the restart this pane has requested, or Nobody
  canWrite,
  chan,        \* channelId of the composable
  sub,         \* outputUnsubscribe undoes a subscription to OUTPUT
  leaked,      \* subscriptions that nothing undoes any more
  waits,       \* reattachChannel calls that wait for their answer
  screen,      \* chunks the terminal shows: shell, number and what brought it
  whole,       \* history: the last attach replayed all the output of the process
  astray,      \* history: two attaches overlapped, or a restart's attach failed
  muted,       \* history: the pane left a dead shell by anything but a Restart here
  events       \* steps of the bounded kinds taken so far

hubVars == <<alive, made, base, lock, joined, asked, wire, link>>
lockVars == <<view, request>>
paneVars == <<prop, internal, stage, failed, restarting>>
termVars == <<chan, sub, leaked, waits, screen>>
histVars == <<whole, astray, muted>>
termPaneVars == <<hubVars, known, lockVars, paneVars, canWrite, termVars, histVars, events>>

Status == {"none", "live", "dead"}
Spans == (0 .. MaxOutput) \X (0 .. MaxOutput)  \* the chunks after one number up to another
Reasons == {"mount", "prop", "reconnect", "restart"}
Message ==
  [type : {"OUTPUT"}, ch : Shells, n : 1 .. MaxOutput]
    \cup [type : {"SPAWN_OK"}, ch : Shells]
    \cup [type : {"ATTACH_OK"}, ch : Shells, fresh : BOOLEAN, holder : {Me, Other, Nobody},
          snapshot : Spans \cup {Nobody}, tail : Spans]
    \cup [type : {"ERROR"}, ch : Shells \cup {Nobody, Pending}, dead : BOOLEAN]
    \cup [type : {"STATE"}, ch : Shells, status : Status]
    \cup [type : {"WRITE_LOCK"}, ch : Shells, holder : {Me, Other, Nobody}]
    \cup [type : {"WRITE_REVOKED", "WRITE_REQUEST"}, ch : Shells]

HubTypes ==
  /\ alive \in [Shells -> Status] /\ made \in [Shells -> 0 .. MaxOutput]
  /\ base \in [Shells -> 0 .. MaxOutput]
  /\ lock \in [Shells -> {Me, Other, Nobody}] /\ joined \in SUBSET Shells
  /\ asked \in Seq(Shells) /\ wire \in Seq(Message)
  /\ link \in {"up", "down", "refresh", "refused"}
StoreTypes ==
  /\ known \in [Shells -> Status] /\ view \in [Shells -> {Me, Other, Nobody}]
  /\ request \in Shells \cup {Nobody}
PaneTypes ==
  /\ prop \in Shells \cup {Pending} /\ internal \in Shells \cup {Nobody}
  /\ stage \in {"connecting", "spawning", "attaching", "ready", "failed", "gone"}
  /\ failed \in BOOLEAN /\ canWrite \in BOOLEAN
  /\ restarting \in [id : Shells, ok : BOOLEAN] \cup {Nobody}
TermTypes ==
  /\ chan \in Shells \cup {Nobody} /\ sub \in BOOLEAN /\ leaked \in Nat
  /\ waits \in Seq([id : Shells, why : Reasons])
  /\ screen \in Seq(Shells \X (1 .. MaxOutput) \X {"snapshot", "tail", "live"})
HistTypes ==
  /\ whole \in BOOLEAN /\ astray \in BOOLEAN /\ muted \in BOOLEAN
  /\ events \in 0 .. MaxEvents
PaneTypeOK == HubTypes /\ StoreTypes /\ PaneTypes /\ TermTypes /\ HistTypes

(* The page has loaded its channels; the layout mounts a pane for one of   *)
(* them, or for a shell that the user has just asked for.                  *)
PaneInit ==
  /\ alive \in [Shells -> Status] /\ known = alive
  /\ made = [s \in Shells |-> 0] /\ base = made
  /\ lock \in [Shells -> {Other, Nobody}]
  /\ \A s \in Shells : alive[s] # "live" => lock[s] = Nobody
  /\ joined = {} /\ asked = <<>> /\ wire = <<>> /\ link = "up"
  /\ view = [s \in Shells |-> Nobody] /\ request = Nobody
  /\ prop \in {Pending} \cup {s \in Shells : alive[s] # "none"}
  /\ internal = Nobody /\ stage = "connecting" /\ failed = FALSE
  /\ restarting = Nobody /\ canWrite = FALSE
  /\ chan = Nobody /\ sub = FALSE /\ leaked = 0 /\ waits = <<>> /\ screen = <<>>
  /\ whole = FALSE /\ astray = FALSE /\ muted = FALSE
  /\ events = 0

-----------------------------------------------------------------------------
(* What the pane computes.                                                 *)

Writer(s) == s \in Shells /\ view[s] = Me
Dead(s) == s \in Shells /\ known[s] = "dead"

(* The watchers of isWriter and of isDead, in this order: each one fires   *)
(* when its own value changes.                                             *)
Watch ==
  canWrite' = IF ~Dead(prop) /\ Dead(prop)' THEN FALSE
              ELSE IF Writer(prop)' # Writer(prop) THEN Writer(prop)' ELSE canWrite

Restarting ==
  restarting # Nobody \/ \E i \in DOMAIN waits : waits[i].why = "restart"

(* No watcher allows writing again when a dead shell is left as a writer. *)
Left == muted' = /\ ~canWrite' /\ Writer(prop)' /\ ~Dead(prop)'
                 /\ muted \/ (Dead(prop) /\ ~Restarting)


(* reattachChannel until its await. *)
Begin(id, why) ==
  /\ sub' = FALSE
  /\ waits' = Append(waits, [id |-> id, why |-> why])
  /\ asked' = Append(asked, id)
  /\ astray' = (\/ astray \/ waits # <<>> \/ asked # <<>>
                \/ \E i \in DOMAIN wire : wire[i].type = "ATTACH_OK")
  /\ UNCHANGED <<chan, leaked, screen>>

Printed == MapThenSumSet(LAMBDA s : made[s], Shells)
Happens ==
  /\ events < MaxEvents /\ Printed + events < MaxSteps
  /\ events' = events + 1
Send(ms) == wire' = IF link = "down" THEN wire ELSE wire \o ms
LockMsg(s, h) == [type |-> "WRITE_LOCK", ch |-> s, holder |-> h]
StateMsg(s, st) == [type |-> "STATE", ch |-> s, status |-> st]
ErrorMsg(s, d) == [type |-> "ERROR", ch |-> s, dead |-> d]
ToMembers(s, ms) == IF s \in joined THEN Send(ms) ELSE UNCHANGED wire

clientVars == <<known, lockVars, paneVars, canWrite, termVars, histVars>>

-----------------------------------------------------------------------------
(* The hub, as the handlers of the other modules present it to one client. *)

Output(s) ==
  /\ alive[s] = "live" /\ Printed < MaxOutput /\ Printed + events < MaxSteps
  /\ made' = [made EXCEPT ![s] = @ + 1]
  /\ ToMembers(s, <<[type |-> "OUTPUT", ch |-> s, n |-> made[s] + 1]>>)
  /\ UNCHANGED <<alive, base, lock, joined, asked, link, clientVars, events>>

Exits(s) ==
  /\ alive[s] = "live" /\ Happens
  /\ alive' = [alive EXCEPT ![s] = "dead"]
  /\ Send(<<StateMsg(s, "dead")>>)
  /\ UNCHANGED <<made, base, lock, joined, asked, link, clientVars>>

(* A new process under the same channel. *)
Revive(s) == alive' = [alive EXCEPT ![s] = "live"] /\ base' = [base EXCEPT ![s] = made[s]]

(* Restarted from the sidebar, the configure dialog or another client. *)
RestartElsewhere(s) ==
  /\ alive[s] = "dead" /\ Happens
  /\ Revive(s)
  /\ Send(<<StateMsg(s, "live")>>)
  /\ UNCHANGED <<made, lock, joined, asked, link, clientVars>>

HubSpawn(s) ==
  /\ stage = "spawning" /\ wire = <<>> /\ link = "up" /\ alive[s] = "none"
  /\ Revive(s)
  /\ lock' = [lock EXCEPT ![s] = Me] /\ joined' = joined \cup {s}
  /\ Send(<<[type |-> "SPAWN_OK", ch |-> s], LockMsg(s, Me)>>)
  /\ UNCHANGED <<made, asked, link, clientVars, events>>

HubSpawnFails ==
  /\ stage = "spawning" /\ link = "up" /\ wire = <<>>
  /\ Send(<<ErrorMsg(Pending, FALSE)>>)
  /\ UNCHANGED <<alive, made, base, lock, joined, asked, link, clientVars, events>>

(* What an ATTACH is answered with, and whether the agent did.  Its own    *)
(* screen has all that it has read of the process, maybe more than it has  *)
(* sent; the tail behind it is every row of the spool, because the number  *)
(* the agent gives is always 0.  Otherwise the latest snapshot in the      *)
(* spool has the rows stored after it as its tail, and without a snapshot  *)
(* there is nothing.  The collector may have deleted the oldest rows, and  *)
(* the newest are missing while the hub does not track the channel.        *)
Answers(s) ==
  {[fresh |-> TRUE, snapshot |-> <<base[s], n>>, tail |-> r] :
      n \in made[s] .. Min({made[s] + 1, MaxOutput}),
      r \in {<<0, 0>>} \cup {<<f, made[s]>> : f \in 0 .. made[s] - 1}}
    \cup {[fresh |-> FALSE, snapshot |-> <<0, r[1]>>, tail |-> r] :
            r \in {r \in Spans : r[1] <= made[s] /\ r[2] \in {r[1], made[s]}}}
    \cup {[fresh |-> FALSE, snapshot |-> Nobody, tail |-> <<0, 0>>]}

(* ATTACH_OK has the holder of before; then WriteLockManager.attach grants *)
(* a free lock and tells the client.                                       *)
Admit(s, ms) ==
  LET holder == IF lock[s] = Nobody THEN Me ELSE lock[s] IN
  /\ joined' = joined \cup {s}
  /\ lock' = [lock EXCEPT ![s] = holder]
  /\ \E a \in Answers(s) :
       /\ a.fresh => alive[s] = "live"
       /\ Send(ms \o <<[type |-> "ATTACH_OK", ch |-> s, fresh |-> a.fresh, holder |-> lock[s],
                        snapshot |-> a.snapshot, tail |-> a.tail], LockMsg(s, holder)>>)

Refuse(s, ms) == joined' = joined \ {s} /\ Send(ms) /\ UNCHANGED lock

(* handleAttach: the answers of the agents of several hosts overtake each  *)
(* other.  A dead channel is spawned again, refused, or answered from what *)
(* is stored; a live one that its agent does not know is retired.          *)
HubAttach(i) ==
  LET s == asked[i] IN
  /\ link # "down"
  /\ asked' = SubSeq(asked, 1, i - 1) \o SubSeq(asked, i + 1, Len(asked))
  /\ \/ alive[s] # "none" /\ Admit(s, <<>>) /\ UNCHANGED <<alive, base, events>>
     \/ alive[s] = "dead" /\ Revive(s) /\ Admit(s, <<StateMsg(s, "live")>>) /\ UNCHANGED events
     \/ /\ alive[s] = "live" /\ Happens
        /\ alive' = [alive EXCEPT ![s] = "dead"]
        /\ Refuse(s, <<StateMsg(s, "dead"), ErrorMsg(s, FALSE)>>)
        /\ UNCHANGED base
     \/ /\ alive[s] = "dead"
        /\ \E m \in {ErrorMsg(s, FALSE), ErrorMsg(Nobody, TRUE)} : Refuse(s, <<m>>)
        /\ UNCHANGED <<alive, base, events>>
  /\ UNCHANGED <<made, link, clientVars>>

SetLock(s, h) ==
  /\ lock' = [lock EXCEPT ![s] = h]
  /\ ToMembers(s, (IF lock[s] = Me /\ h = Other THEN <<[type |-> "WRITE_REVOKED", ch |-> s]>>
                   ELSE <<>>) \o <<LockMsg(s, h)>>)
  /\ UNCHANGED <<alive, made, base, joined, asked, link>>

(* Another client takes the lock, grants it to this one, or releases it. *)
OtherLock(s) ==
  /\ alive[s] = "live" /\ Happens
  /\ \/ lock[s] # Other /\ SetLock(s, Other)
     \/ lock[s] = Other /\ \E h \in {Nobody} \cup {c \in {Me} : s \in joined} : SetLock(s, h)
  /\ UNCHANGED clientVars

OtherClaims(s) ==
  /\ lock[s] = Me /\ Happens
  /\ Send(<<[type |-> "WRITE_REQUEST", ch |-> s]>>)
  /\ UNCHANGED <<alive, made, base, lock, joined, asked, link, clientVars>>

-----------------------------------------------------------------------------
(* The write lock, as its user moves it.                                   *)

(* The buttons of WriteLockIndicator are for a channel that is not dead. *)
Indicator == stage # "gone" /\ prop \in Shells /\ ~Dead(prop) /\ link = "up"

(* A claim of a lock that another client has is only forwarded to it. *)
Claim ==
  /\ Indicator /\ ~Writer(prop) /\ lock[prop] = Nobody
  /\ Happens /\ SetLock(prop, Me)
  /\ UNCHANGED clientVars
ForceTake ==
  /\ Indicator /\ ~Writer(prop)
  /\ Happens /\ SetLock(prop, Me)
  /\ UNCHANGED clientVars
Release ==
  /\ Indicator /\ Writer(prop) /\ lock[prop] = Me
  /\ Happens /\ SetLock(prop, Nobody)
  /\ UNCHANGED clientVars

(* WriteRequestDialog: Allow, or Deny, by the user or after 30 seconds.    *)
(* The hub ignores the answer of a client that is not the holder.          *)
Allow ==
  /\ request # Nobody /\ link = "up"
  /\ request' = Nobody
  /\ IF lock[request] = Me
       THEN /\ lock' = [lock EXCEPT ![request] = Other]
            /\ ToMembers(request, <<LockMsg(request, Other)>>)
       ELSE UNCHANGED <<lock, wire>>
  /\ UNCHANGED <<alive, made, base, joined, asked, link, known, view, paneVars, canWrite, termVars,
                 histVars, events>>
Deny ==
  /\ request # Nobody /\ link = "up"
  /\ request' = Nobody
  /\ UNCHANGED <<hubVars, known, view, paneVars, canWrite, termVars, histVars, events>>

(* pruneDeadLocks, when the host is selected. *)
PruneDeadLocks ==
  /\ \E s \in Shells : Dead(s) /\ view[s] # Nobody
  /\ view' = [s \in Shells |-> IF Dead(s) THEN Nobody ELSE view[s]]
  /\ UNCHANGED <<hubVars, known, request, paneVars, termVars, whole, astray, events>>
  /\ Watch /\ Left

-----------------------------------------------------------------------------
(* The pane's own steps.                                                   *)

(* onMounted, once the session is connected: spawn, show the overlay of a  *)
(* dead channel, or attach.                                                *)
Mount ==
  /\ stage = "connecting" /\ link \in {"up", "refresh"}
  /\ \/ /\ prop = Pending /\ stage' = "spawning"
        /\ UNCHANGED <<asked, termVars, astray>>
     \/ /\ Dead(prop) /\ stage' = "ready"
        /\ UNCHANGED <<asked, termVars, astray>>
     \/ /\ prop \in Shells /\ ~Dead(prop) /\ stage' = "attaching"
        /\ Begin(prop, "mount")
  /\ UNCHANGED <<alive, made, base, lock, joined, wire, link, known, lockVars, prop, internal, failed,
                 restarting, canWrite, whole, muted, events>>

(* The watcher of props.channelId: send throws without a connection. *)
OpenHere(s) ==
  /\ stage # "gone" /\ s # prop /\ alive[s] # "none" /\ Happens
  /\ prop' = s
  /\ \/ (stage # "ready" \/ s = internal) /\ UNCHANGED <<failed, asked, termVars, astray>>
     \/ /\ stage = "ready" /\ s # internal /\ link # "down"
        /\ failed' = FALSE /\ Begin(s, "prop")
     \/ /\ stage = "ready" /\ s # internal /\ link = "down"
        /\ failed' = TRUE /\ sub' = FALSE
        /\ UNCHANGED <<asked, chan, leaked, waits, screen, astray>>
  /\ UNCHANGED <<alive, made, base, lock, joined, wire, link, known, lockVars, internal, stage,
                 restarting, whole>>
  /\ Watch /\ Left

(* The overlay of a dead channel, with its Restart button. *)
Overlay == stage # "gone" /\ Dead(prop)

(* onRestart of a local shell, from the overlay: the REST call, the hub's  *)
(* restart, and the attach that keeps the content.                         *)
OnRestart ==
  /\ Overlay /\ restarting = Nobody /\ Happens
  /\ restarting' = [id |-> prop, ok |-> FALSE]
  /\ UNCHANGED <<hubVars, known, lockVars, prop, internal, stage, failed, canWrite, termVars, histVars>>

HubRestarts ==
  /\ restarting # Nobody /\ ~restarting.ok
  /\ Revive(restarting.id)
  /\ restarting' = [restarting EXCEPT !.ok = TRUE]
  /\ Send(<<StateMsg(restarting.id, "live")>>)
  /\ UNCHANGED <<made, lock, joined, asked, link, known, lockVars, prop, internal, stage, failed, canWrite,
                 termVars, histVars, events>>

Restarted ==
  /\ restarting # Nobody /\ restarting.ok /\ link # "down"
  /\ restarting' = Nobody
  /\ Begin(restarting.id, "restart")
  /\ UNCHANGED <<alive, made, base, lock, joined, wire, link, known, lockVars, prop, internal, stage,
                 failed, canWrite, whole, muted, events>>

(* The REST call fails, or the ATTACH cannot be sent: nothing is shown. *)
RestartFails ==
  /\ restarting # Nobody /\ (restarting.ok => link = "down")
  /\ restarting' = Nobody
  /\ sub' = (sub /\ ~restarting.ok) /\ astray' = (astray \/ restarting.ok)
  /\ muted' = (muted \/ (~canWrite /\ Writer(prop) /\ ~Dead(prop)))
  /\ UNCHANGED <<hubVars, known, lockVars, prop, internal, stage, failed, canWrite, chan, leaked, waits,
                 screen, whole, events>>

(* dispose: what still waits finds no terminal to write to. *)
Disposed ==
  chan' = Nobody /\ sub' = FALSE /\ leaked' = 0 /\ waits' = <<>> /\ screen' = <<>>

(* The pane is closed or detached, from its menu or its overlay; Restart   *)
(* of a dead channel on an SSH host closes it, too.                        *)
Unmount ==
  /\ stage # "gone" /\ restarting = Nobody
  /\ stage' = "gone" /\ failed' = FALSE /\ internal' = Nobody
  /\ Disposed
  /\ canWrite' = FALSE /\ whole' = FALSE /\ muted' = FALSE
  /\ UNCHANGED <<hubVars, known, lockVars, prop, restarting, astray, events>>

(* A new pane: the watcher of isWriter is immediate. *)
NewPane(p) ==
  /\ stage = "gone" /\ Happens
  /\ p \in {Pending} \cup {s \in Shells : known[s] # "none"}
  /\ prop' = p /\ stage' = "connecting" /\ astray' = FALSE
  /\ canWrite' = Writer(p)
  /\ UNCHANGED <<hubVars, known, lockVars, internal, failed, restarting, termVars, whole, muted>>

-----------------------------------------------------------------------------
(* Messages from the hub.                                                  *)

Arrives(type) == wire # <<>> /\ Head(wire).type = type /\ wire' = Tail(wire)
hubKept == <<alive, made, base, lock, joined, asked, link>>

(* Every subscription to OUTPUT compares with the one channelId. *)
GetOutput ==
  LET m == Head(wire) IN
  /\ Arrives("OUTPUT")
  /\ screen' = IF m.ch # chan THEN screen
               ELSE screen \o [i \in 1 .. (leaked + (IF sub THEN 1 ELSE 0)) |-> <<m.ch, m.n, "live">>]
  /\ UNCHANGED <<hubKept, known, lockVars, paneVars, canWrite, chan, sub, leaked, waits, histVars, events>>

(* attachChannel, then the layout replaces the id this pane has by then. *)
GetSpawnOk ==
  LET s == Head(wire).ch IN
  /\ Arrives("SPAWN_OK")
  /\ known' = [known EXCEPT ![s] = "live"]
  /\ IF stage = "spawning"
       THEN /\ internal' = s /\ prop' = s /\ stage' = "ready"
            /\ chan' = s /\ sub' = TRUE /\ whole' = TRUE
            /\ astray' = (astray \/ waits # <<>>)
       ELSE UNCHANGED <<internal, prop, stage, chan, sub, whole, astray>>
  /\ UNCHANGED <<hubKept, lockVars, failed, restarting, leaked, waits, screen, events>>
  /\ Watch /\ Left

Chunks(s, range, how) ==
  [i \in 1 .. (range[2] - range[1]) |-> <<s, range[1] + i, how>>]

(* Mutant: onRestart leaves canWrite to the watchers. *)
GetAttachOkUnrestored ==
  LET m == Head(wire)
      Mine(w) == w.id = m.ch
      Others(w) == w.id # m.ch
      mine == SelectSeq(waits, Mine)
      Has(why) == \E i \in DOMAIN mine : mine[i].why = why
      show == m.snapshot # Nobody /\ \E i \in DOMAIN mine : mine[i].why # "restart"
  IN
  /\ Arrives("ATTACH_OK")
  /\ UNCHANGED <<hubKept, known, request, prop, internal, failed, restarting, astray, events>>
  /\ waits' = SelectSeq(waits, Others)
  /\ IF mine = <<>> THEN UNCHANGED <<view, stage, canWrite, chan, sub, leaked, screen, whole, muted>>
     ELSE /\ chan' = m.ch /\ sub' = TRUE
          /\ leaked' = leaked + (IF sub THEN 1 ELSE 0) + Len(mine) - 1
          /\ screen' = IF show THEN Chunks(m.ch, m.snapshot, "snapshot") \o Chunks(m.ch, m.tail, "tail")
                       ELSE screen
          /\ whole' = (show /\ m.fresh)
          /\ stage' = IF Has("mount") THEN "ready" ELSE stage
          /\ IF Has("restart")
               THEN /\ view' = IF m.holder = Nobody THEN view ELSE [view EXCEPT ![m.ch] = m.holder]
                    /\ UNCHANGED <<canWrite, muted>>
               ELSE UNCHANGED <<view, canWrite, muted>>

(* reattachChannel after its await, for every call that awaits this id:    *)
(* the snapshot replaces the content and the tail is written behind it, a  *)
(* further subscription is made.                                           *)
GetAttachOk ==
  LET m == Head(wire)
      Mine(w) == w.id = m.ch
      Others(w) == w.id # m.ch
      mine == SelectSeq(waits, Mine)
      Has(why) == \E i \in DOMAIN mine : mine[i].why = why
      show == m.snapshot # Nobody /\ \E i \in DOMAIN mine : mine[i].why # "restart"
  IN
  /\ Arrives("ATTACH_OK")
  /\ UNCHANGED <<hubKept, known, request, prop, internal, failed, restarting, astray, events>>
  /\ waits' = SelectSeq(waits, Others)
  /\ IF mine = <<>> THEN UNCHANGED <<view, stage, canWrite, chan, sub, leaked, screen, whole, muted>>
     ELSE /\ chan' = m.ch /\ sub' = TRUE
          /\ leaked' = leaked + (IF sub THEN 1 ELSE 0) + Len(mine) - 1
          /\ screen' = IF show THEN Chunks(m.ch, m.snapshot, "snapshot") \o Chunks(m.ch, m.tail, "tail")
                       ELSE screen
          /\ whole' = (show /\ m.fresh)
          /\ stage' = IF Has("mount") THEN "ready" ELSE stage
          /\ IF Has("restart")
               THEN /\ view' = IF m.holder = Nobody THEN view ELSE [view EXCEPT ![m.ch] = m.holder]
                    /\ canWrite' = Writer(prop)' /\ muted' = FALSE
               ELSE UNCHANGED <<view, canWrite, muted>>

(* What the caller of a rejected reattachChannel does: nobody handles the  *)
(* rejection after a restart.                                              *)
Rejected(whys, dead) ==
  /\ stage' = IF stage = "spawning" \/ ("mount" \in whys /\ ~dead) THEN "failed"
              ELSE IF "mount" \in whys THEN "ready" ELSE stage
  /\ failed' = (failed \/ whys \cap {"prop", "reconnect"} # {})
  /\ astray' = (astray \/ "restart" \in whys)
  /\ UNCHANGED <<known, lockVars, prop, internal, restarting, canWrite, chan, sub, leaked, screen, whole,
                 muted, events>>

(* An ERROR without a channel rejects every attach that waits, and any     *)
(* ERROR ends the wait of a spawn.                                         *)
GetError ==
  LET m == Head(wire)
      Hit(w) == m.ch \in {Nobody, w.id}
      Spared(w) == m.ch \notin {Nobody, w.id}
      hit == SelectSeq(waits, Hit)
  IN
  /\ Arrives("ERROR")
  /\ waits' = SelectSeq(waits, Spared)
  /\ Rejected({hit[i].why : i \in DOMAIN hit}, m.dead)
  /\ UNCHANGED hubKept

(* ATTACH timeout after 10 seconds; the answer may still come. *)
AttachTimeout(i) ==
  /\ waits' = SubSeq(waits, 1, i - 1) \o SubSeq(waits, i + 1, Len(waits))
  /\ Rejected({waits[i].why}, FALSE)
  /\ UNCHANGED hubVars

SpawnTimeout ==
  /\ stage = "spawning" /\ Rejected({}, FALSE)
  /\ UNCHANGED <<hubVars, waits>>

GetState ==
  LET m == Head(wire) IN
  /\ Arrives("STATE")
  /\ known' = [known EXCEPT ![m.ch] = m.status]
  /\ UNCHANGED <<hubKept, lockVars, paneVars, termVars, whole, astray, events>>
  /\ Watch /\ Left

(* handleWriteLock, handleWriteRevoked. *)
GetLock ==
  LET m == Head(wire) IN
  /\ \/ Arrives("WRITE_LOCK") /\ view' = [view EXCEPT ![m.ch] = m.holder]
     \/ Arrives("WRITE_REVOKED") /\ view' = [view EXCEPT ![m.ch] = Nobody]
  /\ UNCHANGED <<hubKept, known, request, paneVars, termVars, whole, astray, events>>
  /\ Watch /\ Left

GetRequest ==
  /\ Arrives("WRITE_REQUEST")
  /\ request' = Head(wire).ch
  /\ UNCHANGED <<hubKept, known, view, paneVars, canWrite, termVars, histVars, events>>

-----------------------------------------------------------------------------
(* The connection.                                                         *)

(* The hub forgets the client; the page keeps what it has. *)
Drop ==
  /\ link # "down" /\ Happens
  /\ link' = "down" /\ wire' = <<>> /\ asked' = <<>> /\ joined' = {}
  /\ lock' = [s \in Shells |-> IF lock[s] = Me THEN Nobody ELSE lock[s]]
  /\ UNCHANGED <<alive, made, base, clientVars>>

(* AUTH_OK brings a new client id: what this client held, another one did. *)
Reconnect ==
  /\ link = "down"
  /\ link' = "refresh"
  /\ view' = [s \in Shells |-> IF view[s] = Me THEN Other ELSE view[s]]
  /\ UNCHANGED <<alive, made, base, lock, joined, asked, wire, known, request, paneVars, termVars, whole,
                 astray, events>>
  /\ Watch /\ Left

(* The lists are fetched, then reconnectCount makes every pane attach. *)
Refreshed ==
  /\ link = "refresh"
  /\ link' = "up"
  /\ known' = [s \in Shells |-> alive[s]]
  /\ IF stage = "ready" /\ prop \in Shells
       THEN failed' = FALSE /\ Begin(prop, "reconnect")
       ELSE UNCHANGED <<failed, asked, termVars, astray>>
  /\ UNCHANGED <<alive, made, base, lock, joined, wire, lockVars, prop, internal, stage, restarting, whole,
                 events>>
  /\ Watch /\ Left

(* A request of the refresh fails: no pane attaches. *)
RefreshFails ==
  /\ link = "refresh"
  /\ link' = "refused"
  /\ UNCHANGED <<alive, made, base, lock, joined, asked, wire, clientVars, events>>

-----------------------------------------------------------------------------
HubStep ==
  \/ \E s \in Shells : Output(s) \/ Exits(s) \/ RestartElsewhere(s) \/ HubSpawn(s)
                         \/ OtherLock(s) \/ OtherClaims(s)
  \/ \E i \in DOMAIN asked : HubAttach(i)
  \/ HubSpawnFails \/ HubRestarts
LinkStep == Drop \/ Reconnect \/ Refreshed \/ RefreshFails
PaneStep ==
  \/ Mount \/ Unmount \/ OnRestart \/ Restarted \/ RestartFails \/ SpawnTimeout
  \/ \E s \in Shells : OpenHere(s)
  \/ \E p \in Shells \cup {Pending} : NewPane(p)
  \/ \E i \in DOMAIN waits : AttachTimeout(i)
LockStep == Claim \/ ForceTake \/ Release \/ Allow \/ Deny \/ PruneDeadLocks
Receive ==
  \/ GetOutput \/ GetSpawnOk \/ GetAttachOk \/ GetError \/ GetState \/ GetLock \/ GetRequest
PaneNext == HubStep \/ LinkStep \/ PaneStep \/ LockStep \/ Receive
PaneSpec == PaneInit /\ [][PaneNext]_termPaneVars

-----------------------------------------------------------------------------
(* Nothing is under way between this pane and the hub. *)
Quiet ==
  /\ link = "up" /\ wire = <<>> /\ asked = <<>> /\ waits = <<>> /\ restarting = Nobody
  /\ stage = "ready" /\ ~failed

(* The numbers of the chunks of s that the terminal shows. *)
ShownOf(s) == LET Of(c) == c[1] = s IN SelectSeq(screen, Of)


(* A settled pane of a live channel lets the user type when the write-lock *)
(* store says that this client is the writer: the watchers of isWriter and *)
(* isDead and onRestart's own assignment of canWrite leave out only panes  *)
(* whose dead shell was brought back, or left, in another way.             *)
WriterCanType ==
  Quiet /\ ~astray /\ ~muted /\ ~Dead(prop) /\ Writer(prop) => canWrite
=============================================================================
