--------------------------- MODULE PromptRouting ---------------------------
(***************************************************************************)
(* Questions the hub asks its users while it connects, reconnects, tests   *)
(* or elevates: the contexts of prompt-context.ts, the operations that     *)
(* open them, and the queues of dialogs in the web clients.                *)
(*                                                                         *)
(* Connections are numbered in the order of their creation, which is the   *)
(* order of the client ids.  A user who reconnects gets a new number and   *)
(* keeps the dialogs.  What is asked and answered is left out.             *)
(***************************************************************************)
EXTENDS Integers, Sequences, FiniteSets, SequencesExt

CONSTANTS Users, Ops, Contexts,
          Settings,   \* the operations a behaviour may consist of: the context
                      \* of each (attempts may share one), the kind of each context
          None,
          MaxConns,   \* connections made (bound)
          MaxAsks     \* prompts of an operation (bound)

Kinds == {"session", "reconnect", "test", "elevation"}
Prompts == [epoch : Nat \ {0}, store : {"auth", "verify"}]

(* A test or an elevation has a context of its own. *)
ASSUME PromptAssumption ==
  /\ \A s \in Settings :
       /\ s \in [of : [Ops -> Contexts], kind : [Contexts -> Kinds]]
       /\ \A o, p \in Ops : s.of[o] = s.of[p] /\ o # p => s.kind[s.of[o]] \in {"session", "reconnect"}
  /\ MaxConns \in Nat /\ MaxAsks \in Nat
ASSUME OpsAssumption == IsFiniteSet(Ops)
ASSUME NoneAssumption == None \notin Nat \cup Prompts

VARIABLES
  setting,  \* never changes
  user,     \* users of the connections made so far
  up,       \* connections that are open: ctx.clients
  part,     \* open connections with a lease or a channel of the host
  context,  \* promptContexts: the route of each open context, else None
  op,       \* what each operation is doing
  by,       \* the connection that started it
  asked,    \* number of prompts it has made
  prompt,   \* its prompt in flight, or None
  expired,  \* prompts that timed out
  toUser,   \* messages on their way to each connection
  toHub,    \* responses on their way back
  dialogs   \* pendingPrompts of each user

CtxOf == setting.of
Kind == setting.kind
connVars == <<setting, user, up, part>>
opVars == <<op, by, asked>>
vars == <<connVars, context, opVars, prompt, expired, toUser, toHub, dialogs>>

Conns == 1 .. Len(user)
ConnOf(u) == {c \in up : user[c] = u}
Movable(x) == Kind[x] \in {"session", "reconnect"}
IdOf(o) == <<o, asked[o]>>

(* The stores that queue the dialogs.  An answer to an authentication      *)
(* prompt carries the epoch of its delivery; host keys and agent binaries  *)
(* have a store each that behaves alike and sends none.                    *)
Stores == {"auth", "verify"}

(* Connections, contexts and operations. *)
RoutingTypes ==
  /\ setting \in Settings
  /\ user \in Seq(Users) /\ up \subseteq Conns /\ part \subseteq up
  /\ context \in [Contexts -> Conns \cup {None}]
  /\ op \in [Ops -> {"idle", "running", "asking", "done"}]
  /\ by \in [Ops -> Conns \cup {None}]
  /\ asked \in [Ops -> 0 .. MaxAsks]
  /\ prompt \in [Ops -> Prompts \cup {None}]
  /\ \A o \in Ops : prompt[o] # None <=> op[o] = "asking"

TypeOK ==
  /\ RoutingTypes
  /\ expired \subseteq Ops \X (1 .. MaxAsks)
  /\ DOMAIN toUser = Conns /\ DOMAIN toHub = Conns
  /\ \A u \in Users : Cardinality(ConnOf(u)) <= 1
  /\ \A u \in Users : IsInjective([i \in DOMAIN dialogs[u] |-> dialogs[u][i].id])

Init ==
  /\ setting \in Settings
  /\ user = <<>> /\ up = {} /\ part = {}
  /\ context = [x \in Contexts |-> None]
  /\ op = [o \in Ops |-> "idle"] /\ by = [o \in Ops |-> None]
  /\ asked = [o \in Ops |-> 0] /\ prompt = [o \in Ops |-> None]
  /\ expired = {}
  /\ toUser = <<>> /\ toHub = <<>>
  /\ dialogs = [u \in Users |-> <<>>]

-----------------------------------------------------------------------------
(* Contexts.                                                               *)

MsgPrompt(id, store, e) == [type |-> "PROMPT", id |-> id, store |-> store, epoch |-> e]
MsgCancel(o) == [type |-> "CANCEL", id |-> IdOf(o)]

(* The operations with a prompt in an open context. *)
AskedIn(x) == {o \in Ops : prompt[o] # None /\ CtxOf[o] = x /\ context[x] # None}

(* Messages for the prompts of a set of operations, in the order of the set. *)
Each(S, M(_)) == [i \in 1 .. Cardinality(S) |-> M(SetToSeq(S)[i])]
SendTo(queues, c, msgs) ==
  [d \in DOMAIN queues |-> IF d = c /\ c \in up THEN queues[d] \o msgs ELSE queues[d]]

ClearSilently(x, ended) ==
  /\ context' = [context EXCEPT ![x] = None]
  /\ prompt' = [o \in Ops |-> IF o \in AskedIn(x) THEN None ELSE prompt[o]]
  /\ op' = [o \in Ops |-> CASE o \in ended -> "done"
                            [] o \in AskedIn(x) \ ended -> "running"
                            [] OTHER -> op[o]]
  /\ UNCHANGED toUser

(* clearContext: every prompt is resolved with null, which resumes its     *)
(* operation unless that has ended, and its dialog is dismissed.           *)
Clear(x, ended) ==
  /\ context' = [context EXCEPT ![x] = None]
  /\ prompt' = [o \in Ops |-> IF o \in AskedIn(x) THEN None ELSE prompt[o]]
  /\ op' = [o \in Ops |-> CASE o \in ended -> "done"
                            [] o \in AskedIn(x) \ ended -> "running"
                            [] OTHER -> op[o]]
  /\ toUser' = SendTo(toUser, context[x], Each(AskedIn(x), MsgCancel))

CandidateAnyKind(x, excluded) ==
  LET all == part \ excluded IN
  IF all = {} THEN None ELSE CHOOSE c \in all : \A d \in all : c <= d

CandidateAny(x, excluded) ==
  IF ~Movable(x) \/ part = {} THEN None ELSE CHOOSE c \in part : \A d \in part : c <= d

(* pickRouteCandidate: the oldest connection that takes part. *)
Candidate(x, excluded) ==
  LET all == part \ excluded IN
  IF ~Movable(x) \/ all = {} THEN None ELSE CHOOSE c \in all : \A d \in all : c <= d

-----------------------------------------------------------------------------
(* Connections.                                                            *)

Connect(u) ==
  /\ ConnOf(u) = {} /\ Len(user) < MaxConns
  /\ user' = Append(user, u)
  /\ up' = up \cup {Len(user) + 1}
  /\ toUser' = Append(toUser, <<>>)
  /\ toHub' = Append(toHub, <<>>)
  /\ UNCHANGED <<setting, part, context, opVars, prompt, expired, dialogs>>

(* A lease or an attach, and their end. *)
TakePart(c) ==
  /\ c \in up
  /\ part' = IF c \in part THEN part \ {c} ELSE part \cup {c}
  /\ UNCHANGED <<setting, user, up, context, opVars, prompt, expired, toUser, toHub, dialogs>>

(* clientDisconnect: the contexts of a client that leaves move to another  *)
(* one, or are closed.                                                     *)
RoutesWithout(c) == [x \in Contexts |-> IF context[x] = c THEN Candidate(x, {c}) ELSE context[x]]

(* retarget: a prompt of a context that moves is sent again, with a new epoch. *)
Redelivered(o) == [prompt[o] EXCEPT !.epoch = @ + 1]

(* removeClient: the prompts move or are given up before the client is forgotten. *)
Disconnect(c) ==
  LET next == RoutesWithout(c)
      mine == UNION {AskedIn(x) : x \in {y \in Contexts : context[y] = c}}
      moved == {o \in mine : next[CtxOf[o]] # None}
      Again(o) == MsgPrompt(IdOf(o), prompt[o].store, Redelivered(o).epoch)
  IN
  /\ c \in up
  /\ context' = next
  /\ prompt' = [o \in Ops |-> CASE o \in moved -> Redelivered(o)
                                [] o \in mine \ moved -> None
                                [] OTHER -> prompt[o]]
  /\ op' = [o \in Ops |-> IF o \in mine \ moved THEN "running" ELSE op[o]]
  /\ toUser' = [d \in DOMAIN toUser |->
                  IF d = c THEN <<>>
                  ELSE toUser[d] \o Each({o \in moved : next[CtxOf[o]] = d}, Again)]
  /\ up' = up \ {c} /\ part' = part \ {c}
  /\ toHub' = [toHub EXCEPT ![c] = <<>>]
  /\ UNCHANGED <<setting, user, by, asked, expired, dialogs>>

-----------------------------------------------------------------------------
(* Operations.                                                             *)

(* A spawn or a reconnect attempt connects; its context is opened when it  *)
(* first asks.                                                             *)
StartConnect(o) ==
  /\ op[o] = "idle" /\ Movable(CtxOf[o])
  /\ \E c \in up : by' = [by EXCEPT ![o] = c]
  /\ op' = [op EXCEPT ![o] = "running"]
  /\ UNCHANGED <<connVars, context, asked, prompt, expired, toUser, toHub, dialogs>>

(* handleTestConnect opens a context for its own client at once. *)
StartTest(o) ==
  /\ op[o] = "idle" /\ Kind[CtxOf[o]] = "test"
  /\ \E c \in up :
       /\ by' = [by EXCEPT ![o] = c]
       /\ context' = [context EXCEPT ![CtxOf[o]] = c]
  /\ op' = [op EXCEPT ![o] = "running"]
  /\ UNCHANGED <<connVars, asked, prompt, expired, toUser, toHub, dialogs>>

(* An elevated spawn is first sent without a password, or with the one the *)
(* client gave before: it has ended, or the agent requires a password.     *)
StartElevation(o) ==
  /\ op[o] = "idle" /\ Kind[CtxOf[o]] = "elevation"
  /\ \E c \in up : by' = [by EXCEPT ![o] = c]
  /\ \E after \in {"done", "running"} : op' = [op EXCEPT ![o] = after]
  /\ UNCHANGED <<connVars, context, asked, prompt, expired, toUser, toHub, dialogs>>

(* The route of a new prompt: the one of the open context if it is         *)
(* connected, else another candidate; a context that has none is opened    *)
(* for the client of the operation, or for a client of the session.        *)
RouteFor(o) ==
  LET x == CtxOf[o] IN
  CASE context[x] \in up                        -> context[x]
    [] context[x] # None /\ context[x] \notin up -> Candidate(x, {context[x]})
    [] context[x] = None /\ Kind[x] = "reconnect" -> Candidate(x, {})
    [] context[x] = None /\ Kind[x] \in {"session", "elevation"} ->
         IF by[o] \in up THEN by[o] ELSE None
    [] OTHER -> None

(* prompt: stored in every map before it is sent. *)
Ask(o, store) ==
  /\ op[o] = "running" /\ asked[o] < MaxAsks
  /\ RouteFor(o) # None
  /\ asked' = [asked EXCEPT ![o] = @ + 1]
  /\ context' = [context EXCEPT ![CtxOf[o]] = RouteFor(o)]
  /\ prompt' = [prompt EXCEPT ![o] = [epoch |-> 1, store |-> store]]
  /\ toUser' = SendTo(toUser, RouteFor(o), <<MsgPrompt(<<o, asked[o] + 1>>, store, 1)>>)
  /\ op' = [op EXCEPT ![o] = "asking"]
  /\ UNCHANGED <<connVars, by, expired, toHub, dialogs>>

(* A password or a passphrase of the connection. *)
AskSecret(o) == Kind[CtxOf[o]] # "elevation" /\ Ask(o, "auth")

(* The key of the host, or the agent binary found there: a test looks at   *)
(* neither.                                                                *)
AskVerify(o) == Movable(CtxOf[o]) /\ Ask(o, "verify")

(* The password of an elevated spawn or restart. *)
AskElevation(o) == Kind[CtxOf[o]] = "elevation" /\ Ask(o, "auth")

(* Nobody can be asked: the answer is null, and the context is closed. *)
AskNobody(o) ==
  /\ op[o] = "running" /\ asked[o] < MaxAsks
  /\ RouteFor(o) = None
  /\ asked' = [asked EXCEPT ![o] = @ + 1]
  /\ Clear(CtxOf[o], {})
  /\ UNCHANGED <<connVars, by, expired, toHub, dialogs>>

Expire(o) ==
  /\ op[o] = "asking"
  /\ prompt' = [prompt EXCEPT ![o] = None]
  /\ op' = [op EXCEPT ![o] = "running"]
  /\ expired' = expired \cup {IdOf(o)}
  /\ UNCHANGED <<connVars, context, by, asked, toUser, toHub, dialogs>>

(* The operation ends, one way or another: its context is cleared. *)
Finish(o) ==
  /\ op[o] = "running"
  /\ Clear(CtxOf[o], {o})
  /\ UNCHANGED <<connVars, by, asked, expired, toHub, dialogs>>

(* A connection is committed, refused or aborted. *)
FinishConnect(o) == Movable(CtxOf[o]) /\ Finish(o)

(* A test has connected, failed or timed out. *)
FinishTest(o) == Kind[CtxOf[o]] = "test" /\ Finish(o)

(* The password is cached and sent with a second SPAWN, or there is none. *)
FinishElevation(o) == Kind[CtxOf[o]] = "elevation" /\ Finish(o)

(* A context that is closed from outside. *)
ClearContext(x) ==
  /\ context[x] # None
  /\ Clear(x, {})
  /\ UNCHANGED <<connVars, by, asked, expired, toHub, dialogs>>

(* closeSession, an abort. *)
CloseSession(x) == Movable(x) /\ ClearContext(x)

(* The session or the channel of an elevation ends. *)
ClearElevation(x) == Kind[x] = "elevation" /\ ClearContext(x)

-----------------------------------------------------------------------------
(* Clients.                                                                *)

(* usePromptQueue: a prompt that is already queued is not queued again. *)
Enqueued(queue, m, c) ==
  IF \E i \in DOMAIN queue : queue[i].id = m.id THEN queue
  ELSE Append(queue, [id |-> m.id, store |-> m.store, epoch |-> m.epoch, conn |-> c])

(* removeByPromptId: no two prompts of a queue have the same id. *)
Dropped(queue, id) ==
  IF \E i \in DOMAIN queue : queue[i].id = id
    THEN RemoveAt(queue, CHOOSE i \in DOMAIN queue : queue[i].id = id) ELSE queue

Deliver(c) ==
  /\ c \in up /\ toUser[c] # <<>>
  /\ LET m == Head(toUser[c])
         u == user[c]
     IN \/ /\ m.type = "PROMPT"
           /\ dialogs' = [dialogs EXCEPT ![u] = Enqueued(@, m, c)]
        \/ /\ m.type = "CANCEL"
           /\ dialogs' = [dialogs EXCEPT ![u] = Dropped(@, m.id)]
  /\ toUser' = [toUser EXCEPT ![c] = Tail(@)]
  /\ UNCHANGED <<connVars, context, opVars, prompt, expired, toHub>>

(* Each store shows its first prompt. *)
Shown(u) ==
  {i \in DOMAIN dialogs[u] : \A j \in 1 .. i - 1 : dialogs[u][j].store # dialogs[u][i].store}

Answer(u) ==
  \E i \in Shown(u), c \in ConnOf(u) :
    /\ toHub' = [toHub EXCEPT ![c] = Append(@, [id |-> dialogs[u][i].id, epoch |-> dialogs[u][i].epoch])]
    /\ dialogs' = [dialogs EXCEPT ![u] = RemoveAt(@, i)]
    /\ UNCHANGED <<connVars, context, opVars, prompt, expired, toUser>>

(* The dialog of a verification can be closed without an answer. *)
Dismiss(u) ==
  \E i \in Shown(u) :
    /\ dialogs[u][i].store = "verify"
    /\ dialogs' = [dialogs EXCEPT ![u] = RemoveAt(@, i)]
    /\ UNCHANGED <<connVars, context, opVars, prompt, expired, toUser, toHub>>

(* respond: a prompt in flight, from its route, and, where the answer      *)
(* says which, for its last delivery.                                      *)
Accepts(o, c, r) ==
  /\ prompt[o] # None /\ IdOf(o) = r.id
  /\ context[CtxOf[o]] = c
  /\ prompt[o].store = "auth" => r.epoch = prompt[o].epoch

Respond(c) ==
  /\ c \in up /\ toHub[c] # <<>>
  /\ LET r == Head(toHub[c])
         S == {o \in Ops : Accepts(o, c, r)}
     IN /\ prompt' = [o \in Ops |-> IF o \in S THEN None ELSE prompt[o]]
        /\ op' = [o \in Ops |-> IF o \in S THEN "running" ELSE op[o]]
  /\ toHub' = [toHub EXCEPT ![c] = Tail(@)]
  /\ UNCHANGED <<connVars, context, by, asked, expired, toUser, dialogs>>

Next ==
  \/ \E u \in Users : Connect(u) \/ Answer(u) \/ Dismiss(u)
  \/ \E c \in Conns : TakePart(c) \/ Disconnect(c) \/ Deliver(c) \/ Respond(c)
  \/ \E o \in Ops : \/ StartConnect(o) \/ StartTest(o) \/ StartElevation(o)
                    \/ AskSecret(o) \/ AskVerify(o) \/ AskElevation(o)
                    \/ AskNobody(o) \/ Expire(o)
                    \/ FinishConnect(o) \/ FinishTest(o) \/ FinishElevation(o)
  \/ \E x \in Contexts : CloseSession(x) \/ ClearElevation(x)

Spec == Init /\ [][Next]_vars

-----------------------------------------------------------------------------
(* A prompt that is waited for can be answered: its context is open and    *)
(* routes to a connected client (store-before-send, and removeClient       *)
(* reroutes before it forgets the client).                                 *)
NoOrphanPrompt ==
  \A o \in Ops : prompt[o] # None => context[CtxOf[o]] \in up

(* A question of a test or of an elevation is never put to another client  *)
(* than the one that asked for it (clientDisconnect, pickRouteCandidate).   *)
OwnedRouteFixed ==
  [][\A x \in Contexts : ~Movable(x) /\ context[x] # None =>
        context'[x] \in {context[x], None}]_vars

(* A client that has handled all its messages shows, of what it received   *)
(* on this connection, only prompts that still wait for it or have timed   *)
(* out: PROMPT_CANCEL reaches every other dialog.  An answer without an    *)
(* epoch, given in a dialog kept over a reconnect, resolves the prompt     *)
(* that is being sent to the new connection and leaves its dialog: a       *)
(* redelivery is therefore only counted for a user's first connection.     *)
DialogIsLive ==
  \A u \in Users : \A c \in ConnOf(u) : toUser[c] = <<>> =>
     \A i \in DOMAIN dialogs[u] :
        LET d == dialogs[u][i] IN
        /\ d.conn = c /\ d.id \notin expired
        /\ d.epoch = 1 \/ \A b \in Conns : user[b] = u => b = c
        => \E o \in Ops : prompt[o] # None /\ IdOf(o) = d.id /\ context[CtxOf[o]] = c

=============================================================================
