------------------------- MODULE ChannelAccessProofs -------------------------
(***************************************************************************)
(* Proofs about ChannelAccess, for any number of clients and calls.  The   *)
(* inductive invariant adds to the checked properties what a call under    *)
(* way looks like, that the SPAWN creating the channel comes first, and    *)
(* that a client is not heard of before it connects.                       *)
(***************************************************************************)
EXTENDS ChannelAccess, TLAPS

\* What a call under way looks like at each stage.
CallShape ==
  \A a \in Calls :
    /\ st[a] \in {"idle", "done"} => who[a] = None /\ kind[a] = "none"
    /\ st[a] = "waiting" => kind[a] # "none" /\ res[a] = "none"
    /\ st[a] = "resolved" =>
         \/ kind[a] = "attach" /\ res[a] \in {"ok", "notFound", "cached"}
         \/ kind[a] \in {"spawn", "respawn"} /\ res[a] \in {"ok", "failed"}

\* The SPAWN that creates the channel is alone until the channel exists, and when it
\* fails the channel never exists.
SpawnFirst ==
  \A a \in Calls :
    /\ kind[a] = "spawn" => \A b \in Calls : kind[b] = "spawn" => a = b
    /\ kind[a] = "spawn" /\ res[a] # "ok" => status = "absent"
    /\ kind[a] \in {"attach", "respawn"} => status # "absent"

\* A connection that is not open yet has left no trace.
NewIsUnknown ==
  \A c \in Clients :
    conn[c] = "new" => c \notin subs /\ \A a \in Calls : who[a] # c

\* Client c waits for an attachment that ends in a message about the lock.
Attaching(c) ==
  \E a \in Calls : who[a] = c /\ kind[a] \in {"attach", "spawn"}

\* LockViewsAgree without the exemption of a client whose respawn request is under way:
\* such a client may be attached already, and gets no message if the request fails.
ViewsAgree ==
  \A c \in subs : conn[c] = "open" /\ ~Attaching(c) => view[c] = holder

AccessInv ==
  /\ TypeOK
  /\ CallShape
  /\ SpawnFirst
  /\ NewIsUnknown
  /\ HandlerWaits
  /\ SubscribersTracked
  /\ OrphanIsEmpty
  /\ ViewsAgree

-----------------------------------------------------------------------------
(* Frames *)

\* The frame at the head of the wire is one, and the rest are.
LEMMA HeadOfWire ==
  AgentTypes /\ wire # <<>> => Head(wire) \in Frames /\ Tail(wire) \in Seq(Frames)
BY DEF AgentTypes

\* What the agent sends are frames, and an answer names its call.
LEMMA FrameTypes ==
  /\ \A a \in Calls, b \in BOOLEAN : [k |-> "spawn", call |-> a, ok |-> b] \in Frames
  /\ \A a \in Calls, b \in BOOLEAN : [k |-> "attach", call |-> a, ok |-> b] \in Frames
  /\ [k |-> "exit", call |-> None, ok |-> FALSE] \in Frames
  /\ \A f \in Frames : f.k \in {"spawn", "attach"} => f.call \in Calls /\ f.ok \in BOOLEAN
BY DEF Frames

-----------------------------------------------------------------------------
(* Every step preserves the inductive invariant *)

\* The close and error handlers, with a tracked channel to leave or without.
LEMMA DisconnectPreserves ==
  ASSUME AccessInv, NEW c \in Clients, NEW next \in {"failing", "gone"}, Disconnect(c, next)
  PROVE  AccessInv'
<1> USE ChannelAccessAssumption
    DEF AccessInv, TypeOK, ClientTypes, LockTypes, AgentTypes, CallTypes, CallShape, SpawnFirst,
        NewIsUnknown, HandlerWaits, SubscribersTracked, OrphanIsEmpty, ViewsAgree, Attaching,
        clientVars, chanVars, lockVars, agentVars, callVars, Statuses, InMap
<1> USE DEF Disconnect, LockDetach, SetHolder, Announce
<1>1. CASE tracked[c]
  <2>1. ClientTypes'
    <3>1. conn' \in [Clients -> {"new", "open", "failing", "gone"}]
      OBVIOUS
    <3>2. tracked' \in [Clients -> BOOLEAN]
      <4>1. tracked' = [tracked EXCEPT ![c] = FALSE] /\ tracked \in [Clients -> BOOLEAN]
        BY <1>1 DEF DetachClient
      <4> HIDE DEF Disconnect, AccessInv
      <4> QED BY <4>1
    <3>3. subs' \in SUBSET Clients /\ status' \in Statuses /\ (InMap' => InMap)
      BY <1>1 DEF DetachClient
    <3>4. ~InMap' => subs' = {}
      BY <1>1 DEF DetachClient
    <3> QED BY <3>1, <3>2, <3>3, <3>4
  <2>2. (LockTypes /\ AgentTypes /\ CallTypes)'
    BY <1>1 DEF DetachClient
  <2>3. (CallShape /\ SpawnFirst /\ NewIsUnknown /\ HandlerWaits)'
    BY <1>1 DEF DetachClient
  <2>4. (SubscribersTracked /\ OrphanIsEmpty)'
    BY <1>1 DEF DetachClient
  <2>5. ViewsAgree'
    BY <1>1 DEF DetachClient
  <2> QED BY <2>1, <2>2, <2>3, <2>4, <2>5
<1>2. CASE ~tracked[c]
  BY <1>2
<1> QED BY <1>1, <1>2

\* What clients do: connecting, leaving and passing the lock on.
LEMMA ClientStepPreserves ==
  ASSUME AccessInv, NEW c \in Clients, ClientStep(c)
  PROVE  AccessInv'
<1> USE ChannelAccessAssumption
    DEF AccessInv, TypeOK, ClientTypes, LockTypes, AgentTypes, CallTypes, CallShape, SpawnFirst,
        NewIsUnknown, HandlerWaits, SubscribersTracked, OrphanIsEmpty, ViewsAgree, Attaching,
        clientVars, chanVars, lockVars, agentVars, callVars, Statuses, InMap
<1>1. CASE Connect(c)
  BY <1>1 DEF Connect
<1>2. CASE Detach(c)
  BY <1>2 DEF Detach, LockDetach, SetHolder, Announce, DetachClient
<1>3. CASE SocketError(c)
  BY <1>3, DisconnectPreserves DEF SocketError
<1>4. CASE SocketClose(c)
  BY <1>4, DisconnectPreserves DEF SocketClose
<1>5. CASE SocketCloseAfterError(c)
  BY <1>5 DEF SocketCloseAfterError, LockDetach, SetHolder, Announce
<1>6. CASE Claim(c)
  BY <1>6 DEF Claim, SetHolder, Announce
<1>7. CASE ClaimHeld(c)
  BY <1>7 DEF ClaimHeld
<1>8. CASE Grant(c)
  BY <1>8 DEF Grant, SetHolder, Announce
<1>9. CASE Deny(c)
  BY <1>9 DEF Deny
<1>10. CASE ForceLock(c)
  BY <1>10 DEF ForceLock, Announce
<1>11. CASE ReleaseLock(c)
  BY <1>11 DEF ReleaseLock, SetHolder, Announce
<1> QED BY <1>1, <1>2, <1>3, <1>4, <1>5, <1>6, <1>7, <1>8, <1>9, <1>10, <1>11 DEF ClientStep

\* SPAWN and ATTACH up to their first await.
LEMMA RequestStepPreserves ==
  ASSUME AccessInv, NEW a \in Calls, NEW c \in Clients, RequestStep(a, c)
  PROVE  AccessInv'
<1> USE ChannelAccessAssumption
    DEF AccessInv, TypeOK, ClientTypes, LockTypes, AgentTypes, CallTypes, CallShape, SpawnFirst,
        NewIsUnknown, HandlerWaits, SubscribersTracked, OrphanIsEmpty, ViewsAgree, Attaching,
        clientVars, chanVars, lockVars, agentVars, callVars, Statuses, InMap
<1>1. ASSUME AgentSpawns(a) PROVE wire' \in Seq(Frames) /\ pty' \in BOOLEAN
  <2>1. (~pty) \in BOOLEAN
    OBVIOUS
  <2>2. [k |-> "spawn", call |-> a, ok |-> ~pty] \in Frames
    BY <2>1, FrameTypes
  <2>3. wire' \in Seq(Frames)
    BY <1>1, <2>2 DEF AgentSpawns
  <2>4. pty' \in BOOLEAN
    BY <1>1 DEF AgentSpawns
  <2> QED BY <2>3, <2>4
<1>2. CASE SpawnRequest(a, c)
  BY <1>1, <1>2 DEF SpawnRequest, Begin
<1>3. CASE AttachLive(a, c)
  <2>1. wire' \in Seq(Frames)
    BY <1>3, FrameTypes DEF AttachLive
  <2> QED BY <1>3, <2>1 DEF AttachLive, Begin, Subscribe
<1>4. CASE AttachCached(a, c)
  BY <1>4 DEF AttachCached, Begin, Subscribe
<1>5. CASE AttachDead(a, c)
  BY <1>1, <1>5 DEF AttachDead, Begin
<1> QED BY <1>2, <1>3, <1>4, <1>5 DEF RequestStep

\* Timers and continuations.
LEMMA CallStepPreserves ==
  ASSUME AccessInv, NEW a \in Calls, ResumeStep(a) \/ TimeOut(a)
  PROVE  AccessInv'
<1> USE ChannelAccessAssumption
    DEF AccessInv, TypeOK, ClientTypes, LockTypes, AgentTypes, CallTypes, CallShape, SpawnFirst,
        NewIsUnknown, HandlerWaits, SubscribersTracked, OrphanIsEmpty, ViewsAgree, Attaching,
        clientVars, chanVars, lockVars, agentVars, callVars, Statuses, InMap
<1>1. CASE ResumeAttached(a)
  BY <1>1 DEF ResumeAttached, Continue, LockAttach, Announce
<1>2. CASE ResumeRespawned(a)
  BY <1>2 DEF ResumeRespawned, Continue, LockAttach, Announce
<1>3. CASE ResumeNotFound(a)
  BY <1>3 DEF ResumeNotFound, Continue
<1>4. CASE ResumeFailed(a)
  BY <1>4 DEF ResumeFailed, Continue
<1>5. CASE TimeOut(a)
  BY <1>5 DEF TimeOut, Resolve
<1> QED BY <1>1, <1>2, <1>3, <1>4, <1>5 DEF ResumeStep

\* The agent, its connection and the channel itself.
LEMMA AgentStepPreserves ==
  ASSUME AccessInv, AgentStep \/ ChannelDestroyed \/ SessionClosed
  PROVE  AccessInv'
<1> USE ChannelAccessAssumption
    DEF AccessInv, TypeOK, ClientTypes, LockTypes, AgentTypes, CallTypes, CallShape, SpawnFirst,
        NewIsUnknown, HandlerWaits, SubscribersTracked, OrphanIsEmpty, ViewsAgree, Attaching,
        clientVars, chanVars, lockVars, agentVars, callVars, Statuses, InMap
<1>1. CASE DeliverSpawn
  <2> DEFINE a == Head(wire).call
  <2>1. /\ a \in Calls /\ Head(wire).ok \in BOOLEAN
        /\ wire' \in Seq(Frames)
    BY <1>1, HeadOfWire, FrameTypes DEF DeliverSpawn, Deliver
  <2>2. UNCHANGED <<conn, holder, view, asked, agentUp, pty, pend, kind, who>>
    BY <1>1 DEF DeliverSpawn
  <2>3. CASE SpawnAwaited(a) /\ kind[a] = "spawn" /\ Head(wire).ok
    <3>1. /\ st' = [st EXCEPT ![a] = "resolved"] /\ res' = [res EXCEPT ![a] = "ok"]
          /\ status' = "live" /\ subs' = {who[a]}
          /\ tracked' = [tracked EXCEPT ![who[a]] = TRUE]
      BY <1>1, <2>3 DEF DeliverSpawn, Resolve
    <3> QED BY <2>1, <2>2, <2>3, <3>1 DEF SpawnAwaited
  <2>4. CASE SpawnAwaited(a) /\ ~(kind[a] = "spawn" /\ Head(wire).ok)
    <3>1. /\ st' = [st EXCEPT ![a] = "resolved"]
          /\ res' = [res EXCEPT ![a] = IF Head(wire).ok THEN "ok" ELSE "failed"]
          /\ UNCHANGED <<status, subs, tracked>>
      BY <1>1, <2>4 DEF DeliverSpawn, Resolve
    <3> QED BY <2>1, <2>2, <2>4, <3>1 DEF SpawnAwaited
  <2>5. CASE ~SpawnAwaited(a)
    <3>1. UNCHANGED <<st, res, status, subs, tracked>>
      BY <1>1, <2>5 DEF DeliverSpawn
    <3> QED BY <2>1, <2>2, <3>1
  <2> QED BY <2>3, <2>4, <2>5
<1>2. CASE DeliverAttach
  <2>1. Head(wire).call \in Calls /\ wire' \in Seq(Frames)
    BY <1>2, HeadOfWire, FrameTypes DEF DeliverAttach, Deliver
  <2>2. CASE pend = None
    BY <1>2, <2>1, <2>2 DEF DeliverAttach
  <2>3. CASE pend # None
    <3>1. pend \in Calls /\ st[pend] = "waiting" /\ kind[pend] = "attach"
      BY <2>3
    <3>2. PICK r \in {"ok", "notFound"} :
            /\ st' = [st EXCEPT ![pend] = "resolved"]
            /\ res' = [res EXCEPT ![pend] = r]
      BY <1>2, <2>3 DEF DeliverAttach, Resolve
    <3>3. pend' = None /\ UNCHANGED <<conn, tracked, status, subs, holder, view, asked,
                                     agentUp, pty, kind, who>>
      BY <1>2 DEF DeliverAttach
    <3> QED BY <2>1, <3>1, <3>2, <3>3
  <2> QED BY <2>2, <2>3
<1>3. CASE DeliverExit
  <2>1. wire' \in Seq(Frames)
    BY <1>3, HeadOfWire DEF DeliverExit, Deliver
  <2> QED BY <1>3, <2>1 DEF DeliverExit
<1>4. CASE ProcessExits
  <2>1. wire' \in Seq(Frames)
    BY <1>4, FrameTypes DEF ProcessExits
  <2>2. pty' \in BOOLEAN
    BY <1>4, Zenon DEF ProcessExits
  <2> QED BY <1>4, <2>1, <2>2 DEF ProcessExits
<1>5. CASE AgentDown
  <2>1. wire' \in Seq(Frames)
    BY <1>5 DEF AgentDown
  <2>2. agentUp' \in BOOLEAN
    BY <1>5, Zenon DEF AgentDown
  <2> QED BY <1>5, <2>1, <2>2 DEF AgentDown
<1>6. CASE AgentBack
  BY <1>6 DEF AgentBack
<1>7. CASE ChannelDestroyed
  <2>1. wire' \in Seq(Frames)
    BY <1>7, FrameTypes DEF ChannelDestroyed
  <2> QED BY <1>7, <2>1 DEF ChannelDestroyed
<1>8. CASE SessionClosed
  BY <1>8 DEF SessionClosed
<1> QED BY <1>1, <1>2, <1>3, <1>4, <1>5, <1>6, <1>7, <1>8 DEF AgentStep

\* The initial state satisfies the inductive invariant.
LEMMA InitAccess == Init => AccessInv
<1> SUFFICES ASSUME Init PROVE AccessInv
  OBVIOUS
<1> USE ChannelAccessAssumption
    DEF AccessInv, TypeOK, ClientTypes, LockTypes, AgentTypes, CallTypes, CallShape, SpawnFirst,
        NewIsUnknown, HandlerWaits, SubscribersTracked, OrphanIsEmpty, ViewsAgree, Attaching,
        clientVars, chanVars, lockVars, agentVars, callVars, Statuses, InMap
<1>1. AgentTypes
  <2>1. agentUp \in BOOLEAN /\ pty \in BOOLEAN
    BY Zenon DEF Init
  <2> QED BY <2>1 DEF Init
<1> QED BY <1>1 DEF Init

\* Every step, stuttering included, preserves the inductive invariant.
LEMMA NextAccess == AccessInv /\ [Next]_vars => AccessInv'
<1> SUFFICES ASSUME AccessInv, [Next]_vars PROVE AccessInv'
  OBVIOUS
<1>1. CASE UNCHANGED vars
  BY <1>1 DEF vars, AccessInv, TypeOK, ClientTypes, LockTypes, AgentTypes, CallTypes, CallShape, SpawnFirst,
        NewIsUnknown, HandlerWaits, SubscribersTracked, OrphanIsEmpty, ViewsAgree, Attaching,
        clientVars, chanVars, lockVars, agentVars, callVars, Statuses, InMap
<1>2. CASE Next
  BY <1>2, ClientStepPreserves, RequestStepPreserves, CallStepPreserves, AgentStepPreserves
     DEF Next
<1> QED BY <1>1, <1>2

\* The inductive invariant holds in every reachable state.
LEMMA AccessInvariant == Spec => []AccessInv
BY InitAccess, NextAccess, PTL DEF Spec

-----------------------------------------------------------------------------
(* Theorems *)

\* The variables keep their types and every call under way its client, for any number of
\* clients and of SPAWN and ATTACH calls.
THEOREM AccessTypeCorrect == Spec => []TypeOK
<1>1. AccessInv => TypeOK
  BY DEF AccessInv
<1> QED BY <1>1, AccessInvariant, PTL

\* Attached clients with no request under way agree with the hub about who holds the write
\* lock, so no two of them take themselves for the writer.
THEOREM LockViewsCorrect == Spec => []LockViewsAgree
<1>1. AccessInv => LockViewsAgree
  BY DEF AccessInv, ViewsAgree, LockViewsAgree, Attaching, Unsettled
<1> QED BY <1>1, AccessInvariant, PTL

\* The handler slot that concurrent ATTACHes share never holds a finished call.
THEOREM HandlerCorrect == Spec => []HandlerWaits
<1>1. AccessInv => HandlerWaits
  BY DEF AccessInv
<1> QED BY <1>1, AccessInvariant, PTL

\* removeClient finds every attachment of the client.
THEOREM AttachmentCorrect == Spec => []SubscribersTracked
<1>1. AccessInv => SubscribersTracked
  BY DEF AccessInv
<1> QED BY <1>1, AccessInvariant, PTL

\* A channel that is marked orphan has nobody attached to it.
THEOREM OrphanCorrect == Spec => []OrphanIsEmpty
<1>1. AccessInv => OrphanIsEmpty
  BY DEF AccessInv
<1> QED BY <1>1, AccessInvariant, PTL
=============================================================================
