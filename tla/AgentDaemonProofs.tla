------------------------- MODULE AgentDaemonProofs -------------------------
(***************************************************************************)
(* Proofs about AgentDaemon, for any number of channels, processes,        *)
(* connections and frames: the newest connection keeps the active slot, a  *)
(* clean exit status is earned, and output is delivered in order.          *)
(***************************************************************************)
EXTENDS AgentDaemon, SequenceTheorems, TLAPS

-----------------------------------------------------------------------------
(* Types.  One lemma per group of variables, one step per action that      *)
(* changes the group.                                                      *)

\* The channel table, the lock, the processes and their readers.
LEMMA PtyTypesStep == TypeOK /\ [Next]_vars => PtyTypes'
<1> SUFFICES ASSUME TypeOK, [Next]_vars PROVE PtyTypes'
  OBVIOUS
<1>0. PtyTypes /\ ConnTypes /\ StopTypes
  BY DEF TypeOK
<1>1. ASSUME UNCHANGED ptyVars PROVE PtyTypes'
  BY <1>0, <1>1 DEF ptyVars, PtyTypes
<1>2. ASSUME NEW c \in Conns, NEW p \in Procs, SpawnProcess(c, p) PROVE PtyTypes'
  <2>1. req[c].id \in Ids \cup {None}
    BY <1>0 DEF ConnTypes, Unanswered
  <2>2. QED
    BY <1>0, <1>2, <2>1 DEF SpawnProcess, PtyTypes, Gone
<1>3. ASSUME NEW c \in Conns, StartReader(c) PROVE PtyTypes'
  <2>1. arg[c] \in Procs /\ req[c].id \in Ids
    BY <1>0, <1>3 DEF StartReader, ConnTypes, ConnLocals
  <2>2. QED
    BY <1>0, <1>3, <2>1 DEF StartReader, PtyTypes
<1>4. ASSUME NEW c \in Conns, Destroy(c) PROVE PtyTypes'
  BY <1>0, <1>4 DEF Destroy, Signal, PtyTypes, Gone
<1>5. ASSUME NEW p \in Procs, ProcessExits(p) PROVE PtyTypes'
  BY <1>0, <1>5 DEF ProcessExits, PtyTypes, Gone
<1>6. ASSUME NEW p \in Procs, ReaderEnds(p) \/ ReaderWaits(p) PROVE PtyTypes'
  BY <1>0, <1>6 DEF ReaderEnds, ReaderWaits, PtyTypes
<1>7. ASSUME NEW p \in Procs, ReaderWaited(p) PROVE PtyTypes'
  BY <1>0, <1>7 DEF ReaderWaited, PtyTypes, Gone
<1>8. ASSUME NEW p \in Procs, ReaderReaps(p) PROVE PtyTypes'
  BY <1>0, <1>8 DEF ReaderReaps, PtyTypes
<1>9. ASSUME Sweep PROVE PtyTypes'
  <2> DEFINE found == {mgr[i] : i \in Ids} \ {None}
  <2>1. PICK failed \in SUBSET {p \in found : proc[p] # "reaped"} :
          /\ mgr' = [i \in Ids |-> IF mgr[i] \in failed THEN mgr[i] ELSE None]
          /\ proc' = [p \in Procs |-> IF p \in found \ failed THEN Signal(p) ELSE proc[p]]
    BY <1>9 DEF Sweep
  <2> HIDE DEF found
  <2>2. mgr' \in [Ids -> Procs \cup {None}]
    BY <1>0, <2>1 DEF PtyTypes
  <2>3. \A p \in Procs : Signal(p) \in {"unborn", "running", "killed"} \cup Gone
    BY <1>0 DEF Signal, PtyTypes
  <2>4. proc' \in [Procs -> {"unborn", "running", "killed"} \cup Gone]
    BY <1>0, <2>1, <2>3 DEF PtyTypes
  <2>5. QED
    BY <1>0, <1>9, <2>2, <2>4 DEF Sweep, PtyTypes
<1>10. ASSUME SweepConfirmed PROVE PtyTypes'
  BY <1>0, <1>10 DEF SweepConfirmed, PtyTypes
<1>11. ASSUME NEW c \in Conns, ConnStep(c),
              ~StartReader(c), ~Destroy(c), ~\E p \in Procs : SpawnProcess(c, p)
       PROVE  UNCHANGED ptyVars
  BY <1>11 DEF ConnStep, Accept, Authenticated, AuthFails, HubLeaves, ReadEnds, Receive, SpawnErr,
     DestroyFails, AskReader, AttachNotFound, AttachOk, AttachDropped
<1>12. ASSUME StopRequested \/ Stop \/ ForcedStop \/ UNCHANGED vars PROVE UNCHANGED ptyVars
  BY <1>12 DEF StopRequested, Stop, ForcedStop, Exit, vars
<1>13. ASSUME NEW p \in Procs, ReadOutput(p) \/ QueueOutput(p) PROVE UNCHANGED ptyVars
  BY <1>13 DEF ReadOutput, QueueOutput
<1>14. ASSUME NEW i \in Ids, Flush(i) PROVE UNCHANGED ptyVars
  BY <1>14 DEF Flush
<1>15. ASSUME NEW c \in Conns, ConnStep(c) PROVE PtyTypes'
  BY <1>1, <1>2, <1>3, <1>4, <1>11, <1>15
<1>16. ASSUME NEW p \in Procs, ProcStep(p) PROVE PtyTypes'
  BY <1>1, <1>5, <1>6, <1>7, <1>8, <1>13, <1>16 DEF ProcStep
<1>17. ASSUME StopStep PROVE PtyTypes'
  BY <1>1, <1>9, <1>10, <1>12, <1>17 DEF StopStep
<1>18. QED
  BY <1>1, <1>12, <1>14, <1>15, <1>16, <1>17 DEF Next

\* The handlers of connections.
LEMMA ConnTypesStep == TypeOK /\ [Next]_vars => ConnTypes'
<1> SUFFICES ASSUME TypeOK, [Next]_vars PROVE ConnTypes'
  OBVIOUS
<1>0. PtyTypes /\ ConnTypes
  BY DEF TypeOK
<1>1. ASSUME UNCHANGED connVars PROVE ConnTypes'
  BY <1>0, <1>1 DEF connVars, ConnTypes, ConnLocals
<1>2. ASSUME NEW c \in Conns, Accept(c) PROVE ConnTypes'
  <2>1. open' \in [Conns -> BOOLEAN]
    BY <1>0, <1>2 DEF Accept, ConnTypes
  <2>2. conn' \in [Conns -> {"unused", "auth", "read", "busy", "spawned", "snapshot", "closed"}]
    BY <1>0, <1>2 DEF Accept, ConnTypes
  <2>3. ConnLocals'
    BY <1>0, <1>2 DEF Accept, ConnTypes, ConnLocals
  <2>4. QED
    BY <1>0, <1>2, <2>1, <2>2, <2>3 DEF Accept, ConnTypes
<1>3. ASSUME NEW c \in Conns, Authenticated(c) \/ AuthFails(c) \/ ReadEnds(c) PROVE ConnTypes'
  BY <1>0, <1>3 DEF Authenticated, AuthFails, ReadEnds, Close, ClearActive, ConnTypes, ConnLocals
<1>4. ASSUME NEW c \in Conns, HubLeaves(c) PROVE ConnTypes'
  BY <1>0, <1>4 DEF HubLeaves, ConnTypes, ConnLocals
<1>5. ASSUME NEW c \in Conns, NEW op \in Ops, NEW i \in Ids, Receive(c, op, i) PROVE ConnTypes'
  BY <1>0, <1>5 DEF Receive, ConnTypes, ConnLocals
<1>6. ASSUME NEW c \in Conns, NEW p \in Procs, SpawnProcess(c, p) PROVE ConnTypes'
  BY <1>0, <1>6 DEF SpawnProcess, Handling, ConnTypes, ConnLocals
<1>7. ASSUME NEW c \in Conns, Handled(c) PROVE ConnTypes'
  BY <1>0, <1>7 DEF Handled, ConnTypes, ConnLocals
<1>8. ASSUME NEW c \in Conns, AskReader(c) PROVE ConnTypes'
  <2>1. conn[c] = "busy" /\ req[c] \in [op : Ops, id : Ids] /\ sender[req[c].id] # None
    BY <1>0, <1>8 DEF AskReader, Handling, ConnTypes, ConnLocals
  <2>2. sender[req[c].id] \in Procs
    BY <1>0, <2>1 DEF PtyTypes
  <2>3. QED
    BY <1>0, <1>8, <2>1, <2>2 DEF AskReader, ConnTypes, ConnLocals
<1>9. ASSUME NEW c \in Conns, ConnStep(c) PROVE ConnTypes'
  BY <1>2, <1>3, <1>4, <1>5, <1>6, <1>7, <1>8, <1>9 DEF ConnStep, SpawnErr, StartReader, Destroy,
     DestroyFails, AttachNotFound, AttachOk, AttachDropped
<1>10. ASSUME NEW p \in Procs, ProcStep(p) PROVE UNCHANGED connVars
  BY <1>10 DEF ProcStep, ProcessExits, ReadOutput, QueueOutput, ReaderEnds, ReaderWaits, ReaderWaited, ReaderReaps
<1>11. ASSUME StopStep \/ UNCHANGED vars PROVE UNCHANGED connVars
  BY <1>11 DEF StopStep, StopRequested, Sweep, SweepConfirmed, Stop, ForcedStop, Exit, vars
<1>12. ASSUME NEW i \in Ids, Flush(i) PROVE UNCHANGED connVars
  BY <1>12 DEF Flush
<1>13. QED
  BY <1>1, <1>9, <1>10, <1>11, <1>12 DEF Next

\* A frame and the frames that were kept are frames.
LEMMA FrameTypes ==
  ASSUME TypeOK, NEW frame \in Seq(Chunks)
  PROVE  /\ Append(pending, frame) \in Seq(Seq(Chunks))
         /\ Append(Tail(pending), frame) \in Seq(Seq(Chunks)) \/ Len(pending) < MaxQueue
         /\ \A c \in Conns : sent[c] \o Append(pending, frame) \in Seq(Seq(Chunks))
<1> DEFINE F == Seq(Chunks)
<1>1. pending \in Seq(F) /\ frame \in F /\ \A c \in Conns : sent[c] \in Seq(F)
  BY DEF TypeOK, OutTypes, MsgTypes
<1> HIDE DEF F
<1>2. Append(pending, frame) \in Seq(F)
  BY <1>1, AppendProperties
<1>3. Append(Tail(pending), frame) \in Seq(F) \/ Len(pending) < MaxQueue
  <2>1. CASE pending = << >>
    BY <2>1, EmptySeq, BoundsAssumption
  <2>2. CASE pending # << >>
    BY <1>1, <2>2, HeadTailProperties, AppendProperties
  <2>3. QED
    BY <2>1, <2>2
<1>4. \A c \in Conns : sent[c] \o Append(pending, frame) \in Seq(F)
  BY <1>1, <1>2, ConcatProperties
<1>5. QED
  BY <1>2, <1>3, <1>4 DEF F

\* Output on its way.
LEMMA OutTypesStep == TypeOK /\ [Next]_vars => OutTypes'
<1> SUFFICES ASSUME TypeOK, [Next]_vars PROVE OutTypes'
  OBVIOUS
<1>0. OutTypes /\ PtyTypes
  BY DEF TypeOK
<1>1. ASSUME UNCHANGED outVars PROVE OutTypes'
  BY <1>0, <1>1 DEF outVars, OutTypes
<1>2. ASSUME NEW r \in Procs, ReadOutput(r) PROVE OutTypes'
  <2>1. reads[r] \in Procs
    BY <1>0, <1>2 DEF ReadOutput, PtyTypes
  <2>2. QED
    BY <1>0, <1>2, <2>1, BoundsAssumption DEF ReadOutput, OutTypes
<1>8. ASSUME NEW r \in Procs, QueueOutput(r) PROVE OutTypes'
  <2>1. reads[r] \in Procs /\ hand[r] \in 1 .. MaxOutput /\ Alone(r) \in BOOLEAN
    BY <1>0, <1>8, BoundsAssumption DEF QueueOutput, PtyTypes, OutTypes, Alone
  <2>2. InHand(r) \in Chunks
    BY <2>1 DEF InHand, Chunks
  <2>3. \A i \in Ids : Append(batch[i], InHand(r)) \in Seq(Chunks)
    BY <1>0, <2>2, AppendProperties DEF OutTypes
  <2>4. batch' \in [Ids -> Seq(Chunks)]
    BY <1>0, <1>8, <2>3 DEF QueueOutput, OutTypes
  <2>5. QED
    BY <1>0, <1>8, <2>4, BoundsAssumption DEF QueueOutput, OutTypes
<1>9. ASSUME NEW code, Exit(code) PROVE OutTypes'
  BY <1>0, <1>9, EmptySeq, BoundsAssumption DEF Exit, OutTypes
<1>3. ASSUME NEW i \in Ids, Flush(i) PROVE OutTypes'
  <2>1. /\ batch[i] \in Seq(Chunks) /\ Route(batch[i]) /\ UNCHANGED <<count, hand>>
        /\ batch' = [batch EXCEPT ![i] = << >>]
    BY <1>0, <1>3 DEF Flush, OutTypes
  <2>2. batch' \in [Ids -> Seq(Chunks)]
    BY <1>0, <2>1, EmptySeq DEF OutTypes
  <2>3. pending' \in Seq(Seq(Chunks)) /\ Len(pending') <= MaxQueue
    <3>1. CASE active # None
      BY <2>1, <3>1, EmptySeq, BoundsAssumption DEF Route
    <3>2. CASE active = None /\ Len(pending) >= MaxQueue
      <4>1. pending' = Append(Tail(pending), batch[i])
        BY <2>1, <3>2 DEF Route
      <4>2. Len(pending) \in Nat /\ pending # << >>
        BY <1>0, <3>2, EmptySeq, LenProperties, BoundsAssumption DEF OutTypes
      <4>3. Tail(pending) \in Seq(Seq(Chunks)) /\ Len(Tail(pending)) = Len(pending) - 1
        BY <1>0, <4>2, HeadTailProperties DEF OutTypes
      <4>4. pending' \in Seq(Seq(Chunks)) /\ Len(pending') = Len(Tail(pending)) + 1
        BY <2>1, <4>1, <4>3, AppendProperties
      <4>5. QED
        BY <1>0, <4>2, <4>3, <4>4, BoundsAssumption DEF OutTypes
    <3>3. CASE active = None /\ Len(pending) < MaxQueue
      <4>1. Len(pending) \in Nat
        BY <1>0, LenProperties DEF OutTypes
      <4>2. pending' = Append(pending, batch[i])
        BY <2>1, <3>3, <4>1, BoundsAssumption DEF Route
      <4>3. pending' \in Seq(Seq(Chunks)) /\ Len(pending') = Len(pending) + 1
        BY <1>0, <2>1, <4>2, AppendProperties DEF OutTypes
      <4>4. QED
        BY <3>3, <4>1, <4>3, BoundsAssumption
    <3>4. Len(pending) \in Nat
      BY <1>0, LenProperties DEF OutTypes
    <3>5. QED
      BY <3>1, <3>2, <3>3, <3>4, BoundsAssumption
  <2>4. QED
    BY <1>0, <2>1, <2>2, <2>3 DEF OutTypes
<1>4. ASSUME NEW c \in Conns, ConnStep(c) PROVE UNCHANGED outVars
  BY <1>4 DEF ConnStep, Accept, Authenticated, AuthFails, HubLeaves, ReadEnds, Receive, SpawnProcess, SpawnErr,
     StartReader, Destroy, DestroyFails, AskReader, AttachNotFound, AttachOk, AttachDropped
<1>5. ASSUME NEW p \in Procs, ProcStep(p), ~ReadOutput(p), ~QueueOutput(p) PROVE UNCHANGED outVars
  BY <1>5 DEF ProcStep, ProcessExits, ReaderEnds, ReaderWaits, ReaderWaited, ReaderReaps
<1>6. ASSUME StopStep \/ UNCHANGED vars, ~Stop, ~ForcedStop PROVE UNCHANGED outVars
  BY <1>6 DEF StopStep, StopRequested, Sweep, SweepConfirmed, vars
<1>7. QED
  BY <1>1, <1>2, <1>3, <1>4, <1>5, <1>6, <1>8, <1>9 DEF Next, Stop, ForcedStop

\* The shutdown.
LEMMA StopTypesStep == TypeOK /\ [Next]_vars => StopTypes'
<1> SUFFICES ASSUME TypeOK, [Next]_vars PROVE StopTypes'
  OBVIOUS
<1>0. StopTypes /\ PtyTypes
  BY DEF TypeOK
<1>1. ASSUME UNCHANGED stopVars PROVE StopTypes'
  BY <1>0, <1>1 DEF stopVars, StopTypes
<1>2. ASSUME Sweep PROVE StopTypes'
  BY <1>0, <1>2 DEF Sweep, StopTypes, PtyTypes
<1>3. ASSUME StopRequested \/ SweepConfirmed \/ Stop \/ ForcedStop PROVE StopTypes'
  BY <1>0, <1>3 DEF StopRequested, SweepConfirmed, Stop, ForcedStop, Exit, StopTypes
<1>4. ASSUME NEW c \in Conns, ConnStep(c) PROVE UNCHANGED stopVars
  BY <1>4 DEF ConnStep, Accept, Authenticated, AuthFails, HubLeaves, ReadEnds, Receive, SpawnProcess, SpawnErr,
     StartReader, Destroy, DestroyFails, AskReader, AttachNotFound, AttachOk, AttachDropped
<1>5. ASSUME NEW p \in Procs, ProcStep(p) PROVE UNCHANGED stopVars
  BY <1>5 DEF ProcStep, ProcessExits, ReadOutput, QueueOutput, ReaderEnds, ReaderWaits, ReaderWaited, ReaderReaps
<1>6. ASSUME NEW i \in Ids, Flush(i) PROVE UNCHANGED stopVars
  BY <1>6 DEF Flush
<1>7. QED
  BY <1>1, <1>2, <1>3, <1>4, <1>5, <1>6 DEF Next, StopStep, vars

\* What hubs were sent.
LEMMA MsgTypesStep == TypeOK /\ [Next]_vars => MsgTypes'
<1> SUFFICES ASSUME TypeOK, [Next]_vars PROVE MsgTypes'
  OBVIOUS
<1>0. MsgTypes /\ OutTypes /\ ConnTypes /\ PtyTypes
  BY DEF TypeOK
<1>1. ASSUME UNCHANGED msgVars PROVE MsgTypes'
  BY <1>0, <1>1 DEF msgVars, MsgTypes
<1>2. ASSUME NEW i \in Ids, Flush(i) PROVE MsgTypes'
  <2>1. batch[i] \in Seq(Chunks) /\ Route(batch[i]) /\ UNCHANGED <<asked, events>>
    BY <1>0, <1>2 DEF Flush, OutTypes
  <2>2. \A c \in Conns : sent[c] \o Append(pending, batch[i]) \in Seq(Seq(Chunks))
    BY <2>1, FrameTypes
  <2>3. sent' \in [Conns -> Seq(Seq(Chunks))]
    BY <1>0, <2>1, <2>2 DEF Route, Send, MsgTypes
  <2>4. QED
    BY <1>0, <2>1, <2>3 DEF MsgTypes
<1>3. ASSUME NEW c \in Conns, NEW op \in Ops, NEW i \in Ids, Receive(c, op, i) PROVE MsgTypes'
  BY <1>0, <1>3, BoundsAssumption DEF Receive, MsgTypes
<1>4. ASSUME NEW r \in Procs, ReadOutput(r) PROVE MsgTypes'
  BY <1>0, <1>4, BoundsAssumption DEF ReadOutput, MsgTypes
<1>5. ASSUME NEW c \in Conns, ConnStep(c) PROVE MsgTypes'
  BY <1>1, <1>3, <1>5 DEF ConnStep, Accept, Authenticated, AuthFails, HubLeaves, ReadEnds, SpawnProcess, SpawnErr,
     StartReader, Destroy, DestroyFails, AskReader, AttachNotFound, AttachOk, AttachDropped
<1>6. ASSUME NEW p \in Procs, ProcStep(p) PROVE MsgTypes'
  BY <1>1, <1>4, <1>6 DEF ProcStep, ProcessExits, QueueOutput, ReaderEnds, ReaderWaits, ReaderWaited, ReaderReaps
<1>7. ASSUME StopStep \/ UNCHANGED vars PROVE UNCHANGED msgVars
  BY <1>7 DEF StopStep, StopRequested, Sweep, SweepConfirmed, Stop, ForcedStop, Exit, vars
<1>8. QED
  BY <1>1, <1>2, <1>5, <1>6, <1>7 DEF Next

\* Every variable of the daemon keeps its type.
LEMMA TypeStep == TypeOK /\ [Next]_vars => TypeOK'
BY PtyTypesStep, ConnTypesStep, OutTypesStep, StopTypesStep, MsgTypesStep DEF TypeOK

\* A daemon that has just started.
LEMMA TypeInit == Init => TypeOK
<1> SUFFICES ASSUME Init PROVE TypeOK
  OBVIOUS
<1>1. PtyTypes
  BY DEF Init, PtyTypes
<1>2. ConnTypes
  BY DEF Init, ConnTypes, ConnLocals
<1>3. OutTypes
  BY EmptySeq, BoundsAssumption DEF Init, OutTypes
<1>4. StopTypes
  BY DEF Init, StopTypes
<1>5. MsgTypes
  BY EmptySeq, BoundsAssumption DEF Init, MsgTypes
<1>6. QED
  BY <1>1, <1>2, <1>3, <1>4, <1>5 DEF TypeOK

\* The types hold for any number of channels, processes and connections; a
\* handler always holds the request and the process its continuation uses.
THEOREM DaemonTypeCorrect == Spec => []TypeOK
BY TypeInit, TypeStep, PTL DEF Spec

-----------------------------------------------------------------------------
(* The active slot.                                                        *)

\* Connections are accepted in order, and only the newest can be active.
SlotInv ==
  /\ \A c, d \in Conns : c < d /\ conn[d] # "unused" => conn[c] # "unused"
  /\ active # None => conn[active] # "unused" /\ \A d \in Conns : d > active => conn[d] = "unused"

\* Every step keeps the slot with the newest connection.
LEMMA SlotStep ==
  TypeOK /\ SlotInv /\ ActiveIsNewest /\ [Next]_vars => SlotInv' /\ ActiveIsNewest'
<1> SUFFICES ASSUME TypeOK, SlotInv, ActiveIsNewest, [Next]_vars PROVE SlotInv' /\ ActiveIsNewest'
  OBVIOUS
<1>0. ConnTypes
  BY DEF TypeOK
<1> DEFINE SameSlot(c) == conn'[c] = conn[c] \/ {conn[c], conn'[c]} \cap {"unused", "closed"} = {}
<1>1. ASSUME UNCHANGED active, \A c \in Conns : SameSlot(c)
      PROVE  SlotInv' /\ ActiveIsNewest'
  BY <1>0, <1>1, ConnsAssumption DEF ConnTypes, SlotInv, ActiveIsNewest
<1>2. ASSUME NEW c \in Conns, Accept(c) PROVE SlotInv' /\ ActiveIsNewest'
  <2>1. \A d \in Conns : (d < c => conn[d] # "unused") /\ (d > c => conn[d] = "unused")
    BY <1>0, <1>2, ConnsAssumption DEF Accept, SlotInv
  <2>2. active' = c /\ conn'[c] = "auth" /\ c # None
    BY <1>0, <1>2, NoneAssumption DEF Accept, ConnTypes
  <2>3. \A d \in Conns : d # c => (conn'[d] = "unused" <=> conn[d] = "unused")
    BY <1>0, <1>2 DEF Accept, ConnTypes
  <2>4. \A d \in Conns : d < c \/ d = c \/ d > c
    BY ConnsAssumption
  <2>5. \A d \in Conns : d > c => conn'[d] = "unused" /\ ~(c > d)
    BY <2>1, <2>3, ConnsAssumption
  <2>6. \A d \in Conns : d < c => conn'[d] # "unused"
    BY <2>1, <2>3, ConnsAssumption
  <2>7. SlotInv'
    BY <2>2, <2>4, <2>5, <2>6, ConnsAssumption DEF SlotInv
  <2>8. ActiveIsNewest'
    BY <2>2, <2>4, <2>5, <2>6, ConnsAssumption DEF ActiveIsNewest
  <2>9. QED
    BY <2>7, <2>8
<1>3. ASSUME NEW c \in Conns, Close(c), conn[c] # "unused" PROVE SlotInv' /\ ActiveIsNewest'
  <2>1. \A d \in Conns : (conn'[d] = "unused" <=> conn[d] = "unused") /\ (d # c => conn'[d] = conn[d]) /\ conn'[c] = "closed"
    BY <1>0, <1>3 DEF Close, ConnTypes
  <2>2. active' = IF active = c THEN None ELSE active
    BY <1>3 DEF Close, ClearActive
  <2>3. SlotInv'
    BY <1>0, <2>1, <2>2 DEF SlotInv, ConnTypes
  <2>4. ActiveIsNewest'
    <3> SUFFICES ASSUME NEW n \in Conns, conn'[n] # "unused", \A d \in Conns : d > n => conn'[d] = "unused"
                 PROVE  active' = IF conn'[n] = "closed" THEN None ELSE n
      BY DEF ActiveIsNewest
    <3>1. active = IF conn[n] = "closed" THEN None ELSE n
      BY <2>1 DEF ActiveIsNewest
    <3>2. CASE n = c
      BY <2>1, <2>2, <3>1, <3>2
    <3>3. CASE n # c
      BY <2>1, <2>2, <3>1, <3>3
    <3>4. QED
      BY <3>2, <3>3
  <2>5. QED
    BY <2>3, <2>4
<1>4. ASSUME NEW c \in Conns, Authenticated(c) PROVE SlotInv' /\ ActiveIsNewest'
  <2>1. CASE open[c]
    <3>1. active' = active /\ \A d \in Conns : SameSlot(d)
      BY <1>0, <1>4, <2>1 DEF Authenticated, ConnTypes
    <3> HIDE DEF SameSlot
    <3>2. QED
      BY <1>1, <3>1
  <2>2. CASE ~open[c]
    BY <1>3, <1>4, <2>2 DEF Authenticated
  <2>3. QED
    BY <2>1, <2>2
<1>5. ASSUME NEW c \in Conns, AuthFails(c) \/ ReadEnds(c) PROVE SlotInv' /\ ActiveIsNewest'
  BY <1>3, <1>5 DEF AuthFails, ReadEnds
<1>6. ASSUME NEW c \in Conns, HubLeaves(c) PROVE SlotInv' /\ ActiveIsNewest'
  <2>1. active' = active /\ \A d \in Conns : SameSlot(d)
    BY <1>0, <1>6 DEF HubLeaves, ConnTypes
  <2> HIDE DEF SameSlot
  <2>2. QED
    BY <1>1, <2>1
<1>7. ASSUME NEW c \in Conns, NEW op \in Ops, NEW i \in Ids, Receive(c, op, i) PROVE SlotInv' /\ ActiveIsNewest'
  <2>1. active' = active /\ \A d \in Conns : SameSlot(d)
    BY <1>0, <1>7 DEF Receive, ConnTypes
  <2> HIDE DEF SameSlot
  <2>2. QED
    BY <1>1, <2>1
<1>8. ASSUME NEW c \in Conns, NEW p \in Procs, SpawnProcess(c, p) PROVE SlotInv' /\ ActiveIsNewest'
  <2>1. active' = active /\ \A d \in Conns : SameSlot(d)
    BY <1>0, <1>8 DEF SpawnProcess, Handling, ConnTypes
  <2> HIDE DEF SameSlot
  <2>2. QED
    BY <1>1, <2>1
<1>9. ASSUME NEW c \in Conns, AskReader(c) PROVE SlotInv' /\ ActiveIsNewest'
  <2>1. active' = active /\ \A d \in Conns : SameSlot(d)
    BY <1>0, <1>9 DEF AskReader, Handling, ConnTypes
  <2> HIDE DEF SameSlot
  <2>2. QED
    BY <1>1, <2>1
<1>10. ASSUME NEW c \in Conns, Handled(c), conn[c] \in {"busy", "spawned", "snapshot"}
       PROVE  SlotInv' /\ ActiveIsNewest'
  <2>1. active' = active /\ \A d \in Conns : SameSlot(d)
    BY <1>0, <1>10 DEF Handled, ConnTypes
  <2> HIDE DEF SameSlot
  <2>2. QED
    BY <1>1, <2>1
<1>11. ASSUME NEW c \in Conns, ConnStep(c) PROVE SlotInv' /\ ActiveIsNewest'
  BY <1>2, <1>4, <1>5, <1>6, <1>7, <1>8, <1>9, <1>10, <1>11 DEF ConnStep, SpawnErr, StartReader, Destroy,
     DestroyFails, AttachNotFound, AttachOk, AttachDropped, Handling
<1>12. ASSUME UNCHANGED connVars PROVE SlotInv' /\ ActiveIsNewest'
  <2>1. active' = active /\ \A d \in Conns : SameSlot(d)
    BY <1>0, <1>12 DEF connVars, ConnTypes
  <2> HIDE DEF SameSlot
  <2>2. QED
    BY <1>1, <2>1
<1>13. ASSUME NEW p \in Procs, ProcStep(p) PROVE UNCHANGED connVars
  BY <1>13 DEF ProcStep, ProcessExits, ReadOutput, QueueOutput, ReaderEnds, ReaderWaits, ReaderWaited, ReaderReaps
<1>14. ASSUME StopStep \/ UNCHANGED vars PROVE UNCHANGED connVars
  BY <1>14 DEF StopStep, StopRequested, Sweep, SweepConfirmed, Stop, ForcedStop, Exit, vars
<1>15. ASSUME NEW i \in Ids, Flush(i) PROVE UNCHANGED connVars
  BY <1>15 DEF Flush
<1>16. QED
  BY <1>11, <1>12, <1>13, <1>14, <1>15 DEF Next

\* However many hubs connect, and whatever their displaced handlers still do, the
\* active slot belongs to the newest connection as long as its handler runs.
THEOREM NewestStaysActive == Spec => []ActiveIsNewest
<1>1. Init => TypeOK /\ SlotInv /\ ActiveIsNewest
  BY TypeInit DEF Init, SlotInv, ActiveIsNewest
<1>2. TypeOK /\ SlotInv /\ ActiveIsNewest /\ [Next]_vars => TypeOK' /\ SlotInv' /\ ActiveIsNewest'
  BY TypeStep, SlotStep
<1>3. QED
  BY <1>1, <1>2, PTL DEF Spec

-----------------------------------------------------------------------------
(* The exit status.                                                        *)

\* What the sweep has established at each stage of the shutdown: from the moment it holds
\* the lock only processes it could not signal are registered, and once its waits are over
\* a process it found is gone or on the list of unresolved ones.
ExitInv ==
  /\ daemon \in {"sweeping", "swept"} => \A i \in Ids : mgr[i] \in unsure \cup {None}
  /\ daemon = "swept" => \A p \in swept : p \in unsure \/ proc[p] \in Gone
  /\ status = 0 => /\ daemon = "stopped"
                   /\ \A p \in swept : proc[p] \in Gone
                   /\ \A i \in Ids : mgr[i] = None

\* Every step keeps what the sweep has established.
LEMMA ExitStep == TypeOK /\ ExitInv /\ [Next]_vars => ExitInv'
<1> SUFFICES ASSUME TypeOK, ExitInv, [Next]_vars PROVE ExitInv'
  OBVIOUS
<1>0. PtyTypes /\ ConnTypes /\ StopTypes
  BY DEF TypeOK
<1>1. ASSUME UNCHANGED <<mgr, proc, stopVars>> PROVE ExitInv'
  BY <1>1 DEF stopVars, ExitInv
<1>2. ASSUME UNCHANGED stopVars,
             \A i \in Ids : mgr'[i] \in {mgr[i], None},
             \A p \in Procs : proc[p] \in Gone => proc'[p] \in Gone
      PROVE  ExitInv'
  <2>1. \A p \in swept : p \in Procs
    BY <1>0 DEF StopTypes
  <2>2. QED
    BY <1>2, <2>1 DEF stopVars, ExitInv
<1>3. ASSUME NEW c \in Conns, NEW p \in Procs, SpawnProcess(c, p) PROVE ExitInv'
  BY <1>3 DEF SpawnProcess, CanSpawn, stopVars, ExitInv
<1>4. ASSUME NEW c \in Conns, Destroy(c) PROVE ExitInv'
  <2>1. UNCHANGED stopVars
    BY <1>4 DEF Destroy
  <2>2. \A i \in Ids : mgr'[i] \in {mgr[i], None}
    BY <1>0, <1>4 DEF Destroy, PtyTypes
  <2>3. \A p \in Procs : proc[p] \in Gone => proc'[p] \in Gone
    BY <1>0, <1>4 DEF Destroy, Signal, PtyTypes, Gone
  <2>4. QED
    BY <1>2, <2>1, <2>2, <2>3
<1>5. ASSUME NEW p \in Procs, ProcessExits(p) \/ ReaderWaited(p) PROVE ExitInv'
  <2>1. UNCHANGED <<mgr, stopVars>>
    BY <1>5 DEF ProcessExits, ReaderWaited
  <2>2. \A q \in Procs : proc[q] \in Gone => proc'[q] \in Gone
    BY <1>0, <1>5 DEF ProcessExits, ReaderWaited, PtyTypes, Gone
  <2>3. QED
    BY <1>2, <2>1, <2>2
<1>6. ASSUME NEW p \in Procs, ReaderReaps(p) PROVE ExitInv'
  <2>1. UNCHANGED <<proc, stopVars>>
    BY <1>6 DEF ReaderReaps
  <2>2. \A i \in Ids : mgr'[i] \in {mgr[i], None}
    BY <1>0, <1>6 DEF ReaderReaps, PtyTypes
  <2>3. QED
    BY <1>2, <2>1, <2>2
<1>7. ASSUME StopRequested PROVE ExitInv'
  BY <1>7 DEF StopRequested, ptyVars, ExitInv
<1>8. ASSUME Sweep PROVE ExitInv'
  <2>1. PICK failed : /\ unsure' = failed
                      /\ mgr' = [i \in Ids |-> IF mgr[i] \in failed THEN mgr[i] ELSE None]
    BY <1>8 DEF Sweep
  <2>2. daemon = "stopping" /\ daemon' = "sweeping" /\ status' = status
    BY <1>8 DEF Sweep
  <2>3. QED
    BY <2>1, <2>2 DEF ExitInv
<1>9. ASSUME SweepConfirmed PROVE ExitInv'
  BY <1>9 DEF SweepConfirmed, ExitInv
<1>10. ASSUME Stop PROVE ExitInv'
  BY <1>10, NoneAssumption DEF Stop, Exit, ptyVars, ExitInv
<1>11. ASSUME ForcedStop PROVE ExitInv'
  BY <1>11 DEF ForcedStop, Exit, ptyVars, ExitInv
<1>12. ASSUME NEW c \in Conns, ConnStep(c), ~Destroy(c), ~\E p \in Procs : SpawnProcess(c, p)
       PROVE  UNCHANGED <<mgr, proc, stopVars>>
  BY <1>12 DEF ConnStep, Accept, Authenticated, AuthFails, HubLeaves, ReadEnds, Receive, SpawnErr,
     StartReader, DestroyFails, AskReader, AttachNotFound, AttachOk, AttachDropped, ptyVars
<1>13. ASSUME NEW p \in Procs, ProcStep(p), ~ProcessExits(p), ~ReaderWaited(p), ~ReaderReaps(p)
       PROVE  UNCHANGED <<mgr, proc, stopVars>>
  BY <1>13 DEF ProcStep, ReadOutput, QueueOutput, ReaderEnds, ReaderWaits, ptyVars
<1>14. ASSUME NEW i \in Ids, Flush(i) PROVE UNCHANGED <<mgr, proc, stopVars>>
  BY <1>14 DEF Flush, ptyVars
<1>15. ASSUME UNCHANGED vars PROVE UNCHANGED <<mgr, proc, stopVars>>
  BY <1>15 DEF vars, ptyVars
<1>16. ASSUME NEW c \in Conns, ConnStep(c) PROVE ExitInv'
  BY <1>1, <1>3, <1>4, <1>12, <1>16
<1>17. ASSUME NEW p \in Procs, ProcStep(p) PROVE ExitInv'
  BY <1>1, <1>5, <1>6, <1>13, <1>17
<1>18. ASSUME StopStep PROVE ExitInv'
  BY <1>7, <1>8, <1>9, <1>10, <1>11, <1>18 DEF StopStep
<1>19. QED
  BY <1>1, <1>14, <1>15, <1>16, <1>17, <1>18 DEF Next

\* Exit status 0 is earned: every terminal the sweep found is gone and none was registered
\* behind its back, whatever SPAWN, DESTROY and reader tasks ran in between.
THEOREM CleanExitEarned == Spec => []CleanExit
<1>1. Init => TypeOK /\ ExitInv
  BY TypeInit, NoneAssumption DEF Init, ExitInv
<1>2. TypeOK /\ ExitInv /\ [Next]_vars => TypeOK' /\ ExitInv'
  BY TypeStep, ExitStep
<1>3. ExitInv => CleanExit
  BY DEF ExitInv, CleanExit
<1>4. QED
  BY <1>1, <1>2, <1>3, PTL DEF Spec

-----------------------------------------------------------------------------
(* The order of output.  A frame is a sequence of chunks; chunks of one    *)
(* process are numbered.                                                   *)

\* The chunks of a frame are in order.
Sorted(f) == \A x, y \in 1 .. Len(f) : x < y => Before(f[x], f[y])

\* Whatever frame f holds was written before what frame g holds.
Precede(f, g) == \A x \in 1 .. Len(f), y \in 1 .. Len(g) : Before(f[x], g[y])

\* A sequence of frames is in order.
InOrder(s) ==
  \A k \in 1 .. Len(s) : Sorted(s[k]) /\ \A l \in 1 .. Len(s) : k < l => Precede(s[k], s[l])

\* All frames of s come before frame f, and before all frames of t.
AllPrecede(s, f) == \A k \in 1 .. Len(s) : Precede(s[k], f)
Earlier(s, t) == \A l \in 1 .. Len(t) : AllPrecede(s, t[l])

\* A frame, and every frame of a sequence, holds only chunks that were read.
IsRead(f) == \A x \in 1 .. Len(f) : f[x][2] <= count[f[x][1]]
AllRead(s) == \A k \in 1 .. Len(s) : IsRead(s[k])

\* A process that was not started has no reader and no output; a handler that has started
\* one will start its reader task, which nobody else does; a registered process, and one
\* that is read, was started under the id it is registered or read for.
BornFirst ==
  /\ \A p \in Procs : proc[p] = "unborn" => rdr[p] = "none" /\ count[p] = 0
  /\ \A c \in Conns : conn[c] = "spawned" =>
       proc[arg[c]] # "unborn" /\ rdr[arg[c]] = "none" /\ idOf[arg[c]] = req[c].id
  /\ \A c, d \in Conns : c # d /\ conn[c] = "spawned" /\ conn[d] = "spawned" => arg[c] # arg[d]
  /\ \A i \in Ids : mgr[i] # None => proc[mgr[i]] # "unborn" /\ idOf[mgr[i]] = i
  /\ \A r \in Procs : rdr[r] = "none" => reads[r] = None /\ hand[r] = 0
  /\ \A r \in Procs : reads[r] # None => proc[reads[r]] # "unborn" /\ idOf[reads[r]] = idOf[r]

\* A batch holds the output of the processes of its channel.
OwnBatch == \A i \in Ids : \A x \in 1 .. Len(batch[i]) : idOf[batch[i][x][1]] = i

\* Only what was read is on its way.
ReadFirst ==
  /\ \A c \in Conns : AllRead(sent[c])
  /\ AllRead(pending)
  /\ \A i \in Ids : IsRead(batch[i])

\* The stations output passes, each in order: batches, frames kept, connections.
StationsInOrder ==
  /\ \A c \in Conns : InOrder(sent[c])
  /\ InOrder(pending)
  /\ \A i \in Ids : Sorted(batch[i])

\* What is further on was written before what is still behind.
StationsAgree ==
  /\ \A c, d \in Conns : c < d => Earlier(sent[c], sent[d])
  /\ \A c \in Conns : Earlier(sent[c], pending)
  /\ \A c \in Conns, i \in Ids : AllPrecede(sent[c], batch[i])
  /\ \A i \in Ids : AllPrecede(pending, batch[i])

\* A connection that was never accepted was sent nothing.
UnusedIsEmpty == \A c \in Conns : conn[c] = "unused" => sent[c] = << >>

\* What the readers have in hand was read, and no two of them have the same chunk.
HandsFresh ==
  \A r \in Procs : hand[r] # 0 =>
    /\ hand[r] <= count[reads[r]]
    /\ \A s \in Procs \ {r} : reads[s] = reads[r] => hand[s] # hand[r]

\* A frame that may still come after all there is on its way.
Behind(g) ==
  /\ \A c \in Conns : AllPrecede(sent[c], g)
  /\ AllPrecede(pending, g)
  /\ \A i \in Ids : Precede(batch[i], g)

\* What a reader has in hand may still be queued.
HandsAgree == \A r \in Procs : hand[r] # 0 => Behind(<<InHand(r)>>)

Rest ==
  /\ OwnBatch /\ ReadFirst /\ StationsInOrder /\ StationsAgree /\ UnusedIsEmpty
  /\ HandsFresh /\ HandsAgree

OutInv == BornFirst /\ Rest

\* Frames that follow each other stay in order when they are joined.
LEMMA ConcatInOrder ==
  ASSUME NEW F, NEW s \in Seq(F), NEW t \in Seq(F), InOrder(s), InOrder(t), Earlier(s, t)
  PROVE  InOrder(s \o t)
<1>1. /\ Len(s) \in Nat /\ Len(t) \in Nat /\ Len(s \o t) = Len(s) + Len(t)
      /\ \A k \in 1 .. Len(s) : (s \o t)[k] = s[k]
      /\ \A k \in Len(s) + 1 .. Len(s) + Len(t) : (s \o t)[k] = t[k - Len(s)]
  BY ConcatProperties, LenProperties
<1> DEFINE u == s \o t
<1> HIDE DEF u
<1>2. \A k \in 1 .. Len(u) : Sorted(u[k])
  BY <1>1 DEF InOrder, u
<1>3. ASSUME NEW k \in 1 .. Len(u), NEW l \in 1 .. Len(u), k < l PROVE Precede(u[k], u[l])
  <2>1. CASE l <= Len(s)
    BY <1>1, <1>3, <2>1 DEF InOrder, u
  <2>2. CASE k <= Len(s) /\ l > Len(s)
    <3>1. u[k] = s[k] /\ u[l] = t[l - Len(s)] /\ k \in 1 .. Len(s) /\ l - Len(s) \in 1 .. Len(t)
      BY <1>1, <1>3, <2>2 DEF u
    <3>2. QED
      BY <3>1 DEF Earlier, AllPrecede
  <2>3. CASE k > Len(s)
    <3>1. /\ u[k] = t[k - Len(s)] /\ u[l] = t[l - Len(s)] /\ k - Len(s) < l - Len(s)
          /\ k - Len(s) \in 1 .. Len(t) /\ l - Len(s) \in 1 .. Len(t)
      BY <1>1, <1>3, <2>3 DEF u
    <3>2. QED
      BY <3>1 DEF InOrder
  <2>4. QED
    BY <1>1, <1>3, <2>1, <2>2, <2>3
<1>4. QED
  BY <1>2, <1>3 DEF InOrder, u

\* The frames of a joined sequence are those of its parts.
LEMMA ConcatFrames ==
  ASSUME NEW F, NEW s \in Seq(F), NEW t \in Seq(F)
  PROVE  /\ \A f : AllPrecede(s, f) /\ AllPrecede(t, f) => AllPrecede(s \o t, f)
         /\ \A r : Earlier(r, s) /\ Earlier(r, t) => Earlier(r, s \o t)
         /\ \A r : Earlier(s, r) /\ Earlier(t, r) => Earlier(s \o t, r)
         /\ AllRead(s) /\ AllRead(t) => AllRead(s \o t)
<1>1. \A k \in 1 .. Len(s \o t) : \/ \E l \in 1 .. Len(s) : (s \o t)[k] = s[l]
                                 \/ \E l \in 1 .. Len(t) : (s \o t)[k] = t[l]
  <2>1. /\ Len(s) \in Nat /\ Len(t) \in Nat /\ Len(s \o t) = Len(s) + Len(t)
        /\ \A k \in 1 .. Len(s) : (s \o t)[k] = s[k]
        /\ \A k \in Len(s) + 1 .. Len(s) + Len(t) : (s \o t)[k] = t[k - Len(s)]
    BY ConcatProperties, LenProperties
  <2>2. TAKE k \in 1 .. Len(s \o t)
  <2>3. CASE k <= Len(s)
    BY <2>1, <2>3
  <2>4. CASE k > Len(s)
    <3>1. (s \o t)[k] = t[k - Len(s)] /\ k - Len(s) \in 1 .. Len(t)
      BY <2>1, <2>4
    <3>2. QED
      BY <3>1
  <2>5. QED
    BY <2>1, <2>3, <2>4
<1>2. QED
  BY <1>1 DEF AllPrecede, Earlier, AllRead

\* One more frame at the end.
LEMMA AppendFrame ==
  ASSUME NEW F, NEW s \in Seq(F), NEW f \in F, InOrder(s), Sorted(f), AllPrecede(s, f)
  PROVE  /\ InOrder(Append(s, f))
         /\ \A g : AllPrecede(s, g) /\ Precede(f, g) => AllPrecede(Append(s, f), g)
         /\ \A r : Earlier(r, s) /\ AllPrecede(r, f) => Earlier(r, Append(s, f))
         /\ AllRead(s) /\ IsRead(f) => AllRead(Append(s, f))
<1>1. /\ Len(s) \in Nat /\ Len(Append(s, f)) = Len(s) + 1 /\ Append(s, f)[Len(s) + 1] = f
      /\ \A k \in 1 .. Len(s) : Append(s, f)[k] = s[k]
  BY AppendProperties, LenProperties
<1>2. \A k \in 1 .. Len(Append(s, f)) : k \in 1 .. Len(s) \/ k = Len(s) + 1
  BY <1>1
<1> DEFINE u == Append(s, f)
<1>3. InOrder(u)
  <2>1. \A k \in 1 .. Len(u) : Sorted(u[k])
    BY <1>1, <1>2 DEF InOrder
  <2>2. ASSUME NEW k \in 1 .. Len(u), NEW l \in 1 .. Len(u), k < l PROVE Precede(u[k], u[l])
    <3>1. k \in 1 .. Len(s) /\ u[k] = s[k]
      BY <1>1, <2>2
    <3>2. CASE l \in 1 .. Len(s)
      BY <1>1, <2>2, <3>1, <3>2 DEF InOrder
    <3>3. CASE l = Len(s) + 1
      BY <1>1, <3>1, <3>3 DEF AllPrecede
    <3>4. QED
      BY <1>2, <3>2, <3>3
  <2> HIDE DEF u
  <2>3. QED
    BY <2>1, <2>2 DEF InOrder
<1>4. QED
  BY <1>1, <1>2, <1>3 DEF AllPrecede, Earlier, AllRead

\* Dropping the oldest frame.
LEMMA TailFrames ==
  ASSUME NEW F, NEW s \in Seq(F), s # << >>
  PROVE  /\ InOrder(s) => InOrder(Tail(s))
         /\ \A g : AllPrecede(s, g) => AllPrecede(Tail(s), g)
         /\ \A r : Earlier(r, s) => Earlier(r, Tail(s))
         /\ AllRead(s) => AllRead(Tail(s))
<1>1. Len(s) \in Nat /\ Len(s) > 0
  BY EmptySeq, LenProperties
<1>2. Len(Tail(s)) = Len(s) - 1 /\ \A k \in 1 .. Len(Tail(s)) : Tail(s)[k] = s[k + 1]
  BY HeadTailProperties
<1>3. \A k \in 1 .. Len(Tail(s)) : k + 1 \in 1 .. Len(s)
  BY <1>1, <1>2
<1>4. \A k, l \in 1 .. Len(Tail(s)) : k < l => k + 1 < l + 1
  BY <1>1, <1>2
<1>5. InOrder(s) => InOrder(Tail(s))
  BY <1>2, <1>3, <1>4 DEF InOrder
<1>6. QED
  BY <1>2, <1>3, <1>5 DEF AllPrecede, Earlier, AllRead

\* Nothing is in order, read, and before and after everything.
LEMMA NoFrames ==
  /\ InOrder(<< >>) /\ Sorted(<< >>) /\ IsRead(<< >>) /\ AllRead(<< >>)
  /\ \A f : AllPrecede(<< >>, f) /\ Precede(f, << >>)
  /\ \A s : Earlier(s, << >>) /\ Earlier(<< >>, s) /\ AllPrecede(s, << >>)
<1>1. \A k \in 1 .. Len(<< >>) : FALSE
  BY EmptySeq
<1>2. QED
  BY <1>1 DEF InOrder, Sorted, IsRead, AllRead, AllPrecede, Precede, Earlier

\* A process is started before its reader task, and that before its first chunk.
LEMMA BornStep == TypeOK /\ BornFirst /\ [Next]_vars => BornFirst'
<1> SUFFICES ASSUME TypeOK, BornFirst, [Next]_vars PROVE BornFirst'
  OBVIOUS
<1>0. PtyTypes /\ ConnTypes /\ OutTypes
  BY DEF TypeOK
<1> DEFINE Table == \A i \in Ids : mgr'[i] \in {mgr[i], None}
           Born == \A p \in Procs : proc'[p] = "unborn" => proc[p] = "unborn"
           Tasks == \A r \in Procs : (rdr'[r] = "none" <=> rdr[r] = "none") /\ hand'[r] \in {hand[r], 0}
           Spawns == \A c \in Conns : conn'[c] = "spawned" =>
                       conn[c] = "spawned" /\ arg'[c] = arg[c] /\ req'[c] = req[c]
<1>1. ASSUME UNCHANGED <<count, reads, idOf>>, Table, Born, Tasks, Spawns PROVE BornFirst'
  <2>1. /\ \A c \in Conns : conn[c] = "spawned" => arg[c] \in Procs
        /\ \A i \in Ids : mgr[i] # None => mgr[i] \in Procs
        /\ \A r \in Procs : reads[r] # None => reads[r] \in Procs
    BY <1>0 DEF PtyTypes, ConnTypes, ConnLocals
  <2>2. \A c \in Conns : conn'[c] = "spawned" => /\ proc'[arg'[c]] # "unborn" /\ rdr'[arg'[c]] = "none"
                                                 /\ idOf'[arg'[c]] = req'[c].id
    BY <1>1, <2>1 DEF BornFirst
  <2>3. \A c, d \in Conns : c # d /\ conn'[c] = "spawned" /\ conn'[d] = "spawned" => arg'[c] # arg'[d]
    BY <1>1 DEF BornFirst
  <2>4. \A i \in Ids : mgr'[i] # None => proc'[mgr'[i]] # "unborn" /\ idOf'[mgr'[i]] = i
    BY <1>1, <2>1 DEF BornFirst
  <2>5. /\ \A p \in Procs : proc'[p] = "unborn" => rdr'[p] = "none" /\ count'[p] = 0
        /\ \A r \in Procs : rdr'[r] = "none" => reads'[r] = None /\ hand'[r] = 0
        /\ \A r \in Procs : reads'[r] # None => proc'[reads'[r]] # "unborn" /\ idOf'[reads'[r]] = idOf'[r]
    BY <1>1, <2>1 DEF BornFirst
  <2>6. QED
    BY <2>2, <2>3, <2>4, <2>5 DEF BornFirst
<1>2. ASSUME NEW c \in Conns, NEW p \in Procs, SpawnProcess(c, p) PROVE BornFirst'
  <2> DEFINE i == req[c].id
  <2>1. /\ proc[p] = "unborn" /\ conn[c] = "busy" /\ i \in Ids
        /\ proc' = [proc EXCEPT ![p] = "running"] /\ mgr' = [mgr EXCEPT ![i] = p]
        /\ idOf' = [idOf EXCEPT ![p] = i] /\ conn' = [conn EXCEPT ![c] = "spawned"]
        /\ arg' = [arg EXCEPT ![c] = p] /\ UNCHANGED <<count, hand, rdr, reads, req>>
    BY <1>0, <1>2 DEF SpawnProcess, Handling, outVars, ConnTypes, ConnLocals
  <2> HIDE DEF i
  <2>2. /\ proc'[p] = "running" /\ idOf'[p] = i /\ rdr[p] = "none" /\ reads[p] = None /\ hand[p] = 0 /\ count[p] = 0
        /\ \A q \in Procs : q # p => proc'[q] = proc[q] /\ idOf'[q] = idOf[q]
    BY <1>0, <2>1 DEF PtyTypes, BornFirst
  <2>3. /\ conn'[c] = "spawned" /\ arg'[c] = p
        /\ \A d \in Conns : d # c => conn'[d] = conn[d] /\ arg'[d] = arg[d]
        /\ \A d \in Conns : conn[d] = "spawned" => arg[d] \in Procs /\ arg[d] # p /\ d # c
    BY <1>0, <2>1 DEF ConnTypes, ConnLocals, BornFirst
  <2>4. /\ mgr'[i] = p /\ \A j \in Ids : j # i => mgr'[j] = mgr[j]
        /\ \A j \in Ids : mgr[j] # None => mgr[j] \in Procs /\ mgr[j] # p
    BY <1>0, <2>1 DEF PtyTypes, BornFirst
  <2>5. \A r \in Procs : reads[r] # None => reads[r] \in Procs /\ reads[r] # p /\ r # p
    BY <1>0, <2>1, <2>2 DEF PtyTypes, BornFirst
  <2>6. \A d \in Conns : conn'[d] = "spawned" => /\ proc'[arg'[d]] # "unborn" /\ rdr'[arg'[d]] = "none"
                                                 /\ idOf'[arg'[d]] = req'[d].id
    BY <2>1, <2>2, <2>3 DEF BornFirst, i
  <2>7. \A d, e \in Conns : d # e /\ conn'[d] = "spawned" /\ conn'[e] = "spawned" => arg'[d] # arg'[e]
    BY <2>3 DEF BornFirst
  <2>8. \A j \in Ids : mgr'[j] # None => proc'[mgr'[j]] # "unborn" /\ idOf'[mgr'[j]] = j
    BY <2>2, <2>4 DEF BornFirst
  <2>9. /\ \A q \in Procs : proc'[q] = "unborn" => rdr'[q] = "none" /\ count'[q] = 0
        /\ \A r \in Procs : rdr'[r] = "none" => reads'[r] = None /\ hand'[r] = 0
        /\ \A r \in Procs : reads'[r] # None => proc'[reads'[r]] # "unborn" /\ idOf'[reads'[r]] = idOf'[r]
    BY <2>1, <2>2, <2>5 DEF BornFirst
  <2>10. QED
    BY <2>6, <2>7, <2>8, <2>9 DEF BornFirst
<1>3. ASSUME NEW c \in Conns, StartReader(c) PROVE BornFirst'
  <2> DEFINE p == arg[c]
             i == req[c].id
  <2>1. p \in Procs /\ i \in Ids /\ proc[p] # "unborn" /\ rdr[p] = "none" /\ idOf[p] = i
    BY <1>0, <1>3 DEF StartReader, BornFirst, ConnTypes, ConnLocals
  <2>2. UNCHANGED <<proc, count, hand, idOf, mgr>>
    BY <1>3 DEF StartReader, outVars
  <2>3. \A d \in Conns : conn'[d] = "spawned" => /\ conn[d] = "spawned" /\ d # c
                                                 /\ arg'[d] = arg[d] /\ req'[d] = req[d]
    BY <1>0, <1>3 DEF StartReader, Handled, ConnTypes
  <2>4. CASE mgr[i] = None
    BY <1>1, <1>3, <2>2, <2>3, <2>4 DEF StartReader
  <2>5. CASE mgr[i] # None
    <3>1. rdr' = [rdr EXCEPT ![p] = "reading"] /\ reads' = [reads EXCEPT ![p] = mgr[i]]
      BY <1>3, <2>5 DEF StartReader
    <3> HIDE DEF p, i
    <3>2. /\ rdr'[p] = "reading" /\ reads'[p] = mgr[i] /\ mgr[i] \in Procs
          /\ \A q \in Procs : q # p => rdr'[q] = rdr[q] /\ reads'[q] = reads[q]
      BY <1>0, <2>1, <2>5, <3>1 DEF PtyTypes
    <3>3. \A d \in Conns : conn'[d] = "spawned" => arg[d] # p /\ arg[d] \in Procs
      BY <1>0, <1>3, <2>3 DEF StartReader, BornFirst, ConnTypes, ConnLocals, p
    <3>4. \A d \in Conns : conn'[d] = "spawned" => /\ proc'[arg'[d]] # "unborn" /\ rdr'[arg'[d]] = "none"
                                                   /\ idOf'[arg'[d]] = req'[d].id
      BY <2>2, <2>3, <3>2, <3>3 DEF BornFirst
    <3>5. \A d, e \in Conns : d # e /\ conn'[d] = "spawned" /\ conn'[e] = "spawned" => arg'[d] # arg'[e]
      BY <2>3 DEF BornFirst
    <3>6. \A r \in Procs : reads'[r] # None => proc'[reads'[r]] # "unborn" /\ idOf'[reads'[r]] = idOf'[r]
      BY <2>1, <2>2, <2>5, <3>2 DEF BornFirst
    <3>7. /\ \A q \in Procs : proc'[q] = "unborn" => rdr'[q] = "none" /\ count'[q] = 0
          /\ \A r \in Procs : rdr'[r] = "none" => reads'[r] = None /\ hand'[r] = 0
      BY <2>1, <2>2, <3>2 DEF BornFirst
    <3>8. QED
      BY <2>2, <3>4, <3>5, <3>6, <3>7 DEF BornFirst
  <2>6. QED
    BY <2>4, <2>5
<1>4. ASSUME NEW r \in Procs, ReadOutput(r) PROVE BornFirst'
  <2>1. /\ UNCHANGED <<mgr, proc, rdr, reads, idOf, conn, arg, req>>
        /\ rdr[r] = "reading" /\ reads[r] \in Procs /\ reads[r] # None
        /\ \A q \in Procs : q # reads[r] => count'[q] = count[q]
        /\ \A q \in Procs : q # r => hand'[q] = hand[q]
    BY <1>0, <1>4 DEF ReadOutput, ptyVars, connVars, OutTypes, PtyTypes
  <2>2. proc[reads[r]] # "unborn"
    BY <2>1 DEF BornFirst
  <2>3. QED
    BY <2>1, <2>2 DEF BornFirst
<1>5. ASSUME NEW c \in Conns, ConnStep(c), ~StartReader(c), ~\E p \in Procs : SpawnProcess(c, p) PROVE BornFirst'
  <2>1. UNCHANGED <<count, reads, idOf, rdr, hand>>
    BY <1>5 DEF ConnStep, Accept, Authenticated, AuthFails, HubLeaves, ReadEnds, Receive, SpawnErr, Destroy,
       DestroyFails, AskReader, AttachNotFound, AttachOk, AttachDropped, ptyVars, outVars
  <2>2. Table /\ Born
    <3>1. CASE Destroy(c)
      BY <1>0, <3>1 DEF Destroy, Signal, PtyTypes
    <3>2. CASE ~Destroy(c)
      BY <1>5, <3>2 DEF ConnStep, Accept, Authenticated, AuthFails, HubLeaves, ReadEnds, Receive, SpawnErr,
         DestroyFails, AskReader, AttachNotFound, AttachOk, AttachDropped, ptyVars
    <3>3. QED
      BY <3>1, <3>2
  <2>3. Spawns
    BY <1>0, <1>5 DEF ConnStep, Accept, Authenticated, AuthFails, HubLeaves, ReadEnds, Close, Receive, SpawnErr,
       Destroy, DestroyFails, AskReader, AttachNotFound, AttachOk, AttachDropped, Handled, ConnTypes
  <2>4. QED
    BY <1>1, <2>1, <2>2, <2>3
<1>6. ASSUME NEW p \in Procs, ProcStep(p), ~ReadOutput(p) PROVE BornFirst'
  <2>1. UNCHANGED <<count, reads, idOf, conn, arg, req>>
    BY <1>6 DEF ProcStep, ProcessExits, QueueOutput, ReaderEnds, ReaderWaits, ReaderWaited, ReaderReaps,
       ptyVars, connVars, outVars
  <2>2. Table
    BY <1>0, <1>6 DEF ProcStep, ProcessExits, QueueOutput, ReaderEnds, ReaderWaits, ReaderWaited, ReaderReaps,
       ptyVars, PtyTypes
  <2>3. Born
    BY <1>0, <1>6 DEF ProcStep, ProcessExits, QueueOutput, ReaderEnds, ReaderWaits, ReaderWaited, ReaderReaps,
       ptyVars, PtyTypes
  <2>4. Tasks
    <3>1. \A r \in Procs : hand'[r] \in {hand[r], 0}
      BY <1>0, <1>6 DEF ProcStep, ProcessExits, QueueOutput, ReaderEnds, ReaderWaits, ReaderWaited, ReaderReaps,
         outVars, OutTypes
    <3>2. \A r \in Procs : rdr'[r] = "none" <=> rdr[r] = "none"
      BY <1>0, <1>6 DEF ProcStep, ProcessExits, QueueOutput, ReaderEnds, ReaderWaits, ReaderWaited, ReaderReaps,
         ptyVars, PtyTypes
    <3>3. QED
      BY <3>1, <3>2
  <2>5. QED
    BY <1>1, <2>1, <2>2, <2>3, <2>4
<1>7. ASSUME Sweep PROVE BornFirst'
  <2>1. UNCHANGED <<rdr, reads, idOf, count, hand, conn, arg, req>>
    BY <1>7 DEF Sweep, connVars, outVars
  <2>2. Table
    BY <1>0, <1>7 DEF Sweep, PtyTypes
  <2>3. PICK S : proc' = [p \in Procs |-> IF p \in S THEN Signal(p) ELSE proc[p]]
    BY <1>7 DEF Sweep
  <2>4. Born
    BY <2>3 DEF Signal
  <2>5. QED
    BY <1>1, <2>1, <2>2, <2>4
<1>8. ASSUME StopRequested \/ SweepConfirmed \/ Stop \/ ForcedStop \/ UNCHANGED vars PROVE BornFirst'
  <2>1. UNCHANGED <<mgr, proc, rdr, reads, idOf, count, conn, arg, req>>
    BY <1>8 DEF StopRequested, SweepConfirmed, Stop, ForcedStop, Exit, vars, ptyVars, connVars, outVars
  <2>2. \A r \in Procs : hand'[r] \in {hand[r], 0}
    BY <1>8 DEF StopRequested, SweepConfirmed, Stop, ForcedStop, Exit, vars, outVars
  <2>3. QED
    BY <1>1, <2>1, <2>2
<1>9. ASSUME NEW i \in Ids, Flush(i) PROVE BornFirst'
  BY <1>1, <1>9 DEF Flush, ptyVars, connVars
<1>10. QED
  BY <1>2, <1>3, <1>4, <1>5, <1>6, <1>7, <1>8, <1>9 DEF Next, StopStep

\* Whatever was read stays so when a chunk more is read.
LEMMA StillRead ==
  ASSUME TypeOK, NEW r \in Procs, ReadOutput(r), NEW f \in Seq(Chunks), IsRead(f)
  PROVE  /\ \A x \in 1 .. Len(f) : f[x][2] <= count'[f[x][1]]
         /\ \A x \in 1 .. Len(f) : Before(f[x], InHand(r)')
<1>1. /\ reads[r] \in Procs /\ count \in [Procs -> Nat]
      /\ count' = [count EXCEPT ![reads[r]] = @ + 1]
      /\ reads' = reads /\ hand'[r] = count[reads[r]] + 1
  BY BoundsAssumption DEF TypeOK, PtyTypes, OutTypes, ReadOutput, ptyVars
<1>2. \A x \in 1 .. Len(f) : f[x] \in Chunks
  BY ElementOfSeq
<1>3. \A x \in 1 .. Len(f) : f[x][1] \in Procs /\ f[x][2] \in Nat
  BY <1>2, BoundsAssumption DEF Chunks
<1>4. \A x \in 1 .. Len(f) : f[x][2] <= count[f[x][1]]
  BY DEF IsRead
<1>5. count[reads[r]] \in Nat /\ hand'[r] = count[reads[r]] + 1
  BY <1>1
<1>6. ASSUME NEW x \in 1 .. Len(f), f[x][1] = reads'[r] PROVE f[x][2] # hand'[r] /\ f[x][2] < hand'[r]
  <2>1. f[x][2] <= count[reads[r]] /\ f[x][2] \in Nat
    BY <1>1, <1>3, <1>4, <1>6
  <2> DEFINE n == f[x][2]
  <2> HIDE DEF n
  <2>2. n < hand'[r] /\ n # hand'[r]
    BY <1>5, <2>1 DEF n
  <2>3. QED
    BY <2>2 DEF n
<1>7. \A x \in 1 .. Len(f) : f[x][2] <= count'[f[x][1]]
  BY <1>1, <1>3, <1>4
<1>8. QED
  BY <1>6, <1>7 DEF Before, InHand

\* A chunk is read: it comes after all there is of its process.
LEMMA ReadStep ==
  ASSUME TypeOK, OutInv, NEW r \in Procs, ReadOutput(r)
  PROVE  Rest'
<1> DEFINE F == Seq(Chunks)
<1>0. PtyTypes /\ OutTypes /\ MsgTypes
  BY DEF TypeOK
<1>1. /\ UNCHANGED <<idOf, conn, batch, pending, sent, reads>>
      /\ reads[r] \in Procs /\ count \in [Procs -> Nat] /\ hand \in [Procs -> Nat]
      /\ count' = [count EXCEPT ![reads[r]] = @ + 1]
      /\ hand' = [hand EXCEPT ![r] = count[reads[r]] + 1]
  BY <1>0, BoundsAssumption DEF ReadOutput, ptyVars, connVars, PtyTypes, OutTypes
<1>2. (\A c \in Conns : sent[c] \in Seq(F)) /\ pending \in Seq(F) /\ (\A i \in Ids : batch[i] \in F)
  BY <1>0 DEF OutTypes, MsgTypes
<1>3. \A s \in Seq(F) : \A k \in 1 .. Len(s) : s[k] \in F
  BY ElementOfSeq
<1>4. \A f \in F : IsRead(f) => \A x \in 1 .. Len(f) : f[x][2] <= count'[f[x][1]] /\ Before(f[x], InHand(r)')
  BY StillRead
<1> HIDE DEF F
<1>5. (\A c \in Conns : AllRead(sent[c])) /\ AllRead(pending) /\ (\A i \in Ids : IsRead(batch[i]))
  BY DEF OutInv, Rest, ReadFirst
<1>6. ReadFirst'
  <2>1. \A s \in Seq(F) : AllRead(s) => \A k \in 1 .. Len(s) : \A x \in 1 .. Len(s[k]) : s[k][x][2] <= count'[s[k][x][1]]
    BY <1>3, <1>4 DEF AllRead
  <2>2. AllRead(pending)'
    BY <1>1, <1>2, <1>5, <2>1 DEF AllRead, IsRead
  <2>3. ASSUME NEW c \in Conns PROVE AllRead(sent[c])'
    <3>1. \A k \in 1 .. Len(sent[c]) : \A x \in 1 .. Len(sent[c][k]) : sent[c][k][x][2] <= count'[sent[c][k][x][1]]
      BY <1>2, <1>5, <2>1
    <3>2. QED
      BY <1>1, <3>1 DEF AllRead, IsRead
  <2>4. ASSUME NEW i \in Ids PROVE IsRead(batch[i])'
    BY <1>1, <1>2, <1>4, <1>5 DEF IsRead
  <2>5. QED
    BY <2>2, <2>3, <2>4 DEF ReadFirst
<1>7. /\ hand'[r] = count[reads[r]] + 1 /\ count'[reads[r]] = count[reads[r]] + 1
      /\ \A s \in Procs : s # r => hand'[s] = hand[s]
      /\ \A q \in Procs : count[q] <= count'[q] /\ count[q] \in Nat /\ count'[q] \in Nat
      /\ \A s \in Procs : hand[s] \in Nat
  BY <1>1
<1>8. \A s \in Procs : hand[s] # 0 => reads[s] \in Procs
  BY <1>0 DEF OutInv, BornFirst, PtyTypes
<1>9. HandsFresh'
  <2>1. \A s \in Procs : hand[s] # 0 => hand[s] <= count[reads[s]]
    BY DEF OutInv, Rest, HandsFresh
  <2>2. \A s \in Procs : s # r /\ hand[s] # 0 => hand[s] <= count'[reads[s]]
    <3> SUFFICES ASSUME NEW s \in Procs, hand[s] # 0 PROVE hand[s] <= count'[reads[s]]
      OBVIOUS
    <3>1. hand[s] <= count[reads[s]] /\ count[reads[s]] <= count'[reads[s]] /\ reads[s] \in Procs
      BY <1>7, <1>8, <2>1
    <3>2. hand[s] \in Nat /\ count[reads[s]] \in Nat /\ count'[reads[s]] \in Nat
      BY <1>7, <3>1
    <3>3. QED
      BY <3>1, <3>2
  <2>3. \A s \in Procs : s # r /\ reads[s] = reads[r] => hand[s] # hand'[r]
    <3> SUFFICES ASSUME NEW s \in Procs, reads[s] = reads[r] PROVE hand[s] # hand'[r]
      OBVIOUS
    <3>1. hand[s] = 0 \/ hand[s] <= count[reads[r]]
      BY <2>1
    <3>2. hand[s] \in Nat /\ count[reads[r]] \in Nat /\ hand'[r] = count[reads[r]] + 1
      BY <1>1, <1>7
    <3>3. QED
      BY <3>1, <3>2
  <2>4. QED
    BY <1>1, <1>7, <2>2, <2>3 DEF OutInv, Rest, HandsFresh
<1>10. HandsAgree'
  <2>1. \A f \in F : IsRead(f) => Precede(f, <<InHand(r)'>>)
    BY <1>4 DEF Precede
  <2>2. \A s \in Seq(F) : AllRead(s) => AllPrecede(s, <<InHand(r)'>>)
    BY <1>3, <2>1 DEF AllRead, AllPrecede
  <2>3. Behind(<<InHand(r)>>)'
    BY <1>1, <1>2, <1>5, <2>1, <2>2 DEF Behind
  <2>4. ASSUME NEW s \in Procs, s # r, hand'[s] # 0 PROVE Behind(<<InHand(s)>>)'
    <3>1. InHand(s)' = InHand(s)
      BY <1>1, <1>7, <2>4 DEF InHand, Alone
    <3>2. Behind(<<InHand(s)>>)
      BY <1>7, <2>4 DEF OutInv, Rest, HandsAgree
    <3>3. QED
      BY <1>1, <3>1, <3>2 DEF Behind
  <2>5. QED
    BY <2>3, <2>4 DEF HandsAgree
<1>11. OwnBatch' /\ StationsInOrder' /\ StationsAgree' /\ UnusedIsEmpty'
  BY <1>1 DEF OutInv, Rest, OwnBatch, StationsInOrder, StationsAgree, UnusedIsEmpty
<1>12. QED
  BY <1>6, <1>9, <1>10, <1>11 DEF Rest

\* A chunk is queued: it comes last in the batch of its channel.
LEMMA QueueStep ==
  ASSUME TypeOK, OutInv, NEW r \in Procs, QueueOutput(r)
  PROVE  Rest'
<1> DEFINE F == Seq(Chunks)
           ch == InHand(r)
<1>0. PtyTypes /\ OutTypes /\ MsgTypes
  BY DEF TypeOK
<1>1. /\ UNCHANGED <<idOf, conn, count, pending, sent, reads>> /\ hand[r] # 0
      /\ hand' = [hand EXCEPT ![r] = 0]
      /\ batch' = [batch EXCEPT ![idOf[r]] = Append(@, ch)]
  BY DEF QueueOutput, ptyVars, connVars, msgVars
<1>2. (\A c \in Conns : sent[c] \in Seq(F)) /\ pending \in Seq(F) /\ (\A i \in Ids : batch[i] \in F)
  BY <1>0 DEF OutTypes, MsgTypes
<1>3. reads[r] \in Procs /\ idOf[reads[r]] = idOf[r] /\ hand[r] <= count[reads[r]] /\ hand[r] \in 1 .. MaxOutput
  BY <1>0, <1>1, BoundsAssumption DEF OutInv, Rest, BornFirst, HandsFresh, PtyTypes, OutTypes
<1>4. ch \in Chunks /\ ch[1] = reads[r] /\ ch[2] = hand[r]
  <2>1. Alone(r) \in BOOLEAN
    BY DEF Alone
  <2>2. QED
    BY <1>3, <2>1 DEF InHand, Chunks
<1>5. Behind(<<ch>>)
  BY <1>1 DEF OutInv, Rest, HandsAgree
<1>6. \A f : Precede(f, <<ch>>) => \A x \in 1 .. Len(f) : Before(f[x], ch)
  BY DEF Precede
<1> HIDE DEF F, ch
<1>7. ASSUME NEW i \in Ids
      PROVE  /\ Sorted(batch'[i])
             /\ \A x \in 1 .. Len(batch'[i]) :
                  batch'[i][x][2] <= count[batch'[i][x][1]] /\ idOf[batch'[i][x][1]] = i
             /\ \A f : Precede(f, batch[i]) /\ Precede(f, <<ch>>) => Precede(f, batch'[i])
             /\ \A g : Precede(batch[i], g) /\ Precede(<<ch>>, g) => Precede(batch'[i], g)
  <2>0. /\ batch[i] \in F /\ Sorted(batch[i]) /\ Precede(batch[i], <<ch>>)
        /\ \A x \in 1 .. Len(batch[i]) : batch[i][x][2] <= count[batch[i][x][1]] /\ idOf[batch[i][x][1]] = i
    BY <1>2, <1>5 DEF OutInv, Rest, ReadFirst, IsRead, StationsInOrder, OwnBatch, Behind
  <2>1. CASE i # idOf[r]
    <3>1. batch'[i] = batch[i]
      BY <1>0, <1>1, <2>1 DEF OutTypes
    <3>2. QED
      BY <2>0, <3>1
  <2>2. CASE i = idOf[r]
    <3> DEFINE b == batch[i]
    <3>1. batch'[i] = Append(b, ch)
      BY <1>0, <1>1, <2>2 DEF OutTypes
    <3>2. /\ Len(b) \in Nat /\ Len(Append(b, ch)) = Len(b) + 1
          /\ Append(b, ch)[Len(b) + 1] = ch /\ \A x \in 1 .. Len(b) : Append(b, ch)[x] = b[x]
      BY <1>4, <2>0, AppendProperties, LenProperties DEF F
    <3>3. \A x \in 1 .. Len(Append(b, ch)) : x \in 1 .. Len(b) \/ x = Len(b) + 1
      BY <3>2
    <3>4. \A x, y \in 1 .. Len(Append(b, ch)) : x < y => x \in 1 .. Len(b)
      BY <3>2
    <3>5. Sorted(Append(b, ch))
      BY <1>6, <2>0, <3>2, <3>3, <3>4 DEF Sorted
    <3>6. ch[2] <= count[ch[1]] /\ idOf[ch[1]] = i
      BY <1>3, <1>4, <2>2
    <3>7. \A x \in 1 .. Len(Append(b, ch)) : /\ Append(b, ch)[x][2] <= count[Append(b, ch)[x][1]]
                                            /\ idOf[Append(b, ch)[x][1]] = i
      BY <2>0, <3>2, <3>3, <3>6
    <3>8. \A f : Precede(f, b) /\ Precede(f, <<ch>>) => Precede(f, Append(b, ch))
      BY <1>6, <3>2, <3>3 DEF Precede
    <3>9. \A g : Precede(<<ch>>, g) => \A y \in 1 .. Len(g) : Before(ch, g[y])
      BY DEF Precede
    <3>10. \A g : Precede(b, g) /\ Precede(<<ch>>, g) => Precede(Append(b, ch), g)
      BY <3>2, <3>3, <3>9 DEF Precede
    <3>11. QED
      BY <3>1, <3>5, <3>7, <3>8, <3>10
  <2>3. QED
    BY <2>1, <2>2
<1>8. OwnBatch'
  BY <1>1, <1>7 DEF OwnBatch
<1>9. ReadFirst'
  <2>1. \A i \in Ids : IsRead(batch[i])'
    BY <1>1, <1>7 DEF IsRead
  <2>2. QED
    BY <1>1, <2>1 DEF OutInv, Rest, ReadFirst, AllRead, IsRead
<1>10. StationsInOrder'
  BY <1>1, <1>7 DEF OutInv, Rest, StationsInOrder
<1>11. StationsAgree'
  <2>1. \A s, i : i \in Ids /\ AllPrecede(s, batch[i]) /\ AllPrecede(s, <<ch>>) => AllPrecede(s, batch'[i])
    BY <1>7 DEF AllPrecede
  <2>2. QED
    BY <1>1, <1>5, <2>1 DEF OutInv, Rest, StationsAgree, Behind
<1>12. ASSUME NEW s \in Procs, hand'[s] # 0 PROVE s # r /\ hand[s] = hand'[s]
  BY <1>0, <1>1, <1>12 DEF OutTypes
<1>13. HandsFresh'
  <2> SUFFICES ASSUME NEW s \in Procs, hand'[s] # 0
               PROVE  /\ hand'[s] <= count[reads[s]]
                      /\ \A t \in Procs \ {s} : reads[t] = reads[s] => hand'[t] # hand'[s]
    BY <1>1 DEF HandsFresh
  <2>1. \A t \in Procs : hand'[t] = hand[t] \/ hand'[t] = 0
    BY <1>12
  <2>2. QED
    BY <1>12, <2>1 DEF OutInv, Rest, HandsFresh
<1>14. HandsAgree'
  <2> SUFFICES ASSUME NEW s \in Procs, hand'[s] # 0 PROVE Behind(<<InHand(s)>>)'
    BY DEF HandsAgree
  <2>1. InHand(s)' = InHand(s) /\ Behind(<<InHand(s)>>)
    BY <1>1, <1>12 DEF OutInv, Rest, HandsAgree, InHand, Alone
  <2>2. reads[r] = reads[s] => hand[r] # hand[s] /\ ~Alone(s)
    BY <1>1, <1>12 DEF OutInv, Rest, HandsFresh, Alone
  <2>3. Before(ch, InHand(s))
    BY <1>4, <2>2 DEF Before, InHand
  <2>4. Precede(<<ch>>, <<InHand(s)>>)
    BY <2>3 DEF Precede
  <2>5. \A i \in Ids : Precede(batch'[i], <<InHand(s)>>)
    BY <1>7, <2>1, <2>4 DEF Behind
  <2>6. QED
    BY <1>1, <2>1, <2>5 DEF Behind
<1>15. UnusedIsEmpty'
  BY <1>1 DEF OutInv, Rest, UnusedIsEmpty
<1>16. QED
  BY <1>8, <1>9, <1>10, <1>11, <1>13, <1>14, <1>15 DEF Rest

\* A reader task starts: a chunk another one has in hand is no worse placed.
LEMMA StartKeepsOutput ==
  ASSUME TypeOK, OutInv, NEW c \in Conns, StartReader(c)
  PROVE  HandsFresh' /\ HandsAgree'
<1> DEFINE p == arg[c]
<1>0. PtyTypes /\ ConnTypes /\ OutTypes
  BY DEF TypeOK
<1>1. p \in Procs /\ rdr[p] = "none" /\ hand[p] = 0 /\ reads[p] = None
  BY <1>0 DEF StartReader, OutInv, BornFirst, ConnTypes, ConnLocals
<1>2. /\ UNCHANGED <<count, hand, batch, pending, sent>>
      /\ \A s \in Procs : s # p => reads'[s] = reads[s]
  BY <1>0 DEF StartReader, outVars, msgVars, PtyTypes
<1> HIDE DEF p
<1>3. ASSUME NEW r \in Procs, hand[r] # 0
      PROVE  /\ r # p /\ reads'[r] = reads[r] /\ reads[r] \in Procs /\ reads[r] # None
             /\ Alone(r)' => Alone(r)
  <2>1. r # p /\ reads'[r] = reads[r] /\ reads[r] \in Procs /\ reads[r] # None
    BY <1>0, <1>1, <1>2, <1>3 DEF OutInv, BornFirst, PtyTypes
  <2>2. QED
    BY <1>1, <1>2, <2>1 DEF Alone
<1>4. HandsFresh'
  <2> SUFFICES ASSUME NEW r \in Procs, hand[r] # 0
               PROVE  /\ hand[r] <= count[reads'[r]]
                      /\ \A s \in Procs \ {r} : reads'[s] = reads'[r] => hand[s] # hand[r]
    BY <1>2 DEF HandsFresh
  <2>1. \A s \in Procs \ {r} : reads'[s] = reads'[r] => hand[s] # hand[r]
    <3> TAKE s \in Procs \ {r}
    <3>1. CASE s = p
      BY <1>1, <3>1
    <3>2. CASE s # p
      BY <1>2, <1>3, <3>2 DEF OutInv, Rest, HandsFresh
    <3>3. QED
      BY <3>1, <3>2
  <2>2. QED
    BY <1>3, <2>1 DEF OutInv, Rest, HandsFresh
<1>5. HandsAgree'
  <2> SUFFICES ASSUME NEW r \in Procs, hand[r] # 0 PROVE Behind(<<InHand(r)>>)'
    BY <1>2 DEF HandsAgree
  <2>1. \A x : Before(x, InHand(r)) => Before(x, InHand(r)')
    BY <1>2, <1>3 DEF Before, InHand
  <2>2. \A f : Precede(f, <<InHand(r)>>) => Precede(f, <<InHand(r)'>>)
    BY <2>1 DEF Precede
  <2>3. \A s : AllPrecede(s, <<InHand(r)>>) => AllPrecede(s, <<InHand(r)'>>)
    BY <2>2 DEF AllPrecede
  <2>4. Behind(<<InHand(r)>>)
    BY DEF OutInv, Rest, HandsAgree
  <2>5. QED
    BY <1>2, <2>2, <2>3, <2>4 DEF Behind
<1>6. QED
  BY <1>4, <1>5

\* A batch becomes a frame: it follows all that was sent or kept, and shares no process
\* with the other batches.
LEMMA FlushStep ==
  ASSUME TypeOK, SlotInv, OutInv, NEW i \in Ids, Flush(i)
  PROVE  Rest'
<1> DEFINE F == Seq(Chunks)
           f == batch[i]
<1>0. PtyTypes /\ ConnTypes /\ OutTypes /\ MsgTypes
  BY DEF TypeOK
<1>1. /\ UNCHANGED <<idOf, conn, count, active, open, hand, reads>>
      /\ batch' = [batch EXCEPT ![i] = << >>]
      /\ Route(f)
  BY DEF Flush, ptyVars, connVars
<1>2. (\A c \in Conns : sent[c] \in Seq(F)) /\ pending \in Seq(F) /\ (\A j \in Ids : batch[j] \in F)
  BY <1>0 DEF OutTypes, MsgTypes
<1>3. batch'[i] = << >> /\ \A j \in Ids : j # i => batch'[j] = batch[j]
  BY <1>0, <1>1 DEF OutTypes
<1> HIDE DEF F
<1>4. OwnBatch'
  BY <1>1, <1>3, EmptySeq DEF OutInv, Rest, OwnBatch
<1>5. \A j \in Ids : Precede(f, batch'[j])
  <2>1. \A j \in Ids : j # i => Precede(f, batch[j])
    BY DEF OutInv, Rest, OwnBatch, Precede, Before
  <2>2. QED
    BY <1>3, <2>1, NoFrames
<1>6. \A j \in Ids : \A s : AllPrecede(s, batch[j]) => AllPrecede(s, batch'[j])
  BY <1>3, NoFrames
<1>7. (\A j \in Ids : Sorted(batch'[j])) /\ (\A j \in Ids : IsRead(batch'[j]))
  BY <1>3, NoFrames DEF OutInv, Rest, StationsInOrder, ReadFirst
<1>8. /\ f \in F /\ Sorted(f) /\ IsRead(f) /\ AllPrecede(pending, f)
      /\ InOrder(pending) /\ AllRead(pending)
      /\ \A c \in Conns : /\ InOrder(sent[c]) /\ AllRead(sent[c]) /\ Earlier(sent[c], pending)
                          /\ AllPrecede(sent[c], f)
      /\ \A c \in Conns, j \in Ids : AllPrecede(sent[c], batch'[j])
      /\ \A j \in Ids : AllPrecede(pending, batch'[j])
      /\ \A c, d \in Conns : c < d => Earlier(sent[c], sent[d])
  BY <1>2, <1>6 DEF OutInv, Rest, StationsInOrder, StationsAgree, ReadFirst
<1>9. ReadFirst' <=> /\ \A c \in Conns : AllRead(sent'[c])
                     /\ AllRead(pending')
                     /\ \A j \in Ids : IsRead(batch'[j])
  BY <1>1 DEF ReadFirst, AllRead, IsRead
<1>10. ASSUME NEW s \in Seq(F), InOrder(s), AllRead(s), AllPrecede(s, f),
              \A c \in Conns : Earlier(sent[c], s),
              \A j \in Ids : AllPrecede(s, batch'[j])
       PROVE  /\ InOrder(Append(s, f)) /\ AllRead(Append(s, f))
              /\ \A c \in Conns : Earlier(sent[c], Append(s, f))
              /\ \A j \in Ids : AllPrecede(Append(s, f), batch'[j])
              /\ Append(s, f) \in Seq(F)
              /\ \A g : AllPrecede(s, g) /\ Precede(f, g) => AllPrecede(Append(s, f), g)
  <2> HIDE DEF f
  <2>1. Append(s, f) \in Seq(F)
    BY <1>8, AppendProperties
  <2>2. /\ InOrder(Append(s, f))
        /\ \A g : AllPrecede(s, g) /\ Precede(f, g) => AllPrecede(Append(s, f), g)
        /\ \A r : Earlier(r, s) /\ AllPrecede(r, f) => Earlier(r, Append(s, f))
        /\ AllRead(s) /\ IsRead(f) => AllRead(Append(s, f))
    BY <1>8, <1>10, AppendFrame
  <2>3. QED
    BY <1>5, <1>8, <1>10, <2>1, <2>2
<1> DEFINE Then(g) == (\A c \in Conns : AllPrecede(sent'[c], g)) /\ AllPrecede(pending', g)
<1>15. HandsFresh'
  BY <1>1 DEF OutInv, Rest, HandsFresh
<1>16. ASSUME \A g : Behind(g) => Then(g) PROVE HandsAgree'
  <2> SUFFICES ASSUME NEW r \in Procs, hand'[r] # 0 PROVE Behind(<<InHand(r)>>)'
    BY DEF HandsAgree
  <2>1. InHand(r)' = InHand(r) /\ Behind(<<InHand(r)>>)
    BY <1>1 DEF OutInv, Rest, HandsAgree, InHand, Alone
  <2>2. \A j \in Ids : Precede(batch'[j], <<InHand(r)>>)
    <3>1. \A j \in Ids : Precede(batch[j], <<InHand(r)>>)
      BY <2>1 DEF Behind
    <3>2. Precede(<< >>, <<InHand(r)>>)
      BY EmptySeq DEF Precede
    <3>3. QED
      BY <1>3, <3>1, <3>2
  <2>3. QED
    BY <1>16, <2>1, <2>2 DEF Behind
<1>17. \A g : Behind(g) => /\ (\A c \in Conns : AllPrecede(sent[c], g)) /\ AllPrecede(pending, g)
                           /\ Precede(f, g)
  BY DEF Behind
<1>11. CASE active = None
  <2>1. PICK s \in Seq(F) : /\ pending' = Append(s, f) /\ sent' = sent
                            /\ InOrder(s) /\ AllRead(s) /\ AllPrecede(s, f)
                            /\ \A c \in Conns : Earlier(sent[c], s)
                            /\ \A j \in Ids : AllPrecede(s, batch'[j])
                            /\ \A g : AllPrecede(pending, g) => AllPrecede(s, g)
    <3>1. CASE Len(pending) >= MaxQueue
      <4>1. pending' = Append(Tail(pending), f) /\ sent' = sent
        BY <1>1, <1>11, <3>1 DEF Route
      <4>2. pending # << >>
        BY <3>1, EmptySeq, BoundsAssumption
      <4>3. Tail(pending) \in Seq(F)
        BY <1>2, <4>2, HeadTailProperties
      <4>4. /\ InOrder(pending) => InOrder(Tail(pending))
            /\ \A g : AllPrecede(pending, g) => AllPrecede(Tail(pending), g)
            /\ \A r : Earlier(r, pending) => Earlier(r, Tail(pending))
            /\ AllRead(pending) => AllRead(Tail(pending))
        BY <1>2, <4>2, TailFrames
      <4>5. QED
        BY <1>8, <4>1, <4>3, <4>4
    <3>2. CASE ~(Len(pending) >= MaxQueue)
      <4>1. pending' = Append(pending, f) /\ sent' = sent
        BY <1>1, <1>11, <3>2 DEF Route
      <4>2. QED
        BY <1>2, <1>8, <4>1
    <3>3. QED
      BY <3>1, <3>2
  <2>2. /\ InOrder(pending') /\ AllRead(pending')
        /\ \A c \in Conns : Earlier(sent[c], pending')
        /\ \A j \in Ids : AllPrecede(pending', batch'[j])
        /\ \A g : Behind(g) => Then(g)
    <3> HIDE DEF f
    <3>1. QED
      BY <1>10, <1>17, <2>1
  <2>3. ReadFirst'
    BY <1>7, <1>8, <1>9, <2>1, <2>2
  <2>4. StationsInOrder' /\ StationsAgree'
    BY <1>7, <1>8, <2>1, <2>2 DEF StationsInOrder, StationsAgree
  <2>5. UnusedIsEmpty'
    BY <1>1, <2>1 DEF OutInv, Rest, UnusedIsEmpty
  <2>6. QED
    BY <1>4, <1>15, <1>16, <2>2, <2>3, <2>4, <2>5 DEF Rest
<1>12. CASE active # None /\ ~open[active]
  <2>1. sent' = sent /\ pending' = << >>
    BY <1>1, <1>12 DEF Route, Send
  <2>2. ReadFirst'
    BY <1>7, <1>8, <1>9, <2>1, NoFrames
  <2>3. StationsInOrder' /\ StationsAgree'
    BY <1>7, <1>8, <2>1, NoFrames DEF StationsInOrder, StationsAgree
  <2>4. UnusedIsEmpty'
    BY <1>1, <2>1 DEF OutInv, Rest, UnusedIsEmpty
  <2>5. \A g : Behind(g) => Then(g)
    BY <1>17, <2>1, NoFrames
  <2>6. QED
    BY <1>4, <1>15, <1>16, <2>2, <2>3, <2>4, <2>5 DEF Rest
<1>13. CASE active # None /\ open[active]
  <2> DEFINE t == Append(pending, f)
             u == sent[active] \o t
  <2>1. active \in Conns /\ conn[active] # "unused" /\ \A d \in Conns : d > active => sent[d] = << >>
    BY <1>0, <1>13 DEF ConnTypes, SlotInv, OutInv, Rest, UnusedIsEmpty
  <2>2. /\ pending' = << >> /\ sent'[active] = u
        /\ \A c \in Conns : c # active => sent'[c] = sent[c]
    BY <1>0, <1>1, <1>13, <2>1 DEF Route, Send, MsgTypes
  <2>3. /\ InOrder(t) /\ AllRead(t) /\ t \in Seq(F)
        /\ \A c \in Conns : Earlier(sent[c], t)
        /\ \A j \in Ids : AllPrecede(t, batch'[j])
        /\ \A g : AllPrecede(pending, g) /\ Precede(f, g) => AllPrecede(t, g)
    BY <1>2, <1>8, <1>10
  <2> HIDE DEF t
  <2>4. InOrder(u)
    BY <1>2, <1>8, <2>1, <2>3, ConcatInOrder
  <2>5. /\ \A g : AllPrecede(sent[active], g) /\ AllPrecede(t, g) => AllPrecede(u, g)
        /\ \A r : Earlier(r, sent[active]) /\ Earlier(r, t) => Earlier(r, u)
        /\ AllRead(sent[active]) /\ AllRead(t) => AllRead(u)
    BY <1>2, <2>1, <2>3, ConcatFrames
  <2>6. /\ AllRead(u)
        /\ \A j \in Ids : AllPrecede(u, batch'[j])
        /\ \A c \in Conns : c < active => Earlier(sent[c], u)
    BY <1>8, <2>1, <2>3, <2>5
  <2>13. \A g : Behind(g) => AllPrecede(u, g)
    BY <1>17, <2>1, <2>3, <2>5
  <2> HIDE DEF u
  <2>14. \A g : Behind(g) => Then(g)
    BY <1>17, <2>2, <2>13, NoFrames
  <2>7. ReadFirst'
    BY <1>7, <1>8, <1>9, <2>2, <2>6, NoFrames
  <2>8. StationsInOrder'
    BY <1>7, <1>8, <2>2, <2>4, NoFrames DEF StationsInOrder
  <2>9. \A c, d \in Conns : c < d => Earlier(sent'[c], sent'[d])
    <3>1. TAKE c, d \in Conns
    <3>2. HAVE c < d
    <3>3. CASE c = active
      BY <2>1, <2>2, <3>2, <3>3, NoFrames, ConnsAssumption
    <3>4. CASE d = active
      BY <2>2, <2>6, <3>2, <3>4, ConnsAssumption
    <3>5. CASE c # active /\ d # active
      BY <1>8, <2>2, <3>2, <3>5
    <3>6. QED
      BY <3>3, <3>4, <3>5
  <2>10. StationsAgree'
    BY <1>8, <2>2, <2>6, <2>9, NoFrames DEF StationsAgree
  <2>11. UnusedIsEmpty'
    BY <1>1, <2>1, <2>2 DEF OutInv, Rest, UnusedIsEmpty
  <2>12. QED
    BY <1>4, <1>15, <1>16, <2>7, <2>8, <2>10, <2>11, <2>14 DEF Rest
<1>14. QED
  BY <1>11, <1>12, <1>13

\* A process is started: there is no output of it yet.
LEMMA SpawnKeepsOutput ==
  ASSUME TypeOK, OutInv, NEW c \in Conns, NEW p \in Procs, SpawnProcess(c, p)
  PROVE  Rest'
<1>0. PtyTypes /\ ConnTypes /\ OutTypes
  BY DEF TypeOK
<1>1. /\ UNCHANGED <<count, hand, reads, batch, pending, sent>> /\ proc[p] = "unborn" /\ conn[c] # "unused"
      /\ \A q \in Procs : q # p => idOf'[q] = idOf[q]
      /\ \A d \in Conns : conn'[d] = "unused" => conn[d] = "unused"
  BY <1>0 DEF SpawnProcess, Handling, outVars, msgVars, PtyTypes, ConnTypes
<1>2. OwnBatch'
  <2> SUFFICES ASSUME NEW i \in Ids, NEW x \in 1 .. Len(batch[i])
               PROVE  idOf'[batch[i][x][1]] = i
    BY <1>1 DEF OwnBatch
  <2>1. batch[i][x] \in Chunks
    BY <1>0, ElementOfSeq DEF OutTypes
  <2>2. batch[i][x][1] \in Procs /\ batch[i][x][2] \in Nat \ {0}
    BY <2>1, BoundsAssumption DEF Chunks
  <2>3. batch[i][x][2] <= count[batch[i][x][1]] /\ count[p] = 0 /\ idOf[batch[i][x][1]] = i
    BY <1>1 DEF OutInv, Rest, ReadFirst, IsRead, BornFirst, OwnBatch
  <2>4. batch[i][x][1] # p
    BY <2>2, <2>3
  <2>5. QED
    BY <1>1, <2>2, <2>3, <2>4
<1>3. HandsFresh' /\ HandsAgree'
  BY <1>1 DEF OutInv, Rest, HandsFresh, HandsAgree, Behind, InHand, Alone
<1>4. QED
  BY <1>1, <1>2, <1>3 DEF OutInv, Rest, ReadFirst, AllRead, IsRead, StationsInOrder, StationsAgree, UnusedIsEmpty

\* Every step keeps output in order.
LEMMA OutStep == TypeOK /\ SlotInv /\ OutInv /\ [Next]_vars => OutInv'
<1> SUFFICES ASSUME TypeOK, SlotInv, OutInv, [Next]_vars PROVE OutInv'
  OBVIOUS
<1>0. ConnTypes
  BY DEF TypeOK
<1> DEFINE Stations == OwnBatch /\ ReadFirst /\ StationsInOrder /\ StationsAgree /\ UnusedIsEmpty
<1>1. ASSUME UNCHANGED <<idOf, count, batch, pending, sent>>,
             \A c \in Conns : conn'[c] = "unused" => conn[c] = "unused"
      PROVE  Stations'
  BY <1>1 DEF OutInv, Rest, OwnBatch, ReadFirst, AllRead, IsRead, StationsInOrder, StationsAgree, UnusedIsEmpty
<1>2. ASSUME UNCHANGED <<count, batch, pending, sent, hand, reads>>
      PROVE  HandsFresh' /\ HandsAgree'
  BY <1>2 DEF OutInv, Rest, HandsFresh, HandsAgree, Behind, InHand, Alone
<1> HIDE DEF Stations
<1>3. Stations' /\ HandsFresh' /\ HandsAgree' => Rest'
  BY DEF Stations, Rest
<1>4. ASSUME NEW c \in Conns, ConnStep(c), ~\E p \in Procs : SpawnProcess(c, p) PROVE Rest'
  <2>1. UNCHANGED <<idOf, count, batch, pending, sent, hand>>
    BY <1>4 DEF ConnStep, Accept, Authenticated, AuthFails, HubLeaves, ReadEnds, Receive, SpawnErr, StartReader,
       Destroy, DestroyFails, AskReader, AttachNotFound, AttachOk, AttachDropped, ptyVars, outVars, msgVars
  <2>2. \A d \in Conns : conn'[d] = "unused" => conn[d] = "unused"
    BY <1>0, <1>4 DEF ConnStep, Accept, Authenticated, AuthFails, HubLeaves, ReadEnds, Close, Receive, SpawnErr,
       StartReader, Destroy, DestroyFails, AskReader, AttachNotFound, AttachOk, AttachDropped, Handled, ConnTypes
  <2>3. ~StartReader(c) => reads' = reads
    BY <1>4 DEF ConnStep, Accept, Authenticated, AuthFails, HubLeaves, ReadEnds, Receive, SpawnErr,
       Destroy, DestroyFails, AskReader, AttachNotFound, AttachOk, AttachDropped, ptyVars
  <2>4. QED
    BY <1>1, <1>2, <1>3, <2>1, <2>2, <2>3, StartKeepsOutput
<1>5. ASSUME NEW p \in Procs, ProcStep(p), ~ReadOutput(p), ~QueueOutput(p) PROVE Rest'
  <2>1. UNCHANGED <<idOf, count, batch, pending, sent, conn, hand, reads>>
    BY <1>5 DEF ProcStep, ProcessExits, ReaderEnds, ReaderWaits, ReaderWaited, ReaderReaps, connVars, outVars, msgVars
  <2>2. QED
    BY <1>1, <1>2, <1>3, <2>1
<1>6. ASSUME StopStep \/ UNCHANGED vars, ~Stop, ~ForcedStop PROVE Rest'
  <2>1. UNCHANGED <<idOf, count, batch, pending, sent, conn, hand, reads>>
    BY <1>6 DEF StopStep, StopRequested, Sweep, SweepConfirmed, vars, ptyVars, connVars, outVars, msgVars
  <2>2. QED
    BY <1>1, <1>2, <1>3, <2>1
<1>7. ASSUME NEW code, Exit(code) PROVE Rest'
  <2>1. /\ UNCHANGED <<idOf, count, sent, conn>> /\ pending' = << >>
        /\ \A i \in Ids : batch'[i] = << >>
        /\ \A r \in Procs : hand'[r] = 0
    BY <1>7 DEF Exit, ptyVars, connVars, msgVars
  <2>2. HandsFresh' /\ HandsAgree'
    BY <2>1 DEF HandsFresh, HandsAgree
  <2>3. OwnBatch'
    BY <2>1, EmptySeq DEF OwnBatch
  <2>4. ReadFirst'
    <3>1. IsRead(<< >>)' /\ AllRead(<< >>)'
      BY EmptySeq DEF IsRead, AllRead
    <3>2. QED
      BY <2>1, EmptySeq DEF OutInv, Rest, ReadFirst, AllRead, IsRead
  <2>5. StationsInOrder' /\ StationsAgree' /\ UnusedIsEmpty'
    BY <2>1, NoFrames DEF OutInv, Rest, StationsInOrder, StationsAgree, UnusedIsEmpty
  <2>6. QED
    BY <2>2, <2>3, <2>4, <2>5 DEF Rest
<1>8. Rest'
  BY <1>4, <1>5, <1>6, <1>7, ReadStep, QueueStep, FlushStep, SpawnKeepsOutput DEF Next, Stop, ForcedStop
<1>9. BornFirst'
  BY BornStep DEF OutInv
<1>10. QED
  BY <1>8, <1>9 DEF OutInv

\* Output reaches the hubs at most once, and in the order in which a process wrote it as
\* long as one task reads it: across batches, frames kept while nobody was connected, and
\* displaced connections.  The reader of a SPAWN whose channel was destroyed and spawned
\* again meanwhile reads the new process; of two such readers nothing but this is promised.
THEOREM OutputStaysInOrder == Spec => []OutputInOrder
<1>1. Init => TypeOK /\ SlotInv /\ ActiveIsNewest /\ OutInv
  <2> SUFFICES ASSUME Init PROVE SlotInv /\ ActiveIsNewest /\ OutInv
    BY TypeInit
  <2>1. SlotInv /\ ActiveIsNewest /\ BornFirst /\ UnusedIsEmpty /\ HandsFresh /\ HandsAgree
    BY DEF Init, SlotInv, ActiveIsNewest, BornFirst, UnusedIsEmpty, HandsFresh, HandsAgree
  <2>2. OwnBatch
    BY EmptySeq DEF Init, OwnBatch
  <2>3. ReadFirst /\ StationsInOrder /\ StationsAgree
    BY NoFrames DEF Init, ReadFirst, StationsInOrder, StationsAgree
  <2>4. QED
    BY <2>1, <2>2, <2>3 DEF OutInv, Rest
<1>2. TypeOK /\ SlotInv /\ ActiveIsNewest /\ OutInv /\ [Next]_vars
        => TypeOK' /\ SlotInv' /\ ActiveIsNewest' /\ OutInv'
  BY TypeStep, SlotStep, OutStep
<1>3. TypeOK /\ OutInv => OutputInOrder
  <2> SUFFICES ASSUME TypeOK, OutInv, NEW c \in Conns, NEW d \in Conns,
                      NEW k \in DOMAIN sent[c], NEW l \in DOMAIN sent[d],
                      NEW x \in DOMAIN sent[c][k], NEW y \in DOMAIN sent[d][l],
                      c < d \/ (c = d /\ (k < l \/ (k = l /\ x < y)))
               PROVE  Before(sent[c][k][x], sent[d][l][y])
    BY DEF OutputInOrder
  <2> DEFINE F == Seq(Chunks)
  <2>1. sent[c] \in Seq(F) /\ sent[d] \in Seq(F)
    BY DEF TypeOK, MsgTypes
  <2> HIDE DEF F
  <2>2. k \in 1 .. Len(sent[c]) /\ l \in 1 .. Len(sent[d])
    BY <2>1, LenProperties
  <2>3. sent[c][k] \in Seq(Chunks) /\ sent[d][l] \in Seq(Chunks)
    BY <2>1, <2>2, ElementOfSeq DEF F
  <2>4. x \in 1 .. Len(sent[c][k]) /\ y \in 1 .. Len(sent[d][l])
    BY <2>3, LenProperties
  <2>5. CASE c < d
    BY <2>2, <2>4, <2>5 DEF OutInv, Rest, StationsAgree, Earlier, AllPrecede, Precede
  <2>6. CASE c = d /\ k < l
    BY <2>2, <2>4, <2>6 DEF OutInv, Rest, StationsInOrder, InOrder, Precede
  <2>7. CASE c = d /\ k = l /\ x < y
    BY <2>2, <2>4, <2>7 DEF OutInv, Rest, StationsInOrder, InOrder, Sorted
  <2>8. QED
    BY <2>5, <2>6, <2>7
<1>4. QED
  BY <1>1, <1>2, <1>3, PTL DEF Spec
=============================================================================
