-------------------------- MODULE SessionLifecycle --------------------------
(***************************************************************************)
(* What the hub promises about the sessions of one host, whoever acts:     *)
(* a session is created once, in "starting", and then becomes the current  *)
(* one; it moves between its live states along the transitions below;      *)
(* once closed it stays closed; a session that stopped being current       *)
(* never becomes current again.                                            *)
(***************************************************************************)
CONSTANTS Sessions, None

VARIABLES
  cur,     \* the current session of the host, or None
  status   \* per session, "none" before it is created

vars == <<cur, status>>

\* The moves between live states.
Transitions ==
  { <<"starting", "active">>, <<"starting", "disconnected">>,
    <<"active", "detached">>, <<"active", "disconnected">>,
    <<"detached", "active">>, <<"detached", "disconnected">>,
    <<"disconnected", "active">> }

Init == cur = None /\ status = [x \in Sessions |-> "none"]

Create(x) ==
  /\ status[x] = "none"
  /\ status' = [status EXCEPT ![x] = "starting"]
  /\ cur' = x

Move(x, to) ==
  /\ <<status[x], to>> \in Transitions
  /\ status' = [status EXCEPT ![x] = to]
  /\ UNCHANGED cur

\* Closing any session leaves the host without a current one.
Close(x) ==
  /\ status[x] # "none"
  /\ status' = [status EXCEPT ![x] = "closed"]
  /\ cur' = None

Next ==
  \E x \in Sessions :
    \/ Create(x) \/ Close(x)
    \/ \E to \in {"active", "detached", "disconnected"} : Move(x, to)

Spec == Init /\ [][Next]_vars
=============================================================================
