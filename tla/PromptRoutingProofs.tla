------------------------- MODULE PromptRoutingProofs -------------------------
(***************************************************************************)
(* Proofs about PromptRouting, for any number of users, connections,       *)
(* operations and contexts: a prompt that is waited for always has a       *)
(* connected client to answer it, a question of a test or of an elevation  *)
(* stays with the client that asked for it, and a client that has handled  *)
(* its messages shows no dialog of a prompt nobody waits for.              *)
(***************************************************************************)
EXTENDS PromptRouting, SequenceTheorems, FiniteSetTheorems, WellFoundedInduction, TLAPS

-----------------------------------------------------------------------------
(* The route candidate.                                                    *)

\* Connections are numbers, and none of them is the absence of a route.
LEMMA ConnNumbers ==
  ASSUME RoutingTypes
  PROVE  Conns \subseteq Nat /\ up \subseteq Nat /\ None \notin up /\ None \notin Conns
<1>1. Len(user) \in Nat
  BY LenProperties DEF RoutingTypes
<1>2. Conns \subseteq Nat
  BY <1>1 DEF Conns
<1>3. QED
  BY <1>2, NoneAssumption DEF RoutingTypes

\* Of several connections one is the oldest.
LEMMA OldestExists ==
  ASSUME NEW S \in SUBSET Nat, S # {}
  PROVE  \E n \in S : \A m \in S : n <= m
<1> DEFINE R == {p \in Nat \X Nat : p[1] < p[2]}
<1>1. IsWellFoundedOn(R, Nat)
  BY NatLessThanWellFounded DEF OpToRel
<1>2. PICK n \in S : \A m \in S : ~(<<m, n>> \in R)
  <2> HIDE DEF R
  <2>1. QED
    BY <1>1, WFMin
<1>3. \A m \in S : m < n => <<m, n>> \in R
  OBVIOUS
<1>4. \A m \in S : ~(m < n)
  BY <1>2, <1>3
<1>5. \A m \in S : n <= m
  BY <1>4
<1>6. QED
  BY <1>5

\* A candidate is an open connection that takes part and is not excluded, and only a
\* context of a session or of a reconnect has one.
LEMMA CandidateIsOpen ==
  ASSUME RoutingTypes, NEW x \in Contexts, NEW excluded
  PROVE  \/ Candidate(x, excluded) = None
         \/ Candidate(x, excluded) \in part \ excluded /\ Movable(x)
<1> DEFINE all == part \ excluded
<1>1. all \in SUBSET Nat
  BY ConnNumbers DEF RoutingTypes
<1>2. CASE ~Movable(x) \/ all = {}
  BY <1>2 DEF Candidate
<1>3. CASE Movable(x) /\ all # {}
  <2>1. \E n \in all : \A m \in all : n <= m
    <3> HIDE DEF all
    <3>1. QED
      BY <1>1, <1>3, OldestExists
  <2>2. Candidate(x, excluded) = CHOOSE n \in all : \A m \in all : n <= m
    BY <1>3 DEF Candidate
  <2>3. QED
    BY <1>3, <2>1, <2>2
<1>4. QED
  BY <1>2, <1>3

\* A prompt is routed to an open connection, and one of a test or of an elevation to
\* the client its open context has.
LEMMA RouteIsOpen ==
  ASSUME RoutingTypes, NEW o \in Ops
  PROVE  /\ RouteFor(o) \in up \cup {None}
         /\ RouteFor(o) # None /\ ~Movable(CtxOf[o]) /\ context[CtxOf[o]] # None =>
              RouteFor(o) = context[CtxOf[o]]
<1> DEFINE x == CtxOf[o]
<1>1. x \in Contexts /\ part \subseteq up
  BY PromptAssumption DEF RoutingTypes, CtxOf
<1>2. CASE context[x] \in up
  BY <1>2, ConnNumbers DEF RouteFor
<1>3. CASE context[x] # None /\ context[x] \notin up
  BY <1>1, <1>3, CandidateIsOpen DEF RouteFor
<1>4. CASE context[x] = None /\ context[x] \notin up /\ Kind[x] = "reconnect"
  BY <1>1, <1>4, CandidateIsOpen DEF RouteFor
<1>5. CASE context[x] = None /\ context[x] \notin up /\ Kind[x] # "reconnect"
  BY <1>5 DEF RouteFor, Movable
<1>6. QED
  BY <1>2, <1>3, <1>4, <1>5

-----------------------------------------------------------------------------
(* The inductive invariant.                                                *)

\* The context of a test or of an elevation is opened by its operation and by no other.
OwnerStarted ==
  \A o \in Ops : ~Movable(CtxOf[o]) /\ context[CtxOf[o]] # None => op[o] # "idle"

RouteInv == RoutingTypes /\ NoOrphanPrompt /\ OwnerStarted

\* A clear leaves the other contexts, their prompts and their operations alone.
LEMMA ClearFacts ==
  ASSUME RouteInv, NEW x \in Contexts, NEW ended \in SUBSET Ops, Clear(x, ended),
         \A o \in ended : op[o] = "running",
         UNCHANGED <<connVars, by>>, asked' \in [Ops -> 0 .. MaxAsks]
  PROVE  RouteInv'
<1>1. RoutingTypes
  BY DEF RouteInv
<1>2. context' = [context EXCEPT ![x] = None] /\ context' \in [Contexts -> Conns \cup {None}]
  BY <1>1 DEF Clear, RoutingTypes
<1>3. \A o \in Ops : prompt'[o] = IF o \in AskedIn(x) THEN None ELSE prompt[o]
  BY DEF Clear
<1>4. prompt' \in [Ops -> Prompts \cup {None}]
  BY <1>1 DEF Clear, RoutingTypes
<1>5. \A o \in Ops : op'[o] = IF o \in ended THEN "done" ELSE IF o \in AskedIn(x) THEN "running" ELSE op[o]
  BY DEF Clear
<1>6. op' \in [Ops -> {"idle", "running", "asking", "done"}]
  <2>1. op' = [o \in Ops |-> op'[o]]
    BY DEF Clear
  <2>2. \A o \in Ops : op'[o] \in {"idle", "running", "asking", "done"}
    BY <1>1, <1>5 DEF RoutingTypes
  <2>3. QED
    BY <2>1, <2>2
<1>7. \A o \in Ops : prompt'[o] # None <=> op'[o] = "asking"
  BY <1>1, <1>3, <1>5 DEF RoutingTypes
<1>8. RoutingTypes'
  BY <1>1, <1>2, <1>4, <1>6, <1>7 DEF RoutingTypes, connVars, Conns
<1>9. NoOrphanPrompt'
  <2>1. ASSUME NEW o \in Ops, prompt'[o] # None PROVE context'[CtxOf[o]] \in up
    <3>1. prompt[o] # None /\ o \notin AskedIn(x) /\ context[CtxOf[o]] \in up
      BY <2>1, <1>3 DEF RouteInv, NoOrphanPrompt
    <3>2. None \notin up
      BY <1>1, ConnNumbers
    <3>3. CtxOf[o] # x
      BY <3>1, <3>2 DEF AskedIn
    <3>4. QED
      BY <1>1, <1>2, <3>1, <3>3 DEF RoutingTypes
  <2>2. QED
    BY <2>1 DEF NoOrphanPrompt, CtxOf, connVars
<1>10. OwnerStarted'
  <2>1. ASSUME NEW o \in Ops, ~Movable(CtxOf[o]), context'[CtxOf[o]] # None PROVE op'[o] # "idle"
    <3>1. context[CtxOf[o]] # None
      BY <1>1, <1>2, <2>1 DEF RoutingTypes
    <3>2. op[o] # "idle"
      BY <2>1, <3>1 DEF RouteInv, OwnerStarted
    <3>3. QED
      BY <1>5, <3>2
  <2>2. QED
    BY <2>1 DEF OwnerStarted, Movable, CtxOf, Kind, connVars
<1>11. QED
  BY <1>8, <1>9, <1>10 DEF RouteInv

\* A client that leaves takes no prompt with it.
LEMMA DisconnectStep ==
  ASSUME RouteInv, NEW c \in Conns, Disconnect(c)
  PROVE  RouteInv'
<1> DEFINE next == [x \in Contexts |-> IF context[x] = c THEN Candidate(x, {c}) ELSE context[x]]
           mine == UNION {AskedIn(x) : x \in {y \in Contexts : context[y] = c}}
           moved == {o \in mine : next[CtxOf[o]] # None}
<1>0. RoutingTypes /\ \A o \in Ops : CtxOf[o] \in Contexts
  BY PromptAssumption DEF RouteInv, RoutingTypes, CtxOf
<1>1. /\ context' = next /\ up' = up \ {c} /\ part' = part \ {c}
      /\ UNCHANGED <<setting, user, by, asked>>
      /\ prompt' = [o \in Ops |-> CASE o \in moved -> [prompt[o] EXCEPT !.epoch = @ + 1]
                                    [] o \in mine \ moved -> None
                                    [] OTHER -> prompt[o]]
      /\ op' = [o \in Ops |-> IF o \in mine \ moved THEN "running" ELSE op[o]]
  BY DEF Disconnect, Redelivered, RoutesWithout
<1>2. \A x \in Contexts : next[x] = IF context[x] = c THEN Candidate(x, {c}) ELSE context[x]
  OBVIOUS
<1>3. \A x \in Contexts : context[x] = c =>
        Candidate(x, {c}) = None \/ (Candidate(x, {c}) \in part \ {c} /\ Movable(x))
  BY <1>0, CandidateIsOpen
<1>4. \A o \in Ops : o \in mine <=> prompt[o] # None /\ context[CtxOf[o]] = c
  BY <1>0, ConnNumbers DEF AskedIn
<1> HIDE DEF next, mine
<1>5. \A o \in Ops : /\ o \in moved => prompt'[o] = [prompt[o] EXCEPT !.epoch = @ + 1]
                     /\ o \in mine /\ o \notin moved => prompt'[o] = None
                     /\ o \notin mine => prompt'[o] = prompt[o]
  BY <1>1
<1>e. \A p \in Prompts : [p EXCEPT !.epoch = @ + 1] \in Prompts
  BY DEF Prompts
<1>6. prompt' \in [Ops -> Prompts \cup {None}]
  <2>1. \A o \in Ops : prompt'[o] \in Prompts \cup {None}
    <3>1. \A o \in moved : prompt[o] \in Prompts
      BY <1>0, <1>4 DEF RoutingTypes, mine, AskedIn
    <3>2. \A o \in moved : [prompt[o] EXCEPT !.epoch = @ + 1] \in Prompts
      BY <1>e, <3>1
    <3>3. \A o \in Ops : prompt[o] \in Prompts \cup {None}
      BY <1>0 DEF RoutingTypes
    <3>4. TAKE o \in Ops
    <3>5. CASE o \in moved
      BY <1>5, <3>2, <3>5
    <3>6. CASE o \notin moved
      BY <1>5, <3>3, <3>6
    <3>7. QED
      BY <3>5, <3>6
  <2>2. QED
    BY <1>1, <2>1
<1>7. \A o \in Ops : op'[o] = IF o \in mine /\ o \notin moved THEN "running" ELSE op[o]
  BY <1>1
<1>8. op' \in [Ops -> {"idle", "running", "asking", "done"}]
  BY <1>0, <1>1 DEF RoutingTypes
<1>9. \A o \in Ops : prompt'[o] # None <=> op'[o] = "asking"
  <2>1. TAKE o \in Ops
  <2>2. prompt[o] # None <=> op[o] = "asking"
    BY <1>0 DEF RoutingTypes
  <2>3. CASE o \in moved
    <3>1. prompt[o] \in Prompts /\ op[o] = "asking" /\ op'[o] = op[o]
      BY <1>0, <1>4, <1>7, <2>2, <2>3 DEF RoutingTypes
    <3>2. prompt'[o] \in Prompts
      BY <1>5, <1>e, <2>3, <3>1
    <3>3. QED
      BY <3>1, <3>2, NoneAssumption
  <2>4. CASE o \notin moved
    BY <1>5, <1>7, <2>2, <2>4
  <2>5. QED
    BY <2>3, <2>4
<1>10. context' \in [Contexts -> Conns \cup {None}]
  <2>1. \A x \in Contexts : next[x] \in Conns \cup {None}
    BY <1>0, <1>2, <1>3 DEF RoutingTypes
  <2>2. QED
    BY <1>1, <2>1 DEF next
<1>11. RoutingTypes'
  BY <1>0, <1>1, <1>6, <1>8, <1>9, <1>10 DEF RoutingTypes, Conns
<1>12. NoOrphanPrompt'
  <2>1. ASSUME NEW o \in Ops, prompt'[o] # None PROVE context'[CtxOf[o]] \in up'
    <3>1. CASE o \in mine
      <4>1. next[CtxOf[o]] # None
        BY <1>5, <2>1, <3>1
      <4>2. next[CtxOf[o]] \in part \ {c}
        BY <1>0, <1>2, <1>3, <1>4, <3>1, <4>1
      <4>3. QED
        BY <1>0, <1>1, <4>2 DEF RoutingTypes
    <3>2. CASE o \notin mine
      <4>1. prompt[o] # None /\ context[CtxOf[o]] # c /\ context[CtxOf[o]] \in up
        BY <1>4, <1>5, <2>1, <3>2 DEF RouteInv, NoOrphanPrompt
      <4>2. QED
        BY <1>0, <1>1, <1>2, <4>1
    <3>3. QED
      BY <3>1, <3>2
  <2>2. QED
    BY <1>1, <2>1 DEF NoOrphanPrompt, CtxOf
<1>13. OwnerStarted'
  <2>1. ASSUME NEW o \in Ops, ~Movable(CtxOf[o]), context'[CtxOf[o]] # None PROVE op'[o] # "idle"
    <3>1. context[CtxOf[o]] # None
      BY <1>0, <1>1, <1>2, <1>3, <2>1
    <3>2. op[o] # "idle"
      BY <2>1, <3>1 DEF RouteInv, OwnerStarted
    <3>3. QED
      BY <1>7, <3>2
  <2>2. QED
    BY <1>1, <2>1 DEF OwnerStarted, Movable, CtxOf, Kind
<1>14. QED
  BY <1>11, <1>12, <1>13 DEF RouteInv

\* An operation of any kind starts.
Start(o) == StartConnect(o) \/ StartTest(o) \/ StartElevation(o)

\* It does so for a connected client, and opens at most its own context.
LEMMA StartFacts ==
  ASSUME RouteInv, NEW o \in Ops, Start(o)
  PROVE  /\ op[o] = "idle" /\ UNCHANGED <<connVars, asked, prompt>>
         /\ \E after \in {"done", "running"} : op' = [op EXCEPT ![o] = after]
         /\ \E c \in up : /\ by' = [by EXCEPT ![o] = c]
                         /\ \/ context' = context
                            \/ ~Movable(CtxOf[o]) /\ context' = [context EXCEPT ![CtxOf[o]] = c]
<1>1. CASE StartConnect(o)
  BY <1>1 DEF StartConnect
<1>2. CASE StartTest(o)
  <2>1. ~Movable(CtxOf[o])
    BY <1>2 DEF StartTest, Movable
  <2>2. QED
    BY <1>2, <2>1 DEF StartTest
<1>3. CASE StartElevation(o)
  BY <1>3 DEF StartElevation
<1>4. QED
  BY <1>1, <1>2, <1>3 DEF Start

\* A started operation has its context for itself.
LEMMA StartStep ==
  ASSUME RouteInv, NEW o \in Ops, Start(o)
  PROVE  RouteInv'
<1>0. RoutingTypes /\ \A p \in Ops : CtxOf[p] \in Contexts
  BY PromptAssumption DEF RouteInv, RoutingTypes, CtxOf
<1>1. PICK c \in up : /\ by' = [by EXCEPT ![o] = c]
                      /\ \/ context' = context
                         \/ ~Movable(CtxOf[o]) /\ context' = [context EXCEPT ![CtxOf[o]] = c]
  BY StartFacts
<1>a. PICK after \in {"done", "running"} : op' = [op EXCEPT ![o] = after]
  BY StartFacts
<1>b. op[o] = "idle" /\ UNCHANGED <<connVars, asked, prompt>>
  BY StartFacts
<1>2. /\ op[o] = "idle" /\ op' = [op EXCEPT ![o] = after]
      /\ UNCHANGED <<connVars, asked, prompt>>
  BY <1>a, <1>b
<1>3. context' \in [Contexts -> Conns \cup {None}] /\ by' \in [Ops -> Conns \cup {None}]
  BY <1>0, <1>1 DEF RoutingTypes
<1>4. /\ op' \in [Ops -> {"idle", "running", "asking", "done"}]
      /\ \A p \in Ops : prompt'[p] # None <=> op'[p] = "asking"
  BY <1>0, <1>2 DEF RoutingTypes
<1>5. RoutingTypes'
  BY <1>0, <1>2, <1>3, <1>4 DEF RoutingTypes, connVars, Conns
<1>6. \A x \in Contexts : context'[x] = context[x] \/ (context'[x] = c /\ x = CtxOf[o])
  BY <1>0, <1>1 DEF RoutingTypes
<1>7. NoOrphanPrompt'
  <2>1. ASSUME NEW p \in Ops, prompt[p] # None PROVE context'[CtxOf[p]] \in up
    BY <1>0, <1>6, <2>1 DEF RouteInv, NoOrphanPrompt
  <2>2. QED
    BY <1>2, <2>1 DEF NoOrphanPrompt, CtxOf, connVars
<1>8. OwnerStarted'
  <2>1. ASSUME NEW p \in Ops, ~Movable(CtxOf[p]), context'[CtxOf[p]] # None PROVE op'[p] # "idle"
    <3>1. CASE p = o
      BY <1>0, <1>2, <3>1 DEF RoutingTypes
    <3>2. CASE p # o
      <4>1. CtxOf[p] # CtxOf[o]
        BY <1>0, <2>1, <3>2, PromptAssumption DEF RoutingTypes, CtxOf, Movable, Kind
      <4>2. context'[CtxOf[p]] = context[CtxOf[p]] /\ op'[p] = op[p]
        BY <1>0, <1>2, <1>6, <3>2, <4>1 DEF RoutingTypes
      <4>3. QED
        BY <2>1, <4>2 DEF RouteInv, OwnerStarted
    <3>3. QED
      BY <3>1, <3>2
  <2>2. QED
    BY <1>2, <2>1 DEF OwnerStarted, Movable, CtxOf, Kind, connVars
<1>9. QED
  BY <1>5, <1>7, <1>8 DEF RouteInv

\* A prompt is stored with a route before it is sent.
LEMMA AskStep ==
  ASSUME RouteInv, NEW o \in Ops, NEW store \in Stores, Ask(o, store)
  PROVE  RouteInv'
<1>0. RoutingTypes /\ \A p \in Ops : CtxOf[p] \in Contexts
  BY PromptAssumption DEF RouteInv, RoutingTypes, CtxOf
<1>1. /\ op[o] = "running" /\ op' = [op EXCEPT ![o] = "asking"] /\ UNCHANGED <<connVars, by>>
      /\ context' = [context EXCEPT ![CtxOf[o]] = RouteFor(o)]
      /\ asked[o] < MaxAsks /\ asked' = [asked EXCEPT ![o] = @ + 1]
      /\ RouteFor(o) # None
  BY DEF Ask
<1>2. prompt' = [prompt EXCEPT ![o] = [epoch |-> 1, store |-> store]]
  BY DEF Ask
<1>3. RouteFor(o) \in up
  BY <1>0, <1>1, RouteIsOpen
<1>4. context' \in [Contexts -> Conns \cup {None}]
  BY <1>0, <1>1, <1>3 DEF RoutingTypes
<1>5. asked' \in [Ops -> 0 .. MaxAsks]
  <2>1. asked[o] + 1 \in 0 .. MaxAsks
    BY <1>0, <1>1, PromptAssumption DEF RoutingTypes
  <2>2. QED
    BY <1>0, <1>1, <2>1 DEF RoutingTypes
<1>6. [epoch |-> 1, store |-> store] \in Prompts
  BY DEF Prompts, Stores
<1>7. [epoch |-> 1, store |-> store] # None
  BY <1>6, NoneAssumption
<1>8. /\ prompt' \in [Ops -> Prompts \cup {None}]
      /\ op' \in [Ops -> {"idle", "running", "asking", "done"}]
  BY <1>0, <1>1, <1>2, <1>6 DEF RoutingTypes
<1>9. \A p \in Ops : prompt'[p] # None <=> op'[p] = "asking"
  <2>1. TAKE p \in Ops
  <2>2. CASE p = o
    <3>1. prompt'[p] = [epoch |-> 1, store |-> store] /\ op'[p] = "asking"
      BY <1>0, <1>1, <1>2, <2>2 DEF RoutingTypes
    <3>2. QED
      BY <1>7, <3>1
  <2>3. CASE p # o
    <3>1. prompt'[p] = prompt[p] /\ op'[p] = op[p]
      BY <1>0, <1>1, <1>2, <2>3 DEF RoutingTypes
    <3>2. QED
      BY <1>0, <3>1 DEF RoutingTypes
  <2>4. QED
    BY <2>2, <2>3
<1>10. RoutingTypes'
  BY <1>0, <1>1, <1>4, <1>5, <1>8, <1>9 DEF RoutingTypes, connVars, Conns
<1>11. \A x \in Contexts : context'[x] = IF x = CtxOf[o] THEN RouteFor(o) ELSE context[x]
  BY <1>0, <1>1 DEF RoutingTypes
<1>12. NoOrphanPrompt'
  <2>1. ASSUME NEW p \in Ops, prompt'[p] # None PROVE context'[CtxOf[p]] \in up
    <3>1. CASE CtxOf[p] = CtxOf[o]
      BY <1>0, <1>3, <1>11, <3>1
    <3>2. CASE CtxOf[p] # CtxOf[o]
      <4>1. prompt'[p] = prompt[p]
        BY <1>0, <1>2, <3>2 DEF RoutingTypes
      <4>2. QED
        BY <1>0, <1>11, <2>1, <3>2, <4>1 DEF RouteInv, NoOrphanPrompt
    <3>3. QED
      BY <3>1, <3>2
  <2>2. QED
    BY <1>1, <2>1 DEF NoOrphanPrompt, CtxOf, connVars
<1>13. OwnerStarted'
  <2>1. ASSUME NEW p \in Ops, ~Movable(CtxOf[p]), context'[CtxOf[p]] # None PROVE op'[p] # "idle"
    <3>1. CASE p = o
      BY <1>0, <1>1, <3>1 DEF RoutingTypes
    <3>2. CASE p # o
      <4>1. CtxOf[p] # CtxOf[o]
        BY <1>0, <2>1, <3>2, PromptAssumption DEF RoutingTypes, CtxOf, Movable, Kind
      <4>2. context'[CtxOf[p]] = context[CtxOf[p]] /\ op'[p] = op[p]
        BY <1>0, <1>1, <1>11, <3>2, <4>1 DEF RoutingTypes
      <4>3. QED
        BY <2>1, <4>2 DEF RouteInv, OwnerStarted
    <3>3. QED
      BY <3>1, <3>2
  <2>2. QED
    BY <1>1, <2>1 DEF OwnerStarted, Movable, CtxOf, Kind, connVars
<1>14. QED
  BY <1>10, <1>12, <1>13 DEF RouteInv

\* A prompt that is answered or times out is no longer waited for.
LEMMA ResolvedStep ==
  ASSUME RouteInv, NEW S \in SUBSET Ops, \A o \in S : op[o] = "asking",
         \A o \in Ops : prompt'[o] = IF o \in S THEN None ELSE prompt[o],
         \A o \in Ops : op'[o] = IF o \in S THEN "running" ELSE op[o],
         DOMAIN prompt' = Ops, DOMAIN op' = Ops,
         prompt' = [o \in Ops |-> prompt'[o]], op' = [o \in Ops |-> op'[o]],
         UNCHANGED <<connVars, context, by, asked>>
  PROVE  RouteInv'
<1>1. RoutingTypes
  BY DEF RouteInv
<1>2. /\ prompt' \in [Ops -> Prompts \cup {None}]
      /\ op' \in [Ops -> {"idle", "running", "asking", "done"}]
      /\ \A o \in Ops : prompt'[o] # None <=> op'[o] = "asking"
  BY <1>1 DEF RoutingTypes
<1>3. RoutingTypes'
  BY <1>1, <1>2 DEF RoutingTypes, connVars, Conns
<1>4. NoOrphanPrompt' /\ OwnerStarted'
  BY DEF RouteInv, NoOrphanPrompt, OwnerStarted, Movable, CtxOf, Kind, connVars
<1>5. QED
  BY <1>3, <1>4 DEF RouteInv

\* Every step keeps the routes.
LEMMA RouteStep == RouteInv /\ [Next]_vars => RouteInv'
<1> SUFFICES ASSUME RouteInv, [Next]_vars PROVE RouteInv'
  OBVIOUS
<1>0. RoutingTypes /\ \A o \in Ops : CtxOf[o] \in Contexts
  BY PromptAssumption DEF RouteInv, RoutingTypes, CtxOf
<1>1. ASSUME UNCHANGED <<connVars, context, opVars, prompt>> PROVE RouteInv'
  BY <1>1 DEF RouteInv, RoutingTypes, NoOrphanPrompt, OwnerStarted, Movable, CtxOf, Kind, connVars, opVars, Conns
<1>2. ASSUME NEW u \in Users, Connect(u) PROVE RouteInv'
  <2>1. /\ user' = Append(user, u) /\ up' = up \cup {Len(user) + 1}
        /\ UNCHANGED <<setting, part, context, opVars, prompt>>
    BY <1>2 DEF Connect
  <2>2. user' \in Seq(Users) /\ Len(user') = Len(user) + 1 /\ Len(user) \in Nat
    BY <1>0, <2>1, AppendProperties, LenProperties DEF RoutingTypes
  <2>3. Conns \subseteq Conns' /\ Len(user) + 1 \in Conns'
    BY <2>2 DEF Conns
  <2>4. RoutingTypes'
    <3>1. up' \subseteq Conns' /\ part' \subseteq up'
      BY <1>0, <2>1, <2>3 DEF RoutingTypes
    <3>2. context' \in [Contexts -> Conns' \cup {None}] /\ by' \in [Ops -> Conns' \cup {None}]
      BY <1>0, <2>1, <2>3 DEF RoutingTypes, opVars
    <3>3. QED
      BY <1>0, <2>1, <2>2, <3>1, <3>2 DEF RoutingTypes, opVars
  <2>5. NoOrphanPrompt' /\ OwnerStarted'
    BY <2>1 DEF RouteInv, NoOrphanPrompt, OwnerStarted, Movable, CtxOf, Kind, opVars
  <2>6. QED
    BY <2>4, <2>5 DEF RouteInv
<1>3. ASSUME NEW c \in Conns, TakePart(c) PROVE RouteInv'
  <2>1. RoutingTypes'
    BY <1>0, <1>3 DEF TakePart, RoutingTypes, opVars, Conns
  <2>2. QED
    BY <1>3, <2>1 DEF TakePart, RouteInv, NoOrphanPrompt, OwnerStarted, Movable, CtxOf, Kind, opVars
<1>4. ASSUME NEW o \in Ops, AskNobody(o) PROVE RouteInv'
  <2>1. asked' \in [Ops -> 0 .. MaxAsks]
    <3>1. asked[o] + 1 \in 0 .. MaxAsks
      BY <1>0, <1>4, PromptAssumption DEF AskNobody, RoutingTypes
    <3>2. QED
      BY <1>0, <1>4, <3>1 DEF AskNobody, RoutingTypes
  <2>2. QED
    BY <1>0, <1>4, <2>1, ClearFacts DEF AskNobody
<1>5. ASSUME NEW o \in Ops, Finish(o) PROVE RouteInv'
  <2>1. {o} \in SUBSET Ops /\ CtxOf[o] \in Contexts /\ \A p \in {o} : op[p] = "running"
    BY <1>0, <1>5 DEF Finish
  <2>2. asked' \in [Ops -> 0 .. MaxAsks] /\ UNCHANGED <<connVars, by>> /\ Clear(CtxOf[o], {o})
    BY <1>0, <1>5 DEF Finish, RoutingTypes
  <2>3. QED
    BY <2>1, <2>2, ClearFacts
<1>6. ASSUME NEW x \in Contexts, ClearContext(x) PROVE RouteInv'
  <2>1. Clear(x, {}) /\ UNCHANGED <<connVars, by>> /\ asked' = asked
    BY <1>6 DEF ClearContext
  <2>2. asked' \in [Ops -> 0 .. MaxAsks]
    BY <1>0, <2>1 DEF RoutingTypes
  <2>3. {} \in SUBSET Ops /\ \A o \in {} : op[o] = "running"
    OBVIOUS
  <2>4. QED
    BY <2>1, <2>2, <2>3, ClearFacts
<1>7. ASSUME NEW o \in Ops, Expire(o) PROVE RouteInv'
  <2>1. /\ op[o] = "asking" /\ prompt' = [prompt EXCEPT ![o] = None]
        /\ op' = [op EXCEPT ![o] = "running"]
        /\ UNCHANGED <<connVars, context, by, asked>>
    BY <1>7 DEF Expire
  <2>2. /\ \A p \in Ops : prompt'[p] = IF p \in {o} THEN None ELSE prompt[p]
        /\ \A p \in Ops : op'[p] = IF p \in {o} THEN "running" ELSE op[p]
        /\ DOMAIN prompt' = Ops /\ DOMAIN op' = Ops
        /\ prompt' = [p \in Ops |-> prompt'[p]] /\ op' = [p \in Ops |-> op'[p]]
    BY <1>0, <2>1 DEF RoutingTypes
  <2>3. {o} \in SUBSET Ops /\ \A p \in {o} : op[p] = "asking"
    BY <2>1
  <2>4. QED
    BY <2>1, <2>2, <2>3, ResolvedStep
<1>8. ASSUME NEW c \in Conns, Respond(c) PROVE RouteInv'
  <2> DEFINE S == {o \in Ops : Accepts(o, c, Head(toHub[c]))}
  <2>1. /\ prompt' = [o \in Ops |-> IF o \in S THEN None ELSE prompt[o]]
        /\ op' = [o \in Ops |-> IF o \in S THEN "running" ELSE op[o]]
        /\ UNCHANGED <<connVars, context, by, asked>>
    BY <1>8 DEF Respond
  <2>2. \A o \in S : op[o] = "asking"
    BY <1>0 DEF Accepts, RoutingTypes
  <2> HIDE DEF S
  <2>3. S \in SUBSET Ops
    BY DEF S
  <2>4. QED
    BY <2>1, <2>2, <2>3, ResolvedStep
<1>9. ASSUME NEW u \in Users, Answer(u) \/ Dismiss(u) PROVE RouteInv'
  BY <1>1, <1>9 DEF Answer, Dismiss
<1>10. ASSUME NEW c \in Conns, Deliver(c) PROVE RouteInv'
  BY <1>1, <1>10 DEF Deliver
<1>11. CASE UNCHANGED vars
  BY <1>1, <1>11 DEF vars
<1>12. ASSUME NEW o \in Ops, AskSecret(o) \/ AskVerify(o) \/ AskElevation(o) PROVE RouteInv'
  BY <1>12, AskStep DEF AskSecret, AskVerify, AskElevation, Stores
<1>13. ASSUME NEW o \in Ops, FinishConnect(o) \/ FinishTest(o) \/ FinishElevation(o) PROVE RouteInv'
  BY <1>5, <1>13 DEF FinishConnect, FinishTest, FinishElevation
<1>14. ASSUME NEW x \in Contexts, CloseSession(x) \/ ClearElevation(x) PROVE RouteInv'
  BY <1>6, <1>14 DEF CloseSession, ClearElevation
<1>15. ASSUME NEW o \in Ops, StartConnect(o) \/ StartTest(o) \/ StartElevation(o) PROVE RouteInv'
  BY <1>15, StartStep DEF Start
<1>16. QED
  BY <1>2, <1>3, <1>4, <1>7, <1>8, <1>9, <1>10, <1>11, <1>12, <1>13, <1>14, <1>15, DisconnectStep DEF Next

\* Nothing is connected, open or under way at first.
LEMMA RouteInit == Init => RouteInv
<1> SUFFICES ASSUME Init PROVE RouteInv
  OBVIOUS
<1>1. user \in Seq(Users) /\ up \subseteq Conns /\ part \subseteq up
  BY EmptySeq DEF Init
<1>2. /\ context \in [Contexts -> Conns \cup {None}]
      /\ op \in [Ops -> {"idle", "running", "asking", "done"}]
      /\ by \in [Ops -> Conns \cup {None}]
      /\ prompt \in [Ops -> Prompts \cup {None}]
      /\ \A o \in Ops : prompt[o] # None <=> op[o] = "asking"
  BY DEF Init
<1>3. asked \in [Ops -> 0 .. MaxAsks]
  BY PromptAssumption DEF Init
<1>4. \A o \in Ops : CtxOf[o] \in Contexts
  BY PromptAssumption DEF Init, CtxOf
<1>5. QED
  BY <1>1, <1>2, <1>3, <1>4 DEF Init, RouteInv, RoutingTypes, NoOrphanPrompt, OwnerStarted

\* The inductive invariant holds.
LEMMA RouteAlways == Spec => []RouteInv
BY RouteInit, RouteStep, PTL DEF Spec

-----------------------------------------------------------------------------
(* Queues.                                                                 *)

\* What is appended to a queue comes after what was there.
LEMMA Appended ==
  ASSUME NEW S, NEW q \in Seq(S), NEW s \in Seq(S), NEW r, r = q \o s
  PROVE  /\ r \in Seq(S)
         /\ \A k \in DOMAIN q : k \in DOMAIN r /\ r[k] = q[k] /\ k \in Nat \ {0}
         /\ \A k \in DOMAIN r : \/ k \in DOMAIN q
                                \/ k - Len(q) \in DOMAIN s /\ r[k] = s[k - Len(q)] /\ k \in Int
         /\ \A j \in DOMAIN s : /\ Len(q) + j \in DOMAIN r /\ r[Len(q) + j] = s[j]
                                /\ Len(q) + j \notin DOMAIN q
                                /\ \A k \in DOMAIN q : k < Len(q) + j
<1>1. /\ Len(q) \in Nat /\ DOMAIN q = 1 .. Len(q) /\ Len(s) \in Nat /\ DOMAIN s = 1 .. Len(s)
  BY LenProperties
<1>2. /\ r \in Seq(S) /\ Len(r) = Len(q) + Len(s)
      /\ \A i \in 1 .. Len(q) + Len(s) : r[i] = IF i <= Len(q) THEN q[i] ELSE s[i - Len(q)]
  BY ConcatProperties
<1>3. DOMAIN r = 1 .. Len(q) + Len(s)
  BY <1>2, LenProperties
<1>4. QED
  BY <1>1, <1>2, <1>3

\* The queue r is q with s appended to it, whose entries are in T.
Extends(S, T, q, s, r) ==
  /\ r \in Seq(S)
  /\ \A k \in DOMAIN q : k \in DOMAIN r /\ r[k] = q[k]
  /\ \A k \in DOMAIN r : k \notin DOMAIN q => r[k] \in T
  /\ \A i \in DOMAIN s :
       /\ Len(q) + i \in DOMAIN r /\ r[Len(q) + i] = s[i]
       /\ Len(q) + i \notin DOMAIN q /\ Len(q) + i > 0
       /\ \A k \in DOMAIN q : Len(q) + i > k
  /\ (\A i, j \in DOMAIN s : s[i].id = s[j].id => i = j) =>
       \A j, k \in DOMAIN r :
         j \notin DOMAIN q /\ k \notin DOMAIN q /\ r[j].id = r[k].id => j = k

\* The new entries of a queue are those of what was appended, each once.
LEMMA Extended ==
  ASSUME NEW S, NEW T, NEW q \in Seq(S), NEW s \in Seq(S), NEW r, r = q \o s,
         \A i \in DOMAIN s : s[i] \in T
  PROVE  Extends(S, T, q, s, r)
<1>1. /\ r \in Seq(S)
      /\ \A k \in DOMAIN q : k \in DOMAIN r /\ r[k] = q[k] /\ k \in Nat \ {0}
      /\ \A k \in DOMAIN r : \/ k \in DOMAIN q
                             \/ k - Len(q) \in DOMAIN s /\ r[k] = s[k - Len(q)] /\ k \in Int
      /\ \A j \in DOMAIN s : /\ Len(q) + j \in DOMAIN r /\ r[Len(q) + j] = s[j]
                             /\ Len(q) + j \notin DOMAIN q
                             /\ \A k \in DOMAIN q : k < Len(q) + j
  BY Appended
<1>2. Len(q) \in Nat /\ DOMAIN q = 1 .. Len(q) /\ DOMAIN s = 1 .. Len(s) /\ Len(s) \in Nat
  BY LenProperties
<1>3. \A k \in DOMAIN r : k \notin DOMAIN q => r[k] \in T
  BY <1>1
<1>4. \A i \in DOMAIN s : Len(q) + i > 0 /\ \A k \in DOMAIN q : Len(q) + i > k
  BY <1>2
<1>5. ASSUME \A i, j \in DOMAIN s : s[i].id = s[j].id => i = j,
             NEW j \in DOMAIN r, NEW k \in DOMAIN r, j \notin DOMAIN q, k \notin DOMAIN q, r[j].id = r[k].id
      PROVE  j = k
  <2>1. /\ j - Len(q) \in DOMAIN s /\ r[j] = s[j - Len(q)] /\ j \in Int
        /\ k - Len(q) \in DOMAIN s /\ r[k] = s[k - Len(q)] /\ k \in Int
    BY <1>1, <1>5
  <2>2. j - Len(q) = k - Len(q)
    BY <1>5, <2>1
  <2>3. QED
    BY <1>2, <2>1, <2>2
<1>6. QED
  BY <1>1, <1>3, <1>4, <1>5 DEF Extends

\* The rest of a queue.
LEMMA Rest ==
  ASSUME NEW S, NEW q \in Seq(S), q # <<>>, NEW r, r = Tail(q)
  PROVE  /\ r \in Seq(S) /\ 1 \in DOMAIN q /\ Head(q) = q[1]
         /\ \A k \in DOMAIN r : k + 1 \in DOMAIN q /\ r[k] = q[k + 1] /\ k \in Nat \ {0}
         /\ \A k \in DOMAIN q : k \in Nat \ {0} /\ (k # 1 => k - 1 \in DOMAIN r /\ r[k - 1] = q[k])
<1>1. /\ Len(q) \in Nat \ {0} /\ DOMAIN q = 1 .. Len(q)
  BY LenProperties, EmptySeq
<1>2. /\ r \in Seq(S) /\ Len(r) = Len(q) - 1
      /\ \A i \in 1 .. Len(r) : r[i] = q[i + 1]
  BY HeadTailProperties
<1>3. DOMAIN r = 1 .. Len(r)
  BY <1>2, LenProperties
<1>4. Head(q) = q[1]
  OBVIOUS
<1>5. QED
  BY <1>1, <1>2, <1>3, <1>4

\* A queue without one of its entries.
LEMMA Removed ==
  ASSUME NEW S, NEW q \in Seq(S), NEW i \in DOMAIN q, NEW r, r = RemoveAt(q, i)
  PROVE  /\ r \in Seq(S)
         /\ \A k \in DOMAIN r : LET j == IF k < i THEN k ELSE k + 1 IN
                k \in Int /\ j \in DOMAIN q /\ j # i /\ r[k] = q[j]
<1>1. /\ Len(q) \in Nat /\ DOMAIN q = 1 .. Len(q) /\ \A k \in 1 .. Len(q) : q[k] \in S
  BY LenProperties
<1>2. i \in 1 .. Len(q)
  BY <1>1
<1> DEFINE a == SubSeq(q, 1, i - 1)  b == SubSeq(q, i + 1, Len(q))
<1>3. /\ a \in Seq(S) /\ Len(a) = i - 1 /\ \A k \in 1 .. i - 1 : a[k] = q[k]
  <2>1. \A k \in 1 .. i - 1 : q[k] \in S
    BY <1>1, <1>2
  <2>2. /\ a \in Seq(S) /\ Len(a) = IF 1 <= i - 1 THEN i - 1 - 1 + 1 ELSE 0
        /\ \A k \in 1 .. i - 1 - 1 + 1 : a[k] = q[1 + k - 1]
    BY <1>2, <2>1, SubSeqProperties
  <2> HIDE DEF a
  <2>3. QED
    BY <1>2, <2>2
<1>4. /\ b \in Seq(S) /\ Len(b) = Len(q) - i /\ \A k \in 1 .. Len(q) - i : b[k] = q[i + k]
  <2>1. \A k \in i + 1 .. Len(q) : q[k] \in S
    BY <1>1, <1>2
  <2>2. /\ b \in Seq(S) /\ Len(b) = IF i + 1 <= Len(q) THEN Len(q) - (i + 1) + 1 ELSE 0
        /\ \A k \in 1 .. Len(q) - (i + 1) + 1 : b[k] = q[(i + 1) + k - 1]
    BY <1>1, <1>2, <2>1, SubSeqProperties
  <2> HIDE DEF b
  <2>3. Len(q) - (i + 1) + 1 = Len(q) - i /\ \A k \in 1 .. Len(q) - i : (i + 1) + k - 1 = i + k
    BY <1>1, <1>2
  <2>4. QED
    BY <1>1, <1>2, <2>2, <2>3
<1>5. r = a \o b
  BY DEF RemoveAt
<1> HIDE DEF a, b
<1>6. /\ r \in Seq(S) /\ Len(r) = Len(a) + Len(b)
      /\ \A k \in 1 .. Len(a) + Len(b) : r[k] = IF k <= Len(a) THEN a[k] ELSE b[k - Len(a)]
  <2>1. a \in Seq(S) /\ b \in Seq(S)
    BY <1>3, <1>4
  <2>2. /\ a \o b \in Seq(S) /\ Len(a \o b) = Len(a) + Len(b)
        /\ \A k \in 1 .. Len(a) + Len(b) : (a \o b)[k] = IF k <= Len(a) THEN a[k] ELSE b[k - Len(a)]
    BY <2>1, ConcatProperties
  <2>3. QED
    BY <1>5, <2>2
<1>7. DOMAIN r = 1 .. Len(q) - 1
  <2>1. DOMAIN r = 1 .. Len(r)
    BY <1>6, LenProperties
  <2>2. QED
    BY <1>1, <1>2, <1>3, <1>4, <1>6, <2>1
<1>8. ASSUME NEW k \in 1 .. Len(q) - 1
      PROVE  LET j == IF k < i THEN k ELSE k + 1 IN
               k \in Int /\ j \in DOMAIN q /\ j # i /\ r[k] = q[j]
  <2>1. CASE k < i
    BY <1>1, <1>2, <1>3, <1>4, <1>6, <2>1
  <2>2. CASE ~(k < i)
    <3>1. k - (i - 1) \in 1 .. Len(q) - i /\ i + (k - (i - 1)) = k + 1
      BY <1>1, <1>2, <2>2
    <3>2. b[k - (i - 1)] = q[k + 1]
      BY <1>4, <3>1
    <3>3. r[k] = b[k - (i - 1)]
      BY <1>1, <1>2, <1>3, <1>4, <1>6, <2>2
    <3>4. QED
      BY <1>1, <1>2, <2>2, <3>2, <3>3
  <2>3. QED
    BY <2>1, <2>2
<1>9. QED
  BY <1>6, <1>7, <1>8

\* The operations of a set, each once.
LEMMA Listed ==
  ASSUME NEW S \in SUBSET Ops
  PROVE  /\ Cardinality(S) \in Nat /\ SetToSeq(S) \in [1 .. Cardinality(S) -> S]
         /\ \A i, j \in 1 .. Cardinality(S) : SetToSeq(S)[i] = SetToSeq(S)[j] => i = j
         /\ \A o \in S : \E i \in 1 .. Cardinality(S) : SetToSeq(S)[i] = o
<1> DEFINE n == Cardinality(S)
<1>1. IsFiniteSet(S)
  BY OpsAssumption, FS_Subset
<1>2. n \in Nat /\ ExistsBijection(1 .. n, S)
  BY <1>1, FS_CardinalityType
<1>3. PICK f : f \in Bijection(1 .. n, S)
  BY <1>2 DEF ExistsBijection
<1>4. f \in [1 .. n -> S] /\ IsInjective(f)
  BY <1>3 DEF Bijection, Injection, IsInjective
<1>5. SetToSeq(S) \in [1 .. n -> S] /\ IsInjective(SetToSeq(S))
  BY <1>4 DEF SetToSeq
<1> HIDE DEF n
<1>6. \A i, j \in 1 .. n : SetToSeq(S)[i] = SetToSeq(S)[j] => i = j
  BY <1>5 DEF IsInjective
<1>7. SetToSeq(S) \in Injection(1 .. n, S)
  BY <1>5, <1>6 DEF Injection, IsInjective
<1>8. Cardinality(1 .. n) = n
  BY <1>2, FS_Interval DEF n
<1>9. SetToSeq(S) \in Surjection(1 .. n, S)
  BY <1>1, <1>7, <1>8, FS_Injection DEF n
<1>10. QED
  BY <1>2, <1>5, <1>6, <1>9 DEF Surjection, n

-----------------------------------------------------------------------------
(* The dialogs.                                                            *)

Ids == Ops \X (1 .. MaxAsks)
Message == [type : {"PROMPT"}, id : Ids, store : Stores, epoch : Nat \ {0}]
             \cup [type : {"CANCEL"}, id : Ids]
Response == [id : Ids, epoch : Nat \ {0}]
Dialog == [id : Ids, store : Stores, epoch : Nat \ {0}, conn : Nat]

QueueTypes ==
  /\ toUser \in [Conns -> Seq(Message)] /\ toHub \in [Conns -> Seq(Response)]
  /\ dialogs \in [Users -> Seq(Dialog)]

\* The prompts made so far, under whose ids everything in a queue is.
Known(id) == id \in Ids /\ id[2] <= asked[id[1]]
AllKnown ==
  /\ \A c \in Conns : \A k \in DOMAIN toUser[c] : Known(toUser[c][k].id)
  /\ \A c \in Conns : \A k \in DOMAIN toHub[c] : Known(toHub[c][k].id)
  /\ \A u \in Users : \A i \in DOMAIN dialogs[u] : Known(dialogs[u][i].id)
  /\ \A id \in expired : Known(id)
  /\ \A o \in Ops : prompt[o] # None => Known(IdOf(o))

\* A dialog came over a connection of its user, who has one at a time, and shows a
\* prompt that no other dialog of the user shows.
Received ==
  /\ \A u \in Users : \A i \in DOMAIN dialogs[u] :
        dialogs[u][i].conn \in Conns /\ user[dialogs[u][i].conn] = u
  /\ \A u \in Users : \A i, j \in DOMAIN dialogs[u] : dialogs[u][i].id = dialogs[u][j].id => i = j
  /\ \A a, b \in up : user[a] = user[b] => a = b

\* The deliveries that count: the first one of a prompt, or any to a user who never
\* reconnected.
Only(c) == \A b \in Conns : user[b] = user[c] => b = c
Counted(c, e) == e = 1 \/ Only(c)

Live(id, c) == \E o \in Ops : prompt[o] # None /\ IdOf(o) = id /\ context[CtxOf[o]] = c
CancelAfter(c, k, id) ==
  \E j \in DOMAIN toUser[c] : j > k /\ toUser[c][j].type = "CANCEL" /\ toUser[c][j].id = id
Settling(c, k, id) == id \in expired \/ Live(id, c) \/ CancelAfter(c, k, id)

NotSent(c, id) == \A k \in DOMAIN toUser[c] : toUser[c][k].type = "PROMPT" => toUser[c][k].id # id
NotShown(u, id) == \A i \in DOMAIN dialogs[u] : dialogs[u][i].id # id
NotAnswered(c, id) == \A i \in DOMAIN toHub[c] : toHub[c][i].id # id

\* A counted prompt on its way waits for its answer, or its dismissal comes after it; it is
\* sent once, and neither shown nor answered yet.
SentWell(c, k, id) ==
  /\ Settling(c, k, id)
  /\ \A j \in DOMAIN toUser[c] : toUser[c][j].type = "PROMPT" /\ toUser[c][j].id = id => j = k
  /\ NotShown(user[c], id) /\ NotAnswered(c, id)
SentOnce ==
  \A c \in up : \A k \in DOMAIN toUser[c] : \A id \in Ids :
     toUser[c][k].type = "PROMPT" /\ toUser[c][k].id = id /\ Counted(c, toUser[c][k].epoch) =>
       SentWell(c, k, id)

\* A counted dialog waits for its answer, or its dismissal is on its way; it is not sent
\* again, and not answered yet.
ShownWell(c, id) == Settling(c, 0, id) /\ NotSent(c, id) /\ NotAnswered(c, id)
ShownOnce ==
  \A c \in up : \A i \in DOMAIN dialogs[user[c]] : \A id \in Ids :
     dialogs[user[c]][i].id = id /\ dialogs[user[c]][i].conn = c
       /\ Counted(c, dialogs[user[c]][i].epoch) => ShownWell(c, id)

\* A prompt that is waited for has never been put to a user who has had one connection and
\* whom it is not routed to.
Elsewhere ==
  \A o \in Ops, d \in up : \A id \in Ids :
     prompt[o] # None /\ id = IdOf(o) /\ d # context[CtxOf[o]] /\ Only(d) =>
        NotSent(d, id) /\ NotShown(user[d], id) /\ NotAnswered(d, id)

\* A prompt that is waited for has neither timed out nor been cancelled.
Unsettled ==
  \A o \in Ops : prompt[o] # None =>
     /\ IdOf(o) \notin expired
     /\ \A c \in up : \A k \in DOMAIN toUser[c] :
           toUser[c][k].type = "CANCEL" => toUser[c][k].id # IdOf(o)

\* What the messages, the dialogs and the answers in flight have to do with the prompts.
Flow == SentOnce /\ ShownOnce /\ Elsewhere /\ Unsettled
Queues == QueueTypes /\ AllKnown /\ Received
DialogInv == RouteInv /\ Queues /\ Flow

\* The invariant is what DialogIsLive needs.
LEMMA DialogInvSuffices == DialogInv => DialogIsLive
<1> SUFFICES ASSUME DialogInv, NEW u \in Users, NEW c \in ConnOf(u), toUser[c] = <<>>,
                    NEW i \in DOMAIN dialogs[u], dialogs[u][i].conn = c,
                    dialogs[u][i].id \notin expired,
                    dialogs[u][i].epoch = 1 \/ \A b \in Conns : user[b] = u => b = c
             PROVE  Live(dialogs[u][i].id, c)
  BY DEF DialogIsLive, Live
<1>1. c \in up /\ user[c] = u
  BY DEF ConnOf
<1>2. Counted(c, dialogs[u][i].epoch)
  BY <1>1 DEF Counted, Only
<1>0. dialogs[u][i].id \in Ids
  BY LenProperties DEF DialogInv, Queues, AllKnown, Known
<1>3. Settling(c, 0, dialogs[u][i].id)
  BY <1>0, <1>1, <1>2 DEF DialogInv, Flow, ShownOnce, ShownWell
<1>4. ~CancelAfter(c, 0, dialogs[u][i].id)
  BY DEF CancelAfter
<1>5. QED
  BY <1>3, <1>4 DEF Settling

\* Steps after which no more is asked: the queues to the users grow by dismissals, dialogs
\* go, prompts are resolved.
LEMMA FewerStep ==
  ASSUME DialogInv, up' = up, user' = user, UNCHANGED setting, expired \subseteq expired',
         \A c \in up : \A k \in DOMAIN toUser[c] : k \in DOMAIN toUser'[c] /\ toUser'[c][k] = toUser[c][k],
         \A c \in up : \A k \in DOMAIN toUser'[c] :
            k \in DOMAIN toUser[c] \/ (toUser'[c][k].type = "CANCEL" /\ \A j \in Ops : prompt'[j] # None => toUser'[c][k].id # IdOf(j)'),
         \A u \in Users : \A i \in DOMAIN dialogs'[u] :
            \E j \in DOMAIN dialogs[u] : dialogs'[u][i] = dialogs[u][j],
         \A c \in up : \A i \in DOMAIN toHub'[c] :
            \/ \E j \in DOMAIN toHub[c] : toHub'[c][i].id = toHub[c][j].id
            \/ /\ \E j \in DOMAIN dialogs[user[c]] : toHub'[c][i].id = dialogs[user[c]][j].id
               /\ \A j \in DOMAIN dialogs'[user[c]] : toHub'[c][i].id # dialogs'[user[c]][j].id,
         \A o \in Ops : prompt'[o] # None =>
            /\ prompt[o] # None /\ asked'[o] = asked[o]
            /\ context'[CtxOf[o]] = context[CtxOf[o]] /\ IdOf(o) \notin expired',
         \A o \in Ops, c \in up : prompt[o] # None /\ prompt'[o] = None /\ context[CtxOf[o]] = c =>
            \/ IdOf(o) \in expired'
            \/ \E j \in DOMAIN toUser'[c] : /\ j \notin DOMAIN toUser[c] /\ toUser'[c][j].type = "CANCEL"
                                            /\ toUser'[c][j].id = IdOf(o)
                                            /\ j > 0 /\ \A k \in DOMAIN toUser[c] : j > k
            \/ \E j \in DOMAIN toHub[c] : toHub[c][j].id = IdOf(o)
  PROVE  Flow'
<1>1. up \subseteq Conns /\ Conns' = Conns /\ \A c \in up : user[c] \in Users
  BY LenProperties DEF DialogInv, RouteInv, RoutingTypes, Conns
<1>2. \A c \in up : Only(c)' <=> Only(c)
  BY <1>1 DEF Only
<1>i. \A o \in Ops : prompt'[o] # None => IdOf(o)' = IdOf(o)
  BY DEF IdOf
<1>4. ASSUME NEW c \in up, NEW k \in {0} \cup DOMAIN toUser[c], NEW id, Settling(c, k, id), NotAnswered(c, id)
      PROVE  Settling(c, k, id)'
  <2>1. CASE id \in expired
    BY <2>1 DEF Settling
  <2>2. CASE CancelAfter(c, k, id)
    <3>1. CancelAfter(c, k, id)'
      BY <2>2 DEF CancelAfter
    <3>2. QED
      BY <3>1 DEF Settling
  <2>3. CASE Live(id, c)
    <3>1. PICK o \in Ops : prompt[o] # None /\ IdOf(o) = id /\ context[CtxOf[o]] = c
      BY <2>3 DEF Live
    <3>2. CASE prompt'[o] # None
      <4>1. Live(id, c)'
        BY <1>i, <3>1, <3>2 DEF Live, CtxOf
      <4>2. QED
        BY <4>1 DEF Settling
    <3>3. CASE prompt'[o] = None
      <4>1. ~ \E j \in DOMAIN toHub[c] : toHub[c][j].id = IdOf(o)
        BY <1>4, <3>1 DEF NotAnswered
      <4>2. CASE IdOf(o) \in expired'
        BY <3>1, <4>2 DEF Settling
      <4>3. CASE \E j \in DOMAIN toUser'[c] : /\ j \notin DOMAIN toUser[c] /\ toUser'[c][j].type = "CANCEL"
                                            /\ toUser'[c][j].id = IdOf(o)
                                            /\ j > 0 /\ \A m \in DOMAIN toUser[c] : j > m
        <5>1. CancelAfter(c, k, id)'
          BY <3>1, <4>3 DEF CancelAfter
        <5>2. QED
          BY <5>1 DEF Settling
      <4>4. QED
        BY <3>1, <3>3, <4>1, <4>2, <4>3
    <3>4. QED
      BY <3>2, <3>3
  <2>4. QED
    BY <1>4, <2>1, <2>2, <2>3 DEF Settling
<1>5. \A u \in Users : \A id : NotShown(u, id) => NotShown(u, id)'
  BY DEF NotShown
<1>6. \A c \in up : \A id : NotSent(c, id) => NotSent(c, id)'
  BY DEF NotSent
<1>7. ASSUME NEW c \in up, NEW id, NotAnswered(c, id), NotShown(user[c], id) PROVE NotAnswered(c, id)'
  BY <1>7 DEF NotAnswered, NotShown
<1>8. ASSUME NEW c \in up, NEW id, NotAnswered(c, id),
             NEW i \in DOMAIN dialogs'[user[c]], dialogs'[user[c]][i].id = id
      PROVE  NotAnswered(c, id)'
  BY <1>8 DEF NotAnswered
<1>9. SentOnce'
  <2> SUFFICES ASSUME NEW c \in up, NEW k \in DOMAIN toUser'[c], NEW id \in Ids,
                      toUser'[c][k].type = "PROMPT", toUser'[c][k].id = id,
                      Counted(c, toUser[c][k].epoch)'
               PROVE  SentWell(c, k, id)'
    BY DEF SentOnce
  <2>1. k \in DOMAIN toUser[c] /\ toUser'[c][k] = toUser[c][k]
    OBVIOUS
  <2>2. Counted(c, toUser[c][k].epoch)
    BY <1>2, <2>1 DEF Counted
  <2>3. SentWell(c, k, id)
    BY <2>1, <2>2 DEF DialogInv, Flow, SentOnce
  <2>4. Settling(c, k, id)'
    BY <1>4, <2>1, <2>3 DEF SentWell
  <2>5. NotShown(user[c], id)' /\ NotAnswered(c, id)'
    BY <1>1, <1>5, <1>7, <2>3 DEF SentWell
  <2>6. \A j \in DOMAIN toUser'[c] : toUser'[c][j].type = "PROMPT" /\ toUser'[c][j].id = id => j = k
    BY <2>3 DEF SentWell
  <2>7. QED
    BY <2>4, <2>5, <2>6 DEF SentWell
<1>10. ShownOnce'
  <2> SUFFICES ASSUME NEW c \in up, NEW i \in DOMAIN dialogs'[user[c]], NEW id \in Ids,
                      dialogs'[user[c]][i].id = id, dialogs'[user[c]][i].conn = c,
                      Counted(c, dialogs[user[c]][i].epoch)'
               PROVE  ShownWell(c, id)'
    BY DEF ShownOnce
  <2>1. PICK j \in DOMAIN dialogs[user[c]] : dialogs'[user[c]][i] = dialogs[user[c]][j]
    BY <1>1
  <2>2. Counted(c, dialogs[user[c]][j].epoch)
    BY <1>2, <2>1 DEF Counted
  <2>3. ShownWell(c, id)
    BY <2>1, <2>2 DEF DialogInv, Flow, ShownOnce
  <2>4. Settling(c, 0, id)'
    BY <1>4, <2>3 DEF ShownWell
  <2>5. QED
    BY <1>6, <1>8, <2>3, <2>4 DEF ShownWell
<1>11. Elsewhere'
  <2> SUFFICES ASSUME NEW o \in Ops, NEW d \in up, NEW id \in Ids,
                      prompt'[o] # None, id = IdOf(o)', d # context'[CtxOf[o]], Only(d)'
               PROVE  NotSent(d, id)' /\ NotShown(user[d], id)' /\ NotAnswered(d, id)'
    BY DEF Elsewhere, CtxOf
  <2>1. prompt[o] # None /\ d # context[CtxOf[o]] /\ Only(d) /\ id = IdOf(o)
    BY <1>2, <1>i
  <2>2. NotSent(d, id) /\ NotShown(user[d], id) /\ NotAnswered(d, id)
    BY <2>1 DEF DialogInv, Flow, Elsewhere
  <2>3. QED
    BY <1>1, <1>5, <1>6, <1>7, <2>2
<1>12. Unsettled'
  <2> SUFFICES ASSUME NEW o \in Ops, prompt'[o] # None
               PROVE  /\ IdOf(o)' \notin expired'
                      /\ \A c \in up : \A k \in DOMAIN toUser'[c] :
                           toUser'[c][k].type = "CANCEL" => toUser'[c][k].id # IdOf(o)'
    BY DEF Unsettled
  <2>1. prompt[o] # None /\ IdOf(o)' = IdOf(o) /\ IdOf(o)' \notin expired'
    BY <1>i
  <2>2. \A c \in up : \A k \in DOMAIN toUser[c] :
           toUser[c][k].type = "CANCEL" => toUser[c][k].id # IdOf(o)
    BY <2>1 DEF DialogInv, Flow, Unsettled
  <2>3. QED
    BY <2>1, <2>2
<1>13. QED
  BY <1>9, <1>10, <1>11, <1>12 DEF Flow

\* What is settling for a prompt that is waited for is at its route.
LEMMA SettlesAtRoute ==
  ASSUME DialogInv, NEW c \in up, NEW k, NEW o \in Ops, NEW id,
         prompt[o] # None, id = IdOf(o), Settling(c, k, id)
  PROVE  context[CtxOf[o]] = c
<1>1. id \notin expired /\ ~CancelAfter(c, k, id)
  BY DEF DialogInv, Flow, Unsettled, CancelAfter
<1>2. PICK p \in Ops : IdOf(p) = id /\ context[CtxOf[p]] = c
  BY <1>1 DEF Settling, Live
<1>3. p = o
  BY <1>2 DEF IdOf
<1>4. QED
  BY <1>2, <1>3

\* The step puts a new prompt at place k of the queue to c, or one that had another route.
AsksAnew(c, k) ==
  /\ toUser'[c][k].type = "PROMPT"
  /\ \E o \in Ops :
       /\ toUser'[c][k].id = <<o, asked'[o]>> /\ prompt'[o] # None /\ context'[CtxOf[o]] = c
       /\ \/ asked'[o] > asked[o]
          \/ /\ prompt[o] # None /\ asked'[o] = asked[o] /\ context[CtxOf[o]] # c
             /\ toUser'[c][k].epoch # 1

\* Steps that put questions to connected users: a new prompt, or prompts that leave a
\* route that is gone.
LEMMA SendStep ==
  ASSUME DialogInv, asked' \in [Ops -> Nat], up' \subseteq up, user' = user, UNCHANGED setting, expired' = expired,
         dialogs' = dialogs, \A c \in up' : toHub'[c] = toHub[c],
         \A c \in up' : \A k \in DOMAIN toUser[c] : k \in DOMAIN toUser'[c] /\ toUser'[c][k] = toUser[c][k],
         \A c \in up' : \A k \in DOMAIN toUser'[c] : k \notin DOMAIN toUser[c] => AsksAnew(c, k),
         \A c \in up' : \A j, k \in DOMAIN toUser'[c] :
            j \notin DOMAIN toUser[c] /\ k \notin DOMAIN toUser[c] /\ toUser'[c][j].id = toUser'[c][k].id => j = k,
         \A o \in Ops : prompt'[o] # None =>
            \/ asked'[o] > asked[o]
            \/ /\ prompt[o] # None /\ asked'[o] = asked[o]
               /\ context'[CtxOf[o]] = context[CtxOf[o]] \/ context[CtxOf[o]] \notin up',
         \A o \in Ops : prompt[o] # None /\ context[CtxOf[o]] \in up' =>
            prompt'[o] # None /\ asked'[o] = asked[o] /\ context'[CtxOf[o]] = context[CtxOf[o]]
  PROVE  Flow'
<1>0. asked \in [Ops -> Nat]
  BY PromptAssumption DEF DialogInv, RouteInv, RoutingTypes
<1>1. up \subseteq Conns /\ Conns' = Conns /\ \A c \in up : user[c] \in Users
  BY LenProperties DEF DialogInv, RouteInv, RoutingTypes, Conns
<1>2. \A c \in up : Only(c)' <=> Only(c)
  BY <1>1 DEF Only
<1>f. \A o \in Ops : asked'[o] > asked[o] => ~Known(<<o, asked'[o]>>)
  BY <1>0 DEF Known
<1>k. /\ \A c \in up : \A k \in DOMAIN toUser[c] : Known(toUser[c][k].id)
      /\ \A c \in up : \A k \in DOMAIN toHub[c] : Known(toHub[c][k].id)
      /\ \A c \in up : \A i \in DOMAIN dialogs[user[c]] : Known(dialogs[user[c]][i].id)
      /\ \A id \in expired : Known(id)
  BY <1>1 DEF DialogInv, Queues, AllKnown
<1>4. ASSUME NEW c \in up', NEW k, NEW id, Settling(c, k, id)
      PROVE  Settling(c, k, id)'
  <2>1. CASE id \in expired
    BY <2>1 DEF Settling
  <2>2. CASE CancelAfter(c, k, id)
    <3>1. CancelAfter(c, k, id)'
      BY <2>2 DEF CancelAfter
    <3>2. QED
      BY <3>1 DEF Settling
  <2>3. CASE Live(id, c)
    <3>1. PICK o \in Ops : prompt[o] # None /\ IdOf(o) = id /\ context[CtxOf[o]] = c
      BY <2>3 DEF Live
    <3>2. prompt'[o] # None /\ IdOf(o)' = id /\ context'[CtxOf[o]] = c
      BY <3>1 DEF IdOf
    <3>3. Live(id, c)'
      BY <3>2 DEF Live, CtxOf
    <3>4. QED
      BY <3>3 DEF Settling
  <2>4. QED
    BY <1>4, <2>1, <2>2, <2>3 DEF Settling
<1>5. ASSUME NEW c \in up', NEW k, NEW id, Settling(c, k, id), Known(id),
             NEW j \in DOMAIN toUser'[c], toUser'[c][j].id = id
      PROVE  j \in DOMAIN toUser[c]
  <2> SUFFICES ASSUME j \notin DOMAIN toUser[c] PROVE FALSE
    OBVIOUS
  <2>1. PICK o \in Ops :
                 /\ toUser'[c][j].id = <<o, asked'[o]>> /\ prompt'[o] # None /\ context'[CtxOf[o]] = c
                 /\ \/ asked'[o] > asked[o]
                    \/ /\ prompt[o] # None /\ asked'[o] = asked[o] /\ context[CtxOf[o]] # c
                       /\ toUser'[c][j].epoch # 1
    BY DEF AsksAnew
  <2>2. prompt[o] # None /\ id = IdOf(o) /\ context[CtxOf[o]] # c
    BY <1>f, <1>5, <2>1 DEF IdOf
  <2>3. QED
    BY <1>5, <2>2, SettlesAtRoute
<1>6. \A c \in up' : \A id : NotAnswered(c, id)' <=> NotAnswered(c, id)
  BY DEF NotAnswered
<1>7. \A u, id : NotShown(u, id)' <=> NotShown(u, id)
  BY DEF NotShown
<1>8. ASSUME NEW c \in up, NEW id, ~Known(id)
      PROVE  NotSent(c, id) /\ NotShown(user[c], id) /\ NotAnswered(c, id)
  <2>1. NotSent(c, id)
    BY <1>k, <1>8 DEF NotSent
  <2>2. NotShown(user[c], id)
    BY <1>k, <1>8 DEF NotShown
  <2>3. NotAnswered(c, id)
    BY <1>k, <1>8 DEF NotAnswered
  <2>4. QED
    BY <2>1, <2>2, <2>3
<1>9. SentOnce'
  <2> SUFFICES ASSUME NEW c \in up', NEW k \in DOMAIN toUser'[c], NEW id \in Ids,
                      toUser'[c][k].type = "PROMPT", toUser'[c][k].id = id,
                      Counted(c, toUser[c][k].epoch)'
               PROVE  SentWell(c, k, id)'
    BY DEF SentOnce
  <2>1. CASE k \in DOMAIN toUser[c]
    <3>1. toUser'[c][k] = toUser[c][k]
      BY <2>1
    <3>2. Counted(c, toUser[c][k].epoch)
      BY <1>2, <3>1 DEF Counted
    <3>3. SentWell(c, k, id) /\ Known(id)
      BY <1>k, <2>1, <3>1, <3>2 DEF DialogInv, Flow, SentOnce
    <3>4. Settling(c, k, id)'
      BY <1>4, <3>3 DEF SentWell
    <3>5. NotShown(user[c], id)' /\ NotAnswered(c, id)'
      BY <1>6, <1>7, <3>3 DEF SentWell
    <3>6. \A j \in DOMAIN toUser'[c] : toUser'[c][j].id = id => j \in DOMAIN toUser[c]
      BY <1>5, <3>3 DEF SentWell
    <3>7. \A j \in DOMAIN toUser'[c] : toUser'[c][j].type = "PROMPT" /\ toUser'[c][j].id = id => j = k
      BY <3>3, <3>6 DEF SentWell
    <3>8. QED
      BY <3>4, <3>5, <3>7 DEF SentWell
  <2>2. CASE k \notin DOMAIN toUser[c]
    <3>1. PICK o \in Ops :
            /\ toUser'[c][k].id = <<o, asked'[o]>> /\ prompt'[o] # None /\ context'[CtxOf[o]] = c
            /\ \/ asked'[o] > asked[o]
               \/ /\ prompt[o] # None /\ asked'[o] = asked[o] /\ context[CtxOf[o]] # c
                  /\ toUser'[c][k].epoch # 1
      <4>1. AsksAnew(c, k)
        BY <2>2
      <4>2. QED
        BY <4>1 DEF AsksAnew
    <3>2. Live(id, c)'
      BY <3>1 DEF Live, CtxOf, IdOf
    <3>3. NotSent(c, id) /\ NotShown(user[c], id) /\ NotAnswered(c, id)
      <4>1. CASE asked'[o] > asked[o]
        BY <1>f, <1>8, <3>1, <4>1
      <4>2. CASE ~(asked'[o] > asked[o])
        <5>1. Only(c) /\ id = IdOf(o)
          BY <1>2, <3>1, <4>2 DEF Counted, IdOf
        <5>2. QED
          BY <3>1, <4>2, <5>1 DEF DialogInv, Flow, Elsewhere
      <4>3. QED
        BY <4>1, <4>2
    <3>4. \A j \in DOMAIN toUser'[c] : toUser'[c][j].type = "PROMPT" /\ toUser'[c][j].id = id => j = k
      BY <2>2, <3>3 DEF NotSent
    <3>5. QED
      BY <1>6, <1>7, <3>2, <3>3, <3>4 DEF SentWell, Settling
  <2>3. QED
    BY <2>1, <2>2
<1>10. ShownOnce'
  <2> SUFFICES ASSUME NEW c \in up', NEW i \in DOMAIN dialogs[user[c]], NEW id \in Ids,
                      dialogs[user[c]][i].id = id, dialogs[user[c]][i].conn = c,
                      Counted(c, dialogs[user[c]][i].epoch)'
               PROVE  ShownWell(c, id)'
    BY DEF ShownOnce
  <2>2. Counted(c, dialogs[user[c]][i].epoch)
    BY <1>2 DEF Counted
  <2>3. ShownWell(c, id) /\ Known(id)
    BY <1>k, <2>2 DEF DialogInv, Flow, ShownOnce
  <2>4. Settling(c, 0, id)'
    BY <1>4, <2>3 DEF ShownWell
  <2>5. \A j \in DOMAIN toUser'[c] : toUser'[c][j].id = id => j \in DOMAIN toUser[c]
    BY <1>5, <2>3 DEF ShownWell
  <2>6. NotSent(c, id)'
    BY <2>3, <2>5 DEF ShownWell, NotSent
  <2>7. QED
    BY <1>6, <2>3, <2>4, <2>6 DEF ShownWell
<1>11. Elsewhere'
  <2> SUFFICES ASSUME NEW o \in Ops, NEW d \in up', NEW id \in Ids,
                      prompt'[o] # None, id = IdOf(o)', d # context'[CtxOf[o]], Only(d)'
               PROVE  NotSent(d, id)' /\ NotShown(user[d], id)' /\ NotAnswered(d, id)'
    BY DEF Elsewhere, CtxOf
  <2>0. id = <<o, asked'[o]>>
    BY DEF IdOf
  <2>1. NotSent(d, id) /\ NotShown(user[d], id) /\ NotAnswered(d, id)
    <3>1. CASE asked'[o] > asked[o]
      BY <1>f, <1>8, <2>0, <3>1
    <3>2. CASE ~(asked'[o] > asked[o])
      <4>1. prompt[o] # None /\ id = IdOf(o) /\ d # context[CtxOf[o]] /\ Only(d)
        BY <1>2, <2>0, <3>2 DEF IdOf
      <4>2. QED
        BY <4>1 DEF DialogInv, Flow, Elsewhere
    <3>3. QED
      BY <3>1, <3>2
  <2>2. ASSUME NEW k \in DOMAIN toUser'[d], toUser'[d][k].id = id PROVE k \in DOMAIN toUser[d]
    BY <2>0, <2>2 DEF AsksAnew
  <2>3. NotSent(d, id)'
    BY <2>1, <2>2 DEF NotSent
  <2>4. QED
    BY <1>6, <1>7, <2>1, <2>3
<1>12. Unsettled'
  <2> SUFFICES ASSUME NEW o \in Ops, prompt'[o] # None
               PROVE  /\ <<o, asked'[o]>> \notin expired
                      /\ \A c \in up' : \A k \in DOMAIN toUser'[c] :
                           toUser'[c][k].type = "CANCEL" => toUser'[c][k].id # <<o, asked'[o]>>
    BY DEF Unsettled, IdOf
  <2>1. CASE asked'[o] > asked[o]
    BY <1>f, <1>k, <2>1 DEF AsksAnew
  <2>2. CASE ~(asked'[o] > asked[o])
    <3>1. /\ <<o, asked[o]>> \notin expired
          /\ \A c \in up : \A k \in DOMAIN toUser[c] :
               toUser[c][k].type = "CANCEL" => toUser[c][k].id # <<o, asked[o]>>
      BY <2>2 DEF DialogInv, Flow, Unsettled, IdOf
    <3>2. QED
      BY <2>2, <3>1 DEF AsksAnew
  <2>3. QED
    BY <2>1, <2>2
<1>13. QED
  BY <1>9, <1>10, <1>11, <1>12 DEF Flow

\* A message is handled: its dialog is queued, or goes.  Other users see nothing of it.
LEMMA DeliverFlow ==
  ASSUME DialogInv, NEW c \in up, toUser[c] # <<>>,
         UNCHANGED <<connVars, context, opVars, prompt, expired, toHub>>,
         toUser' = [toUser EXCEPT ![c] = Tail(@)],
         dialogs' \in [Users -> Seq(Dialog)],
         \A v \in Users : v # user[c] => dialogs'[v] = dialogs[v],
         \/ /\ Head(toUser[c]).type = "PROMPT"
            /\ \A i \in DOMAIN dialogs'[user[c]] :
                 \/ \E j \in DOMAIN dialogs[user[c]] : dialogs'[user[c]][i] = dialogs[user[c]][j]
                 \/ /\ dialogs'[user[c]][i].id = Head(toUser[c]).id
                    /\ dialogs'[user[c]][i].epoch = Head(toUser[c]).epoch
         \/ /\ Head(toUser[c]).type = "CANCEL"
            /\ \A i \in DOMAIN dialogs'[user[c]] :
                 /\ dialogs'[user[c]][i].id # Head(toUser[c]).id
                 /\ \E j \in DOMAIN dialogs[user[c]] : dialogs'[user[c]][i] = dialogs[user[c]][j]
  PROVE  Flow'
<1> DEFINE q == toUser[c]  r == toUser'[c]  m == Head(toUser[c])  u == user[c]
<1>1. /\ up \subseteq Conns /\ Conns' = Conns /\ up' = up /\ user' = user /\ asked' = asked
      /\ \A d \in up : user[d] \in Users
      /\ CtxOf' = CtxOf
  BY LenProperties DEF DialogInv, RouteInv, RoutingTypes, Conns, connVars, opVars, CtxOf
<1>2. \A d : Only(d)' <=> Only(d)
  BY <1>1 DEF Only
<1>3. toUser \in [Conns -> Seq(Message)]
  BY DEF DialogInv, Queues, QueueTypes
<1>4. q \in Seq(Message) /\ r = Tail(q) /\ \A d \in up : d # c => toUser'[d] = toUser[d]
  BY <1>1, <1>3
<1>6. \A d \in up : d # c => user[d] # u
  BY DEF DialogInv, Queues, Received
<1>a. q # <<>> /\ m = Head(q)
  OBVIOUS
<1> HIDE DEF q, r, m, u
<1>5. /\ r \in Seq(Message) /\ 1 \in DOMAIN q /\ m = q[1]
      /\ \A k \in DOMAIN r : k + 1 \in DOMAIN q /\ r[k] = q[k + 1] /\ k \in Nat \ {0}
      /\ \A k \in DOMAIN q : k \in Nat \ {0} /\ (k # 1 => k - 1 \in DOMAIN r /\ r[k - 1] = q[k])
  BY <1>4, <1>a, Rest
<1>7. \A d, id : Live(id, d)' <=> Live(id, d)
  BY <1>1 DEF Live, IdOf
<1>8. ASSUME NEW d \in up, NEW k, NEW id, d # c
      PROVE  Settling(d, k, id)' <=> Settling(d, k, id)
  BY <1>4, <1>7, <1>8 DEF Settling, CancelAfter
<1>9. ASSUME NEW k \in Nat, NEW id, Settling(c, k + 1, id)
      PROVE  Settling(c, k, id)'
  <2>1. CASE CancelAfter(c, k + 1, id)
    <3>1. PICK j \in DOMAIN q : j > k + 1 /\ q[j].type = "CANCEL" /\ q[j].id = id
      BY <2>1 DEF CancelAfter, q
    <3>2. j - 1 \in DOMAIN r /\ r[j - 1] = q[j] /\ j - 1 > k
      BY <1>5, <3>1
    <3>3. CancelAfter(c, k, id)'
      BY <3>1, <3>2 DEF CancelAfter, r
    <3>4. QED
      BY <3>3 DEF Settling
  <2>2. CASE ~CancelAfter(c, k + 1, id)
    BY <1>7, <1>9, <2>2 DEF Settling
  <2>3. QED
    BY <2>1, <2>2
<1>10. ASSUME NEW id, Settling(c, 0, id), m.type = "CANCEL" => m.id # id
       PROVE  Settling(c, 0, id)'
  <2>1. CASE CancelAfter(c, 0, id)
    <3>1. PICK j \in DOMAIN q : j > 0 /\ q[j].type = "CANCEL" /\ q[j].id = id
      BY <2>1 DEF CancelAfter, q
    <3>2. j # 1
      BY <1>5, <1>10, <3>1
    <3>3. j - 1 \in DOMAIN r /\ r[j - 1] = q[j] /\ j - 1 > 0
      BY <1>5, <3>1, <3>2
    <3>4. CancelAfter(c, 0, id)'
      BY <3>1, <3>3 DEF CancelAfter, r
    <3>5. QED
      BY <3>4 DEF Settling
  <2>2. CASE ~CancelAfter(c, 0, id)
    BY <1>7, <1>10, <2>2 DEF Settling
  <2>3. QED
    BY <2>1, <2>2
<1>11. \A d, id : NotAnswered(d, id)' <=> NotAnswered(d, id)
  BY DEF NotAnswered
<1>12. \A d \in up : \A id : NotSent(d, id) => NotSent(d, id)'
  <2> SUFFICES ASSUME NEW d \in up, NEW id, NotSent(d, id) PROVE NotSent(d, id)'
    OBVIOUS
  <2>1. CASE d = c
    <3>1. \A k \in DOMAIN q : q[k].type = "PROMPT" => q[k].id # id
      BY <2>1 DEF NotSent, q
    <3>2. \A k \in DOMAIN r : r[k].type = "PROMPT" => r[k].id # id
      BY <1>5, <3>1
    <3>3. QED
      BY <2>1, <3>2 DEF NotSent, r
  <2>2. CASE d # c
    BY <1>4, <2>2 DEF NotSent
  <2>3. QED
    BY <2>1, <2>2
<1>13. ASSUME NEW d \in up, d # c, NEW id PROVE NotShown(user[d], id)' <=> NotShown(user[d], id)
  BY <1>1, <1>6, <1>13 DEF NotShown, u
<1>14. ASSUME NEW id, NotShown(u, id), m.type = "PROMPT" => m.id # id PROVE NotShown(u, id)'
  BY <1>14, <1>1 DEF NotShown, u, m
<1>15. SentOnce'
  <2> SUFFICES ASSUME NEW d \in up, NEW k \in DOMAIN toUser'[d], NEW id \in Ids,
                      toUser'[d][k].type = "PROMPT", toUser'[d][k].id = id,
                      Counted(d, toUser[d][k].epoch)'
               PROVE  SentWell(d, k, id)'
    BY <1>1 DEF SentOnce
  <2>1. CASE d # c
    <3>1. toUser'[d] = toUser[d]
      BY <1>4, <2>1
    <3>2. SentWell(d, k, id)
      BY <1>2, <3>1 DEF DialogInv, Flow, SentOnce, Counted
    <3>3. Settling(d, k, id)' /\ NotShown(user[d], id)' /\ NotAnswered(d, id)'
      BY <1>8, <1>11, <1>13, <2>1, <3>2 DEF SentWell
    <3>4. QED
      BY <3>1, <3>2, <3>3 DEF SentWell
  <2>2. CASE d = c
    <3>1. k \in DOMAIN r /\ r[k].type = "PROMPT" /\ r[k].id = id
      BY <2>2 DEF r
    <3>2. k + 1 \in DOMAIN q /\ q[k + 1].type = "PROMPT" /\ q[k + 1].id = id /\ k \in Nat \ {0}
      BY <1>5, <3>1
    <3>3. Counted(c, q[k + 1].epoch)
      BY <1>2, <1>5, <2>2, <3>1 DEF Counted, r
    <3>4. SentWell(c, k + 1, id)
      BY <3>2, <3>3 DEF DialogInv, Flow, SentOnce, q
    <3>5. Settling(c, k, id)'
      BY <1>9, <3>2, <3>4 DEF SentWell
    <3>6. m.type = "PROMPT" => m.id # id
      BY <1>5, <3>2, <3>4 DEF SentWell, q
    <3>7. NotShown(u, id)' /\ NotAnswered(c, id)'
      BY <1>11, <1>14, <3>4, <3>6 DEF SentWell, u
    <3>8. \A j \in DOMAIN r : r[j].type = "PROMPT" /\ r[j].id = id => j = k
      <4>1. \A j \in DOMAIN q : q[j].type = "PROMPT" /\ q[j].id = id => j = k + 1
        BY <3>4 DEF SentWell, q
      <4>2. QED
        BY <1>5, <3>2, <4>1
    <3>9. QED
      BY <2>2, <3>5, <3>7, <3>8 DEF SentWell, r, u
  <2>3. QED
    BY <2>1, <2>2
<1>16. ShownOnce'
  <2> SUFFICES ASSUME NEW d \in up, NEW i \in DOMAIN dialogs'[user[d]], NEW id \in Ids,
                      dialogs'[user[d]][i].id = id, dialogs'[user[d]][i].conn = d,
                      Counted(d, dialogs[user[d]][i].epoch)'
               PROVE  ShownWell(d, id)'
    BY <1>1 DEF ShownOnce
  <2>1. CASE d # c
    <3>1. dialogs'[user[d]] = dialogs[user[d]]
      BY <1>1, <1>6, <2>1 DEF u
    <3>2. ShownWell(d, id)
      BY <1>1, <1>2, <3>1 DEF DialogInv, Flow, ShownOnce, Counted
    <3>3. QED
      BY <1>8, <1>11, <1>12, <2>1, <3>2 DEF ShownWell
  <2>2. CASE d = c /\ \E j \in DOMAIN dialogs[u] : dialogs'[u][i] = dialogs[u][j]
    <3>1. PICK j \in DOMAIN dialogs[u] : dialogs'[u][i] = dialogs[u][j]
      BY <2>2
    <3>2. ShownWell(c, id)
      BY <1>1, <1>2, <2>2, <3>1 DEF DialogInv, Flow, ShownOnce, Counted, u
    <3>3. m.type = "CANCEL" => m.id # id
      BY <2>2 DEF m, u
    <3>4. QED
      BY <1>10, <1>11, <1>12, <2>2, <3>2, <3>3 DEF ShownWell
  <2>3. CASE d = c /\ ~ \E j \in DOMAIN dialogs[u] : dialogs'[u][i] = dialogs[u][j]
    <3>1. m.type = "PROMPT" /\ dialogs'[u][i].id = m.id /\ dialogs'[u][i].epoch = m.epoch
      BY <2>3 DEF m, u
    <3>2. Counted(c, q[1].epoch) /\ q[1].id = id /\ q[1].type = "PROMPT"
      BY <1>1, <1>2, <1>5, <2>3, <3>1 DEF Counted, u
    <3>3. SentWell(c, 1, id)
      BY <1>5, <3>2 DEF DialogInv, Flow, SentOnce, q
    <3>4. Settling(c, 0, id)'
      BY <1>9, <3>3 DEF SentWell
    <3>5. NotSent(c, id)'
      <4>1. \A k \in DOMAIN q : q[k].type = "PROMPT" /\ q[k].id = id => k = 1
        BY <3>3 DEF SentWell, q
      <4>2. \A k \in DOMAIN r : r[k].type = "PROMPT" => r[k].id # id
        BY <1>5, <4>1
      <4>3. QED
        BY <4>2 DEF NotSent, r
    <3>6. QED
      BY <1>11, <2>3, <3>3, <3>4, <3>5 DEF ShownWell, SentWell
  <2>4. QED
    BY <2>1, <2>2, <2>3
<1>17. Elsewhere'
  <2> SUFFICES ASSUME NEW o \in Ops, NEW d \in up, NEW id \in Ids,
                      prompt[o] # None, id = IdOf(o), d # context[CtxOf[o]], Only(d)
               PROVE  NotSent(d, id)' /\ NotShown(user[d], id)' /\ NotAnswered(d, id)'
    BY <1>1, <1>2 DEF Elsewhere, IdOf
  <2>1. NotSent(d, id) /\ NotShown(user[d], id) /\ NotAnswered(d, id)
    BY DEF DialogInv, Flow, Elsewhere
  <2>2. NotShown(user[d], id)'
    <3>1. CASE d # c
      BY <1>13, <2>1, <3>1
    <3>2. CASE d = c
      <4>1. m.type = "PROMPT" => m.id # id
        BY <1>5, <2>1, <3>2 DEF NotSent, q
      <4>2. QED
        BY <1>1, <1>14, <2>1, <3>2, <4>1 DEF u
    <3>3. QED
      BY <3>1, <3>2
  <2>3. QED
    BY <1>11, <1>12, <2>1, <2>2
<1>18. Unsettled'
  <2> SUFFICES ASSUME NEW o \in Ops, prompt[o] # None, NEW d \in up, NEW k \in DOMAIN toUser'[d],
                      toUser'[d][k].type = "CANCEL"
               PROVE  toUser'[d][k].id # IdOf(o)
    <3>1. \A o \in Ops : prompt[o] # None => IdOf(o) \notin expired /\ IdOf(o)' = IdOf(o)
      BY <1>1 DEF DialogInv, Flow, Unsettled, IdOf
    <3>2. prompt' = prompt /\ expired' = expired /\ up' = up
      BY <1>1
    <3>3. QED
      BY <3>1, <3>2 DEF Unsettled
  <2>1. \A j \in DOMAIN toUser[d] : toUser[d][j].type = "CANCEL" => toUser[d][j].id # IdOf(o)
    BY DEF DialogInv, Flow, Unsettled
  <2>2. CASE d # c
    BY <1>4, <2>1, <2>2
  <2>3. CASE d = c
    <3>1. k \in DOMAIN r /\ r[k].type = "CANCEL"
      BY <2>3 DEF r
    <3>2. q[k + 1].id # IdOf(o) /\ r[k] = q[k + 1]
      BY <1>5, <2>1, <2>3, <3>1 DEF q
    <3>3. QED
      BY <2>3, <3>2 DEF r
  <2>4. QED
    BY <2>2, <2>3
<1>19. QED
  BY <1>15, <1>16, <1>17, <1>18 DEF Flow

-----------------------------------------------------------------------------
(* The actions.                                                            *)

\* The invariant and its types, as the steps below use them.
LEMMA InvFacts ==
  ASSUME DialogInv
  PROVE  /\ RoutingTypes /\ NoOrphanPrompt /\ asked \in [Ops -> Nat] /\ up \subseteq Conns
         /\ Conns \subseteq Nat /\ None \notin up /\ \A c \in Conns : user[c] \in Users
         /\ \A o \in Ops : CtxOf[o] \in Contexts
         /\ toUser \in [Conns -> Seq(Message)] /\ toHub \in [Conns -> Seq(Response)]
         /\ dialogs \in [Users -> Seq(Dialog)]
<1>1. RoutingTypes /\ NoOrphanPrompt /\ QueueTypes
  BY DEF DialogInv, RouteInv, Queues
<1>2. asked \in [Ops -> Nat] /\ up \subseteq Conns /\ \A o \in Ops : CtxOf[o] \in Contexts
  BY <1>1, PromptAssumption DEF RoutingTypes, CtxOf
<1>3. \A c \in Conns : user[c] \in Users
  BY <1>1, LenProperties DEF RoutingTypes, Conns
<1>4. QED
  BY <1>1, <1>2, <1>3, ConnNumbers DEF QueueTypes

\* The ids in the queues stay known.
LEMMA KnownStays ==
  ASSUME asked \in [Ops -> Nat], asked' \in [Ops -> Nat], \A o \in Ops : asked[o] <= asked'[o]
  PROVE  \A id : Known(id) => Known(id)'
BY DEF Known, Ids

\* Steps after which no more is asked and no dialog has gone keep the types of the queues.
LEMMA QueuesKept ==
  ASSUME DialogInv, QueueTypes', UNCHANGED <<user, up, dialogs>>,
         asked' \in [Ops -> Nat], \A o \in Ops : asked[o] <= asked'[o],
         \A c \in Conns : \A k \in DOMAIN toUser'[c] : Known(toUser'[c][k].id),
         \A c \in Conns : \A k \in DOMAIN toHub'[c] : \E j \in DOMAIN toHub[c] : toHub'[c][k].id = toHub[c][j].id,
         \A id \in expired' : Known(id),
         \A o \in Ops : prompt'[o] # None => prompt[o] # None /\ asked'[o] = asked[o]
  PROVE  Queues'
<1>1. \A id : Known(id) => Known(id)'
  BY InvFacts, KnownStays
<1>2. AllKnown /\ Received /\ Conns' = Conns
  BY DEF DialogInv, Queues, Conns
<1>3. \A c \in Conns : \A k \in DOMAIN toUser'[c] : Known(toUser[c][k].id)'
  BY <1>1
<1>4. \A c \in Conns : \A k \in DOMAIN toHub'[c] : Known(toHub[c][k].id)'
  BY <1>1, <1>2 DEF AllKnown
<1>5. \A u \in Users : \A i \in DOMAIN dialogs'[u] : Known(dialogs[u][i].id)'
  BY <1>1, <1>2 DEF AllKnown
<1>6. \A id \in expired' : Known(id)'
  BY <1>1
<1>7. \A o \in Ops : prompt'[o] # None => Known(IdOf(o))'
  BY <1>1, <1>2 DEF AllKnown, IdOf
<1>8. AllKnown'
  BY <1>2, <1>3, <1>4, <1>5, <1>6, <1>7 DEF AllKnown
<1>9. Received'
  BY <1>2 DEF Received
<1>10. QED
  BY <1>8, <1>9 DEF Queues

\* A start, a lease and its end: nobody is asked and no question is moved.
LEMMA QuietStep ==
  ASSUME DialogInv, UNCHANGED <<setting, user, up, asked, prompt, expired, toUser, toHub, dialogs>>,
         \A o \in Ops : prompt[o] # None => context'[CtxOf[o]] = context[CtxOf[o]]
  PROVE  Queues' /\ Flow'
<1>1. Queues'
  BY DEF DialogInv, Queues, QueueTypes, AllKnown, Received, Known, Conns, IdOf
<1>2. \A o \in Ops : prompt[o] # None => IdOf(o) \notin expired
  BY DEF DialogInv, Flow, Unsettled
<1>3. Flow'
  BY <1>2, FewerStep DEF IdOf
<1>4. QED
  BY <1>1, <1>3

\* An operation starts in a context that has no prompt.
LEMMA StartDialogs ==
  ASSUME DialogInv, NEW o \in Ops, Start(o)
  PROVE  Queues' /\ Flow'
<1>1. RouteInv /\ RoutingTypes
  BY DEF DialogInv, RouteInv
<1>2. op[o] = "idle" /\ UNCHANGED <<connVars, asked, prompt>>
  BY <1>1, StartFacts
<1>3. UNCHANGED <<expired, toUser, toHub, dialogs>>
  BY DEF Start, StartConnect, StartTest, StartElevation
<1>4. \/ context' = context
      \/ ~Movable(CtxOf[o]) /\ \E c \in up : context' = [context EXCEPT ![CtxOf[o]] = c]
  BY <1>1, StartFacts
<1>5. ASSUME NEW p \in Ops, prompt[p] # None PROVE context'[CtxOf[p]] = context[CtxOf[p]]
  <2>1. p # o
    BY <1>1, <1>2, <1>5 DEF RoutingTypes
  <2>2. CASE context' = context
    BY <2>2
  <2>3. CASE context' # context
    <3>1. CtxOf[p] # CtxOf[o]
      BY <1>1, <1>4, <2>1, <2>3, PromptAssumption DEF RoutingTypes, CtxOf, Movable, Kind
    <3>2. QED
      BY <1>1, <1>4, <2>3, <3>1, InvFacts DEF RoutingTypes
  <2>4. QED
    BY <2>2, <2>3
<1>6. QED
  BY <1>2, <1>3, <1>5, QuietStep DEF connVars

\* A prompt times out: it is marked as such.
LEMMA ExpireDialogs ==
  ASSUME DialogInv, NEW o \in Ops, Expire(o)
  PROVE  Queues' /\ Flow'
<1>1. /\ op[o] = "asking" /\ prompt' = [prompt EXCEPT ![o] = None] /\ expired' = expired \cup {IdOf(o)}
      /\ UNCHANGED <<setting, user, up, context, asked, toUser, toHub, dialogs>>
  BY DEF Expire, connVars
<1>2. prompt[o] # None /\ DOMAIN prompt = Ops
  BY <1>1, InvFacts DEF RoutingTypes
<1>3. \A p \in Ops : /\ prompt'[p] = IF p = o THEN None ELSE prompt[p]
                     /\ IdOf(p)' = IdOf(p) /\ (p # o => IdOf(p) # IdOf(o))
  BY <1>1, <1>2 DEF IdOf
<1>4. Known(IdOf(o)) /\ AllKnown
  BY <1>2 DEF DialogInv, Queues, AllKnown
<1>5. QueueTypes'
  BY <1>1 DEF DialogInv, Queues, QueueTypes, Conns
<1>6. Queues'
  <2>1. \A id \in expired' : Known(id)
    BY <1>1, <1>4 DEF AllKnown
  <2>2. QED
    BY <1>1, <1>3, <1>4, <1>5, <2>1, InvFacts, QueuesKept DEF AllKnown
<1>7. \A p \in Ops : prompt'[p] # None =>
          prompt[p] # None /\ IdOf(p) \notin expired'
  BY <1>1, <1>3 DEF DialogInv, Flow, Unsettled
<1>8. Flow'
  BY <1>1, <1>3, <1>7, FewerStep
<1>9. QED
  BY <1>6, <1>8

\* A response is handled: what it resolves is no longer shown where it came from.
LEMMA RespondDialogs ==
  ASSUME DialogInv, NEW c \in Conns, Respond(c)
  PROVE  Queues' /\ Flow'
<1> DEFINE rsp == Head(toHub[c])  S == {o \in Ops : Accepts(o, c, rsp)}
<1>1. /\ c \in up /\ toHub[c] # <<>>
      /\ prompt' = [o \in Ops |-> IF o \in S THEN None ELSE prompt[o]]
      /\ toHub' = [toHub EXCEPT ![c] = Tail(@)]
      /\ UNCHANGED <<setting, user, up, context, asked, expired, toUser, dialogs>>
  BY DEF Respond, connVars
<1>2. /\ Tail(toHub[c]) \in Seq(Response) /\ 1 \in DOMAIN toHub[c] /\ rsp = toHub[c][1]
      /\ \A k \in DOMAIN Tail(toHub[c]) : k + 1 \in DOMAIN toHub[c] /\ Tail(toHub[c])[k] = toHub[c][k + 1]
  <2>1. toHub[c] \in Seq(Response)
    BY InvFacts
  <2>2. QED
    BY <1>1, <2>1, Rest
<1>3. \A o \in S : IdOf(o) = rsp.id /\ context[CtxOf[o]] = c
  BY DEF Accepts
<1> HIDE DEF S, rsp
<1>4. \A d \in Conns : \A k \in DOMAIN toHub'[d] : \E j \in DOMAIN toHub[d] : toHub'[d][k].id = toHub[d][j].id
  <2>1. TAKE d \in Conns
  <2>2. CASE d = c
    <3>1. toHub'[d] = Tail(toHub[c])
      BY <1>1, <2>2, InvFacts
    <3>2. QED
      BY <1>2, <2>2, <3>1
  <2>3. CASE d # c
    BY <1>1, <2>3, InvFacts
  <2>4. QED
    BY <2>2, <2>3
<1>5. QueueTypes'
  <2>1. toHub' \in [Conns -> Seq(Response)]
    BY <1>1, <1>2, InvFacts
  <2>2. QED
    BY <1>1, <2>1, InvFacts DEF QueueTypes, Conns
<1>6. \A o \in Ops : /\ prompt'[o] # None => prompt[o] # None /\ IdOf(o) \notin expired
                     /\ IdOf(o)' = IdOf(o)
  BY <1>1 DEF DialogInv, Flow, Unsettled, IdOf
<1>7. Queues'
  <2>1. /\ \A d \in Conns : \A k \in DOMAIN toUser'[d] : Known(toUser'[d][k].id)
        /\ \A id \in expired' : Known(id)
    BY <1>1 DEF DialogInv, Queues, AllKnown
  <2>2. asked' \in [Ops -> Nat] /\ asked' = asked /\ \A o \in Ops : asked[o] <= asked'[o]
    BY <1>1, InvFacts
  <2>3. QED
    BY <1>1, <1>4, <1>5, <1>6, <2>1, <2>2, QueuesKept
<1>8. \A o \in Ops, d \in up : prompt[o] # None /\ prompt'[o] = None /\ context[CtxOf[o]] = d =>
          \E j \in DOMAIN toHub[d] : toHub[d][j].id = IdOf(o)
  BY <1>1, <1>2, <1>3
<1>9. Flow'
  BY <1>1, <1>4, <1>6, <1>8, InvFacts, FewerStep
<1>10. QED
  BY <1>7, <1>9

\* A context is cleared: the dialog of each of its prompts is dismissed.
LEMMA ClearDialogs ==
  ASSUME DialogInv, NEW x \in Contexts, NEW ended, Clear(x, ended),
         UNCHANGED <<connVars, expired, toHub, dialogs>>,
         asked' \in [Ops -> Nat], \A o \in Ops : asked[o] <= asked'[o],
         \A o \in Ops : prompt[o] # None => asked'[o] = asked[o]
  PROVE  Queues' /\ Flow'
<1> DEFINE S == AskedIn(x)  n == Cardinality(S)  s == Each(S, MsgCancel)
<1>1. /\ context' = [context EXCEPT ![x] = None]
      /\ prompt' = [o \in Ops |-> IF o \in S THEN None ELSE prompt[o]]
      /\ toUser' = [d \in DOMAIN toUser |-> IF d = context[x] /\ context[x] \in up THEN toUser[d] \o s ELSE toUser[d]]
      /\ UNCHANGED <<setting, user, up>>
  BY DEF Clear, SendTo, connVars
<1>2. /\ S \in SUBSET Ops /\ \A o \in S : prompt[o] # None
      /\ \A o \in Ops : o \in S <=> prompt[o] # None /\ CtxOf[o] = x
  <2>1. \A o \in Ops : prompt[o] # None => context[CtxOf[o]] # None
    BY InvFacts DEF NoOrphanPrompt
  <2>2. QED
    BY <2>1 DEF AskedIn
<1>3. /\ n \in Nat /\ SetToSeq(S) \in [1 .. n -> S]
      /\ \A o \in S : \E i \in 1 .. n : SetToSeq(S)[i] = o
  BY <1>2, Listed
<1>4. s = [i \in 1 .. n |-> [type |-> "CANCEL", id |-> IdOf(SetToSeq(S)[i])]]
  BY DEF Each, MsgCancel
<1> HIDE DEF s, n, S
<1>5. \A i \in 1 .. n : s[i] = [type |-> "CANCEL", id |-> IdOf(SetToSeq(S)[i])] /\ SetToSeq(S)[i] \in S
  BY <1>3, <1>4
<1>6. \A o \in S : Known(IdOf(o)) /\ IdOf(o) \in Ids
  BY <1>2 DEF DialogInv, Queues, AllKnown, Known
<1>7. s \in Seq(Message) /\ DOMAIN s = 1 .. n
  <2>1. \A i \in 1 .. n : [type |-> "CANCEL", id |-> IdOf(SetToSeq(S)[i])] \in Message
    BY <1>5, <1>6 DEF Message
  <2>2. s \in [1 .. n -> Message]
    BY <1>4, <2>1
  <2>3. QED
    BY <1>3, <2>2, SeqDef
<1>8. ASSUME NEW d \in Conns
      PROVE  /\ toUser'[d] \in Seq(Message)
             /\ \A k \in DOMAIN toUser[d] : k \in DOMAIN toUser'[d] /\ toUser'[d][k] = toUser[d][k]
             /\ \A k \in DOMAIN toUser'[d] : k \notin DOMAIN toUser[d] =>
                   toUser'[d][k].type = "CANCEL" /\ \E o \in S : toUser'[d][k].id = IdOf(o)
             /\ d = context[x] /\ d \in up => \A i \in DOMAIN s :
                   /\ Len(toUser[d]) + i \in DOMAIN toUser'[d] /\ toUser'[d][Len(toUser[d]) + i] = s[i]
                   /\ Len(toUser[d]) + i \notin DOMAIN toUser[d] /\ Len(toUser[d]) + i > 0
                   /\ \A k \in DOMAIN toUser[d] : Len(toUser[d]) + i > k
  <2>1. toUser[d] \in Seq(Message) /\ d \in DOMAIN toUser /\ Len(toUser[d]) \in Nat
    BY InvFacts, LenProperties
  <2>2. CASE d = context[x] /\ d \in up
    <3> DEFINE q == toUser[d]  r == toUser'[d]
               T == {m \in Message : m.type = "CANCEL" /\ \E o \in S : m.id = IdOf(o)}
    <3>1. r = q \o s /\ q \in Seq(Message)
      BY <1>1, <2>1, <2>2
    <3>2. \A i \in DOMAIN s : s[i] \in T
      <4>1. TAKE i \in DOMAIN s
      <4>2. s[i] \in Message
        BY <1>7, <4>1, LenProperties
      <4>3. s[i].type = "CANCEL" /\ \E o \in S : s[i].id = IdOf(o)
        BY <1>5, <1>7, <4>1
      <4>4. QED
        BY <4>2, <4>3
    <3>3. Extends(Message, T, q, s, r)
      <4> HIDE DEF q, r, T
      <4>1. QED
        BY <1>7, <3>1, <3>2, Extended
    <3>4. QED
      BY <2>2, <3>3 DEF Extends
  <2>3. CASE ~(d = context[x] /\ d \in up)
    <3>1. toUser'[d] = toUser[d]
      BY <1>1, <2>1, <2>3
    <3>2. QED
      BY <2>1, <2>3, <3>1
  <2>4. QED
    BY <2>2, <2>3
<1>9. QueueTypes'
  <2>1. toUser' = [d \in Conns |-> toUser'[d]]
    BY <1>1, InvFacts
  <2>2. toUser' \in [Conns -> Seq(Message)]
    BY <1>8, <2>1
  <2>3. QED
    BY <1>1, <2>2, InvFacts DEF QueueTypes, Conns
<1>10. \A o \in Ops : prompt'[o] # None =>
          /\ o \notin S /\ prompt[o] # None /\ asked'[o] = asked[o] /\ IdOf(o)' = IdOf(o)
          /\ context'[CtxOf[o]] = context[CtxOf[o]] /\ IdOf(o) \notin expired'
  <2>1. \A o \in Ops : prompt'[o] # None => o \notin S /\ prompt[o] # None /\ CtxOf[o] # x
    BY <1>1, <1>2
  <2>2. \A o \in Ops : prompt[o] # None => IdOf(o) \notin expired'
    BY DEF DialogInv, Flow, Unsettled
  <2>3. \A o \in Ops : CtxOf[o] # x => context'[CtxOf[o]] = context[CtxOf[o]]
    BY <1>1, InvFacts DEF RoutingTypes
  <2>4. QED
    BY <2>1, <2>2, <2>3 DEF IdOf
<1>11. Queues'
  <2>1. \A c \in Conns : \A k \in DOMAIN toUser'[c] : Known(toUser'[c][k].id)
    BY <1>6, <1>8 DEF DialogInv, Queues, AllKnown
  <2>2. \A id \in expired' : Known(id)
    BY DEF DialogInv, Queues, AllKnown
  <2>3. QED
    BY <1>1, <1>9, <1>10, <2>1, <2>2, QueuesKept
<1>12. \A o, p \in Ops : o # p => IdOf(o) # IdOf(p)
  BY DEF IdOf
<1>13. \A c \in up : \A k \in DOMAIN toUser'[c] :
          k \in DOMAIN toUser[c] \/ (toUser'[c][k].type = "CANCEL" /\ \A j \in Ops : prompt'[j] # None => toUser'[c][k].id # IdOf(j)')
  <2> SUFFICES ASSUME NEW c \in up, NEW k \in DOMAIN toUser'[c], k \notin DOMAIN toUser[c]
               PROVE  toUser'[c][k].type = "CANCEL" /\ \A j \in Ops : prompt'[j] # None => toUser'[c][k].id # IdOf(j)'
    OBVIOUS
  <2>1. c \in Conns
    BY InvFacts
  <2>2. toUser'[c][k].type = "CANCEL" /\ \E o \in S : toUser'[c][k].id = IdOf(o)
    BY <1>8, <2>1
  <2>3. QED
    BY <1>2, <1>10, <1>12, <2>2
<1>14. ASSUME NEW o \in Ops, NEW c \in up, prompt[o] # None, prompt'[o] = None, context[CtxOf[o]] = c
       PROVE  \E j \in DOMAIN toUser'[c] : /\ j \notin DOMAIN toUser[c] /\ toUser'[c][j].type = "CANCEL"
                                           /\ toUser'[c][j].id = IdOf(o)
                                           /\ j > 0 /\ \A k \in DOMAIN toUser[c] : j > k
  <2>1. o \in S /\ CtxOf[o] = x /\ c \in Conns
    BY <1>1, <1>2, <1>14, InvFacts
  <2>2. PICK i \in 1 .. n : SetToSeq(S)[i] = o
    BY <1>3, <2>1
  <2>3. i \in DOMAIN s /\ s[i].type = "CANCEL" /\ s[i].id = IdOf(o)
    BY <1>5, <1>7, <2>2
  <2>4. QED
    BY <1>8, <1>14, <2>1, <2>3
<1>15. \A c \in up : \A k \in DOMAIN toUser[c] : k \in DOMAIN toUser'[c] /\ toUser'[c][k] = toUser[c][k]
  BY <1>8, InvFacts
<1>16. Flow'
  BY <1>1, <1>10, <1>13, <1>14, <1>15, FewerStep
<1>17. QED
  BY <1>11, <1>16

\* A dialog is answered or dismissed: it goes.
LEMMA RemoveDialogs ==
  ASSUME DialogInv, NEW u \in Users, NEW i \in DOMAIN dialogs[u],
         dialogs' = [dialogs EXCEPT ![u] = RemoveAt(@, i)],
         UNCHANGED <<connVars, context, opVars, prompt, expired, toUser>>, QueueTypes',
         \A c \in Conns : \A k \in DOMAIN toHub'[c] :
            \/ \E j \in DOMAIN toHub[c] : toHub'[c][k].id = toHub[c][j].id
            \/ user[c] = u /\ toHub'[c][k].id = dialogs[u][i].id
  PROVE  Queues' /\ Flow'
<1> DEFINE q == dialogs[u]  r == dialogs'[u]
<1>1. q \in Seq(Dialog) /\ r = RemoveAt(q, i) /\ \A v \in Users : v # u => dialogs'[v] = dialogs[v]
  BY InvFacts
<1>2. UNCHANGED <<setting, user, up, asked>> /\ Conns' = Conns
  BY DEF connVars, opVars, Conns
<1> HIDE DEF q, r
<1>a. i \in DOMAIN q
  BY DEF q
<1>3. \A k \in DOMAIN r : LET j == IF k < i THEN k ELSE k + 1 IN
          k \in Int /\ j \in DOMAIN q /\ j # i /\ r[k] = q[j]
  BY <1>1, <1>a, Removed
<1>4. AllKnown /\ Received
  BY DEF DialogInv, Queues
<1>5. /\ \A j, k \in DOMAIN q : q[j].id = q[k].id => j = k
      /\ \A j \in DOMAIN q : Known(q[j].id) /\ q[j].conn \in Conns /\ user[q[j].conn] = u
  BY <1>4 DEF AllKnown, Received, q
<1>6. /\ \A k \in DOMAIN r : r[k].id # q[i].id /\ \E j \in DOMAIN q : r[k] = q[j]
      /\ \A j, k \in DOMAIN r : r[j].id = r[k].id => j = k
  <2>1. \A k \in DOMAIN r : \E j \in DOMAIN q : j # i /\ r[k] = q[j]
    BY <1>3
  <2>2. ASSUME NEW j \in DOMAIN r, NEW k \in DOMAIN r, r[j].id = r[k].id PROVE j = k
    <3>1. (IF j < i THEN j ELSE j + 1) = (IF k < i THEN k ELSE k + 1)
      BY <1>3, <1>5, <2>2
    <3>2. j \in Int /\ k \in Int /\ i \in Int
      BY <1>1, <1>3, <1>a, LenProperties
    <3>3. QED
      BY <3>1, <3>2
  <2>3. QED
    BY <1>5, <1>a, <2>1, <2>2
<1>7. \A v \in Users : \A k \in DOMAIN dialogs'[v] : \E j \in DOMAIN dialogs[v] : dialogs'[v][k] = dialogs[v][j]
  BY <1>1, <1>6 DEF q, r
<1>8. \A id : Known(id)' <=> Known(id)
  BY <1>2 DEF Known
<1>9. AllKnown'
  <2>1. \A c \in Conns : \A k \in DOMAIN toHub'[c] : Known(toHub'[c][k].id)
    BY <1>4, <1>5, <1>a DEF AllKnown, q
  <2>2. \A v \in Users : \A k \in DOMAIN dialogs'[v] : Known(dialogs'[v][k].id)
    BY <1>4, <1>7 DEF AllKnown
  <2>3. \A o \in Ops : IdOf(o)' = IdOf(o)
    BY <1>2 DEF IdOf
  <2>4. \A c \in Conns : \A k \in DOMAIN toHub'[c] : Known(toHub[c][k].id)'
    BY <1>8, <2>1
  <2>5. \A v \in Users : \A k \in DOMAIN dialogs'[v] : Known(dialogs[v][k].id)'
    BY <1>8, <2>2
  <2>6. \A c \in Conns : \A k \in DOMAIN toUser'[c] : Known(toUser[c][k].id)'
    BY <1>4, <1>8 DEF AllKnown
  <2>7. (\A id \in expired' : Known(id)') /\ \A o \in Ops : prompt'[o] # None => Known(IdOf(o))'
    BY <1>4, <1>8, <2>3 DEF AllKnown
  <2>8. QED
    BY <1>2, <2>4, <2>5, <2>6, <2>7 DEF AllKnown
<1>10. Received'
  <2>1. \A v \in Users : \A k \in DOMAIN dialogs'[v] :
          dialogs'[v][k].conn \in Conns /\ user[dialogs'[v][k].conn] = v
    BY <1>4, <1>7 DEF Received
  <2>2. \A v \in Users : \A j, k \in DOMAIN dialogs'[v] : dialogs'[v][j].id = dialogs'[v][k].id => j = k
    BY <1>1, <1>4, <1>6 DEF Received, r
  <2>3. QED
    BY <1>2, <1>4, <2>1, <2>2 DEF Received
<1>11. \A o \in Ops : prompt[o] # None => IdOf(o) \notin expired
  BY DEF DialogInv, Flow, Unsettled
<1>12. ASSUME NEW c \in up, NEW k \in DOMAIN toHub'[c]
       PROVE  \/ \E j \in DOMAIN toHub[c] : toHub'[c][k].id = toHub[c][j].id
              \/ /\ \E j \in DOMAIN dialogs[user[c]] : toHub'[c][k].id = dialogs[user[c]][j].id
                 /\ \A j \in DOMAIN dialogs'[user[c]] : toHub'[c][k].id # dialogs'[user[c]][j].id
  <2>1. c \in Conns
    BY InvFacts
  <2>2. CASE user[c] = u /\ toHub'[c][k].id = dialogs[u][i].id
    BY <1>6, <2>2 DEF q, r
  <2>3. QED
    BY <2>1, <2>2
<1>13. Flow'
  BY <1>2, <1>7, <1>11, <1>12, FewerStep DEF IdOf
<1>14. QED
  BY <1>9, <1>10, <1>13 DEF Queues

\* The operations that clear a context.
LEMMA CloseDialogs ==
  ASSUME DialogInv, \/ \E o \in Ops : AskNobody(o) \/ Finish(o)
                    \/ \E x \in Contexts : ClearContext(x)
  PROVE  Queues' /\ Flow'
<1>0. /\ asked \in [Ops -> Nat] /\ \A o \in Ops : CtxOf[o] \in Contexts
      /\ \A o \in Ops : prompt[o] # None => op[o] = "asking"
  BY InvFacts DEF RoutingTypes
<1>1. ASSUME NEW o \in Ops, AskNobody(o) PROVE Queues' /\ Flow'
  <2>1. /\ Clear(CtxOf[o], {}) /\ UNCHANGED <<connVars, expired, toHub, dialogs>>
        /\ op[o] = "running" /\ asked' = [asked EXCEPT ![o] = @ + 1]
    BY <1>1 DEF AskNobody
  <2>2. /\ asked' \in [Ops -> Nat] /\ \A p \in Ops : asked[p] <= asked'[p]
        /\ \A p \in Ops : prompt[p] # None => asked'[p] = asked[p]
    BY <1>0, <2>1
  <2>3. QED
    BY <1>0, <2>1, <2>2, ClearDialogs
<1>2. ASSUME NEW x \in Contexts, NEW ended, Clear(x, ended), UNCHANGED <<connVars, asked, expired, toHub, dialogs>>
      PROVE  Queues' /\ Flow'
  <2>1. asked' \in [Ops -> Nat] /\ asked' = asked /\ \A p \in Ops : asked[p] <= asked'[p]
    BY <1>0, <1>2
  <2>2. QED
    BY <1>2, <2>1, ClearDialogs
<1>3. ASSUME NEW o \in Ops, Finish(o) PROVE Queues' /\ Flow'
  BY <1>0, <1>2, <1>3 DEF Finish
<1>4. ASSUME NEW x \in Contexts, ClearContext(x) PROVE Queues' /\ Flow'
  BY <1>2, <1>4 DEF ClearContext
<1>5. QED
  BY <1>1, <1>3, <1>4

\* A dialog of the user is answered, on the user's connection.
LEMMA AnswerDialogs ==
  ASSUME DialogInv, NEW u \in Users, Answer(u)
  PROVE  Queues' /\ Flow'
<1>1. PICK i \in Shown(u), c \in ConnOf(u) :
        /\ toHub' = [toHub EXCEPT ![c] = Append(@, [id |-> dialogs[u][i].id, epoch |-> dialogs[u][i].epoch])]
        /\ dialogs' = [dialogs EXCEPT ![u] = RemoveAt(@, i)]
        /\ UNCHANGED <<connVars, context, opVars, prompt, expired, toUser>>
  BY DEF Answer
<1> DEFINE q == dialogs[u]  p == [id |-> q[i].id, epoch |-> q[i].epoch]
<1>2. i \in DOMAIN q /\ c \in up /\ c \in Conns /\ user[c] = u /\ q \in Seq(Dialog)
  BY InvFacts DEF Shown, ConnOf
<1>3. q[i] \in Dialog
  BY <1>2, LenProperties
<1>4. p \in Response /\ p.id = dialogs[u][i].id
  BY <1>3 DEF Dialog, Response
<1>5. toHub' = [toHub EXCEPT ![c] = Append(@, p)]
  BY <1>1
<1>6. toHub[c] \in Seq(Response)
  BY <1>2, InvFacts
<1> HIDE DEF p
<1>7. /\ Append(toHub[c], p) \in Seq(Response)
      /\ \A k \in DOMAIN Append(toHub[c], p) :
           (k \in DOMAIN toHub[c] /\ Append(toHub[c], p)[k] = toHub[c][k]) \/ Append(toHub[c], p)[k] = p
  <2>1. /\ Append(toHub[c], p) \in Seq(Response) /\ Len(Append(toHub[c], p)) = Len(toHub[c]) + 1
        /\ \A k \in 1 .. Len(toHub[c]) : Append(toHub[c], p)[k] = toHub[c][k]
        /\ Append(toHub[c], p)[Len(toHub[c]) + 1] = p
    BY <1>4, <1>6, AppendProperties
  <2>2. /\ DOMAIN toHub[c] = 1 .. Len(toHub[c]) /\ Len(toHub[c]) \in Nat
        /\ DOMAIN Append(toHub[c], p) = 1 .. Len(toHub[c]) + 1
    BY <1>6, <2>1, LenProperties
  <2>3. QED
    BY <2>1, <2>2
<1>8. \A d \in Conns : \A k \in DOMAIN toHub'[d] :
          \/ \E j \in DOMAIN toHub[d] : toHub'[d][k].id = toHub[d][j].id
          \/ user[d] = u /\ toHub'[d][k].id = dialogs[u][i].id
  <2>1. TAKE d \in Conns
  <2>2. CASE d = c
    <3>1. toHub'[d] = Append(toHub[c], p)
      BY <1>5, <2>2, InvFacts
    <3>2. QED
      BY <1>2, <1>4, <1>7, <2>2, <3>1
  <2>3. CASE d # c
    <3>1. toHub'[d] = toHub[d]
      BY <1>5, <2>3, InvFacts
    <3>2. QED
      BY <3>1
  <2>4. QED
    BY <2>2, <2>3
<1>9. QueueTypes'
  <2>1. toHub' \in [Conns -> Seq(Response)]
    BY <1>5, <1>7, InvFacts
  <2>2. RemoveAt(q, i) \in Seq(Dialog)
    BY <1>2, Removed
  <2>3. dialogs' \in [Users -> Seq(Dialog)]
    BY <1>1, <2>2, InvFacts
  <2>4. QED
    BY <1>1, <2>1, <2>3, InvFacts DEF QueueTypes, Conns, connVars
<1>10. QED
  BY <1>1, <1>2, <1>8, <1>9, RemoveDialogs

\* A dialog is closed without an answer.
LEMMA DismissDialogs ==
  ASSUME DialogInv, NEW u \in Users, Dismiss(u)
  PROVE  Queues' /\ Flow'
<1>1. PICK i \in Shown(u) :
        /\ dialogs' = [dialogs EXCEPT ![u] = RemoveAt(@, i)]
        /\ UNCHANGED <<connVars, context, opVars, prompt, expired, toUser, toHub>>
  BY DEF Dismiss
<1>2. i \in DOMAIN dialogs[u] /\ dialogs[u] \in Seq(Dialog)
  BY InvFacts DEF Shown
<1>3. RemoveAt(dialogs[u], i) \in Seq(Dialog)
  BY <1>2, Removed
<1>4. QueueTypes'
  BY <1>1, <1>3, InvFacts DEF QueueTypes, Conns, connVars
<1>5. QED
  BY <1>1, <1>2, <1>4, RemoveDialogs

\* Steps that send questions keep the types of the queues.
LEMMA QueuesGrown ==
  ASSUME DialogInv, QueueTypes', UNCHANGED <<user, dialogs, expired>>, up' \subseteq up,
         asked' \in [Ops -> Nat], \A o \in Ops : asked[o] <= asked'[o],
         \A c \in Conns : \A k \in DOMAIN toUser'[c] :
            (\E j \in DOMAIN toUser[c] : toUser'[c][k] = toUser[c][j]) \/ Known(toUser[c][k].id)',
         \A c \in Conns : \A k \in DOMAIN toHub'[c] : \E j \in DOMAIN toHub[c] : toHub'[c][k] = toHub[c][j],
         \A o \in Ops : prompt'[o] # None =>
            (prompt[o] # None /\ asked'[o] = asked[o]) \/ Known(IdOf(o))'
  PROVE  Queues'
<1>1. \A id : Known(id) => Known(id)'
  BY InvFacts, KnownStays
<1>2. AllKnown /\ Received /\ Conns' = Conns
  BY DEF DialogInv, Queues, Conns
<1>3. \A c \in Conns : \A k \in DOMAIN toUser'[c] : Known(toUser[c][k].id)'
  BY <1>1, <1>2 DEF AllKnown
<1>4. \A c \in Conns : \A k \in DOMAIN toHub'[c] : Known(toHub[c][k].id)'
  BY <1>1, <1>2 DEF AllKnown
<1>5. \A u \in Users : \A i \in DOMAIN dialogs'[u] : Known(dialogs[u][i].id)'
  BY <1>1, <1>2 DEF AllKnown
<1>6. \A id \in expired' : Known(id)'
  BY <1>1, <1>2 DEF AllKnown
<1>7. \A o \in Ops : prompt'[o] # None => Known(IdOf(o))'
  <2>1. ASSUME NEW o \in Ops, prompt[o] # None, asked'[o] = asked[o] PROVE Known(IdOf(o))'
    <3>1. Known(IdOf(o)) /\ IdOf(o)' = IdOf(o)
      BY <1>2, <2>1 DEF AllKnown, IdOf
    <3>2. QED
      BY <1>1, <3>1
  <2>2. QED
    BY <2>1
<1>8. AllKnown'
  BY <1>2, <1>3, <1>4, <1>5, <1>6, <1>7 DEF AllKnown
<1>9. Received'
  BY <1>2 DEF Received
<1>10. QED
  BY <1>8, <1>9 DEF Queues

\* A prompt is sent to its route under an id of its own.
LEMMA AskDialogs ==
  ASSUME DialogInv, NEW o \in Ops, NEW store \in Stores, Ask(o, store)
  PROVE  Queues' /\ Flow'
<1> DEFINE c0 == RouteFor(o)  id0 == <<o, asked[o] + 1>>  m == MsgPrompt(id0, store, 1)  s == <<m>>
<1>0. /\ RoutingTypes /\ NoOrphanPrompt /\ asked \in [Ops -> Nat] /\ up \subseteq Conns
      /\ \A p \in Ops : CtxOf[p] \in Contexts
  BY InvFacts
<1>1. /\ op[o] = "running" /\ asked[o] < MaxAsks /\ c0 # None
      /\ asked' = [asked EXCEPT ![o] = @ + 1]
      /\ context' = [context EXCEPT ![CtxOf[o]] = c0]
      /\ prompt' = [prompt EXCEPT ![o] = [epoch |-> 1, store |-> store]]
      /\ toUser' = [d \in DOMAIN toUser |-> IF d = c0 /\ c0 \in up THEN toUser[d] \o s ELSE toUser[d]]
      /\ UNCHANGED <<setting, user, up, expired, toHub, dialogs>>
  BY DEF Ask, SendTo, connVars
<1>2. c0 \in up
  BY <1>0, <1>1, RouteIsOpen
<1>3. /\ asked' \in [Ops -> Nat] /\ asked'[o] = asked[o] + 1 /\ asked'[o] > asked[o]
      /\ \A p \in Ops : asked[p] <= asked'[p] /\ (p # o => asked'[p] = asked[p])
  BY <1>0, <1>1
<1>4. id0 \in Ids /\ id0 = IdOf(o)'
  <2>1. asked[o] + 1 \in 1 .. MaxAsks
    BY <1>0, <1>1, PromptAssumption
  <2>2. QED
    BY <1>3, <2>1 DEF Ids, IdOf
<1>5. \A id : id = id0 => Known(id)'
  BY <1>3, <1>4 DEF Known, Ids
<1>6. m \in Message /\ m.type = "PROMPT" /\ m.id = id0
  BY <1>4 DEF MsgPrompt, Message
<1> HIDE DEF m, c0
<1>7. s \in Seq(Message) /\ (\A i \in DOMAIN s : s[i] \in {m}) /\ \A i, j \in DOMAIN s : i = j
  BY <1>6
<1>8. [epoch |-> 1, store |-> store] # None
  <2>1. [epoch |-> 1, store |-> store] \in Prompts
    BY DEF Prompts, Stores
  <2>2. QED
    BY <2>1, NoneAssumption
<1>9. /\ prompt[o] = None /\ prompt'[o] # None
      /\ \A p \in Ops : p # o => prompt'[p] = prompt[p]
  BY <1>0, <1>1, <1>8 DEF RoutingTypes
<1>10. \A x \in Contexts : context'[x] = IF x = CtxOf[o] THEN c0 ELSE context[x]
  BY <1>0, <1>1 DEF RoutingTypes
<1>11. \A p \in Ops : prompt[p] # None => context'[CtxOf[p]] = context[CtxOf[p]]
  <2>1. TAKE p \in Ops
  <2>2. CASE CtxOf[p] = CtxOf[o] /\ prompt[p] # None
    <3>1. context[CtxOf[o]] \in up
      BY <1>0, <2>2 DEF NoOrphanPrompt
    <3>2. c0 = context[CtxOf[o]]
      BY <3>1, InvFacts DEF RouteFor, c0
    <3>3. QED
      BY <1>0, <1>10, <2>2, <3>2
  <2>3. CASE CtxOf[p] # CtxOf[o]
    BY <1>0, <1>10, <2>3
  <2>4. QED
    BY <2>2, <2>3
<1>12. ASSUME NEW d \in Conns
       PROVE  /\ toUser'[d] \in Seq(Message)
              /\ \A k \in DOMAIN toUser[d] : k \in DOMAIN toUser'[d] /\ toUser'[d][k] = toUser[d][k]
              /\ \A k \in DOMAIN toUser'[d] : k \notin DOMAIN toUser[d] => toUser'[d][k] = m /\ d = c0
              /\ \A j, k \in DOMAIN toUser'[d] : j \notin DOMAIN toUser[d] /\ k \notin DOMAIN toUser[d] => j = k
  <2>1. toUser[d] \in Seq(Message) /\ d \in DOMAIN toUser
    BY InvFacts
  <2>2. CASE d = c0
    <3> DEFINE q == toUser[d]  r == toUser'[d]
    <3>1. r = q \o s /\ q \in Seq(Message)
      BY <1>1, <1>2, <2>1, <2>2
    <3>2. Extends(Message, {m}, q, s, r)
      <4> HIDE DEF q, r, s
      <4>1. QED
        BY <1>7, <3>1, Extended
    <3>3. \A k \in DOMAIN r : k \notin DOMAIN q => r[k] = m
      BY <3>2 DEF Extends
    <3>4. \A j, k \in DOMAIN r : j \notin DOMAIN q /\ k \notin DOMAIN q /\ r[j].id = r[k].id => j = k
      BY <1>7, <3>2 DEF Extends
    <3>5. QED
      BY <2>2, <3>2, <3>3, <3>4 DEF Extends
  <2>3. CASE d # c0
    BY <1>1, <2>1, <2>3
  <2>4. QED
    BY <2>2, <2>3
<1>13. QueueTypes'
  <2>1. toUser' = [d \in Conns |-> toUser'[d]]
    BY <1>1, InvFacts
  <2>2. toUser' \in [Conns -> Seq(Message)]
    BY <1>12, <2>1
  <2>3. QED
    BY <1>1, <2>2, InvFacts DEF QueueTypes, Conns
<1>14. Queues'
  <2>1. \A c \in Conns : \A k \in DOMAIN toUser'[c] :
          (\E j \in DOMAIN toUser[c] : toUser'[c][k] = toUser[c][j]) \/ Known(toUser[c][k].id)'
    BY <1>5, <1>6, <1>12
  <2>2. \A p \in Ops : prompt'[p] # None =>
          (prompt[p] # None /\ asked'[p] = asked[p]) \/ Known(IdOf(p))'
    BY <1>3, <1>4, <1>5, <1>9
  <2>3. QED
    BY <1>1, <1>3, <1>13, <2>1, <2>2, QueuesGrown
<1>15. \A c \in up : \A k \in DOMAIN toUser'[c] : k \notin DOMAIN toUser[c] => AsksAnew(c, k)
  <2> SUFFICES ASSUME NEW c \in up, NEW k \in DOMAIN toUser'[c], k \notin DOMAIN toUser[c]
               PROVE  AsksAnew(c, k)
    OBVIOUS
  <2>1. toUser'[c][k] = m /\ c = c0
    BY <1>0, <1>12
  <2>2. toUser'[c][k].id = <<o, asked'[o]>> /\ context'[CtxOf[o]] = c
    BY <1>0, <1>3, <1>6, <1>10, <2>1
  <2>3. QED
    BY <1>3, <1>6, <1>9, <2>1, <2>2 DEF AsksAnew
<1>16. /\ \A c \in up : \A k \in DOMAIN toUser[c] : k \in DOMAIN toUser'[c] /\ toUser'[c][k] = toUser[c][k]
       /\ \A c \in up : \A j, k \in DOMAIN toUser'[c] :
            j \notin DOMAIN toUser[c] /\ k \notin DOMAIN toUser[c] /\ toUser'[c][j].id = toUser'[c][k].id => j = k
  BY <1>0, <1>12
<1>17. Flow'
  BY <1>1, <1>3, <1>9, <1>11, <1>15, <1>16, SendStep
<1>18. QED
  BY <1>14, <1>17

\* The prompts of a client that leaves are sent to the ones who take over, with a new
\* epoch, or are given up.
LEMMA DisconnectDialogs ==
  ASSUME DialogInv, NEW c \in Conns, Disconnect(c)
  PROVE  Queues' /\ Flow'
<1> DEFINE next == RoutesWithout(c)
           mine == UNION {AskedIn(x) : x \in {y \in Contexts : context[y] = c}}
           moved == {o \in mine : next[CtxOf[o]] # None}
           Again(o) == MsgPrompt(IdOf(o), prompt[o].store, Redelivered(o).epoch)
           to(d) == {o \in moved : next[CtxOf[o]] = d}
           s(d) == [i \in 1 .. Cardinality(to(d)) |-> Again(SetToSeq(to(d))[i])]
           T(d) == {m \in Message : m.type = "PROMPT" /\ m.epoch # 1 /\ \E o \in to(d) : m.id = IdOf(o)}
<1>0. /\ RoutingTypes /\ NoOrphanPrompt /\ asked \in [Ops -> Nat] /\ up \subseteq Conns
      /\ None \notin up /\ \A o \in Ops : CtxOf[o] \in Contexts
  BY InvFacts
<1>1. /\ c \in up /\ context' = next /\ up' = up \ {c} /\ toHub' = [toHub EXCEPT ![c] = <<>>]
      /\ UNCHANGED <<setting, user, asked, expired, dialogs>>
  BY DEF Disconnect
<1>2. prompt' = [o \in Ops |-> CASE o \in moved -> Redelivered(o)
                                 [] o \in mine \ moved -> None
                                 [] OTHER -> prompt[o]]
  BY DEF Disconnect
<1>3. toUser' = [d \in DOMAIN toUser |-> IF d = c THEN <<>> ELSE toUser[d] \o s(d)]
  BY DEF Disconnect, Each
<1>4. /\ \A o \in Ops : o \in mine <=> prompt[o] # None /\ context[CtxOf[o]] = c
      /\ mine \subseteq Ops
  BY <1>0, <1>1 DEF AskedIn
<1>5. \A x \in Contexts : next[x] = IF context[x] = c THEN Candidate(x, {c}) ELSE context[x]
  BY DEF RoutesWithout
<1>6. \A o \in moved : o \in Ops /\ prompt[o] \in Prompts /\ next[CtxOf[o]] \in up \ {c}
  <2>1. TAKE o \in moved
  <2>2. o \in Ops /\ prompt[o] # None /\ context[CtxOf[o]] = c /\ CtxOf[o] \in Contexts /\ next[CtxOf[o]] # None
    BY <1>0, <1>4
  <2>3. Candidate(CtxOf[o], {c}) \in part \ {c}
    BY <1>0, <1>5, <2>2, CandidateIsOpen
  <2>4. QED
    BY <1>0, <1>5, <2>2, <2>3 DEF RoutingTypes
<1> HIDE DEF next, mine
<1>7. \A o \in moved : /\ Redelivered(o).epoch = prompt[o].epoch + 1 /\ Redelivered(o) \in Prompts
                       /\ prompt[o].store \in Stores /\ prompt[o].epoch \in Nat \ {0}
  BY <1>6 DEF Redelivered, Prompts, Stores
<1>8. \A o \in Ops : prompt[o] # None => Known(IdOf(o)) /\ IdOf(o) \in Ids
  BY DEF DialogInv, Queues, AllKnown, Known
<1>9. \A o \in moved : /\ Again(o) \in Message /\ Again(o).type = "PROMPT" /\ Again(o).epoch # 1
                       /\ Again(o).id = IdOf(o)
  <2>1. TAKE o \in moved
  <2>2. IdOf(o) \in Ids
    BY <1>4, <1>6, <1>8
  <2>3. Redelivered(o).epoch \in Nat \ {0} /\ Redelivered(o).epoch # 1 /\ prompt[o].store \in Stores
    BY <1>7
  <2>4. QED
    BY <2>2, <2>3 DEF MsgPrompt, Message
<1> HIDE DEF moved, Again
<1>10. ASSUME NEW d PROVE /\ s(d) \in Seq(Message) /\ \A i \in DOMAIN s(d) : s(d)[i] \in T(d)
                          /\ \A i, j \in DOMAIN s(d) : s(d)[i].id = s(d)[j].id => i = j
  <2> DEFINE n == Cardinality(to(d))  l == SetToSeq(to(d))
  <2>1. to(d) \in SUBSET Ops /\ to(d) \subseteq moved
    BY <1>6
  <2>2. n \in Nat /\ l \in [1 .. n -> to(d)] /\ \A i, j \in 1 .. n : l[i] = l[j] => i = j
    <3> HIDE DEF to
    <3>1. QED
      BY <2>1, Listed
  <2>3. s(d) = [i \in 1 .. n |-> Again(l[i])]
    OBVIOUS
  <2> HIDE DEF n, l, s, to
  <2>4. \A i \in 1 .. n : l[i] \in to(d) /\ l[i] \in moved
    BY <2>1, <2>2
  <2>5. s(d) \in [1 .. n -> Message] /\ DOMAIN s(d) = 1 .. n
    BY <1>9, <2>3, <2>4
  <2>6. s(d) \in Seq(Message)
    BY <2>2, <2>5, SeqDef
  <2>7. \A i \in 1 .. n : s(d)[i] \in T(d) /\ s(d)[i].id = IdOf(l[i])
    BY <1>9, <2>3, <2>4
  <2>8. \A i, j \in 1 .. n : IdOf(l[i]) = IdOf(l[j]) => i = j
    BY <2>2 DEF IdOf
  <2>9. QED
    BY <2>5, <2>6, <2>7, <2>8
<1> HIDE DEF s, T
<1>11. ASSUME NEW d \in Conns, d # c PROVE Extends(Message, T(d), toUser[d], s(d), toUser'[d])
  <2> DEFINE q == toUser[d]  r == toUser'[d]  e == s(d)  S == T(d)
  <2>1. r = q \o e /\ q \in Seq(Message)
    BY <1>3, <1>11, InvFacts
  <2>2. e \in Seq(Message) /\ \A i \in DOMAIN e : e[i] \in S
    BY <1>10
  <2> HIDE DEF q, r, e, S
  <2>3. Extends(Message, S, q, e, r)
    BY <2>1, <2>2, Extended
  <2>4. QED
    BY <2>3 DEF q, r, e, S
<1>12. toUser'[c] = <<>> /\ toHub'[c] = <<>> /\ \A d \in Conns : d # c => toHub'[d] = toHub[d]
  BY <1>1, <1>3, InvFacts
<1>13. QueueTypes'
  <2>1. toUser' = [d \in Conns |-> toUser'[d]]
    BY <1>3, InvFacts
  <2>2. \A d \in Conns : toUser'[d] \in Seq(Message)
    <3>1. <<>> \in Seq(Message)
      OBVIOUS
    <3>2. \A d \in Conns : d # c => toUser'[d] \in Seq(Message)
      BY <1>11 DEF Extends
    <3>3. QED
      BY <1>12, <3>1, <3>2
  <2>3. toUser' \in [Conns -> Seq(Message)] /\ toHub' \in [Conns -> Seq(Response)]
    BY <1>1, <2>1, <2>2, InvFacts
  <2>4. QED
    BY <1>1, <2>3, InvFacts DEF QueueTypes, Conns
<1>14. \A o \in Ops : /\ o \in moved => prompt'[o] = Redelivered(o)
                      /\ o \in mine /\ o \notin moved => prompt'[o] = None
                      /\ o \notin mine => prompt'[o] = prompt[o] /\ o \notin moved
  BY <1>2 DEF moved
<1>15. \A o \in moved : prompt'[o] # None /\ context'[CtxOf[o]] = next[CtxOf[o]] /\ context[CtxOf[o]] = c /\ prompt[o] # None
  <2>1. TAKE o \in moved
  <2>2. prompt'[o] \in Prompts
    BY <1>6, <1>7, <1>14
  <2>3. QED
    BY <1>1, <1>4, <1>6, <2>2, NoneAssumption DEF moved
<1>16. \A o \in Ops : o \notin mine => context[CtxOf[o]] = c \/ context'[CtxOf[o]] = context[CtxOf[o]]
  BY <1>0, <1>1, <1>5
<1>17. \A o \in Ops : prompt'[o] # None =>
          /\ prompt[o] # None /\ asked'[o] = asked[o]
          /\ context'[CtxOf[o]] = context[CtxOf[o]] \/ context[CtxOf[o]] \notin up'
  BY <1>1, <1>4, <1>14, <1>15, <1>16
<1>18. \A o \in Ops : prompt[o] # None /\ context[CtxOf[o]] \in up' =>
          prompt'[o] # None /\ asked'[o] = asked[o] /\ context'[CtxOf[o]] = context[CtxOf[o]]
  BY <1>1, <1>4, <1>14, <1>16
<1>19. ASSUME NEW d \in up', NEW k \in DOMAIN toUser'[d], k \notin DOMAIN toUser[d]
       PROVE  AsksAnew(d, k)
  <2>1. d \in up /\ d \in Conns /\ d # c
    BY <1>0, <1>1
  <2>2. toUser'[d][k] \in T(d)
    BY <1>11, <1>19, <2>1 DEF Extends
  <2>3. PICK o \in to(d) : toUser'[d][k].id = IdOf(o)
    BY <2>2 DEF T
  <2>4. o \in moved /\ o \in Ops /\ next[CtxOf[o]] = d
    BY <1>6
  <2>5. toUser'[d][k].type = "PROMPT" /\ toUser'[d][k].epoch # 1
    BY <2>2 DEF T
  <2>6. toUser'[d][k].id = <<o, asked'[o]>> /\ asked'[o] = asked[o]
    BY <1>1, <2>3 DEF IdOf
  <2>7. QED
    BY <1>15, <2>1, <2>4, <2>5, <2>6 DEF AsksAnew
<1>20. Queues'
  <2>1. ASSUME NEW d \in Conns, NEW k \in DOMAIN toUser'[d]
        PROVE  (\E j \in DOMAIN toUser[d] : toUser'[d][k] = toUser[d][j]) \/ Known(toUser[d][k].id)'
    <3>1. CASE d = c
      BY <1>12, <2>1, <3>1
    <3>2. CASE d # c /\ k \in DOMAIN toUser[d]
      BY <1>11, <3>2 DEF Extends
    <3>3. CASE d # c /\ k \notin DOMAIN toUser[d]
      <4>1. toUser'[d][k] \in T(d)
        BY <1>11, <2>1, <3>3 DEF Extends
      <4>2. PICK o \in to(d) : toUser'[d][k].id = IdOf(o)
        BY <4>1 DEF T
      <4>3. Known(IdOf(o))
        BY <1>6, <1>8, <1>15
      <4>4. \A id : Known(id) => Known(id)'
        BY <1>1 DEF Known
      <4>5. QED
        BY <4>2, <4>3, <4>4
    <3>4. QED
      BY <3>1, <3>2, <3>3
  <2>2. \A d \in Conns : \A k \in DOMAIN toHub'[d] : \E j \in DOMAIN toHub[d] : toHub'[d][k] = toHub[d][j]
    BY <1>12
  <2>3. asked' \in [Ops -> Nat] /\ (\A o \in Ops : asked[o] <= asked'[o]) /\ up' \subseteq up
    BY <1>0, <1>1
  <2>4. QED
    BY <1>1, <1>13, <1>17, <2>1, <2>2, <2>3, QueuesGrown
<1>21. /\ \A d \in up' : \A k \in DOMAIN toUser[d] : k \in DOMAIN toUser'[d] /\ toUser'[d][k] = toUser[d][k]
       /\ \A d \in up' : \A j, k \in DOMAIN toUser'[d] :
            j \notin DOMAIN toUser[d] /\ k \notin DOMAIN toUser[d] /\ toUser'[d][j].id = toUser'[d][k].id => j = k
       /\ \A d \in up' : toHub'[d] = toHub[d]
  <2> SUFFICES ASSUME NEW d \in up'
               PROVE  /\ \A k \in DOMAIN toUser[d] : k \in DOMAIN toUser'[d] /\ toUser'[d][k] = toUser[d][k]
                      /\ \A j, k \in DOMAIN toUser'[d] :
                           j \notin DOMAIN toUser[d] /\ k \notin DOMAIN toUser[d] /\ toUser'[d][j].id = toUser'[d][k].id => j = k
                      /\ toHub'[d] = toHub[d]
    OBVIOUS
  <2>1. d \in Conns /\ d # c
    BY <1>0, <1>1
  <2>2. Extends(Message, T(d), toUser[d], s(d), toUser'[d])
    BY <1>11, <2>1
  <2>3. QED
    BY <1>10, <1>12, <2>1, <2>2 DEF Extends
<1>22. Flow'
  <2>1. asked' \in [Ops -> Nat] /\ up' \subseteq up
    BY <1>0, <1>1
  <2>2. QED
    BY <1>1, <1>17, <1>18, <1>19, <1>21, <2>1, SendStep
<1>23. QED
  BY <1>20, <1>22

\* A client handles a message: a prompt is queued once, a dismissal takes its dialog away.
LEMMA DeliverDialogs ==
  ASSUME DialogInv, NEW c \in Conns, Deliver(c)
  PROVE  Queues' /\ Flow'
<1> DEFINE m == Head(toUser[c])  u == user[c]  q == dialogs[u]  r == dialogs'[u]
<1>1. /\ c \in up /\ toUser[c] # <<>> /\ toUser' = [toUser EXCEPT ![c] = Tail(@)]
      /\ UNCHANGED <<connVars, context, opVars, prompt, expired, toHub>>
      /\ \/ m.type = "PROMPT" /\ dialogs' = [dialogs EXCEPT ![u] = Enqueued(@, m, c)]
         \/ m.type = "CANCEL" /\ dialogs' = [dialogs EXCEPT ![u] = Dropped(@, m.id)]
  BY DEF Deliver
<1>2. UNCHANGED <<setting, user, up, asked>> /\ Conns' = Conns
  BY <1>1 DEF connVars, opVars, Conns
<1>3. u \in Users /\ q \in Seq(Dialog) /\ toUser[c] \in Seq(Message)
  BY InvFacts
<1>4. /\ m \in Message /\ Known(m.id)
      /\ Tail(toUser[c]) \in Seq(Message)
      /\ \A k \in DOMAIN Tail(toUser[c]) : k + 1 \in DOMAIN toUser[c] /\ Tail(toUser[c])[k] = toUser[c][k + 1]
  <2>1. /\ Tail(toUser[c]) \in Seq(Message) /\ 1 \in DOMAIN toUser[c] /\ m = toUser[c][1]
        /\ \A k \in DOMAIN Tail(toUser[c]) : k + 1 \in DOMAIN toUser[c] /\ Tail(toUser[c])[k] = toUser[c][k + 1]
    BY <1>1, <1>3, Rest
  <2>2. m \in Message
    BY <1>3, <2>1, LenProperties
  <2>3. Known(toUser[c][1].id)
    BY <2>1 DEF DialogInv, Queues, AllKnown
  <2>4. QED
    BY <2>1, <2>2, <2>3
<1>5. r = (IF m.type = "PROMPT" THEN Enqueued(q, m, c) ELSE Dropped(q, m.id)) /\ m.type \in {"PROMPT", "CANCEL"}
  BY <1>1, <1>3, InvFacts
<1>6. /\ \A v \in Users : v # u => dialogs'[v] = dialogs[v]
      /\ dialogs' = [v \in Users |-> dialogs'[v]]
  BY <1>1, InvFacts
<1>7. /\ \A j, k \in DOMAIN q : q[j].id = q[k].id => j = k
      /\ \A j \in DOMAIN q : Known(q[j].id) /\ q[j].conn \in Conns /\ user[q[j].conn] = u
  BY <1>3 DEF DialogInv, Queues, AllKnown, Received
<1>8. DOMAIN q = 1 .. Len(q) /\ Len(q) \in Nat /\ \A j \in DOMAIN q : q[j] \in Dialog
  BY <1>3, LenProperties
<1> HIDE DEF q, r, m, u
<1> DEFINE Good == /\ r \in Seq(Dialog)
                   /\ \A j, k \in DOMAIN r : r[j].id = r[k].id => j = k
                   /\ \A k \in DOMAIN r : \/ \E j \in DOMAIN q : r[k] = q[j]
                                          \/ /\ m.type = "PROMPT" /\ r[k].id = m.id
                                             /\ r[k].epoch = m.epoch /\ r[k].conn = c
                   /\ m.type = "CANCEL" => \A k \in DOMAIN r : r[k].id # m.id
<1>9. ASSUME m.type = "PROMPT" /\ \A i \in DOMAIN q : q[i].id # m.id PROVE Good
  <2> DEFINE e == [id |-> m.id, store |-> m.store, epoch |-> m.epoch, conn |-> c]
  <2>1. e \in Dialog /\ e.id = m.id /\ e.epoch = m.epoch /\ e.conn = c
    BY <1>4, <1>9, InvFacts DEF Dialog, Message
  <2>2. r = Append(q, e)
    BY <1>5, <1>9 DEF Enqueued
  <2> HIDE DEF e
  <2>3. /\ r \in Seq(Dialog) /\ Len(r) = Len(q) + 1
        /\ \A k \in 1 .. Len(q) : r[k] = q[k]
        /\ r[Len(q) + 1] = e
    BY <1>3, <2>1, <2>2, AppendProperties
  <2>4. DOMAIN r = 1 .. Len(q) + 1
    BY <2>3, LenProperties
  <2>5. \A k \in DOMAIN r : (k \in DOMAIN q /\ r[k] = q[k]) \/ (k = Len(q) + 1 /\ r[k] = e)
    BY <1>8, <2>3, <2>4
  <2>6. \A j, k \in DOMAIN r : r[j].id = r[k].id => j = k
    BY <1>7, <1>9, <2>1, <2>5
  <2>7. QED
    BY <1>9, <2>1, <2>3, <2>5, <2>6
<1>10. ASSUME r = q /\ (m.type = "CANCEL" => \A i \in DOMAIN q : q[i].id # m.id) PROVE Good
  BY <1>3, <1>7, <1>10
<1>11. ASSUME m.type = "CANCEL" /\ \E i \in DOMAIN q : q[i].id = m.id PROVE Good
  <2> DEFINE i == CHOOSE i \in DOMAIN q : q[i].id = m.id
  <2>1. i \in DOMAIN q /\ q[i].id = m.id
    BY <1>11
  <2>2. r = RemoveAt(q, i)
    BY <1>5, <1>11 DEF Dropped
  <2> HIDE DEF i
  <2>3. /\ r \in Seq(Dialog)
        /\ \A k \in DOMAIN r : LET j == IF k < i THEN k ELSE k + 1 IN
             k \in Int /\ j \in DOMAIN q /\ j # i /\ r[k] = q[j]
    BY <1>3, <2>1, <2>2, Removed
  <2>4. \A k \in DOMAIN r : r[k].id # m.id /\ \E j \in DOMAIN q : r[k] = q[j]
    BY <1>7, <2>1, <2>3
  <2>5. ASSUME NEW j \in DOMAIN r, NEW k \in DOMAIN r, r[j].id = r[k].id PROVE j = k
    <3>1. (IF j < i THEN j ELSE j + 1) = (IF k < i THEN k ELSE k + 1)
      BY <1>7, <2>3, <2>5
    <3>2. j \in Int /\ k \in Int /\ i \in Int
      BY <1>8, <2>1, <2>3
    <3>3. QED
      BY <3>1, <3>2
  <2>6. QED
    BY <2>3, <2>4, <2>5
<1>12. Good
  <2>1. CASE m.type = "PROMPT" /\ \E i \in DOMAIN q : q[i].id = m.id
    <3>1. r = q
      BY <1>5, <2>1 DEF Enqueued
    <3>2. QED
      BY <1>10, <2>1, <3>1
  <2>2. CASE m.type = "CANCEL" /\ ~ \E i \in DOMAIN q : q[i].id = m.id
    <3>1. r = q
      BY <1>5, <2>2 DEF Dropped
    <3>2. QED
      BY <1>10, <2>2, <3>1
  <2>3. QED
    BY <1>5, <1>9, <1>11, <2>1, <2>2
<1>13. dialogs' \in [Users -> Seq(Dialog)]
  <2>1. \A v \in Users : dialogs'[v] \in Seq(Dialog)
    BY <1>6, <1>12, InvFacts DEF r
  <2>2. QED
    BY <1>6, <2>1
<1>14. Flow'
  <2>1. \A v \in Users : v # user[c] => dialogs'[v] = dialogs[v]
    BY <1>6 DEF u
  <2>2. \/ /\ Head(toUser[c]).type = "PROMPT"
           /\ \A i \in DOMAIN dialogs'[user[c]] :
                 \/ \E j \in DOMAIN dialogs[user[c]] : dialogs'[user[c]][i] = dialogs[user[c]][j]
                 \/ /\ dialogs'[user[c]][i].id = Head(toUser[c]).id
                    /\ dialogs'[user[c]][i].epoch = Head(toUser[c]).epoch
        \/ /\ Head(toUser[c]).type = "CANCEL"
           /\ \A i \in DOMAIN dialogs'[user[c]] :
                 /\ dialogs'[user[c]][i].id # Head(toUser[c]).id
                 /\ \E j \in DOMAIN dialogs[user[c]] : dialogs'[user[c]][i] = dialogs[user[c]][j]
    BY <1>5, <1>12 DEF q, r, m, u
  <2>3. QED
    BY <1>1, <1>13, <2>1, <2>2, DeliverFlow
<1>15. \A id : Known(id)' <=> Known(id)
  BY <1>2 DEF Known
<1>16. AllKnown'
  <2>1. \A d \in Conns : \A k \in DOMAIN toUser'[d] : Known(toUser'[d][k].id)
    <3>1. TAKE d \in Conns
    <3>2. \A k \in DOMAIN toUser[d] : Known(toUser[d][k].id)
      BY DEF DialogInv, Queues, AllKnown
    <3>3. CASE d = c
      <4>1. toUser'[d] = Tail(toUser[c])
        BY <1>1, <3>3, InvFacts
      <4>2. QED
        BY <1>4, <3>2, <3>3, <4>1
    <3>4. CASE d # c
      <4>1. toUser'[d] = toUser[d]
        BY <1>1, <3>4, InvFacts
      <4>2. QED
        BY <3>2, <4>1
    <3>5. QED
      BY <3>3, <3>4
  <2>2. \A v \in Users : \A k \in DOMAIN dialogs'[v] : Known(dialogs'[v][k].id)
    <3>1. \A k \in DOMAIN r : Known(r[k].id)
      BY <1>4, <1>7, <1>12
    <3>2. \A v \in Users : v # u => \A k \in DOMAIN dialogs'[v] : Known(dialogs'[v][k].id)
      BY <1>6 DEF DialogInv, Queues, AllKnown
    <3>3. QED
      BY <3>1, <3>2 DEF r
  <2>3. AllKnown /\ \A o \in Ops : IdOf(o)' = IdOf(o)
    BY <1>2 DEF IdOf, DialogInv, Queues
  <2>4. \A d \in Conns : \A k \in DOMAIN toHub'[d] : Known(toHub[d][k].id)'
    BY <1>1, <1>15, <2>3 DEF AllKnown
  <2>5. \A v \in Users : \A k \in DOMAIN dialogs'[v] : Known(dialogs[v][k].id)'
    BY <1>15, <2>2
  <2>6. \A d \in Conns : \A k \in DOMAIN toUser'[d] : Known(toUser[d][k].id)'
    BY <1>15, <2>1
  <2>7. (\A id \in expired' : Known(id)') /\ \A o \in Ops : prompt'[o] # None => Known(IdOf(o))'
    BY <1>1, <1>15, <2>3 DEF AllKnown
  <2>8. QED
    BY <1>2, <2>4, <2>5, <2>6, <2>7 DEF AllKnown
<1>17. Received'
  <2>0. Received
    BY DEF DialogInv, Queues
  <2>1. \A v \in Users : \A k \in DOMAIN dialogs'[v] :
          dialogs'[v][k].conn \in Conns /\ user[dialogs'[v][k].conn] = v
    <3>1. \A k \in DOMAIN r : r[k].conn \in Conns /\ user[r[k].conn] = u
      BY <1>7, <1>12 DEF u
    <3>2. QED
      BY <1>6, <2>0, <3>1 DEF Received, r
  <2>2. \A v \in Users : \A j, k \in DOMAIN dialogs'[v] : dialogs'[v][j].id = dialogs'[v][k].id => j = k
    BY <1>6, <1>12, <2>0 DEF Received, r
  <2>3. QED
    BY <1>2, <2>0, <2>1, <2>2 DEF Received
<1>18. QueueTypes'
  <2>1. toUser' \in [Conns -> Seq(Message)]
    BY <1>1, <1>4, InvFacts
  <2>2. QED
    BY <1>1, <1>2, <1>13, <2>1, InvFacts DEF QueueTypes
<1>19. QED
  BY <1>14, <1>16, <1>17, <1>18 DEF Queues

\* A sequence with one more entry.
Longer(S, n, f, e, r) ==
  r \in [1 .. n + 1 -> S] /\ r[n + 1] = e /\ \A k \in 1 .. n : r[k] = f[k]

LEMMA OneMore ==
  ASSUME NEW S, NEW n \in Nat, NEW f \in [1 .. n -> S], NEW e \in S, NEW r, r = Append(f, e)
  PROVE  Longer(S, n, f, e, r)
<1>1. f \in Seq(S) /\ DOMAIN f = 1 .. n
  BY SeqDef
<1>2. Len(f) = n
  BY <1>1, LenProperties
<1>3. /\ r \in Seq(S) /\ Len(r) = n + 1 /\ r[n + 1] = e
      /\ \A k \in 1 .. n : r[k] = f[k]
  BY <1>1, <1>2, AppendProperties
<1>4. QED
  BY <1>3, LenProperties DEF Longer

\* A user who connects has no message and no answer on the way over the new connection, and
\* no dialog from it; a user who was never connected has no dialog at all.
LEMMA ConnectDialogs ==
  ASSUME DialogInv, NEW u \in Users, Connect(u)
  PROVE  Queues' /\ Flow'
<1> DEFINE n == Len(user)  c0 == n + 1
<1>0. /\ up \subseteq Conns /\ toUser \in [1 .. n -> Seq(Message)] /\ toHub \in [1 .. n -> Seq(Response)]
      /\ user \in [1 .. n -> Users] /\ n \in Nat
      /\ Conns = 1 .. n /\ dialogs \in [Users -> Seq(Dialog)]
  BY InvFacts, LenProperties DEF RoutingTypes, Conns
<1>1. /\ \A c \in up : user[c] # u
      /\ user' = Append(user, u) /\ up' = up \cup {c0}
      /\ toUser' = Append(toUser, <<>>) /\ toHub' = Append(toHub, <<>>)
      /\ UNCHANGED <<setting, context, asked, prompt, expired, dialogs>>
  BY DEF Connect, ConnOf, opVars
<1> HIDE DEF n
<1>2. user' \in [1 .. n + 1 -> Users] /\ user'[n + 1] = u /\ \A c \in 1 .. n : user'[c] = user[c]
  <2>1. Longer(Users, n, user, u, user')
    BY <1>0, <1>1, OneMore
  <2>2. QED
    BY <2>1 DEF Longer
<1>3. /\ toUser' \in [1 .. n + 1 -> Seq(Message)] /\ toUser'[n + 1] = <<>>
      /\ \A c \in 1 .. n : toUser'[c] = toUser[c]
  <2>1. <<>> \in Seq(Message)
    OBVIOUS
  <2>2. Longer(Seq(Message), n, toUser, <<>>, toUser')
    BY <1>0, <1>1, <2>1, OneMore
  <2>3. QED
    BY <2>2 DEF Longer
<1>4. /\ toHub' \in [1 .. n + 1 -> Seq(Response)] /\ toHub'[n + 1] = <<>>
      /\ \A c \in 1 .. n : toHub'[c] = toHub[c]
  <2>1. <<>> \in Seq(Response)
    OBVIOUS
  <2>2. Longer(Seq(Response), n, toHub, <<>>, toHub')
    BY <1>0, <1>1, <2>1, OneMore
  <2>3. QED
    BY <2>2 DEF Longer
<1>n. /\ up' = up \cup {c0} /\ user'[c0] = u /\ DOMAIN toUser'[c0] = {} /\ DOMAIN toHub'[c0] = {}
      /\ \A c \in up : user'[c] = user[c] /\ user[c] # u
  <2>1. up' = up \cup {c0} /\ user'[c0] = u /\ \A c \in up : user'[c] = user[c] /\ user[c] # u
    BY <1>0, <1>1, <1>2
  <2>2. \A q : q = <<>> => DOMAIN q = {}
    OBVIOUS
  <2>3. DOMAIN toUser'[c0] = {} /\ DOMAIN toHub'[c0] = {}
    BY <1>3, <1>4, <2>2
  <2>4. QED
    BY <2>1, <2>3
<1>5. Conns' = 1 .. n + 1 /\ (\A c \in Conns' : c \in Conns \/ c = c0) /\ c0 \notin Conns /\ Conns \subseteq Conns'
  <2>1. Len(user') = n + 1
    BY <1>0, <1>1, AppendProperties, LenProperties, InvFacts DEF RoutingTypes, n
  <2>2. QED
    BY <1>0, <2>1 DEF Conns
<1> HIDE DEF c0
<1>6. AllKnown /\ Received
  BY DEF DialogInv, Queues
<1>7. \A id : Known(id)' <=> Known(id)
  BY <1>1 DEF Known
<1>8. \A o \in Ops : IdOf(o)' = IdOf(o) /\ CtxOf' = CtxOf
  BY <1>1 DEF IdOf, CtxOf
<1>9. Queues'
  <2>1. QueueTypes'
    BY <1>0, <1>1, <1>3, <1>4, <1>5 DEF QueueTypes
  <2>2. AllKnown'
    <3>1. \A c \in Conns' : \A k \in DOMAIN toUser'[c] : Known(toUser[c][k].id)'
      BY <1>0, <1>3, <1>5, <1>6, <1>7, <1>n DEF AllKnown
    <3>2. \A c \in Conns' : \A k \in DOMAIN toHub'[c] : Known(toHub[c][k].id)'
      BY <1>0, <1>4, <1>5, <1>6, <1>7, <1>n DEF AllKnown
    <3>3. \A v \in Users : \A i \in DOMAIN dialogs'[v] : Known(dialogs[v][i].id)'
      BY <1>1, <1>6, <1>7 DEF AllKnown
    <3>4. (\A id \in expired' : Known(id)') /\ \A o \in Ops : prompt'[o] # None => Known(IdOf(o))'
      BY <1>1, <1>6, <1>7, <1>8 DEF AllKnown
    <3>5. QED
      BY <3>1, <3>2, <3>3, <3>4 DEF AllKnown
  <2>3. Received'
    <3>1. \A v \in Users : \A i \in DOMAIN dialogs[v] :
            dialogs[v][i].conn \in Conns' /\ user'[dialogs[v][i].conn] = v
      BY <1>0, <1>2, <1>5, <1>6 DEF Received
    <3>2. \A a, b \in up' : user'[a] = user'[b] => a = b
      BY <1>6, <1>n DEF Received
    <3>3. QED
      BY <1>1, <1>6, <3>1, <3>2 DEF Received
  <2>4. QED
    BY <2>1, <2>2, <2>3 DEF Queues
<1>10. \A c \in up : /\ c \in Conns /\ c # c0 /\ user'[c] = user[c] /\ toUser'[c] = toUser[c] /\ toHub'[c] = toHub[c]
                     /\ Only(c)' => Only(c)
  <2>1. \A c \in up : c \in Conns /\ user'[c] = user[c] /\ toUser'[c] = toUser[c] /\ toHub'[c] = toHub[c]
    BY <1>0, <1>2, <1>3, <1>4
  <2>2. \A b \in Conns : user'[b] = user[b] /\ b \in Conns'
    BY <1>0, <1>2, <1>5
  <2>3. QED
    BY <1>5, <2>1, <2>2 DEF Only
<1>11. \A d, id : Live(id, d)' <=> Live(id, d)
  BY <1>1, <1>8 DEF Live
<1>12. \A c \in up : \A k, id : Settling(c, k, id)' <=> Settling(c, k, id)
  BY <1>1, <1>10, <1>11 DEF Settling, CancelAfter
<1>13. \A c \in up : \A id : /\ NotSent(c, id)' <=> NotSent(c, id)
                             /\ NotAnswered(c, id)' <=> NotAnswered(c, id)
  BY <1>10 DEF NotSent, NotAnswered
<1>14. \A v, id : NotShown(v, id)' <=> NotShown(v, id)
  BY <1>1 DEF NotShown
<1>15. SentOnce'
  <2> SUFFICES ASSUME NEW c \in up', NEW k \in DOMAIN toUser'[c], NEW id \in Ids,
                      toUser'[c][k].type = "PROMPT", toUser'[c][k].id = id,
                      Counted(c, toUser[c][k].epoch)'
               PROVE  SentWell(c, k, id)'
    BY DEF SentOnce
  <2>1. c \in up
    BY <1>n
  <2>2. toUser'[c] = toUser[c] /\ Counted(c, toUser[c][k].epoch)
    BY <1>10, <2>1 DEF Counted
  <2>3. SentWell(c, k, id)
    BY <2>1, <2>2 DEF DialogInv, Flow, SentOnce
  <2>4. NotShown(user[c], id)'
    BY <1>10, <1>14, <2>1, <2>3 DEF SentWell
  <2>5. QED
    BY <1>12, <1>13, <2>1, <2>2, <2>3, <2>4 DEF SentWell
<1>16. ShownOnce'
  <2> SUFFICES ASSUME NEW c \in up', NEW i \in DOMAIN dialogs[user'[c]], NEW id \in Ids,
                      dialogs[user'[c]][i].id = id, dialogs[user'[c]][i].conn = c,
                      Counted(c, dialogs[user[c]][i].epoch)'
               PROVE  ShownWell(c, id)'
    BY <1>1 DEF ShownOnce
  <2>1. c \in up
    <3>1. user'[c] \in Users
      BY <1>n, <1>0
    <3>2. c \in Conns
      BY <1>6, <3>1 DEF Received
    <3>3. QED
      BY <1>5, <1>n, <3>2
  <2>2. user'[c] = user[c] /\ Counted(c, dialogs[user[c]][i].epoch)
    BY <1>1, <1>10, <2>1 DEF Counted
  <2>3. ShownWell(c, id)
    BY <2>1, <2>2 DEF DialogInv, Flow, ShownOnce
  <2>4. QED
    BY <1>12, <1>13, <2>1, <2>3 DEF ShownWell
<1>17. Elsewhere'
  <2> SUFFICES ASSUME NEW o \in Ops, NEW d \in up', NEW id \in Ids,
                      prompt[o] # None, id = IdOf(o), d # context[CtxOf[o]], Only(d)'
               PROVE  NotSent(d, id)' /\ NotShown(user[d], id)' /\ NotAnswered(d, id)'
    BY <1>1, <1>8 DEF Elsewhere
  <2>1. CASE d \in up
    <3>1. NotSent(d, id) /\ NotShown(user[d], id) /\ NotAnswered(d, id)
      BY <1>10, <2>1 DEF DialogInv, Flow, Elsewhere
    <3>2. NotShown(user[d], id)'
      BY <1>10, <1>14, <2>1, <3>1
    <3>3. QED
      BY <1>13, <2>1, <3>1, <3>2
  <2>2. CASE d = c0
    <3>1. NotSent(d, id)' /\ NotAnswered(d, id)'
      BY <1>n, <2>2 DEF NotSent, NotAnswered
    <3>2. \A b \in Conns : user[b] # u
      <4>1. \A b \in Conns : b \in Conns' /\ b # c0 /\ user'[b] = user[b]
        BY <1>0, <1>2, <1>5
      <4>2. QED
        BY <1>n, <2>2, <4>1 DEF Only
    <3>3. NotShown(u, id)
      BY <1>6, <3>2 DEF Received, NotShown
    <3>4. user'[d] = u
      BY <1>n, <2>2
    <3>5. NotShown(user[d], id)'
      BY <1>14, <3>3, <3>4
    <3>6. QED
      BY <3>1, <3>5
  <2>3. QED
    BY <1>n, <2>1, <2>2
<1>18. Unsettled'
  <2>1. \A o \in Ops : prompt[o] # None =>
          /\ IdOf(o) \notin expired
          /\ \A c \in up : \A k \in DOMAIN toUser[c] :
               toUser[c][k].type = "CANCEL" => toUser[c][k].id # IdOf(o)
    BY DEF DialogInv, Flow, Unsettled
  <2>2. \A c \in up' : c \in up \/ DOMAIN toUser'[c] = {}
    BY <1>n
  <2>3. prompt' = prompt /\ expired' = expired /\ \A c \in up : toUser'[c] = toUser[c]
    BY <1>1, <1>10
  <2>4. QED
    BY <1>8, <2>1, <2>2, <2>3 DEF Unsettled
<1>19. QED
  BY <1>9, <1>15, <1>16, <1>17, <1>18 DEF Flow

\* Every step keeps the invariant.
LEMMA DialogStep == DialogInv /\ [Next]_vars => DialogInv'
<1> SUFFICES ASSUME DialogInv, [Next]_vars PROVE Queues' /\ Flow'
  BY RouteStep DEF DialogInv
<1>1. ASSUME NEW c \in Conns, TakePart(c) PROVE Queues' /\ Flow'
  BY <1>1, QuietStep DEF TakePart, opVars
<1>2. CASE UNCHANGED vars
  BY <1>2, QuietStep DEF vars, connVars, opVars
<1>3. ASSUME NEW o \in Ops, AskSecret(o) \/ AskVerify(o) \/ AskElevation(o) PROVE Queues' /\ Flow'
  BY <1>3, AskDialogs DEF AskSecret, AskVerify, AskElevation, Stores
<1>4. ASSUME NEW o \in Ops, AskNobody(o) \/ FinishConnect(o) \/ FinishTest(o) \/ FinishElevation(o)
      PROVE  Queues' /\ Flow'
  BY <1>4, CloseDialogs DEF FinishConnect, FinishTest, FinishElevation
<1>5. ASSUME NEW x \in Contexts, CloseSession(x) \/ ClearElevation(x) PROVE Queues' /\ Flow'
  BY <1>5, CloseDialogs DEF CloseSession, ClearElevation
<1>6. ASSUME NEW o \in Ops, StartConnect(o) \/ StartTest(o) \/ StartElevation(o) PROVE Queues' /\ Flow'
  BY <1>6, StartDialogs DEF Start
<1>7. QED
  BY <1>1, <1>2, <1>3, <1>4, <1>5, <1>6, ConnectDialogs, AnswerDialogs, DismissDialogs, DisconnectDialogs,
     DeliverDialogs, RespondDialogs, ExpireDialogs DEF Next

\* Nothing is queued at first.
LEMMA DialogInit == Init => DialogInv
<1> SUFFICES ASSUME Init PROVE DialogInv
  OBVIOUS
<1>1. RouteInv
  BY RouteInit
<1>2. Conns = {} /\ up = {} /\ \A u \in Users : dialogs[u] = <<>>
  BY DEF Init, Conns
<1>3. Queues
  <2>1. toUser \in [Conns -> Seq(Message)] /\ toHub \in [Conns -> Seq(Response)]
    BY <1>2 DEF Init
  <2>2. dialogs \in [Users -> Seq(Dialog)]
    BY DEF Init
  <2>3. AllKnown /\ Received
    BY <1>2 DEF Init, AllKnown, Received
  <2>4. QED
    BY <2>1, <2>2, <2>3 DEF Queues, QueueTypes
<1>4. Flow
  BY <1>2 DEF Init, Flow, SentOnce, ShownOnce, Elsewhere, Unsettled
<1>5. QED
  BY <1>1, <1>3, <1>4 DEF DialogInv

-----------------------------------------------------------------------------
(* Results.                                                                *)

\* Connections, contexts, operations and prompts keep their types, and an operation waits
\* exactly while it has a prompt.
THEOREM RoutingTypeCorrect == Spec => []RoutingTypes
<1>1. RouteInv => RoutingTypes
  BY DEF RouteInv
<1>2. QED
  BY <1>1, RouteAlways, PTL

\* Whoever leaves, in whatever order: a prompt that is waited for has a connected client.
THEOREM PromptsStayRouted == Spec => []NoOrphanPrompt
<1>1. RouteInv => NoOrphanPrompt
  BY DEF RouteInv
<1>2. QED
  BY <1>1, RouteAlways, PTL

\* The question of a test or of an elevation stays with the client that asked for it.
THEOREM OwnedRoutesStay == Spec => OwnedRouteFixed
<1> DEFINE Fixed == \A x \in Contexts : ~Movable(x) /\ context[x] # None =>
                      context'[x] \in {context[x], None}
<1>1. RouteInv /\ [Next]_vars => Fixed
  <2> SUFFICES ASSUME RouteInv, [Next]_vars,
                      NEW x \in Contexts, ~Movable(x), context[x] # None
               PROVE  context'[x] \in {context[x], None}
    OBVIOUS
  <2>0. RoutingTypes /\ \A o \in Ops : CtxOf[o] \in Contexts
    BY PromptAssumption DEF RouteInv, RoutingTypes, CtxOf
  <2>1. ASSUME NEW c \in Conns, Disconnect(c) PROVE context'[x] \in {context[x], None}
    <3>1. context'[x] = IF context[x] = c THEN Candidate(x, {c}) ELSE context[x]
      BY <2>1 DEF Disconnect, RoutesWithout
    <3>2. QED
      BY <2>0, <3>1, CandidateIsOpen
  <2>2. ASSUME NEW o \in Ops, Start(o) PROVE context'[x] \in {context[x], None}
    <3>0. op[o] = "idle" /\ \E c \in up : \/ context' = context
                                        \/ context' = [context EXCEPT ![CtxOf[o]] = c]
      BY <2>2, StartFacts
    <3>1. CASE x = CtxOf[o]
      BY <3>0, <3>1 DEF RouteInv, OwnerStarted
    <3>2. CASE x # CtxOf[o]
      BY <2>0, <3>0, <3>2 DEF RoutingTypes
    <3>3. QED
      BY <3>1, <3>2
  <2>3. ASSUME NEW o \in Ops, NEW store, Ask(o, store) PROVE context'[x] \in {context[x], None}
    <3>1. context'[x] = IF x = CtxOf[o] THEN RouteFor(o) ELSE context[x]
      BY <2>0, <2>3 DEF Ask, RoutingTypes
    <3>2. RouteFor(o) # None
      BY <2>3 DEF Ask
    <3>3. QED
      BY <2>0, <3>1, <3>2, RouteIsOpen
  <2>4. ASSUME NEW y \in Contexts, NEW ended, Clear(y, ended) PROVE context'[x] \in {context[x], None}
    BY <2>0, <2>4 DEF Clear, RoutingTypes
  <2>5. ASSUME NEW o \in Ops, AskNobody(o) \/ Finish(o) PROVE context'[x] \in {context[x], None}
    BY <2>0, <2>4, <2>5 DEF AskNobody, Finish
  <2>6. ASSUME NEW y \in Contexts, ClearContext(y) PROVE context'[x] \in {context[x], None}
    BY <2>4, <2>6 DEF ClearContext
  <2>7. ASSUME NEW u \in Users, Connect(u) \/ Answer(u) \/ Dismiss(u) PROVE context' = context
    BY <2>7 DEF Connect, Answer, Dismiss
  <2>8. ASSUME NEW c \in Conns, TakePart(c) \/ Deliver(c) \/ Respond(c) PROVE context' = context
    BY <2>8 DEF TakePart, Deliver, Respond
  <2>9. ASSUME NEW o \in Ops, Expire(o) PROVE context' = context
    BY <2>9 DEF Expire
  <2>10. CASE UNCHANGED vars
    BY <2>10 DEF vars
  <2>11. ASSUME NEW o \in Ops, AskSecret(o) \/ AskVerify(o) \/ AskElevation(o)
         PROVE  context'[x] \in {context[x], None}
    BY <2>3, <2>11 DEF AskSecret, AskVerify, AskElevation
  <2>12. ASSUME NEW o \in Ops, FinishConnect(o) \/ FinishTest(o) \/ FinishElevation(o)
         PROVE  context'[x] \in {context[x], None}
    BY <2>5, <2>12 DEF FinishConnect, FinishTest, FinishElevation
  <2>13. ASSUME NEW y \in Contexts, CloseSession(y) \/ ClearElevation(y)
         PROVE  context'[x] \in {context[x], None}
    BY <2>6, <2>13 DEF CloseSession, ClearElevation
  <2>14. ASSUME NEW o \in Ops, StartConnect(o) \/ StartTest(o) \/ StartElevation(o)
         PROVE  context'[x] \in {context[x], None}
    BY <2>2, <2>14 DEF Start
  <2>15. ASSUME NEW o \in Ops, AskNobody(o) PROVE context'[x] \in {context[x], None}
    BY <2>5, <2>15
  <2>16. QED
    BY <2>1, <2>7, <2>8, <2>9, <2>10, <2>11, <2>12, <2>13, <2>14, <2>15 DEF Next
<1>2. QED
  BY <1>1, RouteAlways, PTL DEF Spec, OwnedRouteFixed

\* Whatever the messages and answers in flight: a client that has handled all it was sent
\* shows no dialog for a prompt that was answered, moved or given up.
THEOREM DialogsStayLive == Spec => []DialogIsLive
<1>1. Spec => []DialogInv
  BY DialogInit, DialogStep, PTL DEF Spec
<1>2. QED
  BY <1>1, DialogInvSuffices, PTL
=============================================================================
