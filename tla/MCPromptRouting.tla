-------------------------- MODULE MCPromptRouting --------------------------
EXTENDS PromptRouting, TLC

CONSTANTS first, second, shared, own

(* A first spawn beside a connection test or an elevated spawn, and two    *)
(* reconnect attempts of one host, which share a context.                  *)
MCSettings ==
  { [of |-> first :> shared @@ second :> own,
     kind |-> shared :> "session" @@ own :> "test"],
    [of |-> first :> shared @@ second :> own,
     kind |-> shared :> "session" @@ own :> "elevation"],
    [of |-> first :> shared @@ second :> shared,
     kind |-> shared :> "reconnect" @@ own :> "elevation"] }

(* Left out of the view: the client of an operation that will ask no more, *)
(* and timeouts of prompts of which no dialog or message is left.          *)
Seen ==
  UNION ({{q[i].id : i \in DOMAIN q} : q \in {dialogs[u] : u \in Users}}
    \cup {{q[i].id : i \in DOMAIN q} : q \in {toUser[c] : c \in Conns}})
View ==
  <<connVars, context, op, asked, prompt, toUser, toHub, dialogs, expired \cap Seen,
    [o \in Ops |-> IF op[o] = "running" /\ asked[o] < MaxAsks THEN by[o] ELSE None]>>

Swap == Permutations(Users)
============================================================================
