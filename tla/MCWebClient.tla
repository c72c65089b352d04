---------------------------- MODULE MCWebClient ----------------------------
EXTENDS WebClient

CONSTANTS a, b, g, k, h1, h2
MCHostOf == a :> h1 @@ b :> h2
MCGroupOf == g :> h1 @@ k :> h2

(* Two channels, or two groups. *)
MCCasts ==
  {[channels |-> {a, b}, groups |-> {}], [channels |-> {}, groups |-> {g, k}]}
Swap == {a :> b @@ b :> a @@ g :> k @@ k :> g @@ h1 :> h2 @@ h2 :> h1}

(* What a superseded fetch has read is never used. *)
View ==
  <<hubVars, shown, wire, connVars, host, gen, loading, error, storeVars, spawn, callVars,
    {f \in fetches : ~Superseded(f)}, Cardinality({f \in fetches : Superseded(f)})>>
============================================================================
