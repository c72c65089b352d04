--------------------------- MODULE MCLocalMachine ---------------------------
EXTENDS LocalMachine, TLC
CONSTANTS a, b

Cast(x, y, h, n) == [role |-> a :> x @@ b :> y, hubs |-> h, closes |-> n, agent |-> FALSE]
AgentCast == [Cast("absent", "absent", 1, 0) EXCEPT !.agent = TRUE]

MCCasts == {Cast("app", "absent", 1, 2), Cast("app", "app", 2, 0), Cast("launch", "stop", 2, 0),
            Cast("quit", "stopForce", 2, 0), AgentCast}
=============================================================================
