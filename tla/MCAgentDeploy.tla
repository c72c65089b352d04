---------------------------- MODULE MCAgentDeploy ----------------------------
EXTENDS AgentDeploy, TLC
CONSTANTS t1, t2, u1, u2, d1, d2
All(n) == [t \in Targets |-> n]
One(n, m) == [All(m) EXCEPT ![t1] = n]
MCCasts == {
  [who |-> {u1, u2}, builds |-> All(0), presses |-> All(1), drops |-> {}, changes |-> {}],
  [who |-> {u1}, builds |-> All(0), presses |-> One(2, 1), drops |-> {}, changes |-> {}],
  [who |-> {u1}, builds |-> One(1, 0), presses |-> One(2, 0), drops |-> {u1}, changes |-> {}],
  [who |-> {Cli}, builds |-> All(2), presses |-> All(0), drops |-> {}, changes |-> {}],
  [who |-> {d1}, builds |-> One(2, 0), presses |-> All(0), drops |-> {}, changes |-> {"agent"}],
  [who |-> {d1, d2}, builds |-> One(1, 0), presses |-> All(0), drops |-> {}, changes |-> {}],
  [who |-> {d1, d2}, builds |-> All(0), presses |-> All(0), drops |-> {}, changes |-> {"key", "agent"}]}
=============================================================================
