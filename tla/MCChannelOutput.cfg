SPECIFICATION Spec
CONSTANTS
  Clients = {a}
  Calls = {k}
  None = None
  MaxConcurrent = 1
  MaxOutput = 2
  MaxRequests = 2
  MaxSets = 2
  MaxFaults = 1
INVARIANTS SeqFresh TailIsSuffix RestartKeepsClients
CHECK_DEADLOCK FALSE
