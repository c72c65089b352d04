SPECIFICATION MachineSpec
CONSTANTS
  a = a  b = b
  None = None
  Callers = {a, b}
  Casts <- MCCasts
  MaxHubs = 2
  MaxDaemons = 2
INVARIANTS QuitConfirmed AnsweredBeforeClose StopIsExact RecordsWithdrawn
PROPERTIES HubEnds
CHECK_DEADLOCK FALSE
