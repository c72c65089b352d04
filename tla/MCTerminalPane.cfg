CONSTANTS
  Shells = {s1, s2}
  Pending = Pending
  Me = Me
  Other = Other
  Nobody = Nobody
  MaxOutput = 2
  MaxEvents = 2
  MaxSteps = 3
SPECIFICATION PaneSpec
SYMMETRY Alike
CHECK_DEADLOCK FALSE
INVARIANTS  WriterCanType
