SPECIFICATION FairSpec
CONSTANTS
  Calls = {"script", "search", "read"}
  Conns = {k1, k2, k3}
  ToolOf <- MCToolOf
  Posix = TRUE
  MaxFaults = 1
  Null = Null
INVARIANTS
  AnswersAreTrue
  ConnectedIsLive
PROPERTIES
  WorkingIsLeftAlone
  KeepsCallContract
  ComesToRest
CHECK_DEADLOCK FALSE
