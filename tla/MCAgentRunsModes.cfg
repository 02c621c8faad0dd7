SPECIFICATION FairSpec
CONSTANTS
  Actions = {p1}
  Runs = {r1}
  Agents = {g1}
  Workers = {w1}
  Workspaces = {ws1, ws2}
  Tools = {"bash", "write_file"}
  Modes = {"ask", "auto", "bypass"}
  MaxSteps = 3
  MaxFaults = 1
  Null = Null
INVARIANTS
  CallsAreAllowed
PROPERTIES
  RunsEnd
CHECK_DEADLOCK FALSE
