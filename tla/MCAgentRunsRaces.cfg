SPECIFICATION Spec
CONSTANTS
  Actions = {p1, p2}
  Runs = {r1, r2}
  Agents = {g1}
  Workers = {w1, w2}
  Workspaces = {ws1}
  Tools = {"bash"}
  Modes = {"ask"}
  MaxSteps = 2
  MaxFaults = 2
  Null = Null
SYMMETRY Symmetry
INVARIANTS
  TypeOK
  RunsOnceAsApproved
  ActiveIsInProgress
  WaitingFits
  NothingWaitsInVain
PROPERTIES
  ClosedRunsStay
  WaitsForTheUser
  KeepsContract
CHECK_DEADLOCK FALSE
