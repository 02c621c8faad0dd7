SPECIFICATION Spec
CONSTANTS
  w1 = w1
  w2 = w2
  r1 = r1
  r2 = r2
  Null = Null
  Workspaces = {w1, w2}
  Starters = {r1}
  Others = {r2}
  Home <- MCHome
  MaxLoads = 2
  MaxChanges = 1
  MaxFaults = 1
INVARIANTS
  RowsAreOfTheWorkspace
  SpinnerEnds
  ShowsTheServer
PROPERTIES
  StartersComeOnce
