SPECIFICATION FairSpec
CONSTANTS
  Workflows = {w1, w2}
  Handlers = {h1, h2}
  Requests = {q1}
  MaxStimuli = 2
  MaxFaults = 1
  MaxCount = 2
  Null = Null
INVARIANTS
  InFlightIsExact
  RunsAreCounted
PROPERTIES
  DueRuns
  SelfTriggersStop
CHECK_DEADLOCK FALSE
