SPECIFICATION Spec
CONSTANTS
  r1 = r1
  q1 = q1
  q2 = q2
  Runs = {r1}
  Ids = {q1, q2}
  Null = Null
  MaxCommands <- MCCommands
  Waiting = {}
  MaxDecisions = 1
  MaxFaults = 2
SYMMETRY Symmetry
INVARIANTS
  ApprovedIsCarriedOn
  HistoryKeepsUp
