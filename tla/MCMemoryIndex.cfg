SPECIFICATION FairSpec
CONSTANTS
  Memories = {m1}
  Texts = {t1, t2}
  Models = {e1, e2}
  Clients = {c1, c2}
  BatchSize = 1
  MaxChanges = 2
  MaxFaults = 1
  Null = Null
INVARIANTS
  IndexFollows
PROPERTIES
  BackfillCatchesUp
CHECK_DEADLOCK FALSE
