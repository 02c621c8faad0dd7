SPECIFICATION Spec
CONSTANTS
  MaxChats = 2
  MaxIds = 5
  MaxStored = 2
  MaxDecisions = 1
  MaxFaults = 2
  Agents = {g1}
  Null = Null
CHECK_DEADLOCK FALSE
INVARIANTS
  InStep
  UserWordsAreKept
  DecisionsAreTrue
  AgentIsThePick
  OneReplyAtATime
