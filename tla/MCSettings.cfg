SPECIFICATION Spec
CONSTANTS
  p1 = p1
  p2 = p2
  k1 = k1
  t1 = t1
  CloudProviders = {p1, p2}
  Keys = {k1}
  Local = {t1}
  Envs <- MCEnvs
  EnvKey = EnvKey
  Null = Null
  MaxRequests = 2
  MaxFaults = 2
INVARIANTS
  KeyInUse
  PanelShowsServer
