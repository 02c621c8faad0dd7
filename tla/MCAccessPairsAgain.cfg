\* A device whose session expired, was revoked or never arrived cannot pair again.
SPECIFICATION AccessSpec

CONSTANTS
  None = None
  f1 = f1
  f2 = f2
  f3 = f3
  Forms = {f1, f2, f3}
  Email <- MCEmail
  Name <- MCName
  Tokens = {t1, t2}
  Fingerprints = {d1, d2}
  MaxSessions = 3
  MaxFailures = 0

SYMMETRY Symmetry

INVARIANTS
  PairsAgain


\* Every device may be revoked and every token used: the system really may stop.
CHECK_DEADLOCK FALSE
