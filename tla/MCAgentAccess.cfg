CONSTANTS
  m1 = m1  m2 = m2
  c1 = c1  c2 = c2
  r1 = r1  r2 = r2
  Machines = {m1, m2}
  Credentials = {c1, c2}
  Requests = {1}
  Revocations = {r1, r2}
  Shared = Shared
  None = None
  NoData = NoData
SPECIFICATION AccessSpec
SYMMETRY AccessSymmetry
INVARIANTS WritesAreAuthorised ToldIsShown
PROPERTY NoTokenIsLost
