CONSTANTS
  b1 = b1  b2 = b2
  ann = ann  bob = bob
  Browsers = {b1, b2}
  Emails = {ann, bob}
  MaxAttempts = 2
  Window = 2
  Nobody = Nobody
  Foreign = Foreign
SPECIFICATION AccountsSpec
SYMMETRY EmailSymmetry
INVARIANTS AnAdminExists UserMatchesToken BurstIsBounded
