CONSTANTS
  m1 = m1  m2 = m2
  emulator = emulator  phone = phone
  ann = ann  bob = bob  cleo = cleo
  tab = tab  r1 = r1  r2 = r2
  Machines = {m1}
  Udids = {emulator, phone}
  Devices <- MCPhone
  Users = {ann, bob, cleo}
  Admins = {ann}
  Sessions = {r1, r2}
  LockTTL = 1
  NoTTL = NoTTL
  NoLock = NoLock
  Runs = {r1, r2}
  Operators = {bob}
  LockUsers = {ann}
  Unpluggable <- MCPhone
  WorkspaceMayFail = TRUE
  SpawnMayFail = FALSE
  MaxFaults = 1
  MaxCrashes = 1
SPECIFICATION HistorySpec
SYMMETRY RunSymmetry
INVARIANTS RunLockHasItsRun NothingRunsAfterTheEnd ResultMatchesStages OneRunPerDevice
PROPERTY ReleasesOnlyItsOwn
CONSTRAINT OneTrouble
