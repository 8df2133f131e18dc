CONSTANTS
  m1 = m1  m2 = m2
  emulator = emulator  phone = phone
  ann = ann  bob = bob  cleo = cleo
  tab = tab  r1 = r1  r2 = r2
  Machines = {m1}
  Udids = {emulator, phone}
  Devices <- MCPhone
  Users = {ann, bob, cleo}
  Admins = {ann}
  Sessions = {tab, r1, r2}
  LockTTL = NoTTL
  NoTTL = NoTTL
  NoLock = NoLock
  Runs = {r1, r2}
  Operators = {bob}
  LockUsers = {cleo}
  Unpluggable = {}
  WorkspaceMayFail = FALSE
  SpawnMayFail = TRUE
  MaxFaults = 0
  MaxCrashes = 2
SPECIFICATION HistoryFairSpec
INVARIANT NoZombieRun
PROPERTIES ResultIsFinal EveryRunEnds KilledRunIsCancelled
