CONSTANTS
  m1 = m1  m2 = m2
  emulator = emulator  phone = phone
  ann = ann  bob = bob  tab = tab
  Machines = {m1, m2}
  Udids = {emulator, phone}
  Devices <- MCTwins
  Users = {ann, bob}
  Admins = {ann}
  Sessions = {tab}
  LockTTL = NoTTL
  NoTTL = NoTTL
  NoLock = NoLock
  Requests = {1, 2}
  OfflineAfter = 1
  MaxSilence = 1
  MortalAgents = {m1, m2}
  ReturningAgents = {}
  Pluggable = {}
  FlakyDevices <- MCEmulator
  CallsMayFail = TRUE
  HubMayRestart = FALSE
  SlowHub = TRUE
  LockUsers = {ann}
SPECIFICATION RegistryFairSpec
INVARIANT AttachedStaysAvailable
PROPERTY DeadHostGoesDark
