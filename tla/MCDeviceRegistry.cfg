CONSTANTS
  m1 = m1  m2 = m2
  emulator = emulator  phone = phone
  ann = ann  bob = bob  tab = tab
  Machines = {m1}
  Udids = {emulator, phone}
  Devices <- MCPhone
  Users = {ann, bob}
  Admins = {ann}
  Sessions = {tab}
  LockTTL = 1
  NoTTL = NoTTL
  NoLock = NoLock
  Requests = {1, 2}
  OfflineAfter = 1
  MaxSilence = 2
  MortalAgents = {m1}
  ReturningAgents = {m1}
  Pluggable <- MCPhone
  FlakyDevices = {}
  CallsMayFail = TRUE
  HubMayRestart = TRUE
  SlowHub = TRUE
  LockUsers = {ann, bob}
SPECIFICATION RegistryFairSpec
PROPERTIES ReportedKeepsItsLock RegistryHeals
