CONSTANTS
  m1 = m1  m2 = m2
  emulator = emulator  phone = phone
  ann = ann  bob = bob
  tab1 = tab1  tab2 = tab2
  Machines = {m1, m2}
  Udids = {emulator, phone}
  Devices <- MCDevices
  Users = {ann, bob}
  Admins = {ann}
  Sessions = {tab1, tab2}
  LockTTL = 1
  NoTTL = NoTTL
  NoLock = NoLock
SPECIFICATION LocksFairSpec
INVARIANT LockStatusCoupled
PROPERTIES ImplementsLease AbandonedLockIsFreed
