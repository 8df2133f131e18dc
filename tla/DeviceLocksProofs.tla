-------------------------- MODULE DeviceLocksProofs --------------------------
(***************************************************************************)
(* Proofs about the device documents, for all machines, devices, users,    *)
(* sessions and lock TTLs.                                                 *)
(***************************************************************************)
EXTENDS DeviceLocks, TLAPS

\* In the inductive invariant, every document is one of the schema's, locked
\* exactly when it is in-use, and untouched as long as it is unknown.
LEMMA InitEstablishesLocksInv == LocksInit => LocksInv
  BY NoLockAssumption DEF LocksInit, LocksInv, LocksTypeOK, LockStatusCoupled,
     UnknownIsUnlocked, NoDocument, DeviceDoc, Locked

\* Each of the updates leaves good documents good; one lemma per update.
LEMMA UpsertKeepsLocksInv ==
  ASSUME LocksInv, NEW D \in SUBSET Devices, UpsertReported(D)
  PROVE  LocksInv'
  <1>1. LocksTypeOK'
    BY DEF UpsertReported, LocksInv, LocksTypeOK, NoDocument, DeviceDoc
  <1>2. LockStatusCoupled'
    BY DEF UpsertReported, LocksInv, LocksTypeOK, LockStatusCoupled, NoDocument,
       DeviceDoc, Locked
  <1>3. UnknownIsUnlocked'
    BY DEF UpsertReported, LocksInv, LocksTypeOK, UnknownIsUnlocked, NoDocument, DeviceDoc, Locked
  <1> QED BY <1>1, <1>2, <1>3 DEF LocksInv

LEMMA BackToIdleKeepsLocksInv ==
  ASSUME LocksInv, NEW D \in SUBSET Devices, BackToIdle(D)
  PROVE  LocksInv'
  <1>1. LocksTypeOK'
    BY DEF BackToIdle, LocksInv, LocksTypeOK, DeviceDoc
  <1>2. LockStatusCoupled'
    BY DEF BackToIdle, LocksInv, LocksTypeOK, LockStatusCoupled, DeviceDoc, Locked
  <1>3. UnknownIsUnlocked'
    BY DEF BackToIdle, LocksInv, LocksTypeOK, UnknownIsUnlocked, DeviceDoc, Locked
  <1> QED BY <1>1, <1>2, <1>3 DEF LocksInv

LEMMA TakeOfflineKeepsLocksInv ==
  ASSUME LocksInv, NEW D \in SUBSET Devices, TakeOffline(D)
  PROVE  LocksInv'
  <1>1. LocksTypeOK'
    BY DEF TakeOffline, LocksInv, LocksTypeOK, DeviceDoc
  <1>2. LockStatusCoupled'
    BY DEF TakeOffline, LocksInv, LocksTypeOK, LockStatusCoupled, DeviceDoc, Locked
  <1>3. UnknownIsUnlocked'
    BY DEF TakeOffline, LocksInv, LocksTypeOK, UnknownIsUnlocked, DeviceDoc, Locked
  <1> QED BY <1>1, <1>2, <1>3 DEF LocksInv

LEMMA AcquireKeepsLocksInv ==
  ASSUME LocksInv, NEW u, NEW user \in Users, NEW s \in Sessions, AcquireLock(u, user, s)
  PROVE  LocksInv'
  <1> DEFINE lock == [heldBy |-> user, sessionId |-> s, age |-> 0]
  <1>1. PICK d \in Matching(u) :
          device' = [device EXCEPT ![d].lock = lock, ![d].status = "in-use"]
    BY DEF AcquireLock
  <1>2. d \in Devices /\ device[d].known
    BY DEF Matching
  <1>3. lock \in Lock /\ lock # NoLock
    BY NoLockAssumption DEF Lock
  <1> HIDE DEF lock
  <1>4. LocksTypeOK'
    BY <1>1, <1>2, <1>3 DEF LocksInv, LocksTypeOK, DeviceDoc
  <1>5. LockStatusCoupled'
    BY <1>1, <1>2, <1>3 DEF LocksInv, LocksTypeOK, LockStatusCoupled, DeviceDoc, Locked
  <1>6. UnknownIsUnlocked'
    BY <1>1, <1>2 DEF LocksInv, LocksTypeOK, UnknownIsUnlocked, DeviceDoc, Locked
  <1> QED BY <1>4, <1>5, <1>6 DEF LocksInv

LEMMA ReleaseKeepsLocksInv ==
  ASSUME LocksInv, NEW u, NEW user, NEW isAdmin, ReleaseLock(u, user, isAdmin)
  PROVE  LocksInv'
  <1>1. PICK d \in Matching(u) :
          device' = [device EXCEPT ![d].lock = NoLock, ![d].status = "idle"]
    BY DEF ReleaseLock
  <1>2. d \in Devices /\ device[d].known
    BY DEF Matching
  <1>3. LocksTypeOK'
    BY <1>1, <1>2 DEF LocksInv, LocksTypeOK, DeviceDoc
  <1>4. LockStatusCoupled'
    BY <1>1, <1>2 DEF LocksInv, LocksTypeOK, LockStatusCoupled, DeviceDoc, Locked
  <1>5. UnknownIsUnlocked'
    BY <1>1, <1>2 DEF LocksInv, LocksTypeOK, UnknownIsUnlocked, DeviceDoc, Locked
  <1> QED BY <1>3, <1>4, <1>5 DEF LocksInv

LEMMA RenewKeepsLocksInv ==
  ASSUME LocksInv, NEW u, NEW user, NEW isAdmin, RenewLock(u, user, isAdmin)
  PROVE  LocksInv'
  <1>1. PICK d \in Matching(u) :
          Locked(d) /\ device' = [device EXCEPT ![d].lock.age = 0]
    BY DEF RenewLock
  <1>2. d \in Devices /\ device[d].known /\ device[d].lock \in Lock
    BY <1>1 DEF Matching, LocksInv, LocksTypeOK, DeviceDoc, Locked
  <1> DEFINE lock == [device[d].lock EXCEPT !.age = 0]
  <1>3. lock \in Lock /\ lock # NoLock
    BY <1>2, NoLockAssumption DEF Lock
  <1>4. device' = [device EXCEPT ![d].lock = lock]
    BY <1>1
  <1> HIDE DEF lock
  <1>5. LocksTypeOK'
    BY <1>2, <1>3, <1>4 DEF LocksInv, LocksTypeOK, DeviceDoc
  <1>6. LockStatusCoupled'
    BY <1>1, <1>2, <1>3, <1>4 DEF LocksInv, LocksTypeOK, LockStatusCoupled, DeviceDoc, Locked
  <1>7. UnknownIsUnlocked'
    BY <1>2, <1>4 DEF LocksInv, LocksTypeOK, UnknownIsUnlocked, DeviceDoc, Locked
  <1> QED BY <1>5, <1>6, <1>7 DEF LocksInv

LEMMA ExpiryKeepsLocksInv ==
  ASSUME LocksInv, ReleaseExpiredLocks
  PROVE  LocksInv'
  <1>1. LocksTypeOK'
    BY DEF ReleaseExpiredLocks, LocksInv, LocksTypeOK, DeviceDoc
  <1>2. LockStatusCoupled'
    BY DEF ReleaseExpiredLocks, LocksInv, LocksTypeOK, LockStatusCoupled, DeviceDoc, Locked
  <1>3. UnknownIsUnlocked'
    BY DEF ReleaseExpiredLocks, LocksInv, LocksTypeOK, UnknownIsUnlocked, DeviceDoc, Locked
  <1> QED BY <1>1, <1>2, <1>3 DEF LocksInv

LEMMA AgingKeepsLocksInv ==
  ASSUME LocksInv, AgeLocks
  PROVE  LocksInv'
  <1> DEFINE older(d) == [device[d].lock EXCEPT !.age = @ + 1]
  <1>1. ASSUME NEW d \in Devices
        PROVE  \/ device'[d] = device[d]
               \/ Locked(d) /\ device'[d] = [device[d] EXCEPT !.lock = older(d)]
    BY DEF AgeLocks, Aged
  <1>2. ASSUME NEW d \in Devices, Locked(d)
        PROVE  older(d) \in Lock /\ older(d) # NoLock
    BY <1>2, NoLockAssumption DEF Locked, Lock, LocksInv, LocksTypeOK, DeviceDoc
  <1> HIDE DEF older
  <1>3. LocksTypeOK'
    <2>1. device' = [d \in Devices |-> device'[d]]
      BY DEF AgeLocks, Aged
    <2>2. \A d \in Devices : device'[d] \in DeviceDoc
      BY <1>1, <1>2 DEF LocksInv, LocksTypeOK, DeviceDoc
    <2> QED BY <2>1, <2>2 DEF LocksTypeOK
  <1>4. LockStatusCoupled'
    BY <1>1, <1>2 DEF LocksInv, LocksTypeOK, LockStatusCoupled, DeviceDoc, Locked
  <1>5. UnknownIsUnlocked'
    BY <1>1 DEF LocksInv, LocksTypeOK, UnknownIsUnlocked, DeviceDoc, Locked
  <1> QED BY <1>3, <1>4, <1>5 DEF LocksInv

LEMMA NextKeepsLocksInv ==
  ASSUME LocksInv, [LocksNext]_device
  PROVE  LocksInv'
  <1>1. CASE Sync
    BY <1>1, UpsertKeepsLocksInv, BackToIdleKeepsLocksInv, TakeOfflineKeepsLocksInv DEF Sync
  <1>2. CASE UserRoute
    BY <1>2, AcquireKeepsLocksInv, ReleaseKeepsLocksInv, RenewKeepsLocksInv DEF UserRoute
  <1>3. CASE ReleaseExpiredLocks
    BY <1>3, ExpiryKeepsLocksInv
  <1>4. CASE AgeLocks
    BY <1>4, AgingKeepsLocksInv
  <1>5. CASE UNCHANGED device
    BY <1>5 DEF LocksInv, LocksTypeOK, LockStatusCoupled, UnknownIsUnlocked, Locked
  <1> QED BY <1>1, <1>2, <1>3, <1>4, <1>5 DEF LocksNext

\* The documents have the schema's types and the inductive invariant holds.
THEOREM LocksInvHolds == LocksSpec => []LocksInv
  BY InitEstablishesLocksInv, NextKeepsLocksInv, PTL DEF LocksSpec

\* Whatever users, sweeps and syncs do, in any order: a device is in-use
\* exactly when somebody holds its lock.
THEOREM LockStatusAlwaysCoupled == LocksSpec => []LockStatusCoupled
  BY LocksInvHolds, PTL DEF LocksInv
-----------------------------------------------------------------------------
(* The documents implement the abstract lease. *)

\* A step that leaves the session of every lock alone is a stutter.
LEMMA SameSessionsStutter ==
  ASSUME \A d \in Devices :
           \/ device'[d].lock = device[d].lock
           \/ /\ device[d].lock # NoLock /\ device'[d].lock # NoLock
              /\ device'[d].lock.sessionId = device[d].lock.sessionId
  PROVE  leaseHolder' = leaseHolder
  BY DEF leaseHolder, Locked

\* A step that frees some locks and leaves the others alone ends those leases.
LEMMA FreedLocksEnd ==
  ASSUME LocksInv, NEW D \in SUBSET Devices,
         \A d \in D : Locked(d) /\ device'[d].lock = NoLock,
         \A d \in Devices \ D : device'[d].lock = device[d].lock
  PROVE  Lease!End(D)
  <1>1. ASSUME NEW d \in D PROVE leaseHolder[d] # NoLock
    BY NoLockAssumption DEF leaseHolder, Locked, LocksInv, LocksTypeOK, DeviceDoc, Lock
  <1>2. leaseHolder' = [d \in Devices |-> IF d \in D THEN NoLock ELSE leaseHolder[d]]
    BY DEF leaseHolder, Locked
  <1> QED BY <1>1, <1>2 DEF Lease!End

LEMMA UpsertStutters ==
  ASSUME LocksInv, NEW D \in SUBSET Devices, UpsertReported(D) \/ BackToIdle(D)
  PROVE  leaseHolder' = leaseHolder
  <1>1. ASSUME NEW d \in Devices, UpsertReported(D)
        PROVE  device'[d].lock = device[d].lock
    <2>1. device[d] \in DeviceDoc
      BY DEF LocksInv, LocksTypeOK
    <2>2. ~device[d].known => device[d].lock = NoLock
      BY DEF LocksInv, UnknownIsUnlocked, Locked
    <2> QED BY <1>1, <2>1, <2>2 DEF UpsertReported, DeviceDoc, NoDocument
  <1>2. ASSUME NEW d \in Devices, BackToIdle(D)
        PROVE  device'[d].lock = device[d].lock
    BY <1>2 DEF BackToIdle, LocksInv, LocksTypeOK, DeviceDoc
  <1> QED BY <1>1, <1>2, SameSessionsStutter

LEMMA TakeOfflineEnds ==
  ASSUME LocksInv, NEW D \in SUBSET Devices, TakeOffline(D)
  PROVE  \E F \in SUBSET Devices : Lease!End(F)
  <1> DEFINE F == {d \in D : Locked(d)}
  <1>1. \A d \in F : Locked(d) /\ device'[d].lock = NoLock
    BY DEF TakeOffline, LocksInv, LocksTypeOK, LockStatusCoupled, UnknownIsUnlocked,
       DeviceDoc, Locked
  <1>2. \A d \in Devices \ F : device'[d].lock = device[d].lock
    BY DEF TakeOffline, LocksInv, LocksTypeOK, DeviceDoc, Locked
  <1>3. F \in SUBSET Devices
    OBVIOUS
  <1> HIDE DEF F
  <1> QED BY <1>1, <1>2, <1>3, FreedLocksEnd

LEMMA AcquireGrants ==
  ASSUME LocksInv, NEW u, NEW user \in Users, NEW s \in Sessions, AcquireLock(u, user, s)
  PROVE  \E d \in Devices : Lease!Grant(d, s)
  <1> DEFINE lock == [heldBy |-> user, sessionId |-> s, age |-> 0]
  <1>1. PICK d \in Matching(u) :
          /\ ~Locked(d)
          /\ device' = [device EXCEPT ![d].lock = lock, ![d].status = "in-use"]
    BY DEF AcquireLock
  <1>2. d \in Devices
    BY DEF Matching
  <1>3. lock # NoLock /\ lock.sessionId = s
    BY NoLockAssumption DEF Lock
  <1> HIDE DEF lock
  <1>4. leaseHolder[d] = NoLock
    BY <1>1, <1>2 DEF leaseHolder, Locked
  <1>5. leaseHolder' = [leaseHolder EXCEPT ![d] = s]
    <2>1. ASSUME NEW e \in Devices
          PROVE  leaseHolder'[e] = IF e = d THEN s ELSE leaseHolder[e]
      BY <1>1, <1>2, <1>3 DEF leaseHolder, Locked, LocksInv, LocksTypeOK, DeviceDoc
    <2> QED BY <1>2, <2>1 DEF leaseHolder
  <1> QED BY <1>2, <1>4, <1>5 DEF Lease!Grant

LEMMA ReleaseEnds ==
  ASSUME LocksInv, NEW u, NEW user, NEW isAdmin, ReleaseLock(u, user, isAdmin)
  PROVE  \E F \in SUBSET Devices : Lease!End(F)
  <1>1. PICK d \in Matching(u) :
          device' = [device EXCEPT ![d].lock = NoLock, ![d].status = "idle"]
    BY DEF ReleaseLock
  <1>2. d \in Devices
    BY DEF Matching
  <1> DEFINE F == {e \in {d} : Locked(e)}
  <1>3. \A e \in F : Locked(e) /\ device'[e].lock = NoLock
    BY <1>1, <1>2 DEF LocksInv, LocksTypeOK, DeviceDoc
  <1>4. \A e \in Devices \ F : device'[e].lock = device[e].lock
    BY <1>1, <1>2 DEF LocksInv, LocksTypeOK, DeviceDoc, Locked
  <1>5. F \in SUBSET Devices
    BY <1>2
  <1> HIDE DEF F
  <1> QED BY <1>3, <1>4, <1>5, FreedLocksEnd

LEMMA RenewStutters ==
  ASSUME LocksInv, NEW u, NEW user, NEW isAdmin, RenewLock(u, user, isAdmin)
  PROVE  leaseHolder' = leaseHolder
  <1>1. PICK d \in Matching(u) :
          Locked(d) /\ device' = [device EXCEPT ![d].lock.age = 0]
    BY DEF RenewLock
  <1>2. d \in Devices /\ device[d].lock \in Lock
    BY <1>1 DEF Matching, LocksInv, LocksTypeOK, DeviceDoc, Locked
  <1> DEFINE lock == [device[d].lock EXCEPT !.age = 0]
  <1>3. lock # NoLock /\ lock.sessionId = device[d].lock.sessionId
    BY <1>2, NoLockAssumption DEF Lock
  <1>4. device' = [device EXCEPT ![d].lock = lock]
    BY <1>1
  <1> HIDE DEF lock
  <1>5. ASSUME NEW e \in Devices
        PROVE  \/ device'[e].lock = device[e].lock
               \/ /\ device[e].lock # NoLock /\ device'[e].lock # NoLock
                  /\ device'[e].lock.sessionId = device[e].lock.sessionId
    BY <1>1, <1>2, <1>3, <1>4 DEF LocksInv, LocksTypeOK, DeviceDoc, Locked
  <1> QED BY <1>5, SameSessionsStutter

LEMMA ExpiryEnds ==
  ASSUME LocksInv, ReleaseExpiredLocks
  PROVE  \E F \in SUBSET Devices : Lease!End(F)
  <1> DEFINE F == {d \in Devices : Expired(d)}
  <1>1. \A d \in F : Locked(d) /\ device'[d].lock = NoLock
    BY DEF ReleaseExpiredLocks, Expired, LocksInv, LocksTypeOK, DeviceDoc
  <1>2. \A d \in Devices \ F : device'[d].lock = device[d].lock
    BY DEF ReleaseExpiredLocks
  <1>3. F \in SUBSET Devices
    OBVIOUS
  <1> HIDE DEF F
  <1> QED BY <1>1, <1>2, <1>3, FreedLocksEnd

LEMMA AgingStutters ==
  ASSUME LocksInv, AgeLocks
  PROVE  leaseHolder' = leaseHolder
  <1> DEFINE older(d) == [device[d].lock EXCEPT !.age = @ + 1]
  <1>1. ASSUME NEW d \in Devices
        PROVE  \/ device'[d] = device[d]
               \/ Locked(d) /\ device'[d] = [device[d] EXCEPT !.lock = older(d)]
    BY DEF AgeLocks, Aged
  <1>2. ASSUME NEW d \in Devices, Locked(d)
        PROVE  older(d) # NoLock /\ older(d).sessionId = device[d].lock.sessionId
    BY <1>2, NoLockAssumption DEF Locked, Lock, LocksInv, LocksTypeOK, DeviceDoc
  <1> HIDE DEF older
  <1>3. ASSUME NEW d \in Devices
        PROVE  \/ device'[d].lock = device[d].lock
               \/ /\ device[d].lock # NoLock /\ device'[d].lock # NoLock
                  /\ device'[d].lock.sessionId = device[d].lock.sessionId
    BY <1>1, <1>2 DEF LocksInv, LocksTypeOK, DeviceDoc, Locked
  <1> QED BY <1>3, SameSessionsStutter

\* Every update is a step of the lease, or a stutter.
LEMMA StepRefinesLease ==
  ASSUME LocksInv, [LocksNext]_device
  PROVE  [Lease!LeaseNext]_leaseHolder
  <1>1. CASE Sync
    BY <1>1, UpsertStutters, TakeOfflineEnds DEF Sync, Lease!LeaseNext
  <1>2. CASE UserRoute
    BY <1>2, AcquireGrants, ReleaseEnds, RenewStutters DEF UserRoute, Lease!LeaseNext
  <1>3. CASE ReleaseExpiredLocks
    BY <1>3, ExpiryEnds DEF Lease!LeaseNext
  <1>4. CASE AgeLocks
    BY <1>4, AgingStutters
  <1>5. CASE UNCHANGED device
    BY <1>5 DEF leaseHolder, Locked
  <1> QED BY <1>1, <1>2, <1>3, <1>4, <1>5 DEF LocksNext

\* The device documents implement the lease: whatever is done to them, a device
\* has one holder at a time and changes hands only through being free.
THEOREM LocksImplementLease == LocksSpec => ImplementsLease
  <1>1. LocksInit => Lease!LeaseInit
    BY DEF LocksInit, NoDocument, Lease!LeaseInit, leaseHolder, Locked
  <1>2. LocksInv /\ [LocksNext]_device => [Lease!LeaseNext]_leaseHolder
    BY StepRefinesLease
  <1> QED BY <1>1, <1>2, LocksInvHolds, PTL DEF LocksSpec, ImplementsLease, Lease!LeaseSpec
=============================================================================
