----------------------------- MODULE DeviceLocks -----------------------------
(***************************************************************************)
(* The device documents of the hub and the operations devices.service.ts   *)
(* and hosts.service.ts perform on them: upsert, back to idle, offline,    *)
(* acquireLock, releaseLock, renewLock and the expiry sweep. One action is *)
(* one MongoDB update, which is atomic for each document.                  *)
(*                                                                         *)
(* Time is kept as the age of a lock since it was acquired or renewed. An  *)
(* age stops growing once the lock has outlived its TTL: only "older than  *)
(* the TTL" is ever asked.                                                 *)
(***************************************************************************)
EXTENDS Naturals

CONSTANTS
  Machines,     \* machineIds
  Udids,        \* device udids, unique only within one machine
  Devices,      \* the <<machineId, udid>> pairs that can have a document
  Users,        \* users that lock and unlock devices
  Admins,       \* the users whose role is admin
  Sessions,     \* lock sessionIds
  LockTTL,      \* lockTtlMinutes in ticks, or NoTTL
  NoTTL,        \* lockTtlMinutes: null
  NoLock        \* lock: null

ASSUME DevicesAssumption == Devices \subseteq Machines \X Udids /\ Machines # {}
ASSUME AdminsAssumption == Admins \subseteq Users
ASSUME TTLAssumption == /\ NoTTL \notin Nat
                        /\ LockTTL \in (Nat \ {0}) \cup {NoTTL}

VARIABLE device   \* device[d] is the document of d

MachineOf(d) == d[1]
UdidOf(d) == d[2]

Lock == [heldBy : Users, sessionId : Sessions, age : Nat]

ASSUME NoLockAssumption == NoLock \notin Lock /\ NoLock \notin Sessions

DeviceDoc == [known : BOOLEAN,
              status : {"idle", "in-use", "offline"},
              lock : Lock \cup {NoLock},
              isLocallyReachable : BOOLEAN]

LocksTypeOK == device \in [Devices -> DeviceDoc]

\* Before the first sync that reports it, a device has no document.
NoDocument == [known |-> FALSE, status |-> "idle", lock |-> NoLock,
               isLocallyReachable |-> FALSE]

LocksInit == device = [d \in Devices |-> NoDocument]

-----------------------------------------------------------------------------
(* Documents and the queries over them *)

\* The documents a query on the udid alone matches: it names no machine.
Matching(u) == {d \in Devices : UdidOf(d) = u /\ device[d].known}

Locked(d) == device[d].lock # NoLock
HeldByUser(d, user) == Locked(d) /\ device[d].lock.heldBy = user
HeldBySession(d, s) == Locked(d) /\ device[d].lock.sessionId = s

Expired(d) == /\ LockTTL # NoTTL
              /\ Locked(d)
              /\ device[d].lock.age > LockTTL

-----------------------------------------------------------------------------
(* The updates. D is a set of documents of one machine. *)

\* findOneAndUpdate(upsert) of every reported device: the status and the lock
\* of a known document stay, a new document gets the schema's defaults.
UpsertReported(D) ==
  device' = [d \in Devices |->
    IF d \notin D THEN device[d]
    ELSE IF device[d].known THEN [device[d] EXCEPT !.isLocallyReachable = TRUE]
    ELSE [NoDocument EXCEPT !.known = TRUE, !.isLocallyReachable = TRUE]]

\* Reported documents that were offline go back to idle.
BackToIdle(D) ==
  device' = [d \in Devices |->
    IF d \in D /\ device[d].known /\ device[d].status = "offline"
    THEN [device[d] EXCEPT !.status = "idle"] ELSE device[d]]

\* Variant: the lock survives.
TakeOfflineKeepingLock(D) ==
  device' = [d \in Devices |->
    IF d \in D /\ device[d].known /\ device[d].status # "offline"
    THEN [device[d] EXCEPT !.status = "offline"] ELSE device[d]]

\* Documents go offline and lose the lock they had.
TakeOffline(D) ==
  device' = [d \in Devices |->
    IF d \in D /\ device[d].known /\ device[d].status # "offline"
    THEN [device[d] EXCEPT !.status = "offline", !.lock = NoLock,
                           !.isLocallyReachable = FALSE]
    ELSE device[d]]

\* Variant: the lock needs not be free.
AcquireLockHeld(u, user, s) ==
  \E d \in Matching(u) : device' = [device EXCEPT
    ![d].lock = [heldBy |-> user, sessionId |-> s, age |-> 0], ![d].status = "in-use"]

\* acquireLock: one matching document whose lock is null, or none.
AcquireLock(u, user, s) ==
  \E d \in Matching(u) :
    /\ ~Locked(d)
    /\ device' = [device EXCEPT
         ![d].lock = [heldBy |-> user, sessionId |-> s, age |-> 0],
         ![d].status = "in-use"]

AcquireRefused(u) == \A d \in Matching(u) : Locked(d)

\* releaseLock: an admin's filter is the udid alone, locked or not.
ReleaseLock(u, user, isAdmin) ==
  \E d \in Matching(u) :
    /\ isAdmin \/ HeldByUser(d, user)
    /\ device' = [device EXCEPT ![d].lock = NoLock, ![d].status = "idle"]

ReleaseRefused(u, user, isAdmin) ==
  \A d \in Matching(u) : ~isAdmin /\ ~HeldByUser(d, user)

\* renewLock: the lock's clock starts again.
RenewLock(u, user, isAdmin) ==
  \E d \in Matching(u) :
    /\ Locked(d)
    /\ isAdmin \/ HeldByUser(d, user)
    /\ device' = [device EXCEPT ![d].lock.age = 0]

\* Variant: the sweep looks at idle devices only.
ReleaseExpiredIdle ==
  device' = [d \in Devices |->
    IF Expired(d) /\ device[d].status = "idle" THEN [device[d] EXCEPT !.lock = NoLock]
    ELSE device[d]]

\* releaseExpiredLocks, one run of the sweep.
ReleaseExpiredLocks ==
  /\ \E d \in Devices : Expired(d)
  /\ device' = [d \in Devices |->
       IF Expired(d) THEN [device[d] EXCEPT !.lock = NoLock, !.status = "idle"]
       ELSE device[d]]

\* Time passes for every lock.
Aged == [d \in Devices |->
          IF LockTTL # NoTTL /\ Locked(d) /\ ~Expired(d)
          THEN [device[d] EXCEPT !.lock.age = @ + 1] ELSE device[d]]

AgeLocks == device' = Aged

-----------------------------------------------------------------------------
(* The documents under every order of those updates. *)

Sync == \E D \in SUBSET Devices :
          UpsertReported(D) \/ BackToIdle(D) \/ TakeOffline(D)

UserRoute == \E u \in Udids, user \in Users :
  \/ \E s \in Sessions : AcquireLock(u, user, s)
  \/ \E isAdmin \in BOOLEAN :
       RenewLock(u, user, isAdmin) \/ ReleaseLock(u, user, isAdmin)

LocksNext == Sync \/ UserRoute \/ ReleaseExpiredLocks \/ AgeLocks

LocksSpec == LocksInit /\ [][LocksNext]_device

\* The expiry sweep runs on an interval, and time passes.
LocksFairSpec == LocksSpec /\ WF_device(ReleaseExpiredLocks) /\ WF_device(AgeLocks)

-----------------------------------------------------------------------------
(* Properties *)

\* A document is locked exactly when its status says in-use: no update leaves
\* a lock on an idle or offline device, or an in-use device without a holder
\* (the schema keeps the two fields independently, and seven updates write one
\* or both of them).
LockStatusCoupled ==
  \A d \in Devices : Locked(d) <=> device[d].status = "in-use"

\* Nothing holds a lock on a device that has no document.
UnknownIsUnlocked == \A d \in Devices : ~device[d].known => ~Locked(d)

\* The inductive invariant of the documents.
LocksInv == LocksTypeOK /\ LockStatusCoupled /\ UnknownIsUnlocked

\* Lock of d was renewed by this step.
Renewed(d) == /\ Locked(d) /\ device[d].lock.age > 0
              /\ device'[d].lock = [device[d].lock EXCEPT !.age = 0]

\* A client that walked away does not keep a device: no session holds one lock
\* for ever unless someone goes on renewing it (releaseExpiredLocks, "the client
\* holding the lock crashed or was simply left open").
AbandonedLockIsFreed ==
  \A d \in Devices, s \in Sessions :
    \/ []<>(~HeldBySession(d, s))
    \/ []<><<Renewed(d)>>_device

\* The documents implement the abstract lease: a device never passes from one
\* session to another without having been free in between.
leaseHolder == [d \in Devices |->
                 IF Locked(d) THEN device[d].lock.sessionId ELSE NoLock]
Lease == INSTANCE DeviceLease WITH Free <- NoLock, holder <- leaseHolder
ImplementsLease == Lease!LeaseSpec
=============================================================================
