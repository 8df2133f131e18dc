----------------------------- MODULE DeviceLease -----------------------------
(***************************************************************************)
(* What the device lock promises, with every mechanism left out: a device  *)
(* is leased to at most one session, a lease is granted only on a free     *)
(* device, and a lease passes to another session only through being free.  *)
(* The document-level specification DeviceLocks implements this one.       *)
(***************************************************************************)
CONSTANTS
  Devices,      \* the devices that can be leased
  Sessions,     \* the sessions that can hold a lease
  Free          \* the value of a lease nobody holds, not a session

VARIABLE holder   \* holder[d] is the session that has device d, or Free

LeaseTypeOK == holder \in [Devices -> Sessions \cup {Free}]

LeaseInit == holder = [d \in Devices |-> Free]

\* A session gets a device that nobody has.
Grant(d, s) ==
  /\ holder[d] = Free
  /\ holder' = [holder EXCEPT ![d] = s]

\* Leases end: given back, taken away by an admin, expired, or the device is
\* gone. One step may end several (a sweep over all the documents).
End(D) ==
  /\ \A d \in D : holder[d] # Free
  /\ holder' = [d \in Devices |-> IF d \in D THEN Free ELSE holder[d]]

LeaseNext ==
  \/ \E d \in Devices, s \in Sessions : Grant(d, s)
  \/ \E D \in SUBSET Devices : End(D)

LeaseSpec == LeaseInit /\ [][LeaseNext]_holder
=============================================================================
