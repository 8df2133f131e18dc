------------------------- MODULE DeviceRegistryProofs -------------------------
(***************************************************************************)
(* Proofs about the registry, for any number of machines, devices and      *)
(* overlapping requests, and whatever its environment is allowed to do:    *)
(* its handlers and sweeps touch the documents only as DeviceLocks says,   *)
(* so what is proved of the documents holds under every interleaving.      *)
(***************************************************************************)
EXTENDS DeviceRegistry, DeviceLocksProofs

\* What the registry itself keeps is of the right type (the documents are
\* covered by the refinement below).
RegistryTyping ==
  /\ attached \in SUBSET Devices
  /\ agent \in [Machines -> Agent]
  /\ host \in [Machines -> Host]
  /\ request \in [Requests -> Request]
  /\ sweep \in Sweep

LEMMA FreeSlotType == FreeSlot \in Request
  BY DevicesAssumption DEF FreeSlot, Request

LEMMA IdleSweepType == IdleSweep \in Sweep
  BY DEF IdleSweep, Sweep

LEMMA InitTyping == RegistryInit => RegistryTyping
  <1> SUFFICES ASSUME RegistryInit PROVE RegistryTyping
    OBVIOUS
  <1>1. attached \in SUBSET Devices
    BY RegistryAssumption DEF RegistryInit
  <1>2. agent \in [Machines -> Agent]
    BY DEF RegistryInit, Agent
  <1>3. host \in [Machines -> Host]
    BY RegistryAssumption DEF RegistryInit, Host
  <1>4. request \in [Requests -> Request] /\ sweep \in Sweep
    BY FreeSlotType, IdleSweepType DEF RegistryInit
  <1> QED BY <1>1, <1>2, <1>3, <1>4 DEF RegistryTyping

LEMMA AbandonedType ==
  ASSUME RegistryTyping, NEW m \in Machines
  PROVE  Abandoned(m) \in [Requests -> Request]
  BY DEF RegistryTyping, Abandoned, Request

LEMMA IdleType ==
  ASSUME RegistryTyping, NEW m \in Machines, Idle(m)
  PROVE  agent' \in [Machines -> Agent]
  BY DEF RegistryTyping, Idle, Agent

LEMMA AgentTyping ==
  ASSUME RegistryTyping, NEW m \in Machines,
         AgentStarts(m) \/ AgentStops(m) \/ AgentStep(m) \/ CallFails(m)
  PROVE  RegistryTyping'
  <1>1. CASE AgentStarts(m)
    BY <1>1, IdleType DEF AgentStarts, RegistryTyping, hubVars
  <1>2. CASE AgentStops(m)
    <2>1. agent' \in [Machines -> Agent]
      BY <1>2 DEF AgentStops, RegistryTyping, Agent
    <2> QED BY <1>2, <2>1, AbandonedType DEF AgentStops, RegistryTyping
  <1>3. CASE Discover(m)
    <2>1. agent' \in [Machines -> Agent]
      BY <1>3 DEF Discover, RegistryTyping, Agent, DevicesOf
    <2> QED BY <1>3, <2>1 DEF Discover, RegistryTyping, hubVars
  <1>4. CASE UpsertHeartbeat(m)
    <2>1. agent' \in [Machines -> Agent]
      BY <1>4 DEF UpsertHeartbeat, RegistryTyping, Agent
    <2>2. host' \in [Machines -> Host]
      BY <1>4, RegistryAssumption DEF UpsertHeartbeat, RegistryTyping, Host
    <2> QED BY <1>4, <2>1, <2>2 DEF UpsertHeartbeat, RegistryTyping
  <1>5. ASSUME NEW q \in Requests, SendSync(m, q)
        PROVE  RegistryTyping'
    <2>1. agent' \in [Machines -> Agent]
      BY <1>5 DEF SendSync, RegistryTyping, Agent
    <2>2. request' \in [Requests -> Request]
      BY <1>5 DEF SendSync, RegistryTyping, Agent, Request
    <2> QED BY <1>5, <2>1, <2>2 DEF SendSync, RegistryTyping
  <1>6. CASE CallFails(m)
    BY <1>6, AbandonedType, IdleType DEF CallFails, RegistryTyping
  <1> QED BY <1>1, <1>2, <1>3, <1>4, <1>5, <1>6 DEF AgentStep

LEMMA SyncTyping ==
  ASSUME RegistryTyping, NEW q \in Requests, SyncStep(q)
  PROVE  RegistryTyping'
  <1>1. CASE SyncUpsert(q)
    <2>1. request' \in [Requests -> Request]
      BY <1>1 DEF SyncUpsert, RegistryTyping, Request
    <2> QED BY <1>1, <2>1 DEF SyncUpsert, RegistryTyping, labVars
  <1>2. CASE SyncBackToIdle(q)
    <2>1. request' \in [Requests -> Request]
      BY <1>2 DEF SyncBackToIdle, RegistryTyping, Request
    <2> QED BY <1>2, <2>1 DEF SyncBackToIdle, RegistryTyping, labVars
  <1>3. CASE SyncTakeOffline(q)
    <2>1. request' \in [Requests -> Request]
      BY <1>3, FreeSlotType DEF SyncTakeOffline, TakeOfflineAndAnswer, RegistryTyping
    <2>2. request[q].machineId \in Machines
      BY DEF RegistryTyping, Request
    <2>3. agent' \in [Machines -> Agent]
      BY <1>3, <2>2, IdleType DEF SyncTakeOffline, TakeOfflineAndAnswer, RegistryTyping
    <2> QED BY <1>3, <2>1, <2>3 DEF SyncTakeOffline, TakeOfflineAndAnswer, RegistryTyping
  <1> QED BY <1>1, <1>2, <1>3 DEF SyncStep

LEMMA SweepTyping ==
  ASSUME RegistryTyping, StaleSweepStep
  PROVE  RegistryTyping'
  <1>1. CASE FindStaleHosts
    <2>1. sweep' \in Sweep
      BY <1>1 DEF FindStaleHosts, Sweep
    <2> QED BY <1>1, <2>1 DEF FindStaleHosts, RegistryTyping, labVars
  <1>2. CASE MarkHostsOffline
    <2>1. host' \in [Machines -> Host]
      BY <1>2 DEF MarkHostsOffline, RegistryTyping, Host
    <2>2. sweep' \in Sweep
      BY <1>2 DEF MarkHostsOffline, RegistryTyping, Sweep
    <2> QED BY <1>2, <2>1, <2>2 DEF MarkHostsOffline, RegistryTyping, labVars
  <1>3. CASE MarkDevicesOffline
    BY <1>3, IdleSweepType DEF MarkDevicesOffline, RegistryTyping, labVars
  <1> QED BY <1>1, <1>2, <1>3 DEF StaleSweepStep

LEMMA NextTyping ==
  ASSUME RegistryTyping, [RegistryNext]_registryVars
  PROVE  RegistryTyping'
  <1>1. ASSUME NEW d \in Devices, Plug(d)
        PROVE  RegistryTyping'
    BY <1>1 DEF Plug, RegistryTyping, hubVars
  <1>2. ASSUME NEW m \in Machines,
               AgentStarts(m) \/ AgentStops(m) \/ AgentStep(m) \/ CallFails(m)
        PROVE  RegistryTyping'
    BY <1>2, AgentTyping
  <1>3. ASSUME NEW q \in Requests, SyncStep(q)
        PROVE  RegistryTyping'
    BY <1>3, SyncTyping
  <1>4. CASE StaleSweepStep
    BY <1>4, SweepTyping
  <1>5. CASE LockRoute \/ ExpirySweep
    BY <1>5 DEF LockRoute, ExpirySweep, RegistryTyping, labVars, hubVars
  <1>6. CASE Tick
    <2>1. host' \in [Machines -> Host]
      BY <1>6, RegistryAssumption DEF Tick, RegistryTyping, Host
    <2> QED BY <1>6, <2>1 DEF Tick, RegistryTyping, labVars
  <1>7. CASE HubRestart
    <2>1. agent' \in [Machines -> Agent]
      BY <1>7 DEF HubRestart, RegistryTyping, Agent
    <2>2. request' \in [Requests -> Request] /\ sweep' \in Sweep
      BY <1>7, FreeSlotType, IdleSweepType DEF HubRestart
    <2> QED BY <1>7, <2>1, <2>2 DEF HubRestart, RegistryTyping
  <1>8. CASE UNCHANGED registryVars
    BY <1>8 DEF registryVars, RegistryTyping
  <1> QED BY <1>1, <1>2, <1>3, <1>4, <1>5, <1>6, <1>7, <1>8 DEF RegistryNext
-----------------------------------------------------------------------------
(* Every step of the registry is a step of the documents. *)

LEMMA SyncRefines ==
  ASSUME RegistryTyping, NEW q \in Requests, SyncStep(q)
  PROVE  Sync
  <1>1. request[q].devices \in SUBSET Devices
    BY DEF RegistryTyping, Request
  <1>2. (DevicesOf(request[q].machineId) \ request[q].devices) \in SUBSET Devices
    BY DEF DevicesOf
  <1> QED BY <1>1, <1>2 DEF SyncStep, SyncUpsert, SyncBackToIdle, SyncTakeOffline,
             TakeOfflineAndAnswer, Sync

LEMMA RouteRefines ==
  ASSUME LockRoute
  PROVE  UserRoute
  <1>1. PICK u \in Udids, user \in LockUsers :
          \/ \E s \in Sessions : AcquireLock(u, user, s)
          \/ RenewLock(u, user, user \in Admins)
          \/ ReleaseLock(u, user, user \in Admins)
    BY DEF LockRoute
  <1> DEFINE admin == user \in Admins
  <1>2. admin \in BOOLEAN /\ user \in Users
    BY RegistryAssumption
  <1>3. \/ \E s \in Sessions : AcquireLock(u, user, s)
        \/ RenewLock(u, user, admin) \/ ReleaseLock(u, user, admin)
    BY <1>1
  <1> HIDE DEF admin
  <1> QED BY <1>2, <1>3 DEF UserRoute

LEMMA StepRefinesLocks ==
  ASSUME RegistryTyping, [RegistryNext]_registryVars
  PROVE  [LocksNext]_device
  <1>1. ASSUME NEW d \in Devices, Plug(d)
        PROVE  UNCHANGED device
    BY <1>1 DEF Plug
  <1>2. ASSUME NEW m \in Machines,
               AgentStarts(m) \/ AgentStops(m) \/ AgentStep(m) \/ CallFails(m)
        PROVE  UNCHANGED device
    BY <1>2 DEF AgentStarts, AgentStops, AgentStep, CallFails, Discover, UpsertHeartbeat,
       SendSync
  <1>3. ASSUME NEW q \in Requests, SyncStep(q)
        PROVE  LocksNext
    BY <1>3, SyncRefines DEF LocksNext
  <1>4. CASE FindStaleHosts \/ MarkHostsOffline
    BY <1>4 DEF FindStaleHosts, MarkHostsOffline
  <1>5. CASE MarkDevicesOffline
    BY <1>5 DEF MarkDevicesOffline, LocksNext, Sync
  <1>6. CASE LockRoute
    BY <1>6, RouteRefines DEF LocksNext
  <1>7. CASE ExpirySweep \/ Tick
    BY <1>7 DEF ExpirySweep, Tick, LocksNext
  <1>8. CASE HubRestart \/ UNCHANGED registryVars
    BY <1>8 DEF HubRestart, registryVars
  <1> QED BY <1>1, <1>2, <1>3, <1>4, <1>5, <1>6, <1>7, <1>8
          DEF RegistryNext, StaleSweepStep

\* The state the registry keeps beside the documents is of the right type.
LEMMA RegistryTypingHolds == RegistrySpec => []RegistryTyping
  BY InitTyping, NextTyping, PTL DEF RegistrySpec

\* The registry implements the document-level specification: every await of
\* every handler, sweep and route is one of its updates, or leaves it alone.
THEOREM RegistryImplementsLocks == RegistrySpec => ImplementsLocks
  <1>1. RegistryInit => LocksInit
    BY DEF RegistryInit
  <1>2. RegistryTyping /\ [RegistryNext]_registryVars => [LocksNext]_device
    BY StepRefinesLocks
  <1> QED BY <1>1, <1>2, RegistryTypingHolds, PTL
          DEF RegistrySpec, ImplementsLocks, LocksSpec

\* Hence the documents' invariant holds under every interleaving of agents,
\* requests, sweeps, lock routes and restarts, and everything is well typed.
THEOREM RegistryTypeCorrect == RegistrySpec => []RegistryTypeOK
  <1>1. RegistryTyping /\ LocksInv => RegistryTypeOK
    BY DEF RegistryTyping, LocksInv, RegistryTypeOK
  <1> QED BY <1>1, RegistryTypingHolds, RegistryImplementsLocks, LocksInvHolds, PTL
          DEF ImplementsLocks

\* In the whole registry, in-use and locked stay the same thing.
THEOREM RegistryKeepsLocksCoupled == RegistrySpec => []LockStatusCoupled
  BY RegistryImplementsLocks, LockStatusAlwaysCoupled, PTL DEF ImplementsLocks

-----------------------------------------------------------------------------
(* A sync does not touch the lock of a device it reports. *)

LEMMA SyncSparesReported ==
  ASSUME RegistryTyping, LocksInv, NEW q \in Requests, SyncStep(q),
         NEW d \in request[q].devices, Locked(d)
  PROVE  device'[d].lock = device[d].lock /\ device'[d].status = "in-use"
  <1>1. d \in Devices
    BY DEF RegistryTyping, Request
  <1>2. device[d] \in DeviceDoc /\ device[d].known /\ device[d].status = "in-use"
    BY <1>1 DEF LocksInv, LocksTypeOK, LockStatusCoupled, UnknownIsUnlocked
  <1>3. CASE SyncUpsert(q)
    BY <1>1, <1>2, <1>3 DEF SyncUpsert, UpsertReported, DeviceDoc
  <1>4. CASE SyncBackToIdle(q)
    BY <1>1, <1>2, <1>4 DEF SyncBackToIdle, BackToIdle
  <1>5. CASE SyncTakeOffline(q)
    BY <1>1, <1>2, <1>5 DEF SyncTakeOffline, TakeOfflineAndAnswer, TakeOffline
  <1> QED BY <1>3, <1>4, <1>5 DEF SyncStep

\* Whatever else is under way, a device that is reported stays with its holder.
THEOREM RegistrySparesLocks == RegistrySpec => ReportedKeepsItsLock
  <1>1. RegistryTyping /\ LocksInv /\ [RegistryNext]_registryVars =>
          [\A q \in Requests : SyncStep(q) =>
             \A d \in request[q].devices :
               Locked(d) => device'[d].lock = device[d].lock
                            /\ device'[d].status = "in-use"]_registryVars
    BY SyncSparesReported
  <1> QED BY <1>1, RegistryTypingHolds, RegistryImplementsLocks, LocksInvHolds, PTL
          DEF RegistrySpec, ImplementsLocks, ReportedKeepsItsLock

-----------------------------------------------------------------------------
(* What stays attached stays available. *)

\* Attached for good, and never missed by discovery.
Stable == Devices \ (Pluggable \cup FlakyDevices)

\* Nothing a request does before its last update takes a device offline, nor do
\* the lock routes, the expiry sweep or the passing of time.
LEMMA OnlyTakenOffline ==
  ASSUME LocksTypeOK, NEW d \in Devices, device[d].status # "offline",
         \/ \E D \in SUBSET Devices : UpsertReported(D) \/ BackToIdle(D)
         \/ UserRoute \/ ReleaseExpiredLocks \/ AgeLocks \/ UNCHANGED device
  PROVE  device'[d].status # "offline"
  <1>0. device[d] \in DeviceDoc /\ device \in [Devices -> DeviceDoc]
    BY DEF LocksTypeOK
  <1>1. ASSUME NEW D \in SUBSET Devices, UpsertReported(D) \/ BackToIdle(D)
        PROVE  device'[d].status # "offline"
    <2>1. CASE UpsertReported(D)
      BY <1>0, <2>1 DEF UpsertReported, NoDocument, DeviceDoc
    <2>2. CASE BackToIdle(D)
      BY <1>0, <2>2 DEF BackToIdle, DeviceDoc
    <2> QED BY <1>1, <2>1, <2>2
  <1>2. ASSUME NEW u, NEW user, NEW s, AcquireLock(u, user, s)
        PROVE  device'[d].status # "offline"
    <2> DEFINE lock == [heldBy |-> user, sessionId |-> s, age |-> 0]
    <2>1. PICK e \in Matching(u) :
            device' = [device EXCEPT ![e].lock = lock, ![e].status = "in-use"]
      BY <1>2 DEF AcquireLock
    <2> HIDE DEF lock
    <2> QED BY <1>0, <2>1 DEF DeviceDoc, Matching
  <1>3. ASSUME NEW u, NEW user, NEW isAdmin, ReleaseLock(u, user, isAdmin)
        PROVE  device'[d].status # "offline"
    BY <1>0, <1>3 DEF ReleaseLock, DeviceDoc, Matching
  <1>4. ASSUME NEW u, NEW user, NEW isAdmin, RenewLock(u, user, isAdmin)
        PROVE  device'[d].status # "offline"
    <2>1. PICK e \in Matching(u) : device' = [device EXCEPT ![e].lock.age = 0]
      BY <1>4 DEF RenewLock
    <2> DEFINE young == [device[e].lock EXCEPT !.age = 0]
    <2>2. device' = [device EXCEPT ![e].lock = young]
      BY <2>1
    <2> HIDE DEF young
    <2> QED BY <1>0, <2>2 DEF DeviceDoc, Matching
  <1>5. CASE ReleaseExpiredLocks
    BY <1>0, <1>5 DEF ReleaseExpiredLocks, DeviceDoc
  <1>6. CASE AgeLocks
    <2> DEFINE older == [device[d].lock EXCEPT !.age = @ + 1]
    <2>1. device'[d] = device[d] \/ device'[d] = [device[d] EXCEPT !.lock = older]
      BY <1>6 DEF AgeLocks, Aged
    <2> HIDE DEF older
    <2> QED BY <1>0, <2>1 DEF DeviceDoc
  <1> QED BY <1>1, <1>2, <1>3, <1>4, <1>5, <1>6 DEF UserRoute

\* No discovery and no request leaves a stable device out, so that only the
\* sweep could take one offline; and the sweep has nothing on a machine whose
\* agent has been up all the time, as its silence is short.
Reported ==
  /\ Stable \subseteq attached
  /\ \A m \in Machines : agent[m].pc \in {"discovered", "reporting"} =>
       Stable \cap DevicesOf(m) \subseteq agent[m].found
  /\ \A q \in Requests : request[q].pc # "free" =>
       Stable \cap DevicesOf(request[q].machineId) \subseteq request[q].devices

NeverSilent == \A m \in Machines : Up(m) =>
  host[m].silence <= MaxSilence /\ m \notin sweep.machineIds

StaysOnline == \A d \in Stable : Up(MachineOf(d)) => device[d].status # "offline"

\* An agent waits for the answer to the one request it has under way.
Awaited ==
  /\ \A q \in Requests : request[q].awaited => agent[request[q].machineId].pc = "waiting"
  /\ \A p, q \in Requests :
       request[p].awaited /\ request[q].awaited
         /\ request[p].machineId = request[q].machineId => p = q

AvailableInv == RegistryTyping /\ Awaited /\ Reported /\ NeverSilent /\ StaysOnline

LEMMA StableDevices == \A d \in Stable : d \in Devices /\ MachineOf(d) \in Machines
  BY DevicesAssumption DEF Stable, MachineOf

LEMMA InitAvailable == RegistryInit => AvailableInv
  <1> SUFFICES ASSUME RegistryInit PROVE AvailableInv
    OBVIOUS
  <1>1. Reported
    BY DEF RegistryInit, Reported, Stable, FreeSlot
  <1>2. NeverSilent
    BY RegistryAssumption DEF RegistryInit, NeverSilent, IdleSweep
  <1>3. StaysOnline
    BY StableDevices DEF RegistryInit, StaysOnline, LocksInit, NoDocument
  <1>4. Awaited
    BY DEF RegistryInit, Awaited, FreeSlot
  <1> QED BY <1>1, <1>2, <1>3, <1>4, InitTyping DEF AvailableInv

\* An agent that is up was up before: none returns.
LEMMA UpWasUp ==
  ASSUME ReturningAgents = {}, RegistryTyping, Awaited, [RegistryNext]_registryVars,
         NEW m \in Machines, Up(m)'
  PROVE  Up(m)
  <1>1. ASSUME NEW n \in Machines, AgentStops(n) \/ AgentStep(n) \/ CallFails(n)
        PROVE  Up(m)
    BY <1>1 DEF AgentStops, AgentStep, CallFails, Discover, UpsertHeartbeat, SendSync, Idle,
                Up, RegistryTyping, Agent
  <1>2. ASSUME NEW q \in Requests, SyncStep(q)
        PROVE  Up(m)
    <2>1. CASE request[q].awaited /\ request[q].machineId = m
      BY <2>1 DEF Awaited, Up
    <2>2. CASE ~(request[q].awaited /\ request[q].machineId = m)
      BY <1>2, <2>2 DEF SyncStep, SyncUpsert, SyncBackToIdle, SyncTakeOffline,
         TakeOfflineAndAnswer, Idle, Up, RegistryTyping, labVars
    <2> QED BY <2>1, <2>2
  <1> QED BY <1>1, <1>2
          DEF RegistryNext, registryVars, AgentStarts, Plug, StaleSweepStep, FindStaleHosts,
              MarkHostsOffline, MarkDevicesOffline, LockRoute, ExpirySweep, Tick, HubRestart,
              Up, labVars

LEMMA NextAwaited ==
  ASSUME RegistryTyping, Awaited, [RegistryNext]_registryVars
  PROVE  Awaited'
  <1>0. \A q \in Requests : request[q].machineId \in Machines
    BY DEF RegistryTyping, Request
  <1>1. ASSUME NEW m \in Machines, AgentStarts(m) \/ Discover(m) \/ UpsertHeartbeat(m)
        PROVE  Awaited'
    <2>1. request' = request /\ agent[m].pc # "waiting"
      BY <1>1 DEF AgentStarts, Discover, UpsertHeartbeat, hubVars, Up
    <2>2. \A n \in Machines \ {m} : agent'[n] = agent[n]
      BY <1>1 DEF AgentStarts, Discover, UpsertHeartbeat, Idle, RegistryTyping
    <2> QED BY <1>0, <2>1, <2>2 DEF Awaited
  <1>2. ASSUME NEW m \in Machines, AgentStops(m) \/ CallFails(m)
        PROVE  Awaited'
    <2>1. request' = Abandoned(m)
      BY <1>2 DEF AgentStops, CallFails
    <2>2. \A q \in Requests : /\ request'[q].machineId = request[q].machineId
                              /\ request'[q].awaited => request[q].awaited
                                                        /\ request[q].machineId # m
      BY <2>1 DEF Abandoned, RegistryTyping, Request
    <2>3. \A n \in Machines \ {m} : agent'[n] = agent[n]
      BY <1>2 DEF AgentStops, CallFails, Idle, RegistryTyping
    <2> QED BY <1>0, <2>2, <2>3 DEF Awaited
  <1>3. ASSUME NEW m \in Machines, NEW q \in Requests, SendSync(m, q)
        PROVE  Awaited'
    <2>1. /\ agent[m].pc = "reporting" /\ agent'[m].pc = "waiting"
          /\ \A n \in Machines \ {m} : agent'[n] = agent[n]
      BY <1>3 DEF SendSync, RegistryTyping
    <2>2. request'[q].machineId = m /\ \A p \in Requests \ {q} : request'[p] = request[p]
      BY <1>3 DEF SendSync, RegistryTyping
    <2>3. \A p \in Requests : request[p].awaited => request[p].machineId # m
      BY <2>1 DEF Awaited
    <2> QED BY <1>0, <2>1, <2>2, <2>3 DEF Awaited
  <1>4. ASSUME NEW q \in Requests, SyncUpsert(q) \/ SyncBackToIdle(q)
        PROVE  Awaited'
    <2>1. agent' = agent /\ \A p \in Requests : /\ request'[p].machineId = request[p].machineId
                                                /\ request'[p].awaited = request[p].awaited
      BY <1>4 DEF SyncUpsert, SyncBackToIdle, labVars, RegistryTyping, Request
    <2> QED BY <2>1 DEF Awaited
  <1>5. ASSUME NEW q \in Requests, SyncTakeOffline(q)
        PROVE  Awaited'
    <2>1. ~request'[q].awaited /\ \A p \in Requests \ {q} : request'[p] = request[p]
      BY <1>5 DEF SyncTakeOffline, TakeOfflineAndAnswer, RegistryTyping, FreeSlot
    <2>2. \A n \in Machines : agent'[n] = agent[n]
                              \/ (request[q].awaited /\ n = request[q].machineId)
      BY <1>5 DEF SyncTakeOffline, TakeOfflineAndAnswer, RegistryTyping, Idle
    <2> QED BY <1>0, <2>1, <2>2 DEF Awaited
  <1>6. CASE HubRestart
    BY <1>6 DEF HubRestart, Awaited, FreeSlot
  <1>7. CASE UNCHANGED <<agent, request>>
    BY <1>7 DEF Awaited
  <1> QED BY <1>1, <1>2, <1>3, <1>4, <1>5, <1>6, <1>7
          DEF RegistryNext, registryVars, AgentStep, SyncStep, Plug, StaleSweepStep,
              FindStaleHosts, MarkHostsOffline, MarkDevicesOffline, LockRoute, ExpirySweep,
              Tick, labVars, hubVars

LEMMA NextReported ==
  ASSUME RegistryTyping, Reported, [RegistryNext]_registryVars
  PROVE  Reported'
  <1>0. /\ \A q \in Requests : request[q].machineId \in Machines
        /\ FreeSlot.pc = "free"
    BY DEF RegistryTyping, Request, FreeSlot
  <1>1. ASSUME NEW d \in Devices, Plug(d)
        PROVE  Reported'
    BY <1>1 DEF Plug, Reported, Stable, hubVars
  <1>2. ASSUME NEW m \in Machines, AgentStarts(m) \/ AgentStops(m) \/ CallFails(m)
        PROVE  Reported'
    <2>1. attached' = attached /\ (request' = request \/ request' = Abandoned(m))
      BY <1>2 DEF AgentStarts, AgentStops, CallFails, hubVars
    <2>2. \A q \in Requests : /\ request'[q].pc = request[q].pc
                              /\ request'[q].machineId = request[q].machineId
                              /\ request'[q].devices = request[q].devices
      BY <2>1 DEF Abandoned, RegistryTyping, Request
    <2>3. /\ agent'[m].pc \notin {"discovered", "reporting"}
          /\ \A n \in Machines \ {m} : agent'[n] = agent[n]
      BY <1>2 DEF AgentStarts, AgentStops, CallFails, Idle, RegistryTyping
    <2> QED BY <2>1, <2>2, <2>3 DEF Reported
  <1>3. ASSUME NEW m \in Machines, Discover(m)
        PROVE  Reported'
    <2>1. PICK missed \in SUBSET FlakyDevices :
            agent' = [agent EXCEPT ![m] =
                       [pc |-> "discovered",
                        found |-> (attached \cap DevicesOf(m)) \ missed]]
      BY <1>3 DEF Discover
    <2>2. UNCHANGED <<attached, request>>
      BY <1>3 DEF Discover, hubVars
    <2>3. agent'[m].found = (attached \cap DevicesOf(m)) \ missed
          /\ \A n \in Machines \ {m} : agent'[n] = agent[n]
      BY <2>1 DEF RegistryTyping
    <2>4. Stable \cap DevicesOf(m) \subseteq agent'[m].found
      BY <2>3 DEF Reported, Stable
    <2> QED BY <2>2, <2>3, <2>4 DEF Reported
  <1>4. ASSUME NEW m \in Machines, UpsertHeartbeat(m)
        PROVE  Reported'
    <2>1. UNCHANGED <<attached, request>> /\ agent[m].pc = "discovered"
      BY <1>4 DEF UpsertHeartbeat
    <2>2. \A n \in Machines : agent'[n].found = agent[n].found
                              /\ (n # m => agent'[n] = agent[n])
      BY <1>4 DEF UpsertHeartbeat, RegistryTyping, Agent
    <2> QED BY <2>1, <2>2 DEF Reported
  <1>5. ASSUME NEW m \in Machines, NEW q \in Requests, SendSync(m, q)
        PROVE  Reported'
    <2>1. /\ attached' = attached /\ agent[m].pc = "reporting"
          /\ agent'[m].pc = "waiting" /\ \A n \in Machines \ {m} : agent'[n] = agent[n]
      BY <1>5 DEF SendSync, RegistryTyping
    <2>2. /\ request'[q].machineId = m /\ request'[q].devices = agent[m].found
          /\ \A p \in Requests \ {q} : request'[p] = request[p]
      BY <1>5 DEF SendSync, RegistryTyping
    <2> QED BY <2>1, <2>2 DEF Reported
  <1>6. ASSUME NEW q \in Requests, SyncStep(q)
        PROVE  Reported'
    <2>1. attached' = attached
      BY <1>6 DEF SyncStep, SyncUpsert, SyncBackToIdle, SyncTakeOffline,
         TakeOfflineAndAnswer, labVars
    <2>2. \A p \in Requests : \/ request'[p].pc = "free"
                              \/ /\ request[p].pc # "free"
                                 /\ request'[p].machineId = request[p].machineId
                                 /\ request'[p].devices = request[p].devices
      BY <1>0, <1>6 DEF SyncStep, SyncUpsert, SyncBackToIdle, SyncTakeOffline,
         TakeOfflineAndAnswer, RegistryTyping, Request
    <2>3. \A n \in Machines : agent'[n] = agent[n] \/ agent'[n].pc = "idle"
      BY <1>6 DEF SyncStep, SyncUpsert, SyncBackToIdle, SyncTakeOffline,
         TakeOfflineAndAnswer, Idle, RegistryTyping, labVars
    <2> QED BY <2>1, <2>2, <2>3 DEF Reported
  <1>7. CASE HubRestart
    <2>1. \A n \in Machines : agent'[n] = agent[n] \/ agent'[n].pc = "idle"
      BY <1>7 DEF HubRestart
    <2> QED BY <1>0, <1>7, <2>1 DEF HubRestart, Reported
  <1>8. CASE UNCHANGED <<attached, agent, request>>
    BY <1>8 DEF Reported
  <1> QED BY <1>1, <1>2, <1>3, <1>4, <1>5, <1>6, <1>7, <1>8
          DEF RegistryNext, registryVars, AgentStep, StaleSweepStep,
              FindStaleHosts, MarkHostsOffline, MarkDevicesOffline, LockRoute, ExpirySweep,
              Tick, labVars, hubVars

LEMMA NextNeverSilent ==
  ASSUME ReturningAgents = {}, MaxSilence <= OfflineAfter, RegistryTyping, Awaited,
         NeverSilent, [RegistryNext]_registryVars
  PROVE  NeverSilent'
  <1> SUFFICES ASSUME NEW m \in Machines, Up(m)'
               PROVE  host'[m].silence <= MaxSilence /\ m \notin sweep'.machineIds
    BY DEF NeverSilent
  <1>0. /\ Up(m) /\ host[m].silence <= MaxSilence /\ m \notin sweep.machineIds
        /\ host[m] \in Host /\ MaxSilence \in Nat /\ OfflineAfter \in Nat
    BY UpWasUp, RegistryAssumption DEF NeverSilent, RegistryTyping
  <1>1. CASE Tick
    <2>1. host[m].status # "unknown" => host[m].silence < MaxSilence
      BY <1>0, <1>1 DEF Tick
    <2>2. host'[m] = host[m] \/ /\ host[m].status # "unknown"
                                /\ host'[m] = [host[m] EXCEPT !.silence = @ + 1]
      BY <1>1 DEF Tick
    <2> QED BY <1>0, <1>1, <2>1, <2>2 DEF Tick, Host
  <1>2. ASSUME NEW n \in Machines, UpsertHeartbeat(n)
        PROVE  host'[m].silence <= MaxSilence /\ m \notin sweep'.machineIds
    BY <1>0, <1>2 DEF UpsertHeartbeat, RegistryTyping
  <1>3. CASE FindStaleHosts
    <2>1. ~Stale(m)
      BY <1>0 DEF Stale, Host
    <2> QED BY <1>0, <1>3, <2>1 DEF FindStaleHosts
  <1>4. CASE MarkHostsOffline
    BY <1>0, <1>4 DEF MarkHostsOffline, RegistryTyping, Host, Sweep
  <1>5. CASE MarkDevicesOffline
    BY <1>0, <1>5 DEF MarkDevicesOffline, IdleSweep
  <1>6. CASE HubRestart
    BY <1>0, <1>6 DEF HubRestart, IdleSweep
  <1>7. CASE UNCHANGED <<host, sweep>>
    BY <1>0, <1>7
  <1> QED BY <1>1, <1>2, <1>3, <1>4, <1>5, <1>6, <1>7
          DEF RegistryNext, registryVars, AgentStep, AgentStarts, AgentStops, CallFails,
              Discover, SendSync, SyncStep, SyncUpsert, SyncBackToIdle, SyncTakeOffline,
              TakeOfflineAndAnswer, Plug, StaleSweepStep, LockRoute, ExpirySweep,
              labVars, hubVars

\* The two updates that take devices offline leave the stable ones of a machine
\* whose agent is up alone.
LEMMA TakeOfflineSparesStable ==
  ASSUME LocksTypeOK, NEW D, TakeOffline(D), NEW d \in Devices \ D
  PROVE  device'[d] = device[d]
  BY DEF TakeOffline

LEMMA NextStaysOnline ==
  ASSUME ReturningAgents = {}, LocksTypeOK, AvailableInv, [RegistryNext]_registryVars
  PROVE  StaysOnline'
  <1> SUFFICES ASSUME NEW d \in Stable, Up(MachineOf(d))'
               PROVE  device'[d].status # "offline"
    BY DEF StaysOnline
  <1>0. /\ d \in Devices /\ MachineOf(d) \in Machines /\ Up(MachineOf(d))
        /\ device[d].status # "offline"
    BY StableDevices, UpWasUp DEF AvailableInv, StaysOnline
  <1>1. ASSUME NEW q \in Requests, SyncTakeOffline(q)
        PROVE  device'[d].status # "offline"
    <2>1. d \notin DevicesOf(request[q].machineId) \ request[q].devices
      BY <1>1 DEF SyncTakeOffline, TakeOfflineAndAnswer, AvailableInv, Reported
    <2> QED BY <1>0, <1>1, <2>1, TakeOfflineSparesStable
            DEF SyncTakeOffline, TakeOfflineAndAnswer
  <1>2. CASE MarkDevicesOffline
    <2>1. d \notin {e \in Devices : MachineOf(e) \in sweep.machineIds}
      BY <1>0 DEF AvailableInv, NeverSilent
    <2> QED BY <1>0, <1>2, <2>1, TakeOfflineSparesStable DEF MarkDevicesOffline
  <1>3. ASSUME NEW q \in Requests, SyncUpsert(q) \/ SyncBackToIdle(q)
        PROVE  device'[d].status # "offline"
    <2>1. request[q].devices \in SUBSET Devices
      BY DEF AvailableInv, RegistryTyping, Request
    <2> QED BY <1>0, <1>3, <2>1, OnlyTakenOffline DEF SyncUpsert, SyncBackToIdle
  <1>4. CASE LockRoute
    <2>1. UserRoute
      BY <1>4, RouteRefines
    <2> QED BY <1>0, <2>1, OnlyTakenOffline
  <1>5. CASE ExpirySweep \/ Tick
    BY <1>0, <1>5, OnlyTakenOffline DEF ExpirySweep, Tick
  <1>6. CASE UNCHANGED device
    BY <1>0, <1>6
  <1> QED BY <1>1, <1>2, <1>3, <1>4, <1>5, <1>6
          DEF RegistryNext, registryVars, AgentStep, AgentStarts, AgentStops, CallFails,
              Discover, UpsertHeartbeat, SendSync, SyncStep, Plug, StaleSweepStep,
              FindStaleHosts, MarkHostsOffline, HubRestart

\* A device that stays attached to a machine whose agent has been reporting since
\* the hub first heard of it, at least as often as OFFLINE_AFTER_MS asks, is never
\* taken offline: not by requests that overlap, are late or are given up, not by a
\* sweep that is under way, and not by restarts of the hub (hosts.service.ts:48-63,
\* devices.service.ts:22-61).
THEOREM AttachedAlwaysAvailable ==
  ASSUME ReturningAgents = {}, MaxSilence <= OfflineAfter
  PROVE  RegistrySpec => []AttachedStaysAvailable
  <1>1. ASSUME LocksInv, AvailableInv, [RegistryNext]_registryVars
        PROVE  AvailableInv'
    <2>1. LocksTypeOK
      BY <1>1 DEF LocksInv
    <2> QED BY <1>1, <2>1, NextTyping, NextAwaited, NextReported, NextNeverSilent,
               NextStaysOnline DEF AvailableInv
  <1>2. RegistryTyping /\ AvailableInv => AttachedStaysAvailable
    BY DEF RegistryTyping, AvailableInv, StaysOnline, AttachedStaysAvailable, Stable
  <1> QED BY <1>1, <1>2, InitAvailable, RegistryTypingHolds, RegistryImplementsLocks,
             LocksInvHolds, PTL DEF RegistrySpec, ImplementsLocks

\* The registry keeps the promise of the lease: under all agents, requests, sweeps
\* and restarts a device passes from one session to another only by being free.
THEOREM RegistryKeepsLeases == RegistrySpec => ImplementsLease
  BY RegistryImplementsLocks, LocksImplementLease DEF ImplementsLocks
=============================================================================
