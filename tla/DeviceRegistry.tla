---------------------------- MODULE DeviceRegistry ----------------------------
(***************************************************************************)
(* How the hub's picture of the lab follows the lab: the agent's loop on   *)
(* every machine (discover, heartbeat, sync), the sync handler of          *)
(* devices.service.ts, the stale-host sweep of hosts.service.ts, the lock  *)
(* expiry sweep and the lock routes, interleaved at every await.           *)
(*                                                                         *)
(* A request outlives the call that made it: the agent gives up after 10 s *)
(* (hub-client.ts) while the hub goes on with the request, so requests of  *)
(* one machine overlap and finish in any order.                            *)
(***************************************************************************)
EXTENDS DeviceLocks

CONSTANTS
  Requests,        \* slots for the sync requests that are under way at once
  OfflineAfter,    \* OFFLINE_AFTER_MS in ticks
  (* what the environment of the hub may do *)
  MaxSilence,      \* the longest a live agent goes without a heartbeat
  MortalAgents,    \* machines whose agent may stop
  ReturningAgents, \* machines whose agent may start again after a stop
  Pluggable,       \* devices that may be attached and detached
  FlakyDevices,    \* attached devices that discovery may miss
  CallsMayFail,    \* can a call of an agent fail or time out?
  HubMayRestart,   \* can the hub crash and restart?
  SlowHub,         \* can a sync request take longer than a tick?
  LockUsers        \* users that use the lock routes

ASSUME RegistryAssumption ==
  /\ OfflineAfter \in Nat \ {0} /\ MaxSilence \in Nat \ {0}
  /\ MortalAgents \subseteq Machines /\ ReturningAgents \subseteq Machines
  /\ Pluggable \subseteq Devices /\ FlakyDevices \subseteq Devices
  /\ CallsMayFail \in BOOLEAN /\ HubMayRestart \in BOOLEAN /\ SlowHub \in BOOLEAN
  /\ LockUsers \subseteq Users

VARIABLES
  attached,   \* the devices that are attached to their machine
  agent,      \* agent[m]: where the loop of m's agent is, and what it found
  host,       \* host[m]: the host document of m
  request,    \* request[q]: a sync request and how far the hub is with it
  sweep       \* the stale-host sweep: how far it is, and the hosts it found

labVars == <<attached, agent>>
hubVars == <<host, request, sweep>>
registryVars == <<device, attached, agent, host, request, sweep>>

Agent == [pc : {"down", "idle", "discovered", "reporting", "waiting"},
          found : SUBSET Devices]
Host == [status : {"unknown", "online", "offline"}, silence : 0 .. OfflineAfter + 1]
Request == [pc : {"free", "sent", "upserted", "revived"},
            machineId : Machines, devices : SUBSET Devices, awaited : BOOLEAN]
Sweep == [pc : {"idle", "found", "marked"}, machineIds : SUBSET Machines]

RegistryTypeOK ==
  /\ LocksTypeOK
  /\ attached \in SUBSET Devices
  /\ agent \in [Machines -> Agent]
  /\ host \in [Machines -> Host]
  /\ request \in [Requests -> Request]
  /\ sweep \in Sweep

DevicesOf(m) == {d \in Devices : MachineOf(d) = m}
Up(m) == agent[m].pc # "down"
FreeSlot == [pc |-> "free", machineId |-> CHOOSE m \in Machines : TRUE,
             devices |-> {}, awaited |-> FALSE]
IdleSweep == [pc |-> "idle", machineIds |-> {}]

RegistryInit ==
  /\ LocksInit
  /\ attached \in {Devices, Devices \ Pluggable}
  /\ agent = [m \in Machines |-> [pc |-> "idle", found |-> {}]]
  /\ host = [m \in Machines |-> [status |-> "unknown", silence |-> 0]]
  /\ request = [q \in Requests |-> FreeSlot]
  /\ sweep = IdleSweep

-----------------------------------------------------------------------------
(* The lab *)

Plug(d) ==
  /\ d \in Pluggable
  /\ attached' = IF d \in attached THEN attached \ {d} ELSE attached \cup {d}
  /\ UNCHANGED <<device, agent, hubVars>>

\* What an agent goes on to after a call or a failure: wait, then poll again.
Idle(m) == agent' = [agent EXCEPT ![m] = [pc |-> "idle", found |-> {}]]

AgentStarts(m) ==
  /\ m \in ReturningAgents /\ ~Up(m)
  /\ Idle(m)
  /\ UNCHANGED <<device, attached, hubVars>>

\* Nobody awaits the answer of a request of m any longer.
Abandoned(m) == [q \in Requests |->
  IF request[q].machineId = m THEN [request[q] EXCEPT !.awaited = FALSE]
  ELSE request[q]]

AgentStops(m) ==
  /\ m \in MortalAgents /\ Up(m)
  /\ agent' = [agent EXCEPT ![m] = [pc |-> "down", found |-> {}]]
  /\ request' = Abandoned(m)
  /\ UNCHANGED <<device, attached, host, sweep>>

\* discover(): a device whose properties cannot be read is left out.
Discover(m) ==
  /\ agent[m].pc = "idle"
  /\ \E missed \in SUBSET FlakyDevices :
       agent' = [agent EXCEPT ![m] =
                  [pc |-> "discovered",
                   found |-> (attached \cap DevicesOf(m)) \ missed]]
  /\ UNCHANGED <<device, attached, hubVars>>

\* heartbeat(), answered by upsertHeartbeat.
UpsertHeartbeat(m) ==
  /\ agent[m].pc = "discovered"
  /\ host' = [host EXCEPT ![m] = [status |-> "online", silence |-> 0]]
  /\ agent' = [agent EXCEPT ![m].pc = "reporting"]
  /\ UNCHANGED <<device, attached, request, sweep>>

\* syncDevices() of the client: the request is on its way.
SendSync(m, q) ==
  /\ agent[m].pc = "reporting"
  /\ request[q].pc = "free"
  /\ request' = [request EXCEPT ![q] =
       [pc |-> "sent", machineId |-> m, devices |-> agent[m].found, awaited |-> TRUE]]
  /\ agent' = [agent EXCEPT ![m] = [pc |-> "waiting", found |-> {}]]
  /\ UNCHANGED <<device, attached, host, sweep>>

\* A heartbeat or sync fails or times out: the loop swallows it and goes on.
CallFails(m) ==
  /\ CallsMayFail
  /\ agent[m].pc \in {"discovered", "reporting", "waiting"}
  /\ Idle(m)
  /\ request' = Abandoned(m)
  /\ UNCHANGED <<device, attached, host, sweep>>

-----------------------------------------------------------------------------
(* syncDevices of the hub: three updates, each awaited *)

SyncUpsert(q) ==
  /\ request[q].pc = "sent"
  /\ UpsertReported(request[q].devices)
  /\ request' = [request EXCEPT ![q].pc = "upserted"]
  /\ UNCHANGED <<labVars, host, sweep>>

\* Variant: reported devices are not brought back.
SyncNoBackToIdle(q) ==
  /\ request[q].pc = "upserted"
  /\ request' = [request EXCEPT ![q].pc = "revived"]
  /\ UNCHANGED <<device, labVars, host, sweep>>

SyncBackToIdle(q) ==
  /\ request[q].pc = "upserted"
  /\ BackToIdle(request[q].devices)
  /\ request' = [request EXCEPT ![q].pc = "revived"]
  /\ UNCHANGED <<labVars, host, sweep>>

TakeOfflineAndAnswer(q, D) ==
  /\ request[q].pc = "revived"
  /\ TakeOffline(D)
  /\ request' = [request EXCEPT ![q] = FreeSlot]
  /\ IF request[q].awaited THEN Idle(request[q].machineId) ELSE UNCHANGED agent
  /\ UNCHANGED <<attached, host, sweep>>

\* Variants: reported devices go offline too; other machines' devices do.
SyncTakeAllOffline(q) == TakeOfflineAndAnswer(q, DevicesOf(request[q].machineId))
SyncTakeOthersOffline(q) == TakeOfflineAndAnswer(q, Devices \ request[q].devices)

\* Devices of the machine that were not reported go offline; then the answer.
SyncTakeOffline(q) ==
  TakeOfflineAndAnswer(q, DevicesOf(request[q].machineId) \ request[q].devices)

-----------------------------------------------------------------------------
(* markStaleHostsOffline: find, mark the hosts, take their devices offline *)

Stale(m) == host[m].status = "online" /\ host[m].silence > OfflineAfter

FindStaleHosts ==
  /\ sweep.pc = "idle"
  /\ \E m \in Machines : Stale(m)
  /\ sweep' = [pc |-> "found", machineIds |-> {m \in Machines : Stale(m)}]
  /\ UNCHANGED <<device, labVars, host, request>>

MarkHostsOffline ==
  /\ sweep.pc = "found"
  /\ host' = [m \in Machines |->
       IF m \in sweep.machineIds THEN [host[m] EXCEPT !.status = "offline"]
       ELSE host[m]]
  /\ sweep' = [sweep EXCEPT !.pc = "marked"]
  /\ UNCHANGED <<device, labVars, request>>

\* Variant: the devices stay as they are.
MarkNoDevices ==
  /\ sweep.pc = "marked" /\ sweep' = IdleSweep
  /\ UNCHANGED <<device, labVars, host, request>>

MarkDevicesOffline ==
  /\ sweep.pc = "marked"
  /\ TakeOffline({d \in Devices : MachineOf(d) \in sweep.machineIds})
  /\ sweep' = IdleSweep
  /\ UNCHANGED <<labVars, host, request>>

-----------------------------------------------------------------------------
(* The lock routes, the expiry sweep, time and restarts *)

LockRoute ==
  /\ \E u \in Udids, user \in LockUsers :
       \/ \E s \in Sessions : AcquireLock(u, user, s)
       \/ RenewLock(u, user, user \in Admins)
       \/ ReleaseLock(u, user, user \in Admins)
  /\ UNCHANGED <<labVars, hubVars>>

ExpirySweep == ReleaseExpiredLocks /\ UNCHANGED <<labVars, hubVars>>

\* Time passes, unless a live agent is due with its next heartbeat or the hub
\* with its answer.
Tick ==
  /\ SlowHub \/ \A q \in Requests : request[q].pc = "free"
  /\ \A m \in Machines :
       Up(m) /\ host[m].status # "unknown" => host[m].silence < MaxSilence
  /\ AgeLocks
  /\ host' = [m \in Machines |->
       IF host[m].status # "unknown" /\ host[m].silence <= OfflineAfter
       THEN [host[m] EXCEPT !.silence = @ + 1] ELSE host[m]]
  /\ UNCHANGED <<labVars, request, sweep>>

\* The process goes away with the requests and the sweep it was busy with.
HubRestart ==
  /\ HubMayRestart
  /\ request' = [q \in Requests |-> FreeSlot]
  /\ sweep' = IdleSweep
  /\ agent' = [m \in Machines |->
       IF agent[m].pc = "waiting" THEN [pc |-> "idle", found |-> {}] ELSE agent[m]]
  /\ UNCHANGED <<device, attached, host>>

AgentStep(m) == Discover(m) \/ UpsertHeartbeat(m) \/ \E q \in Requests : SendSync(m, q)
SyncStep(q) == SyncUpsert(q) \/ SyncBackToIdle(q) \/ SyncTakeOffline(q)
StaleSweepStep == FindStaleHosts \/ MarkHostsOffline \/ MarkDevicesOffline

RegistryNext ==
  \/ \E d \in Devices : Plug(d)
  \/ \E m \in Machines :
       AgentStarts(m) \/ AgentStops(m) \/ AgentStep(m) \/ CallFails(m)
  \/ \E q \in Requests : SyncStep(q)
  \/ StaleSweepStep \/ LockRoute \/ ExpirySweep \/ Tick \/ HubRestart

RegistrySpec == RegistryInit /\ [][RegistryNext]_registryVars

\* The agents poll, the hub's handlers finish, the sweeps run on intervals.
\* Nothing makes a user, a cable or a crash happen.
RegistryFairness ==
  /\ \A m \in Machines : WF_registryVars(AgentStep(m))
  /\ \A q \in Requests : WF_registryVars(SyncStep(q))
  /\ WF_registryVars(StaleSweepStep)
  /\ WF_registryVars(ExpirySweep)
  /\ SF_registryVars(Tick)

RegistryFairSpec == RegistrySpec /\ RegistryFairness
-----------------------------------------------------------------------------
(* Properties *)

\* A device that stays attached to a machine whose agent reports in time is
\* never taken offline, whatever sweep or request is under way: it is known
\* and offline only while its agent is down or it is detached.
AttachedStaysAvailable ==
  \A d \in attached \ (Pluggable \cup FlakyDevices) :
    device[d].known /\ Up(MachineOf(d)) => device[d].status # "offline"

\* A sync leaves a device it reports in the hands of whoever holds it: "a
\* device already locked must keep that status across a routine re-sync".
ReportedKeepsItsLock ==
  [][\A q \in Requests : SyncStep(q) =>
       \A d \in request[q].devices :
         Locked(d) => device'[d].lock = device[d].lock /\ device'[d].status = "in-use"
    ]_registryVars

\* From some point on: m's agent runs, its calls succeed, the hub does not
\* restart, and what is attached does not change.
Settled(m) ==
  /\ <>[]Up(m)
  /\ <>[][~CallFails(m)]_registryVars
  /\ <>[][~(HubMayRestart /\ HubRestart)]_registryVars
  /\ <>[][UNCHANGED attached]_registryVars

\* Once things settle the registry tells the truth again, whatever overlapping,
\* late or lost requests, stops and sweeps came before ("an agent restart or a
\* missed poll self-heals on the next tick").
RegistryHeals ==
  \A d \in Devices \ FlakyDevices : Settled(MachineOf(d)) =>
    \/ []<>(d \in attached /\ device[d].known /\ device[d].status # "offline")
    \/ []<>(d \notin attached /\ (device[d].known => device[d].status = "offline"))

\* A host whose agent stays down is marked offline, and at one moment after that
\* every device of it is offline too and its locks are freed, also where locks are
\* taken meanwhile and an old sync of the machine is late. It need not last: a
\* lock route names a device by its udid whatever its status, and a sync that was
\* under way when the agent died may still bring its devices back. (Calls of the
\* other agents that fail for ever would stop the model's time, not the program's.)
Dark(m) == \A d \in DevicesOf(m) : device[d].known => device[d].status = "offline"
DeadHostGoesDark ==
  (\A n \in Machines : <>[][~CallFails(n)]_registryVars) =>
    \A m \in Machines :
      [](host[m].status = "online" /\ []~Up(m) => <>(host[m].status = "offline" /\ Dark(m)))

\* The registry changes the documents only in the ways DeviceLocks allows.
ImplementsLocks == LocksSpec
=============================================================================
