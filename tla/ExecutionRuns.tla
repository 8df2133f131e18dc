---------------------------- MODULE ExecutionRuns ----------------------------
(***************************************************************************)
(* Test runs on devices: execution.service.ts (trigger, orchestrate,       *)
(* cancel, recover after a restart) over the device documents of           *)
(* DeviceLocks, with the children it spawns, the crashes of the hub and    *)
(* the other users of the locks.                                           *)
(*                                                                         *)
(* One action is what happens between two awaits: the continuation's       *)
(* checks of the in-memory sets, then the update it awaits.                *)
(***************************************************************************)
EXTENDS DeviceLocks

CONSTANTS
  Runs,              \* ids of the runs that can be triggered; each is the
                     \* sessionId of the lock its run acquires
  Operators,         \* users that trigger runs
  (* what the environment of the hub may do *)
  LockUsers,         \* users that use the lock routes
  Unpluggable,       \* devices that may drop off their host and come back
  WorkspaceMayFail,  \* can preparing the workspace throw?
  SpawnMayFail,      \* can a command fail to start?
  MaxFaults,         \* database calls of the orchestration that throw
  MaxCrashes         \* crashes of the hub process

ASSUME ExecutionAssumption ==
  /\ Runs \subseteq Sessions /\ Operators \subseteq Users /\ LockUsers \subseteq Users
  /\ Devices # {} /\ Operators # {} /\ Unpluggable \subseteq Devices
  /\ WorkspaceMayFail \in BOOLEAN /\ SpawnMayFail \in BOOLEAN
  /\ MaxFaults \in Nat /\ MaxCrashes \in Nat

VARIABLES
  run,         \* run[r]: the ExecutionRun document of r
  doc,         \* doc[r]: the document as the orchestration of r has it in memory
  pc,          \* pc[r]: how far the orchestration of r is
  child,       \* child[r]: the process r spawned last, or its exit code
  killed,      \* runs whose live child was sent SIGTERM
  cancelling,  \* cancel requests that have read their run and not acted yet
  cancelled,   \* cancelledRuns
  hub,         \* the hub process: up, down or recovering orphaned runs
  faults, crashes   \* how often the environment has struck

runVars == <<run, doc, pc>>
childVars == <<child, killed>>
cancelVars == <<cancelling, cancelled>>
budgetVars == <<faults, crashes>>
executionVars == <<device, run, doc, pc, child, killed, cancelling, cancelled,
                   hub, faults, crashes>>

InFlightStatus == {"queued", "preparing", "running"}
TerminalStatus == {"passed", "failed", "cancelled"}

RunDoc == [status : InFlightStatus \cup TerminalStatus \cup {"none"},
           installing : {"skipped", "pending", "running", "done", "error"},
           execute : {"pending", "running", "done", "error"},
           ended : BOOLEAN,
           target : Devices, triggeredBy : Users]

\* Where the orchestration is, named for what it does next.
InFlightPc == {"acquire", "refuse", "prepare", "afterPrepare", "spawnSetup", "setup",
               "afterSetup", "startTest", "spawnTest", "test", "setCancelled",
               "setFailed", "setPassed", "catch", "finally", "release"}
Pc == InFlightPc \cup {"none", "done", "lost"}

Live == {"setup", "test"}
Exited == {"exit 0", "exit 1"}

ExecutionTypeOK ==
  /\ LocksTypeOK
  /\ run \in [Runs -> RunDoc] /\ doc \in [Runs -> RunDoc]
  /\ pc \in [Runs -> Pc]
  /\ child \in [Runs -> {"none"} \cup Live \cup Exited]
  /\ killed \in SUBSET Runs
  /\ cancelling \in SUBSET Runs /\ cancelled \in SUBSET Runs
  /\ hub \in [pc : {"up", "down", "save", "release"}, orphans : SUBSET Runs]
  /\ faults \in 0 .. MaxFaults /\ crashes \in 0 .. MaxCrashes

NoRun == [status |-> "none", installing |-> "pending", execute |-> "pending",
          ended |-> FALSE, target |-> CHOOSE d \in Devices : TRUE,
          triggeredBy |-> CHOOSE u \in Users : TRUE]

Up == hub.pc = "up"
HubIs(state) == [pc |-> state, orphans |-> {}]

ExecutionInit ==
  /\ LocksInit
  /\ run = [r \in Runs |-> NoRun] /\ doc = run
  /\ pc = [r \in Runs |-> "none"]
  /\ child = [r \in Runs |-> "none"] /\ killed = {}
  /\ cancelling = {} /\ cancelled = {}
  /\ hub = HubIs("up")
  /\ faults = 0 /\ crashes = 0

-----------------------------------------------------------------------------
(* Awaited database calls *)

Goto(r, next) == pc' = [pc EXCEPT ![r] = next]

\* The database call made now throws, which is counted.
Fault == faults < MaxFaults /\ faults' = faults + 1 /\ UNCHANGED crashes

\* run.save() of the changed document d: it succeeds and the orchestration goes
\* on at next; or it throws, applied or not, and goes on at onError. What was
\* not written stays changed in memory and is part of the following save.
Save(r, d, next, onError) ==
  /\ doc' = [doc EXCEPT ![r] = d]
  /\ \/ /\ run' = [run EXCEPT ![r] = d]
        /\ Goto(r, next)
        /\ UNCHANGED budgetVars
     \/ /\ Fault
        /\ run' \in {run, [run EXCEPT ![r] = d]}
        /\ Goto(r, onError)

SetStatus(r, status, next, onError) ==
  Save(r, [doc[r] EXCEPT !.status = status], next, onError)
SetInstalling(r, status, next) ==
  Save(r, [doc[r] EXCEPT !.installing = status], next, "catch")
SetExecute(r, status, next) ==
  Save(r, [doc[r] EXCEPT !.execute = status], next, "catch")

UdidOfRun(r) == UdidOf(doc[r].target)
HasSetup(r) == doc[r].installing # "skipped"
-----------------------------------------------------------------------------
(* triggerExecutionRun *)

\* The run is recorded as queued; then its device's lock is asked for.
Trigger(r) ==
  /\ Up /\ run[r].status = "none"
  /\ \E d \in Devices, by \in Operators, setup \in {"pending", "skipped"} :
       LET new == [NoRun EXCEPT !.status = "queued", !.installing = setup,
                                !.target = d, !.triggeredBy = by]
       IN  run' = [run EXCEPT ![r] = new] /\ doc' = [doc EXCEPT ![r] = new]
  /\ Goto(r, "acquire")
  /\ UNCHANGED <<device, childVars, cancelVars, hub, budgetVars>>

\* Variant: the run goes on whether it got the lock or not.
AcquireIgnored(r) ==
  /\ pc[r] = "acquire"
  /\ \/ AcquireLock(UdidOfRun(r), doc[r].triggeredBy, r)
     \/ AcquireRefused(UdidOfRun(r)) /\ UNCHANGED device
  /\ Goto(r, "prepare")
  /\ UNCHANGED <<run, doc, childVars, cancelVars, hub, budgetVars>>

Acquire(r) ==
  /\ pc[r] = "acquire"
  /\ \/ /\ AcquireLock(UdidOfRun(r), doc[r].triggeredBy, r)
        /\ Goto(r, "prepare")
        /\ UNCHANGED budgetVars
     \/ /\ AcquireRefused(UdidOfRun(r))
        /\ Goto(r, "refuse")
        /\ UNCHANGED <<device, budgetVars>>
     \/ /\ Fault   \* acquireLock throws, and nobody handles it
        /\ \/ AcquireLock(UdidOfRun(r), doc[r].triggeredBy, r)
           \/ UNCHANGED device
        /\ Goto(r, "done")
  /\ UNCHANGED <<run, doc, childVars, cancelVars, hub>>

\* Variant: a refused run is cleaned up like the others.
RefuseAndCleanUp(r) ==
  /\ pc[r] = "refuse"
  /\ Save(r, [doc[r] EXCEPT !.status = "failed", !.ended = TRUE], "release", "done")
  /\ UNCHANGED <<device, childVars, cancelVars, hub>>

\* DeviceLockedError: the run has failed.
Refuse(r) ==
  /\ pc[r] = "refuse"
  /\ Save(r, [doc[r] EXCEPT !.status = "failed", !.ended = TRUE], "done", "done")
  /\ UNCHANGED <<device, childVars, cancelVars, hub>>

-----------------------------------------------------------------------------
(* runExecution *)

\* mkdirSync and createWriteStream come before the try block.
WorkspaceFails(r) ==
  /\ WorkspaceMayFail
  /\ pc[r] = "prepare"
  /\ Goto(r, "done")
  /\ UNCHANGED <<device, run, doc, childVars, cancelVars, hub, budgetVars>>

\* The save of startedAt, which follows, is part of this step.
Prepare(r) ==
  /\ pc[r] = "prepare"
  /\ SetStatus(r, "preparing", "afterPrepare", "catch")
  /\ UNCHANGED <<device, childVars, cancelVars, hub>>

StartSetup(r) ==
  /\ pc[r] = "afterPrepare" /\ HasSetup(r) /\ r \notin cancelled
  /\ SetInstalling(r, "running", "spawnSetup")
  /\ UNCHANGED <<device, childVars, cancelVars, hub>>

\* Variant: nobody listens to the error event.
SpawnUnheard(r) ==
  /\ \E command \in Live :
       /\ pc[r] = (CASE command = "setup" -> "spawnSetup" [] command = "test" -> "spawnTest")
       /\ child' \in {child, [child EXCEPT ![r] = command]}
       /\ Goto(r, command)
  /\ UNCHANGED <<device, run, doc, killed, cancelVars, hub, budgetVars>>

\* runCommand: spawn, and the entry in runningProcesses; or the error event.
Spawn(r) ==
  /\ \E command \in Live :
       /\ pc[r] = (CASE command = "setup" -> "spawnSetup" [] command = "test" -> "spawnTest")
       /\ \/ /\ child' = [child EXCEPT ![r] = command]
             /\ Goto(r, command)
          \/ /\ SpawnMayFail
             /\ Goto(r, "catch")
             /\ UNCHANGED child
  /\ UNCHANGED <<device, run, doc, killed, cancelVars, hub, budgetVars>>

EndSetup(r) ==
  /\ pc[r] = "setup" /\ child[r] \in Exited
  /\ IF r \in cancelled THEN SetInstalling(r, "error", "setCancelled")
     ELSE IF child[r] = "exit 1" THEN SetInstalling(r, "error", "setFailed")
     ELSE SetInstalling(r, "done", "afterSetup")
  /\ child' = [child EXCEPT ![r] = "none"]
  /\ UNCHANGED <<device, killed, cancelVars, hub>>

\* After the setup stage, or when it was skipped: was the run cancelled?
PastSetup(r) ==
  \/ pc[r] = "afterSetup"
  \/ pc[r] = "afterPrepare" /\ (~HasSetup(r) \/ r \in cancelled)

StopBeforeTest(r) ==
  /\ PastSetup(r) /\ r \in cancelled
  /\ SetExecute(r, "error", "setCancelled")
  /\ UNCHANGED <<device, childVars, cancelVars, hub>>

StartRunning(r) ==
  /\ PastSetup(r) /\ r \notin cancelled
  /\ SetStatus(r, "running", "startTest", "catch")
  /\ UNCHANGED <<device, childVars, cancelVars, hub>>

StartTest(r) ==
  /\ pc[r] = "startTest"
  /\ SetExecute(r, "running", "spawnTest")
  /\ UNCHANGED <<device, childVars, cancelVars, hub>>

\* Variants: the exit code alone counts; the stage is done before the run is
\* found cancelled.
EndTestByCode(r) ==
  /\ pc[r] = "test" /\ child[r] \in Exited
  /\ IF child[r] = "exit 1" THEN SetExecute(r, "error", "setFailed")
     ELSE SetExecute(r, "done", "setPassed")
  /\ child' = [child EXCEPT ![r] = "none"]
  /\ UNCHANGED <<device, killed, cancelVars, hub>>
EndTestDone(r) ==
  /\ pc[r] = "test" /\ child[r] \in Exited
  /\ IF child[r] = "exit 1" /\ r \notin cancelled THEN SetExecute(r, "error", "setFailed")
     ELSE SetExecute(r, "done", IF r \in cancelled THEN "setCancelled" ELSE "setPassed")
  /\ child' = [child EXCEPT ![r] = "none"]
  /\ UNCHANGED <<device, killed, cancelVars, hub>>

EndTest(r) ==
  /\ pc[r] = "test" /\ child[r] \in Exited
  /\ IF r \in cancelled THEN SetExecute(r, "error", "setCancelled")
     ELSE IF child[r] = "exit 1" THEN SetExecute(r, "error", "setFailed")
     ELSE SetExecute(r, "done", "setPassed")
  /\ child' = [child EXCEPT ![r] = "none"]
  /\ UNCHANGED <<device, killed, cancelVars, hub>>

SetResult(r) ==
  /\ \E status \in TerminalStatus :
       /\ pc[r] = (CASE status = "passed" -> "setPassed"
                     [] status = "failed" -> "setFailed"
                     [] status = "cancelled" -> "setCancelled")
       /\ SetStatus(r, status, "finally", "catch")
  /\ UNCHANGED <<device, childVars, cancelVars, hub>>

\* Variant: the catch block returns.
CatchReturns(r) ==
  /\ pc[r] = "catch"
  /\ SetStatus(r, "failed", "done", "done")
  /\ UNCHANGED <<device, childVars, cancelVars, hub>>

\* The catch block: its own save may throw as well.
Catch(r) ==
  /\ pc[r] = "catch"
  /\ SetStatus(r, "failed", "finally", "finally")
  /\ UNCHANGED <<device, childVars, cancelVars, hub>>

\* The finally block: endedAt is saved before anything is given back.
Finally(r) ==
  /\ pc[r] = "finally"
  /\ Save(r, [doc[r] EXCEPT !.ended = TRUE], "release", "done")
  /\ UNCHANGED <<device, childVars, cancelVars, hub>>

ReleaseIfAny(u, user) ==
  \/ ReleaseLock(u, user, TRUE)
  \/ ReleaseRefused(u, user, TRUE) /\ UNCHANGED device

\* The maps forget the run, and the lock is released in the admin's way.
Release(r) ==
  /\ pc[r] = "release"
  /\ \/ ReleaseIfAny(UdidOfRun(r), doc[r].triggeredBy) /\ UNCHANGED budgetVars
     \/ UNCHANGED device /\ Fault
  /\ cancelled' = cancelled \ {r}
  /\ Goto(r, "done")
  /\ UNCHANGED <<run, doc, childVars, cancelling, hub>>

\* A spawned process ends, also when the hub that started it is gone.
ChildExits(r) ==
  /\ child[r] \in Live
  /\ \E code \in Exited : child' = [child EXCEPT ![r] =
       IF pc[r] \in Live THEN code ELSE "none"]
  /\ killed' = killed \ {r}
  /\ UNCHANGED <<device, runVars, cancelVars, hub, budgetVars>>

-----------------------------------------------------------------------------
(* cancelExecutionRun: the run is read, then the flag is set *)

CancelReads(r) ==
  /\ Up /\ run[r].status \in InFlightStatus
  /\ cancelling' = cancelling \cup {r}
  /\ UNCHANGED <<device, runVars, childVars, cancelled, hub, budgetVars>>

\* Variant: the cancel writes the run's status itself.
CancelWrites(r) ==
  /\ r \in cancelling
  /\ cancelling' = cancelling \ {r}
  /\ run' = [run EXCEPT ![r].status = "cancelled"]
  /\ UNCHANGED <<device, doc, pc, childVars, cancelled, hub, budgetVars>>

CancelActs(r) ==
  /\ r \in cancelling
  /\ cancelling' = cancelling \ {r}
  /\ cancelled' = cancelled \cup {r}
  /\ killed' = IF child[r] \in Live THEN killed \cup {r} ELSE killed
  /\ UNCHANGED <<device, runVars, child, hub, budgetVars>>

-----------------------------------------------------------------------------
(* Crashes, and recoverOrphanedRuns before the hub accepts requests again *)

\* Everything in memory is lost. Spawned processes and the database live on.
Crash ==
  /\ crashes < MaxCrashes /\ hub.pc # "down"
  /\ crashes' = crashes + 1
  /\ hub' = HubIs("down")
  /\ pc' = [r \in Runs |-> IF pc[r] \in InFlightPc THEN "lost" ELSE pc[r]]
  /\ doc' = [r \in Runs |-> NoRun]
  /\ child' = [r \in Runs |-> IF child[r] \in Exited THEN "none" ELSE child[r]]
  /\ cancelling' = {} /\ cancelled' = {}
  /\ UNCHANGED <<device, run, killed, faults>>

\* Variants: runs without an end are orphans, whatever their status; only the
\* running ones are.
FindUnended ==
  /\ hub.pc = "down"
  /\ hub' = LET orphans == {r \in Runs : run[r].status # "none" /\ ~run[r].ended}
            IN  IF orphans = {} THEN HubIs("up") ELSE [pc |-> "save", orphans |-> orphans]
  /\ UNCHANGED <<device, runVars, childVars, cancelVars, budgetVars>>
FindRunning ==
  /\ hub.pc = "down"
  /\ hub' = LET orphans == {r \in Runs : run[r].status = "running"}
            IN  IF orphans = {} THEN HubIs("up") ELSE [pc |-> "save", orphans |-> orphans]
  /\ UNCHANGED <<device, runVars, childVars, cancelVars, budgetVars>>

FindOrphans ==
  /\ hub.pc = "down"
  /\ hub' = LET orphans == {r \in Runs : run[r].status \in InFlightStatus}
            IN  IF orphans = {} THEN HubIs("up") ELSE [pc |-> "save", orphans |-> orphans]
  /\ UNCHANGED <<device, runVars, childVars, cancelVars, budgetVars>>

\* The orphan o, in the order the query returned them: its running stage is an
\* error and the run failed.
Stopped(stage) == IF stage = "running" THEN "error" ELSE stage

SaveOrphan(r) ==
  /\ hub.pc = "save" /\ r \in hub.orphans
  /\ run' = [run EXCEPT ![r].status = "failed", ![r].ended = TRUE,
                        ![r].installing = Stopped(@), ![r].execute = Stopped(@)]
  /\ hub' = [hub EXCEPT !.pc = "release"]
  /\ UNCHANGED <<device, doc, pc, childVars, cancelVars, budgetVars>>

\* The orphan just saved gives back the lock of its device.
ReleaseOrphan(r) ==
  /\ hub.pc = "release" /\ r \in hub.orphans /\ run[r].status = "failed"
  /\ ReleaseIfAny(UdidOf(run[r].target), run[r].triggeredBy)
  /\ hub' = LET left == hub.orphans \ {r}
            IN  IF left = {} THEN HubIs("up") ELSE [pc |-> "save", orphans |-> left]
  /\ UNCHANGED <<runVars, childVars, cancelVars, budgetVars>>

-----------------------------------------------------------------------------
(* The rest of the hub, as the runs meet it *)

\* Syncs and sweeps: a device appears, drops off its host, or is back.
LabStep ==
  /\ Up
  /\ \E d \in Devices :
       \/ ~device[d].known /\ UpsertReported({d})
       \/ d \in Unpluggable /\ (BackToIdle({d}) \/ TakeOffline({d}))
  /\ UNCHANGED <<runVars, childVars, cancelVars, hub, budgetVars>>

LockRoute ==
  /\ Up
  /\ \E u \in Udids, user \in LockUsers :
       \/ \E s \in Sessions \ Runs : AcquireLock(u, user, s)
       \/ RenewLock(u, user, user \in Admins)
       \/ ReleaseLock(u, user, user \in Admins)
  /\ UNCHANGED <<runVars, childVars, cancelVars, hub, budgetVars>>

ExpirySweep ==
  /\ Up
  /\ ReleaseExpiredLocks
  /\ UNCHANGED <<runVars, childVars, cancelVars, hub, budgetVars>>

Tick == AgeLocks /\ UNCHANGED <<runVars, childVars, cancelVars, hub, budgetVars>>

Orchestrate(r) ==
  \/ Acquire(r) \/ Refuse(r) \/ WorkspaceFails(r) \/ Prepare(r)
  \/ StartSetup(r) \/ EndSetup(r) \/ StopBeforeTest(r) \/ StartRunning(r)
  \/ StartTest(r) \/ Spawn(r) \/ EndTest(r) \/ SetResult(r)
  \/ Catch(r) \/ Finally(r) \/ Release(r)

Recover == FindOrphans \/ \E r \in Runs : SaveOrphan(r) \/ ReleaseOrphan(r)

ExecutionNext ==
  \/ \E r \in Runs : \/ Trigger(r) \/ Orchestrate(r) \/ ChildExits(r)
                     \/ CancelReads(r) \/ CancelActs(r)
  \/ Crash \/ Recover
  \/ LabStep \/ LockRoute \/ ExpirySweep \/ Tick

ExecutionSpec == ExecutionInit /\ [][ExecutionNext]_executionVars

\* The orchestration goes on, a crashed hub is started again, and a spawned
\* command ends: the hub itself sets a command no time limit.
HubFairness ==
  /\ \A r \in Runs : /\ WF_executionVars(Orchestrate(r))
                     /\ WF_executionVars(CancelActs(r))
  /\ WF_executionVars(Recover)
ChildrenExit == \A r \in Runs : WF_executionVars(ChildExits(r))
-----------------------------------------------------------------------------
(* Properties *)

Ended(r) == run[r].status \in TerminalStatus
HasRun(r) == run[r].status # "none"

\* A run that is over, and whose orchestration is over too, does not hold its
\* device: "the device lock is released in every terminal path". (No run checks it:
\* a crash before the release breaks it, see section 6 of the README.)
EveryEndReleases ==
  Up => \A d \in Devices, r \in Runs :
          Ended(r) /\ pc[r] \in {"done", "lost"} => ~HeldBySession(d, r)

\* No process of a run is left on the device when the run reads as over, unless
\* the hub crashed under it: recovery ends the run and leaves its process alone.
NothingRunsAfterTheEnd ==
  \A r \in Runs : Ended(r) /\ child[r] \in Live => pc[r] = "lost"

\* A result is final: neither a late cancel, nor the recovery after a restart,
\* nor the orchestration itself changes it.
ResultIsFinal == [][\A r \in Runs : Ended(r) => run'[r].status = run[r].status]_executionVars

\* After a restart, and always while the hub serves requests, a run that reads
\* as queued, preparing or running has an orchestration that will finish it.
NoZombieRun ==
  Up => \A r \in Runs : run[r].status \in InFlightStatus => pc[r] \in InFlightPc

\* Every run comes to an end, also across crashes of the hub.
EveryRunEnds == \A r \in Runs : HasRun(r) ~> Ended(r)

\* A cancel that reached a live command ends the run as cancelled, whatever the
\* exit code of the command, unless the hub crashes first.
KilledRunIsCancelled ==
  \A r \in Runs, c \in 0 .. MaxCrashes :
    r \in killed /\ pc[r] \in InFlightPc /\ crashes = c
      ~> run[r].status = "cancelled" \/ crashes > c

\* The runs change the documents only in the ways DeviceLocks allows.
ImplementsLocks == LocksSpec
=============================================================================
