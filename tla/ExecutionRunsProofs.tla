------------------------- MODULE ExecutionRunsProofs -------------------------
(***************************************************************************)
(* Proofs about the runs, for any number of runs, devices and users.       *)
(***************************************************************************)
EXTENDS RunHistory, DeviceLocksProofs

\* What the orchestration keeps beside the device documents is of its type.
ExecutionTyping ==
  /\ run \in [Runs -> RunDoc] /\ doc \in [Runs -> RunDoc]
  /\ pc \in [Runs -> Pc]
  /\ child \in [Runs -> {"none"} \cup Live \cup Exited]
  /\ killed \in SUBSET Runs
  /\ cancelling \in SUBSET Runs /\ cancelled \in SUBSET Runs
  /\ hub \in [pc : {"up", "down", "save", "release"}, orphans : SUBSET Runs]
  /\ faults \in 0 .. MaxFaults /\ crashes \in 0 .. MaxCrashes

LEMMA NoRunType == NoRun \in RunDoc
  <1>1. (CHOOSE d \in Devices : TRUE) \in Devices /\ (CHOOSE u \in Users : TRUE) \in Users
    BY ExecutionAssumption
  <1> QED BY <1>1 DEF NoRun, RunDoc, InFlightStatus, TerminalStatus

LEMMA InitTyping == ExecutionInit => ExecutionTyping
  <1> SUFFICES ASSUME ExecutionInit PROVE ExecutionTyping
    OBVIOUS
  <1>1. run \in [Runs -> RunDoc] /\ doc \in [Runs -> RunDoc]
    BY NoRunType DEF ExecutionInit
  <1>2. pc \in [Runs -> Pc] /\ child \in [Runs -> {"none"} \cup Live \cup Exited]
    BY DEF ExecutionInit, Pc
  <1>3. hub \in [pc : {"up", "down", "save", "release"}, orphans : SUBSET Runs]
    BY DEF ExecutionInit, HubIs
  <1>4. faults \in 0 .. MaxFaults /\ crashes \in 0 .. MaxCrashes
    BY ExecutionAssumption DEF ExecutionInit
  <1> QED BY <1>1, <1>2, <1>3, <1>4 DEF ExecutionInit, ExecutionTyping

LEMMA GotoType ==
  ASSUME ExecutionTyping, NEW r \in Runs, NEW next \in Pc, Goto(r, next)
  PROVE  pc' \in [Runs -> Pc]
  BY DEF ExecutionTyping, Goto

LEMMA BudgetType ==
  ASSUME ExecutionTyping, Fault \/ UNCHANGED budgetVars
  PROVE  faults' \in 0 .. MaxFaults /\ crashes' \in 0 .. MaxCrashes
  BY ExecutionAssumption DEF Fault, budgetVars, ExecutionTyping

\* What a save may change, and that it keeps the types.
LEMMA SaveTyping ==
  ASSUME ExecutionTyping, NEW r \in Runs, NEW d \in RunDoc,
         NEW next \in Pc, NEW onError \in Pc, Save(r, d, next, onError)
  PROVE  /\ run' \in [Runs -> RunDoc] /\ doc' \in [Runs -> RunDoc]
         /\ pc' \in [Runs -> Pc]
         /\ faults' \in 0 .. MaxFaults /\ crashes' \in 0 .. MaxCrashes
  <1>1. run' \in [Runs -> RunDoc] /\ doc' \in [Runs -> RunDoc]
    BY DEF Save, ExecutionTyping
  <1>2. pc' \in [Runs -> Pc]
    BY GotoType DEF Save
  <1>3. faults' \in 0 .. MaxFaults /\ crashes' \in 0 .. MaxCrashes
    BY BudgetType DEF Save
  <1> QED BY <1>1, <1>2, <1>3

\* The documents the orchestration saves.
LEMMA SavedDocs ==
  ASSUME ExecutionTyping, NEW r \in Runs
  PROVE  /\ \A s \in InFlightStatus \cup TerminalStatus :
              [doc[r] EXCEPT !.status = s] \in RunDoc
         /\ \A s \in {"running", "done", "error"} :
              /\ [doc[r] EXCEPT !.installing = s] \in RunDoc
              /\ [doc[r] EXCEPT !.execute = s] \in RunDoc
         /\ [doc[r] EXCEPT !.ended = TRUE] \in RunDoc
         /\ [doc[r] EXCEPT !.status = "failed", !.ended = TRUE] \in RunDoc
  <1>1. doc[r] \in RunDoc
    BY DEF ExecutionTyping
  <1>2. \A s \in InFlightStatus \cup TerminalStatus : [doc[r] EXCEPT !.status = s] \in RunDoc
    BY <1>1 DEF RunDoc
  <1>3. \A s \in {"running", "done", "error"} : [doc[r] EXCEPT !.installing = s] \in RunDoc
    BY <1>1 DEF RunDoc
  <1>4. \A s \in {"running", "done", "error"} : [doc[r] EXCEPT !.execute = s] \in RunDoc
    BY <1>1 DEF RunDoc
  <1>5. [doc[r] EXCEPT !.ended = TRUE] \in RunDoc
    BY <1>1 DEF RunDoc
  <1>6. [doc[r] EXCEPT !.status = "failed", !.ended = TRUE] \in RunDoc
    BY <1>1 DEF RunDoc, TerminalStatus
  <1> QED BY <1>2, <1>3, <1>4, <1>5, <1>6

LEMMA OrchestrateTyping ==
  ASSUME ExecutionTyping, NEW r \in Runs, Orchestrate(r)
  PROVE  ExecutionTyping'
  <1> USE SavedDocs
  <1>1. CASE Acquire(r)
    <2>1. pc' \in [Runs -> Pc]
      BY <1>1, GotoType DEF Acquire, Pc, InFlightPc
    <2>2. faults' \in 0 .. MaxFaults /\ crashes' \in 0 .. MaxCrashes
      <3>1. Fault \/ UNCHANGED budgetVars
        BY <1>1 DEF Acquire
      <3> QED BY <3>1, BudgetType
    <2>3. UNCHANGED <<run, doc, child, killed, cancelling, cancelled, hub>>
      BY <1>1 DEF Acquire, childVars, cancelVars
    <2> QED BY <2>1, <2>2, <2>3 DEF ExecutionTyping
  <1>2. CASE Refuse(r)
    BY <1>2, SaveTyping DEF Refuse, ExecutionTyping, childVars, cancelVars, Pc, InFlightPc
  <1>3. CASE WorkspaceFails(r)
    BY <1>3, GotoType DEF WorkspaceFails, ExecutionTyping, childVars, cancelVars, budgetVars, Pc
  <1>4. CASE Prepare(r)
    BY <1>4, SaveTyping DEF Prepare, SetStatus, ExecutionTyping, childVars, cancelVars,
       Pc, InFlightPc, InFlightStatus
  <1>5. CASE StartSetup(r)
    BY <1>5, SaveTyping DEF StartSetup, SetInstalling, ExecutionTyping, childVars,
       cancelVars, Pc, InFlightPc
  <1>6. CASE EndSetup(r)
    <2>1. child' \in [Runs -> {"none"} \cup Live \cup Exited]
      BY <1>6 DEF EndSetup, ExecutionTyping
    <2> QED BY <1>6, <2>1, SaveTyping DEF EndSetup, SetInstalling, ExecutionTyping,
               cancelVars, Pc, InFlightPc
  <1>7. CASE StopBeforeTest(r)
    BY <1>7, SaveTyping DEF StopBeforeTest, SetExecute, ExecutionTyping, childVars,
       cancelVars, Pc, InFlightPc
  <1>8. CASE StartRunning(r)
    BY <1>8, SaveTyping DEF StartRunning, SetStatus, ExecutionTyping, childVars,
       cancelVars, Pc, InFlightPc, InFlightStatus
  <1>9. CASE StartTest(r)
    BY <1>9, SaveTyping DEF StartTest, SetExecute, ExecutionTyping, childVars,
       cancelVars, Pc, InFlightPc
  <1>10. CASE Spawn(r)
    <2>1. child' \in [Runs -> {"none"} \cup Live \cup Exited]
      BY <1>10 DEF Spawn, ExecutionTyping
    <2>2. pc' \in [Runs -> Pc]
      BY <1>10, GotoType DEF Spawn, Live, Pc, InFlightPc
    <2>3. UNCHANGED <<run, doc, killed, cancelling, cancelled, hub, faults, crashes>>
      BY <1>10 DEF Spawn, cancelVars, budgetVars
    <2> QED BY <2>1, <2>2, <2>3 DEF ExecutionTyping
  <1>11. CASE EndTest(r)
    <2>1. child' \in [Runs -> {"none"} \cup Live \cup Exited]
      BY <1>11 DEF EndTest, ExecutionTyping
    <2> QED BY <1>11, <2>1, SaveTyping DEF EndTest, SetExecute, ExecutionTyping,
               cancelVars, Pc, InFlightPc
  <1>12. CASE SetResult(r)
    <2>1. PICK status \in TerminalStatus : SetStatus(r, status, "finally", "catch")
      BY <1>12 DEF SetResult
    <2> QED BY <1>12, <2>1, SaveTyping DEF SetResult, SetStatus, ExecutionTyping,
               childVars, cancelVars, Pc, InFlightPc
  <1>13. CASE Catch(r)
    BY <1>13, SaveTyping DEF Catch, SetStatus, ExecutionTyping, childVars, cancelVars,
       Pc, InFlightPc, TerminalStatus
  <1>14. CASE Finally(r)
    BY <1>14, SaveTyping DEF Finally, ExecutionTyping, childVars, cancelVars, Pc, InFlightPc
  <1>15. CASE Release(r)
    <2>1. pc' \in [Runs -> Pc]
      BY <1>15, GotoType DEF Release, Pc
    <2>2. faults' \in 0 .. MaxFaults /\ crashes' \in 0 .. MaxCrashes
      <3>1. Fault \/ UNCHANGED budgetVars
        BY <1>15 DEF Release
      <3> QED BY <3>1, BudgetType
    <2> QED BY <1>15, <2>1, <2>2 DEF Release, ExecutionTyping, childVars
  <1> QED BY <1>1, <1>2, <1>3, <1>4, <1>5, <1>6, <1>7, <1>8, <1>9, <1>10, <1>11, <1>12,
             <1>13, <1>14, <1>15 DEF Orchestrate

LEMMA CrashTyping ==
  ASSUME ExecutionTyping, Crash
  PROVE  ExecutionTyping'
  <1>1. pc' \in [Runs -> Pc]
    BY DEF Crash, ExecutionTyping, Pc
  <1>2. doc' \in [Runs -> RunDoc]
    BY NoRunType DEF Crash
  <1>3. child' \in [Runs -> {"none"} \cup Live \cup Exited]
    BY DEF Crash, ExecutionTyping
  <1>4. hub' \in [pc : {"up", "down", "save", "release"}, orphans : SUBSET Runs]
    BY DEF Crash, HubIs
  <1>5. faults' \in 0 .. MaxFaults /\ crashes' \in 0 .. MaxCrashes
    BY ExecutionAssumption DEF Crash, ExecutionTyping
  <1> QED BY <1>1, <1>2, <1>3, <1>4, <1>5 DEF Crash, ExecutionTyping

LEMMA RecoverTyping ==
  ASSUME ExecutionTyping, Recover
  PROVE  ExecutionTyping'
  <1>1. CASE FindOrphans
    <2>1. hub' \in [pc : {"up", "down", "save", "release"}, orphans : SUBSET Runs]
      <3> DEFINE orphans == {r \in Runs : run[r].status \in InFlightStatus}
      <3>1. orphans \in SUBSET Runs
        OBVIOUS
      <3>2. hub' = HubIs("up") \/ hub' = [pc |-> "save", orphans |-> orphans]
        BY <1>1 DEF FindOrphans
      <3> HIDE DEF orphans
      <3> QED BY <3>1, <3>2 DEF HubIs
    <2> QED BY <1>1, <2>1 DEF FindOrphans, ExecutionTyping, runVars, childVars, cancelVars,
               budgetVars
  <1>2. ASSUME NEW r \in Runs, SaveOrphan(r)
        PROVE  ExecutionTyping'
    <2>1. Stopped(run[r].installing) \in {"skipped", "pending", "running", "done", "error"}
          /\ Stopped(run[r].execute) \in {"pending", "running", "done", "error"}
      BY DEF Stopped, ExecutionTyping, RunDoc
    <2>2. run' \in [Runs -> RunDoc]
      <3> DEFINE saved == [run[r] EXCEPT !.status = "failed", !.ended = TRUE,
                                         !.installing = Stopped(@), !.execute = Stopped(@)]
      <3>1. run[r] \in RunDoc
        BY DEF ExecutionTyping
      <3>2. saved \in RunDoc
        BY <2>1, <3>1 DEF RunDoc, TerminalStatus
      <3>3. run' = [run EXCEPT ![r] = saved]
        BY <1>2, <3>1 DEF SaveOrphan, ExecutionTyping
      <3> HIDE DEF saved
      <3> QED BY <3>2, <3>3 DEF ExecutionTyping
    <2>3. hub' \in [pc : {"up", "down", "save", "release"}, orphans : SUBSET Runs]
      BY <1>2 DEF SaveOrphan, ExecutionTyping
    <2> QED BY <1>2, <2>2, <2>3 DEF SaveOrphan, ExecutionTyping, childVars, cancelVars,
               budgetVars
  <1>3. ASSUME NEW r \in Runs, ReleaseOrphan(r)
        PROVE  ExecutionTyping'
    <2>1. hub' \in [pc : {"up", "down", "save", "release"}, orphans : SUBSET Runs]
      <3>1. hub.orphans \ {r} \in SUBSET Runs
        BY DEF ExecutionTyping
      <3>2. hub' = HubIs("up") \/ hub' = [pc |-> "save", orphans |-> hub.orphans \ {r}]
        BY <1>3 DEF ReleaseOrphan
      <3> QED BY <3>1, <3>2 DEF HubIs
    <2>2. UNCHANGED <<run, doc, pc, child, killed, cancelling, cancelled, faults, crashes>>
      BY <1>3 DEF ReleaseOrphan, runVars, childVars, cancelVars, budgetVars
    <2> QED BY <2>1, <2>2 DEF ExecutionTyping
  <1> QED BY <1>1, <1>2, <1>3 DEF Recover

\* What a trigger records.
NewRun == {d \in RunDoc : d.status = "queued" /\ d.triggeredBy \in Operators}

LEMMA TriggerRecords ==
  ASSUME NEW r \in Runs, Trigger(r)
  PROVE  \E new \in NewRun : run' = [run EXCEPT ![r] = new] /\ doc' = [doc EXCEPT ![r] = new]
  <1> DEFINE New(d, by, setup) == [NoRun EXCEPT !.status = "queued", !.installing = setup,
                                                !.target = d, !.triggeredBy = by]
  <1>1. PICK d \in Devices, by \in Operators, setup \in {"pending", "skipped"} :
          /\ run' = [run EXCEPT ![r] = New(d, by, setup)]
          /\ doc' = [doc EXCEPT ![r] = New(d, by, setup)]
    BY DEF Trigger
  <1>2. by \in Users
    BY ExecutionAssumption
  <1>3. New(d, by, setup) \in NewRun
    BY <1>2, NoRunType DEF RunDoc, InFlightStatus, NewRun
  <1> HIDE DEF New
  <1> QED BY <1>1, <1>3

LEMMA NextTyping ==
  ASSUME ExecutionTyping, [ExecutionNext]_executionVars
  PROVE  ExecutionTyping'
  <1>1. ASSUME NEW r \in Runs, Trigger(r)
        PROVE  ExecutionTyping'
    <2>1. PICK new \in NewRun :
            run' = [run EXCEPT ![r] = new] /\ doc' = [doc EXCEPT ![r] = new]
      BY <1>1, TriggerRecords
    <2>2. run' \in [Runs -> RunDoc] /\ doc' \in [Runs -> RunDoc]
      BY <2>1 DEF ExecutionTyping, NewRun
    <2>3. pc' \in [Runs -> Pc]
      BY <1>1, GotoType DEF Trigger, Pc, InFlightPc
    <2> QED BY <1>1, <2>2, <2>3 DEF Trigger, ExecutionTyping, childVars, cancelVars, budgetVars
  <1>2. ASSUME NEW r \in Runs, Orchestrate(r)
        PROVE  ExecutionTyping'
    BY <1>2, OrchestrateTyping
  <1>3. ASSUME NEW r \in Runs, ChildExits(r)
        PROVE  ExecutionTyping'
    <2>1. child' \in [Runs -> {"none"} \cup Live \cup Exited]
      BY <1>3 DEF ChildExits, ExecutionTyping
    <2> QED BY <1>3, <2>1 DEF ChildExits, ExecutionTyping, runVars, cancelVars, budgetVars
  <1>4. ASSUME NEW r \in Runs, CancelReads(r) \/ CancelActs(r)
        PROVE  ExecutionTyping'
    BY <1>4 DEF CancelReads, CancelActs, ExecutionTyping, runVars, childVars, budgetVars
  <1>5. CASE Crash
    BY <1>5, CrashTyping
  <1>6. CASE Recover
    BY <1>6, RecoverTyping
  <1>7. CASE LabStep \/ LockRoute \/ ExpirySweep \/ Tick
    BY <1>7 DEF LabStep, LockRoute, ExpirySweep, Tick, ExecutionTyping, runVars, childVars,
       cancelVars, budgetVars
  <1>8. CASE UNCHANGED executionVars
    BY <1>8 DEF executionVars, ExecutionTyping
  <1> QED BY <1>1, <1>2, <1>3, <1>4, <1>5, <1>6, <1>7, <1>8 DEF ExecutionNext

\* The state of the runs is of the right type, crashes and faults included.
LEMMA ExecutionTypingHolds == ExecutionSpec => []ExecutionTyping
  BY InitTyping, NextTyping, PTL DEF ExecutionSpec
-----------------------------------------------------------------------------
(* Every step of the runs is a step of the documents. *)

LEMMA ReleaseRefines ==
  ASSUME NEW d \in Devices, NEW user \in Users, ReleaseIfAny(UdidOf(d), user)
  PROVE  [LocksNext]_device
  <1>1. UdidOf(d) \in Udids
    BY DevicesAssumption DEF UdidOf
  <1> QED BY <1>1 DEF ReleaseIfAny, LocksNext, UserRoute

LEMMA OrchestrateRefines ==
  ASSUME ExecutionTyping, NEW r \in Runs, Orchestrate(r)
  PROVE  [LocksNext]_device
  <1>1. doc[r].target \in Devices /\ doc[r].triggeredBy \in Users /\ r \in Sessions
    BY ExecutionAssumption DEF ExecutionTyping, RunDoc
  <1>2. UdidOfRun(r) \in Udids
    BY <1>1, DevicesAssumption DEF UdidOfRun, UdidOf
  <1>3. CASE Acquire(r)
    BY <1>1, <1>2, <1>3 DEF Acquire, LocksNext, UserRoute
  <1>4. CASE Release(r)
    BY <1>1, <1>4, ReleaseRefines DEF Release, UdidOfRun
  <1>5. CASE ~Acquire(r) /\ ~Release(r)
    BY <1>5 DEF Orchestrate, Refuse, WorkspaceFails, Prepare, StartSetup, EndSetup,
       StopBeforeTest, StartRunning, StartTest, Spawn, EndTest, SetResult, Catch, Finally
  <1> QED BY <1>3, <1>4, <1>5

LEMMA StepRefinesLocks ==
  ASSUME ExecutionTyping, [ExecutionNext]_executionVars
  PROVE  [LocksNext]_device
  <1>1. ASSUME NEW r \in Runs, Orchestrate(r)
        PROVE  [LocksNext]_device
    BY <1>1, OrchestrateRefines
  <1>2. ASSUME NEW r \in Runs,
               Trigger(r) \/ ChildExits(r) \/ CancelReads(r) \/ CancelActs(r)
        PROVE  UNCHANGED device
    BY <1>2 DEF Trigger, ChildExits, CancelReads, CancelActs
  <1>3. CASE Crash \/ FindOrphans \/ UNCHANGED executionVars
    BY <1>3 DEF Crash, FindOrphans, executionVars
  <1>4. ASSUME NEW r \in Runs, SaveOrphan(r)
        PROVE  UNCHANGED device
    BY <1>4 DEF SaveOrphan
  <1>5. ASSUME NEW r \in Runs, ReleaseOrphan(r)
        PROVE  [LocksNext]_device
    <2>1. run[r].target \in Devices /\ run[r].triggeredBy \in Users
      BY DEF ExecutionTyping, RunDoc
    <2> QED BY <1>5, <2>1, ReleaseRefines DEF ReleaseOrphan
  <1>6. CASE LabStep
    <2>1. PICK d \in Devices : UpsertReported({d}) \/ BackToIdle({d}) \/ TakeOffline({d})
      BY <1>6 DEF LabStep
    <2>2. {d} \in SUBSET Devices
      OBVIOUS
    <2> QED BY <2>1, <2>2 DEF LocksNext, Sync
  <1>7. CASE LockRoute
    <2>1. PICK u \in Udids, user \in LockUsers :
            \/ \E s \in Sessions \ Runs : AcquireLock(u, user, s)
            \/ RenewLock(u, user, user \in Admins)
            \/ ReleaseLock(u, user, user \in Admins)
      BY <1>7 DEF LockRoute
    <2> DEFINE admin == user \in Admins
    <2>2. user \in Users /\ admin \in BOOLEAN
      BY ExecutionAssumption
    <2>3. \/ \E s \in Sessions : AcquireLock(u, user, s)
          \/ RenewLock(u, user, admin) \/ ReleaseLock(u, user, admin)
      BY <2>1
    <2> HIDE DEF admin
    <2> QED BY <2>2, <2>3 DEF LocksNext, UserRoute
  <1>8. CASE ExpirySweep \/ Tick
    BY <1>8 DEF ExpirySweep, Tick, LocksNext
  <1> QED BY <1>1, <1>2, <1>3, <1>4, <1>5, <1>6, <1>7, <1>8 DEF ExecutionNext, Recover

\* The runs implement the document-level specification: whatever the
\* orchestration, cancels, faults, crashes and recovery do, each await touches
\* the documents by one of the updates of DeviceLocks or not at all.
THEOREM RunsImplementLocks == ExecutionSpec => ImplementsLocks
  <1>1. ExecutionInit => LocksInit
    BY DEF ExecutionInit
  <1>2. ExecutionTyping /\ [ExecutionNext]_executionVars => [LocksNext]_device
    BY StepRefinesLocks
  <1> QED BY <1>1, <1>2, ExecutionTypingHolds, PTL
          DEF ExecutionSpec, ImplementsLocks, LocksSpec

\* With the typing of the documents: everything is well typed, for any number
\* of runs, crashes and failing calls.
THEOREM ExecutionTypeCorrect == ExecutionSpec => []ExecutionTypeOK
  <1>1. ExecutionTyping /\ LocksInv => ExecutionTypeOK
    BY DEF ExecutionTyping, LocksInv, ExecutionTypeOK
  <1> QED BY <1>1, ExecutionTypingHolds, RunsImplementLocks, LocksInvHolds, PTL
          DEF ImplementsLocks

\* No run, crash or recovery leaves a lock on a device that is not in-use.
THEOREM ExecutionKeepsLocksCoupled == ExecutionSpec => []LockStatusCoupled
  BY RunsImplementLocks, LockStatusAlwaysCoupled, PTL DEF ImplementsLocks

\* The runs keep the promise of the lease: a device passes from a run to another
\* session only by being free, whatever crashes or is cancelled in between.
THEOREM RunsKeepLeases == ExecutionSpec => ImplementsLease
  BY RunsImplementLocks, LocksImplementLease DEF ImplementsLocks

-----------------------------------------------------------------------------
(***************************************************************************)
(* What the runs guarantee, for any number of runs, devices, users, faults *)
(* and crashes. First what each run keeps for itself.                      *)
(***************************************************************************)
\* Where the run is not decided yet, and where it should hold its device.
UndecidedPc == {"acquire", "prepare", "afterPrepare", "spawnSetup", "setup",
                "afterSetup", "startTest", "spawnTest", "test"}
HoldingPc == InFlightPc \ {"acquire", "refuse"}

\* A live process is the one its orchestration waits for, or outlived a crash.
AwaitedChild(r) == child[r] \in Live => pc[r] \in {child[r], "lost"}

\* Until its orchestration decides, the run reads as in flight, stored and in
\* memory; and the two agree on what the run is.
Undecided(r) ==
  /\ pc[r] \in UndecidedPc =>
       run[r].status \in InFlightStatus /\ doc[r].status \in InFlightStatus
  /\ pc[r] \in InFlightPc => doc[r].target = run[r].target

\* A run that is under way, or was, has been recorded.
Recorded(r) ==
  /\ pc[r] # "none" => run[r].status # "none"
  /\ pc[r] \in InFlightPc => doc[r].status # "none"

\* The part of the state that only the orchestration of r and a crash touch.
RunKept(r) == /\ AwaitedChild(r) /\ Undecided(r) /\ Recorded(r)
              /\ pc[r] \in InFlightPc => Up
RunInv == \A r \in Runs : RunKept(r)

\* What a run keeps for itself.
Own(r) == <<run[r], doc[r], pc[r], child[r]>>

LEMMA GotoFrame ==
  ASSUME ExecutionTyping, NEW r \in Runs, NEW next, Goto(r, next)
  PROVE  pc'[r] = next /\ \A q \in Runs \ {r} : pc'[q] = pc[q]
  BY DEF Goto, ExecutionTyping

\* What a save leaves alone, and where the orchestration is after it.
LEMMA SaveFrame ==
  ASSUME ExecutionTyping, NEW r \in Runs, NEW d, NEW next, NEW onError,
         Save(r, d, next, onError)
  PROVE  /\ \A q \in Runs \ {r} : UNCHANGED <<run[q], doc[q], pc[q]>>
         /\ doc'[r] = d
         /\ \/ run'[r] = d /\ pc'[r] = next
            \/ run'[r] \in {run[r], d} /\ pc'[r] = onError
         /\ crashes' = crashes
  <1>1. doc'[r] = d /\ \A q \in Runs \ {r} : doc'[q] = doc[q]
    BY DEF Save, ExecutionTyping
  <1>2. CASE run' = [run EXCEPT ![r] = d] /\ Goto(r, next) /\ UNCHANGED budgetVars
    BY <1>1, <1>2, GotoFrame DEF ExecutionTyping, budgetVars
  <1>3. CASE Fault /\ run' \in {run, [run EXCEPT ![r] = d]} /\ Goto(r, onError)
    BY <1>1, <1>3, GotoFrame DEF ExecutionTyping, Fault
  <1> QED BY <1>2, <1>3 DEF Save

\* One run's orchestration does not touch another's.
LEMMA OrchestrateFrame ==
  ASSUME ExecutionTyping, NEW r \in Runs, Orchestrate(r), NEW q \in Runs \ {r}
  PROVE  UNCHANGED Own(q)
  <1>1. CASE Acquire(r) \/ WorkspaceFails(r) \/ Release(r)
    BY <1>1, GotoFrame DEF Acquire, WorkspaceFails, Release, childVars, Own
  <1>2. CASE Spawn(r)
    BY <1>2, GotoFrame DEF Spawn, Own, ExecutionTyping
  <1>3. CASE Refuse(r) \/ Prepare(r) \/ StartSetup(r) \/ StopBeforeTest(r) \/ StartRunning(r)
             \/ StartTest(r) \/ SetResult(r) \/ Catch(r) \/ Finally(r)
    BY <1>3, SaveFrame DEF Refuse, Prepare, StartSetup, StopBeforeTest, StartRunning,
       StartTest, SetResult, Catch, Finally, SetStatus, SetInstalling, SetExecute,
       childVars, Own
  <1>4. CASE EndSetup(r) \/ EndTest(r)
    <2>1. child'[q] = child[q]
      BY <1>4 DEF EndSetup, EndTest, ExecutionTyping
    <2> QED BY <1>4, <2>1, SaveFrame DEF EndSetup, EndTest, SetInstalling, SetExecute, Own
  <1> QED BY <1>1, <1>2, <1>3, <1>4 DEF Orchestrate

LEMMA OrchestrateMoves ==
  ASSUME ExecutionTyping, NEW r \in Runs, Orchestrate(r)
  PROVE  /\ pc[r] \in InFlightPc
         /\ pc'[r] \in HoldingPc => pc[r] \in HoldingPc \/ Acquire(r)
  <1> USE DEF InFlightPc, HoldingPc
  <1>1. CASE Acquire(r)
    BY <1>1 DEF Acquire
  <1>2. CASE Refuse(r)
    BY <1>2, SaveFrame DEF Refuse
  <1>3. CASE WorkspaceFails(r) \/ Prepare(r) \/ Release(r) \/ StartTest(r) \/ Catch(r) \/ Finally(r)
    BY <1>3 DEF WorkspaceFails, Prepare, Release, StartTest, Catch, Finally
  <1>4. CASE StartSetup(r) \/ EndSetup(r) \/ EndTest(r)
    BY <1>4 DEF StartSetup, EndSetup, EndTest
  <1>5. CASE StopBeforeTest(r) \/ StartRunning(r)
    BY <1>5 DEF StopBeforeTest, StartRunning, PastSetup
  <1>6. CASE Spawn(r)
    BY <1>6 DEF Spawn, Live
  <1>7. CASE SetResult(r)
    BY <1>7 DEF SetResult, TerminalStatus
  <1> QED BY <1>1, <1>2, <1>3, <1>4, <1>5, <1>6, <1>7 DEF Orchestrate

LEMMA OrchestrateSparesHub ==
  ASSUME NEW r \in Runs, Orchestrate(r)
  PROVE  UNCHANGED hub
  BY DEF Orchestrate, Acquire, Refuse, WorkspaceFails, Prepare, StartSetup, EndSetup,
     StopBeforeTest, StartRunning, StartTest, Spawn, EndTest, SetResult, Catch, Finally, Release

\* The changed document is of the same run.
SameRun(d, r) == d.target = doc[r].target

LEMMA SavedSameRun ==
  ASSUME ExecutionTyping, NEW r \in Runs
  PROVE  /\ \A s : /\ SameRun([doc[r] EXCEPT !.status = s], r)
                   /\ SameRun([doc[r] EXCEPT !.installing = s], r)
                   /\ SameRun([doc[r] EXCEPT !.execute = s], r)
         /\ SameRun([doc[r] EXCEPT !.status = "failed", !.ended = TRUE], r)
         /\ SameRun([doc[r] EXCEPT !.ended = TRUE], r)
  <1>1. doc[r] \in RunDoc
    BY DEF ExecutionTyping
  <1> QED BY <1>1 DEF RunDoc, SameRun

\* What the orchestration of r does with its document, and with its place.
LEMMA OrchestrateSameRun ==
  ASSUME ExecutionTyping, NEW r \in Runs, Orchestrate(r)
  PROVE  doc'[r].target = doc[r].target /\ run'[r] \in {run[r], doc'[r]}
  <1>1. CASE Acquire(r) \/ WorkspaceFails(r) \/ Release(r) \/ Spawn(r)
    BY <1>1 DEF Acquire, WorkspaceFails, Release, Spawn
  <1>2. ASSUME NEW d, NEW next, NEW onError, Save(r, d, next, onError), SameRun(d, r)
        PROVE  SameRun(doc'[r], r) /\ run'[r] \in {run[r], doc'[r]}
    BY <1>2, SaveFrame
  <1>3. CASE Refuse(r) \/ Finally(r)
    BY <1>2, <1>3, SavedSameRun DEF Refuse, Finally, SameRun
  <1>4. CASE Prepare(r) \/ StartRunning(r) \/ Catch(r) \/ SetResult(r)
    BY <1>2, <1>4, SavedSameRun DEF Prepare, StartRunning, Catch, SetResult, SetStatus, SameRun
  <1>5. CASE StartSetup(r) \/ EndSetup(r)
    BY <1>2, <1>5, SavedSameRun DEF StartSetup, EndSetup, SetInstalling, SameRun
  <1>6. CASE StopBeforeTest(r) \/ StartTest(r) \/ EndTest(r)
    BY <1>2, <1>6, SavedSameRun DEF StopBeforeTest, StartTest, EndTest, SetExecute, SameRun
  <1> QED BY <1>1, <1>3, <1>4, <1>5, <1>6 DEF Orchestrate

\* A save of a document that is in flight, or that leads to a decision.
LEMMA SaveKeepsUndecided ==
  ASSUME ExecutionTyping, NEW r \in Runs, NEW d, NEW next, NEW onError,
         Undecided(r), pc[r] \in InFlightPc, d.target = doc[r].target,
         d.status \in InFlightStatus \/ next \notin UndecidedPc,
         onError \notin UndecidedPc,
         Save(r, d, next, onError)
  PROVE  Undecided(r)'
  <1>1. doc'[r].target = run'[r].target
    BY SaveFrame DEF Undecided
  <1>2. ASSUME pc'[r] \in UndecidedPc
        PROVE  run'[r].status \in InFlightStatus /\ doc'[r].status \in InFlightStatus
    BY <1>2, SaveFrame
  <1> QED BY <1>1, <1>2 DEF Undecided

LEMMA SavedOwn ==
  ASSUME ExecutionTyping, NEW r \in Runs
  PROVE  /\ \A s : LET d == [doc[r] EXCEPT !.status = s]
                   IN  d.status = s /\ d.target = doc[r].target
         /\ \A s : /\ LET d == [doc[r] EXCEPT !.installing = s]
                      IN  d.status = doc[r].status /\ d.target = doc[r].target
                   /\ LET d == [doc[r] EXCEPT !.execute = s]
                      IN  d.status = doc[r].status /\ d.target = doc[r].target
         /\ [doc[r] EXCEPT !.status = "failed", !.ended = TRUE].target = doc[r].target
         /\ [doc[r] EXCEPT !.ended = TRUE].target = doc[r].target
  <1>1. doc[r] \in RunDoc
    BY DEF ExecutionTyping
  <1> QED BY <1>1 DEF RunDoc

LEMMA OrchestrateKeepsUndecided ==
  ASSUME ExecutionTyping, NEW r \in Runs, Undecided(r), Orchestrate(r)
  PROVE  Undecided(r)'
  <1>0. pc[r] \in InFlightPc
    BY OrchestrateMoves
  <1> USE <1>0 DEF UndecidedPc
  <1>1. CASE Acquire(r)
    BY <1>1, GotoFrame DEF Acquire, Undecided
  <1>2. CASE WorkspaceFails(r) \/ Release(r)
    BY <1>2, GotoFrame DEF WorkspaceFails, Release, Undecided
  <1>3. CASE Spawn(r)
    BY <1>3, GotoFrame DEF Spawn, Undecided, Live
  <1>4. CASE Refuse(r)
    BY <1>4, SaveKeepsUndecided, SavedOwn DEF Refuse
  <1>5. CASE Prepare(r)
    BY <1>5, SaveKeepsUndecided, SavedOwn DEF Prepare, SetStatus, InFlightStatus
  <1>6. CASE StartSetup(r)
    BY <1>6, SaveKeepsUndecided, SavedOwn DEF StartSetup, SetInstalling, Undecided
  <1>7. CASE EndSetup(r)
    BY <1>7, SaveKeepsUndecided, SavedOwn DEF EndSetup, SetInstalling, Undecided
  <1>8. CASE StopBeforeTest(r)
    BY <1>8, SaveKeepsUndecided, SavedOwn DEF StopBeforeTest, SetExecute
  <1>9. CASE StartRunning(r)
    BY <1>9, SaveKeepsUndecided, SavedOwn DEF StartRunning, SetStatus, InFlightStatus
  <1>10. CASE StartTest(r)
    BY <1>10, SaveKeepsUndecided, SavedOwn DEF StartTest, SetExecute, Undecided
  <1>11. CASE EndTest(r)
    BY <1>11, SaveKeepsUndecided, SavedOwn DEF EndTest, SetExecute
  <1>12. CASE SetResult(r)
    BY <1>12, SaveKeepsUndecided, SavedOwn DEF SetResult, SetStatus
  <1>13. CASE Catch(r)
    BY <1>13, SaveKeepsUndecided, SavedOwn DEF Catch, SetStatus
  <1>14. CASE Finally(r)
    BY <1>14, SaveKeepsUndecided, SavedOwn DEF Finally
  <1> QED BY <1>1, <1>2, <1>3, <1>4, <1>5, <1>6, <1>7, <1>8, <1>9, <1>10, <1>11, <1>12,
             <1>13, <1>14 DEF Orchestrate

LEMMA OrchestrateKeepsAwaited ==
  ASSUME ExecutionTyping, NEW r \in Runs, AwaitedChild(r), Orchestrate(r)
  PROVE  AwaitedChild(r)'
  <1>0. pc[r] # "lost"
    BY OrchestrateMoves DEF InFlightPc
  <1>1. CASE Acquire(r) \/ WorkspaceFails(r) \/ Release(r)
    <2>1. child'[r] = child[r] /\ pc[r] \notin Live
      BY <1>1 DEF Acquire, WorkspaceFails, Release, childVars, Live
    <2> QED BY <1>0, <2>1 DEF AwaitedChild
  <1>2. CASE Spawn(r)
    <2>1. PICK command \in Live :
            /\ pc[r] = (CASE command = "setup" -> "spawnSetup" [] command = "test" -> "spawnTest")
            /\ \/ child' = [child EXCEPT ![r] = command] /\ Goto(r, command)
               \/ UNCHANGED child
      BY <1>2 DEF Spawn
    <2>2. pc[r] \notin Live
      BY <2>1 DEF Live
    <2> QED BY <1>0, <2>1, <2>2, GotoFrame DEF AwaitedChild, ExecutionTyping
  <1>3. CASE Refuse(r) \/ Prepare(r) \/ StartSetup(r) \/ StopBeforeTest(r) \/ StartRunning(r)
             \/ StartTest(r) \/ SetResult(r) \/ Catch(r) \/ Finally(r)
    <2>1. child'[r] = child[r] /\ pc[r] \notin Live
      BY <1>3 DEF Refuse, Prepare, StartSetup, StopBeforeTest, StartRunning, StartTest,
         SetResult, Catch, Finally, PastSetup, childVars, Live, TerminalStatus
    <2> QED BY <1>0, <2>1 DEF AwaitedChild
  <1>4. CASE EndSetup(r) \/ EndTest(r)
    <2>1. child'[r] = "none"
      BY <1>4 DEF EndSetup, EndTest, ExecutionTyping
    <2> QED BY <2>1 DEF AwaitedChild, Live
  <1> QED BY <1>1, <1>2, <1>3, <1>4 DEF Orchestrate

LEMMA SaveKeepsRecorded ==
  ASSUME ExecutionTyping, NEW r \in Runs, NEW d, NEW next, NEW onError,
         Recorded(r), pc[r] \in InFlightPc, d.status # "none", Save(r, d, next, onError)
  PROVE  Recorded(r)'
  BY SaveFrame DEF Recorded, InFlightPc

LEMMA OrchestrateKeepsRecorded ==
  ASSUME ExecutionTyping, NEW r \in Runs, Recorded(r), Orchestrate(r)
  PROVE  Recorded(r)'
  <1>1. pc[r] \in InFlightPc
    BY OrchestrateMoves
  <1>2. doc[r].status # "none"
    BY <1>1 DEF Recorded
  <1>3. doc[r] \in RunDoc
    BY DEF ExecutionTyping
  <1>4. /\ [doc[r] EXCEPT !.ended = TRUE].status # "none"
        /\ [doc[r] EXCEPT !.status = "failed", !.ended = TRUE].status # "none"
    BY <1>2, <1>3 DEF RunDoc
  <1>5. CASE Acquire(r) \/ WorkspaceFails(r) \/ Release(r) \/ Spawn(r)
    BY <1>1, <1>5 DEF Acquire, WorkspaceFails, Release, Spawn, Recorded, InFlightPc
  <1>6. CASE Refuse(r)
    BY <1>1, <1>4, <1>6, SaveKeepsRecorded DEF Refuse
  <1>7. CASE Finally(r)
    BY <1>1, <1>4, <1>7, SaveKeepsRecorded DEF Finally
  <1>8. ASSUME NEW s, NEW next, NEW onError, s # "none", SetStatus(r, s, next, onError)
        PROVE  Recorded(r)'
    <2> DEFINE d == [doc[r] EXCEPT !.status = s]
    <2>1. d.status = s
      BY SavedOwn
    <2>2. Save(r, d, next, onError)
      BY <1>8 DEF SetStatus
    <2> HIDE DEF d
    <2> QED BY <1>1, <1>8, <2>1, <2>2, SaveKeepsRecorded
  <1>9. ASSUME NEW s, NEW next, SetInstalling(r, s, next) \/ SetExecute(r, s, next)
        PROVE  Recorded(r)'
    <2>1. PICK d : d.status = doc[r].status /\ Save(r, d, next, "catch")
      BY <1>9, SavedOwn DEF SetInstalling, SetExecute
    <2> QED BY <1>1, <1>2, <2>1, SaveKeepsRecorded
  <1>10. CASE Prepare(r) \/ StartRunning(r) \/ Catch(r) \/ SetResult(r)
    BY <1>8, <1>10 DEF Prepare, StartRunning, Catch, SetResult, TerminalStatus
  <1>11. CASE StartSetup(r) \/ EndSetup(r) \/ StopBeforeTest(r) \/ StartTest(r) \/ EndTest(r)
    BY <1>9, <1>11 DEF StartSetup, EndSetup, StopBeforeTest, StartTest, EndTest
  <1> QED BY <1>5, <1>6, <1>7, <1>10, <1>11 DEF Orchestrate

\* What a step can be for a run.
LEMMA StepOfRun ==
  ASSUME ExecutionTyping, [ExecutionNext]_executionVars, NEW r \in Runs
  PROVE  \/ Orchestrate(r) \/ Trigger(r) \/ Crash \/ SaveOrphan(r)
         \/ /\ ~Crash
            /\ UNCHANGED <<run[r], doc[r], pc[r]>>
            /\ child'[r] = child[r] \/ child'[r] \notin Live
  <1> SUFFICES ASSUME ~Orchestrate(r), ~Trigger(r), ~Crash, ~SaveOrphan(r)
               PROVE  /\ UNCHANGED <<run[r], doc[r], pc[r]>>
                      /\ child'[r] = child[r] \/ child'[r] \notin Live
    OBVIOUS
  <1>1. ASSUME NEW q \in Runs, Orchestrate(q)
        PROVE  UNCHANGED <<run[r], doc[r], pc[r], child[r]>>
    BY <1>1, OrchestrateFrame DEF Own
  <1>2. ASSUME NEW q \in Runs, Trigger(q)
        PROVE  UNCHANGED <<run[r], doc[r], pc[r], child[r]>>
    <2>1. PICK new \in NewRun :
            run' = [run EXCEPT ![q] = new] /\ doc' = [doc EXCEPT ![q] = new]
      BY <1>2, TriggerRecords
    <2>2. q # r
      BY <1>2
    <2>3. pc'[r] = pc[r] /\ child' = child
      BY <1>2, <2>2, GotoFrame DEF Trigger, childVars
    <2> QED BY <2>1, <2>2, <2>3 DEF ExecutionTyping
  <1>3. ASSUME NEW q \in Runs, SaveOrphan(q)
        PROVE  UNCHANGED <<run[r], doc[r], pc[r], child[r]>>
    BY <1>3 DEF SaveOrphan, ExecutionTyping, childVars
  <1>4. ASSUME NEW q \in Runs, ChildExits(q)
        PROVE  /\ UNCHANGED <<run[r], doc[r], pc[r]>>
               /\ child'[r] = child[r] \/ child'[r] \notin Live
    BY <1>4 DEF ChildExits, ExecutionTyping, runVars, Live, Exited
  <1>5. ASSUME NEW q \in Runs, CancelReads(q) \/ CancelActs(q) \/ ReleaseOrphan(q)
        PROVE  UNCHANGED <<run[r], doc[r], pc[r], child[r]>>
    BY <1>5 DEF CancelReads, CancelActs, ReleaseOrphan, runVars, childVars
  <1>6. CASE FindOrphans \/ LabStep \/ LockRoute \/ ExpirySweep \/ Tick \/ UNCHANGED executionVars
    BY <1>6 DEF FindOrphans, LabStep, LockRoute, ExpirySweep, Tick, runVars, childVars,
       executionVars
  <1> QED BY <1>1, <1>2, <1>3, <1>4, <1>5, <1>6 DEF ExecutionNext, Recover

\* The hub is up until it crashes.
LEMMA UpStays ==
  ASSUME Up, ~Crash, [ExecutionNext]_executionVars
  PROVE  Up'
  <1>1. ~Recover
    BY DEF Recover, FindOrphans, SaveOrphan, ReleaseOrphan, Up
  <1>2. UNCHANGED hub
    BY <1>1, OrchestrateSparesHub
       DEF ExecutionNext, Trigger, ChildExits, CancelReads, CancelActs, LabStep, LockRoute,
           ExpirySweep, Tick, executionVars
  <1> QED BY <1>2 DEF Up

LEMMA CrashFacts ==
  ASSUME ExecutionTyping, Crash, NEW r \in Runs
  PROVE  /\ pc'[r] = IF pc[r] \in InFlightPc THEN "lost" ELSE pc[r]
         /\ run'[r] = run[r] /\ hub'.pc = "down" /\ crashes' # crashes
         /\ child'[r] \in Live => child[r] = child'[r]
         /\ UNCHANGED device
  <1>1. crashes' # crashes
    BY DEF Crash, ExecutionTyping
  <1>2. child'[r] \in Live => child[r] = child'[r]
    BY DEF Crash, Live
  <1> QED BY <1>1, <1>2 DEF Crash, HubIs

LEMMA TriggerFacts ==
  ASSUME ExecutionTyping, NEW r \in Runs, Trigger(r)
  PROVE  /\ run[r].status = "none" /\ Up /\ Up'
         /\ run'[r].status = "queued" /\ doc'[r] = run'[r] /\ pc'[r] = "acquire"
         /\ child'[r] = child[r] /\ UNCHANGED device
  <1>1. PICK new \in NewRun :
          run' = [run EXCEPT ![r] = new] /\ doc' = [doc EXCEPT ![r] = new]
    BY TriggerRecords
  <1> QED BY <1>1, GotoFrame DEF Trigger, ExecutionTyping, NewRun, childVars, Up

LEMMA SaveOrphanFacts ==
  ASSUME ExecutionTyping, NEW r \in Runs, SaveOrphan(r)
  PROVE  /\ run'[r].status = "failed" /\ run'[r].target = run[r].target
         /\ run'[r].execute = Stopped(run[r].execute)
         /\ ~Up /\ UNCHANGED <<doc, pc, child, device>>
  BY DEF SaveOrphan, ExecutionTyping, RunDoc, Up, childVars

LEMMA NextKeepsRun ==
  ASSUME ExecutionTyping, [ExecutionNext]_executionVars, NEW r \in Runs, RunKept(r)
  PROVE  RunKept(r)'
  <1>1. CASE Orchestrate(r)
    <2>1. pc[r] \in InFlightPc
      BY <1>1, OrchestrateMoves
    <2>2. Up'
      BY <1>1, <2>1, OrchestrateSparesHub DEF RunKept, Up
    <2> QED BY <1>1, <2>2, OrchestrateKeepsUndecided, OrchestrateKeepsAwaited,
               OrchestrateKeepsRecorded DEF RunKept
  <1>2. CASE Trigger(r)
    <2>1. child[r] \notin Live
      BY <1>2, TriggerFacts
         DEF RunKept, AwaitedChild, Undecided, Recorded, UndecidedPc, Live, InFlightStatus
    <2> QED BY <1>2, <2>1, TriggerFacts
            DEF RunKept, AwaitedChild, Undecided, Recorded, InFlightStatus
  <1>3. CASE Crash
    <2>1. pc'[r] \notin InFlightPc /\ pc'[r] \notin UndecidedPc
      BY <1>3, CrashFacts DEF InFlightPc, UndecidedPc
    <2>2. AwaitedChild(r)'
      BY <1>3, CrashFacts DEF RunKept, AwaitedChild, InFlightPc, Live
    <2>3. pc'[r] # "none" => run'[r].status # "none"
      BY <1>3, CrashFacts DEF RunKept, Recorded, InFlightPc
    <2> QED BY <2>1, <2>2, <2>3 DEF RunKept, Undecided, Recorded
  <1>4. CASE SaveOrphan(r)
    <2>1. pc[r] \notin InFlightPc /\ pc[r] \notin UndecidedPc
      BY <1>4, SaveOrphanFacts DEF RunKept, InFlightPc, UndecidedPc
    <2> QED BY <1>4, <2>1, SaveOrphanFacts DEF RunKept, AwaitedChild, Undecided, Recorded
  <1>5. CASE /\ ~Crash
             /\ UNCHANGED <<run[r], doc[r], pc[r]>>
             /\ child'[r] = child[r] \/ child'[r] \notin Live
    BY <1>5, UpStays DEF RunKept, AwaitedChild, Undecided, Recorded
  <1> QED BY <1>1, <1>2, <1>3, <1>4, <1>5, StepOfRun

LEMMA RunInvHolds == ExecutionSpec => []RunInv
  <1>1. ExecutionInit => RunInv
    BY DEF ExecutionInit, RunInv, RunKept, AwaitedChild, Undecided, Recorded, UndecidedPc,
       InFlightPc, Live
  <1>2. ExecutionTyping /\ RunInv /\ [ExecutionNext]_executionVars => RunInv'
    BY NextKeepsRun DEF RunInv
  <1> QED BY <1>1, <1>2, ExecutionTypingHolds, PTL DEF ExecutionSpec

\* Whatever its database does, however often it crashes: a run that reads as over
\* has left no process behind on the device, except one that a crash cut off.
THEOREM RunsEndAlone == ExecutionSpec => []NothingRunsAfterTheEnd
  <1>1. RunInv => NothingRunsAfterTheEnd
    BY DEF RunInv, RunKept, AwaitedChild, Undecided, NothingRunsAfterTheEnd, Ended,
       UndecidedPc, Live, InFlightStatus, TerminalStatus
  <1> QED BY <1>1, RunInvHolds, PTL

-----------------------------------------------------------------------------
(* Where the sessions of the runs are *)

\* A run's session is on no device of another name than its own, and not before
\* its acquisition.
SessionPlace(r) ==
  \A d \in Devices : HeldBySession(d, r) =>
    /\ pc[r] \notin {"none", "acquire", "refuse"}
    /\ UdidOf(d) = UdidOf(run[r].target)

SessionInv == \A r \in Runs : SessionPlace(r)

\* Nobody but a run puts the run's session on a device.
LEMMA OthersLockForOthers ==
  ASSUME LocksInv, LabStep \/ LockRoute \/ ExpirySweep \/ Tick,
         NEW r \in Runs, NEW d \in Devices, HeldBySession(d, r)'
  PROVE  HeldBySession(d, r)
  <1>1. r \in Sessions /\ r # NoLock
    BY ExecutionAssumption, NoLockAssumption
  <1>2. leaseHolder'[d] = r
    BY DEF leaseHolder, HeldBySession, Locked
  <1>3. ASSUME leaseHolder' = leaseHolder \/ \E F \in SUBSET Devices : Lease!End(F)
        PROVE  leaseHolder[d] = r
    BY <1>1, <1>2, <1>3 DEF Lease!End, leaseHolder
  <1>4. leaseHolder[d] = r
    <2>1. CASE LabStep
      <3>1. PICK e \in Devices : UpsertReported({e}) \/ BackToIdle({e}) \/ TakeOffline({e})
        BY <2>1 DEF LabStep
      <3>2. {e} \in SUBSET Devices
        OBVIOUS
      <3> QED BY <1>3, <3>1, <3>2, UpsertStutters, TakeOfflineEnds
    <2>2. CASE LockRoute
      <3>1. PICK u \in Udids, user \in LockUsers :
              \/ \E s \in Sessions \ Runs : AcquireLock(u, user, s)
              \/ RenewLock(u, user, user \in Admins)
              \/ ReleaseLock(u, user, user \in Admins)
        BY <2>2 DEF LockRoute
      <3>2. user \in Users
        BY ExecutionAssumption
      <3>3. CASE \E s \in Sessions \ Runs : AcquireLock(u, user, s)
        <4>1. PICK s \in Sessions \ Runs : AcquireLock(u, user, s)
          BY <3>3
        <4>2. \E e \in Devices : Lease!Grant(e, s)
          BY <3>2, <4>1, AcquireGrants
        <4> QED BY <1>2, <4>1, <4>2 DEF Lease!Grant, leaseHolder
      <3>4. CASE RenewLock(u, user, user \in Admins)
        BY <1>3, <3>4, RenewStutters
      <3>5. CASE ReleaseLock(u, user, user \in Admins)
        BY <1>3, <3>5, ReleaseEnds
      <3> QED BY <3>1, <3>3, <3>4, <3>5
    <2>3. CASE ExpirySweep
      BY <1>3, <2>3, ExpiryEnds DEF ExpirySweep
    <2>4. CASE Tick
      BY <1>3, <2>4, AgingStutters DEF Tick
    <2> QED BY <2>1, <2>2, <2>3, <2>4
  <1> QED BY <1>1, <1>4 DEF leaseHolder, HeldBySession

LEMMA FaultCounts ==
  ASSUME ExecutionTyping, Fault
  PROVE  faults' # faults
  BY DEF Fault, ExecutionTyping

\* Where the device is held, a step of the orchestration is to another such place,
\* the release, or a call that throws and ends it.
LEMMA OrchestrateLeaves ==
  ASSUME ExecutionTyping, NEW r \in Runs, Orchestrate(r), pc[r] \in HoldingPc
  PROVE  \/ pc'[r] \in HoldingPc
         \/ pc'[r] = "done" /\ (Release(r) \/ WorkspaceFails(r) \/ faults' # faults)
  <1> USE DEF InFlightPc, HoldingPc
  <1>1. ~Acquire(r) /\ ~Refuse(r)
    BY DEF Acquire, Refuse
  <1>2. CASE Release(r) \/ WorkspaceFails(r)
    BY <1>2, GotoFrame DEF Release, WorkspaceFails
  <1>3. ASSUME NEW d, NEW next, NEW onError, Save(r, d, next, onError)
        PROVE  pc'[r] = next \/ (pc'[r] = onError /\ faults' # faults)
    BY <1>3, GotoFrame, FaultCounts DEF Save
  <1>4. CASE Spawn(r)
    BY <1>4, GotoFrame DEF Spawn, Live
  <1>5. ASSUME NEW s, NEW next, NEW onError, SetStatus(r, s, next, onError)
        PROVE  pc'[r] \in {next, onError}
    BY <1>3, <1>5 DEF SetStatus
  <1>6. ASSUME NEW s, NEW next, SetInstalling(r, s, next) \/ SetExecute(r, s, next)
        PROVE  pc'[r] \in {next, "catch"}
    BY <1>3, <1>6 DEF SetInstalling, SetExecute
  <1>7. CASE Prepare(r) \/ StartRunning(r) \/ Catch(r) \/ SetResult(r)
    BY <1>5, <1>7 DEF Prepare, StartRunning, Catch, SetResult
  <1>8. CASE StartSetup(r) \/ StopBeforeTest(r) \/ StartTest(r)
    BY <1>6, <1>8 DEF StartSetup, StopBeforeTest, StartTest
  <1>9. CASE EndSetup(r)
    <2>1. \E s, next : /\ next \in {"setCancelled", "setFailed", "afterSetup"}
                       /\ SetInstalling(r, s, next)
      BY <1>9 DEF EndSetup
    <2> QED BY <1>6, <2>1
  <1>10. CASE EndTest(r)
    <2>1. \E s, next : /\ next \in {"setCancelled", "setFailed", "setPassed"}
                       /\ SetExecute(r, s, next)
      BY <1>10 DEF EndTest
    <2> QED BY <1>6, <2>1
  <1>11. CASE Finally(r)
    BY <1>3, <1>11 DEF Finally
  <1> QED BY <1>1, <1>2, <1>4, <1>7, <1>8, <1>9, <1>10, <1>11 DEF Orchestrate

LEMMA ReleaseAddsNone ==
  ASSUME LocksInv, NEW u, NEW user, ReleaseIfAny(u, user), NEW s, NEW d \in Devices,
         HeldBySession(d, s)'
  PROVE  HeldBySession(d, s)
  <1>1. CASE UNCHANGED device
    BY <1>1 DEF HeldBySession, Locked
  <1>2. ASSUME NEW e \in Matching(u),
               device' = [device EXCEPT ![e].lock = NoLock, ![e].status = "idle"]
        PROVE  device'[d] = device[d] \/ device'[d].lock = NoLock
    BY <1>2 DEF Matching, LocksInv, LocksTypeOK, DeviceDoc
  <1> QED BY <1>1, <1>2 DEF ReleaseIfAny, ReleaseLock, HeldBySession, Locked

\* Only its acquisition puts a run's session on a device, of the name it asks for.
LEMMA AcquireAddsOwn ==
  ASSUME LocksInv, NEW u, NEW user, NEW q \in Sessions, AcquireLock(u, user, q),
         NEW s, NEW d \in Devices, HeldBySession(d, s)', ~HeldBySession(d, s)
  PROVE  s = q /\ UdidOf(d) = u
  <1>1. PICK lock : \E e \in Matching(u) :
          /\ lock.sessionId = q
          /\ device' = [device EXCEPT ![e].lock = lock, ![e].status = "in-use"]
    <2> DEFINE lock == [heldBy |-> user, sessionId |-> q, age |-> 0]
    <2>1. PICK e \in Matching(u) :
            device' = [device EXCEPT ![e].lock = lock, ![e].status = "in-use"]
      BY DEF AcquireLock
    <2>2. lock.sessionId = q
      OBVIOUS
    <2> HIDE DEF lock
    <2> QED BY <2>1, <2>2
  <1>2. PICK e \in Matching(u) : device' = [device EXCEPT ![e].lock = lock, ![e].status = "in-use"]
    BY <1>1
  <1>3. d = e
    BY <1>2 DEF Matching, LocksInv, LocksTypeOK, HeldBySession, Locked
  <1>4. device'[d].lock = lock
    BY <1>2, <1>3 DEF LocksInv, LocksTypeOK, DeviceDoc
  <1> QED BY <1>1, <1>3, <1>4 DEF HeldBySession, Matching

LEMMA SessionsAppear ==
  ASSUME ExecutionTyping, LocksInv, [ExecutionNext]_executionVars, NEW r \in Runs,
         NEW d \in Devices, HeldBySession(d, r)', ~HeldBySession(d, r)
  PROVE  Acquire(r) /\ UdidOf(d) = UdidOfRun(r)
  <1>0. ~UNCHANGED device
    BY DEF HeldBySession, Locked
  <1>1. ASSUME NEW q \in Runs, Acquire(q)
        PROVE  q = r /\ UdidOf(d) = UdidOfRun(r)
    <2>1. AcquireLock(UdidOfRun(q), doc[q].triggeredBy, q) /\ q \in Sessions
      BY <1>0, <1>1, ExecutionAssumption DEF Acquire
    <2>2. q = r /\ UdidOf(d) = UdidOfRun(q)
      BY <2>1, AcquireAddsOwn
    <2> QED BY <2>2
  <1>2. ASSUME NEW q \in Runs, Release(q) \/ ReleaseOrphan(q)
        PROVE  FALSE
    <2>1. PICK u, user : ReleaseIfAny(u, user)
      BY <1>0, <1>2 DEF Release, ReleaseOrphan
    <2> QED BY <2>1, ReleaseAddsNone
  <1>3. ~(LabStep \/ LockRoute \/ ExpirySweep \/ Tick)
    BY OthersLockForOthers
  <1>4. ASSUME NEW q \in Runs, Orchestrate(q), ~Acquire(q), ~Release(q)
        PROVE  UNCHANGED device
    BY <1>4 DEF Orchestrate, Refuse, WorkspaceFails, Prepare, StartSetup, EndSetup,
       StopBeforeTest, StartRunning, StartTest, Spawn, EndTest, SetResult, Catch, Finally
  <1>5. ASSUME NEW q \in Runs, \/ Trigger(q) \/ ChildExits(q) \/ CancelReads(q)
                               \/ CancelActs(q) \/ SaveOrphan(q)
        PROVE  UNCHANGED device
    BY <1>5 DEF Trigger, ChildExits, CancelReads, CancelActs, SaveOrphan
  <1>6. ASSUME Crash \/ FindOrphans \/ UNCHANGED executionVars
        PROVE  UNCHANGED device
    BY <1>6 DEF Crash, FindOrphans, executionVars
  <1> QED BY <1>0, <1>1, <1>2, <1>3, <1>4, <1>5, <1>6 DEF ExecutionNext, Recover

\* The device a run was triggered for stays what it is.
LEMMA TargetStays ==
  ASSUME ExecutionTyping, RunInv, [ExecutionNext]_executionVars, NEW r \in Runs,
         pc[r] # "none"
  PROVE  run'[r].target = run[r].target
  <1>1. CASE Orchestrate(r)
    <2>1. doc[r].target = run[r].target
      BY <1>1, OrchestrateMoves DEF RunInv, RunKept, Undecided
    <2> QED BY <1>1, <2>1, OrchestrateSameRun
  <1>2. CASE Trigger(r)
    BY <1>2, TriggerFacts DEF RunInv, RunKept, Recorded
  <1>3. CASE Crash \/ SaveOrphan(r) \/ UNCHANGED run[r]
    BY <1>3, CrashFacts, SaveOrphanFacts
  <1> QED BY <1>1, <1>2, <1>3, StepOfRun

LEMMA PlacesGoOn ==
  ASSUME ExecutionTyping, RunInv, [ExecutionNext]_executionVars, NEW r \in Runs,
         pc[r] \notin {"none", "acquire", "refuse"}
  PROVE  pc'[r] \notin {"none", "acquire", "refuse"}
  <1>1. CASE Orchestrate(r)
    <2>1. pc[r] \in HoldingPc
      BY <1>1, OrchestrateMoves DEF HoldingPc
    <2> QED BY <1>1, <2>1, OrchestrateLeaves DEF HoldingPc, InFlightPc
  <1>2. CASE Trigger(r)
    BY <1>2, TriggerFacts DEF RunInv, RunKept, Recorded
  <1>3. CASE Crash \/ SaveOrphan(r) \/ UNCHANGED pc[r]
    BY <1>3, CrashFacts, SaveOrphanFacts
  <1> QED BY <1>1, <1>2, <1>3, StepOfRun

LEMMA NextKeepsSession ==
  ASSUME ExecutionTyping, LocksInv, RunInv, SessionInv, [ExecutionNext]_executionVars
  PROVE  SessionInv'
  <1> SUFFICES ASSUME NEW r \in Runs, NEW d \in Devices, HeldBySession(d, r)'
               PROVE  /\ pc'[r] \notin {"none", "acquire", "refuse"}
                      /\ UdidOf(d) = UdidOf(run'[r].target)
    BY DEF SessionInv, SessionPlace
  <1>1. CASE HeldBySession(d, r)
    <2>1. pc[r] \notin {"none", "acquire", "refuse"} /\ UdidOf(d) = UdidOf(run[r].target)
      BY <1>1 DEF SessionInv, SessionPlace
    <2> QED BY <2>1, PlacesGoOn, TargetStays
  <1>2. CASE ~HeldBySession(d, r)
    <2>1. Acquire(r) /\ UdidOf(d) = UdidOfRun(r)
      BY <1>2, SessionsAppear
    <2>2. pc[r] = "acquire" /\ run' = run
      BY <2>1 DEF Acquire
    <2>3. doc[r].target = run[r].target
      BY <2>2 DEF RunInv, RunKept, Undecided, InFlightPc
    <2>4. ~UNCHANGED device
      BY <1>2 DEF HeldBySession, Locked
    <2>5. pc'[r] \in {"prepare", "done"}
      BY <2>1, <2>4, GotoFrame DEF Acquire
    <2> QED BY <2>1, <2>2, <2>3, <2>5 DEF UdidOfRun
  <1> QED BY <1>1, <1>2

LEMMA SessionInvHolds == ExecutionSpec => []SessionInv
  <1>1. ExecutionInit => SessionInv
    BY DEF ExecutionInit, LocksInit, NoDocument, SessionInv, SessionPlace, HeldBySession, Locked
  <1>2. ExecutionTyping /\ LocksInv /\ RunInv /\ SessionInv /\ [ExecutionNext]_executionVars
          => SessionInv'
    BY NextKeepsSession
  <1> QED BY <1>1, <1>2, ExecutionTypingHolds, RunInvHolds, RunsImplementLocks, LocksInvHolds, PTL
          DEF ExecutionSpec, ImplementsLocks

LEMMA RunReleaseSparesOthers ==
  ASSUME LocksInv, NEW u, NEW user, ReleaseIfAny(u, user) \/ UNCHANGED device,
         NEW d \in Devices, UdidOf(d) # u
  PROVE  device'[d] = device[d]
  BY DEF ReleaseIfAny, ReleaseLock, Matching, LocksInv, LocksTypeOK



-----------------------------------------------------------------------------
(* With the history: what a run holds while it drives its device *)

LEMMA HistoryIsExecution == HistorySpec => ExecutionSpec
  <1>1. HistoryInit => ExecutionInit
    BY DEF HistoryInit
  <1>2. [HistoryNext]_historyVars => [ExecutionNext]_executionVars
    BY DEF HistoryNext, historyVars
  <1> QED BY <1>1, <1>2, PTL DEF HistorySpec, ExecutionSpec

\* What is known of the runs without their history.
Basis == ExecutionTyping /\ LocksInv /\ RunInv /\ SessionInv

LEMMA BasisHolds == HistorySpec => []Basis
  BY HistoryIsExecution, ExecutionTypingHolds, RunsImplementLocks, LocksInvHolds, RunInvHolds,
     SessionInvHolds, PTL DEF Basis, ImplementsLocks

\* From the acquisition to the release, the run's session is on its device, unless
\* it has been deprived of it.
HoldsTarget(r) ==
  pc[r] \in HoldingPc /\ Twinless(run[r].target) /\ r \notin deprived
    => HeldBySession(run[r].target, r)

HoldingInv == \A r \in Runs : HoldsTarget(r)

LEMMA HolderHoldsTarget ==
  ASSUME Basis, NEW r \in Runs, HoldsLock(r), Twinless(run[r].target)
  PROVE  HeldBySession(run[r].target, r)
  <1>1. PICK d \in Devices : HeldBySession(d, r)
    BY DEF HoldsLock
  <1>2. UdidOf(d) = UdidOf(run[r].target)
    BY <1>1 DEF Basis, SessionInv, SessionPlace
  <1>3. d = run[r].target
    BY <1>2 DEF Twinless
  <1> QED BY <1>1, <1>3

LEMMA NextKeepsHolding ==
  ASSUME Basis, Basis', HoldingInv, [HistoryNext]_historyVars
  PROVE  HoldingInv'
  <1> SUFFICES ASSUME NEW r \in Runs, pc'[r] \in HoldingPc, Twinless(run'[r].target),
                      r \notin deprived'
               PROVE  HeldBySession(run[r].target, r)'
    BY DEF HoldingInv, HoldsTarget, Twinless
  <1>0. [ExecutionNext]_executionVars
    BY DEF HistoryNext, historyVars
  <1>1. HoldsLock(r)' => HeldBySession(run[r].target, r)'
    <2>1. SUFFICES ASSUME NEW d \in Devices, HeldBySession(d, r)'
                   PROVE  HeldBySession(run[r].target, r)'
      BY DEF HoldsLock
    <2>2. UdidOf(d) = UdidOf(run'[r].target)
      BY <2>1 DEF Basis, SessionInv, SessionPlace
    <2>3. d = run'[r].target
      BY <2>2 DEF Twinless
    <2> QED BY <2>1, <2>3 DEF HeldBySession, Locked
  <1>2. CASE pc[r] \in HoldingPc
    <2>1. run'[r].target = run[r].target
      BY <1>0, <1>2, TargetStays DEF Basis, HoldingPc, InFlightPc
    <2>2. r \notin deprived
      BY DEF HistoryNext, historyVars
    <2>3. HoldsLock(r)
      <3>1. HeldBySession(run[r].target, r)
        BY <1>2, <2>1, <2>2 DEF HoldingInv, HoldsTarget
      <3>2. run[r].target \in Devices
        BY DEF Basis, ExecutionTyping, RunDoc
      <3> QED BY <3>1, <3>2 DEF HoldsLock
    <2>4. HoldsLock(r)'
      <3>1. CASE HistoryNext
        BY <2>3, <3>1 DEF HistoryNext, Loses, HoldingPc
      <3>2. CASE UNCHANGED historyVars
        BY <2>3, <3>2 DEF historyVars, executionVars, HoldsLock, HeldBySession, Locked
      <3> QED BY <3>1, <3>2
    <2> QED BY <1>1, <2>4
  <1>3. CASE pc[r] \notin HoldingPc
    <2>1. Acquire(r)
      <3>1. Orchestrate(r)
        BY <1>0, <1>3, StepOfRun, TriggerFacts, CrashFacts, SaveOrphanFacts
           DEF Basis, HoldingPc, InFlightPc
      <3> QED BY <1>3, <3>1, OrchestrateMoves DEF Basis
    <2>2. AcquireLock(UdidOfRun(r), doc[r].triggeredBy, r)
      BY <2>1, GotoFrame DEF Acquire, Basis, HoldingPc, InFlightPc
    <2>3. HoldsLock(r)'
      <3>1. doc[r].triggeredBy \in Users /\ r \in Sessions
        BY ExecutionAssumption DEF Basis, ExecutionTyping, RunDoc
      <3>2. PICK d \in Devices : Lease!Grant(d, r)
        BY <2>2, <3>1, AcquireGrants DEF Basis
      <3>3. leaseHolder'[d] = r /\ r # NoLock
        BY <3>1, <3>2, NoLockAssumption DEF Lease!Grant, leaseHolder
      <3>4. HeldBySession(d, r)'
        BY <3>3 DEF leaseHolder, HeldBySession
      <3> QED BY <3>4 DEF HoldsLock
    <2> QED BY <1>1, <2>3
  <1> QED BY <1>2, <1>3

LEMMA HoldingInvHolds == HistorySpec => []HoldingInv
  <1>1. HistoryInit => HoldingInv
    BY DEF HistoryInit, ExecutionInit, HoldingInv, HoldsTarget, HoldingPc, InFlightPc
  <1>2. Basis /\ Basis' /\ HoldingInv /\ [HistoryNext]_historyVars => HoldingInv'
    BY NextKeepsHolding
  <1> QED BY <1>1, <1>2, BasisHolds, PTL DEF HistorySpec

\* However locks expire, are forced open and taken again, whatever its database
\* does and however often the hub crashes: two runs have processes on one device
\* only after one of them lost its lock, or its hub.
THEOREM RunsAreExclusive == HistorySpec => []OneRunPerDevice
  <1>1. Basis /\ HoldingInv => OneRunPerDevice
    <2> SUFFICES ASSUME Basis, HoldingInv, NEW q \in Runs, NEW r \in Runs, q # r,
                        run[q].target = run[r].target, Twinless(run[r].target),
                        child[q] \in Live, child[r] \in Live,
                        q \notin deprived, r \notin deprived, pc[q] # "lost", pc[r] # "lost"
                 PROVE  FALSE
      BY DEF OneRunPerDevice
    <2>1. pc[q] \in HoldingPc /\ pc[r] \in HoldingPc
      BY DEF Basis, RunInv, RunKept, AwaitedChild, Live, HoldingPc, InFlightPc
    <2>2. HeldBySession(run[r].target, q) /\ HeldBySession(run[r].target, r)
      BY <2>1 DEF HoldingInv, HoldsTarget
    <2> QED BY <2>2 DEF HeldBySession
  <1> QED BY <1>1, BasisHolds, HoldingInvHolds, PTL

\* And the release at the end of a run takes a lock from another session only if
\* the run's own lock had been taken before.
THEOREM RunsReleaseTheirOwn == HistorySpec => ReleasesOnlyItsOwn
  <1>1. ASSUME Basis, HoldingInv, NEW r \in Runs, Release(r), r \notin deprived,
               Twinless(run[r].target), NEW d \in Devices, NEW s \in Sessions \ {r},
               HeldBySession(d, s)
        PROVE  HeldBySession(d, s)'
    <2>1. pc[r] = "release" /\ doc[r].target = run[r].target
      BY <1>1 DEF Release, Basis, RunInv, RunKept, Undecided, InFlightPc
    <2>2. HeldBySession(run[r].target, r)
      BY <1>1, <2>1 DEF HoldingInv, HoldsTarget, HoldingPc, InFlightPc
    <2>3. d # run[r].target
      BY <1>1, <2>2 DEF HeldBySession
    <2>4. UdidOf(d) # UdidOfRun(r)
      BY <1>1, <2>1, <2>3 DEF Twinless, UdidOfRun
    <2>5. device'[d] = device[d]
      BY <1>1, <2>4, RunReleaseSparesOthers DEF Release, Basis
    <2> QED BY <1>1, <2>5 DEF HeldBySession, Locked
  <1>2. Basis /\ HoldingInv /\ [HistoryNext]_historyVars =>
          [\A r \in Runs : Release(r) /\ r \notin deprived /\ Twinless(run[r].target) =>
             \A d \in Devices, s \in Sessions \ {r} :
               HeldBySession(d, s) => HeldBySession(d, s)']_historyVars
    BY <1>1
  <1> QED BY <1>2, BasisHolds, HoldingInvHolds, PTL DEF HistorySpec, ReleasesOnlyItsOwn

-----------------------------------------------------------------------------
(* A lock of a run ends with the run *)

InFlightRun(r) == run[r].status \in InFlightStatus

\* The list of orphans is exact while recovery works on it: the runs in flight,
\* and the one that has been saved and not released yet.
OrphansAreExact ==
  /\ hub.pc = "save" => hub.orphans = {r \in Runs : InFlightRun(r)}
  /\ hub.pc = "release" =>
       \E o \in Runs : Ended(o) /\ hub.orphans = {o} \cup {r \in Runs : InFlightRun(r)}

\* Recovery has this orphan still to release.
ToRecover(r) ==
  /\ pc[r] = "lost" /\ ~Up
  /\ InFlightRun(r) \/ (hub.pc = "release" /\ r \in hub.orphans /\ Ended(r))

\* A device is locked for a run that holds it, that was cut off, or whose lock
\* recovery will release.
Accounted(r) ==
  \A d \in Devices : Twinless(d) /\ HeldBySession(d, r) =>
    pc[r] \in HoldingPc \/ r \in cutOff \/ ToRecover(r)

CutInv == \A r \in Runs : Accounted(r)

LEMMA NextKeepsOrphans ==
  ASSUME ExecutionTyping, RunInv, OrphansAreExact, [ExecutionNext]_executionVars
  PROVE  OrphansAreExact'
  <1>1. CASE Up'
    BY <1>1 DEF OrphansAreExact, Up
  <1>2. CASE Crash
    <2>1. hub'.pc = "down"
      BY <1>2 DEF Crash, HubIs
    <2> QED BY <2>1 DEF OrphansAreExact
  <1>3. CASE FindOrphans
    <2> DEFINE orphans == {r \in Runs : run[r].status \in InFlightStatus}
    <2>1. \/ hub' = HubIs("up")
          \/ hub' = [pc |-> "save", orphans |-> orphans]
      BY <1>3 DEF FindOrphans
    <2>2. run' = run
      BY <1>3 DEF FindOrphans, runVars
    <2> QED BY <2>1, <2>2 DEF OrphansAreExact, HubIs, InFlightRun
  <1>4. ASSUME NEW r \in Runs, SaveOrphan(r)
        PROVE  OrphansAreExact'
    <2>1. /\ run'[r].status = "failed" /\ \A q \in Runs \ {r} : run'[q] = run[q]
          /\ hub'.pc = "release" /\ hub'.orphans = hub.orphans
      BY <1>4 DEF SaveOrphan, ExecutionTyping, RunDoc
    <2>2. hub.orphans = {q \in Runs : InFlightRun(q)} /\ InFlightRun(r)
      BY <1>4 DEF SaveOrphan, OrphansAreExact
    <2>3. Ended(r)' /\ ~InFlightRun(r)'
      BY <2>1 DEF Ended, InFlightRun, TerminalStatus, InFlightStatus
    <2>4. \A q \in Runs \ {r} : InFlightRun(q)' <=> InFlightRun(q)
      BY <2>1 DEF InFlightRun
    <2>5. hub'.orphans = {r} \cup {q \in Runs : InFlightRun(q)'}
      BY <2>1, <2>2, <2>3, <2>4
    <2> QED BY <2>1, <2>3, <2>5 DEF OrphansAreExact
  <1>5. ASSUME NEW r \in Runs, ReleaseOrphan(r)
        PROVE  OrphansAreExact'
    <2>1. UNCHANGED run /\ hub.pc = "release" /\ r \in hub.orphans /\ run[r].status = "failed"
      BY <1>5 DEF ReleaseOrphan, runVars
    <2>2. hub.orphans \ {r} = {q \in Runs : InFlightRun(q)}
      BY <2>1 DEF OrphansAreExact, InFlightRun, InFlightStatus, Ended, TerminalStatus
    <2> DEFINE left == hub.orphans \ {r}
    <2>3. \/ hub' = HubIs("up")
          \/ hub' = [pc |-> "save", orphans |-> left]
      BY <1>5 DEF ReleaseOrphan
    <2>4. left = {q \in Runs : InFlightRun(q)'}
      BY <2>1, <2>2 DEF InFlightRun
    <2> HIDE DEF left
    <2> QED BY <2>3, <2>4 DEF OrphansAreExact, HubIs
  <1>6. CASE ~Up' /\ ~Crash /\ ~Recover
    <2>1. ~Up
      BY <1>6, UpStays
    <2>2. ASSUME NEW r \in Runs
          PROVE  ~Orchestrate(r) /\ ~Trigger(r)
      BY <2>1, OrchestrateMoves DEF RunInv, RunKept, Trigger
    <2>3. UNCHANGED <<run, hub>>
      BY <1>6, <2>2 DEF ExecutionNext, ChildExits, CancelReads, CancelActs, LabStep, LockRoute,
         ExpirySweep, Tick, executionVars, runVars
    <2> QED BY <2>3 DEF OrphansAreExact, InFlightRun, Ended
  <1> QED BY <1>1, <1>2, <1>3, <1>4, <1>5, <1>6 DEF Recover

LEMMA OrphansHold == ExecutionSpec => []OrphansAreExact
  <1>1. ExecutionInit => OrphansAreExact
    BY DEF ExecutionInit, HubIs, OrphansAreExact
  <1>2. /\ ExecutionTyping /\ RunInv /\ OrphansAreExact /\ [ExecutionNext]_executionVars
        => OrphansAreExact'
    BY NextKeepsOrphans
  <1> QED BY <1>1, <1>2, ExecutionTypingHolds, RunInvHolds, PTL DEF ExecutionSpec

\* The hub is not up again before every run in flight has been failed.
LEMMA InFlightKeepsDown ==
  ASSUME ExecutionTyping, OrphansAreExact, ExecutionNext, ~Up, NEW r \in Runs, InFlightRun(r)
  PROVE  ~Up'
  <1>1. CASE FindOrphans
    <2> DEFINE orphans == {q \in Runs : run[q].status \in InFlightStatus}
    <2>1. hub' = IF orphans = {} THEN HubIs("up") ELSE [pc |-> "save", orphans |-> orphans]
      BY <1>1 DEF FindOrphans
    <2>2. r \in orphans
      BY DEF InFlightRun
    <2> HIDE DEF orphans
    <2>3. hub' = [pc |-> "save", orphans |-> orphans]
      BY <2>1, <2>2
    <2> QED BY <2>3 DEF Up
  <1>2. ASSUME NEW q \in Runs, SaveOrphan(q)
        PROVE  ~Up'
    BY <1>2 DEF SaveOrphan, ExecutionTyping, Up
  <1>3. ASSUME NEW q \in Runs, ReleaseOrphan(q)
        PROVE  ~Up'
    <2>1. r \in hub.orphans \ {q}
      BY <1>3 DEF ReleaseOrphan, OrphansAreExact, InFlightRun, InFlightStatus
    <2>2. hub'.pc = "save"
      BY <1>3, <2>1 DEF ReleaseOrphan
    <2> QED BY <2>2 DEF Up
  <1>4. CASE Crash
    BY <1>4 DEF Crash, HubIs, Up
  <1>5. CASE ~Crash /\ ~Recover
    <2>1. UNCHANGED hub
      BY <1>5, OrchestrateSparesHub
         DEF ExecutionNext, Trigger, ChildExits, CancelReads, CancelActs, LabStep, LockRoute,
             ExpirySweep, Tick
    <2> QED BY <2>1 DEF Up
  <1> QED BY <1>1, <1>2, <1>3, <1>4, <1>5 DEF Recover

\* The release of a device by its name, where nobody else has that name.
LEMMA ReleaseFrees ==
  ASSUME LocksInv, NEW d \in Devices, Twinless(d), NEW user, ReleaseIfAny(UdidOf(d), user)
  PROVE  ~Locked(d)'
  <1>1. CASE ReleaseLock(UdidOf(d), user, TRUE)
    <2>1. PICK e \in Matching(UdidOf(d)) :
            device' = [device EXCEPT ![e].lock = NoLock, ![e].status = "idle"]
      BY <1>1 DEF ReleaseLock
    <2>2. e = d /\ e \in Devices
      BY DEF Matching, Twinless
    <2> QED BY <2>1, <2>2 DEF LocksInv, LocksTypeOK, DeviceDoc, Locked
  <1>2. CASE UNCHANGED device /\ Matching(UdidOf(d)) = {}
    BY <1>2 DEF Matching, LocksInv, UnknownIsUnlocked, Locked
  <1> QED BY <1>1, <1>2 DEF ReleaseIfAny, ReleaseRefused

LEMMA NextKeepsAccounted ==
  ASSUME Basis, CutInv, OrphansAreExact, OrphansAreExact', HistoryNext,
         NEW r \in Runs, NEW d \in Devices,
         Twinless(d), HeldBySession(d, r)'
  PROVE  pc'[r] \in HoldingPc \/ r \in cutOff' \/ ToRecover(r)'
  <1>0. ExecutionNext /\ [ExecutionNext]_executionVars
    BY DEF HistoryNext
  <1>1. CASE ~HeldBySession(d, r)
    <2>1. Acquire(r) /\ ~UNCHANGED device
      BY <1>0, <1>1, SessionsAppear DEF Basis, HeldBySession, Locked
    <2>2. \/ pc'[r] = "prepare"
          \/ pc'[r] = "done" /\ faults' # faults
      BY <2>1, GotoFrame, FaultCounts DEF Acquire, Basis
    <2>3. pc[r] \in InFlightPc
      BY <2>1 DEF Acquire, InFlightPc
    <2> QED BY <2>2, <2>3 DEF HistoryNext, CutShort, HoldingPc, InFlightPc
  <1>2. CASE HeldBySession(d, r) /\ r \in cutOff
    BY <1>2 DEF HistoryNext
  <1>3. CASE HeldBySession(d, r) /\ pc[r] \in HoldingPc
    <2>1. CASE Orchestrate(r)
      <3>1. CASE pc'[r] = "done" /\ (WorkspaceFails(r) \/ faults' # faults)
        BY <1>3, <3>1 DEF HistoryNext, CutShort, HoldingPc
      <3>2. CASE Release(r) /\ faults' = faults
        <4>1. ReleaseIfAny(UdidOfRun(r), doc[r].triggeredBy)
          BY <3>2, FaultCounts DEF Release, Basis
        <4>2. UdidOfRun(r) = UdidOf(d)
          BY <1>3 DEF Basis, RunInv, RunKept, Undecided, HoldingPc, SessionInv, SessionPlace,
             UdidOfRun
        <4>3. ~Locked(d)'
          BY <4>1, <4>2, ReleaseFrees DEF Basis
        <4> QED BY <4>3 DEF HeldBySession
      <3> QED BY <1>3, <2>1, <3>1, <3>2, OrchestrateLeaves DEF Basis
    <2>2. CASE Crash
      <3>1. pc'[r] = "lost" /\ run'[r] = run[r] /\ hub'.pc = "down" /\ crashes' # crashes
        BY <1>3, <2>2, CrashFacts DEF Basis, HoldingPc
      <3>2. InFlightRun(r) \/ Ended(r)
        BY <1>3 DEF Basis, RunInv, RunKept, Recorded, HoldingPc, InFlightPc, ExecutionTyping,
           RunDoc, InFlightRun, Ended
      <3>3. CASE Ended(r)
        BY <1>3, <3>1, <3>3 DEF HistoryNext, CrashedLate, HoldingPc, InFlightPc
      <3>4. CASE InFlightRun(r)
        BY <3>1, <3>4 DEF ToRecover, InFlightRun, Up
      <3> QED BY <3>2, <3>3, <3>4
    <2>3. CASE Trigger(r)
      BY <1>0, <1>3, <2>3, TriggerFacts DEF Basis, RunInv, RunKept, Recorded, HoldingPc, InFlightPc
    <2>4. CASE SaveOrphan(r) \/ UNCHANGED pc[r]
      BY <1>3, <2>4, SaveOrphanFacts DEF Basis
    <2> QED BY <1>0, <2>1, <2>2, <2>3, <2>4, StepOfRun DEF Basis
  <1>4. CASE HeldBySession(d, r) /\ ToRecover(r)
    <2>1. CASE Crash
      <3>1. pc'[r] = "lost" /\ run'[r] = run[r] /\ hub'.pc = "down" /\ crashes' # crashes
        BY <1>4, <2>1, CrashFacts DEF Basis, ToRecover, InFlightPc
      <3>2. CASE Ended(r)
        BY <1>4, <3>1, <3>2 DEF HistoryNext, CrashedLate, ToRecover
      <3>3. CASE InFlightRun(r)
        BY <3>1, <3>3 DEF ToRecover, InFlightRun, Up
      <3> QED BY <1>4, <3>2, <3>3 DEF ToRecover
    <2>2. CASE SaveOrphan(r)
      <3>1. hub'.pc = "release" /\ r \in hub'.orphans
        BY <2>2 DEF SaveOrphan, Basis, ExecutionTyping
      <3>2. Ended(r)' /\ pc'[r] = "lost"
        BY <1>4, <2>2, SaveOrphanFacts DEF Basis, ToRecover, Ended, TerminalStatus
      <3> QED BY <3>1, <3>2 DEF ToRecover, Up
    <2>3. CASE ReleaseOrphan(r)
      <3>1. UdidOf(run[r].target) = UdidOf(d)
        BY <1>4 DEF Basis, SessionInv, SessionPlace
      <3>2. ~Locked(d)'
        BY <2>3, <3>1, ReleaseFrees DEF ReleaseOrphan, Basis
      <3> QED BY <3>2 DEF HeldBySession
    <2>4. CASE ~Crash /\ ~SaveOrphan(r) /\ ~ReleaseOrphan(r)
      <3>1. ~Orchestrate(r) /\ ~Trigger(r)
        BY <1>4, OrchestrateMoves DEF Basis, ToRecover, InFlightPc, Trigger
      <3>2. UNCHANGED <<run[r], pc[r]>>
        BY <1>0, <2>4, <3>1, StepOfRun DEF Basis
      <3>3. CASE InFlightRun(r)
        <4>1. ~Up'
          BY <1>0, <1>4, <3>3, InFlightKeepsDown DEF Basis, CutInv, ToRecover
        <4> QED BY <1>4, <3>2, <3>3, <4>1 DEF ToRecover, InFlightRun
      <3>4. CASE hub.pc = "release" /\ r \in hub.orphans /\ Ended(r)
        <4>1. ASSUME NEW q \in Runs, ReleaseOrphan(q)
              PROVE  q = r
          BY <3>4, <4>1
             DEF ReleaseOrphan, CutInv, OrphansAreExact, InFlightRun, InFlightStatus, Ended,
                 TerminalStatus
        <4>2. UNCHANGED hub
          <5>1. ~Recover
            BY <2>4, <3>4, <4>1 DEF Recover, FindOrphans, SaveOrphan
          <5> QED BY <1>0, <2>4, <5>1, OrchestrateSparesHub
                  DEF ExecutionNext, Trigger, ChildExits, CancelReads, CancelActs, LabStep,
                      LockRoute, ExpirySweep, Tick
        <4> QED BY <1>4, <3>2, <3>4, <4>2 DEF ToRecover, Ended, Up
      <3> QED BY <1>4, <3>3, <3>4 DEF ToRecover
    <2> QED BY <2>1, <2>2, <2>3, <2>4
  <1> QED BY <1>1, <1>2, <1>3, <1>4 DEF CutInv, Accounted

\* A lock acquired for a run is held only while its orchestration is under way, by
\* every path to its end, across expiries, forced unlocks, crashes and recovery:
\* but for the cuts the code has.
THEOREM RunLocksEndWithTheirRun == HistorySpec => []RunLockHasItsRun
  <1>1. HistoryInit => CutInv
    BY DEF HistoryInit, ExecutionInit, HubIs, LocksInit, NoDocument, CutInv, Accounted,
       HeldBySession, Locked
  <1>2. /\ Basis /\ OrphansAreExact /\ OrphansAreExact' /\ CutInv /\ [HistoryNext]_historyVars
        => CutInv'
    <2> SUFFICES ASSUME Basis, OrphansAreExact, OrphansAreExact', CutInv,
                        [HistoryNext]_historyVars
                 PROVE  CutInv'
      OBVIOUS
    <2>1. CASE HistoryNext
      BY <2>1, NextKeepsAccounted DEF CutInv, Accounted, Twinless
    <2>2. CASE UNCHANGED historyVars
      BY <2>2 DEF CutInv, Accounted, ToRecover, InFlightRun, Ended, Up, HeldBySession,
         Locked, historyVars, executionVars
    <2> QED BY <2>1, <2>2
  <1>3. CutInv => RunLockHasItsRun
    BY DEF CutInv, Accounted, ToRecover, RunLockHasItsRun, HoldingPc
  <1> QED BY <1>1, <1>2, <1>3, BasisHolds, OrphansHold, HistoryIsExecution, PTL DEF HistorySpec

-----------------------------------------------------------------------------
(* A run that passed had done its stages *)

PastSetupStatus == {"done", "skipped"}
StagesDone(d) == d.execute = "done" /\ d.installing \in PastSetupStatus
Earned(d) == d.status = "passed" => StagesDone(d)

\* What the orchestration knows of the stages, by its place: it holds of the
\* document in memory, of which the stored one may be an older copy.
StagesAtPlace(r) ==
  /\ pc[r] \in UndecidedPc \cup {"refuse"} =>
       doc[r].status \in InFlightStatus /\ doc[r].execute # "done"
  /\ pc[r] \in {"afterSetup", "startTest", "spawnTest", "test"} =>
       doc[r].installing \in PastSetupStatus
  /\ pc[r] \in {"setCancelled", "setFailed"} => doc[r].execute # "done"
  /\ pc[r] = "setPassed" => StagesDone(doc[r])

StagesOf(r) == Earned(run[r]) /\ Earned(doc[r]) /\ StagesAtPlace(r)
StagesInv == \A r \in Runs : StagesOf(r)

\* The fields of the documents that are saved.
LEMMA SavedFields ==
  ASSUME ExecutionTyping, NEW r \in Runs
  PROVE  /\ \A s : LET d == [doc[r] EXCEPT !.status = s]
                   IN  d.status = s /\ d.installing = doc[r].installing
                       /\ d.execute = doc[r].execute
         /\ \A s : LET d == [doc[r] EXCEPT !.installing = s]
                   IN  d.status = doc[r].status /\ d.installing = s
                       /\ d.execute = doc[r].execute
         /\ \A s : LET d == [doc[r] EXCEPT !.execute = s]
                   IN  d.status = doc[r].status /\ d.installing = doc[r].installing
                       /\ d.execute = s
         /\ LET d == [doc[r] EXCEPT !.status = "failed", !.ended = TRUE]
            IN  d.status = "failed" /\ d.installing = doc[r].installing
                /\ d.execute = doc[r].execute
         /\ LET d == [doc[r] EXCEPT !.ended = TRUE]
            IN  d.status = doc[r].status /\ d.installing = doc[r].installing
                /\ d.execute = doc[r].execute
  <1>1. doc[r] \in RunDoc
    BY DEF ExecutionTyping
  <1> QED BY <1>1 DEF RunDoc

\* A save keeps all that, if it holds of the document at the place after it, and
\* the place after a failure is one of those that nothing is known about.
LEMMA SaveKeepsStages ==
  ASSUME ExecutionTyping, NEW r \in Runs, NEW d, NEW next, NEW onError,
         StagesOf(r), Save(r, d, next, onError),
         onError \in {"catch", "finally", "done"},
         Earned(d),
         next \in UndecidedPc => d.status \in InFlightStatus /\ d.execute # "done",
         next \in {"afterSetup", "startTest", "spawnTest", "test"} =>
           d.installing \in PastSetupStatus,
         next \in {"setCancelled", "setFailed"} => d.execute # "done",
         next = "setPassed" => StagesDone(d),
         next # "refuse"
  PROVE  StagesOf(r)'
  <1>1. doc'[r] = d /\ run'[r] \in {run[r], d} /\ pc'[r] \in {next, onError}
    BY SaveFrame
  <1>2. CASE pc'[r] = next
    BY <1>1, <1>2 DEF StagesOf, StagesAtPlace, Earned, StagesDone
  <1>3. CASE pc'[r] = onError
    BY <1>1, <1>3 DEF StagesOf, StagesAtPlace, Earned, StagesDone, UndecidedPc
  <1> QED BY <1>1, <1>2, <1>3

\* The two statuses that are set on the way to the test.
LEMMA SetStatusKeepsStages ==
  ASSUME ExecutionTyping, NEW r \in Runs, StagesOf(r), pc[r] \in UndecidedPc,
         NEW s \in InFlightStatus, NEW next, SetStatus(r, s, next, "catch"),
         next = "afterPrepare" \/ (next = "startTest" /\ doc[r].installing \in PastSetupStatus)
  PROVE  StagesOf(r)'
  <1> DEFINE d == [doc[r] EXCEPT !.status = s]
  <1>1. d.status = s /\ d.installing = doc[r].installing /\ d.execute # "done"
    BY SavedFields DEF StagesOf, StagesAtPlace
  <1>2. Save(r, d, next, "catch")
    BY DEF SetStatus
  <1>3. Earned(d)
    BY <1>1 DEF Earned, InFlightStatus
  <1> HIDE DEF d
  <1> QED BY <1>1, <1>2, <1>3, SaveKeepsStages

LEMMA SetInstallingKeepsStages ==
  ASSUME ExecutionTyping, NEW r \in Runs, StagesOf(r), pc[r] \in UndecidedPc,
         NEW s, NEW next, SetInstalling(r, s, next),
         \/ next \in {"spawnSetup", "setCancelled", "setFailed"}
         \/ next = "afterSetup" /\ s = "done"
  PROVE  StagesOf(r)'
  <1> DEFINE d == [doc[r] EXCEPT !.installing = s]
  <1>1. d.status \in InFlightStatus /\ d.installing = s /\ d.execute # "done"
    BY SavedFields DEF StagesOf, StagesAtPlace
  <1>2. Save(r, d, next, "catch")
    BY DEF SetInstalling
  <1>3. Earned(d)
    BY <1>1 DEF Earned, InFlightStatus
  <1> HIDE DEF d
  <1> QED BY <1>1, <1>2, <1>3, SaveKeepsStages DEF PastSetupStatus

LEMMA SetExecuteKeepsStages ==
  ASSUME ExecutionTyping, NEW r \in Runs, StagesOf(r), pc[r] \in UndecidedPc,
         NEW s, NEW next, SetExecute(r, s, next),
         \/ next \in {"setCancelled", "setFailed"} /\ s # "done"
         \/ next = "spawnTest" /\ s # "done" /\ doc[r].installing \in PastSetupStatus
         \/ next = "setPassed" /\ s = "done" /\ doc[r].installing \in PastSetupStatus
  PROVE  StagesOf(r)'
  <1> DEFINE d == [doc[r] EXCEPT !.execute = s]
  <1>1. d.status \in InFlightStatus /\ d.installing = doc[r].installing /\ d.execute = s
    BY SavedFields DEF StagesOf, StagesAtPlace
  <1>2. Save(r, d, next, "catch")
    BY DEF SetExecute
  <1>3. Earned(d)
    BY <1>1 DEF Earned, InFlightStatus
  <1> HIDE DEF d
  <1> QED BY <1>1, <1>2, <1>3, SaveKeepsStages DEF UndecidedPc, StagesDone

LEMMA OrchestrateKeepsStages ==
  ASSUME ExecutionTyping, NEW r \in Runs, StagesOf(r), Orchestrate(r)
  PROVE  StagesOf(r)'
  <1> USE DEF UndecidedPc
  <1>0. doc[r] \in RunDoc
    BY DEF ExecutionTyping
  <1>1. CASE Acquire(r)
    <2>1. UNCHANGED <<run, doc>> /\ pc[r] = "acquire" /\ pc'[r] \in {"prepare", "refuse", "done"}
      BY <1>1, GotoFrame DEF Acquire
    <2> QED BY <2>1 DEF StagesOf, StagesAtPlace, Earned, StagesDone
  <1>2. CASE WorkspaceFails(r) \/ Release(r)
    <2>1. UNCHANGED <<run, doc>> /\ pc'[r] = "done"
      BY <1>2, GotoFrame DEF WorkspaceFails, Release
    <2> QED BY <2>1 DEF StagesOf, StagesAtPlace, Earned, StagesDone
  <1>3. CASE Spawn(r)
    <2>1. /\ UNCHANGED <<run, doc>>
          /\ \/ pc[r] = "spawnSetup" /\ pc'[r] = "setup"
             \/ pc[r] = "spawnTest" /\ pc'[r] = "test"
             \/ pc'[r] = "catch"
      BY <1>3, GotoFrame DEF Spawn, Live
    <2> QED BY <2>1 DEF StagesOf, StagesAtPlace, Earned, StagesDone
  <1>4. CASE Refuse(r)
    BY <1>4, SaveKeepsStages, SavedFields DEF Refuse, Earned
  <1>5. CASE Prepare(r)
    BY <1>5, SetStatusKeepsStages DEF Prepare, InFlightStatus
  <1>6. CASE StartSetup(r)
    BY <1>6, SetInstallingKeepsStages DEF StartSetup
  <1>7. CASE EndSetup(r)
    BY <1>7, SetInstallingKeepsStages DEF EndSetup
  <1>8. CASE StopBeforeTest(r)
    BY <1>8, SetExecuteKeepsStages DEF StopBeforeTest, PastSetup
  <1>9. CASE StartRunning(r)
    <2>1. doc[r].installing \in PastSetupStatus
      BY <1>9 DEF StartRunning, PastSetup, HasSetup, StagesOf, StagesAtPlace, PastSetupStatus
    <2> QED BY <1>9, <2>1, SetStatusKeepsStages DEF StartRunning, PastSetup, InFlightStatus
  <1>10. CASE StartTest(r)
    <2>1. doc[r].installing \in PastSetupStatus
      BY <1>10 DEF StartTest, StagesOf, StagesAtPlace
    <2> QED BY <1>10, <2>1, SetExecuteKeepsStages DEF StartTest
  <1>11. CASE EndTest(r)
    <2>1. doc[r].installing \in PastSetupStatus
      BY <1>11 DEF EndTest, StagesOf, StagesAtPlace
    <2> QED BY <1>11, <2>1, SetExecuteKeepsStages DEF EndTest
  <1>12. CASE SetResult(r)
    <2>1. PICK status \in TerminalStatus :
            /\ status = "passed" => pc[r] = "setPassed"
            /\ SetStatus(r, status, "finally", "catch")
      BY <1>12 DEF SetResult
    <2> DEFINE d == [doc[r] EXCEPT !.status = status]
    <2>2. Earned(d)
      BY <2>1, SavedFields DEF Earned, StagesDone, StagesOf, StagesAtPlace
    <2>3. Save(r, d, "finally", "catch")
      BY <2>1 DEF SetStatus
    <2> HIDE DEF d
    <2> QED BY <2>2, <2>3, SaveKeepsStages
  <1>13. CASE Catch(r)
    BY <1>13, SaveKeepsStages, SavedFields DEF Catch, SetStatus, Earned
  <1>14. CASE Finally(r)
    BY <1>14, SaveKeepsStages, SavedFields DEF Finally, Earned, StagesDone, StagesOf
  <1> QED BY <1>1, <1>2, <1>3, <1>4, <1>5, <1>6, <1>7, <1>8, <1>9, <1>10, <1>11, <1>12,
             <1>13, <1>14 DEF Orchestrate

\* Whatever else happens: crashes, recovery, cancels.
LEMMA NextKeepsStages ==
  ASSUME ExecutionTyping, StagesInv, [ExecutionNext]_executionVars
  PROVE  StagesInv'
  <1>1. ASSUME NEW r \in Runs, Orchestrate(r)
        PROVE  StagesInv'
    <2>1. StagesOf(r)'
      BY <1>1, OrchestrateKeepsStages DEF StagesInv
    <2>2. \A q \in Runs \ {r} : StagesOf(q)'
      BY <1>1, OrchestrateFrame
         DEF StagesInv, StagesOf, StagesAtPlace, Earned, StagesDone, Own
    <2> QED BY <2>1, <2>2 DEF StagesInv
  <1>2. ASSUME NEW r \in Runs, Trigger(r)
        PROVE  StagesInv'
    <2>1. PICK d \in Devices, by \in Operators, setup \in {"pending", "skipped"} :
            LET new == [NoRun EXCEPT !.status = "queued", !.installing = setup,
                                     !.target = d, !.triggeredBy = by]
            IN  run' = [run EXCEPT ![r] = new] /\ doc' = [doc EXCEPT ![r] = new]
      BY <1>2 DEF Trigger
    <2>2. /\ run'[r] = doc'[r] /\ doc'[r].status = "queued" /\ doc'[r].execute = "pending"
          /\ pc'[r] = "acquire"
      BY <1>2, <2>1, GotoFrame, NoRunType DEF Trigger, ExecutionTyping, NoRun
    <2>3. \A q \in Runs \ {r} : UNCHANGED <<run[q], doc[q], pc[q]>>
      BY <1>2, <2>1, GotoFrame DEF Trigger, ExecutionTyping
    <2> QED BY <2>2, <2>3
            DEF StagesInv, StagesOf, StagesAtPlace, Earned, StagesDone, InFlightStatus
  <1>3. CASE Crash
    <2>1. \A r \in Runs : doc'[r] = NoRun /\ run'[r] = run[r] /\ pc'[r] \notin InFlightPc
      BY <1>3 DEF Crash, ExecutionTyping, InFlightPc
    <2>2. NoRun.status = "none"
      BY DEF NoRun
    <2> QED BY <2>1, <2>2
            DEF StagesInv, StagesOf, StagesAtPlace, Earned, StagesDone, InFlightPc, UndecidedPc
  <1>4. ASSUME NEW r \in Runs, SaveOrphan(r)
        PROVE  StagesInv'
    <2>1. run'[r].status = "failed" /\ \A q \in Runs \ {r} : run'[q] = run[q]
      BY <1>4 DEF SaveOrphan, ExecutionTyping, RunDoc
    <2>2. UNCHANGED <<doc, pc>>
      BY <1>4 DEF SaveOrphan
    <2> QED BY <2>1, <2>2 DEF StagesInv, StagesOf, StagesAtPlace, Earned, StagesDone
  <1>5. ASSUME NEW r \in Runs,
               ChildExits(r) \/ CancelReads(r) \/ CancelActs(r) \/ ReleaseOrphan(r)
        PROVE  UNCHANGED <<run, doc, pc>>
    BY <1>5 DEF ChildExits, CancelReads, CancelActs, ReleaseOrphan, runVars
  <1>6. CASE FindOrphans \/ LabStep \/ LockRoute \/ ExpirySweep \/ Tick \/ UNCHANGED executionVars
    BY <1>6 DEF FindOrphans, LabStep, LockRoute, ExpirySweep, Tick, runVars, executionVars,
       StagesInv, StagesOf, StagesAtPlace, Earned, StagesDone
  <1>7. CASE UNCHANGED <<run, doc, pc>>
    BY <1>7 DEF StagesInv, StagesOf, StagesAtPlace, Earned, StagesDone
  <1> QED BY <1>1, <1>2, <1>3, <1>4, <1>5, <1>6, <1>7 DEF ExecutionNext, Recover

LEMMA StagesInvHolds == ExecutionSpec => []StagesInv
  <1>1. ExecutionInit => StagesInv
    BY DEF ExecutionInit, NoRun, StagesInv, StagesOf, StagesAtPlace, Earned, StagesDone,
       UndecidedPc
  <1>2. ExecutionTyping /\ StagesInv /\ [ExecutionNext]_executionVars => StagesInv'
    BY NextKeepsStages
  <1> QED BY <1>1, <1>2, ExecutionTypingHolds, PTL DEF ExecutionSpec

PassedIsEarned == \A r \in Runs : Earned(run[r])

\* A run reads as passed only after its test command ended well, and its setup
\* command too where it had one: always, with crashes, recovery, late cancels and
\* saves that throw, applied or not.
THEOREM PassedAlwaysEarned == ExecutionSpec => []PassedIsEarned
  <1>1. StagesInv => PassedIsEarned
    BY DEF StagesInv, StagesOf, PassedIsEarned
  <1> QED BY <1>1, StagesInvHolds, PTL


\* A run that ended otherwise has not done its test.
Unfinished(d) == d.status \in {"failed", "cancelled"} => d.execute # "done"

\* Where its orchestration may leave a run, for good or to recovery.
LatePc == {"none", "finally", "release", "done"}

\* As long as none of its calls threw, a run is stored as its orchestration has it
\* in memory, an error is met before the test is done, and what recovery may find
\* in flight has not done it.
MatchOf(r) ==
  r \notin thrown =>
    /\ pc[r] \in InFlightPc => doc[r] = run[r]
    /\ pc[r] = "catch" => run[r].execute # "done"
    /\ pc[r] \in LatePc /\ InFlightRun(r) => run[r].execute # "done"
    /\ pc[r] # "lost" => Unfinished(run[r])

MatchInv == \A r \in Runs : MatchOf(r)

\* A save that did not throw.
LEMMA SaveKeepsMatch ==
  ASSUME ExecutionTyping, HistoryNext, NEW r \in Runs, r \notin thrown',
         NEW d, NEW next, NEW onError, Save(r, d, next, onError), onError # pc[r],
         Unfinished(d), next # "catch",
         next \in LatePc /\ d.status \in InFlightStatus => d.execute # "done"
  PROVE  MatchOf(r)'
  <1>1. run'[r] = d /\ doc'[r] = d /\ pc'[r] = next
    <2>1. CASE Fault /\ Goto(r, onError)
      BY <2>1, GotoFrame, FaultCounts DEF HistoryNext
    <2>2. CASE run' = [run EXCEPT ![r] = d] /\ Goto(r, next)
      BY <2>2, GotoFrame DEF Save, ExecutionTyping
    <2> QED BY <2>1, <2>2 DEF Save
  <1> QED BY <1>1 DEF MatchOf, InFlightRun

LEMMA OrchestrateKeepsMatch ==
  ASSUME ExecutionTyping, StagesInv, MatchInv, HistoryNext, NEW r \in Runs, Orchestrate(r)
  PROVE  MatchOf(r)'
  <1> SUFFICES ASSUME r \notin thrown'
               PROVE  MatchOf(r)'
    BY DEF MatchOf
  <1> USE DEF LatePc, UndecidedPc, InFlightStatus
  <1>1. pc[r] \in InFlightPc /\ r \notin thrown
    BY OrchestrateMoves DEF HistoryNext
  <1>2. /\ doc[r] = run[r] /\ Unfinished(run[r])
        /\ pc[r] = "catch" => run[r].execute # "done"
        /\ pc[r] \in LatePc /\ InFlightRun(r) => run[r].execute # "done"
    BY <1>1 DEF MatchInv, MatchOf, InFlightPc
  <1>3. StagesAtPlace(r)
    BY DEF StagesInv, StagesOf
  <1>4. faults' # faults => pc'[r] = pc[r]
    BY DEF HistoryNext
  <1>5. CASE Acquire(r)
    <2>1. pc[r] = "acquire" /\ UNCHANGED <<run, doc>>
      BY <1>5 DEF Acquire
    <2>2. pc'[r] \in {"prepare", "refuse"}
      BY <1>4, <1>5, <2>1, GotoFrame, FaultCounts DEF Acquire
    <2>3. doc[r].status \in InFlightStatus
      BY <1>3, <2>1 DEF StagesAtPlace
    <2> QED BY <1>2, <2>1, <2>2, <2>3 DEF MatchOf, Unfinished
  <1>6. CASE WorkspaceFails(r) \/ Release(r)
    <2>1. UNCHANGED <<run, doc>> /\ pc'[r] = "done"
      BY <1>6, GotoFrame DEF WorkspaceFails, Release
    <2>2. InFlightRun(r) => run[r].execute # "done"
      BY <1>2, <1>3, <1>6 DEF WorkspaceFails, Release, StagesAtPlace
    <2> QED BY <1>2, <2>1, <2>2 DEF MatchOf, InFlightRun, Unfinished, InFlightPc
  <1>7. CASE Spawn(r)
    <2>1. /\ UNCHANGED <<run, doc>> /\ pc[r] \in UndecidedPc
          /\ pc'[r] \in {"setup", "test", "catch"}
      BY <1>7, GotoFrame DEF Spawn, Live
    <2>2. run[r].execute # "done"
      BY <1>2, <1>3, <2>1 DEF StagesAtPlace
    <2> QED BY <1>2, <2>1, <2>2 DEF MatchOf, Unfinished
  <1>8. ASSUME NEW s, NEW next, NEW onError, SetStatus(r, s, next, onError), onError # pc[r],
               next # "catch",
               \/ s \in InFlightStatus /\ next \notin LatePc
               \/ s = "passed"
               \/ s \in TerminalStatus /\ doc[r].execute # "done"
        PROVE  MatchOf(r)'
    <2> DEFINE d == [doc[r] EXCEPT !.status = s]
    <2>1. Save(r, d, next, onError) /\ d.status = s /\ d.execute = doc[r].execute
      BY <1>8, SavedFields DEF SetStatus
    <2>2. Unfinished(d)
      BY <1>8, <2>1 DEF Unfinished
    <2> HIDE DEF d
    <2> QED BY <1>8, <2>1, <2>2, SaveKeepsMatch DEF TerminalStatus
  <1>9. ASSUME NEW s, NEW next, SetInstalling(r, s, next) \/ SetExecute(r, s, next),
               pc[r] \in UndecidedPc, next \notin LatePc, next # "catch"
        PROVE  MatchOf(r)'
    <2>1. PICK d : d.status = doc[r].status /\ Save(r, d, next, "catch")
      BY <1>9, SavedFields DEF SetInstalling, SetExecute
    <2>2. d.status \in InFlightStatus
      BY <1>3, <1>9, <2>1 DEF StagesAtPlace
    <2>3. Unfinished(d)
      BY <2>2 DEF Unfinished
    <2> QED BY <1>9, <2>1, <2>3, SaveKeepsMatch
  <1>10. CASE Refuse(r)
    <2> DEFINE d == [doc[r] EXCEPT !.status = "failed", !.ended = TRUE]
    <2>1. Save(r, d, "done", "done") /\ d.status = "failed" /\ d.execute = doc[r].execute
      BY <1>10, SavedFields DEF Refuse
    <2>2. pc[r] = "refuse" /\ doc[r].execute # "done"
      BY <1>3, <1>10 DEF Refuse, StagesAtPlace
    <2> HIDE DEF d
    <2> QED BY <2>1, <2>2, SaveKeepsMatch DEF Unfinished
  <1>11. CASE Prepare(r) \/ StartRunning(r)
    BY <1>8, <1>11 DEF Prepare, StartRunning, PastSetup
  <1>12. CASE StartSetup(r) \/ EndSetup(r) \/ StopBeforeTest(r) \/ StartTest(r) \/ EndTest(r)
    <2>1. CASE StartSetup(r) \/ StartTest(r)
      BY <1>9, <2>1 DEF StartSetup, StartTest
    <2>2. CASE EndSetup(r)
      <3>1. PICK s, next : /\ SetInstalling(r, s, next)
                           /\ next \in {"setCancelled", "setFailed", "afterSetup"}
        BY <2>2 DEF EndSetup
      <3> QED BY <1>9, <2>2, <3>1 DEF EndSetup
    <2>3. CASE StopBeforeTest(r)
      BY <1>9, <2>3 DEF StopBeforeTest, PastSetup
    <2>4. CASE EndTest(r)
      <3>1. PICK s, next : /\ SetExecute(r, s, next)
                           /\ next \in {"setCancelled", "setFailed", "setPassed"}
        BY <2>4 DEF EndTest
      <3> QED BY <1>9, <2>4, <3>1 DEF EndTest
    <2> QED BY <1>12, <2>1, <2>2, <2>3, <2>4
  <1>13. CASE SetResult(r)
    <2>1. PICK s \in TerminalStatus :
            /\ pc[r] = (CASE s = "passed" -> "setPassed"
                          [] s = "failed" -> "setFailed"
                          [] s = "cancelled" -> "setCancelled")
            /\ SetStatus(r, s, "finally", "catch")
      BY <1>13 DEF SetResult
    <2>2. s = "passed" \/ doc[r].execute # "done"
      BY <1>3, <2>1 DEF TerminalStatus, StagesAtPlace
    <2>3. pc[r] # "catch"
      BY <2>1 DEF TerminalStatus
    <2> QED BY <1>8, <2>1, <2>2, <2>3
  <1>14. CASE Catch(r)
    BY <1>2, <1>8, <1>14 DEF Catch, TerminalStatus
  <1>15. CASE Finally(r)
    <2> DEFINE d == [doc[r] EXCEPT !.ended = TRUE]
    <2>1. /\ Save(r, d, "release", "done")
          /\ d.status = doc[r].status /\ d.execute = doc[r].execute
      BY <1>15, SavedFields DEF Finally
    <2>2. pc[r] = "finally"
      BY <1>15 DEF Finally
    <2>3. Unfinished(d) /\ (d.status \in InFlightStatus => d.execute # "done")
      BY <1>2, <2>1, <2>2 DEF Unfinished, InFlightRun
    <2> HIDE DEF d
    <2> QED BY <2>1, <2>2, <2>3, SaveKeepsMatch
  <1> QED BY <1>5, <1>6, <1>7, <1>10, <1>11, <1>12, <1>13, <1>14, <1>15 DEF Orchestrate

LEMMA NextKeepsMatch ==
  ASSUME Basis, OrphansAreExact, StagesInv, MatchInv, [HistoryNext]_historyVars
  PROVE  MatchInv'
  <1> SUFFICES ASSUME NEW r \in Runs
               PROVE  MatchOf(r)'
    BY DEF MatchInv
  <1>1. CASE UNCHANGED historyVars
    BY <1>1 DEF MatchInv, MatchOf, Unfinished, InFlightRun, historyVars, executionVars
  <1>2. CASE HistoryNext
    <2>1. [ExecutionNext]_executionVars /\ (r \in thrown => r \in thrown')
      BY <1>2 DEF HistoryNext
    <2>2. CASE Orchestrate(r)
      BY <1>2, <2>2, OrchestrateKeepsMatch DEF Basis
    <2>3. CASE Trigger(r)
      BY <2>3, TriggerFacts DEF Basis, MatchOf, Unfinished, LatePc
    <2>4. CASE Crash
      <3>1. /\ pc'[r] = IF pc[r] \in InFlightPc THEN "lost" ELSE pc[r]
            /\ run'[r] = run[r]
        BY <2>4, CrashFacts DEF Basis
      <3> QED BY <2>1, <3>1 DEF MatchInv, MatchOf, Unfinished, InFlightRun, LatePc, InFlightPc
    <2>5. CASE SaveOrphan(r)
      <3>1. InFlightRun(r) /\ run'[r].execute = Stopped(run[r].execute) /\ pc'[r] = pc[r]
            /\ run'[r].status = "failed"
        BY <2>5, SaveOrphanFacts DEF Basis, SaveOrphan, OrphansAreExact
      <3>2. pc[r] \in {"none", "done", "lost"}
        BY <2>5, SaveOrphanFacts DEF Basis, RunInv, RunKept, ExecutionTyping, Pc
      <3> QED BY <2>1, <3>1, <3>2
              DEF MatchInv, MatchOf, Unfinished, InFlightRun, InFlightStatus, LatePc, InFlightPc,
                  Stopped
    <2>6. CASE UNCHANGED <<run[r], doc[r], pc[r]>>
      BY <2>1, <2>6 DEF MatchInv, MatchOf, Unfinished, InFlightRun
    <2> QED BY <2>1, <2>2, <2>3, <2>4, <2>5, <2>6, StepOfRun DEF Basis
  <1> QED BY <1>1, <1>2

\* A run passed only after its stages were done, and one that was cancelled or
\* failed never did its test to the end: whatever crashes, is cancelled late or
\* recovered, but for the runs one of whose own calls threw, or whose hub crashed.
THEOREM ResultsMatchStages == HistorySpec => []ResultMatchesStages
  <1>1. HistoryInit => MatchInv
    BY DEF HistoryInit, ExecutionInit, NoRun, MatchInv, MatchOf, Unfinished, InFlightRun,
       InFlightStatus, InFlightPc
  <1>2. /\ Basis /\ OrphansAreExact /\ StagesInv /\ MatchInv /\ [HistoryNext]_historyVars
        => MatchInv'
    BY NextKeepsMatch
  <1>3. StagesInv /\ MatchInv => ResultMatchesStages
    BY DEF StagesInv, StagesOf, Earned, StagesDone, PastSetupStatus, MatchInv, MatchOf,
       Unfinished, ResultMatchesStages
  <1> QED BY <1>1, <1>2, <1>3, BasisHolds, OrphansHold, StagesInvHolds, HistoryIsExecution, PTL
          DEF HistorySpec

LEMMA SaveSucceeds ==
  ASSUME ExecutionTyping, MaxFaults = 0, NEW r \in Runs, NEW d, NEW next, NEW onError,
         Save(r, d, next, onError)
  PROVE  run'[r] = d /\ doc'[r] = d /\ pc'[r] = next
  <1>1. ~Fault
    BY DEF Fault, ExecutionTyping
  <1>2. run' = [run EXCEPT ![r] = d] /\ Goto(r, next)
    BY <1>1 DEF Save
  <1> QED BY <1>2, SaveFrame, GotoFrame DEF ExecutionTyping

-----------------------------------------------------------------------------
(* Where every save succeeds: results are final, also across crashes, and no   *)
(* run is left behind by a restart.                                            *)

OpenPc == InFlightPc \ {"finally", "release"}

\* The place of a run's orchestration and its stored status agree; what a crash
\* has cut off is in flight only until the hub is up again.
PlaceOf(r) ==
  /\ pc[r] = "none" <=> run[r].status = "none"
  /\ pc[r] \in InFlightPc => Up /\ doc[r] = run[r]
  /\ pc[r] \in OpenPc => InFlightRun(r)
  /\ pc[r] \in {"finally", "release"} => Ended(r)
  /\ Up /\ pc[r] = "lost" => Ended(r)

PlaceInv == \A r \in Runs : PlaceOf(r)

StatusStays(r) == Ended(r) => run'[r].status = run[r].status

LEMMA SaveKeepsPlace ==
  ASSUME ExecutionTyping, MaxFaults = 0, NEW r \in Runs, NEW d, NEW next, NEW onError,
         PlaceOf(r), pc[r] \in InFlightPc, UNCHANGED hub, Save(r, d, next, onError),
         \/ d.status \in InFlightStatus /\ next \in OpenPc
         \/ d.status \in TerminalStatus /\ next \in {"finally", "release", "done"}
  PROVE  PlaceOf(r)'
  <1>1. run'[r] = d /\ doc'[r] = d /\ pc'[r] = next
    BY SaveSucceeds
  <1> QED BY <1>1
          DEF PlaceOf, OpenPc, InFlightPc, InFlightRun, InFlightStatus, TerminalStatus, Ended, Up

LEMMA OrchestrateKeepsPlace ==
  ASSUME ExecutionTyping, MaxFaults = 0, NEW r \in Runs, PlaceOf(r), Orchestrate(r)
  PROVE  PlaceOf(r)' /\ StatusStays(r)
  <1>1. pc[r] \in InFlightPc /\ UNCHANGED hub
    BY OrchestrateMoves DEF Orchestrate, Acquire, Refuse, WorkspaceFails, Prepare, StartSetup,
       EndSetup, StopBeforeTest, StartRunning, StartTest, Spawn, EndTest, SetResult, Catch,
       Finally, Release
  <1>2. doc[r] = run[r] /\ (pc[r] \in OpenPc => InFlightRun(r))
        /\ (pc[r] \in {"finally", "release"} => Ended(r))
    BY <1>1 DEF PlaceOf
  <1>3. pc[r] \in OpenPc => StatusStays(r)
    BY <1>2 DEF InFlightRun, Ended, StatusStays, InFlightStatus, TerminalStatus
  <1> USE DEF OpenPc, InFlightPc
  <1>4. CASE Acquire(r) \/ WorkspaceFails(r) \/ Release(r) \/ Spawn(r)
    <2>1. ~Fault
      BY DEF Fault, ExecutionTyping
    <2>2. /\ UNCHANGED <<run, doc>>
          /\ \/ pc[r] \in OpenPc /\ pc'[r] \in OpenPc
             \/ pc'[r] = "done"
      BY <1>4, <2>1, GotoFrame DEF Acquire, WorkspaceFails, Release, Spawn, Live
    <2> QED BY <1>1, <1>2, <2>2
            DEF PlaceOf, InFlightRun, InFlightStatus, TerminalStatus, Ended, Up, StatusStays
  <1>5. CASE Refuse(r)
    <2> DEFINE d == [doc[r] EXCEPT !.status = "failed", !.ended = TRUE]
    <2>1. Save(r, d, "done", "done") /\ d.status \in TerminalStatus
      BY <1>5, SavedFields DEF Refuse, TerminalStatus
    <2> HIDE DEF d
    <2>2. pc[r] \in OpenPc
      BY <1>5 DEF Refuse
    <2> QED BY <1>1, <1>3, <2>1, <2>2, SaveKeepsPlace
  <1>6. ASSUME NEW s, NEW next, NEW onError, SetStatus(r, s, next, onError),
               pc[r] \in OpenPc,
               \/ s \in InFlightStatus /\ next \in OpenPc
               \/ s \in TerminalStatus /\ next = "finally"
        PROVE  PlaceOf(r)' /\ StatusStays(r)
    <2> DEFINE d == [doc[r] EXCEPT !.status = s]
    <2>1. Save(r, d, next, onError) /\ d.status = s
      BY <1>6, SavedFields DEF SetStatus
    <2> HIDE DEF d
    <2> QED BY <1>1, <1>3, <1>6, <2>1, SaveKeepsPlace
  <1>7. ASSUME NEW s, NEW next, SetInstalling(r, s, next) \/ SetExecute(r, s, next),
               pc[r] \in OpenPc, next \in OpenPc
        PROVE  PlaceOf(r)' /\ StatusStays(r)
    <2>1. PICK d : d.status = doc[r].status /\ Save(r, d, next, "catch")
      BY <1>7, SavedFields DEF SetInstalling, SetExecute
    <2>2. d.status \in InFlightStatus
      BY <1>2, <1>7, <2>1 DEF InFlightRun
    <2> QED BY <1>1, <1>3, <1>7, <2>1, <2>2, SaveKeepsPlace
  <1>8. CASE Prepare(r) \/ StartRunning(r)
    BY <1>6, <1>8 DEF Prepare, StartRunning, PastSetup, InFlightStatus
  <1>9. CASE StartSetup(r) \/ EndSetup(r) \/ StopBeforeTest(r) \/ StartTest(r) \/ EndTest(r)
    BY <1>7, <1>9 DEF StartSetup, EndSetup, StopBeforeTest, StartTest, EndTest, PastSetup
  <1>10. CASE SetResult(r)
    <2>1. pc[r] \in OpenPc
      BY <1>10 DEF SetResult, TerminalStatus
    <2> QED BY <1>6, <1>10, <2>1 DEF SetResult
  <1>11. CASE Catch(r)
    BY <1>6, <1>11 DEF Catch, TerminalStatus
  <1>12. CASE Finally(r)
    <2> DEFINE d == [doc[r] EXCEPT !.ended = TRUE]
    <2>1. Save(r, d, "release", "done") /\ d.status = doc[r].status
      BY <1>12, SavedFields DEF Finally
    <2>2. doc[r].status \in TerminalStatus
      BY <1>2, <1>12 DEF Finally, Ended
    <2> HIDE DEF d
    <2>3. run'[r].status = run[r].status
      BY <1>2, <2>1, SaveSucceeds
    <2> QED BY <1>1, <2>1, <2>2, <2>3, SaveKeepsPlace DEF StatusStays
  <1> QED BY <1>4, <1>5, <1>8, <1>9, <1>10, <1>11, <1>12 DEF Orchestrate

LEMMA NextKeepsPlace ==
  ASSUME ExecutionTyping, OrphansAreExact, PlaceInv, MaxFaults = 0,
         [ExecutionNext]_executionVars
  PROVE  PlaceInv' /\ \A r \in Runs : StatusStays(r)
  <1> SUFFICES ASSUME NEW r \in Runs
               PROVE  PlaceOf(r)' /\ StatusStays(r)
    BY DEF PlaceInv
  <1>0. PlaceOf(r) /\ run[r].status \in InFlightStatus \cup TerminalStatus \cup {"none"}
    BY DEF PlaceInv, ExecutionTyping, RunDoc
  <1> USE DEF OpenPc, InFlightPc, InFlightStatus, TerminalStatus
  <1>1. CASE Orchestrate(r)
    BY <1>1, OrchestrateKeepsPlace DEF PlaceInv
  <1>2. CASE Trigger(r)
    BY <1>2, TriggerFacts DEF PlaceOf, InFlightRun, Ended, StatusStays
  <1>3. CASE Crash
    <2>1. /\ pc'[r] = IF pc[r] \in InFlightPc THEN "lost" ELSE pc[r]
          /\ run'[r] = run[r] /\ hub'.pc = "down"
      BY <1>3, CrashFacts
    <2> QED BY <1>0, <2>1 DEF PlaceOf, InFlightRun, Ended, Up, StatusStays
  <1>4. CASE SaveOrphan(r)
    <2>1. InFlightRun(r) /\ run'[r].status = "failed" /\ pc'[r] = pc[r] /\ ~Up
      BY <1>4, SaveOrphanFacts DEF SaveOrphan, OrphansAreExact
    <2> QED BY <1>0, <2>1 DEF PlaceOf, InFlightRun, Ended, StatusStays
  <1>5. CASE ~Crash /\ UNCHANGED <<run[r], doc[r], pc[r]>>
    <2>1. Up => Up'
      BY <1>5, UpStays
    <2>2. ~Up /\ InFlightRun(r) => ~Up'
      BY InFlightKeepsDown DEF Up, executionVars
    <2> QED BY <1>0, <1>5, <2>1, <2>2 DEF PlaceOf, InFlightRun, Ended, StatusStays
  <1> QED BY <1>1, <1>2, <1>3, <1>4, <1>5, StepOfRun

LEMMA PlaceInvHolds ==
  ASSUME MaxFaults = 0
  PROVE  ExecutionSpec => []PlaceInv
  <1>1. ExecutionInit => PlaceInv
    BY DEF ExecutionInit, NoRun, PlaceInv, PlaceOf, OpenPc, InFlightPc
  <1>2. /\ ExecutionTyping /\ OrphansAreExact /\ PlaceInv /\ [ExecutionNext]_executionVars
        => PlaceInv'
    BY NextKeepsPlace
  <1> QED BY <1>1, <1>2, ExecutionTypingHolds, OrphansHold, PTL DEF ExecutionSpec

\* Where no database call throws, a result is final: whatever is cancelled, however
\* often the hub crashes and recovers, with a workspace or without.
THEOREM ResultsAreFinal ==
  ASSUME MaxFaults = 0
  PROVE  ExecutionSpec => ResultIsFinal
  <1>1. ExecutionTyping /\ OrphansAreExact /\ PlaceInv /\ [ExecutionNext]_executionVars =>
          [\A r \in Runs : Ended(r) => run'[r].status = run[r].status]_executionVars
    BY NextKeepsPlace DEF StatusStays
  <1> QED BY <1>1, ExecutionTypingHolds, OrphansHold, PlaceInvHolds, PTL
          DEF ExecutionSpec, ResultIsFinal

\* Where the workspace can be written as well, an orchestration does not stop
\* before its run has a result.
DoneInv == \A r \in Runs : pc[r] = "done" => Ended(r)

LEMMA NextKeepsDone ==
  ASSUME ExecutionTyping, OrphansAreExact, PlaceInv, DoneInv, MaxFaults = 0, ~WorkspaceMayFail,
         [ExecutionNext]_executionVars
  PROVE  DoneInv'
  <1>1. ASSUME NEW r \in Runs, pc'[r] = "done", pc[r] # "done"
        PROVE  Ended(r)'
    <2>1. PICK q \in Runs : Orchestrate(q) \/ Trigger(q) \/ UNCHANGED pc \/ Crash
      BY <1>1 DEF ExecutionNext, Recover, FindOrphans, SaveOrphan, ReleaseOrphan, ChildExits,
         CancelReads, CancelActs, LabStep, LockRoute, ExpirySweep, Tick, runVars, executionVars
    <2>2. Orchestrate(r)
      <3>1. ~Crash /\ ~UNCHANGED pc
        BY <1>1 DEF Crash
      <3>2. ~Trigger(q)
        BY <1>1, GotoFrame DEF Trigger
      <3> QED BY <1>1, <2>1, <3>1, <3>2, OrchestrateFrame DEF Own
    <2>3. ~Fault
      BY DEF Fault, ExecutionTyping
    <2>4. Refuse(r) \/ Release(r)
      <3>1. ASSUME NEW d, NEW next, NEW onError, Save(r, d, next, onError)
            PROVE  next = "done"
        BY <1>1, <3>1, SaveSucceeds
      <3>2. ~Acquire(r) /\ ~Spawn(r) /\ ~WorkspaceFails(r)
        BY <1>1, <2>3, GotoFrame DEF Acquire, Spawn, Live, WorkspaceFails
      <3>3. ASSUME NEW s, NEW next, NEW onError,
                   \/ SetStatus(r, s, next, onError)
                   \/ SetInstalling(r, s, next) \/ SetExecute(r, s, next)
            PROVE  next = "done"
        BY <3>1, <3>3 DEF SetStatus, SetInstalling, SetExecute
      <3>4. ~Prepare(r) /\ ~StartRunning(r) /\ ~Catch(r) /\ ~SetResult(r)
        BY <3>3 DEF Prepare, StartRunning, Catch, SetResult
      <3>5. ~StartSetup(r) /\ ~EndSetup(r) /\ ~StopBeforeTest(r) /\ ~StartTest(r) /\ ~EndTest(r)
        BY <3>3 DEF StartSetup, EndSetup, StopBeforeTest, StartTest, EndTest
      <3>6. ~Finally(r)
        BY <3>1 DEF Finally
      <3> QED BY <2>2, <3>2, <3>4, <3>5, <3>6 DEF Orchestrate
    <2>5. CASE Refuse(r)
      <3> DEFINE d == [doc[r] EXCEPT !.status = "failed", !.ended = TRUE]
      <3>1. Save(r, d, "done", "done") /\ d.status = "failed"
        BY <2>5, SavedFields DEF Refuse
      <3> HIDE DEF d
      <3> QED BY <3>1, SaveSucceeds DEF Ended, TerminalStatus
    <2>6. CASE Release(r)
      BY <2>6 DEF Release, PlaceInv, PlaceOf, Ended
    <2> QED BY <2>4, <2>5, <2>6
  <1>2. ASSUME NEW r \in Runs, pc[r] = "done"
        PROVE  Ended(r)'
    <2>1. Ended(r)
      BY <1>2 DEF DoneInv
    <2>2. StatusStays(r)
      BY NextKeepsPlace
    <2> QED BY <2>1, <2>2 DEF Ended, StatusStays
  <1> QED BY <1>1, <1>2 DEF DoneInv

\* After a restart, and always while the hub serves requests, whatever reads as
\* queued, preparing or running has an orchestration: a run the crash cut off has
\* been failed by then, one refused or finished has its result.
THEOREM NoRunIsAZombie ==
  ASSUME MaxFaults = 0, ~WorkspaceMayFail
  PROVE  ExecutionSpec => []NoZombieRun
  <1>1. ExecutionInit => DoneInv
    BY DEF ExecutionInit, DoneInv
  <1>2. /\ ExecutionTyping /\ OrphansAreExact /\ PlaceInv /\ DoneInv
        /\ [ExecutionNext]_executionVars
        => DoneInv'
    BY NextKeepsDone
  <1>3. ExecutionTyping /\ PlaceInv /\ DoneInv => NoZombieRun
    BY DEF ExecutionTyping, Pc, PlaceInv, PlaceOf, DoneInv, NoZombieRun, Ended, InFlightStatus,
       TerminalStatus
  <1> QED BY <1>1, <1>2, <1>3, ExecutionTypingHolds, OrphansHold, PlaceInvHolds, PTL
          DEF ExecutionSpec


=============================================================================
