---------------------------- MODULE RunHistory ----------------------------
(***************************************************************************)
(* ExecutionRuns with what its properties have to remember: which runs     *)
(* lost their lock while they were under way, which were cut off before    *)
(* they could give it back, and which met a database call that threw. No   *)
(* action depends on it.                                                   *)
(***************************************************************************)
EXTENDS ExecutionRuns

VARIABLES
  deprived,   \* runs whose lock was gone before they released it themselves
  cutOff,     \* runs whose orchestration, or recovery, ended before its release
  thrown      \* runs one of whose database calls threw

historyVars == <<executionVars, deprived, cutOff, thrown>>

HoldsLock(r) == \E d \in Devices : HeldBySession(d, r)
Loses(r) == HoldsLock(r) /\ ~HoldsLock(r)'

\* The step that ends r's orchestration is a call that throws, or a workspace
\* that cannot be made.
CutShort(r) ==
  /\ pc[r] \in InFlightPc /\ pc'[r] = "done"
  /\ faults' # faults \/ WorkspaceFails(r)

\* The hub crashes after a result of r is saved, which recovery then does not
\* look for, and before its lock is released.
CrashedLate(r) == crashes' # crashes /\ Ended(r) /\ pc[r] # "done"

HistoryInit == ExecutionInit /\ deprived = {} /\ cutOff = {} /\ thrown = {}

HistoryNext ==
  /\ ExecutionNext
  /\ deprived' = deprived \cup {r \in Runs : Loses(r) /\ pc'[r] \in InFlightPc}
  /\ cutOff' = cutOff \cup {r \in Runs : CutShort(r) \/ CrashedLate(r)}
  /\ thrown' = thrown \cup {r \in Runs : faults' # faults /\ pc'[r] # pc[r]}

HistorySpec == HistoryInit /\ [][HistoryNext]_historyVars
HistoryFairSpec == HistorySpec /\ HubFairness /\ ChildrenExit
-----------------------------------------------------------------------------
(* Properties *)

\* No other machine has a device of d's name (else its run may lock the twin).
Twinless(d) == \A e \in Devices : UdidOf(e) = UdidOf(d) => e = d

\* A lock that was acquired for a run is held only while that run's
\* orchestration is under way: no end of a run, by any path, with any expired,
\* forced or repeated unlock, cancel, crash or recovery in between, leaves the
\* device locked behind it. The ways out are those the code has: a call that
\* throws, or a workspace that cannot be made, ends the orchestration before its
\* release (execution.service.ts:91, 154, 206-211), and a crash after the result
\* was saved leaves a lock that recovery does not look for (252).
RunLockHasItsRun ==
  Up => \A d \in Devices, r \in Runs :
          Twinless(d) /\ HeldBySession(d, r) => pc[r] \in InFlightPc \/ r \in cutOff

\* Two runs drive the same device at the same time only after one of them has
\* lost its lock to an expiry, an unlock, a sync or another run's release, or to a
\* crash of the hub that left its command running.
OneRunPerDevice ==
  \A q, r \in Runs :
    /\ q # r /\ run[q].target = run[r].target /\ Twinless(run[r].target)
    /\ child[q] \in Live /\ child[r] \in Live
    => {q, r} \cap deprived # {} \/ "lost" \in {pc[q], pc[r]}

\* Releasing the device at its end, a run takes the lock of another session only
\* if its own was taken before: neither a refused run, nor one that failed,
\* was cancelled or met an error does.
ReleasesOnlyItsOwn ==
  [][\A r \in Runs : Release(r) /\ r \notin deprived /\ Twinless(run[r].target) =>
       \A d \in Devices, s \in Sessions \ {r} :
         HeldBySession(d, s) => HeldBySession(d, s)']_historyVars

\* A run is passed only after every stage it had was done; and a run that was
\* cancelled or failed never did the test to its end, unless one of its calls
\* threw or the hub crashed between the save of the stage and that of the status.
ResultMatchesStages ==
  \A r \in Runs :
    /\ run[r].status = "passed" =>
         run[r].execute = "done" /\ run[r].installing \in {"done", "skipped"}
    /\ run[r].status \in {"failed", "cancelled"} =>
         run[r].execute # "done" \/ r \in thrown \/ pc[r] = "lost"
=============================================================================
