---------------------------- MODULE BuildLibrary ----------------------------
(* Builds of the apps under test: a fetch downloads an artefact, validates it *)
(* and only then calls it ready; the hourly garbage collection deletes the    *)
(* artefacts of old builds that no run refers to. Files and documents are two *)
(* stores that are never written together, and the hub may stop in between.   *)
EXTENDS Naturals, FiniteSets

CONSTANTS
    Builds,        \* ids of builds
    Groups,        \* pairs of project and platform
    GroupOf,       \* the group of a build
    KeepPerGroup,  \* build.retention.keepPerGroup
    AgeRule,       \* whether build.retention.olderThanDays is set
    Sweeps,        \* sweeps that may be under way at the same time
    MaxFaults      \* bound on failing saves, failing deletions and restarts of the hub

ASSUME LibraryAssumption ==
    /\ IsFiniteSet(Builds)
    /\ GroupOf \in [Builds -> Groups]
    /\ KeepPerGroup \in Nat
    /\ AgeRule \in BOOLEAN
    /\ MaxFaults \in Nat

VARIABLES
    build,      \* build[b]: the document: status and fetchedAt
    file,       \* file[b]: what BUILDS_DIR holds under the id of b
    fetch,      \* fetch[b]: what triggerBuildFetch does next
    aged,       \* builds fetched longer than olderThanDays ago
    sweep,      \* sweep[s]: position and candidates of one runBuildGc
    referenced, \* builds some ExecutionRun names in its buildId
    faults,
    everReady   \* history: builds that read as ready at some time

vars == <<build, file, fetch, aged, sweep, referenced, faults, everReady>>

Statuses == {"none", "downloading", "validating", "corrupt", "ready", "purged"}
FetchSteps == {"no", "download", "saveValidating", "validate", "saveReady",
               "saveCorrupt", "remove"}
BuildDoc == [status: Statuses, fetchedAt: Nat]
SweepState == [at: {"idle", "next", "delete", "save"}, todo: SUBSET Builds, on: SUBSET Builds]

IdleSweep == [at |-> "idle", todo |-> {}, on |-> {}]

\* The loop over the candidates: the next one, or the end.
GoOn(todo) == IF todo = {} THEN IdleSweep ELSE [at |-> "next", todo |-> todo, on |-> {}]

LibraryTypeOK ==
    /\ build \in [Builds -> BuildDoc]
    /\ file \in [Builds -> {"none", "part", "whole"}]
    /\ fetch \in [Builds -> FetchSteps]
    /\ aged \subseteq Builds
    /\ sweep \in [Sweeps -> SweepState]
    /\ referenced \subseteq Builds
    /\ faults \in 0..MaxFaults
    /\ everReady \subseteq Builds

Init ==
    /\ build = [b \in Builds |-> [status |-> "none", fetchedAt |-> 0]]
    /\ file = [b \in Builds |-> "none"]
    /\ fetch = [b \in Builds |-> "no"]
    /\ aged = {}
    /\ sweep = [s \in Sweeps |-> IdleSweep]
    /\ referenced = {}
    /\ faults = 0
    /\ everReady = {}

Fault == faults < MaxFaults /\ faults' = faults + 1

\* build.save() by the fetch of b: it goes on at next; or the save throws, applied
\* or not, and the fetch goes on at onError.
Save(b, status, next, onError) ==
    LET saved == [build EXCEPT ![b].status = status]
    IN  \/ build' = saved /\ fetch' = [fetch EXCEPT ![b] = next] /\ UNCHANGED faults
        \/ Fault /\ build' \in {build, saved} /\ fetch' = [fetch EXCEPT ![b] = onError]

------------------------------------------------------------------------------
(* Fetching. The route has checked the body (an artifactUrl, for provider     *)
(* url) before the document is created. "part" stands for whatever an         *)
(* unfinished download has put on disk, which may be nothing yet.             *)

Create(b) ==
    /\ build[b].status = "none"
    /\ build' = [build EXCEPT ![b].status = "downloading"]
    /\ fetch' = [fetch EXCEPT ![b] = "download"]
    /\ file' = [file EXCEPT ![b] = "part"]
    /\ UNCHANGED <<aged, sweep, referenced, faults, everReady>>

\* The body has arrived, and it is not empty.
Downloaded(b) ==
    /\ fetch[b] = "download"
    /\ file' = [file EXCEPT ![b] = "whole"]
    /\ fetch' = [fetch EXCEPT ![b] = "saveValidating"]
    /\ UNCHANGED <<build, aged, sweep, referenced, faults, everReady>>

\* Variant: the test for an artefact of 0 bytes is missing.
DownloadFailsUnseen(b) ==
    /\ fetch[b] = "download"
    /\ fetch' = [fetch EXCEPT ![b] = "saveValidating"]
    /\ UNCHANGED <<build, file, aged, sweep, referenced, faults, everReady>>

\* No such provider, no answer within a minute, a broken or an empty body. What
\* has been written so far stays on disk until RemoveCorrupt.
DownloadFails(b) ==
    /\ fetch[b] = "download"
    /\ fetch' = [fetch EXCEPT ![b] = "saveCorrupt"]
    /\ UNCHANGED <<build, file, aged, sweep, referenced, faults, everReady>>

SaveValidating(b) ==
    /\ fetch[b] = "saveValidating"
    /\ Save(b, "validating", "validate", "saveCorrupt")
    /\ UNCHANGED <<file, aged, sweep, referenced, everReady>>

\* Checksum and size of what is on disk; a file that cannot be read fails.
Validate(b) ==
    /\ fetch[b] = "validate"
    /\ \/ /\ fetch' = [fetch EXCEPT ![b] = "saveReady"]
          /\ build' = [build EXCEPT ![b].fetchedAt =
                         1 + Cardinality({c \in Builds : build[c].fetchedAt > 0})]
          /\ UNCHANGED faults
       \/ Fault /\ fetch' = [fetch EXCEPT ![b] = "saveCorrupt"] /\ UNCHANGED build
    /\ UNCHANGED <<file, aged, sweep, referenced, everReady>>

\* Where this save throws the catch block takes the build back, also when sweeps
\* have found it ready meanwhile.
SaveReady(b) ==
    /\ fetch[b] = "saveReady"
    /\ Save(b, "ready", "no", "saveCorrupt")
    /\ everReady' = IF build'[b].status = "ready" THEN everReady \cup {b} ELSE everReady
    /\ UNCHANGED <<file, aged, sweep, referenced>>

\* A save that throws here leaves the file as it is.
SaveCorrupt(b) ==
    /\ fetch[b] = "saveCorrupt"
    /\ Save(b, "corrupt", "remove", "no")
    /\ UNCHANGED <<file, aged, sweep, referenced, everReady>>

RemoveCorrupt(b) ==
    /\ fetch[b] = "remove"
    /\ file' = [file EXCEPT ![b] = "none"]
    /\ fetch' = [fetch EXCEPT ![b] = "no"]
    /\ UNCHANGED <<build, aged, sweep, referenced, faults, everReady>>

FetchStep(b) ==
    \/ Downloaded(b) \/ DownloadFails(b) \/ SaveValidating(b) \/ Validate(b)
    \/ SaveReady(b) \/ SaveCorrupt(b) \/ RemoveCorrupt(b)

\* Nothing asks for the status of the build a run names.
ReferToBuild(b) ==
    /\ build[b].status # "none" /\ b \notin referenced
    /\ referenced' = referenced \cup {b}
    /\ UNCHANGED <<build, file, fetch, aged, sweep, faults, everReady>>

\* Builds cross the age of olderThanDays in the order of their fetchedAt.
Age(b) ==
    /\ AgeRule /\ b \notin aged /\ build[b].status = "ready"
    /\ \A c \in Builds \ aged : build[c].status = "ready" =>
                                  build[b].fetchedAt <= build[c].fetchedAt
    /\ aged' = aged \cup {b}
    /\ UNCHANGED <<build, file, fetch, sweep, referenced, faults, everReady>>

------------------------------------------------------------------------------
(* Garbage collection.                                                        *)

Ready == {b \in Builds : build[b].status = "ready"}

NewerIn(b, S) ==
    {c \in S : GroupOf[c] = GroupOf[b] /\ build[c].fetchedAt > build[b].fetchedAt}

\* Variant: the sort is by age instead of newest first.
OldestAreKept(S) == {b \in S : Cardinality({c \in S : b \in NewerIn(c, S)}) >= KeepPerGroup}

\* Whatever ranks beyond KeepPerGroup in its group and is old enough.
Candidates(S) ==
    {b \in S : Cardinality(NewerIn(b, S)) >= KeepPerGroup /\ (AgeRule => b \in aged)}

\* Variant: builds whose file is gone are thought to be dealt with.
FindReadyOnDisk(s) ==
    /\ sweep[s].at = "idle"
    /\ sweep' = [sweep EXCEPT ![s] = GoOn({b \in Candidates(Ready) : file[b] # "none"})]
    /\ UNCHANGED <<build, file, fetch, aged, referenced, faults, everReady>>

FindReady(s) ==
    /\ sweep[s].at = "idle" /\ Candidates(Ready) # {}
    /\ sweep' = [sweep EXCEPT ![s] = GoOn(Candidates(Ready))]
    /\ UNCHANGED <<build, file, fetch, aged, referenced, faults, everReady>>

\* Variant: the references are not asked for.
CheckNoReference(s) ==
    /\ sweep[s].at = "next"
    /\ \E b \in sweep[s].todo :
         sweep' = [sweep EXCEPT ![s] = [at |-> "delete", todo |-> @.todo \ {b}, on |-> {b}]]
    /\ UNCHANGED <<build, file, fetch, aged, referenced, faults, everReady>>

\* Does a run refer to the next candidate? (They are taken in any order.)
CheckReference(s) ==
    /\ sweep[s].at = "next"
    /\ \E b \in sweep[s].todo :
         sweep' = [sweep EXCEPT ![s] =
                     IF b \in referenced THEN GoOn(@.todo \ {b})
                     ELSE [at |-> "delete", todo |-> @.todo \ {b}, on |-> {b}]]
    /\ UNCHANGED <<build, file, fetch, aged, referenced, faults, everReady>>

\* A deletion that throws leaves the document alone, for the next sweep.
DeleteFile(s) ==
    /\ sweep[s].at = "delete"
    /\ \/ /\ file' = [b \in Builds |-> IF b \in sweep[s].on THEN "none" ELSE file[b]]
          /\ sweep' = [sweep EXCEPT ![s].at = "save"]
          /\ UNCHANGED faults
       \/ /\ Fault
          /\ sweep' = [sweep EXCEPT ![s] = GoOn(@.todo)]
          /\ UNCHANGED file
    /\ UNCHANGED <<build, fetch, aged, referenced, everReady>>

\* A save that throws ends the whole sweep.
SavePurged(s) ==
    /\ sweep[s].at = "save"
    /\ LET saved == [b \in Builds |-> IF b \in sweep[s].on
                                       THEN [build[b] EXCEPT !.status = "purged"] ELSE build[b]]
       IN  \/ build' = saved /\ sweep' = [sweep EXCEPT ![s] = GoOn(@.todo)] /\ UNCHANGED faults
           \/ Fault /\ build' \in {build, saved} /\ sweep' = [sweep EXCEPT ![s] = IdleSweep]
    /\ UNCHANGED <<file, fetch, aged, referenced, everReady>>

SweepStep(s) == FindReady(s) \/ CheckReference(s) \/ DeleteFile(s) \/ SavePurged(s)

\* The hub stops and starts again: fetches and sweeps are forgotten.
Crash ==
    /\ Fault
    /\ fetch' = [b \in Builds |-> "no"]
    /\ sweep' = [s \in Sweeps |-> IdleSweep]
    /\ UNCHANGED <<build, file, aged, referenced, everReady>>

Next ==
    \/ \E b \in Builds : Create(b) \/ FetchStep(b) \/ ReferToBuild(b) \/ Age(b)
    \/ \E s \in Sweeps : SweepStep(s)
    \/ Crash

LibrarySpec == Init /\ [][Next]_vars

\* The interval of server.ts starts sweeps for as long as the hub lives, a sweep
\* goes on after each await, and builds grow old.
LibraryFairSpec ==
    /\ LibrarySpec
    /\ \A s \in Sweeps : WF_vars(SweepStep(s))
    /\ \A b \in Builds : WF_vars(Age(b))

------------------------------------------------------------------------------
(* Properties.                                                                *)

\* The KeepPerGroup newest builds of a group that ever read as ready are ready and
\* on disk, whatever overlapping sweeps made of older lists, and whatever came
\* late with an earlier fetchedAt (builds.service.ts:98-99). The one way out is
\* that of a build's own fetch: its save as ready is applied and yet throws, and
\* the catch block makes it corrupt (lines 72-77). It counts among the newest all
\* the same, since a sweep may have counted it.
NewestAreKept ==
    \A b \in everReady :
       Cardinality(NewerIn(b, everReady)) < KeepPerGroup /\ build[b].status # "corrupt" =>
          build[b].status = "ready" /\ file[b] = "whole"

\* A ready build was downloaded as a whole, and its file is missing only if a
\* sweep took it; a purged one has left nothing behind (lines 32 and 105-107).
StatusMatchesFile ==
    \A b \in Builds :
       /\ build[b].status = "ready" => file[b] # "part"
       /\ build[b].status = "purged" => file[b] = "none"

Doomed(b) == \E s \in Sweeps : sweep[s].at = "delete" /\ b \in sweep[s].on

\* A build on disk that a run names, whose fetch is over and that no sweep is about
\* to delete.
Secured(b) == b \in Ready \cap referenced /\ file[b] = "whole" /\ fetch[b] = "no" /\ ~Doomed(b)

\* A ready build that a run refers to keeps its artefact for good once its fetch is
\* over, unless a sweep had asked for references before the run came and had not
\* deleted it yet (line 103).
ReferencedStays == [][\A b \in Builds : Secured(b) => Secured(b)']_vars

\* A ready build whose file a broken-off sweep has deleted does not read as ready for
\* good: a later sweep repairs its document, unless a run has been created for it
\* (108-110).
DanglingIsRepaired ==
    \A b \in Builds : (build[b].status = "ready" /\ file[b] = "none")
                         ~> (build[b].status # "ready" \/ b \in referenced)
=============================================================================
