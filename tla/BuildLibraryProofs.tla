--------------------------- MODULE BuildLibraryProofs ---------------------------
(* Proofs about the builds, for any number of builds, groups and overlapping  *)
(* sweeps, any retention, and any failures and restarts.                      *)
EXTENDS BuildLibrary, FiniteSetTheorems, TLAPS

LEMMA InitTyping == Init => LibraryTypeOK
  BY LibraryAssumption DEF Init, LibraryTypeOK, BuildDoc, Statuses, FetchSteps,
                           IdleSweep, SweepState

LEMMA FaultType ==
  ASSUME LibraryTypeOK, Fault
  PROVE  faults' \in 0..MaxFaults
  BY LibraryAssumption DEF LibraryTypeOK, Fault

LEMMA SaveTyping ==
  ASSUME LibraryTypeOK, NEW b \in Builds, NEW status \in Statuses,
         NEW next \in FetchSteps, NEW onError \in FetchSteps, Save(b, status, next, onError)
  PROVE  /\ build' \in [Builds -> BuildDoc]
         /\ fetch' \in [Builds -> FetchSteps]
         /\ faults' \in 0..MaxFaults
  <1>1. [build EXCEPT ![b].status = status] \in [Builds -> BuildDoc]
    BY DEF LibraryTypeOK, BuildDoc
  <1>2. build' \in [Builds -> BuildDoc] /\ fetch' \in [Builds -> FetchSteps]
    BY <1>1 DEF Save, LibraryTypeOK
  <1>3. faults' \in 0..MaxFaults
    BY FaultType DEF Save, LibraryTypeOK
  <1> QED BY <1>2, <1>3

LEMMA FetchTyping ==
  ASSUME LibraryTypeOK, NEW b \in Builds, Create(b) \/ FetchStep(b)
  PROVE  LibraryTypeOK'
  <1>1. CASE Create(b) \/ Downloaded(b) \/ DownloadFails(b) \/ RemoveCorrupt(b)
    <2>1. CASE Create(b)
      BY <2>1 DEF LibraryTypeOK, BuildDoc, Statuses, FetchSteps, Create
    <2>2. CASE Downloaded(b) \/ DownloadFails(b) \/ RemoveCorrupt(b)
      BY <2>2 DEF LibraryTypeOK, FetchSteps, Downloaded, DownloadFails, RemoveCorrupt
    <2> QED BY <1>1, <2>1, <2>2
  <1>2. CASE SaveValidating(b) \/ SaveReady(b) \/ SaveCorrupt(b)
    BY <1>2, SaveTyping DEF LibraryTypeOK, Statuses, FetchSteps, SaveValidating, SaveReady,
                            SaveCorrupt
  <1>3. CASE Validate(b)
    <2> DEFINE dated == {c \in Builds : build[c].fetchedAt > 0}
               now == 1 + Cardinality(dated)
    <2>1. IsFiniteSet(dated)
      BY LibraryAssumption, FS_Subset
    <2>2. now \in Nat
      BY <2>1, FS_CardinalityType
    <2>3. build' = [build EXCEPT ![b].fetchedAt = now] \/ build' = build
      BY <1>3 DEF Validate
    <2> HIDE DEF now
    <2>4. build' \in [Builds -> BuildDoc]
      BY <2>2, <2>3 DEF LibraryTypeOK, BuildDoc
    <2>5. faults' \in 0..MaxFaults /\ fetch' \in [Builds -> FetchSteps]
      BY <1>3, FaultType DEF Validate, LibraryTypeOK, FetchSteps
    <2> QED BY <1>3, <2>4, <2>5 DEF Validate, LibraryTypeOK
  <1> QED BY <1>1, <1>2, <1>3 DEF FetchStep

LEMMA GoOnType ==
  ASSUME NEW todo \in SUBSET Builds
  PROVE  GoOn(todo) \in SweepState
  BY DEF GoOn, IdleSweep, SweepState

LEMMA SweepTyping ==
  ASSUME LibraryTypeOK, NEW s \in Sweeps, SweepStep(s)
  PROVE  LibraryTypeOK'
  <1>1. sweep[s].todo \in SUBSET Builds /\ sweep[s].on \in SUBSET Builds
    BY DEF LibraryTypeOK, SweepState
  <1>2. CASE FindReady(s)
    <2>1. Candidates(Ready) \in SUBSET Builds
      BY DEF Candidates, Ready
    <2> QED BY <1>2, <2>1, GoOnType DEF FindReady, LibraryTypeOK
  <1>3. CASE CheckReference(s)
    <2>1. PICK b \in sweep[s].todo :
            sweep' = [sweep EXCEPT ![s] =
                        IF b \in referenced THEN GoOn(sweep[s].todo \ {b})
                        ELSE [at |-> "delete", todo |-> sweep[s].todo \ {b}, on |-> {b}]]
      BY <1>3 DEF CheckReference
    <2>2. GoOn(sweep[s].todo \ {b}) \in SweepState
      BY <1>1, GoOnType
    <2>3. [at |-> "delete", todo |-> sweep[s].todo \ {b}, on |-> {b}] \in SweepState
      BY <1>1 DEF SweepState
    <2>4. sweep' \in [Sweeps -> SweepState]
      BY <2>1, <2>2, <2>3 DEF LibraryTypeOK
    <2> QED BY <1>3, <2>4 DEF CheckReference, LibraryTypeOK
  <1>4. CASE DeleteFile(s)
    <2>1. sweep' \in [Sweeps -> SweepState]
      BY <1>1, <1>4, GoOnType DEF DeleteFile, LibraryTypeOK, SweepState
    <2>2. file' \in [Builds -> {"none", "part", "whole"}]
      BY <1>4 DEF DeleteFile, LibraryTypeOK
    <2> QED BY <1>4, <2>1, <2>2, FaultType DEF DeleteFile, LibraryTypeOK
  <1>5. CASE SavePurged(s)
    <2>1. sweep' \in [Sweeps -> SweepState]
      BY <1>1, <1>5, GoOnType DEF SavePurged, LibraryTypeOK, IdleSweep, SweepState
    <2> DEFINE saved == [b \in Builds |-> IF b \in sweep[s].on
                                          THEN [build[b] EXCEPT !.status = "purged"]
                                          ELSE build[b]]
    <2>2. build' \in {build, saved} /\ saved \in [Builds -> BuildDoc]
      BY <1>5 DEF SavePurged, LibraryTypeOK, BuildDoc, Statuses
    <2> HIDE DEF saved
    <2> QED BY <1>5, <2>1, <2>2, FaultType DEF SavePurged, LibraryTypeOK
  <1> QED BY <1>2, <1>3, <1>4, <1>5 DEF SweepStep

LEMMA NextTyping ==
  ASSUME LibraryTypeOK, [Next]_vars
  PROVE  LibraryTypeOK'
  <1>1. ASSUME NEW b \in Builds, ReferToBuild(b) \/ Age(b)
        PROVE  LibraryTypeOK'
    BY <1>1 DEF ReferToBuild, Age, LibraryTypeOK
  <1>2. CASE Crash
    BY <1>2, FaultType DEF Crash, LibraryTypeOK, FetchSteps, IdleSweep, SweepState
  <1>3. CASE UNCHANGED vars
    BY <1>3 DEF vars, LibraryTypeOK
  <1> QED BY <1>1, <1>2, <1>3, FetchTyping, SweepTyping DEF Next

\* Documents, files, fetches and sweeps keep their types.
THEOREM LibraryTypeCorrect == LibrarySpec => []LibraryTypeOK
  BY InitTyping, NextTyping, PTL DEF LibrarySpec

------------------------------------------------------------------------------
(* Documents and files.                                                       *)

\* KeepPerGroup builds of the group have read as ready with a later fetchedAt.
Superseded(b) == Cardinality(NewerIn(b, everReady)) >= KeepPerGroup

\* Until its save as ready a build never read as ready, and what has been downloaded
\* of it is on disk; when its file is about to be removed it does not read as ready.
FetchIsYoung ==
  \A b \in Builds :
     /\ fetch[b] \notin {"no", "saveCorrupt", "remove"} => b \notin everReady
     /\ fetch[b] \in {"saveValidating", "validate", "saveReady"} => file[b] = "whole"
     /\ fetch[b] = "remove" => build[b].status # "ready"

\* What read as ready is ready, purged, or taken back by its own fetch; only then, or
\* once superseded, has it lost its file, and all purged ones have.
FilesOfReady ==
  /\ \A b \in Builds : build[b].status \in {"ready", "purged"} => b \in everReady
  /\ \A b \in everReady :
       /\ build[b].status \in {"ready", "purged", "corrupt"}
       /\ file[b] # "part"
       /\ build[b].status = "purged" => file[b] = "none"
       /\ file[b] = "none" => Superseded(b) \/ build[b].status = "corrupt"

\* Sweeps take superseded builds only, and purge what they have deleted.
SweepsTakeOld ==
  \A s \in Sweeps :
     /\ \A b \in sweep[s].todo \cup sweep[s].on : b \in everReady /\ Superseded(b)
     /\ sweep[s].at = "save" => \A b \in sweep[s].on : file[b] = "none"

LibInv == LibraryTypeOK /\ FetchIsYoung /\ FilesOfReady /\ SweepsTakeOld

LEMMA InitLibrary == Init => LibInv
  BY InitTyping DEF Init, LibInv, FetchIsYoung, FilesOfReady, SweepsTakeOld, IdleSweep

LEMMA NewerIsFinite ==
  ASSUME NEW b, NEW S \in SUBSET Builds
  PROVE  IsFiniteSet(NewerIn(b, S)) /\ Cardinality(NewerIn(b, S)) \in Nat
  <1>1. NewerIn(b, S) \in SUBSET Builds
    BY DEF NewerIn
  <1>2. IsFiniteSet(NewerIn(b, S))
    BY <1>1, LibraryAssumption, FS_Subset
  <1> QED BY <1>2, FS_CardinalityType

\* A candidate of the garbage collection is superseded.
LEMMA CandidatesAreOld ==
  ASSUME LibraryTypeOK, FilesOfReady, NEW b \in Candidates(Ready)
  PROVE  b \in everReady /\ Superseded(b)
  <1>1. b \in everReady /\ Ready \subseteq everReady /\ everReady \in SUBSET Builds
    BY DEF Candidates, Ready, FilesOfReady, LibraryTypeOK
  <1>2. NewerIn(b, Ready) \in SUBSET NewerIn(b, everReady)
    BY <1>1 DEF NewerIn
  <1>3. Cardinality(NewerIn(b, Ready)) <= Cardinality(NewerIn(b, everReady))
    BY <1>1, <1>2, NewerIsFinite, FS_Subset
  <1>4. /\ Cardinality(NewerIn(b, Ready)) >= KeepPerGroup
        /\ Cardinality(NewerIn(b, Ready)) \in Nat
        /\ Cardinality(NewerIn(b, everReady)) \in Nat
    BY <1>1, NewerIsFinite DEF Candidates, Ready
  <1> QED BY <1>1, <1>3, <1>4, LibraryAssumption DEF Superseded

\* What read as ready keeps the fetchedAt it had.
EverReadyStays ==
  \A b \in everReady : b \in everReady' /\ build'[b].fetchedAt = build[b].fetchedAt

LEMMA SupersededStays ==
  ASSUME LibraryTypeOK, LibraryTypeOK', EverReadyStays, NEW b \in everReady, Superseded(b)
  PROVE  b \in everReady' /\ Superseded(b)'
  <1>1. everReady \in SUBSET Builds /\ everReady' \in SUBSET Builds
    BY DEF LibraryTypeOK
  <1>2. NewerIn(b, everReady) \in SUBSET NewerIn(b, everReady)'
    BY <1>1 DEF NewerIn, EverReadyStays
  <1> DEFINE newer == NewerIn(b, everReady)'
  <1>3. newer \in SUBSET Builds
    BY <1>1 DEF NewerIn
  <1>4. IsFiniteSet(newer) /\ Cardinality(newer) \in Nat
    BY <1>3, LibraryAssumption, FS_Subset, FS_CardinalityType
  <1>5. Cardinality(NewerIn(b, everReady)) <= Cardinality(newer)
    BY <1>2, <1>4, FS_Subset
  <1>6. Cardinality(NewerIn(b, everReady)) \in Nat
    BY <1>1, NewerIsFinite
  <1>7. Cardinality(newer) >= KeepPerGroup
    BY <1>4, <1>5, <1>6, LibraryAssumption DEF Superseded
  <1> QED BY <1>7 DEF Superseded, EverReadyStays

\* The step of a sweep that saves what it has purged.
LEMMA PurgeFacts ==
  ASSUME LibraryTypeOK, NEW s \in Sweeps, SavePurged(s), NEW b \in Builds
  PROVE  /\ build'[b].fetchedAt = build[b].fetchedAt
         /\ \/ build'[b].status = build[b].status
            \/ b \in sweep[s].on /\ build'[b].status = "purged"
  BY DEF SavePurged, LibraryTypeOK, BuildDoc

\* A save of the fetch of b.
LEMMA SaveFacts ==
  ASSUME LibraryTypeOK, NEW b \in Builds, NEW status \in Statuses, NEW next, NEW onError,
         Save(b, status, next, onError)
  PROVE  /\ \A c \in Builds \ {b} : UNCHANGED <<build[c], fetch[c]>>
         /\ build'[b].fetchedAt = build[b].fetchedAt
         /\ \/ build'[b].status = status /\ fetch'[b] = next
            \/ build'[b].status \in {build[b].status, status} /\ fetch'[b] = onError
  <1>1. /\ build' \in {build, [build EXCEPT ![b].status = status]}
        /\ \/ /\ build' = [build EXCEPT ![b].status = status]
              /\ fetch' = [fetch EXCEPT ![b] = next]
           \/ fetch' = [fetch EXCEPT ![b] = onError]
    BY DEF Save
  <1> QED BY <1>1 DEF LibraryTypeOK, BuildDoc

\* One fetch does not touch another's build.
LEMMA FetchFrame ==
  ASSUME LibraryTypeOK, NEW b \in Builds, Create(b) \/ FetchStep(b), NEW c \in Builds \ {b}
  PROVE  /\ UNCHANGED <<build[c], file[c], fetch[c], sweep>>
         /\ c \in everReady' <=> c \in everReady
  <1>1. CASE SaveValidating(b) \/ SaveReady(b) \/ SaveCorrupt(b)
    BY <1>1, SaveFacts DEF SaveValidating, SaveReady, SaveCorrupt, Statuses
  <1>2. CASE Create(b) \/ Downloaded(b) \/ DownloadFails(b) \/ Validate(b) \/ RemoveCorrupt(b)
    BY <1>2 DEF LibraryTypeOK, Create, Downloaded, DownloadFails, Validate, RemoveCorrupt
  <1> QED BY <1>1, <1>2 DEF FetchStep

LEMMA NextKeepsReady ==
  ASSUME LibInv, [Next]_vars
  PROVE  EverReadyStays
  <1>0. everReady \subseteq Builds
    BY DEF LibInv, LibraryTypeOK
  <1>1. ASSUME NEW b \in Builds, Create(b) \/ FetchStep(b)
        PROVE  EverReadyStays
    <2>1. b \in everReady => b \in everReady' /\ build'[b].fetchedAt = build[b].fetchedAt
      <3>1. CASE SaveValidating(b) \/ SaveReady(b) \/ SaveCorrupt(b)
        BY <3>1, SaveFacts DEF SaveValidating, SaveReady, SaveCorrupt, Statuses, LibInv
      <3>2. CASE Create(b) \/ Validate(b)
        BY <3>2 DEF Create, Validate, LibInv, FetchIsYoung, FilesOfReady
      <3>3. CASE Downloaded(b) \/ DownloadFails(b) \/ RemoveCorrupt(b)
        BY <3>3 DEF Downloaded, DownloadFails, RemoveCorrupt
      <3> QED BY <1>1, <3>1, <3>2, <3>3 DEF FetchStep
    <2> QED BY <1>0, <1>1, <2>1, FetchFrame DEF EverReadyStays, LibInv
  <1>2. ASSUME NEW s \in Sweeps, SavePurged(s)
        PROVE  EverReadyStays
    <2>1. everReady' = everReady
      BY <1>2 DEF SavePurged
    <2> QED BY <1>0, <1>2, <2>1, PurgeFacts DEF EverReadyStays, LibInv
  <1>3. CASE UNCHANGED <<build, everReady>>
    BY <1>3 DEF EverReadyStays
  <1> QED BY <1>1, <1>2, <1>3 DEF Next, vars, ReferToBuild, Age, SweepStep,
             FindReady, CheckReference, DeleteFile, Crash

LEMMA FetchKeepsLibrary ==
  ASSUME LibInv, LibraryTypeOK', EverReadyStays, NEW b \in Builds, Create(b) \/ FetchStep(b)
  PROVE  FetchIsYoung' /\ FilesOfReady' /\ SweepsTakeOld'
  <1>0. \A c \in everReady : Superseded(c) => c \in everReady' /\ Superseded(c)'
    BY SupersededStays DEF LibInv
  <1>1. \A c \in Builds \ {b} : /\ UNCHANGED <<build[c], file[c], fetch[c]>>
                                /\ c \in everReady' <=> c \in everReady
    BY FetchFrame DEF LibInv
  <1>2. sweep' = sweep
    BY DEF Create, FetchStep, Downloaded, DownloadFails, SaveValidating, Validate,
           SaveReady, SaveCorrupt, RemoveCorrupt
  <1>3. /\ everReady \subseteq Builds /\ everReady' \subseteq Builds
        /\ b \in everReady => b \in everReady'
    BY DEF LibInv, LibraryTypeOK, EverReadyStays
  <1>4. file[b] = "none" => file'[b] = "none" \/ b \notin everReady
    BY DEF Create, FetchStep, Downloaded, DownloadFails, SaveValidating, Validate, SaveReady,
           SaveCorrupt, RemoveCorrupt, LibInv, LibraryTypeOK, FetchIsYoung, FilesOfReady
  <1> DEFINE Young == /\ fetch'[b] \notin {"no", "saveCorrupt", "remove"} => b \notin everReady'
                      /\ fetch'[b] \in {"saveValidating", "validate", "saveReady"} =>
                           file'[b] = "whole"
                      /\ fetch'[b] = "remove" => build'[b].status # "ready"
             Files == /\ build'[b].status \in {"ready", "purged"} => b \in everReady'
                      /\ b \in everReady' =>
                           /\ build'[b].status \in {"ready", "purged", "corrupt"}
                           /\ file'[b] # "part"
                           /\ build'[b].status = "purged" => file'[b] = "none"
                           /\ file'[b] = "none" =>
                                Superseded(b)' \/ build'[b].status = "corrupt"
  <1>5. Young /\ Files
    <2> USE DEF LibInv, LibraryTypeOK, FetchIsYoung, FilesOfReady
    <2>1. CASE Create(b)
      BY <2>1 DEF Create, BuildDoc
    <2>2. CASE Downloaded(b) \/ DownloadFails(b)
      BY <2>2 DEF Downloaded, DownloadFails
    <2>3. CASE RemoveCorrupt(b)
      BY <1>0, <2>3 DEF RemoveCorrupt
    <2>4. CASE Validate(b)
      <3>1. build'[b].status = build[b].status
        BY <2>4 DEF Validate, BuildDoc
      <3> QED BY <2>4, <3>1 DEF Validate
    <2>5. CASE SaveValidating(b)
      <3>1. /\ build'[b].status \in {build[b].status, "validating"}
            /\ fetch'[b] \in {"validate", "saveCorrupt"}
            /\ UNCHANGED <<file, everReady>> /\ fetch[b] = "saveValidating"
        BY <2>5, SaveFacts DEF SaveValidating, Statuses
      <3> QED BY <3>1
    <2>6. CASE SaveReady(b)
      <3>1. /\ build'[b].status \in {build[b].status, "ready"}
            /\ fetch'[b] \in {"no", "saveCorrupt"}
            /\ everReady' = IF build'[b].status = "ready" THEN everReady \cup {b} ELSE everReady
            /\ UNCHANGED file /\ fetch[b] = "saveReady"
        BY <2>6, SaveFacts DEF SaveReady, Statuses
      <3> QED BY <3>1
    <2>7. CASE SaveCorrupt(b)
      <3>1. /\ \/ build'[b].status = "corrupt"
               \/ build'[b].status = build[b].status /\ fetch'[b] = "no"
            /\ fetch'[b] \in {"remove", "no"}
            /\ UNCHANGED <<file, everReady>> /\ fetch[b] = "saveCorrupt"
        BY <2>7, SaveFacts DEF SaveCorrupt, Statuses
      <3> QED BY <1>0, <3>1
    <2> QED BY <2>1, <2>2, <2>3, <2>4, <2>5, <2>6, <2>7 DEF FetchStep
  <1>6. FetchIsYoung'
    BY <1>1, <1>5 DEF LibInv, FetchIsYoung
  <1>7. FilesOfReady'
    BY <1>0, <1>1, <1>3, <1>5 DEF LibInv, FilesOfReady
  <1>8. SweepsTakeOld'
    BY <1>0, <1>1, <1>2, <1>3, <1>4 DEF LibInv, SweepsTakeOld
  <1> QED BY <1>6, <1>7, <1>8

LEMMA SweepKeepsLibrary ==
  ASSUME LibInv, LibraryTypeOK', EverReadyStays, NEW s \in Sweeps, SweepStep(s)
  PROVE  FetchIsYoung' /\ FilesOfReady' /\ SweepsTakeOld'
  <1>0. \A b \in everReady : Superseded(b) => b \in everReady' /\ Superseded(b)'
    BY SupersededStays DEF LibInv
  <1>1. fetch' = fetch /\ everReady' = everReady /\ everReady \subseteq Builds
    BY DEF SweepStep, FindReady, CheckReference, DeleteFile, SavePurged, LibInv, LibraryTypeOK
  <1>2. \A t \in Sweeps \ {s} : sweep'[t] = sweep[t]
    BY DEF SweepStep, FindReady, CheckReference, DeleteFile, SavePurged, LibInv,
           LibraryTypeOK
  <1>3. \A todo : /\ GoOn(todo).todo \cup GoOn(todo).on \subseteq todo
                  /\ GoOn(todo).at # "save"
    BY DEF GoOn, IdleSweep
  <1>4. CASE FindReady(s) \/ CheckReference(s)
    <2>1. UNCHANGED <<build, file>>
      BY <1>4 DEF FindReady, CheckReference
    <2>2. /\ \A b \in sweep'[s].todo \cup sweep'[s].on : b \in everReady /\ Superseded(b)
          /\ sweep'[s].at # "save"
      <3>1. CASE FindReady(s)
        <4>1. sweep'[s] = GoOn(Candidates(Ready))
          BY <3>1 DEF FindReady, LibInv, LibraryTypeOK
        <4> QED BY <4>1, <1>3, CandidatesAreOld DEF LibInv
      <3>2. CASE CheckReference(s)
        <4>1. PICK b \in sweep[s].todo :
                sweep'[s] = IF b \in referenced THEN GoOn(sweep[s].todo \ {b})
                            ELSE [at |-> "delete", todo |-> sweep[s].todo \ {b},
                                  on |-> {b}]
          BY <3>2 DEF CheckReference, LibInv, LibraryTypeOK
        <4>2. /\ sweep'[s].todo \cup sweep'[s].on \subseteq sweep[s].todo
              /\ sweep'[s].at # "save"
          BY <4>1, <1>3
        <4> QED BY <4>2 DEF LibInv, SweepsTakeOld
      <3> QED BY <1>4, <3>1, <3>2
    <2>3. FetchIsYoung'
      BY <1>1, <2>1 DEF LibInv, FetchIsYoung
    <2>4. FilesOfReady'
      BY <1>0, <1>1, <2>1 DEF LibInv, FilesOfReady
    <2>5. SweepsTakeOld'
      BY <1>0, <1>2, <2>1, <2>2 DEF LibInv, SweepsTakeOld
    <2> QED BY <2>3, <2>4, <2>5
  <1>5. CASE DeleteFile(s) /\ file' # file
    <2>1. /\ file' = [b \in Builds |-> IF b \in sweep[s].on THEN "none" ELSE file[b]]
          /\ sweep' = [sweep EXCEPT ![s].at = "save"]
          /\ build' = build
      BY <1>5 DEF DeleteFile
    <2>2. \A b \in sweep[s].on : b \in everReady /\ Superseded(b)
      BY DEF LibInv, SweepsTakeOld
    <2>3. FetchIsYoung'
      <3>1. \A b \in Builds : b \notin everReady => file'[b] = file[b]
        BY <2>1, <2>2
      <3>2. \A b \in Builds : b \in everReady => fetch[b] \in {"no", "saveCorrupt", "remove"}
        BY DEF LibInv, FetchIsYoung
      <3> QED BY <1>1, <2>1, <3>1, <3>2 DEF LibInv, FetchIsYoung
    <2>4. FilesOfReady'
      BY <1>0, <1>1, <2>1, <2>2 DEF LibInv, FilesOfReady
    <2>5. /\ sweep'[s].todo = sweep[s].todo /\ sweep'[s].on = sweep[s].on
      BY <2>1 DEF LibInv, LibraryTypeOK, SweepState
    <2>6. \A b \in Builds : file[b] = "none" => file'[b] = "none"
      BY <2>1
    <2>7. \A t \in Sweeps : sweep[t].on \subseteq Builds
      BY DEF LibInv, LibraryTypeOK, SweepState
    <2>8. SweepsTakeOld'
      BY <1>0, <1>2, <2>1, <2>5, <2>6, <2>7 DEF LibInv, SweepsTakeOld
    <2> QED BY <2>3, <2>4, <2>8
  <1>6. CASE SavePurged(s)
    <2>1. /\ sweep'[s].todo \cup sweep'[s].on \subseteq sweep[s].todo
          /\ sweep'[s].at # "save" /\ file' = file
      <3>1. sweep'[s] = GoOn(sweep[s].todo) \/ sweep'[s] = IdleSweep
        BY <1>6 DEF SavePurged, LibInv, LibraryTypeOK
      <3> QED BY <1>3, <1>6, <3>1 DEF SavePurged, IdleSweep
    <2>2. \A b \in sweep[s].on : b \in everReady /\ Superseded(b) /\ file[b] = "none"
      BY <1>6 DEF SavePurged, LibInv, SweepsTakeOld
    <2>3. \A b \in Builds :
             \/ build'[b].status = build[b].status
             \/ b \in sweep[s].on /\ build'[b].status = "purged"
      BY <1>6, PurgeFacts DEF LibInv
    <2>4. FetchIsYoung'
      BY <1>1, <2>1, <2>3 DEF LibInv, FetchIsYoung
    <2>5. FilesOfReady'
      BY <1>0, <1>1, <2>1, <2>2, <2>3 DEF LibInv, FilesOfReady
    <2>6. SweepsTakeOld'
      BY <1>0, <1>2, <2>1 DEF LibInv, SweepsTakeOld
    <2> QED BY <2>4, <2>5, <2>6
  <1>7. CASE DeleteFile(s) /\ file' = file
    <2>0. UNCHANGED <<build, file>>
      BY <1>7 DEF DeleteFile
    <2>1. \/ sweep'[s] = GoOn(sweep[s].todo)
          \/ /\ sweep' = [sweep EXCEPT ![s].at = "save"]
             /\ file' = [b \in Builds |-> IF b \in sweep[s].on THEN "none" ELSE file[b]]
      BY <1>7 DEF DeleteFile, LibInv, LibraryTypeOK
    <2>2. sweep'[s].todo \cup sweep'[s].on \subseteq sweep[s].todo \cup sweep[s].on
      BY <1>3, <2>1 DEF LibInv, LibraryTypeOK, SweepState
    <2>3. sweep'[s].at = "save" => \A b \in sweep'[s].on : file[b] = "none"
      <3>1. CASE sweep'[s] = GoOn(sweep[s].todo)
        BY <1>3, <3>1
      <3>2. CASE /\ sweep' = [sweep EXCEPT ![s].at = "save"]
                 /\ file' = [b \in Builds |-> IF b \in sweep[s].on THEN "none" ELSE file[b]]
        <4>1. sweep'[s].on = sweep[s].on /\ sweep[s].on \subseteq Builds
          BY <3>2 DEF LibInv, LibraryTypeOK, SweepState
        <4> QED BY <2>0, <3>2, <4>1
      <3> QED BY <2>1, <3>1, <3>2
    <2>4. FetchIsYoung' /\ FilesOfReady'
      BY <1>0, <1>1, <2>0 DEF LibInv, FetchIsYoung, FilesOfReady
    <2>5. SweepsTakeOld'
      BY <1>0, <1>2, <2>0, <2>2, <2>3 DEF LibInv, SweepsTakeOld
    <2> QED BY <2>4, <2>5
  <1> QED BY <1>4, <1>5, <1>6, <1>7 DEF SweepStep

LEMMA NextLibrary ==
  ASSUME LibInv, [Next]_vars
  PROVE  LibInv'
  <1>1. LibraryTypeOK' /\ EverReadyStays
    BY NextTyping, NextKeepsReady DEF LibInv
  <1>2. \A b \in everReady : Superseded(b) => b \in everReady' /\ Superseded(b)'
    BY <1>1, SupersededStays DEF LibInv
  <1>3. CASE UNCHANGED <<build, file, fetch, sweep, everReady>>
    BY <1>1, <1>2, <1>3 DEF LibInv, FetchIsYoung, FilesOfReady, SweepsTakeOld
  <1>4. CASE Crash
    <2>1. UNCHANGED <<build, file, everReady>> /\ \A b \in Builds : fetch'[b] = "no"
      BY <1>4 DEF Crash
    <2>2. \A s \in Sweeps : sweep'[s] = IdleSweep
      BY <1>4 DEF Crash
    <2>3. FetchIsYoung' /\ SweepsTakeOld'
      BY <2>1, <2>2 DEF FetchIsYoung, SweepsTakeOld, IdleSweep
    <2>4. FilesOfReady'
      BY <1>2, <2>1 DEF LibInv, FilesOfReady
    <2> QED BY <1>1, <2>3, <2>4 DEF LibInv
  <1> QED BY <1>1, <1>3, <1>4, FetchKeepsLibrary, SweepKeepsLibrary
          DEF Next, vars, ReferToBuild, Age, LibInv

LEMMA LibInvHolds == LibrarySpec => []LibInv
  BY InitLibrary, NextLibrary, PTL DEF LibrarySpec

\* A ready build was downloaded as a whole and a purged one has no file, however
\* fetches, sweeps, failures and restarts overlap (builds.service.ts:32, 105-107).
THEOREM StatusAlwaysMatchesFile == LibrarySpec => []StatusMatchesFile
  <1>1. LibInv => StatusMatchesFile
    BY DEF LibInv, FilesOfReady, StatusMatchesFile
  <1> QED BY <1>1, LibInvHolds, PTL

\* The newest builds of a group that ever read as ready stay ready and on disk
\* whatever lists overlapping sweeps are working on, whatever saves fail, applied or
\* not, and whenever the hub restarts; only its own fetch takes a build back
\* (builds.service.ts:72-77, 98-99).
THEOREM NewestAreAlwaysKept == LibrarySpec => []NewestAreKept
  <1>1. LibInv => NewestAreKept
    <2> SUFFICES ASSUME LibInv, NEW b \in everReady,
                        Cardinality(NewerIn(b, everReady)) < KeepPerGroup,
                        build[b].status # "corrupt"
                 PROVE  build[b].status = "ready" /\ file[b] = "whole"
      BY DEF NewestAreKept
    <2>1. everReady \in SUBSET Builds
      BY DEF LibInv, LibraryTypeOK
    <2>2. ~Superseded(b)
      BY <2>1, NewerIsFinite, LibraryAssumption DEF Superseded
    <2>3. file[b] # "none" /\ file[b] # "part" /\ build[b].status # "purged"
      BY <2>2 DEF LibInv, FilesOfReady
    <2> QED BY <2>1, <2>3 DEF LibInv, LibraryTypeOK, FilesOfReady
  <1> QED BY <1>1, LibInvHolds, PTL

------------------------------------------------------------------------------
(* Artefacts of runs.                                                         *)

LEMMA SecuredStays ==
  ASSUME LibInv, NEW b \in Builds, Secured(b), [Next]_vars
  PROVE  Secured(b)'
  <1>1. fetch[b] = "no" /\ build[b].status = "ready" /\ b \in referenced /\ file[b] = "whole"
    BY DEF Secured, Ready
  <1>2. \A s \in Sweeps : sweep[s].at \in {"delete", "save"} => b \notin sweep[s].on
    BY DEF Secured, Doomed, LibInv, SweepsTakeOld
  <1>3. b \in referenced'
    BY <1>1 DEF Next, vars, Create, FetchStep, Downloaded, DownloadFails,
           SaveValidating, Validate, SaveReady, SaveCorrupt, RemoveCorrupt, ReferToBuild,
           Age, SweepStep, FindReady, CheckReference, DeleteFile, SavePurged, Crash
  <1>4. build'[b] = build[b] /\ file'[b] = file[b] /\ fetch'[b] = "no"
    <2>1. ASSUME NEW c \in Builds, Create(c) \/ FetchStep(c)
          PROVE  build'[b] = build[b] /\ file'[b] = file[b] /\ fetch'[b] = "no"
      <3>1. c # b
        BY <1>1, <2>1 DEF Create, FetchStep, Downloaded, DownloadFails, SaveValidating,
                          Validate, SaveReady, SaveCorrupt, RemoveCorrupt
      <3> QED BY <1>1, <2>1, <3>1, FetchFrame DEF LibInv
    <2>2. ASSUME NEW s \in Sweeps, DeleteFile(s) \/ SavePurged(s)
          PROVE  build'[b] = build[b] /\ file'[b] = file[b] /\ fetch'[b] = "no"
      BY <1>1, <1>2, <2>2 DEF DeleteFile, SavePurged, LibInv, LibraryTypeOK
    <2>3. CASE UNCHANGED <<build, file>> /\ (fetch' = fetch \/ Crash)
      BY <1>1, <2>3 DEF Crash
    <2> QED BY <2>1, <2>2, <2>3 DEF Next, vars, ReferToBuild, Age,
               SweepStep, FindReady, CheckReference, Crash
  <1>5. ASSUME NEW s \in Sweeps, sweep'[s].at = "delete", b \in sweep'[s].on
        PROVE  FALSE
    <2>1. ASSUME NEW t \in Sweeps, CheckReference(t)
          PROVE  FALSE
      <3>1. PICK c \in sweep[t].todo :
              sweep' = [sweep EXCEPT ![t] =
                          IF c \in referenced THEN GoOn(sweep[t].todo \ {c})
                          ELSE [at |-> "delete", todo |-> sweep[t].todo \ {c}, on |-> {c}]]
        BY <2>1 DEF CheckReference
      <3>2. CASE s = t
        BY <1>1, <1>5, <3>1, <3>2 DEF LibInv, LibraryTypeOK, GoOn, IdleSweep
      <3>3. CASE s # t
        BY <1>2, <1>5, <3>1, <3>3 DEF LibInv, LibraryTypeOK
      <3> QED BY <3>2, <3>3
    <2>2. ASSUME NEW t \in Sweeps, FindReady(t) \/ DeleteFile(t) \/ SavePurged(t)
          PROVE  FALSE
      BY <1>2, <1>5, <2>2 DEF FindReady, DeleteFile, SavePurged, LibInv, LibraryTypeOK,
                              SweepState, GoOn, IdleSweep
    <2>3. CASE Crash
      BY <1>5, <2>3 DEF Crash, IdleSweep
    <2>4. CASE UNCHANGED sweep
      BY <1>2, <1>5, <2>4
    <2> QED BY <2>1, <2>2, <2>3, <2>4 DEF Next, vars, Create, FetchStep, Downloaded,
               DownloadFails, SaveValidating, Validate, SaveReady, SaveCorrupt,
               RemoveCorrupt, ReferToBuild, Age, SweepStep
  <1> QED BY <1>1, <1>3, <1>4, <1>5 DEF Secured, Ready, Doomed

\* A ready build that a run names before any sweep has decided to delete it keeps its
\* artefact for good once its own fetch is over (builds.service.ts:103).
THEOREM ReferencedAlwaysStays == LibrarySpec => ReferencedStays
  <1>1. LibInv /\ [Next]_vars => [\A b \in Builds : Secured(b) => Secured(b)']_vars
    BY SecuredStays
  <1> QED BY <1>1, LibInvHolds, PTL DEF LibrarySpec, ReferencedStays
=============================================================================
