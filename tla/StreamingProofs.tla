--------------------------- MODULE StreamingProofs ---------------------------
(***************************************************************************)
(* The captures of Streaming for every number of viewers, keys, faults and *)
(* crashes.                                                                *)
(***************************************************************************)
EXTENDS StreamHistory, TLAPS

\* Only a viewer that is being removed is leaving a capture.
LeavesOnce ==
  \A v \in Viewers :
    viewer[v].pc \notin {"withdraw", "remove"} => viewer[v].leaves = NoCapture

StreamInv == StreamingTypeOK /\ MapIsRunning /\ LeavesOnce /\ UnwatchedIsTimed

-----------------------------------------------------------------------------
(* What the shared parts of the actions keep *)

\* Gone is a viewer, and so is one that is being removed.
LEMMA GoneIsViewer == Gone \in Viewer
  <1>1. FALSE \in BOOLEAN
    OBVIOUS
  <1> QED  BY <1>1, Zenon DEF Gone, Viewer

LEMMA LeavingIsViewer ==
  ASSUME NEW h \in Captures, NEW pc \in {"withdraw", "remove"}, NEW last \in BOOLEAN
  PROVE  [pc |-> pc, socket |-> "closed", leaves |-> h, last |-> last] \in Viewer
  BY DEF Viewer

LEMMA CaptureUpdated ==
  ASSUME NEW c \in Capture, NEW vs \in SUBSET Viewers,
         NEW s \in {"none", "running", "stopping", "stopped"},
         NEW since \in {"null", "recent", "long ago"}
  PROVE  /\ [c EXCEPT !.viewers = vs] \in Capture
         /\ [c EXCEPT !.idleSince = since] \in Capture
         /\ [c EXCEPT !.state = s, !.idleSince = since] \in Capture
         /\ [NotStarted EXCEPT !.state = s] \in Capture
         /\ NotStarted \in Capture
  BY DEF Capture, NotStarted

LEMMA SocketUpdated ==
  ASSUME NEW r \in Viewer, NEW s \in {"open", "closing", "closed", "unheard"}
  PROVE  [r EXCEPT !.socket = s] \in Viewer
  BY DEF Viewer

\* Starting, attaching and removing.
LEMMA AttachTypes ==
  ASSUME StreamingTypeOK, NEW v \in Viewers, NEW h \in Captures, Attach(v, h)
  PROVE  StreamingTypeOK'
  BY DEF StreamingTypeOK, Attach, Goto, Viewer, Capture, budgetVars, Captures

LEMMA StartTypes ==
  ASSUME StreamingTypeOK, NEW v \in Viewers, StartAndAttach(v)
  PROVE  StreamingTypeOK'
  BY StreamingAssumption
     DEF StreamingTypeOK, StartAndAttach, Goto, Viewer, Capture, budgetVars, Captures

LEMMA DismissTypes ==
  ASSUME StreamingTypeOK, NEW v \in Viewers, Dismiss(v)
  PROVE  StreamingTypeOK'
  BY GoneIsViewer DEF StreamingTypeOK, Dismiss, Finish, budgetVars

LEMMA RemoveTypes ==
  ASSUME StreamingTypeOK, NEW v \in Viewers, NEW pc \in {"withdraw", "remove"},
         RemoveViewer(v, pc)
  PROVE  viewer' \in [Viewers -> Viewer] /\ capture' \in [Captures -> Capture]
  <1> USE StreamingAssumption DEF StreamingTypeOK, Captures
  <1>1. live[KeyOf[v]] \in Captures \cup {NoCapture}
    OBVIOUS
  <1>2. CASE live[KeyOf[v]] = NoCapture
    BY <1>2, GoneIsViewer DEF RemoveViewer, Finish
  <1>3. CASE live[KeyOf[v]] # NoCapture
    <2> DEFINE h == live[KeyOf[v]]
               left == capture[h].viewers \ {v}
    <2>1. h \in Viewers
      BY <1>1, <1>3
    <2>2. /\ capture' = [capture EXCEPT ![h].viewers = left]
          /\ viewer' = [viewer EXCEPT ![v] =
               [pc |-> pc, socket |-> "closed", leaves |-> h, last |-> left = {}]]
      BY <1>3 DEF RemoveViewer
    <2>3. left \subseteq Viewers
      BY <2>1 DEF Capture
    <2>4. capture' \in [Captures -> Capture]
      <3>1. capture[h] \in Capture
        BY <2>1
      <3>2. [capture[h] EXCEPT !.viewers = left] \in Capture
        BY <2>3, <3>1, CaptureUpdated
      <3>3. capture' = [capture EXCEPT ![h] = [capture[h] EXCEPT !.viewers = left]]
        BY <2>2
      <3> HIDE DEF h, left
      <3> QED  BY <3>2, <3>3
    <2>5. (left = {}) \in BOOLEAN
      OBVIOUS
    <2>6. [pc |-> pc, socket |-> "closed", leaves |-> h, last |-> left = {}] \in Viewer
      BY <2>1, <2>5, LeavingIsViewer
    <2> QED  BY <2>2, <2>4, <2>6
  <1> QED  BY <1>2, <1>3

LEMMA TeardownTypes ==
  ASSUME StreamingTypeOK, NEW k \in Keys, Teardown(k)
  PROVE  /\ live' \in [Keys -> Captures \cup {NoCapture}]
         /\ capture' \in [Captures -> Capture]
         /\ stopping' \in SUBSET Captures
  <1> USE DEF StreamingTypeOK
  <1>1. CASE live[k] = NoCapture
    BY <1>1 DEF Teardown
  <1>2. CASE live[k] # NoCapture
    <2> DEFINE c == [capture[live[k]] EXCEPT !.state = "stopping", !.idleSince = "null"]
    <2>1. live[k] \in Captures
      BY <1>2
    <2>2. c \in Capture
      BY <2>1, CaptureUpdated
    <2>3. capture' = [capture EXCEPT ![live[k]] = c]
      BY <1>2, <2>1 DEF Teardown
    <2>4. live' = [live EXCEPT ![k] = NoCapture] /\ stopping' = stopping \cup {live[k]}
      BY <1>2 DEF Teardown
    <2> HIDE DEF c
    <2> QED  BY <2>1, <2>2, <2>3, <2>4
  <1> QED  BY <1>1, <1>2

-----------------------------------------------------------------------------
(* Types *)

LEMMA LoopTypes ==
  ASSUME StreamingTypeOK, NEW l \in Loops, NEW keys \in SUBSET Keys, TeardownOneOf(l, keys)
  PROVE  StreamingTypeOK'
  <1>1. PICK k \in keys :
          /\ Teardown(k)
          /\ loop' = [loop EXCEPT ![l] = [keys |-> keys \ {k}, awaits |-> live[k]]]
    BY DEF TeardownOneOf
  <1>2. /\ live' \in [Keys -> Captures \cup {NoCapture}]
        /\ capture' \in [Captures -> Capture]
        /\ stopping' \in SUBSET Captures
    BY <1>1, TeardownTypes
  <1>3. loop' \in [Loops -> Loop]
    BY <1>1 DEF StreamingTypeOK, Loop
  <1> QED  BY <1>2, <1>3 DEF StreamingTypeOK, TeardownOneOf, budgetVars

LEMMA TypesKept ==
  ASSUME StreamingTypeOK, [StreamingNext]_streamVars
  PROVE  StreamingTypeOK'
  <1> USE StreamingAssumption
  <1>1. CASE UNCHANGED streamVars
    BY <1>1 DEF StreamingTypeOK, streamVars
  <1>2. ASSUME NEW v \in Viewers, RefuseDevice(v)  PROVE StreamingTypeOK'
    BY <1>2, DismissTypes DEF RefuseDevice
  <1>3. ASSUME NEW v \in Viewers, AddViewer(v)  PROVE StreamingTypeOK'
    <2>1. live[KeyOf[v]] \in Captures \cup {NoCapture}
      BY DEF StreamingTypeOK
    <2>2. CASE live[KeyOf[v]] # NoCapture /\ Attach(v, live[KeyOf[v]])
      BY <2>1, <2>2, AttachTypes
    <2>3. CASE Goto(v, "count") /\ UNCHANGED <<capture, live, active, stopping, loop, budgetVars>>
      BY <2>3 DEF StreamingTypeOK, Goto, Viewer, budgetVars
    <2> QED  BY <1>3, <2>2, <2>3 DEF AddViewer
  <1>4. ASSUME NEW v \in Viewers, AssertCapacity(v)  PROVE StreamingTypeOK'
    BY <1>4, DismissTypes, StartTypes DEF AssertCapacity
  <1>5. ASSUME NEW v \in Viewers, Upserted(v)  PROVE StreamingTypeOK'
    <2>1. viewer' \in [Viewers -> Viewer] /\ capture' \in [Captures -> Capture]
      <3>1. CASE RemoveViewer(v, "withdraw")
        BY <3>1, RemoveTypes
      <3>2. CASE Goto(v, "joined") /\ UNCHANGED capture
        BY <3>2 DEF StreamingTypeOK, Goto, Viewer
      <3> QED  BY <1>5, <3>1, <3>2 DEF Upserted
    <2> QED  BY <1>5, <2>1 DEF Upserted, StreamingTypeOK, budgetVars
  <1>6. ASSUME NEW v \in Viewers, Removed(v)  PROVE StreamingTypeOK'
    <2> DEFINE h == viewer[v].leaves
               since == IF viewer[v].last /\ Running(h) THEN "recent" ELSE capture[h].idleSince
    <2>1. viewer' \in [Viewers -> Viewer]
      BY <1>6, GoneIsViewer DEF Removed, Finish, StreamingTypeOK
    <2>2. capture' = [capture EXCEPT ![h].idleSince = since]
      BY <1>6 DEF Removed
    <2>3. CASE h \in Captures
      <3>1. capture[h] \in Capture /\ since \in {"null", "recent", "long ago"}
        BY <2>3 DEF StreamingTypeOK, Capture
      <3>2. [capture[h] EXCEPT !.idleSince = since] \in Capture
        BY <3>1, CaptureUpdated
      <3>3. capture' = [capture EXCEPT ![h] = [capture[h] EXCEPT !.idleSince = since]]
        BY <2>2
      <3> HIDE DEF h, since
      <3>4. capture' \in [Captures -> Capture]
        BY <3>2, <3>3 DEF StreamingTypeOK
      <3> QED  BY <1>6, <2>1, <3>4 DEF Removed, StreamingTypeOK, budgetVars
    <2>4. CASE h \notin Captures
      <3>1. capture' = capture
        BY <2>2, <2>4 DEF StreamingTypeOK
      <3> QED  BY <1>6, <2>1, <3>1 DEF Removed, StreamingTypeOK, budgetVars
    <2> QED  BY <2>3, <2>4
  <1>7. ASSUME NEW v \in Viewers, SocketCloses(v)  PROVE StreamingTypeOK'
    <2>1. viewer' \in [Viewers -> Viewer] /\ capture' \in [Captures -> Capture]
      <3>1. CASE RemoveViewer(v, "remove")
        BY <3>1, RemoveTypes
      <3>2. CASE /\ UNCHANGED capture
                 /\ \/ viewer' = [viewer EXCEPT ![v].socket = "unheard"]
                    \/ viewer' = [viewer EXCEPT ![v].socket = "closed"]
        BY <3>2 DEF StreamingTypeOK, Viewer
      <3> QED  BY <1>7, <3>1, <3>2 DEF SocketCloses
    <2> QED  BY <1>7, <2>1 DEF SocketCloses, StreamingTypeOK, budgetVars
  <1>8. ASSUME NEW v \in Viewers, UpsertFails(v) \/ WithdrawFails(v)  PROVE StreamingTypeOK'
    <2>1. viewer' \in [Viewers -> Viewer]
      BY <1>8, GoneIsViewer DEF UpsertFails, WithdrawFails, Finish, StreamingTypeOK
    <2>2. faults' \in Nat
      BY <1>8 DEF UpsertFails, WithdrawFails, Fault, StreamingTypeOK
    <2> QED  BY <1>8, <2>1, <2>2
             DEF UpsertFails, WithdrawFails, Fault, StreamingTypeOK
  <1>9. ASSUME NEW h \in Captures, CaptureError(h)  PROVE StreamingTypeOK'
    <2>1. KeyOfCapture(h) \in Keys /\ Teardown(KeyOfCapture(h))
      BY <1>9 DEF CaptureError, KeyOfCapture, Captures
    <2>2. viewer' \in [Viewers -> Viewer]
      <3>1. \A v \in Viewers : [viewer[v] EXCEPT !.socket = "closing"] \in Viewer
        BY SocketUpdated DEF StreamingTypeOK
      <3> QED  BY <1>9, <3>1 DEF CaptureError, StreamingTypeOK
    <2> QED  BY <1>9, <2>1, <2>2, TeardownTypes DEF CaptureError, StreamingTypeOK, budgetVars
  <1>10. ASSUME NEW h \in Captures, ProcessEnds(h) \/ GracePeriodEnds(h)  PROVE StreamingTypeOK'
    <2>1. /\ capture[h] \in Capture
          /\ [NotStarted EXCEPT !.state = "stopped"] \in Capture
          /\ [capture[h] EXCEPT !.idleSince = "long ago"] \in Capture
      <3>1. capture[h] \in Capture
        BY DEF StreamingTypeOK
      <3> QED  BY <3>1, CaptureUpdated
    <2>2. \/ capture' = [capture EXCEPT ![h] = [NotStarted EXCEPT !.state = "stopped"]]
          \/ capture' = [capture EXCEPT ![h] = [capture[h] EXCEPT !.idleSince = "long ago"]]
      BY <1>10 DEF ProcessEnds, GracePeriodEnds
    <2>3. capture' \in [Captures -> Capture]
      BY <2>1, <2>2 DEF StreamingTypeOK
    <2> QED  BY <1>10, <2>3 DEF ProcessEnds, GracePeriodEnds, StreamingTypeOK, budgetVars
  <1>11. ASSUME NEW h \in Captures, SessionStopped(h)  PROVE StreamingTypeOK'
    BY <1>11 DEF SessionStopped, StreamingTypeOK, Loop, budgetVars
  <1>12. ASSUME NEW h \in Captures, SessionNotStopped(h)  PROVE StreamingTypeOK'
    <2>1. faults' \in Nat
      BY <1>12 DEF SessionNotStopped, Fault, StreamingTypeOK
    <2> QED  BY <1>12, <2>1 DEF SessionNotStopped, Fault, IdleLoop, StreamingTypeOK, Loop
  <1>13. ASSUME NEW k \in Keys, StopForDevice(DeviceOf[k])  PROVE StreamingTypeOK'
    BY <1>13, LoopTypes DEF StopForDevice, Loops
  <1>14. CASE SweepIdle
    BY <1>14, LoopTypes DEF SweepIdle, IdleKeys, Loops
  <1>15. ASSUME NEW l \in Loops, LoopGoesOn(l)  PROVE StreamingTypeOK'
    <2>1. loop[l].keys \in SUBSET Keys
      BY DEF StreamingTypeOK, Loop
    <2> QED  BY <1>15, <2>1, LoopTypes DEF LoopGoesOn
  <1>16. CASE Crash
    <2>1. viewer' \in [Viewers -> Viewer]
      BY <1>16, GoneIsViewer DEF Crash, StreamingTypeOK
    <2>2. capture' \in [Captures -> Capture]
      <3>1. NotStarted \in Capture /\ [NotStarted EXCEPT !.state = "stopped"] \in Capture
        BY DEF NotStarted, Capture
      <3> QED  BY <1>16, <3>1 DEF Crash
    <2>3. loop' \in [Loops -> Loop]
      BY <1>16 DEF Crash, IdleLoop, Loop
    <2>4. live' \in [Keys -> Captures \cup {NoCapture}] /\ stopping' \in SUBSET Captures
      BY <1>16 DEF Crash
    <2>5. crashes' \in Nat
      BY <1>16 DEF Crash, StreamingTypeOK
    <2>6. active' \in SUBSET Keys /\ faults' \in Nat
      BY <1>16 DEF Crash, StreamingTypeOK
    <2> QED  BY <2>1, <2>2, <2>3, <2>4, <2>5, <2>6 DEF StreamingTypeOK
  <1> QED  BY <1>1, <1>2, <1>3, <1>4, <1>5, <1>6, <1>7, <1>8, <1>9, <1>10, <1>11, <1>12,
              <1>13, <1>14, <1>15, <1>16 DEF StreamingNext, Serve

LEMMA TypesInit == StreamingInit => StreamingTypeOK
  BY StreamingAssumption
     DEF StreamingInit, StreamingTypeOK, Viewer, Capture, Loop, NotStarted, IdleLoop

\* Type correctness: sockets, captures, sessions, loops and counters keep to
\* their domains through every attach, close, error, teardown and crash.
THEOREM StreamingTypeCorrect == StreamingSpec => []StreamingTypeOK
  BY TypesInit, TypesKept, PTL DEF StreamingSpec

-----------------------------------------------------------------------------
(* What the shared parts of the actions do to a viewer and to a capture *)

LEMMA GotoEffect ==
  ASSUME StreamingTypeOK, NEW v \in Viewers, NEW pc, Goto(v, pc)
  PROVE  /\ viewer'[v].pc = pc
         /\ viewer'[v].socket = viewer[v].socket
         /\ viewer'[v].leaves = viewer[v].leaves
         /\ viewer'[v].last = viewer[v].last
         /\ \A w \in Viewers : w # v => viewer'[w] = viewer[w]
  BY DEF StreamingTypeOK, Goto, Viewer

LEMMA FinishEffect ==
  ASSUME StreamingTypeOK, NEW v \in Viewers, Finish(v)
  PROVE  /\ viewer'[v] = Gone
         /\ \A w \in Viewers : w # v => viewer'[w] = viewer[w]
  BY DEF StreamingTypeOK, Finish

LEMMA AttachEffect ==
  ASSUME StreamingTypeOK, NEW v \in Viewers, NEW h \in Captures, Attach(v, h)
  PROVE  /\ Goto(v, "upsert") /\ UNCHANGED <<live, faults>>
         /\ capture'[h].state = capture[h].state
         /\ capture'[h].viewers = capture[h].viewers \cup {v}
         /\ \A g \in Captures : g # h => capture'[g] = capture[g]
  <1>1. capture[h] \in Capture
    BY DEF StreamingTypeOK
  <1>2. capture' = [capture EXCEPT ![h] =
          [capture[h] EXCEPT !.viewers = capture[h].viewers \cup {v}, !.idleSince = "null"]]
    BY DEF Attach
  <1>3. capture'[h] =
          [capture[h] EXCEPT !.viewers = capture[h].viewers \cup {v}, !.idleSince = "null"]
    BY <1>2 DEF StreamingTypeOK
  <1>4. /\ capture'[h].state = capture[h].state
        /\ capture'[h].viewers = capture[h].viewers \cup {v}
    BY <1>1, <1>3 DEF Capture
  <1>5. \A g \in Captures : g # h => capture'[g] = capture[g]
    BY <1>2 DEF StreamingTypeOK
  <1> QED  BY <1>4, <1>5 DEF Attach, budgetVars

LEMMA StartEffect ==
  ASSUME StreamingTypeOK, NEW v \in Viewers, StartAndAttach(v)
  PROVE  /\ Goto(v, "upsert") /\ UNCHANGED faults
         /\ live' = [live EXCEPT ![KeyOf[v]] = v]
         /\ capture'[v].state = "running" /\ capture'[v].viewers = {v}
         /\ \A g \in Captures : g # v => capture'[g] = capture[g]
  BY DEF StreamingTypeOK, StartAndAttach, budgetVars, Captures

\* A viewer is removed from the capture its key has.
LEMMA RemoveEffect ==
  ASSUME StreamingTypeOK, NEW v \in Viewers, NEW pc, RemoveViewer(v, pc),
         live[KeyOf[v]] # NoCapture
  PROVE  LET h == live[KeyOf[v]] IN
         /\ h \in Captures
         /\ capture'[h].state = capture[h].state
         /\ capture'[h].viewers = capture[h].viewers \ {v}
         /\ capture'[h].idleSince = capture[h].idleSince
         /\ \A g \in Captures : g # h => capture'[g] = capture[g]
         /\ viewer'[v].pc = pc /\ viewer'[v].leaves = h
         /\ capture'[h].viewers = {} => viewer'[v].last
         /\ \A w \in Viewers : w # v => viewer'[w] = viewer[w]
  <1> DEFINE h == live[KeyOf[v]]
             left == capture[h].viewers \ {v}
             r == [pc |-> pc, socket |-> "closed", leaves |-> h, last |-> left = {}]
  <1>1. h \in Captures
    BY StreamingAssumption DEF StreamingTypeOK
  <1>2. capture[h] \in Capture
    BY <1>1 DEF StreamingTypeOK
  <1>3. /\ capture' = [capture EXCEPT ![h] = [capture[h] EXCEPT !.viewers = left]]
        /\ viewer' = [viewer EXCEPT ![v] = r]
    BY DEF RemoveViewer
  <1>4. /\ capture'[h] = [capture[h] EXCEPT !.viewers = left]
        /\ \A g \in Captures : g # h => capture'[g] = capture[g]
    BY <1>1, <1>3 DEF StreamingTypeOK
  <1>5. /\ capture'[h].state = capture[h].state
        /\ capture'[h].viewers = left
        /\ capture'[h].idleSince = capture[h].idleSince
    BY <1>2, <1>4 DEF Capture
  <1>6. viewer'[v] = r /\ \A w \in Viewers : w # v => viewer'[w] = viewer[w]
    BY <1>3 DEF StreamingTypeOK
  <1>7. r.pc = pc /\ r.leaves = h
    OBVIOUS
  <1>8. left = {} => r.last
    BY Zenon
  <1> QED  BY <1>1, <1>4, <1>5, <1>6, <1>7, <1>8

\* A teardown stops the capture its key has, and touches no other.
LEMMA TeardownEffect ==
  ASSUME StreamingTypeOK, NEW k \in Keys, Teardown(k)
  PROVE  /\ live' = [live EXCEPT ![k] = NoCapture]
         /\ \A h \in Captures : h # live[k] => capture'[h] = capture[h]
         /\ \A h \in Captures : h = live[k] => ~Running(h)'
  <1> USE DEF StreamingTypeOK
  <1>1. CASE live[k] = NoCapture
    BY <1>1, StreamingAssumption DEF Captures, Teardown
  <1>2. CASE live[k] # NoCapture
    <2> DEFINE c == [capture[live[k]] EXCEPT !.state = "stopping", !.idleSince = "null"]
    <2>1. live[k] \in Captures
      BY <1>2
    <2>2. c.state = "stopping"
      <3>1. capture[live[k]] \in Capture
        BY <2>1
      <3> QED  BY <3>1 DEF Capture
    <2>3. capture' = [capture EXCEPT ![live[k]] = c]
      BY <1>2, <2>1 DEF Teardown
    <2> HIDE DEF c
    <2>4. capture'[live[k]].state = "stopping"
      BY <2>1, <2>2, <2>3
    <2> QED  BY <1>2, <2>3, <2>4 DEF Teardown, Running
  <1> QED  BY <1>1, <1>2

-----------------------------------------------------------------------------
(* The map and the grace periods: the invariant's steps *)

LEMMA AttachKeeps ==
  ASSUME StreamInv, NEW v \in Viewers, At(v, "lookup"),
         live[KeyOf[v]] # NoCapture, Attach(v, live[KeyOf[v]])
  PROVE  MapIsRunning' /\ LeavesOnce' /\ UnwatchedIsTimed'
  <1> USE StreamingAssumption DEF StreamInv
  <1> DEFINE h == live[KeyOf[v]]
  <1>1. h \in Captures
    BY DEF StreamingTypeOK
  <1>2. /\ Goto(v, "upsert") /\ UNCHANGED <<live, faults>>
        /\ capture'[h].state = capture[h].state
        /\ capture'[h].viewers # {}
        /\ \A g \in Captures : g # h => capture'[g] = capture[g]
    BY <1>1, AttachEffect
  <1>3. /\ viewer'[v].leaves = viewer[v].leaves /\ viewer'[v].last = viewer[v].last
        /\ \A w \in Viewers : w # v => viewer'[w] = viewer[w]
    BY <1>2, GotoEffect
  <1>4. MapIsRunning'
    <2>1. \A g \in Captures : Running(g) => Running(g)'
      BY <1>1, <1>2 DEF Running
    <2>2. \A j \in Keys : live[j] # NoCapture => live[j] \in Captures
      BY DEF StreamingTypeOK
    <2> QED  BY <1>2, <2>1, <2>2 DEF MapIsRunning, Running, KeyOfCapture
  <1>5. LeavesOnce'
    BY <1>3 DEF LeavesOnce, At
  <1>6. UnwatchedIsTimed'
    BY <1>2, <1>3 DEF UnwatchedIsTimed, Running
  <1> QED  BY <1>4, <1>5, <1>6

LEMMA StartKeeps ==
  ASSUME StreamInv, NEW v \in Viewers, At(v, "count"), StartAndAttach(v)
  PROVE  MapIsRunning' /\ LeavesOnce' /\ UnwatchedIsTimed'
  <1> USE StreamingAssumption DEF StreamInv
  <1>1. /\ Goto(v, "upsert") /\ UNCHANGED faults
        /\ live' = [live EXCEPT ![KeyOf[v]] = v]
        /\ capture'[v].state = "running" /\ capture'[v].viewers = {v}
        /\ \A g \in Captures : g # v => capture'[g] = capture[g]
    BY StartEffect
  <1>2. /\ viewer'[v].leaves = viewer[v].leaves /\ viewer'[v].last = viewer[v].last
        /\ \A w \in Viewers : w # v => viewer'[w] = viewer[w]
    BY <1>1, GotoEffect
  <1>3. MapIsRunning'
    BY <1>1 DEF MapIsRunning, Running, KeyOfCapture, StreamingTypeOK, Captures
  <1>4. LeavesOnce'
    BY <1>2 DEF LeavesOnce, At
  <1>5. UnwatchedIsTimed'
    <2>1. \A w \in Viewers :
            viewer'[w].leaves = viewer[w].leaves /\ viewer'[w].last = viewer[w].last
      BY <1>2
    <2>2. \A g \in Captures : Running(g)' /\ capture'[g].viewers = {} => capture'[g] = capture[g]
      BY <1>1 DEF Running
    <2> QED  BY <1>1, <2>1, <2>2 DEF UnwatchedIsTimed, Running
  <1> QED  BY <1>3, <1>4, <1>5

\* A handler that ends without having detached its viewer was not about to.
LEMMA FinishKeeps ==
  ASSUME StreamInv, NEW v \in Viewers, Finish(v), UNCHANGED <<capture, live>>,
         faults' \in Nat,
         faults' = 0 => faults = 0 /\ viewer[v].pc \notin {"withdraw", "remove"}
  PROVE  MapIsRunning' /\ LeavesOnce' /\ UnwatchedIsTimed'
  <1> USE StreamingAssumption DEF StreamInv
  <1>1. viewer'[v] = Gone /\ \A w \in Viewers : w # v => viewer'[w] = viewer[w]
    BY FinishEffect
  <1>2. Gone.leaves = NoCapture
    BY DEF Gone
  <1>3. MapIsRunning'
    BY DEF MapIsRunning, Running, KeyOfCapture
  <1>4. LeavesOnce'
    BY <1>1, <1>2 DEF LeavesOnce
  <1>5. faults' = 0 => viewer[v].leaves = NoCapture
    BY DEF LeavesOnce
  <1>6. UnwatchedIsTimed'
    BY <1>1, <1>5 DEF UnwatchedIsTimed, Running, Captures
  <1> QED  BY <1>3, <1>4, <1>6

LEMMA RemoveKeeps ==
  ASSUME StreamInv, NEW v \in Viewers, viewer[v].pc \in {"upsert", "joined"},
         NEW pc \in {"withdraw", "remove"}, RemoveViewer(v, pc), UNCHANGED <<live, faults>>
  PROVE  MapIsRunning' /\ LeavesOnce' /\ UnwatchedIsTimed'
  <1> USE StreamingAssumption DEF StreamInv
  <1>1. CASE live[KeyOf[v]] = NoCapture
    <2>1. Finish(v) /\ UNCHANGED capture
      BY <1>1 DEF RemoveViewer
    <2>2. faults' \in Nat
      BY DEF StreamingTypeOK
    <2> QED  BY <2>1, <2>2, FinishKeeps
  <1>2. CASE live[KeyOf[v]] # NoCapture
    <2> DEFINE h == live[KeyOf[v]]
    <2>1. /\ h \in Captures
          /\ capture'[h].state = capture[h].state
          /\ capture'[h].idleSince = capture[h].idleSince
          /\ \A g \in Captures : g # h => capture'[g] = capture[g]
          /\ viewer'[v].pc = pc /\ viewer'[v].leaves = h
          /\ capture'[h].viewers = {} => viewer'[v].last
          /\ \A w \in Viewers : w # v => viewer'[w] = viewer[w]
      BY <1>2, RemoveEffect
    <2>2. MapIsRunning'
      BY <2>1 DEF MapIsRunning, Running, KeyOfCapture, StreamingTypeOK
    <2>3. LeavesOnce'
      BY <2>1 DEF LeavesOnce
    <2>4. viewer[v].leaves = NoCapture
      BY DEF LeavesOnce
    <2>5. UnwatchedIsTimed'
      BY <2>1, <2>4 DEF UnwatchedIsTimed, Running, Captures
    <2> QED  BY <2>2, <2>3, <2>5
  <1> QED  BY <1>1, <1>2

LEMMA TeardownKeeps ==
  ASSUME StreamInv, NEW k \in Keys, Teardown(k), UNCHANGED faults,
         \A v \in Viewers : /\ viewer'[v].pc = viewer[v].pc
                            /\ viewer'[v].leaves = viewer[v].leaves
                            /\ viewer'[v].last = viewer[v].last
  PROVE  MapIsRunning' /\ LeavesOnce' /\ UnwatchedIsTimed'
  <1> USE StreamingAssumption DEF StreamInv
  <1>1. /\ live' = [live EXCEPT ![k] = NoCapture]
        /\ \A h \in Captures : h # live[k] => capture'[h] = capture[h]
        /\ \A h \in Captures : h = live[k] => ~Running(h)'
    BY TeardownEffect
  <1>2. MapIsRunning'
    <2> SUFFICES ASSUME NEW j \in Keys, live'[j] # NoCapture
                 PROVE  Running(live[j])' /\ KeyOfCapture(live'[j]) = j /\ live'[j] = live[j]
      BY DEF MapIsRunning, Running, KeyOfCapture
    <2>1. j # k /\ live'[j] = live[j]
      BY <1>1 DEF StreamingTypeOK
    <2>2. live[j] \in Captures /\ Running(live[j]) /\ KeyOfCapture(live[j]) = j
      BY <2>1 DEF MapIsRunning, StreamingTypeOK
    <2>3. live[j] # live[k]
      BY <2>1, <2>2 DEF MapIsRunning
    <2> QED  BY <1>1, <2>1, <2>2, <2>3 DEF Running
  <1>3. LeavesOnce'
    BY DEF LeavesOnce
  <1>4. UnwatchedIsTimed'
    BY <1>1 DEF UnwatchedIsTimed, Running
  <1> QED  BY <1>2, <1>3, <1>4

LEMMA StreamInvKept ==
  ASSUME StreamInv, [StreamingNext]_streamVars
  PROVE  MapIsRunning' /\ LeavesOnce' /\ UnwatchedIsTimed'
  <1> USE StreamingAssumption DEF StreamInv
  <1> DEFINE Kept == MapIsRunning' /\ LeavesOnce' /\ UnwatchedIsTimed'
  <1>1. CASE UNCHANGED streamVars
    BY <1>1 DEF streamVars, MapIsRunning, LeavesOnce, UnwatchedIsTimed, Running, KeyOfCapture
  <1>2. ASSUME NEW v \in Viewers, viewer[v].pc \in {"lookup", "count"}, Dismiss(v)
        PROVE  Kept
    BY <1>2, FinishKeeps DEF Dismiss, budgetVars, StreamingTypeOK
  <1>3. ASSUME NEW v \in Viewers, RefuseDevice(v)  PROVE Kept
    BY <1>2, <1>3 DEF RefuseDevice, At
  <1>4. ASSUME NEW v \in Viewers, AddViewer(v)  PROVE Kept
    <2>1. CASE live[KeyOf[v]] # NoCapture /\ Attach(v, live[KeyOf[v]])
      BY <1>4, <2>1, AttachKeeps DEF AddViewer
    <2>2. CASE Goto(v, "count") /\ UNCHANGED <<capture, live, active, stopping, loop, budgetVars>>
      BY <1>4, <2>2, GotoEffect
         DEF AddViewer, At, budgetVars, MapIsRunning, LeavesOnce, UnwatchedIsTimed, Running,
             KeyOfCapture
    <2> QED  BY <1>4, <2>1, <2>2 DEF AddViewer
  <1>5. ASSUME NEW v \in Viewers, AssertCapacity(v)  PROVE Kept
    BY <1>2, <1>5, StartKeeps DEF AssertCapacity, At
  <1>6. ASSUME NEW v \in Viewers, Upserted(v)  PROVE Kept
    <2>1. CASE RemoveViewer(v, "withdraw")
      BY <1>6, <2>1, RemoveKeeps DEF Upserted, At, budgetVars
    <2>2. CASE Goto(v, "joined") /\ UNCHANGED capture
      BY <1>6, <2>2, GotoEffect
         DEF Upserted, At, budgetVars, MapIsRunning, LeavesOnce, UnwatchedIsTimed, Running,
             KeyOfCapture
    <2> QED  BY <1>6, <2>1, <2>2 DEF Upserted
  <1>7. ASSUME NEW v \in Viewers, Removed(v)  PROVE Kept
    <2> DEFINE h == viewer[v].leaves
    <2>1. Finish(v) /\ UNCHANGED <<live, faults>>
      BY <1>7 DEF Removed, budgetVars
    <2>2. viewer'[v] = Gone /\ \A w \in Viewers : w # v => viewer'[w] = viewer[w]
      BY <2>1, FinishEffect
    <2>3. /\ \A g \in Captures : g # h => capture'[g] = capture[g]
          /\ \A g \in Captures : capture'[g].state = capture[g].state
          /\ \A g \in Captures : capture'[g].viewers = capture[g].viewers
          /\ \A g \in Captures : capture'[g].idleSince =
               IF g = h /\ viewer[v].last /\ Running(g) THEN "recent" ELSE capture[g].idleSince
      <3> DEFINE since == IF viewer[v].last /\ Running(h) THEN "recent"
                          ELSE capture[h].idleSince
      <3>1. capture' = [capture EXCEPT ![h] = [capture[h] EXCEPT !.idleSince = since]]
        BY <1>7 DEF Removed
      <3> HIDE DEF h
      <3>2. \A g \in Captures : capture'[g] =
              IF g = h THEN [capture[g] EXCEPT !.idleSince = since] ELSE capture[g]
        BY <3>1 DEF StreamingTypeOK
      <3>3. \A g \in Captures : capture[g] \in Capture
        BY DEF StreamingTypeOK
      <3> QED  BY <3>2, <3>3 DEF Capture
    <2>4. Gone.leaves = NoCapture
      BY DEF Gone
    <2>5. MapIsRunning'
      BY <2>1, <2>3 DEF MapIsRunning, Running, KeyOfCapture, StreamingTypeOK
    <2>6. LeavesOnce'
      BY <2>2, <2>4 DEF LeavesOnce
    <2>7. UnwatchedIsTimed'
      <3> SUFFICES ASSUME faults = 0, NEW g \in Captures, Running(g), capture[g].viewers = {}
                   PROVE  \/ capture'[g].idleSince # "null"
                          \/ \E w \in Viewers : viewer'[w].leaves = g /\ viewer'[w].last
        BY <2>1, <2>3 DEF UnwatchedIsTimed, Running
      <3>1. CASE capture[g].idleSince # "null"
        BY <2>3, <3>1
      <3>2. CASE \E w \in Viewers : viewer[w].leaves = g /\ viewer[w].last
        <4>1. PICK w \in Viewers : viewer[w].leaves = g /\ viewer[w].last
          BY <3>2
        <4>2. CASE w = v
          BY <2>3, <4>1, <4>2
        <4>3. CASE w # v
          BY <2>2, <4>1, <4>3
        <4> QED  BY <4>2, <4>3
      <3> QED  BY <3>1, <3>2 DEF UnwatchedIsTimed
    <2> QED  BY <2>5, <2>6, <2>7
  <1>8. ASSUME NEW v \in Viewers, SocketCloses(v)  PROVE Kept
    <2>1. CASE At(v, "joined") /\ RemoveViewer(v, "remove")
      BY <1>8, <2>1, RemoveKeeps DEF SocketCloses, At, budgetVars
    <2>2. CASE /\ UNCHANGED capture
               /\ \/ viewer' = [viewer EXCEPT ![v].socket = "unheard"]
                  \/ viewer' = [viewer EXCEPT ![v].socket = "closed"]
      <3>1. \A w \in Viewers : /\ viewer'[w].pc = viewer[w].pc
                               /\ viewer'[w].leaves = viewer[w].leaves
                               /\ viewer'[w].last = viewer[w].last
        BY <2>2 DEF StreamingTypeOK, Viewer
      <3>2. UNCHANGED <<capture, live, faults>>
        BY <1>8, <2>2 DEF SocketCloses, budgetVars
      <3> QED  BY <3>1, <3>2
               DEF MapIsRunning, LeavesOnce, UnwatchedIsTimed, Running, KeyOfCapture
    <2> QED  BY <1>8, <2>1, <2>2 DEF SocketCloses
  <1>9. ASSUME NEW v \in Viewers, UpsertFails(v) \/ WithdrawFails(v)  PROVE Kept
    <2>1. Finish(v) /\ UNCHANGED <<capture, live>> /\ faults' = faults + 1
      BY <1>9 DEF UpsertFails, WithdrawFails, Fault
    <2>2. faults' \in Nat /\ faults' # 0
      BY <2>1 DEF StreamingTypeOK
    <2> QED  BY <2>1, <2>2, FinishKeeps
  <1>10. ASSUME NEW h \in Captures, CaptureError(h)  PROVE Kept
    <2>1. KeyOfCapture(h) \in Keys /\ Teardown(KeyOfCapture(h)) /\ UNCHANGED faults
      BY <1>10 DEF CaptureError, KeyOfCapture, Captures, budgetVars
    <2>2. \A w \in Viewers : /\ viewer'[w].pc = viewer[w].pc
                             /\ viewer'[w].leaves = viewer[w].leaves
                             /\ viewer'[w].last = viewer[w].last
      BY <1>10 DEF CaptureError, StreamingTypeOK, Viewer
    <2> QED  BY <2>1, <2>2, TeardownKeeps
  <1>11. ASSUME NEW l \in Loops, NEW keys \in SUBSET Keys, TeardownOneOf(l, keys)
         PROVE  Kept
    BY <1>11, TeardownKeeps DEF TeardownOneOf, budgetVars
  <1>12. ASSUME NEW h \in Captures, ProcessEnds(h)  PROVE Kept
    <2>1. UNCHANGED <<viewer, live, faults>> /\ ~Running(h) /\ ~Running(h)'
      BY <1>12 DEF ProcessEnds, Running, NotStarted, StreamingTypeOK, budgetVars
    <2>2. \A g \in Captures : g # h => capture'[g] = capture[g]
      BY <1>12 DEF ProcessEnds, StreamingTypeOK
    <2>3. MapIsRunning'
      <3> SUFFICES ASSUME NEW j \in Keys, live[j] # NoCapture  PROVE Running(live[j])'
        BY <2>1 DEF MapIsRunning, KeyOfCapture, Running
      <3>1. live[j] \in Captures /\ Running(live[j])
        BY DEF MapIsRunning, StreamingTypeOK
      <3> QED  BY <2>1, <2>2, <3>1 DEF Running
    <2> QED  BY <2>1, <2>2, <2>3 DEF LeavesOnce, UnwatchedIsTimed, Running
  <1>13. ASSUME NEW h \in Captures, GracePeriodEnds(h)  PROVE Kept
    <2>1. UNCHANGED <<viewer, live, faults>>
      BY <1>13 DEF GracePeriodEnds, budgetVars
    <2>2. \A g \in Captures :
            /\ capture'[g].state = capture[g].state
            /\ capture'[g].viewers = capture[g].viewers
            /\ capture[g].idleSince # "null" => capture'[g].idleSince # "null"
      BY <1>13 DEF GracePeriodEnds, StreamingTypeOK, Capture
    <2>3. MapIsRunning'
      BY <2>1, <2>2 DEF MapIsRunning, Running, KeyOfCapture, StreamingTypeOK
    <2> QED  BY <2>1, <2>2, <2>3 DEF LeavesOnce, UnwatchedIsTimed, Running
  <1>14. ASSUME NEW h \in Captures, SessionStopped(h) \/ SessionNotStopped(h)  PROVE Kept
    <2>1. UNCHANGED <<viewer, capture, live>> /\ (faults' = 0 => faults = 0)
      BY <1>14 DEF SessionStopped, SessionNotStopped, Fault, budgetVars, StreamingTypeOK
    <2> QED  BY <2>1 DEF MapIsRunning, LeavesOnce, UnwatchedIsTimed, Running, KeyOfCapture
  <1>15. CASE Crash
    <2>1. /\ \A g \in Captures : ~Running(g)'
          /\ \A j \in Keys : live'[j] = NoCapture
      BY <1>15 DEF Crash, Running, NotStarted
    <2>2. Gone.leaves = NoCapture
      BY DEF Gone
    <2>3. LeavesOnce'
      BY <1>15, <2>2 DEF Crash, LeavesOnce
    <2> QED  BY <2>1, <2>3 DEF MapIsRunning, UnwatchedIsTimed
  <1>16. ASSUME NEW l \in Loops, LoopGoesOn(l)  PROVE Kept
    BY <1>11, <1>16 DEF LoopGoesOn, StreamingTypeOK, Loop
  <1>17. ASSUME NEW k \in Keys, StopForDevice(DeviceOf[k])  PROVE Kept
    BY <1>11, <1>17 DEF StopForDevice, Loops
  <1>18. CASE SweepIdle
    BY <1>11, <1>18 DEF SweepIdle, IdleKeys, Loops
  <1> QED  BY <1>1, <1>3, <1>4, <1>5, <1>6, <1>7, <1>8, <1>9, <1>10, <1>12, <1>13, <1>14,
              <1>15, <1>16, <1>17, <1>18 DEF StreamingNext, Serve

LEMMA StreamInvInit == StreamingInit => StreamInv
  BY TypesInit, StreamingAssumption
     DEF StreamInv, StreamingInit, MapIsRunning, LeavesOnce, UnwatchedIsTimed, Running,
         NotStarted, Captures

LEMMA StreamInvAlways == StreamingSpec => []StreamInv
  <1>1. StreamInv /\ [StreamingNext]_streamVars => StreamInv'
    BY TypesKept, StreamInvKept DEF StreamInv
  <1> QED  BY <1>1, StreamInvInit, PTL DEF StreamingSpec

\* No teardown, error, crash or second start leaves the map with a capture that
\* does not run, or one that runs for another key.
THEOREM MapAlwaysRunning == StreamingSpec => []MapIsRunning
  BY StreamInvAlways, PTL DEF StreamInv

\* A running capture without viewers has its grace period running, or a handler
\* that is about to start it, unless a call of the database threw.
THEOREM UnwatchedAlwaysTimed == StreamingSpec => []UnwatchedIsTimed
  BY StreamInvAlways, PTL DEF StreamInv

-----------------------------------------------------------------------------
(* Who is attached to what: steps that start no capture, and the one that does *)

\* v is attached to its capture and not known to have gone.
Stays(v) == At(v, "upsert") \/ (At(v, "joined") /\ viewer[v].socket # "closed")

\* v has been attached and is not told otherwise.
Watches(v) == viewer[v].pc \in {"upsert", "joined"} /\ viewer[v].socket = "open"

Serves(g, v) == Running(g) /\ v \in capture[g].viewers
Joins(v, g) == At(v, "lookup") /\ live[KeyOf[v]] = g /\ At(v, "upsert")'

QuietStep ==
  /\ faults' = 0 => faults = 0
  /\ \A k \in Keys :
       \/ live'[k] = live[k]
       \/ live'[k] = NoCapture /\ \A g \in Captures : live[k] = g => ~Running(g)'
  /\ \A g \in Captures :
       /\ Running(g)' => Running(g)
       /\ capture[g].state = "none" <=> capture'[g].state = "none"
       /\ \A v \in capture'[g].viewers : v \in capture[g].viewers \/ Joins(v, g)
  /\ \A v \in Viewers :
       /\ At(v, "lookup")' => At(v, "lookup")
       /\ At(v, "count")' => At(v, "count") \/ (At(v, "lookup") /\ live[KeyOf[v]] = NoCapture)
       /\ Watches(v)' => \/ \E g \in Captures : Serves(g, v)'
                         \/ /\ Watches(v)
                            /\ \A g \in Captures : Serves(g, v) => Serves(g, v)' \/ Stops(g)
       /\ faults' = 0 /\ Stays(v) =>
            \/ Stays(v)' \/ live'[KeyOf[v]] = NoCapture
            \/ v \notin capture'[live'[KeyOf[v]]].viewers

\* A handler ends whose viewer is in no capture that its key has.
LEMMA FinishIsQuiet ==
  ASSUME StreamingTypeOK, NEW v \in Viewers, Finish(v), UNCHANGED live,
         \A g \in Captures : /\ capture'[g].state = capture[g].state
                             /\ capture'[g].viewers = capture[g].viewers,
         faults' = 0 => faults = 0 /\ (Stays(v) => live[KeyOf[v]] = NoCapture)
  PROVE  QuietStep
  <1>1. viewer'[v].pc = "gone" /\ \A w \in Viewers : w # v => viewer'[w] = viewer[w]
    BY FinishEffect DEF Gone
  <1>2. \A g \in Captures : Running(g)' <=> Running(g)
    BY DEF Running
  <1>3. \A w \in Viewers : Watches(w)' => Watches(w)
    BY <1>1 DEF Watches
  <1>4. \A w \in Viewers : w # v => (Stays(w) <=> Stays(w)')
    BY <1>1 DEF Stays, At
  <1> QED  BY <1>1, <1>2, <1>3, <1>4, Zenon DEF QuietStep, Serves, At

LEMMA RemoveIsQuiet ==
  ASSUME StreamingTypeOK, NEW v \in Viewers, NEW pc \in {"withdraw", "remove"},
         RemoveViewer(v, pc), UNCHANGED <<live, faults>>
  PROVE  QuietStep
  <1> USE StreamingAssumption
  <1>1. CASE live[KeyOf[v]] = NoCapture
    <2>1. Finish(v) /\ UNCHANGED capture
      BY <1>1 DEF RemoveViewer
    <2> QED  BY <1>1, <2>1, FinishIsQuiet
  <1>2. CASE live[KeyOf[v]] # NoCapture
    <2> DEFINE h == live[KeyOf[v]]
    <2>1. /\ h \in Captures
          /\ capture'[h].state = capture[h].state
          /\ capture'[h].viewers = capture[h].viewers \ {v}
          /\ \A g \in Captures : g # h => capture'[g] = capture[g]
          /\ viewer'[v].pc = pc
          /\ \A w \in Viewers : w # v => viewer'[w] = viewer[w]
      BY <1>2, RemoveEffect
    <2>2. \A g \in Captures :
            /\ capture'[g].state = capture[g].state
            /\ Running(g)' <=> Running(g)
      BY <2>1 DEF Running
    <2>3. \A g \in Captures : \A w \in Viewers :
            w # v => (w \in capture'[g].viewers <=> w \in capture[g].viewers)
      BY <2>1
    <2>4. \A g \in Captures : \A w \in capture'[g].viewers : w \in capture[g].viewers
      BY <2>1
    <2>5. \A w \in Viewers :
            /\ Watches(w)' => w # v /\ Watches(w)
            /\ Stays(w) => Stays(w)' \/ w = v
            /\ At(w, "lookup")' => At(w, "lookup")
            /\ At(w, "count")' => At(w, "count")
      BY <2>1 DEF Watches, Stays, At
    <2>6. v \notin capture'[live'[KeyOf[v]]].viewers
      BY <2>1
    <2> HIDE DEF h
    <2>7. \A w \in Viewers : Watches(w)' =>
            Watches(w) /\ \A g \in Captures : Serves(g, w) => Serves(g, w)'
      BY <2>2, <2>3, <2>5 DEF Serves
    <2>8. \A w \in Viewers : Stays(w) =>
            \/ Stays(w)' \/ live'[KeyOf[w]] = NoCapture
            \/ w \notin capture'[live'[KeyOf[w]]].viewers
      BY <2>5, <2>6
    <2>9. UNCHANGED <<live, faults>>
      OBVIOUS
    <2> QED  BY <2>2, <2>4, <2>5, <2>7, <2>8, <2>9 DEF QuietStep
  <1> QED  BY <1>1, <1>2

LEMMA TeardownIsQuiet ==
  ASSUME StreamInv, NEW k \in Keys, Teardown(k), UNCHANGED faults,
         \A v \in Viewers :
           /\ viewer'[v].pc = viewer[v].pc
           /\ viewer'[v].socket # viewer[v].socket => viewer'[v].socket = "closing"
  PROVE  QuietStep
  <1> USE StreamingAssumption DEF StreamInv
  <1>1. /\ live' = [live EXCEPT ![k] = NoCapture]
        /\ \A h \in Captures : h # live[k] => capture'[h] = capture[h]
        /\ \A h \in Captures : h = live[k] => ~Running(h)'
    BY TeardownEffect
  <1>2. \A j \in Keys :
          \/ live'[j] = live[j]
          \/ live'[j] = NoCapture /\ \A g \in Captures : live[j] = g => ~Running(g)'
    BY <1>1 DEF StreamingTypeOK
  <1>3. \A g \in Captures :
          /\ Running(g)' => Running(g) /\ capture'[g] = capture[g]
          /\ Running(g) /\ ~Running(g)' => Stops(g)
    BY <1>1 DEF Running, Stops
  <1>4. \A g \in Captures : capture'[g].viewers = capture[g].viewers
    <2> SUFFICES ASSUME live[k] \in Captures
                 PROVE  capture'[live[k]].viewers = capture[live[k]].viewers
      BY <1>1
    <2>1. live[k] # NoCapture
      BY DEF Captures
    <2>2. capture' = [capture EXCEPT ![live[k]] =
            [capture[live[k]] EXCEPT !.state = "stopping", !.idleSince = "null"]]
      BY <2>1 DEF Teardown
    <2>3. capture[live[k]] \in Capture
      BY DEF StreamingTypeOK
    <2> QED  BY <2>2, <2>3 DEF StreamingTypeOK, Capture
  <1>5. \A w \in Viewers : (Watches(w)' => Watches(w)) /\ (Stays(w) => Stays(w)')
    BY DEF Watches, Stays, At
  <1>6. \A w \in Viewers : \A g \in Captures : Serves(g, w) => Serves(g, w)' \/ Stops(g)
    BY <1>3 DEF Serves
  <1>7. \A g \in Captures : capture[g].state = "none" <=> capture'[g].state = "none"
    <2>1. \A g \in Captures : live[k] = g => capture[g].state = "running"
      BY DEF MapIsRunning, Running, Captures
    <2>2. \A g \in Captures : live[k] = g => capture'[g].state = "stopping"
      <3> SUFFICES ASSUME live[k] \in Captures  PROVE capture'[live[k]].state = "stopping"
        OBVIOUS
      <3>1. capture' = [capture EXCEPT ![live[k]] =
              [capture[live[k]] EXCEPT !.state = "stopping", !.idleSince = "null"]]
        BY DEF Teardown, Captures
      <3>2. capture[live[k]] \in Capture
        BY DEF StreamingTypeOK
      <3> QED  BY <3>1, <3>2 DEF StreamingTypeOK, Capture
    <2> QED  BY <1>1, <2>1, <2>2
  <1>8. \A w \in Viewers : \A pc : At(w, pc)' <=> At(w, pc)
    BY DEF At
  <1> QED  BY <1>2, <1>3, <1>4, <1>5, <1>6, <1>7, <1>8 DEF QuietStep

\* Viewers of a running capture asked for what it captures.
ViewersOfKey ==
  \A g \in Captures : Running(g) => \A v \in capture[g].viewers : KeyOf[v] = KeyOf[g]

AttachInv == StreamInv /\ ViewersOfKey /\ ClosedViewersLeave

LEMMA StepIsQuiet ==
  ASSUME AttachInv, [StreamingNext]_streamVars
  PROVE  QuietStep \/ \E v \in Viewers : At(v, "count") /\ StartAndAttach(v)
  <1> USE StreamingAssumption DEF AttachInv, StreamInv
  <1>0. \A v \in Viewers, h \in Captures :
          /\ live[KeyOf[v]] = h => KeyOf[v] = KeyOf[h] /\ Running(h)
          /\ h \in Viewers
    BY DEF MapIsRunning, KeyOfCapture, Captures
  \* Steps that leave the map and what captures are and serve as they were.
  <1>1. ASSUME UNCHANGED live, faults' = 0 => faults = 0,
               \A g \in Captures : /\ capture'[g].state = capture[g].state
                                   /\ capture'[g].viewers = capture[g].viewers,
               \A v \in Viewers :
                 /\ At(v, "lookup")' => At(v, "lookup")
                 /\ At(v, "count")' => \/ At(v, "count")
                                       \/ At(v, "lookup") /\ live[KeyOf[v]] = NoCapture
                 /\ Watches(v)' => Watches(v)
                 /\ Stays(v) => Stays(v)'
        PROVE  QuietStep
    <2>1. \A g \in Captures : Running(g)' <=> Running(g)
      BY <1>1 DEF Running
    <2> QED  BY <1>1, <2>1 DEF QuietStep, Serves
  <1>2. CASE UNCHANGED streamVars
    BY <1>1, <1>2 DEF streamVars, At, Watches, Stays
  <1>3. ASSUME NEW v \in Viewers, viewer[v].pc \notin {"upsert", "joined"}, Dismiss(v)
        PROVE  QuietStep
    <2>1. Finish(v) /\ UNCHANGED <<capture, live, faults>>
      BY <1>3 DEF Dismiss, budgetVars
    <2>2. ~Stays(v)
      BY <1>3 DEF Stays, At
    <2> QED  BY <2>1, <2>2, FinishIsQuiet
  <1>4. ASSUME NEW v \in Viewers, RefuseDevice(v)  PROVE QuietStep
    BY <1>3, <1>4 DEF RefuseDevice, At
  <1>5. ASSUME NEW v \in Viewers, AddViewer(v)  PROVE QuietStep
    <2>1. CASE live[KeyOf[v]] # NoCapture /\ Attach(v, live[KeyOf[v]])
      <3>1. PICK h \in Captures : h = live[KeyOf[v]] /\ Running(h) /\ At(v, "lookup")
        BY <1>5, <2>1 DEF StreamingTypeOK, MapIsRunning, AddViewer
      <3>2. /\ Goto(v, "upsert") /\ UNCHANGED <<live, faults>>
            /\ capture'[h].state = capture[h].state
            /\ capture'[h].viewers = capture[h].viewers \cup {v}
            /\ \A g \in Captures : g # h => capture'[g] = capture[g]
        BY <2>1, <3>1, AttachEffect
      <3>3. /\ viewer'[v].pc = "upsert"
            /\ \A w \in Viewers : w # v => viewer'[w] = viewer[w]
        BY <3>2, GotoEffect
      <3>4. Joins(v, h) /\ Serves(h, v)'
        BY <3>1, <3>2, <3>3 DEF Joins, At, Serves, Running
      <3>5. \A g \in Captures :
              /\ capture'[g].state = capture[g].state
              /\ Running(g)' <=> Running(g)
              /\ \A w \in capture'[g].viewers : w \in capture[g].viewers \/ (w = v /\ g = h)
              /\ \A w \in capture[g].viewers : w \in capture'[g].viewers
        BY <3>2 DEF Running
      <3>6. \A w \in Viewers :
              /\ At(w, "lookup")' => At(w, "lookup")
              /\ At(w, "count")' => At(w, "count")
              /\ Watches(w)' => w = v \/ Watches(w)
              /\ Stays(w) => Stays(w)'
        BY <3>3 DEF At, Watches, Stays
      <3>7. \A w \in Viewers, g \in Captures : Serves(g, w) => Serves(g, w)'
        BY <3>5 DEF Serves
      <3> QED  BY <3>1, <3>2, <3>4, <3>5, <3>6, <3>7 DEF QuietStep
    <2>2. CASE /\ live[KeyOf[v]] = NoCapture /\ Goto(v, "count")
               /\ UNCHANGED <<capture, live, active, stopping, loop, budgetVars>>
      <3>1. /\ viewer'[v].pc = "count" /\ viewer'[v].socket = viewer[v].socket
            /\ \A w \in Viewers : w # v => viewer'[w] = viewer[w]
        BY <2>2, GotoEffect
      <3>2. At(v, "lookup")
        BY <1>5 DEF AddViewer
      <3> QED  BY <1>1, <2>2, <3>1, <3>2 DEF At, Watches, Stays, budgetVars
    <2> QED  BY <1>5, <2>1, <2>2 DEF AddViewer
  <1>6. ASSUME NEW v \in Viewers, AssertCapacity(v)
        PROVE  QuietStep \/ (At(v, "count") /\ StartAndAttach(v))
    BY <1>3, <1>6 DEF AssertCapacity, At
  <1>7. ASSUME NEW v \in Viewers, Upserted(v)  PROVE QuietStep
    <2>1. CASE RemoveViewer(v, "withdraw")
      BY <1>7, <2>1, RemoveIsQuiet DEF Upserted, budgetVars
    <2>2. CASE Goto(v, "joined") /\ UNCHANGED capture /\ viewer[v].socket # "closed"
      <3>1. /\ viewer'[v].pc = "joined" /\ viewer'[v].socket = viewer[v].socket
            /\ \A w \in Viewers : w # v => viewer'[w] = viewer[w]
        BY <2>2, GotoEffect
      <3>2. At(v, "upsert") /\ UNCHANGED <<live, faults>>
        BY <1>7 DEF Upserted, budgetVars
      <3> QED  BY <1>1, <2>2, <3>1, <3>2 DEF At, Watches, Stays
    <2> QED  BY <1>7, <2>1, <2>2 DEF Upserted
  <1>8. ASSUME NEW v \in Viewers, Removed(v)  PROVE QuietStep
    <2> DEFINE h == viewer[v].leaves
               since == IF viewer[v].last /\ Running(h) THEN "recent" ELSE capture[h].idleSince
    <2>1. Finish(v) /\ UNCHANGED <<live, faults>> /\ ~Stays(v)
      BY <1>8 DEF Removed, budgetVars, Stays, At
    <2>2. capture' = [capture EXCEPT ![h] = [capture[h] EXCEPT !.idleSince = since]]
      BY <1>8 DEF Removed
    <2>3. \A g \in Captures : /\ capture'[g].state = capture[g].state
                              /\ capture'[g].viewers = capture[g].viewers
      <3> HIDE DEF h
      <3>1. \A g \in Captures : capture[g] \in Capture
        BY DEF StreamingTypeOK
      <3>2. \A g \in Captures : capture'[g] =
              IF g = h THEN [capture[g] EXCEPT !.idleSince = since] ELSE capture[g]
        BY <2>2 DEF StreamingTypeOK
      <3> QED  BY <3>1, <3>2 DEF Capture
    <2> QED  BY <2>1, <2>3, FinishIsQuiet
  <1>9. ASSUME NEW v \in Viewers, SocketCloses(v)  PROVE QuietStep
    <2>1. CASE RemoveViewer(v, "remove")
      BY <1>9, <2>1, RemoveIsQuiet DEF SocketCloses, budgetVars
    <2>2. CASE /\ UNCHANGED capture /\ viewer[v].pc \in {"lookup", "count", "upsert"}
               /\ \/ viewer' = [viewer EXCEPT ![v].socket = "unheard"]
                  \/ viewer' = [viewer EXCEPT ![v].socket = "closed"]
      <3>1. \A w \in Viewers : /\ viewer'[w].pc = viewer[w].pc
                               /\ \/ viewer'[w].socket = viewer[w].socket
                                  \/ ~At(w, "joined") /\ viewer'[w].socket # "open"
        BY <2>2 DEF StreamingTypeOK, Viewer, At
      <3>2. UNCHANGED <<capture, live, faults>>
        BY <1>9, <2>2 DEF SocketCloses, budgetVars
      <3> QED  BY <1>1, <3>1, <3>2 DEF At, Watches, Stays
    <2> QED  BY <1>9, <2>1, <2>2 DEF SocketCloses, At
  <1>10. ASSUME NEW v \in Viewers, UpsertFails(v) \/ WithdrawFails(v)  PROVE QuietStep
    <2>1. Finish(v) /\ UNCHANGED <<capture, live>> /\ faults' = faults + 1
      BY <1>10 DEF UpsertFails, WithdrawFails, Fault
    <2>2. faults' # 0
      BY <2>1 DEF StreamingTypeOK
    <2> QED  BY <2>1, <2>2, FinishIsQuiet
  <1>11. ASSUME NEW h \in Captures, CaptureError(h)  PROVE QuietStep
    <2>1. KeyOfCapture(h) \in Keys /\ Teardown(KeyOfCapture(h)) /\ UNCHANGED faults
      BY <1>11 DEF CaptureError, KeyOfCapture, Captures, budgetVars
    <2>2. \A w \in Viewers :
            /\ viewer'[w].pc = viewer[w].pc
            /\ viewer'[w].socket # viewer[w].socket => viewer'[w].socket = "closing"
      BY <1>11 DEF CaptureError, StreamingTypeOK, Viewer
    <2> QED  BY <2>1, <2>2, TeardownIsQuiet
  <1>12. ASSUME NEW l \in Loops, NEW keys \in SUBSET Keys, TeardownOneOf(l, keys)
         PROVE  QuietStep
    BY <1>12, TeardownIsQuiet DEF TeardownOneOf, budgetVars
  <1>13. ASSUME NEW h \in Captures, ProcessEnds(h)  PROVE QuietStep
    <2>1. UNCHANGED <<viewer, live, faults>>
      BY <1>13 DEF ProcessEnds, budgetVars
    <2>2. capture'[h] = [NotStarted EXCEPT !.state = "stopped"]
      BY <1>13 DEF ProcessEnds, StreamingTypeOK
    <2>3. capture'[h].state = "stopped" /\ capture'[h].viewers = {}
      BY <2>2 DEF NotStarted
    <2>4. capture[h].state = "stopping" /\ \A g \in Captures : g # h => capture'[g] = capture[g]
      BY <1>13 DEF ProcessEnds, StreamingTypeOK
    <2>5. \A g \in Captures :
            /\ Running(g)' <=> Running(g)
            /\ capture[g].state = "none" <=> capture'[g].state = "none"
            /\ \A w \in capture'[g].viewers : w \in capture[g].viewers
            /\ Running(g) => capture'[g].viewers = capture[g].viewers
      BY <2>3, <2>4 DEF Running
    <2>6. \A k \in Keys : live[k] # NoCapture => live[k] # h
      BY <2>4 DEF MapIsRunning, Running
    <2>7. \A w \in Viewers : (Watches(w)' <=> Watches(w)) /\ (Stays(w)' <=> Stays(w))
      BY <2>1 DEF Watches, Stays, At
    <2>8. \A w \in Viewers, g \in Captures : Serves(g, w)' <=> Serves(g, w)
      BY <2>5 DEF Serves
    <2> QED  BY <2>1, <2>5, <2>7, <2>8 DEF QuietStep, At
  <1>14. ASSUME NEW h \in Captures, GracePeriodEnds(h)  PROVE QuietStep
    <2>1. UNCHANGED <<viewer, live, faults>>
      BY <1>14 DEF GracePeriodEnds, budgetVars
    <2>2. \A g \in Captures : /\ capture'[g].state = capture[g].state
                              /\ capture'[g].viewers = capture[g].viewers
      BY <1>14 DEF GracePeriodEnds, StreamingTypeOK, Capture
    <2> QED  BY <1>1, <2>1, <2>2 DEF At, Watches, Stays
  <1>15. ASSUME NEW h \in Captures, SessionStopped(h) \/ SessionNotStopped(h)  PROVE QuietStep
    <2>1. UNCHANGED <<viewer, capture, live>> /\ (faults' = 0 => faults = 0)
      BY <1>15 DEF SessionStopped, SessionNotStopped, Fault, budgetVars, StreamingTypeOK
    <2> QED  BY <1>1, <2>1 DEF At, Watches, Stays
  <1>16. CASE Crash
    <2>1. \A g \in Captures :
            /\ ~Running(g)' /\ capture'[g].viewers = {}
            /\ capture[g].state = "none" <=> capture'[g].state = "none"
      BY <1>16 DEF Crash, Running, NotStarted
    <2>2. \A w \in Viewers : viewer'[w] = viewer[w] \/ viewer'[w] = Gone
      BY <1>16 DEF Crash
    <2>3. \A w \in Viewers : viewer'[w].pc \in {"lookup", "gone"}
      BY <1>16 DEF Crash, Gone, At
    <2>4. Gone.pc = "gone"
      BY DEF Gone
    <2>5. \A w \in Viewers : /\ ~At(w, "count")' /\ ~Watches(w)'
                             /\ At(w, "lookup")' => At(w, "lookup")
      BY <2>2, <2>3, <2>4 DEF At, Watches
    <2>6. (\A k \in Keys : live'[k] = NoCapture) /\ UNCHANGED faults
      BY <1>16 DEF Crash
    <2> QED  BY <2>1, <2>5, <2>6 DEF QuietStep
  <1>17. ASSUME NEW l \in Loops, LoopGoesOn(l)  PROVE QuietStep
    BY <1>12, <1>17 DEF LoopGoesOn, StreamingTypeOK, Loop
  <1>18. ASSUME NEW k \in Keys, StopForDevice(DeviceOf[k])  PROVE QuietStep
    BY <1>12, <1>18 DEF StopForDevice, Loops
  <1>19. CASE SweepIdle
    BY <1>12, <1>19 DEF SweepIdle, IdleKeys, Loops
  <1> QED  BY <1>2, <1>4, <1>5, <1>6, <1>7, <1>8, <1>9, <1>10, <1>11, <1>13, <1>14, <1>15,
              <1>16, <1>17, <1>18, <1>19 DEF StreamingNext, Serve

LEMMA StartChanges ==
  ASSUME AttachInv, NEW v \in Viewers, At(v, "count"), StartAndAttach(v)
  PROVE  /\ live'[KeyOf[v]] = v /\ \A k \in Keys : k # KeyOf[v] => live'[k] = live[k]
         /\ Running(v)' /\ capture'[v].viewers = {v}
         /\ \A g \in Captures : g # v => capture'[g] = capture[g] /\ (Running(g)' <=> Running(g))
         /\ viewer'[v].pc = "upsert"
         /\ \A w \in Viewers : w # v => viewer'[w] = viewer[w]
         /\ UNCHANGED faults
  <1> USE StreamingAssumption DEF AttachInv, StreamInv
  <1>1. /\ Goto(v, "upsert") /\ UNCHANGED faults
        /\ live' = [live EXCEPT ![KeyOf[v]] = v]
        /\ capture'[v].state = "running" /\ capture'[v].viewers = {v}
        /\ \A g \in Captures : g # v => capture'[g] = capture[g]
    BY StartEffect
  <1>2. viewer'[v].pc = "upsert" /\ \A w \in Viewers : w # v => viewer'[w] = viewer[w]
    BY <1>1, GotoEffect
  <1> QED  BY <1>1, <1>2 DEF Running, StreamingTypeOK

LEMMA AttachInvKept ==
  ASSUME AttachInv, [StreamingNext]_streamVars
  PROVE  AttachInv'
  <1> USE StreamingAssumption DEF AttachInv
  <1>1. StreamInv'
    BY TypesKept, StreamInvKept DEF StreamInv
  <1>2. \A g \in Captures : capture[g].viewers \subseteq Viewers
    BY DEF StreamInv, StreamingTypeOK, Capture
  <1>3. \A k \in Keys : live[k] # NoCapture =>
          live[k] \in Captures /\ Running(live[k]) /\ KeyOf[live[k]] = k
    BY DEF StreamInv, StreamingTypeOK, MapIsRunning, KeyOfCapture
  <1>4. CASE QuietStep
    <2>1. ViewersOfKey'
      <3> SUFFICES ASSUME NEW g \in Captures, Running(g)', NEW v \in capture'[g].viewers
                   PROVE  KeyOf[v] = KeyOf[g]
        BY DEF ViewersOfKey
      <3>1. Running(g) /\ (v \in capture[g].viewers \/ Joins(v, g))
        BY <1>4 DEF QuietStep
      <3>2. CASE v \in capture[g].viewers
        BY <3>1, <3>2 DEF ViewersOfKey
      <3>3. CASE Joins(v, g)
        <4>1. v \in Viewers
          BY <1>1 DEF StreamInv, StreamingTypeOK, Capture
        <4> QED  BY <1>3, <3>3, <4>1 DEF Joins, Captures
      <3> QED  BY <3>1, <3>2, <3>3
    <2>2. ClosedViewersLeave'
      <3> SUFFICES ASSUME faults' = 0, NEW k \in Keys, live'[k] # NoCapture,
                          NEW v \in capture'[live'[k]].viewers
                   PROVE  Stays(v)'
        BY DEF ClosedViewersLeave, Stays, At
      <3>1. PICK g \in Captures : g = live[k] /\ g = live'[k] /\ Running(g) /\ KeyOf[g] = k
        BY <1>3, <1>4 DEF QuietStep
      <3>2. v \in capture[g].viewers \/ Joins(v, g)
        BY <1>4, <3>1 DEF QuietStep
      <3>3. CASE Joins(v, g)
        BY <3>3 DEF Joins, Stays
      <3>4. CASE v \in capture[g].viewers
        <4>1. v \in Viewers /\ KeyOf[v] = k /\ faults = 0
          BY <1>2, <1>4, <3>1, <3>4 DEF ViewersOfKey, QuietStep
        <4>2. Stays(v)
          BY <3>1, <3>4, <4>1 DEF ClosedViewersLeave, Stays
        <4> QED  BY <1>4, <3>1, <4>1, <4>2 DEF QuietStep
      <3> QED  BY <3>2, <3>3, <3>4
    <2> QED  BY <1>1, <2>1, <2>2
  <1>5. ASSUME NEW v \in Viewers, At(v, "count"), StartAndAttach(v)  PROVE AttachInv'
    <2>1. /\ live'[KeyOf[v]] = v /\ \A k \in Keys : k # KeyOf[v] => live'[k] = live[k]
          /\ capture'[v].viewers = {v}
          /\ \A g \in Captures : g # v => capture'[g] = capture[g] /\ (Running(g)' <=> Running(g))
          /\ viewer'[v].pc = "upsert"
          /\ \A w \in Viewers : w # v => viewer'[w] = viewer[w]
          /\ UNCHANGED faults
      BY <1>5, StartChanges
    <2>2. ViewersOfKey'
      BY <2>1 DEF ViewersOfKey
    <2>3. ClosedViewersLeave'
      <3> SUFFICES ASSUME faults = 0, NEW k \in Keys, live'[k] # NoCapture,
                          NEW w \in capture'[live'[k]].viewers
                   PROVE  Stays(w)'
        BY <2>1 DEF ClosedViewersLeave, Stays, At
      <3>1. CASE k = KeyOf[v]
        BY <2>1, <3>1 DEF Stays, At
      <3>2. CASE k # KeyOf[v]
        <4>1. live'[k] = live[k] /\ live[k] \in Captures /\ live[k] # v
          BY <1>3, <2>1, <3>2
        <4>2. w \in capture[live[k]].viewers /\ w \in Viewers
          BY <1>2, <2>1, <4>1
        <4>3. Stays(w)
          BY <4>1, <4>2 DEF ClosedViewersLeave, Stays
        <4> QED  BY <2>1, <4>2, <4>3 DEF Stays, At
      <3> QED  BY <3>1, <3>2
    <2> QED  BY <1>1, <2>2, <2>3
  <1> QED  BY <1>4, <1>5, StepIsQuiet

LEMMA AttachInvInit == StreamingInit => AttachInv
  BY StreamInvInit
     DEF AttachInv, StreamingInit, ViewersOfKey, ClosedViewersLeave, Running, NotStarted

LEMMA AttachInvAlways == StreamingSpec => []AttachInv
  BY AttachInvInit, AttachInvKept, PTL DEF StreamingSpec

\* A viewer whose close event was heard leaves the capture its key has, at
\* whatever await of its attach the event came, and however many viewers, starts,
\* errors and teardowns there are, unless a call of the database threw.
THEOREM ClosedViewersAlwaysLeave == StreamingSpec => []ClosedViewersLeave
  BY AttachInvAlways, PTL DEF AttachInv

-----------------------------------------------------------------------------
(* Captures and their history *)

NotYetStarted ==
  \A v \in Viewers : At(v, "lookup") \/ At(v, "count") => capture[v].state = "none"

\* Who is being counted while its key has a capture was so when that one started.
CountedBeside ==
  \A v \in Viewers : At(v, "count") /\ live[KeyOf[v]] # NoCapture =>
    v \in beside[live[KeyOf[v]]]

AttachedAreServed ==
  \A v \in Viewers : Watches(v) =>
    (\E g \in Captures : Serves(g, v)) \/ KeyOf[v] \in silenced

BesideViewers == \A g \in Captures : beside[g] \subseteq Viewers

HistoryInv ==
  /\ AttachInv /\ BesideViewers
  /\ NotYetStarted /\ CountedBeside /\ RunningIsListed /\ AttachedAreServed

LEMMA HistoryOfStep ==
  ASSUME AttachInv, HistoryNext
  PROVE  /\ silenced \subseteq silenced'
         /\ \A g \in Captures :
              /\ Starts(g) => beside'[g] = Counting(KeyOf[g]) \ {g}
              /\ Running(g)' /\ ~Starts(g) => beside'[g] = beside[g]
              /\ Stops(g) => KeyOf[g] \in silenced' \/ CaptureError(g)
  BY Zenon DEF HistoryNext, KeyOfCapture

LEMMA QuietHistory ==
  ASSUME HistoryInv, HistoryNext, QuietStep
  PROVE  NotYetStarted' /\ CountedBeside' /\ RunningIsListed' /\ AttachedAreServed'
  <1> USE StreamingAssumption DEF HistoryInv, AttachInv, StreamInv
  <1>1. \A k \in Keys : live[k] # NoCapture =>
          live[k] \in Captures /\ Running(live[k]) /\ KeyOf[live[k]] = k
    BY DEF StreamingTypeOK, MapIsRunning, KeyOfCapture
  <1>2. \A g \in Captures : Running(g)' => Running(g) /\ beside'[g] = beside[g]
    <2>1. \A g \in Captures : Running(g)' => ~Starts(g)
      BY DEF QuietStep, Starts, Running
    <2> QED  BY <2>1, HistoryOfStep DEF QuietStep
  <1>3. NotYetStarted'
    BY DEF QuietStep, NotYetStarted, Captures
  <1>4. CountedBeside'
    <2> SUFFICES ASSUME NEW v \in Viewers, At(v, "count")', live'[KeyOf[v]] # NoCapture
                 PROVE  v \in beside'[live'[KeyOf[v]]]
      BY DEF CountedBeside
    <2>1. PICK g \in Captures : g = live[KeyOf[v]] /\ g = live'[KeyOf[v]]
      BY <1>1 DEF QuietStep
    <2>2. StreamInv'
      BY TypesKept, StreamInvKept DEF HistoryNext
    <2>3. Running(g)'
      <3>1. live'[KeyOf[v]] # NoCapture => Running(g)'
        BY <2>1, <2>2 DEF MapIsRunning, Running
      <3> QED  BY <3>1
    <2>4. At(v, "count")
      BY <2>1 DEF QuietStep, Captures
    <2> QED  BY <1>2, <2>1, <2>3, <2>4 DEF CountedBeside
  <1>5. RunningIsListed'
    <2> SUFFICES ASSUME NEW g \in Captures, Running(g)'
                 PROVE  live'[KeyOf[g]] = g \/ \E v \in beside'[g] : capture'[v].state # "none"
      BY DEF RunningIsListed, KeyOfCapture
    <2>1. Running(g) /\ beside'[g] = beside[g]
      BY <1>2
    <2>2. CASE live[KeyOf[g]] = g
      BY <2>2 DEF QuietStep, Captures
    <2>3. CASE \E v \in beside[g] : capture[v].state # "none"
      <3>1. \A w \in beside[g] : capture[w].state # "none" => capture'[w].state # "none"
        BY DEF QuietStep, BesideViewers, Captures
      <3> QED  BY <2>1, <2>3, <3>1
    <2> QED  BY <2>1, <2>2, <2>3 DEF RunningIsListed, KeyOfCapture
  <1>6. AttachedAreServed'
    <2> SUFFICES ASSUME NEW v \in Viewers, Watches(v)', ~\E g \in Captures : Serves(g, v)'
                 PROVE  KeyOf[v] \in silenced'
      BY DEF AttachedAreServed
    <2>1. Watches(v) /\ \A g \in Captures : Serves(g, v) => Stops(g)
      BY DEF QuietStep
    <2>2. CASE KeyOf[v] \in silenced
      BY <2>2, HistoryOfStep
    <2>3. ASSUME NEW g \in Captures, Serves(g, v)  PROVE KeyOf[v] \in silenced'
      <3>1. Stops(g) /\ KeyOf[v] = KeyOf[g]
        BY <2>1, <2>3 DEF Serves, ViewersOfKey
      <3>2. ~CaptureError(g)
        <4>1. CaptureError(g) => viewer'[v].socket # "open"
          BY <2>1, <2>3 DEF CaptureError, Watches, Serves, StreamingTypeOK, Viewer
        <4> QED  BY <4>1 DEF Watches
      <3> QED  BY <3>1, <3>2, HistoryOfStep
    <2> QED  BY <2>1, <2>2, <2>3 DEF AttachedAreServed
  <1> QED  BY <1>3, <1>4, <1>5, <1>6

LEMMA StartHistory ==
  ASSUME HistoryInv, HistoryNext, NEW v \in Viewers, At(v, "count"), StartAndAttach(v)
  PROVE  NotYetStarted' /\ CountedBeside' /\ RunningIsListed' /\ AttachedAreServed'
  <1> USE StreamingAssumption DEF HistoryInv
  <1>1. /\ live'[KeyOf[v]] = v /\ \A k \in Keys : k # KeyOf[v] => live'[k] = live[k]
        /\ Running(v)' /\ capture'[v].viewers = {v}
        /\ \A g \in Captures : g # v => capture'[g] = capture[g] /\ (Running(g)' <=> Running(g))
        /\ viewer'[v].pc = "upsert"
        /\ \A w \in Viewers : w # v => viewer'[w] = viewer[w]
    BY StartChanges
  <1>2. Starts(v) /\ v \in Captures
    BY <1>1 DEF Starts, NotYetStarted, Captures
  <1>3. beside'[v] = Counting(KeyOf[v]) \ {v}
    BY <1>2, HistoryOfStep
  <1>4. \A g \in Captures : g # v /\ Running(g) => beside'[g] = beside[g]
    <2>1. \A g \in Captures : Running(g) => ~Starts(g)
      BY DEF Starts, Running
    <2> QED  BY <1>1, <2>1, HistoryOfStep
  <1>5. NotYetStarted'
    BY <1>1 DEF NotYetStarted, At, Captures
  <1>6. CountedBeside'
    <2> SUFFICES ASSUME NEW w \in Viewers, w # v, At(w, "count"), live'[KeyOf[w]] # NoCapture
                 PROVE  w \in beside'[live'[KeyOf[w]]]
      BY <1>1 DEF CountedBeside, At
    <2>1. CASE KeyOf[w] = KeyOf[v]
      BY <1>1, <1>3, <2>1 DEF Counting
    <2>2. CASE KeyOf[w] # KeyOf[v]
      <3>1. PICK g \in Captures : g = live[KeyOf[w]] /\ g = live'[KeyOf[w]] /\ Running(g) /\ g # v
        BY <1>1, <2>2
           DEF AttachInv, StreamInv, StreamingTypeOK, MapIsRunning, KeyOfCapture, Captures
      <3>2. g # NoCapture
        BY DEF Captures
      <3> QED  BY <1>4, <3>1, <3>2 DEF CountedBeside
    <2> QED  BY <2>1, <2>2
  <1>7. RunningIsListed'
    <2> SUFFICES ASSUME NEW g \in Captures, Running(g), g # v
                 PROVE  live'[KeyOf[g]] = g \/ \E w \in beside'[g] : capture'[w].state # "none"
      BY <1>1 DEF RunningIsListed, KeyOfCapture
    <2>1. capture'[v].state # "none"
      BY <1>1 DEF Running
    <2>2. \A w \in Captures : capture[w].state # "none" => capture'[w].state # "none"
      BY <1>1, <2>1
    <2>3. CASE live[KeyOf[g]] = g /\ KeyOf[g] # KeyOf[v]
      BY <1>1, <2>3 DEF Captures
    <2>4. CASE live[KeyOf[g]] = g /\ KeyOf[g] = KeyOf[v]
      <3>1. v \in beside[g]
        BY <2>4 DEF CountedBeside, Captures
      <3> QED  BY <1>4, <2>1, <3>1
    <2>5. CASE \E w \in beside[g] : capture[w].state # "none"
      <3>1. PICK w \in beside[g] : capture[w].state # "none"
        BY <2>5
      <3>2. capture'[w].state # "none"
        BY <1>1, <2>1, <3>1, <1>2 DEF StartAndAttach, AttachInv, StreamInv, StreamingTypeOK
      <3> QED  BY <1>4, <3>1, <3>2
    <2> QED  BY <2>3, <2>4, <2>5 DEF RunningIsListed, KeyOfCapture
  <1>8. AttachedAreServed'
    <2> SUFFICES ASSUME NEW w \in Viewers, Watches(w)'
                 PROVE  (\E g \in Captures : Serves(g, w)') \/ KeyOf[w] \in silenced'
      BY DEF AttachedAreServed
    <2>1. CASE w = v
      BY <1>1, <1>2, <2>1 DEF Serves
    <2>2. CASE w # v
      <3>1. Watches(w)
        BY <1>1, <2>2 DEF Watches
      <3>2. \A g \in Captures : Serves(g, w) => Serves(g, w)'
        BY <1>1, <1>2 DEF Serves, Starts, Running
      <3> QED  BY <3>1, <3>2, HistoryOfStep DEF AttachedAreServed
    <2> QED  BY <2>1, <2>2
  <1> QED  BY <1>5, <1>6, <1>7, <1>8

LEMMA HistoryInvAlways == HistorySpec => []HistoryInv
  <1> USE DEF HistoryInv
  <1>1. HistoryInit => HistoryInv
    <2> SUFFICES ASSUME HistoryInit  PROVE HistoryInv
      OBVIOUS
    <2>1. /\ \A g \in Captures : capture[g].state = "none"
          /\ \A v \in Viewers : viewer[v].pc = "lookup"
      BY DEF HistoryInit, StreamingInit, NotStarted
    <2>2. AttachInv
      BY AttachInvInit DEF HistoryInit
    <2>3. \A g \in Captures : ~Running(g)
      BY <2>1 DEF Running
    <2>4. BesideViewers
      BY DEF HistoryInit, BesideViewers
    <2> QED  BY <2>1, <2>2, <2>3, <2>4
             DEF NotYetStarted, CountedBeside, RunningIsListed, AttachedAreServed, Watches, At,
                 Captures
  <1>2. ASSUME HistoryInv, [HistoryNext]_historyVars  PROVE HistoryInv'
    <2>1. CASE UNCHANGED historyVars
      <3>1. AttachInv'
        BY <1>2, <2>1, AttachInvKept DEF historyVars
      <3> QED  BY <1>2, <2>1, <3>1
               DEF historyVars, streamVars, BesideViewers, NotYetStarted, CountedBeside, RunningIsListed,
                   AttachedAreServed, Watches, Serves, Running, At, KeyOfCapture
    <2>2. CASE HistoryNext
      <3>1. AttachInv'
        BY <1>2, <2>2, AttachInvKept DEF HistoryNext
      <3>2. QuietStep \/ \E v \in Viewers : At(v, "count") /\ StartAndAttach(v)
        BY <1>2, <2>2, StepIsQuiet DEF HistoryNext
      <3>3. BesideViewers'
        BY <1>2, <2>2 DEF HistoryNext, BesideViewers, Counting
      <3> QED  BY <1>2, <2>2, <3>1, <3>2, <3>3, QuietHistory, StartHistory
    <2> QED  BY <1>2, <2>1, <2>2
  <1> QED  BY <1>1, <1>2, PTL DEF HistorySpec

\* A running capture is the one its key has in the map, unless a viewer that was
\* counted while it started has since started one of its own, for any number of
\* viewers, keys, faults and crashes.
THEOREM RunningIsAlwaysListed == HistorySpec => []RunningIsListed
  BY HistoryInvAlways, PTL DEF HistoryInv

\* Who has joined watches a running capture, or is told: only an operator, a
\* sweep, the error of another capture of the key or a crash stops one silently.
THEOREM WatchersAreAlwaysServed == HistorySpec => []WatchersAreServed
  <1>1. HistoryInv => WatchersAreServed
    BY DEF HistoryInv, AttachedAreServed, WatchersAreServed, Watches, Serves, At
  <1> QED  BY <1>1, HistoryInvAlways, PTL
=============================================================================
