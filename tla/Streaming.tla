------------------------------ MODULE Streaming ------------------------------
(***************************************************************************)
(* Live views of devices: the sockets of streaming.routes.ts and the       *)
(* captures of streaming.service.ts, which are meant to be shared, one per *)
(* key <<machineId, deviceUdid, protocol>>, whatever the number of viewers.*)
(*                                                                         *)
(* One action is what happens between two awaits. The hub has a pool of    *)
(* database connections, so updates of a session that are under way at     *)
(* once may be applied in any order. Of a session only whether it is      *)
(* active is kept: nothing reads the lists of viewers in it back.          *)
(***************************************************************************)
EXTENDS Naturals, FiniteSets

CONSTANTS
  Viewers,      \* sockets; each one asks for one stream, once
  Keys,         \* <<machineId, deviceUdid, protocol>>, as values
  KeyOf,        \* KeyOf[v]: the stream that v asks for
  DeviceOf,     \* DeviceOf[k]: the device of k
  CountedWith,  \* CountedWith[k]: the keys whose active sessions are counted
                \* before k is captured; empty when k's platform has no cap
  StreamCap,    \* IOS_SIMULATOR_STREAM_CAP or ANDROID_STREAM_CAP
  LateErrors,   \* keys whose source raises errors after it was stopped
  NoCapture,    \* no capture of a key
  (* what the environment of the hub may do *)
  MaxTroubles   \* database calls that throw and crashes of the hub process

ASSUME StreamingAssumption ==
  /\ KeyOf \in [Viewers -> Keys]
  /\ CountedWith \in [Keys -> SUBSET Keys] /\ IsFiniteSet(Keys)
  /\ StreamCap \in Nat /\ LateErrors \subseteq Keys /\ NoCapture \notin Viewers
  /\ MaxTroubles \in Nat

VARIABLES
  viewer,    \* viewer[v]: how far the handler of socket v is
  capture,   \* capture[h]: the capture that viewer h had to start
  live,      \* the captures map: live[k] is the capture of k, or NoCapture
  active,    \* keys whose StreamSession has captureStatus active
  stopping,  \* captures whose session is being set to stopped
  loop,      \* loop[l]: keys that a loop of teardowns still has before it
  faults, crashes   \* how often the environment has struck

budgetVars == <<faults, crashes>>
streamVars == <<viewer, capture, live, active, stopping, loop, faults, crashes>>

Captures == Viewers
KeyOfCapture(h) == KeyOf[h]
Loops == {"sweepIdle", "stopForDevice"}

\* A handler is at "lookup" until its device has been looked up, if its client
\* ever connects. A socket is closing once the hub closed it, unheard when its
\* close event came before anybody listened to it.
Viewer == [pc : {"lookup", "count", "upsert", "joined", "withdraw", "remove", "gone"},
           socket : {"open", "closing", "closed", "unheard"},
           leaves : Captures \cup {NoCapture},   \* the capture it is removed from
           last : BOOLEAN]    \* its removal left that capture without viewers

\* A capture is stopping while the last output of its process may still come.
Capture == [state : {"none", "running", "stopping", "stopped"},
            viewers : SUBSET Viewers,
            idleSince : {"null", "recent", "long ago"}]
Loop == [keys : SUBSET Keys, awaits : Captures \cup {NoCapture}]

StreamingTypeOK ==
  /\ viewer \in [Viewers -> Viewer]
  /\ capture \in [Captures -> Capture]
  /\ live \in [Keys -> Captures \cup {NoCapture}]
  /\ active \in SUBSET Keys
  /\ stopping \in SUBSET Captures
  /\ loop \in [Loops -> Loop]
  /\ faults \in Nat /\ crashes \in Nat

NotStarted == [state |-> "none", viewers |-> {}, idleSince |-> "null"]
IdleLoop == [keys |-> {}, awaits |-> NoCapture]

StreamingInit ==
  /\ viewer = [v \in Viewers |-> [pc |-> "lookup", socket |-> "open",
                                  leaves |-> NoCapture, last |-> FALSE]]
  /\ capture = [h \in Captures |-> NotStarted]
  /\ live = [k \in Keys |-> NoCapture]
  /\ active = {}
  /\ stopping = {}
  /\ loop = [l \in Loops |-> IdleLoop]
  /\ faults = 0 /\ crashes = 0

Trouble == faults + crashes < MaxTroubles
Fault == Trouble /\ faults' = faults + 1 /\ UNCHANGED crashes

At(v, pc) == viewer[v].pc = pc
Goto(v, pc) == viewer' = [viewer EXCEPT ![v].pc = pc]
Gone == [pc |-> "gone", socket |-> "closed", leaves |-> NoCapture, last |-> FALSE]
Finish(v) == viewer' = [viewer EXCEPT ![v] = Gone]
Running(h) == capture[h].state = "running"

-----------------------------------------------------------------------------
(* The socket's handler up to the point where its viewer is attached *)

\* v joins the capture h, and the update of the session is on its way.
Attach(v, h) ==
  /\ capture' = [capture EXCEPT ![h].viewers = @ \cup {v}, ![h].idleSince = "null"]
  /\ Goto(v, "upsert")
  /\ UNCHANGED <<live, active, stopping, loop, budgetVars>>

\* startCapture, whatever the map holds for the key by now; then v joins.
StartAndAttach(v) ==
  /\ capture' = [capture EXCEPT ![v] = [state |-> "running", viewers |-> {v},
                                        idleSince |-> "null"]]
  /\ live' = [live EXCEPT ![KeyOf[v]] = v]
  /\ Goto(v, "upsert")
  /\ UNCHANGED <<active, stopping, loop, budgetVars>>

Dismiss(v) ==
  /\ Finish(v)
  /\ UNCHANGED <<capture, live, active, stopping, loop, budgetVars>>

\* The device is unknown, offline or unreachable.
RefuseDevice(v) == At(v, "lookup") /\ Dismiss(v)

\* Variant: every viewer starts a capture.
AddViewerAlone(v) == At(v, "lookup") /\ StartAndAttach(v)

\* addViewer up to its first await: of the session's update, or of assertCapacity,
\* which a platform without a cap is not spared.
AddViewer(v) ==
  /\ At(v, "lookup")
  /\ LET h == live[KeyOf[v]] IN
     \/ h # NoCapture /\ Attach(v, h)
     \/ /\ h = NoCapture
        /\ Goto(v, "count")
        /\ UNCHANGED <<capture, live, active, stopping, loop, budgetVars>>

\* assertCapacity: the sessions are counted in the database. What is counted is
\* acted on at once; nothing else the properties speak of reads a session.
Full(k) == CountedWith[k] # {} /\ Cardinality(active \cap CountedWith[k]) >= StreamCap

\* The map is not looked at again.
AssertCapacity(v) ==
  /\ At(v, "count")
  /\ IF Full(KeyOf[v]) THEN Dismiss(v) ELSE StartAndAttach(v)

-----------------------------------------------------------------------------
(* Attached viewers, and how they leave *)

\* removeViewer up to its await: it is the key's present capture that v leaves.
RemoveViewer(v, pc) ==
  LET h == live[KeyOf[v]] IN
  IF h = NoCapture THEN Finish(v) /\ UNCHANGED capture
  ELSE /\ capture' = [capture EXCEPT ![h].viewers = @ \ {v}]
       /\ viewer' = [viewer EXCEPT ![v] =
            [pc |-> pc, socket |-> "closed", leaves |-> h,
             last |-> capture[h].viewers \ {v} = {}]]

\* Variant: a close during the attach is not noticed.
UpsertedUnaware(v) ==
  /\ At(v, "upsert")
  /\ active' = active \cup {KeyOf[v]}
  /\ Goto(v, "joined")
  /\ UNCHANGED <<capture, live, stopping, loop, budgetVars>>

\* upsertSession is answered: the viewer is in, unless it has left already.
Upserted(v) ==
  /\ At(v, "upsert")
  /\ active' = active \cup {KeyOf[v]}
  /\ IF viewer[v].socket = "closed" THEN RemoveViewer(v, "withdraw")
     ELSE Goto(v, "joined") /\ UNCHANGED capture
  /\ UNCHANGED <<live, stopping, loop, budgetVars>>

\* The update throws, applied or not. The catch block of the route closes the
\* socket; nothing detaches the viewer.
UpsertFails(v) ==
  /\ At(v, "upsert")
  /\ Fault
  /\ Finish(v)
  /\ active' \in {active, active \cup {KeyOf[v]}}
  /\ UNCHANGED <<capture, live, stopping, loop>>

\* The close event of v's socket. Before the route listens to it, it is lost.
SocketCloses(v) ==
  /\ viewer[v].socket \in {"open", "closing"}
  /\ \/ /\ At(v, "lookup")
        /\ viewer' = [viewer EXCEPT ![v].socket = "unheard"]
        /\ UNCHANGED capture
     \/ /\ viewer[v].pc \in {"count", "upsert"}
        /\ viewer' = [viewer EXCEPT ![v].socket = "closed"]
        /\ UNCHANGED capture
     \/ /\ At(v, "joined")
        /\ RemoveViewer(v, "remove")
  /\ UNCHANGED <<live, active, stopping, loop, budgetVars>>

\* Variant: the grace period is not started.
RemovedSilently(v) ==
  /\ viewer[v].pc \in {"withdraw", "remove"}
  /\ Dismiss(v)

\* The update of removeViewer is answered: without viewers the capture is idle
\* from now on. (Of a stopped capture nobody reads it.)
Removed(v) ==
  /\ viewer[v].pc \in {"withdraw", "remove"}
  /\ Finish(v)
  /\ LET h == viewer[v].leaves IN
     capture' = [capture EXCEPT ![h].idleSince =
                  IF viewer[v].last /\ Running(h) THEN "recent" ELSE @]
  /\ UNCHANGED <<live, active, stopping, loop, budgetVars>>

\* The update throws within the attach: the route catches it. (Thrown by the
\* close handler it is an unhandled rejection, which is a Crash.)
WithdrawFails(v) ==
  /\ At(v, "withdraw")
  /\ Fault
  /\ Finish(v)
  /\ UNCHANGED <<capture, live, active, stopping, loop>>

-----------------------------------------------------------------------------
(* Captures end *)

\* Variant: the capture stays in the map.
TeardownKept(k) ==
  IF live[k] = NoCapture THEN UNCHANGED <<live, capture, stopping>>
  ELSE /\ capture' = [capture EXCEPT ![live[k]].state = "stopping"]
       /\ stopping' = stopping \cup {live[k]}
       /\ UNCHANGED live

\* teardown: whatever capture the key has now is dropped and stopped.
Teardown(k) ==
  IF live[k] = NoCapture THEN UNCHANGED <<live, capture, stopping>>
  ELSE /\ live' = [live EXCEPT ![k] = NoCapture]
       /\ capture' = [capture EXCEPT ![live[k]].state = "stopping",
                                     ![live[k]].idleSince = "null"]
       /\ stopping' = stopping \cup {live[k]}

\* The update of teardown is answered: the session is stopped, if there is one.
SessionStopped(h) ==
  /\ h \in stopping
  /\ stopping' = stopping \ {h}
  /\ active' = active \ {KeyOfCapture(h)}
  /\ loop' = [l \in Loops |-> IF loop[l].awaits = h
                             THEN [loop[l] EXCEPT !.awaits = NoCapture] ELSE loop[l]]
  /\ UNCHANGED <<viewer, capture, live, budgetVars>>

\* It throws: the loop that awaits it ends, and its other keys stay.
SessionNotStopped(h) ==
  /\ h \in stopping
  /\ stopping' = stopping \ {h}
  /\ Fault
  /\ \E l \in Loops : loop[l].awaits = h /\ loop' = [loop EXCEPT ![l] = IdleLoop]
  /\ UNCHANGED <<viewer, capture, live, active>>

\* The process of a stopped capture is gone.
ProcessEnds(h) ==
  /\ capture[h].state = "stopping"
  /\ capture' = [capture EXCEPT ![h] = [NotStarted EXCEPT !.state = "stopped"]]
  /\ UNCHANGED <<viewer, live, active, stopping, loop, budgetVars>>

\* Variant: viewers whose attach is under way are not told.
CaptureErrorForJoined(h) ==
  /\ \/ Running(h)
     \/ capture[h].state = "stopping" /\ KeyOfCapture(h) \in LateErrors
  /\ viewer' = [v \in Viewers |->
       IF v \in capture[h].viewers /\ At(v, "joined") /\ viewer[v].socket = "open"
       THEN [viewer[v] EXCEPT !.socket = "closing"] ELSE viewer[v]]
  /\ Teardown(KeyOfCapture(h))
  /\ UNCHANGED <<active, loop, budgetVars>>

\* The error event of h: its viewers are told and closed, and the capture of
\* its key is torn down. The late output of a killed process raises it too
\* (adb-mjpeg does not ask whether it was stopped, adb-h264 does).
CaptureError(h) ==
  /\ \/ Running(h)
     \/ capture[h].state = "stopping" /\ KeyOfCapture(h) \in LateErrors
  /\ viewer' = [v \in Viewers |->
       IF v \in capture[h].viewers /\ viewer[v].socket = "open"
       THEN [viewer[v] EXCEPT !.socket = "closing"] ELSE viewer[v]]
  /\ Teardown(KeyOfCapture(h))
  /\ UNCHANGED <<active, loop, budgetVars>>

\* One turn of a loop over keys that were listed before: teardown, awaited. (Of
\* each loop there is one at a time, although an interval and a route could start
\* a second one before the first has ended.)
TeardownOneOf(l, keys) ==
  /\ \E k \in keys :
       /\ Teardown(k)
       /\ loop' = [loop EXCEPT ![l] = [keys |-> keys \ {k}, awaits |-> live[k]]]
  /\ UNCHANGED <<viewer, active, budgetVars>>

LoopGoesOn(l) ==
  /\ loop[l].awaits = NoCapture
  /\ TeardownOneOf(l, loop[l].keys)

StopForDevice(device) ==
  /\ loop["stopForDevice"].keys = {}
  /\ TeardownOneOf("stopForDevice",
       {k \in Keys : live[k] # NoCapture /\ DeviceOf[k] = device})

IdleKeys == {k \in Keys :
  /\ live[k] # NoCapture
  /\ capture[live[k]].viewers = {}
  /\ capture[live[k]].idleSince = "long ago"}

SweepIdle ==
  /\ loop["sweepIdle"].keys = {}
  /\ TeardownOneOf("sweepIdle", IdleKeys)

\* IDLE_TEARDOWN_MS have passed.
GracePeriodEnds(h) ==
  /\ capture[h].idleSince = "recent"
  /\ capture' = [capture EXCEPT ![h].idleSince = "long ago"]
  /\ UNCHANGED <<viewer, live, active, stopping, loop, budgetVars>>

\* The process of the hub ends, with its sockets and captures. Sessions stay.
Crash ==
  /\ Trouble
  /\ crashes' = crashes + 1
  /\ viewer' = [v \in Viewers |->
       IF At(v, "lookup") /\ viewer[v].socket = "open" THEN viewer[v] ELSE Gone]
  /\ capture' = [h \in Captures |->
       IF capture[h].state = "none" THEN NotStarted
       ELSE [NotStarted EXCEPT !.state = "stopped"]]
  /\ live' = [k \in Keys |-> NoCapture]
  /\ stopping' = {}
  /\ loop' = [l \in Loops |-> IdleLoop]
  /\ UNCHANGED <<active, faults>>
-----------------------------------------------------------------------------
Serve(v) == AssertCapacity(v) \/ Upserted(v) \/ Removed(v)

StreamingNext ==
  \/ \E v \in Viewers :
       \/ RefuseDevice(v) \/ AddViewer(v) \/ Serve(v) \/ SocketCloses(v)
       \/ UpsertFails(v) \/ WithdrawFails(v)
  \/ \E h \in Captures :
       \/ CaptureError(h) \/ ProcessEnds(h) \/ GracePeriodEnds(h)
       \/ SessionStopped(h) \/ SessionNotStopped(h)
  \/ \E k \in Keys : StopForDevice(DeviceOf[k])
  \/ SweepIdle
  \/ \E l \in Loops : LoopGoesOn(l)
  \/ Crash

StreamingSpec == StreamingInit /\ [][StreamingNext]_streamVars

-----------------------------------------------------------------------------
(* Properties *)

\* Every capture the map lists runs: no teardown, error, crash or restart
\* leaves viewers to be attached to a capture that gives no frames.
MapIsRunning ==
  \A k \in Keys : live[k] # NoCapture => Running(live[k]) /\ KeyOfCapture(live[k]) = k

\* One capture per key whatever the number of viewers: "the invariant that
\* matters" (streaming.service.ts:54-58), "they never cause a second one". Two
\* viewers that were counted at the same time both start one.
OneCapturePerKey ==
  \A g, h \in Captures :
    g # h /\ Running(g) /\ Running(h) => KeyOfCapture(g) # KeyOfCapture(h)

\* A viewer whose socket closed leaves the capture that its key has, whenever
\* during its attach the close was heard: "it went away while we were attaching;
\* release it immediately" (streaming.routes.ts:114). A close during the look-up
\* of the device is not heard (see NoPhantomViewer), a database call that throws
\* strands its viewer, and a capture that has lost its key to another one is left
\* by nobody (see RunningIsListed).
ClosedViewersLeave ==
  faults = 0 => \A k \in Keys : live[k] # NoCapture =>
    \A v \in capture[live[k]].viewers :
      \/ At(v, "upsert")
      \/ At(v, "joined") /\ viewer[v].socket # "closed"

\* No running capture has a phantom viewer, whose close event was lost and who
\* therefore "never detaches". (No run checks it: a close during the look-up of the
\* device breaks it, see section 6 of the README.)
NoPhantomViewer ==
  \A h \in Captures : Running(h) =>
    \A v \in capture[h].viewers : At(v, "joined") => viewer[v].socket # "unheard"

\* A running capture nobody is attached to has its grace period running, or is
\* about to have it: otherwise the sweep would never stop it ("a capture that
\* therefore never reaches idle teardown").
UnwatchedIsTimed ==
  faults = 0 => \A h \in Captures : Running(h) /\ capture[h].viewers = {} =>
    \/ capture[h].idleSince # "null"
    \/ \E v \in Viewers : viewer[v].leaves = h /\ viewer[v].last
=============================================================================
