------------------------------ MODULE LiveView ------------------------------
(* The live view of a device's page: the hook that keeps a socket, what the    *)
(* view shows, the hub's end of the socket, and the two adb sources behind it: *)
(* mjpeg grabs a picture, pauses and grabs the next; h264 records a segment on *)
(* the device and pulls it. What several sockets do to one capture is in       *)
(* Streaming; here other viewers only start captures and keep them from idling.*)
EXTENDS Naturals, Sequences

CONSTANTS
    MaxTroubles,  \* bound on drops, restarts, failing attaches and protocol switches
    MaxInbox      \* bound on what is on its way to the tab when a frame is sent

Protocols == {"mjpeg", "h264"}

VARIABLES
    started,   \* whether the user has started the view
    protocol,  \* the protocol chosen
    offline,   \* whether the page shows the device as offline
    ws,        \* the state of the hook's socket
    seat,      \* the hub's end of it: its place in the capture
    halted,    \* the capture the seat belongs to was stopped without a word
    source,    \* what the capture of each protocol does, or "off"
    chatter,   \* a killed screencap may still write to stderr
    inbox,     \* messages on their way to the tab
    picture,   \* the protocol of the picture on show, or "none"
    lastError, \* whether the last attempt is known to have failed
    restarted, retryKey,  \* the notice of a restart, and what it is decided on
    troubles

wsVars == <<ws, seat, halted, inbox>>
shownVars == <<picture, lastError, restarted, retryKey>>
sourceVars == <<source, chatter>>
userVars == <<started, protocol, offline>>
viewVars == <<userVars, wsVars, shownVars, sourceVars, troubles>>

LiveInit ==
    /\ started = FALSE /\ protocol = "mjpeg" /\ offline = FALSE
    /\ ws = "idle" /\ seat = "none" /\ halted = FALSE /\ inbox = <<>>
    /\ picture = "none" /\ lastError = FALSE /\ restarted = FALSE /\ retryKey = "none"
    /\ source = [p \in Protocols |-> "off"] /\ chatter = FALSE
    /\ troubles = 0

Trouble == troubles < MaxTroubles /\ troubles' = troubles + 1
Works(p) == source[p] # "off"
First(p) == IF p = "mjpeg" THEN "grab" ELSE "record"
Seated == seat \in {"attaching", "joined"} /\ ~halted
Post(messages) == inbox' = inbox \o messages

\* What the hook makes of it, what the banner says, and what the stage has room
\* for. (The user is signed in. All that ends a socket for good is "terminated".)
Enabled == started /\ ~offline
State == IF Enabled THEN ws ELSE "idle"
Banner == IF offline THEN "offline" ELSE IF ~started THEN "idle" ELSE State
Stage ==
    IF picture # "none" THEN "picture"
    ELSE IF offline THEN "offline"
    ELSE IF ~started THEN "start button"
    ELSE IF Banner = "terminated" THEN "unavailable"
    ELSE IF lastError THEN "last attempt failed"
    ELSE "waiting"

\* A socket with another address, or none; what is on its way in the old one is lost.
Redial(state) == ws' = state /\ seat' = "none" /\ halted' = FALSE /\ inbox' = <<>>

------------------------------------------------------------------------------
(* The user and the page. *)

\* The button is part of the placeholder, which a picture replaces.
StartView ==
    /\ Stage = "start button"
    /\ started' = TRUE
    /\ Redial("connecting")
    /\ UNCHANGED <<protocol, offline, shownVars, sourceVars, troubles>>

\* "Stop watching", and "Cancel" of a stream that is unavailable.
StopView ==
    /\ started
    /\ started' = FALSE
    /\ Redial("idle")
    /\ UNCHANGED <<protocol, offline, shownVars, sourceVars, troubles>>

SetProtocol(p) ==
    /\ p # protocol /\ Trouble
    /\ protocol' = p
    /\ IF ws = "idle" THEN UNCHANGED wsVars ELSE Redial("connecting")
    /\ UNCHANGED <<started, offline, shownVars, sourceVars>>

DismissRestarted ==
    /\ restarted /\ restarted' = FALSE
    /\ UNCHANGED <<userVars, wsVars, picture, lastError, retryKey, sourceVars, troubles>>

\* The cached device changes: an offline one is never dialled.
DeviceSeen ==
    /\ offline' = ~offline
    /\ IF started THEN Redial(IF offline THEN "connecting" ELSE "idle") ELSE UNCHANGED wsVars
    /\ UNCHANGED <<started, protocol, shownVars, sourceVars, troubles>>

\* Variant: a fresh join keeps the old error.
ReceiveKeepingError ==
    /\ inbox # <<>>
    /\ inbox' = Tail(inbox)
    /\ ws' = CASE Head(inbox) = "1011" -> "reconnecting"
               [] Head(inbox) = "refused" -> "terminated"
               [] OTHER -> "live"
    /\ IF Head(inbox) = "1011" THEN seat' = "none" /\ halted' = FALSE
       ELSE UNCHANGED <<seat, halted>>
    /\ picture' = IF Head(inbox) = "frame" THEN protocol ELSE picture
    /\ lastError' = (lastError \/ Head(inbox) = "error")
    /\ UNCHANGED <<userVars, restarted, retryKey, sourceVars, troubles>>

\* handleMessage and the end of the socket. The first message, whatever it is,
\* makes the socket live; 1011 is retried, any other code is not.
Receive ==
    /\ inbox # <<>>
    /\ inbox' = Tail(inbox)
    /\ ws' = CASE Head(inbox) = "1011" -> "reconnecting"
               [] Head(inbox) = "refused" -> "terminated"
               [] OTHER -> "live"
    /\ IF Head(inbox) = "1011" THEN seat' = "none" /\ halted' = FALSE
       ELSE UNCHANGED <<seat, halted>>
    /\ picture' = IF Head(inbox) = "frame" THEN protocol ELSE picture
    /\ lastError' = (Head(inbox) = "error" \/ (lastError /\ Head(inbox) # "joined"))
    /\ IF Head(inbox) = "joined"
       THEN /\ restarted' = (restarted \/ retryKey \notin {"none", protocol})
            /\ retryKey' = protocol
       ELSE UNCHANGED <<restarted, retryKey>>
    /\ UNCHANGED <<userVars, sourceVars, troubles>>

------------------------------------------------------------------------------
(* The hub's end of the socket. *)

Dialling == ws \in {"connecting", "reconnecting"} /\ seat = "none"

\* Bad token, unknown or offline device, no capacity: closed for good.
Refuse ==
    /\ Dialling
    /\ seat' = "closed"
    /\ Post(<<"refused">>)
    /\ UNCHANGED <<userVars, ws, halted, shownVars, sourceVars, troubles>>

\* The viewer is in the capture, from now on it gets frames; the ack comes later.
AddViewer ==
    /\ Dialling
    /\ seat' = "attaching"
    /\ source' = [source EXCEPT ![protocol] = IF @ = "off" THEN First(protocol) ELSE @]
    /\ UNCHANGED <<userVars, ws, halted, inbox, shownVars, chatter, troubles>>

Joined ==
    /\ seat = "attaching"
    /\ seat' = "joined"
    /\ Post(<<"joined">>)
    /\ UNCHANGED <<userVars, ws, halted, shownVars, sourceVars, troubles>>

\* Variant: a failure is logged and the socket left open.
AttachFailsUnsaid ==
    /\ seat = "attaching" /\ Trouble
    /\ seat' = "closed"
    /\ UNCHANGED <<userVars, ws, halted, inbox, shownVars, sourceVars>>

AttachFails ==
    /\ seat = "attaching" /\ Trouble
    /\ seat' = "closed"
    /\ Post(<<"1011">>)
    /\ UNCHANGED <<userVars, ws, halted, shownVars, sourceVars>>

SocketLost ==
    /\ ws \in {"connecting", "reconnecting", "live"} /\ Trouble
    /\ Redial("reconnecting")
    /\ UNCHANGED <<userVars, shownVars, sourceVars>>

\* The hub ends and starts again; its captures end with it. A look-up of the device
\* that throws ends it too: it is outside the handler's try block, and nobody
\* awaits the handler (streaming.routes.ts:43-64).
HubRestarts ==
    /\ Trouble
    /\ source' = [p \in Protocols |-> "off"] /\ chatter' = FALSE
    /\ IF ws \in {"connecting", "reconnecting", "live"}
       THEN Redial("reconnecting") ELSE UNCHANGED wsVars
    /\ UNCHANGED <<userVars, shownVars>>

------------------------------------------------------------------------------
(* The captures. *)

Do(p, next) == source' = [source EXCEPT ![p] = next] /\ UNCHANGED chatter

\* A frame goes to every viewer; a command without output gives none.
Emit(p, frame) ==
    IF frame /\ Seated /\ p = protocol
    THEN Len(inbox) < MaxInbox /\ Post(<<"frame">>) ELSE UNCHANGED inbox

\* The next command is only started when the last one has ended.
Grabbed(frame) ==
    /\ source["mjpeg"] = "grab"
    /\ Do("mjpeg", "pause")
    /\ Emit("mjpeg", frame)
    /\ UNCHANGED <<userVars, ws, seat, halted, shownVars, troubles>>

Tick ==
    /\ source["mjpeg"] = "pause"
    /\ Do("mjpeg", "grab")
    /\ UNCHANGED <<userVars, wsVars, shownVars, troubles>>

Recorded ==
    /\ source["h264"] = "record"
    /\ Do("h264", "pull")
    /\ UNCHANGED <<userVars, wsVars, shownVars, troubles>>

\* Variant: an empty segment ends the loop.
PulledOnce(frame) ==
    /\ source["h264"] = "pull"
    /\ Do("h264", IF frame THEN "record" ELSE "stuck")
    /\ Emit("h264", frame)
    /\ UNCHANGED <<userVars, ws, seat, halted, shownVars, troubles>>

Pulled(frame) ==
    /\ source["h264"] = "pull"
    /\ Do("h264", "record")
    /\ Emit("h264", frame)
    /\ UNCHANGED <<userVars, ws, seat, halted, shownVars, troubles>>

\* stop: the child is killed and the timer cleared; a killed screencap may have
\* something left to say.
Kill(stopped) ==
    /\ source' = [p \in Protocols |-> IF p \in stopped THEN "off" ELSE source[p]]
    /\ chatter' = (chatter \/ ("mjpeg" \in stopped /\ source["mjpeg"] = "grab"))

\* Variant: only viewers that have joined are told.
CaptureBreaksForJoined(p) ==
    /\ source[p] \notin {"off", "pause"}
    /\ Kill({p})
    /\ IF Seated /\ seat = "joined" /\ p = protocol
       THEN seat' = "closed" /\ Post(<<"error", "1011">>)
       ELSE UNCHANGED <<seat, inbox>>
    /\ UNCHANGED <<userVars, ws, halted, shownVars, troubles>>

\* A command fails, or cannot be started: the viewers are told and the capture,
\* not only its segment, is torn down.
CaptureBreaks(p) ==
    /\ source[p] \notin {"off", "pause"}
    /\ Kill({p})
    /\ IF Seated /\ p = protocol
       THEN seat' = "closed" /\ Post(<<"error", "1011">>)
       ELSE UNCHANGED <<seat, inbox>>
    /\ UNCHANGED <<userVars, ws, halted, shownVars, troubles>>

Silence(stopped) ==
    /\ Kill(stopped)
    /\ halted' = (halted \/ (Seated /\ protocol \in stopped))
    /\ UNCHANGED <<userVars, ws, seat, inbox, shownVars, troubles>>

\* "Stop capture" of an operator stops every capture of the device.
StopCapture == (\E p \in Protocols : Works(p)) /\ Silence(Protocols)

\* What a killed screencap still writes is an error of its key, whose capture is
\* by now another one.
LateChatter ==
    /\ chatter /\ Works("mjpeg")
    /\ source' = [source EXCEPT !["mjpeg"] = "off"] /\ chatter' = FALSE
    /\ halted' = (halted \/ (Seated /\ protocol = "mjpeg"))
    /\ UNCHANGED <<userVars, ws, seat, inbox, shownVars, troubles>>

Unwatched(p) == Works(p) /\ ~(Seated /\ p = protocol)
SweepIdle(p) == Unwatched(p) /\ Silence({p})

\* Two viewers whose starts overlapped have left a second capture of the key, which
\* is not in the hub's map; when it breaks, the one in the map is torn down.
OrphanBreaks(p) == Works(p) /\ Silence({p})

\* Another viewer of the device.
OthersWatch(p) ==
    /\ ~Works(p) /\ Do(p, First(p))
    /\ UNCHANGED <<userVars, wsVars, shownVars, troubles>>

HubServes == Refuse \/ AddViewer \/ Joined
Grabbing == Tick \/ \E frame \in BOOLEAN : Grabbed(frame)
Recording == Recorded \/ \E frame \in BOOLEAN : Pulled(frame)

LiveNext ==
    \/ StartView \/ StopView \/ DismissRestarted \/ DeviceSeen \/ Receive
    \/ HubServes \/ AttachFails \/ SocketLost \/ HubRestarts
    \/ Grabbing \/ Recording \/ StopCapture \/ LateChatter
    \/ \E p \in Protocols :
         \/ SetProtocol(p) \/ CaptureBreaks(p) \/ SweepIdle(p) \/ OrphanBreaks(p)
         \/ OthersWatch(p)

\* The hub answers and messages arrive. Nothing is assumed of adb.
LiveFairness == WF_viewVars(HubServes \/ Receive)

------------------------------------------------------------------------------
\* The banner says "Live" only while the capture of this socket works, or the
\* news of its end is on the way: without the banner "a frozen last frame and a
\* healthy stream look identical" (DeviceStream.tsx:69-72). It is wrong after the
\* three stops nobody is told of, `halted`: an operator's stop, the late output of a
\* killed command, and the failure of a second capture of the same key, which two
\* overlapping starts leave behind and which tears down the one in the map
\* (streaming.service.ts:144-145).
LiveIsFed ==
    Banner = "live" => Works(protocol) \/ inbox # <<>> \/ halted

\* "Last attempt failed" is on show only until the next attempt has succeeded:
\* "don't keep showing an error from a previous one that may already be fixed"
\* (useDeviceStream.ts:85-87), although a frame may overtake the join ack.
ErrorIsOfThisAttempt ==
    Banner = "live" /\ Stage = "last attempt failed" => inbox # <<>>

\* Whoever waits, be it for the hub to answer or for the first frame, ceases to wait,
\* or has been given a place in a capture that works, or in one that was stopped
\* without a word: no failure on the way leaves "Connecting..." standing for ever
\* (streaming.routes.ts:99-104, 131-138). It assumes nothing of adb, and so says
\* nothing of a capture whose command hangs or never has output.
WaitingIsServed ==
    (Stage = "waiting") ~> (Stage # "waiting" \/ halted \/ (seat = "joined" /\ Works(protocol)))

\* The commands of the capture on show end, and now and then one of them with a
\* picture. The adb sources set no time-out and pass an empty output over, so this
\* is a premise on adb, not something the code sees to (adb-mjpeg.source.ts:43-64,
\* adb-h264.source.ts:59-121).
Work == IF protocol = "mjpeg" THEN Grabbing ELSE Recording
Frame == IF protocol = "mjpeg" THEN Grabbed(TRUE) ELSE Pulled(TRUE)
CommandsDeliver == WF_viewVars(Work) /\ SF_viewVars(Frame)

\* Where adb's commands deliver, whoever waits for a picture gets one, or is told why
\* not, unless the capture was stopped without a word: the loops of the sources go
\* on after an empty output, and every way a capture ends tells its viewers.
WaitingEnds ==
    CommandsDeliver => ((Stage = "waiting") ~> (Stage # "waiting" \/ halted))
=============================================================================
