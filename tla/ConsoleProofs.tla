---------------------------- MODULE ConsoleProofs ----------------------------
(***************************************************************************)
(* Proofs about a tab of the console, for any number of lost connections,  *)
(* restarts and changes of protocol: what the pages of runs show of what   *)
(* was announced, what the device page shows of the user's actions, and    *)
(* what the live view says of the capture behind it.                       *)
(***************************************************************************)
EXTENDS Console, TLAPS

(* The run in the hub. *)

Statuses == {"none", "queued", "preparing", "running", "passed", "failed", "cancelled"}

\* A run exists before anything is done with it, and while it is orchestrated it
\* is in flight.
RunInv ==
  /\ run \in Statuses /\ step \in {"no", "go", "publish", "finally"}
  /\ run = "none" => step = "no"
  /\ step = "go" => InFlight(run)
  /\ trigger = "created" => run = "queued" /\ step = "no"

(* The stream and the query of the run. *)

RunQuery == [data : Statuses \cup {NoData}, fetch : {"no", "sent", "read"},
             read : Statuses \cup {NoData}, stale : BOOLEAN]

PageTyping ==
  /\ page \in {"devices", "device", "runs", "run", "card"}
  /\ runQ \in RunQuery
  /\ heard \in 0 .. 4 /\ pipe \in Seq(0 .. 4)

\* Only a page that watches has a socket, and nothing is in the pipe of a socket
\* that is not live.
PipeIsWatched ==
  /\ socket # "off" => Watching
  /\ pipe # <<>> => socket = "live"

\* Events tell what has been saved.
EventsAreTrue ==
  /\ heard <= Far(run)
  /\ \A i \in 1 .. Len(pipe) : pipe[i] <= Far(run)

\* Whatever the cache holds, or is about to, is as new as the last event, unless
\* it has been marked.
Follows(q, h) ==
  /\ q.fetch = "read" => q.read \in Statuses /\ Far(q.read) >= h
  /\ q.data # NoData /\ ~q.stale => Far(q.data) >= h
CacheFollows == Follows(runQ, heard)

RunPageInv == RunInv /\ PageTyping /\ PipeIsWatched /\ EventsAreTrue /\ CacheFollows

(* The device page. *)

DeviceQuery == [data : Devices \cup {NoData}, fetch : {"no", "sent", "read"},
                read : Devices \cup {NoData}, stale : BOOLEAN]

Answers(q) == q \in DeviceQuery /\ (q.fetch = "read" => q.read \in Devices)

PanelTyping ==
  /\ device \in Devices /\ Answers(deviceQ)
  /\ action \in [kind : {"none", "lock", "unlock", "renew"}, at : {"no", "sent", "ok", "refused"}]
  /\ dialog \in BOOLEAN /\ outdated \in SUBSET {"shown", "read"}

\* The user acts on what the page shows, and the dialog is modal.
ActsOnShown ==
  /\ (action.at # "no" \/ dialog) => deviceQ.data # NoData
  /\ dialog => action.at = "no"

\* What was read before the user's last action is marked, or about to be; an answer
\* read before it can only arrive while the action itself awaits its answer.
OutdatedIsMarked ==
  /\ page # "device" => outdated = {}
  /\ "shown" \in outdated => action.at = "ok" \/ deviceQ.stale
  /\ "read" \in outdated /\ deviceQ.fetch = "read" => action.at = "ok"

PanelInv == PanelTyping /\ ActsOnShown /\ OutdatedIsMarked

(* The live view. *)

Ends == {"1011", "refused"}
Messages == {"joined", "frame", "error"} \cup Ends

LiveTyping ==
  /\ protocol \in Protocols
  /\ ws \in {"idle", "connecting", "reconnecting", "live", "terminated"}
  /\ seat \in {"none", "attaching", "joined", "closed"}
  /\ halted \in BOOLEAN
  /\ inbox \in Seq(Messages)
  /\ source \in [Protocols -> {"off", "grab", "pause", "record", "pull"}]

\* Without a seat there is neither a live socket nor a message.
Unseated == seat = "none" =>
  inbox = <<>> /\ ~halted /\ ws \in {"idle", "connecting", "reconnecting"}

\* A seat belongs to a capture that works or was silently stopped, and sends
\* nothing of an end.
SeatIsServed == seat \in {"attaching", "joined"} =>
  /\ ws \in {"connecting", "reconnecting", "live"}
  /\ ~halted => Works(protocol)
  /\ \A i \in 1 .. Len(inbox) : inbox[i] \in {"joined", "frame"}

\* The last message of a closed seat is the end of the socket, and until it has
\* arrived it is on its way.
ClosedSaysSo == seat = "closed" =>
  /\ ws # "idle"
  /\ inbox = <<>> => ws = "terminated"
  /\ inbox # <<>> => inbox[Len(inbox)] \in Ends
  /\ \A i \in 1 .. Len(inbox) - 1 : inbox[i] \notin Ends

\* An error that a live socket shows is that of its own seat.
ErrorIsOfThisSeat == ws = "live" /\ lastError /\ picture = "none" => seat = "closed"

LiveInv == LiveTyping /\ Unseated /\ SeatIsServed /\ ClosedSaysSo /\ ErrorIsOfThisSeat

-----------------------------------------------------------------------------
(* What announcements are followed by. *)

LEMMA FarIsNatural == \A status : Far(status) \in 0 .. 4
  BY DEF Far

LEMMA InitRunPage == Init => RunPageInv
  BY DEF Init, PanelInit, RunPageInv, RunInv, PageTyping, PipeIsWatched, EventsAreTrue,
     CacheFollows, Follows, Statuses, RunQuery, EmptyQuery, Far, InFlight

\* A run only goes on.
LEMMA RunGoesOn ==
  ASSUME RunInv, [Next]_vars
  PROVE  RunInv' /\ Far(run') >= Far(run)
  <1> USE DEF RunInv, Statuses, InFlight, Over, Far
  <1>1. CASE Save
    BY <1>1 DEF Save
  <1>2. CASE Publish
    BY <1>2 DEF Publish
  <1>3. CASE Release
    BY <1>3 DEF Release
  <1>4. CASE HubCreates
    BY <1>4 DEF HubCreates
  <1>5. CASE HubAcquires
    BY <1>5 DEF HubAcquires
  <1>6. CASE Crash
    BY <1>6 DEF Crash
  <1>7. CASE OnSubmit \/ TriggerAnswered
    <2>1. UNCHANGED <<run, step>> /\ trigger' # "created"
      BY <1>7 DEF OnSubmit, TriggerAnswered, Hub
    <2> QED BY <2>1, FarIsNatural
  <1>8. CASE UNCHANGED <<run, step, trigger>>
    BY <1>8, FarIsNatural
  <1> QED BY <1>1, <1>2, <1>3, <1>4, <1>5, <1>6, <1>7, <1>8
          DEF Next, vars, runVars, RunExecution, HubAnswers, HubCancels, StreamStep,
              SocketOpens, SocketDrops, SocketRefused, HandleMessage, FetchStep, PollRun,
              FocusRun, RunIsRead, RunAnswered, ListIsRead, UserStep, OpenRun, LiveRunCard,
              Watch, BackToRuns, PressCancel, CancelAnswered, Hub

\* The operations of the cache keep what follows the events.
LEMMA CacheOperations ==
  ASSUME NEW q \in RunQuery, NEW h, Follows(q, h), NEW mounted \in BOOLEAN
  PROVE  /\ Fetch(q) \in RunQuery /\ Follows(Fetch(q), h)
         /\ Fail(q) \in RunQuery /\ Follows(Fail(q), h)
         /\ Invalidate(q, mounted) \in RunQuery /\ Follows(Invalidate(q, mounted), h)
  BY DEF RunQuery, Follows, Fetch, Send, Fail, Invalidate

\* Where the query is only asked again, what follows the events still does.
LEMMA PipeStays ==
  ASSUME RunPageInv, Far(run') >= Far(run), heard' = heard,
         pipe' = pipe \/ pipe' = <<>>
  PROVE  /\ heard' \in 0 .. 4 /\ pipe' \in Seq(0 .. 4)
         /\ EventsAreTrue'
  <1>0. <<>> \in Seq(0 .. 4) /\ pipe \in Seq(0 .. 4) /\ heard \in 0 .. 4
    BY DEF RunPageInv, PageTyping
  <1>1. heard' \in 0 .. 4 /\ pipe' \in Seq(0 .. 4)
    <2>1. CASE pipe' = pipe
      BY <1>0, <2>1
    <2>2. CASE pipe' = <<>>
      BY <1>0, <2>2
    <2> QED BY <2>1, <2>2
  <1>2. heard' <= Far(run')
    <2>1. heard \in 0 .. 4 /\ Far(run) \in 0 .. 4 /\ Far(run') \in 0 .. 4
      BY FarIsNatural DEF RunPageInv, PageTyping
    <2>2. heard <= Far(run)
      BY DEF RunPageInv, EventsAreTrue
    <2> QED BY <2>1, <2>2
  <1>3. ASSUME NEW i \in 1 .. Len(pipe')
        PROVE  pipe'[i] <= Far(run')
    <2>1. pipe' = pipe
      OBVIOUS
    <2>2. pipe[i] \in 0 .. 4 /\ pipe[i] <= Far(run)
      BY <2>1 DEF RunPageInv, PageTyping, EventsAreTrue
    <2> QED BY <2>1, <2>2, FarIsNatural
  <1> QED BY <1>1, <1>2, <1>3 DEF EventsAreTrue

LEMMA MessageIsFollowed ==
  ASSUME RunPageInv, HandleMessage
  PROVE  PageTyping' /\ PipeIsWatched' /\ EventsAreTrue' /\ CacheFollows'
  <1>1. /\ UNCHANGED <<page, run, socket>> /\ pipe # <<>>
        /\ pipe' = Tail(pipe)
        /\ heard' = IF runQ.data = NoData THEN heard ELSE Head(pipe)
        /\ runQ' = Invalidate(runQ, Watching)
    BY DEF HandleMessage, Hub
  <1>2. /\ pipe \in Seq(0 .. 4) /\ runQ \in RunQuery /\ heard \in 0 .. 4
        /\ Follows(runQ, heard)
    BY DEF RunPageInv, PageTyping, CacheFollows
  <1>3. Watching
    BY <1>1 DEF RunPageInv, PipeIsWatched
  <1>4. /\ Head(pipe) \in 0 .. 4 /\ Head(pipe) <= Far(run)
        /\ Tail(pipe) \in Seq(0 .. 4) /\ Len(Tail(pipe)) = Len(pipe) - 1
        /\ \A i \in 1 .. Len(Tail(pipe)) : Tail(pipe)[i] = pipe[i + 1]
    BY <1>1, <1>2 DEF RunPageInv, EventsAreTrue
  <1>5. EventsAreTrue'
    <2>1. heard' <= Far(run')
      BY <1>1, <1>4 DEF RunPageInv, EventsAreTrue
    <2>2. ASSUME NEW i \in 1 .. Len(Tail(pipe))
          PROVE  Tail(pipe)[i] <= Far(run)
      <3>1. i + 1 \in 1 .. Len(pipe)
        BY <1>2, <1>4
      <3> QED BY <1>4, <3>1 DEF RunPageInv, EventsAreTrue
    <2> QED BY <1>1, <2>1, <2>2 DEF EventsAreTrue
  <1>6. runQ' \in RunQuery /\ CacheFollows'
    <2>1. CASE runQ.data = NoData
      <3>1. heard' = heard
        BY <1>1, <2>1
      <3> QED BY <1>1, <1>2, <1>3, <3>1, CacheOperations DEF CacheFollows
    <2>2. CASE runQ.data # NoData
      <3>1. runQ' = Send([runQ EXCEPT !.stale = TRUE])
        BY <1>1, <1>3, <2>2 DEF Invalidate
      <3>2. runQ' \in RunQuery /\ runQ'.fetch = "sent" /\ runQ'.stale
        BY <1>2, <3>1 DEF Send, RunQuery
      <3> QED BY <3>2 DEF CacheFollows, Follows
    <2> QED BY <2>1, <2>2
  <1> QED BY <1>1, <1>3, <1>4, <1>5, <1>6 DEF RunPageInv, PageTyping, PipeIsWatched, Watching

LEMMA PublishIsTrue ==
  ASSUME RunPageInv, Publish
  PROVE  PageTyping' /\ PipeIsWatched' /\ EventsAreTrue' /\ CacheFollows'
  <1>1. /\ UNCHANGED <<page, run, runQ, socket, heard>>
        /\ pipe' = IF Subscribed THEN Append(pipe, Far(run)) ELSE pipe
    BY DEF Publish, Queries
  <1>2. pipe \in Seq(0 .. 4) /\ heard \in 0 .. 4 /\ Far(run) \in 0 .. 4
    BY FarIsNatural DEF RunPageInv, PageTyping
  <1>3. pipe' \in Seq(0 .. 4) /\ \A i \in 1 .. Len(pipe') : pipe'[i] <= Far(run)
    BY <1>1, <1>2 DEF RunPageInv, EventsAreTrue
  <1>4. pipe' # <<>> => socket = "live"
    BY <1>1 DEF RunPageInv, PipeIsWatched, Subscribed
  <1> QED BY <1>1, <1>3, <1>4
          DEF RunPageInv, PageTyping, PipeIsWatched, EventsAreTrue, CacheFollows, Watching

LEMMA ReadIsNew ==
  ASSUME RunPageInv, RunIsRead \/ RunAnswered
  PROVE  PageTyping' /\ PipeIsWatched' /\ EventsAreTrue' /\ CacheFollows'
  <1>1. UNCHANGED <<page, run, socket, pipe, heard>>
    BY DEF RunIsRead, RunAnswered, Hub, Stream
  <1>2. runQ \in RunQuery /\ run \in Statuses /\ Far(run) >= heard /\ Follows(runQ, heard)
    BY FarIsNatural DEF RunPageInv, PageTyping, RunInv, EventsAreTrue, CacheFollows
  <1>3. runQ' \in RunQuery /\ CacheFollows'
    <2>1. CASE RunIsRead
      <3>1. runQ' = [runQ EXCEPT !.fetch = "read", !.read = run]
        BY <2>1 DEF RunIsRead, Read
      <3> QED BY <1>1, <1>2, <3>1 DEF RunQuery, CacheFollows, Follows
    <2>2. CASE RunAnswered
      <3>1. /\ runQ.fetch = "read"
            /\ runQ' = [data |-> runQ.read, fetch |-> "no", read |-> NoData, stale |-> FALSE]
        BY <2>2 DEF RunAnswered, Fill
      <3> QED BY <1>1, <1>2, <3>1 DEF RunQuery, CacheFollows, Follows
    <2> QED BY <2>1, <2>2
  <1> QED BY <1>1, <1>3 DEF RunPageInv, PageTyping, PipeIsWatched, EventsAreTrue, Watching

\* Steps that leave the query alone, and the page with its socket.
LEMMA HubStepIsFollowed ==
  ASSUME RunPageInv, Far(run') >= Far(run), UNCHANGED <<page, runQ, socket, pipe, heard>>
  PROVE  PageTyping' /\ PipeIsWatched' /\ EventsAreTrue' /\ CacheFollows'
  BY PipeStays DEF RunPageInv, PageTyping, PipeIsWatched, CacheFollows, Watching

\* The query is asked again, given up or marked.
AskedAgain ==
  \/ runQ' = runQ \/ runQ' = Fetch(runQ) \/ runQ' = Fail(runQ)
  \/ \E mounted \in BOOLEAN :
       runQ' = Invalidate(runQ, mounted) \/ runQ' = Fetch(Invalidate(runQ, mounted))

\* The socket goes with the page that watches, and its pipe with the socket.
SocketKept ==
  /\ heard' = heard
  /\ page' \in {"devices", "device", "runs", "run", "card"}
  /\ socket' # "off" => page' \in {"run", "card"}
  /\ pipe' = <<>> \/ (pipe' = pipe /\ socket' = socket)

LEMMA AskingIsFollowed ==
  ASSUME RunPageInv, Far(run') >= Far(run), AskedAgain, SocketKept
  PROVE  PageTyping' /\ PipeIsWatched' /\ EventsAreTrue' /\ CacheFollows'
  <1> USE DEF SocketKept
  <1>1. runQ \in RunQuery /\ Follows(runQ, heard)
    BY DEF RunPageInv, PageTyping, CacheFollows
  <1>2. runQ' \in RunQuery /\ Follows(runQ', heard)
    BY <1>1, CacheOperations DEF AskedAgain
  <1>3. PipeIsWatched'
    BY DEF PipeIsWatched, Watching, RunPageInv
  <1> QED BY <1>2, <1>3, PipeStays DEF PageTyping, CacheFollows

LEMMA NextRunPage ==
  ASSUME RunPageInv, [Next]_vars
  PROVE  RunPageInv'
  <1> DEFINE Pages == {"devices", "device", "runs", "run", "card"}
  <1>0. /\ RunInv' /\ Far(run') >= Far(run)
        /\ page \in Pages /\ (socket # "off" => Watching) /\ Watching \in BOOLEAN
    BY RunGoesOn DEF RunPageInv, PageTyping, PipeIsWatched, Watching
  <1> SUFFICES PageTyping' /\ PipeIsWatched' /\ EventsAreTrue' /\ CacheFollows'
    BY <1>0 DEF RunPageInv
  <1>1. CASE \/ Save \/ Release \/ HubAnswers \/ OnSubmit \/ PressCancel \/ UNCHANGED vars
    BY <1>0, <1>1, HubStepIsFollowed
       DEF Save, Release, HubAnswers, HubCreates, HubAcquires, HubCancels, OnSubmit,
           PressCancel, vars, runVars, Queries, Stream, Hub
  <1>2. CASE Publish
    BY <1>2, PublishIsTrue
  <1>3. CASE HandleMessage
    BY <1>3, MessageIsFollowed
  <1>4. CASE RunIsRead \/ RunAnswered
    BY <1>4, ReadIsNew
  <1>5. CASE Crash
    <2>1. /\ UNCHANGED <<page, heard>> /\ runQ' = Fail(runQ) /\ pipe' = <<>>
          /\ socket' # "off" => socket # "off"
      BY <1>5 DEF Crash
    <2>2. SocketKept
      BY <1>0, <2>1 DEF SocketKept, Watching
    <2>3. AskedAgain
      BY <1>0, <2>1 DEF AskedAgain
    <2> QED BY <1>0, <2>2, <2>3, AskingIsFollowed
  <1>6. CASE SocketOpens \/ SocketDrops \/ SocketRefused
    <2>1. /\ UNCHANGED <<page, runQ, heard>> /\ socket # "off"
          /\ pipe' = <<>>
      BY <1>6 DEF SocketOpens, SocketDrops, SocketRefused, Subscribed, Reconnect, Queries,
         RunPageInv, PipeIsWatched
    <2>2. SocketKept
      BY <1>0, <2>1 DEF SocketKept, Watching
    <2>3. AskedAgain
      BY <1>0, <2>1 DEF AskedAgain
    <2> QED BY <1>0, <2>2, <2>3, AskingIsFollowed
  <1>7. CASE PollRun \/ FocusRun
    <2>1. UNCHANGED <<page, heard, pipe, socket>> /\ runQ' = Fetch(runQ)
      BY <1>7 DEF PollRun, FocusRun, Stream
    <2>2. SocketKept
      BY <1>0, <2>1 DEF SocketKept, Watching
    <2>3. AskedAgain
      BY <1>0, <2>1 DEF AskedAgain
    <2> QED BY <1>0, <2>2, <2>3, AskingIsFollowed
  <1>8. CASE ListIsRead
    <2>1. /\ UNCHANGED <<runQ, heard>>
          /\ \/ page' = page /\ pipe' = pipe /\ socket' = socket
             \/ page' = "runs" /\ pipe' = <<>> /\ socket' = "off"
      BY <1>8 DEF ListIsRead, Reconnect, Stream
    <2>2. SocketKept
      BY <1>0, <2>1 DEF SocketKept, Watching
    <2>3. AskedAgain
      BY <1>0, <2>1 DEF AskedAgain
    <2> QED BY <1>0, <2>2, <2>3, AskingIsFollowed
  <1>9. CASE OpenRun \/ LiveRunCard \/ BackToRuns
    <2>1. /\ heard' = heard /\ pipe' = <<>> /\ runQ' \in {runQ, Fetch(runQ)}
          /\ \/ page' \in {"run", "card"}
             \/ page' = "runs" /\ socket' = "off"
      BY <1>9 DEF OpenRun, LiveRunCard, BackToRuns, Watch, Mounted, Reconnect, Queries
    <2>2. SocketKept
      BY <1>0, <2>1 DEF SocketKept
    <2>3. AskedAgain
      BY <2>1 DEF AskedAgain
    <2> QED BY <1>0, <2>2, <2>3, AskingIsFollowed
  <1>10. CASE TriggerAnswered
    <2>1. /\ heard' = heard
          /\ \/ page' = page /\ pipe' = pipe /\ socket' = socket
             \/ page' = "run" /\ pipe' = <<>>
      BY <1>10 DEF TriggerAnswered, Reconnect, Stream
    <2>2. \/ runQ' = runQ
          \/ runQ' = Fetch(Invalidate(runQ, page = "card"))
          \/ runQ' = Invalidate(runQ, Watching)
      BY <1>10 DEF TriggerAnswered
    <2>3. (page = "card") \in BOOLEAN
      OBVIOUS
    <2>4. AskedAgain
      BY <1>0, <2>2, <2>3 DEF AskedAgain
    <2>5. SocketKept
      BY <1>0, <2>1 DEF SocketKept, Watching
    <2> QED BY <1>0, <2>4, <2>5, AskingIsFollowed
  <1>11. CASE CancelAnswered
    <2>1. /\ UNCHANGED <<page, heard, pipe, socket>>
          /\ runQ' = runQ \/ runQ' = Invalidate(runQ, Watching)
      BY <1>11 DEF CancelAnswered, Stream
    <2>2. SocketKept
      BY <1>0, <2>1 DEF SocketKept, Watching
    <2>3. AskedAgain
      BY <1>0, <2>1 DEF AskedAgain
    <2> QED BY <1>0, <2>2, <2>3, AskingIsFollowed
  <1>12. CASE page \in {"devices", "device"} /\ PanelStep /\ UNCHANGED runVars
    <2>1. page' \in {"devices", "device"}
      BY <1>12 DEF PanelStep, OpenDevice, LeaveDevice, FocusDevice, DoLock, DoRenew,
         OnReleaseClick, ConfirmForceUnlock, CancelForceUnlock, HubLocks, HubUnlocks,
         HubRenews, Answer, Answered, DeviceIsRead, DeviceAnswered, OthersAct
    <2>2. UNCHANGED <<runQ, heard, pipe, socket>> /\ socket = "off"
      BY <1>0, <1>12 DEF runVars, Watching
    <2>3. SocketKept
      BY <1>0, <2>1, <2>2 DEF SocketKept
    <2>4. AskedAgain
      BY <2>2 DEF AskedAgain
    <2> QED BY <1>0, <2>3, <2>4, AskingIsFollowed
  <1> QED BY <1>0, <1>1, <1>2, <1>3, <1>4, <1>5, <1>6, <1>7, <1>8, <1>9, <1>10, <1>11, <1>12
          DEF Next, RunExecution, StreamStep, FetchStep, UserStep

LEMMA RunPageInvHolds == ConsoleSpec => []RunPageInv
  <1>1. ConsoleInit => RunPageInv
    BY InitRunPage DEF ConsoleInit
  <1>2. RunPageInv /\ [ConsoleNext]_consoleVars => RunPageInv'
    <2> SUFFICES ASSUME RunPageInv, [ConsoleNext]_consoleVars
                 PROVE  [Next]_vars
      BY NextRunPage
    <2> QED BY DEF ConsoleNext, consoleVars
  <1> QED BY <1>1, <1>2, PTL DEF ConsoleSpec

\* However saves, events, answers, polls, lost connections, restarts and the steps
\* of the user interleave, a page that has no fetch under way shows the run at
\* least as far as the last event it received (useRunStream.ts:27-28,
\* execution.service.ts:112-116).
THEOREM AnnouncedIsAlwaysShown == ConsoleSpec => []AnnouncedIsShown
  <1>1. RunPageInv => AnnouncedIsShown
    BY DEF RunPageInv, CacheFollows, Follows, AnnouncedIsShown
  <1> QED BY <1>1, RunPageInvHolds, PTL

-----------------------------------------------------------------------------
(* What the device page shows of the user's own actions. *)

LEMMA InitPanel == Init => PanelInv
  <1> SUFFICES ASSUME Init PROVE PanelInv
    OBVIOUS
  <1>1. /\ device \in {"free", "others"} /\ deviceQ = EmptyQuery /\ action = NoAction
        /\ dialog = FALSE /\ outdated = {}
    BY DEF Init, PanelInit
  <1>2. EmptyQuery \in DeviceQuery /\ EmptyQuery.fetch = "no"
    BY DEF EmptyQuery, DeviceQuery
  <1>3. PanelTyping
    BY <1>1, <1>2 DEF PanelTyping, NoAction, Devices, Answers
  <1>4. ActsOnShown /\ OutdatedIsMarked
    BY <1>1 DEF ActsOnShown, OutdatedIsMarked, NoAction
  <1> QED BY <1>3, <1>4 DEF PanelInv

\* The operations of the cache, on the query of the device.
LEMMA AskingKeepsQuery ==
  ASSUME NEW q, Answers(q), NEW r \in {q, Fetch(q), Fail(q), Invalidate(q, FALSE)}
  PROVE  /\ Answers(r) /\ r.data = q.data /\ (q.stale => r.stale)
         /\ r.fetch = "read" => q.fetch = "read"
  <1> USE DEF Answers
  <1>1. CASE r = q
    BY <1>1
  <1>2. CASE r = Fetch(q)
    <2>1. r = q \/ r = [q EXCEPT !.fetch = "sent", !.read = NoData]
      BY <1>2 DEF Fetch, Send
    <2> QED BY <2>1 DEF DeviceQuery
  <1>3. CASE r = Fail(q)
    BY <1>3 DEF Fail, DeviceQuery
  <1>4. CASE r = Invalidate(q, FALSE)
    <2>1. r = q \/ r = [q EXCEPT !.stale = TRUE]
      BY <1>4 DEF Invalidate
    <2> QED BY <2>1 DEF DeviceQuery
  <1> QED BY <1>1, <1>2, <1>3, <1>4

LEMMA AnsweringQuery ==
  ASSUME NEW q, Answers(q), NEW d \in Devices
  PROVE  /\ Answers(Read(q, d)) /\ Read(q, d).data = q.data /\ Read(q, d).stale = q.stale
         /\ q.fetch = "read" =>
              Answers(Fill(q)) /\ Fill(q).data \in Devices /\ Fill(q).fetch = "no"
  BY DEF Answers, DeviceQuery, Read, Fill

LEMMA InvalidatingQuery ==
  ASSUME NEW q, Answers(q), q.data # NoData
  PROVE  /\ Answers(Invalidate(q, TRUE)) /\ Invalidate(q, TRUE).data = q.data
         /\ Invalidate(q, TRUE).stale /\ Invalidate(q, TRUE).fetch = "sent"
  BY DEF Answers, DeviceQuery, Invalidate, Send

\* Steps that leave the user's action alone and at most ask again, or mark.
LEMMA PanelStays ==
  ASSUME PanelInv, UNCHANGED <<action, dialog, outdated>>, device' \in Devices,
         page' # "device" => page # "device",
         deviceQ' \in {deviceQ, Fetch(deviceQ), Fail(deviceQ), Invalidate(deviceQ, FALSE)}
  PROVE  PanelInv'
  <1>1. Answers(deviceQ)
    BY DEF PanelInv, PanelTyping
  <1>2. /\ Answers(deviceQ') /\ deviceQ'.data = deviceQ.data
        /\ deviceQ.stale => deviceQ'.stale
        /\ deviceQ'.fetch = "read" => deviceQ.fetch = "read"
    BY <1>1, AskingKeepsQuery
  <1>3. PanelTyping'
    BY <1>2 DEF PanelInv, PanelTyping
  <1>4. ActsOnShown'
    BY <1>2 DEF PanelInv, ActsOnShown
  <1>5. OutdatedIsMarked'
    BY <1>2 DEF PanelInv, OutdatedIsMarked
  <1> QED BY <1>3, <1>4, <1>5 DEF PanelInv

LEMMA UserKeepsPanel ==
  ASSUME PanelInv,
         \/ OpenDevice \/ LeaveDevice \/ FocusDevice \/ DoLock \/ DoRenew \/ OnReleaseClick
         \/ ConfirmForceUnlock \/ CancelForceUnlock
  PROVE  PanelInv'
  <1>0. device \in Devices /\ NoData \notin Devices
    BY NoDataAssumption DEF PanelInv, PanelTyping
  <1>1. CASE OpenDevice \/ FocusDevice
    <2>1. /\ UNCHANGED <<action, dialog, outdated, device>> /\ page' = "device"
          /\ deviceQ' \in {deviceQ, Fetch(deviceQ)}
      BY <1>1 DEF OpenDevice, FocusDevice, Mounted
    <2> QED BY <1>0, <2>1, PanelStays
  <1>2. CASE LeaveDevice
    BY <1>2 DEF LeaveDevice, PanelInv, PanelTyping, ActsOnShown, OutdatedIsMarked
  <1>3. CASE DoLock \/ DoRenew \/ OnReleaseClick
    <2>1. /\ page = "device" /\ deviceQ.data # NoData /\ action.at = "no" /\ ~dialog
          /\ UNCHANGED <<page, device, deviceQ, outdated>>
          /\ \/ /\ dialog' = dialog
                /\ \E kind \in {"lock", "renew", "unlock"} :
                     action' = [kind |-> kind, at |-> "sent"]
             \/ dialog' = TRUE /\ action' = action
      BY <1>0, <1>3 DEF DoLock, DoRenew, OnReleaseClick, Shows, HeldByMe, Ask, Devices
    <2>2. PanelTyping'
      <3>1. dialog' \in BOOLEAN
        BY <2>1 DEF PanelInv, PanelTyping
      <3>2. action' \in [kind : {"none", "lock", "unlock", "renew"},
                         at : {"no", "sent", "ok", "refused"}]
        BY <2>1 DEF PanelInv, PanelTyping
      <3> QED BY <2>1, <3>1, <3>2 DEF PanelInv, PanelTyping
    <2>3. ActsOnShown'
      BY <2>1 DEF PanelInv, PanelTyping, ActsOnShown
    <2>4. OutdatedIsMarked'
      BY <2>1 DEF PanelInv, OutdatedIsMarked
    <2> QED BY <2>2, <2>3, <2>4 DEF PanelInv
  <1>4. CASE ConfirmForceUnlock
    <2>1. /\ dialog /\ dialog' = FALSE /\ action' = [kind |-> "unlock", at |-> "sent"]
          /\ UNCHANGED <<page, device, deviceQ, outdated>>
      BY <1>4 DEF ConfirmForceUnlock, Ask
    <2> QED BY <2>1 DEF PanelInv, PanelTyping, ActsOnShown, OutdatedIsMarked
  <1>5. CASE CancelForceUnlock
    BY <1>5 DEF CancelForceUnlock, PanelInv, PanelTyping, ActsOnShown, OutdatedIsMarked
  <1> QED BY <1>1, <1>2, <1>3, <1>4, <1>5

LEMMA AnswersKeepPanel ==
  ASSUME PanelInv, HubLocks \/ HubUnlocks \/ HubRenews \/ Answered
  PROVE  PanelInv'
  <1>0. device \in Devices /\ Answers(deviceQ)
    BY DEF PanelInv, PanelTyping
  <1>1. CASE HubLocks \/ HubUnlocks \/ HubRenews
    <2>1. /\ action.at = "sent" /\ UNCHANGED <<page, deviceQ, dialog>> /\ device' \in Devices
          /\ \/ /\ action' = [action EXCEPT !.at = "ok"]
                /\ outdated' = IF page = "device" THEN {"shown", "read"} ELSE outdated
             \/ action' = [action EXCEPT !.at = "refused"] /\ outdated' = outdated
      BY <1>0, <1>1 DEF HubLocks, HubUnlocks, HubRenews, Answer, Devices
    <2>2. /\ action' \in [kind : {"none", "lock", "unlock", "renew"},
                          at : {"no", "sent", "ok", "refused"}]
          /\ action'.at \in {"ok", "refused"} /\ (outdated' # outdated => action'.at = "ok")
      BY <2>1 DEF PanelInv, PanelTyping
    <2>3. CASE action'.at = "ok"
      BY <2>1, <2>2, <2>3 DEF PanelInv, PanelTyping, ActsOnShown, OutdatedIsMarked
    <2>4. CASE action'.at # "ok"
      BY <2>1, <2>2, <2>4 DEF PanelInv, PanelTyping, ActsOnShown, OutdatedIsMarked
    <2> QED BY <2>3, <2>4
  <1>2. CASE Answered
    <2>1. /\ UNCHANGED <<page, device, dialog, outdated>> /\ action' = NoAction
          /\ action.at \in {"ok", "refused"}
          /\ deviceQ' = IF action.at = "ok" THEN Invalidate(deviceQ, page = "device") ELSE deviceQ
      BY <1>2 DEF Answered
    <2>2. deviceQ.data # NoData /\ ~dialog
      BY <2>1 DEF PanelInv, PanelTyping, ActsOnShown
    <2>3. CASE action.at = "ok" /\ page = "device"
      <3>1. deviceQ' = Invalidate(deviceQ, TRUE)
        BY <2>1, <2>3
      <3>2. /\ Answers(deviceQ') /\ deviceQ'.data = deviceQ.data
            /\ deviceQ'.stale /\ deviceQ'.fetch = "sent"
        BY <1>0, <2>2, <3>1, InvalidatingQuery
      <3> QED BY <2>1, <2>2, <2>3, <3>2
              DEF PanelInv, PanelTyping, ActsOnShown, OutdatedIsMarked, NoAction
    <2>4. CASE action.at = "ok" /\ page # "device"
      <3>1. deviceQ' = Invalidate(deviceQ, FALSE)
        BY <2>1, <2>4
      <3>2. Answers(deviceQ') /\ deviceQ'.data = deviceQ.data
        BY <1>0, <3>1, AskingKeepsQuery
      <3> QED BY <2>1, <2>2, <2>4, <3>2
              DEF PanelInv, PanelTyping, ActsOnShown, OutdatedIsMarked, NoAction
    <2>5. CASE action.at = "refused"
      <3>1. deviceQ' = deviceQ
        BY <2>1, <2>5
      <3> QED BY <2>1, <2>2, <2>5, <3>1
              DEF PanelInv, PanelTyping, ActsOnShown, OutdatedIsMarked, NoAction
    <2> QED BY <2>1, <2>3, <2>4, <2>5
  <1> QED BY <1>1, <1>2

LEMMA ReadingKeepsPanel ==
  ASSUME PanelInv, DeviceIsRead \/ DeviceAnswered
  PROVE  PanelInv'
  <1>0. /\ device \in Devices /\ NoData \notin Devices /\ Answers(deviceQ)
        /\ outdated \in SUBSET {"shown", "read"}
    BY NoDataAssumption DEF PanelInv, PanelTyping
  <1>1. CASE DeviceIsRead
    <2>1. /\ UNCHANGED <<page, device, action, dialog>> /\ deviceQ' = Read(deviceQ, device)
          /\ outdated' = outdated \ {"read"}
      BY <1>1 DEF DeviceIsRead
    <2>2. Answers(deviceQ') /\ deviceQ'.data = deviceQ.data /\ deviceQ'.stale = deviceQ.stale
      BY <1>0, <2>1, AnsweringQuery
    <2>3. PanelTyping'
      BY <1>0, <2>1, <2>2 DEF PanelInv, PanelTyping
    <2>4. ActsOnShown'
      BY <2>1, <2>2 DEF PanelInv, ActsOnShown
    <2>5. OutdatedIsMarked'
      BY <2>1, <2>2 DEF PanelInv, OutdatedIsMarked
    <2> QED BY <2>3, <2>4, <2>5 DEF PanelInv
  <1>2. CASE DeviceAnswered
    <2>1. /\ UNCHANGED <<page, device, action, dialog>> /\ deviceQ' = Fill(deviceQ)
          /\ deviceQ.fetch = "read"
          /\ outdated' = IF "read" \in outdated THEN {"shown", "read"} ELSE {}
      BY <1>2 DEF DeviceAnswered
    <2>2. Answers(deviceQ') /\ deviceQ'.data \in Devices /\ deviceQ'.fetch = "no"
      BY <1>0, <2>1, AnsweringQuery
    <2>3. OutdatedIsMarked'
      BY <2>1, <2>2 DEF PanelInv, OutdatedIsMarked
    <2>4. PanelTyping' /\ ActsOnShown'
      BY <1>0, <2>1, <2>2 DEF PanelInv, PanelTyping, ActsOnShown
    <2> QED BY <2>3, <2>4 DEF PanelInv
  <1> QED BY <1>1, <1>2

LEMMA NextPanel ==
  ASSUME PanelInv, [Next]_vars
  PROVE  PanelInv'
  <1>0. device \in Devices
    BY DEF PanelInv, PanelTyping
  <1>1. CASE PanelStep
    <2>1. CASE OthersAct
      <3>1. UNCHANGED <<page, deviceQ, action, dialog, outdated>> /\ device' \in Devices
        BY <2>1 DEF OthersAct, Devices
      <3> QED BY <3>1, PanelStays
    <2> QED BY <1>1, <2>1, UserKeepsPanel, AnswersKeepPanel, ReadingKeepsPanel DEF PanelStep
  <1>2. CASE Crash
    <2>1. /\ UNCHANGED <<page, dialog>> /\ device' \in Devices /\ action' = NoAction
          /\ deviceQ' = Fail(deviceQ)
          /\ outdated' = IF action.at = "ok" THEN {} ELSE outdated
      BY <1>0, <1>2 DEF Crash, Devices
    <2>2. Answers(deviceQ) /\ outdated \in SUBSET {"shown", "read"}
      BY DEF PanelInv, PanelTyping
    <2>3. /\ Answers(deviceQ') /\ deviceQ'.data = deviceQ.data
          /\ deviceQ'.stale = deviceQ.stale /\ deviceQ'.fetch = "no"
      BY <2>1, <2>2 DEF Fail, DeviceQuery, Answers
    <2> QED BY <2>1, <2>2, <2>3
            DEF PanelInv, PanelTyping, ActsOnShown, OutdatedIsMarked, NoAction
  <1>3. CASE TriggerAnswered \/ CancelAnswered
    <2>1. /\ UNCHANGED <<device, action, dialog, outdated>>
          /\ deviceQ' \in {deviceQ, Invalidate(deviceQ, FALSE)}
      BY <1>3 DEF TriggerAnswered, CancelAnswered, Hub, Panel
    <2>2. page' # "device" => page # "device"
      BY <1>3 DEF TriggerAnswered, CancelAnswered, Listing
    <2> QED BY <1>0, <2>1, <2>2, PanelStays
  <1>4. CASE ListIsRead \/ OpenRun \/ LiveRunCard \/ BackToRuns
    <2>1. UNCHANGED <<device, action, dialog, outdated, deviceQ>> /\ page # "device"
      BY <1>4 DEF ListIsRead, OpenRun, LiveRunCard, BackToRuns, Watch, Hub, Panel, Queries,
         Listing, Watching
    <2> QED BY <1>0, <2>1, PanelStays
  <1>5. CASE RunExecution \/ HubAnswers
    <2>1. UNCHANGED <<page, action, dialog, outdated, deviceQ>> /\ device' \in Devices
      BY <1>0, <1>5 DEF RunExecution, Save, Publish, Release, HubAnswers, HubCreates,
         HubAcquires, HubCancels, Panel, Queries, Devices
    <2> QED BY <2>1, PanelStays
  <1>6. CASE \/ StreamStep \/ PollRun \/ FocusRun \/ RunIsRead \/ RunAnswered
             \/ OnSubmit \/ PressCancel
    <2>1. UNCHANGED <<page, device, action, dialog, outdated, deviceQ>>
      BY <1>6 DEF StreamStep, SocketOpens, SocketDrops, SocketRefused, HandleMessage, PollRun,
         FocusRun, RunIsRead, RunAnswered, OnSubmit, PressCancel, Hub, Panel, Queries
    <2> QED BY <1>0, <2>1, PanelStays
  <1>7. CASE UNCHANGED vars
    <2>1. UNCHANGED <<page, device, action, dialog, outdated, deviceQ>>
      BY <1>7 DEF vars, panelVars
    <2> QED BY <1>0, <2>1, PanelStays
  <1> QED BY <1>1, <1>2, <1>3, <1>4, <1>5, <1>6, <1>7 DEF Next, FetchStep, UserStep

\* For as long as the user stays on the page of a device, no answer that the hub read
\* before it carried out the user's own action is shown once that action has been
\* answered: the success drops the fetch under way and sends another
\* (devices.api.ts:33-66), and nobody acts before the page has shown the device
\* (LockControls.tsx:41-51), so there is a document to drop the fetch for.
THEOREM OwnActionIsAlwaysShown == ConsoleSpec => []OwnActionIsShown
  <1>1. ConsoleInit => PanelInv
    BY InitPanel DEF ConsoleInit
  <1>2. PanelInv /\ [ConsoleNext]_consoleVars => PanelInv'
    <2> SUFFICES ASSUME PanelInv, [ConsoleNext]_consoleVars
                 PROVE  [Next]_vars
      BY NextPanel
    <2> QED BY DEF ConsoleNext, consoleVars
  <1>3. PanelInv => OwnActionIsShown
    BY DEF PanelInv, OutdatedIsMarked, OwnActionIsShown
  <1> QED BY <1>1, <1>2, <1>3, PTL DEF ConsoleSpec

-----------------------------------------------------------------------------
(* What the live view says. *)

LEMMA InitLive == LiveInit => LiveInv
  <1> SUFFICES ASSUME LiveInit PROVE LiveInv
    OBVIOUS
  <1>1. <<>> \in Seq(Messages)
    OBVIOUS
  <1> QED BY <1>1 DEF LiveInit, LiveInv, LiveTyping, Unseated, SeatIsServed, ClosedSaysSo,
                      ErrorIsOfThisSeat, Protocols

\* A new address: whatever the source does, the view starts again.
LEMMA RedialIsSilent ==
  ASSUME LiveInv, source' \in [Protocols -> {"off", "grab", "pause", "record", "pull"}],
         protocol' \in Protocols,
         NEW state \in {"idle", "connecting", "reconnecting"}, Redial(state)
  PROVE  LiveInv'
  <1>1. <<>> \in Seq(Messages)
    OBVIOUS
  <1> QED BY <1>1 DEF Redial, LiveInv, LiveTyping, Unseated, SeatIsServed, ClosedSaysSo,
                      ErrorIsOfThisSeat

\* What is posted comes after what is on its way.
LEMMA PostAppends ==
  ASSUME NEW b \in Seq(Messages), NEW m \in Messages
  PROVE  /\ b \o <<m>> \in Seq(Messages) /\ Len(b \o <<m>>) = Len(b) + 1
         /\ \A i \in 1 .. Len(b) : (b \o <<m>>)[i] = b[i]
         /\ (b \o <<m>>)[Len(b) + 1] = m
  OBVIOUS

LEMMA PostTwoAppends ==
  ASSUME NEW b \in Seq(Messages), NEW m \in Messages, NEW n \in Messages
  PROVE  /\ b \o <<m, n>> \in Seq(Messages) /\ Len(b \o <<m, n>>) = Len(b) + 2
         /\ \A i \in 1 .. Len(b) : (b \o <<m, n>>)[i] = b[i]
         /\ (b \o <<m, n>>)[Len(b) + 1] = m /\ (b \o <<m, n>>)[Len(b) + 2] = n
  OBVIOUS

LEMMA EndsDiffer == "joined" \notin Ends /\ "frame" \notin Ends /\ "error" \notin Ends
  BY DEF Ends

\* The last message is the end of the socket, and the only one of its kind.
ClosedWith(b) ==
  /\ b \in Seq(Messages) /\ b # <<>> /\ b[Len(b)] \in Ends
  /\ \A i \in 1 .. Len(b) - 1 : b[i] \notin Ends

LEMMA EndIsLast ==
  ASSUME NEW b \in Seq(Messages), \A i \in 1 .. Len(b) : b[i] \notin Ends
  PROVE  /\ \A m \in Ends : ClosedWith(b \o <<m>>)
         /\ ClosedWith(b \o <<"error", "1011">>)
  <1>1. ASSUME NEW m \in Ends
        PROVE  ClosedWith(b \o <<m>>)
    <2>1. m \in Messages
      BY DEF Messages
    <2> DEFINE c == b \o <<m>>
    <2>2. /\ c \in Seq(Messages) /\ Len(c) = Len(b) + 1
          /\ \A i \in 1 .. Len(b) : c[i] = b[i]
          /\ c[Len(b) + 1] = m
      BY <2>1, PostAppends
    <2>3. Len(b) \in Nat
      OBVIOUS
    <2> HIDE DEF c
    <2>4. c # <<>> /\ c[Len(c)] \in Ends
      BY <2>2, <2>3
    <2>5. \A i \in 1 .. Len(c) - 1 : c[i] \notin Ends
      BY <2>2, <2>3
    <2> QED BY <2>2, <2>4, <2>5 DEF ClosedWith, c
  <1>2. ClosedWith(b \o <<"error", "1011">>)
    <2>1. "error" \in Messages /\ "1011" \in Messages /\ "1011" \in Ends
      BY DEF Messages, Ends
    <2> DEFINE c == b \o <<"error", "1011">>
    <2>2. /\ c \in Seq(Messages) /\ Len(c) = Len(b) + 2
          /\ \A i \in 1 .. Len(b) : c[i] = b[i]
          /\ c[Len(b) + 1] = "error" /\ c[Len(b) + 2] = "1011"
      BY <2>1, PostTwoAppends
    <2>3. Len(b) \in Nat
      OBVIOUS
    <2> HIDE DEF c
    <2>4. c # <<>> /\ c[Len(c)] \in Ends
      BY <2>1, <2>2, <2>3
    <2>5. \A i \in 1 .. Len(c) - 1 : c[i] \notin Ends
      BY <2>2, <2>3, EndsDiffer
    <2> QED BY <2>2, <2>4, <2>5 DEF ClosedWith, c
  <1> QED BY <1>1, <1>2

\* A seat that is given up is told so.
LEMMA EndIsPosted ==
  ASSUME LiveInv, seat # "closed", ws # "idle", seat' = "closed",
         UNCHANGED <<protocol, ws, picture, lastError>>, halted' \in BOOLEAN,
         source' \in [Protocols -> {"off", "grab", "pause", "record", "pull"}],
         (\E m \in Ends : Post(<<m>>)) \/ Post(<<"error", "1011">>)
  PROVE  LiveInv'
  <1>1. /\ inbox \in Seq(Messages)
        /\ \A i \in 1 .. Len(inbox) : inbox[i] \notin Ends
    <2>1. CASE seat = "none"
      BY <2>1 DEF LiveInv, LiveTyping, Unseated
    <2>2. CASE seat \in {"attaching", "joined"}
      BY <2>2, EndsDiffer DEF LiveInv, LiveTyping, SeatIsServed
    <2> QED BY <2>1, <2>2 DEF LiveInv, LiveTyping
  <1>2. ClosedWith(inbox')
    BY <1>1, EndIsLast DEF Post
  <1> QED BY <1>2 DEF ClosedWith, LiveInv, LiveTyping, Unseated, SeatIsServed, ClosedSaysSo,
                      ErrorIsOfThisSeat

\* The captures may do what they like as long as a seat that is not halted has one
\* that works.
LEMMA SourceIsServed ==
  ASSUME LiveInv, UNCHANGED <<protocol, ws, seat, inbox, picture, lastError>>,
         source' \in [Protocols -> {"off", "grab", "pause", "record", "pull"}],
         halted' \in BOOLEAN, seat = "none" => ~halted',
         Seated' => Works(protocol)'
  PROVE  LiveInv'
  BY DEF LiveInv, LiveTyping, Unseated, SeatIsServed, ClosedSaysSo, ErrorIsOfThisSeat, Seated

\* What a seat is sent while it lasts.
LEMMA SeatIsPosted ==
  ASSUME LiveInv, seat \in {"attaching", "joined"}, seat' \in {"attaching", "joined"},
         UNCHANGED <<protocol, ws, halted, picture, lastError>>,
         source' \in [Protocols -> {"off", "grab", "pause", "record", "pull"}],
         Works(protocol) => Works(protocol)',
         NEW m \in {"joined", "frame"}, Post(<<m>>)
  PROVE  LiveInv'
  <1>1. inbox \in Seq(Messages) /\ m \in Messages /\ Len(inbox) \in Nat
    BY DEF LiveInv, LiveTyping, Messages
  <1>2. /\ inbox' \in Seq(Messages) /\ Len(inbox') = Len(inbox) + 1
        /\ \A i \in 1 .. Len(inbox) : inbox'[i] = inbox[i]
        /\ inbox'[Len(inbox) + 1] = m
    BY <1>1, PostAppends DEF Post
  <1>3. \A i \in 1 .. Len(inbox') : inbox'[i] \in {"joined", "frame"}
    BY <1>1, <1>2 DEF LiveInv, SeatIsServed
  <1> QED BY <1>2, <1>3 DEF LiveInv, LiveTyping, Unseated, SeatIsServed, ClosedSaysSo,
                            ErrorIsOfThisSeat, Works

LEMMA EmitIsPosted ==
  ASSUME LiveInv, NEW p, NEW frame, Emit(p, frame), source[p] # "off",
         UNCHANGED <<protocol, ws, seat, halted, picture, lastError>>,
         source' \in [Protocols -> {"off", "grab", "pause", "record", "pull"}],
         Works(protocol) => Works(protocol)'
  PROVE  LiveInv'
  <1>1. CASE frame /\ Seated /\ p = protocol
    BY <1>1, SeatIsPosted DEF Emit, Seated
  <1>2. CASE ~(frame /\ Seated /\ p = protocol)
    <2>1. Seated' => Works(protocol)'
      BY DEF Seated, LiveInv, SeatIsServed, Works
    <2>2. seat = "none" => ~halted'
      BY DEF LiveInv, Unseated
    <2>3. halted' \in BOOLEAN
      BY DEF LiveInv, LiveTyping
    <2> QED BY <1>2, <2>1, <2>2, <2>3, SourceIsServed DEF Emit
  <1> QED BY <1>1, <1>2

LEMMA ReceiveKeepsLive ==
  ASSUME LiveInv, Receive
  PROVE  LiveInv'
  <1> DEFINE head == Head(inbox)
  <1>1. /\ inbox \in Seq(Messages) /\ inbox # <<>> /\ Len(inbox) \in Nat \ {0}
        /\ seat # "none" /\ protocol \in Protocols /\ seat' \in {seat, "none"}
        /\ seat \in {"attaching", "joined", "closed"}
    BY DEF Receive, LiveInv, LiveTyping, Unseated
  <1>2. /\ head = inbox[1] /\ head \in Messages
        /\ inbox' = Tail(inbox) /\ inbox' \in Seq(Messages) /\ Len(inbox') = Len(inbox) - 1
        /\ \A i \in 1 .. Len(inbox') : inbox'[i] = inbox[i + 1]
    BY <1>1 DEF Receive
  <1>3. /\ ws' = CASE head = "1011" -> "reconnecting"
                   [] head = "refused" -> "terminated"
                   [] OTHER -> "live"
        /\ IF head = "1011" THEN seat' = "none" /\ halted' = FALSE
           ELSE UNCHANGED <<seat, halted>>
        /\ picture' = IF head = "frame" THEN protocol ELSE picture
        /\ lastError' = (head = "error" \/ (lastError /\ head # "joined"))
        /\ UNCHANGED <<protocol, source>>
    BY DEF Receive, userVars, sourceVars
  <1> HIDE DEF head
  <1>4. LiveTyping'
    BY <1>2, <1>3 DEF LiveInv, LiveTyping
  <1>5. CASE seat \in {"attaching", "joined"}
    <2>1. head \in {"joined", "frame"}
      BY <1>1, <1>2, <1>5 DEF LiveInv, SeatIsServed
    <2>2. ws' = "live" /\ seat' = seat /\ halted' = halted
      BY <1>3, <2>1
    <2>3. \A i \in 1 .. Len(inbox') : inbox'[i] \in {"joined", "frame"}
      BY <1>1, <1>2, <1>5 DEF LiveInv, SeatIsServed
    <2>4. ~(lastError' /\ picture' = "none")
          \/ (lastError /\ picture = "none" /\ head \notin {"joined", "frame"})
      BY <1>1, <1>3, <2>1 DEF Protocols
    <2> QED BY <1>3, <1>4, <1>5, <2>1, <2>2, <2>3, <2>4
            DEF LiveInv, Unseated, SeatIsServed, ClosedSaysSo, ErrorIsOfThisSeat, Works
  <1>6. CASE seat = "closed" /\ Len(inbox) = 1
    <2>1. head \in Ends /\ inbox' = <<>>
      BY <1>1, <1>2, <1>6 DEF LiveInv, ClosedSaysSo
    <2>2. CASE head = "1011"
      <3>1. ws' = "reconnecting" /\ seat' = "none" /\ ~halted'
        BY <1>3, <2>2
      <3> QED BY <1>4, <2>1, <3>1
              DEF LiveInv, Unseated, SeatIsServed, ClosedSaysSo, ErrorIsOfThisSeat
    <2>3. CASE head = "refused"
      <3>1. ws' = "terminated" /\ seat' = "closed" /\ Len(inbox') = 0
        BY <1>2, <1>3, <1>6, <2>3
      <3> QED BY <1>4, <2>1, <3>1
              DEF LiveInv, Unseated, SeatIsServed, ClosedSaysSo, ErrorIsOfThisSeat
    <2> QED BY <2>1, <2>2, <2>3 DEF Ends
  <1>7. CASE seat = "closed" /\ Len(inbox) # 1
    <2>1. head \notin Ends
      BY <1>1, <1>2, <1>7 DEF LiveInv, ClosedSaysSo
    <2>2. ws' = "live" /\ seat' = "closed"
      BY <1>3, <1>7, <2>1 DEF Ends
    <2>3. Len(inbox') \in Nat \ {0} /\ inbox' # <<>>
      <3>1. Len(inbox') \in Nat \ {0}
        BY <1>1, <1>2, <1>7
      <3>2. inbox' # <<>>
        <4> DEFINE rest == inbox'
        <4>1. Len(rest) # 0
          BY <3>1
        <4> HIDE DEF rest
        <4>2. rest # <<>>
          BY <4>1
        <4> QED BY <4>2 DEF rest
      <3> QED BY <3>1, <3>2
    <2>4. inbox'[Len(inbox')] = inbox[Len(inbox)]
      BY <1>1, <1>2, <2>3
    <2>5. \A i \in 1 .. Len(inbox') - 1 : inbox'[i] \notin Ends
      <3> SUFFICES ASSUME NEW i \in 1 .. Len(inbox') - 1
                   PROVE  inbox'[i] \notin Ends
        OBVIOUS
      <3>1. i \in 1 .. Len(inbox') /\ i + 1 \in 1 .. Len(inbox) - 1
        BY <1>1, <1>2, <2>3
      <3> QED BY <1>2, <1>7, <3>1 DEF LiveInv, ClosedSaysSo
    <2>6. inbox[Len(inbox)] \in Ends
      BY <1>1, <1>7 DEF LiveInv, ClosedSaysSo
    <2> QED BY <1>4, <2>2, <2>3, <2>4, <2>5, <2>6
            DEF Unseated, SeatIsServed, ClosedSaysSo, ErrorIsOfThisSeat, LiveInv
  <1> QED BY <1>1, <1>5, <1>6, <1>7

LEMMA UserKeepsLive ==
  ASSUME LiveInv,
         \/ StartView \/ StopView \/ DismissRestarted \/ DeviceSeen
         \/ \E p \in Protocols : SetProtocol(p)
  PROVE  LiveInv'
  <1>0. /\ source \in [Protocols -> {"off", "grab", "pause", "record", "pull"}]
        /\ protocol \in Protocols
    BY DEF LiveInv, LiveTyping
  <1>1. CASE StartView \/ StopView
    <2>1. Redial("connecting") \/ Redial("idle")
      BY <1>1 DEF StartView, StopView
    <2>2. UNCHANGED <<source, protocol>>
      BY <1>1 DEF StartView, StopView, sourceVars
    <2> QED BY <1>0, <2>1, <2>2, RedialIsSilent
  <1>2. CASE DismissRestarted
    <2>1. UNCHANGED <<protocol, ws, seat, halted, inbox, source, picture, lastError>>
      BY <1>2 DEF DismissRestarted, userVars, wsVars, sourceVars
    <2> QED BY <2>1 DEF LiveInv, LiveTyping, Unseated, SeatIsServed, ClosedSaysSo,
                        ErrorIsOfThisSeat, Works
  <1>3. CASE DeviceSeen
    <2>1. UNCHANGED <<protocol, source, picture, lastError>>
      BY <1>3 DEF DeviceSeen, shownVars, sourceVars
    <2>2. \/ Redial("connecting") \/ Redial("idle")
          \/ UNCHANGED <<ws, seat, halted, inbox>>
      BY <1>3 DEF DeviceSeen, wsVars
    <2>3. CASE UNCHANGED <<ws, seat, halted, inbox>>
      BY <2>1, <2>3 DEF LiveInv, LiveTyping, Unseated, SeatIsServed, ClosedSaysSo,
                        ErrorIsOfThisSeat, Works
    <2> QED BY <1>0, <2>1, <2>2, <2>3, RedialIsSilent
  <1>4. ASSUME NEW p \in Protocols, SetProtocol(p)
        PROVE  LiveInv'
    <2>1. protocol' = p /\ UNCHANGED <<source, picture, lastError>>
      BY <1>4 DEF SetProtocol, shownVars, sourceVars
    <2>2. CASE ws = "idle"
      <3>1. seat = "none"
        BY <2>2 DEF LiveInv, LiveTyping, SeatIsServed, ClosedSaysSo
      <3>2. UNCHANGED <<ws, seat, halted, inbox>>
        BY <1>4, <2>2 DEF SetProtocol, wsVars
      <3> QED BY <2>1, <2>2, <3>1, <3>2
              DEF LiveInv, LiveTyping, Unseated, SeatIsServed, ClosedSaysSo, ErrorIsOfThisSeat
    <2>3. CASE ws # "idle"
      <3>1. Redial("connecting")
        BY <1>4, <2>3 DEF SetProtocol
      <3> QED BY <1>0, <2>1, <3>1, RedialIsSilent
    <2> QED BY <2>2, <2>3
  <1> QED BY <1>1, <1>2, <1>3, <1>4

LEMMA SocketKeepsLive ==
  ASSUME LiveInv, Refuse \/ AddViewer \/ Joined \/ AttachFails \/ SocketLost \/ HubRestarts
  PROVE  LiveInv'
  <1> DEFINE Sources == [Protocols -> {"off", "grab", "pause", "record", "pull"}]
  <1>0. source \in Sources /\ protocol \in Protocols /\ halted \in BOOLEAN
    BY DEF LiveInv, LiveTyping
  <1>1. CASE Refuse
    <2>1. /\ seat = "none" /\ ws # "idle" /\ seat' = "closed" /\ "refused" \in Ends
          /\ UNCHANGED <<protocol, ws, picture, lastError, halted, source>>
          /\ Post(<<"refused">>)
      BY <1>1 DEF Refuse, Dialling, userVars, shownVars, sourceVars, Ends
    <2> QED BY <1>0, <2>1, EndIsPosted
  <1>2. CASE AddViewer
    <2>1. /\ seat = "none" /\ ws \in {"connecting", "reconnecting"} /\ seat' = "attaching"
          /\ UNCHANGED <<protocol, ws, halted, inbox, picture, lastError>>
          /\ source' = [source EXCEPT ![protocol] = IF @ = "off" THEN First(protocol) ELSE @]
      BY <1>2 DEF AddViewer, Dialling, userVars, shownVars
    <2>2. source' \in Sources /\ source'[protocol] # "off"
      BY <1>0, <2>1 DEF First, Protocols
    <2>3. inbox = <<>> /\ inbox \in Seq(Messages)
      BY <2>1 DEF LiveInv, LiveTyping, Unseated
    <2> QED BY <1>0, <2>1, <2>2, <2>3
            DEF LiveInv, LiveTyping, Unseated, SeatIsServed, ClosedSaysSo,
                ErrorIsOfThisSeat, Works
  <1>3. CASE Joined
    <2>1. /\ seat = "attaching" /\ seat' = "joined" /\ Post(<<"joined">>)
          /\ UNCHANGED <<protocol, ws, halted, picture, lastError, source>>
      BY <1>3 DEF Joined, userVars, shownVars, sourceVars
    <2> QED BY <1>0, <2>1, SeatIsPosted DEF Works
  <1>4. CASE AttachFails
    <2>1. /\ seat = "attaching" /\ seat' = "closed" /\ Post(<<"1011">>) /\ "1011" \in Ends
          /\ UNCHANGED <<protocol, ws, halted, picture, lastError, source>>
      BY <1>4 DEF AttachFails, userVars, shownVars, sourceVars, Ends
    <2>2. ws # "idle"
      BY <2>1 DEF LiveInv, SeatIsServed
    <2> QED BY <1>0, <2>1, <2>2, EndIsPosted
  <1>5. CASE SocketLost
    <2>1. Redial("reconnecting") /\ UNCHANGED <<protocol, source>>
      BY <1>5 DEF SocketLost, userVars, sourceVars
    <2> QED BY <1>0, <2>1, RedialIsSilent
  <1>6. CASE HubRestarts
    <2>1. source' \in Sources /\ UNCHANGED <<protocol, picture, lastError>>
      BY <1>6 DEF HubRestarts, userVars, shownVars
    <2>2. CASE ws \in {"connecting", "reconnecting", "live"}
      <3>1. Redial("reconnecting")
        BY <1>6, <2>2 DEF HubRestarts
      <3> QED BY <1>0, <2>1, <3>1, RedialIsSilent
    <2>3. CASE ws \notin {"connecting", "reconnecting", "live"}
      <3>1. UNCHANGED <<ws, seat, halted, inbox>> /\ ~Seated'
        BY <1>6, <2>3 DEF HubRestarts, wsVars, LiveInv, SeatIsServed, Seated
      <3>2. seat = "none" => ~halted'
        BY <3>1 DEF LiveInv, Unseated
      <3> QED BY <1>0, <2>1, <3>1, <3>2, SourceIsServed
    <2> QED BY <2>2, <2>3
  <1> QED BY <1>1, <1>2, <1>3, <1>4, <1>5, <1>6

\* A capture that is killed leaves its seats halted or told.
LEMMA KillIsSilent ==
  ASSUME LiveInv, NEW stopped, stopped \subseteq Protocols, Silence(stopped)
  PROVE  LiveInv'
  <1>1. /\ UNCHANGED <<protocol, ws, seat, inbox, picture, lastError>>
        /\ source' = [p \in Protocols |-> IF p \in stopped THEN "off" ELSE source[p]]
        /\ halted' = (halted \/ (Seated /\ protocol \in stopped))
    BY DEF Silence, Kill, userVars, shownVars
  <1>2. /\ source \in [Protocols -> {"off", "grab", "pause", "record", "pull"}]
        /\ protocol \in Protocols /\ halted \in BOOLEAN
    BY DEF LiveInv, LiveTyping
  <1>3. source' \in [Protocols -> {"off", "grab", "pause", "record", "pull"}]
    BY <1>1, <1>2
  <1>4. halted' \in BOOLEAN
    BY <1>1, <1>2 DEF Seated
  <1>5. seat = "none" => ~halted'
    BY <1>1 DEF LiveInv, Unseated, Seated
  <1>6. Seated' => Works(protocol)'
    BY <1>1, <1>2 DEF Seated, Works, LiveInv, SeatIsServed
  <1> QED BY <1>1, <1>3, <1>4, <1>5, <1>6, SourceIsServed

LEMMA CommandsKeepLive ==
  ASSUME LiveInv,
         \/ Tick \/ Recorded
         \/ \E frame \in BOOLEAN : Grabbed(frame) \/ Pulled(frame)
  PROVE  LiveInv'
  <1> DEFINE Sources == [Protocols -> {"off", "grab", "pause", "record", "pull"}]
  <1>0. source \in Sources /\ protocol \in Protocols /\ halted \in BOOLEAN
    BY DEF LiveInv, LiveTyping
  <1>1. CASE Tick \/ Recorded
    <2>1. /\ UNCHANGED <<protocol, ws, seat, halted, inbox, picture, lastError>>
          /\ source' \in Sources /\ (Works(protocol) => Works(protocol)')
      BY <1>0, <1>1 DEF Tick, Recorded, Do, Works, Protocols, userVars, wsVars, shownVars
    <2>2. seat = "none" => ~halted'
      BY <2>1 DEF LiveInv, Unseated
    <2>3. Seated' => Works(protocol)'
      BY <2>1 DEF Seated, LiveInv, SeatIsServed
    <2> QED BY <1>0, <2>1, <2>2, <2>3, SourceIsServed
  <1>2. ASSUME NEW frame \in BOOLEAN, Grabbed(frame)
        PROVE  LiveInv'
    <2>1. /\ UNCHANGED <<protocol, ws, seat, halted, picture, lastError>>
          /\ source' \in Sources /\ (Works(protocol) => Works(protocol)')
          /\ source["mjpeg"] # "off" /\ Emit("mjpeg", frame)
      BY <1>0, <1>2 DEF Grabbed, Do, Works, Protocols, userVars, shownVars
    <2> QED BY <2>1, EmitIsPosted
  <1>3. ASSUME NEW frame \in BOOLEAN, Pulled(frame)
        PROVE  LiveInv'
    <2>1. /\ UNCHANGED <<protocol, ws, seat, halted, picture, lastError>>
          /\ source' \in Sources /\ (Works(protocol) => Works(protocol)')
          /\ source["h264"] # "off" /\ Emit("h264", frame)
      BY <1>0, <1>3 DEF Pulled, Do, Works, Protocols, userVars, shownVars
    <2> QED BY <2>1, EmitIsPosted
  <1> QED BY <1>1, <1>2, <1>3

LEMMA CapturesKeepLive ==
  ASSUME LiveInv,
         \/ StopCapture \/ LateChatter
         \/ \E p \in Protocols : CaptureBreaks(p) \/ SweepIdle(p) \/ OrphanBreaks(p) \/ OthersWatch(p)
  PROVE  LiveInv'
  <1> DEFINE Sources == [Protocols -> {"off", "grab", "pause", "record", "pull"}]
  <1>0. source \in Sources /\ protocol \in Protocols /\ halted \in BOOLEAN
    BY DEF LiveInv, LiveTyping
  <1>1. CASE StopCapture
    BY <1>1, KillIsSilent DEF StopCapture
  <1>2. CASE LateChatter
    <2>1. /\ UNCHANGED <<protocol, ws, seat, inbox, picture, lastError>>
          /\ source' = [source EXCEPT !["mjpeg"] = "off"]
          /\ halted' = (halted \/ (Seated /\ protocol = "mjpeg"))
      BY <1>2 DEF LateChatter, userVars, shownVars
    <2>2. source' \in Sources /\ halted' \in BOOLEAN
      BY <1>0, <2>1 DEF Seated
    <2>3. seat = "none" => ~halted'
      BY <2>1 DEF LiveInv, Unseated, Seated
    <2>4. Seated' => Works(protocol)'
      BY <1>0, <2>1 DEF Seated, Works, LiveInv, SeatIsServed, Protocols
    <2> QED BY <2>1, <2>2, <2>3, <2>4, SourceIsServed
  <1>3. ASSUME NEW p \in Protocols, CaptureBreaks(p)
        PROVE  LiveInv'
    <2>1. /\ UNCHANGED <<protocol, ws, halted, picture, lastError>>
          /\ source' = [q \in Protocols |-> IF q \in {p} THEN "off" ELSE source[q]]
          /\ IF Seated /\ p = protocol
             THEN seat' = "closed" /\ Post(<<"error", "1011">>)
             ELSE UNCHANGED <<seat, inbox>>
      BY <1>3 DEF CaptureBreaks, Kill, userVars, shownVars
    <2>2. source' \in Sources
      BY <1>0, <2>1
    <2>3. CASE Seated /\ p = protocol
      <3>1. seat # "closed" /\ ws # "idle"
        BY <2>3 DEF Seated, LiveInv, SeatIsServed
      <3> QED BY <1>0, <2>1, <2>2, <2>3, <3>1, EndIsPosted
    <2>4. CASE ~(Seated /\ p = protocol)
      <3>1. seat = "none" => ~halted'
        BY <2>1 DEF LiveInv, Unseated
      <3>2. Seated' => Works(protocol)'
        BY <1>0, <2>1, <2>4 DEF Seated, Works, LiveInv, SeatIsServed
      <3> QED BY <1>0, <2>1, <2>2, <2>4, <3>1, <3>2, SourceIsServed
    <2> QED BY <2>3, <2>4
  <1>4. ASSUME NEW p \in Protocols, SweepIdle(p)
        PROVE  LiveInv'
    BY <1>4, KillIsSilent DEF SweepIdle
  <1>6. ASSUME NEW p \in Protocols, OrphanBreaks(p)
        PROVE  LiveInv'
    BY <1>6, KillIsSilent DEF OrphanBreaks
  <1>5. ASSUME NEW p \in Protocols, OthersWatch(p)
        PROVE  LiveInv'
    <2>1. /\ UNCHANGED <<protocol, ws, seat, halted, inbox, picture, lastError>>
          /\ source' \in Sources /\ (Works(protocol) => Works(protocol)')
      BY <1>0, <1>5 DEF OthersWatch, Do, First, Works, Protocols, userVars, wsVars, shownVars
    <2>2. seat = "none" => ~halted'
      BY <2>1 DEF LiveInv, Unseated
    <2>3. Seated' => Works(protocol)'
      BY <2>1 DEF Seated, LiveInv, SeatIsServed
    <2> QED BY <1>0, <2>1, <2>2, <2>3, SourceIsServed
  <1> QED BY <1>1, <1>2, <1>3, <1>4, <1>5, <1>6

LEMMA LiveInvHolds == ConsoleSpec => []LiveInv
  <1>1. ConsoleInit => LiveInv
    BY InitLive DEF ConsoleInit
  <1>2. ASSUME LiveInv, [ConsoleNext]_consoleVars
        PROVE  LiveInv'
    <2>1. CASE LiveNext
      <3>1. CASE \/ StartView \/ StopView \/ DismissRestarted \/ DeviceSeen
                 \/ \E p \in Protocols : SetProtocol(p)
        BY <1>2, <3>1, UserKeepsLive
      <3>2. CASE Refuse \/ AddViewer \/ Joined \/ AttachFails \/ SocketLost \/ HubRestarts
        BY <1>2, <3>2, SocketKeepsLive
      <3>3. CASE Receive
        BY <1>2, <3>3, ReceiveKeepsLive
      <3>4. CASE \/ Tick \/ Recorded
                 \/ \E frame \in BOOLEAN : Grabbed(frame) \/ Pulled(frame)
        BY <1>2, <3>4, CommandsKeepLive
      <3>5. CASE \/ StopCapture \/ LateChatter
                 \/ \E p \in Protocols : CaptureBreaks(p) \/ SweepIdle(p) \/ OrphanBreaks(p) \/ OthersWatch(p)
        BY <1>2, <3>5, CapturesKeepLive
      <3> QED BY <2>1, <3>1, <3>2, <3>3, <3>4, <3>5
              DEF LiveNext, HubServes, Grabbing, Recording
    <2>2. CASE UNCHANGED viewVars
      <3>1. UNCHANGED <<protocol, ws, seat, halted, inbox, source, picture, lastError>>
        BY <2>2 DEF viewVars, userVars, wsVars, shownVars, sourceVars
      <3> QED BY <1>2, <3>1 DEF LiveInv, LiveTyping, Unseated, SeatIsServed, ClosedSaysSo,
                                ErrorIsOfThisSeat, Works
    <2>3. LiveNext \/ UNCHANGED viewVars
      BY <1>2 DEF ConsoleNext, consoleVars
    <2> QED BY <2>1, <2>2, <2>3
  <1> QED BY <1>1, <1>2, PTL DEF ConsoleSpec

\* The banner says "Live" only while the capture behind the socket works, the news
\* of its end is on its way, or it was stopped without a word: a failed command
\* tells its viewers before they are dropped, those that wait for the join ack
\* included (streaming.routes.ts:99-111), and a socket of another address starts
\* over (useDeviceStream.ts:68-75).
THEOREM LiveIsAlwaysFed == ConsoleSpec => []LiveIsFed
  <1>1. LiveInv => LiveIsFed
    <2> SUFFICES ASSUME LiveInv, Banner = "live" PROVE Works(protocol) \/ inbox # <<>> \/ halted
      BY DEF LiveIsFed
    <2>1. ws = "live"
      BY DEF Banner, State, Enabled
    <2>2. seat \in {"attaching", "joined", "closed"}
      BY <2>1 DEF LiveInv, LiveTyping, Unseated
    <2> QED BY <2>1, <2>2 DEF LiveInv, SeatIsServed, ClosedSaysSo
  <1> QED BY <1>1, LiveInvHolds, PTL

\* "Last attempt failed" is shown by a live socket only until the close of its own
\* seat has arrived: an error of an earlier attempt has been cleared by the ack or
\* covered by a picture of this one (useDeviceStream.ts:85-97).
THEOREM ErrorIsAlwaysOfThisAttempt == ConsoleSpec => []ErrorIsOfThisAttempt
  <1>1. LiveInv => ErrorIsOfThisAttempt
    <2> SUFFICES ASSUME LiveInv, Banner = "live", Stage = "last attempt failed"
                 PROVE  inbox # <<>>
      BY DEF ErrorIsOfThisAttempt
    <2>1. ws = "live"
      BY DEF Banner, State, Enabled
    <2>2. picture = "none"
      BY DEF Stage
    <2>3. lastError
      BY <2>2 DEF Stage
    <2> QED BY <2>1, <2>2, <2>3 DEF LiveInv, ClosedSaysSo, ErrorIsOfThisSeat
  <1> QED BY <1>1, LiveInvHolds, PTL
=============================================================================
