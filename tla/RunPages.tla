------------------------------ MODULE RunPages ------------------------------
(* A tab that triggers a run, lists it, watches it and cancels it. The hub     *)
(* saves each transition and then publishes an event to the sockets that are   *)
(* subscribed at that moment; an event makes the tab fetch the document again, *)
(* and while no socket is live the tab polls instead. A tab keeps to the pages *)
(* of runs or to those of devices: the links between the two are not followed. *)
EXTENDS LockPanel, Naturals, Sequences

CONSTANT MaxFaults  \* bound on lost connections and restarts of the hub

VARIABLES
    run,        \* the status of the ExecutionRun document
    step,       \* what the hub's orchestration does next
    killed,     \* whether a cancellation was accepted
    trigger,    \* the mutation of the trigger form
    cancel,     \* the mutation of the cancel button
    runQ,       \* the query ['runs', runId]
    listed,     \* whether the query ['runs', params] shows a run in flight
    socket,     \* state of the run's stream in the tab
    pipe,       \* events the hub has sent and the tab has not received
    heard,      \* history: how far the run was by the last event or answer received
    missed,     \* history: a transition since the last reading did not reach the tab
    faults

runVars == <<run, step, killed, trigger, cancel, runQ, listed, socket, pipe, heard, missed, faults>>
vars == <<page, panelVars, runVars>>
Queries == <<runQ, listed, deviceQ>>
Hub == <<run, step, killed, device>>
Stream == <<socket, pipe, heard, missed>>
Panel == <<action, dialog, outdated>>

InFlight(status) == status \in {"queued", "preparing", "running"}
Over(status) == status \in {"passed", "failed", "cancelled"}
Far(status) ==
    CASE status = "none" -> 0
      [] status = "queued" -> 1
      [] status = "preparing" -> 2
      [] status = "running" -> 3
      [] OTHER -> 4

\* The run's own page and the card on the trigger tab mount the same two hooks.
Watching == page \in {"run", "card"}
Listing == page \in {"runs", "card"}
Subscribed == socket = "live"

Init ==
    /\ PanelInit
    /\ page \in {"devices", "runs"}
    /\ run = "none" /\ step = "no" /\ killed = FALSE
    /\ trigger = "no" /\ cancel = "no"
    /\ runQ = EmptyQuery /\ listed = FALSE
    /\ socket = "off" /\ pipe = <<>>
    /\ heard = 0 /\ missed = FALSE
    /\ faults = 0

------------------------------------------------------------------------------
(* The hub: one save, then its event. The last two writes have no event, and  *)
(* the events of the stages are left out: they only make for more reading.    *)

\* The test for a cancellation comes before the save and may miss a late one.
Save ==
    /\ step = "go"
    /\ run' \in (IF run = "queued" THEN {"preparing"}
                ELSE {"failed", IF run = "preparing" THEN "running" ELSE "passed"}
                     \cup (IF killed THEN {"cancelled"} ELSE {}))
    /\ step' = "publish"
    /\ UNCHANGED <<page, killed, device, trigger, cancel, Queries, Stream, faults, Panel>>

Publish ==
    /\ step = "publish"
    /\ step' = IF Over(run) THEN "finally" ELSE "go"
    /\ pipe' = IF Subscribed THEN Append(pipe, Far(run)) ELSE pipe
    /\ missed' = (missed \/ ~Subscribed)
    /\ UNCHANGED <<page, run, killed, device, trigger, cancel, Queries, socket, heard, faults, Panel>>

\* The end of the run is dated, and then the lock is removed.
Release ==
    /\ step = "finally"
    /\ step' = "no"
    /\ killed' = FALSE
    /\ device' = "free"
    /\ UNCHANGED <<page, run, trigger, cancel, Queries, Stream, faults, Panel>>

\* The form's request: the run is created, then the lock is asked for. A refusal
\* fails the run without an event.
HubCreates ==
    /\ trigger = "sent" /\ run = "none"
    /\ run' = "queued"
    /\ trigger' = "created"
    /\ UNCHANGED <<page, step, killed, device, cancel, Queries, Stream, faults, Panel>>

HubAcquires ==
    /\ trigger = "created"
    /\ \/ /\ ~Held(device)
          /\ device' = "run" /\ step' = "go" /\ trigger' = "ok"
          /\ UNCHANGED <<run, missed>>
       \/ /\ Held(device)
          /\ run' = "failed"
          /\ trigger' = "refused" /\ missed' = TRUE
          /\ UNCHANGED <<device, step>>
    /\ UNCHANGED <<page, killed, cancel, Queries, socket, pipe, heard, faults, Panel>>

HubCancels ==
    /\ cancel = "sent"
    /\ cancel' = IF InFlight(run) THEN "ok" ELSE "refused"
    /\ killed' = (killed \/ InFlight(run))
    /\ UNCHANGED <<page, run, step, device, trigger, Queries, Stream, faults, Panel>>

\* The hub stops and starts again: sockets and answers are lost, and recovery
\* fails the run in flight without an event.
Crash ==
    /\ faults < MaxFaults
    /\ faults' = faults + 1
    /\ run' = IF InFlight(run) THEN "failed" ELSE run
    /\ device' = IF InFlight(run) THEN "free" ELSE device
    /\ step' = "no"
    /\ killed' = FALSE
    /\ trigger' = "no" /\ cancel' = "no" /\ action' = NoAction
    /\ outdated' = IF action.at = "ok" THEN {} ELSE outdated
    /\ runQ' = Fail(runQ) /\ deviceQ' = Fail(deviceQ)
    /\ socket' = IF socket \in {"connecting", "live"} THEN "reconnecting" ELSE socket
    /\ pipe' = <<>>
    /\ missed' = TRUE
    /\ UNCHANGED <<page, listed, heard, dialog>>

------------------------------------------------------------------------------
(* The stream in the tab.                                                     *)

\* What is on its way through a socket that closes is lost.
Reconnect(state) ==
    socket' = state /\ pipe' = <<>> /\ missed' = (missed \/ pipe # <<>>) /\ UNCHANGED heard

SocketOpens ==
    /\ socket \in {"connecting", "reconnecting"}
    /\ socket' = "live"
    /\ UNCHANGED <<page, Hub, trigger, cancel, Queries, pipe, heard, missed, faults, Panel>>

SocketDrops ==
    /\ Subscribed /\ faults < MaxFaults
    /\ faults' = faults + 1
    /\ Reconnect("reconnecting")
    /\ UNCHANGED <<page, Hub, trigger, cancel, Queries, Panel>>

\* 4001: the token is no longer valid, and retrying cannot help.
SocketRefused ==
    /\ socket \in {"connecting", "reconnecting"}
    /\ socket' = "unauthenticated"
    /\ UNCHANGED <<page, Hub, trigger, cancel, Queries, pipe, heard, missed, faults, Panel>>

\* Variant: a message is content with a fetch that is already under way.
HandleMessageJoins ==
    /\ pipe # <<>>
    /\ pipe' = Tail(pipe)
    /\ heard' = IF runQ.data = NoData THEN heard ELSE Head(pipe)
    /\ missed' = (missed \/ runQ.data = NoData)
    /\ runQ' = Fetch(runQ)
    /\ UNCHANGED <<page, Hub, trigger, cancel, listed, deviceQ, socket, faults, Panel>>

\* A transition invalidates the run and the list. The very first answer of a
\* query cannot be cancelled: an event that arrives before it is swallowed.
HandleMessage ==
    /\ pipe # <<>>
    /\ pipe' = Tail(pipe)
    /\ heard' = IF runQ.data = NoData THEN heard ELSE Head(pipe)
    /\ missed' = (missed \/ runQ.data = NoData)
    /\ runQ' = Invalidate(runQ, Watching)
    /\ UNCHANGED <<page, Hub, trigger, cancel, listed, deviceQ, socket, faults, Panel>>

------------------------------------------------------------------------------
(* Fetching.                                                                  *)

\* Variant: a live or a reconnecting socket stops the polling.
PollUnlessRetrying ==
    /\ Watching /\ socket \notin {"live", "reconnecting"}
    /\ InFlight(runQ.data) /\ runQ.fetch = "no"
    /\ runQ' = Fetch(runQ)
    /\ UNCHANGED <<page, Hub, trigger, cancel, listed, deviceQ, Stream, faults, Panel>>

\* useExecutionRun: every second while the run is in flight, unless events come.
PollRun ==
    /\ Watching /\ socket # "live"
    /\ InFlight(runQ.data) /\ runQ.fetch = "no"
    /\ runQ' = Fetch(runQ)
    /\ UNCHANGED <<page, Hub, trigger, cancel, listed, deviceQ, Stream, faults, Panel>>

FocusRun ==
    /\ Watching
    /\ runQ' = Fetch(runQ)
    /\ UNCHANGED <<page, Hub, trigger, cancel, listed, deviceQ, Stream, faults, Panel>>

RunIsRead ==
    /\ runQ.fetch = "sent"
    /\ runQ' = Read(runQ, run)
    /\ missed' = FALSE
    /\ UNCHANGED <<page, Hub, trigger, cancel, listed, deviceQ, socket, pipe, heard, faults, Panel>>

RunAnswered ==
    /\ runQ.fetch = "read"
    /\ runQ' = Fill(runQ)
    /\ UNCHANGED <<page, Hub, trigger, cancel, listed, deviceQ, Stream, faults, Panel>>

\* useExecutionRuns: the list is fetched on a mount, on an invalidation, on focus
\* and every three seconds while it shows a run in flight. The card goes with it.
ListIsRead ==
    /\ Listing
    /\ listed' = InFlight(run)
    /\ IF page = "card" /\ ~listed'
       THEN page' = "runs" /\ Reconnect("off")
       ELSE UNCHANGED <<page, Stream>>
    /\ UNCHANGED <<Hub, trigger, cancel, runQ, deviceQ, faults, Panel>>

------------------------------------------------------------------------------
(* The user.                                                                  *)

Watch(p) ==
    /\ page' = p
    /\ Reconnect("connecting")
    /\ runQ' \in Mounted(runQ)
    /\ UNCHANGED <<Hub, trigger, cancel, listed, deviceQ, faults, Panel>>

\* A row of the table, of the recent history, or the link on the card.
OpenRun == Listing /\ run # "none" /\ Watch("run")

\* The trigger tab is chosen, or the list brings its first run in flight.
LiveRunCard == page = "runs" /\ listed /\ Watch("card")

\* Back to the list, or another tab of it.
BackToRuns ==
    /\ Watching
    /\ page' = "runs"
    /\ Reconnect("off")
    /\ UNCHANGED <<Hub, trigger, cancel, Queries, faults, Panel>>

OnSubmit ==
    /\ Listing /\ trigger = "no" /\ run = "none"
    /\ trigger' = "sent"
    /\ UNCHANGED <<page, Hub, cancel, Queries, Stream, faults, Panel>>

\* A success invalidates runs and devices and leads to the page of the run.
TriggerAnswered ==
    /\ trigger \in {"ok", "refused"}
    /\ trigger' = "no"
    /\ IF trigger = "ok" /\ Listing
       THEN page' = "run" /\ Reconnect("connecting")
       ELSE UNCHANGED <<page, Stream>>
    /\ runQ' = IF trigger = "refused" THEN runQ
               ELSE IF Listing THEN Fetch(Invalidate(runQ, page = "card"))
               ELSE Invalidate(runQ, Watching)
    /\ deviceQ' = IF trigger = "ok" THEN Invalidate(deviceQ, FALSE) ELSE deviceQ
    /\ UNCHANGED <<Hub, cancel, listed, faults, Panel>>

\* The button is there while the page shows a run in flight.
PressCancel ==
    /\ page = "run" /\ cancel = "no"
    /\ InFlight(runQ.data)
    /\ cancel' = "sent"
    /\ UNCHANGED <<page, Hub, trigger, Queries, Stream, faults, Panel>>

CancelAnswered ==
    /\ cancel \in {"ok", "refused"}
    /\ cancel' = "no"
    /\ runQ' = IF cancel = "ok" THEN Invalidate(runQ, Watching) ELSE runQ
    /\ deviceQ' = IF cancel = "ok" THEN Invalidate(deviceQ, FALSE) ELSE deviceQ
    /\ UNCHANGED <<page, Hub, trigger, listed, Stream, faults, Panel>>

RunExecution == Save \/ Publish \/ Release
HubAnswers == HubCreates \/ HubAcquires \/ HubCancels
StreamStep == SocketOpens \/ SocketDrops \/ SocketRefused \/ HandleMessage
FetchStep == PollRun \/ FocusRun \/ RunIsRead \/ RunAnswered \/ ListIsRead
UserStep ==
    OpenRun \/ LiveRunCard \/ BackToRuns \/ OnSubmit \/ TriggerAnswered
    \/ PressCancel \/ CancelAnswered

Next ==
    \/ RunExecution \/ HubAnswers \/ Crash \/ StreamStep \/ FetchStep \/ UserStep
    \/ page \in {"devices", "device"} /\ PanelStep /\ UNCHANGED runVars

\* The hub goes on, events and answers arrive, timers fire; users and networks
\* do what they like.
RunFairness ==
    /\ WF_vars(RunExecution) /\ WF_vars(HandleMessage)
    /\ WF_vars(PollRun) /\ WF_vars(RunIsRead) /\ WF_vars(RunAnswered)

------------------------------------------------------------------------------
\* An event, once received, is followed by a picture at least as new as what it
\* announced: it is published after its save, and it discards the older answer
\* that may be under way (useRunStream.ts:27-28, execution.service.ts:112-116). It
\* says nothing of an event received before the page has its first answer: that
\* fetch is joined, not discarded, so the event announces nothing to the page.
AnnouncedIsShown ==
    Watching /\ runQ.data # NoData /\ runQ.fetch = "no" /\ ~runQ.stale
        => Far(runQ.data) >= heard

\* A page that watches a run which is over comes to show it as over, though
\* connections drop and the hub restarts, unless a transition that nobody sent to
\* it coincides with a socket that has become live and stopped the polling
\* (execution.api.ts:33-38).
EndIsSeen ==
    (page = "run" /\ Over(run) /\ runQ.data # NoData) ~>
       (page # "run" \/ Over(runQ.data) \/ (missed /\ socket = "live"))
=============================================================================
