------------------------------ MODULE LockPanel ------------------------------
(* The device page of one user: it shows a cached device document, offers what *)
(* the user may do with the lock as the page sees it, and learns of nothing but *)
(* its own actions. Other people, runs and the hub change the document.         *)
EXTENDS QueryCache

CONSTANT Admin  \* whether the user is an administrator

\* What a device can be: locked by the user, by others, or by a run of the user's.
Devices == {"free", "offline", "mine", "others", "run"}

ASSUME NoDataAssumption == NoData \notin Devices

VARIABLES
    page,     \* the page the tab shows
    device,   \* the document: whose lock it holds; "run" is a run the user triggered
    deviceQ,  \* the query ['devices', udid]
    action,   \* the lock, unlock or renew mutation under way
    dialog,   \* whether the force-unlock dialog is open
    outdated  \* history: of "shown" and "read", what the hub read before it carried out
              \* the last action of this visit

panelVars == <<device, deviceQ, action, dialog, outdated>>

NoAction == [kind |-> "none", at |-> "no"]
Held(d) == d \in {"mine", "others", "run"}
HeldByMe(d) == d \in {"mine", "run"}

PanelInit ==
    /\ device \in {"free", "others"}
    /\ deviceQ = EmptyQuery
    /\ action = NoAction
    /\ dialog = FALSE
    /\ outdated = {}

\* What the page shows; controls are hidden while it shows an offline device.
Shows(d) == page = "device" /\ deviceQ.data = d
Ask(kind) == action' = [kind |-> kind, at |-> "sent"]

------------------------------------------------------------------------------
(* The user.                                                                  *)

OpenDevice ==
    /\ page = "devices"
    /\ page' = "device"
    /\ deviceQ' \in Mounted(deviceQ)
    /\ UNCHANGED <<device, action, dialog, outdated>>

\* The dialog goes with the page; a mutation under way goes on.
LeaveDevice ==
    /\ page = "device"
    /\ page' = "devices"
    /\ dialog' = FALSE
    /\ outdated' = {}
    /\ UNCHANGED <<device, deviceQ, action>>

\* The window gets the focus again, or the user retries after an error.
FocusDevice ==
    /\ page = "device"
    /\ deviceQ' = Fetch(deviceQ)
    /\ UNCHANGED <<page, device, action, dialog, outdated>>

DoLock ==
    /\ Shows("free") /\ action.at = "no" /\ ~dialog
    /\ Ask("lock")
    /\ UNCHANGED <<page, device, deviceQ, dialog, outdated>>

DoRenew ==
    /\ page = "device" /\ HeldByMe(deviceQ.data) /\ action.at = "no" /\ ~dialog
    /\ Ask("renew")
    /\ UNCHANGED <<page, device, deviceQ, dialog, outdated>>

\* One's own lock is released at once, somebody else's after a confirmation.
OnReleaseClick ==
    /\ page = "device" /\ action.at = "no" /\ ~dialog
    /\ \/ HeldByMe(deviceQ.data) /\ Ask("unlock") /\ UNCHANGED dialog
       \/ Admin /\ Shows("others") /\ dialog' = TRUE /\ UNCHANGED action
    /\ UNCHANGED <<page, device, deviceQ, outdated>>

\* The dialog stays open, whatever a newer document says.
ConfirmForceUnlock ==
    /\ dialog /\ ~Shows("offline")
    /\ dialog' = FALSE
    /\ Ask("unlock")
    /\ UNCHANGED <<page, device, deviceQ, outdated>>

CancelForceUnlock ==
    /\ dialog
    /\ dialog' = FALSE
    /\ UNCHANGED <<page, device, deviceQ, action, outdated>>

------------------------------------------------------------------------------
(* The hub.                                                                   *)

Answer(kind, allowed, after) ==
    /\ action.at = "sent" /\ action.kind = kind
    /\ action' = [action EXCEPT !.at = IF allowed THEN "ok" ELSE "refused"]
    /\ device' = IF allowed THEN after ELSE device
    /\ outdated' = IF allowed /\ page = "device" THEN {"shown", "read"} ELSE outdated
    /\ UNCHANGED <<page, deviceQ, dialog>>

HubLocks == Answer("lock", ~Held(device), "mine")
HubUnlocks == Answer("unlock", Admin \/ HeldByMe(device), "free")
HubRenews == Answer("renew", HeldByMe(device) \/ (Admin /\ Held(device)), device)

\* Variant: a success is content with a fetch that is already under way.
AnsweredJoins ==
    /\ action.at \in {"ok", "refused"}
    /\ deviceQ' = IF action.at = "ok" /\ page = "device" THEN Fetch(deviceQ) ELSE deviceQ
    /\ action' = NoAction
    /\ UNCHANGED <<page, device, dialog, outdated>>

\* Only a success invalidates; a refused user goes on seeing the old document.
Answered ==
    /\ action.at \in {"ok", "refused"}
    /\ deviceQ' = IF action.at = "ok" THEN Invalidate(deviceQ, page = "device") ELSE deviceQ
    /\ action' = NoAction
    /\ UNCHANGED <<page, device, dialog, outdated>>

DeviceIsRead ==
    /\ deviceQ.fetch = "sent"
    /\ deviceQ' = Read(deviceQ, device)
    /\ outdated' = outdated \ {"read"}
    /\ UNCHANGED <<page, device, action, dialog>>

DeviceAnswered ==
    /\ deviceQ.fetch = "read"
    /\ deviceQ' = Fill(deviceQ)
    /\ outdated' = IF "read" \in outdated THEN {"shown", "read"} ELSE {}
    /\ UNCHANGED <<page, device, action, dialog>>

\* Other users, runs, administrators, the expiry sweep and agents: a lock is only
\* taken when there is none, and removed by whoever may.
OthersAct ==
    /\ device' \in IF Held(device) THEN {"free", "offline"}
                  ELSE {"free", "offline", "others", "run"} \ {device}
    /\ UNCHANGED <<page, deviceQ, action, dialog, outdated>>

PanelStep ==
    \/ OpenDevice \/ LeaveDevice \/ FocusDevice \/ DoLock \/ DoRenew \/ OnReleaseClick
    \/ ConfirmForceUnlock \/ CancelForceUnlock \/ HubLocks \/ HubUnlocks \/ HubRenews
    \/ Answered \/ DeviceIsRead \/ DeviceAnswered \/ OthersAct

------------------------------------------------------------------------------
\* Once an action of the user has succeeded, the page they acted on does not show the
\* device as it was before: the answer of a fetch that the hub read earlier, a focus
\* of the window say, never arrives over the news (devices.api.ts:33-66). It is wrong
\* for a user who leaves the page meanwhile and comes back, because the invalidation
\* spares a fetch no page waits for, and when the answer to the action is lost.
OwnActionIsShown ==
    page = "device" /\ deviceQ.fetch = "no" /\ ~deviceQ.stale /\ action.at # "ok"
        => "shown" \notin outdated
=============================================================================
