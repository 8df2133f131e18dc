----------------------------- MODULE AgentAccess -----------------------------
(* Credentials of agents. An administrator issues and revokes them on the     *)
(* credentials page, which shows the token once; agents present a token with  *)
(* every heartbeat and sync, which the hub verifies before the handler runs.  *)
EXTENDS QueryCache, FiniteSets

CONSTANTS
    Machines,
    Credentials,  \* ids of the documents the hub will create
    Requests,     \* agent requests under way at the same time
    Revocations,  \* revocations of the page under way at the same time
    Shared,       \* the AGENT_TOKEN all agents may use
    None          \* no credential, no machine

ASSUME AccessAssumption ==
    /\ Shared \notin Credentials /\ None \notin Credentials \cup Machines
    /\ NoData \notin [Credentials -> {"none", "active", "revoked"}]

VARIABLES
    cred,    \* cred[c]: the document: its machine, and whether it is revoked
    request, \* request[q]: an agent's request inside the hub
    write,   \* history: the request a handler let through, until the next is sent
    page,    \* the credentials page and its dialogs
    list,    \* the query of the page
    issue,   \* the mutation that issues
    revoke,  \* revoke[v]: a mutation that revokes; here: the page hears of its success
    told     \* credentials of whose revocation the page has reported the success

vars == <<cred, request, write, page, list, issue, revoke, told>>
Hub == <<cred, request, write>>
Page == <<page, list, issue, revoke, told>>

NoCredential == [status |-> "none", machine |-> None]
NoRequest == [at |-> "no", token |-> None, machine |-> None, as |-> None, late |-> FALSE]
Gone == [open |-> FALSE, form |-> FALSE, error |-> FALSE, token |-> None, target |-> None]
NoMutation == [at |-> "no", on |-> None, here |-> FALSE]

Init ==
    /\ cred = [c \in Credentials |-> NoCredential]
    /\ request = [q \in Requests |-> NoRequest]
    /\ write = NoRequest
    /\ page = Gone
    /\ list = EmptyQuery
    /\ issue = NoMutation
    /\ revoke = [v \in Revocations |-> NoMutation]
    /\ told = {}

Statuses == [c \in Credentials |-> cred[c].status]

------------------------------------------------------------------------------
(* The hub's documents. Only administrators reach these routes.               *)

IssueCredential(c, m) ==
    /\ cred[c] = NoCredential
    /\ cred' = [cred EXCEPT ![c] = [status |-> "active", machine |-> m]]

\* Revoking again only renews the date.
RevokeCredential(c) ==
    /\ cred[c] # NoCredential
    /\ cred' = [cred EXCEPT ![c].status = "revoked"]

------------------------------------------------------------------------------
(* Agents.                                                                    *)

\* An agent may go on using a token that has been revoked, or claim a machine
\* the token was not issued for.
AgentSends(q) ==
    /\ request[q].at = "no"
    /\ \E t \in {Shared} \cup {c \in Credentials : cred[c] # NoCredential}, m \in Machines :
         request' = [request EXCEPT ![q] =
            [at |-> "sent", token |-> t, machine |-> m, as |-> None,
             late |-> t # Shared /\ cred[t].status = "revoked"]]
    /\ write' = NoRequest
    /\ UNCHANGED <<cred, Page>>

\* Variant: the look-up does not ask whether the credential is revoked.
VerifyAnyCredential(q) ==
    /\ request[q].token \in Credentials
    /\ request' = [request EXCEPT ![q].at = "verified", ![q].as = cred[request[q].token].machine]

VerifyAgentCredential(q) ==
    /\ request[q].token \in Credentials
    /\ cred[request[q].token].status = "active"
    /\ request' = [request EXCEPT ![q].at = "verified", ![q].as = cred[request[q].token].machine]

\* The shared secret carries no identity; everything else is a 401.
RequireAgentToken(q) ==
    /\ request[q].at = "sent"
    /\ \/ VerifyAgentCredential(q)
       \/ request[q].token = Shared /\ request' = [request EXCEPT ![q].at = "verified"]
       \/ /\ request[q].token # Shared /\ cred[request[q].token].status # "active"
          /\ request' = [request EXCEPT ![q] = NoRequest]
    /\ UNCHANGED <<cred, write, Page>>

\* The handler of a heartbeat or a sync: a 403 for another machine than the
\* credential's, the update of hosts or devices otherwise.
Handle(q) ==
    /\ request[q].at = "verified"
    /\ request' = [request EXCEPT ![q] = NoRequest]
    /\ write' = IF request[q].as \in {None, request[q].machine} THEN request[q] ELSE write
    /\ UNCHANGED <<cred, Page>>

------------------------------------------------------------------------------
(* The page of one administrator; others act on the documents only.           *)

OtherAdmin ==
    /\ \E c \in Credentials : (\E m \in Machines : IssueCredential(c, m)) \/ RevokeCredential(c)
    /\ UNCHANGED <<request, write, Page>>

OpenPage ==
    /\ ~page.open
    /\ page' = [Gone EXCEPT !.open = TRUE]
    /\ list' \in Mounted(list)
    /\ UNCHANGED <<Hub, issue, revoke, told>>

NoneHere == [v \in Revocations |-> [revoke[v] EXCEPT !.here = FALSE]]

\* Leaving drops the dialogs and what mutations under way would have shown.
LeavePage ==
    /\ page.open
    /\ page' = Gone
    /\ issue' = [issue EXCEPT !.here = FALSE]
    /\ revoke' = NoneHere
    /\ UNCHANGED <<Hub, list, told>>

ShowIssueForm ==
    /\ page.open /\ ~page.form /\ page.token = None /\ page.target = None
    /\ page' = [page EXCEPT !.form = TRUE]
    /\ UNCHANGED <<Hub, list, issue, revoke, told>>

\* Also while the request is under way. An error stays in the state of the page.
CloseIssueForm ==
    /\ page.form
    /\ page' = [page EXCEPT !.form = FALSE]
    /\ UNCHANGED <<Hub, list, issue, revoke, told>>

\* The button is disabled while a credential is being issued. (Nor does a page that
\* was opened again submit before the one it follows has its answer.)
SubmitIssue ==
    /\ page.form /\ issue.at = "no"
    /\ issue' = [at |-> "sent", on |-> None, here |-> TRUE]
    /\ page' = [page EXCEPT !.error = FALSE]
    /\ UNCHANGED <<Hub, list, revoke, told>>

HubIssues ==
    /\ issue.at = "sent"
    /\ \E c \in Credentials, m \in Machines :
         /\ IssueCredential(c, m)
         /\ issue' = [issue EXCEPT !.at = "done", !.on = c]
    /\ UNCHANGED <<request, write, page, list, revoke, told>>

\* Variant: the token is shown only if the form is still open.
IssueAnsweredForm ==
    /\ issue.at = "done"
    /\ page' = IF page.form THEN [page EXCEPT !.form = FALSE, !.token = issue.on] ELSE page
    /\ list' = Invalidate(list, page.open)
    /\ issue' = NoMutation
    /\ UNCHANGED <<Hub, revoke, told>>

\* The answer closes the form and shows the token, if the page that asked is
\* still there; the list is fetched again in any case.
IssueAnswered ==
    /\ issue.at = "done"
    /\ page' = IF issue.here THEN [page EXCEPT !.form = FALSE, !.token = issue.on] ELSE page
    /\ list' = Invalidate(list, page.open)
    /\ issue' = NoMutation
    /\ UNCHANGED <<Hub, revoke, told>>

\* The answer is lost, before or after the hub has acted: the form shows an error,
\* as long as, or as soon as, it is open.
IssueFails ==
    /\ issue.at # "no"
    /\ page' = [page EXCEPT !.error = @ \/ issue.here]
    /\ issue' = NoMutation
    /\ UNCHANGED <<Hub, list, revoke, told>>

DismissToken ==
    /\ page.token # None
    /\ page' = [page EXCEPT !.token = None]
    /\ UNCHANGED <<Hub, list, issue, revoke, told>>

\* The list offers what it shows as active.
AskRevoke(c) ==
    /\ page.open /\ ~page.form /\ page.token = None /\ page.target = None
    /\ list.data # NoData /\ list.data[c] = "active"
    /\ page' = [page EXCEPT !.target = c]
    /\ UNCHANGED <<Hub, list, issue, revoke, told>>

CancelRevoke ==
    /\ page.target # None
    /\ page' = [page EXCEPT !.target = None]
    /\ UNCHANGED <<Hub, list, issue, revoke, told>>

\* The callbacks of a revocation that is still under way are dropped with this one.
ConfirmRevoke(v) ==
    /\ page.target # None /\ revoke[v].at = "no"
    /\ page' = [page EXCEPT !.target = None]
    /\ revoke' = [NoneHere EXCEPT ![v] = [at |-> "sent", on |-> page.target, here |-> TRUE]]
    /\ UNCHANGED <<Hub, list, issue, told>>

HubRevokes(v) ==
    /\ revoke[v].at = "sent"
    /\ RevokeCredential(revoke[v].on)
    /\ revoke' = [revoke EXCEPT ![v].at = "done"]
    /\ UNCHANGED <<request, write, page, list, issue, told>>

\* Variant: the hook that revokes does not invalidate the list.
RevokeAnsweredOnly(v) ==
    /\ revoke[v].at = "done"
    /\ told' = IF revoke[v].here THEN told \cup {revoke[v].on} ELSE told
    /\ revoke' = [revoke EXCEPT ![v] = NoMutation]
    /\ UNCHANGED <<Hub, page, list, issue>>

\* The hook invalidates the list in any case; the page says it only of the last one.
RevokeAnswered(v) ==
    /\ revoke[v].at = "done"
    /\ list' = Invalidate(list, page.open)
    /\ told' = IF revoke[v].here THEN told \cup {revoke[v].on} ELSE told
    /\ revoke' = [revoke EXCEPT ![v] = NoMutation]
    /\ UNCHANGED <<Hub, page, issue>>

\* The answer is lost, before or after the hub has acted; the list is not asked for.
RevokeFails(v) ==
    /\ revoke[v].at # "no"
    /\ revoke' = [revoke EXCEPT ![v] = NoMutation]
    /\ UNCHANGED <<Hub, page, list, issue, told>>

RevokeStep(v) == ConfirmRevoke(v) \/ HubRevokes(v) \/ RevokeAnswered(v) \/ RevokeFails(v)

ListIsRead ==
    /\ list.fetch = "sent"
    /\ list' = Read(list, Statuses)
    /\ UNCHANGED <<Hub, page, issue, revoke, told>>

ListAnswered ==
    /\ list.fetch = "read"
    /\ list' = Fill(list)
    /\ UNCHANGED <<Hub, page, issue, revoke, told>>

\* Neither the fetch nor its retry gets an answer: the page shows an error with a
\* button that fetches again, and keeps the list it had.
ListFails ==
    /\ list.fetch # "no"
    /\ list' = Fail(list)
    /\ UNCHANGED <<Hub, page, issue, revoke, told>>

\* The button, or the window that gets the focus again.
Refetch ==
    /\ page.open /\ list.fetch = "no"
    /\ list' = Fetch(list)
    /\ UNCHANGED <<Hub, page, issue, revoke, told>>

AgentStep(q) == AgentSends(q) \/ RequireAgentToken(q) \/ Handle(q)
ListStep == ListIsRead \/ ListAnswered \/ ListFails \/ Refetch
PageStep ==
    \/ OpenPage \/ LeavePage \/ ShowIssueForm \/ CloseIssueForm \/ SubmitIssue \/ HubIssues
    \/ IssueAnswered \/ IssueFails \/ DismissToken \/ CancelRevoke \/ ListStep
    \/ \E v \in Revocations : RevokeStep(v)
    \/ \E c \in Credentials : AskRevoke(c)

Next == OtherAdmin \/ PageStep \/ \E q \in Requests : AgentStep(q)

AccessSpec == Init /\ [][Next]_vars

------------------------------------------------------------------------------
(* Properties.                                                                *)

\* Hosts and devices of a machine are written with the shared secret or with a
\* credential of that machine, and never by a request that was sent after the
\* credential was revoked, although look-up and handler are two steps
\* (hosts.routes.ts:28-30, AgentCredentialsPage.tsx:292-294).
WritesAreAuthorised ==
    write.token \in Credentials => cred[write.token].machine = write.machine /\ ~write.late

\* An administrator who stays on the page gets to see the token of the credential
\* that was issued, or an error. Since the error is shown in the form
\* (AgentCredentialsPage.tsx:230), one that comes after the form was cancelled is
\* kept, and shown when the form is next opened. The token stays until it is
\* dismissed, whatever answers come meanwhile; there is no second chance to see it
\* (lines 91-96).
NoTokenIsLost ==
    [][ /\ issue.here /\ issue'.at = "no" =>
             page'.token = issue.on \/ (page'.error /\ (page.form => page'.form))
        /\ page.error /\ page'.open => page'.error \/ page.form
        /\ page.token # None => page'.token \in {page.token, None} ]_<<issue, page>>

\* Once its revocation has been reported, a credential is not shown as active
\* again, unless a newer list is on its way or could not be fetched, which the page
\* says (AgentCredentialsPage.tsx:154).
ToldIsShown ==
    \A c \in told : list.fetch = "no" /\ ~list.stale => list.data[c] = "revoked"
=============================================================================
