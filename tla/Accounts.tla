------------------------------ MODULE Accounts ------------------------------
(* Accounts of the hub, the limiter in front of registration and login, and   *)
(* the session that a browser keeps: the token in localStorage and the user   *)
(* the pages show. A registration counts the users, hashes the password and   *)
(* creates the account, with an await after each.                             *)
EXTENDS Naturals, FiniteSets

CONSTANTS
    Browsers,     \* one tab each, behind one address
    Emails,
    MaxAttempts,  \* AUTH_RATE_LIMIT_MAX
    Window,       \* AUTH_RATE_LIMIT_WINDOW_MS, in ticks
    Nobody,       \* no user, no token
    Foreign       \* a token that this hub does not accept

ASSUME AccountsAssumption ==
    /\ IsFiniteSet(Browsers)
    /\ MaxAttempts \in Nat \ {0} /\ Window \in Nat \ {0}
    /\ Nobody \notin Emails \cup {Foreign} /\ Foreign \notin Emails

VARIABLES
    role,    \* role[e]: the role of the account of e, "none" without an account
    token,   \* token[b]: owner of the token in localStorage
    user,    \* user[b]: whom AuthProvider shows as signed in
    me,      \* me[b]: the token whose check by GET /me is under way
    form,    \* form[b]: the submitted form of LoginPage, inside the hub
    hits,    \* the limiter's entry of the address
    passed,  \* passed[i]: attempts let through i ticks ago
    hasty    \* history: pages that logged in while their stored token was being checked

accountsVars == <<role, token, user, me, form, hits, passed, hasty>>

Roles == {"none", "admin", "viewer"}
Owner == Emails \cup {Nobody, Foreign}

\* first is isFirstUser of a registration, once it has counted; gone says that the
\* page which asked has been reloaded and hears no answer.
Form == [at: {"no", "sent", "count", "create", "verify"}, mode: {"login", "register"},
         email: Emails \cup {Nobody}, first: BOOLEAN, gone: BOOLEAN]
NoForm == [at |-> "no", mode |-> "login", email |-> Nobody, first |-> FALSE, gone |-> FALSE]

\* left: ticks up to resetAt. An expired entry stays until the next request evicts it.
Entry == [count: 0..(MaxAttempts + 1), left: 0..Window]
NoEntry == [count |-> 0, left |-> 0]

AccountsTypeOK ==
    /\ role \in [Emails -> Roles]
    /\ token \in [Browsers -> Owner]
    /\ user \in [Browsers -> Emails \cup {Nobody}]
    /\ me \in [Browsers -> Owner]
    /\ form \in [Browsers -> Form]
    /\ hits \in Entry
    /\ passed \in [0..(Window - 1) -> 0..MaxAttempts]
    /\ hasty \subseteq Browsers

\* A page load with a stored token starts by checking it.
AccountsInit ==
    /\ role = [e \in Emails |-> "none"]
    /\ token \in [Browsers -> {Nobody, Foreign}]
    /\ user = [b \in Browsers |-> Nobody]
    /\ me = token
    /\ form = [b \in Browsers |-> NoForm]
    /\ hits = NoEntry
    /\ passed = [i \in 0..(Window - 1) |-> 0]
    /\ hasty = {}

------------------------------------------------------------------------------
(* The session of a browser.                                                  *)

Session == <<token, user, me, hasty>>
Limiter == <<hits, passed>>

\* A reload forgets the user and the pending answers; the hub works on.
Reload(b) ==
    /\ user' = [user EXCEPT ![b] = Nobody]
    /\ me' = [me EXCEPT ![b] = token[b]]
    /\ form' = [form EXCEPT ![b].gone = form[b].at # "no"]
    /\ hasty' = hasty \ {b}
    /\ UNCHANGED <<role, token, Limiter>>

MeSucceeds(b) ==
    /\ me[b] \in Emails
    /\ user' = [user EXCEPT ![b] = me[b]]
    /\ me' = [me EXCEPT ![b] = Nobody]
    /\ UNCHANGED <<role, token, form, hasty, Limiter>>

\* Variant: a failed check leaves the token where it is.
MeFailsSoftly(b) ==
    /\ me[b] # Nobody
    /\ user' = [user EXCEPT ![b] = Nobody]
    /\ me' = [me EXCEPT ![b] = Nobody]
    /\ UNCHANGED <<role, token, form, hasty, Limiter>>

\* A refusal or a network error: whatever token is stored by now is dropped.
MeFails(b) ==
    /\ me[b] # Nobody
    /\ token' = [token EXCEPT ![b] = Nobody]
    /\ user' = [user EXCEPT ![b] = Nobody]
    /\ me' = [me EXCEPT ![b] = Nobody]
    /\ UNCHANGED <<role, form, hasty, Limiter>>

Logout(b) ==
    /\ user[b] # Nobody
    /\ token' = [token EXCEPT ![b] = Nobody]
    /\ user' = [user EXCEPT ![b] = Nobody]
    /\ UNCHANGED <<role, me, form, hasty, Limiter>>

\* The page ignores a second submission while one is pending; it is not gated by
\* isLoading, so a stored token may still be under way. (A reloaded page is not
\* made to submit before the hub is done with what the old one sent.)
Submit(b) ==
    /\ form[b].at = "no"
    /\ \E e \in Emails, mode \in {"login", "register"} :
         form' = [form EXCEPT ![b] = [NoForm EXCEPT !.at = "sent", !.mode = mode, !.email = e]]
    /\ UNCHANGED <<role, Session, Limiter>>

ApplyAuth(b) ==
    /\ IF form[b].gone THEN UNCHANGED <<token, user, hasty>>
       ELSE /\ token' = [token EXCEPT ![b] = form[b].email]
            /\ user' = [user EXCEPT ![b] = form[b].email]
            /\ hasty' = IF me[b] # Nobody THEN hasty \cup {b} ELSE hasty
    /\ form' = [form EXCEPT ![b] = NoForm]
    /\ UNCHANGED me

\* An error: the page shows it, and the form can be submitted again.
Answer(b) == form' = [form EXCEPT ![b] = NoForm] /\ UNCHANGED Session

------------------------------------------------------------------------------
(* The hub.                                                                   *)

\* The limiter goes by how the URL ends, and counts what the pages post.
LetThrough(b) ==
    /\ form' = [form EXCEPT ![b].at = IF form[b].mode = "login" THEN "verify" ELSE "count"]
    /\ passed' = [passed EXCEPT ![0] = @ + 1]
    /\ UNCHANGED Session

\* Variant: a new window starts by counting nothing.
LimitFromZero(b) ==
    /\ form[b].at = "sent"
    /\ \/ hits.left = 0 /\ hits' = [count |-> 0, left |-> Window] /\ LetThrough(b)
       \/ hits.left > 0 /\ hits.count < MaxAttempts
            /\ hits' = [hits EXCEPT !.count = @ + 1] /\ LetThrough(b)
       \/ hits.left > 0 /\ hits.count >= MaxAttempts
            /\ hits' = [hits EXCEPT !.count = MaxAttempts + 1] /\ Answer(b) /\ UNCHANGED passed
    /\ UNCHANGED role

\* Evict what has expired, then open a window or count within the present one.
\* Counts beyond the limit are not told apart.
Limit(b) ==
    /\ form[b].at = "sent"
    /\ \/ hits.left = 0 /\ hits' = [count |-> 1, left |-> Window] /\ LetThrough(b)
       \/ hits.left > 0 /\ hits.count < MaxAttempts
            /\ hits' = [hits EXCEPT !.count = @ + 1] /\ LetThrough(b)
       \/ hits.left > 0 /\ hits.count >= MaxAttempts
            /\ hits' = [hits EXCEPT !.count = MaxAttempts + 1] /\ Answer(b) /\ UNCHANGED passed
    /\ UNCHANGED role

\* Variant: registrations that are under way count as users.
CountWithPending(b) ==
    /\ form[b].at = "count"
    /\ form' = [form EXCEPT ![b].at = "create",
                            ![b].first = /\ \A e \in Emails : role[e] = "none"
                                         /\ \A c \in Browsers : form[c].at # "create"]
    /\ UNCHANGED <<role, Session, Limiter>>

\* estimatedDocumentCount, then the hash.
CountUsers(b) ==
    /\ form[b].at = "count"
    /\ form' = [form EXCEPT ![b].at = "create",
                            ![b].first = \A e \in Emails : role[e] = "none"]
    /\ UNCHANGED <<role, Session, Limiter>>

CreateUser(b) ==
    /\ form[b].at = "create" /\ role[form[b].email] = "none"
    /\ role' = [role EXCEPT ![form[b].email] = IF form[b].first THEN "admin" ELSE "viewer"]
    /\ ApplyAuth(b)
    /\ UNCHANGED Limiter

\* The unique index on the address answers a second registration.
DuplicateUser(b) ==
    /\ form[b].at = "create" /\ role[form[b].email] # "none"
    /\ Answer(b)
    /\ UNCHANGED <<role, Limiter>>

\* The right password of an existing account, or a refusal.
VerifyCredentials(b) ==
    /\ form[b].at = "verify"
    /\ \/ role[form[b].email] # "none" /\ ApplyAuth(b)
       \/ Answer(b)
    /\ UNCHANGED <<role, Limiter>>

Tick ==
    /\ hits' = [hits EXCEPT !.left = IF @ = 0 THEN 0 ELSE @ - 1]
    /\ passed' = [i \in 0..(Window - 1) |-> IF i = 0 THEN 0 ELSE passed[i - 1]]
    /\ UNCHANGED <<role, Session, form>>

AccountsNext ==
    \/ \E b \in Browsers :
         \/ Reload(b) \/ MeSucceeds(b) \/ MeFails(b) \/ Logout(b) \/ Submit(b)
         \/ Limit(b) \/ CountUsers(b) \/ CreateUser(b) \/ DuplicateUser(b) \/ VerifyCredentials(b)
    \/ Tick

AccountsSpec == AccountsInit /\ [][AccountsNext]_accountsVars

------------------------------------------------------------------------------
(* Properties.                                                                *)

\* Whatever registrations overlap, and whichever of them fail, a hub with
\* accounts has an administrator (auth.service.ts:24-31).
AnAdminExists == (\E e \in Emails : role[e] # "none") => \E e \in Emails : role[e] = "admin"

\* Once the stored token has been checked the page shows its owner, and nobody
\* without one: never "half-authenticated" (AuthProvider.tsx:32), whatever
\* reloads, sign-outs, refusals and late answers interleave. The one exception,
\* until the next page load, is a page in which somebody logged in while its stored
\* token was being checked: nothing keeps the answer of that check, when it is
\* positive, from writing over the user who logged in (lines 42-43).
UserMatchesToken == \A b \in Browsers \ hasty : me[b] = Nobody => user[b] = token[b]

\* The attempts let through of late, each by its age and its number at that age.
Recent == UNION {{i} \X (1..passed[i]) : i \in 0..(Window - 1)}

\* A fixed window lets two full bursts meet at its boundary, but no more than
\* 2 * MaxAttempts - 1 attempts within any stretch as long as the window.
BurstIsBounded == Cardinality(Recent) <= 2 * MaxAttempts - 1
=============================================================================
