---------------------------- MODULE AccessProofs ----------------------------
(* Proofs about who may use the hub: the accounts and sessions of people, and *)
(* the credentials of agents. The two components share no state, and each     *)
(* theorem is about one of them, for any number of browsers, addresses,       *)
(* machines, credentials and requests under way, any limit and any window.    *)
EXTENDS Accounts, AgentAccess, FiniteSetTheorems, TLAPS

\* What the limiter lets through within a tick is counted in the open window.
HitsCoverPassed ==
  /\ hits.left = 0 => passed[0] = 0
  /\ hits.left > 0 => passed[0] <= hits.count

LEMMA FormFields ==
  ASSUME AccountsTypeOK, NEW b \in Browsers
  PROVE  /\ NoForm \in Form
         /\ [form EXCEPT ![b] = NoForm] \in [Browsers -> Form]
         /\ form[b].email \in Emails \cup {Nobody}
         /\ form[b].email \in Owner
  BY DEF AccountsTypeOK, Form, NoForm, Owner

LEMMA InitTyping == AccountsInit => AccountsTypeOK /\ HitsCoverPassed
  <1> SUFFICES ASSUME AccountsInit PROVE AccountsTypeOK /\ HitsCoverPassed
    OBVIOUS
  <1>1. /\ role \in [Emails -> Roles]
        /\ token \in [Browsers -> Owner] /\ me \in [Browsers -> Owner]
        /\ user \in [Browsers -> Emails \cup {Nobody}]
    BY DEF AccountsInit, Roles, Owner
  <1>2. form \in [Browsers -> Form]
    BY DEF AccountsInit, Form, NoForm
  <1>3. hits \in Entry /\ passed \in [0..(Window - 1) -> 0..MaxAttempts]
    BY AccountsAssumption DEF AccountsInit, Entry, NoEntry
  <1>4. hits.left = 0 /\ passed[0] = 0 /\ hasty \subseteq Browsers
    BY AccountsAssumption DEF AccountsInit, NoEntry
  <1> QED BY <1>1, <1>2, <1>3, <1>4 DEF AccountsTypeOK, HitsCoverPassed

\* The steps of a page leave the limiter and the accounts alone.
LEMMA PageTyping ==
  ASSUME AccountsTypeOK, HitsCoverPassed, NEW b \in Browsers,
         Reload(b) \/ MeSucceeds(b) \/ MeFails(b) \/ Logout(b) \/ Submit(b)
  PROVE  AccountsTypeOK' /\ HitsCoverPassed'
  <1>0. UNCHANGED <<role, hits, passed>>
    BY DEF Reload, MeSucceeds, MeFails, Logout, Submit, Limiter
  <1>1. /\ token' \in [Browsers -> Owner] /\ me' \in [Browsers -> Owner]
        /\ user' \in [Browsers -> Emails \cup {Nobody}]
    BY DEF AccountsTypeOK, Owner, Reload, MeSucceeds, MeFails, Logout, Submit, Session
  <1>2. form' \in [Browsers -> Form]
    <2>1. CASE Reload(b)
      BY <2>1 DEF AccountsTypeOK, Form, Reload
    <2>2. CASE Submit(b)
      <3>1. PICK e \in Emails, mode \in {"login", "register"} :
              form' = [form EXCEPT ![b] = [NoForm EXCEPT !.at = "sent", !.mode = mode,
                                                         !.email = e]]
        BY <2>2 DEF Submit
      <3>2. [NoForm EXCEPT !.at = "sent", !.mode = mode, !.email = e] \in Form
        BY DEF Form, NoForm
      <3> QED BY <3>1, <3>2 DEF AccountsTypeOK
    <2> QED BY <2>1, <2>2 DEF AccountsTypeOK, MeSucceeds, MeFails, Logout
  <1>3. hasty' \subseteq Browsers
    BY DEF AccountsTypeOK, Reload, MeSucceeds, MeFails, Logout, Submit, Session
  <1> QED BY <1>0, <1>1, <1>2, <1>3 DEF AccountsTypeOK, HitsCoverPassed

LEMMA AnswerTyping ==
  ASSUME AccountsTypeOK, NEW b \in Browsers, Answer(b) \/ ApplyAuth(b),
         form[b].gone \/ form[b].email \in Emails
  PROVE  /\ form' \in [Browsers -> Form]
         /\ token' \in [Browsers -> Owner] /\ me' \in [Browsers -> Owner]
         /\ user' \in [Browsers -> Emails \cup {Nobody}]
         /\ hasty' \subseteq Browsers
  BY FormFields DEF Answer, ApplyAuth, Session, AccountsTypeOK

LEMMA LimitTyping ==
  ASSUME AccountsTypeOK, HitsCoverPassed, NEW b \in Browsers, Limit(b)
  PROVE  AccountsTypeOK' /\ HitsCoverPassed'
  <1>1. 0 \in 0..(Window - 1)
    BY AccountsAssumption
  <1>2. ASSUME LetThrough(b), hits' \in Entry, hits'.left > 0,
               passed[0] + 1 <= hits'.count, hits'.count <= MaxAttempts
        PROVE  AccountsTypeOK' /\ HitsCoverPassed'
    <2>1. form' \in [Browsers -> Form]
      BY <1>2 DEF LetThrough, AccountsTypeOK, Form
    <2>2. passed[0] \in 0..MaxAttempts
      BY <1>1 DEF AccountsTypeOK
    <2>3. passed' = [passed EXCEPT ![0] = passed[0] + 1]
      BY <1>2 DEF LetThrough
    <2>4. passed[0] + 1 \in 0..MaxAttempts
      BY <1>2, <2>2, AccountsAssumption DEF Entry
    <2>5. passed' \in [0..(Window - 1) -> 0..MaxAttempts]
      BY <2>3, <2>4 DEF AccountsTypeOK
    <2>6. passed'[0] <= hits'.count
      BY <1>1, <1>2, <2>3 DEF AccountsTypeOK
    <2>7. UNCHANGED <<role, token, user, me, hasty>>
      BY <1>2 DEF LetThrough, Session, Limit
    <2>8. AccountsTypeOK'
      BY <1>2, <2>1, <2>5, <2>7 DEF AccountsTypeOK
    <2> QED BY <1>2, <2>6, <2>8 DEF HitsCoverPassed
  <1>3. CASE hits.left = 0 /\ hits' = [count |-> 1, left |-> Window] /\ LetThrough(b)
    <2>1. hits' \in Entry /\ hits'.left > 0 /\ hits'.count = 1 /\ 1 <= MaxAttempts
      BY <1>3, AccountsAssumption DEF Entry
    <2>2. passed[0] = 0
      BY <1>3 DEF HitsCoverPassed
    <2> QED BY <1>2, <1>3, <2>1, <2>2
  <1>4. CASE /\ hits.left > 0 /\ hits.count < MaxAttempts
             /\ hits' = [hits EXCEPT !.count = @ + 1] /\ LetThrough(b)
    <2>1. hits.count \in 0..(MaxAttempts + 1) /\ hits.left \in 0..Window
      BY DEF AccountsTypeOK, Entry
    <2>2. hits' \in Entry /\ hits'.left > 0 /\ hits'.count = hits.count + 1
      BY <1>4, <2>1, AccountsAssumption DEF AccountsTypeOK, Entry
    <2>3. passed[0] <= hits.count /\ passed[0] \in 0..MaxAttempts
      BY <1>1, <1>4 DEF HitsCoverPassed, AccountsTypeOK
    <2> QED BY <1>2, <1>4, <2>1, <2>2, <2>3, AccountsAssumption
  <1>5. CASE /\ hits.left > 0 /\ hits.count >= MaxAttempts
             /\ hits' = [hits EXCEPT !.count = MaxAttempts + 1]
             /\ Answer(b) /\ UNCHANGED passed
    <2>1. hits' \in Entry /\ hits'.left = hits.left /\ hits'.count = MaxAttempts + 1
      BY <1>5, AccountsAssumption DEF AccountsTypeOK, Entry
    <2>2. passed[0] \in 0..MaxAttempts
      BY <1>1 DEF AccountsTypeOK
    <2>3. form' \in [Browsers -> Form] /\ UNCHANGED <<role, token, user, me, hasty>>
      BY <1>5, FormFields DEF Answer, Session, Limit
    <2> QED BY <1>5, <2>1, <2>2, <2>3, AccountsAssumption DEF AccountsTypeOK, HitsCoverPassed, Entry
  <1> QED BY <1>3, <1>4, <1>5 DEF Limit

\* An email was submitted with every form that is inside the hub.
EmailsAreGiven == \A b \in Browsers : form[b].at # "no" => form[b].email \in Emails

LEMMA HubTyping ==
  ASSUME AccountsTypeOK, HitsCoverPassed, EmailsAreGiven, NEW b \in Browsers,
         CountUsers(b) \/ CreateUser(b) \/ DuplicateUser(b) \/ VerifyCredentials(b)
  PROVE  AccountsTypeOK' /\ HitsCoverPassed'
  <1>0. UNCHANGED <<hits, passed>>
    BY DEF CountUsers, CreateUser, DuplicateUser, VerifyCredentials, Limiter
  <1>1. CASE CountUsers(b)
    <2> DEFINE none == \A e \in Emails : role[e] = "none"
    <2>1. form' = [form EXCEPT ![b].at = "create", ![b].first = none]
      BY <1>1 DEF CountUsers
    <2>2. none \in BOOLEAN
      OBVIOUS
    <2> HIDE DEF none
    <2>3. form' \in [Browsers -> Form]
      BY <2>1, <2>2 DEF AccountsTypeOK, Form
    <2> QED BY <1>0, <1>1, <2>3 DEF CountUsers, Session, AccountsTypeOK, HitsCoverPassed
  <1>2. CASE CreateUser(b) \/ DuplicateUser(b) \/ VerifyCredentials(b)
    <2>1. Answer(b) \/ ApplyAuth(b)
      BY <1>2 DEF CreateUser, DuplicateUser, VerifyCredentials
    <2>2. form[b].email \in Emails
      BY <1>2 DEF EmailsAreGiven, CreateUser, DuplicateUser, VerifyCredentials
    <2>3. role' \in [Emails -> Roles]
      BY <1>2, <2>2 DEF CreateUser, DuplicateUser, VerifyCredentials, AccountsTypeOK, Roles
    <2> QED BY <1>0, <2>1, <2>2, <2>3, AnswerTyping DEF AccountsTypeOK, HitsCoverPassed
  <1> QED BY <1>1, <1>2

LEMMA TickTyping ==
  ASSUME AccountsTypeOK, Tick
  PROVE  AccountsTypeOK' /\ HitsCoverPassed'
  <1>1. hits' \in Entry
    BY AccountsAssumption DEF Tick, AccountsTypeOK, Entry
  <1>2. passed' \in [0..(Window - 1) -> 0..MaxAttempts] /\ passed'[0] = 0
    <2>1. \A i \in 0..(Window - 1) : i # 0 => i - 1 \in 0..(Window - 1)
      BY AccountsAssumption
    <2> QED BY <2>1, AccountsAssumption DEF Tick, AccountsTypeOK
  <1>3. UNCHANGED <<role, token, user, me, form, hasty>>
    BY DEF Tick, Session
  <1> QED BY <1>1, <1>2, <1>3 DEF AccountsTypeOK, HitsCoverPassed, Entry

LEMMA EmailsStayGiven ==
  ASSUME AccountsTypeOK, EmailsAreGiven, [AccountsNext]_accountsVars
  PROVE  EmailsAreGiven'
  <1>1. ASSUME NEW b \in Browsers, Submit(b)
        PROVE  EmailsAreGiven'
    <2>1. PICK e \in Emails, mode \in {"login", "register"} :
            form' = [form EXCEPT ![b] = [NoForm EXCEPT !.at = "sent", !.mode = mode,
                                                       !.email = e]]
      BY <1>1 DEF Submit
    <2>2. form'[b].email = e /\ \A c \in Browsers \ {b} : form'[c] = form[c]
      BY <2>1 DEF AccountsTypeOK, NoForm
    <2> QED BY <2>2 DEF EmailsAreGiven
  <1>2. ASSUME NEW b \in Browsers, Limit(b) \/ CountUsers(b) \/ CreateUser(b)
                                   \/ DuplicateUser(b) \/ VerifyCredentials(b)
        PROVE  EmailsAreGiven'
    <2>1. \A c \in Browsers \ {b} : form'[c] = form[c]
      BY <1>2 DEF Limit, LetThrough, CountUsers, CreateUser, DuplicateUser,
                  VerifyCredentials, Answer, ApplyAuth, AccountsTypeOK
    <2>2. form[b].at # "no"
      BY <1>2 DEF Limit, CountUsers, CreateUser, DuplicateUser, VerifyCredentials
    <2>3. form'[b] = NoForm \/ form'[b].email = form[b].email
      BY <1>2 DEF Limit, LetThrough, CountUsers, CreateUser, DuplicateUser,
                  VerifyCredentials, Answer, ApplyAuth, AccountsTypeOK, Form
    <2> QED BY <2>1, <2>2, <2>3 DEF EmailsAreGiven, NoForm
  <1>3. ASSUME NEW b \in Browsers, Reload(b)
        PROVE  EmailsAreGiven'
    BY <1>3 DEF Reload, AccountsTypeOK, Form, EmailsAreGiven
  <1>4. ASSUME UNCHANGED form
        PROVE  EmailsAreGiven'
    BY <1>4 DEF EmailsAreGiven
  <1> QED BY <1>1, <1>2, <1>3, <1>4 DEF AccountsNext, accountsVars, MeSucceeds, MeFails, Logout, Tick

TypingInv == AccountsTypeOK /\ HitsCoverPassed /\ EmailsAreGiven

LEMMA NextTyping ==
  ASSUME TypingInv, [AccountsNext]_accountsVars
  PROVE  TypingInv'
  <1> USE DEF TypingInv
  <1>1. CASE UNCHANGED accountsVars
    BY <1>1 DEF accountsVars, AccountsTypeOK, HitsCoverPassed, EmailsAreGiven
  <1>2. CASE AccountsNext
    <2>1. AccountsTypeOK' /\ HitsCoverPassed'
      BY <1>2, PageTyping, LimitTyping, HubTyping, TickTyping DEF AccountsNext
    <2> QED BY <2>1, EmailsStayGiven
  <1> QED BY <1>1, <1>2

\* Accounts, sessions, forms and the limiter keep their types; in particular
\* the limiter never lets more than MaxAttempts requests through within a tick
\* (auth-rate-limit.ts:39-75).
THEOREM AccountsTypeCorrect == AccountsSpec => []AccountsTypeOK
  <1>1. AccountsInit => TypingInv
    BY InitTyping DEF TypingInv, AccountsInit, EmailsAreGiven, NoForm
  <1> QED BY <1>1, NextTyping, PTL DEF AccountsSpec, TypingInv

------------------------------------------------------------------------------
(* The first administrator.                                                   *)

\* A registration that has counted somebody will find an account when it creates
\* its own: accounts are never removed.
CountedSomebody ==
  \A b \in Browsers : (form[b].at = "create" /\ ~form[b].first) =>
                         \E e \in Emails : role[e] # "none"

AdminInv == TypingInv /\ AnAdminExists /\ CountedSomebody

LEMMA InitAdmin == AccountsInit => AdminInv
  BY InitTyping DEF AccountsInit, AdminInv, TypingInv, EmailsAreGiven, NoForm,
                    AnAdminExists, CountedSomebody

\* A form comes to "create" only by CountUsers.
LEMMA FormKeepsCount ==
  ASSUME AccountsTypeOK, NEW b \in Browsers,
         \/ Reload(b) \/ MeSucceeds(b) \/ MeFails(b) \/ Logout(b) \/ Submit(b)
         \/ Limit(b) \/ CreateUser(b) \/ DuplicateUser(b) \/ VerifyCredentials(b),
         NEW c \in Browsers, form'[c].at = "create"
  PROVE  form[c].at = "create" /\ form'[c].first = form[c].first
  <1>1. CASE Reload(b)
    BY <1>1 DEF Reload, AccountsTypeOK, Form
  <1>2. CASE Submit(b)
    BY <1>2 DEF Submit, AccountsTypeOK, Form, NoForm
  <1>3. CASE Limit(b)
    <2>1. LetThrough(b) \/ Answer(b)
      BY <1>3 DEF Limit
    <2>2. c # b
      BY <2>1 DEF LetThrough, Answer, AccountsTypeOK, Form, NoForm
    <2> QED BY <2>1, <2>2 DEF LetThrough, Answer, AccountsTypeOK
  <1>4. CASE CreateUser(b) \/ DuplicateUser(b) \/ VerifyCredentials(b)
    <2>1. form' = [form EXCEPT ![b] = NoForm]
      BY <1>4 DEF CreateUser, DuplicateUser, VerifyCredentials, Answer, ApplyAuth
    <2> QED BY <2>1 DEF AccountsTypeOK, NoForm
  <1>5. CASE MeSucceeds(b) \/ MeFails(b) \/ Logout(b)
    BY <1>5 DEF MeSucceeds, MeFails, Logout
  <1> QED BY <1>1, <1>2, <1>3, <1>4, <1>5

LEMMA AdminStaysByCreate ==
  ASSUME AdminInv, NEW b \in Browsers, CreateUser(b)
  PROVE  AnAdminExists' /\ CountedSomebody'
  <1> DEFINE new == form[b].email
             given == IF form[b].first THEN "admin" ELSE "viewer"
  <1>1. new \in Emails /\ role[new] = "none" /\ role' = [role EXCEPT ![new] = given]
    BY DEF CreateUser, AdminInv, TypingInv, EmailsAreGiven
  <1>2. role'[new] = given /\ \A e \in Emails \ {new} : role'[e] = role[e]
    BY <1>1 DEF AdminInv, TypingInv, AccountsTypeOK
  <1>3. role'[new] # "none"
    BY <1>2
  <1>4. \E e \in Emails : role'[e] = "admin"
    <2>1. CASE form[b].first
      BY <2>1, <1>1, <1>2
    <2>2. CASE ~form[b].first
      <3>1. \E e \in Emails : role[e] # "none"
        BY <2>2 DEF CreateUser, AdminInv, CountedSomebody
      <3>2. PICK a \in Emails : role[a] = "admin"
        BY <3>1 DEF AdminInv, AnAdminExists
      <3> QED BY <3>2, <1>1, <1>2
    <2> QED BY <2>1, <2>2
  <1> QED BY <1>1, <1>3, <1>4 DEF AnAdminExists, CountedSomebody

LEMMA NextAdmin ==
  ASSUME AdminInv, [AccountsNext]_accountsVars
  PROVE  AdminInv'
  <1>0. TypingInv'
    BY NextTyping DEF AdminInv
  <1>1. CASE UNCHANGED <<role, form>>
    BY <1>0, <1>1 DEF AdminInv, AnAdminExists, CountedSomebody
  <1>2. ASSUME NEW b \in Browsers, CreateUser(b)
        PROVE  AdminInv'
    BY <1>0, <1>2, AdminStaysByCreate DEF AdminInv
  <1>3. ASSUME NEW b \in Browsers, CountUsers(b)
        PROVE  AdminInv'
    <2> DEFINE none == \A e \in Emails : role[e] = "none"
    <2>1. form' = [form EXCEPT ![b].at = "create", ![b].first = none] /\ role' = role
      BY <1>3 DEF CountUsers
    <2>2. none => form'[b].first
      BY <2>1 DEF AdminInv, TypingInv, AccountsTypeOK, Form
    <2>3. \A c \in Browsers \ {b} : form'[c] = form[c]
      BY <2>1 DEF AdminInv, TypingInv, AccountsTypeOK
    <2> QED BY <1>0, <2>1, <2>2, <2>3 DEF AdminInv, AnAdminExists, CountedSomebody
  <1>4. ASSUME NEW b \in Browsers,
               \/ Reload(b) \/ MeSucceeds(b) \/ MeFails(b) \/ Logout(b) \/ Submit(b)
               \/ Limit(b) \/ DuplicateUser(b) \/ VerifyCredentials(b)
        PROVE  AdminInv'
    <2>1. role' = role
      BY <1>4 DEF Reload, MeSucceeds, MeFails, Logout, Submit, Limit, DuplicateUser,
                  VerifyCredentials
    <2>2. CountedSomebody'
      BY <1>4, <2>1, FormKeepsCount DEF AdminInv, TypingInv, CountedSomebody
    <2> QED BY <1>0, <2>1, <2>2 DEF AdminInv, AnAdminExists
  <1> QED BY <1>1, <1>2, <1>3, <1>4 DEF AccountsNext, accountsVars, Tick

\* However many registrations count, hash and create at the same time, and in
\* whatever order, a hub with accounts has an administrator (auth.service.ts:24-31).
THEOREM AdminAlwaysExists == AccountsSpec => []AnAdminExists
  BY InitAdmin, NextAdmin, PTL DEF AccountsSpec, AdminInv

------------------------------------------------------------------------------
(* The page and the stored token.                                             *)

\* While its stored token is being checked a page shows nobody; otherwise it shows
\* the owner of the token.
SessionOf(b) ==
  /\ me[b] # Nobody => user[b] = Nobody /\ token[b] = me[b]
  /\ me[b] = Nobody => user[b] = token[b]

SessionInv == TypingInv /\ \A b \in Browsers \ hasty : SessionOf(b)

LEMMA InitSession == AccountsInit => SessionInv
  BY InitTyping DEF AccountsInit, SessionInv, SessionOf, TypingInv, EmailsAreGiven, NoForm

\* The steps of one browser are no concern of another's session.
LEMMA OthersKeepTheirSession ==
  ASSUME TypingInv, NEW b \in Browsers,
         \/ Reload(b) \/ MeSucceeds(b) \/ MeFails(b) \/ Logout(b) \/ Submit(b)
         \/ Limit(b) \/ CountUsers(b) \/ CreateUser(b) \/ DuplicateUser(b)
         \/ VerifyCredentials(b),
         NEW c \in Browsers, c # b
  PROVE  /\ token'[c] = token[c] /\ user'[c] = user[c] /\ me'[c] = me[c]
         /\ c \in hasty' <=> c \in hasty
  <1>1. CASE Reload(b) \/ MeSucceeds(b) \/ MeFails(b) \/ Logout(b) \/ Submit(b)
    BY <1>1 DEF TypingInv, AccountsTypeOK, Reload, MeSucceeds, MeFails, Logout, Submit, Session
  <1>2. CASE ApplyAuth(b)
    BY <1>2 DEF TypingInv, AccountsTypeOK, ApplyAuth
  <1>3. CASE UNCHANGED Session
    BY <1>3 DEF Session
  <1> QED BY <1>1, <1>2, <1>3 DEF Limit, LetThrough, CountUsers, CreateUser, DuplicateUser,
             VerifyCredentials, Answer

\* A login writes user and token at once, and is noted if a check is under way.
LEMMA ApplyKeepsSession ==
  ASSUME TypingInv, NEW b \in Browsers, b \notin hasty, b \notin hasty', SessionOf(b),
         ApplyAuth(b)
  PROVE  SessionOf(b)'
  <1>1. CASE form[b].gone
    BY <1>1 DEF ApplyAuth, SessionOf
  <1>2. CASE ~form[b].gone
    <2>1. me[b] = Nobody
      BY <1>2 DEF ApplyAuth
    <2>2. token'[b] = form[b].email /\ user'[b] = form[b].email /\ me' = me
      BY <1>2 DEF ApplyAuth, TypingInv, AccountsTypeOK
    <2> QED BY <2>1, <2>2 DEF SessionOf
  <1> QED BY <1>1, <1>2

LEMMA OwnStepKeepsSession ==
  ASSUME TypingInv, NEW b \in Browsers, b \notin hasty', b \notin hasty => SessionOf(b),
         \/ Reload(b) \/ MeSucceeds(b) \/ MeFails(b) \/ Logout(b) \/ Submit(b)
         \/ Limit(b) \/ CountUsers(b) \/ CreateUser(b) \/ DuplicateUser(b)
         \/ VerifyCredentials(b)
  PROVE  SessionOf(b)'
  <1>1. CASE Reload(b)
    <2>1. user'[b] = Nobody /\ me'[b] = token[b] /\ token' = token
      BY <1>1 DEF Reload, TypingInv, AccountsTypeOK
    <2> QED BY <2>1 DEF SessionOf
  <1>2. CASE MeSucceeds(b)
    <2>1. me[b] # Nobody /\ SessionOf(b)
      BY <1>2, AccountsAssumption DEF MeSucceeds
    <2>2. user'[b] = me[b] /\ me'[b] = Nobody /\ token' = token
      BY <1>2 DEF MeSucceeds, TypingInv, AccountsTypeOK
    <2> QED BY <2>1, <2>2 DEF SessionOf
  <1>3. CASE MeFails(b)
    BY <1>3 DEF MeFails, TypingInv, AccountsTypeOK, SessionOf
  <1>4. CASE Logout(b)
    BY <1>4 DEF Logout, TypingInv, AccountsTypeOK, SessionOf
  <1>5. CASE UNCHANGED Session
    BY <1>5 DEF Session, SessionOf
  <1>6. CASE ApplyAuth(b)
    <2>1. b \notin hasty
      BY <1>6 DEF ApplyAuth
    <2> QED BY <1>6, <2>1, ApplyKeepsSession
  <1> QED BY <1>1, <1>2, <1>3, <1>4, <1>5, <1>6 DEF Submit, Limit, LetThrough, CountUsers,
             CreateUser, DuplicateUser, VerifyCredentials, Answer

LEMMA NextSession ==
  ASSUME SessionInv, [AccountsNext]_accountsVars
  PROVE  SessionInv'
  <1>0. TypingInv'
    BY NextTyping DEF SessionInv
  <1>1. CASE UNCHANGED Session
    BY <1>0, <1>1 DEF SessionInv, SessionOf, Session
  <1>2. ASSUME NEW b \in Browsers,
               \/ Reload(b) \/ MeSucceeds(b) \/ MeFails(b) \/ Logout(b) \/ Submit(b)
               \/ Limit(b) \/ CountUsers(b) \/ CreateUser(b) \/ DuplicateUser(b)
               \/ VerifyCredentials(b)
        PROVE  SessionInv'
    <2>1. ASSUME NEW c \in Browsers, c \notin hasty'
          PROVE  SessionOf(c)'
      <3>1. CASE c = b
        BY <2>1, <3>1, <1>2, OwnStepKeepsSession DEF SessionInv
      <3>2. CASE c # b
        BY <2>1, <3>2, <1>2, OthersKeepTheirSession DEF SessionInv, SessionOf
      <3> QED BY <3>1, <3>2
    <2> QED BY <1>0, <2>1 DEF SessionInv
  <1> QED BY <1>1, <1>2 DEF AccountsNext, accountsVars, Tick, Session

\* Whatever reloads, sign-outs, logins, refusals and late answers interleave, a page
\* whose stored token has been checked shows its owner, unless somebody logged in
\* while it was being checked (AuthProvider.tsx:32-86).
THEOREM PageShowsItsToken == AccountsSpec => []UserMatchesToken
  <1>1. SessionInv => UserMatchesToken
    BY DEF SessionInv, SessionOf, UserMatchesToken
  <1> QED BY <1>1, InitSession, NextSession, PTL DEF AccountsSpec

------------------------------------------------------------------------------
(* How many attempts the limiter lets through. *)

Ticks == 0..(Window - 1)
Passed == [Ticks -> 0..MaxAttempts]

\* The attempts that a count of attempts by age tells of, for ages in S.
Aged(f, S) == {a \in Ticks \X (1..MaxAttempts) : a[1] \in S /\ a[2] <= f[a[1]]}

LEMMA AgedIsFinite ==
  ASSUME NEW f, NEW S
  PROVE  IsFiniteSet(Aged(f, S)) /\ Cardinality(Aged(f, S)) \in Nat
  <1>1. IsFiniteSet(Ticks) /\ IsFiniteSet(1..MaxAttempts)
    BY FS_Interval, AccountsAssumption DEF Ticks
  <1>2. IsFiniteSet(Ticks \X (1..MaxAttempts))
    BY <1>1, FS_Product
  <1>3. Aged(f, S) \in SUBSET (Ticks \X (1..MaxAttempts))
    BY DEF Aged
  <1>4. IsFiniteSet(Aged(f, S))
    BY <1>2, <1>3, FS_Subset
  <1> QED BY <1>4, FS_CardinalityType

LEMMA AgedGrows ==
  ASSUME NEW f, NEW S, NEW g, NEW T, Aged(f, S) \subseteq Aged(g, T)
  PROVE  Cardinality(Aged(f, S)) <= Cardinality(Aged(g, T))
  BY AgedIsFinite, FS_Subset

LEMMA RecentIsAged ==
  ASSUME passed \in Passed
  PROVE  Recent = Aged(passed, Ticks)
  <1>1. ASSUME NEW a \in Recent PROVE a \in Aged(passed, Ticks)
    <2>1. PICK i \in Ticks : a \in {i} \X (1..passed[i])
      BY DEF Recent, Ticks
    <2>2. a = <<i, a[2]>> /\ a[2] \in 1..passed[i] /\ passed[i] \in 0..MaxAttempts
      BY <2>1 DEF Passed
    <2>3. a[1] = i /\ a[2] \in 1..MaxAttempts /\ a[2] <= passed[i]
      BY <2>2, AccountsAssumption
    <2>4. a \in Ticks \X (1..MaxAttempts)
      BY <2>2, <2>3
    <2> QED BY <2>3, <2>4 DEF Aged
  <1>2. ASSUME NEW a \in Aged(passed, Ticks) PROVE a \in Recent
    <2>1. a \in Ticks \X (1..MaxAttempts) /\ a[2] <= passed[a[1]] /\ a[1] \in Ticks
      BY DEF Aged
    <2>2. a[2] \in 1..passed[a[1]]
      BY <2>1 DEF Passed
    <2>3. a \in {a[1]} \X (1..passed[a[1]])
      BY <2>1, <2>2
    <2> QED BY <2>1, <2>3 DEF Recent, Ticks
  <1> QED BY <1>1, <1>2

\* Of the ages that lie apart, the attempts add up.
LEMMA AgedAddsUp ==
  ASSUME NEW f, NEW S, NEW T, Ticks \subseteq S \cup T
  PROVE  Cardinality(Aged(f, Ticks)) <= Cardinality(Aged(f, S)) + Cardinality(Aged(f, T))
  <1>1. Aged(f, Ticks) \in SUBSET (Aged(f, S) \cup Aged(f, T))
    BY DEF Aged
  <1>2. /\ IsFiniteSet(Aged(f, S) \cup Aged(f, T))
        /\ Cardinality(Aged(f, S) \cup Aged(f, T)) =
             Cardinality(Aged(f, S)) + Cardinality(Aged(f, T))
               - Cardinality(Aged(f, S) \cap Aged(f, T))
    BY AgedIsFinite, FS_Union
  <1>3. Cardinality(Aged(f, S) \cap Aged(f, T)) \in Nat
    <2>1. IsFiniteSet(Aged(f, S) \cap Aged(f, T))
      BY AgedIsFinite, FS_Intersection
    <2> QED BY <2>1, FS_CardinalityType
  <1>4. Cardinality(Aged(f, Ticks)) <= Cardinality(Aged(f, S) \cup Aged(f, T))
    BY <1>1, <1>2, FS_Subset
  <1> QED BY <1>2, <1>3, <1>4, AgedIsFinite

\* A tick makes every attempt one tick older.
LEMMA AgedShifts ==
  ASSUME NEW f \in Passed, NEW g \in Passed,
         g[0] = 0, \A i \in Ticks \ {0} : g[i] = f[i - 1],
         NEW S, NEW T, \A i \in S \cap Ticks : i # 0 => i - 1 \in T
  PROVE  Cardinality(Aged(g, S)) <= Cardinality(Aged(f, T))
  <1> DEFINE old == [a \in Aged(g, S) |-> <<a[1] - 1, a[2]>>]
  <1>1. ASSUME NEW a \in Aged(g, S)
        PROVE  /\ <<a[1] - 1, a[2]>> \in Aged(f, T)
               /\ a = <<a[1], a[2]>> /\ a[1] \in Int
    <2>1. a \in Ticks \X (1..MaxAttempts) /\ a[1] \in S /\ a[2] <= g[a[1]]
      BY DEF Aged
    <2>2. a[1] \in Ticks /\ a[2] \in 1..MaxAttempts /\ a = <<a[1], a[2]>> /\ a[1] \in Int
      BY <2>1, AccountsAssumption DEF Ticks
    <2>3. a[1] # 0
      BY <2>1, <2>2
    <2>4. a[1] - 1 \in Ticks /\ a[1] - 1 \in T /\ a[2] <= f[a[1] - 1]
      BY <2>1, <2>2, <2>3, AccountsAssumption DEF Ticks
    <2> QED BY <2>2, <2>4 DEF Aged
  <1>2. old \in [Aged(g, S) -> Aged(f, T)]
    BY <1>1
  <1>3. \A a, b \in Aged(g, S) : old[a] = old[b] => a = b
    <2> SUFFICES ASSUME NEW a \in Aged(g, S), NEW b \in Aged(g, S), old[a] = old[b]
                 PROVE  a = b
      OBVIOUS
    <2>1. a[1] - 1 = b[1] - 1 /\ a[2] = b[2]
      OBVIOUS
    <2>2. a[1] = b[1]
      BY <1>1, <2>1
    <2> QED BY <1>1, <2>1, <2>2
  <1>4. old \in Injection(Aged(g, S), Aged(f, T))
    <2> HIDE DEF old
    <2> QED BY <1>2, <1>3 DEF Injection, IsInjective
  <1> QED BY <1>4, AgedIsFinite, FS_Injection

\* The age of the open window's first attempt.
Opened == Window - hits.left

\* No more than MaxAttempts attempts are as old as the open window, and fewer are
\* older: the one that opened the window before has expired.
BurstInv ==
  /\ hits.left = 0 => Cardinality(Aged(passed, Ticks)) <= MaxAttempts - 1
  /\ hits.left > 0 =>
       /\ passed[Opened] >= 1
       /\ Cardinality(Aged(passed, 0..Opened)) <= hits.count
       /\ Cardinality(Aged(passed, 0..Opened)) <= MaxAttempts
       /\ Cardinality(Aged(passed, (Opened + 1)..(Window - 1))) <= MaxAttempts - 1

LEMMA LimiterTypes ==
  ASSUME TypingInv
  PROVE  /\ passed \in Passed /\ 0 \in Ticks
         /\ hits.count \in Nat /\ hits.left \in 0..Window
         /\ hits.left > 0 => Opened \in Ticks
         /\ Window \in Nat \ {0} /\ MaxAttempts \in Nat \ {0}
  BY AccountsAssumption DEF TypingInv, AccountsTypeOK, Passed, Ticks, Entry, Opened

LEMMA InitBurst == AccountsInit => BurstInv
  <1> SUFFICES ASSUME AccountsInit PROVE BurstInv
    OBVIOUS
  <1>1. Aged(passed, Ticks) = {}
    BY AccountsAssumption DEF AccountsInit, Aged, Ticks
  <1>2. hits.left = 0
    BY DEF AccountsInit, NoEntry
  <1> QED BY <1>1, <1>2, FS_EmptySet, AccountsAssumption DEF BurstInv

\* An attempt that is let through is a new one of this tick.
LEMMA OneMore ==
  ASSUME NEW f \in Passed, NEW g, f[0] + 1 <= MaxAttempts, g = [f EXCEPT ![0] = @ + 1]
  PROVE  /\ \A S : 0 \notin S => Aged(g, S) = Aged(f, S)
         /\ \A S : 0 \in S => Aged(g, S) = Aged(f, S) \cup {<<0, f[0] + 1>>}
  <1>1. 0 \in Ticks /\ f[0] \in Nat /\ DOMAIN f = Ticks /\ f[0] + 1 \in 1..MaxAttempts
    BY AccountsAssumption DEF Ticks, Passed
  <1>2. \A i \in Ticks : g[i] = IF i = 0 THEN f[0] + 1 ELSE f[i]
    BY <1>1
  <1>3. ASSUME NEW S, 0 \notin S
        PROVE  Aged(g, S) = Aged(f, S)
    BY <1>2, <1>3 DEF Aged
  <1>4. ASSUME NEW S, 0 \in S
        PROVE  Aged(g, S) = Aged(f, S) \cup {<<0, f[0] + 1>>}
    <2>1. ASSUME NEW a \in Aged(g, S) PROVE a \in Aged(f, S) \cup {<<0, f[0] + 1>>}
      <3>1. a \in Ticks \X (1..MaxAttempts) /\ a[1] \in S /\ a[2] <= g[a[1]]
        BY <2>1 DEF Aged
      <3>2. a = <<a[1], a[2]>> /\ a[2] \in Nat /\ a[1] \in Ticks
        BY <3>1
      <3>3. CASE a[1] = 0 /\ a[2] = f[0] + 1
        BY <3>2, <3>3
      <3>4. CASE a[1] = 0 /\ a[2] # f[0] + 1
        <4>1. a[2] <= f[a[1]]
          BY <1>1, <1>2, <3>1, <3>2, <3>4
        <4> QED BY <3>1, <4>1 DEF Aged
      <3>5. CASE a[1] # 0
        BY <1>2, <3>1, <3>2, <3>5 DEF Aged
      <3> QED BY <3>3, <3>4, <3>5
    <2>2. ASSUME NEW a \in Aged(f, S) PROVE a \in Aged(g, S)
      <3>1. a \in Ticks \X (1..MaxAttempts) /\ a[1] \in S /\ a[2] <= f[a[1]]
        BY <2>2 DEF Aged
      <3>2. a[2] \in Nat /\ a[1] \in Ticks
        BY <3>1
      <3>3. a[2] <= g[a[1]]
        BY <1>1, <1>2, <3>1, <3>2
      <3> QED BY <3>1, <3>3 DEF Aged
    <2>3. <<0, f[0] + 1>> \in Aged(g, S)
      BY <1>1, <1>2, <1>4 DEF Aged
    <2> QED BY <1>4, <2>1, <2>2, <2>3
  <1> QED BY <1>3, <1>4

LEMMA LimitKeepsBurst ==
  ASSUME TypingInv, BurstInv, NEW b \in Browsers, Limit(b)
  PROVE  BurstInv'
  <1>0. /\ passed \in Passed /\ 0 \in Ticks /\ hits \in Entry
        /\ hits.count \in Nat /\ hits.left \in 0..Window
        /\ Window \in Nat \ {0} /\ MaxAttempts \in Nat \ {0}
    BY LimiterTypes DEF TypingInv, AccountsTypeOK
  <1>1. CASE hits.left = 0 /\ hits' = [count |-> 1, left |-> Window] /\ LetThrough(b)
    <2>1. passed' = [passed EXCEPT ![0] = @ + 1] /\ passed[0] = 0 /\ passed[0] + 1 <= MaxAttempts
      BY <1>0, <1>1 DEF LetThrough, TypingInv, HitsCoverPassed
    <2>0. /\ \A S : 0 \notin S => Aged(passed', S) = Aged(passed, S)
          /\ \A S : 0 \in S => Aged(passed', S) = Aged(passed, S) \cup {<<0, passed[0] + 1>>}
      BY <1>0, <2>1, OneMore
    <2>2. hits'.left = Window /\ hits'.count = 1 /\ Opened' = 0 /\ passed'[0] = 1
      BY <1>0, <1>1, <2>1 DEF Opened, Passed
    <2>3. Aged(passed', 0..0) = Aged(passed, 0..0) \cup {<<0, 1>>}
      <3>0. 0 \in 0..0
        OBVIOUS
      <3>1. Aged(passed', 0..0) = Aged(passed, 0..0) \cup {<<0, passed[0] + 1>>}
        BY <2>0, <3>0
      <3>2. passed[0] + 1 = 1
        BY <2>1
      <3> QED BY <3>1, <3>2
    <2>4. Aged(passed, 0..0) = {}
      <3> SUFFICES ASSUME NEW a \in Aged(passed, 0..0) PROVE FALSE
        OBVIOUS
      <3>1. a \in Ticks \X (1..MaxAttempts) /\ a[1] \in 0..0 /\ a[2] <= passed[a[1]]
        BY DEF Aged
      <3>2. a[1] = 0 /\ a[2] \in 1..MaxAttempts
        BY <3>1
      <3> QED BY <2>1, <3>1, <3>2
    <2>5. Cardinality(Aged(passed', 0..0)) = 1
      BY <2>3, <2>4, FS_Singleton
    <2>6. Aged(passed', 1..(Window - 1)) = Aged(passed, 1..(Window - 1))
      <3>1. 0 \notin 1..(Window - 1)
        BY <1>0
      <3> QED BY <2>0, <3>1
    <2>7. Cardinality(Aged(passed, 1..(Window - 1))) <= Cardinality(Aged(passed, Ticks))
      <3>1. Aged(passed, 1..(Window - 1)) \subseteq Aged(passed, Ticks)
        BY DEF Aged, Ticks
      <3> QED BY <3>1, AgedGrows
    <2>8. Cardinality(Aged(passed', 1..(Window - 1))) <= MaxAttempts - 1
      BY <1>0, <1>1, <2>6, <2>7, AgedIsFinite DEF BurstInv
    <2>9. 0 + 1 = 1
      OBVIOUS
    <2> QED BY <1>0, <2>2, <2>5, <2>8, <2>9 DEF BurstInv
  <1>2. CASE /\ hits.left > 0 /\ hits.count < MaxAttempts
             /\ hits' = [hits EXCEPT !.count = @ + 1] /\ LetThrough(b)
    <2>1. /\ passed' = [passed EXCEPT ![0] = @ + 1] /\ passed[0] + 1 <= MaxAttempts
          /\ passed[0] \in Nat
      BY <1>0, <1>2 DEF LetThrough, TypingInv, HitsCoverPassed, Passed
    <2>0. /\ \A S : 0 \notin S => Aged(passed', S) = Aged(passed, S)
          /\ \A S : 0 \in S => Aged(passed', S) = Aged(passed, S) \cup {<<0, passed[0] + 1>>}
      BY <1>0, <2>1, OneMore
    <2>2. hits'.left = hits.left /\ hits'.count = hits.count + 1 /\ Opened' = Opened
      BY <1>0, <1>2 DEF Opened, Entry
    <2>3. Opened \in Ticks /\ passed'[Opened] >= passed[Opened] /\ passed[Opened] >= 1
          /\ passed[Opened] \in Nat
      BY <1>0, <1>2, <2>1, LimiterTypes DEF BurstInv, Passed
    <2>4. 0 \in 0..Opened /\ 0 \notin (Opened + 1)..(Window - 1)
      BY <1>0, <2>3 DEF Ticks
    <2>5. Aged(passed', 0..Opened) = Aged(passed, 0..Opened) \cup {<<0, passed[0] + 1>>}
      BY <2>0, <2>4
    <2>6. Cardinality(Aged(passed', 0..Opened)) <= Cardinality(Aged(passed, 0..Opened)) + 1
      <3> DEFINE old == Aged(passed, 0..Opened)
                 one == <<0, passed[0] + 1>>
      <3>1. IsFiniteSet(old) /\ Cardinality(old) \in Nat
        BY AgedIsFinite
      <3>2. Aged(passed', 0..Opened) = old \cup {one}
        BY <2>5
      <3> HIDE DEF old, one
      <3>3. Cardinality(old \cup {one}) = IF one \in old THEN Cardinality(old)
                                          ELSE Cardinality(old) + 1
        BY <3>1, FS_AddElement
      <3>4. Cardinality(old \cup {one}) <= Cardinality(old) + 1
        BY <3>1, <3>3
      <3>5. Cardinality(Aged(passed', 0..Opened)) <= Cardinality(old) + 1
        BY <3>2, <3>4
      <3> QED BY <3>5 DEF old
    <2>7. Aged(passed', (Opened + 1)..(Window - 1)) = Aged(passed, (Opened + 1)..(Window - 1))
      BY <2>0, <2>4
    <2>8. Cardinality(Aged(passed', 0..Opened)) \in Nat /\ Cardinality(Aged(passed, 0..Opened)) \in Nat
      BY AgedIsFinite
    <2>9. /\ Cardinality(Aged(passed', 0..Opened)) <= hits.count + 1
          /\ hits.count + 1 <= MaxAttempts /\ passed'[Opened] >= 1
      BY <1>0, <1>2, <2>1, <2>3, <2>6, <2>8 DEF BurstInv, Passed
    <2> QED BY <1>0, <1>2, <2>2, <2>7, <2>8, <2>9 DEF BurstInv
  <1>3. CASE /\ hits.left > 0 /\ hits.count >= MaxAttempts
             /\ hits' = [hits EXCEPT !.count = MaxAttempts + 1]
             /\ Answer(b) /\ UNCHANGED passed
    <2>1. hits'.left = hits.left /\ hits'.count = MaxAttempts + 1 /\ Opened' = Opened
      BY <1>0, <1>3 DEF Opened, Entry
    <2> QED BY <1>0, <1>3, <2>1, AgedIsFinite DEF BurstInv
  <1> QED BY <1>1, <1>2, <1>3 DEF Limit

LEMMA TickKeepsBurst ==
  ASSUME TypingInv, TypingInv', BurstInv, Tick
  PROVE  BurstInv'
  <1>0. /\ passed \in Passed /\ passed' \in Passed /\ 0 \in Ticks /\ hits \in Entry
        /\ hits.count \in Nat /\ hits.left \in 0..Window
        /\ Window \in Nat \ {0} /\ MaxAttempts \in Nat \ {0}
    BY LimiterTypes DEF TypingInv, AccountsTypeOK, Passed, Ticks
  <1>1. /\ passed'[0] = 0 /\ \A i \in Ticks \ {0} : passed'[i] = passed[i - 1]
        /\ hits'.count = hits.count /\ hits'.left = IF hits.left = 0 THEN 0 ELSE hits.left - 1
    BY <1>0 DEF Tick, Ticks, Entry
  <1>2. ASSUME NEW S, NEW T, \A i \in S \cap Ticks : i # 0 => i - 1 \in T
        PROVE  Cardinality(Aged(passed', S)) <= Cardinality(Aged(passed, T))
    BY <1>0, <1>1, <1>2, AgedShifts
  <1>3. CASE hits.left = 0
    <2>1. \A i \in Ticks \cap Ticks : i # 0 => i - 1 \in Ticks
      BY <1>0 DEF Ticks
    <2>2. Cardinality(Aged(passed', Ticks)) <= Cardinality(Aged(passed, Ticks))
      BY <1>2, <2>1
    <2>3. Cardinality(Aged(passed', Ticks)) \in Nat /\ Cardinality(Aged(passed, Ticks)) \in Nat
      BY AgedIsFinite
    <2> QED BY <1>0, <1>1, <1>3, <2>2, <2>3 DEF BurstInv
  <1>4. CASE hits.left = 1
    <2>1. Opened = Window - 1 /\ hits'.left = 0 /\ passed[Window - 1] >= 1
          /\ Cardinality(Aged(passed, 0..(Window - 1))) <= MaxAttempts
      BY <1>0, <1>1, <1>4 DEF Opened, BurstInv
    <2> DEFINE rest == 0..(Window - 2)
    <2>2. Cardinality(Aged(passed', Ticks)) <= Cardinality(Aged(passed, rest))
      <3>1. \A i \in Ticks \cap Ticks : i # 0 => i - 1 \in rest
        BY <1>0 DEF Ticks
      <3> QED BY <1>2, <3>1
    <2>3. <<Window - 1, 1>> \in Aged(passed, Ticks) \ Aged(passed, rest)
      <3>1. Window - 1 \in Ticks /\ Window - 1 \notin rest /\ 1 \in 1..MaxAttempts
        BY <1>0 DEF Ticks
      <3> QED BY <2>1, <3>1 DEF Aged
    <2>4. Aged(passed, rest) \subseteq Aged(passed, Ticks)
      BY <1>0 DEF Aged, Ticks
    <2>5. Cardinality(Aged(passed, rest)) < Cardinality(Aged(passed, Ticks))
      <3>1. /\ Cardinality(Aged(passed, rest)) <= Cardinality(Aged(passed, Ticks))
            /\ Cardinality(Aged(passed, Ticks)) = Cardinality(Aged(passed, rest))
                 => Aged(passed, Ticks) = Aged(passed, rest)
        BY <2>4, AgedIsFinite, FS_Subset
      <3> HIDE DEF rest
      <3> QED BY <2>3, <3>1, AgedIsFinite
    <2>6. Ticks = 0..(Window - 1)
      BY DEF Ticks
    <2> HIDE DEF rest
    <2>7. Cardinality(Aged(passed', Ticks)) <= MaxAttempts - 1
      BY <1>0, <2>1, <2>2, <2>5, <2>6, AgedIsFinite
    <2> QED BY <2>1, <2>7 DEF BurstInv
  <1>5. CASE hits.left > 1
    <2>1. /\ Opened' = Opened + 1 /\ Opened + 1 \in Ticks /\ Opened \in Nat /\ hits.left > 0
          /\ Opened \in Ticks
      BY <1>0, <1>1, <1>5 DEF Opened, Ticks
    <2>2. passed'[Opened + 1] >= 1
      <3>1. passed'[Opened + 1] = passed[Opened + 1 - 1]
        BY <1>1, <2>1
      <3>2. Opened + 1 - 1 = Opened
        BY <2>1
      <3> QED BY <2>1, <3>1, <3>2 DEF BurstInv
    <2>3. Cardinality(Aged(passed', 0..(Opened + 1))) <= Cardinality(Aged(passed, 0..Opened))
      <3>1. \A i \in (0..(Opened + 1)) \cap Ticks : i # 0 => i - 1 \in 0..Opened
        BY <2>1
      <3> QED BY <1>2, <3>1
    <2>4. Cardinality(Aged(passed', (Opened + 1 + 1)..(Window - 1)))
            <= Cardinality(Aged(passed, (Opened + 1)..(Window - 1)))
      <3>1. \A i \in ((Opened + 1 + 1)..(Window - 1)) \cap Ticks :
              i # 0 => i - 1 \in (Opened + 1)..(Window - 1)
        BY <1>0, <2>1
      <3> QED BY <1>2, <3>1
    <2>5. /\ Cardinality(Aged(passed, 0..Opened)) <= hits.count
          /\ Cardinality(Aged(passed, 0..Opened)) <= MaxAttempts
          /\ Cardinality(Aged(passed, (Opened + 1)..(Window - 1))) <= MaxAttempts - 1
      BY <2>1 DEF BurstInv
    <2>6. /\ Cardinality(Aged(passed, 0..Opened)) \in Nat
          /\ Cardinality(Aged(passed', 0..(Opened + 1))) \in Nat
          /\ Cardinality(Aged(passed, (Opened + 1)..(Window - 1))) \in Nat
          /\ Cardinality(Aged(passed', (Opened + 1 + 1)..(Window - 1))) \in Nat
      BY AgedIsFinite
    <2>7. /\ Cardinality(Aged(passed', 0..(Opened + 1))) <= hits.count
          /\ Cardinality(Aged(passed', 0..(Opened + 1))) <= MaxAttempts
          /\ Cardinality(Aged(passed', (Opened + 1 + 1)..(Window - 1))) <= MaxAttempts - 1
      BY <1>0, <2>3, <2>4, <2>5, <2>6
    <2>8. hits'.left # 0
      BY <1>0, <1>1, <1>5
    <2> QED BY <1>1, <2>1, <2>2, <2>7, <2>8 DEF BurstInv
  <1> QED BY <1>0, <1>3, <1>4, <1>5

\* Whatever is tried and when, fewer than two full bursts are let through within any
\* stretch as long as a window: the limiter counts the attempt that opens a window,
\* and a window opens only when the one before has expired (auth-rate-limit.ts:41-75).
THEOREM BurstsAreBounded == AccountsSpec => []BurstIsBounded
  <1>1. AccountsInit => TypingInv /\ BurstInv
    BY InitTyping, InitBurst DEF TypingInv, AccountsInit, EmailsAreGiven, NoForm
  <1>2. ASSUME TypingInv, BurstInv, [AccountsNext]_accountsVars
        PROVE  TypingInv' /\ BurstInv'
    <2>1. TypingInv'
      BY <1>2, NextTyping
    <2>2. CASE Tick
      BY <1>2, <2>1, <2>2, TickKeepsBurst
    <2>3. CASE \E b \in Browsers : Limit(b)
      BY <1>2, <2>1, <2>3, LimitKeepsBurst
    <2>4. CASE UNCHANGED <<hits, passed>>
      BY <1>2, <2>1, <2>4 DEF BurstInv, Opened
    <2>5. Tick \/ (\E b \in Browsers : Limit(b)) \/ UNCHANGED <<hits, passed>>
      BY <1>2 DEF AccountsNext, accountsVars, Reload, MeSucceeds, MeFails, Logout, Submit,
         CountUsers, CreateUser, DuplicateUser, VerifyCredentials, Limiter
    <2> QED BY <2>1, <2>2, <2>3, <2>4, <2>5
  <1>3. TypingInv /\ BurstInv => BurstIsBounded
    <2> SUFFICES ASSUME TypingInv, BurstInv PROVE BurstIsBounded
      OBVIOUS
    <2>1. /\ Recent = Aged(passed, Ticks) /\ hits.left \in 0..Window
          /\ MaxAttempts \in Nat \ {0} /\ (hits.left > 0 => Opened \in Ticks)
      BY LimiterTypes, RecentIsAged
    <2>2. CASE hits.left = 0
      BY <2>1, <2>2, AgedIsFinite DEF BurstInv, BurstIsBounded
    <2>3. CASE hits.left > 0
      <3>1. Ticks \subseteq (0..Opened) \cup ((Opened + 1)..(Window - 1))
        BY <2>1, <2>3, AccountsAssumption DEF Ticks
      <3>2. Cardinality(Aged(passed, Ticks)) <=
              Cardinality(Aged(passed, 0..Opened))
                + Cardinality(Aged(passed, (Opened + 1)..(Window - 1)))
        BY <3>1, AgedAddsUp
      <3>3. /\ Cardinality(Aged(passed, 0..Opened)) <= MaxAttempts
            /\ Cardinality(Aged(passed, (Opened + 1)..(Window - 1))) <= MaxAttempts - 1
        BY <2>3 DEF BurstInv
      <3>4. /\ Cardinality(Aged(passed, Ticks)) \in Nat
            /\ Cardinality(Aged(passed, 0..Opened)) \in Nat
            /\ Cardinality(Aged(passed, (Opened + 1)..(Window - 1))) \in Nat
        BY AgedIsFinite
      <3> QED BY <2>1, <3>2, <3>3, <3>4 DEF BurstIsBounded
    <2> QED BY <2>1, <2>2, <2>3
  <1> QED BY <1>1, <1>2, <1>3, PTL DEF AccountsSpec

------------------------------------------------------------------------------
(* The credentials of agents.                                                 *)


Document == [status : {"none", "active", "revoked"}, machine : Machines \cup {None}]
AgentRequest ==
  [at : {"no", "sent", "verified"}, token : Credentials \cup {Shared, None},
   machine : Machines \cup {None}, as : Machines \cup {None}, late : BOOLEAN]

\* An issued credential names a machine.
Issued(c) == cred[c].status # "none" /\ cred[c].machine \in Machines

\* What a request says of its credential is true of the document for ever: it was
\* issued, it is revoked if it was when the request was sent, and a verified
\* request has the machine of a credential that had not been.
Honest(r) ==
  r.token \in Credentials =>
    /\ Issued(r.token)
    /\ r.late => cred[r.token].status = "revoked"
    /\ r.at = "verified" => ~r.late /\ r.as = cred[r.token].machine

LetIn(r) == r.token \in Credentials => r.at = "verified" /\ r.as \in {None, r.machine}

AccessTyping ==
  /\ cred \in [Credentials -> Document]
  /\ request \in [Requests -> AgentRequest]
  /\ write \in AgentRequest

AccessInv ==
  /\ AccessTyping
  /\ \A c \in Credentials : cred[c] = NoCredential \/ Issued(c)
  /\ \A q \in Requests : Honest(request[q])
  /\ Honest(write) /\ LetIn(write)

LEMMA NoRequestIsHonest ==
  NoRequest \in AgentRequest /\ Honest(NoRequest) /\ LetIn(NoRequest)
  BY AccessAssumption DEF NoRequest, AgentRequest, Honest, LetIn

LEMMA InitAccess == Init => AccessInv
  BY NoRequestIsHonest DEF Init, AccessInv, AccessTyping, NoCredential, Document

\* The hub creates a document once, and revoking one changes nothing else of it.
DocumentsGrow ==
  /\ cred' \in [Credentials -> Document]
  /\ \A c \in Credentials :
       /\ cred'[c] = NoCredential \/ Issued(c)'
       /\ Issued(c) => /\ Issued(c)' /\ cred'[c].machine = cred[c].machine
                       /\ cred[c].status = "revoked" => cred'[c].status = "revoked"

LEMMA IssueGrows ==
  ASSUME AccessInv, NEW c \in Credentials, NEW m \in Machines, IssueCredential(c, m)
  PROVE  DocumentsGrow
  <1>1. cred' = [cred EXCEPT ![c] = [status |-> "active", machine |-> m]]
        /\ cred[c].status = "none"
    BY DEF IssueCredential, NoCredential
  <1> QED BY <1>1 DEF DocumentsGrow, AccessInv, AccessTyping, Document, Issued

LEMMA RevokeGrows ==
  ASSUME AccessInv, NEW c \in Credentials, RevokeCredential(c)
  PROVE  DocumentsGrow
  <1>1. cred' = [cred EXCEPT ![c].status = "revoked"] /\ Issued(c)
    BY DEF RevokeCredential, AccessInv
  <1> QED BY <1>1 DEF DocumentsGrow, AccessInv, AccessTyping, Document, Issued

LEMMA GrowthKeepsHonesty ==
  ASSUME DocumentsGrow, NEW r, Honest(r)
  PROVE  Honest(r)'
  BY DEF DocumentsGrow, Honest

\* Where the documents grow and agents do nothing, nothing is lost.
LEMMA PageKeepsAccess ==
  ASSUME AccessInv, DocumentsGrow, UNCHANGED <<request, write>>
  PROVE  AccessInv'
  <1>1. \A q \in Requests : Honest(request[q])'
    BY GrowthKeepsHonesty DEF AccessInv, Honest, DocumentsGrow
  <1>2. Honest(write)' /\ LetIn(write)'
    BY DEF AccessInv, Honest, LetIn, DocumentsGrow
  <1> QED BY <1>1, <1>2 DEF AccessInv, AccessTyping, DocumentsGrow

LEMMA SendKeepsAccess ==
  ASSUME AccessInv, NEW q \in Requests, AgentSends(q)
  PROVE  AccessInv'
  <1>1. PICK t \in {Shared} \cup {c \in Credentials : cred[c] # NoCredential},
             m \in Machines :
          request' = [request EXCEPT ![q] =
             [at |-> "sent", token |-> t, machine |-> m, as |-> None,
              late |-> t # Shared /\ cred[t].status = "revoked"]]
    BY DEF AgentSends
  <1> DEFINE late == t # Shared /\ cred[t].status = "revoked"
             sent == [at |-> "sent", token |-> t, machine |-> m, as |-> None, late |-> late]
  <1>2. late \in BOOLEAN
    OBVIOUS
  <1>3. t \in Credentials => Issued(t)
    BY AccessAssumption DEF AccessInv
  <1>4. late => cred[t].status = "revoked"
    OBVIOUS
  <1>5. request' = [request EXCEPT ![q] = sent] /\ cred' = cred /\ write' = NoRequest
    BY <1>1 DEF AgentSends
  <1> HIDE DEF late
  <1>6. sent \in AgentRequest /\ Honest(sent)
    BY <1>2, <1>3, <1>4 DEF AgentRequest, Honest
  <1> HIDE DEF sent
  <1>7. write' \in AgentRequest /\ Honest(write') /\ LetIn(write')
    BY <1>5, NoRequestIsHonest
  <1> QED BY <1>5, <1>6, <1>7 DEF AccessInv, AccessTyping, Honest, LetIn, Issued

LEMMA VerifyKeepsAccess ==
  ASSUME AccessInv, NEW q \in Requests, RequireAgentToken(q)
  PROVE  AccessInv'
  <1>0. UNCHANGED <<cred, write>>
    BY DEF RequireAgentToken
  <1>1. PICK r \in AgentRequest : request' = [request EXCEPT ![q] = r] /\ Honest(r)
    <2>1. request[q] \in AgentRequest /\ Honest(request[q])
      BY DEF AccessInv, AccessTyping
    <2>2. CASE VerifyAgentCredential(q)
      <3> DEFINE t == request[q].token
                 r == [request[q] EXCEPT !.at = "verified", !.as = cred[t].machine]
      <3>1. t \in Credentials /\ cred[t].status = "active"
        BY <2>2 DEF VerifyAgentCredential
      <3>2. Issued(t) /\ ~request[q].late
        BY <2>1, <3>1 DEF Honest
      <3>3. r \in AgentRequest /\ Honest(r)
        BY <2>1, <3>1, <3>2 DEF AgentRequest, Honest, Issued
      <3>4. request' = [request EXCEPT ![q] = r]
        BY <2>1, <2>2 DEF VerifyAgentCredential, AccessInv, AccessTyping, AgentRequest
      <3> QED BY <3>3, <3>4
    <2>3. CASE request[q].token = Shared /\ request' = [request EXCEPT ![q].at = "verified"]
      <3> DEFINE r == [request[q] EXCEPT !.at = "verified"]
      <3>1. r \in AgentRequest /\ Honest(r)
        BY <2>1, <2>3, AccessAssumption DEF AgentRequest, Honest
      <3>2. request' = [request EXCEPT ![q] = r]
        BY <2>1, <2>3 DEF AccessInv, AccessTyping, AgentRequest
      <3> QED BY <3>1, <3>2
    <2>4. CASE request' = [request EXCEPT ![q] = NoRequest]
      BY <2>4, NoRequestIsHonest
    <2> QED BY <2>2, <2>3, <2>4 DEF RequireAgentToken
  <1> QED BY <1>0, <1>1 DEF AccessInv, AccessTyping, Honest, LetIn, Issued

LEMMA HandleKeepsAccess ==
  ASSUME AccessInv, NEW q \in Requests, Handle(q)
  PROVE  AccessInv'
  <1>1. cred' = cred /\ request' = [request EXCEPT ![q] = NoRequest]
    BY DEF Handle
  <1>2. write' \in AgentRequest /\ Honest(write') /\ LetIn(write')
    BY DEF Handle, AccessInv, AccessTyping, LetIn
  <1>3. \A p \in Requests : Honest(request'[p])
    BY <1>1, NoRequestIsHonest DEF AccessInv, AccessTyping
  <1>4. request' \in [Requests -> AgentRequest]
    BY <1>1, NoRequestIsHonest DEF AccessInv, AccessTyping
  <1> QED BY <1>1, <1>2, <1>3, <1>4 DEF AccessInv, AccessTyping, Honest, LetIn, Issued

LEMMA NextAccess ==
  ASSUME AccessInv, [Next]_vars
  PROVE  AccessInv'
  <1>1. CASE OtherAdmin
    <2>1. DocumentsGrow
      BY <1>1, IssueGrows, RevokeGrows DEF OtherAdmin
    <2> QED BY <1>1, <2>1, PageKeepsAccess DEF OtherAdmin
  <1>2. CASE HubIssues
    <2>1. DocumentsGrow
      BY <1>2, IssueGrows DEF HubIssues
    <2> QED BY <1>2, <2>1, PageKeepsAccess DEF HubIssues
  <1>3. ASSUME NEW v \in Revocations, HubRevokes(v), revoke[v].on \in Credentials
        PROVE  AccessInv'
    <2>1. DocumentsGrow
      BY <1>3, RevokeGrows DEF HubRevokes
    <2> QED BY <1>3, <2>1, PageKeepsAccess DEF HubRevokes
  <1>4. CASE UNCHANGED Hub
    <2>1. DocumentsGrow
      BY <1>4 DEF Hub, DocumentsGrow, AccessInv, AccessTyping, Issued
    <2> QED BY <1>4, <2>1, PageKeepsAccess DEF Hub
  <1>5. ASSUME NEW q \in Requests, AgentStep(q)
        PROVE  AccessInv'
    BY <1>5, SendKeepsAccess, VerifyKeepsAccess, HandleKeepsAccess DEF AgentStep
  <1>6. ASSUME NEW v \in Revocations, HubRevokes(v), revoke[v].on \notin Credentials
        PROVE  AccessInv'
    <2>1. cred' = cred
      BY <1>6 DEF HubRevokes, RevokeCredential, AccessInv, AccessTyping
    <2> QED BY <1>4, <1>6, <2>1 DEF HubRevokes, Hub
  <1> QED BY <1>1, <1>2, <1>3, <1>4, <1>5, <1>6
          DEF Next, vars, Hub, PageStep, RevokeStep, ListStep, OpenPage, LeavePage,
              ShowIssueForm, CloseIssueForm, SubmitIssue, IssueAnswered, IssueFails,
              DismissToken, CancelRevoke, ConfirmRevoke, RevokeAnswered, RevokeFails,
              ListIsRead, ListAnswered, ListFails, Refetch, AskRevoke

\* A handler never writes the documents of another machine than the credential's,
\* nor for a request sent after the credential was revoked, however look-ups,
\* handlers, issuing and revoking interleave (hosts.routes.ts:28-30).
THEOREM WritesAlwaysAuthorised == AccessSpec => []WritesAreAuthorised
  <1>1. AccessInv => WritesAreAuthorised
    BY AccessAssumption DEF AccessInv, Honest, LetIn, Issued, WritesAreAuthorised
  <1> QED BY <1>1, InitAccess, NextAccess, PTL DEF AccessSpec

------------------------------------------------------------------------------
(* The credentials page.                                                      *)

Listed == [Credentials -> {"none", "active", "revoked"}]
Answers == Listed \cup {NoData}
List == [data : Answers, fetch : {"no", "sent", "read"}, read : Answers, stale : BOOLEAN]
Mutation == [at : {"no", "sent", "done"}, on : Credentials \cup {None}, here : BOOLEAN]
PageState == [open : BOOLEAN, form : BOOLEAN, error : BOOLEAN,
              token : Credentials \cup {None}, target : Credentials \cup {None}]

CredentialsTyping ==
  /\ page \in PageState /\ list \in List
  /\ issue \in Mutation /\ revoke \in [Revocations -> Mutation]
  /\ told \in SUBSET Credentials

\* What is asked of the page is asked of the page as it is shown: a mutation that
\* is answered to the page was sent by it, with no token on display, and a
\* credential is revoked from a list that has been read before.
AskedHere ==
  /\ issue.at = "no" => ~issue.here
  /\ issue.here => page.open /\ page.token = None
  /\ page.form => page.open /\ page.token = None
  /\ page.error => page.open
  /\ page.target # None => page.open /\ list.data # NoData
  /\ list.fetch = "read" => list.read # NoData
  /\ \A v \in Revocations :
       /\ revoke[v].at # "no" => revoke[v].on \in Credentials
       /\ revoke[v].here => page.open /\ list.data # NoData

\* A revocation that is reported has taken place, and every list that was asked
\* for since says so.
ToldIsTrue ==
  /\ \A v \in Revocations : revoke[v].at = "done" => cred[revoke[v].on].status = "revoked"
  /\ \A c \in told :
       /\ cred[c].status = "revoked"
       /\ list.fetch = "read" => list.read[c] = "revoked"
       /\ ~list.stale => list.data[c] = "revoked"

PageInv == AccessInv /\ CredentialsTyping /\ AskedHere /\ ToldIsTrue

\* The values the page's queries and mutations take.
LEMMA PageValues ==
  /\ Gone \in PageState /\ NoMutation \in Mutation
  /\ EmptyQuery \in List /\ EmptyQuery.fetch = "no"
  /\ \A q \in List :
       /\ Fetch(q) \in List /\ Fetch(q).data = q.data /\ Fetch(q).stale = q.stale
       /\ Fetch(q).fetch = "read" => Fetch(q) = q
       /\ Fail(q) \in List /\ Fail(q).data = q.data /\ Fail(q).stale = q.stale
       /\ Fail(q).fetch = "no"
  BY DEF Gone, PageState, NoMutation, Mutation, EmptyQuery, List, Answers, Fetch, Send, Fail

LEMMA InvalidateList ==
  ASSUME NEW q \in List, NEW mounted \in BOOLEAN
  PROVE  LET i == Invalidate(q, mounted)
         IN  /\ i \in List /\ i.data = q.data
             /\ q.stale => i.stale
             /\ i.fetch = "read" => q.fetch = "read" /\ i.read = q.read
             /\ mounted /\ q.data # NoData => i.fetch = "sent" /\ i.stale
  BY DEF List, Answers, Invalidate, Fetch, Send

LEMMA InitPage == Init => PageInv
  <1> SUFFICES ASSUME Init PROVE PageInv
    OBVIOUS
  <1>1. CredentialsTyping
    BY PageValues DEF Init, CredentialsTyping
  <1>2. AskedHere /\ ToldIsTrue
    BY DEF Init, AskedHere, ToldIsTrue, NoMutation, Gone, EmptyQuery
  <1> QED BY <1>1, <1>2, InitAccess DEF PageInv

\* What the hub does keeps what the page has reported.
LEMMA HubKeepsPage ==
  ASSUME PageInv, AccessInv', DocumentsGrow, UNCHANGED Page
  PROVE  PageInv'
  <1>1. \A c \in Credentials : cred[c].status = "revoked" => cred'[c].status = "revoked"
    BY DEF DocumentsGrow, Issued, PageInv, AccessInv, NoCredential
  <1>2. UNCHANGED <<page, list, issue, revoke, told>>
    BY DEF Page
  <1>3. CredentialsTyping' /\ AskedHere'
    BY <1>2 DEF PageInv, CredentialsTyping, AskedHere
  <1>4. ToldIsTrue'
    BY <1>1, <1>2 DEF PageInv, CredentialsTyping, AskedHere, ToldIsTrue
  <1> QED BY <1>3, <1>4 DEF PageInv

LEMMA AgentsGrowDocuments ==
  ASSUME AccessInv, UNCHANGED cred
  PROVE  DocumentsGrow
  BY DEF DocumentsGrow, AccessInv, AccessTyping, Issued

\* The end of a revocation: the other mutations are as they were.
LEMMA RevokeEnds ==
  ASSUME CredentialsTyping, NEW v \in Revocations,
         revoke' = [revoke EXCEPT ![v] = NoMutation]
  PROVE  /\ revoke' \in [Revocations -> Mutation]
         /\ \A w \in Revocations : revoke'[w] = revoke[w] \/ revoke'[w] = NoMutation
  BY PageValues DEF CredentialsTyping

LEMMA RevokeAnsweredKeepsPage ==
  ASSUME PageInv, NEW v \in Revocations, RevokeAnswered(v)
  PROVE  CredentialsTyping' /\ AskedHere' /\ ToldIsTrue'
  <1> DEFINE i == Invalidate(list, page.open)
  <1>1. page.open \in BOOLEAN /\ list \in List
    BY DEF PageInv, CredentialsTyping, PageState
  <1>2. /\ list' = i /\ i \in List /\ i.data = list.data
        /\ list.stale => i.stale
        /\ i.fetch = "read" => list.fetch = "read" /\ i.read = list.read
        /\ page.open /\ list.data # NoData => i.fetch = "sent" /\ i.stale
    BY <1>1, InvalidateList DEF RevokeAnswered
  <1> HIDE DEF i
  <1>3. /\ cred' = cred /\ page' = page /\ issue' = issue
        /\ revoke' = [revoke EXCEPT ![v] = NoMutation]
        /\ told' = IF revoke[v].here THEN told \cup {revoke[v].on} ELSE told
        /\ revoke[v].at = "done"
    BY DEF RevokeAnswered, Hub
  <1>4. /\ revoke' \in [Revocations -> Mutation]
        /\ \A w \in Revocations : revoke'[w] = revoke[w] \/ revoke'[w] = NoMutation
    BY <1>3, RevokeEnds DEF PageInv
  <1>5. CredentialsTyping'
    BY <1>2, <1>3, <1>4 DEF PageInv, CredentialsTyping, AskedHere
  <1>6. AskedHere'
    BY <1>2, <1>3, <1>4 DEF PageInv, AskedHere, NoMutation
  <1>7. ToldIsTrue'
    BY <1>2, <1>3, <1>4 DEF PageInv, AskedHere, ToldIsTrue, NoMutation
  <1> QED BY <1>5, <1>6, <1>7

\* Of the other steps of a revocation only the hub's touches the documents.
LEMMA RevokeKeepsPage ==
  ASSUME PageInv, NEW v \in Revocations, ConfirmRevoke(v) \/ RevokeFails(v)
  PROVE  CredentialsTyping' /\ AskedHere' /\ ToldIsTrue'
  <1>1. CASE ConfirmRevoke(v)
    <2>1. /\ UNCHANGED <<cred, list, issue, told>> /\ page.target # None
          /\ page' = [page EXCEPT !.target = None]
      BY <1>1 DEF ConfirmRevoke, Hub
    <2>2. page.target \in Credentials /\ page.open /\ list.data # NoData
      BY <2>1 DEF PageInv, CredentialsTyping, PageState, AskedHere
    <2>3. revoke' = [w \in Revocations |->
                       IF w = v THEN [at |-> "sent", on |-> page.target, here |-> TRUE]
                       ELSE [revoke[w] EXCEPT !.here = FALSE]]
      BY <1>1 DEF ConfirmRevoke, NoneHere
    <2>4. \A w \in Revocations : w # v =>
             /\ revoke'[w] \in Mutation /\ ~revoke'[w].here
             /\ revoke'[w].at = revoke[w].at /\ revoke'[w].on = revoke[w].on
      BY <2>3 DEF PageInv, CredentialsTyping, Mutation
    <2>5. /\ revoke'[v] \in Mutation /\ revoke'[v].at = "sent"
          /\ revoke'[v].on \in Credentials
      BY <2>2, <2>3 DEF Mutation
    <2>6. revoke' \in [Revocations -> Mutation]
      BY <2>3, <2>4, <2>5
    <2>7. /\ page' \in PageState /\ page'.open = page.open /\ page'.target = None
          /\ page'.form = page.form /\ page'.token = page.token
          /\ page'.error = page.error
      BY <2>1 DEF PageInv, CredentialsTyping, PageState
    <2>8. CredentialsTyping'
      BY <2>1, <2>6, <2>7 DEF PageInv, CredentialsTyping
    <2>9. AskedHere'
      BY <2>1, <2>2, <2>4, <2>5, <2>7 DEF PageInv, AskedHere
    <2>10. ToldIsTrue'
      BY <2>1, <2>4, <2>5 DEF PageInv, ToldIsTrue
    <2> QED BY <2>8, <2>9, <2>10
  <1>2. CASE RevokeFails(v)
    <2>1. UNCHANGED <<cred, page, list, issue, told>>
      BY <1>2 DEF RevokeFails, Hub
    <2>2. /\ revoke' \in [Revocations -> Mutation]
          /\ \A w \in Revocations : revoke'[w] = revoke[w] \/ revoke'[w] = NoMutation
      BY <1>2, RevokeEnds DEF RevokeFails, PageInv
    <2> QED BY <2>1, <2>2 DEF PageInv, CredentialsTyping, AskedHere, ToldIsTrue, NoMutation
  <1> QED BY <1>1, <1>2

LEMMA ListKeepsPage ==
  ASSUME PageInv, ListStep
  PROVE  CredentialsTyping' /\ AskedHere' /\ ToldIsTrue'
  <1>1. UNCHANGED <<cred, page, issue, revoke, told>>
    BY DEF ListStep, ListIsRead, ListAnswered, ListFails, Refetch, Hub
  <1>2. Statuses \in Listed /\ \A c \in Credentials : Statuses[c] = cred[c].status
    BY DEF Statuses, Listed, PageInv, AccessInv, AccessTyping, Document
  <1>3. Statuses # NoData
    BY <1>2, AccessAssumption DEF Listed
  <1>4. CASE ListIsRead
    <2>1. list' = [list EXCEPT !.fetch = "read", !.read = Statuses]
      BY <1>4 DEF ListIsRead, Read
    <2>2. /\ list' \in List /\ list'.fetch = "read" /\ list'.read = Statuses
          /\ list'.data = list.data /\ list'.stale = list.stale
      BY <1>2, <2>1 DEF PageInv, CredentialsTyping, List, Answers
    <2> QED BY <1>1, <1>2, <1>3, <2>2 DEF PageInv, CredentialsTyping, AskedHere, ToldIsTrue
  <1>5. CASE ListAnswered
    <2>1. list' = [data |-> list.read, fetch |-> "no", read |-> NoData, stale |-> FALSE]
          /\ list.fetch = "read"
      BY <1>5 DEF ListAnswered, Fill
    <2>2. list' \in List /\ list'.fetch = "no" /\ list'.data = list.read
      BY <2>1 DEF PageInv, CredentialsTyping, List, Answers
    <2> QED BY <1>1, <2>1, <2>2 DEF PageInv, CredentialsTyping, AskedHere, ToldIsTrue
  <1>6. CASE ListFails \/ Refetch
    <2>1. /\ list' \in List /\ list'.data = list.data /\ list'.stale = list.stale
          /\ list'.fetch = "read" => list' = list
      BY <1>6, PageValues DEF ListFails, Refetch, PageInv, CredentialsTyping
    <2> QED BY <1>1, <2>1 DEF PageInv, CredentialsTyping, AskedHere, ToldIsTrue
  <1> QED BY <1>4, <1>5, <1>6 DEF ListStep

\* The answer of an issued credential only asks for the list again.
LEMMA IssueAnsweredKeepsPage ==
  ASSUME PageInv, IssueAnswered
  PROVE  CredentialsTyping' /\ AskedHere' /\ ToldIsTrue'
  <1> DEFINE i == Invalidate(list, page.open)
  <1>1. page.open \in BOOLEAN /\ list \in List
    BY DEF PageInv, CredentialsTyping, PageState
  <1>2. /\ list' = i /\ i \in List /\ i.data = list.data
        /\ list.stale => i.stale
        /\ i.fetch = "read" => list.fetch = "read" /\ i.read = list.read
    BY <1>1, InvalidateList DEF IssueAnswered
  <1> HIDE DEF i
  <1>3. /\ cred' = cred /\ revoke' = revoke /\ issue' = NoMutation /\ told' = told
        /\ page' = IF issue.here THEN [page EXCEPT !.form = FALSE, !.token = issue.on] ELSE page
    BY DEF IssueAnswered, Hub
  <1>4. /\ page' \in PageState /\ page'.open = page.open /\ page'.target = page.target
        /\ page'.error = page.error /\ (page' = page \/ ~page'.form)
    BY <1>3 DEF PageInv, CredentialsTyping, PageState, Mutation
  <1>5. CredentialsTyping'
    BY <1>2, <1>3, <1>4, PageValues DEF PageInv, CredentialsTyping
  <1>6. AskedHere' /\ ToldIsTrue'
    BY <1>2, <1>3, <1>4 DEF PageInv, AskedHere, ToldIsTrue, NoMutation
  <1> QED BY <1>5, <1>6

LEMMA OpenKeepsPage ==
  ASSUME PageInv, OpenPage
  PROVE  CredentialsTyping' /\ AskedHere' /\ ToldIsTrue'
  <1>1. /\ UNCHANGED <<cred, issue, revoke, told>> /\ ~page.open
        /\ page' = [Gone EXCEPT !.open = TRUE]
        /\ list' = list \/ list' = Fetch(list)
    BY DEF OpenPage, Hub, Mounted
  <1>2. /\ page' \in PageState /\ page'.open /\ page'.target = None
        /\ page'.token = None /\ ~page'.form
    BY <1>1 DEF Gone, PageState
  <1>3. /\ list' \in List /\ list'.data = list.data /\ list'.stale = list.stale
        /\ list'.fetch = "read" => list' = list
    BY <1>1, PageValues DEF PageInv, CredentialsTyping
  <1> QED BY <1>1, <1>2, <1>3 DEF PageInv, CredentialsTyping, AskedHere, ToldIsTrue

LEMMA LeaveKeepsPage ==
  ASSUME PageInv, LeavePage
  PROVE  CredentialsTyping' /\ AskedHere' /\ ToldIsTrue'
  <1>1. /\ UNCHANGED <<cred, list, told>> /\ page' = Gone
        /\ issue' = [issue EXCEPT !.here = FALSE]
        /\ revoke' = [v \in Revocations |-> [revoke[v] EXCEPT !.here = FALSE]]
    BY DEF LeavePage, NoneHere, Hub
  <1>2. issue' \in Mutation /\ ~issue'.here
    BY <1>1 DEF PageInv, CredentialsTyping, Mutation
  <1>3. \A v \in Revocations :
           /\ revoke'[v] \in Mutation /\ ~revoke'[v].here
           /\ revoke'[v].at = revoke[v].at /\ revoke'[v].on = revoke[v].on
    BY <1>1 DEF PageInv, CredentialsTyping, Mutation
  <1>4. CredentialsTyping'
    BY <1>1, <1>2, <1>3, PageValues DEF PageInv, CredentialsTyping
  <1>5. AskedHere'
    BY <1>1, <1>2, <1>3 DEF PageInv, AskedHere, Gone
  <1>6. ToldIsTrue'
    BY <1>1, <1>3 DEF PageInv, ToldIsTrue
  <1> QED BY <1>4, <1>5, <1>6

\* The steps of the dialogs leave the list and the revocations alone.
LEMMA DialogKeepsPage ==
  ASSUME PageInv,
         \/ ShowIssueForm \/ CloseIssueForm \/ SubmitIssue \/ IssueFails
         \/ DismissToken \/ CancelRevoke
         \/ \E c \in Credentials : AskRevoke(c)
  PROVE  CredentialsTyping' /\ AskedHere' /\ ToldIsTrue'
  <1>1. UNCHANGED <<cred, list, revoke, told>>
    BY DEF ShowIssueForm, CloseIssueForm, SubmitIssue, IssueFails, DismissToken, CancelRevoke,
           AskRevoke, Hub
  <1>2. issue' \in Mutation
    <2>1. CASE SubmitIssue
      <3>1. issue' = [at |-> "sent", on |-> None, here |-> TRUE]
        BY <2>1 DEF SubmitIssue
      <3> QED BY <3>1 DEF Mutation
    <2>2. CASE issue' = NoMutation \/ issue' = issue
      BY <2>2, PageValues DEF PageInv, CredentialsTyping
    <2> QED BY <2>1, <2>2 DEF IssueFails, ShowIssueForm, CloseIssueForm, DismissToken,
               CancelRevoke, AskRevoke
  <1>3. page' \in PageState
    BY DEF PageInv, CredentialsTyping, PageState, Mutation, ShowIssueForm, CloseIssueForm,
       SubmitIssue, IssueFails, DismissToken, CancelRevoke, AskRevoke
  <1>4. ToldIsTrue'
    BY <1>1 DEF PageInv, ToldIsTrue
  <1>5. AskedHere'
    <2>1. CASE ShowIssueForm \/ CloseIssueForm \/ DismissToken \/ CancelRevoke
      BY <1>1, <2>1 DEF ShowIssueForm, CloseIssueForm, DismissToken, CancelRevoke,
                        PageInv, CredentialsTyping, PageState, AskedHere
    <2>2. CASE SubmitIssue \/ IssueFails
      BY <1>1, <2>2 DEF SubmitIssue, IssueFails, NoMutation, PageInv, CredentialsTyping,
                        PageState, AskedHere
    <2>3. ASSUME NEW c \in Credentials, AskRevoke(c)
          PROVE  AskedHere'
      BY <1>1, <2>3 DEF AskRevoke, PageInv, CredentialsTyping, PageState, AskedHere
    <2> QED BY <2>1, <2>2, <2>3
  <1> QED BY <1>1, <1>2, <1>3, <1>4, <1>5 DEF PageInv, CredentialsTyping

LEMMA HubIssuesKeepsPage ==
  ASSUME PageInv, AccessInv', HubIssues
  PROVE  CredentialsTyping' /\ AskedHere' /\ ToldIsTrue'
  <1>1. PICK c \in Credentials, m \in Machines :
          IssueCredential(c, m) /\ issue' = [issue EXCEPT !.at = "done", !.on = c]
    BY DEF HubIssues
  <1>2. UNCHANGED <<page, list, revoke, told>> /\ issue.at = "sent"
    BY DEF HubIssues
  <1>3. \A d \in Credentials : cred[d].status = "revoked" => cred'[d].status = "revoked"
    BY <1>1 DEF IssueCredential, NoCredential, PageInv, AccessInv, AccessTyping
  <1>4. issue' \in Mutation /\ issue'.at = "done" /\ issue'.here = issue.here
    BY <1>1 DEF PageInv, CredentialsTyping, Mutation
  <1>5. CredentialsTyping' /\ AskedHere'
    BY <1>2, <1>4 DEF PageInv, CredentialsTyping, AskedHere
  <1>6. ToldIsTrue'
    BY <1>2, <1>3 DEF PageInv, CredentialsTyping, AskedHere, ToldIsTrue
  <1> QED BY <1>5, <1>6

LEMMA HubRevokesKeepsPage ==
  ASSUME PageInv, NEW v \in Revocations, HubRevokes(v)
  PROVE  CredentialsTyping' /\ AskedHere' /\ ToldIsTrue'
  <1>1. /\ UNCHANGED <<page, list, issue, told>> /\ revoke[v].at = "sent"
        /\ revoke[v].on \in Credentials
        /\ cred' = [cred EXCEPT ![revoke[v].on].status = "revoked"]
        /\ revoke' = [revoke EXCEPT ![v].at = "done"]
    BY DEF HubRevokes, RevokeCredential, PageInv, AskedHere
  <1>2. /\ cred'[revoke[v].on].status = "revoked"
        /\ \A c \in Credentials : cred[c].status = "revoked" => cred'[c].status = "revoked"
    BY <1>1 DEF PageInv, AccessInv, AccessTyping, Document
  <1>3. /\ revoke' \in [Revocations -> Mutation]
        /\ \A w \in Revocations :
             /\ revoke'[w].on = revoke[w].on /\ revoke'[w].here = revoke[w].here
             /\ w # v => revoke'[w] = revoke[w]
    BY <1>1 DEF PageInv, CredentialsTyping, Mutation
  <1>4. CredentialsTyping' /\ AskedHere'
    BY <1>1, <1>3 DEF PageInv, CredentialsTyping, AskedHere
  <1>5. ToldIsTrue'
    BY <1>1, <1>2, <1>3 DEF PageInv, CredentialsTyping, AskedHere, ToldIsTrue
  <1> QED BY <1>4, <1>5

LEMMA NextPage ==
  ASSUME PageInv, [Next]_vars
  PROVE  PageInv'
  <1>0. AccessInv'
    BY NextAccess DEF PageInv
  <1>1. CASE OtherAdmin
    <2>1. DocumentsGrow /\ UNCHANGED Page
      BY <1>1, IssueGrows, RevokeGrows DEF OtherAdmin, PageInv
    <2> QED BY <1>0, <2>1, HubKeepsPage
  <1>2. ASSUME NEW q \in Requests, AgentStep(q)
        PROVE  PageInv'
    <2>1. UNCHANGED cred /\ UNCHANGED Page
      BY <1>2 DEF AgentStep, AgentSends, RequireAgentToken, Handle, Page
    <2>2. DocumentsGrow
      BY <2>1, AgentsGrowDocuments DEF PageInv
    <2> QED BY <1>0, <2>1, <2>2, HubKeepsPage
  <1>3. CASE UNCHANGED vars
    <2>1. DocumentsGrow /\ UNCHANGED Page
      BY <1>3, AgentsGrowDocuments DEF vars, Page, PageInv
    <2> QED BY <1>0, <2>1, HubKeepsPage
  <1>4. CASE PageStep
    <2>1. CredentialsTyping' /\ AskedHere' /\ ToldIsTrue'
      BY <1>0, <1>4, OpenKeepsPage, LeaveKeepsPage, DialogKeepsPage, ListKeepsPage,
         IssueAnsweredKeepsPage, HubIssuesKeepsPage, HubRevokesKeepsPage,
         RevokeAnsweredKeepsPage, RevokeKeepsPage DEF PageStep, RevokeStep
    <2> QED BY <1>0, <2>1 DEF PageInv
  <1> QED BY <1>1, <1>2, <1>3, <1>4 DEF Next

\* Once the page has reported a revocation it does not show the credential as
\* active again, unless a newer list is on its way or could not be fetched, whatever
\* other administrators do and however many revocations overlap, and though answers
\* are lost and the page is left and opened again (AgentCredentialsPage.tsx:129-137).
THEOREM ToldIsAlwaysShown == AccessSpec => []ToldIsShown
  <1>1. PageInv => ToldIsShown
    BY DEF PageInv, ToldIsTrue, CredentialsTyping, ToldIsShown
  <1> QED BY <1>1, InitPage, NextPage, PTL DEF AccessSpec

\* The end of an issue mutation that its page has not left shows the token or leaves
\* an error in the form, which is shown at once or when the form is next opened; a
\* token on display stays until it is dismissed (AgentCredentialsPage.tsx:91-96, 119,
\* 230).
THEOREM TokensAreNotLost == AccessSpec => NoTokenIsLost
  <1> DEFINE Lossless ==
               /\ issue.here /\ issue'.at = "no" =>
                    page'.token = issue.on \/ (page'.error /\ (page.form => page'.form))
               /\ page.error /\ page'.open => page'.error \/ page.form
               /\ page.token # None => page'.token \in {page.token, None}
  <1>1. ASSUME PageInv, [Next]_vars
        PROVE  Lossless
    <2>1. page \in PageState /\ issue \in Mutation /\ (issue.at = "no" => ~issue.here)
      BY <1>1 DEF PageInv, AskedHere, CredentialsTyping
    <2>2. CASE IssueAnswered
      <3>1. page.token # None => ~issue.here
        BY <1>1 DEF PageInv, AskedHere
      <3> QED BY <2>1, <2>2, <3>1 DEF IssueAnswered, PageState
    <2>3. CASE IssueFails
      BY <2>1, <2>3 DEF IssueFails, PageState
    <2>4. CASE LeavePage
      BY <2>1, <2>4 DEF LeavePage, Mutation, Gone
    <2>5. CASE SubmitIssue \/ HubIssues
      BY <2>1, <2>5 DEF SubmitIssue, HubIssues, Mutation, PageState
    <2>6. CASE OpenPage
      <3>1. ~page.open /\ page' = [Gone EXCEPT !.open = TRUE] /\ issue' = issue
        BY <2>6 DEF OpenPage
      <3>2. page.token # None => page'.token = None
        BY <3>1 DEF Gone
      <3> QED BY <1>1, <2>1, <3>1, <3>2 DEF Gone, PageInv, AskedHere
    <2>8. ASSUME NEW v \in Revocations, RevokeStep(v)
          PROVE  Lossless
      BY <2>1, <2>8 DEF RevokeStep, ConfirmRevoke, HubRevokes, RevokeAnswered, RevokeFails,
                        PageState
    <2>9. ASSUME NEW c \in Credentials, AskRevoke(c)
          PROVE  Lossless
      BY <2>1, <2>9 DEF AskRevoke, PageState
    <2>10. CASE ShowIssueForm \/ CloseIssueForm \/ DismissToken \/ CancelRevoke
      BY <2>1, <2>10 DEF ShowIssueForm, CloseIssueForm, DismissToken, CancelRevoke, PageState
    <2>7. CASE UNCHANGED <<page, issue>>
      BY <2>1, <2>7
    <2> QED BY <1>1, <2>2, <2>3, <2>4, <2>5, <2>6, <2>7, <2>8, <2>9, <2>10
            DEF Next, vars, OtherAdmin, Page, PageStep, AgentStep, AgentSends,
                RequireAgentToken, Handle, ListStep, ListIsRead, ListAnswered, ListFails,
                Refetch
  <1>2. PageInv /\ [Next]_vars => [Lossless]_<<issue, page>>
    BY <1>1
  <1> QED BY <1>2, InitPage, NextPage, PTL DEF AccessSpec, NoTokenIsLost
=============================================================================
