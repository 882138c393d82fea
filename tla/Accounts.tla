------------------------------ MODULE Accounts ------------------------------
(***************************************************************************)
(* Accounts of internal/identity and the Google sign-in that finds, links  *)
(* or creates one: the OAuth state cookie of each flow, the resolution of  *)
(* a verified Google identity to a user, and password registration beside  *)
(* it.  Every SQL statement is a step; creating a user with its identity   *)
(* is the one transaction, whose rows nobody sees until the commit and     *)
(* whose unique keys others wait for.  The session a sign-in ends with is  *)
(* the subject of Sessions.tla.                                            *)
(***************************************************************************)
EXTENDS Integers, FiniteSets

CONSTANTS
    Browsers, Calls,
    States,           \* the random state values that Start mints
    Subjects,         \* Google accounts
    Emails,           \* normalized addresses
    Users,            \* ids of users
    Claims,           \* what Google's identity tokens may assert
    Absent,           \* no row, no cookie, no value yet
    StateLifetime,
    MaxTime,          \* bound: the clock
    Faults            \* which of "fail", "disable" may happen

ASSUME ClaimsAreClaims ==
    Claims \subseteq [subject : Subjects, email : Emails, verified : BOOLEAN]
ASSUME AbsentIsNoValue == Absent \notin States \cup Subjects \cup Emails \cup Users
ASSUME TimesAreNatural == StateLifetime \in Nat /\ MaxTime \in Nat
ASSUME KnownFaults == Faults \subseteq {"fail", "disable"}

VARIABLES
    users,        \* Users -> User or Absent
    identities,   \* the committed rows of user_identities
    minted,       \* States -> the flow a state value was minted for, or Absent
    shown,        \* the state values that have reached their browser
    jar,          \* Browsers -> the bk_oauth_state cookie
    calls,        \* Calls -> a running request's locals, or its answer
    now,
    sessions,     \* history: who was signed in, and by which Google account
    closed        \* history: the flows whose callback the browser saw answered

vars == <<users, identities, minted, shown, jar, calls, now, sessions, closed>>

-----------------------------------------------------------------------------
User == [email : Emails, password : BOOLEAN, status : {"ACTIVE", "DISABLED"}]

Identity == [user : Users, subject : Subjects, email : Emails]

Flow == [browser : Browsers, expires : Nat]

ASSUME AbsentIsNothing == Absent \notin User \cup Flow

\* "byId known" and "byId moved": the stored email of the identity that was
\* found is, or is not, the one just asserted.
ResolvePCs == {"exchange", "subject", "byId known", "byId moved", "touch", "byEmail",
               "link", "user", "identity", "commit", "issue"}

Call == [pc : ResolvePCs \cup {"register"}, browser : Browsers \cup {Absent},
         state : States \cup {Absent}, subject : Subjects \cup {Absent},
         email : Emails \cup {Absent}, user : Users \cup {Absent},
         barred : SUBSET Users]   \* history: who was disabled when it began

Codes == {"OK", "OAUTH_EXCHANGE_FAILED", "OAUTH_EMAIL_UNVERIFIED", "OAUTH_INVALID_IDENTITY_TOKEN",
          "INVALID_CREDENTIALS", "EXTERNAL_IDENTITY_CONFLICT",
          "USER_ALREADY_EXISTS", "INTERNAL_ERROR"}

\* cookie holds what the answer's Set-Cookie header, if any, sets.  The code
\* in its redirect or body is shown and kept nowhere.
Reply == [pc : {"done"}, browser : Browsers \cup {Absent},
          state : States \cup {Absent}, cookie : SUBSET (States \cup {Absent})]

Idle == [pc |-> "idle"]

At(r, pc) == calls[r].pc = pc

Running(r) == calls[r].pc \notin {"idle", "done"}

Goto(r, call) == calls' = [calls EXCEPT ![r] = call]

Exists(u) == users[u] # Absent

Disabled == { u \in Users : Exists(u) /\ users[u].status = "DISABLED" }

Done(b, t, cookie) == [pc |-> "done", browser |-> b, state |-> t, cookie |-> cookie]

\* Mutant: only a successful callback clears the cookie.
AnswerClearingOnSuccess(r, code) ==
    /\ code \in Codes
    /\ Goto(r, Done(calls[r].browser, calls[r].state,
                    IF calls[r].state = Absent \/ code # "OK" THEN {} ELSE {Absent}))

\* Every exit of a callback clears the state cookie; a registration has none.
Answer(r, code) ==
    /\ code \in Codes
    /\ Goto(r, Done(calls[r].browser, calls[r].state,
                    IF calls[r].state = Absent THEN {} ELSE {Absent}))

\* Keys of rows that an open transaction has inserted.
PendingUser(u) == \E q \in Calls : calls[q].pc \in {"identity", "commit"} /\ calls[q].user = u

PendingEmail(e) == \E q \in Calls : calls[q].pc \in {"identity", "commit"} /\ calls[q].email = e

PendingSubject(g) == \E q \in Calls : At(q, "commit") /\ calls[q].subject = g

EmailTaken(e) == \E u \in Users : Exists(u) /\ users[u].email = e

\* Mutant: only the (provider, provider_subject) constraint remains.
LinkTakenBySubject(g, u) == \E i \in identities : i.subject = g

\* The two unique constraints of user_identities.
LinkTaken(g, u) == \E i \in identities : i.subject = g \/ i.user = u

Row(u, g, e) == [user |-> u, subject |-> g, email |-> e]

-----------------------------------------------------------------------------
Init ==
    /\ users = [u \in Users |-> Absent]
    /\ identities = {}
    /\ minted = [t \in States |-> Absent]
    /\ shown = {}
    /\ jar = [b \in Browsers |-> Absent]
    /\ calls = [r \in Calls |-> Idle]
    /\ now = 0
    /\ sessions = {}
    /\ closed = {}

\* Start mints a state value, and answers with the cookie and the redirect.
Start(r, b, t) ==
    /\ At(r, "idle") /\ minted[t] = Absent
    /\ minted' = [minted EXCEPT ![t] = [browser |-> b, expires |-> now + StateLifetime]]
    /\ Goto(r, Done(b, t, {t}))
    /\ UNCHANGED <<users, identities, shown, jar, now, sessions, closed>>

\* Mutant: the state parameter is not compared with the cookie.
ValidStateByExpiry(b, t) == jar[b] # Absent /\ now < minted[t].expires

ValidState(b, t) == jar[b] = t /\ now < minted[t].expires

\* A callback's URL carries the state of some flow, and an error or a code.
\* With an error it is refused unseen, with another browser's or an expired
\* state it is invalid; both clear the cookie.
Callback(r, b, t) ==
    /\ At(r, "idle") /\ t \in shown
    /\ \/ Goto(r, Done(b, t, {Absent}))
       \/ ValidState(b, t) /\ Goto(r, [pc |-> "exchange", browser |-> b, state |-> t,
                subject |-> Absent, email |-> Absent, user |-> Absent,
                barred |-> Disabled])
    /\ UNCHANGED <<users, identities, minted, shown, jar, now, sessions, closed>>

\* Google redeems the code for an identity token, or does not.
Exchange(r) ==
    /\ At(r, "exchange")
    /\ \/ \E code \in {"OAUTH_EXCHANGE_FAILED", "OAUTH_INVALID_IDENTITY_TOKEN"} : Answer(r, code)
       \/ \E c \in Claims :
             \/ ~c.verified /\ Answer(r, "OAUTH_EMAIL_UNVERIFIED")
             \/ c.verified /\ Goto(r, [calls[r] EXCEPT !.pc = "subject",
                                            !.subject = c.subject, !.email = c.email])
    /\ UNCHANGED <<users, identities, minted, shown, jar, now, sessions, closed>>

FindByProviderSubject(r) ==
    /\ At(r, "subject")
    /\ \/ \E i \in identities : i.subject = calls[r].subject
             /\ Goto(r, [calls[r] EXCEPT !.user = i.user,
                          !.pc = IF i.email = calls[r].email THEN "byId known" ELSE "byId moved"])
       \/ /\ \A i \in identities : i.subject # calls[r].subject
          /\ Goto(r, [calls[r] EXCEPT !.pc = "byEmail"])
    /\ UNCHANGED <<users, identities, minted, shown, jar, now, sessions, closed>>

\* The subject decides: a known one is its user, whatever its email is now.
ActiveUserByID(r) ==
    /\ At(r, "byId known") \/ At(r, "byId moved")
    /\ LET active == users[calls[r].user].status = "ACTIVE" IN
       \/ ~active /\ Answer(r, "INVALID_CREDENTIALS")
       \/ active /\ At(r, "byId known") /\ Goto(r, [calls[r] EXCEPT !.pc = "issue", !.email = Absent])
       \/ active /\ At(r, "byId moved") /\ Goto(r, [calls[r] EXCEPT !.pc = "touch"])
    /\ UNCHANGED <<users, identities, minted, shown, jar, now, sessions, closed>>

\* Best effort: the sign-in goes on whether or not the email is refreshed.
UpdateProviderEmail(r) ==
    /\ At(r, "touch")
    /\ LET g == calls[r].subject
           others == { i \in identities : i.subject # g } IN
       \/ identities' = others \cup { Row(i.user, g, calls[r].email) : i \in identities \ others }
       \/ "fail" \in Faults /\ UNCHANGED identities
    /\ Goto(r, [calls[r] EXCEPT !.pc = "issue", !.email = Absent])
    /\ UNCHANGED <<users, minted, shown, jar, now, sessions, closed>>

\* Mutant: an account to link is not looked at for being disabled.
FindByEmailAnyStatus(r) ==
    /\ At(r, "byEmail")
    /\ \/ \E u \in Users : /\ Exists(u) /\ users[u].email = calls[r].email
                           /\ Goto(r, [calls[r] EXCEPT !.pc = "link", !.user = u])
       \/ ~EmailTaken(calls[r].email) /\ Goto(r, [calls[r] EXCEPT !.pc = "user", !.barred = {}])
    /\ UNCHANGED <<users, identities, minted, shown, jar, now, sessions, closed>>

FindByEmail(r) ==
    /\ At(r, "byEmail")
    /\ \/ \E u \in Users :
             /\ Exists(u) /\ users[u].email = calls[r].email
             /\ \/ users[u].status # "ACTIVE" /\ Answer(r, "INVALID_CREDENTIALS")
                \/ /\ users[u].status = "ACTIVE"
                   /\ Goto(r, [calls[r] EXCEPT !.pc = "link", !.user = u])
       \/ ~EmailTaken(calls[r].email) /\ Goto(r, [calls[r] EXCEPT !.pc = "user", !.barred = {}])
    /\ UNCHANGED <<users, identities, minted, shown, jar, now, sessions, closed>>

\* Mutant: ON CONFLICT DO NOTHING, and the sign-in goes on.
LinkExistingUserOrNot(r) ==
    /\ At(r, "link") /\ ~PendingSubject(calls[r].subject)
    /\ identities' = IF LinkTaken(calls[r].subject, calls[r].user) THEN identities
                     ELSE identities \cup {Row(calls[r].user, calls[r].subject, calls[r].email)}
    /\ Goto(r, [calls[r] EXCEPT !.pc = "issue", !.email = Absent])
    /\ UNCHANGED <<users, minted, shown, jar, now, sessions, closed>>

LinkExistingUser(r) ==
    /\ At(r, "link") /\ ~PendingSubject(calls[r].subject)
    /\ LET g == calls[r].subject
           u == calls[r].user IN
       \/ /\ LinkTaken(g, u)
          /\ Answer(r, "EXTERNAL_IDENTITY_CONFLICT") /\ UNCHANGED identities
       \/ /\ ~LinkTaken(g, u)
          /\ identities' = identities \cup {Row(u, g, calls[r].email)}
          /\ Goto(r, [calls[r] EXCEPT !.pc = "issue", !.email = Absent])
    /\ UNCHANGED <<users, minted, shown, jar, now, sessions, closed>>

\* The transaction's first insert, which waits for another one's address.
InsertUser(r) ==
    /\ At(r, "user") /\ ~PendingEmail(calls[r].email)
    /\ \/ EmailTaken(calls[r].email) /\ Answer(r, "USER_ALREADY_EXISTS")
       \/ \E u \in Users :
             /\ ~EmailTaken(calls[r].email) /\ ~Exists(u) /\ ~PendingUser(u)
             /\ Goto(r, [calls[r] EXCEPT !.pc = "identity", !.user = u])
    /\ UNCHANGED <<users, identities, minted, shown, jar, now, sessions, closed>>

\* The second; a conflict rolls the user back with it.
InsertIdentity(r) ==
    /\ At(r, "identity") /\ ~PendingSubject(calls[r].subject)
    /\ \/ LinkTaken(calls[r].subject, calls[r].user) /\ Answer(r, "EXTERNAL_IDENTITY_CONFLICT")
       \/ /\ ~LinkTaken(calls[r].subject, calls[r].user)
          /\ Goto(r, [calls[r] EXCEPT !.pc = "commit"])
    /\ UNCHANGED <<users, identities, minted, shown, jar, now, sessions, closed>>

\* The commit makes both rows visible; its own answer may get lost.
Commit(r) ==
    /\ At(r, "commit")
    /\ LET u == calls[r].user IN
       /\ users' = [users EXCEPT ![u] = [email |-> calls[r].email, password |-> FALSE,
                                         status |-> "ACTIVE"]]
       /\ identities' = identities \cup {Row(u, calls[r].subject, calls[r].email)}
    /\ \/ Goto(r, [calls[r] EXCEPT !.pc = "issue", !.email = Absent])
       \/ "fail" \in Faults /\ Answer(r, "INTERNAL_ERROR")
    /\ UNCHANGED <<minted, shown, jar, now, sessions, closed>>

IssueForUser(r) ==
    /\ At(r, "issue")
    /\ sessions' = sessions \cup {[subject |-> calls[r].subject, user |-> calls[r].user]}
    /\ Answer(r, "OK")
    /\ UNCHANGED <<users, identities, minted, shown, jar, now, closed>>

(***************************************************************************)
(* Registration with a password: one insert.                               *)
(***************************************************************************)
CallCreateUser(r, e) ==
    /\ At(r, "idle")
    /\ Goto(r, [pc |-> "register", browser |-> Absent, state |-> Absent, subject |-> Absent,
                email |-> e, user |-> Absent, barred |-> {}])
    /\ UNCHANGED <<users, identities, minted, shown, jar, now, sessions, closed>>

CreateUser(r) ==
    /\ At(r, "register") /\ ~PendingEmail(calls[r].email)
    /\ \/ EmailTaken(calls[r].email) /\ Answer(r, "USER_ALREADY_EXISTS") /\ UNCHANGED users
       \/ \E u \in Users :
             /\ ~EmailTaken(calls[r].email) /\ ~Exists(u) /\ ~PendingUser(u)
             /\ users' = [users EXCEPT ![u] =
                            [email |-> calls[r].email, password |-> TRUE, status |-> "ACTIVE"]]
             /\ Answer(r, "OK")
    /\ UNCHANGED <<identities, minted, shown, jar, now, sessions, closed>>

-----------------------------------------------------------------------------
\* A statement fails, or the client has gone: an open transaction rolls
\* back.  activeUserByID reports any failure as bad credentials.
Fail(r) ==
    /\ "fail" \in Faults /\ Running(r) /\ ~At(r, "exchange")
    /\ Answer(r, IF calls[r].pc \in {"byId known", "byId moved"} THEN "INVALID_CREDENTIALS" ELSE "INTERNAL_ERROR")
    /\ UNCHANGED <<users, identities, minted, shown, jar, now, sessions, closed>>

\* The browser applies an answer; those of concurrent requests arrive in
\* any order, and one that is lost is never delivered.  Start's also shows
\* the state, in the redirect's URL.
Deliver(r) ==
    /\ At(r, "done")
    /\ LET a == calls[r]
           starting == a.cookie = {a.state} IN
       /\ \/ a.cookie = {} /\ UNCHANGED jar
          \/ \E c \in a.cookie : jar' = [jar EXCEPT ![a.browser] = c]
       /\ shown' = IF a.state # Absent /\ starting THEN shown \cup {a.state} ELSE shown
       /\ closed' = closed \cup
             { t \in States : t = a.state /\ ~starting /\ minted[t].browser = a.browser }
    /\ Goto(r, Idle)
    /\ UNCHANGED <<users, identities, minted, now, sessions>>

\* No code in the repository changes a user's status after creation.
Disable(u) ==
    /\ "disable" \in Faults /\ Exists(u) /\ users[u].status = "ACTIVE"
    /\ users' = [users EXCEPT ![u].status = "DISABLED"]
    /\ UNCHANGED <<identities, minted, shown, jar, calls, now, sessions, closed>>

Tick ==
    /\ now < MaxTime
    /\ now' = now + 1
    /\ UNCHANGED <<users, identities, minted, shown, jar, calls, sessions, closed>>

Step(r) ==
    \/ Exchange(r) \/ FindByProviderSubject(r) \/ ActiveUserByID(r)
    \/ UpdateProviderEmail(r) \/ FindByEmail(r) \/ LinkExistingUser(r)
    \/ InsertUser(r) \/ InsertIdentity(r) \/ Commit(r) \/ IssueForUser(r)
    \/ CreateUser(r)

Next ==
    \/ \E r \in Calls :
         \/ Step(r) \/ Fail(r) \/ Deliver(r)
         \/ \E b \in Browsers, t \in States : Start(r, b, t) \/ Callback(r, b, t)
         \/ \E e \in Emails : CallCreateUser(r, e)
    \/ \E u \in Users : Disable(u)
    \/ Tick

Spec == Init /\ [][Next]_vars

-----------------------------------------------------------------------------
(***************************************************************************)
(* Properties.  The conjuncts of IInv are an inductive invariant.          *)
(***************************************************************************)
TypeOK ==
    /\ users \in [Users -> User \cup {Absent}]
    /\ identities \subseteq Identity
    /\ minted \in [States -> Flow \cup {Absent}]
    /\ shown \subseteq States
    /\ jar \in [Browsers -> States \cup {Absent}]
    /\ calls \in [Calls -> Call \cup Reply \cup {Idle}]
    /\ now \in Nat
    /\ sessions \subseteq [subject : Subjects, user : Users]
    /\ closed \subseteq States

\* No address and no Google account is shared, and no user has two links.
KeysAreUnique ==
    /\ \A u, v \in Users : Exists(u) /\ Exists(v) /\ users[u].email = users[v].email => u = v
    /\ \A i, j \in identities : i.subject = j.subject \/ i.user = j.user => i = j
    /\ \A i \in identities : Exists(i.user)

Linked(g, u) == \E i \in identities : i.subject = g /\ i.user = u

\* What an open transaction has inserted nobody else has.
PendingIsFree ==
    \A r \in Calls : calls[r].pc \in {"identity", "commit"} =>
        /\ ~Exists(calls[r].user) /\ ~EmailTaken(calls[r].email)
        /\ At(r, "commit") => ~LinkTaken(calls[r].subject, calls[r].user)
        /\ \A q \in Calls \ {r} : calls[q].pc \in {"identity", "commit"} =>
              /\ calls[q].user # calls[r].user
              /\ calls[q].email # calls[r].email
              /\ At(r, "commit") /\ At(q, "commit") => calls[q].subject # calls[r].subject

\* What a running call has read or been given so far, and that it still is
\* so.  A flow goes on only in the browser it was started for, and no call
\* signs in a user who was disabled when it began.
LocalsOK(r) ==
    /\ calls[r].pc \in ResolvePCs => calls[r].state \in shown
                                     /\ minted[calls[r].state].browser = calls[r].browser
    /\ calls[r].pc \in ResolvePCs \ {"exchange"} => calls[r].subject \in Subjects
    /\ calls[r].pc \in ResolvePCs \ {"exchange", "issue"} => calls[r].email \in Emails
    /\ At(r, "register") => calls[r].email \in Emails /\ calls[r].state = Absent
    /\ calls[r].pc \in {"byId known", "byId moved", "touch", "link", "identity", "commit", "issue"} =>
          calls[r].user \in Users
    /\ At(r, "link") => Exists(calls[r].user)
    /\ calls[r].pc \in {"byId known", "byId moved", "touch", "issue"} => Linked(calls[r].subject, calls[r].user)
    /\ calls[r].pc \in {"touch", "link", "issue"} => calls[r].user \notin calls[r].barred
    /\ Running(r) => calls[r].barred \subseteq Disabled

\* A cookie is a state that was shown to its browser, and a state on its
\* way to one has not been shown.  An answer sets a state that was minted for
\* it, clears the cookie of a flow that was shown, or leaves cookies alone.
CookiesAreMinted ==
    /\ \A t \in shown : minted[t] # Absent
    /\ \A b \in Browsers : jar[b] # Absent => jar[b] \in shown /\ minted[jar[b]].browser = b
    /\ \A r \in Calls : At(r, "done") =>
          \/ calls[r].state = Absent /\ calls[r].cookie = {}
          \/ calls[r].state \in shown /\ calls[r].cookie = {Absent}
          \/ calls[r].state \in States /\ calls[r].cookie = {calls[r].state}
             /\ minted[calls[r].state] # Absent
    /\ \A r \in Calls : At(r, "done") /\ calls[r].state # Absent
                        /\ calls[r].cookie = {calls[r].state} =>
          /\ calls[r].state \notin shown
          /\ minted[calls[r].state].browser = calls[r].browser
          /\ \A q \in Calls \ {r} : At(q, "done") => calls[q].state # calls[r].state

\* A user without a password is linked: a row that nobody could ever sign in
\* to is not left behind, whatever fails on the way.
NoOrphan ==
    \A u \in Users : Exists(u) /\ ~users[u].password =>
        \E i \in identities : i.user = u

\* Everybody a Google account was ever signed in as is the user it is linked
\* to now: an account's email may move to another user, its sign-in never.
SignInIsLinked == \A s \in sessions : Linked(s.subject, s.user)

\* A browser that saw a flow's callback answered holds its state no more.
ClosedIsCleared ==
    \A t \in closed : t \in shown /\ \A b \in Browsers : jar[b] # t

IInv ==
    /\ TypeOK
    /\ KeysAreUnique
    /\ PendingIsFree
    /\ \A r \in Calls : LocalsOK(r)
    /\ CookiesAreMinted
    /\ NoOrphan
    /\ SignInIsLinked
    /\ ClosedIsCleared

\* A callback URL is single-use: a flow whose callback the browser has seen
\* answered, well or badly, is never accepted again.
SingleUse ==
    [][\A r \in Calls : At(r, "idle") /\ At(r, "exchange")' =>
          calls'[r].state \notin closed]_vars

=============================================================================
