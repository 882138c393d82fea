------------------------------ MODULE Sessions ------------------------------
(***************************************************************************)
(* Sign-in sessions of internal/identity: login, refresh with a rotating   *)
(* single-use credential, logout behind the auth middleware, and what the  *)
(* browser's cookie jar holds meanwhile.  Every SQL statement is a step;   *)
(* the rotation is the one transaction, and holds its row's lock between   *)
(* the SELECT ... FOR UPDATE and the commit.                               *)
(***************************************************************************)
EXTENDS Integers, FiniteSets

CONSTANTS
    Users, Browsers, SessionIds, Calls,
    Tokens,           \* refresh credentials; a hash stands for its credential
    Absent,           \* no row, no cookie, no lock holder
    SessionLifetime, AccessLifetime,
    MaxTime,          \* bound: the clock
    Faults            \* which of "fail", "lose", "disable" may happen

ASSUME AbsentIsNothing ==
    Absent \notin SessionIds \cup Tokens \cup Calls \cup Users
ASSUME TimesAreNat ==
    /\ SessionLifetime \in Nat /\ AccessLifetime \in Nat /\ MaxTime \in Nat
ASSUME FaultsAreKnown == Faults \subseteq {"fail", "lose", "disable"}

VARIABLES
    users,      \* Users -> status
    sessions,   \* SessionIds -> Session or Absent
    locks,      \* SessionIds -> the call whose transaction locks the row
    cookies,    \* Browsers -> the bk_refresh cookie
    access,     \* Browsers -> the last access token its page received
    calls,      \* Calls -> a running request's locals, or its answer
    now,
    issued,     \* every credential generated so far
    spent,      \* history: the credentials a rotation has replaced
    lost        \* history: the browsers that missed an answer

vars == <<users, sessions, locks, cookies, access, calls, now, issued, spent, lost>>

-----------------------------------------------------------------------------
Session == [user : Users, token : Tokens, expires : Int, revoked : BOOLEAN]

ASSUME AbsentIsNoRow == Absent \notin Session

Access == [user : Users, session : SessionIds, expires : Int]

RefreshPCs == {"select", "update", "expiry", "user"}

Call == [pc : RefreshPCs \cup {"create", "revoke"}, browser : Browsers,
         user : Users \cup {Absent}, session : SessionIds \cup {Absent},
         presented : Tokens \cup {Absent}, fresh : Tokens \cup {Absent},
         at : Int,       \* the clock as the call read it
         until : Int]    \* the expiry of the access token it has issued

Codes == {"OK", "INVALID_CREDENTIALS", "SESSION_EXPIRED", "SESSION_REVOKED", "INTERNAL_ERROR"}

\* cookies holds what the answer's Set-Cookie header, if any, sets.
Reply == [pc : {"done"}, code : Codes, browser : Browsers,
          session : SessionIds \cup {Absent},
          cookies : SUBSET (Tokens \cup {Absent}), access : Access \cup {Absent}]

Idle == [pc |-> "idle"]

Running(r) == calls[r].pc \notin {"idle", "done"}

At(r, pc) == calls[r].pc = pc

Goto(r, call) == calls' = [calls EXCEPT ![r] = call]

Answer(r, code, browser, session, set, token) ==
    calls' = [calls EXCEPT ![r] =
        [pc |-> "done", code |-> code, browser |-> browser, session |-> session,
         cookies |-> set, access |-> token]]

\* Mutant: a refused refresh leaves the cookie alone.
RefuseRefreshKeepingCookie(r, code, session) ==
    Answer(r, code, calls[r].browser, session, {}, Absent)

\* A failed refresh clears the cookie, whatever the failure was.
RefuseRefresh(r, code, session) ==
    Answer(r, code, calls[r].browser, session, {Absent}, Absent)

Exists(s) == sessions[s] # Absent

Holds(s, t) == Exists(s) /\ sessions[s].token = t

\* Mutant: revocation is not looked at.
UsableIfRevoked(s, at) == Exists(s) /\ at < sessions[s].expires

Usable(s, at) ==
    Exists(s) /\ ~sessions[s].revoked /\ at < sessions[s].expires

Fresh == Tokens \ issued

-----------------------------------------------------------------------------
Init ==
    /\ users = [u \in Users |-> "ACTIVE"]
    /\ sessions = [s \in SessionIds |-> Absent]
    /\ locks = [s \in SessionIds |-> Absent]
    /\ cookies = [b \in Browsers |-> Absent]
    /\ access = [b \in Browsers |-> Absent]
    /\ calls = [r \in Calls |-> Idle]
    /\ now = 0
    /\ issued = {}
    /\ spent = {}
    /\ lost = {}

(***************************************************************************)
(* Refresh: the handler reads the cookie, the service generates the next   *)
(* credential and reads the clock, and Rotate is one transaction.          *)
(***************************************************************************)
CallRefresh(r, b) ==
    /\ At(r, "idle")
    /\ \/ /\ cookies[b] = Absent
          /\ Answer(r, "INVALID_CREDENTIALS", b, Absent, {}, Absent)
          /\ UNCHANGED issued
       \/ /\ cookies[b] # Absent
          /\ \E t \in Fresh :
               /\ Goto(r, [pc |-> "select", browser |-> b, user |-> Absent,
                           session |-> Absent, presented |-> cookies[b], fresh |-> t,
                           at |-> now, until |-> now])
               /\ issued' = issued \cup {t}
    /\ UNCHANGED <<users, sessions, locks, cookies, access, now, spent, lost>>

NoSuchCredential(r) ==
    /\ At(r, "select")
    /\ \A s \in SessionIds : ~Holds(s, calls[r].presented)
    /\ RefuseRefresh(r, "INVALID_CREDENTIALS", Absent)
    /\ UNCHANGED <<users, sessions, locks, cookies, access, now, issued, spent, lost>>

\* Mutant: the refusing path returns without the deferred rollback.
RefuseRotationWithoutRollback(r, s) ==
    /\ At(r, "select") /\ Holds(s, calls[r].presented) /\ locks[s] = Absent
    /\ ~Usable(s, calls[r].at)
    /\ RefuseRefresh(r, IF sessions[s].revoked THEN "SESSION_REVOKED"
                                               ELSE "SESSION_EXPIRED", s)
    /\ locks' = [locks EXCEPT ![s] = r]
    /\ UNCHANGED <<users, sessions, cookies, access, now, issued, spent, lost>>

\* The row is locked, found revoked or expired, and released by the rollback.
RefuseRotation(r, s) ==
    /\ At(r, "select") /\ Holds(s, calls[r].presented) /\ locks[s] = Absent
    /\ ~Usable(s, calls[r].at)
    /\ RefuseRefresh(r, IF sessions[s].revoked THEN "SESSION_REVOKED"
                                               ELSE "SESSION_EXPIRED", s)
    /\ UNCHANGED <<users, sessions, locks, cookies, access, now, issued, spent, lost>>

\* Mutant: a plain SELECT, which neither waits for the row nor locks it.
SelectPlain(r, s) ==
    /\ At(r, "select") /\ Holds(s, calls[r].presented)
    /\ Usable(s, calls[r].at)
    /\ Goto(r, [calls[r] EXCEPT !.pc = "update", !.session = s,
                                !.user = sessions[s].user])
    /\ UNCHANGED <<users, sessions, locks, cookies, access, now, issued, spent, lost>>

SelectForUpdate(r, s) ==
    /\ At(r, "select") /\ Holds(s, calls[r].presented) /\ locks[s] = Absent
    /\ Usable(s, calls[r].at)
    /\ locks' = [locks EXCEPT ![s] = r]
    /\ Goto(r, [calls[r] EXCEPT !.pc = "update", !.session = s,
                                !.user = sessions[s].user])
    /\ UNCHANGED <<users, sessions, cookies, access, now, issued, spent, lost>>

\* Mutant: the UPDATE sets updated_at but not the new hash.
RotateKeepingHash(r) ==
    /\ At(r, "update")
    /\ LET s == calls[r].session IN
       /\ Holds(s, calls[r].presented) /\ Usable(s, calls[r].at)
       /\ Goto(r, [calls[r] EXCEPT !.pc = "expiry"])
       /\ spent' = spent \cup {calls[r].presented}
       /\ locks' = [locks EXCEPT ![s] = Absent]
    /\ UNCHANGED <<users, sessions, cookies, access, now, issued, lost>>

\* The conditional UPDATE and the commit, or the rollback when it matches
\* no row.
Rotate(r) ==
    /\ At(r, "update")
    /\ LET s == calls[r].session IN
       /\ \/ /\ Holds(s, calls[r].presented) /\ Usable(s, calls[r].at)
             /\ sessions' = [sessions EXCEPT ![s].token = calls[r].fresh]
             /\ spent' = spent \cup {calls[r].presented}
             /\ Goto(r, [calls[r] EXCEPT !.pc = "expiry"])
          \/ /\ ~(Holds(s, calls[r].presented) /\ Usable(s, calls[r].at))
             /\ RefuseRefresh(r, "INVALID_CREDENTIALS", s)
             /\ UNCHANGED <<sessions, spent>>
       /\ locks' = [locks EXCEPT ![s] = Absent]
    /\ UNCHANGED <<users, cookies, access, now, issued, lost>>

\* After the commit: the clock again, then the access token is issued.
\* expires_at never changes, so the row's is the one the transaction read.
CheckExpiry(r) ==
    /\ At(r, "expiry")
    /\ LET s == calls[r].session IN
       IF now >= sessions[s].expires
       THEN RefuseRefresh(r, "SESSION_EXPIRED", s)
       ELSE Goto(r, [calls[r] EXCEPT !.pc = "user", !.until = now + AccessLifetime])
    /\ UNCHANGED <<users, sessions, locks, cookies, access, now, issued, spent, lost>>

CheckUser(r) ==
    /\ At(r, "user")
    /\ LET u == calls[r].user
           s == calls[r].session IN
       IF users[u] # "ACTIVE"
       THEN RefuseRefresh(r, "SESSION_REVOKED", s)
       ELSE Answer(r, "OK", calls[r].browser, s, {calls[r].fresh},
                   [user |-> u, session |-> s, expires |-> calls[r].until])
    /\ UNCHANGED <<users, sessions, locks, cookies, access, now, issued, spent, lost>>

(***************************************************************************)
(* Login, and IssueForUser behind Google sign-in: the user is read and its *)
(* credential verified, then issue inserts the session.                    *)
(***************************************************************************)
IdsLeft ==   \* bound: every running login can still get a fresh id
    Cardinality({ r \in Calls : At(r, "create") })
        < Cardinality({ s \in SessionIds : ~Exists(s) })

CallLogin(r, b, u) ==
    /\ At(r, "idle") /\ IdsLeft
    /\ \/ /\ users[u] # "ACTIVE"
          /\ Answer(r, "INVALID_CREDENTIALS", b, Absent, {}, Absent)
          /\ UNCHANGED issued
       \/ /\ users[u] = "ACTIVE"
          /\ \E t \in Fresh :
               /\ Goto(r, [pc |-> "create", browser |-> b, user |-> u,
                           session |-> Absent, presented |-> Absent, fresh |-> t,
                           at |-> now, until |-> now])
               /\ issued' = issued \cup {t}
    /\ UNCHANGED <<users, sessions, locks, cookies, access, now, spent, lost>>

CreateSession(r, s) ==
    /\ At(r, "create") /\ ~Exists(s)
    /\ sessions' = [sessions EXCEPT ![s] =
                      [user |-> calls[r].user, token |-> calls[r].fresh,
                       expires |-> calls[r].at + SessionLifetime, revoked |-> FALSE]]
    /\ Answer(r, "OK", calls[r].browser, s, {calls[r].fresh},
              [user |-> calls[r].user, session |-> s, expires |-> now + AccessLifetime])
    /\ UNCHANGED <<users, locks, cookies, access, now, issued, spent, lost>>

(***************************************************************************)
(* Logout: the middleware verifies the access token and finds its session  *)
(* active; the revocation waits for a transaction that holds the row.      *)
(***************************************************************************)
CallLogout(r, b) ==
    /\ At(r, "idle") /\ access[b] # Absent
    /\ LET a == access[b] IN
       \/ /\ now >= a.expires
          /\ Answer(r, "INVALID_CREDENTIALS", b, Absent, {}, Absent)
       \/ /\ now < a.expires /\ ~Usable(a.session, now)
          /\ Answer(r, "SESSION_EXPIRED", b, Absent, {}, Absent)
       \/ /\ now < a.expires /\ Usable(a.session, now)
          /\ Goto(r, [pc |-> "revoke", browser |-> b, user |-> a.user,
                      session |-> a.session, presented |-> Absent, fresh |-> Absent,
                      at |-> now, until |-> now])
    /\ UNCHANGED <<users, sessions, locks, cookies, access, now, issued, spent, lost>>

Revoke(r) ==
    /\ At(r, "revoke") /\ locks[calls[r].session] = Absent
    /\ sessions' = [sessions EXCEPT ![calls[r].session].revoked = TRUE]
    /\ Answer(r, "OK", calls[r].browser, calls[r].session, {Absent}, Absent)
    /\ UNCHANGED <<users, locks, cookies, access, now, issued, spent, lost>>

-----------------------------------------------------------------------------
\* A statement fails: an open transaction rolls back, and Refresh reports
\* a failed user read as SESSION_REVOKED.
Fail(r) ==
    /\ "fail" \in Faults /\ Running(r)
    /\ \/ /\ calls[r].pc \in RefreshPCs
          /\ RefuseRefresh(r, IF At(r, "user") THEN "SESSION_REVOKED" ELSE "INTERNAL_ERROR",
                           calls[r].session)
       \/ /\ calls[r].pc \notin RefreshPCs
          /\ Answer(r, "INTERNAL_ERROR", calls[r].browser, calls[r].session, {}, Absent)
    /\ locks' = [s \in SessionIds |-> IF locks[s] = r THEN Absent ELSE locks[s]]
    /\ UNCHANGED <<users, sessions, cookies, access, now, issued, spent, lost>>

\* The browser applies the answer; answers of concurrent calls arrive in
\* any order.
Deliver(r) ==
    /\ At(r, "done")
    /\ LET a == calls[r] IN
       /\ \/ a.cookies = {} /\ UNCHANGED cookies
          \/ \E c \in a.cookies : cookies' = [cookies EXCEPT ![a.browser] = c]
       /\ lost' = IF a.cookies = {} THEN lost ELSE lost \ {a.browser}
       /\ access' = IF a.access = Absent THEN access
                    ELSE [access EXCEPT ![a.browser] = a.access]
    /\ Goto(r, Idle)
    /\ UNCHANGED <<users, sessions, locks, now, issued, spent>>

Lose(r) ==
    /\ "lose" \in Faults /\ At(r, "done")
    /\ Goto(r, Idle)
    /\ lost' = lost \cup {calls[r].browser}
    /\ UNCHANGED <<users, sessions, locks, cookies, access, now, issued, spent>>

\* No code in the repository changes a user's status after creation.
Disable(u) ==
    /\ "disable" \in Faults /\ users[u] = "ACTIVE"
    /\ users' = [users EXCEPT ![u] = "DISABLED"]
    /\ UNCHANGED <<sessions, locks, cookies, access, calls, now, issued, spent, lost>>

Tick ==
    /\ now < MaxTime
    /\ now' = now + 1
    /\ UNCHANGED <<users, sessions, locks, cookies, access, calls, issued, spent, lost>>

Step(r) ==
    \/ NoSuchCredential(r) \/ Rotate(r) \/ CheckExpiry(r) \/ CheckUser(r) \/ Revoke(r)
    \/ \E s \in SessionIds :
         RefuseRotation(r, s) \/ SelectForUpdate(r, s) \/ CreateSession(r, s)

Next ==
    \/ \E r \in Calls :
         \/ Step(r) \/ Fail(r) \/ Deliver(r) \/ Lose(r)
         \/ \E b \in Browsers :
              \/ CallRefresh(r, b) \/ CallLogout(r, b)
              \/ \E u \in Users : CallLogin(r, b, u)
    \/ \E u \in Users : Disable(u)
    \/ Tick

Spec == Init /\ [][Next]_vars

-----------------------------------------------------------------------------
(***************************************************************************)
(* Properties.  The conjuncts of IInv are the inductive invariant of  *)
(* SessionsProofs.tla.                                                     *)
(***************************************************************************)
TypeOK ==
    /\ users \in [Users -> {"ACTIVE", "DISABLED"}]
    /\ sessions \in [SessionIds -> Session \cup {Absent}]
    /\ locks \in [SessionIds -> Calls \cup {Absent}]
    /\ cookies \in [Browsers -> Tokens \cup {Absent}]
    /\ access \in [Browsers -> Access \cup {Absent}]
    /\ calls \in [Calls -> Call \cup Reply \cup {Idle}]
    /\ now \in Nat
    /\ issued \subseteq Tokens /\ spent \subseteq issued
    /\ lost \subseteq Browsers

\* What a running call has read or been given so far.
LocalsOK(r) ==
    /\ calls[r].pc \in RefreshPCs =>
          calls[r].presented \in Tokens /\ calls[r].fresh \in Tokens
    /\ calls[r].pc \in {"update", "expiry", "user", "create"} => calls[r].user \in Users
    /\ calls[r].pc \in {"update", "expiry", "user", "revoke"} =>
          calls[r].session \in SessionIds /\ Exists(calls[r].session)

\* A row is locked exactly while a rotation is between its SELECT and its
\* commit, and what that rotation read is still so.
LocksAreHeld ==
    /\ \A s \in SessionIds : locks[s] # Absent =>
          At(locks[s], "update") /\ calls[locks[s]].session = s
    /\ \A r \in Calls : At(r, "update") =>
          /\ locks[calls[r].session] = r
          /\ Holds(calls[r].session, calls[r].presented)
          /\ Usable(calls[r].session, calls[r].at)

\* A credential that a running call has generated and not stored yet.
Pending(r) == calls[r].pc \in {"select", "update", "create"}

\* Generated credentials are never shared: not between rows, not between
\* running calls, not between the two.
TokensAreUnique ==
    /\ \A s \in SessionIds : Exists(s) => sessions[s].token \in issued
    /\ \A s, z \in SessionIds :
          Exists(s) /\ Exists(z) /\ s # z => sessions[s].token # sessions[z].token
    /\ \A r \in Calls : Pending(r) =>
          /\ calls[r].fresh \in issued \ spent
          /\ \A s \in SessionIds : ~Holds(s, calls[r].fresh)
    /\ \A r, q \in Calls :
          Pending(r) /\ Pending(q) /\ r # q => calls[r].fresh # calls[q].fresh

\* A refresh credential is single-use: once a rotation has replaced it, it
\* names no session ever again, whoever races to present it.
SpentIsDead ==
    \A s \in SessionIds : Exists(s) => sessions[s].token \notin spent

\* What the table and the calls that touch it keep true.
RotationInv ==
    /\ TypeOK
    /\ \A r \in Calls : LocalsOK(r)
    /\ LocksAreHeld
    /\ TokensAreUnique
    /\ SpentIsDead

\* The credential a call has generated and its answer has not delivered yet.
Carries(r, t) ==
    \/ calls[r].pc \in RefreshPCs \cup {"create"} /\ calls[r].fresh = t
    \/ At(r, "done") /\ t \in calls[r].cookies

Presents(r, t) == calls[r].pc \in RefreshPCs /\ calls[r].presented = t

\* Until its answer arrives a new credential is one call's, unspent and
\* presented by nobody; afterwards it is one browser's, and only that
\* browser's calls present it.
CookiesAreOwn ==
    \A t \in Tokens :
        /\ \A r \in Calls : Carries(r, t) =>
              /\ t \in issued \ spent
              /\ \A q \in Calls : ~Presents(q, t) /\ (Carries(q, t) => q = r)
              /\ \A b \in Browsers : cookies[b] # t
        /\ \A r \in Calls : Presents(r, t) =>
              /\ t \in issued
              /\ \A b \in Browsers : cookies[b] = t => b = calls[r].browser
        /\ \A b \in Browsers : cookies[b] = t =>
              t \in issued /\ \A d \in Browsers : cookies[d] = t => d = b

\* An answer that replaces or clears the browser's cookie is on its way.
Answering(r, b) ==
    /\ ~At(r, "idle") /\ calls[r].browser = b
    /\ \/ calls[r].pc \in {"expiry", "user"}
       \/ At(r, "done") /\ calls[r].cookies # {}

\* A browser that missed no answer is not left holding a spent credential:
\* whatever the order in which answers arrive, one that replaces or clears
\* it is still on its way.
NoSpentCookie ==
    \A b \in Browsers \ lost : cookies[b] \in spent =>
        \E r \in Calls : Answering(r, b)

\* The invariant the proofs carry.
IInv == RotationInv /\ CookiesAreOwn /\ NoSpentCookie

\* A logout is final: no rotation in flight when the row is revoked revives
\* it, extends it or gives it a new credential, and no row changes its user
\* or its expiry.
RevokedIsFinal ==
    [][\A s \in SessionIds : Exists(s) =>
          /\ Exists(s)'
          /\ sessions'[s].user = sessions[s].user
          /\ sessions'[s].expires = sessions[s].expires
          /\ sessions[s].revoked => sessions'[s] = sessions[s]]_vars

\* What a call may have to wait for: the row that its SELECT ... FOR UPDATE or
\* its revocation is about to lock.
WaitsFor(r, s) ==
    /\ locks[s] # Absent
    /\ \/ At(r, "select") /\ Holds(s, calls[r].presented)
       \/ At(r, "revoke") /\ calls[r].session = s

Blocked(r) == \E s \in SessionIds : WaitsFor(r, s)

\* Whoever is waited for is another call, has its UPDATE and commit left to do
\* on that very row, and waits for nothing.
WaitsAreShort ==
    \A r \in Calls, s \in SessionIds : WaitsFor(r, s) =>
        /\ locks[s] \in Calls \ {r}
        /\ At(locks[s], "update") /\ calls[locks[s]].session = s
        /\ ~Blocked(locks[s])

\* A running call can go on unless it waits for a row, and then the row's
\* holder can: no call ever waits for one that has been answered, nor two for
\* each other.
WaitsForWriter ==
    /\ \A r \in Calls : Running(r) => (ENABLED Step(r) <=> ~Blocked(r))
    /\ WaitsAreShort

=============================================================================
