--------------------------- MODULE SessionsProofs ---------------------------
(***************************************************************************)
(* A refresh credential is single-use and a revoked session stays revoked, *)
(* for any number of browsers, concurrent calls and sessions, with lost    *)
(* answers, failing statements and users disabled at any moment.           *)
(***************************************************************************)
EXTENDS Sessions, TLAPS

-----------------------------------------------------------------------------
(***************************************************************************)
(* A running call's locals have the type of a call; an answer is none.     *)
(***************************************************************************)
LEMMA CallType ==
    ASSUME RotationInv, NEW r \in Calls, Running(r)
    PROVE  calls[r] \in Call /\ LocalsOK(r)
BY DEF RotationInv, TypeOK, Running, Reply, Idle

(***************************************************************************)
(* With the rows, the locks and the clock unchanged and no transaction     *)
(* opened or closed, one caller's new local state is all there is to check.*)
(***************************************************************************)
LEMMA LocalStep ==
    ASSUME RotationInv, NEW r \in Calls, NEW c \in Call \cup Reply \cup {Idle},
           calls' = [calls EXCEPT ![r] = c],
           calls[r].pc # "update", c.pc # "update",
           UNCHANGED <<users, sessions, locks, now, spent>>,
           cookies' \in [Browsers -> Tokens \cup {Absent}],
           access' \in [Browsers -> Access \cup {Absent}],
           lost' \subseteq Browsers,
           issued \subseteq issued', issued' \subseteq Tokens,
           LocalsOK(r)',
           Pending(r)' => \/ Pending(r) /\ c.fresh = calls[r].fresh
                          \/ c.fresh \in issued' \ issued
    PROVE  RotationInv'
<1>1. TypeOK'
  BY DEF RotationInv, TypeOK
<1>2. calls'[r] = c /\ \A q \in Calls \ {r} : calls'[q] = calls[q]
  BY DEF RotationInv, TypeOK
<1>3. \A q \in Calls : LocalsOK(q)'
  BY <1>2 DEF RotationInv, LocalsOK, Exists
<1>4. LocksAreHeld'
  <2>1. \A s \in SessionIds : locks[s] # r
    BY AbsentIsNothing DEF RotationInv, LocksAreHeld, At
  <2>2. \A s \in SessionIds : locks[s] # Absent => locks[s] \in Calls \ {r}
    BY <2>1 DEF RotationInv, TypeOK
  <2>3. \A q \in Calls : At(q, "update")' => q # r
    BY <1>2 DEF At
  <2>4. \A q \in Calls \ {r} : At(q, "update") =>
          /\ locks[calls[q].session] = q
          /\ Holds(calls[q].session, calls[q].presented)
          /\ Usable(calls[q].session, calls[q].at)
    BY DEF RotationInv, LocksAreHeld
  <2>5. \A q \in Calls : At(q, "update")' =>
          (/\ locks[calls[q].session] = q
           /\ Holds(calls[q].session, calls[q].presented)
           /\ Usable(calls[q].session, calls[q].at))'
    BY <1>2, <2>3, <2>4 DEF At, Holds, Usable, Exists
  <2>6. \A s \in SessionIds : locks[s] # Absent =>
          At(locks[s], "update")' /\ calls'[locks[s]].session = s
    BY <1>2, <2>2 DEF RotationInv, LocksAreHeld, At
  <2>. QED
    BY <2>5, <2>6 DEF LocksAreHeld, At
<1>5. TokensAreUnique'
  <2>1. \A s \in SessionIds : Exists(s) => sessions[s].token \in issued
    BY DEF RotationInv, TokensAreUnique
  <2>2. \A q \in Calls \ {r} : Pending(q)' <=> Pending(q)
    BY <1>2 DEF Pending
  <2>3. ASSUME Pending(r)'
        PROVE  /\ c.fresh \in issued' \ spent
               /\ \A s \in SessionIds : ~Holds(s, c.fresh)
               /\ \A q \in Calls \ {r} : Pending(q) => c.fresh # calls[q].fresh
    <3>1. CASE Pending(r) /\ c.fresh = calls[r].fresh
      BY <3>1 DEF RotationInv, TokensAreUnique
    <3>2. CASE c.fresh \in issued' \ issued
      BY <2>1, <3>2 DEF RotationInv, TypeOK, TokensAreUnique, Holds
    <3>. QED
      BY <2>3, <3>1, <3>2
  <2>4. \A q \in Calls : Pending(q)' =>
          /\ calls'[q].fresh \in issued' \ spent
          /\ \A s \in SessionIds : ~Holds(s, calls'[q].fresh)
    BY <1>2, <2>2, <2>3 DEF RotationInv, TokensAreUnique
  <2>5. \A p, q \in Calls : Pending(p)' /\ Pending(q)' /\ p # q
                                => calls'[p].fresh # calls'[q].fresh
    BY <1>2, <2>2, <2>3 DEF RotationInv, TokensAreUnique
  <2>. QED
    BY <2>4, <2>5 DEF RotationInv, TokensAreUnique, Exists, Holds
<1>6. SpentIsDead'
  BY DEF RotationInv, SpentIsDead, Exists
<1>. QED
  BY <1>1, <1>3, <1>4, <1>5, <1>6 DEF RotationInv

(***************************************************************************)
(* A call outside the rotation's transaction answers.                      *)
(***************************************************************************)
LEMMA AnswerStep ==
    ASSUME RotationInv, NEW r \in Calls, calls[r].pc # "update",
           NEW code \in Codes, NEW b \in Browsers, NEW s \in SessionIds \cup {Absent},
           NEW set \in SUBSET (Tokens \cup {Absent}), NEW token \in Access \cup {Absent},
           Answer(r, code, b, s, set, token),
           UNCHANGED <<users, sessions, locks, cookies, access, now, issued, spent, lost>>
    PROVE  RotationInv'
<1> DEFINE c == [pc |-> "done", code |-> code, browser |-> b, session |-> s,
                 cookies |-> set, access |-> token]
<1>1. c \in Reply /\ c.pc = "done"
  BY DEF Reply
<1>2. calls' = [calls EXCEPT ![r] = c]
  BY DEF Answer
<1>3. calls'[r] = c
  BY <1>2 DEF RotationInv, TypeOK
<1>4. LocalsOK(r)' /\ ~Pending(r)'
  BY <1>3 DEF LocalsOK, RefreshPCs, Pending
<1>. QED
  BY <1>1, <1>2, <1>4, LocalStep DEF RotationInv, TypeOK

LEMMA RefuseRefreshStep ==
    ASSUME RotationInv, NEW r \in Calls, Running(r), calls[r].pc # "update",
           NEW code \in Codes, NEW s \in SessionIds \cup {Absent},
           RefuseRefresh(r, code, s),
           UNCHANGED <<users, sessions, locks, cookies, access, now, issued, spent, lost>>
    PROVE  RotationInv'
<1>1. calls[r].browser \in Browsers
  BY CallType DEF Call
<1>2. {Absent} \in SUBSET (Tokens \cup {Absent}) /\ Absent \in Access \cup {Absent}
  OBVIOUS
<1>. QED
  BY <1>1, <1>2, AnswerStep DEF RefuseRefresh

-----------------------------------------------------------------------------
(***************************************************************************)
(* The first steps of the three requests.                                  *)
(***************************************************************************)
LEMMA CallRefreshStep ==
    ASSUME RotationInv, NEW r \in Calls, NEW b \in Browsers, CallRefresh(r, b)
    PROVE  RotationInv'
<1>1. CASE cookies[b] = Absent
  <2>1. Answer(r, "INVALID_CREDENTIALS", b, Absent, {}, Absent) /\ UNCHANGED issued
    BY <1>1 DEF CallRefresh
  <2>. QED
    BY <2>1, AnswerStep DEF CallRefresh, At, Codes
<1>2. CASE cookies[b] # Absent
  <2>1. PICK t \in Fresh :
          /\ Goto(r, [pc |-> "select", browser |-> b, user |-> Absent,
                      session |-> Absent, presented |-> cookies[b], fresh |-> t,
                      at |-> now, until |-> now])
          /\ issued' = issued \cup {t}
    BY <1>2 DEF CallRefresh
  <2> DEFINE c == [pc |-> "select", browser |-> b, user |-> Absent,
                   session |-> Absent, presented |-> cookies[b], fresh |-> t,
                   at |-> now, until |-> now]
  <2>2. cookies[b] \in Tokens /\ t \in Tokens /\ t \notin issued
    BY <1>2 DEF RotationInv, TypeOK, Fresh
  <2>3. c \in Call /\ c.pc = "select" /\ c.fresh = t
    BY <2>2 DEF RotationInv, TypeOK, Call, RefreshPCs
  <2>4. calls'[r] = c
    BY <2>1 DEF Goto, RotationInv, TypeOK
  <2>5. LocalsOK(r)'
    BY <2>2, <2>4 DEF LocalsOK, RefreshPCs
  <2>. QED
    BY <2>1, <2>2, <2>3, <2>5, LocalStep DEF CallRefresh, At, Goto, RotationInv, TypeOK
<1>. QED
  BY <1>1, <1>2

LEMMA CallLoginStep ==
    ASSUME RotationInv, NEW r \in Calls, NEW b \in Browsers, NEW u \in Users, CallLogin(r, b, u)
    PROVE  RotationInv'
<1>1. CASE users[u] # "ACTIVE"
  <2>1. Answer(r, "INVALID_CREDENTIALS", b, Absent, {}, Absent) /\ UNCHANGED issued
    BY <1>1 DEF CallLogin
  <2>. QED
    BY <2>1, AnswerStep DEF CallLogin, At, Codes
<1>2. CASE users[u] = "ACTIVE"
  <2>1. PICK t \in Fresh :
          /\ Goto(r, [pc |-> "create", browser |-> b, user |-> u,
                      session |-> Absent, presented |-> Absent, fresh |-> t,
                      at |-> now, until |-> now])
          /\ issued' = issued \cup {t}
    BY <1>2 DEF CallLogin
  <2> DEFINE c == [pc |-> "create", browser |-> b, user |-> u,
                   session |-> Absent, presented |-> Absent, fresh |-> t,
                   at |-> now, until |-> now]
  <2>2. t \in Tokens /\ t \notin issued
    BY DEF Fresh
  <2>3. c \in Call /\ c.pc = "create" /\ c.fresh = t
    BY <2>2 DEF RotationInv, TypeOK, Call
  <2>4. calls'[r] = c
    BY <2>1 DEF Goto, RotationInv, TypeOK
  <2>5. LocalsOK(r)'
    BY <2>4 DEF LocalsOK, RefreshPCs
  <2>. QED
    BY <2>1, <2>2, <2>3, <2>5, LocalStep DEF CallLogin, At, Goto, RotationInv, TypeOK
<1>. QED
  BY <1>1, <1>2

LEMMA CallLogoutStep ==
    ASSUME RotationInv, NEW r \in Calls, NEW b \in Browsers, CallLogout(r, b)
    PROVE  RotationInv'
<1> DEFINE a == access[b]
           c == [pc |-> "revoke", browser |-> b, user |-> a.user,
                 session |-> a.session, presented |-> Absent, fresh |-> Absent,
                 at |-> now, until |-> now]
<1>1. \/ \E code \in Codes : Answer(r, code, b, Absent, {}, Absent)
      \/ Goto(r, c) /\ Usable(a.session, now)
  BY DEF CallLogout, Codes
<1>2. CASE \E code \in Codes : Answer(r, code, b, Absent, {}, Absent)
  BY <1>2, AnswerStep DEF CallLogout, At
<1>3. CASE Goto(r, c) /\ Usable(a.session, now)
  <2>1. a \in Access
    BY DEF CallLogout, RotationInv, TypeOK
  <2>2. c \in Call /\ c.pc = "revoke"
    BY <2>1 DEF RotationInv, TypeOK, Call, Access
  <2>3. calls'[r] = c
    BY <1>3 DEF Goto, RotationInv, TypeOK
  <2>4. a.session \in SessionIds /\ sessions'[a.session] # Absent
    BY <1>3, <2>1 DEF Access, Usable, Exists, CallLogout
  <2>5. calls'[r].pc = "revoke" /\ calls'[r].session = a.session
    BY <2>3
  <2>6. LocalsOK(r)' /\ ~Pending(r)'
    <3> HIDE DEF a
    <3>. QED
      BY <2>4, <2>5 DEF LocalsOK, RefreshPCs, Pending, Exists
  <2>. QED
    BY <1>3, <2>2, <2>6, LocalStep DEF CallLogout, At, Goto, RotationInv, TypeOK
<1>. QED
  BY <1>1, <1>2, <1>3

-----------------------------------------------------------------------------
(***************************************************************************)
(* The steps of a refresh outside its transaction.                         *)
(***************************************************************************)
LEMMA RefusedStep ==
    ASSUME RotationInv, NEW r \in Calls,
           NoSuchCredential(r) \/ (\E s \in SessionIds : RefuseRotation(r, s))
    PROVE  RotationInv'
<1>1. Running(r) /\ calls[r].pc # "update"
  BY DEF NoSuchCredential, RefuseRotation, At, Running
<1>2. CASE NoSuchCredential(r)
  BY <1>1, <1>2, RefuseRefreshStep DEF NoSuchCredential, Codes
<1>3. ASSUME NEW s \in SessionIds, RefuseRotation(r, s)
      PROVE  RotationInv'
  <2>1. PICK code \in Codes : RefuseRefresh(r, code, s)
    BY <1>3 DEF RefuseRotation, Codes
  <2>. QED
    BY <1>1, <1>3, <2>1, RefuseRefreshStep DEF RefuseRotation
<1>. QED
  BY <1>2, <1>3

LEMMA CheckExpiryStep ==
    ASSUME RotationInv, NEW r \in Calls, CheckExpiry(r)
    PROVE  RotationInv'
<1>1. Running(r) /\ calls[r].pc = "expiry"
  BY DEF CheckExpiry, At, Running
<1>2. calls[r] \in Call /\ LocalsOK(r)
  BY <1>1, CallType
<1> DEFINE c == [calls[r] EXCEPT !.pc = "user", !.until = now + AccessLifetime]
<1>3. CASE RefuseRefresh(r, "SESSION_EXPIRED", calls[r].session)
  BY <1>1, <1>2, <1>3, RefuseRefreshStep DEF CheckExpiry, Codes, LocalsOK
<1>4. CASE Goto(r, c)
  <2>1. now + AccessLifetime \in Int
    BY TimesAreNat DEF RotationInv, TypeOK
  <2>2. c \in Call /\ c.pc = "user"
    BY <1>2, <2>1 DEF Call, RefreshPCs
  <2>3. calls'[r] = c
    BY <1>4 DEF Goto, RotationInv, TypeOK
  <2>4. LocalsOK(r)' /\ ~Pending(r)'
    BY <1>1, <1>2, <2>3 DEF LocalsOK, RefreshPCs, Pending, Exists, Call, CheckExpiry
  <2>. QED
    BY <1>1, <1>4, <2>2, <2>4, LocalStep DEF CheckExpiry, Goto, RotationInv, TypeOK
<1>. QED
  BY <1>3, <1>4 DEF CheckExpiry

LEMMA CheckUserStep ==
    ASSUME RotationInv, NEW r \in Calls, CheckUser(r)
    PROVE  RotationInv'
<1>1. Running(r) /\ calls[r].pc = "user"
  BY DEF CheckUser, At, Running
<1>2. calls[r] \in Call /\ LocalsOK(r)
  BY <1>1, CallType
<1>3. CASE RefuseRefresh(r, "SESSION_REVOKED", calls[r].session)
  BY <1>1, <1>2, <1>3, RefuseRefreshStep DEF CheckUser, Codes, LocalsOK
<1>4. CASE Answer(r, "OK", calls[r].browser, calls[r].session, {calls[r].fresh},
                  [user |-> calls[r].user, session |-> calls[r].session,
                   expires |-> calls[r].until])
  <2>1. /\ calls[r].browser \in Browsers /\ calls[r].session \in SessionIds
        /\ calls[r].fresh \in Tokens /\ calls[r].user \in Users
        /\ calls[r].until \in Int
    BY <1>1, <1>2 DEF Call, LocalsOK, RefreshPCs
  <2>2. [user |-> calls[r].user, session |-> calls[r].session,
         expires |-> calls[r].until] \in Access
    BY <2>1 DEF Access
  <2>. QED
    BY <1>1, <1>4, <2>1, <2>2, AnswerStep DEF CheckUser, Codes
<1>. QED
  BY <1>3, <1>4 DEF CheckUser

(***************************************************************************)
(* The browser receives an answer, or never does.                          *)
(***************************************************************************)
LEMMA DeliverStep ==
    ASSUME RotationInv, NEW r \in Calls, Deliver(r) \/ Lose(r)
    PROVE  RotationInv'
<1>1. calls[r] \in Reply /\ calls[r].pc = "done"
  BY DEF Deliver, Lose, At, RotationInv, TypeOK, Idle, Call, RefreshPCs
<1>2. cookies' \in [Browsers -> Tokens \cup {Absent}]
  BY <1>1 DEF Deliver, Lose, RotationInv, TypeOK, Reply
<1>3. access' \in [Browsers -> Access \cup {Absent}]
  BY <1>1 DEF Deliver, Lose, RotationInv, TypeOK, Reply
<1>4. calls' = [calls EXCEPT ![r] = Idle]
  BY DEF Deliver, Lose, Goto
<1>5. calls'[r] = Idle
  BY <1>4 DEF RotationInv, TypeOK
<1>6. LocalsOK(r)' /\ ~Pending(r)'
  BY <1>5 DEF LocalsOK, RefreshPCs, Pending, Idle
<1>7. lost' \subseteq Browsers
  BY <1>1 DEF Deliver, Lose, RotationInv, TypeOK, Reply
<1>. QED
  BY <1>1, <1>2, <1>3, <1>4, <1>6, <1>7, LocalStep DEF Deliver, Lose, Idle, RotationInv, TypeOK

-----------------------------------------------------------------------------
(***************************************************************************)
(* The rotation's transaction.                                             *)
(***************************************************************************)
LEMMA SelectForUpdateStep ==
    ASSUME RotationInv, NEW r \in Calls, NEW s \in SessionIds, SelectForUpdate(r, s)
    PROVE  RotationInv'
<1> DEFINE c == [calls[r] EXCEPT !.pc = "update", !.session = s, !.user = sessions[s].user]
<1>1. Running(r) /\ calls[r].pc = "select" /\ calls' = [calls EXCEPT ![r] = c]
  BY DEF SelectForUpdate, At, Running, Goto
<1>2. calls[r] \in Call /\ LocalsOK(r) /\ sessions[s] \in Session
  BY <1>1, CallType DEF SelectForUpdate, Usable, Exists, RotationInv, TypeOK
<1>3. c \in Call
  BY <1>2 DEF Call, Session, RefreshPCs
<1>4. calls'[r] = c /\ \A q \in Calls \ {r} : calls'[q] = calls[q]
  BY <1>1 DEF RotationInv, TypeOK
<1>5. TypeOK'
  BY <1>1, <1>3 DEF SelectForUpdate, RotationInv, TypeOK
<1>6. /\ c.pc = "update" /\ c.session = s /\ c.user \in Users
      /\ c.presented = calls[r].presented /\ c.fresh = calls[r].fresh
      /\ c.at = calls[r].at
  BY <1>2 DEF Call, Session
<1>7. \A q \in Calls : LocalsOK(q)'
  <2>1. LocalsOK(r)'
    <3> HIDE DEF c
    <3>. QED
      BY <1>1, <1>2, <1>4, <1>6 DEF LocalsOK, RefreshPCs, Exists, Usable, SelectForUpdate
  <2>. QED
    BY <1>4, <2>1 DEF RotationInv, LocalsOK, Exists, SelectForUpdate
<1>8. LocksAreHeld'
  <2> HIDE DEF c
  <2>1. locks[s] = Absent /\ locks' = [locks EXCEPT ![s] = r] /\ sessions' = sessions
    BY DEF SelectForUpdate
  <2>2. locks'[s] = r /\ \A z \in SessionIds \ {s} : locks'[z] = locks[z]
    BY <2>1 DEF RotationInv, TypeOK
  <2>3. \A z \in SessionIds \ {s} : locks[z] # r
    BY <1>1, AbsentIsNothing DEF RotationInv, LocksAreHeld, At
  <2>4. \A z \in SessionIds : locks'[z] # Absent =>
          calls'[locks'[z]].pc = "update" /\ calls'[locks'[z]].session = z
    <3>1. \A z \in SessionIds \ {s} : locks[z] # Absent =>
            /\ locks[z] \in Calls \ {r}
            /\ calls[locks[z]].pc = "update" /\ calls[locks[z]].session = z
      BY <2>3 DEF RotationInv, TypeOK, LocksAreHeld, At
    <3>. QED
      BY <1>4, <1>6, <2>2, <3>1
  <2>5. \A q \in Calls \ {r} : At(q, "update") =>
          /\ calls[q].session \in SessionIds \ {s}
          /\ locks[calls[q].session] = q
          /\ Holds(calls[q].session, calls[q].presented)
          /\ Usable(calls[q].session, calls[q].at)
    BY <2>1, AbsentIsNothing DEF RotationInv, LocksAreHeld, LocalsOK, At
  <2>6. \A q \in Calls : At(q, "update")' =>
          (/\ locks[calls[q].session] = q
           /\ Holds(calls[q].session, calls[q].presented)
           /\ Usable(calls[q].session, calls[q].at))'
    BY <1>4, <1>6, <2>1, <2>2, <2>5 DEF SelectForUpdate, At, Holds, Usable, Exists
  <2>. QED
    BY <2>4, <2>6 DEF LocksAreHeld, At
<1>9. TokensAreUnique'
  <2> HIDE DEF c
  <2>1. \A q \in Calls : (Pending(q)' <=> Pending(q)) /\ calls'[q].fresh = calls[q].fresh
    BY <1>1, <1>4, <1>6 DEF Pending
  <2>. QED
    BY <2>1 DEF RotationInv, TokensAreUnique, SelectForUpdate, Holds, Exists
<1>10. SpentIsDead'
  BY DEF RotationInv, SpentIsDead, SelectForUpdate, Exists
<1>. QED
  BY <1>5, <1>7, <1>8, <1>9, <1>10 DEF RotationInv

(***************************************************************************)
(* The invariant never lets the rotation's UPDATE miss its row.            *)
(***************************************************************************)
LEMMA RotateHits ==
    ASSUME RotationInv, NEW r \in Calls, Rotate(r)
    PROVE  /\ calls[r] \in Call /\ calls[r].pc = "update"
           /\ calls[r].session \in SessionIds
           /\ sessions[calls[r].session] \in Session
           /\ sessions[calls[r].session].token = calls[r].presented
           /\ ~sessions[calls[r].session].revoked
           /\ sessions' = [sessions EXCEPT ![calls[r].session].token = calls[r].fresh]
           /\ spent' = spent \cup {calls[r].presented}
           /\ calls' = [calls EXCEPT ![r] = [calls[r] EXCEPT !.pc = "expiry"]]
           /\ locks' = [locks EXCEPT ![calls[r].session] = Absent]
           /\ UNCHANGED <<users, cookies, access, now, issued, lost>>
<1>1. Running(r) /\ calls[r].pc = "update"
  BY DEF Rotate, At, Running
<1>2. calls[r] \in Call /\ LocalsOK(r)
  BY <1>1, CallType
<1>3. Holds(calls[r].session, calls[r].presented) /\ Usable(calls[r].session, calls[r].at)
  BY <1>1 DEF RotationInv, LocksAreHeld, At
<1>. QED
  BY <1>1, <1>2, <1>3 DEF Rotate, Goto, LocalsOK, Holds, Usable, Exists, RotationInv, TypeOK

LEMMA RotateStep ==
    ASSUME RotationInv, NEW r \in Calls, Rotate(r)
    PROVE  RotationInv'
<1> DEFINE c == [calls[r] EXCEPT !.pc = "expiry"]
           s == calls[r].session
           row == [sessions[s] EXCEPT !.token = calls[r].fresh]
<1>1. /\ calls[r] \in Call /\ calls[r].pc = "update" /\ s \in SessionIds
      /\ sessions[s] \in Session /\ sessions[s].token = calls[r].presented
      /\ sessions' = [sessions EXCEPT ![s] = row]
      /\ spent' = spent \cup {calls[r].presented}
      /\ calls' = [calls EXCEPT ![r] = c]
      /\ locks' = [locks EXCEPT ![s] = Absent]
      /\ UNCHANGED <<users, cookies, access, now, issued, lost>>
  BY RotateHits
<1>2. /\ LocalsOK(r) /\ calls[r].fresh \in issued \ spent /\ calls[r].fresh \in Tokens
      /\ \A z \in SessionIds : ~Holds(z, calls[r].fresh)
  BY <1>1 DEF RotationInv, TypeOK, TokensAreUnique, Pending
<1>3. /\ c \in Call /\ c.pc = "expiry" /\ c.session = s /\ c.user = calls[r].user
      /\ c.presented = calls[r].presented /\ c.fresh = calls[r].fresh
  BY <1>1 DEF Call, RefreshPCs
<1>4. row \in Session /\ row.token = calls[r].fresh /\ row # Absent
  BY <1>1, <1>2, AbsentIsNoRow DEF Session
<1>5. /\ calls'[r] = c /\ \A q \in Calls \ {r} : calls'[q] = calls[q]
      /\ sessions'[s] = row /\ \A z \in SessionIds \ {s} : sessions'[z] = sessions[z]
      /\ locks'[s] = Absent /\ \A z \in SessionIds \ {s} : locks'[z] = locks[z]
  BY <1>1 DEF RotationInv, TypeOK
<1>6. \A z \in SessionIds : Exists(z)' <=> Exists(z)
  <2> HIDE DEF row
  <2>. QED
    BY <1>1, <1>4, <1>5, AbsentIsNoRow DEF Exists
<1>7. calls[r].presented \in issued
  BY <1>1, AbsentIsNoRow DEF RotationInv, TokensAreUnique, Exists
<1>8. TypeOK'
  BY <1>1, <1>3, <1>4, <1>7 DEF RotationInv, TypeOK
<1>9. \A q \in Calls : LocalsOK(q)'
  <2> HIDE DEF c, row
  <2>1. LocalsOK(r)'
    BY <1>1, <1>2, <1>3, <1>5, <1>6 DEF LocalsOK, RefreshPCs, Exists
  <2>2. \A q \in Calls \ {r} : LocalsOK(q)'
    BY <1>5, <1>6 DEF RotationInv, LocalsOK
  <2>. QED
    BY <2>1, <2>2
<1>10. LocksAreHeld'
  <2> HIDE DEF c, row, s
  <2>1. \A z \in SessionIds \ {s} : locks[z] # Absent =>
          /\ locks[z] \in Calls \ {r}
          /\ calls[locks[z]].pc = "update" /\ calls[locks[z]].session = z
    BY <1>1 DEF RotationInv, TypeOK, LocksAreHeld, At, s
  <2>2. \A z \in SessionIds : locks'[z] # Absent =>
          calls'[locks'[z]].pc = "update" /\ calls'[locks'[z]].session = z
    BY <1>5, <2>1
  <2>3. \A q \in Calls \ {r} : At(q, "update") =>
          /\ calls[q].session \in SessionIds \ {s}
          /\ locks[calls[q].session] = q
          /\ Holds(calls[q].session, calls[q].presented)
          /\ Usable(calls[q].session, calls[q].at)
    BY <1>1 DEF RotationInv, LocksAreHeld, LocalsOK, At, s
  <2>4. \A q \in Calls : At(q, "update")' =>
          (/\ locks[calls[q].session] = q
           /\ Holds(calls[q].session, calls[q].presented)
           /\ Usable(calls[q].session, calls[q].at))'
    BY <1>3, <1>5, <2>3 DEF At, Holds, Usable, Exists
  <2>. QED
    BY <2>2, <2>4 DEF LocksAreHeld, At
<1>11. \A z \in SessionIds : Exists(z) /\ z # s =>
          /\ sessions[z].token # calls[r].presented
          /\ sessions[z].token # calls[r].fresh
  BY <1>1, <1>2, AbsentIsNoRow DEF RotationInv, TokensAreUnique, Exists, Holds
<1>12. TokensAreUnique'
  <2> HIDE DEF c, row, s
  <2>1. \A z \in SessionIds : Exists(z)' => sessions'[z].token \in issued'
    BY <1>1, <1>2, <1>4, <1>5, <1>6 DEF RotationInv, TokensAreUnique
  <2>2. \A y, z \in SessionIds :
          Exists(y)' /\ Exists(z)' /\ y # z => sessions'[y].token # sessions'[z].token
    BY <1>1, <1>4, <1>5, <1>6, <1>11 DEF RotationInv, TokensAreUnique
  <2>3. \A q \in Calls : Pending(q)' => q # r /\ Pending(q) /\ calls'[q] = calls[q]
    BY <1>3, <1>5 DEF Pending
  <2>4. \A q \in Calls : Pending(q) /\ q # r =>
          /\ calls[q].fresh # calls[r].fresh
          /\ calls[q].fresh # calls[r].presented
    BY <1>1, AbsentIsNoRow DEF RotationInv, TokensAreUnique, Pending, Holds, Exists, s
  <2>5. \A q \in Calls : Pending(q)' =>
          /\ calls'[q].fresh \in issued' \ spent'
          /\ \A z \in SessionIds :
               Exists(z)' => sessions'[z].token # calls'[q].fresh
    BY <1>1, <1>4, <1>5, <1>6, <2>3, <2>4 DEF RotationInv, TokensAreUnique, Holds
  <2>6. \A p, q \in Calls : Pending(p)' /\ Pending(q)' /\ p # q
                               => calls'[p].fresh # calls'[q].fresh
    BY <2>3 DEF RotationInv, TokensAreUnique
  <2>. QED
    BY <2>1, <2>2, <2>5, <2>6 DEF TokensAreUnique, Holds
<1>13. SpentIsDead'
  <2> HIDE DEF c, row, s
  <2>1. \A z \in SessionIds : Exists(z)' => sessions'[z].token \notin spent
    BY <1>2, <1>4, <1>5, <1>6 DEF RotationInv, SpentIsDead
  <2>2. calls[r].fresh # calls[r].presented
    BY <1>1, <1>2, AbsentIsNoRow DEF Holds, Exists, s
  <2>. QED
    BY <1>1, <1>4, <1>5, <1>6, <1>11, <2>1, <2>2 DEF SpentIsDead
<1>. QED
  BY <1>8, <1>9, <1>10, <1>12, <1>13 DEF RotationInv

(***************************************************************************)
(* A failing statement; in the transaction, the rollback frees the row.    *)
(***************************************************************************)
LEMMA RollbackStep ==
    ASSUME RotationInv, NEW r \in Calls, calls[r].pc = "update", Fail(r)
    PROVE  RotationInv'
<1>1. Running(r)
  BY DEF Running
<1>2. calls[r] \in Call /\ LocalsOK(r)
  BY <1>1, CallType
<1> DEFINE c == [pc |-> "done", code |-> "INTERNAL_ERROR", browser |-> calls[r].browser,
                 session |-> calls[r].session, cookies |-> {Absent}, access |-> Absent]
<1>3. calls' = [calls EXCEPT ![r] = c]
  BY DEF Fail, RefreshPCs, RefuseRefresh, Answer, At
<1>4. c \in Reply /\ c.pc = "done"
  BY <1>2 DEF Reply, Codes, Call
<1>5. /\ calls'[r] = c /\ \A q \in Calls \ {r} : calls'[q] = calls[q]
      /\ \A z \in SessionIds : locks'[z] = IF locks[z] = r THEN Absent ELSE locks[z]
      /\ UNCHANGED <<users, sessions, cookies, access, now, issued, spent, lost>>
  BY <1>3 DEF Fail, RotationInv, TypeOK
<1>6. TypeOK'
  BY <1>3, <1>4, <1>5 DEF Fail, RotationInv, TypeOK
<1>7. \A q \in Calls : LocalsOK(q)'
  BY <1>4, <1>5 DEF RotationInv, LocalsOK, Exists, RefreshPCs
<1>8. LocksAreHeld'
  <2> HIDE DEF c
  <2>1. \A z \in SessionIds : locks'[z] # Absent =>
          /\ locks[z] \in Calls \ {r} /\ locks'[z] = locks[z]
          /\ calls[locks[z]].pc = "update" /\ calls[locks[z]].session = z
    BY <1>5 DEF RotationInv, TypeOK, LocksAreHeld, At
  <2>2. \A q \in Calls \ {r} : At(q, "update") =>
          /\ calls[q].session \in SessionIds
          /\ locks[calls[q].session] = q
          /\ Holds(calls[q].session, calls[q].presented)
          /\ Usable(calls[q].session, calls[q].at)
    BY DEF RotationInv, LocksAreHeld, LocalsOK, At
  <2>3. \A q \in Calls : At(q, "update")' =>
          (/\ locks[calls[q].session] = q
           /\ Holds(calls[q].session, calls[q].presented)
           /\ Usable(calls[q].session, calls[q].at))'
    BY <1>4, <1>5, <2>2 DEF At, Holds, Usable, Exists
  <2>. QED
    BY <1>5, <2>1, <2>3 DEF LocksAreHeld, At
<1>9. TokensAreUnique'
  <2>1. \A q \in Calls : Pending(q)' => q # r /\ Pending(q) /\ calls'[q] = calls[q]
    BY <1>4, <1>5 DEF Pending
  <2>. QED
    BY <1>5, <2>1 DEF RotationInv, TokensAreUnique, Exists, Holds
<1>10. SpentIsDead'
  BY <1>5 DEF RotationInv, SpentIsDead, Exists
<1>. QED
  BY <1>6, <1>7, <1>8, <1>9, <1>10 DEF RotationInv

LEMMA FailStep ==
    ASSUME RotationInv, NEW r \in Calls, Fail(r)
    PROVE  RotationInv'
<1>1. CASE calls[r].pc = "update"
  BY <1>1, RollbackStep
<1>2. CASE calls[r].pc # "update"
  <2>1. Running(r)
    BY DEF Fail
  <2>2. calls[r] \in Call
    BY <2>1, CallType
  <2>3. calls[r].browser \in Browsers /\ calls[r].session \in SessionIds \cup {Absent}
    BY <2>2 DEF Call
  <2>4. \A z \in SessionIds : locks[z] # r
    BY <1>2, AbsentIsNothing DEF RotationInv, LocksAreHeld, At
  <2>5. locks' = locks
    BY <2>4 DEF Fail, RotationInv, TypeOK
  <2>6. CASE \E code \in Codes : RefuseRefresh(r, code, calls[r].session)
    BY <1>2, <2>1, <2>3, <2>5, <2>6, RefuseRefreshStep DEF Fail
  <2>7. CASE Answer(r, "INTERNAL_ERROR", calls[r].browser, calls[r].session, {}, Absent)
    BY <1>2, <2>3, <2>5, <2>7, AnswerStep DEF Fail, Codes
  <2>. QED
    BY <2>6, <2>7 DEF Fail, Codes
<1>. QED
  BY <1>1, <1>2

-----------------------------------------------------------------------------
(***************************************************************************)
(* The two other writes of the sessions table.                             *)
(***************************************************************************)
LEMMA CreateSessionStep ==
    ASSUME RotationInv, NEW r \in Calls, NEW s \in SessionIds, CreateSession(r, s)
    PROVE  RotationInv'
<1> DEFINE row == [user |-> calls[r].user, token |-> calls[r].fresh,
                   expires |-> calls[r].at + SessionLifetime, revoked |-> FALSE]
           c == [pc |-> "done", code |-> "OK", browser |-> calls[r].browser, session |-> s,
                 cookies |-> {calls[r].fresh},
                 access |-> [user |-> calls[r].user, session |-> s,
                             expires |-> now + AccessLifetime]]
<1>1. Running(r) /\ calls[r].pc = "create" /\ Pending(r)
  BY DEF CreateSession, At, Running, Pending
<1>2. calls[r] \in Call /\ LocalsOK(r)
  BY <1>1, CallType
<1>3. /\ calls[r].user \in Users /\ calls[r].at \in Int /\ calls[r].browser \in Browsers
      /\ calls[r].fresh \in issued \ spent /\ calls[r].fresh \in Tokens
      /\ \A z \in SessionIds : ~Holds(z, calls[r].fresh)
  BY <1>1, <1>2 DEF Call, LocalsOK, RotationInv, TypeOK, TokensAreUnique
<1>4. /\ sessions' = [sessions EXCEPT ![s] = row] /\ calls' = [calls EXCEPT ![r] = c]
      /\ UNCHANGED <<users, locks, cookies, access, now, issued, spent, lost>>
  BY DEF CreateSession, Answer
<1>5. row \in Session /\ row.token = calls[r].fresh /\ row # Absent
  <2>1. calls[r].at + SessionLifetime \in Int
    BY <1>3, TimesAreNat
  <2>2. row \in Session
    BY <1>3, <2>1 DEF Session
  <2>. QED
    BY <2>2, AbsentIsNoRow
<1>6. c \in Reply /\ c.pc = "done"
  <2>1. now + AccessLifetime \in Int
    BY TimesAreNat DEF RotationInv, TypeOK
  <2>. QED
    BY <1>3, <2>1 DEF Reply, Codes, Access
<1>7. /\ calls'[r] = c /\ \A q \in Calls \ {r} : calls'[q] = calls[q]
      /\ sessions'[s] = row /\ \A z \in SessionIds \ {s} : sessions'[z] = sessions[z]
      /\ ~Exists(s)
  BY <1>4 DEF RotationInv, TypeOK, CreateSession
<1> HIDE DEF row, c
<1>8. TypeOK'
  BY <1>4, <1>5, <1>6 DEF RotationInv, TypeOK
<1>9. \A z \in SessionIds : Exists(z)' <=> Exists(z) \/ z = s
  BY <1>5, <1>7 DEF Exists
<1>10. \A q \in Calls : LocalsOK(q)'
  BY <1>6, <1>7, <1>9 DEF RotationInv, LocalsOK, RefreshPCs
<1>11. LocksAreHeld'
  <2>1. \A z \in SessionIds : locks[z] # Absent =>
          /\ locks[z] \in Calls \ {r}
          /\ calls[locks[z]].pc = "update" /\ calls[locks[z]].session = z
    BY <1>1 DEF RotationInv, TypeOK, LocksAreHeld, At
  <2>2. \A q \in Calls \ {r} : At(q, "update") =>
          /\ calls[q].session \in SessionIds \ {s}
          /\ locks[calls[q].session] = q
          /\ Holds(calls[q].session, calls[q].presented)
          /\ Usable(calls[q].session, calls[q].at)
    BY <1>7 DEF RotationInv, LocksAreHeld, LocalsOK, At
  <2>3. \A q \in Calls : At(q, "update")' =>
          (/\ locks[calls[q].session] = q
           /\ Holds(calls[q].session, calls[q].presented)
           /\ Usable(calls[q].session, calls[q].at))'
    BY <1>4, <1>6, <1>7, <2>2 DEF At, Holds, Usable, Exists
  <2>4. \A z \in SessionIds : locks'[z] # Absent =>
          calls'[locks'[z]].pc = "update" /\ calls'[locks'[z]].session = z
    BY <1>4, <1>7, <2>1
  <2>. QED
    BY <2>3, <2>4 DEF LocksAreHeld, At
<1>12. TokensAreUnique'
  <2>1. \A z \in SessionIds : Exists(z)' => sessions'[z].token \in issued'
    BY <1>3, <1>4, <1>5, <1>7, <1>9 DEF RotationInv, TokensAreUnique
  <2>2. \A y, z \in SessionIds :
          Exists(y)' /\ Exists(z)' /\ y # z => sessions'[y].token # sessions'[z].token
    BY <1>3, <1>5, <1>7, <1>9 DEF RotationInv, TokensAreUnique, Holds
  <2>3. \A q \in Calls : Pending(q)' => q # r /\ Pending(q) /\ calls'[q] = calls[q]
    BY <1>6, <1>7 DEF Pending
  <2>4. \A q \in Calls : Pending(q) /\ q # r => calls[q].fresh # calls[r].fresh
    BY <1>1 DEF RotationInv, TokensAreUnique
  <2>5. \A q \in Calls : Pending(q)' =>
          /\ calls'[q].fresh \in issued' \ spent'
          /\ \A z \in SessionIds :
               Exists(z)' => sessions'[z].token # calls'[q].fresh
    BY <1>4, <1>5, <1>7, <1>9, <2>3, <2>4 DEF RotationInv, TokensAreUnique, Holds
  <2>6. \A p, q \in Calls : Pending(p)' /\ Pending(q)' /\ p # q
                               => calls'[p].fresh # calls'[q].fresh
    BY <2>3 DEF RotationInv, TokensAreUnique
  <2>. QED
    BY <2>1, <2>2, <2>5, <2>6 DEF TokensAreUnique, Holds
<1>13. SpentIsDead'
  BY <1>3, <1>4, <1>5, <1>7, <1>9 DEF RotationInv, SpentIsDead
<1>. QED
  BY <1>8, <1>10, <1>11, <1>12, <1>13 DEF RotationInv

LEMMA RevokeStep ==
    ASSUME RotationInv, NEW r \in Calls, Revoke(r)
    PROVE  RotationInv'
<1> DEFINE s == calls[r].session
           row == [sessions[s] EXCEPT !.revoked = TRUE]
           c == [pc |-> "done", code |-> "OK", browser |-> calls[r].browser, session |-> s,
                 cookies |-> {Absent}, access |-> Absent]
<1>1. Running(r) /\ calls[r].pc = "revoke"
  BY DEF Revoke, At, Running
<1>2. calls[r] \in Call /\ LocalsOK(r)
  BY <1>1, CallType
<1>3. s \in SessionIds /\ sessions[s] \in Session /\ Exists(s)
  BY <1>1, <1>2 DEF LocalsOK, Exists, RotationInv, TypeOK
<1>4. /\ sessions' = [sessions EXCEPT ![s] = row] /\ calls' = [calls EXCEPT ![r] = c]
      /\ locks[s] = Absent
      /\ UNCHANGED <<users, locks, cookies, access, now, issued, spent, lost>>
  BY DEF Revoke, Answer
<1>5. row \in Session /\ row.token = sessions[s].token /\ row # Absent
  BY <1>3, AbsentIsNoRow DEF Session
<1>6. c \in Reply /\ c.pc = "done"
  BY <1>2, <1>3 DEF Reply, Codes, Call
<1>7. /\ calls'[r] = c /\ \A q \in Calls \ {r} : calls'[q] = calls[q]
      /\ sessions'[s] = row /\ \A z \in SessionIds \ {s} : sessions'[z] = sessions[z]
  BY <1>3, <1>4 DEF RotationInv, TypeOK
<1> HIDE DEF row, c, s
<1>8. TypeOK'
  BY <1>3, <1>4, <1>5, <1>6 DEF RotationInv, TypeOK
<1>9. \A z \in SessionIds :
        /\ Exists(z)' <=> Exists(z)
        /\ Exists(z) => sessions'[z].token = sessions[z].token
  BY <1>3, <1>5, <1>7 DEF Exists
<1>10. \A q \in Calls : LocalsOK(q)'
  BY <1>6, <1>7, <1>9 DEF RotationInv, LocalsOK, RefreshPCs
<1>11. LocksAreHeld'
  <2>1. \A z \in SessionIds : locks[z] # Absent =>
          /\ locks[z] \in Calls \ {r}
          /\ calls[locks[z]].pc = "update" /\ calls[locks[z]].session = z
    BY <1>1 DEF RotationInv, TypeOK, LocksAreHeld, At
  <2>2. \A q \in Calls \ {r} : At(q, "update") =>
          /\ calls[q].session \in SessionIds \ {s}
          /\ locks[calls[q].session] = q
          /\ Holds(calls[q].session, calls[q].presented)
          /\ Usable(calls[q].session, calls[q].at)
    BY <1>4, AbsentIsNothing DEF RotationInv, LocksAreHeld, LocalsOK, At
  <2>3. \A q \in Calls : At(q, "update")' =>
          (/\ locks[calls[q].session] = q
           /\ Holds(calls[q].session, calls[q].presented)
           /\ Usable(calls[q].session, calls[q].at))'
    BY <1>4, <1>6, <1>7, <2>2 DEF At, Holds, Usable, Exists
  <2>4. \A z \in SessionIds : locks'[z] # Absent =>
          calls'[locks'[z]].pc = "update" /\ calls'[locks'[z]].session = z
    BY <1>4, <1>7, <2>1
  <2>. QED
    BY <2>3, <2>4 DEF LocksAreHeld, At
<1>12. TokensAreUnique'
  <2>1. \A q \in Calls : Pending(q)' => Pending(q) /\ calls'[q] = calls[q]
    BY <1>6, <1>7 DEF Pending
  <2>2. \A z \in SessionIds : Exists(z)' => sessions'[z].token \in issued'
    BY <1>4, <1>9 DEF RotationInv, TokensAreUnique
  <2>3. \A y, z \in SessionIds :
          Exists(y)' /\ Exists(z)' /\ y # z => sessions'[y].token # sessions'[z].token
    BY <1>9 DEF RotationInv, TokensAreUnique
  <2>4. \A q \in Calls : Pending(q)' =>
          /\ calls'[q].fresh \in issued' \ spent'
          /\ \A z \in SessionIds :
               Exists(z)' => sessions'[z].token # calls'[q].fresh
    BY <1>4, <1>9, <2>1 DEF RotationInv, TokensAreUnique, Holds
  <2>5. \A p, q \in Calls : Pending(p)' /\ Pending(q)' /\ p # q
                               => calls'[p].fresh # calls'[q].fresh
    BY <2>1 DEF RotationInv, TokensAreUnique
  <2>. QED
    BY <2>2, <2>3, <2>4, <2>5 DEF TokensAreUnique, Holds
<1>13. SpentIsDead'
  BY <1>4, <1>9 DEF RotationInv, SpentIsDead
<1>. QED
  BY <1>8, <1>10, <1>11, <1>12, <1>13 DEF RotationInv

-----------------------------------------------------------------------------
LEMMA InitInv == Init => RotationInv
<1> SUFFICES ASSUME Init PROVE RotationInv
  OBVIOUS
<1>1. TypeOK
  BY DEF Init, TypeOK
<1>2. \A r \in Calls : calls[r].pc = "idle"
  BY DEF Init, Idle
<1>. QED
  BY <1>1, <1>2 DEF Init, RotationInv, LocalsOK, RefreshPCs, LocksAreHeld, TokensAreUnique,
                    SpentIsDead, At, Pending, Exists

LEMMA NextInv == RotationInv /\ [Next]_vars => RotationInv'
<1> SUFFICES ASSUME RotationInv, [Next]_vars PROVE RotationInv'
  OBVIOUS
<1>1. ASSUME NEW r \in Calls, Step(r)
      PROVE  RotationInv'
  <2>1. ASSUME NEW s \in SessionIds,
               RefuseRotation(r, s) \/ SelectForUpdate(r, s) \/ CreateSession(r, s)
        PROVE  RotationInv'
    BY <2>1, RefusedStep, SelectForUpdateStep, CreateSessionStep
  <2>. QED
    BY <1>1, <2>1, RefusedStep, RotateStep, CheckExpiryStep, CheckUserStep, RevokeStep
       DEF Step
<1>2. ASSUME NEW u \in Users, Disable(u)
      PROVE  RotationInv'
  <2>1. TypeOK'
    BY <1>2 DEF Disable, RotationInv, TypeOK
  <2>. QED
    BY <1>2, <2>1 DEF Disable, RotationInv, LocalsOK, LocksAreHeld, TokensAreUnique, SpentIsDead,
                      At, Pending, Exists, Holds, Usable
<1>3. CASE Tick
  <2>1. TypeOK'
    BY <1>3 DEF Tick, RotationInv, TypeOK
  <2>. QED
    BY <1>3, <2>1 DEF Tick, RotationInv, LocalsOK, LocksAreHeld, TokensAreUnique, SpentIsDead,
                      At, Pending, Exists, Holds, Usable
<1>4. CASE UNCHANGED vars
  <2>1. TypeOK'
    BY <1>4 DEF vars, RotationInv, TypeOK
  <2>. QED
    BY <1>4, <2>1 DEF vars, RotationInv, LocalsOK, LocksAreHeld, TokensAreUnique, SpentIsDead,
                      At, Pending, Exists, Holds, Usable
<1>. QED
  BY <1>1, <1>2, <1>3, <1>4, FailStep, DeliverStep, CallRefreshStep, CallLogoutStep,
     CallLoginStep DEF Next

-----------------------------------------------------------------------------
(***************************************************************************)
(* The cookie jars.  A call that goes on without touching them carries     *)
(* what it carried or what it has just generated, presents what it         *)
(* presented or its browser's cookie, and goes on answering its browser.   *)
(***************************************************************************)
GoesOn(r) ==
    /\ UNCHANGED <<cookies, spent, lost>> /\ issued \subseteq issued'
    /\ \A q \in Calls \ {r} : calls'[q] = calls[q]
    /\ \A t \in Tokens : Carries(r, t)' => Carries(r, t) \/ t \in issued' \ issued
    /\ \A t \in Tokens : Presents(r, t)' =>
          \/ Presents(r, t) /\ calls'[r].browser = calls[r].browser
          \/ calls'[r].browser \in Browsers /\ cookies[calls'[r].browser] = t
    /\ \A b \in Browsers : Answering(r, b) => Answering(r, b)'

LEMMA CookiesKept ==
    ASSUME IInv, NEW r \in Calls, GoesOn(r)
    PROVE  CookiesAreOwn' /\ NoSpentCookie'
<1>1. spent \subseteq issued
  BY DEF IInv, RotationInv, TypeOK
<1>2. \A q \in Calls \ {r}, t \in Tokens :
        (Carries(q, t)' <=> Carries(q, t)) /\ (Presents(q, t)' <=> Presents(q, t))
  BY DEF GoesOn, Carries, Presents, At
<1>3. ASSUME NEW t \in Tokens, NEW q \in Calls, Carries(q, t)'
      PROVE  /\ t \in issued' \ spent'
             /\ \A p \in Calls : ~Presents(p, t)' /\ (Carries(p, t)' => p = q)
             /\ \A b \in Browsers : cookies'[b] # t
  <2>1. CASE Carries(q, t)
    <3>1. /\ t \in issued \ spent
          /\ \A p \in Calls : ~Presents(p, t) /\ (Carries(p, t) => p = q)
          /\ \A b \in Browsers : cookies[b] # t
      BY <2>1 DEF GoesOn, IInv, CookiesAreOwn
    <3>. QED
      BY <1>2, <3>1 DEF GoesOn
  <2>2. CASE ~Carries(q, t)
    <3>1. q = r /\ t \notin issued /\ t \in issued'
      BY <1>2, <1>3, <2>2 DEF GoesOn
    <3>2. /\ \A p \in Calls : ~Presents(p, t) /\ ~Carries(p, t)
          /\ \A b \in Browsers : cookies[b] # t
      BY <3>1 DEF IInv, CookiesAreOwn
    <3>. QED
      BY <1>1, <1>2, <3>1, <3>2 DEF GoesOn
  <2>. QED
    BY <2>1, <2>2
<1>4. ASSUME NEW t \in Tokens, NEW q \in Calls, Presents(q, t)'
      PROVE  t \in issued' /\ \A b \in Browsers : cookies'[b] = t => b = calls'[q].browser
  <2>1. CASE Presents(q, t) /\ calls'[q].browser = calls[q].browser
    BY <2>1 DEF GoesOn, IInv, CookiesAreOwn
  <2>2. CASE calls'[q].browser \in Browsers /\ cookies[calls'[q].browser] = t
    BY <2>2 DEF GoesOn, IInv, CookiesAreOwn
  <2>. QED
    BY <1>2, <1>4, <2>1, <2>2 DEF GoesOn
<1>5. \A t \in Tokens, b \in Browsers : cookies'[b] = t =>
        t \in issued' /\ \A d \in Browsers : cookies'[d] = t => d = b
  BY DEF GoesOn, IInv, CookiesAreOwn
<1>6. CookiesAreOwn'
  BY <1>3, <1>4, <1>5 DEF CookiesAreOwn
<1>7. \A q \in Calls, b \in Browsers : Answering(q, b) => Answering(q, b)'
  BY DEF GoesOn, Answering, At
<1>8. NoSpentCookie'
  BY <1>7 DEF GoesOn, IInv, NoSpentCookie
<1>. QED
  BY <1>6, <1>8

(***************************************************************************)
(* An answer carries at most what the call carried, and is a witness       *)
(* wherever the call was one.                                              *)
(***************************************************************************)
LEMMA AnswerKept ==
    ASSUME IInv, NEW r \in Calls, NEW code, NEW b, NEW s, NEW set, NEW token,
           Answer(r, code, b, s, set, token),
           \A t \in Tokens : t \in set => Carries(r, t),
           ~At(r, "done"),
           calls[r].pc \in RefreshPCs => b = calls[r].browser /\ set # {},
           UNCHANGED <<cookies, issued, spent, lost>>
    PROVE  CookiesAreOwn' /\ NoSpentCookie'
<1> DEFINE c == [pc |-> "done", code |-> code, browser |-> b, session |-> s,
                 cookies |-> set, access |-> token]
<1>1. calls'[r] = c /\ \A q \in Calls \ {r} : calls'[q] = calls[q]
  BY DEF Answer, IInv, RotationInv, TypeOK
<1>2. c.pc = "done" /\ c.browser = b /\ c.cookies = set
  OBVIOUS
<1> HIDE DEF c
<1>3. \A t \in Tokens : (Carries(r, t)' <=> t \in set) /\ ~Presents(r, t)'
  BY <1>1, <1>2 DEF Carries, Presents, RefreshPCs, At
<1>4. \A d \in Browsers : Answering(r, d) => Answering(r, d)'
  BY <1>1, <1>2 DEF Answering, RefreshPCs, At
<1>5. GoesOn(r)
  BY <1>1, <1>3, <1>4 DEF GoesOn
<1>. QED
  BY <1>5, CookiesKept

LEMMA RefuseRefreshKept ==
    ASSUME IInv, NEW r \in Calls, NEW code, NEW s, RefuseRefresh(r, code, s), Running(r),
           UNCHANGED <<cookies, issued, spent, lost>>
    PROVE  CookiesAreOwn' /\ NoSpentCookie'
BY AnswerKept, AbsentIsNothing DEF RefuseRefresh, Running, At

-----------------------------------------------------------------------------
LEMMA CallsKeepCookies ==
    ASSUME IInv, NEW r \in Calls, NEW b \in Browsers,
           \/ CallRefresh(r, b) \/ CallLogout(r, b)
           \/ \E u \in Users : CallLogin(r, b, u)
    PROVE  CookiesAreOwn' /\ NoSpentCookie'
<1>1. calls[r].pc = "idle" /\ UNCHANGED <<cookies, spent, lost>>
  BY DEF CallRefresh, CallLogout, CallLogin, At
<1>2. CASE (\E code \in Codes : Answer(r, code, b, Absent, {}, Absent)) /\ UNCHANGED issued
  BY <1>1, <1>2, AnswerKept DEF At, RefreshPCs
<1>3. ASSUME NEW c, Goto(r, c), c.browser = b, issued \subseteq issued',
             \/ c.pc = "select" /\ c.presented = cookies[b] /\ c.fresh \in issued' \ issued
             \/ c.pc = "create" /\ c.fresh \in issued' \ issued
             \/ c.pc = "revoke"
      PROVE  CookiesAreOwn' /\ NoSpentCookie'
  <2>1. calls'[r] = c /\ \A q \in Calls \ {r} : calls'[q] = calls[q]
    BY <1>3 DEF Goto, IInv, RotationInv, TypeOK
  <2>2. \A t \in Tokens : Carries(r, t)' => t \notin issued /\ t \in issued'
    BY <1>3, <2>1 DEF Carries, RefreshPCs, At
  <2>3. \A t \in Tokens : Presents(r, t)' => cookies[calls'[r].browser] = t
    BY <1>3, <2>1 DEF Presents, RefreshPCs
  <2>4. \A d \in Browsers : ~Answering(r, d)
    BY <1>1 DEF Answering, At
  <2>5. GoesOn(r)
    BY <1>1, <1>3, <2>1, <2>2, <2>3, <2>4 DEF GoesOn
  <2>. QED
    BY <2>5, CookiesKept
<1>4. CASE CallRefresh(r, b)
  <2>1. CASE cookies[b] = Absent
    BY <1>2, <1>4, <2>1 DEF CallRefresh, Codes
  <2>2. CASE cookies[b] # Absent
    <3>1. PICK t \in Fresh :
            /\ Goto(r, [pc |-> "select", browser |-> b, user |-> Absent,
                        session |-> Absent, presented |-> cookies[b], fresh |-> t,
                        at |-> now, until |-> now])
            /\ issued' = issued \cup {t}
      BY <1>4, <2>2 DEF CallRefresh
    <3>. QED
      BY <1>3, <3>1 DEF Fresh
  <2>. QED
    BY <2>1, <2>2
<1>5. ASSUME NEW u \in Users, CallLogin(r, b, u)
      PROVE  CookiesAreOwn' /\ NoSpentCookie'
  <2>1. CASE users[u] # "ACTIVE"
    BY <1>2, <1>5, <2>1 DEF CallLogin, Codes
  <2>2. CASE users[u] = "ACTIVE"
    <3>1. PICK t \in Fresh :
            /\ Goto(r, [pc |-> "create", browser |-> b, user |-> u,
                        session |-> Absent, presented |-> Absent, fresh |-> t,
                        at |-> now, until |-> now])
            /\ issued' = issued \cup {t}
      BY <1>5, <2>2 DEF CallLogin
    <3>. QED
      BY <1>3, <3>1 DEF Fresh
  <2>. QED
    BY <2>1, <2>2
<1>6. CASE CallLogout(r, b)
  BY <1>2, <1>3, <1>6 DEF CallLogout, Codes
<1>. QED
  BY <1>4, <1>5, <1>6

(***************************************************************************)
(* A running call's steps other than the rotation itself.                  *)
(***************************************************************************)
LEMMA LocalsKeepCookies ==
    ASSUME IInv, NEW r \in Calls,
           \/ NoSuchCredential(r) \/ CheckExpiry(r) \/ CheckUser(r) \/ Revoke(r) \/ Fail(r)
           \/ \E s \in SessionIds :
                RefuseRotation(r, s) \/ SelectForUpdate(r, s) \/ CreateSession(r, s)
    PROVE  CookiesAreOwn' /\ NoSpentCookie'
<1>1. Running(r) /\ UNCHANGED <<cookies, issued, spent, lost>>
  BY DEF NoSuchCredential, CheckExpiry, CheckUser, Revoke, Fail, RefuseRotation,
         SelectForUpdate, CreateSession, At, Running
<1>2. calls[r] \in Call
  BY <1>1, CallType DEF IInv
<1>3. CASE \E code, s : RefuseRefresh(r, code, s)
  BY <1>1, <1>3, RefuseRefreshKept
<1>4. ASSUME NEW pc \in RefreshPCs, NEW c, Goto(r, c), calls[r].pc \in RefreshPCs,
             c.pc = pc, c.browser = calls[r].browser,
             c.fresh = calls[r].fresh, c.presented = calls[r].presented,
             calls[r].pc \in {"expiry", "user"} => c.pc \in {"expiry", "user"}
      PROVE  CookiesAreOwn' /\ NoSpentCookie'
  <2>1. calls'[r] = c /\ \A q \in Calls \ {r} : calls'[q] = calls[q]
    BY <1>4 DEF Goto, IInv, RotationInv, TypeOK
  <2>2. \A t \in Tokens : Carries(r, t)' => Carries(r, t)
    BY <1>4, <2>1 DEF Carries, RefreshPCs, At
  <2>3. \A t \in Tokens : Presents(r, t)' => Presents(r, t) /\ calls'[r].browser = calls[r].browser
    BY <1>4, <2>1 DEF Presents
  <2>4. \A d \in Browsers : Answering(r, d) => Answering(r, d)'
    BY <1>4, <2>1 DEF Answering, RefreshPCs, At
  <2>5. GoesOn(r)
    BY <1>1, <2>1, <2>2, <2>3, <2>4 DEF GoesOn
  <2>. QED
    BY <2>5, CookiesKept
<1>5. ASSUME NEW s \in SessionIds, SelectForUpdate(r, s)
      PROVE  CookiesAreOwn' /\ NoSpentCookie'
  <2> DEFINE c == [calls[r] EXCEPT !.pc = "update", !.session = s, !.user = sessions[s].user]
  <2>1. Goto(r, c) /\ calls[r].pc = "select"
    BY <1>5 DEF SelectForUpdate, At
  <2>2. /\ c.pc = "update" /\ c.browser = calls[r].browser
        /\ c.fresh = calls[r].fresh /\ c.presented = calls[r].presented
    BY <1>2 DEF Call
  <2> HIDE DEF c
  <2>. QED
    BY <1>4, <2>1, <2>2 DEF RefreshPCs
<1>6. CASE CheckExpiry(r)
  <2> DEFINE c == [calls[r] EXCEPT !.pc = "user", !.until = now + AccessLifetime]
  <2>1. Goto(r, c) \/ \E code, s : RefuseRefresh(r, code, s)
    BY <1>6 DEF CheckExpiry
  <2>2. /\ c.pc = "user" /\ c.browser = calls[r].browser
        /\ c.fresh = calls[r].fresh /\ c.presented = calls[r].presented
    BY <1>2 DEF Call
  <2>3. calls[r].pc = "expiry"
    BY <1>6 DEF CheckExpiry, At
  <2> HIDE DEF c
  <2>. QED
    BY <1>3, <1>4, <2>1, <2>2, <2>3 DEF RefreshPCs
<1>7. ASSUME NEW code, NEW s, NEW token,
             \/ Answer(r, code, calls[r].browser, s, {calls[r].fresh}, token)
                /\ calls[r].pc \in {"user", "create"}
             \/ Answer(r, code, calls[r].browser, s, {Absent}, token)
             \/ Answer(r, code, calls[r].browser, s, {}, token)
                /\ calls[r].pc \notin RefreshPCs
      PROVE  CookiesAreOwn' /\ NoSpentCookie'
  <2>1. ~At(r, "done")
    BY <1>1 DEF Running, At
  <2>2. calls[r].pc \in {"user", "create"} =>
          \A t \in Tokens : t \in {calls[r].fresh} => Carries(r, t)
    BY DEF Carries, RefreshPCs
  <2>3. \A t \in Tokens : t \notin {Absent}
    BY AbsentIsNothing
  <2>. QED
    BY <1>1, <1>7, <2>1, <2>2, <2>3, AnswerKept
<1>8. CASE CheckUser(r)
  BY <1>3, <1>7, <1>8 DEF CheckUser, At
<1>9. CASE Revoke(r)
  BY <1>7, <1>9 DEF Revoke
<1>10. ASSUME NEW s \in SessionIds, CreateSession(r, s)
       PROVE  CookiesAreOwn' /\ NoSpentCookie'
  BY <1>7, <1>10 DEF CreateSession, At
<1>11. CASE Fail(r)
  BY <1>3, <1>7, <1>11 DEF Fail
<1>12. CASE NoSuchCredential(r) \/ \E s \in SessionIds : RefuseRotation(r, s)
  BY <1>3, <1>12 DEF NoSuchCredential, RefuseRotation
<1>. QED
  BY <1>5, <1>6, <1>8, <1>9, <1>10, <1>11, <1>12

(***************************************************************************)
(* The rotation spends the credential its own browser presented, and from  *)
(* then on has an answer for that browser.                                 *)
(***************************************************************************)
LEMMA RotateKeepsCookies ==
    ASSUME IInv, NEW r \in Calls, Rotate(r)
    PROVE  CookiesAreOwn' /\ NoSpentCookie'
<1> DEFINE c == [calls[r] EXCEPT !.pc = "expiry"]
           p == calls[r].presented
<1>1. /\ calls[r] \in Call /\ calls[r].pc = "update"
      /\ calls' = [calls EXCEPT ![r] = c] /\ spent' = spent \cup {p}
      /\ UNCHANGED <<cookies, issued, lost>>
  BY RotateHits DEF IInv
<1>2. /\ c.pc = "expiry" /\ c.browser = calls[r].browser
      /\ c.fresh = calls[r].fresh /\ c.presented = p
  BY <1>1 DEF Call
<1>3. calls'[r] = c /\ \A q \in Calls \ {r} : calls'[q] = calls[q]
  BY <1>1 DEF IInv, RotationInv, TypeOK
<1>4. p \in Tokens /\ Presents(r, p)
  BY <1>1 DEF IInv, RotationInv, LocalsOK, RefreshPCs, Presents
<1> HIDE DEF c, p
<1>5. \A q \in Calls, t \in Tokens :
        /\ Carries(q, t)' <=> Carries(q, t)
        /\ Presents(q, t)' <=> Presents(q, t)
        /\ calls'[q].browser = calls[q].browser
  BY <1>1, <1>2, <1>3 DEF Carries, Presents, RefreshPCs, At, p
<1>6. \A q \in Calls, t \in Tokens : Carries(q, t) => t # p
  BY <1>4 DEF IInv, CookiesAreOwn
<1>7. CookiesAreOwn'
  <2>1. \A t \in Tokens, q \in Calls : Carries(q, t)' =>
          /\ t \in issued' \ spent'
          /\ \A d \in Calls : ~Presents(d, t)' /\ (Carries(d, t)' => d = q)
          /\ \A b \in Browsers : cookies'[b] # t
    BY <1>1, <1>5, <1>6 DEF IInv, CookiesAreOwn
  <2>2. \A t \in Tokens, q \in Calls : Presents(q, t)' =>
          t \in issued' /\ \A b \in Browsers : cookies'[b] = t => b = calls'[q].browser
    BY <1>1, <1>5 DEF IInv, CookiesAreOwn
  <2>3. \A t \in Tokens, b \in Browsers : cookies'[b] = t =>
          t \in issued' /\ \A d \in Browsers : cookies'[d] = t => d = b
    BY <1>1 DEF IInv, CookiesAreOwn
  <2>. QED
    BY <2>1, <2>2, <2>3 DEF CookiesAreOwn
<1>8. \A b \in Browsers : cookies[b] = p => Answering(r, b)'
  BY <1>2, <1>3, <1>4 DEF IInv, CookiesAreOwn, Answering, At
<1>9. \A q \in Calls, b \in Browsers : Answering(q, b) => Answering(q, b)'
  BY <1>1, <1>2, <1>3 DEF Answering, At
<1>10. NoSpentCookie'
  BY <1>1, <1>8, <1>9 DEF IInv, NoSpentCookie
<1>. QED
  BY <1>7, <1>10

(***************************************************************************)
(* A delivered answer leaves its browser a credential nobody has spent, or *)
(* none; a lost one is the history variable's business.                    *)
(***************************************************************************)
LEMMA DeliverKeepsCookies ==
    ASSUME IInv, NEW r \in Calls, Deliver(r) \/ Lose(r)
    PROVE  CookiesAreOwn' /\ NoSpentCookie'
<1>1. /\ calls[r] \in Reply /\ calls[r].pc = "done"
      /\ calls[r].browser \in Browsers
      /\ calls[r].cookies \subseteq Tokens \cup {Absent}
  <2>1. calls[r] \in Reply /\ calls[r].pc = "done"
    BY DEF Deliver, Lose, At, IInv, RotationInv, TypeOK, Idle, Call, RefreshPCs
  <2>. QED
    BY <2>1 DEF Reply
<1> DEFINE b == calls[r].browser
<1>2. /\ calls'[r] = Idle /\ \A q \in Calls \ {r} : calls'[q] = calls[q]
      /\ UNCHANGED <<issued, spent>> /\ spent \subseteq issued
      /\ cookies \in [Browsers -> Tokens \cup {Absent}]
  BY DEF Deliver, Lose, Goto, IInv, RotationInv, TypeOK
<1>3. \A t \in Tokens, q \in Calls :
        /\ Carries(q, t)' <=> Carries(q, t) /\ q # r
        /\ Presents(q, t)' <=> Presents(q, t)
        /\ Presents(q, t) => q # r /\ calls'[q].browser = calls[q].browser
  <2>1. \A t \in Tokens : ~Carries(r, t)' /\ ~Presents(r, t)' /\ ~Presents(r, t)
    BY <1>1, <1>2 DEF Carries, Presents, RefreshPCs, Idle, At
  <2>2. \A t \in Tokens, q \in Calls \ {r} :
          (Carries(q, t)' <=> Carries(q, t)) /\ (Presents(q, t)' <=> Presents(q, t))
    BY <1>2 DEF Carries, Presents, At
  <2>. QED
    BY <1>2, <2>1, <2>2
<1>4. \A q \in Calls, d \in Browsers : Answering(q, d) /\ q # r => Answering(q, d)'
  BY <1>2 DEF Answering, At
<1>5. ASSUME cookies' = cookies
      PROVE  CookiesAreOwn'
  BY <1>2, <1>3, <1>5 DEF IInv, CookiesAreOwn
<1>6. ASSUME NEW c \in calls[r].cookies, cookies' = [cookies EXCEPT ![b] = c]
      PROVE  CookiesAreOwn'
  <2>1. c = Absent \/ (c \in Tokens /\ Carries(r, c))
    BY <1>1 DEF Carries, At
  <2>2. Absent \notin Tokens
    BY AbsentIsNothing
  <2>3. \A d \in Browsers : cookies'[d] = IF d = b THEN c ELSE cookies[d]
    BY <1>2, <1>6
  <2>4. c \in Tokens =>
          /\ c \in issued \ spent
          /\ \A q \in Calls : ~Presents(q, c) /\ (Carries(q, c) => q = r)
          /\ \A d \in Browsers : cookies[d] # c
    BY <2>1, <2>2 DEF IInv, CookiesAreOwn
  <2> HIDE DEF b
  <2>5. \A t \in Tokens, q \in Calls : Carries(q, t)' =>
          /\ t \in issued' \ spent'
          /\ \A d \in Calls : ~Presents(d, t)' /\ (Carries(d, t)' => d = q)
          /\ \A d \in Browsers : cookies'[d] # t
    BY <1>2, <1>3, <2>3, <2>4 DEF IInv, CookiesAreOwn
  <2>6. \A t \in Tokens, q \in Calls : Presents(q, t)' =>
          t \in issued' /\ \A d \in Browsers : cookies'[d] = t => d = calls'[q].browser
    BY <1>2, <1>3, <2>3, <2>4 DEF IInv, CookiesAreOwn
  <2>7. \A t \in Tokens, d \in Browsers : cookies'[d] = t =>
          t \in issued' /\ \A e \in Browsers : cookies'[e] = t => e = d
    BY <1>2, <2>3, <2>4 DEF IInv, CookiesAreOwn
  <2>. QED
    BY <2>5, <2>6, <2>7 DEF CookiesAreOwn
<1>7. CookiesAreOwn'
  BY <1>5, <1>6 DEF Deliver, Lose
<1>8. ASSUME NEW d \in Browsers, d \notin lost', cookies'[d] \in spent'
      PROVE  \E q \in Calls : Answering(q, d)'
  <2>1. CASE d # b
    <3>1. d \notin lost /\ cookies'[d] = cookies[d]
      BY <1>2, <1>8, <2>1 DEF Deliver, Lose
    <3>2. PICK q \in Calls : Answering(q, d)
      BY <1>2, <1>8, <3>1 DEF IInv, NoSpentCookie
    <3>3. q # r
      BY <2>1, <3>2 DEF Answering
    <3>. QED
      BY <1>4, <3>2, <3>3
  <2>2. CASE d = b
    <3>1. Deliver(r)
      BY <1>1, <1>8, <2>2 DEF Lose
    <3>2. ASSUME NEW c \in calls[r].cookies, cookies' = [cookies EXCEPT ![b] = c]
          PROVE  FALSE
      <4>1. c \in spent
        BY <1>1, <1>2, <1>8, <2>2, <3>2
      <4>2. c \in Tokens /\ Carries(r, c)
        BY <1>1, <4>1 DEF Carries, At, IInv, RotationInv, TypeOK
      <4>. QED
        BY <4>1, <4>2 DEF IInv, CookiesAreOwn
    <3>3. calls[r].cookies = {} /\ cookies' = cookies /\ lost' = lost
      BY <3>1, <3>2 DEF Deliver
    <3>4. PICK q \in Calls : Answering(q, d)
      BY <1>2, <1>8, <3>3 DEF IInv, NoSpentCookie
    <3>5. q # r
      BY <1>1, <3>3, <3>4 DEF Answering, At
    <3>. QED
      BY <1>4, <3>4, <3>5
  <2>. QED
    BY <2>1, <2>2
<1>9. NoSpentCookie'
  BY <1>8 DEF NoSpentCookie
<1>. QED
  BY <1>7, <1>9

LEMMA InitCookies == Init => CookiesAreOwn /\ NoSpentCookie
BY AbsentIsNothing
   DEF Init, CookiesAreOwn, NoSpentCookie, Carries, Presents, Idle, RefreshPCs, At

LEMMA NextCookies == IInv /\ [Next]_vars => CookiesAreOwn' /\ NoSpentCookie'
<1> SUFFICES ASSUME IInv, [Next]_vars PROVE CookiesAreOwn' /\ NoSpentCookie'
  OBVIOUS
<1>1. ASSUME UNCHANGED <<cookies, calls, issued, spent, lost>>
      PROVE  CookiesAreOwn' /\ NoSpentCookie'
  BY <1>1 DEF IInv, CookiesAreOwn, NoSpentCookie, Carries, Presents, Answering, At
<1>2. CASE UNCHANGED vars \/ Tick \/ \E u \in Users : Disable(u)
  BY <1>1, <1>2 DEF vars, Tick, Disable
<1>3. ASSUME NEW r \in Calls, Step(r) \/ Fail(r)
      PROVE  CookiesAreOwn' /\ NoSpentCookie'
  BY <1>3, LocalsKeepCookies, RotateKeepsCookies DEF Step
<1>. QED
  BY <1>2, <1>3, CallsKeepCookies, DeliverKeepsCookies DEF Next

(***************************************************************************)
(* Every reachable state satisfies the invariant, for all constants.       *)
(***************************************************************************)
THEOREM Invariance == Spec => []IInv
<1>1. Init => IInv
  BY InitInv, InitCookies DEF IInv
<1>2. IInv /\ [Next]_vars => IInv'
  BY NextInv, NextCookies DEF IInv
<1>. QED
  BY <1>1, <1>2, PTL DEF Spec

(***************************************************************************)
(* A refresh credential that a rotation has replaced names no session ever *)
(* again: Rotate never hands one credential to two callers.                *)
(***************************************************************************)
THEOREM CredentialsAreSingleUse == Spec => []SpentIsDead
<1>1. IInv => SpentIsDead
  BY DEF IInv, RotationInv
<1>. QED
  BY <1>1, Invariance, PTL

(***************************************************************************)
(* A browser that missed no answer is never left with a replaced           *)
(* credential unless the answer that replaces or clears it is on its way,  *)
(* in whatever order concurrent answers arrive.                            *)
(***************************************************************************)
THEOREM CookiesFollowRotation == Spec => []NoSpentCookie
<1>1. IInv => NoSpentCookie
  BY DEF IInv
<1>. QED
  BY <1>1, Invariance, PTL

(***************************************************************************)
(* A row's user and expiry never change, and a revoked row not at all.     *)
(***************************************************************************)
RowKept(s) ==
    Exists(s) =>
        /\ Exists(s)'
        /\ sessions'[s].user = sessions[s].user
        /\ sessions'[s].expires = sessions[s].expires
        /\ sessions[s].revoked => sessions'[s] = sessions[s]

LEMMA StepKeepsRows ==
    ASSUME RotationInv, [Next]_vars, NEW s \in SessionIds
    PROVE  RowKept(s)
<1>1. CASE sessions' = sessions
  BY <1>1 DEF RowKept, Exists
<1>2. ASSUME NEW r \in Calls, Rotate(r)
      PROVE  RowKept(s)
  <2> DEFINE z == calls[r].session
             row == [sessions[z] EXCEPT !.token = calls[r].fresh]
  <2>1. /\ z \in SessionIds /\ sessions[z] \in Session /\ ~sessions[z].revoked
        /\ sessions' = [sessions EXCEPT ![z] = row]
        /\ calls[r] \in Call /\ calls[r].pc = "update"
    BY <1>2, RotateHits
  <2>2. calls[r].fresh \in Tokens
    BY <2>1 DEF RotationInv, LocalsOK, RefreshPCs
  <2>3. /\ row \in Session /\ row # Absent
        /\ row.user = sessions[z].user /\ row.expires = sessions[z].expires
    BY <2>1, <2>2, AbsentIsNoRow DEF Session
  <2>4. sessions'[s] = IF s = z THEN row ELSE sessions[s]
    BY <2>1 DEF RotationInv, TypeOK
  <2> HIDE DEF row, z
  <2>. QED
    BY <2>1, <2>3, <2>4 DEF RowKept, Exists
<1>3. ASSUME NEW r \in Calls, NEW z \in SessionIds, CreateSession(r, z)
      PROVE  RowKept(s)
  BY <1>3 DEF CreateSession, RowKept, Exists, RotationInv, TypeOK
<1>4. ASSUME NEW r \in Calls, Revoke(r)
      PROVE  RowKept(s)
  <2> DEFINE z == calls[r].session
             row == [sessions[z] EXCEPT !.revoked = TRUE]
  <2>1. z \in SessionIds /\ Exists(z)
    BY <1>4 DEF Revoke, At, RotationInv, LocalsOK
  <2>2. sessions[z] \in Session /\ sessions' = [sessions EXCEPT ![z] = row]
    BY <1>4, <2>1 DEF Revoke, Exists, RotationInv, TypeOK
  <2>3. /\ row \in Session /\ row # Absent
        /\ row.user = sessions[z].user /\ row.expires = sessions[z].expires
        /\ sessions[z].revoked => row = sessions[z]
    BY <2>2, AbsentIsNoRow DEF Session
  <2>4. sessions'[s] = IF s = z THEN row ELSE sessions[s]
    BY <2>2 DEF RotationInv, TypeOK
  <2> HIDE DEF row, z
  <2>. QED
    BY <2>3, <2>4 DEF RowKept, Exists
<1>. QED
  BY <1>1, <1>2, <1>3, <1>4, ZenonT(40)
     DEF Next, Step, vars, NoSuchCredential, RefuseRotation, SelectForUpdate, CheckExpiry,
         CheckUser, Fail, Deliver, Lose, CallRefresh, CallLogout, CallLogin, Disable, Tick

(***************************************************************************)
(* A logout is final, whatever rotation is in flight.                      *)
(***************************************************************************)
THEOREM RevocationIsFinal == Spec => RevokedIsFinal
<1>1. IInv /\ [Next]_vars => [\A s \in SessionIds : RowKept(s)]_vars
  BY StepKeepsRows DEF IInv
<1>. QED
  BY <1>1, Invariance, PTL DEF Spec, RevokedIsFinal, RowKept

(***************************************************************************)
(* A call that waits for a row waits for one rotation's UPDATE and commit, *)
(* which wait for nothing: nobody waits for an answered call, and there is *)
(* no chain of waits, let alone a cycle.                                   *)
(***************************************************************************)
THEOREM WaitsEndWithOneCommit == Spec => []WaitsAreShort
<1>1. ASSUME IInv, NEW r \in Calls, NEW s \in SessionIds, WaitsFor(r, s)
      PROVE  /\ locks[s] \in Calls \ {r}
             /\ At(locks[s], "update") /\ calls[locks[s]].session = s
             /\ ~Blocked(locks[s])
  <2>1. locks[s] \in Calls /\ At(locks[s], "update") /\ calls[locks[s]].session = s
    BY <1>1 DEF IInv, RotationInv, TypeOK, LocksAreHeld, WaitsFor
  <2>2. ~At(r, "update")
    BY <1>1 DEF WaitsFor, At
  <2>3. ~Blocked(locks[s])
    BY <2>1 DEF Blocked, WaitsFor, At
  <2>. QED
    BY <2>1, <2>2, <2>3
<1>2. IInv => WaitsAreShort
  BY <1>1 DEF WaitsAreShort
<1>. QED
  BY <1>2, Invariance, PTL

=============================================================================
