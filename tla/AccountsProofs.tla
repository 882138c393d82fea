--------------------------- MODULE AccountsProofs ---------------------------
(***************************************************************************)
(* Whom a Google account signs in, and that a callback is accepted once,   *)
(* for any number of browsers, flows, users and concurrent requests, with  *)
(* failing statements and lost answers.                                    *)
(***************************************************************************)
EXTENDS Accounts, TLAPS

-----------------------------------------------------------------------------
(***************************************************************************)
(* What no statement undoes.                                               *)
(***************************************************************************)
Grows ==
    /\ \A u \in Users : users[u] # Absent =>
          /\ users'[u] # Absent
          /\ users[u].status = "DISABLED" => users'[u].status = "DISABLED"
    /\ \A i \in identities : \E j \in identities' : j.subject = i.subject /\ j.user = i.user
    /\ shown \subseteq shown'
    /\ \A t \in States : minted[t] # Absent => minted'[t] = minted[t]

\* The locals of a request by the kind of record they are in.
LEMMA CallKinds ==
    ASSUME IInv, NEW r \in Calls
    PROVE  /\ LocalsOK(r)
           /\ Running(r) => calls[r] \in Call
           /\ calls[r].pc \in ResolvePCs \cup {"register"} => Running(r)
           /\ At(r, "done") => calls[r] \in Reply
<1>1. calls[r] \in Call \cup Reply \cup {Idle} /\ LocalsOK(r)
  BY DEF IInv, TypeOK
<1>2. calls[r].pc \in ResolvePCs \cup {"register"} => Running(r)
  BY DEF Running, ResolvePCs
<1>3. calls[r] \in Reply => calls[r].pc = "done"
  BY DEF Reply
<1>4. calls[r] \in Call => calls[r].pc # "done"
  BY DEF Call, ResolvePCs
<1>5. calls[r] = Idle => calls[r].pc = "idle"
  BY DEF Idle
<1> QED
  BY <1>1, <1>2, <1>3, <1>4, <1>5 DEF Running, At

LEMMA LocalsPersist ==
    ASSUME IInv, Grows, NEW r \in Calls, calls'[r] = calls[r]
    PROVE  LocalsOK(r)'
<1>1. LocalsOK(r)
  BY DEF IInv
<1>2. calls[r].pc \in ResolvePCs =>
        calls[r].state \in shown' /\ minted'[calls[r].state].browser = calls[r].browser
  <2>1. \A t \in shown : t \in States /\ minted'[t] = minted[t]
    BY DEF Grows, IInv, TypeOK, CookiesAreMinted, LocalsOK
  <2> QED
    BY <1>1, <2>1 DEF LocalsOK, Grows
<1>3. At(r, "link") => users'[calls[r].user] # Absent
  BY <1>1 DEF LocalsOK, At, Grows, Exists
<1>4. calls[r].pc \in {"byId known", "byId moved", "touch", "issue"} =>
        \E j \in identities' : j.subject = calls[r].subject /\ j.user = calls[r].user
  <2>1. calls[r].pc \in {"byId known", "byId moved", "touch", "issue"} =>
          \E i \in identities : i.subject = calls[r].subject /\ i.user = calls[r].user
    BY <1>1 DEF LocalsOK, Linked
  <2>2. \A i \in identities : \E j \in identities' : j.subject = i.subject /\ j.user = i.user
    BY DEF Grows
  <2> QED
    BY <2>1, <2>2, ZenonT(40)
<1>5. Running(r) => \A u \in calls[r].barred :
                      u \in Users /\ users'[u] # Absent /\ users'[u].status = "DISABLED"
  BY <1>1 DEF LocalsOK, Grows, Disabled, Exists
<1>6. (/\ calls[r].pc \in ResolvePCs => /\ calls[r].state \in shown
                                        /\ minted[calls[r].state].browser = calls[r].browser
       /\ calls[r].pc \in ResolvePCs \ {"exchange"} => calls[r].subject \in Subjects
       /\ calls[r].pc \in ResolvePCs \ {"exchange", "issue"} => calls[r].email \in Emails
       /\ At(r, "register") => calls[r].email \in Emails /\ calls[r].state = Absent
       /\ calls[r].pc \in {"byId known", "byId moved", "touch", "link", "identity", "commit", "issue"} =>
             calls[r].user \in Users
       /\ calls[r].pc \in {"touch", "link", "issue"} => calls[r].user \notin calls[r].barred)'
  BY <1>1, <1>2 DEF LocalsOK, At
<1>7. (At(r, "link") => Exists(calls[r].user))'
  BY <1>3 DEF At, Exists
<1>8. (calls[r].pc \in {"byId known", "byId moved", "touch", "issue"} =>
          Linked(calls[r].subject, calls[r].user))'
  BY <1>4 DEF Linked
<1>9. (Running(r) => calls[r].barred \subseteq Disabled)'
  BY <1>5 DEF Running, Disabled, Exists
<1> QED
  BY <1>6, <1>7, <1>8, <1>9 DEF LocalsOK

LEMMA NothingMoved ==
    ASSUME UNCHANGED <<users, identities, minted, shown>>
    PROVE  Grows
BY DEF Grows

\* A request that is over, or has not begun, has no locals to be wrong about.
LEMMA EndedIsOK ==
    ASSUME NEW r \in Calls, calls'[r].pc \in {"idle", "done"}
    PROVE  LocalsOK(r)'
BY DEF LocalsOK, At, Running, ResolvePCs

(***************************************************************************)
(* The parts of the invariant that a statement leaves alone.               *)
(***************************************************************************)
LEMMA CookiesPersist ==
    ASSUME IInv, UNCHANGED <<minted, shown, jar>>, NEW r \in Calls,
           \A q \in Calls \ {r} : calls'[q] = calls[q],
           calls'[r].pc = "done" =>
              \/ calls'[r].state = Absent /\ calls'[r].cookie = {}
              \/ calls'[r].state \in shown /\ calls'[r].cookie = {Absent}
    PROVE  CookiesAreMinted'
<1>1. CookiesAreMinted /\ shown \subseteq States
  BY DEF IInv, TypeOK
<1>2. Absent \notin States
  BY AbsentIsNoValue
<1>3. \A q \in Calls : calls'[q].pc = "done" =>
        \/ calls'[q].state = Absent /\ calls'[q].cookie = {}
        \/ calls'[q].state \in shown /\ calls'[q].cookie = {Absent}
        \/ /\ q # r
           /\ calls'[q].state \in States /\ calls'[q].cookie = {calls'[q].state}
           /\ minted[calls'[q].state] # Absent
  BY <1>1 DEF CookiesAreMinted, At
<1>4. \A q \in Calls : /\ calls'[q].pc = "done" /\ calls'[q].state # Absent
                       /\ calls'[q].cookie = {calls'[q].state}
                       => /\ q # r /\ calls[q].pc = "done" /\ calls'[q] = calls[q]
                          /\ calls[q].state \notin shown
                          /\ minted[calls[q].state].browser = calls[q].browser
  BY <1>1, <1>2, <1>3 DEF CookiesAreMinted, At
<1>5. \A q \in Calls : /\ calls'[q].pc = "done" /\ calls'[q].state # Absent
                       /\ calls'[q].cookie = {calls'[q].state}
                       => \A p \in Calls \ {q} : calls'[p].pc = "done" => calls'[p].state # calls'[q].state
  BY <1>1, <1>3, <1>4 DEF CookiesAreMinted, At
<1> QED
  BY <1>1, <1>3, <1>4, <1>5 DEF CookiesAreMinted, At

LEMMA ClosedPersist ==
    ASSUME IInv, UNCHANGED <<shown, jar, closed>>
    PROVE  ClosedIsCleared'
BY DEF IInv, ClosedIsCleared

LEMMA RowsPersist ==
    ASSUME IInv, UNCHANGED <<users, identities>>
    PROVE  KeysAreUnique' /\ NoOrphan' /\ (UNCHANGED sessions => SignInIsLinked')
BY DEF IInv, KeysAreUnique, NoOrphan, SignInIsLinked, Exists, Linked

LEMMA PendingPersists ==
    ASSUME IInv, UNCHANGED <<users, identities>>, NEW r \in Calls,
           \A q \in Calls \ {r} : calls'[q] = calls[q],
           calls'[r].pc \notin {"identity", "commit"}
    PROVE  PendingIsFree'
BY DEF IInv, PendingIsFree, Exists, EmailTaken, LinkTaken, At

(***************************************************************************)
(* An answer, and a statement that only reads.                             *)
(***************************************************************************)
LEMMA GotoFacts ==
    ASSUME IInv, NEW r \in Calls, NEW c, Goto(r, c)
    PROVE  calls'[r] = c /\ \A q \in Calls \ {r} : calls'[q] = calls[q]
BY DEF Goto, IInv, TypeOK

LEMMA AnswerFacts ==
    ASSUME IInv, NEW r \in Calls, Running(r), NEW code, Answer(r, code)
    PROVE  /\ calls' \in [Calls -> Call \cup Reply \cup {Idle}]
           /\ calls'[r].pc = "done" /\ \A q \in Calls \ {r} : calls'[q] = calls[q]
           /\ \/ calls'[r].state = Absent /\ calls'[r].cookie = {}
              \/ calls'[r].state \in shown /\ calls'[r].cookie = {Absent}
           /\ LocalsOK(r)'
<1> DEFINE a == Done(calls[r].browser, calls[r].state,
                     IF calls[r].state = Absent THEN {} ELSE {Absent})
<1>1. Goto(r, a)
  BY DEF Answer
<1>2. calls[r] \in Call /\ LocalsOK(r)
  BY CallKinds
<1>3. a \in Reply
  BY <1>2 DEF Done, Reply, Call
<1>4. calls' \in [Calls -> Call \cup Reply \cup {Idle}]
  BY <1>1, <1>3 DEF Goto, IInv, TypeOK
<1>5. calls'[r] = a /\ \A q \in Calls \ {r} : calls'[q] = calls[q]
  BY <1>1, GotoFacts
<1>6. calls[r].state = Absent \/ calls[r].state \in shown
  BY <1>2 DEF LocalsOK, Call, At
<1>7. /\ calls'[r].pc = "done"
      /\ \/ calls'[r].state = Absent /\ calls'[r].cookie = {}
         \/ calls'[r].state \in shown /\ calls'[r].cookie = {Absent}
  BY <1>5, <1>6 DEF Done
<1> QED
  BY <1>4, <1>5, <1>7, EndedIsOK

LEMMA ReadStep ==
    ASSUME IInv, NEW r \in Calls, calls' \in [Calls -> Call \cup Reply \cup {Idle}],
           \A q \in Calls \ {r} : calls'[q] = calls[q],
           UNCHANGED <<users, identities, minted, shown, jar, now, sessions, closed>>,
           calls'[r].pc \notin {"identity", "commit"},
           calls'[r].pc = "done" =>
              \/ calls'[r].state = Absent /\ calls'[r].cookie = {}
              \/ calls'[r].state \in shown /\ calls'[r].cookie = {Absent},
           LocalsOK(r)'
    PROVE  IInv'
<1>1. TypeOK'
  BY DEF IInv, TypeOK
<1>2. KeysAreUnique' /\ NoOrphan' /\ SignInIsLinked'
  BY RowsPersist
<1>3. PendingIsFree'
  BY PendingPersists
<1>4. \A q \in Calls : LocalsOK(q)'
  BY NothingMoved, LocalsPersist
<1>5. CookiesAreMinted' /\ ClosedIsCleared'
  BY CookiesPersist, ClosedPersist
<1> QED
  BY <1>1, <1>2, <1>3, <1>4, <1>5 DEF IInv

LEMMA AnswerStep ==
    ASSUME IInv, NEW r \in Calls, Running(r), NEW code, Answer(r, code),
           UNCHANGED <<users, identities, minted, shown, jar, now, sessions, closed>>
    PROVE  IInv'
<1>1. /\ calls' \in [Calls -> Call \cup Reply \cup {Idle}]
      /\ calls'[r].pc = "done" /\ \A q \in Calls \ {r} : calls'[q] = calls[q]
      /\ \/ calls'[r].state = Absent /\ calls'[r].cookie = {}
         \/ calls'[r].state \in shown /\ calls'[r].cookie = {Absent}
      /\ LocalsOK(r)'
  BY AnswerFacts
<1> QED
  BY <1>1, ReadStep

\* A request that goes on, with new locals.
LEMMA GoOnStep ==
    ASSUME IInv, NEW r \in Calls, NEW c \in Call, Goto(r, c),
           UNCHANGED <<users, identities, minted, shown, jar, now, sessions, closed>>,
           c.pc \notin {"identity", "commit"}, LocalsOK(r)'
    PROVE  IInv'
<1>1. calls' \in [Calls -> Call \cup Reply \cup {Idle}]
  BY DEF Goto, IInv, TypeOK
<1>2. calls'[r] = c /\ \A q \in Calls \ {r} : calls'[q] = calls[q]
  BY GotoFacts
<1>3. c.pc # "done"
  BY DEF Call, ResolvePCs
<1> QED
  BY <1>1, <1>2, <1>3, ReadStep

THEOREM AccountsInit == Init => IInv
<1> SUFFICES ASSUME Init PROVE IInv
  OBVIOUS
<1>1. \A r \in Calls : calls[r] = Idle /\ calls[r].pc = "idle"
  BY DEF Init, Idle
<1>2. TypeOK
  BY TimesAreNatural DEF Init, TypeOK
<1>3. KeysAreUnique /\ NoOrphan /\ SignInIsLinked /\ ClosedIsCleared
  BY DEF Init, KeysAreUnique, NoOrphan, SignInIsLinked, ClosedIsCleared, Exists
<1>4. PendingIsFree /\ CookiesAreMinted
  BY <1>1 DEF Init, PendingIsFree, CookiesAreMinted, At
<1>5. \A r \in Calls : LocalsOK(r)
  BY <1>1 DEF LocalsOK, At, Running, ResolvePCs
<1> QED
  BY <1>2, <1>3, <1>4, <1>5 DEF IInv

-----------------------------------------------------------------------------
(***************************************************************************)
(* The flow's beginning and the browser's part.                            *)
(***************************************************************************)
LEMMA StartStep ==
    ASSUME IInv, NEW r \in Calls, NEW b \in Browsers, NEW t \in States, Start(r, b, t)
    PROVE  IInv'
<1> DEFINE flow == [browser |-> b, expires |-> now + StateLifetime]
<1>1. /\ At(r, "idle") /\ minted[t] = Absent /\ minted' = [minted EXCEPT ![t] = flow]
      /\ Goto(r, Done(b, t, {t}))
      /\ UNCHANGED <<users, identities, shown, jar, now, sessions, closed>>
  BY DEF Start
<1>2. flow \in Flow /\ flow # Absent /\ flow.browser = b
  BY TimesAreNatural, AbsentIsNothing DEF IInv, TypeOK, Flow
<1> HIDE DEF flow
<1>3. minted'[t] = flow /\ \A x \in States \ {t} : minted'[x] = minted[x]
  BY <1>1 DEF IInv, TypeOK
<1>4. calls'[r] = Done(b, t, {t}) /\ \A q \in Calls \ {r} : calls'[q] = calls[q]
  BY <1>1, GotoFacts
<1>5. calls'[r].pc = "done" /\ calls'[r].browser = b /\ calls'[r].state = t /\ calls'[r].cookie = {t}
  BY <1>4 DEF Done
<1>6. TypeOK'
  <2>1. Done(b, t, {t}) \in Reply
    BY DEF Done, Reply
  <2> QED
    BY <1>1, <1>2, <2>1 DEF IInv, TypeOK, Goto
<1>7. Grows
  BY <1>1, <1>3 DEF Grows
<1>8. KeysAreUnique' /\ NoOrphan' /\ SignInIsLinked'
  BY <1>1, RowsPersist
<1>9. PendingIsFree'
  BY <1>1, <1>4, <1>5, PendingPersists
<1>10. \A q \in Calls : LocalsOK(q)'
  BY <1>4, <1>5, <1>7, LocalsPersist, EndedIsOK
<1>11. t \notin shown /\ \A q \in Calls : At(q, "done") => calls[q].state # t
  <2>1. CookiesAreMinted /\ t # Absent
    BY AbsentIsNoValue DEF IInv
  <2> QED
    BY <1>1, <2>1 DEF CookiesAreMinted
<1>12. CookiesAreMinted'
  <2>1. CookiesAreMinted /\ shown \subseteq States
    BY DEF IInv, TypeOK
  <2>2. \A x \in shown : minted'[x] # Absent /\ minted'[x] = minted[x]
    BY <1>3, <1>11, <2>1 DEF CookiesAreMinted
  <2>3. \A p \in Browsers : jar[p] # Absent => jar[p] \in shown /\ minted'[jar[p]].browser = p
    BY <2>1, <2>2 DEF CookiesAreMinted
  <2>4. \A q \in Calls \ {r} : calls'[q].pc = "done" =>
          \/ calls'[q].state = Absent /\ calls'[q].cookie = {}
          \/ calls'[q].state \in shown /\ calls'[q].cookie = {Absent}
          \/ calls'[q].state \in States /\ calls'[q].cookie = {calls'[q].state}
             /\ minted'[calls'[q].state] # Absent
    BY <1>2, <1>3, <1>4, <2>1 DEF CookiesAreMinted, At
  <2>5. \A q \in Calls \ {r} : /\ calls'[q].pc = "done" /\ calls'[q].state # Absent
                               /\ calls'[q].cookie = {calls'[q].state}
                               => /\ calls'[q].state \notin shown
                                  /\ minted'[calls'[q].state].browser = calls'[q].browser
                                  /\ \A p \in Calls \ {q} : calls'[p].pc = "done" => calls'[p].state # calls'[q].state
    <3> SUFFICES ASSUME NEW q \in Calls \ {r}, calls[q].pc = "done", calls[q].state # Absent,
                        calls[q].cookie = {calls[q].state}
                 PROVE  /\ calls[q].state \notin shown
                        /\ minted'[calls[q].state].browser = calls[q].browser
                        /\ \A p \in Calls \ {q} : calls'[p].pc = "done" => calls'[p].state # calls[q].state
      BY <1>4
    <3>1. calls[q].state # t /\ calls[q].state \in States
      BY <1>11, <2>1 DEF At, CookiesAreMinted
    <3> QED
      BY <1>3, <1>4, <1>5, <2>1, <3>1 DEF At, CookiesAreMinted
  <2>6. /\ calls'[r].state \in States /\ minted'[calls'[r].state] # Absent
        /\ calls'[r].state \notin shown
        /\ minted'[calls'[r].state].browser = calls'[r].browser
        /\ \A p \in Calls \ {r} : calls'[p].pc = "done" => calls'[p].state # calls'[r].state
    BY <1>2, <1>3, <1>4, <1>5, <1>11 DEF At
  <2>7. shown' = shown /\ jar' = jar
    BY <1>1
  <2> QED
    BY <1>5, <2>2, <2>3, <2>4, <2>5, <2>6, <2>7 DEF CookiesAreMinted, At
<1>13. ClosedIsCleared'
  BY <1>1, ClosedPersist
<1> QED
  BY <1>6, <1>8, <1>9, <1>10, <1>12, <1>13 DEF IInv

LEMMA CallbackStep ==
    ASSUME IInv, NEW r \in Calls, NEW b \in Browsers, NEW t \in States, Callback(r, b, t)
    PROVE  IInv'
<1>1. /\ At(r, "idle") /\ t \in shown
      /\ UNCHANGED <<users, identities, minted, shown, jar, now, sessions, closed>>
  BY DEF Callback
<1>2. CASE Goto(r, Done(b, t, {Absent}))
  <2>1. Done(b, t, {Absent}) \in Reply
    BY DEF Done, Reply
  <2>2. calls'[r] = Done(b, t, {Absent}) /\ \A q \in Calls \ {r} : calls'[q] = calls[q]
    BY <1>2, GotoFacts
  <2>3. calls'[r].pc = "done" /\ calls'[r].state = t /\ calls'[r].cookie = {Absent}
    BY <2>2 DEF Done
  <2>4. calls' \in [Calls -> Call \cup Reply \cup {Idle}]
    BY <1>2, <2>1 DEF Goto, IInv, TypeOK
  <2> QED
    BY <1>1, <2>2, <2>3, <2>4, EndedIsOK, ReadStep
<1> DEFINE c == [pc |-> "exchange", browser |-> b, state |-> t, subject |-> Absent,
                 email |-> Absent, user |-> Absent, barred |-> Disabled]
<1>3. CASE ValidState(b, t) /\ Goto(r, c)
  <2>1. c \in Call
    BY DEF Call, ResolvePCs, Disabled
  <2>2. calls'[r] = c
    BY <1>3, GotoFacts
  <2>3. minted[t].browser = b
    <3>1. jar[b] = t /\ t # Absent
      BY <1>3, AbsentIsNoValue DEF ValidState
    <3> QED
      BY <3>1 DEF IInv, CookiesAreMinted
  <2>4. LocalsOK(r)'
    BY <1>1, <2>2, <2>3 DEF LocalsOK, At, Running, Disabled, Exists, ResolvePCs
  <2> QED
    BY <1>1, <1>3, <2>1, <2>4, GoOnStep
<1> QED
  BY <1>2, <1>3 DEF Callback

\* The browser applies an answer: it clears the cookie or, if it starts a
\* flow, sets and shows a state that no other answer carries.
LEMMA DeliverStep ==
    ASSUME IInv, NEW r \in Calls, Deliver(r)
    PROVE  IInv'
<1> DEFINE a == calls[r]
           starting == a.cookie = {a.state}
<1>1. /\ At(r, "done")
      /\ \/ a.cookie = {} /\ jar' = jar
         \/ \E c \in a.cookie : jar' = [jar EXCEPT ![a.browser] = c]
      /\ shown' = IF a.state # Absent /\ starting THEN shown \cup {a.state} ELSE shown
      /\ closed' = closed \cup
             { t \in States : t = a.state /\ ~starting /\ minted[t].browser = a.browser }
      /\ Goto(r, Idle)
      /\ UNCHANGED <<users, identities, minted, now, sessions>>
  BY DEF Deliver
<1>2. calls'[r] = Idle /\ \A q \in Calls \ {r} : calls'[q] = calls[q]
  BY <1>1, GotoFacts
<1>3. calls'[r].pc = "idle"
  BY <1>2 DEF Idle
<1>4. a \in Reply
  BY <1>1, CallKinds
<1>5. CookiesAreMinted /\ ClosedIsCleared /\ Absent \notin States /\ shown \subseteq States
      /\ closed \subseteq States
  BY AbsentIsNoValue DEF IInv, TypeOK
<1>6. \/ a.state = Absent /\ a.cookie = {}
      \/ a.state \in shown /\ a.cookie = {Absent}
      \/ a.state \in States \ shown /\ a.cookie = {a.state} /\ minted[a.state] # Absent
         /\ minted[a.state].browser = a.browser
         /\ \A q \in Calls \ {r} : At(q, "done") => calls[q].state # a.state
  BY <1>1, <1>5 DEF CookiesAreMinted
<1> HIDE DEF a
<1>7. Grows
  BY <1>1 DEF Grows
<1>8. \A q \in Calls : LocalsOK(q)'
  BY <1>2, <1>3, <1>7, LocalsPersist, EndedIsOK
<1>9. KeysAreUnique' /\ NoOrphan' /\ SignInIsLinked' /\ PendingIsFree'
  BY <1>1, <1>2, <1>3, RowsPersist, PendingPersists
<1>10. TypeOK'
  <2>1. shown' \subseteq States /\ closed' \subseteq States
    BY <1>1, <1>5, <1>6
  <2>2. jar' \in [Browsers -> States \cup {Absent}]
    BY <1>1, <1>4 DEF IInv, TypeOK, Reply
  <2>3. calls' \in [Calls -> Call \cup Reply \cup {Idle}]
    BY <1>1 DEF Goto, IInv, TypeOK
  <2> QED
    BY <1>1, <2>1, <2>2, <2>3 DEF IInv, TypeOK
<1>11. CASE a.state = Absent /\ a.cookie = {}
  <2>1. shown' = shown /\ jar' = jar /\ closed' = closed
    BY <1>1, <1>5, <1>11
  <2>2. CookiesAreMinted' /\ ClosedIsCleared'
    BY <1>1, <1>2, <1>3, <2>1, CookiesPersist, ClosedPersist
  <2> QED
    BY <1>8, <1>9, <1>10, <2>2 DEF IInv
<1>12. CASE a.state \in shown /\ a.cookie = {Absent}
  <2>1. /\ shown' = shown /\ jar' = [jar EXCEPT ![a.browser] = Absent]
        /\ closed' \subseteq closed \cup { t \in {a.state} : minted[t].browser = a.browser }
    BY <1>1, <1>5, <1>12
  <2>2. \A b \in Browsers : jar'[b] = Absent \/ (jar'[b] = jar[b] /\ b # a.browser)
    BY <2>1 DEF IInv, TypeOK
  <2>3. CookiesAreMinted'
    <3>1. \A b \in Browsers : jar'[b] # Absent => jar'[b] \in shown /\ minted[jar'[b]].browser = b
      BY <1>5, <2>2 DEF CookiesAreMinted
    <3>2. minted' = minted
      BY <1>1
    <3> QED
      BY <1>2, <1>3, <1>5, <2>1, <3>1, <3>2 DEF CookiesAreMinted, At
  <2>4. ClosedIsCleared'
    <3> SUFFICES ASSUME NEW t \in closed'
                 PROVE  t \in shown /\ \A b \in Browsers : jar'[b] # t
      BY <2>1 DEF ClosedIsCleared
    <3>1. CASE t \in closed
      BY <1>5, <2>2, <3>1 DEF ClosedIsCleared
    <3>2. CASE t = a.state /\ minted[t].browser = a.browser
      BY <1>5, <1>12, <2>2, <3>2 DEF CookiesAreMinted
    <3> QED
      BY <2>1, <3>1, <3>2
  <2> QED
    BY <1>8, <1>9, <1>10, <2>3, <2>4 DEF IInv
<1>13. CASE /\ a.state \in States \ shown /\ a.cookie = {a.state} /\ minted[a.state] # Absent
            /\ minted[a.state].browser = a.browser
            /\ \A q \in Calls \ {r} : At(q, "done") => calls[q].state # a.state
  <2>1. /\ shown' = shown \cup {a.state} /\ closed' = closed
        /\ jar' = [jar EXCEPT ![a.browser] = a.state]
    BY <1>1, <1>5, <1>13
  <2>2. \A b \in Browsers : \/ jar'[b] = jar[b]
                            \/ jar'[b] = a.state /\ b = a.browser
    BY <2>1 DEF IInv, TypeOK
  <2>3. minted' = minted
    BY <1>1
  <2>4. CookiesAreMinted'
    <3>1. \A t \in shown' : minted[t] # Absent
      BY <1>5, <1>13, <2>1 DEF CookiesAreMinted
    <3>2. \A b \in Browsers : jar'[b] # Absent => jar'[b] \in shown' /\ minted[jar'[b]].browser = b
      BY <1>5, <1>13, <2>1, <2>2 DEF CookiesAreMinted
    <3>3. \A q \in Calls : calls'[q].pc = "done" =>
            q # r /\ calls'[q] = calls[q] /\ At(q, "done") /\ calls[q].state # a.state
      BY <1>2, <1>3, <1>13 DEF At
    <3> QED
      BY <1>5, <2>1, <2>3, <3>1, <3>2, <3>3 DEF CookiesAreMinted, At
  <2>5. ClosedIsCleared'
    BY <1>5, <1>13, <2>1, <2>2 DEF ClosedIsCleared
  <2> QED
    BY <1>8, <1>9, <1>10, <2>4, <2>5 DEF IInv
<1> QED
  BY <1>6, <1>11, <1>12, <1>13

-----------------------------------------------------------------------------
(***************************************************************************)
(* The statements that resolve a Google identity.                          *)
(***************************************************************************)
\* What the locals of a request at one of these statements are.
LEMMA Resolving ==
    ASSUME IInv, NEW r \in Calls, calls[r].pc \in ResolvePCs
    PROVE  /\ calls[r] \in Call /\ LocalsOK(r) /\ Running(r)
           /\ calls[r].barred \subseteq Disabled
<1>1. calls[r] \in Call /\ LocalsOK(r) /\ Running(r)
  BY CallKinds
<1> QED
  BY <1>1 DEF LocalsOK

LEMMA ExchangeStep ==
    ASSUME IInv, NEW r \in Calls, Exchange(r)
    PROVE  IInv'
<1>1. /\ At(r, "exchange")
      /\ UNCHANGED <<users, identities, minted, shown, jar, now, sessions, closed>>
  BY DEF Exchange
<1>2. calls[r] \in Call /\ LocalsOK(r) /\ Running(r) /\ calls[r].barred \subseteq Disabled
  BY <1>1, Resolving DEF At, ResolvePCs
<1>3. CASE \E code : Answer(r, code)
  BY <1>1, <1>2, <1>3, AnswerStep
<1>4. ASSUME NEW x \in Claims,
             Goto(r, [calls[r] EXCEPT !.pc = "subject", !.subject = x.subject, !.email = x.email])
      PROVE  IInv'
  <2> DEFINE c == [calls[r] EXCEPT !.pc = "subject", !.subject = x.subject, !.email = x.email]
  <2>1. x.subject \in Subjects /\ x.email \in Emails
    BY ClaimsAreClaims
  <2>2. c \in Call
    BY <1>2, <2>1 DEF Call, ResolvePCs
  <2>3. /\ c.pc = "subject" /\ c.subject = x.subject /\ c.email = x.email
        /\ c.state = calls[r].state /\ c.browser = calls[r].browser /\ c.barred = calls[r].barred
    BY <1>2 DEF Call
  <2>4. Goto(r, c)
    BY <1>4
  <2> HIDE DEF c
  <2>5. calls'[r] = c
    BY <2>4, GotoFacts
  <2>6. LocalsOK(r)'
    BY <1>1, <1>2, <2>1, <2>3, <2>5 DEF LocalsOK, At, Running, Disabled, Exists, ResolvePCs
  <2> QED
    BY <1>1, <2>2, <2>3, <2>4, <2>6, GoOnStep
<1> QED
  BY <1>3, <1>4 DEF Exchange

LEMMA FindBySubjectStep ==
    ASSUME IInv, NEW r \in Calls, FindByProviderSubject(r)
    PROVE  IInv'
<1>1. /\ At(r, "subject")
      /\ UNCHANGED <<users, identities, minted, shown, jar, now, sessions, closed>>
  BY DEF FindByProviderSubject
<1>2. calls[r] \in Call /\ LocalsOK(r) /\ Running(r) /\ calls[r].barred \subseteq Disabled
  BY <1>1, Resolving DEF At, ResolvePCs
<1>3. ASSUME NEW i \in identities, i.subject = calls[r].subject,
             Goto(r, [calls[r] EXCEPT !.user = i.user,
                          !.pc = IF i.email = calls[r].email THEN "byId known" ELSE "byId moved"])
      PROVE  IInv'
  <2> DEFINE pc == IF i.email = calls[r].email THEN "byId known" ELSE "byId moved"
             c == [calls[r] EXCEPT !.user = i.user, !.pc = pc]
  <2>1. i.user \in Users /\ pc \in {"byId known", "byId moved"}
    BY DEF IInv, TypeOK, Identity
  <2>2. c \in Call
    <3> HIDE DEF pc
    <3>1. pc \in ResolvePCs
      BY <2>1 DEF ResolvePCs
    <3> QED
      BY <1>2, <2>1, <3>1 DEF Call
  <2>3. /\ c.pc \in {"byId known", "byId moved"} /\ c.user = i.user
        /\ c.subject = calls[r].subject /\ c.email = calls[r].email
        /\ c.state = calls[r].state /\ c.browser = calls[r].browser /\ c.barred = calls[r].barred
    BY <1>2, <2>1 DEF Call
  <2>4. Goto(r, c)
    BY <1>3
  <2> HIDE DEF c, pc
  <2>5. calls'[r] = c
    BY <2>4, GotoFacts
  <2>6. Linked(c.subject, c.user)
    BY <1>3, <2>3 DEF Linked
  <2>7. LocalsOK(r)'
    BY <1>1, <1>2, <2>1, <2>3, <2>5, <2>6
       DEF LocalsOK, At, Running, Disabled, Exists, ResolvePCs, Linked
  <2> QED
    BY <1>1, <2>2, <2>3, <2>4, <2>7, GoOnStep
<1>4. CASE Goto(r, [calls[r] EXCEPT !.pc = "byEmail"])
  <2> DEFINE c == [calls[r] EXCEPT !.pc = "byEmail"]
  <2>1. c \in Call
    BY <1>2 DEF Call, ResolvePCs
  <2>2. /\ c.pc = "byEmail" /\ c.subject = calls[r].subject /\ c.email = calls[r].email
        /\ c.state = calls[r].state /\ c.browser = calls[r].browser /\ c.barred = calls[r].barred
    BY <1>2 DEF Call
  <2>3. Goto(r, c)
    BY <1>4
  <2> HIDE DEF c
  <2>4. calls'[r] = c
    BY <2>3, GotoFacts
  <2>5. LocalsOK(r)'
    BY <1>1, <1>2, <2>2, <2>4 DEF LocalsOK, At, Running, Disabled, Exists, ResolvePCs
  <2> QED
    BY <1>1, <2>1, <2>2, <2>3, <2>5, GoOnStep
<1> QED
  BY <1>3, <1>4 DEF FindByProviderSubject

\* A user who is active now was not disabled when the request began.
LEMMA ActiveIsNotBarred ==
    ASSUME IInv, NEW r \in Calls, calls[r].barred \subseteq Disabled,
           NEW u \in Users, users[u].status = "ACTIVE"
    PROVE  u \notin calls[r].barred
BY DEF Disabled

LEMMA ActiveUserStep ==
    ASSUME IInv, NEW r \in Calls, ActiveUserByID(r)
    PROVE  IInv'
<1>1. /\ At(r, "byId known") \/ At(r, "byId moved")
      /\ UNCHANGED <<users, identities, minted, shown, jar, now, sessions, closed>>
  BY DEF ActiveUserByID
<1>2. calls[r] \in Call /\ LocalsOK(r) /\ Running(r) /\ calls[r].barred \subseteq Disabled
  BY <1>1, Resolving DEF At, ResolvePCs
<1>3. CASE \E code : Answer(r, code)
  BY <1>1, <1>2, <1>3, AnswerStep
<1>4. ASSUME NEW c \in {[calls[r] EXCEPT !.pc = "issue", !.email = Absent],
                        [calls[r] EXCEPT !.pc = "touch"]},
             Goto(r, c), users[calls[r].user].status = "ACTIVE"
      PROVE  IInv'
  <2>1. c \in Call
    BY <1>2 DEF Call, ResolvePCs
  <2>2. /\ \/ c.pc = "issue"
           \/ c.pc = "touch" /\ c.email = calls[r].email
        /\ c.subject = calls[r].subject /\ c.user = calls[r].user
        /\ c.state = calls[r].state /\ c.browser = calls[r].browser /\ c.barred = calls[r].barred
    BY <1>2 DEF Call
  <2>3. calls'[r] = c
    BY <1>4, GotoFacts
  <2>4. calls[r].user \in Users /\ Linked(calls[r].subject, calls[r].user)
    BY <1>1, <1>2 DEF LocalsOK, At
  <2>5. calls[r].user \notin calls[r].barred
    BY <1>2, <1>4, <2>4, ActiveIsNotBarred
  <2>6. LocalsOK(r)'
    <3>1. LocalsOK(r) /\ UNCHANGED <<users, identities, minted, shown>>
      BY <1>1, <1>2
    <3>2. CASE c.pc = "issue"
      BY <2>2, <2>3, <2>4, <2>5, <3>1, <3>2, <1>1, <1>2, ZenonT(40)
         DEF LocalsOK, At, Running, Disabled, Exists, ResolvePCs, Linked
    <3>3. CASE c.pc = "touch" /\ c.email = calls[r].email
      <4>1. c.email \in Emails /\ c.subject \in Subjects
        BY <1>1, <1>2, <2>2, <3>3 DEF LocalsOK, At, ResolvePCs
      <4>2. \E i \in identities' : i.subject = c.subject /\ i.user = c.user
        BY <2>2, <2>4, <3>1 DEF Linked
      <4>3. c.state \in shown' /\ minted'[c.state].browser = c.browser
        BY <1>1, <1>2, <2>2 DEF LocalsOK, At, ResolvePCs
      <4>4. c.barred \subseteq { u \in Users : users'[u] # Absent /\ users'[u].status = "DISABLED" }
        BY <1>2, <2>2, <3>1 DEF Disabled, Exists
      <4> QED
        BY <2>2, <2>3, <2>4, <2>5, <3>3, <4>1, <4>2, <4>3, <4>4
           DEF LocalsOK, At, Running, Disabled, Exists, Linked
    <3> QED
      BY <2>2, <3>2, <3>3
  <2> QED
    BY <1>1, <1>4, <2>1, <2>2, <2>6, GoOnStep
<1> QED
  BY <1>3, <1>4 DEF ActiveUserByID

\* The row keeps its user and its Google account.
LEMMA UpdateEmailStep ==
    ASSUME IInv, NEW r \in Calls, UpdateProviderEmail(r)
    PROVE  IInv'
<1> DEFINE g == calls[r].subject
           others == { i \in identities : i.subject # g }
           c == [calls[r] EXCEPT !.pc = "issue", !.email = Absent]
<1>1. /\ At(r, "touch") /\ Goto(r, c)
      /\ \/ identities' = others \cup { Row(i.user, g, calls[r].email) : i \in identities \ others }
         \/ identities' = identities
      /\ UNCHANGED <<users, minted, shown, jar, now, sessions, closed>>
  BY DEF UpdateProviderEmail
<1>2. calls[r] \in Call /\ LocalsOK(r) /\ Running(r) /\ calls[r].barred \subseteq Disabled
  BY <1>1, Resolving DEF At, ResolvePCs
<1>3. c \in Call
  BY <1>2 DEF Call, ResolvePCs
<1>4. /\ c.pc = "issue" /\ c.subject = g /\ c.user = calls[r].user
      /\ c.state = calls[r].state /\ c.browser = calls[r].browser /\ c.barred = calls[r].barred
  BY <1>2 DEF Call
<1> HIDE DEF c
<1>5. calls'[r] = c /\ \A q \in Calls \ {r} : calls'[q] = calls[q]
  BY <1>1, GotoFacts
<1>6. calls[r].email \in Emails /\ g \in Subjects
  BY <1>1, <1>2 DEF LocalsOK, At, ResolvePCs
<1>7. /\ identities' \subseteq Identity
      /\ \A j \in identities' : \E i \in identities : i.subject = j.subject /\ i.user = j.user
      /\ \A i \in identities : \E j \in identities' : j.subject = i.subject /\ j.user = i.user
      /\ \A j, k \in identities' : j.subject = k.subject \/ j.user = k.user => j = k
  <2>1. CASE identities' = identities
    BY <2>1 DEF IInv, TypeOK, KeysAreUnique
  <2>2. CASE identities' = others \cup { Row(i.user, g, calls[r].email) : i \in identities \ others }
    <3>1. \A j \in identities' : \/ j \in identities /\ j.subject # g
                                 \/ \E i \in identities : i.subject = g /\ j = Row(i.user, g, calls[r].email)
      BY <2>2
    <3>2. \A i \in identities : \/ i.subject # g /\ i \in identities'
                                \/ i.subject = g /\ Row(i.user, g, calls[r].email) \in identities'
      BY <2>2
    <3>3. \A i \in identities : LET j == Row(i.user, g, calls[r].email) IN
            j \in Identity /\ j.user = i.user /\ j.subject = g
      BY <1>6 DEF IInv, TypeOK, Identity, Row
    <3>4. identities' \subseteq Identity
      BY <3>1, <3>3 DEF IInv, TypeOK
    <3>5. \A j \in identities' : \E i \in identities : i.subject = j.subject /\ i.user = j.user
      BY <3>1, <3>3
    <3>6. \A i \in identities : \E j \in identities' : j.subject = i.subject /\ j.user = i.user
      BY <3>2, <3>3
    <3>7. \A j, k \in identities' : j.subject = k.subject \/ j.user = k.user => j = k
      <4>1. \A i, l \in identities : i.subject = l.subject \/ i.user = l.user => i = l
        BY DEF IInv, KeysAreUnique
      <4> QED
        BY <3>1, <3>3, <4>1
    <3> QED
      BY <3>4, <3>5, <3>6, <3>7
  <2> QED
    BY <1>1, <2>1, <2>2
<1>8. Grows
  BY <1>1, <1>7 DEF Grows
<1>9. TypeOK'
  BY <1>1, <1>3, <1>7 DEF IInv, TypeOK, Goto
<1>10. KeysAreUnique'
  BY <1>1, <1>7 DEF IInv, KeysAreUnique, Exists
<1>11. NoOrphan' /\ SignInIsLinked'
  BY <1>1, <1>7 DEF IInv, NoOrphan, SignInIsLinked, Exists, Linked
<1>12. PendingIsFree'
  BY <1>1, <1>4, <1>5, <1>7 DEF IInv, PendingIsFree, Exists, EmailTaken, LinkTaken, At
<1>13. \A q \in Calls : LocalsOK(q)'
  <2>1. LocalsOK(r)'
    <3>1. calls[r].user \in Users /\ calls[r].user \notin calls[r].barred
      BY <1>1, <1>2 DEF LocalsOK, At
    <3>2. \E j \in identities' : j.subject = g /\ j.user = calls[r].user
      <4>1. \E i \in identities : i.subject = g /\ i.user = calls[r].user
        BY <1>1, <1>2 DEF LocalsOK, At, Linked
      <4>2. \A i \in identities : \E j \in identities' : j.subject = i.subject /\ j.user = i.user
        BY <1>7
      <4> QED
        BY <4>1, <4>2
    <3>3. c.state \in shown' /\ minted'[c.state].browser = c.browser
      BY <1>1, <1>2, <1>4 DEF LocalsOK, At, ResolvePCs
    <3>4. c.barred \subseteq { u \in Users : users'[u] # Absent /\ users'[u].status = "DISABLED" }
      BY <1>1, <1>2, <1>4 DEF Disabled, Exists
    <3> QED
      BY <1>4, <1>5, <1>6, <3>1, <3>2, <3>3, <3>4
         DEF LocalsOK, At, Running, Disabled, Exists, Linked
  <2> QED
    BY <1>5, <1>8, <2>1, LocalsPersist
<1>14. CookiesAreMinted' /\ ClosedIsCleared'
  BY <1>1, <1>4, <1>5, CookiesPersist, ClosedPersist
<1> QED
  BY <1>9, <1>10, <1>11, <1>12, <1>13, <1>14 DEF IInv

LEMMA FindByEmailStep ==
    ASSUME IInv, NEW r \in Calls, FindByEmail(r)
    PROVE  IInv'
<1>1. /\ At(r, "byEmail")
      /\ UNCHANGED <<users, identities, minted, shown, jar, now, sessions, closed>>
  BY DEF FindByEmail
<1>2. calls[r] \in Call /\ LocalsOK(r) /\ Running(r) /\ calls[r].barred \subseteq Disabled
  BY <1>1, Resolving DEF At, ResolvePCs
<1>3. CASE \E code : Answer(r, code)
  BY <1>1, <1>2, <1>3, AnswerStep
<1>4. /\ calls[r].subject \in Subjects /\ calls[r].email \in Emails
      /\ calls[r].state \in shown /\ minted[calls[r].state].browser = calls[r].browser
  BY <1>1, <1>2 DEF LocalsOK, At, ResolvePCs
<1>5. ASSUME NEW u \in Users, Exists(u), users[u].status = "ACTIVE",
             Goto(r, [calls[r] EXCEPT !.pc = "link", !.user = u])
      PROVE  IInv'
  <2> DEFINE c == [calls[r] EXCEPT !.pc = "link", !.user = u]
  <2>1. c \in Call
    BY <1>2 DEF Call, ResolvePCs
  <2>2. /\ c.pc = "link" /\ c.user = u /\ c.subject = calls[r].subject /\ c.email = calls[r].email
        /\ c.state = calls[r].state /\ c.browser = calls[r].browser /\ c.barred = calls[r].barred
    BY <1>2 DEF Call
  <2>3. Goto(r, c)
    BY <1>5
  <2> HIDE DEF c
  <2>4. calls'[r] = c
    BY <2>3, GotoFacts
  <2>5. u \notin calls[r].barred
    BY <1>2, <1>5, ActiveIsNotBarred
  <2>6. LocalsOK(r)'
    BY <1>1, <1>2, <1>4, <1>5, <2>2, <2>4, <2>5
       DEF LocalsOK, At, Running, Disabled, Exists, ResolvePCs
  <2> QED
    BY <1>1, <2>1, <2>2, <2>3, <2>6, GoOnStep
<1>6. CASE Goto(r, [calls[r] EXCEPT !.pc = "user", !.barred = {}])
  <2> DEFINE c == [calls[r] EXCEPT !.pc = "user", !.barred = {}]
  <2>1. c \in Call
    BY <1>2 DEF Call, ResolvePCs
  <2>2. /\ c.pc = "user" /\ c.subject = calls[r].subject /\ c.email = calls[r].email
        /\ c.state = calls[r].state /\ c.browser = calls[r].browser /\ c.barred = {}
    BY <1>2 DEF Call
  <2>3. Goto(r, c)
    BY <1>6
  <2> HIDE DEF c
  <2>4. calls'[r] = c
    BY <2>3, GotoFacts
  <2>5. LocalsOK(r)'
    BY <1>1, <1>2, <1>4, <2>2, <2>4 DEF LocalsOK, At, Running, ResolvePCs
  <2> QED
    BY <1>1, <2>1, <2>2, <2>3, <2>5, GoOnStep
<1> QED
  BY <1>3, <1>5, <1>6 DEF FindByEmail

\* Nobody has the account or the link, and no open transaction has inserted
\* the account.
LEMMA LinkStep ==
    ASSUME IInv, NEW r \in Calls, LinkExistingUser(r)
    PROVE  IInv'
<1> DEFINE g == calls[r].subject
           u == calls[r].user
           row == Row(u, g, calls[r].email)
           c == [calls[r] EXCEPT !.pc = "issue", !.email = Absent]
<1>1. /\ At(r, "link") /\ ~PendingSubject(g)
      /\ UNCHANGED <<users, minted, shown, jar, now, sessions, closed>>
  BY DEF LinkExistingUser
<1>2. calls[r] \in Call /\ LocalsOK(r) /\ Running(r) /\ calls[r].barred \subseteq Disabled
  BY <1>1, Resolving DEF At, ResolvePCs
<1>3. CASE identities' = identities /\ \E code : Answer(r, code)
  BY <1>1, <1>2, <1>3, AnswerStep
<1>4. CASE /\ ~LinkTaken(g, u)
           /\ identities' = identities \cup {row}
           /\ Goto(r, c)
  <2>1. c \in Call
    BY <1>2 DEF Call, ResolvePCs
  <2>2. /\ c.pc = "issue" /\ c.subject = g /\ c.user = u
        /\ c.state = calls[r].state /\ c.browser = calls[r].browser /\ c.barred = calls[r].barred
    BY <1>2 DEF Call
  <2>3. Goto(r, c)
    BY <1>4
  <2> HIDE DEF c
  <2>4. calls'[r] = c /\ \A q \in Calls \ {r} : calls'[q] = calls[q]
    BY <2>3, GotoFacts
  <2>5. /\ g \in Subjects /\ calls[r].email \in Emails /\ u \in Users /\ users[u] # Absent
        /\ calls[r].state \in shown /\ minted[calls[r].state].browser = calls[r].browser
        /\ u \notin calls[r].barred
    BY <1>1, <1>2 DEF LocalsOK, At, ResolvePCs, Exists
  <2>6. row \in Identity /\ row.subject = g /\ row.user = u
    BY <2>5 DEF Row, Identity
  <2>7. identities' = identities \cup {row}
    BY <1>4
  <2> HIDE DEF row, g, u
  <2>8. Grows
    BY <1>1, <2>7 DEF Grows
  <2>9. TypeOK'
    BY <1>1, <2>1, <2>3, <2>6, <2>7 DEF IInv, TypeOK, Goto
  <2>10. KeysAreUnique'
    <3>1. \A i \in identities : i.subject # g /\ i.user # u
      BY <1>4 DEF LinkTaken
    <3>2. \A i, j \in identities' : i.subject = j.subject \/ i.user = j.user => i = j
      BY <2>6, <2>7, <3>1 DEF IInv, KeysAreUnique
    <3>3. \A i \in identities' : users'[i.user] # Absent
      BY <1>1, <2>5, <2>6, <2>7 DEF IInv, KeysAreUnique, Exists
    <3> QED
      BY <1>1, <3>2, <3>3 DEF IInv, KeysAreUnique, Exists
  <2>11. NoOrphan' /\ SignInIsLinked'
    BY <1>1, <2>7 DEF IInv, NoOrphan, SignInIsLinked, Exists, Linked
  <2>12. PendingIsFree'
    <3>1. \A q \in Calls : q # r => calls'[q] = calls[q]
      BY <2>4
    <3>2. \A q \in Calls : At(q, "commit") => calls[q].subject # g
      BY <1>1 DEF PendingSubject
    <3>3. \A q \in Calls : calls[q].pc \in {"identity", "commit"} => calls[q].user # u
      BY <2>5 DEF IInv, PendingIsFree, Exists
    <3>4. PendingIsFree /\ users' = users /\ calls'[r].pc = "issue"
      BY <1>1, <2>2, <2>4 DEF IInv
    <3> QED
      BY <2>6, <2>7, <3>1, <3>2, <3>3, <3>4
         DEF PendingIsFree, Exists, EmailTaken, LinkTaken, At
  <2>13. \A q \in Calls : LocalsOK(q)'
    <3>1. \E j \in identities' : j.subject = g /\ j.user = u
      BY <2>6, <2>7
    <3>2. c.barred \subseteq { v \in Users : users'[v] # Absent /\ users'[v].status = "DISABLED" }
      BY <1>1, <1>2, <2>2 DEF Disabled, Exists
    <3>3. LocalsOK(r)'
      BY <1>1, <2>2, <2>4, <2>5, <3>1, <3>2
         DEF LocalsOK, At, Running, Disabled, Exists, Linked
    <3> QED
      BY <2>4, <2>8, <3>3, LocalsPersist
  <2>14. CookiesAreMinted' /\ ClosedIsCleared'
    BY <1>1, <2>2, <2>4, CookiesPersist, ClosedPersist
  <2> QED
    BY <2>9, <2>10, <2>11, <2>12, <2>13, <2>14 DEF IInv
<1> QED
  BY <1>3, <1>4 DEF LinkExistingUser

(***************************************************************************)
(* The transaction that creates a user with its identity.                  *)
(***************************************************************************)
\* A request goes on inside the transaction: what it has inserted is free.
LEMMA InsertStep ==
    ASSUME IInv, NEW r \in Calls, NEW c \in Call, Goto(r, c),
           UNCHANGED <<users, identities, minted, shown, jar, now, sessions, closed>>,
           c.pc \in {"identity", "commit"}, LocalsOK(r)',
           ~Exists(c.user), ~EmailTaken(c.email),
           c.pc = "commit" => ~LinkTaken(c.subject, c.user),
           \A q \in Calls \ {r} : calls[q].pc \in {"identity", "commit"} =>
              /\ calls[q].user # c.user /\ calls[q].email # c.email
              /\ c.pc = "commit" /\ At(q, "commit") => calls[q].subject # c.subject
    PROVE  IInv'
<1>1. TypeOK'
  BY DEF IInv, TypeOK, Goto
<1>2. calls'[r] = c /\ \A q \in Calls \ {r} : calls'[q] = calls[q]
  BY GotoFacts
<1>3. KeysAreUnique' /\ NoOrphan' /\ SignInIsLinked'
  BY RowsPersist
<1>4. PendingIsFree'
  <2> SUFFICES ASSUME NEW q \in Calls, calls'[q].pc \in {"identity", "commit"}
               PROVE  (/\ ~Exists(calls[q].user) /\ ~EmailTaken(calls[q].email)
                       /\ At(q, "commit") => ~LinkTaken(calls[q].subject, calls[q].user)
                       /\ \A p \in Calls \ {q} : calls[p].pc \in {"identity", "commit"} =>
                             /\ calls[p].user # calls[q].user
                             /\ calls[p].email # calls[q].email
                             /\ At(q, "commit") /\ At(p, "commit") => calls[p].subject # calls[q].subject)'
    BY DEF PendingIsFree
  <2>1. CASE q = r
    BY <1>2, <2>1 DEF Exists, EmailTaken, LinkTaken, At
  <2>2. CASE q # r
    BY <1>2, <2>2 DEF IInv, PendingIsFree, Exists, EmailTaken, LinkTaken, At
  <2> QED
    BY <2>1, <2>2
<1>5. \A q \in Calls : LocalsOK(q)'
  BY <1>2, NothingMoved, LocalsPersist
<1>6. CookiesAreMinted' /\ ClosedIsCleared'
  BY <1>2, CookiesPersist, ClosedPersist
<1> QED
  BY <1>1, <1>3, <1>4, <1>5, <1>6 DEF IInv

LEMMA InsertUserStep ==
    ASSUME IInv, NEW r \in Calls, InsertUser(r)
    PROVE  IInv'
<1>1. /\ At(r, "user") /\ ~PendingEmail(calls[r].email)
      /\ UNCHANGED <<users, identities, minted, shown, jar, now, sessions, closed>>
  BY DEF InsertUser
<1>2. calls[r] \in Call /\ LocalsOK(r) /\ Running(r) /\ calls[r].barred \subseteq Disabled
  BY <1>1, Resolving DEF At, ResolvePCs
<1>3. CASE \E code : Answer(r, code)
  BY <1>1, <1>2, <1>3, AnswerStep
<1>4. ASSUME NEW u \in Users, ~EmailTaken(calls[r].email), ~Exists(u), ~PendingUser(u),
             Goto(r, [calls[r] EXCEPT !.pc = "identity", !.user = u])
      PROVE  IInv'
  <2> DEFINE c == [calls[r] EXCEPT !.pc = "identity", !.user = u]
  <2>1. c \in Call
    BY <1>2 DEF Call, ResolvePCs
  <2>2. /\ c.pc = "identity" /\ c.user = u /\ c.subject = calls[r].subject /\ c.email = calls[r].email
        /\ c.state = calls[r].state /\ c.browser = calls[r].browser /\ c.barred = calls[r].barred
    BY <1>2 DEF Call
  <2>3. Goto(r, c)
    BY <1>4
  <2> HIDE DEF c
  <2>4. calls'[r] = c
    BY <2>3, GotoFacts
  <2>5. /\ calls[r].subject \in Subjects /\ calls[r].email \in Emails
        /\ calls[r].state \in shown /\ minted[calls[r].state].browser = calls[r].browser
    BY <1>1, <1>2 DEF LocalsOK, At, ResolvePCs
  <2>6. LocalsOK(r)'
    BY <1>1, <1>2, <2>2, <2>4, <2>5 DEF LocalsOK, At, Running, Disabled, Exists, ResolvePCs
  <2>7. \A q \in Calls \ {r} : calls[q].pc \in {"identity", "commit"} =>
           calls[q].user # c.user /\ calls[q].email # c.email
    BY <1>1, <1>4, <2>2 DEF PendingUser, PendingEmail
  <2> QED
    BY <1>1, <1>4, <2>1, <2>2, <2>3, <2>6, <2>7, InsertStep
<1> QED
  BY <1>3, <1>4 DEF InsertUser

LEMMA InsertIdentityStep ==
    ASSUME IInv, NEW r \in Calls, InsertIdentity(r)
    PROVE  IInv'
<1>1. /\ At(r, "identity") /\ ~PendingSubject(calls[r].subject)
      /\ UNCHANGED <<users, identities, minted, shown, jar, now, sessions, closed>>
  BY DEF InsertIdentity
<1>2. calls[r] \in Call /\ LocalsOK(r) /\ Running(r) /\ calls[r].barred \subseteq Disabled
  BY <1>1, Resolving DEF At, ResolvePCs
<1>3. CASE \E code : Answer(r, code)
  BY <1>1, <1>2, <1>3, AnswerStep
<1>4. CASE /\ ~LinkTaken(calls[r].subject, calls[r].user)
           /\ Goto(r, [calls[r] EXCEPT !.pc = "commit"])
  <2> DEFINE c == [calls[r] EXCEPT !.pc = "commit"]
  <2>1. c \in Call
    BY <1>2 DEF Call, ResolvePCs
  <2>2. /\ c.pc = "commit" /\ c.user = calls[r].user /\ c.subject = calls[r].subject
        /\ c.email = calls[r].email
        /\ c.state = calls[r].state /\ c.browser = calls[r].browser /\ c.barred = calls[r].barred
    BY <1>2 DEF Call
  <2>3. Goto(r, c)
    BY <1>4
  <2> HIDE DEF c
  <2>4. calls'[r] = c
    BY <2>3, GotoFacts
  <2>5. /\ calls[r].subject \in Subjects /\ calls[r].email \in Emails /\ calls[r].user \in Users
        /\ calls[r].state \in shown /\ minted[calls[r].state].browser = calls[r].browser
    BY <1>1, <1>2 DEF LocalsOK, At, ResolvePCs
  <2>6. LocalsOK(r)'
    BY <1>1, <1>2, <2>2, <2>4, <2>5 DEF LocalsOK, At, Running, Disabled, Exists, ResolvePCs
  <2>7. /\ ~Exists(c.user) /\ ~EmailTaken(c.email)
        /\ \A q \in Calls \ {r} : calls[q].pc \in {"identity", "commit"} =>
              calls[q].user # c.user /\ calls[q].email # c.email
    BY <1>1, <2>2 DEF IInv, PendingIsFree, At
  <2>8. \A q \in Calls : At(q, "commit") => calls[q].subject # c.subject
    BY <1>1, <2>2 DEF PendingSubject
  <2>9. ~LinkTaken(c.subject, c.user)
    BY <1>4, <2>2
  <2> QED
    BY <1>1, <2>1, <2>2, <2>3, <2>6, <2>7, <2>8, <2>9, InsertStep
<1> QED
  BY <1>3, <1>4 DEF InsertIdentity

\* A new row in users: nobody has its id, its address or, since every link is
\* of a user who exists, a link of its own.
LEMMA NewUser ==
    ASSUME IInv, NEW u \in Users, NEW row \in User, users[u] = Absent, ~EmailTaken(row.email),
           users' = [users EXCEPT ![u] = row]
    PROVE  /\ users' \in [Users -> User \cup {Absent}]
           /\ users'[u] = row /\ row # Absent
           /\ \A v \in Users \ {u} : users'[v] = users[v]
           /\ \A v, w \in Users : /\ users'[v] # Absent /\ users'[w] # Absent
                                  /\ users'[v].email = users'[w].email
                                  => v = w
           /\ \A i \in identities : i.user # u /\ users'[i.user] # Absent
<1>1. users'[u] = row /\ \A v \in Users \ {u} : users'[v] = users[v]
  BY DEF IInv, TypeOK
<1>2. row # Absent
  BY AbsentIsNothing
<1>3. users' \in [Users -> User \cup {Absent}]
  BY DEF IInv, TypeOK
<1>4. \A v \in Users : users[v] # Absent => users[v].email # row.email
  BY DEF EmailTaken, Exists
<1>5. \A v, w \in Users : users[v] # Absent /\ users[w] # Absent
                          /\ users[v].email = users[w].email => v = w
  BY DEF IInv, KeysAreUnique, Exists
<1>6. \A i \in identities : i.user \in Users /\ users[i.user] # Absent
  BY DEF IInv, TypeOK, Identity, KeysAreUnique, Exists
<1> QED
  BY <1>1, <1>2, <1>3, <1>4, <1>5, <1>6

LEMMA CommitStep ==
    ASSUME IInv, NEW r \in Calls, Commit(r)
    PROVE  IInv'
<1> DEFINE u == calls[r].user
           g == calls[r].subject
           e == calls[r].email
           link == Row(u, g, e)
           row == [email |-> e, password |-> FALSE, status |-> "ACTIVE"]
           c == [calls[r] EXCEPT !.pc = "issue", !.email = Absent]
<1>1. /\ At(r, "commit")
      /\ users' = [users EXCEPT ![u] = row] /\ identities' = identities \cup {link}
      /\ Goto(r, c) \/ \E code : Answer(r, code)
      /\ UNCHANGED <<minted, shown, jar, now, sessions, closed>>
  BY DEF Commit
<1>2. calls[r] \in Call /\ LocalsOK(r) /\ Running(r) /\ calls[r].barred \subseteq Disabled
  BY <1>1, Resolving DEF At, ResolvePCs
<1>3. /\ g \in Subjects /\ e \in Emails /\ u \in Users
      /\ calls[r].state \in shown /\ minted[calls[r].state].browser = calls[r].browser
  BY <1>1, <1>2 DEF LocalsOK, At, ResolvePCs
<1>4. /\ users[u] = Absent /\ ~EmailTaken(e) /\ ~LinkTaken(g, u)
      /\ \A q \in Calls \ {r} : calls[q].pc \in {"identity", "commit"} =>
            /\ calls[q].user # u /\ calls[q].email # e
            /\ At(q, "commit") => calls[q].subject # g
  BY <1>1 DEF IInv, PendingIsFree, At, Exists
<1>5. row \in User /\ row.email = e /\ row.password = FALSE
  BY <1>3 DEF User
<1>6. link \in Identity /\ link.user = u /\ link.subject = g
  BY <1>3 DEF Row, Identity
<1>7. /\ users' \in [Users -> User \cup {Absent}]
      /\ users'[u] = row /\ row # Absent
      /\ \A v \in Users \ {u} : users'[v] = users[v]
      /\ \A v, w \in Users : /\ users'[v] # Absent /\ users'[w] # Absent
                             /\ users'[v].email = users'[w].email
                             => v = w
      /\ \A i \in identities : i.user # u /\ users'[i.user] # Absent
  <2> HIDE DEF row
  <2> QED
    BY <1>1, <1>3, <1>4, <1>5, NewUser
<1>8. u \notin calls[r].barred
  BY <1>2, <1>4 DEF Disabled, Exists
<1>9. /\ c \in Call /\ c.pc = "issue" /\ c.subject = g /\ c.user = u
      /\ c.state = calls[r].state /\ c.browser = calls[r].browser /\ c.barred = calls[r].barred
  BY <1>2 DEF Call, ResolvePCs
<1> HIDE DEF link, row, c, u, g, e
<1>10. Grows
  BY <1>1, <1>4, <1>7 DEF Grows
<1>11. /\ calls' \in [Calls -> Call \cup Reply \cup {Idle}]
       /\ calls'[r].pc \notin {"identity", "commit"} /\ \A q \in Calls \ {r} : calls'[q] = calls[q]
       /\ calls'[r].pc = "done" =>
             \/ calls'[r].state = Absent /\ calls'[r].cookie = {}
             \/ calls'[r].state \in shown /\ calls'[r].cookie = {Absent}
       /\ LocalsOK(r)'
  <2>1. CASE \E code : Answer(r, code)
    BY <1>2, <2>1, AnswerFacts
  <2>2. CASE Goto(r, c)
    <3>1. calls'[r] = c /\ \A q \in Calls \ {r} : calls'[q] = calls[q]
      BY <2>2, GotoFacts
    <3>2. calls' \in [Calls -> Call \cup Reply \cup {Idle}]
      BY <1>9, <2>2 DEF Goto, IInv, TypeOK
    <3>3. c.barred \subseteq { v \in Users : users'[v] # Absent /\ users'[v].status = "DISABLED" }
      BY <1>2, <1>4, <1>7, <1>9 DEF Disabled, Exists
    <3>4. \E j \in identities' : j.subject = g /\ j.user = u
      BY <1>1, <1>6
    <3>5. LocalsOK(r)'
      BY <1>1, <1>3, <1>8, <1>9, <3>1, <3>3, <3>4
         DEF LocalsOK, At, Running, Disabled, Exists, Linked
    <3> QED
      BY <1>9, <3>1, <3>2, <3>5
  <2> QED
    BY <1>1, <2>1, <2>2
<1>12. TypeOK'
  BY <1>1, <1>6, <1>7, <1>11 DEF IInv, TypeOK
<1>13. KeysAreUnique'
  <2>1. \A i, j \in identities' : i.subject = j.subject \/ i.user = j.user => i = j
    BY <1>1, <1>4, <1>6 DEF IInv, KeysAreUnique, LinkTaken
  <2>2. \A i \in identities' : users'[i.user] # Absent
    BY <1>1, <1>6, <1>7
  <2> QED
    BY <1>7, <2>1, <2>2 DEF KeysAreUnique, Exists
<1>14. NoOrphan'
  <2>1. \A v \in Users : users'[v] # Absent /\ ~users'[v].password =>
          \E i \in identities' : i.user = v
    <3>1. \A v \in Users \ {u} : users[v] # Absent /\ ~users[v].password =>
            \E i \in identities : i.user = v
      BY DEF IInv, NoOrphan, Exists
    <3> QED
      BY <1>1, <1>6, <1>7, <3>1
  <2> QED
    BY <2>1 DEF NoOrphan, Exists
<1>15. SignInIsLinked'
  BY <1>1 DEF IInv, SignInIsLinked, Linked
<1>16. PendingIsFree'
  <2> SUFFICES ASSUME NEW q \in Calls, calls'[q].pc \in {"identity", "commit"}
               PROVE  (/\ ~Exists(calls[q].user) /\ ~EmailTaken(calls[q].email)
                       /\ At(q, "commit") => ~LinkTaken(calls[q].subject, calls[q].user)
                       /\ \A p \in Calls \ {q} : calls[p].pc \in {"identity", "commit"} =>
                             /\ calls[p].user # calls[q].user
                             /\ calls[p].email # calls[q].email
                             /\ At(q, "commit") /\ At(p, "commit") => calls[p].subject # calls[q].subject)'
    BY DEF PendingIsFree
  <2>1. q # r /\ calls'[q] = calls[q] /\ calls[q].pc \in {"identity", "commit"}
    BY <1>11
  <2>2. calls[q].user \in Users
    BY <2>1 DEF IInv, LocalsOK
  <2>3. /\ users[calls[q].user] = Absent /\ ~EmailTaken(calls[q].email)
        /\ At(q, "commit") => ~LinkTaken(calls[q].subject, calls[q].user)
        /\ \A p \in Calls \ {q} : calls[p].pc \in {"identity", "commit"} =>
              /\ calls[p].user # calls[q].user
              /\ calls[p].email # calls[q].email
              /\ At(q, "commit") /\ At(p, "commit") => calls[p].subject # calls[q].subject
    BY <2>1 DEF IInv, PendingIsFree, Exists
  <2>4. calls[q].user # u /\ calls[q].email # e /\ (At(q, "commit") => calls[q].subject # g)
    BY <1>4, <2>1
  <2>5. users'[calls[q].user] = Absent
    BY <1>7, <2>2, <2>3, <2>4
  <2>6. \A v \in Users : users'[v] # Absent => users'[v].email # calls[q].email
    BY <1>5, <1>7, <2>3, <2>4 DEF EmailTaken, Exists
  <2>7. At(q, "commit") => \A i \in identities' : i.subject # calls[q].subject /\ i.user # calls[q].user
    BY <1>1, <1>6, <2>3, <2>4 DEF LinkTaken
  <2>8. \A p \in Calls \ {q} : calls'[p].pc \in {"identity", "commit"} =>
              /\ calls'[p].user # calls[q].user
              /\ calls'[p].email # calls[q].email
              /\ At(q, "commit") /\ calls'[p].pc = "commit" => calls'[p].subject # calls[q].subject
    BY <1>11, <2>3 DEF At
  <2> QED
    BY <2>1, <2>5, <2>6, <2>7, <2>8 DEF Exists, EmailTaken, LinkTaken, At
<1>17. \A q \in Calls : LocalsOK(q)'
  BY <1>10, <1>11, LocalsPersist
<1>18. CookiesAreMinted' /\ ClosedIsCleared'
  BY <1>1, <1>11, CookiesPersist, ClosedPersist
<1> QED
  BY <1>12, <1>13, <1>14, <1>15, <1>16, <1>17, <1>18 DEF IInv

\* The user a sign-in ends with is linked, as its locals say.
LEMMA IssueStep ==
    ASSUME IInv, NEW r \in Calls, IssueForUser(r)
    PROVE  IInv'
<1> DEFINE s == [subject |-> calls[r].subject, user |-> calls[r].user]
<1>1. /\ At(r, "issue") /\ sessions' = sessions \cup {s} /\ Answer(r, "OK")
      /\ UNCHANGED <<users, identities, minted, shown, jar, now, closed>>
  BY DEF IssueForUser
<1>2. calls[r] \in Call /\ LocalsOK(r) /\ Running(r) /\ calls[r].barred \subseteq Disabled
  BY <1>1, Resolving DEF At, ResolvePCs
<1>3. calls[r].subject \in Subjects /\ calls[r].user \in Users /\ Linked(calls[r].subject, calls[r].user)
  BY <1>1, <1>2 DEF LocalsOK, At, ResolvePCs
<1>4. /\ calls' \in [Calls -> Call \cup Reply \cup {Idle}]
      /\ calls'[r].pc = "done" /\ \A q \in Calls \ {r} : calls'[q] = calls[q]
      /\ \/ calls'[r].state = Absent /\ calls'[r].cookie = {}
         \/ calls'[r].state \in shown /\ calls'[r].cookie = {Absent}
      /\ LocalsOK(r)'
  BY <1>1, <1>2, AnswerFacts
<1>5. TypeOK'
  BY <1>1, <1>3, <1>4 DEF IInv, TypeOK
<1>6. KeysAreUnique' /\ NoOrphan'
  BY <1>1, RowsPersist
<1>7. SignInIsLinked'
  BY <1>1, <1>3 DEF IInv, SignInIsLinked, Linked
<1>8. PendingIsFree'
  BY <1>1, <1>4, PendingPersists
<1>9. \A q \in Calls : LocalsOK(q)'
  BY <1>1, <1>4, NothingMoved, LocalsPersist
<1>10. CookiesAreMinted' /\ ClosedIsCleared'
  BY <1>1, <1>4, CookiesPersist, ClosedPersist
<1> QED
  BY <1>5, <1>6, <1>7, <1>8, <1>9, <1>10 DEF IInv

-----------------------------------------------------------------------------
(***************************************************************************)
(* Registration, failure, and what happens beside the requests.            *)
(***************************************************************************)
LEMMA CallCreateUserStep ==
    ASSUME IInv, NEW r \in Calls, NEW e \in Emails, CallCreateUser(r, e)
    PROVE  IInv'
<1> DEFINE c == [pc |-> "register", browser |-> Absent, state |-> Absent, subject |-> Absent,
                 email |-> e, user |-> Absent, barred |-> {}]
<1>1. c \in Call
  BY DEF Call
<1>2. Goto(r, c) /\ UNCHANGED <<users, identities, minted, shown, jar, now, sessions, closed>>
  BY DEF CallCreateUser
<1>3. calls'[r] = c
  BY <1>2, GotoFacts
<1>4. LocalsOK(r)'
  BY <1>3 DEF LocalsOK, At, Running, ResolvePCs
<1> QED
  BY <1>1, <1>2, <1>4, GoOnStep

LEMMA CreateUserStep ==
    ASSUME IInv, NEW r \in Calls, CreateUser(r)
    PROVE  IInv'
<1> DEFINE e == calls[r].email
           row == [email |-> e, password |-> TRUE, status |-> "ACTIVE"]
<1>1. /\ At(r, "register") /\ ~PendingEmail(e)
      /\ UNCHANGED <<identities, minted, shown, jar, now, sessions, closed>>
  BY DEF CreateUser
<1>2. LocalsOK(r) /\ Running(r)
  BY <1>1, CallKinds DEF At
<1>3. CASE users' = users /\ \E code : Answer(r, code)
  BY <1>1, <1>2, <1>3, AnswerStep
<1>4. ASSUME NEW u \in Users, ~EmailTaken(e), ~Exists(u), ~PendingUser(u),
             users' = [users EXCEPT ![u] = row], Answer(r, "OK")
      PROVE  IInv'
  <2>1. e \in Emails
    BY <1>1, <1>2 DEF LocalsOK
  <2>2. row \in User /\ row.email = e /\ row.password
    BY <2>1 DEF User
  <2>3. users[u] = Absent
    BY <1>4 DEF Exists
  <2> HIDE DEF row
  <2>4. /\ users' \in [Users -> User \cup {Absent}]
        /\ users'[u] = row /\ row # Absent
        /\ \A v \in Users \ {u} : users'[v] = users[v]
        /\ \A v, w \in Users : /\ users'[v] # Absent /\ users'[w] # Absent
                               /\ users'[v].email = users'[w].email
                               => v = w
        /\ \A i \in identities : i.user # u /\ users'[i.user] # Absent
    BY <1>4, <2>2, <2>3, NewUser
  <2>5. /\ calls' \in [Calls -> Call \cup Reply \cup {Idle}]
        /\ calls'[r].pc = "done" /\ \A q \in Calls \ {r} : calls'[q] = calls[q]
        /\ \/ calls'[r].state = Absent /\ calls'[r].cookie = {}
           \/ calls'[r].state \in shown /\ calls'[r].cookie = {Absent}
        /\ LocalsOK(r)'
    BY <1>2, <1>4, AnswerFacts
  <2> HIDE DEF e
  <2>6. Grows
    BY <1>1, <2>3, <2>4 DEF Grows
  <2>7. TypeOK'
    BY <1>1, <2>4, <2>5 DEF IInv, TypeOK
  <2>8. KeysAreUnique'
    BY <1>1, <2>4 DEF IInv, KeysAreUnique, Exists
  <2>9. NoOrphan' /\ SignInIsLinked'
    BY <1>1, <2>2, <2>4 DEF IInv, NoOrphan, SignInIsLinked, Exists, Linked
  <2>10. PendingIsFree'
    <3> SUFFICES ASSUME NEW q \in Calls, calls'[q].pc \in {"identity", "commit"}
                 PROVE  (/\ ~Exists(calls[q].user) /\ ~EmailTaken(calls[q].email)
                         /\ At(q, "commit") => ~LinkTaken(calls[q].subject, calls[q].user)
                         /\ \A p \in Calls \ {q} : calls[p].pc \in {"identity", "commit"} =>
                               /\ calls[p].user # calls[q].user
                               /\ calls[p].email # calls[q].email
                               /\ At(q, "commit") /\ At(p, "commit") => calls[p].subject # calls[q].subject)'
      BY DEF PendingIsFree
    <3>1. q # r /\ calls'[q] = calls[q] /\ calls[q].pc \in {"identity", "commit"}
      BY <2>5
    <3>2. calls[q].user \in Users
      BY <3>1 DEF IInv, LocalsOK
    <3>3. /\ users[calls[q].user] = Absent /\ ~EmailTaken(calls[q].email)
          /\ At(q, "commit") => ~LinkTaken(calls[q].subject, calls[q].user)
          /\ \A p \in Calls \ {q} : calls[p].pc \in {"identity", "commit"} =>
                /\ calls[p].user # calls[q].user
                /\ calls[p].email # calls[q].email
                /\ At(q, "commit") /\ At(p, "commit") => calls[p].subject # calls[q].subject
      BY <3>1 DEF IInv, PendingIsFree, Exists
    <3>4. calls[q].user # u /\ calls[q].email # e
      BY <1>1, <1>4, <3>1 DEF PendingUser, PendingEmail
    <3>5. users'[calls[q].user] = Absent
      BY <2>4, <3>2, <3>3, <3>4
    <3>6. \A v \in Users : users'[v] # Absent => users'[v].email # calls[q].email
      BY <2>2, <2>4, <3>3, <3>4 DEF EmailTaken, Exists
    <3>7. At(q, "commit") => \A i \in identities' : i.subject # calls[q].subject /\ i.user # calls[q].user
      BY <1>1, <3>3 DEF LinkTaken
    <3>8. \A p \in Calls \ {q} : calls'[p].pc \in {"identity", "commit"} =>
                /\ calls'[p].user # calls[q].user
                /\ calls'[p].email # calls[q].email
                /\ At(q, "commit") /\ calls'[p].pc = "commit" => calls'[p].subject # calls[q].subject
      BY <2>5, <3>3 DEF At
    <3> QED
      BY <3>1, <3>5, <3>6, <3>7, <3>8 DEF Exists, EmailTaken, LinkTaken, At
  <2>11. \A q \in Calls : LocalsOK(q)'
    BY <2>5, <2>6, LocalsPersist
  <2>12. CookiesAreMinted' /\ ClosedIsCleared'
    BY <1>1, <2>5, CookiesPersist, ClosedPersist
  <2> QED
    BY <2>7, <2>8, <2>9, <2>10, <2>11, <2>12 DEF IInv
<1> QED
  BY <1>3, <1>4 DEF CreateUser

LEMMA DisableStep ==
    ASSUME IInv, NEW u \in Users, Disable(u)
    PROVE  IInv'
<1> DEFINE row == [users[u] EXCEPT !.status = "DISABLED"]
<1>1. /\ users[u] # Absent /\ users' = [users EXCEPT ![u] = row]
      /\ UNCHANGED <<identities, minted, shown, jar, calls, now, sessions, closed>>
  BY DEF Disable, Exists, IInv, TypeOK
<1>2. users[u] \in User
  BY <1>1 DEF IInv, TypeOK
<1>3. /\ row \in User /\ row.email = users[u].email /\ row.password = users[u].password
      /\ row.status = "DISABLED"
  BY <1>2 DEF User
<1>4. row # Absent
  BY <1>3, AbsentIsNothing
<1> HIDE DEF row
<1>5. users'[u] = row /\ \A v \in Users \ {u} : users'[v] = users[v]
  BY <1>1 DEF IInv, TypeOK
<1>6. \A v \in Users : /\ users'[v] = Absent <=> users[v] = Absent
                       /\ users[v] # Absent => /\ users'[v].email = users[v].email
                                               /\ users'[v].password = users[v].password
                                               /\ users[v].status = "DISABLED" => users'[v].status = "DISABLED"
  BY <1>1, <1>3, <1>4, <1>5
<1>7. TypeOK'
  BY <1>1, <1>3 DEF IInv, TypeOK
<1>8. Grows
  BY <1>1, <1>6 DEF Grows
<1>9. KeysAreUnique'
  <2>1. \A i \in identities : i.user \in Users
    BY DEF IInv, TypeOK, Identity
  <2> QED
    BY <1>1, <1>6, <2>1 DEF IInv, KeysAreUnique, Exists
<1>10. NoOrphan' /\ SignInIsLinked'
  BY <1>1, <1>6 DEF IInv, NoOrphan, SignInIsLinked, Exists, Linked
<1>11. PendingIsFree'
  <2>1. \A q \in Calls : calls[q].pc \in {"identity", "commit"} => calls[q].user \in Users
    BY DEF IInv, LocalsOK
  <2>2. PendingIsFree /\ calls' = calls /\ identities' = identities
    BY <1>1 DEF IInv
  <2> QED
    BY <1>6, <2>1, <2>2 DEF PendingIsFree, Exists, EmailTaken, LinkTaken, At
<1>12. \A q \in Calls : LocalsOK(q)'
  BY <1>1, <1>8, LocalsPersist
<1>13. CookiesAreMinted'
  BY <1>1 DEF IInv, CookiesAreMinted, At
<1>14. ClosedIsCleared'
  BY <1>1, ClosedPersist
<1> QED
  BY <1>7, <1>9, <1>10, <1>11, <1>12, <1>13, <1>14 DEF IInv

LEMMA StillStep ==
    ASSUME IInv, UNCHANGED <<users, identities, minted, shown, jar, calls, sessions, closed>>,
           now' \in Nat
    PROVE  IInv'
<1>1. TypeOK'
  BY DEF IInv, TypeOK
<1>2. KeysAreUnique' /\ NoOrphan' /\ SignInIsLinked' /\ ClosedIsCleared'
  BY RowsPersist, ClosedPersist
<1>3. PendingIsFree' /\ CookiesAreMinted'
  BY DEF IInv, PendingIsFree, CookiesAreMinted, Exists, EmailTaken, LinkTaken, At
<1>4. \A q \in Calls : LocalsOK(q)'
  BY NothingMoved, LocalsPersist
<1> QED
  BY <1>1, <1>2, <1>3, <1>4 DEF IInv

-----------------------------------------------------------------------------
(***************************************************************************)
(* Every step preserves the invariant.                                     *)
(***************************************************************************)
LEMMA NextStep ==
    ASSUME IInv, [Next]_vars
    PROVE  IInv'
<1>1. ASSUME NEW r \in Calls, Step(r)
      PROVE  IInv'
  BY <1>1, ExchangeStep, FindBySubjectStep, ActiveUserStep, UpdateEmailStep, FindByEmailStep,
     LinkStep, InsertUserStep, InsertIdentityStep, CommitStep, IssueStep, CreateUserStep
     DEF Step
<1>2. ASSUME NEW r \in Calls, Fail(r)
      PROVE  IInv'
  BY <1>2, AnswerStep DEF Fail
<1>3. ASSUME NEW r \in Calls, Deliver(r)
      PROVE  IInv'
  BY <1>3, DeliverStep
<1>4. ASSUME NEW r \in Calls, NEW b \in Browsers, NEW t \in States, Start(r, b, t) \/ Callback(r, b, t)
      PROVE  IInv'
  BY <1>4, StartStep, CallbackStep
<1>5. ASSUME NEW r \in Calls, NEW e \in Emails, CallCreateUser(r, e)
      PROVE  IInv'
  BY <1>5, CallCreateUserStep
<1>6. ASSUME NEW u \in Users, Disable(u)
      PROVE  IInv'
  BY <1>6, DisableStep
<1>7. CASE Tick \/ UNCHANGED vars
  <2>1. now' \in Nat
    BY <1>7 DEF Tick, vars, IInv, TypeOK
  <2> QED
    BY <1>7, <2>1, StillStep DEF Tick, vars
<1> QED
  BY <1>1, <1>2, <1>3, <1>4, <1>5, <1>6, <1>7 DEF Next

\* What every request has read stays true while it runs, whatever the others
\* do and whichever statement fails: IInv holds of every reachable state.
THEOREM AccountsInvariant == Spec => []IInv
<1>1. IInv /\ [Next]_vars => IInv'
  BY NextStep
<1> QED
  BY AccountsInit, <1>1, PTL DEF Spec

\* Everybody a Google account was ever signed in as (IssueForUser) is the user
\* that user_identities links it to, and always will be.
THEOREM SignInsAreLinked == Spec => []SignInIsLinked
<1>1. IInv => SignInIsLinked
  BY DEF IInv
<1> QED
  BY AccountsInvariant, <1>1, PTL

\* The callback handler accepts a state only in the browser whose cookie holds
\* it, and the answer that a browser sees takes the cookie away: a flow whose
\* callback was answered is not accepted again.
LEMMA ClosedStaysClosed ==
    ASSUME IInv, [Next]_vars, NEW r \in Calls, At(r, "idle"), At(r, "exchange")'
    PROVE  calls'[r].state \notin closed
<1>1. calls[r].pc = "idle" /\ calls'[r].pc = "exchange"
  BY DEF At
<1>2. \A q \in Calls : \A c : Goto(q, c) => q = r /\ calls'[r] = c
  BY <1>1, GotoFacts
<1>3. ASSUME NEW q \in Calls, NEW code, Answer(q, code)
      PROVE  FALSE
  <2>1. calls'[r] = Done(calls[q].browser, calls[q].state,
                         IF calls[q].state = Absent THEN {} ELSE {Absent})
    BY <1>2, <1>3 DEF Answer
  <2> QED
    BY <1>1, <2>1 DEF Done
<1>4. \E b \in Browsers, t \in States : Callback(r, b, t)
  <2>1. calls' # calls
    BY <1>1
  <2>2. ASSUME NEW q \in Calls, Step(q) \/ Fail(q)
        PROVE  FALSE
    <3>1. calls[q].pc # "idle" 
      BY <2>2 DEF Step, Fail, Running, Exchange, FindByProviderSubject, ActiveUserByID,
           UpdateProviderEmail, FindByEmail, LinkExistingUser, InsertUser, InsertIdentity,
           Commit, IssueForUser, CreateUser, At
    <3>2. \E c : Goto(q, c)
      BY <2>2 DEF Step, Fail, Answer, Exchange, FindByProviderSubject, ActiveUserByID,
           UpdateProviderEmail, FindByEmail, LinkExistingUser, InsertUser, InsertIdentity,
           Commit, IssueForUser, CreateUser
    <3> QED
      BY <1>1, <1>2, <3>1, <3>2
  <2>3. ASSUME NEW q \in Calls, Deliver(q)
        PROVE  FALSE
    BY <1>1, <1>2, <2>3 DEF Deliver, Idle
  <2>4. ASSUME NEW q \in Calls, NEW b \in Browsers, NEW t \in States, Start(q, b, t)
        PROVE  FALSE
    BY <1>1, <1>2, <2>4 DEF Start, Done
  <2>5. ASSUME NEW q \in Calls, NEW e \in Emails, CallCreateUser(q, e)
        PROVE  FALSE
    BY <1>1, <1>2, <2>5 DEF CallCreateUser
  <2>6. ASSUME NEW q \in Calls, NEW b \in Browsers, NEW t \in States, Callback(q, b, t)
        PROVE  Callback(r, b, t)
    BY <1>2, <2>6 DEF Callback
  <2>7. ~(\E u \in Users : Disable(u)) /\ ~Tick /\ ~UNCHANGED vars
    BY <2>1 DEF Disable, Tick, vars
  <2> QED
    BY <2>2, <2>3, <2>4, <2>5, <2>6, <2>7 DEF Next
<1>5. PICK b \in Browsers, t \in States : Callback(r, b, t)
  BY <1>4
<1>6. jar[b] = t /\ calls'[r].state = t
  BY <1>1, <1>2, <1>5 DEF Callback, Done, ValidState
<1> QED
  BY <1>6 DEF IInv, ClosedIsCleared

THEOREM CallbacksAreSingleUse == Spec => SingleUse
<1>1. IInv /\ [Next]_vars =>
        [\A r \in Calls : At(r, "idle") /\ At(r, "exchange")' => calls'[r].state \notin closed]_vars
  BY ClosedStaysClosed
<1> QED
  BY AccountsInvariant, <1>1, PTL DEF Spec, SingleUse

=============================================================================
