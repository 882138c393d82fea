---------------------------- MODULE RosterProofs ----------------------------
(***************************************************************************)
(* The invariant of Roster.tla for every roster, every set of concurrent   *)
(* replacements and every length of a request.                             *)
(***************************************************************************)
EXTENDS Roster, WellFoundedInduction, TLAPS

\* Rows of a schedule are replaced with all of their technician's schedule.
LEMMA SliceOfSchedule ==
    ASSUME NEW q \in Requests, NEW s \in Staff, NEW t \in Row, NEW u \in Row,
           t.staff = s, u.staff = s, t.item \in Spans, u.item \in Spans
    PROVE  Replaces(q, t) <=> Replaces(q, u)
BY SpansAreNotServices DEF Replaces, Requests, PutWorkingHours, PutCapabilities, PutServiceStaff, Row

\* A request's items name rows of the right type.
LEMMA NewRowType ==
    ASSUME NEW c \in Calls, request[c] \in Requests,
           NEW i, request[c].op = "technicians" => i \in Staff,
           request[c].op = "hours" => i \in Spans,
           request[c].op = "capabilities" => i \in Services,
           request[c].target \notin Foreign
    PROVE  NewRow(c, i) \in Row /\ NewRow(c, i).by = c
BY DEF NewRow, Requests, PutWorkingHours, PutCapabilities, PutServiceStaff, Row

LEMMA SetsInit == Init => SetsInv
<1> SUFFICES ASSUME Init PROVE SetsInv
  OBVIOUS
<1>1. rows \subseteq Row /\ \A t \in rows : t.by = Absent
  BY DEF Init, Row
<1>2. \A c \in Calls : tx[c] = NoWork /\ pc[c] = "idle"
  BY DEF Init
<1>3. TypeOK
  BY <1>1 DEF Init, TypeOK, PCs, Work, NoWork
<1>4. OneRowPerEntry
  BY <1>1 DEF OneRowPerEntry, SameEntry, Row
<1>5. SchedulesAreWhole /\ SchedulesGoWhole /\ RequestsAreLegal /\ WorkIsAsked
  BY <1>2 DEF SchedulesAreWhole, SchedulesGoWhole, RequestsAreLegal, WorkIsAsked
<1>6. LocksAreHeld /\ EntriesAreHeld
  BY <1>2 DEF LocksAreHeld, EntriesAreHeld, NoWork
<1>7. AuthorsCommitted
  BY <1>1, <1>2 DEF AuthorsCommitted, NoWork
<1> QED
  BY <1>3, <1>4, <1>5, <1>6, <1>7 DEF SetsInv

\* What a running call asks for are rows of the tables, written by it.
LEMMA AskedType ==
    ASSUME SetsInv, NEW c \in Calls, pc[c] \in {"clear", "write", "reread"}
    PROVE  \A t \in Asked(c) : t \in Row /\ t.by = c
<1> SUFFICES ASSUME NEW i \in DOMAIN request[c].items
             PROVE  /\ NewRow(c, request[c].items[i]) \in Row
                    /\ NewRow(c, request[c].items[i]).by = c
  BY DEF Asked
<1>1. request[c] \in Requests /\ request[c].target \notin Foreign
  BY DEF SetsInv, TypeOK, RequestsAreLegal
<1>2. request[c].items[i] \notin Foreign
  BY DEF SetsInv, RequestsAreLegal, Range
<1>3. \E n \in 0 .. MaxItems : DOMAIN request[c].items = 1 .. n
  BY <1>1 DEF Requests, PutWorkingHours, PutCapabilities, PutServiceStaff, SeqOf
<1>4. /\ request[c].op = "technicians" => request[c].items[i] \in Staff \cup Foreign
      /\ request[c].op = "hours" => request[c].items[i] \in Spans
      /\ request[c].op = "capabilities" => request[c].items[i] \in Services \cup Foreign
  BY <1>1, <1>3 DEF Requests, PutWorkingHours, PutCapabilities, PutServiceStaff, SeqOf
<1> QED
  BY <1>1, <1>2, <1>4, NewRowType

-----------------------------------------------------------------------------
(***************************************************************************)
(* An answer: the transaction, if one is open, is rolled back.             *)
(***************************************************************************)
LEMMA AnswerStep ==
    ASSUME SetsInv, NEW c \in Calls, NEW code \in Codes, NEW seen \in SUBSET Row,
           pc[c] \in {"clear", "write", "reread"},
           Answer(c, code, seen), UNCHANGED <<rows, request, crossed>>
    PROVE  SetsInv'
<1> USE DEF SetsInv, TypeOK
<1>1. /\ pc' = [pc EXCEPT ![c] = "done"]
      /\ tx' = [tx EXCEPT ![c] = NoWork]
      /\ rows' = rows /\ request' = request /\ crossed' = crossed
  BY DEF Answer
<1>2. NoWork \in Work
  BY DEF NoWork, Work
<1>3. TypeOK'
  <2>1. answer' \in [Calls -> [code : Codes, seen : SUBSET Row] \cup {Absent}]
    BY DEF Answer
  <2> QED
    BY <1>1, <1>2, <2>1 DEF PCs
<1>4. \A d \in Calls : /\ tx'[d].todo \subseteq tx[d].todo /\ tx'[d].gone \subseteq tx[d].gone
                       /\ tx'[d].added \subseteq tx[d].added
                       /\ d # c => tx'[d] = tx[d] /\ pc'[d] = pc[d]
  BY <1>1 DEF NoWork
<1>5. OneRowPerEntry' /\ SchedulesAreWhole'
  BY <1>1 DEF OneRowPerEntry, SameEntry, SchedulesAreWhole, StoredBy, Asked, NewRow
<1>6. LocksAreHeld'
  BY <1>1, <1>4 DEF LocksAreHeld, NoWork
<1>7. EntriesAreHeld'
  <2> SUFFICES ASSUME NEW e \in Calls, NEW t \in tx'[e].added
               PROVE  /\ t.by = e
                      /\ \A u \in rows : SameEntry(t, u) => u \in tx'[e].gone
                      /\ \A d \in Calls \ {e} : \A u \in tx'[d].added : ~SameEntry(t, u)
    BY <1>1 DEF EntriesAreHeld, SameEntry
  <2>1. e # c
    BY <1>1 DEF NoWork
  <2> QED
    BY <1>4, <2>1 DEF EntriesAreHeld
<1>8. AuthorsCommitted'
  BY <1>1, <1>4 DEF AuthorsCommitted
<1>9. SchedulesGoWhole'
  <2> SUFFICES ASSUME NEW e \in Calls, NEW d \in Calls, pc'[d] # "idle", request[d].op = "hours"
               PROVE  \/ StoredBy(d) \cap (tx'[e].todo \cup tx'[e].gone) = {}
                      \/ StoredBy(d) \subseteq tx'[e].todo \cup tx'[e].gone
    BY <1>1 DEF SchedulesGoWhole, StoredBy
  <2>1. pc[d] # "idle"
    BY <1>1
  <2>2. CASE e = c
    BY <1>1, <2>2 DEF NoWork
  <2>3. CASE e # c
    BY <1>4, <2>1, <2>3 DEF SchedulesGoWhole
  <2> QED
    BY <2>2, <2>3
<1>10. RequestsAreLegal' /\ WorkIsAsked'
  BY <1>1, <1>4 DEF RequestsAreLegal, WorkIsAsked, Asked, NewRow
<1> QED
  BY <1>3, <1>5, <1>6, <1>7, <1>8, <1>9, <1>10

-----------------------------------------------------------------------------
LEMMA SeqOfMore ==
    ASSUME NEW S, NEW T, S \subseteq T, NEW s \in Seq(S)
    PROVE  s \in Seq(T)
<1>1. Len(s) \in Nat /\ s \in [1 .. Len(s) -> S]
  OBVIOUS
<1>2. s \in [1 .. Len(s) -> T]
  BY <1>1
<1> QED
  BY <1>1, <1>2

\* A rearrangement holds the same items.
LEMMA SortedItems ==
    ASSUME NEW S, NEW items \in SeqOf(S), NEW s \in Sorted(items)
    PROVE  /\ s \in Seq(S) /\ DOMAIN s = DOMAIN items
           /\ \A i \in DOMAIN s : \E j \in DOMAIN items : s[i] = items[j]
           /\ \A j \in DOMAIN items : \E i \in DOMAIN s : s[i] = items[j]
<1>1. PICK n \in 0 .. MaxItems : items \in [1 .. n -> S]
  BY DEF SeqOf
<1>2. PICK p \in Bijection(DOMAIN items, DOMAIN items) : s = [i \in DOMAIN items |-> items[p[i]]]
  BY DEF Sorted
<1>3. /\ p \in [DOMAIN items -> DOMAIN items]
      /\ \A j \in DOMAIN items : \E i \in DOMAIN items : p[i] = j
  BY <1>2 DEF Bijection, Injection, Surjection
<1>4. s \in [1 .. n -> S]
  BY <1>1, <1>2, <1>3
<1>5. n \in Nat
  BY <1>1, MaxItemsIsNat
<1> QED
  BY <1>1, <1>2, <1>3, <1>4, <1>5, SMTT(30)

LEMMA NothingStoredYet ==
    ASSUME SetsInv, NEW c \in Calls, pc[c] \in {"idle", "clear", "write"}
    PROVE  StoredBy(c) = {}
BY AbsentIsNoCall DEF SetsInv, AuthorsCommitted, StoredBy

(***************************************************************************)
(* The call is made: it is refused at once, or it has items to insert.     *)
(***************************************************************************)
LEMMA CallStep ==
    ASSUME SetsInv, NEW c \in Calls, Call(c)
    PROVE  SetsInv'
<1> USE DEF SetsInv, TypeOK
<1>1. PICK q \in Requests :
        /\ request' = [request EXCEPT ![c] = q]
        /\ \/ /\ pc' = [pc EXCEPT ![c] = "done"]
              /\ tx' = [tx EXCEPT ![c] = NoWork]
           \/ /\ q.target \notin Foreign /\ Range(q.items) \cap Foreign = {}
              /\ pc' = [pc EXCEPT ![c] = "clear"]
              /\ \E s \in IF q.op = "hours" THEN Sorted(q.items) ELSE {q.items} :
                   tx' = [tx EXCEPT ![c].left = s]
  BY DEF Call, Refuse, Answer
<1>2. pc[c] = "idle" /\ rows' = rows /\ crossed' = crossed
  BY DEF Call
<1>3. tx[c].todo = {} /\ tx[c].gone = {} /\ tx[c].added = {} /\ tx[c] \in Work
  BY <1>2 DEF LocksAreHeld
<1>4. StoredBy(c) = {}
  BY <1>2, NothingStoredYet
<1>5. tx'[c] \in Work /\ tx'[c].todo = {} /\ tx'[c].gone = {} /\ tx'[c].added = {}
  <2>1. CASE tx' = [tx EXCEPT ![c] = NoWork]
    BY <2>1 DEF NoWork, Work
  <2>2. CASE /\ q.target \notin Foreign /\ Range(q.items) \cap Foreign = {}
             /\ \E s \in IF q.op = "hours" THEN Sorted(q.items) ELSE {q.items} :
                  tx' = [tx EXCEPT ![c].left = s]
    <3>1. PICK s \in IF q.op = "hours" THEN Sorted(q.items) ELSE {q.items} :
            tx' = [tx EXCEPT ![c].left = s]
      BY <2>2
    <3>4. tx'[c] = [todo |-> {}, gone |-> {}, added |-> {}, left |-> s]
      BY <1>3, <3>1 DEF Work
    <3>2. CASE q.op = "hours"
      <4>1. q.items \in SeqOf(Spans)
        BY <3>2 DEF Requests, PutWorkingHours, PutCapabilities, PutServiceStaff
      <4>2. s \in Seq(Spans)
        BY <3>1, <3>2, <4>1, SortedItems
      <4>3. s \in Seq(Spans \cup Services \cup Staff)
        BY <4>2, SeqOfMore
      <4> QED
        BY <3>4, <4>3 DEF Work
    <3>3. CASE q.op # "hours"
      <4>1. PICK S \in {Services, Staff} : q.items \in SeqOf(S \cup Foreign)
        BY <3>3 DEF Requests, PutWorkingHours, PutCapabilities, PutServiceStaff
      <4>2. PICK n \in 0 .. MaxItems : q.items \in [1 .. n -> S \cup Foreign]
        BY <4>1 DEF SeqOf
      <4>3. q.items \in [1 .. n -> S]
        BY <2>2, <4>2 DEF Range
      <4>4. q.items \in Seq(S)
        BY <4>2, <4>3, MaxItemsIsNat
      <4>5. s \in Seq(Spans \cup Services \cup Staff)
        BY <3>1, <3>3, <4>4, SeqOfMore
      <4> QED
        BY <3>4, <4>5 DEF Work
    <3> QED
      BY <3>2, <3>3
  <2> QED
    BY <1>1, <2>1, <2>2
<1>6. \A d \in Calls : d # c => tx'[d] = tx[d] /\ pc'[d] = pc[d] /\ request'[d] = request[d]
  BY <1>1
<1>7. TypeOK'
  <2>1. pc' \in [Calls -> PCs]
    BY <1>1 DEF PCs
  <2>2. tx' \in [Calls -> Work]
    BY <1>1, <1>5, <1>6
  <2>3. \A d \in Calls : pc'[d] # "idle" => request'[d] \in Requests
    BY <1>1, <1>6
  <2>4. request' \in [Calls -> Requests \cup {Absent}]
    BY <1>1
  <2>5. answer' \in [Calls -> [code : Codes, seen : SUBSET Row] \cup {Absent}]
    <3>1. \E code \in Codes : answer' = answer \/ answer' = [answer EXCEPT ![c] = [code |-> code, seen |-> {}]]
      BY DEF Call, Refuse, Answer, Codes
    <3> QED
      BY <3>1
  <2> QED
    BY <1>2, <2>1, <2>2, <2>3, <2>4, <2>5
<1>8. OneRowPerEntry' /\ SchedulesAreWhole'
  <2>1. OneRowPerEntry'
    BY <1>2 DEF OneRowPerEntry, SameEntry
  <2>2. SchedulesAreWhole'
    BY <1>2, <1>4, <1>6 DEF SchedulesAreWhole, StoredBy, Asked, NewRow
  <2> QED
    BY <2>1, <2>2
<1>9. LocksAreHeld' /\ EntriesAreHeld' /\ AuthorsCommitted'
  <2>1. LocksAreHeld'
    BY <1>1, <1>2, <1>5, <1>6 DEF LocksAreHeld
  <2>2. EntriesAreHeld'
    BY <1>2, <1>3, <1>5, <1>6 DEF EntriesAreHeld, SameEntry
  <2>3. AuthorsCommitted'
    <3>1. \A t \in Row : t.by = Absent \/ pc[t.by] \in {"reread", "done"}
                         => t.by = Absent \/ pc'[t.by] \in {"reread", "done"}
      BY <1>2, <1>6 DEF Row
    <3>2. \A d \in Calls : tx'[d].todo = tx[d].todo /\ tx'[d].gone = tx[d].gone
      BY <1>3, <1>5, <1>6
    <3>3. \A d \in Calls : tx[d].todo \subseteq Row /\ tx[d].gone \subseteq Row
      BY DEF Work
    <3> QED
      BY <1>2, <3>1, <3>2, <3>3 DEF AuthorsCommitted
  <2> QED
    BY <2>1, <2>2, <2>3
<1>10. SchedulesGoWhole'
  BY <1>2, <1>4, <1>5, <1>6 DEF SchedulesGoWhole, StoredBy
<1>11. RequestsAreLegal'
  BY <1>1, <1>6 DEF RequestsAreLegal
<1>12. WorkIsAsked'
  <2> SUFFICES ASSUME NEW d \in Calls, pc'[d] \in {"clear", "write"}
               PROVE  (tx[d].added \cup { NewRow(d, tx[d].left[i]) : i \in DOMAIN tx[d].left } = Asked(d))'
    BY DEF WorkIsAsked
  <2>1. CASE d # c
    BY <1>6, <2>1 DEF WorkIsAsked, Asked, NewRow
  <2>2. CASE d = c
    <3>1. PICK s \in IF q.op = "hours" THEN Sorted(q.items) ELSE {q.items} :
            tx' = [tx EXCEPT ![c].left = s]
      BY <1>1, <2>2
    <3>2. tx'[c].left = s /\ request'[c] = q
      BY <1>1, <3>1
    <3>3. /\ \A i \in DOMAIN s : \E j \in DOMAIN q.items : s[i] = q.items[j]
          /\ \A j \in DOMAIN q.items : \E i \in DOMAIN s : s[i] = q.items[j]
      BY <3>1, SortedItems DEF Requests, PutWorkingHours, PutCapabilities, PutServiceStaff
    <3> QED
      BY <1>5, <2>2, <3>2, <3>3 DEF Asked, NewRow
  <2> QED
    BY <2>1, <2>2
<1> QED
  BY <1>7, <1>8, <1>9, <1>10, <1>11, <1>12

(***************************************************************************)
(* The DELETE's snapshot.  It shows all the rows of a schedule or none, so *)
(* it never splits what one request inserted.                              *)
(***************************************************************************)
LEMMA ClearStep ==
    ASSUME SetsInv, NEW c \in Calls, Clear(c)
    PROVE  SetsInv'
<1> USE DEF SetsInv, TypeOK
<1> DEFINE slice == { t \in rows : Replaces(request[c], t) }
<1>1. /\ pc[c] = "clear" /\ pc' = [pc EXCEPT ![c] = "write"]
      /\ tx' = [tx EXCEPT ![c].todo = slice]
      /\ rows' = rows /\ request' = request /\ crossed' \subseteq Calls
  BY DEF Clear
<1>2. slice \subseteq rows
  OBVIOUS
<1> HIDE DEF slice
<1>3. tx[c].todo = {} /\ tx[c].gone = {} /\ tx[c].added = {} /\ tx[c] \in Work
  BY <1>1 DEF LocksAreHeld
<1>4. tx'[c] = [todo |-> slice, gone |-> {}, added |-> {}, left |-> tx[c].left]
  BY <1>1, <1>3 DEF Work
<1>5. \A d \in Calls : d # c => tx'[d] = tx[d] /\ pc'[d] = pc[d]
  BY <1>1
<1>6. TypeOK'
  <2>1. tx'[c] \in Work
    BY <1>2, <1>3, <1>4 DEF Work
  <2>2. answer' = answer
    BY DEF Clear
  <2> QED
    BY <1>1, <1>5, <2>1, <2>2 DEF PCs
<1>7. OneRowPerEntry' /\ SchedulesAreWhole' /\ RequestsAreLegal'
  BY <1>1 DEF OneRowPerEntry, SameEntry, SchedulesAreWhole, StoredBy, Asked, NewRow, RequestsAreLegal
<1>8. LocksAreHeld' /\ EntriesAreHeld'
  <2>1. \A d \in Calls : tx'[d].gone = tx[d].gone /\ tx'[d].added = tx[d].added
    <3>1. tx'[c].gone = {} /\ tx'[c].added = {}
      BY <1>4
    <3> QED
      BY <1>3, <1>5, <3>1
  <2>2. LocksAreHeld'
    BY <1>1, <1>4, <1>5, <2>1 DEF LocksAreHeld
  <2>3. EntriesAreHeld'
    BY <1>1, <2>1 DEF EntriesAreHeld, SameEntry
  <2> QED
    BY <2>2, <2>3
<1>9. AuthorsCommitted'
  <2>1. \A t \in Row : t.by = Absent \/ pc[t.by] \in {"reread", "done"}
                       => t.by = Absent \/ pc'[t.by] \in {"reread", "done"}
    BY <1>1, <1>5 DEF Row
  <2>2. \A d \in Calls : tx'[d].todo \cup tx'[d].gone \subseteq tx[d].todo \cup tx[d].gone \cup rows
    BY <1>2, <1>3, <1>4, <1>5
  <2>3. \A d \in Calls : tx[d].todo \subseteq Row /\ tx[d].gone \subseteq Row
    BY DEF Work
  <2> QED
    BY <1>1, <2>1, <2>2, <2>3 DEF AuthorsCommitted
<1>10. SchedulesGoWhole'
  <2> SUFFICES ASSUME NEW e \in Calls, NEW d \in Calls, pc'[d] # "idle", request[d].op = "hours"
               PROVE  \/ StoredBy(d) \cap (tx'[e].todo \cup tx'[e].gone) = {}
                      \/ StoredBy(d) \subseteq tx'[e].todo \cup tx'[e].gone
    BY <1>1 DEF SchedulesGoWhole, StoredBy
  <2>1. pc[d] # "idle" /\ request[d] \in Requests
    BY <1>1
  <2>2. CASE e # c
    BY <1>5, <2>1, <2>2 DEF SchedulesGoWhole
  <2>3. CASE e = c
    <3>1. \A t, u \in StoredBy(d) : t \in slice <=> u \in slice
      <4> SUFFICES ASSUME NEW t \in StoredBy(d), NEW u \in StoredBy(d)
                   PROVE  t \in slice <=> u \in slice
        OBVIOUS
      <4>1. t \in Asked(d) /\ u \in Asked(d)
        BY <2>1 DEF SchedulesAreWhole
      <4>2. /\ t.staff = request[d].target /\ t.item \in Spans
            /\ u.staff = request[d].target /\ u.item \in Spans
        <5>1. \A i \in DOMAIN request[d].items : request[d].items[i] \in Spans
          BY <2>1 DEF Requests, PutWorkingHours, PutCapabilities, PutServiceStaff, SeqOf
        <5> QED
          BY <4>1, <5>1 DEF Asked, NewRow
      <4>3. t \in Row /\ u \in Row /\ t.staff \in Staff /\ t \in rows /\ u \in rows
        BY DEF StoredBy, Row
      <4>4. request[c] \in Requests
        BY <1>1
      <4> QED
        BY <4>2, <4>3, <4>4, SliceOfSchedule DEF slice
    <3> QED
      BY <1>4, <2>3, <3>1
  <2> QED
    BY <2>2, <2>3
<1>11. WorkIsAsked'
  <2>1. \A d \in Calls : tx'[d].left = tx[d].left /\ tx'[d].added = tx[d].added
    <3>1. tx'[c].left = tx[c].left /\ tx'[c].added = {}
      BY <1>4
    <3> QED
      BY <1>3, <1>5, <3>1
  <2>2. \A d \in Calls : pc'[d] \in {"clear", "write"} => pc[d] \in {"clear", "write"}
    BY <1>1, <1>5
  <2> QED
    BY <1>1, <2>1, <2>2 DEF WorkIsAsked, Asked, NewRow
<1> QED
  BY <1>6, <1>7, <1>8, <1>9, <1>10, <1>11

\* The DELETE reaches one row.
LEMMA ClearRowStep ==
    ASSUME SetsInv, NEW c \in Calls, ClearRow(c)
    PROVE  SetsInv'
<1> USE DEF SetsInv, TypeOK
<1>1. PICK t \in tx[c].todo :
        /\ Free(c, t)
        /\ tx' = [tx EXCEPT ![c].todo = @ \ {t}, ![c].gone = @ \cup ({t} \cap rows)]
  BY DEF ClearRow
<1>2. /\ pc[c] = "write" /\ pc' = pc /\ rows' = rows
      /\ request' = request /\ crossed' = crossed
  BY DEF ClearRow, Clearing
<1>3. tx[c] \in Work
  OBVIOUS
<1>4. tx'[c] = [todo |-> tx[c].todo \ {t}, gone |-> tx[c].gone \cup ({t} \cap rows),
                added |-> tx[c].added, left |-> tx[c].left]
  BY <1>1, <1>3 DEF Work
<1>5. \A d \in Calls : /\ d # c => tx'[d] = tx[d]
                       /\ tx'[d].added = tx[d].added /\ tx'[d].left = tx[d].left
                       /\ tx[d].gone \subseteq tx'[d].gone
  BY <1>1, <1>4
<1>6. TypeOK'
  <2>1. tx'[c] \in Work
    BY <1>3, <1>4 DEF Work
  <2>2. answer' = answer
    BY DEF ClearRow
  <2> QED
    BY <1>1, <1>2, <1>5, <2>1, <2>2
<1>7. OneRowPerEntry' /\ SchedulesAreWhole' /\ RequestsAreLegal' /\ WorkIsAsked'
  BY <1>2, <1>5, SMTT(30) DEF OneRowPerEntry, SameEntry, SchedulesAreWhole, StoredBy, Asked, NewRow,
                    RequestsAreLegal, WorkIsAsked
<1>8. LocksAreHeld'
  <2>1. \A d \in Calls \ {c} : t \notin tx[d].gone
    BY <1>1 DEF Free, Deleting
  <2> QED
    BY <1>2, <1>4, <1>5, <2>1 DEF LocksAreHeld
<1>9. EntriesAreHeld'
  BY <1>2, <1>5 DEF EntriesAreHeld, SameEntry
<1>10. AuthorsCommitted'
  <2>1. \A d \in Calls : tx'[d].todo \cup tx'[d].gone \subseteq tx[d].todo \cup tx[d].gone
    BY <1>4, <1>5
  <2> QED
    BY <1>2, <2>1 DEF AuthorsCommitted
<1>11. SchedulesGoWhole'
  <2> SUFFICES ASSUME NEW e \in Calls, NEW d \in Calls, pc[d] # "idle", request[d].op = "hours"
               PROVE  \/ StoredBy(d) \cap (tx'[e].todo \cup tx'[e].gone) = {}
                      \/ StoredBy(d) \subseteq tx'[e].todo \cup tx'[e].gone
    BY <1>2 DEF SchedulesGoWhole, StoredBy
  <2>1. StoredBy(d) \subseteq rows
    BY DEF StoredBy
  <2>2. StoredBy(d) \cap (tx'[e].todo \cup tx'[e].gone) = StoredBy(d) \cap (tx[e].todo \cup tx[e].gone)
    BY <1>1, <1>4, <1>5, <2>1
  <2>3. \/ StoredBy(d) \cap (tx[e].todo \cup tx[e].gone) = {}
        \/ StoredBy(d) \subseteq tx[e].todo \cup tx[e].gone
    BY DEF SchedulesGoWhole
  <2> QED
    BY <2>2, <2>3
<1> QED
  BY <1>6, <1>7, <1>8, <1>9, <1>10, <1>11

\* One item is inserted: its entry is free and not taken.
LEMMA InsertStep ==
    ASSUME SetsInv, NEW c \in Calls, Insert(c)
    PROVE  SetsInv'
<1> USE DEF SetsInv, TypeOK
<1> DEFINE new == NextRow(c)
<1>1. /\ pc[c] = "write" /\ pc' = pc /\ rows' = rows
      /\ request' = request /\ crossed' = crossed
      /\ tx[c].left # << >> /\ FreeEntry(c, new) /\ ~Taken(c, new)
      /\ tx' = [tx EXCEPT ![c].left = Tail(@), ![c].added = @ \cup {new}]
  BY DEF Insert, Inserting
<1>2. tx[c] \in Work
  OBVIOUS
<1>3. tx[c].left \in Seq(Spans \cup Services \cup Staff) /\ tx[c].added \subseteq Row
  BY <1>2 DEF Work
<1>4. /\ 1 \in DOMAIN tx[c].left /\ new = NewRow(c, tx[c].left[1])
      /\ DOMAIN tx[c].left = 1 .. Len(tx[c].left) /\ Len(tx[c].left) \in Nat
  BY <1>1, <1>3 DEF NextRow
<1>5. new \in Asked(c)
  BY <1>1, <1>4 DEF WorkIsAsked
<1>6. new \in Row /\ new.by = c
  BY <1>1, <1>5, AskedType
<1>7. { NewRow(c, tx[c].left[i]) : i \in DOMAIN tx[c].left }
        = {new} \cup { NewRow(c, Tail(tx[c].left)[i]) : i \in DOMAIN Tail(tx[c].left) }
  <2>1. /\ Tail(tx[c].left) \in Seq(Spans \cup Services \cup Staff)
        /\ Len(Tail(tx[c].left)) = Len(tx[c].left) - 1
        /\ \A i \in 1 .. Len(tx[c].left) - 1 : Tail(tx[c].left)[i] = tx[c].left[i + 1]
    BY <1>1, <1>3
  <2>2. DOMAIN Tail(tx[c].left) = 1 .. Len(tx[c].left) - 1
    BY <2>1
  <2>3. \A i \in DOMAIN tx[c].left : i = 1 \/ (i - 1 \in 1 .. Len(tx[c].left) - 1 /\ (i - 1) + 1 = i)
    BY <1>4
  <2>4. \A i \in 1 .. Len(tx[c].left) - 1 : i + 1 \in DOMAIN tx[c].left
    BY <1>4
  <2>5. \A i \in DOMAIN tx[c].left :
          i = 1 \/ \E k \in DOMAIN Tail(tx[c].left) : tx[c].left[i] = Tail(tx[c].left)[k]
    BY <2>1, <2>2, <2>3
  <2>6. \A k \in DOMAIN Tail(tx[c].left) :
          \E i \in DOMAIN tx[c].left : tx[c].left[i] = Tail(tx[c].left)[k]
    BY <2>1, <2>2, <2>4
  <2> HIDE DEF SetsInv, TypeOK, new
  <2> QED
    BY <1>4, <2>5, <2>6
<1> HIDE DEF new
<1>8. tx'[c] = [todo |-> tx[c].todo, gone |-> tx[c].gone,
                added |-> tx[c].added \cup {new}, left |-> Tail(tx[c].left)]
  BY <1>1, <1>2 DEF Work
<1>9. \A d \in Calls : /\ d # c => tx'[d] = tx[d]
                       /\ tx'[d].todo = tx[d].todo /\ tx'[d].gone = tx[d].gone
  BY <1>1, <1>8
<1>10. TypeOK'
  <2>1. Tail(tx[c].left) \in Seq(Spans \cup Services \cup Staff)
    BY <1>1, <1>3
  <2>2. tx'[c] \in Work
    BY <1>2, <1>6, <1>8, <2>1 DEF Work
  <2>3. answer' = answer
    BY DEF Insert
  <2> QED
    BY <1>1, <1>9, <2>2, <2>3
<1>11. OneRowPerEntry' /\ SchedulesAreWhole' /\ RequestsAreLegal'
  BY <1>1 DEF OneRowPerEntry, SameEntry, SchedulesAreWhole, StoredBy, Asked, NewRow, RequestsAreLegal
<1>12. LocksAreHeld' /\ AuthorsCommitted' /\ SchedulesGoWhole'
  <2>1. LocksAreHeld'
    BY <1>1, <1>9 DEF LocksAreHeld
  <2>2. AuthorsCommitted'
    BY <1>1, <1>9 DEF AuthorsCommitted
  <2>3. SchedulesGoWhole'
    BY <1>1, <1>9 DEF SchedulesGoWhole, StoredBy
  <2> QED
    BY <2>1, <2>2, <2>3
<1>13. EntriesAreHeld'
  <2>1. \A u \in rows : SameEntry(new, u) => u \in tx[c].gone
    BY <1>1 DEF Taken
  <2>2. \A d \in Calls \ {c} : \A u \in tx[d].added : ~SameEntry(new, u) /\ ~SameEntry(u, new)
    BY <1>1 DEF FreeEntry, Writing, SameEntry
  <2> SUFFICES ASSUME NEW e \in Calls, NEW t \in tx'[e].added
               PROVE  /\ t.by = e
                      /\ \A u \in rows : SameEntry(t, u) => u \in tx[e].gone
                      /\ \A d \in Calls \ {e} : \A u \in tx'[d].added : ~SameEntry(t, u)
    BY <1>1, <1>9 DEF EntriesAreHeld, SameEntry
  <2>3. CASE e = c /\ t = new
    BY <1>6, <1>9, <2>1, <2>2, <2>3
  <2>4. CASE ~(e = c /\ t = new)
    <3>1. t \in tx[e].added
      BY <1>8, <1>9, <2>4
    <3>2. \A d \in Calls \ {e} : \A u \in tx'[d].added : ~SameEntry(t, u)
      <4> SUFFICES ASSUME NEW d \in Calls \ {e}, NEW u \in tx'[d].added
                   PROVE  ~SameEntry(t, u)
        OBVIOUS
      <4>1. CASE u \in tx[d].added
        BY <3>1, <4>1 DEF EntriesAreHeld
      <4>2. CASE u \notin tx[d].added
        <5>1. d = c /\ u = new
          BY <1>8, <1>9, <4>2
        <5> QED
          BY <2>2, <3>1, <5>1
      <4> QED
        BY <4>1, <4>2
    <3> QED
      BY <3>1, <3>2 DEF EntriesAreHeld
  <2> QED
    BY <2>3, <2>4
<1>14. WorkIsAsked'
  <2>1. request' = request /\ pc' = pc
    BY <1>1
  <2>2. \A d \in Calls : d # c => tx'[d].added = tx[d].added /\ tx'[d].left = tx[d].left
    BY <1>9
  <2>3. tx'[c].added = tx[c].added \cup {new} /\ tx'[c].left = Tail(tx[c].left)
    BY <1>8
  <2>4. tx[c].added \cup { NewRow(c, tx[c].left[i]) : i \in DOMAIN tx[c].left } = Asked(c)
    BY <1>1 DEF WorkIsAsked
  <2>5. tx[c].added \cup {new} \cup { NewRow(c, Tail(tx[c].left)[i]) : i \in DOMAIN Tail(tx[c].left) } = Asked(c)
    BY <1>7, <2>4
  <2>6. (tx[c].added \cup { NewRow(c, tx[c].left[i]) : i \in DOMAIN tx[c].left } = Asked(c))'
    BY <2>1, <2>3, <2>5 DEF Asked, NewRow
  <2>7. \A d \in Calls \ {c} : pc'[d] \in {"clear", "write"} =>
          (tx[d].added \cup { NewRow(d, tx[d].left[i]) : i \in DOMAIN tx[d].left } = Asked(d))'
    BY <2>1, <2>2 DEF WorkIsAsked, Asked, NewRow
  <2> SUFFICES ASSUME NEW d \in Calls, pc'[d] \in {"clear", "write"}
               PROVE  (tx[d].added \cup { NewRow(d, tx[d].left[i]) : i \in DOMAIN tx[d].left } = Asked(d))'
    BY DEF WorkIsAsked
  <2>8. CASE d # c
    BY <2>7, <2>8
  <2>9. CASE d = c
    BY <2>6, <2>9, Zenon
  <2> QED
    BY <2>8, <2>9
<1> QED
  BY <1>10, <1>11, <1>12, <1>13, <1>14

(***************************************************************************)
(* The commit: everything asked for has been inserted, and the rows that   *)
(* go are whole requests.                                                  *)
(***************************************************************************)
LEMMA CommitStep ==
    ASSUME SetsInv, NEW c \in Calls, Commit(c)
    PROVE  SetsInv'
<1> USE DEF SetsInv, TypeOK
<1>1. /\ pc[c] = "write" /\ tx[c].todo = {} /\ tx[c].left = << >>
      /\ rows' = (rows \ tx[c].gone) \cup tx[c].added
      /\ tx' = [tx EXCEPT ![c] = NoWork]
      /\ pc' = [pc EXCEPT ![c] = "reread"]
      /\ request' = request /\ crossed' = crossed
  BY DEF Commit
<1>2. tx'[c].todo = {} /\ tx'[c].gone = {} /\ tx'[c].added = {}
  BY <1>1 DEF NoWork
<1>3. \A d \in Calls : d # c => tx'[d] = tx[d] /\ pc'[d] = pc[d]
  BY <1>1
<1>4. tx[c] \in Work
  OBVIOUS
<1>5. tx[c].added = Asked(c)
  <2>1. tx[c].added \cup { NewRow(c, tx[c].left[i]) : i \in DOMAIN tx[c].left } = Asked(c)
    BY <1>1 DEF WorkIsAsked
  <2>2. DOMAIN tx[c].left = {}
    BY <1>1
  <2> QED
    BY <2>1, <2>2
<1>6. \A t \in tx[c].added : t \in Row /\ t.by = c
  BY <1>1, <1>5, AskedType
<1>7. StoredBy(c) = {}
  BY <1>1, NothingStoredYet
<1>8. TypeOK'
  <2>1. rows' \subseteq Row
    BY <1>1, <1>6
  <2>2. tx' \in [Calls -> Work]
    BY <1>1 DEF NoWork, Work
  <2>3. answer' = answer
    BY DEF Commit
  <2> QED
    BY <1>1, <2>1, <2>2, <2>3 DEF PCs
<1>9. OneRowPerEntry'
  <2>1. \A t, u \in rows' : SameEntry(t, u) => t = u
    <3> SUFFICES ASSUME NEW t \in rows', NEW u \in rows', SameEntry(t, u)
                 PROVE  t = u
      OBVIOUS
    <3>1. CASE t \in tx[c].added /\ u \in tx[c].added
      BY <1>6, <3>1 DEF SameEntry, Row
    <3>2. CASE t \notin tx[c].added /\ u \notin tx[c].added
      BY <1>1, <3>2 DEF OneRowPerEntry
    <3>3. CASE t \in tx[c].added /\ u \notin tx[c].added
      BY <1>1, <3>3 DEF EntriesAreHeld
    <3>4. CASE t \notin tx[c].added /\ u \in tx[c].added
      <4>1. SameEntry(u, t)
        BY DEF SameEntry
      <4> QED
        BY <1>1, <3>4, <4>1 DEF EntriesAreHeld
    <3> QED
      BY <3>1, <3>2, <3>3, <3>4
  <2> QED
    BY <2>1 DEF OneRowPerEntry, SameEntry
<1>10. \A d \in Calls : StoredBy(d)' = IF d = c THEN Asked(c) ELSE StoredBy(d) \ tx[c].gone
  <2> TAKE d \in Calls
  <2>1. StoredBy(d)' = { t \in rows' : t.by = d }
    BY DEF StoredBy
  <2>2. CASE d = c
    BY <1>1, <1>5, <1>6, <1>7, <2>1, <2>2 DEF StoredBy
  <2>3. CASE d # c
    BY <1>1, <1>6, <2>1, <2>3 DEF StoredBy
  <2> QED
    BY <2>2, <2>3
<1>11. SchedulesAreWhole'
  <2> SUFFICES ASSUME NEW d \in Calls, pc'[d] # "idle", request[d].op = "hours"
               PROVE  StoredBy(d)' = {} \/ StoredBy(d)' = Asked(d)
    BY <1>1 DEF SchedulesAreWhole, Asked, NewRow
  <2>1. CASE d = c
    BY <1>10, <2>1
  <2>2. CASE d # c
    <3>1. pc[d] # "idle"
      BY <1>3, <2>2
    <3>2. StoredBy(d) = {} \/ StoredBy(d) = Asked(d)
      BY <3>1 DEF SchedulesAreWhole
    <3>3. StoredBy(d) \cap tx[c].gone = {} \/ StoredBy(d) \subseteq tx[c].gone
      BY <1>1, <3>1 DEF SchedulesGoWhole
    <3> QED
      BY <1>10, <2>2, <3>2, <3>3
  <2> QED
    BY <2>1, <2>2
<1>12. LocksAreHeld'
  <2>1. \A d \in Calls : tx'[d].gone \subseteq rows'
    BY <1>1, <1>2, <1>3 DEF LocksAreHeld
  <2>2. \A d \in Calls : pc'[d] # "write" => tx'[d].todo = {} /\ tx'[d].gone = {} /\ tx'[d].added = {}
    BY <1>2, <1>3 DEF LocksAreHeld
  <2>3. \A d, e \in Calls : d # e => tx'[d].gone \cap tx'[e].gone = {}
    BY <1>2, <1>3 DEF LocksAreHeld
  <2> QED
    BY <2>1, <2>2, <2>3 DEF LocksAreHeld
<1>13. EntriesAreHeld'
  <2> SUFFICES ASSUME NEW e \in Calls, NEW t \in tx'[e].added
               PROVE  /\ t.by = e
                      /\ \A u \in rows' : SameEntry(t, u) => u \in tx'[e].gone
                      /\ \A d \in Calls \ {e} : \A u \in tx'[d].added : ~SameEntry(t, u)
    BY DEF EntriesAreHeld, SameEntry
  <2>1. e # c /\ t \in tx[e].added
    BY <1>2, <1>3
  <2>2. \A u \in tx[c].added : ~SameEntry(t, u)
    BY <2>1 DEF EntriesAreHeld
  <2>3. \A u \in rows' : SameEntry(t, u) => u \in tx'[e].gone
    BY <1>1, <1>3, <2>1, <2>2 DEF EntriesAreHeld
  <2>4. \A d \in Calls \ {e} : \A u \in tx'[d].added : ~SameEntry(t, u)
    BY <1>2, <1>3, <2>1 DEF EntriesAreHeld
  <2> QED
    BY <2>1, <2>3, <2>4 DEF EntriesAreHeld
<1>14. AuthorsCommitted'
  <2>1. \A t \in Row : t.by = Absent \/ pc[t.by] \in {"reread", "done"}
                       => t.by = Absent \/ pc'[t.by] \in {"reread", "done"}
    BY <1>1, <1>3 DEF Row
  <2>2. \A t \in rows' : t.by = Absent \/ pc'[t.by] \in {"reread", "done"}
    BY <1>1, <1>6, <2>1 DEF AuthorsCommitted
  <2>3. \A d \in Calls : tx'[d].todo \subseteq tx[d].todo /\ tx'[d].gone \subseteq tx[d].gone
    BY <1>2, <1>3
  <2>4. \A d \in Calls : tx[d].todo \subseteq Row /\ tx[d].gone \subseteq Row
    BY DEF Work
  <2> QED
    BY <2>1, <2>2, <2>3, <2>4 DEF AuthorsCommitted
<1>15. SchedulesGoWhole'
  <2> SUFFICES ASSUME NEW e \in Calls, NEW d \in Calls, pc'[d] # "idle", request[d].op = "hours"
               PROVE  \/ StoredBy(d)' \cap (tx'[e].todo \cup tx'[e].gone) = {}
                      \/ StoredBy(d)' \subseteq tx'[e].todo \cup tx'[e].gone
    BY <1>1 DEF SchedulesGoWhole
  <2>1. CASE e = c
    BY <1>2, <2>1
  <2>2. CASE e # c /\ d = c
    <3>1. \A t \in tx[e].todo \cup tx[e].gone : t.by # c
      BY <1>1, AbsentIsNoCall DEF AuthorsCommitted
    <3>2. \A t \in Asked(c) : t.by = c
      BY <1>5, <1>6
    <3> QED
      BY <1>3, <1>10, <2>2, <3>1, <3>2
  <2>3. CASE e # c /\ d # c
    <3>1. \/ StoredBy(d) \cap (tx[e].todo \cup tx[e].gone) = {}
          \/ StoredBy(d) \subseteq tx[e].todo \cup tx[e].gone
      BY <1>3, <2>3 DEF SchedulesGoWhole
    <3> QED
      BY <1>3, <1>10, <2>3, <3>1
  <2> QED
    BY <2>1, <2>2, <2>3
<1>16. RequestsAreLegal' /\ WorkIsAsked'
  <2>1. RequestsAreLegal'
    BY <1>1 DEF RequestsAreLegal
  <2>2. \A d \in Calls : pc'[d] \in {"clear", "write"} => d # c /\ pc[d] \in {"clear", "write"}
    BY <1>1, <1>3
  <2>3. WorkIsAsked'
    BY <1>1, <1>3, <2>2 DEF WorkIsAsked, Asked, NewRow
  <2> QED
    BY <2>1, <2>3
<1> QED
  BY <1>8, <1>9, <1>11, <1>12, <1>13, <1>14, <1>15, <1>16

-----------------------------------------------------------------------------
LEMMA StepKeepsSets ==
    ASSUME SetsInv, NEW c \in Calls, Step(c) \/ Fail(c)
    PROVE  SetsInv'
<1>1. CASE Clear(c)
  BY <1>1, ClearStep
<1>2. CASE ClearRow(c)
  BY <1>2, ClearRowStep
<1>3. CASE Insert(c)
  BY <1>3, InsertStep
<1>4. CASE RefuseDuplicate(c)
  <2>1. pc[c] \in {"clear", "write", "reread"}
    BY <1>4 DEF RefuseDuplicate, Inserting
  <2> QED
    BY <1>4, <2>1, AnswerStep DEF RefuseDuplicate, Refuse, Codes
<1>5. CASE Commit(c)
  BY <1>5, CommitStep
<1>6. CASE Reread(c)
  <2>1. pc[c] \in {"clear", "write", "reread"}
    BY <1>6 DEF Reread
  <2>2. { t \in rows : Replaces(request[c], t) } \in SUBSET Row
    BY DEF SetsInv, TypeOK
  <2> QED
    BY <1>6, <2>1, <2>2, AnswerStep DEF Reread, Codes
<1>7. CASE BreakDeadlock(c)
  <2>1. pc[c] \in {"clear", "write", "reread"}
    BY <1>7 DEF BreakDeadlock, Deadlocked, WaitInACircle, WaitsFor, Clearing, Inserting
  <2> QED
    BY <1>7, <2>1, AnswerStep DEF BreakDeadlock, Refuse, Codes
<1>8. CASE Fail(c)
  BY <1>8, AnswerStep DEF Fail, Refuse, Codes
<1> QED
  BY <1>1, <1>2, <1>3, <1>4, <1>5, <1>6, <1>7, <1>8 DEF Step

LEMMA StutterKeepsSets ==
    ASSUME SetsInv, UNCHANGED vars
    PROVE  SetsInv'
<1>1. TypeOK'
  BY DEF vars, SetsInv, TypeOK
<1>2. OneRowPerEntry' /\ SchedulesAreWhole' /\ RequestsAreLegal' /\ WorkIsAsked'
  BY DEF vars, SetsInv, OneRowPerEntry, SameEntry, SchedulesAreWhole, StoredBy, Asked, NewRow,
         RequestsAreLegal, WorkIsAsked
<1>3. LocksAreHeld' /\ EntriesAreHeld' /\ AuthorsCommitted' /\ SchedulesGoWhole'
  BY DEF vars, SetsInv, LocksAreHeld, EntriesAreHeld, SameEntry, AuthorsCommitted,
         SchedulesGoWhole, StoredBy
<1> QED
  BY <1>1, <1>2, <1>3 DEF SetsInv

-----------------------------------------------------------------------------
(***************************************************************************)
(* The check of neighbours is a check of all pairs: sorted intervals whose *)
(* neighbours do not overlap are pairwise disjoint, and conversely.        *)
(***************************************************************************)
LEMMA Smallest ==
    ASSUME NEW S \in SUBSET Nat, S # {}
    PROVE  \E m \in S : \A k \in S : m <= k
<1> DEFINE R == { ss \in Nat \X Nat : ss[1] < ss[2] }
<1>1. IsWellFoundedOn(R, Nat)
  BY NatLessThanWellFounded DEF OpToRel
<1> HIDE DEF R
<1>2. PICK m \in S : \A k \in S : ~ (<<k, m>> \in R)
  BY <1>1, WFMin
<1>3. \A k \in S : ~ (k < m)
  BY <1>2 DEF R
<1> QED
  BY <1>3

LEMMA SpanFacts ==
    ASSUME NEW w \in Spans
    PROVE  w.start \in Int /\ w.end \in Int /\ w.start < w.end
BY SpansAreIntervals DEF Span

LEMMA NeighboursChain ==
    ASSUME NEW n \in Nat, NEW s \in [1 .. n -> Spans], Len(s) = n, ValidSchedule(s),
           NEW i \in 1 .. n, NEW j \in 1 .. n, i < j
    PROVE  s[i].end <= s[j].start
<1> DEFINE Bad == { k \in 1 .. n : i < k /\ s[k].start < s[i].end }
<1>1. \A k \in 1 .. n : s[k].start \in Int /\ s[k].end \in Int /\ s[k].start < s[k].end
  BY SpanFacts
<1>2. CASE Bad = {}
  BY <1>1, <1>2
<1>3. CASE Bad # {}
  <2>0. Bad \in SUBSET Nat
    OBVIOUS
  <2>1. PICK m \in Bad : \A k \in Bad : m <= k
    <3> HIDE DEF Bad
    <3> QED
      BY <1>3, <2>0, Smallest
  <2>2. m \in 2 .. n /\ m - 1 \in 1 .. n
    BY <2>1
  <2>3. s[m].start >= s[m - 1].end
    BY <2>2 DEF ValidSchedule
  <2>4. CASE m - 1 = i
    BY <1>1, <2>1, <2>2, <2>3, <2>4
  <2>5. CASE m - 1 # i
    <3>1. i < m - 1 /\ m - 1 \notin Bad
      BY <2>1, <2>2, <2>5
    <3>2. s[m - 1].start >= s[i].end
      BY <1>1, <2>2, <3>1
    <3> QED
      BY <1>1, <2>1, <2>2, <2>3, <3>2
  <2> QED
    BY <2>4, <2>5
<1> QED
  BY <1>2, <1>3

Arranges(n, p, items, s) ==
    /\ items \in [1 .. n -> Spans] /\ s \in [1 .. n -> Spans] /\ Len(s) = n
    /\ \A i \in 1 .. n : s[i] = items[p[i]]
    /\ \A i, j \in 1 .. n : p[i] = p[j] => i = j
    /\ \A j \in 1 .. n : \E i \in 1 .. n : p[i] = j
    /\ \A i \in 2 .. n : s[i - 1].start <= s[i].start

LEMMA SortedFacts ==
    ASSUME NEW items \in SeqOf(Spans), NEW s \in Sorted(items)
    PROVE  \E n \in Nat : \E p \in [1 .. n -> 1 .. n] : Arranges(n, p, items, s)
<1>1. PICK n \in 0 .. MaxItems : items \in [1 .. n -> Spans]
  BY DEF SeqOf
<1>2. n \in Nat /\ DOMAIN items = 1 .. n
  BY <1>1, MaxItemsIsNat
<1>3. PICK p \in Bijection(1 .. n, 1 .. n) : s = [i \in 1 .. n |-> items[p[i]]]
  BY <1>2 DEF Sorted
<1>4. /\ p \in [1 .. n -> 1 .. n]
      /\ \A i, j \in 1 .. n : p[i] = p[j] => i = j
      /\ \A j \in 1 .. n : \E i \in 1 .. n : p[i] = j
  BY DEF Bijection, Injection, Surjection, IsInjective
<1>5. s \in [1 .. n -> Spans] /\ \A i \in 1 .. n : s[i] = items[p[i]]
  BY <1>1, <1>3, <1>4
<1>6. Len(s) = n
  BY <1>2, <1>5
<1>7. \A i \in 2 .. n : s[i - 1].start <= s[i].start
  BY <1>6 DEF Sorted
<1>8. Arranges(n, p, items, s)
  BY <1>1, <1>4, <1>5, <1>6, <1>7 DEF Arranges
<1> QED
  BY <1>2, <1>4, <1>8

LEMMA ValidIsDisjoint ==
    ASSUME NEW items \in SeqOf(Spans), NEW s \in Sorted(items), ValidSchedule(s)
    PROVE  IsInjective(items) /\ Disjoint(Range(items))
<1>1. PICK n \in Nat : \E p \in [1 .. n -> 1 .. n] : Arranges(n, p, items, s)
  BY SortedFacts
<1>2. PICK p \in [1 .. n -> 1 .. n] : Arranges(n, p, items, s)
  BY <1>1
<1>0. /\ items \in [1 .. n -> Spans] /\ s \in [1 .. n -> Spans] /\ Len(s) = n
      /\ \A i \in 1 .. n : s[i] = items[p[i]]
      /\ \A j \in 1 .. n : \E i \in 1 .. n : p[i] = j
  BY <1>2 DEF Arranges
<1>3. ASSUME NEW a \in 1 .. n, NEW b \in 1 .. n, a # b
      PROVE  items[a] # items[b] /\ ~Overlaps(items[a], items[b])
  <2>1. PICK i \in 1 .. n : p[i] = a
    BY <1>0
  <2>2. PICK j \in 1 .. n : p[j] = b
    BY <1>0
  <2>3. items[a] = s[i] /\ items[b] = s[j] /\ i # j
    BY <1>0, <1>3, <2>1, <2>2
  <2>4. s[i].end <= s[j].start \/ s[j].end <= s[i].start
    <3>1. CASE i < j
      BY <1>0, <3>1, NeighboursChain
    <3>2. CASE j < i
      BY <1>0, <3>2, NeighboursChain
    <3> QED
      BY <2>3, <3>1, <3>2
  <2>5. /\ s[i].start \in Int /\ s[i].end \in Int /\ s[i].start < s[i].end
        /\ s[j].start \in Int /\ s[j].end \in Int /\ s[j].start < s[j].end
    BY <1>0, SpanFacts
  <2>6. s[i] # s[j]
    BY <2>4, <2>5
  <2>7. ~Overlaps(s[i], s[j])
    BY <2>4, <2>5, SMTT(30) DEF Overlaps
  <2> QED
    BY <2>3, <2>6, <2>7
<1>4. DOMAIN items = 1 .. n
  BY <1>0
<1> QED
  BY <1>3, <1>4 DEF IsInjective, Disjoint, Range

\* Of two intervals that do not overlap, the later one starts after the other.
LEMMA NextStartsLater ==
    ASSUME NEW a \in Int, NEW b \in Int, NEW c \in Int, NEW d \in Int,
           ~(a < d /\ b > c), a <= c, c < d
    PROVE  c >= b
OBVIOUS

LEMMA DisjointIsValid ==
    ASSUME NEW items \in SeqOf(Spans), NEW s \in Sorted(items),
           IsInjective(items), Disjoint(Range(items))
    PROVE  ValidSchedule(s)
<1>1. PICK n \in Nat : \E p \in [1 .. n -> 1 .. n] : Arranges(n, p, items, s)
  BY SortedFacts
<1>2. PICK p \in [1 .. n -> 1 .. n] : Arranges(n, p, items, s)
  BY <1>1
<1>0. /\ items \in [1 .. n -> Spans] /\ s \in [1 .. n -> Spans] /\ Len(s) = n
      /\ \A i \in 1 .. n : s[i] = items[p[i]]
      /\ \A i, j \in 1 .. n : p[i] = p[j] => i = j
      /\ \A i \in 2 .. n : s[i - 1].start <= s[i].start
  BY <1>2 DEF Arranges
<1>3. ASSUME NEW i \in 2 .. n
      PROVE  s[i].start >= s[i - 1].end
  <2>1. i \in 1 .. n /\ i - 1 \in 1 .. n /\ i # i - 1
    BY <1>3
  <2>2. /\ p[i] \in DOMAIN items /\ p[i - 1] \in DOMAIN items /\ p[i] # p[i - 1]
        /\ s[i] = items[p[i]] /\ s[i - 1] = items[p[i - 1]]
    BY <1>0, <2>1
  <2>3. s[i - 1] # s[i] /\ s[i] \in Range(items) /\ s[i - 1] \in Range(items)
    BY <2>2 DEF IsInjective, Range
  <2>4. ~Overlaps(s[i - 1], s[i])
    BY <2>3 DEF Disjoint
  <2>5. /\ s[i].start \in Int /\ s[i].end \in Int /\ s[i].start < s[i].end
        /\ s[i - 1].start \in Int /\ s[i - 1].end \in Int /\ s[i - 1].start < s[i - 1].end
    BY <1>0, <2>1, SpanFacts
  <2>6. s[i - 1].start <= s[i].start
    BY <1>0
  <2>7. ~(s[i - 1].start < s[i].end /\ s[i - 1].end > s[i].start)
    BY <2>4 DEF Overlaps
  <2> QED
    BY <2>5, <2>6, <2>7, NextStartsLater
<1> QED
  BY <1>0, <1>3 DEF ValidSchedule

-----------------------------------------------------------------------------
(***************************************************************************)
(* Who meets whom: two replacements that may delete one row meet, and what *)
(* a call inserts is among what it replaces.                               *)
(***************************************************************************)
LEMMA MeetIsMutual ==
    ASSUME NEW c \in Calls, NEW d \in Calls
    PROVE  Meet(c, d) <=> Meet(d, c)
BY DEF Meet

LEMMA SliceMeets ==
    ASSUME NEW t \in Row, NEW c \in Calls, NEW d \in Calls,
           request[c] \in Requests, request[d] \in Requests,
           Replaces(request[c], t), Replaces(request[d], t)
    PROVE  Meet(c, d)
<1>1. /\ t.item \in Spans => t.item \notin Services
      /\ request[c].op = "technicians" => request[c].target \notin Spans
      /\ request[d].op = "technicians" => request[d].target \notin Spans
  BY SpansAreNotServices DEF Requests, PutWorkingHours, PutCapabilities, PutServiceStaff
<1>2. /\ request[c].op \in {"hours", "capabilities", "technicians"}
      /\ request[d].op \in {"hours", "capabilities", "technicians"}
  BY DEF Requests, PutWorkingHours, PutCapabilities, PutServiceStaff
<1> QED
  BY <1>1, <1>2 DEF Meet, Replaces

LEMMA ReplacesEntry ==
    ASSUME NEW q \in Requests, NEW t \in Row, NEW u \in Row, SameEntry(t, u), Replaces(q, t)
    PROVE  Replaces(q, u)
BY DEF Replaces, SameEntry, Requests, PutWorkingHours, PutCapabilities, PutServiceStaff

LEMMA AskedIsReplaced ==
    ASSUME SetsInv, NEW c \in Calls, pc[c] \in {"clear", "write", "reread"}, NEW t \in Asked(c)
    PROVE  Replaces(request[c], t)
<1>1. request[c] \in Requests /\ request[c].target \notin Foreign
  BY DEF SetsInv, TypeOK, RequestsAreLegal
<1>2. PICK i \in DOMAIN request[c].items : t = NewRow(c, request[c].items[i])
  BY DEF Asked
<1>3. request[c].items[i] \notin Foreign
  BY DEF SetsInv, RequestsAreLegal, Range
<1>4. \E n \in 0 .. MaxItems : DOMAIN request[c].items = 1 .. n
  BY <1>1 DEF Requests, PutWorkingHours, PutCapabilities, PutServiceStaff, SeqOf
<1>5. /\ request[c].op = "hours" => request[c].items[i] \in Spans
      /\ request[c].op = "capabilities" => request[c].items[i] \in Services \cup Foreign
      /\ request[c].op \in {"hours", "capabilities", "technicians"}
  BY <1>1, <1>4 DEF Requests, PutWorkingHours, PutCapabilities, PutServiceStaff, SeqOf
<1> QED
  BY <1>2, <1>3, <1>5 DEF Replaces, NewRow

\* The facts the steps below use most.
LEMMA RosterFacts ==
    ASSUME SetsInv
    PROVE  /\ rows \subseteq Row /\ crossed \subseteq Calls
           /\ pc \in [Calls -> PCs] /\ tx \in [Calls -> Work]
           /\ DOMAIN request = Calls /\ DOMAIN answer = Calls
           /\ \A c \in Calls : pc[c] # "idle" => request[c] \in Requests
           /\ \A c \in Calls : tx[c].todo \subseteq Row /\ tx[c].gone \subseteq Row
BY DEF SetsInv, TypeOK, Work

-----------------------------------------------------------------------------
(***************************************************************************)
(* A statement that leaves the table, the requests and the answers alone   *)
(* need only account for what its own DELETE has reached.                  *)
(***************************************************************************)
LEMMA QuietStep ==
    ASSUME IInv, NEW c \in Calls,
           UNCHANGED <<rows, request, pc, answer, crossed>>,
           \A d \in Calls \ {c} : tx'[d] = tx[d],
           tx'[c].todo \cup tx'[c].gone \subseteq tx[c].todo \cup tx[c].gone,
           (tx[c].todo \cup tx[c].gone) \cap rows \subseteq tx'[c].todo \cup tx'[c].gone
    PROVE  /\ MeetingsAreKnown' /\ DeletesAreAsked' /\ AloneKeepsSlice'
           /\ AloneIsExact' /\ OverlapOnlyByRace'
<1>1. MeetingsAreKnown'
  <2>1. \A d, e \in Calls : (Active(d)' <=> Active(d)) /\ (Meet(d, e)' <=> Meet(d, e))
    BY DEF Active, Meet
  <2>2. crossed \subseteq Calls
    BY RosterFacts DEF IInv
  <2> QED
    BY <2>1, <2>2 DEF IInv, MeetingsAreKnown
<1>2. DeletesAreAsked'
  BY DEF IInv, DeletesAreAsked
<1>3. \A d \in Calls : Slice(d)' = Slice(d) /\ Asked(d)' = Asked(d)
  BY DEF Slice, Asked, NewRow
<1>4. \A d \in Calls : Slice(d) \subseteq rows
  BY DEF Slice
<1>5. AloneKeepsSlice'
  <2> SUFFICES ASSUME NEW d \in Calls \ crossed
               PROVE  /\ pc[d] = "write" => Slice(d) \subseteq tx'[d].todo \cup tx'[d].gone
                      /\ pc[d] = "reread" => Slice(d) = Asked(d)
    BY <1>3 DEF AloneKeepsSlice
  <2>1. /\ pc[d] = "write" => Slice(d) \subseteq tx[d].todo \cup tx[d].gone
        /\ pc[d] = "reread" => Slice(d) = Asked(d)
    BY DEF IInv, AloneKeepsSlice
  <2>2. CASE d = c
    BY <1>4, <2>1, <2>2
  <2>3. CASE d # c
    BY <2>1, <2>3
  <2> QED
    BY <2>2, <2>3
<1>6. AloneIsExact'
  BY <1>3 DEF IInv, AloneIsExact, RefusedForCause
<1>7. OverlapOnlyByRace'
  BY DEF IInv, OverlapOnlyByRace, Schedule
<1> QED
  BY <1>1, <1>2, <1>5, <1>6, <1>7

LEMMA ClearRowAlone ==
    ASSUME IInv, NEW c \in Calls, ClearRow(c)
    PROVE  /\ MeetingsAreKnown' /\ DeletesAreAsked' /\ AloneKeepsSlice'
           /\ AloneIsExact' /\ OverlapOnlyByRace'
<1>1. PICK t \in tx[c].todo :
        tx' = [tx EXCEPT ![c].todo = @ \ {t}, ![c].gone = @ \cup ({t} \cap rows)]
  BY DEF ClearRow
<1>2. tx[c] \in Work /\ tx \in [Calls -> Work]
  BY RosterFacts DEF IInv
<1>3. tx'[c] = [todo |-> tx[c].todo \ {t}, gone |-> tx[c].gone \cup ({t} \cap rows),
                added |-> tx[c].added, left |-> tx[c].left]
  BY <1>1, <1>2 DEF Work
<1>4. \A d \in Calls \ {c} : tx'[d] = tx[d]
  BY <1>1, <1>2
<1>5. /\ tx'[c].todo \cup tx'[c].gone \subseteq tx[c].todo \cup tx[c].gone
      /\ (tx[c].todo \cup tx[c].gone) \cap rows \subseteq tx'[c].todo \cup tx'[c].gone
  BY <1>3
<1>6. UNCHANGED <<rows, request, pc, answer, crossed>>
  BY DEF ClearRow
<1> QED
  BY <1>4, <1>5, <1>6, QuietStep

LEMMA InsertAlone ==
    ASSUME IInv, NEW c \in Calls, Insert(c)
    PROVE  /\ MeetingsAreKnown' /\ DeletesAreAsked' /\ AloneKeepsSlice'
           /\ AloneIsExact' /\ OverlapOnlyByRace'
<1>1. tx \in [Calls -> Work] /\ tx[c] \in Work
  BY RosterFacts DEF IInv
<1>2. \A d \in Calls : /\ d # c => tx'[d] = tx[d]
                       /\ tx'[d].todo = tx[d].todo /\ tx'[d].gone = tx[d].gone
  BY <1>1 DEF Insert, Work
<1> QED
  BY <1>2, QuietStep DEF Insert

(***************************************************************************)
(* An answer to a request that is running: OK says what was asked for, if  *)
(* the call was alone, and none but a call that met another is refused.    *)
(***************************************************************************)
LEMMA AnswerAlone ==
    ASSUME IInv, NEW c \in Calls, NEW code, NEW seen,
           pc[c] \in {"clear", "write", "reread"},
           Answer(c, code, seen), UNCHANGED <<rows, request, crossed>>,
           code = "VALIDATION_FAILED" => c \in crossed,
           code = "OK" /\ c \notin crossed => seen = Asked(c)
    PROVE  /\ MeetingsAreKnown' /\ DeletesAreAsked' /\ AloneKeepsSlice'
           /\ AloneIsExact' /\ OverlapOnlyByRace'
<1>1. /\ pc'[c] = "done" /\ tx'[c] = NoWork
      /\ answer'[c] = [code |-> code, seen |-> seen]
      /\ \A d \in Calls \ {c} : pc'[d] = pc[d] /\ tx'[d] = tx[d] /\ answer'[d] = answer[d]
  BY RosterFacts DEF Answer, IInv
<1>2. MeetingsAreKnown'
  <2>1. \A d \in Calls : Active(d)' => Active(d)
    BY <1>1 DEF Active
  <2>2. \A d \in crossed : pc'[d] \notin {"idle", "clear"}
    BY <1>1, RosterFacts DEF IInv, MeetingsAreKnown
  <2> QED
    BY <2>1, <2>2, ZenonT(40) DEF IInv, MeetingsAreKnown, Meet
<1>3. DeletesAreAsked'
  BY <1>1 DEF IInv, DeletesAreAsked, NoWork
<1>4. \A d \in Calls : Slice(d)' = Slice(d) /\ Asked(d)' = Asked(d)
  BY DEF Slice, Asked, NewRow
<1>5. AloneKeepsSlice'
  BY <1>1, <1>4 DEF IInv, AloneKeepsSlice
<1>6. AloneIsExact'
  <2>1. RefusedForCause'
    BY <1>1 DEF IInv, AloneIsExact, RefusedForCause
  <2>2. \A d \in Calls \ crossed :
          pc'[d] = "done" /\ answer'[d].code = "OK" => answer'[d].seen = Asked(d)
    BY <1>1 DEF IInv, AloneIsExact
  <2> QED
    BY <1>4, <2>1, <2>2 DEF AloneIsExact
<1>7. OverlapOnlyByRace'
  BY DEF IInv, OverlapOnlyByRace, Schedule
<1> QED
  BY <1>2, <1>3, <1>5, <1>6, <1>7

LEMMA RefuseDuplicateAlone ==
    ASSUME IInv, NEW c \in Calls, RefuseDuplicate(c)
    PROVE  /\ MeetingsAreKnown' /\ DeletesAreAsked' /\ AloneKeepsSlice'
           /\ AloneIsExact' /\ OverlapOnlyByRace'
<1> DEFINE code == IF request[c].op = "hours" THEN "VALIDATION_FAILED" ELSE "INTERNAL_ERROR"
<1>1. /\ pc[c] = "write" /\ tx[c].todo = {} /\ tx[c].left # << >> /\ Taken(c, NextRow(c))
      /\ Answer(c, code, {}) /\ UNCHANGED <<rows, request, crossed>>
  BY DEF RefuseDuplicate, Refuse, Inserting
<1>2. c \in crossed
  <2> SUFFICES ASSUME c \notin crossed PROVE FALSE
    OBVIOUS
  <2>1. tx[c] \in Work
    BY RosterFacts DEF IInv
  <2>2. tx[c].left \in Seq(Spans \cup Services \cup Staff)
    BY <2>1 DEF Work
  <2>3. 1 \in DOMAIN tx[c].left /\ NextRow(c) = NewRow(c, tx[c].left[1])
    BY <1>1, <2>2 DEF NextRow
  <2>4. NextRow(c) \in Asked(c)
    BY <1>1, <2>3 DEF IInv, SetsInv, WorkIsAsked
  <2>5. NextRow(c) \in Row /\ Replaces(request[c], NextRow(c)) /\ request[c] \in Requests
    BY <1>1, <2>4, AskedType, AskedIsReplaced, RosterFacts DEF IInv
  <2>6. PICK u \in rows \ tx[c].gone : SameEntry(NextRow(c), u)
    BY <1>1 DEF Taken
  <2>7. u \in Slice(c)
    BY <2>5, <2>6, ReplacesEntry, RosterFacts DEF Slice, IInv
  <2> QED
    BY <1>1, <2>6, <2>7 DEF IInv, AloneKeepsSlice
<1>3. code # "OK"
  OBVIOUS
<1> HIDE DEF code
<1> QED
  BY <1>1, <1>2, <1>3, AnswerAlone

LEMMA RereadAlone ==
    ASSUME IInv, NEW c \in Calls, Reread(c)
    PROVE  /\ MeetingsAreKnown' /\ DeletesAreAsked' /\ AloneKeepsSlice'
           /\ AloneIsExact' /\ OverlapOnlyByRace'
<1>1. pc[c] = "reread" /\ Answer(c, "OK", Slice(c)) /\ UNCHANGED <<rows, request, crossed>>
  BY DEF Reread, Slice
<1>2. c \notin crossed => Slice(c) = Asked(c)
  BY <1>1 DEF IInv, AloneKeepsSlice
<1> QED
  BY <1>1, <1>2, AnswerAlone

(***************************************************************************)
(* The call is made: whatever is refused at once deserves it.              *)
(***************************************************************************)
LEMMA CallAlone ==
    ASSUME IInv, NEW c \in Calls, Call(c)
    PROVE  /\ MeetingsAreKnown' /\ DeletesAreAsked' /\ AloneKeepsSlice'
           /\ AloneIsExact' /\ OverlapOnlyByRace'
<1>1. pc[c] = "idle" /\ rows' = rows /\ crossed' = crossed
  BY DEF Call
<1>2. PICK q \in Requests :
         /\ request' = [request EXCEPT ![c] = q]
         /\ \/ /\ q.target \in Foreign
               /\ Refuse(c, IF q.op = "technicians" THEN "SERVICE_NOT_FOUND" ELSE "STAFF_NOT_FOUND")
            \/ /\ q.target \notin Foreign /\ q.op # "hours"
               /\ Range(q.items) \cap Foreign # {}
               /\ Refuse(c, "VALIDATION_FAILED")
            \/ /\ q.target \notin Foreign /\ q.op = "hours"
               /\ \E s \in Sorted(q.items) : ~ValidSchedule(s)
               /\ Refuse(c, "VALIDATION_FAILED")
            \/ /\ q.target \notin Foreign /\ Range(q.items) \cap Foreign = {}
               /\ \E s \in IF q.op = "hours" THEN Sorted(q.items) ELSE {q.items} :
                    /\ q.op = "hours" => ValidSchedule(s)
                    /\ tx' = [tx EXCEPT ![c].left = s]
               /\ pc' = [pc EXCEPT ![c] = "clear"]
               /\ UNCHANGED answer
  BY DEF Call
<1>3. q.op = "hours" => q.items \in SeqOf(Spans)
  BY DEF Requests, PutWorkingHours, PutCapabilities, PutServiceStaff
<1>4. \/ /\ pc'[c] = "done" /\ answer'[c].code \in {"SERVICE_NOT_FOUND", "STAFF_NOT_FOUND"}
      \/ pc'[c] = "done" /\ answer'[c].code = "VALIDATION_FAILED" /\ ~Legal(q)
      \/ pc'[c] = "clear" /\ Legal(q)
  <2>1. CASE /\ q.target \in Foreign
             /\ Refuse(c, IF q.op = "technicians" THEN "SERVICE_NOT_FOUND" ELSE "STAFF_NOT_FOUND")
    BY <2>1, RosterFacts DEF IInv, Refuse, Answer
  <2>2. CASE Range(q.items) \cap Foreign # {} /\ Refuse(c, "VALIDATION_FAILED")
    BY <2>2, RosterFacts DEF IInv, Refuse, Answer, Legal
  <2>3. CASE /\ q.op = "hours" /\ \E s \in Sorted(q.items) : ~ValidSchedule(s)
             /\ Refuse(c, "VALIDATION_FAILED")
    <3>1. ~(IsInjective(q.items) /\ Disjoint(Range(q.items)))
      BY <1>3, <2>3, DisjointIsValid
    <3> QED
      BY <2>3, <3>1, RosterFacts DEF IInv, Refuse, Answer, Legal
  <2>4. CASE /\ Range(q.items) \cap Foreign = {} /\ pc' = [pc EXCEPT ![c] = "clear"]
             /\ \E s \in IF q.op = "hours" THEN Sorted(q.items) ELSE {q.items} :
                    q.op = "hours" => ValidSchedule(s)
    <3>1. q.op = "hours" => IsInjective(q.items) /\ Disjoint(Range(q.items))
      BY <1>3, <2>4, ValidIsDisjoint
    <3> QED
      BY <2>4, <3>1, RosterFacts DEF IInv, Legal
  <2> QED
    BY <1>2, <2>1, <2>2, <2>3, <2>4
<1>5. \A d \in Calls \ {c} : /\ pc'[d] = pc[d] /\ tx'[d] = tx[d]
                             /\ answer'[d] = answer[d] /\ request'[d] = request[d]
  BY <1>2, RosterFacts DEF IInv, Refuse, Answer
<1>6. tx[c].todo = {} /\ tx[c].gone = {}
  BY <1>1 DEF IInv, SetsInv, LocksAreHeld
<1>7. tx'[c].todo = {} /\ tx'[c].gone = {}
  <2>1. CASE tx' = [tx EXCEPT ![c] = NoWork]
    BY <2>1, RosterFacts DEF IInv, NoWork
  <2>2. CASE \E s : tx' = [tx EXCEPT ![c].left = s]
    <3>1. tx[c] \in Work /\ tx \in [Calls -> Work]
      BY RosterFacts DEF IInv
    <3> QED
      BY <1>6, <2>2, <3>1 DEF Work
  <2> QED
    BY <1>2, <2>1, <2>2 DEF Refuse, Answer
<1>8. request'[c] = q /\ c \notin crossed /\ crossed \subseteq Calls
  BY <1>1, <1>2, RosterFacts DEF IInv, MeetingsAreKnown
<1>9. MeetingsAreKnown'
  <2>1. \A d \in Calls : Active(d)' => d # c /\ Active(d)
    BY <1>4, <1>5 DEF Active
  <2>2. \A d, e \in Calls \ {c} : Meet(d, e)' <=> Meet(d, e)
    BY <1>5 DEF Meet
  <2>3. \A d, e \in Calls : d # e /\ Active(d)' /\ Active(e)' /\ Meet(d, e)' => d \in crossed'
    BY <1>1, <2>1, <2>2 DEF IInv, MeetingsAreKnown
  <2>4. \A d \in crossed : pc[d] \notin {"idle", "clear"} /\ \E e \in crossed \ {d} : Meet(d, e)
    BY DEF IInv, MeetingsAreKnown
  <2>5. \A d \in crossed : pc'[d] \notin {"idle", "clear"} /\ \E e \in crossed \ {d} : Meet(d, e)'
    BY <1>5, <1>8, <2>2, <2>4
  <2> QED
    BY <1>1, <2>3, <2>5 DEF MeetingsAreKnown
<1>10. DeletesAreAsked'
  BY <1>5, <1>7 DEF IInv, DeletesAreAsked
<1>11. AloneKeepsSlice'
  <2>1. \A d \in Calls \ {c} : Slice(d)' = Slice(d) /\ Asked(d)' = Asked(d)
    BY <1>1, <1>5 DEF Slice, Asked, NewRow
  <2> QED
    BY <1>1, <1>4, <1>5, <2>1 DEF IInv, AloneKeepsSlice
<1>12. AloneIsExact'
  <2>1. RefusedForCause'
    BY <1>1, <1>4, <1>5, <1>8 DEF IInv, AloneIsExact, RefusedForCause
  <2>2. \A d \in Calls \ {c} : Asked(d)' = Asked(d)
    BY <1>5 DEF Asked, NewRow
  <2>3. \A d \in Calls \ crossed' :
          pc'[d] = "done" /\ answer'[d].code = "OK" => answer'[d].seen = Asked(d)'
    BY <1>1, <1>4, <1>5, <2>2 DEF IInv, AloneIsExact
  <2> QED
    BY <2>1, <2>3 DEF AloneIsExact
<1>13. OverlapOnlyByRace'
  <2>1. \A s \in Staff : Schedule(s)' = Schedule(s)
    BY <1>1 DEF Schedule
  <2>2. \A d \in crossed : request'[d] = request[d]
    BY <1>5, <1>8
  <2> SUFFICES ASSUME NEW s \in Staff, ~Disjoint(Schedule(s))
               PROVE  \E d, e \in crossed : d # e /\ \A f \in {d, e} :
                          request'[f].op = "hours" /\ request'[f].target = s
    BY <1>1, <2>1 DEF OverlapOnlyByRace
  <2>3. PICK d \in crossed, e \in crossed : d # e /\ \A f \in {d, e} :
                          request[f].op = "hours" /\ request[f].target = s
    BY DEF IInv, OverlapOnlyByRace
  <2> QED
    BY <2>2, <2>3
<1> QED
  BY <1>9, <1>10, <1>11, <1>12, <1>13

(***************************************************************************)
(* BEGIN and the DELETE's snapshot: the call sees all it replaces, and all *)
(* whom it meets.                                                          *)
(***************************************************************************)
LEMMA ClearAlone ==
    ASSUME IInv, NEW c \in Calls, Clear(c)
    PROVE  /\ MeetingsAreKnown' /\ DeletesAreAsked' /\ AloneKeepsSlice'
           /\ AloneIsExact' /\ OverlapOnlyByRace'
<1> DEFINE beside == { d \in Calls \ {c} : Active(d) /\ Meet(c, d) }
<1>1. /\ pc[c] = "clear" /\ pc' = [pc EXCEPT ![c] = "write"]
      /\ tx' = [tx EXCEPT ![c].todo = Slice(c)]
      /\ UNCHANGED <<rows, request, answer>>
      /\ crossed' = IF beside = {} THEN crossed ELSE crossed \cup beside \cup {c}
  BY DEF Clear, Slice
<1>2. tx[c].gone = {} /\ tx[c] \in Work /\ tx \in [Calls -> Work] /\ pc \in [Calls -> PCs]
  BY <1>1, RosterFacts DEF IInv, SetsInv, LocksAreHeld
<1>3. tx'[c].todo = Slice(c) /\ tx'[c].gone = {} /\ pc'[c] = "write"
  BY <1>1, <1>2 DEF Work
<1>4. \A d \in Calls \ {c} : pc'[d] = pc[d] /\ tx'[d] = tx[d]
  BY <1>1, <1>2
<1>5. \A d, e \in Calls : Meet(d, e)' <=> Meet(d, e)
  BY <1>1 DEF Meet
<1>6. \A d \in Calls : Slice(d)' = Slice(d) /\ Asked(d)' = Asked(d)
  BY <1>1 DEF Slice, Asked, NewRow
<1>7. crossed \subseteq crossed' /\ crossed \subseteq Calls
  BY <1>1, RosterFacts DEF IInv
<1>8. MeetingsAreKnown'
  <2>1. \A d \in Calls : Active(d)' <=> d = c \/ Active(d)
    BY <1>3, <1>4 DEF Active
  <2>2. ASSUME NEW d \in Calls, NEW e \in Calls, d # e, Active(d)', Active(e)', Meet(d, e)
        PROVE  d \in crossed'
    <3>1. CASE d = c
      <4>1. e \in beside
        BY <2>1, <2>2, <3>1
      <4> QED
        BY <1>1, <3>1, <4>1
    <3>2. CASE e = c
      <4>1. d \in beside
        BY <2>1, <2>2, <3>2, MeetIsMutual
      <4> QED
        BY <1>1, <4>1
    <3>3. CASE d # c /\ e # c
      BY <1>7, <2>1, <2>2, <3>3 DEF IInv, MeetingsAreKnown
    <3> QED
      BY <3>1, <3>2, <3>3
  <2>3. ASSUME NEW d \in crossed'
        PROVE  pc'[d] \notin {"idle", "clear"} /\ \E e \in crossed' \ {d} : Meet(d, e)
    <3>1. CASE d \in crossed
      <4>1. pc[d] \notin {"idle", "clear"} /\ \E e \in crossed \ {d} : Meet(d, e)
        BY <3>1 DEF IInv, MeetingsAreKnown
      <4>2. d # c /\ d \in Calls
        BY <1>1, <1>7, <3>1, <4>1
      <4> QED
        BY <1>4, <1>7, <4>1, <4>2
    <3>2. CASE d = c /\ d \notin crossed
      <4>1. beside # {}
        BY <1>1, <2>3, <3>2
      <4>2. PICK e \in beside : TRUE
        BY <4>1
      <4>3. e \in crossed' /\ e # d /\ Meet(d, e)
        BY <1>1, <3>2, <4>2
      <4> QED
        BY <1>3, <3>2, <4>3
    <3>3. CASE d \in beside
      <4>1. c \in crossed' /\ c # d /\ Meet(d, c)
        BY <1>1, <3>3, MeetIsMutual
      <4> QED
        BY <1>4, <3>3, <4>1 DEF Active
    <3> QED
      BY <1>1, <2>3, <3>1, <3>2, <3>3
  <2>4. crossed' \subseteq Calls
    BY <1>1, <1>7
  <2> HIDE DEF beside
  <2>5. \A d, e \in Calls : d # e /\ Active(d)' /\ Active(e)' /\ Meet(d, e)' => d \in crossed'
    BY <1>5, <2>2
  <2>6. \A d \in crossed' : pc'[d] \notin {"idle", "clear"} /\ \E e \in crossed' \ {d} : Meet(d, e)'
    BY <1>5, <2>3, <2>4
  <2> QED
    BY <2>5, <2>6 DEF MeetingsAreKnown
<1> HIDE DEF beside
<1>9. DeletesAreAsked'
  <2>1. \A t \in Slice(c) : Replaces(request[c], t)
    BY DEF Slice
  <2> QED
    BY <1>1, <1>3, <1>4, <2>1 DEF IInv, DeletesAreAsked
<1>10. AloneKeepsSlice'
  <2> SUFFICES ASSUME NEW d \in Calls, d \notin crossed'
               PROVE  /\ pc'[d] = "write" => Slice(d) \subseteq tx'[d].todo \cup tx'[d].gone
                      /\ pc'[d] = "reread" => Slice(d) = Asked(d)
    BY <1>6 DEF AloneKeepsSlice
  <2>1. CASE d = c
    BY <1>3, <2>1
  <2>2. CASE d # c
    BY <1>4, <1>7, <2>2 DEF IInv, AloneKeepsSlice
  <2> QED
    BY <2>1, <2>2
<1>11. AloneIsExact'
  <2>1. RefusedForCause'
    BY <1>1, <1>3, <1>4, <1>7 DEF IInv, AloneIsExact, RefusedForCause
  <2>2. \A d \in Calls \ crossed' :
          pc'[d] = "done" /\ answer'[d].code = "OK" => answer'[d].seen = Asked(d)
    BY <1>1, <1>3, <1>4, <1>7 DEF IInv, AloneIsExact
  <2> QED
    BY <1>6, <2>1, <2>2 DEF AloneIsExact
<1>12. OverlapOnlyByRace'
  <2>1. \A s \in Staff : Schedule(s)' = Schedule(s)
    BY <1>1 DEF Schedule
  <2> QED
    BY <1>1, <1>7, <2>1 DEF IInv, OverlapOnlyByRace
<1> QED
  BY <1>8, <1>9, <1>10, <1>11, <1>12

(***************************************************************************)
(* The commit.  A call that is alone is left alone by it, and a call that  *)
(* commits alone has deleted all it replaces and inserted all it was asked.*)
(***************************************************************************)
LEMMA CommitAlone ==
    ASSUME IInv, NEW c \in Calls, Commit(c)
    PROVE  /\ MeetingsAreKnown' /\ DeletesAreAsked' /\ AloneKeepsSlice'
           /\ AloneIsExact' /\ OverlapOnlyByRace'
<1>1. /\ pc[c] = "write" /\ tx[c].todo = {} /\ tx[c].left = << >>
      /\ rows' = (rows \ tx[c].gone) \cup tx[c].added
      /\ tx' = [tx EXCEPT ![c] = NoWork] /\ pc' = [pc EXCEPT ![c] = "reread"]
      /\ UNCHANGED <<request, answer, crossed>>
  BY DEF Commit
<1>2. /\ rows \subseteq Row /\ crossed \subseteq Calls /\ tx \in [Calls -> Work]
      /\ request[c] \in Requests /\ tx[c].gone \subseteq Row
  BY <1>1, RosterFacts DEF IInv
<1>3. pc'[c] = "reread" /\ tx'[c].todo = {} /\ tx'[c].gone = {}
  BY <1>1, <1>2, RosterFacts DEF IInv, NoWork
<1>4. \A d \in Calls \ {c} : pc'[d] = pc[d] /\ tx'[d] = tx[d]
  BY <1>1, <1>2
<1>5. tx[c].added = Asked(c)
  <2>1. tx[c].added \cup { NewRow(c, tx[c].left[i]) : i \in DOMAIN tx[c].left } = Asked(c)
    BY <1>1 DEF IInv, SetsInv, WorkIsAsked
  <2>2. DOMAIN tx[c].left = {}
    BY <1>1
  <2> QED
    BY <2>1, <2>2
<1>6. \A t \in Asked(c) : t \in Row /\ Replaces(request[c], t)
  BY <1>1, AskedType, AskedIsReplaced DEF IInv
<1>7. \A t \in tx[c].gone : Replaces(request[c], t)
  BY DEF IInv, DeletesAreAsked
<1>8. \A d \in Calls : Asked(d)' = Asked(d)
  BY <1>1 DEF Asked, NewRow
<1>9. c \notin crossed => Slice(c)' = Asked(c)
  <2> SUFFICES ASSUME c \notin crossed PROVE Slice(c)' = Asked(c)
    OBVIOUS
  <2>1. Slice(c) \subseteq tx[c].gone
    BY <1>1 DEF IInv, AloneKeepsSlice
  <2>2. \A t \in rows : Replaces(request[c], t) => t \in tx[c].gone
    BY <2>1 DEF Slice
  <2>3. Slice(c)' = { t \in rows' : Replaces(request[c], t) }
    BY <1>1 DEF Slice
  <2> QED
    BY <1>1, <1>5, <1>6, <2>2, <2>3
<1>10. ASSUME NEW d \in Calls \ {c}, Active(d), d \notin crossed
       PROVE  Slice(d)' = Slice(d)
  <2>1. ~Meet(d, c)
    BY <1>1, <1>10 DEF IInv, MeetingsAreKnown, Active
  <2>2. request[d] \in Requests
    BY <1>10, RosterFacts DEF IInv, Active
  <2>3. \A t \in tx[c].gone \cup Asked(c) : ~Replaces(request[d], t)
    <3> SUFFICES ASSUME NEW t \in tx[c].gone \cup Asked(c), Replaces(request[d], t)
                 PROVE  FALSE
      OBVIOUS
    <3>1. t \in Row /\ Replaces(request[c], t)
      BY <1>2, <1>6, <1>7
    <3> QED
      BY <1>2, <2>1, <2>2, <3>1, SliceMeets
  <2>4. Slice(d)' = { t \in rows' : Replaces(request[d], t) }
    BY <1>1 DEF Slice
  <2> QED
    BY <1>1, <1>5, <2>3, <2>4 DEF Slice
<1>11. MeetingsAreKnown'
  <2>1. \A d \in Calls : Active(d)' <=> Active(d)
    BY <1>1, <1>3, <1>4 DEF Active
  <2>2. \A d, e \in Calls : Meet(d, e)' <=> Meet(d, e)
    BY <1>1 DEF Meet
  <2>3. \A d \in crossed : pc'[d] \notin {"idle", "clear"}
    BY <1>2, <1>3, <1>4 DEF IInv, MeetingsAreKnown
  <2> QED
    BY <1>1, <1>2, <2>1, <2>2, <2>3 DEF IInv, MeetingsAreKnown
<1>12. DeletesAreAsked'
  BY <1>1, <1>3, <1>4 DEF IInv, DeletesAreAsked
<1>13. AloneKeepsSlice'
  <2> SUFFICES ASSUME NEW d \in Calls, d \notin crossed
               PROVE  /\ pc'[d] = "write" => Slice(d)' \subseteq tx'[d].todo \cup tx'[d].gone
                      /\ pc'[d] = "reread" => Slice(d)' = Asked(d)
    BY <1>1, <1>8 DEF AloneKeepsSlice
  <2>1. CASE d = c
    BY <1>3, <1>9, <2>1
  <2>2. CASE d # c
    <3>1. /\ pc[d] = "write" => Slice(d) \subseteq tx[d].todo \cup tx[d].gone
          /\ pc[d] = "reread" => Slice(d) = Asked(d)
      BY DEF IInv, AloneKeepsSlice
    <3>2. pc[d] \in {"write", "reread"} => Slice(d)' = Slice(d)
      BY <1>10, <2>2 DEF Active
    <3> QED
      BY <1>4, <2>2, <3>1, <3>2
  <2> QED
    BY <2>1, <2>2
<1>14. AloneIsExact'
  <2>1. RefusedForCause'
    BY <1>1, <1>3, <1>4 DEF IInv, AloneIsExact, RefusedForCause
  <2>2. \A d \in Calls \ crossed :
          pc'[d] = "done" /\ answer'[d].code = "OK" => answer'[d].seen = Asked(d)
    BY <1>1, <1>3, <1>4 DEF IInv, AloneIsExact
  <2> QED
    BY <1>1, <1>8, <2>1, <2>2 DEF AloneIsExact
<1>15. OverlapOnlyByRace'
  <2> SUFFICES ASSUME NEW s \in Staff, ~Disjoint(Schedule(s)')
               PROVE  \E d, e \in crossed : d # e /\ \A f \in {d, e} :
                          request[f].op = "hours" /\ request[f].target = s
    BY <1>1 DEF OverlapOnlyByRace, Disjoint
  <2>1. CASE ~(request[c].op = "hours" /\ request[c].target = s)
    <3>1. \A t \in Row : Replaces(request[c], t) => ~(t.staff = s /\ t.item \in Spans)
      BY <1>2, <2>1, SpansAreNotServices
         DEF Replaces, Requests, PutWorkingHours, PutCapabilities, PutServiceStaff
    <3>2. { u \in rows' : u.staff = s /\ u.item \in Spans }
            = { u \in rows : u.staff = s /\ u.item \in Spans }
      BY <1>1, <1>2, <1>5, <1>6, <1>7, <3>1
    <3>3. Schedule(s)' = Schedule(s)
      BY <3>2 DEF Schedule
    <3> QED
      BY <3>3 DEF IInv, OverlapOnlyByRace
  <2>2. CASE request[c].op = "hours" /\ request[c].target = s /\ c \in crossed
    <3>1. PICK d \in crossed \ {c} : Meet(c, d)
      BY <2>2 DEF IInv, MeetingsAreKnown
    <3>2. request[d].op = "hours" /\ request[d].target = s
      BY <2>2, <3>1 DEF Meet
    <3> QED
      BY <2>2, <3>1, <3>2
  <2>3. CASE request[c].op = "hours" /\ request[c].target = s /\ c \notin crossed
    <3>1. Legal(request[c])
      BY <1>1 DEF IInv, AloneIsExact, RefusedForCause
    <3>2. Disjoint(Range(request[c].items))
      BY <2>3, <3>1 DEF Legal
    <3>3. Schedule(s)' \subseteq Range(request[c].items)
      <4> SUFFICES ASSUME NEW t \in rows', t.staff = s, t.item \in Spans
                   PROVE  t.item \in Range(request[c].items)
        BY DEF Schedule
      <4>1. t \in Slice(c)'
        BY <1>1, <2>3 DEF Slice, Replaces
      <4>2. t \in Asked(c)
        BY <1>9, <2>3, <4>1
      <4>3. PICK i \in DOMAIN request[c].items : t = NewRow(c, request[c].items[i])
        BY <4>2 DEF Asked
      <4>4. t.item = request[c].items[i]
        BY <2>3, <4>3 DEF NewRow
      <4> QED
        BY <4>4 DEF Range
    <3>4. Disjoint(Schedule(s)')
      BY <3>2, <3>3 DEF Disjoint
    <3> QED
      BY <3>4
  <2> QED
    BY <2>1, <2>2, <2>3
<1> QED
  BY <1>11, <1>12, <1>13, <1>14, <1>15

-----------------------------------------------------------------------------
LEMMA RosterInit == Init => IInv
<1> SUFFICES ASSUME Init PROVE IInv
  OBVIOUS
<1>1. SetsInv
  BY SetsInit
<1>2. \A c \in Calls : tx[c] = NoWork /\ pc[c] = "idle"
  BY DEF Init
<1>3. crossed = {}
  BY DEF Init
<1>4. MeetingsAreKnown /\ DeletesAreAsked /\ AloneKeepsSlice /\ AloneIsExact
  BY <1>2, <1>3 DEF MeetingsAreKnown, Active, DeletesAreAsked, NoWork, AloneKeepsSlice,
                    AloneIsExact, RefusedForCause
<1>5. OverlapOnlyByRace
  BY DEF Init, OverlapOnlyByRace, Schedule
<1> QED
  BY <1>1, <1>4, <1>5 DEF IInv

LEMMA StutterAlone ==
    ASSUME IInv, UNCHANGED vars
    PROVE  /\ MeetingsAreKnown' /\ DeletesAreAsked' /\ AloneKeepsSlice'
           /\ AloneIsExact' /\ OverlapOnlyByRace'
<1>1. CASE Calls = {}
  BY <1>1, RosterFacts DEF vars, IInv, MeetingsAreKnown, DeletesAreAsked, AloneKeepsSlice,
         AloneIsExact, RefusedForCause, OverlapOnlyByRace, Schedule
<1>2. ASSUME NEW c \in Calls
      PROVE  /\ MeetingsAreKnown' /\ DeletesAreAsked' /\ AloneKeepsSlice'
             /\ AloneIsExact' /\ OverlapOnlyByRace'
  BY QuietStep DEF vars
<1> QED
  BY <1>1, <1>2

(***************************************************************************)
(* The invariant holds through every interleaving of replacements: one row *)
(* per entry, whole schedules, what a call alone leaves, and the locks and *)
(* meetings the argument rests on.                                         *)
(***************************************************************************)
THEOREM RosterInvariance == Spec => []IInv
<1>1. Init => IInv
  BY RosterInit
<1>2. IInv /\ [Next]_vars => IInv'
  <2> SUFFICES ASSUME IInv, [Next]_vars
               PROVE  IInv'
    OBVIOUS
  <2>1. CASE UNCHANGED vars
    BY <2>1, StutterKeepsSets, StutterAlone DEF IInv
  <2>2. ASSUME NEW c \in Calls, Call(c) \/ Step(c) \/ Fail(c)
        PROVE  IInv'
    <3>1. SetsInv'
      BY <2>2, CallStep, StepKeepsSets DEF IInv
    <3>2. CASE BreakDeadlock(c) \/ Fail(c)
      <4>1. pc[c] \in {"clear", "write", "reread"}
        BY <3>2 DEF BreakDeadlock, Deadlocked, WaitInACircle, WaitsFor, Clearing, Inserting, Fail
      <4> QED
        BY <3>1, <3>2, <4>1, AnswerAlone DEF BreakDeadlock, Fail, Refuse, IInv
    <3> QED
      BY <2>2, <3>1, <3>2, CallAlone, ClearAlone, ClearRowAlone, InsertAlone,
         RefuseDuplicateAlone, CommitAlone, RereadAlone DEF Step, IInv
  <2> QED
    BY <2>1, <2>2 DEF Next
<1> QED
  BY <1>1, <1>2, PTL DEF Spec

\* ReplaceWeeklySchedule's "either every requested interval persists or none
\* does", for every number of replacements running at once.
THEOREM SchedulesWhole == Spec => []SchedulesAreWhole
<1>1. IInv => SchedulesAreWhole
  BY DEF IInv, SetsInv
<1> QED
  BY <1>1, RosterInvariance, PTL

\* A replacement that met no other leaves and answers exactly the set it was
\* asked for, and is refused only for a cause: ValidateWeeklySchedule's check
\* of sorted neighbours refuses a schedule if and only if two intervals of it
\* overlap or are the same.
THEOREM ReplacedExactly == Spec => []AloneIsExact
<1>1. IInv => AloneIsExact
  BY DEF IInv
<1> QED
  BY <1>1, RosterInvariance, PTL

\* Stored intervals of one technician overlap only after two replacements of
\* that schedule have met between BEGIN and COMMIT.
THEOREM OverlapNeedsRace == Spec => []OverlapOnlyByRace
<1>1. IInv => OverlapOnlyByRace
  BY DEF IInv
<1> QED
  BY <1>1, RosterInvariance, PTL

=============================================================================
