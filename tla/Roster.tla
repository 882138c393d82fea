------------------------------- MODULE Roster -------------------------------
(***************************************************************************)
(* The whole-set replacements of the scheduling roster: a technician's     *)
(* weekly schedule (staff_working_hours), the services a technician        *)
(* performs and the technicians of a service (staff_services, from its two *)
(* sides).  Each validates the request, then, in one transaction under     *)
(* READ COMMITTED, deletes the old rows and inserts the new ones one by    *)
(* one, commits, and reads the result back.                                *)
(*                                                                         *)
(* A row remembers the call that inserted it, because a DELETE removes the *)
(* rows its snapshot shows and not the ones a concurrent transaction puts  *)
(* in their place.  Schedules are those of one day: days do not interact.  *)
(* Staff and services are archived, never deleted, so the existence a call *)
(* reads first stays true; every identifier of another tenant is Foreign.  *)
(***************************************************************************)
EXTENDS Slots, Sequences, Functions

CONSTANTS
    Staff, Services, Foreign,
    Spans,        \* the intervals a schedule may ask for
    Calls,        \* requests; each runs once
    Absent,
    MaxItems,     \* bound: the length of a request
    Operations    \* which of "hours", "capabilities", "technicians" are called

ASSUME SpansAreIntervals == \A w \in Spans : w \in Span(Int) /\ w.start < w.end
ASSUME SpansAreNotServices == Spans \cap (Services \cup Foreign) = {}
ASSUME MaxItemsIsNat == MaxItems \in Nat
ASSUME AbsentIsNoCall == Absent \notin Calls

VARIABLES
    rows,       \* the committed rows of both tables
    request,    \* Calls -> what the call asks for
    pc,         \* Calls -> the statement the call runs next
    tx,         \* Calls -> the uncommitted work of its transaction
    answer,     \* Calls -> code and listing, once answered
    crossed     \* history: calls that ran beside one that replaces rows of theirs

vars == <<rows, request, pc, tx, answer, crossed>>

PCs == {"idle", "clear", "write", "reread", "done"}

Codes == {"OK", "STAFF_NOT_FOUND", "SERVICE_NOT_FOUND", "VALIDATION_FAILED", "INTERNAL_ERROR"}

Row == [staff : Staff, item : Spans \cup Services, by : Calls \cup {Absent}]

SeqOf(S) == UNION { [1 .. n -> S] : n \in 0 .. MaxItems }

\* The complete set each PUT carries, in the order of its body; nothing at all
\* is an empty set.
PutWorkingHours ==
    [op : {"hours"} \cap Operations, target : Staff \cup Foreign, items : SeqOf(Spans)]

\* Sending one service or technician twice is the same as sending it once.
PutCapabilities ==
    [op : {"capabilities"} \cap Operations, target : Staff \cup Foreign,
     items : { s \in SeqOf(Services \cup Foreign) : IsInjective(s) }]

PutServiceStaff ==
    [op : {"technicians"} \cap Operations, target : Services \cup Foreign,
     items : { s \in SeqOf(Staff \cup Foreign) : IsInjective(s) }]

Requests == PutWorkingHours \cup PutCapabilities \cup PutServiceStaff

\* todo: rows the DELETE has still to reach; gone: rows it has deleted;
\* added: entries inserted; left: items to insert.
Work == [todo : SUBSET Row, gone : SUBSET Row, added : SUBSET Row, left : Seq(Spans \cup Services \cup Staff)]

NoWork == [todo |-> {}, gone |-> {}, added |-> {}, left |-> << >>]

-----------------------------------------------------------------------------
\* The row a call inserts for one item of its request.
NewRow(c, i) ==
    IF request[c].op = "technicians"
    THEN [staff |-> i, item |-> request[c].target, by |-> c]
    ELSE [staff |-> request[c].target, item |-> i, by |-> c]

\* Mutant: clearing a service's technicians clears nothing.
ReplacesOneSide(q, t) ==
    CASE q.op = "hours"        -> t.staff = q.target /\ t.item \in Spans
      [] q.op = "capabilities" -> t.staff = q.target /\ t.item \in Services
      [] q.op = "technicians"  -> FALSE

\* The WHERE of the DELETE.
Replaces(q, t) ==
    CASE q.op = "hours"        -> t.staff = q.target /\ t.item \in Spans
      [] q.op = "capabilities" -> t.staff = q.target /\ t.item \in Services
      [] q.op = "technicians"  -> t.item = q.target

SameEntry(t, u) == t.staff = u.staff /\ t.item = u.item

Disjoint(spans) == \A v, w \in spans : v # w => ~Overlaps(v, w)

\* The rearrangements sort.Slice may leave: by start, ties in any order.
Sorted(items) ==
    { s \in { [i \in DOMAIN items |-> items[p[i]]] : p \in Bijection(DOMAIN items, DOMAIN items) } :
        \A i \in 2 .. Len(s) : s[i - 1].start <= s[i].start }

\* Mutant: only exact duplicates are refused.
ValidScheduleNoOverlapCheck(s) == \A i \in 2 .. Len(s) : s[i] # s[i - 1]

\* ValidateWeeklySchedule, on the sorted intervals: neighbours may touch.
ValidSchedule(s) == \A i \in 2 .. Len(s) : s[i].start >= s[i - 1].end

-----------------------------------------------------------------------------
(***************************************************************************)
(* Row locks and the unique keys: a transaction waits for the one that     *)
(* deletes the row it wants to delete, or that inserts or deletes the      *)
(* entry it wants to insert.                                               *)
(***************************************************************************)
Deleting(d, t) == t \in tx[d].gone

Writing(d, t) == \E u \in tx[d].gone \cup tx[d].added : SameEntry(t, u)

Free(c, t) == \A d \in Calls \ {c} : ~Deleting(d, t)

FreeEntry(c, t) == \A d \in Calls \ {c} : ~Writing(d, t)

\* Mutant: neither table has its unique key.
TakenNever(c, t) == FALSE

\* staff_services' primary key, staff_working_hours_unique_interval.
Taken(c, t) == \E u \in rows \ tx[c].gone : SameEntry(t, u)

Clearing(c) == pc[c] = "write" /\ tx[c].todo # {}

Inserting(c) == pc[c] = "write" /\ tx[c].todo = {} /\ tx[c].left # << >>

NextRow(c) == NewRow(c, Head(tx[c].left))

WaitsFor(c, d) ==
    /\ d # c
    /\ \/ /\ Clearing(c)
          /\ \A t \in tx[c].todo : ~Free(c, t)
          /\ \E u \in tx[c].todo : Deleting(d, u)
       \/ Inserting(c) /\ Writing(d, NextRow(c))

WaitInACircle(D) == \A c \in D : \E d \in D : WaitsFor(c, d)

\* The circle PostgreSQL finds and breaks.
Deadlocked(c) ==
    \E D \in SUBSET Calls :
        /\ c \in D /\ WaitInACircle(D)
        /\ \A E \in SUBSET D : E # {} /\ E # D => ~WaitInACircle(E)

-----------------------------------------------------------------------------
Init ==
    /\ \E committed \in SUBSET [staff : Staff, item : Spans \cup Services, by : {Absent}] :
         /\ \A s \in Staff : Disjoint({ t.item : t \in { u \in committed : u.staff = s /\ u.item \in Spans } })
         /\ rows = committed
    /\ request = [c \in Calls |-> Absent]
    /\ pc = [c \in Calls |-> "idle"]
    /\ tx = [c \in Calls |-> NoWork]
    /\ answer = [c \in Calls |-> Absent]
    /\ crossed = {}

\* Mutant: the deferred rollback is forgotten.
AnswerWithoutRollback(c, code, seen) ==
    /\ pc' = [pc EXCEPT ![c] = "done"]
    /\ answer' = [answer EXCEPT ![c] = [code |-> code, seen |-> seen]]
    /\ UNCHANGED tx

\* An answer; a transaction that has not committed is rolled back.
Answer(c, code, seen) ==
    /\ pc' = [pc EXCEPT ![c] = "done"]
    /\ answer' = [answer EXCEPT ![c] = [code |-> code, seen |-> seen]]
    /\ tx' = [tx EXCEPT ![c] = NoWork]

Refuse(c, code) == Answer(c, code, {})

\* Everything that is checked before the transaction opens.
Call(c) ==
    /\ pc[c] = "idle"
    /\ \E q \in Requests :
         /\ request' = [request EXCEPT ![c] = q]
         /\ \/ /\ q.target \in Foreign
               /\ Refuse(c, IF q.op = "technicians" THEN "SERVICE_NOT_FOUND" ELSE "STAFF_NOT_FOUND")
            \/ /\ q.target \notin Foreign /\ q.op # "hours"
               /\ Range(q.items) \cap Foreign # {}
               /\ Refuse(c, "VALIDATION_FAILED")
            \/ /\ q.target \notin Foreign /\ q.op = "hours"
               /\ \E s \in Sorted(q.items) : ~ValidSchedule(s)
               /\ Refuse(c, "VALIDATION_FAILED")
            \/ /\ q.target \notin Foreign /\ Range(q.items) \cap Foreign = {}
               /\ \E s \in IF q.op = "hours" THEN Sorted(q.items) ELSE {q.items} :
                    /\ q.op = "hours" => ValidSchedule(s)
                    /\ tx' = [tx EXCEPT ![c].left = s]
               /\ pc' = [pc EXCEPT ![c] = "clear"]
               /\ UNCHANGED answer
    /\ UNCHANGED <<rows, crossed>>

\* Two replacements that may name the same rows.
Meet(c, d) ==
    \/ request[c].op = request[d].op /\ request[c].target = request[d].target
    \/ {request[c].op, request[d].op} = {"capabilities", "technicians"}

Active(c) == pc[c] \in {"write", "reread"}

\* BEGIN, and the DELETE as far as its snapshot.
Clear(c) ==
    /\ pc[c] = "clear"
    /\ pc' = [pc EXCEPT ![c] = "write"]
    /\ tx' = [tx EXCEPT ![c].todo = { t \in rows : Replaces(request[c], t) }]
    /\ LET beside == { d \in Calls \ {c} : Active(d) /\ Meet(c, d) } IN
         crossed' = IF beside = {} THEN crossed ELSE crossed \cup beside \cup {c}
    /\ UNCHANGED <<rows, request, answer>>

\* The DELETE reaches a row: it is still there, or gone with another
\* transaction's commit.
ClearRow(c) ==
    /\ Clearing(c)
    /\ \E t \in tx[c].todo :
         /\ Free(c, t)
         /\ tx' = [tx EXCEPT ![c].todo = @ \ {t}, ![c].gone = @ \cup ({t} \cap rows)]
    /\ UNCHANGED <<rows, request, pc, answer, crossed>>

\* Mutant: the rows are inserted outside the transaction.
InsertAutocommit(c) ==
    /\ Inserting(c) /\ FreeEntry(c, NextRow(c)) /\ ~Taken(c, NextRow(c))
    /\ rows' = rows \cup {NextRow(c)}
    /\ tx' = [tx EXCEPT ![c].left = Tail(@)]
    /\ UNCHANGED <<request, pc, answer, crossed>>

Insert(c) ==
    /\ Inserting(c) /\ FreeEntry(c, NextRow(c)) /\ ~Taken(c, NextRow(c))
    /\ tx' = [tx EXCEPT ![c].left = Tail(@), ![c].added = @ \cup {NextRow(c)}]
    /\ UNCHANGED <<rows, request, pc, answer, crossed>>

\* Only the schedule's repository names its duplicate.
RefuseDuplicate(c) ==
    /\ Inserting(c) /\ FreeEntry(c, NextRow(c)) /\ Taken(c, NextRow(c))
    /\ Refuse(c, IF request[c].op = "hours" THEN "VALIDATION_FAILED" ELSE "INTERNAL_ERROR")
    /\ UNCHANGED <<rows, request, crossed>>

Commit(c) ==
    /\ pc[c] = "write" /\ tx[c].todo = {} /\ tx[c].left = << >>
    /\ rows' = (rows \ tx[c].gone) \cup tx[c].added
    /\ tx' = [tx EXCEPT ![c] = NoWork]
    /\ pc' = [pc EXCEPT ![c] = "reread"]
    /\ UNCHANGED <<request, answer, crossed>>

\* ListByStaff, ListServiceIDs or ListStaffIDsForService, outside the transaction.
Reread(c) ==
    /\ pc[c] = "reread"
    /\ Answer(c, "OK", { t \in rows : Replaces(request[c], t) })
    /\ UNCHANGED <<rows, request, crossed>>

BreakDeadlock(c) ==
    /\ Deadlocked(c)
    /\ Refuse(c, "INTERNAL_ERROR")
    /\ UNCHANGED <<rows, request, crossed>>

\* A statement fails or the client goes away: before the commit nothing is
\* left behind, after it everything is.
Fail(c) ==
    /\ pc[c] \in {"clear", "write", "reread"}
    /\ Refuse(c, "INTERNAL_ERROR")
    /\ UNCHANGED <<rows, request, crossed>>

Step(c) ==
    \/ Clear(c) \/ ClearRow(c) \/ Insert(c) \/ RefuseDuplicate(c)
    \/ Commit(c) \/ Reread(c) \/ BreakDeadlock(c)

Next == \E c \in Calls : Call(c) \/ Step(c) \/ Fail(c)

Spec == Init /\ [][Next]_vars

\* The server and PostgreSQL go on with every request they have taken.
FairSpec == Spec /\ \A c \in Calls : WF_vars(Step(c))

-----------------------------------------------------------------------------
Schedule(s) == { t.item : t \in { u \in rows : u.staff = s /\ u.item \in Spans } }

StoredBy(c) == { t \in rows : t.by = c }

Asked(c) == { NewRow(c, request[c].items[i]) : i \in DOMAIN request[c].items }

TypeOK ==
    /\ rows \subseteq Row
    /\ pc \in [Calls -> PCs]
    /\ tx \in [Calls -> Work]
    /\ request \in [Calls -> Requests \cup {Absent}]
    /\ answer \in [Calls -> [code : Codes, seen : SUBSET Row] \cup {Absent}]
    /\ crossed \subseteq Calls
    /\ \A c \in Calls : pc[c] # "idle" => request[c] \in Requests

\* However replacements interleave, deadlock and fail, no entry is stored twice.
OneRowPerEntry == \A t, u \in rows : SameEntry(t, u) => t = u

\* "Either every requested interval persists or none does": the intervals one
\* request put into a schedule are all there, until a later one removes all.
SchedulesAreWhole ==
    \A c \in Calls : pc[c] # "idle" /\ request[c].op = "hours" =>
        StoredBy(c) = {} \/ StoredBy(c) = Asked(c)

(***************************************************************************)
(* What makes the two inductive.  A transaction holds its locks only while *)
(* it writes, no two hold one row or one entry, a row exists only once its *)
(* author has committed, and a DELETE takes the rows of one author         *)
(* together or not at all.                                                 *)
(***************************************************************************)
LocksAreHeld ==
    /\ \A c \in Calls : /\ pc[c] # "write" =>
                            tx[c].todo = {} /\ tx[c].gone = {} /\ tx[c].added = {}
                      /\ tx[c].gone \subseteq rows
    /\ \A c, d \in Calls : c # d => tx[c].gone \cap tx[d].gone = {}

EntriesAreHeld ==
    \A c \in Calls : \A t \in tx[c].added :
        /\ t.by = c
        /\ \A u \in rows : SameEntry(t, u) => u \in tx[c].gone
        /\ \A d \in Calls \ {c} : \A u \in tx[d].added : ~SameEntry(t, u)

AuthorsCommitted ==
    /\ \A t \in rows : t.by = Absent \/ pc[t.by] \in {"reread", "done"}
    /\ \A c \in Calls : \A t \in tx[c].todo \cup tx[c].gone :
          t.by = Absent \/ pc[t.by] \in {"reread", "done"}

SchedulesGoWhole ==
    \A c, d \in Calls : pc[d] # "idle" /\ request[d].op = "hours" =>
        \/ StoredBy(d) \cap (tx[c].todo \cup tx[c].gone) = {}
        \/ StoredBy(d) \subseteq tx[c].todo \cup tx[c].gone

RequestsAreLegal ==
    \A c \in Calls : pc[c] \in {"clear", "write", "reread"} =>
        request[c].target \notin Foreign /\ Range(request[c].items) \cap Foreign = {}

WorkIsAsked ==
    \A c \in Calls : pc[c] \in {"clear", "write"} =>
        tx[c].added \cup { NewRow(c, tx[c].left[i]) : i \in DOMAIN tx[c].left } = Asked(c)

SetsInv == /\ TypeOK /\ OneRowPerEntry /\ SchedulesAreWhole /\ LocksAreHeld
           /\ EntriesAreHeld /\ AuthorsCommitted /\ SchedulesGoWhole
           /\ RequestsAreLegal /\ WorkIsAsked

(***************************************************************************)
(* What makes the next two inductive.  Replacements that meet know it, a   *)
(* transaction deletes nothing but what it replaces, and what a call alone *)
(* replaces is what it has seen, until it is what it asked for.            *)
(***************************************************************************)
Slice(c) == { t \in rows : Replaces(request[c], t) }

MeetingsAreKnown ==
    /\ \A c, d \in Calls : c # d /\ Active(c) /\ Active(d) /\ Meet(c, d) => c \in crossed
    /\ \A c \in crossed : /\ pc[c] \notin {"idle", "clear"}
                         /\ \E d \in crossed \ {c} : Meet(c, d)

DeletesAreAsked ==
    \A c \in Calls : \A t \in tx[c].todo \cup tx[c].gone : Replaces(request[c], t)

AloneKeepsSlice ==
    \A c \in Calls \ crossed :
        /\ pc[c] = "write" => Slice(c) \subseteq tx[c].todo \cup tx[c].gone
        /\ pc[c] = "reread" => Slice(c) = Asked(c)

\* What every request that is the tenant's own and well formed satisfies.
Legal(q) ==
    /\ Range(q.items) \cap Foreign = {}
    /\ q.op = "hours" => IsInjective(q.items) /\ Disjoint(Range(q.items))

\* A request is refused as invalid only for naming what is not the tenant's,
\* for a schedule whose intervals overlap, or for having met another; and no
\* such request gets as far as the table.
RefusedForCause ==
    \A c \in Calls :
        /\ pc[c] = "done" /\ answer[c].code = "VALIDATION_FAILED" => ~Legal(request[c]) \/ c \in crossed
        /\ pc[c] \in {"clear", "write", "reread"} => Legal(request[c])

\* A replacement that met no other leaves, and answers with, exactly the set
\* it was asked for, unless it is refused, and then for a cause.
AloneIsExact ==
    /\ RefusedForCause
    /\ \A c \in Calls \ crossed :
           pc[c] = "done" /\ answer[c].code = "OK" => answer[c].seen = Asked(c)

\* Two intervals of a technician overlap only once two replacements of the
\* schedule have met.
OverlapOnlyByRace ==
    \A s \in Staff : Disjoint(Schedule(s)) \/
        \E c, d \in crossed : c # d /\ \A e \in {c, d} : request[e].op = "hours" /\ request[e].target = s

\* The invariant the proofs carry.
IInv == SetsInv /\ MeetingsAreKnown /\ DeletesAreAsked /\ AloneKeepsSlice
        /\ AloneIsExact /\ OverlapOnlyByRace

\* "Partial overlap is enforced by the service layer": no technician's
\* schedule holds two intervals that overlap.
SchedulesDisjoint == \A s \in Staff : Disjoint(Schedule(s))

\* Every replacement is answered, whatever it waits for.
EveryCallAnswered == \A c \in Calls : pc[c] = "clear" ~> pc[c] = "done"

=============================================================================
