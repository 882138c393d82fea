------------------------------ MODULE Bookings ------------------------------
(***************************************************************************)
(* The booking handlers of internal/scheduling over the bookings table:    *)
(* public creation, reschedule, cancel, complete and no-show, as           *)
(* concurrent calls that run one SQL statement (or one group of reads) per *)
(* step under READ COMMITTED, while the owner edits the catalog, the       *)
(* roster and the tenant's time zone and the clock advances.  Every        *)
(* statement commits on its own: no handler here opens a transaction.      *)
(*                                                                         *)
(* Requests name wall-clock times (labels) of one civil date; rows hold    *)
(* instants; the zone a call has read takes the ones to the others, also   *)
(* on a date on which the clocks change.                                   *)
(***************************************************************************)
EXTENDS Appointments, Slots

CONSTANTS
    Calls,        \* concurrent HTTP requests
    Durations,    \* values an owner gives a service's duration
    Schedules,    \* weekly schedules of the day: sets of spans
    Zones,        \* time zones a tenant may be in
    DayLength,    \* the label at which the civil date ends
    MaxTime,      \* bound: the clock and the requested starts
    Operations,   \* the booking operations callers use
    Edits         \* the edits the owner makes

ASSUME DurationsArePositive == Durations \subseteq Nat \ {0}
ASSUME SchedulesAreSpans == Schedules \subseteq SUBSET Span(Int)
ASSUME ZonesAreZones == Zones \subseteq Zone(Int)
ASSUME DayLengthIsNat == DayLength \in Nat
ASSUME MaxTimeIsNat == MaxTime \in Nat
ASSUME OperationsAreKnown ==
    Operations \subseteq {"create", "reschedule", "cancel", "complete", "no_show"}

VARIABLES
    bookings,   \* BookingIds -> Row or Absent
    catalog,    \* Services -> duration and status
    roster,     \* Staff -> status, bookable, capabilities, working hours
    zone,       \* the tenant's time zone
    now,        \* the service clock
    calls       \* each caller: nothing, a running call's locals, or its answer

vars == <<bookings, catalog, roster, zone, now, calls>>

Time == 0 .. MaxTime

\* The operations that settle a booking, and the terminal status each writes.
SettleOps == {"cancel", "complete", "no_show"}

\* Mutant: Complete writes a status the rest of the code does not know.
OutcomeMisspelt(op) == CASE op = "cancel"   -> "CANCELLED"
                         [] op = "complete" -> "COMPLETE"
                         [] op = "no_show"  -> "NO_SHOW"

Outcome(op) == CASE op = "cancel"   -> "CANCELLED"
                 [] op = "complete" -> "COMPLETED"
                 [] op = "no_show"  -> "NO_SHOW"

-----------------------------------------------------------------------------
(***************************************************************************)
(* Local state of a call.  pc names the statement it runs next.            *)
(***************************************************************************)
PCs == {"tenant", "service", "staff", "capabilities", "hours", "slots", "duration",
        "insert", "move", "ended", "settle", "reread"}

Idle == [pc |-> "idle"]

\* What a call has read and still goes by, as pc goes on: the tenant's zone,
\* the duration behind the slot it wants, the technician's hours.
Picked == {"duration", "insert", "move"}
HoursRead == {"slots"} \cup Picked
DurationRead == {"staff", "capabilities", "hours", "slots", "duration"}
ZoneRead == {"service", "insert", "move"} \cup DurationRead

Call == [pc : PCs, op : Operations, id : BookingIds \cup {Absent},
         service : Services, staff : Staff,
         start : Int,                    \* the requested start, a label
         slotEnd : Int,                  \* the label findSlot's slot ends at
         zone : Zones \cup {Absent},     \* the zone read
         startAt : Int, endAt : Int,     \* the instants to write
         bookable : BOOLEAN,             \* the flag read with the technician
         hours : SUBSET Span(Int),       \* the working hours read
         row : Row \cup {Absent},        \* the booking as first read
         edited : SUBSET {"zone", "duration", "hours"}]
                                         \* history: edited since it was read

Codes == {"OK", "BOOKING_NOT_FOUND", "BOOKING_INVALID_TRANSITION",
          "BOOKING_SLOT_UNAVAILABLE", "VALIDATION_FAILED",
          "SERVICE_NOT_FOUND", "STAFF_NOT_FOUND"}

\* A creation shows the slot the customer took, in labels of a zone; a
\* management call shows the booking.
Slot == [start : Int, end : Int, zone : Zones]

Reply == [pc : {"done"}, op : Operations, code : Codes, id : BookingIds \cup {Absent},
          row : Row \cup Slot \cup {Absent}]

At(r, pc) == calls[r].pc = pc

Running(r) == calls[r].pc \in PCs

Goto(r, call) == calls' = [calls EXCEPT ![r] = call]

Return(r, call, code, id, row) ==
    calls' = [calls EXCEPT ![r] =
                [pc |-> "done", op |-> call.op, code |-> code, id |-> id,
                 row |-> row]]

Refuse(r, code) == Return(r, calls[r], code, calls[r].id, Absent)

World == <<catalog, roster, zone, now>>

-----------------------------------------------------------------------------
Init ==
    /\ bookings = [b \in BookingIds |-> Absent]
    /\ catalog \in [Services -> [duration : Durations, status : {"ACTIVE"}]]
    /\ roster \in [Staff -> [status : {"ACTIVE"}, bookable : {TRUE},
                             services : {Services}, hours : Schedules]]
    /\ zone \in Zones
    /\ now = 0
    /\ calls = [r \in Calls |-> Idle]

(***************************************************************************)
(* CreatePublicBooking up to getAvailability's read of the tenant, which   *)
(* gives the zone.  The tenant is ACTIVE and a NAIL_TECHNICIAN, and the    *)
(* request is well formed; a request that is not is refused before it      *)
(* touches any state.                                                      *)
(***************************************************************************)
IdsLeft ==   \* bound: every running creation can still get a fresh id
    Cardinality({ r \in Calls : Running(r) /\ calls[r].op = "create" })
        < Cardinality({ b \in BookingIds : bookings[b] = Absent })

CallCreate(r) ==
    /\ "create" \in Operations /\ ~Running(r) /\ IdsLeft
    /\ \E sv \in Services, st \in Staff, s \in Time :
         Goto(r, [pc |-> "service", op |-> "create", id |-> Absent,
                  service |-> sv, staff |-> st, start |-> s, slotEnd |-> s,
                  zone |-> zone, startAt |-> 0, endAt |-> 0, bookable |-> TRUE,
                  hours |-> {}, row |-> Absent, edited |-> {}])
    /\ UNCHANGED <<bookings, World>>

(***************************************************************************)
(* The first statement of every management handler: FindByTenantAndID,     *)
(* then the decision on the status it read.                                *)
(***************************************************************************)
Found(b, op, s, pc) ==
    [pc |-> pc, op |-> op, id |-> b, service |-> bookings[b].service,
     staff |-> bookings[b].staff, start |-> s, slotEnd |-> s,
     zone |-> Absent, startAt |-> 0, endAt |-> 0, bookable |-> TRUE,
     hours |-> {}, row |-> bookings[b], edited |-> {}]

NotFound(r, op, b) ==
    /\ op \in Operations \ {"create"} /\ ~Running(r) /\ bookings[b] = Absent
    /\ Return(r, [op |-> op], "BOOKING_NOT_FOUND", b, Absent)
    /\ UNCHANGED <<bookings, World>>

CallReschedule(r, b) ==
    /\ "reschedule" \in Operations /\ ~Running(r) /\ bookings[b] # Absent
    /\ \E s \in Time :
         LET call == Found(b, "reschedule", s, "tenant") IN
         IF bookings[b].status = "CONFIRMED"
         THEN Goto(r, call)
         ELSE Return(r, call, "VALIDATION_FAILED", b, Absent)
    /\ UNCHANGED <<bookings, World>>

CallCancel(r, b) ==
    /\ "cancel" \in Operations /\ ~Running(r) /\ bookings[b] # Absent
    /\ LET call == Found(b, "cancel", 0, "settle") IN
       \/ /\ bookings[b].status = "CANCELLED"
          /\ Return(r, call, "OK", b, bookings[b])
       \/ /\ bookings[b].status = "CONFIRMED"
          /\ Goto(r, call)
       \/ /\ bookings[b].status \notin {"CANCELLED", "CONFIRMED"}
          /\ Return(r, call, "BOOKING_INVALID_TRANSITION", b, Absent)
    /\ UNCHANGED <<bookings, World>>

\* transitionToTerminal, behind Complete and MarkNoShow.
CallOutcome(r, op, b) ==
    /\ op \in Operations \cap {"complete", "no_show"}
    /\ ~Running(r) /\ bookings[b] # Absent
    /\ LET call == Found(b, op, 0, "ended") IN
       \/ /\ bookings[b].status = Outcome(op)
          /\ Return(r, call, "OK", b, bookings[b])
       \/ /\ bookings[b].status = "CONFIRMED"
          /\ Goto(r, call)
       \/ /\ bookings[b].status \notin {Outcome(op), "CONFIRMED"}
          /\ Return(r, call, "BOOKING_INVALID_TRANSITION", b, Absent)
    /\ UNCHANGED <<bookings, World>>

\* Mutant: the appointment may get its outcome once it has started.
CheckEndedByStart(r) ==
    /\ At(r, "ended")
    /\ IF now < calls[r].row.start
       THEN Refuse(r, "BOOKING_INVALID_TRANSITION")
       ELSE Goto(r, [calls[r] EXCEPT !.pc = "settle"])
    /\ UNCHANGED <<bookings, World>>

\* After the tenant's timezone is read: the clock against the end that was
\* read with the booking.
CheckEnded(r) ==
    /\ At(r, "ended")
    /\ IF now < calls[r].row.end
       THEN Refuse(r, "BOOKING_INVALID_TRANSITION")
       ELSE Goto(r, [calls[r] EXCEPT !.pc = "settle"])
    /\ UNCHANGED <<bookings, World>>

-----------------------------------------------------------------------------
(***************************************************************************)
(* getAvailability, shared by creation and reschedule.                     *)
(***************************************************************************)
ReadTenant(r) ==
    /\ At(r, "tenant")
    /\ Goto(r, [calls[r] EXCEPT !.pc = "service", !.zone = zone])
    /\ UNCHANGED <<bookings, World>>

ReadService(r) ==
    /\ At(r, "service")
    /\ LET sv == catalog[calls[r].service] IN
       IF sv.status = "ARCHIVED"
       THEN Refuse(r, "SERVICE_NOT_FOUND")
       ELSE Goto(r, [calls[r] EXCEPT !.pc = "staff",
                                     !.slotEnd = calls[r].start + sv.duration])
    /\ UNCHANGED <<bookings, World>>

\* The technician; whether it is bookable is decided after the capabilities.
ReadStaff(r) ==
    /\ At(r, "staff")
    /\ LET st == roster[calls[r].staff] IN
       IF st.status = "ARCHIVED"
       THEN Refuse(r, "STAFF_NOT_FOUND")
       ELSE Goto(r, [calls[r] EXCEPT !.pc = "capabilities", !.bookable = st.bookable])
    /\ UNCHANGED <<bookings, World>>

ReadCapabilities(r) ==
    /\ At(r, "capabilities")
    /\ LET capable == calls[r].service \in roster[calls[r].staff].services IN
       \/ ~capable /\ Refuse(r, "VALIDATION_FAILED")
       \/ capable /\ ~calls[r].bookable /\ Refuse(r, "BOOKING_SLOT_UNAVAILABLE")
       \/ capable /\ calls[r].bookable /\ Goto(r, [calls[r] EXCEPT !.pc = "hours"])
    /\ UNCHANGED <<bookings, World>>

ReadHours(r) ==
    /\ At(r, "hours")
    /\ Goto(r, [calls[r] EXCEPT !.pc = "slots", !.hours = roster[calls[r].staff].hours])
    /\ UNCHANGED <<bookings, World>>

\* Mutant: the booking being moved is not left out.
OccupiedIntervalsAll(call) ==
    { [start |-> bookings[b].start, end |-> bookings[b].end] :
        b \in { c \in BookingIds : Confirmed(bookings, c) /\ bookings[c].staff = call.staff } }

\* The CONFIRMED rows of the technician that meet the civil date, except the
\* booking being moved.
OccupiedIntervals(call) ==
    { [start |-> bookings[b].start, end |-> bookings[b].end] :
        b \in { c \in BookingIds \ {call.id} :
                  /\ Confirmed(bookings, c) /\ bookings[c].staff = call.staff
                  /\ bookings[c].start < InstantAt(call.zone, DayLength)
                  /\ bookings[c].end > InstantAt(call.zone, 0) } }

\* The slots getAvailability answers with, given what the call has read.
OfferedStarts(call) ==
    Generate([duration |-> call.slotEnd - call.start, working |-> call.hours,
              occupied |-> OccupiedIntervals(call), now |-> now, zone |-> call.zone])

\* Occupancy and the clock, the engine, then findSlot.
PickSlot(r) ==
    /\ At(r, "slots")
    /\ IF calls[r].start \in OfferedStarts(calls[r])
       THEN Goto(r, [calls[r] EXCEPT !.pc = "duration", !.hours = {}])
       ELSE Refuse(r, "BOOKING_SLOT_UNAVAILABLE")
    /\ UNCHANGED <<bookings, World>>

(***************************************************************************)
(* The handlers resolve the slot's start in the zone that was read, read   *)
(* the service a second time and derive the end from that duration.        *)
(* Rescheduling to the interval read at the beginning is a success without *)
(* a write.                                                                *)
(***************************************************************************)
\* Mutant: the tenant's zone is looked up again.
StartInstantAgain(call) == InstantAt(zone, call.start)

StartInstant(call) == InstantAt(call.zone, call.start)

DerivedEnd(call) == StartInstant(call) + catalog[call.service].duration

SameInterval(call) == call.row.start = call.startAt /\ call.row.end = call.endAt

DeriveEnd(r) ==
    /\ At(r, "duration")
    /\ LET call == [calls[r] EXCEPT !.startAt = StartInstant(calls[r]),
                                    !.endAt = DerivedEnd(calls[r])] IN
       \/ /\ call.op = "create"
          /\ Goto(r, [call EXCEPT !.pc = "insert"])
       \/ /\ call.op = "reschedule" /\ SameInterval(call)
          /\ Return(r, call, "OK", call.id, call.row)
       \/ /\ call.op = "reschedule" /\ ~SameInterval(call)
          /\ Goto(r, [call EXCEPT !.pc = "move"])
    /\ UNCHANGED <<bookings, World>>

-----------------------------------------------------------------------------
(***************************************************************************)
(* The writes.  The exclusion constraint is checked by PostgreSQL as part  *)
(* of the statement; a conditional UPDATE that matches no CONFIRMED row    *)
(* changes nothing, and the handlers go on to re-read all the same.        *)
(***************************************************************************)
NewRow(call) ==
    [service |-> call.service, staff |-> call.staff,
     start |-> call.startAt, end |-> call.endAt, status |-> "CONFIRMED"]

\* What a customer is told: the slot that was found, not the row.
Shown(call) == [start |-> call.start, end |-> call.slotEnd, zone |-> call.zone]

Insert(r) ==
    /\ At(r, "insert")
    /\ \E b \in BookingIds :
         /\ bookings[b] = Absent
         /\ LET row == NewRow(calls[r]) IN
            IF Excluded(bookings, b, row)
            THEN /\ Refuse(r, "BOOKING_SLOT_UNAVAILABLE")
                 /\ UNCHANGED bookings
            ELSE /\ bookings' = [bookings EXCEPT ![b] = row]
                 /\ Return(r, calls[r], "OK", b, Shown(calls[r]))
    /\ UNCHANGED World

\* Mutant: no WHERE status = 'CONFIRMED' on the reschedule's UPDATE.
UpdateScheduleUnguarded(r) ==
    /\ At(r, "move")
    /\ LET b == calls[r].id
           row == [bookings[b] EXCEPT !.start = calls[r].startAt, !.end = calls[r].endAt]
       IN IF Confirmed(bookings, b) /\ Excluded(bookings, b, row)
          THEN /\ Refuse(r, "BOOKING_SLOT_UNAVAILABLE")
               /\ UNCHANGED bookings
          ELSE /\ bookings' = [bookings EXCEPT ![b] = row]
               /\ Goto(r, [calls[r] EXCEPT !.pc = "reread"])
    /\ UNCHANGED World

UpdateSchedule(r) ==
    /\ At(r, "move")
    /\ LET b == calls[r].id
           row == [bookings[b] EXCEPT !.start = calls[r].startAt, !.end = calls[r].endAt]
       IN IF Confirmed(bookings, b) /\ Excluded(bookings, b, row)
          THEN /\ Refuse(r, "BOOKING_SLOT_UNAVAILABLE")
               /\ UNCHANGED bookings
          ELSE /\ bookings' = IF Confirmed(bookings, b)
                             THEN [bookings EXCEPT ![b] = row] ELSE bookings
               /\ Goto(r, [calls[r] EXCEPT !.pc = "reread"])
    /\ UNCHANGED World

\* Mutant: no WHERE status = 'CONFIRMED' on the status UPDATE.
UpdateStatusUnguarded(r) ==
    /\ At(r, "settle")
    /\ bookings' = [bookings EXCEPT ![calls[r].id].status = Outcome(calls[r].op)]
    /\ Goto(r, [calls[r] EXCEPT !.pc = "reread"])
    /\ UNCHANGED World

\* Cancel and UpdateStatus: SET status ... WHERE status = 'CONFIRMED'.
UpdateStatus(r) ==
    /\ At(r, "settle")
    /\ LET b == calls[r].id IN
       bookings' = IF Confirmed(bookings, b)
                   THEN [bookings EXCEPT ![b].status = Outcome(calls[r].op)]
                   ELSE bookings
    /\ Goto(r, [calls[r] EXCEPT !.pc = "reread"])
    /\ UNCHANGED World

\* Mutant: the booking as it was read before the write.
RereadStale(r) ==
    /\ At(r, "reread")
    /\ Return(r, calls[r], "OK", calls[r].id, calls[r].row)
    /\ UNCHANGED <<bookings, World>>

\* The booking as it is after the write, answered as a success.
Reread(r) ==
    /\ At(r, "reread")
    /\ Return(r, calls[r], "OK", calls[r].id, bookings[calls[r].id])
    /\ UNCHANGED <<bookings, World>>

\* The client disconnects or the process dies: the request context ends the
\* call between two statements, and what it committed stays.
Abort(r) ==
    /\ Running(r)
    /\ calls' = [calls EXCEPT ![r] = Idle]
    /\ UNCHANGED <<bookings, World>>

-----------------------------------------------------------------------------
(***************************************************************************)
(* The owner's edits, one committed write each, and the clock.  Neither    *)
(* the catalog nor the roster is ever deleted from, and nothing un-        *)
(* archives.  An edit to the value that is there is no step.               *)
(***************************************************************************)
\* History: the calls S go by something that is edited now.
Outdated(what, S) ==
    [r \in Calls |-> IF r \in S THEN [calls[r] EXCEPT !.edited = @ \cup {what}]
                                ELSE calls[r]]

EditDuration(sv, d) ==
    /\ "duration" \in Edits /\ d # catalog[sv].duration
    /\ catalog' = [catalog EXCEPT ![sv].duration = d]
    /\ calls' = Outdated("duration", { r \in Calls : /\ calls[r].pc \in DurationRead
                                                     /\ calls[r].service = sv })
    /\ UNCHANGED <<bookings, roster, zone, now>>

ArchiveService(sv) ==
    /\ "archive" \in Edits
    /\ catalog' = [catalog EXCEPT ![sv].status = "ARCHIVED"]
    /\ UNCHANGED <<bookings, roster, zone, now, calls>>

EditStaff(st, s) ==
    /\ roster' = [roster EXCEPT ![st] = s]
    /\ UNCHANGED <<bookings, catalog, zone, now>>

ArchiveStaff(st) ==
    /\ "archive" \in Edits
    /\ EditStaff(st, [roster[st] EXCEPT !.status = "ARCHIVED"])
    /\ UNCHANGED calls

SetBookable(st, yes) ==
    /\ "bookable" \in Edits
    /\ EditStaff(st, [roster[st] EXCEPT !.bookable = yes])
    /\ UNCHANGED calls

ReplaceCapabilities(st, services) ==
    /\ "capabilities" \in Edits
    /\ EditStaff(st, [roster[st] EXCEPT !.services = services])
    /\ UNCHANGED calls

ReplaceWeeklySchedule(st, hours) ==
    /\ "hours" \in Edits /\ hours # roster[st].hours
    /\ EditStaff(st, [roster[st] EXCEPT !.hours = hours])
    /\ calls' = Outdated("hours", { r \in Calls : /\ calls[r].pc \in HoursRead
                                                  /\ calls[r].staff = st })

\* PATCH /tenants: the rows keep their instants, whatever they meant.
EditZone(z) ==
    /\ "zone" \in Edits /\ z # zone
    /\ zone' = z
    /\ calls' = Outdated("zone", { r \in Calls : calls[r].pc \in ZoneRead })
    /\ UNCHANGED <<bookings, catalog, roster, now>>

Tick ==
    /\ now < MaxTime
    /\ now' = now + 1
    /\ UNCHANGED <<bookings, catalog, roster, zone, calls>>

-----------------------------------------------------------------------------
\* The routes.  A body names a date and a start and nothing else that counts;
\* an outcome is the route's own, never the body's.
PostBooking(r) == CallCreate(r)

PostReschedule(r, b) == CallReschedule(r, b) \/ NotFound(r, "reschedule", b)

PostCancel(r, b) == CallCancel(r, b) \/ NotFound(r, "cancel", b)

PostComplete(r, b) == CallOutcome(r, "complete", b) \/ NotFound(r, "complete", b)

PostNoShow(r, b) == CallOutcome(r, "no_show", b) \/ NotFound(r, "no_show", b)

Start(r) ==
    \/ PostBooking(r)
    \/ \E b \in BookingIds :
         PostReschedule(r, b) \/ PostCancel(r, b) \/ PostComplete(r, b) \/ PostNoShow(r, b)

Step(r) ==
    \/ CheckEnded(r) \/ ReadTenant(r) \/ ReadService(r) \/ ReadStaff(r) \/ ReadCapabilities(r)
    \/ ReadHours(r) \/ PickSlot(r) \/ DeriveEnd(r) \/ Insert(r) \/ UpdateSchedule(r) \/ UpdateStatus(r)
    \/ Reread(r) \/ Abort(r)

Edit ==
    \/ \E sv \in Services :
         ArchiveService(sv) \/ \E d \in Durations : EditDuration(sv, d)
    \/ \E st \in Staff :
         \/ ArchiveStaff(st)
         \/ \E yes \in BOOLEAN : SetBookable(st, yes)
         \/ \E services \in SUBSET Services : ReplaceCapabilities(st, services)
         \/ \E hours \in Schedules : ReplaceWeeklySchedule(st, hours)
    \/ \E z \in Zones : EditZone(z)

Next == (\E r \in Calls : Start(r) \/ Step(r)) \/ Edit \/ Tick

Spec == Init /\ [][Next]_vars

-----------------------------------------------------------------------------
(***************************************************************************)
(* Types.                                                                  *)
(***************************************************************************)
ServiceState == [duration : Durations, status : {"ACTIVE", "ARCHIVED"}]

StaffState == [status : {"ACTIVE", "ARCHIVED"}, bookable : BOOLEAN,
               services : SUBSET Services, hours : Schedules]

\* Every variable has its type; a management call has read an existing
\* booking, whose service and technician it carries.
TypeOK ==
    /\ bookings \in [BookingIds -> Row \cup {Absent}]
    /\ catalog \in [Services -> ServiceState]
    /\ roster \in [Staff -> StaffState]
    /\ zone \in Zones
    /\ now \in Time
    /\ calls \in [Calls -> Call \cup Reply \cup {Idle}]

(***************************************************************************)
(* The bookings table.                                                     *)
(***************************************************************************)
L == INSTANCE Ledger WITH ledger <- bookings

\* Whatever the calls interleave, the table evolves as the abstract ledger
\* does: each operation takes effect at one statement.
ImplementsLedger == L!Spec

\* Two CONFIRMED bookings of one technician never overlap (the constraint
\* bookings_no_overlap, with the engine's pre-check racing against it).
NoDoubleBooking == L!NoDoubleBooking

\* A cancelled, completed or no-show booking is never written again, by any
\* handler that read it while it was still CONFIRMED.
SettledIsFinal == L!SettledIsFinal

(***************************************************************************)
(* What callers are told.                                                  *)
(***************************************************************************)
Succeeded(r, op) == At(r, "done") /\ calls[r].code = "OK" /\ calls[r].op = op

\* A cancel, complete or no-show that reports success shows a booking that
\* has an outcome, and shows it as it will stay.
SettleReplyIsLast ==
    \A r \in Calls, op \in SettleOps :
        Succeeded(r, op) =>
            /\ calls[r].row.status \in Outcomes
            /\ calls[r].row = bookings[calls[r].id]

\* The customer's confirmation names the slot in the zone that was read, and
\* the row is that slot, even if the tenant's zone is edited meanwhile: always
\* its start; and unless the owner edited the duration between the two times
\* this call read it, its end, except when the clocks change in between.  Then
\* the end that is shown is not the end that is stored, although a comment of
\* CreatePublicBooking says that it always is (booking_service.go:196-198).
ClocksChange(slot) ==
    InstantAt(slot.zone, slot.end) - InstantAt(slot.zone, slot.start)
        # slot.end - slot.start

Booked(r) == At(r, "insert") /\ Succeeded(r, "create")'

ConfirmationMatchesRow ==
    [][\A r \in Calls :
          Booked(r) =>
              LET slot == calls'[r].row
                  row == bookings'[calls'[r].id]
              IN /\ row.start = InstantAt(slot.zone, slot.start)
                 /\ \/ "duration" \in calls[r].edited
                    \/ row.end = InstantAt(slot.zone, slot.end) <=> ~ClocksChange(slot)]_calls

\* The interval lies inside one span of the technician's working hours, as
\* the tenant's zone resolves them: in real time, and where the clocks jump
\* forward, so that a span has less real time than it says, on the clock.
Fits(st, start, end) ==
    \E w \in roster[st].hours :
        IF zone.shift <= 0
        THEN InstantAt(zone, w.start) <= start /\ end <= InstantAt(zone, w.end)
        ELSE \E m \in w.start .. w.end :
                 start = InstantAt(zone, m) /\ m + (end - start) <= w.end

\* A booking is created or moved only into its technician's working hours as
\* they are at that moment, unless what the call went by (the zone, the hours,
\* the duration between its two reads) was edited after it was read.
WrittenInsideHours ==
    [][\A b \in BookingIds :
          /\ Confirmed(bookings', b) /\ bookings'[b] # bookings[b]
          => \/ Fits(bookings'[b].staff, bookings'[b].start, bookings'[b].end)
             \/ \E r \in Calls : /\ calls[r].pc \in {"insert", "move"}
                                 /\ calls'[r] # calls[r] /\ calls[r].edited # {}]_vars

\* A booking can always be rescheduled onto its own upcoming slot: its own
\* interval never makes that slot look taken, whatever the clocks do.
OwnSlotOffered ==
    \A b \in BookingIds :
        (Confirmed(bookings, b) /\ bookings[b].start >= now) =>
            LET own == bookings[b]
                length == own.end - own.start
                call == [start |-> 0, slotEnd |-> length, zone |-> zone,
                         hours |-> roster[own.staff].hours,
                         staff |-> own.staff, id |-> b]
            IN \A w \in call.hours : \A m \in Candidates(w, length) :
                   InstantAt(zone, m) = own.start => m \in OfferedStarts(call)

\* An appointment gets an outcome (completed, no-show) only once it is over.
OutcomeAfterEnd ==
    \A b \in BookingIds :
        (bookings[b] # Absent /\ bookings[b].status \in {"COMPLETED", "NO_SHOW"})
            => bookings[b].end <= now

\* If one gets it early all the same, it was moved after the handler had
\* read it: nothing else can come between the clock and the UPDATE.
EarlyOnlyByMove ==
    [][\A b \in BookingIds :
          /\ Confirmed(bookings, b) /\ now < bookings[b].end
          /\ bookings'[b].status \in {"COMPLETED", "NO_SHOW"}
          => \E r \in Calls : At(r, "settle") /\ calls[r].id = b
                             /\ calls[r].row.end # bookings[b].end]_vars

-----------------------------------------------------------------------------
(***************************************************************************)
(* What a running call may rely on.  A management call names a booking     *)
(* that exists (no row is ever deleted); a call about to write carries a   *)
(* non-empty interval; a call that comes from a status write re-reads a    *)
(* booking that has been settled, by itself or by whoever came first.  An  *)
(* outcome is about to be written only after the end that was read.        *)
(***************************************************************************)
CallOK(r) ==
    /\ calls[r].pc \in {"tenant"} \cup ZoneRead =>
           calls[r].op \in {"create", "reschedule"}
    /\ calls[r].pc \in ZoneRead => calls[r].zone \in Zones
    /\ calls[r].pc \in {"insert", "move"} => calls[r].startAt < calls[r].endAt
    /\ calls[r].pc = "insert" => calls[r].op = "create"
    /\ calls[r].pc = "move" => calls[r].op = "reschedule"
    /\ calls[r].pc \in {"ended", "settle"} => calls[r].op \in SettleOps
    /\ calls[r].pc = "ended" => calls[r].op # "cancel"
    /\ calls[r].pc = "settle" /\ calls[r].op # "cancel" => calls[r].row.end <= now
    /\ calls[r].pc = "reread" => calls[r].op # "create"
    /\ calls[r].op # "create" =>
           /\ calls[r].id \in BookingIds
           /\ bookings[calls[r].id] # Absent
           /\ calls[r].row # Absent
    /\ calls[r].pc = "reread" /\ calls[r].op \in SettleOps =>
           bookings[calls[r].id].status \in Outcomes

ReplyOK(r) ==
    calls[r].code = "OK" /\ calls[r].op \in SettleOps =>
        /\ calls[r].id \in BookingIds
        /\ bookings[calls[r].id] # Absent
        /\ calls[r].row = bookings[calls[r].id]
        /\ calls[r].row.status \in Outcomes

\* The inductive invariant behind the theorems of BookingsProofs.tla.
IInv ==
    /\ TypeOK
    /\ \A b \in BookingIds : bookings[b] # Absent =>
                                bookings[b].start < bookings[b].end
    /\ \A r \in Calls : /\ Running(r) => CallOK(r)
                        /\ At(r, "done") => ReplyOK(r)

(***************************************************************************)
(* What a call has read stays true until the owner edits it: the zone, the *)
(* duration behind slotEnd and endAt, the hours behind the slot it picked. *)
(* A management call carries the technician of its booking in any case,    *)
(* and the start it writes is always the one it was asked for.             *)
(***************************************************************************)
SlotFits(call) ==
    \E w \in roster[call.staff].hours : w.start <= call.start /\ call.slotEnd <= w.end

ReadsHold(r) ==
    /\ calls[r].op # "create" => bookings[calls[r].id].staff = calls[r].staff
    /\ calls[r].pc \in DurationRead \cup {"insert", "move"} =>
           calls[r].start < calls[r].slotEnd
    /\ calls[r].pc \in {"insert", "move"} =>
           calls[r].startAt = InstantAt(calls[r].zone, calls[r].start)
    /\ calls[r].pc \in ZoneRead /\ "zone" \notin calls[r].edited =>
           calls[r].zone = zone
    /\ "duration" \notin calls[r].edited =>
           /\ calls[r].pc \in DurationRead =>
                  calls[r].slotEnd = calls[r].start + catalog[calls[r].service].duration
           /\ calls[r].pc \in {"insert", "move"} =>
                  calls[r].endAt - calls[r].startAt = calls[r].slotEnd - calls[r].start
    /\ "hours" \notin calls[r].edited =>
           /\ calls[r].pc = "slots" => calls[r].hours = roster[calls[r].staff].hours
           /\ calls[r].pc \in Picked => SlotFits(calls[r])

\* The invariant behind WrittenInsideHours and ConfirmationMatchesRow.
OffersInv == \A r \in Calls : Running(r) => ReadsHold(r)

\* Where nothing is rescheduled the end a call has read stays the booking's:
\* the invariant behind OutcomeAfterEnd on such histories.
EndHolds(r) == calls[r].op # "create" => bookings[calls[r].id].end = calls[r].row.end

OutcomesInv ==
    /\ \A r \in Calls : Running(r) => EndHolds(r)
    /\ OutcomeAfterEnd

=============================================================================
