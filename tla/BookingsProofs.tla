--------------------------- MODULE BookingsProofs ---------------------------
(***************************************************************************)
(* The booking handlers implement the ledger, and what they tell a caller  *)
(* about a settled booking is final: for any number of concurrent calls,   *)
(* any catalog and roster, and any interleaving with the owner's edits.    *)
(***************************************************************************)
EXTENDS Bookings, TLAPS

-----------------------------------------------------------------------------
(***************************************************************************)
(* Local steps: with the table unchanged, one caller's new local state is  *)
(* all there is to check.                                                  *)
(***************************************************************************)
LEMMA LocalStep ==
    ASSUME IInv, NEW r \in Calls, NEW c \in Call \cup Reply \cup {Idle},
           calls' = [calls EXCEPT ![r] = c],
           UNCHANGED <<bookings, World>>,
           Running(r)' => CallOK(r)',
           At(r, "done")' => ReplyOK(r)'
    PROVE  IInv'
<1>1. TypeOK'
  BY DEF IInv, TypeOK, World
<1>2. \A b \in BookingIds : (bookings[b] # Absent =>
                                bookings[b].start < bookings[b].end)'
  BY DEF IInv
<1>3. ASSUME NEW q \in Calls \ {r}
      PROVE  (Running(q) => CallOK(q))' /\ (At(q, "done") => ReplyOK(q))'
  <2>1. calls'[q] = calls[q]
    BY DEF IInv, TypeOK
  <2>. QED
    BY <2>1 DEF IInv, Running, At, CallOK, ReplyOK, World
<1>. QED
  BY <1>1, <1>2, <1>3 DEF IInv

(***************************************************************************)
(* A step that answers the caller with anything but a settled booking.     *)
(***************************************************************************)
LEMMA AnswerStep ==
    ASSUME IInv, NEW r \in Calls, NEW call, NEW code \in Codes,
           NEW id \in BookingIds \cup {Absent}, NEW row \in Row \cup {Absent},
           call.op \in Operations,
           Return(r, call, code, id, row),
           UNCHANGED <<bookings, World>>,
           code = "OK" /\ call.op \in SettleOps =>
               /\ id \in BookingIds /\ bookings[id] # Absent
               /\ row = bookings[id] /\ row.status \in Outcomes
    PROVE  IInv'
<1> DEFINE c == [pc |-> "done", op |-> call.op, code |-> code, id |-> id,
                 row |-> row]
<1>1. c \in Reply
  BY DEF Reply
<1>2. calls' = [calls EXCEPT ![r] = c]
  BY DEF Return
<1>3. calls'[r] = c
  BY <1>2 DEF IInv, TypeOK
<1>4. ~Running(r)' /\ (At(r, "done") => ReplyOK(r))'
  BY <1>3 DEF Running, PCs, At, ReplyOK
<1>. QED
  BY <1>1, <1>2, <1>4, LocalStep

(***************************************************************************)
(* A step that takes a call to its next statement.                         *)
(***************************************************************************)
LEMMA GotoStep ==
    ASSUME IInv, NEW r \in Calls, NEW c \in Call,
           Goto(r, c),
           UNCHANGED <<bookings, World>>,
           CallOK(r)'
    PROVE  IInv'
<1>1. calls'[r] = c
  BY DEF Goto, IInv, TypeOK
<1>2. ~At(r, "done")'
  BY <1>1 DEF At, Call, PCs
<1>. QED
  BY <1>2, LocalStep DEF Goto

(***************************************************************************)
(* A call that stops with an error touches nothing but its own answer.     *)
(***************************************************************************)
LEMMA RefuseStep ==
    ASSUME IInv, NEW r \in Calls, NEW code \in Codes \ {"OK"},
           Running(r), Refuse(r, code), UNCHANGED <<bookings, World>>
    PROVE  IInv'
<1>1. calls[r] \in Call
  BY DEF IInv, TypeOK, Running, PCs, Reply, Idle
<1>2. calls[r].op \in Operations /\ calls[r].id \in BookingIds \cup {Absent}
  BY <1>1 DEF Call
<1>. QED
  BY <1>2, AnswerStep DEF Refuse

-----------------------------------------------------------------------------
(***************************************************************************)
(* A call's local state, and the booking a management call has read.       *)
(***************************************************************************)
LEMMA CallType ==
    ASSUME IInv, NEW r \in Calls, Running(r)
    PROVE  calls[r] \in Call /\ CallOK(r)
BY DEF IInv, TypeOK, Running, PCs, Reply, Idle

LEMMA FoundType ==
    ASSUME IInv, NEW b \in BookingIds, bookings[b] # Absent,
           NEW op \in Operations, NEW s \in Int, NEW pc \in PCs
    PROVE  /\ Found(b, op, s, pc) \in Call
           /\ Found(b, op, s, pc).op = op
           /\ Found(b, op, s, pc).pc = pc
<1>1. bookings[b] \in Row
  BY DEF IInv, TypeOK
<1>. QED
  BY <1>1 DEF Found, Call, Row

LEMMA StartSteps ==
    ASSUME IInv, NEW r \in Calls, Start(r)
    PROVE  IInv'
<1>1. ASSUME CallCreate(r)
      PROVE  IInv'
  <2>1. PICK sv \in Services, st \in Staff, s \in Time :
           Goto(r, [pc |-> "service", op |-> "create", id |-> Absent,
                    service |-> sv, staff |-> st, start |-> s, slotEnd |-> s,
                    zone |-> zone, startAt |-> 0, endAt |-> 0, bookable |-> TRUE,
                    hours |-> {}, row |-> Absent, edited |-> {}])
    BY <1>1 DEF CallCreate
  <2> DEFINE c == [pc |-> "service", op |-> "create", id |-> Absent,
                   service |-> sv, staff |-> st, start |-> s, slotEnd |-> s,
                   zone |-> zone, startAt |-> 0, endAt |-> 0, bookable |-> TRUE,
                   hours |-> {}, row |-> Absent, edited |-> {}]
  <2>2. c \in Call
    BY <1>1, MaxTimeIsNat DEF CallCreate, Call, PCs, Time, IInv, TypeOK
  <2>3. calls'[r] = c
    BY <2>1 DEF Goto, IInv, TypeOK
  <2>4. CallOK(r)'
    BY <2>3 DEF CallOK, SettleOps, ZoneRead, DurationRead, IInv, TypeOK
  <2>. QED
    BY <1>1, <2>1, <2>2, <2>4, GotoStep DEF CallCreate
<1>2. ASSUME NEW b \in BookingIds, CallReschedule(r, b)
      PROVE  IInv'
  <2>1. PICK s \in Time :
           LET call == Found(b, "reschedule", s, "tenant")
           IN IF bookings[b].status = "CONFIRMED"
              THEN Goto(r, call)
              ELSE Return(r, call, "VALIDATION_FAILED", b, Absent)
    BY <1>2 DEF CallReschedule
  <2> DEFINE c == Found(b, "reschedule", s, "tenant")
  <2>2. s \in Int /\ "tenant" \in PCs /\ "reschedule" \in Operations /\ bookings[b] # Absent
    BY <1>2, MaxTimeIsNat DEF Time, PCs, CallReschedule
  <2>3. c \in Call /\ c.op = "reschedule" /\ c.pc = "tenant"
    BY <2>2, FoundType
  <2>4. CASE bookings[b].status = "CONFIRMED"
    <3>1. calls'[r] = c
      BY <2>1, <2>4 DEF Goto, IInv, TypeOK
    <3>2. CallOK(r)'
      BY <1>2, <2>2, <2>3, <3>1 DEF CallOK, SettleOps, ZoneRead, DurationRead, Found, CallReschedule
    <3>. QED
      BY <1>2, <2>1, <2>3, <2>4, <3>2, GotoStep DEF CallReschedule
  <2>5. CASE bookings[b].status # "CONFIRMED"
    BY <1>2, <2>1, <2>2, <2>3, <2>5, AnswerStep DEF CallReschedule, Codes, SettleOps
  <2>. QED
    BY <2>4, <2>5
<1>3. ASSUME NEW b \in BookingIds, CallCancel(r, b)
      PROVE  IInv'
  <2> DEFINE c == Found(b, "cancel", 0, "settle")
  <2>1. "settle" \in PCs /\ "cancel" \in Operations /\ bookings[b] # Absent
    BY <1>3 DEF PCs, CallCancel
  <2>2. c \in Call /\ c.op = "cancel" /\ c.pc = "settle"
    BY <2>1, FoundType
  <2>3. bookings[b] \in Row
    BY <2>1 DEF IInv, TypeOK
  <2>4. CASE bookings[b].status = "CANCELLED"
    <3>1. Return(r, c, "OK", b, bookings[b])
      BY <1>3, <2>4 DEF CallCancel
    <3>. QED
      BY <1>3, <2>1, <2>2, <2>3, <2>4, <3>1, AnswerStep
         DEF CallCancel, Codes, Outcomes, Statuses
  <2>5. CASE bookings[b].status = "CONFIRMED"
    <3>1. Goto(r, c)
      BY <1>3, <2>5 DEF CallCancel
    <3>2. calls'[r] = c
      BY <3>1 DEF Goto, IInv, TypeOK
    <3>3. CallOK(r)'
      BY <1>3, <2>1, <2>2, <3>2 DEF CallOK, SettleOps, ZoneRead, DurationRead, Found, CallCancel
    <3>. QED
      BY <1>3, <2>2, <3>1, <3>3, GotoStep DEF CallCancel
  <2>6. CASE bookings[b].status \notin {"CANCELLED", "CONFIRMED"}
    <3>1. Return(r, c, "BOOKING_INVALID_TRANSITION", b, Absent)
      BY <1>3, <2>6 DEF CallCancel
    <3>. QED
      BY <1>3, <2>1, <2>2, <3>1, AnswerStep DEF CallCancel, Codes
  <2>. QED
    BY <2>4, <2>5, <2>6
<1>4. ASSUME NEW b \in BookingIds, NEW op \in Operations, CallOutcome(r, op, b)
      PROVE  IInv'
  <2> DEFINE c == Found(b, op, 0, "ended")
  <2>1. "ended" \in PCs /\ op \in {"complete", "no_show"} /\ bookings[b] # Absent
    BY <1>4 DEF PCs, CallOutcome
  <2>2. c \in Call /\ c.op = op /\ c.pc = "ended"
    BY <2>1, FoundType
  <2>3. bookings[b] \in Row /\ Outcome(op) \in Outcomes
    BY <2>1 DEF IInv, TypeOK, Outcome, Outcomes, Statuses
  <2>4. CASE bookings[b].status = Outcome(op)
    <3>1. Return(r, c, "OK", b, bookings[b])
      BY <1>4, <2>3, <2>4 DEF CallOutcome, Outcomes
    <3>. QED
      BY <1>4, <2>1, <2>2, <2>3, <2>4, <3>1, AnswerStep DEF CallOutcome, Codes
  <2>5. CASE bookings[b].status = "CONFIRMED"
    <3>1. Goto(r, c)
      BY <1>4, <2>3, <2>5 DEF CallOutcome, Outcomes
    <3>2. calls'[r] = c
      BY <3>1 DEF Goto, IInv, TypeOK
    <3>3. CallOK(r)'
      BY <1>4, <2>1, <2>2, <3>2 DEF CallOK, SettleOps, ZoneRead, DurationRead, Found, CallOutcome
    <3>. QED
      BY <1>4, <2>2, <3>1, <3>3, GotoStep DEF CallOutcome
  <2>6. CASE bookings[b].status \notin {Outcome(op), "CONFIRMED"}
    <3>1. Return(r, c, "BOOKING_INVALID_TRANSITION", b, Absent)
      BY <1>4, <2>6 DEF CallOutcome
    <3>. QED
      BY <1>4, <2>1, <2>2, <3>1, AnswerStep DEF CallOutcome, Codes
  <2>. QED
    BY <2>4, <2>5, <2>6
<1>5. ASSUME NEW b \in BookingIds, NEW op \in Operations, NotFound(r, op, b)
      PROVE  IInv'
  BY <1>5, AnswerStep DEF NotFound, Codes
<1>6. ASSUME NEW b \in BookingIds, NEW op \in {"complete", "no_show"},
             CallOutcome(r, op, b) \/ NotFound(r, op, b)
      PROVE  IInv'
  <2>1. op \in Operations
    BY <1>6 DEF CallOutcome, NotFound
  <2>. QED
    BY <1>4, <1>5, <1>6, <2>1
<1>7. ASSUME NEW b \in BookingIds,
             NotFound(r, "reschedule", b) \/ NotFound(r, "cancel", b)
      PROVE  IInv'
  BY <1>5, <1>7 DEF NotFound
<1>. QED
  BY <1>1, <1>2, <1>3, <1>6, <1>7
  DEF Start, PostBooking, PostReschedule, PostCancel, PostComplete, PostNoShow

(***************************************************************************)
(* The reads of a running call.                                            *)
(***************************************************************************)
LEMMA CheckEndedStep ==
    ASSUME IInv, NEW r \in Calls, CheckEnded(r)
    PROVE  IInv'
<1>1. Running(r) /\ UNCHANGED <<bookings, World>>
  BY DEF CheckEnded, At, Running, PCs
<1>2. calls[r] \in Call /\ CallOK(r)
  BY <1>1, CallType
<1>3. CASE now < calls[r].row.end
  <2>1. Refuse(r, "BOOKING_INVALID_TRANSITION")
    BY <1>3 DEF CheckEnded
  <2>. QED
    BY <1>1, <2>1, RefuseStep DEF Codes
<1>4. CASE ~(now < calls[r].row.end)
  <2> DEFINE c == [calls[r] EXCEPT !.pc = "settle"]
  <2>1. Goto(r, c)
    BY <1>4 DEF CheckEnded
  <2>2. c \in Call
    BY <1>2 DEF Call, PCs
  <2>3. calls'[r] = c
    BY <2>1 DEF Goto, IInv, TypeOK
  <2>4. calls[r].row.end \in Int /\ now \in Int
    BY <1>1, <1>2, MaxTimeIsNat
    DEF CallOK, SettleOps, CheckEnded, At, Call, Row, IInv, TypeOK, Time
  <2>5. calls[r].row.end <= now'
    BY <1>1, <1>4, <2>4 DEF World
  <2>6. CallOK(r)'
    BY <1>1, <1>2, <2>3, <2>5 DEF CallOK, Call, CheckEnded, At, ZoneRead, DurationRead
  <2>. QED
    BY <1>1, <2>1, <2>2, <2>6, GotoStep
<1>. QED
  BY <1>3, <1>4

LEMMA ReadTenantStep ==
    ASSUME IInv, NEW r \in Calls, ReadTenant(r)
    PROVE  IInv'
<1>1. Running(r) /\ At(r, "tenant") /\ UNCHANGED <<bookings, World>>
  BY DEF ReadTenant, At, Running, PCs
<1>2. calls[r] \in Call /\ CallOK(r)
  BY <1>1, CallType
<1> DEFINE c == [calls[r] EXCEPT !.pc = "service", !.zone = zone]
<1>3. zone \in Zones
  BY DEF IInv, TypeOK
<1>4. c \in Call /\ Goto(r, c)
  BY <1>2, <1>3 DEF Call, PCs, ReadTenant
<1>5. calls'[r] = c
  BY <1>4 DEF Goto, IInv, TypeOK
<1>6. CallOK(r)'
  BY <1>1, <1>2, <1>3, <1>5 DEF CallOK, Call, At, SettleOps, ZoneRead, DurationRead
<1>. QED
  BY <1>1, <1>4, <1>6, GotoStep

LEMMA ReadServiceStep ==
    ASSUME IInv, NEW r \in Calls, ReadService(r)
    PROVE  IInv'
<1>1. Running(r) /\ At(r, "service") /\ UNCHANGED <<bookings, World>>
  BY DEF ReadService, At, Running, PCs
<1>2. calls[r] \in Call /\ CallOK(r)
  BY <1>1, CallType
<1> DEFINE sv == catalog[calls[r].service]
<1>3. sv \in ServiceState
  BY <1>2 DEF IInv, TypeOK, Call
<1>4. CASE sv.status = "ARCHIVED"
  <2>1. Refuse(r, "SERVICE_NOT_FOUND")
    BY <1>4 DEF ReadService
  <2>. QED
    BY <1>1, <2>1, RefuseStep DEF Codes
<1>5. CASE sv.status # "ARCHIVED"
  <2> DEFINE c == [calls[r] EXCEPT !.pc = "staff",
                                   !.slotEnd = calls[r].start + sv.duration]
  <2>1. Goto(r, c)
    BY <1>5 DEF ReadService
  <2>2. calls[r].start + sv.duration \in Int
    <3> HIDE DEF sv
    <3>1. sv.duration \in Nat
      BY <1>3, DurationsArePositive DEF ServiceState
    <3>2. calls[r].start \in Int
      BY <1>2 DEF Call
    <3>. QED
      BY <3>1, <3>2
  <2>3. c \in Call
    <3> HIDE DEF sv
    <3>. QED
      BY <1>2, <2>2 DEF Call, PCs
  <2>4. calls'[r] = c
    BY <2>1 DEF Goto, IInv, TypeOK
  <2>5. CallOK(r)'
    BY <1>1, <1>2, <2>4 DEF CallOK, Call, At, SettleOps, ZoneRead, DurationRead
  <2>. QED
    BY <1>1, <2>1, <2>3, <2>5, GotoStep
<1>. QED
  BY <1>4, <1>5

LEMMA ReadStaffStep ==
    ASSUME IInv, NEW r \in Calls, ReadStaff(r)
    PROVE  IInv'
<1>1. Running(r) /\ At(r, "staff") /\ UNCHANGED <<bookings, World>>
  BY DEF ReadStaff, At, Running, PCs
<1>2. calls[r] \in Call /\ CallOK(r)
  BY <1>1, CallType
<1> DEFINE c == [calls[r] EXCEPT !.pc = "capabilities",
                              !.bookable = roster[calls[r].staff].bookable]
<1>3. roster[calls[r].staff] \in StaffState
  BY <1>2 DEF IInv, TypeOK, Call
<1>4. \/ \E code \in Codes \ {"OK"} : Refuse(r, code)
      \/ Goto(r, c)
  BY DEF ReadStaff, Codes
<1>5. c \in Call
  BY <1>2, <1>3 DEF Call, PCs, StaffState
<1>6. CASE Goto(r, c)
  <2>1. calls'[r] = c
    BY <1>6 DEF Goto, IInv, TypeOK
  <2>2. CallOK(r)'
    BY <1>1, <1>2, <2>1 DEF CallOK, Call, At, SettleOps, ZoneRead, DurationRead
  <2>. QED
    BY <1>1, <1>5, <1>6, <2>2, GotoStep
<1>7. CASE \E code \in Codes \ {"OK"} : Refuse(r, code)
  BY <1>1, <1>7, RefuseStep
<1>. QED
  BY <1>4, <1>6, <1>7

LEMMA ReadCapabilitiesStep ==
    ASSUME IInv, NEW r \in Calls, ReadCapabilities(r)
    PROVE  IInv'
<1>1. Running(r) /\ At(r, "capabilities") /\ UNCHANGED <<bookings, World>>
  BY DEF ReadCapabilities, At, Running, PCs
<1>2. calls[r] \in Call /\ CallOK(r)
  BY <1>1, CallType
<1> DEFINE c == [calls[r] EXCEPT !.pc = "hours"]
<1>3. roster[calls[r].staff] \in StaffState
  BY <1>2 DEF IInv, TypeOK, Call
<1>4. \/ \E code \in Codes \ {"OK"} : Refuse(r, code)
      \/ Goto(r, c)
  BY DEF ReadCapabilities, Codes
<1>5. c \in Call
  BY <1>2, <1>3 DEF Call, PCs, StaffState
<1>6. CASE Goto(r, c)
  <2>1. calls'[r] = c
    BY <1>6 DEF Goto, IInv, TypeOK
  <2>2. CallOK(r)'
    BY <1>1, <1>2, <2>1 DEF CallOK, Call, At, SettleOps, ZoneRead, DurationRead
  <2>. QED
    BY <1>1, <1>5, <1>6, <2>2, GotoStep
<1>7. CASE \E code \in Codes \ {"OK"} : Refuse(r, code)
  BY <1>1, <1>7, RefuseStep
<1>. QED
  BY <1>4, <1>6, <1>7

LEMMA ReadHoursStep ==
    ASSUME IInv, NEW r \in Calls, ReadHours(r)
    PROVE  IInv'
<1>1. Running(r) /\ At(r, "hours") /\ UNCHANGED <<bookings, World>>
  BY DEF ReadHours, At, Running, PCs
<1>2. calls[r] \in Call /\ CallOK(r)
  BY <1>1, CallType
<1> DEFINE c == [calls[r] EXCEPT !.pc = "slots",
                              !.hours = roster[calls[r].staff].hours]
<1>3. roster[calls[r].staff] \in StaffState
  BY <1>2 DEF IInv, TypeOK, Call
<1>4. \/ \E code \in Codes \ {"OK"} : Refuse(r, code)
      \/ Goto(r, c)
  BY DEF ReadHours, Codes
<1>5. c \in Call
  BY <1>2, <1>3, SchedulesAreSpans DEF Call, PCs, StaffState
<1>6. CASE Goto(r, c)
  <2>1. calls'[r] = c
    BY <1>6 DEF Goto, IInv, TypeOK
  <2>2. CallOK(r)'
    BY <1>1, <1>2, <2>1 DEF CallOK, Call, At, SettleOps, ZoneRead, DurationRead
  <2>. QED
    BY <1>1, <1>5, <1>6, <2>2, GotoStep
<1>7. CASE \E code \in Codes \ {"OK"} : Refuse(r, code)
  BY <1>1, <1>7, RefuseStep
<1>. QED
  BY <1>4, <1>6, <1>7

LEMMA PickSlotStep ==
    ASSUME IInv, NEW r \in Calls, PickSlot(r)
    PROVE  IInv'
<1>1. Running(r) /\ At(r, "slots") /\ UNCHANGED <<bookings, World>>
  BY DEF PickSlot, At, Running, PCs
<1>2. calls[r] \in Call /\ CallOK(r)
  BY <1>1, CallType
<1> DEFINE c == [calls[r] EXCEPT !.pc = "duration", !.hours = {}]
<1>3. Refuse(r, "BOOKING_SLOT_UNAVAILABLE") \/ Goto(r, c)
  BY DEF PickSlot
<1>4. c \in Call
  BY <1>2 DEF Call, PCs
<1>5. CASE Goto(r, c)
  <2>1. calls'[r] = c
    BY <1>5 DEF Goto, IInv, TypeOK
  <2>2. CallOK(r)'
    BY <1>1, <1>2, <2>1 DEF CallOK, Call, At, SettleOps, ZoneRead, DurationRead
  <2>. QED
    BY <1>1, <1>4, <1>5, <2>2, GotoStep
<1>6. CASE Refuse(r, "BOOKING_SLOT_UNAVAILABLE")
  BY <1>1, <1>6, RefuseStep DEF Codes
<1>. QED
  BY <1>3, <1>5, <1>6

\* A zone's conversion of labels gives instants.
LEMMA InstantsAreInts ==
    ASSUME NEW z \in Zones, NEW m \in Int
    PROVE  InstantAt(z, m) \in Int
<1>1. z \in Zone(Int)
  BY ZonesAreZones
<1>2. z.midnight \in Int /\ z.shift \in Int
  BY <1>1 DEF Zone
<1>. QED
  BY <1>2 DEF InstantAt

LEMMA DeriveEndStep ==
    ASSUME IInv, NEW r \in Calls, DeriveEnd(r)
    PROVE  IInv'
<1>1. Running(r) /\ At(r, "duration") /\ UNCHANGED <<bookings, World>>
  BY DEF DeriveEnd, At, Running, PCs
<1>2. calls[r] \in Call /\ CallOK(r)
  BY <1>1, CallType
<1> DEFINE call == [calls[r] EXCEPT !.startAt = StartInstant(calls[r]),
                                    !.endAt = DerivedEnd(calls[r])]
<1>3. /\ StartInstant(calls[r]) \in Int /\ DerivedEnd(calls[r]) \in Int
      /\ StartInstant(calls[r]) < DerivedEnd(calls[r])
  <2>1. catalog[calls[r].service].duration \in Nat \ {0} /\ calls[r].start \in Int
    BY <1>2, DurationsArePositive DEF IInv, TypeOK, ServiceState, Call
  <2>2. calls[r].zone \in Zones
    BY <1>1, <1>2 DEF CallOK, At, ZoneRead, DurationRead
  <2>3. StartInstant(calls[r]) \in Int
    BY <2>1, <2>2, InstantsAreInts DEF StartInstant
  <2>. QED
    BY <2>1, <2>3 DEF DerivedEnd
<1>4. /\ call \in Call /\ call.op = calls[r].op /\ call.id = calls[r].id
      /\ call.row = calls[r].row /\ call.startAt < call.endAt
      /\ call.zone = calls[r].zone
  BY <1>2, <1>3 DEF Call
<1>5. CASE \E pc \in {"insert", "move"} :
             /\ Goto(r, [call EXCEPT !.pc = pc])
             /\ call.op = IF pc = "insert" THEN "create" ELSE "reschedule"
  <2>1. PICK pc \in {"insert", "move"} :
             /\ Goto(r, [call EXCEPT !.pc = pc])
             /\ call.op = IF pc = "insert" THEN "create" ELSE "reschedule"
    BY <1>5
  <2> DEFINE c == [call EXCEPT !.pc = pc]
  <2>2. /\ c \in Call /\ c.op = call.op /\ c.id = call.id /\ c.row = call.row
        /\ c.startAt < c.endAt /\ c.pc = pc /\ c.zone = call.zone
    BY <1>4 DEF Call, PCs
  <2>3. calls'[r] = c
    BY <2>1 DEF Goto, IInv, TypeOK
  <2>4. CallOK(r)'
    <3>. HIDE DEF c, call
    <3>. QED
      BY <1>1, <1>2, <1>4, <2>1, <2>2, <2>3 DEF CallOK, SettleOps, At, ZoneRead, DurationRead
  <2>. QED
    BY <1>1, <2>1, <2>2, <2>4, GotoStep
<1>6. CASE call.op = "reschedule" /\ Return(r, call, "OK", call.id, call.row)
  <2>1. /\ call.op \in Operations
        /\ call.id \in BookingIds \cup {Absent} /\ call.row \in Row \cup {Absent}
    BY <1>4 DEF Call
  <2>. QED
    BY <1>1, <1>6, <2>1, AnswerStep DEF Codes, SettleOps
<1>. QED
  BY <1>5, <1>6 DEF DeriveEnd

LEMMA RereadStep ==
    ASSUME IInv, NEW r \in Calls, Reread(r)
    PROVE  IInv'
<1>1. Running(r) /\ At(r, "reread") /\ UNCHANGED <<bookings, World>>
  BY DEF Reread, At, Running, PCs
<1>2. calls[r] \in Call /\ CallOK(r)
  BY <1>1, CallType
<1>3. /\ calls[r].id \in BookingIds /\ bookings[calls[r].id] # Absent
      /\ calls[r].op \in SettleOps => bookings[calls[r].id].status \in Outcomes
  BY <1>1, <1>2 DEF CallOK, At
<1>4. bookings[calls[r].id] \in Row
  BY <1>3 DEF IInv, TypeOK
<1>5. calls[r].op \in Operations
  BY <1>2 DEF Call
<1>. QED
  BY <1>1, <1>3, <1>4, <1>5, AnswerStep DEF Reread, Codes

LEMMA AbortStep ==
    ASSUME IInv, NEW r \in Calls, Abort(r)
    PROVE  IInv'
<1>1. calls'[r] = Idle
  BY DEF Abort, IInv, TypeOK
<1>2. ~Running(r)' /\ ~At(r, "done")'
  BY <1>1 DEF Running, At, Idle, PCs
<1>. QED
  BY <1>2, LocalStep DEF Abort

-----------------------------------------------------------------------------
(***************************************************************************)
(* The writes.  A statement that only adds rows and changes CONFIRMED ones *)
(* cannot disturb what the other callers rely on or were told.             *)
(***************************************************************************)
LEMMA WriteStep ==
    ASSUME IInv, NEW r \in Calls, NEW c \in Call \cup Reply \cup {Idle},
           calls' = [calls EXCEPT ![r] = c],
           UNCHANGED World,
           bookings' \in [BookingIds -> Row \cup {Absent}],
           \A b \in BookingIds :
               bookings'[b] # Absent => bookings'[b].start < bookings'[b].end,
           \A b \in BookingIds : L!Final(b),
           Running(r)' => CallOK(r)',
           At(r, "done")' => ReplyOK(r)'
    PROVE  IInv'
<1>1. TypeOK'
  BY DEF IInv, TypeOK, World
<1>2. ASSUME NEW q \in Calls \ {r}
      PROVE  (Running(q) => CallOK(q))' /\ (At(q, "done") => ReplyOK(q))'
  <2>1. calls'[q] = calls[q]
    BY DEF IInv, TypeOK
  <2>2. Running(q) => CallOK(q)'
    BY <2>1 DEF IInv, CallOK, L!Final, Outcomes, World
  <2>3. At(q, "done") => ReplyOK(q)'
    BY <2>1 DEF IInv, ReplyOK, L!Final, Outcomes
  <2>. QED
    BY <2>1, <2>2, <2>3 DEF Running, At
<1>. QED
  BY <1>1, <1>2 DEF IInv

(***************************************************************************)
(* The ledger's copies of the shared vocabulary mean the same.             *)
(***************************************************************************)
LEMMA LedgerVocabulary ==
    /\ L!Row = Row
    /\ L!Outcomes = Outcomes
    /\ \A t, b : L!Confirmed(t, b) <=> Confirmed(t, b)
    /\ \A t, b, row : L!Excluded(t, b, row) <=> Excluded(t, b, row)
    /\ \A x, y : L!Clash(x, y) <=> Clash(x, y)
<1>1. \A t, b : L!Confirmed(t, b) <=> Confirmed(t, b)
  BY DEF L!Confirmed, Confirmed
<1>2. \A x, y : L!Clash(x, y) <=> Clash(x, y)
  BY DEF L!Clash, Clash
<1>. QED
  BY <1>1, <1>2 DEF L!Row, Row, L!Statuses, Statuses, L!Outcomes, Outcomes,
                    L!Excluded, Excluded

(***************************************************************************)
(* The type of the ledger, in the vocabulary of the handlers.              *)
(***************************************************************************)
LEMMA LedgerTypeMeans ==
    L!TypeOK <=> /\ bookings \in [BookingIds -> Row \cup {Absent}]
                 /\ \A b \in BookingIds :
                        bookings[b] # Absent => bookings[b].start < bookings[b].end
BY LedgerVocabulary DEF L!TypeOK

(***************************************************************************)
(* The handlers' invariant contains the ledger's type.                     *)
(***************************************************************************)
LEMMA InvariantHasLedgerType == IInv => L!TypeOK
BY LedgerTypeMeans DEF IInv, TypeOK

(***************************************************************************)
(* A step of the ledger, or none, keeps its type and its history.          *)
(***************************************************************************)
LEMMA LedgerStepKeeps ==
    ASSUME L!TypeOK, L!Next \/ UNCHANGED bookings
    PROVE  /\ bookings' \in [BookingIds -> Row \cup {Absent}]
           /\ \A b \in BookingIds :
                  bookings'[b] # Absent => bookings'[b].start < bookings'[b].end
           /\ \A b \in BookingIds : L!Final(b)
<1>0. /\ bookings \in [BookingIds -> Row \cup {Absent}]
      /\ \A b \in BookingIds :
             bookings[b] # Absent => bookings[b].start < bookings[b].end
  BY LedgerTypeMeans
<1>1. ASSUME NEW c \in BookingIds, L!Book(c)
      PROVE  /\ bookings' \in [BookingIds -> Row \cup {Absent}]
             /\ \A b \in BookingIds :
                    bookings'[b] # Absent => bookings'[b].start < bookings'[b].end
             /\ \A b \in BookingIds : L!Final(b)
  BY <1>0, <1>1, LedgerVocabulary, AbsentIsNoRow DEF L!Book, L!Final
<1>2. ASSUME NEW c \in BookingIds, L!Move(c)
      PROVE  /\ bookings' \in [BookingIds -> Row \cup {Absent}]
             /\ \A b \in BookingIds :
                    bookings'[b] # Absent => bookings'[b].start < bookings'[b].end
             /\ \A b \in BookingIds : L!Final(b)
  <2>1. bookings[c] \in Row /\ bookings'[c] \in Row /\ bookings[c].status = "CONFIRMED"
    BY <1>0, <1>2, LedgerVocabulary DEF L!Move, Confirmed
  <2>2. bookings'[c].service = bookings[c].service /\ bookings'[c].staff = bookings[c].staff
    BY <1>2, <2>1 DEF L!Move, L!MovedTo, Row
  <2>. QED
    BY <1>0, <1>2, <2>1, <2>2, AbsentIsNoRow DEF L!Move, L!Final
<1>3. ASSUME NEW c \in BookingIds, L!Settle(c)
      PROVE  /\ bookings' \in [BookingIds -> Row \cup {Absent}]
             /\ \A b \in BookingIds :
                    bookings'[b] # Absent => bookings'[b].start < bookings'[b].end
             /\ \A b \in BookingIds : L!Final(b)
  <2>1. PICK o \in Outcomes : bookings' = [bookings EXCEPT ![c].status = o]
    BY <1>3, LedgerVocabulary DEF L!Settle
  <2>2. bookings[c] \in Row /\ bookings[c].status = "CONFIRMED"
    BY <1>0, <1>3, LedgerVocabulary DEF L!Settle, Confirmed
  <2>3. /\ bookings'[c] \in Row
        /\ bookings'[c].start = bookings[c].start /\ bookings'[c].end = bookings[c].end
        /\ bookings'[c].service = bookings[c].service
        /\ bookings'[c].staff = bookings[c].staff
    BY <1>0, <2>1, <2>2 DEF Row, Outcomes
  <2>4. \A b \in BookingIds \ {c} : bookings'[b] = bookings[b]
    BY <1>0, <2>1
  <2>5. bookings' \in [BookingIds -> Row \cup {Absent}]
    BY <1>0, <2>1, <2>3
  <2>. QED
    BY <1>0, <2>2, <2>3, <2>4, <2>5, AbsentIsNoRow DEF L!Final
<1>4. CASE UNCHANGED bookings
  BY <1>0, <1>4 DEF L!Final
<1>. QED
  BY <1>1, <1>2, <1>3, <1>4 DEF L!Next

(***************************************************************************)
(* Creating a booking is Book, or nothing.                                 *)
(***************************************************************************)
LEMMA InsertStep ==
    ASSUME IInv, NEW r \in Calls, Insert(r)
    PROVE  IInv' /\ (L!Next \/ UNCHANGED bookings)
<1>1. Running(r) /\ At(r, "insert") /\ UNCHANGED World
  BY DEF Insert, At, Running, PCs
<1>2. calls[r] \in Call /\ CallOK(r)
  BY <1>1, CallType
<1> DEFINE row == NewRow(calls[r])
<1>3. row \in Row /\ row.status = "CONFIRMED" /\ row.start < row.end
  BY <1>1, <1>2 DEF NewRow, Call, CallOK, Row, Statuses, At
<1>4. PICK b \in BookingIds :
         /\ bookings[b] = Absent
         /\ IF Excluded(bookings, b, row)
            THEN /\ Refuse(r, "BOOKING_SLOT_UNAVAILABLE")
                 /\ UNCHANGED bookings
            ELSE /\ bookings' = [bookings EXCEPT ![b] = row]
                 /\ Return(r, calls[r], "OK", b, Shown(calls[r]))
  BY DEF Insert
<1>5. CASE Excluded(bookings, b, row)
  BY <1>1, <1>4, <1>5, RefuseStep DEF Codes
<1>6. CASE ~Excluded(bookings, b, row)
  <2>1. bookings' = [bookings EXCEPT ![b] = row] /\ bookings'[b] = row
    BY <1>4, <1>6 DEF IInv, TypeOK
  <2>2. L!Book(b)
    <3> HIDE DEF row
    <3>1. ~L!Excluded(bookings, b, bookings'[b])
      BY <1>6, <2>1, LedgerVocabulary
    <3>2. bookings' = [bookings EXCEPT ![b] = bookings'[b]]
      BY <2>1
    <3>3. /\ bookings'[b] \in L!Row /\ bookings'[b].status = "CONFIRMED"
          /\ bookings'[b].start < bookings'[b].end
      BY <1>3, <2>1, LedgerVocabulary
    <3>. QED
      BY <1>4, <3>1, <3>2, <3>3 DEF L!Book
  <2>3. L!Next
    BY <2>2 DEF L!Next
  <2> DEFINE shown == Shown(calls[r])
             c == [pc |-> "done", op |-> calls[r].op, code |-> "OK", id |-> b,
                   row |-> shown]
  <2>4. shown \in Slot
    BY <1>1, <1>2 DEF Shown, Slot, Call, CallOK, At, ZoneRead
  <2>5. c \in Reply
    <3> HIDE DEF shown
    <3>. QED
      BY <1>2, <2>4 DEF Call, Reply, Codes
  <2>6. calls' = [calls EXCEPT ![r] = c]
    BY <1>4, <1>6 DEF Return
  <2>7. calls'[r] = c
    BY <2>6 DEF IInv, TypeOK
  <2>8. calls[r].op = "create"
    BY <1>1, <1>2 DEF CallOK, At
  <2>9. ~Running(r)' /\ ReplyOK(r)'
    BY <2>7, <2>8 DEF Running, PCs, ReplyOK, SettleOps
  <2>. QED
    BY <1>1, <2>3, <2>5, <2>6, <2>9, LedgerStepKeeps, InvariantHasLedgerType, WriteStep
<1>. QED
  BY <1>5, <1>6

(***************************************************************************)
(* After its UPDATE a management call goes on to its re-read.              *)
(***************************************************************************)
LEMMA ToReread ==
    ASSUME IInv, NEW r \in Calls, Running(r), calls[r].op # "create",
           Goto(r, [calls[r] EXCEPT !.pc = "reread"]),
           UNCHANGED World,
           L!Next \/ UNCHANGED bookings,
           calls[r].op \in SettleOps => bookings'[calls[r].id].status \in Outcomes
    PROVE  IInv'
<1> DEFINE c == [calls[r] EXCEPT !.pc = "reread"]
<1>1. calls[r] \in Call /\ CallOK(r)
  BY CallType
<1>2. c \in Call /\ c.pc = "reread" /\ c.op = calls[r].op /\ c.id = calls[r].id
      /\ c.row = calls[r].row
  BY <1>1 DEF Call, PCs
<1>3. calls'[r] = c
  BY DEF Goto, IInv, TypeOK
<1>4. calls[r].id \in BookingIds /\ bookings[calls[r].id] # Absent
  BY <1>1 DEF CallOK
<1>5. bookings'[calls[r].id] # Absent
  BY <1>4, LedgerStepKeeps, InvariantHasLedgerType DEF L!Final
<1>6. CallOK(r)' /\ ~At(r, "done")'
  <2> HIDE DEF c
  <2>. QED
    BY <1>1, <1>2, <1>3, <1>4, <1>5 DEF CallOK, At, ZoneRead, DurationRead
<1>. QED
  BY <1>2, <1>6, LedgerStepKeeps, InvariantHasLedgerType, WriteStep DEF Goto

(***************************************************************************)
(* Rescheduling is Move, or nothing.                                       *)
(***************************************************************************)
LEMMA UpdateScheduleStep ==
    ASSUME IInv, NEW r \in Calls, UpdateSchedule(r)
    PROVE  IInv' /\ (L!Next \/ UNCHANGED bookings)
<1>1. Running(r) /\ At(r, "move") /\ UNCHANGED World
  BY DEF UpdateSchedule, At, Running, PCs
<1>2. calls[r] \in Call /\ CallOK(r)
  BY <1>1, CallType
<1> DEFINE b == calls[r].id
           row == [bookings[b] EXCEPT !.start = calls[r].startAt, !.end = calls[r].endAt]
<1>3. /\ calls[r].op = "reschedule" /\ b \in BookingIds /\ bookings[b] # Absent
      /\ calls[r].startAt < calls[r].endAt
      /\ calls[r].startAt \in Int /\ calls[r].endAt \in Int
  BY <1>1, <1>2 DEF CallOK, At, Call
<1>4. bookings[b] \in Row
  BY <1>3 DEF IInv, TypeOK
<1>5. CASE Confirmed(bookings, b) /\ Excluded(bookings, b, row)
  <2>1. Refuse(r, "BOOKING_SLOT_UNAVAILABLE") /\ UNCHANGED bookings
    BY <1>5 DEF UpdateSchedule
  <2>. QED
    BY <1>1, <2>1, RefuseStep DEF Codes
<1>6. CASE ~(Confirmed(bookings, b) /\ Excluded(bookings, b, row))
  <2>1. /\ bookings' = IF Confirmed(bookings, b)
                       THEN [bookings EXCEPT ![b] = row] ELSE bookings
        /\ Goto(r, [calls[r] EXCEPT !.pc = "reread"])
    BY <1>6 DEF UpdateSchedule
  <2>2. ASSUME Confirmed(bookings, b)
        PROVE  L!Next
    <3>1. bookings' = [bookings EXCEPT ![b] = row] /\ bookings'[b] = row
      BY <1>3, <2>1, <2>2 DEF IInv, TypeOK
    <3>2. row \in Row /\ row.start = calls[r].startAt /\ row.end = calls[r].endAt
      BY <1>3, <1>4 DEF Row
    <3>3. row = L!MovedTo(b, row.start, row.end)
      BY <3>2 DEF L!MovedTo
    <3>4. L!Move(b)
      <4> HIDE DEF row, b
      <4>1. ~L!Excluded(bookings, b, bookings'[b]) /\ L!Confirmed(bookings, b)
        BY <1>6, <2>2, <3>1, LedgerVocabulary
      <4>2. bookings' = [bookings EXCEPT ![b] = bookings'[b]]
        BY <3>1
      <4>3. bookings'[b] \in L!Row /\ bookings'[b].start < bookings'[b].end
        BY <1>3, <3>1, <3>2, LedgerVocabulary
      <4>4. bookings'[b] = L!MovedTo(b, bookings'[b].start, bookings'[b].end)
        BY <3>1, <3>3
      <4>. QED
        BY <4>1, <4>2, <4>3, <4>4 DEF L!Move
    <3>. QED
      BY <1>3, <3>4 DEF L!Next
  <2>3. L!Next \/ UNCHANGED bookings
    BY <2>1, <2>2
  <2>. QED
    BY <1>1, <1>3, <2>1, <2>3, ToReread DEF SettleOps
<1>. QED
  BY <1>5, <1>6

(***************************************************************************)
(* Cancel, Complete and MarkNoShow are Settle, or nothing; either way the  *)
(* booking is settled afterwards.                                          *)
(***************************************************************************)
LEMMA UpdateStatusStep ==
    ASSUME IInv, NEW r \in Calls, UpdateStatus(r)
    PROVE  IInv' /\ (L!Next \/ UNCHANGED bookings)
<1>1. Running(r) /\ At(r, "settle") /\ UNCHANGED World
  BY DEF UpdateStatus, At, Running, PCs
<1>2. calls[r] \in Call /\ CallOK(r)
  BY <1>1, CallType
<1> DEFINE b == calls[r].id
<1>3. calls[r].op \in SettleOps /\ b \in BookingIds /\ bookings[b] # Absent
  BY <1>1, <1>2 DEF CallOK, At, SettleOps
<1>4. bookings[b] \in Row /\ Outcome(calls[r].op) \in Outcomes
  BY <1>3 DEF IInv, TypeOK, SettleOps, Outcome, Outcomes, Statuses
<1>5. /\ bookings' = IF Confirmed(bookings, b)
                     THEN [bookings EXCEPT ![b].status = Outcome(calls[r].op)]
                     ELSE bookings
      /\ Goto(r, [calls[r] EXCEPT !.pc = "reread"])
  BY DEF UpdateStatus
<1>6. (L!Next \/ UNCHANGED bookings) /\ bookings'[b].status \in Outcomes
  <2>1. CASE Confirmed(bookings, b)
    <3>1. bookings' = [bookings EXCEPT ![b].status = Outcome(calls[r].op)]
      BY <1>5, <2>1
    <3>2. L!Settle(b)
      BY <1>4, <2>1, <3>1, LedgerVocabulary DEF L!Settle
    <3>3. bookings'[b].status = Outcome(calls[r].op)
      BY <1>3, <1>4, <3>1 DEF IInv, TypeOK, Row
    <3>. QED
      BY <1>3, <1>4, <3>2, <3>3 DEF L!Next
  <2>2. CASE ~Confirmed(bookings, b)
    BY <1>3, <1>4, <1>5, <2>2 DEF Confirmed, Row, Outcomes
  <2>. QED
    BY <2>1, <2>2
<1>7. calls[r].op # "create"
  BY <1>3 DEF SettleOps
<1>. QED
  BY <1>1, <1>3, <1>5, <1>6, <1>7, ToReread

(***************************************************************************)
(* The owner's edits and the clock.  An edit marks the calls that go by    *)
(* what is edited; it changes nothing else about them.                     *)
(***************************************************************************)
Marked(r) ==
    \/ calls'[r] = calls[r]
    \/ /\ Running(r)
       /\ \E what \in {"zone", "duration", "hours"} :
              calls'[r] = [calls[r] EXCEPT !.edited = @ \cup {what}]

LEMMA OutdatedMarks ==
    ASSUME IInv, NEW what \in {"zone", "duration", "hours"}, NEW S,
           \A r \in S : r \in Calls => Running(r),
           calls' = Outdated(what, S)
    PROVE  /\ calls' \in [Calls -> Call \cup Reply \cup {Idle}]
           /\ \A r \in Calls : Marked(r)
<1>1. ASSUME NEW r \in Calls
      PROVE  Marked(r) /\ calls'[r] \in Call \cup Reply \cup {Idle}
  <2>1. CASE r \in S
    <3>1. calls[r] \in Call
      BY <2>1, CallType
    <3>2. calls'[r] = [calls[r] EXCEPT !.edited = @ \cup {what}]
      BY <2>1 DEF Outdated
    <3>. QED
      BY <2>1, <3>1, <3>2 DEF Marked, Call
  <2>2. CASE r \notin S
    BY <2>2 DEF Outdated, Marked, IInv, TypeOK
  <2>. QED
    BY <2>1, <2>2
<1>. QED
  BY <1>1 DEF Outdated

\* A call that is marked is otherwise the same.
LEMMA MarkedIsSame ==
    ASSUME IInv, NEW r \in Calls, Marked(r)
    PROVE  /\ calls'[r].pc = calls[r].pc
           /\ Running(r) => /\ calls'[r].op = calls[r].op
                            /\ calls'[r].id = calls[r].id
                            /\ calls'[r].service = calls[r].service
                            /\ calls'[r].staff = calls[r].staff
                            /\ calls'[r].start = calls[r].start
                            /\ calls'[r].slotEnd = calls[r].slotEnd
                            /\ calls'[r].zone = calls[r].zone
                            /\ calls'[r].startAt = calls[r].startAt
                            /\ calls'[r].endAt = calls[r].endAt
                            /\ calls'[r].hours = calls[r].hours
                            /\ calls'[r].row = calls[r].row
                            /\ calls[r].edited \subseteq calls'[r].edited
           /\ ~Running(r) => calls'[r] = calls[r]
<1>1. CASE calls'[r] = calls[r]
  BY <1>1
<1>2. CASE Running(r) /\ \E what \in {"zone", "duration", "hours"} :
                             calls'[r] = [calls[r] EXCEPT !.edited = @ \cup {what}]
  <2>1. calls[r] \in Call
    BY <1>2, CallType
  <2>. QED
    BY <1>2, <2>1 DEF Call
<1>. QED
  BY <1>1, <1>2 DEF Marked

\* The calls each kind of edit may mark are running.
LEMMA ReadersRun ==
    ASSUME NEW r \in Calls, calls[r].pc \in ZoneRead \cup DurationRead \cup HoursRead
    PROVE  Running(r)
BY DEF Running, PCs, ZoneRead, DurationRead, HoursRead, Picked

LEMMA DurationMarks ==
    ASSUME IInv, NEW sv, NEW d, EditDuration(sv, d)
    PROVE  /\ calls' \in [Calls -> Call \cup Reply \cup {Idle}]
           /\ \A r \in Calls : Marked(r)
BY ReadersRun, OutdatedMarks DEF EditDuration

LEMMA HoursMarks ==
    ASSUME IInv, NEW st, NEW hours, ReplaceWeeklySchedule(st, hours)
    PROVE  /\ calls' \in [Calls -> Call \cup Reply \cup {Idle}]
           /\ \A r \in Calls : Marked(r)
BY ReadersRun, OutdatedMarks DEF ReplaceWeeklySchedule

LEMMA ZoneMarks ==
    ASSUME IInv, NEW z, EditZone(z)
    PROVE  /\ calls' \in [Calls -> Call \cup Reply \cup {Idle}]
           /\ \A r \in Calls : Marked(r)
BY ReadersRun, OutdatedMarks DEF EditZone

LEMMA WorldMarks ==
    ASSUME IInv, Edit \/ Tick
    PROVE  /\ calls' \in [Calls -> Call \cup Reply \cup {Idle}]
           /\ \A r \in Calls : Marked(r)
<1>1. ASSUME UNCHANGED calls
      PROVE  /\ calls' \in [Calls -> Call \cup Reply \cup {Idle}]
             /\ \A r \in Calls : Marked(r)
  BY <1>1 DEF Marked, IInv, TypeOK
<1>. QED
  BY <1>1, DurationMarks, HoursMarks, ZoneMarks
  DEF Edit, Tick, ArchiveService, ArchiveStaff, SetBookable, ReplaceCapabilities

LEMMA WorldStep ==
    ASSUME IInv, Edit \/ Tick
    PROVE  IInv' /\ UNCHANGED bookings
<1>1. UNCHANGED bookings
  BY DEF Edit, Tick, ArchiveService, EditDuration, EditStaff, ArchiveStaff,
         SetBookable, ReplaceCapabilities, ReplaceWeeklySchedule, EditZone
<1>2. catalog' \in [Services -> ServiceState]
  <2>1. ASSUME NEW sv \in Services, NEW d \in Durations, EditDuration(sv, d)
        PROVE  catalog' \in [Services -> ServiceState]
    BY <2>1 DEF EditDuration, IInv, TypeOK, ServiceState
  <2>2. ASSUME NEW sv \in Services, ArchiveService(sv)
        PROVE  catalog' \in [Services -> ServiceState]
    BY <2>2 DEF ArchiveService, IInv, TypeOK, ServiceState
  <2>3. ASSUME UNCHANGED catalog
        PROVE  catalog' \in [Services -> ServiceState]
    BY <2>3 DEF IInv, TypeOK
  <2>. QED
    BY <2>1, <2>2, <2>3
    DEF Edit, Tick, EditStaff, ArchiveStaff, SetBookable, ReplaceCapabilities,
        ReplaceWeeklySchedule, EditZone
<1>3. roster' \in [Staff -> StaffState]
  <2>1. ASSUME NEW st \in Staff, NEW s \in StaffState, EditStaff(st, s)
        PROVE  roster' \in [Staff -> StaffState]
    BY <2>1 DEF EditStaff, IInv, TypeOK
  <2>2. ASSUME NEW st \in Staff
        PROVE  /\ [roster[st] EXCEPT !.status = "ARCHIVED"] \in StaffState
               /\ \A yes \in BOOLEAN : [roster[st] EXCEPT !.bookable = yes] \in StaffState
               /\ \A services \in SUBSET Services :
                      [roster[st] EXCEPT !.services = services] \in StaffState
               /\ \A hours \in Schedules :
                      [roster[st] EXCEPT !.hours = hours] \in StaffState
    BY DEF IInv, TypeOK, StaffState
  <2>3. ASSUME UNCHANGED roster
        PROVE  roster' \in [Staff -> StaffState]
    BY <2>3 DEF IInv, TypeOK
  <2>. QED
    BY <2>1, <2>2, <2>3
    DEF Edit, Tick, EditDuration, ArchiveService, ArchiveStaff, SetBookable,
        ReplaceCapabilities, ReplaceWeeklySchedule, EditZone
<1>4. now' \in Time /\ now <= now'
  <2>1. UNCHANGED now \/ Tick
    BY DEF Edit, ArchiveService, EditDuration, EditStaff, ArchiveStaff,
           SetBookable, ReplaceCapabilities, ReplaceWeeklySchedule, EditZone
  <2>. QED
    BY <2>1, MaxTimeIsNat DEF Tick, IInv, TypeOK, Time
<1>5. zone' \in Zones
  BY DEF Edit, Tick, ArchiveService, EditDuration, EditStaff, ArchiveStaff,
         SetBookable, ReplaceCapabilities, ReplaceWeeklySchedule, EditZone,
         IInv, TypeOK
<1>6. ASSUME NEW r \in Calls
      PROVE  (Running(r) => CallOK(r))' /\ (At(r, "done") => ReplyOK(r))'
  <2>1. Running(r) /\ calls[r].pc = "settle" /\ calls[r].op # "cancel" =>
           calls[r].row \in Row
    BY CallType DEF CallOK, SettleOps, Call
  <2>2. Running(r) /\ calls[r].pc = "settle" /\ calls[r].op # "cancel" =>
           calls[r].row.end <= now'
    BY <1>4, <2>1, MaxTimeIsNat DEF IInv, TypeOK, CallOK, Row, Time
  <2>3. Marked(r)
    BY WorldMarks
  <2>4. CASE Running(r)
    BY <1>1, <2>2, <2>3, <2>4, MarkedIsSame DEF IInv, Running, At, CallOK, PCs
  <2>5. CASE ~Running(r)
    BY <1>1, <2>3, <2>5, MarkedIsSame DEF IInv, Running, At, ReplyOK
  <2>. QED
    BY <2>4, <2>5
<1>. QED
  BY <1>1, <1>2, <1>3, <1>4, <1>5, <1>6, WorldMarks DEF IInv, TypeOK

-----------------------------------------------------------------------------
LEMMA InitInv == Init => IInv
<1> SUFFICES ASSUME Init
             PROVE  IInv
  OBVIOUS
<1>1. \A r \in Calls : calls[r] = Idle
  BY DEF Init
<1>2. TypeOK
  <2>1. bookings \in [BookingIds -> Row \cup {Absent}]
    BY DEF Init
  <2>2. catalog \in [Services -> ServiceState]
    BY DEF Init, ServiceState
  <2>3. roster \in [Staff -> StaffState]
    <3>1. PICK R : /\ R = [status : {"ACTIVE"}, bookable : {TRUE},
                           services : {Services}, hours : Schedules]
                   /\ roster \in [Staff -> R]
      BY DEF Init
    <3>2. R \subseteq StaffState
      BY <3>1 DEF StaffState
    <3>. QED
      BY <3>1, <3>2
  <2>4. now \in Time
    BY MaxTimeIsNat DEF Init, Time
  <2>5. calls \in [Calls -> Call \cup Reply \cup {Idle}]
    BY DEF Init
  <2>6. zone \in Zones
    BY DEF Init
  <2>. QED
    BY <2>1, <2>2, <2>3, <2>4, <2>5, <2>6 DEF TypeOK
<1>. QED
  BY <1>1, <1>2 DEF Init, IInv, Running, At, Idle, PCs

\* Every step keeps the inductive invariant, and is a ledger step or leaves
\* the table alone.
LEMMA EveryStep ==
    ASSUME IInv, [Next]_vars
    PROVE  IInv' /\ (L!Next \/ UNCHANGED bookings)
<1>1. ASSUME NEW r \in Calls, Start(r)
      PROVE  IInv' /\ UNCHANGED bookings
  BY <1>1, StartSteps
  DEF Start, PostBooking, PostReschedule, PostCancel, PostComplete, PostNoShow,
      CallCreate, CallReschedule, CallCancel, CallOutcome, NotFound
<1>2. ASSUME NEW r \in Calls, Step(r)
      PROVE  IInv' /\ (L!Next \/ UNCHANGED bookings)
  <2>1. CASE CheckEnded(r)
    BY <2>1, CheckEndedStep DEF CheckEnded
  <2>2. CASE ReadService(r)
    BY <2>2, ReadServiceStep DEF ReadService
  <2>3. CASE ReadStaff(r)
    BY <2>3, ReadStaffStep DEF ReadStaff
  <2>4. CASE ReadCapabilities(r)
    BY <2>4, ReadCapabilitiesStep DEF ReadCapabilities
  <2>5. CASE ReadHours(r)
    BY <2>5, ReadHoursStep DEF ReadHours
  <2>6. CASE PickSlot(r)
    BY <2>6, PickSlotStep DEF PickSlot
  <2>7. CASE DeriveEnd(r)
    BY <2>7, DeriveEndStep DEF DeriveEnd
  <2>8. CASE Insert(r)
    BY <2>8, InsertStep
  <2>9. CASE UpdateSchedule(r)
    BY <2>9, UpdateScheduleStep
  <2>10. CASE UpdateStatus(r)
    BY <2>10, UpdateStatusStep
  <2>11. CASE Reread(r)
    BY <2>11, RereadStep DEF Reread
  <2>12. CASE Abort(r)
    BY <2>12, AbortStep DEF Abort
  <2>13. CASE ReadTenant(r)
    BY <2>13, ReadTenantStep DEF ReadTenant
  <2>. QED
    BY <1>2, <2>1, <2>2, <2>3, <2>4, <2>5, <2>6, <2>7, <2>8, <2>9, <2>10,
       <2>11, <2>12, <2>13 DEF Step
<1>3. CASE Edit \/ Tick
  BY <1>3, WorldStep
<1>4. CASE UNCHANGED vars
  BY <1>4 DEF vars, IInv, TypeOK, Running, At, CallOK, ReplyOK
<1>. QED
  BY <1>1, <1>2, <1>3, <1>4 DEF Next

(***************************************************************************)
(* The inductive invariant: types, existing bookings behind every          *)
(* management call, non-empty intervals, settled bookings behind every     *)
(* successful status write.                                                *)
(***************************************************************************)
THEOREM BookingsInvariant == Spec => []IInv
<1>1. IInv /\ [Next]_vars => IInv'
  BY EveryStep
<1>. QED
  BY InitInv, <1>1, PTL DEF Spec

(***************************************************************************)
(* Every interleaving of the handlers looks, to the bookings table, like   *)
(* atomic bookings, moves and settlements.                                 *)
(***************************************************************************)
THEOREM BookingsImplementLedger == Spec => ImplementsLedger
<1>1. Init => L!Init
  BY DEF Init, L!Init
<1>2. IInv /\ [Next]_vars => [L!Next]_bookings
  BY EveryStep
<1>. QED
  BY <1>1, <1>2, BookingsInvariant, PTL DEF Spec, ImplementsLedger, L!Spec

(***************************************************************************)
(* Whatever implements the ledger keeps its type: every entry is a row     *)
(* with a non-empty interval, whatever is booked, moved or settled.        *)
(***************************************************************************)
THEOREM LedgerType == ImplementsLedger => []L!TypeOK
<1>1. L!Init => L!TypeOK
  BY LedgerTypeMeans DEF L!Init
<1>2. L!TypeOK /\ [L!Next]_bookings => L!TypeOK'
  BY LedgerStepKeeps, LedgerTypeMeans, LedgerVocabulary DEF L!TypeOK
<1>. QED
  BY <1>1, <1>2, PTL DEF ImplementsLedger, L!Spec

(***************************************************************************)
(* Writing, at b, a row that the exclusion constraint accepts keeps the    *)
(* table free of overlaps.                                                 *)
(***************************************************************************)
LEMMA AcceptedWrite ==
    ASSUME L!TypeOK, NoDoubleBooking, NEW b \in BookingIds,
           ~L!Excluded(bookings, b, bookings'[b]),
           bookings' = [bookings EXCEPT ![b] = bookings'[b]]
    PROVE  NoDoubleBooking'
<1>1. SUFFICES ASSUME NEW c \in BookingIds, NEW d \in BookingIds, c # d,
                      Confirmed(bookings', c), Confirmed(bookings', d)
               PROVE  ~Clash(bookings'[c], bookings'[d])
  BY LedgerVocabulary DEF NoDoubleBooking, L!NoDoubleBooking
<1>2. \A e \in BookingIds \ {b} : bookings'[e] = bookings[e]
  BY LedgerTypeMeans
<1>3. \A e \in BookingIds \ {b} :
         Confirmed(bookings', e) => ~Clash(bookings'[b], bookings'[e])
  BY <1>2, LedgerVocabulary DEF Excluded, Confirmed
<1>4. CASE c # b /\ d # b
  BY <1>1, <1>2, <1>4, LedgerVocabulary
  DEF NoDoubleBooking, L!NoDoubleBooking, Confirmed
<1>5. CASE c = b \/ d = b
  BY <1>1, <1>3, <1>5 DEF Clash
<1>. QED
  BY <1>4, <1>5

(***************************************************************************)
(* No technician is promised to two customers at once: the conclusion the  *)
(* code draws from bookings_no_overlap, for every history of the ledger.   *)
(***************************************************************************)
THEOREM LedgerExclusion == ImplementsLedger => []NoDoubleBooking
<1>1. L!Init => NoDoubleBooking
  BY LedgerVocabulary DEF L!Init, NoDoubleBooking, L!NoDoubleBooking, Confirmed
<1>2. ASSUME L!TypeOK, NoDoubleBooking, [L!Next]_bookings
      PROVE  NoDoubleBooking'
  <2>1. ASSUME NEW b \in BookingIds, L!Book(b)
        PROVE  NoDoubleBooking'
    BY <1>2, <2>1, AcceptedWrite DEF L!Book
  <2>2. ASSUME NEW b \in BookingIds, L!Move(b)
        PROVE  NoDoubleBooking'
    BY <1>2, <2>2, AcceptedWrite DEF L!Move
  <2>3. ASSUME NEW b \in BookingIds, L!Settle(b)
        PROVE  NoDoubleBooking'
    <3>1. PICK o \in Outcomes : bookings' = [bookings EXCEPT ![b].status = o]
      BY <2>3, LedgerVocabulary DEF L!Settle
    <3>2. bookings[b] \in Row
      BY <1>2, <2>3, LedgerVocabulary, LedgerTypeMeans DEF L!Settle, Confirmed
    <3>3. ~Confirmed(bookings', b)
      BY <1>2, <3>1, <3>2, LedgerTypeMeans DEF Row, Confirmed, Outcomes
    <3>4. \A c \in BookingIds \ {b} : bookings'[c] = bookings[c]
      BY <1>2, <3>1, LedgerTypeMeans
    <3>. QED
      BY <1>2, <3>3, <3>4, LedgerVocabulary
      DEF NoDoubleBooking, L!NoDoubleBooking, Confirmed
  <2>4. CASE UNCHANGED bookings
    BY <1>2, <2>4 DEF NoDoubleBooking, L!NoDoubleBooking
  <2>. QED
    BY <1>2, <2>1, <2>2, <2>3, <2>4 DEF L!Next
<1>. QED
  BY <1>1, <1>2, LedgerType, PTL DEF ImplementsLedger, L!Spec

(***************************************************************************)
(* A settled entry is final, and an entry keeps its service and            *)
(* technician: booking history is never rewritten.                         *)
(***************************************************************************)
THEOREM LedgerFinality == ImplementsLedger => SettledIsFinal
<1>1. L!TypeOK /\ [L!Next]_bookings => [\A b \in BookingIds : L!Final(b)]_bookings
  BY LedgerStepKeeps
<1>. QED
  BY <1>1, LedgerType, PTL
  DEF ImplementsLedger, L!Spec, SettledIsFinal, L!SettledIsFinal

(***************************************************************************)
(* No technician is double-booked, however the availability pre-checks     *)
(* race with each other and with the writes.                               *)
(***************************************************************************)
THEOREM BookingsExclusion == Spec => []NoDoubleBooking
BY BookingsImplementLedger, LedgerExclusion

(***************************************************************************)
(* A settled booking is never written again, whichever handler read it     *)
(* while it was CONFIRMED.                                                 *)
(***************************************************************************)
THEOREM BookingsFinality == Spec => SettledIsFinal
BY BookingsImplementLedger, LedgerFinality

(***************************************************************************)
(* A caller told that its cancel, complete or no-show succeeded has seen   *)
(* the booking as it will stay.                                            *)
(***************************************************************************)
THEOREM SettledRepliesAreLast == Spec => []SettleReplyIsLast
<1>1. IInv => SettleReplyIsLast
  BY DEF IInv, ReplyOK, SettleReplyIsLast, Succeeded
<1>. QED
  BY <1>1, BookingsInvariant, PTL

\* b, confirmed and not over yet, gets its outcome.
Early(b) == /\ Confirmed(bookings, b) /\ now < bookings[b].end
            /\ bookings'[b].status \in {"COMPLETED", "NO_SHOW"}

\* A call about to settle b has read another end.
Moved(b) == \E r \in Calls : /\ At(r, "settle") /\ calls[r].id = b
                             /\ calls[r].row.end # bookings[b].end

(***************************************************************************)
(* Three statements write to the table.                                    *)
(***************************************************************************)
LEMMA Writers ==
    ASSUME IInv, [Next]_vars, bookings' # bookings
    PROVE  \E r \in Calls : Insert(r) \/ UpdateSchedule(r) \/ UpdateStatus(r)
<1>1. PICK r \in Calls : Start(r) \/ Step(r)
  BY WorldStep DEF Next, vars
<1>2. ~Start(r)
  BY DEF Start, PostBooking, PostReschedule, PostCancel, PostComplete, PostNoShow,
         CallCreate, CallReschedule, CallCancel, CallOutcome, NotFound
<1>. QED
  BY <1>1, <1>2
  DEF Step, CheckEnded, ReadTenant, ReadService, ReadStaff, ReadCapabilities, ReadHours,
      PickSlot, DeriveEnd, Reread, Abort

(***************************************************************************)
(* The only step that can settle an appointment early is one whose call    *)
(* has read another end.                                                   *)
(***************************************************************************)
LEMMA EarlyIsMoved ==
    ASSUME IInv, [Next]_vars, NEW b \in BookingIds, Early(b)
    PROVE  Moved(b)
<1>1. bookings[b] \in Row /\ bookings[b].status = "CONFIRMED"
  BY DEF Early, IInv, TypeOK, Confirmed
<1>2. /\ bookings' # bookings /\ now < bookings[b].end
      /\ bookings'[b].status \in {"COMPLETED", "NO_SHOW"}
  BY <1>1 DEF Early
<1>3. PICK r \in Calls : Insert(r) \/ UpdateSchedule(r) \/ UpdateStatus(r)
  BY <1>2, Writers
<1>4. ~Insert(r) /\ ~UpdateSchedule(r)
  <2>1. ~Insert(r)
    BY <1>1, <1>2 DEF Insert, NewRow, IInv, TypeOK, Confirmed
  <2>2. ASSUME UpdateSchedule(r)
        PROVE  bookings'[b].status = "CONFIRMED"
    <3> DEFINE c == calls[r].id
               row == [bookings[c] EXCEPT !.start = calls[r].startAt, !.end = calls[r].endAt]
    <3>1. bookings' = bookings \/ bookings' = [bookings EXCEPT ![c] = row]
      BY <2>2 DEF UpdateSchedule
    <3>2. CASE c = b
      <4>1. row.status = "CONFIRMED"
        BY <1>1, <3>2 DEF Row
      <4>. HIDE DEF row
      <4>. QED
        BY <1>1, <3>1, <3>2, <4>1 DEF IInv, TypeOK
    <3>3. CASE c # b
      <4>. HIDE DEF row, c
      <4>. QED
        BY <1>1, <3>1, <3>3 DEF IInv, TypeOK
    <3>. QED
      BY <3>2, <3>3
  <2>. QED
    BY <1>2, <2>1, <2>2
<1>5. UpdateStatus(r) /\ At(r, "settle")
  BY <1>3, <1>4 DEF UpdateStatus
<1>6. calls[r].id = b /\ Outcome(calls[r].op) \in {"COMPLETED", "NO_SHOW"}
  BY <1>1, <1>2, <1>5 DEF UpdateStatus, IInv, TypeOK, Row
<1>7. calls[r] \in Call /\ CallOK(r)
  BY <1>5, CallType DEF At, Running, PCs
<1>8. calls[r].row.end <= now
  BY <1>5, <1>6, <1>7 DEF CallOK, At, Outcome, SettleOps
<1>. QED
  BY <1>1, <1>2, <1>5, <1>6, <1>8, MaxTimeIsNat DEF Moved, IInv, TypeOK, Row, Time

(***************************************************************************)
(* An appointment that gets its outcome before its end has been moved      *)
(* since the handler read it.                                              *)
(***************************************************************************)
THEOREM EarlyOutcomesWereMoved == Spec => EarlyOnlyByMove
<1>1. IInv /\ [Next]_vars =>
        [\A b \in BookingIds :
            /\ Confirmed(bookings, b) /\ now < bookings[b].end
            /\ bookings'[b].status \in {"COMPLETED", "NO_SHOW"}
            => \E r \in Calls : At(r, "settle") /\ calls[r].id = b
                               /\ calls[r].row.end # bookings[b].end]_vars
  BY EarlyIsMoved DEF Early, Moved
<1>. QED
  BY <1>1, BookingsInvariant, PTL DEF Spec, EarlyOnlyByMove

(***************************************************************************)
(* Where nothing is rescheduled an appointment keeps its end.              *)
(***************************************************************************)
LEMMA EndsStay ==
    ASSUME IInv, [Next]_vars, "reschedule" \notin Operations,
           NEW b \in BookingIds, bookings[b] # Absent
    PROVE  bookings'[b].end = bookings[b].end
<1>1. CASE bookings' = bookings
  BY <1>1
<1>2. CASE bookings' # bookings
  <2>1. PICK r \in Calls : Insert(r) \/ UpdateSchedule(r) \/ UpdateStatus(r)
    BY <1>2, Writers
  <2>2. CASE Insert(r)
    BY <1>2, <2>2 DEF Insert, IInv, TypeOK
  <2>3. ~UpdateSchedule(r)
    <3>1. ASSUME At(r, "move") PROVE FALSE
      <4>1. calls[r] \in Call /\ CallOK(r)
        BY <3>1, CallType DEF At, Running, PCs
      <4>. QED
        BY <3>1, <4>1 DEF CallOK, At, Call
    <3>. QED
      BY <3>1 DEF UpdateSchedule
  <2>4. CASE UpdateStatus(r)
    <3>1. PICK c \in BookingIds : bookings' = [bookings EXCEPT ![c].status = Outcome(calls[r].op)]
      <4>1. calls[r].id \in BookingIds
        <5>1. At(r, "settle")
          BY <2>4 DEF UpdateStatus
        <5>2. CallOK(r)
          BY <5>1, CallType DEF At, Running, PCs
        <5>. QED
          BY <5>1, <5>2 DEF CallOK, At, SettleOps
      <4>. QED
        BY <1>2, <2>4, <4>1 DEF UpdateStatus
    <3>2. bookings[b] \in Row
      BY DEF IInv, TypeOK
    <3>. QED
      BY <3>1, <3>2 DEF IInv, TypeOK, Row
  <2>. QED
    BY <2>1, <2>2, <2>3, <2>4
<1>. QED
  BY <1>1, <1>2

\* A management call goes on with the booking it has read, or has just read it.
KeepsBooking(r) ==
    (Running(r) /\ calls[r].op # "create")' =>
        \/ /\ Running(r)
           /\ calls'[r].op = calls[r].op
           /\ calls'[r].id = calls[r].id
           /\ calls'[r].row = calls[r].row
        \/ /\ bookings' = bookings
           /\ calls'[r].row = bookings[calls'[r].id]

LEMMA GoingOn ==
    ASSUME IInv, NEW r \in Calls, Running(r), NEW c, Goto(r, c),
           c.op = calls[r].op, c.id = calls[r].id, c.row = calls[r].row
    PROVE  KeepsBooking(r)
<1>1. calls'[r] = c
  BY DEF Goto, IInv, TypeOK
<1>. QED
  BY <1>1 DEF KeepsBooking

LEMMA Answered ==
    ASSUME IInv, NEW r \in Calls, NEW call, NEW code, NEW id, NEW row,
           Return(r, call, code, id, row)
    PROVE  KeepsBooking(r)
<1>1. calls'[r].pc = "done"
  BY DEF Return, IInv, TypeOK
<1>. QED
  BY <1>1 DEF KeepsBooking, Running, PCs

LEMMA Refused ==
    ASSUME IInv, NEW r \in Calls, NEW code, Refuse(r, code)
    PROVE  KeepsBooking(r)
BY Answered DEF Refuse

(***************************************************************************)
(* A request's first read, and everything it does afterwards.              *)
(***************************************************************************)
LEMMA StartsKeepBooking ==
    ASSUME IInv, NEW r \in Calls, Start(r)
    PROVE  KeepsBooking(r)
<1>1. ASSUME NEW b \in BookingIds, NEW op, NEW s, NEW pc, bookings' = bookings,
             Goto(r, Found(b, op, s, pc))
      PROVE  KeepsBooking(r)
  <2>1. calls'[r] = Found(b, op, s, pc)
    BY <1>1 DEF Goto, IInv, TypeOK
  <2>. QED
    BY <1>1, <2>1 DEF KeepsBooking, Found
<1>2. CASE CallCreate(r)
  <2>1. calls'[r].op = "create"
    BY <1>2 DEF CallCreate, Goto, IInv, TypeOK
  <2>. QED
    BY <2>1 DEF KeepsBooking
<1>3. ASSUME NEW op, NEW b \in BookingIds, NotFound(r, op, b)
      PROVE  KeepsBooking(r)
  BY <1>3, Answered DEF NotFound
<1>4. ASSUME NEW b \in BookingIds, CallReschedule(r, b)
      PROVE  KeepsBooking(r)
  BY <1>1, <1>4, Answered DEF CallReschedule
<1>5. ASSUME NEW b \in BookingIds, CallCancel(r, b)
      PROVE  KeepsBooking(r)
  BY <1>1, <1>5, Answered DEF CallCancel
<1>6. ASSUME NEW b \in BookingIds, NEW op, CallOutcome(r, op, b)
      PROVE  KeepsBooking(r)
  BY <1>1, <1>6, Answered DEF CallOutcome
<1>. QED
  BY <1>2, <1>3, <1>4, <1>5, <1>6
  DEF Start, PostBooking, PostReschedule, PostCancel, PostComplete, PostNoShow

LEMMA StepsKeepBooking ==
    ASSUME IInv, NEW r \in Calls, Step(r)
    PROVE  KeepsBooking(r)
<1>1. Running(r)
  BY DEF Step, CheckEnded, ReadTenant, ReadService, ReadStaff, ReadCapabilities, ReadHours, PickSlot,
         DeriveEnd, Insert, UpdateSchedule, UpdateStatus, Reread, Abort, At, Running, PCs
<1>2. calls[r] \in Call
  BY <1>1, CallType
<1>3. CASE CheckEnded(r)
  BY <1>1, <1>2, <1>3, GoingOn, Refused DEF CheckEnded, Call
<1>4. CASE ReadTenant(r) \/ ReadService(r)
  BY <1>1, <1>2, <1>4, GoingOn, Refused DEF ReadTenant, ReadService, Call
<1>5. CASE ReadStaff(r)
  BY <1>1, <1>2, <1>5, GoingOn, Refused DEF ReadStaff, Call
<1>6. CASE ReadCapabilities(r)
  BY <1>1, <1>2, <1>6, GoingOn, Refused DEF ReadCapabilities, Call
<1>7. CASE ReadHours(r)
  BY <1>1, <1>2, <1>7, GoingOn, Refused DEF ReadHours, Call
<1>8. CASE PickSlot(r)
  BY <1>1, <1>2, <1>8, GoingOn, Refused DEF PickSlot, Call
<1>9. CASE DeriveEnd(r)
  <2> DEFINE call == [calls[r] EXCEPT !.startAt = StartInstant(calls[r]),
                                      !.endAt = DerivedEnd(calls[r])]
  <2>1. call.op = calls[r].op /\ call.id = calls[r].id /\ call.row = calls[r].row
    BY <1>2 DEF Call
  <2>2. \A pc : LET c == [call EXCEPT !.pc = pc] IN
           c.op = calls[r].op /\ c.id = calls[r].id /\ c.row = calls[r].row
    BY <1>2 DEF Call
  <2>3. \/ Goto(r, [call EXCEPT !.pc = "insert"]) \/ Goto(r, [call EXCEPT !.pc = "move"])
        \/ Return(r, call, "OK", call.id, call.row)
    BY <1>9 DEF DeriveEnd
  <2> HIDE DEF call
  <2>. QED
    BY <1>1, <2>2, <2>3, GoingOn, Answered
<1>10. CASE Insert(r)
  BY <1>10, Answered, Refused DEF Insert
<1>11. CASE UpdateSchedule(r)
  BY <1>1, <1>2, <1>11, GoingOn, Refused DEF UpdateSchedule, Call
<1>12. CASE UpdateStatus(r)
  BY <1>1, <1>2, <1>12, GoingOn DEF UpdateStatus, Call
<1>13. CASE Reread(r)
  BY <1>13, Answered DEF Reread
<1>14. CASE Abort(r)
  <2>1. calls'[r] = Idle
    BY <1>14 DEF Abort, IInv, TypeOK
  <2>. QED
    BY <2>1 DEF KeepsBooking, Running, PCs, Idle
<1>. QED
  BY <1>3, <1>4, <1>5, <1>6, <1>7, <1>8, <1>9, <1>10, <1>11, <1>12, <1>13, <1>14 DEF Step

(***************************************************************************)
(* A step of one request is no step of another.                            *)
(***************************************************************************)
LEMMA OthersStay ==
    ASSUME IInv, NEW r \in Calls, Start(r) \/ Step(r), NEW q \in Calls \ {r}
    PROVE  calls'[q] = calls[q]
<1>1. \E c : calls' = [calls EXCEPT ![r] = c]
  <2>1. CASE Start(r)
    BY <2>1 DEF Start, PostBooking, PostReschedule, PostCancel, PostComplete, PostNoShow,
                CallCreate, CallReschedule, CallCancel, CallOutcome, NotFound, Goto, Return
  <2>2. CASE Step(r)
    BY <2>2 DEF Step, CheckEnded, ReadTenant, ReadService, ReadStaff, ReadCapabilities, ReadHours,
                PickSlot, DeriveEnd, Insert, UpdateSchedule, UpdateStatus, Reread, Abort,
                Goto, Return, Refuse
  <2>. QED
    BY <2>1, <2>2
<1>. QED
  BY <1>1 DEF IInv, TypeOK

LEMMA RequestsKeepEnds ==
    ASSUME IInv, OutcomesInv, "reschedule" \notin Operations, [Next]_vars,
           NEW r \in Calls, Running(r)'
    PROVE  EndHolds(r)'
<1>1. SUFFICES ASSUME calls'[r].op # "create"
               PROVE  bookings'[calls'[r].id].end = calls'[r].row.end
  BY DEF EndHolds
<1>2. ASSUME Running(r), calls'[r].op = calls[r].op, calls'[r].id = calls[r].id,
             calls'[r].row = calls[r].row
      PROVE  bookings'[calls'[r].id].end = calls'[r].row.end
  <2>1. calls[r].id \in BookingIds /\ bookings[calls[r].id] # Absent
    BY <1>1, <1>2, CallType DEF CallOK
  <2>2. bookings[calls[r].id].end = calls[r].row.end
    BY <1>1, <1>2 DEF OutcomesInv, EndHolds
  <2>. QED
    BY <1>2, <2>1, <2>2, EndsStay
<1>3. KeepsBooking(r) => bookings'[calls'[r].id].end = calls'[r].row.end
  BY <1>1, <1>2 DEF KeepsBooking
<1>4. CASE calls'[r] = calls[r]
  BY <1>2, <1>4 DEF Running
<1>5. CASE calls'[r] # calls[r]
  <2>1. CASE Edit \/ Tick
    <3>1. Marked(r)
      BY <2>1, WorldMarks
    <3>2. Running(r)
      BY <3>1, MarkedIsSame DEF Running
    <3>. QED
      BY <1>2, <3>1, <3>2, MarkedIsSame
  <2>2. CASE \E q \in Calls : Start(q) \/ Step(q)
    <3>1. Start(r) \/ Step(r)
      BY <1>5, <2>2, OthersStay
    <3>. QED
      BY <1>3, <3>1, StartsKeepBooking, StepsKeepBooking
  <2>. QED
    BY <1>5, <2>1, <2>2 DEF Next, vars
<1>. QED
  BY <1>4, <1>5

LEMMA ClockMoves ==
    ASSUME [Next]_vars
    PROVE  now' = now \/ now' = now + 1
<1>1. ASSUME NEW r \in Calls, Start(r)
      PROVE  now' = now
  BY <1>1 DEF World, Start, PostBooking, PostReschedule, PostCancel, PostComplete,
              PostNoShow, CallCreate, CallReschedule, CallCancel, CallOutcome, NotFound
<1>2. ASSUME NEW r \in Calls, Step(r)
      PROVE  now' = now
  BY <1>2 DEF World, Step, CheckEnded, ReadTenant, ReadService, ReadStaff, ReadCapabilities, ReadHours,
              PickSlot, DeriveEnd, Insert, UpdateSchedule, UpdateStatus, Reread, Abort
<1>3. Edit => now' = now
  BY DEF Edit, ArchiveService, EditDuration, EditStaff, ArchiveStaff, SetBookable,
         ReplaceCapabilities, ReplaceWeeklySchedule, EditZone
<1>. QED
  BY <1>1, <1>2, <1>3 DEF Next, vars, Tick

(***************************************************************************)
(* Without a reschedule the rule of Complete and MarkNoShow is kept: an    *)
(* appointment gets its outcome only once it is over, although the clock   *)
(* is compared with an end that was read before.                           *)
(***************************************************************************)
THEOREM OutcomesAwaitTheEnd ==
    "reschedule" \notin Operations => (Spec => []OutcomeAfterEnd)
<1> SUFFICES ASSUME "reschedule" \notin Operations
             PROVE  Spec => []OutcomeAfterEnd
  OBVIOUS
<1>1. Init => OutcomesInv
  BY DEF Init, OutcomesInv, OutcomeAfterEnd, Running, Idle, PCs
<1>2. ASSUME IInv, IInv', OutcomesInv, [Next]_vars
      PROVE  OutcomesInv'
  <2>1. ASSUME NEW b \in BookingIds, bookings'[b] # Absent,
               bookings'[b].status \in {"COMPLETED", "NO_SHOW"}
        PROVE  bookings'[b].end <= now'
    <3>1. now \in Int /\ now' \in Int /\ now <= now'
      <4>1. now \in Int /\ now' \in Int
        BY <1>2, MaxTimeIsNat DEF IInv, TypeOK, Time
      <4>2. now' = now \/ now' = now + 1
        BY <1>2, ClockMoves
      <4>. QED
        BY <4>1, <4>2
    <3>2. bookings[b] # Absent
      <4>1. ASSUME bookings[b] = Absent PROVE FALSE
        <5>1. PICK c \in BookingIds : L!Book(c) \/ L!Move(c) \/ L!Settle(c)
          BY <1>2, <2>1, <4>1, EveryStep DEF L!Next
        <5>2. c # b => bookings'[b] = bookings[b]
          BY <1>2, <5>1 DEF L!Book, L!Move, L!Settle, IInv, TypeOK
        <5>3. L!Book(b)
          BY <2>1, <4>1, <5>1, <5>2 DEF L!Move, L!Settle, L!Confirmed
        <5>. QED
          BY <2>1, <5>3 DEF L!Book
      <4>. QED
        BY <4>1
    <3>3. bookings[b] \in Row /\ bookings'[b].end = bookings[b].end
      BY <1>2, <3>2, EndsStay DEF IInv, TypeOK
    <3>4. bookings[b].end \in Int
      BY <3>3 DEF Row
    <3>5. CASE bookings[b].status = "CONFIRMED"
      <4>1. ~Moved(b)
        <5>1. ASSUME NEW r \in Calls, At(r, "settle"), calls[r].id = b
              PROVE  calls[r].row.end = bookings[b].end
          <6>1. Running(r) /\ CallOK(r)
            BY <1>2, <5>1, CallType DEF At, Running, PCs
          <6>2. calls[r].op # "create"
            BY <5>1, <6>1 DEF CallOK, At, SettleOps
          <6>. QED
            BY <1>2, <5>1, <6>1, <6>2 DEF OutcomesInv, EndHolds
        <5>. QED
          BY <5>1 DEF Moved
      <4>2. ~(now < bookings[b].end)
        BY <1>2, <2>1, <3>2, <3>5, <4>1, EarlyIsMoved DEF Early, Confirmed
      <4>. QED
        BY <3>1, <3>3, <3>4, <4>2
    <3>6. CASE bookings[b].status # "CONFIRMED"
      <4>1. bookings'[b] = bookings[b]
        BY <1>2, <3>2, <3>6, EveryStep, LedgerStepKeeps, InvariantHasLedgerType DEF L!Final
      <4>2. bookings[b].end <= now
        BY <1>2, <2>1, <3>2, <4>1 DEF OutcomesInv, OutcomeAfterEnd
      <4>. QED
        BY <3>1, <3>4, <4>1, <4>2
    <3>. QED
      BY <3>5, <3>6
  <2>. QED
    BY <1>2, <2>1, RequestsKeepEnds DEF OutcomesInv, OutcomeAfterEnd
<1>3. OutcomesInv => OutcomeAfterEnd
  BY DEF OutcomesInv
<1>. QED
  BY <1>1, <1>2, <1>3, BookingsInvariant, PTL DEF Spec

-----------------------------------------------------------------------------
(***************************************************************************)
(* What is offered.  On a day that skips no time, as much real time as     *)
(* wall-clock time passes, or more.                                        *)
(***************************************************************************)
LEMMA NoTimeIsSkipped ==
    ASSUME NEW z \in Zones, z.shift <= 0,
           NEW a \in Int, NEW b \in Int, NEW d \in Int, a + d <= b, 0 <= d
    PROVE  InstantAt(z, a) + d <= InstantAt(z, b)
<1>1. /\ z.midnight \in Int /\ z.at \in Int
      /\ z.shift \in Int /\ z.late \in BOOLEAN
  BY ZonesAreZones DEF Zone
<1> DEFINE from == IF z.late THEN z.at + z.shift ELSE z.at
<1>2. from \in Int
  BY <1>1
<1>3. ASSUME NEW m \in Int
      PROVE  InstantAt(z, m) = z.midnight + (IF from <= m THEN m - z.shift ELSE m)
  BY <1>1 DEF InstantAt, Ambiguous
<1> HIDE DEF from
<1>. QED
  BY <1>1, <1>2, <1>3

\* The technician's other bookings never overlap one of its bookings.
LEMMA OthersLeaveRoom ==
    ASSUME IInv, NoDoubleBooking,
           NEW b \in BookingIds, Confirmed(bookings, b),
           NEW span, span.start = bookings[b].start, span.end = bookings[b].end,
           NEW call, call.staff = bookings[b].staff, call.id = b
    PROVE  ~OverlapsAny(span, OccupiedIntervals(call))
<1> SUFFICES ASSUME NEW o \in OccupiedIntervals(call), Overlaps(span, o)
             PROVE  FALSE
  BY DEF OverlapsAny
<1>1. PICK c \in BookingIds \ {b} :
         /\ Confirmed(bookings, c) /\ bookings[c].staff = bookings[b].staff
         /\ o = [start |-> bookings[c].start, end |-> bookings[c].end]
  BY DEF OccupiedIntervals
<1>2. ~Clash(bookings[b], bookings[c])
  BY <1>1, LedgerVocabulary DEF NoDoubleBooking, L!NoDoubleBooking
<1>3. bookings[b] \in Row /\ bookings[c] \in Row
  BY <1>1 DEF IInv, TypeOK, Confirmed
<1>. QED
  BY <1>1, <1>2, <1>3 DEF Overlaps, Clash, Row

(***************************************************************************)
(* A booking's own interval never hides its slot from its reschedule,      *)
(* whatever label of the day its instant has: the engine leaves the        *)
(* booking itself out, and the exclusion constraint keeps every other one  *)
(* of the technician clear of it.                                          *)
(***************************************************************************)
THEOREM OwnSlotsAreOffered == Spec => []OwnSlotOffered
<1>1. ASSUME IInv, NoDoubleBooking
      PROVE  OwnSlotOffered
  <2> DEFINE length(b) == bookings[b].end - bookings[b].start
             request(b) == [start |-> 0, slotEnd |-> length(b), zone |-> zone,
                            hours |-> roster[bookings[b].staff].hours,
                            staff |-> bookings[b].staff, id |-> b]
  <2>0. ASSUME NEW b \in BookingIds, Confirmed(bookings, b), bookings[b].start >= now,
               NEW w \in roster[bookings[b].staff].hours,
               NEW m \in Candidates(w, length(b)),
               InstantAt(zone, m) = bookings[b].start
        PROVE  m \in OfferedStarts(request(b))
    <3> DEFINE own == bookings[b]
               q == [duration |-> length(b) - 0,
                     working |-> roster[own.staff].hours,
                     occupied |-> OccupiedIntervals(request(b)),
                     now |-> now, zone |-> zone]
               span == RealSpan(zone, m, length(b))
    <3>1. own \in Row
      BY <1>1, <2>0 DEF IInv, TypeOK, Confirmed
    <3>2. own.start \in Int /\ own.end \in Int /\ length(b) - 0 = length(b)
      BY <3>1 DEF Row
    <3>3. span.start = own.start /\ span.end = own.end
      BY <2>0, <3>2 DEF RealSpan
    <3>4. ~OverlapsAny(span, OccupiedIntervals(request(b)))
      <4>1. request(b).staff = own.staff /\ request(b).id = b
        OBVIOUS
      <4> HIDE DEF span, request
      <4>. QED
        BY <1>1, <2>0, <3>3, <4>1, OthersLeaveRoom
    <3>5. m \in Generate(q)
      <4> HIDE DEF length, request
      <4>. QED
        BY <2>0, <3>2, <3>4 DEF Generate
    <3>6. OfferedStarts(request(b)) = Generate(q)
      BY DEF OfferedStarts
    <3>. QED
      BY <3>5, <3>6
  <2>. QED
    BY <2>0 DEF OwnSlotOffered
<1>. QED
  BY <1>1, BookingsInvariant, BookingsExclusion, PTL

-----------------------------------------------------------------------------
(***************************************************************************)
(* What calls have read stays true.  A step of one call leaves it to the   *)
(* others: it edits neither catalog, roster nor zone, and no write changes *)
(* the technician of a booking.                                            *)
(***************************************************************************)
LEMMA ReadsOfOthers ==
    ASSUME IInv, OffersInv, NEW r \in Calls, NEW c,
           calls' = [calls EXCEPT ![r] = c],
           UNCHANGED <<catalog, roster, zone>>,
           \A b \in BookingIds :
               bookings[b] # Absent => bookings'[b].staff = bookings[b].staff,
           Running(r)' => ReadsHold(r)'
    PROVE  \A q \in Calls : (Running(q) => ReadsHold(q))'
<1>1. ASSUME NEW q \in Calls \ {r}, Running(q)'
      PROVE  ReadsHold(q)'
  <2>1. calls'[q] = calls[q]
    BY DEF IInv, TypeOK
  <2>2. Running(q)
    BY <1>1, <2>1 DEF Running
  <2>3. ReadsHold(q) /\ CallOK(q)
    BY <2>2, CallType DEF OffersInv
  <2>4. calls[q].op # "create" =>
            bookings'[calls[q].id].staff = bookings[calls[q].id].staff
    BY <2>3 DEF CallOK
  <2>. QED
    BY <2>1, <2>3, <2>4 DEF ReadsHold, SlotFits
<1>. QED
  BY <1>1

\* A step that leaves the table and the world alone.
LEMMA QuietOffers ==
    ASSUME IInv, OffersInv, NEW r \in Calls, NEW c,
           calls' = [calls EXCEPT ![r] = c],
           UNCHANGED <<bookings, World>>,
           Running(r)' => ReadsHold(r)'
    PROVE  OffersInv'
<1>1. UNCHANGED <<catalog, roster, zone>>
  BY DEF World
<1>2. \A q \in Calls : (Running(q) => ReadsHold(q))'
  BY <1>1, ReadsOfOthers
<1>. QED
  BY <1>2 DEF OffersInv

\* A call that ends has nothing left to keep.
LEMMA EndedOffers ==
    ASSUME IInv, OffersInv, NEW r \in Calls, NEW c, c.pc \notin PCs,
           calls' = [calls EXCEPT ![r] = c],
           UNCHANGED <<bookings, World>>
    PROVE  OffersInv'
<1>1. ~Running(r)'
  BY DEF Running, IInv, TypeOK
<1>. QED
  BY <1>1, QuietOffers

LEMMA ReturnOffers ==
    ASSUME IInv, OffersInv, NEW r \in Calls,
           NEW call, NEW code, NEW id, NEW row, Return(r, call, code, id, row),
           UNCHANGED <<bookings, World>>
    PROVE  OffersInv'
<1> DEFINE c == [pc |-> "done", op |-> call.op, code |-> code, id |-> id,
                 row |-> row]
<1>1. c.pc \notin PCs /\ calls' = [calls EXCEPT ![r] = c]
  BY DEF Return, PCs
<1>. QED
  BY <1>1, EndedOffers

LEMMA RefuseOffers ==
    ASSUME IInv, OffersInv, NEW r \in Calls, NEW code, Refuse(r, code),
           UNCHANGED <<bookings, World>>
    PROVE  OffersInv'
BY ReturnOffers DEF Refuse

\* A call that goes on, or a new one, with what it carries true.
Holds(c) ==
    /\ c.op # "create" => bookings[c.id].staff = c.staff
    /\ c.pc \in DurationRead \cup {"insert", "move"} => c.start < c.slotEnd
    /\ c.pc \in {"insert", "move"} => c.startAt = InstantAt(c.zone, c.start)
    /\ c.pc \in ZoneRead /\ "zone" \notin c.edited => c.zone = zone
    /\ "duration" \notin c.edited =>
           /\ c.pc \in DurationRead =>
                  c.slotEnd = c.start + catalog[c.service].duration
           /\ c.pc \in {"insert", "move"} =>
                  c.endAt - c.startAt = c.slotEnd - c.start
    /\ "hours" \notin c.edited =>
           /\ c.pc = "slots" => c.hours = roster[c.staff].hours
           /\ c.pc \in Picked => SlotFits(c)

LEMMA HoldsIsReadsHold == \A r : ReadsHold(r) <=> Holds(calls[r])
BY DEF ReadsHold, Holds

LEMMA GotoOffers ==
    ASSUME IInv, OffersInv, NEW r \in Calls, NEW c, Holds(c), Goto(r, c),
           UNCHANGED <<bookings, World>>
    PROVE  OffersInv'
<1>1. calls'[r] = c /\ calls' = [calls EXCEPT ![r] = c]
  BY DEF Goto, IInv, TypeOK
<1>2. ReadsHold(r)'
  BY <1>1 DEF ReadsHold, Holds, World, SlotFits
<1>. QED
  BY <1>1, <1>2, QuietOffers

LEMMA CarriesReads ==
    ASSUME IInv, OffersInv, NEW r \in Calls, Running(r)
    PROVE  calls[r] \in Call /\ CallOK(r) /\ Holds(calls[r])
BY CallType, HoldsIsReadsHold DEF OffersInv

\* A request starts with nothing read but its booking.
LEMMA StartOffers ==
    ASSUME IInv, OffersInv, NEW r \in Calls, Start(r)
    PROVE  OffersInv'
<1>1. ASSUME CallCreate(r)
      PROVE  OffersInv'
  <2>1. PICK sv \in Services, st \in Staff, s \in Time :
           Goto(r, [pc |-> "service", op |-> "create", id |-> Absent,
                    service |-> sv, staff |-> st, start |-> s, slotEnd |-> s,
                    zone |-> zone, startAt |-> 0, endAt |-> 0, bookable |-> TRUE,
                    hours |-> {}, row |-> Absent, edited |-> {}])
    BY <1>1 DEF CallCreate
  <2> DEFINE c == [pc |-> "service", op |-> "create", id |-> Absent,
                   service |-> sv, staff |-> st, start |-> s, slotEnd |-> s,
                   zone |-> zone, startAt |-> 0, endAt |-> 0, bookable |-> TRUE,
                   hours |-> {}, row |-> Absent, edited |-> {}]
  <2>2. Holds(c) /\ Goto(r, c)
    BY <2>1 DEF Holds, DurationRead, ZoneRead, Picked
  <2>. QED
    BY <1>1, <2>2, GotoOffers DEF CallCreate
<1>2. ASSUME NEW b \in BookingIds, NEW op, NEW s, NEW pc \in {"tenant", "settle", "ended"}
      PROVE  Holds(Found(b, op, s, pc))
  BY <1>2 DEF Holds, Found, DurationRead, ZoneRead, Picked
<1>3. ASSUME NEW b \in BookingIds, NEW op, NotFound(r, op, b)
      PROVE  OffersInv'
  BY <1>3, ReturnOffers DEF NotFound
<1>4. ASSUME NEW b \in BookingIds, CallReschedule(r, b)
      PROVE  OffersInv'
  <2>1. PICK s \in Time :
           \/ Goto(r, Found(b, "reschedule", s, "tenant"))
           \/ Return(r, Found(b, "reschedule", s, "tenant"), "VALIDATION_FAILED", b, Absent)
    BY <1>4 DEF CallReschedule
  <2>. QED
    BY <1>2, <1>4, <2>1, GotoOffers, ReturnOffers DEF CallReschedule
<1>5. ASSUME NEW b \in BookingIds, CallCancel(r, b)
      PROVE  OffersInv'
  <2>1. \/ Goto(r, Found(b, "cancel", 0, "settle"))
        \/ \E code, row : Return(r, Found(b, "cancel", 0, "settle"), code, b, row)
    BY <1>5 DEF CallCancel
  <2>. QED
    BY <1>2, <1>5, <2>1, GotoOffers, ReturnOffers DEF CallCancel
<1>6. ASSUME NEW b \in BookingIds, NEW op, CallOutcome(r, op, b)
      PROVE  OffersInv'
  <2>1. \/ Goto(r, Found(b, op, 0, "ended"))
        \/ \E code, row : Return(r, Found(b, op, 0, "ended"), code, b, row)
    BY <1>6 DEF CallOutcome
  <2>. QED
    BY <1>2, <1>6, <2>1, GotoOffers, ReturnOffers DEF CallOutcome
<1>. QED
  BY <1>1, <1>3, <1>4, <1>5, <1>6
  DEF Start, PostBooking, PostReschedule, PostCancel, PostComplete, PostNoShow

LEMMA CheckEndedOffers ==
    ASSUME IInv, OffersInv, NEW r \in Calls, CheckEnded(r)
    PROVE  OffersInv'
<1>1. UNCHANGED <<bookings, World>> /\ Running(r)
  BY DEF CheckEnded, At, Running, PCs
<1> DEFINE c == [calls[r] EXCEPT !.pc = "settle"]
<1>2. Refuse(r, "BOOKING_INVALID_TRANSITION") \/ Goto(r, c)
  BY DEF CheckEnded
<1>3. Holds(c)
  BY <1>1, CarriesReads DEF Holds, Call, DurationRead, ZoneRead, Picked
<1>. HIDE DEF c
<1>. QED
  BY <1>1, <1>2, <1>3, GotoOffers, RefuseOffers

\* The zone is read.
LEMMA ReadTenantOffers ==
    ASSUME IInv, OffersInv, NEW r \in Calls, ReadTenant(r)
    PROVE  OffersInv'
<1>1. UNCHANGED <<bookings, World>> /\ Running(r) /\ At(r, "tenant")
  BY DEF ReadTenant, At, Running, PCs
<1> DEFINE c == [calls[r] EXCEPT !.pc = "service", !.zone = zone]
<1>2. Goto(r, c)
  BY DEF ReadTenant
<1>3. Holds(c)
  BY <1>1, CarriesReads DEF Holds, Call, DurationRead, ZoneRead, Picked, At
<1>. HIDE DEF c
<1>. QED
  BY <1>1, <1>2, <1>3, GotoOffers

\* The duration is read into slotEnd.
LEMMA ReadServiceOffers ==
    ASSUME IInv, OffersInv, NEW r \in Calls, ReadService(r)
    PROVE  OffersInv'
<1>1. UNCHANGED <<bookings, World>> /\ Running(r) /\ At(r, "service")
  BY DEF ReadService, At, Running, PCs
<1> DEFINE sv == catalog[calls[r].service]
           c == [calls[r] EXCEPT !.pc = "staff",
                                 !.slotEnd = calls[r].start + sv.duration]
<1>2. Refuse(r, "SERVICE_NOT_FOUND") \/ Goto(r, c)
  BY DEF ReadService
<1>3. Holds(c)
  <2>1. calls[r] \in Call /\ Holds(calls[r])
    BY <1>1, CarriesReads
  <2>2. sv.duration \in Nat \ {0} /\ calls[r].start \in Int
    BY <2>1, DurationsArePositive DEF IInv, TypeOK, ServiceState, Call
  <2>3. /\ c.op = calls[r].op /\ c.id = calls[r].id /\ c.staff = calls[r].staff
        /\ c.pc = "staff" /\ c.start = calls[r].start /\ c.service = calls[r].service
        /\ c.slotEnd = calls[r].start + sv.duration /\ c.zone = calls[r].zone
        /\ c.edited = calls[r].edited
    BY <2>1 DEF Call
  <2>4. c.start < c.slotEnd
    <3> HIDE DEF sv, c
    <3>. QED
      BY <2>2, <2>3
  <2> HIDE DEF c
  <2>. QED
    BY <1>1, <2>1, <2>3, <2>4 DEF Holds, DurationRead, ZoneRead, Picked, At
<1>. HIDE DEF c
<1>. QED
  BY <1>1, <1>2, <1>3, GotoOffers, RefuseOffers

LEMMA ReadStaffOffers ==
    ASSUME IInv, OffersInv, NEW r \in Calls, ReadStaff(r)
    PROVE  OffersInv'
<1>1. UNCHANGED <<bookings, World>> /\ Running(r) /\ At(r, "staff")
  BY DEF ReadStaff, At, Running, PCs
<1> DEFINE c == [calls[r] EXCEPT !.pc = "capabilities",
                                 !.bookable = roster[calls[r].staff].bookable]
<1>2. Refuse(r, "STAFF_NOT_FOUND") \/ Goto(r, c)
  BY DEF ReadStaff
<1>3. Holds(c)
  BY <1>1, CarriesReads DEF Holds, Call, DurationRead, ZoneRead, Picked, At
<1>. HIDE DEF c
<1>. QED
  BY <1>1, <1>2, <1>3, GotoOffers, RefuseOffers

LEMMA ReadCapabilitiesOffers ==
    ASSUME IInv, OffersInv, NEW r \in Calls, ReadCapabilities(r)
    PROVE  OffersInv'
<1>1. UNCHANGED <<bookings, World>> /\ Running(r) /\ At(r, "capabilities")
  BY DEF ReadCapabilities, At, Running, PCs
<1> DEFINE c == [calls[r] EXCEPT !.pc = "hours"]
<1>2. (\E code : Refuse(r, code)) \/ Goto(r, c)
  BY DEF ReadCapabilities
<1>3. Holds(c)
  BY <1>1, CarriesReads DEF Holds, Call, DurationRead, ZoneRead, Picked, At
<1>. HIDE DEF c
<1>. QED
  BY <1>1, <1>2, <1>3, GotoOffers, RefuseOffers

LEMMA ReadHoursOffers ==
    ASSUME IInv, OffersInv, NEW r \in Calls, ReadHours(r)
    PROVE  OffersInv'
<1>1. UNCHANGED <<bookings, World>> /\ Running(r) /\ At(r, "hours")
  BY DEF ReadHours, At, Running, PCs
<1> DEFINE c == [calls[r] EXCEPT !.pc = "slots",
                                 !.hours = roster[calls[r].staff].hours]
<1>2. Goto(r, c)
  BY DEF ReadHours
<1>3. Holds(c)
  BY <1>1, CarriesReads DEF Holds, Call, DurationRead, ZoneRead, Picked, At
<1>. HIDE DEF c
<1>. QED
  BY <1>1, <1>2, <1>3, GotoOffers

\* A start the engine offers leaves room for the duration in one interval.
LEMMA OfferedFits ==
    ASSUME NEW call \in Call, call.start \in OfferedStarts(call)
    PROVE  \E w \in call.hours : w.start <= call.start /\ call.slotEnd <= w.end
<1>1. PICK w \in call.hours : call.start \in Candidates(w, call.slotEnd - call.start)
  BY DEF OfferedStarts, Generate
<1>2. w \in Span(Int) /\ call.start \in Int /\ call.slotEnd \in Int
  BY <1>1 DEF Call
<1>. QED
  BY <1>1, <1>2 DEF Candidates, Span

LEMMA PickSlotOffers ==
    ASSUME IInv, OffersInv, NEW r \in Calls, PickSlot(r)
    PROVE  OffersInv'
<1>1. UNCHANGED <<bookings, World>> /\ Running(r) /\ At(r, "slots")
  BY DEF PickSlot, At, Running, PCs
<1> DEFINE c == [calls[r] EXCEPT !.pc = "duration", !.hours = {}]
<1>2. CASE calls[r].start \in OfferedStarts(calls[r])
  <2>1. calls[r] \in Call /\ Holds(calls[r])
    BY <1>1, CarriesReads
  <2>2. \E w \in calls[r].hours :
           w.start <= calls[r].start /\ calls[r].slotEnd <= w.end
    BY <1>2, <2>1, OfferedFits
  <2>3. "hours" \notin calls[r].edited => SlotFits(calls[r])
    BY <1>1, <2>1, <2>2 DEF Holds, At, SlotFits
  <2>4. Holds(c)
    BY <1>1, <2>1, <2>3 DEF Holds, Call, SlotFits, DurationRead, ZoneRead, Picked, At
  <2>5. Goto(r, c)
    BY <1>2 DEF PickSlot
  <2>. HIDE DEF c
  <2>. QED
    BY <1>1, <2>4, <2>5, GotoOffers
<1>3. CASE calls[r].start \notin OfferedStarts(calls[r])
  BY <1>1, <1>3, RefuseOffers DEF PickSlot
<1>. QED
  BY <1>2, <1>3

\* The second reading of the duration finds what the first one found, unless it was edited.
LEMMA DeriveEndOffers ==
    ASSUME IInv, OffersInv, NEW r \in Calls, DeriveEnd(r)
    PROVE  OffersInv'
<1>1. UNCHANGED <<bookings, World>> /\ Running(r) /\ At(r, "duration")
  BY DEF DeriveEnd, At, Running, PCs
<1> DEFINE call == [calls[r] EXCEPT !.startAt = StartInstant(calls[r]),
                                    !.endAt = DerivedEnd(calls[r])]
           c(pc) == [call EXCEPT !.pc = pc]
<1>2. calls[r] \in Call /\ Holds(calls[r])
  BY <1>1, CarriesReads
<1>3. ASSUME NEW pc \in {"insert", "move"}
      PROVE  Holds(c(pc))
  <2>1. /\ c(pc).pc = pc /\ c(pc).startAt = StartInstant(calls[r])
        /\ c(pc).endAt = DerivedEnd(calls[r])
        /\ c(pc).op = calls[r].op /\ c(pc).id = calls[r].id
        /\ c(pc).staff = calls[r].staff /\ c(pc).service = calls[r].service
        /\ c(pc).start = calls[r].start /\ c(pc).slotEnd = calls[r].slotEnd
        /\ c(pc).zone = calls[r].zone /\ c(pc).edited = calls[r].edited
    BY <1>2 DEF Call
  <2>2. "duration" \notin calls[r].edited =>
            DerivedEnd(calls[r]) - StartInstant(calls[r]) = calls[r].slotEnd - calls[r].start
    <3>1. calls[r].zone \in Zones /\ calls[r].start \in Int
      BY <1>1, <1>2, CallType DEF CallOK, At, ZoneRead, DurationRead, Call
    <3>2. StartInstant(calls[r]) \in Int
      BY <3>1, InstantsAreInts DEF StartInstant
    <3>3. catalog[calls[r].service].duration \in Nat
      BY <1>2, DurationsArePositive DEF IInv, TypeOK, ServiceState, Call
    <3>4. "duration" \notin calls[r].edited =>
              calls[r].slotEnd = calls[r].start + catalog[calls[r].service].duration
      BY <1>1, <1>2 DEF Holds, At, DurationRead
    <3>. QED
      BY <3>1, <3>2, <3>3, <3>4 DEF DerivedEnd
  <2>. HIDE DEF c
  <2>3. SlotFits(c(pc)) <=> SlotFits(calls[r])
    BY <2>1 DEF SlotFits
  <2>. QED
    BY <1>1, <1>2, <2>1, <2>2, <2>3
    DEF Holds, DurationRead, ZoneRead, Picked, At, StartInstant
<1>4. \/ Goto(r, c("insert")) \/ Goto(r, c("move"))
      \/ \E code, id, row : Return(r, call, code, id, row)
  BY DEF DeriveEnd
<1>. HIDE DEF call, c
<1>. QED
  BY <1>1, <1>3, <1>4, GotoOffers, ReturnOffers

LEMMA RereadOffers ==
    ASSUME IInv, OffersInv, NEW r \in Calls, Reread(r) \/ Abort(r)
    PROVE  OffersInv'
<1>1. UNCHANGED <<bookings, World>>
  BY DEF Reread, Abort
<1>2. CASE Reread(r)
  BY <1>1, <1>2, ReturnOffers DEF Reread
<1>3. CASE Abort(r)
  <2>1. calls' = [calls EXCEPT ![r] = Idle] /\ Idle.pc \notin PCs
    BY <1>3 DEF Abort, Idle, PCs
  <2>. QED
    BY <1>1, <2>1, EndedOffers
<1>. QED
  BY <1>2, <1>3

LEMMA InsertOffers ==
    ASSUME IInv, OffersInv, NEW r \in Calls, Insert(r)
    PROVE  OffersInv'
<1>1. UNCHANGED World /\ Running(r) /\ At(r, "insert")
  BY DEF Insert, At, Running, PCs
<1> DEFINE row == NewRow(calls[r])
<1>2. PICK b \in BookingIds :
         /\ bookings[b] = Absent
         /\ IF Excluded(bookings, b, row)
            THEN /\ Refuse(r, "BOOKING_SLOT_UNAVAILABLE")
                 /\ UNCHANGED bookings
            ELSE /\ bookings' = [bookings EXCEPT ![b] = row]
                 /\ Return(r, calls[r], "OK", b, Shown(calls[r]))
  BY DEF Insert
<1>3. CASE Excluded(bookings, b, row)
  BY <1>1, <1>2, <1>3, RefuseOffers
<1>4. CASE ~Excluded(bookings, b, row)
  <2> DEFINE c == [pc |-> "done", op |-> calls[r].op, code |-> "OK", id |-> b,
                   row |-> Shown(calls[r])]
  <2>1. bookings' = [bookings EXCEPT ![b] = row] /\ calls' = [calls EXCEPT ![r] = c]
    BY <1>2, <1>4 DEF Return
  <2>2. ~Running(r)'
    <3>1. calls'[r] = c
      BY <2>1 DEF IInv, TypeOK
    <3>. QED
      BY <3>1 DEF Running, PCs
  <2>3. \A d \in BookingIds :
           bookings[d] # Absent => bookings'[d].staff = bookings[d].staff
    <3>. HIDE DEF row
    <3>. QED
      BY <1>2, <2>1 DEF IInv, TypeOK
  <2>4. \A q \in Calls : (Running(q) => ReadsHold(q))'
    <3>. HIDE DEF c
    <3>. QED
      BY <1>1, <2>1, <2>2, <2>3, ReadsOfOthers DEF World
  <2>. QED
    BY <2>4 DEF OffersInv
<1>. QED
  BY <1>3, <1>4

\* After its UPDATE a call has nothing left to keep but its technician.
LEMMA ToRereadOffers ==
    ASSUME IInv, OffersInv, NEW r \in Calls, Running(r), calls[r].op # "create",
           Goto(r, [calls[r] EXCEPT !.pc = "reread"]),
           UNCHANGED World,
           \A b \in BookingIds :
               bookings[b] # Absent => bookings'[b].staff = bookings[b].staff
    PROVE  \A q \in Calls : (Running(q) => ReadsHold(q))'
<1> DEFINE c == [calls[r] EXCEPT !.pc = "reread"]
<1>1. calls[r] \in Call /\ CallOK(r) /\ Holds(calls[r])
  BY CarriesReads
<1>2. c.pc = "reread" /\ c.id = calls[r].id /\ c.staff = calls[r].staff
  BY <1>1 DEF Call
<1>3. calls' = [calls EXCEPT ![r] = c] /\ calls'[r] = c
  BY DEF Goto, IInv, TypeOK
<1>. HIDE DEF c
<1>4. bookings'[calls[r].id].staff = calls[r].staff
  BY <1>1 DEF CallOK, Holds
<1>5. ReadsHold(r)'
  BY <1>2, <1>3, <1>4 DEF ReadsHold, DurationRead, ZoneRead, Picked
<1>. QED
  BY <1>3, <1>5, ReadsOfOthers DEF World

LEMMA UpdateScheduleOffers ==
    ASSUME IInv, OffersInv, NEW r \in Calls, UpdateSchedule(r)
    PROVE  OffersInv'
<1>1. UNCHANGED World /\ Running(r) /\ At(r, "move")
  BY DEF UpdateSchedule, At, Running, PCs
<1>2. calls[r] \in Call /\ CallOK(r) /\ Holds(calls[r])
  BY <1>1, CarriesReads
<1> DEFINE b == calls[r].id
           row == [bookings[b] EXCEPT !.start = calls[r].startAt, !.end = calls[r].endAt]
<1>3. calls[r].op # "create" /\ b \in BookingIds /\ bookings[b] # Absent
  BY <1>1, <1>2 DEF CallOK, At
<1>4. bookings[b] \in Row
  BY <1>3 DEF IInv, TypeOK
<1>6. CASE Confirmed(bookings, b) /\ Excluded(bookings, b, row)
  BY <1>1, <1>6, RefuseOffers DEF UpdateSchedule
<1>7. CASE ~(Confirmed(bookings, b) /\ Excluded(bookings, b, row))
  <2>1. /\ bookings' = [bookings EXCEPT ![b] = row] \/ UNCHANGED bookings
        /\ Goto(r, [calls[r] EXCEPT !.pc = "reread"])
    BY <1>7 DEF UpdateSchedule
  <2>2. row.staff = bookings[b].staff
    BY <1>4 DEF Row
  <2>. HIDE DEF row, b
  <2>4. \A d \in BookingIds :
           bookings[d] # Absent => bookings'[d].staff = bookings[d].staff
    BY <1>3, <2>1, <2>2 DEF IInv, TypeOK
  <2>5. \A q \in Calls : (Running(q) => ReadsHold(q))'
    BY <1>1, <1>3, <2>1, <2>4, ToRereadOffers
  <2>. QED
    BY <2>5 DEF OffersInv
<1>. QED
  BY <1>6, <1>7

LEMMA UpdateStatusOffers ==
    ASSUME IInv, OffersInv, NEW r \in Calls, UpdateStatus(r)
    PROVE  OffersInv'
<1>1. UNCHANGED World /\ Running(r) /\ At(r, "settle")
  BY DEF UpdateStatus, At, Running, PCs
<1>2. calls[r] \in Call /\ CallOK(r)
  BY <1>1, CarriesReads
<1> DEFINE b == calls[r].id
           row == [bookings[b] EXCEPT !.status = Outcome(calls[r].op)]
<1>3. /\ calls[r].op \in SettleOps /\ calls[r].op # "create"
      /\ b \in BookingIds /\ bookings[b] # Absent
  BY <1>1, <1>2 DEF CallOK, At, SettleOps
<1>4. bookings[b] \in Row
  BY <1>3 DEF IInv, TypeOK
<1>5. row.staff = bookings[b].staff /\ row.status # "CONFIRMED"
  BY <1>3, <1>4 DEF Row, Outcome, SettleOps
<1>6. /\ bookings' = [bookings EXCEPT ![b] = row] \/ UNCHANGED bookings
      /\ Goto(r, [calls[r] EXCEPT !.pc = "reread"])
  BY DEF UpdateStatus
<1>. HIDE DEF row, b
<1>7. \A d \in BookingIds :
         bookings[d] # Absent => bookings'[d].staff = bookings[d].staff
  BY <1>3, <1>5, <1>6 DEF IInv, TypeOK
<1>8. \A q \in Calls : (Running(q) => ReadsHold(q))'
  BY <1>1, <1>3, <1>6, <1>7, ToRereadOffers
<1>. QED
  BY <1>8 DEF OffersInv

\* An edit leaves true what a call it does not mark has read.
LEMMA MarkedReads ==
    ASSUME IInv, OffersInv, NEW r \in Calls, Running(r), Marked(r), UNCHANGED bookings,
           calls[r].pc \in ZoneRead /\ "zone" \notin calls'[r].edited => UNCHANGED zone,
           calls[r].pc \in DurationRead /\ "duration" \notin calls'[r].edited =>
               catalog'[calls[r].service].duration = catalog[calls[r].service].duration,
           calls[r].pc \in HoursRead /\ "hours" \notin calls'[r].edited =>
               roster'[calls[r].staff].hours = roster[calls[r].staff].hours
    PROVE  ReadsHold(r)'
<1>1. ReadsHold(r)
  BY DEF OffersInv
<1>2. /\ calls'[r].pc = calls[r].pc /\ calls'[r].op = calls[r].op
      /\ calls'[r].id = calls[r].id /\ calls'[r].service = calls[r].service
      /\ calls'[r].staff = calls[r].staff /\ calls'[r].start = calls[r].start
      /\ calls'[r].slotEnd = calls[r].slotEnd /\ calls'[r].zone = calls[r].zone
      /\ calls'[r].startAt = calls[r].startAt /\ calls'[r].endAt = calls[r].endAt
      /\ calls'[r].hours = calls[r].hours /\ calls[r].edited \subseteq calls'[r].edited
  BY MarkedIsSame
<1>. QED
  BY <1>1, <1>2 DEF ReadsHold, SlotFits, HoursRead, Picked

\* The owner's edits and the clock: a call that goes by what is edited is
\* marked, and to the others it reads as before.
LEMMA WorldOffers ==
    ASSUME IInv, OffersInv, Edit \/ Tick
    PROVE  OffersInv'
<1>1. ASSUME NEW r \in Calls, Running(r), UNCHANGED <<bookings, calls, zone>>,
             catalog'[calls[r].service].duration = catalog[calls[r].service].duration,
             roster'[calls[r].staff].hours = roster[calls[r].staff].hours
      PROVE  ReadsHold(r)'
  <2>1. Marked(r)
    BY <1>1 DEF Marked
  <2>. QED
    BY <1>1, <2>1, MarkedReads
<1>2. ASSUME NEW r \in Calls, Running(r)
      PROVE  calls[r].service \in Services /\ calls[r].staff \in Staff /\ calls[r] \in Call
  BY <1>2, CallType DEF Call
<1>3. ASSUME NEW what, NEW r \in Calls, Running(r),
             calls'[r] = [calls[r] EXCEPT !.edited = @ \cup {what}]
      PROVE  what \in calls'[r].edited
  BY <1>2, <1>3 DEF Call
<1>4. ASSUME NEW r \in Calls, Running(r), NEW sv, NEW d, EditDuration(sv, d)
      PROVE  ReadsHold(r)'
  <2>1. Marked(r)
    BY <1>4, DurationMarks
  <2>2. UNCHANGED <<bookings, zone, roster>>
    BY <1>4 DEF EditDuration
  <2>3. calls[r].pc \in DurationRead /\ "duration" \notin calls'[r].edited =>
            catalog'[calls[r].service].duration = catalog[calls[r].service].duration
    <3>1. calls[r].pc \in DurationRead /\ calls[r].service = sv =>
              "duration" \in calls'[r].edited
      BY <1>3, <1>4 DEF EditDuration, Outdated
    <3>2. calls[r].service # sv => catalog'[calls[r].service] = catalog[calls[r].service]
      BY <1>2, <1>4 DEF EditDuration, IInv, TypeOK
    <3>. QED
      BY <3>1, <3>2
  <2>. QED
    BY <1>4, <2>1, <2>2, <2>3, MarkedReads
<1>5. ASSUME NEW r \in Calls, Running(r), NEW st, NEW hours, ReplaceWeeklySchedule(st, hours)
      PROVE  ReadsHold(r)'
  <2>1. Marked(r)
    BY <1>5, HoursMarks
  <2>2. UNCHANGED <<bookings, zone, catalog>>
    BY <1>5 DEF ReplaceWeeklySchedule, EditStaff
  <2>3. calls[r].pc \in HoursRead /\ "hours" \notin calls'[r].edited =>
            roster'[calls[r].staff].hours = roster[calls[r].staff].hours
    <3>1. calls[r].pc \in HoursRead /\ calls[r].staff = st => "hours" \in calls'[r].edited
      BY <1>3, <1>5 DEF ReplaceWeeklySchedule, Outdated
    <3>2. calls[r].staff # st => roster'[calls[r].staff] = roster[calls[r].staff]
      BY <1>2, <1>5 DEF ReplaceWeeklySchedule, EditStaff, IInv, TypeOK
    <3>. QED
      BY <3>1, <3>2
  <2>. QED
    BY <1>5, <2>1, <2>2, <2>3, MarkedReads
<1>6. ASSUME NEW r \in Calls, Running(r), NEW z, EditZone(z)
      PROVE  ReadsHold(r)'
  <2>1. Marked(r)
    BY <1>6, ZoneMarks
  <2>2. UNCHANGED <<bookings, catalog, roster>>
    BY <1>6 DEF EditZone
  <2>3. calls[r].pc \in ZoneRead => "zone" \in calls'[r].edited
    BY <1>3, <1>6 DEF EditZone, Outdated
  <2>. QED
    BY <1>6, <2>1, <2>2, <2>3, MarkedReads
<1>7. ASSUME NEW r \in Calls, Running(r), NEW sv \in Services, ArchiveService(sv)
      PROVE  ReadsHold(r)'
  <2>1. catalog'[calls[r].service].duration = catalog[calls[r].service].duration
    BY <1>2, <1>7 DEF ArchiveService, IInv, TypeOK, ServiceState
  <2>. QED
    BY <1>1, <1>7, <2>1 DEF ArchiveService
<1>8. ASSUME NEW r \in Calls, Running(r), NEW st \in Staff,
             NEW s, EditStaff(st, s), s.hours = roster[st].hours, UNCHANGED calls
      PROVE  ReadsHold(r)'
  <2>1. roster'[calls[r].staff].hours = roster[calls[r].staff].hours
    BY <1>2, <1>8 DEF EditStaff, IInv, TypeOK
  <2>. QED
    BY <1>1, <1>8, <2>1 DEF EditStaff
<1>9. ASSUME NEW r \in Calls, Running(r), NEW st \in Staff,
             \/ ArchiveStaff(st) \/ \E yes \in BOOLEAN : SetBookable(st, yes)
             \/ \E services \in SUBSET Services : ReplaceCapabilities(st, services)
      PROVE  ReadsHold(r)'
  <2>1. roster[st] \in StaffState
    BY DEF IInv, TypeOK
  <2>2. \A yes : [roster[st] EXCEPT !.bookable = yes].hours = roster[st].hours
    BY <2>1 DEF StaffState
  <2>3. \A services : [roster[st] EXCEPT !.services = services].hours = roster[st].hours
    BY <2>1 DEF StaffState
  <2>4. [roster[st] EXCEPT !.status = "ARCHIVED"].hours = roster[st].hours
    BY <2>1 DEF StaffState
  <2>5. CASE ArchiveStaff(st)
    BY <1>8, <1>9, <2>4, <2>5 DEF ArchiveStaff
  <2>6. ASSUME NEW yes, SetBookable(st, yes)
        PROVE  ReadsHold(r)'
    BY <1>8, <1>9, <2>2, <2>6 DEF SetBookable
  <2>7. ASSUME NEW services, ReplaceCapabilities(st, services)
        PROVE  ReadsHold(r)'
    BY <1>8, <1>9, <2>3, <2>7 DEF ReplaceCapabilities
  <2>. QED
    BY <1>9, <2>5, <2>6, <2>7
<1>10. ASSUME NEW r \in Calls, Running(r), Tick
       PROVE  ReadsHold(r)'
  BY <1>1, <1>10 DEF Tick
<1>11. ASSUME NEW r \in Calls, Running(r)'
       PROVE  Running(r)
  BY <1>11, WorldMarks, MarkedIsSame DEF Running
<1>. QED
  BY <1>4, <1>5, <1>6, <1>7, <1>9, <1>10, <1>11 DEF OffersInv, Edit

LEMMA EveryStepOffers ==
    ASSUME IInv, OffersInv, [Next]_vars
    PROVE  OffersInv'
<1>1. CASE UNCHANGED vars
  BY <1>1 DEF vars, OffersInv, Running, ReadsHold, SlotFits
<1>2. ASSUME NEW r \in Calls, Step(r)
      PROVE  OffersInv'
  BY <1>2, CheckEndedOffers, ReadTenantOffers, ReadServiceOffers, ReadStaffOffers,
     ReadCapabilitiesOffers, ReadHoursOffers, PickSlotOffers, DeriveEndOffers,
     InsertOffers, UpdateScheduleOffers, UpdateStatusOffers, RereadOffers
  DEF Step
<1>. QED
  BY <1>1, <1>2, StartOffers, WorldOffers DEF Next

THEOREM OffersInvariant == Spec => []OffersInv
<1>1. Init => OffersInv
  BY DEF Init, OffersInv, Running, Idle, PCs
<1>2. IInv /\ OffersInv /\ [Next]_vars => OffersInv'
  BY EveryStepOffers
<1>. QED
  BY <1>1, <1>2, BookingsInvariant, PTL DEF Spec

\* A call about to write whose reads still hold has its interval in the hours.
LEMMA UneditedFits ==
    ASSUME IInv, OffersInv, NEW r \in Calls, calls[r].pc \in {"insert", "move"},
           calls[r].edited = {}
    PROVE  Fits(calls[r].staff, calls[r].startAt, calls[r].endAt)
<1>1. calls[r] \in Call /\ CallOK(r) /\ Holds(calls[r])
  BY CarriesReads DEF Running, PCs
<1> DEFINE start == calls[r].start
           slotEnd == calls[r].slotEnd
           startAt == calls[r].startAt
           endAt == calls[r].endAt
<1>2. /\ start \in Int /\ slotEnd \in Int /\ startAt \in Int /\ endAt \in Int
      /\ calls[r].staff \in Staff
  BY <1>1 DEF Call
<1>3. zone \in Zones /\ calls[r].zone = zone
  BY <1>1 DEF IInv, TypeOK, Holds, ZoneRead
<1>4. /\ startAt = InstantAt(zone, start) /\ start < slotEnd
      /\ endAt - startAt = slotEnd - start
  BY <1>1, <1>3 DEF Holds
<1>5. PICK w \in roster[calls[r].staff].hours : w.start <= start /\ slotEnd <= w.end
  BY <1>1 DEF Holds, Picked, SlotFits
<1>6. w \in Span(Int)
  BY <1>2, <1>5, SchedulesAreSpans DEF IInv, TypeOK, StaffState
<1>7. w.start \in Int /\ w.end \in Int
  BY <1>6 DEF Span
<1>8. CASE zone.shift <= 0
  <2>1. InstantAt(zone, w.start) \in Int /\ InstantAt(zone, w.end) \in Int
    BY <1>3, <1>7, InstantsAreInts
  <2>2. InstantAt(zone, w.start) + 0 <= InstantAt(zone, start)
    BY <1>2, <1>3, <1>5, <1>7, <1>8, NoTimeIsSkipped
  <2>3. InstantAt(zone, start) + (slotEnd - start) <= InstantAt(zone, w.end)
    <3>1. /\ slotEnd - start \in Int /\ 0 <= slotEnd - start
          /\ start + (slotEnd - start) <= w.end
      BY <1>2, <1>4, <1>5, <1>7
    <3>. QED
      BY <1>2, <1>3, <1>7, <1>8, <3>1, NoTimeIsSkipped
  <2> HIDE DEF start, slotEnd, startAt, endAt
  <2>4. InstantAt(zone, w.start) <= startAt /\ endAt <= InstantAt(zone, w.end)
    BY <1>2, <1>4, <2>1, <2>2, <2>3
  <2>. QED
    BY <1>5, <1>8, <2>4 DEF Fits, startAt, endAt
<1>9. CASE ~(zone.shift <= 0)
  <2> HIDE DEF start, slotEnd, startAt, endAt
  <2>1. start \in w.start .. w.end /\ start + (endAt - startAt) <= w.end
    BY <1>2, <1>4, <1>5, <1>7
  <2>2. \E m \in w.start .. w.end :
            startAt = InstantAt(zone, m) /\ m + (endAt - startAt) <= w.end
    BY <1>4, <2>1
  <2>. QED
    BY <1>5, <1>9, <2>2 DEF Fits, startAt, endAt
<1>. QED
  BY <1>8, <1>9

(***************************************************************************)
(* A booking enters its technician's hours as the zone resolves them, or   *)
(* its call has gone by something edited since it was read.                *)
(***************************************************************************)
LEMMA WritesFit ==
    ASSUME IInv, OffersInv, [Next]_vars, NEW b \in BookingIds,
           Confirmed(bookings', b), bookings'[b] # bookings[b]
    PROVE  \/ Fits(bookings'[b].staff, bookings'[b].start, bookings'[b].end)
           \/ \E r \in Calls : /\ calls[r].pc \in {"insert", "move"}
                               /\ calls'[r] # calls[r] /\ calls[r].edited # {}
<1>1. PICK r \in Calls : Insert(r) \/ UpdateSchedule(r) \/ UpdateStatus(r)
  BY Writers
<1>2. ASSUME calls[r].pc \in {"insert", "move"}, calls'[r] # calls[r],
             bookings'[b].staff = calls[r].staff,
             bookings'[b].start = calls[r].startAt, bookings'[b].end = calls[r].endAt
      PROVE  \/ Fits(bookings'[b].staff, bookings'[b].start, bookings'[b].end)
             \/ \E q \in Calls : /\ calls[q].pc \in {"insert", "move"}
                                 /\ calls'[q] # calls[q] /\ calls[q].edited # {}
  <2>1. CASE calls[r].edited = {}
    BY <1>2, <2>1, UneditedFits
  <2>2. CASE calls[r].edited # {}
    BY <1>2, <2>2
  <2>. QED
    BY <2>1, <2>2
<1>3. CASE Insert(r)
  <2>1. PICK c \in BookingIds : /\ bookings' = [bookings EXCEPT ![c] = NewRow(calls[r])]
                                /\ Return(r, calls[r], "OK", c, Shown(calls[r]))
    BY <1>3 DEF Insert
  <2>2. bookings'[b] = NewRow(calls[r])
    BY <2>1 DEF IInv, TypeOK
  <2>3. calls'[r].pc = "done" /\ calls[r].pc = "insert"
    BY <1>3, <2>1 DEF Return, IInv, TypeOK, Insert, At
  <2>. QED
    BY <1>2, <2>2, <2>3 DEF NewRow
<1>4. CASE UpdateSchedule(r)
  <2> DEFINE c == calls[r].id
             row == [bookings[c] EXCEPT !.start = calls[r].startAt, !.end = calls[r].endAt]
  <2>1. /\ bookings' = [bookings EXCEPT ![c] = row] /\ calls[r].pc = "move"
        /\ Goto(r, [calls[r] EXCEPT !.pc = "reread"])
    BY <1>4 DEF UpdateSchedule, At
  <2>2. calls[r] \in Call /\ CallOK(r) /\ Holds(calls[r])
    BY <2>1, CarriesReads DEF Running, PCs
  <2>3. c \in BookingIds /\ bookings[c] # Absent /\ bookings[c].staff = calls[r].staff
    BY <2>1, <2>2 DEF CallOK, Holds
  <2>4. bookings[c] \in Row
    BY <2>3 DEF IInv, TypeOK
  <2>5. /\ row.staff = calls[r].staff
        /\ row.start = calls[r].startAt /\ row.end = calls[r].endAt
    BY <2>3, <2>4 DEF Row
  <2>6. calls'[r].pc = "reread"
    BY <2>1, <2>2 DEF Goto, IInv, TypeOK, Call
  <2> HIDE DEF row, c
  <2>7. bookings'[b] = row
    BY <2>1, <2>3 DEF IInv, TypeOK
  <2>. QED
    BY <1>2, <2>1, <2>5, <2>6, <2>7
<1>5. ~UpdateStatus(r)
  <2>1. ASSUME UpdateStatus(r) PROVE FALSE
    <3> DEFINE c == calls[r].id
    <3>1. bookings' = [bookings EXCEPT ![c].status = Outcome(calls[r].op)] /\ At(r, "settle")
      BY <2>1 DEF UpdateStatus
    <3>2. calls[r].op \in SettleOps
      BY <3>1, CallType DEF CallOK, At, Running, PCs
    <3>3. CASE c = b
      <4>1. CASE bookings[b] \in Row
        BY <3>1, <3>2, <3>3, <4>1 DEF IInv, TypeOK, Confirmed, Outcome, SettleOps, Row
      <4>2. CASE bookings[b] \notin Row
        BY <2>1, <3>3, <4>2 DEF UpdateStatus, Confirmed, IInv, TypeOK
      <4>. QED
        BY <4>1, <4>2
    <3>4. CASE c # b
      <4> HIDE DEF c
      <4>. QED
        BY <3>1, <3>4 DEF IInv, TypeOK
    <3>. QED
      BY <3>3, <3>4
  <2>. QED
    BY <2>1
<1>. QED
  BY <1>1, <1>3, <1>4, <1>5

(***************************************************************************)
(* A booking is created or moved only into its technician's hours as they  *)
(* are when the row is written and as the tenant's zone, clock changes     *)
(* included, resolves them, although the slot check is made statements     *)
(* before: only an edit in between can bring it outside, and then one of   *)
(* something the call itself has read.                                     *)
(***************************************************************************)
THEOREM BookingsKeepHours == Spec => WrittenInsideHours
<1>1. IInv /\ OffersInv /\ [Next]_vars =>
        [\A b \in BookingIds :
            /\ Confirmed(bookings', b) /\ bookings'[b] # bookings[b]
            => \/ Fits(bookings'[b].staff, bookings'[b].start, bookings'[b].end)
               \/ \E r \in Calls : /\ calls[r].pc \in {"insert", "move"}
                                   /\ calls'[r] # calls[r] /\ calls[r].edited # {}]_vars
  BY WritesFit
<1>. QED
  BY <1>1, BookingsInvariant, OffersInvariant, PTL DEF Spec, WrittenInsideHours

\* A creation that is answered with success has just inserted its row.
LEMMA BookedInserts ==
    ASSUME IInv, [Next]_vars, NEW r \in Calls, Booked(r)
    PROVE  /\ Running(r)
           /\ \E b \in BookingIds : /\ bookings'[b] = NewRow(calls[r])
                                    /\ calls'[r].id = b
                                    /\ calls'[r].row = Shown(calls[r])
<1>1. calls'[r].pc = "done" /\ calls'[r].code = "OK" /\ Running(r) /\ calls[r].pc = "insert"
  BY DEF Booked, Succeeded, At, Running, PCs
<1>2. Insert(r)
  <2>1. PICK q \in Calls : Start(q) \/ Step(q)
    <3>1. ~(Edit \/ Tick)
      BY <1>1, WorldMarks, MarkedIsSame
    <3>. QED
      BY <1>1, <3>1 DEF Next, vars
  <2>2. q = r
    BY <1>1, <2>1, OthersStay
  <2>3. ~Start(r)
    BY <1>1 DEF Start, PostBooking, PostReschedule, PostCancel, PostComplete,
       PostNoShow, CallCreate, CallReschedule, CallCancel, CallOutcome, NotFound
  <2>4. ~Abort(r)
    BY <1>1 DEF Abort, Idle, IInv, TypeOK
  <2>. QED
    BY <1>1, <2>1, <2>2, <2>3, <2>4
    DEF Step, At, CheckEnded, ReadTenant, ReadService, ReadStaff, ReadCapabilities,
        ReadHours, PickSlot, DeriveEnd, UpdateSchedule, UpdateStatus, Reread
<1> DEFINE row == NewRow(calls[r])
<1>3. PICK b \in BookingIds :
         /\ bookings[b] = Absent
         /\ IF Excluded(bookings, b, row)
            THEN /\ Refuse(r, "BOOKING_SLOT_UNAVAILABLE")
                 /\ UNCHANGED bookings
            ELSE /\ bookings' = [bookings EXCEPT ![b] = row]
                 /\ Return(r, calls[r], "OK", b, Shown(calls[r]))
  BY <1>2 DEF Insert
<1>4. ~Excluded(bookings, b, row)
  <2>1. ~Refuse(r, "BOOKING_SLOT_UNAVAILABLE")
    BY <1>1 DEF Refuse, Return, IInv, TypeOK
  <2>. QED
    BY <1>3, <2>1
<1>5. calls'[r].row = Shown(calls[r]) /\ calls'[r].id = b
  BY <1>3, <1>4 DEF Return, IInv, TypeOK
<1>6. bookings'[b] = row
  <2>. HIDE DEF row
  <2>. QED
    BY <1>3, <1>4 DEF IInv, TypeOK
<1>. QED
  BY <1>1, <1>5, <1>6

(***************************************************************************)
(* A confirmation names the slot that was stored, in the zone the call     *)
(* read, whatever becomes of the tenant's zone: its start always; its end, *)
(* unless the owner has edited the duration between the call's two reads   *)
(* of it, exactly when the clocks do not change between the slot's ends.   *)
(***************************************************************************)
THEOREM ConfirmationsAreTrue == Spec => ConfirmationMatchesRow
<1>1. ASSUME IInv, OffersInv, [Next]_vars, NEW r \in Calls, Booked(r)
      PROVE  LET slot == calls'[r].row
                 row == bookings'[calls'[r].id]
             IN /\ row.start = InstantAt(slot.zone, slot.start)
                /\ \/ "duration" \in calls[r].edited
                   \/ row.end = InstantAt(slot.zone, slot.end) <=> ~ClocksChange(slot)
  <2>1. PICK b \in BookingIds : /\ bookings'[b] = NewRow(calls[r])
                                /\ calls'[r].id = b /\ calls'[r].row = Shown(calls[r])
    BY <1>1, BookedInserts
  <2> DEFINE z == calls[r].zone
             slot == Shown(calls[r])
  <2>2. calls[r] \in Call /\ CallOK(r) /\ Holds(calls[r]) /\ calls[r].pc = "insert"
    BY <1>1, CarriesReads DEF Booked, At, Running, PCs
  <2>3. /\ calls[r].start \in Int /\ calls[r].slotEnd \in Int
        /\ calls[r].startAt \in Int /\ calls[r].endAt \in Int
    BY <2>2 DEF Call
  <2>4. z \in Zones /\ calls[r].startAt = InstantAt(z, calls[r].start)
    BY <2>2 DEF CallOK, ZoneRead, Holds
  <2>5. InstantAt(z, calls[r].slotEnd) \in Int
    BY <2>3, <2>4, InstantsAreInts
  <2>6. slot.start = calls[r].start /\ slot.end = calls[r].slotEnd /\ slot.zone = z
    BY DEF Shown
  <2>7. CASE "duration" \notin calls[r].edited
    <3>1. calls[r].endAt - calls[r].startAt = calls[r].slotEnd - calls[r].start
      BY <2>2, <2>7 DEF Holds
    <3>2. ~ClocksChange(slot) <=> InstantAt(z, calls[r].slotEnd) - InstantAt(z, calls[r].start)
              = calls[r].slotEnd - calls[r].start
      <4> HIDE DEF z, slot
      <4>. QED
        BY <2>6 DEF ClocksChange
    <3>3. calls[r].endAt = InstantAt(z, calls[r].slotEnd)
            <=> InstantAt(z, calls[r].slotEnd) - InstantAt(z, calls[r].start)
                    = calls[r].slotEnd - calls[r].start
      <4> HIDE DEF z
      <4>. QED
        BY <2>3, <2>4, <2>5, <3>1
    <3>4. calls[r].endAt = InstantAt(z, calls[r].slotEnd) <=> ~ClocksChange(slot)
      BY <3>2, <3>3
    <3>. QED
      BY <2>1, <2>4, <2>6, <3>4 DEF NewRow
  <2>8. CASE "duration" \in calls[r].edited
    BY <2>1, <2>4, <2>6, <2>8 DEF NewRow
  <2>. QED
    BY <2>7, <2>8
<1>2. IInv /\ OffersInv /\ [Next]_vars =>
        [\A r \in Calls :
            Booked(r) =>
                LET slot == calls'[r].row
                    row == bookings'[calls'[r].id]
                IN /\ row.start = InstantAt(slot.zone, slot.start)
                   /\ \/ "duration" \in calls[r].edited
                      \/ row.end = InstantAt(slot.zone, slot.end) <=> ~ClocksChange(slot)]_calls
  BY <1>1
<1>. QED
  BY <1>2, BookingsInvariant, OffersInvariant, PTL DEF Spec, ConfirmationMatchesRow

=============================================================================
