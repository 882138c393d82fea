CONSTANTS
    BookingIds = {b1, b2}
    Services = {sv}
    Staff = {st}
    Absent = Absent
    Calls = {r1, r2}
    Durations = {1, 2}
    Schedules <- LappedSchedule
    Zones <- OneZone
    DayLength = 3
    MaxTime = 1
    Operations = {"create", "reschedule", "cancel", "complete", "no_show"}
    Edits = {"bookable", "capabilities"}
SPECIFICATION Spec
SYMMETRY Symmetric
INVARIANTS IInv NoDoubleBooking SettleReplyIsLast
PROPERTIES ImplementsLedger SettledIsFinal EarlyOnlyByMove
