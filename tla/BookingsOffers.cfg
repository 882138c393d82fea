CONSTANTS
    BookingIds = {b1, b2}
    Services = {sv}
    Staff = {st}
    Absent = Absent
    Calls = {r1}
    Durations = {1, 2}
    Schedules <- TwoSchedules
    Zones <- EveryZone
    DayLength = 3
    MaxTime = 1
    Operations = {"create", "reschedule"}
    Edits = {"zone", "duration", "hours", "archive"}
SPECIFICATION Spec
INVARIANT OwnSlotOffered
PROPERTIES WrittenInsideHours ConfirmationMatchesRow
