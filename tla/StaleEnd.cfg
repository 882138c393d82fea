CONSTANTS
    BookingIds = {b1, b2}
    Services = {sv}
    Staff = {st}
    Absent = Absent
    Calls = {r1, r2}
    Durations = {1, 2}
    Schedules <- OneSchedule
    Zones <- OneZone
    DayLength = 3
    MaxTime = 2
    Operations = {"create", "reschedule", "complete"}
    Edits = {}
SPECIFICATION Spec
SYMMETRY Symmetric
INVARIANT OutcomeAfterEnd
