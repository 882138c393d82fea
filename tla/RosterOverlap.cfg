CONSTANTS
    Staff = {st1}
    Services = {}
    Foreign = {}
    Spans <- MorningAfternoonDay
    Calls = {c1, c2}
    Absent = Absent
    MaxItems = 2
    Operations = {"hours"}
SPECIFICATION Spec
CHECK_DEADLOCK FALSE
SYMMETRY Symmetric

INVARIANT SchedulesDisjoint
