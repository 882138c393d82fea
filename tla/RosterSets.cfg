CONSTANTS
    Staff = {st1}
    Services = {sv1, sv2}
    Foreign = {x}
    Spans <- MorningAfternoonDay
    Calls = {c1, c2}
    Absent = Absent
    MaxItems = 2
    Operations = {"hours", "capabilities", "technicians"}
SPECIFICATION FairSpec
CHECK_DEADLOCK FALSE
INVARIANTS IInv SchedulesAreWhole AloneIsExact OverlapOnlyByRace
PROPERTY EveryCallAnswered
