----------------------------- MODULE MCBookings -----------------------------
(***************************************************************************)
(* Small instances of Bookings.tla for TLC.                                *)
(***************************************************************************)
EXTENDS Bookings, TLC

\* The day in one stretch, or with a break after the first tick and room for
\* either duration after it.
WholeDay == {[start |-> 0, end |-> 2]}
BrokenDay == {[start |-> 0, end |-> 1], [start |-> 1, end |-> 3]}

\* Two stretches that overlap, as two replacements of a schedule that run at
\* once may leave them (RosterOverlap): slots of one service that overlap.
LappedDay == {[start |-> 0, end |-> 2], [start |-> 1, end |-> 3]}

OneSchedule == {WholeDay}
LappedSchedule == {LappedDay}
TwoSchedules == {WholeDay, BrokenDay}

\* Civil dates of four ticks at most: an ordinary one, one that begins a tick
\* earlier, one with a repeated tick and one with a skipped tick.
Utc == NoTransition
East == [NoTransition EXCEPT !.midnight = -1]
FallBack == [NoTransition EXCEPT !.at = 1, !.shift = -1]
SpringForward == [NoTransition EXCEPT !.at = 1, !.shift = 1]

OneZone == {Utc}
EveryZone == {Utc, East, FallBack, SpringForward}

Symmetric == Permutations(BookingIds) \cup Permutations(Calls)

=============================================================================
