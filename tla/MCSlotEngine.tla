---------------------------- MODULE MCSlotEngine ----------------------------
(***************************************************************************)
(* Small days for SlotEngine.tla: six ticks, a transition in the middle,   *)
(* one interval of the wrong direction among the working intervals.        *)
(***************************************************************************)
EXTENDS SlotEngine

SmallIntervals ==
    { w \in Span({0, 1, 3, 6}) : w.start < w.end } \cup {[start |-> 3, end |-> 1]}

NothingOrOne == {{}} \cup { {[start |-> s, end |-> s + d]} : s \in 0 .. 4, d \in {1, 3} }

Ordinary == {NoTransition}

\* The repeated hour: both readings time.Date may take.
FallBack == { [NoTransition EXCEPT !.at = 3, !.shift = -s, !.late = l] : s \in {1, 2}, l \in BOOLEAN }

SpringForward == { [NoTransition EXCEPT !.at = 3, !.shift = s, !.late = l] : s \in {1, 2}, l \in BOOLEAN }

EveryZone == Ordinary \cup FallBack \cup SpringForward

=============================================================================
