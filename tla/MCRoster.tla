------------------------------ MODULE MCRoster ------------------------------
(***************************************************************************)
(* Small instances of Roster.tla for TLC.                                  *)
(***************************************************************************)
EXTENDS Roster, TLC

\* Two intervals that touch, and one that overlaps both.
MorningAfternoonDay == {[start |-> 0, end |-> 1], [start |-> 1, end |-> 2], [start |-> 0, end |-> 2]}

Symmetric == Permutations(Calls) \cup Permutations(Staff) \cup Permutations(Services)

=============================================================================
