------------------------------- MODULE Slots -------------------------------
(***************************************************************************)
(* The scheduling arithmetic of internal/scheduling/availability: working  *)
(* intervals, the half-open overlap rule, the wall-clock-to-instant        *)
(* conversion and what a bookable slot is.  A wall-clock time (a label) is *)
(* a number of minutes from 00:00 of one civil date; an instant is one of  *)
(* real time, counted from 00:00 UTC of that date.  A tick of a model may  *)
(* stand for any number of minutes.                                        *)
(***************************************************************************)
EXTENDS Integers, FiniteSets

(***************************************************************************)
(* A working interval, and an occupied one, is a half-open span.           *)
(***************************************************************************)
Span(Time) == [start : Time, end : Time]

\* Half-open overlap: spans that only touch do not overlap.
Overlaps(a, b) == a.start < b.end /\ a.end > b.start

OverlapsAny(span, occupied) == \E o \in occupied : Overlaps(span, o)

(***************************************************************************)
(* A zone is the offset behaviour of the civil date: it begins at instant  *)
(* zone.midnight, and at wall-clock minute zone.at the clocks jump forward *)
(* by zone.shift (shift > 0), fall back by -zone.shift (shift < 0) or do   *)
(* nothing (shift = 0).  A wall-clock time inside the gap or the repeated  *)
(* hour has two candidate offsets; zone.late says which one Go's time.Date *)
(* takes.                                                                  *)
(***************************************************************************)
Zone(Time) == [midnight : Time, at : Time, shift : Int, late : BOOLEAN]

NoTransition == [midnight |-> 0, at |-> 0, shift |-> 0, late |-> FALSE]

Ambiguous(zone, m) ==
    IF zone.shift >= 0 THEN zone.at <= m /\ m < zone.at + zone.shift
                       ELSE zone.at + zone.shift <= m /\ m < zone.at

\* The instant time.Date gives the wall-clock time m.
InstantAt(zone, m) ==
    IF \/ Ambiguous(zone, m) /\ zone.late
       \/ ~Ambiguous(zone, m) /\ m >= zone.at
    THEN zone.midnight + (m - zone.shift)
    ELSE zone.midnight + m

\* Mutant: a candidate may run one minute past the end of its interval.
CandidatesPastClosing(working, duration) ==
    { m \in working.start .. (working.end + 1 - duration) :
        (m - working.start) % duration = 0 }

(***************************************************************************)
(* The candidate starts of one working interval: steps of the service's    *)
(* duration from the interval's start that end by the interval's end.      *)
(***************************************************************************)
Candidates(working, duration) ==
    { m \in working.start .. (working.end - duration) :
        (m - working.start) % duration = 0 }

\* The real span the engine gives a candidate that starts at wall-clock m.
RealSpan(zone, m, duration) ==
    [start |-> InstantAt(zone, m), end |-> InstantAt(zone, m) + duration]

(***************************************************************************)
(* What Generate returns, as a set of wall-clock starts: every candidate   *)
(* that is not in the past and overlaps no occupied span.                  *)
(***************************************************************************)
Generate(q) ==
    { m \in UNION { Candidates(w, q.duration) : w \in q.working } :
        /\ InstantAt(q.zone, m) >= q.now
        /\ ~OverlapsAny(RealSpan(q.zone, m, q.duration), q.occupied) }

=============================================================================
