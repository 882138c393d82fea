----------------------------- MODULE SlotEngine -----------------------------
(***************************************************************************)
(* The loop of availability.Generate, one candidate per step: the working  *)
(* intervals in the order the caller passes them, candidates stepped by    *)
(* the service's duration, each resolved to an instant on a day that may   *)
(* have an offset transition, labels deduplicated and sorted at the end.   *)
(* Slots.tla says what the result should be.  SlotStep is never set by the *)
(* code that calls the engine.                                             *)
(***************************************************************************)
EXTENDS Slots, Sequences, SequencesExt

CONSTANTS
    Durations,    \* the service's duration
    Intervals,    \* the working intervals of a day, well formed or not
    MaxIntervals, \* bound: intervals per day
    Occupied,     \* sets of occupied real spans
    Nows,         \* the clock
    Zones         \* the day's offset behaviour in the tenant's zone

ASSUME EngineDurationsArePositive == Durations \subseteq Nat \ {0}

ASSUME EngineQueriesAreQueries ==
    /\ Intervals \subseteq Span(Int)
    /\ MaxIntervals \in Nat
    /\ Occupied \subseteq SUBSET Span(Int)
    /\ Nows \subseteq Int
    /\ Zones \subseteq Zone(Int)

VARIABLES
    q,       \* the query; q.working is a sequence
    i,       \* the interval the loop is in
    start,   \* candidateStart
    slots,   \* the labels appended so far
    pc

vars == <<q, i, start, slots, pc>>

Duration == q.duration

Init ==
    /\ q \in [duration : Durations, working : SeqOf(Intervals, MaxIntervals),
              occupied : Occupied, now : Nows, zone : Zones]
    /\ i = 1
    /\ start = 0
    /\ slots = << >>
    /\ pc = "interval"

\* An interval that does not run forwards is skipped, not fatal.
EnterInterval ==
    /\ pc = "interval" /\ i <= Len(q.working)
    /\ \/ /\ q.working[i].start >= q.working[i].end
          /\ i' = i + 1
          /\ UNCHANGED <<start, pc>>
       \/ /\ q.working[i].start < q.working[i].end
          /\ start' = q.working[i].start
          /\ pc' = "candidate"
          /\ UNCHANGED i
    /\ UNCHANGED <<q, slots>>

\* The loop's condition: the candidate ends by the interval's end.
Fits == start + Duration <= q.working[i].end

\* Past, taken, and seen candidates are passed over.
Passed == InstantAt(q.zone, start) < q.now

Taken == OverlapsAny(RealSpan(q.zone, start, Duration), q.occupied)

\* Mutant: labels are not deduplicated.
SeenNever == FALSE

Seen == start \in ToSet(slots)

\* Mutant: every start of the day's grid is a candidate.
NextStartByTick == start + 1

\* Mutant: passing over a taken candidate does not advance the loop.
NextStartStuck == IF Taken THEN start ELSE start + Duration

NextStart == start + Duration

LeaveInterval ==
    /\ pc = "candidate" /\ ~Fits
    /\ i' = i + 1
    /\ pc' = "interval"
    /\ UNCHANGED <<q, start, slots>>

TryCandidate ==
    /\ pc = "candidate" /\ Fits
    /\ slots' = IF Passed \/ Taken \/ Seen THEN slots ELSE Append(slots, start)
    /\ start' = NextStart
    /\ UNCHANGED <<q, i, pc>>

\* The positions of s that sort.Slice leaves up to and including where s[j]
\* goes; equal labels cannot be told apart, so they may as well keep their order.
UpTo(s, j) ==
    { k \in DOMAIN s : s[k] < s[j] \/ (s[k] = s[j] /\ k <= j) }

Ascending(s) ==
    [n \in DOMAIN s |-> s[CHOOSE j \in DOMAIN s : Cardinality(UpTo(s, j)) = n]]

SortSlots ==
    /\ pc = "interval" /\ i > Len(q.working)
    /\ slots' = Ascending(slots)
    /\ pc' = "done"
    /\ UNCHANGED <<q, i, start>>

Next == EnterInterval \/ LeaveInterval \/ TryCandidate \/ SortSlots

Spec == Init /\ [][Next]_vars /\ WF_vars(Next)

-----------------------------------------------------------------------------
TypeOK ==
    /\ i \in 1 .. Len(q.working) + 1
    /\ start \in Int
    /\ slots \in Seq(Int)
    /\ pc \in {"interval", "candidate", "done"}

Offered == ToSet(slots)

Done == pc = "done"

WellFormed ==   \* what ValidateWeeklySchedule accepts
    \A j, k \in DOMAIN q.working :
        /\ q.working[j].start < q.working[j].end
        /\ j # k => ~Overlaps(q.working[j], q.working[k])

\* The loop stays within its bounds and returns what Slots!Generate says, in
\* ascending order without duplicates, whatever the order of the intervals and
\* even if they overlap.
ResultIsGenerate ==
    /\ TypeOK
    /\ Done =>
        /\ Offered = Generate([q EXCEPT !.working = ToSet(q.working)])
        /\ \A j \in 1 .. Len(slots) - 1 : slots[j] < slots[j + 1]

\* On an ordinary day and on one with a repeated hour, every offer can be
\* kept: two never claim the same real time, so booking one leaves the other
\* bookable, and each is over, in real time, by the end of a working interval
\* it starts in.
OffersDisjoint ==
    \A m, n \in Offered :
        m # n => ~Overlaps(RealSpan(q.zone, m, Duration), RealSpan(q.zone, n, Duration))

EndsByClosing ==
    \A m \in Offered : \E w \in ToSet(q.working) :
        /\ w.start <= m
        /\ InstantAt(q.zone, m) + Duration <= InstantAt(q.zone, w.end)

OffersCanBeKept ==
    (Done /\ q.zone.shift <= 0) => EndsByClosing /\ (WellFormed => OffersDisjoint)

\* The loop's invariant: what has been appended is what is bookable among the
\* candidates of the intervals the loop has left and, of the one it is in,
\* the candidates before candidateStart; and candidateStart is on the grid.
Query == [duration : Nat \ {0}, working : Seq(Span(Int)),
          occupied : SUBSET Span(Int), now : Int, zone : Zone(Int)]

Bookable(m) ==
    /\ InstantAt(q.zone, m) >= q.now
    /\ ~OverlapsAny(RealSpan(q.zone, m, Duration), q.occupied)

Behind == UNION { Candidates(q.working[j], Duration) : j \in 1 .. i - 1 }

Visited == IF pc = "candidate"
           THEN { m \in Candidates(q.working[i], Duration) : m < start }
           ELSE {}

OnGrid == /\ i <= Len(q.working)
          /\ start >= q.working[i].start
          /\ (start - q.working[i].start) % Duration = 0

LoopInv ==
    /\ TypeOK
    /\ q \in Query
    /\ Offered = { m \in Behind \cup Visited : Bookable(m) }
    /\ \A j, k \in DOMAIN slots : slots[j] = slots[k] => j = k
    /\ pc = "candidate" => OnGrid
    /\ Done => i = Len(q.working) + 1 /\ \A j, k \in DOMAIN slots : j < k => slots[j] < slots[k]

\* Why it ends: no continue of the loop leaves it where it was.  A step ends
\* the loop, leaves an interval, enters one, or comes nearer to the end of the
\* one it is in without passing it.
Room == q.working[i].end - start

Advances ==
    \/ Done'
    \/ i' = i + 1
    \/ i' = i /\ pc = "interval" /\ pc' = "candidate"
    \/ i' = i /\ pc = "candidate" /\ pc' = "candidate" /\ 0 <= Room' /\ Room' < Room

\* The loop ends for every query.
Terminates == <>Done

=============================================================================
