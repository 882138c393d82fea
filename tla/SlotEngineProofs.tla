-------------------------- MODULE SlotEngineProofs --------------------------
(***************************************************************************)
(* The candidate loop returns what Slots!Generate says, for every          *)
(* duration, schedule, occupancy, clock and zone; and on days that skip no *)
(* time what it returns can be kept.                                       *)
(***************************************************************************)
EXTENDS SlotEngine, FiniteSetTheorems, TLAPS

-----------------------------------------------------------------------------
(***************************************************************************)
(* Sorting.                                                                *)
(***************************************************************************)

(***************************************************************************)
(* What stays up to a later label is more, by at least that label.         *)
(***************************************************************************)
LEMMA UpToGrows ==
    ASSUME NEW s \in Seq(Int), NEW j \in DOMAIN s, NEW k \in DOMAIN s,
           s[j] < s[k] \/ (s[j] = s[k] /\ j < k)
    PROVE  Cardinality(UpTo(s, j)) < Cardinality(UpTo(s, k))
<1>1. DOMAIN s = 1 .. Len(s) /\ IsFiniteSet(DOMAIN s)
  BY FS_Interval
<1>2. UpTo(s, j) \in SUBSET UpTo(s, k) /\ k \in UpTo(s, k) /\ k \notin UpTo(s, j)
  BY <1>1 DEF UpTo
<1>3. IsFiniteSet(UpTo(s, k))
  BY <1>1, FS_Subset DEF UpTo
<1>4. /\ Cardinality(UpTo(s, j)) <= Cardinality(UpTo(s, k))
      /\ Cardinality(UpTo(s, k)) = Cardinality(UpTo(s, j)) => UpTo(s, k) = UpTo(s, j)
      /\ IsFiniteSet(UpTo(s, j))
  BY <1>2, <1>3, FS_Subset
<1>5. Cardinality(UpTo(s, j)) \in Nat /\ Cardinality(UpTo(s, k)) \in Nat
  BY <1>3, <1>4, FS_CardinalityType
<1>. QED
  BY <1>2, <1>4, <1>5

(***************************************************************************)
(* The place of a label is a position of the list.                         *)
(***************************************************************************)
LEMMA PlaceIsPosition ==
    ASSUME NEW s \in Seq(Int), NEW j \in DOMAIN s
    PROVE  Cardinality(UpTo(s, j)) \in DOMAIN s
<1>1. /\ DOMAIN s = 1 .. Len(s) /\ Len(s) \in Nat
      /\ IsFiniteSet(DOMAIN s) /\ Cardinality(DOMAIN s) = Len(s)
  BY FS_Interval
<1>2. UpTo(s, j) \in SUBSET DOMAIN s /\ j \in UpTo(s, j)
  BY <1>1 DEF UpTo
<1>3. IsFiniteSet(UpTo(s, j)) /\ Cardinality(UpTo(s, j)) <= Len(s)
  BY <1>1, <1>2, FS_Subset
<1>4. Cardinality(UpTo(s, j)) \in Nat
  BY <1>3, FS_CardinalityType
<1>5. Cardinality(UpTo(s, j)) # 0
  BY <1>2, <1>3, FS_EmptySet
<1>. QED
  BY <1>1, <1>3, <1>4, <1>5

(***************************************************************************)
(* Every position of the result takes the label of exactly one position.   *)
(***************************************************************************)
LEMMA PlacesAreTaken ==
    ASSUME NEW s \in Seq(Int), NEW n \in DOMAIN s
    PROVE  \E j \in DOMAIN s : Cardinality(UpTo(s, j)) = n
<1> DEFINE place == [j \in DOMAIN s |-> Cardinality(UpTo(s, j))]
<1>1. /\ DOMAIN s = 1 .. Len(s) /\ Len(s) \in Nat
      /\ IsFiniteSet(DOMAIN s) /\ Cardinality(DOMAIN s) = Len(s)
  BY FS_Interval
<1>2. place \in [DOMAIN s -> DOMAIN s]
  BY PlaceIsPosition
<1>3. ASSUME NEW j \in DOMAIN s, NEW k \in DOMAIN s, j # k
      PROVE  place[j] # place[k]
  <2>1. s[j] \in Int /\ s[k] \in Int /\ j \in Int /\ k \in Int
    BY <1>1
  <2>2. \/ s[j] < s[k] \/ (s[j] = s[k] /\ j < k)
        \/ s[k] < s[j] \/ (s[k] = s[j] /\ k < j)
    BY <1>3, <2>1
  <2>3. place[j] \in Nat /\ place[k] \in Nat
    BY <1>1, <1>2
  <2>. QED
    BY <2>2, <2>3, UpToGrows
<1>4. place \in Injection(DOMAIN s, DOMAIN s)
  BY <1>2, <1>3 DEF Injection, IsInjective
<1>5. place \in Surjection(DOMAIN s, DOMAIN s)
  <2> HIDE DEF place
  <2>. QED
    BY <1>1, <1>4, FS_Injection
<1>. QED
  BY <1>5 DEF Surjection

(***************************************************************************)
(* Sorting keeps the labels and puts them in order; labels that were       *)
(* different stay so.                                                      *)
(***************************************************************************)
LEMMA AscendingSorts ==
    ASSUME NEW s \in Seq(Int),
           \A j, k \in DOMAIN s : s[j] = s[k] => j = k
    PROVE  /\ Ascending(s) \in Seq(Int)
           /\ Len(Ascending(s)) = Len(s)
           /\ ToSet(Ascending(s)) = ToSet(s)
           /\ \A j, k \in DOMAIN s : j < k => Ascending(s)[j] < Ascending(s)[k]
<1> DEFINE from(n) == CHOOSE j \in DOMAIN s : Cardinality(UpTo(s, j)) = n
           t == Ascending(s)
<1>1. DOMAIN s = 1 .. Len(s) /\ Len(s) \in Nat
  OBVIOUS
<1>2. ASSUME NEW n \in DOMAIN s
      PROVE  from(n) \in DOMAIN s /\ Cardinality(UpTo(s, from(n))) = n
  BY PlacesAreTaken
<1>3. t = [n \in DOMAIN s |-> s[from(n)]]
  BY DEF Ascending
<1> HIDE DEF from, t
<1>4. t \in Seq(Int) /\ Len(t) = Len(s) /\ DOMAIN t = DOMAIN s
  BY <1>1, <1>2, <1>3
<1>5. ASSUME NEW j \in DOMAIN s
      PROVE  j \in { from(n) : n \in DOMAIN s }
  <2> DEFINE n == Cardinality(UpTo(s, j))
  <2>1. n \in DOMAIN s
    BY PlaceIsPosition
  <2>2. s[j] \in Int /\ s[from(n)] \in Int /\ j \in Int /\ from(n) \in Int
    BY <1>1, <1>2, <2>1
  <2>3. Cardinality(UpTo(s, from(n))) = n
    BY <1>2, <2>1
  <2>4. j = from(n)
    <3> HIDE DEF n
    <3>1. ASSUME j # from(n) PROVE FALSE
      <4>1. \/ s[j] < s[from(n)] \/ (s[j] = s[from(n)] /\ j < from(n))
            \/ s[from(n)] < s[j] \/ (s[from(n)] = s[j] /\ from(n) < j)
        BY <2>2, <3>1
      <4>2. Cardinality(UpTo(s, j)) = n
        BY DEF n
      <4>3. from(n) \in DOMAIN s
        BY <1>2, <2>1
      <4>. QED
        BY <1>1, <2>1, <2>3, <4>1, <4>2, <4>3, UpToGrows
    <3>. QED
      BY <3>1
  <2>. QED
    BY <2>1, <2>4
<1>6. ToSet(t) = ToSet(s)
  <2>1. ASSUME NEW m \in ToSet(t) PROVE m \in ToSet(s)
    BY <1>2, <1>3, <1>4, <2>1 DEF ToSet
  <2>2. ASSUME NEW m \in ToSet(s) PROVE m \in ToSet(t)
    <3>1. PICK j \in DOMAIN s : m = s[j]
      BY <2>2 DEF ToSet
    <3>2. PICK n \in DOMAIN s : j = from(n)
      BY <1>5
    <3>. QED
      BY <1>3, <1>4, <3>1, <3>2 DEF ToSet
  <2>. QED
    BY <2>1, <2>2
<1>7. ASSUME NEW j \in DOMAIN s, NEW k \in DOMAIN s, j < k
      PROVE  t[j] < t[k]
  <2>1. /\ from(j) \in DOMAIN s /\ Cardinality(UpTo(s, from(j))) = j
        /\ from(k) \in DOMAIN s /\ Cardinality(UpTo(s, from(k))) = k
    BY <1>2
  <2>2. s[from(j)] \in Int /\ s[from(k)] \in Int /\ j \in Int /\ k \in Int
    BY <1>1, <2>1
  <2>3. s[from(j)] # s[from(k)]
    BY <1>7, <2>1, <2>2
  <2>4. ~(s[from(k)] < s[from(j)])
    BY <1>7, <2>1, <2>2, UpToGrows
  <2>. QED
    BY <1>3, <2>2, <2>3, <2>4
<1>. QED
  BY <1>4, <1>6, <1>7 DEF t

-----------------------------------------------------------------------------
(***************************************************************************)
(* The grid of candidates.                                                 *)
(***************************************************************************)

(***************************************************************************)
(* The next multiple of the duration is a duration away.                   *)
(***************************************************************************)
LEMMA NextMultiple ==
    ASSUME NEW d \in Nat \ {0}, NEW x \in Int, x % d = 0
    PROVE  /\ (x + d) % d = 0
           /\ \A y \in Int : y % d = 0 /\ x < y => x + d <= y
<1>1. PICK k \in Int : x = d * k
  OBVIOUS
<1>2. x + d = d * (k + 1) /\ k + 1 \in Int
  BY <1>1
<1>3. ASSUME NEW n \in Int, NEW l \in Int, n = d * l
      PROVE  n % d = 0
  BY <1>3
<1>4. ASSUME NEW l \in Int, k < l
      PROVE  d * k + d <= d * l
  BY <1>4
<1>5. ASSUME NEW l \in Int, ~(k < l)
      PROVE  d * l <= d * k
  BY <1>5
<1>6. ASSUME NEW y \in Int, y % d = 0, x < y
      PROVE  x + d <= y
  <2>1. PICK l \in Int : y = d * l
    BY <1>6
  <2>2. k < l
    BY <1>1, <1>5, <1>6, <2>1
  <2>. QED
    BY <1>1, <1>4, <2>1, <2>2
<1>. QED
  BY <1>2, <1>3, <1>6

(***************************************************************************)
(* What a candidate is, by its members.                                    *)
(***************************************************************************)
LEMMA CandidateMeans ==
    ASSUME NEW w \in Span(Int), NEW d \in Nat \ {0}
    PROVE  \A m : m \in Candidates(w, d) <=>
               /\ m \in Int
               /\ w.start <= m
               /\ m + d <= w.end
               /\ (m - w.start) % d = 0
BY DEF Candidates, Span

(***************************************************************************)
(* The first candidate is the interval's start, the next one is a duration *)
(* further, and there is none beyond the interval's end.                   *)
(***************************************************************************)
LEMMA CandidatesInOrder ==
    ASSUME NEW w \in Span(Int), NEW d \in Nat \ {0}, NEW m \in Int,
           w.start <= m, (m - w.start) % d = 0
    PROVE  /\ ((m + d) - w.start) % d = 0
           /\ m + d > w.end => \A n \in Candidates(w, d) : n < m
           /\ m + d <= w.end => m \in Candidates(w, d)
           /\ \A n \in Candidates(w, d) : n < m + d => n <= m
<1>1. w.start \in Int /\ w.end \in Int
  BY DEF Span
<1>2. m - w.start \in Int
  BY <1>1
<1>3. ((m + d) - w.start) % d = 0
  <2>1. PICK s \in Int : s = w.start
    BY <1>1
  <2>2. (m + d) - s = (m - s) + d
    BY <2>1
  <2>. QED
    BY <1>2, <2>1, <2>2, NextMultiple
<1>4. ASSUME NEW n \in Candidates(w, d), n < m + d
      PROVE  n <= m
  <2>1. n \in Int /\ (n - w.start) % d = 0 /\ n - w.start \in Int
    BY <1>1, <1>4, CandidateMeans
  <2>2. m - w.start < n - w.start => (m - w.start) + d <= n - w.start
    BY <1>2, <2>1, NextMultiple
  <2>. QED
    BY <1>1, <1>4, <2>1, <2>2
<1>. QED
  BY <1>1, <1>3, <1>4, CandidateMeans

-----------------------------------------------------------------------------
(***************************************************************************)
(* The loop.                                                               *)
(***************************************************************************)

(***************************************************************************)
(* The types a query's parts have.                                         *)
(***************************************************************************)
LEMMA QueryParts ==
    ASSUME LoopInv
    PROVE  /\ Duration \in Nat \ {0} /\ q.now \in Int /\ q.zone \in Zone(Int)
           /\ q.occupied \in SUBSET Span(Int)
           /\ q.working \in Seq(Span(Int))
           /\ \A j \in 1 .. Len(q.working) : q.working[j] \in Span(Int)
           /\ Len(q.working) \in Nat
BY DEF LoopInv, Query, Duration

(***************************************************************************)
(* An instant is a number, and so are a real span's ends.                  *)
(***************************************************************************)
LEMMA InstantType ==
    ASSUME NEW zone \in Zone(Int), NEW m \in Int
    PROVE  InstantAt(zone, m) \in Int
BY DEF Zone, InstantAt

(***************************************************************************)
(* The loop appends the labels that are bookable and not there yet.        *)
(***************************************************************************)
LEMMA PassedOver ==
    ASSUME LoopInv
    PROVE  Bookable(start) <=> ~Passed /\ ~Taken
<1>1. start \in Int
  BY DEF LoopInv, TypeOK
<1>2. InstantAt(q.zone, start) \in Int /\ q.now \in Int
  BY <1>1, QueryParts, InstantType
<1>. QED
  BY <1>2 DEF Bookable, Passed, Taken

(***************************************************************************)
(* Before the first interval nothing is behind.                            *)
(***************************************************************************)
LEMMA InitLoop == Init => LoopInv
<1> SUFFICES ASSUME Init PROVE LoopInv
  OBVIOUS
<1>1. q.working \in Seq(Span(Int))
  <2>1. q.working \in SeqOf(Intervals, MaxIntervals)
    BY DEF Init
  <2>2. PICK m \in 0 .. MaxIntervals : q.working \in [1 .. m -> Intervals]
    BY <2>1, EngineQueriesAreQueries DEF SeqOf
  <2>3. q.working \in Seq(Intervals)
    BY <2>2, EngineQueriesAreQueries
  <2>. QED
    BY <2>3, EngineQueriesAreQueries
<1>2. q \in Query
  BY <1>1, EngineQueriesAreQueries, EngineDurationsArePositive DEF Init, Query
<1>3. TypeOK
  BY <1>1 DEF Init, TypeOK
<1>4. Offered = {} /\ Behind = {} /\ Visited = {}
  BY DEF Init, Offered, Behind, Visited, ToSet
<1>. QED
  BY <1>2, <1>3, <1>4 DEF Init, LoopInv, Done

(***************************************************************************)
(* Moving on to the next interval leaves one more behind.                  *)
(***************************************************************************)
LEMMA BehindGrows ==
    ASSUME LoopInv, i <= Len(q.working), q' = q, i' = i + 1
    PROVE  Behind' = Behind \cup Candidates(q.working[i], Duration)
<1>1. i \in Int /\ 1 <= i
  BY QueryParts DEF LoopInv, TypeOK
<1>2. 1 .. i' - 1 = (1 .. i - 1) \cup {i}
  BY <1>1
<1>. QED
  BY <1>2 DEF Behind, Duration

(***************************************************************************)
(* Entering an interval, or skipping one, reaches no candidate.            *)
(***************************************************************************)
LEMMA EnterKeepsLoop == ASSUME LoopInv, EnterInterval PROVE LoopInv'
<1> DEFINE w == q.working[i]
<1>1. /\ pc = "interval" /\ i \in 1 .. Len(q.working) /\ Len(q.working) \in Nat
      /\ q' = q /\ slots' = slots
  BY QueryParts DEF EnterInterval, LoopInv, TypeOK
<1>2. w \in Span(Int) /\ w.start \in Int /\ w.end \in Int /\ Duration \in Nat \ {0}
  BY <1>1, QueryParts DEF Span
<1>3. /\ \A j, k \in DOMAIN slots : slots[j] = slots[k] => j = k
      /\ slots \in Seq(Int) /\ start \in Int /\ q \in Query
      /\ Offered = { m \in Behind : Bookable(m) }
  BY <1>1 DEF LoopInv, TypeOK, Visited
<1>4. Offered' = Offered /\ \A m : Bookable(m)' <=> Bookable(m)
  BY <1>1 DEF Offered, Bookable, Duration
<1>5. CASE w.start >= w.end /\ i' = i + 1 /\ UNCHANGED <<start, pc>>
  <2>1. Candidates(w, Duration) = {}
    BY <1>2, <1>5, CandidateMeans
  <2>2. Behind' = Behind
    BY <1>1, <1>5, <2>1, BehindGrows
  <2>3. Visited' = {}
    BY <1>1, <1>5 DEF Visited
  <2>4. Offered' = { m \in Behind' \cup Visited' : Bookable(m)' }
    BY <1>3, <1>4, <2>2, <2>3
  <2>5. TypeOK'
    BY <1>1, <1>3, <1>5 DEF TypeOK
  <2>. QED
    BY <1>1, <1>3, <1>5, <2>4, <2>5 DEF LoopInv, Done
<1>6. CASE w.start < w.end /\ start' = w.start /\ pc' = "candidate" /\ UNCHANGED i
  <2>1. Behind' = Behind
    BY <1>1, <1>6 DEF Behind, Duration
  <2>2. Visited' = { m \in Candidates(w, Duration) : m < w.start }
    BY <1>1, <1>6 DEF Visited, Duration
  <2>3. Visited' = {}
    BY <1>2, <2>2, CandidateMeans
  <2>4. Offered' = { m \in Behind' \cup Visited' : Bookable(m)' }
    BY <1>3, <1>4, <2>1, <2>3
  <2>5. TypeOK'
    BY <1>1, <1>2, <1>3, <1>6 DEF TypeOK
  <2>6. OnGrid'
    <3>1. (w.start - w.start) % Duration = 0
      BY <1>2
    <3>. QED
      BY <1>1, <1>2, <1>6, <3>1 DEF OnGrid, Duration
  <2>. QED
    BY <1>1, <1>3, <1>6, <2>4, <2>5, <2>6 DEF LoopInv, Done
<1>. QED
  BY <1>5, <1>6 DEF EnterInterval

(***************************************************************************)
(* When the next candidate does not fit, all of the interval's are behind. *)
(***************************************************************************)
LEMMA LeaveKeepsLoop == ASSUME LoopInv, LeaveInterval PROVE LoopInv'
<1> DEFINE w == q.working[i]
<1>1. /\ pc = "candidate" /\ ~Fits /\ OnGrid /\ i \in 1 .. Len(q.working)
      /\ q' = q /\ slots' = slots /\ start' = start /\ i' = i + 1 /\ pc' = "interval"
  BY DEF LeaveInterval, LoopInv, TypeOK, OnGrid
<1>2. /\ w \in Span(Int) /\ w.start \in Int /\ w.end \in Int /\ Duration \in Nat \ {0}
      /\ start \in Int /\ Len(q.working) \in Nat
  BY <1>1, QueryParts DEF Span, LoopInv, TypeOK
<1>3. Visited = Candidates(w, Duration)
  <2>1. start + Duration > w.end
    BY <1>1, <1>2 DEF Fits
  <2>2. \A n \in Candidates(w, Duration) : n < start
    BY <1>1, <1>2, <2>1, CandidatesInOrder DEF OnGrid
  <2>. QED
    BY <1>1, <2>2 DEF Visited
<1>4. Behind' = Behind \cup Visited /\ Visited' = {}
  BY <1>1, <1>3, BehindGrows DEF Visited
<1>5. Offered' = { m \in Behind' \cup Visited' : Bookable(m)' }
  <2>1. Offered' = Offered /\ \A m : Bookable(m)' <=> Bookable(m)
    BY <1>1 DEF Offered, Bookable, Duration
  <2>. QED
    BY <1>4, <2>1 DEF LoopInv
<1>6. TypeOK'
  BY <1>1, <1>2 DEF TypeOK, LoopInv
<1>. QED
  BY <1>1, <1>5, <1>6 DEF LoopInv, Done

(***************************************************************************)
(* Appending adds one member.                                              *)
(***************************************************************************)
LEMMA AppendAdds ==
    ASSUME NEW s \in Seq(Int), NEW m \in Int
    PROVE  ToSet(Append(s, m)) = ToSet(s) \cup {m}
<1>1. /\ DOMAIN Append(s, m) = 1 .. Len(s) + 1 /\ DOMAIN s = 1 .. Len(s)
      /\ Len(s) \in Nat
      /\ \A j \in DOMAIN s : Append(s, m)[j] = s[j]
      /\ Append(s, m)[Len(s) + 1] = m
  OBVIOUS
<1>2. DOMAIN Append(s, m) = DOMAIN s \cup {Len(s) + 1}
  BY <1>1
<1> DEFINE t == Append(s, m)
           l == Len(s) + 1
<1> HIDE DEF t, l
<1>3. DOMAIN t = DOMAIN s \cup {l} /\ t[l] = m /\ \A j \in DOMAIN s : t[j] = s[j]
  BY <1>1, <1>2 DEF t, l
<1>4. ToSet(t) = ToSet(s) \cup {m}
  BY <1>3 DEF ToSet
<1>. QED
  BY <1>4 DEF t

(***************************************************************************)
(* A candidate that is passed over is not bookable, or its label is there. *)
(***************************************************************************)
LEMMA TryKeepsLoop == ASSUME LoopInv, TryCandidate PROVE LoopInv'
<1> DEFINE w == q.working[i]
<1>1. /\ pc = "candidate" /\ Fits /\ OnGrid /\ i \in 1 .. Len(q.working)
      /\ q' = q /\ start' = start + Duration /\ i' = i /\ pc' = "candidate"
      /\ slots' = IF Passed \/ Taken \/ Seen THEN slots ELSE Append(slots, start)
  BY DEF TryCandidate, LoopInv, TypeOK, OnGrid, NextStart
<1>2. /\ w \in Span(Int) /\ w.start \in Int /\ w.end \in Int /\ Duration \in Nat \ {0}
      /\ start \in Int /\ Len(q.working) \in Nat
      /\ slots \in Seq(Int)
  BY <1>1, QueryParts DEF Span, LoopInv, TypeOK
<1>3. /\ ((start + Duration) - w.start) % Duration = 0
      /\ start \in Candidates(w, Duration)
      /\ \A n \in Candidates(w, Duration) : n < start + Duration => n <= start
  BY <1>1, <1>2, CandidatesInOrder DEF OnGrid, Fits
<1>4. Visited' = Visited \cup {start} /\ Behind' = Behind
  <2>1. Visited = { n \in Candidates(w, Duration) : n < start }
    BY <1>1 DEF Visited
  <2>2. Visited' = { n \in Candidates(w, Duration) : n < start + Duration }
    BY <1>1 DEF Visited, Duration
  <2>3. \A n \in Candidates(w, Duration) : n < start + Duration <=> n < start \/ n = start
    <3>1. \A n \in Candidates(w, Duration) : n \in Int
      BY <1>2, CandidateMeans
    <3>. QED
      BY <1>2, <1>3, <3>1
  <2>. QED
    BY <1>1, <1>3, <2>1, <2>2, <2>3 DEF Behind, Duration
<1>5. \A m : Bookable(m)' <=> Bookable(m)
  BY <1>1 DEF Bookable, Duration
<1>6. Offered' = { m \in Behind' \cup Visited' : Bookable(m)' }
      /\ \A j, k \in DOMAIN slots' : slots'[j] = slots'[k] => j = k
  <2>1. Offered = { m \in Behind \cup Visited : Bookable(m) }
        /\ \A j, k \in DOMAIN slots : slots[j] = slots[k] => j = k
    BY DEF LoopInv
  <2>2. CASE Passed \/ Taken \/ Seen
    <3>1. slots' = slots /\ Offered' = Offered
      BY <1>1, <2>2 DEF Offered
    <3>2. Bookable(start) => start \in Offered
      BY <2>2, PassedOver DEF Seen, Offered
    <3>. QED
      BY <1>4, <1>5, <2>1, <3>1, <3>2
  <2>3. CASE ~(Passed \/ Taken \/ Seen)
    <3>1. slots' = Append(slots, start) /\ start \notin Offered /\ Bookable(start)
      BY <1>1, <2>3, PassedOver DEF Offered, Seen
    <3>2. Offered' = Offered \cup {start}
      BY <1>2, <3>1, AppendAdds DEF Offered
    <3>3. \A j, k \in DOMAIN slots' : slots'[j] = slots'[k] => j = k
      BY <1>2, <2>1, <3>1 DEF Offered, ToSet
    <3>. QED
      BY <1>4, <1>5, <2>1, <3>1, <3>2, <3>3
  <2>. QED
    BY <2>2, <2>3
<1>7. TypeOK'
  BY <1>1, <1>2 DEF TypeOK
<1>8. OnGrid'
  <2>1. start' >= w.start
    BY <1>1, <1>2 DEF OnGrid
  <2>2. (start' - w.start) % Duration = 0
    BY <1>1, <1>3
  <2>. QED
    BY <1>1, <2>1, <2>2 DEF OnGrid, Duration
<1>. QED
  BY <1>1, <1>6, <1>7, <1>8 DEF LoopInv, Done

(***************************************************************************)
(* Sorting offers the same labels.                                         *)
(***************************************************************************)
LEMMA SortKeepsLoop == ASSUME LoopInv, SortSlots PROVE LoopInv'
<1>1. /\ pc = "interval" /\ i = Len(q.working) + 1 /\ Len(q.working) \in Nat
      /\ q' = q /\ start' = start /\ i' = i /\ pc' = "done"
      /\ slots' = Ascending(slots)
  BY QueryParts DEF SortSlots, LoopInv, TypeOK
<1>2. /\ slots \in Seq(Int) /\ start \in Int /\ q \in Query
      /\ \A j, k \in DOMAIN slots : slots[j] = slots[k] => j = k
  BY DEF LoopInv, TypeOK
<1>3. /\ slots' \in Seq(Int) /\ Len(slots') = Len(slots)
      /\ ToSet(slots') = ToSet(slots)
      /\ \A j, k \in DOMAIN slots : j < k => slots'[j] < slots'[k]
  BY <1>1, <1>2, AscendingSorts
<1>4. /\ DOMAIN slots' = DOMAIN slots /\ DOMAIN slots \subseteq Int
      /\ \A j \in DOMAIN slots : slots'[j] \in Int
  BY <1>2, <1>3
<1>5. \A j, k \in DOMAIN slots' : slots'[j] = slots'[k] => j = k
  BY <1>3, <1>4
<1>6. Offered' = { m \in Behind' \cup Visited' : Bookable(m)' }
  <2>1. Offered' = Offered
    BY <1>3 DEF Offered
  <2>2. Behind' = Behind /\ Visited' = {} /\ Visited = {}
    BY <1>1 DEF Behind, Visited, Duration
  <2>3. \A m : Bookable(m)' <=> Bookable(m)
    BY <1>1 DEF Bookable, Duration
  <2>. QED
    BY <2>1, <2>2, <2>3 DEF LoopInv
<1>7. TypeOK'
  BY <1>1, <1>2, <1>3 DEF TypeOK
<1>. QED
  BY <1>1, <1>2, <1>3, <1>4, <1>5, <1>6, <1>7 DEF LoopInv, Done

(***************************************************************************)
(* What the loop has appended is, at every turn, what is bookable among    *)
(* the candidates it has come past: nothing is lost by a continue, nothing *)
(* comes twice, and no candidate lies between two turns.                   *)
(***************************************************************************)
THEOREM LoopInvariant == Spec => []LoopInv
<1>1. ASSUME LoopInv, [Next]_vars
      PROVE  LoopInv'
  <2>1. CASE UNCHANGED vars
    BY <1>1, <2>1 DEF vars, LoopInv, TypeOK, Offered, Behind, Visited, Bookable,
                      Duration, OnGrid, Done
  <2>. QED
    BY <1>1, <2>1, EnterKeepsLoop, LeaveKeepsLoop, TryKeepsLoop, SortKeepsLoop
    DEF Next
<1>. QED
  BY <1>1, InitLoop, PTL DEF Spec

(***************************************************************************)
(* When the loop is done, what it offers is what is bookable among the     *)
(* candidates of all the working intervals.                                *)
(***************************************************************************)
LEMMA DoneOffers ==
    ASSUME LoopInv, Done
    PROVE  \A m : m \in Offered <=>
                    /\ \E w \in ToSet(q.working) : m \in Candidates(w, Duration)
                    /\ Bookable(m)
<1>1. /\ i - 1 = Len(q.working) /\ DOMAIN q.working = 1 .. Len(q.working)
      /\ Visited = {}
  BY QueryParts DEF LoopInv, Done, Visited
<1>2. Behind = UNION { Candidates(w, Duration) : w \in ToSet(q.working) }
  BY <1>1 DEF Behind, ToSet
<1>. QED
  BY <1>1, <1>2 DEF LoopInv

(***************************************************************************)
(* Generate's loop returns what the reference operator says, each label    *)
(* once, in order, for any schedule, duration, occupancy, clock and zone.  *)
(***************************************************************************)
THEOREM LoopComputesGenerate == Spec => []ResultIsGenerate
<1>1. ASSUME LoopInv, Done
      PROVE  Offered = Generate([q EXCEPT !.working = ToSet(q.working)])
  <2> DEFINE p == [q EXCEPT !.working = ToSet(q.working)]
  <2>1. /\ p.working = ToSet(q.working) /\ p.duration = Duration /\ p.now = q.now
        /\ p.occupied = q.occupied /\ p.zone = q.zone
    BY <1>1 DEF LoopInv, Query, Duration
  <2> HIDE DEF p
  <2>2. \A m : m \in Generate(p) <=>
                 /\ \E w \in ToSet(q.working) : m \in Candidates(w, Duration)
                 /\ Bookable(m)
    BY <2>1 DEF Generate, Bookable
  <2>3. Offered = Generate(p)
    BY <1>1, <2>2, DoneOffers
  <2>. QED
    BY <2>3 DEF p
<1>2. ASSUME LoopInv, Done, NEW j \in 1 .. Len(slots) - 1
      PROVE  slots[j] < slots[j + 1]
  <2>1. slots \in Seq(Int) /\ DOMAIN slots = 1 .. Len(slots) /\ Len(slots) \in Nat
    BY <1>2 DEF LoopInv, TypeOK
  <2>2. j \in DOMAIN slots /\ j + 1 \in DOMAIN slots /\ j < j + 1
    BY <2>1
  <2>. QED
    BY <1>2, <2>2 DEF LoopInv
<1>3. LoopInv => ResultIsGenerate
  BY <1>1, <1>2 DEF ResultIsGenerate, LoopInv
<1>. QED
  BY <1>3, LoopInvariant, PTL

-----------------------------------------------------------------------------
(***************************************************************************)
(* Real time.                                                              *)
(***************************************************************************)

(***************************************************************************)
(* On a day that skips no time, as much real time as wall-clock time       *)
(* passes, or more.                                                        *)
(***************************************************************************)
LEMMA NoTimeIsSkipped ==
    ASSUME NEW zone \in Zone(Int), zone.shift <= 0,
           NEW a \in Int, NEW b \in Int, NEW d \in Int, a + d <= b, 0 <= d
    PROVE  InstantAt(zone, a) + d <= InstantAt(zone, b)
<1>1. /\ zone.midnight \in Int /\ zone.at \in Int
      /\ zone.shift \in Int /\ zone.late \in BOOLEAN
  BY DEF Zone
<1> DEFINE from == IF zone.late THEN zone.at + zone.shift ELSE zone.at
<1>2. from \in Int
  BY <1>1
<1>3. ASSUME NEW m \in Int
      PROVE  InstantAt(zone, m) =
                 zone.midnight + (IF from <= m THEN m - zone.shift ELSE m)
  BY <1>1 DEF InstantAt, Ambiguous
<1> HIDE DEF from
<1>. QED
  BY <1>1, <1>2, <1>3

(***************************************************************************)
(* Two candidates of well-formed working hours are a duration apart.       *)
(***************************************************************************)
LEMMA CandidatesApart ==
    ASSUME LoopInv, WellFormed,
           NEW v \in ToSet(q.working), NEW w \in ToSet(q.working),
           NEW m \in Candidates(v, Duration), NEW n \in Candidates(w, Duration),
           m < n
    PROVE  m + Duration <= n
<1>1. PICK j \in DOMAIN q.working : v = q.working[j]
  BY DEF ToSet
<1>2. PICK k \in DOMAIN q.working : w = q.working[k]
  BY DEF ToSet
<1>3. /\ v \in Span(Int) /\ w \in Span(Int) /\ Duration \in Nat \ {0}
  BY <1>1, <1>2, QueryParts
<1>4. /\ m \in Int /\ v.start <= m /\ m + Duration <= v.end
      /\ (m - v.start) % Duration = 0
      /\ n \in Int /\ w.start <= n /\ n + Duration <= w.end
  BY <1>3, CandidateMeans
<1>5. v.start \in Int /\ v.end \in Int /\ w.start \in Int /\ w.end \in Int
  BY <1>3 DEF Span
<1>6. CASE j = k
  <2>1. \A o \in Candidates(v, Duration) : o < m + Duration => o <= m
    BY <1>3, <1>4, CandidatesInOrder
  <2>. QED
    BY <1>1, <1>2, <1>3, <1>4, <1>6, <2>1
<1>7. CASE j # k
  <2>1. ~Overlaps(v, w)
    BY <1>1, <1>2, <1>7 DEF WellFormed
  <2>. QED
    BY <1>3, <1>4, <1>5, <2>1 DEF Overlaps
<1>. QED
  BY <1>6, <1>7

(***************************************************************************)
(* An offer can be kept on every day that skips no time: it is over, in    *)
(* real time, by the end of a working interval it starts in, and booking   *)
(* it leaves the other offers of well-formed hours bookable.               *)
(***************************************************************************)
THEOREM OffersAreKept == Spec => []OffersCanBeKept
<1>1. ASSUME LoopInv, Done, q.zone.shift <= 0
      PROVE  EndsByClosing
  <2>1. SUFFICES ASSUME NEW m \in Offered
                 PROVE  \E w \in ToSet(q.working) :
                          /\ w.start <= m
                          /\ InstantAt(q.zone, m) + Duration <= InstantAt(q.zone, w.end)
    BY DEF EndsByClosing
  <2>2. PICK w \in ToSet(q.working) : m \in Candidates(w, Duration)
    BY <1>1, <2>1, DoneOffers
  <2>3. w \in Span(Int) /\ Duration \in Nat \ {0} /\ q.zone \in Zone(Int)
    BY <1>1, <2>2, QueryParts DEF ToSet
  <2>4. m \in Int /\ w.start <= m /\ m + Duration <= w.end /\ w.end \in Int
    BY <2>2, <2>3, CandidateMeans DEF Span
  <2>5. InstantAt(q.zone, m) + Duration <= InstantAt(q.zone, w.end)
    BY <1>1, <2>3, <2>4, NoTimeIsSkipped
  <2>. QED
    BY <2>2, <2>4, <2>5
<1>2. ASSUME LoopInv, Done, q.zone.shift <= 0, WellFormed,
             NEW m \in Offered, NEW n \in Offered, m < n
      PROVE  /\ ~Overlaps(RealSpan(q.zone, m, Duration), RealSpan(q.zone, n, Duration))
             /\ ~Overlaps(RealSpan(q.zone, n, Duration), RealSpan(q.zone, m, Duration))
  <2>1. PICK v \in ToSet(q.working) : m \in Candidates(v, Duration)
    BY <1>2, DoneOffers
  <2>2. PICK w \in ToSet(q.working) : n \in Candidates(w, Duration)
    BY <1>2, DoneOffers
  <2>3. /\ v \in Span(Int) /\ w \in Span(Int)
        /\ Duration \in Nat \ {0} /\ q.zone \in Zone(Int)
    BY <1>2, QueryParts DEF ToSet
  <2>4. m \in Int /\ n \in Int /\ m + Duration <= n
    BY <1>2, <2>1, <2>2, <2>3, CandidateMeans, CandidatesApart
  <2>5. /\ InstantAt(q.zone, m) + Duration <= InstantAt(q.zone, n)
        /\ InstantAt(q.zone, m) \in Int /\ InstantAt(q.zone, n) \in Int
    BY <1>2, <2>3, <2>4, NoTimeIsSkipped, InstantType
  <2>6. ~(InstantAt(q.zone, m) + Duration > InstantAt(q.zone, n))
        /\ ~(InstantAt(q.zone, n) < InstantAt(q.zone, m) + Duration)
    BY <2>3, <2>5
  <2>. QED
    BY <2>6 DEF Overlaps, RealSpan
<1>3. ASSUME LoopInv, Done, q.zone.shift <= 0, WellFormed
      PROVE  OffersDisjoint
  <2>1. \A m \in Offered : m \in Int
    BY <1>3 DEF LoopInv, TypeOK, Offered, ToSet
  <2>2. SUFFICES ASSUME NEW m \in Offered, NEW n \in Offered, m # n
                 PROVE  ~Overlaps(RealSpan(q.zone, m, Duration),
                                  RealSpan(q.zone, n, Duration))
    BY DEF OffersDisjoint
  <2>3. m < n \/ n < m
    BY <2>1, <2>2
  <2>. QED
    BY <1>2, <1>3, <2>3
<1>4. LoopInv => OffersCanBeKept
  BY <1>1, <1>3 DEF OffersCanBeKept
<1>. QED
  BY <1>4, LoopInvariant, PTL

(***************************************************************************)
(* Every pass of the loop takes it further, also those that offer nothing: *)
(* i only grows, and candidateStart, while it stays in an interval, grows  *)
(* towards its end, both within bounds.  By LoopInvariant this is so of    *)
(* every reachable state; what Terminates adds is that the loop can always *)
(* go on.                                                                  *)
(***************************************************************************)
THEOREM EveryPassAdvances ==
    ASSUME LoopInv, Next
    PROVE  Advances
<1>1. Duration \in Nat \ {0}
  BY QueryParts
<1>2. CASE EnterInterval
  BY <1>2 DEF EnterInterval, Advances
<1>3. CASE LeaveInterval
  BY <1>3 DEF LeaveInterval, Advances
<1>4. CASE TryCandidate
  <2>1. q.working[i] \in Span(Int) /\ start \in Int
    BY <1>4, QueryParts DEF LoopInv, TypeOK, OnGrid, TryCandidate
  <2>2. q.working[i].end \in Int
    BY <2>1 DEF Span
  <2>3. start + Duration <= q.working[i].end
    BY <1>4 DEF TryCandidate, Fits
  <2>4. /\ i' = i /\ q' = q /\ start' = start + Duration
        /\ pc = "candidate" /\ pc' = "candidate"
    BY <1>4 DEF TryCandidate, NextStart
  <2>5. 0 <= Room' /\ Room' < Room
    BY <1>1, <2>1, <2>2, <2>3, <2>4 DEF Room
  <2>. QED
    BY <2>4, <2>5 DEF Advances
<1>5. CASE SortSlots
  BY <1>5 DEF SortSlots, Advances, Done
<1>. QED
  BY <1>2, <1>3, <1>4, <1>5 DEF Next

=============================================================================
