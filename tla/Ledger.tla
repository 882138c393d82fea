------------------------------- MODULE Ledger -------------------------------
(***************************************************************************)
(* What the booking component promises, without requests, reads or time:   *)
(* a ledger of appointments in which each operation takes effect in one    *)
(* step.  An appointment is booked or moved only into free time of its     *)
(* technician, and once it is settled (cancelled, completed, no-show) its  *)
(* entry never changes again.  Bookings.tla, which models the handlers     *)
(* statement by statement, is shown to implement it.                       *)
(***************************************************************************)
EXTENDS Appointments

VARIABLE ledger

Init == ledger = [b \in BookingIds |-> Absent]

\* A new appointment in free time.
Book(b) ==
    /\ ledger[b] = Absent
    /\ ledger'[b] \in Row
    /\ ledger'[b].status = "CONFIRMED"
    /\ ledger'[b].start < ledger'[b].end
    /\ ~Excluded(ledger, b, ledger'[b])
    /\ ledger' = [ledger EXCEPT ![b] = ledger'[b]]

\* The appointment b, nothing but its time changed.
MovedTo(b, s, e) == [ledger[b] EXCEPT !.start = s, !.end = e]

\* A confirmed appointment moves to other free time.
Move(b) ==
    /\ Confirmed(ledger, b)
    /\ ledger'[b] \in Row
    /\ ledger'[b] = MovedTo(b, ledger'[b].start, ledger'[b].end)
    /\ ledger'[b].start < ledger'[b].end
    /\ ~Excluded(ledger, b, ledger'[b])
    /\ ledger' = [ledger EXCEPT ![b] = ledger'[b]]

\* A confirmed appointment gets its outcome, for good.
Settle(b) ==
    /\ Confirmed(ledger, b)
    /\ \E o \in Outcomes : ledger' = [ledger EXCEPT ![b].status = o]

Next == \E b \in BookingIds : Book(b) \/ Move(b) \/ Settle(b)

Spec == Init /\ [][Next]_ledger

-----------------------------------------------------------------------------
TypeOK ==
    /\ ledger \in [BookingIds -> Row \cup {Absent}]
    /\ \A b \in BookingIds : ledger[b] # Absent
                                => ledger[b].start < ledger[b].end

\* No technician is promised to two customers at once.
NoDoubleBooking ==
    \A b, c \in BookingIds :
        b # c /\ Confirmed(ledger, b) /\ Confirmed(ledger, c)
            => ~Clash(ledger[b], ledger[c])

\* A settled entry is never touched again, and no entry ever disappears or
\* changes its service or technician.
Final(b) ==
    ledger[b] # Absent =>
        /\ ledger'[b] # Absent
        /\ ledger'[b].service = ledger[b].service
        /\ ledger'[b].staff = ledger[b].staff
        /\ ledger[b].status # "CONFIRMED" => ledger'[b] = ledger[b]

SettledIsFinal == [][\A b \in BookingIds : Final(b)]_ledger

=============================================================================
