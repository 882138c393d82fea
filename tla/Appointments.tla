---------------------------- MODULE Appointments ----------------------------
(***************************************************************************)
(* The vocabulary of the bookings table, shared by the abstract ledger and *)
(* by the handlers that implement it: rows, statuses and the predicate of  *)
(* the table's exclusion constraint.  One tenant is modelled; every        *)
(* statement of the code is scoped by tenant_id.                           *)
(***************************************************************************)
EXTENDS Integers

CONSTANTS
    BookingIds,   \* the UUIDs a booking may get
    Services,     \* the tenant's catalog
    Staff,        \* the tenant's roster
    Absent        \* no row

Statuses == {"CONFIRMED", "CANCELLED", "COMPLETED", "NO_SHOW"}

\* The terminal statuses: nothing leaves them.
Outcomes == Statuses \ {"CONFIRMED"}

Row == [service : Services, staff : Staff,
        start : Int, end : Int, status : Statuses]

ASSUME AbsentIsNoRow == Absent \notin Row

\* bookings_no_overlap: same staff member, [start, end) ranges intersecting.
Clash(x, y) == /\ x.staff = y.staff
               /\ x.start < y.end
               /\ y.start < x.end

\* The row tbl[b] exists and holds its technician's time.
Confirmed(tbl, b) == tbl[b] # Absent /\ tbl[b].status = "CONFIRMED"

\* Mutant: a unique (staff, start) key in place of the range exclusion.
ExcludedSameStart(tbl, b, row) ==
    \E c \in BookingIds \ {b} : /\ Confirmed(tbl, c)
                                /\ row.staff = tbl[c].staff
                                /\ row.start = tbl[c].start

\* Writing row at b violates the exclusion constraint of table tbl.
Excluded(tbl, b, row) ==
    \E c \in BookingIds \ {b} : Confirmed(tbl, c) /\ Clash(row, tbl[c])

=============================================================================
