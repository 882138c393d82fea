--------------------------- MODULE CatalogProofs ---------------------------
(***************************************************************************)
(* References between the tables of a catalog keep resolving, and what the *)
(* public pages say of them is right, for any number of rows and requests. *)
(***************************************************************************)
EXTENDS Catalog, TLAPS

USE DEF rows

-----------------------------------------------------------------------------
(***************************************************************************)
(* What every statement does to the tables: a row stays, its tenant's for  *)
(* ever, and an archived profile stays archived.                           *)
(***************************************************************************)
RowsStay ==
    /\ \A s \in Services : services[s] # Absent =>
          services'[s] # Absent /\ services'[s].tenant = services[s].tenant
    /\ \A c \in Categories : categories[c] # Absent =>
          categories'[c] # Absent /\ categories'[c].tenant = categories[c].tenant
    /\ \A p \in Staff : staff[p] # Absent =>
          /\ staff'[p] # Absent /\ staff'[p].tenant = staff[p].tenant
          /\ staff[p].status = "ARCHIVED" => staff'[p].status = "ARCHIVED"
    /\ priced \subseteq priced'
    /\ \A m \in Tenants \X Users : members[m] # Absent => members'[m] # Absent

RowTypes ==
    /\ services \in [Services -> Service \cup {Absent}]
    /\ categories \in [Categories -> Category \cup {Absent}]
    /\ staff \in [Staff -> Profile \cup {Absent}]
    /\ assigned \subseteq Staff \X Services
    /\ bookings \in [Bookings -> Booking \cup {Absent}]
    /\ priced \subseteq Tenants
    /\ members \in [Tenants \X Users -> MemberStatus \cup {Absent}]

LEMMA NothingMoved ==
    ASSUME UNCHANGED rows
    PROVE  RowsStay
BY DEF RowsStay

LEMMA IdleIsCall == Idle \in Call /\ Idle.missing = {}
BY DEF Idle, Call, PCs

\* A request that has nothing to do has nothing to be wrong about.
LEMMA IdleIsOK ==
    ASSUME NEW r \in Calls, calls'[r] = Idle
    PROVE  CallOK(r)'
BY DEF CallOK, Idle, At

\* What a request has read stays so.
LEMMA Persists ==
    ASSUME IInv, RowsStay, NEW r \in Calls, calls'[r] = calls[r]
    PROVE  CallOK(r)'
<1> DEFINE t == calls[r].tenant
<1>1. CallOK(r) /\ calls[r] \in Call
  BY DEF IInv, TypeOK
<1>2. /\ \A s \in Services : HasService(t, s) => services'[s] # Absent /\ services'[s].tenant = t
      /\ \A c \in Categories : HasCategory(t, c) => categories'[c] # Absent /\ categories'[c].tenant = t
      /\ \A p \in Staff : HasProfile(t, p) => staff'[p] # Absent /\ staff'[p].tenant = t
  BY DEF RowsStay, HasService, HasCategory, HasProfile
<1>3. calls[r].pc \notin {"idle", "done"} => t \in Tenants
  BY <1>1 DEF CallOK
<1>4. calls[r].filed \subseteq Categories /\ calls[r].todo \subseteq Staff
  BY <1>1 DEF Call
<1>5. At(r, "insert profile") =>
        /\ calls[r].user # Absent => members'[<<t, calls[r].user>>] # Absent
        /\ calls[r].user \notin calls[r].gone
  <2>1. At(r, "insert profile") /\ calls[r].user # Absent =>
          <<t, calls[r].user>> \in Tenants \X Users
    BY <1>1, <1>3 DEF Call, At
  <2> QED
    BY <1>1, <2>1 DEF RowsStay, CallOK
<1>6. calls[r].pc \in {"resolved", "technicians", "profile"} =>
        \A p \in calls[r].gone : p \in Staff /\ staff'[p] # Absent /\ staff'[p].status = "ARCHIVED"
  <2>1. calls[r].pc \in {"resolved", "technicians", "profile"} => calls[r].gone \subseteq Staff
    BY <1>1 DEF CallOK
  <2> QED
    BY <1>1, <2>1 DEF RowsStay, CallOK
<1>7. t \in priced => t \in priced'
  BY DEF RowsStay
<1>8. (/\ \A c \in calls[r].filed : HasCategory(t, c)
       /\ \A p \in calls[r].todo : HasProfile(t, p))'
  BY <1>1, <1>2, <1>4, ZenonT(40) DEF CallOK, HasCategory, HasProfile
<1>9. (/\ At(r, "archive") =>
          \/ calls[r].id \in Services /\ HasService(t, calls[r].id)
          \/ calls[r].id \in Categories /\ HasCategory(t, calls[r].id)
          \/ calls[r].id \in Staff /\ HasProfile(t, calls[r].id)
       /\ calls[r].pc \in {"technicians", "receipt service"} =>
          calls[r].id \in Services /\ HasService(t, calls[r].id)
       /\ calls[r].pc \in {"receipt service", "receipt staff"} =>
          calls[r].staff \in Staff /\ HasProfile(t, calls[r].staff)
       /\ calls[r].pc \in {"insert service", "update service"} /\ calls[r].category \in Categories =>
          HasCategory(t, calls[r].category))'
  BY <1>1, <1>2, ZenonT(40) DEF CallOK, At, HasService, HasCategory, HasProfile
<1> QED
  BY <1>1, <1>3, <1>5, <1>6, <1>7, <1>8, <1>9 DEF CallOK, At

(***************************************************************************)
(* References keep resolving whatever else is written.                     *)
(***************************************************************************)
LEMMA ServicesPersist ==
    ASSUME IInv, RowsStay, UNCHANGED services
    PROVE  ServicesStayHome'
<1>1. \A s \in Services : services[s] # Absent => services[s].category \in Categories \cup {Absent}
  BY DEF IInv, TypeOK, Service
<1> QED
  BY <1>1 DEF IInv, RowsStayHome, ServicesStayHome, RowsStay, HasCategory

LEMMA PairsPersist ==
    ASSUME IInv, RowsStay, UNCHANGED assigned
    PROVE  PairsStayHome'
<1>1. \A a \in assigned : a[1] \in Staff /\ a[2] \in Services
  BY DEF IInv, TypeOK
<1> QED
  BY <1>1 DEF IInv, RowsStayHome, PairsStayHome, RowsStay, HasProfile, HasService

LEMMA BookingsPersist ==
    ASSUME IInv, RowsStay, UNCHANGED bookings
    PROVE  BookingsStayHome'
<1>1. \A k \in Bookings : bookings[k] # Absent =>
        bookings[k].service \in Services /\ bookings[k].staff \in Staff
  BY DEF IInv, TypeOK, Booking
<1> QED
  BY <1>1 DEF IInv, RowsStayHome, BookingsStayHome, RowsStay, HasProfile, HasService

LEMMA LinksPersist ==
    ASSUME IInv, RowsStay, UNCHANGED staff
    PROVE  LinksStayHome'
<1>1. \A p \in Staff : staff[p] # Absent /\ staff[p].user # Absent =>
        <<staff[p].tenant, staff[p].user>> \in Tenants \X Users
  BY DEF IInv, TypeOK, Profile
<1> QED
  BY <1>1 DEF IInv, RowsStayHome, LinksStayHome, RowsStay

(***************************************************************************)
(* A statement that only reads: the new locals are all there is to check.  *)
(***************************************************************************)
LEMMA ReadStep ==
    ASSUME IInv, NEW r \in Calls, NEW call \in Call, Read(r, call),
           call.missing = {}, CallOK(r)'
    PROVE  IInv'
<1>1. /\ calls' \in [Calls -> Call] /\ calls'[r] = call
      /\ \A q \in Calls \ {r} : calls'[q] = calls[q]
  BY DEF Read, Goto, IInv, TypeOK
<1>2. UNCHANGED rows
  BY DEF Read
<1>3. TypeOK' /\ RowsStayHome' /\ NamesAreUnique'
  BY <1>1, <1>2 DEF IInv, TypeOK, RowsStayHome, ServicesStayHome, PairsStayHome, BookingsStayHome,
            LinksStayHome, NamesAreUnique, HasService, HasCategory, HasProfile
<1>4. \A q \in Calls : CallOK(q)'
  BY <1>1, <1>2, NothingMoved, Persists
<1>5. NothingVanishes'
  BY <1>1 DEF IInv, NothingVanishes
<1> QED
  BY <1>3, <1>4, <1>5 DEF IInv

\* A request that ends without having written anything.
LEMMA EndStep ==
    ASSUME IInv, NEW r \in Calls, Read(r, Idle)
    PROVE  IInv'
<1>1. calls'[r] = Idle
  BY DEF Read, Goto, IInv, TypeOK
<1> QED
  BY <1>1, IdleIsCall, IdleIsOK, ReadStep

(***************************************************************************)
(* A statement that writes, and with which its request, if any, ends.      *)
(***************************************************************************)
LEMMA WriteStep ==
    ASSUME IInv, RowsStay, RowTypes', RowsStayHome', NamesAreUnique',
           calls' = calls \/ \E r \in Calls : Goto(r, Idle)
    PROVE  IInv'
<1>1. calls' \in [Calls -> Call] /\ \A q \in Calls : calls'[q] \in {calls[q], Idle}
  BY IdleIsCall DEF Goto, IInv, TypeOK
<1>2. TypeOK'
  BY <1>1 DEF TypeOK, RowTypes
<1>3. \A q \in Calls : CallOK(q)'
  BY <1>1, Persists, IdleIsOK
<1>4. NothingVanishes'
  BY <1>1, IdleIsCall DEF IInv, NothingVanishes
<1> QED
  BY <1>2, <1>3, <1>4 DEF IInv

THEOREM CatalogInit == Init => IInv
<1> SUFFICES ASSUME Init PROVE IInv
  OBVIOUS
<1>1. \A r \in Calls : calls[r] = Idle
  BY DEF Init
<1>2. TypeOK
  BY IdleIsCall DEF Init, TypeOK
<1>3. RowsStayHome /\ NamesAreUnique
  BY DEF Init, RowsStayHome, ServicesStayHome, PairsStayHome, BookingsStayHome,
         LinksStayHome, NamesAreUnique
<1>4. \A r \in Calls : CallOK(r)
  <2> SUFFICES ASSUME NEW r \in Calls PROVE CallOK(r)
    OBVIOUS
  <2>1. /\ calls[r].pc = "idle" /\ calls[r].filed = {} /\ calls[r].todo = {}
        /\ calls[r].shown = {}
    BY <1>1 DEF Idle
  <2> QED
    BY <2>1 DEF CallOK, At
<1>5. NothingVanishes
  BY <1>1, IdleIsCall DEF NothingVanishes
<1> QED
  BY <1>2, <1>3, <1>4, <1>5 DEF IInv

-----------------------------------------------------------------------------
(***************************************************************************)
(* Services.                                                               *)
(***************************************************************************)
\* The locals of a running request, and what the rows they name are like.
LEMMA CallType ==
    ASSUME IInv, NEW r \in Calls
    PROVE  /\ calls[r] \in Call /\ CallOK(r) /\ calls[r].missing = {}
           /\ calls[r].pc \notin {"idle", "done"} => calls[r].tenant \in Tenants
<1>1. calls[r] \in Call /\ CallOK(r) /\ calls[r].missing = {}
  BY DEF IInv, TypeOK, NothingVanishes
<1> QED
  BY <1>1 DEF CallOK

LEMMA CreateServiceStep ==
    ASSUME IInv, NEW r \in Calls, NEW t \in Tenants, NEW c \in Categories \cup {Absent},
           CreateService(r, t, c)
    PROVE  IInv'
<1> DEFINE call == [Idle EXCEPT !.pc = IF c = Absent THEN "insert service" ELSE "category",
                                !.tenant = t, !.category = c]
<1>1. Read(r, call) /\ t \in priced
  BY DEF CreateService, ResolveCurrency
<1>2. call \in Call /\ call.missing = {}
  BY DEF Call, PCs, Idle
<1>3. calls'[r] = call /\ priced' = priced
  BY <1>1 DEF Read, Goto, IInv, TypeOK
<1>4. CallOK(r)'
  BY <1>1, <1>3, AbsentAndKeep DEF CallOK, At, Idle
<1> QED
  BY <1>1, <1>2, <1>4, ReadStep

LEMMA EditServiceStep ==
    ASSUME IInv, NEW r \in Calls, NEW t \in Tenants, NEW s \in Services,
           NEW c \in Categories \cup {Absent, Keep}, NEW price \in BOOLEAN,
           EditService(r, t, s, price, c)
    PROVE  IInv'
<1> DEFINE call == [Idle EXCEPT !.pc = IF c \in {Absent, Keep} THEN "update service" ELSE "category",
                                !.tenant = t, !.id = s, !.category = c]
<1>1. Read(r, call)
  BY DEF EditService
<1>2. call \in Call /\ call.missing = {}
  BY DEF Call, PCs, Idle, Ids
<1>3. calls'[r] = call
  BY <1>1 DEF Read, Goto, IInv, TypeOK
<1>4. CallOK(r)'
  BY <1>1, <1>3, AbsentAndKeep DEF CallOK, At, Idle
<1> QED
  BY <1>1, <1>2, <1>4, ReadStep

LEMMA ValidateCategoryStep ==
    ASSUME IInv, NEW r \in Calls, ValidateCategoryAssignment(r)
    PROVE  IInv'
<1>1. CASE Read(r, Idle)
  BY <1>1, EndStep
<1>2. CASE ~Read(r, Idle)
  <2> DEFINE call == [calls[r] EXCEPT !.pc = IF calls[r].id = Absent THEN "insert service"
                                             ELSE "update service"]
  <2>1. /\ At(r, "category") /\ HasCategory(calls[r].tenant, calls[r].category)
        /\ Read(r, call)
    BY <1>2 DEF ValidateCategoryAssignment
  <2>2. calls[r] \in Call /\ CallOK(r) /\ calls[r].missing = {}
    BY CallType
  <2>3. call \in Call /\ call.missing = {}
    BY <2>2 DEF Call, PCs
  <2>4. calls'[r] = call /\ UNCHANGED rows
    BY <2>1 DEF Read, Goto, IInv, TypeOK
  <2>5. /\ call.pc = (IF calls[r].id = Absent THEN "insert service" ELSE "update service")
        /\ call.tenant = calls[r].tenant /\ call.id = calls[r].id
        /\ call.category = calls[r].category /\ call.filed = calls[r].filed
        /\ call.todo = calls[r].todo /\ call.shown = calls[r].shown /\ call.gone = calls[r].gone
    BY <2>2 DEF Call
  <2> HIDE DEF call
  <2>6. CallOK(r)'
    BY <2>1, <2>2, <2>4, <2>5, AbsentAndKeep DEF CallOK, At, HasCategory, HasProfile
  <2> QED
    BY <2>1, <2>3, <2>6, ReadStep
<1> QED
  BY <1>1, <1>2

LEMMA InsertServiceStep ==
    ASSUME IInv, NEW r \in Calls, InsertService(r)
    PROVE  IInv'
<1> DEFINE row == [tenant |-> calls[r].tenant, category |-> calls[r].category, status |-> "ACTIVE"]
<1>1. PICK s \in Services : services[s] = Absent /\ services' = [services EXCEPT ![s] = row]
  BY DEF InsertService
<1>2. /\ Goto(r, Idle) /\ At(r, "insert service")
      /\ UNCHANGED <<categories, staff, assigned, bookings, priced, members>>
  BY DEF InsertService
<1>3. calls[r] \in Call /\ CallOK(r) /\ calls[r].tenant \in Tenants
  BY <1>2, CallType DEF At
<1>4. /\ row \in Service /\ row # Absent /\ row.tenant \in priced
      /\ row.category # Absent => HasCategory(row.tenant, row.category)
  <2>1. calls[r].category \in Categories \cup {Absent}
    BY <1>2, <1>3 DEF CallOK, At, Call
  <2>2. row \in Service
    BY <1>3, <2>1 DEF Service, Statuses
  <2>3. calls[r].tenant \in priced
    BY <1>2, <1>3 DEF CallOK, At
  <2>4. calls[r].category # Absent => HasCategory(calls[r].tenant, calls[r].category)
    BY <1>2, <1>3, <2>1 DEF CallOK, At
  <2> QED
    BY <2>2, <2>3, <2>4, AbsentIsNoRow
<1> HIDE DEF row
<1>5. services'[s] = row /\ \A x \in Services \ {s} : services'[x] = services[x]
  BY <1>1 DEF IInv, TypeOK
<1>6. RowsStay
  BY <1>1, <1>2, <1>5 DEF RowsStay
<1>7. RowTypes'
  BY <1>1, <1>2, <1>4 DEF IInv, TypeOK, RowTypes
<1>8. RowsStayHome'
  <2>1. ServicesStayHome'
    BY <1>2, <1>4, <1>5 DEF IInv, RowsStayHome, ServicesStayHome, HasCategory
  <2> QED
    BY <1>2, <1>6, <2>1, PairsPersist, BookingsPersist, LinksPersist DEF RowsStayHome
<1>9. NamesAreUnique'
  BY <1>2 DEF IInv, NamesAreUnique
<1> QED
  BY <1>2, <1>6, <1>7, <1>8, <1>9, WriteStep

LEMMA UpdateServiceStep ==
    ASSUME IInv, NEW r \in Calls, UpdateService(r)
    PROVE  IInv'
<1> DEFINE s == calls[r].id
           c == calls[r].category
<1>1. /\ Goto(r, Idle) /\ At(r, "update service")
      /\ UNCHANGED <<categories, staff, assigned, bookings, priced, members>>
      /\ services' = [services EXCEPT ![s] =
             IF HasService(calls[r].tenant, s) /\ c # Keep THEN [@ EXCEPT !.category = c] ELSE @]
  BY DEF UpdateService
<1>2. calls[r] \in Call /\ CallOK(r) /\ s \in Services
  BY <1>1, CallType DEF CallOK, At
<1>3. c # Keep => /\ c \in Categories \cup {Absent}
                  /\ c # Absent => HasCategory(calls[r].tenant, c)
  BY <1>1, <1>2 DEF CallOK, Call, At
<1> HIDE DEF s, c
<1>4. \A x \in Services \ {s} : services'[x] = services[x]
  BY <1>1 DEF IInv, TypeOK
<1>5. \/ services'[s] = services[s]
      \/ /\ HasService(calls[r].tenant, s) /\ c # Keep
         /\ services[s] \in Service
         /\ services'[s] = [services[s] EXCEPT !.category = c]
  BY <1>1, <1>2 DEF IInv, TypeOK, HasService
<1>6. \/ services'[s] = services[s]
      \/ /\ services[s] # Absent /\ services[s].tenant = calls[r].tenant
         /\ services'[s] \in Service /\ services'[s] # Absent
         /\ services'[s].tenant = services[s].tenant
         /\ services'[s].category = c
         /\ c # Absent => HasCategory(services[s].tenant, c)
  BY <1>3, <1>5, AbsentIsNoRow DEF Service, HasService
<1>7. RowsStay
  BY <1>1, <1>4, <1>6 DEF RowsStay
<1>8. RowTypes'
  <2>1. services' \in [Services -> Service \cup {Absent}]
    <3>1. \A x \in Services : services'[x] \in Service \cup {Absent}
      BY <1>4, <1>6 DEF IInv, TypeOK
    <3>2. services' = [x \in Services |-> services'[x]]
      BY <1>1 DEF IInv, TypeOK
    <3> QED
      BY <3>1, <3>2
  <2> QED
    BY <1>1, <2>1 DEF IInv, TypeOK, RowTypes
<1>9. RowsStayHome'
  <2>1. ServicesStayHome'
    <3>1. ServicesStayHome
      BY DEF IInv, RowsStayHome
    <3>2. \A x \in Services \ {s} : services'[x] # Absent =>
            /\ services'[x].tenant \in priced
            /\ services'[x].category # Absent =>
                  HasCategory(services'[x].tenant, services'[x].category)
      BY <1>4, <3>1 DEF ServicesStayHome
    <3>3. services'[s] # Absent =>
            /\ services'[s].tenant \in priced
            /\ services'[s].category # Absent =>
                  HasCategory(services'[s].tenant, services'[s].category)
      BY <1>2, <1>6, <3>1 DEF ServicesStayHome
    <3>4. categories' = categories /\ priced' = priced
      BY <1>1
    <3> QED
      BY <3>2, <3>3, <3>4 DEF ServicesStayHome, HasCategory
  <2> QED
    BY <1>1, <1>7, <2>1, PairsPersist, BookingsPersist, LinksPersist DEF RowsStayHome
<1>10. NamesAreUnique'
  BY <1>1 DEF IInv, NamesAreUnique
<1> QED
  BY <1>1, <1>7, <1>8, <1>9, <1>10, WriteStep

-----------------------------------------------------------------------------
(***************************************************************************)
(* Archiving: between the read and the UPDATE the row stays where it was.  *)
(***************************************************************************)
LEMMA WillArchiveStep ==
    ASSUME IInv, NEW r \in Calls, NEW t \in Tenants, NEW x,
           \/ \E s \in Services : x = s /\ RetireService(r, t, s)
           \/ \E c \in Categories : x = c /\ RetireCategory(r, t, c)
           \/ \E p \in Staff : x = p /\ RetireStaff(r, t, p)
    PROVE  IInv'
<1> DEFINE call == [Idle EXCEPT !.pc = "archive", !.tenant = t, !.id = x]
<1>1. /\ Read(r, call)
      /\ \/ x \in Services /\ HasService(t, x)
         \/ x \in Categories /\ HasCategory(t, x)
         \/ x \in Staff /\ HasProfile(t, x)
  BY DEF RetireService, RetireCategory, RetireStaff, WillArchive
<1>2. call \in Call /\ call.missing = {}
  BY <1>1 DEF Call, PCs, Idle, Ids
<1>3. calls'[r] = call /\ UNCHANGED rows
  BY <1>1 DEF Read, Goto, IInv, TypeOK
<1>4. CallOK(r)'
  BY <1>1, <1>3, AbsentAndKeep DEF CallOK, At, Idle, HasService, HasCategory, HasProfile
<1> QED
  BY <1>1, <1>2, <1>4, ReadStep

LEMMA ArchiveServiceStep ==
    ASSUME IInv, NEW r \in Calls, ArchiveService(r)
    PROVE  IInv'
<1> DEFINE s == calls[r].id
<1>1. /\ At(r, "archive") /\ s \in Services /\ Goto(r, Idle)
      /\ services' = [services EXCEPT ![s].status = "ARCHIVED"]
      /\ UNCHANGED <<categories, staff, assigned, bookings, priced, members>>
  BY DEF ArchiveService
<1>2. services[s] \in Service
  <2>1. CallOK(r)
    BY CallType
  <2>2. services[s] # Absent
    BY <1>1, <2>1, KindsApart DEF CallOK, At, HasService
  <2> QED
    BY <1>1, <2>2 DEF IInv, TypeOK
<1> HIDE DEF s
<1>3. /\ services'[s] = [services[s] EXCEPT !.status = "ARCHIVED"]
      /\ \A x \in Services \ {s} : services'[x] = services[x]
  BY <1>1 DEF IInv, TypeOK
<1>4. /\ services'[s] \in Service /\ services'[s] # Absent /\ services[s] # Absent
      /\ services'[s].tenant = services[s].tenant /\ services'[s].category = services[s].category
  BY <1>2, <1>3, AbsentIsNoRow DEF Service, Statuses
<1>5. RowsStay
  BY <1>1, <1>3, <1>4 DEF RowsStay
<1>6. RowTypes'
  <2>1. services' \in [Services -> Service \cup {Absent}]
    BY <1>1, <1>3, <1>4 DEF IInv, TypeOK
  <2> QED
    BY <1>1, <2>1 DEF IInv, TypeOK, RowTypes
<1>7. RowsStayHome'
  <2>1. ServicesStayHome'
    BY <1>1, <1>3, <1>4 DEF IInv, RowsStayHome, ServicesStayHome, HasCategory
  <2> QED
    BY <1>1, <1>5, <2>1, PairsPersist, BookingsPersist, LinksPersist DEF RowsStayHome
<1>8. NamesAreUnique'
  BY <1>1 DEF IInv, NamesAreUnique
<1> QED
  BY <1>1, <1>5, <1>6, <1>7, <1>8, WriteStep

LEMMA ArchiveCategoryStep ==
    ASSUME IInv, NEW r \in Calls, ArchiveCategory(r)
    PROVE  IInv'
<1> DEFINE c == calls[r].id
<1>1. /\ At(r, "archive") /\ c \in Categories /\ Goto(r, Idle)
      /\ categories' = [categories EXCEPT ![c].status = "ARCHIVED"]
      /\ UNCHANGED <<services, staff, assigned, bookings, priced, members>>
  BY DEF ArchiveCategory
<1>2. categories[c] \in Category
  <2>1. CallOK(r)
    BY CallType
  <2>2. categories[c] # Absent
    BY <1>1, <2>1, KindsApart DEF CallOK, At, HasCategory
  <2> QED
    BY <1>1, <2>2 DEF IInv, TypeOK
<1> HIDE DEF c
<1>3. /\ categories'[c] = [categories[c] EXCEPT !.status = "ARCHIVED"]
      /\ \A x \in Categories \ {c} : categories'[x] = categories[x]
  BY <1>1 DEF IInv, TypeOK
<1>4. /\ categories'[c] \in Category /\ categories'[c] # Absent /\ categories[c] # Absent
      /\ categories'[c].tenant = categories[c].tenant /\ categories'[c].status = "ARCHIVED"
  BY <1>2, <1>3, AbsentIsNoRow DEF Category, Statuses
<1>5. RowsStay
  BY <1>1, <1>3, <1>4 DEF RowsStay
<1>6. RowTypes'
  <2>1. categories' \in [Categories -> Category \cup {Absent}]
    BY <1>1, <1>3, <1>4 DEF IInv, TypeOK
  <2> QED
    BY <1>1, <2>1 DEF IInv, TypeOK, RowTypes
<1>7. RowsStayHome'
  BY <1>1, <1>5, ServicesPersist, PairsPersist, BookingsPersist, LinksPersist DEF RowsStayHome
<1>8. NamesAreUnique'
  BY <1>1, <1>3, <1>4 DEF IInv, NamesAreUnique
<1> QED
  BY <1>1, <1>5, <1>6, <1>7, <1>8, WriteStep

LEMMA ArchiveStaffStep ==
    ASSUME IInv, NEW r \in Calls, ArchiveStaff(r)
    PROVE  IInv'
<1> DEFINE p == calls[r].id
<1>1. /\ At(r, "archive") /\ p \in Staff /\ Goto(r, Idle)
      /\ staff' = [staff EXCEPT ![p].status = "ARCHIVED"]
      /\ UNCHANGED <<services, categories, assigned, bookings, priced, members>>
  BY DEF ArchiveStaff
<1>2. staff[p] \in Profile
  <2>1. CallOK(r)
    BY CallType
  <2>2. staff[p] # Absent
    BY <1>1, <2>1, KindsApart DEF CallOK, At, HasProfile
  <2> QED
    BY <1>1, <2>2 DEF IInv, TypeOK
<1> HIDE DEF p
<1>3. /\ staff'[p] = [staff[p] EXCEPT !.status = "ARCHIVED"]
      /\ \A x \in Staff \ {p} : staff'[x] = staff[x]
  BY <1>1 DEF IInv, TypeOK
<1>4. /\ staff'[p] \in Profile /\ staff'[p] # Absent /\ staff[p] # Absent
      /\ staff'[p].tenant = staff[p].tenant /\ staff'[p].user = staff[p].user
      /\ staff'[p].status = "ARCHIVED"
  BY <1>2, <1>3, AbsentIsNoRow DEF Profile, Statuses
<1>5. RowsStay
  BY <1>1, <1>3, <1>4 DEF RowsStay
<1>6. RowTypes'
  <2>1. staff' \in [Staff -> Profile \cup {Absent}]
    BY <1>1, <1>3, <1>4 DEF IInv, TypeOK
  <2> QED
    BY <1>1, <2>1 DEF IInv, TypeOK, RowTypes
<1>7. RowsStayHome'
  <2>1. LinksStayHome'
    BY <1>1, <1>3, <1>4 DEF IInv, RowsStayHome, LinksStayHome
  <2> QED
    BY <1>1, <1>5, <2>1, ServicesPersist, PairsPersist, BookingsPersist DEF RowsStayHome
<1>8. NamesAreUnique'
  BY <1>1, <1>3, <1>4 DEF IInv, NamesAreUnique
<1> QED
  BY <1>1, <1>5, <1>6, <1>7, <1>8, WriteStep

-----------------------------------------------------------------------------
(***************************************************************************)
(* Categories: the unique index looks at the active ones of the tenant.    *)
(***************************************************************************)
LEMMA InsertCategoryStep ==
    ASSUME IInv, NEW t \in Tenants, NEW n \in Names, NEW c \in Categories,
           categories[c] = Absent, InsertCategory(t, c, n)
    PROVE  IInv'
<1> DEFINE row == [tenant |-> t, name |-> n, status |-> "ACTIVE"]
<1>1. /\ ~NameTaken(t, n)
      /\ categories' = [categories EXCEPT ![c] = row]
      /\ UNCHANGED <<services, staff, assigned, bookings, priced, members, calls>>
  BY DEF InsertCategory
<1>2. row \in Category /\ row # Absent /\ row.tenant = t /\ row.name = n
  BY AbsentIsNoRow DEF Category, Statuses
<1> HIDE DEF row
<1>3. categories'[c] = row /\ \A x \in Categories \ {c} : categories'[x] = categories[x]
  BY <1>1 DEF IInv, TypeOK
<1>4. RowsStay
  BY <1>1, <1>3 DEF RowsStay
<1>5. RowTypes'
  BY <1>1, <1>2 DEF IInv, TypeOK, RowTypes
<1>6. RowsStayHome'
  BY <1>1, <1>4, ServicesPersist, PairsPersist, BookingsPersist, LinksPersist DEF RowsStayHome
<1>7. NamesAreUnique'
  BY <1>1, <1>2, <1>3 DEF IInv, NamesAreUnique, NameTaken, HasCategory
<1> QED
  BY <1>1, <1>4, <1>5, <1>6, <1>7, WriteStep

LEMMA UpdateCategoryStep ==
    ASSUME IInv, NEW t \in Tenants, NEW n \in Names, NEW c \in Categories,
           UpdateCategory(t, c, n)
    PROVE  IInv'
<1>1. /\ categories[c] # Absent /\ categories[c].tenant = t
      /\ categories[c].status = "ACTIVE" => ~NameTaken(t, n)
      /\ categories' = [categories EXCEPT ![c].name = n]
      /\ UNCHANGED <<services, staff, assigned, bookings, priced, members, calls>>
  BY DEF UpdateCategory, HasCategory
<1>2. /\ categories'[c] = [categories[c] EXCEPT !.name = n]
      /\ \A x \in Categories \ {c} : categories'[x] = categories[x]
  BY <1>1 DEF IInv, TypeOK
<1>3. /\ categories'[c] \in Category /\ categories'[c] # Absent
      /\ categories'[c].tenant = t /\ categories'[c].name = n
      /\ categories'[c].status = categories[c].status
  <2>1. categories[c] \in Category
    BY <1>1 DEF IInv, TypeOK
  <2> QED
    BY <1>1, <1>2, <2>1, AbsentIsNoRow DEF Category
<1>4. RowsStay
  BY <1>1, <1>2, <1>3 DEF RowsStay
<1>5. RowTypes'
  <2>1. categories' \in [Categories -> Category \cup {Absent}]
    BY <1>1, <1>2, <1>3 DEF IInv, TypeOK
  <2> QED
    BY <1>1, <2>1 DEF IInv, TypeOK, RowTypes
<1>6. RowsStayHome'
  BY <1>1, <1>4, ServicesPersist, PairsPersist, BookingsPersist, LinksPersist DEF RowsStayHome
<1>7. NamesAreUnique'
  BY <1>1, <1>2, <1>3 DEF IInv, NamesAreUnique, NameTaken, HasCategory
<1> QED
  BY <1>1, <1>4, <1>5, <1>6, <1>7, WriteStep

-----------------------------------------------------------------------------
(***************************************************************************)
(* Staff profiles.                                                         *)
(***************************************************************************)
LEMMA CreateStaffStep ==
    ASSUME IInv, NEW r \in Calls, NEW t \in Tenants, NEW u \in Users \cup {Absent},
           CreateStaff(r, t, u)
    PROVE  IInv'
<1> DEFINE gone == { v \in {u} \cap Users : members[<<t, v>>] # "ACTIVE" }
           call == [Idle EXCEPT !.pc = "insert profile", !.tenant = t, !.user = u,
                                !.gone = gone]
<1>1. Read(r, call) /\ u # Absent => members[<<t, u>>] = "ACTIVE"
  BY DEF CreateStaff, ValidateUserLink
<1>2. call \in Call /\ call.missing = {}
  BY DEF Call, PCs, Idle
<1>3. gone = {}
  BY <1>1, AbsentAndKeep DEF CreateStaff, ValidateUserLink
<1>4. calls'[r] = call /\ members' = members
  BY DEF CreateStaff, Read, Goto, IInv, TypeOK
<1>5. CallOK(r)'
  <2>1. u # Absent => members[<<t, u>>] # Absent
    BY AbsentIsNoRow DEF MemberStatus, CreateStaff, ValidateUserLink
  <2> QED
    BY <1>3, <1>4, <2>1 DEF CallOK, At, Idle
<1> QED
  BY <1>2, <1>5, ReadStep DEF CreateStaff

LEMMA InsertStaffStep ==
    ASSUME IInv, NEW r \in Calls, InsertStaff(r)
    PROVE  IInv'
<1> DEFINE t == calls[r].tenant
           u == calls[r].user
<1>1. /\ At(r, "insert profile") /\ Goto(r, Idle)
      /\ UNCHANGED <<services, categories, assigned, bookings, priced, members>>
  BY DEF InsertStaff
<1>2. calls[r] \in Call /\ CallOK(r) /\ t \in Tenants
  BY <1>1, CallType DEF At
<1>3. u \in Users \cup {Absent} /\ (u # Absent => members[<<t, u>>] # Absent)
  BY <1>1, <1>2 DEF CallOK, Call
<1> HIDE DEF t, u
<1>4. CASE UNCHANGED staff
  <2>1. Read(r, Idle)
    BY <1>1, <1>4 DEF Read
  <2> QED
    BY <2>1, EndStep
<1>5. CASE \E p \in Staff, b \in BOOLEAN :
              /\ ~(u # Absent /\ UserLinked(t, u)) /\ staff[p] = Absent
              /\ staff' = [staff EXCEPT ![p] = [tenant |-> t, user |-> u, bookable |-> b,
                                                status |-> "ACTIVE"]]
  <2>1. PICK p \in Staff, b \in BOOLEAN :
           /\ ~(u # Absent /\ UserLinked(t, u)) /\ staff[p] = Absent
           /\ staff' = [staff EXCEPT ![p] = [tenant |-> t, user |-> u, bookable |-> b,
                                             status |-> "ACTIVE"]]
    BY <1>5
  <2> DEFINE row == [tenant |-> t, user |-> u, bookable |-> b, status |-> "ACTIVE"]
  <2>2. row \in Profile /\ row # Absent /\ row.tenant = t /\ row.user = u
    BY <1>2, <1>3, AbsentIsNoRow DEF Profile, Statuses
  <2>3. staff' = [staff EXCEPT ![p] = row]
    BY <2>1
  <2> HIDE DEF row
  <2>4. staff'[p] = row /\ \A x \in Staff \ {p} : staff'[x] = staff[x]
    BY <2>3 DEF IInv, TypeOK
  <2>5. RowsStay
    BY <1>1, <2>1, <2>4 DEF RowsStay
  <2>6. RowTypes'
    BY <1>1, <2>2, <2>3 DEF IInv, TypeOK, RowTypes
  <2>7. RowsStayHome'
    <3>1. LinksStayHome'
      BY <1>1, <1>3, <2>2, <2>4 DEF IInv, RowsStayHome, LinksStayHome
    <3> QED
      BY <1>1, <2>5, <3>1, ServicesPersist, PairsPersist, BookingsPersist DEF RowsStayHome
  <2>8. NamesAreUnique'
    <3>1. \A q \in Staff \ {p} : staff'[q] # Absent /\ u # Absent /\ staff'[q].tenant = t =>
            staff'[q].user # u
      BY <2>1, <2>4 DEF UserLinked, HasProfile
    <3>2. NamesAreUnique
      BY DEF IInv
    <3>3. categories' = categories
      BY <1>1
    <3>4. \A x, y \in Staff :
             /\ staff'[x] # Absent /\ staff'[y] # Absent /\ staff'[x].user # Absent
             /\ staff'[x].tenant = staff'[y].tenant /\ staff'[x].user = staff'[y].user
             => x = y
      BY <2>2, <2>4, <3>1, <3>2 DEF NamesAreUnique
    <3> QED
      BY <3>2, <3>3, <3>4 DEF NamesAreUnique
  <2> QED
    BY <1>1, <2>5, <2>6, <2>7, <2>8, WriteStep
<1> QED
  BY <1>4, <1>5 DEF InsertStaff, t, u

LEMMA UpdateStaffStep ==
    ASSUME IInv, NEW t \in Tenants, NEW p \in Staff, UpdateStaff(t, p)
    PROVE  IInv'
<1>1. /\ staff[p] # Absent /\ staff' = [staff EXCEPT ![p].bookable = ~@]
      /\ UNCHANGED <<services, categories, assigned, bookings, priced, members, calls>>
  BY DEF UpdateStaff, HasProfile
<1>2. \A x \in Staff \ {p} : staff'[x] = staff[x]
  BY <1>1 DEF IInv, TypeOK
<1>3. staff[p] \in Profile /\ staff'[p] = [staff[p] EXCEPT !.bookable = ~@]
  BY <1>1 DEF IInv, TypeOK
<1>4. /\ staff'[p] \in Profile /\ staff'[p] # Absent
      /\ staff'[p].tenant = staff[p].tenant /\ staff'[p].user = staff[p].user
      /\ staff'[p].status = staff[p].status
  BY <1>3, AbsentIsNoRow DEF Profile
<1>5. RowsStay
  BY <1>1, <1>2, <1>4 DEF RowsStay
<1>6. RowTypes'
  <2>1. staff' \in [Staff -> Profile \cup {Absent}]
    BY <1>1, <1>2, <1>4 DEF IInv, TypeOK
  <2> QED
    BY <1>1, <2>1 DEF IInv, TypeOK, RowTypes
<1>7. RowsStayHome'
  <2>1. LinksStayHome'
    BY <1>1, <1>2, <1>4 DEF IInv, RowsStayHome, LinksStayHome
  <2> QED
    BY <1>1, <1>5, <2>1, ServicesPersist, PairsPersist, BookingsPersist DEF RowsStayHome
<1>8. NamesAreUnique'
  BY <1>1, <1>2, <1>4 DEF IInv, NamesAreUnique
<1> QED
  BY <1>1, <1>5, <1>6, <1>7, <1>8, WriteStep

-----------------------------------------------------------------------------
(***************************************************************************)
(* The public pages and receipts.                                          *)
(***************************************************************************)
LEMMA ResolveStep ==
    ASSUME IInv, NEW r \in Calls, NEW t \in Tenants, ResolvePublicTenant(r, t)
    PROVE  IInv'
<1> DEFINE left == { p \in Staff : staff[p] # Absent /\ staff[p].status = "ARCHIVED" }
           call == [Idle EXCEPT !.pc = "resolved", !.tenant = t, !.gone = left]
<1>1. Read(r, call)
  BY DEF ResolvePublicTenant
<1>2. call \in Call /\ call.missing = {}
  BY DEF Call, PCs, Idle
<1>3. calls'[r] = call /\ staff' = staff
  BY <1>1 DEF Read, Goto, IInv, TypeOK
<1>4. CallOK(r)'
  BY <1>3 DEF CallOK, At, Idle
<1> QED
  BY <1>1, <1>2, <1>4, ReadStep

LEMMA GetCatalogStep ==
    ASSUME IInv, NEW r \in Calls, GetCatalog(r)
    PROVE  IInv'
<1> DEFINE t == calls[r].tenant
           filed == { services[s].category : s \in ListByTenant(t) } \ {Absent}
           call == [calls[r] EXCEPT !.pc = "names", !.gone = {}, !.filed = filed]
<1>1. At(r, "resolved") /\ Read(r, IF filed = {} THEN Idle ELSE call)
  BY DEF GetCatalog
<1>2. calls[r] \in Call /\ CallOK(r) /\ calls[r].missing = {} /\ t \in Tenants
  BY <1>1, CallType DEF At
<1>3. \A c \in filed : c \in Categories /\ HasCategory(t, c)
  BY DEF IInv, TypeOK, RowsStayHome, ServicesStayHome, ListByTenant, HasService, Service
<1> HIDE DEF filed
<1>4. CASE filed = {}
  BY <1>1, <1>4, EndStep
<1>5. CASE filed # {}
  <2>1. call \in Call /\ call.missing = {}
    BY <1>2, <1>3 DEF Call, PCs
  <2>2. /\ call.pc = "names" /\ call.tenant = t /\ call.filed = filed /\ call.gone = {}
        /\ call.todo = calls[r].todo
    BY <1>2 DEF Call
  <2> HIDE DEF call
  <2>3. Read(r, call)
    BY <1>1, <1>5
  <2>4. calls'[r] = call /\ UNCHANGED rows
    BY <2>3 DEF Read, Goto, IInv, TypeOK
  <2>5. CallOK(r)'
    BY <1>2, <1>3, <2>2, <2>4 DEF CallOK, At, HasCategory, HasProfile
  <2> QED
    BY <2>1, <2>3, <2>5, ReadStep
<1> QED
  BY <1>4, <1>5

LEMMA CategoryNamesStep ==
    ASSUME IInv, NEW r \in Calls, CategoryNamesByID(r)
    PROVE  IInv'
<1>1. { c \in calls[r].filed : ~HasCategory(calls[r].tenant, c) } = {}
  BY CallType DEF CallOK
<1>2. Read(r, Idle)
  BY <1>1 DEF CategoryNamesByID, Answer
<1> QED
  BY <1>2, EndStep

LEMMA ListCapableStaffStep ==
    ASSUME IInv, NEW r \in Calls, NEW s \in Services, ListCapableStaff(r, s)
    PROVE  IInv'
<1> DEFINE call == [calls[r] EXCEPT !.pc = "technicians", !.id = s]
<1>1. At(r, "resolved") /\ HasService(calls[r].tenant, s) /\ Read(r, call)
  BY DEF ListCapableStaff, ListByTenant
<1>2. /\ calls[r] \in Call /\ CallOK(r) /\ calls[r].missing = {} /\ calls[r].tenant \in Tenants
  BY <1>1, CallType DEF At
<1>3. call \in Call /\ call.missing = {}
  BY <1>2 DEF Call, PCs, Ids
<1>4. /\ call.pc = "technicians" /\ call.id = s /\ call.tenant = calls[r].tenant
      /\ call.filed = calls[r].filed /\ call.todo = calls[r].todo
      /\ call.shown = calls[r].shown /\ call.gone = calls[r].gone
  BY <1>2 DEF Call
<1> HIDE DEF call
<1>5. calls'[r] = call /\ UNCHANGED rows
  BY <1>1 DEF Read, Goto, IInv, TypeOK
<1>6. CallOK(r)'
  BY <1>1, <1>2, <1>4, <1>5 DEF CallOK, At, HasService, HasCategory, HasProfile
<1> QED
  BY <1>1, <1>3, <1>6, ReadStep

\* Whoever is paired with a service of the tenant is the tenant's.
LEMMA ListStaffIDsStep ==
    ASSUME IInv, NEW r \in Calls, ListStaffIDsForService(r)
    PROVE  IInv'
<1> DEFINE ids == { p \in Staff : <<p, calls[r].id>> \in assigned }
           call == [calls[r] EXCEPT !.pc = "profile", !.id = Absent, !.todo = ids]
<1>1. At(r, "technicians") /\ Read(r, IF ids = {} THEN Idle ELSE call)
  BY DEF ListStaffIDsForService
<1>2. /\ calls[r] \in Call /\ CallOK(r) /\ calls[r].missing = {} /\ calls[r].tenant \in Tenants
  BY <1>1, CallType DEF At
<1>3. \A p \in ids : p \in Staff /\ HasProfile(calls[r].tenant, p)
  <2> SUFFICES ASSUME NEW p \in Staff, <<p, calls[r].id>> \in assigned
               PROVE  HasProfile(calls[r].tenant, p)
    OBVIOUS
  <2>1. PICK x \in Tenants : HasProfile(x, p) /\ HasService(x, calls[r].id)
    BY DEF IInv, RowsStayHome, PairsStayHome
  <2>2. HasService(calls[r].tenant, calls[r].id)
    BY <1>1, <1>2 DEF CallOK, At
  <2> QED
    BY <2>1, <2>2 DEF HasService
<1> HIDE DEF ids
<1>4. CASE ids = {}
  BY <1>1, <1>4, EndStep
<1>5. CASE ids # {}
  <2>1. call \in Call /\ call.missing = {}
    BY <1>2, <1>3 DEF Call, PCs
  <2>2. /\ call.pc = "profile" /\ call.tenant = calls[r].tenant /\ call.todo = ids
        /\ call.filed = calls[r].filed /\ call.shown = calls[r].shown
        /\ call.gone = calls[r].gone
    BY <1>2 DEF Call
  <2> HIDE DEF call
  <2>3. Read(r, call)
    BY <1>1, <1>5
  <2>4. calls'[r] = call /\ UNCHANGED rows
    BY <2>3 DEF Read, Goto, IInv, TypeOK
  <2>5. CallOK(r)'
    BY <1>1, <1>2, <1>3, <2>2, <2>4 DEF CallOK, At, HasCategory, HasProfile
  <2> QED
    BY <2>1, <2>3, <2>5, ReadStep
<1> QED
  BY <1>4, <1>5

\* Nobody who was archived when the page began is offered now.
LEMMA ReadProfileStep ==
    ASSUME IInv, NEW r \in Calls, ReadProfile(r)
    PROVE  IInv'
<1> DEFINE t == calls[r].tenant
<1>1. PICK p \in calls[r].todo :
        LET rest == calls[r].todo \ {p}
            shown == calls[r].shown \cup { q \in {p} : Offered(t, q) }
            missing == { q \in {p} : ~HasProfile(t, q) } IN
        Read(r, IF rest = {} \/ missing # {} THEN Answer(missing, shown, calls[r].gone)
                ELSE [calls[r] EXCEPT !.todo = rest, !.shown = shown])
  BY DEF ReadProfile
<1>2. At(r, "profile")
  BY DEF ReadProfile
<1>3. /\ calls[r] \in Call /\ CallOK(r) /\ calls[r].missing = {} /\ t \in Tenants
  BY <1>2, CallType DEF At
<1>4. HasProfile(t, p) /\ p \in Staff /\ calls[r].todo \subseteq Staff
  BY <1>3 DEF CallOK, Call
<1> DEFINE shown == calls[r].shown \cup { q \in {p} : Offered(t, q) }
           rest == calls[r].todo \ {p}
<1>5. shown \cap calls[r].gone = {} /\ shown \subseteq Staff /\ rest \subseteq calls[r].todo
  <2>1. p \in calls[r].gone => staff[p].status = "ARCHIVED"
    BY <1>2, <1>3 DEF CallOK, At
  <2>2. calls[r].shown \cap calls[r].gone = {} /\ calls[r].shown \subseteq Staff
    BY <1>3 DEF CallOK, Call
  <2> QED
    BY <1>4, <2>1, <2>2 DEF Offered
<1>6. Read(r, IF rest = {} THEN Answer({}, shown, calls[r].gone)
              ELSE [calls[r] EXCEPT !.todo = rest, !.shown = shown])
  <2>1. { q \in {p} : ~HasProfile(t, q) } = {}
    BY <1>4
  <2> QED
    BY <1>1, <2>1
<1> HIDE DEF shown, rest
<1>7. CASE rest = {}
  <2>1. CASE shown = {}
    BY <1>6, <1>7, <2>1, EndStep DEF Answer
  <2>2. CASE shown # {}
    <3> DEFINE call == [Idle EXCEPT !.pc = "done", !.missing = {}, !.shown = shown,
                                    !.gone = calls[r].gone]
    <3>1. Read(r, call)
      BY <1>6, <1>7, <2>2 DEF Answer
    <3>2. call \in Call /\ call.missing = {}
      BY <1>3, <1>5 DEF Call, PCs, Idle
    <3>3. calls'[r] = call
      BY <3>1 DEF Read, Goto, IInv, TypeOK
    <3>4. CallOK(r)'
      BY <1>5, <3>3 DEF CallOK, At, Idle
    <3> QED
      BY <3>1, <3>2, <3>4, ReadStep
  <2> QED
    BY <2>1, <2>2
<1>8. CASE rest # {}
  <2> DEFINE call == [calls[r] EXCEPT !.todo = rest, !.shown = shown]
  <2>1. call \in Call /\ call.missing = {}
    BY <1>3, <1>4, <1>5 DEF Call
  <2>2. /\ call.pc = "profile" /\ call.tenant = t /\ call.todo = rest
        /\ call.filed = calls[r].filed /\ call.shown = shown /\ call.gone = calls[r].gone
    BY <1>2, <1>3 DEF Call, At
  <2> HIDE DEF call
  <2>3. Read(r, call)
    BY <1>6, <1>8 DEF call
  <2>4. calls'[r] = call /\ UNCHANGED rows
    BY <2>3 DEF Read, Goto, IInv, TypeOK
  <2>5. CallOK(r)'
    BY <1>2, <1>3, <1>5, <2>2, <2>4 DEF CallOK, At, HasCategory, HasProfile
  <2> QED
    BY <2>1, <2>3, <2>5, ReadStep
<1> QED
  BY <1>7, <1>8

LEMMA GetReceiptStep ==
    ASSUME IInv, NEW r \in Calls, NEW k \in Bookings, GetReceipt(r, k)
    PROVE  IInv'
<1> DEFINE s == bookings[k].service
           p == bookings[k].staff
           call == [calls[r] EXCEPT !.pc = "receipt service", !.gone = {}, !.id = s, !.staff = p]
<1>1. /\ At(r, "resolved") /\ Read(r, call)
      /\ bookings[k] # Absent /\ bookings[k].tenant = calls[r].tenant
  BY DEF GetReceipt, HasBooking
<1>2. calls[r] \in Call /\ CallOK(r) /\ calls[r].missing = {} /\ calls[r].tenant \in Tenants
  BY <1>1, CallType DEF At
<1>3. s \in Services /\ p \in Staff /\ HasService(calls[r].tenant, s) /\ HasProfile(calls[r].tenant, p)
  BY <1>1 DEF IInv, TypeOK, Booking, RowsStayHome, BookingsStayHome
<1> HIDE DEF s, p
<1>4. call \in Call /\ call.missing = {}
  BY <1>2, <1>3 DEF Call, PCs, Ids
<1>5. /\ call.pc = "receipt service" /\ call.id = s /\ call.staff = p
      /\ call.tenant = calls[r].tenant /\ call.filed = calls[r].filed
      /\ call.todo = calls[r].todo /\ call.gone = {}
  BY <1>2 DEF Call
<1>6. Read(r, call)
  BY <1>1
<1> HIDE DEF call
<1>7. calls'[r] = call /\ UNCHANGED rows
  BY <1>6 DEF Read, Goto, IInv, TypeOK
<1>8. CallOK(r)'
  BY <1>2, <1>3, <1>5, <1>7 DEF CallOK, At, HasService, HasCategory, HasProfile
<1> QED
  BY <1>4, <1>6, <1>8, ReadStep

LEMMA ReadReceiptServiceStep ==
    ASSUME IInv, NEW r \in Calls, ReadReceiptService(r)
    PROVE  IInv'
<1> DEFINE call == [calls[r] EXCEPT !.pc = "receipt staff", !.id = Absent]
<1>1. At(r, "receipt service")
  BY DEF ReadReceiptService
<1>2. calls[r] \in Call /\ CallOK(r) /\ calls[r].missing = {} /\ calls[r].tenant \in Tenants
  BY <1>1, CallType DEF At
<1>3. { s \in {calls[r].id} : ~HasService(calls[r].tenant, s) } = {}
  BY <1>1, <1>2 DEF CallOK, At
<1>4. Read(r, call)
  BY <1>3 DEF ReadReceiptService
<1>5. call \in Call /\ call.missing = {}
  BY <1>2 DEF Call, PCs
<1>6. /\ call.pc = "receipt staff" /\ call.staff = calls[r].staff
      /\ call.tenant = calls[r].tenant /\ call.filed = calls[r].filed
      /\ call.todo = calls[r].todo /\ call.shown = calls[r].shown /\ call.gone = calls[r].gone
  BY <1>2 DEF Call
<1> HIDE DEF call
<1>7. calls'[r] = call /\ UNCHANGED rows
  BY <1>4 DEF Read, Goto, IInv, TypeOK
<1>8. CallOK(r)'
  BY <1>1, <1>2, <1>6, <1>7 DEF CallOK, At, HasCategory, HasProfile
<1> QED
  BY <1>4, <1>5, <1>8, ReadStep

LEMMA ReadReceiptStaffStep ==
    ASSUME IInv, NEW r \in Calls, ReadReceiptStaff(r)
    PROVE  IInv'
<1>1. { p \in {calls[r].staff} : ~HasProfile(calls[r].tenant, p) } = {}
  BY CallType DEF ReadReceiptStaff, CallOK, At
<1>2. Read(r, Idle)
  BY <1>1 DEF ReadReceiptStaff, Answer
<1> QED
  BY <1>2, EndStep

-----------------------------------------------------------------------------
(***************************************************************************)
(* The rest of the system.                                                 *)
(***************************************************************************)
LEMMA AssignStep ==
    ASSUME IInv, NEW t \in Tenants, NEW p \in Staff, NEW s \in Services, Assign(t, p, s)
    PROVE  IInv'
<1>1. /\ HasProfile(t, p) /\ HasService(t, s)
      /\ assigned' \subseteq assigned \cup {<<p, s>>}
      /\ UNCHANGED <<services, categories, staff, bookings, priced, members, calls>>
  BY DEF Assign
<1>2. RowsStay /\ NamesAreUnique'
  BY <1>1 DEF RowsStay, IInv, NamesAreUnique
<1>3. RowTypes'
  BY <1>1 DEF IInv, TypeOK, RowTypes
<1>4. PairsStayHome'
  BY <1>1 DEF IInv, RowsStayHome, PairsStayHome, HasProfile, HasService
<1>5. RowsStayHome'
  BY <1>1, <1>2, <1>4, ServicesPersist, BookingsPersist, LinksPersist DEF RowsStayHome
<1> QED
  BY <1>1, <1>2, <1>3, <1>5, WriteStep

LEMMA BookStep ==
    ASSUME IInv, NEW t \in Tenants, NEW k \in Bookings, NEW s \in Services, NEW p \in Staff,
           Book(t, k, s, p)
    PROVE  IInv'
<1> DEFINE row == [tenant |-> t, service |-> s, staff |-> p]
<1>1. /\ HasService(t, s) /\ HasProfile(t, p)
      /\ bookings' = [bookings EXCEPT ![k] = row]
      /\ UNCHANGED <<services, categories, staff, assigned, priced, members, calls>>
  BY DEF Book
<1>2. row \in Booking /\ row.tenant = t /\ row.service = s /\ row.staff = p
  BY DEF Booking
<1> HIDE DEF row
<1>3. bookings'[k] = row /\ \A x \in Bookings \ {k} : bookings'[x] = bookings[x]
  BY <1>1 DEF IInv, TypeOK
<1>4. RowsStay /\ NamesAreUnique'
  BY <1>1 DEF RowsStay, IInv, NamesAreUnique
<1>5. RowTypes'
  BY <1>1, <1>2 DEF IInv, TypeOK, RowTypes
<1>6. BookingsStayHome'
  BY <1>1, <1>2, <1>3 DEF IInv, RowsStayHome, BookingsStayHome, HasProfile, HasService
<1>7. RowsStayHome'
  BY <1>1, <1>4, <1>6, ServicesPersist, PairsPersist, LinksPersist DEF RowsStayHome
<1> QED
  BY <1>1, <1>4, <1>5, <1>7, WriteStep

\* A currency is set, a member enrolled or revoked.
LEMMA TenancyStep ==
    ASSUME IInv,
           \/ \E t \in Tenants : SetCurrency(t)
           \/ \E t \in Tenants, u \in Users : Enrol(t, u) \/ Revoke(t, u)
    PROVE  IInv'
<1>1. /\ UNCHANGED <<services, categories, staff, assigned, bookings, calls>>
      /\ priced \subseteq priced' /\ priced' \subseteq Tenants
  BY DEF SetCurrency, Enrol, Revoke, IInv, TypeOK
<1>2. /\ members' \in [Tenants \X Users -> MemberStatus \cup {Absent}]
      /\ \A m \in Tenants \X Users : members[m] # Absent => members'[m] # Absent
  <2>1. "ACTIVE" # Absent /\ "DISABLED" # Absent
    BY AbsentIsNoRow DEF MemberStatus
  <2> QED
    BY <2>1 DEF SetCurrency, Enrol, Revoke, IInv, TypeOK, MemberStatus
<1>3. RowsStay /\ NamesAreUnique'
  BY <1>1, <1>2 DEF RowsStay, IInv, NamesAreUnique
<1>4. RowTypes'
  BY <1>1, <1>2 DEF IInv, TypeOK, RowTypes
<1>5. RowsStayHome'
  BY <1>1, <1>3, ServicesPersist, PairsPersist, BookingsPersist, LinksPersist DEF RowsStayHome
<1> QED
  BY <1>1, <1>3, <1>4, <1>5, WriteStep

-----------------------------------------------------------------------------
LEMMA BeginStep ==
    ASSUME IInv, NEW r \in Calls, Begin(r)
    PROVE  IInv'
<1>1. PICK t \in Tenants :
         \/ PostService(r, t) \/ PatchService(r, t) \/ PostServiceArchive(r, t)
         \/ PostCategoryArchive(r, t) \/ PostStaff(r, t) \/ PostStaffArchive(r, t)
         \/ ResolvePublicTenant(r, t)
  BY DEF Begin
<1>2. CASE PostService(r, t)
  BY <1>2, CreateServiceStep DEF PostService
<1>3. CASE PatchService(r, t)
  BY <1>3, EditServiceStep DEF PatchService
<1>4. CASE PostServiceArchive(r, t) \/ PostCategoryArchive(r, t) \/ PostStaffArchive(r, t)
  BY <1>4, WillArchiveStep DEF PostServiceArchive, PostCategoryArchive, PostStaffArchive
<1>5. CASE PostStaff(r, t)
  BY <1>5, CreateStaffStep DEF PostStaff
<1>6. CASE ResolvePublicTenant(r, t)
  BY <1>6, ResolveStep
<1> QED
  BY <1>1, <1>2, <1>3, <1>4, <1>5, <1>6

LEMMA CallStep ==
    ASSUME IInv, NEW r \in Calls, Step(r)
    PROVE  IInv'
<1>1. CASE ValidateCategoryAssignment(r) \/ InsertService(r) \/ UpdateService(r)
  BY <1>1, ValidateCategoryStep, InsertServiceStep, UpdateServiceStep
<1>2. CASE ArchiveService(r) \/ ArchiveCategory(r) \/ ArchiveStaff(r) \/ InsertStaff(r)
  BY <1>2, ArchiveServiceStep, ArchiveCategoryStep, ArchiveStaffStep, InsertStaffStep
<1>3. CASE GetPublicServices(r) \/ CategoryNamesByID(r)
  BY <1>3, GetCatalogStep, CategoryNamesStep DEF GetPublicServices
<1>4. CASE GetPublicStaff(r) \/ ListStaffIDsForService(r) \/ ReadProfile(r)
  BY <1>4, ListCapableStaffStep, ListStaffIDsStep, ReadProfileStep DEF GetPublicStaff
<1>5. CASE GetPublicReceipt(r) \/ ReadReceiptService(r) \/ ReadReceiptStaff(r)
  BY <1>5, GetReceiptStep, ReadReceiptServiceStep, ReadReceiptStaffStep DEF GetPublicReceipt
<1>6. CASE Fail(r) \/ Return(r)
  BY <1>6, EndStep DEF Fail, Return
<1> QED
  BY <1>1, <1>2, <1>3, <1>4, <1>5, <1>6 DEF Step

LEMMA OthersStep ==
    ASSUME IInv, Others
    PROVE  IInv'
<1>1. PICK t \in Tenants :
         \/ PostCategory(t) \/ PatchCategory(t) \/ PatchStaff(t)
         \/ \E p \in Staff, s \in Services : Assign(t, p, s)
         \/ \E k \in Bookings, s \in Services, p \in Staff : Book(t, k, s, p)
         \/ \E u \in Users : Enrol(t, u) \/ Revoke(t, u)
         \/ SetCurrency(t)
  BY DEF Others
<1>2. CASE PostCategory(t)
  BY <1>2, InsertCategoryStep DEF PostCategory, CreateCategory
<1>3. CASE PatchCategory(t)
  BY <1>3, UpdateCategoryStep DEF PatchCategory
<1>4. CASE PatchStaff(t)
  BY <1>4, UpdateStaffStep DEF PatchStaff
<1>5. CASE \E p \in Staff, s \in Services : Assign(t, p, s)
  BY <1>5, AssignStep
<1>6. CASE \E k \in Bookings, s \in Services, p \in Staff : Book(t, k, s, p)
  BY <1>6, BookStep
<1>7. CASE SetCurrency(t) \/ \E u \in Users : Enrol(t, u) \/ Revoke(t, u)
  BY <1>7, TenancyStep
<1> QED
  BY <1>1, <1>2, <1>3, <1>4, <1>5, <1>6, <1>7

\* The tables and what running requests have read of them fit together in
\* every reachable state: a reference resolves, within its tenant, from the
\* moment it was read to the write or the answer that relies on it.
THEOREM CatalogInvariant == Spec => []IInv
<1>1. IInv /\ [Next]_vars => IInv'
  <2> SUFFICES ASSUME IInv, [Next]_vars PROVE IInv'
    OBVIOUS
  <2>1. CASE Others
    BY <2>1, OthersStep
  <2>2. CASE \E r \in Calls : Begin(r) \/ Step(r)
    BY <2>2, BeginStep, CallStep
  <2>3. CASE UNCHANGED vars
    <3>1. UNCHANGED rows /\ calls' = calls
      BY <2>3 DEF vars
    <3>2. RowTypes' /\ RowsStayHome' /\ NamesAreUnique'
      BY <3>1 DEF IInv, TypeOK, RowTypes, RowsStayHome, ServicesStayHome, PairsStayHome,
                  BookingsStayHome, LinksStayHome, NamesAreUnique, HasService, HasCategory,
                  HasProfile
    <3> QED
      BY <3>1, <3>2, NothingMoved, WriteStep
  <2> QED
    BY <2>1, <2>2, <2>3 DEF Next
<1> QED
  BY <1>1, CatalogInit, PTL DEF Spec

\* No page and no receipt comes upon a reference that leads nowhere: services,
\* profiles and the rows of categories, archived or not, are still there.
THEOREM PagesFindEverything == Spec => []NothingVanishes
<1>1. IInv => NothingVanishes
  BY DEF IInv
<1> QED
  BY <1>1, CatalogInvariant, PTL

\* No list of technicians has one who was archived before it was asked for.
THEOREM DepartedAreNotShown == Spec => []GoneAreNotShown
<1>1. IInv => GoneAreNotShown
  BY DEF IInv, CallOK, GoneAreNotShown
<1> QED
  BY <1>1, CatalogInvariant, PTL

\* A profile is only ever linked to somebody whose membership was active
\* when the creation of the profile began.
THEOREM LinksAreOfMembers == Spec => LinkedWasMember
<1> DEFINE Created(p) ==
        staff[p] = Absent /\ staff'[p] # Absent =>
          \E r \in Calls :
             /\ At(r, "insert profile") /\ calls'[r] = Idle
             /\ calls[r].user = staff'[p].user /\ calls[r].tenant = staff'[p].tenant
             /\ calls[r].user \notin calls[r].gone
<1>1. IInv /\ [Next]_vars => [\A p \in Staff : Created(p)]_vars
  <2> SUFFICES ASSUME IInv, Next, NEW p \in Staff, staff[p] = Absent, staff'[p] # Absent
               PROVE  Created(p)
    OBVIOUS
  <2>1. staff' # staff
    OBVIOUS
  <2>2. \/ \E r \in Calls : ArchiveStaff(r) \/ InsertStaff(r)
        \/ \E t \in Tenants, q \in Staff : UpdateStaff(t, q)
    <3>1. CASE Others
      BY <2>1, <3>1 DEF Others, PostCategory, CreateCategory, InsertCategory, PatchCategory,
         UpdateCategory, PatchStaff, Assign, Book, SetCurrency, Enrol, Revoke
    <3>2. ASSUME NEW r \in Calls, Begin(r) PROVE FALSE
      BY <2>1, <3>2 DEF Begin, PostService, CreateService, PatchService, EditService,
         PostServiceArchive, RetireService, PostCategoryArchive, RetireCategory,
         PostStaffArchive, RetireStaff, WillArchive, PostStaff, CreateStaff,
         ResolvePublicTenant, Read
    <3>3. ASSUME NEW r \in Calls, Step(r) PROVE ArchiveStaff(r) \/ InsertStaff(r)
      <4>1. CASE ValidateCategoryAssignment(r) \/ InsertService(r) \/ UpdateService(r)
                 \/ ArchiveService(r) \/ ArchiveCategory(r) \/ Fail(r) \/ Return(r)
        BY <2>1, <4>1 DEF ValidateCategoryAssignment, InsertService, UpdateService,
           ArchiveService, ArchiveCategory, Fail, Return, Read
      <4>2. CASE GetPublicServices(r) \/ CategoryNamesByID(r) \/ GetPublicStaff(r)
                 \/ ListStaffIDsForService(r) \/ ReadProfile(r)
        BY <2>1, <4>2 DEF GetPublicServices, GetCatalog, CategoryNamesByID, GetPublicStaff,
           ListCapableStaff, ListStaffIDsForService, ReadProfile, Read
      <4>3. CASE GetPublicReceipt(r) \/ ReadReceiptService(r) \/ ReadReceiptStaff(r)
        BY <2>1, <4>3 DEF GetPublicReceipt, GetReceipt, ReadReceiptService, ReadReceiptStaff,
           Read
      <4> QED
        BY <3>3, <4>1, <4>2, <4>3 DEF Step
    <3> QED
      BY <3>1, <3>2, <3>3 DEF Next
  <2>3. CASE \E t \in Tenants, q \in Staff : UpdateStaff(t, q)
    BY <2>3 DEF UpdateStaff, HasProfile, IInv, TypeOK
  <2>4. ASSUME NEW r \in Calls, ArchiveStaff(r) PROVE FALSE
    <3>1. At(r, "archive") /\ calls[r].id \in Staff
      BY <2>4 DEF ArchiveStaff
    <3>2. CallOK(r)
      BY CallType
    <3>3. staff[calls[r].id] # Absent
      BY <3>1, <3>2, KindsApart DEF CallOK, At, HasProfile
    <3> QED
      BY <2>4, <3>1, <3>3 DEF ArchiveStaff, IInv, TypeOK
  <2>5. ASSUME NEW r \in Calls, InsertStaff(r) PROVE Created(p)
    <3>1. At(r, "insert profile") /\ calls'[r] = Idle
      BY <2>5 DEF InsertStaff, Goto, IInv, TypeOK
    <3>2. calls[r].user \notin calls[r].gone
      BY <3>1, CallType DEF CallOK, At
    <3>3. PICK q \in Staff, b \in BOOLEAN :
             staff' = [staff EXCEPT ![q] = [tenant |-> calls[r].tenant, user |-> calls[r].user,
                                            bookable |-> b, status |-> "ACTIVE"]]
      BY <2>1, <2>5 DEF InsertStaff
    <3>4. p = q
      BY <3>3 DEF IInv, TypeOK
    <3> QED
      BY <3>1, <3>2, <3>3, <3>4 DEF IInv, TypeOK
  <2> QED
    BY <2>2, <2>3, <2>4, <2>5
<1> QED
  BY <1>1, CatalogInvariant, PTL DEF Spec, LinkedWasMember
=============================================================================
