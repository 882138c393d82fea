------------------------------ MODULE Catalog ------------------------------
(***************************************************************************)
(* What a tenant offers: services, their categories and the staff profiles *)
(* of internal/scheduling, the public pages that read them, and receipts.  *)
(* Nothing here runs in a transaction: every statement is a step, and a    *)
(* request begins with its first one.  A request that its first statement  *)
(* refuses changes nothing and is left out, and so are requests refused    *)
(* for their shape and reads that are one statement.                       *)
(*                                                                         *)
(* Rows are archived and never deleted, so that what refers to them keeps  *)
(* resolving: the foreign keys never refuse a write here (CallOK says so). *)
(***************************************************************************)
EXTENDS Integers, FiniteSets

CONSTANTS
    Tenants, Services, Categories, Staff, Bookings, Users, Names, Calls,
    Absent,   \* no row; no category, no user
    Keep,     \* an edit that does not mention the category
    MaxRows   \* bound: services, categories and profiles together

ASSUME KindsApart ==
    /\ Services \cap Staff = {}
    /\ Services \cap Categories = {}
    /\ Staff \cap Categories = {}
ASSUME AbsentAndKeep ==
    /\ Absent # Keep
    /\ {Absent, Keep} \cap (Services \cup Categories \cup Staff \cup Users) = {}
ASSUME MaxRowsIsNat == MaxRows \in Nat

VARIABLES
    services,     \* Services -> Service or Absent
    categories,   \* Categories -> Category or Absent
    staff,        \* Staff -> Profile or Absent
    assigned,     \* the pairs of staff_services
    bookings,     \* Bookings -> what a booking refers to, or Absent
    priced,       \* the tenants with a currency
    members,      \* <<tenant, user>> -> membership status, or Absent
    calls         \* Calls -> a running request's locals, or its answer

rows == <<services, categories, staff, assigned, bookings, priced, members>>
vars == <<rows, calls>>

-----------------------------------------------------------------------------
Statuses == {"ACTIVE", "ARCHIVED"}

Service == [tenant : Tenants, category : Categories \cup {Absent}, status : Statuses]

Category == [tenant : Tenants, name : Names, status : Statuses]

Profile == [tenant : Tenants, user : Users \cup {Absent}, bookable : BOOLEAN,
            status : Statuses]

Booking == [tenant : Tenants, service : Services, staff : Staff]

MemberStatus == {"ACTIVE", "DISABLED"}

ASSUME AbsentIsNoRow ==
    Absent \notin Service \cup Category \cup Profile \cup Booking \cup MemberStatus

\* Rows that an edit or a page can name.
Ids == Services \cup Categories \cup Staff

PCs == {"idle", "category", "insert service", "update service", "archive",
        "insert profile", "resolved", "names", "technicians", "profile",
        "receipt service", "receipt staff", "done"}

\* id, category, user and staff are the request's arguments or what it has
\* read; filed, the categories of the services listed; todo, the profiles
\* still to read; shown and missing, the technicians that the answer lists
\* and what it could not resolve.  gone is history: the profiles archived,
\* or the user no active member, when the request began.
Call == [pc : PCs, tenant : Tenants \cup {Absent}, id : Ids \cup {Absent},
         category : Categories \cup {Absent, Keep}, user : Users \cup {Absent},
         staff : Staff \cup {Absent}, filed : SUBSET Categories,
         todo : SUBSET Staff, shown : SUBSET Staff, missing : SUBSET Ids,
         gone : SUBSET (Staff \cup Users)]

Idle == [pc |-> "idle", tenant |-> Absent, id |-> Absent, category |-> Keep,
         user |-> Absent, staff |-> Absent, filed |-> {}, todo |-> {},
         shown |-> {}, missing |-> {}, gone |-> {}]

At(r, pc) == calls[r].pc = pc

\* A statement that reads, and a request that goes on or ends with it.
Goto(r, call) == calls' = [calls EXCEPT ![r] = call]
Read(r, call) == Goto(r, call) /\ UNCHANGED rows

\* The end of a page or a receipt: what is of interest in the answer.
Answer(missing, shown, gone) ==
    IF missing \cup shown = {} THEN Idle
    ELSE [Idle EXCEPT !.pc = "done", !.missing = missing, !.shown = shown, !.gone = gone]

\* FindByID of the three repositories.
HasService(t, s) == services[s] # Absent /\ services[s].tenant = t

HasCategory(t, c) == categories[c] # Absent /\ categories[c].tenant = t

\* Mutant: the profile of somebody who has left is not found any more.
HasActiveProfile(t, p) ==
    staff[p] # Absent /\ staff[p].tenant = t /\ staff[p].status = "ACTIVE"

HasProfile(t, p) == staff[p] # Absent /\ staff[p].tenant = t

HasBooking(t, k) == bookings[k] # Absent /\ bookings[k].tenant = t

Room ==
    Cardinality({ s \in Services : services[s] # Absent })
    + Cardinality({ c \in Categories : categories[c] # Absent })
    + Cardinality({ p \in Staff : staff[p] # Absent }) < MaxRows

\* service_categories_tenant_name_unique is partial.
NameTaken(t, n) ==
    \E c \in Categories : HasCategory(t, c) /\ categories[c].name = n
                          /\ categories[c].status = "ACTIVE"

\* staff_profiles_tenant_user_unique counts archived profiles too.
UserLinked(t, u) == \E p \in Staff : HasProfile(t, p) /\ staff[p].user = u

-----------------------------------------------------------------------------
Init ==
    /\ services = [s \in Services |-> Absent]
    /\ categories = [c \in Categories |-> Absent]
    /\ staff = [p \in Staff |-> Absent]
    /\ assigned = {}
    /\ bookings = [k \in Bookings |-> Absent]
    /\ priced = {}
    /\ members = [m \in Tenants \X Users |-> Absent]
    /\ calls = [r \in Calls |-> Idle]

(***************************************************************************)
(* Services.                                                               *)
(***************************************************************************)
\* Mutant: a tenant without a currency will do.
ResolveAnyTenant(t) == t \in Tenants

ResolveCurrency(t) == t \in priced

\* The currency is the first statement of a creation; then the category.
CreateService(r, t, c) ==
    /\ At(r, "idle") /\ ResolveCurrency(t)
    /\ Read(r, [Idle EXCEPT !.pc = IF c = Absent THEN "insert service" ELSE "category",
                            !.tenant = t, !.category = c])

\* An edit reads the currency if it names a price, then the category if it
\* names one, which may also be cleared or left alone.
EditService(r, t, s, price, c) ==
    /\ At(r, "idle") /\ (price => ResolveCurrency(t))
    /\ Read(r, [Idle EXCEPT !.pc = IF c \in {Absent, Keep} THEN "update service" ELSE "category",
                            !.tenant = t, !.id = s, !.category = c])

\* A category need not be active for a service to be filed under it.
ValidateCategoryAssignment(r) ==
    /\ At(r, "category")
    /\ \/ ~HasCategory(calls[r].tenant, calls[r].category) /\ Read(r, Idle)
       \/ /\ HasCategory(calls[r].tenant, calls[r].category)
          /\ Read(r, [calls[r] EXCEPT !.pc = IF calls[r].id = Absent THEN "insert service"
                                             ELSE "update service"])

InsertService(r) ==
    /\ At(r, "insert service") /\ Room
    /\ \E s \in Services :
          /\ services[s] = Absent
          /\ services' = [services EXCEPT ![s] =
                [tenant |-> calls[r].tenant, category |-> calls[r].category, status |-> "ACTIVE"]]
    /\ Goto(r, Idle)
    /\ UNCHANGED <<categories, staff, assigned, bookings, priced, members>>

\* The UPDATE sets the fields that the edit names, of an archived service too.
UpdateService(r) ==
    /\ At(r, "update service")
    /\ LET s == calls[r].id IN
       services' = [services EXCEPT ![s] =
            IF HasService(calls[r].tenant, s) /\ calls[r].category # Keep
            THEN [@ EXCEPT !.category = calls[r].category] ELSE @]
    /\ Goto(r, Idle)
    /\ UNCHANGED <<categories, staff, assigned, bookings, priced, members>>

(***************************************************************************)
(* Archiving: found active first, then archived by an UPDATE that does not *)
(* look at the status again.                                               *)
(***************************************************************************)
WillArchive(r, t, x) ==
    At(r, "idle") /\ Read(r, [Idle EXCEPT !.pc = "archive", !.tenant = t, !.id = x])

RetireService(r, t, s) ==
    HasService(t, s) /\ services[s].status = "ACTIVE" /\ WillArchive(r, t, s)

RetireCategory(r, t, c) ==
    HasCategory(t, c) /\ categories[c].status = "ACTIVE" /\ WillArchive(r, t, c)

RetireStaff(r, t, p) ==
    HasProfile(t, p) /\ staff[p].status = "ACTIVE" /\ WillArchive(r, t, p)

ArchiveService(r) ==
    /\ At(r, "archive") /\ calls[r].id \in Services
    /\ services' = [services EXCEPT ![calls[r].id].status = "ARCHIVED"]
    /\ Goto(r, Idle)
    /\ UNCHANGED <<categories, staff, assigned, bookings, priced, members>>

\* The services filed under it stay as they are.
ArchiveCategory(r) ==
    /\ At(r, "archive") /\ calls[r].id \in Categories
    /\ categories' = [categories EXCEPT ![calls[r].id].status = "ARCHIVED"]
    /\ Goto(r, Idle)
    /\ UNCHANGED <<services, staff, assigned, bookings, priced, members>>

\* What the technician can do and is booked for stays as it is.
ArchiveStaff(r) ==
    /\ At(r, "archive") /\ calls[r].id \in Staff
    /\ staff' = [staff EXCEPT ![calls[r].id].status = "ARCHIVED"]
    /\ Goto(r, Idle)
    /\ UNCHANGED <<services, categories, assigned, bookings, priced, members>>

(***************************************************************************)
(* Categories: one statement each.                                         *)
(***************************************************************************)
InsertCategory(t, c, n) ==
    /\ Room /\ ~NameTaken(t, n)
    /\ categories' = [categories EXCEPT ![c] = [tenant |-> t, name |-> n, status |-> "ACTIVE"]]
    /\ UNCHANGED <<services, staff, assigned, bookings, priced, members, calls>>

CreateCategory(t, n) ==
    \E c \in Categories : categories[c] = Absent /\ InsertCategory(t, c, n)

\* An archived category may take a name that is in use.
UpdateCategory(t, c, n) ==
    /\ HasCategory(t, c) /\ categories[c].name # n
    /\ categories[c].status = "ACTIVE" => ~NameTaken(t, n)
    /\ categories' = [categories EXCEPT ![c].name = n]
    /\ UNCHANGED <<services, staff, assigned, bookings, priced, members, calls>>

(***************************************************************************)
(* Staff profiles.                                                         *)
(***************************************************************************)
\* Mutant: any membership will do.
ValidateAnyMember(t, u) == u # Absent => members[<<t, u>>] # Absent

\* A worker without a login is linked to nobody, and no member is read.
ValidateUserLink(t, u) == u # Absent => members[<<t, u>>] = "ACTIVE"

CreateStaff(r, t, u) ==
    /\ At(r, "idle") /\ ValidateUserLink(t, u)
    /\ Read(r, [Idle EXCEPT !.pc = "insert profile", !.tenant = t, !.user = u,
                            !.gone = { v \in {u} \cap Users : members[<<t, v>>] # "ACTIVE" }])

InsertStaff(r) ==
    /\ At(r, "insert profile")
    /\ LET t == calls[r].tenant
           u == calls[r].user
           taken == u # Absent /\ UserLinked(t, u) IN
       \/ taken /\ UNCHANGED staff
       \/ ~taken /\ Room /\ \E p \in Staff : \E b \in BOOLEAN :
             /\ staff[p] = Absent
             /\ staff' = [staff EXCEPT ![p] =
                             [tenant |-> t, user |-> u, bookable |-> b, status |-> "ACTIVE"]]
    /\ Goto(r, Idle)
    /\ UNCHANGED <<services, categories, assigned, bookings, priced, members>>

\* Pausing and resuming a technician, archived or not.
UpdateStaff(t, p) ==
    /\ HasProfile(t, p)
    /\ staff' = [staff EXCEPT ![p].bookable = ~@]
    /\ UNCHANGED <<services, categories, assigned, bookings, priced, members, calls>>

(***************************************************************************)
(* What customers see.  Every request finds its tenant by its slug first,  *)
(* which any tenant may be open for: Tenancy.tla says when.                *)
(***************************************************************************)
ResolvePublicTenant(r, t) ==
    /\ At(r, "idle")
    /\ Read(r, [Idle EXCEPT !.pc = "resolved", !.tenant = t,
                   !.gone = { p \in Staff : staff[p] # Absent /\ staff[p].status = "ARCHIVED" }])

ListByTenant(t) == { s \in Services : HasService(t, s) /\ services[s].status = "ACTIVE" }

\* The catalog reads the services first, then the names of all categories,
\* unless no service is filed under one.
GetCatalog(r) ==
    /\ At(r, "resolved")
    /\ LET filed == { services[s].category : s \in ListByTenant(calls[r].tenant) } \ {Absent} IN
       Read(r, IF filed = {} THEN Idle
               ELSE [calls[r] EXCEPT !.pc = "names", !.gone = {}, !.filed = filed])

\* Names are looked up whatever the status; a category that was not found
\* would show its services as uncategorised.
CategoryNamesByID(r) ==
    /\ At(r, "names")
    /\ Read(r, Answer({ c \in calls[r].filed : ~HasCategory(calls[r].tenant, c) }, {}, {}))

\* The technicians of a service, each read on its own.
ListCapableStaff(r, s) ==
    /\ At(r, "resolved") /\ s \in ListByTenant(calls[r].tenant)
    /\ Read(r, [calls[r] EXCEPT !.pc = "technicians", !.id = s])

ListStaffIDsForService(r) ==
    /\ At(r, "technicians")
    /\ LET ids == { p \in Staff : <<p, calls[r].id>> \in assigned } IN
       Read(r, IF ids = {} THEN Idle
               ELSE [calls[r] EXCEPT !.pc = "profile", !.id = Absent, !.todo = ids])

\* Mutant: who is bookable is offered, whether or not they still work here.
OfferBookable(t, p) == HasProfile(t, p) /\ staff[p].bookable

Offered(t, p) == HasProfile(t, p) /\ staff[p].bookable /\ staff[p].status = "ACTIVE"

\* A profile that is not found fails the whole list.
ReadProfile(r) ==
    /\ At(r, "profile")
    /\ \E p \in calls[r].todo :
          LET t == calls[r].tenant
              rest == calls[r].todo \ {p}
              shown == calls[r].shown \cup { q \in {p} : Offered(t, q) }
              missing == { q \in {p} : ~HasProfile(t, q) } IN
          Read(r, IF rest = {} \/ missing # {} THEN Answer(missing, shown, calls[r].gone)
                  ELSE [calls[r] EXCEPT !.todo = rest, !.shown = shown])

\* A booking's receipt: the booking, its service and its technician as they
\* are now.
GetReceipt(r, k) ==
    /\ At(r, "resolved") /\ HasBooking(calls[r].tenant, k)
    /\ Read(r, [calls[r] EXCEPT !.pc = "receipt service", !.gone = {},
                            !.id = bookings[k].service, !.staff = bookings[k].staff])

ReadReceiptService(r) ==
    /\ At(r, "receipt service")
    /\ LET lost == { s \in {calls[r].id} : ~HasService(calls[r].tenant, s) } IN
       Read(r, IF lost # {} THEN Answer(lost, {}, {})
               ELSE [calls[r] EXCEPT !.pc = "receipt staff", !.id = Absent])

ReadReceiptStaff(r) ==
    /\ At(r, "receipt staff")
    /\ Read(r, Answer({ p \in {calls[r].staff} : ~HasProfile(calls[r].tenant, p) }, {}, {}))

\* A statement fails or finds nothing, or the client has gone: there is
\* nothing to undo.
Fail(r) == calls[r].pc \notin {"idle", "done"} /\ Read(r, Idle)

Return(r) == At(r, "done") /\ Read(r, Idle)

(***************************************************************************)
(* What the rest of the system does to these tables.                       *)
(***************************************************************************)
\* A pair of the sets that Roster.tla replaces, refused by its foreign keys
\* unless both are the tenant's; archived rows may be paired.
Assign(t, p, s) ==
    /\ HasProfile(t, p) /\ HasService(t, s)
    /\ assigned' = IF <<p, s>> \in assigned THEN assigned \ {<<p, s>>} ELSE assigned \cup {<<p, s>>}
    /\ UNCHANGED <<services, categories, staff, bookings, priced, members, calls>>

\* The INSERT at the end of Bookings.tla: what it read as active may have
\* been archived since.
Book(t, k, s, p) ==
    /\ bookings[k] = Absent /\ HasService(t, s) /\ HasProfile(t, p)
    /\ bookings' = [bookings EXCEPT ![k] = [tenant |-> t, service |-> s, staff |-> p]]
    /\ UNCHANGED <<services, categories, staff, assigned, priced, members, calls>>

\* Tenancy.tla: a currency is never unset, a member never re-activated.
SetCurrency(t) ==
    /\ t \notin priced
    /\ priced' = priced \cup {t}
    /\ UNCHANGED <<services, categories, staff, assigned, bookings, members, calls>>

Enrol(t, u) ==
    /\ members[<<t, u>>] = Absent
    /\ members' = [members EXCEPT ![<<t, u>>] = "ACTIVE"]
    /\ UNCHANGED <<services, categories, staff, assigned, bookings, priced, calls>>

Revoke(t, u) ==
    /\ members[<<t, u>>] = "ACTIVE"
    /\ members' = [members EXCEPT ![<<t, u>>] = "DISABLED"]
    /\ UNCHANGED <<services, categories, staff, assigned, bookings, priced, calls>>

-----------------------------------------------------------------------------
(***************************************************************************)
(* The routes: what a request may name.  Ids of other tenants and of rows  *)
(* that do not exist are named too; the tenant is the caller's own.        *)
(***************************************************************************)
PostService(r, t) == \E c \in Categories \cup {Absent} : CreateService(r, t, c)

\* An omitted category is kept and null clears it.
PatchService(r, t) ==
    \E s \in Services, c \in Categories \cup {Absent, Keep}, price \in BOOLEAN :
        EditService(r, t, s, price, c)

PostServiceArchive(r, t) == \E s \in Services : RetireService(r, t, s)

PostCategory(t) == \E n \in Names : CreateCategory(t, n)

PatchCategory(t) == \E c \in Categories, n \in Names : UpdateCategory(t, c, n)

PostCategoryArchive(r, t) == \E c \in Categories : RetireCategory(r, t, c)

PostStaff(r, t) == \E u \in Users \cup {Absent} : CreateStaff(r, t, u)

PatchStaff(t) == \E p \in Staff : UpdateStaff(t, p)

PostStaffArchive(r, t) == \E p \in Staff : RetireStaff(r, t, p)

GetPublicServices(r) == GetCatalog(r)

GetPublicStaff(r) == \E s \in Services : ListCapableStaff(r, s)

GetPublicReceipt(r) == \E k \in Bookings : GetReceipt(r, k)

Begin(r) ==
    \E t \in Tenants :
        \/ PostService(r, t) \/ PatchService(r, t) \/ PostServiceArchive(r, t)
        \/ PostCategoryArchive(r, t)
        \/ PostStaff(r, t) \/ PostStaffArchive(r, t)
        \/ ResolvePublicTenant(r, t)

Step(r) ==
    \/ ValidateCategoryAssignment(r) \/ InsertService(r) \/ UpdateService(r)
    \/ ArchiveService(r) \/ ArchiveCategory(r) \/ ArchiveStaff(r) \/ InsertStaff(r)
    \/ GetPublicServices(r) \/ CategoryNamesByID(r)
    \/ GetPublicStaff(r) \/ ListStaffIDsForService(r) \/ ReadProfile(r)
    \/ GetPublicReceipt(r) \/ ReadReceiptService(r) \/ ReadReceiptStaff(r)
    \/ Fail(r) \/ Return(r)

Others ==
    \E t \in Tenants :
        \/ PostCategory(t) \/ PatchCategory(t) \/ PatchStaff(t)
        \/ \E p \in Staff, s \in Services : Assign(t, p, s)
        \/ \E k \in Bookings, s \in Services, p \in Staff : Book(t, k, s, p)
        \/ \E u \in Users : Enrol(t, u) \/ Revoke(t, u)
        \/ SetCurrency(t)

Next == Others \/ \E r \in Calls : Begin(r) \/ Step(r)

Spec == Init /\ [][Next]_vars

-----------------------------------------------------------------------------
(***************************************************************************)
(* Properties.  The conjuncts of IInv are an inductive invariant.          *)
(***************************************************************************)
TypeOK ==
    /\ services \in [Services -> Service \cup {Absent}]
    /\ categories \in [Categories -> Category \cup {Absent}]
    /\ staff \in [Staff -> Profile \cup {Absent}]
    /\ assigned \subseteq Staff \X Services
    /\ bookings \in [Bookings -> Booking \cup {Absent}]
    /\ priced \subseteq Tenants
    /\ members \in [Tenants \X Users -> MemberStatus \cup {Absent}]
    /\ calls \in [Calls -> Call]

\* Whatever a row refers to exists and is its own tenant's, and a service has
\* a currency to be priced in.
ServicesStayHome ==
    \A s \in Services : services[s] # Absent =>
        /\ services[s].tenant \in priced
        /\ services[s].category # Absent => HasCategory(services[s].tenant, services[s].category)

PairsStayHome ==
    \A a \in assigned : \E t \in Tenants : HasProfile(t, a[1]) /\ HasService(t, a[2])

BookingsStayHome ==
    \A k \in Bookings : bookings[k] # Absent =>
        /\ HasService(bookings[k].tenant, bookings[k].service)
        /\ HasProfile(bookings[k].tenant, bookings[k].staff)

LinksStayHome ==
    \A p \in Staff : staff[p] # Absent /\ staff[p].user # Absent =>
        members[<<staff[p].tenant, staff[p].user>>] # Absent

RowsStayHome == ServicesStayHome /\ PairsStayHome /\ BookingsStayHome /\ LinksStayHome

\* No two active categories of a tenant share a name, no two profiles of a
\* tenant a user.
NamesAreUnique ==
    /\ \A c, d \in Categories :
          /\ categories[c] # Absent /\ categories[d] # Absent
          /\ categories[c].status = "ACTIVE" /\ categories[d].status = "ACTIVE"
          /\ categories[c].tenant = categories[d].tenant
          /\ categories[c].name = categories[d].name
          => c = d
    /\ \A p, q \in Staff :
          /\ staff[p] # Absent /\ staff[q] # Absent
          /\ staff[p].user # Absent
          /\ staff[p].tenant = staff[q].tenant /\ staff[p].user = staff[q].user
          => p = q

\* What a running request has read, and that it is still there.
CallOK(r) ==
    LET t == calls[r].tenant IN
    /\ calls[r].pc \notin {"idle", "done"} => t \in Tenants
    /\ calls[r].pc \in {"category", "insert service"} /\ calls[r].id = Absent => t \in priced
    /\ At(r, "category") => calls[r].category \in Categories
    /\ At(r, "insert service") => calls[r].id = Absent /\ calls[r].category # Keep
    /\ calls[r].pc \in {"insert service", "update service"} /\ calls[r].category \in Categories =>
          HasCategory(t, calls[r].category)
    /\ calls[r].pc = "update service" => calls[r].id \in Services
    /\ calls[r].pc = "category" => calls[r].id \in Services \cup {Absent}
    /\ At(r, "archive") =>
          \/ calls[r].id \in Services /\ HasService(t, calls[r].id)
          \/ calls[r].id \in Categories /\ HasCategory(t, calls[r].id)
          \/ calls[r].id \in Staff /\ HasProfile(t, calls[r].id)
    /\ At(r, "insert profile") =>
          /\ calls[r].user # Absent => members[<<t, calls[r].user>>] # Absent
          /\ calls[r].user \notin calls[r].gone
    /\ calls[r].pc \in {"technicians", "receipt service"} =>
          calls[r].id \in Services /\ HasService(t, calls[r].id)
    /\ \A c \in calls[r].filed : HasCategory(t, c)
    /\ \A p \in calls[r].todo : HasProfile(t, p)
    /\ calls[r].pc \in {"receipt service", "receipt staff"} =>
          calls[r].staff \in Staff /\ HasProfile(t, calls[r].staff)
    /\ calls[r].pc \in {"resolved", "technicians", "profile"} =>
          \A p \in calls[r].gone : p \in Staff /\ staff[p] # Absent /\ staff[p].status = "ARCHIVED"
    /\ calls[r].shown \cap calls[r].gone = {}

\* No page and no receipt comes upon a reference that leads nowhere, although
\* each reads its tables one after the other while rows are archived, moved
\* and renamed: the category of a listed service is still a row of the tenant,
\* a list of technicians is never failed by one who has left, and a booking
\* keeps its receipt.  Whether an archived category's name belongs on the page
\* is not asked: GetCatalog shows it, as its comment says it should, and the
\* comment on ServiceCategory says that archiving hides the grouping.
NothingVanishes == \A r \in Calls : calls[r].missing = {}

IInv ==
    /\ TypeOK
    /\ RowsStayHome
    /\ NamesAreUnique
    /\ \A r \in Calls : CallOK(r)
    /\ NothingVanishes

\* Nobody whose profile was archived before a customer asked for the
\* technicians of a service is in the answer.
GoneAreNotShown ==
    \A r \in Calls : At(r, "done") => calls[r].shown \cap calls[r].gone = {}

\* A profile links only somebody who was an active member when its creation
\* began: a revocation that came before is never overlooked.
LinkedWasMember ==
    [][\A p \in Staff : staff[p] = Absent /\ staff'[p] # Absent =>
          \E r \in Calls :
             /\ At(r, "insert profile") /\ calls'[r] = Idle
             /\ calls[r].user = staff'[p].user /\ calls[r].tenant = staff'[p].tenant
             /\ calls[r].user \notin calls[r].gone]_vars

=============================================================================
