------------------------------- MODULE Tenancy -------------------------------
(***************************************************************************)
(* Tenants, their members and their roles (internal/tenant and             *)
(* internal/authorization): founding a tenant in one transaction, and the  *)
(* operations on a tenant behind the tenant-context and permission         *)
(* middleware.  Every SQL statement is a step, and a statement outside a   *)
(* transaction needs a connection of its own from the pool.                *)
(*                                                                         *)
(* Reads of what nothing in the program changes are left out: a user's and *)
(* a tenant's existence once known, the status of a tenant, the catalog of *)
(* roles.  So are requests refused for their shape.                        *)
(***************************************************************************)
EXTENDS Integers, FiniteSets

CONSTANTS
    Users, TenantIds, Slugs, Currencies, Calls,
    Absent,
    Pool,                   \* SetMaxOpenConns
    Home, Owner, HomeSlug   \* a tenant founded earlier, by whom, under which slug

ASSUME AbsentIsNothing ==
    Absent \notin Users \cup TenantIds \cup Slugs \cup Currencies \cup Calls
\* The program sets 10; to SetMaxOpenConns, zero would mean no limit.
ASSUME PoolIsPositive == Pool \in Nat \ {0}
ASSUME HomeIsKnown == Home \in TenantIds /\ Owner \in Users /\ HomeSlug \in Slugs

VARIABLES
    tenants,   \* TenantIds -> Tenant or Absent
    members,   \* rows of tenant_memberships
    roles,     \* rows of user_roles of tenant scope
    calls,     \* Calls -> a running request's locals, or its answer
    founder    \* history: TenantIds -> who created it

vars == <<tenants, members, roles, calls, founder>>

-----------------------------------------------------------------------------
\* tx is the call whose open transaction has written the row, Absent once it
\* is committed.
Tenant == [slug : Slugs, step : BOOLEAN, timezone : BOOLEAN, completed : BOOLEAN,
           currency : Currencies \cup {Absent}, tx : Calls \cup {Absent}]

ASSUME AbsentIsNoRow == Absent \notin Tenant

Member == [tenant : TenantIds, user : Users, status : {"ACTIVE", "DISABLED"},
           tx : Calls \cup {Absent}]

RoleNames == {"BUSINESS_OWNER", "STAFF"}

Role == [tenant : TenantIds, user : Users, role : RoleNames, tx : Calls \cup {Absent}]

Grants(role) ==
    IF role = "BUSINESS_OWNER"
    THEN {"tenant.read", "tenant.update", "user.create", "user.disable", "role.assign"}
    ELSE {"tenant.read"}

Needs == [show |-> "tenant.read", profile |-> "tenant.update",
          progress |-> "tenant.update", complete |-> "tenant.update",
          currency |-> "tenant.update", enrol |-> "user.create",
          revoke |-> "user.disable", assign |-> "role.assign"]

Guarded == DOMAIN Needs

\* Where an operation starts once the middleware lets it through.
Begins == [show |-> "show", profile |-> "profile", progress |-> "progress",
           complete |-> "judge", currency |-> "compare", enrol |-> "enrol",
           revoke |-> "disable", assign |-> "member again"]

Founding == {"insert tenant", "read user", "insert member", "insert owner", "commit"}

PCs == {"idle", "begin", "context", "member", "roles", "show", "profile", "progress",
        "judge", "complete", "compare", "currency", "enrol", "disable", "member again",
        "roles again", "target", "assign", "done"} \cup Founding

Codes == {"OK", "TENANT_SLUG_TAKEN", "TENANT_ACCESS_DENIED", "PERMISSION_DENIED",
          "VALIDATION_FAILED", "TENANT_MEMBERSHIP_ALREADY_EXISTS",
          "ROLE_ASSIGNMENT_ALREADY_EXISTS", "INTERNAL_ERROR"}

Arguments == Slugs \cup Currencies \cup RoleNames \cup {Absent}

\* barred and settled are history: what the caller's membership and the
\* tenant's currency were when the call began.
Call == [pc : PCs, op : Guarded \cup {"create", "none"}, actor : Users \cup {Absent},
         tenant : TenantIds \cup {Absent}, target : Users \cup {Absent},
         arg : Arguments, code : Codes \cup {"none"},
         barred : BOOLEAN, settled : Currencies \cup {Absent}]

Idle == [pc |-> "idle", op |-> "none", actor |-> Absent, tenant |-> Absent,
         target |-> Absent, arg |-> Absent, code |-> "none",
         barred |-> FALSE, settled |-> Absent]

At(c, pc) == calls[c].pc = pc

Running(c) == calls[c].pc \notin {"idle", "done"}

Goto(c, pc) == calls' = [calls EXCEPT ![c].pc = pc]

\* Of an answered request, only what a property asks for is kept.
Answer(c, code) ==
    calls' = [calls EXCEPT ![c] =
        [Idle EXCEPT !.pc = "done", !.code = code,
                     !.arg = IF code = "TENANT_SLUG_TAKEN" THEN calls[c].arg ELSE Absent,
                     !.barred = calls[c].barred]]

\* READ COMMITTED: committed rows, and those of one's own transaction.
Seen(c, row) == row.tx \in {Absent, c}

Exists(t) == tenants[t] # Absent

\* Mutant: any membership will do.
AnyMember(c, t, u) ==
    \E m \in members : m.tenant = t /\ m.user = u /\ Seen(c, m)

ActiveMember(c, t, u) ==
    \E m \in members : /\ m.tenant = t /\ m.user = u /\ m.status = "ACTIVE"
                       /\ Seen(c, m)

\* Mutant: a role counts in every tenant.
PermittedAnywhere(c, u, t, permission) ==
    \E r \in roles : r.user = u /\ Seen(c, r) /\ permission \in Grants(r.role)

Permitted(c, u, t, permission) ==
    \E r \in roles : /\ r.tenant = t /\ r.user = u /\ Seen(c, r)
                     /\ permission \in Grants(r.role)

\* Connections: one for every open transaction.
Held == {c \in Calls : calls[c].pc \in Founding}

Free == Cardinality(Held) < Pool

-----------------------------------------------------------------------------
\* The earlier tenant, as this code may have left it; the rows that migration
\* 000009 declared COMPLETED as they stood are not among them.
Started ==
    { [slug |-> HomeSlug, step |-> s, timezone |-> s, completed |-> d,
       currency |-> Absent, tx |-> Absent] : s \in BOOLEAN, d \in BOOLEAN }

\* What validateOnboardingCompletionPrerequisites can find missing.
Complete(row) == row.step /\ row.timezone

Init ==
    /\ \E row \in Started :
         /\ row.completed => Complete(row)
         /\ tenants = [t \in TenantIds |-> IF t = Home THEN row ELSE Absent]
    /\ \E others \in SUBSET (Users \ {Owner}) :
         members = { [tenant |-> Home, user |-> u, status |-> "ACTIVE", tx |-> Absent] :
                     u \in others \cup {Owner} }
    /\ roles = {[tenant |-> Home, user |-> Owner, role |-> "BUSINESS_OWNER", tx |-> Absent]}
    /\ calls = [c \in Calls |-> Idle]
    /\ founder = [t \in TenantIds |-> IF t = Home THEN Owner ELSE Absent]

-----------------------------------------------------------------------------
(***************************************************************************)
(* POST /tenants: any signed-in user; the middleware needs no tenant yet.  *)
(***************************************************************************)
CallCreate(c) ==
    /\ At(c, "idle")
    /\ \E u \in Users, slug \in Slugs :
         calls' = [calls EXCEPT ![c] =
             [Idle EXCEPT !.pc = "begin", !.op = "create", !.actor = u, !.arg = slug]]
    /\ UNCHANGED <<tenants, members, roles, founder>>

\* BeginTx takes a connection and keeps it to the end.
Begin(c) ==
    /\ At(c, "begin") /\ Free
    /\ Goto(c, "insert tenant")
    /\ UNCHANGED <<tenants, members, roles, founder>>

HasSlug(t, slug) == Exists(t) /\ tenants[t].slug = slug

\* Waits while another transaction has written the slug and is still open.
InsertTenant(c) ==
    /\ At(c, "insert tenant")
    /\ \A t \in TenantIds : ~HasSlug(t, calls[c].arg)
    /\ \E t \in TenantIds :
         /\ ~Exists(t)
         /\ tenants' = [tenants EXCEPT ![t] =
                [slug |-> calls[c].arg, step |-> FALSE, timezone |-> FALSE,
                 completed |-> FALSE, currency |-> Absent, tx |-> c]]
         /\ founder' = [founder EXCEPT ![t] = calls[c].actor]
         /\ calls' = [calls EXCEPT ![c].pc = "read user", ![c].tenant = t]
    /\ UNCHANGED <<members, roles>>

Others(c, rows) == { row \in rows : row.tx # c }

\* Mutant: the deferred rollback is forgotten.
RefuseWithoutRollback(c, code) ==
    Answer(c, code) /\ UNCHANGED <<tenants, members, roles, founder>>

\* The deferred rollback.
RollBack(c, code) ==
    /\ Answer(c, code)
    /\ tenants' = [t \in TenantIds |->
                      IF Exists(t) /\ tenants[t].tx = c THEN Absent ELSE tenants[t]]
    /\ members' = Others(c, members)
    /\ roles' = Others(c, roles)
    /\ founder' = [t \in TenantIds |->
                      IF Exists(t) /\ tenants[t].tx = c THEN Absent ELSE founder[t]]

RefuseSlug(c) ==
    /\ At(c, "insert tenant")
    /\ \E t \in TenantIds : HasSlug(t, calls[c].arg) /\ tenants[t].tx = Absent
    /\ RollBack(c, "TENANT_SLUG_TAKEN")

\* users.FindByID is bound to the pool, not to the transaction.
ReadUser(c) ==
    /\ At(c, "read user") /\ Free
    /\ Goto(c, "insert member")
    /\ UNCHANGED <<tenants, members, roles, founder>>

NewMember(t, u, tx) == [tenant |-> t, user |-> u, status |-> "ACTIVE", tx |-> tx]

\* Mutant: the founder is made a member and nothing else.
InsertMemberOnly(c) ==
    /\ At(c, "insert member")
    /\ members' = members \cup {NewMember(calls[c].tenant, calls[c].actor, c)}
    /\ Goto(c, "commit")
    /\ UNCHANGED <<tenants, roles, founder>>

InsertMember(c) ==
    /\ At(c, "insert member")
    /\ members' = members \cup {NewMember(calls[c].tenant, calls[c].actor, c)}
    /\ Goto(c, "insert owner")
    /\ UNCHANGED <<tenants, roles, founder>>

NewRole(t, u, role, tx) == [tenant |-> t, user |-> u, role |-> role, tx |-> tx]

InsertOwner(c) ==
    /\ At(c, "insert owner")
    /\ roles' = roles \cup {NewRole(calls[c].tenant, calls[c].actor, "BUSINESS_OWNER", c)}
    /\ Goto(c, "commit")
    /\ UNCHANGED <<tenants, members, founder>>

Committed(c, rows) == { IF row.tx = c THEN [row EXCEPT !.tx = Absent] ELSE row : row \in rows }

\* The server may fail to hear of a commit that has happened.
Commit(c) ==
    /\ At(c, "commit")
    /\ \E code \in {"OK", "INTERNAL_ERROR"} : Answer(c, code)
    /\ tenants' = [tenants EXCEPT ![calls[c].tenant] = [@ EXCEPT !.tx = Absent]]
    /\ members' = Committed(c, members)
    /\ roles' = Committed(c, roles)
    /\ UNCHANGED founder

\* A statement fails, or the request's context ends while it waits.  Outside
\* a transaction that changes nothing, and is left out.
Fail(c) == c \in Held /\ RollBack(c, "INTERNAL_ERROR")

-----------------------------------------------------------------------------
(***************************************************************************)
(* Every other operation names a tenant, and passes the tenant-context     *)
(* middleware (membership) and the permission middleware (membership and   *)
(* roles, read again) before its handler.                                  *)
(***************************************************************************)
Targets(op) == IF op \in {"enrol", "revoke", "assign"} THEN Users ELSE {Absent}

ArgumentsOf(op) == CASE op = "currency" -> Currencies
                     [] op = "assign" -> RoleNames
                     [] OTHER -> {Absent}

Barred(t, u) ==
    \E m \in members : /\ m.tenant = t /\ m.user = u /\ m.status = "DISABLED"
                       /\ m.tx = Absent

CallGuarded(c) ==
    /\ At(c, "idle")
    /\ \E op \in Guarded, u \in Users, t \in TenantIds :
         /\ Exists(t) /\ tenants[t].tx = Absent
         /\ calls' = [calls EXCEPT ![c] =
                [Idle EXCEPT !.pc = "context", !.op = op, !.actor = u, !.tenant = t,
                             !.barred = Barred(t, u), !.settled = tenants[t].currency]]
    /\ UNCHANGED <<tenants, members, roles, founder>>

\* One autocommitted statement of a running call.
Statement(c, pc) == At(c, pc) /\ Free

ReadMembership(c, pc, next) ==
    /\ Statement(c, pc)
    /\ IF ActiveMember(c, calls[c].tenant, calls[c].actor)
       THEN Goto(c, next)
       ELSE Answer(c, "TENANT_ACCESS_DENIED")
    /\ UNCHANGED <<tenants, members, roles, founder>>

ReadRoles(c, pc, go) ==
    /\ Statement(c, pc)
    /\ IF Permitted(c, calls[c].actor, calls[c].tenant, Needs[calls[c].op])
       THEN go
       ELSE Answer(c, "PERMISSION_DENIED")
    /\ UNCHANGED <<tenants, members, roles, founder>>

Resolve(c) == ReadMembership(c, "context", "member")

\* The handler reads the rest of its path and its body.
Handle(c) ==
    \E target \in Targets(calls[c].op), arg \in ArgumentsOf(calls[c].op) :
        calls' = [calls EXCEPT ![c].pc = Begins[calls[c].op],
                               ![c].target = target, ![c].arg = arg]

RequireTenantPermission(c) ==
    \/ ReadMembership(c, "member", "roles")
    \/ At(c, "roles") /\ ReadRoles(c, "roles", Handle(c))

\* GetAccessible looks for the tenant among those of the caller's memberships.
Show(c) ==
    /\ Statement(c, "show")
    /\ Answer(c, IF ActiveMember(c, calls[c].tenant, calls[c].actor)
                 THEN "OK" ELSE "TENANT_ACCESS_DENIED")
    /\ UNCHANGED <<tenants, members, roles, founder>>

Row(c) == tenants[calls[c].tenant]

UpdateRow(c, row) ==
    /\ tenants' = [tenants EXCEPT ![calls[c].tenant] = row]
    /\ UNCHANGED <<members, roles, founder>>

UpdateProfile(c) ==
    /\ Statement(c, "profile")
    /\ \E timezone \in {Row(c).timezone, TRUE} :
         UpdateRow(c, [Row(c) EXCEPT !.timezone = timezone])
    /\ Answer(c, "OK")

SaveProgress(c) ==
    /\ Statement(c, "progress")
    /\ UpdateRow(c, [Row(c) EXCEPT !.step = TRUE])
    /\ Answer(c, "OK")

\* Mutant: the timezone is not asked for.
JudgeCompletionByStep(c) ==
    /\ Statement(c, "judge")
    /\ \/ Row(c).completed /\ Answer(c, "OK")
       \/ ~Row(c).completed /\ Row(c).step /\ Goto(c, "complete")
       \/ ~Row(c).completed /\ ~Row(c).step /\ Answer(c, "VALIDATION_FAILED")
    /\ UNCHANGED <<tenants, members, roles, founder>>

JudgeCompletion(c) ==
    /\ Statement(c, "judge")
    /\ \/ Row(c).completed /\ Answer(c, "OK")
       \/ ~Row(c).completed /\ Complete(Row(c)) /\ Goto(c, "complete")
       \/ ~Row(c).completed /\ ~Complete(Row(c)) /\ Answer(c, "VALIDATION_FAILED")
    /\ UNCHANGED <<tenants, members, roles, founder>>

CompleteOnboarding(c) ==
    /\ Statement(c, "complete")
    /\ UpdateRow(c, [Row(c) EXCEPT !.completed = TRUE])
    /\ Answer(c, "OK")

\* Mutant: another currency is not refused.
CompareCurrencyOnlyEqual(c) ==
    /\ Statement(c, "compare")
    /\ \/ Row(c).currency = calls[c].arg /\ Answer(c, "OK")
       \/ Row(c).currency # calls[c].arg /\ Goto(c, "currency")
    /\ UNCHANGED <<tenants, members, roles, founder>>

CompareCurrency(c) ==
    /\ Statement(c, "compare")
    /\ \/ Row(c).currency = Absent /\ Goto(c, "currency")
       \/ Row(c).currency = calls[c].arg /\ Answer(c, "OK")
       \/ Row(c).currency \notin {Absent, calls[c].arg} /\ Answer(c, "VALIDATION_FAILED")
    /\ UNCHANGED <<tenants, members, roles, founder>>

\* The UPDATE has no condition on what is there.
SetCurrency(c) ==
    /\ Statement(c, "currency")
    /\ UpdateRow(c, [Row(c) EXCEPT !.currency = calls[c].arg])
    /\ Answer(c, "OK")

IsMember(t, u) == \E m \in members : m.tenant = t /\ m.user = u

\* UNIQUE (tenant_id, user_id), whatever the status of the row that is there.
Enrol(c) ==
    /\ Statement(c, "enrol")
    /\ IF IsMember(calls[c].tenant, calls[c].target)
       THEN Answer(c, "TENANT_MEMBERSHIP_ALREADY_EXISTS") /\ UNCHANGED members
       ELSE /\ Answer(c, "OK")
            /\ members' = members \cup {NewMember(calls[c].tenant, calls[c].target, Absent)}
    /\ UNCHANGED <<tenants, roles, founder>>

\* Succeeds, too, where there is nobody to revoke; the roles stay.
Revoke(c) ==
    /\ Statement(c, "disable")
    /\ members' = { IF m.tenant = calls[c].tenant /\ m.user = calls[c].target
                    THEN [m EXCEPT !.status = "DISABLED"] ELSE m : m \in members }
    /\ Answer(c, "OK")
    /\ UNCHANGED <<tenants, roles, founder>>

\* Mutant: any role of tenant scope may be handed out.
AnyTenantRole(role) == role \in RoleNames

Assignable(role) == role = "STAFF"

\* TenantRoleAssignmentService asks for role.assign once more, then looks at the role.
RequireAssign(c) ==
    \/ ReadMembership(c, "member again", "roles again")
    \/ At(c, "roles again") /\ ReadRoles(c, "roles again", Goto(c, "target"))

ReadTarget(c) ==
    /\ Statement(c, "target")
    /\ \/ ~Assignable(calls[c].arg) /\ Answer(c, "PERMISSION_DENIED")
       \/ /\ Assignable(calls[c].arg)
          /\ IF ActiveMember(c, calls[c].tenant, calls[c].target)
             THEN Goto(c, "assign")
             ELSE Answer(c, "TENANT_ACCESS_DENIED")
    /\ UNCHANGED <<tenants, members, roles, founder>>

HoldsRole(t, u, role) == \E r \in roles : r.tenant = t /\ r.user = u /\ r.role = role

Assign(c) ==
    /\ Statement(c, "assign")
    /\ IF HoldsRole(calls[c].tenant, calls[c].target, calls[c].arg)
       THEN Answer(c, "ROLE_ASSIGNMENT_ALREADY_EXISTS") /\ UNCHANGED roles
       ELSE /\ Answer(c, "OK")
            /\ roles' = roles \cup
                 {NewRole(calls[c].tenant, calls[c].target, calls[c].arg, Absent)}
    /\ UNCHANGED <<tenants, members, founder>>

-----------------------------------------------------------------------------
Found(c) ==
    \/ Begin(c) \/ InsertTenant(c) \/ RefuseSlug(c) \/ ReadUser(c)
    \/ InsertMember(c) \/ InsertOwner(c) \/ Commit(c)

Operate(c) ==
    \/ Resolve(c) \/ RequireTenantPermission(c) \/ Show(c)
    \/ UpdateProfile(c) \/ SaveProgress(c) \/ JudgeCompletion(c) \/ CompleteOnboarding(c)
    \/ CompareCurrency(c) \/ SetCurrency(c) \/ Enrol(c) \/ Revoke(c)
    \/ RequireAssign(c) \/ ReadTarget(c) \/ Assign(c)

Step(c) == Found(c) \/ Operate(c)

Next == \E c \in Calls : CallCreate(c) \/ CallGuarded(c) \/ Step(c) \/ Fail(c)

Spec == Init /\ [][Next]_vars

-----------------------------------------------------------------------------
TypeOK ==
    /\ tenants \in [TenantIds -> Tenant \cup {Absent}]
    /\ members \subseteq Member
    /\ roles \subseteq Role
    /\ calls \in [Calls -> Call]
    /\ founder \in [TenantIds -> Users \cup {Absent}]

Known(t) == Exists(t) /\ tenants[t].tx = Absent

\* "Any failure after BeginTx rolls back everything; only a successful Commit
\* leaves any of it in place": a tenant anyone can see has its founder as
\* member and owner, and no membership or role is of a tenant that is not there.
FoundedWhole ==
    /\ \A t \in TenantIds : Known(t) =>
         /\ \E m \in members : m.tenant = t /\ m.user = founder[t] /\ m.tx = Absent
         /\ NewRole(t, founder[t], "BUSINESS_OWNER", Absent) \in roles
    /\ \A row \in members \cup roles : row.tx = Absent => Known(row.tenant)

\* TENANT_SLUG_TAKEN is only answered for a slug a founded tenant has: never
\* because of a creation that was, or will be, rolled back.
SlugTakenForCause ==
    \A c \in Calls : calls[c].code = "TENANT_SLUG_TAKEN" =>
        \E t \in TenantIds : Known(t) /\ tenants[t].slug = calls[c].arg

\* A role is only ever held by someone who is, or was, a member of its tenant.
RolesOnlyForMembers ==
    \A r \in roles : \E m \in members : m.tenant = r.tenant /\ m.user = r.user

\* A call that began after its caller's membership was revoked does nothing,
\* whatever roles the caller still holds.
RevokedIsRefused ==
    \A c \in Calls : calls[c].barred =>
        /\ calls[c].pc \in {"context", "done"}
        /\ calls[c].code \in {"none", "TENANT_ACCESS_DENIED", "INTERNAL_ERROR"}

\* One membership per user and tenant, whatever its status.
OneMembership ==
    \A m, n \in members : m.tenant = n.tenant /\ m.user = n.user => m = n

Waiting == Founding \ {"insert tenant"}

\* Uncommitted rows are those their creation has written so far, no others.
OpenTransactions ==
    /\ \A t \in TenantIds : Exists(t) =>
         /\ founder[t] \in Users
         /\ tenants[t].tx # Absent => /\ calls[tenants[t].tx].pc \in Waiting
                                     /\ calls[tenants[t].tx].tenant = t
    /\ \A m \in members : m.tx # Absent => /\ calls[m.tx].pc \in {"insert owner", "commit"}
                                           /\ calls[m.tx].tenant = m.tenant
    /\ \A r \in roles : r.tx # Absent => /\ calls[r.tx].pc = "commit"
                                         /\ calls[r.tx].tenant = r.tenant
    /\ \A c \in Calls : calls[c].pc \in Waiting =>
         LET t == calls[c].tenant
             u == calls[c].actor IN
         /\ t \in TenantIds /\ Exists(t) /\ tenants[t].tx = c /\ founder[t] = u
         /\ calls[c].pc \in {"insert owner", "commit"} => NewMember(t, u, c) \in members
         /\ calls[c].pc = "commit" => NewRole(t, u, "BUSINESS_OWNER", c) \in roles

\* Nobody becomes an owner but by founding.
OwnersAreFounders ==
    \A r \in roles : r.role = "BUSINESS_OWNER" => r.user = founder[r.tenant]

Writing == {"profile", "progress", "judge", "complete", "compare", "currency", "enrol",
            "disable", "member again", "roles again", "target", "assign"}

\* Creating is all that a call of POST /tenants does.
Creating == {"begin"} \cup Founding

\* What a running call has read still holds where it matters.
LocalsOK(c) ==
    LET t == calls[c].tenant IN
    /\ calls[c].code # "none" => calls[c].pc = "done"
    /\ calls[c].pc \in Creating =>
         calls[c].op = "create" /\ calls[c].actor \in Users /\ calls[c].arg \in Slugs
    /\ Running(c) /\ calls[c].pc \notin Creating =>
         /\ calls[c].op \in Guarded /\ calls[c].actor \in Users
         /\ t \in TenantIds /\ Known(t)
         /\ calls[c].settled # Absent => tenants[t].currency # Absent
         /\ calls[c].barred => Barred(t, calls[c].actor)
    /\ calls[c].pc \in Writing => calls[c].actor = founder[t]
    /\ calls[c].pc = "complete" => Complete(Row(c))
    /\ calls[c].pc \in {"compare", "currency"} => calls[c].arg \in Currencies
    /\ calls[c].pc = "currency" => calls[c].settled = Absent
    /\ calls[c].pc \in {"enrol", "disable", "member again", "roles again", "target", "assign"} =>
         calls[c].target \in Users
    /\ calls[c].pc \in {"member again", "roles again", "target", "assign"} =>
         calls[c].op = "assign" /\ calls[c].arg \in RoleNames
    /\ calls[c].pc = "assign" => calls[c].arg = "STAFF" /\ IsMember(t, calls[c].target)

\* A tenant is public only with an onboarding step saved and a timezone set,
\* although completion is judged on a row read before.
PublicIsReady ==
    \A t \in TenantIds : Exists(t) /\ tenants[t].completed => Complete(tenants[t])

\* The inductive invariant.
IInv ==
    /\ TypeOK
    /\ OneMembership
    /\ OpenTransactions
    /\ FoundedWhole
    /\ SlugTakenForCause
    /\ RolesOnlyForMembers
    /\ OwnersAreFounders
    /\ RevokedIsRefused
    /\ PublicIsReady
    /\ \A c \in Calls : LocalsOK(c)

\* What a running call may have to wait for: a connection, or the end of the
\* transaction that has written its slug.
NeedsConnection(c) == calls[c].pc \notin Founding \/ At(c, "read user")

SlugHasClaimant(c) ==
    /\ At(c, "insert tenant")
    /\ \E t \in TenantIds : HasSlug(t, calls[c].arg)
    /\ \A t \in TenantIds : HasSlug(t, calls[c].arg) => tenants[t].tx # Absent

Blocked(c) == (NeedsConnection(c) /\ ~Free) \/ SlugHasClaimant(c)

\* Some call is running and none can go on.
Stalled == /\ \E c \in Calls : Running(c)
           /\ \A c \in Calls : Running(c) => Blocked(c)

\* Calls can come to wait on each other, with none to go on until a client
\* gives up, in one way only: creations hold every connection, and one of them
\* needs another to read its user.
OnlyThePoolStalls == Stalled => ~Free /\ \E c \in Calls : At(c, "read user")

StallNeedsFullPool ==
    /\ \A c \in Calls : Running(c) => (ENABLED Step(c) <=> ~Blocked(c))
    /\ OnlyThePoolStalls

\* A currency that was there when a call began is not changed by that call.
SettledCurrencyStays ==
    [][\A t \in TenantIds :
         Known(t) /\ tenants'[t].currency # tenants[t].currency
         /\ tenants[t].currency # Absent =>
            \E c \in Calls : /\ At(c, "currency") /\ calls[c].tenant = t
                             /\ calls[c].settled = Absent
                             /\ calls'[c].pc = "done"]_vars

Of(t, rows) == { row \in rows : row.tenant = t }

\* Only its founder ever changes a tenant, its members or its roles: no owner
\* is made later, and a role of one tenant opens no other.
OnlyTheFounderWrites ==
    [][\A t \in TenantIds :
         /\ Known(t)
         /\ \/ tenants'[t] # tenants[t]
            \/ Of(t, members') # Of(t, members)
            \/ Of(t, roles') # Of(t, roles)
         => \E c \in Calls : /\ Running(c) /\ calls'[c].pc = "done"
                             /\ calls[c].tenant = t /\ calls[c].actor = founder[t]]_vars

=============================================================================
