---------------------------- MODULE TenancyProofs ----------------------------
(***************************************************************************)
(* Who may write what in which tenant, for any number of tenants, users    *)
(* and concurrent requests, with transactions that are rolled back at any  *)
(* point: that a tenant is founded whole or not at all, that a revoked     *)
(* member is refused, that a public tenant is ready, and that nobody but   *)
(* its founder changes it.                                                 *)
(***************************************************************************)
EXTENDS Tenancy, FiniteSetTheorems, TLAPS

-----------------------------------------------------------------------------
(***************************************************************************)
(* What the invariant says of one row and of one call.                     *)
(***************************************************************************)
LEMMA Waits == Waiting = {"read user", "insert member", "insert owner", "commit"}
BY DEF Waiting, Founding

\* What an open transaction has written.
LEMMA OwnRows ==
    ASSUME IInv, NEW c \in Calls, calls[c].pc \in Waiting
    PROVE  LET t == calls[c].tenant
               u == calls[c].actor IN
           /\ t \in TenantIds /\ tenants[t] # Absent /\ tenants[t].tx = c /\ founder[t] = u
           /\ calls[c].pc \in {"insert owner", "commit"} => NewMember(t, u, c) \in members
           /\ calls[c].pc = "commit" => NewRole(t, u, "BUSINESS_OWNER", c) \in roles
BY DEF IInv, OpenTransactions, Exists

\* A row of a tenant is committed when, and only when, its tenant is, and
\* until then both belong to the same transaction.
LEMMA RowsFollowTheirTenant ==
    ASSUME IInv, NEW row \in members \cup roles
    PROVE  /\ row.tenant \in TenantIds /\ row.user \in Users
           /\ tenants[row.tenant] # Absent /\ tenants[row.tenant] \in Tenant
           /\ row.tx = tenants[row.tenant].tx
<1>1. row.tenant \in TenantIds /\ row.user \in Users /\ row.tx \in Calls \cup {Absent}
  BY DEF IInv, TypeOK, Member, Role
<1>2. CASE row.tx = Absent
  BY <1>1, <1>2 DEF IInv, TypeOK, FoundedWhole, Known, Exists
<1>3. CASE row.tx # Absent
  <2>1. calls[row.tx].pc \in Waiting /\ calls[row.tx].tenant = row.tenant
    <3>1. OpenTransactions
      BY DEF IInv
    <3>2. CASE row \in members
      BY <1>3, <3>1, <3>2, Waits DEF OpenTransactions
    <3>3. CASE row \in roles
      BY <1>3, <3>1, <3>3, Waits DEF OpenTransactions
    <3> QED
      BY <3>2, <3>3
  <2>2. row.tx \in Calls
    BY <1>1, <1>3
  <2>3. tenants[row.tenant] # Absent /\ tenants[row.tenant].tx = row.tx
    BY <2>1, <2>2, OwnRows
  <2> QED
    BY <1>1, <2>3 DEF IInv, TypeOK
<1> QED
  BY <1>2, <1>3

LEMMA TheirTransaction ==
    ASSUME IInv, NEW t \in TenantIds, tenants[t] # Absent
    PROVE  /\ tenants[t] \in Tenant /\ founder[t] \in Users
           /\ tenants[t].tx \in Calls \cup {Absent}
           /\ tenants[t].tx # Absent => /\ calls[tenants[t].tx].pc \in Waiting
                                        /\ calls[tenants[t].tx].tenant = t
<1>1. tenants[t] \in Tenant
  BY DEF IInv, TypeOK
<1>2. tenants[t].tx \in Calls \cup {Absent}
  BY <1>1 DEF Tenant
<1>3. /\ founder[t] \in Users
      /\ tenants[t].tx # Absent => /\ calls[tenants[t].tx].pc \in Waiting
                                   /\ calls[tenants[t].tx].tenant = t
  BY DEF IInv, OpenTransactions, Exists
<1> QED
  BY <1>1, <1>2, <1>3

\* What a statement of another transaction, or of none, leaves as it is.
Stays ==
    /\ \A t \in TenantIds : Known(t) =>
          /\ tenants'[t] # Absent /\ tenants'[t].tx = Absent
          /\ tenants'[t].slug = tenants[t].slug
          /\ founder'[t] = founder[t]
          /\ tenants[t].currency # Absent => tenants'[t].currency # Absent
          /\ tenants[t].step => tenants'[t].step
          /\ tenants[t].timezone => tenants'[t].timezone
    /\ \A m \in members : m.tx = Absent =>
          \E n \in members' : /\ n.tenant = m.tenant /\ n.user = m.user /\ n.tx = Absent
                              /\ m.status = "DISABLED" => n.status = "DISABLED"

LEMMA LocalsPersist ==
    ASSUME IInv, Stays, NEW c \in Calls, calls'[c] = calls[c]
    PROVE  LocalsOK(c)'
<1> DEFINE t == calls[c].tenant
<1>1. LocalsOK(c)
  BY DEF IInv
<1>2. calls[c].pc \in Writing => Running(c) /\ calls[c].pc \notin Creating
  BY DEF Writing, Running, Creating, Founding
<1>3. Running(c) /\ calls[c].pc \notin Creating =>
        /\ calls[c].op \in Guarded /\ calls[c].actor \in Users
        /\ t \in TenantIds /\ Known(t)
        /\ calls[c].settled # Absent => tenants[t].currency # Absent
        /\ calls[c].barred => Barred(t, calls[c].actor)
  BY <1>1 DEF LocalsOK
<1>4. Running(c) /\ calls[c].pc \notin Creating =>
        /\ tenants'[t] # Absent /\ tenants'[t].tx = Absent
        /\ founder'[t] = founder[t]
        /\ calls[c].settled # Absent => tenants'[t].currency # Absent
        /\ tenants[t].step => tenants'[t].step
        /\ tenants[t].timezone => tenants'[t].timezone
  BY <1>3 DEF Stays
<1>5. Running(c) /\ calls[c].pc \notin Creating /\ calls[c].barred =>
        \E n \in members' : /\ n.tenant = t /\ n.user = calls[c].actor /\ n.tx = Absent
                            /\ n.status = "DISABLED"
  BY <1>3 DEF Stays, Barred
<1>6. calls[c].pc = "assign" =>
        \E n \in members' : n.tenant = t /\ n.user = calls[c].target
  <2> SUFFICES ASSUME calls[c].pc = "assign"
               PROVE  \E n \in members' : n.tenant = t /\ n.user = calls[c].target
    OBVIOUS
  <2>1. PICK m \in members : m.tenant = t /\ m.user = calls[c].target
    BY <1>1 DEF LocalsOK, IsMember
  <2>2. Known(t) /\ t \in TenantIds
    BY <1>2, <1>3 DEF Writing
  <2>3. m.tx = Absent
    BY <2>1, <2>2, RowsFollowTheirTenant DEF Known
  <2> QED
    BY <2>1, <2>3 DEF Stays
<1>7. (Running(c) /\ calls[c].pc \notin Creating =>
        /\ calls[c].op \in Guarded /\ calls[c].actor \in Users
        /\ calls[c].tenant \in TenantIds /\ Known(calls[c].tenant)
        /\ calls[c].settled # Absent => tenants[calls[c].tenant].currency # Absent
        /\ calls[c].barred => Barred(calls[c].tenant, calls[c].actor))'
  BY <1>3, <1>4, <1>5 DEF Running, Known, Exists, Barred
<1>8. /\ calls[c].pc \in Writing => calls[c].actor = founder'[t]
      /\ calls[c].pc = "complete" => tenants'[t].step /\ tenants'[t].timezone
  <2>1. /\ calls[c].pc \in Writing => calls[c].actor = founder[t]
        /\ calls[c].pc = "complete" => tenants[t].step /\ tenants[t].timezone
    BY <1>1 DEF LocalsOK, Complete, Row
  <2>2. calls[c].pc = "complete" => calls[c].pc \in Writing
    BY DEF Writing
  <2> QED
    BY <1>2, <1>4, <2>1, <2>2
<1>9. /\ calls[c].code # "none" => calls[c].pc = "done"
      /\ calls[c].pc \in Creating =>
           calls[c].op = "create" /\ calls[c].actor \in Users /\ calls[c].arg \in Slugs
      /\ calls[c].pc \in {"compare", "currency"} => calls[c].arg \in Currencies
      /\ calls[c].pc = "currency" => calls[c].settled = Absent
      /\ calls[c].pc \in {"enrol", "disable", "member again", "roles again", "target", "assign"} =>
           calls[c].target \in Users
      /\ calls[c].pc \in {"member again", "roles again", "target", "assign"} =>
           calls[c].op = "assign" /\ calls[c].arg \in RoleNames
      /\ calls[c].pc = "assign" => calls[c].arg = "STAFF"
  BY <1>1 DEF LocalsOK
<1> QED
  BY <1>6, <1>7, <1>8, <1>9 DEF LocalsOK, Complete, Row, IsMember

\* A call that is over has no locals to be wrong about.
LEMMA EndedIsOK ==
    ASSUME NEW c \in Calls, calls'[c].pc = "done"
    PROVE  LocalsOK(c)'
BY DEF LocalsOK, Running, Creating, Founding, Writing

LEMMA TypeOfCalls ==
    ASSUME IInv, NEW c \in Calls
    PROVE  /\ \A next \in PCs : Goto(c, next) =>
                /\ calls' \in [Calls -> Call]
                /\ calls'[c] = [calls[c] EXCEPT !.pc = next]
                /\ \A d \in Calls \ {c} : calls'[d] = calls[d]
           /\ \A code \in Codes : Answer(c, code) =>
                /\ calls' \in [Calls -> Call]
                /\ calls'[c].pc = "done" /\ calls'[c].code = code
                /\ calls'[c].arg = IF code = "TENANT_SLUG_TAKEN" THEN calls[c].arg ELSE Absent
                /\ calls'[c].barred = calls[c].barred
                /\ \A d \in Calls \ {c} : calls'[d] = calls[d]
<1>1. calls \in [Calls -> Call] /\ calls[c] \in Call
  BY DEF IInv, TypeOK
<1>2. ASSUME NEW next \in PCs, Goto(c, next)
      PROVE  /\ calls' \in [Calls -> Call]
             /\ calls'[c] = [calls[c] EXCEPT !.pc = next]
             /\ \A d \in Calls \ {c} : calls'[d] = calls[d]
  <2>1. [calls[c] EXCEPT !.pc = next] \in Call
    BY <1>1 DEF Call
  <2>2. calls' = [calls EXCEPT ![c] = [calls[c] EXCEPT !.pc = next]]
    BY <1>1, <1>2 DEF Goto
  <2> QED
    BY <1>1, <2>1, <2>2
<1>3. ASSUME NEW code \in Codes, Answer(c, code)
      PROVE  /\ calls' \in [Calls -> Call]
             /\ calls'[c].pc = "done" /\ calls'[c].code = code
             /\ calls'[c].arg = IF code = "TENANT_SLUG_TAKEN" THEN calls[c].arg ELSE Absent
             /\ calls'[c].barred = calls[c].barred
             /\ \A d \in Calls \ {c} : calls'[d] = calls[d]
  <2> DEFINE arg == IF code = "TENANT_SLUG_TAKEN" THEN calls[c].arg ELSE Absent
             a == [Idle EXCEPT !.pc = "done", !.code = code, !.arg = arg, !.barred = calls[c].barred]
  <2>1. arg \in Arguments /\ calls[c].barred \in BOOLEAN
    BY <1>1 DEF Call, Arguments
  <2>2. a \in Call /\ a.pc = "done" /\ a.code = code /\ a.arg = arg /\ a.barred = calls[c].barred
    BY <2>1 DEF Idle, Call, PCs
  <2>3. calls' = [calls EXCEPT ![c] = a]
    BY <1>3 DEF Answer
  <2> HIDE DEF a
  <2> QED
    BY <1>1, <2>2, <2>3
<1> QED
  BY <1>2, <1>3

THEOREM TenancyInit == Init => IInv
<1> SUFFICES ASSUME Init PROVE IInv
  OBVIOUS
<1>1. PICK row \in Started : /\ row.completed => Complete(row)
                             /\ tenants = [t \in TenantIds |-> IF t = Home THEN row ELSE Absent]
  BY DEF Init
<1>2. PICK others \in SUBSET (Users \ {Owner}) :
        members = { [tenant |-> Home, user |-> u, status |-> "ACTIVE", tx |-> Absent] :
                    u \in others \cup {Owner} }
  BY DEF Init
<1>3. roles = {[tenant |-> Home, user |-> Owner, role |-> "BUSINESS_OWNER", tx |-> Absent]}
      /\ calls = [c \in Calls |-> Idle]
      /\ founder = [t \in TenantIds |-> IF t = Home THEN Owner ELSE Absent]
  BY DEF Init
<1>4. row \in Tenant /\ row.tx = Absent /\ row # Absent
  BY HomeIsKnown, AbsentIsNoRow DEF Started, Tenant
<1>5. \A m \in members : /\ m \in Member /\ m.tenant = Home /\ m.tx = Absent
                         /\ m = [tenant |-> Home, user |-> m.user, status |-> "ACTIVE", tx |-> Absent]
  BY <1>2, HomeIsKnown DEF Member
<1>6. [tenant |-> Home, user |-> Owner, status |-> "ACTIVE", tx |-> Absent] \in members
  BY <1>2
<1>7. \A c \in Calls : /\ calls[c].pc = "idle" /\ calls[c].code = "none" /\ calls[c].barred = FALSE
  BY <1>3 DEF Idle
<1>8. Home \in TenantIds /\ Owner \in Users /\ tenants[Home] = row /\ founder[Home] = Owner
      /\ \A t \in TenantIds \ {Home} : tenants[t] = Absent
  BY <1>1, <1>3, HomeIsKnown
<1>9. TypeOK
  <2>1. Idle \in Call
    BY DEF Idle, Call, PCs, Arguments
  <2>2. roles \subseteq Role
    BY <1>3, HomeIsKnown DEF Role, RoleNames
  <2>3. founder \in [TenantIds -> Users \cup {Absent}]
    BY <1>3, HomeIsKnown
  <2>4. tenants \in [TenantIds -> Tenant \cup {Absent}]
    BY <1>1, <1>4
  <2> QED
    BY <1>3, <1>5, <2>1, <2>2, <2>3, <2>4 DEF TypeOK
<1>10. OneMembership
  BY <1>5 DEF OneMembership
<1>11. OpenTransactions
  <2>1. \A t \in TenantIds : tenants[t] # Absent => t = Home
    BY <1>8
  <2>2. \A c \in Calls : calls[c].pc \notin Waiting
    BY <1>7, Waits
  <2>3. \A r \in roles : r.tx = Absent
    BY <1>3
  <2> QED
    BY <1>4, <1>5, <1>8, <2>1, <2>2, <2>3 DEF OpenTransactions, Exists
<1>12. FoundedWhole
  <2>1. \A t \in TenantIds : Known(t) => t = Home
    BY <1>8 DEF Known, Exists
  <2>2. Known(Home)
    BY <1>4, <1>8 DEF Known, Exists
  <2>3. \A r \in members \cup roles : r.tenant = Home
    BY <1>3, <1>5
  <2>4. \E m \in members : m.tenant = Home /\ m.user = founder[Home] /\ m.tx = Absent
    BY <1>6, <1>8
  <2>5. NewRole(Home, founder[Home], "BUSINESS_OWNER", Absent) \in roles
    BY <1>3, <1>8 DEF NewRole
  <2> QED
    BY <2>1, <2>2, <2>3, <2>4, <2>5 DEF FoundedWhole
<1>13. SlugTakenForCause /\ RevokedIsRefused
  BY <1>7 DEF SlugTakenForCause, RevokedIsRefused
<1>14. RolesOnlyForMembers
  BY <1>3, <1>6 DEF RolesOnlyForMembers
<1>15. OwnersAreFounders
  BY <1>3, <1>8 DEF OwnersAreFounders
<1>16. PublicIsReady
  BY <1>1, <1>8 DEF PublicIsReady, Exists
<1>17. \A c \in Calls : LocalsOK(c)
  BY <1>7 DEF LocalsOK, Running, Creating, Founding, Writing
<1> QED
  BY <1>9, <1>10, <1>11, <1>12, <1>13, <1>14, <1>15, <1>16, <1>17 DEF IInv

-----------------------------------------------------------------------------
(***************************************************************************)
(* A statement outside a transaction.                                      *)
(***************************************************************************)
\* It finds every row's tenant, user and transaction as they were, and adds
\* only committed rows, of a tenant that is committed.
LEMMA StatementStep ==
    ASSUME IInv, Stays, NEW c \in Calls,
           calls' \in [Calls -> Call], \A d \in Calls \ {c} : calls'[d] = calls[d],
           calls[c].pc \notin Waiting, calls'[c].pc \notin Waiting, LocalsOK(c)',
           calls'[c].code # "TENANT_SLUG_TAKEN",
           calls'[c].barred => /\ calls'[c].pc \in {"context", "done"}
                               /\ calls'[c].code \in {"none", "TENANT_ACCESS_DENIED", "INTERNAL_ERROR"},
           tenants' \in [TenantIds -> Tenant \cup {Absent}], founder' = founder,
           \A t \in TenantIds : /\ tenants'[t] = Absent <=> tenants[t] = Absent
                                /\ tenants'[t].tx = tenants[t].tx
                                /\ tenants[t] # Absent /\ tenants'[t].completed => Complete(tenants'[t]),
           members' \subseteq Member, OneMembership',
           \A m \in members : /\ \E n \in members' : n.tenant = m.tenant /\ n.user = m.user /\ n.tx = m.tx
                              /\ m.tx # Absent => m \in members',
           \A n \in members' : /\ n.tx # Absent => n \in members
                               /\ n.tx = Absent => Known(n.tenant) /\ n.tenant \in TenantIds,
           roles' \subseteq Role, roles \subseteq roles',
           \A r \in roles' \ roles : /\ r.tx = Absent /\ Known(r.tenant) /\ r.tenant \in TenantIds
                                     /\ IsMember(r.tenant, r.user)
                                     /\ r.role # "BUSINESS_OWNER"
    PROVE  IInv'
<1>1. TypeOK'
  BY DEF IInv, TypeOK
<1>2. \A t \in TenantIds : Known(t)' <=> Known(t)
  BY DEF Known, Exists
<1>3. OpenTransactions'
  <2>1. \A t \in TenantIds : tenants'[t] # Absent =>
          /\ founder'[t] \in Users
          /\ tenants'[t].tx # Absent => /\ calls'[tenants'[t].tx].pc \in Waiting
                                        /\ calls'[tenants'[t].tx].tenant = t
    BY TheirTransaction
  <2>2. \A m \in members' : m.tx # Absent => /\ calls'[m.tx].pc \in {"insert owner", "commit"}
                                             /\ calls'[m.tx].tenant = m.tenant
    <3> SUFFICES ASSUME NEW m \in members', m.tx # Absent
                 PROVE  /\ calls'[m.tx].pc \in {"insert owner", "commit"}
                        /\ calls'[m.tx].tenant = m.tenant
      OBVIOUS
    <3>1. m \in members /\ m.tx \in Calls
      BY DEF Member
    <3>2. calls[m.tx].pc \in {"insert owner", "commit"} /\ calls[m.tx].tenant = m.tenant
      BY <3>1 DEF IInv, OpenTransactions
    <3> QED
      BY <3>1, <3>2, Waits
  <2>3. \A r \in roles' : r.tx # Absent => /\ calls'[r.tx].pc = "commit"
                                           /\ calls'[r.tx].tenant = r.tenant
    <3> SUFFICES ASSUME NEW r \in roles', r.tx # Absent
                 PROVE  calls'[r.tx].pc = "commit" /\ calls'[r.tx].tenant = r.tenant
      OBVIOUS
    <3>1. r \in roles /\ r.tx \in Calls
      BY DEF Role
    <3>2. calls[r.tx].pc = "commit" /\ calls[r.tx].tenant = r.tenant
      BY <3>1 DEF IInv, OpenTransactions
    <3> QED
      BY <3>1, <3>2, Waits
  <2>4. ASSUME NEW d \in Calls, calls'[d].pc \in Waiting
        PROVE  /\ calls'[d].tenant \in TenantIds /\ tenants'[calls'[d].tenant] # Absent
               /\ tenants'[calls'[d].tenant].tx = d /\ founder'[calls'[d].tenant] = calls'[d].actor
               /\ calls'[d].pc \in {"insert owner", "commit"} =>
                     NewMember(calls'[d].tenant, calls'[d].actor, d) \in members'
               /\ calls'[d].pc = "commit" =>
                     NewRole(calls'[d].tenant, calls'[d].actor, "BUSINESS_OWNER", d) \in roles'
    <3> DEFINE t == calls[d].tenant
               u == calls[d].actor
    <3>1. d # c /\ calls'[d] = calls[d] /\ calls[d].pc \in Waiting /\ d # Absent
      BY <2>4, AbsentIsNothing
    <3>2. NewMember(t, u, d).tx = d
      BY DEF NewMember
    <3>3. /\ t \in TenantIds /\ tenants[t] # Absent /\ tenants[t].tx = d /\ founder[t] = u
          /\ calls[d].pc \in {"insert owner", "commit"} => NewMember(t, u, d) \in members
          /\ calls[d].pc = "commit" => NewRole(t, u, "BUSINESS_OWNER", d) \in roles
      BY <3>1, OwnRows
    <3>4. tenants'[t] # Absent /\ tenants'[t].tx = d /\ founder'[t] = u
      BY <3>3
    <3>5. NewMember(t, u, d) \in members => NewMember(t, u, d) \in members'
      BY <3>1, <3>2
    <3> QED
      BY <3>1, <3>3, <3>4, <3>5
  <2> QED
    BY <2>1, <2>2, <2>3, <2>4 DEF OpenTransactions, Exists
<1>4. FoundedWhole'
  <2>1. \A t \in TenantIds : Known(t) =>
         /\ \E m \in members : m.tenant = t /\ m.user = founder[t] /\ m.tx = Absent
         /\ NewRole(t, founder[t], "BUSINESS_OWNER", Absent) \in roles
    BY DEF IInv, FoundedWhole
  <2>2. \A t \in TenantIds : Known(t)' =>
         /\ \E m \in members' : m.tenant = t /\ m.user = founder'[t] /\ m.tx = Absent
         /\ NewRole(t, founder'[t], "BUSINESS_OWNER", Absent) \in roles'
    BY <1>2, <2>1
  <2>3. \A n \in members' : n.tx = Absent => Known(n.tenant)'
    BY <1>2
  <2>4. \A r \in roles' : r.tx = Absent => Known(r.tenant)'
    <3>1. \A r \in roles : r.tx = Absent => Known(r.tenant) /\ r.tenant \in TenantIds
      BY RowsFollowTheirTenant DEF IInv, FoundedWhole
    <3> QED
      BY <1>2, <3>1
  <2> QED
    BY <2>2, <2>3, <2>4 DEF FoundedWhole
<1>5. SlugTakenForCause'
  <2>1. \A d \in Calls : calls[d].code = "TENANT_SLUG_TAKEN" =>
          \E t \in TenantIds : Known(t) /\ tenants[t].slug = calls[d].arg
    BY DEF IInv, SlugTakenForCause
  <2>2. \A t \in TenantIds : Known(t) => Known(t)' /\ tenants'[t].slug = tenants[t].slug
    BY <1>2 DEF Stays
  <2>3. \A d \in Calls : calls'[d].code = "TENANT_SLUG_TAKEN" => d # c /\ calls'[d] = calls[d]
    OBVIOUS
  <2>4. \A d \in Calls : calls'[d].code = "TENANT_SLUG_TAKEN" =>
          \E t \in TenantIds : Known(t)' /\ tenants'[t].slug = calls'[d].arg
    BY <2>1, <2>2, <2>3
  <2> QED
    BY <2>4 DEF SlugTakenForCause
<1>6. RolesOnlyForMembers'
  <2>1. \A r \in roles' : \E m \in members : m.tenant = r.tenant /\ m.user = r.user
    <3>1. \A r \in roles : \E m \in members : m.tenant = r.tenant /\ m.user = r.user
      BY DEF IInv, RolesOnlyForMembers
    <3>2. \A r \in roles' \ roles : \E m \in members : m.tenant = r.tenant /\ m.user = r.user
      BY DEF IsMember
    <3> QED
      BY <3>1, <3>2
  <2>2. \A m \in members : \E n \in members' : n.tenant = m.tenant /\ n.user = m.user
    OBVIOUS
  <2>3. \A r \in roles' : \E n \in members' : n.tenant = r.tenant /\ n.user = r.user
    BY <2>1, <2>2
  <2> QED
    BY <2>3 DEF RolesOnlyForMembers
<1>7. OwnersAreFounders'
  BY DEF IInv, OwnersAreFounders
<1>8. RevokedIsRefused'
  BY DEF IInv, RevokedIsRefused
<1>9. PublicIsReady'
  BY DEF PublicIsReady, Exists, Complete
<1>10. \A d \in Calls : LocalsOK(d)'
  BY LocalsPersist
<1> QED
  BY <1>1, <1>3, <1>4, <1>5, <1>6, <1>7, <1>8, <1>9, <1>10 DEF IInv

\* A call goes on, or answers, and changes no row.
LEMMA ReadStep ==
    ASSUME IInv, UNCHANGED <<tenants, members, roles, founder>>, NEW c \in Calls,
           calls' \in [Calls -> Call], \A d \in Calls \ {c} : calls'[d] = calls[d],
           calls[c].pc \notin Waiting, calls'[c].pc \notin Waiting, LocalsOK(c)',
           calls'[c].code # "TENANT_SLUG_TAKEN",
           calls'[c].barred => /\ calls'[c].pc \in {"context", "done"}
                               /\ calls'[c].code \in {"none", "TENANT_ACCESS_DENIED", "INTERNAL_ERROR"}
    PROVE  IInv'
<1>1. Stays
  <2>1. \A t \in TenantIds : Known(t) => tenants[t] # Absent /\ tenants[t].tx = Absent
    BY DEF Known, Exists
  <2> QED
    BY <2>1 DEF Stays
<1>2. tenants' \in [TenantIds -> Tenant \cup {Absent}] /\ members' \subseteq Member /\ roles' \subseteq Role
  BY DEF IInv, TypeOK
<1>3. OneMembership'
  BY DEF IInv, OneMembership
<1>4. \A t \in TenantIds : tenants[t] # Absent /\ tenants[t].completed => Complete(tenants[t])
  BY DEF IInv, PublicIsReady, Exists
<1>5. \A n \in members' : n.tx = Absent => Known(n.tenant) /\ n.tenant \in TenantIds
  BY RowsFollowTheirTenant DEF Known, Exists
<1> QED
  BY <1>1, <1>2, <1>3, <1>4, <1>5, StatementStep

\* A call of an operation on a tenant, between its statements.
LEMMA OperationFacts ==
    ASSUME IInv, NEW c \in Calls, Running(c), calls[c].pc \notin Creating
    PROVE  LET t == calls[c].tenant IN
           /\ calls[c] \in Call /\ LocalsOK(c)
           /\ calls[c].code = "none" /\ calls[c].pc \notin Waiting
           /\ calls[c].op \in Guarded /\ calls[c].actor \in Users
           /\ t \in TenantIds /\ Known(t) /\ tenants[t] \in Tenant
           /\ calls[c].barred => calls[c].pc = "context"
<1>1. calls[c] \in Call /\ LocalsOK(c)
  BY DEF IInv, TypeOK
<1>2. calls[c].code = "none" /\ calls[c].pc \notin Waiting
  BY <1>1, Waits DEF LocalsOK, Running, Call, Creating, Founding
<1>3. /\ calls[c].op \in Guarded /\ calls[c].actor \in Users
      /\ calls[c].tenant \in TenantIds /\ Known(calls[c].tenant)
  BY <1>1 DEF LocalsOK
<1>4. tenants[calls[c].tenant] \in Tenant
  BY <1>3 DEF IInv, TypeOK, Known, Exists
<1>5. calls[c].barred => calls[c].pc = "context"
  BY DEF IInv, RevokedIsRefused, Running
<1> QED
  BY <1>1, <1>2, <1>3, <1>4, <1>5

LEMMA AnswerFacts ==
    ASSUME IInv, NEW c \in Calls, Running(c), calls[c].pc \notin Creating,
           NEW code \in Codes \ {"TENANT_SLUG_TAKEN"}, Answer(c, code),
           calls[c].pc = "context" => code = "TENANT_ACCESS_DENIED"
    PROVE  /\ calls' \in [Calls -> Call] /\ \A d \in Calls \ {c} : calls'[d] = calls[d]
           /\ calls[c].pc \notin Waiting /\ calls'[c].pc \notin Waiting /\ LocalsOK(c)'
           /\ calls'[c].code # "TENANT_SLUG_TAKEN"
           /\ calls'[c].barred => /\ calls'[c].pc \in {"context", "done"}
                                  /\ calls'[c].code \in {"none", "TENANT_ACCESS_DENIED", "INTERNAL_ERROR"}
<1>1. /\ calls' \in [Calls -> Call]
      /\ calls'[c].pc = "done" /\ calls'[c].code = code
      /\ calls'[c].barred = calls[c].barred
      /\ \A d \in Calls \ {c} : calls'[d] = calls[d]
  BY TypeOfCalls
<1>2. calls[c].pc \notin Waiting /\ (calls[c].barred => calls[c].pc = "context")
  BY OperationFacts
<1> QED
  BY <1>1, <1>2, EndedIsOK, Waits

LEMMA AnswerStep ==
    ASSUME IInv, NEW c \in Calls, Running(c), calls[c].pc \notin Creating,
           NEW code \in Codes \ {"TENANT_SLUG_TAKEN"}, Answer(c, code),
           calls[c].pc = "context" => code = "TENANT_ACCESS_DENIED",
           UNCHANGED <<tenants, members, roles, founder>>
    PROVE  IInv'
BY AnswerFacts, ReadStep

\* A call goes on to its next statement.
LEMMA GoOnStep ==
    ASSUME IInv, NEW c \in Calls, Running(c), calls[c].pc \notin Creating, ~calls[c].barred,
           UNCHANGED <<tenants, members, roles, founder>>,
           NEW l \in Call, calls' = [calls EXCEPT ![c] = l],
           l.pc \notin Creating \cup {"idle", "done"},
           l.op = calls[c].op, l.actor = calls[c].actor, l.tenant = calls[c].tenant,
           l.code = calls[c].code, l.barred = calls[c].barred, l.settled = calls[c].settled,
           l.pc \in Writing => l.actor = founder[l.tenant],
           l.pc = "complete" => Complete(tenants[l.tenant]),
           l.pc \in {"compare", "currency"} => l.arg \in Currencies,
           l.pc = "currency" => l.settled = Absent,
           l.pc \in {"enrol", "disable", "member again", "roles again", "target", "assign"} =>
              l.target \in Users,
           l.pc \in {"member again", "roles again", "target", "assign"} =>
              l.op = "assign" /\ l.arg \in RoleNames,
           l.pc = "assign" => l.arg = "STAFF" /\ IsMember(l.tenant, l.target)
    PROVE  IInv'
<1> DEFINE t == calls[c].tenant
<1>1. /\ calls[c].code = "none" /\ calls[c].pc \notin Waiting
      /\ calls[c].op \in Guarded /\ calls[c].actor \in Users
      /\ t \in TenantIds /\ Known(t) /\ LocalsOK(c)
  BY OperationFacts
<1>2. calls' \in [Calls -> Call] /\ calls'[c] = l /\ \A d \in Calls \ {c} : calls'[d] = calls[d]
  BY DEF IInv, TypeOK
<1>3. l.settled # Absent => tenants[t].currency # Absent
  BY <1>1 DEF LocalsOK
<1>4. l.pc \notin Waiting
  BY Waits DEF Creating, Founding
<1>5. l.pc = "assign" => \E m \in members' : m.tenant = t /\ m.user = l.target
  BY DEF IsMember
<1>6. LocalsOK(c)'
  <2>1. Known(calls[c].tenant)'
    BY <1>1, <1>2 DEF Known, Exists
  <2> QED
    BY <1>1, <1>2, <1>3, <1>5, <2>1 DEF LocalsOK, Running, Complete, Row, IsMember
<1> QED
  BY <1>1, <1>2, <1>4, <1>6, ReadStep

-----------------------------------------------------------------------------
(***************************************************************************)
(* The middleware.                                                         *)
(***************************************************************************)
LEMMA CallCreateStep ==
    ASSUME IInv, NEW c \in Calls, CallCreate(c)
    PROVE  IInv'
<1>1. PICK u \in Users, slug \in Slugs :
        calls' = [calls EXCEPT ![c] =
            [Idle EXCEPT !.pc = "begin", !.op = "create", !.actor = u, !.arg = slug]]
  BY DEF CallCreate
<1> DEFINE l == [Idle EXCEPT !.pc = "begin", !.op = "create", !.actor = u, !.arg = slug]
<1>2. /\ l \in Call /\ l.pc = "begin" /\ l.op = "create" /\ l.actor = u /\ l.arg = slug
      /\ l.code = "none" /\ l.barred = FALSE
  BY DEF Idle, Call, PCs, Arguments
<1>3. calls' = [calls EXCEPT ![c] = l]
  BY <1>1
<1> HIDE DEF l
<1>4. calls' \in [Calls -> Call] /\ calls'[c] = l /\ \A d \in Calls \ {c} : calls'[d] = calls[d]
  BY <1>2, <1>3 DEF IInv, TypeOK
<1>5. LocalsOK(c)'
  BY <1>2, <1>4 DEF LocalsOK, Creating, Writing, Founding, Running
<1>6. calls[c].pc \notin Waiting /\ l.pc \notin Waiting
  BY <1>2, Waits DEF CallCreate, At
<1> QED
  BY <1>2, <1>4, <1>5, <1>6, ReadStep DEF CallCreate

LEMMA CallGuardedStep ==
    ASSUME IInv, NEW c \in Calls, CallGuarded(c)
    PROVE  IInv'
<1>1. PICK op \in Guarded, u \in Users, t \in TenantIds :
        /\ Exists(t) /\ tenants[t].tx = Absent
        /\ calls' = [calls EXCEPT ![c] =
               [Idle EXCEPT !.pc = "context", !.op = op, !.actor = u, !.tenant = t,
                            !.barred = Barred(t, u), !.settled = tenants[t].currency]]
  BY DEF CallGuarded
<1> DEFINE l == [Idle EXCEPT !.pc = "context", !.op = op, !.actor = u, !.tenant = t,
                             !.barred = Barred(t, u), !.settled = tenants[t].currency]
<1>2. tenants[t].currency \in Currencies \cup {Absent}
  BY <1>1 DEF IInv, TypeOK, Exists, Tenant
<1>3. Barred(t, u) \in BOOLEAN
  BY DEF Barred
<1>4. /\ l \in Call /\ l.pc = "context" /\ l.op = op /\ l.actor = u /\ l.tenant = t
      /\ l.code = "none" /\ (l.barred <=> Barred(t, u)) /\ l.settled = tenants[t].currency
  BY <1>2, <1>3 DEF Idle, Call, PCs, Arguments
<1>5. calls' = [calls EXCEPT ![c] = l]
  BY <1>1
<1> HIDE DEF l
<1>6. calls' \in [Calls -> Call] /\ calls'[c] = l /\ \A d \in Calls \ {c} : calls'[d] = calls[d]
  BY <1>4, <1>5 DEF IInv, TypeOK
<1>7. UNCHANGED <<tenants, members, roles, founder>>
  BY DEF CallGuarded
<1>8. Known(t)' /\ (Barred(t, u) => Barred(t, u)')
  BY <1>1, <1>7 DEF Known, Exists, Barred
<1>9. LocalsOK(c)'
  BY <1>4, <1>6, <1>7, <1>8 DEF LocalsOK, Creating, Writing, Founding, Running
<1>10. calls[c].pc \notin Waiting /\ l.pc \notin Waiting
  BY <1>4, Waits DEF CallGuarded, At
<1> QED
  BY <1>4, <1>6, <1>7, <1>9, <1>10, ReadStep

\* A membership that was disabled when the call began is still the only one.
LEMMA RevokedHasNoActive ==
    ASSUME IInv, NEW c \in Calls, Running(c), calls[c].pc \notin Creating,
           ActiveMember(c, calls[c].tenant, calls[c].actor)
    PROVE  ~calls[c].barred
<1>1. calls[c].barred => Barred(calls[c].tenant, calls[c].actor)
  BY DEF IInv, LocalsOK
<1> QED
  BY <1>1 DEF IInv, OneMembership, Barred, ActiveMember

LEMMA ReadMembershipStep ==
    ASSUME IInv, NEW c \in Calls, NEW pc, NEW next,
           \/ pc = "context" /\ next = "member"
           \/ pc = "member" /\ next = "roles"
           \/ pc = "member again" /\ next = "roles again",
           ReadMembership(c, pc, next)
    PROVE  IInv'
<1>1. /\ calls[c].pc = pc /\ UNCHANGED <<tenants, members, roles, founder>>
      /\ pc \in {"context", "member", "member again"}
      /\ next \in {"member", "roles", "roles again"}
      /\ next = "roles again" => pc = "member again"
      /\ next \in PCs
  BY DEF ReadMembership, Statement, At, PCs
<1>2. Running(c) /\ calls[c].pc \notin Creating
  BY <1>1 DEF Running, Creating, Founding
<1>3. CASE Answer(c, "TENANT_ACCESS_DENIED")
  BY <1>1, <1>2, <1>3, AnswerStep DEF Codes
<1>4. CASE ActiveMember(c, calls[c].tenant, calls[c].actor) /\ Goto(c, next)
  <2> DEFINE l == [calls[c] EXCEPT !.pc = next]
  <2>1. calls[c] \in Call /\ LocalsOK(c) /\ ~calls[c].barred
    BY <1>2, <1>4, OperationFacts, RevokedHasNoActive
  <2>2. /\ l \in Call /\ l.pc = next
        /\ l.op = calls[c].op /\ l.actor = calls[c].actor /\ l.tenant = calls[c].tenant
        /\ l.code = calls[c].code /\ l.barred = calls[c].barred /\ l.settled = calls[c].settled
        /\ l.arg = calls[c].arg /\ l.target = calls[c].target
    BY <1>1, <2>1 DEF Call
  <2>3. calls' = [calls EXCEPT ![c] = l]
    BY <1>4 DEF Goto, IInv, TypeOK
  <2>4. next = "roles again" => /\ calls[c].actor = founder[calls[c].tenant]
                                /\ calls[c].target \in Users
                                /\ calls[c].op = "assign" /\ calls[c].arg \in RoleNames
    BY <1>1, <2>1 DEF LocalsOK, Writing
  <2>5. next \notin Creating \cup {"idle", "done"} /\ (next \in Writing => next = "roles again")
    BY <1>1 DEF Creating, Founding, Writing
  <2> HIDE DEF l
  <2> QED
    BY <1>1, <1>2, <2>1, <2>2, <2>3, <2>4, <2>5, GoOnStep
<1> QED
  BY <1>3, <1>4 DEF ReadMembership

\* Whoever may do more than read a tenant founded it.
LEMMA PermittedIsFounder ==
    ASSUME IInv, NEW c \in Calls, NEW u, NEW t, NEW op \in Guarded \ {"show"},
           Permitted(c, u, t, Needs[op])
    PROVE  u = founder[t]
<1>1. Needs[op] # "tenant.read"
  BY DEF Guarded, Needs
<1>2. PICK r \in roles : r.tenant = t /\ r.user = u /\ Needs[op] \in Grants(r.role)
  BY DEF Permitted
<1>3. r.role = "BUSINESS_OWNER"
  BY <1>1, <1>2 DEF Grants
<1> QED
  BY <1>2, <1>3 DEF IInv, OwnersAreFounders

LEMMA WhereOperationsBegin ==
    /\ Begins["show"] = "show" /\ Begins["profile"] = "profile"
    /\ Begins["progress"] = "progress" /\ Begins["complete"] = "judge"
    /\ Begins["currency"] = "compare" /\ Begins["enrol"] = "enrol"
    /\ Begins["revoke"] = "disable" /\ Begins["assign"] = "member again"
BY DEF Begins

LEMMA HandleStep ==
    ASSUME IInv, NEW c \in Calls, At(c, "roles"), Handle(c),
           Permitted(c, calls[c].actor, calls[c].tenant, Needs[calls[c].op]),
           UNCHANGED <<tenants, members, roles, founder>>
    PROVE  IInv'
<1> DEFINE op == calls[c].op
<1>1. PICK target \in Targets(op), arg \in ArgumentsOf(op) :
        calls' = [calls EXCEPT ![c].pc = Begins[op], ![c].target = target, ![c].arg = arg]
  BY DEF Handle
<1>2. calls[c].pc = "roles" /\ Running(c) /\ calls[c].pc \notin Creating
  BY DEF At, Running, Creating, Founding
<1>3. calls[c] \in Call /\ LocalsOK(c) /\ ~calls[c].barred /\ op \in Guarded
  BY <1>2, OperationFacts
<1>4. op \in {"show", "profile", "progress", "complete", "currency", "enrol", "revoke", "assign"}
  BY <1>3 DEF Guarded, Needs
<1>5. /\ target \in Users \cup {Absent}
      /\ op \in {"enrol", "revoke", "assign"} => target \in Users
      /\ arg \in Arguments
      /\ op = "currency" => arg \in Currencies
      /\ op = "assign" => arg \in RoleNames
  BY <1>4 DEF Targets, ArgumentsOf, Arguments
<1> DEFINE pc == Begins[op]
<1>6. /\ pc \in PCs /\ pc \notin Creating \cup {"idle", "done"}
      /\ pc \in {"show", "profile", "progress", "judge", "compare", "enrol", "disable", "member again"}
      /\ pc \in Writing => op # "show"
      /\ pc = "compare" => op = "currency"
      /\ pc \in {"enrol", "disable", "member again"} => op \in {"enrol", "revoke", "assign"}
      /\ pc = "member again" => op = "assign"
  <2>1. \/ op = "show" /\ pc = "show"
        \/ op = "profile" /\ pc = "profile"
        \/ op = "progress" /\ pc = "progress"
        \/ op = "complete" /\ pc = "judge"
        \/ op = "currency" /\ pc = "compare"
        \/ op = "enrol" /\ pc = "enrol"
        \/ op = "revoke" /\ pc = "disable"
        \/ op = "assign" /\ pc = "member again"
    BY <1>4, WhereOperationsBegin
  <2> QED
    BY <2>1 DEF PCs, Creating, Founding, Writing
<1> DEFINE l == [calls[c] EXCEPT !.pc = pc, !.target = target, !.arg = arg]
<1> HIDE DEF pc
<1>7. /\ l \in Call /\ l.pc = pc /\ l.op = calls[c].op /\ l.actor = calls[c].actor
      /\ l.tenant = calls[c].tenant /\ l.code = calls[c].code /\ l.barred = calls[c].barred
      /\ l.settled = calls[c].settled /\ l.arg = arg /\ l.target = target
  BY <1>3, <1>5, <1>6 DEF Call
<1>8. calls' = [calls EXCEPT ![c] = l]
  BY <1>1 DEF pc, IInv, TypeOK
<1>9. op # "show" => calls[c].actor = founder[calls[c].tenant]
  BY <1>3, PermittedIsFounder
<1> HIDE DEF l
<1> QED
  BY <1>2, <1>3, <1>5, <1>6, <1>7, <1>8, <1>9, GoOnStep

-----------------------------------------------------------------------------
(***************************************************************************)
(* The operations on a tenant.                                             *)
(***************************************************************************)
\* What a call may write is for its founder to write.
LEMMA WritingFacts ==
    ASSUME IInv, NEW c \in Calls, calls[c].pc \in Writing
    PROVE  /\ Running(c) /\ calls[c].pc \notin Creating /\ ~calls[c].barred
           /\ calls[c].pc # "context" /\ LocalsOK(c) /\ calls[c] \in Call
           /\ calls[c].tenant \in TenantIds /\ calls[c].actor \in Users
           /\ Known(calls[c].tenant) /\ tenants[calls[c].tenant] \in Tenant
           /\ calls[c].actor = founder[calls[c].tenant]
<1>1. Running(c) /\ calls[c].pc \notin Creating /\ calls[c].pc # "context"
  BY DEF Running, Creating, Founding, Writing
<1>2. calls[c].actor = founder[calls[c].tenant]
  BY DEF IInv, LocalsOK
<1> QED
  BY <1>1, <1>2, OperationFacts

LEMMA GotoStep ==
    ASSUME IInv, NEW c \in Calls, calls[c].pc \in Writing, NEW next, Goto(c, next),
           next \in {"complete", "currency", "target", "assign"},
           next = "complete" => Complete(Row(c)),
           next = "currency" => calls[c].arg \in Currencies /\ calls[c].settled = Absent,
           next \in {"target", "assign"} =>
              calls[c].target \in Users /\ calls[c].op = "assign" /\ calls[c].arg \in RoleNames,
           next = "assign" => calls[c].arg = "STAFF" /\ IsMember(calls[c].tenant, calls[c].target),
           UNCHANGED <<tenants, members, roles, founder>>
    PROVE  IInv'
<1>1. /\ Running(c) /\ calls[c].pc \notin Creating /\ ~calls[c].barred
      /\ calls[c] \in Call /\ calls[c].actor = founder[calls[c].tenant]
  BY WritingFacts
<1> DEFINE l == [calls[c] EXCEPT !.pc = next]
<1>2. next \in PCs /\ next \notin Creating \cup {"idle", "done"}
  BY DEF PCs, Creating, Founding
<1>3. /\ l \in Call /\ l.pc = next
      /\ l.op = calls[c].op /\ l.actor = calls[c].actor /\ l.tenant = calls[c].tenant
      /\ l.code = calls[c].code /\ l.barred = calls[c].barred /\ l.settled = calls[c].settled
      /\ l.arg = calls[c].arg /\ l.target = calls[c].target
  BY <1>1, <1>2 DEF Call
<1>4. calls' = [calls EXCEPT ![c] = l]
  BY DEF Goto, IInv, TypeOK
<1> HIDE DEF l
<1> QED
  BY <1>1, <1>2, <1>3, <1>4, GoOnStep DEF Row

LEMMA WritingAnswerStep ==
    ASSUME IInv, NEW c \in Calls, calls[c].pc \in Writing,
           NEW code \in Codes \ {"TENANT_SLUG_TAKEN"}, Answer(c, code),
           UNCHANGED <<tenants, members, roles, founder>>
    PROVE  IInv'
BY WritingFacts, AnswerStep

LEMMA RequireTenantPermissionStep ==
    ASSUME IInv, NEW c \in Calls, RequireTenantPermission(c)
    PROVE  IInv'
<1>1. CASE ReadMembership(c, "member", "roles")
  BY <1>1, ReadMembershipStep
<1>2. CASE At(c, "roles") /\ ReadRoles(c, "roles", Handle(c))
  <2>1. Running(c) /\ calls[c].pc \notin Creating /\ calls[c].pc = "roles"
    BY <1>2 DEF At, Running, Creating, Founding
  <2>2. UNCHANGED <<tenants, members, roles, founder>>
    BY <1>2 DEF ReadRoles
  <2>3. CASE Answer(c, "PERMISSION_DENIED")
    BY <2>1, <2>2, <2>3, AnswerStep DEF Codes
  <2>4. CASE Permitted(c, calls[c].actor, calls[c].tenant, Needs[calls[c].op]) /\ Handle(c)
    BY <1>2, <2>2, <2>4, HandleStep
  <2> QED
    BY <1>2, <2>3, <2>4 DEF ReadRoles
<1> QED
  BY <1>1, <1>2 DEF RequireTenantPermission

LEMMA RequireAssignStep ==
    ASSUME IInv, NEW c \in Calls, RequireAssign(c)
    PROVE  IInv'
<1>1. CASE ReadMembership(c, "member again", "roles again")
  BY <1>1, ReadMembershipStep
<1>2. CASE At(c, "roles again") /\ ReadRoles(c, "roles again", Goto(c, "target"))
  <2>1. calls[c].pc = "roles again" /\ calls[c].pc \in Writing
    BY <1>2 DEF At, Writing
  <2>2. UNCHANGED <<tenants, members, roles, founder>>
    BY <1>2 DEF ReadRoles
  <2>3. CASE Answer(c, "PERMISSION_DENIED")
    BY <2>1, <2>2, <2>3, WritingAnswerStep DEF Codes
  <2>4. CASE Goto(c, "target")
    <3>1. calls[c].target \in Users /\ calls[c].op = "assign" /\ calls[c].arg \in RoleNames
      BY <2>1 DEF IInv, LocalsOK
    <3> QED
      BY <2>1, <2>2, <2>4, <3>1, GotoStep
  <2> QED
    BY <1>2, <2>3, <2>4 DEF ReadRoles
<1> QED
  BY <1>1, <1>2 DEF RequireAssign

LEMMA ShowStep ==
    ASSUME IInv, NEW c \in Calls, Show(c)
    PROVE  IInv'
<1>1. Running(c) /\ calls[c].pc \notin Creating /\ calls[c].pc # "context"
  BY DEF Show, Statement, At, Running, Creating, Founding
<1>2. \E code \in Codes \ {"TENANT_SLUG_TAKEN"} : Answer(c, code)
  BY DEF Show, Codes
<1> QED
  BY <1>1, <1>2, AnswerStep DEF Show

LEMMA JudgeCompletionStep ==
    ASSUME IInv, NEW c \in Calls, JudgeCompletion(c)
    PROVE  IInv'
<1>1. calls[c].pc \in Writing /\ UNCHANGED <<tenants, members, roles, founder>>
  BY DEF JudgeCompletion, Statement, At, Writing
<1>2. CASE \E code \in {"OK", "VALIDATION_FAILED"} : Answer(c, code)
  BY <1>1, <1>2, WritingAnswerStep DEF Codes
<1>3. CASE Complete(Row(c)) /\ Goto(c, "complete")
  BY <1>1, <1>3, GotoStep
<1> QED
  BY <1>2, <1>3 DEF JudgeCompletion

\* There was no currency when it was compared, so there was none before.
LEMMA CompareCurrencyStep ==
    ASSUME IInv, NEW c \in Calls, CompareCurrency(c)
    PROVE  IInv'
<1>1. /\ calls[c].pc \in Writing /\ calls[c].pc = "compare"
      /\ UNCHANGED <<tenants, members, roles, founder>>
  BY DEF CompareCurrency, Statement, At, Writing
<1>2. CASE \E code \in {"OK", "VALIDATION_FAILED"} : Answer(c, code)
  BY <1>1, <1>2, WritingAnswerStep DEF Codes
<1>3. CASE Row(c).currency = Absent /\ Goto(c, "currency")
  <2>1. calls[c].arg \in Currencies /\ LocalsOK(c) /\ Running(c) /\ calls[c].pc \notin Creating
    BY <1>1, WritingFacts DEF LocalsOK
  <2>2. calls[c].settled = Absent
    BY <1>3, <2>1 DEF LocalsOK, Row
  <2> QED
    BY <1>1, <1>3, <2>1, <2>2, GotoStep
<1> QED
  BY <1>2, <1>3 DEF CompareCurrency

LEMMA ReadTargetStep ==
    ASSUME IInv, NEW c \in Calls, ReadTarget(c)
    PROVE  IInv'
<1>1. /\ calls[c].pc \in Writing /\ calls[c].pc = "target"
      /\ UNCHANGED <<tenants, members, roles, founder>>
  BY DEF ReadTarget, Statement, At, Writing
<1>2. CASE \E code \in {"PERMISSION_DENIED", "TENANT_ACCESS_DENIED"} : Answer(c, code)
  BY <1>1, <1>2, WritingAnswerStep DEF Codes
<1>3. CASE Assignable(calls[c].arg) /\ ActiveMember(c, calls[c].tenant, calls[c].target)
           /\ Goto(c, "assign")
  <2>1. calls[c].target \in Users /\ calls[c].op = "assign" /\ calls[c].arg \in RoleNames
    BY <1>1 DEF IInv, LocalsOK
  <2>2. calls[c].arg = "STAFF" /\ IsMember(calls[c].tenant, calls[c].target)
    BY <1>3 DEF Assignable, ActiveMember, IsMember
  <2> QED
    BY <1>1, <1>3, <2>1, <2>2, GotoStep
<1> QED
  BY <1>2, <1>3 DEF ReadTarget

\* An UPDATE of the tenant's row.
LEMMA UpdateRowStep ==
    ASSUME IInv, NEW c \in Calls, calls[c].pc \in Writing, NEW row \in Tenant,
           UpdateRow(c, row), Answer(c, "OK"),
           row.tx = Row(c).tx, row.slug = Row(c).slug,
           Row(c).currency # Absent => row.currency # Absent,
           Row(c).step => row.step, Row(c).timezone => row.timezone,
           row.completed => Complete(row)
    PROVE  IInv'
<1> DEFINE t == calls[c].tenant
<1>1. /\ Running(c) /\ calls[c].pc \notin Creating /\ calls[c].pc # "context"
      /\ t \in TenantIds /\ tenants[t] # Absent /\ tenants[t].tx = Absent
  BY WritingFacts DEF Known, Exists
<1>2. /\ calls' \in [Calls -> Call] /\ \A d \in Calls \ {c} : calls'[d] = calls[d]
      /\ calls[c].pc \notin Waiting /\ calls'[c].pc \notin Waiting /\ LocalsOK(c)'
      /\ calls'[c].code # "TENANT_SLUG_TAKEN"
      /\ calls'[c].barred => /\ calls'[c].pc \in {"context", "done"}
                             /\ calls'[c].code \in {"none", "TENANT_ACCESS_DENIED", "INTERNAL_ERROR"}
  BY <1>1, AnswerFacts DEF Codes
<1>3. UNCHANGED <<members, roles, founder>> /\ tenants' = [tenants EXCEPT ![t] = row]
  BY DEF UpdateRow
<1> HIDE DEF t
<1>4. tenants'[t] = row /\ \A x \in TenantIds \ {t} : tenants'[x] = tenants[x]
  BY <1>1, <1>3 DEF IInv, TypeOK
<1>5. row # Absent /\ Row(c) = tenants[t]
  BY AbsentIsNoRow DEF Row, t
<1>6. \A x \in TenantIds : /\ tenants'[x] = Absent <=> tenants[x] = Absent
                           /\ tenants'[x].tx = tenants[x].tx
                           /\ tenants[x] # Absent /\ tenants'[x].completed => Complete(tenants'[x])
  BY <1>1, <1>4, <1>5 DEF IInv, PublicIsReady, Exists
<1>7. Stays
  BY <1>1, <1>3, <1>4, <1>5 DEF Stays, Known, Exists
<1>8. tenants' \in [TenantIds -> Tenant \cup {Absent}] /\ members' \subseteq Member /\ roles' \subseteq Role
  BY <1>3 DEF IInv, TypeOK
<1>9. OneMembership'
  BY <1>3 DEF IInv, OneMembership
<1>10. \A n \in members : n.tx = Absent => Known(n.tenant) /\ n.tenant \in TenantIds
  BY RowsFollowTheirTenant DEF Known, Exists
<1> QED
  BY <1>2, <1>3, <1>6, <1>7, <1>8, <1>9, <1>10, StatementStep

LEMMA TenantRowSteps ==
    ASSUME IInv, NEW c \in Calls,
           UpdateProfile(c) \/ SaveProgress(c) \/ CompleteOnboarding(c) \/ SetCurrency(c)
    PROVE  IInv'
<1>1. calls[c].pc \in Writing /\ Answer(c, "OK")
  BY DEF UpdateProfile, SaveProgress, CompleteOnboarding, SetCurrency, Statement, At, Writing
<1>2. Row(c).completed => Complete(Row(c))
  BY <1>1, WritingFacts DEF Row, Known, IInv, PublicIsReady
<1>3. Row(c) \in Tenant /\ LocalsOK(c)
  BY <1>1, WritingFacts DEF Row
<1>4. CASE UpdateProfile(c)
  <2>1. PICK z \in {Row(c).timezone, TRUE} : UpdateRow(c, [Row(c) EXCEPT !.timezone = z])
    BY <1>4 DEF UpdateProfile
  <2> DEFINE row == [Row(c) EXCEPT !.timezone = z]
  <2>2. /\ row \in Tenant /\ row.tx = Row(c).tx /\ row.slug = Row(c).slug
        /\ row.currency = Row(c).currency /\ row.step = Row(c).step /\ row.timezone = z
        /\ row.completed = Row(c).completed
    BY <1>3 DEF Tenant
  <2>3. UpdateRow(c, row)
    BY <2>1
  <2> HIDE DEF row
  <2> QED
    BY <1>1, <1>2, <1>3, <2>2, <2>3, UpdateRowStep DEF Complete
<1>5. CASE SaveProgress(c)
  <2> DEFINE row == [Row(c) EXCEPT !.step = TRUE]
  <2>1. /\ row \in Tenant /\ row.tx = Row(c).tx /\ row.slug = Row(c).slug
        /\ row.currency = Row(c).currency /\ row.step = TRUE /\ row.timezone = Row(c).timezone
        /\ row.completed = Row(c).completed
    BY <1>3 DEF Tenant
  <2>2. UpdateRow(c, row)
    BY <1>5 DEF SaveProgress
  <2> HIDE DEF row
  <2> QED
    BY <1>1, <1>2, <1>3, <2>1, <2>2, UpdateRowStep DEF Complete
<1>6. CASE CompleteOnboarding(c)
  <2> DEFINE row == [Row(c) EXCEPT !.completed = TRUE]
  <2>1. /\ row \in Tenant /\ row.tx = Row(c).tx /\ row.slug = Row(c).slug
        /\ row.currency = Row(c).currency /\ row.step = Row(c).step /\ row.timezone = Row(c).timezone
    BY <1>3 DEF Tenant
  <2>2. UpdateRow(c, row)
    BY <1>6 DEF CompleteOnboarding
  <2>3. Complete(Row(c))
    BY <1>3, <1>6 DEF CompleteOnboarding, Statement, At, LocalsOK
  <2> HIDE DEF row
  <2> QED
    BY <1>1, <2>1, <2>2, <2>3, UpdateRowStep DEF Complete
<1>7. CASE SetCurrency(c)
  <2> DEFINE row == [Row(c) EXCEPT !.currency = calls[c].arg]
  <2>1. calls[c].arg \in Currencies /\ calls[c].arg # Absent
    BY <1>3, <1>7, AbsentIsNothing DEF SetCurrency, Statement, At, LocalsOK
  <2>2. /\ row \in Tenant /\ row.tx = Row(c).tx /\ row.slug = Row(c).slug
        /\ row.currency = calls[c].arg /\ row.step = Row(c).step /\ row.timezone = Row(c).timezone
        /\ row.completed = Row(c).completed
    BY <1>3, <2>1 DEF Tenant
  <2>3. UpdateRow(c, row)
    BY <1>7 DEF SetCurrency
  <2> HIDE DEF row
  <2> QED
    BY <1>1, <1>2, <1>3, <2>1, <2>2, <2>3, UpdateRowStep DEF Complete
<1> QED
  BY <1>4, <1>5, <1>6, <1>7

\* A statement on the members or the roles of the call's tenant.
LEMMA RowsOfTenantStep ==
    ASSUME IInv, NEW c \in Calls, calls[c].pc \in Writing, Answer(c, "OK"),
           UNCHANGED <<tenants, founder>>,
           members' \subseteq Member, OneMembership',
           \A m \in members : \E n \in members' :
              /\ n.tenant = m.tenant /\ n.user = m.user /\ n.tx = m.tx
              /\ m.status = "DISABLED" => n.status = "DISABLED",
           \A m \in members : m.tx # Absent => m \in members',
           \A n \in members' : n \in members \/ (n.tx = Absent /\ n.tenant = calls[c].tenant),
           roles' \subseteq Role, roles \subseteq roles',
           \A r \in roles' \ roles : /\ r.tx = Absent /\ r.tenant = calls[c].tenant
                                     /\ IsMember(r.tenant, r.user)
                                     /\ r.role # "BUSINESS_OWNER"
    PROVE  IInv'
<1> DEFINE t == calls[c].tenant
<1>1. /\ Running(c) /\ calls[c].pc \notin Creating /\ calls[c].pc # "context"
      /\ t \in TenantIds /\ Known(t)
  BY WritingFacts
<1>2. /\ calls' \in [Calls -> Call] /\ \A d \in Calls \ {c} : calls'[d] = calls[d]
      /\ calls[c].pc \notin Waiting /\ calls'[c].pc \notin Waiting /\ LocalsOK(c)'
      /\ calls'[c].code # "TENANT_SLUG_TAKEN"
      /\ calls'[c].barred => /\ calls'[c].pc \in {"context", "done"}
                             /\ calls'[c].code \in {"none", "TENANT_ACCESS_DENIED", "INTERNAL_ERROR"}
  BY <1>1, AnswerFacts DEF Codes
<1> HIDE DEF t
<1>3. \A x \in TenantIds : /\ tenants'[x] = Absent <=> tenants[x] = Absent
                           /\ tenants'[x].tx = tenants[x].tx
                           /\ tenants[x] # Absent /\ tenants'[x].completed => Complete(tenants'[x])
  BY DEF IInv, PublicIsReady, Exists
<1>4. Stays
  <2>1. \A x \in TenantIds : Known(x) => tenants[x] # Absent /\ tenants[x].tx = Absent
    BY DEF Known, Exists
  <2>2. \A m \in members : m.tx = Absent =>
          \E n \in members' : /\ n.tenant = m.tenant /\ n.user = m.user /\ n.tx = Absent
                              /\ m.status = "DISABLED" => n.status = "DISABLED"
    OBVIOUS
  <2> QED
    BY <2>1, <2>2 DEF Stays
<1>5. tenants' \in [TenantIds -> Tenant \cup {Absent}]
  BY DEF IInv, TypeOK
<1>6. \A n \in members' : n.tx = Absent => Known(n.tenant) /\ n.tenant \in TenantIds
  <2>1. \A n \in members : n.tx = Absent => Known(n.tenant) /\ n.tenant \in TenantIds
    BY RowsFollowTheirTenant DEF Known, Exists
  <2> QED
    BY <1>1, <2>1 DEF t
<1>7. \A m \in members : /\ \E n \in members' : n.tenant = m.tenant /\ n.user = m.user /\ n.tx = m.tx
                         /\ m.tx # Absent => m \in members'
  OBVIOUS
<1>8. \A r \in roles' \ roles : /\ r.tx = Absent /\ Known(r.tenant) /\ r.tenant \in TenantIds
                                /\ IsMember(r.tenant, r.user)
                                /\ r.role # "BUSINESS_OWNER"
  BY <1>1 DEF t
<1>9. \A n \in members' : n.tx # Absent => n \in members
  OBVIOUS
<1> QED
  BY <1>2, <1>3, <1>4, <1>5, <1>6, <1>7, <1>8, <1>9, StatementStep

LEMMA EnrolStep ==
    ASSUME IInv, NEW c \in Calls, Enrol(c)
    PROVE  IInv'
<1> DEFINE t == calls[c].tenant
           u == calls[c].target
           row == NewMember(t, u, Absent)
<1>1. /\ calls[c].pc \in Writing /\ calls[c].pc = "enrol"
      /\ UNCHANGED <<tenants, roles, founder>>
  BY DEF Enrol, Statement, At, Writing
<1>2. t \in TenantIds /\ u \in Users
  BY <1>1, WritingFacts DEF LocalsOK
<1>3. CASE Answer(c, "TENANT_MEMBERSHIP_ALREADY_EXISTS") /\ UNCHANGED members
  BY <1>1, <1>3, WritingAnswerStep DEF Codes
<1>4. CASE ~IsMember(t, u) /\ Answer(c, "OK") /\ members' = members \cup {row}
  <2>1. /\ row \in Member /\ row.tenant = t /\ row.user = u /\ row.tx = Absent
    BY <1>2 DEF NewMember, Member
  <2> HIDE DEF row, t, u
  <2>2. \A m \in members : ~(m.tenant = t /\ m.user = u)
    BY <1>4 DEF IsMember
  <2>3. OneMembership'
    BY <1>4, <2>1, <2>2 DEF IInv, OneMembership
  <2>4. members' \subseteq Member /\ roles' \subseteq Role
    BY <1>1, <1>4, <2>1 DEF IInv, TypeOK
  <2>5. calls[c].tenant = t
    BY DEF t
  <2>6. \A m \in members : m \in members'
    BY <1>4
  <2>7. \A n \in members' : n \in members \/ (n.tx = Absent /\ n.tenant = calls[c].tenant)
    BY <1>4, <2>1, <2>5
  <2> QED
    BY <1>1, <1>4, <2>3, <2>4, <2>6, <2>7, RowsOfTenantStep
<1> QED
  BY <1>3, <1>4 DEF Enrol

LEMMA RevokeStep ==
    ASSUME IInv, NEW c \in Calls, Revoke(c)
    PROVE  IInv'
<1> DEFINE t == calls[c].tenant
           u == calls[c].target
           new(m) == IF m.tenant = t /\ m.user = u THEN [m EXCEPT !.status = "DISABLED"] ELSE m
<1>1. /\ calls[c].pc \in Writing /\ Answer(c, "OK")
      /\ members' = { new(m) : m \in members }
      /\ UNCHANGED <<tenants, roles, founder>>
  BY DEF Revoke, Statement, At, Writing
<1>2. Known(t) /\ t \in TenantIds
  BY <1>1, WritingFacts
<1>3. \A m \in members : /\ new(m) \in Member
                         /\ new(m).tenant = m.tenant /\ new(m).user = m.user /\ new(m).tx = m.tx
                         /\ m.status = "DISABLED" => new(m).status = "DISABLED"
                         /\ new(m) = m \/ m.tenant = t
  BY DEF IInv, TypeOK, Member
<1>4. \A m \in members : m.tenant = t => m.tx = Absent
  BY <1>2, RowsFollowTheirTenant DEF Known
<1> HIDE DEF new
<1>5. members' \subseteq Member /\ roles' \subseteq Role
  BY <1>1, <1>3 DEF IInv, TypeOK
<1>6. OneMembership'
  <2>1. \A m, n \in members : m.tenant = n.tenant /\ m.user = n.user => m = n
    BY DEF IInv, OneMembership
  <2>2. \A m, n \in members : new(m).tenant = new(n).tenant /\ new(m).user = new(n).user
                              => new(m) = new(n)
    BY <1>3, <2>1
  <2> QED
    BY <1>1, <2>2 DEF OneMembership
<1>7. \A m \in members : \E n \in members' :
         /\ n.tenant = m.tenant /\ n.user = m.user /\ n.tx = m.tx
         /\ m.status = "DISABLED" => n.status = "DISABLED"
  BY <1>1, <1>3
<1>8. \A m \in members : m.tx # Absent => m \in members'
  BY <1>1, <1>3, <1>4
<1>9. \A n \in members' : n \in members \/ (n.tx = Absent /\ n.tenant = calls[c].tenant)
  BY <1>1, <1>3, <1>4
<1> QED
  BY <1>1, <1>5, <1>6, <1>7, <1>8, <1>9, RowsOfTenantStep

LEMMA AssignStep ==
    ASSUME IInv, NEW c \in Calls, Assign(c)
    PROVE  IInv'
<1> DEFINE t == calls[c].tenant
           u == calls[c].target
           row == NewRole(t, u, calls[c].arg, Absent)
<1>1. /\ calls[c].pc \in Writing /\ calls[c].pc = "assign"
      /\ UNCHANGED <<tenants, members, founder>>
  BY DEF Assign, Statement, At, Writing
<1>2. t \in TenantIds /\ u \in Users /\ calls[c].arg = "STAFF" /\ IsMember(t, u)
  BY <1>1, WritingFacts DEF LocalsOK
<1>3. CASE Answer(c, "ROLE_ASSIGNMENT_ALREADY_EXISTS") /\ UNCHANGED roles
  BY <1>1, <1>3, WritingAnswerStep DEF Codes
<1>4. CASE Answer(c, "OK") /\ roles' = roles \cup {row}
  <2>1. /\ row \in Role /\ row.tenant = t /\ row.user = u /\ row.tx = Absent /\ row.role = "STAFF"
    BY <1>2 DEF NewRole, Role, RoleNames
  <2> HIDE DEF row
  <2>2. members' \subseteq Member /\ roles' \subseteq Role /\ OneMembership'
    BY <1>1, <1>4, <2>1 DEF IInv, TypeOK, OneMembership
  <2>3. \A r \in roles' \ roles : /\ r.tx = Absent /\ r.tenant = calls[c].tenant
                                  /\ IsMember(r.tenant, r.user)
                                  /\ r.role # "BUSINESS_OWNER"
    BY <1>2, <1>4, <2>1
  <2>4. members' = members /\ roles \subseteq roles'
    BY <1>1, <1>4
  <2> QED
    BY <1>1, <1>4, <2>2, <2>3, <2>4, RowsOfTenantStep
<1> QED
  BY <1>3, <1>4 DEF Assign

LEMMA OperateStep ==
    ASSUME IInv, NEW c \in Calls, Operate(c)
    PROVE  IInv'
<1>1. Resolve(c) => IInv'
  BY ReadMembershipStep DEF Resolve
<1> QED
  BY <1>1, RequireTenantPermissionStep, RequireAssignStep, ShowStep, JudgeCompletionStep,
     CompareCurrencyStep, ReadTargetStep, TenantRowSteps, EnrolStep, RevokeStep, AssignStep
     DEF Operate

-----------------------------------------------------------------------------
(***************************************************************************)
(* The transaction that founds a tenant.                                   *)
(***************************************************************************)
LEMMA CreatingFacts ==
    ASSUME IInv, NEW c \in Calls, calls[c].pc \in Creating
    PROVE  /\ calls[c] \in Call /\ calls[c].op = "create" /\ calls[c].actor \in Users
           /\ calls[c].arg \in Slugs /\ calls[c].code = "none" /\ ~calls[c].barred
           /\ c # Absent
<1>1. calls[c].pc # "done" /\ calls[c].pc # "context"
  BY DEF Creating, Founding
<1>2. calls[c] \in Call /\ LocalsOK(c)
  BY DEF IInv, TypeOK
<1>3. calls[c].code = "none" /\ c # Absent
  BY <1>1, <1>2, AbsentIsNothing DEF LocalsOK, Call
<1>4. ~calls[c].barred
  BY <1>1 DEF IInv, RevokedIsRefused
<1> QED
  BY <1>2, <1>3, <1>4 DEF LocalsOK

\* What LocalsOK asks of a call between the statements of a transaction.
LEMMA CreatingIsOK ==
    ASSUME NEW c \in Calls, calls'[c].pc \in Creating, calls'[c].code = "none",
           calls'[c].op = "create", calls'[c].actor \in Users, calls'[c].arg \in Slugs
    PROVE  LocalsOK(c)'
<1>1. calls'[c].pc \notin Writing
  BY DEF Creating, Founding, Writing
<1> QED
  BY <1>1 DEF LocalsOK, Creating, Founding, Writing

LEMMA BeginStep ==
    ASSUME IInv, NEW c \in Calls, Begin(c)
    PROVE  IInv'
<1>1. calls[c].pc = "begin" /\ calls[c].pc \in Creating /\ Goto(c, "insert tenant")
      /\ UNCHANGED <<tenants, members, roles, founder>>
  BY DEF Begin, At, Creating
<1>2. /\ calls[c] \in Call /\ calls[c].op = "create" /\ calls[c].actor \in Users
      /\ calls[c].arg \in Slugs /\ calls[c].code = "none" /\ ~calls[c].barred
  BY <1>1, CreatingFacts
<1> DEFINE l == [calls[c] EXCEPT !.pc = "insert tenant"]
<1>3. /\ calls' \in [Calls -> Call] /\ calls'[c] = l /\ \A d \in Calls \ {c} : calls'[d] = calls[d]
  BY <1>1, TypeOfCalls DEF PCs, Founding
<1>4. /\ l.pc = "insert tenant" /\ l.op = "create" /\ l.actor = calls[c].actor
      /\ l.arg = calls[c].arg /\ l.code = "none" /\ l.barred = calls[c].barred
  BY <1>2 DEF Call
<1> HIDE DEF l
<1>5. l.pc \in Creating /\ l.pc \notin Waiting /\ calls[c].pc \notin Waiting
  BY <1>1, <1>4, Waits DEF Creating, Founding
<1>6. LocalsOK(c)'
  BY <1>2, <1>3, <1>4, <1>5, CreatingIsOK
<1> QED
  BY <1>1, <1>2, <1>3, <1>4, <1>5, <1>6, ReadStep

\* A transaction writes a row of its own tenant, or goes on: everybody else's
\* rows stay, and the tenant is no more committed than it was.
OwnCall(c, l, t) ==
    /\ calls[c].pc \in Founding \ {"commit"} /\ calls' = [calls EXCEPT ![c] = l]
    /\ l.pc \in Waiting /\ l.actor = calls[c].actor /\ l.op = "create"
    /\ l.arg = calls[c].arg /\ l.code = "none" /\ ~l.barred /\ l.tenant = t
    /\ calls[c].pc \in Waiting => calls[c].tenant = t
    /\ calls[c].pc = "insert owner" => l.pc = "commit"

OwnTenant(c, l, t) ==
    /\ tenants' \in [TenantIds -> Tenant \cup {Absent}]
    /\ founder' \in [TenantIds -> Users \cup {Absent}]
    /\ \A x \in TenantIds \ {t} : tenants'[x] = tenants[x] /\ founder'[x] = founder[x]
    /\ tenants'[t] # Absent /\ tenants'[t].tx = c
    /\ tenants'[t].completed => Complete(tenants'[t])
    /\ founder'[t] = l.actor
    /\ tenants[t] = Absent \/ (tenants[t].tx = c /\ founder[t] = l.actor)

OwnMembers(c, l, t) ==
    /\ members' \subseteq Member /\ members \subseteq members'
    /\ \A m \in members' \ members :
          l.pc \in {"insert owner", "commit"} /\ m = NewMember(t, l.actor, c)
    /\ l.pc \in {"insert owner", "commit"} => NewMember(t, l.actor, c) \in members'

OwnRoles(c, l, t) ==
    /\ roles' \subseteq Role /\ roles \subseteq roles'
    /\ \A r \in roles' \ roles :
          l.pc = "commit" /\ r = NewRole(t, l.actor, "BUSINESS_OWNER", c)
    /\ l.pc = "commit" => NewRole(t, l.actor, "BUSINESS_OWNER", c) \in roles'

LEMMA OwnWriteStep ==
    ASSUME IInv, NEW c \in Calls, NEW l \in Call, NEW t \in TenantIds,
           OwnCall(c, l, t), OwnTenant(c, l, t), OwnMembers(c, l, t), OwnRoles(c, l, t),
           OneMembership'
    PROVE  IInv'
<1> DEFINE row == NewMember(t, l.actor, c)
           owner == NewRole(t, l.actor, "BUSINESS_OWNER", c)
<1>1. /\ calls[c] \in Call /\ calls[c].actor \in Users /\ calls[c].arg \in Slugs /\ c # Absent
  BY CreatingFacts DEF Creating, OwnCall
<1>2. calls' \in [Calls -> Call] /\ calls'[c] = l /\ \A d \in Calls \ {c} : calls'[d] = calls[d]
  BY DEF IInv, TypeOK, OwnCall
<1>3. TypeOK'
  BY <1>2 DEF TypeOK, OwnTenant, OwnMembers, OwnRoles
<1>4. /\ row.tx = c /\ row.tenant = t /\ row.user = l.actor
      /\ owner.tx = c /\ owner.tenant = t /\ owner.user = l.actor
  BY DEF NewMember, NewRole
<1> HIDE DEF row, owner
<1>5. /\ l.pc \in Waiting /\ l.actor = calls[c].actor /\ l.code = "none" /\ ~l.barred /\ l.tenant = t
      /\ calls[c].pc \in Waiting => calls[c].tenant = t
      /\ calls[c].pc = "insert owner" => l.pc = "commit"
      /\ calls[c].pc # "commit"
  BY DEF OwnCall
<1>6. /\ \A x \in TenantIds \ {t} : tenants'[x] = tenants[x] /\ founder'[x] = founder[x]
      /\ tenants'[t] # Absent /\ tenants'[t].tx = c /\ founder'[t] = l.actor
      /\ tenants[t] = Absent \/ (tenants[t].tx = c /\ founder[t] = l.actor)
  BY DEF OwnTenant
<1>7. /\ members \subseteq members'
      /\ \A m \in members' : m \in members \/ (m = row /\ l.pc \in {"insert owner", "commit"})
      /\ l.pc \in {"insert owner", "commit"} => row \in members'
  BY DEF OwnMembers, row
<1>8. /\ roles \subseteq roles'
      /\ \A r \in roles' : r \in roles \/ (r = owner /\ l.pc = "commit")
      /\ l.pc = "commit" => owner \in roles'
  BY DEF OwnRoles, owner
<1>9. \A x \in TenantIds : /\ Known(x)' <=> Known(x)
                           /\ Known(x) => x # t
  BY <1>1, <1>6 DEF Known, Exists
<1>10. \A x \in TenantIds : Known(x) => tenants'[x] = tenants[x] /\ founder'[x] = founder[x]
                                       /\ tenants[x] # Absent /\ tenants[x].tx = Absent
  BY <1>6, <1>9 DEF Known, Exists
<1>11. Stays
  BY <1>7, <1>10 DEF Stays
<1>12. OpenTransactions'
  <2>1. ASSUME NEW x \in TenantIds, tenants'[x] # Absent
        PROVE  /\ founder'[x] \in Users
               /\ tenants'[x].tx # Absent => /\ calls'[tenants'[x].tx].pc \in Waiting
                                             /\ calls'[tenants'[x].tx].tenant = x
    <3>1. CASE x = t
      BY <1>1, <1>2, <1>5, <1>6, <3>1
    <3>2. CASE x # t
      <4>1. /\ tenants'[x] = tenants[x] /\ founder'[x] = founder[x] /\ founder[x] \in Users
            /\ tenants[x].tx \in Calls \cup {Absent}
            /\ tenants[x].tx # Absent => /\ calls[tenants[x].tx].pc \in Waiting
                                         /\ calls[tenants[x].tx].tenant = x
        BY <1>6, <2>1, <3>2, TheirTransaction
      <4>2. tenants[x].tx # c
        BY <1>1, <1>5, <3>2, <4>1
      <4> QED
        BY <1>2, <4>1, <4>2
    <3> QED
      BY <3>1, <3>2
  <2>2. ASSUME NEW m \in members', m.tx # Absent
        PROVE  calls'[m.tx].pc \in {"insert owner", "commit"} /\ calls'[m.tx].tenant = m.tenant
    <3>1. CASE m \notin members
      BY <1>2, <1>4, <1>5, <1>7, <3>1
    <3>2. CASE m \in members
      <4>1. /\ m.tx \in Calls
            /\ calls[m.tx].pc \in {"insert owner", "commit"} /\ calls[m.tx].tenant = m.tenant
        BY <2>2, <3>2 DEF IInv, OpenTransactions, TypeOK, Member
      <4>2. m.tx = c => l.pc = "commit" /\ calls[c].tenant = t
        BY <1>5, <4>1, Waits
      <4> QED
        BY <1>2, <1>5, <4>1, <4>2
    <3> QED
      BY <3>1, <3>2
  <2>3. ASSUME NEW r \in roles', r.tx # Absent
        PROVE  calls'[r.tx].pc = "commit" /\ calls'[r.tx].tenant = r.tenant
    <3>1. CASE r \notin roles
      BY <1>2, <1>4, <1>5, <1>8, <3>1
    <3>2. CASE r \in roles
      <4>1. /\ r.tx \in Calls /\ calls[r.tx].pc = "commit" /\ calls[r.tx].tenant = r.tenant
        BY <2>3, <3>2 DEF IInv, OpenTransactions, TypeOK, Role
      <4> QED
        BY <1>2, <1>5, <4>1
    <3> QED
      BY <3>1, <3>2
  <2>4. ASSUME NEW d \in Calls, calls'[d].pc \in Waiting
        PROVE  /\ calls'[d].tenant \in TenantIds /\ tenants'[calls'[d].tenant] # Absent
               /\ tenants'[calls'[d].tenant].tx = d /\ founder'[calls'[d].tenant] = calls'[d].actor
               /\ calls'[d].pc \in {"insert owner", "commit"} =>
                     NewMember(calls'[d].tenant, calls'[d].actor, d) \in members'
               /\ calls'[d].pc = "commit" =>
                     NewRole(calls'[d].tenant, calls'[d].actor, "BUSINESS_OWNER", d) \in roles'
    <3>1. CASE d = c
      BY <1>2, <1>5, <1>6, <1>7, <1>8, <3>1 DEF row, owner
    <3>2. CASE d # c
      <4> DEFINE x == calls[d].tenant
                 u == calls[d].actor
      <4>1. calls'[d] = calls[d] /\ calls[d].pc \in Waiting
        BY <1>2, <2>4, <3>2
      <4>2. /\ x \in TenantIds /\ tenants[x] # Absent /\ tenants[x].tx = d /\ founder[x] = u
            /\ calls[d].pc \in {"insert owner", "commit"} => NewMember(x, u, d) \in members
            /\ calls[d].pc = "commit" => NewRole(x, u, "BUSINESS_OWNER", d) \in roles
        BY <4>1, OwnRows
      <4>3. x # t
        BY <1>6, <3>2, <4>2
      <4> QED
        BY <1>6, <1>7, <1>8, <4>1, <4>2, <4>3
    <3> QED
      BY <3>1, <3>2
  <2> QED
    BY <2>1, <2>2, <2>3, <2>4 DEF OpenTransactions, Exists
<1>13. FoundedWhole'
  <2>1. \A x \in TenantIds : Known(x)' =>
         /\ \E m \in members' : m.tenant = x /\ m.user = founder'[x] /\ m.tx = Absent
         /\ NewRole(x, founder'[x], "BUSINESS_OWNER", Absent) \in roles'
    <3>1. \A x \in TenantIds : Known(x) =>
            /\ \E m \in members : m.tenant = x /\ m.user = founder[x] /\ m.tx = Absent
            /\ NewRole(x, founder[x], "BUSINESS_OWNER", Absent) \in roles
      BY DEF IInv, FoundedWhole
    <3>2. \A x \in TenantIds : Known(x)' => Known(x) /\ founder'[x] = founder[x]
      BY <1>9, <1>10
    <3>3. \A x \in TenantIds : Known(x)' =>
            \E m \in members' : m.tenant = x /\ m.user = founder[x] /\ m.tx = Absent
      BY <1>7, <1>9, <3>1
    <3>4. \A x \in TenantIds : Known(x)' => NewRole(x, founder[x], "BUSINESS_OWNER", Absent) \in roles'
      BY <1>8, <1>9, <3>1
    <3> QED
      BY <3>2, <3>3, <3>4
  <2>2. \A r \in members' \cup roles' : r.tx = Absent => r \in members \cup roles
    BY <1>1, <1>4, <1>7, <1>8
  <2>3. \A r \in members \cup roles : r.tx = Absent => r.tenant \in TenantIds /\ Known(r.tenant)
    BY RowsFollowTheirTenant DEF Known, Exists
  <2>4. \A r \in members' \cup roles' : r.tx = Absent => Known(r.tenant)'
    BY <1>9, <2>2, <2>3
  <2> QED
    BY <2>1, <2>4 DEF FoundedWhole
<1>14. SlugTakenForCause'
  <2>1. \A d \in Calls : calls[d].code = "TENANT_SLUG_TAKEN" =>
          \E x \in TenantIds : Known(x) /\ tenants[x].slug = calls[d].arg
    BY DEF IInv, SlugTakenForCause
  <2>2. \A d \in Calls : calls'[d].code = "TENANT_SLUG_TAKEN" => calls'[d] = calls[d]
    BY <1>2, <1>5
  <2>3. \A d \in Calls : calls'[d].code = "TENANT_SLUG_TAKEN" =>
          \E x \in TenantIds : Known(x)' /\ tenants'[x].slug = calls'[d].arg
    BY <1>9, <1>10, <2>1, <2>2
  <2> QED
    BY <2>3 DEF SlugTakenForCause
<1>15. RolesOnlyForMembers'
  BY <1>4, <1>7, <1>8 DEF IInv, RolesOnlyForMembers
<1>16. OwnersAreFounders'
  <2>1. \A r \in roles : r.role = "BUSINESS_OWNER" =>
          r.user = founder[r.tenant] /\ r.tenant \in TenantIds /\ tenants[r.tenant] # Absent
    BY RowsFollowTheirTenant DEF IInv, OwnersAreFounders
  <2>2. \A r \in roles : r.role = "BUSINESS_OWNER" => r.user = founder'[r.tenant]
    BY <1>6, <2>1
  <2> QED
    BY <1>4, <1>6, <1>8, <2>2 DEF OwnersAreFounders
<1>17. RevokedIsRefused'
  BY <1>2, <1>5 DEF IInv, RevokedIsRefused
<1>18. PublicIsReady'
  <2>1. \A x \in TenantIds \ {t} : tenants'[x] # Absent /\ tenants'[x].completed => Complete(tenants'[x])
    BY <1>6 DEF IInv, PublicIsReady, Exists
  <2>2. \A x \in TenantIds : tenants'[x] # Absent /\ tenants'[x].completed =>
          tenants'[x].step /\ tenants'[x].timezone
    BY <2>1 DEF OwnTenant, Complete
  <2> QED
    BY <2>2 DEF PublicIsReady, Exists, Complete
<1>19. \A d \in Calls : LocalsOK(d)'
  <2>1. l.pc \in Creating /\ l.op = "create" /\ l.arg = calls[c].arg
    BY DEF OwnCall, Waiting, Creating
  <2> QED
    BY <1>1, <1>2, <1>5, <1>11, <2>1, LocalsPersist, CreatingIsOK
<1> QED
  BY <1>3, <1>12, <1>13, <1>14, <1>15, <1>16, <1>17, <1>18, <1>19 DEF IInv

LEMMA InsertTenantStep ==
    ASSUME IInv, NEW c \in Calls, InsertTenant(c)
    PROVE  IInv'
<1>1. calls[c].pc = "insert tenant" /\ UNCHANGED <<members, roles>>
  BY DEF InsertTenant, At
<1>2. PICK t \in TenantIds :
        /\ tenants[t] = Absent
        /\ tenants' = [tenants EXCEPT ![t] =
               [slug |-> calls[c].arg, step |-> FALSE, timezone |-> FALSE,
                completed |-> FALSE, currency |-> Absent, tx |-> c]]
        /\ founder' = [founder EXCEPT ![t] = calls[c].actor]
        /\ calls' = [calls EXCEPT ![c].pc = "read user", ![c].tenant = t]
  BY DEF InsertTenant, Exists
<1>3. /\ calls[c] \in Call /\ calls[c].op = "create" /\ calls[c].actor \in Users
      /\ calls[c].arg \in Slugs /\ calls[c].code = "none" /\ ~calls[c].barred /\ c # Absent
  BY <1>1, CreatingFacts DEF Creating, Founding
<1> DEFINE row == [slug |-> calls[c].arg, step |-> FALSE, timezone |-> FALSE,
                   completed |-> FALSE, currency |-> Absent, tx |-> c]
           l == [calls[c] EXCEPT !.pc = "read user", !.tenant = t]
<1>4. row \in Tenant /\ row.tx = c /\ row.completed = FALSE /\ row # Absent
  <2>1. row \in Tenant
    BY <1>3 DEF Tenant
  <2> QED
    BY <2>1, AbsentIsNoRow
<1>5. /\ l \in Call /\ l.pc = "read user" /\ l.tenant = t /\ l.actor = calls[c].actor
      /\ l.op = "create" /\ l.arg = calls[c].arg /\ l.code = "none" /\ ~l.barred
  BY <1>3 DEF Call, PCs, Founding
<1>6. calls' = [calls EXCEPT ![c] = l] /\ tenants' = [tenants EXCEPT ![t] = row]
  BY <1>2 DEF IInv, TypeOK
<1> HIDE DEF l, row
<1>7. OwnCall(c, l, t)
  BY <1>1, <1>5, <1>6, Waits DEF OwnCall, Founding
<1>8. OwnTenant(c, l, t)
  <2>1. tenants \in [TenantIds -> Tenant \cup {Absent}] /\ founder \in [TenantIds -> Users \cup {Absent}]
    BY DEF IInv, TypeOK
  <2>2. /\ tenants' \in [TenantIds -> Tenant \cup {Absent}]
        /\ tenants'[t] = row /\ \A x \in TenantIds \ {t} : tenants'[x] = tenants[x]
    BY <1>4, <1>6, <2>1
  <2>3. /\ founder' \in [TenantIds -> Users \cup {Absent}]
        /\ founder'[t] = l.actor /\ \A x \in TenantIds \ {t} : founder'[x] = founder[x]
    BY <1>2, <1>3, <1>5, <2>1
  <2> QED
    BY <1>2, <1>4, <2>2, <2>3 DEF OwnTenant
<1>9. OwnMembers(c, l, t) /\ OwnRoles(c, l, t)
  BY <1>1, <1>5 DEF OwnMembers, OwnRoles, IInv, TypeOK
<1>10. OneMembership'
  BY <1>1 DEF IInv, OneMembership
<1> QED
  BY <1>5, <1>7, <1>8, <1>9, <1>10, OwnWriteStep

\* The transaction's tenant stays as it is while its call goes on.
LEMMA OwnTenantStays ==
    ASSUME IInv, NEW c \in Calls, calls[c].pc \in Waiting \ {"commit"},
           NEW next \in Waiting, Goto(c, next), UNCHANGED <<tenants, founder>>,
           calls[c].pc = "insert owner" => next = "commit"
    PROVE  LET t == calls[c].tenant
               l == [calls[c] EXCEPT !.pc = next] IN
           /\ l \in Call /\ l.pc = next /\ l.actor = calls[c].actor /\ t \in TenantIds
           /\ OwnCall(c, l, t) /\ OwnTenant(c, l, t)
<1> DEFINE t == calls[c].tenant
           l == [calls[c] EXCEPT !.pc = next]
<1>1. calls[c].pc \in Founding \ {"commit"} /\ next \in PCs
  BY Waits DEF Founding, PCs
<1>2. /\ calls[c] \in Call /\ calls[c].op = "create" /\ calls[c].code = "none" /\ ~calls[c].barred
      /\ c # Absent
  BY <1>1, CreatingFacts DEF Creating
<1>3. /\ l \in Call /\ l.pc = next /\ l.actor = calls[c].actor /\ l.tenant = t
      /\ l.op = "create" /\ l.arg = calls[c].arg /\ l.code = "none" /\ ~l.barred
  BY <1>1, <1>2 DEF Call
<1>4. calls' = [calls EXCEPT ![c] = l]
  BY DEF Goto, IInv, TypeOK
<1>5. t \in TenantIds /\ tenants[t] # Absent /\ tenants[t].tx = c /\ founder[t] = calls[c].actor
  BY OwnRows
<1> HIDE DEF l, t
<1>6. OwnCall(c, l, t)
  BY <1>1, <1>3, <1>4 DEF OwnCall, t
<1>7. OwnTenant(c, l, t)
  BY <1>3, <1>5 DEF OwnTenant, IInv, TypeOK, PublicIsReady, Exists
<1> QED
  BY <1>3, <1>5, <1>6, <1>7 DEF l, t

LEMMA ReadUserStep ==
    ASSUME IInv, NEW c \in Calls, ReadUser(c)
    PROVE  IInv'
<1> DEFINE t == calls[c].tenant
           l == [calls[c] EXCEPT !.pc = "insert member"]
<1>1. /\ calls[c].pc = "read user" /\ Goto(c, "insert member")
      /\ UNCHANGED <<tenants, members, roles, founder>>
  BY DEF ReadUser, At
<1>2. /\ l \in Call /\ l.pc = "insert member" /\ t \in TenantIds
      /\ OwnCall(c, l, t) /\ OwnTenant(c, l, t)
  BY <1>1, Waits, OwnTenantStays
<1>3. OwnMembers(c, l, t) /\ OwnRoles(c, l, t)
  BY <1>1, <1>2 DEF OwnMembers, OwnRoles, IInv, TypeOK
<1>4. OneMembership'
  BY <1>1 DEF IInv, OneMembership
<1> QED
  BY <1>2, <1>3, <1>4, OwnWriteStep

\* Nobody is a member of the new tenant yet.
LEMMA InsertMemberStep ==
    ASSUME IInv, NEW c \in Calls, InsertMember(c)
    PROVE  IInv'
<1> DEFINE t == calls[c].tenant
           l == [calls[c] EXCEPT !.pc = "insert owner"]
           row == NewMember(t, calls[c].actor, c)
<1>1. /\ calls[c].pc = "insert member" /\ Goto(c, "insert owner")
      /\ members' = members \cup {row} /\ UNCHANGED <<tenants, roles, founder>>
  BY DEF InsertMember, At
<1>2. /\ l \in Call /\ l.pc = "insert owner" /\ l.actor = calls[c].actor /\ t \in TenantIds
      /\ OwnCall(c, l, t) /\ OwnTenant(c, l, t)
  BY <1>1, Waits, OwnTenantStays
<1>3. calls[c].actor \in Users /\ c # Absent
  BY <1>1, CreatingFacts DEF Creating, Founding
<1>4. row \in Member /\ row.tenant = t /\ row.user = calls[c].actor
  BY <1>2, <1>3 DEF NewMember, Member
<1>5. \A m \in members : m.tenant # t
  <2>1. tenants[t].tx = c
    BY <1>1, Waits, OwnRows
  <2>2. \A m \in members : m.tx # c
    BY <1>1, <1>3 DEF IInv, OpenTransactions
  <2> QED
    BY <2>1, <2>2, RowsFollowTheirTenant
<1> HIDE DEF l
<1>6. OwnRoles(c, l, t)
  BY <1>1, <1>2 DEF OwnRoles, IInv, TypeOK
<1>7. OwnMembers(c, l, t)
  <2>1. members' \subseteq Member
    BY <1>1, <1>4 DEF IInv, TypeOK
  <2> QED
    BY <1>1, <1>2, <2>1 DEF OwnMembers
<1> HIDE DEF row, t
<1>8. OneMembership'
  BY <1>1, <1>4, <1>5 DEF IInv, OneMembership
<1> QED
  BY <1>2, <1>6, <1>7, <1>8, OwnWriteStep

LEMMA InsertOwnerStep ==
    ASSUME IInv, NEW c \in Calls, InsertOwner(c)
    PROVE  IInv'
<1> DEFINE t == calls[c].tenant
           l == [calls[c] EXCEPT !.pc = "commit"]
           row == NewRole(t, calls[c].actor, "BUSINESS_OWNER", c)
<1>1. /\ calls[c].pc = "insert owner" /\ Goto(c, "commit")
      /\ roles' = roles \cup {row} /\ UNCHANGED <<tenants, members, founder>>
  BY DEF InsertOwner, At
<1>2. /\ l \in Call /\ l.pc = "commit" /\ l.actor = calls[c].actor /\ t \in TenantIds
      /\ OwnCall(c, l, t) /\ OwnTenant(c, l, t)
  BY <1>1, Waits, OwnTenantStays
<1>3. calls[c].actor \in Users
  BY <1>1, CreatingFacts DEF Creating, Founding
<1>4. row \in Role
  BY <1>2, <1>3 DEF NewRole, Role, RoleNames
<1>5. NewMember(t, calls[c].actor, c) \in members
  BY <1>1, Waits, OwnRows
<1> HIDE DEF l
<1>6. OwnMembers(c, l, t)
  <2>1. members' \subseteq Member
    BY <1>1 DEF IInv, TypeOK
  <2> QED
    BY <1>1, <1>2, <1>5, <2>1 DEF OwnMembers
<1>7. OwnRoles(c, l, t)
  <2>1. roles' \subseteq Role
    BY <1>1, <1>4 DEF IInv, TypeOK
  <2> QED
    BY <1>1, <1>2, <2>1 DEF OwnRoles
<1>8. OneMembership'
  BY <1>1 DEF IInv, OneMembership
<1> QED
  BY <1>2, <1>6, <1>7, <1>8, OwnWriteStep

\* The commit makes the transaction's rows everybody's at once.
LEMMA CommitStep ==
    ASSUME IInv, NEW c \in Calls, Commit(c)
    PROVE  IInv'
<1> DEFINE t == calls[c].tenant
           u == calls[c].actor
           row == [tenants[t] EXCEPT !.tx = Absent]
           new(m) == IF m.tx = c THEN [m EXCEPT !.tx = Absent] ELSE m
<1>1. /\ calls[c].pc = "commit" /\ (\E code \in {"OK", "INTERNAL_ERROR"} : Answer(c, code))
      /\ tenants' = [tenants EXCEPT ![t] = row]
      /\ members' = { new(m) : m \in members } /\ roles' = { new(r) : r \in roles }
      /\ founder' = founder
  <2>1. tenants' = [tenants EXCEPT ![t] = [@ EXCEPT !.tx = Absent]]
    BY DEF Commit
  <2>2. tenants' = [tenants EXCEPT ![t] = row]
    BY <2>1 DEF IInv, TypeOK
  <2> QED
    BY <2>2 DEF Commit, Committed, At
<1>2. c # Absent /\ ~calls[c].barred
  BY <1>1, CreatingFacts DEF Creating, Founding
<1>3. /\ t \in TenantIds /\ tenants[t] # Absent /\ tenants[t].tx = c /\ founder[t] = u
      /\ NewMember(t, u, c) \in members /\ NewRole(t, u, "BUSINESS_OWNER", c) \in roles
  BY <1>1, Waits, OwnRows
<1>4. /\ calls' \in [Calls -> Call] /\ \A d \in Calls \ {c} : calls'[d] = calls[d]
      /\ calls'[c].pc = "done" /\ calls'[c].code # "TENANT_SLUG_TAKEN" /\ ~calls'[c].barred
  BY <1>1, <1>2, TypeOfCalls DEF Codes
<1>5. /\ row \in Tenant /\ row # Absent /\ row.tx = Absent
      /\ row.slug = tenants[t].slug /\ row.step = tenants[t].step
      /\ row.timezone = tenants[t].timezone /\ row.completed = tenants[t].completed
  <2>1. tenants[t] \in Tenant
    BY <1>3, TheirTransaction
  <2>2. row \in Tenant
    BY <2>1 DEF Tenant
  <2> QED
    BY <2>1, <2>2, AbsentIsNoRow DEF Tenant
<1>6. \A m \in members : /\ new(m) \in Member /\ new(m).tenant = m.tenant /\ new(m).user = m.user
                         /\ new(m).status = m.status
                         /\ m.tx = c => new(m).tx = Absent
                         /\ m.tx # c => new(m) = m
  BY DEF IInv, TypeOK, Member
<1>7. \A r \in roles : /\ new(r) \in Role /\ new(r).tenant = r.tenant /\ new(r).user = r.user
                       /\ new(r).role = r.role
                       /\ r.tx = c => new(r).tx = Absent
                       /\ r.tx # c => new(r) = r
  BY DEF IInv, TypeOK, Role
<1>8. /\ new(NewMember(t, u, c)) = NewMember(t, u, Absent)
      /\ new(NewRole(t, u, "BUSINESS_OWNER", c)) = NewRole(t, u, "BUSINESS_OWNER", Absent)
  BY DEF NewMember, NewRole
<1> HIDE DEF row, new, t, u
<1>9. tenants'[t] = row /\ \A x \in TenantIds \ {t} : tenants'[x] = tenants[x]
  BY <1>1, <1>3 DEF IInv, TypeOK
<1>10. TypeOK'
  BY <1>1, <1>4, <1>5, <1>6, <1>7 DEF IInv, TypeOK
<1>11. \A x \in TenantIds : /\ tenants'[x] # Absent <=> tenants[x] # Absent
                            /\ Known(x)' <=> (Known(x) \/ x = t)
                            /\ Known(x) => x # t
  BY <1>2, <1>3, <1>5, <1>9 DEF Known, Exists
<1>12. \A x \in TenantIds : Known(x) => /\ tenants'[x] = tenants[x]
                                        /\ tenants[x] # Absent /\ tenants[x].tx = Absent
  BY <1>9, <1>11 DEF Known, Exists
<1>13. Stays
  <2>1. \A m \in members : m.tx = Absent => m \in members'
    BY <1>1, <1>2, <1>6
  <2> QED
    BY <1>1, <1>12, <2>1 DEF Stays
<1>14. OneMembership'
  <2>1. \A m, n \in members : m.tenant = n.tenant /\ m.user = n.user => m = n
    BY DEF IInv, OneMembership
  <2>2. \A m, n \in members : new(m).tenant = new(n).tenant /\ new(m).user = new(n).user
                              => new(m) = new(n)
    BY <1>6, <2>1
  <2> QED
    BY <1>1, <2>2 DEF OneMembership
<1>15. OpenTransactions'
  <2>1. ASSUME NEW x \in TenantIds, tenants'[x] # Absent
        PROVE  /\ founder'[x] \in Users
               /\ tenants'[x].tx # Absent => /\ calls'[tenants'[x].tx].pc \in Waiting
                                             /\ calls'[tenants'[x].tx].tenant = x
    <3>1. /\ founder[x] \in Users /\ tenants[x].tx \in Calls \cup {Absent}
          /\ tenants[x].tx # Absent => /\ calls[tenants[x].tx].pc \in Waiting
                                       /\ calls[tenants[x].tx].tenant = x
      BY <1>11, <2>1, TheirTransaction
    <3>2. CASE x = t
      BY <1>1, <1>5, <1>9, <3>1, <3>2
    <3>3. CASE x # t
      <4>1. tenants[x].tx # c
        BY <1>2, <3>1, <3>3 DEF t
      <4> QED
        BY <1>1, <1>4, <1>9, <3>1, <3>3, <4>1
    <3> QED
      BY <3>2, <3>3
  <2>2. ASSUME NEW m \in members', m.tx # Absent
        PROVE  calls'[m.tx].pc \in {"insert owner", "commit"} /\ calls'[m.tx].tenant = m.tenant
    <3>1. m \in members /\ m.tx # c
      BY <1>1, <1>6, <2>2
    <3>2. /\ m.tx \in Calls
          /\ calls[m.tx].pc \in {"insert owner", "commit"} /\ calls[m.tx].tenant = m.tenant
      BY <2>2, <3>1 DEF IInv, OpenTransactions, TypeOK, Member
    <3> QED
      BY <1>4, <3>1, <3>2
  <2>3. ASSUME NEW r \in roles', r.tx # Absent
        PROVE  calls'[r.tx].pc = "commit" /\ calls'[r.tx].tenant = r.tenant
    <3>1. r \in roles /\ r.tx # c
      BY <1>1, <1>7, <2>3
    <3>2. r.tx \in Calls /\ calls[r.tx].pc = "commit" /\ calls[r.tx].tenant = r.tenant
      BY <2>3, <3>1 DEF IInv, OpenTransactions, TypeOK, Role
    <3> QED
      BY <1>4, <3>1, <3>2
  <2>4. ASSUME NEW d \in Calls, calls'[d].pc \in Waiting
        PROVE  /\ calls'[d].tenant \in TenantIds /\ tenants'[calls'[d].tenant] # Absent
               /\ tenants'[calls'[d].tenant].tx = d /\ founder'[calls'[d].tenant] = calls'[d].actor
               /\ calls'[d].pc \in {"insert owner", "commit"} =>
                     NewMember(calls'[d].tenant, calls'[d].actor, d) \in members'
               /\ calls'[d].pc = "commit" =>
                     NewRole(calls'[d].tenant, calls'[d].actor, "BUSINESS_OWNER", d) \in roles'
    <3> DEFINE x == calls[d].tenant
               v == calls[d].actor
    <3>1. d # c /\ calls'[d] = calls[d] /\ calls[d].pc \in Waiting
      BY <1>4, <2>4, Waits
    <3>2. /\ x \in TenantIds /\ tenants[x] # Absent /\ tenants[x].tx = d /\ founder[x] = v
          /\ calls[d].pc \in {"insert owner", "commit"} => NewMember(x, v, d) \in members
          /\ calls[d].pc = "commit" => NewRole(x, v, "BUSINESS_OWNER", d) \in roles
      BY <3>1, OwnRows
    <3>3. x # t
      BY <1>3, <3>1, <3>2
    <3>4. NewMember(x, v, d).tx = d /\ NewRole(x, v, "BUSINESS_OWNER", d).tx = d
      BY DEF NewMember, NewRole
    <3>5. /\ NewMember(x, v, d) \in members => NewMember(x, v, d) \in members'
          /\ NewRole(x, v, "BUSINESS_OWNER", d) \in roles => NewRole(x, v, "BUSINESS_OWNER", d) \in roles'
      BY <1>1, <1>6, <1>7, <3>1, <3>4
    <3> QED
      BY <1>1, <1>9, <3>1, <3>2, <3>3, <3>5
  <2> QED
    BY <2>1, <2>2, <2>3, <2>4 DEF OpenTransactions, Exists
<1>16. FoundedWhole'
  <2>1. \A x \in TenantIds : Known(x) =>
          /\ \E m \in members : m.tenant = x /\ m.user = founder[x] /\ m.tx = Absent
          /\ NewRole(x, founder[x], "BUSINESS_OWNER", Absent) \in roles
    BY DEF IInv, FoundedWhole
  <2>2. \A x \in TenantIds : Known(x)' =>
          \E m \in members' : m.tenant = x /\ m.user = founder'[x] /\ m.tx = Absent
    <3>1. \A m \in members : m.tx = Absent => m \in members'
      BY <1>1, <1>2, <1>6
    <3>2. NewMember(t, u, Absent) \in members'
      BY <1>1, <1>3, <1>8
    <3>3. NewMember(t, u, Absent).tenant = t /\ NewMember(t, u, Absent).user = u
          /\ NewMember(t, u, Absent).tx = Absent
      BY DEF NewMember
    <3> QED
      BY <1>1, <1>3, <1>11, <2>1, <3>1, <3>2, <3>3
  <2>3. \A x \in TenantIds : Known(x)' => NewRole(x, founder'[x], "BUSINESS_OWNER", Absent) \in roles'
    <3>1. \A x \in TenantIds : NewRole(x, founder[x], "BUSINESS_OWNER", Absent).tx = Absent
      BY DEF NewRole
    <3>2. \A r \in roles : r.tx = Absent => r \in roles'
      BY <1>1, <1>2, <1>7
    <3>3. NewRole(t, u, "BUSINESS_OWNER", Absent) \in roles'
      BY <1>1, <1>3, <1>8
    <3> QED
      BY <1>1, <1>3, <1>11, <2>1, <3>1, <3>2, <3>3
  <2>4. \A m \in members \cup roles : /\ m.tenant \in TenantIds
                                      /\ m.tx = Absent => Known(m.tenant)
                                      /\ m.tx = c => m.tenant = t
    <3>1. \A m \in members \cup roles : /\ m.tenant \in TenantIds
                                        /\ m.tx = Absent => Known(m.tenant)
      BY RowsFollowTheirTenant DEF Known, Exists
    <3>2. \A m \in members \cup roles : m.tx = c => m.tenant = t
      BY <1>2 DEF IInv, OpenTransactions, t
    <3> QED
      BY <3>1, <3>2
  <2>5. \A m \in members' : m.tx = Absent => Known(m.tenant)'
    BY <1>1, <1>6, <1>11, <2>4
  <2>6. \A r \in roles' : r.tx = Absent => Known(r.tenant)'
    BY <1>1, <1>7, <1>11, <2>4
  <2> QED
    BY <2>2, <2>3, <2>5, <2>6 DEF FoundedWhole
<1>17. SlugTakenForCause'
  <2>1. \A d \in Calls : calls[d].code = "TENANT_SLUG_TAKEN" =>
          \E x \in TenantIds : Known(x) /\ tenants[x].slug = calls[d].arg
    BY DEF IInv, SlugTakenForCause
  <2>2. \A d \in Calls : calls'[d].code = "TENANT_SLUG_TAKEN" => calls'[d] = calls[d]
    BY <1>4
  <2>3. \A d \in Calls : calls'[d].code = "TENANT_SLUG_TAKEN" =>
          \E x \in TenantIds : Known(x)' /\ tenants'[x].slug = calls'[d].arg
    BY <1>11, <1>12, <2>1, <2>2
  <2> QED
    BY <2>3 DEF SlugTakenForCause
<1>18. RolesOnlyForMembers'
  <2>1. \A r \in roles : \E m \in members : m.tenant = r.tenant /\ m.user = r.user
    BY DEF IInv, RolesOnlyForMembers
  <2>2. \A r \in roles : \E m \in members : new(m).tenant = new(r).tenant /\ new(m).user = new(r).user
    BY <1>6, <1>7, <2>1
  <2> QED
    BY <1>1, <2>2 DEF RolesOnlyForMembers
<1>19. OwnersAreFounders'
  BY <1>1, <1>7 DEF IInv, OwnersAreFounders
<1>20. RevokedIsRefused'
  BY <1>4 DEF IInv, RevokedIsRefused
<1>21. PublicIsReady'
  <2>1. \A x \in TenantIds : tenants[x] # Absent /\ tenants[x].completed =>
          tenants[x].step /\ tenants[x].timezone
    BY DEF IInv, PublicIsReady, Exists, Complete
  <2> QED
    BY <1>3, <1>5, <1>9, <2>1 DEF PublicIsReady, Exists, Complete
<1>22. \A d \in Calls : LocalsOK(d)'
  BY <1>4, <1>13, LocalsPersist, EndedIsOK
<1> QED
  BY <1>10, <1>14, <1>15, <1>16, <1>17, <1>18, <1>19, <1>20, <1>21, <1>22 DEF IInv

\* A rollback takes the transaction's rows away, and nobody else had any of
\* that tenant.
LEMMA RollBackStep ==
    ASSUME IInv, NEW c \in Calls, calls[c].pc \in Founding,
           NEW code \in {"TENANT_SLUG_TAKEN", "INTERNAL_ERROR"}, RollBack(c, code),
           code = "TENANT_SLUG_TAKEN" =>
              \E x \in TenantIds : Known(x) /\ tenants[x].slug = calls[c].arg
    PROVE  IInv'
<1>1. c # Absent /\ ~calls[c].barred /\ calls[c].arg \in Slugs
  BY CreatingFacts DEF Creating
<1>2. /\ calls' \in [Calls -> Call] /\ \A d \in Calls \ {c} : calls'[d] = calls[d]
      /\ calls'[c].pc = "done" /\ calls'[c].code = code /\ ~calls'[c].barred
      /\ code = "TENANT_SLUG_TAKEN" => calls'[c].arg = calls[c].arg
  BY <1>1, TypeOfCalls DEF RollBack, Codes
<1>3. /\ \A m : m \in members' <=> m \in members /\ m.tx # c
      /\ \A r : r \in roles' <=> r \in roles /\ r.tx # c
  BY DEF RollBack, Others
<1>4. \A x \in TenantIds :
        \/ /\ tenants[x] # Absent /\ tenants[x].tx = c
           /\ tenants'[x] = Absent /\ founder'[x] = Absent
        \/ /\ ~(tenants[x] # Absent /\ tenants[x].tx = c)
           /\ tenants'[x] = tenants[x] /\ founder'[x] = founder[x]
  BY DEF RollBack, Exists
<1>5. TypeOK'
  <2>1. tenants' \in [TenantIds -> Tenant \cup {Absent}]
    BY <1>4 DEF RollBack, IInv, TypeOK
  <2>2. founder' \in [TenantIds -> Users \cup {Absent}]
    BY <1>4 DEF RollBack, IInv, TypeOK
  <2> QED
    BY <1>2, <1>3, <2>1, <2>2 DEF IInv, TypeOK
<1>6. \A x \in TenantIds : /\ Known(x)' <=> Known(x)
                           /\ Known(x) => /\ tenants'[x] = tenants[x] /\ founder'[x] = founder[x]
                                          /\ tenants[x] # Absent /\ tenants[x].tx = Absent
  BY <1>1, <1>4 DEF Known, Exists
<1>7. Stays
  <2>1. \A m \in members : m.tx = Absent => m \in members'
    BY <1>1, <1>3
  <2> QED
    BY <1>6, <2>1 DEF Stays
<1>8. \A m \in members \cup roles :
        /\ m.tenant \in TenantIds /\ tenants[m.tenant] # Absent /\ m.tx = tenants[m.tenant].tx
        /\ m.tx # c => tenants'[m.tenant] = tenants[m.tenant] /\ founder'[m.tenant] = founder[m.tenant]
  <2>1. \A m \in members \cup roles :
          m.tenant \in TenantIds /\ tenants[m.tenant] # Absent /\ m.tx = tenants[m.tenant].tx
    BY RowsFollowTheirTenant
  <2> QED
    BY <1>4, <2>1
<1>9. OneMembership'
  BY <1>3 DEF IInv, OneMembership
<1>10. OpenTransactions'
  <2>1. ASSUME NEW x \in TenantIds, tenants'[x] # Absent
        PROVE  /\ founder'[x] \in Users
               /\ tenants'[x].tx # Absent => /\ calls'[tenants'[x].tx].pc \in Waiting
                                             /\ calls'[tenants'[x].tx].tenant = x
    <3>1. tenants[x] # Absent /\ tenants[x].tx # c /\ tenants'[x] = tenants[x] /\ founder'[x] = founder[x]
      BY <1>4, <2>1
    <3>2. /\ founder[x] \in Users /\ tenants[x].tx \in Calls \cup {Absent}
          /\ tenants[x].tx # Absent => /\ calls[tenants[x].tx].pc \in Waiting
                                       /\ calls[tenants[x].tx].tenant = x
      BY <3>1, TheirTransaction
    <3> QED
      BY <1>2, <3>1, <3>2
  <2>2. ASSUME NEW m \in members', m.tx # Absent
        PROVE  calls'[m.tx].pc \in {"insert owner", "commit"} /\ calls'[m.tx].tenant = m.tenant
    <3>1. m \in members /\ m.tx # c
      BY <1>3
    <3>2. /\ m.tx \in Calls
          /\ calls[m.tx].pc \in {"insert owner", "commit"} /\ calls[m.tx].tenant = m.tenant
      BY <2>2, <3>1 DEF IInv, OpenTransactions, TypeOK, Member
    <3> QED
      BY <1>2, <3>1, <3>2
  <2>3. ASSUME NEW r \in roles', r.tx # Absent
        PROVE  calls'[r.tx].pc = "commit" /\ calls'[r.tx].tenant = r.tenant
    <3>1. r \in roles /\ r.tx # c
      BY <1>3
    <3>2. r.tx \in Calls /\ calls[r.tx].pc = "commit" /\ calls[r.tx].tenant = r.tenant
      BY <2>3, <3>1 DEF IInv, OpenTransactions, TypeOK, Role
    <3> QED
      BY <1>2, <3>1, <3>2
  <2>4. ASSUME NEW d \in Calls, calls'[d].pc \in Waiting
        PROVE  /\ calls'[d].tenant \in TenantIds /\ tenants'[calls'[d].tenant] # Absent
               /\ tenants'[calls'[d].tenant].tx = d /\ founder'[calls'[d].tenant] = calls'[d].actor
               /\ calls'[d].pc \in {"insert owner", "commit"} =>
                     NewMember(calls'[d].tenant, calls'[d].actor, d) \in members'
               /\ calls'[d].pc = "commit" =>
                     NewRole(calls'[d].tenant, calls'[d].actor, "BUSINESS_OWNER", d) \in roles'
    <3> DEFINE x == calls[d].tenant
               v == calls[d].actor
    <3>1. d # c /\ calls'[d] = calls[d] /\ calls[d].pc \in Waiting
      BY <1>2, <2>4, Waits
    <3>2. /\ x \in TenantIds /\ tenants[x] # Absent /\ tenants[x].tx = d /\ founder[x] = v
          /\ calls[d].pc \in {"insert owner", "commit"} => NewMember(x, v, d) \in members
          /\ calls[d].pc = "commit" => NewRole(x, v, "BUSINESS_OWNER", d) \in roles
      BY <3>1, OwnRows
    <3>3. tenants'[x] = tenants[x] /\ founder'[x] = founder[x]
      BY <1>4, <3>1, <3>2
    <3>4. NewMember(x, v, d).tx = d /\ NewRole(x, v, "BUSINESS_OWNER", d).tx = d
      BY DEF NewMember, NewRole
    <3>5. /\ NewMember(x, v, d) \in members => NewMember(x, v, d) \in members'
          /\ NewRole(x, v, "BUSINESS_OWNER", d) \in roles => NewRole(x, v, "BUSINESS_OWNER", d) \in roles'
      BY <1>3, <3>1, <3>4
    <3> QED
      BY <3>1, <3>2, <3>3, <3>5
  <2> QED
    BY <2>1, <2>2, <2>3, <2>4 DEF OpenTransactions, Exists
<1>11. FoundedWhole'
  <2>1. \A x \in TenantIds : Known(x) =>
          /\ \E m \in members : m.tenant = x /\ m.user = founder[x] /\ m.tx = Absent
          /\ NewRole(x, founder[x], "BUSINESS_OWNER", Absent) \in roles
    BY DEF IInv, FoundedWhole
  <2>2. \A x \in TenantIds : Known(x)' =>
          \E m \in members' : m.tenant = x /\ m.user = founder'[x] /\ m.tx = Absent
    BY <1>1, <1>3, <1>6, <2>1
  <2>3. \A x \in TenantIds : Known(x)' => NewRole(x, founder'[x], "BUSINESS_OWNER", Absent) \in roles'
    <3>1. \A x \in TenantIds : NewRole(x, founder[x], "BUSINESS_OWNER", Absent).tx = Absent
      BY DEF NewRole
    <3> QED
      BY <1>1, <1>3, <1>6, <2>1, <3>1
  <2>4. \A m \in members' \cup roles' : m.tx = Absent => m.tenant \in TenantIds /\ Known(m.tenant)
    BY <1>3, <1>8 DEF Known, Exists
  <2>5. \A m \in members' \cup roles' : m.tx = Absent => Known(m.tenant)'
    BY <1>6, <2>4
  <2> QED
    BY <2>2, <2>3, <2>5 DEF FoundedWhole
<1>12. SlugTakenForCause'
  <2>1. \A d \in Calls : calls[d].code = "TENANT_SLUG_TAKEN" =>
          \E x \in TenantIds : Known(x) /\ tenants[x].slug = calls[d].arg
    BY DEF IInv, SlugTakenForCause
  <2>2. \A d \in Calls : calls'[d].code = "TENANT_SLUG_TAKEN" =>
          \E x \in TenantIds : Known(x) /\ tenants[x].slug = calls'[d].arg
    BY <1>2, <2>1
  <2>3. \A d \in Calls : calls'[d].code = "TENANT_SLUG_TAKEN" =>
          \E x \in TenantIds : Known(x)' /\ tenants'[x].slug = calls'[d].arg
    BY <1>6, <2>2
  <2> QED
    BY <2>3 DEF SlugTakenForCause
<1>13. RolesOnlyForMembers'
  <2>1. \A r \in roles : \E m \in members : m.tenant = r.tenant /\ m.user = r.user
    BY DEF IInv, RolesOnlyForMembers
  <2>2. \A r \in roles, m \in members : m.tenant = r.tenant => m.tx = r.tx
    BY <1>8
  <2>3. \A r \in roles' : \E m \in members' : m.tenant = r.tenant /\ m.user = r.user
    BY <1>3, <2>1, <2>2
  <2> QED
    BY <2>3 DEF RolesOnlyForMembers
<1>14. OwnersAreFounders'
  BY <1>3, <1>8 DEF IInv, OwnersAreFounders
<1>15. RevokedIsRefused'
  BY <1>2 DEF IInv, RevokedIsRefused
<1>16. PublicIsReady'
  <2>1. \A x \in TenantIds : tenants[x] # Absent /\ tenants[x].completed =>
          tenants[x].step /\ tenants[x].timezone
    BY DEF IInv, PublicIsReady, Exists, Complete
  <2> QED
    BY <1>4, <2>1 DEF PublicIsReady, Exists, Complete
<1>17. \A d \in Calls : LocalsOK(d)'
  BY <1>2, <1>7, LocalsPersist, EndedIsOK
<1> QED
  BY <1>5, <1>9, <1>10, <1>11, <1>12, <1>13, <1>14, <1>15, <1>16, <1>17 DEF IInv

LEMMA FoundStep ==
    ASSUME IInv, NEW c \in Calls, Found(c) \/ Fail(c)
    PROVE  IInv'
<1>1. ASSUME RefuseSlug(c)
      PROVE  IInv'
  <2>1. calls[c].pc \in Founding
    BY <1>1 DEF RefuseSlug, At, Founding
  <2> QED
    BY <1>1, <2>1, RollBackStep DEF RefuseSlug, HasSlug, Known
<1>2. ASSUME Fail(c)
      PROVE  IInv'
  BY <1>2, RollBackStep DEF Fail, Held
<1> QED
  BY <1>1, <1>2, BeginStep, InsertTenantStep, ReadUserStep, InsertMemberStep, InsertOwnerStep,
     CommitStep DEF Found

-----------------------------------------------------------------------------
(***************************************************************************)
(* The theorems.                                                           *)
(***************************************************************************)
LEMMA UnchangedStep ==
    ASSUME IInv, UNCHANGED vars
    PROVE  IInv'
<1>1. UNCHANGED tenants /\ UNCHANGED members /\ UNCHANGED roles /\ UNCHANGED calls /\ UNCHANGED founder
  BY DEF vars
<1>2. TypeOK' /\ OneMembership'
  BY <1>1 DEF IInv, TypeOK, OneMembership
<1>3. OpenTransactions'
  BY <1>1 DEF IInv, OpenTransactions, Exists
<1>4. FoundedWhole' /\ SlugTakenForCause'
  BY <1>1 DEF IInv, FoundedWhole, SlugTakenForCause, Known, Exists
<1>5. RolesOnlyForMembers' /\ OwnersAreFounders' /\ RevokedIsRefused'
  BY <1>1 DEF IInv, RolesOnlyForMembers, OwnersAreFounders, RevokedIsRefused
<1>6. PublicIsReady'
  BY <1>1 DEF IInv, PublicIsReady, Exists, Complete
<1>7. \A c \in Calls : LocalsOK(c)'
  BY <1>1, ZenonT(40) DEF IInv, LocalsOK, Running, Known, Exists, Barred, Complete, Row, IsMember
<1> QED
  BY <1>2, <1>3, <1>4, <1>5, <1>6, <1>7 DEF IInv

LEMMA NextStep == IInv /\ [Next]_vars => IInv'
<1> SUFFICES ASSUME IInv, [Next]_vars
             PROVE  IInv'
  OBVIOUS
<1>1. CASE UNCHANGED vars
  BY <1>1, UnchangedStep
<1>2. CASE Next
  <2>1. PICK c \in Calls : CallCreate(c) \/ CallGuarded(c) \/ Step(c) \/ Fail(c)
    BY <1>2 DEF Next
  <2> QED
    BY <2>1, CallCreateStep, CallGuardedStep, FoundStep, OperateStep DEF Step
<1> QED
  BY <1>1, <1>2

\* Whatever requests run, and whichever transactions are rolled back, the
\* rows, and what each call has read of them, stay as the invariant says.
THEOREM TenancyInvariant == Spec => []IInv
<1>1. Init => IInv
  BY TenancyInit
<1>2. IInv /\ [Next]_vars => IInv'
  BY NextStep
<1> QED
  BY <1>1, <1>2, PTL DEF Spec

\* CreateTenantService's promise: a tenant anyone can see has its founder as
\* member and owner, and nothing is left of one that was rolled back.
THEOREM TenantsAreFoundedWhole == Spec => []FoundedWhole
<1>1. IInv => FoundedWhole
  BY DEF IInv
<1> QED
  BY <1>1, TenancyInvariant, PTL

\* The tenant-context middleware refuses whoever was revoked before the
\* request began, whatever roles are left.
THEOREM RevokedAreRefused == Spec => []RevokedIsRefused
<1>1. IInv => RevokedIsRefused
  BY DEF IInv
<1> QED
  BY <1>1, TenancyInvariant, PTL

\* Completion is judged on a row read before the UPDATE, and yet a tenant is
\* never public without a step saved and a timezone set.
THEOREM PublicTenantsAreReady == Spec => []PublicIsReady
<1>1. IInv => PublicIsReady
  BY DEF IInv
<1> QED
  BY <1>1, TenancyInvariant, PTL

-----------------------------------------------------------------------------
(***************************************************************************)
(* Who may change a tenant that is committed.                              *)
(***************************************************************************)
Untouched(t) ==
    /\ tenants'[t] = tenants[t]
    /\ Of(t, members') = Of(t, members)
    /\ Of(t, roles') = Of(t, roles)

\* No statement of a transaction, and no call that only begins, reads or
\* answers, touches it.
LEMMA TransactionsTouchTheirOwn ==
    ASSUME IInv, NEW c \in Calls, CallCreate(c) \/ CallGuarded(c) \/ Found(c) \/ Fail(c),
           NEW t \in TenantIds, Known(t)
    PROVE  Untouched(t)
<1>1. tenants[t] # Absent /\ tenants[t].tx = Absent
  BY DEF Known, Exists
<1>2. ASSUME UNCHANGED <<tenants, members, roles>>
      PROVE  Untouched(t)
  BY <1>2 DEF Untouched
<1>3. ASSUME c # Absent
      PROVE  \A row \in members \cup roles : row.tenant = t => row.tx # c
  BY <1>1, <1>3, RowsFollowTheirTenant
<1>4. ASSUME calls[c].pc \in Waiting
      PROVE  c # Absent /\ calls[c].tenant # t
  <2>1. calls[c].pc \in Creating
    BY <1>4 DEF Waiting, Creating
  <2>2. c # Absent
    BY <2>1, CreatingFacts
  <2>3. tenants[calls[c].tenant].tx = c
    BY <1>4, OwnRows
  <2> QED
    BY <1>1, <2>2, <2>3
<1>5. CASE CallCreate(c) \/ CallGuarded(c) \/ Begin(c) \/ ReadUser(c)
  BY <1>2, <1>5 DEF CallCreate, CallGuarded, Begin, ReadUser
<1>6. ASSUME InsertTenant(c)
      PROVE  Untouched(t)
  BY <1>1, <1>6 DEF InsertTenant, Exists, Untouched, IInv, TypeOK
<1>7. ASSUME InsertMember(c)
      PROVE  Untouched(t)
  <2>1. calls[c].tenant # t
    BY <1>4, <1>7, Waits DEF InsertMember, At
  <2>2. NewMember(calls[c].tenant, calls[c].actor, c).tenant # t
    BY <2>1 DEF NewMember
  <2>3. Of(t, members') = Of(t, members)
    BY <1>7, <2>2 DEF InsertMember, Of
  <2> QED
    BY <1>7, <2>3 DEF InsertMember, Untouched
<1>8. ASSUME InsertOwner(c)
      PROVE  Untouched(t)
  <2>1. calls[c].tenant # t
    BY <1>4, <1>8, Waits DEF InsertOwner, At
  <2>2. NewRole(calls[c].tenant, calls[c].actor, "BUSINESS_OWNER", c).tenant # t
    BY <2>1 DEF NewRole
  <2>3. Of(t, roles') = Of(t, roles)
    BY <1>8, <2>2 DEF InsertOwner, Of
  <2> QED
    BY <1>8, <2>3 DEF InsertOwner, Untouched
<1>9. ASSUME Commit(c)
      PROVE  Untouched(t)
  <2>1. c # Absent /\ calls[c].tenant # t
    BY <1>4, <1>9, Waits DEF Commit, At
  <2>2. tenants'[t] = tenants[t]
    BY <1>9, <2>1 DEF Commit, IInv, TypeOK
  <2>3. \A row \in members \cup roles : row.tx = c => row.tenant # t
    BY <1>3, <2>1
  <2>4. \A row \in members : [row EXCEPT !.tx = Absent].tenant = row.tenant
    BY DEF IInv, TypeOK, Member
  <2>5. \A row \in roles : [row EXCEPT !.tx = Absent].tenant = row.tenant
    BY DEF IInv, TypeOK, Role
  <2>6. Of(t, Committed(c, members)) = Of(t, members)
    BY <2>3, <2>4 DEF Of, Committed
  <2>7. Of(t, Committed(c, roles)) = Of(t, roles)
    BY <2>3, <2>5 DEF Of, Committed
  <2> QED
    BY <1>9, <2>2, <2>6, <2>7 DEF Commit, Untouched
<1>10. ASSUME RefuseSlug(c) \/ Fail(c)
       PROVE  Untouched(t)
  <2>1. PICK code : RollBack(c, code)
    BY <1>10 DEF RefuseSlug, Fail
  <2>2. calls[c].pc \in Creating
    BY <1>10 DEF RefuseSlug, Fail, Held, At, Creating, Founding
  <2>3. c # Absent
    BY <2>2, CreatingFacts
  <2>4. \A row \in members \cup roles : row.tenant = t => row.tx # c
    BY <1>3, <2>3
  <2>5. tenants'[t] = tenants[t]
    BY <1>1, <2>1, <2>3 DEF RollBack
  <2>6. Of(t, Others(c, members)) = Of(t, members)
    BY <2>4 DEF Of, Others
  <2>7. Of(t, Others(c, roles)) = Of(t, roles)
    BY <2>4 DEF Of, Others
  <2> QED
    BY <2>1, <2>5, <2>6, <2>7 DEF RollBack, Untouched
<1> QED
  BY <1>5, <1>6, <1>7, <1>8, <1>9, <1>10 DEF Found

\* What a call of an operation does to a committed tenant: nothing, or it is
\* its own tenant, past the middleware, and the statement is the call's last.
Wrote(c, t) ==
    /\ calls[c].pc \in Writing /\ calls[c].tenant = t /\ calls'[c].pc = "done"
    /\ tenants'[t].currency # tenants[t].currency => At(c, "currency")

LEMMA OperationsTouchTheirOwn ==
    ASSUME IInv, NEW c \in Calls, Operate(c), NEW t \in TenantIds, Known(t)
    PROVE  Untouched(t) \/ Wrote(c, t)
<1>1. tenants[t] \in Tenant
  BY DEF Known, Exists, IInv, TypeOK
<1>2. \A code \in Codes : Answer(c, code) => calls'[c].pc = "done"
  BY TypeOfCalls
<1>3. ASSUME UNCHANGED <<tenants, members, roles>>
      PROVE  Untouched(t)
  BY <1>3 DEF Untouched
<1>4. CASE \/ Resolve(c) \/ RequireTenantPermission(c) \/ Show(c) \/ JudgeCompletion(c)
           \/ CompareCurrency(c) \/ RequireAssign(c) \/ ReadTarget(c)
  BY <1>3, <1>4 DEF Resolve, RequireTenantPermission, RequireAssign, ReadMembership, ReadRoles,
     Show, JudgeCompletion, CompareCurrency, ReadTarget
<1>5. ASSUME NEW row, UpdateRow(c, row), Answer(c, "OK"), calls[c].pc \in Writing,
             calls[c].tenant = t =>
                (row.currency # tenants[t].currency => At(c, "currency"))
      PROVE  Untouched(t) \/ Wrote(c, t)
  <2>1. UNCHANGED <<members, roles>> /\ tenants' = [tenants EXCEPT ![calls[c].tenant] = row]
    BY <1>5 DEF UpdateRow
  <2>2. CASE calls[c].tenant = t
    <3>1. tenants'[t] = row
      BY <2>1, <2>2 DEF IInv, TypeOK
    <3>2. calls'[c].pc = "done"
      BY <1>2, <1>5 DEF Codes
    <3> QED
      BY <1>5, <2>2, <3>1, <3>2 DEF Wrote
  <2>3. CASE calls[c].tenant # t
    BY <2>1, <2>3 DEF Untouched, IInv, TypeOK
  <2> QED
    BY <2>2, <2>3
<1>6. ASSUME UpdateProfile(c)
      PROVE  Untouched(t) \/ Wrote(c, t)
  <2>1. PICK timezone : UpdateRow(c, [Row(c) EXCEPT !.timezone = timezone])
    BY <1>6 DEF UpdateProfile
  <2>2. calls[c].tenant = t => [Row(c) EXCEPT !.timezone = timezone].currency = tenants[t].currency
    BY <1>1 DEF Row, Tenant
  <2> QED
    BY <1>5, <1>6, <2>1, <2>2 DEF UpdateProfile, Statement, At, Writing
<1>7. ASSUME SaveProgress(c)
      PROVE  Untouched(t) \/ Wrote(c, t)
  <2>1. calls[c].tenant = t => [Row(c) EXCEPT !.step = TRUE].currency = tenants[t].currency
    BY <1>1 DEF Row, Tenant
  <2> QED
    BY <1>5, <1>7, <2>1 DEF SaveProgress, Statement, At, Writing
<1>8. ASSUME CompleteOnboarding(c)
      PROVE  Untouched(t) \/ Wrote(c, t)
  <2>1. calls[c].tenant = t => [Row(c) EXCEPT !.completed = TRUE].currency = tenants[t].currency
    BY <1>1 DEF Row, Tenant
  <2> QED
    BY <1>5, <1>8, <2>1 DEF CompleteOnboarding, Statement, At, Writing
<1>9. ASSUME SetCurrency(c)
      PROVE  Untouched(t) \/ Wrote(c, t)
  BY <1>5, <1>9 DEF SetCurrency, Statement, At, Writing
<1>10. ASSUME Enrol(c)
       PROVE  Untouched(t) \/ Wrote(c, t)
  <2>1. calls[c].pc \in Writing /\ calls'[c].pc = "done" /\ UNCHANGED <<tenants, roles>>
    BY <1>2, <1>10 DEF Enrol, Statement, At, Writing, Codes
  <2>2. CASE calls[c].tenant = t
    BY <2>1, <2>2 DEF Wrote
  <2>3. CASE calls[c].tenant # t
    BY <1>10, <2>1, <2>3 DEF Enrol, NewMember, Of, Untouched
  <2> QED
    BY <2>2, <2>3
<1>11. ASSUME Revoke(c)
       PROVE  Untouched(t) \/ Wrote(c, t)
  <2>1. calls[c].pc \in Writing /\ calls'[c].pc = "done" /\ UNCHANGED <<tenants, roles>>
    BY <1>2, <1>11 DEF Revoke, Statement, At, Writing, Codes
  <2>2. CASE calls[c].tenant = t
    BY <2>1, <2>2 DEF Wrote
  <2>3. CASE calls[c].tenant # t
    <3> DEFINE new(m) == IF m.tenant = calls[c].tenant /\ m.user = calls[c].target
                         THEN [m EXCEPT !.status = "DISABLED"] ELSE m
    <3>1. members' = { new(m) : m \in members }
      BY <1>11 DEF Revoke
    <3>2. \A m \in members : new(m).tenant = m.tenant /\ (m.tenant = t => new(m) = m)
      BY <2>3 DEF IInv, TypeOK, Member
    <3> HIDE DEF new
    <3>3. Of(t, members') = Of(t, members)
      BY <3>1, <3>2 DEF Of
    <3> QED
      BY <2>1, <3>3 DEF Untouched
  <2> QED
    BY <2>2, <2>3
<1>12. ASSUME Assign(c)
       PROVE  Untouched(t) \/ Wrote(c, t)
  <2>1. calls[c].pc \in Writing /\ calls'[c].pc = "done" /\ UNCHANGED <<tenants, members>>
    BY <1>2, <1>12 DEF Assign, Statement, At, Writing, Codes
  <2>2. CASE calls[c].tenant = t
    BY <2>1, <2>2 DEF Wrote
  <2>3. CASE calls[c].tenant # t
    BY <1>12, <2>1, <2>3 DEF Assign, NewRole, Of, Untouched
  <2> QED
    BY <2>2, <2>3
<1> QED
  BY <1>3, <1>4, <1>6, <1>7, <1>8, <1>9, <1>10, <1>11, <1>12 DEF Operate

\* A committed tenant is changed by a call's last statement, or not at all.
LEMMA ChangeIsWritten ==
    ASSUME IInv, [Next]_vars, NEW t \in TenantIds, Known(t)
    PROVE  Untouched(t) \/ \E c \in Calls : Wrote(c, t)
<1>1. CASE UNCHANGED vars
  BY <1>1 DEF vars, Untouched
<1>2. CASE Next
  <2>1. PICK c \in Calls : CallCreate(c) \/ CallGuarded(c) \/ Step(c) \/ Fail(c)
    BY <1>2 DEF Next
  <2> QED
    BY <2>1, TransactionsTouchTheirOwn, OperationsTouchTheirOwn DEF Step
<1> QED
  BY <1>1, <1>2

\* CompareAndSet in two statements: a currency that was settled when a call
\* began is not changed by that call, although its UPDATE has no condition.
THEOREM SettledCurrenciesStay == Spec => SettledCurrencyStays
<1> DEFINE A == \A t \in TenantIds :
                   Known(t) /\ tenants'[t].currency # tenants[t].currency
                   /\ tenants[t].currency # Absent =>
                      \E c \in Calls : /\ At(c, "currency") /\ calls[c].tenant = t
                                       /\ calls[c].settled = Absent
                                       /\ calls'[c].pc = "done"
<1>1. IInv /\ [Next]_vars => A
  <2> SUFFICES ASSUME IInv, [Next]_vars, NEW t \in TenantIds,
                      Known(t), tenants'[t].currency # tenants[t].currency
               PROVE  \E c \in Calls : /\ At(c, "currency") /\ calls[c].tenant = t
                                       /\ calls[c].settled = Absent
                                       /\ calls'[c].pc = "done"
    OBVIOUS
  <2>1. PICK c \in Calls : Wrote(c, t)
    BY ChangeIsWritten DEF Untouched
  <2>2. LocalsOK(c)
    BY DEF IInv
  <2> QED
    BY <2>1, <2>2 DEF Wrote, At, LocalsOK
<1> QED
  BY <1>1, TenancyInvariant, PTL DEF Spec, SettledCurrencyStays

\* Behind the permission middleware: nobody but its founder changes a tenant,
\* its members or its roles.
THEOREM OnlyFoundersWrite == Spec => OnlyTheFounderWrites
<1> DEFINE A == \A t \in TenantIds :
                   /\ Known(t)
                   /\ \/ tenants'[t] # tenants[t]
                      \/ Of(t, members') # Of(t, members)
                      \/ Of(t, roles') # Of(t, roles)
                   => \E c \in Calls : /\ Running(c) /\ calls'[c].pc = "done"
                                       /\ calls[c].tenant = t /\ calls[c].actor = founder[t]
<1>1. IInv /\ [Next]_vars => A
  <2> SUFFICES ASSUME IInv, [Next]_vars, NEW t \in TenantIds, Known(t), ~Untouched(t)
               PROVE  \E c \in Calls : /\ Running(c) /\ calls'[c].pc = "done"
                                       /\ calls[c].tenant = t /\ calls[c].actor = founder[t]
    BY DEF Untouched
  <2>1. PICK c \in Calls : Wrote(c, t)
    BY ChangeIsWritten
  <2>2. LocalsOK(c) /\ Running(c)
    BY <2>1 DEF IInv, Wrote, Running, Writing
  <2> QED
    BY <2>1, <2>2 DEF Wrote, LocalsOK
<1> QED
  BY <1>1, TenancyInvariant, PTL DEF Spec, OnlyTheFounderWrites

(***************************************************************************)
(* Whoever has written a slug and not committed is past its INSERT.        *)
(***************************************************************************)
LEMMA ClaimantIsFurther ==
    ASSUME IInv, NEW c \in Calls, SlugHasClaimant(c)
    PROVE  \E d \in Calls : calls[d].pc \in Waiting
<1>1. PICK t \in TenantIds : HasSlug(t, calls[c].arg)
  BY DEF SlugHasClaimant
<1>2. Exists(t) /\ tenants[t].tx # Absent
  BY <1>1 DEF SlugHasClaimant, HasSlug
<1>3. tenants[t] \in Tenant
  BY <1>2 DEF IInv, TypeOK, Exists
<1>4. tenants[t].tx \in Calls
  BY <1>2, <1>3 DEF Tenant
<1>. QED
  BY <1>2, <1>4 DEF IInv, OpenTransactions

(***************************************************************************)
(* Requests come to a standstill in one way only: creations hold every     *)
(* connection, and one of them needs another to read its user.  The wait   *)
(* for a slug never causes one by itself.                                  *)
(***************************************************************************)
THEOREM StandstillsAreOfThePool == Spec => []OnlyThePoolStalls
<1>1. ASSUME IInv, \E c \in Calls : Running(c),
             \A c \in Calls : Running(c) => Blocked(c)
      PROVE  ~Free /\ \E c \in Calls : At(c, "read user")
  <2>1. ASSUME NEW d \in Calls, calls[d].pc \in Waiting
        PROVE  At(d, "read user") /\ ~Free
    <3>1. Running(d) /\ ~SlugHasClaimant(d) /\ calls[d].pc \in Founding
      BY <2>1 DEF Running, SlugHasClaimant, At, Waiting, Founding
    <3>2. NeedsConnection(d) /\ ~Free
      BY <1>1, <3>1 DEF Blocked
    <3>. QED
      BY <3>1, <3>2 DEF NeedsConnection
  <2>2. ASSUME NEW c \in Calls, SlugHasClaimant(c)
        PROVE  ~Free /\ \E d \in Calls : At(d, "read user")
    BY <1>1, <2>1, <2>2, ClaimantIsFurther
  <2>3. ~Free
    BY <1>1, <2>2 DEF Blocked
  <2>4. \E c \in Calls : calls[c].pc \in Founding
    <3>1. ASSUME Held = {} PROVE FALSE
      <4>1. Cardinality(Held) = 0
        BY <3>1, FS_EmptySet
      <4>. QED
        BY <2>3, <4>1, PoolIsPositive DEF Free
    <3>. QED
      BY <3>1 DEF Held
  <2>5. PICK c \in Calls : calls[c].pc \in Founding
    BY <2>4
  <2>6. Running(c) /\ Blocked(c)
    BY <1>1, <2>5 DEF Running, Founding
  <2>7. At(c, "read user") \/ SlugHasClaimant(c)
    BY <2>5, <2>6 DEF Blocked, NeedsConnection
  <2>. QED
    BY <2>2, <2>3, <2>7
<1>2. IInv => OnlyThePoolStalls
  BY <1>1 DEF OnlyThePoolStalls, Stalled
<1>. QED
  BY <1>2, TenancyInvariant, PTL

=============================================================================
