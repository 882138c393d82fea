# TLA+ models and proofs of the booking platform

The repository is a multi-tenant booking platform: a Go monolith over PostgreSQL with an object store
for pictures. Businesses (tenants) sign up, describe their services and technicians, and customers book
appointments on public pages without an account. This directory holds TLA+ modules translated from
that code, TLC configurations that check them on small instances, and TLAPS proofs of theorems for
every instance. Paths below are relative to `src/internal/` unless they start with `src/`.

1. [The system](#1-the-system): parts, state, operations, what is hard, what makes each correct
2. [Modules and code](#2-modules-and-code)
3. [Runs](#3-runs): what each checks, bounds, fairness
4. [Proofs](#4-proofs)
5. [Where code and text disagree](#5-where-code-and-text-disagree)
6. [What is not modelled](#6-what-is-not-modelled)
7. [Plan](#7-plan)

## 1. The system

### How the parts interact

Every request runs in a goroutine of its own, in the order `app/app.go` wires: cross-origin headers,
authentication (`auth/middleware.go`), tenant context (`tenant/middleware.go`), permission
(`authorization/middleware.go`), handler, service, repository. There is no in-process shared state
worth a lock: requests meet **in the database**, and the only background activity is other requests.
Four facts about that meeting shape every model here.

- A statement outside an explicit transaction is one atomic step, and between two statements of one
  request anything may commit. Most services read, decide in Go and then write.
- Explicit transactions (`BeginTx`) run at PostgreSQL's default, READ COMMITTED: every statement sees
  what is committed when it starts. Waiting happens on rows another transaction has written and on
  entries of unique indexes another transaction has inserted.
- The pool has ten connections (`database/postgres.go`), and a transaction keeps one until it ends.
- A request's context ends when its client goes away. The server's timeouts bound reading and writing on the
  socket and do not cancel a handler. A request may thus end between any two of its statements, or wait.

### Parts

| part | state | operations | what is hard | what makes it correct |
|---|---|---|---|---|
| Booking creation and management (`scheduling/service/booking_service.go`, `booking_management_service.go`) | `bookings` rows: technician, service, interval, status | create, reschedule, cancel, complete, no-show | many reads before one write; no transaction; the decision is on stale data (hours, durations, the tenant's time zone) by the time the conditional UPDATE or the exclusion constraint speaks; wall-clock times are shown and instants are stored | no double booking; an outcome is final; callers are told what is stored; written inside working hours; outcomes only after the end |
| Availability engine and service (`scheduling/availability`, `availability_service.go`) | none: a function of service, technician, hours, occupancy, clock, time zone | `Generate` | half-open intervals, a day with an offset transition, overlapping stored hours, a loop with early `continue`s | offers what the reference definition says, offers can all be kept, ends |
| Roster (`working_hours_service.go`, `staff_service.go`) | `staff_working_hours`, `staff_services` | replace a schedule, a technician's services, a service's technicians | delete-and-insert transactions meeting each other on rows and keys; deadlocks; a DELETE that misses rows committed under it | a schedule is replaced whole; stored intervals do not overlap |
| Service images (`service_image_service.go`, `media/`) | `service_images` rows and stored objects | upload a batch, delete, make primary, reorder | two stores without a common transaction; compensation; results that get lost; lock order | no row without its object, no object without a row, one primary, a total order, operations that take effect whole |
| Sign-in sessions (`identity/`) | `sessions` rows, browser cookies, access tokens | login, refresh with rotation, logout | single-use credentials presented twice; answers arriving out of order or not at all; a lock held over a rotation | a replaced credential is dead; a logout is final; a browser is not left with a dead cookie |
| Tenants, members, roles (`tenant/`, `authorization/`) | `tenants`, `tenant_memberships`, `user_roles`, pool | found a tenant, profile, onboarding, currency, enrol, revoke, assign a role | a transaction that needs a second connection; reads that go stale before unconditional writes; three tables that must agree | tenants appear whole; only members hold roles; a revoked member is refused; only founders write |
| Users, Google sign-in (`identity/service/user_service.go`, `google_authentication_service.go`, `handler/google_auth_handler.go`, `oauth_state.go`) | `users`, `user_identities`, the state cookie | register, resolve or link or create | three ways to meet a user that other requests may be creating or linking; one state cookie for all flows of a browser | one user per e-mail and per Google subject; a sign-in follows the link; no user without a way in; a callback is accepted once |
| Catalog, categories, staff profiles, and the pages and receipts that show them (`catalog_service.go`, `category_service.go`, `staff_service.go`, `public_catalog_service.go`, `public_staff_service.go`, `booking_receipt_service.go`) | `services`, `service_categories`, `staff_profiles` | create, edit, archive; list the catalog, a service's technicians, a receipt | partial unique names; archive under use; a link to a member who is being revoked; pages that read several tables one after the other without a transaction | references stay inside the tenant and always resolve; names are unique among the active; who has left is not shown |
| Suggestions, money, errors, configuration, wiring | none or immutable | parsing, rendering, set-up | no concurrency of their own | see section 6 |

`PROJECT.json` lists these parts file by file, with what is modelled of each, and under `hazards` every
place in the code where something can go wrong that a test would hardly reach, with the
properties that would show it.

## 2. Modules and code

| module | models | lines |
|---|---|---|
| `Appointments` | the `bookings` table: row shape, statuses, the exclusion constraint of migration 000016 | 44 |
| `Ledger` | what the booking component promises: book, move and settle as single steps | 69 |
| `Slots` | the arithmetic of `availability.Generate`: candidates, half-open overlap, past slots, civil time to instant | 71 |
| `Bookings` | the five booking handlers, statement by statement, in civil time, with the owner's edits (the tenant's time zone among them) and the clock | 678 |
| `SlotEngine` | the loop of `Generate`, a candidate per step | 194 |
| `Roster` | the three replace-a-set transactions | 393 |
| `Gallery` | what a service's gallery promises: add, remove, promote, arrange as single steps | 64 |
| `ServiceImages` | the gallery operations over the table and the object store | 548 |
| `Sessions` | login, refresh, logout, cookies | 454 |
| `Tenancy` | founding a tenant and the operations on one, behind the two middlewares, over the pool | 586 |
| `Accounts` | registration, Google sign-in with its state cookie | 424 |
| `Catalog` | services, categories, staff profiles; the public pages and receipts | 540 |
| `BookingsProofs`, `SlotEngineProofs`, `SessionsProofs`, `RosterProofs`, `ServiceImagesProofs`, `TenancyProofs`, `AccountsProofs`, `CatalogProofs` | theorems and proofs | |
| `MC*` | the small instances' constants and symmetry | |

`Bookings` implements `Ledger` with `ledger <- bookings`, and `ServiceImages` implements `Gallery` with `gallery <- rows`: the
tables are the abstract state, and everything else (requests, locals, locks, objects) is hidden. `Bookings` and `SlotEngine` share `Slots`.

The longer modules include the mutants used to test the properties: each is marked
`Mutant:` and used by no behaviour.

### Reading the models

A running request is an entry of `calls` (in `Roster`: of `pc`, `request`, `tx`). Its `pc` names **the statement it
runs next**, its other fields are the Go locals that are still needed, and an action is one
statement together with the Go code up to the next one. A refusal or an answer ends the call. `Fail`, `Abort`, `Lose`
are what the environment may do: a failing statement, a client that goes away, an answer that never
arrives. Absent rows are `Absent`; ids that PostgreSQL or `uuid.NewString` make fresh are unused model
values.

**Bookings.** `CallCreate` ... `Insert` follow `CreatePublicBooking`: the reads of `getAvailability` one by one
(the tenant with its zone, `ReadService`, `ReadStaff`, `ReadCapabilities`, `ReadHours`), `PickSlot` (occupancy, engine, `findSlot`),
`DeriveEnd` (`ResolveInstant` of the slot's start, and the second read of the service, from which the stored end comes), `Insert` (the exclusion constraint is part of the
statement). `CallReschedule` shares them, with the zone read later (`ReadTenant`), and ends in `UpdateSchedule` and `Reread`; `CallCancel` and `CallOutcome`
(complete, no-show) end in `UpdateStatus` and `Reread`, and only the latter passes `CheckEnded`. The conditional UPDATEs
change nothing when the row is no longer CONFIRMED, and the handlers go on to re-read all the same
because they drop the `updated` result, as the model does. A request names labels, wall-clock times of one civil date; a row holds
instants; `InstantAt` of `Slots` takes one to the other in a zone, whose date may begin at any instant and repeat or skip a stretch of labels. `zone` is the
tenant's, `EditZone` is `PATCH /tenants` replacing it between any two statements, and a call goes by the one it has read. What a creation answers
(`Shown`) is the slot it found, in labels: not the row. `edited` is history: what the owner has edited of the zone, the duration or the hours
since a running call read it.

**SlotEngine.** Variables are those of the loop; `EnterInterval`, `TryCandidate`, `LeaveInterval`, `SortSlots`
its steps. `q.zone` carries the instant at which the date begins and an offset transition (a skipped or a repeated stretch of
wall-clock time), and `InstantAt`
does what `time.Date` does with a label in it. `Ascending` is `sort.Slice` on labels: a label's place is its rank.

**Roster.** A transaction's uncommitted work is a record: rows its DELETE still has to lock (`todo`), has deleted
(`gone`), has inserted (`added`), and what is `left` to insert. `Clear` takes the DELETE's snapshot; `ClearRow` locks a row,
or passes over it when it has gone meanwhile; `Insert` waits while another transaction holds the key; `RefuseDuplicate` is
the 23505 path; `BreakDeadlock` is PostgreSQL's detector.

**ServiceImages.** Rows and objects are separate sets. An upload stores an object (`StoreObject`), inserts its row (`InsertRow`) and compensates
(`Compensate`); `LoseObject` is a put whose answer is lost and, with the same effect, a process that dies before the row is written.
The result of an INSERT (`LoseInsertResult`), of the plain DELETE and of a COMMIT (`Learn`) may be lost after it took effect; a statement inside a
transaction whose result is lost is rolled back with it (`Fail`). `Die` is a process death while an object is in a request's hands. A context cancelled by the client makes the next statement or storage
call fail.
`doubted` and `leaked` are history variables: rows whose INSERT took effect although the caller was told otherwise, and
objects a fault left to nobody: a storage call failed on them or stored them unnoticed, the result of the DELETE or COMMIT that took their row
away was lost, or the process died between row and object. A transaction's `writes` are its uncommitted rows and its row locks;
`Needs` says which rows the next statement of a call waits for.

**Sessions.** `SelectForUpdate`, `Rotate` are the rotation's transaction and `locks` the row lock it holds; `CheckExpiry` and
`CheckUser` follow the commit. Answers wait in `calls` until `Deliver` applies their Set-Cookie, in any order, or `Lose` drops
them. Tokens are unforgeable model values and a hash stands for its token. `spent` and `lost` are history.

**Accounts.** `Start` mints a state; its answer, when delivered, sets the cookie and shows the browser the state. `Callback` compares the two,
`Exchange` is Google (any identity of `Claims`, or a refusal), and `FindByProviderSubject` ... `Commit` are the statements of
`resolveUser`. The transaction that creates a user is never written to `users` before `Commit`: what it has inserted is in the locals of its call, and
`PendingUser`, `PendingEmail`, `PendingSubject` are the keys others wait for. A refusal's code is shown and kept nowhere, so all refusals of a
call look alike. An answer that gets lost is one that is never delivered. `sessions`, `closed` and a call's `barred` are history.

**Catalog.** Nothing here runs in a transaction. A request that reads before it writes (`CreateService`, `EditService`, `RetireService`,
`CreateStaff`, ...) is an entry of `calls` between its statements; a request of one statement (`PostCategory`, `PatchCategory`, `PatchStaff`) is one step. `GetCatalog`
reads the services and then the category names, `ListCapableStaff` the pairs and then every profile, `GetReceipt` the booking, its
service and its technician; what could not be resolved is collected in `missing`, what is shown in `shown`. Pairs, bookings, memberships and
currencies belong to other modules: `Assign`, `Book`, `Enrol`, `Revoke` and `SetCurrency` say what those may do to the tables, with their foreign keys.
`gone` is history.

**Tenancy.** `Begin` ... `Commit` are the founding transaction; its rows carry `tx` until the commit, so that other calls do
not see them. `ReadUser` is the one statement that goes through the pool while a transaction is open. Guarded calls pass
`Resolve` (membership), `RequireTenantPermission` (membership again, then roles) and then the statements of their handler; role
assignment asks once more. `founder`, and a call's `barred` and `settled`, are history. Left out: reads of what nothing in the program
changes (a tenant's status, the role catalog, the existence of a user), and statements outside a transaction that fail, which change nothing.
The earlier tenant of the initial states was founded by this code: rows that migration 000009 declared COMPLETED as they
stood are not covered by `PublicIsReady`.

## 3. Runs

Deadlock checking stays on wherever the modelled system cannot stop (a booking caller may always call again, a gallery call may
always start). It is off where an instance's calls, once answered, do not start again (`RosterSets`, `RosterOverlap`, `TenancyGuard`), where its
credentials and clock run out (`SessionTable`) and where an algorithm ends (`EngineResult`).

| run | states | what it checks |
|---|---|---|
| BookingsTable | 0.58 M | `ImplementsLedger`: two concurrent calls over two bookings refine the abstract ledger, all five operations racing; `IInv`; `NoDoubleBooking`; a cancel racing an outcome is decided once (`SettledIsFinal`) and reported truly (`SettleReplyIsLast`); `EarlyOnlyByMove` |
| BookingsOffers | 2.42 M | creations and reschedules in four zones, with the zone, durations and hours edited between any two statements: a booking is written inside the hours (`WrittenInsideHours`), its own interval never hides its slot (`OwnSlotOffered`), a confirmation shows the row (`ConfirmationMatchesRow`) |
| EngineResult | 0.28 M | `ResultIsGenerate`: the loop computes `Slots!Generate` for every query of the instance, sorted and without duplicates; `OffersCanBeKept` in real time, except on a day that skips an hour; the loop ends (`Terminates`) |
| SessionTable | 0.41 M | the invariant of the proofs; `SpentIsDead`; `NoSpentCookie`; `WaitsForWriter`; `RevokedIsFinal` |
| ImagesGallery | 1.41 M | `ImplementsGallery`: the table refines the abstract gallery; `RowHasObject`, `NoOrphan` and `IInv`, whose first part is `GalleryKeepsShape` (one primary, a total order), with any statement or storage call failing, the result of an INSERT, DELETE or COMMIT lost, and a process dying between row and object |
| RosterSets | 0.40 M | the invariant of the proofs; `SchedulesAreWhole`, `AloneIsExact`, `OverlapOnlyByRace`, `EveryCallAnswered` |
| GoogleSignIn | 1.79 M | `IInv` (one user per address, one per Google account, no user without a way in); `SignInIsLinked`, `SingleUse` |
| TenancyGuard | 1.35 M | `IInv`; `FoundedWhole`, `RevokedIsRefused`, `PublicIsReady`; `StallNeedsFullPool`; `SettledCurrencyStays`; `OnlyTheFounderWrites` |
| CatalogPages | 1.05 M | `IInv` (references stay inside their tenant, names and links are unique); `NothingVanishes`, `GoneAreNotShown`, `LinkedWasMember` |
| StaleEnd | | **violated**: `OutcomeAfterEnd` once a reschedule may run |
| PrimaryLost | | **violated**: `PrimaryStays` |
| RosterOverlap | | **violated**: `SchedulesDisjoint` |

### Bounds, and why they are enough

- **Calls.** Two concurrent requests everywhere but `TenancyGuard`, which has three over a pool of two, so that both
  the full pool and one connection left over occur. Every hazard found by reading involves two writers, or a writer and a reader
  that decides; a request that has been answered may start again in `Bookings` and `ServiceImages`, so sequences longer than two occur.
- **Bookings.** Two ids, one technician and one service, times 0..1 (0..2 in `StaleEnd`), durations 1 and 2: enough for touching,
  overlapping and shifted intervals, and for a booking moved partly onto itself. A second technician only multiplies
  independent behaviours: every guard is per technician. The clock covers before, at and after an end. `BookingsTable` races two calls on an ordinary
  date, over two working intervals that overlap, so that slots of one service do; nothing its properties say depends on the zone, which is proved.
  `BookingsOffers` has one call at a time, since its properties are about one call against the owner's edits: a date that begins at another instant, one with
  a repeated tick, one with a skipped tick and an ordinary one, a day in one stretch or with a break, and an edit of each between any two of its statements.
- **Engine.** Up to two intervals, in either order, well formed or not, overlapping or not; durations 1 to 3; a clock before and
  inside the day; nothing or one interval occupied; days that skip or repeat time, and days that do neither.
- **Sessions.** Four credentials allow a login, two racing rotations and one more; two sessions of one browser; the clock reaches the
  expiry of both tokens.
- **Images.** Three ids over galleries that start with one or three images: a batch that fails in the middle, a deletion of the
  primary with successors to choose from, and two reorders that lock in opposite order. The limit is two, so that an upload is
  refused and two that read the same count overrun it. `OneImageStruck` stops a behaviour once faults have made the two stores
  disagree over a second image, whichever faults those were; the theorems of `ServiceImagesProofs` have no such bound.
- **Roster.** Requests of up to two items over a morning, an afternoon and the day that contains both; two
  services; an id that is not the tenant's.
- **Tenancy.** An owner and another user; the earlier tenant and two new ones; three slugs, one taken; two currencies.

- **Accounts.** Two accounts at Google that may assert either of two addresses, so that an address moves from one to the other; two users; two
  flows, in one browser or in two; a clock that passes an expiry. Each flow is minted once.
- **Catalog.** Two tenants that never meet, one service, two categories, two profiles and one booking, whichever tenant they come to belong to; one
  user who may be a member of either; two names; at most two rows of the three tables together, so that a service in a category, two categories that want one
  name, two profiles that want one user, and a service with a technician all occur.

Symmetry is used for model values that no property of the run distinguishes and only in runs without liveness
properties.

### Fairness

Only two runs state liveness. `SlotEngine` is a loop of one goroutine: weak fairness of `Next` says that it is
scheduled. `Roster!FairSpec` asks for weak fairness of each call's `Step`: the server runs every request it
has taken, PostgreSQL finishes every statement that is not waiting and breaks deadlocks; `Fail` is never required.
A call that waits for a lock is not enabled, so `EveryCallAnswered` also says that whoever holds the lock lets go.
`Sessions` and `Tenancy` state the same concern as a safety property instead. `WaitsForWriter` and `StallNeedsFullPool` each have two
parts: `Blocked` says in terms of locks and connections what a request waits for, and a running request can take a step exactly if it
is not `Blocked`; and a blocked request's row is held by one that is not (`WaitsAreShort`), or all running requests are blocked only for
want of a connection (`OnlyThePoolStalls`). The second parts are also proved.

### What the less obvious properties say

- `SettleReplyIsLast`. The handlers ignore whether their UPDATE hit a row. The answer is still truthful: it shows a booking that has an outcome
  and will keep it, possibly another owner's.
- `NoSpentCookie`. A browser that missed no answer and holds a replaced credential has an answer on its way that replaces or
  clears it. It holds because every failed refresh clears the cookie; the price is described in section 5 (a late failure clears a fresh
  credential).
- `EarlyOnlyByMove`. `OutcomeAfterEnd` fails (`StaleEnd`); this is what is left of it: a reschedule between the read and the UPDATE is the only way.
- `WrittenInsideHours`. The slot is checked in labels against hours read some statements before the write, and written as instants. `Fits` asks the question again
  at the write, in the present zone and hours. On a date that skips labels an interval has less real time than it says, and the code keeps its labels: `Fits` does too.
- `ConfirmationMatchesRow`. Relates the labels a customer is shown to the instants in the table, through the zone the call read; that the tenant's zone is another by
  then changes nothing.
- `NoOrphan`. Says who is to settle an object without a row, and by `leaked` which single faults leave it to nobody.
- `SignInIsLinked`. Whatever was read on the way, a session is issued to the user the Google account is linked to, and the link never moves, although
  the address Google asserts may.
- `SingleUse`. A browser applies answers in any order and holds one cookie for all flows; once it has seen a flow's callback answered, no order of later
  answers brings that state back. Until then a repeated callback is accepted.
- `ImplementsGallery`. Promotions and reorders write the same rows in different columns, in transactions that see each other's commits. The abstract
  gallery has them as single steps that leave each other's column alone; the property fails when a part of an operation becomes visible
  or one writes back what the other has changed.
- `AloneIsExact`. A replacement beside which no other ran leaves what it asked for, and is refused as invalid only for a cause.
- `NothingVanishes`. The pages look rows up by references they read a statement earlier, and find them, whether or not what they find is then shown. It holds
  because nothing is ever deleted, a row never changes its tenant, and the lookups by id do not ask for ACTIVE; the list of technicians, where one missing profile would fail the whole answer,
  depends on all three.
- `LinkedWasMember`. The membership is read before the INSERT, and nothing ties the two together: a revocation in between is overlooked, one that came
  before the request is not.
- `StallNeedsFullPool`. When no running request can go on, creations hold all connections and at least one of
  them is about to read its user through the pool. Such a standstill is reachable (two creations over a pool of two; ten over ten); it ends
  when a client gives up, whose transaction then rolls back. PostgreSQL cannot see it: the wait is inside `database/sql`.
- `SettledCurrencyStays`. Weaker than "written once": only calls that began before any currency was set may replace one another's.
- `OnlyTheFounderWrites`. Follows through three tables and any sequence of enrolments and role assignments: nobody but
  the founder is ever an owner. A founder may revoke their own membership, after which nobody can change the tenant, and nothing
  in the program re-activates a membership.

Every property of a passing run has a mutant in `PROJECT.json`: a definition changed the way a plausible bug would change
the code it models, under which TLC finds the property violated.

## 4. Proofs

TLC checks the instances above; the theorems hold for every number of calls, rows, services, technicians, browsers, tokens
and so on. They assume what the modules' named `ASSUME`s say: sets of model values are what their names suggest, `Absent` is no
member of them, durations and the size of the pool are positive, the engine is given queries of its kind, bounds are naturals. TLC evaluates these on
every run.

- **`BookingsProofs`.** `BookingsImplementLedger` shows that each statement of the handlers is a ledger step or leaves the table alone. The ledger's
  guarantees are then proved of whatever implements it, from `ImplementsLedger` alone: it keeps its type, never has two confirmed entries of one technician
  overlap (`LedgerExclusion`), and never changes a settled one (`LedgerFinality`). `NoDoubleBooking` and `SettledIsFinal` of the handlers are their
  consequences. The refinement needs an invariant, `BookingsInvariant`: an interval to be written is not
  empty (the ledger demands that, and it holds because durations are positive), the booking a management call names exists, and a call that has
  issued its status UPDATE names a booking that has an outcome. The last conjunct, with finality, gives `SettledRepliesAreLast`. An outcome about to be
  written has passed the check on the end that was read, and the clock does not go back: hence `EarlyOutcomesWereMoved`. `OwnSlotsAreOffered` combines the
  engine's definition with `NoDoubleBooking`: the exclusion constraint keeps every other booking of the technician clear of the one being moved. A second
  invariant, `OffersInv` (`OffersInvariant`), says what is left of a call's reads some statements later: the zone, the duration behind the slot it picked, the hours the slot lies in,
  each as long as the owner has not edited that very thing since it was read. `BookingsKeepHours` follows for all zones and all edits: a row is written outside the
  hours of that moment only by a call one of whose reads has been edited, and where no clock change shortens an interval `Fits` compares in real time. So does
  `ConfirmationsAreTrue`: the start shown is the instant stored, in the zone that was read, and without a duration edit the end is too, exactly when the clocks do not change
  between the slot's two ends. Neither supposes anything about what is edited; the exceptions are part of the properties, and section 5 says what happens in them.
  `OutcomesAwaitTheEnd` is what remains of the rule that `StaleEnd` refutes: in every history without a reschedule `OutcomeAfterEnd` holds. Its invariant, `OutcomesInv`, says that the end a
  call has read is still its booking's (TLC finds it true on the instance of `StaleEnd` with the reschedule taken away).
- **`SlotEngineProofs`.** `LoopInvariant`: what has been appended is what is bookable among the candidates behind `candidateStart`, each
  label once, and `candidateStart` is a whole number of durations from the start of its interval (TLC finds `LoopInv` true on the instance of
  `EngineResult`). One pass of the loop covers exactly the next candidate, because no multiple of the duration lies strictly between two
  successive ones; and giving every label its rank as its place loses none, repeats none and puts them in order, a fact about cardinalities
  (`PlacesAreTaken`) that takes the place of an induction. At the end nothing is left unvisited, which is `LoopComputesGenerate`. `OffersAreKept`
  compares offers in real time: where a day skips nothing, instants are at least as far apart as their labels, so two candidates of one grid, or of two
  disjoint intervals, stay a duration apart. `EveryPassAdvances` is what `Terminates` rests on: in the states of `LoopInv` every step comes
  nearer to the end, whichever of the loop's `continue`s is taken.
- **`SessionsProofs`.** `SpentIsDead` is not inductive: a call still holding a fresh credential could store one that is already spent. `IInv` adds that
  credentials are never shared between rows, between running calls, or between the two (`TokensAreUnique`), that a locked row is as the
  rotation holding it read it (`LocksAreHeld`), and what the locals of a call are. `NoSpentCookie` (`CookiesFollowRotation`) needs `CookiesAreOwn`: a new
  credential belongs to one call until its answer is delivered, then to one browser, and only that browser's calls present it; so whoever
  replaces it owes that browser an answer. `RevocationIsFinal` follows from the same
  invariant: the one step that could revive a revoked row is a rotation, which holds its lock from the check on.
  `WaitsEndWithOneCommit` uses it too: whoever holds a row that a call waits for is at its UPDATE of that row, which waits for nothing.
- **`RosterProofs`.** `SchedulesWhole` says that what one request put into a schedule is all there or all gone. It needs that
  locks are held only while writing and by one transaction each, that no two hold one key, that rows have committed authors only, and that
  a DELETE takes an author's rows together or not at all (`SchedulesGoWhole`): a snapshot sees all of an author's rows
  because they were committed together. `ReplacedExactly` adds that two replacements that are open at once both know it (`MeetingsAreKnown`), that a
  DELETE takes rows of its own slice only (`DeletesAreAsked`) and that one that met no other finds its slice as its own statements left it
  (`AloneKeepsSlice`). For `OverlapNeedsRace` the check of `ValidateWeeklySchedule`, which sorts and compares neighbours, has to mean that no two intervals
  overlap: proved from a smallest counterexample, with the natural numbers' well-foundedness standing in for induction.

- **`ServiceImagesProofs`.** `ImagesImplementGallery`: every change of the table is one whole operation of `Gallery`. The table alone does not say
  why: a commit writes rows as they were read when each statement ran. `IInv` adds what the row locks and the partial unique index are for
  (`LocksOK`): no two open transactions write one row, what is written is there, and whoever has a primary row pending holds every row that is
  primary, old or new, so that at most one request has. It adds what a transaction has written up to each of its statements
  (`TransactionOK`): flags cleared, places `0 .. n - 1` given out, or a row taken out and possibly one promoted, each with the other column
  as it stands in the table; at the commit this is a promotion, an arrangement or a removal. The theorem needs both, and nothing about the order in
  which locks are asked for: a deadlock aborts, and aborting changes nothing. `RowHasObject` and `NoOrphan` need that the keys of a batch are fresh, its
  own, and without a row until their INSERT (`UploadOK`), and that what is being unlinked has lost its row (`UnlinkOK`). `NoOrphan` excepts the faults of `leaked`, each of which strikes
  the object itself; what is proved is that nothing else orphans one: no statement that failed, no rollback, no broken deadlock, no race.
- **`TenancyProofs`.** `FoundedWhole` is proved through what every statement of the transaction leaves behind: each row carries its
  transaction until the commit, so a tenant, its membership and its owner role become visible together or are rolled back together. What a guarded call has
  read of a committed tenant (that it was onboarded, that it had no currency) persists, because nothing in the program undoes it: hence
  `PublicIsReady` and `SettledCurrenciesStay`. `RevokedIsRefused` needs that a call that was barred when it began has not got past the membership check,
  and `OnlyFoundersWrite` that every owner role is the founder's, which enrolment and assignment preserve. `StandstillsAreOfThePool` follows
  the other kind of wait: a creation that waits for a slug waits for a transaction that has inserted its tenant, so is further on and waits for no slug itself; if
  none of them can go on, it is for a connection.
- **`AccountsProofs`.** `SignInsAreLinked` rests on rows never changing once committed, and on the keys an open transaction has inserted being
  free of committed rows: what a request found missing and then wrote is still its own. `SingleUse` needs to know, of every answer on its way,
  whether applying it could bring back a state whose flow the browser has seen answered: the cookies of answers are part of `IInv`.
- **`CatalogProofs`.** Rows are never deleted, never change tenant and never come back from ARCHIVED; so what a request has read (a
  category of its tenant, an active profile, a list of references) holds in all later states, and is carried in `IInv` as the locals' part. `PagesFindEverything`,
  `DepartedAreNotShown` and `LinksAreOfMembers` follow from it, and so do the foreign keys inside one tenant.

Each proof has one lemma or step per action; what a step of one request leaves to the others is one lemma, used by all of them (`OthersStep`,
`OperationsTouchTheirOwn` and the like). **Only model-checked** are liveness and what needs ENABLED, both out of TLAPS' reach: `EveryCallAnswered`, `Terminates`, and of `WaitsForWriter` and `StallNeedsFullPool` the parts that say that
`Blocked` is exactly what stops a request. Every other property of a passing run is a theorem.

## 5. Where code and text disagree

Shown by a run that TLC ends with a counterexample:

- **StaleEnd.** `booking_management_service.go` says a booking is eligible for an outcome only "once its appointment has ended". The end
  compared is the one read at the start of the call, and the UPDATE asks for CONFIRMED alone: a reschedule in between lets
  a booking that lies in the future be completed. No other operation can do that (`OutcomesAwaitTheEnd`).
- **PrimaryLost.** "A service with images always has exactly one primary once one has ever been set": an image read as not primary is promoted
  before its plain DELETE runs.
- **RosterOverlap.** Overlapping intervals are said to be "enforced by the service layer": the second of two replacements deletes by a snapshot that
  does not have the first one's rows, and both sets remain.

Met while reading, and described without a run:

- A failed refresh clears the cookie "so the browser stops replaying a credential that will never work again" (`identity/handler`). Two tabs refresh at
  once; the loser's answer, arriving last, clears the winner's fresh credential.
- `availability/engine.go` resolves a candidate in a skipped hour to an instant after the gap and checks closing on labels:
  on a day that skips an hour, an appointment can end after closing in real time (`OffersCanBeKept` leaves those days out).
- `booking_service.go:196-198` says of the stored end that "slot.End is the same value expressed as wall-clock". It is where the clocks do not change
  between start and end, and not where they do: `ConfirmationMatchesRow` states both. It is not either when the owner edits the duration between the
  two reads of the service; then the row also differs from the slot that was checked, and may end outside the hours (`WrittenInsideHours` names the exception).
- `tenant_service.go` lets the zone of a tenant with bookings be replaced. Rows keep their instants: what was written inside the hours is then
  outside them, and shown at another time of day. A call that has read the old zone still writes by it.
- `booking_management_service.go` drops the flag that tells whether its UPDATE hit a row: a cancel that lost to a complete is answered 200 with a
  COMPLETED booking, and a reschedule that lost to a cancel with a CANCELLED one.
- `authentication_service.go` refuses a disabled user's refresh after the rotation has committed and says the session "is treated as no longer
  valid"; the row stays unrevoked.
- `service_image_service.go`: an INSERT whose result is lost leaves a row whose object the compensation has removed
  (`doubted`), and the limit of images is checked against a count that may be stale. "A batch either uploads in full or nothing is stored": that is
  so of the validation; a later file whose put or INSERT fails leaves the earlier ones stored and the caller with an error. A failed compensating
  delete is called "the one unavoidable consistency gap", logged and so discoverable: a put whose answer is lost, and a process that dies before the INSERT, leave an object as well
  (`LoseObject`, `Die`), and so do a DELETE or a COMMIT that took effect with its result lost (`Delete` returns the error without coming to the object: `Learn`) and a death before
  `storage.Delete`; none of these is logged with the key. With R2 the compensating delete runs under the request's context, so a client that has gone away makes both fail.
- `model/service_category.go:38-43` says that archiving a category hides it and its grouping from the public catalog. `GetCatalog` looks names up whatever their
  status and shows an archived category's, on purpose: "its name should still resolve for that service's row" (`public_catalog_service.go:133-141`). The two comments
  cannot both be met; `NothingVanishes` takes no side, and asks only that the row is there.
- `Archive` of services, categories and profiles promises that a repeated call leaves `updated_at` alone. It decides on an earlier read: two
  concurrent calls both write.
- Migration 000019 describes `staff_profiles_tenant_user_unique` as unique "among the live rows only". The index of migration 000012 has no status in it: an
  archived profile keeps its user from a new one.
- `GetCatalog` has the tenant, with its currency, before it reads the services: while a tenant is first set up, priced services may be shown without a currency.
- `BookingViewPast` in `booking_management_service.go` is documented as "CONFIRMED bookings that have already started"; `toRepoFilter` lists every booking that is
  not cancelled. A booking completed early by the race of `StaleEnd` is in no view but ALL until its start.
- `currency_service.go` promises a write-once currency; two first calls can both write.
- Migration 000014 says its constraint makes repeated Google sign-ins idempotent "even under a race between two concurrent callbacks". It keeps
  the rows unique; the caller that loses the race is answered USER_ALREADY_EXISTS or EXTERNAL_IDENTITY_CONFLICT.
- `google_auth_handler.go` clears the state cookie on every exit of a callback, also when the cookie is that of a newer flow of the same
  browser, whose callback then fails.
- `tenant_service.go` needs a second connection inside a transaction (`StallNeedsFullPool`).

## 6. What is not modelled

- **Lists and single reads** (one statement, then projection), suggestions (a constant table), money (prices are data; only whether a
  tenant has a currency matters), the layout of receipts and error bodies.
- **Validation of shapes** (e-mail, slug, phone, currency codes), hashing, signing, the return path of a sign-in, PDF and image content: data
  no property tells apart.
- **Configuration, migrations, wiring, CORS, shutdown**: run once, or have no state.
- **Operations without a route**: role removal, platform roles.
- **Changes made outside the program**: a tenant's status; a user's is a fault (`Disable`) in `Sessions`.
- **Isolation below statements**: PostgreSQL's own correctness is assumed, as the external definitions of `PROJECT.json` state it.

## 7. Plan

Done in this order, most important first: bookings and their ledger, the engine, sessions, images, roster, tenancy, accounts, catalog, the
gallery's abstraction; then the proofs, component by component, last the engine's loop and the waits of sessions and tenancy. Nothing of the plan is left. What
a change of the code would call for first: `UploadImages`' limit, which no property covers as it is not kept (the count may be stale), and the
pool's standstill, should the reads of a creation move into its transaction.
