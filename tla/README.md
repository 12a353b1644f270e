# EazyLiving: a verification project

TLA+ models of EazyLiving, a rental-management system: a FastAPI backend over
PostgreSQL (`services/`, `gateway/`, `shared/`) and a React client
(`frontend/`), which is developed against a mock of its own
(`frontend/src/mocks`). The models are translated from the code. TLC checks them
on small instances and TLAPS proves the main results of nine of them for every
instance.

Paths below are relative to the repository's root. `PROJECT.json` maps every
definition to the lines it stands for and lists the hazards of the code at their
lines, with the properties that cover them.

## 1. Inventory

| Component | State | Operations | What is hard | What makes it correct | Module |
|---|---|---|---|---|---|
| Leasing workflow (`services/property_service`: `lease_request_service.py`, `lease_service.py`) | tables `lease_requests`, `leases`; `units.is_occupied` | submit, approve, reject a request; create, activate, terminate a lease | three tables are kept in agreement by handlers that read, await and write, with no constraint or lock behind the tests | occupancy, leases and answers agree; answers are final; one tenant per unit | `Leasing`, `LeasingTx` |
| Properties and units (`property_service.py`) | tables `properties`, `units` | create and delete properties and units, assign a manager, show or hide a unit | deletion against insertions in flight, cascades | no row refers to one that is gone | `Leasing`, `LeasingTx` |
| Database sessions (`shared/db/database.py`, `shared/repositories/base.py`) | one transaction per call, row locks, a pool of 30 | begin, flush, commit, roll back | READ COMMITTED, stale copies in the identity map, lock order, a handler that needs a second connection | all or nothing; no deadlock; calls end | `LeasingTx`, `Services` |
| Payments (`services/payment_service`) | table `payments` | create, process, mark paid, partial, overdue | a status is tested on a copy and written after an await | a date of payment is never lost; a status moves as the service says | `Services` |
| Maintenance (`services/maintenance_service`) | table `maintenance_requests` | create, assign, start, complete, close, cancel, escalate | a state machine driven by several staff at once | closed and cancelled stay so; assignee and escalation are kept | `Services` |
| Event bus and notifications (`shared/events.py`, `services/notification_service`, `gateway/main.py`) | handler lists; table `notifications` | publish, one handler per event | handlers commit before the publisher does, fail in silence, and need a second connection | a notification if and only if the change was committed; everyone concerned is told | `Services`, `LeasingNotices` |
| Users and authentication (`services/user_service`, `gateway/auth.py`) | table `users`; denylist of revoked tokens in memory | register, log in, log out, edit | races on the email, restart | a revoked token is refused; one account per email | `Session`, in part |
| Client session and routing (`frontend/src/contexts/AuthContext.jsx`, `api/client.js`, `routes`) | token, user, status, route | hydrate, log in, register, log out, save the profile | chains of calls that overlap; answers late, refused or lost | a usable page, whatever was answered; no spinner that stays | `Session` |
| Client notifications (`hooks/useNotifications.js`) | two lists | poll, mark read optimistically | polls overtaken by flips, and the reverse | the list converges to the API's | `Inbox` |
| Maintenance pages | rows, tabs, a dialog | submit, assign, move, cancel | rows that are old, double submission, dialogs that outlive their row | the lifecycle the pages draw | `Tickets` |
| Offer pages | rows, dialogs, a spinner | list a property and offer it, accept, decline, withdraw | two calls for one operation, answers for offers that were answered | a manager by one accepted offer | `Offers` |
| Lease and payment pages | rows, dialogs | invite, add a unit, draft, sign, sign, pay | a chain of calls, repeated and lost calls, loads in parts | signatures, occupancy and invoices agree | `Tenancy` |
| Dashboards and property pages | lists loaded at once | load, add a property | lists of different moments, figures computed apart, lists cut off | no figure that was never so; figures agree | `Dashboards` |
| Mock server (`frontend/src/mocks`) | arrays in the browser | the API the client is developed against, with offers, invites and signatures | differs from the backend | the promises the pages rely on | with the pages |
| Toasts (`contexts/ToastContext.jsx`) | a list, a timer each | show, dismiss | | | not modelled |
| Analytics (`services/analytics_service`) | none | aggregate queries | several queries, several snapshots | figures of one answer agree | not modelled |
| Admin panel (`gateway/admin.py`) | none of its own | edits of any row | bypasses the services | | not modelled |
| Migrations (`migrations/versions`) | schema | two revisions | the revisions lack `lease_requests` and `is_available`, which the model classes declare | the schema is the one the models use | empty tables only |

Interaction in the backend: a router builds a service on the call's session
(`get_db`); the service reads and writes through repositories, publishes an
event on the process-wide bus and awaits its handlers; `get_db` commits when the
call has returned, or rolls back if it raised. Calls interleave at every
`await`, that is at every statement, and share nothing but the database, the
bus, the pool and the denylist.

Interaction in the client: a page loads rows when it is mounted, often in
several calls at once; its buttons act on those rows, however old they are; a
call is sent, handled and answered at three different moments, and its answer is
merged into what the page holds by then, or dropped if the page was left. Each
user has a browser; browsers meet only in the API.

## 2. The modules

| Module | Models | Abstraction |
|---|---|---|
| `Leasing` | properties, units, leases and lease requests; one step per accepted call | calls do not overlap |
| `LeasingTx` | the same calls statement by statement, each in a session of its own | extends `Leasing`, whose tables are the committed rows |
| `LeasingNotices` | who is told of what in leasing; a call and its handlers are one step | extends `Leasing` |
| `Services` | payments, maintenance requests, the bus, its handlers and the pool, statement by statement | three calls |
| `Session` | one tab: who is signed in, the route, and the operations in flight | one page load |
| `Inbox` | the bell and the notifications page, two instances of one hook | one user |
| `TicketLifecycle` | what the pages promise about a maintenance request | abstract |
| `Tickets` | the maintenance pages and the API behind them | implements `TicketLifecycle` |
| `Offers` | how a property gets its manager, pages and API | one owner |
| `Tenancy` | from invitation to paid rent, pages and API | one property |
| `Dashboards` | six pages that add up lists | one tab |
| `LeasingProofs` | theorems about `Leasing` and, in its second part, `LeasingTx` | |
| `ServicesProofs`, `SessionProofs`, `InboxProofs`, `TicketsProofs`, `OffersProofs`, `TenancyProofs`, `DashboardsProofs` | theorems about the module of the same name | |
| `MC...` | constants and symmetry sets for TLC | |

In the page modules a call is a record in a small set `Calls` of those that may
be in flight together: `reply` is `awaited` until the API has handled it,
`mounted` says that the page that sent it is still there. Pages are written
against the handlers of `frontend/src/mocks/handlers.js`, so these are the API
in `Tickets`, `Offers`, `Tenancy`, `Inbox` and `Dashboards`: the backend has no
offers, invitations or signatures.

### Leasing

`properties`, `units`, `leases` and `requests` are the four tables: functions
from primary keys to rows, or `Null` where there is no row. A row has the
columns that some guard reads. Rents, dates, addresses and messages are left
out; so is the unique unit number, whose violation only refuses a call. A lease
row has one auxiliary field, `request`, the request whose approval inserted it:
the code pairs the two in the `lease_request.approved` event and stores no
column for it.

Every action is one handler from its first read to the commit: its guards are
the handler's 403, 404 and 409 tests and the foreign keys, its effects all the
rows it writes. `ApproveRequest` inserts the lease as ACTIVE, occupies the unit,
rejects the other pending requests for the unit and approves the one in hand.
A refused call changes nothing and is not a step. Users are constants; the
handlers read only their role and id.

Deleting a unit is refused while a lease or request refers to it, in whatever
status: `lease_requests.unit_id` and `leases.unit_id` are RESTRICT, and the ORM
would set `leases.unit_id`, which is NOT NULL, to NULL. Maintenance rows do the
same and are not in this module, which therefore allows deletions that the
whole system refuses.

### LeasingTx

A session has the call it serves, the statement it is about to run (`pc`), the
requests its flush has still to update (`todo`) and the rows it has written and
not committed (`wr`). What the module takes from the libraries, and marks
external in the map:

* PostgreSQL runs the transactions at READ COMMITTED: a SELECT sees committed
  rows; an UPDATE takes the row's lock, waits if another transaction has it,
  and then changes the assigned columns of the row's newest version. `WriteLease`,
  `Occupy` and `Decide` therefore build on the committed row at the time of the
  write, not on the copy read at the start.
* SQLAlchemy emits an UPDATE only for columns whose value changed with respect
  to the value read: `ReadOccupied` skips the write of `is_occupied` when the
  value read is already the one assigned. Its identity map is weak, so the unit
  that the scope check read and dropped is selected again.
* A foreign key holds the unit's row against deletion from the insert on
  (`UnitInUse`), and the inserts of one session are invisible to the others.

`Begin` stands for opening the session and the first read and test; `Scope` for
`_assert_manager_scope`; `Check` for `has_pending` or `get_active_lease`;
`InsertRequest`, `InsertLease`, `WriteLease`, `Occupy`, `ReadQueue`, `Decide` for
one statement each; `Commit` and `Rollback` for `get_db`. `Rollback` is possible
at any statement: an exception, a lost connection or a crash of the process.
The order of the updates of one flush is left open. Maintenance of properties
and units (`PortfolioTx`) is one statement that waits for the row's lock.

### LeasingNotices

The calls of `Leasing` with the notifications that their events leave (`told`):
the manager of a property learns of a request for it, a tenant of the answer and
of the lease's start and end, as `notification_service/handlers.py` and the
subscriptions of `gateway/main.py` say. Events without a handler that saves
(`lease.created`, `unit.occupied`, `unit.vacated`) leave none. A call and its
handlers are one step: what may go wrong between them is the same as in
`Services`, which is about that.

### Services

A bill and a maintenance request are each a row with a status and the columns
that calls set beside it (date of payment and late fee; assignee and
escalation). A call connects, reads and tests (`Read`, `Refuse`, `Insert`),
updates (`Flush`), publishes, waits for its event's handler (`HandlerConnect`,
`HandlerSave`), and commits. `Allowed` is the tests of the twelve operations,
`Assigned` what they assign, `Changed` what the ORM then writes: the columns
whose value is not the one read, over the row as it is when the lock is granted.
That is why an overtaken call can undo a status but never a date or an assignee
it did not know of, which `CommitsKeep` states.

`InUse` counts the connections: a handler that saves has one beside its
publisher's. Who finds the pool empty waits for the pool's timeout: a publisher
is then refused (`ConnectTimeout`), a handler fails, is logged and forgotten
(`HandlerTimeout`). `MaxFaults` failures of the database or of the process
(`HandlerFails`, `Rollback`, `Crash`) may strike at any point. `overtaken`,
`doubted` and `lost` are auxiliary: they remember which rows a call was
overtaken on, undone after its event, or not notified of.

`Moves` is what the tests of the services admit, which is more than the class
draws: `assign` asks only that a request is not terminal, so one in progress may
go back to ASSIGNED. `Drawn` is the class comment's straight line from SUBMITTED
to CLOSED, and `LifecycleAsDrawn`, which the code violates, says it of the calls
(section 4). What the code does and no property forbids: two overlapping calls
may revive a cancelled request or make a paid bill overdue; a notification may
exist for a change that was rolled back. `NoticesAreTrue` and `CommitsKeep` say
exactly when these may happen.

### Session

`token` is `sessionStorage["eazy.token"]`, `user` and `status` are
`AuthProvider`'s, `loc` the route. An operation is a chain of calls: `login`
then `me`, `register` then `login` then `me`, `put` then `me`, `logout`;
`hydrate` is the effect of the page load. Each call reads the token when it is
sent. `Settle` is what the three guards of the routes do to a location until
they agree, `Links` the links of the page shown. Where the code navigates twice
(the form's `navigate` and the guard's) the order is left open. `Forget` resets
tokens nobody holds, so that two tokens are enough.

### Inbox

`rows` is the user's notifications at the API, `list[h]` what the hook `h` shows.
`Refresh` is the mount or the interval, `MarkRead` and `MarkAllRead` flip the row
at once and send the call; a failed call is followed by a refresh. `GotList`
replaces the list however old the answer is: a poll sent before a flip brings
the old mark back, for a while.

### TicketLifecycle and Tickets

`TicketLifecycle` is `frontend/src/lib/maintenance.js`: the steps in order, one
at a time, cancellation until the work is done, one notification per step.
`Tickets` is the mock's handlers with their transition table, and the list, form
and detail pages of tenant and manager, with the assignment dialog. The
refinement maps `phase` to the status column and `told` to the notifications
(`L == INSTANCE TicketLifecycle WITH ...`); the run checks `L!Spec`. Nothing in
the API keeps a request without assignee from being started: `HasAssignee`
depends on what the pages send.

### Offers

`OwnerAddPropertyDialog` sends "property" and then "offer"; the first may succeed
alone. `AcceptOfferDialog`, `DeclineOfferDialog` and `OwnerOffers` answer, and
are refused unless the offer is pending. `Abandon` is leaving a page: reads are
forgotten, a write may still arrive, a listing goes on to its second call. A
dialog is closed by an answer of its kind, whichever offer it is open for by
then.

The manager's `NewPropertyDialog` posts a property too (`mocks/handlers.js:237`),
with no offer and no toast about one. It is left out of `Offers` and is part of
`Dashboards`; `Offers` and its properties speak of the properties that the
owner's dialog made.

### Tenancy

The manager's pages invite tenants, add units, draft leases and sign them; the
tenant's pages sign and pay. `CreateLeaseDialog` sends "create" and then "sign".
A load is several calls answered apart (`HandlePart`), a page shows rows only
when all are there. A payment is checked and settled in two steps (`CheckPay`,
`SettlePay`), between which others may come: a paid invoice can go back to
pending when a second attempt is declined (`mocks/handlers.js:581-597`), but it
keeps its receipt. Two leases in force on one unit are possible, as the handlers
test the unit nowhere between draft and signature.

### Dashboards

A page needs a set of lists (`Needs`); each is answered at a moment of its own
(`HandlePart`) while leases, invoices, requests and offers change elsewhere
(`Elsewhere`) and the date changes (`NightFalls`). The figures are operators on
the rows: `occupancyByProperty`, `revenueTrend`, `paymentMix`, `maintenanceMix`,
`queue`, `paymentsQueue`, `expiringLeases` and `expiringSoon`; of the tenant's
page also the lease on its card with the status it shows (`lease`: the active
one, or whichever comes first in the list, by `Position`), the lease to sign and
the recent requests; of the manager's the occupancy of each property. `held` is
auxiliary: every figure that would have been shown, had all lists been read at
one moment since the page was opened. `NewPropertyDialog` adds its property to
whatever the page holds.

What the code does and no property forbids: the manager's "Within the next 60
days." lists leases that have ended (the owner's list does not); while loading,
and beside the error of a failed load, cards say "All paid up" and "Inbox zero";
a property created while the page loads may vanish or appear twice; the offers
banner is missing without a word when its list fails; a page may combine lists
of different moments, card by card.

## 3. Runs

All counts are distinct states.

| Run | Bounds | Checks | Shows |
|---|---|---|---|
| `serial` | 2 tenants, a manager, an owner, an admin, 1 property, 1 unit, 2 leases, 3 requests; 135 373 | `OnePendingPerTenant`, `RequestsLetExclusively`, `LeasesMatchApprovals`, `HistoryIsKept` | the promises of the API to calls that do not overlap |
| `two_sessions` | 2 sessions, 2 tenants, an owner, 1 unit, 2 leases, 2 requests; 791 888 | `TxTypeOK`, `NoDanglingRows`, `OccupiedUnitsAreLeased`, `ApprovedRequestsHaveLeases`, `NoLockCycle`, `NothingReopens` | what remains true when calls overlap at any statement |
| `one_at_a_time` | 2 sessions used in turn, 2 tenants, a manager, an admin, 2 leases, 2 requests; 230 455 | `ImplementsLeasing` | statement by statement, with rollbacks, the handlers implement `Leasing`: a commit is the abstract step, all else is invisible |
| `calls_end` | 2 sessions, 1 tenant, an owner, 2 leases, 1 request; 270 184 | `CallsEnd` | no call waits for ever |
| `services` | 2 sessions, 1 bill, 1 maintenance request, a tenant and a manager, a pool of 2, 3 calls, 1 failure; 311 278 | `TypeOK`, `NoticesAreTrue`, `CommitsKeep`, `CallsEnd` | when notifications tell the truth, what no commit loses, and that publishers holding every connection do not wait for ever |
| `session` | 2 accounts, 2 tokens, 2 operations in flight; 385 251 | `TypeOK`, `SignedInHasUser`, `LinksOpen`, `SessionSettles` | any two operations together leave a usable tab, and end |
| `inbox` | 2 notifications, 2 calls; 356 561 | `TypeOK`, `FlipsAreAccounted`, `NewsArrive`, `ReadSticks` | optimistic flips and polls converge to the API |
| `tickets` | a tenant, a manager, an assignee, 1 request, not yet submitted, 2 calls; 262 615 | `TypeOK`, `HasAssignee`, `RowsLag`, `RefusedMeansMoved`, `Lifecycle` | pages and API implement `TicketLifecycle` |
| `offers` | an owner, a manager, 2 properties, 2 offers, 2 calls, 1 failed listing; 1 215 820 | `TypeOK`, `ManagedByOffer`, `PagesLag`, `UnofferedAreReported`, `AnswersStand` | one accepted offer makes one manager, whatever is sent twice or late |
| `tenancy` | a manager, a tenant, 1 unit, 2 leases, 2 calls; 850 981 | `TypeOK`, `LeasesAreComplete`, `PagesLag`, `SignaturesStand` | signatures, units and invoices agree and stay |
| `dashboards` | 5 leases, 3 requests, 2 properties, 1 offer, 2 days, 2 changes elsewhere; 217 508 | `SaidWasSo`, `FiguresAgree` | no figure that was never so; figures agree |
| `double_grant` | 2 sessions, 2 leases, 2 requests | `NoDoubleGrant`, violated | see section 4 |

Bounds of the backend modules. One unit is enough for everything a handler
couples, because no handler touches two units except a property's deletion,
whose effect on several units the proofs cover. Two leases allow two tenancies
of a unit at once or in turn; three requests allow one to be granted while
others of the same and of another tenant wait. Two sessions are the fewest that
overlap; three sessions (with one request) and three leases were explored once
without a violation of the invariants of `two_sessions`. Keys are finite sets:
when they are used up no more rows can be created, which stands for the end of
the explored behaviour, not for a limit of the code. In `services` bills and
maintenance requests share sessions, pool and bus but no row, so one of each is
enough; a pool of 2 is the smallest in which a publisher and its handler both
find a place, and two publishers together fill it; three calls let one overtake
another and a third build on the result; the starting tables are an empty one
and two with a bill that is due and a request that is new or in progress.

Bounds of the page modules. Two calls in flight let an answer overtake another,
of one page or of two, and a call be repeated before or after the first was
handled. In `offers` two properties and two offers let a listing be
repeated after a failure. In `tenancy` two leases let drafts compete for the
unit. In `session` two operations cover every pair in flight together; a third
is one of them again, since operations meet only in the five variables of the
tab. In `dashboards` the lists show two rows (the pages show five) and the
manager's list of leases and the tenant's of recent requests one, so that
something is cut off; the tenant has two leases and two requests; there are leases of
every status, an invoice in arrears, one open and one paid; two changes elsewhere
are enough for two lists to be of different moments. Symmetry is used for row
keys, calls and users that are interchangeable, and never with a liveness
property or a constant whose values differ.

Deadlock is not checked (`CHECK_DEADLOCK FALSE`): in every module keys or calls
may be used up and the users may rest, which is an end and not a fault. That
nobody waits for ever is said by `CallsEnd`, `SessionSettles` and `NoLockCycle`.

Fairness. Nothing is assumed of users, failures, or changes made elsewhere.

* `LeasingTx` (`TxFairSpec`): a session that can run does so (weak fairness of
  `Run`): the event loop runs every ready task. A statement that needs a row
  lock gets strong fairness (`Locking`): PostgreSQL queues those who wait for a
  row. With weak fairness alone `CallsEnd` fails, by a waiter that is overtaken
  for ever.
* `Services` (`FairSpec`): weak fairness of `Step`, by the same loop and by the
  pool's timer, which fires when no connection comes back; strong fairness of
  `Flush`, by the lock queue.
* `Session`: a call is handled or fails, and its continuation runs (weak
  fairness of both): `fetch` settles, by an answer or by an error.
* `Inbox`: the same; and strong fairness of the bell's `Refresh`, because the
  interval fires again and again and a browser does not bound the calls in
  flight, as `Calls` does.

Properties worth a remark:

* `OccupiedUnitsAreLeased` holds with and without overlap. Its converse does
  not, even without (section 4). The code loses tenancies' occupancy, never
  vacancies.
* `RequestsLetExclusively` is the part of "one tenant per unit" that the request
  workflow does ensure when calls do not overlap: only the activation of a lease
  made by hand can break it.
* `NoLockCycle` depends on the order in which the handlers write: leases, then
  units, then requests. Two approvals meet at the unit before either touches the
  requests of the other.
* `NothingReopens` is what overlap leaves of `HistoryIsKept`. A late write may put
  one answer in the place of the other and bring a terminated lease that was made
  by hand back into force. It never makes a request wait again or a lease a draft,
  and a lease that an approval granted, being born ACTIVE, stays ended.
* `CommitsKeep` separates what the ORM's column-wise UPDATE protects from what it
  does not: columns that the late call did not assign survive, the status does
  not. Of the status it says that a call which nobody overtook keeps to the
  tests of its service, not that it keeps to the lifecycle the class draws.
* `PagesLag` and `RowsLag` say that no page is ahead of the API. It is what makes
  the 409 of a handler mean "somebody was faster" (`RefusedMeansMoved`).
* `UnofferedAreReported` counts: the toast speaks of the offer and not of the
  property that was created without one, and a second attempt creates another.
  The count is an upper bound, as the toast of a first call that was refused,
  which leaves no property, counts too.
* `ReadSticks` and `NewsArrive` are temporal because a list that was asked for
  earlier may undo a flip, or hide a notification, until the next poll.
* `SaidWasSo` leaves out the offers (their failure is silent on purpose), the
  number of cards of the manager's properties, and the figures that need today's
  date, whose list may be of another day.

Each property of a passing run has a mutant, a definition marked "Fault" in the
modules: a forgotten filter, a skipped lock, a missing reset, a status no page
knows. With it the property is violated under the same bounds.

## 4. Where documents and code differ

* `NoDoubleGrant` (run `double_grant`): two approvals for one unit in flight both
  succeed, although the user guide says that the other requests are rejected.

The following configurations are kept beside the runs; TLC finds each statement
violated.

| Configuration | Statement | What the code does |
|---|---|---|
| `MCLeasing_occupied` | `LeasedUnitsAreOccupied` | `terminate` marks the unit vacant although another lease on it is ACTIVE |
| `MCLeasing_onelease` | `OneActiveLeasePerUnit` | `create` refuses a lease if one is ACTIVE, `activate` looks at no other lease; drafts made earlier are all activated |
| `MCLeasing_create` | `CreatingALeaseOccupies` | the class comment of `LeaseService`; the unit is occupied on activation |
| `MCLeasingTx_pending` | `OnePendingPerTenant` | with two sessions: test and insert are not atomic |
| `MCLeasingTx_lifecycle` | `LeaseLifecycle` | an activation that decided on an old copy brings a terminated lease back |
| `MCLeasingTx_queue` | `ApprovalClearsQueue` | a submission in flight survives an approval |
| `MCServices_paid` | `PaidStays` | a call that read the bill before it was paid makes it overdue or partial after |
| `MCServices_drawn` | `LifecycleAsDrawn` | a request in progress can be assigned again and is ASSIGNED after, with no other call in the way (`maintenance_service.py:105`); the class comment (`:31`) and the user guide's table (`USER_GUIDE.md:200`) let only a submitted one be assigned |
| `MCLeasingNotices` | `AnsweredAreTold` | the requests that an approval rejects along with granting one have no event (`lease_request_service.py:145-151`), so nobody notifies their tenants, although the user guide promises it (`USER_GUIDE.md:58`, `:304`) |
| `MCSession_OneIdentity` | `OneIdentity` | of two operations that overlap, one may store the token and the other set the user |
| `MCSession_SignOutEndsSession` | `SignOutEndsSession` | a logout call that fails clears the token and leaves the user on the screen |
| `MCDashboards_cards` | `CardsAgree` | a card says "No active leases on this property." (`OwnerProperties.jsx:309`) above a count of active leases, once an active lease's end date has passed |

The first three, `MCServices_drawn` and `MCLeasingNotices` need no concurrency.
Those of `LeasingTx` need two overlapping
calls; a row lock on the unit (`SELECT ... FOR UPDATE`) or a partial unique
index would remove them.

Differences met while reading, not the subject of a property: at this commit
nobody can sign in against the mocks (their login returns `token`,
`api/auth.js:5` reads `access_token`; `GET /users/me` meets the mock's
`/users/:id`), although `frontend/README.md:5` says that demo accounts can. The
backend has no `/management-offers`, `/tenant-invites`, `/managers` or
`/leases/:id/sign`. The mock's table "mirrors the backend State pattern"
(`mocks/handlers.js:625`) but for `assign`, which the backend also accepts in
progress.

## 5. What is proved

Each proof is for arbitrary values of the constants, under the assumptions that
the modules name and every run of the module evaluates.

`LeasingProofs`: any sets of users, properties, units, leases and requests, and
any `Null` that is not a row or a request (`NullAssumption`).

* `ShapeCorrect`: `[]TypeOK` and `[]NoDanglingRows`. Neither is inductive alone:
  activation writes the row of the lease's unit, which is well typed only if the
  row exists, and the row exists only because the guards range over typed rows.
  Their conjunction, `Shape`, is inductive and is the base of all that follows.
* `OccupiedCorrect`: `Shape /\ OccupiedUnitsAreLeased` is inductive. `LeaseMoves`
  captures what approval, activation and termination have in common: a lease
  row and its unit are written together.
* `HistoryCorrect`: every step satisfies `NoWayBack`. `RequestEffect` and
  `LeaseEffect` list what one step can do to a row; the remaining proofs argue
  from these lists instead of the actions.
* `OnePendingCorrect`, `ApprovedCorrect`, `MatchCorrect`: each inductive with
  `Shape`.
* `ExclusiveCorrect`: `RequestsLetExclusively` is inductive with `Shape` and
  `LeasesMatchApprovals`.

Its second part, on `LeasingTx`: any number of sessions, overlapping at any
statement, any sets of users and rows (`NullAssumption`; `CallAssumption`: no call is `Null`).

* `TxShapeCorrect`: `[]TxTypeOK` and `[]NoDanglingRows`, from `TxShape`, the base of
  the rest. It says of every session, from the statement it is at, which rows it
  holds and how they differ from the committed ones (`Sound`), and that no two
  hold the same row (`Exclusively`).
* `OverlapKeepsOccupiedLeased`: `[]OccupiedUnitsAreLeased`. Not inductive: a
  `terminate` that read its unit as vacant ends its lease without writing the
  unit, which may have been occupied since. `StaysLeased` says that an occupied
  unit has an ACTIVE lease that nobody is about to end like that (`Skips`): the
  call that occupied the unit meanwhile made another lease ACTIVE.
* `OverlapKeepsApprovedLeased`: `[]ApprovedRequestsHaveLeases`, with `TxShape`.
* `OverlapReopensNothing`: `TxSpec => NothingReopens`. Which of its changes a commit
  makes depends on what the call read long before. `OnlyForward` says what of that
  still holds of the row it writes (`Forward`: the lease it activates was made
  without a request, the one it terminates is no draft, a held row is no step
  back) and that a granted lease is never a draft (`GrantedInForce`). Both rest on
  the property: what is read stays true enough because nothing reopens.
* `NoDeadlock`: `[]NoLockCycle`. By `TxShape` a session waits only for sessions of
  a higher `Rank`, which follows the order lease, unit, request and, among those
  that answer requests, puts the approval, which holds the unit, above the
  rejection of a single request. So one of the highest rank of a group waits for
  nobody in it.
* `OneAtATimeImplements`: `OneAtATimeSpec => ImplementsLeasing`, the refinement of
  `Leasing`: a commit is the abstract step, all else a stutter. `AloneShape` adds to
  `TxShape` how far the only open session has come with its step (`Progress`),
  its tests being still true as nobody else commits. So what the first part shows
  holds of the statements whenever calls do not overlap.

`ServicesProofs`: any number of sessions, bills, tickets and users, any size of
the pool and any number of calls and failures (`BoundsAssumption`,
`KeysAssumption`, `TablesAssumption`). `StartAssumption` is for the notifications:
no bill that is paid and no repair that is done is there to start with, as
nobody would be told of them any more.

* `ShapeCorrect`: `[]TypeOK`, from `Shape` and `Counts`. `Shape` says that a
  session's tests held for the copy it read (`Ready`), that the copy is the row
  unless the session was overtaken, that what it is about to write is its own
  columns over the row, and that it is the row's only writer (`OneWriter`).
  `Counts` bounds the pool, and the notifications by the calls that have got past
  their handler.
* `CommitsCorrect`: `Spec => CommitsKeep`, from `Shape`: `Merged` is the UPDATE
  column by column, `Effect` what a service assigns. The statuses are those that
  the tests admit (`Moves`), the way back from IN_PROGRESS to ASSIGNED included.
* `NoticesCorrect`: `[]NoticesAreTrue`. Not inductive: a row on which a call was
  overtaken is no longer doubtful when that call is rolled back before its event,
  so something must be known of doubtful rows too. `Told` says the same of the
  rows whose overtaken calls have not reached their commit (`Unsure`): those calls
  have told nobody yet. Who gets to the commit un-overtaken settles the row if and
  only if its event says so (`Aims`, `FinalOps`).

`SessionProofs`: any sets of accounts, tokens and operations in flight and any
roles (`ConstantsAssumption`).

* `ShapeCorrect`, `SignedInCorrect`: `[]TypeOK` and `[]SignedInHasUser`. The user
  is what `/me` answered, so `Shape` adds that a token which the tab or a call holds
  was issued to an account (`Owned`), and that an answer that is under way names
  one (`Fit`). The route is open to the user because everything that sets user,
  status or route goes through the guards (`SettleOpen`, `PlacedAnew`).
* `LinksCorrect`: `Spec => LinksOpen`: `NAV_BY_ROLE` and `allowedRoles` agree
  (`NavOpen`), and the user of a page with links has passed its guard.

`OffersProofs`: any sets of managers and offers, finite sets of properties and
calls, any `MaxFailures` (`UsersAssumption`, `KeysAssumption`).

* `ShapeCorrect`: `[]TypeOK`. Inductive once calls and dialogs are sound
  (`SoundCall`, `SoundDialog`): each kind of call names the user, manager,
  property or offer its handler reads.
* `ManagedCorrect`: `[]ManagedByOffer`. Nothing in the code tests for a second
  accepted offer. It holds because a property is made by one call, which then
  offers it once; so `Market` adds `Listed` (an offer is for a listed property)
  and `OfferedOnce` (a property has one offer or one call that carries it to be
  offered, not both).
* `AnswersCorrect`, from `Shape` and `Market`; `LagCorrect`, from `Known` and
  `Sources`, which trace every shown answer to the handler it came from;
  `ReportedCorrect`, by counting the calls that carry a property and the listings
  that failed; it is about the owner's dialog, the only one in the module.

`TenancyProofs`: any sets of tenants, units and calls, any number of leases
(`UsersAssumption`, `SeedAssumption`).

* `ShapeCorrect`: `[]TypeOK`, as in `OffersProofs`.
* `CompleteCorrect`, `LagCorrect`: `LeasesAreComplete` is not inductive with
  `Shape`: a payment is tested in one step and settled in the next without
  testing again, so that its invoice is still there is known only from what
  pages have been shown.
  `Tenure`, the conjunction of `Shape`, `Complete` and `Pages`, is inductive and
  gives both.
* `StandsCorrect`: `Grows` lists what a step may add to the tables, and
  `[][SignaturesStand]` follows.

`InboxProofs`: any sets of notifications and calls, both instances of the hook.

* `ShapeCorrect`: `[]TypeOK`.
* `FlipsCorrect`: `[]FlipsAreAccounted`. Not inductive: the call that the hook
  waits for might be about another row and leave the flip behind. `Flips` names a
  call that repairs this very row (`Repairs`), and adds that what a list shows
  exists and what an answer has as read is read (`Listed`).

`TicketsProofs`: any sets of users, requests, assignees and calls, and any rows
to start with in which whoever is assigned exists (`NoneAssumption`,
`SeedAssumption`).

* `ShapeCorrect`: `[]TypeOK`, with sound calls and dialogs as in `OffersProofs`.
  A call that carries the event "assign" names somebody.
* `HolderCorrect`: `[]HasAssignee`. The handler asks for no assignee; the table
  leaves "submitted" only to "assigned" or the end, and the first has no other
  event than "assign" (`PutMoves`), which by `Shape` names somebody.
* `LifecycleCorrect`: `Spec => Lifecycle`, the refinement of `TicketLifecycle`.
  Only the POST and the PUT handler move a request (`RequestsMove`); the first
  is `Submit`, the second is `Advance`, `Cancel` or a stutter, because a
  transition of the table is the next step or the end (`TableFollowsSteps`).

* `LagCorrect`: `[]RowsLag`. Not inductive: an answer is put into the dialog that
  is open, which must be about the same request. `Abreast` adds where rows are:
  on a detail page, in its dialog and in the calls it waits for, everything is
  about the page's own request (`RowsFit`, `DialogFits`, `CallFits`). `Reach`, the
  states that can follow a state, is an order (`ReachItself`, `ReachOrders`), and
  handlers move a request along it (`RequestsForward`).
* `RefusedCorrect`: `[]RefusedMeansMoved`, from `Abreast`: a call carries a step
  that was possible for the row its button stood on (`WriteFits`), so the table
  refuses it only once the request has another status.

`DashboardsProofs`: any sets of leases, requests, offers and properties, any
tables to start with, any days and any number of changes (`SeedAssumption`: a
property that leases have a unit of is listed, nothing was paid on a day to come)
and any lengths of the lists but none (`ListsAssumption`: leases and requests are
finitely many, and have an end, a due date, a priority and a place in their list).

* `ShapeCorrect`: `[]TypeOK`, which no run repeats. A load waits only for lists of
  the page it is for (`ColumnsApart`: no two of them fill the same column), so an
  answer after the page was left finds nothing.
* `SaidCorrect`: `[]SaidWasSo`. Not inductive: while a load is under way, what has
  come must be known to have been so. `Loading` says it of every card whose list
  has been answered (`Source`); `Known` says that whatever the page would say if
  it read everything now is in `held`. `SameCard`: rows with the same list give
  the same card. Two cards need more. "Revenue of the year" is counted from the
  day it is shown: it changes overnight only with the year, and then nothing is
  paid in the new one (`YearTurns`, `NightHonest`). The card that
  NewPropertyDialog adds is of a property without units (`Creating`), so it
  changes no figure.

* `FiguresCorrect`: `[]FiguresAgree`. What the rows of a page must be like is
  little: `Rows`, and that nothing was paid after the day they were put on the
  screen (`PaidByThen`, inductive with `Shape`); the rest is about the operators.
  `Sorted` gives a row the place that as many rows have as come before it, so
  that it is sorted and leaves nothing out follows by counting finite sets
  (`SortedIs`), without an induction; `TopIs` says what a cut of it keeps, and
  the queues and lists follow. The charts are sets that do not overlap
  (`TwoParts`, `ThreeParts`, `SixParts`). For the trend, a month is of one year
  (`MonthIs`), so each bar of this year is a part of the year's revenue
  (`BarIs`), and while the year has no more than six months the bars are all of
  it (`TrendAdds`).

Only model-checked: liveness under fairness (`CallsEnd`, `SessionSettles`,
`NewsArrive`, `ReadSticks`), which is out of the prover's reach. Every safety
invariant, action property and refinement that a passing run checks is a theorem
for all values of the constants.

## 6. Not modelled

* The admin panel, which edits rows at will; the analytics queries, which change
  nothing; the migrations, beyond the empty tables; toasts, which nothing reads
  back.
* A failure, a rollback or a late connection between a leasing call and its
  handlers: `LeasingTx` leaves the bus out, `LeasingNotices` takes call and
  handlers as one step, and `Services` has the bus statement by statement for
  payments and maintenance. The reading and deletion of notifications in the
  backend.
* A restart of the server as `Session` would see it (the denylist is lost),
  deactivated users, and the backend's user pages.
* `PUT /properties` and the mock's `PUT /leases`, which no page uses or which
  write only what no guard reads; partial payments on the pages.
* The order of commit and response within FastAPI, schemas, wording, layout, and
  filters by text.

## 7. Plan

The bus in `LeasingTx`, statement by statement; restart and denylist in `Session`.
