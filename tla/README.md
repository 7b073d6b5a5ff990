# Bus ticket system: TLA+ verification project

The repository is a bus ticket shop: a NestJS + Prisma + PostgreSQL backend
(`backend/src`), a React frontend (`frontend/src`) and the SSLCommerz payment
gateway. All durable state is in PostgreSQL. Concurrency comes from concurrent
HTTP requests, gateway callbacks and cron jobs, each of which runs one database
transaction, some `Serializable`, some at PostgreSQL's default READ COMMITTED.

## Inventory

| Component (code) | State | Operations | What is hard about it | What makes it correct |
|---|---|---|---|---|
| Seat locks and bookings (`modules/bookings`) | `BookingSeat` rows, unique per (trip, seat); `Booking` | lock seats, confirm a booking, staff booking, cancel by owner, cancel by admin, expire stale bookings | five handlers sweep, relink, recycle or release the same rows; two deadlines compared with `lt`, `gt`, `<=`; READ COMMITTED decisions written by id | a reserved seat has a confirmed booking; locks and bookings agree; a sold seat stays sold until its booking closes; the seat limit |
| Lock cleanup and booking expiry (two cron jobs) | the same rows | every 30 s each | complementary filters; a booking whose rows were swept away | every lapsed lock is given up, every overdue booking closes |
| Dashboard bookings (`modules/dashboard`) | the same rows, `lockedByUserId` | hold, release, manual booking | holds without expiry in a table of locks with one; a release call that gets lost | a hold is only released or sold, and by its holder |
| Admin bookings (`modules/admin-bookings`) | the same rows | counter sale, upserting rows | columns left over from holds | as above |
| Payments (`modules/payments`) | `Payment` | create (gateway session inside the transaction), success and failure callbacks | callbacks late, duplicated, or racing the expiry job; window checked before the commit | a confirmed online booking is paid, an expired one is not |
| Refunds (`modules/refunds`, owner's cancel) | `Refund`, `Payment`, `Booking`, rows; the gateway's own record | request, approve, reject, sync of the gateway's status | a gateway call between two transactions; asynchronous refunds; repeated approval | money goes back at most once and only for closed bookings; nothing is lost when the gateway answers late |
| Trips (`modules/trips`) | `Trip` | create, search, edit, cancel | cancellation and edits race bookings; nothing asks whether a trip is sold before it is moved | a cancelled trip has no tickets; what is sold stays good |
| Trip generator | `Trip` | daily generation at midnight and on demand, rebuild of everything | check and insert apart, one `createMany` for a day, several runs at a time | one trip per bus and departure; a reported day is whole |
| Operators | `Operator`, its first account | create, edit, suspend, activate, staff | company and account are two commits; suspension expires pending bookings | a company keeps or regains an account; e-mails stay unique |
| Buses and seats | `Bus`, `Seat` | create, edit, delete, make seats anew | the bus is committed before the seats, which may be refused or cut short | the seats are those of the bus; layouts, labels and drawn rows agree |
| Seat sync (`modules/seat-sync`, `features/seats`) | rooms, the client's seat map | join, broadcast snapshots after a commit, poll, merge | snapshots read after the commit and delivered out of order; handlers that never broadcast | the client's map converges to the rows |
| Accounts, roles and sessions (`auth`, `users`) | `User`; token hashes | sign-up, roles, deletion; login, refresh, logout, reset | the caller's row is read before the guards and used after them | an e-mail is one account; an administrator stays; companies stay apart |
| Tenant scope and guards | none | role, permission and company checks of every endpoint | three layers of checks, one table in the client, one in the server | an operator's user reaches only that operator; pages only ask what is admitted |
| Dashboard (`features/dashboard`) | the last company visited, drawers and forms | redirects, menus, loads, saves | the page decides by its own table what the server will admit | links open; forms are accepted; an untouched form changes nothing |
| Fares, papers, revenue | amounts in `Booking` and `BookingSeat` | quote, charge, discount, ticket, statistics | six copies of the fees; price and bus type are read again later | what is shown is charged |
| Routes, points | `Route`, points | CRUD | | database constraints |
| Mail, notifications, audit log | none of their own | output | | |

Components interact through the database rows alone, apart from three calls:
handlers call the seat sync service after their commit, payments and refunds call
the gateway, and the gateway calls back.

## Modules

| Module | Models | Kind |
|---|---|---|
| `SeatRows` | the rows of one trip, what a lock, a hold and a lapsed lock are, sweeps and release | operators |
| `SeatSale` | the promise: seats are sold to one booking at a time and given back when it closes | abstract specification |
| `SeatReservation` | locks, holds, bookings, payments, the two cron jobs, trip cancellation, operator suspension | specification |
| `MCSeatReservation` | small instances | model checking |
| `SeatReservationProofs`, `SeatSaleProofs`, `SeatLimitProofs` | inductive invariant, safety theorems and action properties; the refinement; the seat limit | proofs |
| `RefundPolicy` | until when a booking can be cancelled and for how much, on the server and in the page | operators |
| `SslAnswers` | how the two readers of gateway answers understand them | operators |
| `Durations` | the configured durations and their clamping | operators |
| `SeatLayout` | generated seats, their labels on the server and on the client, the rows in which the client draws them | operators |
| `Schedule` | the seeded fleet and timetable; the drawer of the bus page and what an edit does to a bus and its seats | operators |
| `Fares` | quotes, charges, discounts, tickets, papers, revenue | operators |
| `Forms` | what every form checks and sends, what the server's data transfer objects admit, what an edit form shows and changes | operators |
| `Access` | roles, permissions, endpoints with their guards, the company an endpoint works for | operators |
| `Dashboard` | pages, gates, redirects, menus, links, and the requests of every page | operators |
| `Rules` | the modules of operators at work: inputs change, drawers and forms are filled in, a sale proceeds | specification |
| `MCRules` | the inputs of the run | model checking |
| `RulesProofs` | invariants of the drawer, the sale and the forms; every property of `Rules` | proofs |
| `Accounts` | accounts and companies under concurrent requests | specification |
| `MCAccounts` | a small instance | model checking |
| `AccountsProofs` | inductive invariant, unique e-mails, companies kept apart, lost companies, the last administrator | proofs |
| `Fleet` | buses, seats and trips under concurrent requests, generation and sales | specification |
| `MCFleet` | small instances | model checking |
| `FleetProofs` | types, one trip per departure, tickets stay good, seats of buses, generated days | proofs |
| `MoneyBack` | the promise: money goes back at most once and only with the ticket | abstract specification |
| `Refunds` | the refunds of one paid booking and the gateway | specification |
| `MCRefunds` | small instances | model checking |
| `RefundsProofs` | inductive invariant, safety theorems, the refinement of `MoneyBack` | proofs |
| `SeatSync` | one trip's rows as clients see them, and one client's seat map | specification, checked as it is |
| `SeatSyncProofs` | inductive invariant, the safety theorem | proofs |

`SeatReservation` EXTENDS `SeatRows` and implements `SeatSale`; `Refunds` EXTENDS
`RefundPolicy` and implements `MoneyBack`. `SeatSync` starts from what clients can
see of the rows: status and expiry. `Accounts` and `Dashboard` EXTEND `Access`: the
same table of endpoints decides requests that race a change of the caller's row, and
answers the pages. `Schedule` EXTENDS `SeatLayout`. `Fleet` keeps one sale per trip
where `SeatReservation` has one trip with all its passengers.

### How SeatReservation follows the code

The state is one trip: `rows[s]` is the `BookingSeat` row of seat `s` (status,
`bookingId`, `lockExpiresAt`, `lockedByUserId`; a seat without row has status
`ABSENT`), `bookings[b]` a `Booking` (status, user, `paymentExpiresAt`, source),
`payment[b]` the status of its payment (`payments.create` makes at most one per
booking), `tripStatus`, `operatorStatus` and the clock. `inflight` holds
transactions that have read and not yet written.

* A Serializable transaction is one action at its commit. Its clock reading was
  taken before it began, so it may be up to `TxLag` old (Prisma ends an
  interactive transaction after its timeout; `Tick` drops older transactions).
* Transactions whose decision can be outdated when they write are two actions:
  `AdminCancelRead/Write`, `ExpireRead/Write` and `TripCancelRead/Write` run at READ
  COMMITTED and re-check nothing; `PaymentOpen/PaymentOpenCommit` calls the
  gateway in between and only inserts; `PaymentSuccess/PaymentSuccessCommit`
  checks the payment window before it commits. The two payment transactions are
  Serializable: the commit requires that the rows they write are unchanged since
  the snapshot (`SnapshotStands`) and that no payment appeared (`NoPaymentYet`).
  The statements of one READ COMMITTED transaction are written as one step: the
  rows they have in common with another transaction are locked by the first
  statement, and what can slip in between is the same as slipping in before.
* `Abort` ends a transaction without effect at any time (gateway error,
  serialization failure, crash). Nothing but the database survives a crash, and the
  database holds only committed steps, so a crash is an `Abort` of every open
  transaction.

| Action | Code |
|---|---|
| `LockSeats`, `ConfirmBooking`, `StaffBooking` | `BookingsService.create`, `confirmBooking`, `createStaffBooking` |
| `DashboardLock`, `DashboardRelease`, `ManualBooking` | `DashboardBookingsService` |
| `AdminBooking` | `AdminBookingsService.createAdminBooking` |
| `AdminCancelRead/Write` | `BookingsService.cancelByAdmin` |
| `ExpireRead/Write`, `CleanupExpiredLocks` | the two cron jobs |
| `PaymentOpen`, `PaymentOpenCommit`, `PaymentSuccess`, `PaymentSuccessCommit`, `PaymentFailure` | `PaymentsService` |
| `TripCancelRead/Write`, `SetOperatorStatus` | `TripsService.cancel`, `OperatorsService.suspend/activate` |

Left out: prices, passenger details, boarding points, the gateway's own checks of
a callback, notifications; broadcasts are in `SeatSync`, refunds in `Refunds`.

### How Refunds follows the code

The state is one booking that is confirmed and paid: the booking (status, sum
given back, and `seated`: whether it keeps its rows), its payment (status,
`refundStatus`, sum), the refund rows, and `gateway`, what SSLCommerz has recorded
under each of its references. Amounts are percentages of the fare, and `left` is
the time to departure in minutes, taken at a few instants around the boundaries
of the policy.

* `approve`, `adminSyncSslRefundStatus` and the passenger's `cancel` read, wait (for
  the gateway or, in `cancel`, between two statements at READ COMMITTED) and write.
  Each is two or three actions of a handler `h`, and `tx[h]` is what it took along.
  Two handlers can be at any two points at once.
* `requestRefund`, `reject` and `approve` without a gateway check and write in one
  Serializable transaction, or in one conditional update: one action.
* What a handler re-reads in its second transaction is a guard of that action, what
  it does not re-read is not: `ApproveSettled` and `ApproveProcessing` check the refund
  and the payment again, `ApproveFailed` and `SyncFailed` check nothing.
* The gateway is external. It accepts or refuses a refund, settles at once or later,
  or cancels; the answer can get lost, or reach the code in a form it reads as a
  failure (`Understood`, taken from what `SslAnswers` makes of answers). An answer can
  also be one the code takes for success while the refund is in process: `DONE` with a
  `refund_ref_id` and no status, or `request_status` "success", or to a query the status
  "success" (`PROMISED`; such a refund may still be withdrawn, `WITHDRAWN`). Every call
  carries a new transaction id, so the gateway may accept a second refund.
* `AdminCancel` is one action here: the race of its read and its write is in
  `SeatReservation`. `PaymentFailure` is the failure callback after success that
  `handlePaymentFailure` admits; `LateFailures` says whether it can come, because
  what it does to refunds is a question of its own. `SslChoices` says whether
  approvals can call the gateway, are settled locally, or both.

| Action | Code |
|---|---|
| `RequestRefund`, `Reject` | `RefundsService.requestRefund`, `reject` |
| `CancelRead`, `CancelWrite` | `BookingsService.cancel` |
| `ApproveLocally` | `RefundsService.approve` without gateway |
| `ApproveRead`, then `ApproveFailed`, `ApproveProcessing` or `ApproveSettled` | `RefundsService.approve` |
| `SyncRead`, then `SyncSettled` or `SyncFailed` | `RefundsService.adminSyncSslRefundStatus` |
| `GatewayAccepts`, `GatewayRefuses`, `GatewayReports`, `GatewayDecides` | SSLCommerz |
| `AdminCancel`, `PaymentFailure` | `BookingsService.cancelByAdmin`, `PaymentsService.handlePaymentFailure` |
| `Abort`, `Tick` | an answer that changes nothing, a refused transaction, a crash; time |

### How the operators follow the code

These modules are functions of their inputs; `Rules` keeps the inputs in its state and
moves through them, one family at a time or one change after the other where the order
matters (a drawer under edits, a trip that changes between quote, lock and sale, a form
that is filled in).

* `SeatLayout` keeps labels as letters and digits, or row and column for the R#C# form,
  since what can go wrong is one form read as another; what is shown is normalized twice,
  by the server when it sends and by the client when it builds the map. The three ways of
  drawing (economy by row number, business in rows of three and a last one of four,
  sleeper by deck and label) are compared with the rows the generator meant.
* `Schedule`: `Changes` are the entries a user can make in the drawer with what
  `handleFormChange` adjusts at once, `Payload` what is sent, `Updated` what
  `BusesService.update` makes of bus and seats (`Fleet` has the statements). `SeededBuses`
  and `SeededRoutes` are what the two seeders bring, `Departures`, `TripHours` and `Price`
  the timetable of `TripGeneratorService`.
* `SslAnswers`: `detectDeclinedApprovalInResponse` walks four levels below the top of an
  answer; one level (`nested`) stands for all of them.
* `Fares`: one operator for each place that adds up a sum. `sale` in `Rules` is seen,
  locked, sold and read again, and the trip's price and bus type may change at any of
  these points (`trips.update` and `buses.update` do not look at bookings). A desk sale
  says who made it: the two statistics count what an ADMIN sold differently.
* `Forms`: a text is its number of characters between the outer blanks, the number of
  these blanks, and how far it passes for an e-mail address; numbers are counted in
  thousandths; choices and dates are given or not. `...Form` is the set of requests a
  submission leads to (none when the client stops it), `...Opened` the draft an edit form
  starts from, `...Dto` the decorators of the class of that name, and `Faults` the fields
  `ValidationPipe` complains about. Rules that involve two fields or the database
  (a route that exists, arrival after departure, limits of a discount) are left out.
* `Access`: one record per endpoint of the back office. `Companies(scope, caller, asked,
  owner)` follows `resolveEffectiveOperatorId` and `assertResourceOwnership`, and
  `LinkedByTrip` adds the companies of the bus and the route in the body of `createTrip`
  and `updateTrip`, which `TripsService` looks up and compares with nothing. `Dashboard`
  follows a caller from the redirect to the page, and `Requests(caller, at)` are the calls
  the page makes and its buttons can make; whether the company is suspended is left out
  there (`Accounts` has it). Client and server keep equal tables of
  permissions, so one definition stands for both.

### How Accounts follows the code

`users[u]` is an account (state, role, company, e-mail), `operators[o]` a company's status,
and `requests[s]` what is left of a request: the caller's role and company as
`AccessTokenGuard` read them, the phase, and what it is about.

| Action | Code |
|---|---|
| `Register`, `CreateStaff`, `UpdateStaff`, `DeleteStaff`, `ChangeRole`, `DeleteAccount`, `SetStatus`, `CreateOperator` | the request arrives: the caller's row is read, guards and `TenantScopeService` decide on that copy |
| `Serve` | any other endpoint of `Access` |
| `Check` | what the handler reads before it writes (`emailExists`, `assertStaffBelongs`, the target of a change of role) |
| `WriteRegister` ... `WriteStatus` | its write, each on its own, under the unique index on e-mails |
| `WriteOperator`, `WriteOperatorAdmin` | the two commits of `OperatorsService.create` |
| `Crash` | all requests under way are lost |

Sessions are left out: tokens carry an id only and every request reads the row anew, so a
changed role counts from the next request on; what is left is the request under way,
which is what the model is about.

### How Fleet follows the code

A bus has one `size` (class and capacity), seats have the size they were made for and a
`batch` that counts how often they were made. A trip's id names bus and departure it was
made for and a copy number; `rows[t]` are the buses whose seats `BookingSeat` rows of the
trip refer to (they stop the deletion of these seats), `sales[t]` is the one sale of the
trip. A request reads and writes in separate steps, statement by statement.

| Action | Code |
|---|---|
| `CreateBus`, `UpdateBus`, `WriteBus`, `DeleteBus` | `BusesService` |
| `CreateSeats`, `CountSeats`, `AskLocks`, `DeleteSeats`, `InsertSeats` | `SeatsService.createForBus`, after a bus was written or on its own |
| `CreateTrip`, `UpdateTrip`, `WriteTrip`, `CancelTrip`, `WriteCancel` | `TripsService` |
| `Generate`, `Rebuild`, `DeleteAllTrips`, `ReadBuses`, `CheckNext`, `InsertTrips`, `Report` | `TripGeneratorService` and its endpoints |
| `Lock`, `InsertLock`, `Start`, `Confirm`, `GiveBack` | a sale, in the stages that matter to buses and trips |
| `Crash` | the server stops, or the database refuses, between two statements |

`cut`, `disturbed`, `late` and `moved` are history variables: they name the buses and trips
for which the code does not keep a promise, and each is set by one kind of step only.

### How SeatSync follows the code

The handlers of `SeatReservation` appear with what clients see of them: the rows they
change and whether they call `broadcastTripSeats`. Locking, holding, releasing,
confirming, selling and the clean-up job do; `createAdminBooking` and every handler
that closes a booking (failure callback, expiry job, admin cancellation, refund)
do not. Their guards are weaker than the handlers' own, since the model keeps no
bookings; what holds for more handlers' steps holds for these.

* A broadcast is owed at the commit and reads the rows later (`ReadSeats`), perhaps
  after further commits; it may fail, and only a client in the room gets it. Any two
  messages can overtake each other, as can responses to fetches.
* The client is one stay on the page of one trip. A step is one task of the browser
  with the rendering it causes: `SeatsUpdated` merges a snapshot into the map and
  into `realtimeBookingSeatsRef`, `TripFetched` merges a response with that. `drawnAt`
  is when the seats were computed last (`useMemo` over the trip's data).
* The two pages that show a map (`SeatSelection`, `AdminSeatSelection`) hold the same
  code. The first, non-silent load is a fetch like the others. The client's clock is
  the server's.

| Action | Code |
|---|---|
| `LockSeats`, `HoldSeats`, `ReleaseHold`, `ConfirmBooking`, `SellSeats`, `SellSeatsSilently`, `CleanUp`, `CloseBooking` | the handlers, as above |
| `ReadSeats`, `LosePush` | `SeatSyncService.broadcastTripSeats`, `handleJoinTrip` |
| `JoinTrip`, `LeaveTrip` | `useTripSeatSync`, `SeatSyncGateway` |
| `FetchTrip`, `FetchFailed`, `TripFetched` | `TripsService.findOneWithSeats`, `fetchTripDetails` |
| `SeatsUpdated` | `onSeatsUpdated` |

Left out: who may join a room, whose lock it is (`heldByMe`), the seats the user has
selected.

## Runs

| Run | Shows | Bounds |
|---|---|---|
| `online` | the passenger side with two overlapping transactions, admin cancellation and both jobs: reserved rows and linked locks have their bookings, the seat limit, paid bookings, and the refinement of `SeatSale` | 2 seats, 2 bookings, 2 passengers, 2 transactions, 4 instants |
| `counter` | every action, with two staff users; holds and public locks stay apart, nobody takes a running lock | 2 seats, 2 bookings, 1 passenger, 2 staff, 3 instants |
| `live` | lapsed locks are given up, overdue bookings close | 1 seat, 2 bookings, 1 passenger, 1 staff, 4 instants |
| `refunds` | one refund at most is approved, money is given back once (`MoneyBack`) | 2 refunds, 2 gateway references, 2 handlers, 2 different sums |
| `refunds_late` | with late failure callbacks as well: books and ticket agree, the books call returned only what the gateway has called returned, with its sum, decisions stand | the same |
| `rules` | the announced refund is the one returned; all settings of the durations; all answers of the gateway; labels identify seats and every seat is drawn once, in its row; links of the dashboard open and its pages ask only what is admitted; seats follow edits of a bus; the timetable can be driven; sums shown are charged; forms are accepted and, untouched, change nothing | 12 instants, 8 settings each, every combination of the fields read; buses of 9 capacities with 1 to 10 columns; every role with and without a company, 2 companies, every place; 2 prices, 3 bus types, 1 or 4 seats, the boundary discounts; every form with one input off the usual, over rows with one field off, at lengths around every limit |
| `sync` | one client's map under lost, late and overtaking snapshots, safety and convergence | 1 seat, 2 messages and 2 responses under way, 3 instants |
| `accounts` | an e-mail is one account, requests stay in their company but for the bus and route a trip is put on, what becomes of the last administrator and of a company without accounts | 4 accounts, 3 e-mails, 2 companies, 2 requests at a time |
| `fleet` | edits of buses, seats and trips, generation and rebuild, crashes between statements, and what is sold meanwhile | 2 buses, 2 departures, 2 copies of a trip, 2 sizes, 2 requests at a time, 4 in all |
| `expiry_race`, `double_booking`, `cancelled_sale` | where the code does not keep what a message or a document says (findings in `PROJECT.json`) | as small as the case allows |

Two bookings and two seats are enough for one booking to take the seat of
another, one seat per booking or both; a third adds no new pair of handlers on one
row. Times are ticks: with `SeatLock = 1` a lock is running, expires at this very
instant, and is lapsed within three ticks, and a clock reading one tick old
(`TxLag = 1`) sees it one stage earlier. `expiry_race` needs a transaction that
starts before the deadline and commits after it, hence `TxLag = 2` and a longer
window there. `MaxTime`, `MaxInflight` and the number of booking ids bound the
state space; runs without dashboard staff may use up ids and time and then stop,
so they turn the deadlock check off; `counter` and `live` keep it on.

Two refunds and two handlers give every pair of approvals, syncs and cancels, on one
refund or on two with different sums, and a reference for each; the refunds of one
booking come to an end, so these runs turn the deadlock check off. In `sync`, seats
do not interact in the map (it is merged row by row), so one seat is enough; two
messages and two responses overtake each other and themselves in turn.

In `accounts`, a request races one other at every phase; four accounts are two that demote
each other, one that signs up and one of a company. In `fleet`, one bus exists with a trip
at the start: two requests are a generation or an edit against another, and four in all let
an edit follow a rebuild that a crash cut short; a second copy of a departure is what a
moved trip leaves room for. Requests are bounded, so both runs end and turn the deadlock
check off; so does `rules`, where some inputs have no successor. The
checks of a form are about single fields, so one input is changed at a time; the drawer
of the bus page, whose entries depend on each other, takes any number of changes.

The type invariants and the inductive invariants were checked with TLC while the proofs
were written; since they are proved, the runs no longer spend time on them.

Fairness. `live`: the clock advances and the two cron jobs keep being scheduled
(`@Cron` every 30 seconds each), and the expiry job's transaction, retried by every
run, is not refused or stopped every single time. `sync`: the clock
advances, the page polls every ten seconds, and a request that is made again and
again does not fail every time (the trip stays scheduled, so `findOneWithSeats`
answers). Nothing is assumed of passengers, staff, administrators, the gateway or
the socket.

## Disagreements seen while modelling, without a run

The models contain the steps, so each can be followed in them.

* A payment inserted after its booking expired (`PaymentOpenCommit` after
  `ExpireWrite`) stays open; its success is refused later, by then the customer may
  have paid.
* A dashboard hold has no expiry. When the release call is lost nobody clears it, the
  clean-up job passes it over, and `booking-timeouts.util.ts:43` documents a hold
  duration that no query reads.
* A sweep frees the rows of a PENDING booking before the booking closes; until the
  expiry job comes it is a booking without seats. `SeatSale` allows it: nothing was
  sold.
* `create` and `confirmBooking` never read a trip's status, and `cancel` checks and writes at
  READ COMMITTED; `SUMMARY.md:121` promises "Cancel trip + auto refunds", while `cancel`
  refuses when anything is booked and nothing refunds (`cancelled_sale` shows the sale).
* "rejects seats locked by another user" (`dashboard-bookings.service.spec.ts:237`): a hold has
  no `lockExpiresAt` and only locks with one in the future are refused, so `createManualBooking` and
  `createAdminBooking` sell a seat another member of staff holds.
* "booking was not cancelled" (`approve`): a refused second approval marks a refund FAILED
  that was approved meanwhile.
* "seat status stays fresh even if WS misses an event": what the socket said once stays in
  `realtimeBookingSeatsRef` and wins over later polls as long as it has not lapsed, so a
  seat closed silently (`CloseBooking`) stays taken on that page.
* Two cancels at once file two refunds: each checks for an open one before either
  inserts. `AtMostOneApproved` holds nevertheless, because approval checks the payment.
* Two approvals of one refund both reach the gateway, with different transaction ids, so
  it may pay twice while the books return the money once. Likewise a refund can be
  rejected while the gateway is paying it out.
* A `DONE` answer without status but with a `refund_ref_id` is read as success
  (`sslcommerz-refund.service.ts:300-311`), and so is `request_status` "success"
  (213-220), although the comment at 103-106 says that the request can be a success while
  the approval is pending or cancelled. The ticket is then cancelled and the books say
  refunded while the gateway may still withdraw; "Booking stays active until the refund
  settles" (`refunds.service.ts:360`) is true of answers read as `PROCESSING` only.
* A status query that is not answered with `DONE` counts as a cancelled refund
  (`SyncFailed`), and a late sync marks a refund FAILED that was approved meanwhile.
* `BusesService.update` commits a new class or capacity before the seats are regenerated;
  when that is refused ("Cannot regenerate seats while future trip seats are locked or
  reserved") or fails on a row that still refers to a seat, the bus keeps its old seats.
  An economy bus of 40 turned BUSINESS this way shows 28 of them (`disturbed` in `Fleet`).
* A change of the bus type alone never regenerates seats: an AC bus turned SLEEPER keeps
  benches the sleeper view does not draw.
* `normalizeCreateDto` and `normalizeUpdateDto` give every BUSINESS bus the capacity 28,
  sleepers too, which have 36 seats; the form (`BusesPage.jsx:159`) and the seeder say 36.
  Any update of such a bus, even of its name, counts as a change of capacity and
  regenerates the seats.
* A seat of row 21 or 12 in column 10 (ten columns per row, at least 120 seats) is stored
  as U10 or L10, which `normalizeSeatNumber` takes for an old sleeper label; it is shown as
  UU7 or LF7. `LabelsIdentifySeats` leaves ten columns out for that reason.
* After a late failure callback the payment is FAILED, no longer REFUNDED, and another
  refund of it can be approved; `GivesBackOnce` and `AtMostOneApproved` are about
  `LateFailures = FALSE` for that reason.
* A company whose administrator's e-mail is taken stays without accounts and keeps its name
  (`LostCompaniesStayLost`); two administrators can demote each other at the same time.
* `trips.update` moves a trip to another bus, route or time although it is sold, and the
  generator then makes the old departure anew (`moved` in `Fleet`).
* `TripsService.create` (187-200) and `update` (573-627) ask whether bus and route exist, not
  whose they are: an OPERATOR may put a trip on another company's bus or route, which the
  page never offers. `CompaniesAreKeptApart` names the two rows as an exception; that
  later reads of the trip then show them is not counted as reaching the other company.
* The generator crosses every supported bus with every supported route, whichever company
  they belong to: a bus leaves on several routes at the same hour. Seeded routes belong to
  the first active company while trips carry the bus's, and `startBooking` asks for points
  of the trip's company, so trips of another company on these routes cannot be booked by
  customers. Bus status and suspended companies are ignored. One `createMany` inserts a
  day: a bus deleted meanwhile loses the whole day.
* A SLEEPER is charged a platform fee of 70; the web ticket and the statistics count 40.
  A free online trip shows the seat sum twice on the web ticket; a free ticket of the desk
  shows the full fare; the mailed PDF has no line for the discount.
* The whole sum of a confirmed desk sale of an ADMIN is the company's revenue in
  `getOperatorStats` (`operators.service.ts:276-287`) and the platform's in
  `getDashboardStats` (`users.service.ts:259-266`, `349-363`), so it counts twice when the
  two are added (the last conjunct of `QuotesAreCharged`); a sale of STAFF counts once.
* Papers read price and bus type again: after a change the lines no longer add up
  (`QuotesAreCharged` asks for the sum only then). `BookingSeat.price` is the price at the
  lock, `Booking.totalAmount` that at the booking, and the company's revenue counts the former.
* Fields the forms do not check as the server does are listed in `FormsAreAccepted`: a
  fractional capacity, notes and reasons beyond 255 characters, staff names of one letter,
  a password trimmed after its check, an empty e-mail of a company (which cannot be created
  without), profile texts that are too long, e-mails a browser takes and `IsEmail` does not,
  and a short new password, reported as "current password incorrect".
* Saving an untouched profile writes the fallbacks '01700000000' and MALE; saving an
  untouched seeded BUSINESS SLEEPER takes 8 of its 36 places.
* The booking filter of an ADMIN asks for routes that are served to the desk only, and the
  ADMIN's print link leads to a page behind `BOOK_TICKET`. `UsersPage` sends filters that
  `/users` ignores; its role dialog offers USER and ADMIN only; the hooks for locking seats
  from the dashboard and `handleGenerateSeats` are never called.
* `useFetch` does not cancel: the answer to an earlier filter may overtake and replace that of
  the current one. After a save, a reload in the same `try` that fails is shown as
  "Failed to save", and repeating it creates a second row.

## Theorems

448 statements with proofs in eight modules. All are for any sets of seats, bookings,
users, refunds, references, handlers, messages, and any durations, capacities, prices and
texts (`NoneAssumption`, `ReservationAssumption`, `RefundsAssumption`, `SyncAssumption`,
`OperatorsAssumption`, `AccountsAssumption`, `FleetAssumption`, `RulesAssumption`,
`FormsAssumption`: `None` is no id, no time and no answer, the bus has finitely many seats,
durations are naturals, inputs have the types below).

`SeatReservation`:

* `TypeCorrect`, `ReservedSeatsBacked`, `LinkedLocksBacked`, `HoldsKeepShape`,
  `ConfirmedIsPaid` follow from one inductive invariant, `IInv`. The properties
  alone are not inductive: the two-step transactions write by ids they read
  earlier, so `InflightKnown` says these bookings exist and which kind they are;
  `PaymentIsOnline` says a failure callback only reaches online bookings; and
  `HolderSold` says where a leftover holder can be, which `HoldShape` needs when a
  reserved row is released. The steps are grouped by what they do to the rows: they
  free rows (`RowsFreed`), insert a booking with its rows (`BookingInserted`),
  close bookings and free all their rows (`BookingsClosed`), settle one, or leave rows
  and bookings alone (`TransactionBegun`, `SurroundingsIInv`).
* `HoldsAreKept` and `LiveLocksAreKept` are the action properties, from the same
  invariant.
* `SeatsAreSold`: `SeatReservation` implements `SeatSale` under the mapping "a seat
  is owned by the booking of its RESERVED row". Counter sales and settlements are
  `Sell`, `confirmBooking` is `Open`, the closing handlers are `Close`, all else
  stutters.
* `SeatLimitHolds`: only `confirmBooking` adds a seat to a passenger's live
  bookings, and it counts before it links.

`Refunds`:

* `RefundsTypeCorrect`, `RefundClosesBooking`, `BooksAgree`, `GatewayBacksBooks` from
  `IInv` in `RefundsProofs`, which adds what handlers carry: a SUCCESS a handler has
  heard belongs to a gateway record of the refund's amount that the gateway has called
  returned (`ApprovalsKnown` for approvals, `SyncsKnown` for syncs), and a stored
  reference was given by the gateway for that refund (`RefsKnown`). `GatewayBacksBooks`
  says no more than the code can know: whether a refund that was called returned is
  settled later is the gateway's.
* A lemma sorts every step into three kinds: it settles one pending refund, it touches
  neither payment nor approvals, or it is a failure callback. `OneApproval` and
  `RefundsGiveBackOnce` (the refinement of `MoneyBack`) assume `LateFailures = FALSE`, which
  excludes the third; `RefusalsStand` needs no such assumption.

`SeatSync`:

* `PushedSeatsAreTaken` from `SyncInvariance`: as long as what came over the socket is
  active the map holds the very same row, and the map was drawn no later than now. Time
  only makes rows inactive, and every merge keeps active realtime rows.

`Accounts` and `Access`:

* `AccountsTypeCorrect`, `EmailsAreUnique` and `KeptApart` from `IInv`, which adds
  `CopiesHold`: an account of a company never changes its company, so the copy a request
  decided on still says where its caller belongs; and the table of endpoints, taken whole,
  lets nobody but an ADMIN reach beyond it, the statistics by id and the bus and the route
  of a trip apart.
* `LostStayLost`: accounts of a company are made for its own people or with the company; once
  none is left and none is on its way (`Lost`), no request that comes in or writes brings one.
* `LastAdminFalls`: `changeUserRole` refuses who would demote himself, and `NoOwnDemotion`
  keeps this until the write; so the last ADMIN goes with the account, or falls to a change
  of role by somebody who is no ADMIN any more.

`Fleet`:

* `FleetTypes`; `FleetOneTripPerDeparture`, which rests on the checks being repeated by the
  unique index at every insert and move (`Taken`).
* `FleetTicketsStayGood` needs `IInv`: seats belong to a bus that is there, rows of
  `BookingSeat` name seats that exist and therefore stop their deletion, a sale knows its
  trip's bus unless the trip was moved, and a lock or a cancellation under way knows of the
  sales and moves it would miss.
* `FleetSeatsFitTheBus` and `FleetSeatsAreLostToCrashesOnly` need `SInv`: a bus whose seats do
  not fit it is one a request is at work on (and then says how far it is), or one in the
  history variables. The order of the statements does the rest: the new size is committed
  first, the old seats go next, the new ones are inserted last.
* `FleetGeneratedDaysAreWhole` needs `GInv`: every pair a running generation has read is
  still to do, on its list, or taken by a trip, and trips only leave in a rebuild or with
  their bus.

`Rules` and the modules of operators:

* `PreviewsAreKept`, `DurationsAlwaysFit`, `AnswersAreAlwaysReadAlike` follow from the types
  (`Chosen`): for every instant, every setting and every combination of the fields read.
* `SeatsAlwaysFollowEdits`, `TimetableAlwaysRuns` and the first part of
  `UntouchedFormsAlwaysChangeNothing` rest on `EditsInv`: whatever is typed, a bus was given
  seats for its class and its capacity, and the capacity is one its type and class ask for,
  with the seeded sleepers of business class apart. That the number of seats is the capacity
  comes from numbering the places of a layout (`EconomyNumbered`, `BusinessNumbered`,
  `SleeperNumbered`), for any capacity and one to ten columns.
* `LabelsAlwaysIdentifySeats` and `RowsAreAlwaysDrawnWhole` for the same layouts: quotient and
  remainder (`Division`) tell seats and labels apart, and each of the three ways of drawing
  finds the rows the generator meant.
* `QuotesAreAlwaysCharged` from `SaleInv`, which keeps with a sale the booking made of it and
  what it was made of, for any prices, discounts and numbers of seats: with the shares of
  company, platform and insurance in what is paid online, and the double count of what an
  ADMIN sells at the desk.
* `LinksAlwaysOpen` and `PagesAreAlwaysServed` are about the tables of pages and endpoints,
  for any companies: the lemmas follow a caller by role from the redirect to the guards.
* `FormsAreAlwaysAccepted` and `UntouchedFormsAlwaysChangeNothing` from `PageInv`: an open
  form holds entries of the kinds of its inputs, and before any change what its `...Opened`
  makes of a row. One lemma per form says which faults its requests can have. The rows an
  untouched form cannot save are named by `Unsavable`, and the theorem says that there are
  no others.

`FormsAssumption` says what can be typed into an input of each kind and what can be stored of
a row: what the DTOs admit, for every way the row can be written. None of them trims, so a
text may consist of blanks, and `UpdateBusDto` and `UpdateRouteDto` (plain `@IsString`) take an
empty one as well; `updateStaff` passes over it, and a point needs a character. What
decides a save besides the row itself is left out: a unique index that a trimmed text meets,
a route that exists already or has the same city twice (`RoutePage` refuses it), the seconds
of a trip's times, which `toDateTimeInput` cuts off (`TripPage.jsx:643-653`). The buses of the
first part of `UntouchedFormsAlwaysChangeNothing` are those the seeds and the form make; the
API takes an economy sleeper of another capacity than 36, which the form then sets to 36.
Texts end at `Unlimited` characters, the bound that stands for "no limit" in the server's
classes (the database's columns have none). `RulesAssumption` has the types of the other inputs. TLC
evaluates both on the run's inputs.

Only model-checked: the liveness properties (`live`, `sync`), since the prover does not reach
fairness, and the three findings, which are violations. Every invariant and every other
action property of the passing runs is a theorem.

`Forms` joins records with its own `++`, since the operator `@@` of module TLC is opaque to
the provers.

## Plan

1. Done: `SeatReservation`, `Refunds`, `SeatSync`, with their promises and proofs.
2. Done: the rules (`RefundPolicy`, `Durations`, `SslAnswers`, `SeatLayout`).
3. Done: `Fleet` with `Schedule`: buses, seats, trips and generation, and their proofs.
4. Done: `Access`, `Accounts`, `Dashboard`: guards, companies and pages, and the proofs.
5. Done: `Fares` and `Forms`.
6. Done: the rules as a specification of their own, and the proofs of all its properties and
   of what was left of `Fleet` and `Accounts`.
7. Left: sessions (refresh racing logout, `auth.service.ts:92`); the booking flow of the
   client (countdown, payment return, retries); a composition of `SeatReservation` and
   `Refunds` over the same rows.

## Not modelled

* Tokens, refresh, logout and password reset: their state is read by no other component.
* Searching, lists, top lists and day keys of the statistics: queries that change nothing.
  (`getDashboardStats` takes day keys from `toISOString` of a local midnight.)
* The gateway's session request, the order validation and the redirects of a payment.
* Mail, notifications, the audit log, the layout of pages and papers: output only.
* Routes and points beyond what their requests may hold: single rows whose rules are the
  database's.
* Code that nothing reaches: `prisma/seed.ts` is commented out, and `AdminController`,
  `OperatorsController`, `StaffController` and the admin controllers of bookings, routes,
  payments and refunds are registered in no module.
