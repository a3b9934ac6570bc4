# Verification of the event booking platform

TLA+ models of the parts of this repository where requests, database
transactions, locks, timers and restarts meet: the seats of an event and the
pages that show them, the booking life cycle and its tickets, coupon usage,
payments and mails behind a circuit breaker, the accounts and sessions of the
users, the renewal of a page's tokens, and the tab of the browser in which a
user signs in, looks at pages and sends forms.  TLC checks the models on small
instances, TLAPS checks the proofs for every value of the constants.

## 1. The system

| component | state it keeps | operations that change it | interacts with |
|---|---|---|---|
| Events (`events.service.ts`) | rows of `events`: `capacity`, `availableSeats` | `create`, `update`, `delete`, `updateAvailableSeats` | called by Bookings inside its transactions; broadcasts through the WebSocket gateway |
| Bookings (`bookings.service.ts`) | rows of `bookings`, `tickets` | `create`, `confirmBooking`, `cancelBooking` | Events, Coupons, Payments, Email queue |
| Coupons (`coupons.service.ts`) | rows of `coupons`, a Redis counter and a Redis lock per code | `create`, `update`, `validateAndApply`, `revertUsage` | Redis |
| Payments (`payment.service.ts`) | `mockPayments` in process memory; intents at Stripe | `createPaymentIntent`, `confirmPayment`, `refundPayment`; the webhook handlers only log | circuit breaker, Stripe, timers |
| Circuit breaker (`circuit-breaker.service.ts`) | a circuit per name in process memory | `execute`, its two outcomes, the reset timer | Payments and Email |
| Tickets (`tickets.service.ts`) | `tickets.isValidated` | `validateTicket` | Bookings, whose saves cascade to the tickets |
| Accounts and sessions (`auth.service.ts`) | rows of `users`, `sessions` | register, login, refresh, logout, verification, forgot, reset | Email queue |
| OAuth (`oauth.service.ts`) | rows of `users`, `sessions` | find, link or create a user | Google, GitHub, Facebook, Accounts |
| Email queue (`email.service.ts`, `email.processor.ts`) | a Bull queue in Redis | queueing, three attempts per job | circuit breaker, SMTP |
| WebSocket gateway (`websocket.gateway.ts`) | rooms | subscribe, unsubscribe, disconnect, `emitSeatUpdate` | Events, the pages of an event |
| Frontend store (`apiSlice.ts`, `authSlice.ts`, `authApi.ts`, `eventsApi.ts`, `couponsApi.ts`) | credentials, a mutex around token refresh, cache entries | `baseQueryWithReauth`, `setCredentials`, `clearCredentials`, `getMe`, the patches and invalidations of the caches | every controller, the gateway |
| Frontend pages (`App.tsx`, `ProtectedRoute`, `AuthProvider`, `pages/`) | the location, the forms | visits, redirects, submissions | the store |

Metrics, health, GraphQL types, pipes, filters and shared schemas keep no state
of their own; they are listed in `PROJECT.json` with the reason why they are
not modelled.

**What is hard.**  The API runs in several replicas on one database, so every
await is a point where another request may act.

* *Seats.* `create` checks the seats on an unlocked read, inserts the booking
  (whose foreign key locks the event row against `FOR UPDATE`), and only then
  takes the row with `FOR UPDATE NOWAIT` in a nested transaction.  Its catch
  block gives seats back inside a transaction that is about to roll back.
  `update` saves a whole `Event` object loaded without a lock.
* *Bookings.* `confirmBooking` and `cancelBooking` read the booking without a
  lock, call other services, and save it; only the seats are changed in a
  transaction.  Any call in between may throw.
* *Coupons.* The limit is checked on a Redis counter and counted later, under a
  lock that expires; `revertUsage` takes no lock; the counter expires too.
* *Payments.* Calls overlap, so results arrive after the circuit has changed;
  each failure at the threshold sets another reset timer, and the timers do not
  look at the state; mock intents and circuits vanish with the process.
* *Mails.* Bull retries a job whose handler throws, but the fallback of an open
  circuit does not throw; SMTP may accept a mail although the call fails.
* *Tokens.* Several requests of a page find their access token expired, in any
  order; one refreshes, the others wait; the user signs out or reloads meanwhile.
* *Accounts.* Handlers load a User, wait for bcrypt, a provider or a query, and
  save the whole object: TypeORM writes every column in which it differs from
  the row by then.  Sessions are saved twice, and a reset ends them in between.
* *Tickets.* `validateTicket` reads and saves without a lock, and
  `confirmBooking` saves the tickets it loaded before it asked for the payment.
* *The feed.* Seats are broadcast before the commit, to the pages connected to
  the replica that serves the request; a page fetches, then joins.
* *The tab.* Which page may be opened is decided by the user in the store, what
  a request may do by the tokens it carries; `getMe`, renewals, sign-ins and
  sign-outs change them at different times.

## 2. Modules

```
SeatCounter            abstract: one atomic counter
   ^ implemented by
SeatInventory          the row, its locks, the transactions
   ^ extended by                 ^ extended by, and implemented by
EventEditing                   Bookings     (create, confirm, cancel)
   ^ extended by                 ^ extended by
SeatFeed  (pages, sockets)     TicketGate   (tickets, gates)

CouponCounter          abstract: the uses of one coupon
   ^ implemented by
CouponUsage            the lock, the counter and the row behind it

CircuitBreaker         one circuit
   ^ extended by
Payments               three operations and mock intents behind it
EmailQueue             mails of a Bull queue behind another one

Sessions               abstract: sessions that are handed out, and end
   ^ implemented by              ^ implemented by the server's part of
Accounts                       Reauth
(users and sessions on         (one page's requests and tokens
the server)                    against the sessions)

Storefront             one tab: pages, roles, forms, getMe, renewals
```

`MCX` has the sets TLC runs `X` on.  `XProofs` has what is proved of `X`;
`BookingsProofs` also has TicketGate, `CircuitBreakerProofs` also Payments and
EmailQueue, and `SeatFeedProofs` also EventEditing, each in a section of its
own.  Reauth and Storefront look at the same
`baseQueryWithReauth` from two sides: Reauth has the sessions and every step of
a renewal but one account and no pages; Storefront has accounts, roles and
pages, and knows a token by its account.

### SeatCounter
What the service promises about one event: `Reserve(q)` when enough seats are
left, `Release(q)` up to the capacity, both atomic.

### SeatInventory
`event` is the committed row.  A transaction is named by its request; `phase`
is its place in the handler, `entity` the `Event` object it holds, `change` what
it asks for.  PostgreSQL is external and modelled by what the code relies on:
`sharers` are holders of KEY SHARE (the insert of a booking), `rowLock` the
holder of FOR UPDATE.  `LockRefused` is NOWAIT; `RejectSeats` is the exception
of the bounds check, which rolls the nested transaction back to its savepoint;
`Compensate` is the catch block of `create`; `Fault` is a query or a process
that fails, from which nothing but PostgreSQL's rollback follows.  `sold` is a
ghost.  `BeginRestore` lets any committed booking be restored any number of
times, which is more than the handlers do: what limits it is the business of
Bookings.

### EventEditing
Adds `EventsService.update` as three steps (load and assign; TypeORM's
comparison with the present row; the UPDATE of the columns that differ) and
`delete` with the foreign key of bookings.  A save after a deletion inserts the
object again.

### SeatFeed
EventEditing with pages that show the event.  A page is the cache entry of
`getEventById`: fetched once (`ServeEvent` reads the committed row), then
subscribed, then patched by what arrives on its socket (`wire`).  The backend
runs as several replicas (`k8s/backend-deployment.yaml:7`, `k8s/hpa.yaml:11`,
`architecture_doc.md:361`), and neither `main.ts` nor `package.json` has an
adapter that joins their socket.io servers: a transaction is served by a replica
(`servedBy`), a page is connected to one (`at`), and `emitSeatUpdate` reaches the
pages in the room of its own replica only.  Every step of the backend that saves
seats inside `updateAvailableSeats` emits, before it commits.  `Disconnect` loses
what is on the wire, and the new connection is in no room: the code subscribes
once.  `heard` marks a page that has got an update since it joined: one that
has not may show a number older than the last broadcast, because it fetched
before it joined.  `told` is the last broadcast of each replica, and the ghost
`missed` by how much the committed row has moved since without one: commits
that other replicas served, edits, and transactions that were rolled back after
their broadcast.  So `CommittedFeedIsTrue` does not say that a page shows the
committed seats, which the code does not keep; it says that the difference is
`missed` of its replica, no more, and nothing if the replica has missed nothing.

### Bookings
Composes the seat transactions with the handlers that run them.  A create
request names the booking it makes; a cancel request names its transaction.
`job` is the progress of cancel and confirm requests with the status they read.
Each call into Coupons and Payments is one step with the outcomes those modules
allow.  Requests arrive in any number and order, several for one booking, and
stop wherever a call may throw or the process die.  Nothing in the code orders
the requests for a booking, so rows of different tables do come apart; the ghost
`unruly` remembers the bookings for which it mattered: a cancel request began
beside another request or another beside it, a cancelled booking was confirmed,
or a cancellation stopped between restoring the seats and marking the booking
(`HalfWay`).  The properties exclude none of this.  They say what it can cost:
`SeatsMatchBookings`, that no seat is ever lost and that those both on offer and
held are seats given back of an unruly booking; `CouponLimit`, that a use served
beyond the limit is one given back of such a booking; `CancelledUsesComeBack`,
that a cancelled booking's use has come back in every case.

### TicketGate
Bookings with their tickets.  `validateTicket` is a read (`FindTicket`) and a
save (`SaveTicket`), for a booking of whatever status, as in the code.
`Cascade` is conjoined with every step of the handlers: `confirmBooking` loads
the tickets with the booking and saves them with it.  The ghost `overlaps`
counts how often two requests held the unused ticket at a time: a validation
that finds it while another one has, or one that is saved while a confirmation
is going to write it back.  `AdmitsOnce` allows one admission more for each.

### CouponCounter
What CouponsService promises its callers: `Take` while a use is left,
`GiveBack` of one that is out, each at once, until a key is lost (`Lose`).
CouponUsage implements it, with the uses that are out as its counter: so the
coupon steps of Bookings may be single steps although the service takes many.
Bookings gives back more often than `GiveBack` allows when cancellations of a
booking race, and `revertUsage` does not refuse.

### CouponUsage
`validateAndApply` step by step under the Redis lock (`Acquire`, `LoadCoupon`,
`CheckUsage`, `Increment`, `SaveUsage`, `Release`), `revertUsage` without it,
the organizer's `update`, crashes, and the expiry of lock and counter.
`slipped` is a ghost: a lock that expired under its holder, or a counter that
expired, has slipped.  `AloneInside` is claimed until a lock has, `UsageLimit`
and `ImplementsPromise` until either has; what is claimed of releases holds always.  `KeyOf` is the
spelling a request uses, of which the lock key is made.

### CircuitBreaker
`execute` up to its await (`ShortCircuit`, `Call`), what follows when the call
settles (`OnSuccess`, `OnFailure`), the timer, the passing of `timeout`, and a
restart of the process.  Calls in flight are counted, since they are alike.

### Payments
`createPaymentIntent`, `confirmPayment` and `refundPayment`, each with the
mock, the short-circuited and the real path, over one shared circuit.  `kind`
is what the booking's `paymentIntentId` names, `mock` the entry of
`mockPayments`, `money` what the customer has at Stripe, `told` what
BookingsService was answered.  For an intent, at most one call of each
operation is in flight.  The ghost `failed` counts the failed calls of the
process up to the threshold: until then nothing may stand in for Stripe
(`StandInOnlyInOutage`).  One process is modelled: each replica has circuits and
mock intents of its own.

### EmailQueue
A mail is its Bull job.  `Queue` stands for the three queueing operations,
which differ in the text only, and a handling of a job for the three handlers.
`SkipMail` is the open circuit's fallback, `SendMail` the call, `SendReturns`
and `SendThrows` its outcomes, `Retry` what Bull does about a handler that has
thrown.  Bull and SMTP are external: `RestartWorkers` takes back the jobs of a
process that has ended (once, Bull's default), `MayHaveArrived` is a mail that
SMTP accepted without saying so.  `inDoubt` and `opened` are ghosts.

### Sessions
What AuthService promises to those who hold tokens: `HandOut` of one session at
a time (whether it is still good or was ended on the way), `Logout` of one,
`EndAll` by a reset, and no way back.  Accounts implements it with the rows
that have their tokens, whatever its handlers do to them in two saves; in
Reauth a session is made and handed out in one step, and ends by `EndSession`.

### Reauth
`baseQueryWithReauth` of one page.  `phase` is the place of a request in it:
"queued" before its first fetch, "sent", then after a 401 "refreshing" and
"retrying" with the mutex or "waiting" and "again" without.  A page runs one
task at a time, so what follows a response is one step, up to and including the
sends of the requests that a release wakes.  A session stands for the pair of
tokens issued with it; `stored` is what store and local storage hold.
`FindSession` and `GenerateAuthResponse` are the server's side, which goes on
when the page has been loaded again.  `presented` and `excused` are ghosts.
The server inserts a session and gives it its token in two statements; that is
one step here, as nobody knows the token in between.

### Accounts
One address: its `user` row, the sessions of that user, and requests (`task`)
in the handlers of AuthService and in OAuthService's callback.  A request names
the password, the reset token and the session it makes.  `Diff` and `Store` are
the two halves of TypeORM's save: it reads the row, then updates the columns in
which the loaded object differs.  `InsertSession`, `DiffSession` and
`StoreSession` are `generateAuthResponse`.  `RequestFails` is any check of the
loaded object that fails, an await that throws, or the end of the process.
Ghosts: `replaced` passwords, `used` reset tokens, `stale` and `crossed` in a
task, and `revived`: an object older than another request's change was stored.

### Storefront
One tab.  `page`, `stored`, `token`, `user` are the location, the local storage
and the auth slice; `me` is the cache entry of `getMe`, `calls` the forms that
were sent, `renewal` the holder's side of the mutex, `list` the cached coupon
list of an event.  `Screen` is what AuthProvider and ProtectedRoute show.
React renders and runs effects before the next answer is handled, so a step
ends with `Renders`: the redirects (`Lands`), what is unmounted, what is
fetched because it is mounted, and the invalidation of tags, which RTK Query
delays until nothing is pending.  `SetCredentials` and `ClearCredentials` are
the reducers.  The backend is what this tab sees of it: `JwtAuthGuard` and
`RolesGuard` of the routes, and answers that may be late, lost or errors.

## 3. Runs

| run | asks | bounds | result |
|---|---|---|---|
| `feed` | do `update` and `delete` stay out of a locked read; can a booked event go; does every request end; how far is a page from the committed seats, and does it get to the last broadcast? | 2 requests on 2 replicas, 1 editor, 1 page, 2 seats, quantity 1 | holds |
| `editing_lost_update` | is a seat update ever lost? | 3 requests, 1 editor, 2 seats | violated |
| `bookings` | what do racing and half-way cancellations and confirmations cost in seats and uses; is it all an atomic counter of seats? | 2 creates, 2 cancels, 1 confirm, 2 seats, quantity 1-2, 1 coupon use | holds |
| `tickets` | what holds when requests race and stop half-way; whom does a ticket admit? | 1 booking, 1 cancel, 1 confirm, 2 gates | holds |
| `booking_oversell` | may the live bookings exceed the capacity? | 2 bookings of 1 seat, 1 cancel, 1 confirm | violated |
| `booking_refund` | is a booking that was paid before it is cancelled refunded? | 1 booking, 1 cancel, 1 confirm | violated |
| `coupon_usage` | does the lock exclude, does the limit hold, is it all one counter of uses, is the lock freed, and by its holder only, when keys may expire? | 2 requests, 1 use, 2 attempts | holds |
| `payments` | are answers backed by payments; is a lost mock gone; does anything stand in for Stripe without an outage; is the circuit ever stuck? | 2 intents, threshold 3, 12 calls | holds |
| `mails` | is every mail settled, sent once, and skipped in an outage only? | 2 mails, 3 attempts, 1 stall, threshold 2 | holds |
| `reauth` | do late 401s, reloads and sign-outs keep the tokens straight; does every request end? | 3 requests: getMe, a login, another | holds |
| `accounts` | what do overlapping sign-ins, resets, verifications and OAuth callbacks leave behind, and do sessions still end as Sessions says? | 3 requests of any kind after an earlier one, 2 providers | holds |
| `storefront` | are the user, the roles and the tokens of a tab in step; does a page book once; does the loader end? | a customer and an organizer, 2 forms, 2 loads, 7 pages | holds |

Why the bounds are enough.  Seats: a race needs two transactions; an editor who
lowers the capacity lets one request be refused and a restoration or a
compensation meet the upper bound with single seats already; a page needs one
transaction to be broadcast and one to take it back, by its own replica or by
another.  Bookings: the races are over one booking, between two
cancels or a cancel and a confirm, and one more booking takes the freed seat or
use; with two seats and quantities 1 and 2 a create is accepted, refused at the
check, or refused at the locked read (0.83 million states up to symmetry; any
number in the proofs).  Tickets: two gates meet each other, or one meets the
confirmation.
Two racing cancels together with the gates exceed what TLC finishes; that
racing handlers stay seat transactions is proved for any number of them
(`BookingsRefineInventory`), and that no unpaid booking is confirmed too.
Coupons: one holder and one that waits, gives up, or slips in behind an expired
lock.  Circuit: eight calls open a circuit of threshold 3 twice, with a timer
of the first opening still pending; twelve leave room for both intents.  Mails: two fail in turn, so that one meets
the circuit the other has opened; eight calls are all that two mails with three
attempts and one stall can use, so the bound stops no job.  Tokens: one request
refreshes, one comes late, one logs in between; what a request does again after
a reload, the next one does.  Accounts: two requests that overlap and a third
that uses what they left; a second provider so that linking and creating
differ.  Storefront: what goes wrong takes one change of account and one form
under way; the second form is a login, a coupon or a second booking; the second
load is OAuth's callback or a reload.  The pages are home, login, callback,
event, account, coupons and newcoupon: register, forgot and reset only send a
form, create behaves as newcoupon does, and metrics is only denied or shown.

The bounds by name: MaxQty, Tries, MaxCalls, MaxStalls, MaxSubmits, MaxLoads,
and the sets of requests, pages and viewers.  Everything else is finite because
each request runs once.

**The violated runs** are disagreements between the code and what the
repository says of it, each in `PROJECT.json` under `findings`:

1. `EventsService.update` may write an old `availableSeats` back
   (`architecture_doc.md:129` claims lost updates are avoided).
2. `confirmBooking` accepts a cancelled booking whose seats are sold again
   (`architecture_doc.md:29`, `readme.md:36`).
3. `cancelBooking` refunds only a CONFIRMED booking, not a paid one (its own
   comment, `bookings.service.ts:307`).

**Other disagreements**, met while modelling and visible in the modules, that
have no run of their own:

* The coupon lock is keyed by the code as spelled, the coupon is looked up in
  upper case (`coupons.service.ts:168`, `:186`): with two spellings
  `UsageLimit` fails, which is why `LimitHolds` assumes one.
* `ProtectedRoute.tsx:13` compares the role with `undefined` when a route gives
  none, so /checkout, /booking, /profile and /bookings, under "Require
  Authentication" in `App.tsx:53`, are denied to everybody; and
  /events/:eventId/coupons/create, under "Require ORGANIZER or ADMIN Role"
  (`App.tsx:90`), is denied to an ADMIN.
* `validateAndApply` asks for a `pessimistic_write` lock outside of any
  transaction (`coupons.service.ts:190`), which TypeORM 0.3 refuses with an
  exception: then every booking with a coupon code fails.  CouponUsage has the
  exception (`Throw`), and the answer the code is written for.
* `ResetPassword.tsx:29` sends no token, which the backend's schema refuses.
* `EventCouponItem.tsx` toggles a coupon without its event: `updateCoupon`
  patches and invalidates the list of no event (`couponsApi.ts:45` says the
  lists update themselves).
* `refreshToken` leaves the old session valid (`architecture_doc.md:286` has it
  invalidated).

## 4. Fairness

* A handler that has started runs on (`WF` of its own next step): every await
  in it is answered by the database, by Redis or by a rejected promise.  No
  request has to be sent, no failure has to happen.
* Redis drops a key when its time is over (`ExpireLock`).
* Bull hands waiting jobs to its workers and ends their backoff; a call to SMTP
  is answered or times out, as nodemailer's do.
* A page's fetch settles, by an answer or by an error (Reauth; in Storefront
  `MeStep` and `Renewed`).
* socket.io delivers what is on the way to a connected client (`Deliver`).
* Node fires a reset timer that is set (`ResetTimer`).  Stripe never has to
  answer and nobody has to call: a circuit leaves OPEN by its timer alone.
* Accounts assumes none: it has no liveness property, as no handler there waits
  for another.

No strong fairness is used: NOWAIT turns lock waits into failures, so no step
is enabled and disabled for ever.

## 5. Proofs

All theorems are of the specifications TLC runs, for any finite or infinite set
of requests unless an assumption says otherwise.  Some state invariants no run
lists, because they are what the listed ones rest on: the types, `Ledger`,
`LockedReadIsCurrent`, `RowMovesByCommittedChange`, `OnlySuccessCloses`,
`QuietDuringRefresh`, `UsageLimit` (which
`ImplementsPromise` contains), `EndedStaysEnded` (which `ImplementsSessions`
contains), `ServerIsSessions` and `OpenHasTimer` (which is why `OpenEnds`).

* `SeatInventoryProofs`.  `IInv` adds to `TypeOK`, `Ledger` and
  `LockedReadIsCurrent` that the holder of the row lock is in a phase that
  holds it, and that what was written is within bounds.  Without the first, a
  refused transaction might still own the row; without the second, `Commit`
  could break the ledger.  From it follow type correctness, the ledger, the
  action property on the committed row, and the step refinement to
  `SeatCounter`.
* `BookingsProofs`, the event row.  Every step of the handlers is a step of
  SeatInventory or stutters, so its invariants and its refinement carry over:
  the handlers together are one atomic counter of seats.  `PaidBeforeConfirmed`
  needs that a request that has read CONFIRMED, or has verified, has a paid
  booking (`SeenWasPaid`), that requests in progress have bookings, and that a
  booked transaction has taken seats.
* `BookingsProofs`, rows of different tables.  `SeatsMatchBookings`,
  `CouponLimit` and `CancelledUsesComeBack` hold whatever the clients do and
  wherever requests stop; nothing is assumed of either.  The invariant (`RInv`)
  follows the cancel requests that have committed their restoration (`Returns`).
  Each restores exactly what its booking has taken (`RestoresItsBooking`), and a
  booking is marked as cancelled by one of them only (`BookedIsCommitted`).  The
  seats that were ever taken are those sold and those restored
  (`SoldIsCounted`); the uses that count, those of all bookings with the coupon
  but for what `Returns` have given back, or are about to (`UsesAreCounted`).
  For a booking that is not unruly there is one request at a time beside a
  cancellation (`OneAtATime`), none on a cancelled booking (`ActiveIsLive`), one
  restoration (`ReturnedOnce`), and it marks the booking or is going to
  (`ReturnsAreMarked`): so at rest its seats and its use are counted once.  A sum
  over the bookings is the cardinality of the set of their numbered seats
  (`SeatsOf`, `SeatsBack`), so adding or removing a booking needs a bijection
  and no induction.
* `BookingsProofs`, the tickets.  `AdmissionsAreCounted`: those let in by a
  ticket and those at the gate who have found it unused are as many as its
  overlaps, and one more if the ticket is spoken for: by somebody at the gate, or
  by being used while no confirmation carries it back unused.  A gate's step
  leaves the bookings alone and a handler's step conjoined with `Cascade` is that
  step (`GateRefinesBookings`), so what is proved of bookings holds at the gate.
* `SeatFeedProofs`, editing.  An edit may set any capacity and write old seats
  back, so the ledger is gone; what is left of SeatInventory's invariant is its
  part about the lock (`LInv`), which the row lock of UPDATE and DELETE keeps.
  `DeletedHasNoBookings` needs that a deleted row is unlocked and unreferenced
  (`GoneIsFree`) and that nothing is sold, and nobody has seats to give back,
  before anybody has booked (`UnbookedIsUnsold`).
* `SeatFeedProofs`, the feed, for any number of replicas.  `HeardIsLatest`: the
  last update on a page's wire, or what it shows when there is none, is the last
  broadcast of the page's replica.  `ReplicasReckon`: that broadcast, with what
  the replica has missed since, is what its transaction that has written will
  commit, or else the committed row.
* `CouponUsageProofs`.  `LockExcludes` rests on `InsideHoldsLock`: until a lock
  has slipped, whoever is inside holds it.  `LimitHolds` assumes one spelling;
  its invariant says that, until a key has slipped, the counter is the number
  of live uses and a request past its check still has room.  From the same
  invariant, each step takes or gives back one use or moves none
  (`UsageKeepsPromise`).  `FreedByHolder`
  needs types only: it holds whatever expires, and for any spellings.
* `CircuitBreakerProofs`, the circuit and the payments.  An open circuit has a
  timer; a closed one is below its threshold, also counted in failures in a
  row; it closes by a success or a restart only.  Each step of Payments takes the
  circuit along by its own actions, so these invariants hold there too, which is
  a lemma of the invariant `PInv` and no result.  That answers are backed by
  payments, and that a mock intent once gone stays gone, rest on `Books`: what
  is pending, confirmed or refunded for an intent fits its kind.
  `StandInOnlyInOutage` needs that a process with fewer failures than the
  threshold has a closed circuit with no more failures on its count, and no timer
  pending that could half-open it (`FewFailuresKeepClosed`).
* `CircuitBreakerProofs`, the mails.  `HasAttemptsLeft` and `EarlyIsInDoubt` follow a mail
  through its attempts; `HasOpened` says that a circuit which is not closed, or
  has a timer pending, has opened, which a stale timer would otherwise seem to
  contradict.
* `ReauthProofs`.  `HolderRenews` ties the mutex to the phases of its holder,
  `StoredIsNew` says that stored tokens were not presented but by a refresh
  under way, `ValidOrExcused` that what is stored or presented names a valid
  session, `RepeatsAreFresh` that a request is repeated with a fresh token.
  Without the last, a repeated getMe that is refused could sign the user out.
  The server's part implements Sessions, like Accounts (`ServerKeepsSessions`).
* `AccountsProofs`.  `UnbornIsNew`: a password or token that a request is about
  to make is nowhere yet, in the row, in another's object or in the history; so
  storing it cannot bring back an old one.  `ObjectsAreLoaded`: an object that
  is not stale agrees with the row in what its request does not set, and what
  it will write is the difference; so writing it undoes nothing.
  `SessionsAreMade` ties the making of a session to its request, and
  `OldPasswordIsCrossed` extends `ResetLocksOut` to the requests and the bare
  sessions that will become sessions.  From `SessionsAreMade` follows the
  refinement to Sessions (`AccountsKeepSessions`): a session that is saved
  again was not handed out before, so the second save, which may make an ended
  session valid, hands it out and revives none (`EndedStaysEnded`).
* `StorefrontProofs`.  Every step but a load changes one submission, or ends a
  renewal, and then renders; the lemmas say what the changes (`Moves`) and the
  rendering (`Shown`) do to a submission, and the invariants follow from these.
  `MeIsCurrent` is what `UserIsTokens` needs of a getMe on its way.
  `FormsAreOrganizers` follows a form from the page, where `UserIsTokens` makes
  the store's role the tokens', through its repetition with renewed ones.
  `BookingsOnScreen` and `CrossedBookings` say that a second booking of a visit
  can only be one that was sent beside another.  `ListIsOwed`: a list read
  before the coupon it lacks was told is marked for a fetch, and the mark goes
  only with the fetch.  `OpenedAssumption` has the three pages the redirects
  lead to among those opened.

Every invariant and every action property of the passing runs, and the
refinements (`ImplementsCounter`, `ImplementsInventory`, `ImplementsPromise`,
`ImplementsSessions`), are proved.  Only model-checked is liveness (`EverythingEnds`,
`FeedCatchesUp`, `JobsEnd`, `LockIsFreed`, `OpenEnds`, `EveryMailSettles`,
`EveryRequestEnds`, `RestoreEnds`), which is beyond this prover.  What the
violated runs check is false, so there is nothing to prove of it.

## 6. Abstractions

* Names, prices, dates, mails, QR codes and correlation ids are left out.
* The `version` column of `events` is left out: nothing reads it.
* Isolation is READ COMMITTED: a statement sees the committed row.
* Whether a coupon applies for reasons other than its limit is a free choice
  (`NotApplicable`, `RefuseCoupon`).
* Stripe refunds an intent once, entirely.
* One ticket stands for those of a booking, which the code treats alike; both
  halves of its save are one step, since nothing else writes its columns apart.
* In Accounts, columns no property is about are left out, and so are passwords
  and tokens that are wrong or expired: such a request fails.  The providers'
  sides of OAuth are its first step.
* In SeatFeed one event has one room in each replica; a page is not fetched
  again, and a replica that restarts is a page that disconnects.
* Payments and EmailQueue are one process each, with its own circuit: the
  replicas share neither circuits nor mock intents, so an intent that another
  replica has made as a mock is one that is absent here.
* Other tabs of the same browser share the local storage, not the mutex; one
  page (Reauth), or one tab (Storefront), is modelled.
* In Storefront a token is its account, sessions do not end at the server, the
  coupon list's own renewals are left to Reauth, and the history of the tab
  does not lead back to OAuthCallback.  Two requests that settle at the same
  moment settle one after the other.
* An access token does not expire between its issue and the repetition of the
  requests that waited for it (15 minutes against one exchange).
* One process handles the mails; Bull's limit of one job of each kind at a time
  is left out.

## 7. Not modelled

* Checkout, BookingConfirmation, MyBookings and Profile: their routes show
  "Access Denied" to everybody (section 3), so none of their code runs.
  MyBookings would ask for `/bookings/me`, which the backend routes to
  `GET /bookings/:id`.
* MetricsDashboard (its route shows an empty element), `useWebSocket.ts`
  (commented out), `metrics.service.ts`, health and logging: nothing changes.
* The exchange of codes with the OAuth providers, Stripe's webhooks (they only
  log), GraphQL resolvers, pipes, filters and Zod schemas: no state.
* Other sessions of other users: no handler joins two users' rows.
* Seed data, Docker and CI configuration.

## 8. Plan

Done, in the order of importance: SeatCounter, SeatInventory, Bookings,
CouponUsage, CircuitBreaker, Payments, EmailQueue, Reauth, then Accounts,
EventEditing, TicketGate, SeatFeed and Storefront, each with the proofs of its
invariants and action properties.

CouponCounter and Sessions, with the refinements to them, were added last.  No
step of the plan is open.
