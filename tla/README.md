# Formal model of the event ticket platform

TLA+ specifications of the concurrent core of this repository: buying tickets
under a distributed lock with fencing tokens, announcing purchases through a
transactional outbox, mailing confirmations from Kafka, the accounts and
sessions behind it all, the rate limiter and the paginated listings. TLC checks the models on small instances; TLAPS
proves every safety property of them for every number of requests, replicas, events,
messages and masters, every length of a window and of a list, among it that the
purchase flow with its lock implements an atomic sale, and that relays and email
service implement one abstract notification.

Paths below are relative to `services/` unless they start with `scripts/`,
`specs/` or `wiki/`.

## 1. The system

| Component | State | Operations | Talks to |
|---|---|---|---|
| Ticket purchase (`ticket/internal/service`, `repository`, `handler`) | `event_db.events.remaining_count`, `event_fencing_tokens`, `ticket_db.tickets`, `ticket_db.outbox_events` | `Purchase` (validate, read event, allocate token, lock, conditional UPDATE, insert ticket, insert outbox row, commit), `handlePurchaseError` | MySQL, the lock |
| Distributed lock (`ticket/internal/lock`) | `RedisLock.locks`, a table of mutexes by key in each process; one key on each Redis master | `Acquire`, `Release` | redsync, five Redis masters |
| Outbox relay (`ticket/internal/outbox`, `shared/pkg/kafka/producer.go`) | `published_at`, `locked_until`, `available_at` of each row; the topic | `Run`, `publishOne`, `retry`, one relay per replica | MySQL, Kafka |
| Email consumer (`shared/pkg/kafka/consumer.go`, `email/internal/consumer`) | group offset, `email_db.email_status` | `Consume`, `HandleTicketPurchased` | Kafka, MySQL, email provider |
| Email retry loop (`email/internal/sender/retry.go`) | the list it has read, `email_status` | `StartBackgroundRetry`, `processRetry` | MySQL, email provider |
| Accounts and sessions (`user/internal`, `shared/pkg/middleware/auth.go`) | `user_db.users`, Redis `session:<token>` | `Register`, `Login`, `Logout`, `Me`, `Delete`, `Middleware` | MySQL, Redis |
| Rate limiter (`shared/pkg/middleware/ratelimit.go`) | a Redis sorted set per client, with a time to live | `Middleware`: trim and count, then add and expire | Redis |
| Event catalogue (`event/internal`), purchase history (`ticket/internal/handler`, `repository`) | none of their own; `events`, `tickets` change under them | `ListEvents`, `FindUpcoming`, `PurchaseHistory`, `FindByUserID` | MySQL |
| Cryptography, logging, correlation | none shared | pure | |

How they interact: the handler of `POST /tickets/purchase` runs `Purchase` in a
goroutine per request, on any number of replicas. The booking transaction spans
`event_db` and `ticket_db` on one MySQL server and ends with a row in
`outbox_events`. Relays of all replicas poll that table and publish to the
single partition of `ticket.purchased`. One replica of the email service at a
time owns the partition; it inserts a row in `email_status` and sends. The retry
loops of *all* replicas go over the same table. Authentication is a Redis lookup
in front of the purchase and account routes, rate limiting two Redis pipelines in
front of login and registration.

What is hard about it:

* statements of concurrent purchases interleave, tokens are handed out in
  another order than the lock, and the lock may be lost at any time;
* the lock's table is shared by the requests of a process and keyed by the event
  alone, while late commands and expired leases are still about;
* a relay outlives its lease or dies between publishing and marking;
* the consumer commits offsets one by one, skips what fails, is rebalanced in
  the middle of a message, and shares its rows with the retry loops;
* registration and deletion race with logins and with requests that have already
  been authenticated;
* the rate limiter counts in one pipeline and adds in another, under one key for
  routes with different limits;
* a listing is counted and read by two statements, and the next page is read from
  a list that has moved.

What makes each component correct: stock plus tickets is constant and nobody who
was refused holds a ticket (purchase); unexpired leases exclude one another
(lock); every committed booking is announced, once unless something failed
(outbox); every offset committed has a row behind it, every row gets its email, and a second
email has an explanation (email); one account per address, logged out means logged
out, and nobody deletes another's account (accounts); no window is overfilled, but by
requests that overlap and only by their number, and none refused early (rate limiter);
who pages to the end has seen what was there (listings).

## 2. Modules

| Module | Models | Composition |
|---|---|---|
| `TicketSale` | the promise of the ticket service: an order books in one step or never | |
| `Booking` | `PurchaseService.Purchase` statement by statement | refines `TicketSale` |
| `RedLock` | `RedisLock` over redsync and the masters | |
| `PurchaseFlow` | the purchase with its lock | `Booking` with `RedLock`, step by step |
| `Outbox` | the relays | starts from the rows `Booking` commits |
| `EmailDelivery` | the consumer group and the retry loops | |
| `Notification` | the promise of relay and email service together | |
| `Confirmation` | from the outbox row to the email | `Outbox` with `EmailDelivery`, refines `Notification` |
| `Accounts` | users, sessions and the middleware | |
| `RateLimiter` | the sliding window of one client | |
| `Listings` | upcoming events and purchase history, page by page | |

`<Module>MC` gives constants values for TLC, `<Module>Proofs` holds theorems
(`PurchaseFlow`, whose proofs module is also about `Booking` and `TicketSale`,
`RedLock`, `Outbox`, `EmailDelivery`, `Confirmation`, `Accounts`, `RateLimiter`,
`Listings`).

### TicketSale and Booking

An action of `Booking` is one SQL statement, or one decision in Go where there is
no statement. `step[r]` is the program counter of request `r`, `token` its fencing
token, `writes` the tables its open transaction has changed, `reply` the error
value `Purchase` returned. `remaining`, `accepted`, `issued`, `counters`,
`tickets` and `outbox` are committed database state; `past` says which events have
begun. A row is identified by the request that inserted it, since booking
references and outbox ids are unique keys.

| Action | Code (`purchase_service.go`) |
|---|---|
| `RejectQuantity`, `AcceptQuantity` | 42-44 |
| `EventUnusable`, `ReadEvent` | 46-60, 196-214 |
| `InitCounter`, `NextFencingToken` | 161-166, 168-179 |
| `AcquireLock`, `LockTaken` | 69-77 |
| `Reserve`, `Explain` | 79-98, 99-114 |
| `CreateTicket`, `InsertOutbox` | 122-124 with `CreateWithTx`, 126-140 |
| `Commit`, `CommitUnacknowledged`, `Respond` | 141-143, 145-150 |
| `Fail` | the `if err != nil` after each statement |
| `Lose` | the process or the client goes away |

MySQL is modelled by what InnoDB promises here: an UPDATE of a row locks it until
the transaction ends, also when the WHERE clause rejects it (`RowsLocked`), and a
COMMIT is atomic (`Apply`). The Redis lock is *not* trusted: `AcquireLock` may
succeed whoever else holds it. What is shown of `Booking` therefore rests on the
fencing condition and the transaction alone, which is the design the wiki claims
(`wiki/concepts/distributed-locking.md`).

`ParseTime` is the `parseTime` flag of the DSN. It is TRUE in every shipped
configuration, and then no purchase of an existing event succeeds (run
`BookingParseTime`). All other runs set it FALSE, the setting under which the
date format the code expects is what the driver delivers; the proofs hold for both.

`TicketSale` knows neither locks nor tokens: `Book` takes the stock, issues the
ticket and records the announcement at once; `Confirm` and `Refuse` tell the buyer
the truth; `GiveUp(lost)` stands for a 500 or a lost reply, which promises nothing,
and leaves several buyers without an answer at once when their replica crashes.
The refinement mapping is the identity on database state, and `answer` is the
class of the HTTP status.

### RedLock

One key and the requests that compete for it. `phase[r]` is where `r` stands in
`Acquire` and `Release`, with `acquired` between the return of `TryLockContext` and
the assignment `l.locks[key] = mutex`. `setting` and `deleting` are commands in
flight; any may arrive late, and a faulty master may execute one without
answering. redsync and Redis are external: one attempt, decided at the first
majority, followed by deletes of the own value when it fails. `Lapse` is the end
of a lease by the holder's clock, and a master expires a key only after it
(redsync subtracts elapsed time and a drift allowance). `Crash` empties the table
of a process. `Cancel` and `ReleaseCancelled` are the same calls with the context of
a client that went away: the attempt fails without clean-up, and `Release` deletes
the table entry (`redis_lock.go:78`) while its unlock reaches no master. `overran`
remembers requests whose lease lapsed while they held it.

### PurchaseFlow

`Booking` with the outcomes of its lock decided by `RedLock`: `step[r] = "lock"` is
refined by the phases of `RedLock`. `Ask`, `Granted` and the masters' work are steps of
the lock alone; `Acquired` and `Refused` are steps of both, in which `Acquire` returns
to `Purchase`; `Releases` is the deferred call, possible once the statements are over,
because `defer` runs the rollback (line 83) before the release (line 77). `ClientGone`
cancels the request's context at any point, `CrashProcess` ends all requests of a
replica and forgets its table. The instance shares the variables of both modules and
adds none. Here the fencing condition and the lock meet: `overran` requests, which the
lock no longer protects, still go through `Reserve`. The composition implements
`TicketSale` under the same refinement mapping as `Booking` alone.

### Outbox

`rows`, `leased`, `waiting`, `published` are the columns of `outbox_events` as sets
of ids; `at[r]` and `row[r]` say where a relay is in `publishOne`. `Select` to
`Lease` is the claim transaction with its row lock (SKIP LOCKED), `Publish` and
`PublishFails` the outcomes of `PublishEnvelope`, `MarkPublished` and `ScheduleRetry`
updates by id whoever holds the lease by then. The producer is configured with
`acks=all` and `retries=5` and without idempotence (`producer.go:26-31`), so a copy whose
acknowledgement is lost may be followed by others inside one call, which then reports
success or failure: `PublishUnacknowledged` is one such copy, and the call goes on.
`troubled` remembers the rows that met an event which may duplicate them: a copy whose
acknowledgement was lost, a mark that failed or was cut off by a crash, a lease that ran
out under a working relay. So `NoDuplicateWithoutFault` counts a lost acknowledgement as
a fault also when the call reports success. `attempts` only lengthens the back-off and is
left out; that a row which fails every time does not hold up the others is due to
`waiting`, and no property of its own says so.

### EmailDelivery

`topic` is the one partition, `assigned`, `position`, `committed` are the consumer
group's view of it; `at[c]` and `msg[c]` the statement a replica's handler executes
next. `status`, `due` and `retryCount` are the columns of `email_status`; a row is named
by who inserted it for which message, because nothing makes `booking_ref` unique.
`todo` and `retrying` are the list a retry loop has read and the update it is about
to make. `Announce` is the relay's publication, a step of the environment. `Assign`
may take the partition from a replica that is in the middle of a message; `ReadFails`
ends the consumer goroutine while its process lives on, as
`email/cmd/main.go:68-73` does; `HandlerFails` is any error the handler returns,
which `Consume` prints before it reads on. A refused email and one whose answer was
lost write the same status (`Send`). `doubtful` remembers the bookings for which a
second email has an explanation: an answer or an update was lost, the process died
between email and update, or a retry loop found a row that somebody else was busy with.

### Notification and Confirmation

`Notification` knows four sets: booked, announced, recorded, confirmed, each
contained in the one before. `Spec` is its safety; `Fairness` says apart from it that
`Announce` and `Confirm` are weakly fair, while `Record` is not,
since a handler that reports an error drops its message. `Confirmation` takes the
variables of `Outbox` and `EmailDelivery` as its own. Its steps are theirs, except that
a step of the relay that publishes a copy (`log` grows) is `EmailDelivery!Announce` of
the same booking. The refinement mapping reads the abstract sets off the outbox rows,
the topic, the rows of `email_status` and the emails sent.

### Accounts

`hash` is `users.email_hash` of each account (an account is named by the
registration that made it), `session` the Redis keys (named by the login),
`step[q]` the statement each request executes next. A call to `/me`, `/logout` or
`/delete` is GET, EXPIRE, handler in three steps. `SessionEnds` may drop any
session. `gone[l]` remembers which deletions had been answered when login `l` began.
A deletion frees the address, since the email hash is overwritten with a random one, and
leaves every session of the account: `OnlyOwnersDelete` says that none of these, nor one
that a login in flight still stores, reaches the account of the next owner of the address.

### RateLimiter

One key. `hits` is the sorted set, whose members are their own scores; `expires` the
time to live, which Redis drops with the last member. `stage[r]` is the pipeline a
request executes next. The key is `r.RemoteAddr`, so it contains the client's port
and one connection; requests on a connection come one after the other, but a client
that gave up may reconnect from the same port while its last request is still being
handled, so `Arrive` finds up to `Overlap` of them unfinished. `CheckFails` and `AddFails`
are the ignored errors, with each part of the pipeline done or not. Two histories keep
apart what the properties except: `failed` has the requests that were let through by such
an error, `mixed` those that found another unfinished or were found before their count.
`WindowBounded` excepts both (`unsure`) and is exact. `OverlapBounded` excepts `failed`
alone: a window takes in at most one request more than its limit for each that may
overlap, a bound that is reached. `RejectedOnlyWhenFull` excepts nobody: a set that stays
because its EXPIRE failed still counts nobody who has left the window.

### Listings

`listed` is the set of rows the WHERE clause selects, `rank` the sort column.
`Count` and `Select` are the two statements of a response, `EventsBegin` and
`TicketJoins` what changes the list between any two of them. MySQL may order rows with
equal keys differently in each statement: `Before(i)` is how many items sort before
`i`, `Positions(i)` where a statement may put it among its equals, and `Slices` the set
of all pages an ORDER BY that is not unique allows. The client asks for pages while `page * per_page`
is below the total it was told.

## 3. What TLC checks

| Run | Instance | Distinct states | Shows |
|---|---|---|---|
| `BookingContention` | 3 requests, 1 event and an unknown id, 3 tickets, orders 0-2 | 81 508 | `IInv`, conservation, reservations, tokens, reasons of refusals, commit order; `Booking` implements `TicketSale` |
| `PurchaseFlow` | 2 requests on a replica, 1 master, stock 3, orders of 0, 2 and 4, an unknown id | 146 148 | transactions exclude one another under their leases, `PurchaseFlow` implements `TicketSale`, the event is freed, every request ends |
| `RedLockQuorum` | 2 requests on a replica, 3 masters, one faulty | 113 639 | mutual exclusion, live leases undisturbed, leases in force |
| `OutboxRelay` | 2 relays, 2 rows | 17 470 | nothing lost or invented, no duplicate without a fault, every row published |
| `EmailConsumption` | 2 replicas with their retry loops, a message | 1 075 249 | `EmailInv`; committed means recorded, one row per booking, "sent" was mailed, one email without a fault |
| `Confirmation` | 1 booking, a relay that may publish it twice, a replica with its loop | 68 307 | the two services implement `Notification`, its safety and its fairness; booked means mailed, unless passed over or not read |
| `AccountSessions` | 2 registrations of an address, 2 logins, 3 calls | 429 614 | `AccountsInv`; one account per address, logout final, only its owner deletes an account |
| `RateLimiter` | 3 requests, limits 2 and 1, a window of 3 in 5 ticks, one overlap | 1 252 611 | `RateInv`; no window overfilled, or by the overlap alone, none refused early |
| `Listings` | 4 items, pages of 1, of the default 2 and of the cap 3 | 53 973 | nothing listed all along is missed or shown twice, up to ties; totals and pages agree |

Symmetry over requests, replicas, healthy masters or items is used only where no
liveness property is checked, and the states are counted up to it.

**Why the bounds suffice to meet the hard cases.** Stock of three against orders of
one and two lets two orders fit, collide or leave one ticket over. Three requests
give a newer token overtaking a delayed one with a third in between. Events share
nothing but the id space, so one event and one unknown id show what two would. Three
masters are the smallest number with a majority that is not everybody, and two
requests on one process are enough to mix up the shared table. Two relays are
needed to take over a lease. More requests, replicas and relays are the matter of
section 4.

`PurchaseFlow` is about the order of calls across the two modules, so it has one master
(`RedLockQuorum` has the majorities) and two buyers on one replica, which share the
table of mutexes; of orders of 2 and 4 against a stock of 3 a first one may fit, a second
one never does, and the refused one explains itself in its transaction. `EmailConsumption` has one message,
which rebalances and failed commits deliver again and again, with every overlap of two
handlers and two loops; `Confirmation` has two messages of one booking, which is what a
relay makes of a row whose report was lost. Bookings share no row and no email, so a
second one adds only the offset that passes over a failed message, which is
`EmailSkipped`. In `RateLimiter` two requests fill the higher limit and the third meets
it, or one fills the lower limit and the other route finds the same set; five ticks are
a window, the tick at which its first request leaves it, and one more. A request that
overlaps another fills the window of the lower limit with two. Four items on pages of one
leave a page after the one that shifts, and the default of 2 and the cap of 3 stand for 10 and 100.

Bounds in the models themselves: `log` and `mailed` stop at `Many` = 2, since twice
is a duplicate; `topic` stops at `Length`, the clock at `MaxTime`, and a client has at
most `Overlap` requests unfinished when another arrives. Every other
variable is bounded by the constants: a request allocates one token, sends one SET NX
per master, and inserts one row.

**Fairness.**

* `PurchaseFlow!FairFlowSpec`: a goroutine whose next statement can execute executes it
  eventually (weak fairness of each request), masters execute the commands they are
  sent, the 30 seconds of a lease pass and a key past them is dropped. Waiting for a
  row lock disables the statement; no fairness of success is assumed, nor that clients
  stay or processes live, so `EveryRequestAnswered` rests on the transactions ending and
  `EventFreed` on the expiry of keys nobody deletes.
* `Outbox!FairSpec`: relays keep polling and time passes (weak), and a claim, a
  publication and a mark that are tried again and again succeed some time (strong),
  which is how the relay's endless loop is meant to work. No fairness of crashes.
* `Confirmation!FairSpec`: relays, handlers and retry loops keep running, time passes,
  and the group assigns a partition that nobody has (all weak). Failures may happen in
  any number, and then there is a time without any: `<>[][Undisturbed]_vars`. The system
  has no other chance to finish, since every one of its loops can be disturbed for ever.
  A replica that `ReadFails` stopped is not restarted by anything in this repository,
  and no restart is assumed: `BookingConfirmed` excepts the case that nobody reads, and
  `Notification` promises no fairness of `Record`.

`CHECK_DEADLOCK FALSE` stands where a finite set of requests comes to rest
(`RedLock`, `Accounts`, `RateLimiter`, `Listings`) and for `EmailDelivery`, whose
consumers may all have stopped and whose rows may all be sent. `Booking`, `PurchaseFlow`
and `Outbox` have an explicit final stutter (`AllAnswered`, `AllReleased`,
`AllPublished`), which `Confirmation` inherits, and are checked for deadlock.

### Disagreements between code and documents

Each run checks one sentence of the repository and TLC finds it violated.

| Run | The document says | The code does |
|---|---|---|
| `BookingParseTime` | dates read as `2006-01-02 15:04:05` (`purchase_service_test.go:159`) | `parseTime=true` delivers RFC 3339: every purchase fails |
| `RedLockOverrun` | "release targets only that value" (`distributed-locking.md:25`) | the table is keyed by event: a late holder releases its successor |
| `EmailSkipped` | failed messages are not committed and retried (`kafka-topics.md:78`) | the next commit covers them |

The models also contain these, which are read off the code at a glance and have no
run of their own:

| Where | The document says | The code does |
|---|---|---|
| `ticket/internal/handler/handler.go:141`, `HttpStatus` | 409 for insufficient tickets (`contracts/ticket-service.md:39`) | `errMsg[:8] == "insufficient"` compares 8 bytes with 12, so 500 |
| `purchase_service.go:58`, `EventStarts` | no purchase of past events (`spec.md:159`) | the date is compared once, before the token, the lock and the commit |
| `redis_lock.go:53`, `RedLock` | "exactly 1 user succeeds" (`spec.md:100-103`) | one attempt each: contenders that split the masters are all refused |
| `purchase_service.go:79-143`, `Booking` | "fencing does not make inventory decrement and ticket insertion atomic", ticket insertion "follows separately" (`wiki/concepts/distributed-locking.md:33-35`, `wiki/concepts/trade-offs.md:85`) | one transaction, as `wiki/entities/ticket-service.md:19` and `trade-offs.md:105-109` say; `Conservation` rests on it |
| `email_repo_mysql.go:38`, `EmailDelivery` | `sent --> [*]` (`data-model.md:164`) | any status overwrites any other |
| `user/internal/handler/handler.go:113`, `Accounts` | a deletion ends the session (`wiki/concepts/session-management.md:76`) | only the row is anonymised |
| `mysql_repo.go:67-82`, `AnonymizeAccount` | the email hash is "preserved for audit" (`wiki/concepts/session-management.md:75`) | it is overwritten with a random value, so the address can be registered again |
| `email/internal/sender/retry.go:73`, `OneEmailWithoutFault` | "the same purchase never sends two emails" (`kafka-consumer.md:90`) | a pending row is due at once, so the retry loop may send it while its consumer still does; a crash between email and update also sends twice |
| `retry.go:104`, `UpdateStatus` | dead after five failures (`email-retry-strategy.md:27`) | `retry_count` is never written, so it stays 0 and the retries never end |
| `ratelimit.go:39`, `RateLimiter` | limits "per IP" (`spec.md:213`, the API reference of the top-level README) | the key holds the port too: each connection has its own window |
| `user/cmd/main.go:62-63`, `RateLimiter` | login 5 and registration 3 per minute (`spec.md:213`) | one key: three logins use up the registrations of a connection |
| `event_service.go:23`, `handler.go:72`, `Listings` | `per_page` defaults to 20 and is at most 100 (`contracts/event-service.md:13`, `contracts/ticket-service.md:84`) | the default is 10, and the history has no maximum |
| `event_repo_mysql.go:20`, `Listings` | "a single query handles both count and data fetch" (`wiki/entities/event-service.md:60`) | two queries |
| `auth_service.go:87`, `Accounts` | 409 for a duplicate (`user-service.md:33`) | 500 for the loser of a race |

## 4. What is proved

Every safety property of a passing run, action properties and refinements included, is
the conclusion of a theorem. The theorems hold for every value of the constants that
satisfies the named assumptions `BookingAssumption`, `RedLockAssumption`,
`OutboxAssumption`, `EmailAssumption`, `ConfirmationAssumption`, `AccountsAssumption`,
`RateLimiterAssumption` and `ListingsAssumption`, which TLC evaluates on every run of those
modules. They say no more than what kind of thing each constant is: masters and the
items of a listing are finitely many, stock and the length of the topic are
natural numbers, as is the number of requests of a client that may overlap; limits, the
window, the default and the cap of a page are at least one,
different kinds of requests are disjoint, and markers like `Nobody`, `Nothing` and
"redacted" are none of the things they stand apart from.

Two groups of theorems name a hypothesis besides. Those about `PurchaseFlow` suppose
`FlowAssumption` (there is one key per event, and the module has one event on sale), so
that those about `Booking` in the same module do not; TLC evaluates it as `FlowInstance` of
`PurchaseFlowMC`. `SaleCorrect` supposes the `SaleAssumption` of the abstract sale, and
`StockIsConserved` shows that the constants of `Booking` satisfy it.

Every proof has the same shape: an inductive invariant `I` with `Init => I` and
`I /\ [Next]_vars => I'`, one lemma per part of `I` and in it one step per action, and
the properties as consequences of `I`. TLC checks `IInv`, `LockInv`, `OutboxInv`,
`EmailInv`, `AccountsInv` and `RateInv` on their runs; the invariants of the two
compositions are made of these and of one conjunct each that joins them.
`ListingsInv` was checked in the same way before it was proved, with the constants of its
run and pages of 2 asked for besides; the run keeps the properties it implies.

**PurchaseFlowProofs, the statements.** `BookingInvariant` proves `IInv`, which is needed because none of
the wanted properties is inductive. `StepsConsistent` says what a program counter
implies about the past (positive quantity, allocated token, tables written);
`TicketsConsistent` ties tickets to replies and to accepted tokens;
`CountersConsistent` says that an accepted token belongs to a ticket;
`OneTransactionPerEvent` is the effect of the row locks, and from it
`ReservationHolds` and `ExplanationHolds`: what the UPDATE saw stays true until the
transaction ends. Lemmas follow the kinds of steps: return, advance, new counter,
new token, commit. From `IInv`: `ReservationsHold`, `TokensAreDistinct`,
`RefusalsAreJustified`, and the action property `TicketsFollowTokens` (tickets are
committed in token order). `BookingImplementsSale` shows the refinement: a commit is
`Book`, an answer is `Confirm`, `Refuse` or `GiveUp`, every other step a stutter.

**PurchaseFlowProofs, the sale.** The abstract specification keeps its own books:
`SaleCorrect` says that stock is conserved, that what is announced is booked and that
answers are truthful. Conservation counts admissions (one per ticket sold) with the
library's cardinality facts; `BookCounts` shows that booking an order adds
exactly its quantity. `StockIsConserved` carries it over to the statements along the
refinement.

**RedLockProofs.** `LockInvariant` proves `LockInv`: grants of an unexpired attempt are
still stored and nobody is about to delete them, and every live holder has a
majority of grants. `MajoritiesMeet` (two majorities of a finite set intersect) gives
`LockExcludes`; `LiveLeasesAreKept` says nobody deletes a live lease, and
`LeasesAreInForce` that it stands on a majority of the masters. They carry the
hypothesis `Isolated`: no request has outlived its lease in a process it shares.
`RedLockOverrun` is the counterexample without it, and it is why the fencing
condition of `Booking` matters.

**OutboxProofs.** `OutboxInvariant` proves `OutboxInv`, whose part `CalmRows` says that
a row without faults has at most one relay, which holds its lease and knows
whether it has been sent. `NothingIsLost` and `CalmRowsPublishedOnce` follow.

**PurchaseFlowProofs, the flow.** The theorems of `Booking` and `RedLock` are reused: every step of
the flow is a step of `RedLock` or leaves the lock alone (`LockStep`), and a step of
`Booking` or a crash (`BookingStep`). `CrashKeepsInv` shows that ending several requests
at once keeps `IInv`, and `CrashGivesUp` that it is one `GiveUp` of the sale. The two
invariants are joined by `InsideHolds`: a request from the moment `Acquire` has returned to the end of its
transaction is in phase "holding" of the lock. It holds because `Store` and `AcquireLock`
are one step and `Releases` waits for "done"; it is what the order of the two deferred
calls is for. `OneTransactionAtATime` (`TransactionsUnderLease`) follows from it and from
`MutualExclusion`: transactions within their leases exclude one another, unless a request
outlived its lease on a replica it shares. `FlowImplementsSale` needs no such hypothesis;
whatever happens to leases, the sale stays atomic. `FlowConservesStock` and
`FlowKeepsPromises` carry the promises of `Booking` over to the composition.

**EmailDeliveryProofs.** `EmailInvariant` proves `EmailInv`. None of the four properties is
inductive:

* `CommittedIsRecorded` speaks of committed offsets only. `CoveredSoFar` says the same
  of every message *read*, except the one its owner has in hand, and of every message
  before one that an evicted handler still has in hand, since that handler may yet
  commit (`Commit` may fail, but must not lie if it does not).
* `SentWasMailed` needs `SentInHand`: a handler or a loop about to write "sent" has had
  its email accepted.
* `OneRowPerBooking` needs `OneHandler`: without an eviction the replica that handles a
  message is the owner of the partition, and a handler past its check (stage "create")
  still finds no row for its booking.
* `OneEmailWithoutFault` needs `UndisturbedRow`: the row of a booking outside `doubtful` is
  in one pair of hands at a time (its handler's, on one loop's list, or in one loop's
  UPDATE), nobody has hands on a row that is already "sent", and an email that went out
  shows in the status or in the hands that are about to write it; and
  `OnlyRecordedMailed`, that no email precedes its row.
* `InHandExists` ties what is in hand to the topic and the table.

From it `EmailTypeCorrect`, `NoMessageForgotten`, `OneRowEach`, `MarkedSentWasMailed` and
`SecondEmailExplained`, for any number of replicas, loops and messages.

**ConfirmationProofs.** A step of the relays is a step of `Outbox`, and a publication or a
step of the email service is a step of `EmailDelivery` (`OutboxStep`, `EmailStep`), so both
invariants carry over; `TopicIsPublished` (every message in the topic is of a row that was
published) joins them. `RecordEffect`, `MailEffect` and `LogEffect` say by how much a step
may change the sets that `Notification` sees, and
`ConfirmationImplementsNotification` is the refinement: each step of the two
services announces, records or confirms one booking that was ready for it, inserts one, or
does not show. `OnlyRecordedMailed` and `NothingLostOrInvented` are what makes `Confirm` and
`Announce` enabled. `FedMessagesNotForgotten` and `FedSecondEmailExplained` are the
promises of the email service when relays that crash and publish twice feed it.

**AccountsProofs.** `AccountsInvariant` proves `AccountsInv`. Types alone are not inductive:
a deletion records the caller's account, and that it is one follows from
`Authenticated`, which ties a request past the middleware to a login that is over and to
the account its session was of. `SessionOfFound` says that a session is of the account
the login read before it verified the password, and that this account was not among
those deleted when the login began, so that no login begun after a deletion gets a session
for the account; `DeletionKept` that "redacted" is never overwritten;
`AnsweredOnce` that a registration's row appears with its answer. From it
`EmailsStayUnique`, `LogoutIsFinal` and `OwnersDelete`. The last is a conjunct of the
invariant itself: a deletion keeps it because the caller's token belongs to a login
that read the account it acts on (`Authenticated`, `SessionOfFound`), and everything else
because neither what a login has read nor an answer ever changes.

**RateLimiterProofs.** `RateInvariant` proves `RateInv`. `WindowBounded` is a statement about
past windows, while the code only ever counts the one that ends now, so the invariant
follows a request from its count to its answer:

* `ArrivedBefore`: who has a time has one that has come, and finitely many were admitted;
* `SureApart`: requests that did not overlap came at different times, and one that is
  still handled came last. Without it two members of the sorted set could be one (members
  are their own scores) and the set would count less than it admitted;
* `HitsAreAdmitted` and `HitsKept`: the set holds only the admitted, and holds each of them
  for a window, unless Redis failed to add it, because the key is not dropped before;
* `RoomFound`: the window of a request had room from its count on. Nothing is
  added to a window that has passed, which `WindowKept` shows;
* `CrowdExpected`: whoever may still come into the window of a request was in the set or being
  handled when it was counted (`CrowdAtCheck`), and no step adds to them (`ComingKept`); of
  the latter there are `Overlap + 1` at most, the request itself among them.

From it `WindowsBounded`, `RefusedOnlyWhenFull` and `OverlapsAreBounded`, for any limits,
window, overlap and number of requests. `TimesCovered` and `TimesApart` compare the number of requests with
the number of their times; they are what turns a count of the set into a count of
requests. The exceptions stay in the properties: `WindowsBounded` is about requests that
neither overlapped nor were let through by an error of Redis, `OverlapsAreBounded` drops
the first of the two. `OverlapBounded` counts the times of a window rather than its requests,
since two that come in one tick are one member of the set.

**ListingsProofs.** `ListingsInvariant` proves `ListingsInv`, whose parts say how the list
that moves and the pages already answered stand to each other: `CountsStale` (since the count
the history has only grown, the upcoming events have only shrunk), `ShownStaysBehind` (an event
that was shown stays in front of the end of its page), `UnseenToCome` (a ticket that was
there at the beginning and was not shown is at or after the offset) and `FewSlipped` (events
that came to stand before the offset unseen are no more than those that have begun).
From it `HistoriesAreComplete`, `EventsAreShownOnce` and `FewEventsAreHidden`, with the
hypotheses the properties have: items of equal rank may be swapped by any statement, and nothing is
claimed of them. The action property `PagesAgreeWithTotals` has no such hypothesis. A page
is a slice of *some* order that respects the ranks, so its size must be counted with ties in it:
items of equal rank occupy consecutive positions (`GroupsApart`), each group in
bijection with its items (`Placed`), the groups together fill all positions
(`PositionsCovered`), and a slice has as many items as its window has positions (`SliceSize`,
`WindowSize`). That argument goes group by group and needs no induction over the list.

**Only model-checked.** Liveness: `EveryRequestAnswered`, `EventFreed`, `EveryRowPublished`,
`BookingConfirmed` and `NotificationGoesOn` need fairness and ENABLED, which the prover does
not support. The refinements are therefore proved for the safety part of the abstract
specifications; TLC checks the fairness of `Notification` apart. The counterexamples of
the three runs of section 3 that expect a violation are TLC's too.

## 5. Not modelled, and why

* Cryptography, validation of names and addresses, formatting of emails, logging,
  correlation ids, health routes, configuration: no shared state. Their errors appear
  as failing steps.
* `user.created`: no service consumes it, and its publication fails silently.
* Lookup of one event, and of the event of each ticket in the history: single SELECTs
  whose result nothing depends on.
* The seeder: a script that runs once.
* Time as numbers, except in `RateLimiter`: leases, back-offs and dates are single events
  that may happen at any moment, which covers every duration.
* InnoDB deadlock detection and lock-wait timeouts: covered by `Fail`.
* Products of page and page size beyond 63 bits (`event_service.go:29`,
  `handler.go:123`): pages and sizes are small.
* Ticks below the resolution of the rate limiter's scores: a score is a float64 of
  nanoseconds, exact to about 256 of them.

## 6. Plan

All steps of the plan are done, in this order: `TicketSale`, `Booking`, `RedLock` and
`PurchaseFlow` with both refinements; `Outbox`, `EmailDelivery` and `Confirmation` with its
refinement; `Accounts`; `RateLimiter`; `Listings`; and the proofs of each. Whoever changes the
code finds the definition to change with it through `PROJECT.json`, whose map names the
lines of every definition. A new safety property belongs next to the invariant of its
module: checked by TLC first, then added as a conjunct or derived from it. Liveness stays with
TLC, and a change that adds a loop or a wait adds a run with its fairness.
