# Verification of BaltOIL

TLA+ models of the fuel delivery system in this repository, checked with TLC on small instances
and, but for liveness, proved with TLAPS. This file is the inventory of the system, the
description of the modules, and the plan of what comes next. `PROJECT.json` maps every definition
to the lines it models, and lists the runs, the mutants, the findings, the hazards and the
theorems.

## 1. The system

Six FastAPI services with a PostgreSQL database each, Redis between them, a web page and a
Flutter application. A request is **one database session and one transaction** (`get_db`):
READ COMMITTED, committed after the handler and before the response is sent, rolled back on an
exception. The ORM flushes before a query, writes only the columns whose value differs from
the one that was read, and gives back the object it already has when a row is selected again.
Services call each other over HTTP with a time limit and publish events over Redis, without
acknowledgement or memory. Nothing else orders what two requests do.

| Component | State | Operations | Talks to | What is hard | What makes it correct |
|---|---|---|---|---|---|
| **Orders** (order_service `order_service.py`, `status_machine.py`) | `orders`, `order_status_logs`, `idempotency_keys` | create, claim, transition, update, reschedule, ack_changes, shipment override, archive, hard delete | delivery_service (auto-start, inside the transaction), events | locked and unlocked handlers on one row; a row lock held over HTTP; retries of the outbox | the status log is a walk through the status machine; a key stands for one transition; a delivery in flight is undisturbed |
| **Transport orders** (`transport_service.py`) | the same rows, `transport_details` | create, update, deliver | Orders (`transition_status` in the same session) | a row read before it is locked, in one session | as above, and it is not (finding `transport_race`) |
| **Payments** (`payment_service.py`) | `payments`, `orders.payment_status`, keys | create_invoice, record_payment, cancel_payment; amounts set by Orders | Orders | a cached status; two rows locked in two orders | a key pays once, money is not overwritten, the status is that of the payments |
| **Trips** (delivery_service `trip_service.py`) | `trips` | auto_create_and_start, create, start, complete, cancel | order_service (inside the transaction), Fuel stock | status read without a lock; calls both ways; 5 s and 10 s limits | one trip per delivery; completed only with its order |
| **Fuel stock** (`inventory_service.py`) | `fuel_transactions`, `fuel_stock` | departure, difference, reversal, arrival, expense, adjustment, reconcile | Trips | a stored sum beside its journal | one row per reason, no lost delta |
| **Tanks** (`tank_service.py`) | `fuel_tanks`, `tank_transactions` | create, update, delete, adjust, arrival, issue, expense, transfer | Fuel stock | a meter that turns over; several locks | the readings chain, transfers arrive, no circle of locks |
| **Deletion in delivery_service** (`redis_subscriber.py`) | all of the above | purge on `order_deleted` | Orders (event) | rows read without a lock; lost events | every litre goes back |
| **Sessions** (auth_service `auth_service.py`, `token_revocation.py`) | `refresh_tokens`, a mark per user in Redis | login, refresh, logout, logout of all, change of password | all services (the mark) | refreshes that overlap, lost answers, detection of a stolen token; tokens of two lifetimes | no honest device is thrown out; what is cut off stays so |
| **One-time codes, throttle** (`otp_service.py`, `login_throttle.py`) | keys of Redis | issue, verify; check, record, reset | SMS gateway | every command apart from the next | limits hold up to the requests that overlap; a code works once |
| **Users, organizations** (`user_service.py`, `organization_service.py`, `routers/internal.py`) | `users`, `client_profiles`, `organizations`, members | register, create, edit, archive; invite, remove, hand over | order_service (context of a client) | look-up then insert; a phone in several forms | a number leads to one user, one owner, nobody twice |
| **Documents** (`document_service.py`) | `documents`, counters, PDFs on disk | issue, regenerate, send, export, delete | Orders, mail, chat | the disk is not part of the transaction; the row is locked by some and not by others | one invoice, which says what the order costs and what was sent |
| **Contracts, requisites** (`contract_service.py`, `legal_entity_service.py`) | `contracts`, `legal_entities`, counters, PDFs | create, renumber, terminate, delete; new version | Orders (in passing) | advisory lock, typed numbers | one active contract per client and organization; a history without gaps |
| **Tariffs, prices, catalogue** (`tariff_service.py`, `pricing_service.py`, `money.py`, `fuel_type_service.py`) | `tariffs`, prices, history; sums of orders; cached names | create, edit, default, archive; preview, price, deliver | Orders, Documents | nothing is locked; four places round | a usable default; the form, the order and the invoice agree |
| **Saved addresses** (`client_object_service.py`) | `client_objects` | save, edit, remember | Orders | a limit counted before the insert | the last contact named is kept |
| **GPS trackers** (`gps_service.py`, `gps_protocol.py`) | `gps_devices`, `gps_positions`, limits in memory | ingest, register, bind, change, delete, purge | trackers | a row read without a lock; limits in the process | points of a live tracker, proved with its secret, at their distance |
| **Delivery zones** (`zone_service.py`, `geo.py`) | `delivery_zones` | draw, edit, switch off, resolve | Orders (price) | corners and borders | the first active zone a place is in |
| **Chat** (chat_service) | conversations, participants, messages, marks, files; sockets, listeners, presence | open, list, send, read, pin, forward, upload, delete; websocket | Redis, Orders (deletion) | look-up then insert; tasks that replace and cancel each other | one chat for the same people, who enters is who sees it; each open socket is served once |
| **Calls** (call_service) | `calls`, participants | start, join, decline, end; webhooks | LiveKit, chat | webhooks against requests | one open call per conversation, one end per call |
| **Notifications** (notification_service) | `notifications`, `device_tokens` | on events; read; register, push | Redis, mail, FCM | one task per event | nothing is told of what is gone; a phone belongs to who uses it |
| **Mobile application** | SQLite outbox, tokens | enqueue, flush, refresh | all | offline work, retries | each action of a driver takes effect once |
| **Transport directory, vehicles, reports, journal** | reference rows | one row per request | – | – | – |
| **Web application, scripts** | – | – | – | – | – |

`PROJECT.json` says for each component whether it is modelled; its `hazards` list what in this
code a test would hardly reach, each at its line, with the properties that cover it or the
reason why none does.

## 2. The modules

| Module | Models | Kind |
|---|---|---|
| `OrderLifecycle` | the promise of order_service about statuses | abstract specification |
| `OrderService` | the order rows under every request of order_service | component |
| `FulfilmentProofs` | theorems about `OrderService`, and about `Fulfilment` on top of them | proofs |
| `IdentityProofs` | theorems about `Sessions`, `AccessTokens`, `Codes`, `Throttle` and `Accounts` | proofs |
| `TripLedgerProofs`, `PaymentsProofs` | theorems about the modules of those names | proofs |
| `TanksFleetProofs` | theorems about `Tanks`, `Trackers` and `Zones` | proofs |
| `PaperworkProofs` | theorems about `Documents`, `Contracts`, `ClientObjects`, `Sellers`, `Catalogue`, `Tariffs` and `Money` | proofs |
| `MessagingProofs` | theorems about `Chats`, `Messages`, `Listener`, `Calls`, `Notices` and `Devices` | proofs |
| `FiniteSums` | least and greatest members, sizes, and sums over finite sets (`SumFunctionOnSet`), for all of them | lemmas |
| `TransportOrders` | extends `OrderService` by the requests of transport_service | component |
| `TripLedger` | trips and the fuel they book | component |
| `Fulfilment` | `OrderService` and `TripLedger` (`Fuel == INSTANCE TripLedger`) with the HTTP calls and the event between them | composition |
| `Payments` | payments of an order and the cached status | component |
| `Tanks` | tanks, meters, transfers, purge | component |
| `Sessions`, `AccessTokens` | refresh tokens of a user and the devices that hold them; access tokens and the mark that revokes them | components |
| `Codes`, `Throttle` | one-time codes; the backoff of the login | components |
| `Accounts` | users, an organization, members and invitations | component |
| `Documents`, `Contracts`, `Sellers` | invoice and PDF; contracts; versions of the seller's requisites | components |
| `Tariffs`, `Money` | tariffs and their journal; the sum of an order from the form to the invoice | component; pure functions in the life of one order |
| `Catalogue`, `ClientObjects` | names of fuels and their cache; addresses of a client | components |
| `Trackers`, `Zones` | GPS trackers and points; zones and the ray that finds them | components |
| `Fleet` | `Trackers` and `Zones` side by side | instance |
| `Chats`, `Messages`, `Listener` | conversations and access; messages and marks; sockets, listener, presence | components |
| `Calls` | calls, rooms of LiveKit, webhooks | component |
| `Notices`, `Devices` | notices, letters and rings; phones and push tokens | components |
| `MCIdentity`, `MCPaperwork`, `MCMessaging`, `MCTripLedger` | the components of one service each, side by side | instances |
| `MC…` | sets of edit fields, symmetry, for TLC | instances |

**How code becomes actions.** A handler that reads a row `FOR UPDATE`, or in the statement that
writes it, is one action. A handler that reads without a lock and writes later is a `Begin` (the
read, the checks, what it means to write) and a `Commit`; the Commit waits for the row lock but
checks nothing again, as an `UPDATE … WHERE id = …` does, and `WriteBack` writes the changed
columns only. A handler that keeps a lock while it waits for another service is two actions as
well, with the lock in `rowLock` or in the state of its session. `RollBack`, `Abort`,
`NotDelivered` and `NotCompleted` are what an exception, a timeout or the end of the process does
at any point in between. A unique index is `KeyFree`: a duplicate waits for the transaction that
inserted the key. What no decision and no property reads (addresses, comments, tariffs, names,
the audit journal, wording) is left out; litres and money are small numbers.

**OrderService.** `orders` are rows; `statusLog` has the entries of `order_status_logs` that
change the status, with the key they were written under; `session` is what a request in progress
has read and means to write; `rowLock` is a lock that is held over an HTTP call.
`CreateOrder` is also `create_transport_order`. delivery_service is a choice between
`DeliverCommit` and `RollBack`.

**TransportOrders.** `deliver_transport_order` loads the order without a lock and then calls
`transition_status` in the same session: the locked `SELECT` sees the committed row only in its
`WHERE`, and hands back the object that was loaded first. `DeliverTransportCommit` says that.
It is kept out of `OrderService`, so the properties and theorems of `OrderService` are about
its own requests, and they are **false of a system that uses `POST /transport/orders/{id}/deliver`**
(finding `transport_race`).

**TripLedger.** One fuel. `Litres` of rows carry their sign. The look for an earlier row of the
same note comes after the flush of the trip, hence in the Commit. `complete_trip` is three
actions: the read, the UPDATE and the call (`CompleteWrite`, which holds the trip and the stock it
has looked at), the commit.

**Fulfilment.** `caller`, `confirmed`, `asker` and `verdict` say who waits for whom: a delivery
for an auto-start, a completion for a delivery. An answer to somebody who has given up goes
nowhere. `deleted` are the `order_deleted` messages on their way; one may be lost when it is sent.
`CancelTrip` asks for the order back, which the status machine refuses unless the order is NEW.

**Payments.** `record` → `recorded` (locks and sum taken) → commit; `cancel` → `cancelled`
(flushed, sum taken) → commit; `final` for the unlocked edit of the final amount. The other
edits of the amounts are one column in one UPDATE.

**Tanks.** Everything on one tank is one action under its lock. Transfers and purges take locks
one by one (`Lock`), in the order of the ids and in the order of the rows respectively.
The order of the journal is the order of the commits.

**Sessions.** Rows of tokens in the order of their issue; `Branch` is the decision of
`refresh_tokens` (rotate, grace, lost, reuse, refuse) on what was read, `Rotate`,
`AnswerAgain`, `AnswerInstead`, `Reuse` and `Refuse` what it writes. A device keeps one pair and
has one refresh on its way; `GiveUp` is its time limit. `AccessTokens` counts seconds: a token is
refused when the mark is of a later second. **Codes** and **Throttle** have one action per
command of Redis.

**Accounts.** A request is a `Begin` (reads and checks) and a `Commit`; `racedUsers` and
`racedOrg` note that two of them decided on what the other was about to write. One organization
stands for all.

**Documents.** `disk` beside `docs`: a PDF is written before its row commits and stays when the
transaction is rolled back. `loose`, `penciled`, `crowded` and `unkept` note the ways in which
row and file may come apart. **Contracts** has the advisory lock (`pairLock`), the counter
(`seqLock`, `lastSeq`) and the files. **Sellers**, **ClientObjects** and **Catalogue** are
Begin and Commit without a lock.

**Tariffs** keeps prices by fuel, a formula tariff is derived from its base when it is read.
**Money** follows one order: `quote` has its sums in kopecks, `HalfUp` is the rounding of
`Decimal.quantize`; `lapses` notes what puts a sum out of the terms (a typed sum, a switch of the
payer, a price first known after the delivery). `NoSum` is the `None` of a column, a constant that
is no number, since a sum that is recomputed from others has no bound.

**Trackers.** `Decide` is what `ingest_point` does between its first query and its commit (it does
not wait there, so the limits of the process are one step); `StorePoint` the commit. The staff's
requests are `BindBegin` and `BindCommit`. `points` says how many of each point there are. Secrets
are numbers, and `since` notes when they were changed. **Zones** multiplies out the division of
`point_in_polygon`, so that corners and borders are exact.

**Chats.** Kinds of conversations with the keys that identify them, participants and the staff's
shared membership; `CheckAccess` and `ListOf` are the two ways in which the code decides who
may see a chat. **Messages** has the time at which a request begins, which is the time of its
message, and rows of marks. **Listener** has the tasks of asyncio with the points where they
wait. **Calls** has the rooms of LiveKit and the webhooks on their way, which may be lost.
**Notices** has one task per event. **Devices** has the phones' requests, which may be lost.

**History variables.** Several modules note what has happened (`crossed`, `raced`, `forgotten`,
`lingered`, …) and no action reads such a note. They make a property precise where the code
lets two requests that overlap break it: the property says that *nothing but* this overlap does.

## 3. The runs

All bounds are constants of the `.cfg` files. Every property has a mutant, a plausible bug in a
mapped definition (a lock not taken, a check left out, a column written that was not changed),
which shows that the run can see the property fail; a property of several parts has one for most
of them.

**Components side by side.** `MCTripLedger`, `MCIdentity`, `MCPaperwork` and `MCMessaging`
instantiate the components of a service that share no row, key or file. Steps of two such
components commute, and each property is about one of them, so a behaviour of the service breaks
a property only if a behaviour of one component does. Hence a variable, chosen at first, says
which component moves. The components use the same model values for their requests and rows,
so that one group of permutations is a symmetry of all of them; every property of a run with
`SYMMETRY` is a safety property.

| Run | Question | Bounds and why they are enough |
|---|---|---|
| `orders` | Do requests that overlap on one row keep the log a walk, keys and transitions together, the delivery undisturbed, the archive final, the lifecycle abstract? | one order (rows share nothing but keys), two drivers, two sessions (a race needs two; the atomic handlers run beside them without a session), one key, one volume, two edit sets |
| `trip_ledger` | Are trips booked once per reason, in order, without a lost delta? Do trackers keep to their secrets, limits and vehicles? Is a place in the zone it is in? | two trips of one order (purge and auto-start look at all trips of an order), two requests, reports below, at and above the plan, one litre by hand; two trackers and a vehicle, three requests, a clock of three ticks, a ceiling and limits of one; two zones of four shapes with both orientations, a dent, and every point of their grid |
| `fulfilment` | What holds of an order and its trips through lost answers, timeouts, rollbacks, cancellations, deletion? | one order; **one** session of order_service, since a second delivery of the order waits for the row lock and is the same after it; two trips and two handlers, for a late auto-start beside a retry and for an auto-start inside a completion; reports of 19 and 20 litres; `Requests` names the requests of order_service that run beside them: a claim and a deletion |
| `fulfilment_live` | Do deliveries in flight end? | as above without staff operations; no symmetry |
| `payments` | Does a key pay once, is money kept, is the status right after a record? | one order, two payments (an invoice and a payment, or two payments), two sessions, amount below the price so that unpaid, partly paid and overpaid occur |
| `tanks` | Do readings chain, transfers arrive, locks not circle, litres stay? | two tanks, a meter that turns over at 3 (every pair of readings, both sides of the turn), three rows in all, two sessions (a circle needs two) |
| `identity` | Is an honest device kept and a revoked token refused? Do limits hold between commands? Do numbers, members and owners stay single, and do the services agree on who orders for whom? | two devices, two refreshes, four tokens (a chain of three and a branch); lifetimes of 1 and 3 s; two requests on one phone with three codes; three logins with thresholds 2 and 4; two users, two numbers of which one in two forms, two members, two requests |
| `paperwork` | One invoice and one contract, files that say what rows say, a seller without gaps, addresses, names, a usable default, a journal that replays, sums that agree? | two orders and two requests at once, four in all (an issue, an edit, a delivery, a sending); three contract numbers over two months; four versions, edits and tariff requests; half litres, a tier, VAT of 22 %, three edits of an order |
| `messaging` | One chat for the same people, access that agrees, sockets that are heard, one open call, notices only of what exists, phones of who uses them, ticks that never go back? | an administrator, a manager, a client, two drivers, two chats, two requests at once, four in all; two people and two texts; three sockets, three listeners and one fault of Redis; two calls, one lost webhook; three events at two handlers; two phones, a limit of one |
| `transport_race` | violation | one order, one driver, two sessions |
| `completion_retry` | violation | as `fulfilment` |
| `order_goes_through` | violation | contracts alone: two requests, two numbers |

**What the violations show** (each quotes the repository against its code): a cancelled or
delivered transport order can be delivered again (`transport_race`); a completion whose answer
was late can never be repeated (`completion_retry`); the contract that an order makes in passing
can cost the order (`order_goes_through`).

**Deadlock.** `CHECK_DEADLOCK FALSE` throughout: ids of orders, trips and rows are used up, and
the environment may stop sending requests. That nobody waits for ever is said by
`DeliveryEnds` and `NoTransferCircle` instead.

**Fairness** (`FairFulfilmentSpec`). PostgreSQL grants a row lock in turn, so an auto-start that
waits for the stock row is served if the row is free again and again: strong fairness. A call of
`complete_trip` ends after 5 s (`httpx` timeout in `trip_service.py`), so a completion that waits
ends: weak fairness of `NotCompleted`. A session that has its answer, or whose call was refused,
goes on: weak fairness. The 10 s limit of the delivery itself is *not* assumed, nor that anybody
sends a request: `DeliveryEnds` shows that the 5 s limit is what breaks the circle.

## 4. The proofs

The theorems hold for every value of the constants that satisfies the assumptions of the module:
any number of orders, trips, sessions, people and keys, any litres and amounts. "Checked in" is
the run that shows the same property, or a conjunction that contains it, on a small instance.

| Module | Theorem | Says | Checked in |
|---|---|---|---|
| `FulfilmentProofs` | `TypeCorrect`, `TablesTyped` | `TypeOK` and `DeliveryHoldsLock` are invariants | `orders` |
| | `TrailHolds` | `StatusTrail` is an invariant | `orders` |
| | `KeysAreApplied` | `KeyMeansApplied` is an invariant | `orders` |
| | `LockedRowStays` | `LockedRowStable` | `orders` |
| | `ArchivedStays` | `ArchivedKeepsStatus` | `orders` |
| | `RefinesLifecycle` | `OrderSpec` implements `OrderLifecycle` | `orders` |
| | `OrdersAmongTrips` | `FulfilmentSpec` implements `OrderSpec` | – |
| | `TripsGoWithOrders` | `TripsMatchOrders` is an invariant of the two services | `fulfilment` |
| | `FactsAreBooked` | `FactIsBooked` is an invariant of the two services | `fulfilment` |
| `TripLedgerProofs` | `DepartureComesFirst` | `DepartureFirst` is an invariant | `trip_ledger` (`LedgerOK`) |
| | `NoteIsBookedOnce` | `OneRowPerNote` is an invariant | `trip_ledger` (`LedgerOK`) |
| | `LedgerStaysOK` | `LedgerOK` is an invariant | `trip_ledger` |
| | `CompletingTripStays` | `CompletingTripStable` | `trip_ledger` |
| | `StockGoesWithJournal` | `StockFollowsJournal` | `trip_ledger` |
| `PaymentsProofs` | `PaidStays` | `PaidIsKept` | `payments` |
| | `KeyIsPaidOnce` | `KeyPaysOnce` is an invariant | `payments` (`PaymentsOK`) |
| | `TablesStayOK` | `PaymentsOK` is an invariant | `payments` |
| | `RecordedIsSettled` | `RecordSettles` | `payments` |
| `TanksFleetProofs` | `TransfersGoOn` | `NoTransferCircle` is an invariant | `tanks` |
| | `MetersChain` | `MeterOK` is an invariant | `tanks` |
| | `VolumeGoesWithJournal` | `VolumeFollowsJournal` | `tanks` |
| | `TransfersStayPaired` | `TransfersPair` is an invariant | `tanks` |
| | `FleetStaysOK` | `FleetOK` is an invariant | `trip_ledger` |
| `IdentityProofs` | `CutOffForGood` | `CutOffStaysCutOff` is an invariant | `identity` (`RotationSafe`) |
| | `IdentityTyped` | `IdentityTypeOK` is an invariant | `identity` |
| | `RotationIsSafe` | `RotationSafe` is an invariant | `identity` |
| | `LimitsAlwaysHold` | `LimitsHold` is an invariant | `identity` |
| | `PeopleStayInOrder` | `PeopleOK` is an invariant | `identity` |
| | `SeeingIsOrdering` | `ContextAgrees` is an invariant | `identity` |
| `PaperworkProofs` | `OneContractPerPair` | `OneActivePerPair` is an invariant | `paperwork` (`ContractsOK`) |
| | `FilesSayContracts` | `FileSaysContract` is an invariant | `paperwork` (`ContractsOK`) |
| | `ContractsAreOK` | `ContractsOK` is an invariant | `paperwork` |
| | `DirectoriesAreOK` | `DirectoriesOK` is an invariant | `paperwork` |
| | `TariffsStayOK` | `TariffsOK` is an invariant | `paperwork` |
| | `FormIsCharged` | `PreviewIsCharged` | `paperwork` |
| | `InvoicesStayOK` | `InvoicesOK` is an invariant | `paperwork` |
| | `DispatchStaysOK` | `DispatchOK` is an invariant | `paperwork` |
| | `SumsStayOK` | `SumsKept` is an invariant | `paperwork` |
| | `PapersAreTyped` | `PaperworkTypeOK` is an invariant | `paperwork` |
| `MessagingProofs` | `TicksAdvance` | `TicksOnlyAdvance` | `messaging` |
| | `TalkStaysOK` | `TalkOK` is an invariant | `messaging` |
| | `ListenerStaysOK` | `ListenerOK` is an invariant | `messaging` |
| | `CallsStayOK` | `CallsOK` is an invariant | `messaging` |
| | `ToldStaysOK` | `ToldOK` is an invariant | `messaging` |
| | `MessagingIsTyped` | `MessagingTypeOK` is an invariant | `messaging` |

**Orders.** `StatusTrail` is not inductive: `DeliverCommit` writes a transition from the status its
session read, so it must be known that the row still has it. The inductive invariant is

    Inductive == TypeOK /\ DeliveryHoldsLock /\ BlankBeforeCreation /\ StatusTrail

where `DeliveryHoldsLock` says that a delivery holds the lock of a row that is as it read it, and
`BlankBeforeCreation` that an order that does not exist has no log and is not archived. `TypeOK`
and `DeliveryHoldsLock` are inductive together (`TypeStep`, `LockStep`). From them, `RowStep`
classifies a step: it leaves rows and logs alone, or touches one order and creates, moves,
removes or edits it, with the lock free or its own. Most of the other theorems argue from
`RowStep` alone, without looking at the handlers again. For the keys, `KeysAgree` adds that a
stored key has exactly one entry in the log, and that a key some delivery claims is nobody else's.

**Trips** (`LedgerInv`). A cancellation books a return by the status it has read, however old.
What makes that safe is `ReadDeparted`: a trip that was read as on its way has its departure in
the ledger for good, unless it was purged. A completion that waits for order_service holds its
trip (`TripHeld`), and a trip that is not there has neither rows nor sessions (`NoneYet`).
For the stock, `StockInv` adds `HeldStock`: a completion that has looked at the stock row in its
UPDATE finds it unchanged, and is the only one that has. `Grows` describes what an action may do
to the rows of one trip, and each booking adds the same litres to the journal and to the stock.

**Fulfilment** (`FulfilmentInv`). The ledger's proofs are used by
`FP == INSTANCE TripLedgerProofs`, those of order_service directly: `OrderSide` and `FuelSide` show
that a step of the two services is a step of each or leaves it alone. What remains is what they
say to each other. `LinksInv`: who waits for whom waits for the order both mean, a confirmed
auto-start has its trip, and a purge is of an order that is gone. `FactsInv`: a trip that is
completed, or was, has a settled order (`FulfilledSettled`); a completion that was accepted finds in
the order the litres of its own report, while no trip of that order is completed and no other
completion was accepted for it (`AcceptedOnce`). That makes `FactIsBooked` inductive: a second
completion finds the order settled and is refused. A refusal, a timeout and a rollback at any
point in between are among the steps.

**Payments** (`PayInv`, `SettleInv`). The invoice that a record has flushed is pending and is
nobody else's (`InvoiceHeld`), what is being cancelled is there (`CancelsRow`), and a key is on
one payment or claimed by one session, not both (`KeysApart`). `SettleInv` is about sums: one
record at a time holds an order (`OneRecord`), and what it has summed is what the table has, its
own flush included (`DraftCurrent`). So the status it writes is that of the payments.

**Tanks** (`TanksInv`, `MeterInv`). A transfer holds no tank above one that it still needs
(`LowerFirst`). If every transfer of a circle waited for another, the one that waits for the
highest tank would wait for one that waits for a tank above it. The set of tanks must be finite: an
endless chain of transfers need not contain a circle. For the readings, `TanksSound` says that
those of a journal follow one another and the last is the tank's, whatever the meter's turn;
`HeldLive` that a tank with a lock on it is not deleted, `TwoTanks` that a transfer has two,
`SeenStands` and `OnePurge` that a row a purge has read is still the order's, since only the one
purge of an order removes its rows. For the transfers, `PlaceOfNext` says that a new row has the
place after all those of its kind and changes nobody else's; a transfer appends one to each of two
journals, which had as many. A purge leaves transfers alone, since they are for no order.

**Trackers** (`TrackersInv`). The handler decides on a point on a row that may be gone, bound
elsewhere or given a new secret when the point commits. So the invariant speaks of the points on
their way as of those in the table (`OnItsWay`): each is honest, which means that it has proved the
secret that its tracker has, or was let pass before that was set (`Honest`), and is as far from
the others of its tracker as the limiter asks (`Spaced`); the limiter knows each, or it is long ago
(`Known`), unless what it forgot too early has been written down (`forgotten`). An id belongs to
one number and is never given again (`RowsOK`), so that a point whose tracker was deleted finds no
row, though its number may be registered anew. A request binds only what it found free
(`RequestsOK`); `abreast` and `twiceBound` note the registrations and binds that overlapped.

**Zones** (`ZonesInv`). The rows only have to be of their types; the rest is geometry, for any
place and any polygon of integer coordinates. A ray that crosses two edges of a triangle, or one,
has the place on the sides of the edges that it should have: `TriangleExact` is an identity between
the three turns and the products that the prover is led to. `CutsExact`: when a polygon is cut in
two from its first corner, the edges of the two parts are those of the polygon and the cut twice,
so that the number of crossed edges is odd for the polygon when it is for one part but not the
other (`OddCut`).

**Contracts** (`ContractsInv`). A request past `pg_advisory_xact_lock` is alone with its pair, and
found no contract of it (`LockHeld`); the row it will insert is not there yet (`OwnRow`); a
contract that is printed anew keeps its pair (`ReprintsRow`). Hence no two rows of one pair.
For the files (`FilesInv`), a row names the path of its pair and number (`FilesAtNumbers`), a
request that has saved finds its own terms there (`SavedSays`), and one that prints anew has read
the row as it is (`ReprintsCurrent`), unless the file of the number was written or removed for
another contract (`contestedNos`) or two requests changed the contract at a time (`crossed`).

**Directories, tariffs** (`ObjectsInv`, `SellersInv`, `CatalogueInv`, `TariffsInv`). All of them
decide without a lock on what they have read, so each invariant says how that is related to what
is there when they commit, or that a note (`racedOwners`, `raced`, `astray`, `overlapped`) says
that another request came between: the room that was seen under the cap (`RoomWasSeen`), the
versions that are open (`OneAtATime`), the names a reload is about to assign, the prices and the
defaults that a request means to write (`RequestsSay`). The step that would break the rest raises
the note. For the journal of prices, `SaysOf(log, f, price)` is that the entries about one fuel
lead from no price to `price`; `JournalSays`, that they lead to what the row has, is inductive,
and `JournalReplays` is what it says of the last entry.

**Form** (`FormInv`). The form computes the fuel part in its own way, which comes to that of the
order, rounded at the same place (`SameFuel`).

**Invoices** (`DocsInv`). A number is held under the lock of its counter until its row commits
(`NumbersHeld`, `LocksHeld`), and a creation is alone with its order (`CreationsAlone`). Unless
two requests met on an order (`crowded`), one request works on it (`OneWorker`), and what it has
read, flushed and rendered is the order's and its invoice's own (`WorkHolds`); a row that is there
says what the order costs, its file what the row says unless somebody is about to write it, and
what was sent is that file (`RowsSay`), each but for the notes `loose` and `penciled`. What a
client has received under a number is of the order that has it, that will have it, or whose
sending was in vain (`PaperHolds`, `unkept`). A request touches its own order alone: `OnlyAbout`
takes that apart once, and the steps are then about one order (`DocGoesOn`, `Ends`, `Begins`,
`Idle`).

**Sums of an order** (`MoneyInv`). `ExpectedOK`: a sum that was computed is what its parts come
to, or has been rounded at most once per edit since, so that it is no further from them than the
number of edits times the volume explains. That needs two facts about the rounding: it is off by
half a unit at most (`HalfUpNear`, `PriceFirstNear`), and a sum which is already a rounded price
times the volume comes out of the next rounding as it went in (`PriceFirstAgain`). `DueOK`: what
is due follows what is expected until a sum is typed, the payer switched or the price comes late
(`lapses`). The division is characterised by its bounds (`HalfUpBounds`), with which the prover
can do what it cannot do with `\div`.

**Sessions** (`SessionsInv`). In any case rows are of their types and links go to tokens issued
later. While nothing but the rotation touches a session (`Orderly`: no password change, no expiry,
no device that has missed two answers), each device's token is good, or has been rotated into one
whose answer it has lost and that nobody has used (`HeldIsGood`); no two devices share a token, and
a request that is about to revoke a successor is alone about its token (`LostIsAlone`). Hence no
honest device ends in the branch for thieves.

**Access tokens** (`AccessInv`). A token that was cut off is older than the mark, and the mark
outlives it. `MarkLife` is the longest of the lifetimes (`MarkOutlives`); a later revocation only
moves the mark on.

**Codes and throttle** (`CodesInv`, `ThrottleInv`). The limits are on counters that are read before
they are raised. What is counted and what is about to be counted together exceed the limit by no
more than the requests that overlap (`SendsCounted`, `MissesCounted`, `FailuresCounted`); the
cardinality of the set of requests at one step is what moves.

**People** (`AccountsInv`). `AccountsSound` is about types and holds in any case. `UsersAgree`
(a number has one user, a request that has looked still finds what it saw) holds until two
requests have raced for a user, `OrgAgrees` (one owner, nobody twice, requests still find what they
saw) until two have raced for the organization; each of the two notes is raised by `MarkUsers` and
`MarkOrg` in the very step that would break the rest.

**Messages** (`MessagesInv`). Nobody's mark is ahead of the clock, and who never had two requests
under way began his only one after his marks (`Alone`). That hypothesis is the code's, which
writes the time at which a request began: with two requests at once a mark can go back. `RowsFound`
says that what such a request has found of the mark's row is what there is, so that it does not
insert a second one.

**Conversations** (`ChatsInv`). A request that is about to insert a chat is alone with its key,
that key has no chat, and its order is not deleted (`KeysQueued`), unless the key is `crossed`:
another request had looked for it before this one inserted. Hence one chat for the same people.
`FilesPart`: a directory that is being swept belongs to a chat that is gone, and an upload into it
is known to be late. `PeoplePart`: who is a member, or has the chat on the screen, is let in by
`CheckAccess`, or another driver has taken his place (`replaced`); who was expelled is in the
group again only if his open application has marked the chat as read (`lingered`).

**Sockets** (`ListenerInv`). A conversation without an entry in the manager has no open socket
(`EntryStands`). The presence is a matter of the two writes that race to Redis: unless they have
crossed or the marker has expired (`faded`), a person has one write on its way at most, and it says
whether any of his sockets is open (`WriteOf`), unless one of them found no entry when it closed,
so that nobody took it off the count (`leaked`).

**Calls** (`CallsInv`). A handler that makes a call is alone with it until its row is there
(`StartsAlone`): nobody can have read the row before. The others act on what they have read, and a
call that they saw ended is ended still (`OthersSaw`), and nothing is announced of one that has
not ended (`ToldAfterwards`): both unless two handlers crossed on the call (`mixed`), which the
second one's commit notes.

**Notices** (`NoticesInv`). No handler is at work on an event of a deleted order, but those that
were when it was deleted (`ErasedAlone`). For the ring, the invariant says where the end of a call
is: whoever was invited has received it, or was out of reach, or a handler has it on its way to
him (`EndReaches`, `EndOnItsWay`), and so for whoever still rings (`RingingEnds`), but for a start
that was handled after the end (`overtaken`).

**Phones** (`DevicesInv`). A token is that of the user who is signed in, or nobody's
(`TokensSettled`), until a request was lost or passed by another; the stamps by which the eldest
is chosen are all different (`StampsApart`), and a registration that has read will leave its user
no more phones than are allowed, unless another of the same user has read too (`FewPhones`,
`together`).

**Sums and sizes** (`FiniteSums`). The induction theorems of the library take an operator and
cannot be used, but an induction over *finite sets* can be written as a least counterexample:
`Least` and `SmallestSubset` follow from well-foundedness, and from them `SumWithout`, `SumMoves`
and `SumSplits` for the fold that the models sum with. `StockFollowsJournal`,
`VolumeFollowsJournal` and `RecordSettles` rest on these.

**Assumptions.** The null values are not members of their sets; drivers are not staff; volumes,
amounts and lifetimes are positive, litres and prices integers; trips, payments, tanks, roles and
the requests whose number a limit counts, fuels, sockets, phones and trackers, are finite sets;
`NoSum` is no number; numbers of users have digits, unlike the number of a user without a phone;
kinds and edit sets are those of the code. TLC evaluates all of them in the runs. The theorems
about one component are about its specification (`LedgerSpec`, `PaySpec`, …), whose actions are
the ones that the runs of several components side by side take; those about `Sessions` to
`Accounts` are about `IdentitySpec`, which the run `identity` checks, and those about `Documents`
to `Money` about `PaperworkSpec`, which `paperwork` checks; those about `Chats` to `Devices` about
`MessagingSpec`, which `messaging` checks, but for the ticks, which are about `MessagesSpec`; the
one about `Trackers` and `Zones` is about `FleetSpec`, which is the part of the run `trip_ledger`
that moves them. Polygons and places have integer coordinates.

**Only model-checked:** `DeliveryEnds`, since liveness under fairness and ENABLED are out of the
prover's reach; so is what a recursive definition computes for every input, which no property here
needs: sums are folds over finite sets, the rest is said by counting. The runs that end in a
violation state what does not hold. The specifications of runs that put components side by side
(`DeliverySpec`, …) add to the theorems' own only the variable that chooses which one moves.

**What the proofs have corrected in the models.** A contract that is printed anew under a number
someone else's file already has contests that number too: with four requests `FileSaysContract`
did not hold without that note, and the run has fewer. A manual issue that is refused because the
order had no amount leaves alone the amount that was committed meanwhile. A sum that is recomputed
again and again can reach any number, so `NoSum`, once a number below all sums of the runs, is now
none. Two things are said by counting where an enumeration could not be reasoned about: the pairs
of rows of a transfer (`TransfersPair`), and what the limiter forgets first (`Evicted`); wrong
codes are kept after their window, which only `Recent` looks at.

## 5. What the models show that no property denies

The properties are true of the code; where two requests that overlap get around them, a history
variable says so, and the model reaches that state:

- *Orders.* An edit that was permitted while the order was open commits after the delivery;
  `ack_changes` clears an edit that the driver has not seen; a delivery sets `final_amount`
  and leaves `payment_status` as it was.
- *delivery_service.* A cancellation that has read an earlier status is written over a completion;
  after a timeout an order may get a second trip, and `scalar_one_or_none` fails from then on; a
  recount that crosses a booking stores a sum that misses it; a cancelled trip leaves its order
  DELIVERED; a lost `order_deleted` leaves trips and litres. Two requests can bind two trackers
  to one vehicle, after which looking for a free vehicle fails; a fixed price of a zone cannot be
  taken back, since `PUT` drops what is null.
- *auth_service.* A device that misses two answers running is taken for a thief; wrong guesses at
  an earlier code count against a new one, for the counter outlives the code; logins that overlap
  try more passwords than the threshold.
- *Office.* Two issues at once make two invoices; a rolled back edit leaves its PDF, and a client
  edit an invoice of the old sum; the look-up of the default tariff for the form expects one
  default of all types; a tariff by a formula can become the base of another by a later edit.
- *Messaging.* Two first visits make two chats (or two marks) of which neither can be opened again;
  a removed member who marks the group as read is back in it; a socket that opens while the last
  one closes hears nothing; two dead sockets leave a person online; a call that was missed is
  announced as ended twice; a call that ended before its start was handled rings on.

## 6. Limits of the models

- One fuel, one order per run, small numbers; float rounding of litres, money and coordinates is
  left out, the rounding of `Decimal` is not.
- The isolation level is READ COMMITTED with row locks; deadlocks that PostgreSQL resolves by
  aborting a transaction are the rollback actions.
- One process per service, as it is deployed: limits in memory, listeners and caches are those of
  one process.
- PDF, XLSX and DOCX rendering, parsing of messages, wording, and what only reads are not
  modelled; rate limits and the block of a messenger are refusals without a cause.
- Not modelled: the transport directory and its reports, vehicles, the audit journal (one request,
  one row, nothing two requests build up), the money block of a transport order, the waybill's and
  the act's own templates, the screens.

## 7. Plan

Done, the most important first: orders, trips and stock, the two together, payments, tanks,
transport orders; then sessions, codes, accounts, papers, prices, messaging, trackers and zones.
Next:

1. **The outbox** of the mobile application against `OrderService` and `Payments`: the order of
   the entries of one order, the conflict of a payment that is sent too early.
2. **Composition**: the sum of an order (`Money`) under the overlapping edits of `OrderService`;
   the deletion of an order through every service that hears of it.
