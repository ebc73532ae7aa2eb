# Infinite Markets in TLA+

This directory specifies the parts of the Infinite Markets extension (an LNbits
extension that sells goods on a web page and over Nostr) in which orders, money,
stock, messages and published events could go wrong through concurrency, crashes,
retries or late answers. The modules are translated from the Python sources in
`infinitemarkets/`; paths below are relative to it.

## 1. Inventory

| Component | State it keeps | Operations | Talks to |
|---|---|---|---|
| Order saga (`services/checkout.py`, `services/settlement.py`) | `orders`, `payments`, `inventory_reservations`, `products.stock_*` | intake, claim of stock, create and attach invoice, settlement, expiry, sweep, reconciliation | LNbits core (invoices, callbacks), order administration |
| Order administration (`services/orders.py`) | same rows, archive and shipping columns | status and shipping endpoints, cancel, archive, exception resolution, token reissue | saga, outbox, email |
| Idempotency (`services/checkout.py`) | `idempotency_records` | claim, replay, takeover, link, complete, fail, resume | saga, retention |
| Money (`services/checkout.py`, `services/fx.py`) | none; reads products, options and rates | resolve the cart and its shipping, charge, convert, preview | idempotency, catalog |
| Outbox (`services/outbox.py`, `services/relay.py`) | `outbox_events`, `outbox_dependencies`, `relay_publications`, `protocol_addresses` | enqueue with supersession and edges, claim, render, sign, send, settle, recover, retry, no-route sweep | every publishing component, relays |
| Catalog (`services/catalog.py`) | products, collections, shipping options, their references and revisions; catalogs | create, patch, bulk, delete | outbox, saga (stock) |
| Message intake (`services/inbox.py`, `services/order_messages.py`) | `inbox_events`, `inbox_blocklist`, `order_messages` | admit, unwrap, dedupe, dispatch, mark, reply, ask for payment | sessions, saga, outbox |
| Inbox sessions (`services/inbox.py`, `services/transport.py`) | `relay_cursors`; in memory: sessions, subscriptions | open, subscribe, handle, end of stored events, AUTH, CLOSED, close | relays, intake, merchant |
| Email (`services/email.py`) | `email_queue` | enqueue, claim, suppress, send, record, recover | SMTP, orders, retention |
| Task leases (`services/tasks.py`, `db.py`) | `task_leases` | acquire, fence, complete, readiness | all periodic tasks |
| Merchant and storefront mode (`services/merchant.py`, `services/storefront_mode.py`) | `merchants`, `relay_configs`, the mode setting | create, edit, import key, relays, publish, inbox on and off, mode, deactivate | outbox, which writes the outcome back |
| Buyer access (`services/nostr_auth.py`) | challenges, buyer sessions, order links | challenge, sign in, claim of an order | orders |
| Rest | peer-relay cache, relay health, keystore, NIP-89 views, themes, HTTP routes, migrations, UI, harness | | |

How they meet: one request or callback is a sequence of `DomainTransaction`s with
awaits between them (core calls, SMTP, relays); a transaction writes its domain
rows and the outbox and email rows that announce them together. Background tasks
(publisher, sweeper, reconciler, mailer, intake, retention) run in every process,
kept apart by task leases or by claims on the rows.

What is hard: everything read before a transaction and used in it; invoices
created by a call whose answer may be lost; payments that arrive at any time;
sweeps acting on old lists; leases that lapse under a live worker; effects and the
marks that record them in separate transactions; relays that take an event after
the send has timed out, or hand one over before they say they are done; manual
retries and status moves in the middle of it all. `PROJECT.json` lists each of
these hazards at its line.

What must hold, by component:

* saga: one invoice per order, stock never oversold and never lost, a booked
  payment is visible until handled, states of order, payment and reservation agree,
  open orders end, payments get booked;
* idempotency: one order per key, every answer is about that order, a request that
  was taken over can write nothing;
* money: an order costs what the request that placed it confirmed, and every answer
  tells what its order costs;
* outbox: what buyers see in the end is current, dependencies go first, what is
  called published was delivered, a relay that has accepted an event is not sent it
  again, ended rows stay ended;
* catalog: every change of a row says every listing anew that names it, tombstones
  go last, references resolve;
* intake: a message has its effect once, none vanishes behind its mark, each that can
  be stored ends, an open order is asked for its payment;
* sessions: the cursor leaves nothing behind, events arrive;
* merchant: the inbox ends up as the merchant asked last;
* email, leases: no mail is in two hands, every mail ends, a live lease is not
  taken away, an overtaken pass writes nothing.

## 2. Modules

```
OrderMachine    the transition tables of orders.py
  OrderSaga     the saga, all its workers, the merchant, the core     -- MCOrderSaga
    OrderSagaProofs
OrderContract   what the saga promises of one order; OrderSaga implements it
Idempotency     the Idempotency-Key of the public checkout
  IdempotencyProofs
Pricing         what a cart costs (pure operators)
  Checkout      Idempotency and Pricing: the readings behind a price   -- MCCheckout
    CheckoutProofs    Checkout implements Idempotency; prices
Intents         an outbox row, supersession and edges
  Outbox        intents, their editors and their publishers           -- MCOutbox
    OutboxProofs
  Catalog       listings, the references between them, their requests -- MCCatalog
    CatalogProofs
TaskLease       task_leases and the fence of DomainTransaction
  Inbox         TaskLease and OrderMachine: what a message becomes    -- MCInbox
    InboxProofs       also: Inbox implements TaskLease
Activation      the merchant, its relays, inbox and mode              -- MCActivation
  InboxSession  Activation: how events reach inbox_events             -- MCInboxSession
    SessionProofs     theorems about both
EmailQueue      email_queue and its senders                           -- MCEmailQueue
  EmailQueueProofs
```

The modules named Proofs hold theorems only (section 5).

Conventions. A `DomainTransaction` is one action: SQLite's `BEGIN IMMEDIATE`
serialises them; on PostgreSQL the code relies on row locks and on the CAS
predicates, which are in the guards. What a worker learnt outside a transaction
(a row, an answer of the core, a claim token) is carried in a record per worker
(`work`, `attempt`, `edit`, `job`, `hand`, `request`) until the transaction that
uses it, so any other step may come between; a crash drops it. Time is a set of
facts that become true (`lapsed`, `aged`, `live`), except in InboxSession, which
needs a clock. Amounts (outside Pricing), text, addresses and keys are abstracted.
History variables (`invoices`, `astray`, `named`, `confirmed`, `wish`, `took`, `taken`, `resumed`, `lost`)
are read by properties only.

**OrderSaga.** One record per order column that matters, per product `onHand`,
`reserved`, `deleted`, the external `core` payment. Workers: `Requests` (web
checkout or Gamma handler), `Listeners` (invoice callbacks), `Reconcilers`,
`Sweepers`. `transition_order`, `release_reservations`, `mark_rejection`, `attach`,
`confirm_settlement`, `flag_exception` are operators with the names of the
functions they translate; the actions are the transactions that call them. Left
out: prices (Checkout), messages (Inbox, Outbox), mails (EmailQueue), per-buyer
scopes (all orders share one).

**Idempotency.** `record` is the row, `attempt` what a request carries. A 409
changes nothing and is no action. The saga behind it is reduced to an order
being received, begun, refused or closed, at any time by the reconciler too.

**Pricing and Checkout.** Pricing translates the resolution of a cart, the shipping
rules and the conversion to satoshis. The rate is rounded to `Digits` places as Decimal
rounds it to 28 digits, and the charge is rounded up from the rounded rate, so it may
cost one satoshi more than the least that covers it; measures come in one unit per kind;
a NULL amount is 0 as `or 0` makes it. Checkout
replaces the single intake step of Idempotency by its readings: products one by one,
their parents, the option, then surcharges and rates (one step for a whole cart),
then the insertion, refused if the buyer confirmed another total. What a request
confirms (`expected`) is chosen freely: the hash under a key leaves it out, so two
requests of one body may confirm different totals, and a retry that is replayed or
resumed is not compared at all. `EditShelf` lets catalog and rates change between any
two. `MCCheckout` also checks three assumptions on data: the preview of the first
shelf, and `Sats` against its definition: within one satoshi of the least amount worth
the charge, from which the rounding of the rate does move it.

**Outbox.** `content` holds for each aggregate its `revision` column, a version of what
it says and whether it is public; `outbox` the rows in creation order with state,
attempts, error, token, edges, accepted copies and the last signed `created_at`.
`ReadListing` and the patch actions are two steps because `patch_product`,
`add_product_image` and `patch_collection` read the row before their transaction. The
publisher's two transactions are `Block`, `Overtake`, `NoTargets`, `NoRoute`, `Send` and
then `Finish`; `Deliver` is a relay taking an event in at any later time; `SweepNoRoute`
is the peer-relay task that gives a message without a route up or queues it again. Each
relay takes one kind of copy (public, or recipient or sender of a message), any number
each; which of them a pass knows of is a choice of `Send`, whose targets are those that
have not accepted their copy (`Missing`). A copy is delivered once one of its relays has
accepted it. A worker whose lease ran out stops at its next transaction: for the row
that is `Crash`, and `Recover` may come at any time. Not in it: stalls, un-addressed
merchant tombstones, the clock skew pause (a `Fault` to the row), browse-only mode
(which supersedes listings on purpose), changes of drafts, which announce nothing, and
product creation, which is a first patch.

**Catalog.** `db` holds the rows, the reference tables and the intents as one
record, so that a request is a composition of the functions it calls (`Announce`,
`Republish`, `Refresh`, `Withdraw`) on it. The loops of the code over listings, none of
which waits for another, are one set of things to say (`Put`, `Del`, `Say`); where the
order counts (collections, then products, then the tombstone; one product of a bulk
deletion after the other) it is kept. A listing's rendering is what it refers to.
`astray` remembers which listings a request left behind and which it numbered, or
deleted again, from an outdated reading. Patches and deletions are two steps (`Read`, then the transaction); creation
and bulk actions read what they need inside. The publisher is reduced to publishing
a free intent from current state or giving it up: Outbox has what else may happen.

**TaskLease and Inbox.** A lease has a holder and is live or not; the fencing token
only grows and is only compared, so a pass knows that it is `current` or `stale`.
`Fenced` is the check of `DomainTransaction`, at the begin and again at the commit.
Inbox runs the two tasks that drain messages in each process: the inbox processor
and the reconciler (`settlement.reconcile` drains first, under its own lease, then
asks again for payments). `row` is `inbox_events`, `told` the recorded messages,
`job` a pass with the row it has in hand; `ProcessReceived`, `Effect` and `Mark` are
the three transactions a message takes, more for an order that is begun, rejected
and answered. A pass of the model takes a row up when it lists it, which makes its
readings as old as they can be.

**Activation and InboxSession.** `merchant`, `relays`, and the intents of the two
merchant aggregates; each request reads the row and writes later. `Send` and
`Settle` are what the publisher does, with `InboxAfter` the state written back.
InboxSession adds, per process and relay, the session in memory, what the relay has
stored, the cursor and a clock; an event's `created_at` lies up to `Back` before it
arrives, as NIP-59 prescribes. CLOSED before the subscription is registered, an
exception in `_open`, a relay dropped by `sync_relays` lead to `deaf`.

**EmailQueue.** `mail` is the row, `hand` what each process's pass does with each
row: claimed, prepared, being sent, taken or refused by SMTP, late. `took` remembers
what SMTP took. The claim token is implied: a process claims again only when its
pass is over.

## 3. Runs

Bounds are constants of the modules (`MaxToken`, `MaxIntents`, `MaxAttempts`,
`MaxOpen`, `MaxHeld`, `MaxChanges`, `MaxTime`; for Inbox `Passes` and, as in the code,
`DRAIN_BATCH`). `CHECK_DEADLOCK
FALSE` everywhere: a shop in which all orders have ended, or a bound is used up,
may stop.

| Run | Instance | States | What it shows |
|---|---|---|---|
| SagaOneOrder | 1 order of a tracked and an untracked product, one worker of each kind, page moves, parcel, archive, mismatching payments | 467 k | one invoice, states agree, booked payments sold or flagged, held rows only while open, flips once, refinement of OrderContract |
| SagaStock | 2 orders wanting 3 of 2 pieces, 1 shared worker that is request, listener and sweeper in turn, a stock edit and a deletion | 2.3 M | `NeverOversold`, `ReservedIsHeld` |
| SagaLive | 1 order, fairness of section 4, every legal status move that closes an order | 60 k | open orders end, held stock is resolved, payments are booked; nothing but the status endpoint sells unpaid |
| IdemKeys | 3 requests, 1 key, 2 bodies, 2 orders, 3 claims, a cart of a mug and a print, 3 shelves, confirmed totals of two of them | 566 k | one order per key, one holder, answers, completion; `AgreedPrice` |
| OutboxListings | 1 published product, its collection, 1 editor with stale readings, 2 workers, 2 rows after the published two, 2 claims per row, 1 public relay | 507 k | `SettledIsCurrent`, `DependenciesFirst` |
| OutboxMessages | 1 intent, a message of two copies with 2 relays each or a profile on 2 relays, 2 workers, 3 claims | 1.5 M | fencing, evidence per relay, retries |
| CatalogPages | 2 products, 2 collections, 2 options, one of each on sale and linked; 3 requests, 2 editors with stale readings | 277 k | relays show the tables in the end, tombstones last, references resolve |
| InboxOrders | 1 process with both tasks, 2 wraps, an order, its cancellation, a conversation message; leases lapse, the process dies | 4.8 M | recorded once, processed is effective, rejected is rejected |
| InboxLive | 2 processes whose reconcilers take over from each other, 1 wrap, 7 messages of 5 kinds | 36 k | fencing, every message that can be stored ends, payments are asked for |
| Activations | 2 requests at a time, 7 operations, 2 modes, 3 relay sets, 3 intents | 2.9 M | `LastWishWins` |
| InboxSessions | 1 process, 1 relay, 1 back-dated event, relays changed meanwhile | 66 k | `CursorCoversStored`, `EventArrives` |
| EmailDelivery | 2 processes, a buyer's mail and a test mail, 2 attempts | 77 k | one sender, no recorded success repeated, ends are final, every mail ends |

Why the bounds are enough: the races of the saga are between workers over one
order, or over one product's stock; two orders and a stock that covers only one of
them give every order of claim, release and consumption. A key's life has at
most one holder and one that was taken over at a time; three requests add the one
that takes over in between. A price needs one line that is physical and priced in a
foreign currency and one that is a variation priced in satoshis; three shelves make
it rise, its rate disappear and its parent be hidden. For the outbox two overlapping
workers and, after the two rows of the published listing, two more let every
supersession overlap every publication and a withdrawal follow a publication;
`MaxAttempts = 2` reaches the limit. A copy's relays differ by whether they have
accepted it: of two one may have and the other not, in each class, and passes may know
of either or both. What buyers see is seen relay by relay: one is enough there, and
the theorem covers any number. Three requests on the catalog make a link, break it
and change what it pointed to, in any order with the publications, and two editors may
both have read what one of them deletes. In the inbox every race is
between two passes over one row, or between two rows of one order: two wraps and
one process with both tasks have both; two processes add the takeover of a lease
inside one task. A fourth message, the same external id with another cart
(`{placed, changed, dm}`), passes as well and is left out of the run for its time.
Three intents of a merchant are an announcement, its tombstone and the next
announcement. Two seconds with a back-dating and an overlap of one are the least in
which an event can come in behind the start of a session and be older than it. The run
has one listener; the theorem has any number. `Backtrack >= MaxTime + Back` confines both
to events that the first session on their relay asks for: what came in more than 30 days
before it (`FIRST_SESSION_BACKTRACK_S`) the code never asks for.

### Counterexamples

The following configurations are not runs of the list: each makes TLC print how the
code departs from what the repository says of it. The properties are in the module
of the same prefix, with the sentence they come from.

| Configuration | Property | What happens |
|---|---|---|
| SagaLatePayment | LatePaymentIsBooked | a payment that arrives after the uncertainty window rejected the order is neither booked nor flagged |
| SagaReleasedThenSold | SoldIsTaken, ExpireOnlyLapsed | an invoice attached after the sweep released the stock is paid and sold without taking stock; the sweeper expires an order whose invoice was attached after its list was read |
| SagaStatusMoves | DeliveredIsPaid, HeldOnlyWhileOpen | the status endpoint confirms an unpaid order and so reveals its digital goods; cancelled by it, stock stays held until the sweep |
| SagaAcceptedAgain | TakenOnce, DeliveryIsFinal | an order cancelled after confirmation and accepted takes stock twice, and a delivered parcel goes back |
| SagaUncertainProjection | UncertainProjectionEnds | the projection of a cancelled order stays open |
| IdemErased | ErasedStaysCompleted, AnswersConfirm | a completed record whose response was erased is taken over instead of answered 404; a retry that confirms another total under the same key and cart is answered with the total of the order placed before |
| OutboxDeadDependency | EditsAreShown, DependenciesRebind | an edit numbered from a reading that a stock movement overtook is taken for the intent in flight and never published; a product waits for a collection intent that was superseded, and nothing rebinds the edge |
| OutboxExhausted | WaitingIsClaimable, AcceptedClassIsNotResent | blocked and faulted passes use attempts up without marking the row failed: pending, unclaimable, not retryable; while one class is missing, the other goes out again to its relays that have not accepted it |
| CatalogLeft | EveryChangeIsShown, TombstonesLast | a product patched out of a collection or into a draft, an option switched off, an outdated revision: relays keep what they had; of two requests that read an option both delete it: the second tombstone waits for nobody, supersedes the first and is out before the listings that name the option |
| InboxDrainedTwice | DispatchedOnce, DuplicateHasOriginal | the processor and the reconciler list the same row: it is told twice, or is marked a duplicate of itself and lost |
| InboxStuck | EveryRowEnds | an order whose amount exceeds 64 bits raises at its INSERT in every pass and is never ended; `DRAIN_BATCH` of them are all that is listed |
| InboxPaidCancel | BuyerCancelsOpen | a cancellation read while the order was open cancels it after it was paid |
| ActivationMode | ModeNeedsInbox | a message-only mode outlives the inbox it needs |
| SessionFaults | NothingIsLost, FailedOpenIsRetried | an event the handler could not admit is behind the cursor; a session that failed to open stays registered and deaf |

Where two properties are named, `-continue` shows both. Two more
pass: `TaskLease.cfg`, the leases alone, with `LiveLeaseIsKept` and `StaysUpGetsReady`
for three processes, and `InboxBatch.cfg`, with `EveryMessageEnds` for a conversation
message beside an order that cannot be stored, in batches of two.
Type invariants of the modules without one among their run's properties
(`CheckoutTypeOK`, `TypeOK` of Inbox, InboxSession and EmailQueue, `AdminTypeOK`)
hold in the instances of the runs.

`SettledIsCurrent`, `SettledIsShown`, `SurvivorsFirst`, `LastWishWins`, `RecordedOnce`,
`RejectedIsRejected`, `EveryMessageEnds` and `EventArrives` name the exceptions of this
table they set apart, and hold for everything else; `HeldOnlyWhileOpen` and
`KeepsContract` are checked for the moves the merchant's page offers.

Seen while reading and described here only: profile intents have revision 0, so an
edit made while one is in flight is dropped; deactivation tombstones carry no
address and are always superseded; `publish` enqueues un-addressed product intents
whose clock differs from the addressed ones; a retried old tombstone deletes a
listing that was published again; the zones of a stall follow the shipping of its
products' collections, but only a change of the catalog's own row or a new product
says it anew, and deleting the catalog leaves it up; deleting the parent of
variations leaves them; what a product names as shipping may be deleted; a
cancellation that arrives before its order is lost; an inbox enabled before the
first publication seeds relays the profile cannot use; attempts of a mail are not
counted when its claim lapses or its decryption fails.

## 4. Fairness

OrderSaga (`FairSpec`). `services/tasks.py` runs the reconciler and the sweeper in
loops that survive exceptions and whose lease another process takes over; each pass
lists every open row. So a start of either is strongly fair per order, and so are
their later steps: a task that is killed again and again between two transactions
gets through one day. Requests and callbacks have none: they may stop for good, the
core may never call back. Time is weakly fair: a lapsing reservation, the
uncertainty window and the core's expiry of an unpaid invoice happen. Nothing is
assumed of the merchant.

Inbox (`FairSpec`), the same loops: leases lapse, an idle task acquires its lease
when it can, a pass that has lost it fails at its next transaction (all weak); every
row gets through each of its steps in some pass that may still write, and so does
the list of orders to be asked again (strong, since a pass may die or be overtaken
any number of times before). Two things are not assumed, because the code does not give
them. An order whose `amount` does not fit its column passes the parser and raises at the
INSERT; nothing counts the attempts of `process_pending`, so it stays validated for ever
(`Unstorable`, disabled in `InsertOrder` and without fairness). And a pass lists the
`DRAIN_BATCH` oldest rows only, so when such orders fill a batch (`Crowded`) no row behind
them is promised to be listed. Buyers, admission and the order's other actors have none.

InboxSession (`FairSpec`): `inbox_listener` reconciles every few seconds, so opening
and closing a session, its REQ and its registration are strongly fair: an admin who
switches relays again and again finds the listener awake one day. An event a session
has on the wire is handled. The end of stored events, relays, AUTH and CLOSED have
none.

EmailQueue (`FairSpec`): claims lapse and are given back, and time passes for a pass
that is behind (weak); `email_sender` claims, prepares, sends, is answered within the
time left and records, also if it is killed often (strong). The hourly cap ends. A mail
whose contact cannot be decrypted raises in every pass and is queued for ever; the
fairness leaves such mails out, and so does `MailEnds`.

## 5. Proofs

Every invariant and action property of a run is a theorem of its specification for
any values of the constants, except the liveness properties. The assumptions are those the modules state of their constants
(`SagaAssumption`, `FiniteOrders`, `InboxAssumption` and the like, which TLC
evaluates in every run) and, where a table says so, one hypothesis about what the
merchant asks for. `PROJECT.json` lists the theorems with the property each states.

Each proof has the same shape: an inductive invariant, a lemma that `Init` implies
it, one lemma per action or group of actions that it is kept, and a last step that
reads the property off it. What a leaf needs to know about a record or a table
(only row i is written, the table grows, a row gives way) is a lemma of its own.

### OrderSagaProofs

| Theorem | Statement |
|---|---|
| TypeCorrect, SagaInvariant | `[]TypeOK`, `[]SagaInv` |
| NoDuplicateInvoice | `[]OneInvoice` |
| NoSecondFlip | `ReservationFlipsOnce` |
| StockInvariant, ClaimsAreCovered, ReservedIsExact | `[]StockInv`, `[]NeverOversold`, `[]ReservedIsHeld` |
| SagaKeepsContract | `Spec => KeepsContract`, under `UnpaidMoveUnused` |
| HeldRowsAreLive, MachinesAgree | `[]HeldOnlyWhileOpen`, `[]StatesAgree`, under `SagaMovesUnused` |
| BookedIsVisible | `SettledIsVisible` |
| SagaSellsPaidOnly | `OnlyEndpointSellsUnpaid` |

`OneInvoice` is not inductive: a second call must be excluded. `SagaInv` adds that a
received order is untouched (no projection, no invoice, no worker past the claim),
that at most one worker is about to call `create_invoice` for an order and only
while none was made, that a projection with a core payment has its invoice, and that
only payments the core reported are on their way to be booked. The claim of
`begin_saga` is the compare-and-swap that makes the caller unique. `StockInv` adds
that `reserved[p]` is the number of units of held rows (a set of pairs whose
cardinality moves by `Qty[o][p]` with each flip) and that claims are covered. The
contract is simulated step by step under `SagaInv`.

`SettledIsVisible` and `OnlyEndpointSellsUnpaid` follow from `SagaInv` one step at a time
(`Told`, `Paid`), for every move the endpoint can be asked for. An order is `Silent` when
its payment is booked, it is not sold and no exception shows that. A payment that settles
after the order was cancelled or expired is not silent: `confirm_settlement` raises the
exception with it. What is left is a sold order that the merchant cancels afterwards,
of which the page says (02-UI-SPEC.md) that it "does not refund a settled payment".
`DeliveredIsPaid` itself fails on the endpoint's confirmation (SagaStatusMoves); the
theorem is that nothing else in the saga sells what is not booked.

`AgreeInv` says of each order that the four machines agree and of each worker that
what it is about to attach is an invoice the core has, and that it closes the
projection of an order that has ended. `StatesAgree` alone would not survive an attach:
what the worker holds was read in an earlier transaction.

Both hypotheses are about `StatusMoves`, the moves the status endpoint is asked for:
`UnpaidMoveUnused` that it is not asked to confirm an order that awaits payment,
`SagaMovesUnused` that it is not asked to take an order out of `invoice_pending` or
`awaiting_payment`, or into `invoice_pending`. The admin's page offers none of these;
the endpoint accepts them, and SagaStatusMoves shows that the properties then fail.

### IdempotencyProofs and CheckoutProofs

| Theorem | Statement |
|---|---|
| KeyHasOneOrder, KeyHasOneHolder, AnswersAgree | `[]OneOrderPerKey`, `[]OneHolder`, `[]AnswerIsItsOrder` of Idempotency |
| CompletedStays | `CompletedIsKept` |
| CheckoutIsIdempotent | `CheckoutSpec => Spec`: the composition implements Idempotency |
| CheckoutOneOrder, CheckoutOneHolder, CheckoutAnswers, CheckoutCompleted | so the four hold of what the run checks |
| PriceAgreed | `CheckoutSpec => []AgreedPrice` |
| TypeCorrect, CheckoutTypeCorrect | `[]TypeOK`, `[]CheckoutTypeOK` |

`IInv` of Idempotency links the three tables both ways: a request under way works on a
claimed key under a token the record has or had, two of one key never under the same
one, the order it works on is the one its record names; an order a record names was
created under that key from that body; every order is named by the record of its key;
every answer repeats its record. A late request has an older token than the record,
which is what every write compares. `AgreedPrice` says what the code can promise although
the hash of a request leaves the confirmed total out: an order costs what the request that
placed it confirmed, and whoever is answered, by a fresh, resumed or stored response, is
told the total of its order. It needs that a cart is priced only while its request is about
to insert, at the total it confirms (`PricedCarts`), that orders keep the total they were
placed with (`PricedOrders`), and that requests past the insertion and stored responses
know it (`ToldTotals`, `KeptTotals`); the readings before are not mentioned, so no edit of
the shelf matters. That a retry is answered with another total than it confirmed is not
excluded, and happens (`AnswersConfirm`).

### EmailQueueProofs

| Theorem | Statement |
|---|---|
| OneSenderAtATime | `[]OneSender` |
| TakenStaysOnce | `[]TakenOnce` |
| EndedForGood | `EndedStays` |
| TypeCorrect | `[]TypeOK` |

A mail at SMTP may have ended under the sender's hands (opt-out, pruning), so holding
the row is not invariant. `IInv` says: who has prepared or is sending a mail holds its
row or the row has ended (`EngagedHolds`), at most one process has (`OneEngaged`), and
nobody has once SMTP took it, until the pass that has to write so is gone (`TakenIsHeld`).

### OutboxProofs

| Theorem | Statement |
|---|---|
| ClaimsAreExclusive | `[]OneGoodClaim` |
| PublishedWasReceived | `[]PublishedIsDelivered` |
| DependenciesWentFirst | `[]DependenciesFirst` |
| EndedStaysEnded | `EndedIsFinal` |
| OnlyMissingIsSent | `AcceptedIsNotResent` |
| SettledShowsCurrent | `[]SettledIsCurrent` |
| Invariant, TypeCorrect | `[]IInv`, `[]TypeOK` |

`IInv`: rows point at rows and a claimed one has an attempt left; one row of each
aggregate bears the latest `created_at`; every event on the wire was signed for a row
whose dependencies are published and not after that latest `created_at`; no two workers
were given the same token of a row and none has one the row never had; what the evidence
says a relay accepted it received, and a published row has evidence of a relay of each of
its copies (`EvidenceSound`). `AcceptedIsNotResent` is about relays: the code subtracts
those that have accepted, not the class they belong to, so another relay of the class may
get the copy after the class is proven. All of this holds for any number of relays.

`SettledIsCurrent` is about what was superseded in flight, delivered late or sent twice,
and needs `CurrentInv` besides. For a listing that has not gone astray its rows are
numbered by its revisions in order, a live one is about the current revision, and the
row of that revision was not superseded and says whether the listing is public
(`RowsCurrent`); the current revision was announced (`CurrentAnnounced`); an event of
that row carries the current content, and an event of a later row has a later
`created_at`, by which a relay decides (`EventsCurrent`).

### CatalogProofs

| Theorem | Statement |
|---|---|
| ReferencesAlwaysResolve | `[]ReferencesResolve` |
| SettledIsAlwaysShown | `[]SettledIsShown` |
| SurvivorsAlwaysFirst | `[]SurvivorsFirst` |
| TypeCorrect | `[]TypeOK` |

A request is a composition of transformations of the tables, and so is its proof: what
each of them does to a listing is a lemma (`Tells` for the announcement of a set of
listings, then one for each function of the code), and an action puts them together.
The bulk deletion is a recursion over its ids; its lemma goes by the least number of
deletions after which the invariant would fail.

`Holds` says of every listing that is not set apart: relays show what they should, or an
intent of the right kind (a listing if it is to be shown, a tombstone if not) waits for
it; no waiting tombstone stands in the way of a listing that is to be shown; no intent
is numbered beyond the row; what relays show was announced (a bulk action that makes
drafts looks for that). Homes and the options of collections are live, and every row
that is named or in the outbox exists (`Linked`). An action keeps this if it says
again every listing whose rendering it changes, which is what the lemmas on `Rendering`
compare. `SurvivorsFirst` needs more than a look at the present (`Mourned`): of a deleted
listing and a survivor that named it, either relays show the survivor without it, or from
some tombstone on no tombstone is published and each waits for an intent of the survivor
that is not published (`Held`). That intent may be superseded meanwhile and so never be
published: then the tombstone stays behind for good, as OutboxDeadDependency shows,
which a bulk deletion of two products of one collection does to the first of them.

### InboxProofs

| Theorem | Statement |
|---|---|
| RecordedAtMostOnce | `[]RecordedOnce` |
| ProcessedHasEffect | `[]ProcessedTookEffect` |
| RejectionIsTrue | `[]RejectedIsRejected`, if `<<"cancelled", "confirmed">>` is not among `Moves` |
| LatePassFenced | `LatePassIsFenced` |
| LeasesAreKept | `Spec => LeaseSpec`: Inbox implements TaskLease |
| LiveLeaseKept | `LeaseSpec => LiveLeaseIsKept` |
| Invariant, TypeCorrect | `[]IInv`, `[]TypeOK` |

`IInv`: a task has one pass under the row's token and a pass late for its row has lost
it (`JobsSound`); a rumor id belongs to one row, also one that was deleted since
(`RowsSound`, `OneRow`); while the dispatch of a row was begun once, one pass dispatches
it (`WorkSound`); what is recorded or ordered came from a row that was taken, and not
from one taken just now (`SourcesSound`); each step of a dispatch stands on the ones
before it (`EffectsSound`). `RecordedOnce` and `RejectedIsRejected` set apart the rows
whose dispatch was begun twice, which InboxDrainedTwice shows. `RejectedIsRejected`
needs `RefusalsSound` besides (an answer is on its way only for an order that is closed
or about to be) and the hypothesis: an order cancelled before it had an invoice cannot
be paid, so nothing confirms it. The run has the same `Moves`.

### SessionProofs

| Theorem | Statement |
|---|---|
| CursorInvariant, CursorLeavesNothing | `[]CursorInv`, `[]CursorCoversStored` |
| WishInvariant, InboxSettlesAsWished | `AdminSpec => []WishInv`, `AdminSpec => []LastWishWins` |
| SessionsOnlyRead, WishWinsBesideSessions | `Spec => AdminSpec`, so `Spec => []LastWishWins` |

`CursorInv` follows an event from the relay to the cursor. `Waiting(r, e, t)`: r had e
before t and nobody has handled it. A session under way asks for all that waited when it
began (`AsksFarEnough`, by `Back <= Overlap` when it read a cursor and by the backtrack
when there was none); until the end of the stored events all that waited is in its stock
(`StockComplete`), also across AUTH and reconnections, whose REQ has the same since;
so nothing waits for a cursor (`NothingWaits`), whichever process commits last and in
whatever order.

`WishInv`: the revisions of the inbox's intents count up and the next one is beyond them
(`RevisionsOrdered`, by finite cardinality); unless the wish went astray, only the latest
intent of the inbox can be live, it is what the merchant asked for last, and it is under
way or the row says what has become of it (`WishCarried`). Unlike `LastWishWins` this
says something while a publication is in flight.

### Only model-checked

Liveness under fairness (`OpenOrderEnds`, `PaidIsBooked`, `HeldIsResolved`,
`EveryMessageEnds`, `PaymentIsAsked`, `EventArrives`, `MailEnds`), which the prover does
not do, nor `ENABLED`. The arithmetic of Pricing, a fold over a cart: what it yields for every
cart needs an induction whose scheme none of the provers can instantiate, so it is checked
against its definition on the carts of MCCheckout. The counterexamples of section 3 are TLC's alone.

## 6. Plan

1. `TypeOK` of InboxSession, of which `CursorInv` has all but the merchant's part
   (`AdminTypeOK`, in `WishInv`).
2. Under `SagaMovesUnused`, that a held row belongs to exactly the units of its order, so
   that stock and states are one invariant.

### Not modelled

* Catalogs and their stalls: only a catalog's own row and a new product say a stall
  anew, under revision 0 (see above), so there is no promise to check. Variations are
  products; what they need of their parent is in Pricing.
* Buyer access: challenges, sessions and claims are single conditional updates, a link
  is an unguessable token.
* The peer-relay cache and relay health, relay and wallet checks: I/O whose answers
  are choices in Outbox and InboxSession.
* Keystore, encryption, event builders, NIP-89 views, HTTP routes, themes, metrics,
  settings, migrations as such, user interface, harness and tools: formatting,
  cryptography, presentation or start-up; `components` in PROJECT.json says so of
  each.
