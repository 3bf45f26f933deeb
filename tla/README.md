# viralefy_payments in TLA+

TLA+ specifications of `viralefy_payments`, the Go service that keeps the payment
gateways, creates charges at the providers (Stripe, Heleket, Woovi, AbacatePay and
three manual ones) and receives their webhooks on behalf of the monolith
`viralefy_api`. The modules are translated from the source under `src/`; each
definition's lines are in `PROJECT.json` under `map`.

## 1. The system

```
 providers --webhooks-->  receiver  --POST payment-confirmed-->  monolith
                            |   |                                   |
                 payment_gateways  stripe_events_processed          | charge, methods,
                            |                                       v gateways CRUD
                       gateway CRUD  <----- X-Internal-Token --- internal routes
                                                                    |
 providers <------------- CreateCharge --------------- charge endpoint
```

| Component | State it keeps | Operations | Correct when |
|---|---|---|---|
| Webhook receiver (`http/webhooks.go`) | a goroutine per delivery; request context | four handlers, `postCallback` | only authentic, settled payments are called back; a Stripe event once; nothing is acknowledged and forgotten |
| Ledger (`postgres/stripe_events.go`) | one row per Stripe event id | `Record` | one claimant per event, however deliveries overlap |
| Signatures and payloads (`external/payment`) | none | `Verify*`, `Parse*`, `IsPaid`, `OrderID` | only settled payments of a named order count, and of these all but the two kinds named in section 4 |
| Gateway administration (`gateway_service.go`, `handlers.go`) | none between requests | Create, Update, Delete, reads | rows usable and normalised; deleted rows stay deleted; answers are true |
| Gateway table (`gateway_repo.go`) | `payment_gateways`, shared with the monolith | the SQL statements | the oldest active row of a provider speaks for it |
| Minor units (`stripe.go`, `abacatepay.go`, `woovi.go`) | none | three conversions | the amount is charged to the cent |
| Charge endpoint (`handlers.go`) | none | `chargeHandler`, registry, seven `CreateCharge` | what is charged is what was quoted, in a currency the gateway accepts |
| Methods and quotes (`payment_methods.go`) | none; reads plans, currencies, gateways | `ListMethods`, `AmountInCurrency` | a method that is shown can be charged |
| Server (`main.go`, `db.go`, `migrations.go`) | the process, the pool of connections | start, migrate, listen, signal, shutdown, close | a shutdown ends, in its time, and harms nobody who is done by then |
| Internal auth (`internal_auth.go`), configuration (`config.go`) | a secret read once | `Load`, `InternalAuth` | only the monolith passes, and it does |
| Metrics (`metrics.go`) | `http_requests_total` | `HTTPMiddleware` | what is counted is what was answered |

Components interact through the two tables (the administration and the monolith
write gateways under the receiver's feet), through the request context (a closed
connection cancels the database calls and the callback of its handler), through the pool
of connections, and through the providers: what the charge endpoint created and a
customer paid comes back as an event, which the provider repeats until it sees a 2xx.

What is hard here: two deliveries of one event overlapping on the ledger; the
insert failing, or committing without saying so, while the handler goes on; the
claim being taken and the process or the connection dying before the callback; the
secret changing between its read and its use; `Update`'s read, merge and write
without a transaction; decimal strings turned into cents three different ways; a
price shown by one handler and charged by another, under two rules for its currency,
from tables that change in between; a provider's answer lost after it created the
charge, or overtaken by the webhook of that charge; a shutdown of ten seconds over
handlers that may wait for fifteen. The complete list, with lines, is in `PROJECT.json`
under `hazards`.

## 2. Modules

| Module | What it is |
|---|---|
| `WebhookEvents` | signature checks, parsers and accessors of the four providers, as operators on records |
| `GatewayTable` | the statements of `gateway_repo.go`, as operators on a set of rows; used by the next two |
| `Webhook` | the receiver, the ledger, the providers, and the writes to the table |
| `PaymentNotice` | abstract: what the receiver of Stripe events promises |
| `MCWebhook` | bodies, keys and tables for TLC; `SettledExactly` |
| `WebhookProofs` | theorems about `Webhook` |
| `GatewayRules` | `validateGateway`, the merge of `Update`, what `Create` makes of a body |
| `GatewayAdmin` | the CRUD run by several requests at once |
| `MCGatewayAdmin`, `GatewayAdminProofs` | its instance and its theorems |
| `MinorUnits`, `MinorUnitsProofs` | the three conversions against a reference value; theorems about them |
| `CheckoutRules` | `amountFor`, `quoteForPlan`, `gatewayEligible`, `pickPrimaryCurrency`, the card, the currency of a charge, what adapters refuse |
| `Checkout` | methods and charge requests, providers, and the writes to the tables; uses `GatewayRules`, `GatewayTable` |
| `ChargeBook` | abstract: what the checkout promises about each charge request |
| `MCCheckout` | gateways, currencies, plans and requests for TLC |
| `CheckoutProofs` | theorems about which charges exist and who knows of them; the refinement of `ChargeBook` |
| `CheckoutOffers` | theorems about cards and what is charged from them; extends `CheckoutProofs` |
| `Payments` | `Checkout` and `Webhook` composed over one table and one process, with the customers |
| `PaidOrders` | abstract: what the service promises the monolith about an order |
| `MCPayments` | rows and a charge for TLC |
| `PaymentsProofs` | theorems about `Payments`, from instances of `CheckoutProofs` and `WebhookProofs` |
| `Server` | the process around the handlers: start and shutdown, middlewares, pool |
| `MCServer`, `ServerProofs` | its instance and its theorems |
| `NaturalLemmas` | induction and recursive functions over the naturals, for the proofs that need them |

### Webhook

A handler goes through `load` (body and active gateway), `verify` (signature and
parse), `record` (Stripe only), `callback`, and `ok` or `bad` (the answer); one
action per step, `Handlers` of them at once:

| Action | Code |
|---|---|
| `LoadGateway` | `io.ReadAll`, `GetActiveByProvider`, the trimmed secret; any error is a 400 |
| `Authenticate` | `Verify*`, `Parse*`; then the ledger for a Stripe event with an id, else `IsPaid` |
| `RecordInserted` / `RecordDuplicate` / `RecordFailed` | the three outcomes of `Record`; an error is logged and the handler goes on |
| `PostCallback` | `postCallback`: skipped without URL or order, not sent on a dead context, otherwise sent once; it is confirmed by a 2xx, or fails, which is only logged |
| `Reply` | the answer (`Acknowledges`), which the provider sees if the connection is open |
| `Disconnect`, `Crash` | the context is cancelled; the process dies. An insert under way commits or not |
| `Deliver`, `DeliverTwice`, `DeliverMisSigned` | the provider: retries, overlapping retries, late or foreign deliveries |
| `GatewayInsert`, `GatewayUpdate`, `GatewayDelete` | the CRUD's and the monolith's statements |

The other three handlers are the same code without the ledger, so they are the same
actions with `Guarded` false. History variables (`posted`, `confirmed`, `lost`, `claimed`,
`outages`, `interrupted`, `everActive`) are read by no action: `posted` counts the
callbacks sent, `confirmed` has the events of which the monolith answered one with 2xx,
`lost` those of which one failed.

### GatewayAdmin

`BeginCreate` and `Insert`, `BeginUpdate`, `ReadAndMerge` and `WriteBack`, and
`Delete` are the statements of the three operations with what the code computes
between them; `Read` is the two reads, `RefuseBody` what is answered to a body that is no
JSON. Any statement may fail before or after it took effect (`Failing`), and the process
may die (`Crash`). A provider is checked without regard to case and stored by `Update` as it
stood (`Lower` is what `validateGateway` reads of it, and what `Create` and a body that
names a provider write), so that a row spelled "Stripe" keeps its spelling. Rows present at
the start are the monolith's and may lack currencies or repeat them (`accepted_currencies` has a default and no
constraint). The history variables are `stored`, the ids the table has had, and `stale`, the
updates whose row another request changed since they read it.

### MinorUnits

`ParseInt` with padding and cutting (Stripe), the same with the sign left on the
whole part (AbacatePay), and `ParseFloat`, `f * Pow10(2)` and `Round` (Woovi). Integers wrap
at `MaxInt`. A float is a whole number over a power of two with `Bits` significant bits
(`Float`): parsing rounds to the nearest one, to even from a half, and so does the product
(`Hundredfold`), so that products fall short of the cents, as 9.29 * 100 does of 929 in Go
and 9.31 * 100 of 931 with the 12 bits of the run; `MaxExponent`
bounds the powers of two, as `FloatAssumption` says, far inside of what a float64 can scale
by. With `Bits` at 53 `ToMinor` is Go's `toMinor` wherever its result fits the word. The
module's only step is the conversion of an amount by one of the providers.

### Checkout

| Action | Code |
|---|---|
| `BeginMethods`, `ReadPlan`, `ReadDisplay`, `ReadSettle`, `ListGateways`, `BuildCard`, `AllCards` | `methodsHandler`, `ListMethods`, `quoteForPlan`, `buildMethodOptions`: a read per action, each of which may fail the way the code treats it (USD stands in for an unreadable display currency, the display for its settlement currency, no card for an unreadable charged one) |
| `BeginCharge`, `ReadGateway`, `ReadPrices`, `ReadCurrency` | `chargeHandler` up to the price; an explicit price skips the last two |
| `CreateCharge` | `Registry.Get`, the adapter's own checks, and the call |
| `ReceiveAnswer`, `GiveUp` | the provider's answer; the client's timeout, a broken connection or an unreadable answer |
| `ProviderCreates`, `ProviderRefuses`, `ProviderDeclines` | the provider, which may act after the handler has given up; it declines in a 2xx that names no charge |
| `Finish`, `Disconnect`, `Crash` | the answer and what the monolith keeps of it, or its loss |
| `WriteGateway`, `WriteCurrency`, `WritePlan` | the CRUD and the monolith |

When the display currency cannot be read or is unknown and USD is not registered either,
`ReadDisplay` ends the request. Requests carry a number, which stands for the identity of a call; a session is what
a provider has created for one. `Epoch` counts writes and failures: a list of methods
remembers the epoch it began in, so that properties can speak of undisturbed
checkouts. The two statements of `PlanReader.GetByID` are one read, and so are the two
lookups of a card. Symbols, labels, notes' wording and descriptions are left out.
What the monolith sends from a card is its gateway and its currency.

`ChargeBook` has of all this the requests that are open, the calls on their way whose
answer nobody waits for any more (`loose`), the charges, and what the monolith has been
told; a request is closed by `Tell`, by `Refuse`, which has no charge and no call left (a
200 without a reference is one, too), or by `Lose`. `GiveUp` is a loss, although the
service answers it 422, as it does a refusal.

### Payments

`Checkout` and `Webhook` are instantiated over one table, one budget of faults and one
process. A row's `config` has the key `Checkout` reads beside the account whose secret
`Webhook` reads; `View` is what the receiver sees of the table. `Settle` is a customer who
pays a session, `EventOf` the event Stripe makes of it, which names the order as
`CreateCharge` has written it into the session; `Deliver` and `DeliverTwice` bring it. A
write of the table and a crash are one step of both. `PaidOrders` sees charges, payments
and the number of notices per order.

### Server

| Action | Code |
|---|---|
| `Configure`, `Connect`, `Migrate`, `Listen`, `Arm`, `Signal`, `Shutdown`, `Exit` | `main` in its order, `config.Load`, `postgres.New`, `ApplyMigrations`, `db.Close` as a deferred call |
| `Killed`, `Restart` | the process dies, or a signal comes before `signal.Notify`; it is started again, perhaps with another environment |
| `Accept`, `InternalAuth`, `ReadBody` | a request, its token, its body |
| `Acquire`, `Rejected`, `QueryEnds` | a statement of a handler: a connection of the pool or a wait for one, a pool that is closed, its end |
| `Call`, `CallEnds`, `Done`, `Panic` | a call to a provider or to the monolith, the handler's end |
| `Unwind`, `Finish` | the middlewares return, `Recoverer` first and the metrics after it (`Middlewares`), and the answer is sent |

The goroutine of the listener and `signal.Notify` race (`main.go:112-121`): the process may
accept requests before signals are caught (`arm`), or catch a signal before it listens
(`bind`), and then never serves.

The handlers are here the list of statements and calls they make (`Steps`), with the
status they answer when one fails; what they do is in the other modules. `marks` records
what has happened to the process: a failed statement, a connection refused, an answer
cut off, a shutdown that overran.

## 3. Runs

| Run | Question | Instance | States |
|---|---|---|---|
| `webhook_overlap` | second callbacks, lost payments, refinement of `PaymentNotice` | 2 handlers, a Stripe and a Woovi event, 3 faults | 303 000 |
| `webhook_payloads` | which bodies are called back | 1 handler, 16 bodies, no faults | 152 000 |
| `webhook_rotation` | authenticity while the table changes; a payment is eventually called back | 1 handler, 2 keys, 2 rows, 2 writes, 1 fault | 409 000 |
| `gateway_admin` | concurrent CRUD | 2 requests at once, 4 in all, 3 ids, 1 failure | 593 000 |
| `minor_units` | cents | 6 whole parts, up to 3 decimals, 16-bit integers, floats of 12 bits | 131 000 |
| `checkout_offer` | is a card charged as shown, does it tell its price, is every charge made as some active row says, is every request answered | 1 request at a time, 5 gateways, 3 display currencies, 2 countries, 1 write, 1 failure | 271 000 |
| `checkout_retry` | which charges exist, who knows of them, what an answer means; refinement of `ChargeBook` | 2 requests at once, 3 in all, 2 orders, charges and listings, 2 failures, any timeouts | 455 000 |
| `payments` | is the monolith told of paid orders, and only of these; refinement of `PaidOrders` | a charge and its retry, 1 delivery at a time, 2 accounts, 2 rows, 1 write, 1 fault | 84 000 |
| `server` | whom a shutdown or a restart harms, who passes the token check, what is counted, does a shutdown only wind down, does everything end | 2 requests, 1 connection, 5 secrets, 1 fault | 143 000 |
| `ledger_outage`, `checkout_pix`, `minor_mirror` | what a comment says, refuted | small | - |

Why the bounds are enough: the ledger's races need two handlers of one event, and a third
delivery finds the slot of a finished one; three faults allow a failed insert, an
overlapping delivery and a crash in one behaviour, and any two of a kind. For the rotation
one handler suffices because handlers share only the table and the ledger, and two writes
allow an insert or update and its undoing between the read and the use of a secret. For
the CRUD two requests produce every overlap of a read and a write; four requests put a
deletion and a creation around an update. A checkout is a listing and a charge, two
requests, and handlers share nothing but tables they only read, so that one at a time
shows everything `checkout_offer` asks; one write suffices because the properties about
cards have the absence of writes as a premise, `SessionsVouched` is about a single read of
the row, and the write falls before, between and after all reads. `checkout_retry` needs
two requests to cross, a third as the retry, and two failures so that two requests, or a
request and the process, can be cut short; it has no writes, which touch neither calls nor
answers. `payments` needs two charges of one order, as `PaidOrders` counts them per order,
and a write that turns the gateway off, moves it to another account, or switches on an
older one; deliveries share nothing but the ledger, whose races are `webhook_overlap`'s.
In `server` one connection for two requests is enough to wait for, and one fault to fail,
panic, die or be started again; requests share nothing but the pool and the counters.
In `minor_units` the whole parts are the smallest, those around the largest number of
cents a word of 16 bits holds, and the first whose cents overflow it; a float of 12 bits
has room for the cents of the small ones and not of the large ones, and thirty of the three
hundred amounts from 0.00, 1.00 and 9.00 with two decimals fall short of their cents, which
only the last rounding makes up for.

All bounds are guards (`MaxFaults`, `MaxWrites`, `MaxRequests`, `MaxConns`); the theorems
hold for every value of them. Where deadlock is not checked the instance does stop:
everything is acknowledged, or its bounds are used up.

Handlers, admins and orders are symmetric where the configuration says so. Runs that
check liveness use no symmetry.

Each property is tested by a mutant, an operator named after the definition it
replaces (`Acknowledges_Always`) and placed before it, that makes a plausible mistake.

### Fairness

`WF` on each handler's steps: a goroutine that can run, runs, and the timeouts of the
adapters' clients end a wait (`GiveUp`); providers owe no answer. `SF` on a delivery of
each event: a provider redelivers, with backoff, what it has not seen a 2xx for, and
its attempts are repeatedly disabled while another one is in flight. Nothing is
assumed of the administrator: `PaidEventuallyPosted` has as a premise that the
secret of the provider is in place from some time on, and `PaidIsAnnounced` that the
account of the charge is. No customer has to pay, and nobody has to ask again.

In `Server`, `WF` on `main` and on each request's steps, and `SF` on `Acquire`: pgxpool
serves its waiters in their order, so that one is not passed over for ever. A client owes
no body (`ReadBody` is not fair), as the server sets only `ReadHeaderTimeout`, and no
signal has to come.

## 4. What the runs show

- A Stripe event is called back at most once, and once more for each insert that
  ended in an error (`NoDoubleFire`). The exception is real: the handler goes on after an
  error, and an insert may have failed for a delivery whose overlapping twin succeeds.
- A callback of the other three providers, which have no ledger, is repeated only at the
  price of a fault, each of which repeats one at most (`RepeatsPaidFor`).
- Of an acknowledged payment the monolith has confirmed a callback, or one failed and is
  in the log (`NoSilentLoss`), unless it is a Stripe event whose claimant is still at work
  or of which an attempt was cut short between the claim and the callback. Both exceptions
  are real: a callback that fails is answered 200 all the same, the redelivery of an
  interrupted event is answered `duplicate`, and the monolith learns of either payment
  only by polling.
- After a failed insert the handler answers 200, so "the next delivery" its comment
  counts on never comes (`ledger_outage`).
- Only deliveries signed with a secret that was in force at some time are called
  back, whatever is rotated, deactivated or deleted (`AuthenticCallbacks`). Once the
  secret is in place for good the payment is called back, unless a callback failed or an
  attempt was interrupted (`PaidEventuallyPosted`).
- Which bodies are called back: `SettledExactly` compares sixteen of them with a list made by
  hand from what the providers report, not by the operators under test. Without failures
  every settled payment of a named order is called back and nothing else is, save two kinds
  the code loses. Stripe's `checkout.session.async_payment_succeeded`, with which a payment
  by bank debit settles after its session, is answered 200 and never called back, for
  `IsPaid` knows `checkout.session.completed` alone (`stripe.go:265`). And a body Go does not
  serialise as Heleket did (key order, escapes, numbers) is refused at each delivery
  (`payment/webhooks.go:77`). The property fixes that these are lost, and no others.
  `CalledBackExactly` is about what the accessors call paid: only that is called back and, as
  long as nothing fails, exactly once when it is acknowledged.
- Rows written by the CRUD are usable and normalised; an update of a deleted row
  neither revives it nor claims success, and a 404 to a write means that the row is not
  there (`AnswersTruthful`). Updates are lost to overlaps, as the whole row that was read is
  written back, and to nothing else (`UpdatesAsked`): one whose row nobody changed between
  its read and its write changes what its body mentions in that row, and no more.
- Positive amounts with two decimals are charged to the cent by Stripe and AbacatePay as
  long as a word holds the cents, and by Woovi as long as a float has room for them, which
  is below 2^51 cents in the source (`ExactToTheCent`, `OffByLessThanACent` for more
  decimals). The bound is not idle: beyond it a float64 has no bits left for all the cents,
  and the run has such amounts, of which nothing is claimed.
- AbacatePay's conversion equals Stripe's above zero, also when the word overflows
  (`MirrorsStripeAboveZero`). Below zero, where no price is, it does not mirror it as its
  comment says (`minor_mirror`): -0.10 becomes +10.
- An undisturbed card is charged as it was shown (`OfferHonoured`): the rules of
  `pickPrimaryCurrency` and of `chargeHandler` agree once the card's currency comes
  back as `pay_currency`. The exception is a gateway whose provider the registry does
  not know (a row of the monolith): it is listed and its charge refused. Without
  `pay_currency` they do not agree: the list skips a blank first currency, the charge
  takes it, as it takes one that is not registered, and is refused with a 422. The comment
  at `handlers.go:152-153` speaks of the first accepted currency that exists; the code does
  not look further.
- A card without conversion note has one price, and its settlement amount is in its
  settlement currency (`CardsTellThePrice`), provided that nothing was written and no
  read failed while it was made, and that the settlement currency is registered.
  Otherwise the amount of the quote stands under another code.
- A charge priced from the plan is made as a row says that was active at some time
  (`SessionsVouched`); a row without currencies lets any `pay_currency` pass. An
  explicit price is not filtered by `accepted_currencies` at all.
- The monolith knows every charge a provider holds, unless its request was cut short
  (`NoOrphanSession`): those, and repeated requests, are the ways to bill twice. A 200
  with a reference names the charge of its own request; one without hides no charge, but
  looks the same for a provider that declined in a 2xx as for a manual gateway
  (`AnswersBacked`).
- A request for a charge is charged once at most and ends in one of three ways
  (`ChargeBookSpec`): the monolith is told the reference of its own charge; it is refused,
  and no call made for it is carried out later; or an answer was lost. Only in the last
  case may there be a charge it does not know of. A 422 does not tell it which of the last
  two it is: a timeout is answered 422 like any error of the provider (`handlers.go:191`),
  and the charge may exist.
- The monolith is told of an order only after a charge of it was paid, and once per paid
  charge unless the ledger failed (`PaidOrdersSpec`). Two paid charges of a retried order
  are two events, and both are announced.
- A webhook may tell of a reference the monolith does not have: it overtakes the answer
  to the charge, or that request was cut short (`NoticesKnown`), and in no other case.
- A paid charge is announced if the account it was made in ends up as that of the oldest
  active Stripe row, with the same two exceptions (`PaidIsAnnounced`). Without that
  premise it need not be: webhooks are checked with the secret of that row, whichever row
  the charge was made with, and an update that does not mention `active` switches a row
  off.
- A shutdown that ends within its ten seconds cuts no request off and refuses no handler a
  connection (`ShutdownHarmless`). One that overruns does: adapters wait longer than that,
  and a handler that then meets the closed pool goes on without its claim, as it does when
  the migration failed (`UnclaimedExplained`). No shutdown breaks a statement, because
  `db.Close` waits for the connections that are out.
- From the signal on no request comes in, none takes a step twice, and main only goes
  forward (`ShutdownWindsDown`), so that the steps a shutdown can wait for are numbered:
  ten at most for a webhook with its body, whatever fails or panics.
- A shutdown ends even if clients never send their bodies (`ShutdownEnds`), and no handler
  waits for a connection for ever (`RunsAreServed`).
- Behind `InternalAuth` there is only who has the secret, and the monolith is let through
  unless blanks surround the secret: it is not trimmed, headers are (`OnlyTheMonolith`).
- `http_requests_total` is the number of answers, panics included (`CountersTruthful`): a
  panic is counted as the 500 the client sees because the metrics are outside of
  `Recoverer`.
- AbacatePay bills the number of units of any currency in BRL (`checkout_pix`).

## 5. Proofs

For every number of handlers, every set of events, secrets, rows and inputs and
every bound, under the assumptions named in the modules. The assumptions are what
the code and its schema rely on: Stripe event ids are unique; the empty string is no
secret; a gateway has one id and a currency code one row at the start (`KeysAssumption`);
currencies are lists of strings, and what `validateGateway` accepts is a list the column
can hold (`ListsAssumption`); the defaults per provider are currency codes
(`DefaultsAssumption`). TLC evaluates each of them on the instances it checks.

`WebhookProofs`. `TypeCorrect` is inductive by itself. `NoDoubleFire` is not: a
handler that has passed the ledger and has not called back yet is invisible to it.
`FireBudget` adds those handlers, counting them with `Cardinality`: callbacks sent
plus callbacks about to be sent are at most one claim plus the failed inserts, and
a claim implies an entry, so that an entry found means somebody else's claim.
`CountHandlers` says how one handler's step changes that count. `NoSilentLoss`
rests on `LedgerAccounts`, which follows a payment from the ledger entry to the answer
(who holds it, or what cut it short), and `AuthenticCallbacks` on `SecretsVouched`,
which follows the secret from the read of the table to the callback.
`ReceiverKeepsPromise` maps every step to a step of `PaymentNotice` or a stutter,
with `FireBudget` for the guard of `Notify` and `LedgerAccounts` for that of `Close`.

`RepeatBudget` is the strengthening of `RepeatsPaidFor`: handlers that can still call back
or whose answer will not reach the provider, and the delivery that is still due, are
chances for one more callback, and callbacks and chances together are at most one more
than the faults.

`OwedIsCalledBack` proves `CalledBackExactly`, the general form of what `SettledExactly`
checks of given bodies. One half follows each body through the checks (`Meant`). The other
half is `NoSilentLoss` and `RepeatsPaidFor` at a point without faults, where neither
exception is left: while nothing fails an event has one delivery at a time and none once
it is acknowledged (`Undisturbed`), so that no handler can be at work on what was
acknowledged.

`GatewayAdminProofs`. `TypeOK` contains that rows have distinct ids, which needs
`IdsFresh`: an id about to be inserted belongs to one request and was never in the
table. `RowsUsable` and `ListsCanonical` need `WritesSound`, the same about rows not
written yet, including what a request has read and merged. That an accepted list is
canonical is `DistinctIsClean`, an induction over the list `Distinct` runs through: what it
has kept so far has no repetition, and keeping one more code adds none
(`AppendKeepsClean`). `StatementKeeps` and `QuietStepKeeps` treat a statement that ran and
a step that ran none once for all actions; `IdentityKept` and `AnswersTruthful` follow
from the invariant and the step. `UpdatesAsked` needs a second induction (`Faithful`): as long
as nobody changes its row, the row an update is about to write is the merge of its body into
what the table still holds; `MergedAsAsked` says what that merge changes.

`CheckoutProofs`. The invariant follows a call from its request to what the monolith
keeps: requests at work have distinct numbers (`Busy`, `Apart`), a call is made once per
number (`Counted`), the request of a call waits for it, holds its reference or was cut
short (`Held`, `References`, `Known`), and the row held was active when it was read
(`Vouched`). `RefsBacked`, `NoOrphanSession` and `AnswersBacked` follow from the former
parts, `SessionsVouched` from the last and from `PickCurrencyAllowed`, which says that the
currency of a charge is one the row accepts. The steps that only read are treated once
(`ReadStepKeeps`).

`CheckoutKeepsBook` is the refinement of `ChargeBook`. On top of the invariant it needs
`Unanswered`: a request at work has not been told anything, and its answer is not lost
unless its handler has given up and is about to say so. So `Tell` meets a request that is
open, a refusal one whose call is gone and made no charge (`Counted`, `Held`), and a call
whose request was cut short is the loose one `Charge` or `Drop` is about (`CallsApart`).

`CheckoutOffers`. `OfferHonoured` and `CardsTellThePrice` compare what two handlers made of
separate reads of tables that others write. The argument is one of dates: a card carries
the epoch in which its listing began, no date is ahead of the present (`DatedBy`), and
whatever writes a table or fails advances the epoch, so that nothing present is dated
after it (`EpochMoves`). It remains to follow what is of this epoch: a listing has read
what the tables hold and its cards could be made again from them (`Listed`, `Stands`), and
a charge from such a card reads the row and the price the card was made from (`Asked`,
`Faithful`). There `PickPrimaryAccepted` and the keys of the tables are used: the currency
the list picked is one the row accepts, and the code leads back to the same row.

`MinorUnitsProofs`. The three properties of `minor_units` hold for every set of amounts, any
number of decimals, every width of the word and every precision of the float, within
the ranges they name. The reference value is a recursive function of the digits:
`PowersOfTen` and `NumeralRead` show that it exists, `CentsRead` by induction over the
digits that cutting after two of them is dividing, so that the worth of an amount is its
cents and a remainder (`Worth`). `WrapTurns` and `WrapSame` are about the overflow: wrapping
twice is wrapping once, and a sign may be put on before or after, which is why
AbacatePay's conversion is Stripe's even when the word overflows. For Woovi, a float is
off by at most one part in `2^Bits` (`RoundEvenNear`, `FloatIsClose`); as the cents are fewer
than `2^(Bits - 2)`, the two float roundings each cost less than a quarter of a cent
(`Quarter`) and the last one half a cent at most (`ThreeRoundings`), less than a cent in all, and an exact number of cents is the
nearest one (`WooviIsClose`). The theorems are about whatever number `ToMinor` gives; that
`FloatAssumption` lets it give one for each amount is what the runs show.

`PaymentsProofs`. `CP` and `WP` are instances of the proofs of the two parts, and the
invariant of the whole is that of each part and what joins them: customers pay what
providers hold, and the receiver hears of nothing but what was paid (`Linked`). Every step
of `Payments` is a step or a stutter of each part (`Steps`), a write or a crash of both;
`CheckoutProofs` and `WebhookProofs` state their invariance for such open steps
(`OpenNext`), in which the table may also change under them. `PartsKeepPromises` restates
nine promises of the parts for the service as a whole, where those that count faults count
the faults of either side, and `ServiceKeepsChargeBook` the refinement of `ChargeBook`;
`NoticesAreKnown` needs both parts at once. `ServiceKeepsPromise` is the refinement of
`PaidOrders`: notices of an order are summed over its events, as a set of tokens, and
`NoticesPaidFor` maps each to the claim of a paid charge or to an outage, which is the
guard of the abstract notice.

`ServerProofs`. `MainOK` ties the pool and the strength of the secret to the phase of
`main`, `RequestsOK` keeps requests away from a process that is starting or gone,
`LayersOK` says which middlewares a request has yet to return through, and `MarksOK` that
a pool closed over requests at work is that of a shutdown that overran. `ShutdownHarmless`,
`UnclaimedExplained` and `OnlyTheMonolith` are inductive together with these.
`CountersTruthful` is a second induction on top of them: a request leaves `Recoverer` with
an answer (`Returning`), is counted as it passes the metrics (`UnwindCounts`) and is sent
with the same status (`FinishCounts`). `ShutdownHasAnEnd` proves the action property
`ShutdownWindsDown`, which is what the liveness of a shutdown rests on: a measure of each
request, `StepsToGo`, goes down with each of its own steps and with no other's
(`EndNears`, `PlainNears`, `ReturnNears`).

`NaturalLemmas`. The library states induction and recursion with operators as parameters,
which the provers cannot instantiate; here they are stated with sets (`NaturalInduction`,
`BoundedInduction`) and with functions (`RecursionExists`, `RecursionUnique`,
`RecursionOnNat`: the function that follows a given step exists, and there is one), from
the well-foundedness of the naturals. That is why the recursive definitions the proofs
reach are functions and not `RECURSIVE` operators.

Only model-checked: liveness (`PaidEventuallyPosted`, `AlwaysAnswered`, `PaidIsAnnounced`,
`ShutdownEnds`, `RunsAreServed`: fairness is outside the prover's reach), and
`SettledExactly`, which is about particular bodies and whose general form is proved.

Proved and in no run: `RepeatBudget`, whose consequence `RepeatsPaidFor` is, `RefsBacked`,
which `ChargeBookSpec` implies (what is known is charged, and for the same order), and
`ServiceKeepsChargeBook`.

## 6. Plan

Order of work, the most important behaviour first; all of it is done.

1. `Webhook` with `WebhookEvents`, `GatewayTable`, `PaymentNotice`, and its theorems.
2. `GatewayAdmin` with `GatewayRules`, and its theorems.
3. `MinorUnits`.
4. `Checkout` with `CheckoutRules`.
5. Theorems about `Checkout`.
6. `Payments`: charges created with one gateway of a provider and confirmed with the
   secret of another (the oldest).
7. `PaidOrders`, which the composition implements.
8. `Server`: start, shutdown, authentication, the pool and the counters; its theorems.

9. Theorems about `Payments`: the promises of the parts, `NoticesKnown`, and the refinement
   of `PaidOrders`.
10. Theorems about cards and their charges, canonical lists, the conversions, and what is
    called back.
11. Lost updates in `GatewayAdmin`; `ChargeBook`, which the checkout implements, alone and
    in `Payments`; the measure of a shutdown; theorems about all three.

What could follow: the lists of methods and the providers without a ledger in the
composition.

## 7. Not modelled

- The fields of provider requests and answers beyond currency, amount and reference: they
  are texts, links and extras passed through (`CreateCharge` of each adapter is therefore
  listed as partly modelled).
- Retention of the ledger (rows older than 90 days are to be removed, long after the about
  three days of redelivery) and the monolith's polling: not in this repository.
- Addresses, timeouts' lengths and URLs in the configuration; Sentry, the logger, tracing
  and the histograms, which are read by nobody in the program.
- Code without a caller: `GetDefaultActive`, `ListActiveAcceptingCurrency`,
  `pickChargedCurrency`, `ObserveDBQuery`, `GatewayCallbacksTotal`.
- Requests refused before anything is read (no order, no gateway), except bodies of the
  administration; amounts that are not a sign, digits, a separator
  and digits (blank ones are an error everywhere, but "9.-5" is taken by Stripe and
  AbacatePay, "1e2" and "Inf" by Woovi, "+9" by all three);
  currencies without minor units, which the conversions do not know either.
- HTTP details, JSON syntax, the bytes of a MAC, timing attacks, logging.
