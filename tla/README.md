# SMSGecko: models, checks and proofs

SMSGecko sells one-time phone numbers. A customer pays into a wallet, rents a
number from an upstream SMS provider for one service, waits for the code that
arrives on it, and gets the price back if none does. The API
(`src/apps/api/src`) is a set of Express handlers and three timers over MongoDB;
several handlers, several API processes, the SMS provider and the payment
provider act at the same time, and nearly every handler awaits several times
between what it reads and what it writes. That is what these modules are about.

All paths below are relative to `src/apps/api/src` unless they start with `src/`.

## 1. Inventory

| component | state | operations | correct when |
|---|---|---|---|
| order life cycle: `services/orders.service.ts`, `lib/orderLifecycle.ts`, `models/Order.ts` | the Order documents (status, price, provider reference, code, `finishedAt`, `reactivatingAt`, `expiresAt`), SmsMessage rows | create, apply a code, refund as expired or canceled, cancel, finish, resend, reactivate | an order is paid once per activation, refunded at most once and only unserved, every closed order is refunded, a code belongs to the activation it is shown on |
| idempotent placement: `createOrder`, `models/IdempotencyLock.ts` | IdempotencyLock with a TTL of 60 s, unique index on (user, key) | pre-check, lock, rent, insert and pay, compensate, unlock | any number of requests with one key: one order, one charge, the same answer, no rented number forgotten |
| ledger: `lib/ledger.ts` | `User.balanceMicro`, append-only Transaction rows | `credit`, `debit` | the balance never goes negative, each change has its row, a refund repays its charge |
| deposits: `services/deposits.service.ts`, `services/admin/finance.service.ts`, `providers/payment/*` | Deposit documents, the provider's charge | create, webhook, confirm, admin confirm or fail | credited at most once and not before the money is there, acknowledged only when settled, money that was paid arrives |
| workers: `workers/index.ts` | timers, batches of 50, `lastPolledAt`, broadcast lease and cursor | poll, expire, broadcast | nothing due waits for ever, nothing is done twice, no number that is served is given up |
| SMS providers: `providers/sms`, `services/admin/providers.service.ts` | ProviderConfig (enabled, priority), instance cache | rent along a chain, poll, release, finish, resend, reactivate; create, update, delete, reorder | one provider enabled; an order keeps the provider that rented its number; nothing is rented above the price quoted |
| settings and catalogue: `lib/settings.ts`, `lib/catalog.ts`, `services/catalog.service.ts`, `services/v2.service.ts` | process-local caches | read, update, bust; price tiers, offers, quote, product list, pick for an order | no stale value outlives its TTL; the customer's price covers the cost; an offer id names the tier that was shown |
| sessions: `services/auth.service.ts`, `controllers/auth.controller.ts` | RefreshToken families, EmailTokens, the password | sign in, rotate, revoke, reset, change password | nothing but what was under way outlives a change of password; refreshing signs nobody out |
| accounts: second factor, `lib/webhooks.ts`, `services/apikeys.service.ts`, `services/admin/users.service.ts` | User documents, ApiKeys | set up, enable, disable, sign in with a code; patch the webhook; make and revoke a key; edit a role or status | a recovery code works once, an administrator remains, one key is active, a webhook is signed |
| web client: `src/apps/web/proxy.ts`, `lib/api.ts`, `lib/hooks.ts`, the layouts, the sign-in and order pages | two cookies, the page, the query cache, one shared refresh, the order and the balance shown | visit, guard, refresh, retry, log out; poll an order, act on it, refetch the wallet | redirects end, a live session is kept and served, an ended one leaves the dashboard; a code that arrived comes to be shown, and so does money that was moved |
| broadcasts: `runBroadcasts`, `services/admin/broadcasts.service.ts`, `services/emailEvents.service.ts` | Broadcast (status, counters, cursor, lease), suppression list | queue, claim, send a batch, finish, fail | each recipient gets it at most once while no process dies, and the broadcast ends |
| the rest: controllers, rate limits, notifications, affiliate view, statistics, delivery of order webhooks, transactional e-mail, other pages of the web client, SDKs | little or none of their own | | |

How they interact. The three kinds of callers (customers with a cookie or an API
key, admins, timers) call the same service functions; orders, deposits and
admin adjustments meet in the wallet; orders call the provider that rented their
number, which may call back through the inbound SMS webhook; the payment
provider calls back through its webhook until it is answered with success.
Nothing holds a lock in memory: the only synchronisation is single-document
updates with a filter (`findOneAndUpdate({ _id, status: 'waiting' })`), unique
indexes, and, where there is a replica set, the one transaction of `createOrder`.

What is hard, then, is what happens *between* two awaits: section 7 and
`hazards` in `PROJECT.json` list it line by line.

## 2. Modules

| module | what it is |
|---|---|
| `Orders` | the life of rented numbers and the wallet they are paid from |
| `Purchase` | the abstract promise: buy, serve, close with refund, buy again, each in one step |
| `OrdersRefinement` | the refinement mapping from `Orders` to `Purchase` |
| `OrdersProofs` | theorems about `Orders` and its refinement, with proofs |
| `PlaceOrder` | `createOrder` under one idempotency key |
| `PlaceOrderProofs` | theorems about `PlaceOrder`, with proofs |
| `Deposits` | payments into the wallet |
| `DepositsProofs` | theorems about `Deposits`, with proofs |
| `Broadcasts` | one mass e-mail and the servers that send it |
| `BroadcastsProofs` | theorems about `Broadcasts`, with proofs |
| `Sessions` | the password, refresh tokens and cookies of one account |
| `SessionsProofs` | theorems about `Sessions`, with proofs |
| `Accounts` | concurrent requests to the rows of users: second factor, webhook, API keys, administrators |
| `AccountsProofs` | theorems about `Accounts`, with proofs |
| `WebSession` | one tab of the web client and its session |
| `Catalog` | from a reseller's price rows to tiers, offers and products, and back to the tier of an order: operators |
| `Resellers` | what each adapter makes of a price list, and what it asks for when it rents: operators |
| `Market` | administrators and buyers over the two: provider rows, settings and their cache, quote to order |
| `MarketProofs` | theorems about `Market`, with proofs |
| `Replies` | what each adapter makes of the reseller's reply to poll, resend and reactivate: operators |
| `Delivery` | from the reseller's code through polls, webhooks and adapters to the customer's page |
| `DeliveryProofs` | theorems about `Delivery`, with proofs |
| `MCOrders`, `MCPlaceOrder`, `MCDeposits`, `MCSessions`, `MCAccounts`, `MCMarket`, `MCDelivery` | symmetry sets, price lists and bounds for TLC |

In each component's module a section "Bugs the properties must notice" holds
mutated forms of some actions. No behaviour uses them; replacing an action by
its mutant makes TLC report the property listed in `PROJECT.json`.

### Orders

A process `p` is one request handler or one worker pass. `task[p]` holds where
it is and what it has read: the order, the reference to talk to the provider
about, the code, amount or closing status it carries. One action is the code
between two awaits that other parties can observe. So `refundWaitingOrder` is
`ClaimRefund` (the guarded `findOneAndUpdate`), `CreditRefund` (the increment),
`BookRefund` (the Transaction row, under the reference chosen from the rows that
exist) and `ReleaseNumber`; `reactivateOrder` is `StartReactivate` (the user
document with its balance, loaded by the authentication middleware),
`ClaimReactivation`, `Renew` (today's price, the old balance, the provider),
`Repay`, `BookRenewal`, `Reopen`, and on every failure `Unlock`.
`createOrder` has both of its write paths: `InsertPaid` with a transaction,
`Insert`, `Pay`, `BookOrder`, `Undo` without one, `GiveBack` after a failure.
Expiry, polls, webhooks and admin actions start from a read and act later, on
whatever the order has become.

`row` is the Order collection. Its `act` is not a field of the schema: it
counts the activations the customer was given, so that properties can say which
code was paid for. The provider may have sold more: a reactivation whose debit
is refused has got a number that nobody is given. `clock` is where now lies relative to the provider's minimum
hold and `expiresAt`; the hold is counted from `createdAt`, so a reactivation
moves the clock back to `open`, never to `held`. `line`, `sold` and `inbox` are
the SMS provider: the phase of each activation and reference, how many it has
sold, and the webhooks it has sent, each of which may be delivered late and again.
`charged` and `refunded` are history variables.

Left out of it: `resendOrder` and `lastPolledAt` (they decide *when* an order is
polled, which is the subject of `Delivery`; any order that waits may be polled
here at any time), provider statistics, notifications, outbound webhooks. Merged: the balance check of
`createOrder` with the rental that follows it (the guard that counts comes
later, in `debit`), the look for the reactivation's Transaction row with the
writing of the refund's. Only one customer: orders of others share nothing with
these. A webhook is matched to an order by reference within one provider.

### PlaceOrder

An attempt is one request carrying the key, from the pre-check to the `finally`
that drops the lock. The order is its document under the unique index. `Expire`
is the TTL index: it may remove the lock at any time, also under an attempt that
is still running (`overran` remembers whom). `Modes` is the set of answers
`supportsTransactions()` may give; with both in it, every order may take either
path, as during a failover. Outside a transaction `debit` is two writes: `Pay`
moves the balance, `Book` writes the Transaction row. A failure of either (`PayFails`,
`BookFails`) is caught in the same place and leads to `Undo`, which deletes the order but
gives nothing back; `unbooked` remembers the debits that stayed behind without their
row. What becomes of the order later is in `Orders`.

### Deposits

A handler of `createDeposit`, of a payment webhook, or of the admin's
`updateDepositStatus`. The charge exists before the document. A webhook for a
deposit that is not there is an error to the provider, so it is simply not
taken (`Webhook` needs the document) and comes again; one for a deposit that is
not pending is answered with success. The provider may deliver again after
success. `Charge` is the payment at one of the four providers: confirming, short, paid,
overpaid or late, as seen from outside. Late is what Stripe reports with an event of its own
(`checkout.session.async_payment_succeeded`, for methods that settle days later), and the
parser reads no such event. `Reports` gives the words each provider has for
these (they are theirs, hence external), and `EventPaid` is the four adapters'
reading of them: a `Webhook` is one whose event counts as paid, and the others are
acknowledged without effect. Signatures are abstracted: events are genuine.
`MaxDeaths` processes may die, each before another step (`died`
remembers deposit and step): the properties except a death between the claim
and the credit, one before the document is written and, for the row alone, one
between the credit and its row. Redelivery makes up for every other.

### Broadcasts

A worker is one server's `guarded` timer of `runBroadcasts`, so it runs one pass
at a time. `job` is the Broadcast document; its lease `lockedUntil` is held, gone
(null) or in the past. A pass is the claim (`Claim`, `Resume`), the count of the
audience by whoever finds nothing counted (`Count`), one page (`Read`), its
mails one by one (`Mail`), and the update that moves cursor and counters and
drops the lease (`Advance`), or `Complete` when the page is empty. `Throw` and
`Fail` are the catch block; `Die` is the death of the process and any error
outside the `try`, both of which leave the lease behind. What matters is that `Advance`,
`Complete` and `Fail` write by `_id`, whoever holds the lease by then.
`LeaseRunsOut` is free when nobody is at the job, and costs one of `MaxSlow`
under a pass that is (30 seconds against a batch of SMTP calls). Users verify,
unsubscribe and complain meanwhile.

Abstracted: sent and failed are one counter (they change together and nothing
tells them apart); the suppression list is a choice at the moment of sending;
`mailed` counts mails tried, since one that throws may have gone out. Left out:
the claim order of several pending jobs.

### Sessions

A process is one request, `jar` the refresh cookie of each browser. `rotateRefresh`
is `BeginRefresh` (find the token, judge it), `Mint`, `Retire` and `Answer`, or
`Nuke` when a revoked token is presented; a password change is `SavePassword` and
then `Revoke`, with the reset link consumed before and a session issued after.
Passwords are numbered as they are set, so a token can remember which one its
sign-in proved. `late`, `owed` and `troubled` are history: who was under way when
the password changed, whether a request died before its revocation, and which
families somebody ended or two tabs refreshed at once. The web client's promise of
one refresh per tab is in the guard of `BeginRefresh`.

### Accounts

A request loads a whole row (`Begin`), decides, and saves the fields it changed;
mongoose refuses the save only if the row's version moved *and* the recovery array is among
them (`Clashes`). All of setup, enable, disable and sign-in of the second factor,
the webhook patch, the two writes of `createKey`, and the edit of another
user's role are such pairs. A task names the user who asks and the one whose row
was read (`target`). The arithmetic of TOTP is a fresh number per secret.

### WebSession

The guard of `proxy.ts` is a function of the path and of which cookies a page
request carries (`Proxy`); a visit runs it until it answers with a page
or a browser gives up after `MaxHops` redirects. Queries meet the expired access token, wait for one shared
refresh and are sent once more (`RefuseQuery`, `RefreshSession`, `Refreshed`,
`AnswerQuery`). What a refresh does to the tokens is `Sessions`.

### Catalog, Resellers, Market

`Catalog` and `Resellers` hold no state. A price list is a sequence of rows
(country, raw price, stock, operator); each adapter reads it in its own way
(`HeroPrices` reroutes WhatsApp for the United States to Canada, `BowerPrices` keeps operators,
`PoolPrices` may know no stock); `ToTiers` merges rows of one price and ranks the rest,
so that the n-th tier is the kept row with n - 1 before it. An adapter rents under its own cap.
Those of the SMS-Activate family and smspool send the raw price to four decimals (`PriceCap`).
smscode is asked twice: for one page of products (`FirstPage`, of `CodePage` rows, since no
size is asked for), of which the cheapest under the cap is chosen (`CodeChoice`), and then
for a number, at up to two per cent and a step more than the product's price (`CodeMax`,
`CodeRent`). Prices are natural numbers, as the micro-dollars
of the code are, and percentages too, although validation admits a fraction. `Market` lets administrators create,
switch, delete providers and change settings, one database call at a time, while
buyers read settings through the process's cache, are shown a quote, and order
from it or without it. An offer's id is resolved against the price list of the moment
at which the order is priced, whatever the list was when the id was made. The two calls of
smscode are `ChooseProduct` and `OrderProduct`, with prices that may change between them. A
completed order is reopened in the steps of `reactivateOrder` that read or write what
administrators touch: `Reactivate` (the claim), `FindAdapter` (the provider row),
the settings like any buyer, `PriceReopening`, and `Reopen` or `RefuseReopening`. What else a rented
order goes through is one step here (`CloseOrder`), the whole of `Orders` there.

Three variables or fields are history. `torn` has the pairs of a buyer's request and
a provider row that was deleted after the request had read it; `raced` says of an order that,
when it last came to wait, its row was such a one, or its deletion had counted the
orders already; `seen`, carried by a request, is the offer its buyer was shown, with the tiers
it was one of.

Left out of it: the filter on operators of a quote (every quote here is for any
operator), and the product list of all countries at once (`services/v2.service.ts:42`
without a country), which prices from one call and without rerouting: see section 6.

### Replies, Delivery

`Replies` tells apart nine replies of a reseller: those a rental gives cause for in its
phase (`Says`) and the three kinds of trouble any request may meet. `Poll` is
the six adapters' reading of them, which differ: an order smspool does not know
waits, in the SMS-Activate family it is canceled; a number that left smscode's list of
active orders waits. `ResendAccepted` and `Reactivated` are the same for the
other two requests.

`Delivery` follows one order from the reseller to the screen. A poller is one
`pollOrderOnce`, of the worker (`StartPass`, when `lastPolledAt` is old) or of an
admin (`Repoll`): it asks about the document it has read (`Hear`) and acts on what
the order is by then (`Apply`). A poll that throws changes nothing. The page
polls `GET /orders/:id` (`PollOrder` reads, `ShowOrder` shows, later), its
buttons send one request at a time, whose answer `OnSuccess` writes into the
cache without cancelling a poll in flight. So a poll that is stale may be shown over a newer
answer, and the page offer a button that the order is past: `Reactivate` asks the server's
order, not the view. `header` is the balance: whether what is shown, and what a
refetch in flight has read, is older or newer than the last movement of money that the
customer was answered about (`Outdated`); `ReadWallet` and `ShowWallet` are one refetch, which an
invalidation drops and starts anew. `settled` is the page's `settledRef`. A cancel by the
customer is two steps (`Close`, `Credit`) and a reactivation one, since what happens within is in
`Orders`; the refund of the worker moves money the page is not told of, and has no
step here. `expired` and `canceled` are one status, `closed`: the page tells them apart by
their wording. The `act` of an order counts its activations, as in `Orders`. smscode keeps
the order id of a number that it activates again (`KeepsReference`), so an old poll or webhook
may speak of the new activation; smspool's reply names a new one.

## 3. Runs

| run | question | bounds |
|---|---|---|
| `orders_tx` | do charges, codes and statuses stay straight in every interleaving, and does every overdue order close, every closed one get its refund, every lock go? | 1 order, 2 processes, prices {1, 2}, wallet 4, 2 activations, transactions, no crash; `LiveSpec`, no symmetry |
| `orders_two` | is it a `Purchase` when two orders share a wallet that cannot pay for everything? | 2 orders, 2 processes, price 2, wallet 5 |
| `orders_fallback` | what survives without a replica set and with processes dying anywhere? | 1 order, 2 processes, prices {1, 2}, wallet 3, `Faults` |
| `deposits` | credited once, booked, not before the money is there, settled in the end? | 1 deposit, 4 payment providers, 3 processes, 2 deaths; `LiveSpec`, no symmetry |
| `place_order` | one order and one charge per key? | 3 attempts, 2 bodies, both modes, `Faults` |
| `broadcasts` | do leases, cursor and counters survive overlap, death and a changing audience, and does a broadcast end? | 2 servers, 3 users in pages of 2, 1 slow batch, 1 accident, 1 change; `LiveSpec` |
| `sessions` | what outlives a change of password, and does refreshing sign anybody out? | 2 browsers, 2 requests, 2 passwords, 2 tokens at the start of a request, 1 link; symmetric |
| `accounts` | what do overlapping requests do to the rows of users? | 2 users, 2 requests at a time, 3 in all, batches of 2 recovery codes; symmetric |
| `web_session` | do redirects end, and who is signed out? | 2 visits, 4 hops, `/auth/me` and one more query |
| `market` | who sells, at what price, and from which tier? | hero-sms and smscode (pages of 2 rows), 2 administrators, 1 buyer, 2 price lists, 2 settings, 2 edits, 1 order, reopened any number of times |
| `delivery` | does a code at the reseller end the wait on the page, does the header follow the money, and does a poll give up a live number? | 6 adapters, 1 poller, 3 activations (2 for smscode); no symmetry |
| `refund_pairing` | the disagreement of section 6 | 1 order, the smallest instance that shows it |

Why the bounds are enough. Every race in these handlers is between two parties
about one order, and a process that is done can start as another party, so two
processes let a third party come between the starts of two. What the
proofs state holds for any number. In the runs of `Orders` two activations are the
rental and one reactivation: a third repeats the second with other numbers. Two
prices tell the price at creation from today's. Two orders are what it takes for
a wallet to be overdrawn by a party that knows nothing of the order at hand.
Deposits share nothing but processes, so one stands for all; its three parties
are a webhook, a redelivery and an admin.
Three attempts allow one to lose its lock to the TTL, one to take it over, and one to come
late, to whatever the two have left; what the proofs state holds for any number. Deadlock is checked in `orders_tx`,
`orders_two` and `delivery`, where something (a webhook, a new
reactivation, a repeated answer, a poll) can always happen; `place_order` ends when all attempts are done, and
runs with crashes or a violated property may stop, so they say
`CHECK_DEADLOCK FALSE`.

Three users in pages of two make a full page, a short one and an empty one; one
slow batch lets two passes overlap and the late one set the cursor back behind
the other, one accident adds a death or a failure to that. `CopiesBounded` was
checked with three servers and two slow batches as well before it was proved for
all. A broadcast that has ended stops, hence no deadlock check.

Two browsers are two tabs' jars, or the owner's and somebody else's; two requests
are a refresh and a change of password, or two refreshes; a reuse takes three
tokens, which two at the start of a request allow. Two users are two administrators who
edit each other. In `market` the two resellers differ in rerouting, in operators and in
how they are asked to rent; the two price lists move a tier up, sell one out and
hide a stock; a country with more than two rows is more than smscode's page, one with
fewer is within it; two edits are what it takes for two switches, a switch and
a deletion, or a change of price between a quote and its order. These four runs stop
when requests, visits or edits are used up, hence no deadlock check there.

In `delivery` the order may be with any of the six adapters. Two activations let an
answer about the first arrive during the second; with the third comes the case in which such an
answer, shown over the second, offers to reactivate once more, and the second is completed
and reopened without having been shown. smscode gets one reactivation, because its number keeps its
reference and every old poll and webhook goes on applying, which multiplies the states; the
stale answers are the page's and do not depend on the adapter, and smspool gets two. One poller hears and applies at
any distance, so its verdict can be as old as it likes; polls that overlap are in the theorem of
`DeliveryProofs`, for any number, and in the runs of `Orders`.

Larger instances that were checked once, before their properties were proved:
`orders_tx` without liveness with 3 activations (4.9 million states) and with 2 orders and 3
activations (13.2 million); `market` with smspool and tiger-sms, and with sms-bower
and the templated adapter.

`StatusFlow`, `UnpaidIsNotCredited`, `RedirectsEnd`, `LiveSessionIsKept` and
`PollsKeepLiveNumbers` are action properties; every property comes with a comment in its module. `TypeOK` is the one
type invariant of a module: in `Orders` it also says that the balance is never
negative. Where it is proved (section 5) no run repeats it.

## 4. Fairness

`LiveSpec` of `Orders` assumes

- weak fairness of `Continue(p)`: a handler runs on until it returns. Every
  await in the code is on MongoDB or on an HTTP call with a timeout
  (`AbortSignal.timeout`), and a failing one is an outcome of its action, not a
  reason to stop. With `Faults` the process may die instead;
- strong fairness of `StartExpiry` for each order: `startWorkers` runs
  `runExpiry` every 8 s, `guarded` skips a tick only while another pass runs,
  and each order that is closed leaves the query, so a full batch cannot
  hold the next one up for ever. It is strong because the pass must find a free
  process: in the program the worker is always there, in the model the
  processes may be busy with requests.

`LiveSpec` of `Deposits` assumes weak fairness of the handlers and strong
fairness of the payment provider's redelivery *until it is answered with
success*, which is what the payment providers promise and the code relies on:
it answers 404 while the document is missing. Nothing makes customers pay,
admins act, or SMS arrive.

`LiveSpec` of `Broadcasts` assumes weak fairness of each pass, of some server's
tick finding the job (`setInterval` in every server), and of the lapse of a lease
nobody uses (time passes). Deaths are bounded by `MaxAccidents`: a server that dies
in every batch never finishes, and nothing in the code counts the attempts.

`Spec` of `WebSession` assumes that a tab that is open goes on: its requests are
answered, with success or not, and the effects of its pages run. Nobody has to
visit or click, and nothing has to expire. `Spec` of `Market` assumes only that
time passes (`Expire`: ten seconds after it was filled the cache is not used).

`Spec` of `Delivery` assumes, action by action,

- that the timers fire and the handlers run on (`Age`, `StartPass`, `Hear`,
  `Apply`, `Credit`, `Serve`): as above, every await ends. `StartPass` is fair
  for this order, which takes for granted that a batch of 50 has room for every order
  that is due;
- strong fairness of hearing `code`: a reseller that is asked again and again,
  however often it refuses our key, sends nonsense or is silent in between, in
  the end tells a code it has. It must: a poll that throws is only logged;
- that the page stays open, its timer fires and its requests are answered;
- strong fairness of `ShowWallet`: each invalidation drops the refetch in
  flight, and the customer cannot click faster than the wallet is answered for ever.

Nothing makes an SMS arrive, a webhook come, an order expire or a customer click.

## 5. Proofs

Every state invariant of every passing run but `WebSession`'s is a theorem, for all values
of the constants; so are `StatusFlow`, `UnpaidIsNotCredited`, `PollsKeepLiveNumbers` and
the refinement. The assumptions are those the modules declare about their constants, which
TLC evaluates in every run, and what a theorem states itself.

### OrdersProofs

For any sets `Order` and `Proc`, any set of positive prices, any wallet and any
bound on activations, with and without transactions and with and without crashes:

- `TypeCorrect`: `Spec => []TypeOK`;
- `RefundsOnce`: `Spec => []RefundAtMostOnce`;
- `RefundsClose`: `Spec => []RefundedIsClosed`;
- `ReactivationsExclude`: `Spec => []ReactivationExclusive`.

While no process dies (`~Faults`): `CodesAreKept` (`CodeIsInHistory`). With a replica set
and while no process dies: `ActivationsCharged` (`ChargedPerActivation`), `StatusFlows`
(`StatusFlow`) and `Implementation` (`ImplementsPurchase`).

None of the three safety invariants is inductive. `Inv`, the one that is, adds

- `AmountIsPrice`: while a process has an amount to debit as the price of an
  order or reactivation, it is a price (`charged` would not stay a sequence of
  prices otherwise);
- `FreshOrder`: an order nobody has rented a number for is absent, without
  refund, and no process works on it (otherwise `Rent` could start a second
  creation beside a task of an earlier life);
- `InsertIsFirst`: a creation that has not inserted its document yet is the only
  process at that order, and the order has never been refunded: this is what
  keeps the insert, which overwrites the row, from reviving a refunded order.

With these the argument is short. A refund starts with the step from `waiting`
to a closed status; no step leads from a closed status back to `waiting` but
`Reopen`, whose process holds `reactivatingAt` on a `completed` order
(`ReactivationExclusive`), and a completed order is not one that was refunded
(`RefundedIsClosed`). The only other way to a new status is the deletion by
`Undo`, after which the row is absent and nothing claims it. So the claim
happens once, and the credit follows it in one process. The proof first
disposes of the steps that touch neither the rows nor the refunds nor move a
process into one of the critical steps ("quiet" steps, one lemma for all of
them) and then takes the remaining actions one by one.

The order a code is stored on and its row in the history are two writes of one
process, so `CodeIsInHistory` is inductive given `Inv`: only the storing of a code leaves
the step between the two, and only it writes the history (`StoreIsAlone`).

The refinement maps an order to a deal, and the wallet to the balance plus the
money processes have in hand: a refund that was claimed and is not credited, a
reactivation that was debited and is not open. That sum is counted coin by coin, as the
cardinality of the set of pairs of a process and a number up to what it carries, so
one process's step changes it by its own part (`CoinsStep`). Six actions are visible:
the paid insert buys, the application of a code serves, the claim of a refund closes, the
reopening buys again, and the credit and the debit move money from the hand to the
wallet or back, which nobody sees. All others are `Unseen`: they change no deal and no sum. Status and
charges follow the same six, so `ChargedPerActivation` and `StatusFlow` are carried along
in one invariant (`PaidInv`), which adds that nobody creates an order in several
writes, that an absent row is empty, that an order under reactivation is there, and that what was
paid for it is a price. Without a transaction the insert
is visible before the payment, and a crash loses what a process has in hand: both
hypotheses are needed, and TLC finds behaviours that break each of the three without
them (`StatusFlow` with crashes only from 3 activations on).

### DepositsProofs

`DepositsProofs` proves, for any deposits, handlers and number of deaths,
`TypeCorrect` (`TypeOK`), `CreditsOnce` (`CreditedAtMostOnce`), `CreditsBooked`
(`CreditIsBooked`), `CreditsArrived` (`UnpaidIsNotCredited`, for any set of the four
providers) and `AcksSettled` (`AckedIsSettled`, which says that what is acknowledged
is settled; no run repeats it). Its `Inv` adds the order
of events: the document is written once and after the charge (`RecordAlone`, else
`Record` could turn a confirmed deposit pending again), everybody else found a
document (`Known`), credits, rows and answers come after a claim or a refusal
(`ClaimedFirst`: of a pending deposit nothing is credited yet), one process at
most is at the row (`CreditAlone`), and a confirmed deposit is credited, about to
be, or lost its process there (`ConfirmedIsCredited`, from which `AckedIsSettled`
follows). `CreditsArrived` rests on `WebhookPaid`: while a webhook's process is under way
the charge it is about has arrived, and what has arrived stays.

### MarketProofs

For any providers and adapters, administrators, buyers, price
lists and settings: `TypeCorrect`, `AtMostOneEnabledHolds` (`AtMostOneEnabled`),
`WaitingHasProviderHolds` (`WaitingHasProvider`), `NotBelowCostHolds` (`NotBelowCost`) and
`QuotedIsBoughtHolds` (`QuotedIsBought`). `WaitingHasProvider` goes by two facts: a request that
acts on a deleted row has read it before it went, and is remembered as such (`HeldWasThere`);
and an order that waits while its row is deleted, or about to be, has come to wait across the
deletion (`Waiters`): had it waited before, it would have been counted. An order comes
to wait in two places, `InsertOrder` and `Reopen`, and both note what `Races` says then. `Sellers`
carries the rest: whatever is rented from, sold or reopened belongs to a provider, and a
reopening speaks of the provider of its order.

The other two rest on lemmas about the pure modules, which are written with ranks,
sets and filters rather than folds so that they can be reasoned about: a tier is a row of
the list marked up (`NthRowIsKept`, `TierIsRow`), marking up lowers no price (`MarkedUp`), a
row of an adapter's list is one the reseller has (`PricesAreListed`), and what a reseller bills
is the raw price to within half a step, or smscode's headroom (`RentalIsCapped`,
`CodeChoiceIsCapped`, `CodeRentIsCapped`). `Costs` carries what a buyer was shown and agreed to from
one step to the next (`Covered`): a quote on the page would be found again in its own list
(`OnPage`, by `OfferIsFound` and `ProductIsFound`, which rest on `TiersAreNumbered` and `IdNamesTier`);
an order asks for the tier it was shown, and from the page under the price it was shown (`Asked`); once priced it
costs no more than that (`Agreed`). Between these steps prices, settings and providers change
at will; the id may then name another tier, and the price agreed to is that tier's. That a
provider which still lists the tier has a number for it is `ListedIsSold`.

`QuotedIsBought` promises a number only for a tier whose stock is known (smspool's brief price
list names a price without a stock, the catalogue shows such a tier as available, and there
may be no number for it), only for a raw price that its rounding does not lower, and from
smscode only if the country's rows are one page.

### DeliveryProofs

`DeliveryProofs` proves, for any of the six adapters, any number of polls that
overlap and any bound on activations, `TypeCorrect` and `LiveNumbersKept`
(`PollsKeepLiveNumbers`). A verdict is heard at one time and acted on at
another, guarded on the order's status alone, so the invariant has to carry what
was true at the reseller over to the second: a poll asks about the order's activation or an
earlier one (`AsksWhatItRead`), the reseller is never at a later one than the
order (`RentalIsTheOrders`), no adapter takes the reply
of a number that is served for a cancellation (the lemma `CanceledMeansOver`), and a
number that is over stays over as long as its activation is the last (`CanceledIsOver`). For
a poll that read an *earlier* activation than the one it closes nothing of this
holds, and the property leaves it out: see section 6.

### PlaceOrderProofs

`PlaceOrderProofs` proves, for any attempts and bodies, either mode or both, with
and without deaths, every invariant its run checks: `TypeCorrect`, `ChargesOnce`
(`OneChargePerKey`, with the exception of section 6), `AnswersAgree` (`SameOrderForAll`), `AnswersPaid`
(`AnsweredIsPaid`), `LocksExclude` (`LockIsExclusive`) and `NumbersAccounted`
(`NumberIsAccountedFor`). The argument shows what carries what: the unique index
makes one attempt the writer of the document, and only the writer pays for it or
undoes it (`Writer`, `Paid`); an answer names the document there is or one undone
(`AnsweredExists`). None of this uses the lock: `LockHeld` serves
`LockIsExclusive` alone, so the lock spares needless rentals, while no charge
depends on it.

### BroadcastsProofs

`BroadcastsProofs` proves, for any finite set of servers, any number of users, any
batch size and any bounds, all invariants of its run:
`TypeCorrect`, `BatchesExclude` (`OneBatchAtATime`), `CompletedReached`
(`CompletedReachesAll`) and `CopiesAreBounded` (`CopiesBounded`). Three ideas:

- a pass on its way holds the lease until somebody's lease is outlived
  (`LeaseHeld`);
- nobody who was in the audience all the time lies behind a cursor, the job's or a
  pass's, without having been tried (`CursorBehind`, `PassBehind`). This is why
  overlapping passes may write the cursor in any order, also backwards: each
  writes the end of a batch that started from such a cursor. It rests on
  `PageIsClosed`: a sorted, limited page leaves nobody out before its last
  recipient, and is empty only at the end;
- every copy user u gets uses up one chance (`CopyBudget`): a pass that has yet to
  come to u, or a start before u that is free. A claim turns a free start into a
  pass, the end of a batch turns it back; only an outlived lease or a pass cut
  short adds one.

Least and greatest elements of sets of users come from the well-foundedness of
strict inclusion on finite sets, which the library states without an operator
parameter.

### SessionsProofs

For any browsers and requests and any bounds on passwords, tokens and links:
`TypeCorrect`, `PasswordEndsSessions` (`ResetEndsSessions`) and `RefreshIsSafe`
(`RefreshKeepsSession`).

The first needs to know what a request proved when it began, since it writes
its token later: the password it proved is the account's still, or a revocation that will
find the token is due, or the request was overtaken and says so (`ProvedLatest`, and
`LiveIsLatest` for the tokens). The second
says where the tokens of a family are that nobody ended and no two tabs refreshed at once: one
request carries them (`CarriedAlone`), one cookie has them (`JarsApart`), and
if both, the request is refreshing that cookie (`CarriedFromJar`). So the token that a
refresh retires is the one it replaces, and what is left in the cookie lives (`CarriedLive`,
`JarLive`). A revoked token is presented only in a troubled family (`ReuseIsTrouble`).

### AccountsProofs

For any users, requests and codes: `TypeCorrect`,
`CodesAreSpentOnce` (`RecoveryCodeOnce`), `AnAdminRemains` (`AdminRemains`), `OneActiveKey`
(`KeysAreReplaced`) and `SignedWebhooks` (`WebhookIsSigned`).

A code is accepted once because whoever reads the hashes reads the row's version with
them (`ReadIsOlder`), so that a save that clashes fails, and because a batch is new when it is saved,
and saved to one row (`Distinct`, `NotYet`, `OneHolder`): a spent code cannot come back. The
active key is the only one since of the requests about to issue a key to one user at most
one has not been overtaken, and it finds none active that was not (`IssuedAlone`). The other two
invariants are inductive with the types; they except the edits and patches
that overlap, as their comments say.

### Only model-checked

The properties of `WebSession`, which has no proof module, and liveness
(`OverdueIsClosed`, `RefundArrives`, `LockIsReleased`, `PaidIsSettled`, `BroadcastEnds`,
`OutcomeIsShown`, `BalanceFollows` and the like), which is out of the prover's reach.

## 6. What the code does not keep

`refund_pairing` shows a disagreement of the code with its comments, which
`findings` in `PROJECT.json` quotes: the refund of a reactivated order is booked
against the reactivation's charge but repays the creation's price.

Others were met while modelling. The modules contain the code's behaviour, and no
run repeats it:

- a code read before a reactivation can be applied after it, and completes the
  new activation with the old code (`lib/orderLifecycle.ts:32`);
- closing an order and crediting the wallet are two writes; a process that dies in
  between loses the refund (`lib/orderLifecycle.ts:88`);
- an admin's "failed" overwrites a confirmation that has credited the wallet
  (`services/admin/finance.service.ts:86`);
- the body of a replayed key is not compared when the unique index, rather than the
  pre-check, finds the earlier order (`services/orders.service.ts:211`);
- two keys can be active after two overlapping `createKey`, although line 18 of
  `services/apikeys.service.ts` says "One active key per account": `KeysAreReplaced` excepts the overlap;
- the comment of `src/apps/web/proxy.ts:95-97` sends a "refresh-only session" through to
  the admin layout, but the refresh cookie's path keeps it from every page request; with an
  expired access token `/admin` and `/login` redirect to each other until the
  cookie lapses: `RedirectsEnd` excepts `/admin`;
- outside a transaction the balance moves before the Transaction row is written
  (`lib/ledger.ts:46-57`); when only the row fails, `services/orders.service.ts:242-246` ("Payment
  failed after the order was written — undo it") deletes the order and releases the number, while
  the wallet stays debited, and a retry with the key pays again. `OneChargePerKey` excepts
  this case and no other;
- "we're never billed above what we quoted" (`services/orders.service.ts:142`) holds for smscode up to the
  headroom of its second call (`providers/sms/adapters/smsCode.ts:111-119`), when its price rises between the two, and the
  order records the first call's price as its cost: `NotBelowCost` has the headroom in it;
- smscode's rental looks for a product in one page (`smsCode.ts:88-91`), although its comment at
  204-208 says that a single page truncates and the catalogue reads them all: a tier that is
  listed may find no product;
- deleting a provider counts the orders that wait, and deletes (`services/admin/providers.service.ts:165`). An
  order inserted or reopened in between, by a request that has read the row, waits
  on a provider that is not there, which nobody polls: `WaitingHasProvider` excepts those
  that raced the deletion and no others;
- the page's `onSuccess` cancels no poll in flight (`src/apps/web/lib/hooks.ts:258`): an answer from before a
  reactivation is shown over it and offers to reactivate again, and if the webhook has
  completed the activation meanwhile, the click reopens the order and its code was never shown;
- Stripe's `checkout.session.async_payment_succeeded` is not an event the parser knows
  (`providers/payment/stripe.ts:104`): a payment that settles late stays pending until an admin confirms it.
  `PaidIsSettled` is about the others;
- two concurrent switches of providers may leave none on;
- the price list of the developer API prices WhatsApp in the United States as it
  is listed, the order as it is rerouted (`services/v2.service.ts:42`, against
  `providers/sms/changeRoute.ts:8-10`): `QuotedIsBought` compares per country;
- a poll that heard of an earlier activation acts on the next one, since it is
  guarded on the status alone: it may refund a reactivated order whose number is
  served (`workers/index.ts:52`);
- `resend` of the templated adapter reports a refusal as done, although
  `providers/sms/types.ts:97-101` says that it must throw (`ResendAccepted`);
- smscode's `reactivate` takes a reply that is not JSON for a yes, and the customer
  is charged for a number that may not be there (`CodeReactivated`);
- the templated adapter takes any reply that contains one of its words for a
  rejected key as a rejected key, also inside a message (`providers/sms/adapters/customHttp.ts:112`);
- the order page refreshes the balance once, the first time the order leaves
  `waiting`: after a reactivation that expires by itself, or when that one refetch
  comes between the closing and its credit, the header shows the old balance until
  something else refreshes it. `BalanceFollows` is about what the customer did;
- orders whose polls throw keep their places in an unsorted batch of 50 and may
  keep others out of it, while `src/apps/api/README.md:133` says that "every `waiting`
  order is polled on a fixed cadence".

## 7. Hazards without a property, and why

Of the crashes, a process that dies while it holds `reactivatingAt` strands the order, a
crash between a deposit's claim and its credit loses the money, a crash between a
balance change and its row leaves a gap in the ledger, and a failing
`newOrderPublicId` forgets a rented number. The code has no recovery for
any of them, and they are excused in the properties by name (`Faults = FALSE`,
`"dead"` in `NumberIsAccountedFor`, `Died` in `Deposits`). `finishOrder` can mark a
reopened order as finished, an old code can complete a new activation, and
nothing in the repository says what should hold there. Whether failing polls
starve others depends on the order in which MongoDB returns documents, which the
code does not choose; `OutcomeIsShown` assumes they do not. Provider references are
taken as unique, while `services/orders.service.ts:355` looks an order up by reference
whatever its provider, newest first. Which body a replayed key had is compared by the
pre-check alone (`services/orders.service.ts:211`): `SameOrderForAll` is about the order.

## 8. Plan

Done: `Orders`, `Purchase` and the refinement, `PlaceOrder`, `Deposits` with its payment
providers, `Broadcasts`, `Sessions`, `Accounts`, `WebSession`, `Catalog`, `Resellers`, `Market`,
`Replies`, `Delivery`, and the proofs of section 5.

Left:

1. **Polling**: the batch, with more orders than it holds and polls that fail.
2. **Accounts**: registration, verification of addresses, the suppression list (a bounce
   is never downgraded to a complaint), `adjustBalance`.
3. **Proofs**: what becomes of the invariants of `Orders` that are stated under `~Faults` when
   processes die, up to what the process had in hand.

Not modelled, and not planned: pages, forms and texts of the web client, the
documentation site and the SDKs (they call the API and show what it says);
statistics, overviews, logs, notifications and the affiliate view (they read);
request validation and the shape of responses; the delivery of order webhooks (one
attempt, no state); signatures, hashing, encryption and TOTP (cryptography);
rate limits and throttles (per-process maps that no correctness depends on);
health checks and provider statistics (they report).

## 9. Running it

    tlc -workers 2 -config OrdersTx.cfg MCOrders
    tlapm OrdersProofs.tla      # and DepositsProofs, PlaceOrderProofs, BroadcastsProofs, MarketProofs,
                                # DeliveryProofs, SessionsProofs, AccountsProofs

`orders_two` takes about four minutes, `delivery` two to three, `market` about two, the others about one or
less; the proofs take a few minutes from nothing.
