# GeekVPNBot, specified

TLA+ modules that model the core of this repository, a shop that sells VPN
subscriptions through a Telegram bot, a Mini App and an admin API; TLC
configurations that check them on small instances; and TLAPS proofs of the
facts that matter most. Paths are relative to `src/src/geekvpn/` unless they
start with `src/`.

## The system

Three processes share one Postgres database and one Redis: the **bot** and the
**API** serve requests, the **worker** runs periodic jobs. The domain lives in
aggregates (`domain/`), the use cases in services (`application/`), and each
use case runs in one database session that commits on success and rolls back
on any exception (`infrastructure/bot/sync_readers.py:107-119`,
`presentation/api/admin_common.py:108-123`). Isolation is READ COMMITTED, most
rows are read without a lock and written back whole, and domain events are
delivered inside the publisher's transaction, a subscriber that raises being
logged and skipped (`infrastructure/events/dispatcher.py`).

| Component | State it keeps | Operations | Who it talks to | What is hard | What makes it correct |
|---|---|---|---|---|---|
| Checkout, review, verification, refund (`application/payments`) | payment, invoice, refund, receipt-digest rows | begin, submit proof, approve, reject, ask for a better proof, verify (callback, sweep, Stars), refund | gateways, wallet, order bridge | two operators or an operator and a callback on one payment; a lost or repeated callback; a stale copy saved back | credited once, settled together, decided once, refunded within the capture |
| Orders (`application/provisioning/order_service.py`) | order rows | place, mark paid, release | payments (events), coupons, provisioning | releasing an order another request has just paid | no order is paid without its invoice, a paid order stays paid |
| Wallet (`domain/payments/wallet.py`, `application/payments/wallet_service.py`) | ledger entries with a running balance, an advisory lock per user | credit, debit, top up, adjust, transfer, reward | checkout, refund, rewards | writers that do not take the lock, stamps taken before it, lock order of a transfer | the balance is the sum of the ledger and never negative; a transfer moves money and makes none |
| Rewards (`referral_rewards.py`, `signup_bonus.py`, `newcomer_gift.py`) | ledger references, a referral edge | pay once | wallet, order events | a re-delivered event | each reason pays once |
| Provisioning (`application/provisioning/provisioning_service.py`) | order state, subscription row, account on a remote panel | provision, renew, drain stuck orders, expire | panels over HTTP, worker | a panel that did it and never answered, a crash between the panel and the commit, a retry on another node | one account and one period per paid order |
| Subscription lifecycle (`subscription_admin.py`, `usage_sync.py`, `expired_cleanup.py`, `unused_refund.py`) | subscription row, panel account | suspend, resume, revoke, rotate, extend, add and reset traffic, renew, sync usage, expire, clean up, arrears, refund unused | panels, wallet, worker | panel and row disagree after a failure, a switch raced by the worker | the row never promises more than the panel gives; money is returned once |
| Coupons (`domain/catalog/coupon.py`) | redemption counter and rows | redeem, release | checkout, order release | two checkouts racing one single-use code | a limited coupon is used within its limit |
| Pricing (`domain/catalog/pricing.py`, `application/catalog/quoting_service.py`) | none | quote | checkout | floors, ceilings, rounding | the total stays between the floor and the base price |
| Resellers (`application/resellers`) | credit balance and ledger, applications, top-up requests | sell, give back, adjust, suspend in arrears | provisioning, panels | a failed sale's refund, arrears suspensions versus an operator's | credit is spent once per delivered sale |
| Notifications and broadcasts (`application/notifications`) | broadcast progress, dedupe keys, deferred messages | compose, send, cancel, flush | Telegram, worker | a crash in the middle of a batch | everyone is told, and told once |
| Sessions and logins (`application/identity`) | refresh-token families, login requests, lockout counters | issue, rotate, revoke, claim, decide, poll | Redis, bot | a rotated token presented again, two polls at once | a family never outlives a reuse, a login is consumed once |
| Support tickets (`application/support`) | ticket, messages | open, reply, close, reopen, assign | notifications | who spoke last | a closed ticket takes no message |
| Worker (`entrypoints/worker.py`) | a tick lock in Redis, last-run stamps | tick | everything periodic | a tick outliving its lock | jobs that must not overlap do not |
| Catalogue, settings, analytics, front ends, crypto, backups | rows, files | CRUD and queries | | | outside a state machine's reach or without a protocol |

`PROJECT.json` lists every component with its status, and under `hazards` the
lines at which the hard things happen.

## Modules

### `Settlement`: one checkout, worked on by overlapping requests

One element of `Payment` names a checkout: its payment row (`pay`), the sum of
its refund rows (`refunded`), its invoice (`invoice`, `total`), the order behind
it (`order`; top-ups have none) and the wallet credits made for it (`credits`,
by ledger kind). `claimed` is the table of receipt digests, `approvals` counts
PaymentApproved events, `late` says that the proof window (or the sweep's two
days) has closed, and `provider` is what `gateway.verify` would answer.

A request is two steps. `Read` opens the transaction and takes the snapshot of
the payment and its invoice that the handler decides on (the guard `Admits` is
the handler's own checks on the rows it read; a request that fails them raises
before writing and changes nothing). A commit action, one per handler
(`Approve`, `Reject`, `RequestBetterProof`, `SubmitProof`, `VerifyConfirmed`,
`VerifyEscalated`, `VerifyDeclined`, `Refund`), then makes every write of the
handler and of the event handlers that run in its transaction (the order bridge
and the release). Two steps are enough: the UPDATE of the payment row holds a
row lock to the end of the transaction, so the writes of two requests on one
payment never mix, and the order is read only after it. The invoice may be read
later than the payment, which `ReadInvoice` allows. `Abort` is any transaction
that ends without writing: an exception, a constraint, a deadlock, a crash.

`Save` is the repository's: it re-reads the row and assigns every field, and
SQLAlchemy's UPDATE holds the columns that differ from what was re-read. If the
re-read came before another writer's commit, that is a patch of the columns
this request changed; if it came after, the request's whole copy. Both happen,
so `Save` chooses.

Starting a checkout is one step per method (`BeginByProof`, `BeginAtGateway`,
`BeginSettled`) after the order was committed on its own (`PlaceOrder`).

### `Sale`: what a checkout promises

The abstract specification: a sale is opened, then sold with its order owed to
the customer or abandoned with its order released, in one step; after a sale
money may be returned, never more than is kept. `Settlement!SalesAreAtomic`
states that `Settlement` implements it under the mapping of `AtomicSale`.

### `Wallet`: the ledgers and the requests that write them

`ledger[u]` is the set of a customer's entries, `stamp` standing for
occurred_at and `rank` for the order of the random ids among the entries of one
request. `Balance` is what `Wallet` reports: `after` of the last entry. A
request (a record that says who asks for what) goes through `Start`, `Acquire`
for each advisory lock, `Read` for each wallet, `Stamp` and `Commit`, in the
order its handler has them:

| Handler | Locks | Reads the clock |
|---|---|---|
| `WalletService.transfer` | both wallets, lower id first | after reading |
| `CheckoutService._settle_from_wallet` (purchase) | the wallet | on entry |
| `credit_topup` (top-up, with an overpaid top-up's surplus) | the wallet | on entry |
| surplus of an overpaid purchase | none | on entry |
| `RefundService.refund` | none | on entry |
| `credit_reward`, `adjust`, `adjust_many` | none | after reading |

`Cap` is `adjust_many`'s first reading of the balance, with which it limits a
debit before `adjust` reads again. `Commit` fails where the code raises:
`Affordable` is InsufficientFunds, `Unique` the ledger's unique (user, kind,
reference), and then only `Abort` is left. `Abort` may also happen at any time
and gives the locks back, as the end of a transaction does. `clock` hands out
distinct readings, so only entries of one request tie.

### `Bank`: what the wallets promise

Accounts, one whole movement at a time, never overdrawn. `Wallet!KeepsAccount`
maps an account to the sum of the ledger, not to the recorded balance.

### `Provisioning`: paid orders become accounts

`Service` are orders that buy a service, `Renewal` orders that renew one;
`order`, `paidAt` and `sub` are the order and subscription rows, `panel` the
days on each service's account on each server, `lock` and `rowLock` the row
locks, `txn` the session of each request. `told` and `excuse` are history: how
often a panel acted for an order, and how often that was lost.

A request (a checkout, an operator's retry) delivers one order, the worker's
sweep the orders `Oldest` names, all in one transaction that ends in `Commit`,
`Die` or `Deadlocked`. What it writes (`wrote`, `rows`) is seen by others only
then; what it does on a panel stays done. One order goes through

| Step | Code |
|---|---|
| `Claim`: wait for the order's row and read it | `get_for_update` |
| `AlreadyDelivered`, `TurnedAway` | a subscription names the order; the state refuses `start_provisioning` |
| `StartCreate`, `StartRenew`, `NoServer` | PROVISIONING, the server, or `_fail` |
| `Created`; `Look`, `Extended`, `Renewed` | `create_account` and the insert; the adapter's read of the expiry, its write, and the update of the subscription |
| `PanelFails`, `AnswerLost`, `PanelRaises` | a PanelError without and with an effect; any other exception |

A renewal's account is asked for its expiry in one HTTP call and given the new
one in another, so `Look` and `Extended` are two steps; creating is one, because
the panel answers a second create with the account that is there.

Repositories turn a row into a domain object and drop it, and SQLAlchemy's
identity map holds rows weakly, so every SELECT is answered by the database
(`View`: the session's own writes, then what is committed) while the domain
object read earlier (`held`) may be old. An update reads the row again and
assigns the fields that `subscription_apply` lists (`Applied`).

### `Services`: a delivered service, its row and its account

`sub` is the committed row, `panel` the account. A session of any kind in `Kind`
(an operator's or a customer's action, a paid renewal, a sweep) goes through

| Step | Code |
|---|---|
| `Load`, `Listing` | the SELECT; for a sweep all it will touch, in one go |
| `ReadAll`, `Ask` and its effect, `Tells` | the panel call, done at once; `AnswerLost` and `PanelRefuses` are its failures |
| `Change` | the aggregate's method on the copy, then `update()`, whose UPDATE waits in `Write` |
| `Credit` | only `UnusedRefund`: the wallet, on a connection of its own, before the commit |
| `Commit`, `Die` | the end of the transaction |

What the panel does stays when the transaction is undone (`undone`), and an
update writes the columns in which an old copy differs from the row as it is.
The aggregate's methods (`RecordUsage`, `Renew`, `Suspend`, ...) are operators on
rows. Two sessions on one service (`mixed`) really can write old columns over
new ones, which is why three of the properties are about services for which that
has not happened; the two about revoked and refunded services hold regardless.

### `Resellers`: one reseller's credit

`row.balance` against `ledger`, the sum of the ledger's rows. A sale
(`sell` in the bot, `sellApi` in the panel) loads the row, charges the copy,
writes it with its ledger row, and holds the transaction while the panel makes
the account (`Deliver`, `NotDelivered`); the bot's failed sale gives the money
back and commits, the panel's is rolled back. `Refunding` tells the two kinds of
failure apart: after a panel's refusal or a lack of capacity the order is
cancelled with the refund, after any other error it is PROVISIONING and stays,
and the worker's sweep delivers it later (`Drain`, `DrainLost`; `left` holds
those orders, `uncancelled` counts the refunds). `approve` and `reject` decide a
transfer, `take` deducts, `bar` and `unbar` edit the status, `trial` counts and
gives a test account. `stale` records that a balance was saved from a copy that
another request had overtaken: the row is read without a lock.

### `Coupons`: one code through the checkouts that use it

`Quote` checks the limits and says whether the code takes anything off, `Place`
commits the order, which stores the code in either case. If nothing came off
(`NothingToCount`) the checkout goes on without counting; else `Read`, `Update` (or
`Write`) count the redemption in a second transaction that stays open through
`Pay`, and `Commit` makes it visible. `Find` and `GiveBack` are the release of
an abandoned payment, a relative decrement floored at zero; `Read` to
`CommitEdit` in the `Editor`'s slot is an operator's edit, which saves the whole
row. `stale`, `undone` and `early` record what makes a count or an order wrong,
and the properties say which they except. `raced` (checkouts that overlapped)
and `unbacked` (uses given back that were not on record) are not excepted: the
limits are stated with them as allowances, one use for each.

### `Broadcasts`: from composing to the customers' phones

One send is one transaction: `Begin` reads, `Start` marks the row and from then
holds it, `Skip`, `Defer`, `Deliver` and `NotDelivered` walk the audience in any
order (one engine dispatch each, with the dedupe key, the mutes and the daily
cap), `Finish` commits notifications, counters and SENT at once. `phone` counts
what Telegram showed, which `Die` does not undo. `ReadToCancel` and `Cancel` are
the operator's request; `Flush` is the DEFERRED_FLUSH job with the selection it
makes (`Due`).

### `Quotes`: what a package costs

`quote_plan` and `price_for_volume` as operators (`ByCampaign`, `Together`,
`Ceiling`, `Discounted`, `Total`; `OnTheLine`, `PriceForVolume`), over a
catalogue that operators edit price by price (`UpdatePlan`, `SetPlanState`,
`SetRules`, `SetCampaign`) and a reseller prices on his own (`SetRetail`).
`Preview` and `Place` evaluate them; `answer` keeps what was last answered
together with what it was computed from, until the catalogue is edited.

### `MC...`: the instances; `...Proofs`: the theorems

## Runs

| Run | Instance | What it shows |
|---|---|---|
| `overlapping_requests` | a purchase and a top-up by transfer, two request slots, two receipts | a receipt backs one payment, a top-up is credited once, a paid order stays paid, whatever overlaps |
| `taking_turns` | transfer, gateway and wallet, one slot | refunds within the capture, final decisions made once, and the refinement of `Sale` |
| `gateway_sweep` | a top-up at a gateway, the worker's slot and one other | what the provider answers is acted on |
| `wallets_race` | two customers sending to each other, a purchase, a reward delivered twice, two slots | transfers conserve, a reason pays once, wallets moved by transfers add up, every request ends |
| `wallets_in_turn` | a transfer, purchase, top-up, surplus, adjustment and capped debit, one slot | the recorded balance is the sum of the ledger; refinement of `Bank` |
| `provisioning_race` | a service and two renewals, two servers, two callers and the sweep, one trouble | rows, orders and accounts agree; no panel acts twice without a cause; every paid order is delivered |
| `services_race` | one service, an actor's slot and the worker's, the sessions that switch, delete or refund it, one trouble | a revoked or refunded service has no account; gone means revoked and off means suspended where nobody overlapped |
| `services_in_turn` | one service, every kind of session, one slot, one trouble | row and panel agree on date, cap and link; what lapsed is closed, what was paid is renewed |
| `reseller_credit` | two slots, one transfer, every kind of request, one trouble | balance, transfers and accounts agree; what is sold is funded, but for refunded sales the sweep delivers |
| `coupons` | three checkouts of two customers, a release, an edit, one trouble | counter, redemptions and orders agree; the limit is passed by no more than the overlaps and the uses given back uncounted |
| `broadcasts` | two broadcasts, two customers, two senders, one mute, one trouble | nobody is told twice, records and counters are complete, the cap holds |
| `quotes` | two packages, three volumes at, between and beyond theirs, two campaigns, two codes, two policies | a code never costs, floor and ceiling hold, invoices add up, more is never cheaper |

**Payments.** Invoices come to 2, so that 1 arriving is short, 2 exact and 3
over; refunds of 1 and 2 are partial and full. Two slots are what an overlap
needs; the proofs cover any number. `Ceiling` bounds the identifying remainder
to one Toman: only that it is positive and added after the limit was checked
matters. The state has no counter that needs a bound: a payment is approved or
refunded only from states it leaves, receipts are claimed once, and the number
of overlapping requests bounds how often a stale copy can bring a state back.
`RefundWithinCapture`, `DecisionIsFinal` and `SalesAreAtomic` hold only when
requests on one payment take turns: nothing locks the payment row between the
read and the write, and no column carries a version.

**Wallets.** Two customers are what a transfer needs, with balances of 2 and 1
so that amounts of 1 and 2 are covered or not depending on the order. `MaxTries`
bounds how often each request is made: once, and twice for the reward, whose
event may be delivered again. Refund, deduction and reward differ from the
requests of `wallets_in_turn` only in the ledger kind and in what `wallets_race`
covers, and are left out there. `IntegrityHolds` is checked for requests that
take turns, because a purchase that read the clock before it waited, or a writer
that takes no lock, breaks it when two overlap.

**Provisioning.** One service is enough: two services share no row, and the
sweep and a caller already meet on one order and, through two renewals, on one
subscription from two orders. `MaxTrouble` bounds how often something goes wrong
on a panel that is up (a refusal, a lost answer, a crash, the sweep killed in a
deadlock): once, at any step; more often is what the proofs cover. Every panel
is up and `Limit` is no smaller than the number of stuck orders, which
`PaidIsServed` needs: the sweep takes the orders paid first, so as many of them
as it takes, on panels that never answer, starve the others.

**Services.** One service: the sweeps' lists and batches are in the model and the
proofs, and two services meet only in the commit of one sweep. A clock of one
day lets the service lapse, `Grace` 0 lets the cleaner come on the same day;
days, quota and link are bounded by what one extension, one addition and one
rotation need.

**Resellers.** Cost and amount 1, two sales and one unit of credit: enough for
a sale that is not covered. `bar` is among the requests and `unbar`, which adds
only what an account never barred shows, is left to the proofs. One trouble is
one failed sale, whose order the sweep may deliver or lose; `MaxSold` bounds the
accounts the sweep loses as it bounds the sales. **Coupons.** `MaxUses` and `PerUser` 1 with two
customers, one of whom has two checkouts: both limits bite. **Broadcasts.**
`Cap` 2 with up to one earlier message, so two broadcasts reach it. **Quotes.**
The numbers are chosen so that the ceiling, the floor, the cap, the rounding and
the replacement of a campaign by a code each decide some total; a price and a
floor may also be zero, and a volume may be typed that is itself on sale.

Deadlock is checked where the system never ends: in both runs of `Services`, in
`reseller_credit` (whatever blocks, a session can go on or die) and in `quotes`.
The other runs say `CHECK_DEADLOCK FALSE`: a checkout that is decided and
refunded, a request made its number of times, an order delivered or a broadcast
sent has nothing left to do.

**Fairness.** `FairSpec` of `Wallet` assumes that a request that can take its
next step, or that is refused, does: handlers run straight through, and Postgres
serves advisory locks in order. Each request is made a bounded number of times,
so nobody overtakes for ever. `FairSpec` of `Provisioning` assumes that the
worker ticks when an order is stuck (`worker.py:271-286`, every tick drains),
that a session that has begun goes on, and that Postgres resolves deadlocks;
nobody has to pay or to ask again, and panels may fail as often as `MaxTrouble`
allows. A deadlock of the sweep with a caller kills either, but the sweep only
within that bound: else the same deadlock could kill it on every tick, which
takes a new caller each time. `FairSpec` of `Services` assumes that a session
goes on and that the worker comes back to every service that has lapsed and to
every renewal that is owed (strong fairness: other sessions of the one slot may
come in between, but each tick runs all its jobs). `SweepSpec` assumes of the
worker's slot only that it does not read a payment again and again without ever
committing: strong fairness of its `Read` for each payment and of its commit.
The worker asks about every payment at a gateway on every tick
(`gateway_verification.py:70-96`), one after the other, and what fails is retried
30 seconds later. Nothing is assumed of the other slots, of the customer or of
the provider.

## Met while modelling

The models contain these behaviours of the code; no property forbids them.

- Two refunds that both read the payment before either commits each find the
  full balance (`refund_service.py:132`; its lines 15-17 say the second finds
  nothing left). An approval that read the payment before a rejection committed
  settles the invoice of an order already released (`review_service.py:145`).
- A refund of an overpaid payment returns the surplus that the approval has
  already credited (`domain/payments/payment.py:267`). A free purchase is captured as
  one Toman (`checkout_service.py:215`). A top-up at the limit plus its
  identifying remainder can be paid and never approved.
- The two entries of an overpaid top-up carry one occurred_at and random ids, so
  the balance may leave the surplus out (`review_service.py:121`). The writers
  without the lock may overwrite each other's balance.
- Two renewals of one service delivered at once add one period
  (`panels/adapters/marzban.py:224`), and the row of a renewed service goes on
  naming the first plan and order, because `subscription_apply` assigns neither
  (`mappers/provisioning.py:146`). For the same reason `provision` of a delivered
  renewal raises, although its docstring calls it idempotent.
- A revoked row ("Terminal.", `subscription.py:423`) can be written back to
  another state by a session that read it before; its account stays deleted.
  A service that was EXPIRED when its traffic ran out stays EXPIRED when it is
  extended, and an operator's suspension of a service suspended for arrears
  keeps the reason, so the end of the arrears resumes it.
- A reseller's sale that fails with anything but a `PanelError` or a lack of
  capacity leaves its order PROVISIONING, which has no transition to CANCELLED
  (`order.py:45`, `sales.py:200`); the bot commits the refund, and the sweep
  takes the order up (`list_stuck`). `sales.py:197-198` says of a refunded sale
  that it is no longer owed and that the reseller must not have it for nothing.
  `SalesAreFunded` and `LedgerIsTrue` allow for exactly these (`GivenAway`).
- Two sales of one reseller may spend the same credit (`service.py:415`), and an
  operator's edit may write an old balance back; `adjust_credit`'s docstring says
  a deduction below zero raises, which `settle` does not.
- Two checkouts may use a code of one use (`order_service.py:207-208` says they
  must not), and a payment abandoned before its checkout has committed gives
  back a use that is counted afterwards.
- A code that is accepted but takes nothing off (it does not stack and the
  campaign is larger, `pricing.py:231-239`, `pricing.py:327`) is not counted
  (`checkout.py:561`) but is stored on the order (`checkout.py:460`), so
  abandoning the order decrements the counter (`sync_catalog.py:48-55`): the
  counter falls below the redemptions, and a code of one use can be used twice by
  checkouts that never overlap. `unbacked` counts these.
- A broadcast's notification put off for the night is never flushed: its inbox
  attempt is SENT, which `summarise_state` ranks first, and `due_deferred`
  selects by that summary (`engine.py:13-15` promises the morning). A send is one
  transaction, so a cancellation waits for its end. Nothing calls
  `schedule`, `edit` or `dispatch_due`.
- Previews leave `is_first_purchase` at False, so a first-purchase code is
  refused in the preview and accepted in the order. Where a reseller's price is
  below the package's floor, the order's total is above the invoice's. Lowering a
  price and its floor together is refused when the new price is below the old
  floor. Nothing calls `Campaign.consume`.
- Nothing calls `expire_stale`, so a payment window that has run out is never
  closed (`review_service.py:176` says a scheduler does it).

## Proofs

`SettlementProofs` proves, for any set of checkouts, receipts and request
slots, and from the four named assumptions on the constants alone:

- `TypeCorrect`: `Spec => []TypeOK`;
- `TopupsExact`, `ReceiptsAreUsedOnce`, and `RowsAgree`, `NothingForFree`
  (payment, invoice and order never disagree on a settlement);
- `PaidOrdersStayPaid`: the action property;
- `RefundsInTurn` and `DecisionInTurn`: a payment whose own requests take turns
  (`InTurn({p})`) keeps its refunds within its capture and its decision, however
  the requests on all the other payments overlap;
- when that is so of every payment (`OnePerPayment`, requests on different
  payments still overlapping as they like): `NoOverRefund`,
  `DecisionsAreFinal` and `SalesImplemented`, the refinement of `Sale`.

The argument is one inductive invariant, `IInv`. None of the invariants is
inductive by itself: a commit acts on a snapshot that may be arbitrarily old,
so what has to be shown is which facts a snapshot keeps although the rows have
moved on. `SnapshotsHold` says that there are three: an invoice it saw PAID is
collected (PAID or REFUNDED) for ever, a payment it may refund was collected,
and a receipt it carries belongs to its payment. `ReceiptBacked` says that the
receipt a payment shows is one whose digest that payment claimed; claims are
never given up, so two payments cannot show one receipt. The lemmas `SaveEffect`,
`CreditEffect`, `SettleEffect`, `BeginEffect`, `ApproveEffect`,
`UndecidedEffect` and `RefundEffect` say what the writes do to the rows; one
lemma per group of actions shows that it keeps `IInv`.

Taking turns adds `TurnInv(S)`, which `IInv` alone cannot give, for the payments
of a set S on which `InTurn(S)` holds: an open request's snapshot is the row
(`SnapshotCurrent`), and a payment's state says what everything else of its sale
is (`PhaseHolds`: nothing captured, refunded or counted before it is settled, an
order PENDING as long as it waits and PAID afterwards, refunds within the
capture). The set can be a single payment because a step writes the rows of one
payment only (`StartReach`, `CommitReach`), so requests on payments outside S
leave those of S alone (`TurnAside`) even when they work on stale copies of
their own. From `IInv` and `TurnInv(Payment)`, each step of
`Settlement` is one step of `Sale` or a stutter (`StepIsSale`): checking out
opens a sale, an approval or a provider's answer sells or abandons it together
with its order, a refund gives back part of what was kept, and reads and claims
of receipts are not seen from outside. The hypothesis is `[]OnePerPayment`, or
`[]InTurn({p})`, rather than an assumption on `Tx`, so the theorems speak of any
number of requests at once; `taking_turns` is the instance with one slot. A lock
on the one payment row (the load for update that `approve` and `refund` do not
make) would be enough to give the hypothesis.

`WalletProofs` proves, for any customers, requests, numbers of tries and slots,
from the four assumptions of `Wallet`:

- `TypeCorrect`, which includes that no balance_after is negative;
- `TransfersMakeNoMoney`, `ReasonsPayOnce`, `TransfersAddUp`: the invariants of
  `wallets_race`, and `LocksExclude` and `WaitingGoesUp` on which they rest;
- `NoTwoWaitForEachOther`, from `WaitingGoesUp`.

Here too the invariants need each other. `Balance` is a CHOOSE, so that it is a
number at all rests on `LastExists`: a ledger has a last entry. That survives an
insertion because readings of the clock are distinct (`StampsDiffer`,
`LastAfterInsert`, `LastAfterTwo`). `LocksHeld` says that a request holds all
its locks from its first read to its end; from it follows that the commit of
another request that locks the same wallet is impossible in between
(`ReadyHolds`), which gives `LocksExclude`. For transfers, `TransfersAreSerial`
adds that the ledger read is the ledger as it stands and that the stamp is later
than all of it, so a new entry goes last and leaves what comes before every
other entry alone: that is `TransfersAddUp`.

That a ledger sums to its balance needs the sum itself. `Replay` is a recursive
function on the subsets of the ledger, and an induction over a ledger cannot be
stated; its lemmas (from `ReplayIsSum` to `ReplayInsert`) take a
smallest counterexample instead and show that the sum exists for every finite
ledger, does not depend on the order of the entries and counts each of them
once. From them:

- `TransfersBalance`: a wallet that only transfers have moved sums to its
  balance, for any overlap and without a condition;
- `WalletInTurn`: any one wallet does, under two conditions on that wallet alone.
  No two open requests touch it (`ApartOn({u})`): the writers that take no lock,
  and the clock that is read before the lock is granted, break it otherwise. And
  none of its top-ups is overpaid (`NoneOverpaidOn({u})`): the two entries carry
  one occurred_at, so which of them is last is the ids' choice and the balance
  may be either's. The wallets it sends to or receives from may be in any
  disorder;
- `LedgersBalance`: all wallets do, when that is so of every one (`Apart`,
  `NoneOverpaid`);
- `AccountsImplemented`: the refinement of `Bank`, under the same conditions.

`TurnInv(S)` says of an open request that what it has read of the wallets of S is
their ledgers as they are and that its stamp is later than all of them, so its
entry becomes the last and its `after` the old sum plus its amount; a commit
that touches no wallet of S leaves their ledgers as they were.
`wallets_in_turn` is the instance with one slot.

`ProvisioningProofs` proves, for any finite sets of orders, any servers,
callers, limit and number of troubles, from the three assumptions of
`Provisioning`:

- `TypeCorrect`;
- `RowsAreReal`, `RowAndOrderTogether`, `NoSecondCallWithoutCause`: the invariants
  of `provisioning_race`, and `DeliveredWasMade`.

What the committed rows promise depends on what open sessions are about to
commit, so the invariant is about sessions: `Owns` (a session has written only
orders whose lock it holds), `Backed` (a row or an ACTIVE it has written stands
for an account that is on the panel), `Placed` (where it is in the routine
agrees with what it has written) and `Owed` (an order it has told a panel of is
one it delivers before its transaction ends). `Unspent` says of an order that is
not ACTIVE, and that no session has told a panel of, that every earlier call for
it is excused: that is why the next request may ask the panel once more. No step
takes an account away, so a row's account stays (`AccountsTold`, `RowsOK`).

`ServicesProofs`: `TypeCorrect`, `RevokedStaysOff`, `CreditedStaysOff` and
`AnswersAreAccepted`, for any services, kinds of session, slots, bounds and
numbers of troubles. The invariant follows the word REVOKED from the panel to
the row: whatever copy, change or flushed row says it belongs to an account that
is gone (`Safe`), because every method that revokes deletes on the panel first
and no method makes REVOKED of anything else (the `...Keeps` lemmas).

`GoneIsKnown`, `OffIsKnown` and `AccountIsTold` say that row and account tell
one story: gone is revoked, off is suspended, date, cap and link are the
panel's. They hold with no condition beyond what the properties themselves
exempt, a service on which two sessions overlapped (`mixed`) or whose
transaction was undone after the panel had acted (`undone`). While a session is
at work the committed row is behind the panel, so `StoryInv` is about what the
session holds (`Held`): until it has told the panel anything the row agrees; the
copy it works on is the row it would find, its own flushed one first; once the
panel has answered, what the aggregate's method will make of that copy agrees
with the account; and when it writes, each column it does not write is already
what it wants, which is what makes a partial UPDATE enough. `Form` adds that a
service is told of once per turn, and `Once` that a service not yet `mixed` is in
one pair of hands. `AgreeTold` and `AgreeLocal` compare the panel's effect with
the aggregate's method, operation by operation; one lemma per action then shows
that it keeps `StoryInv` (`StoryStep` says what a step of one session must show).

`ResellersProofs`: `TypeCorrect`, `LedgerIsAlwaysTrue` (whatever overlaps),
`BalanceFollowsLedger`, `SalesStayFunded`, `TopupsCreditOnce`,
`TrialsStayBounded`, `AccountsAreAlwaysSold`. `Whole` says how much of a session's
movement its ledger rows already show, `Lock` that one session at a time holds
the reseller's row; from them the balance a writer flushes is the ledger's sum
plus its own rows, as long as its copy was not overtaken. `Charged` is what was
sold less what was given away: a refund that leaves its order, and the sweep that
delivers it, move `uncancelled`, `left` and `sold` so that it stays the same
(`SweptIInv`), which is why the ledger and the funds follow it.

`CouponsProofs`: `TypeCorrect`, `CounterFollowsRedemptions`, `LimitIsKept`,
`CustomerLimitIsKept`, `PaidOrdersUseTheCode`, `AbandonedGiveBack`. `Stage` ties
what an order is to how far its checkout has come, `Release` what a release may
have found to what is still on record. `Taken` are the uses on record and those
decided but not yet visible: a commit moves one from the second to the first, a
quote adds one, and then either the counter it was checked against had room or the
checkout is `Late`, so every step keeps `Room` (`StillRoom` for those that add
nothing). `CustomerRoom` is the same for one customer, whatever becomes of the
counter: their limit is checked against the redemptions themselves.

`BroadcastsProofs`: `TypeCorrect`, `RecordsAreComplete`, `NobodyIsToldTwice`,
`CancelledIsSilent`, `NothingIsEverDue`. From `Start` to the commit a broadcast's
row is in the hands of one send (`Lock`), so whatever its phones have shown and
the table does not yet name is what that send has just told (`Hand`).

`CountersAreTrue` says what `complete()` writes: at every moment of a walk those
told, those suppressed and those still to come are the whole audience
(`Walking`), and a broadcast that no old copy has overtaken was not counted
before (`Unwritten`). `CapIsKept` holds from any history in which nobody is over
the cap already (`WithinCap`: what campaigns and earlier days have sent is given
at the start, and a history over the cap refutes the property before the first
step). As long as no two walks are underway, the broadcasts a customer is on
record for together with the one being told to him stay within what that history
has left (`Sparing`); two walks at once do not see each other's records, and
there the property promises nothing.

`QuotesProofs`: `TypeCorrect`, `CodesNeverCost`, `GuardsHold`, `InvoicesAddUp`,
`VolumesStayInOrder`, for all prices, floors, terms, policies and volumes. Most of
it is arithmetic: shares and roundings are monotonic, a volume's price never
passes the price at its upper package before the guard applies.

Every safety invariant, action property and refinement the runs check is a
theorem. Only model-checked are the five liveness properties
(`GatewayAnswerIsActedOn`, `RequestsEnd`, `PaidIsServed`, `LapsedIsClosed`,
`RenewalIsServed`), whose proofs would need ENABLED. Some theorems are weaker
than a reader might expect, each for a behaviour of the code: with overlapping
requests on one payment `RefundWithinCapture`, `DecisionIsFinal` and
`SalesAreAtomic` are false, with overlapping requests on one wallet or an
overpaid top-up so are `IntegrityHolds` and `KeepsAccount`, and with a history
over the cap `CapHolds` is.

## Not modelled

Sessions and logins (the rotation of refresh tokens has a protocol of its own)
and support tickets are the next candidates. Automatic renewal places and pays
an order by the paths above. Free trials of our own customers, claiming,
reminders, applications of resellers and the choice of a server are queries and
single rows. Cashback and referral accruals come after a quote's total. Panels
other than Marzban's adapter are seen only through what an account is told.
Payment, wallet and provisioning are modules of their own: their composition is
not checked, so nothing is said of a refund while the order is being delivered.

Catalogue CRUD, settings, analytics, rendering, the front ends, cryptography,
HTTP filters and backups hold no protocol a state machine would say more about
than the code does. With them most of the source's lines are outside the map.
