# The subnet rental canister in TLA+

A verification of the subnet rental canister (SRC): the canister that takes ICP
from users who want to rent an Internet Computer subnet, turns their accepted
proposals into *rental requests*, locks a part of the cost every month by
converting it into cycles, turns a request into a *rental agreement* when the
subnet exists, refunds what is not locked, and burns an agreement's cycles evenly
until the time it is paid for.

File names below are relative to `src/subnet_rental_canister/src/` of the
repository.

## 1. Inventory

| Component | State | Operations | Correct when |
|---|---|---|---|
| Caller guards (`canister_state.rs:63`) | `LOCKS`, a set of (principal, tag) | `CallerGuard::new`, `drop` | every guard in the set belongs to one open call and is dropped on every way out, a trap included |
| Rental proposals (`canister.rs:430`) | `RENTAL_REQUESTS` | `execute_rental_request_proposal` | a request appears only for a user without request or agreement, only when the ICP covers it |
| Agreement creation (`canister.rs:603`) | `RENTAL_REQUESTS`, `RENTAL_AGREEMENTS` | `execute_create_rental_agreement` | the request becomes one agreement for one subnet nobody rents; all cycles carried over; the CMC authorizes the tenant |
| Refund (`canister.rs:678`) | `RENTAL_REQUESTS` | `refund` | the user gets the rest, the request goes, the locked cycles are burned |
| Locking timer (`canister.rs:171`) | `RENTAL_REQUESTS` | `locking`, every hour | one part a month, ten in all, never for a request that is gone |
| Top-up (`canister.rs:787`) | `RENTAL_AGREEMENTS` | `top_up_subnet` | totals and deadline grow by what was converted, concurrent top-ups are not lost |
| Subnet admins (`canister.rs:913`) | none of its own | `update_subnet_admins` | only the tenant's call reaches the registry, and the tenant stays the tenant meanwhile |
| Event history (`canister_state.rs:164`) | `HISTORY`, `EVENT_COUNTERS` | `persist_event`, `get_history_page` | events are numbered without gaps, pages neither skip nor repeat, the newest event tells the state |
| Cycle burning and status (`canister.rs:97`, `317`) | `RENTAL_AGREEMENTS` | `burn_cycles`, every minute; `rental_agreement_status` | never burns more than was created, never runs dry while the status says covered; all of it is burned after the deadline |
| Conditions, upgrade, migration (`canister.rs:36`, `migration.rs`) | `RENTAL_CONDITIONS` | `init`, `post_upgrade`, `app13ch_to_app7ch` | the migration changes an agreement once, however many upgrades follow |
| Exchange rate cache (`external_calls.rs:94`) | `RATES`, the "XRC" guard | `get_todays_price`, `get_exchange_rate_icp_per_xdr_at_time` | a cached rate is the one of its day; concurrent fetches are harmless; a failing XRC blocks nobody for good |
| Price arithmetic (`canister.rs:392`, `735`, `migration.rs:110`) | none | `calculate_subnet_price`, `subnet_top_up_estimate`, `reprice` | prices fit u64, the estimate for a price gives back the period |
| Queries | none | `list_*`, `get_payment_account` | projections of the maps |

**How they interact.** Governance calls the two `execute_*` methods, users call
`refund`, `top_up_subnet` and `update_subnet_admins`, two interval timers run
`locking` and `burn_cycles`. Every handler that does something awaits other
canisters: the exchange rate canister (XRC) for a rate, the ledger for a balance
or a transfer, the cycles minting canister (CMC) to mint cycles for a transfer or
to authorize a user on a subnet, the registry to change a subnet's admins. The
canister runs one message at a time: between two awaits a handler is atomic, at
an await everything else may run. What keeps handlers apart are the guards:

| Handler | Guards it holds until it ends |
|---|---|
| rental proposal | (user, "request") |
| creation | (user, "request"), (subnet, "nns") |
| refund | (anonymous, "refund"), (caller, "request") |
| locking | (user, "request"), one user after the other |
| top-up, admins, burning | (subnet, "agreement") |

**What is hard.** State read before an await and used after it; the locking
loop's list of requests, which stays the same over many awaits; handlers with
*different* guards that work on the same subaccount (a refund and a top-up of one
tenant) or the same rental condition (two proposals); callees that return an
error or reject, in the second half of a conversion; traps, which undo the
current message and nothing before it; a fee taken from amounts that were checked
without it; a deadline, a price and a number of days that are each rounded at
another place; pages of a log that grows while it is read; upgrades, which keep
stable memory and rebuild the heap. `PROJECT.json` lists each hazard at its line with the property that
watches it.

## 2. Modules

| Module | Content |
|---|---|
| `RentalLifecycle` | abstract specification: users request, cancel, rent; subnets get a tenant for good |
| `SubnetRental` | the guards, the handlers, the locking loop and the callees |
| `SubnetRentalProperties` | type invariant, safety, refinement mapping, liveness |
| `SubnetRentalAudit` | the canister with history variables that follow ICP and cycles, and the properties about them |
| `MCSubnetRental`, `MCSubnetRentalAudit` | values for the constants; the `.cfg` files choose among them |
| `SubnetRentalProofs` | the inductive invariant, the theorems on it, and the proof that `SubnetRental` implements `RentalLifecycle` |
| `SubnetRentalRecords` | theorems: what the history and the CMC's list tell of the rental state |
| `SubnetRentalLocking` | theorems: one request per condition, and the pace of the records |
| `SubnetRentalAccounting` | theorems about the audit: lockings on current requests, where the cycles and the ICP are, and the pace of the conversions |
| `Sums` | lemmas about the sum of a function over a finite set |
| `Deadlines` | the arithmetic of deadlines, burning and days |
| `PrepaidAccount` | abstract specification: an account per subnet, paid into and drawn from |
| `Billing` | agreements that are burned, topped up and migrated; extends `Deadlines` |
| `BillingProperties`, `MCBilling`, `BillingProofs` | its properties, its instance, its theorems |
| `Pricing` | the arithmetic of prices and estimates |
| `RateBook` | abstract specification: the rate of a day is entered once |
| `RateCache` | the cache, the XRC guard and the three callers; extends `Pricing` |
| `RateCacheProperties`, `MCRateCache`, `RateCacheProofs` | its properties, its instance, its theorems |
| `AppendOnlyLog` | abstract specification: one growing sequence per key |
| `History` | counters, stored events, upgrades, and clients that page back |
| `HistoryProperties`, `MCHistory`, `HistoryProofs` | its properties, its instance, its theorems |

The four systems meet where one hands a value to the other, and each is modelled
where its own hazards are: `SubnetRental` takes prices from a set, and says which
handlers run and which guards they hold; `RateCache` says where a price comes
from; `Billing` takes up an agreement when it is made and knows a top-up only by
its guard, the copy it has read, and its end; `History` takes any event from any
handler. Composed in one state machine their states would multiply without a
new interleaving: a message of one writes no variable that a handler of another
reads after an await, except under the "agreement" guard, which `Billing` has.

### SubnetRental and the code

| Variable | Code |
|---|---|
| `locks` | `LOCKS` |
| `requests`, `agreements` | `RENTAL_REQUESTS`, `RENTAL_AGREEMENTS` |
| `newest` | the kind of the last event in `HISTORY` under each principal |
| `calls` | the suspended `async fn`s: for each open call its handler, the callee it waits for, the reply, and the locals that live across the await |
| `now` | `ic_cdk::api::time()`, in days |
| `sub`, `deposited` | ledger: the balance of each user's subaccount, and all ever paid into it |
| `cycles` | the cycles of the SRC, by the user whose ICP they were minted from |
| `whitelist` | CMC: the authorized subnet of each user |

An await takes three steps. The handler's message ends with the call (`ExecStart`,
`NotifyTopUp`, ...); the callee acts and replies (`LedgerTransfers`, `CmcMints`,
`CalleeFails`, ...); the handler goes on (`ExecFunded`, `ExecDone`, ...). The last
step does all that the code does until its next await or its end: events, map
updates and the drop of the guards are one action. So the reply may be on its way
while other handlers run, which is where interleavings hurt.

`convert_icp_to_cycles` is a transfer followed by a notification and is shared by
four handlers (`NotifyTopUp`, `ConversionFailed`, `Asked`, `Sent`). `Asked` keeps
the code's amounts: a tenth of the cost for a locking, the cost less what is
locked for a creation, the balance less a fee for a top-up; `Sent` then takes the
fee off once more, saturating at zero as `Tokens` does, and the ledger debits
`Sent` and the fee.

`NextInLoop` is the `for` loop of `locking`: users in the order of the stable map
(hence users are numbers), those skipped that are locked in full, were locked
within the period, or whose guard is taken, and always judged by the list and the
clock read when the loop began. A request that has gone meanwhile makes the
`unwrap` of line 254 panic: `LockPanicked` ends the loop, and the events of that
message are undone while the conversion is not. A newer request is overwritten by
the old copy (`LockDone`).

A rejected call makes every handler but `update_subnet_admins` trap (`expect`):
`Trap` ends the call, drops its guards and undoes nothing that was done in earlier
messages.

Abstractions, and what they leave out:

* Amounts are small numbers with the code's arithmetic on them (integer division
  by the number of parts, saturating subtraction). The CMC mints one cycle per e8:
  no property speaks of the rate. The price is any element of `Prices`; its
  calculation is in `Pricing`, and an error of it ends the handler exactly as a
  missing rate does.
* A failing callee fails without an effect of its own. A transfer whose
  notification fails leaves the ICP at the CMC, and nothing in the canister
  remembers it: the model has the same.
* A call that is turned away with no effect on any state is left out: a guard
  that is taken, a missing request or agreement, a caller that is not governance
  or not the tenant. `ExecRefused` is in, as it writes an event.
* `RentalConditions.subnet_id` is `None` in every condition the code installs, so
  the check at `canister.rs:494` never fails and is not modelled.
* `locks` and the open calls are lost by an upgrade. The canister is stopped for
  an upgrade, and a canister with open calls does not stop, so there is none to
  lose. The stable maps survive.
* `burn_cycles` touches only `total_cycles_burned`, and the deadline is only
  `paid_until_nanos`: both are in `Billing`.

### SubnetRentalAudit and the code

The canister does not record everything that it does with its users' ICP. The audit
adds four history variables, which constrain no step (`AuditNext` is `Next` with
`Noted`), so that the properties can name what the records miss and say that
nothing else is missed:

| Variable | What happened |
|---|---|
| `outdated` | users whom a locking loop has taken up with an entry of its list that was no longer the stored request (`canister.rs:173`, `:203`) |
| `orphaned` | users whose creation the CMC's list rejected after its conversion (`canister.rs:661`) |
| `short` | users with a request from which a locking or a creation took ICP that is not in the record: the notification or the creation failed (`external_calls.rs:155`); a new request is not short |
| `converted` | how many parts the CMC has minted for each user's request, by the proposal and the lockings |

A loop takes a user up in the message in which it takes the guard and asks for the
transfer, and what is noted is seen in that message. A locking that starts from a
current entry is not noted, whatever happens later: that nothing bad can happen to
it later is what `LocksCurrent` says.

### Billing and the code

| Variable | Code |
|---|---|
| `agreements` | `RENTAL_AGREEMENTS`: condition, `paid_until_nanos`, cycles created and burned |
| `calls` | open `top_up_subnet` and `update_subnet_admins`, with the agreement a top-up has read; the guard (subnet, "agreement") is the call that holds it |
| `switches` | the number of `RentalConditionSwitched` events under each subnet |
| `now` | `ic_cdk::api::time()`, in nanoseconds |

`Burn` is one run of `burn_cycles`. The function has no await, so a run over all
agreements is one message: agreements whose guard is taken or that have nothing
left are skipped, one past due is burned to the end, the others get the share of
an interval (`BurnedPerRun`). `cycles_burn` burns no more than the canister has;
the canister's cycles are one pool, so `short[s]` says what is missing for each
subnet. The division by whole seconds (line 153) is a guard of the action: in the
last second before the deadline of a burnable agreement the run traps, and as a
trap undoes the message, nobody's cycles are burned until that second is over.
(The comment on line 151 says that the time is positive, which is true of the
nanoseconds and not of the seconds it is divided by.)

`ToppedUp` takes totals and deadline from the agreement read before the awaits,
as lines 855 and 871 do, and the rest from the stored one, as the closure in line
879 does. `Upgrade` is `post_upgrade` with the migration. The canister is stopped
then, so it has no open call and no guard (`Stopped`). The conditions' costs are
constants here; that an upgrade may change them is in `History`.

Left out: the totals of ICP (in `SubnetRental`), and calls that return an error
without an effect. A creation reads the clock before its last await, so that the
agreement may start with a time that has passed: `converted`.

### RateCache, Pricing and the code

| Variable | Code |
|---|---|
| `rates` | `RATES` |
| `locked` | (anonymous, "XRC") is in `LOCKS` |
| `calls` | the open calls to the XRC: caller, the midnight asked for, the reply |
| `answered`, `fetched`, `quoted` | observations: what the XRC said of each midnight, what `get_todays_price` paid it for, which prices were told or charged for a day |
| `now` | `ic_cdk::api::time()`, in seconds |

All three callers look into the cache (`Hit`) and call the XRC on a miss
(`Miss`); only `get_todays_price` takes the guard (`XrcGuardFree`), so that an
estimate and a proposal may ask for the same midnight at the same time as it. An
answer is cached under the midnight computed before the await (`CacheKey`). A
proposal asks for the midnight before its creation. `Pricing` keeps the code's
order of divisions, its `checked_` operations (`Computable`), and the cut from
u128 to u64 (`SubnetPrice`), which matters for absurdly low rates only. Fees that
exceed an estimate's ICP saturate as `Tokens` do.

### History and the code

| Variable | Code |
|---|---|
| `counters`, `history` | `EVENT_COUNTERS`, `HISTORY` (stable memory) |
| `conditions` | `RENTAL_CONDITIONS` (heap), the daily cost of each |
| `readers` | what a client has put together from the pages it got, where it will continue, and how many events there were when it began |
| `now` | `ic_cdk::api::time()` |

`Persisted` is `persist_event`: draw a number, insert. The insert could overwrite
an entry, and that it never does is checked, not built in. `Upgrade` writes the
conditions of its version of the code with an event each under the key `None`.
`StableMemory` is what survives it. A client asks for the newest page and then
for the page before the continuation it got, until that is zero; queries run
between any two messages.

## 3. Properties and runs

| Run | Instance | Checked |
|---|---|---|
| `guards` | 2 users, 1 subnet, 2 conditions, 2 open calls, two payments each, nobody fails | `ChecksStillHold`, `UserExclusive`, `OneRequestPerCondition`, `LifecycleSpec` |
| `faults` | the audit with 2 users, 2 subnets, 3 open calls, one payment a user, every callee may fail | `TypeOK`, `LocksOwned`, `HistoryTellsState`, `WhitelistMatches`, `EveryCycleAccounted`, `RequestCovered` |
| `accounting` | the audit with 2 users, 1 subnet, 2 conditions, 2 open calls, one payment of the first and three of the second user, notifications may fail | `EveryCycleAccounted`, `LocksCurrent`, `RequestCovered`, `ConversionsFunded`, `LockingPaced` |
| `liveness` | 2 users, 1 subnet, 2 open calls, transfers and whitelistings may fail, fair replies | `CallsReturn`, `GuardsFreed` |
| `billing` | 2 agreements, one topped up and migrated, one left alone, up to the last time there is | `TypeOK`, `CoveredMeansFunded`, `SwitchedOnce`, `DeadlineKept`, `TopUpDaysHonest`, `AccountSpec`, `PastDueDrained` |
| `rates` | 2 open calls, 3 days, 4 rates, of which one is zero and one gives a price beyond u64 | `TypeOK`, `CacheTruthful`, `PriceFetchedOnce`, `QuotesAgree`, `RoundTrip`, `RateBookSpec`, `XrcGuardFreed` |
| `history` | 1 subnet and the conditions, 2 versions, up to 6 events each, 1 client, pages of 2 | `TypeOK`, `Numbered`, `Chronological`, `ConditionsTold`, `PagesContiguous`, `LogSpec`, `ReaderFinishes` |
| `stale_locking`, `fully_locked`, `refund_locked`, `topup_twice`, `migration` | small instances without faults | one sentence of the source each, which the run refutes |

What the passing runs show:

* `ChecksStillHold`: every "unwrap safety" and "checked above" comment is true.
  It needs the "nns" guard for the subnet and the "request" guard for the user.
* `UserExclusive`, `OneRequestPerCondition`: one rental per user, one request per
  condition. The second rests on governance (comment at `canister.rs:431`), the
  constant `GovernanceSerializes`: the guard is per user, so two proposals for two
  users and one condition would both pass the check if governance ran them
  together. The first does not depend on it. The second also rests on there being
  two conditions, see `ConditionsApart` in section 4.
* `LifecycleSpec`: the canister implements `RentalLifecycle` under the mapping
  `Phases`, `Tenants`. Even a locking from an outdated list never revives a
  cancelled request.
* `LocksOwned`: the lock set equals the union of the guards of the open calls, and
  no guard has two owners.
* `HistoryTellsState`: a reader of the history who looks at the newest event of a
  user or a subnet is not misled, though events of one handler are written in
  several messages and a trap undoes some of them.
* `WhitelistMatches`: the CMC and the agreements agree, but for the moment between
  the CMC's reply and the end of the creation.
* `LocksCurrent`: from the moment a loop takes a user up with a current entry until
  that locking ends, days or failures later, the stored request is the loop's copy:
  no refund, creation, proposal or other loop gets at it. It needs two users to be
  of interest, as the first user of a loop is taken up in the message that reads the
  list.
* `LockingPaced`: the CMC mints at most one part a period for a request, the first at
  the proposal, and never more than all parts, although loops overlap, list requests
  at different times and retry what failed. It counts what is minted, not what the
  request says.
* `EveryCycleAccounted`: all cycles minted for a user and not burned are in that
  user's request or agreement or in a call about to record them. A failed
  notification books nothing, and what a retry mints is booked once.
* `RequestCovered`: as long as the request stands, the subaccount holds the part of
  the cost that is not locked, or a conversion for it is under way. A refund that
  has been paid out is about to end the request. A proposal or a top-up that fails
  halfway takes nothing from what a request relies on.
* `ConversionsFunded`: a proposal checks the balance once, and up to ten months of
  lockings and a creation rely on it; none that sends more than the fee is refused
  by the ledger for lack of ICP. (One that sends nothing is: `fully_locked`.)
* `CallsReturn`, `GuardsFreed`: no error or reject leaves a call open or a guard
  taken for good.
* `CoveredMeansFunded`: what the status query says of days and of cycles fits
  together. The timer has no fixed rhythm in the model; it may fire at any time and
  any number of times. A run burns a share of what is left (`remaining / seconds *
  60`), so it comes close to empty only when the deadline is an interval away. The
  query may show days without cycles in no case, cycles without days at the end.
* `DeadlineKept`, `TopUpDaysHonest`, `AccountSpec`: a top-up works on a copy that
  is awaits old, and is right because of the guard alone; where the guard is
  ignored, a deadline moves back and a payment is forgotten. A burn during a
  top-up would do no harm, as it changes a field the top-up does not write.
* `SwitchedOnce`: whether or not the target has an agreement, and whichever
  condition it is on, upgrades switch it at most once.
* `PastDueDrained`: cycles that are left after the deadline, because the timer did
  not run or the guard was taken, or because a top-up did not reach the present,
  are burned. Neither the trap in the last second nor the cap at `u64::MAX` stops
  it.
* `CacheTruthful`, `RateBookSpec`, `PriceFetchedOnce`: the guard saves cycles, and
  the key computed before the await keeps the cache right. Two overlapping fetches
  write the same rate provided the XRC repeats itself; if it does not, the later
  answer overwrites a rate already told (`RateBookSpec` and `QuotesAgree` need
  `XrcRepeats`, `CacheTruthful` and `PriceFetchedOnce` do not). The comment on line
  347 counts calls of `get_todays_price`; estimates and proposals may pay the XRC
  besides.
* `QuotesAgree`: the price a user was told on a day is the one a proposal created
  on that day is charged, on whichever day it is executed.
* `RoundTrip`: price and estimate invert each other in whole days
  (`test_top_up_estimate_round_trip_consistency`), though both round and the
  estimate takes two fees off.
* `XrcGuardFreed`: errors and rejects of the XRC give the guard back.
* `Numbered`, `Chronological`, `LogSpec`: events are never renumbered, reordered or
  overwritten, whatever is upgraded. They hold because counters and events are both
  stable; with the counters on the heap all three fail.
* `ConditionsTold`: the newest change of a condition in the history is in force.
* `PagesContiguous`, `ReaderFinishes`: a client that follows the continuations gets
  every event up to its first look, once and in order, and comes to the end.

**Where the accounting stops.** The last five properties except the users whom
the audit notes, because for these the code really loses track, in three ways:

* A loop that takes a user up with an outdated entry (`outdated`) converts for a
  request that is gone, or writes an old one back: see the next section.
  `LocksCurrent`, `LockingPaced` and the accounting except such a user from then on.
* A rejected whitelisting (`orphaned`) takes the minted cycles out of the records,
  and a retry of the creation converts a second time. `EveryCycleAccounted` excepts
  the user; `LocksOwned` and `HistoryTellsState` do not see these cycles.
* A transfer whose notification fails, or whose creation is rejected (`short`),
  leaves a request with less ICP than it asks for. `RequestCovered` and
  `ConversionsFunded` except the user until that request is gone.

Each exception is needed. Without it TLC finds a counterexample in the instance of
`accounting`, or of `faults` for `orphaned`; for `outdated` in `RequestCovered` it takes `LOCK_PARTS` = 3 and a price of 6,
where a part that was converted and not recorded is missed by the next one. Nothing
else is excepted: all users, loops, payments, refunds and top-ups, and failing
callees, are in. A loop that re-read the request after it takes the guard, as
`burn_cycles` does, would leave `outdated` empty.

### What the code does otherwise than it says

* **Locking from an outdated list** (`stale_locking`). `locking` reads all
  requests once and awaits a conversion for each. While it waits for one user,
  another may be refunded. The loop then converts that user's ICP for a request
  that is gone and panics at line 254, after the cycles were minted; or, if the
  user has a new request by then, replaces it by the old one. Line 663 says that
  removing the request stops the locking. Two loops that overlap can in the same way
  convert two parts for one request in one period and record one: the first waits
  for user 1, the second locks user 2, and the first then locks user 2 by its own
  older copy, against the comment on `last_locking_time_nanos` (`lib.rs:104`).
  `LockingPaced` without its exception shows it in the instance of `accounting`.
  `burn_cycles` re-reads its agreement after taking the guard, for just this reason.
* **A fully locked request cannot be created** (`fully_locked`). After the last
  part nothing is left to convert, but the conversion of zero still asks the
  ledger for a fee from an empty subaccount. The user must pay a fee more than the
  price for the agreement to come about.
* **Refund of a fully locked request** (`refund_locked`). `refund` returns early
  when the subaccount holds less than a fee, so the request stays, against its doc
  comment, and its condition stays occupied.
* **A migration that takes time away** (`migration`). The first deadline is a fixed
  period from the creation, whatever number of cycles the ICP bought by then. The
  migration counts from the cycles. If ICP lost almost half of its value between
  the proposal and the conversions, so that less than 440/820 of the period's cost
  was created, the deadline moves towards the present, against line 43 of
  `migration.rs` and a message of the integration test. Otherwise the switch does
  buy time.
* **A fee counted twice** (`topup_twice`). A top-up records the whole balance as
  paid and leaves a fee of it in the subaccount, to be recorded again by the next.

### Bounds

* Two users are the least with which guards of different users interleave; two
  subnets and two conditions, with which one may be confused with another. Every
  guard is per user or per subnet, and no handler works on two users (but the
  loop, one after the other) or two subnets.
* Three open calls let two handlers race while a third holds the guard that one
  of them wants. Two locking runs overlap at most (`MaxLockingRuns`).
* A request is locked in two parts (`LOCK_PARTS` = 2 for the code's 10), one a day
  (`LOCK_PERIOD_DAYS` = 1 for 30): the first at the proposal, the second by the
  timer, so that one locking makes it full, and `MaxDay` = 1 is enough. The theorems
  are for any parts, periods and prices, divisible or not.
* The fee is 1, so that a part (2) sends something after the fee and the rest of
  nothing does not. A payment is the price, 4, and `MaxDeposited` bounds how many
  there are: one request (`OnePayment`), or a second one after a refund or a top-up
  (`TwoPayments`). In `accounting` the second user has three (`FirstPaysOnce`), and
  so can rent and then pay in again while a top-up is open: without the agreement
  guard the two top-ups would both convert and one of them would be forgotten. It is
  the second user of a loop whose entry becomes outdated; the first is taken up in
  the message that reads the list.
* Which callees fail is chosen to keep the state space small: in `accounting` the
  notifications, in `faults` all of them, but with one payment a user. The theorems have
  no such restriction.
* `accounting` uses a view without the events and the CMC's list: no step reads them,
  and no property of the run does. `faults` has them.
* Subnets, conditions and tasks are symmetric. Users are not: the loop visits them
  in order. The liveness run uses no symmetry.
* `billing`: a second has two nanoseconds, so that the last second before a
  deadline is two steps of the clock; a day has three seconds, an interval two. The
  daily costs are 7 and 4, which leave a remainder when divided into seconds. The
  target starts with 4 cycles for a period of 6 nanoseconds and may top up by 1 or
  7, which is less than a day and more than two; `MaxCycles` = 12 allows an
  overlapping pair of them. `MAX_U64` = `MaxTime` = 13 lets the clock run through
  every deadline and to the cap. It must be the same number: were the clock to stop
  in the last second before a deadline, the timer would trap for ever. One cycle
  may be missing when burning (`MaxShort`). `migration` is the same instance with 2
  cycles to start with.
* `rates`: a day of two seconds, three days, so that an answer may be a day late
  and a proposal two days old. Widths are shrunk so that one of the rates gives a
  price beyond `MAX_U64` = 2000. Two calls are enough for one with and one without the
  guard, or two without.
* `history`: six events are three pages of two, or, under the key of the
  conditions, init and two upgrades. `PAGE_SIZE` stands for 20.
* The bounds on days, deposits and locking runs stop what the environment does,
  not the canister; calls may still arrive, so no state is a deadlock, and the
  runs check that.

### Fairness

`FairSpec` asks for weak fairness of `Answer(t)` and `Resume(t)` for every open
call, and of nothing else. All calls are `unbounded_wait`: the system guarantees a
reply or a reject. And a message that has been received is executed. No fairness is
asked of arrivals, of the clock or of the timers, and a callee may fail every time.
The loop of a locking run ends as its list is finite.

`Billing` asks that time goes on and that the burn timer fires again and again
while it can run and the canister has the cycles it is to burn; calls may keep
the guard for ever, which `PastDueDrained` excludes by its premise. The timer is
not asked to run in the last second, when it traps. `RateCache` asks for replies
and continuations as above. `History` asks that a client that has begun to read
goes on, as long as there is a page before; writers and upgrades are free.

## 4. Theorems

All for every value of the constants, with the assumptions stated beside them in
the modules that declare them. For `SubnetRental`: users are numbers, the
anonymous principal is none of them, no user is a subnet's principal, a positive fee,
a positive number of parts and period, an absent entry that is no entry, and finitely
many subnets and open calls, over which cycles are added up. For `Billing`: positive units of
time, a timer interval shorter than a day, conditions that cost at least a cycle
per second, a first grant that is not empty, and no creation in the last period
that u64 can tell. For `RateCache`: rates are pairs of naturals, zero included, and absent
entries, failures, rates and calls differ. For `History`: a positive page size. Nothing else is
assumed of the number of users, subnets, open calls, keys or clients, nor of the
bounds. Who fails and whether governance serialises proposals is open but where the
table says otherwise: a theorem that needs more has it as a hypothesis of its own.

| Theorem | States |
|---|---|
| `Invariant` | `Spec => []IInv` |
| `TypeCorrect` | `TypeOK` |
| `GuardsOwned` | `LocksOwned` |
| `UnwrapSafety` | `ChecksStillHold` |
| `OneRentalPerUser` | `UserExclusive` |
| `Refinement` | `LifecycleSpec` |
| `WhitelistAgrees`, `HistoryAgrees` | `WhitelistMatches`, `HistoryTellsState` |
| `ConditionsApart` | `OneRequestPerCondition`, assuming `GovernanceSerializes` and `TwoConditions` |
| `LocksAreCurrent` | `LocksCurrent` |
| `PaceKept` | `LockingPaced` |
| `CyclesAccounted` | `EveryCycleAccounted` |
| `RequestsCovered`, `FundsThere` | `RequestCovered`, `ConversionsFunded`, assuming that a part of every price pays the fee |
| `BillingInvariant`, `RateInvariant`, `HistoryInvariant` | `Spec => []IInv` of each module |
| `BillingTypeCorrect`, `RateTypeCorrect`, `HistoryTypeCorrect` | `TypeOK` of each module |
| `CoveredIsFunded` | `CoveredMeansFunded` |
| `MigratedOnce` | `SwitchedOnce` |
| `DeadlinesKept` | `DeadlineKept` |
| `TopUpsHonest` | `TopUpDaysHonest` |
| `AccountRefinement` | `AccountSpec` |
| `CacheIsTruthful` | `CacheTruthful` |
| `PricesFetchedOnce` | `PriceFetchedOnce` |
| `QuotesAlwaysAgree` | `QuotesAgree` |
| `CacheIsBook` | `RateBookSpec`, assuming `XrcRepeats` |
| `EstimatesRoundTrip` | `RoundTrip`, assuming `XrcRepeats` and a bound on the rates |
| `EventsNumbered`, `EventsChronological`, `ConditionsAreTold` | `Numbered`, `Chronological`, `ConditionsTold` |
| `PagesAreContiguous` | `PagesContiguous` |
| `HistoryIsLog` | `LogSpec` |

In `SubnetRental`, `IInv` is the conjunction of `TypeOK`, `LocksOwned`, `ChecksStillHold` and
`UserExclusive`; none of the last three is inductive alone. That a check still
holds when a handler goes on follows from its guard: any step of another call that
could falsify it (a request made, removed or replaced; an agreement made) is a
step of a call that holds the same guard, and by `LocksOwned` there is none. That
in turn needs the types, since which guards a call holds depends on its locals. And
`UserExclusive` is kept by a creation because the creating handler's request is
still there (`ChecksStillHold`), so that the user rents nothing yet. The proof
that a step keeps `LocksOwned` is done once for the three ways a call can change
its guards (enter, go on, return) and once for the locking loop, which exchanges
one guard for another; then there is one lemma per action.

`Refinement` adds that an open creation is a `Rent`, a finished proposal a
`Request`, a refund that finds a request a `Cancel`, and that nothing else changes
a phase or a tenant. A locking may replace a request by an outdated copy, but only
where there is a request.

`WhitelistAgrees` needs `AuthorizedKept`, what the CMC has answered to a creation is
still on its list when the agreement is stored. The answer itself disturbs no
tenant: the user of the creation has a request, hence by `UserExclusive` no
agreement, and by `LocksOwned` no other creation. `HistoryAgrees` needs
`ConversionTold`: a creation that waits for the CMC has made its `TransferSuccess`
the user's newest event, which is why the request may go in a message that records
an event under the subnet only. Every other handler that removes or makes a request
records it under the user in the same message.

`ConditionsApart` follows the two kinds of step that write a request. A proposal has
the conditions to itself since its check, because no other proposal is open
(`ExecFresh`). A locking writes the conditions of its list; `LoopFresh` says that
they are those of the request there is. When the loop starts they are the same.
When it goes on to the second user, the first still has a request, whose guard it
held, so that of two conditions the second user can only have the listed ones; and
there is no third. With three conditions and three users the statement is false of
the model: the second user cancels and asks for the third condition, a third user
asks for the freed one, and the loop then writes back the old request. The code has
two values of `RentalConditionId`; one who adds a third has to re-read the request
in the loop.

The theorems on the audit are about `AuditSpec`, which implements `Spec`
(`AuditBehaves`), so that the invariants above hold of it. `LocksAreCurrent` is
inductive together with `IInv`: a step that replaces or removes the request of a
locking's user belongs to a call that holds the same guard, and a loop that takes up
a user notes one whose entry is outdated.

`PaceKept` has two halves. The records are paced whether or not a copy is current
(`PInv`): `Paced` says of one request by itself that it has locked whole parts, no
more than fit between its creation and its last locking, and holds for the requests
stored and for all those in the lists of open loops; a locking computed from any of
them that is due is paced again. The conversions are those recorded, and one more
while a locking goes from the CMC's answer to the record (`MintedUnrecorded`): by the
guard there is only one such locking of a user (`OneLocking`), and by `LocksCurrent`
the record it will write counts on from the stored one (`PartRecorded`). A conversion
of which the CMC fails to mint is none, so a retry is not ahead of the pace.

The accounting needs sums: a user's cycles are those of the request, of that user's
agreement among all, and of the open calls among all. The library has no sum to cite,
and its induction theorems are out of the prover's reach, so `Sums` proves what is
needed from the definition of `SumFunctionOnSet` alone. Each induction over the
subsets of a finite set is done by a smallest counterexample: the set of subsets for
which a claim fails would have a member none of whose parts is in it
(`MinimalSubset`, from the library's fact that the strict subsets of a finite set are
well-founded). The lemma the rest is built on is `SumUpdate`: a function changed at one place has its
sum changed by as much. A step belongs to one call and writes one agreement, so the
account of a user changes by what that call, that agreement and the request change by
(`AccountChange`); what remains is to say for each action which amount goes where.
A step that drops cycles is a rejection by the CMC's list or a locking of an outdated
entry, and has been noted by then (`Noticed`, `NoPanic`).

`RequestCovered` is kept by a creation or a locking because it debits its own part
of the balance and nothing else works on that user's ICP meanwhile: the request guard
excludes another, and a top-up is of a user without a request (`UserExclusive`). It is
made true by a proposal, so `CoverInv` follows the proposal from the price over the balance
to the transfer (`ExecCovered`): the balance checked then covers the price, since no
one else debits it. Deposits only add. When a creation is answered, the request goes.
`ConversionsFunded` follows from the invariants in one state, with no step of its own:
a conversion that is asked for is the only debit, so the balance is at least the cost
less what is locked; a creation asks for just that; a locking asks for a part, and by
the pace (`PInv`) there is one left.

The hypothesis: a part is a tenth of the price of a half-year's rent and the fee is
0.0001 ICP; if it were not paid, a locking would debit more than its part
(the fee comes on top of a `Sent` of zero) and coverage would be lost.

In `Billing`, `CoveredMeansFunded` is not inductive: an agreement covered for just
a day could be emptied by a run whose interval is longer than what is left.
`FundedAhead` strengthens it to "more than an interval before the deadline": then
`remaining / seconds * interval` is less than what remains, and as the interval is
shorter than a day the claim follows. After a top-up or a switch the deadline is
as far away as the added or remaining cycles pay for, so cycles are there again.
`CopyCurrent` says that the copy of an open top-up equals the stored agreement,
which the guard gives; without it neither the deadline nor the totals could be
shown to grow. `BurnedWithinCreated` bounds each draw of the account. The days of
`TopUpsHonest` rest on lemmas about integer division that are proved in the module.

In `RateCache`, `PriceFetchedOnce` follows from `FetchedKept`: once
`get_todays_price` has paid for a day, the rate is in the cache or in the reply of
the one call that holds the guard (`GuardOwned`), and neither lets another call
start for that day. That quotes agree follows from `QuotedAtRates`, every quote is
the price at some answer for its day, and `OneAnswer`.

`EstimatesRoundTrip` is arithmetic on top of that: with one answer for each day the
quote and the estimate use the same rate. The price is within one e8s, and a
rounding, of the exact one (`PriceBounds`); the estimate takes two fees off and
rounds once more (`EstimateBounds`); if all of that is worth less than half a day, the
rounding to the nearest day gives the days back (`NearestDay`). The bound says so:
two fees and an e8s cost no more than half a day's cycles, and ten to the number of
decimals is a multiple of 10_000, the factor the estimate divides it by. The XRC's
nine decimals are, and at 440 trillion cycles a day the bound holds until an ICP is worth a
million XDR. A rate of zero is not excluded: it gives no price.

In `History`, every action that writes lets the store grow (`Grown`): old entries
stay, new ones have fresh numbers and the present time. Numbering, the log and the
readers are preserved by any such step; chronology needs `NotOfTheFuture`
besides, and pages need that no reader is ahead of the counter (`ReadersBehind`).

**Only model-checked** is the liveness: `CallsReturn`, `GuardsFreed`,
`PastDueDrained`, `XrcGuardFreed` and `ReaderFinishes`. Liveness under fairness, and
`ENABLED`, are out of the prover's reach. Every invariant, action property and
refinement that a passing run checks is stated by a theorem.

## 5. Not modelled, and the plan

Left out for good: `list_*` (projections of the maps), `get_payment_account` and
the wording of the status query (pure encodings), candid and the layout of stable
memory, the XRC mock and the tests. An upgrade is an action of `Billing` and
`History`; in `SubnetRental` it would be a step that changes nothing, since a
stopped canister has no open calls and no guards.
