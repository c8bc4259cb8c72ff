# zmstore-pos: a verification development

TLA+ specifications of the point-of-sale, delivery and receivables system in
this repository (Remix routes over Prisma and PostgreSQL), the TLC
configurations that check them on small instances, and theorems that the TLA+
proof system (TLAPS) checks for every value of the constants.

    tlc -workers 2 -config CashierShift.cfg MCCashierShift.tla
    tlapm CashierShiftProofs.tla

`PROJECT.json` is the index: components, runs, the mutants that show each
property can fail, the source lines every definition stands for, findings,
hazards and theorems.

## 1. The system

All durable state is in PostgreSQL (`prisma/schema.prisma`).  A browser holds a
session cookie; for a cashier it carries the id of the shift in hand.  A request
runs one route action to its end, but requests interleave at every `await`: the
typical action *reads and checks* first and then runs one `$transaction`, which
repeats few of the checks.  Transactions run at the default READ COMMITTED;
`cashier.shift.tsx` and `store.cashier-shifts.tsx` ask for SERIALIZABLE.  The
database provides primary and unique keys and foreign keys; there are no check
constraints and no `SELECT ... FOR UPDATE`.  This is the reason why nearly every
hazard below is a stale read, an interleaving or a repeated submission.

Nothing runs in the background: no queue, no scheduler, no event bus.  Crashes
matter only as transactions that roll back.

### Components

| component | state | operations | hard behaviour | what makes it correct |
|---|---|---|---|---|
| **Cashier shift and drawer** (`cashier.shift.tsx`, `store.cashier-shifts.tsx`, `cashier.charges.tsx`, guards) | `CashierShift`, `CashierDrawerTxn`, `CashierShiftVariance`, `CashierCharge`, session cookie | open, resend, accept, dispute, deposit, withdraw, collect, submit count, final close, acknowledge | two managers opening at once; postings that passed a check before the count; stale cookies; retries | one live drawer per cashier, no overdraft, a charge is exactly a decided shortage, the count is final, no shift gets stuck |
| **Walk-in settlement** (`cashier.$id.tsx`, `cashier.pos._index.tsx`) | `Order` (status, lock, release, receipt), `Payment`, product stock, `ReceiptCounter` | claim, release, delete, send clearance, settle | double submission; a lock that expires or is overwritten; stock shared between slips | nothing oversold, no receipt uncovered by cash or approval, goods follow settlement, paid slips survive |
| **Order creation and pricing** (`orders.new.tsx`, `pad-order`, `pricing.ts`, `api.quote-pricing`, `customers.$id_.pricing`) | `CustomerItemPrice`, `Order`, `OrderItem` with frozen prices | write, edit and switch a rule; create, quote, freeze | rules with open ends, two computations of one price | one rule at a time, a road quote is the order's price |
| **Commercial clearance and customer A/R** (`store.clearance_.$caseId`, `ar.customers.$id`, opening batches) | `ClearanceCase`, `ClearanceDecision`, `CustomerAr`, `CustomerArPayment` | stage, decide (reject, A/R, discount, both), pay one, pay all | two decisions of one case; payments that read the same balance; row locks | no debt vanishes unpaid, every tender is accounted for, no deadlock |
| **Delivery run** (`runs.new`, `store.dispatch`, `runs.$id.dispatch`, `runs.$id.rider-checkin`, `runs.$id.remit`) | `DeliveryRun`, `DeliveryRunOrder`, `RunReceipt`, load-out snapshot, stock | create, assign, dispatch, revert, check in, void, send clearance, approve remit | stock deducted at dispatch and returned at remit by another route; stale run status | an order is on one active run, its goods are never out on two, loaded = sold + returned + missing, stages never go back |
| **Cashier's remit of delivery cash** (`cashier.delivery.$runId`, `delivery-remit.$id`) | `Payment`, `Order`, `RiderRunVariance` | lock, remit, finalize | the same order remitted twice; shortage raised twice | cash remitted plus variance equals cash due |
| **Rider variances and charges** (`store.rider-variances`, `rider.variance.$id`, `store.rider-charges`) | `RiderRunVariance`, `RiderCharge`, `CashierCharge` and their payments | decide, accept, collect | decided twice, remitted again after a decision, collected by payroll | the charge follows the decision that stands; a short run is settled with an answer |
| **Worker payroll** (`worker-payroll-run.server.ts`) | `PayrollRun`, lines, charge deductions, `EmployeePayProfile` | draft, override, rebuild, deduct, finalize, pay; add and edit a salary row | lines rebuilt under deductions; deductions of two runs from one charge; a row added between others | a final run is frozen, no deduction is lost or overtakes a charge, one rate a day |
| **Worker scheduling and attendance** (`worker-schedule-*`, attendance, suspensions) | templates, schedules, duty results, suspensions | generate, apply a pattern, set a cell, clean up, publish, review, suspend, lift | four writers that read a date and then write it; suspensions recognised by a tag in a note | one row a date, a published date and a review stay, a day is suspended by a suspension that covers it |
| **Login** (`auth-login-guard.server.ts`, `login`, `login.otp`, reset) | rate-limit rows, OTP challenges, trusted devices | password, challenge, resend, verify, lock out | lost increments of counters; one code verified twice | not modelled |
| **Employees** (`creation.employees`, `creation.employees_.new`, `creation.riders`) | `User`, `Employee`, `UserRoleAssignment` | hire, switch role, activate, delete | a switch checked while a drawer is opened or a run given | an account has nothing in hand of a lane it is not in |
| **Catalogue, customers, lookups** (`products._index`, `product-upsert-action`, forms) | `Product` with its two stock counters, single rows | open packs, save the product form; the other forms | counters written from a page read earlier, compared before they are decremented | goods on the shelf and goods sold add up |
| **Uploads** | bucket or disk | put | pure I/O | not modelled |
| **Schema and migrations** | | | | the keys, defaults and nullable columns enter the modules above |
| **User interface** | | rendering | none | not modelled |

### How they interact

* Every route that takes a cashier's cash (`cashier.$id`, `cashier.delivery`,
  `delivery-remit`, `ar.customers`) calls `assertActiveShiftWritable`, which
  reads the shift of the cookie, and stamps `cashierShiftId` on the money row.
  The drawer expected at the close is the sum over those rows.
* A walk-in slip or a delivery receipt that is short of cash raises a clearance
  case; the decision gives the settlement a discount or a receivable.  A
  receivable is paid at the cashier's desk, which is drawer cash again.
* `Product.stock` and `Product.packingStock` have six writers that do not know of
  each other: the settlement of a slip, dispatch, its revert, remit, `open-pack`
  and the product form.  Only the settlement compares and decrements in one update.
* A delivery run takes stock at dispatch, its receipts settle at the rider's
  check-in, the manager's remit returns stock and may raise a rider charge, and
  the cashier's remit takes the cash and may raise a rider variance.
* Shortages of cashiers and riders become charges; payroll collects them.
* Payroll pays the attendance facts of its days at the rate of the salary row in
  force; the planner board and the suspensions write those facts.
* The role of an account decides who may get a drawer and who a run; an open
  drawer, an active run or an unanswered variance stops a role switch.

## 2. Modules

| module | what it is |
|---|---|
| `ShiftCustody` | what the shift routes promise: stages of one drawer per cashier, one reckoning each |
| `CashierShift` | the shift routes in detail; refines `ShiftCustody` |
| `CounterSale` | the walk-in slip at the counter, its clearance and decision |
| `Stockroom` | the stock counters as an admin opens packs and saves the product form, next to the counter |
| `CustomerPricing` | a customer's price rules, the order they price, the road quote |
| `Receivables` | opening balances, their decisions, the payments on receivables |
| `DeliveryRun` | the goods of runs: queue, dispatch, revert, check-in, remit, review |
| `ClearanceGate` | the check-in of a run receipt by receipt: clearance, void, failed delivery, draft, submit |
| `RiderSettlement` | the cash of a closed run: remit, shortage, decision, charge, settlement |
| `Payroll` | a payroll run from draft to payout, with overrides and deductions |
| `PayProfiles` | the salary rows of an employee |
| `WorkSchedule` | the planner board, attendance reviews and suspensions of one worker |
| `Lanes` | cashier and rider accounts: hire, role switch, activation, deletion, against drawers and runs |
| `CashierShiftProofs`, `CustomerPricingProofs`, `ReceivablesProofs`, `RiderSettlementProofs` | theorems about the module each is named after |
| `CounterSaleProofs` | theorems about `CounterSale` and `Stockroom` |
| `RunProofs` | theorems about `ClearanceGate` and `DeliveryRun` |
| `WorkforceProofs` | theorems about `Lanes`, `PayProfiles`, `Payroll` and `WorkSchedule` |
| `SumProofs` | lemmas about sums over finite sets, for any set and any summands |
| `MCCashierShift`, `MCCounterSale`, `MCReceivables`, `MCDeliveryRun`, `MCCustomerPricing` | values and symmetry for TLC |
| `MCStore`, `MCSettlement`, `MCWorkforce` | several components in one run, as scenes |

**Scenes.**  `MCStore` puts the price rules next to the counter and its stockroom, `MCSettlement`
the receivables next to the check-in and the settlement of a run, `MCWorkforce`
the board, payroll, the salary rows and the accounts.  A behaviour plays one
scene and leaves the other components as they began.  Nothing is lost by this:
the components of one MC module write disjoint rows, and what one reads of
another is frozen before it starts (a slip's price, the cash on the receipts of
a submitted run) or is taken as any value at all (payroll starts from any
attendance).  Components that write each other's rows (the
counter and its clearance, dispatch and remit, a drawer and its postings) are in
one module, with one exception: the two stock counters of a product, which the
counter, the stockroom and the runs all write.  `Stockroom` has the counter's
settlements in full with openings and forms; `DeliveryRun` has dispatch, revert and
remit in full, with the settlement, the opening and the form reduced to what they
do to the counters.  So `StockAccounted` adds up goods that no delivery
moves, and `GoodsAccounted` speaks of a run's goods and of cells below zero.

### How requests are modelled

* A SERIALIZABLE transaction is one step.  The exception is the opening of a
  shift: its read and its commit are two steps, so that two may overlap, and the
  commit aborts the overlapping ones as PostgreSQL does.
* A handler that checks and then commits a READ COMMITTED transaction is two
  steps: the first carries what the handler read in a variable (`job`, `call`,
  `post`, `asked`, `task`, `req`, `tab`, `form`), the second uses it, however
  stale.  Settling a slip has a third: it reads the order first and the clearance
  case, the decision and the stock later.
* Where the statements of a transaction can interleave with those of another and
  a property depends on it (payments on receivables, salary rows) each statement
  is a step, and an updated row is held until the transaction ends.
* Money is counted in centavos and stock in units.  `EPS` of the settlement is
  far below a centavo, so that it compares exactly; `MONEY_EPS` of the decisions
  is a centavo and is the constant `MoneyEps`.
* A history variable (`contended`, `tangled`, `loose`, `crossed`, `mixed`,
  `rushed`, `sideBySide`, `touched`) remembers which rows two requests had in
  hand at once, or were changed in the hands of a request.  Properties that the
  code keeps only without overlap say so with it; nothing else reads it.

### CashierShift

| TLA+ | code |
|---|---|
| `shift`, `variance`, `charge` | rows of `CashierShift`, `CashierShiftVariance`, `CashierCharge` |
| `ledger` | sums over `Payment`, `CustomerArPayment` and `CashierDrawerTxn` rows with that `cashierShiftId` |
| `session` | `shiftId` of the cookie |
| `OpenRead`, `OpenCommit` | `open` of `store.cashier-shifts.tsx` |
| `Resend`, `FinalClose` | `resend` and `close` of the same action |
| `Reattach`, `Logout` | session recovery of `cashier.shift.tsx` and `auth.server.ts` |
| `AcceptOpening`, `DisputeOpening`, `SubmitCount` | intents of `cashier.shift.tsx` |
| `BeginPosting`, `CommitPosting` | deposit and withdrawal; collections of the money routes behind `assertActiveShiftWritable` |
| `AcknowledgeCharge` | `cashier.charges.tsx` |

### CounterSale

| TLA+ | code |
|---|---|
| `order`, `paid`, `stock`, `counter` | `Order`, sum of `Payment`, `Product.stock`/`packingStock`, `ReceiptCounter` |
| `kase`, `decisions` | `ClearanceCase` with key `PARENT:<order>` and its decisions |
| `ClaimRead`/`Claim`, `Unlock` | `claimLock`, `releaseLock` or expiry after `LOCK_TTL_MS` |
| `DeleteRead`/`Delete` | `delete slip` of `cashier.pos._index.tsx` |
| `SendRead`/`Send` | `sendClearance` |
| `DecideRead`/`Decide` | action of `store.clearance_.$caseId.tsx` |
| `SettleRead`, `CheckClearance`, `Settle` | `settlePayment`: order, then case and stock, then the transaction |

`taken` counts the transactions that took an order's goods and `contended`
collects the orders that two requests ever handled at once; both are history.
Receipt numbers are the counter's; the date in front of them is left out, and so
are the numbers that `delivery-remit.$id.tsx` takes from the same counter.

### Stockroom

| TLA+ | code |
|---|---|
| `page` | what a request of `open-pack` has read, or the edit page an admin has open |
| `OpenRead`/`Open` | `open-pack` of `products._index.tsx`: `findUnique` and comparison, then `decrement` and `increment` |
| `EditRead`, `Save` | the loader of the edit page and the update of `product-upsert-action.server.ts`, which writes both counters as the form holds them |
| `Dismiss` | the form is left, or the update fails |

It extends `CounterSale` and shares its `stock`, whose cells are here the packs
and the loose pieces of one product.  `stale` is history: which kinds of change
were committed on counters that had moved since they were read; `delivered` counts
the packs the form has added.  `StockAccounted` says that, deliveries apart, goods on the
shelf and goods taken add up unless a form was `stale`, and that no counter is below zero
unless any change was.  Both conditions are needed: TLC shows sales undone by a
form, and a pack opened after it was sold.

### CustomerPricing

| TLA+ | code |
|---|---|
| `rules`, `shelf` | `CustomerItemPrice` of one customer; prices and stock of `Product` |
| `today`, `Now` | the clock: a day begins at an even instant, work is done at the odd one |
| create, save, turn on (begin and commit) | `customers.$id_.pricing.tsx`, `customers.$id_.pricing_.$ruleId.tsx` with their overlap guards |
| `Quote` | `api.quote-pricing.tsx` |
| `Unit`, the order's begin and commit | `applyDiscounts` of `pricing.ts`; `orders.new.tsx` |

The engine is an operator: rules in force, overrides before discounts, the best
or the stacked price, `Rounded` for `Math.round`.  `TextRank` is the order of the
ids as text, by which the engine breaks ties.

### Receivables

| TLA+ | code |
|---|---|
| `kase`, `ledger`, `collected` | status of a line's case, `CustomerAr`, sum of `CustomerArPayment` per entry |
| `Stage` | `creation.opening-ar-batches.tsx` |
| `BatchRead`, `SingleRead`, `Decide` | batch page, single-case page, their transactions |
| `PayRead`, `Look`, `Credit`, `PayCommit` | payment on one entry or on all open ones, oldest first |
| `Abort` | a transaction that times out or loses its connection |

### DeliveryRun

| TLA+ | code |
|---|---|
| `run`, `link`, `order` | `DeliveryRun`, `DeliveryRunOrder`, the parent orders' `status` and `dispatchedAt` |
| `road`, `posted`, `returned`, `missing` | ROAD receipts, RS orders made of them, `RETURN_IN` movements, shortage rows of `RiderRunVariance` |
| `stock["PACK"]`, `stock["RETAIL"]` | `Product.stock`, `Product.packingStock` |
| `NewRun`, `CreateRead`/`Create`, `CreateFails` | `runs.new.tsx`; `create-run` of `store.dispatch.tsx` |
| `CancelRead`/`Cancel` | `cancel-failed-delivery` |
| `ReleaseRead`/`Release`, `SaveLoadoutRead`/`SaveLoadout` | `release-order`, `save` of `runs.$id.dispatch.tsx` |
| `DispatchRead`/`Dispatch`, `RevertRead`/`Revert` | `dispatch`, `revert-planned` |
| `CheckinRead`/`Checkin` | `save-draft`, `submit-checkin` of `runs.$id.rider-checkin.tsx` |
| `RemitRead`, `RemitCheck`, `RemitPost` | `post-remit`, `charge-remit`: reads, the re-check in the transaction, its writes |
| `SellAtCounter`, `OpenRead`/`Open`, `SaveProduct` | the same counters elsewhere: the conditional decrement of `cashier.$id.tsx`, `open-pack` of `products._index.tsx`, the form of `product-upsert-action.server.ts` |

One product stands for the load.  Its line in an order is taken from the cell of
its stored unit kind; `Inferred` is the set of cells that the comparison with
live prices in `revert-planned` may yield.  `Loaded` and `Sold` add packs and
loose units as `loadRunRecap` does.  What a rider sells and fails to deliver is
a free choice, and so is whether a submit passes the clearance gate, which is
`ClearanceGate`.  `away` (units out with a run) and `contended` are history.
Dispatch and `open-pack` compare the cells first and decrement them later without a
condition, so a cell may go below zero: one dispatch alone overdraws it when a
sale at the counter, an opening, a saved form or another dispatch commits in
between.  `contended` then holds `"stock"` (`Undercut`: a cell falls while a
request that has compared it is still to commit).  A form carries any two
figures, because the page it was filled on may be of any age.

### ClearanceGate

| TLA+ | code |
|---|---|
| `trip`, `slip`, `failed` | status of the run, `RunReceipt` by key, failed attempts of `DeliveryRunOrder` |
| `claim` | `ClearanceCase` of a receipt with what its decisions granted |
| `SendBegin`/`Send` | `send-clearance` of `runs.$id.rider-checkin.tsx` |
| `DecideBegin`, `Approve`, `Reject` | `store.clearance_.$caseId.tsx` |
| `VoidBegin`/`MarkVoid` | `void` of a rejected receipt |
| `SaveBegin`/`Save` | `save-draft` and `submit-checkin`; `seen` are the cases the rider's page knew of |

### RiderSettlement

| TLA+ | code |
|---|---|
| `account`, `riderCash`, `released` | order status, payments and lock; cash on its receipt; delivery outcome |
| `shortage`, `debt` | `RiderRunVariance` of the order, `RiderCharge` |
| `OpenRemit`, `LockExpires`, `RemitAsk`/`Remit` | loader and action of `delivery-remit.$id.tsx` |
| `DecideAsk`/`DecideShort` | `store.rider-variances.tsx` |
| `AcceptAsk`/`Accept` | `rider.variance.$id.tsx` |
| `PlanDeduction`, `Deduct` | `store.rider-ar.tsx`; the deduction of `worker-payroll-run.server.ts` seen from one charge |
| `ClaimRun`, `AutoSettle`, `FinalizeAsk`/`Finalize` | `cashier.delivery.$runId.tsx` |

### Payroll, PayProfiles, WorkSchedule

| TLA+ | code |
|---|---|
| `payState`, `line`, `extra` of `Payroll` | `PayrollRun`, `PayrollRunLine` with its frozen facts, the incentive or its override |
| tasks `rebuild`, `redo`, `override`, `deduct`, `finalize`, `payout` | functions of `worker-payroll-run.server.ts` |
| `tagged`, `paid`, `settled`, `taken` | plan tag, payments and status of rider and cashier charges; payments naming a run's line |
| `payRow`, `entry` of `PayProfiles` | `EmployeePayProfile`; a form's transaction |
| `CreateBegin`, `EditBegin`, `CloseAndCompare`, `WriteRow` | `upsertEmployeePayProfile`: find the open row, close it and compare, write |
| `cell`, `duty`, `sus` of `WorkSchedule` | `WorkerSchedule` by date, `AttendanceDutyResult`, `SuspensionRecord` |
| requests `generate`, `pattern`, `cell`, `tidy`, publish | `worker-schedule-publication.server.ts` |
| reviews, suspension and lift | `worker-attendance-duty-result.server.ts`, `worker-suspension-record.server.ts` |
| `typed` of a duty | history: a review wrote it, not a suspension |

### Lanes

| TLA+ | code |
|---|---|
| `lane`, `login`, `employee`, `stints` | role, `User.active`, `Employee.active`, `UserRoleAssignment` in order |
| `drawer`, `stage`, `rider`, `due` | what `CashierShift`, `DeliveryRun` and `RiderRunVariance` rows say to the role switch |
| `Hire`, `HireRider` | `creation.employees_.new.tsx`, `create` of `creation.riders.tsx` |
| `SwitchBegin`/`Switch`, `ToggleBegin`/`Toggle` | `switch-role`, `toggle-active` of `creation.employees.tsx` |
| `RiderToggle`, `DeleteRider` | `toggle`, `delete` of `creation.riders.tsx`; the foreign keys of `Employee` |
| `OpenBegin`/`OpenDrawer`, `CloseDrawer` | opening and final close of `store.cashier-shifts.tsx` |
| `NewRunBegin`/`NewRunFor`, `QueueRun`, `Staging`, `Turn` | `runs.new.tsx`, `store.dispatch.tsx`, `runs.$id.dispatch.tsx`, check-in and remit |

## 3. What the runs check

| run | instance | states | shows |
|---|---|---|---|
| `shift_core` | 1 cashier, 2 managers, 2 shifts, 2 postings, floats 0 and 1, counts 0 and 1 | 925 108 | one live drawer, the floor of a drawer, justified charges, `CountIsFinal`, and that the routes implement `ShiftCustody` |
| `shift_liveness` | 1 manager, 1 posting | 7 129 | `EveryShiftCloses` under fairness |
| `shift_locked` | 1 shift, 2 postings | violation | a posting checked before the count commits after it |
| `sale_core` (`MCStore`) | 2 cashiers, 2 slips competing for 2 packs (the second only settled), 2 overlapping requests, or 1 request and an admin who opens 1 or 2 packs or saves the form; 2 rules over 2 days, 6 periods and 7 kinds of price, 3 carts | 402 509 | the counter and its receipts, the stock under openings and forms; one rule at a time, the road quote |
| `sale_taken_once` | 1 slip | violation | two settlements take the goods twice |
| `sale_rejected` | 1 slip | violation | after a rejection full cash is refused |
| `price_overlap` | the rules of `sale_core` | violation | a rule without an end accepted beside a later one |
| `settlement` (`MCSettlement`) | 2 lines and 4 entry ids; 1 order and 1 road sale at check-in; 2 orders, 2 cashiers at the remit; 2 overlapping requests | 581 487 | no debt vanishes, every balance of a submitted run has one answer, a settled run leaves no cash unexplained |
| `ar_ledger` | 1 line | violation | payment recorded, balance not reduced |
| `run_core` | 2 runs, 2 retail orders, 1 pack, 2 overlapping requests; or 1 run with 1 order next to sales, openings and forms on the same cells | 583 170 | goods, assignment, marks and reviews are right wherever requests do not overlap, and no order is out on two runs even where they do |
| `run_revert` | 1 request at a time | violation | a revert restores another cell than dispatch took |
| `workforce` (`MCWorkforce`) | 2 payroll runs, 3 charges, 2 dates, 1 suspension, 3 salary rows over 3 days, 1 account with 3 stints and 1 run; 2 overlapping requests | 789 759 | payroll, salary rows, board and accounts |

The longest takes less than three minutes with two workers.

**Why the bounds are enough to be interesting.**  Every check-then-commit hazard
needs two requests on one row, which all runs have; a third would repeat the
second.  Two shift ids let one shift close and the next open, and let two
managers collide.  Two slips over stock for only one of them make the stock
run out between check and transaction.  A total of 5 with cash 0 or 3 and
discounts 1 or 3 gives a balance decided as open balance, as discount alone, as
both, and a rejection; the second slip is of one centavo, which nobody could
decide, and only competes for stock and receipt numbers.  Entries of 2 and a tender of 3 make a payment settle one
entry, reach into the next and leave change; four ids leave room for each line
to be decided twice.  Ids are model values and no handler compares them, which
makes the symmetry sound; ids of receivables, charges, rules and salary rows are
ordered and not symmetric.

Two runs let an order be tried, fail and go out again, and let two managers take
it at once.  One pack of stock makes the second run wait for the first to come
back, or overdraw the cell; sales of 0 and 2 packs leave goods unsold, or exceed
what was loaded.  The orders are alike, which makes them symmetric too.  The
run is checked under `BoundedSpec`: a run that two requests have handled at once
takes no new request (`Bounded` of `MCDeliveryRun`), since otherwise two
dispatches and a revert, repeated, take stock without end; its requests in flight
still commit, and the orders and the other run go on, one request at a time once
both orders have been shared too.  In the other scene of that
run one order is on one run, and the three other writers move the cells between its
steps: a slip of one pack or one loose unit, one pack of two units opened, a form
with either figure.  That is enough for each of them to take what a dispatch has
counted, and for a form to hide it.  The theorems need no such bounds and are about
`Spec`.

At the check-in a receipt of 2 may be sent with 0 or 1 in cash, so that a
discount of 0, 1 or 2 decides it as open balance, discount or both, and the road
sale comes and goes with the form.  Two orders of 2 in one run leave one short
while the other is remitted.  Charges of 3 and 1 with a deduction of 2 need two
payroll runs and let a younger charge be overtaken; the third charge belongs to
nobody payroll knows.  Two dates let a suspension cover both, be lifted between
them and have its record shortened, while a review of one day writes a suspension
by hand and may keep the tag of one that was there (rows on the second date and
attendance are not combined: they meet on the first); three salary rows let one be added between
two others.  Three stints are a switch and a switch back.  Where the whole
product would be too large, the bound names what overlaps (`MayOverlap`,
`PostsAtOnce`, `TasksAtOnce`, `ReqsAtOnce`): two requests while there are few
rows, one when there are more.

**Deadlock** is not checked where ids and requests are used up in the end, or
where all slips can be deleted; the database never stops for another reason
that these models contain (`NoLockCycle` states the one that could).

### Properties worth arguing about

* `OneLiveShiftPerCashier` holds only because of SERIALIZABLE: no unique key
  forbids the second live row.  The mutant with default isolation breaks it.
* `DrawerFloor`: money may still enter a drawer that was counted or closed
  (`shift_locked`), yet no interleaving takes it below zero, nor below what the
  manager closed against, so a recorded shortage is never larger than the ledger
  can explain.
* `SaleCovered`: the settlement mixes an order read earlier with a case and a
  decision read later, and two of them may overlap; still every `PAID` order is
  covered by cash and one approved discount.
* `OfficialReceipts`: the number is drawn inside the transaction, so that a
  rollback gives it back; with two settlements of one slip the second overwrites
  a number that is already printed, and without them none is missing.
* `OneAtATimeIsExact` (of the counter, and of the receivables) says precisely how
  far the code is right without the missing re-checks: for every order or line no
  two requests ever handled at once, sums are exact, goods are taken once, there
  is one decision and one receivable.
* `DebtNeverVanishes`: under READ COMMITTED balances can be lost updates; the
  loss always favours the store's books.
* `GoodsAccounted` follows the units through four routes that never compare
  notes: dispatch takes them by the page's loadout, check-in sets road sales and
  failed deliveries, remit recomputes loaded and sold from the rows as they are
  then.  Of the cells it can only say that none is overdrawn unless one fell under a
  request that had compared it, and here every writer of the cells counts.
* `NeverOnTwoRoads` needs no order to be free of overlap: two managers may put one
  order on two runs (`OneActiveRun` excludes them), yet its goods never leave on
  both, because dispatch looks for another active run again, of which a planned one
  is enough.  It needs each of the two runs to be in one manager's hands at a time.
* `DispatchedMark` and `FailedReviewed` span runs: an order fails on one,
  is reviewed, released or reverted on the next, and still is delivered once.
* The other properties of `DeliveryRun` are stated of runs and orders that no two
  requests ever handled at once.  That is as far as the code goes: with overlap
  two managers link one order to two runs, two dispatches overdraw a cell, a
  remit posts twice, and a draft reopens a closed run.
* `SubmittedAnswered`: the rider's form, the manager's decision and the void meet
  only in the gate of the submit; afterwards each receipt is paid, granted or
  void, and never two of them.  `CaseIsFinal` holds even with overlap.
* `SettledAccounted` holds however remits overlap, `RemitExact` and `ChargeStands`
  only without: a second remit of an order records its cash twice.
  `ShortageAnswered` says that looking at the newest variance alone is enough.
* `DeductionsCarried`: lines are deleted and created again by every rebuild, and
  the payments name the old ones; `NeverOvertaken`: no charge is overpaid and
  "settled" means paid in full.
* `PublishedKept`, `ReviewKept`, `SuspensionsOwned`: who may change a date that
  was published, reviewed or suspended, across the five writers of a board.  The
  last is about days a suspension marked: one that a review marks, and whose note
  keeps the tag of an older suspension, belongs to the review.
* `OneRuleAtATime` compares rules with an end, because `price_overlap` shows what
  happens without; `QuoteHonoured` compares two computations of one price.
* `OneLaneAtATime`: the checks of a role switch, an opening and a dispatch each
  look at rows the other two write.

### Fairness (`shift_liveness`)

Begun transactions finish (weak fairness of `CommitPosting`, `OpenCommit`).  The
page recovers a session whenever it is loaded (weak fairness of `Reattach`).  The
cashier accepts the opening and submits the count sooner or later: these need
strong fairness, since a logout or the manager's resend disables them in between
and the person tries again.  The manager keeps resending disputed openings and
closes submitted shifts.  Nothing obliges a manager to open, a cashier to
dispute or anyone to log out.  No other module states fairness: what comes next
in a run, a clearance or a payroll run is a person's decision, and the code
neither schedules nor retries any of it.

## 4. What is proved

Every safety and action property of a passing run is a theorem, and so is the
refinement of `ShiftCustody`.  All theorems are for any sets of rows, people and overlapping
requests and any amounts in `Nat` within the named assumptions of the module; the
assumptions say that amounts are numbers, that sets which are summed are finite,
that a null is none of the values it stands beside and, where rows are counted
or taken one by one, that there are finitely many of them.
Type correctness is proved of eleven modules (`TypeCorrect` twice,
`CounterTypeCorrect`, `ReceivablesTypeCorrect`, `CashTypeCorrect`, `GateTypeCorrect`,
`ProfilesTypeCorrect`, `LanesTypeCorrect`, `PayTypeCorrect`, `BoardTypeCorrect`, and
`RulesType` within `RulesInvariant`).  None of the safety properties is inductive alone; what each
proof adds is the state of a request in flight: what it has read is still true, or
is still enough.

* `CashierShiftProofs`: `ShiftInvariant`, `OneLiveShift`, `FloorHolds` (from
  `DrawerSafe` and `CloseFloor`), `ChargeJustified`, and the action property
  `CountFinal`.

      ShiftInv == TypeOK /\ CallsOK /\ RowsOK /\ FreshOK /\ OpeningOK
                  /\ the safety properties

  `CallsOK`: a request that passed its check knows what it posts, on a row that
  exists and has left the opening stage, so that no later resend can change the
  float under a withdrawal in flight.  `RowsOK`: `closedAt`, the audit and the
  count agree with the status.  `FreshOK`: no money before the shift is open, no
  variance or charge before it is closed.  `OpeningOK`: a transaction about to
  create a shift still reads the truth, because the first of two overlapping ones
  aborts the other.

  `CustodyImplemented` is the refinement: `Spec => CustodyRefined`, that is, the
  stage of a cashier's drawer and the reckoning of each shift, read off the rows
  (`StageBar`, `ReckoningBar`), move as `ShiftCustody` allows.  One lemma per
  handler shows its step or its stutter; `OneLiveShift` is what makes the stage of
  a cashier well defined.
* `CounterSaleProofs`: `CounterInvariant`, `SaleIsCovered`, `GoodsWereTaken`,
  `ReceiptsInSeries`, `ApprovalsCover`, `OneAtATime` and, for the stockroom,
  `StockIsAccounted`.

      CounterInv == TypeOK /\ JobsFit /\ SaleCovered /\ GoodsFollowSettlement

  `JobsFit`: a settlement about to commit has worked out amounts that cover the
  order and takes its goods unless they are taken, and this stays so however
  long it waits, because payments, decisions and goods taken only grow and a
  release is not undone.  It is what makes a settlement safe although it checks
  nothing again.  The receipts need an invariant of their own, `SeriesInv`: a
  slip that two requests never shared has one handler, so what that one has read
  of the status still holds (`Alone`, `Held`).  `CasesInv` adds what a case and
  its decisions say (`RowFits`: an approval never exceeds the balance the case was
  sent with) and, order by order, that sums are exact while one request at a time
  handles it (`Exact`, `JobExact`).  `StockInv` counts goods in pieces: opening a
  pack and selling move them, and `PagesFit` says what a request of the stockroom
  has read unless its change is `stale`.
* `CustomerPricingProofs`: `RulesInvariant`, `OneRuleStands`, `QuotesHonoured`.
  `RulesInv` says that what a request found free when it read is
  still free as long as no other request changes rules: rules then only end, and
  time only passes.  The last is about the engine itself: whatever rules
  are in force, the quote and the order compute the same number.
* `ReceivablesProofs`: `DebtInvariant`, `DebtSafe`, `TenderSafe`, `LocksSafe`,
  `OneAtATime`.  `DebtNeverVanishes` needs
  `PaymentsOK`, that a balance read by a payment in flight, and a balance it
  wrote but did not commit, is still at least the principal less what was
  collected up to now, because others may have committed in between.  `ShapesOK`
  says of a payment that it visits entries oldest first (`InOrder`) and that what
  it recorded and what is left are what it was handed (`AddsUp`): from the first
  follows that no two payments wait for each other.  `LineInv`, line by line,
  is exactness while one request handles the line.
* `RiderSettlementProofs`: `CashInvariant`, `SettledSafe`, `RemitsExact`,
  `ChargesStand`, `ShortagesAnswered`.  A settlement in hand
  still finds every order accounted for and a remit in hand still has what `PAID`
  takes, because cash and bridge of an order only grow (`AsksOK`).  `OrdersOK`: of
  an order that requests handle one after the other, what the one in hand has read
  is still true.  `IdsOK`, `AllIn` and `LetGo`: variances are numbered upwards, so
  the newest is one row, and a run is let go only when that row is answered or no
  cash is due.
* `RunProofs`: of the check-in, `GateInvariant`, `CaseFinal` (an action property)
  and `SubmittedSafe`.  The invariant says that a case and its receipt tell the same
  balance, that a decision in hand still decides the balance it read, and that a
  submitted run has nothing open.  `SubmittedSafe` is for runs with an order
  (`Parents # {}`): without one, a receipt of a road sale that left the form is
  kept unchecked (`rider-checkin:1396`).

  Of the run, `RunInvariant`, `TypeCorrect`, `GoodsAreAccounted`, `ActiveRunIsOne`,
  `DispatchIsMarked`, `FailuresReviewed`, `RoadsNeverShared` and the action
  property `SubmittedStays`.

      RunInv == TypeOK /\ Single /\ no unborn run has orders
                /\ OrderFit of every order /\ RunFit of every run
                /\ Sound of every request in hand

  `Single`: an order or a run outside `contended` is in the hands of one request.
  `OrderFit` and `RunFit` relate links, status, marks, road sales and goods of
  such an order or run, `Sound` says that what the request has read of it is
  still so, and `SameOrder`, `SameRun` that a step leaves alone what its request
  does not hold.  Two parts are separate.  `StockFit`: while no cell fell
  under a request that has compared it, each such request still finds what it wants
  (`Want`), and so no cell is overdrawn whoever writes them; a step of the other
  writers either leaves the cells no lower, or leaves nobody to be undercut, or is
  noted.  `RoadsApart`: of two runs each handled by one request at a time, one of
  which is out, or leaving with a dispatch in hand, the other is neither, if they
  share an order; dispatch sees the other as active, planned or not, and neither
  gains an order once it has been read.
* `WorkforceProofs`: `ProfilesInvariant`, `RatesApart`, `EarlierSafe`: the rows
  are apart, and what an open form has compared still holds when it writes.
  `LanesInvariant`, `OneLaneSafe`: what a switch, an opening or a
  dispatch in hand has read still holds for accounts and runs that did not change
  meanwhile (`FormsFit`); what a form was filled for is never as if it did not
  exist (`Grounded`).

  Of payroll, `PayInvariant`, `DeductionsKept`, `ChargesNotOvertaken` and the action
  property `RunsFrozen`.

      PayInv == PayTypeOK /\ HandsApart /\ Sure of every request in hand
                /\ DeductionsCarried /\ NeverOvertaken

  `Sure`: a rebuild carries what the lines deducted when it read them and, like a
  finalization, still finds a draft; a deduction still leaves each of its charges
  open and within its amount.  This holds of a run or a worker outside `crossed`,
  and `HandsApart` says that no two requests have such a one in hand.  The share of
  a charge is what the amount leaves after the older ones, and never more than the
  charge has left (`ShareFits`); it stays within the charge until it is written
  because nobody else collects from that worker meanwhile.

  Of the board, `BoardInvariant`, `OneRowInForce`, `SuspensionsOwn` and the action
  properties `PublishedStays`, `ReviewStays`.

      BoardInv == BoardTypeOK /\ BoardApart /\ StillRead of every request in hand
                  /\ Lone rows on dates outside mixed /\ SuspensionsOwned

  `CellsRead` is what a request has read of the rows: a template its dates free, a
  pattern and a cell the one row in force, a cleanup only drafts, a cell the status
  of the row it replaces.  `DutiesRead` is what it has read of attendance and of a
  suspension: an edit takes back every day the suspension marked (`Marks`), a lift
  all of them from the day on, and a review the tag of the day.  `BoardFrame` says
  that no step deletes a row or a suspension, nor marks a day for another
  suspension than its own; from this, and from the dates it has in hand being
  `Steady`, follows that what a request has read stays so.
* `SumProofs`: the modules sum with `SumFunctionOnSet`, whose definition goes
  through a recursive function.  The library's induction theorems take an operator
  as a parameter, which the installed provers cannot instantiate, so induction is
  stated of sets instead: a set of naturals that holds 0 and is closed under
  successor is `Nat`, a family of subsets of a finite set that holds the empty set
  and is closed under adding one element holds them all (a smallest exception
  would be none).  From these follow that the sum is defined, what one element
  more adds, that sums of naturals are natural, grow with their summands, and add.

**Found by proving.**  Some attempts failed because the model or the property was
wrong.  `ApprovalCovers` used to say that an approval covers the balance of its
case; where the open balance and the discount are both within `MONEY_EPS`, the code
records neither (`store.clearance_.$caseId.tsx:373-424`), and the property now
allows for the two centavos.  `DispatchedMark` and `FailedReviewed` held for more
than they said, and are now stated of every order alone in the hands of its
requests.  The bound of `DeliveryRun` had been part of its specification.
`SuspensionsOwned` could not be inductive: two managers who edit one suspension at
once leave days marked outside it, which the run could not show since it admits one
request at a time once there is a suspension, and a review may choose `SUSPENDED_NO_WORK` and keep the tag of an older
suspension in its note (`store.workforce.attendance-review.tsx:98,136`).  The model
now lets a review do so, counts a suspension among what requests meet on, and
states the property of suspensions nobody met on and of days a suspension marked;
the dates of an edit and of a lift now include all the days it takes back.

**Model-checked only:** liveness (`EveryShiftCloses`), because it rests on fairness
and so on ENABLED, which no backend handles.  A type invariant that is not among
the properties of a run is checked by its theorem.

## 5. Findings

1. **Drawer not locked after the count** (`shift_locked`).  The status is checked
   before the transaction, which looks only at `closedAt`, and that only for a
   withdrawal.
2. **Goods and payment taken twice** (`sale_taken_once`).  The re-check that the
   comment in `cashier.$id.tsx` relies on is itself outside the transaction.
3. **Rejected clearance cannot be paid in full** (`sale_rejected`).  The cash
   stays locked to the snapshot of the rejected case.
4. **Lost update of a receivable** (`ar_ledger`).
5. **Revert restores the wrong cell** (`run_revert`).  Dispatch uses the stored
   unit kind and says why it must; revert infers it from live prices.
6. **Overlapping price rules are accepted** (`price_overlap`).  The guard puts
   "now" where a new rule has no end, so that a rule starting later is not seen.

Observed while modelling, consistent with the properties above:

* *Counter and receivables.*  Two managers can decide one case twice (no key on
  the case); deleting a slip ignores its pending clearance; a fully waived order
  has no payment row and can be deleted by an overlapping request after it was
  paid; an overlapping settlement can take a `PAID` order back to
  `PARTIALLY_PAID`; an order settled through a receivable never becomes `PAID` at
  the counter; the float may be corrected while the cashier accepts the old one
  (`cashier.shift.tsx:462`).
* *Prices.*  A rule written on the list page ends when its last day begins, an
  edited one when that day ends.  An order caps a price at the shelf price and
  takes an effective price of zero for the full price; the road quote does
  neither.  `orders.new` refuses an order whose cents round differently line by
  line.
* *Delivery runs.*  The rule that one run assignment is active at a time rests on
  reads outside the transaction; a remit's re-check of the status does not stop
  a second remit under READ COMMITTED; a failed retail delivery is returned to
  the pack cell; sales above the loadout are refused only when the check-in is
  already locked; after a delivery is drafted as failed and its slip is sent for
  clearance, every save is refused; removing the last road sale of a run without
  orders keeps its receipt.
* *Rider cash.*  A decision changed to information only leaves the open charge of
  the earlier one; payroll turns the variance of a charge it collects into a
  status that no longer lets a short run be settled; where an order is on several
  runs, the fallback of `riderCash.server.ts` takes any of them.
* *Payroll.*  An override is stored even when the rebuild that should apply it is
  refused; runs with overlapping cutoffs pay a day twice; `apply-deduction` from
  a stale page is accepted for a finalized run; a salary row with an end closes
  the open row before it, and when it ends there is no rate; two salary forms
  open at once can both pass the comparison.
* *Board.*  A review takes no notice of an active suspension; lifting the later of
  two suspensions of a day erases the fact both stood for; two edits of one
  suspension at once leave days marked that it no longer covers.
* *Accounts.*  A role switch looks at runs that are planned, out or checked in: a
  run that is closed and not settled does not stop it, and a shortage the cashier
  finds later waits for the acceptance of a rider who is now a cashier.
  Activation and deactivation look at neither drawers nor runs.  The riders page
  deletes an employee unless a variance or a charge names him: the run he is on
  is left without a rider, his user without an employee, and his schedule,
  attendance, salary rows and payroll lines, of finalized runs too, go with him
  (`ON DELETE CASCADE`).  Its message says otherwise.  A switch and an opening, or
  a dispatch, that overlap leave an account with work of the other lane.

## 6. Not modelled, and why

Notes, denominations, device ids, print counts and report pages decide nothing.
Uploads are pure I/O.  Of the product form only prices and stock are modelled,
for a product whose retail sale is allowed; switching that off saves the form
without its field for loose stock, as zero.  The forms of customers, addresses and lookup
tables, opening-batch lines, schedule templates, shift presets, the event log and
the payroll policy write one row each from what was typed.  Seeding and rendering
have no behaviour of their own.  `RECOUNT_REQUIRED` is an enum value no handler
sets, and `updateWorkerScheduleOneOff` has no caller.  The batch page's automatic
rejection of a line without a customer is left out: staging requires one.
The models of the stock count whole units: retail quantities are multiples of a
quarter, but `Product.packingStock` is an integer column and the client refuses a
fraction, so that a slip with one can be created and not settled; the product
guide lists this as a known risk.  The kilogram
capacity of a vehicle, the choice of vehicle and the valuation of missing goods
refuse requests and change nothing else.  A day's pay is a number: half days,
holidays and the tables of government deductions are arithmetic on one row.

Sign-in (password, one-time codes, trusted devices, reset links) is the boundary
of these models: they begin with a request of a known user in a known role.

The goods of a run (`DeliveryRun`) and the cash of its receipts (`ClearanceGate`,
`RiderSettlement`) are not composed: a receipt's sum and the units on it are
free of each other here.  The deletion of an employee is an action of `Lanes`;
the other modules take employees as given, so that `FinalizedFrozen` speaks of
employees whose row stands.

## 7. Plan

1. *(done)* The modules of section 2 with their runs.
2. *(done)* Proofs of the properties of `shift_core`, `sale_core`, `settlement` and
   `run_core`, the refinement of `ShiftCustody` and the lemmas on sums.
3. *(done)* Proofs of `Payroll` and of `WorkSchedule`.
4. An abstract specification of an order's journey (queued, assigned, on the
   road, delivered, cancelled) that `DeliveryRun` implements for orders without
   overlap, and of a receipt's (open, answered, settled) over `ClearanceGate` and
   `RiderSettlement` together.
5. Larger instances: two products in `DeliveryRun`, two employees in `Lanes` and
   `Payroll`, two workers covering each other in `WorkSchedule`.
