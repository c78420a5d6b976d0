# ZaadiKitchen backend: TLA+ models

The backend sells meal subscriptions: a customer pays for a plan by card
(Moyasar), by wallet or by both, gets a calendar of delivery days, skips,
pauses and upgrades it, and a kitchen works through the days. It is a NestJS
service over Postgres. Use cases in `src/src/core/usecases` are plain async
functions; almost none of them runs in a database transaction (the wallet debit
and the assignment of areas to drivers do). So every `await` is a point at
which another request, a webhook delivery or a job may run, and at which the
process may die. That is what is modelled here: an action is one `await`.

Contents: [parts](#1-the-parts-of-the-system) ·
[modules](#2-modules) · [abstractions](#3-what-is-abstracted) ·
[runs](#4-runs-bounds-and-what-they-show) · [fairness](#5-fairness) ·
[disagreements](#6-where-code-and-documentation-disagree) ·
[proofs](#7-proofs) · [not modelled, and the plan](#8-not-modelled-and-the-plan)

## 1. The parts of the system

Requests enter through `gateways/http`, are mapped by `coreadapter`, run a
command or query of `core/usecases`, and reach Postgres, Moyasar, SNS and S3
through the ports of `core/entitygateway`. Components call one another only by
function call inside one request; what they share is the database.

| part | state it keeps | operations | what is hard, and what makes it correct |
|---|---|---|---|
| Checkout session creation | `checkout_sessions` | CreateCheckoutSession | expires the customer's other sessions and inserts one, in two statements; the split between card and wallet is frozen in the row |
| Order payment | `payment_transactions`, sessions | CreateOrder | reads session, balance, attempts, then claims, inserts, charges; a timeout leaves a charge undecided. A checkout is charged at most once; FAILED means not charged |
| Moyasar client | none; payments live at Moyasar | charge, fetchPayment | lost answers, retry under the same id, late capture |
| Payment fulfilment | orders, subscriptions, delivery days, wallet, referrals | fulfillPaidCheckout, resumePaidCheckout | some twenty statements, resumable after a failure at any of them, entered by three kinds of caller. Paid ends in one order with one plan; the wallet is debited once |
| Payment webhook | as above | HandleMoyasarWebhook | repeated, late, racing with the request and the job |
| Reconciliation job | as above | SyncPendingPayments | works on a list read earlier; finds what crashed. Everything paid is finished |
| Plan upgrade in place | subscription, calendar | promoteSubscriptionInPlace | a crash between its writes; days created and dropped under a plan that goes on |
| Wallet ledger | `wallet_transactions` | credit, debit if sufficient, admin credit | two debits at once; the balance is never negative |
| Checkout pricing, promo and referral codes | session amounts, `promo_codes`, `user_referrals` | ApplyPromoCode, RemovePromoCode, ValidateReferral | three commands compute the amount due, each in its own way, while the wallet and the plan change |
| Subscription lifecycle | `subscriptions`, delivery days | Pause, Resume, CancelPause, Skip, UndoSkip, Cancel, Resubscribe, ExpireActiveSubscriptions | one allowance of days for skips and pauses, counters read and written back, long sequences of calls against the cutoff. No meal is lost |
| Meal choices | stream and pick of each delivery day | SetMealChoice, SwitchMealType, ToggleSaladForDay | the cutoff the evening before; the dish is resolved once in TypeScript and once in SQL |
| Menu weeks | weeks, slots, defaults | add, assign, clear, default, publish, unpublish | a week is checked and then published, and edited afterwards |
| Meals catalogue | meals with edits that wait | create, import, edit, change status, delete | a row is read and columns written back |
| Daily operations, ratings, issues | stages of the day, delivery status, ratings, issues, wallet | advance, force the lock, mark delivered, rate, report, credit, reject | read, decided, written, with nothing in between that stops another |
| Drivers and areas | drivers, areas, assignments | create, update, assign, delete | row locks, taken one after the other in transactions that wait for each other |
| Delivery locations, buildings | addresses | save, update, set primary, delete | several statements, no transaction. One primary address |
| OTP sign-in, tokens, account deletion | `otp_sessions`, users, tokens, devices | send, verify, refresh, log out, delete | limits on codes, a check and then an insert; a deletion in many steps |
| Profile and settings CRUD, communications, queries, reports, controllers | single rows or none | | little that a sequence of steps could break |

`PROJECT.json` lists them with their sources and status, and the hazards with
their lines. The parts meet in the rows they share: a payment writes the plan
and its days; the plan's commands move the days; the menu and the choices say
which dish a day gets; the kitchen and the riders work through the days; the
deletion of an account ends a plan.

## 2. Modules

| module | what it is |
|---|---|
| `PaymentGateway` | Moyasar as its client sees it: POSTs under way, payments and their status, what `charge` and `fetchPayment` answer |
| `PaidCheckout` | extends it: CreateCheckoutSession, CreateOrder, fulfillPaidCheckout, resumePaidCheckout, HandleMoyasarWebhook and SyncPendingPayments as processes over one database, crashes, failed statements and clocks |
| `Purchase` | abstract: what the payment subsystem promises of one checkout |
| `CheckoutSales` | the refinement mapping: `PaidCheckout` implements `Purchase` |
| `DeliveryCalendar` | dates, working days, the clock, the cutoff at 18:00 of the evening before; shared by the three that follow |
| `Subscriptions` | the plan between purchase and expiry, statement by statement, with the rider, the expiry job, an upgrade and the screens that offer the commands |
| `Meals`, `Menu`, `MealChoices` | the catalogue; the weeks and slots over it; the customers' choices, and both resolutions of the dish, composed with them |
| `DeliveryNetwork`, `Addresses`, `ServiceDay` | drivers and areas; addresses and buildings over them; the day of delivery, issues and ratings, composed with them |
| `AreaRoster` | abstract: what handing areas to drivers promises; `ServiceDay` implements it |
| `Accounts`, `CheckoutCodes` | codes, sign-in, tokens and the deletion of an account; the pricing of a checkout and its promo and referral codes, composed with them |
| `MCPaidCheckout`, `MCSubscriptions`, `MCMealChoices`, `MCServiceDay`, `MCCheckoutCodes` | the instances TLC checks |
| `PaidCheckout_proofs`, `PaidCheckoutOrders_proofs`, `PaidCheckoutAlone_proofs`, `ServiceDay_proofs`, `CheckoutCodes_proofs`, `MealChoices_proofs`, `Subscriptions_proofs`, `SetLemmas` | theorems, and the lemmas on sets they share |

Modules that compose (`MealChoices`, `ServiceDay`, `CheckoutCodes`) EXTEND the
ones they are made of, so that the steps of all of them interleave in one
specification. `PaidCheckout` has the wire to the gateway with every lost reply
and takes the price as given; `CheckoutCodes` has the price and takes payment in
one step. `PaidCheckout` creates the plan whose life `Subscriptions` begins with.

Definitions named `X_word` beside a definition `X` (`ClaimArea_unlocked` beside
`ClaimArea`) are mistakes that could be made in `X`, and so are those whose
names end in `_mutant`; no specification uses them. `PROJECT.json` pairs each
with a property that fails when the mistake is put in.

### The path of a payment: `PaidCheckout`

`sess`, `tx`, `orders` and `subs` are the tables `checkout_sessions`,
`payment_transactions`, `orders` and `subscriptions`; `born` is the order in
which payment rows were created (the code sorts attempts by it); `balance` is
the sum of the customer's wallet ledger; `referred` and `rewards` are the
`user_referrals` row and the credits the referrer got. `pc[h]` is the await
handler `h` is at and `my[h]` the local variables that matter later; the code's
races all come from `my[h]` being older than the tables.

| code | actions |
|---|---|
| `CreateCheckoutSession.ts` | `CheckoutReadSub`, `CheckoutReadBalance`, `CheckoutExpireOthers`, `CheckoutCreate` |
| `CreateOrder.ts` | `ReadSession` ... `MarkUnsure`, in the order of the code; `Dispatch`, `AfterGuard`, `AfterClaim` are the local branching between two awaits |
| `pickPaymentIntent` | `PaymentIntent`, `Rank` |
| `fulfillPaidCheckout.ts` | `BeginFulfilment` (the compare-and-set), `LostFulfilment`, then one action per statement of `fulfillBody`, `promoteSubscriptionInPlace`, `finalizePaidCheckout`, `ensureNewSubscription` and `applyReferralRewardIfEligible`; `BodyThrows` and `Catch` are its try/catch |
| `resumePaidCheckout` | `Resume` |
| `HandleMoyasarWebhook.ts` | `WebhookArrives`, `WebhookSettles`, with `MarkFailed`, `Reopen`, `Resume` shared |
| `SyncPendingPayments.ts` | `JobReadInitiated`, `JobReadPaid`, `JobReadFulfilling`, `JobTakesRow`, `JobSettlesWallet`, `JobFetches`, `JobSettles`, `JobEnds` |
| the rest of the world | `Crash`, `TenMinutesPass` (a session expires), `TwoMinutesPass` (a fulfilment counts as dead), `TopUp` (an admin credits the wallet), `Moyasar` |

A CreateOrder call, the payment row it inserts and the Moyasar payment of that
row share one name, because the code passes the row's id as Moyasar's
`given_id`.

### The life of a plan: `Subscriptions`

`sub` is the row of `subscriptions` (status, plan, first and last day, pause
window, `flex_days_used`), `rows[d, status]` counts the delivery days of a date
in a status - the code allows several on a date - and `makeups[d]` is the make-up
day that the audit log names for a skipped date. `my[h]` is where command `h` is and what it read; the
code reads the subscription once, at the beginning, and writes columns from it
at the end. `upgrade` is the plan of an upgrade paid and not yet fulfilled.

| code | actions |
|---|---|
| `SkipDelivery.ts`, `UndoSkipDelivery.ts` | `BeginSkip`, `MarkSkipped`, `AddMakeupDay`, `SaveSkip`; `BeginUndo`, `MarkUnskipped`, `DeleteMakeupDay`, `SaveUndo` |
| `PauseSubscription.ts`, `CancelPause.ts`, `ResumeSubscription.ts` | `BeginPause`, `FreezeDays`, `SavePause`; `BeginCancelPause`, `RestoreDays`, `SaveCancelPause`; `BeginResume`, `RestoreRest`, `AppendLapsedDays`, `SaveResume` |
| `CancelSubscription.ts`, `ResubscribeSubscription.ts` | `BeginCancel`, `BeginResubscribe`, `SaveStatus` |
| `promoteSubscriptionInPlace` | `OrderUpgrade`, `BeginPromote`, `AddCanonicalDays`, `DropOtherDays`, `SavePromote` |
| `ensurePauseStatus` | `ReadSubscription` (a read that writes), `EnsurePauseStatus` inside every command |
| `MarkDeliveryDelivered.ts`, the expiry job, the clock | `MarkDeliveryDelivered`, `ExpireActiveSubscriptions`, `Tick` |
| the plan's page, Home | `SubscriptionDeliveries`, `SubscriptionScreen`, `GetHome` and what they call |

### What is on the plate: `Meals`, `Menu`, `MealChoices`

`meals[m]` is a row of the catalogue: its status, whether it was deleted, the
fields that are live and the edit that waits in `pending`. `weeks` and `slots`
are the menu; a slot is a date, a stream and a number, and holds a dish and
whether it is the default. `days[d]` is the customer's delivery day: status,
stream and pick. `cook`, `editor` and `customer` are where their commands are.

| code | actions |
|---|---|
| `CreateMeal.ts`, `ImportMeals.ts`, `DeleteMeal.ts`, `UpdateMeal.ts`, `UpdateMealStatus.ts` | `CreateMeal`, `ImportMeals`, `SoftDeleteMeal`; `BeginUpdateMeal`, `BeginUpdateMealStatus`, both ending in `UpdateMeal` |
| `AddMenuSlot`, `AssignMealToSlot`, `ClearMenuSlot`, `SetMenuDayDefault`, `PublishMenuWeek`, `UnpublishMenuWeek` | `BeginAddMenuSlot`, `CreateSlot`; `BeginAssignMealToSlot`, `FindOtherDefault`, `AssignMealToSlot`; `BeginClearMenuSlot`, `ClearSlot`, `DeleteSlot`; `BeginSetMenuDayDefault`, `UnsetDayDefault`, `SetDayDefault`; `BeginPublishMenuWeek`, `PublishWeek`; `BeginUnpublishMenuWeek`, `UnpublishWeek` |
| `GetMenuWeeks`, `GetMenuWeek` (these create the week they are asked for) | `EnsureWeekExists`; the operators of the same names are what they answer |
| `SetMealChoice`, `SwitchMealType`, `ToggleSaladForDay` | `BeginSetMealChoice`, `BeginSwitchMealType`, `BeginToggleSaladForDay`, then `UpdateMealTypeForSubscription`, `UpdateSelectedMeal`, `UpdateDefaultMealType` |
| `resolveEffectiveMeal.ts`, `effectiveMealJoin.ts` | `ResolveEffectiveMeal` for the screens, `JoinOrder` and `EffectiveMealLateralJoin` for the lists of the kitchen, the riders and the ERP |
| what else happens to a day or a plan | `DayChanges`, `PlanEnds`, `Tick` |

### The day of delivery: `DeliveryNetwork`, `Addresses`, `ServiceDay`

`drivers`, `areas` and `assigned` are rows, `lockedBy` the row locks on areas,
`admin[a]` a transaction in progress. `buildings` and `locations` are the
addresses, `mover[u]` the command of a customer. `opsDays` has the two marks of
a day (dispatched, delivered), `forced` the days locked by hand, which live in
the memory of the process; `days`, `issues`, `credits` and `ratings` are what
becomes of a customer's meals.

| code | actions |
|---|---|
| `driver-admin-persistence.service.ts`: createDriver, updateDriver, assignArea | `BeginCreateDriver`, `BeginUpdateDriver`, `BeginAssignDriverArea`; `ClaimArea` once per area, waiting for its lock; `CreateDriver`, `UpdateDriver`, `AssignArea` commit; `Rollback` is a claim refused, a crash, or PostgreSQL ending a deadlock |
| driver status, `DeleteDriver.ts`, `CreateDeliveryArea.ts`, `UpdateDeliveryArea.ts`, `DeleteDeliveryArea.ts` | `SetDriverActive`, `SoftDeleteDriver`, `CreateDeliveryArea`, `UpdateDeliveryArea`, `SoftDeleteDeliveryArea` |
| `SaveDeliveryLocation`, `UpdateDeliveryLocation`, `SetPrimaryDeliveryLocation`, `DeleteDeliveryLocation` | a `Begin...` each, then `UnsetPrimary`, `CreateLocation`, `SetPrimary`, `UpdateLocation`, `DestroyLocation`, `PromoteNewest` |
| `AddBuilding`, `DeleteBuilding` | the same names |
| `AdvancePipelineStage`, `ForcePipelineLock`, `MarkDeliveryDelivered` | `BeginAdvancePipelineStage`, `AdvanceStage`; `ForcePipelineLock`; `BeginMarkDeliveryDelivered`, `MarkDeliveryDelivered` |
| `SubmitDeliveryIssue`, `CreditDeliveryIssue`, `RejectDeliveryIssue`, `SubmitMealRating` | `SubmitDeliveryIssue`; `BeginCreditDeliveryIssue`, `CreditIssueToWallet`, `BeginRejectDeliveryIssue`, `ResolveIssue`; `SubmitMealRating` |
| lists of riders, administrators, kitchen, labels, sheet, pending ratings | operators named as the queries |
| the rest of the world | `DayChanges`, `PlanExpires`, `Restart`, `Tick` |

`AreaRoster` has the areas that are open, who holds which, and what each
administrator asks for; a request is granted in one step, all of its areas or
none. At the end of `ServiceDay` it is mapped to the rows: an area is open unless
it is absent or deleted, the holdings are `assigned`, and a request is the driver
and the areas in `admin[a]` from the begin of the transaction to its end. The
locks do not appear: they are how the promise is kept.

### Accounts and the price of a checkout: `Accounts`, `CheckoutCodes`

`otpSessions` are the codes sent to the one phone, `status`, `holder` and the
tokens, devices, addresses and subscription of a user what the deletion of the
account has to clear; `written` remembers which deleted users others have
written rows for since. `sessions`, `payments`, `orders` and `fulfilled` are the
checkouts of the shopper; `cart[h]` is where a promo command is. `raced` is a
history variable: the sessions from which a refresh took back part of the wallet
while a request on a code that had read them was under way.

| code | actions |
|---|---|
| `SendOtp.ts` | `BeginSendOtp`, `CountRecent`, `CreateSession`, `LockPhone` |
| `VerifyOtp.ts` | `BeginVerifyOtp`, `MarkVerified`, `FindUser`, `SignUp`, `SignUpFails`, `CreateToken` |
| admin login, logout, refresh, devices, referral code | `BeginAdminLogin`, `AdminLogout`, `Logout`, `RefreshAccessToken`, `AccessExpires`, `BeginRegisterDevice`, `UpsertDevice`, `GetReferral` |
| `DeleteAccount.ts` | `BeginDeleteAccount`, `CancelPlan`, `ListLocations`, `DestroyLocation`, `RevokeAllUserTokens`, `DeactivateAllDevices`, `AnonymizeAccount` |
| `CreateCheckoutSession.ts`, `checkoutPricing` | `CreateCheckoutSession`, `Cap`, `Refreshed` |
| `ApplyPromoCode.ts`, `RemovePromoCode.ts`, `ValidateReferral.ts` | `BeginApplyPromoCode`, `WriteAttempt`, `WritePrice`, `BeginRemovePromoCode`, `Verdict`, `ValidateReferral` |
| `CreateOrder.ts` and the fulfilment, for their amounts | `CreateOrder` (paid, declined or refused), `FulfillPaidCheckout`, `AdminCreditWallet`, `SessionExpires` |
| others | `SaveDeliveryLocation`, `PlanMoves`, `DeactivateCustomer`, `Passes` (the clock), `Crash` |

## 3. What is abstracted

Everywhere:

- **One or few customers.** Every table is partitioned by user id; where
  customers meet (a referrer's wallet, a driver's area, a phone number) the
  meeting is in the model.
- **One action is one statement** that other requests can see the effect of.
  Local computation between two statements belongs to the statement after it;
  a command's checks belong to its first action.
- **Words and looks.** Names, texts, photos, prices per line, notifications and
  logging are left out. The one conversion that matters, of a point in time to
  a date in Riyadh or in UTC, is in `DeliveryCalendar`.
- A call that is refused without having changed anything is a guard, not an
  action.

`PaidCheckout`:

- **Amounts.** A plan, or the difference an upgrade costs, is one number
  `Price`, split into a wallet part and an amount due. How the number comes
  about is in `CheckoutCodes`.
- **Moyasar.** `initiated` also stands for authorized and verified; voided is
  `failed`; refunds are left out, no code path here issues one. POSTs with the
  same id and amount are one outstanding POST and are answered alike. The mock
  gateway used in tests is not modelled.
- **Gateway ids.** A row's `gatewayPaymentId` is none, the card payment's id or
  `wallet:<row>`; `Gid` names which. A row that becomes FAILED keeps the one it
  has.
- **Staleness.** The job's list of FULFILLING rows asks for `updated_at` older
  than two minutes. `stale` is that comparison: set by the clock, cleared by
  every write that changes the row, evaluated when the row is read.
- **updateTransaction** is `findByPk` and an `UPDATE` by primary key that sets
  all columns given; the two are one step.
- **Calendar.** A plan has `days` = how many times a full set of delivery days
  was written, and `ended` = whether its end date was computed.
- `markAsLastUsed` is left out. `incrementTimesUsed` is called with an id where
  a code is expected and changes nothing.

`Subscriptions`: dates are numbers and the working days among them are a
constant; a statement that writes several rows is one step; the counters
`skipDaysUsed` and `pauseDaysUsed`, which are only written together, are one.
`deliveredCount` is never written by the code and is not there. The override
that locks a date by hand is in `ServiceDay` only. The rider marks any row of any
date delivered, whatever its status. The read of `MarkDeliveryDelivered` only
refuses what is delivered already, and its write is by id, so the two count as
the one step of the write; what a skip or an undo has read before that write is
its own, and it writes its row whatever became of it. Rows of one date are told
apart by their status only: the row found with a status is taken to be one that
still has it while there is one.

`Meals`, `Menu`, `MealChoices`: the check that a name is not taken, serving
statistics, photos and nutrition values are left out. `EnsureWeekExists` is one
step. A week never becomes past, because nothing calls `transitionPastWeeks`.
Where the code takes the first of several rows in an order the database does not
promise, the model has the set of them, of which the code takes one, and
`KitchenAgrees` asks that the set has nothing in it but the dish of the kitchen's
list. A customer's command finishes before the clock moves.

`DeliveryNetwork`, `Addresses`, `ServiceDay`: a transaction's writes are seen
when it commits, and not before. Only the row locks on areas are there, not those
on users or those the database takes for foreign keys; `Rollback` at any time
stands for a deadlock on them that PostgreSQL breaks. Replacing the areas of a
driver and the driver's status are one request, as the administrator's page
sends them. A pause is a status of days here; until the cutoff a day may be
written over by a skip or an undo under way even when it is delivered, as in
`Subscriptions`. One command of a customer runs at a
time; ids of buildings are not used again.

`Accounts`, `CheckoutCodes`: one phone; wrong codes and their count, review
accounts, `skipOtp`, the expiry of refresh tokens, the audit log and the creation
of the customer in the ERP are left out. `RefreshAccessToken`, `GetReferral` and
`CreateCheckoutSession` are one step each, and so are the read of a plan and its
update in `DeleteAccount`. The times are scaled: two minutes, ten minutes and
thirty minutes are one, two and three ticks. Amounts are whole riyals, without
the lines for VAT. Uses of a promo code are left out, as nothing counts them. A
plan past its last day that is upgraded stays one past its last day, though the
upgrade may give it a later one.

## 4. Runs, bounds and what they show

| run | instance | what it shows |
|---|---|---|
| `checkout_retries` | 2 checkouts, 2 CreateOrder calls, webhook, job, 1 fault, no overlap (about 850 000 states) | retrying, resuming and reconciling never charges, orders or debits a checkout twice; SUCCESS is final and paid in full; FAILED was never charged |
| `checkout_overlap` | 1 checkout, 1 CreateOrder call, webhook, 1 fault, 2 credits, interleaved (330 000 states) | what still holds when two fulfilments of one payment race: SUCCESS has an order with a plan, and the wallet part is taken once |
| `checkout_progress` | 1 checkout, 2 CreateOrder calls, webhook, job, 1 fault, fairness (86 000 states) | captured money always ends in a finished order; every step is a step of `Purchase` |
| `plan_lifecycle` | 1 plan, 4 commands, 6 dates, an upgrade, a rider, fairness (1 040 000 states) | no meal is lost, the flex days cover what they were spent on, the end date is the last day, what is delivered stays so but for the row a skip or an undo had already found, every plan expires and not before its last meal; what the plan's page and Home offer is accepted |
| `menu_and_choices` | 3 dishes, 1 date, a cook, an editor and a customer, interleaved at every hour (860 000 states) | a published date keeps its dishes; the two resolutions of the dish agree where a stream has a default; nothing changes after the cutoff but today's day in the hours after midnight; no edit of a dish undoes another; what screens and planner offer is accepted |
| `service_day` | 2 drivers, 2 areas, 2 administrators, 2 staff, 1 customer, restarts (931 000 states) | one driver per area and per meal, the lists of everybody agree; every transaction is as one step of `AreaRoster`; no circle of locks; one primary address; stages only advance; an issue called credited was credited |
| `accounts_and_codes` | 2 requests at a time, 3 users, 5 codes, 3 plans, restarts (1 223 000 states) | how many codes a phone may be sent, what a deleted account leaves, and that what is taken for a checkout is the price less each reduction once |
| `overlap_two_plans`, `overlap_two_charges`, `two_checkouts`, `crash_without_days`, `lost_pick` | as small as the behaviour allows | [section 6](#6-where-code-and-documentation-disagree) |

### Bounds of the payment runs

`Overlap = FALSE` lets one handler run at a time: it starts, is possibly killed
or fails at any await, and the next one finds what it left. `Overlap = TRUE`
lets them interleave at every await.

- Two CreateOrder calls are what a double charge or a second order needs; two
  checkouts are what expiry, refusal of a second plan and sessions of different
  age need. The overlap runs were also finished once with two calls and a
  webhook (no fault), and with a call, a webhook and the job; their size keeps
  them out of the project.
- `Price = 2` with balances 0, 1 and 4 gives the three kinds of payment: card,
  card and wallet, wallet; a balance of 4 also pays twice, so that a missing
  guard is not hidden by an empty wallet. `checkout_overlap` has 3 with 0, 2
  and 6 and two credits: then a payment by card and wallet can be debited twice,
  for more than the price, if nothing prevents it.
- `MaxFaults = 1`: one crash, failed statement or lost reply, at any await. The
  faults the code recovers from are each a single one; a second falls on a state
  that the first has already made, which the job's reruns cover.
- `MaxTopUps` bounds the credits; it is 0 where a credit breaks the property,
  and the table below says so.
- In `checkout_retries` the saved card may disappear and a referral code is
  applied, so that the paths of both are reached; `checkout_progress` needs
  the card to be kept, since `resumePaidCheckout` gives up without it.

What is known to fail outside those bounds, and is therefore not claimed:

| property | fails when |
|---|---|
| `OneSubscription`, `OneOrderPerSession`, `OneChargePerSession`, `SuccessIsFinal`, `FailedIsNotCharged` | handlers overlap (section 6, first two) |
| `SuccessIsPaidInFull` | two CreateOrder calls overlap and a credit arrives between them |
| `NeverPaysTwice`, `OneOrderPerSession` | a credit arrives while an attempt is undecided, even without overlap: the refreshed session is settled by another split |
| `NoOrderWithoutPayment` | three CreateOrder calls overlap with the job and a credit: the first leaves its charge undecided, the third is about to write that down, the credit lets the second settle the same row by wallet alone, the third's write names the card again, the second's compare-and-set takes the row, and the job finishes it two minutes later. The wallet covered the price in that behaviour |
| `PaidIsServed` | the card is deleted, or a second checkout is paid (section 6, third) |

`CHECK_DEADLOCK FALSE` appears in them where the job is left out: then everybody
may be done. With a job something can always run. `Symmetry` permutes requests
and webhooks; it is used in `checkout_retries` only, which has no liveness
property.

### Bounds of the other runs

The number of commands is bounded (`MaxCommands`, `Allotments`) and the clock
ends, so everything may stop: `CHECK_DEADLOCK FALSE`.

- **`plan_lifecycle`.** Six dates, of which the first and the last three are
  working days: a Thursday, a weekend and a week. Two plans of 2 and 3 meals with
  2 flex days, so that the pool runs out; an hour before and one after the cutoff
  of each date; four commands, which is skip, pause, resume and undo in any
  order. Marking a row that is not one of today's stops counts as a
  command, so that a row may be delivered under a command at any of its awaits.
  At most one tick of the clock within a command. One command at a time: two overlapping ones are known
  to lose updates (see below).
- **`menu_and_choices`.** One kitchen date, two slots per stream (four in the
  code: two is a full stream and a choice of default), three dishes, two fields
  of a dish, and either an empty planner or a published menu at the start. A day
  has a night, in which the date in UTC is a day behind, a day and an evening
  after the cutoff. Eight
  divisions of up to five commands among catalogue, menu and choices; every pair
  of the three meets in one of them.
- **`service_day`.** Two of each where two have to meet: drivers, areas,
  administrators, staff, buildings. One date with its day and its evening, three
  commands, two starting situations (an area nobody lives in; two areas, one
  with a driver and a customer). Administrators and staff are symmetric; no
  liveness is checked.
- **`accounts_and_codes`.** Two requests interleave at every statement, with a
  restart between any two. Four starting situations and five divisions of
  commands among sign-in, account, checkout and clock. Two sessions of checkout,
  two wrong codes before the lock (five in the code), prices and discounts such
  that one code is worth more than the smallest plan.
  The case that `raced` excepts needs more commands than that. It was reached
  once, outside the project's runs, by one customer who upgrades for less credit
  than the wallet holds, with one code and ten commands on checkouts and no other
  (1 343 000 states): without the exception TLC finds the equality of
  `PricesAreFair` violated after fourteen steps, with it the property holds. The
  theorem covers any number of commands.

What is known to fail outside those bounds or in cases the properties except:

| property | fails when |
|---|---|
| `NoMealLost`, `FlexCovers`, `EndsOnLastDay` | two commands of one customer overlap, or a crash falls between the statements of a skip: each writes counters and end date from what it read. Rows left after an upgrade are excepted (`Upgraded`) |
| a converse of `NoMealLost` (no meal is won) | a skip whose make-up day is itself skipped or paused is undone (`docs/API_TESTING_GUIDE.md:760` has the simple case); a resume with a date in the past restores days gone by |
| `ExpiredIsOver` | an upgrade was paid while the plan was active and is fulfilled after it expired: it stays expired |
| a cancelled plan stays cancelled (not stated) | a pause is cancelled: that makes the plan active; and a cancelled plan whose pause is in effect can neither resume nor cancel the pause |
| `PublishedStaysReady` | two editors work on one date (two defaults, or a day emptied while it is published), a crash falls between the two statements of a default, or a draft on a published menu is made live. Deleting a dish leaves its slot: the property holds, and the customer sees an empty default |
| `KitchenAgrees`: the same dish | the day's stream has no default: another is being made the default, the change was cut short, or the default dish was deleted (section 6, item 10); or two editors have given it two defaults. Only a dish of the stream is asked for while there is none |
| `ChoiceLockedAtCutoff` | between midnight and 03:00 in Riyadh, SwitchMealType and ToggleSaladForDay write today's own day (section 6, item 9). The property excepts these two commands on that day; administrators' edits have no cutoff and are not in it |
| `DeliveredIsFinal` | the rider marks a row that a skip or an undo has found and not yet written (section 6, item 11). The property excepts that row of that command |
| `EditsSurvive` | two cooks edit one dish at once |
| `AddressIsSound` | two commands of one customer overlap; after a command cut short (`failed`) there may be no primary address until the next |
| `OneDriverPerStop` for every meal | an area is deleted while customers live in it: their meals are on no driver's list, and on the kitchen's |
| an issue is credited once | two administrators, or a crash between the credit and the resolution: only `CreditedHasMoney` is claimed; a rejection may also overwrite a credit |
| `DeletedIsEmpty` | another request writes for the user while the account is deleted (`written` excuses those rows); a token for the mobile application, valid for a hundred years, is still taken |
| `PricesAreFair` for what is due after payment | a promo code is applied to a session already confirmed: the webhook's fulfilment records the new amount; two concurrent CreateCheckoutSession calls leave two active sessions |
| `PricesAreFair`: that no less is taken | a request on a code has read a session's wallet part, a refresh then lowers that part (section 6, item 6), and the request writes a due that counts on the former. The property excepts exactly these sessions (`raced`); nobody ever pays too much |
| `OfferedIsAccepted`: that a day shown as skippable can be skipped, and a pause begin on the first date of the picker | after an upgrade a skipped row behind the plan's new end is undone, and is shown as one to skip; or no working day is left for the end of the pause (the code looks through a window of days, the model at the calendar's end). Both are excepted in the property |
| `Subscriptions!TypeOK` | two commands overlap at the end of the calendar: that lapsed days still fit was seen before the other moved the plan's end |

## 5. Fairness

`PaidCheckout!FairSpec` assumes that

- a handler that runs goes on: an `await` of the database or of Moyasar's
  client resolves or rejects (the client has timeouts). It may still crash;
- the job is called again and again (`POST /internal/jobs/sync-pending-payments`
  is called by a scheduler);
- two minutes pass for a row that nobody writes;
- Moyasar handles a POST it was sent. It need not settle an initiated payment:
  `PaidIsServed` speaks of captured money only.

Customers need not call CreateOrder again and webhooks need not arrive: what is
promised is promised by the job alone. Faults are bounded, which is the
assumption that they do not go on for ever.

`Subscriptions!FairSpec` assumes that a command under way goes on, that the
expiry job is called again and again (`/internal/jobs/expire-subscriptions`) and
that time passes. Customers need not do anything, and may do anything, for
`EveryPlanExpires`.

The other specifications state no fairness and no liveness: menus, drivers,
addresses and accounts change when somebody asks for it, and nothing has to
happen.

## 6. Where code and documentation disagree

Each of the first five is a run whose property TLC finds violated;
`PROJECT.json` quotes the lines.

1. **Two plans for one payment** (`overlap_two_plans`). The webhook writes
   PAID_UNFULFILLED over a row that a request has just moved to FULFILLING (or
   resumes a FULFILLING row of any age). Both then find no order and no plan.
   The comments promise that a second delivery creates no second subscription.
2. **Two charges for one checkout** (`overlap_two_charges`). CreateOrder reads
   the attempts of a session before it claims the session. A call that saw none
   claims the session after another call's undecided charge has reopened it, and
   charges under an id of its own. The message shown promises otherwise.
3. **A paid checkout nobody can finish** (`two_checkouts`). A charge is
   undecided, the customer pays a second checkout, then the first is captured:
   its fulfilment is refused a second plan on every run of the job.
4. **A plan without delivery days** (`crash_without_days`). After a crash
   between the insert of the subscription and that of its days, the retry finds
   the subscription, links it and reports SUCCESS without writing the days.
5. **A dish of the wrong stream** (`lost_pick`). The join behind the kitchen's
   list compares streams only for a day without a pick. A day whose picked dish
   has left the menu is then given the default of the stream that sorts first,
   while the customer's screens and the guide have the default of the day's own.

Met while modelling, stated here without a run:

6. `checkoutWalletUtils.ts:43` says that a wallet refresh is applied only "when
   balance grew or the plan became fully wallet-funded". The code at `:51` also
   applies one when the due computed again is merely lower. A code put on an
   upgrade, or taken off (`ApplyPromoCode.ts:121`), makes the due ignore the credit
   for the plan that is replaced, so it is too high; when another session has spent
   the wallet since, the next attempt to pay lowers the wallet part while money
   stays due. `Refreshed` models what happens.
7. UpdateDeliveryLocation sets `buildingId` to `undefined` to clear it, which
   Sequelize leaves out of the UPDATE: the address keeps its old building.
   `docs/API_TESTING_GUIDE.md:342` says it is cleared. `Addresses` models what
   happens; `AddressIsSound` speaks of newly written buildings.
8. `DeleteBuilding.ts:47` says existing addresses are not affected; the foreign
   key has no ON DELETE, so the database refuses to delete a building in use.
9. `docs/API_TESTING_GUIDE.md:83` locks a date at 18:00 in Riyadh the day before,
   and `:86` lets a switch of the meal type reach tomorrow at the earliest.
   `SwitchMealType.ts:44` and `ToggleSaladForDay.ts:14` take the date in UTC and
   the hour in Riyadh: from 00:00 to 03:00 the date is yesterday's and the hour is
   before 18:00, so both reach today, whose dish the kitchen is about to cook.
   `menu_and_choices` has these hours, and `ChoiceLockedAtCutoff` excepts the two
   commands there.
10. For a stream without a default both resolutions of the dish are to take "the
   first filled" one (`effectiveMealJoin.ts:4`, `resolveEffectiveMeal.ts:21`). The
   screens take `options[0]` (`resolveEffectiveMeal.ts:42`) of rows
   that the query orders by date and stream only
   (`menu-week-persistence.service.ts:65`); the SQL takes the lowest id
   (`effectiveMealJoin.ts:45`). With two dishes in a stream they may differ, for as
   long as SetMenuDayDefault is between its statements, and for good when it is
   cut short there or the default dish is deleted.
11. `docs/API_TESTING_GUIDE.md:641` keeps delivered days, and `:734` skips only a
   scheduled row. SkipDelivery and UndoSkipDelivery check the status and write
   the row by its id some statements later (`SkipDelivery.ts:98`), and
   `MarkDeliveryDelivered.ts:26` takes a row of any date and status: a day marked
   in between is skipped or scheduled again.

## 7. Proofs

TLC's answers are for the instances above. The following hold for every value of
the constants that satisfies the named assumptions. All but
`PaymentsAreNotTooMuch` state a property that a run checks.

| module | theorem | says | besides the assumptions |
|---|---|---|---|
| `PaidCheckout_proofs` | `TypeCorrect` | `[]TypeOK` | |
| `PaidCheckoutOrders_proofs` | `PaidRowsAreServed` | `[]SuccessIsServed` | |
| | `WalletIsDebitedOnce` | `[]DebitedOnce` | |
| `PaidCheckoutAlone_proofs` | `OrdersArePaidFor` | `[]NoOrderWithoutPayment` | `Overlap = FALSE` |
| | `FailedIsNeverCharged` | `[]FailedIsNotCharged` | `Overlap = FALSE` |
| | `SessionsAreChargedOnce` | `[]OneChargePerSession` | `Overlap = FALSE` |
| | `SubscribedOnce` | `[]OneSubscription` | `Overlap = FALSE` |
| | `SuccessCoversThePrice` | `[]SuccessIsPaidInFull` | `Overlap = FALSE` |
| | `SuccessStaysFinal` | `SuccessIsFinal` | `Overlap = FALSE` |
| | `SessionsHaveOneOrder` | `[]OneOrderPerSession` | `Overlap = FALSE`, `MaxTopUps = 0` |
| | `NobodyPaysTwice` | `[]NeverPaysTwice` | `Overlap = FALSE`, `MaxTopUps = 0` |
| | `PurchaseImplemented` | `ImplementsPurchase` | `Overlap = FALSE`, `MaxTopUps = 0` |
| `Subscriptions_proofs` | `DeliveredStays` | `DeliveredIsFinal` | |
| | `SubscriptionTyping` | `[]TypeOK` | one handler |
| | `FlexPoolCovers` | `[]FlexCovers` | one handler |
| | `MealsAreNotLost` | `[]NoMealLost` | one handler |
| | `EndIsLastDay` | `[]EndsOnLastDay` | one handler |
| | `PlansExpireWhenOver` | `ExpiredIsOver` | one handler |
| | `OffersAreAccepted` | `[]OfferedIsAccepted` | one handler |
| `MealChoices_proofs` | `ChoicesTypeCorrect` | `[]TypeOK` | |
| | `KitchenAlwaysAgrees` | `[]KitchenAgrees` | one editor |
| | `OffersStayAccepted` | `[]OffersAreAccepted` | |
| | `PublishedAlwaysReady` | `[]PublishedStaysReady` | one editor |
| | `EditsAlwaysSurvive` | `EditsSurvive` | one cook |
| | `ChoicesAreLocked` | `ChoiceLockedAtCutoff` | |
| `ServiceDay_proofs` | `ServiceTyping` | `[]TypeOK` | |
| | `AlwaysOneDriverPerArea` | `[]OneDriverPerArea` | |
| | `NeverALockCycle` | `[]NoLockCycle` | |
| | `AlwaysOneDriverPerStop` | `[]OneDriverPerStop` | |
| | `AddressesStaySound` | `AddressIsSound` | |
| | `OffersAlwaysAccepted` | `[]OffersAreAccepted` | |
| | `AlwaysCreditedHasMoney` | `[]CreditedHasMoney` | |
| | `StagesNeverGoBack` | `StagesOnlyAdvance` | |
| | `AssignmentsAreAtOnce` | `AssignsAtOnce` | |
| `CheckoutCodes_proofs` | `Typing` | `[]TypeOK` | |
| | `CodesStayLimited` | `[]CodesAreLimited` | |
| | `PaymentsAreNotTooMuch` | `[]NobodyPaysTooMuch` | |
| | `PaymentsAreFair` | `[]PricesAreFair` | |
| | `DeletedAccountsAreEmpty` | `[]DeletedIsEmpty` | |

The last column has the hypotheses of the theorem's own; the runs of section 4
have the same, and where one of them is dropped section 4 or 6 says what
happens. A handler acts on what it read earlier, so an invariant about the
tables alone is never inductive; it has to say what every handler knows at its
await, and that may only be what no step of another takes back. TLC checked each
invariant on small instances before it was proved.

**`PaidCheckout`, with overlap.** For any sets of checkouts, requests, webhooks
and jobs, any price and balances, any number of credits and faults. The
assumption is `CheckoutAssumption`: the price is a positive number, balances and
bounds are numbers, flags are Boolean, and the four kinds of handlers are
disjoint and do not contain `None`.

- `TypeInv` adds to `TypeOK` that a payment row has a session, a Moyasar payment
  has a row, and `Knows(h, pc[h], my[h])`: a handler past the reading of its
  session (its row) holds one that exists, and its row belongs to its session.
  `Kept` is what no step takes back: a session, its plan to upgrade, a row and
  its session. `Keeps(h)` adds that a step of `h` makes no session or row but
  its own appear, which is why an insert cannot hit a row another handler
  holds. `TypeOK` is not inductive without this: an update of a row or session
  `None` would leave the table ill typed, and the debit needs the handler's
  session to be a session.
- `ServeInv` adds `Serves(h, pc[h], my[h])`: past `createOrder` a handler holds
  an order of its own row; at `success` and `lost_success` that order is
  linked. `OrdersKept` is what no step takes back: an order, its row, its link.
  An upgrade's order is linked from its insert; a new plan's order by
  `LinkOrder`. So the unguarded update to SUCCESS is justified whoever makes it
  and however late.
- `DebitInv` adds that the wallet part of every session and of every handler is
  at most the price. The debit happens under a lock, only on an order without
  one, so it is at most one wallet part.

**`PaidCheckout`, one handler at a time.** A handler may still be cut off at any
await, by a crash, a failed statement or a lost answer, with credits to the
wallet and captures at Moyasar in between; what it leaves is for the next one.
`Overlap = FALSE` restricts the behaviours, not the code: with overlap these
properties fail (section 6). `AloneInv` has three parts.

- `Alone`: at most one handler is away from `idle`.
- `Tables`: what is true of the tables whenever a handler stops. A session has
  at most one open row; an order belongs to a row that was settled; money is
  debited for confirmed sessions only, and it is their wallet part; wallet part
  and due add up to the price; what is charged is not less than what is due. When
  there are no credits it is what is due (`SplitIsFixed`).
- `Sees(h, pc[h], my[h])`: what `h` has read is still so, for nobody else has
  written since. This is what a retry relies on when it decides from an earlier
  read that a session was not charged yet, and the one point where overlap is
  excluded.

**The refinement to `Purchase`.** `CheckoutSales` counts the money of a session
as the sets of its units, whose cardinalities the lemmas on finite sets reach.
`SaleHolds` derives from `AloneInv` that a session's sale is determined by four
facts, for without credits its split is fixed: whether its card was charged, it
has an order, the order is debited, a row of it is SUCCESS. They come in the
order `Purchase` wants: an order of a session with something due has a charge, a
debit an order, a finished sale both parts. A step of the system then changes one
of the four for one session, or none: Moyasar's steps only the first
(`PaymentMoves`), inserting, debiting and linking an order the second or the third
(`OrderPlaced`, `OrderWritten`), and everything else, which writes one payment
row at most, only the fourth (`RowMoves`).

**`Subscriptions`.** For any calendar and working days, either set of hours, any
sequence of plans, any allowances, any number of commands (`CalendarAssumption`,
`SubscriptionAssumption`; the plans a customer moves along are distinct and a
later one has no fewer flex days).

- `DeliveriesInv` needs no hypothesis and says little: rows are counted, and a
  skip or an undo under way is about a date. `DeliveredIsFinal` then holds statement
  by statement, whatever overlaps (`KeptButOver`): those that write many rows
  choose them by a status that is not delivered, and the one that writes by id
  reaches a delivered row only when no row has the status it was found with.
- `TypeInv` adds what a command has in its locals (`LocalHolds`): dates are on
  the calendar, and the lapsed days it is going to append still fit
  (`LapsedFit`).
- `FlexInv` says of every statement what the counter it is about to save will
  have to cover. The counters are written after the rows, so `FlexCovers` does
  not hold between the statements; it says what is owed. The flex day
  an undo gives back is free as soon as its row is no longer skipped, be it that
  the rider has delivered it.
- `MealsInv` counts the rows of a date (one that is not skipped), and adds
  before each statement what it owes: a skip owes its make-up day, an undo has
  one to spare once its row is back or was delivered, frozen days are counted in the window of the pause. The sums are
  cardinalities of sets of rows (`RowsOf`), which the lemmas on finite sets
  reach, where a fold over dates would not be.
- `PauseInv` says that a plan that is paused, or has been frozen for a pause
  under way, has the window of that pause. What a screen offers is worked out
  from the rows and the counters it reads, apart from what the command checks
  (`SkipOffered`, `PauseOffered`, `ResumeOffered`, `HomeAgrees`, `FrozenFew`):
  that the two agree needs that window, that the pool covers what was spent
  (`FlexInv`), and that the rows of the plan end where its end date says
  (`MealsInv`).

The last five theorems assume one command at a time because two lose updates
(section 4).

**`MealChoices`.** For any catalogue, menu, fields, values and number of slots
(`MealsAssumption`, `MenuAssumption`, `MealChoicesAssumption`).

- `TypeInv` needs that a free slot exists when a dish is added: if all indices
  below the limit were taken, the stream would be full (a pigeonhole).
- `OffersAreAccepted` is a consequence of the typing. `KitchenAgrees` follows from
  what the join's order puts first (`JoinShows`) and from `PlannerInv`: with one
  default at most in a stream, the set of dishes the screens may show is one.
- `CustomerInv`: a change under way was checked before the cutoff, or is a switch
  or a toggle for today after midnight (`NightOf`; the cutoffs agree but for that,
  `CutoffsAgree`), and no tick of the clock that crosses the cutoff comes between
  check and write.
- `CookInv`: an edit under way writes the row it read.
- `MenuInv`: a week has the first slot of each stream of its dates, a stream one
  default at most and a date a dish once (`PlannerInv`); a published week has its
  defaults, but for the one being replaced (`PublishedInv`); and what an editor
  has read before its write is still so (`EditorsInv`).

**`ServiceDay`.** For any numbers of drivers, areas, administrators, staff,
customers and issues, any calendar and any bound on commands. The assumptions are
`CalendarAssumption`, `NetworkAssumption` (areas are finitely many and have ids
that are numbers, so that they have an order), `AddressesAssumption`,
`ServiceAssumption` and `StartsAssumption` (the rows at the start are typed and
already have one driver per area).

- An administrator's transaction decides about an area when it has locked the
  area's row, and acts on that several locks later. `NetworkInv` says what it may
  rely on in between. `ClaimsHold`: every area it has claimed is locked by it,
  is still there, and has no driver but its own. `LocksInOrder`: its locks come
  before the areas it has still to lock. `OneDriverPerArea` is not inductive
  without `ClaimsHold`, for the commit inserts rows without looking again.
- A circle of waiting transactions is impossible because of `LocksInOrder`:
  each of them waits for an area that is greater than the one it keeps another
  from, so the areas waited for would have no last one, against `LastArea`, which
  says that a finite set of numbers that is not empty has one.
- The refinement to `AreaRoster` rests on the same invariant. A commit is a
  grant: `ClaimsHold` says of that very moment, not of the earlier ones of the
  locks, that each area asked for is open and free or the driver's own
  (`CommitGrants`). A lock more changes nothing the roster sees
  (`ClaimAsksNothing`), a begin is a question (`BeginAsks`), every other end of a
  transaction a refusal (`EndDecides`, `RestartRefuses`). `RestingInv` says that a
  command that does not run remembers nothing, so that it asks for nothing.
- `CreditInv` says that a member of staff who is about to call an issue credited
  has credited it; neither a restart nor somebody else's command takes a credit
  back.
- `AddressInv` says of a customer's command between its statements what it has
  done (`MoveHolds`), where the primary address is meanwhile (`PrimaryHolds`),
  and that a building it is about to write is one of the area (`BuildingHolds`).
- `DaysInv` says that a day is delivered only after its dispatch, and that a
  member of staff who is about to store a stage has seen the one before it, which
  a late write of somebody else does not undo (`WriteHolds`).

**`CheckoutCodes`.** For any users, handlers, sessions, codes and prices
(`AccountsAssumption`, `CheckoutCodesAssumption`, `StartsAssumption`).

- `AccountsInv` is the typing with what a request has read of whose row it is
  about. `DeletionInv` says for each step of a deletion what the steps before it
  have cleared, but for what others wrote since (`written`).
- `CodesInv`: a request that has counted the codes of the window and not yet
  inserted its own takes up one place, so the codes of any window are fewer than
  the limit and the requests being served together; a lock follows as many wrong
  codes as the limit says.
- `CheckoutInv`: a session never spends more of the wallet than its price less
  the credit for the plan it replaces. `PaymentsAreNotTooMuch` follows it to what
  is taken: no more than what price, credit, wallet and code leave, whichever of
  pricing, refresh and codes wrote last.
- `PricesInv` is the other half: an open session asks for no less, and neither
  does what a request on a code has computed and will write, even after the
  session's wallet part has grown in between. It speaks of the sessions outside
  `raced` only. Without the part about requests it is not inductive, as a price
  is computed in one step and written in another.
- `PlansAreKnown`: a user who has had a plan has one of those for sale, so the
  plans offered for a change are of a higher tier and the checkout takes them.

**Only model-checked.** Liveness (`PaidIsServed`, `EveryPlanExpires`) is out of
the prover's reach. Every other property of a passing run is a theorem.

## 8. Not modelled, and the plan

Not modelled: broadcasts, automations and daily notifications (they send through
SNS and keep nothing a property is about), reports and lists of totals
(revenue, customers), the reads of the ERP other than the orders of a day,
controllers and adapters, profile, language and the prices of plans,
SubmitOutOfZoneInterest, ReportRiderIssue (an audit entry), UpdateBuilding (a
name), and adding and removing cards other than that a saved card may be gone.
Each writes one row, or none.

Known and not under a property, besides section 4: verifying the newest code
makes an older one that has not expired active again, and one code can sign in
twice at once; `incrementTimesUsed` is given an id (`fulfillPaidCheckout.ts:319`);
the referrer is credited before the referral is recorded (`:321`); an upgrade's
order is SUCCESS without an upgrade after a crash (`:551`). Home says "Switch" or
"Renew" in some cases in which the checkout refuses.

What is left, in this order:

1. An abstract specification of a plan - meals paid for, delivered, to come - with
   the refinement from `Subscriptions`.
2. `PaidCheckout`: an upgrade taken up again after a crash; a property of the
   referral reward.
