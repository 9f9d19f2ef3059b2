# Badminton-Platform: specifications, model checking, proofs

TLA+ specifications of the services under `src/services/` and of
`src/packages/eventbus`, translated from their source, with the TLC runs that
check them on small instances and the TLAPS proofs that hold for every
instance.

To parse, check or prove from this directory:

    tlasany BookingSaga.tla
    tlc -workers 2 -config BookingSaga_anyOrder.cfg MCBookingSaga
    tlapm BookingSagaProofs.tla

`PROJECT.json` lists components, runs, mutants, the lines of source every
definition stands for, the hazards of the code with the properties that watch
them, findings and theorems.

## 1. The system

The platform sells hours of badminton courts and organizes matches on them. It
is a set of Node.js services with a PostgreSQL database each, which call one
another by HTTP and exchange events through RabbitMQ. Every service writes an
event in the transaction that causes it (table `outbox`), a relay publishes it,
and a consumer records its id in `processed_events` in the transaction that
handles it.

| Part | State | Operations | Interacts with | Module |
|---|---|---|---|---|
| Court schedule (venue) | `holds`, `bookings` | hold a slot, book, confirm, cancel, move, counter entry, reapers | finance: `PaymentCompleted`, `BookingCancelled`, `payment-status` | `CourtSchedule` |
| Booking payment (finance and venue) | `payment_intents`, `sepay_events`, `sepay_allocations`, `ledger_entries` | pay from balance, SePay webhook, late payment | asks venue by HTTP, then events | `BookingSaga` |
| Revenue, refunds, disputes (finance) | `booking_revenues`, `disputes`, `wallets` | record, refund, release after 24 h, dispute, rule | events of venue, scheduler | `BookingSaga` |
| Topups and match fees (finance) | `payment_intents`, `sepay_events`, `match_contributions` | the other branches of the webhook | match funding | `FeeReceipts` |
| Withdrawals, reconciliation (finance) | `withdrawal_requests`, `sepay_events`, `wallets.reserved` | request, cancel, pay out, split, match by hand | outgoing bank transfers | `Withdrawals` |
| Match funding and settlement (matchmaking, venue, finance) | `matches`, `match_fundings`, `match_contributions`, commands with a fence | join, pay, fill, settle, cancel, refund | events in both directions | `MatchFunding` |
| Partner invitations (matchmaking) | `match_joins`, `partner_invites` | invite, pay for, accept, decline, expire | match fees | `PartnerInvites` |
| Match results (matchmaking) | `match_result_cases`, claims, evidence, appeals | declare, agree, dispute, rule, appeal, sweep | provider, AI, administrator | `MatchResults` |
| Rules of a match (matchmaking) | none | read a score sheet, divide fees and reserve | results, funding | `MatchRules` |
| Ratings, seasons, rewards (matchmaking, finance) | `rated_encounters`, `match_rating_changes`, `reward_programs`, `reward_payouts` | rate, reconcile, award, claim, pay | results, administrator | `SeasonRewards` |
| Operational shutdown (venue) | `operational_shutdowns` and their items | close, wind down, cancel what is concerned, reactivate | schedule, finance | `Shutdown` |
| Account locks (account, community) | `User.status`, Redis flag, `AccountLock` | lock, unlock, replicate | events to all services | `Accounts` |
| Provider profiles (venue, account) | `Provider.status`, roles | register, approve, reject, suspend | account locks | `Providers` |
| Event bus | `outbox`, `processed_events`, `quarantined_events` | relay, consume, retry, give up | all services | `EventBus` |
| Idle release | background work of a service | release after idle time, build again | relays, schedulers | `IdleRelease` |
| Registration, notifications, catalogue, community, gateway, AI, web | rows edited one at a time | create, read, update, delete | | none, section 14 |

What is hard in it:

* **Locks that do not cover each other.** Holds and bookings are two tables;
  each has an exclusion constraint of its own, and only the advisory lock of
  the court keeps one from contradicting the other. Some transactions read
  under one lock and write under another; reapers and the reads that "heal" an
  expired row take no lock; some handlers of a match lock the booking and
  others the match.
* **Answers that are old when they are used.** Finance asks venue whether a
  booking is payable, and takes the money in a later transaction; a player
  presses a button on a page that shows an earlier version of a case.
* **Events in any order.** Two events of two transactions may be handled in the
  other order, handled twice, or be set aside after two failures.
* **Decisions by three services.** A match keeps its court only if venue
  decides so for the very attempt that finance is settling.
* **Money in several places.** Wallet partitions, revenue rows, contributions,
  refunds and the ledger have to add up after each sequence of payments,
  cancellations, disputes and releases.
* **Deadlines.** A hold lapses while it is paid, revenue is released when the
  window of a dispute closes, a result becomes final when nobody objects.

For each part, correctness means:

* schedule: a slot is sold once; nobody is asked to pay for a slot somebody
  else is paying for; a payment made in time is accepted; every hold ends;
* payment: every amount paid is revenue, balance, refund or in a queue, and
  reaches one of them in the end;
* revenue: pending is what is owed; refunds and the rest of the revenue add up
  to the price; disputed and refunded revenue is not released; played revenue
  is;
* withdrawals and receipts: what is reserved is what an open request still has
  to pay; every bank transfer is explained exactly once;
* match funding: a court is kept only if it is paid for, and each player is
  charged or given the money back, whatever the order of answers;
* invitations: a fee that was paid has a place or is given back;
* results: one final result, which nobody who loses by it has to accept unheard;
* rewards: prizes are computed from all the results of the season, once;
* shutdowns: nothing outlives the cutoff, and every cancellation ends;
* accounts: an administrator remains, and copies of a lock agree with it;
* event bus: an event takes effect at most once, only after it was caused, and
  in the end, unless a connection drops it or its consumer gives it up.

## 2. Modules and runs

`X.tla` is a component, `XProofs.tla` its theorems; those of the smaller
components are together in `PlatformProofs` (`Accounts`, `Providers`,
`PartnerInvites`, `Shutdown`), `ResultsProofs` (`MatchResults`,
`SeasonRewards`, `MatchRules`), `MatchFundingProofs` (`MatchFunding`,
`FeeReceipts`) and `EventBusProofs` (with `IdleRelease`). `SetSums` has the
lemmas about sums and counts over finite sets that the proofs of the ledgers
rest on. The components with money
of a booking have their own MC modules (`MCCourtSchedule`, `MCBookingSaga`,
`MCWithdrawals`). Three MC modules put several components beside one another:
a behaviour belongs to one of them, chosen at the start by `part`, and the
others keep their initial state (`MatchRules`, the score of its first rally).
They share constants and a run, no state; `MoneySymmetry` and `PlatformSymmetry`
permute the values of two of them together, which is the smaller group and as good.

| Module | Components |
|---|---|
| `MCMoney` | `Withdrawals`, `MatchFunding`, `FeeReceipts` |
| `MCPlatform` | `Shutdown`, `EventBus`, `IdleRelease`, `MatchResults`, `SeasonRewards`, `Accounts`, `Providers`, `PartnerInvites`, `MatchRules` |
| `MCBackground` | `CourtSchedule`, `Shutdown`, `EventBus`, `IdleRelease`, and `BookingSaga` by `INSTANCE`, each under its own fairness |

Components that interact are composed inside one module: `BookingSaga` is
venue and finance with the events between them, `MatchFunding` is matchmaking,
venue and finance, `Accounts` account-service and community, `Providers` venue
and account-service, `SeasonRewards` matchmaking's results, its ratings, its
sweeper and finance's payouts.

Two modules are abstract specifications. `EventDelivery` is what these modules
assume of the bus; `EventBus` implements it (`DeliveryIsKept`, checked in run
`platform` and proved). `CourtPurchase` is what the players of a match are
promised for their money; the three services of `MatchFunding` implement it
(`CourtIsPurchased`, checked in run `money` and proved).

| Run | Module | Checks |
|---|---|---|
| `serial` | `MCCourtSchedule` | the schedule when a player sends one request at a time |
| `anyOrder` | `MCBookingSaga` | the money of a booking, events in any order |
| `revenue` | `MCBookingSaga` | two bookings that share the wallets, events in order |
| `money` | `MCMoney` | withdrawals, match funding, receipts |
| `platform` | `MCPlatform` | nine components, each with its races, late events and crashes |
| `background` | `MCBackground` | liveness of what the services do by themselves |
| `lostHold`, `healedSale`, `dropped`, `reordered`, `sentBack`, `thirdPartner` | | one property each, that a document or comment states and the code breaks (section 13) |

Deadlock is not checked in any run: clocks have a last value and ids run out,
and then a model stops. Liveness is stated under the fairness of the code's own
schedulers, relays, consumers and requests in progress; nothing is assumed of
players, providers and administrators.

The type invariants of the components are proved (where a theorem is named
`...TypeCorrect` or is part of the inductive invariant); they are not listed in
the runs, whose properties are about more than types.

Every safety property of the passing runs is a theorem, for all values of the
constants. What only TLC checks is what must eventually happen (the seven
properties of run `background`: the provers here know neither `ENABLED` nor
fairness), and the properties that the code breaks.

What would come next: the booking of a match, the shutdown of its court and
the schedule on one slot (here they are three modules, each with the part of
the others it needs); the leases of matchmaking's outbox; row locks, and which
orders of them PostgreSQL breaks off as a deadlock; a model of the ratings'
arithmetic.

## 3. CourtSchedule

The tables `holds` and `bookings` of `venue-booking-service`, counter bookings,
and the transactions that are between their reads and their writes.

| State | Code |
|---|---|
| `hold`, `used` | `holds`; ids given out |
| `booking` | marketplace rows of `bookings`; a booking has the id of its hold (`bookings.holdId` is unique) |
| `internal` | confirmed rows entered at the counter |
| `tx` | transactions that have read and still have to write |
| `now` | `Date.now()` |

A transaction that takes its locks and then reads and writes is one action.
Three are split where another transaction may commit between what they read and
what they write:

| Actions | Code |
|---|---|
| `ReadHoldForBooking`, `CreateBookingFromHold` | `createBookingFromHold`: the hold is read before the wait for the lock of the court |
| `ReadBookingForPayment`, then `ConfirmBooking`, `ConfirmationRefused` or `RejectLatePayment` | `handlePaymentCompleted`: the clock and the row are read, and the update is by id while the unlocked reapers run |
| `ReadExpiredBooking`, `CancelExpiredBooking` | `getPaymentStatus` and `getMatchContext`, which heal an expired booking by id |

The others are `CreateHold`, `ActivateMatchHold`, `LeaveCheckout`,
`CancelConfirmedBooking`, `ChangeBookingCourt`, `CreateInternalBooking`,
`RemoveInternalBooking`, `ReapExpiredHolds`, `ReapExpiredBookings` and
`CompleteEndedBooking`.

`ParallelRequests` says whether one player may have a second request running
while `createBookingFromHold` is between its two halves. FALSE is a player with
one browser tab; the code does not enforce it. The difference is the subject of
run `lostHold`.

`createHold` takes two locks, the player's and the court's, and reads its clock
before both. The model reads the clock when the locks are granted, so it does
not show a hold that is granted with a deadline some milliseconds older.
`activateMatchHold` is one action although the reaper, which takes no lock,
could delete the hold inside it. `promoteHoldToMatch` has no caller.

### Runs

| Run | Instance | Shows |
|---|---|---|
| `serial` | 2 players, 2 courts, 2 ranges that overlap, 2 holds, 5 instants, one request at a time; 2.2 million states | `PayableBookingKeepsItsHold`, `OnePayerPerSlot`, `PaidInTimeIsNeverExcluded`, `NoDoubleSale` |
| `background`, part schedule | 1 player, 1 court, 1 range, 2 holds | under `Fairness`, every held booking ends (`HeldBookingsEnd`) |
| `lostHold` | 2 courts, 3 holds, parallel requests | violates `OnePayerPerSlot` |
| `healedSale` | 1 of each | violates `ConfirmedLeavesWithReason` |

Two holds and two players are enough for a hold or a booking to meet another in
every pair of states; the second court is for moves and for checkouts on two
courts; a range that contains the other is for overlaps that are not equal.
Five instants let a hold of length one be taken, prolonged to a match deadline,
expire, and its slot start and end. No bound is in the guards but `MaxTime`
(the clock stops, and no hold is taken that would end later) and the finite
`HoldIds`.

`Fairness` assumes that the clock runs, that a transaction which has its locks
ends, and that `startReapScheduler` runs its two jobs again and again (the
service starts it with `setInterval`). Nothing is assumed of players.

### Proofs (`CourtScheduleProofs`)

For any sets of players, courts, ranges and ids, any hold duration and any
bound on the clock:

* `TypeCorrect`, `SoldOnce` (time is sold once) and `OneCheckoutHold` (a player
  has one live checkout hold), with or without parallel requests;
* under `~ParallelRequests`: `ScheduleCorrect` and from it
  `PayableBookingsAreHeld`, `PayersExclude`, `PaidInTimeIsAccepted` and
  `HoldsAreUnsold`.

`OnePayerPerSlot` is not inductive: nothing in it stops two bookings of one
range from being written by two transactions that read two holds. What does is
that a payable booking has its hold (`PayableBookingKeepsItsHold`) and that
holds exclude each other, and that needs `RowsAgree` (a booking is of the court
and range of its hold; ids are used once), `SnapshotIsCurrent` (what
`createBookingFromHold` read is still so when it writes, or has expired) and
`PaymentIsAlone` (no other hold comes to a court while a payment has its lock).
`ScheduleInv` is the conjunction.

## 4. BookingSaga

Bookings of one provider and one price, each of one player, from held to the
release of their revenue. Venue has `status`, `lapsed`, `venueDone` and the
`phase` of the clock; finance has intents, receipts of transfers, credits,
refunds, revenue rows, disputes and the three wallets' partitions; `sent`,
`financeDone`, `retried` and `quarantined` (given up, with or without a record)
are the events between them. `confirming` and `healing` are the transactions and
requests of venue that have read a booking and not yet written it.

| Actions | Code |
|---|---|
| `AskForBalancePayment`, `PayWithBalance` | `payBookingWithBalance`: the question to venue, and the transaction |
| `CreateIntent`, `MakeTransfer` | `createBookingSepayIntent`; the player at the bank |
| `AskForTransfer`, then `RecordUnmatched`, `IgnoreRecordedTransfer`, `CreditLateTransfer`, `AcceptTransfer`, `AllocationRefused` or `CreditPartialTransfer` | `handleIncomingTransfer`: the question, and the branch of the transaction |
| `HandlePaymentCompleted`: `ReadPayableBooking` then `ConfirmBooking`, or `FindNoBooking`, or `RefusePayment` | `handlePaymentCompleted` of venue, without the schedule: it reads status and clock, and later confirms by id |
| `ReadExpiredBooking`, then `HealBooking` | `getPaymentStatus` and `getMatchContext`, which read an expired booking and later cancel it by id, with no condition on its status |
| `RecordBookingRevenue`, `CreditLatePayment` | finance's consumers of `BookingConfirmed` and `PaymentTooLate` |
| `RefundCancelledBooking`, `CloseCancelledBooking`, `RefundFails` | `refundCancelledBooking` with a refund, without, and its exceptions with the catch of `onMessage` |
| `ReleaseBookingRevenue` | `releaseBookingRevenue` of the scheduler |
| `CreateDispute`, `ResolveDispute` | `createDispute`, `resolveDispute` |
| `Lapse`, `Advance` | the clock |
| `ReapExpiredBooking`, `CompleteBooking`, `LeaveCheckout`, `CancelBooking` | the bookings of venue |

`AllocationRefused` is the unique index of `sepay_allocations` on `(kind,
refId)`: a second transfer that was found payable aborts its transaction, and
SePay asks again. Ledger rows are abstracted to the sums per booking and to
the two facts that are looked up later: `balancePaid` (a payment entry, unique
by `ledger_payment_once`) and `cancelRefund`. The player's balance is assumed
to suffice in `PayWithBalance`. The lock of the booking that
`handlePaymentCompleted` holds (`Locked`) keeps the player from leaving the
checkout between its read and its write; it does not keep the reaper or a late
heal away, so a booking may be confirmed after it was cancelled, and cancelled
after it was confirmed and paid.

Two constants choose the environment:

* `InOrder`: is `BookingConfirmed` handled before `BookingCancelled` of the same
  booking? They are rows of two transactions, and consumers run concurrently
  with prefetch, so the code does not promise it; it is what happens when
  finance keeps up.
* `BeforeEnd`: have the events of a booking been handled when its slot ends? It
  is what happens when finance is not down from the slot to its end.

The theorems hold for all four combinations. Run `anyOrder` takes both FALSE.
The properties about revenue that do not survive reordering are checked with
both TRUE, and run `reordered` shows one that fails without `InOrder`.

### Runs

| Run | Instance | Shows |
|---|---|---|
| `anyOrder` | 1 booking, 2 intents, 2 transfers of 9, 10 or 11 for a price of 10, events in any order; 1.9 million states | `MoneyConserved`, `RevenueConserved`, `DisputedRevenueIsHeld` |
| `revenue` | 2 bookings, 1 intent, 1 transfer, in order; 3.4 million states | `PendingIsOwed`, `FullRefundNeverReleased` |
| `background`, part saga | 1 booking, 1 intent, 1 transfer, in order | `PaymentIsSettled`, `FullRefundIsPaid`, `PlayedRevenueIsReleased` |
| `dropped` | 1 of each | violates `NoPaymentDropped` |
| `reordered` | 1 of each, not `InOrder`, `FairSpec` | violates `FullRefundIsPaid` |

Two transfers and two intents are enough for a repeated payment, a payment by
two intents and a second transfer on one intent, each racing with a payment
from the balance; amounts are short, exact and too much. Two bookings are what
it takes for the money of one to be spent on the other. In `background` one
transfer does: with one intent a second is never taken for the booking, and
`anyOrder` has two of each. A refund of 5 is not
divided by the commission rate. The only bound in a guard is that a transfer
id is used once.

`Fairness` assumes that the clock runs; that SePay repeats a webhook until it
is answered with 200; that a request which has read a booking, or has its answer
from venue, ends; that
both consumers get what they have not acknowledged (durable queues); and that
the revenue scheduler comes to every mature row. Nothing is assumed of the
player, of the provider or of an administrator: an open dispute may stay open.

### Proofs (`BookingSagaProofs`)

For any numbers of bookings, intents and transfers, any price and amounts, and
any `InOrder` and `BeforeEnd`: `SagaTypeCorrect` (no partition goes negative),
`SagaCorrect`, `RefundsAreConserved` (refunds, the rest of the revenue and the
commission add up to the price, with each truncated separately) and
`DisputeHoldsRevenue`. The argument is `SagaInv`: conservation is inductive only
together with `RevenueHistory` (revenue that was not refunded is what was
recorded; without revenue there is neither refund nor dispute; it is never
negative before its release) and `PaymentsKnown` (every payment has an intent,
so it has a booking). The only arithmetic fact is that the commission of an
amount is a natural number that does not exceed it.

`MoneyIsConserved` is the ledger of one booking, also for all four
combinations: what came in for it is its credit, its refunds, what is left of
its revenue, its unmatched transfers, and the price times the payments under way
or dropped. The last term counts events, so `HistoryInv` (`HistoryCorrect`) is
needed first: a payment announced was taken once (`PaymentIsTaken`), venue
answered each payment once (`VenueAnswered`), a payment that is being confirmed
has no answer yet (`ConfirmingIsFresh`), revenue is of a confirmed payment,
a booking has one cancellation. With it each action moves one amount from one
column to another, and the lemmas of `SetSums` say what that does to a sum.

Three theorems rest on the environment, and name it in their statement:

* `PendingIsExact` (`PendingIsOwed`) needs `BeforeEnd`: no revenue is refunded
  after its release (`EarlyInv`).
* `FullRefundIsFinal` (`FullRefundNeverReleased`), `RefundsNeverFail` (nothing is
  given up) and `CancelledIsUndisputed` need `InOrder` and `BeforeEnd`:
  `OrderInv` says that a cancellation that was handled found the revenue of a
  confirmed booking and marked it.

Section 13 says what happens without them. Only liveness is left to the runs.
`CancellationIsUndisputed`, which `CancelledIsUndisputed` proves, is stated in
the module and in no run. It is about the cancellations that finance is told of:
a booking that `HealBooking` cancels after it was paid (run `healedSale`) sends
none, and its player may dispute it.

## 5. Withdrawals

What a player or a provider takes out of the platform. `available`,
`withdrawable` and `reserved` are the partitions of the wallets; `platform` is
the part of the platform's wallet that is withdrawal fees; `request` is
`withdrawal_requests`; `event` is `sepay_events` with its `sepay_allocations`;
`transfer` is what happened at the bank, of which finance knows the part that
is in `event`. `earned` keeps, for `WalletConserved`, what a wallet got from
the rest of the platform.

| Actions | Code |
|---|---|
| `CreateWithdrawal` | `createWithdrawal`, with `personalWithdrawalFee` and `personalWithdrawnToday` |
| `ReversePendingWithdrawal` | `cancelWithdrawal` and `rejectWithdrawal`, with the refund of the fee |
| `ConfirmManualPayout` | `confirmManualWithdrawalPayout`, for transfers SePay does not see |
| `FinalizePartialWithdrawal` | `finalizePartialWithdrawal`: what was not paid returns |
| `FindRequest`, then `MatchTransfer` or `RecordUnmatched` | `handleOutgoingTransfer`, which waits for the lock of the request after it has read it, and reads again |
| `AssignIncomingEvent`, `AssignOutgoingEvent`, `MarkEventOutOfScope` | the reconciliation by hand |
| `MakeTransfer` | the bank: any amount, with the code of a request or without |
| `Earn`, `Spend`, `NewDay` | credits, payments by players (topup money first), midnight |

`Settle` is `settleWithdrawalPayout`, which three of them call. Every other
handler takes its advisory lock and the lock of the wallet before it reads, and
is one action. The administrator may transfer at any time, also for a request
that was taken back meanwhile. A deposit that belongs to an intent is not here
but in `BookingSaga` and `FeeReceipts`; an incoming transfer of this module has no intent.

### Runs

| Run | Instance | Shows |
|---|---|---|
| `money`, part withdrawals | 1 player, 1 provider, 2 requests, 2 transfers, amounts below and equal to what is asked for | `ReservedIsOwed`, `RefundsAreAccepted`, `PaidOrReturned`, `WalletConserved` |
| `sentBack` | 1 of each | violates `MoneySentIsNotReturned` |

One request per wallet is open at a time, so two requests show one after the
other, with the fee of the second depending on what became of the first, and
both wallets at once. Two transfers pay one request in two parts, the second
with an excess. A gross amount of 130 and an allowance of 100 make the first
fee round down to nothing and the second round up to one. Bounds: `MaxEarned`
on what a wallet earns from the platform, and the finite ids. Only safety is
stated, so no fairness is: what moves a request on is an administrator.

### Proofs (`WithdrawalsProofs`)

For any wallets, requests, transfers, amounts and allowance: the inductive
invariant (`WithdrawalsCorrect`) and from it `ReserveIsOwed` (what a wallet has
reserved is what its one open request still has to pay), `RefundsGoThrough`
(the withdrawable part stays within the balance, so `postLedgerEntry` turns no
refund down), `TransfersAreExplained` (allocations add up to their transfer),
`NothingPaidIsReturned` and `WithdrawalsTypeCorrect` (no balance goes
negative). The parts need one another: that `finalizePartialWithdrawal`, which
does not look at the reserve, leaves it non-negative follows from
`ReservedIsOwed` and from `paid <= amount`; that a webhook pays the right
amount, from the second look under the lock (`OneRequestChanges` is the common
step of all that change a request).

Three properties are sums over sets of requests or events.
`EarningsAreConserved` (`WalletConserved`): what a wallet earned is in it, was
paid out or kept as a fee. `PayoutsHaveTransfers` (`PayoutsAreExplained`): a
request was paid by its own events and by hand. `AllowanceIsFair`
(`AllowanceIsGivenOnce`): the fees of a day's requests differ from one per cent
of what exceeds one allowance by the rounding of each, at most half a unit. The
last two are in no run, which has room for properties that a smaller change of
the code breaks; they hold on its instance.

Such sums can be reasoned about although induction over sets with a predicate
as parameter is beyond the provers: `SetSums` shows that a law that fails for
some finite set fails for a smallest one (`SmallestSubset`, from the library's
theorem that strict inclusion of finite sets is well founded) and derives a
contradiction, once for each law: a sum of naturals is a natural, a sum changes
by what its one changed entry changes, disjoint sums add up.

## 6. MatchFunding, FeeReceipts, MatchRules: the money of a match

`MatchFunding` is one match from `MatchCreated` to its settlement or
cancellation, in three services. `match`, `joins`, `issued` and `decided` are
matchmaking's (`decided` is what it made of the answer to a command it issued);
`booking` and `commands` are venue's (`commands` keeps the answer to each
command it has decided: `match_booking_commands`); `funding`, `contributions`
and `poolReserved` are finance's; `paying` is payments between their last read
and their commit; `mail` the events in flight, `lost` those given up.

| Actions | Code |
|---|---|
| `RequestJoin`, `ReleaseExpiredApprovedJoins`, `WithdrawJoin`, `WithdrawFromPaidBookingMatch` | the players of `matches.ts`, `matchLifecycle.ts` |
| `RequestMatchFundingAtCutoff`, `CancelMatchAtCutoff`, `CancelMatchByOrganizer`, `CancelExpiredDepositMatch`, `FinalizeConfirmedPolicyCancellation` | the sweeps and the organizer; `BeginResolution` issues a command |
| `ApplyMatchBookingResolution`, `HandleSettleResolved`, `HandleCommandResolved`, `CancelWithoutBooking` | what matchmaking makes of venue's answer, by HTTP or by event |
| `ActivateMatchHold`, `ResolveMatchBooking`, `ReleaseHeldMatchBooking`, `ReapExpiredMatchBooking`, `LeaveMatchCheckout`, `CancelBookingByOwner`, `ShutdownCancelsBooking`, `CompleteMatchBooking` | the booking at venue; `resolveMatchBooking` decides each command once, by status and revision |
| `HandleMatchCreated`, `HandleJoinApproved`, `StartPayment`, `CommitPayment`, `HandleMatchFeeRefundRequested`, `HandleMatchConfirmed`, `HandleMatchSettlementRequested`, `HandleMatchBookingResolved`, `HandleMatchCancelled`, `HandleMatchBookingCancelled`, `HandleMatchResultFinalized` | finance's consumers; `StartPayment` and `CommitPayment` are two steps because `reserveContribution` locks only the contribution |
| `HandleDepositPaid`, `HandleJoinPaid`, `HandleFunded`, `HandleBookingCompleted`, `HandleShutdownBookingCancellation`, `FinalizeResult` | matchmaking's consumers, and its results as an event |
| `GiveUp` | an event whose handler throws twice is dropped or set aside |
| `MatchPhaseEnds` | the clock: deposit, until the cutoff, the grace of the hold, after |

Consumers have no prefetch of one and do not wait for a handler before they
start the next, so any event in flight may be handled next, at any age; the
model allows every order. Bounds: `MaxRequests` joins requested and commands
issued, and the finite `Joins` and `Commands`. The instance has one place
beside the organizer's, two players who may take it, one after the other, and
two commands, so that an answer may be to an attempt that is no longer current.
Fee 6, share 6, price 10 and reserve 2 satisfy what `calculateMatchFunding`
returns.

* `ReserveIsOwed`: what the platform has reserved for the match is what its paid
  contributions and its locked result reserve account for.
* `NoMoneyIsStranded`, at rest (no event in flight, none lost, no payment
  running): a cancelled match keeps nobody's money, but for payments that the
  cancellation overtook (`overtaken`; section 13 says how).
* `ConfirmedCourtIsPaid`, at rest: a court confirmed for a match is paid for.
* `CourtIsPurchased`: the three services implement `CourtPurchase`.

`CourtPurchase` is the match as its players see it, without services, commands,
revisions or events: a court that is free, bought, cancelled or gone; funds that
are open, committed, spent or closed; and each player's money, out, in, spent or
back. The court is bought only while the whole price is committed (`Commit`,
`Buy`). The money is spent, everybody's at once and at the full price, on a court
that was bought (`Spend`); it goes back to all of them only if the match did not
buy the court (`Close`; an organizer who had paid for it before keeps it), or if
it was cancelled after they had paid (`Undo`); the commitment is given up only if
the court was not bought (`Free`). The mapping reads the court off the
booking and off venue's answers (`WasBought`), the funds off `funding.status`, and
the money off the contributions, of which the organizer's counts only when he
pays it for the match. Two things are left to the services. `GiveBack` may take
a guest's money back at any moment, also after the court was bought, and `Pay`
may come late: in both cases finance later finds that the contributions are not
those of the price, and section 13 says what then happens. And nothing promises
that a court which was bought is paid: events may be lost. At rest, and with
none lost, that is `ConfirmedCourtIsPaid`.

`FeeReceipts` is how the money gets to a contribution, and topups: the branches
of SePay's webhook that `BookingSaga` leaves out. SePay repeats a call that is
not answered, also while it runs. `Look` is what `handleIncomingTransfer` reads
without a lock (the receipt, its intent, the contribution), which decides the
branch; `CreditTopup`, `CreditAdditionalReceipt`, `CreditLateFee`, `ReserveFee`,
`CreditPartOfFee` and `RecordUnmatchedReceipt` are the transactions of the
branches, which lock and look again; `AnswerRepeat` finds the receipt booked
meanwhile, `CallFails` rolls back. Beside them run payments from the balance,
cancellation, settlement and the end of the window. `ReceiptsAreBooked`: a
transfer that was answered is booked, and what came by matched transfers is in
the balance or in the one fee the player owes. Two transfers, two intents of the
fee and one of a topup; amounts of 4 and 7 are less and more than the fee of 6,
and what the balance holds at first pays it exactly.

`MatchRules` is `matchRules.ts`: reading a score sheet and dividing money. The
reading is compared with the game: the state is a match played rally by rally
by the laws of badminton (`WinRally`), which know nothing of the code, and the
players may stop at any moment. `SheetsAreThoseOfPlay`: what they may write down
is accepted and gives the match to who is ahead, and nothing that could not have
been played is accepted.
The run plays sets to 3 with a cap of 5 instead of 21 and 30, which keeps the
three ways a set can end (by the point, by two points, by the cap), in best of
three and of five: 112,000 scores.

### Proofs (`MatchFundingProofs`)

For any joins, commands, places and prices with
`FeePerSlot * Slots + OrganizerShare = BookingPrice + ResultReserve`
(`FundingAssumption`): `FundingCorrect` and from it `ReserveIsAccounted`. That
the reserve is owed is not inductive: when a settlement takes it, nothing says
that all contributions are paid, that a contribution is not paid twice or that
the attempt is the one venue answered.
`FundingInv` says so: contributions follow their joins and the events still to
come, the funding's attempt has an answer once it is settled, and a locked
reserve means settled contributions.

Two theorems are about a match at rest, a third about its steps; they follow
events through the services.

* `NothingIsStranded` (`NoMoneyIsStranded`), from `MatchInv`. A cancelled match
  whose money is not back is one of which finance is still to be told
  (`CancelFollows`), and a fee that is paid for it is one of which matchmaking,
  or finance, is (`FeeFollows`); what finance has closed it has returned
  (`Returned`). That each way to cancel and to give up a place posts its event
  needs `DeskRules`, a theorem of its own (`SeatsAreKept`): joins never outnumber
  the places, and one settlement at most is drawn, after the cutoff, from when on
  no join waits for its payment.
* `CourtsArePaid` (`ConfirmedCourtIsPaid`), from `CourtPaidInv`. Finance pays
  only for the attempt it is waiting for, and stops waiting when venue revokes
  the hold or the match is cancelled. So a settlement that is still on its way to
  venue must be the one finance waits for, or one that venue will refuse
  (`OnTheWay`); a court that is sold, one for which finance has paid, or still
  waits with the answer on its way (`PaidFor`). What venue will refuse is
  `NeverSold`: the hold is gone, no settlement can be drawn, or the booking is at
  a later revision than the one that was (`Late`), and that lasts. Revisions are
  what decides: an answer that a hold was revoked carries a later one than the
  settlement it revokes (`Revisions`, `Attempts`), while a settlement that bought
  the court was drawn at no earlier one than any such answer (`Sold`).

`PurchaseIsKept` (`CourtIsPurchased`) is the refinement: `PurchaseInit` maps the
initial states, `PurchaseStep` every step to one of `CourtPurchase` or to none
that the players see. Its invariant adds to `CourtPaidInv` that a court which was
bought is not held again (`StaysBought`). Outside finance only the booking moves
(`CourtTurnsOn`); that the court is sold to a committed funding is `OnTheWay`:
a settlement that venue grants is the one finance waits for (`CourtStep`). In
finance the booking stands still, so whatever a handler does to the funding has
to leave a court that is bought committed or paid for, which is `PaidFor` after
the step (`CourtIsLeft`); it holds with events lost, for finance then waits. That
the price is all there when it is spent is what `assertFullyReservedFunding`
looks at (`PriceSeen`), that the court was bought is that the funding of a held
court is settled only for the attempt venue has confirmed
(`SpentOnlyOnTheWinner`, a part of `FundingInv`).

All three start from what a step can do at all: what it posts (`NewLetters`), whose
events it takes (`DeskTakes`, `CourtTakes`, `FinanceTakes`), and which rows it
moves on (`RowMovesOn`, `CourtMovesOn`, `AttemptEnds`).

`FundingAddsUp` proves the assumption of `calculateMatchFunding` for any price
and ratio in both disciplines, and `ReserveIsDividedUp` that the result reserve
is given to the players to the last unit, whatever the outcome.
`WebhookBooksReceipts` proves for any receipts and intents that an answered
receipt is booked for exactly what was received, and that the balance never
becomes negative; `ReceiptsAreBookedOnce` (`ReceiptsAreBooked`) that all
receipts together are the balance and the fee (`MoneyAddsUp` follows one entry of
the sum at a time). `SheetsAreRead` (in
`ResultsProofs`) proves `SheetsAreThoseOfPlay` for any length of a set and both
formats, where the run has short sets. `SheetInv` says what a sheet that is
played looks like: every set is one that the code reads as completed, and
the one in play as unfinished without winner (`EverySetIsRead`), nobody has won
the match before the last set, the sets are as many as both sides have won
together, and nothing is in play once the match is won. The converse is
arithmetic of one set (`ReadSetsArePlayed`): every score the code accepts is a
rally of its leader away from one it accepts as unfinished.

## 7. PartnerInvites

The place beside the organizer of a doubles match. `roster` is `match_joins`,
`invite` the newest invitation, `refunds` the `MatchFeeRefundRequested` events.
The organizer invites somebody who pays himself (`InviteSelfPaying`,
`AcceptAndPay`), or pays first (`InviteAndPrepay`, a join in the invitee's name
that `InviteToPrepaidPlace` offers to the next and `AcceptPrepaidPlace` takes);
others join by `RequestJoinSide`. `PayJoin` is the payment at finance;
`JoinPaymentCompleted` its handler here, which may come after
`ReleaseExpiredJoins`, `ExpireSelfPayInvite`, another invitation or
`CutoffPasses`. `WithdrawFromRoster`, `CancelPartnerInvite` and
`DeclinePartnerInvite` give a place up.

`PaidJoinIsSeatedOrRefunded`: a fee whose payment was handled keeps a place or is
being given back, never both. Run `platform` has two players and three joins
(the bound `MaxRosterJoins`), which is enough to fill the place, lose it and
fill it again while the first payment is under way. `PaidJoinsAreSettled`
(in `PlatformProofs`) proves it for any players and joins: each step changes few rows, and `RowInv`
says of a row that a join that keeps a place is not refunded, and one that is
out stays out. Run `thirdPartner` shows that `OnePartner` fails.

## 8. MatchResults

The result of one played match: the `kase` row, the claim that was proposed
with its photos (`proposal`), who has claimed (`claimants`), the evidence of a
dispute (`exhibits`), what players have pressed (`said`, `agreed`, `appeals`),
the `ruling`, the `page` a player looks at, and the finals that were
`announced`.

| Actions | Code |
|---|---|
| `OpenResultCase` | `openResultCase` |
| `FirstClaim`, `ReplaceClaim`, `AnswerByClaim`, `Confirm`, `Object`, `ObjectNoMatch`, `ReportIncident` | `resultClaimsV2.ts`; an answer carries the version of its page (`assertVersion`) |
| `SubmitDisputeEvidence`, `MarkEvidenceDone`, `CloseEvidenceByRule`, `CloseEvidenceInConflict`, `CloseEvidenceUnread` | the window of evidence, `resultDisputeV2.ts` |
| `PublishAiRuling`, `AiRulingToAdmin`, `SubmitAppeal`, `AcceptRuling` | a ruling and its appeal |
| `SweepDeclaration`, `SweepSilence`, `SweepToAdmin` | the sweepers at deadlines |
| `LegacyClaim`, `LegacyConfirm`, `LegacyDispute`, `LegacyObject`, `LegacyIncident`, `ProviderRecommends` | cases under the first rules, which run beside `ra_v1` |
| `DecideAdminResult` | the administrator |

Handlers lock the match and look again, so each is one step. What photos show is
a choice: valid, some foreign, all foreign. The instance is one player against
two, of whom one was paid for by the other, with both sets of rules.

`OneFinalResult`: one final, announced once. `HardCasesNeedTheAdmin`: incidents,
appeals and foreign photos are decided by a person, and a rule names only a
winner a valid photo supports. `EarlyFinalIsAgreed`: a case closed by consent
has in every losing team somebody who agreed to the very outcome that became
final, whatever was replaced between his look and his press.

`ResultsProofs` proves the three for any teams and payers (`OneResultPerMatch`,
`HardCasesAreDecided`, `LosersHaveAgreed`) from `ResultInv`: which papers, pages,
rulings, appeals and consents can exist in which status. Without it a `Confirm`
could find an old page on a new proposal, or a ruling an appeal.
`PayerHasTheLastWord` is stated in the module and fails (section 13).

## 9. SeasonRewards

From results to prizes. `ReserveRatedResults` decides, in the transaction that
makes a result final and under the locks of the players, for whom it is rated
(`encounters`); `signals` are `RatingPeriodReady` events; `HandleRatingPeriodReady`
writes `rating`, all that is reserved before it first. The sweeper of a reward
programme reads results, then ratings, then computes (`CountUnresolved`,
`CountUnwritten`, `ComputeAwards`: three statements, three steps); `ApproveFinal`
is the administrator. Finance opens `payout`s, takes bank details
(`GiveDetails`, `SubmitPayoutInformation`), cancels expired claims
(`FindExpiredClaims`, `CancelExpiredClaim`: a query and an update) and records
transfers (`MarkPayoutPaid`).

* `RatedFarApart`: two rated results of a player against the same opponents are
  the repeat window apart, though the clock is read before the locks are got.
* `AwardsAreComplete`: prizes were computed from all results of the window.
* `NoResultIsSkipped`: when a result is written, all that come before it are
  written before it, each once, whatever the order of the signals.

The instance is two matches of the same two players within the window, and a
third user who has not declared a level. That a ranked match which will be
played is confirmed before the programme ends is an assumption of the model.
`ResultsProofs` proves `RepeatsAreApart`, and `ClaimsStayMade` (a claim made in
time is paid or stays payable), for any fixtures, teams and windows, and the
other two:

* `PrizesAreComplete` (`AwardsAreComplete`) from `SweepInv`: once the end of the
  programme has passed and every match of the window is final, no encounter of
  the window is added any more, and one that is written stays written; so what
  the first two statements of the sweep saw still holds when the third computes.
* `ResultsAreInOrder` (`NoResultIsSkipped`): what a handler writes is a
  chronological list of all that was unwritten (`Chronological`; a lemma shows
  that a finite set under a total order has such a list), so every earlier
  result of the player is in the rating already or earlier in the list.

## 10. Shutdown

Closing of courts or of the whole venue: `order` is `operational_shutdowns`,
`item` `operational_shutdown_items`, `commitment` holds and bookings, `open`
`courts.active`, `refundAsked` refunds asked of finance. `ConfirmShutdown` is
`confirmOperationalShutdown`, which records an item for every booking it has to
cancel and deletes holds; `ProcessShutdownItem`, `ShutdownItemFails`,
`RetryPendingRefund` and `RefreshShutdownStatus` are the jobs of the scheduler;
`RecordShutdownRefundCompleted` is finance's answer; `Reactivate` and
`ActivateCourt` open again. Bookings go on meanwhile: `CommitSlot`, `BookHeldSlot`, `PaySlot`, `SettleSlot`, `ExpireSlot`,
`CancelSlot`, `MoveSlot`, `CompleteSlot`.

* `CutoffIsKept`: nothing outlives the cutoff of a shutdown, except what an item
  is about to cancel or a person has been told of.
* `EndedShutdownIsDone`: a shutdown that ended has cancelled what it had to.
* `ShutdownItemsEnd` (run `background`): every item ends or a person is told,
  because `startReapScheduler` comes back every thirty seconds.

Two courts and two shutdowns (a court's within the venue's) in run `platform`,
one booking, three days; two attempts instead of three; in run `background` one
shutdown.

`PlatformProofs` proves the two invariants for any courts, slots, shutdowns and
days (`CutoffsAreKept`, `EndedShutdownsAreDone`), with `ShutdownTypeCorrect` and
`InactiveCourtsAreClosed` (a court is not open while a shutdown that covers it is
inactive, which no run checks). `ShutdownInv` says of each slot (`SlotInv`) how
commitment, item and shutdowns agree: an item has a booking, and while that
booking lives the item is about to cancel it or a person knows of it; a booking
whose shutdown has ended is over; whatever outlives the cutoff of a shutdown in
force is a booking with such an item. A court that an inactive shutdown covers
stays closed (`ClosedUnder`), so nothing new comes under it.
`ShutdownItemsEnd` is a liveness property and
stays with the run.

## 11. EventBus, EventDelivery, IdleRelease

`EventBus` is the path of an event: `WriteOutbox`, the relay's
`FetchUnpublished`, `PublishBatch`, `MarkPublished`, the connection (`wire`,
`ReachBroker`, `ConnectionBreaks`), the durable queue (`bound`, `queue`), and the
consumer's `StartHandler`, `CommitHandler`, `HandlerFails`. An event that fails
for good or twice is given up (`GiveUp`): with a record in `quarantine`, which
only finance writes and whose failure it swallows, or without one (`lost`).
Faults: a relay stops
between any two steps (`RelayStops`), two relays run during a deployment (the
lock of `FOR UPDATE SKIP LOCKED` ends with the query), a connection takes what it
has buffered with it, a handler fails once or for good, a consumer stops before
its acknowledgement (`ConsumerStops`). Two relays, one event, two copies at the
broker (`MaxCopies`): events do not meet in this path, so one shows all.

`EventDelivery` is what the other modules assume: an event takes effect at most
once, after the transaction that caused it, or is given up; no order is
promised. `BusImplementsDelivery` proves that `EventBus` implements it, with
`caused` the rows that are written, `effects` the commits of the handler and
`forsaken` what was given up or dropped. `NothingVanishes` proves that there is
no other way to lose an event: not by a relay or a consumer that stops between
two steps, not by two relays, not by a repeated publication. `EventsArrive` (run
`background`) checks that no event stays on its way for ever: it is applied,
given up or dropped, if relays and consumers are not stopped at the same step for
ever (strong fairness for the steps a stop disables). Neither says that a loss is
recorded; section 13 has what the comments claim.

`IdleRelease` is `startWithIdleRelease`: requests (`Touch`), the timer
(`CheckIdle`) and `Stop` put tasks into a chain of promises; `BeginTask`,
`StartSucceeds`, `StartFails` and `WorkStops` are what happens at their awaits.
A start or a stop function that fails may leave work running that nobody can
stop: `works` is what can be stopped, `leaked` what cannot, `failures` counts
the starts and stops that failed.

* `OneUnitOfWork` is about all that runs (`Running`: `works`, `leaked` and what a
  start is building): one unit at most and one more for each failure; and nothing
  but what failures have left while the work is released, until it is built
  again, and after the service has ended. Without failures this is: the work is
  never there twice, not even while it is built.
* `RequestsResume` (run `background`): a request brings the work back, since
  promises settle.

At most four tasks wait (`MaxTasks`) and two starts or stops fail (`MaxFailures`);
the second may come after the service has resumed from the first.
`WorkRunsOnce` proves the invariant for any bounds. Its argument (`IdleInv`):
there is one start at most, queued or running, and only while no work runs; and
until a service that ends has run its stop, that stop is in the chain
(`WorkOK`).

## 12. Accounts and Providers

`Accounts`: `lockAccount` decides under an advisory lock, `unlockAccount` by a
status it read before its transaction, hence `CallLockOrUnlock`, then `CommitLock`,
`RefuseLock` or `CommitUnlock`, then `PublishLockState`, which writes Redis after
the commit; `SyncLockedAccounts` is the start of the service.
`CommunityAccountLocked` is the consumer of community-service, by versions.
`AnAdminRemains`: two administrators who lock each other never leave the platform
without one. `CommunityFollowsTheAccount`: once no event of a user is under way
and none was dropped, community's copy agrees with the account. Two
administrators, three changes, two calls at a time.

`Providers`: `RegisterProvider`, `CheckPending` then `ApproveProvider` or
`RejectProvider` (the status is checked before the transaction),
`VenueAccountLocked` by events in any order, `GrantProviderRole`.
`UnlockNeverApproves`: an unlock approves nothing but what a lock suspended.

`PlatformProofs` proves these for any users, administrators and changes
(`SomeAdminStays`, `CommunityAgrees`, `UnlocksApproveNothing`). Community's
agreement needs `ReplicaInv`: a notice of the newest version says what the
account is, community never has a version the account has not reached, and a
notice is recorded as processed only when the copy is at least as new.

## 13. Divergences

Six are runs, with a counterexample each: `lostHold`, `healedSale`, `dropped`,
`reordered`, `sentBack` and `thirdPartner` (see `findings` in `PROJECT.json`).
Others were met while modelling and are described here. Paths are of the
service that is named.

Schedule and payment of bookings:

* **A cancelled booking confirmed.** `handlePaymentCompleted`
  (venue `eventConsumer.ts:93`) updates the row by id after it has read status
  and clock; the reaper may cancel it in between. The comment at line 67 says
  that a released booking cannot be confirmed backwards. The slot is free all
  the same (`PaidInTimeIsNeverExcluded`), so nobody is harmed by it.
* **A transfer that is never recorded.** When the player has left the checkout
  the booking is deleted, venue answers 404 to `fetchPaymentStatus`
  (`venueBookingClient.ts:28`), and the webhook fails each time. BR-FIN-17
  (`finance-disputes.md:57`) wants every transfer in a queue at least.
* **What a partial refund leaves is not released.** Every cancellation sets
  `cancelledAt`, and `releaseBookingRevenue` skips such rows
  (`revenueRelease.ts:35`). `finance-disputes.md:277` says that the rest is
  released as usual; the test of the release expects what the code does.
* **A cancelled booking disputed.** A cancellation without refund that is
  handled before the confirmation marks no row (`refund.ts:301`), so the
  revenue that is recorded later can be disputed. `CancellationIsUndisputed`
  holds with `InOrder` and fails without.
* **A refund after the release.** `refundCancelledBooking` does not look at
  `releasedAt` (`refund.ts:267`): a cancellation handled a day late takes the
  refund from the pending revenue of other bookings. `PendingIsOwed` holds with
  `BeforeEnd` and fails without.
* **No dispute for a booking paid from the balance.** `createDispute`
  (`dispute.ts:76`) looks for a completed intent; `finance-disputes.md:462`
  asks nothing of the way of payment.
* **Courts and prices without the lock of the schedule.** `deactivateCourt`,
  `deactivateVenueCourts` (venue `court.ts:71-146`) and `setOperatingHours` look
  for bookings and then update, without the lock that creates them.
  `savePricingRules` (`pricing.ts:89-107`) reads the highest version outside its
  lock, so two concurrent saves share a version and a price counts twice; a new
  version that omits a weekday leaves the old rules of that day effective.

Money of a match:

* **A fee that stays reserved.** `reserveContribution` (finance
  `matchFee.ts:204-248`) locks only the contribution: a cancellation handled
  between its last read of the funding and its commit finds nothing to refund.
  The same happens when `MatchCancelled` overtakes `MatchCreated`, which then
  opens a collecting funding, and to the organizer's deposit when the match is
  cancelled first (matchmaking `matchLifecycleEventConsumer.ts:236-246`).
  `NoMoneyIsStranded` excepts exactly these (`overtaken`).
* **A fee that is given back while its match is settled.** Venue answers
  `held_revoked` to a withdrawal also when another one has moved the revision
  (`booking.ts:371-374`), and then moves nothing. If two players withdraw at the
  same revision, the second answer may be applied (`matchLifecycle.ts:69-102`;
  a retry after the cutoff is allowed, `:232-239`) when the place of the first is
  filled again and the settlement is drawn, at a revision that venue still
  accepts. The player is withdrawn and his fee refunded, the court is sold to
  the match, and finance finds a contribution missing
  (`assertFullyReservedFunding`, `matchFee.ts:394-408`): its handler throws and
  the answer is given up, with the court sold and not paid. It takes two
  places beside the organizer, where the run has one; TLC found the behaviour on
  an instance of `MatchFunding` with two places, three joins and three commands.
* **A payment after `MatchConfirmed`.** A payment that was let through in time and
  commits when the place has been given to somebody else, whose payment confirmed
  the match, makes one contribution too many until its refund is handled: venue's
  answer, handled in between, throws in the same way.
* `handleMatchBookingResolved` sets the match `confirmed` without a look at its
  status, and the settlement handlers lock the booking's id, not the match's.
* `closePaidBookingMatchLayer` sends a `MatchCancelled` at which venue's consumer
  always throws; it is dropped.
* `requestFundingIfReady` answers true for ever once `fundingRequestedAt` is set.
* The shutdown and the settlement of a cancelled match do not withdraw joins
  that are `reserved`; cancelling a cancelled match sends `MatchCancelled` again.
* `MatchConfirmed` throws while the refund of an extra contribution is under
  way, and `settlePaidBookingFunding` fails closed when the revenue of the
  booking is cancelled; both events are given up.
* When the owner cancels the confirmed booking of a match at venue, the match
  stays `confirmed`.
* A partial match fee is credited while its intent stays pending; partial fees
  and topups are not withdrawable, late and excess ones are. A payment from the
  balance judges the window by the clock at the start of the request.
* The race of run `thirdPartner` also lets `markPrepaidSlotPaid` send the new,
  unpaid invitation, and leaves two prepaid places of which a cancellation
  refunds one.

Results and rewards:

* **The payer's last word.** The comment at `resultDisputeV2.ts:279` (BR-RA-23)
  has the acceptance of a partner whose slot a mate paid wait for the payer; the
  code (304-311) waits for the payer of the member who accepts now only.
  `PayerHasTheLastWord` fails when another mate accepts later.
* The status `acceptance_grace` is never written, the second-claim path of
  `matchResults.ts:154-158` cannot be reached, `now` is read before the lock,
  and two parallel uploads may pass the limit of draft photos
  (`resultOcr.ts:156`). An incident may open a case for a confirmed match that
  is cancelled later.
* A ranked match confirmed after the end of a programme escapes its
  reconciliation; when the last `RatingPeriodReady` is dropped the programme
  reconciles for ever; `updateSeason` can shrink a season below its programme;
  bank details may be replaced between the transfer and `markPayoutPaid`.

Shutdowns:

* A held booking whose item fails and whose late payment is refunded has its
  item `refunded`: reactivation is allowed although the booking is held, and a
  later shutdown skips it. The properties except it (`reported`).
* `activateMatchHold` passes `booking.createdAt` where the others pass
  `hold.createdAt`, so the deposit of a match is refused while winding down.
* When a court is closed for itself and then with its venue, ending both (the
  court's first) leaves it inactive until `activateCourt`.

Event bus:

* `FOR UPDATE SKIP LOCKED` runs outside a transaction, so two relays publish the
  same row; the channel has no confirms, so rows that are marked may be lost
  with a connection; a topic exchange drops what comes before a queue is bound.
* The second of two deliveries that run at once fails on the unique key after
  the first has committed, and is given up although nothing is wrong.
* "A failed initial bootstrap leaves no background work running"
  (`eventbus/src/index.ts:239`): it does. `start` builds its array from left to
  right, and what it had built when a connection failed keeps running (`leaked`);
  the next request starts a second set. A release whose stop function fails
  leaves work in the same way. `OneUnitOfWork` bounds what runs by the number of
  such failures, and `released => leaked = 0` fails after the first.
* "Retry exactly once, then put it into quarantine and drop it: no data is lost"
  (finance `eventConsumer.ts:154-156`; the comment at 76-79 says that the failure
  of the write is swallowed): an event whose record cannot be written is dropped
  all the same. The comment at `eventbus/src/index.ts:151` asks consumers that
  have such a table to record; venue (`eventConsumer.ts:202`), account (51),
  community (`accountLockedConsumer.ts:54`) and matchmaking
  (`matchLifecycleEventConsumer.ts:447`, `ratingEventConsumer.ts:77`) have none
  and drop the event without a trace (`lost`). A given-up event is therefore not
  known to be lost.

Accounts:

* An unlock that races with a lock leaves the Redis flag of an active account
  set; errors of Redis are swallowed and `syncLockedAccounts` never clears a
  flag.
* Venue's `handleAccountLocked` ignores `stateVersion`, against the comment at
  `lib/eventConsumer.ts:30-31`: a late lock suspends the profile of an active
  account. An account locked while its profile is pending is approved and
  visible; an approval and a rejection of one profile may both commit.
* `verifyEmailCode` submitted twice sends `UserRegistered` twice (comment at
  `verification.ts:44-45`), and users verified by Google get none.

Others:

* Notifications: "each row is sent successfully at most once"
  (`notifications.ts:133`) does not survive a crash between sending and update;
  rows never tried of a dropped event are not retried.
* Community: `removePost`, restoring and hiding race; a report stays open when
  its content is removed first; `setTicketStatus` takes no lock against
  `decideRatingCorrection`.

## 14. Not modelled

* Registration, sessions, passwords and codes: one row or one key per operation;
  what they promise is secrecy.
* Notifications, the catalogue, prices, opening hours, search and community:
  single-row edits and read-only queries. They restrict which requests of the
  models are accepted, and no property is about them; their races are listed
  above.
* The gateway, the AI assistants, object storage and shared types are stateless
  or external. The web application is two fifths of the code by lines and keeps
  no state the services rely on; with the parts above it is why the modelled
  lines are a minor share of the repository.
* The arithmetic of ratings, the classification of photos, the confidence of a
  reading: choices of the environment.
* The leases that matchmaking's outbox puts on its rows (the bus is venue's and
  finance's variant), and row locks: PostgreSQL breaks off one of two
  transactions that wait for each other, and the event is delivered again.
* The schedule, the match and the shutdown on one slot together; section 2.
* Formats of messages, permissions and texts.
